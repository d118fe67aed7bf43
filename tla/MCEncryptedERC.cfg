SPECIFICATION Spec
CONSTANTS
  Users = {u1, u2}
  Depositors = {d1}
  Tokens = {t1}
  FeeTokens = {}
  NoToken = NoToken
  Listable = {t1}
  NoAuditor = NoAuditor
  Modes = {TRUE, FALSE}
  FineTokens = {}
  CoarseTokens = {t1}
  Factor = 2
  ScaleDown <- MCScaleDown
  ScaleUp <- MCScaleUp
  Amounts = {1}
  Randoms = {1}
  PctDrift = {0}
  ProofIds = {p1, p2}
  NoProof = NoProof
  InitialErc = 2
  MaxTokens = 1
  MaxIndex = 6
  MaxUses = 2
SYMMETRY Symmetry
INVARIANTS TypeOK AlwaysDecryptable SnapshotsCovered MintedOnce
PROPERTIES ImplementsLedger OthersKeepProofsValid
CHECK_DEADLOCK FALSE

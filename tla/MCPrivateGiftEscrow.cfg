SPECIFICATION GiftsSpec
CONSTANTS
  Users = {u1, u2}
  Depositors = {escrow}
  Escrow = escrow
  Tokens = {t1, t2, t3, t4}
  FeeTokens = {t3}
  NoToken = NoToken
  Listable = {}
  NoAuditor = NoAuditor
  Modes = {TRUE}
  FineTokens = {t1}
  FinerTokens = {t4}
  CoarseTokens = {t2}
  Factor = 2
  ScaleDown <- MCScaleDown
  ScaleUp <- MCScaleUp
  Amounts = {0, 3}
  Randoms = {1}
  PctDrift = {0}
  ProofIds = {p1}
  NoProof = NoProof
  InitialErc = 3
  MaxTokens = 2
  MaxIndex = 4
  MaxUses = 1
  GiftIds = {1, 2}
  NoGift = NoGift
  MaxTime = 1
SYMMETRY Symmetry
INVARIANTS GiftsTypeOK EscrowIsExact Solvent
PROPERTIES ClaimsPayOut
CHECK_DEADLOCK FALSE

--------------------------- MODULE MCEncryptedERC ------------------------------
(* EncryptedERC for TLC: the decimals and the symmetries of its instances. *)
EXTENDS EncryptedERCRefinement, TLC

CONSTANTS
  FineTokens,     \* tokens with more decimals than the contract
  CoarseTokens,   \* tokens with fewer
  Factor          \* the scaling factor of both

MCScaleDown == [t \in Tokens |-> IF t \in FineTokens THEN Factor ELSE 1]
MCScaleUp   == [t \in Tokens |-> IF t \in CoarseTokens THEN Factor ELSE 1]

Symmetry ==
  Permutations(Users) \cup Permutations(Depositors) \cup Permutations(ProofIds)
===============================================================================

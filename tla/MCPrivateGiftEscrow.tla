-------------------------- MODULE MCPrivateGiftEscrow --------------------------
(* PrivateGiftEscrow for TLC: the decimals and the symmetry of its instance. *)
EXTENDS PrivateGiftEscrow, TLC

CONSTANTS
  FineTokens,     \* tokens with more decimals than the contract
  FinerTokens,    \* tokens with more still
  CoarseTokens,   \* tokens with fewer
  Factor          \* the scaling factor

MCScaleDown == [t \in Tokens |-> IF t \in FineTokens THEN Factor
                                 ELSE IF t \in FinerTokens THEN 2 * Factor ELSE 1]
MCScaleUp   == [t \in Tokens |-> IF t \in CoarseTokens THEN Factor ELSE 1]

Symmetry == Permutations(Users)
===============================================================================

--------------------------- MODULE MCTreasuryDeposits --------------------------
(* TreasuryDeposits for TLC.                                               *)
EXTENDS TreasuryDeposits
===============================================================================

--------------------------- MODULE MCHistoryPurge ------------------------------
(* HistoryPurge for TLC: every array of at most MaxLength distinct indexes. *)
EXTENDS HistoryPurge

MCIndexes == 0 .. 4
===============================================================================

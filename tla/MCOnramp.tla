------------------------------ MODULE MCOnramp ---------------------------------
(* Onramp for TLC: which messages each burn transaction carries.           *)
EXTENDS Onramp, TLC

CONSTANTS t1, b1

OneMessage == t1 :> <<b1>>
===============================================================================

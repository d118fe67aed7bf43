------------------------------ MODULE MCOnboarding ------------------------------
(* Onboarding for TLC.                                                     *)
EXTENDS Onboarding
===============================================================================

---------------------------- MODULE MCPayrollRunner ----------------------------
EXTENDS PayrollRunner, TLC

Symmetry == Permutations(Items) \cup Permutations(Workers)
===============================================================================

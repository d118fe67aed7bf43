---------------------------- MODULE HistoryPurge -------------------------------
(***************************************************************************)
(* The loop of _deleteUserHistory (eerc/EncryptedUserBalances.sol): walk   *)
(* the amountPCTs array from its end, overwrite each entry whose index is  *)
(* at most transactionIndex with the last entry, and pop.  Array entries   *)
(* are represented by their index, which is unique; earlier purges leave   *)
(* the array in any order.                                                 *)
(***************************************************************************)
EXTENDS Integers, Sequences

CONSTANTS
  Indexes,          \* transaction indexes an entry may have
  MaxLength         \* bound: entries in the array

ASSUME IndexesAssumption == Indexes \subseteq Nat
ASSUME LengthAssumption == MaxLength \in Nat

VARIABLES
  input,            \* the array when the call starts
  transactionIndex, \* the argument
  amountPCTs,       \* the array in storage
  i                 \* the loop counter

vars == <<input, transactionIndex, amountPCTs, i>>

Arrays == UNION {[1 .. n -> Indexes] : n \in 0 .. MaxLength}

Entries(s) == {s[k] : k \in 1 .. Len(s)}

Distinct(s) == \A j, k \in 1 .. Len(s) : s[j] = s[k] => j = k

Init ==
  /\ input \in {s \in Arrays : Distinct(s)}
  /\ transactionIndex \in Indexes
  /\ amountPCTs = input
  /\ i = Len(input)

(* Mutant: pop without moving the last entry into the gap.                 *)
SwapAndPop_NoSwap(s, at) == [k \in 1 .. Len(s) - 1 |-> s[k]]

SwapAndPop(s, at) ==
  [k \in 1 .. Len(s) - 1 |-> IF k = at THEN s[Len(s)] ELSE s[k]]

Iterate ==
  /\ i > 0
  /\ amountPCTs' = IF amountPCTs[i] <= transactionIndex
                     THEN SwapAndPop(amountPCTs, i)
                     ELSE amountPCTs
  /\ i' = i - 1
  /\ UNCHANGED <<input, transactionIndex>>

Next == Iterate

Spec == Init /\ [][Next]_vars

(* When the loop ends the array holds exactly the entries credited after   *)
(* the snapshot, each once: the set filter that EncryptedUserBalances uses *)
(* for the purge.                                                          *)
PurgesExactly ==
  i = 0 =>
    /\ Entries(amountPCTs) = {x \in Entries(input) : x > transactionIndex}
    /\ Distinct(amountPCTs)
===============================================================================

------------------------- MODULE EncryptedUserBalances -------------------------
(***************************************************************************)
(* The per-user, per-token record of eerc/EncryptedUserBalances.sol and    *)
(* the storage operations EncryptedERC performs on it.                     *)
(*                                                                         *)
(* An ElGamal ciphertext is represented by what the key holder decrypts    *)
(* from it and by its randomness, [m |-> plaintext, r |-> randomness]: the *)
(* scheme is additively homomorphic in both, and the contract's hash of a  *)
(* ciphertext tells two of them apart exactly when m or r differ.  The     *)
(* all-zero ciphertext of an untouched account and the encryption of zero  *)
(* that a complete withdrawal leaves behind both decrypt to 0 and absorb   *)
(* the next credit, so both are Encrypt(0, 0).                             *)
(*                                                                         *)
(* amountPCTs is a Solidity array whose order is meaningless (the purge    *)
(* loop reorders it); every entry has its own index, so it is a set here.  *)
(* HistoryPurge checks the loop that does the purge.                       *)
(***************************************************************************)
EXTENDS Integers

Ciphertext == [m : Int, r : Int]

Encrypt(value, randomness) == [m |-> value, r |-> randomness]

AddCt(c, d) == [m |-> c.m + d.m, r |-> c.r + d.r]

SubCt(c, d) == [m |-> c.m - d.m, r |-> c.r - d.r]

BalanceHistory == [ct : Ciphertext, nonce : Nat, index : Nat]

AmountPCT == [amount : Nat, index : Nat]

EncryptedBalance ==
  [eGCT             : Ciphertext,
   balanceList      : SUBSET BalanceHistory,
   nonce            : Nat,
   transactionIndex : Nat,
   balancePCT       : Nat,
   amountPCTs       : SUBSET AmountPCT]

EmptyBalance ==
  [eGCT             |-> Encrypt(0, 0),
   balanceList      |-> {},
   nonce            |-> 0,
   transactionIndex |-> 0,
   balancePCT       |-> 0,
   amountPCTs       |-> {}]

-------------------------------------------------------------------------------
(* balanceList is a mapping keyed by hash(hash(eGCT), nonce): an entry     *)
(* with the key of an earlier one replaces it.                             *)

SameKey(e, c, n) == e.ct = c /\ e.nonce = n

Snapshot(b) ==
  [ct |-> b.eGCT, nonce |-> b.nonce, index |-> b.transactionIndex]

(* Mutant: a commit forgets the earlier balances of the nonce.             *)
Remember_LatestOnly(b) == {Snapshot(b)}

Remember(b) ==
  {e \in b.balanceList : ~SameKey(e, b.eGCT, b.nonce)} \cup {Snapshot(b)}

CommitUserBalance(b) ==
  [b EXCEPT !.balanceList = Remember(b),
            !.transactionIndex = b.transactionIndex + 1]

AddToUserHistory(b, pct) ==
  [b EXCEPT !.balanceList = Remember(b),
            !.amountPCTs =
               b.amountPCTs \cup {[amount |-> pct, index |-> b.transactionIndex]},
            !.transactionIndex = b.transactionIndex + 1]

AddToUserBalance(b, ct, pct) ==
  AddToUserHistory([b EXCEPT !.eGCT = AddCt(b.eGCT, ct)], pct)

(* Mutant: the loop of _deleteUserHistory compares with < instead of <=.   *)
PurgeAmounts_KeepsOwn(pcts, index) == {p \in pcts : p.index >= index}

PurgeAmounts(pcts, index) == {p \in pcts : p.index > index}

(* Mutant: nonce++ is missing.                                             *)
DeleteUserHistory_SameNonce(b, index) ==
  CommitUserBalance([b EXCEPT !.amountPCTs = PurgeAmounts(b.amountPCTs, index)])

DeleteUserHistory(b, index) ==
  CommitUserBalance([b EXCEPT !.amountPCTs = PurgeAmounts(b.amountPCTs, index),
                              !.nonce = b.nonce + 1])

SubtractFromUserBalance(b, ct, newBalancePCT, index) ==
  [DeleteUserHistory([b EXCEPT !.eGCT = SubCt(b.eGCT, ct)], index)
     EXCEPT !.balancePCT = newBalancePCT]

(* The credit of a deposit (the tail of EncryptedERC._convertFrom): unlike *)
(* _addToUserHistory it stores the amount under one index and commits the  *)
(* new balance under the next.                                             *)
ConvertCredit(b, ct, pct) ==
  CommitUserBalance(
    [b EXCEPT !.eGCT = AddCt(b.eGCT, ct),
              !.amountPCTs =
                 b.amountPCTs \cup {[amount |-> pct, index |-> b.transactionIndex]},
              !.transactionIndex = b.transactionIndex + 1])

(* Mutant: the hash that is looked up leaves the nonce out.                *)
VerifyUserBalance_AnyNonce(b, ct) == {e \in b.balanceList : e.ct = ct}

(* The history entries a proof stated over ciphertext ct may spend from:   *)
(* at most one, and none when _verifyUserBalance reverts with InvalidProof. *)
VerifyUserBalance(b, ct) ==
  {e \in b.balanceList : SameKey(e, ct, b.nonce)}

===============================================================================

------------------------ MODULE EncryptedERCRefinement -------------------------
(***************************************************************************)
(* EncryptedERC implements PrivateLedger: what an account holds is what    *)
(* its ciphertext decrypts to.                                             *)
(***************************************************************************)
EXTENDS EncryptedERC

HeldIn(bal) == [u \in Users |-> [i \in TokenIds |-> bal[u][i].eGCT.m]]

Ledger == INSTANCE PrivateLedger WITH held <- HeldIn(balances)

(* Every behaviour of the contract, whatever the order in which stale      *)
(* proofs, credits and settings land, is a behaviour of a plain ledger.    *)
ImplementsLedger == Ledger!Spec
===============================================================================

---------------------------- MODULE PrivateLedger ------------------------------
(***************************************************************************)
(* What the confidential token promises its users: an ordinary ledger.     *)
(* Value enters by a credit, leaves by a debit, moves without loss, and    *)
(* nobody parts with more than they hold.  No ciphertext, nonce, history   *)
(* or proof appears here; EncryptedERCRefinement shows that EncryptedERC   *)
(* implements it.                                                          *)
(***************************************************************************)
EXTENDS Integers

CONSTANTS Users, TokenIds

VARIABLE held     \* held[user][tokenId]: the private amount an account owns

Init == held = [u \in Users |-> [i \in TokenIds |-> 0]]

(* A deposit or a mint.                                                    *)
Credit(u, i) ==
  /\ held'[u][i] >= held[u][i]
  /\ held' = [held EXCEPT ![u][i] = held'[u][i]]

(* A withdrawal or a burn.                                                 *)
Debit(u, i) ==
  \E v \in 0 .. held[u][i] : held' = [held EXCEPT ![u][i] = @ - v]

(* A transfer, to oneself included.                                        *)
Move(u, w, i) ==
  \E v \in 0 .. held[u][i] :
    held' = [[held EXCEPT ![u][i] = @ - v] EXCEPT ![w][i] = @ + v]

Next ==
  \E u \in Users, i \in TokenIds :
    Credit(u, i) \/ Debit(u, i) \/ \E w \in Users : Move(u, w, i)

Spec == Init /\ [][Next]_held
===============================================================================

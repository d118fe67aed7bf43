--------------------------- MODULE TreasuryAccount -----------------------------
(***************************************************************************)
(* The transactions of one externally owned account, as the API sees them  *)
(* through its RPC node: payroll transfers and treasury deposits of an org *)
(* are all signed by the org's managed key (payroll/chain.ts), so they     *)
(* draw on one nonce sequence.  Payroll holds a lock for its transfers,    *)
(* deposits do not, so either may replace a transaction of the other.      *)
(*                                                                         *)
(* The chain and viem are external; this is what src/ relies on: a nonce   *)
(* is read from the pending count when a transaction is prepared, the node *)
(* refuses a nonce that is used up, two transactions with one nonce        *)
(* exclude each other, and waiting for the receipt of a transaction that   *)
(* was replaced in the pool returns the receipt of its replacement.        *)
(***************************************************************************)
EXTENDS Integers, FiniteSets

Outcomes == {"success", "reverted"}

TxState ==
  [status : {"unsigned", "signed", "pooled", "dropped"} \cup Outcomes,
   nonce  : Nat]

Account(Txs) == [next : Nat, tx : [Txs -> TxState]]

NewAccount(Txs) ==
  [next |-> 0, tx |-> [t \in Txs |-> [status |-> "unsigned", nonce |-> 0]]]

HasStatus(a, status) == {t \in DOMAIN a.tx : a.tx[t].status = status}

Pooled(a) == HasStatus(a, "pooled")

Mined(a) == HasStatus(a, "success") \cup HasStatus(a, "reverted")

(* prepareTransactionRequest and signTransaction.                          *)
PendingCount(a) == a.next + Cardinality(Pooled(a))

Sign(a, t) ==
  [a EXCEPT !.tx[t] = [status |-> "signed", nonce |-> PendingCount(a)]]

(* eth_sendRawTransaction.                                                 *)
NonceTooLow(a, t) == a.tx[t].nonce < a.next

Rivals(a, t) == {u \in Pooled(a) \ {t} : a.tx[u].nonce = a.tx[t].nonce}

PutInPool(a, t) ==
  [a EXCEPT !.tx = [u \in DOMAIN a.tx |->
     IF u = t THEN [a.tx[u] EXCEPT !.status = "pooled"]
     ELSE IF u \in Rivals(a, t) THEN [a.tx[u] EXCEPT !.status = "dropped"]
     ELSE a.tx[u]]]

Minable(a) == {t \in Pooled(a) : a.tx[t].nonce = a.next}

Include(a, t, outcome) ==
  [a EXCEPT !.next = a.next + 1, !.tx[t].status = outcome]

(* waitForTransactionReceipt(t) may return with any of these statuses; it  *)
(* times out as long as there is none. A waiter that has seen t in the     *)
(* pool takes the receipt of a transaction that replaced t for t's own.    *)
OwnReceipt(a, t) == {a.tx[t].status} \cap Outcomes

ReceiptStatuses(a, t) ==
  {a.tx[u].status : u \in {v \in Mined(a) :
      \/ v = t
      \/ a.tx[t].status = "dropped" /\ a.tx[v].nonce = a.tx[t].nonce}}

(* t was replaced, and one of the transactions Ts succeeded in its place.  *)
ReplacedBy(a, t, Ts) ==
  /\ a.tx[t].status = "dropped"
  /\ \E u \in Ts : a.tx[u].status = "success" /\ a.tx[u].nonce = a.tx[t].nonce
===============================================================================

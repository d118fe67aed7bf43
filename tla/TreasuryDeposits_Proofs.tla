------------------------ MODULE TreasuryDeposits_Proofs ------------------------
(***************************************************************************)
(* For any number of requests, retries and foreign transactions: the types *)
(* of TreasuryDeposits, its safety invariants and what its reconciler does.*)
(*                                                                         *)
(* The argument has three layers. Of the receipts: a success that a request*)
(* or the reconciler has seen is that of a deposit, or of what replaced    *)
(* one. Of the lease: a request that works holds the row alone, under the  *)
(* hash its place says, so that only foreign transactions replace its      *)
(* deposit. Of a quiet environment: a deposit in the pool or on the chain  *)
(* is the one the row names, so that no retry can take the row.            *)
(***************************************************************************)
EXTENDS TreasuryDeposits, TreasuryAccount_Proofs

A(r) == account.tx[Approve(r)]
D(r) == account.tx[DepositTx(r)]

(* What a request has signed, by its place.                                *)
Signed(a) ==
  \A r \in Requests :
    /\ pc[r] \in {"new", "inserting", "claiming", "claimed"} =>
         a.tx[Approve(r)].status = "unsigned"
    /\ pc[r] = "prepared" => a.tx[Approve(r)].status = "signed"
    /\ pc[r] \in {"new", "inserting", "claiming", "claimed", "prepared",
                  "approving", "approved"} =>
         a.tx[DepositTx(r)].status = "unsigned"
    /\ pc[r] \in {"signed", "persisted"} => a.tx[DepositTx(r)].status = "signed"

SignedByPlace == Signed(account)

(* The deposit of r landed, or a foreign transaction in its place.         *)
Landed(a, r) ==
  \/ a.tx[DepositTx(r)].status = "success"
  \/ ReplacedBy(a, DepositTx(r), Foreign)

FundedOrReplaced(a, n) ==
  n > 0 \/ \E r \in Requests : ReplacedBy(a, DepositTx(r), Approvals \cup Foreign)

SuccessFunds ==
  /\ \A r \in Requests : D(r).status = "success" => deposited > 0
  /\ \A r \in Requests : pc[r] = "settled" => FundedOrReplaced(account, deposited)
  /\ row.status = "confirmed" => FundedOrReplaced(account, deposited)

(* What the reconciler has fetched is the outcome of a finished request.   *)
PollTrue ==
  poll # NoReceipt =>
    /\ poll.txHash \in Requests /\ poll.status \in Outcomes
    /\ D(poll.txHash).status = poll.status
    /\ "slow" \notin env => pc[poll.txHash] = "done"

HashAt(r) == IF pc[r] \in {"persisted", "sent", "settled"} THEN r ELSE NoTx

RowOfHolder ==
  \A r \in Requests : Live(r) =>
    row = [status |-> "submitted", txHash |-> HashAt(r), fresh |-> TRUE]

OneHolder == \A r, s \in Requests : Live(r) /\ Live(s) => r = s

(* Nothing but foreign transactions has the nonce of r's deposit.          *)
ForeignTakes(a, r) ==
  \A u \in Txs :
    a.tx[u].status \in {"pooled"} \cup Outcomes /\ a.tx[u].nonce = a.tx[DepositTx(r)].nonce
      => u \in Foreign

ReplacedByForeign(a) ==
  \A r \in Requests : pc[r] = "sent" /\ a.tx[DepositTx(r)].status = "dropped" =>
    ForeignTakes(a, r)

SettledLanded(a) == \A r \in Requests : pc[r] = "settled" => Landed(a, r)

ConfirmedIn(a) ==
  row.status = "confirmed" => row.txHash \in Requests /\ Landed(a, row.txHash)

(* One request at a time holds the row, and its deposit is replaced by     *)
(* foreign transactions only.                                              *)
HeldAlone ==
  "slow" \notin env =>
    /\ RowOfHolder
    /\ OneHolder
    /\ ReplacedByForeign(account)
    /\ SettledLanded(account)
    /\ ConfirmedIn(account)

(* No deposit is out that the row does not name.                           *)
NamedByRow ==
  env = {} =>
    /\ \A r \in Requests : D(r).status \in {"pooled", "success"} =>
         row.txHash = r /\ row.status \in {"submitted", "confirmed"}
    /\ deposited > 0 => \E r \in Requests : D(r).status = "success"
    /\ deposited <= 1

IInv ==
  /\ TypeOK
  /\ account \in Ordered(Txs)
  /\ SignedByPlace
  /\ SuccessFunds
  /\ PollTrue
  /\ HeldAlone
  /\ NamedByRow

LEMMA TxFacts ==
  /\ \A r \in Requests : Approve(r) \in Txs /\ DepositTx(r) \in Txs
  /\ \A r \in Requests : Approve(r) \in Approvals /\ Approve(r) \notin Foreign
  /\ \A r \in Requests : DepositTx(r) \notin Foreign /\ DepositTx(r) \notin Approvals
  /\ \A o \in Others : Other(o) \in Txs /\ Other(o) \in Foreign
  /\ \A r, s \in Requests : Approve(r) # DepositTx(s)
  /\ \A r \in Requests, o \in Others : Approve(r) # Other(o) /\ DepositTx(r) # Other(o)
  /\ \A r, s \in Requests : DepositTx(r) = DepositTx(s) => r = s
  /\ \A r, s \in Requests : Approve(r) = Approve(s) => r = s
  /\ \A t \in Txs : t \in Approvals \cup Foreign \/ \E r \in Requests : t = DepositTx(r)
  /\ Foreign \subseteq Txs /\ Approvals \subseteq Txs
BY DEF Approve, DepositTx, Other, Txs, Approvals, Deposits, Foreign

LEMMA TxsFinite == IsFiniteSet(Txs)
<1>1. IsFiniteSet({} \cup {"approve"}) /\ IsFiniteSet({} \cup {"deposit"})
      /\ IsFiniteSet({} \cup {"other"})
  BY FS_EmptySet, FS_AddElement
<1>2. IsFiniteSet({"approve"}) /\ IsFiniteSet({"deposit"}) /\ IsFiniteSet({"other"})
  BY <1>1
<1>3. IsFiniteSet(Approvals) /\ IsFiniteSet(Deposits) /\ IsFiniteSet(Foreign)
  BY <1>2, RequestsAssumption, OthersAssumption, FS_Product
     DEF Approvals, Deposits, Foreign
<1>4. IsFiniteSet(Approvals \cup Deposits)
  BY <1>3, FS_Union
<1> QED BY <1>3, <1>4, FS_Union DEF Txs

(* A deposit settles by its own outcome or, once dropped, by that of a     *)
(* transaction that has its nonce.                                         *)
LEMMA ReceiptFacts ==
  ASSUME IInv, NEW r \in Requests, NEW status \in ReceiptStatuses(account, DepositTx(r))
  PROVE  /\ status \in Outcomes
         /\ \/ D(r).status = status
            \/ /\ D(r).status = "dropped"
               /\ \E v \in Txs : account.tx[v].status = status
                                 /\ account.tx[v].nonce = D(r).nonce
<1>1. account \in Account(Txs) /\ DOMAIN account.tx = Txs
  BY DEF IInv, TypeOK, Account
<1>2. PICK v \in Mined(account) :
        /\ status = account.tx[v].status
        /\ \/ v = DepositTx(r)
           \/ D(r).status = "dropped" /\ account.tx[v].nonce = D(r).nonce
  BY DEF ReceiptStatuses, D
<1>3. v \in Txs /\ status \in Outcomes
  BY <1>1, <1>2 DEF Mined, HasStatus, Outcomes
<1> QED BY <1>2, <1>3 DEF D

-------------------------------------------------------------------------------
(* Steps that leave the chain alone.                                       *)

LEMMA InitInv == Init => IInv
<1> SUFFICES ASSUME Init PROVE IInv
  OBVIOUS
<1>1. account \in Ordered(Txs)
  BY TxsFinite, NewOrdered DEF Init
<1>2. TypeOK
  <2>1. NoRow \in Row
    BY DEF NoRow, Row
  <2>2. pc \in [Requests -> Working \cup {"new", "inserting", "claiming", "done"}]
    BY DEF Init, Working
  <2>3. deposited \in 0 .. Funds
    BY FundsAssumption DEF Init
  <2> QED BY <1>1, <2>1, <2>2, <2>3 DEF Init, TypeOK, Ordered
<1>3. \A t \in Txs : account.tx[t].status = "unsigned"
  BY DEF Init, NewAccount
<1>4. \A r \in Requests : A(r).status = "unsigned" /\ D(r).status = "unsigned"
  BY <1>3, TxFacts DEF A, D
<1>5. \A r \in Requests : pc[r] \in {"new", "done"}
  BY DEF Init
<1>6. SignedByPlace
  BY <1>4, <1>5 DEF SignedByPlace, Signed, A, D
<1>7. SuccessFunds /\ PollTrue /\ NamedByRow
  BY <1>4, <1>5 DEF Init, SuccessFunds, PollTrue, NamedByRow, NoRow
<1>8. HeldAlone
  BY <1>5 DEF Init, NoRow, HeldAlone, RowOfHolder, OneHolder, ReplacedByForeign,
     SettledLanded, ConfirmedIn, Live, Working
<1> QED BY <1>1, <1>2, <1>6, <1>7, <1>8 DEF IInv

(* The chain is as it was: what is left to show is about rows and places.  *)
LEMMA SameChain ==
  ASSUME IInv, UNCHANGED <<chain, env>>,
         TypeOK', SignedByPlace', SuccessFunds', PollTrue', HeldAlone', NamedByRow'
  PROVE  IInv'
BY DEF IInv, chain

(* A request that goes on, or ends, leaves the fetched receipt true.       *)
LEMMA PollStays ==
  ASSUME IInv, UNCHANGED <<chain, env>>, poll' \in {poll, NoReceipt},
         \A q \in Requests : pc[q] = "done" => pc'[q] = "done"
  PROVE  PollTrue'
BY DEF IInv, PollTrue, D, chain, NoReceipt

LEMMA LookupStep ==
  ASSUME IInv, NEW r \in Requests, Lookup(r) PROVE IInv'
<1> USE DEF Lookup, At, chain
<1>1. UNCHANGED <<chain, env>>
  OBVIOUS
<1>2. TypeOK'
  BY FundsAssumption DEF IInv, TypeOK, Row, Working
<1>3. SignedByPlace'
  BY DEF IInv, TypeOK, SignedByPlace, Signed
<1>4. SuccessFunds'
  BY DEF IInv, TypeOK, SuccessFunds, D
<1>5. PollTrue'
  BY PollStays DEF IInv, TypeOK
<1>6. HeldAlone'
  BY DEF IInv, TypeOK, HeldAlone, RowOfHolder, OneHolder, ReplacedByForeign,
     SettledLanded, ConfirmedIn, HashAt, Live, Working
<1>7. NamedByRow'
  BY DEF IInv, NamedByRow, D
<1> QED BY <1>1, <1>2, <1>3, <1>4, <1>5, <1>6, <1>7, SameChain

(* A row that changes hands: the new holder starts with a claimed row.     *)
LEMMA TakeRow ==
  ASSUME IInv, NEW r \in Requests, pc[r] \in {"inserting", "claiming"},
         pc' = [pc EXCEPT ![r] = "claimed"], row' = Claimed,
         UNCHANGED <<chain, poll, env>>,
         row.status = "absent" \/ Resumable(row)
  PROVE  IInv'
<1> USE DEF chain
<1>1. UNCHANGED <<chain, env>>
  OBVIOUS
<1>2. TypeOK'
  BY FundsAssumption DEF IInv, TypeOK, Row, Working, Claimed
<1>3. SignedByPlace'
  BY DEF IInv, TypeOK, SignedByPlace, Signed
<1>4. SuccessFunds'
  BY DEF IInv, TypeOK, SuccessFunds, D, Claimed
<1>5. PollTrue'
  BY PollStays DEF IInv, TypeOK
<1>6. HeldAlone'
  <2> SUFFICES ASSUME "slow" \notin env
               PROVE  /\ RowOfHolder' /\ OneHolder' /\ ReplacedByForeign(account)'
                      /\ SettledLanded(account)' /\ ConfirmedIn(account)'
    BY DEF HeldAlone
  <2>1. \A q \in Requests : ~Live(q)
    BY DEF IInv, HeldAlone, RowOfHolder, Resumable
  <2>2. \A q \in Requests \ {r} : ~Live(q)' /\ pc'[q] = pc[q]
    BY <2>1 DEF IInv, TypeOK, Live
  <2>3. pc'[r] = "claimed"
    BY DEF IInv, TypeOK
  <2> QED BY <2>2, <2>3 DEF RowOfHolder, OneHolder, ReplacedByForeign, SettledLanded,
             ConfirmedIn, HashAt, Claimed, Live, Working
<1>7. NamedByRow'
  BY RequestsAssumption DEF IInv, NamedByRow, D, Resumable, TypeOK, Row
<1> QED BY <1>1, <1>2, <1>3, <1>4, <1>5, <1>6, <1>7, SameChain

(* A request that stops without having changed a thing.                    *)
LEMMA StopStep ==
  ASSUME IInv, NEW r \in Requests, pc' = [pc EXCEPT ![r] = "done"],
         poll' \in {poll, NoReceipt}, UNCHANGED <<row, chain, env>>
  PROVE  IInv'
<1> USE DEF chain
<1>1. UNCHANGED <<chain, env>>
  OBVIOUS
<1>2. TypeOK'
  BY FundsAssumption DEF IInv, TypeOK, Row, Working, NoReceipt
<1>3. SignedByPlace'
  BY DEF IInv, TypeOK, SignedByPlace, Signed
<1>4. SuccessFunds'
  BY DEF IInv, TypeOK, SuccessFunds, D
<1>5. PollTrue'
  BY PollStays DEF IInv, TypeOK
<1>6. HeldAlone'
  BY DEF IInv, TypeOK, HeldAlone, RowOfHolder, OneHolder, ReplacedByForeign,
     SettledLanded, ConfirmedIn, HashAt, Live, Working
<1>7. NamedByRow'
  BY DEF IInv, NamedByRow, D
<1> QED BY <1>1, <1>2, <1>3, <1>4, <1>5, <1>6, <1>7, SameChain

LEMMA InsertStep ==
  ASSUME IInv, NEW r \in Requests, Insert(r) PROVE IInv'
<1>1. CASE row.status = "absent"
  BY <1>1, TakeRow DEF Insert, At
<1>2. CASE row.status # "absent"
  BY <1>2, StopStep DEF Insert, At
<1> QED BY <1>1, <1>2

LEMMA ClaimStep ==
  ASSUME IInv, NEW r \in Requests, Claim(r) PROVE IInv'
<1>1. CASE Resumable(row)
  BY <1>1, TakeRow DEF Claim, At
<1>2. CASE ~Resumable(row)
  BY <1>2, StopStep DEF Claim, At
<1> QED BY <1>1, <1>2

LEMMA GiveUpStep ==
  ASSUME IInv, NEW r \in Requests, GiveUp(r) PROVE IInv'
BY StopStep DEF GiveUp, At

LEMMA TimeOutStep ==
  ASSUME IInv, NEW r \in Requests, TimeOut(r) PROVE IInv'
BY StopStep DEF TimeOut, At

LEMMA CrashStep ==
  ASSUME IInv, NEW r \in Requests, Crash(r) PROVE IInv'
BY StopStep DEF Crash

(* The last write of a request whose deposit, if it signed one, is neither *)
(* in the pool nor on the chain: the row becomes one that may be resumed.  *)
LEMMA LetGo ==
  ASSUME IInv, NEW r \in Requests, Live(r), pc' = [pc EXCEPT ![r] = "done"],
         row' \in Row, row'.status \in {"submitted", "failed"},
         UNCHANGED <<chain, poll, env>>,
         env = {} => \A q \in Requests : D(q).status \notin {"pooled", "success"}
  PROVE  IInv'
<1> USE DEF chain
<1>1. UNCHANGED <<chain, env>>
  OBVIOUS
<1>2. TypeOK'
  BY FundsAssumption DEF IInv, TypeOK, Working
<1>3. SignedByPlace'
  BY DEF IInv, TypeOK, SignedByPlace, Signed
<1>4. SuccessFunds'
  BY DEF IInv, TypeOK, SuccessFunds, D
<1>5. PollTrue'
  BY PollStays DEF IInv, TypeOK
<1>6. HeldAlone'
  <2> SUFFICES ASSUME "slow" \notin env
               PROVE  /\ RowOfHolder' /\ OneHolder' /\ ReplacedByForeign(account)'
                      /\ SettledLanded(account)' /\ ConfirmedIn(account)'
    BY DEF HeldAlone
  <2>1. \A q \in Requests : ~Live(q)'
    BY DEF IInv, TypeOK, HeldAlone, OneHolder, Live, Working
  <2> QED BY <2>1 DEF RowOfHolder, OneHolder, ReplacedByForeign, SettledLanded,
             ConfirmedIn, Live, Working
<1>7. NamedByRow'
  BY DEF IInv, NamedByRow, D
<1> QED BY <1>1, <1>2, <1>3, <1>4, <1>5, <1>6, <1>7, SameChain

(* While a request holds the row without a hash, no deposit is out.        *)
LEMMA NothingOut ==
  ASSUME IInv, env = {}, NEW r \in Requests, Live(r),
         HashAt(r) = NoTx \/ D(r).status \notin {"pooled", "success"}
  PROVE  \A q \in Requests : D(q).status \notin {"pooled", "success"}
<1>1. row.txHash = HashAt(r)
  BY DEF IInv, HeldAlone, RowOfHolder
<1> QED BY <1>1, RequestsAssumption DEF IInv, NamedByRow, HashAt

LEMMA RowWrites ==
  ASSUME IInv
  PROVE  /\ FailRow \in Row /\ FailRow.status = "failed"
         /\ Unsent \in Row /\ Unsent.status = "submitted" /\ Unsent.txHash = NoTx
BY DEF IInv, TypeOK, Row, FailRow, Unsent

LEMMA AwaitApprovalStep ==
  ASSUME IInv, NEW r \in Requests, AwaitApproval(r) PROVE IInv'
<1> USE DEF At, chain
<1>1. pc[r] = "approving" /\ Live(r) /\ UNCHANGED <<chain, poll, env>>
  BY DEF AwaitApproval, Live, Working
<1>2. CASE pc' = [pc EXCEPT ![r] = "done"] /\ row' = FailRow
  <2>1. env = {} => \A q \in Requests : D(q).status \notin {"pooled", "success"}
    BY <1>1, NothingOut DEF HashAt
  <2> QED BY <1>1, <1>2, <2>1, RowWrites, LetGo
<1>3. CASE pc' = [pc EXCEPT ![r] = "approved"] /\ row' = row
  <2>1. TypeOK'
    BY <1>1, <1>3, FundsAssumption DEF IInv, TypeOK, Working
  <2>2. SignedByPlace'
    BY <1>1, <1>3 DEF IInv, TypeOK, SignedByPlace, Signed
  <2>3. SuccessFunds' /\ NamedByRow'
    BY <1>1, <1>3 DEF IInv, TypeOK, SuccessFunds, NamedByRow, D
  <2>4. PollTrue'
    BY <1>1, <1>3, PollStays DEF IInv, TypeOK
  <2>5. HeldAlone'
    BY <1>1, <1>3 DEF IInv, TypeOK, HeldAlone, RowOfHolder, OneHolder,
       ReplacedByForeign, SettledLanded, ConfirmedIn, HashAt, Live, Working
  <2> QED BY <1>1, <2>1, <2>2, <2>3, <2>4, <2>5, SameChain
<1> QED BY <1>1, <1>2, <1>3 DEF AwaitApproval

LEMMA PersistHashStep ==
  ASSUME IInv, NEW r \in Requests, PersistHash(r) PROVE IInv'
<1> USE DEF chain
<1>1. /\ pc[r] = "signed" /\ Live(r) /\ UNCHANGED <<chain, poll, env>>
      /\ \/ pc' = [pc EXCEPT ![r] = "persisted"]
         \/ pc' = [pc EXCEPT ![r] = "done"]
      /\ row' = [row EXCEPT !.txHash = r, !.fresh = TRUE]
      /\ pc \in [Requests -> Working \cup {"new", "inserting", "claiming", "done"}]
      /\ row \in Row
  BY DEF PersistHash, At, Live, Working, IInv, TypeOK
<1>2. row' = [status |-> row.status, txHash |-> r, fresh |-> TRUE]
  BY <1>1 DEF Row
<1>3. TypeOK'
  BY <1>1, <1>2, FundsAssumption DEF IInv, TypeOK, Row, Working
<1>4. SignedByPlace'
  BY <1>1 DEF IInv, SignedByPlace, Signed
<1>5. SuccessFunds'
  BY <1>1, <1>2 DEF IInv, SuccessFunds, D
<1>6. PollTrue'
  BY <1>1, PollStays
<1>7. HeldAlone'
  <2> SUFFICES ASSUME "slow" \notin env
               PROVE  /\ RowOfHolder' /\ OneHolder' /\ ReplacedByForeign(account)'
                      /\ SettledLanded(account)' /\ ConfirmedIn(account)'
    BY <1>1 DEF HeldAlone
  <2>1. row.status = "submitted" /\ \A q \in Requests \ {r} : ~Live(q)
    BY <1>1 DEF IInv, HeldAlone, RowOfHolder, OneHolder
  <2>2. \A q \in Requests \ {r} : ~Live(q)' /\ pc'[q] = pc[q]
    BY <1>1, <2>1 DEF Live
  <2>3. pc'[r] \in {"persisted", "done"}
    BY <1>1
  <2> QED BY <1>2, <2>1, <2>2, <2>3 DEF RowOfHolder, OneHolder, ReplacedByForeign,
             SettledLanded, ConfirmedIn, HashAt, Live, Working
<1>8. NamedByRow'
  <2> SUFFICES ASSUME env = {} PROVE NamedByRow'
    BY <1>1 DEF NamedByRow
  <2>1. \A q \in Requests : D(q).status \notin {"pooled", "success"}
    BY <1>1, NothingOut DEF HashAt
  <2> QED BY <1>1, <2>1 DEF IInv, NamedByRow, D
<1> QED BY <1>1, <1>3, <1>4, <1>5, <1>6, <1>7, <1>8, SameChain

LEMMA RefusedStep ==
  ASSUME IInv, NEW r \in Requests, Refused(r) PROVE IInv'
<1> USE DEF At, chain
<1>1. /\ pc[r] = "persisted" /\ Live(r) /\ UNCHANGED <<chain, poll, env>>
      /\ D(r).status = "signed"
  BY DEF Refused, Live, Working, IInv, SignedByPlace, Signed, D
<1>2. CASE pc' = [pc EXCEPT ![r] = "done"] /\ row' = Unsent
  <2>1. env = {} => \A q \in Requests : D(q).status \notin {"pooled", "success"}
    BY <1>1, NothingOut
  <2> QED BY <1>1, <1>2, <2>1, RowWrites, LetGo
<1>3. CASE pc' = [pc EXCEPT ![r] = "sent"] /\ row' = row
  <2>1. TypeOK'
    BY <1>1, <1>3, FundsAssumption DEF IInv, TypeOK, Working
  <2>2. SignedByPlace'
    BY <1>1, <1>3 DEF IInv, TypeOK, SignedByPlace, Signed
  <2>3. SuccessFunds' /\ NamedByRow'
    BY <1>1, <1>3 DEF IInv, TypeOK, SuccessFunds, NamedByRow, D
  <2>4. PollTrue'
    BY <1>1, <1>3, PollStays DEF IInv, TypeOK
  <2>5. HeldAlone'
    BY <1>1, <1>3 DEF IInv, TypeOK, HeldAlone, RowOfHolder, OneHolder, D,
       ReplacedByForeign, SettledLanded, ConfirmedIn, HashAt, Live, Working
  <2> QED BY <1>1, <2>1, <2>2, <2>3, <2>4, <2>5, SameChain
<1> QED BY <1>1, <1>2, <1>3 DEF Refused

LEMMA AwaitDepositStep ==
  ASSUME IInv, NEW r \in Requests, AwaitDeposit(r) PROVE IInv'
<1> USE DEF At, chain
<1>1. pc[r] = "sent" /\ Live(r) /\ UNCHANGED <<chain, poll, env>>
  BY DEF AwaitDeposit, Live, Working
<1>2. PICK status \in ReceiptStatuses(account, DepositTx(r)) :
        IF status = "success"
          THEN pc' = [pc EXCEPT ![r] = "settled"] /\ row' = row
          ELSE pc' = [pc EXCEPT ![r] = "done"] /\ row' = FailRow
  BY DEF AwaitDeposit
<1>3. /\ status \in Outcomes
      /\ \/ D(r).status = status
         \/ /\ D(r).status = "dropped"
            /\ \E v \in Txs : account.tx[v].status = status
                              /\ account.tx[v].nonce = D(r).nonce
  BY ReceiptFacts
<1>4. CASE status # "success"
  <2>1. D(r).status \notin {"pooled", "success"}
    BY <1>3, <1>4 DEF Outcomes
  <2>2. env = {} => \A q \in Requests : D(q).status \notin {"pooled", "success"}
    BY <1>1, <2>1, NothingOut
  <2> QED BY <1>1, <1>2, <1>4, <2>2, RowWrites, LetGo
<1>5. CASE status = "success"
  <2>1. pc' = [pc EXCEPT ![r] = "settled"] /\ row' = row
    BY <1>2, <1>5
  <2>2. TypeOK'
    BY <1>1, <2>1, FundsAssumption DEF IInv, TypeOK, Working
  <2>3. SignedByPlace'
    BY <1>1, <2>1 DEF IInv, TypeOK, SignedByPlace, Signed
  <2>4. NamedByRow'
    BY <1>1, <2>1 DEF IInv, NamedByRow, D
  <2>5. PollTrue'
    BY <1>1, <2>1, PollStays DEF IInv, TypeOK
  <2>6. FundedOrReplaced(account, deposited)
    <3>1. CASE D(r).status = "success"
      BY <3>1 DEF IInv, SuccessFunds, FundedOrReplaced
    <3>2. CASE D(r).status # "success"
      <4>1. PICK v \in Txs : account.tx[v].status = "success"
                             /\ account.tx[v].nonce = D(r).nonce
        BY <1>3, <1>5, <3>2
      <4>2. CASE v \in Approvals \cup Foreign
        BY <1>3, <1>5, <3>2, <4>1, <4>2 DEF FundedOrReplaced, ReplacedBy, D
      <4>3. CASE \E q \in Requests : v = DepositTx(q)
        BY <4>1, <4>3 DEF IInv, SuccessFunds, FundedOrReplaced, D
      <4> QED BY <4>2, <4>3, TxFacts
    <3> QED BY <3>1, <3>2
  <2>7. SuccessFunds'
    BY <1>1, <2>1, <2>6 DEF IInv, TypeOK, SuccessFunds, D
  <2>8. HeldAlone'
    <3> SUFFICES ASSUME "slow" \notin env
                 PROVE  /\ RowOfHolder' /\ OneHolder' /\ ReplacedByForeign(account)'
                        /\ SettledLanded(account)' /\ ConfirmedIn(account)'
      BY <1>1 DEF HeldAlone
    <3>1. Landed(account, r)
      <4>1. CASE D(r).status = "success"
        BY <4>1 DEF Landed, D
      <4>2. CASE D(r).status # "success"
        <5>1. PICK v \in Txs : account.tx[v].status = "success"
                               /\ account.tx[v].nonce = D(r).nonce
          BY <1>3, <1>5, <4>2
        <5>2. D(r).status = "dropped" /\ ForeignTakes(account, r)
          BY <1>1, <1>3, <1>5, <4>2 DEF IInv, HeldAlone, ReplacedByForeign, D
        <5>3. v \in Foreign
          BY <5>1, <5>2 DEF ForeignTakes, D, Outcomes
        <5> QED BY <5>1, <5>2, <5>3 DEF Landed, ReplacedBy, D
      <4> QED BY <4>1, <4>2
    <3>2. SettledLanded(account)'
      BY <1>1, <2>1, <3>1 DEF IInv, TypeOK, HeldAlone, SettledLanded
    <3>3. RowOfHolder' /\ OneHolder' /\ ReplacedByForeign(account)' /\ ConfirmedIn(account)'
      BY <1>1, <2>1 DEF IInv, TypeOK, HeldAlone, RowOfHolder, OneHolder,
         ReplacedByForeign, ConfirmedIn, HashAt, Live, Working
    <3> QED BY <3>2, <3>3
  <2> QED BY <1>1, <2>2, <2>3, <2>4, <2>5, <2>7, <2>8, SameChain
<1> QED BY <1>4, <1>5

LEMMA ConfirmRowStep ==
  ASSUME IInv, NEW r \in Requests, ConfirmRow(r) PROVE IInv'
<1> USE DEF chain
<1>1. /\ pc[r] = "settled" /\ Live(r) /\ UNCHANGED <<chain, poll, env>>
      /\ pc' = [pc EXCEPT ![r] = "done"]
      /\ row' = [status |-> "confirmed", txHash |-> r, fresh |-> TRUE]
      /\ pc \in [Requests -> Working \cup {"new", "inserting", "claiming", "done"}]
  BY DEF ConfirmRow, At, Live, Working, IInv, TypeOK
<1>2. TypeOK'
  BY <1>1, FundsAssumption DEF IInv, TypeOK, Row, Working
<1>3. SignedByPlace'
  BY <1>1 DEF IInv, SignedByPlace, Signed
<1>4. SuccessFunds'
  BY <1>1 DEF IInv, SuccessFunds, D
<1>5. PollTrue'
  BY <1>1, PollStays
<1>6. HeldAlone'
  <2> SUFFICES ASSUME "slow" \notin env
               PROVE  /\ RowOfHolder' /\ OneHolder' /\ ReplacedByForeign(account)'
                      /\ SettledLanded(account)' /\ ConfirmedIn(account)'
    BY <1>1 DEF HeldAlone
  <2>1. \A q \in Requests : ~Live(q)'
    BY <1>1 DEF IInv, HeldAlone, OneHolder, Live, Working
  <2>2. ConfirmedIn(account)'
    BY <1>1 DEF IInv, HeldAlone, SettledLanded, ConfirmedIn
  <2> QED BY <2>1, <2>2 DEF RowOfHolder, OneHolder, ReplacedByForeign, SettledLanded,
             Live, Working
<1>7. NamedByRow'
  <2> SUFFICES ASSUME env = {} PROVE NamedByRow'
    BY <1>1 DEF NamedByRow
  <2>1. row.txHash = r
    BY <1>1 DEF IInv, HeldAlone, RowOfHolder, HashAt
  <2> QED BY <1>1, <2>1 DEF IInv, NamedByRow, D
<1> QED BY <1>1, <1>2, <1>3, <1>4, <1>5, <1>6, <1>7, SameChain

LEMMA FetchReceiptStep ==
  ASSUME IInv, FetchReceipt PROVE IInv'
<1> USE DEF chain
<1>1. /\ UNCHANGED <<row, pc, chain, env>>
      /\ row.txHash \in Requests
      /\ poll' = [txHash |-> row.txHash, status |-> D(row.txHash).status]
      /\ D(row.txHash).status \in Outcomes
      /\ row.fresh = FALSE
  BY DEF FetchReceipt, OwnReceipt, D, IInv, TypeOK, Row
<1>2. TypeOK'
  BY <1>1 DEF IInv, TypeOK, Receipt
<1>3. PollTrue'
  <2>1. "slow" \notin env => pc[row.txHash] = "done"
    <3> SUFFICES ASSUME "slow" \notin env PROVE pc[row.txHash] = "done"
      OBVIOUS
    <3>1. ~Live(row.txHash)
      BY <1>1 DEF IInv, HeldAlone, RowOfHolder
    <3>2. pc[row.txHash] \notin {"new", "inserting", "claiming"}
      BY <1>1 DEF IInv, SignedByPlace, Signed, D, Outcomes
    <3> QED BY <1>1, <3>1, <3>2 DEF IInv, TypeOK, Live
  <2> QED BY <1>1, <2>1 DEF PollTrue, D
<1>4. SignedByPlace' /\ SuccessFunds' /\ NamedByRow'
  BY <1>1 DEF IInv, SignedByPlace, Signed, SuccessFunds, NamedByRow, D
<1>5. HeldAlone'
  BY <1>1 DEF IInv, HeldAlone, RowOfHolder, OneHolder, ReplacedByForeign,
     SettledLanded, ConfirmedIn, HashAt, Live
<1> QED BY <1>1, <1>2, <1>3, <1>4, <1>5, SameChain

(* What the reconciler writes, it writes for the hash of the row.          *)
LEMMA SettleFacts ==
  ASSUME IInv, SettleRow, row' # row
  PROVE  /\ row.status = "submitted" /\ row.txHash \in Requests
         /\ row'.txHash = row.txHash /\ row' \in Row
         /\ \/ D(row.txHash).status = "success" /\ row'.status = "confirmed"
            \/ D(row.txHash).status = "reverted" /\ row'.status = "failed"
         /\ "slow" \notin env => pc[row.txHash] = "done"
<1>1. /\ row.status = "submitted" /\ row.txHash = poll.txHash /\ row' = Settled
      /\ row \in Row /\ poll # NoReceipt
  BY DEF SettleRow, IInv, TypeOK
<1>2. row' = [status |-> IF poll.status = "success" THEN "confirmed" ELSE "failed",
              txHash |-> row.txHash, fresh |-> TRUE]
  BY <1>1 DEF Settled, Row
<1>3. /\ row.txHash \in Requests /\ poll.status \in Outcomes
      /\ D(row.txHash).status = poll.status
      /\ "slow" \notin env => pc[row.txHash] = "done"
  BY <1>1 DEF IInv, PollTrue
<1>4. row' \in Row
  BY <1>2, <1>3 DEF Row
<1> QED BY <1>1, <1>2, <1>3, <1>4 DEF Outcomes

LEMMA SettleRowStep ==
  ASSUME IInv, SettleRow PROVE IInv'
<1> USE DEF chain
<1>1. UNCHANGED <<pc, chain, env>> /\ poll' = NoReceipt
  BY DEF SettleRow
<1>2. PollTrue'
  BY <1>1 DEF PollTrue
<1>3. SignedByPlace'
  BY <1>1 DEF IInv, SignedByPlace, Signed
<1>4. CASE row' = row
  <2>1. TypeOK' /\ SuccessFunds' /\ NamedByRow'
    BY <1>1, <1>4 DEF IInv, TypeOK, SuccessFunds, NamedByRow, D
  <2>2. HeldAlone'
    BY <1>1, <1>4 DEF IInv, HeldAlone, RowOfHolder, OneHolder, ReplacedByForeign,
       SettledLanded, ConfirmedIn, HashAt, Live
  <2> QED BY <1>1, <1>2, <1>3, <2>1, <2>2, SameChain
<1>5. CASE row' # row
  <2> DEFINE h == row.txHash
  <2>1. /\ row.status = "submitted" /\ h \in Requests /\ row'.txHash = h /\ row' \in Row
        /\ \/ D(h).status = "success" /\ row'.status = "confirmed"
           \/ D(h).status = "reverted" /\ row'.status = "failed"
        /\ "slow" \notin env => pc[h] = "done"
    BY <1>5, SettleFacts
  <2>2. TypeOK'
    BY <1>1, <2>1 DEF IInv, TypeOK
  <2>3. SuccessFunds'
    BY <1>1, <2>1 DEF IInv, SuccessFunds, FundedOrReplaced, D
  <2>4. NamedByRow'
    BY <1>1, <2>1 DEF IInv, NamedByRow, D
  <2>5. HeldAlone'
    <3> SUFFICES ASSUME "slow" \notin env
                 PROVE  /\ RowOfHolder' /\ OneHolder' /\ ReplacedByForeign(account)'
                        /\ SettledLanded(account)' /\ ConfirmedIn(account)'
      BY <1>1 DEF HeldAlone
    <3>1. \A q \in Requests : ~Live(q)
      BY <2>1, RequestsAssumption DEF IInv, HeldAlone, RowOfHolder, HashAt, Live, Working
    <3>2. ConfirmedIn(account)'
      BY <1>1, <2>1 DEF ConfirmedIn, Landed, D
    <3> QED BY <1>1, <3>1, <3>2 DEF RowOfHolder, OneHolder, ReplacedByForeign,
               SettledLanded, Live, Working
  <2> QED BY <1>1, <1>2, <1>3, <2>2, <2>3, <2>4, <2>5, SameChain
<1> QED BY <1>4, <1>5

LEMMA RowAgesStep ==
  ASSUME IInv, RowAges PROVE IInv'
<1> USE DEF chain
<1>1. /\ UNCHANGED <<chain, poll, env, pc>>
      /\ row.status = "submitted" /\ row \in Row
      /\ row' = [row EXCEPT !.fresh = FALSE]
      /\ "slow" \notin env => \A r \in Requests : ~Live(r)
  BY DEF RowAges, IInv, TypeOK
<1>2. row' = [status |-> "submitted", txHash |-> row.txHash, fresh |-> FALSE]
  BY <1>1 DEF Row
<1>3. TypeOK'
  BY <1>1, <1>2 DEF IInv, TypeOK, Row
<1>4. SignedByPlace' /\ SuccessFunds' /\ NamedByRow'
  BY <1>1, <1>2 DEF IInv, SignedByPlace, Signed, SuccessFunds, NamedByRow, D
<1>5. PollTrue'
  BY <1>1, PollStays
<1>6. HeldAlone'
  <2> SUFFICES ASSUME "slow" \notin env PROVE HeldAlone'
    BY <1>1 DEF HeldAlone
  <2>1. \A r \in Requests : ~Live(r)'
    BY <1>1 DEF Live
  <2> QED BY <1>1, <1>2, <2>1 DEF HeldAlone, RowOfHolder, OneHolder, ReplacedByForeign,
             SettledLanded, ConfirmedIn, Live, Working
<1> QED BY <1>1, <1>3, <1>4, <1>5, <1>6, SameChain

-------------------------------------------------------------------------------
(* Steps that sign, send or mine one transaction t. What has landed stays, *)
(* and a deposit that was dropped stays dropped.                           *)

Keeps(u) ==
  account'.tx[u].status = account.tx[u].status /\ account'.tx[u].nonce = account.tx[u].nonce

History ==
  /\ \A u \in Txs : account.tx[u].status \in Outcomes => Keeps(u)
  /\ \A r \in Requests : D(r).status = "dropped" => Keeps(DepositTx(r))

LEMMA HistoryStays ==
  ASSUME History, NEW r \in Requests
  PROVE  /\ Landed(account, r) => Landed(account', r)
         /\ ReplacedBy(account, DepositTx(r), Approvals \cup Foreign)
              => ReplacedBy(account', DepositTx(r), Approvals \cup Foreign)
         /\ \A n, m \in Nat : FundedOrReplaced(account, n) /\ m >= n
                                => FundedOrReplaced(account', m)
<1>1. ASSUME NEW q \in Requests, NEW Ts \in SUBSET Txs, ReplacedBy(account, DepositTx(q), Ts)
      PROVE  ReplacedBy(account', DepositTx(q), Ts)
  <2>1. PICK u \in Ts : account.tx[u].status = "success"
                        /\ account.tx[u].nonce = account.tx[DepositTx(q)].nonce
    BY <1>1 DEF ReplacedBy
  <2>2. Keeps(u) /\ Keeps(DepositTx(q))
    BY <1>1, <2>1 DEF History, ReplacedBy, D, Outcomes
  <2> QED BY <1>1, <2>1, <2>2 DEF ReplacedBy, Keeps
<1>2. Foreign \in SUBSET Txs /\ Approvals \cup Foreign \in SUBSET Txs
  BY TxFacts
<1>3. account.tx[DepositTx(r)].status = "success"
        => account'.tx[DepositTx(r)].status = "success"
  BY TxFacts DEF History, Keeps, Outcomes
<1> QED BY <1>1, <1>2, <1>3 DEF Landed, FundedOrReplaced

(* A step of one transaction leaves these parts of the invariant as they   *)
(* are, once the nonces and what was signed are settled.                   *)
LEMMA TxStep ==
  ASSUME IInv, History, account' \in Ordered(Txs), TypeOK', Signed(account)',
         ReplacedByForeign(account)' \/ "slow" \in env,
         UNCHANGED <<poll, env>>,
         deposited' >= deposited,
         \A r \in Requests : D(r)'.status = "success" => deposited' > 0,
         \A r \in Requests : pc[r] = "done" => pc'[r] = "done",
         \A r \in Requests : pc'[r] = "settled" => pc[r] = "settled",
         row'.status = "confirmed" => row' = row,
         "slow" \notin env => RowOfHolder' /\ OneHolder',
         NamedByRow'
  PROVE  IInv'
<1>1. deposited \in Nat /\ deposited' \in Nat
  BY FundsAssumption DEF IInv, TypeOK
<1>2. FundedOrReplaced(account, deposited) => FundedOrReplaced(account', deposited')
  <2>1. CASE Requests = {}
    BY <1>1, <2>1 DEF FundedOrReplaced
  <2>2. CASE Requests # {}
    <3>1. PICK r \in Requests : TRUE
      BY <2>2
    <3> QED BY <1>1, <3>1, HistoryStays
  <2> QED BY <2>1, <2>2
<1>3. SuccessFunds'
  BY <1>2 DEF IInv, SuccessFunds
<1>4. PollTrue'
  BY TxFacts DEF IInv, PollTrue, History, Keeps, D
<1>5. SettledLanded(account)' \/ "slow" \in env
  BY HistoryStays DEF IInv, HeldAlone, SettledLanded
<1>6. ConfirmedIn(account)' \/ "slow" \in env
  BY HistoryStays DEF IInv, HeldAlone, ConfirmedIn
<1>7. HeldAlone'
  BY <1>5, <1>6 DEF HeldAlone
<1> QED BY <1>3, <1>4, <1>7 DEF IInv, SignedByPlace

LEMMA SignTx ==
  ASSUME IInv, NEW t \in Txs, account.tx[t].status = "unsigned",
         account' = Sign(account, t)
  PROVE  /\ account' \in Ordered(Txs) /\ account' \in Account(Txs)
         /\ account'.tx[t].status = "signed"
         /\ \A u \in Txs \ {t} : Keeps(u)
         /\ History
         /\ \A q \in Requests :
              ReplacedByForeign(account) /\ pc[q] = "sent" /\ D(q)'.status = "dropped"
                => ForeignTakes(account', q)
<1>1. account \in Ordered(Txs) /\ account \in Account(Txs)
  BY DEF IInv, Ordered
<1>2. account' \in Ordered(Txs) /\ account' \in Account(Txs)
  BY <1>1, TxsFinite, SignOrdered DEF Ordered
<1>3. /\ account'.tx[t] = [status |-> "signed", nonce |-> PendingCount(account)]
      /\ \A u \in Txs \ {t} : account'.tx[u] = account.tx[u]
  BY <1>1, TxsFinite, SignFacts
<1>4. account'.tx[t].status = "signed" /\ \A u \in Txs \ {t} : Keeps(u)
  BY <1>3 DEF Keeps
<1>5. History
  BY <1>4, TxFacts DEF History, D, Outcomes
<1>6. ASSUME NEW q \in Requests, ReplacedByForeign(account), pc[q] = "sent",
             D(q)'.status = "dropped"
      PROVE  ForeignTakes(account', q)
  <2>1. DepositTx(q) \in Txs \ {t} /\ Keeps(DepositTx(q)) /\ D(q).status = "dropped"
    BY <1>4, <1>6, TxFacts DEF D, Keeps
  <2>2. ForeignTakes(account, q)
    BY <1>6, <2>1 DEF ReplacedByForeign, D
  <2>3. ASSUME NEW u \in Txs, account'.tx[u].status \in {"pooled"} \cup Outcomes,
               account'.tx[u].nonce = account'.tx[DepositTx(q)].nonce
        PROVE  u \in Foreign
    <3>1. u # t
      BY <1>4, <2>3 DEF Outcomes
    <3>2. Keeps(u)
      BY <1>4, <3>1
    <3> QED BY <2>1, <2>2, <2>3, <3>2 DEF ForeignTakes, Keeps
  <2> QED BY <2>3 DEF ForeignTakes
<1> QED BY <1>2, <1>4, <1>5, <1>6

LEMMA SendTx ==
  ASSUME IInv, NEW t \in Txs, account.tx[t].status \in {"signed", "dropped"},
         t \in Approvals \cup Foreign \/ account.tx[t].status = "signed",
         ~NonceTooLow(account, t), account' = PutInPool(account, t)
  PROVE  /\ account' \in Ordered(Txs) /\ account' \in Account(Txs)
         /\ account'.tx[t].status = "pooled"
         /\ \A u \in Txs \ {t} : \/ Keeps(u)
                                 \/ /\ account.tx[u].status = "pooled"
                                    /\ account'.tx[u].status = "dropped"
         /\ History
         /\ \A q \in Requests :
              /\ ReplacedByForeign(account) /\ pc[q] = "sent"
              /\ D(q)'.status = "dropped" /\ t \in Foreign
              => ForeignTakes(account', q)
<1>1. account \in Ordered(Txs) /\ account \in Account(Txs)
  BY DEF IInv, Ordered
<1>2. /\ account' \in Ordered(Txs) /\ account' \in Account(Txs)
      /\ account'.tx[t].status = "pooled"
      /\ \A u \in Txs : account'.tx[u].nonce = account.tx[u].nonce
      /\ \A u \in Txs \ {t} : account'.tx[u].status =
           IF u \in Rivals(account, t) THEN "dropped" ELSE account.tx[u].status
  BY <1>1, TxsFinite, PutOrdered, PutFacts DEF Ordered
<1>3. \A u \in Rivals(account, t) : account.tx[u].status = "pooled"
  BY <1>1, TxsFinite, PoolFacts DEF Rivals
<1>4. \A u \in Txs \ {t} : \/ Keeps(u)
                           \/ /\ account.tx[u].status = "pooled"
                              /\ account'.tx[u].status = "dropped"
  BY <1>2, <1>3 DEF Keeps
<1>5. History
  <2>1. \A u \in Txs : account.tx[u].status \in Outcomes => Keeps(u)
    BY <1>4 DEF Outcomes
  <2>2. ASSUME NEW r \in Requests, D(r).status = "dropped" PROVE Keeps(DepositTx(r))
    <3>1. DepositTx(r) # t
      BY <2>2, TxFacts DEF D
    <3> QED BY <1>4, <2>2, <3>1, TxFacts DEF D
  <2> QED BY <2>1, <2>2 DEF History
<1>6. ASSUME NEW q \in Requests, ReplacedByForeign(account), pc[q] = "sent",
             D(q)'.status = "dropped", t \in Foreign
      PROVE  ForeignTakes(account', q)
  <2> DEFINE d == DepositTx(q)
  <2>1. d \in Txs \ {t} /\ account'.tx[d].status = "dropped"
    BY <1>6, TxFacts DEF D
  <2>2. ASSUME NEW u \in Txs, account'.tx[u].status \in {"pooled"} \cup Outcomes,
               account'.tx[u].nonce = account'.tx[d].nonce, u # t
        PROVE  u \in Foreign
    <3>1. Keeps(u) /\ account.tx[u].nonce = account.tx[d].nonce
      BY <1>2, <1>4, <2>1, <2>2 DEF Outcomes
    <3>2. CASE account.tx[d].status = "dropped"
      BY <1>6, <2>2, <3>1, <3>2 DEF ReplacedByForeign, ForeignTakes, Keeps
    <3>3. CASE account.tx[d].status # "dropped"
      <4>1. account.tx[d].status = "pooled" /\ u # d
        BY <1>4, <2>1, <2>2, <3>3 DEF Keeps, Outcomes
      <4>2. NoncesInOrder(account) /\ DOMAIN account.tx = Txs /\ account.next \in Nat
            /\ Pooled(account) = {w \in Txs : account.tx[w].status = "pooled"}
            /\ \A w \in Txs : account.tx[w].nonce \in Nat
        BY <1>1, TxsFinite, PoolFacts DEF Ordered, Account, TxState
      <4>3. CASE account.tx[u].status = "pooled"
        BY <2>1, <3>1, <4>1, <4>2, <4>3 DEF NoncesInOrder
      <4>4. CASE account.tx[u].status \in Outcomes
        <5>1. account.tx[u].nonce < account.next /\ account.tx[d].nonce >= account.next
          BY <2>1, <4>1, <4>2, <4>4 DEF NoncesInOrder
        <5> QED BY <2>1, <3>1, <4>2, <5>1
      <4> QED BY <2>2, <3>1, <4>3, <4>4 DEF Keeps
    <3> QED BY <3>2, <3>3
  <2> QED BY <1>6, <2>2 DEF ForeignTakes
<1> QED BY <1>2, <1>4, <1>5, <1>6

LEMMA MineTx ==
  ASSUME IInv, NEW t \in Minable(account), NEW outcome \in Outcomes,
         account' = Include(account, t, outcome)
  PROVE  /\ account' \in Ordered(Txs) /\ account' \in Account(Txs) /\ t \in Txs
         /\ account.tx[t].status = "pooled" /\ account'.tx[t].status = outcome
         /\ \A u \in Txs \ {t} : Keeps(u)
         /\ History
         /\ \A q \in Requests :
              ReplacedByForeign(account) /\ pc[q] = "sent" /\ D(q)'.status = "dropped"
                => ForeignTakes(account', q)
<1>1. account \in Ordered(Txs) /\ account \in Account(Txs)
  BY DEF IInv, Ordered
<1>2. t \in Txs /\ account.tx[t].status = "pooled"
  BY <1>1, TxsFinite, PoolFacts DEF Minable
<1>3. account' \in Ordered(Txs) /\ account' \in Account(Txs)
  BY <1>1, TxsFinite, IncludeOrdered DEF Ordered
<1>4. /\ account'.tx[t].status = outcome
      /\ \A u \in Txs : account'.tx[u].nonce = account.tx[u].nonce
      /\ \A u \in Txs \ {t} : account'.tx[u].status = account.tx[u].status
  BY <1>1, <1>2, TxsFinite, IncludeFacts
<1>5. \A u \in Txs \ {t} : Keeps(u)
  BY <1>4 DEF Keeps
<1>6. History
  BY <1>2, <1>5, TxFacts DEF History, D, Outcomes
<1>7. ASSUME NEW q \in Requests, ReplacedByForeign(account), pc[q] = "sent",
             D(q)'.status = "dropped"
      PROVE  ForeignTakes(account', q)
  <2>1. DepositTx(q) \in Txs /\ D(q).status = "dropped"
    BY <1>4, <1>7, TxFacts DEF D, Outcomes
  <2>2. ForeignTakes(account, q)
    BY <1>7, <2>1 DEF ReplacedByForeign, D
  <2>3. \A u \in Txs : account'.tx[u].status \in {"pooled"} \cup Outcomes =>
          account.tx[u].status \in {"pooled"} \cup Outcomes
    BY <1>2, <1>4
  <2> QED BY <1>4, <2>1, <2>2, <2>3 DEF ForeignTakes
<1> QED BY <1>2, <1>3, <1>4, <1>5, <1>6, <1>7

(* Foreign steps: deposits are dropped at most, requests do not move.      *)
LEMMA ForeignStep ==
  ASSUME IInv, UNCHANGED <<row, pc, poll, env, deposited>>, allowed' \in BOOLEAN,
         History, account' \in Ordered(Txs), account' \in Account(Txs),
         \A r \in Requests :
           /\ A(r)'.status # A(r).status => A(r).status = "pooled"
           /\ D(r)'.status # D(r).status =>
                D(r).status = "pooled" /\ D(r)'.status = "dropped",
         ReplacedByForeign(account) => ReplacedByForeign(account)'
  PROVE  IInv'
<1>1. TypeOK'
  BY DEF IInv, TypeOK
<1>2. Signed(account)'
  BY DEF IInv, SignedByPlace, Signed, A, D
<1>3. NamedByRow'
  BY DEF IInv, NamedByRow
<1>4. \A r \in Requests : D(r)'.status = "success" => deposited' > 0
  BY DEF IInv, SuccessFunds
<1>5. "slow" \notin env => RowOfHolder' /\ OneHolder'
  BY DEF IInv, HeldAlone, RowOfHolder, OneHolder, HashAt, Live
<1>6. ReplacedByForeign(account)' \/ "slow" \in env
  BY DEF IInv, HeldAlone
<1>7. deposited' >= deposited
  BY FundsAssumption DEF IInv, TypeOK
<1> QED BY <1>1, <1>2, <1>3, <1>4, <1>5, <1>6, <1>7, TxStep

LEMMA SignOtherStep ==
  ASSUME IInv, NEW o \in Others, SignOther(o) PROVE IInv'
<1> DEFINE t == Other(o)
<1>1. t \in Txs /\ account.tx[t].status = "unsigned" /\ account' = Sign(account, t)
      /\ UNCHANGED <<row, pc, poll, env, deposited, allowed>>
  BY TxFacts DEF SignOther
<1> HIDE DEF t
<1>2. \A r \in Requests : Keeps(Approve(r)) /\ Keeps(DepositTx(r))
  BY <1>1, SignTx, TxFacts DEF t
<1>3. ReplacedByForeign(account) => ReplacedByForeign(account)'
  BY <1>1, SignTx DEF ReplacedByForeign, D
<1>4. allowed' \in BOOLEAN
  BY <1>1, Zenon DEF IInv, TypeOK
<1> QED BY <1>1, <1>2, <1>3, <1>4, SignTx, ForeignStep DEF Keeps, A, D

LEMMA SendOtherStep ==
  ASSUME IInv, NEW o \in Others, SendOther(o) PROVE IInv'
<1> DEFINE t == Other(o)
<1>1. t \in Txs /\ account.tx[t].status \in {"signed", "dropped"}
      /\ ~NonceTooLow(account, t) /\ account' = PutInPool(account, t)
      /\ UNCHANGED <<row, pc, poll, env, deposited, allowed>> /\ t \in Foreign
  BY TxFacts DEF SendOther
<1>2. \A r \in Requests : Approve(r) \in Txs \ {t} /\ DepositTx(r) \in Txs \ {t}
  BY TxFacts
<1> HIDE DEF t
<1>3. \A r \in Requests :
        /\ A(r)'.status # A(r).status => A(r).status = "pooled"
        /\ D(r)'.status # D(r).status => D(r).status = "pooled" /\ D(r)'.status = "dropped"
  BY <1>1, <1>2, SendTx DEF Keeps, A, D
<1>4. ReplacedByForeign(account) => ReplacedByForeign(account)'
  BY <1>1, SendTx DEF ReplacedByForeign, D
<1>5. allowed' \in BOOLEAN
  BY <1>1, Zenon DEF IInv, TypeOK
<1> QED BY <1>1, <1>3, <1>4, <1>5, SendTx, ForeignStep

LEMMA MineOtherStep ==
  ASSUME IInv, NEW o \in Others, MineOther(o) PROVE IInv'
<1> DEFINE t == Other(o)
<1>1. t \in Minable(account) /\ UNCHANGED <<row, pc, poll, env, deposited>>
      /\ \E outcome \in Outcomes : account' = Include(account, t, outcome)
  BY DEF MineOther, Outcomes
<1>2. allowed' \in BOOLEAN
  <2>1. allowed' \in BOOLEAN \/ allowed' = allowed
    BY Zenon DEF MineOther
  <2> QED BY <2>1, Zenon DEF IInv, TypeOK
<1>3. \A r \in Requests : Approve(r) \in Txs \ {t} /\ DepositTx(r) \in Txs \ {t}
  BY TxFacts
<1> HIDE DEF t
<1>4. \A r \in Requests : Keeps(Approve(r)) /\ Keeps(DepositTx(r))
  BY <1>1, <1>3, MineTx
<1>5. ReplacedByForeign(account) => ReplacedByForeign(account)'
  BY <1>1, MineTx DEF ReplacedByForeign, D
<1>6. History /\ account' \in Ordered(Txs) /\ account' \in Account(Txs)
  BY <1>1, MineTx
<1> QED BY <1>1, <1>2, <1>4, <1>5, <1>6, ForeignStep DEF Keeps, A, D

LEMMA MineApproveStep ==
  ASSUME IInv, NEW r \in Requests, MineApprove(r) PROVE IInv'
<1> DEFINE t == Approve(r)
<1>1. PICK outcome \in Outcomes : /\ account' = Include(account, t, outcome)
                                  /\ allowed' = (allowed \/ outcome = "success")
  BY DEF MineApprove
<1>2. t \in Minable(account) /\ UNCHANGED <<row, pc, poll, env, deposited>>
  BY DEF MineApprove
<1>3. allowed' \in BOOLEAN
  BY <1>1, Zenon DEF IInv, TypeOK
<1>4. /\ \A s \in Requests : DepositTx(s) \in Txs \ {t}
      /\ \A s \in Requests : s # r => Approve(s) \in Txs \ {t}
  BY TxFacts
<1>5. A(r).status = "pooled"
  BY <1>1, <1>2, MineTx DEF A
<1> HIDE DEF t
<1>6. /\ \A s \in Requests : Keeps(DepositTx(s))
      /\ \A s \in Requests : s # r => Keeps(Approve(s))
  BY <1>1, <1>2, <1>4, MineTx
<1>7. ReplacedByForeign(account) => ReplacedByForeign(account)'
  BY <1>1, <1>2, MineTx DEF ReplacedByForeign, D
<1>8. History /\ account' \in Ordered(Txs) /\ account' \in Account(Txs)
  BY <1>1, <1>2, MineTx
<1> QED BY <1>2, <1>3, <1>5, <1>6, <1>7, <1>8, ForeignStep DEF Keeps, A, D

LEMMA MineDepositStep ==
  ASSUME IInv, NEW r \in Requests, MineDeposit(r) PROVE IInv'
<1> DEFINE t == DepositTx(r)
<1>1. PICK outcome \in Outcomes :
        /\ account' = Include(account, t, outcome)
        /\ \/ /\ outcome = "success" /\ deposited < Funds
              /\ allowed' = FALSE /\ deposited' = deposited + 1
           \/ outcome = "reverted" /\ UNCHANGED <<allowed, deposited>>
  BY DEF MineDeposit, Outcomes
<1>2. t \in Minable(account) /\ UNCHANGED <<row, pc, poll, env>>
  BY DEF MineDeposit
<1>3. /\ \A s \in Requests : Approve(s) \in Txs \ {t}
      /\ \A s \in Requests : s # r => DepositTx(s) \in Txs \ {t}
  BY TxFacts
<1>4. D(r).status = "pooled" /\ D(r)'.status = outcome
  BY <1>1, <1>2, MineTx DEF D
<1> HIDE DEF t
<1>5. /\ \A s \in Requests : Keeps(Approve(s))
      /\ \A s \in Requests : s # r => Keeps(DepositTx(s))
      /\ History /\ account' \in Ordered(Txs) /\ account' \in Account(Txs)
  BY <1>1, <1>2, <1>3, MineTx
<1>6. \A s \in Requests : A(s)'.status = A(s).status
                          /\ (s # r => D(s)'.status = D(s).status)
  BY <1>5 DEF Keeps, A, D
<1>7. allowed' \in BOOLEAN
  <2>1. CASE allowed' = FALSE
    BY <2>1, Zenon
  <2>2. CASE allowed' = allowed
    BY <2>2, Zenon DEF IInv, TypeOK
  <2> QED BY <1>1, <2>1, <2>2
<1>8. deposited' \in 0 .. Funds /\ deposited \in 0 .. Funds /\ deposited' >= deposited
      /\ (outcome = "success" => deposited' = deposited + 1)
      /\ (outcome # "success" => deposited' = deposited)
  BY <1>1, FundsAssumption DEF IInv, TypeOK
<1>9. TypeOK'
  BY <1>2, <1>5, <1>7, <1>8 DEF IInv, TypeOK
<1>10. Signed(account)'
  BY <1>2, <1>4, <1>6 DEF IInv, SignedByPlace, Signed, A, D
<1>11. ReplacedByForeign(account)' \/ "slow" \in env
  <2>1. ReplacedByForeign(account) => ReplacedByForeign(account)'
    BY <1>1, <1>2, MineTx DEF ReplacedByForeign, D
  <2> QED BY <2>1 DEF IInv, HeldAlone
<1>12. \A s \in Requests : D(s)'.status = "success" => deposited' > 0
  BY <1>4, <1>6, <1>8 DEF IInv, SuccessFunds
<1>13. "slow" \notin env => RowOfHolder' /\ OneHolder'
  BY <1>2 DEF IInv, HeldAlone, RowOfHolder, OneHolder, HashAt, Live
<1>14. NamedByRow'
  <2> SUFFICES ASSUME env = {} PROVE NamedByRow'
    BY <1>2 DEF NamedByRow
  <2>1. row.txHash = r /\ row.status \in {"submitted", "confirmed"}
    BY <1>4 DEF IInv, NamedByRow
  <2>2. \A s \in Requests : s # r => D(s).status \notin {"pooled", "success"}
    BY <2>1 DEF IInv, NamedByRow
  <2>3. deposited = 0
    BY <1>4, <1>8, <2>2 DEF IInv, NamedByRow
  <2> QED BY <1>2, <1>4, <1>6, <1>8, <2>1, <2>2, <2>3 DEF NamedByRow, Outcomes
<1> QED BY <1>2, <1>5, <1>8, <1>9, <1>10, <1>11, <1>12, <1>13, <1>14, TxStep

-------------------------------------------------------------------------------
(* Steps of a request that sign or send.                                   *)

LEMMA SignApproveStep ==
  ASSUME IInv, NEW r \in Requests, SignApprove(r) PROVE IInv'
<1> DEFINE t == Approve(r)
<1>1. /\ pc[r] = "claimed" /\ pc' = [pc EXCEPT ![r] = "prepared"]
      /\ UNCHANGED <<row, allowed, deposited, poll, env>>
      /\ pc \in [Requests -> Working \cup {"new", "inserting", "claiming", "done"}]
      /\ t \in Txs /\ account.tx[t].status = "unsigned" /\ account' = Sign(account, t)
  BY TxFacts DEF SignApprove, At, IInv, TypeOK, SignedByPlace, Signed
<1>2. /\ \A s \in Requests : DepositTx(s) \in Txs \ {t}
      /\ \A s \in Requests : s # r => Approve(s) \in Txs \ {t}
  BY TxFacts
<1>3. A(r)'.status = "signed"
  BY <1>1, SignTx DEF A
<1> HIDE DEF t
<1>4. /\ \A s \in Requests : D(s)'.status = D(s).status
      /\ \A s \in Requests : s # r => A(s)'.status = A(s).status
      /\ History /\ account' \in Ordered(Txs) /\ account' \in Account(Txs)
  BY <1>1, <1>2, SignTx DEF Keeps, A, D
<1>5. TypeOK'
  BY <1>1, <1>4 DEF IInv, TypeOK, Working
<1>6. Signed(account)'
  BY <1>1, <1>3, <1>4 DEF IInv, SignedByPlace, Signed, A, D
<1>7. ReplacedByForeign(account)' \/ "slow" \in env
  BY <1>1, SignTx DEF IInv, HeldAlone, ReplacedByForeign, D
<1>8. "slow" \notin env => RowOfHolder' /\ OneHolder'
  BY <1>1 DEF IInv, HeldAlone, RowOfHolder, OneHolder, HashAt, Live, Working
<1>9. NamedByRow'
  BY <1>1, <1>4 DEF IInv, NamedByRow
<1>10. /\ \A s \in Requests : D(s)'.status = "success" => deposited' > 0
       /\ deposited' >= deposited
  BY <1>1, <1>4, FundsAssumption DEF IInv, TypeOK, SuccessFunds
<1> QED BY <1>1, <1>4, <1>5, <1>6, <1>7, <1>8, <1>9, <1>10, TxStep

LEMMA SignDepositStep ==
  ASSUME IInv, NEW r \in Requests, SignDeposit(r) PROVE IInv'
<1> DEFINE t == DepositTx(r)
<1>1. /\ pc[r] = "approved" /\ pc' = [pc EXCEPT ![r] = "signed"]
      /\ UNCHANGED <<row, allowed, deposited, poll, env>>
      /\ pc \in [Requests -> Working \cup {"new", "inserting", "claiming", "done"}]
      /\ t \in Txs /\ account.tx[t].status = "unsigned" /\ account' = Sign(account, t)
  BY TxFacts DEF SignDeposit, At, IInv, TypeOK, SignedByPlace, Signed
<1>2. /\ \A s \in Requests : Approve(s) \in Txs \ {t}
      /\ \A s \in Requests : s # r => DepositTx(s) \in Txs \ {t}
  BY TxFacts
<1>3. D(r).status = "unsigned" /\ D(r)'.status = "signed"
  BY <1>1, SignTx DEF D
<1> HIDE DEF t
<1>4. /\ \A s \in Requests : A(s)'.status = A(s).status
      /\ \A s \in Requests : s # r => D(s)'.status = D(s).status
      /\ History /\ account' \in Ordered(Txs) /\ account' \in Account(Txs)
  BY <1>1, <1>2, SignTx DEF Keeps, A, D
<1>5. TypeOK'
  BY <1>1, <1>4 DEF IInv, TypeOK, Working
<1>6. Signed(account)'
  BY <1>1, <1>3, <1>4 DEF IInv, SignedByPlace, Signed, A, D
<1>7. ReplacedByForeign(account)' \/ "slow" \in env
  BY <1>1, SignTx DEF IInv, HeldAlone, ReplacedByForeign, D
<1>8. "slow" \notin env => RowOfHolder' /\ OneHolder'
  BY <1>1 DEF IInv, HeldAlone, RowOfHolder, OneHolder, HashAt, Live, Working
<1>9. NamedByRow'
  BY <1>1, <1>3, <1>4 DEF IInv, NamedByRow
<1>10. /\ \A s \in Requests : D(s)'.status = "success" => deposited' > 0
       /\ deposited' >= deposited
  BY <1>1, <1>3, <1>4, FundsAssumption DEF IInv, TypeOK, SuccessFunds
<1> QED BY <1>1, <1>4, <1>5, <1>6, <1>7, <1>8, <1>9, <1>10, TxStep

LEMMA SendApproveStep ==
  ASSUME IInv, NEW r \in Requests, SendApprove(r) PROVE IInv'
<1> DEFINE t == Approve(r)
<1>1. /\ pc[r] = "prepared" /\ Live(r)
      /\ \/ pc' = [pc EXCEPT ![r] = "approving"] \/ pc' = [pc EXCEPT ![r] = "done"]
      /\ UNCHANGED <<row, allowed, deposited, poll, env>>
      /\ pc \in [Requests -> Working \cup {"new", "inserting", "claiming", "done"}]
      /\ t \in Txs /\ account.tx[t].status = "signed" /\ t \in Approvals
      /\ ~NonceTooLow(account, t) /\ account' = PutInPool(account, t)
  BY TxFacts DEF SendApprove, At, IInv, TypeOK, SignedByPlace, Signed, Live, Working
<1>2. /\ \A s \in Requests : DepositTx(s) \in Txs \ {t}
      /\ \A s \in Requests : s # r => Approve(s) \in Txs \ {t}
  BY TxFacts
<1> HIDE DEF t
<1>3. /\ \A s \in Requests : D(s)'.status # D(s).status =>
           D(s).status = "pooled" /\ D(s)'.status = "dropped"
      /\ \A s \in Requests : s # r /\ A(s)'.status # A(s).status => A(s).status = "pooled"
      /\ History /\ account' \in Ordered(Txs) /\ account' \in Account(Txs)
  BY <1>1, <1>2, SendTx DEF Keeps, A, D
<1>4. TypeOK'
  BY <1>1, <1>3 DEF IInv, TypeOK, Working
<1>5. Signed(account)'
  BY <1>1, <1>3 DEF IInv, SignedByPlace, Signed, A, D
<1>6. ReplacedByForeign(account)' \/ "slow" \in env
  BY <1>1 DEF IInv, HeldAlone, OneHolder, ReplacedByForeign, Live, Working
<1>7. "slow" \notin env => RowOfHolder' /\ OneHolder'
  BY <1>1 DEF IInv, HeldAlone, RowOfHolder, OneHolder, HashAt, Live, Working
<1>8. NamedByRow'
  BY <1>1, <1>3 DEF IInv, NamedByRow
<1>9. /\ \A s \in Requests : D(s)'.status = "success" => deposited' > 0
      /\ deposited' >= deposited
  BY <1>1, <1>3, FundsAssumption DEF IInv, TypeOK, SuccessFunds
<1> QED BY <1>1, <1>3, <1>4, <1>5, <1>6, <1>7, <1>8, <1>9, TxStep

LEMMA BroadcastStep ==
  ASSUME IInv, NEW r \in Requests, Broadcast(r) PROVE IInv'
<1> DEFINE t == DepositTx(r)
<1>1. /\ pc[r] = "persisted" /\ Live(r)
      /\ \/ pc' = [pc EXCEPT ![r] = "sent"] /\ row' = row
         \/ "lost" \in env /\ pc' = [pc EXCEPT ![r] = "done"] /\ row' = Unsent
      /\ UNCHANGED <<allowed, deposited, poll, env>>
      /\ pc \in [Requests -> Working \cup {"new", "inserting", "claiming", "done"}]
      /\ row \in Row
      /\ t \in Txs /\ account.tx[t].status = "signed"
      /\ ~NonceTooLow(account, t) /\ account' = PutInPool(account, t)
  BY TxFacts DEF Broadcast, At, IInv, TypeOK, SignedByPlace, Signed, Live, Working
<1>2. /\ \A s \in Requests : Approve(s) \in Txs \ {t}
      /\ \A s \in Requests : s # r => DepositTx(s) \in Txs \ {t}
  BY TxFacts
<1>3. D(r).status = "signed" /\ D(r)'.status = "pooled"
  BY <1>1, SendTx DEF D
<1> HIDE DEF t
<1>4. /\ \A s \in Requests : s # r /\ D(s)'.status # D(s).status =>
           D(s).status = "pooled" /\ D(s)'.status = "dropped"
      /\ \A s \in Requests : A(s)'.status # A(s).status => A(s).status = "pooled"
      /\ History /\ account' \in Ordered(Txs) /\ account' \in Account(Txs)
  BY <1>1, <1>2, SendTx DEF Keeps, A, D
<1>5. TypeOK'
  BY <1>1, <1>4, RowWrites DEF IInv, TypeOK, Working
<1>6. Signed(account)'
  BY <1>1, <1>3, <1>4 DEF IInv, SignedByPlace, Signed, A, D
<1>7. "slow" \notin env => \A s \in Requests : s # r => ~Live(s) /\ ~Live(s)'
  BY <1>1 DEF IInv, HeldAlone, OneHolder, Live
<1>8. ReplacedByForeign(account)' \/ "slow" \in env
  BY <1>1, <1>3, <1>7 DEF ReplacedByForeign, Live, Working, D
<1>9. "slow" \notin env => RowOfHolder' /\ OneHolder'
  BY <1>1, <1>7 DEF IInv, HeldAlone, RowOfHolder, OneHolder, HashAt, Live, Working
<1>10. NamedByRow'
  <2> SUFFICES ASSUME env = {} PROVE NamedByRow'
    BY <1>1 DEF NamedByRow
  <2>1. row = [status |-> "submitted", txHash |-> r, fresh |-> TRUE] /\ row' = row
    BY <1>1 DEF IInv, HeldAlone, RowOfHolder, HashAt
  <2> QED BY <1>1, <1>3, <1>4, <2>1 DEF IInv, NamedByRow
<1>11. /\ \A s \in Requests : D(s)'.status = "success" => deposited' > 0
       /\ deposited' >= deposited
  BY <1>1, <1>3, <1>4, FundsAssumption DEF IInv, TypeOK, SuccessFunds
<1>12. row'.status = "confirmed" => row' = row
  BY <1>1, RowWrites
<1> QED BY <1>1, <1>4, <1>5, <1>6, <1>8, <1>9, <1>10, <1>11, <1>12, TxStep

-------------------------------------------------------------------------------
(* In every reachable state of every instance: what was seen to succeed    *)
(* succeeded, one request holds the lease, the row names what is out.      *)
THEOREM InductiveInvariant == Spec => []IInv
<1>1. IInv /\ [Next]_vars => IInv'
  <2> SUFFICES ASSUME IInv, [Next]_vars PROVE IInv'
    OBVIOUS
  <2>1. ASSUME NEW r \in Requests, Handle(r) PROVE IInv'
    BY <2>1, LookupStep, InsertStep, ClaimStep, GiveUpStep, SignApproveStep,
       SendApproveStep, AwaitApprovalStep, SignDepositStep, PersistHashStep,
       BroadcastStep, RefusedStep, AwaitDepositStep, TimeOutStep, ConfirmRowStep
       DEF Handle
  <2>2. ASSUME NEW r \in Requests, Crash(r) PROVE IInv'
    BY <2>2, CrashStep
  <2>3. CASE FetchReceipt \/ SettleRow \/ RowAges
    BY <2>3, FetchReceiptStep, SettleRowStep, RowAgesStep
  <2>4. CASE Mine
    BY <2>4, MineApproveStep, MineDepositStep, MineOtherStep DEF Mine
  <2>5. ASSUME NEW o \in Others, SignOther(o) \/ SendOther(o) PROVE IInv'
    BY <2>5, SignOtherStep, SendOtherStep
  <2>6. CASE UNCHANGED vars
    BY <2>6 DEF vars, chain, IInv, TypeOK, SignedByPlace, Signed, SuccessFunds,
       PollTrue, HeldAlone, RowOfHolder, OneHolder, ReplacedByForeign, SettledLanded,
       ConfirmedIn, NamedByRow, HashAt, Live, A, D
  <2> QED BY <2>1, <2>2, <2>3, <2>4, <2>5, <2>6 DEF Next
<1> QED BY <1>1, InitInv, PTL DEF Spec

(* The model keeps the types of row, transactions and counters.            *)
THEOREM DepositTypes == Spec => []TypeOK
<1>1. IInv => TypeOK
  BY DEF IInv
<1> QED BY <1>1, InductiveInvariant, PTL

(* One key funds the treasury at most once, in an environment that keeps   *)
(* to the lease and loses no answer, however many requests, crashes and    *)
(* replaced transactions there are (chain.ts:481).                         *)
THEOREM FundedOnce == Spec => []NeverDoubleFunds
<1>1. IInv => NeverDoubleFunds
  BY DEF IInv, NamedByRow, NeverDoubleFunds
<1> QED BY <1>1, InductiveInvariant, PTL

(* What a retry may take over after the lease was never sent               *)
(* (onBeforeBroadcast in chain.ts).                                        *)
THEOREM NothingBehindNull == Spec => []NullHashIsUnsent
<1>1. IInv => NullHashIsUnsent
  BY RequestsAssumption DEF IInv, NamedByRow, NullHashIsUnsent, D
<1> QED BY <1>1, InductiveInvariant, PTL

(* What a retry may take over at once moved no funds (orgs.ts).            *)
THEOREM FailedIsFree == Spec => []FailedMovedNothing
<1>1. IInv => FailedMovedNothing
  <2> SUFFICES ASSUME IInv, env = {}, row.status = "failed"
               PROVE  deposited = 0 /\ \A r \in Requests : DepositTx(r) \notin Pooled(account)
    BY DEF FailedMovedNothing
  <2>1. \A r \in Requests : D(r).status \notin {"pooled", "success"}
    BY DEF IInv, NamedByRow
  <2>2. deposited = 0
    BY <2>1, FundsAssumption DEF IInv, NamedByRow, TypeOK
  <2> QED BY <2>1, <2>2 DEF D, Pooled, HasStatus
<1> QED BY <1>1, InductiveInvariant, PTL

(* A confirmed row names a deposit that landed, or that a transaction of   *)
(* payroll or of another key replaced and landed instead of, lost answers  *)
(* or not, as long as requests keep to their lease.                        *)
THEOREM ConfirmedLanded == Spec => []ConfirmedIsSettled
<1>1. IInv => ConfirmedIsSettled
  BY RequestsAssumption
     DEF IInv, HeldAlone, ConfirmedIn, Landed, ConfirmedIsSettled
<1> QED BY <1>1, InductiveInvariant, PTL

(* Under every fault of the model, a confirmed row means funds unless some *)
(* deposit was replaced by a transaction that is none.                     *)
THEOREM ConfirmedFunded == Spec => []FundedUnlessReplaced
<1>1. IInv => FundedUnlessReplaced
  BY DEF IInv, SuccessFunds, FundedOrReplaced, FundedUnlessReplaced
<1> QED BY <1>1, InductiveInvariant, PTL

(* The reconciler never settles a row by the receipt of a hash the row had *)
(* before (reconciler.ts), whatever requests do between its two awaits.    *)
THEOREM ReconcilerIsCurrent == Spec => ReconciledByItsReceipt
<1> DEFINE Own ==
      pc' = pc /\ row'.status # row.status =>
        /\ row.status = "submitted" /\ row.txHash # NoTx
        /\ account.tx[DepositTx(row.txHash)].status =
             IF row'.status = "confirmed" THEN "success" ELSE "reverted"
<1>1. IInv /\ [Next]_vars => [Own]_vars
  <2> SUFFICES ASSUME IInv, Next, pc' = pc, row'.status # row.status PROVE Own
    BY DEF vars
  <2>1. pc \in [Requests -> Working \cup {"new", "inserting", "claiming", "done"}]
        /\ row \in Row
    BY DEF IInv, TypeOK
  <2>2. ASSUME NEW r \in Requests, NEW from \in STRING, NEW to \in STRING, from # to
        PROVE  ~At(r, from, to)
    BY <2>1, <2>2 DEF At
  <2>3. ASSUME NEW r \in Requests, Handle(r) PROVE FALSE
    <3>1. ~Lookup(r) /\ ~Insert(r) /\ ~Claim(r)
      BY <2>1 DEF Lookup, Insert, Claim, At
    <3>2. ~GiveUp(r) /\ ~SignApprove(r) /\ ~SendApprove(r) /\ ~AwaitApproval(r)
      BY <2>1 DEF GiveUp, SignApprove, SendApprove, AwaitApproval, At
    <3>3. ~SignDeposit(r) /\ ~PersistHash(r) /\ ~Broadcast(r) /\ ~Refused(r)
      BY <2>1 DEF SignDeposit, PersistHash, Broadcast, Refused, At
    <3>4. ~AwaitDeposit(r) /\ ~TimeOut(r) /\ ~ConfirmRow(r)
      BY <2>1 DEF AwaitDeposit, TimeOut, ConfirmRow, At
    <3> QED BY <2>3, <3>1, <3>2, <3>3, <3>4 DEF Handle
  <2>4. SettleRow
    <3>1. \A r \in Requests : ~Crash(r)
      BY DEF Crash
    <3>2. ~FetchReceipt /\ ~RowAges /\ ~Mine
          /\ \A o \in Others : ~SignOther(o) /\ ~SendOther(o)
      BY <2>1 DEF FetchReceipt, RowAges, Mine, MineApprove, MineDeposit, MineOther,
         SignOther, SendOther, Row
    <3> QED BY <2>3, <3>1, <3>2 DEF Next
  <2>5. /\ row.status = "submitted" /\ row.txHash \in Requests
        /\ \/ D(row.txHash).status = "success" /\ row'.status = "confirmed"
           \/ D(row.txHash).status = "reverted" /\ row'.status = "failed"
    BY <2>4, SettleFacts
  <2> QED BY <2>5, RequestsAssumption DEF D
<1> QED BY <1>1, InductiveInvariant, PTL DEF Spec, ReconciledByItsReceipt
===============================================================================

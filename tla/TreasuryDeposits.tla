--------------------------- MODULE TreasuryDeposits ----------------------------
(***************************************************************************)
(* POST /orgs/:id/treasury/deposit (routes/orgs.ts) with the approve and   *)
(* deposit it sends (payroll/chain.ts) and the reconciler of the rows it   *)
(* leaves behind (treasury/reconciler.ts).                                 *)
(*                                                                         *)
(* All requests carry one idempotency key, the case the code is about: a   *)
(* client that got no answer, or a 202, or a 502, asks again.  A request   *)
(* runs from one await to the next in one step; between two steps other    *)
(* requests, the reconciler and the chain move, and the process may die.   *)
(* Amounts are in units of the requested amount.                           *)
(***************************************************************************)
EXTENDS TreasuryAccount

CONSTANTS
  Requests,      \* HTTP requests with the key, numbered as they arrive
  NoTx,          \* txHash = null
  Faults,        \* what the environment may do: see below
  Funds,         \* deposits the treasury's public balance can pay for
  Others,        \* payroll transfers, and what other keys' deposits send
  StormRequests  \* bound: requests that are made when the environment faults

(* "slow": a request takes longer than the lease of 90 seconds;            *)
(* "lost": the node takes a transaction, but the send reports an error.    *)
ASSUME FaultsAssumption == Faults \subseteq {"slow", "lost"}
ASSUME FundsAssumption == Funds \in Nat
ASSUME RequestsAssumption ==
  IsFiniteSet(Requests) /\ Requests \subseteq Nat /\ NoTx \notin Requests
ASSUME OthersAssumption == IsFiniteSet(Others)

Approve(r) == <<"approve", r>>
DepositTx(r) == <<"deposit", r>>
Other(o) == <<"other", o>>
Approvals == {"approve"} \X Requests
Deposits == {"deposit"} \X Requests
Foreign == {"other"} \X Others
Txs == Approvals \cup Deposits \cup Foreign

VARIABLES
  row,           \* the treasury_deposits row of the key; txHash names the signer
  pc,            \* where each request is
  account,       \* the treasury's transactions
  allowed,       \* the converter's allowance covers the amount
  deposited,     \* deposits that have landed
  poll,          \* the receipt the reconciler has fetched
  env            \* the faults of this behaviour: none, or all of Faults

chain == <<account, allowed, deposited>>
vars  == <<row, pc, chain, poll, env>>

Row == [status : {"absent", "submitted", "confirmed", "failed"},
        txHash : Requests \cup {NoTx},
        fresh  : BOOLEAN]

(* Requests between their claim of the row and their reply.                *)
Working == {"claimed", "prepared", "approving", "approved", "signed",
            "persisted", "sent", "settled"}

Live(r) == pc[r] \in Working

Receipt == [txHash : Requests, status : Outcomes]
NoReceipt == [txHash |-> NoTx, status |-> "none"]

TypeOK ==
  /\ row \in Row
  /\ pc \in [Requests -> Working \cup {"new", "inserting", "claiming", "done"}]
  /\ account \in Account(Txs)
  /\ allowed \in BOOLEAN
  /\ deposited \in 0 .. Funds
  /\ poll \in Receipt \cup {NoReceipt}
  /\ env \in {{}, Faults}

NoRow == [status |-> "absent", txHash |-> NoTx, fresh |-> FALSE]

Init ==
  /\ row = NoRow
  /\ env \in {{}, Faults}
  /\ pc = [r \in Requests |->
             IF env = {} \/ r \in StormRequests THEN "new" ELSE "done"]
  /\ account = NewAccount(Txs)
  /\ allowed = FALSE
  /\ deposited = 0
  /\ poll = NoReceipt

At(r, from, to) == pc[r] = from /\ pc' = [pc EXCEPT ![r] = to]

-------------------------------------------------------------------------------
(* Idempotency lookup and claim of the row.                                *)

Claimed == [status |-> "submitted", txHash |-> NoTx, fresh |-> TRUE]

Resumable(w) ==
  \/ w.status = "failed"
  \/ w.status = "submitted" /\ w.txHash = NoTx /\ ~w.fresh

Lookup(r) ==
  /\ \A q \in Requests : q < r => pc[q] # "new"
  /\ At(r, "new", IF row.status = "absent" THEN "inserting"
                  ELSE IF Resumable(row) THEN "claiming" ELSE "done")
  /\ UNCHANGED <<row, chain, poll, env>>

(* The unique index on (org, key) rejects the second insert.               *)
Insert(r) ==
  /\ At(r, "inserting", IF row.status = "absent" THEN "claimed" ELSE "done")
  /\ row' = IF row.status = "absent" THEN Claimed ELSE row
  /\ UNCHANGED <<chain, poll, env>>

(* Mutant: the row is not read again under the lock.                       *)
Claim_NoRecheck(r) ==
  /\ At(r, "claiming", "claimed")
  /\ row' = Claimed
  /\ UNCHANGED <<chain, poll, env>>

Claim(r) ==
  /\ At(r, "claiming", IF Resumable(row) THEN "claimed" ELSE "done")
  /\ row' = IF Resumable(row) THEN Claimed ELSE row
  /\ UNCHANGED <<chain, poll, env>>

-------------------------------------------------------------------------------
(* submitTreasuryDeposit.  A failure before the broadcast leaves the row   *)
(* as it is and answers 202.                                               *)

GiveUp(r) ==
  /\ \/ At(r, "claimed", "done")
     \/ At(r, "prepared", "done")
     \/ At(r, "approving", "done")
     \/ At(r, "approved", "done")
     \/ At(r, "signed", "done")
  /\ UNCHANGED <<row, chain, poll, env>>

(* writeContract reads the nonce and signs, then sends: the node may refuse*)
(* by then (GiveUp), or take the approval and report an error.             *)
SignApprove(r) ==
  /\ At(r, "claimed", "prepared")
  /\ account' = Sign(account, Approve(r))
  /\ UNCHANGED <<row, allowed, deposited, poll, env>>

SendApprove(r) ==
  /\ ~NonceTooLow(account, Approve(r))
  /\ account' = PutInPool(account, Approve(r))
  /\ \/ At(r, "prepared", "approving")
     \/ "lost" \in env /\ At(r, "prepared", "done")
  /\ UNCHANGED <<row, allowed, deposited, poll, env>>

FailRow == [row EXCEPT !.status = "failed", !.fresh = TRUE]

AwaitApproval(r) ==
  /\ \E status \in ReceiptStatuses(account, Approve(r)) :
       IF status = "success"
         THEN At(r, "approving", "approved") /\ UNCHANGED row
         ELSE At(r, "approving", "done") /\ row' = FailRow
  /\ UNCHANGED <<chain, poll, env>>

(* Preparing the transaction estimates its gas, which fails when the       *)
(* deposit would revert now (GiveUp).                                      *)
SignDeposit(r) ==
  /\ allowed /\ deposited < Funds
  /\ At(r, "approved", "signed")
  /\ account' = Sign(account, DepositTx(r))
  /\ UNCHANGED <<row, allowed, deposited, poll, env>>

(* onBeforeBroadcast.  The update may take effect and still report an      *)
(* error; the request then stops as in GiveUp.                             *)
PersistHash(r) ==
  /\ At(r, "signed", "persisted") \/ At(r, "signed", "done")
  /\ row' = [row EXCEPT !.txHash = r, !.fresh = TRUE]
  /\ UNCHANGED <<chain, poll, env>>

Unsent == [row EXCEPT !.status = "submitted", !.txHash = NoTx, !.fresh = TRUE]

(* The node takes the transaction.  A rival in the pool, a transaction with*)
(* the same nonce, is either replaced or the reason to refuse.             *)
Broadcast(r) ==
  /\ ~NonceTooLow(account, DepositTx(r))
  /\ account' = PutInPool(account, DepositTx(r))
  /\ \/ At(r, "persisted", "sent") /\ UNCHANGED row
     \/ "lost" \in env /\ At(r, "persisted", "done") /\ row' = Unsent
  /\ UNCHANGED <<allowed, deposited, poll, env>>

(* "nonce too low" counts as sent, any other error as rejected.            *)
Refused(r) ==
  /\ IF NonceTooLow(account, DepositTx(r))
       THEN At(r, "persisted", "sent") /\ UNCHANGED row
       ELSE At(r, "persisted", "done") /\ row' = Unsent
  /\ UNCHANGED <<chain, poll, env>>

(* Mutant: throwIfRevertedReceipt is missing.                              *)
AwaitDeposit_AnyStatus(r) ==
  /\ ReceiptStatuses(account, DepositTx(r)) # {}
  /\ At(r, "sent", "settled")
  /\ UNCHANGED <<row, chain, poll, env>>

(* Mutant: the receipt's status is written to the row as it is.            *)
AwaitDeposit_AsReceipt(r) ==
  /\ \E status \in ReceiptStatuses(account, DepositTx(r)) :
       IF status = "success"
         THEN At(r, "sent", "settled") /\ UNCHANGED row
         ELSE At(r, "sent", "done") /\ row' = [FailRow EXCEPT !.status = status]
  /\ UNCHANGED <<chain, poll, env>>

AwaitDeposit(r) ==
  /\ \E status \in ReceiptStatuses(account, DepositTx(r)) :
       IF status = "success"
         THEN At(r, "sent", "settled") /\ UNCHANGED row
         ELSE At(r, "sent", "done") /\ row' = FailRow
  /\ UNCHANGED <<chain, poll, env>>

(* Mutant: a wait that times out frees the row for a retry.                *)
TimeOut_FreesRow(r) ==
  /\ At(r, "sent", "done")
  /\ row' = Unsent
  /\ UNCHANGED <<chain, poll, env>>

(* Mutant: a wait that times out counts as a failure.                      *)
TimeOut_Fails(r) ==
  /\ At(r, "sent", "done")
  /\ row' = FailRow
  /\ UNCHANGED <<chain, poll, env>>

(* The wait times out: the row keeps its hash for the reconciler.          *)
TimeOut(r) ==
  /\ At(r, "sent", "done")
  /\ UNCHANGED <<row, chain, poll, env>>

ConfirmRow(r) ==
  /\ At(r, "settled", "done")
  /\ row' = [status |-> "confirmed", txHash |-> r, fresh |-> TRUE]
  /\ UNCHANGED <<chain, poll, env>>

Crash(r) ==
  /\ Live(r)
  /\ pc' = [pc EXCEPT ![r] = "done"]
  /\ poll' \in {poll, NoReceipt}
  /\ UNCHANGED <<row, chain, env>>

-------------------------------------------------------------------------------
(* reconcileTreasuryDeposits.                                              *)

(* Mutant: the reconciler passes over reverted receipts.                   *)
FetchReceipt_SuccessOnly ==
  /\ poll = NoReceipt
  /\ row.status = "submitted" /\ row.txHash # NoTx /\ ~row.fresh
  /\ account.tx[DepositTx(row.txHash)].status = "success"
  /\ poll' = [txHash |-> row.txHash, status |-> "success"]
  /\ UNCHANGED <<row, pc, chain, env>>

(* getTransactionReceipt of the hash a row has carried beyond the grace.   *)
FetchReceipt ==
  /\ poll = NoReceipt
  /\ row.status = "submitted" /\ row.txHash # NoTx /\ ~row.fresh
  /\ \E status \in OwnReceipt(account, DepositTx(row.txHash)) :
       poll' = [txHash |-> row.txHash, status |-> status]
  /\ UNCHANGED <<row, pc, chain, env>>

Settled == [row EXCEPT
  !.status = IF poll.status = "success" THEN "confirmed" ELSE "failed",
  !.fresh = TRUE]

(* Mutant: the row is settled whatever it is by now.                       *)
SettleRow_NoRecheck ==
  /\ poll # NoReceipt
  /\ poll' = NoReceipt
  /\ row' = Settled
  /\ UNCHANGED <<pc, chain, env>>

(* Mutant: a reverted receipt settles the row as confirmed.                *)
SettleRow_AnyReceipt ==
  /\ poll # NoReceipt
  /\ poll' = NoReceipt
  /\ row' = IF row.status = "submitted" /\ row.txHash = poll.txHash
              THEN [Settled EXCEPT !.status = "confirmed"] ELSE row
  /\ UNCHANGED <<pc, chain, env>>

(* settleSubmittedTreasuryDeposit reads the row again, for update.         *)
SettleRow ==
  /\ poll # NoReceipt
  /\ poll' = NoReceipt
  /\ row' = IF row.status = "submitted" /\ row.txHash = poll.txHash
              THEN Settled ELSE row
  /\ UNCHANGED <<pc, chain, env>>

(* 90 seconds pass since updatedAt: the lease and the reconciler's grace.  *)
RowAges ==
  /\ row.status = "submitted" /\ row.fresh
  /\ "slow" \in env \/ \A r \in Requests : ~Live(r)
  /\ row' = [row EXCEPT !.fresh = FALSE]
  /\ UNCHANGED <<pc, chain, poll, env>>

-------------------------------------------------------------------------------
(* The chain.                                                              *)

MineApprove(r) ==
  /\ Approve(r) \in Minable(account)
  /\ \E outcome \in Outcomes :
       /\ account' = Include(account, Approve(r), outcome)
       /\ allowed' = (allowed \/ outcome = "success")
  /\ UNCHANGED <<row, pc, deposited, poll, env>>

MineDeposit(r) ==
  /\ DepositTx(r) \in Minable(account)
  /\ \/ /\ allowed /\ deposited < Funds
        /\ account' = Include(account, DepositTx(r), "success")
        /\ allowed' = FALSE
        /\ deposited' = deposited + 1
     \/ /\ account' = Include(account, DepositTx(r), "reverted")
        /\ UNCHANGED <<allowed, deposited>>
  /\ UNCHANGED <<row, pc, poll, env>>

(* Payroll and the deposits of other keys sign with the same key and take  *)
(* no common lock: their transactions replace those of this key, and are   *)
(* replaced by them.  A payroll transfer is sent again when it was dropped.*)
SignOther(o) ==
  /\ account.tx[Other(o)].status = "unsigned"
  /\ account' = Sign(account, Other(o))
  /\ UNCHANGED <<row, pc, allowed, deposited, poll, env>>

SendOther(o) ==
  /\ account.tx[Other(o)].status \in {"signed", "dropped"}
  /\ ~NonceTooLow(account, Other(o))
  /\ account' = PutInPool(account, Other(o))
  /\ UNCHANGED <<row, pc, allowed, deposited, poll, env>>

(* An approval or a deposit of another key also sets or spends the         *)
(* allowance.                                                              *)
MineOther(o) ==
  /\ Other(o) \in Minable(account)
  /\ \/ /\ account' = Include(account, Other(o), "success")
        /\ allowed' \in BOOLEAN
     \/ account' = Include(account, Other(o), "reverted") /\ UNCHANGED allowed
  /\ UNCHANGED <<row, pc, deposited, poll, env>>

-------------------------------------------------------------------------------
Handle(r) ==
  \/ Lookup(r) \/ Insert(r) \/ Claim(r)
  \/ GiveUp(r) \/ SignApprove(r) \/ SendApprove(r) \/ AwaitApproval(r)
  \/ SignDeposit(r) \/ PersistHash(r) \/ Broadcast(r) \/ Refused(r)
  \/ AwaitDeposit(r) \/ TimeOut(r) \/ ConfirmRow(r)

Mine ==
  \/ \E r \in Requests : MineApprove(r) \/ MineDeposit(r)
  \/ \E o \in Others : MineOther(o)

Next ==
  \/ \E r \in Requests : Handle(r) \/ Crash(r)
  \/ FetchReceipt \/ SettleRow \/ RowAges
  \/ Mine
  \/ \E o \in Others : SignOther(o) \/ SendOther(o)

(* The chain, the clock and the reconciler's cron keep going, and a        *)
(* request that is running runs to its reply.                              *)
Fairness ==
  /\ WF_vars(Mine)
  /\ WF_vars(RowAges) /\ WF_vars(FetchReceipt) /\ WF_vars(SettleRow)
  /\ \A r \in Requests : WF_vars(Handle(r))

Spec == Init /\ [][Next]_vars /\ Fairness

-------------------------------------------------------------------------------
(* However often a client repeats a request, and wherever the attempts     *)
(* stop, the treasury is funded at most once ("without ever double-funding *)
(* the treasury", chain.ts:481), if requests keep to their lease and the   *)
(* node loses no answer: either fault alone is enough to fund it twice.    *)
NeverDoubleFunds == env = {} => deposited <= 1

(* A submitted row without a hash, which any retry may take over after the *)
(* lease, has no deposit in the pool or on the chain (chain.ts:478-481: the*)
(* hash is persisted before the broadcast), under the same two conditions. *)
NullHashIsUnsent ==
  env = {} /\ row.status = "submitted" /\ row.txHash = NoTx =>
    \A r \in Requests :
      account.tx[DepositTx(r)].status \notin {"pooled", "success"}

(* A confirmed row names a deposit that landed, or one that a transaction  *)
(* of payroll or of another key replaced in the pool, whose success the    *)
(* request took for its own (chain.ts:346): no retry of this key and no    *)
(* reconciler does it, unless a request outlived its lease.                *)
ConfirmedIsSettled ==
  "slow" \notin env /\ row.status = "confirmed" =>
    /\ row.txHash # NoTx
    /\ \/ account.tx[DepositTx(row.txHash)].status = "success"
       \/ ReplacedBy(account, DepositTx(row.txHash), Foreign)

(* A failed row, which any retry may take over at once, moved no funds and *)
(* will not (orgs.ts:555-558), if requests keep to their lease and the node*)
(* loses no answer.                                                        *)
FailedMovedNothing ==
  env = {} /\ row.status = "failed" =>
    deposited = 0 /\ \A r \in Requests : DepositTx(r) \notin Pooled(account)

(* Whatever overlaps or is lost, a confirmed row means that the treasury   *)
(* was funded, or that a deposit was replaced by a transaction that funds  *)
(* nothing: there is no other way to show money that is not there.         *)
FundedUnlessReplaced ==
  row.status = "confirmed" =>
    \/ deposited > 0
    \/ \E r \in Requests :
         ReplacedBy(account, DepositTx(r), Approvals \cup Foreign)

(* "A persisted `confirmed` deposit reflects a tx that actually settled"   *)
(* (chain.ts:459-461), and so a confirmed row means funds.                 *)
ConfirmedMeansFunded == row.status = "confirmed" => deposited > 0

(* The reconciler settles a row by the outcome of the deposit the row names*)
(* at that moment, whatever requests did to the row since it fetched the   *)
(* receipt (reconciler.ts:96-137).                                         *)
ReconciledByItsReceipt ==
  [][pc' = pc /\ row'.status # row.status =>
       /\ row.status = "submitted" /\ row.txHash # NoTx
       /\ account.tx[DepositTx(row.txHash)].status =
            IF row'.status = "confirmed" THEN "success" ELSE "reverted"]_vars

Settling ==
  /\ row.status = "submitted" /\ row.txHash # NoTx
  /\ DepositTx(row.txHash) \in Pooled(account) \cup Mined(account)

Replaced ==
  row.txHash # NoTx /\ account.tx[DepositTx(row.txHash)].status = "dropped"

(* A row whose deposit reached the network is settled in the end, though   *)
(* the request that sent it timed out or died: the reconciler does it. A   *)
(* request beyond its lease may take the hash away again, and a deposit    *)
(* that was replaced never has a receipt.                                  *)
BroadcastRowsSettle ==
  "slow" \notin env /\ Settling ~> row.status \in {"confirmed", "failed"} \/ Replaced
===============================================================================

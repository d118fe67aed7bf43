----------------------------- MODULE PayrollRunner -----------------------------
(***************************************************************************)
(* One payroll run: the routes that start, pause and resume it             *)
(* (routes/payroll.ts), the pg-boss queue its items travel through         *)
(* (jobs/index.ts), the worker that proves, signs, broadcasts and confirms *)
(* one private transfer per item (payroll/runner.ts), and the chain.       *)
(*                                                                         *)
(* A step runs from one await to the next.  The handlers of an org hold    *)
(* its advisory lock, so one of them works at a time; the routes, the      *)
(* queue, the chain and a restart of the process interleave with it.  The  *)
(* connection that holds the lock is assumed to outlive the handler.       *)
(***************************************************************************)
EXTENDS TreasuryAccount

CONSTANTS
  Items,          \* rows of the run
  Workers,        \* concurrent job handlers (localConcurrency)
  NoWorker,
  NoJob,
  MaxAttempts,    \* PAYROLL_MAX_ATTEMPTS
  MaxDeliveries,  \* 1 + retryLimit of the payroll.item queue
  Others,         \* deposits of the org, and transfers of its other runs
  MaxSlots,       \* bound: singleton slots of 30 days the run may live through
  MaxFaults,      \* bound: failures of the environment
  MaxRequests     \* bound: start, pause and resume requests

ASSUME CountAssumption ==
  /\ {MaxAttempts, MaxDeliveries, MaxSlots} \subseteq Nat \ {0}
  /\ {MaxFaults, MaxRequests} \subseteq Nat
ASSUME ItemsAssumption == IsFiniteSet(Items)
ASSUME OthersAssumption ==
  IsFiniteSet(Others) /\ Others \cap (Items \X (1 .. MaxAttempts)) = {}
ASSUME NameAssumption == NoWorker \notin Workers /\ NoJob \notin Items \X (1 .. MaxSlots)

Jobs      == Items \X (1 .. MaxSlots)     \* <<item, slot of its singleton key>>
Transfers == Items \X (1 .. MaxAttempts)  \* <<item, attempt that signed it>>
Txs       == Transfers \cup Others

VARIABLES
  run,        \* payroll_runs.status
  items,      \* payroll_items: status, attempt, and the attempt txHash is from
  jobs,       \* pgboss.job
  slot,       \* the current singleton slot
  sending,    \* items an enqueuePayrollRun still has to send
  starting,   \* a start or resume request has passed its status check
  pausing,    \* a pause request has passed its status check
  pc, task,   \* where each handler is, and its job
  context,    \* the balance the working handler proves against
  counted,    \* the status the working handler has settled on for the run
  account,    \* the treasury's transactions
  built,      \* the balance each transfer was proved against
  spent,      \* treasury spends that have landed: the version of its balance
  budget      \* bounded events so far: faults, requests

queue    == <<jobs, slot, sending>>
operator == <<starting, pausing>>
handlers == <<pc, task, context, counted>>
chain    == <<account, built, spent>>
vars     == <<run, items, queue, operator, handlers, chain, budget>>

Active   == {"pending", "proving", "submitted"}
Terminal == {"complete", "failed"}

(* Steps of processPayrollItem and confirmSubmittedItem, under the lock.   *)
Steps == {"load", "begin", "started", "proving", "context", "signed", "catch",
          "confirm", "send", "watch", "await", "landed", "fail", "finalize",
          "finalize and throw", "write", "write and throw", "throw", "return"}

TypeOK ==
  /\ run \in {"ready", "running", "paused"} \cup Terminal
  /\ items \in [Items -> [status  : Active \cup {"confirmed", "failed"},
                          attempt : 0 .. MaxAttempts,
                          txHash  : 0 .. MaxAttempts]]
  /\ jobs \in [Jobs -> [state      : {"none", "queued", "active", "done"},
                        deliveries : 0 .. MaxDeliveries,
                        worker     : Workers \cup {NoWorker}]]
  /\ slot \in 1 .. MaxSlots
  /\ sending \subseteq Items
  /\ starting \in BOOLEAN /\ pausing \in BOOLEAN
  /\ pc \in [Workers -> Steps \cup {"idle", "waiting"}]
  /\ task \in [Workers -> Jobs \cup {NoJob}]
  /\ context \in Nat
  /\ counted \in Terminal \cup {"none"}
  /\ account \in Account(Txs)
  /\ built \in [Transfers -> Nat]
  /\ spent \in Nat
  /\ budget \in [faults   : 0 .. MaxFaults,
                 requests : 0 .. MaxRequests]

(* The create route stores the valid rows as pending, the others as failed.*)
Init ==
  /\ run = "ready"
  /\ \E valid \in SUBSET Items \ {{}} :
       items = [i \in Items |->
                  [status  |-> IF i \in valid THEN "pending" ELSE "failed",
                   attempt |-> 0, txHash |-> 0]]
  /\ jobs = [j \in Jobs |->
               [state |-> "none", deliveries |-> 0, worker |-> NoWorker]]
  /\ slot = 1
  /\ sending = {}
  /\ starting = FALSE /\ pausing = FALSE
  /\ pc = [w \in Workers |-> "idle"]
  /\ task = [w \in Workers |-> NoJob]
  /\ context = 0
  /\ counted = "none"
  /\ account = NewAccount(Txs)
  /\ built = [t \in Transfers |-> 0]
  /\ spent = 0
  /\ budget = [faults |-> 0, requests |-> 0]

Fault ==
  /\ budget.faults < MaxFaults
  /\ budget' = [budget EXCEPT !.faults = @ + 1]

Request ==
  /\ budget.requests < MaxRequests
  /\ budget' = [budget EXCEPT !.requests = @ + 1]

-------------------------------------------------------------------------------
(* The routes: check the status, await the treasury and its balance, write *)
(* the new status whatever it is by then, send the jobs.                   *)

Outstanding == {i \in Items : items[i].status \in Active}

BeginStart ==
  /\ ~starting
  /\ run \in {"ready", "paused", "running"}
  /\ Request
  /\ starting' = TRUE
  /\ UNCHANGED <<run, items, queue, pausing, handlers, chain>>

(* Also the end of a resume, which only a paused run can begin.            *)
EndStart ==
  /\ starting
  /\ starting' = FALSE
  /\ run' = "running"
  /\ sending' = sending \cup Outstanding
  /\ UNCHANGED <<items, jobs, slot, pausing, handlers, chain, budget>>

BeginPause ==
  /\ ~pausing
  /\ run \notin Terminal
  /\ Request
  /\ pausing' = TRUE
  /\ UNCHANGED <<run, items, queue, starting, handlers, chain>>

EndPause ==
  /\ pausing
  /\ pausing' = FALSE
  /\ run' = "paused"
  /\ UNCHANGED <<items, queue, starting, handlers, chain, budget>>

(* boss.send: null when the slot has a job of that key, finished or not.   *)
SendJob(i) ==
  /\ i \in sending
  /\ sending' = sending \ {i}
  /\ jobs' = IF jobs[<<i, slot>>].state = "none"
               THEN [jobs EXCEPT ![<<i, slot>>].state = "queued"]
               ELSE jobs
  /\ UNCHANGED <<run, items, slot, operator, handlers, chain, budget>>

NextSlot ==
  /\ slot < MaxSlots
  /\ slot' = slot + 1
  /\ UNCHANGED <<run, items, jobs, sending, operator, handlers, chain, budget>>

-------------------------------------------------------------------------------
(* Delivery of a job, and the org lock.                                    *)

Fetch(w, j) ==
  /\ pc[w] = "idle"
  /\ jobs[j].state = "queued"
  /\ jobs' = [jobs EXCEPT ![j] = [state |-> "active", worker |-> w,
                                  deliveries |-> jobs[j].deliveries + 1]]
  /\ pc' = [pc EXCEPT ![w] = "waiting"]
  /\ task' = [task EXCEPT ![w] = j]
  /\ UNCHANGED <<run, items, slot, sending, operator, context, counted, chain, budget>>

(* Mutant: handlers of an org do not exclude each other.                   *)
Lock_Free(w) ==
  /\ pc[w] = "waiting"
  /\ pc' = [pc EXCEPT ![w] = "load"]
  /\ UNCHANGED <<run, items, queue, operator, task, context, counted, chain, budget>>

Lock(w) ==
  /\ pc[w] = "waiting"
  /\ \A v \in Workers : pc[v] \notin Steps
  /\ pc' = [pc EXCEPT ![w] = "load"]
  /\ UNCHANGED <<run, items, queue, operator, task, context, counted, chain, budget>>

(* An attempt that fails, or outlives expireInSeconds, is retried until    *)
(* retryLimit.                                                             *)
GiveBack(j) ==
  [jobs EXCEPT ![j].worker = NoWorker,
               ![j].state = IF jobs[j].deliveries < MaxDeliveries
                              THEN "queued" ELSE "done"]

Unlock(w) ==
  /\ pc[w] \in {"throw", "return"}
  /\ pc' = [pc EXCEPT ![w] = "idle"]
  /\ task' = [task EXCEPT ![w] = NoJob]
  /\ jobs' = IF jobs[task[w]].worker # w THEN jobs
             ELSE IF pc[w] = "throw" THEN GiveBack(task[w])
             ELSE [jobs EXCEPT ![task[w]].state = "done",
                               ![task[w]].worker = NoWorker]
  /\ UNCHANGED <<run, items, slot, sending, operator, context, counted, chain, budget>>

(* The handler of an expired job runs on; nobody waits for it any more.    *)
Expire(j) ==
  /\ jobs[j].state = "active"
  /\ jobs' = GiveBack(j)
  /\ IF jobs[j].worker = NoWorker THEN UNCHANGED budget ELSE Fault
  /\ UNCHANGED <<run, items, slot, sending, operator, handlers, chain>>

(* Mutant: the start-up enqueues nothing.                                  *)
Restart_NoResend ==
  /\ Fault
  /\ pc' = [w \in Workers |-> "idle"]
  /\ task' = [w \in Workers |-> NoJob]
  /\ starting' = FALSE /\ pausing' = FALSE
  /\ jobs' = [j \in Jobs |-> [jobs[j] EXCEPT !.worker = NoWorker]]
  /\ sending' = {}
  /\ UNCHANGED <<run, items, slot, context, counted, chain>>

(* The process dies and starts again: handlers and requests are gone, jobs *)
(* are enqueued for what a running run has outstanding.                    *)
Restart ==
  /\ Fault
  /\ pc' = [w \in Workers |-> "idle"]
  /\ task' = [w \in Workers |-> NoJob]
  /\ starting' = FALSE /\ pausing' = FALSE
  /\ jobs' = [j \in Jobs |-> [jobs[j] EXCEPT !.worker = NoWorker]]
  /\ sending' = IF run = "running" THEN Outstanding ELSE {}
  /\ UNCHANGED <<run, items, slot, context, counted, chain>>

-------------------------------------------------------------------------------
(* processPayrollItem.                                                     *)

Item(w) == task[w][1]

(* The transfer whose hash the item carries.                               *)
Transfer(w) == <<Item(w), items[Item(w)].txHash>>

Step(w, from, to) ==
  /\ pc[w] = from
  /\ pc' = [pc EXCEPT ![w] = to]
  /\ UNCHANGED <<queue, operator, task>>

SetStatus(w, status) == items' = [items EXCEPT ![Item(w)].status = status]

(* Mutant: the number of attempts is not limited.                          *)
Branch_NoLimit(item) ==
  IF run \notin {"running", "ready"} THEN "return"
  ELSE IF item.status \notin Active THEN "finalize"
  ELSE IF item.status = "submitted" \/ item.txHash # 0 THEN "confirm"
  ELSE "begin"

(* An item that is not active has no more to do than settle the run; one   *)
(* with a prepared transfer only confirms it.                              *)
Branch(item) ==
  IF run \notin {"running", "ready"} THEN "return"
  ELSE IF item.status \notin Active THEN "finalize"
  ELSE IF item.status = "submitted" \/ item.txHash # 0 THEN "confirm"
  ELSE IF item.attempt >= MaxAttempts THEN "fail"
  ELSE "begin"

Load(w) ==
  /\ Step(w, "load", Branch(items[Item(w)]))
  /\ UNCHANGED <<run, items, context, counted, chain, budget>>

(* Mutant: the update of the run is not guarded by its status.             *)
MarkRunning_Unguarded(w) ==
  /\ Step(w, "begin", "started")
  /\ run' = "running"
  /\ UNCHANGED <<items, context, counted, chain, budget>>

MarkRunning(w) ==
  /\ Step(w, "begin", "started")
  /\ run' = IF run \in {"ready", "running"} THEN "running" ELSE run
  /\ UNCHANGED <<items, context, counted, chain, budget>>

MarkProving(w) ==
  /\ Step(w, "started", "proving")
  /\ items' = [items EXCEPT ![Item(w)].status = "proving",
                           ![Item(w)].attempt = items[Item(w)].attempt + 1]
  /\ UNCHANGED <<run, context, counted, chain, budget>>

LoadTransferContext(w) ==
  /\ Step(w, "proving", "context")
  /\ context' = spent
  /\ UNCHANGED <<run, items, counted, chain, budget>>

(* Prove, then prepareTransfer: estimating the gas of a proof against an   *)
(* old balance fails (BuildFails).                                         *)
SignTransfer(w) ==
  LET t == <<Item(w), items[Item(w)].attempt>>
  IN  /\ context = spent
      /\ Step(w, "context", "signed")
      /\ account' = Sign(account, t)
      /\ built' = [built EXCEPT ![t] = context]
      /\ UNCHANGED <<run, items, context, counted, spent, budget>>

(* Any error up to the persisted hash, that of the update included.        *)
BuildFails(w) ==
  /\ \/ Step(w, "proving", "catch")
     \/ Step(w, "context", "catch")
     \/ Step(w, "signed", "catch")
  /\ UNCHANGED <<run, items, context, counted, chain, budget>>

(* The update may take effect and still report an error.                   *)
PersistTransfer(w) ==
  /\ \/ Step(w, "signed", "confirm")
     \/ Step(w, "signed", "catch")
  /\ items' = [items EXCEPT ![Item(w)].status = "submitted",
                           ![Item(w)].txHash = items[Item(w)].attempt]
  /\ UNCHANGED <<run, context, counted, chain, budget>>

Exhausted(w) == items[Item(w)].attempt >= MaxAttempts

CatchError(w) ==
  /\ Step(w, "catch", IF Exhausted(w) THEN "finalize" ELSE "finalize and throw")
  /\ SetStatus(w, IF Exhausted(w) THEN "failed" ELSE "pending")
  /\ UNCHANGED <<run, context, counted, chain, budget>>

-------------------------------------------------------------------------------
(* confirmSubmittedItem.                                                   *)

MarkSubmitted(w) ==
  /\ Step(w, "confirm", "send")
  /\ SetStatus(w, "submitted")
  /\ UNCHANGED <<run, context, counted, chain, budget>>

(* The node takes the transfer; if the answer is lost the job is retried.  *)
Broadcast(w) ==
  /\ pc[w] = "send"
  /\ ~NonceTooLow(account, Transfer(w))
  /\ Transfer(w) \notin Pooled(account)
  /\ account' = PutInPool(account, Transfer(w))
  /\ \/ Step(w, "send", "watch") /\ UNCHANGED budget
     \/ Step(w, "send", "throw") /\ Fault
  /\ UNCHANGED <<run, items, context, counted, built, spent>>

(* "already known" and "nonce too low" count as sent.                      *)
AlreadyThere(w) ==
  /\ \/ Step(w, "send", "watch") /\ Transfer(w) \in Pooled(account)
     \/ Step(w, "send", "await") /\ NonceTooLow(account, Transfer(w))
  /\ UNCHANGED <<run, items, context, counted, chain, budget>>

(* The node is unreachable, or the pool has a rival it will not replace.   *)
(* The item stays submitted and the job is retried.                        *)
Refused(w) ==
  /\ Step(w, "send", "throw")
  /\ IF Rivals(account, Transfer(w)) # {} THEN UNCHANGED budget ELSE Fault
  /\ UNCHANGED <<run, items, context, counted, chain>>

(* The receipts waitForConfirmations may return: only a wait that has seen *)
(* the transfer in the pool follows it to its replacement.                 *)
Receipts(w) ==
  IF pc[w] = "watch" THEN ReceiptStatuses(account, Transfer(w))
                     ELSE OwnReceipt(account, Transfer(w))

Waits(w, to) == Step(w, "watch", to) \/ Step(w, "await", to)

(* Mutant: throwIfRevertedReceipt is missing.                              *)
AwaitConfirmations_AnyStatus(w) ==
  /\ Waits(w, "landed") /\ Receipts(w) # {}
  /\ UNCHANGED <<run, items, context, counted, chain, budget>>

AwaitConfirmations(w) ==
  /\ \/ Waits(w, "landed") /\ "success" \in Receipts(w)
     \/ Waits(w, "fail") /\ "reverted" \in Receipts(w)
  /\ UNCHANGED <<run, items, context, counted, chain, budget>>

(* Mutant: a confirmation that times out fails the item.                   *)
TimeOut_Fails(w) ==
  /\ Waits(w, "fail")
  /\ UNCHANGED <<run, items, context, counted, chain, budget>>

TimeOut(w) ==
  /\ Waits(w, "throw")
  /\ IF Transfer(w) \in Pooled(account) \cup Mined(account)
       THEN Fault ELSE UNCHANGED budget
  /\ UNCHANGED <<run, items, context, counted, chain>>

MarkConfirmed(w) ==
  /\ Step(w, "landed", "finalize")
  /\ SetStatus(w, "confirmed")
  /\ UNCHANGED <<run, context, counted, chain, budget>>

MarkFailed(w) ==
  /\ Step(w, "fail", "finalize")
  /\ SetStatus(w, "failed")
  /\ UNCHANGED <<run, context, counted, chain, budget>>

(* Mutant: a run is settled as soon as nothing is pending.                 *)
Settled_IgnoresSubmitted == {i \in Items : items[i].status = "pending"} = {}

Settled == Outstanding = {}

FinalStatus ==
  IF \E i \in Items : items[i].status = "confirmed" THEN "complete" ELSE "failed"

(* finalizeRunIfSettled counts, then writes.                               *)
Finalize(w) ==
  /\ IF Settled
       THEN /\ \/ Step(w, "finalize", "write")
               \/ Step(w, "finalize and throw", "write and throw")
            /\ counted' = FinalStatus
       ELSE /\ \/ Step(w, "finalize", "return")
               \/ Step(w, "finalize and throw", "throw")
            /\ UNCHANGED counted
  /\ UNCHANGED <<run, items, context, chain, budget>>

WriteStatus(w) ==
  /\ Step(w, "write", "return") \/ Step(w, "write and throw", "throw")
  /\ run' = counted
  /\ UNCHANGED <<items, context, counted, chain, budget>>

(* A query of the handler fails outside the try block of the attempt.      *)
QueryFails(w) ==
  /\ \E from \in Steps \ {"throw", "return"} : Step(w, from, "throw")
  /\ Fault
  /\ UNCHANGED <<run, items, context, counted, chain>>

-------------------------------------------------------------------------------
(* The chain: a transfer proved against a balance that has been spent from *)
(* since reverts (EncryptedERC: OthersKeepProofsValid); others may.        *)

MineTransfer(t) ==
  /\ t \in Minable(account)
  /\ \/ /\ built[t] = spent
        /\ account' = Include(account, t, "success")
        /\ spent' = spent + 1
     \/ account' = Include(account, t, "reverted") /\ UNCHANGED spent
  /\ UNCHANGED <<run, items, queue, operator, handlers, built, budget>>

(* Deposits take no payroll lock: they replace the transfers of this run,  *)
(* and are replaced by them.  Transfers of other runs are signed and sent  *)
(* under the lock, but may be in the pool when a handler of this run works.*)
SignOther(o) ==
  /\ account.tx[o].status = "unsigned"
  /\ account' = Sign(account, o)
  /\ UNCHANGED <<run, items, queue, operator, handlers, built, spent, budget>>

SendOther(o) ==
  /\ account.tx[o].status \in {"signed", "dropped"}
  /\ ~NonceTooLow(account, o)
  /\ account' = PutInPool(account, o)
  /\ UNCHANGED <<run, items, queue, operator, handlers, built, spent, budget>>

(* A deposit leaves the balance its proofs, a transfer spends it.          *)
MineOther(o) ==
  /\ o \in Minable(account)
  /\ \/ /\ account' = Include(account, o, "success")
        /\ spent' \in {spent, spent + 1}
     \/ account' = Include(account, o, "reverted") /\ UNCHANGED spent
  /\ UNCHANGED <<run, items, queue, operator, handlers, built, budget>>

-------------------------------------------------------------------------------
Handle(w) ==
  \/ Load(w) \/ MarkRunning(w) \/ MarkProving(w) \/ LoadTransferContext(w)
  \/ SignTransfer(w) \/ BuildFails(w) \/ PersistTransfer(w) \/ CatchError(w)
  \/ MarkSubmitted(w) \/ Broadcast(w) \/ AlreadyThere(w) \/ Refused(w)
  \/ AwaitConfirmations(w) \/ TimeOut(w)
  \/ MarkConfirmed(w) \/ MarkFailed(w) \/ Finalize(w) \/ WriteStatus(w)

Deliver == \E w \in Workers : Lock(w) \/ Unlock(w) \/ \E j \in Jobs : Fetch(w, j)

Orphaned(j) == jobs[j].worker = NoWorker /\ Expire(j)

Mine == (\E t \in Transfers : MineTransfer(t)) \/ \E o \in Others : MineOther(o)

Next ==
  \/ BeginStart \/ EndStart \/ BeginPause \/ EndPause
  \/ \E i \in Items : SendJob(i)
  \/ NextSlot
  \/ Deliver
  \/ \E j \in Jobs : Expire(j)
  \/ Restart
  \/ \E w \in Workers : Handle(w) \/ QueryFails(w)
  \/ Mine
  \/ \E o \in Others : SignOther(o) \/ SendOther(o)

(* Requests run to their reply, handlers to their end, the queue delivers, *)
(* and the chain includes what is in the pool.                             *)
Fairness ==
  /\ WF_vars(EndStart) /\ WF_vars(EndPause)
  /\ \A i \in Items : WF_vars(SendJob(i))
  /\ WF_vars(Deliver)
  /\ \A j \in Jobs : WF_vars(Orphaned(j))
  /\ \A w \in Workers : WF_vars(Handle(w))
  /\ WF_vars(Mine)

Spec == Init /\ [][Next]_vars /\ Fairness

-------------------------------------------------------------------------------
Landed(t) == account.tx[t].status = "success"

(* However often an item's job is delivered, retried, expired or sent      *)
(* again, and wherever its handlers stop, at most one of the transfers     *)
(* signed for it lands (processPayrollItem persists the signed transfer    *)
(* before it is broadcast and never signs again once there is a hash).     *)
PaidOnce ==
  \A i \in Items : \A m, n \in 1 .. MaxAttempts :
    Landed(<<i, m>>) /\ Landed(<<i, n>>) => m = n

(* A row the console shows as confirmed is backed by its landed transfer,  *)
(* or by a transaction of somebody else that replaced it in the pool, whose*)
(* success the handler took for the transfer's (chain.ts:346): neither the *)
(* transfers of this run nor any retry or restart can do that.             *)
ConfirmedIsPaid ==
  \A i \in Items :
    items[i].status = "confirmed" =>
      /\ items[i].txHash # 0
      /\ \/ Landed(<<i, items[i].txHash>>)
         \/ ReplacedBy(account, <<i, items[i].txHash>>, Others)

(* A row shown as failed was not paid and will not be: the operator may    *)
(* put its recipient into another run.                                     *)
FailedIsUnpaid ==
  \A i \in Items :
    items[i].status = "failed" =>
      \A n \in 1 .. MaxAttempts :
        account.tx[<<i, n>>].status \notin {"pooled", "success"}

(* A run is complete or failed only when none of its items can move money  *)
(* any more, and complete exactly when somebody was paid.                  *)
TerminalMeansSettled ==
  run \in Terminal => Outstanding = {} /\ run = FinalStatus

(* Only an operator's request takes a run out of its pause: the guarded    *)
(* update of the worker does not (runner.ts:223-226).                      *)
OnlyOperatorsResume ==
  [][(run = "paused" /\ run' = "running") => (starting /\ ~starting')]_vars

Contested ==
  \E i \in Items, o \in Others :
    /\ items[i].txHash # 0
    /\ account.tx[o].status \notin {"unsigned", "signed"}
    /\ account.tx[o].nonce = account.tx[<<i, items[i].txHash>>].nonce

(* A run with items outstanding does not keep running: each is confirmed or*)
(* failed in the end, through failed attempts, lost answers and restarts,  *)
(* unless somebody else's transaction competes for the nonce of a transfer.*)
RunSettles ==
  run = "running" /\ Outstanding # {} ~>
    run \in Terminal \cup {"paused"} \/ Contested
===============================================================================

------------------------- MODULE PayrollRunner_Proofs --------------------------
(***************************************************************************)
(* For any number of items, handlers, attempts, deliveries and faults: the *)
(* types of PayrollRunner, that an item is paid at most once, and that the *)
(* rows and the run tell the truth about it.                               *)
(*                                                                         *)
(* The core is Ledger: whatever was sent for an item is the transfer its   *)
(* row names. It survives every stop because the name is written before    *)
(* the transfer is sent, because an item that has a name is only           *)
(* confirmed, and because the org lock keeps other handlers away between   *)
(* the two (AtWork, OneAtWork).                                            *)
(***************************************************************************)
EXTENDS PayrollRunner, TreasuryAccount_Proofs

Attempts == 1 .. MaxAttempts

T(i, n) == account.tx[<<i, n>>].status

Present == {"pooled"} \cup Outcomes

(* A transfer landed, or somebody else's transaction did in its place.     *)
Lands(a, i, n) ==
  a.tx[<<i, n>>].status = "success" \/ ReplacedBy(a, <<i, n>>, Others)

(* No other transfer that is in the pool or mined has its nonce.           *)
Unrivalled(a, i, n) ==
  \A t \in Transfers \ {<<i, n>>} :
    a.tx[t].status \in Present => a.tx[t].nonce # a.tx[<<i, n>>].nonce

(* The transfers of an item, by its row.                                   *)
Ledger ==
  \A i \in Items : \A n \in Attempts :
    /\ T(i, n) \in Sent => items[i].txHash = n
    /\ items[i].txHash = n => T(i, n) # "unsigned"
    /\ n > items[i].attempt => T(i, n) = "unsigned"

RowsAreTrue ==
  \A i \in Items :
    /\ items[i].txHash \in {0, items[i].attempt}
    /\ items[i].status = "submitted" => items[i].txHash # 0
    /\ items[i].status = "confirmed" =>
         items[i].txHash # 0 /\ Lands(account, i, items[i].txHash)
    /\ items[i].status = "failed" => \A n \in Attempts : T(i, n) \notin {"pooled", "success"}

Unsigned == {"begin", "started", "proving", "context", "signed"}
Prepared == {"confirm", "send", "watch", "await", "landed"}
Writing  == {"write", "write and throw"}

(* What a handler at a step knows of its item and the item's row.          *)
Knows(i, row, step) ==
  /\ step \in Unsigned \cup Prepared \cup {"catch", "fail"} => row.status \in Active
  /\ step \in Unsigned => row.txHash = 0
  /\ step \in {"begin", "started"} => row.attempt < MaxAttempts
  /\ step \in {"proving", "context"} => row.attempt > 0 /\ T(i, row.attempt) = "unsigned"
  /\ step = "signed" => row.attempt > 0 /\ T(i, row.attempt) = "signed"
  /\ step = "catch" => \A n \in Attempts : T(i, n) \notin Sent
  /\ step \in Prepared => row.txHash # 0
  /\ step = "watch" => Unrivalled(account, i, row.txHash)
  /\ step = "landed" => Lands(account, i, row.txHash)
  /\ step = "fail" => \A n \in Attempts : T(i, n) \notin {"pooled", "success"}

Doing(i, step) == Knows(i, items[i], step)

AtWork == \A w \in Workers : pc[w] \in Steps => Doing(Item(w), pc[w])

OneAtWork ==
  /\ \A v, w \in Workers : pc[v] \in Steps /\ pc[w] \in Steps => v = w
  /\ \A w \in Workers : pc[w] # "idle" => task[w] \in Jobs

(* What the run is given, or is about to be given, is what its items say.  *)
EndsAreTrue ==
  /\ TerminalMeansSettled
  /\ counted # "none" => Outstanding = {} /\ counted = FinalStatus

CountedToWrite == \A w \in Workers : pc[w] \in Writing => counted # "none"

JobsInOrder ==
  \A j \in Jobs : /\ jobs[j].state = "none" => jobs[j].deliveries = 0
                  /\ jobs[j].state = "queued" => jobs[j].deliveries < MaxDeliveries

IInv ==
  /\ TypeOK
  /\ account \in Ordered(Txs)
  /\ JobsInOrder
  /\ OneAtWork
  /\ Ledger
  /\ RowsAreTrue
  /\ AtWork
  /\ EndsAreTrue
  /\ CountedToWrite

ItemType == [status  : Active \cup {"confirmed", "failed"},
             attempt : 0 .. MaxAttempts, txHash : 0 .. MaxAttempts]
JobType == [state      : {"none", "queued", "active", "done"},
            deliveries : 0 .. MaxDeliveries, worker : Workers \cup {NoWorker}]
BudgetType == [faults : 0 .. MaxFaults, requests : 0 .. MaxRequests]
Runs == {"ready", "running", "paused"} \cup Terminal
Counts == Terminal \cup {"none"}

-------------------------------------------------------------------------------
LEMMA TxFacts ==
  /\ \A i \in Items, n \in Attempts : <<i, n>> \in Txs
  /\ \A i, k \in Items : \A n, m \in Attempts : <<i, n>> = <<k, m>> => i = k /\ n = m
  /\ \A t \in Transfers : \E i \in Items, n \in Attempts : t = <<i, n>>
  /\ \A i \in Items, n \in Attempts : <<i, n>> \in Transfers /\ <<i, n>> \notin Others
  /\ Txs = Transfers \cup Others /\ Transfers \cap Others = {}
BY OthersAssumption DEF Txs, Transfers, Attempts

LEMMA TxsFinite == IsFiniteSet(Txs)
<1>1. IsFiniteSet(Attempts)
  BY FS_Interval, CountAssumption DEF Attempts
<1>2. IsFiniteSet(Transfers)
  BY <1>1, ItemsAssumption, FS_Product DEF Transfers, Attempts
<1> QED BY <1>2, OthersAssumption, FS_Union DEF Txs

LEMMA JobFacts ==
  /\ \A i \in Items, n \in 1 .. MaxSlots : <<i, n>> \in Jobs
  /\ \A j \in Jobs : j[1] \in Items
BY DEF Jobs

LEMMA InitInv == Init => IInv
<1> SUFFICES ASSUME Init PROVE IInv
  OBVIOUS
<1>1. account \in Ordered(Txs)
  BY TxsFinite, NewOrdered DEF Init
<1>2. PICK valid \in SUBSET Items \ {{}} :
        items = [i \in Items |->
                  [status  |-> IF i \in valid THEN "pending" ELSE "failed",
                   attempt |-> 0, txHash |-> 0]]
  BY DEF Init
<1>3. MaxAttempts \in Nat /\ MaxDeliveries \in Nat \ {0} /\ MaxSlots \in Nat \ {0}
      /\ MaxFaults \in Nat /\ MaxRequests \in Nat
  BY CountAssumption
<1>4. TypeOK
  <2>1. items \in [Items -> ItemType]
    BY <1>2, <1>3 DEF ItemType, Active
  <2>2. jobs \in [Jobs -> JobType]
    BY <1>3 DEF Init, JobType
  <2>3. budget \in BudgetType
    BY <1>3 DEF Init, BudgetType
  <2>4. starting \in BOOLEAN /\ pausing \in BOOLEAN
    BY Zenon DEF Init
  <2>5. pc \in [Workers -> Steps \cup {"idle", "waiting"}] /\ task \in [Workers -> Jobs \cup {NoJob}]
    BY DEF Init
  <2>6. run \in Runs /\ slot \in 1 .. MaxSlots /\ sending \subseteq Items
        /\ context \in Nat /\ spent \in Nat /\ built \in [Transfers -> Nat]
        /\ counted \in Counts
    BY <1>3 DEF Init, Runs, Counts
  <2> QED BY <1>1, <2>1, <2>2, <2>3, <2>4, <2>5, <2>6
          DEF TypeOK, ItemType, JobType, BudgetType, Runs, Counts, Ordered
<1>5. JobsInOrder
  BY <1>3 DEF Init, JobsInOrder
<1>6. OneAtWork /\ AtWork
  BY DEF Init, OneAtWork, AtWork, Steps
<1>7. \A i \in Items, n \in Attempts : T(i, n) = "unsigned"
  BY TxFacts DEF Init, NewAccount, T
<1>8. Ledger
  BY <1>2, <1>7 DEF Ledger, Sent, Outcomes, Attempts
<1>9. RowsAreTrue
  BY <1>2, <1>7 DEF RowsAreTrue
<1>10. EndsAreTrue /\ CountedToWrite
  BY DEF Init, EndsAreTrue, TerminalMeansSettled, Terminal, CountedToWrite, Writing
<1> QED BY <1>1, <1>4, <1>5, <1>6, <1>8, <1>9, <1>10 DEF IInv

-------------------------------------------------------------------------------
(* The routes, the queue and the lock.                                     *)

(* What leaves items and transfers alone, and lets nobody start to work,   *)
(* has only types, jobs and the run to keep.                               *)
LEMMA AroundTheWork ==
  ASSUME IInv, UNCHANGED <<items, account, counted>>,
         \A w \in Workers : pc'[w] \in Steps => pc[w] \in Steps /\ pc'[w] = pc[w]
                                                /\ task'[w] = task[w],
         \A w \in Workers : pc'[w] # "idle" => task'[w] \in Jobs,
         TypeOK', JobsInOrder', EndsAreTrue'
  PROVE  IInv'
<1>1. \A i, n : T(i, n)' = T(i, n)
  BY DEF T
<1>2. account' \in Ordered(Txs)
  BY DEF IInv
<1>3. OneAtWork'
  BY DEF IInv, OneAtWork
<1>4. Ledger' /\ RowsAreTrue'
  BY <1>1 DEF IInv, Ledger, RowsAreTrue, T
<1>5. CountedToWrite'
  BY DEF IInv, CountedToWrite, Writing, Steps
<1>6. AtWork'
  <2> SUFFICES ASSUME NEW w \in Workers, pc'[w] \in Steps
               PROVE  Doing(Item(w), pc[w])'
    BY DEF AtWork
  <2>1. Doing(Item(w), pc[w]) /\ Item(w)' = Item(w) /\ pc'[w] = pc[w]
    BY DEF IInv, AtWork, Item
  <2> QED BY <1>1, <2>1 DEF Doing, Knows, T
<1> QED BY <1>2, <1>3, <1>4, <1>5, <1>6 DEF IInv

LEMMA RequestTypes ==
  ASSUME TypeOK, Request PROVE budget' \in BudgetType
BY CountAssumption DEF Request, TypeOK, BudgetType

LEMMA FaultTypes ==
  ASSUME TypeOK, Fault PROVE budget' \in BudgetType
BY CountAssumption DEF Fault, TypeOK, BudgetType

(* A job that is given back may be delivered again only below the limit.   *)
LEMMA GiveBackFacts ==
  ASSUME TypeOK, JobsInOrder, NEW j \in Jobs, jobs' = GiveBack(j)
  PROVE  jobs' \in [Jobs -> JobType] /\ JobsInOrder'
<1> DEFINE state == IF jobs[j].deliveries < MaxDeliveries THEN "queued" ELSE "done"
           b == [worker |-> NoWorker, state |-> state, deliveries |-> jobs[j].deliveries]
<1>1. jobs \in [Jobs -> JobType]
  BY DEF TypeOK, JobType
<1> DEFINE g == [jobs EXCEPT ![j].worker = NoWorker]
<1>2. g = [jobs EXCEPT ![j] = [@ EXCEPT !.worker = NoWorker]]
  OBVIOUS
<1>3. g \in [Jobs -> JobType] /\ g[j].deliveries = jobs[j].deliveries
      /\ \A k \in Jobs \ {j} : g[k] = jobs[k]
  BY <1>1 DEF JobType
<1> HIDE DEF g
<1>4. jobs' = [g EXCEPT ![j].state = state]
  BY DEF GiveBack, g
<1>5. state \in {"queued", "done"} /\ (state = "queued" => jobs[j].deliveries < MaxDeliveries)
  OBVIOUS
<1> HIDE DEF state
<1>6. jobs' \in [Jobs -> JobType] /\ jobs'[j].state = state
      /\ jobs'[j].deliveries = jobs[j].deliveries
      /\ \A k \in Jobs \ {j} : jobs'[k] = jobs[k]
  BY <1>3, <1>4, <1>5 DEF JobType
<1> QED BY <1>5, <1>6 DEF JobsInOrder

LEMMA RoutesStep ==
  ASSUME IInv, BeginStart \/ EndStart \/ BeginPause \/ EndPause PROVE IInv'
<1>1. TypeOK /\ UNCHANGED <<items, jobs, slot, handlers, chain>>
  BY DEF IInv, BeginStart, EndStart, BeginPause, EndPause, queue
<1>2. budget' \in BudgetType
  BY <1>1, RequestTypes DEF BeginStart, EndStart, BeginPause, EndPause, TypeOK, BudgetType
<1>3. starting' \in BOOLEAN
  <2>1. starting' = starting \/ starting' = TRUE \/ starting' = FALSE
    BY DEF BeginStart, EndStart, BeginPause, EndPause
  <2> QED BY <1>1, <2>1, Zenon DEF TypeOK
<1>4. pausing' \in BOOLEAN
  <2>1. pausing' = pausing \/ pausing' = TRUE \/ pausing' = FALSE
    BY DEF BeginStart, EndStart, BeginPause, EndPause
  <2> QED BY <1>1, <2>1, Zenon DEF TypeOK
<1>5. run' \in Runs /\ (run' = run \/ run' \notin Terminal)
  BY <1>1 DEF BeginStart, EndStart, BeginPause, EndPause, TypeOK, Runs, Terminal
<1>6. sending' \subseteq Items
  BY <1>1 DEF BeginStart, EndStart, BeginPause, EndPause, TypeOK, Outstanding, queue
<1>7. TypeOK'
  BY <1>1, <1>2, <1>3, <1>4, <1>5, <1>6 DEF TypeOK, BudgetType, Runs, handlers, chain
<1>8. EndsAreTrue' /\ JobsInOrder'
  BY <1>1, <1>5 DEF IInv, EndsAreTrue, TerminalMeansSettled, FinalStatus, Outstanding, handlers, JobsInOrder
<1> QED BY <1>1, <1>7, <1>8, AroundTheWork DEF IInv, OneAtWork, handlers, chain

LEMMA SendJobStep ==
  ASSUME IInv, NEW i \in Items, SendJob(i) PROVE IInv'
<1> DEFINE j == <<i, slot>>
<1>1. TypeOK /\ UNCHANGED <<run, items, slot, operator, handlers, chain, budget>>
      /\ j \in Jobs /\ jobs \in [Jobs -> JobType]
  BY JobFacts DEF IInv, SendJob, TypeOK, JobType
<1>2. jobs' = jobs \/ (jobs[j].state = "none" /\ jobs' = [jobs EXCEPT ![j].state = "queued"])
  BY DEF SendJob
<1> HIDE DEF j
<1>3. jobs' \in [Jobs -> JobType]
  BY <1>1, <1>2 DEF JobType
<1>4. JobsInOrder'
  BY <1>1, <1>2, CountAssumption DEF IInv, JobsInOrder, JobType
<1>5. TypeOK'
  BY <1>1, <1>3 DEF SendJob, TypeOK, JobType, operator, handlers, chain
<1>6. EndsAreTrue'
  BY <1>1 DEF IInv, EndsAreTrue, TerminalMeansSettled, FinalStatus, Outstanding, handlers
<1> QED BY <1>1, <1>4, <1>5, <1>6, AroundTheWork DEF IInv, OneAtWork, handlers, chain

LEMMA NextSlotStep ==
  ASSUME IInv, NextSlot PROVE IInv'
<1>1. UNCHANGED <<run, items, jobs, sending, operator, handlers, chain, budget>>
      /\ slot' \in 1 .. MaxSlots
  BY CountAssumption DEF NextSlot, IInv, TypeOK
<1>2. TypeOK'
  BY <1>1 DEF IInv, TypeOK, operator, handlers, chain
<1>3. EndsAreTrue' /\ JobsInOrder'
  BY <1>1 DEF IInv, EndsAreTrue, TerminalMeansSettled, FinalStatus, Outstanding, handlers, JobsInOrder
<1> QED BY <1>1, <1>2, <1>3, AroundTheWork DEF IInv, OneAtWork, handlers, chain

LEMMA FetchStep ==
  ASSUME IInv, NEW w \in Workers, NEW j \in Jobs, Fetch(w, j) PROVE IInv'
<1>1. /\ TypeOK /\ pc[w] = "idle" /\ jobs[j].state = "queued"
      /\ jobs' = [jobs EXCEPT ![j] = [state |-> "active", worker |-> w,
                                      deliveries |-> jobs[j].deliveries + 1]]
      /\ pc' = [pc EXCEPT ![w] = "waiting"] /\ task' = [task EXCEPT ![w] = j]
      /\ UNCHANGED <<run, items, slot, sending, operator, context, counted, chain, budget>>
  BY DEF IInv, Fetch
<1>2. jobs[j].deliveries + 1 \in 0 .. MaxDeliveries
  BY <1>1, CountAssumption DEF IInv, JobsInOrder, TypeOK
<1>3. jobs' \in [Jobs -> JobType]
  BY <1>1, <1>2 DEF TypeOK, JobType
<1>4. JobsInOrder'
  BY <1>1 DEF IInv, JobsInOrder, TypeOK
<1>5. pc' \in [Workers -> Steps \cup {"idle", "waiting"}] /\ task' \in [Workers -> Jobs \cup {NoJob}]
  BY <1>1 DEF TypeOK
<1>6. TypeOK'
  BY <1>1, <1>3, <1>5 DEF TypeOK, JobType, operator, chain
<1>7. EndsAreTrue'
  BY <1>1 DEF IInv, EndsAreTrue, TerminalMeansSettled, FinalStatus, Outstanding
<1>8. \A v \in Workers : /\ pc'[v] \in Steps => pc[v] \in Steps /\ pc'[v] = pc[v] /\ task'[v] = task[v]
                         /\ pc'[v] # "idle" => task'[v] \in Jobs
  BY <1>1 DEF IInv, OneAtWork, TypeOK, Steps
<1> QED BY <1>1, <1>4, <1>6, <1>7, <1>8, AroundTheWork DEF chain

LEMMA DoneFacts ==
  ASSUME TypeOK, JobsInOrder, NEW j \in Jobs,
         jobs' = [jobs EXCEPT ![j].state = "done", ![j].worker = NoWorker]
  PROVE  jobs' \in [Jobs -> JobType] /\ JobsInOrder'
<1>1. jobs \in [Jobs -> JobType]
  BY DEF TypeOK, JobType
<1> DEFINE g == [jobs EXCEPT ![j].state = "done"]
<1>2. g \in [Jobs -> JobType] /\ g[j].state = "done" /\ \A k \in Jobs \ {j} : g[k] = jobs[k]
  BY <1>1 DEF JobType
<1>3. jobs' = [g EXCEPT ![j].worker = NoWorker]
  OBVIOUS
<1> DEFINE b == [g[j] EXCEPT !.worker = NoWorker]
<1>4. b \in JobType /\ b.state = "done"
  BY <1>2 DEF JobType
<1>5. jobs' = [g EXCEPT ![j] = b]
  BY <1>3
<1> HIDE DEF g, b
<1>6. jobs' \in [Jobs -> JobType] /\ jobs'[j].state = "done"
      /\ \A k \in Jobs \ {j} : jobs'[k] = jobs[k]
  BY <1>2, <1>4, <1>5
<1> QED BY <1>6 DEF JobsInOrder

LEMMA UnlockStep ==
  ASSUME IInv, NEW w \in Workers, Unlock(w) PROVE IInv'
<1>1. /\ TypeOK /\ JobsInOrder /\ pc[w] \in {"throw", "return"} /\ task[w] \in Jobs
      /\ pc' = [pc EXCEPT ![w] = "idle"] /\ task' = [task EXCEPT ![w] = NoJob]
      /\ UNCHANGED <<run, items, slot, sending, operator, context, counted, chain, budget>>
  BY DEF IInv, OneAtWork, Unlock
<1>2. jobs' \in [Jobs -> JobType] /\ JobsInOrder'
  <2>1. CASE jobs' = jobs
    BY <1>1, <2>1 DEF TypeOK, JobType, JobsInOrder
  <2>2. CASE jobs' = GiveBack(task[w])
    BY <1>1, <2>2, GiveBackFacts
  <2>3. CASE jobs' = [jobs EXCEPT ![task[w]].state = "done", ![task[w]].worker = NoWorker]
    BY <1>1, <2>3, DoneFacts
  <2> QED BY <2>1, <2>2, <2>3 DEF Unlock
<1>3. pc' \in [Workers -> Steps \cup {"idle", "waiting"}] /\ task' \in [Workers -> Jobs \cup {NoJob}]
  BY <1>1 DEF TypeOK
<1>4. TypeOK'
  BY <1>1, <1>2, <1>3 DEF TypeOK, JobType, operator, chain
<1>5. EndsAreTrue'
  BY <1>1 DEF IInv, EndsAreTrue, TerminalMeansSettled, FinalStatus, Outstanding
<1>6. \A v \in Workers : /\ pc'[v] \in Steps => pc[v] \in Steps /\ pc'[v] = pc[v] /\ task'[v] = task[v]
                         /\ pc'[v] # "idle" => task'[v] \in Jobs
  BY <1>1 DEF IInv, OneAtWork, TypeOK, Steps
<1> QED BY <1>1, <1>2, <1>4, <1>5, <1>6, AroundTheWork DEF chain

LEMMA ExpireStep ==
  ASSUME IInv, NEW j \in Jobs, Expire(j) PROVE IInv'
<1>1. /\ TypeOK /\ JobsInOrder /\ jobs' = GiveBack(j)
      /\ UNCHANGED <<run, items, slot, sending, operator, handlers, chain>>
  BY DEF IInv, Expire
<1>2. jobs' \in [Jobs -> JobType] /\ JobsInOrder'
  BY <1>1, GiveBackFacts
<1>3. budget' \in BudgetType
  BY <1>1, FaultTypes DEF Expire, TypeOK, BudgetType
<1>4. TypeOK'
  BY <1>1, <1>2, <1>3 DEF TypeOK, JobType, BudgetType, operator, handlers, chain
<1>5. EndsAreTrue'
  BY <1>1 DEF IInv, EndsAreTrue, TerminalMeansSettled, FinalStatus, Outstanding, handlers
<1> QED BY <1>1, <1>2, <1>4, <1>5, AroundTheWork DEF IInv, OneAtWork, handlers, chain

LEMMA RestartStep ==
  ASSUME IInv, Restart PROVE IInv'
<1>1. /\ TypeOK /\ pc' = [w \in Workers |-> "idle"] /\ task' = [w \in Workers |-> NoJob]
      /\ starting' = FALSE /\ pausing' = FALSE
      /\ jobs' = [j \in Jobs |-> [jobs[j] EXCEPT !.worker = NoWorker]]
      /\ UNCHANGED <<run, items, slot, context, counted, chain>>
  BY DEF IInv, Restart
<1>2. budget' \in BudgetType
  BY <1>1, FaultTypes DEF Restart
<1>3. jobs' \in [Jobs -> JobType]
  BY <1>1 DEF TypeOK, JobType
<1>4. JobsInOrder'
  BY <1>1 DEF IInv, JobsInOrder, TypeOK
<1>5. sending' \subseteq Items
  BY DEF Restart, Outstanding
<1>6. starting' \in BOOLEAN /\ pausing' \in BOOLEAN
  BY <1>1, Zenon
<1>7. TypeOK'
  BY <1>1, <1>2, <1>3, <1>5, <1>6 DEF TypeOK, JobType, BudgetType, chain
<1>8. EndsAreTrue'
  BY <1>1 DEF IInv, EndsAreTrue, TerminalMeansSettled, FinalStatus, Outstanding
<1>9. \A v \in Workers : pc'[v] = "idle"
  BY <1>1
<1> QED BY <1>1, <1>4, <1>7, <1>8, <1>9, AroundTheWork DEF chain, Steps

-------------------------------------------------------------------------------
(* The handler at work.                                                    *)

(* One step of a handler that holds the lock.                              *)
LEMMA AtItsStep ==
  ASSUME IInv, NEW w \in Workers, pc[w] \in Steps \cup {"waiting"},
         \A v \in Workers : pc[v] \in Steps => v = w,
         pc'[w] \in Steps, pc' = [pc EXCEPT ![w] = pc'[w]],
         UNCHANGED <<queue, operator, task>>,
         run' \in Runs, items' \in [Items -> ItemType], context' \in Nat, spent' \in Nat,
         built' \in [Transfers -> Nat], budget' \in BudgetType, account' \in Ordered(Txs),
         counted' \in Counts, pc'[w] \in Writing => counted' # "none",
         Ledger', RowsAreTrue', EndsAreTrue', Doing(Item(w), pc[w])'
  PROVE  IInv'
<1>1. \A v \in Workers \ {w} : pc'[v] = pc[v] /\ pc[v] \notin Steps
  BY DEF IInv, TypeOK
<1>2. TypeOK'
  BY DEF IInv, TypeOK, queue, operator, ItemType, BudgetType, Runs, Counts, Ordered
<1>3. JobsInOrder'
  BY DEF IInv, JobsInOrder, queue
<1>4. OneAtWork'
  BY <1>1 DEF IInv, OneAtWork, Steps
<1>5. AtWork'
  BY <1>1 DEF AtWork
<1>6. CountedToWrite'
  BY <1>1 DEF CountedToWrite, Writing, Steps
<1> QED BY <1>2, <1>3, <1>4, <1>5, <1>6 DEF IInv

LEMMA SameTypes ==
  ASSUME IInv
  PROVE  /\ run \in Runs /\ items \in [Items -> ItemType] /\ context \in Nat /\ spent \in Nat
         /\ built \in [Transfers -> Nat] /\ budget \in BudgetType /\ account \in Ordered(Txs)
         /\ counted \in Counts
BY DEF IInv, TypeOK, Runs, ItemType, BudgetType, Counts

(* One that writes to no row and moves no transfer.                        *)
LEMMA ReadingStep ==
  ASSUME IInv, NEW w \in Workers, pc[w] \in Steps,
         pc'[w] \in Steps, pc' = [pc EXCEPT ![w] = pc'[w]],
         UNCHANGED <<queue, operator, task, items, chain>>,
         run' \in Runs, context' \in Nat, budget' \in BudgetType,
         run' # run /\ run' \in Terminal => Outstanding = {} /\ run' = FinalStatus,
         counted' # counted => Outstanding = {} /\ counted' = FinalStatus,
         pc'[w] \in Writing => counted' # "none",
         Doing(Item(w), pc'[w])
  PROVE  IInv'
<1>1. \A i, n : T(i, n)' = T(i, n)
  BY DEF T, chain
<1>2. Ledger' /\ RowsAreTrue'
  BY <1>1 DEF IInv, Ledger, RowsAreTrue, T, chain
<1>3. Doing(Item(w), pc[w])'
  BY <1>1 DEF Doing, Knows, Item, T, chain
<1>4. EndsAreTrue'
  BY DEF IInv, EndsAreTrue, TerminalMeansSettled, FinalStatus, Outstanding
<1>5. counted' \in Counts
  BY SameTypes DEF FinalStatus, Counts, Terminal
<1>6. items' \in [Items -> ItemType] /\ account' \in Ordered(Txs) /\ spent' \in Nat
      /\ built' \in [Transfers -> Nat]
  BY DEF IInv, TypeOK, ItemType, chain
<1>7. \A v \in Workers : pc[v] \in Steps => v = w
  BY DEF IInv, OneAtWork
<1> QED BY <1>2, <1>3, <1>4, <1>5, <1>6, <1>7, AtItsStep

LEMMA WorkFacts ==
  ASSUME IInv, NEW w \in Workers, pc[w] \in Steps
  PROVE  /\ Item(w) \in Items /\ items[Item(w)] \in ItemType /\ items \in [Items -> ItemType]
         /\ Doing(Item(w), pc[w])
         /\ \A v \in Workers : pc[v] \in Steps => v = w
BY JobFacts DEF IInv, TypeOK, OneAtWork, AtWork, Item, ItemType, Steps

LEMMA StepFacts ==
  ASSUME IInv, NEW w \in Workers, NEW from \in Steps, NEW to \in Steps, Step(w, from, to)
  PROVE  /\ pc[w] = from /\ pc'[w] = to /\ pc' = [pc EXCEPT ![w] = pc'[w]]
         /\ UNCHANGED <<queue, operator, task>>
BY DEF IInv, TypeOK, Step

LEMMA LockStep ==
  ASSUME IInv, NEW w \in Workers, Lock(w) PROVE IInv'
<1>1. /\ pc[w] = "waiting" /\ pc'[w] = "load" /\ pc' = [pc EXCEPT ![w] = pc'[w]]
      /\ \A v \in Workers : pc[v] \in Steps => v = w
      /\ UNCHANGED <<run, items, queue, operator, task, context, counted, chain, budget>>
  BY DEF Lock, IInv, TypeOK
<1>2. Ledger' /\ RowsAreTrue' /\ EndsAreTrue'
  BY <1>1 DEF IInv, Ledger, RowsAreTrue, T, chain, EndsAreTrue, TerminalMeansSettled, FinalStatus, Outstanding
<1>3. Doing(Item(w), pc[w])'
  BY <1>1 DEF Doing, Knows, Unsigned, Prepared
<1> QED BY <1>1, <1>2, <1>3, AtItsStep, SameTypes DEF chain, Steps, Writing

LEMMA LoadStep ==
  ASSUME IInv, NEW w \in Workers, Load(w) PROVE IInv'
<1> DEFINE i == Item(w)
<1>1. /\ pc[w] = "load" /\ pc' = [pc EXCEPT ![w] = Branch(items[i])]
      /\ UNCHANGED <<queue, operator, task, run, items, context, counted, chain, budget>>
  BY DEF Load, Step
<1>2. pc'[w] = Branch(items[i])
  BY <1>1 DEF IInv, TypeOK
<1>3. i \in Items /\ items[i] \in ItemType
  BY <1>1, WorkFacts DEF Steps
<1> HIDE DEF i
<1>4. Branch(items[i]) \in {"return", "finalize", "confirm", "fail", "begin"}
  BY DEF Branch
<1>5. Doing(i, Branch(items[i]))
  <2>1. /\ items[i].status = "submitted" => items[i].txHash # 0
        /\ items[i].txHash = 0 => \A n \in Attempts : T(i, n) \notin Sent
    BY <1>3 DEF IInv, RowsAreTrue, Ledger, Attempts
  <2>2. CASE Branch(items[i]) \in {"return", "finalize"}
    BY <2>2 DEF Doing, Knows, Unsigned, Prepared
  <2>3. CASE Branch(items[i]) = "confirm"
    BY <2>1, <2>3 DEF Branch, Doing, Knows, Unsigned, Prepared
  <2>4. CASE Branch(items[i]) = "fail"
    BY <2>1, <2>4 DEF Branch, Doing, Knows, Unsigned, Prepared, Sent, Outcomes
  <2>5. CASE Branch(items[i]) = "begin"
    BY <1>3, <2>1, <2>5, CountAssumption DEF Branch, Doing, Knows, Unsigned, Prepared, ItemType
  <2> QED BY <1>4, <2>2, <2>3, <2>4, <2>5
<1>6. pc[w] \in Steps /\ pc'[w] \in Steps \ Writing /\ Doing(Item(w), pc'[w])
  BY <1>1, <1>2, <1>4, <1>5 DEF Steps, Writing, i
<1> QED BY <1>1, <1>2, <1>6, ReadingStep, SameTypes

LEMMA MarkRunningStep ==
  ASSUME IInv, NEW w \in Workers, MarkRunning(w) PROVE IInv'
<1>1. /\ pc[w] = "begin" /\ pc'[w] = "started" /\ pc' = [pc EXCEPT ![w] = pc'[w]]
      /\ UNCHANGED <<queue, operator, task, items, context, counted, chain, budget>>
      /\ run' \in Runs /\ (run' = run \/ run' = "running")
  BY StepFacts, SameTypes DEF MarkRunning, Steps, Runs
<1>2. Doing(Item(w), pc'[w])
  BY <1>1, WorkFacts DEF Doing, Knows, Unsigned, Prepared, Steps
<1>3. run' # run /\ run' \in Terminal => Outstanding = {} /\ run' = FinalStatus
  BY <1>1 DEF Terminal
<1> QED BY <1>1, <1>2, <1>3, ReadingStep, SameTypes DEF Steps, Writing

LEMMA LoadTransferContextStep ==
  ASSUME IInv, NEW w \in Workers, LoadTransferContext(w) PROVE IInv'
<1>1. /\ pc[w] = "proving" /\ pc'[w] = "context" /\ pc' = [pc EXCEPT ![w] = pc'[w]]
      /\ UNCHANGED <<queue, operator, task, run, items, counted, chain, budget>> /\ context' \in Nat
  BY StepFacts, SameTypes DEF LoadTransferContext, Steps
<1>2. Doing(Item(w), pc'[w])
  BY <1>1, WorkFacts DEF Doing, Knows, Unsigned, Prepared, Steps
<1> QED BY <1>1, <1>2, ReadingStep, SameTypes DEF Steps, Writing

(* Nothing of the item was sent before its hash was stored.                *)
LEMMA BuildFailsStep ==
  ASSUME IInv, NEW w \in Workers, BuildFails(w) PROVE IInv'
<1>1. /\ pc[w] \in {"proving", "context", "signed"} /\ pc'[w] = "catch"
      /\ pc' = [pc EXCEPT ![w] = pc'[w]]
      /\ UNCHANGED <<queue, operator, task, run, items, context, counted, chain, budget>>
  BY StepFacts DEF BuildFails, Steps
<1>2. Item(w) \in Items /\ items[Item(w)].txHash = 0 /\ items[Item(w)].status \in Active
  BY <1>1, WorkFacts DEF Doing, Knows, Unsigned, Steps
<1>3. \A n \in Attempts : T(Item(w), n) \notin Sent
  BY <1>2 DEF IInv, Ledger, Attempts
<1>4. Doing(Item(w), pc'[w])
  BY <1>1, <1>2, <1>3 DEF Doing, Knows, Unsigned, Prepared
<1> QED BY <1>1, <1>4, ReadingStep, SameTypes DEF Steps, Writing

(* Pooled transactions differ in their nonces, and from the mined ones.    *)
LEMMA PooledUnrivalled ==
  ASSUME NEW a \in Ordered(Txs), NEW i \in Items, NEW n \in Attempts,
         a.tx[<<i, n>>].status = "pooled"
  PROVE  Unrivalled(a, i, n)
<1> DEFINE t == <<i, n>>
<1>1. t \in Txs /\ Transfers \subseteq Txs
  BY TxFacts
<1>2. /\ DOMAIN a.tx = Txs /\ a.next \in Nat /\ \A u \in Txs : a.tx[u].nonce \in Nat
      /\ Pooled(a) = {u \in Txs : a.tx[u].status = "pooled"}
      /\ NoncesInOrder(a)
  BY TxsFinite, PoolFacts DEF Ordered, Account, TxState
<1>3. a.tx[t].nonce >= a.next
  BY <1>1, <1>2 DEF NoncesInOrder
<1> HIDE DEF t
<1>4. ASSUME NEW u \in Transfers \ {t}, a.tx[u].status \in Present
      PROVE  a.tx[u].nonce # a.tx[t].nonce
  <2>1. u \in Txs
    BY <1>1
  <2>2. CASE a.tx[u].status = "pooled"
    BY <1>1, <1>2, <2>1, <2>2 DEF NoncesInOrder, t
  <2>3. CASE a.tx[u].status \in Outcomes
    BY <1>1, <1>2, <1>3, <2>1, <2>3 DEF NoncesInOrder
  <2> QED BY <1>4, <2>2, <2>3 DEF Present
<1> QED BY <1>4 DEF Unrivalled, t

LEMMA HashFacts ==
  ASSUME IInv, NEW w \in Workers, pc[w] \in Prepared
  PROVE  /\ Item(w) \in Items /\ items[Item(w)].status \in Active
         /\ items[Item(w)].txHash \in Attempts /\ items[Item(w)].txHash # 0
         /\ Transfer(w) \in Transfers /\ Transfer(w) \in Txs
<1>1. Item(w) \in Items /\ items[Item(w)] \in ItemType /\ Doing(Item(w), pc[w])
  BY WorkFacts DEF Prepared, Steps
<1>2. items[Item(w)].status \in Active /\ items[Item(w)].txHash # 0
  BY <1>1 DEF Doing, Knows, Prepared, Unsigned
<1>3. items[Item(w)].txHash \in Attempts
  BY <1>1, <1>2, CountAssumption DEF ItemType, Attempts
<1> QED BY <1>1, <1>2, <1>3, TxFacts DEF Transfer

LEMMA SendStaysStep ==
  ASSUME IInv, NEW w \in Workers, AlreadyThere(w) \/ Refused(w) PROVE IInv'
<1>1. /\ pc[w] = "send" /\ pc'[w] \in {"watch", "await", "throw"}
      /\ pc' = [pc EXCEPT ![w] = pc'[w]]
      /\ UNCHANGED <<queue, operator, task, run, items, context, counted, chain>>
      /\ pc'[w] = "watch" => Transfer(w) \in Pooled(account)
  BY StepFacts DEF AlreadyThere, Refused, Steps
<1>2. budget' \in BudgetType
  BY SameTypes, FaultTypes DEF IInv, AlreadyThere, Refused
<1>3. pc'[w] = "watch" => Unrivalled(account, Item(w), items[Item(w)].txHash)
  BY <1>1, HashFacts, PooledUnrivalled, SameTypes DEF Prepared, Pooled, HasStatus, Transfer
<1>4. Doing(Item(w), pc'[w])
  BY <1>1, <1>3, WorkFacts DEF Doing, Knows, Unsigned, Prepared, Steps
<1>5. pc'[w] \in Steps /\ pc'[w] \notin Writing
  BY <1>1 DEF Steps, Writing
<1> QED BY <1>1, <1>2, <1>4, <1>5, ReadingStep, SameTypes DEF Steps

(* A success that is not the transfer's own is of somebody else's          *)
(* transaction, which replaced it.                                         *)
LEMMA ReceiptFacts ==
  ASSUME IInv, NEW w \in Workers, pc[w] \in {"watch", "await"}, NEW status \in Receipts(w)
  PROVE  /\ status = "success" => Lands(account, Item(w), items[Item(w)].txHash)
         /\ status = "reverted" =>
              T(Item(w), items[Item(w)].txHash) \in {"reverted", "dropped"}
<1> DEFINE i == Item(w)
           n == items[i].txHash
           t == <<i, n>>
<1>1. i \in Items /\ n \in Attempts /\ Transfer(w) = t /\ t \in Txs
  BY HashFacts DEF Prepared, Transfer
<1>2. account \in Account(Txs) /\ DOMAIN account.tx = Txs
  BY DEF IInv, TypeOK, Account
<1>3. CASE status \in OwnReceipt(account, t)
  BY <1>3 DEF OwnReceipt, Lands, T
<1>4. CASE pc[w] = "watch" /\ status \in ReceiptStatuses(account, t)
  <2>1. Unrivalled(account, i, n)
    BY <1>4, WorkFacts DEF Doing, Knows, Steps
  <2>2. PICK v \in Mined(account) :
          /\ status = account.tx[v].status
          /\ \/ v = t
             \/ account.tx[t].status = "dropped" /\ account.tx[v].nonce = account.tx[t].nonce
    BY <1>4 DEF ReceiptStatuses
  <2>3. v \in Txs /\ account.tx[v].status \in Outcomes
    BY <1>2, <2>2 DEF Mined, HasStatus, Outcomes
  <2>4. CASE v = t
    BY <2>2, <2>4 DEF Lands, T
  <2>5. CASE v # t /\ account.tx[t].status = "dropped"
             /\ account.tx[v].nonce = account.tx[t].nonce
    <3>1. v \notin Transfers
      BY <2>1, <2>3, <2>5 DEF Unrivalled, Present
    <3>2. v \in Others
      BY <2>3, <3>1, TxFacts
    <3> QED BY <2>2, <2>5, <3>2 DEF Lands, ReplacedBy, T
  <2> QED BY <2>2, <2>4, <2>5
<1> QED BY <1>1, <1>3, <1>4 DEF Receipts

LEMMA AwaitConfirmationsStep ==
  ASSUME IInv, NEW w \in Workers, AwaitConfirmations(w) PROVE IInv'
<1> DEFINE i == Item(w)
           h == items[i].txHash
<1>1. /\ pc[w] \in {"watch", "await"} /\ pc' = [pc EXCEPT ![w] = pc'[w]]
      /\ \/ pc'[w] = "landed" /\ "success" \in Receipts(w)
         \/ pc'[w] = "fail" /\ "reverted" \in Receipts(w)
      /\ UNCHANGED <<queue, operator, task, run, items, context, counted, chain, budget>>
  BY StepFacts DEF AwaitConfirmations, Waits, Steps
<1>2. i \in Items /\ items[i].status \in Active /\ h # 0 /\ h \in Attempts
  BY <1>1, HashFacts DEF Prepared
<1>3. pc'[w] = "landed" => Lands(account, i, h)
  BY <1>1, ReceiptFacts
<1>4. pc'[w] = "fail" => \A n \in Attempts : T(i, n) \notin {"pooled", "success"}
  <2>1. pc'[w] = "fail" => T(i, h) \in {"reverted", "dropped"}
    BY <1>1, ReceiptFacts
  <2> QED BY <1>2, <2>1 DEF IInv, Ledger, Sent, Outcomes
<1>5. Doing(i, pc'[w])
  BY <1>1, <1>2, <1>3, <1>4 DEF Doing, Knows, Unsigned, Prepared
<1>6. pc[w] \in Steps /\ pc'[w] \in Steps /\ pc'[w] \notin Writing
  BY <1>1 DEF Steps, Writing
<1> QED BY <1>1, <1>5, <1>6, ReadingStep, SameTypes

LEMMA TimeOutStep ==
  ASSUME IInv, NEW w \in Workers, TimeOut(w) PROVE IInv'
<1>1. /\ pc[w] \in Steps /\ pc'[w] = "throw" /\ pc' = [pc EXCEPT ![w] = pc'[w]]
      /\ UNCHANGED <<queue, operator, task, run, items, context, counted, chain>>
  BY StepFacts DEF TimeOut, Waits, Steps
<1>2. budget' \in BudgetType
  BY SameTypes, FaultTypes DEF IInv, TimeOut
<1>3. Doing(Item(w), pc'[w])
  BY <1>1 DEF Doing, Knows, Unsigned, Prepared
<1> QED BY <1>1, <1>2, <1>3, ReadingStep, SameTypes DEF Steps, Writing

LEMMA QueryFailsStep ==
  ASSUME IInv, NEW w \in Workers, QueryFails(w) PROVE IInv'
<1>1. PICK from \in Steps \ {"throw", "return"} : Step(w, from, "throw")
  BY DEF QueryFails
<1>2. /\ pc[w] \in Steps /\ pc'[w] = "throw" /\ pc' = [pc EXCEPT ![w] = pc'[w]]
      /\ UNCHANGED <<queue, operator, task, run, items, context, counted, chain>>
  BY <1>1, StepFacts DEF QueryFails, Steps
<1>3. budget' \in BudgetType
  BY FaultTypes DEF IInv, QueryFails
<1>4. Doing(Item(w), pc'[w])
  BY <1>2 DEF Doing, Knows, Unsigned, Prepared
<1> QED BY <1>2, <1>3, <1>4, ReadingStep, SameTypes DEF Steps, Writing

LEMMA FinalizeStep ==
  ASSUME IInv, NEW w \in Workers, Finalize(w) PROVE IInv'
<1>1. /\ pc[w] \in Steps /\ pc'[w] \in {"return", "throw"} \cup Writing
      /\ pc' = [pc EXCEPT ![w] = pc'[w]]
      /\ UNCHANGED <<queue, operator, task, run, items, context, chain, budget>>
      /\ \/ Settled /\ counted' = FinalStatus
         \/ pc'[w] \in {"return", "throw"} /\ counted' = counted
  BY StepFacts DEF Finalize, Steps, Writing
<1>2. Doing(Item(w), pc'[w])
  BY <1>1 DEF Doing, Knows, Unsigned, Prepared, Writing
<1>3. /\ counted' # counted => Outstanding = {} /\ counted' = FinalStatus
      /\ pc'[w] \in Writing => counted' # "none"
  BY <1>1 DEF Settled, Writing, FinalStatus
<1>4. pc'[w] \in Steps
  BY <1>1 DEF Steps, Writing
<1> QED BY <1>1, <1>2, <1>3, <1>4, ReadingStep, SameTypes

LEMMA WriteStatusStep ==
  ASSUME IInv, NEW w \in Workers, WriteStatus(w) PROVE IInv'
<1>1. /\ pc[w] \in Writing /\ pc'[w] \in {"return", "throw"} /\ pc' = [pc EXCEPT ![w] = pc'[w]]
      /\ UNCHANGED <<queue, operator, task, items, context, counted, chain, budget>>
      /\ run' = counted
  BY StepFacts DEF WriteStatus, Steps, Writing
<1>2. Outstanding = {} /\ counted = FinalStatus
  BY <1>1 DEF IInv, CountedToWrite, EndsAreTrue
<1>3. Doing(Item(w), pc'[w])
  BY <1>1 DEF Doing, Knows, Unsigned, Prepared
<1>4. run' \in Runs
  BY <1>1, <1>2 DEF FinalStatus, Runs, Terminal
<1>5. pc[w] \in Steps /\ pc'[w] \in Steps /\ pc'[w] \notin Writing
  BY <1>1 DEF Steps, Writing
<1> QED BY <1>1, <1>2, <1>3, <1>4, <1>5, ReadingStep, SameTypes

-------------------------------------------------------------------------------
(* Steps that write the item: the run has not ended, no transfer moves.    *)

LEMMA WritingStep ==
  ASSUME IInv, NEW w \in Workers, pc[w] \in Steps, items[Item(w)].status \in Active,
         pc'[w] \in Steps \ Writing, pc' = [pc EXCEPT ![w] = pc'[w]],
         UNCHANGED <<queue, operator, task, run, context, counted, chain, budget>>,
         NEW new \in ItemType, items' = [items EXCEPT ![Item(w)] = new],
         new.attempt >= items[Item(w)].attempt,
         new.txHash \in {0, new.attempt},
         new.status = "submitted" => new.txHash # 0,
         new.status = "confirmed" => new.txHash # 0 /\ Lands(account, Item(w), new.txHash),
         new.status = "failed" =>
           \A n \in Attempts : T(Item(w), n) \notin {"pooled", "success"},
         \A n \in Attempts : /\ T(Item(w), n) \in Sent => new.txHash = n
                             /\ new.txHash = n => T(Item(w), n) # "unsigned",
         Knows(Item(w), new, pc'[w])
  PROVE  IInv'
<1> DEFINE i == Item(w)
<1>1. i \in Items /\ items \in [Items -> ItemType] /\ \A v \in Workers : pc[v] \in Steps => v = w
  BY WorkFacts
<1>2. \A k, n : T(k, n)' = T(k, n)
  BY DEF T, chain
<1> HIDE DEF i
<1>3. items' \in [Items -> ItemType] /\ items'[i] = new
      /\ \A k \in Items \ {i} : items'[k] = items[k]
  BY <1>1 DEF i
<1>4. Ledger'
  <2> SUFFICES ASSUME NEW k \in Items, NEW n \in Attempts
               PROVE  /\ T(k, n) \in Sent => items'[k].txHash = n
                      /\ items'[k].txHash = n => T(k, n) # "unsigned"
                      /\ n > items'[k].attempt => T(k, n) = "unsigned"
    BY <1>2 DEF Ledger
  <2>1. CASE k = i
    <3>1. n \in Int /\ new.attempt \in Int /\ items[i].attempt \in Int
      BY <1>1 DEF Attempts, ItemType
    <3>2. n > new.attempt => n > items[i].attempt
      BY <3>1 DEF i
    <3>3. n > items[i].attempt => T(i, n) = "unsigned"
      BY <1>1 DEF IInv, Ledger
    <3> QED BY <1>3, <2>1, <3>2, <3>3 DEF i
  <2>2. CASE k # i
    BY <1>3, <2>2 DEF IInv, Ledger
  <2> QED BY <2>1, <2>2
<1>5. RowsAreTrue'
  <2> SUFFICES ASSUME NEW k \in Items
               PROVE  /\ items'[k].txHash \in {0, items'[k].attempt}
                      /\ items'[k].status = "submitted" => items'[k].txHash # 0
                      /\ items'[k].status = "confirmed" =>
                           items'[k].txHash # 0 /\ Lands(account, k, items'[k].txHash)
                      /\ items'[k].status = "failed" =>
                           \A n \in Attempts : T(k, n) \notin {"pooled", "success"}
    BY <1>2 DEF RowsAreTrue, chain
  <2>1. CASE k = i
    BY <1>3, <2>1 DEF i
  <2>2. CASE k # i
    BY <1>3, <2>2 DEF IInv, RowsAreTrue
  <2> QED BY <2>1, <2>2
<1>6. EndsAreTrue'
  <2>1. run \notin Terminal /\ counted = "none"
    BY <1>1 DEF IInv, EndsAreTrue, TerminalMeansSettled, Outstanding, i
  <2> QED BY <2>1 DEF EndsAreTrue, TerminalMeansSettled
<1>7. Doing(Item(w), pc[w])'
  <2>1. Item(w)' = Item(w) /\ items'[Item(w)] = new
    BY <1>3 DEF Item, i
  <2> QED BY <2>1 DEF Doing, Knows, T, chain
<1> QED BY <1>1, <1>3, <1>4, <1>5, <1>6, <1>7, AtItsStep, SameTypes DEF chain

LEMMA SetStatusFacts ==
  ASSUME IInv, NEW w \in Workers, pc[w] \in Steps,
         NEW status \in Active \cup {"confirmed", "failed"}, SetStatus(w, status)
  PROVE  LET i == Item(w)
             new == [status |-> status, attempt |-> items[i].attempt, txHash |-> items[i].txHash]
         IN  new \in ItemType /\ items' = [items EXCEPT ![i] = new] /\ items'[i] = new
<1> DEFINE i == Item(w)
           new == [status |-> status, attempt |-> items[i].attempt, txHash |-> items[i].txHash]
<1>1. i \in Items /\ items[i] \in ItemType /\ items \in [Items -> ItemType]
  BY WorkFacts
<1>2. items' = [items EXCEPT ![i].status = status]
  BY DEF SetStatus
<1> HIDE DEF i
<1>3. new \in ItemType /\ [items[i] EXCEPT !.status = status] = new
  BY <1>1 DEF ItemType
<1>4. items' = [items EXCEPT ![i] = new] /\ items'[i] = new
  BY <1>1, <1>2, <1>3
<1> QED BY <1>3, <1>4 DEF i

LEMMA MarkProvingStep ==
  ASSUME IInv, NEW w \in Workers, MarkProving(w) PROVE IInv'
<1> DEFINE i == Item(w)
           new == [status |-> "proving", attempt |-> items[i].attempt + 1,
                   txHash |-> items[i].txHash]
<1>1. /\ pc[w] = "started" /\ pc'[w] = "proving" /\ pc' = [pc EXCEPT ![w] = pc'[w]]
      /\ UNCHANGED <<queue, operator, task, run, context, counted, chain, budget>>
  BY StepFacts DEF MarkProving, Steps
<1>2. /\ i \in Items /\ items[i] \in ItemType /\ items \in [Items -> ItemType]
      /\ items[i].status \in Active /\ items[i].txHash = 0 /\ items[i].attempt < MaxAttempts
  BY <1>1, WorkFacts DEF Doing, Knows, Unsigned, Steps
<1>3. items' = [items EXCEPT ![i].status = "proving", ![i].attempt = items[i].attempt + 1]
  BY DEF MarkProving
<1> HIDE DEF i
<1>4. new \in ItemType /\ new.attempt \in Attempts /\ new.attempt > items[i].attempt
  BY <1>2, CountAssumption DEF ItemType, Active, Attempts
<1>5. items' = [items EXCEPT ![i] = new] /\ items'[i] = new
  BY <1>2, <1>3 DEF ItemType
<1>6. /\ \A n \in Attempts : T(i, n) \notin Sent
      /\ T(i, new.attempt) = "unsigned"
  BY <1>2, <1>4 DEF IInv, Ledger, Attempts
<1>7. Knows(i, new, pc'[w])
  BY <1>1, <1>2, <1>4, <1>6 DEF Knows, Unsigned, Prepared, Active, Attempts
<1>8. /\ new.status = "proving" /\ new.txHash = 0 /\ new.attempt >= items[i].attempt
      /\ \A n \in Attempts : T(i, n) \notin Sent /\ new.txHash # n
  BY <1>2, <1>4, <1>6 DEF ItemType, Attempts
<1> HIDE DEF new
<1> QED BY <1>1, <1>2, <1>4, <1>5, <1>7, <1>8, WritingStep DEF i, Steps, Writing

(* The rest of the steps that write a row, given what they write.          *)
LEMMA PersistTransferStep ==
  ASSUME IInv, NEW w \in Workers, PersistTransfer(w) PROVE IInv'
<1> DEFINE i == Item(w)
           n == items[i].attempt
           new == [status |-> "submitted", attempt |-> n, txHash |-> n]
<1>1. /\ pc[w] = "signed" /\ pc'[w] \in {"confirm", "catch"} /\ pc' = [pc EXCEPT ![w] = pc'[w]]
      /\ UNCHANGED <<queue, operator, task, run, context, counted, chain, budget>>
  BY StepFacts DEF PersistTransfer, Steps
<1>2. /\ i \in Items /\ items[i] \in ItemType /\ items \in [Items -> ItemType]
      /\ items[i].status \in Active /\ items[i].txHash = 0
      /\ n > 0 /\ T(i, n) = "signed"
  BY <1>1, WorkFacts DEF Doing, Knows, Unsigned, Steps
<1>3. items' = [items EXCEPT ![i].status = "submitted", ![i].txHash = n]
  BY DEF PersistTransfer
<1> HIDE DEF i
<1>4. new \in ItemType /\ n \in Attempts
  BY <1>2, CountAssumption DEF ItemType, Active, Attempts
<1>5. items' = [items EXCEPT ![i] = new]
  BY <1>2, <1>3 DEF ItemType
<1>6. \A m \in Attempts : T(i, m) \notin Sent
  BY <1>2 DEF IInv, Ledger, Attempts
<1>7. Knows(i, new, pc'[w])
  BY <1>1, <1>2, <1>6 DEF Knows, Unsigned, Prepared, Active
<1>8. /\ new.status = "submitted" /\ new.txHash = n /\ new.attempt = n
      /\ n \in Nat /\ n # 0 /\ n >= items[i].attempt
  BY <1>2, <1>4, CountAssumption DEF Attempts
<1> HIDE DEF new
<1>9. \A m \in Attempts : T(i, m) \notin Sent /\ (new.txHash = m => T(i, m) # "unsigned")
  BY <1>2, <1>6, <1>8
<1> QED BY <1>1, <1>2, <1>4, <1>5, <1>7, <1>8, <1>9, WritingStep DEF i, Steps, Writing

(* A handler that changes nothing but the status, and may.                 *)
LEMMA StatusStep ==
  ASSUME IInv, NEW w \in Workers, pc[w] \in Steps, items[Item(w)].status \in Active,
         pc'[w] \in Steps \ (Unsigned \cup Writing
                             \cup {"catch", "fail", "watch", "await", "landed", "confirm"}),
         pc' = [pc EXCEPT ![w] = pc'[w]],
         UNCHANGED <<queue, operator, task, run, context, counted, chain, budget>>,
         NEW status \in Active \cup {"confirmed", "failed"}, SetStatus(w, status),
         status \in {"submitted", "confirmed"} \/ pc'[w] = "send" => items[Item(w)].txHash # 0,
         pc'[w] = "send" => status \in Active,
         status = "confirmed" => Lands(account, Item(w), items[Item(w)].txHash),
         status = "failed" => \A n \in Attempts : T(Item(w), n) \notin {"pooled", "success"}
  PROVE  IInv'
<1> DEFINE i == Item(w)
           new == [status |-> status, attempt |-> items[i].attempt, txHash |-> items[i].txHash]
<1>1. /\ i \in Items /\ items[i] \in ItemType
      /\ new \in ItemType /\ items' = [items EXCEPT ![i] = new]
  BY WorkFacts, SetStatusFacts
<1>2. Knows(i, new, pc'[w])
  BY DEF Knows, Unsigned, Prepared, Steps
<1>3. /\ new.status = status /\ new.attempt = items[i].attempt
      /\ new.txHash = items[i].txHash
  OBVIOUS
<1>4. /\ new.attempt >= items[i].attempt
      /\ new.txHash \in {0, new.attempt}
  BY <1>1, <1>3 DEF ItemType, IInv, RowsAreTrue
<1>5. \A n \in Attempts : /\ T(i, n) \in Sent => new.txHash = n
                          /\ new.txHash = n => T(i, n) # "unsigned"
  BY <1>1, <1>3 DEF IInv, Ledger
<1> HIDE DEF new
<1> QED BY <1>1, <1>2, <1>3, <1>4, <1>5, WritingStep

LEMMA CatchErrorStep ==
  ASSUME IInv, NEW w \in Workers, CatchError(w) PROVE IInv'
<1>1. /\ pc[w] = "catch" /\ pc'[w] \in {"finalize", "finalize and throw"}
      /\ pc' = [pc EXCEPT ![w] = pc'[w]]
      /\ UNCHANGED <<queue, operator, task, run, context, counted, chain, budget>>
  BY StepFacts DEF CatchError, Steps
<1>2. /\ items[Item(w)].status \in Active
      /\ \A n \in Attempts : T(Item(w), n) \notin Sent
  BY <1>1, WorkFacts DEF Doing, Knows, Steps
<1>3. PICK status \in {"failed", "pending"} : SetStatus(w, status)
  BY DEF CatchError
<1> QED BY <1>1, <1>2, <1>3, StatusStep DEF Steps, Unsigned, Writing, Active, Sent, Outcomes

LEMMA MarkSubmittedStep ==
  ASSUME IInv, NEW w \in Workers, MarkSubmitted(w) PROVE IInv'
<1>1. /\ pc[w] = "confirm" /\ pc'[w] = "send" /\ pc' = [pc EXCEPT ![w] = pc'[w]]
      /\ UNCHANGED <<queue, operator, task, run, context, counted, chain, budget>>
      /\ SetStatus(w, "submitted")
  BY StepFacts DEF MarkSubmitted, Steps
<1>2. items[Item(w)].status \in Active /\ items[Item(w)].txHash # 0
  BY <1>1, WorkFacts DEF Doing, Knows, Prepared, Steps
<1> QED BY <1>1, <1>2, StatusStep DEF Steps, Unsigned, Writing, Active

LEMMA MarkConfirmedStep ==
  ASSUME IInv, NEW w \in Workers, MarkConfirmed(w) PROVE IInv'
<1>1. /\ pc[w] = "landed" /\ pc'[w] = "finalize" /\ pc' = [pc EXCEPT ![w] = pc'[w]]
      /\ UNCHANGED <<queue, operator, task, run, context, counted, chain, budget>>
      /\ SetStatus(w, "confirmed")
  BY StepFacts DEF MarkConfirmed, Steps
<1>2. /\ items[Item(w)].status \in Active /\ items[Item(w)].txHash # 0
      /\ Lands(account, Item(w), items[Item(w)].txHash)
  BY <1>1, WorkFacts DEF Doing, Knows, Prepared, Steps
<1> QED BY <1>1, <1>2, StatusStep DEF Steps, Unsigned, Writing, Active

LEMMA MarkFailedStep ==
  ASSUME IInv, NEW w \in Workers, MarkFailed(w) PROVE IInv'
<1>1. /\ pc[w] = "fail" /\ pc'[w] = "finalize" /\ pc' = [pc EXCEPT ![w] = pc'[w]]
      /\ UNCHANGED <<queue, operator, task, run, context, counted, chain, budget>>
      /\ SetStatus(w, "failed")
  BY StepFacts DEF MarkFailed, Steps
<1>2. /\ items[Item(w)].status \in Active
      /\ \A n \in Attempts : T(Item(w), n) \notin {"pooled", "success"}
  BY <1>1, WorkFacts DEF Doing, Knows, Steps
<1> QED BY <1>1, <1>2, StatusStep DEF Steps, Unsigned, Writing, Active

-------------------------------------------------------------------------------
(* Steps that move a transfer and write to no row.                         *)

(* A transfer is sent only under the name of its row, and by an item that  *)
(* is not settled.                                                         *)
LEMMA MovedTransfers ==
  ASSUME IInv, UNCHANGED <<run, items, counted>>,
         \A k \in Items, n \in Attempts :
           /\ T(k, n)' \in Sent => T(k, n) \in Sent \/ items[k].txHash = n
           /\ T(k, n) # "unsigned" => T(k, n)' # "unsigned"
           /\ T(k, n) = "unsigned" /\ T(k, n)' # "unsigned" => ~(n > items[k].attempt)
           /\ Lands(account, k, n) => Lands(account', k, n) \/ items[k].status \in Active
           /\ T(k, n)' \in {"pooled", "success"} =>
                T(k, n) \in {"pooled", "success"} \/ items[k].status \in Active
  PROVE  Ledger' /\ RowsAreTrue' /\ EndsAreTrue'
<1>1. items \in [Items -> ItemType] /\ items' = items
  BY SameTypes
<1>2. Ledger'
  <2> SUFFICES ASSUME NEW k \in Items, NEW n \in Attempts
               PROVE  /\ T(k, n)' \in Sent => items[k].txHash = n
                      /\ items[k].txHash = n => T(k, n)' # "unsigned"
                      /\ n > items[k].attempt => T(k, n)' = "unsigned"
    BY <1>1 DEF Ledger, Attempts
  <2>1. /\ T(k, n) \in Sent => items[k].txHash = n
        /\ items[k].txHash = n => T(k, n) # "unsigned"
        /\ n > items[k].attempt => T(k, n) = "unsigned"
    BY DEF IInv, Ledger
  <2> QED BY <2>1
<1>3. RowsAreTrue'
  <2> SUFFICES ASSUME NEW k \in Items
               PROVE  /\ items[k].txHash \in {0, items[k].attempt}
                      /\ items[k].status = "submitted" => items[k].txHash # 0
                      /\ items[k].status = "confirmed" =>
                           items[k].txHash # 0 /\ Lands(account', k, items[k].txHash)
                      /\ items[k].status = "failed" =>
                           \A n \in Attempts : T(k, n)' \notin {"pooled", "success"}
    BY <1>1 DEF RowsAreTrue, T, Attempts
  <2>1. items[k].txHash # 0 => items[k].txHash \in Attempts
    BY <1>1, CountAssumption DEF ItemType, Attempts
  <2>2. /\ items[k].txHash \in {0, items[k].attempt}
        /\ items[k].status = "submitted" => items[k].txHash # 0
        /\ items[k].status = "confirmed" =>
             items[k].txHash # 0 /\ Lands(account, k, items[k].txHash)
        /\ items[k].status = "failed" =>
             \A n \in Attempts : T(k, n) \notin {"pooled", "success"}
    BY DEF IInv, RowsAreTrue
  <2>3. items[k].status = "confirmed" => Lands(account', k, items[k].txHash)
    BY <2>1, <2>2 DEF Active
  <2>4. items[k].status = "failed" => \A n \in Attempts : T(k, n)' \notin {"pooled", "success"}
    BY <2>2 DEF Active
  <2> QED BY <2>2, <2>3, <2>4
<1>4. EndsAreTrue'
  BY DEF IInv, EndsAreTrue, TerminalMeansSettled, FinalStatus, Outstanding
<1> QED BY <1>2, <1>3, <1>4

Keeps(t) == /\ account'.tx[t].status = account.tx[t].status
            /\ account'.tx[t].nonce = account.tx[t].nonce

(* What landed stays landed unless its transfer is sent again.             *)
LEMMA LandsStays ==
  ASSUME NEW i \in Items, NEW n \in Attempts, Lands(account, i, n),
         \A u \in Txs : account.tx[u].status = "success" => Keeps(u),
         T(i, n) = "dropped" => Keeps(<<i, n>>)
  PROVE  Lands(account', i, n)
<1>1. CASE T(i, n) = "success"
  BY <1>1, TxFacts DEF T, Keeps, Lands
<1>2. CASE T(i, n) = "dropped"
  <2>1. PICK o \in Others : /\ account.tx[o].status = "success"
                            /\ account.tx[o].nonce = account.tx[<<i, n>>].nonce
    BY <1>2 DEF Lands, ReplacedBy, T
  <2>2. Keeps(o) /\ Keeps(<<i, n>>)
    BY <1>2, <2>1, TxFacts
  <2> QED BY <1>2, <2>1, <2>2 DEF Lands, ReplacedBy, Keeps, T
<1> QED BY <1>1, <1>2 DEF Lands, ReplacedBy, T

LEMMA SignTx ==
  ASSUME IInv, NEW t \in Txs, account.tx[t].status = "unsigned",
         account' = Sign(account, t)
  PROVE  /\ account' \in Ordered(Txs) /\ account'.tx[t].status = "signed"
         /\ \A u \in Txs \ {t} : Keeps(u)
<1>1. account \in Ordered(Txs) /\ account \in Account(Txs)
  BY DEF IInv, Ordered
<1>2. account' \in Ordered(Txs)
  BY <1>1, TxsFinite, SignOrdered
<1>3. /\ account'.tx[t] = [status |-> "signed", nonce |-> PendingCount(account)]
      /\ \A u \in Txs \ {t} : account'.tx[u] = account.tx[u]
  BY <1>1, TxsFinite, SignFacts
<1> QED BY <1>2, <1>3 DEF Keeps

LEMMA SendTx ==
  ASSUME IInv, NEW t \in Txs, account.tx[t].status \in {"signed", "dropped"},
         ~NonceTooLow(account, t), account' = PutInPool(account, t)
  PROVE  /\ account' \in Ordered(Txs) /\ account'.tx[t].status = "pooled"
         /\ \A u \in Txs : account'.tx[u].nonce = account.tx[u].nonce
         /\ \A u \in Txs \ {t} : \/ Keeps(u)
                                 \/ /\ account.tx[u].status = "pooled"
                                    /\ account'.tx[u].status = "dropped"
<1>1. account \in Ordered(Txs) /\ account \in Account(Txs)
  BY DEF IInv, Ordered
<1>2. /\ account' \in Ordered(Txs) /\ account'.tx[t].status = "pooled"
      /\ \A u \in Txs : account'.tx[u].nonce = account.tx[u].nonce
      /\ \A u \in Txs \ {t} : account'.tx[u].status =
           IF u \in Rivals(account, t) THEN "dropped" ELSE account.tx[u].status
  BY <1>1, TxsFinite, PutOrdered, PutFacts
<1>3. \A u \in Rivals(account, t) : account.tx[u].status = "pooled"
  BY <1>1, TxsFinite, PoolFacts DEF Rivals
<1> QED BY <1>2, <1>3 DEF Keeps

LEMMA MineTx ==
  ASSUME IInv, NEW t \in Minable(account), NEW outcome \in Outcomes,
         account' = Include(account, t, outcome)
  PROVE  /\ account' \in Ordered(Txs) /\ t \in Txs
         /\ account.tx[t].status = "pooled" /\ account'.tx[t].status = outcome
         /\ \A u \in Txs : account'.tx[u].nonce = account.tx[u].nonce
         /\ \A u \in Txs \ {t} : Keeps(u)
<1>1. account \in Ordered(Txs) /\ account \in Account(Txs)
  BY DEF IInv, Ordered
<1>2. t \in Txs /\ account.tx[t].status = "pooled"
  BY <1>1, TxsFinite, PoolFacts DEF Minable
<1>3. account' \in Ordered(Txs)
  BY <1>1, TxsFinite, IncludeOrdered
<1>4. /\ account'.tx[t].status = outcome
      /\ \A u \in Txs : account'.tx[u].nonce = account.tx[u].nonce
      /\ \A u \in Txs \ {t} : account'.tx[u].status = account.tx[u].status
  BY <1>1, <1>2, TxsFinite, IncludeFacts
<1> QED BY <1>2, <1>3, <1>4 DEF Keeps

LEMMA SignTransferStep ==
  ASSUME IInv, NEW w \in Workers, SignTransfer(w) PROVE IInv'
<1> DEFINE i == Item(w)
           a == items[i].attempt
           t == <<i, a>>
<1>1. /\ pc[w] = "context" /\ pc'[w] = "signed" /\ pc' = [pc EXCEPT ![w] = pc'[w]]
      /\ UNCHANGED <<queue, operator, task, run, items, context, counted, spent, budget>>
      /\ account' = Sign(account, t) /\ built' = [built EXCEPT ![t] = context]
  BY StepFacts DEF SignTransfer, Steps
<1>2. /\ i \in Items /\ items[i] \in ItemType /\ items[i].status \in Active
      /\ items[i].txHash = 0 /\ a > 0 /\ T(i, a) = "unsigned"
      /\ \A v \in Workers : pc[v] \in Steps => v = w
  BY <1>1, WorkFacts DEF Doing, Knows, Unsigned, Steps
<1>3. i \in Items /\ a \in Attempts /\ t \in Txs /\ t \in Transfers
      /\ account.tx[t].status = "unsigned"
  BY <1>2, CountAssumption, TxFacts DEF ItemType, Attempts, T
<1> HIDE DEF i, a
<1>4. /\ account' \in Ordered(Txs) /\ account'.tx[t].status = "signed"
      /\ \A u \in Txs \ {t} : Keeps(u)
  BY <1>1, <1>3, SignTx
<1>5. \A k \in Items, n \in Attempts :
        \/ T(k, n)' = T(k, n)
        \/ k = i /\ n = a /\ T(k, n) = "unsigned" /\ T(k, n)' = "signed"
  <2> SUFFICES ASSUME NEW k \in Items, NEW n \in Attempts
               PROVE  \/ T(k, n)' = T(k, n)
                      \/ k = i /\ n = a /\ T(k, n) = "unsigned" /\ T(k, n)' = "signed"
    OBVIOUS
  <2>1. CASE k = i /\ n = a
    BY <1>3, <1>4, <2>1 DEF T
  <2>2. CASE ~(k = i /\ n = a)
    <3>1. <<k, n>> \in Txs \ {t}
      BY <1>3, <2>2, TxFacts
    <3> QED BY <1>4, <3>1 DEF T, Keeps
  <2> QED BY <2>1, <2>2
<1>6. \A k \in Items, n \in Attempts : Lands(account, k, n) => Lands(account', k, n)
  <2>1. \A u \in Txs : account.tx[u].status \in {"success", "dropped"} => Keeps(u)
    BY <1>3, <1>4
  <2> QED BY <2>1, TxFacts, LandsStays DEF T
<1>7. Ledger' /\ RowsAreTrue' /\ EndsAreTrue'
  <2>1. ~(a > items[i].attempt)
    BY <1>3 DEF a, Attempts
  <2> QED BY <1>1, <1>5, <1>6, <2>1, MovedTransfers DEF Sent, Outcomes
<1>8. Doing(Item(w), pc[w])'
  <2>1. Item(w)' = i /\ items' = items /\ pc'[w] = "signed"
    BY <1>1 DEF Item, i
  <2>2. account'.tx[<<i, items[i].attempt>>].status = "signed"
    BY <1>4 DEF a
  <2> QED BY <1>1, <1>2, <2>1, <2>2 DEF Doing, Knows, Unsigned, Prepared, a, T
<1>9. built' \in [Transfers -> Nat]
  BY <1>1, <1>3, SameTypes
<1> QED BY <1>1, <1>2, <1>4, <1>7, <1>8, <1>9, AtItsStep, SameTypes DEF Steps, Writing

(* Its row names the transfer that is sent.                                *)
LEMMA BroadcastStep ==
  ASSUME IInv, NEW w \in Workers, Broadcast(w) PROVE IInv'
<1> DEFINE i == Item(w)
           h == items[i].txHash
           t == <<i, h>>
<1>1. /\ pc[w] = "send" /\ pc'[w] \in {"watch", "throw"} /\ pc' = [pc EXCEPT ![w] = pc'[w]]
      /\ UNCHANGED <<queue, operator, task, run, items, context, counted, built, spent>>
      /\ account' = PutInPool(account, t)
      /\ ~NonceTooLow(account, t) /\ t \notin Pooled(account)
  BY StepFacts DEF Broadcast, Transfer, Steps
<1>2. budget' \in BudgetType
  BY SameTypes, FaultTypes DEF IInv, Broadcast
<1>3. /\ i \in Items /\ items[i].status \in Active /\ h # 0 /\ h \in Attempts /\ t \in Txs
      /\ \A v \in Workers : pc[v] \in Steps => v = w
  BY <1>1, WorkFacts, HashFacts DEF Prepared, Steps, Transfer
<1>4. T(i, h) # "unsigned"
  BY <1>3 DEF IInv, Ledger
<1> HIDE DEF i, h
<1>5. account.tx[t].status \in {"signed", "dropped"}
  <2>1. account \in Account(Txs) /\ NoncesInOrder(account) /\ DOMAIN account.tx = Txs
        /\ Pooled(account) = {u \in Txs : account.tx[u].status = "pooled"}
        /\ account.tx[t] \in TxState /\ account.next \in Nat
    BY <1>3, TxsFinite, PoolFacts DEF IInv, Ordered, Account
  <2>2. account.tx[t].status # "pooled"
    BY <1>1, <1>3, <2>1
  <2>3. account.tx[t].status \notin Outcomes
    BY <1>1, <1>3, <2>1 DEF NoncesInOrder, NonceTooLow
  <2> QED BY <1>4, <2>1, <2>2, <2>3 DEF TxState, T
<1>6. /\ account' \in Ordered(Txs) /\ account'.tx[t].status = "pooled"
      /\ \A u \in Txs \ {t} : \/ Keeps(u)
                              \/ /\ account.tx[u].status = "pooled"
                                 /\ account'.tx[u].status = "dropped"
  BY <1>1, <1>3, <1>5, SendTx
<1>7. ASSUME NEW k \in Items, NEW n \in Attempts
      PROVE  \/ T(k, n)' = T(k, n)
             \/ T(k, n) = "pooled" /\ T(k, n)' = "dropped"
             \/ k = i /\ n = h /\ T(k, n) \in {"signed", "dropped"} /\ T(k, n)' = "pooled"
  <2>1. CASE k = i /\ n = h
    BY <1>5, <1>6, <2>1 DEF T
  <2>2. CASE ~(k = i /\ n = h)
    <3>1. <<k, n>> \in Txs \ {t}
      BY <1>3, <2>2, TxFacts
    <3> QED BY <1>6, <3>1 DEF T, Keeps
  <2> QED BY <2>1, <2>2
<1>8. ASSUME NEW k \in Items, NEW n \in Attempts, Lands(account, k, n)
      PROVE  Lands(account', k, n) \/ items[k].status \in Active
  <2>1. \A u \in Txs : account.tx[u].status = "success" => Keeps(u)
    BY <1>5, <1>6
  <2>2. CASE k = i
    BY <1>3, <2>2
  <2>3. CASE k # i
    <3>1. <<k, n>> \in Txs \ {t}
      BY <1>3, <2>3, TxFacts
    <3>2. T(k, n) = "dropped" => Keeps(<<k, n>>)
      BY <1>6, <3>1 DEF T
    <3> QED BY <1>8, <2>1, <3>2, LandsStays
  <2> QED BY <2>2, <2>3
<1>9. Ledger' /\ RowsAreTrue' /\ EndsAreTrue'
  <2>1. h = items[i].txHash
    BY DEF h
  <2> QED BY <1>1, <1>3, <1>7, <1>8, <2>1, MovedTransfers DEF Sent, Outcomes
<1>10. Doing(Item(w), pc[w])'
  <2>1. Item(w)' = i /\ items' = items /\ h = items[i].txHash
    BY <1>1 DEF Item, i, h
  <2>2. Unrivalled(account', i, h)
    BY <1>3, <1>6, PooledUnrivalled
  <2> QED BY <1>1, <1>3, <2>1, <2>2 DEF Doing, Knows, Unsigned, Prepared
<1> QED BY <1>1, <1>2, <1>3, <1>6, <1>9, <1>10, AtItsStep, SameTypes DEF Steps, Writing

(* The chain and the other transactions move nothing a handler relies on.  *)
LEMMA ChainStep ==
  ASSUME IInv, UNCHANGED <<run, items, queue, operator, handlers, built, budget>>,
         account' \in Ordered(Txs), spent' \in Nat,
         \A u \in Txs : account.tx[u].status = "success" => Keeps(u),
         \A t \in Transfers :
           /\ account'.tx[t].nonce = account.tx[t].nonce
           /\ \/ account'.tx[t].status = account.tx[t].status
              \/ /\ account.tx[t].status = "pooled"
                 /\ account'.tx[t].status \in {"dropped"} \cup Outcomes
  PROVE  IInv'
<1>1. ASSUME NEW k \in Items, NEW n \in Attempts
      PROVE  \/ T(k, n)' = T(k, n)
             \/ T(k, n) = "pooled" /\ T(k, n)' \in {"dropped"} \cup Outcomes
  BY TxFacts DEF T
<1>2. ASSUME NEW k \in Items, NEW n \in Attempts, Lands(account, k, n)
      PROVE  Lands(account', k, n)
  <2>1. T(k, n) = "dropped" => Keeps(<<k, n>>)
    BY TxFacts DEF T, Keeps
  <2> QED BY <1>2, <2>1, LandsStays
<1>3. ASSUME NEW k \in Items, NEW n \in Attempts, Unrivalled(account, k, n)
      PROVE  Unrivalled(account', k, n)
  BY <1>3, TxFacts DEF Unrivalled, Present
<1>4. Ledger' /\ RowsAreTrue' /\ EndsAreTrue'
  BY <1>1, <1>2, MovedTransfers DEF Sent, Outcomes, handlers
<1>5. TypeOK' /\ JobsInOrder' /\ OneAtWork' /\ CountedToWrite'
  BY DEF IInv, TypeOK, queue, operator, handlers, Ordered, JobsInOrder, OneAtWork,
     CountedToWrite
<1>6. AtWork'
  <2> SUFFICES ASSUME NEW w \in Workers, pc[w] \in Steps
               PROVE  Doing(Item(w), pc[w])'
    BY DEF AtWork, handlers
  <2> DEFINE i == Item(w)
  <2>1. Item(w)' = i /\ items' = items /\ pc' = pc /\ i \in Items /\ items[i] \in ItemType
        /\ Doing(i, pc[w])
    BY WorkFacts DEF handlers, Item
  <2> HIDE DEF i
  <2>2. /\ items[i].attempt > 0 => items[i].attempt \in Attempts
        /\ items[i].txHash # 0 => items[i].txHash \in Attempts
    BY <2>1, CountAssumption DEF ItemType, Attempts
  <2>3. /\ items[i].attempt > 0 /\ T(i, items[i].attempt) = "unsigned"
             => account'.tx[<<i, items[i].attempt>>].status = "unsigned"
        /\ items[i].attempt > 0 /\ T(i, items[i].attempt) = "signed"
             => account'.tx[<<i, items[i].attempt>>].status = "signed"
        /\ items[i].txHash # 0 /\ Lands(account, i, items[i].txHash)
             => Lands(account', i, items[i].txHash)
        /\ items[i].txHash # 0 /\ Unrivalled(account, i, items[i].txHash)
             => Unrivalled(account', i, items[i].txHash)
    BY <1>1, <1>2, <1>3, <2>1, <2>2 DEF T
  <2>4. ASSUME NEW n \in Attempts
        PROVE  /\ T(i, n) \notin Sent => account'.tx[<<i, n>>].status \notin Sent
               /\ T(i, n) \notin {"pooled", "success"}
                    => account'.tx[<<i, n>>].status \notin {"pooled", "success"}
    BY <1>1, <2>1 DEF T, Sent
  <2>5. Knows(i, items[i], pc[w])
    BY <2>1 DEF Doing
  <2> QED BY <2>1, <2>3, <2>4, <2>5 DEF Doing, Knows, T, Unsigned, Prepared, Attempts, Sent, Outcomes
<1> QED BY <1>4, <1>5, <1>6 DEF IInv

LEMMA MineStep ==
  ASSUME IInv, Mine PROVE IInv'
<1>1. PICK t \in Minable(account), outcome \in Outcomes :
        account' = Include(account, t, outcome) /\ spent' \in {spent, spent + 1}
  BY DEF Mine, MineTransfer, MineOther, Outcomes
<1>2. UNCHANGED <<run, items, queue, operator, handlers, built, budget>>
  BY DEF Mine, MineTransfer, MineOther
<1>3. /\ account' \in Ordered(Txs) /\ t \in Txs
      /\ account.tx[t].status = "pooled" /\ account'.tx[t].status = outcome
      /\ \A u \in Txs : account'.tx[u].nonce = account.tx[u].nonce
      /\ \A u \in Txs \ {t} : Keeps(u)
  BY <1>1, MineTx
<1>4. \A u \in Txs : account.tx[u].status = "success" => Keeps(u)
  BY <1>3
<1>5. ASSUME NEW u \in Transfers
      PROVE  /\ account'.tx[u].nonce = account.tx[u].nonce
             /\ \/ account'.tx[u].status = account.tx[u].status
                \/ /\ account.tx[u].status = "pooled"
                   /\ account'.tx[u].status \in {"dropped"} \cup Outcomes
  BY <1>3, TxFacts DEF Keeps
<1>6. spent' \in Nat
  BY <1>1, SameTypes
<1> QED BY <1>2, <1>3, <1>4, <1>5, <1>6, ChainStep

LEMMA OtherStep ==
  ASSUME IInv, NEW o \in Others, SignOther(o) \/ SendOther(o) PROVE IInv'
<1>1. o \in Txs /\ o \notin Transfers /\ Transfers \subseteq Txs
  BY TxFacts
<1>2. UNCHANGED <<run, items, queue, operator, handlers, built, spent, budget>>
  BY DEF SignOther, SendOther
<1>3. CASE SignOther(o)
  <2>1. /\ account.tx[o].status = "unsigned" /\ account' \in Ordered(Txs)
        /\ \A u \in Txs \ {o} : Keeps(u)
    BY <1>1, <1>3, SignTx DEF SignOther
  <2>2. \A u \in Txs : account.tx[u].status = "success" => Keeps(u)
    BY <2>1
  <2>3. \A u \in Transfers : Keeps(u)
    BY <1>1, <2>1
  <2> QED BY <1>2, <2>1, <2>2, <2>3, ChainStep, SameTypes DEF Keeps
<1>4. CASE SendOther(o)
  <2>1. /\ account.tx[o].status \in {"signed", "dropped"} /\ account' \in Ordered(Txs)
        /\ \A u \in Txs : account'.tx[u].nonce = account.tx[u].nonce
        /\ \A u \in Txs \ {o} : \/ Keeps(u)
                                \/ /\ account.tx[u].status = "pooled"
                                   /\ account'.tx[u].status = "dropped"
    BY <1>1, <1>4, SendTx DEF SendOther
  <2>2. \A u \in Txs : account.tx[u].status = "success" => Keeps(u)
    BY <2>1
  <2>3. \A u \in Transfers :
          /\ account'.tx[u].nonce = account.tx[u].nonce
          /\ \/ account'.tx[u].status = account.tx[u].status
             \/ /\ account.tx[u].status = "pooled"
                /\ account'.tx[u].status \in {"dropped"} \cup Outcomes
    BY <1>1, <2>1 DEF Keeps
  <2> QED BY <1>2, <2>1, <2>2, <2>3, ChainStep, SameTypes
<1> QED BY <1>3, <1>4

-------------------------------------------------------------------------------
LEMMA HandleStep ==
  ASSUME IInv, NEW w \in Workers, Handle(w) PROVE IInv'
BY LoadStep, MarkRunningStep, MarkProvingStep, LoadTransferContextStep, SignTransferStep,
   BuildFailsStep, PersistTransferStep, CatchErrorStep, MarkSubmittedStep, BroadcastStep,
   SendStaysStep, AwaitConfirmationsStep, TimeOutStep, MarkConfirmedStep, MarkFailedStep,
   FinalizeStep, WriteStatusStep DEF Handle

LEMMA NextInv == IInv /\ [Next]_vars => IInv'
<1> SUFFICES ASSUME IInv, [Next]_vars PROVE IInv'
  OBVIOUS
<1>1. CASE BeginStart \/ EndStart \/ BeginPause \/ EndPause
  BY <1>1, RoutesStep
<1>2. CASE \E i \in Items : SendJob(i)
  BY <1>2, SendJobStep
<1>3. CASE NextSlot
  BY <1>3, NextSlotStep
<1>4. CASE Deliver
  BY <1>4, LockStep, UnlockStep, FetchStep DEF Deliver
<1>5. CASE \E j \in Jobs : Expire(j)
  BY <1>5, ExpireStep
<1>6. CASE Restart
  BY <1>6, RestartStep
<1>7. CASE \E w \in Workers : Handle(w) \/ QueryFails(w)
  BY <1>7, HandleStep, QueryFailsStep
<1>8. CASE Mine
  BY <1>8, MineStep
<1>9. CASE \E o \in Others : SignOther(o) \/ SendOther(o)
  BY <1>9, OtherStep
<1>10. CASE UNCHANGED vars
  <2>1. UNCHANGED <<run, items, jobs, slot, sending, starting, pausing, pc, task, context,
                    counted, account, built, spent, budget>>
    BY <1>10 DEF vars, queue, operator, handlers, chain
  <2>2. TypeOK' /\ JobsInOrder' /\ EndsAreTrue'
    BY <2>1 DEF IInv, TypeOK, JobsInOrder, EndsAreTrue, TerminalMeansSettled, FinalStatus, Outstanding
  <2> QED BY <2>1, <2>2, AroundTheWork DEF IInv, OneAtWork
<1> QED BY <1>1, <1>2, <1>3, <1>4, <1>5, <1>6, <1>7, <1>8, <1>9, <1>10 DEF Next

(* In every reachable state of every instance: what was sent for an item   *)
(* is named by its row, the rows are true, and a handler knows at each     *)
(* step what it relies on.                                                 *)
THEOREM InductiveInvariant == Spec => []IInv
BY InitInv, NextInv, PTL DEF Spec

(* The rows, jobs, handlers and transfers keep their types; no job is      *)
(* delivered more often than its retries allow, no item is attempted more  *)
(* often than PAYROLL_MAX_ATTEMPTS.                                        *)
THEOREM RunTypes == Spec => []TypeOK
<1>1. IInv => TypeOK
  BY DEF IInv
<1> QED BY <1>1, InductiveInvariant, PTL

(* Whatever is delivered, retried, expired, sent again or restarted, at    *)
(* most one transfer signed for an item lands.                             *)
THEOREM NobodyPaidTwice == Spec => []PaidOnce
<1>1. IInv => PaidOnce
  BY DEF IInv, Ledger, PaidOnce, Landed, T, Sent, Outcomes, Attempts
<1> QED BY <1>1, InductiveInvariant, PTL

(* A confirmed row names a transfer that landed, or that a transaction of  *)
(* somebody else with the same key replaced in the pool: no other transfer *)
(* of the run, no retry and no restart lets a handler take a success that  *)
(* is not its own.                                                         *)
THEOREM ConfirmedRowsPaid == Spec => []ConfirmedIsPaid
<1>1. IInv => ConfirmedIsPaid
  BY DEF IInv, RowsAreTrue, ConfirmedIsPaid, Lands, Landed
<1> QED BY <1>1, InductiveInvariant, PTL

(* No transfer of a failed row has landed or waits to: its recipient may   *)
(* be paid by another run.                                                 *)
THEOREM FailedRowsUnpaid == Spec => []FailedIsUnpaid
<1>1. IInv => FailedIsUnpaid
  BY DEF IInv, RowsAreTrue, FailedIsUnpaid, T, Attempts
<1> QED BY <1>1, InductiveInvariant, PTL

(* A run that has ended has nothing outstanding and the status its rows    *)
(* give it.                                                                *)
THEOREM EndedRunsSettled == Spec => []TerminalMeansSettled
<1>1. IInv => TerminalMeansSettled
  BY DEF IInv, EndsAreTrue
<1> QED BY <1>1, InductiveInvariant, PTL

(* The worker never takes a run out of its pause: the one step that does   *)
(* is the end of a start or resume request.                                *)
THEOREM WorkersKeepPauses == Spec => OnlyOperatorsResume
<1>1. ASSUME IInv, [Next]_vars, run = "paused", run' = "running"
      PROVE  starting /\ ~starting'
  <2>1. run' # run
    BY <1>1
  <2>2. Next
    BY <1>1, <2>1 DEF vars
  <2>3. CASE EndStart
    BY <2>3 DEF EndStart
  <2>4. CASE BeginStart \/ BeginPause \/ EndPause \/ NextSlot \/ Restart \/ Mine
             \/ (\E o \in Others : SignOther(o) \/ SendOther(o))
             \/ (\E i \in Items : SendJob(i)) \/ (\E j \in Jobs : Expire(j)) \/ Deliver
    BY <1>1, <2>1, <2>4 DEF BeginStart, BeginPause, EndPause, NextSlot, Restart, Mine, MineTransfer,
       MineOther, SignOther, SendOther, SendJob, Expire, Deliver, Lock, Unlock, Fetch
  <2>5. ASSUME NEW w \in Workers, Handle(w) \/ QueryFails(w) PROVE FALSE
    <3>1. CASE MarkRunning(w)
      BY <1>1, <3>1 DEF MarkRunning
    <3>2. CASE WriteStatus(w)
      BY <1>1, <3>2 DEF WriteStatus, IInv, TypeOK, Terminal
    <3>3. CASE QueryFails(w)
      BY <2>1, <3>3 DEF QueryFails
    <3>4. CASE \/ Load(w) \/ MarkProving(w) \/ LoadTransferContext(w) \/ SignTransfer(w)
               \/ BuildFails(w) \/ PersistTransfer(w) \/ CatchError(w) \/ MarkSubmitted(w)
               \/ Broadcast(w) \/ AlreadyThere(w) \/ Refused(w) \/ AwaitConfirmations(w)
               \/ TimeOut(w) \/ MarkConfirmed(w) \/ MarkFailed(w) \/ Finalize(w)
      BY <2>1, <3>4 DEF Load, MarkProving, LoadTransferContext, SignTransfer, BuildFails,
         PersistTransfer, CatchError, MarkSubmitted, Broadcast, AlreadyThere, Refused,
         AwaitConfirmations, TimeOut, MarkConfirmed, MarkFailed, Finalize
    <3> QED BY <2>5, <3>1, <3>2, <3>3, <3>4 DEF Handle
  <2> QED BY <2>2, <2>3, <2>4, <2>5 DEF Next
<1>2. IInv /\ [Next]_vars => [(run = "paused" /\ run' = "running") => (starting /\ ~starting')]_vars
  BY <1>1
<1> QED BY <1>2, InductiveInvariant, PTL DEF Spec, OnlyOperatorsResume
===============================================================================

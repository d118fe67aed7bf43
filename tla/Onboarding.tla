------------------------------- MODULE Onboarding -------------------------------
(***************************************************************************)
(* Onboarding of one user (onboarding/service.ts, onboarding/chain.ts) and *)
(* the pg-boss queue that drives it: one job of an address at a time, with *)
(* retries, an expiry of 60 s and a dead letter queue.                     *)
(*                                                                         *)
(* Every call of a handler to the chain or the database is a step. A job   *)
(* that expires does not stop its handler: the next delivery runs beside   *)
(* it. A drip or a setEnabled is sent, and mined later.                    *)
(***************************************************************************)
EXTENDS Naturals

CONSTANTS
  Handlers,    \* handlers that may run at the same time
  RetryLimit,  \* retryLimit of the queue
  MaxDrips,    \* bound: drips in one day
  MaxFaults    \* bound: errors, expiries, restarts and dropped transactions

ASSUME BoundsAssumption ==
  RetryLimit \in Nat /\ MaxDrips \in Nat /\ MaxFaults \in Nat

VARIABLES
  status,      \* of the onboardings row, "none" without one
  kyc,         \* there is a kyc_records row
  recent,      \* drips has a row of the last 24 hours
  job,         \* the job of the address that was delivered
  queued,      \* a job of the address waits
  dead,        \* a job is in the dead letter queue
  pc, run,     \* the handlers
  allow,       \* the user on the transaction allowlist; "open": there is
               \* none (chainEnv fuji)
  funded,      \* the native balance reaches the threshold
  minting,     \* a drip is sent and not mined
  registered,  \* the Registrar knows the user
  sent,        \* history: drips of onboarding in 24 hours
  blind,       \* history: one was sent while another had no row yet
  slow,        \* history: a handler outlived its job
  faults

rows    == <<status, kyc, recent>>
queue   == <<job, queued, dead>>
chain   == <<allow, funded, minting, registered>>
history == <<sent, blind, slow>>
vars    == <<rows, queue, pc, run, chain, history, faults>>

Terminal == {"complete", "failed"}
Outstanding == {"pending_kyc", "kyc_approved", "allowlisted", "gas_dripped",
                "awaiting_registration"}

Flags ==
  /\ kyc \in BOOLEAN /\ recent \in BOOLEAN /\ queued \in BOOLEAN /\ dead \in BOOLEAN
  /\ funded \in BOOLEAN /\ minting \in BOOLEAN /\ registered \in BOOLEAN
  /\ blind \in BOOLEAN /\ slow \in BOOLEAN

TypeOK ==
  /\ status \in {"none"} \cup Outstanding \cup Terminal
  /\ job \in [state : {"none", "active", "retry", "failed"}, try : 0 .. RetryLimit]
  /\ Flags
  /\ pc \in [Handlers -> {"idle", "read", "kyc", "allow", "enable", "allowed", "balance",
                          "recent", "drip", "record", "gas", "await", "poll", "complete",
                          "wait", "again", "giveUp", "finish"}]
  /\ run \in [Handlers -> [try : 0 .. RetryLimit, mine : BOOLEAN]]
  /\ \A g, h \in Handlers : pc[g] # "idle" /\ pc[h] # "idle" /\ run[g].mine /\ run[h].mine
                              => g = h
  /\ allow \in {"none", "pending", "enabled", "open"}
  /\ sent \in 0 .. MaxDrips
  /\ faults \in 0 .. MaxFaults

Init ==
  /\ status = "none" /\ kyc = FALSE /\ recent = FALSE
  /\ job = [state |-> "none", try |-> 0] /\ queued = FALSE /\ dead = FALSE
  /\ pc = [h \in Handlers |-> "idle"]
  /\ run = [h \in Handlers |-> [try |-> 0, mine |-> FALSE]]
  /\ allow \in {"none", "open"} /\ funded = FALSE /\ minting = FALSE /\ registered = FALSE
  /\ sent = 0 /\ blind = FALSE /\ slow = FALSE /\ faults = 0

Goto(h, where) == pc' = [pc EXCEPT ![h] = where]
Fault == faults < MaxFaults /\ faults' = faults + 1

-------------------------------------------------------------------------------
(* The chain and the user.                                                 *)

EnableMined ==
  /\ allow = "pending" /\ allow' = "enabled"
  /\ UNCHANGED <<rows, queue, pc, run, funded, minting, registered, history, faults>>

EnableDropped ==
  /\ allow = "pending" /\ allow' = "none" /\ Fault
  /\ UNCHANGED <<rows, queue, pc, run, funded, minting, registered, history>>

DripMined ==
  /\ minting /\ minting' = FALSE /\ funded' = TRUE
  /\ UNCHANGED <<rows, queue, pc, run, allow, registered, history, faults>>

SpendGas ==
  /\ funded /\ funded' = FALSE
  /\ UNCHANGED <<rows, queue, pc, run, allow, minting, registered, history, faults>>

(* Where there is an allowlist, who is not on it sends no transactions.    *)
Register ==
  /\ allow \in {"enabled", "open"} /\ funded /\ ~registered
  /\ registered' = TRUE
  /\ UNCHANGED <<rows, queue, pc, run, allow, funded, minting, history, faults>>

DayPasses ==
  /\ \A h \in Handlers : pc[h] \notin {"drip", "record"}
  /\ recent' = FALSE /\ sent' = 0 /\ blind' = FALSE
  /\ UNCHANGED <<status, kyc, queue, pc, run, chain, slow, faults>>

-------------------------------------------------------------------------------
(* The queue.                                                              *)

upsert == queued' = TRUE

(* Mutant: approved without a KYC record, which the job is to write.       *)
startOnboarding_Approved ==
  /\ status' = IF status = "none" THEN "kyc_approved" ELSE status
  /\ status' \in Outstanding /\ upsert
  /\ UNCHANGED <<kyc, recent, job, dead, pc, run, chain, history, faults>>

startOnboarding ==
  /\ status' = IF status = "none" THEN "pending_kyc" ELSE status
  /\ status' \in Outstanding /\ upsert
  /\ UNCHANGED <<kyc, recent, job, dead, pc, run, chain, history, faults>>

(* Mutant: without the queue policy a waiting job is delivered at once.    *)
Deliver_Parallel(h) ==
  /\ pc[h] = "idle" /\ queued /\ queued' = FALSE
  /\ job' = [state |-> "active", try |-> 0]
  /\ run' = [run EXCEPT ![h] = [try |-> 0, mine |-> TRUE]]
  /\ Goto(h, "read")
  /\ UNCHANGED <<rows, dead, chain, history, faults>>

(* key_strict_fifo: a failed job blocks its key as an active one does.     *)
Deliver(h) ==
  /\ pc[h] = "idle"
  /\ \/ job.state = "none" /\ queued /\ queued' = FALSE
        /\ job' = [state |-> "active", try |-> 0]
     \/ job.state = "retry" /\ job' = [job EXCEPT !.state = "active"]
        /\ UNCHANGED queued
  /\ run' = [run EXCEPT ![h] = [try |-> job'.try, mine |-> TRUE]]
  /\ Goto(h, "read")
  /\ UNCHANGED <<rows, dead, chain, history, faults>>

failJob ==
  IF job.try < RetryLimit
    THEN job' = [state |-> "retry", try |-> job.try + 1] /\ UNCHANGED dead
    ELSE job' = [job EXCEPT !.state = "failed"] /\ dead' = TRUE

(* After expireInSeconds the job is retried or dead; the handler goes on.  *)
Expire ==
  /\ job.state = "active" /\ Fault /\ failJob
  /\ \E h \in Handlers :
       /\ pc[h] # "idle" /\ run[h].mine
       /\ run' = [run EXCEPT ![h].mine = FALSE]
  /\ slow' = TRUE
  /\ UNCHANGED <<rows, queued, pc, chain, sent, blind>>

ExpireOrphan ==
  /\ job.state = "active" /\ failJob
  /\ \A h \in Handlers : pc[h] = "idle" \/ ~run[h].mine
  /\ UNCHANGED <<rows, queued, pc, run, chain, history, faults>>

(* A handler that stops after it sent a drip leaves no row of it.          *)
Losing(h) == pc[h] = "record"

(* The process dies; the next one calls enqueueOutstandingOnboardings.     *)
Restart ==
  /\ Fault
  /\ pc' = [h \in Handlers |-> "idle"]
  /\ run' = [h \in Handlers |-> [try |-> 0, mine |-> FALSE]]
  /\ blind' = (blind \/ \E h \in Handlers : Losing(h))
  /\ queued' = (queued \/ status \in Outstanding)
  /\ UNCHANGED <<rows, job, dead, chain, sent, slow>>

handleOnboardingFailedJob ==
  /\ dead /\ dead' = FALSE
  /\ status' = "failed"
  /\ UNCHANGED <<kyc, recent, job, queued, pc, run, chain, history, faults>>

-------------------------------------------------------------------------------
(* advanceOnboarding: the row is read again after every step; no write is  *)
(* conditional on the status that was read.                                *)

(* Mutant: a completed onboarding is not recognised, and falls through to  *)
(* unhandled_onboarding_status.                                            *)
NextStep_Unhandled ==
  CASE status = "failed" -> "finish" [] status = "pending_kyc" -> "kyc"
    [] status = "kyc_approved" -> "allow" [] status = "allowlisted" -> "balance"
    [] status = "gas_dripped" -> "await" [] status = "awaiting_registration" -> "poll"
    [] OTHER -> "giveUp"

NextStep ==
  CASE status \in Terminal -> "finish" [] status = "pending_kyc" -> "kyc"
    [] status = "kyc_approved" -> "allow" [] status = "allowlisted" -> "balance"
    [] status = "gas_dripped" -> "await" [] status = "awaiting_registration" -> "poll"
    [] OTHER -> "giveUp"

ReadRow(h) ==
  /\ pc[h] = "read" /\ Goto(h, NextStep)
  /\ UNCHANGED <<rows, run, queue, chain, history, faults>>

(* A write of the status, after which the row is read again.               *)
Write(h, from, new, then) ==
  /\ pc[h] = from /\ status' = new /\ Goto(h, then)
  /\ UNCHANGED <<run, queue, chain, faults>>

(* The record and the status in one transaction.                           *)
approveMockKyc(h) ==
  /\ Write(h, "kyc", "kyc_approved", "read")
  /\ kyc' = TRUE /\ UNCHANGED <<recent, history>>

(* ensureAllowlisted, which has nothing to do where there is no allowlist. *)
readAllowList(h) ==
  /\ pc[h] = "allow"
  /\ Goto(h, IF allow \in {"enabled", "open"} THEN "allowed" ELSE "enable")
  /\ UNCHANGED <<rows, run, queue, chain, history, faults>>

(* Sent and not waited for: the status does not mean that it is mined.     *)
setEnabled(h) ==
  /\ pc[h] = "enable" /\ Goto(h, "allowed")
  /\ allow' = IF allow = "none" THEN "pending" ELSE allow
  /\ UNCHANGED <<rows, run, queue, funded, minting, registered, history, faults>>

completeAllowlistStep(h) ==
  /\ Write(h, "allowed", "allowlisted", "read") /\ UNCHANGED <<kyc, recent, history>>

getNativeBalance(h) ==
  /\ pc[h] = "balance" /\ Goto(h, IF funded THEN "gas" ELSE "recent")
  /\ UNCHANGED <<rows, run, queue, chain, history, faults>>

(* Mutant: the drips of the last day are not looked for.                   *)
findRecentDrip_None(h) ==
  /\ pc[h] = "recent" /\ Goto(h, "drip")
  /\ blind' = (blind \/ \E g \in Handlers : pc[g] \in {"drip", "record"})
  /\ UNCHANGED <<rows, run, queue, chain, sent, slow, faults>>

findRecentDrip(h) ==
  /\ pc[h] = "recent" /\ Goto(h, IF recent THEN "gas" ELSE "drip")
  /\ blind' = (blind \/ \E g \in Handlers : pc[g] \in {"drip", "record"})
  /\ UNCHANGED <<rows, run, queue, chain, sent, slow, faults>>

dripGas(h) ==
  /\ pc[h] = "drip" /\ sent < MaxDrips
  /\ Goto(h, "record")
  /\ minting' = TRUE /\ sent' = sent + 1
  /\ UNCHANGED <<rows, run, queue, allow, funded, registered, blind, slow, faults>>

(* The row of drips and the status in one transaction.                     *)
recordDrip(h) ==
  /\ Write(h, "record", "gas_dripped", "read")
  /\ recent' = TRUE /\ UNCHANGED <<kyc, history>>

(* balance_sufficient and rate_limited_existing.                           *)
skipDrip(h) ==
  /\ Write(h, "gas", "gas_dripped", "read") /\ UNCHANGED <<kyc, recent, history>>

awaitRegistration(h) ==
  /\ Write(h, "await", "awaiting_registration", "read")
  /\ UNCHANGED <<kyc, recent, history>>

(* Mutant: a transaction that is sent is taken for a registration.         *)
isUserRegistered_Funded(h) ==
  /\ pc[h] = "poll" /\ Goto(h, IF registered \/ funded THEN "complete" ELSE "wait")
  /\ UNCHANGED <<rows, run, queue, chain, history, faults>>

isUserRegistered(h) ==
  /\ pc[h] = "poll" /\ Goto(h, IF registered THEN "complete" ELSE "wait")
  /\ UNCHANGED <<rows, run, queue, chain, history, faults>>

completeOnboarding(h) ==
  /\ Write(h, "complete", "complete", "finish") /\ UNCHANGED <<kyc, recent, history>>

keepAwaiting(h) ==
  /\ Write(h, "wait", "awaiting_registration", "again")
  /\ UNCHANGED <<kyc, recent, history>>

(* Mutant: no job is left to look again.                                   *)
enqueueOnboardingAdvance_Never(h) ==
  /\ pc[h] = "again" /\ Goto(h, "finish")
  /\ UNCHANGED <<rows, run, queue, chain, history, faults>>

enqueueOnboardingAdvance(h) ==
  /\ pc[h] = "again" /\ upsert /\ Goto(h, "finish")
  /\ UNCHANGED <<rows, run, job, dead, chain, history, faults>>

markOnboardingFailed(h) ==
  /\ Write(h, "giveUp", "failed", "finish") /\ UNCHANGED <<kyc, recent, history>>

Finish(h) ==
  /\ pc[h] = "finish" /\ Goto(h, "idle")
  /\ job' = IF run[h].mine THEN [state |-> "none", try |-> 0] ELSE job
  /\ run' = [run EXCEPT ![h] = [try |-> 0, mine |-> FALSE]]
  /\ UNCHANGED <<rows, queued, dead, chain, history, faults>>

(* A call throws. The last try of a job fails the onboarding, whoever runs *)
(* beside it; an earlier one, and an error of that write, fail the job.    *)
Throw(h) ==
  /\ pc[h] \notin {"idle", "finish"} /\ Fault
  /\ blind' = (blind \/ Losing(h))
  /\ \/ /\ run[h].try >= RetryLimit /\ pc[h] # "giveUp"
        /\ Goto(h, "giveUp") /\ UNCHANGED <<run, job, dead>>
     \/ /\ run[h].try < RetryLimit \/ pc[h] = "giveUp"
        /\ Goto(h, "idle")
        /\ run' = [run EXCEPT ![h] = [try |-> 0, mine |-> FALSE]]
        /\ IF run[h].mine THEN failJob ELSE UNCHANGED <<job, dead>>
  /\ UNCHANGED <<rows, queued, chain, sent, slow>>

-------------------------------------------------------------------------------
Advance(h) ==
  \/ ReadRow(h) \/ approveMockKyc(h)
  \/ readAllowList(h) \/ setEnabled(h) \/ completeAllowlistStep(h)
  \/ getNativeBalance(h) \/ findRecentDrip(h) \/ dripGas(h) \/ recordDrip(h) \/ skipDrip(h)
  \/ awaitRegistration(h) \/ isUserRegistered(h) \/ completeOnboarding(h)
  \/ keepAwaiting(h) \/ enqueueOnboardingAdvance(h)
  \/ markOnboardingFailed(h) \/ Finish(h)

Next ==
  \/ EnableMined \/ EnableDropped \/ DripMined \/ SpendGas \/ Register \/ DayPasses
  \/ startOnboarding \/ Expire \/ ExpireOrphan \/ Restart \/ handleOnboardingFailedJob
  \/ \E h \in Handlers : Deliver(h) \/ Advance(h) \/ Throw(h)

(* The queue delivers, expires and dead-letters; a handler goes on.        *)
Spec ==
  /\ Init /\ [][Next]_vars
  /\ WF_vars(\E h \in Handlers : Deliver(h))
  /\ WF_vars(ExpireOrphan) /\ WF_vars(handleOnboardingFailedJob)
  /\ \A h \in Handlers : WF_vars(Advance(h))

-------------------------------------------------------------------------------
(* The allowlist lets a user in only after KYC, and an onboarding is called*)
(* complete only when the user is registered on chain, whatever handlers   *)
(* that outlive their jobs write over each other.                          *)
CompleteIsOnboarded ==
  /\ allow \in {"pending", "enabled"} => kyc
  /\ status = "complete" => registered

(* The 24 hour limit (README of the API, on /admin/drip: "without the      *)
(* onboarding 24-hour" limit): a second drip follows only a drip that left *)
(* no row, by an error or a crash after sending, or a check beside another *)
(* handler that had sent, or was about to, and had not recorded. A status  *)
(* that a slow handler moves backwards is not enough.                      *)
DripsAreLimited == sent > 1 => blind

(* An onboarding that ended is not taken up again while no handler outlives *)
(* its job, and only the last try of a job, or its dead letter, can still  *)
(* fail it after it was complete (a crash before the job is acknowledged). *)
TerminalIsFinal ==
  [][~slow /\ status \in Terminal =>
       status' = status \/ (status' = "failed" /\ job.try = RetryLimit)]_vars

(* A user who is registered sees the onboarding end, through errors,       *)
(* retries, dead letters and restarts: some job always looks again.        *)
RegisteredEnds == registered ~> (status \in Terminal \/ slow)
===============================================================================

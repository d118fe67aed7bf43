--------------------------- MODULE Onboarding_Proofs ---------------------------
(***************************************************************************)
(* For any number of handlers, retries and faults: the types of            *)
(* Onboarding, the order KYC, allowlist, registration, the limit on drips, *)
(* and that an onboarding which ended is left alone.                       *)
(*                                                                         *)
(* None of these is inductive. A handler acts on a row it read some steps  *)
(* ago, so each conjunct of IInv ties what a handler is about to do to     *)
(* what was true when it decided to do it and cannot be undone, or to the  *)
(* job that keeps other handlers away.                                     *)
(***************************************************************************)
EXTENDS Onboarding, TLAPS

Busy(h) == pc[h] # "idle"
Owns(h) == Busy(h) /\ run[h].mine

(* A handler that owns its job works on the one delivery of it.            *)
OneOwner ==
  \A h \in Handlers : Owns(h) => job.state = "active" /\ run[h].try = job.try

AfterKyc == {"allow", "enable", "allowed", "balance", "recent", "drip", "record",
             "gas", "await", "poll", "complete", "wait", "again"}

(* Past the KYC step, in the row or in the hands of a handler.             *)
KycFirst ==
  /\ status \in {"kyc_approved", "allowlisted", "gas_dripped", "awaiting_registration"}
       => kyc
  /\ \A h \in Handlers : pc[h] \in AfterKyc => kyc
  /\ allow \in {"pending", "enabled"} => kyc

RegisteredFirst ==
  /\ status = "complete" => registered
  /\ \A h \in Handlers : pc[h] = "complete" => registered

Dripping(h) == pc[h] \in {"drip", "record"}

(* Unless a drip went unseen, one handler drips, it is the first of the    *)
(* day, and every drip has its row or a handler that is about to write it. *)
DripsRecorded ==
  ~blind =>
    /\ \A g, h \in Handlers : Dripping(g) /\ Dripping(h) => g = h
    /\ \A h \in Handlers : pc[h] = "drip" => sent = 0
    /\ sent > 0 => recent \/ \E h \in Handlers : pc[h] = "record"
    /\ sent <= 1

(* Nothing happens without a row, and only the last try of a job dies.     *)
JobsInOrder ==
  /\ status = "none" => ~queued /\ ~dead /\ job.state = "none"
                        /\ \A h \in Handlers : ~Busy(h)
  /\ job.state = "failed" => job.try = RetryLimit
  /\ dead => job.state = "failed"

(* While no handler outlives its job, one that finds the onboarding ended  *)
(* reads it and stops, or fails it in its last try.                        *)
EndedIsLeft ==
  ~slow =>
    /\ \A h \in Handlers : Busy(h) => run[h].mine
    /\ \A h \in Handlers : pc[h] = "giveUp" => run[h].try = RetryLimit
    /\ status \in Terminal =>
         \A h \in Handlers : pc[h] \in {"idle", "read", "giveUp", "finish"}

InOrder ==
  /\ OneOwner /\ KycFirst /\ RegisteredFirst
  /\ DripsRecorded /\ JobsInOrder /\ EndedIsLeft

IInv == TypeOK /\ InOrder

-------------------------------------------------------------------------------
(* Types. An expired handler's record is rewritten in one field; the flags *)
(* are Booleans, which SMT does not see when one of them is set.           *)
LEMMA TypeInit == Init => TypeOK
<1> SUFFICES ASSUME Init PROVE TypeOK
  OBVIOUS
<1>1. Flags
  BY Zenon DEF Init, Flags
<1> QED BY <1>1, BoundsAssumption DEF Init, TypeOK

LEMMA TypeStep ==
  ASSUME IInv, [Next]_vars
  PROVE  TypeOK'
<1> USE BoundsAssumption
    DEF IInv, InOrder, TypeOK, OneOwner, Busy, Owns, Goto, Fault, rows, queue, chain,
        history, upsert, failJob, Losing, NextStep, Write, Terminal, Outstanding

<1>1. CASE EnableMined
  BY <1>1 DEF EnableMined, Flags
<1>2. CASE EnableDropped
  BY <1>2 DEF EnableDropped, Flags
<1>3. CASE DripMined
  <2>1. Flags'
    BY <1>3, Zenon DEF DripMined, Flags
  <2> QED BY <1>3, <2>1 DEF DripMined
<1>4. CASE SpendGas
  <2>1. Flags'
    BY <1>4, Zenon DEF SpendGas, Flags
  <2> QED BY <1>4, <2>1 DEF SpendGas
<1>5. CASE Register
  BY <1>5 DEF Register, Flags
<1>6. CASE DayPasses
  <2>1. Flags'
    BY <1>6, Zenon DEF DayPasses, Flags
  <2> QED BY <1>6, <2>1 DEF DayPasses
<1>7. CASE startOnboarding
  BY <1>7 DEF startOnboarding, Flags
<1>8. CASE Expire
  <2>1. Flags'
    BY <1>8, Zenon DEF Expire, Flags
  <2>2. PICK h \in Handlers : run' = [run EXCEPT ![h].mine = FALSE]
    BY <1>8 DEF Expire
  <2>3. [run[h] EXCEPT !.mine = FALSE] \in [try : 0 .. RetryLimit, mine : BOOLEAN]
    OBVIOUS
  <2>4. run' = [run EXCEPT ![h] = [run[h] EXCEPT !.mine = FALSE]]
    BY <2>2
  <2>5. run' \in [Handlers -> [try : 0 .. RetryLimit, mine : BOOLEAN]]
    BY <2>3, <2>4
  <2> QED BY <1>8, <2>1, <2>2, <2>5 DEF Expire
<1>9. CASE ExpireOrphan
  <2>1. Flags'
    BY <1>9, Zenon DEF ExpireOrphan, Flags
  <2> QED BY <1>9, <2>1 DEF ExpireOrphan
<1>10. CASE Restart
  BY <1>10 DEF Restart, Flags
<1>11. CASE handleOnboardingFailedJob
  <2>1. Flags'
    BY <1>11, Zenon DEF handleOnboardingFailedJob, Flags
  <2> QED BY <1>11, <2>1 DEF handleOnboardingFailedJob
<1>12. ASSUME NEW h \in Handlers, Deliver(h) PROVE TypeOK'
  <2>1. Flags'
    BY <1>12, Zenon DEF Deliver, Flags
  <2> QED BY <1>12, <2>1 DEF Deliver
<1>13. ASSUME NEW h \in Handlers, ReadRow(h) PROVE TypeOK'
  BY <1>13 DEF ReadRow, Flags
<1>14. ASSUME NEW h \in Handlers, approveMockKyc(h) PROVE TypeOK'
  BY <1>14 DEF approveMockKyc, Flags
<1>15. ASSUME NEW h \in Handlers, readAllowList(h) PROVE TypeOK'
  BY <1>15 DEF readAllowList, Flags
<1>16. ASSUME NEW h \in Handlers, setEnabled(h) PROVE TypeOK'
  BY <1>16 DEF setEnabled, Flags
<1>17. ASSUME NEW h \in Handlers, completeAllowlistStep(h) PROVE TypeOK'
  BY <1>17 DEF completeAllowlistStep, Flags
<1>18. ASSUME NEW h \in Handlers, getNativeBalance(h) PROVE TypeOK'
  BY <1>18 DEF getNativeBalance, Flags
<1>19. ASSUME NEW h \in Handlers, findRecentDrip(h) PROVE TypeOK'
  BY <1>19 DEF findRecentDrip, Flags
<1>20. ASSUME NEW h \in Handlers, dripGas(h) PROVE TypeOK'
  BY <1>20 DEF dripGas, Flags
<1>21. ASSUME NEW h \in Handlers, recordDrip(h) PROVE TypeOK'
  BY <1>21 DEF recordDrip, Flags
<1>22. ASSUME NEW h \in Handlers, skipDrip(h) PROVE TypeOK'
  BY <1>22 DEF skipDrip, Flags
<1>23. ASSUME NEW h \in Handlers, awaitRegistration(h) PROVE TypeOK'
  BY <1>23 DEF awaitRegistration, Flags
<1>24. ASSUME NEW h \in Handlers, isUserRegistered(h) PROVE TypeOK'
  BY <1>24 DEF isUserRegistered, Flags
<1>25. ASSUME NEW h \in Handlers, completeOnboarding(h) PROVE TypeOK'
  BY <1>25 DEF completeOnboarding, Flags
<1>26. ASSUME NEW h \in Handlers, keepAwaiting(h) PROVE TypeOK'
  BY <1>26 DEF keepAwaiting, Flags
<1>27. ASSUME NEW h \in Handlers, enqueueOnboardingAdvance(h) PROVE TypeOK'
  BY <1>27 DEF enqueueOnboardingAdvance, Flags
<1>28. ASSUME NEW h \in Handlers, markOnboardingFailed(h) PROVE TypeOK'
  BY <1>28 DEF markOnboardingFailed, Flags
<1>29. ASSUME NEW h \in Handlers, Finish(h) PROVE TypeOK'
  BY <1>29 DEF Finish, Flags
<1>30. ASSUME NEW h \in Handlers, Throw(h) PROVE TypeOK'
  <2>1. Flags'
    BY <1>30, Zenon DEF Throw, Flags
  <2>2. CASE run[h].try >= RetryLimit /\ pc[h] # "giveUp"
    BY <1>30, <2>1, <2>2 DEF Throw
  <2>3. CASE run[h].try < RetryLimit \/ pc[h] = "giveUp"
    <3>1. job' \in [state : {"none", "active", "retry", "failed"}, try : 0 .. RetryLimit]
      BY <1>30, <2>3 DEF Throw
    <3>2. /\ pc' = [pc EXCEPT ![h] = "idle"]
          /\ run' = [run EXCEPT ![h] = [try |-> 0, mine |-> FALSE]]
      BY <1>30, <2>3 DEF Throw
    <3>3. run' \in [Handlers -> [try : 0 .. RetryLimit, mine : BOOLEAN]]
      BY <3>2
    <3> QED BY <1>30, <2>1, <3>1, <3>2, <3>3 DEF Throw
  <2> QED BY <1>30, <2>2, <2>3 DEF Throw
<1>31. CASE UNCHANGED vars
  BY <1>31 DEF vars, Flags
<1> QED BY <1>1, <1>2, <1>3, <1>4, <1>5, <1>6, <1>7, <1>8, <1>9, <1>10, <1>11, <1>12, <1>13, <1>14, <1>15, <1>16, <1>17, <1>18, <1>19, <1>20, <1>21, <1>22, <1>23, <1>24, <1>25, <1>26, <1>27, <1>28, <1>29, <1>30, <1>31 DEF Next, Advance

-------------------------------------------------------------------------------
(* The other conjuncts hold of a step together: one handler's next move is *)
(* bounded by the row, the job and the other handlers at once.             *)
LEMMA InOrderInit == Init => InOrder
BY BoundsAssumption
   DEF Init, InOrder, OneOwner, KycFirst, RegisteredFirst, DripsRecorded, JobsInOrder,
       EndedIsLeft, Busy, Owns, Dripping, AfterKyc, Terminal

LEMMA InOrderStep ==
  ASSUME IInv, [Next]_vars
  PROVE  InOrder'
<1> USE BoundsAssumption
    DEF IInv, InOrder, TypeOK, Flags, OneOwner, KycFirst, RegisteredFirst, DripsRecorded,
        JobsInOrder, EndedIsLeft, Busy, Owns, Dripping, AfterKyc, Goto, Fault, rows, queue,
        chain, history, upsert, failJob, Losing, NextStep, Write, Terminal, Outstanding

<1>1. CASE EnableMined
  BY <1>1 DEF EnableMined
<1>2. CASE EnableDropped
  BY <1>2 DEF EnableDropped
<1>3. CASE DripMined
  BY <1>3 DEF DripMined
<1>4. CASE SpendGas
  BY <1>4 DEF SpendGas
<1>5. CASE Register
  BY <1>5 DEF Register
<1>6. CASE DayPasses
  BY <1>6 DEF DayPasses
<1>7. CASE startOnboarding
  BY <1>7 DEF startOnboarding
<1>8. CASE Expire
  BY <1>8 DEF Expire
<1>9. CASE ExpireOrphan
  BY <1>9 DEF ExpireOrphan
<1>10. CASE Restart
  BY <1>10 DEF Restart
<1>11. CASE handleOnboardingFailedJob
  BY <1>11 DEF handleOnboardingFailedJob
<1>12. ASSUME NEW h \in Handlers, Deliver(h) PROVE InOrder'
  BY <1>12 DEF Deliver
<1>13. ASSUME NEW h \in Handlers, ReadRow(h) PROVE InOrder'
  BY <1>13 DEF ReadRow
<1>14. ASSUME NEW h \in Handlers, approveMockKyc(h) PROVE InOrder'
  BY <1>14 DEF approveMockKyc
<1>15. ASSUME NEW h \in Handlers, readAllowList(h) PROVE InOrder'
  BY <1>15 DEF readAllowList
<1>16. ASSUME NEW h \in Handlers, setEnabled(h) PROVE InOrder'
  BY <1>16 DEF setEnabled
<1>17. ASSUME NEW h \in Handlers, completeAllowlistStep(h) PROVE InOrder'
  BY <1>17 DEF completeAllowlistStep
<1>18. ASSUME NEW h \in Handlers, getNativeBalance(h) PROVE InOrder'
  BY <1>18 DEF getNativeBalance
<1>19. ASSUME NEW h \in Handlers, findRecentDrip(h) PROVE InOrder'
  BY <1>19 DEF findRecentDrip
<1>20. ASSUME NEW h \in Handlers, dripGas(h) PROVE InOrder'
  BY <1>20 DEF dripGas
<1>21. ASSUME NEW h \in Handlers, recordDrip(h) PROVE InOrder'
  BY <1>21 DEF recordDrip
<1>22. ASSUME NEW h \in Handlers, skipDrip(h) PROVE InOrder'
  BY <1>22 DEF skipDrip
<1>23. ASSUME NEW h \in Handlers, awaitRegistration(h) PROVE InOrder'
  BY <1>23 DEF awaitRegistration
<1>24. ASSUME NEW h \in Handlers, isUserRegistered(h) PROVE InOrder'
  BY <1>24 DEF isUserRegistered
<1>25. ASSUME NEW h \in Handlers, completeOnboarding(h) PROVE InOrder'
  BY <1>25 DEF completeOnboarding
<1>26. ASSUME NEW h \in Handlers, keepAwaiting(h) PROVE InOrder'
  BY <1>26 DEF keepAwaiting
<1>27. ASSUME NEW h \in Handlers, enqueueOnboardingAdvance(h) PROVE InOrder'
  BY <1>27 DEF enqueueOnboardingAdvance
<1>28. ASSUME NEW h \in Handlers, markOnboardingFailed(h) PROVE InOrder'
  BY <1>28 DEF markOnboardingFailed
<1>29. ASSUME NEW h \in Handlers, Finish(h) PROVE InOrder'
  BY <1>29 DEF Finish
<1>30. ASSUME NEW h \in Handlers, Throw(h) PROVE InOrder'
  <2>1. OneOwner'
    BY <1>30 DEF Throw
  <2>2. KycFirst' /\ RegisteredFirst'
    BY <1>30 DEF Throw
  <2>3. DripsRecorded'
    BY <1>30 DEF Throw
  <2>4. JobsInOrder'
    <3>1. CASE run[h].try >= RetryLimit /\ pc[h] # "giveUp"
      BY <1>30, <3>1, SMTT(20) DEF Throw
    <3>2. CASE run[h].try < RetryLimit \/ pc[h] = "giveUp"
      BY <1>30, <3>2, SMTT(20) DEF Throw
    <3> QED BY <1>30, <3>1, <3>2 DEF Throw
  <2>5. EndedIsLeft'
    <3>1. CASE run[h].try >= RetryLimit /\ pc[h] # "giveUp"
      BY <1>30, <3>1, SMTT(20) DEF Throw
    <3>2. CASE run[h].try < RetryLimit \/ pc[h] = "giveUp"
      BY <1>30, <3>2, SMTT(20) DEF Throw
    <3> QED BY <1>30, <3>1, <3>2 DEF Throw
  <2> QED BY <2>1, <2>2, <2>3, <2>4, <2>5 DEF InOrder
<1>31. CASE UNCHANGED vars
  BY <1>31 DEF vars
<1> QED BY <1>1, <1>2, <1>3, <1>4, <1>5, <1>6, <1>7, <1>8, <1>9, <1>10, <1>11, <1>12, <1>13, <1>14, <1>15, <1>16, <1>17, <1>18, <1>19, <1>20, <1>21, <1>22, <1>23, <1>24, <1>25, <1>26, <1>27, <1>28, <1>29, <1>30, <1>31 DEF Next, Advance

THEOREM Invariance == Spec => []IInv
<1>1. Init => IInv
  BY TypeInit, InOrderInit DEF IInv
<1>2. IInv /\ [Next]_vars => IInv'
  BY TypeStep, InOrderStep DEF IInv
<1> QED BY <1>1, <1>2, PTL DEF Spec

-------------------------------------------------------------------------------
(* Rows, jobs, handlers and counters keep their types.                     *)
THEOREM TypeCorrect == Spec => []TypeOK
<1>1. IInv => TypeOK
  BY DEF IInv
<1> QED BY <1>1, Invariance, PTL

(* The network lets in, and the onboarding reports as complete, only users *)
(* that passed KYC and registered, for any number of handlers at once.     *)
THEOREM CompleteMeansOnboarded == Spec => []CompleteIsOnboarded
<1>1. IInv => CompleteIsOnboarded
  BY DEF IInv, InOrder, KycFirst, RegisteredFirst, CompleteIsOnboarded
<1> QED BY <1>1, Invariance, PTL

(* A second drip of a day is always one that could not see the first.      *)
THEOREM DripLimit == Spec => []DripsAreLimited
<1>1. IInv => DripsAreLimited
  BY DEF IInv, InOrder, TypeOK, DripsRecorded, DripsAreLimited
<1> QED BY <1>1, Invariance, PTL

(* An onboarding that ended stays ended while no handler outlives its job, *)
(* unless the last try of a job, or its dead letter, fails it.             *)
THEOREM EndIsFinal == Spec => TerminalIsFinal
<1>1. ASSUME IInv, Next, ~slow, status \in Terminal
      PROVE  status' = status \/ (status' = "failed" /\ job.try = RetryLimit)
  <2> USE <1>1
      DEF IInv, InOrder, TypeOK, OneOwner, JobsInOrder, EndedIsLeft, Busy, Owns, rows,
          Write, Terminal, Outstanding
  <2>1. CASE \E h \in Handlers : markOnboardingFailed(h)
    BY <2>1 DEF markOnboardingFailed
  <2>2. CASE handleOnboardingFailedJob
    BY <2>2 DEF handleOnboardingFailedJob
  <2>3. CASE startOnboarding
    BY <2>3 DEF startOnboarding
  <2>4. CASE \E h \in Handlers : Throw(h) \/ Finish(h) \/ Deliver(h)
    BY <2>4 DEF Throw, Finish, Deliver
  <2>5. CASE EnableMined \/ EnableDropped \/ DripMined \/ SpendGas \/ Register \/ DayPasses
    BY <2>5 DEF EnableMined, EnableDropped, DripMined, SpendGas, Register, DayPasses
  <2>6. CASE Expire \/ ExpireOrphan \/ Restart
    BY <2>6 DEF Expire, ExpireOrphan, Restart
  <2>7. ASSUME NEW h \in Handlers,
               ReadRow(h) \/ readAllowList(h) \/ setEnabled(h) \/ getNativeBalance(h)
               \/ findRecentDrip(h) \/ dripGas(h) \/ isUserRegistered(h)
               \/ enqueueOnboardingAdvance(h)
        PROVE  status' = status
    BY <2>7 DEF ReadRow, readAllowList, setEnabled, getNativeBalance, findRecentDrip,
                dripGas, isUserRegistered, enqueueOnboardingAdvance
  <2>8. ASSUME NEW h \in Handlers,
               approveMockKyc(h) \/ completeAllowlistStep(h) \/ recordDrip(h)
               \/ skipDrip(h) \/ awaitRegistration(h) \/ completeOnboarding(h)
               \/ keepAwaiting(h)
        PROVE  FALSE
    BY <2>8 DEF approveMockKyc, completeAllowlistStep, recordDrip, skipDrip,
                awaitRegistration, completeOnboarding, keepAwaiting
  <2> QED BY <2>1, <2>2, <2>3, <2>4, <2>5, <2>6, <2>7, <2>8 DEF Next, Advance
<1>2. ASSUME IInv, [Next]_vars
      PROVE  [~slow /\ status \in Terminal =>
                status' = status \/ (status' = "failed" /\ job.try = RetryLimit)]_vars
  BY <1>1, <1>2
<1> QED BY <1>2, Invariance, PTL DEF Spec, TerminalIsFinal
===============================================================================

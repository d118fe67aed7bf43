-------------------------------- MODULE Onramp ---------------------------------
(***************************************************************************)
(* The CCTP onramp: intents (onramp/service.ts, routes/onramp.ts and the   *)
(* fund-intent route of routes/orgs.ts), the poller (onramp/poller.ts), its*)
(* relayer (onramp/relayer.ts) and the router contract the relayer calls   *)
(* (BenzoCCTPRouter.sol).                                                  *)
(*                                                                         *)
(* A poll reads a list of intents and then drives them one by one, each    *)
(* step from one await to the next.  A poll that outlives the expiry of its*)
(* job runs on while the next one starts, so several Polls move at once,   *)
(* each with the rows it read.  An exception anywhere ends the poll: Abort.*)
(***************************************************************************)
EXTENDS Naturals, Sequences, SequencesExt

CONSTANTS
  Txs,        \* burn transactions on source chains, unique per intent
  Messages,   \* Messages[t]: the CCTP messages of t, as Iris lists them
  Users,      \* eERC accounts
  Treasuries, \* those of them that belong to an organisation
  Polls,      \* polls that may run at the same time
  NoMessage,  \* cctpNonce = null
  NoTx,
  Forms,      \* what may be wrong with a burn, see below
  Domains,    \* "right": the source domain named with the hash; "wrong"
  PollLimit,  \* intents of one poll
  MaxFaults   \* bound: failed calls, lagging nodes, lost answers, crashes

Burns == UNION {{Messages[t][i] : i \in 1 .. Len(Messages[t])} : t \in Txs}

(* "fit": settleDeposit takes it; "astray": for another domain or recipient*)
(* than the router; "garbled": its hook data do not decode; "otherkey": the*)
(* key in its hook data is not the one its user registered.                *)
ASSUME InputAssumption ==
  /\ Messages \in [Txs -> Seq(Burns)]
  /\ Forms \subseteq {"fit", "astray", "garbled", "otherkey"}
  /\ Domains \subseteq {"right", "wrong"}
ASSUME BoundAssumption == PollLimit \in Nat \ {0} /\ MaxFaults \in Nat
ASSUME UserAssumption == Treasuries \subseteq Users
ASSUME NoneAssumption == NoMessage \notin Burns /\ NoTx \notin Txs

VARIABLES
  intent,      \* the onramp_intents rows, by source transaction
  byUpdate,    \* the intents that are not settled, in the order of updatedAt
  mirrored,    \* fund intents with a row in treasury_deposits
  burn,        \* the burns, and how far Iris is with them
  registered,  \* users registered with the eERC
  used,        \* messages the transmitter has received
  deposited,   \* messages the router turned into a deposit
  pool,        \* settlements in flight
  pc, todo, cur, \* each poll: where it is, intents it still has, intent at hand
  faults

rows  == <<intent, byUpdate, mirrored>>
chain == <<used, deposited, pool>>
world == <<burn, registered>>
local == <<pc, todo, cur>>
vars  == <<rows, world, chain, local, faults>>

Terminal == {"credited", "failed"}

(* minted is left in the transaction that enters it.                       *)
Status == {"none", "initiated", "burned", "attested", "needs_onboarding"} \cup Terminal

Intent == [status : Status, owner : Users \cup {NoMessage}, org : BOOLEAN,
           domain : {"right", "wrong"}, nonce : Burns \cup {NoMessage}]

NoIntent == [status |-> "none", owner |-> NoMessage, org |-> FALSE,
             domain |-> "right", nonce |-> NoMessage]

(* What a poll holds of the intent it works on.                            *)
Work == [tx : Txs \cup {NoTx}, status : Status, message : Burns \cup {NoMessage}]
Idle == [tx |-> NoTx, status |-> "none", message |-> NoMessage]

Read(t) == [tx |-> t, status |-> intent[t].status, message |-> intent[t].nonce]

Stages == {"idle", "next", "pending", "complete", "registry", "fail", "park",
           "attest", "estimate", "send", "wait", "credit"}

TypeOK ==
  /\ intent \in [Txs -> Intent]
  /\ byUpdate \in Seq(Txs)
  /\ mirrored \subseteq Txs
  /\ burn \in [Burns -> [stage : {"none", "pending", "complete"},
                         user : Users \cup {NoMessage},
                         form : Forms \cup {"none"}]]
  /\ registered \subseteq Users
  /\ deposited \subseteq used /\ used \subseteq Burns
  /\ pool \subseteq Polls \X Burns
  /\ pc \in [Polls -> Stages]
  /\ todo \in [Polls -> Seq(Work)]
  /\ cur \in [Polls -> Work]
  /\ faults \in 0 .. MaxFaults

Init ==
  /\ intent = [t \in Txs |-> NoIntent]
  /\ byUpdate = <<>>
  /\ mirrored = {}
  /\ burn = [b \in Burns |-> [stage |-> "none", user |-> NoMessage, form |-> "none"]]
  /\ registered = {}
  /\ used = {} /\ deposited = {} /\ pool = {}
  /\ pc = [p \in Polls |-> "idle"]
  /\ todo = [p \in Polls |-> <<>>]
  /\ cur = [p \in Polls |-> Idle]
  /\ faults = 0

Without(list, t) ==
  IF t \in ToSet(list)
    THEN RemoveAt(list, CHOOSE i \in DOMAIN list : list[i] = t)
    ELSE list

(* Every write of a row also sets its updatedAt; no poll lists a settled   *)
(* intent, and none leaves that status (canTransition).                    *)
Write(t, row) ==
  /\ intent' = [intent EXCEPT ![t] = row]
  /\ byUpdate' = IF row.status \in Terminal
                   THEN Without(byUpdate, t)
                   ELSE Append(Without(byUpdate, t), t)

canTransition(from, to) ==
  to \in CASE from = "initiated" -> {"burned", "needs_onboarding", "failed"}
           [] from = "burned" -> {"attested", "needs_onboarding", "failed"}
           [] from = "attested" -> {"minted", "needs_onboarding", "failed"}
           [] from = "needs_onboarding" -> {"attested", "minted", "credited", "failed"}
           [] OTHER -> {}

-------------------------------------------------------------------------------
(* Users, routes and the source chain.                                     *)

Register(u) ==
  /\ u \notin registered
  /\ registered' = registered \cup {u}
  /\ UNCHANGED <<rows, burn, chain, local, faults>>

(* createIntent by POST /onramp/intents or, for a treasury, by POST        *)
(* /orgs/:id/treasury/fund-intent, both for a registered account; the first*)
(* submission of a hash counts, whoever made it, before or after the burn. *)
CreateIntent(t, u, domain) ==
  /\ u \in registered
  /\ intent[t].status = "none"
  /\ intent' = [intent EXCEPT ![t] = [NoIntent EXCEPT
                  !.status = "initiated", !.owner = u, !.org = u \in Treasuries,
                  !.domain = domain]]
  /\ byUpdate' = Append(byUpdate, t)
  /\ UNCHANGED <<mirrored, world, chain, local, faults>>

BurnsOf(t) == ToSet(Messages[t])

BurnTx(t, user, form) ==
  /\ \A b \in BurnsOf(t) : burn[b].stage = "none"
  /\ burn' = [b \in Burns |->
                IF b \in BurnsOf(t)
                  THEN [stage |-> "pending", user |-> user[b], form |-> form[b]]
                  ELSE burn[b]]
  /\ UNCHANGED <<rows, registered, chain, local, faults>>

AttestBurn(b) ==
  /\ burn[b].stage = "pending"
  /\ burn' = [burn EXCEPT ![b].stage = "complete"]
  /\ UNCHANGED <<rows, registered, chain, local, faults>>

-------------------------------------------------------------------------------
(* The poll.                                                               *)

EndJob(p) ==
  /\ pc' = [pc EXCEPT ![p] = "idle"]
  /\ todo' = [todo EXCEPT ![p] = <<>>]
  /\ cur' = [cur EXCEPT ![p] = Idle]

(* To the next stage with the given work at hand.                          *)
Go(p, stage, work) ==
  /\ pc' = [pc EXCEPT ![p] = stage]
  /\ cur' = [cur EXCEPT ![p] = IF stage = "next" THEN Idle ELSE work]
  /\ UNCHANGED todo

(* Mutant: the status is not compared when the row is written.             *)
transitionIntent_Blind(p, to, row, stage) ==
  /\ Write(cur[p].tx, [row EXCEPT !.status = to])
  /\ Go(p, stage, [cur[p] EXCEPT !.status = to])

(* transitionIntent reads the status again and writes only over what it    *)
(* read; a transition that is not allowed any more throws.                 *)
transitionIntent(p, to, row, stage) ==
  IF canTransition(intent[cur[p].tx].status, to)
    THEN /\ Write(cur[p].tx, [row EXCEPT !.status = to])
         /\ Go(p, stage, [cur[p] EXCEPT !.status = to])
    ELSE EndJob(p) /\ UNCHANGED <<intent, byUpdate>>

(* patchIntent writes whatever the status and returns the row.             *)
patchIntent(p, row, stage) ==
  /\ Write(cur[p].tx, row)
  /\ Go(p, stage, [cur[p] EXCEPT !.status = row.status])

Row(p)     == intent[cur[p].tx]
Message(p) == burn[cur[p].message]

StartPoll(p) ==
  /\ pc[p] = "idle"
  /\ byUpdate # <<>>
  /\ LET list == SubSeq(byUpdate, 1, Min({Len(byUpdate), PollLimit}))
     IN  todo' = [todo EXCEPT ![p] = [i \in DOMAIN list |-> Read(list[i])]]
  /\ pc' = [pc EXCEPT ![p] = "next"]
  /\ UNCHANGED <<rows, world, chain, cur, faults>>

EndPoll(p) ==
  /\ pc[p] = "next" /\ todo[p] = <<>>
  /\ EndJob(p)
  /\ UNCHANGED <<rows, world, chain, faults>>

(* What Iris answers for an intent, as positions in the transaction, and   *)
(* which message the poll then takes.                                      *)
getMessages(t) ==
  {i \in DOMAIN Messages[t] :
     burn[Messages[t][i]].stage # "none" /\ intent[t].domain = "right"}

selectIrisMessage(work) ==
  LET found    == getMessages(work.tx)
      complete == {i \in found : burn[Messages[work.tx][i]].stage = "complete"}
  IN  CASE found = {} -> NoMessage
        [] found # {} /\ work.message # NoMessage -> work.message
        [] found # {} /\ work.message = NoMessage ->
             Messages[work.tx][Min(IF complete # {} THEN complete ELSE found)]

AskIris(p) ==
  /\ pc[p] = "next" /\ todo[p] # <<>>
  /\ LET work    == Head(todo[p])
         message == selectIrisMessage(work)
     IN  IF message = NoMessage
           THEN pc' = pc /\ cur' = cur
           ELSE /\ pc' = [pc EXCEPT ![p] = burn[message].stage]
                /\ cur' = [cur EXCEPT ![p] = [work EXCEPT !.message = message]]
  /\ todo' = [todo EXCEPT ![p] = Tail(@)]
  /\ UNCHANGED <<rows, world, chain, faults>>

markBurned(p) ==
  /\ pc[p] = "pending"
  /\ LET row == [Row(p) EXCEPT !.nonce = cur[p].message]
     IN  IF cur[p].status = "initiated"
           THEN transitionIntent(p, "burned", row, "next")
           ELSE patchIntent(p, row, "next")
  /\ UNCHANGED <<mirrored, world, chain, faults>>

Undecodable(p) ==
  /\ pc[p] = "complete" /\ Message(p).form = "garbled"
  /\ EndJob(p)
  /\ UNCHANGED <<rows, world, chain, faults>>

failIntent(p) ==
  /\ \/ pc[p] = "fail"
     \/ pc[p] = "complete" /\ Message(p).form = "astray"
  /\ IF canTransition(cur[p].status, "failed")
       THEN transitionIntent(p, "failed", Row(p), "next")
       ELSE patchIntent(p, Row(p), "next")
  /\ UNCHANGED <<mirrored, world, chain, faults>>

(* Mutant: the intent stays with whoever submitted it.                     *)
Reassociated_KeepsOwner(p) == [Row(p) EXCEPT !.nonce = cur[p].message]

(* The owner named in the attested burn replaces whoever submitted it.     *)
Reassociated(p) == [Row(p) EXCEPT !.owner = Message(p).user, !.nonce = cur[p].message]

reassociateIntent(p) ==
  /\ pc[p] = "complete" /\ Message(p).form \in {"fit", "otherkey"}
  /\ patchIntent(p, Reassociated(p), "registry")
  /\ UNCHANGED <<mirrored, world, chain, faults>>

resolveUserKey(p) ==
  /\ pc[p] = "registry"
  /\ Go(p, CASE Message(p).user \notin registered -> "park"
             [] Message(p).user \in registered /\ Message(p).form = "otherkey" -> "fail"
             [] OTHER -> "attest", cur[p])
  /\ UNCHANGED <<rows, world, chain, faults>>

Attestation(p) == [Row(p) EXCEPT !.nonce = cur[p].message]

parkNeedsOnboarding(p) ==
  /\ pc[p] = "park"
  /\ IF canTransition(cur[p].status, "needs_onboarding")
       THEN transitionIntent(p, "needs_onboarding", Attestation(p), "next")
       ELSE patchIntent(p, Attestation(p), "next")
  /\ UNCHANGED <<mirrored, world, chain, faults>>

advanceToAttested(p) ==
  /\ pc[p] = "attest"
  /\ CASE cur[p].status = "initiated" ->
            transitionIntent(p, "burned", Attestation(p), "attest")
       [] cur[p].status \in {"burned", "needs_onboarding"} ->
            transitionIntent(p, "attested", Attestation(p), "estimate")
       [] cur[p].status = "attested" ->
            patchIntent(p, Attestation(p), "estimate")
       [] OTHER -> Go(p, "estimate", cur[p]) /\ UNCHANGED <<intent, byUpdate>>
  /\ UNCHANGED <<mirrored, world, chain, faults>>

-------------------------------------------------------------------------------
(* settleDeposit of the relayer: estimate, send, wait.                     *)

(* Mutant: the replay error is an error like any other.                    *)
EstimateGas_NoReplay(p) ==
  /\ pc[p] = "estimate"
  /\ IF cur[p].message \in used THEN EndJob(p) ELSE Go(p, "send", cur[p])
  /\ UNCHANGED <<rows, world, chain, faults>>

(* A used message is taken for a deposit made before.                      *)
EstimateGas(p) ==
  /\ pc[p] = "estimate"
  /\ Go(p, IF cur[p].message \in used THEN "credit" ELSE "send", cur[p])
  /\ UNCHANGED <<rows, world, chain, faults>>

(* The node that estimates lags behind the one that resolved the key.      *)
EstimateLags(p) ==
  /\ pc[p] = "estimate" /\ faults < MaxFaults
  /\ Go(p, "park", cur[p])
  /\ faults' = faults + 1
  /\ UNCHANGED <<rows, world, chain>>

SendSettle(p) ==
  /\ pc[p] = "send"
  /\ pool' = pool \cup {<<p, cur[p].message>>}
  /\ Go(p, "wait", cur[p])
  /\ UNCHANGED <<rows, world, used, deposited, faults>>

(* Mutant: the transmitter does not keep what it has received.             *)
settleDeposit_ForgetsNonce(p, b) ==
  /\ <<p, b>> \in pool
  /\ pool' = pool \ {<<p, b>>}
  /\ deposited' = deposited \cup {b}
  /\ IF pc[p] = "wait" /\ cur[p].message = b
       THEN Go(p, "credit", cur[p]) ELSE UNCHANGED local
  /\ UNCHANGED <<rows, world, used, faults>>

(* BenzoCCTPRouter.settleDeposit, atomic: a used message reverts, and so   *)
(* the wait throws. The estimate has checked recipient and key.            *)
settleDeposit(p, b) ==
  /\ <<p, b>> \in pool
  /\ pool' = pool \ {<<p, b>>}
  /\ IF b \in used
       THEN UNCHANGED <<used, deposited>>
       ELSE used' = used \cup {b} /\ deposited' = deposited \cup {b}
  /\ CASE ~(pc[p] = "wait" /\ cur[p].message = b) -> UNCHANGED local
       [] pc[p] = "wait" /\ cur[p].message = b /\ b \in used -> EndJob(p)
       [] OTHER -> Go(p, "credit", cur[p])
  /\ UNCHANGED <<rows, world, faults>>

(* Mutant: the row of treasury_deposits is written after the commit.       *)
markCredited_NotAtomic(p) ==
  /\ pc[p] = "credit"
  /\ canTransition(Row(p).status, "minted")
  /\ Write(cur[p].tx, [Row(p) EXCEPT !.status = "credited"])
  /\ \/ mirrored' = IF Row(p).org THEN mirrored \cup {cur[p].tx} ELSE mirrored
     \/ UNCHANGED mirrored
  /\ Go(p, "next", cur[p])
  /\ UNCHANGED <<world, chain, faults>>

(* One database transaction: attested to minted to credited, and the row   *)
(* of treasury_deposits if the intent is an org's.  An intent that was     *)
(* settled when it was attested is left as it is.  finalizeTreasuryFunding *)
(* writes no row for an intent without an amount, which reassociation has  *)
(* set by now, or whose token is not configured: the route refuses such an *)
(* intent (orgs.ts:842-850), and that a token is dropped later is left out.*)
markCredited(p) ==
  /\ pc[p] = "credit"
  /\ IF \/ cur[p].status \in Terminal
        \/ canTransition(Row(p).status, "minted")
       THEN /\ IF cur[p].status \in Terminal
                 THEN UNCHANGED <<intent, byUpdate>>
                 ELSE Write(cur[p].tx, [Row(p) EXCEPT !.status = "credited"])
            /\ mirrored' = IF Row(p).org THEN mirrored \cup {cur[p].tx} ELSE mirrored
            /\ Go(p, "next", cur[p])
       ELSE EndJob(p) /\ UNCHANGED rows
  /\ UNCHANGED <<world, chain, faults>>

(* An exception: Iris, a node or the database fails, the wait for the      *)
(* receipt times out, the process dies.                                    *)
Abort(p) ==
  /\ pc[p] # "idle" /\ faults < MaxFaults
  /\ faults' = faults + 1
  /\ EndJob(p)
  /\ UNCHANGED <<rows, world, chain>>

(* receiveForRescue: the owner takes a message settleDeposit would reject. *)
Settleable(b) == burn[b].form = "fit" /\ burn[b].user \in registered

receiveForRescue(b) ==
  /\ burn[b].stage = "complete" /\ burn[b].form # "astray" /\ b \notin used
  /\ ~Settleable(b)
  /\ used' = used \cup {b}
  /\ UNCHANGED <<rows, world, deposited, pool, local, faults>>

-------------------------------------------------------------------------------
Step(p) ==
  \/ StartPoll(p) \/ EndPoll(p) \/ AskIris(p)
  \/ markBurned(p) \/ Undecodable(p) \/ failIntent(p) \/ reassociateIntent(p)
  \/ resolveUserKey(p) \/ parkNeedsOnboarding(p) \/ advanceToAttested(p)
  \/ EstimateGas(p) \/ SendSettle(p) \/ markCredited(p)

Mine == \E p \in Polls, b \in Burns : settleDeposit(p, b)

Next ==
  \/ \E u \in Users : Register(u)
  \/ \E t \in Txs, u \in Users, domain \in Domains : CreateIntent(t, u, domain)
  \/ \E t \in Txs : \E user \in [BurnsOf(t) -> Users], form \in [BurnsOf(t) -> Forms] :
       BurnTx(t, user, form)
  \/ \E b \in Burns : AttestBurn(b) \/ receiveForRescue(b)
  \/ \E p \in Polls : Step(p) \/ EstimateLags(p) \/ Abort(p)
  \/ Mine

(* The poll is a cron job, a poll that runs goes on, the chain mines.      *)
Fairness ==
  /\ \A p \in Polls : WF_vars(Step(p))
  /\ WF_vars(Mine)

Spec == Init /\ [][Next]_vars /\ Fairness

-------------------------------------------------------------------------------
Alone(t) == Len(Messages[t]) = 1

(* A credited intent names a message that has left Circle's transmitter,   *)
(* and its owner is the one the burn was for: polls with stale rows never  *)
(* credit one account for another's burn, nor before the settlement lands. *)
CreditedIsReceived ==
  \A t \in Txs : Alone(t) /\ intent[t].status = "credited" =>
    LET b == intent[t].nonce
    IN  b \in used /\ intent[t].owner = burn[b].user

(* The treasury's history and the intents agree at every commit: an org's  *)
(* intent is credited exactly if the deposit is in treasury_deposits       *)
(* (poller.ts:128-131), as long as its token stays configured.             *)
MirrorAgrees ==
  \A t \in Txs : Alone(t) =>
    (t \in mirrored <=> intent[t].org /\ intent[t].status = "credited")

(* What is settled stays: a poll that read the row before never moves a    *)
(* credited or failed intent, nor the deposit it names.                    *)
SettledStays ==
  [][\A t \in Txs : Alone(t) /\ intent[t].status \in Terminal =>
       intent'[t] = intent[t]]_vars

Obstructs(t) ==
  /\ intent[t].status # "none"
  /\ \/ intent[t].domain = "wrong"
     \/ \E b \in BurnsOf(t) : burn[b].form = "garbled"

Awaited(t) ==
  /\ intent[t].status # "none"
  /\ \A b \in BurnsOf(t) : burn[b].stage = "complete" /\ Settleable(b)

(* An attested burn for a registered user is credited in the end, if its   *)
(* hash was submitted: through failing polls, overlaps, lost answers and   *)
(* parking, unless an intent none of whose polls can end well is in line.  *)
BurnsAreCredited ==
  \A t \in Txs :
    Awaited(t) ~> intent[t].status = "credited" \/ \E s \in Txs : Obstructs(s)

(* The same without the exception: whoever submits a hash first cannot     *)
(* "block the real recipient" (routes/onramp.ts:176).                      *)
SubmissionsNeverBlock ==
  \A t \in Txs : Awaited(t) ~> intent[t].status = "credited"
===============================================================================

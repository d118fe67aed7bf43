------------------------------ MODULE Onramp_Proofs ----------------------------
(***************************************************************************)
(* For any number of burns, intents, polls, users and failures: Onramp     *)
(* keeps its types, credits an intent only for a burn that was received    *)
(* and to the account it was for, writes the treasury's history with the   *)
(* credit, and never moves a settled intent.                               *)
(*                                                                         *)
(* The three properties are not inductive: a poll works on what it read.   *)
(* IInv adds what remains true of that while other polls write the same    *)
(* row (WorkSound), and what each stage has established (StageSound).      *)
(***************************************************************************)
EXTENDS Onramp, FiniteSetTheorems, SequenceTheorems, TLAPS

-------------------------------------------------------------------------------
(* The invariant.                                                          *)

(* The one message of a burn transaction that carries one.                 *)
Only(t) == Messages[t][1]

Known(t, b) == b \in BurnsOf(t) /\ burn[b].stage # "none"

(* The row is the one the burn speaks of.                                  *)
Owned(t) == intent[t].nonce = Only(t) /\ intent[t].owner = burn[Only(t)].user

Later    == {"registry", "fail", "park", "attest", "estimate", "send", "wait", "credit"}
Settling == {"attest", "estimate", "send", "wait", "credit"}

ListSound ==
  /\ \A i, j \in DOMAIN byUpdate : byUpdate[i] = byUpdate[j] => i = j
  /\ \A i \in DOMAIN byUpdate :
       intent[byUpdate[i]].status \notin Terminal \cup {"none"}

RowSound(t) ==
  /\ intent[t].nonce # NoMessage => Known(t, intent[t].nonce)
  /\ Alone(t) =>
       /\ intent[t].status \notin {"none", "initiated", "failed"} =>
            intent[t].nonce = Only(t)
       /\ intent[t].status = "credited" => Only(t) \in used /\ Owned(t)
       /\ intent[t].status = "failed" =>
            /\ burn[Only(t)].stage # "none"
            /\ \/ burn[Only(t)].form = "astray"
               \/ burn[Only(t)].form = "otherkey" /\ Owned(t)
       /\ t \in mirrored <=> intent[t].org /\ intent[t].status = "credited"

(* What a poll has read of an intent is still true of it.                  *)
WorkSound(w) ==
  /\ w.tx \in Txs
  /\ w.status # "none" /\ intent[w.tx].status # "none"
  /\ w.message # NoMessage => Known(w.tx, w.message)
  /\ Alone(w.tx) =>
       /\ w.status # "initiated" => intent[w.tx].nonce = Only(w.tx)
       /\ w.status \in Terminal => intent[w.tx].status = w.status

StageSound(stage, w) ==
  stage \notin {"idle", "next"} =>
    /\ WorkSound(w)
    /\ w.message # NoMessage
    /\ Alone(w.tx) =>
         /\ stage \in Later =>
              Owned(w.tx) /\ burn[Only(w.tx)].form \in {"fit", "otherkey"}
         /\ stage = "fail" => burn[Only(w.tx)].form = "otherkey"
         /\ stage \in Settling => burn[Only(w.tx)].form = "fit"
         /\ stage = "credit" => Only(w.tx) \in used

PollSound(p) ==
  /\ StageSound(pc[p], cur[p])
  /\ \A i \in DOMAIN todo[p] : WorkSound(todo[p][i])

IInv ==
  /\ TypeOK
  /\ ListSound
  /\ \A t \in Txs : RowSound(t)
  /\ \A p \in Polls : PollSound(p)

(* What no step takes away from a poll that runs beside it.                *)
Grows ==
  /\ \A b \in Burns :
       burn[b].stage # "none" =>
         /\ burn'[b].stage # "none"
         /\ burn'[b].user = burn[b].user /\ burn'[b].form = burn[b].form
  /\ used \subseteq used'
  /\ \A t \in Txs :
       intent[t].status # "none" =>
         /\ intent'[t].status # "none"
         /\ Alone(t) =>
              /\ intent[t].nonce = Only(t) => intent'[t].nonce = Only(t)
              /\ Owned(t) => intent'[t].owner = burn[Only(t)].user
              /\ intent[t].status \in Terminal => intent'[t] = intent[t]

-------------------------------------------------------------------------------
(* The messages of a transaction and the list of open intents.             *)

LEMMA MessagesOfTx ==
  ASSUME NEW t \in Txs
  PROVE  /\ Messages[t] \in Seq(Burns)
         /\ BurnsOf(t) \subseteq Burns
         /\ \A i \in DOMAIN Messages[t] : Messages[t][i] \in BurnsOf(t)
         /\ Alone(t) => BurnsOf(t) = {Only(t)} /\ Only(t) \in Burns
<1>1. Messages[t] \in Seq(Burns)
  BY InputAssumption
<1>2. BurnsOf(t) \subseteq Burns
  BY <1>1 DEF BurnsOf, ToSet
<1>3. Alone(t) => BurnsOf(t) = {Only(t)} /\ Only(t) \in Burns
  BY <1>1 DEF Alone, Only, BurnsOf, ToSet
<1> QED BY <1>1, <1>2, <1>3 DEF BurnsOf, ToSet

(* A set of positions has a first one.                                     *)
LEMMA FirstOf ==
  ASSUME NEW n \in Nat, NEW S \in SUBSET (1 .. n), S # {}
  PROVE  Min(S) \in S
<1> DEFINE C == {1 .. i : i \in S}
<1>1. /\ IsFiniteSet(1 .. n)
      /\ IsWellFoundedOn(StrictSubsetOrdering(1 .. n), FiniteSubsetsOf(1 .. n))
  BY FS_Interval, FS_StrictSubsetOrderingWellFounded
<1>2. C \subseteq FiniteSubsetsOf(1 .. n) /\ C # {}
  <2>1. C \subseteq SUBSET (1 .. n) /\ C # {}
    <3>1. \A i \in S : i \in Nat /\ i <= n
      OBVIOUS
    <3>2. \A i \in S : \A x \in 1 .. i : x \in 1 .. n
      BY <3>1
    <3> QED BY <3>2
  <2> HIDE DEF C
  <2>2. \A T \in SUBSET (1 .. n) : IsFiniteSet(T)
    BY <1>1, FS_Subset
  <2> QED BY <2>1, <2>2 DEF FiniteSubsetsOf
<1>3. PICK T \in C : \A U \in C : ~ (<<U, T>> \in StrictSubsetOrdering(1 .. n))
  <2> HIDE DEF C
  <2> QED BY <1>1, <1>2, WFMin
<1>4. PICK i \in S : T = 1 .. i
  OBVIOUS
<1>5. ASSUME NEW j \in S, j < i PROVE FALSE
  <2>1. /\ 1 .. j \in C
        /\ 1 .. j \in SUBSET (1 .. n) /\ 1 .. i \in SUBSET (1 .. n)
        /\ 1 .. j \subseteq 1 .. i /\ i \in 1 .. i /\ i \notin 1 .. j
    BY <1>5
  <2> HIDE DEF C
  <2> QED BY <1>3, <1>4, <2>1 DEF StrictSubsetOrdering
<1>6. \A j \in S : i <= j
  BY <1>5
<1> QED BY <1>6 DEF Min

LEMMA WithoutSeq ==
  ASSUME NEW s \in Seq(Txs), NEW t \in Txs,
         \A i, j \in DOMAIN s : s[i] = s[j] => i = j
  PROVE  /\ Without(s, t) \in Seq(Txs)
         /\ \A i, j \in DOMAIN Without(s, t) :
              Without(s, t)[i] = Without(s, t)[j] => i = j
         /\ \A i \in DOMAIN Without(s, t) :
              Without(s, t)[i] # t /\ \E j \in DOMAIN s : Without(s, t)[i] = s[j]
<1>1. CASE t \notin ToSet(s)
  BY <1>1 DEF Without, ToSet
<1>2. CASE t \in ToSet(s)
  <2>1. PICK k \in DOMAIN s : k = CHOOSE i \in DOMAIN s : s[i] = t
    BY <1>2 DEF ToSet
  <2>2. s[k] = t /\ k \in 1 .. Len(s)
    BY <1>2, <2>1 DEF ToSet
  <2>3. Without(s, t) = SubSeq(s, 1, k - 1) \o SubSeq(s, k + 1, Len(s))
    BY <1>2, <2>1 DEF Without, RemoveAt
  <2> DEFINE a == SubSeq(s, 1, k - 1)
             b == SubSeq(s, k + 1, Len(s))
             r == a \o b
  <2>4. /\ r \in Seq(Txs) /\ Len(r) = Len(s) - 1
        /\ \A i \in 1 .. Len(r) : r[i] = IF i < k THEN s[i] ELSE s[i + 1]
    <3>1. /\ a \in Seq(Txs) /\ Len(a) = k - 1
          /\ \A i \in 1 .. k - 1 : a[i] = s[i]
      BY <2>2
    <3>2. /\ b \in Seq(Txs) /\ Len(b) = Len(s) - k
          /\ \A i \in 1 .. Len(s) - k : b[i] = s[i + k]
      BY <2>2
    <3>3. k \in Nat /\ Len(s) \in Nat /\ 1 <= k /\ k <= Len(s)
      BY <2>2
    <3> HIDE DEF a, b
    <3>4. /\ r \in Seq(Txs) /\ Len(r) = Len(a) + Len(b)
          /\ \A i \in 1 .. Len(r) :
               r[i] = IF i <= Len(a) THEN a[i] ELSE b[i - Len(a)]
      <4>1. /\ a \o b \in Seq(Txs) /\ Len(a \o b) = Len(a) + Len(b)
            /\ \A i \in 1 .. Len(a) + Len(b) :
                 (a \o b)[i] = IF i <= Len(a) THEN a[i] ELSE b[i - Len(a)]
        <5>1. a \in Seq(Txs) /\ b \in Seq(Txs)
          BY <3>1, <3>2
        <5> HIDE DEF r
        <5>2. a \o b \in Seq(Txs)
          BY <5>1, ConcatProperties
        <5>3. Len(a \o b) = Len(a) + Len(b)
          BY <5>1, ConcatProperties
        <5>4. ASSUME NEW i \in 1 .. Len(a) + Len(b)
              PROVE  (a \o b)[i] = IF i <= Len(a) THEN a[i] ELSE b[i - Len(a)]
          BY <5>1, ConcatProperties
        <5> QED BY <5>2, <5>3, <5>4
      <4> QED BY <4>1
    <3> HIDE DEF r
    <3>5. Len(r) = Len(s) - 1
      BY <3>1, <3>2, <3>3, <3>4
    <3>6. ASSUME NEW i \in 1 .. Len(r)
          PROVE  r[i] = IF i < k THEN s[i] ELSE s[i + 1]
      <4>1. CASE i < k
        BY <3>1, <3>3, <3>4, <4>1
      <4>2. CASE ~(i < k)
        <5>1. i - (k - 1) \in 1 .. Len(s) - k /\ (i - (k - 1)) + k = i + 1
          BY <3>3, <3>5, <4>2
        <5>2. r[i] = b[i - (k - 1)]
          BY <3>1, <3>3, <3>4, <4>2
        <5> QED BY <3>2, <4>2, <5>1, <5>2
      <4> QED BY <4>1, <4>2
    <3> QED BY <3>4, <3>5, <3>6
  <2> HIDE DEF r
  <2>5. \A i, j \in 1 .. Len(r) : r[i] = r[j] => i = j
    <3> SUFFICES ASSUME NEW i \in 1 .. Len(r), NEW j \in 1 .. Len(r), r[i] = r[j]
                 PROVE  i = j
      OBVIOUS
    <3> DEFINE at(x) == IF x < k THEN x ELSE x + 1
    <3>1. at(i) \in DOMAIN s /\ at(j) \in DOMAIN s
      BY <2>2, <2>4
    <3>2. s[at(i)] = s[at(j)]
      BY <2>4
    <3>3. at(i) = at(j)
      <4> HIDE DEF at
      <4> QED BY <3>1, <3>2
    <3> QED BY <2>2, <3>3
  <2>6. \A i \in 1 .. Len(r) : r[i] # t /\ \E j \in DOMAIN s : r[i] = s[j]
    BY <2>2, <2>4
  <2>7. Without(s, t) = r /\ DOMAIN r = 1 .. Len(r)
    BY <2>3, <2>4 DEF r, a, b
  <2> QED BY <2>4, <2>5, <2>6, <2>7
<1> QED BY <1>1, <1>2

(* A write keeps the list of the open intents.                             *)
LEMMA WriteKeepsList ==
  ASSUME TypeOK, ListSound, NEW t \in Txs, NEW row \in Intent,
         row.status # "none", Write(t, row)
  PROVE  ListSound' /\ byUpdate' \in Seq(Txs) /\ intent' \in [Txs -> Intent]
<1>1. PICK s \in Seq(Txs) : s = byUpdate /\ \A i, j \in DOMAIN s : s[i] = s[j] => i = j
  BY DEF TypeOK, ListSound
<1>2. PICK r \in Seq(Txs) :
        /\ r = Without(s, t)
        /\ \A i, j \in DOMAIN r : r[i] = r[j] => i = j
        /\ \A i \in DOMAIN r : r[i] # t /\ \E j \in DOMAIN s : r[i] = s[j]
  BY <1>1, WithoutSeq
<1>3. intent' = [intent EXCEPT ![t] = row] /\ intent \in [Txs -> Intent]
  BY DEF Write, TypeOK
<1>4. \A i \in DOMAIN r : /\ r[i] \in Txs /\ r[i] # t
                          /\ intent[r[i]].status \notin Terminal \cup {"none"}
  BY <1>1, <1>2 DEF ListSound
<1>5. \A i \in DOMAIN r : intent'[r[i]].status \notin Terminal \cup {"none"}
  BY <1>3, <1>4
<1>6. CASE row.status \in Terminal
  <2>1. byUpdate' = r
    BY <1>1, <1>2, <1>6 DEF Write
  <2> QED BY <1>2, <1>3, <1>5, <2>1 DEF ListSound
<1>7. CASE row.status \notin Terminal
  <2>1. byUpdate' = Append(r, t)
    BY <1>1, <1>2, <1>7 DEF Write
  <2> DEFINE q == Append(r, t)
  <2>2. /\ q \in Seq(Txs) /\ Len(q) = Len(r) + 1
        /\ \A i \in 1 .. Len(q) : q[i] = IF i = Len(q) THEN t ELSE r[i]
        /\ DOMAIN r = 1 .. Len(r) /\ DOMAIN q = 1 .. Len(q)
    OBVIOUS
  <2> HIDE DEF q
  <2>3. \A i, j \in DOMAIN q : q[i] = q[j] => i = j
    BY <1>2, <2>2
  <2>4. \A i \in DOMAIN q : intent'[q[i]].status \notin Terminal \cup {"none"}
    BY <1>3, <1>5, <1>7, <2>2
  <2>5. byUpdate' = q
    BY <2>1 DEF q
  <2> QED BY <1>3, <2>2, <2>3, <2>4, <2>5 DEF ListSound
<1> QED BY <1>6, <1>7

-------------------------------------------------------------------------------
(* What a step leaves alone stays sound.                                   *)

LEMMA WorkKept ==
  ASSUME IInv, Grows
  PROVE  \A w \in Work : WorkSound(w) => WorkSound(w)'
<1> SUFFICES ASSUME NEW w \in Work, WorkSound(w) PROVE WorkSound(w)'
  OBVIOUS
<1>1. w.tx \in Txs /\ intent[w.tx].status # "none" /\ w.status # "none"
  BY DEF WorkSound
<1>2. w.message # NoMessage => Known(w.tx, w.message)'
  BY <1>1, MessagesOfTx DEF WorkSound, Known, Grows
<1>3. ASSUME Alone(w.tx)
      PROVE  /\ w.status # "initiated" => intent'[w.tx].nonce = Only(w.tx)
             /\ w.status \in Terminal => intent'[w.tx].status = w.status
  BY <1>1, <1>3 DEF WorkSound, Grows
<1>4. intent'[w.tx].status # "none"
  BY <1>1 DEF Grows
<1> QED BY <1>1, <1>2, <1>3, <1>4 DEF WorkSound

LEMMA OwnedKept ==
  ASSUME IInv, Grows, NEW t \in Txs, Alone(t), intent[t].status # "none",
         burn[Only(t)].stage # "none", Owned(t)
  PROVE  Owned(t)'
BY MessagesOfTx DEF Owned, Grows

LEMMA StageKept ==
  ASSUME IInv, Grows
  PROVE  \A stage \in Stages, w \in Work :
           StageSound(stage, w) => StageSound(stage, w)'
<1> SUFFICES ASSUME NEW stage \in Stages, NEW w \in Work, StageSound(stage, w),
                    stage \notin {"idle", "next"}
             PROVE  StageSound(stage, w)'
  BY DEF StageSound
<1>1. WorkSound(w) /\ w.message # NoMessage /\ WorkSound(w)'
  BY WorkKept DEF StageSound
<1>2. ASSUME Alone(w.tx)
      PROVE  /\ stage \in Later =>
                  Owned(w.tx)' /\ burn'[Only(w.tx)].form \in {"fit", "otherkey"}
             /\ stage = "fail" => burn'[Only(w.tx)].form = "otherkey"
             /\ stage \in Settling => burn'[Only(w.tx)].form = "fit"
             /\ stage = "credit" => Only(w.tx) \in used'
  <2>1. /\ w.tx \in Txs /\ intent[w.tx].status # "none"
        /\ Only(w.tx) \in Burns /\ burn[Only(w.tx)].stage # "none"
    BY <1>1, <1>2, MessagesOfTx DEF WorkSound, Known
  <2>2. /\ burn'[Only(w.tx)].form = burn[Only(w.tx)].form
        /\ used \subseteq used'
    BY <2>1 DEF Grows
  <2>3. stage \in Later => Owned(w.tx)'
    BY <1>2, <2>1, OwnedKept DEF StageSound
  <2> QED BY <1>2, <2>2, <2>3 DEF StageSound
<1> QED BY <1>1, <1>2 DEF StageSound

LEMMA OthersKept ==
  ASSUME IInv, TypeOK', Grows, NEW q \in Polls,
         pc'[q] = pc[q], cur'[q] = cur[q], todo'[q] = todo[q]
  PROVE  PollSound(q)'
<1>1. PICK stage \in Stages, w \in Work, list \in Seq(Work) :
        stage = pc[q] /\ w = cur[q] /\ list = todo[q]
  BY DEF IInv, TypeOK
<1>2. StageSound(stage, w) /\ \A i \in DOMAIN list : WorkSound(list[i])
  BY <1>1 DEF IInv, PollSound
<1>3. StageSound(stage, w)'
  BY <1>2, StageKept
<1>4. \A i \in DOMAIN list : WorkSound(list[i])'
  BY <1>2, WorkKept
<1> QED BY <1>1, <1>3, <1>4 DEF PollSound

LEMMA RowKept ==
  ASSUME IInv, Grows, NEW t \in Txs, intent'[t] = intent[t],
         t \in mirrored' <=> t \in mirrored
  PROVE  RowSound(t)'
<1>1. RowSound(t) /\ intent[t] \in Intent
  BY DEF IInv, TypeOK
<1>2. intent'[t].nonce # NoMessage => Known(t, intent[t].nonce)'
  <2> SUFFICES ASSUME intent[t].nonce # NoMessage
               PROVE  Known(t, intent[t].nonce)'
    OBVIOUS
  <2>1. PICK b \in Burns : b = intent[t].nonce /\ b \in BurnsOf(t) /\ burn[b].stage # "none"
    BY <1>1, MessagesOfTx DEF RowSound, Known
  <2>2. burn'[b].stage # "none"
    BY <2>1 DEF Grows
  <2> QED BY <2>1, <2>2 DEF Known
<1>3. ASSUME Alone(t)
      PROVE  /\ intent[t].status \notin {"none", "initiated", "failed"} =>
                  intent[t].nonce = Only(t)
             /\ intent[t].status = "credited" => Only(t) \in used' /\ Owned(t)'
             /\ intent[t].status = "failed" =>
                  /\ burn'[Only(t)].stage # "none"
                  /\ \/ burn'[Only(t)].form = "astray"
                     \/ burn'[Only(t)].form = "otherkey" /\ Owned(t)'
             /\ t \in mirrored <=> intent[t].org /\ intent[t].status = "credited"
  <2>1. Only(t) \in Burns /\ NoMessage \notin Burns
    BY <1>3, MessagesOfTx, NoneAssumption
  <2>2. CASE burn[Only(t)].stage = "none"
    <3>1. intent[t].nonce # Only(t)
      BY <1>1, <2>1, <2>2 DEF RowSound, Known
    <3>2. intent[t].status \notin {"credited"}
      BY <1>1, <1>3, <3>1 DEF RowSound, Owned
    <3>3. intent[t].status # "failed"
      BY <1>1, <1>3, <2>2 DEF RowSound
    <3> QED BY <1>1, <1>3, <3>2, <3>3 DEF RowSound
  <2>3. CASE burn[Only(t)].stage # "none"
    <3>1. /\ burn'[Only(t)].form = burn[Only(t)].form
          /\ burn'[Only(t)].stage # "none"
          /\ used \subseteq used'
      BY <2>1, <2>3 DEF Grows
    <3>2. intent[t].status # "none" /\ Owned(t) => Owned(t)'
      BY <1>3, <2>3, OwnedKept
    <3> QED BY <1>1, <1>3, <3>1, <3>2 DEF RowSound
  <2> QED BY <2>2, <2>3
<1> QED BY <1>1, <1>2, <1>3 DEF RowSound

(* What keeps the invariant: the rows and this poll's own work.            *)
LEMMA StepSound ==
  ASSUME IInv, TypeOK', ListSound', Grows, NEW p \in Polls, PollSound(p)',
         \A q \in Polls \ {p} :
           pc'[q] = pc[q] /\ cur'[q] = cur[q] /\ todo'[q] = todo[q],
         \A t \in Txs : RowSound(t)'
  PROVE  IInv'
<1>1. ASSUME NEW q \in Polls PROVE PollSound(q)'
  <2>1. CASE q = p
    BY <2>1
  <2>2. CASE q # p
    BY <2>2, OthersKept
  <2> QED BY <2>1, <2>2
<1> QED BY <1>1 DEF IInv

LEMMA Quiet ==
  ASSUME UNCHANGED <<intent, burn, used>> PROVE Grows
BY DEF Grows, Owned

(* To the next stage, or out of the poll, with the rows as they are.       *)
LEMMA MoveSound ==
  ASSUME IInv, NEW p \in Polls, NEW stage \in Stages, NEW w \in Work,
         NEW list \in Seq(Work), \A i \in DOMAIN list : WorkSound(list[i]),
         StageSound(stage, w)',
         Grows, UNCHANGED <<rows, burn, registered>>, used' \subseteq Burns,
         deposited' \subseteq used', pool' \subseteq Polls \X Burns,
         faults' \in 0 .. MaxFaults,
         pc' = [pc EXCEPT ![p] = stage], cur' = [cur EXCEPT ![p] = w],
         todo' = [todo EXCEPT ![p] = list]
  PROVE  IInv'
<1>1. TypeOK'
  BY DEF IInv, TypeOK, rows
<1>2. ListSound'
  BY DEF IInv, ListSound, rows
<1>3. \A t \in Txs : RowSound(t)'
  BY RowKept DEF rows
<1>4. /\ pc'[p] = stage /\ cur'[p] = w /\ todo'[p] = list
      /\ \A q \in Polls \ {p} :
           pc'[q] = pc[q] /\ cur'[q] = cur[q] /\ todo'[q] = todo[q]
  BY DEF IInv, TypeOK
<1>5. \A i \in DOMAIN list : WorkSound(list[i])'
  BY WorkKept
<1>6. PollSound(p)'
  BY <1>4, <1>5 DEF PollSound
<1> QED BY <1>1, <1>2, <1>3, <1>4, <1>6, StepSound

LEMMA IdleWork == Idle \in Work /\ <<>> \in Seq(Work)
BY DEF Idle, Work, Status

LEMMA EndSound ==
  ASSUME IInv, NEW p \in Polls, EndJob(p), UNCHANGED <<rows, world>>,
         Grows, used' \subseteq Burns,
         deposited' \subseteq used', pool' \subseteq Polls \X Burns,
         faults' \in 0 .. MaxFaults
  PROVE  IInv'
<1>1. StageSound("idle", Idle)' /\ "idle" \in Stages
  BY DEF StageSound, Stages
<1>2. PICK list \in Seq(Work) : list = <<>> /\ \A i \in DOMAIN list : WorkSound(list[i])
  <2>1. <<>> \in Seq(Work) /\ DOMAIN <<>> = {}
    OBVIOUS
  <2> QED BY <2>1
<1>3. /\ pc' = [pc EXCEPT ![p] = "idle"] /\ cur' = [cur EXCEPT ![p] = Idle]
      /\ todo' = [todo EXCEPT ![p] = list] /\ UNCHANGED <<burn, registered>>
  BY <1>2 DEF EndJob, world
<1> QED BY <1>1, <1>2, <1>3, IdleWork, MoveSound

LEMMA GoSound ==
  ASSUME IInv, NEW p \in Polls, NEW stage \in Stages, NEW w \in Work,
         Go(p, stage, w), StageSound(stage, w)',
         UNCHANGED <<rows, world>>, Grows, used' \subseteq Burns,
         deposited' \subseteq used', pool' \subseteq Polls \X Burns,
         faults' \in 0 .. MaxFaults
  PROVE  IInv'
<1>1. PICK list \in Seq(Work) : list = todo[p] /\ todo \in [Polls -> Seq(Work)]
  BY DEF IInv, TypeOK
<1>2. todo' = [todo EXCEPT ![p] = list] /\ \A i \in DOMAIN list : WorkSound(list[i])
  BY <1>1 DEF Go, IInv, PollSound
<1>3. CASE stage = "next"
  <2>1. StageSound(stage, Idle)' /\ cur' = [cur EXCEPT ![p] = Idle]
    BY <1>3 DEF StageSound, Go
  <2> QED BY <1>2, <2>1, IdleWork, MoveSound DEF Go, world
<1>4. CASE stage # "next"
  <2>1. cur' = [cur EXCEPT ![p] = w]
    BY <1>4 DEF Go
  <2> QED BY <1>2, <2>1, MoveSound DEF Go, world
<1> QED BY <1>3, <1>4

(* What a poll may write over the row of t.                                *)
RowOK(t, row) ==
  /\ row \in Intent
  /\ row.status # "none" /\ intent[t].status # "none"
  /\ row.org = intent[t].org
  /\ row.nonce # NoMessage => Known(t, row.nonce)
  /\ Alone(t) =>
       /\ row.status \notin {"initiated", "failed"} => row.nonce = Only(t)
       /\ intent[t].nonce = Only(t) => row.nonce = Only(t)
       /\ Owned(t) => row.owner = burn[Only(t)].user
       /\ row.status = "credited" =>
            Only(t) \in used /\ row.nonce = Only(t) /\ row.owner = burn[Only(t)].user
       /\ row.status = "failed" =>
            /\ burn[Only(t)].stage # "none"
            /\ \/ burn[Only(t)].form = "astray"
               \/ /\ burn[Only(t)].form = "otherkey"
                  /\ row.nonce = Only(t) /\ row.owner = burn[Only(t)].user
       /\ intent[t].status \in Terminal => row = intent[t]

LEMMA WriteSound ==
  ASSUME IInv, NEW p \in Polls, NEW t \in Txs, NEW row, RowOK(t, row),
         Write(t, row), NEW stage \in Stages, NEW w \in Work,
         Go(p, stage, w), StageSound(stage, w)',
         UNCHANGED <<world, chain, faults>>,
         mirrored' = mirrored \/ mirrored' = mirrored \cup {t},
         Alone(t) => (t \in mirrored' <=> row.org /\ row.status = "credited")
  PROVE  IInv' /\ Grows
<1>1. /\ intent' = [intent EXCEPT ![t] = row] /\ row \in Intent
      /\ row.status # "none" /\ intent \in [Txs -> Intent]
  BY DEF Write, RowOK, IInv, TypeOK
<1>2. ListSound' /\ byUpdate' \in Seq(Txs) /\ intent' \in [Txs -> Intent]
  BY <1>1, WriteKeepsList DEF IInv
<1>3. intent'[t] = row /\ \A s \in Txs \ {t} : intent'[s] = intent[s]
  BY <1>1
<1>4. Grows
  <2>1. ASSUME NEW s \in Txs, intent[s].status # "none"
        PROVE  /\ intent'[s].status # "none"
               /\ Alone(s) =>
                    /\ intent[s].nonce = Only(s) => intent'[s].nonce = Only(s)
                    /\ Owned(s) => intent'[s].owner = burn[Only(s)].user
                    /\ intent[s].status \in Terminal => intent'[s] = intent[s]
    <3>1. CASE s = t
      BY <1>3, <2>1, <3>1 DEF RowOK
    <3>2. CASE s # t
      BY <1>3, <2>1, <3>2 DEF Owned
    <3> QED BY <3>1, <3>2
  <2> QED BY <2>1 DEF Grows, world, chain
<1>5. mirrored' \subseteq Txs /\ \A s \in Txs \ {t} : s \in mirrored' <=> s \in mirrored
  BY DEF IInv, TypeOK
<1>6. RowSound(t)'
  BY <1>3 DEF RowOK, RowSound, Owned, Known, world, chain
<1>7. \A s \in Txs : RowSound(s)'
  <2>1. ASSUME NEW s \in Txs, s # t PROVE RowSound(s)'
    BY <1>3, <1>4, <1>5, <2>1, RowKept
  <2> QED BY <1>6, <2>1
<1>8. PICK v \in Work : cur' = [cur EXCEPT ![p] = v] /\ StageSound(stage, v)'
  <2>1. CASE stage = "next"
    BY <2>1, IdleWork DEF Go, StageSound
  <2>2. CASE stage # "next"
    BY <2>2 DEF Go
  <2> QED BY <2>1, <2>2
<1>9. /\ pc' = [pc EXCEPT ![p] = stage] /\ UNCHANGED todo
  BY DEF Go
<1>10. TypeOK'
  <2>1. pc' \in [Polls -> Stages] /\ cur' \in [Polls -> Work]
    BY <1>8, <1>9 DEF IInv, TypeOK
  <2> QED BY <1>2, <1>5, <1>9, <2>1 DEF IInv, TypeOK, world, chain
<1>11. /\ pc'[p] = stage /\ cur'[p] = v
       /\ \A q \in Polls \ {p} : pc'[q] = pc[q] /\ cur'[q] = cur[q]
  BY <1>8, <1>9 DEF IInv, TypeOK
<1>12. PollSound(p)'
  <2>1. PICK list \in Seq(Work) : list = todo[p] /\ list = todo'[p]
    BY <1>9 DEF IInv, TypeOK
  <2>2. \A i \in DOMAIN list : WorkSound(list[i])
    BY <2>1 DEF IInv, PollSound
  <2>3. \A i \in DOMAIN list : WorkSound(list[i])'
    BY <1>4, <2>2, WorkKept
  <2> QED BY <1>8, <1>11, <2>1, <2>3 DEF PollSound
<1>13. IInv'
  BY <1>2, <1>4, <1>7, <1>9, <1>10, <1>11, <1>12, StepSound
<1> QED BY <1>4, <1>13

-------------------------------------------------------------------------------
(* The writes of a poll.                                                   *)

LEMMA AtHand ==
  ASSUME IInv, NEW p \in Polls, pc[p] \notin {"idle", "next"}
  PROVE  \E w \in Work, t \in Txs, b \in Burns :
           /\ w = cur[p] /\ t = w.tx /\ b = w.message
           /\ b \in BurnsOf(t) /\ burn[b].stage # "none"
           /\ StageSound(pc[p], w) /\ WorkSound(w)
           /\ RowSound(t) /\ intent[t] \in Intent /\ intent[t].status # "none"
           /\ Alone(t) => b = Only(t)
<1>1. PICK w \in Work : w = cur[p] /\ StageSound(pc[p], w)
  BY DEF IInv, TypeOK, PollSound
<1>2. WorkSound(w) /\ w.message # NoMessage
  BY <1>1 DEF StageSound
<1>3. PICK t \in Txs : t = w.tx /\ intent[t].status # "none" /\ Known(t, w.message)
  BY <1>2 DEF WorkSound
<1>4. PICK b \in Burns : b = w.message /\ b \in BurnsOf(t) /\ burn[b].stage # "none"
  BY <1>3, MessagesOfTx DEF Known
<1>5. Alone(t) => b = Only(t)
  BY <1>4, MessagesOfTx
<1> QED BY <1>1, <1>2, <1>3, <1>4, <1>5 DEF IInv, TypeOK

LEMMA NotFromTerminal ==
  ASSUME NEW from \in Status, NEW to, canTransition(from, to)
  PROVE  from \notin Terminal \cup {"none"}
BY DEF canTransition, Status, Terminal

LEMMA TransitionSound ==
  ASSUME IInv, NEW p \in Polls, NEW w \in Work, w = cur[p],
         NEW t \in Txs, t = w.tx, NEW to \in Status \ {"none", "credited"},
         NEW row \in Intent, NEW stage \in Stages,
         transitionIntent(p, to, row, stage), UNCHANGED <<mirrored, world, chain, faults>>,
         canTransition(intent[t].status, to) => RowOK(t, [row EXCEPT !.status = to]),
         canTransition(intent[t].status, to) /\ Grows
           /\ intent'[t] = [row EXCEPT !.status = to]
           => StageSound(stage, [w EXCEPT !.status = to])'
  PROVE  IInv' /\ Grows
<1>1. used' \subseteq Burns /\ deposited' \subseteq used' /\ pool' \subseteq Polls \X Burns
      /\ faults' \in 0 .. MaxFaults
  BY DEF IInv, TypeOK, chain
<1>2. CASE ~canTransition(intent[t].status, to)
  <2>1. EndJob(p) /\ UNCHANGED rows
    BY <1>2 DEF transitionIntent, rows
  <2>2. Grows
    BY <2>1, Quiet DEF rows, world, chain
  <2> QED BY <1>1, <2>1, <2>2, EndSound
<1>3. CASE canTransition(intent[t].status, to)
  <2> DEFINE new == [row EXCEPT !.status = to]
             v   == [w EXCEPT !.status = to]
  <2>1. Write(t, new) /\ Go(p, stage, v) /\ RowOK(t, new)
    BY <1>3 DEF transitionIntent
  <2>2. new.status = to /\ v \in Work
    BY DEF Intent, Work
  <2>3. intent[t].status \notin Terminal \cup {"none"} /\ RowSound(t)
    BY <1>3, NotFromTerminal DEF IInv, TypeOK, Intent
  <2>4. Alone(t) => (t \in mirrored' <=> new.org /\ new.status = "credited")
    BY <2>2, <2>3 DEF RowSound, Terminal
  <2>5. intent'[t] = new
    BY <2>1 DEF Write, IInv, TypeOK
  <2>6. Grows
    <3>1. intent' = [intent EXCEPT ![t] = new] /\ intent \in [Txs -> Intent]
      BY <2>1 DEF Write, IInv, TypeOK
    <3>2. \A s \in Txs \ {t} : intent'[s] = intent[s]
      BY <3>1
    <3> HIDE DEF new
    <3> QED BY <2>1, <2>5, <3>2 DEF Grows, RowOK, Owned, world, chain
  <2>7. StageSound(stage, v)'
    BY <1>3, <2>5, <2>6
  <2> HIDE DEF new, v
  <2> QED BY <2>1, <2>2, <2>4, <2>7, WriteSound
<1> QED BY <1>2, <1>3

LEMMA PatchSound ==
  ASSUME IInv, NEW p \in Polls, NEW w \in Work, w = cur[p],
         NEW t \in Txs, t = w.tx, NEW row \in Intent, NEW stage \in Stages,
         patchIntent(p, row, stage), UNCHANGED <<mirrored, world, chain, faults>>,
         RowOK(t, row), row.status = intent[t].status,
         Grows /\ intent'[t] = row
           => StageSound(stage, [w EXCEPT !.status = row.status])'
  PROVE  IInv' /\ Grows
<1> DEFINE v == [w EXCEPT !.status = row.status]
<1>1. Write(t, row) /\ Go(p, stage, v)
  BY DEF patchIntent
<1>2. v \in Work
  BY DEF Intent, Work
<1>3. Alone(t) => (t \in mirrored' <=> row.org /\ row.status = "credited")
  BY DEF RowSound, RowOK, IInv
<1>4. intent'[t] = row /\ \A s \in Txs \ {t} : intent'[s] = intent[s]
  BY <1>1 DEF Write, IInv, TypeOK
<1>5. Grows
  BY <1>4 DEF Grows, RowOK, Owned, world, chain
<1>6. StageSound(stage, v)'
  BY <1>4, <1>5
<1> HIDE DEF v
<1> QED BY <1>1, <1>2, <1>3, <1>6, WriteSound

(* Naming the message and moving on from an open status.                   *)
LEMMA NextStatusOK ==
  ASSUME IInv, NEW t \in Txs, NEW b \in Burns, b \in BurnsOf(t),
         burn[b].stage # "none", Alone(t) => b = Only(t),
         intent[t].status \notin Terminal \cup {"none"},
         NEW to \in {"burned", "attested", "needs_onboarding"}
  PROVE  RowOK(t, [[intent[t] EXCEPT !.nonce = b] EXCEPT !.status = to])
<1> DEFINE row == [[intent[t] EXCEPT !.nonce = b] EXCEPT !.status = to]
<1>1. intent[t] \in Intent
  BY DEF IInv, TypeOK
<1>2. /\ row \in Intent /\ row.status = to /\ row.nonce = b
      /\ row.owner = intent[t].owner /\ row.org = intent[t].org
  BY <1>1 DEF Intent, Status
<1> HIDE DEF row
<1>3. RowOK(t, row)
  BY <1>2, MessagesOfTx DEF RowOK, Known, Owned
<1> QED BY <1>3 DEF row

(* Naming the message again.                                               *)
LEMMA SameStatusOK ==
  ASSUME IInv, NEW t \in Txs, NEW b \in Burns, b \in BurnsOf(t),
         burn[b].stage # "none", intent[t].status # "none",
         Alone(t) => b = Only(t) /\ intent[t].nonce = Only(t)
  PROVE  /\ RowOK(t, [intent[t] EXCEPT !.nonce = b])
         /\ [intent[t] EXCEPT !.nonce = b] \in Intent
<1> DEFINE row == [intent[t] EXCEPT !.nonce = b]
<1>1. intent[t] \in Intent /\ RowSound(t)
  BY DEF IInv, TypeOK
<1>2. /\ row \in Intent /\ row.status = intent[t].status /\ row.nonce = b
      /\ row.owner = intent[t].owner /\ row.org = intent[t].org
      /\ intent[t].nonce = b => row = intent[t]
  BY <1>1 DEF Intent
<1> HIDE DEF row
<1>3. RowOK(t, row)
  BY <1>1, <1>2, MessagesOfTx DEF RowOK, RowSound, Known, Owned
<1> QED BY <1>2, <1>3 DEF row

(* Writing the row as it is.                                               *)
LEMMA SameRowOK ==
  ASSUME IInv, NEW t \in Txs, intent[t].status # "none"
  PROVE  RowOK(t, intent[t])
<1>1. intent[t] \in Intent /\ RowSound(t)
  BY DEF IInv, TypeOK
<1> QED BY <1>1 DEF RowOK, RowSound, Owned

-------------------------------------------------------------------------------
(* The stages that write.                                                  *)

LEMMA StageNext == "next" \in Stages /\ \A w : StageSound("next", w)
BY DEF Stages, StageSound

(* A row that names the message.                                           *)
LEMMA Naming ==
  ASSUME IInv, NEW t \in Txs, NEW b \in Burns
  PROVE  \E row \in Intent :
           /\ row = [intent[t] EXCEPT !.nonce = b]
           /\ row.status = intent[t].status /\ row.nonce = b
           /\ row.owner = intent[t].owner /\ row.org = intent[t].org
<1> DEFINE new == [intent[t] EXCEPT !.nonce = b]
<1>1. intent[t] \in Intent
  BY DEF IInv, TypeOK
<1>2. new \in Intent
  BY <1>1 DEF Intent
<1>3. /\ new.status = intent[t].status /\ new.nonce = b
      /\ new.owner = intent[t].owner /\ new.org = intent[t].org
  BY <1>1 DEF Intent
<1> QED BY <1>2, <1>3

LEMMA MarkBurnedSound ==
  ASSUME IInv, NEW p \in Polls, markBurned(p) PROVE IInv' /\ Grows
<1>1. PICK w \in Work, t \in Txs, b \in Burns :
        /\ w = cur[p] /\ t = w.tx /\ b = w.message
        /\ b \in BurnsOf(t) /\ burn[b].stage # "none"
        /\ WorkSound(w) /\ intent[t] \in Intent /\ intent[t].status # "none"
        /\ Alone(t) => b = Only(t)
  BY AtHand DEF markBurned
<1>2. PICK row \in Intent :
        row = [intent[t] EXCEPT !.nonce = b] /\ row.status = intent[t].status
  BY <1>1, Naming
<1>3. UNCHANGED <<mirrored, world, chain, faults>>
  BY DEF markBurned
<1>4. CASE w.status = "initiated"
  <2>1. transitionIntent(p, "burned", row, "next")
    BY <1>1, <1>2, <1>4 DEF markBurned, Row
  <2>2. canTransition(intent[t].status, "burned") =>
          RowOK(t, [row EXCEPT !.status = "burned"])
    BY <1>1, <1>2, NextStatusOK, NotFromTerminal DEF Intent
  <2>3. "burned" \in Status \ {"none", "credited"}
    BY DEF Status
  <2>4. StageSound("next", [w EXCEPT !.status = "burned"])'
    BY DEF StageSound
  <2> QED BY <1>1, <1>2, <1>3, <2>1, <2>2, <2>3, <2>4, StageNext, TransitionSound
<1>5. CASE w.status # "initiated"
  <2>1. patchIntent(p, row, "next")
    BY <1>1, <1>2, <1>5 DEF markBurned, Row
  <2>2. RowOK(t, row)
    BY <1>1, <1>2, <1>5, SameStatusOK DEF WorkSound
  <2>3. StageSound("next", [w EXCEPT !.status = row.status])'
    BY DEF StageSound
  <2> QED BY <1>1, <1>2, <1>3, <2>1, <2>2, <2>3, StageNext, PatchSound
<1> QED BY <1>4, <1>5

LEMMA FailIntentSound ==
  ASSUME IInv, NEW p \in Polls, failIntent(p) PROVE IInv' /\ Grows
<1>1. PICK w \in Work, t \in Txs, b \in Burns :
        /\ w = cur[p] /\ t = w.tx /\ b = w.message
        /\ b \in BurnsOf(t) /\ burn[b].stage # "none"
        /\ StageSound(pc[p], w) /\ intent[t] \in Intent /\ intent[t].status # "none"
        /\ Alone(t) => b = Only(t)
  BY AtHand DEF failIntent
<1>2. UNCHANGED <<mirrored, world, chain, faults>>
  BY DEF failIntent
<1>3. CASE canTransition(w.status, "failed")
  <2> DEFINE row == intent[t]
             new == [row EXCEPT !.status = "failed"]
  <2>1. transitionIntent(p, "failed", row, "next")
    BY <1>1, <1>3 DEF failIntent, Row
  <2>2. ASSUME canTransition(intent[t].status, "failed") PROVE RowOK(t, new)
    <3>1. /\ new \in Intent /\ new.status = "failed" /\ new.nonce = intent[t].nonce
          /\ new.owner = intent[t].owner /\ new.org = intent[t].org
      BY <1>1 DEF Intent, Status, Terminal
    <3>2. intent[t].status \notin Terminal /\ RowSound(t)
      BY <1>1, <2>2, NotFromTerminal DEF IInv, Intent
    <3>3. ASSUME Alone(t)
          PROVE  /\ burn[Only(t)].stage # "none"
                 /\ \/ burn[Only(t)].form = "astray"
                    \/ burn[Only(t)].form = "otherkey" /\ Owned(t)
      <4>1. CASE pc[p] = "fail"
        BY <1>1, <3>3, <4>1 DEF StageSound, Later
      <4>2. CASE Message(p).form = "astray"
        <5>1. Message(p) = burn[b] /\ b = Only(t)
          BY <1>1, <3>3 DEF Message
        <5>2. burn[b].form = "astray" /\ burn[b].stage # "none"
          BY <1>1, <4>2, <5>1
        <5> QED BY <5>1, <5>2
      <4> QED BY <4>1, <4>2 DEF failIntent
    <3> HIDE DEF new
    <3> QED BY <1>1, <3>1, <3>2, <3>3 DEF RowOK, RowSound, Owned
  <2>3. "failed" \in Status \ {"none", "credited"}
    BY DEF Status, Terminal
  <2>4. StageSound("next", [w EXCEPT !.status = "failed"])'
    BY DEF StageSound
  <2> HIDE DEF row
  <2>5. row \in Intent
    BY <1>1 DEF row
  <2> QED BY <1>1, <1>2, <2>1, <2>2, <2>3, <2>4, <2>5, StageNext, TransitionSound
<1>4. CASE ~canTransition(w.status, "failed")
  <2>1. PICK row \in Intent : row = intent[t]
    BY <1>1
  <2>2. patchIntent(p, row, "next")
    BY <1>1, <1>4, <2>1 DEF failIntent, Row
  <2>3. RowOK(t, row)
    BY <1>1, <2>1, SameRowOK
  <2>4. StageSound("next", [w EXCEPT !.status = row.status])'
    BY DEF StageSound
  <2> QED BY <1>1, <1>2, <2>1, <2>2, <2>3, <2>4, StageNext, PatchSound
<1> QED BY <1>3, <1>4

LEMMA ReassociateSound ==
  ASSUME IInv, NEW p \in Polls, reassociateIntent(p) PROVE IInv' /\ Grows
<1>1. PICK w \in Work, t \in Txs, b \in Burns :
        /\ w = cur[p] /\ t = w.tx /\ b = w.message
        /\ b \in BurnsOf(t) /\ burn[b].stage # "none"
        /\ WorkSound(w) /\ RowSound(t)
        /\ intent[t] \in Intent /\ intent[t].status # "none"
        /\ Alone(t) => b = Only(t)
  BY AtHand DEF reassociateIntent
<1>2. UNCHANGED <<mirrored, world, chain, faults>> /\ burn[b].form \in {"fit", "otherkey"}
  BY <1>1 DEF reassociateIntent, Message
<1>3. PICK row \in Intent :
        /\ row = [intent[t] EXCEPT !.owner = burn[b].user, !.nonce = b]
        /\ row.status = intent[t].status /\ row.org = intent[t].org
        /\ row.nonce = b /\ row.owner = burn[b].user
        /\ intent[t].nonce = b /\ intent[t].owner = burn[b].user => row = intent[t]
  <2>1. burn[b].user \in Users \cup {NoMessage}
    BY <1>1 DEF IInv, TypeOK
  <2> DEFINE new == [intent[t] EXCEPT !.owner = burn[b].user, !.nonce = b]
  <2>2. new \in Intent
    BY <1>1, <2>1 DEF Intent
  <2>3. /\ new.status = intent[t].status /\ new.org = intent[t].org
        /\ new.nonce = b /\ new.owner = burn[b].user
        /\ intent[t].nonce = b /\ intent[t].owner = burn[b].user => new = intent[t]
    BY <1>1 DEF Intent
  <2> QED BY <2>2, <2>3
<1> DEFINE v == [w EXCEPT !.status = row.status]
<1>4. patchIntent(p, row, "registry")
  BY <1>1, <1>3 DEF reassociateIntent, Reassociated, Message, Row
<1>5. v.tx = t /\ v.status = intent[t].status /\ v.message = b
  BY <1>1, <1>3 DEF Work
<1>6. RowOK(t, row)
  <2>1. ASSUME Alone(t), intent[t].status \in Terminal PROVE row = intent[t]
    BY <1>1, <1>2, <1>3, <2>1 DEF RowSound, Owned, Terminal
  <2> QED BY <1>1, <1>2, <1>3, <2>1, MessagesOfTx DEF RowOK, RowSound, Known, Owned
<1>7. ASSUME Grows, intent'[t] = row PROVE StageSound("registry", v)'
  <2>1. /\ burn'[b].stage # "none" /\ burn'[b].form = burn[b].form
        /\ burn'[b].user = burn[b].user /\ NoMessage \notin Burns
    BY <1>1, <1>7, NoneAssumption DEF Grows
  <2> HIDE DEF v
  <2> QED BY <1>1, <1>2, <1>3, <1>5, <1>7, <2>1
          DEF StageSound, WorkSound, Owned, Known, Later, Settling
<1>8. "registry" \in Stages
  BY DEF Stages
<1> QED BY <1>1, <1>2, <1>3, <1>4, <1>6, <1>7, <1>8, PatchSound

LEMMA ParkSound ==
  ASSUME IInv, NEW p \in Polls, parkNeedsOnboarding(p) PROVE IInv' /\ Grows
<1>1. PICK w \in Work, t \in Txs, b \in Burns :
        /\ w = cur[p] /\ t = w.tx /\ b = w.message
        /\ b \in BurnsOf(t) /\ burn[b].stage # "none"
        /\ StageSound("park", w) /\ intent[t] \in Intent /\ intent[t].status # "none"
        /\ Alone(t) => b = Only(t)
  BY AtHand DEF parkNeedsOnboarding
<1>2. PICK row \in Intent :
        row = [intent[t] EXCEPT !.nonce = b] /\ row.status = intent[t].status
  BY <1>1, Naming
<1>3. UNCHANGED <<mirrored, world, chain, faults>>
  BY DEF parkNeedsOnboarding
<1>4. CASE canTransition(w.status, "needs_onboarding")
  <2>1. transitionIntent(p, "needs_onboarding", row, "next")
    BY <1>1, <1>2, <1>4 DEF parkNeedsOnboarding, Attestation, Row
  <2>2. canTransition(intent[t].status, "needs_onboarding") =>
          RowOK(t, [row EXCEPT !.status = "needs_onboarding"])
    BY <1>1, <1>2, NextStatusOK, NotFromTerminal DEF Intent
  <2>3. "needs_onboarding" \in Status \ {"none", "credited"}
    BY DEF Status
  <2>4. StageSound("next", [w EXCEPT !.status = "needs_onboarding"])'
    BY DEF StageSound
  <2> QED BY <1>1, <1>2, <1>3, <2>1, <2>2, <2>3, <2>4, StageNext, TransitionSound
<1>5. CASE ~canTransition(w.status, "needs_onboarding")
  <2>1. patchIntent(p, row, "next")
    BY <1>1, <1>2, <1>5 DEF parkNeedsOnboarding, Attestation, Row
  <2>2. RowOK(t, row)
    BY <1>1, <1>2, SameStatusOK DEF StageSound, Later, Owned
  <2>3. StageSound("next", [w EXCEPT !.status = row.status])'
    BY DEF StageSound
  <2> QED BY <1>1, <1>2, <1>3, <2>1, <2>2, <2>3, StageNext, PatchSound
<1> QED BY <1>4, <1>5

LEMMA AdvanceSound ==
  ASSUME IInv, NEW p \in Polls, advanceToAttested(p) PROVE IInv' /\ Grows
<1>1. PICK w \in Work, t \in Txs, b \in Burns :
        /\ w = cur[p] /\ t = w.tx /\ b = w.message
        /\ b \in BurnsOf(t) /\ burn[b].stage # "none"
        /\ StageSound("attest", w) /\ WorkSound(w)
        /\ intent[t] \in Intent /\ intent[t].status # "none"
        /\ Alone(t) => b = Only(t)
  BY AtHand DEF advanceToAttested
<1>2. PICK row \in Intent :
        /\ row = [intent[t] EXCEPT !.nonce = b]
        /\ row.status = intent[t].status /\ row.nonce = b
        /\ row.owner = intent[t].owner
  BY <1>1, Naming
<1>3. UNCHANGED <<mirrored, world, chain, faults>>
  BY DEF advanceToAttested
<1>4. Alone(t) => /\ Owned(t) /\ burn[Only(t)].form = "fit"
                  /\ intent[t].status # "failed"
  BY <1>1 DEF StageSound, Later, Settling, RowSound, IInv
<1>5. {"attest", "estimate"} \subseteq Stages
  BY DEF Stages
<1>6. ASSUME NEW to \in {"burned", "attested"}, NEW stage \in {"attest", "estimate"},
             Grows, intent'[t] = [row EXCEPT !.status = to]
      PROVE  StageSound(stage, [w EXCEPT !.status = to])'
  <2> DEFINE v == [w EXCEPT !.status = to]
             new == [row EXCEPT !.status = to]
  <2>1. v.tx = t /\ v.status = to /\ v.message = b
    BY <1>1 DEF Work
  <2>2. new.status = to /\ new.nonce = b /\ new.owner = intent[t].owner
    BY <1>2 DEF Intent
  <2>3. /\ burn'[b].stage # "none" /\ burn'[b].form = burn[b].form
        /\ burn'[b].user = burn[b].user /\ NoMessage \notin Burns
    BY <1>1, <1>6, NoneAssumption DEF Grows
  <2> HIDE DEF v, new
  <2>4. intent'[t] = new
    BY <1>6 DEF new
  <2>5. StageSound(stage, v)'
    BY <1>1, <1>4, <2>1, <2>2, <2>3, <2>4
       DEF StageSound, WorkSound, Owned, Known, Later, Settling, Terminal
  <2> QED BY <2>5 DEF v
<1>7. \A to \in {"burned", "attested"} :
        /\ canTransition(intent[t].status, to) => RowOK(t, [row EXCEPT !.status = to])
        /\ to \in Status \ {"none", "credited"}
  BY <1>1, <1>2, NextStatusOK, NotFromTerminal DEF Intent, Status
<1>8. CASE w.status = "initiated"
  <2>1. transitionIntent(p, "burned", row, "attest")
    BY <1>1, <1>2, <1>8 DEF advanceToAttested, Attestation, Row
  <2> QED BY <1>1, <1>2, <1>3, <1>5, <1>6, <1>7, <2>1, TransitionSound
<1>9. CASE w.status \in {"burned", "needs_onboarding"}
  <2>1. transitionIntent(p, "attested", row, "estimate")
    BY <1>1, <1>2, <1>9 DEF advanceToAttested, Attestation, Row
  <2> QED BY <1>1, <1>2, <1>3, <1>5, <1>6, <1>7, <2>1, TransitionSound
<1>10. CASE w.status = "attested"
  <2>1. patchIntent(p, row, "estimate")
    BY <1>1, <1>2, <1>10 DEF advanceToAttested, Attestation, Row
  <2>2. RowOK(t, row)
    BY <1>1, <1>2, <1>4, SameStatusOK DEF Owned
  <2>3. ASSUME Grows, intent'[t] = row
        PROVE  StageSound("estimate", [w EXCEPT !.status = row.status])'
    <3> DEFINE v == [w EXCEPT !.status = row.status]
    <3>1. v.tx = t /\ v.status = row.status /\ v.message = b
      BY <1>1, <1>2 DEF Work, Intent
    <3>2. /\ burn'[b].stage # "none" /\ burn'[b].form = burn[b].form
          /\ burn'[b].user = burn[b].user /\ NoMessage \notin Burns
      BY <1>1, <2>3, NoneAssumption DEF Grows
    <3> HIDE DEF v
    <3>3. WorkSound(v)'
      <4>1. v.status = intent[t].status /\ intent'[t].status = intent[t].status
        BY <1>2, <2>3, <3>1
      <4>2. Alone(t) => intent'[t].nonce = Only(t)
        BY <1>1, <1>2, <2>3
      <4> QED BY <1>1, <3>1, <3>2, <4>1, <4>2 DEF WorkSound, Known
    <3>4. StageSound("estimate", v)'
      BY <1>1, <1>2, <1>4, <2>3, <3>1, <3>2, <3>3
         DEF StageSound, Owned, Later, Settling
    <3> QED BY <3>4 DEF v
  <2> QED BY <1>1, <1>2, <1>3, <1>5, <2>1, <2>2, <2>3, PatchSound
<1>11. CASE w.status \notin {"initiated", "burned", "needs_onboarding", "attested"}
  <2>1. Go(p, "estimate", w) /\ UNCHANGED rows
    BY <1>1, <1>3, <1>11 DEF advanceToAttested, rows
  <2>2. Grows
    BY <1>3, <2>1, Quiet DEF rows, world, chain
  <2>3. StageSound("estimate", w)
    BY <1>1 DEF StageSound, Later, Settling
  <2>4. StageSound("estimate", w)'
    BY <1>1, <1>5, <2>2, <2>3, StageKept
  <2>5. used' \subseteq Burns /\ deposited' \subseteq used' /\ pool' \subseteq Polls \X Burns
        /\ faults' \in 0 .. MaxFaults /\ UNCHANGED world
    BY <1>3 DEF IInv, TypeOK, chain
  <2> QED BY <1>1, <1>5, <2>1, <2>2, <2>4, <2>5, GoSound
<1> QED BY <1>8, <1>9, <1>10, <1>11

LEMMA MarkCreditedSound ==
  ASSUME IInv, NEW p \in Polls, markCredited(p) PROVE IInv' /\ Grows
<1>1. PICK w \in Work, t \in Txs, b \in Burns :
        /\ w = cur[p] /\ t = w.tx /\ b = w.message
        /\ b \in BurnsOf(t) /\ burn[b].stage # "none"
        /\ StageSound("credit", w) /\ WorkSound(w) /\ RowSound(t)
        /\ intent[t] \in Intent /\ intent[t].status # "none"
        /\ Alone(t) => b = Only(t)
  BY AtHand DEF markCredited
<1>2. UNCHANGED <<world, chain, faults>>
  BY DEF markCredited
<1>3. Alone(t) => /\ Owned(t) /\ burn[Only(t)].form = "fit"
                  /\ Only(t) \in used /\ intent[t].status # "failed"
  BY <1>1 DEF StageSound, Later, Settling, RowSound
<1>4. used' \subseteq Burns /\ deposited' \subseteq used' /\ pool' \subseteq Polls \X Burns
      /\ faults' \in 0 .. MaxFaults
  BY <1>2 DEF IInv, TypeOK, chain
<1>5. CASE w.status \in Terminal
  <2>1. /\ UNCHANGED <<intent, byUpdate>> /\ Go(p, "next", w)
        /\ mirrored' = IF intent[t].org THEN mirrored \cup {t} ELSE mirrored
    BY <1>1, <1>5 DEF markCredited, Row
  <2>2. Grows
    BY <1>2, <2>1, Quiet DEF world, chain
  <2>3. TypeOK'
    BY <1>2, <2>1, IdleWork, StageNext DEF IInv, TypeOK, Go, world, chain
  <2>4. ListSound'
    BY <2>1 DEF IInv, ListSound
  <2>5. \A s \in Txs : RowSound(s)'
    <3>1. ASSUME NEW s \in Txs, s # t PROVE RowSound(s)'
      BY <2>1, <2>2, <3>1, RowKept
    <3>2. CASE t \in mirrored' <=> t \in mirrored
      BY <2>1, <2>2, <3>1, <3>2, RowKept
    <3>3. CASE ~(t \in mirrored' <=> t \in mirrored)
      <4>1. intent[t].org /\ t \notin mirrored
        BY <2>1, <3>3
      <4>2. ~Alone(t)
        <5>1. Alone(t) => intent[t].status = "credited"
          BY <1>1, <1>3, <1>5 DEF WorkSound, Terminal
        <5> QED BY <1>1, <4>1, <5>1 DEF RowSound
      <4>3. RowSound(t)'
        BY <1>1, <1>2, <2>1, <4>2 DEF RowSound, Known, world
      <4> QED BY <3>1, <4>3
    <3> QED BY <3>2, <3>3
  <2>6. /\ PollSound(p)'
        /\ \A q \in Polls \ {p} :
             pc'[q] = pc[q] /\ cur'[q] = cur[q] /\ todo'[q] = todo[q]
    <3>1. PICK list \in Seq(Work) : list = todo[p] /\ list = todo'[p]
      BY <2>1 DEF Go, IInv, TypeOK
    <3>2. \A i \in DOMAIN list : WorkSound(list[i])
      BY <3>1 DEF IInv, PollSound
    <3>3. \A i \in DOMAIN list : WorkSound(list[i])'
      BY <2>2, <3>2, WorkKept
    <3>4. pc'[p] = "next"
      BY <2>1 DEF Go, IInv, TypeOK
    <3>5. PollSound(p)'
      BY <3>1, <3>3, <3>4 DEF PollSound, StageSound
    <3> QED BY <2>1, <3>5 DEF Go, IInv, TypeOK
  <2> QED BY <2>2, <2>3, <2>4, <2>5, <2>6, StepSound
<1>6. CASE w.status \notin Terminal /\ canTransition(intent[t].status, "minted")
  <2> DEFINE row == [intent[t] EXCEPT !.status = "credited"]
  <2>1. /\ row \in Intent /\ row.status = "credited" /\ row.nonce = intent[t].nonce
        /\ row.owner = intent[t].owner /\ row.org = intent[t].org
    BY <1>1 DEF Intent, Status, Terminal
  <2>2. /\ Write(t, row) /\ Go(p, "next", w)
        /\ mirrored' = IF intent[t].org THEN mirrored \cup {t} ELSE mirrored
    BY <1>1, <1>6 DEF markCredited, Row
  <2>3. intent[t].status \notin Terminal
    BY <1>1, <1>6, NotFromTerminal DEF Intent
  <2> HIDE DEF row
  <2>4. RowOK(t, row)
    BY <1>1, <1>3, <2>1, <2>3 DEF RowOK, RowSound, Owned
  <2>5. Alone(t) => (t \in mirrored' <=> row.org /\ row.status = "credited")
    <3>1. Alone(t) => t \notin mirrored
      BY <1>1, <2>3 DEF RowSound, Terminal
    <3> QED BY <2>1, <2>2, <3>1
  <2>6. StageSound("next", w)'
    BY DEF StageSound
  <2> QED BY <1>2, <2>2, <2>4, <2>5, <2>6, StageNext, WriteSound
<1>7. CASE w.status \notin Terminal /\ ~canTransition(intent[t].status, "minted")
  <2>1. EndJob(p) /\ UNCHANGED rows
    BY <1>1, <1>7 DEF markCredited, Row
  <2>2. Grows
    BY <1>2, <2>1, Quiet DEF rows, world, chain
  <2> QED BY <1>2, <1>4, <2>1, <2>2, EndSound
<1> QED BY <1>5, <1>6, <1>7

-------------------------------------------------------------------------------
(* Users, the source chain and the owner's rescue.                         *)

LEMMA EnvSound ==
  ASSUME IInv, TypeOK', Grows, UNCHANGED <<rows, local>>
  PROVE  IInv'
<1>1. ListSound'
  BY DEF IInv, ListSound, rows
<1>2. \A t \in Txs : RowSound(t)'
  BY RowKept DEF rows
<1>3. \A p \in Polls : PollSound(p)'
  BY OthersKept DEF local
<1> QED BY <1>1, <1>2, <1>3 DEF IInv

LEMMA RegisterSound ==
  ASSUME IInv, NEW u \in Users, Register(u) PROVE IInv' /\ Grows
<1>1. TypeOK' /\ UNCHANGED <<rows, local>>
  BY DEF Register, IInv, TypeOK, rows, local, chain
<1>2. Grows
  BY Quiet DEF Register, rows, chain
<1> QED BY <1>1, <1>2, EnvSound

LEMMA RescueSound ==
  ASSUME IInv, NEW b \in Burns, receiveForRescue(b) PROVE IInv' /\ Grows
<1>1. TypeOK' /\ UNCHANGED <<rows, local>>
  BY DEF receiveForRescue, IInv, TypeOK, rows, local, world
<1>2. Grows
  BY DEF receiveForRescue, rows, world, Grows, Owned
<1> QED BY <1>1, <1>2, EnvSound

LEMMA AttestSound ==
  ASSUME IInv, NEW b \in Burns, AttestBurn(b) PROVE IInv' /\ Grows
<1>1. /\ burn' = [burn EXCEPT ![b].stage = "complete"]
      /\ burn \in [Burns -> [stage : {"none", "pending", "complete"},
                             user : Users \cup {NoMessage},
                             form : Forms \cup {"none"}]]
      /\ UNCHANGED <<rows, registered, chain, local, faults>>
  BY DEF AttestBurn, IInv, TypeOK
<1>2. TypeOK' /\ UNCHANGED <<rows, local>>
  BY <1>1 DEF IInv, TypeOK, rows, local, chain
<1>3. \A c \in Burns : /\ burn[c].stage # "none" => burn'[c].stage # "none"
                       /\ burn'[c].user = burn[c].user /\ burn'[c].form = burn[c].form
  BY <1>1
<1>4. Grows
  BY <1>1, <1>3 DEF rows, chain, Grows, Owned
<1> QED BY <1>2, <1>4, EnvSound

LEMMA BurnTxSound ==
  ASSUME IInv, NEW t \in Txs, NEW user \in [BurnsOf(t) -> Users],
         NEW form \in [BurnsOf(t) -> Forms], BurnTx(t, user, form)
  PROVE  IInv' /\ Grows
<1>1. /\ burn' = [b \in Burns |->
                    IF b \in BurnsOf(t)
                      THEN [stage |-> "pending", user |-> user[b], form |-> form[b]]
                      ELSE burn[b]]
      /\ \A b \in BurnsOf(t) : burn[b].stage = "none"
      /\ burn \in [Burns -> [stage : {"none", "pending", "complete"},
                             user : Users \cup {NoMessage},
                             form : Forms \cup {"none"}]]
      /\ UNCHANGED <<rows, registered, chain, local, faults>>
  BY DEF BurnTx, IInv, TypeOK
<1>2. burn' \in [Burns -> [stage : {"none", "pending", "complete"},
                           user : Users \cup {NoMessage},
                           form : Forms \cup {"none"}]]
  BY <1>1
<1>3. TypeOK' /\ UNCHANGED <<rows, local>>
  BY <1>1, <1>2 DEF IInv, TypeOK, rows, local, chain
<1>4. \A c \in Burns : burn[c].stage # "none" => burn'[c] = burn[c]
  BY <1>1
<1>5. Grows
  BY <1>1, <1>4 DEF rows, chain, Grows, Owned
<1> QED BY <1>3, <1>5, EnvSound

LEMMA NoIntentIsIntent == NoIntent \in Intent /\ NoIntent.nonce = NoMessage
<1>1. NoIntent \in Intent
  BY DEF NoIntent, Intent, Status
<1>2. NoIntent.nonce = NoMessage
  BY DEF NoIntent
<1> QED BY <1>1, <1>2

LEMMA CreateSound ==
  ASSUME IInv, NEW t \in Txs, NEW u \in Users, NEW domain \in Domains,
         CreateIntent(t, u, domain)
  PROVE  IInv' /\ Grows
<1> DEFINE new == [NoIntent EXCEPT !.status = "initiated", !.owner = u,
                                   !.org = u \in Treasuries, !.domain = domain]
<1>1. /\ new \in Intent /\ new.status = "initiated" /\ new.nonce = NoMessage
  <2>1. domain \in {"right", "wrong"}
    BY InputAssumption
  <2> DEFINE o == u \in Treasuries
  <2>2. o \in BOOLEAN
    OBVIOUS
  <2>3. PICK none \in Intent : none = NoIntent /\ none.nonce = NoMessage
    BY NoIntentIsIntent
  <2> DEFINE row == [none EXCEPT !.status = "initiated", !.owner = u,
                                 !.org = o, !.domain = domain]
  <2>4. new = row
    BY <2>3
  <2> HIDE DEF o, new
  <2>5. row \in Intent
    BY <2>1, <2>2 DEF Intent, Status
  <2>6. row.status = "initiated" /\ row.nonce = NoMessage
    BY <2>3 DEF Intent
  <2> QED BY <2>4, <2>5, <2>6
<1>2. /\ intent' = [intent EXCEPT ![t] = new] /\ intent[t].status = "none"
      /\ byUpdate' = Append(byUpdate, t)
      /\ UNCHANGED <<mirrored, world, chain, local, faults>>
  BY DEF CreateIntent
<1> HIDE DEF new
<1>3. /\ intent \in [Txs -> Intent] /\ byUpdate \in Seq(Txs)
      /\ intent'[t] = new /\ \A s \in Txs \ {t} : intent'[s] = intent[s]
  BY <1>2 DEF IInv, TypeOK
<1>4. TypeOK'
  <2>1. intent' \in [Txs -> Intent] /\ byUpdate' \in Seq(Txs)
    BY <1>1, <1>2, <1>3
  <2> QED BY <1>2, <2>1 DEF IInv, TypeOK, world, chain, local
<1>5. ListSound'
  <2>1. PICK s \in Seq(Txs) :
          /\ s = byUpdate
          /\ \A i, j \in DOMAIN s : s[i] = s[j] => i = j
          /\ \A i \in DOMAIN s : /\ s[i] \in Txs
                                 /\ intent[s[i]].status \notin Terminal \cup {"none"}
    BY <1>3 DEF IInv, ListSound
  <2>2. \A i \in DOMAIN s : s[i] # t /\ intent'[s[i]] = intent[s[i]]
    BY <1>2, <1>3, <2>1
  <2> DEFINE q == Append(s, t)
  <2>3. /\ q \in Seq(Txs) /\ Len(q) = Len(s) + 1
        /\ \A i \in 1 .. Len(q) : q[i] = IF i = Len(q) THEN t ELSE s[i]
        /\ DOMAIN s = 1 .. Len(s) /\ DOMAIN q = 1 .. Len(q)
    OBVIOUS
  <2>4. byUpdate' = q
    BY <1>2, <2>1
  <2> HIDE DEF q
  <2>5. \A i, j \in DOMAIN q : q[i] = q[j] => i = j
    BY <2>1, <2>2, <2>3
  <2>6. \A i \in DOMAIN q : intent'[q[i]].status \notin Terminal \cup {"none"}
    BY <1>1, <1>3, <2>1, <2>2, <2>3 DEF Terminal
  <2> QED BY <2>4, <2>5, <2>6 DEF ListSound
<1>6. Grows
  BY <1>2, <1>3 DEF Grows, Owned, world, chain
<1>7. \A s \in Txs : RowSound(s)'
  <2>1. ASSUME NEW s \in Txs, s # t PROVE RowSound(s)'
    BY <1>2, <1>3, <1>6, <2>1, RowKept
  <2>2. RowSound(t)'
    <3>1. Alone(t) => t \notin mirrored
      BY <1>2 DEF IInv, RowSound
    <3> QED BY <1>1, <1>2, <1>3, <3>1 DEF RowSound
  <2> QED BY <2>1, <2>2
<1>8. \A p \in Polls : PollSound(p)'
  BY <1>2, <1>4, <1>6, OthersKept DEF local
<1> QED BY <1>4, <1>5, <1>6, <1>7, <1>8 DEF IInv

-------------------------------------------------------------------------------
(* The steps of a poll that write no row.                                  *)

(* The counters and the chain as they are.                                 *)
LEMMA ChainKept ==
  ASSUME IInv, UNCHANGED <<chain, faults>>
  PROVE  /\ used' \subseteq Burns /\ deposited' \subseteq used'
         /\ pool' \subseteq Polls \X Burns /\ faults' \in 0 .. MaxFaults
BY DEF IInv, TypeOK, chain

LEMMA ReadSound ==
  ASSUME IInv, NEW t \in Txs, intent[t].status \notin Terminal \cup {"none"}
  PROVE  Read(t) \in Work /\ WorkSound(Read(t))
<1>1. intent[t] \in Intent /\ RowSound(t)
  BY DEF IInv, TypeOK
<1>2. /\ Read(t) \in Work /\ Read(t).tx = t /\ Read(t).status = intent[t].status
      /\ Read(t).message = intent[t].nonce
  BY <1>1 DEF Read, Work, Intent
<1> QED BY <1>1, <1>2 DEF WorkSound, RowSound, Terminal

LEMMA StartSound ==
  ASSUME IInv, NEW p \in Polls, StartPoll(p) PROVE IInv' /\ Grows
<1>1. PICK n \in Nat :
        /\ n = Min({Len(byUpdate), PollLimit}) /\ n <= Len(byUpdate)
  <2>1. Len(byUpdate) \in Nat \ {0} /\ PollLimit \in Nat \ {0}
    BY BoundAssumption DEF StartPoll, IInv, TypeOK
  <2>2. PICK a \in Nat \ {0}, b \in Nat \ {0} : a = Len(byUpdate) /\ b = PollLimit
    BY <2>1
  <2>3. {a, b} \in SUBSET (1 .. a + b) /\ a + b \in Nat
    OBVIOUS
  <2>4. Min({a, b}) \in {a, b} /\ \A x \in {a, b} : Min({a, b}) <= x
    <3>1. \E m \in {a, b} : \A x \in {a, b} : m <= x
      OBVIOUS
    <3> QED BY <3>1 DEF Min
  <2> QED BY <2>2, <2>4
<1> DEFINE list == SubSeq(byUpdate, 1, n)
           read == [i \in DOMAIN list |-> Read(list[i])]
<1>2. /\ list \in Seq(Txs) /\ Len(list) = n
      /\ \A i \in 1 .. n : list[i] = byUpdate[i] /\ i \in DOMAIN byUpdate
  <2>1. PICK s \in Seq(Txs) : s = byUpdate
    BY DEF IInv, TypeOK
  <2> DEFINE q == SubSeq(s, 1, n)
  <2>2. n <= Len(s)
    BY <1>1, <2>1
  <2>3. /\ q \in Seq(Txs) /\ Len(q) = n
        /\ \A i \in 1 .. n : q[i] = s[i] /\ i \in DOMAIN s
    BY <2>2
  <2> QED BY <2>1, <2>3
<1>3. /\ pc' = [pc EXCEPT ![p] = "next"] /\ todo' = [todo EXCEPT ![p] = read]
      /\ UNCHANGED <<rows, world, chain, cur, faults>>
  BY <1>1 DEF StartPoll
<1>4. DOMAIN list = 1 .. n /\ \A i \in DOMAIN list : list[i] \in Txs
  BY <1>2
<1> HIDE DEF list
<1>5. \A i \in DOMAIN list : intent[list[i]].status \notin Terminal \cup {"none"}
  BY <1>2, <1>4 DEF IInv, ListSound
<1>6. \A i \in DOMAIN list : Read(list[i]) \in Work /\ WorkSound(Read(list[i]))
  BY <1>4, <1>5, ReadSound
<1>7. read \in Seq(Work) /\ \A i \in DOMAIN read : WorkSound(read[i])
  BY <1>4, <1>6
<1>8. PICK w \in Work : w = cur[p] /\ cur' = [cur EXCEPT ![p] = w]
  BY <1>3 DEF IInv, TypeOK
<1>9. Grows
  BY <1>3, Quiet DEF rows, world, chain
<1>10. StageSound("next", w)' /\ "next" \in Stages
  BY DEF StageSound, Stages
<1> HIDE DEF read
<1>11. UNCHANGED <<rows, burn, registered>>
  BY <1>3 DEF world
<1> QED BY <1>3, <1>7, <1>8, <1>9, <1>10, <1>11, ChainKept, MoveSound

LEMMA EndPollSound ==
  ASSUME IInv, NEW p \in Polls, EndPoll(p) \/ Undecodable(p) \/ Abort(p)
  PROVE  IInv' /\ Grows
<1>1. EndJob(p) /\ UNCHANGED <<rows, world, chain>> /\ faults' \in 0 .. MaxFaults
  <2>1. CASE EndPoll(p) \/ Undecodable(p)
    BY <2>1, ChainKept DEF EndPoll, Undecodable
  <2>2. CASE Abort(p)
    <3>1. faults \in 0 .. MaxFaults /\ MaxFaults \in Nat
      BY BoundAssumption DEF IInv, TypeOK
    <3> QED BY <2>2, <3>1 DEF Abort
  <2> QED BY <2>1, <2>2
<1>2. Grows
  BY <1>1, Quiet DEF rows, world, chain
<1>3. used' \subseteq Burns /\ deposited' \subseteq used' /\ pool' \subseteq Polls \X Burns
  BY <1>1 DEF IInv, TypeOK, chain
<1> QED BY <1>1, <1>2, <1>3, EndSound

(* Iris names a message of the transaction that the source chain has seen. *)
LEMMA IrisKnows ==
  ASSUME IInv, NEW w \in Work, WorkSound(w), selectIrisMessage(w) # NoMessage
  PROVE  Known(w.tx, selectIrisMessage(w))
<1>1. PICK t \in Txs : t = w.tx
  BY DEF WorkSound
<1>2. PICK n \in Nat : n = Len(Messages[t]) /\ DOMAIN Messages[t] = 1 .. n
  BY MessagesOfTx
<1> DEFINE found    == getMessages(t)
           complete == {i \in found : burn[Messages[t][i]].stage = "complete"}
           some     == IF complete # {} THEN complete ELSE found
<1>3. CASE found # {} /\ w.message = NoMessage
  <2>1. some \in SUBSET (1 .. n) /\ some # {} /\ some \subseteq found
    BY <1>2, <1>3 DEF getMessages
  <2>2. selectIrisMessage(w) = Messages[t][Min(some)]
    BY <1>1, <1>3 DEF selectIrisMessage
  <2> HIDE DEF found, some
  <2>3. PICK i \in found : i = Min(some)
    BY <2>1, FirstOf
  <2>4. i \in DOMAIN Messages[t] /\ burn[Messages[t][i]].stage # "none"
    BY <2>3 DEF found, getMessages
  <2> QED BY <1>1, <2>2, <2>3, <2>4, MessagesOfTx DEF Known
<1>4. CASE found # {} /\ w.message # NoMessage
  <2>1. selectIrisMessage(w) = w.message
    BY <1>1, <1>4 DEF selectIrisMessage
  <2> QED BY <1>4, <2>1 DEF WorkSound
<1>5. CASE found = {}
  BY <1>1, <1>5 DEF selectIrisMessage
<1> QED BY <1>3, <1>4, <1>5

LEMMA AskSound ==
  ASSUME IInv, NEW p \in Polls, AskIris(p) PROVE IInv' /\ Grows
<1>1. UNCHANGED <<rows, world, chain, faults>> /\ UNCHANGED <<rows, burn, registered>>
  BY DEF AskIris, world
<1>2. Grows
  BY <1>1, Quiet DEF rows, world, chain
<1>3. PICK s \in Seq(Work) : s = todo[p] /\ s # <<>> /\ \A i \in DOMAIN s : WorkSound(s[i])
  BY DEF AskIris, IInv, TypeOK, PollSound
<1>4. PICK w \in Work : w = Head(s) /\ WorkSound(w)
  BY <1>3
<1>5. PICK list \in Seq(Work) :
        list = Tail(s) /\ \A i \in DOMAIN list : WorkSound(list[i])
  <2> DEFINE q == Tail(s)
  <2>1. /\ q \in Seq(Work) /\ Len(q) = Len(s) - 1 /\ DOMAIN q = 1 .. Len(q)
        /\ \A i \in 1 .. Len(q) : q[i] = s[i + 1] /\ i + 1 \in DOMAIN s
    BY <1>3
  <2> HIDE DEF q
  <2>2. \A i \in DOMAIN q : WorkSound(q[i])
    BY <1>3, <2>1
  <2> QED BY <2>1, <2>2 DEF q
<1>6. todo' = [todo EXCEPT ![p] = list]
  BY <1>3, <1>5 DEF AskIris
<1>7. pc \in [Polls -> Stages] /\ cur \in [Polls -> Work] /\ pc[p] = "next"
  BY DEF AskIris, IInv, TypeOK
<1> DEFINE message == selectIrisMessage(w)
<1>8. CASE message = NoMessage
  <2>1. pc' = [pc EXCEPT ![p] = "next"] /\ cur' = [cur EXCEPT ![p] = cur[p]]
    BY <1>3, <1>4, <1>7, <1>8 DEF AskIris
  <2>2. PICK v \in Work : v = cur[p]
    BY <1>7
  <2>3. StageSound("next", v)' /\ "next" \in Stages
    BY DEF StageSound, Stages
  <2> QED BY <1>1, <1>2, <1>5, <1>6, <2>1, <2>2, <2>3, ChainKept, MoveSound
<1>9. CASE message # NoMessage
  <2>1. PICK b \in Burns : b = message /\ Known(w.tx, b)
    <3>1. Known(w.tx, message) /\ w.tx \in Txs
      BY <1>4, <1>9, IrisKnows DEF WorkSound
    <3> QED BY <3>1, MessagesOfTx DEF Known
  <2> DEFINE v == [w EXCEPT !.message = b]
  <2>2. pc' = [pc EXCEPT ![p] = burn[b].stage] /\ cur' = [cur EXCEPT ![p] = v]
    BY <1>3, <1>4, <1>9, <2>1 DEF AskIris
  <2>3. v \in Work /\ v.tx = w.tx /\ v.status = w.status /\ v.message = b
    BY DEF Work
  <2>4. burn[b].stage \in {"pending", "complete"}
    BY <2>1 DEF Known, IInv, TypeOK
  <2>5. PICK stage \in {"pending", "complete"} : stage = burn[b].stage
    BY <2>4
  <2> HIDE DEF v, message
  <2>6. WorkSound(v)
    BY <1>4, <2>1, <2>3 DEF WorkSound
  <2>7. WorkSound(v)'
    BY <1>2, <2>3, <2>6, WorkKept
  <2>8. StageSound(stage, v)'
    BY <2>3, <2>5, <2>7, NoneAssumption DEF StageSound, Later, Settling
  <2>9. stage \in Stages
    BY DEF Stages
  <2> QED BY <1>1, <1>2, <1>5, <1>6, <2>2, <2>3, <2>5, <2>8, <2>9, ChainKept, MoveSound
<1> QED BY <1>8, <1>9

(* A move that changes neither rows nor chain.                             *)
LEMMA StillGoSound ==
  ASSUME IInv, NEW p \in Polls, NEW stage \in Stages, NEW w \in Work,
         Go(p, stage, w), StageSound(stage, w), UNCHANGED <<rows, world, used, deposited>>,
         pool' \subseteq Polls \X Burns, faults' \in 0 .. MaxFaults
  PROVE  IInv' /\ Grows
<1>1. Grows
  BY Quiet DEF rows, world
<1>2. StageSound(stage, w)'
  BY <1>1, StageKept
<1>3. used' \subseteq Burns /\ deposited' \subseteq used'
  BY DEF IInv, TypeOK
<1> QED BY <1>1, <1>2, <1>3, GoSound

LEMMA ResolveSound ==
  ASSUME IInv, NEW p \in Polls, resolveUserKey(p) PROVE IInv' /\ Grows
<1>1. PICK w \in Work, t \in Txs, b \in Burns :
        /\ w = cur[p] /\ t = w.tx /\ b = w.message
        /\ StageSound("registry", w)
        /\ Alone(t) => b = Only(t)
  BY AtHand DEF resolveUserKey
<1>2. PICK stage \in {"park", "fail", "attest"} :
        /\ Go(p, stage, w)
        /\ stage = "fail" => burn[b].form = "otherkey"
        /\ stage = "attest" => burn[b].form # "otherkey"
  <2> DEFINE to == CASE Message(p).user \notin registered -> "park"
                     [] Message(p).user \in registered /\ Message(p).form = "otherkey" -> "fail"
                     [] OTHER -> "attest"
  <2>1. Go(p, to, w)
    BY <1>1 DEF resolveUserKey
  <2>2. /\ to \in {"park", "fail", "attest"}
        /\ to = "fail" => burn[b].form = "otherkey"
        /\ to = "attest" => burn[b].form # "otherkey"
    BY <1>1 DEF Message
  <2> HIDE DEF to
  <2> QED BY <2>1, <2>2
<1>3. StageSound(stage, w) /\ stage \in Stages
  BY <1>1, <1>2 DEF StageSound, Later, Settling, Stages
<1>4. UNCHANGED <<rows, world, used, deposited>> /\ UNCHANGED <<chain, faults>>
  BY DEF resolveUserKey, chain
<1> QED BY <1>2, <1>3, <1>4, ChainKept, StillGoSound

LEMMA EstimateSound ==
  ASSUME IInv, NEW p \in Polls, EstimateGas(p) \/ EstimateLags(p)
  PROVE  IInv' /\ Grows
<1>1. PICK w \in Work, t \in Txs, b \in Burns :
        /\ w = cur[p] /\ t = w.tx /\ b = w.message
        /\ StageSound("estimate", w)
        /\ Alone(t) => b = Only(t)
  BY AtHand DEF EstimateGas, EstimateLags
<1>2. PICK stage \in {"credit", "send", "park"} :
        Go(p, stage, w) /\ (stage = "credit" => b \in used)
  BY <1>1 DEF EstimateGas, EstimateLags
<1>3. StageSound(stage, w) /\ stage \in Stages
  BY <1>1, <1>2 DEF StageSound, Later, Settling, Stages
<1>4. UNCHANGED <<rows, world, used, deposited>> /\ UNCHANGED chain
  BY DEF EstimateGas, EstimateLags, chain
<1>5. faults' \in 0 .. MaxFaults
  <2>1. faults \in 0 .. MaxFaults /\ MaxFaults \in Nat
    BY BoundAssumption DEF IInv, TypeOK
  <2> QED BY <2>1 DEF EstimateGas, EstimateLags
<1>6. pool' \subseteq Polls \X Burns
  BY <1>4 DEF IInv, TypeOK, chain
<1> QED BY <1>2, <1>3, <1>4, <1>5, <1>6, StillGoSound

LEMMA SendSound ==
  ASSUME IInv, NEW p \in Polls, SendSettle(p) PROVE IInv' /\ Grows
<1>1. PICK w \in Work, b \in Burns :
        w = cur[p] /\ b = w.message /\ StageSound("send", w)
  BY AtHand DEF SendSettle
<1>2. StageSound("wait", w) /\ "wait" \in Stages
  BY <1>1 DEF StageSound, Later, Settling, Stages
<1>3. /\ Go(p, "wait", w) /\ UNCHANGED <<rows, world, used, deposited>>
      /\ pool' = pool \cup {<<p, b>>} /\ faults' = faults
  BY <1>1 DEF SendSettle
<1>4. pool' \subseteq Polls \X Burns /\ faults' \in 0 .. MaxFaults
  BY <1>3 DEF IInv, TypeOK
<1> QED BY <1>2, <1>3, <1>4, StillGoSound

LEMMA SettleSound ==
  ASSUME IInv, NEW p \in Polls, NEW b \in Burns, settleDeposit(p, b)
  PROVE  IInv' /\ Grows
<1>1. UNCHANGED <<rows, world, faults>> /\ used \subseteq used' /\ b \in used'
  BY DEF settleDeposit
<1>2. Grows
  BY <1>1 DEF Grows, Owned, rows, world
<1>3. /\ used' \subseteq Burns /\ deposited' \subseteq used'
      /\ pool' \subseteq Polls \X Burns /\ faults' \in 0 .. MaxFaults
  <2>1. used' \subseteq Burns /\ deposited' \subseteq used'
    BY DEF settleDeposit, IInv, TypeOK
  <2> QED BY <1>1, <2>1 DEF settleDeposit, IInv, TypeOK
<1>4. CASE ~(pc[p] = "wait" /\ cur[p].message = b)
  <2>1. UNCHANGED local
    BY <1>4 DEF settleDeposit
  <2>2. TypeOK'
    BY <1>1, <1>3, <2>1 DEF IInv, TypeOK, rows, world, local
  <2> QED BY <1>1, <1>2, <2>1, <2>2, EnvSound
<1>5. CASE pc[p] = "wait" /\ cur[p].message = b /\ b \in used
  <2>1. EndJob(p)
    BY <1>5 DEF settleDeposit
  <2> QED BY <1>1, <1>2, <1>3, <2>1, EndSound
<1>6. CASE pc[p] = "wait" /\ cur[p].message = b /\ b \notin used
  <2>1. Go(p, "credit", cur[p])
    BY <1>6 DEF settleDeposit
  <2>2. PICK w \in Work, t \in Txs :
          /\ w = cur[p] /\ t = w.tx /\ b = w.message
          /\ StageSound("wait", w)
          /\ Alone(t) => b = Only(t)
    BY <1>6, AtHand
  <2>3. StageSound("wait", w)'
    <3>1. "wait" \in Stages
      BY DEF Stages
    <3> QED BY <1>2, <2>2, <3>1, StageKept
  <2>4. StageSound("credit", w)' /\ "credit" \in Stages
    BY <1>1, <2>2, <2>3 DEF StageSound, Later, Settling, Stages
  <2> QED BY <1>1, <1>2, <1>3, <2>1, <2>2, <2>4, GoSound
<1> QED BY <1>4, <1>5, <1>6


-------------------------------------------------------------------------------
(* The theorems.                                                           *)

LEMMA InitSound == Init => IInv
<1> SUFFICES ASSUME Init PROVE IInv
  OBVIOUS
<1>1. TypeOK
  <2>1. [t \in Txs |-> NoIntent] \in [Txs -> Intent]
    BY NoIntentIsIntent
  <2>2. [p \in Polls |-> <<>>] \in [Polls -> Seq(Work)] /\ <<>> \in Seq(Txs)
    BY IdleWork
  <2>3. [p \in Polls |-> Idle] \in [Polls -> Work]
    BY IdleWork
  <2>4. "idle" \in Stages /\ 0 \in 0 .. MaxFaults
    BY BoundAssumption DEF Stages
  <2> QED BY <2>1, <2>2, <2>3, <2>4 DEF Init, TypeOK
<1>2. \A t \in Txs : /\ intent[t].status = "none" /\ intent[t].nonce = NoMessage
                     /\ t \notin mirrored
  BY DEF Init, NoIntent
<1>3. \A t \in Txs : RowSound(t)
  BY <1>2 DEF RowSound
<1>4. DOMAIN byUpdate = {} /\ \A p \in Polls : DOMAIN todo[p] = {} /\ pc[p] = "idle"
  BY DEF Init
<1>5. ListSound /\ \A p \in Polls : PollSound(p)
  BY <1>4 DEF ListSound, PollSound, StageSound
<1> QED BY <1>1, <1>3, <1>5 DEF IInv

LEMMA NextSound == IInv /\ [Next]_vars => IInv' /\ Grows
<1> SUFFICES ASSUME IInv, [Next]_vars PROVE IInv' /\ Grows
  OBVIOUS
<1>1. ASSUME NEW u \in Users, Register(u) PROVE IInv' /\ Grows
  BY <1>1, RegisterSound
<1>2. ASSUME NEW t \in Txs, NEW u \in Users, NEW domain \in Domains,
             CreateIntent(t, u, domain)
      PROVE  IInv' /\ Grows
  BY <1>2, CreateSound
<1>3. ASSUME NEW t \in Txs, NEW user \in [BurnsOf(t) -> Users],
             NEW form \in [BurnsOf(t) -> Forms], BurnTx(t, user, form)
      PROVE  IInv' /\ Grows
  BY <1>3, BurnTxSound
<1>4. ASSUME NEW b \in Burns, AttestBurn(b) \/ receiveForRescue(b) PROVE IInv' /\ Grows
  BY <1>4, AttestSound, RescueSound
<1>5. ASSUME NEW p \in Polls, Step(p) PROVE IInv' /\ Grows
  <2>1. CASE StartPoll(p)
    BY <2>1, StartSound
  <2>2. CASE EndPoll(p) \/ Undecodable(p)
    BY <2>2, EndPollSound
  <2>3. CASE AskIris(p)
    BY <2>3, AskSound
  <2>4. CASE markBurned(p)
    BY <2>4, MarkBurnedSound
  <2>5. CASE failIntent(p)
    BY <2>5, FailIntentSound
  <2>6. CASE reassociateIntent(p)
    BY <2>6, ReassociateSound
  <2>7. CASE resolveUserKey(p)
    BY <2>7, ResolveSound
  <2>8. CASE parkNeedsOnboarding(p)
    BY <2>8, ParkSound
  <2>9. CASE advanceToAttested(p)
    BY <2>9, AdvanceSound
  <2>10. CASE EstimateGas(p)
    BY <2>10, EstimateSound
  <2>11. CASE SendSettle(p)
    BY <2>11, SendSound
  <2>12. CASE markCredited(p)
    BY <2>12, MarkCreditedSound
  <2> QED BY <1>5, <2>1, <2>2, <2>3, <2>4, <2>5, <2>6, <2>7, <2>8, <2>9, <2>10,
             <2>11, <2>12 DEF Step
<1>6. ASSUME NEW p \in Polls, EstimateLags(p) PROVE IInv' /\ Grows
  BY <1>6, EstimateSound
<1>7. ASSUME NEW p \in Polls, Abort(p) PROVE IInv' /\ Grows
  BY <1>7, EndPollSound
<1>8. ASSUME NEW p \in Polls, NEW b \in Burns, settleDeposit(p, b) PROVE IInv' /\ Grows
  BY <1>8, SettleSound
<1>9. CASE UNCHANGED vars
  <2>1. UNCHANGED <<rows, local>> /\ UNCHANGED <<intent, burn, used>>
    BY <1>9 DEF vars, rows, world, chain
  <2>2. TypeOK'
    BY <1>9 DEF vars, rows, world, chain, local, IInv, TypeOK
  <2>3. Grows
    BY <2>1, Quiet
  <2> QED BY <2>1, <2>2, <2>3, EnvSound
<1> QED BY <1>1, <1>2, <1>3, <1>4, <1>5, <1>6, <1>7, <1>8, <1>9 DEF Next, Mine

(* The invariant holds in every reachable state.                           *)
THEOREM Invariance == Spec => []IInv
<1>1. IInv /\ [Next]_vars => IInv'
  BY NextSound
<1> QED BY InitSound, <1>1, PTL DEF Spec

(* Rows, burns and polls keep their types, whatever the number of polls    *)
(* that run at once: the onramp never holds a row or a stage of another    *)
(* kind than onramp/service.ts and onramp/poller.ts name.                  *)
THEOREM TypeCorrect == Spec => []TypeOK
BY Invariance, PTL DEF IInv

(* However many polls work on stale rows of the same intent, and wherever  *)
(* they fail, an intent is credited only after its message was received,   *)
(* and to the account the burn was for (poller.ts, relayer.ts).            *)
THEOREM CreditsAreReceived == Spec => []CreditedIsReceived
<1>1. IInv => CreditedIsReceived
  <2> SUFFICES ASSUME IInv, NEW t \in Txs, Alone(t), intent[t].status = "credited"
               PROVE  /\ intent[t].nonce \in used
                      /\ intent[t].owner = burn[intent[t].nonce].user
    BY DEF CreditedIsReceived
  <2>1. RowSound(t)
    BY DEF IInv
  <2> QED BY <2>1 DEF RowSound, Owned
<1> QED BY Invariance, <1>1, PTL

(* The treasury's history names a fund intent exactly if it is credited:   *)
(* markCredited writes both in one transaction, and no stale poll undoes   *)
(* the one without the other (poller.ts:128-131).                          *)
THEOREM MirrorIsExact == Spec => []MirrorAgrees
<1>1. IInv => MirrorAgrees
  BY DEF IInv, RowSound, MirrorAgrees
<1> QED BY Invariance, <1>1, PTL

(* A credited or failed intent is never written again, though every poll   *)
(* that read it earlier may still patch it (service.ts, patchIntent).      *)
THEOREM SettledRowsStay == Spec => SettledStays
<1>1. IInv /\ [Next]_vars =>
        [\A t \in Txs : Alone(t) /\ intent[t].status \in Terminal =>
           intent'[t] = intent[t]]_vars
  <2> SUFFICES ASSUME IInv, [Next]_vars, NEW t \in Txs, Alone(t),
                      intent[t].status \in Terminal
               PROVE  intent'[t] = intent[t]
    OBVIOUS
  <2>1. Grows /\ intent[t].status # "none"
    BY NextSound DEF Terminal
  <2> QED BY <2>1 DEF Grows
<1>2. Spec => [][\A t \in Txs : Alone(t) /\ intent[t].status \in Terminal =>
                   intent'[t] = intent[t]]_vars
  BY Invariance, <1>1, PTL DEF Spec
<1> QED BY <1>2 DEF SettledStays

===============================================================================

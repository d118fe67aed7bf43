------------------------ MODULE TreasuryAccount_Proofs -------------------------
(***************************************************************************)
(* What the transactions of one account do, for any finite set of them:    *)
(* the pool holds no two of one nonce, a nonce just taken has no rival,    *)
(* and the pending count never falls.                                      *)
(***************************************************************************)
EXTENDS TreasuryAccount, FiniteSetTheorems, TLAPS

Sent == {"pooled", "dropped"} \cup Outcomes

(* Nonces are given out below the pending count and used up below next.    *)
NoncesInOrder(a) ==
  /\ \A t \in DOMAIN a.tx :
       /\ a.tx[t].status = "signed" => a.tx[t].nonce <= PendingCount(a)
       /\ a.tx[t].status \in Sent => a.tx[t].nonce < PendingCount(a)
       /\ a.tx[t].status = "pooled" => a.tx[t].nonce >= a.next
       /\ a.tx[t].status \in Outcomes => a.tx[t].nonce < a.next
  /\ \A t, u \in Pooled(a) : a.tx[t].nonce = a.tx[u].nonce => t = u

Ordered(Ts) == {a \in Account(Ts) : NoncesInOrder(a)}

LEMMA PoolFacts ==
  ASSUME NEW Ts, IsFiniteSet(Ts), NEW a \in Account(Ts)
  PROVE  /\ DOMAIN a.tx = Ts /\ a.next \in Nat
         /\ Pooled(a) = {t \in Ts : a.tx[t].status = "pooled"}
         /\ IsFiniteSet(Pooled(a)) /\ Cardinality(Pooled(a)) \in Nat
         /\ PendingCount(a) = a.next + Cardinality(Pooled(a))
         /\ PendingCount(a) \in Nat /\ PendingCount(a) >= a.next
<1>1. DOMAIN a.tx = Ts /\ a.next \in Nat
  BY DEF Account
<1>2. Pooled(a) = {t \in Ts : a.tx[t].status = "pooled"}
  BY <1>1 DEF Pooled, HasStatus
<1>3. IsFiniteSet(Pooled(a)) /\ Cardinality(Pooled(a)) \in Nat
  BY <1>2, FS_Subset, FS_CardinalityType
<1> QED BY <1>1, <1>2, <1>3 DEF PendingCount

LEMMA SignFacts ==
  ASSUME NEW Ts, IsFiniteSet(Ts), NEW a \in Account(Ts), NEW t \in Ts
  PROVE  /\ Sign(a, t) \in Account(Ts) /\ Sign(a, t).next = a.next
         /\ Sign(a, t).tx[t] = [status |-> "signed", nonce |-> PendingCount(a)]
         /\ \A u \in Ts \ {t} : Sign(a, t).tx[u] = a.tx[u]
<1>1. PendingCount(a) \in Nat
  BY PoolFacts
<1> QED BY <1>1 DEF Sign, Account, TxState

(* Signing a transaction that was not sent leaves the pool as it is.       *)
LEMMA SignOrdered ==
  ASSUME NEW Ts, IsFiniteSet(Ts), NEW a \in Ordered(Ts), NEW t \in Ts,
         a.tx[t].status = "unsigned"
  PROVE  /\ Sign(a, t) \in Ordered(Ts) /\ ~NonceTooLow(Sign(a, t), t)
         /\ Pooled(Sign(a, t)) = Pooled(a)
         /\ PendingCount(Sign(a, t)) = PendingCount(a)
<1> DEFINE b == Sign(a, t)
<1>1. a \in Account(Ts) /\ NoncesInOrder(a)
  BY DEF Ordered
<1>2. /\ b \in Account(Ts) /\ b.next = a.next
      /\ b.tx[t] = [status |-> "signed", nonce |-> PendingCount(a)]
      /\ \A u \in Ts \ {t} : b.tx[u] = a.tx[u]
  BY <1>1, SignFacts
<1> HIDE DEF b
<1>3. Pooled(b) = Pooled(a)
  <2>1. /\ Pooled(a) = {u \in Ts : a.tx[u].status = "pooled"}
        /\ Pooled(b) = {u \in Ts : b.tx[u].status = "pooled"}
    BY <1>1, <1>2, PoolFacts
  <2>2. \A u \in Ts : b.tx[u].status = "pooled" <=> a.tx[u].status = "pooled"
    BY <1>2
  <2> QED BY <2>1, <2>2
<1>4. PendingCount(b) = PendingCount(a)
  BY <1>2, <1>3 DEF PendingCount
<1>5. PendingCount(a) \in Nat /\ PendingCount(a) >= a.next /\ a.next \in Nat
      /\ DOMAIN a.tx = Ts /\ DOMAIN b.tx = Ts
  BY <1>1, <1>2, PoolFacts
<1>6. NoncesInOrder(b)
  <2>1. ASSUME NEW u \in Ts
        PROVE  /\ b.tx[u].status = "signed" => b.tx[u].nonce <= PendingCount(b)
               /\ b.tx[u].status \in Sent => b.tx[u].nonce < PendingCount(b)
               /\ b.tx[u].status = "pooled" => b.tx[u].nonce >= b.next
               /\ b.tx[u].status \in Outcomes => b.tx[u].nonce < b.next
    <3>1. CASE u = t
      BY <1>2, <1>4, <1>5, <3>1 DEF Sent, Outcomes
    <3>2. CASE u # t
      BY <1>1, <1>2, <1>4, <1>5, <3>2 DEF NoncesInOrder
    <3> QED BY <3>1, <3>2
  <2>2. \A u, v \in Pooled(b) : b.tx[u].nonce = b.tx[v].nonce => u = v
    <3>1. \A u \in Pooled(a) : u \in Ts \ {t}
      BY <1>1, PoolFacts
    <3> QED BY <1>1, <1>2, <1>3, <3>1 DEF NoncesInOrder
  <2> QED BY <1>5, <2>1, <2>2 DEF NoncesInOrder
<1>7. ~NonceTooLow(b, t)
  BY <1>2, <1>5 DEF NonceTooLow
<1> QED BY <1>2, <1>3, <1>4, <1>6, <1>7 DEF Ordered, b

LEMMA PutFacts ==
  ASSUME NEW Ts, IsFiniteSet(Ts), NEW a \in Account(Ts), NEW t \in Ts
  PROVE  LET b == PutInPool(a, t)
         IN  /\ b \in Account(Ts) /\ b.next = a.next
             /\ \A u \in Ts : b.tx[u].nonce = a.tx[u].nonce
             /\ b.tx[t].status = "pooled"
             /\ \A u \in Ts \ {t} :
                  b.tx[u].status = IF u \in Rivals(a, t) THEN "dropped" ELSE a.tx[u].status
<1> DEFINE f == [u \in DOMAIN a.tx |->
                  IF u = t THEN [a.tx[u] EXCEPT !.status = "pooled"]
                  ELSE IF u \in Rivals(a, t) THEN [a.tx[u] EXCEPT !.status = "dropped"]
                  ELSE a.tx[u]]
<1>1. DOMAIN a.tx = Ts /\ \A u \in Ts : a.tx[u] \in TxState
  BY DEF Account
<1>2. \A u \in Ts : f[u] \in TxState
  BY <1>1 DEF TxState
<1>3. f \in [Ts -> TxState]
  BY <1>1, <1>2
<1>4. \A u \in Ts : f[u].nonce = a.tx[u].nonce
  BY <1>1 DEF TxState
<1>5. f[t].status = "pooled"
  BY <1>1 DEF TxState
<1>6. \A u \in Ts \ {t} :
        f[u].status = IF u \in Rivals(a, t) THEN "dropped" ELSE a.tx[u].status
  BY <1>1 DEF TxState
<1> HIDE DEF f
<1>7. PutInPool(a, t) = [a EXCEPT !.tx = f]
  BY DEF PutInPool, f
<1>8. PutInPool(a, t) \in Account(Ts) /\ PutInPool(a, t).next = a.next
      /\ PutInPool(a, t).tx = f
  BY <1>3, <1>7 DEF Account
<1> QED BY <1>4, <1>5, <1>6, <1>8

(* A transaction that enters the pool drops its one rival, if it has one.  *)
LEMMA PutOrdered ==
  ASSUME NEW Ts, IsFiniteSet(Ts), NEW a \in Ordered(Ts), NEW t \in Ts,
         a.tx[t].status \in {"signed", "dropped"}, ~NonceTooLow(a, t)
  PROVE  /\ PutInPool(a, t) \in Ordered(Ts)
         /\ PendingCount(PutInPool(a, t)) >= PendingCount(a)
<1> DEFINE b == PutInPool(a, t)
           R == Rivals(a, t)
<1>1. a \in Account(Ts) /\ NoncesInOrder(a)
  BY DEF Ordered
<1>2. /\ b \in Account(Ts) /\ b.next = a.next
      /\ \A u \in Ts : b.tx[u].nonce = a.tx[u].nonce
      /\ b.tx[t].status = "pooled"
      /\ \A u \in Ts \ {t} : b.tx[u].status = IF u \in R THEN "dropped" ELSE a.tx[u].status
  BY <1>1, PutFacts
<1> HIDE DEF b
<1>3. /\ Pooled(a) = {u \in Ts : a.tx[u].status = "pooled"}
      /\ Pooled(b) = {u \in Ts : b.tx[u].status = "pooled"}
      /\ IsFiniteSet(Pooled(a)) /\ Cardinality(Pooled(a)) \in Nat
      /\ PendingCount(a) = a.next + Cardinality(Pooled(a))
      /\ PendingCount(b) = a.next + Cardinality(Pooled(b))
      /\ PendingCount(a) \in Nat /\ a.next \in Nat /\ PendingCount(b) \in Nat
      /\ DOMAIN a.tx = Ts /\ DOMAIN b.tx = Ts
      /\ \A u \in Ts : a.tx[u].nonce \in Nat
  BY <1>1, <1>2, PoolFacts DEF Account, TxState
<1>4. t \notin Pooled(a) /\ R \subseteq Pooled(a)
  BY <1>3 DEF Rivals
<1>5. Pooled(b) = (Pooled(a) \ R) \cup {t}
  <2>1. ASSUME NEW u \in Ts PROVE u \in Pooled(b) <=> u \in (Pooled(a) \ R) \cup {t}
    BY <1>2, <1>3, <2>1
  <2> QED BY <1>3, <2>1
<1>6. a.tx[t].nonce <= PendingCount(a) /\ a.tx[t].nonce >= a.next
  BY <1>1, <1>3 DEF NoncesInOrder, NonceTooLow, Sent
<1>7. PendingCount(b) >= PendingCount(a) /\ a.tx[t].nonce < PendingCount(b)
  <2>1. CASE R = {}
    <3>1. Pooled(b) = Pooled(a) \cup {t}
      BY <1>5, <2>1
    <3>2. IsFiniteSet(Pooled(a)) /\ t \notin Pooled(a)
      BY <1>3, <1>4
    <3>3. Cardinality(Pooled(a) \cup {t}) = Cardinality(Pooled(a)) + 1
      BY <3>2, FS_AddElement
    <3>4. Cardinality(Pooled(b)) = Cardinality(Pooled(a)) + 1
      BY <3>1, <3>3
    <3> QED BY <1>3, <1>6, <3>4
  <2>2. CASE R # {}
    <3>1. PICK w \in R : TRUE
      BY <2>2
    <3>2. R = {w}
      BY <1>1, <1>4, <3>1 DEF NoncesInOrder, Rivals
    <3> DEFINE Rest == Pooled(a) \ {w}
    <3>3. /\ IsFiniteSet(Rest) /\ Cardinality(Rest) = Cardinality(Pooled(a)) - 1
          /\ t \notin Rest /\ Pooled(b) = Rest \cup {t}
      BY <1>3, <1>4, <1>5, <3>1, <3>2, FS_RemoveElement
    <3> HIDE DEF Rest
    <3>4. Cardinality(Rest \cup {t}) = Cardinality(Rest) + 1
      BY <3>3, FS_AddElement
    <3>5. Cardinality(Pooled(b)) = Cardinality(Rest) + 1
      BY <3>3, <3>4
    <3>6. Cardinality(Pooled(a)) \in Nat /\ Cardinality(Rest) = Cardinality(Pooled(a)) - 1
      BY <1>3, <3>3
    <3>7. Cardinality(Pooled(b)) = Cardinality(Pooled(a))
      BY <3>5, <3>6
    <3>8. a.tx[w].nonce < PendingCount(a) /\ a.tx[w].nonce = a.tx[t].nonce
      BY <1>1, <1>3, <1>4, <3>1 DEF NoncesInOrder, Rivals, Sent
    <3> QED BY <1>3, <3>7, <3>8
  <2> QED BY <2>1, <2>2
<1>8. NoncesInOrder(b)
  <2>1. ASSUME NEW u \in Ts
        PROVE  /\ b.tx[u].status = "signed" => b.tx[u].nonce <= PendingCount(b)
               /\ b.tx[u].status \in Sent => b.tx[u].nonce < PendingCount(b)
               /\ b.tx[u].status = "pooled" => b.tx[u].nonce >= b.next
               /\ b.tx[u].status \in Outcomes => b.tx[u].nonce < b.next
    <3>1. CASE u = t
      BY <1>2, <1>3, <1>6, <1>7, <3>1 DEF Outcomes
    <3>2. CASE u \in R
      <4>1. b.tx[u].status = "dropped" /\ b.tx[u].nonce = a.tx[u].nonce
        BY <1>2, <1>4, <3>2
      <4>2. a.tx[u].nonce < PendingCount(a)
        <5>1. u \in Ts /\ a.tx[u].status = "pooled"
          BY <1>3, <1>4, <3>2
        <5> QED BY <1>1, <1>3, <5>1 DEF NoncesInOrder, Sent
      <4> QED BY <1>3, <1>7, <4>1, <4>2 DEF Outcomes
    <3>3. CASE u # t /\ u \notin R
      <4>1. b.tx[u].status = a.tx[u].status /\ b.tx[u].nonce = a.tx[u].nonce
        BY <1>2, <3>3
      <4> QED BY <1>1, <1>2, <1>3, <1>7, <4>1 DEF NoncesInOrder
    <3> QED BY <3>1, <3>2, <3>3
  <2>2. \A u, v \in Pooled(b) : b.tx[u].nonce = b.tx[v].nonce => u = v
    <3> SUFFICES ASSUME NEW u \in Pooled(b), NEW v \in Pooled(b),
                        a.tx[u].nonce = a.tx[v].nonce
                 PROVE  u = v
      BY <1>2, <1>3
    <3>1. \A w \in Pooled(a) : a.tx[w].nonce = a.tx[t].nonce => w \in R
      BY <1>4 DEF Rivals
    <3>2. CASE u = t \/ v = t
      BY <1>5, <3>1, <3>2
    <3>3. CASE u # t /\ v # t
      <4>1. u \in Pooled(a) /\ v \in Pooled(a)
        BY <1>5, <3>3
      <4> QED BY <1>1, <4>1 DEF NoncesInOrder
    <3> QED BY <3>2, <3>3
  <2> QED BY <1>3, <2>1, <2>2 DEF NoncesInOrder
<1> QED BY <1>2, <1>7, <1>8 DEF Ordered, b

LEMMA IncludeFacts ==
  ASSUME NEW Ts, IsFiniteSet(Ts), NEW a \in Account(Ts), NEW t \in Ts,
         NEW outcome \in Outcomes
  PROVE  LET b == Include(a, t, outcome)
         IN  /\ b \in Account(Ts) /\ b.next = a.next + 1
             /\ \A u \in Ts : b.tx[u].nonce = a.tx[u].nonce
             /\ b.tx[t].status = outcome
             /\ \A u \in Ts \ {t} : b.tx[u].status = a.tx[u].status
<1> DEFINE f == [a.tx EXCEPT ![t].status = outcome]
<1>1. /\ f \in [Ts -> TxState] /\ f[t].status = outcome
      /\ \A u \in Ts : f[u].nonce = a.tx[u].nonce
      /\ \A u \in Ts \ {t} : f[u].status = a.tx[u].status
  BY DEF Account, TxState, Outcomes
<1> HIDE DEF f
<1> DEFINE c == [a EXCEPT !.next = a.next + 1]
<1>2. c \in Account(Ts) /\ c.next = a.next + 1 /\ c.tx = a.tx
  BY DEF Account
<1>3. Include(a, t, outcome) = [c EXCEPT !.tx = [c.tx EXCEPT ![t].status = outcome]]
  BY DEF Include
<1> HIDE DEF c
<1>4. Include(a, t, outcome) = [c EXCEPT !.tx = f]
  BY <1>2, <1>3 DEF f
<1>5. Include(a, t, outcome) \in Account(Ts)
      /\ Include(a, t, outcome).next = a.next + 1 /\ Include(a, t, outcome).tx = f
  BY <1>1, <1>2, <1>4 DEF Account
<1> QED BY <1>1, <1>5

(* What leaves the pool uses up its nonce: the pending count stays.        *)
LEMMA IncludeOrdered ==
  ASSUME NEW Ts, IsFiniteSet(Ts), NEW a \in Ordered(Ts), NEW t \in Minable(a),
         NEW outcome \in Outcomes
  PROVE  /\ Include(a, t, outcome) \in Ordered(Ts)
         /\ PendingCount(Include(a, t, outcome)) = PendingCount(a)
<1> DEFINE b == Include(a, t, outcome)
<1>1. a \in Account(Ts) /\ NoncesInOrder(a) /\ t \in Pooled(a) /\ a.tx[t].nonce = a.next
  BY DEF Ordered, Minable
<1>2. t \in Ts /\ a.tx[t].status = "pooled"
  BY <1>1, PoolFacts
<1>3. /\ b \in Account(Ts) /\ b.next = a.next + 1
      /\ \A u \in Ts : b.tx[u].nonce = a.tx[u].nonce
      /\ b.tx[t].status = outcome
      /\ \A u \in Ts \ {t} : b.tx[u].status = a.tx[u].status
  BY <1>1, <1>2, IncludeFacts
<1> HIDE DEF b
<1>4. /\ Pooled(a) = {u \in Ts : a.tx[u].status = "pooled"}
      /\ Pooled(b) = {u \in Ts : b.tx[u].status = "pooled"}
      /\ IsFiniteSet(Pooled(a)) /\ Cardinality(Pooled(a)) \in Nat
      /\ PendingCount(a) = a.next + Cardinality(Pooled(a))
      /\ PendingCount(b) = a.next + 1 + Cardinality(Pooled(b))
      /\ a.next \in Nat /\ DOMAIN a.tx = Ts /\ DOMAIN b.tx = Ts
      /\ \A u \in Ts : a.tx[u].nonce \in Nat
  BY <1>1, <1>3, PoolFacts DEF Account, TxState
<1>5. Pooled(b) = Pooled(a) \ {t}
  <2>1. ASSUME NEW u \in Ts PROVE u \in Pooled(b) <=> u \in Pooled(a) \ {t}
    BY <1>3, <1>4, <2>1 DEF Outcomes
  <2> QED BY <1>4, <2>1
<1>6. PendingCount(b) = PendingCount(a)
  <2>1. IsFiniteSet(Pooled(a)) /\ t \in Pooled(a)
    BY <1>1, <1>4
  <2>2. Cardinality(Pooled(a) \ {t}) = Cardinality(Pooled(a)) - 1
    BY <2>1, FS_RemoveElement
  <2>3. Cardinality(Pooled(b)) = Cardinality(Pooled(a)) - 1
    BY <1>5, <2>2
  <2>4. /\ PendingCount(a) = a.next + Cardinality(Pooled(a))
        /\ PendingCount(b) = a.next + 1 + Cardinality(Pooled(b))
        /\ a.next \in Nat /\ Cardinality(Pooled(a)) \in Nat
    BY <1>4
  <2> QED BY <2>3, <2>4
<1>7. NoncesInOrder(b)
  <2>1. ASSUME NEW u \in Ts
        PROVE  /\ b.tx[u].status = "signed" => b.tx[u].nonce <= PendingCount(b)
               /\ b.tx[u].status \in Sent => b.tx[u].nonce < PendingCount(b)
               /\ b.tx[u].status = "pooled" => b.tx[u].nonce >= b.next
               /\ b.tx[u].status \in Outcomes => b.tx[u].nonce < b.next
    <3>1. CASE u = t
      <4>1. a.tx[t].nonce < PendingCount(a)
        BY <1>1, <1>2, <1>4 DEF NoncesInOrder, Sent
      <4> QED BY <1>1, <1>3, <1>4, <1>6, <3>1, <4>1 DEF Outcomes
    <3>2. CASE u # t
      <4>1. b.tx[u].status = a.tx[u].status /\ b.tx[u].nonce = a.tx[u].nonce
        BY <1>3, <3>2
      <4>2. a.tx[u].status = "pooled" => a.tx[u].nonce # a.tx[t].nonce
        BY <1>1, <1>4, <3>2 DEF NoncesInOrder
      <4> QED BY <1>1, <1>3, <1>4, <1>6, <4>1, <4>2 DEF NoncesInOrder
    <3> QED BY <3>1, <3>2
  <2>2. \A u, v \in Pooled(b) : b.tx[u].nonce = b.tx[v].nonce => u = v
    <3>1. \A u \in Pooled(b) : u \in Pooled(a) /\ b.tx[u].nonce = a.tx[u].nonce
      BY <1>3, <1>4, <1>5
    <3> QED BY <1>1, <3>1 DEF NoncesInOrder
  <2> QED BY <1>4, <2>1, <2>2 DEF NoncesInOrder
<1> QED BY <1>3, <1>6, <1>7 DEF Ordered, b

LEMMA NewOrdered ==
  ASSUME NEW Ts, IsFiniteSet(Ts) PROVE NewAccount(Ts) \in Ordered(Ts)
<1>1. NewAccount(Ts) \in Account(Ts)
  BY DEF NewAccount, Account, TxState
<1>2. \A t \in Ts : NewAccount(Ts).tx[t].status = "unsigned"
  BY DEF NewAccount
<1>3. Pooled(NewAccount(Ts)) = {} /\ DOMAIN NewAccount(Ts).tx = Ts
  BY <1>1, <1>2, PoolFacts
<1> QED BY <1>1, <1>2, <1>3 DEF Ordered, NoncesInOrder, Sent, Outcomes
===============================================================================

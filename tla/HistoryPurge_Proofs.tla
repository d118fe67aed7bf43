-------------------------- MODULE HistoryPurge_Proofs --------------------------
(***************************************************************************)
(* The purge loop keeps exactly the later entries, for arrays of every     *)
(* length.  The loop invariant: what has been walked over is later than    *)
(* transactionIndex, nothing later has been lost, and no entry is doubled. *)
(***************************************************************************)
EXTENDS HistoryPurge, TLAPS

(* in: the array at the start; upto: transactionIndex; s: the array now;   *)
(* n: the loop counter.                                                    *)
Good(in, upto, s, n) ==
  /\ upto \in Nat
  /\ s \in Seq(Nat)
  /\ n \in 0 .. Len(s)
  /\ Distinct(s)
  /\ \A k \in 1 .. Len(s) : s[k] \in Entries(in)
  /\ \A x \in Entries(in) : x > upto => \E k \in 1 .. Len(s) : s[k] = x
  /\ \A k \in 1 .. Len(s) : k > n => s[k] > upto

LoopInv == Good(input, transactionIndex, amountPCTs, i)

LEMMA SwapAndPopIs ==
  ASSUME NEW s \in Seq(Nat), NEW at \in 1 .. Len(s)
  PROVE  /\ SwapAndPop(s, at) \in Seq(Nat)
         /\ Len(SwapAndPop(s, at)) = Len(s) - 1
         /\ \A k \in 1 .. Len(s) - 1 :
              SwapAndPop(s, at)[k] = IF k = at THEN s[Len(s)] ELSE s[k]
BY DEF SwapAndPop

(* An iteration that keeps the entry it looks at.                          *)
LEMMA Keeps ==
  ASSUME NEW in, NEW upto, NEW s, NEW n, Good(in, upto, s, n), n > 0, s[n] > upto
  PROVE  Good(in, upto, s, n - 1)
BY DEF Good

(* An iteration that drops it.                                             *)
LEMMA Drops ==
  ASSUME NEW in, NEW upto, NEW s, NEW n, Good(in, upto, s, n), n > 0, s[n] <= upto
  PROVE  Good(in, upto, SwapAndPop(s, n), n - 1)
<1> DEFINE t == SwapAndPop(s, n)
<1>1. /\ upto \in Nat /\ s \in Seq(Nat) /\ Len(s) \in Nat
      /\ n \in 1 .. Len(s)
  BY DEF Good
<1>2. /\ t \in Seq(Nat) /\ Len(t) = Len(s) - 1
      /\ \A k \in 1 .. Len(t) : t[k] = IF k = n THEN s[Len(s)] ELSE s[k]
  BY <1>1, SwapAndPopIs
<1> HIDE DEF t
<1>3. \A j, k \in 1 .. Len(s) : s[j] = s[k] => j = k
  BY DEF Good, Distinct
<1>4. Distinct(t)
  <2> SUFFICES ASSUME NEW j \in 1 .. Len(t), NEW k \in 1 .. Len(t), t[j] = t[k]
               PROVE  j = k
    BY DEF Distinct
  <2>1. /\ j \in 1 .. Len(s) - 1 /\ k \in 1 .. Len(s) - 1
        /\ Len(s) \in 1 .. Len(s) /\ Len(s) \in Nat
    BY <1>1, <1>2
  <2>2. j \in 1 .. Len(s) /\ k \in 1 .. Len(s) /\ j # Len(s) /\ k # Len(s)
    BY <2>1
  <2>3. /\ t[j] = IF j = n THEN s[Len(s)] ELSE s[j]
        /\ t[k] = IF k = n THEN s[Len(s)] ELSE s[k]
    BY <1>2
  <2>4. CASE j # n /\ k # n
    <3>1. s[j] = s[k]
      BY <2>3, <2>4
    <3> QED BY <3>1, <2>2, <1>3
  <2>5. CASE j = n /\ k # n
    <3>1. s[Len(s)] = s[k]
      BY <2>3, <2>5
    <3> QED BY <3>1, <2>1, <2>2, <1>3
  <2>6. CASE j # n /\ k = n
    <3>1. s[Len(s)] = s[j]
      BY <2>3, <2>6
    <3> QED BY <3>1, <2>1, <2>2, <1>3
  <2> QED BY <2>4, <2>5, <2>6
<1>5. \A k \in 1 .. Len(t) : t[k] \in Entries(in)
  <2> SUFFICES ASSUME NEW k \in 1 .. Len(t) PROVE t[k] \in Entries(in)
    OBVIOUS
  <2>1. \A j \in 1 .. Len(s) : s[j] \in Entries(in)
    BY DEF Good
  <2>2. k \in 1 .. Len(s) /\ Len(s) \in 1 .. Len(s)
    BY <1>1, <1>2
  <2>3. t[k] = s[k] \/ t[k] = s[Len(s)]
    BY <1>2
  <2> QED BY <2>1, <2>2, <2>3
<1>6. ASSUME NEW x \in Entries(in), x > upto
      PROVE  \E k \in 1 .. Len(t) : t[k] = x
  <2>1. PICK j \in 1 .. Len(s) : s[j] = x
    BY <1>6 DEF Good
  <2>2. j # n
    BY <1>1, <1>6, <2>1
  <2>3. CASE j = Len(s)
    <3>1. n \in 1 .. Len(t)
      BY <1>1, <1>2, <2>1, <2>2, <2>3
    <3>2. t[n] = s[Len(s)]
      BY <1>2, <3>1
    <3> QED BY <3>1, <3>2, <2>1, <2>3
  <2>4. CASE j # Len(s)
    <3>1. j \in 1 .. Len(t) /\ t[j] = x
      BY <1>1, <1>2, <2>1, <2>2, <2>4
    <3> QED BY <3>1
  <2> QED BY <2>3, <2>4
<1>7. \A k \in 1 .. Len(t) : k > n - 1 => t[k] > upto
  <2> SUFFICES ASSUME NEW k \in 1 .. Len(t), k > n - 1 PROVE t[k] > upto
    OBVIOUS
  <2>1. \A j \in 1 .. Len(s) : j > n => s[j] > upto
    BY DEF Good
  <2>2. CASE k = n
    <3>1. t[k] = s[Len(s)] /\ Len(s) \in 1 .. Len(s) /\ Len(s) > n
      BY <1>1, <1>2, <2>2
    <3> QED BY <3>1, <2>1
  <2>3. CASE k # n
    <3>1. t[k] = s[k] /\ k \in 1 .. Len(s) /\ k > n
      BY <1>1, <1>2, <2>3
    <3> QED BY <3>1, <2>1
  <2> QED BY <2>2, <2>3
<1>8. n - 1 \in 0 .. Len(t)
  BY <1>1, <1>2
<1>9. Good(in, upto, t, n - 1)
  BY <1>1, <1>2, <1>4, <1>5, <1>6, <1>7, <1>8 DEF Good
<1> QED BY <1>9 DEF t

LEMMA LoopInit == Init => LoopInv
<1> SUFFICES ASSUME Init PROVE LoopInv
  OBVIOUS
<1>1. PICK n \in 0 .. MaxLength : input \in [1 .. n -> Indexes]
  BY DEF Init, Arrays
<1>2. input \in Seq(Nat) /\ Len(input) = n
  <2>1. n \in Nat
    BY LengthAssumption
  <2>2. input \in [1 .. n -> Nat]
    BY <1>1, IndexesAssumption
  <2> QED BY <2>1, <2>2
<1>3. \A k \in 1 .. Len(input) : input[k] \in Entries(input)
  BY DEF Entries
<1>4. \A x \in Entries(input) : \E k \in 1 .. Len(input) : input[k] = x
  BY DEF Entries
<1> QED BY <1>2, <1>3, <1>4, IndexesAssumption DEF Init, LoopInv, Good

LEMMA LoopStep == LoopInv /\ [Next]_vars => LoopInv'
<1> SUFFICES ASSUME LoopInv, [Next]_vars PROVE LoopInv'
  OBVIOUS
<1>1. CASE UNCHANGED vars
  BY <1>1 DEF vars, LoopInv
<1>2. CASE Iterate
  <2>1. CASE amountPCTs[i] > transactionIndex
    <3>1. Good(input, transactionIndex, amountPCTs, i - 1)
      BY <1>2, <2>1, Keeps DEF LoopInv, Iterate
    <3>2. /\ input' = input /\ transactionIndex' = transactionIndex
          /\ amountPCTs' = amountPCTs /\ i' = i - 1
      BY <1>2, <2>1 DEF Iterate, LoopInv, Good
    <3> QED BY <3>1, <3>2 DEF LoopInv
  <2>2. CASE amountPCTs[i] <= transactionIndex
    <3>1. Good(input, transactionIndex, SwapAndPop(amountPCTs, i), i - 1)
      BY <1>2, <2>2, Drops DEF LoopInv, Iterate
    <3>2. /\ input' = input /\ transactionIndex' = transactionIndex
          /\ amountPCTs' = SwapAndPop(amountPCTs, i) /\ i' = i - 1
      BY <1>2, <2>2 DEF Iterate
    <3> QED BY <3>1, <3>2 DEF LoopInv
  <2>3. amountPCTs[i] \in Int /\ transactionIndex \in Int
    BY <1>2 DEF LoopInv, Good, Iterate
  <2> QED BY <2>1, <2>2, <2>3
<1> QED BY <1>1, <1>2 DEF Next

(* The loop is the set filter PurgeAmounts of EncryptedUserBalances.       *)
THEOREM PurgeIsExact == Spec => []PurgesExactly
<1>1. LoopInv => PurgesExactly
  <2> SUFFICES ASSUME LoopInv, i = 0 PROVE PurgesExactly
    BY DEF PurgesExactly
  <2>1. /\ Len(amountPCTs) \in Nat
        /\ \A k \in 1 .. Len(amountPCTs) : /\ amountPCTs[k] \in Entries(input)
                                           /\ amountPCTs[k] > transactionIndex
    BY DEF LoopInv, Good
  <2>2. \A x \in Entries(input) :
          x > transactionIndex => \E k \in 1 .. Len(amountPCTs) : amountPCTs[k] = x
    BY DEF LoopInv, Good
  <2>3. Entries(amountPCTs) = {x \in Entries(input) : x > transactionIndex}
    <3>1. \A x : x \in Entries(amountPCTs)
                   <=> \E k \in 1 .. Len(amountPCTs) : amountPCTs[k] = x
      BY DEF Entries
    <3> QED BY <2>1, <2>2, <3>1
  <2> QED BY <2>3 DEF PurgesExactly, LoopInv, Good
<1> QED BY <1>1, LoopInit, LoopStep, PTL DEF Spec
===============================================================================

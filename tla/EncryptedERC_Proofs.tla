-------------------------- MODULE EncryptedERC_Proofs --------------------------
(***************************************************************************)
(* For every number of users, tokens, proofs and amounts: EncryptedERC     *)
(* keeps its types, lets a proof spend only what the account still holds,  *)
(* executes a mint proof once, implements PrivateLedger, stays solvent and *)
(* keeps accepted proofs valid and, of callers that encrypt the amount     *)
(* they deposit, every balance decryptable. With the gifts of              *)
(* PrivateGiftEscrow: the escrow holds of each token exactly what its open *)
(* gifts add up to, and a claim pays a gift once and in full.              *)
(*                                                                         *)
(* SnapshotsCovered is not inductive.  A spend opens a new nonce, and the  *)
(* snapshots of that nonce are covered only because there are none yet     *)
(* (NoncesPast); the balance stays non-negative only because the circuit   *)
(* bounded the amount by the snapshot (ProofsSound).  Solvency needs the   *)
(* token table in order (SInv), decryptability the PCTs counted at every   *)
(* index a proof may name (DInv), the escrow the ids of its tokens (GInv). *)
(*                                                                         *)
(* The theorems on EncryptedERC alone do not use EscrowAssumption.         *)
(***************************************************************************)
EXTENDS EncryptedERCRefinement, PrivateGiftEscrow, FiniteSetTheorems, TLAPS

-------------------------------------------------------------------------------
(* Sums over finite sets. The induction theorems of the library take the   *)
(* formula as a parameter; a minimal counterexample does without.          *)

(* The element a fold over s takes first.                                  *)
Pick(s) == CHOOSE x \in s : TRUE

(* g is the recursive function that a sum over S is defined by.            *)
IsSum(g, f, S) ==
  g = [s \in SUBSET S |-> IF s = {} THEN 0 ELSE f[Pick(s)] + g[s \ {Pick(s)}]]

LEMMA PickIn == \A s : s # {} => Pick(s) \in s
BY DEF Pick

(* Induction over the subsets of a finite set: of every kind of subset     *)
(* there is one with no smaller subset of its kind.                        *)
LEMMA MinimalSubset ==
  ASSUME NEW S, IsFiniteSet(S), NEW C, C \subseteq SUBSET S, C # {}
  PROVE  \E T \in C : \A U \in C : U \subseteq T => U = T
<1>1. IsWellFoundedOn(StrictSubsetOrdering(S), FiniteSubsetsOf(S))
  BY FS_StrictSubsetOrderingWellFounded
<1>2. C \subseteq FiniteSubsetsOf(S)
  BY FS_Subset DEF FiniteSubsetsOf
<1>3. \E T \in C : \A U \in C : ~ (<<U, T>> \in StrictSubsetOrdering(S))
  BY <1>1, <1>2, WFMin
<1> QED BY <1>3 DEF StrictSubsetOrdering

(* Two recursive definitions of a sum agree where both are defined.        *)
LEMMA SumUnique ==
  ASSUME NEW f, NEW U, NEW g, IsSum(g, f, U), NEW V, NEW h, IsSum(h, f, V),
         NEW S, IsFiniteSet(S), S \subseteq U, S \subseteq V
  PROVE  g[S] = h[S]
<1> DEFINE C == {T \in SUBSET S : g[T] # h[T]}
<1> SUFFICES ASSUME C # {} PROVE FALSE
  OBVIOUS
<1>1. PICK T \in C : \A W \in C : W \subseteq T => W = T
  <2>1. C \subseteq SUBSET S
    OBVIOUS
  <2> HIDE DEF C
  <2> QED BY <2>1, MinimalSubset
<1>2. T # {}
  BY DEF IsSum
<1>3. g[T \ {Pick(T)}] = h[T \ {Pick(T)}]
  BY <1>1, <1>2, PickIn
<1>4. /\ g[T] = f[Pick(T)] + g[T \ {Pick(T)}]
      /\ h[T] = f[Pick(T)] + h[T \ {Pick(T)}]
  BY <1>2 DEF IsSum
<1> QED BY <1>3, <1>4

(* The recursion of a sum over a finite set defines a function.            *)
LEMMA SumExists ==
  ASSUME NEW f, NEW S, IsFiniteSet(S)
  PROVE  \E g : IsSum(g, f, S)
<1> DEFINE C == {T \in SUBSET S : ~ \E g : IsSum(g, f, T)}
<1> SUFFICES ASSUME C # {} PROVE FALSE
  OBVIOUS
<1>1. PICK T \in C : \A W \in C : W \subseteq T => W = T
  <2>1. C \subseteq SUBSET S
    OBVIOUS
  <2> HIDE DEF C
  <2> QED BY <2>1, MinimalSubset
<1> DEFINE G(s) == CHOOSE g : IsSum(g, f, s)
           part(s) == G(s)[s]
           h == [s \in SUBSET T |->
                   IF s = {} THEN 0 ELSE f[Pick(s)] + part(s \ {Pick(s)})]
<1>2. ASSUME NEW s \in SUBSET T, s # T PROVE IsSum(G(s), f, s)
  BY <1>1, <1>2
<1>3. ASSUME NEW s \in SUBSET T, s # T PROVE h[s] = part(s)
  <2>1. CASE s = {}
    <3>1. IsSum(G(s), f, s)
      BY <1>2, <1>3
    <3>2. part(s) = 0
      <4> HIDE DEF G
      <4> QED BY <2>1, <3>1 DEF IsSum
    <3> QED BY <2>1, <3>2
  <2>2. CASE s # {}
    <3> DEFINE r == s \ {Pick(s)}
    <3>1. r \in SUBSET T /\ r # T /\ r \subseteq s /\ IsFiniteSet(r)
      BY <1>1, <1>3, FS_Subset
    <3>2. IsSum(G(s), f, s) /\ IsSum(G(r), f, r)
      BY <1>2, <1>3, <3>1
    <3>3. part(s) = f[Pick(s)] + G(s)[r]
      <4> HIDE DEF G
      <4> QED BY <2>2, <3>2 DEF IsSum
    <3>4. G(s)[r] = G(r)[r]
      <4> HIDE DEF G, r
      <4> QED BY <3>1, <3>2, SumUnique
    <3>5. h[s] = f[Pick(s)] + part(r)
      <4> HIDE DEF G, part
      <4> QED BY <2>2
    <3> QED BY <3>3, <3>4, <3>5
  <2> QED BY <2>1, <2>2
<1>4. IsSum(h, f, T)
  <2> HIDE DEF part
  <2>1. ASSUME NEW s \in SUBSET T, s # {}
        PROVE  h[s] = f[Pick(s)] + h[s \ {Pick(s)}]
    <3>1. h[s] = f[Pick(s)] + part(s \ {Pick(s)})
      BY <2>1
    <3>2. h[s \ {Pick(s)}] = part(s \ {Pick(s)})
      BY <1>3, <2>1, PickIn
    <3> QED BY <3>1, <3>2
  <2>2. h = [s \in SUBSET T |->
               IF s = {} THEN 0 ELSE f[Pick(s)] + h[s \ {Pick(s)}]]
    <3>1. h = [s \in SUBSET T |-> h[s]]
      OBVIOUS
    <3>2. h[{}] = 0
      OBVIOUS
    <3> HIDE DEF h
    <3> QED BY <2>1, <3>1, <3>2
  <2> HIDE DEF h
  <2> QED BY <2>2 DEF IsSum
<1> QED BY <1>1, <1>4

LEMMA SumIsSum ==
  ASSUME NEW f, NEW S, IsFiniteSet(S)
  PROVE  \E g : IsSum(g, f, S) /\ SumFunctionOnSet(f, S) = g[S]
<1> DEFINE g == CHOOSE g : IsSum(g, f, S)
<1>1. IsSum(g, f, S)
  BY SumExists
<1>2. SumFunctionOnSet(f, S) = g[S]
  BY DEF SumFunctionOnSet, FoldFunctionOnSet, MapThenFoldSet, IsSum, Pick
<1> QED BY <1>1, <1>2

(* SumFunctionOnSet of the community modules satisfies its recursion.      *)
LEMMA SumStep ==
  ASSUME NEW f, NEW S, IsFiniteSet(S)
  PROVE  SumFunctionOnSet(f, S) =
           IF S = {} THEN 0
           ELSE f[Pick(S)] + SumFunctionOnSet(f, S \ {Pick(S)})
<1>1. PICK g : IsSum(g, f, S) /\ SumFunctionOnSet(f, S) = g[S]
  BY SumIsSum
<1>2. CASE S = {}
  BY <1>1, <1>2 DEF IsSum
<1>3. CASE S # {}
  <2> DEFINE R == S \ {Pick(S)}
  <2>1. R \subseteq S /\ IsFiniteSet(R)
    BY FS_Subset
  <2>2. PICK h : IsSum(h, f, R) /\ SumFunctionOnSet(f, R) = h[R]
    BY <2>1, SumIsSum
  <2>3. g[R] = h[R]
    <3> HIDE DEF R
    <3> QED BY <1>1, <2>1, <2>2, SumUnique
  <2>4. g[S] = f[Pick(S)] + g[R]
    BY <1>1, <1>3 DEF IsSum
  <2> QED BY <1>1, <1>3, <2>2, <2>3, <2>4
<1> QED BY <1>2, <1>3

LEMMA SumEmpty == \A f : SumFunctionOnSet(f, {}) = 0
BY SumStep, FS_EmptySet

LEMMA SumNat ==
  ASSUME NEW S, IsFiniteSet(S), NEW f, \A x \in S : f[x] \in Nat
  PROVE  SumFunctionOnSet(f, S) \in Nat
<1> DEFINE C == {T \in SUBSET S : SumFunctionOnSet(f, T) \notin Nat}
<1> SUFFICES ASSUME C # {} PROVE FALSE
  OBVIOUS
<1>1. PICK T \in C : \A W \in C : W \subseteq T => W = T
  <2>1. C \subseteq SUBSET S
    OBVIOUS
  <2> HIDE DEF C
  <2> QED BY <2>1, MinimalSubset
<1>2. IsFiniteSet(T)
  BY FS_Subset
<1>3. T # {}
  BY SumEmpty
<1>4. SumFunctionOnSet(f, T \ {Pick(T)}) \in Nat
  BY <1>1, <1>3, PickIn
<1>5. f[Pick(T)] \in Nat
  BY <1>3, PickIn
<1> QED BY <1>2, <1>3, <1>4, <1>5, SumStep

LEMMA SumInt ==
  ASSUME NEW S, IsFiniteSet(S), NEW f, \A x \in S : f[x] \in Int
  PROVE  SumFunctionOnSet(f, S) \in Int
<1> DEFINE C == {T \in SUBSET S : SumFunctionOnSet(f, T) \notin Int}
<1> SUFFICES ASSUME C # {} PROVE FALSE
  OBVIOUS
<1>1. PICK T \in C : \A W \in C : W \subseteq T => W = T
  <2>1. C \subseteq SUBSET S
    OBVIOUS
  <2> HIDE DEF C
  <2> QED BY <2>1, MinimalSubset
<1>2. IsFiniteSet(T)
  BY FS_Subset
<1>3. T # {}
  BY SumEmpty
<1>4. SumFunctionOnSet(f, T \ {Pick(T)}) \in Int
  BY <1>1, <1>3, PickIn
<1>5. f[Pick(T)] \in Int
  BY <1>3, PickIn
<1> QED BY <1>2, <1>3, <1>4, <1>5, SumStep

LEMMA SumZero ==
  ASSUME NEW S, IsFiniteSet(S), NEW f, \A x \in S : f[x] = 0
  PROVE  SumFunctionOnSet(f, S) = 0
<1> DEFINE C == {T \in SUBSET S : SumFunctionOnSet(f, T) # 0}
<1> SUFFICES ASSUME C # {} PROVE FALSE
  OBVIOUS
<1>1. PICK T \in C : \A W \in C : W \subseteq T => W = T
  <2>1. C \subseteq SUBSET S
    OBVIOUS
  <2> HIDE DEF C
  <2> QED BY <2>1, MinimalSubset
<1>2. IsFiniteSet(T)
  BY FS_Subset
<1>3. T # {}
  BY SumEmpty
<1>4. SumFunctionOnSet(f, T \ {Pick(T)}) = 0
  BY <1>1, <1>3, PickIn
<1> QED BY <1>2, <1>3, <1>4, PickIn, SumStep

(* A sum depends on the values at its indices only.                        *)
LEMMA SumEqual ==
  ASSUME NEW S, IsFiniteSet(S), NEW f, NEW g, \A x \in S : f[x] = g[x]
  PROVE  SumFunctionOnSet(f, S) = SumFunctionOnSet(g, S)
<1> DEFINE C == {T \in SUBSET S : SumFunctionOnSet(f, T) # SumFunctionOnSet(g, T)}
<1> SUFFICES ASSUME C # {} PROVE FALSE
  OBVIOUS
<1>1. PICK T \in C : \A W \in C : W \subseteq T => W = T
  <2>1. C \subseteq SUBSET S
    OBVIOUS
  <2> HIDE DEF C
  <2> QED BY <2>1, MinimalSubset
<1>2. IsFiniteSet(T)
  BY FS_Subset
<1>3. T # {}
  BY SumEmpty
<1>4. SumFunctionOnSet(f, T \ {Pick(T)}) = SumFunctionOnSet(g, T \ {Pick(T)})
  BY <1>1, <1>3, PickIn
<1>5. f[Pick(T)] = g[Pick(T)]
  BY <1>3, PickIn
<1> QED BY <1>2, <1>3, <1>4, <1>5, SumStep

(* Any element may be taken out first: addition commutes.                  *)
LEMMA SumSplit ==
  ASSUME NEW S, IsFiniteSet(S), NEW f, \A x \in S : f[x] \in Int, NEW x \in S
  PROVE  SumFunctionOnSet(f, S) = f[x] + SumFunctionOnSet(f, S \ {x})
<1> DEFINE sum(T) == SumFunctionOnSet(f, T)
           C == {T \in SUBSET S : \E y \in T : sum(T) # f[y] + sum(T \ {y})}
<1> SUFFICES ASSUME C # {} PROVE FALSE
  OBVIOUS
<1>1. PICK T \in C : \A W \in C : W \subseteq T => W = T
  <2>1. C \subseteq SUBSET S
    OBVIOUS
  <2> HIDE DEF C
  <2> QED BY <2>1, MinimalSubset
<1>2. PICK y \in T : sum(T) # f[y] + sum(T \ {y})
  OBVIOUS
<1>3. \A W \in SUBSET T : W # T => \A z \in W : sum(W) = f[z] + sum(W \ {z})
  <2> HIDE DEF sum
  <2> QED BY <1>1
<1>4. \A W \in SUBSET T : IsFiniteSet(W) /\ sum(W) \in Int
  BY FS_Subset, SumInt
<1> DEFINE p == Pick(T)
<1>5. p \in T /\ y \in T /\ f[p] \in Int /\ f[y] \in Int
  BY PickIn
<1>6. sum(T) = f[p] + sum(T \ {p})
  BY <1>4, SumStep
<1> HIDE DEF sum, p, C
<1>7. p # y
  BY <1>2, <1>6
<1>8. /\ sum(T \ {p}) = f[y] + sum((T \ {p}) \ {y})
      /\ sum(T \ {y}) = f[p] + sum((T \ {y}) \ {p})
  BY <1>3, <1>5, <1>7
<1>9. /\ (T \ {p}) \ {y} = (T \ {y}) \ {p}
      /\ sum((T \ {p}) \ {y}) \in Int
  BY <1>4
<1>10. PICK rest \in Int :
         /\ sum(T \ {p}) = f[y] + rest
         /\ sum(T \ {y}) = f[p] + rest
  BY <1>8, <1>9
<1>11. sum(T) = f[y] + sum(T \ {y})
  BY <1>5, <1>6, <1>10
<1> QED BY <1>2, <1>11

LEMMA SumInsert ==
  ASSUME NEW S, IsFiniteSet(S), NEW x, x \notin S,
         NEW f, \A y \in S \cup {x} : f[y] \in Int
  PROVE  SumFunctionOnSet(f, S \cup {x}) = f[x] + SumFunctionOnSet(f, S)
<1>1. IsFiniteSet(S \cup {x}) /\ (S \cup {x}) \ {x} = S
  BY FS_AddElement
<1>2. \A T : T = S \cup {x} => SumFunctionOnSet(f, T) = f[x] + SumFunctionOnSet(f, T \ {x})
  BY <1>1, SumSplit
<1> QED BY <1>1, <1>2

(* Changing one value changes the sum by the difference.                   *)
LEMMA SumUpdate ==
  ASSUME NEW S, IsFiniteSet(S), NEW x \in S,
         NEW f, \A y \in S : f[y] \in Int,
         NEW g, \A y \in S : g[y] \in Int,
         \A y \in S \ {x} : f[y] = g[y]
  PROVE  SumFunctionOnSet(g, S) = SumFunctionOnSet(f, S) + g[x] - f[x]
<1>1. IsFiniteSet(S \ {x})
  BY FS_Subset
<1>2. SumFunctionOnSet(f, S \ {x}) = SumFunctionOnSet(g, S \ {x})
  BY <1>1, SumEqual
<1>3. SumFunctionOnSet(f, S \ {x}) \in Int
  BY <1>1, SumInt
<1>4. /\ SumFunctionOnSet(f, S) = f[x] + SumFunctionOnSet(f, S \ {x})
      /\ SumFunctionOnSet(g, S) = g[x] + SumFunctionOnSet(g, S \ {x})
  BY SumSplit
<1> QED BY <1>2, <1>3, <1>4

(* No term of a sum of naturals exceeds it.                                *)
LEMMA SumAtLeast ==
  ASSUME NEW S, IsFiniteSet(S), NEW f, \A y \in S : f[y] \in Nat, NEW x \in S
  PROVE  f[x] <= SumFunctionOnSet(f, S)
<1>1. SumFunctionOnSet(f, S \ {x}) \in Nat
  BY FS_Subset, SumNat
<1>2. SumFunctionOnSet(f, S) = f[x] + SumFunctionOnSet(f, S \ {x})
  BY SumSplit
<1> QED BY <1>1, <1>2

-------------------------------------------------------------------------------
(* The invariant.                                                          *)

(* The history never mentions a nonce the account has not reached.         *)
NoncesReached(b) == \A e \in b.balanceList : e.nonce <= b.nonce

NoncesPast == \A u \in Users, i \in TokenIds : NoncesReached(balances[u][i])

(* What the transfer, withdraw and burn circuits enforce.                  *)
ProofsSound ==
  \A p \in ProofIds :
    proofs[p] # NoProof =>
      /\ proofs[p].kind # "mint" => proofs[p].amount <= proofs[p].ct.m
      /\ proofs[p].kind = "mint" =>
           uses[p] = IF p \in alreadyMinted THEN 1 ELSE 0

UnusedUntilBuilt ==
  \A p \in ProofIds : proofs[p] = NoProof => uses[p] = 0 /\ p \notin alreadyMinted

GoodBalance(b) == b \in EncryptedBalance /\ Covered(b) /\ NoncesReached(b)

IInv == TypeOK /\ SnapshotsCovered /\ NoncesPast /\ ProofsSound /\ UnusedUntilBuilt

-------------------------------------------------------------------------------
(* The storage operations, one account at a time.                          *)

LEMMA EmptyGood == GoodBalance(EmptyBalance)
BY DEF GoodBalance, EmptyBalance, EncryptedBalance, Covered, NoncesReached,
       Ciphertext, Encrypt

LEMMA Counters ==
  ASSUME NEW b \in EncryptedBalance
  PROVE  b.transactionIndex + 1 \in Nat /\ b.nonce + 1 \in Nat
BY DEF EncryptedBalance

(* Writing a history entry adds the current balance and nothing else.      *)
LEMMA RememberAdds ==
  ASSUME NEW b \in EncryptedBalance
  PROVE  /\ Remember(b) \subseteq BalanceHistory
         /\ \A e \in Remember(b) :
              \/ e \in b.balanceList
              \/ e.ct = b.eGCT /\ e.nonce = b.nonce
BY DEF Remember, Snapshot, EncryptedBalance, BalanceHistory

(* A record whose history is that of an account b with no more money and   *)
(* no later nonce, plus the balance of b, is good.                         *)
LEMMA RecordedGood ==
  ASSUME NEW b \in EncryptedBalance, b.eGCT.m >= 0,
         \A e \in b.balanceList :
           \/ e.nonce < b.nonce
           \/ e.nonce = b.nonce /\ 0 <= e.ct.m /\ e.ct.m <= b.eGCT.m,
         NEW c \in EncryptedBalance,
         c.eGCT = b.eGCT, c.nonce = b.nonce, c.balanceList = Remember(b)
  PROVE  GoodBalance(c)
<1>1. Covered(c)
  BY RememberAdds DEF Covered, EncryptedBalance, BalanceHistory, Ciphertext
<1>2. NoncesReached(c)
  BY RememberAdds DEF NoncesReached, EncryptedBalance, BalanceHistory
<1> QED BY <1>1, <1>2 DEF GoodBalance

LEMMA CommitGood ==
  ASSUME NEW b \in EncryptedBalance, b.eGCT.m >= 0,
         \A e \in b.balanceList :
           \/ e.nonce < b.nonce
           \/ e.nonce = b.nonce /\ 0 <= e.ct.m /\ e.ct.m <= b.eGCT.m
  PROVE  GoodBalance(CommitUserBalance(b))
<1> DEFINE c == CommitUserBalance(b)
<1>1. c \in EncryptedBalance
  BY RememberAdds, Counters DEF CommitUserBalance, EncryptedBalance
<1>2. c.eGCT = b.eGCT /\ c.nonce = b.nonce /\ c.balanceList = Remember(b)
  BY DEF CommitUserBalance, EncryptedBalance
<1> HIDE DEF c
<1>3. GoodBalance(c)
  BY <1>1, <1>2, RecordedGood
<1> QED BY <1>3 DEF c

(* A credit keeps every snapshot of the account covered.                   *)
LEMMA AddGood ==
  ASSUME NEW b, GoodBalance(b), NEW v \in Nat, NEW r \in Int, NEW pct \in Nat
  PROVE  GoodBalance(AddToUserBalance(b, Encrypt(v, r), pct))
<1> DEFINE d == [b EXCEPT !.eGCT = AddCt(b.eGCT, Encrypt(v, r))]
           c == AddToUserBalance(b, Encrypt(v, r), pct)
<1>1. d \in EncryptedBalance /\ d.eGCT.m = b.eGCT.m + v
  BY DEF GoodBalance, EncryptedBalance, Ciphertext, AddCt, Encrypt
<1>2. \A e \in d.balanceList :
           \/ e.nonce < d.nonce
           \/ e.nonce = d.nonce /\ 0 <= e.ct.m /\ e.ct.m <= d.eGCT.m
  BY <1>1 DEF GoodBalance, Covered, NoncesReached, EncryptedBalance,
              BalanceHistory, Ciphertext
<1>3. d.eGCT.m >= 0
  BY <1>1 DEF GoodBalance, Covered, EncryptedBalance, Ciphertext
<1>4. c = AddToUserHistory(d, pct)
  BY DEF AddToUserBalance
<1> HIDE DEF d, c
<1>5. c \in EncryptedBalance
  <2>1. [amount |-> pct, index |-> d.transactionIndex] \in AmountPCT
    BY <1>1 DEF EncryptedBalance, AmountPCT
  <2>2. /\ Remember(d) \in SUBSET BalanceHistory
        /\ d.transactionIndex + 1 \in Nat
    BY <1>1, RememberAdds, Counters
  <2> QED BY <1>1, <1>4, <2>1, <2>2 DEF AddToUserHistory, EncryptedBalance
<1>6. c.eGCT = d.eGCT /\ c.nonce = d.nonce /\ c.balanceList = Remember(d)
  BY <1>1, <1>4 DEF AddToUserHistory, EncryptedBalance
<1>7. GoodBalance(c)
  BY <1>1, <1>2, <1>3, <1>5, <1>6, RecordedGood
<1> QED BY <1>7 DEF c

LEMMA ConvertGood ==
  ASSUME NEW b, GoodBalance(b), NEW v \in Nat, NEW r \in Int, NEW pct \in Nat
  PROVE  GoodBalance(ConvertCredit(b, Encrypt(v, r), pct))
<1> DEFINE d == [b EXCEPT !.eGCT = AddCt(b.eGCT, Encrypt(v, r)),
                          !.amountPCTs = b.amountPCTs \cup
                             {[amount |-> pct, index |-> b.transactionIndex]},
                          !.transactionIndex = b.transactionIndex + 1]
           c == ConvertCredit(b, Encrypt(v, r), pct)
<1>1. d \in EncryptedBalance /\ d.eGCT.m = b.eGCT.m + v
  <2>1. /\ b \in EncryptedBalance
        /\ b.transactionIndex + 1 \in Nat
    BY Counters DEF GoodBalance
  <2>2. [amount |-> pct, index |-> b.transactionIndex] \in AmountPCT
    BY <2>1 DEF EncryptedBalance, AmountPCT
  <2>3. /\ AddCt(b.eGCT, Encrypt(v, r)) \in Ciphertext
        /\ AddCt(b.eGCT, Encrypt(v, r)).m = b.eGCT.m + v
    BY <2>1 DEF EncryptedBalance, Ciphertext, AddCt, Encrypt
  <2> QED BY <2>1, <2>2, <2>3 DEF EncryptedBalance
<1>2. \A e \in d.balanceList :
           \/ e.nonce < d.nonce
           \/ e.nonce = d.nonce /\ 0 <= e.ct.m /\ e.ct.m <= d.eGCT.m
  BY <1>1 DEF GoodBalance, Covered, NoncesReached, EncryptedBalance,
              BalanceHistory, Ciphertext
<1>3. d.eGCT.m >= 0
  BY <1>1 DEF GoodBalance, Covered, EncryptedBalance, Ciphertext
<1>4. c = CommitUserBalance(d)
  BY DEF ConvertCredit
<1> HIDE DEF d, c
<1>5. GoodBalance(c)
  BY <1>1, <1>2, <1>3, <1>4, CommitGood
<1> QED BY <1>5 DEF c

(* A spend of at most what its snapshot encrypts leaves a covered account. *)
LEMMA SpendGood ==
  ASSUME NEW b, GoodBalance(b), NEW ct \in Ciphertext,
         NEW e \in VerifyUserBalance(b, ct),
         NEW v \in Nat, v <= ct.m, NEW r \in Int, NEW pct \in Nat
  PROVE  GoodBalance(SubtractFromUserBalance(b, Encrypt(v, r), pct, e.index))
<1> DEFINE d == [b EXCEPT !.eGCT = SubCt(b.eGCT, Encrypt(v, r)),
                          !.amountPCTs = PurgeAmounts(b.amountPCTs, e.index),
                          !.nonce = b.nonce + 1]
           c == SubtractFromUserBalance(b, Encrypt(v, r), pct, e.index)
<1>1. d \in EncryptedBalance /\ d.eGCT.m = b.eGCT.m - v
  <2>1. /\ b \in EncryptedBalance
        /\ b.nonce + 1 \in Nat
    BY Counters DEF GoodBalance
  <2>2. /\ SubCt(b.eGCT, Encrypt(v, r)) \in Ciphertext
        /\ SubCt(b.eGCT, Encrypt(v, r)).m = b.eGCT.m - v
    BY <2>1 DEF EncryptedBalance, Ciphertext, SubCt, Encrypt
  <2>3. PurgeAmounts(b.amountPCTs, e.index) \in SUBSET AmountPCT
    BY <2>1 DEF EncryptedBalance, PurgeAmounts
  <2> QED BY <2>1, <2>2, <2>3 DEF EncryptedBalance
<1>2. \A f \in d.balanceList : f.nonce < d.nonce
  BY <1>1 DEF GoodBalance, NoncesReached, EncryptedBalance, BalanceHistory
<1>3. v <= b.eGCT.m
  BY DEF VerifyUserBalance, SameKey, GoodBalance, Covered, EncryptedBalance,
         BalanceHistory, Ciphertext
<1>4. d.eGCT.m >= 0
  BY <1>1, <1>3 DEF GoodBalance, EncryptedBalance, Ciphertext
<1>5. c = [CommitUserBalance(d) EXCEPT !.balancePCT = pct]
  BY DEF SubtractFromUserBalance, DeleteUserHistory
<1> HIDE DEF d, c
<1>6. GoodBalance(CommitUserBalance(d))
  BY <1>1, <1>2, <1>4, CommitGood
<1>7. GoodBalance(c)
  BY <1>5, <1>6 DEF GoodBalance, EncryptedBalance, Covered, NoncesReached
<1> QED BY <1>7 DEF c

-------------------------------------------------------------------------------
(* The whole ledger.                                                       *)

AllGood(bal) ==
  /\ bal \in [Users -> [TokenIds -> EncryptedBalance]]
  /\ \A u \in Users, i \in TokenIds : GoodBalance(bal[u][i])

LEMMA AccountsGood == IInv => AllGood(balances)
BY DEF IInv, TypeOK, SnapshotsCovered, NoncesPast, AllGood, GoodBalance

LEMMA UpdateGood ==
  ASSUME NEW bal, AllGood(bal), NEW u \in Users, NEW i \in TokenIds,
         NEW b, GoodBalance(b)
  PROVE  AllGood([bal EXCEPT ![u][i] = b])
BY DEF AllGood, GoodBalance

LEMMA Scaling ==
  ASSUME NEW t \in Tokens, NEW a \in Nat
  PROVE  /\ PrivateValue(t, a) \in Nat
         /\ Dust(t, a) \in Int
         /\ PublicValue(t, a) \in Int
BY ScaleAssumption DEF PrivateValue, Dust, PublicValue

LEMMA ReceivedInt ==
  ASSUME NEW t, NEW a \in Int
  PROVE  Received(t, a) \in Int
BY DEF Received

LEMMA InitGood == Init => IInv
<1> SUFFICES ASSUME Init PROVE IInv
  OBVIOUS
<1>1. \A u \in Users, i \in TokenIds : balances[u][i] = EmptyBalance
  BY DEF Init
<1>2. SnapshotsCovered /\ NoncesPast
  BY <1>1, EmptyGood DEF SnapshotsCovered, NoncesPast, GoodBalance
<1>3. balances \in [Users -> [TokenIds -> EncryptedBalance]]
  BY EmptyGood DEF Init, GoodBalance
<1>4. TypeOK
  <2>1. 0 \in TokenIds
    BY BoundAssumption DEF TokenIds
  <2>2. erc \in [Holders -> [Tokens -> Int]] /\ reserve \in [Tokens -> Int]
    BY DataAssumption DEF Init
  <2> QED BY <1>3, <2>1, <2>2 DEF Init, TypeOK
<1>5. ProofsSound /\ UnusedUntilBuilt
  BY DEF Init, ProofsSound, UnusedUntilBuilt
<1> QED BY <1>2, <1>4, <1>5 DEF IInv

(* The parts of IInv that speak of an account follow from AllGood.         *)
LEMMA GoodAccounts == AllGood(balances) => SnapshotsCovered /\ NoncesPast
BY DEF AllGood, GoodBalance, SnapshotsCovered, NoncesPast

LEMMA AdministerStep == IInv /\ Administer => IInv'
<1> SUFFICES ASSUME IInv, Administer PROVE IInv'
  OBVIOUS
<1>1. UNCHANGED <<tracker, balances, cash, proofs, alreadyMinted, uses>>
  BY DEF Administer, Register, SetAuditorPublicKey, SetTokenBlacklist,
         SetAuthorizedDepositor
<1>2. /\ registered' \subseteq Users
      /\ auditor' \in Users \cup {NoAuditor}
      /\ blacklisted' \subseteq Tokens
      /\ authorized' \subseteq Depositors
      /\ isConverter' = isConverter
  BY BoundAssumption
     DEF IInv, TypeOK, Administer, Register, SetAuditorPublicKey,
         SetTokenBlacklist, SetAuthorizedDepositor
<1>3. TypeOK'
  BY <1>1, <1>2 DEF IInv, TypeOK, tracker, cash
<1>4. (SnapshotsCovered /\ NoncesPast /\ ProofsSound /\ UnusedUntilBuilt)'
  BY <1>1 DEF IInv, SnapshotsCovered, NoncesPast, ProofsSound, UnusedUntilBuilt
<1> QED BY <1>3, <1>4 DEF IInv

(* The contract's part of a deposit, whoever pays and whatever is given    *)
(* back.                                                                   *)
LEMMA CollectStep ==
  ASSUME IInv, NEW payer \in Holders, NEW to \in Users, NEW amount \in Nat,
         NEW t \in Tokens, NEW pct \in Nat,
         CollectFrom(payer, to, amount, t, pct),
         erc' \in [Holders -> [Tokens -> Int]]
  PROVE  IInv'
<1>1. /\ tokenIds' \in [Tokens -> TokenIds]
      /\ tokenAddresses' \in [TokenIds -> Tokens \cup {NoToken}]
      /\ nextTokenId' \in Nat
  <2>1. AddToken(t)
    BY DEF CollectFrom, ConvertFrom
  <2>2. CASE tokenIds[t] = 0
    <3>1. /\ nextTokenId \in TokenIds
          /\ tokenIds' = [tokenIds EXCEPT ![t] = nextTokenId]
          /\ tokenAddresses' = [tokenAddresses EXCEPT ![nextTokenId] = t]
          /\ nextTokenId' = nextTokenId + 1
      BY <2>1, <2>2 DEF AddToken
    <3>2. nextTokenId + 1 \in Nat
      BY DEF IInv, TypeOK
    <3> QED BY <3>1, <3>2 DEF IInv, TypeOK
  <2>3. CASE tokenIds[t] # 0
    BY <2>1, <2>3 DEF IInv, TypeOK, AddToken, tracker
  <2> QED BY <2>2, <2>3
<1>2. AllGood(balances')
  <2>1. CASE UNCHANGED balances
    BY <2>1, AccountsGood
  <2>2. CASE ~UNCHANGED balances
    <3> DEFINE i == tokenIds'[t]
               b == ConvertCredit(balances[to][i],
                                  Encrypt(PrivateValue(t, amount), 1), pct)
    <3>1. balances' = [balances EXCEPT ![to][i] = b]
      BY <2>2 DEF CollectFrom, ConvertFrom
    <3>2. i \in TokenIds
      BY <1>1
    <3>3. GoodBalance(b)
      BY <3>2, AccountsGood, Scaling, ConvertGood DEF AllGood
    <3> HIDE DEF i, b
    <3> QED BY <3>1, <3>2, <3>3, AccountsGood, UpdateGood
  <2> QED BY <2>1, <2>2
<1>3. reserve' \in [Tokens -> Int]
  BY Scaling, ReceivedInt DEF IInv, TypeOK, CollectFrom
<1>4. TypeOK'
  BY <1>1, <1>2, <1>3 DEF IInv, TypeOK, CollectFrom, admin, AllGood
<1>5. (SnapshotsCovered /\ NoncesPast)'
  BY <1>2, GoodAccounts DEF AllGood, GoodBalance, SnapshotsCovered, NoncesPast
<1>6. (ProofsSound /\ UnusedUntilBuilt)'
  BY DEF IInv, CollectFrom, ProofsSound, UnusedUntilBuilt
<1> QED BY <1>4, <1>5, <1>6 DEF IInv

LEMMA DepositStep ==
  ASSUME IInv, NEW payer \in Holders, NEW to \in Users, NEW amount \in Nat,
         NEW t \in Tokens, NEW pct \in Nat,
         ExecuteDepositFrom(payer, to, amount, t, pct)
  PROVE  IInv'
<1>1. erc' \in [Holders -> [Tokens -> Int]]
  BY Scaling DEF IInv, TypeOK, ExecuteDepositFrom
<1> QED BY <1>1, CollectStep DEF ExecuteDepositFrom

LEMMA MakeDepositStep == IInv /\ MakeDeposit => IInv'
<1> SUFFICES ASSUME IInv, MakeDeposit PROVE IInv'
  OBVIOUS
<1>1. PICK u \in Users, amount \in Amounts, t \in Tokens :
        \/ Deposit(u, amount, t)
        \/ \E d \in Depositors, drift \in PctDrift :
             DepositFor(d, u, amount, t, drift)
  BY DEF MakeDeposit
<1>2. amount \in Nat /\ PrivateValue(t, amount) \in Nat
  BY DataAssumption, Scaling
<1>3. CASE Deposit(u, amount, t)
  BY <1>2, <1>3, DepositStep DEF Deposit, Holders
<1>4. ASSUME NEW d \in Depositors, NEW drift \in PctDrift,
             DepositFor(d, u, amount, t, drift)
      PROVE  IInv'
  <2>1. PrivateValue(t, amount) + drift \in Nat
    BY <1>2, DataAssumption
  <2> QED BY <1>2, <1>4, <2>1, DepositStep DEF DepositFor, Holders
<1> QED BY <1>1, <1>3, <1>4

(* The debit half of a transfer, and all of a withdrawal or a burn.        *)
LEMMA DebitGood ==
  ASSUME AllGood(balances), NEW q, q.from \in Users, q.id \in TokenIds,
         q.ct \in Ciphertext, q.amount \in Nat, q.amount <= q.ct.m,
         q.balancePCT \in Nat, NEW r \in Int, NEW e \in SpendableEntries(q)
  PROVE  AllGood(Debited(q, e, r))
<1> DEFINE b == SubtractFromUserBalance(balances[q.from][q.id],
                  Encrypt(q.amount, r), q.balancePCT, e.index)
<1>1. GoodBalance(b)
  BY SpendGood DEF AllGood, SpendableEntries
<1>2. Debited(q, e, r) = [balances EXCEPT ![q.from][q.id] = b]
  BY DEF Debited
<1> HIDE DEF b
<1>3. AllGood([balances EXCEPT ![q.from][q.id] = b])
  BY <1>1, UpdateGood
<1> QED BY <1>2, <1>3

LEMMA BuildStep == IInv /\ BuildProof => IInv'
<1> SUFFICES ASSUME IInv, BuildProof PROVE IInv'
  OBVIOUS
<1>1. PICK p \in ProofIds, q \in Proof :
        /\ StoreProof(p, q)
        /\ q.kind # "mint" => q.amount <= q.ct.m
  <2>1. PICK p \in ProofIds, from \in Users, amount \in Amounts, r \in Randoms :
          \/ BuildMint(p, from, amount, r)
          \/ \E kind \in SpendKinds, to \in Users, i \in TokenIds :
               BuildSpend(p, kind, from, to, i, amount, r)
    BY DEF BuildProof
  <2>2. amount \in Nat /\ r \in Int
    BY DataAssumption
  <2>3. CASE BuildMint(p, from, amount, r)
    <3> DEFINE q == [kind |-> "mint", from |-> from, to |-> from, id |-> 0,
                     ct |-> Encrypt(0, 0), amount |-> amount, r |-> r,
                     auditor |-> auditor, balancePCT |-> 0]
    <3>1. StoreProof(p, q) /\ q.kind = "mint"
      BY <2>3 DEF BuildMint
    <3>2. auditor \in Users
      BY <3>1 DEF StoreProof, IInv, TypeOK
    <3>3. Encrypt(0, 0) \in Ciphertext /\ 0 \in TokenIds
      BY BoundAssumption DEF Encrypt, Ciphertext, TokenIds
    <3>4. q \in Proof
      BY <2>2, <3>2, <3>3 DEF Proof, Kinds
    <3> QED BY <3>1, <3>4
  <2>4. ASSUME NEW kind \in SpendKinds, NEW to \in Users, NEW i \in TokenIds,
               BuildSpend(p, kind, from, to, i, amount, r)
        PROVE  \E q \in Proof :
                 StoreProof(p, q) /\ (q.kind # "mint" => q.amount <= q.ct.m)
    <3> DEFINE q == [kind |-> kind, from |-> from, to |-> to, id |-> i,
                     ct |-> balances[from][i].eGCT, amount |-> amount, r |-> r,
                     auditor |-> auditor,
                     balancePCT |-> Balance(from, i) - amount]
    <3>1. StoreProof(p, q) /\ q.amount <= q.ct.m
      BY <2>4 DEF BuildSpend, Balance
    <3>2. auditor \in Users
      BY <3>1 DEF StoreProof, IInv, TypeOK
    <3>3. /\ balances[from][i].eGCT \in Ciphertext
          /\ Balance(from, i) - amount \in Nat
      BY <2>2, <2>4 DEF BuildSpend, IInv, TypeOK, EncryptedBalance, Ciphertext, Balance
    <3>4. kind \in Kinds
      BY DEF SpendKinds, Kinds
    <3>5. q \in Proof
      BY <2>2, <3>2, <3>3, <3>4 DEF Proof
    <3> QED BY <3>1, <3>5
  <2> QED BY <2>1, <2>3, <2>4
<1>2. TypeOK'
  BY <1>1 DEF StoreProof, IInv, TypeOK, admin, tracker, cash
<1>3. (SnapshotsCovered /\ NoncesPast)'
  BY <1>1 DEF StoreProof, IInv, SnapshotsCovered, NoncesPast
<1>4. (ProofsSound /\ UnusedUntilBuilt)'
  BY <1>1, NameAssumption
     DEF StoreProof, IInv, TypeOK, ProofsSound, UnusedUntilBuilt
<1> QED BY <1>2, <1>3, <1>4 DEF IInv

(* A spend that leaves good accounts behind leaves the invariant behind.   *)
LEMMA LandingGood ==
  ASSUME IInv, NEW p \in ProofIds, Execute(p), AllGood(balances'),
         proofs[p] # NoProof, proofs[p].kind # "mint", UNCHANGED alreadyMinted,
         erc' \in [Holders -> [Tokens -> Int]], reserve' \in [Tokens -> Int]
  PROVE  IInv'
<1>1. TypeOK'
  BY DEF Execute, IInv, TypeOK, admin, tracker, AllGood
<1>2. (SnapshotsCovered /\ NoncesPast)'
  BY DEF AllGood, GoodBalance, SnapshotsCovered, NoncesPast
<1>3. (ProofsSound /\ UnusedUntilBuilt)'
  BY DEF Execute, IInv, TypeOK, ProofsSound, UnusedUntilBuilt
<1> QED BY <1>1, <1>2, <1>3 DEF IInv

(* What a submitted spend proof is known to state.                         *)
LEMMA StatementOfProof ==
  ASSUME IInv, NEW p \in ProofIds, proofs[p] # NoProof
  PROVE  /\ proofs[p] \in Proof
         /\ proofs[p].kind # "mint" => proofs[p].amount <= proofs[p].ct.m
         /\ proofs[p].from \in Users /\ proofs[p].to \in Users
         /\ proofs[p].id \in TokenIds /\ proofs[p].ct \in Ciphertext
         /\ proofs[p].amount \in Nat /\ proofs[p].r \in Int
         /\ proofs[p].balancePCT \in Nat
<1>1. proofs[p] \in Proof
  BY DEF IInv, TypeOK
<1> QED BY <1>1 DEF IInv, ProofsSound, Proof

LEMMA TransferStep ==
  ASSUME IInv, NEW p \in ProofIds, Transfer(p) PROVE IInv'
<1> DEFINE q == proofs[p]
<1>1. q # NoProof /\ q.kind = "transfer"
  BY DEF Transfer, Submittable
<1>2. PICK e \in SpendableEntries(q) :
        balances' = [Debited(q, e, q.r) EXCEPT ![q.to][q.id] =
                       AddToUserBalance(@, Encrypt(q.amount, q.r), q.amount)]
  BY DEF Transfer
<1>3. AllGood(balances')
  <2> DEFINE mid == Debited(q, e, q.r)
             b == AddToUserBalance(mid[q.to][q.id], Encrypt(q.amount, q.r), q.amount)
  <2>1. balances' = [mid EXCEPT ![q.to][q.id] = b]
    BY <1>2
  <2>2. AllGood(mid)
    <3>1. /\ q.from \in Users /\ q.id \in TokenIds /\ q.ct \in Ciphertext
          /\ q.amount \in Nat /\ q.amount <= q.ct.m
          /\ q.balancePCT \in Nat /\ q.r \in Int
      BY <1>1, StatementOfProof
    <3>2. AllGood(balances)
      BY AccountsGood
    <3> HIDE DEF q
    <3> QED BY <1>2, <3>1, <3>2, DebitGood
  <2> HIDE DEF mid
  <2>3. GoodBalance(b)
    BY <1>1, <2>2, AddGood, StatementOfProof DEF AllGood
  <2> HIDE DEF b
  <2> QED BY <1>1, <2>1, <2>2, <2>3, UpdateGood, StatementOfProof
<1>4. erc' \in [Holders -> [Tokens -> Int]] /\ reserve' \in [Tokens -> Int]
  BY DEF Transfer, IInv, TypeOK, cash
<1> QED BY <1>1, <1>3, <1>4, LandingGood DEF Transfer

LEMMA BurnStep ==
  ASSUME IInv, NEW p \in ProofIds, PrivateBurn(p) PROVE IInv'
<1> DEFINE q == proofs[p]
<1>1. q # NoProof /\ q.kind = "burn"
  BY DEF PrivateBurn, Submittable
<1>2. PICK e \in SpendableEntries(q) : balances' = Debited(q, e, q.r)
  BY DEF PrivateBurn
<1>3. AllGood(balances')
  <2>1. /\ q.from \in Users /\ q.id \in TokenIds /\ q.ct \in Ciphertext
        /\ q.amount \in Nat /\ q.amount <= q.ct.m
        /\ q.balancePCT \in Nat /\ q.r \in Int
    BY <1>1, StatementOfProof
  <2>2. AllGood(balances)
    BY AccountsGood
  <2> HIDE DEF q
  <2> QED BY <1>2, <2>1, <2>2, DebitGood
<1>4. erc' \in [Holders -> [Tokens -> Int]] /\ reserve' \in [Tokens -> Int]
  BY DEF PrivateBurn, IInv, TypeOK, cash
<1> QED BY <1>1, <1>3, <1>4, LandingGood DEF PrivateBurn

LEMMA WithdrawStep ==
  ASSUME IInv, NEW p \in ProofIds, Withdraw(p) PROVE IInv'
<1> DEFINE q == proofs[p]
<1>1. q # NoProof /\ q.kind = "withdraw"
  BY DEF Withdraw, Submittable
<1>2. PICK e \in SpendableEntries(q) : balances' = Debited(q, e, 1)
  BY DEF Withdraw
<1>3. AllGood(balances')
  <2>1. /\ q.from \in Users /\ q.id \in TokenIds /\ q.ct \in Ciphertext
        /\ q.amount \in Nat /\ q.amount <= q.ct.m
        /\ q.balancePCT \in Nat /\ 1 \in Int
    BY <1>1, StatementOfProof
  <2>2. AllGood(balances)
    BY AccountsGood
  <2> HIDE DEF q
  <2> QED BY <1>2, <2>1, <2>2, DebitGood
<1>4. erc' \in [Holders -> [Tokens -> Int]] /\ reserve' \in [Tokens -> Int]
  <2> DEFINE t == tokenAddresses[q.id]
             v == PublicValue(t, q.amount)
  <2>1. q.from \in Holders /\ t \in Tokens
    BY <1>1, StatementOfProof DEF Holders, Withdraw, IInv, TypeOK
  <2>2. /\ reserve' = [reserve EXCEPT ![t] = @ - v]
        /\ erc' = [erc EXCEPT ![q.from][t] = @ + Received(t, v)]
    BY DEF Withdraw
  <2>3. v \in Int /\ Received(t, v) \in Int
    BY <1>1, <2>1, StatementOfProof, Scaling, ReceivedInt
  <2> HIDE DEF v, t, q
  <2>4. reserve' \in [Tokens -> Int]
    BY <2>1, <2>2, <2>3 DEF IInv, TypeOK
  <2>5. erc' \in [Holders -> [Tokens -> Int]]
    BY <2>1, <2>2, <2>3 DEF IInv, TypeOK
  <2> QED BY <2>4, <2>5
<1> QED BY <1>1, <1>3, <1>4, LandingGood DEF Withdraw

LEMMA MintStep ==
  ASSUME IInv, NEW p \in ProofIds, PrivateMint(p) PROVE IInv'
<1> DEFINE q == proofs[p]
           b == AddToUserBalance(balances[q.to][q.id],
                                 Encrypt(q.amount, q.r), q.amount)
<1>1. q # NoProof /\ q.kind = "mint"
  BY DEF PrivateMint, Submittable
<1>2. balances' = [balances EXCEPT ![q.to][q.id] = b]
  BY DEF PrivateMint
<1>3. GoodBalance(b)
  BY <1>1, AddGood, AccountsGood, StatementOfProof DEF AllGood
<1>4. AllGood([balances EXCEPT ![q.to][q.id] = b])
  <2> HIDE DEF b
  <2> QED BY <1>1, <1>3, UpdateGood, AccountsGood, StatementOfProof
<1>5. AllGood(balances')
  BY <1>2, <1>4
<1>6. TypeOK'
  BY <1>5 DEF PrivateMint, Execute, IInv, TypeOK, admin, tracker, cash, AllGood
<1>7. (SnapshotsCovered /\ NoncesPast)'
  BY <1>5 DEF AllGood, GoodBalance, SnapshotsCovered, NoncesPast
<1>8. (ProofsSound /\ UnusedUntilBuilt)'
  BY <1>1 DEF PrivateMint, Execute, IInv, TypeOK, ProofsSound, UnusedUntilBuilt
<1> QED BY <1>6, <1>7, <1>8 DEF IInv

-------------------------------------------------------------------------------
(* IInv is an inductive invariant of EncryptedERC.                         *)
LEMMA StepGood == IInv /\ [Next]_vars => IInv'
<1> SUFFICES ASSUME IInv, [Next]_vars PROVE IInv'
  OBVIOUS
<1>1. CASE Administer
  BY <1>1, AdministerStep
<1>2. CASE MakeDeposit
  BY <1>2, MakeDepositStep
<1>3. CASE BuildProof
  BY <1>3, BuildStep
<1>4. CASE SubmitProof
  BY <1>4, TransferStep, WithdrawStep, BurnStep, MintStep DEF SubmitProof
<1>5. CASE UNCHANGED vars
  <2>1. TypeOK'
    BY <1>5 DEF IInv, TypeOK, vars, admin, tracker, cash
  <2>2. (SnapshotsCovered /\ NoncesPast /\ ProofsSound /\ UnusedUntilBuilt)'
    BY <1>5 DEF IInv, vars, SnapshotsCovered, NoncesPast, ProofsSound,
                UnusedUntilBuilt
  <2> QED BY <2>1, <2>2 DEF IInv
<1> QED BY <1>1, <1>2, <1>3, <1>4, <1>5 DEF Next

THEOREM Invariance == Spec => []IInv
BY InitGood, StepGood, PTL DEF Spec

(* Every variable keeps the type the contract's storage gives it.          *)
THEOREM TypeCorrect == Spec => []TypeOK
<1>1. IInv => TypeOK
  BY DEF IInv
<1> QED BY <1>1, Invariance, PTL

(* A proof, however stale, can spend only what its account still holds.    *)
THEOREM SpendsAreCovered == Spec => []SnapshotsCovered
<1>1. IInv => SnapshotsCovered
  BY DEF IInv
<1> QED BY <1>1, Invariance, PTL

(* A mint proof takes effect at most once.                                 *)
THEOREM MintsAreSingle == Spec => []MintedOnce
<1>1. IInv => MintedOnce
  BY DEF IInv, ProofsSound, MintedOnce
<1> QED BY <1>1, Invariance, PTL

-------------------------------------------------------------------------------
(* What the storage operations do to the amount an account holds.          *)
LEMMA AddMoves ==
  ASSUME NEW b \in EncryptedBalance, NEW v \in Nat, NEW r \in Int, NEW pct \in Nat
  PROVE  AddToUserBalance(b, Encrypt(v, r), pct).eGCT.m = b.eGCT.m + v
<1>1. AddToUserBalance(b, Encrypt(v, r), pct).eGCT = AddCt(b.eGCT, Encrypt(v, r))
  BY DEF AddToUserBalance, AddToUserHistory, EncryptedBalance
<1> QED BY <1>1 DEF AddCt, Encrypt

LEMMA ConvertMoves ==
  ASSUME NEW b \in EncryptedBalance, NEW v \in Nat, NEW r \in Int, NEW pct \in Nat
  PROVE  ConvertCredit(b, Encrypt(v, r), pct).eGCT.m = b.eGCT.m + v
<1>1. ConvertCredit(b, Encrypt(v, r), pct).eGCT = AddCt(b.eGCT, Encrypt(v, r))
  BY DEF ConvertCredit, CommitUserBalance, EncryptedBalance
<1> QED BY <1>1 DEF AddCt, Encrypt

LEMMA SubtractMoves ==
  ASSUME NEW b \in EncryptedBalance, NEW v \in Nat, NEW r \in Int,
         NEW pct \in Nat, NEW index
  PROVE  SubtractFromUserBalance(b, Encrypt(v, r), pct, index).eGCT.m
           = b.eGCT.m - v
<1>1. SubtractFromUserBalance(b, Encrypt(v, r), pct, index).eGCT
        = SubCt(b.eGCT, Encrypt(v, r))
  BY DEF SubtractFromUserBalance, DeleteUserHistory, CommitUserBalance,
         EncryptedBalance
<1> QED BY <1>1 DEF SubCt, Encrypt

(* The ledger h after v was added to, or taken from, one account.          *)
Adding(h, u, i, v) == [h EXCEPT ![u][i] = @ + v]
Taking(h, u, i, v) == [h EXCEPT ![u][i] = @ - v]

LEMMA AccountRecord ==
  ASSUME AllGood(balances), NEW u \in Users, NEW i \in TokenIds
  PROVE  balances[u][i] \in EncryptedBalance
BY DEF AllGood

LEMMA HeldType ==
  ASSUME AllGood(balances), NEW u \in Users, NEW i \in TokenIds
  PROVE  HeldIn(balances)[u][i] = balances[u][i].eGCT.m
         /\ HeldIn(balances)[u][i] \in Nat
BY DEF HeldIn, AllGood, GoodBalance, Covered, EncryptedBalance, Ciphertext

LEMMA HeldInt ==
  ASSUME NEW bal, AllGood(bal)
  PROVE  HeldIn(bal) \in [Users -> [TokenIds -> Int]]
BY DEF HeldIn, AllGood, EncryptedBalance, Ciphertext

LEMMA AddingNothing ==
  ASSUME NEW h \in [Users -> [TokenIds -> Int]], NEW u \in Users,
         NEW i \in TokenIds
  PROVE  Adding(h, u, i, 0) = h
<1>1. h[u][i] + 0 = h[u][i]
  OBVIOUS
<1>2. [h EXCEPT ![u][i] = h[u][i]] = h
  OBVIOUS
<1> QED BY <1>1, <1>2 DEF Adding

(* A deposit adds the scaled amount to the account of the recipient.       *)
LEMMA DepositMoves ==
  ASSUME IInv, NEW payer, NEW to \in Users, NEW amount \in Nat,
         NEW t \in Tokens, NEW pct \in Nat,
         CollectFrom(payer, to, amount, t, pct),
         NEW i \in TokenIds, i = tokenIds'[t],
         NEW v \in Nat, v = PrivateValue(t, amount)
  PROVE  HeldIn(balances)' = Adding(HeldIn(balances), to, i, v)
<1>0. CASE v = 0
  <2>1. UNCHANGED balances
    BY <1>0 DEF CollectFrom, ConvertFrom
  <2>2. HeldIn(balances)' = HeldIn(balances)
    BY <2>1 DEF HeldIn
  <2> QED BY <1>0, <2>2, AccountsGood, HeldInt, AddingNothing
<1> SUFFICES ASSUME v # 0
             PROVE  HeldIn(balances)' = Adding(HeldIn(balances), to, i, v)
  BY <1>0
<1> DEFINE b == ConvertCredit(balances[to][i], Encrypt(v, 1), pct)
<1>1. balances' = [balances EXCEPT ![to][i] = b]
  BY DEF CollectFrom, ConvertFrom
<1>2. AllGood(balances)
  BY AccountsGood
<1>3. b.eGCT.m = balances[to][i].eGCT.m + v
  BY <1>2, AccountRecord, ConvertMoves
<1> HIDE DEF b
<1> QED BY <1>1, <1>2, <1>3, HeldType DEF AllGood, HeldIn, Adding

(* The contract accepts no spend above the balance it is taken from.       *)
LEMMA SpendCovered ==
  ASSUME IInv, NEW p \in ProofIds, proofs[p] # NoProof, proofs[p].kind # "mint",
         NEW e \in SpendableEntries(proofs[p])
  PROVE  proofs[p].amount <= balances[proofs[p].from][proofs[p].id].eGCT.m
<1> DEFINE q == proofs[p]
           b == balances[q.from][q.id]
<1>1. /\ q.from \in Users /\ q.id \in TokenIds
      /\ q.amount \in Nat /\ q.ct \in Ciphertext /\ q.amount <= q.ct.m
  BY StatementOfProof
<1>2. e \in b.balanceList /\ e.ct = q.ct /\ e.nonce = b.nonce
  BY DEF SpendableEntries, VerifyUserBalance, SameKey
<1>3. b \in EncryptedBalance /\ Covered(b)
  BY <1>1, AccountsGood DEF AllGood, GoodBalance
<1> HIDE DEF q, b
<1>4. q.ct.m <= b.eGCT.m
  BY <1>2, <1>3 DEF Covered
<1>5. q.amount <= b.eGCT.m
  BY <1>1, <1>3, <1>4 DEF EncryptedBalance, Ciphertext
<1> QED BY <1>5 DEF q, b

(* A spend takes its amount, which is at most what is held.                *)
LEMMA SpendMoves ==
  ASSUME IInv, NEW p \in ProofIds, proofs[p] # NoProof,
         proofs[p].kind # "mint", NEW r \in Int,
         NEW e \in SpendableEntries(proofs[p]),
         NEW new, new = Debited(proofs[p], e, r)
  PROVE  /\ AllGood(new)
         /\ HeldIn(new) = Taking(HeldIn(balances), proofs[p].from, proofs[p].id,
                                 proofs[p].amount)
         /\ proofs[p].amount <= HeldIn(balances)[proofs[p].from][proofs[p].id]
<1> DEFINE q == proofs[p]
           b == SubtractFromUserBalance(balances[q.from][q.id],
                  Encrypt(q.amount, r), q.balancePCT, e.index)
<1>1. new = [balances EXCEPT ![q.from][q.id] = b]
  BY DEF Debited
<1>2. AllGood(balances)
  BY AccountsGood
<1>3. q.amount <= balances[q.from][q.id].eGCT.m
  BY SpendCovered
<1>4. b.eGCT.m = balances[q.from][q.id].eGCT.m - q.amount
  BY <1>2, StatementOfProof, AccountRecord, SubtractMoves
<1>5. q.from \in Users /\ q.id \in TokenIds /\ q.amount \in Nat
  BY StatementOfProof
<1>6. AllGood(new)
  BY <1>2, DebitGood, StatementOfProof
<1> HIDE DEF q, b
<1>7. HeldIn(new) = Taking(HeldIn(balances), q.from, q.id, q.amount)
  <2>1. HeldIn(new) = [HeldIn(balances) EXCEPT ![q.from][q.id] = b.eGCT.m]
    <3>1. balances \in [Users -> [TokenIds -> EncryptedBalance]]
      BY <1>2 DEF AllGood
    <3> QED BY <1>1, <1>5, <3>1 DEF HeldIn
  <2> QED BY <1>2, <1>4, <1>5, <2>1, HeldType DEF Taking
<1>8. q.amount <= HeldIn(balances)[q.from][q.id]
  BY <1>2, <1>3, <1>5, HeldType
<1> QED BY <1>6, <1>7, <1>8 DEF q

(* A transfer moves its amount, to oneself included.                       *)
LEMMA TransferMoves ==
  ASSUME IInv, NEW p \in ProofIds, Transfer(p)
  PROVE  /\ proofs[p] # NoProof
         /\ proofs[p].amount <= HeldIn(balances)[proofs[p].from][proofs[p].id]
         /\ HeldIn(balances)' =
              Adding(Taking(HeldIn(balances), proofs[p].from, proofs[p].id,
                            proofs[p].amount),
                     proofs[p].to, proofs[p].id, proofs[p].amount)
<1> DEFINE q == proofs[p]
<1>1. q # NoProof /\ q.kind # "mint"
  BY DEF Transfer, Submittable
<1>2. PICK e \in SpendableEntries(q) :
        balances' = [Debited(q, e, q.r) EXCEPT ![q.to][q.id] =
                       AddToUserBalance(@, Encrypt(q.amount, q.r), q.amount)]
  BY DEF Transfer
<1> DEFINE mid == Debited(q, e, q.r)
           c == AddToUserBalance(mid[q.to][q.id], Encrypt(q.amount, q.r), q.amount)
<1>3. balances' = [mid EXCEPT ![q.to][q.id] = c]
  BY <1>2
<1>4. /\ q.from \in Users /\ q.to \in Users /\ q.id \in TokenIds
      /\ q.amount \in Nat /\ q.r \in Int
  BY <1>1, StatementOfProof
<1>5. /\ AllGood(mid)
      /\ HeldIn(mid) = Taking(HeldIn(balances), q.from, q.id, q.amount)
      /\ q.amount <= HeldIn(balances)[q.from][q.id]
  BY <1>1, <1>4, SpendMoves
<1> HIDE DEF mid
<1>6. c.eGCT.m = mid[q.to][q.id].eGCT.m + q.amount
  <2>1. mid[q.to][q.id] \in EncryptedBalance /\ q.amount \in Int
    BY <1>4, <1>5 DEF AllGood
  <2> QED BY <1>4, <2>1, AddMoves
<1>7. HeldIn(mid)[q.to][q.id] = mid[q.to][q.id].eGCT.m
  BY <1>4 DEF HeldIn
<1> HIDE DEF q, c
<1>8. HeldIn(balances)' = [HeldIn(mid) EXCEPT ![q.to][q.id] = c.eGCT.m]
  <2>1. mid \in [Users -> [TokenIds -> EncryptedBalance]]
    BY <1>5 DEF AllGood
  <2> QED BY <1>3, <1>4, <2>1 DEF HeldIn
<1>9. HeldIn(balances)' = Adding(HeldIn(mid), q.to, q.id, q.amount)
  BY <1>6, <1>7, <1>8 DEF Adding
<1> QED BY <1>1, <1>5, <1>9 DEF q

LEMMA MintMoves ==
  ASSUME IInv, NEW p \in ProofIds, PrivateMint(p)
  PROVE  HeldIn(balances)' = Adding(HeldIn(balances), proofs[p].to, proofs[p].id,
                                    proofs[p].amount)
<1> DEFINE q == proofs[p]
           b == AddToUserBalance(balances[q.to][q.id],
                                 Encrypt(q.amount, q.r), q.amount)
<1>1. q # NoProof
  BY DEF PrivateMint, Submittable
<1>2. balances' = [balances EXCEPT ![q.to][q.id] = b]
  BY DEF PrivateMint
<1>3. AllGood(balances)
  BY AccountsGood
<1>4. b.eGCT.m = balances[q.to][q.id].eGCT.m + q.amount
  <2>1. /\ balances[q.to][q.id] \in EncryptedBalance
        /\ q.r \in Int /\ q.amount \in Nat
    BY <1>1, <1>3, StatementOfProof, AccountRecord
  <2>2. q.amount \in Int
    BY <2>1
  <2> QED BY <2>1, <2>2, AddMoves
<1>5. q.to \in Users /\ q.id \in TokenIds /\ q.amount \in Nat
  BY <1>1, StatementOfProof
<1> HIDE DEF q, b
<1>6. HeldIn(balances)' = Adding(HeldIn(balances), q.to, q.id, q.amount)
  BY <1>2, <1>3, <1>4, <1>5, HeldType DEF HeldIn, AllGood, Adding
<1> QED BY <1>6 DEF q

-------------------------------------------------------------------------------
(* The ledger the contract implements.                                     *)

LEMMA CreditRefines ==
  ASSUME AllGood(balances), NEW u \in Users, NEW i \in TokenIds, NEW v \in Nat,
         HeldIn(balances)' = Adding(HeldIn(balances), u, i, v)
  PROVE  Ledger!Next
<1>1. HeldIn(balances)[u][i] \in Nat
  BY HeldType
<1>2. HeldIn(balances)'[u][i] = HeldIn(balances)[u][i] + v
  BY DEF HeldIn, Adding
<1>3. HeldIn(balances)' = [HeldIn(balances) EXCEPT ![u][i] = HeldIn(balances)'[u][i]]
  BY <1>2 DEF Adding
<1>4. Ledger!Credit(u, i)
  BY <1>1, <1>2, <1>3 DEF Ledger!Credit
<1> QED BY <1>4 DEF Ledger!Next

LEMMA DepositRefines ==
  ASSUME IInv, NEW payer \in Holders, NEW to \in Users, NEW amount \in Nat,
         NEW t \in Tokens, NEW pct \in Nat,
         ExecuteDepositFrom(payer, to, amount, t, pct)
  PROVE  Ledger!Next
<1>1. tokenIds'[t] \in TokenIds
  <2>1. IInv'
    BY DepositStep
  <2> QED BY <2>1 DEF IInv, TypeOK
<1>2. PICK i \in TokenIds : i = tokenIds'[t]
  BY <1>1
<1>3. PICK v \in Nat : v = PrivateValue(t, amount)
  BY Scaling
<1>4. CollectFrom(payer, to, amount, t, pct) /\ AllGood(balances)
  BY AccountsGood DEF ExecuteDepositFrom
<1>5. HeldIn(balances)' = Adding(HeldIn(balances), to, i, v)
  BY <1>2, <1>3, <1>4, DepositMoves
<1> QED BY <1>4, <1>5, CreditRefines

LEMMA SpendRefines ==
  ASSUME IInv, NEW p \in ProofIds, proofs[p] # NoProof,
         proofs[p].kind # "mint", NEW r \in Int,
         NEW e \in SpendableEntries(proofs[p]),
         balances' = Debited(proofs[p], e, r)
  PROVE  Ledger!Next
<1> DEFINE q == proofs[p]
<1>1. q.from \in Users /\ q.id \in TokenIds /\ q.amount \in Nat
  BY StatementOfProof
<1>2. /\ HeldIn(balances') = Taking(HeldIn(balances), q.from, q.id, q.amount)
      /\ q.amount <= HeldIn(balances)[q.from][q.id]
  BY SpendMoves
<1>3. q.amount \in 0 .. HeldIn(balances)[q.from][q.id]
  BY <1>1, <1>2, AccountsGood, HeldType
<1> HIDE DEF q
<1>4. Ledger!Debit(q.from, q.id)
  BY <1>2, <1>3 DEF Ledger!Debit, HeldIn, Taking
<1> QED BY <1>1, <1>4 DEF Ledger!Next

LEMMA TransferRefines ==
  ASSUME IInv, NEW p \in ProofIds, Transfer(p) PROVE Ledger!Next
<1> DEFINE q == proofs[p]
<1>1. /\ q # NoProof
      /\ q.amount <= HeldIn(balances)[q.from][q.id]
      /\ HeldIn(balances)' =
           Adding(Taking(HeldIn(balances), q.from, q.id, q.amount),
                  q.to, q.id, q.amount)
  BY TransferMoves
<1>2. /\ q.from \in Users /\ q.to \in Users /\ q.id \in TokenIds
      /\ q.amount \in Nat
  BY <1>1, StatementOfProof
<1>3. q.amount \in 0 .. HeldIn(balances)[q.from][q.id]
  BY <1>1, <1>2, AccountsGood, HeldType
<1> HIDE DEF q
<1>4. Ledger!Move(q.from, q.to, q.id)
  BY <1>1, <1>3 DEF Ledger!Move, Adding, Taking
<1> QED BY <1>2, <1>4 DEF Ledger!Next

LEMMA MintRefines ==
  ASSUME IInv, NEW p \in ProofIds, PrivateMint(p) PROVE Ledger!Next
<1>1. /\ proofs[p].to \in Users /\ proofs[p].id \in TokenIds
      /\ proofs[p].amount \in Nat
  BY StatementOfProof DEF PrivateMint, Submittable
<1>2. AllGood(balances)
  BY AccountsGood
<1>3. HeldIn(balances)' = Adding(HeldIn(balances), proofs[p].to, proofs[p].id,
                                 proofs[p].amount)
  BY MintMoves
<1> QED BY <1>1, <1>2, <1>3, CreditRefines

LEMMA InitRefines == Init => Ledger!Init
BY DEF Init, Ledger!Init, HeldIn, EmptyBalance, Encrypt

LEMMA StepRefines ==
  IInv /\ [Next]_vars => Ledger!Next \/ UNCHANGED balances
<1> SUFFICES ASSUME IInv, [Next]_vars
             PROVE  Ledger!Next \/ UNCHANGED balances
  OBVIOUS
<1>1. CASE Administer
  BY <1>1 DEF Administer, Register, SetAuditorPublicKey, SetTokenBlacklist,
              SetAuthorizedDepositor
<1>2. CASE MakeDeposit
  <2>1. PICK u \in Users, amount \in Amounts, t \in Tokens :
          \/ Deposit(u, amount, t)
          \/ \E d \in Depositors, drift \in PctDrift :
               DepositFor(d, u, amount, t, drift)
    BY <1>2 DEF MakeDeposit
  <2>2. amount \in Nat /\ PrivateValue(t, amount) \in Nat
    BY DataAssumption, Scaling
  <2>3. CASE Deposit(u, amount, t)
    BY <2>2, <2>3, DepositRefines DEF Deposit, Holders
  <2>4. ASSUME NEW d \in Depositors, NEW drift \in PctDrift,
               DepositFor(d, u, amount, t, drift)
        PROVE  Ledger!Next \/ UNCHANGED balances
    <3>1. PrivateValue(t, amount) + drift \in Nat
      BY <2>2, DataAssumption
    <3> QED BY <2>2, <2>4, <3>1, DepositRefines DEF DepositFor, Holders
  <2> QED BY <2>1, <2>3, <2>4
<1>3. CASE BuildProof
  BY <1>3 DEF BuildProof, BuildMint, BuildSpend, StoreProof
<1>4. CASE SubmitProof
  <2>1. PICK p \in ProofIds :
          Transfer(p) \/ Withdraw(p) \/ PrivateBurn(p) \/ PrivateMint(p)
    BY <1>4 DEF SubmitProof
  <2>2. CASE Withdraw(p)
    <3>1. proofs[p] # NoProof /\ proofs[p].kind # "mint"
      BY <2>2 DEF Withdraw, Submittable
    <3>2. PICK e \in SpendableEntries(proofs[p]) :
            balances' = Debited(proofs[p], e, 1)
      BY <2>2 DEF Withdraw
    <3> QED BY <3>1, <3>2, SpendRefines
  <2>3. CASE PrivateBurn(p)
    <3>1. proofs[p] # NoProof /\ proofs[p].kind # "mint"
      BY <2>3 DEF PrivateBurn, Submittable
    <3>2. PICK e \in SpendableEntries(proofs[p]) :
            balances' = Debited(proofs[p], e, proofs[p].r)
      BY <2>3 DEF PrivateBurn
    <3> QED BY <3>1, <3>2, SpendRefines, StatementOfProof
  <2> QED BY <2>1, <2>2, <2>3, TransferRefines, MintRefines
<1>5. CASE UNCHANGED vars
  BY <1>5 DEF vars
<1> QED BY <1>1, <1>2, <1>3, <1>4, <1>5 DEF Next

(* Whatever the interleaving of stale proofs, credits and settings, the    *)
(* contract behaves as a plain ledger in which nobody overspends.          *)
THEOREM ContractImplementsLedger == Spec => ImplementsLedger
<1>1. IInv /\ [Next]_vars => [Ledger!Next]_(HeldIn(balances))
  <2>1. UNCHANGED balances => UNCHANGED HeldIn(balances)
    BY DEF HeldIn
  <2> QED BY <2>1, StepRefines
<1> QED BY <1>1, InitRefines, Invariance, PTL
        DEF Spec, ImplementsLedger, Ledger!Spec

-------------------------------------------------------------------------------
(* What all accounts of a token hold together.                             *)

Total(h, i) == SumFunctionOnSet([u \in Users |-> h[u][i]], Users)

LEMMA TotalInt ==
  ASSUME NEW h \in [Users -> [TokenIds -> Int]], NEW i \in TokenIds
  PROVE  Total(h, i) \in Int
BY UserAssumption, SumInt DEF Total

LEMMA TotalEmpty ==
  ASSUME NEW h, NEW i, \A u \in Users : h[u][i] = 0
  PROVE  Total(h, i) = 0
BY UserAssumption, SumZero DEF Total

LEMMA TotalAdding ==
  ASSUME NEW h \in [Users -> [TokenIds -> Int]], NEW u \in Users,
         NEW i \in TokenIds, NEW v \in Int
  PROVE  /\ Adding(h, u, i, v) \in [Users -> [TokenIds -> Int]]
         /\ Total(Adding(h, u, i, v), i) = Total(h, i) + v
         /\ \A j \in TokenIds : j # i => Total(Adding(h, u, i, v), j) = Total(h, j)
<1> DEFINE k == Adding(h, u, i, v)
           column(g, j) == [w \in Users |-> g[w][j]]
<1>1. k \in [Users -> [TokenIds -> Int]]
  BY DEF Adding
<1>2. Total(k, i) = Total(h, i) + v
  <2>1. /\ column(k, i)[u] = column(h, i)[u] + v
        /\ \A w \in Users : column(k, i)[w] \in Int /\ column(h, i)[w] \in Int
        /\ \A w \in Users \ {u} : column(h, i)[w] = column(k, i)[w]
    BY <1>1 DEF Adding
  <2>2. Total(k, i) = SumFunctionOnSet(column(k, i), Users)
    BY DEF Total
  <2>3. Total(h, i) = SumFunctionOnSet(column(h, i), Users)
    BY DEF Total
  <2>4. SumFunctionOnSet(column(h, i), Users) \in Int
    BY TotalInt, <2>3
  <2> HIDE DEF column, k
  <2>5. SumFunctionOnSet(column(k, i), Users)
          = SumFunctionOnSet(column(h, i), Users) + column(k, i)[u] - column(h, i)[u]
    BY <2>1, UserAssumption, SumUpdate
  <2> QED BY <2>1, <2>2, <2>3, <2>4, <2>5
<1>3. ASSUME NEW j \in TokenIds, j # i
      PROVE  Total(k, j) = Total(h, j)
  <2>1. column(k, j) = column(h, j)
    BY <1>3 DEF Adding
  <2> QED BY <2>1 DEF Total
<1> QED BY <1>1, <1>2, <1>3

LEMMA TakingIsAdding ==
  ASSUME NEW h \in [Users -> [TokenIds -> Int]], NEW u \in Users,
         NEW i \in TokenIds, NEW v \in Int
  PROVE  Taking(h, u, i, v) = Adding(h, u, i, -v)
BY DEF Taking, Adding

LEMMA TotalTaking ==
  ASSUME NEW h \in [Users -> [TokenIds -> Int]], NEW u \in Users,
         NEW i \in TokenIds, NEW v \in Int
  PROVE  /\ Taking(h, u, i, v) \in [Users -> [TokenIds -> Int]]
         /\ Total(Taking(h, u, i, v), i) = Total(h, i) - v
         /\ \A j \in TokenIds : j # i => Total(Taking(h, u, i, v), j) = Total(h, j)
<1>1. PICK w \in Int : w = -v
  OBVIOUS
<1>2. Taking(h, u, i, v) = Adding(h, u, i, w)
  BY <1>1, TakingIsAdding
<1>3. Total(h, i) + w = Total(h, i) - v
  BY <1>1, TotalInt
<1>4. /\ Adding(h, u, i, w) \in [Users -> [TokenIds -> Int]]
      /\ Total(Adding(h, u, i, w), i) = Total(h, i) + w
      /\ \A j \in TokenIds : j # i => Total(Adding(h, u, i, w), j) = Total(h, j)
  BY TotalAdding
<1> QED BY <1>2, <1>3, <1>4

(* The sum of Solvent is that total.                                       *)
LEMMA TotalOfBalances ==
  ASSUME NEW t \in Tokens
  PROVE  MapThenSumSet(LAMBDA u : Balance(u, tokenIds[t]), Users)
           = SumFunctionOnSet([u \in Users |-> Balance(u, tokenIds[t])], Users)
<1> DEFINE f == [u \in Users |-> Balance(u, tokenIds[t])]
           R(g) == g = [s \in SUBSET Users |->
                     IF s = {} THEN 0
                     ELSE Balance(Pick(s), tokenIds[t]) + g[s \ {Pick(s)}]]
           g0 == CHOOSE g : R(g)
<1>1. \A g : R(g) <=> IsSum(g, f, Users)
  <2>1. \A s \in SUBSET Users : s # {} => f[Pick(s)] = Balance(Pick(s), tokenIds[t])
    BY PickIn
  <2> QED BY <2>1 DEF IsSum
<1>2. PICK g1 : IsSum(g1, f, Users) /\ SumFunctionOnSet(f, Users) = g1[Users]
  BY UserAssumption, SumIsSum
<1>3. R(g0)
  BY <1>1, <1>2
<1>4. MapThenSumSet(LAMBDA u : Balance(u, tokenIds[t]), Users) = g0[Users]
  BY DEF MapThenSumSet, MapThenFoldSet, Pick
<1>5. IsSum(g0, f, Users)
  BY <1>1, <1>3
<1> HIDE DEF g0, f
<1> QED BY <1>2, <1>4, <1>5, UserAssumption, SumUnique DEF f

-------------------------------------------------------------------------------
(* Solvency. The reserve of a token backs the accounts of its id, which    *)
(* needs the two directions of the token table to agree: no two tokens     *)
(* share an id, no id is given out before its turn, and an id nobody was   *)
(* given holds nothing.                                                    *)

TokensAssigned ==
  /\ nextTokenId # 0
  /\ \A t \in Tokens :
       tokenIds[t] # 0 =>
         tokenIds[t] < nextTokenId /\ tokenAddresses[tokenIds[t]] = t
  /\ \A i \in TokenIds :
       tokenAddresses[i] # NoToken => i # 0 /\ tokenIds[tokenAddresses[i]] = i

UnassignedEmpty ==
  \A i \in TokenIds : i >= nextTokenId => \A u \in Users : HeldIn(balances)[u][i] = 0

(* The standalone contract mints its own token, id 0.                      *)
MintsOwnToken ==
  \A p \in ProofIds : proofs[p] # NoProof /\ proofs[p].kind = "mint" => proofs[p].id = 0

BackedBy(t, R, H) == R * ScaleUp[t] >= ScaleDown[t] * H

Backed ==
  \A t \in Tokens :
    /\ reserve[t] >= 0
    /\ tokenIds[t] # 0 => BackedBy(t, reserve[t], Total(HeldIn(balances), tokenIds[t]))

SInv == TokensAssigned /\ UnassignedEmpty /\ MintsOwnToken /\ Backed

LEMMA Divide ==
  ASSUME NEW a \in Nat, NEW d \in Nat \ {0}
  PROVE  /\ a \div d \in Nat
         /\ a % d \in 0 .. d - 1
         /\ a = d * (a \div d) + (a % d)
OBVIOUS

(* A deposit adds to both sides the same multiple: the dust stays outside. *)
LEMMA DepositBacked ==
  ASSUME NEW t \in Tokens, NEW a \in Nat, NEW R \in Int, NEW H \in Int,
         BackedBy(t, R, H)
  PROVE  /\ BackedBy(t, R + (a - Dust(t, a)), H + PrivateValue(t, a))
         /\ a - Dust(t, a) \in Nat
<1> DEFINE d == ScaleDown[t]
           u == ScaleUp[t]
<1>1. d \in Nat \ {0} /\ u \in Nat \ {0}
  BY ScaleAssumption
<1> HIDE DEF d, u
<1>2. PICK q \in Nat : q = a \div d
  BY <1>1, Divide
<1>3. a - (a % d) = d * q
  BY <1>1, <1>2, Divide
<1>4. (R + d * q) * u = R * u + d * (q * u) /\ d * q \in Nat
  BY <1>1
<1>5. d * (H + q * u) = d * H + d * (q * u)
  BY <1>1
<1>6. PICK x \in Int : x = d * (q * u)
  BY <1>1
<1>7. R * u >= d * H
  BY DEF BackedBy, d, u
<1>8. (R + d * q) * u >= d * (H + q * u)
  BY <1>1, <1>4, <1>5, <1>6, <1>7
<1>9. Dust(t, a) = a % d /\ PrivateValue(t, a) = q * u
  BY <1>2 DEF Dust, PrivateValue, d, u
<1> QED BY <1>3, <1>4, <1>8, <1>9 DEF BackedBy, d, u

(* A withdrawal takes at most its share of the reserve.                    *)
LEMMA WithdrawBacked ==
  ASSUME NEW t \in Tokens, NEW a \in Nat, NEW R \in Int, NEW H \in Int,
         BackedBy(t, R, H)
  PROVE  BackedBy(t, R - PublicValue(t, a), H - a)
<1> DEFINE d == ScaleDown[t]
           u == ScaleUp[t]
<1>1. d \in Nat \ {0} /\ u \in Nat \ {0}
  BY ScaleAssumption
<1> HIDE DEF d, u
<1>2. a * d \in Nat
  BY <1>1
<1>3. PICK q \in Nat : q = (a * d) \div u
  BY <1>1, <1>2, Divide
<1>4. q * u <= a * d
  BY <1>1, <1>2, <1>3, Divide
<1>5. (R - q) * u = R * u - q * u
  BY <1>1
<1>6. d * (H - a) = d * H - a * d
  BY <1>1
<1>7. R * u >= d * H
  BY DEF BackedBy, d, u
<1>8. (R - q) * u >= d * (H - a)
  BY <1>1, <1>4, <1>5, <1>6, <1>7
<1> QED BY <1>3, <1>8 DEF BackedBy, PublicValue, d, u

(* Destroying private value harms nobody.                                  *)
LEMMA LessBacked ==
  ASSUME NEW t \in Tokens, NEW a \in Nat, NEW R \in Int, NEW H \in Int,
         BackedBy(t, R, H)
  PROVE  BackedBy(t, R, H - a)
<1>1. ScaleDown[t] \in Nat /\ ScaleUp[t] \in Nat
  BY ScaleAssumption
<1>2. ScaleDown[t] * (H - a) <= ScaleDown[t] * H
  BY <1>1
<1> QED BY <1>1, <1>2 DEF BackedBy

(* A token is registered under the next id, which nobody holds yet.        *)
LEMMA AddTokenKeeps ==
  ASSUME IInv, IInv', TokensAssigned, NEW t \in Tokens, AddToken(t)
  PROVE  /\ TokensAssigned'
         /\ tokenIds'[t] # 0 /\ tokenIds'[t] \in TokenIds
         /\ \A s \in Tokens : s # t => tokenIds'[s] = tokenIds[s]
         /\ tokenIds[t] # 0 => UNCHANGED tracker
         /\ tokenIds[t] = 0 =>
              tokenIds'[t] = nextTokenId /\ nextTokenId' = nextTokenId + 1
<1>1. /\ tokenIds \in [Tokens -> TokenIds] /\ nextTokenId \in Nat
      /\ tokenAddresses \in [TokenIds -> Tokens \cup {NoToken}]
      /\ tokenIds' \in [Tokens -> TokenIds]
      /\ TokenIds \subseteq Nat
  BY DEF IInv, TypeOK, TokenIds
<1>2. CASE tokenIds[t] # 0
  BY <1>1, <1>2 DEF AddToken, tracker, TokensAssigned
<1>3. CASE tokenIds[t] = 0
  <2>1. /\ nextTokenId \in TokenIds
        /\ tokenIds' = [tokenIds EXCEPT ![t] = nextTokenId]
        /\ tokenAddresses' = [tokenAddresses EXCEPT ![nextTokenId] = t]
        /\ nextTokenId' = nextTokenId + 1
    BY <1>3 DEF AddToken
  <2>2. /\ tokenIds'[t] = nextTokenId /\ nextTokenId # 0
        /\ \A s \in Tokens : s # t => tokenIds'[s] = tokenIds[s]
        /\ tokenAddresses'[nextTokenId] = t
        /\ \A i \in TokenIds : i # nextTokenId => tokenAddresses'[i] = tokenAddresses[i]
    BY <1>1, <2>1 DEF TokensAssigned
  <2>3. ASSUME NEW s \in Tokens, tokenIds'[s] # 0
        PROVE  tokenIds'[s] < nextTokenId' /\ tokenAddresses'[tokenIds'[s]] = s
    <3>1. CASE s = t
      BY <1>1, <2>1, <2>2, <3>1
    <3>2. CASE s # t
      <4>1. tokenIds[s] # 0 /\ tokenIds'[s] = tokenIds[s]
        BY <2>2, <2>3, <3>2
      <4>2. tokenIds[s] < nextTokenId /\ tokenAddresses[tokenIds[s]] = s
        BY <4>1 DEF TokensAssigned
      <4>3. tokenIds[s] \in TokenIds /\ tokenIds[s] # nextTokenId
        BY <1>1, <4>2
      <4>4. tokenAddresses'[tokenIds[s]] = s
        BY <2>2, <4>2, <4>3
      <4>5. tokenIds[s] < nextTokenId'
        <5>1. nextTokenId' = nextTokenId + 1
          BY <2>1
        <5>2. tokenIds[s] \in Nat /\ nextTokenId \in Nat
          BY <1>1
        <5> QED BY <4>2, <5>1, <5>2
      <4> QED BY <4>1, <4>4, <4>5
    <3> QED BY <3>1, <3>2
  <2>4. ASSUME NEW i \in TokenIds, tokenAddresses'[i] # NoToken
        PROVE  i # 0 /\ tokenIds'[tokenAddresses'[i]] = i
    <3>1. CASE i = nextTokenId
      BY <2>2, <3>1
    <3>2. CASE i # nextTokenId
      <4>1. tokenAddresses[i] # NoToken /\ tokenAddresses[i] \in Tokens
        BY <1>1, <2>2, <2>4, <3>2
      <4>2. i # 0 /\ tokenIds[tokenAddresses[i]] = i
        BY <4>1 DEF TokensAssigned
      <4> QED BY <1>3, <2>2, <3>2, <4>1, <4>2
    <3> QED BY <3>1, <3>2
  <2>5. TokensAssigned'
    BY <1>1, <2>1, <2>3, <2>4 DEF TokensAssigned
  <2> QED BY <1>1, <1>3, <2>1, <2>2, <2>5
<1> QED BY <1>2, <1>3

(* No two tokens have the same id.                                         *)
LEMMA IdsDiffer ==
  ASSUME TokensAssigned, NEW s \in Tokens, NEW t \in Tokens, s # t,
         tokenIds[s] # 0, tokenIds[t] # 0
  PROVE  tokenIds[s] # tokenIds[t]
BY DEF TokensAssigned

LEMMA CollectSolvent ==
  ASSUME IInv, IInv', SInv, NEW payer \in Holders, NEW to \in Users,
         NEW amount \in Nat, NEW t \in Tokens, NEW pct \in Nat,
         CollectFrom(payer, to, amount, t, pct)
  PROVE  SInv'
<1>1. /\ TokensAssigned'
      /\ tokenIds'[t] # 0 /\ tokenIds'[t] \in TokenIds
      /\ \A s \in Tokens : s # t => tokenIds'[s] = tokenIds[s]
      /\ tokenIds[t] # 0 => UNCHANGED tracker
      /\ tokenIds[t] = 0 =>
           tokenIds'[t] = nextTokenId /\ nextTokenId' = nextTokenId + 1
  BY AddTokenKeeps DEF SInv, CollectFrom, ConvertFrom
<1>2. PICK i \in TokenIds : i = tokenIds'[t]
  BY <1>1
<1>3. PICK v \in Nat : v = PrivateValue(t, amount)
  BY Scaling
<1>4. PICK h \in [Users -> [TokenIds -> Int]] : h = HeldIn(balances)
  BY AccountsGood, HeldInt
<1>5. HeldIn(balances)' = Adding(h, to, i, v)
  BY <1>2, <1>3, <1>4, DepositMoves
<1>6. /\ TokenIds \subseteq Nat /\ nextTokenId \in Nat /\ nextTokenId' \in Nat
      /\ reserve \in [Tokens -> Int]
  BY DEF IInv, TypeOK, TokenIds
<1>7. nextTokenId <= nextTokenId' /\ i < nextTokenId'
  BY <1>1, <1>2, <1>6 DEF SInv, TokensAssigned, tracker
<1>8. UnassignedEmpty'
  <2> SUFFICES ASSUME NEW j \in TokenIds, j >= nextTokenId', NEW u \in Users
               PROVE  HeldIn(balances)'[u][j] = 0
    BY DEF UnassignedEmpty
  <2>1. j # i /\ j >= nextTokenId
    BY <1>6, <1>7
  <2>2. h[u][j] = 0
    BY <1>4, <2>1 DEF SInv, UnassignedEmpty
  <2> QED BY <1>5, <2>1, <2>2 DEF Adding
<1>9. MintsOwnToken'
  BY DEF SInv, MintsOwnToken, CollectFrom
<1>10. ASSUME NEW s \in Tokens
       PROVE  /\ reserve'[s] >= 0
              /\ tokenIds'[s] # 0 =>
                   BackedBy(s, reserve'[s], Total(HeldIn(balances)', tokenIds'[s]))
  <2>1. CASE s = t
    <3>1. reserve'[t] = reserve[t] + (amount - Dust(t, amount)) /\ reserve[t] \in Int
      <4>1. Received(t, amount) = amount /\ Dust(t, amount) \in Int
        BY Scaling DEF CollectFrom, TransferredInFull
      <4>2. reserve'[t] = reserve[t] + amount - Dust(t, amount)
        BY <1>6, <4>1 DEF CollectFrom
      <4> QED BY <1>6, <4>1, <4>2
    <3>2. BackedBy(t, reserve[t], Total(h, i)) /\ reserve[t] >= 0
      <4>1. CASE tokenIds[t] # 0
        BY <1>1, <1>2, <1>4, <4>1 DEF SInv, Backed, tracker
      <4>2. CASE tokenIds[t] = 0
        <5>1. \A u \in Users : h[u][i] = 0
          BY <1>1, <1>2, <1>4, <1>6, <4>2 DEF SInv, UnassignedEmpty
        <5>2. Total(h, i) = 0
          BY <5>1, TotalEmpty
        <5>3. reserve[t] \in Nat /\ ScaleUp[t] \in Nat /\ ScaleDown[t] \in Nat
          BY <1>6, ScaleAssumption DEF SInv, Backed
        <5> QED BY <5>2, <5>3 DEF BackedBy
      <4> QED BY <4>1, <4>2
    <3>3. Total(Adding(h, to, i, v), i) = Total(h, i) + v /\ Total(h, i) \in Int
      BY TotalAdding, TotalInt
    <3>4. /\ BackedBy(t, reserve[t] + (amount - Dust(t, amount)), Total(h, i) + v)
          /\ amount - Dust(t, amount) \in Nat
      BY <1>3, <3>1, <3>2, <3>3, DepositBacked
    <3>5. BackedBy(t, reserve'[t], Total(HeldIn(balances)', tokenIds'[t]))
      BY <1>2, <1>5, <3>1, <3>3, <3>4
    <3>6. reserve'[t] >= 0
      BY <3>1, <3>2, <3>4
    <3> QED BY <2>1, <3>5, <3>6
  <2>2. CASE s # t
    <3>1. reserve'[s] = reserve[s] /\ tokenIds'[s] = tokenIds[s]
      BY <1>1, <1>6, <2>2 DEF CollectFrom
    <3>2. ASSUME tokenIds[s] # 0
          PROVE  Total(HeldIn(balances)', tokenIds[s]) = Total(h, tokenIds[s])
      <4>1. tokenIds'[s] # tokenIds'[t]
        BY <1>1, <2>2, <3>1, <3>2 DEF TokensAssigned
      <4>2. tokenIds[s] \in TokenIds /\ tokenIds[s] # i
        BY <1>2, <3>1, <4>1 DEF IInv, TypeOK
      <4>3. PICK j \in TokenIds : j = tokenIds[s]
        BY <4>2
      <4>4. Total(Adding(h, to, i, v), j) = Total(h, j)
        BY <4>2, <4>3, TotalAdding
      <4> QED BY <1>5, <4>3, <4>4
    <3> QED BY <1>4, <3>1, <3>2 DEF SInv, Backed
  <2> QED BY <2>1, <2>2
<1>11. Backed'
  BY <1>10 DEF Backed
<1> QED BY <1>1, <1>8, <1>9, <1>11 DEF SInv

(* Nothing but a call that moves money can disturb SInv.                   *)
LEMMA QuietSolvent ==
  ASSUME SInv, UNCHANGED <<tracker, balances, reserve>>, MintsOwnToken'
  PROVE  SInv'
BY DEF SInv, TokensAssigned, UnassignedEmpty, Backed, HeldIn, tracker

LEMMA BuildSolvent == IInv /\ SInv /\ BuildProof => SInv'
<1> SUFFICES ASSUME IInv, SInv, BuildProof PROVE SInv'
  OBVIOUS
<1>1. PICK p, q :
        p \in ProofIds /\ StoreProof(p, q) /\ (q.kind = "mint" => q.id = 0)
  <2>1. PICK p \in ProofIds, from \in Users, amount \in Amounts, r \in Randoms :
          \/ BuildMint(p, from, amount, r)
          \/ \E kind \in SpendKinds, to \in Users, i \in TokenIds :
               BuildSpend(p, kind, from, to, i, amount, r)
    BY DEF BuildProof
  <2>2. CASE BuildMint(p, from, amount, r)
    BY <2>2 DEF BuildMint
  <2>3. ASSUME NEW kind \in SpendKinds, NEW to \in Users, NEW i \in TokenIds,
               BuildSpend(p, kind, from, to, i, amount, r)
        PROVE  \E q : StoreProof(p, q) /\ (q.kind = "mint" => q.id = 0)
    BY <2>3 DEF BuildSpend, SpendKinds
  <2> QED BY <2>1, <2>2, <2>3
<1>2. MintsOwnToken'
  BY <1>1 DEF StoreProof, SInv, MintsOwnToken, IInv, TypeOK
<1> QED BY <1>1, <1>2, QuietSolvent DEF StoreProof, cash

(* A call that leaves the token table alone keeps SInv when the reserve of *)
(* each token still backs what its accounts hold.                          *)
LEMMA LandingSolvent ==
  ASSUME IInv, SInv, UNCHANGED <<tracker, proofs>>,
         NEW i \in TokenIds,
         \A j \in TokenIds, u \in Users :
           j # i => HeldIn(balances)'[u][j] = HeldIn(balances)[u][j],
         i >= nextTokenId => \A u \in Users : HeldIn(balances)'[u][i] = 0,
         Backed'
  PROVE  SInv'
<1>1. TokensAssigned'
  BY DEF SInv, TokensAssigned, tracker
<1>2. UnassignedEmpty'
  BY DEF SInv, UnassignedEmpty, tracker
<1>3. MintsOwnToken'
  BY DEF SInv, MintsOwnToken
<1> QED BY <1>1, <1>2, <1>3 DEF SInv

(* A withdrawal or a burn.                                                 *)
LEMMA SpendSolvent ==
  ASSUME IInv, SInv, NEW p \in ProofIds, proofs[p] # NoProof,
         proofs[p].kind # "mint", NEW r \in Int,
         NEW e \in SpendableEntries(proofs[p]),
         balances' = Debited(proofs[p], e, r), UNCHANGED <<tracker, proofs>>,
         \A t \in Tokens : reserve'[t] >= 0,
         \A t \in Tokens :
           \/ reserve'[t] = reserve[t]
           \/ /\ t = tokenAddresses[proofs[p].id]
              /\ reserve'[t] = reserve[t] - PublicValue(t, proofs[p].amount)
  PROVE  SInv'
<1>1. PICK from \in Users, i \in TokenIds, v \in Nat :
        from = proofs[p].from /\ i = proofs[p].id /\ v = proofs[p].amount
  BY StatementOfProof
<1>2. PICK h \in [Users -> [TokenIds -> Int]] : h = HeldIn(balances)
  BY AccountsGood, HeldInt
<1>3. HeldIn(balances)' = Taking(h, from, i, v) /\ v <= h[from][i]
  <2>1. /\ HeldIn(balances') = Taking(h, from, i, v)
        /\ v <= h[from][i]
    BY <1>1, <1>2, SpendMoves
  <2> QED BY <2>1 DEF HeldIn
<1>4. /\ Total(Taking(h, from, i, v), i) = Total(h, i) - v
      /\ \A j \in TokenIds : j # i => Total(Taking(h, from, i, v), j) = Total(h, j)
  BY TotalTaking
<1>5. /\ tokenIds \in [Tokens -> TokenIds] /\ reserve \in [Tokens -> Int]
      /\ tokenAddresses \in [TokenIds -> Tokens \cup {NoToken}]
  BY DEF IInv, TypeOK
<1>6. ASSUME NEW t \in Tokens, tokenIds[t] # 0
      PROVE  BackedBy(t, reserve'[t], Total(HeldIn(balances)', tokenIds[t]))
  <2>1. PICK j \in TokenIds : j = tokenIds[t]
    BY <1>5
  <2>2. BackedBy(t, reserve[t], Total(h, j)) /\ tokenAddresses[j] = t
    BY <1>2, <1>6, <2>1 DEF SInv, Backed, TokensAssigned
  <2>3. reserve[t] \in Int /\ Total(h, i) \in Int
    BY <1>5, TotalInt
  <2>4. CASE j = i
    <3>1. Total(HeldIn(balances)', j) = Total(h, j) - v
      BY <1>3, <1>4, <2>4
    <3>2. CASE reserve'[t] = reserve[t]
      BY <2>1, <2>2, <2>3, <2>4, <3>1, <3>2, LessBacked
    <3>3. CASE reserve'[t] = reserve[t] - PublicValue(t, v)
      BY <2>1, <2>2, <2>3, <2>4, <3>1, <3>3, WithdrawBacked
    <3> QED BY <1>1, <3>2, <3>3
  <2>5. CASE j # i
    <3>1. Total(HeldIn(balances)', j) = Total(h, j)
      BY <1>3, <1>4, <2>5
    <3>2. reserve'[t] = reserve[t]
      <4>1. SUFFICES ASSUME t = tokenAddresses[i] PROVE FALSE
        BY <1>1
      <4>2. tokenIds[t] = i
        BY <4>1, NameAssumption DEF SInv, TokensAssigned
      <4> QED BY <2>1, <2>5, <4>2
    <3> QED BY <2>1, <2>2, <3>1, <3>2
  <2> QED BY <2>4, <2>5
<1>7. Backed'
  BY <1>6 DEF Backed, tracker
<1>8. \A j \in TokenIds, u \in Users :
        j # i => HeldIn(balances)'[u][j] = HeldIn(balances)[u][j]
  BY <1>2, <1>3 DEF Taking
<1>9. ASSUME i >= nextTokenId, NEW u \in Users
      PROVE  HeldIn(balances)'[u][i] = 0
  <2>1. \A w \in Users : h[w][i] = 0
    BY <1>2, <1>9 DEF SInv, UnassignedEmpty
  <2>2. v = 0
    BY <1>3, <2>1
  <2> QED BY <1>3, <2>1, <2>2 DEF Taking
<1> QED BY <1>7, <1>8, <1>9, LandingSolvent

LEMMA TransferSolvent ==
  ASSUME IInv, SInv, NEW p \in ProofIds, Transfer(p) PROVE SInv'
<1>1. UNCHANGED <<tracker, proofs, reserve>> /\ proofs[p] # NoProof
  BY TransferMoves DEF Transfer, Execute, cash
<1>2. PICK from \in Users, to \in Users, i \in TokenIds, v \in Nat :
        /\ from = proofs[p].from /\ to = proofs[p].to
        /\ i = proofs[p].id /\ v = proofs[p].amount
  BY <1>1, StatementOfProof
<1>3. PICK h \in [Users -> [TokenIds -> Int]] : h = HeldIn(balances)
  BY AccountsGood, HeldInt
<1>4. v <= h[from][i] /\ HeldIn(balances)' = Adding(Taking(h, from, i, v), to, i, v)
  BY <1>2, <1>3, TransferMoves
<1>5. v \in Int /\ Taking(h, from, i, v) \in [Users -> [TokenIds -> Int]]
  <2>1. v \in Int
    OBVIOUS
  <2> QED BY ONLY h \in [Users -> [TokenIds -> Int]], from \in Users, i \in TokenIds,
                  <2>1, TotalTaking
<1> DEFINE mid == Taking(h, from, i, v)
<1> HIDE DEF mid
<1>5a. /\ Adding(mid, to, i, v) \in [Users -> [TokenIds -> Int]]
        /\ Total(Adding(mid, to, i, v), i) = Total(mid, i) + v
        /\ \A j \in TokenIds : j # i => Total(Adding(mid, to, i, v), j) = Total(mid, j)
  <2>1. v \in Int /\ mid \in [Users -> [TokenIds -> Int]]
    BY <1>5 DEF mid
  <2> QED BY <2>1, TotalAdding, ZenonT(30)
<1>6. \A j \in TokenIds : Total(HeldIn(balances)', j) = Total(h, j)
  <2> SUFFICES ASSUME NEW j \in TokenIds
               PROVE  Total(HeldIn(balances)', j) = Total(h, j)
    OBVIOUS
  <2>1. CASE j = i
    <3>1. Total(mid, i) = Total(h, i) - v /\ Total(h, i) \in Int
      BY <1>5, TotalTaking, TotalInt DEF mid
    <3>2. Total(Adding(mid, to, i, v), i) = Total(mid, i) + v
      BY <1>5a
    <3>3. Total(HeldIn(balances)', i) = Total(mid, i) + v
      BY <1>4, <3>2 DEF mid
    <3> QED BY <2>1, <3>1, <3>3
  <2>2. CASE j # i
    <3>1. Total(mid, j) = Total(h, j)
      BY <1>5, <2>2, TotalTaking DEF mid
    <3>2. Total(Adding(mid, to, i, v), j) = Total(mid, j)
      BY <2>2, <1>5a
    <3> QED BY <1>4, <3>1, <3>2 DEF mid
  <2> QED BY <2>1, <2>2
<1>7. Backed'
  <2>1. tokenIds \in [Tokens -> TokenIds]
    BY DEF IInv, TypeOK
  <2>2. \A t \in Tokens :
          Total(HeldIn(balances)', tokenIds[t]) = Total(HeldIn(balances), tokenIds[t])
    BY <1>3, <1>6, <2>1
  <2> QED BY <1>1, <2>2 DEF SInv, Backed, tracker
<1>8. \A j \in TokenIds, u \in Users :
        j # i => HeldIn(balances)'[u][j] = HeldIn(balances)[u][j]
  BY <1>3, <1>4 DEF Taking, Adding
<1>9. ASSUME i >= nextTokenId, NEW u \in Users
      PROVE  HeldIn(balances)'[u][i] = 0
  <2>1. \A w \in Users : h[w][i] = 0
    BY <1>3, <1>9 DEF SInv, UnassignedEmpty
  <2>2. v = 0
    BY <1>4, <2>1
  <2> QED BY <1>4, <2>1, <2>2 DEF Taking, Adding
<1> QED BY <1>1, <1>7, <1>8, <1>9, LandingSolvent

LEMMA MintSolvent ==
  ASSUME IInv, SInv, NEW p \in ProofIds, PrivateMint(p) PROVE SInv'
<1>1. /\ UNCHANGED <<tracker, proofs, reserve>>
      /\ proofs[p] # NoProof /\ proofs[p].id = 0
  BY DEF PrivateMint, Submittable, Execute, cash, SInv, MintsOwnToken
<1>2. PICK to \in Users, v \in Nat : to = proofs[p].to /\ v = proofs[p].amount
  BY <1>1, StatementOfProof
<1>3. PICK h \in [Users -> [TokenIds -> Int]] : h = HeldIn(balances)
  BY AccountsGood, HeldInt
<1>4. HeldIn(balances)' = Adding(h, to, 0, v)
  BY <1>1, <1>2, <1>3, MintMoves
<1>5. 0 \in TokenIds /\ nextTokenId \in Nat /\ nextTokenId # 0
  BY BoundAssumption DEF TokenIds, SInv, TokensAssigned, IInv, TypeOK
<1>6. \A j \in TokenIds : j # 0 => Total(HeldIn(balances)', j) = Total(h, j)
  BY <1>4, <1>5, TotalAdding
<1>7. Backed'
  <2>1. tokenIds \in [Tokens -> TokenIds]
    BY DEF IInv, TypeOK
  <2>2. \A t \in Tokens : tokenIds[t] # 0 =>
          Total(HeldIn(balances)', tokenIds[t]) = Total(HeldIn(balances), tokenIds[t])
    BY <1>3, <1>6, <2>1
  <2> QED BY <1>1, <2>2 DEF SInv, Backed, tracker
<1>8. \A j \in TokenIds, u \in Users :
        j # 0 => HeldIn(balances)'[u][j] = HeldIn(balances)[u][j]
  BY <1>3, <1>4 DEF Adding
<1>9. ~ (0 >= nextTokenId)
  BY <1>5
<1> QED BY <1>1, <1>5, <1>7, <1>8, <1>9, LandingSolvent

LEMMA SubmitSolvent ==
  ASSUME IInv, SInv, NEW p \in ProofIds, Withdraw(p) \/ PrivateBurn(p) PROVE SInv'
<1>1. proofs[p] # NoProof /\ proofs[p].kind # "mint" /\ UNCHANGED <<tracker, proofs>>
  BY DEF Withdraw, PrivateBurn, Submittable, Execute
<1>2. reserve \in [Tokens -> Int] /\ \A t \in Tokens : reserve[t] >= 0
  BY DEF IInv, TypeOK, SInv, Backed
<1>3. CASE Withdraw(p)
  <2>1. PICK e \in SpendableEntries(proofs[p]) : balances' = Debited(proofs[p], e, 1)
    BY <1>3 DEF Withdraw
  <2> DEFINE s == tokenAddresses[proofs[p].id]
             v == PublicValue(s, proofs[p].amount)
  <2>2. /\ v <= reserve[s]
        /\ reserve' = [reserve EXCEPT ![s] = @ - v]
    BY <1>3 DEF Withdraw
  <2>3. s \in Tokens
    BY <1>1, <1>3, StatementOfProof DEF Withdraw, IInv, TypeOK
  <2>4. v \in Int
    BY <1>1, <2>3, StatementOfProof, Scaling
  <2>5. /\ \A t \in Tokens : reserve'[t] >= 0
        /\ \A t \in Tokens : \/ reserve'[t] = reserve[t]
                             \/ t = s /\ reserve'[t] = reserve[t] - v
    <3> HIDE DEF s, v
    <3> QED BY <1>2, <2>2, <2>3, <2>4
  <2>6. \A t \in Tokens :
          \/ reserve'[t] = reserve[t]
          \/ /\ t = tokenAddresses[proofs[p].id]
             /\ reserve'[t] = reserve[t] - PublicValue(t, proofs[p].amount)
    BY <2>5
  <2> HIDE DEF s, v
  <2> QED BY <1>1, <2>1, <2>5, <2>6, SpendSolvent
<1>4. CASE PrivateBurn(p)
  <2>1. PICK e \in SpendableEntries(proofs[p]) :
          balances' = Debited(proofs[p], e, proofs[p].r)
    BY <1>4 DEF PrivateBurn
  <2>2. UNCHANGED reserve /\ proofs[p].r \in Int
    BY <1>1, <1>4, StatementOfProof DEF PrivateBurn, cash
  <2> QED BY <1>1, <1>2, <2>1, <2>2, SpendSolvent
<1> QED BY <1>3, <1>4

LEMMA InitSolvent == Init => SInv
<1> SUFFICES ASSUME Init PROVE SInv
  OBVIOUS
<1>1. \A u \in Users, i \in TokenIds : HeldIn(balances)[u][i] = 0
  BY DEF Init, HeldIn, EmptyBalance, Encrypt
<1> QED BY <1>1, NameAssumption
        DEF Init, SInv, TokensAssigned, UnassignedEmpty, MintsOwnToken, Backed

LEMMA StepSolvent == IInv /\ IInv' /\ SInv /\ [Next]_vars => SInv'
<1> SUFFICES ASSUME IInv, IInv', SInv, [Next]_vars PROVE SInv'
  OBVIOUS
<1>1. CASE Administer \/ UNCHANGED vars
  <2>1. UNCHANGED <<tracker, balances, reserve, proofs>>
    BY <1>1 DEF Administer, Register, SetAuditorPublicKey, SetTokenBlacklist,
                SetAuthorizedDepositor, vars, cash
  <2> QED BY <2>1, QuietSolvent DEF SInv, MintsOwnToken
<1>2. CASE MakeDeposit
  <2>1. PICK u \in Users, amount \in Amounts, t \in Tokens :
          \/ Deposit(u, amount, t)
          \/ \E d \in Depositors, drift \in PctDrift :
               DepositFor(d, u, amount, t, drift)
    BY <1>2 DEF MakeDeposit
  <2>2. amount \in Nat /\ PrivateValue(t, amount) \in Nat
    BY DataAssumption, Scaling
  <2>3. CASE Deposit(u, amount, t)
    BY <2>2, <2>3, CollectSolvent DEF Deposit, ExecuteDepositFrom, Holders
  <2>4. ASSUME NEW d \in Depositors, NEW drift \in PctDrift,
               DepositFor(d, u, amount, t, drift)
        PROVE  SInv'
    <3>1. PrivateValue(t, amount) + drift \in Nat
      BY <2>2, DataAssumption
    <3> QED BY <2>2, <2>4, <3>1, CollectSolvent
            DEF DepositFor, ExecuteDepositFrom, Holders
  <2> QED BY <2>1, <2>3, <2>4
<1>3. CASE BuildProof
  BY <1>3, BuildSolvent
<1>4. CASE SubmitProof
  BY <1>4, TransferSolvent, MintSolvent, SubmitSolvent DEF SubmitProof
<1> QED BY <1>1, <1>2, <1>3, <1>4 DEF Next

LEMMA BackedIsSolvent == IInv /\ SInv => Solvent
<1> SUFFICES ASSUME IInv, SInv, NEW t \in Tokens, tokenIds[t] # 0
             PROVE  reserve[t] * ScaleUp[t] >=
                      ScaleDown[t] * MapThenSumSet(LAMBDA u : Balance(u, tokenIds[t]), Users)
  BY DEF Solvent
<1>1. tokenIds[t] \in TokenIds
  BY DEF IInv, TypeOK
<1>2. [u \in Users |-> HeldIn(balances)[u][tokenIds[t]]]
        = [u \in Users |-> Balance(u, tokenIds[t])]
  BY <1>1 DEF HeldIn, Balance
<1>3. MapThenSumSet(LAMBDA u : Balance(u, tokenIds[t]), Users)
        = Total(HeldIn(balances), tokenIds[t])
  BY <1>2, TotalOfBalances DEF Total
<1>4. reserve[t] * ScaleUp[t] >= ScaleDown[t] * Total(HeldIn(balances), tokenIds[t])
  BY DEF SInv, Backed, BackedBy
<1> QED BY <1>3, <1>4

(* The ERC20s in the contract redeem every private balance, whatever the   *)
(* decimals of the tokens and the order in which they are first deposited. *)
THEOREM ContractIsSolvent == Spec => []Solvent
<1>1. Spec => []SInv
  BY Invariance, InitSolvent, StepSolvent, PTL DEF Spec
<1> QED BY <1>1, Invariance, BackedIsSolvent, PTL

-------------------------------------------------------------------------------
(* The PCTs account for the ciphertext. The entries credited after a       *)
(* snapshot are those with a larger index, so a snapshot of the current    *)
(* nonce and the entries after it add up to the present balance, and that  *)
(* is what remains to be counted when a spend from it purges the others.   *)

AmountIn == [a \in AmountPCT |-> a.amount]

AmountSum(S) == SumFunctionOnSet(AmountIn, S)

PctsCounted(b) ==
  /\ IsFiniteSet(b.amountPCTs)
  /\ \A a \in b.amountPCTs : a.index < b.transactionIndex
  /\ \A e \in b.balanceList : e.index < b.transactionIndex
  /\ b.balancePCT + AmountSum(b.amountPCTs) = b.eGCT.m
  /\ \A e \in b.balanceList :
       e.nonce = b.nonce =>
         e.ct.m + AmountSum(PurgeAmounts(b.amountPCTs, e.index)) = b.eGCT.m

AccountsCounted == \A u \in Users, i \in TokenIds : PctsCounted(balances[u][i])

(* The PCT a spend leaves is what it left of its snapshot.                 *)
SpendsCounted ==
  \A p \in ProofIds :
    proofs[p] # NoProof /\ proofs[p].kind # "mint" =>
      proofs[p].balancePCT = proofs[p].ct.m - proofs[p].amount

DInv == AccountsCounted /\ SpendsCounted

LEMMA AmountSumNat ==
  ASSUME NEW S \in SUBSET AmountPCT, IsFiniteSet(S)
  PROVE  AmountSum(S) \in Nat
<1>1. \A a \in S : AmountIn[a] \in Nat
  BY DEF AmountIn, AmountPCT
<1> QED BY <1>1, SumNat DEF AmountSum

LEMMA AmountSumInsert ==
  ASSUME NEW S \in SUBSET AmountPCT, IsFiniteSet(S), NEW a \in AmountPCT, a \notin S
  PROVE  AmountSum(S \cup {a}) = AmountSum(S) + a.amount
<1>1. \A x \in S \cup {a} : AmountIn[x] \in Int
  BY DEF AmountIn, AmountPCT
<1>2. AmountSum(S \cup {a}) = AmountIn[a] + AmountSum(S)
  BY <1>1, SumInsert DEF AmountSum
<1>3. AmountIn[a] = a.amount /\ a.amount \in Int
  BY DEF AmountIn, AmountPCT
<1>4. AmountSum(S) \in Int
  BY AmountSumNat
<1> QED BY <1>2, <1>3, <1>4

LEMMA AmountSumEmpty == AmountSum({}) = 0
BY SumEmpty DEF AmountSum

(* What a client adds up is that sum.                                      *)
LEMMA AmountSumOfPcts ==
  ASSUME NEW S \in SUBSET AmountPCT, IsFiniteSet(S)
  PROVE  MapThenSumSet(LAMBDA a : a.amount, S) = AmountSum(S)
<1> DEFINE R(g) == g = [s \in SUBSET S |->
                     IF s = {} THEN 0 ELSE Pick(s).amount + g[s \ {Pick(s)}]]
           g0 == CHOOSE g : R(g)
<1>1. \A g : R(g) <=> IsSum(g, AmountIn, S)
  <2>1. \A s \in SUBSET S : s # {} => AmountIn[Pick(s)] = Pick(s).amount
    BY PickIn DEF AmountIn
  <2> QED BY <2>1 DEF IsSum
<1>2. PICK g1 : IsSum(g1, AmountIn, S) /\ AmountSum(S) = g1[S]
  BY SumIsSum DEF AmountSum
<1>3. R(g0)
  BY <1>1, <1>2
<1>4. MapThenSumSet(LAMBDA a : a.amount, S) = g0[S]
  BY DEF MapThenSumSet, MapThenFoldSet, Pick
<1>5. IsSum(g0, AmountIn, S)
  BY <1>1, <1>3
<1> HIDE DEF g0
<1> QED BY <1>2, <1>4, <1>5, SumUnique

LEMMA PurgeFinite ==
  ASSUME NEW S \in SUBSET AmountPCT, IsFiniteSet(S), NEW n \in Nat
  PROVE  /\ PurgeAmounts(S, n) \in SUBSET AmountPCT
         /\ IsFiniteSet(PurgeAmounts(S, n))
         /\ AmountSum(PurgeAmounts(S, n)) \in Nat
<1>1. PurgeAmounts(S, n) \in SUBSET S
  BY DEF PurgeAmounts
<1> QED BY <1>1, FS_Subset, AmountSumNat

(* A credit appears once among the amounts and once in the ciphertext; k   *)
(* is the index its snapshot is taken at.                                  *)
LEMMA CreditCounted ==
  ASSUME NEW b \in EncryptedBalance, PctsCounted(b), NEW v \in Nat, NEW k \in Nat,
         NEW c \in EncryptedBalance,
         c.eGCT.m = b.eGCT.m + v, c.nonce = b.nonce, c.balancePCT = b.balancePCT,
         c.amountPCTs = b.amountPCTs \cup {[amount |-> v, index |-> b.transactionIndex]},
         b.transactionIndex <= k, k < c.transactionIndex,
         \A e \in c.balanceList :
           e \in b.balanceList \/ (e.ct = c.eGCT /\ e.index = k)
  PROVE  PctsCounted(c)
<1> DEFINE ti == b.transactionIndex
           a  == [amount |-> v, index |-> ti]
           S  == b.amountPCTs
<1>1. /\ ti \in Nat /\ c.transactionIndex \in Nat /\ a \in AmountPCT
      /\ S \in SUBSET AmountPCT /\ IsFiniteSet(S)
      /\ b.eGCT.m \in Int /\ c.eGCT.m \in Int /\ b.balancePCT \in Nat
      /\ b.balanceList \in SUBSET BalanceHistory
      /\ c.balanceList \in SUBSET BalanceHistory
  BY DEF EncryptedBalance, Ciphertext, AmountPCT, PctsCounted
<1>2. a \notin S
  BY <1>1 DEF PctsCounted, AmountPCT
<1>3. AmountSum(c.amountPCTs) = AmountSum(S) + v /\ AmountSum(S) \in Nat
  BY <1>1, <1>2, AmountSumInsert, AmountSumNat
<1>4. IsFiniteSet(c.amountPCTs)
  <2> HIDE DEF S, a
  <2>1. IsFiniteSet(S \cup {a})
    BY <1>1, FS_AddElement
  <2> QED BY <2>1 DEF S, a
<1>5. \A x \in c.amountPCTs : x.index < c.transactionIndex
  <2> SUFFICES ASSUME NEW x \in c.amountPCTs PROVE x.index < c.transactionIndex
    OBVIOUS
  <2>1. x.index \in Nat /\ x.index <= ti
    BY <1>1 DEF PctsCounted, AmountPCT
  <2> QED BY <1>1, <2>1
<1>6. \A e \in c.balanceList : e.index < c.transactionIndex
  BY <1>1 DEF PctsCounted, BalanceHistory
<1>7. c.balancePCT + AmountSum(c.amountPCTs) = c.eGCT.m
  BY <1>1, <1>3 DEF PctsCounted
<1>8. ASSUME NEW e \in c.balanceList, e.nonce = c.nonce
      PROVE  e.ct.m + AmountSum(PurgeAmounts(c.amountPCTs, e.index)) = c.eGCT.m
  <2>0. e.index \in Nat /\ e.ct.m \in Int
    BY <1>1 DEF BalanceHistory, Ciphertext
  <2>1. CASE e \in b.balanceList
    <3>1. e.index < ti
      BY <2>1 DEF PctsCounted
    <3>2. PurgeAmounts(c.amountPCTs, e.index) = PurgeAmounts(S, e.index) \cup {a}
      BY <3>1 DEF PurgeAmounts
    <3>3. a \notin PurgeAmounts(S, e.index)
      BY <1>2 DEF PurgeAmounts
    <3>4. /\ PurgeAmounts(S, e.index) \in SUBSET AmountPCT
          /\ IsFiniteSet(PurgeAmounts(S, e.index))
          /\ AmountSum(PurgeAmounts(S, e.index)) \in Nat
      BY <1>1, <2>0, PurgeFinite
    <3>5. AmountSum(PurgeAmounts(S, e.index) \cup {a})
            = AmountSum(PurgeAmounts(S, e.index)) + v
      <4> HIDE DEF S
      <4> QED BY <1>1, <3>3, <3>4, AmountSumInsert
    <3>6. e.ct.m + AmountSum(PurgeAmounts(S, e.index)) = b.eGCT.m
      BY <1>8, <2>1 DEF PctsCounted
    <3>7. PICK n \in Nat : n = AmountSum(PurgeAmounts(S, e.index))
      BY <3>4
    <3>8. PICK m \in Int : m = e.ct.m
      BY <2>0
    <3>9. m + n = b.eGCT.m /\ c.eGCT.m = m + n + v
      BY <3>6, <3>7, <3>8
    <3>10. AmountSum(PurgeAmounts(c.amountPCTs, e.index)) = n + v
      <4> HIDE DEF S, a
      <4> QED BY <3>2, <3>5, <3>7
    <3>11. m + (n + v) = c.eGCT.m
      BY <3>9
    <3> QED BY <3>8, <3>10, <3>11
  <2>2. CASE e.ct = c.eGCT /\ e.index = k
    <3>1. PurgeAmounts(c.amountPCTs, e.index) = {}
      <4> SUFFICES ASSUME NEW x \in c.amountPCTs PROVE ~(x.index > k)
        BY <2>2 DEF PurgeAmounts
      <4>1. x.index \in Nat /\ x.index <= ti
        BY <1>1 DEF PctsCounted, AmountPCT
      <4> QED BY <1>1, <4>1
    <3>2. AmountSum(PurgeAmounts(c.amountPCTs, e.index)) = 0
      BY <3>1, AmountSumEmpty
    <3> HIDE DEF S, a
    <3> QED BY <1>1, <2>2, <3>2
  <2> QED BY <2>1, <2>2
<1> QED BY <1>4, <1>5, <1>6, <1>7, <1>8 DEF PctsCounted

(* The credit of a transfer or a mint.                                     *)
LEMMA AddCounted ==
  ASSUME NEW b, GoodBalance(b), PctsCounted(b), NEW v \in Nat, NEW r \in Int
  PROVE  PctsCounted(AddToUserBalance(b, Encrypt(v, r), v))
<1> DEFINE d == [b EXCEPT !.eGCT = AddCt(b.eGCT, Encrypt(v, r))]
           c == AddToUserBalance(b, Encrypt(v, r), v)
<1>1. b \in EncryptedBalance /\ c \in EncryptedBalance
  BY AddGood DEF GoodBalance
<1>2. c.eGCT.m = b.eGCT.m + v
  BY <1>1, AddMoves
<1>3. /\ d.eGCT = AddCt(b.eGCT, Encrypt(v, r)) /\ d.balanceList = b.balanceList
      /\ d.transactionIndex = b.transactionIndex /\ d.amountPCTs = b.amountPCTs
      /\ d.nonce = b.nonce /\ d.balancePCT = b.balancePCT
      /\ b.transactionIndex \in Nat
  BY <1>1 DEF EncryptedBalance
<1>4. /\ c.eGCT = d.eGCT /\ c.balanceList = Remember(d) /\ c.nonce = d.nonce
      /\ c.balancePCT = d.balancePCT
      /\ c.transactionIndex = d.transactionIndex + 1
      /\ c.amountPCTs =
           d.amountPCTs \cup {[amount |-> v, index |-> d.transactionIndex]}
  BY <1>1 DEF AddToUserBalance, AddToUserHistory, EncryptedBalance
<1> HIDE DEF c, d
<1>5. \A e \in c.balanceList :
        e \in b.balanceList \/ (e.ct = c.eGCT /\ e.index = b.transactionIndex)
  BY <1>3, <1>4 DEF Remember, Snapshot
<1>6. PctsCounted(c)
  BY <1>1, <1>2, <1>3, <1>4, <1>5, CreditCounted
<1> QED BY <1>6 DEF c

(* The credit of a deposit whose payer encrypted the amount it deposited.  *)
LEMMA ConvertCounted ==
  ASSUME NEW b, GoodBalance(b), PctsCounted(b), NEW v \in Nat, NEW r \in Int
  PROVE  PctsCounted(ConvertCredit(b, Encrypt(v, r), v))
<1> DEFINE a == [amount |-> v, index |-> b.transactionIndex]
           k == b.transactionIndex + 1
           d == [b EXCEPT !.eGCT = AddCt(b.eGCT, Encrypt(v, r)),
                          !.amountPCTs = b.amountPCTs \cup {a},
                          !.transactionIndex = k]
           c == ConvertCredit(b, Encrypt(v, r), v)
<1>1. b \in EncryptedBalance /\ c \in EncryptedBalance
  BY ConvertGood DEF GoodBalance
<1>2. c.eGCT.m = b.eGCT.m + v
  BY <1>1, ConvertMoves
<1>3. k \in Nat /\ b.transactionIndex <= k /\ k < k + 1
  BY <1>1 DEF EncryptedBalance
<1>4. /\ d.eGCT = AddCt(b.eGCT, Encrypt(v, r)) /\ d.balanceList = b.balanceList
      /\ d.transactionIndex = k /\ d.amountPCTs = b.amountPCTs \cup {a}
      /\ d.nonce = b.nonce /\ d.balancePCT = b.balancePCT
  <2> HIDE DEF a, k
  <2> QED BY <1>1 DEF EncryptedBalance
<1>5. c = CommitUserBalance(d)
  BY DEF ConvertCredit
<1>6. d \in EncryptedBalance
  <2>1. AddCt(b.eGCT, Encrypt(v, r)) \in Ciphertext
    BY <1>1 DEF EncryptedBalance, Ciphertext, AddCt, Encrypt
  <2>2. b.amountPCTs \cup {a} \in SUBSET AmountPCT
    BY <1>1 DEF EncryptedBalance, AmountPCT
  <2> HIDE DEF a, k
  <2> QED BY <1>1, <1>3, <2>1, <2>2 DEF EncryptedBalance
<1> HIDE DEF c, d
<1>7. /\ c.eGCT = d.eGCT /\ c.balanceList = Remember(d) /\ c.nonce = d.nonce
      /\ c.balancePCT = d.balancePCT /\ c.amountPCTs = d.amountPCTs
      /\ c.transactionIndex = d.transactionIndex + 1
  BY <1>5, <1>6 DEF CommitUserBalance, EncryptedBalance
<1>8. \A e \in c.balanceList :
        e \in b.balanceList \/ (e.ct = c.eGCT /\ e.index = k)
  BY <1>4, <1>7 DEF Remember, Snapshot
<1>9. c.amountPCTs = b.amountPCTs \cup {a} /\ k < c.transactionIndex
      /\ c.nonce = b.nonce /\ c.balancePCT = b.balancePCT
  <2> HIDE DEF a, k
  <2> QED BY <1>3, <1>4, <1>7
<1>10. PctsCounted(c)
  <2> HIDE DEF k
  <2> QED BY <1>1, <1>2, <1>3, <1>8, <1>9, CreditCounted
<1> QED BY <1>10 DEF c

(* A spend leaves its snapshot's rest in balancePCT and, of the amounts,   *)
(* those its snapshot had not counted.                                     *)
LEMMA SpendCounted ==
  ASSUME NEW b, GoodBalance(b), PctsCounted(b), NEW ct \in Ciphertext,
         NEW e \in VerifyUserBalance(b, ct),
         NEW v \in Nat, v <= ct.m, NEW r \in Int, NEW pct \in Nat, pct = ct.m - v
  PROVE  PctsCounted(SubtractFromUserBalance(b, Encrypt(v, r), pct, e.index))
<1> DEFINE S == PurgeAmounts(b.amountPCTs, e.index)
           n == b.nonce + 1
           d == [b EXCEPT !.eGCT = SubCt(b.eGCT, Encrypt(v, r)),
                          !.amountPCTs = S,
                          !.nonce = n]
           c == SubtractFromUserBalance(b, Encrypt(v, r), pct, e.index)
<1>1. b \in EncryptedBalance /\ c \in EncryptedBalance
  BY SpendGood DEF GoodBalance
<1>2. c.eGCT.m = b.eGCT.m - v
  BY <1>1, SubtractMoves
<1>3. /\ e \in b.balanceList /\ e.ct = ct /\ e.nonce = b.nonce
      /\ e.index \in Nat /\ b.nonce \in Nat /\ b.transactionIndex \in Nat
      /\ b.amountPCTs \in SUBSET AmountPCT /\ IsFiniteSet(b.amountPCTs)
      /\ b.balanceList \in SUBSET BalanceHistory
      /\ b.eGCT.m \in Int /\ ct.m \in Int
  BY <1>1 DEF VerifyUserBalance, SameKey, EncryptedBalance, BalanceHistory,
              Ciphertext, PctsCounted
<1>4. S \in SUBSET b.amountPCTs /\ IsFiniteSet(S) /\ AmountSum(S) \in Nat
  BY <1>3, PurgeFinite DEF PurgeAmounts
<1>5. ct.m + AmountSum(S) = b.eGCT.m
  BY <1>3 DEF PctsCounted
<1>6. /\ d.balanceList = b.balanceList /\ d.transactionIndex = b.transactionIndex
      /\ d.amountPCTs = S /\ d.nonce = n
  <2> HIDE DEF S, n
  <2> QED BY <1>1 DEF EncryptedBalance
<1>7. /\ c.balanceList = Remember(d) /\ c.nonce = d.nonce /\ c.balancePCT = pct
      /\ c.eGCT = d.eGCT /\ c.amountPCTs = d.amountPCTs
      /\ c.transactionIndex = d.transactionIndex + 1
  <2>1. d \in EncryptedBalance
    <3>1. SubCt(b.eGCT, Encrypt(v, r)) \in Ciphertext
      BY <1>1 DEF EncryptedBalance, Ciphertext, SubCt, Encrypt
    <3>2. n \in Nat /\ S \in SUBSET AmountPCT
      BY <1>3, <1>4
    <3> HIDE DEF S, n
    <3> QED BY <1>1, <3>1, <3>2 DEF EncryptedBalance
  <2>2. c = [CommitUserBalance(d) EXCEPT !.balancePCT = pct]
    BY DEF SubtractFromUserBalance, DeleteUserHistory
  <2> HIDE DEF c, d
  <2> QED BY <2>1, <2>2 DEF CommitUserBalance, EncryptedBalance
<1> HIDE DEF c, d, S
<1>8. /\ IsFiniteSet(c.amountPCTs)
      /\ \A a \in c.amountPCTs : a.index < b.transactionIndex
      /\ \A a \in c.amountPCTs : a.index < c.transactionIndex
  <2>1. c.amountPCTs = S /\ c.transactionIndex = b.transactionIndex + 1
    BY <1>6, <1>7
  <2>2. \A a \in S : a.index \in Nat /\ a.index < b.transactionIndex
    BY <1>3, <1>4 DEF PctsCounted, AmountPCT
  <2> QED BY <1>3, <1>4, <2>1, <2>2
<1>9. \A f \in c.balanceList :
        \/ f \in b.balanceList /\ f.nonce # c.nonce
        \/ f.ct = c.eGCT /\ f.index = b.transactionIndex
  <2>1. \A f \in b.balanceList : f.nonce # n
    BY <1>3 DEF GoodBalance, NoncesReached, BalanceHistory
  <2> QED BY <1>6, <1>7, <2>1 DEF Remember, Snapshot
<1>10. \A f \in c.balanceList : f.index < c.transactionIndex
  BY <1>3, <1>6, <1>7, <1>9 DEF PctsCounted, BalanceHistory
<1>11. c.balancePCT + AmountSum(c.amountPCTs) = c.eGCT.m
  BY <1>2, <1>3, <1>4, <1>5, <1>6, <1>7
<1>12. ASSUME NEW f \in c.balanceList, f.nonce = c.nonce
       PROVE  f.ct.m + AmountSum(PurgeAmounts(c.amountPCTs, f.index)) = c.eGCT.m
  <2>1. f.ct = c.eGCT /\ f.index = b.transactionIndex
    BY <1>9, <1>12
  <2>2. PurgeAmounts(c.amountPCTs, f.index) = {}
    <3> SUFFICES ASSUME NEW a \in c.amountPCTs PROVE ~(a.index > b.transactionIndex)
      BY <2>1 DEF PurgeAmounts
    <3>1. a.index \in Nat /\ a.index < b.transactionIndex
      BY <1>3, <1>4, <1>6, <1>7, <1>8 DEF AmountPCT
    <3> QED BY <1>3, <3>1
  <2>3. c.eGCT.m \in Int
    BY <1>1 DEF EncryptedBalance, Ciphertext
  <2> QED BY <2>1, <2>2, <2>3, AmountSumEmpty
<1>13. PctsCounted(c)
  BY <1>8, <1>10, <1>11, <1>12 DEF PctsCounted
<1> QED BY <1>13 DEF c

AllCounted(bal) == \A u \in Users, i \in TokenIds : PctsCounted(bal[u][i])

LEMMA UpdateCounted ==
  ASSUME NEW bal, AllGood(bal), AllCounted(bal), NEW u \in Users,
         NEW i \in TokenIds, NEW b, PctsCounted(b)
  PROVE  AllCounted([bal EXCEPT ![u][i] = b])
BY DEF AllGood, AllCounted

LEMMA DebitCounted ==
  ASSUME AllGood(balances), AllCounted(balances),
         NEW q, q.from \in Users, q.id \in TokenIds, q.ct \in Ciphertext,
         q.amount \in Nat, q.amount <= q.ct.m, q.balancePCT \in Nat,
         q.balancePCT = q.ct.m - q.amount,
         NEW r \in Int, NEW e \in SpendableEntries(q)
  PROVE  AllCounted(Debited(q, e, r))
<1> DEFINE b == SubtractFromUserBalance(balances[q.from][q.id],
                  Encrypt(q.amount, r), q.balancePCT, e.index)
<1>1. PctsCounted(b)
  BY SpendCounted DEF AllGood, AllCounted, SpendableEntries
<1>2. Debited(q, e, r) = [balances EXCEPT ![q.from][q.id] = b]
  BY DEF Debited
<1> HIDE DEF b
<1>3. AllCounted([balances EXCEPT ![q.from][q.id] = b])
  BY <1>1, UpdateCounted
<1> QED BY <1>2, <1>3

LEMMA CollectCounted ==
  ASSUME IInv, IInv', DInv, NEW payer \in Holders, NEW to \in Users,
         NEW amount \in Nat, NEW t \in Tokens,
         CollectFrom(payer, to, amount, t, PrivateValue(t, amount))
  PROVE  DInv'
<1>1. AllCounted(balances')
  <2>1. CASE UNCHANGED balances
    BY <2>1 DEF DInv, AccountsCounted, AllCounted
  <2>2. CASE ~UNCHANGED balances
    <3> DEFINE v == PrivateValue(t, amount)
    <3>1. PICK i \in TokenIds : i = tokenIds'[t]
      BY DEF IInv, TypeOK
    <3> DEFINE b == ConvertCredit(balances[to][i], Encrypt(v, 1), v)
    <3>2. balances' = [balances EXCEPT ![to][i] = b]
      BY <2>2, <3>1 DEF CollectFrom, ConvertFrom
    <3>3. v \in Nat
      BY Scaling
    <3>4. PctsCounted(b)
      <4> HIDE DEF v
      <4> QED BY <3>3, AccountsGood, ConvertCounted DEF AllGood, DInv, AccountsCounted
    <3>5. AllCounted(balances)
      BY DEF DInv, AccountsCounted, AllCounted
    <3> HIDE DEF b
    <3> QED BY <3>2, <3>4, <3>5, AccountsGood, UpdateCounted
  <2> QED BY <2>1, <2>2
<1>2. SpendsCounted'
  BY DEF DInv, SpendsCounted, CollectFrom
<1> QED BY <1>1, <1>2 DEF DInv, AccountsCounted, AllCounted

LEMMA BuildCounted ==
  ASSUME IInv, DInv, BuildProof PROVE DInv'
<1>1. PICK p \in ProofIds, from \in Users, amount \in Amounts, r \in Randoms :
        \/ BuildMint(p, from, amount, r)
        \/ \E kind \in SpendKinds, to \in Users, i \in TokenIds :
             BuildSpend(p, kind, from, to, i, amount, r)
  BY DEF BuildProof
<1>2. UNCHANGED balances
  BY <1>1 DEF BuildMint, BuildSpend, StoreProof
<1>3. CASE BuildMint(p, from, amount, r)
  <2>1. SpendsCounted'
    BY <1>3 DEF BuildMint, StoreProof, DInv, SpendsCounted, IInv, TypeOK
  <2> QED BY <1>2, <2>1 DEF DInv, AccountsCounted
<1>4. ASSUME NEW kind \in SpendKinds, NEW to \in Users, NEW i \in TokenIds,
             BuildSpend(p, kind, from, to, i, amount, r)
      PROVE  DInv'
  <2> DEFINE q == [kind |-> kind, from |-> from, to |-> to, id |-> i,
                   ct |-> balances[from][i].eGCT, amount |-> amount, r |-> r,
                   auditor |-> auditor,
                   balancePCT |-> Balance(from, i) - amount]
  <2>1. q.balancePCT = q.ct.m - q.amount
    BY DEF Balance
  <2>2. proofs' = [proofs EXCEPT ![p] = q]
    BY <1>4 DEF BuildSpend, StoreProof
  <2> HIDE DEF q
  <2>3. SpendsCounted'
    BY <2>1, <2>2 DEF DInv, SpendsCounted, IInv, TypeOK
  <2> QED BY <1>2, <2>3 DEF DInv, AccountsCounted
<1> QED BY <1>1, <1>3, <1>4

(* What a landing must show of the accounts.                               *)
LEMMA LandingCounted ==
  ASSUME DInv, NEW p \in ProofIds, Execute(p), AllCounted(balances')
  PROVE  DInv'
BY DEF Execute, DInv, AccountsCounted, AllCounted, SpendsCounted

LEMMA SpendLands ==
  ASSUME IInv, DInv, NEW p \in ProofIds, proofs[p] # NoProof,
         proofs[p].kind # "mint", NEW r \in Int,
         NEW e \in SpendableEntries(proofs[p])
  PROVE  AllGood(Debited(proofs[p], e, r)) /\ AllCounted(Debited(proofs[p], e, r))
<1> DEFINE q == proofs[p]
<1>1. /\ q.from \in Users /\ q.id \in TokenIds /\ q.ct \in Ciphertext
      /\ q.amount \in Nat /\ q.amount <= q.ct.m
      /\ q.balancePCT \in Nat
  BY StatementOfProof
<1>2. q.balancePCT = q.ct.m - q.amount
  BY DEF DInv, SpendsCounted
<1>3. AllGood(balances) /\ AllCounted(balances)
  BY AccountsGood DEF DInv, AccountsCounted, AllCounted
<1>4. e \in SpendableEntries(q)
  OBVIOUS
<1> HIDE DEF q
<1>5. AllGood(Debited(q, e, r)) /\ AllCounted(Debited(q, e, r))
  BY <1>1, <1>2, <1>3, <1>4, DebitGood, DebitCounted
<1> QED BY <1>5 DEF q

LEMMA TransferCounted ==
  ASSUME IInv, DInv, NEW p \in ProofIds, Transfer(p) PROVE DInv'
<1> DEFINE q == proofs[p]
<1>1. q # NoProof /\ q.kind # "mint"
  BY DEF Transfer, Submittable
<1>2. PICK e \in SpendableEntries(q) :
        balances' = [Debited(q, e, q.r) EXCEPT ![q.to][q.id] =
                       AddToUserBalance(@, Encrypt(q.amount, q.r), q.amount)]
  BY DEF Transfer
<1>3. /\ q.to \in Users /\ q.id \in TokenIds /\ q.amount \in Nat /\ q.r \in Int
  BY <1>1, StatementOfProof
<1> DEFINE mid == Debited(q, e, q.r)
           b == AddToUserBalance(mid[q.to][q.id], Encrypt(q.amount, q.r), q.amount)
<1>4. AllGood(mid) /\ AllCounted(mid)
  BY <1>1, <1>3, SpendLands
<1>5. balances' = [mid EXCEPT ![q.to][q.id] = b]
  BY <1>2
<1> HIDE DEF mid, q
<1>6. PctsCounted(b)
  BY <1>3, <1>4, AddCounted DEF AllGood, AllCounted
<1> HIDE DEF b
<1>7. AllCounted(balances')
  BY <1>3, <1>4, <1>5, <1>6, UpdateCounted
<1> QED BY <1>7, LandingCounted DEF Transfer

LEMMA MintCounted ==
  ASSUME IInv, DInv, NEW p \in ProofIds, PrivateMint(p) PROVE DInv'
<1> DEFINE q == proofs[p]
           b == AddToUserBalance(balances[q.to][q.id],
                                 Encrypt(q.amount, q.r), q.amount)
<1>1. /\ q.to \in Users /\ q.id \in TokenIds /\ q.amount \in Nat /\ q.r \in Int
  BY StatementOfProof DEF PrivateMint, Submittable
<1>2. balances' = [balances EXCEPT ![q.to][q.id] = b]
  BY DEF PrivateMint
<1>3. AllGood(balances) /\ AllCounted(balances)
  BY AccountsGood DEF DInv, AccountsCounted, AllCounted
<1> HIDE DEF q
<1>4. PctsCounted(b)
  BY <1>1, <1>3, AddCounted DEF AllGood, AllCounted
<1> HIDE DEF b
<1>5. AllCounted(balances')
  BY <1>1, <1>2, <1>3, <1>4, UpdateCounted
<1> QED BY <1>5, LandingCounted DEF PrivateMint

LEMMA SubmitCounted ==
  ASSUME IInv, DInv, NEW p \in ProofIds, Withdraw(p) \/ PrivateBurn(p) PROVE DInv'
<1>1. proofs[p] # NoProof /\ proofs[p].kind # "mint" /\ Execute(p)
  BY DEF Withdraw, PrivateBurn, Submittable
<1>2. PICK r \in Int, e \in SpendableEntries(proofs[p]) :
        balances' = Debited(proofs[p], e, r)
  BY <1>1, StatementOfProof DEF Withdraw, PrivateBurn
<1>3. AllCounted(balances')
  BY <1>1, <1>2, SpendLands
<1> QED BY <1>1, <1>3, LandingCounted

LEMMA InitCounted == Init => DInv
<1> SUFFICES ASSUME Init PROVE DInv
  OBVIOUS
<1>1. PctsCounted(EmptyBalance)
  BY AmountSumEmpty, FS_EmptySet DEF PctsCounted, EmptyBalance, Encrypt
<1> QED BY <1>1 DEF Init, DInv, AccountsCounted, SpendsCounted

LEMMA StepCounted ==
  ASSUME PctDrift \subseteq {0}
  PROVE  IInv /\ IInv' /\ DInv /\ [Next]_vars => DInv'
<1> SUFFICES ASSUME IInv, IInv', DInv, [Next]_vars PROVE DInv'
  OBVIOUS
<1>1. CASE Administer \/ UNCHANGED vars
  <2>1. UNCHANGED <<balances, proofs>>
    BY <1>1 DEF Administer, Register, SetAuditorPublicKey, SetTokenBlacklist,
                SetAuthorizedDepositor, vars
  <2> QED BY <2>1 DEF DInv, AccountsCounted, SpendsCounted
<1>2. CASE MakeDeposit
  <2>1. PICK u \in Users, amount \in Amounts, t \in Tokens :
          \/ Deposit(u, amount, t)
          \/ \E d \in Depositors, drift \in PctDrift :
               DepositFor(d, u, amount, t, drift)
    BY <1>2 DEF MakeDeposit
  <2>2. amount \in Nat /\ PrivateValue(t, amount) \in Nat
    BY DataAssumption, Scaling
  <2>3. PrivateValue(t, amount) + 0 = PrivateValue(t, amount)
    BY <2>2
  <2>4. \E payer \in Holders :
          CollectFrom(payer, u, amount, t, PrivateValue(t, amount))
    <3>1. CASE Deposit(u, amount, t)
      BY <3>1 DEF Deposit, ExecuteDepositFrom, Holders
    <3>2. ASSUME NEW d \in Depositors, NEW drift \in PctDrift,
                 DepositFor(d, u, amount, t, drift)
          PROVE  CollectFrom(d, u, amount, t, PrivateValue(t, amount))
      <4>1. PrivateValue(t, amount) + drift = PrivateValue(t, amount)
        BY <2>3
      <4> QED BY <3>2, <4>1 DEF DepositFor, ExecuteDepositFrom
    <3> QED BY <2>1, <3>1, <3>2 DEF Holders
  <2> QED BY <2>2, <2>4, CollectCounted
<1>3. CASE BuildProof
  BY <1>3, BuildCounted
<1>4. CASE SubmitProof
  BY <1>4, TransferCounted, MintCounted, SubmitCounted DEF SubmitProof
<1> QED BY <1>1, <1>2, <1>3, <1>4 DEF Next

LEMMA CountedIsDecryptable == IInv /\ DInv => AlwaysDecryptable
<1> SUFFICES ASSUME IInv, DInv, NEW u \in Users, NEW i \in TokenIds
             PROVE  Decryptable(u, i)
  BY DEF AlwaysDecryptable
<1>1. balances[u][i] \in EncryptedBalance /\ PctsCounted(balances[u][i])
  BY DEF IInv, TypeOK, DInv, AccountsCounted
<1>2. /\ balances[u][i].amountPCTs \in SUBSET AmountPCT
      /\ IsFiniteSet(balances[u][i].amountPCTs)
  BY <1>1 DEF EncryptedBalance, PctsCounted
<1>3. PctTotal(balances[u][i])
        = balances[u][i].balancePCT + AmountSum(balances[u][i].amountPCTs)
  BY <1>2, AmountSumOfPcts DEF PctTotal
<1> QED BY <1>1, <1>3 DEF Decryptable, Balance, PctsCounted

(* When every depositFor caller encrypts the amount it deposits, the PCTs  *)
(* an owner can decrypt always add up to its ciphertext, through spends of *)
(* old balances and the credits that arrive while they are in flight.      *)
THEOREM PctsAccountForBalance ==
  ASSUME PctDrift \subseteq {0}
  PROVE  Spec => []AlwaysDecryptable
<1>1. Init => DInv
  BY InitCounted
<1>2. IInv /\ IInv' /\ DInv /\ [Next]_vars => DInv'
  BY StepCounted
<1>3. Spec => []DInv
  BY <1>1, <1>2, Invariance, PTL DEF Spec
<1> QED BY <1>3, Invariance, CountedIsDecryptable, PTL

-------------------------------------------------------------------------------
(* A step of somebody else keeps a spend in flight valid: the snapshots of *)
(* a nonce stay until the nonce changes, and the reserve covers whatever   *)
(* is still covered by a balance.                                          *)

KeysKept(b, c) ==
  /\ b.nonce <= c.nonce
  /\ c.nonce = b.nonce =>
       \A ct \in Ciphertext :
         VerifyUserBalance(b, ct) # {} => VerifyUserBalance(c, ct) # {}

LEMMA KeysKeptTrans ==
  ASSUME NEW b \in EncryptedBalance, NEW c \in EncryptedBalance,
         NEW d \in EncryptedBalance, KeysKept(b, c), KeysKept(c, d)
  PROVE  KeysKept(b, d)
<1>1. b.nonce \in Nat /\ c.nonce \in Nat /\ d.nonce \in Nat
  BY DEF EncryptedBalance
<1>2. b.nonce <= d.nonce /\ (d.nonce = b.nonce => c.nonce = b.nonce)
  BY <1>1 DEF KeysKept
<1> QED BY <1>2 DEF KeysKept

LEMMA KeysKeptSame ==
  ASSUME NEW b \in EncryptedBalance PROVE KeysKept(b, b)
BY DEF KeysKept, EncryptedBalance

(* A snapshot that is replaced is replaced by one with the same key.       *)
LEMMA RememberKeeps ==
  ASSUME NEW b, NEW ct, VerifyUserBalance(b, ct) # {}, NEW d,
         d.balanceList = b.balanceList, d.nonce = b.nonce,
         NEW c, c.balanceList = Remember(d), c.nonce = d.nonce
  PROVE  VerifyUserBalance(c, ct) # {}
<1>1. PICK e \in b.balanceList : SameKey(e, ct, b.nonce)
  BY DEF VerifyUserBalance
<1>2. CASE SameKey(e, d.eGCT, d.nonce)
  <2>1. Snapshot(d) \in c.balanceList /\ SameKey(Snapshot(d), ct, c.nonce)
    BY <1>1, <1>2 DEF Remember, Snapshot, SameKey
  <2> QED BY <2>1 DEF VerifyUserBalance
<1>3. CASE ~SameKey(e, d.eGCT, d.nonce)
  BY <1>1, <1>3 DEF Remember, VerifyUserBalance
<1> QED BY <1>2, <1>3

LEMMA AddKeepsKeys ==
  ASSUME NEW b \in EncryptedBalance, NEW v, NEW r, NEW pct
  PROVE  KeysKept(b, AddToUserBalance(b, Encrypt(v, r), pct))
<1> DEFINE d == [b EXCEPT !.eGCT = AddCt(b.eGCT, Encrypt(v, r))]
           c == AddToUserBalance(b, Encrypt(v, r), pct)
<1>1. d.balanceList = b.balanceList /\ d.nonce = b.nonce /\ b.nonce \in Nat
  BY DEF EncryptedBalance
<1>2. c.balanceList = Remember(d) /\ c.nonce = d.nonce
  BY DEF AddToUserBalance, AddToUserHistory, EncryptedBalance
<1> HIDE DEF c, d
<1>3. KeysKept(b, c)
  BY <1>1, <1>2, RememberKeeps DEF KeysKept
<1> QED BY <1>3 DEF c

LEMMA ConvertKeepsKeys ==
  ASSUME NEW b \in EncryptedBalance, NEW v, NEW r, NEW pct
  PROVE  KeysKept(b, ConvertCredit(b, Encrypt(v, r), pct))
<1> DEFINE d == [b EXCEPT !.eGCT = AddCt(b.eGCT, Encrypt(v, r)),
                          !.amountPCTs = b.amountPCTs \cup
                             {[amount |-> pct, index |-> b.transactionIndex]},
                          !.transactionIndex = b.transactionIndex + 1]
           c == ConvertCredit(b, Encrypt(v, r), pct)
<1>1. d.balanceList = b.balanceList /\ d.nonce = b.nonce /\ b.nonce \in Nat
  BY DEF EncryptedBalance
<1>2. c.balanceList = Remember(d) /\ c.nonce = d.nonce
  BY DEF ConvertCredit, CommitUserBalance, EncryptedBalance
<1> HIDE DEF c, d
<1>3. KeysKept(b, c)
  BY <1>1, <1>2, RememberKeeps DEF KeysKept
<1> QED BY <1>3 DEF c

LEMMA SpendKeepsKeys ==
  ASSUME NEW b \in EncryptedBalance, NEW ct, NEW pct, NEW index
  PROVE  KeysKept(b, SubtractFromUserBalance(b, ct, pct, index))
<1>1. SubtractFromUserBalance(b, ct, pct, index).nonce = b.nonce + 1
  BY DEF SubtractFromUserBalance, DeleteUserHistory, CommitUserBalance,
         EncryptedBalance
<1>2. b.nonce \in Nat
  BY DEF EncryptedBalance
<1> QED BY <1>1, <1>2 DEF KeysKept

HistoryKept(bal, new) ==
  \A u \in Users, i \in TokenIds : KeysKept(bal[u][i], new[u][i])

LEMMA UpdateKeeps ==
  ASSUME NEW bal, AllGood(bal), NEW u \in Users, NEW i \in TokenIds,
         NEW b, KeysKept(bal[u][i], b)
  PROVE  HistoryKept(bal, [bal EXCEPT ![u][i] = b])
BY KeysKeptSame DEF AllGood, HistoryKept

LEMMA HistoryKeptTrans ==
  ASSUME NEW a, NEW b, NEW c, AllGood(a), AllGood(b), AllGood(c),
         HistoryKept(a, b), HistoryKept(b, c)
  PROVE  HistoryKept(a, c)
BY KeysKeptTrans DEF AllGood, HistoryKept

LEMMA CollectKeeps ==
  ASSUME IInv, IInv', NEW payer \in Holders, NEW to \in Users,
         NEW amount \in Nat, NEW t \in Tokens, NEW pct \in Nat,
         CollectFrom(payer, to, amount, t, pct)
  PROVE  HistoryKept(balances, balances')
<1>1. CASE UNCHANGED balances
  BY <1>1, AccountsGood, KeysKeptSame DEF AllGood, HistoryKept
<1>2. CASE ~UNCHANGED balances
  <2> DEFINE v == PrivateValue(t, amount)
  <2>1. PICK i \in TokenIds : i = tokenIds'[t]
    BY DEF IInv, TypeOK
  <2> DEFINE b == ConvertCredit(balances[to][i], Encrypt(v, 1), pct)
  <2>2. balances' = [balances EXCEPT ![to][i] = b]
    BY <1>2, <2>1 DEF CollectFrom, ConvertFrom
  <2>3. KeysKept(balances[to][i], b)
    BY AccountsGood, AccountRecord, ConvertKeepsKeys
  <2> HIDE DEF b
  <2> QED BY <2>2, <2>3, AccountsGood, UpdateKeeps
<1> QED BY <1>1, <1>2

LEMMA DebitKeeps ==
  ASSUME IInv, NEW p \in ProofIds, proofs[p] # NoProof,
         NEW r, NEW e \in SpendableEntries(proofs[p])
  PROVE  HistoryKept(balances, Debited(proofs[p], e, r))
<1> DEFINE q == proofs[p]
           b == SubtractFromUserBalance(balances[q.from][q.id],
                  Encrypt(q.amount, r), q.balancePCT, e.index)
<1>1. q.from \in Users /\ q.id \in TokenIds
  BY StatementOfProof
<1>2. KeysKept(balances[q.from][q.id], b)
  <2> HIDE DEF q
  <2> QED BY <1>1, AccountsGood, AccountRecord, SpendKeepsKeys
<1>3. Debited(q, e, r) = [balances EXCEPT ![q.from][q.id] = b]
  BY DEF Debited
<1> HIDE DEF b, q
<1>4. PICK u \in Users, i \in TokenIds : u = q.from /\ i = q.id
  BY <1>1
<1>5. KeysKept(balances[u][i], b) /\ Debited(q, e, r) = [balances EXCEPT ![u][i] = b]
  BY <1>2, <1>3, <1>4
<1>6. HistoryKept(balances, [balances EXCEPT ![u][i] = b])
  BY <1>5, AccountsGood, UpdateKeeps
<1> QED BY <1>5, <1>6 DEF q

LEMMA TransferKeeps ==
  ASSUME IInv, IInv', NEW p \in ProofIds, Transfer(p)
  PROVE  HistoryKept(balances, balances')
<1> DEFINE q == proofs[p]
<1>1. q # NoProof /\ q.kind # "mint"
  BY DEF Transfer, Submittable
<1>2. PICK e \in SpendableEntries(q) :
        balances' = [Debited(q, e, q.r) EXCEPT ![q.to][q.id] =
                       AddToUserBalance(@, Encrypt(q.amount, q.r), q.amount)]
  BY DEF Transfer
<1>3. /\ q.from \in Users /\ q.to \in Users /\ q.id \in TokenIds
      /\ q.ct \in Ciphertext /\ q.amount \in Nat /\ q.amount <= q.ct.m
      /\ q.balancePCT \in Nat /\ q.r \in Int
  BY <1>1, StatementOfProof
<1> DEFINE mid == Debited(q, e, q.r)
           b == AddToUserBalance(mid[q.to][q.id], Encrypt(q.amount, q.r), q.amount)
<1>4. HistoryKept(balances, mid)
  BY <1>1, <1>3, DebitKeeps
<1>5. AllGood(mid)
  <2> HIDE DEF q
  <2> QED BY <1>2, <1>3, AccountsGood, DebitGood
<1>6. balances' = [mid EXCEPT ![q.to][q.id] = b]
  BY <1>2
<1> HIDE DEF mid, q
<1>7. KeysKept(mid[q.to][q.id], b)
  BY <1>3, <1>5, AddKeepsKeys DEF AllGood
<1>8. AllGood(balances) /\ AllGood(balances')
  BY AccountsGood DEF AllGood, GoodBalance, IInv, TypeOK, SnapshotsCovered, NoncesPast
<1> HIDE DEF b
<1>9. HistoryKept(mid, balances')
  BY <1>3, <1>5, <1>6, <1>7, UpdateKeeps
<1> QED BY <1>4, <1>5, <1>8, <1>9, HistoryKeptTrans

LEMMA MintKeeps ==
  ASSUME IInv, NEW p \in ProofIds, PrivateMint(p)
  PROVE  HistoryKept(balances, balances')
<1> DEFINE q == proofs[p]
           b == AddToUserBalance(balances[q.to][q.id],
                                 Encrypt(q.amount, q.r), q.amount)
<1>1. q.to \in Users /\ q.id \in TokenIds
  BY StatementOfProof DEF PrivateMint, Submittable
<1>2. balances' = [balances EXCEPT ![q.to][q.id] = b]
  BY DEF PrivateMint
<1> HIDE DEF q
<1>3. KeysKept(balances[q.to][q.id], b)
  BY <1>1, AccountsGood, AccountRecord, AddKeepsKeys
<1> HIDE DEF b
<1> QED BY <1>1, <1>2, <1>3, AccountsGood, UpdateKeeps

LEMMA StepKeepsHistory ==
  ASSUME IInv, IInv', [Next]_vars PROVE HistoryKept(balances, balances')
<1>1. CASE UNCHANGED balances
  BY <1>1, AccountsGood, KeysKeptSame DEF AllGood, HistoryKept
<1>2. CASE Administer \/ BuildProof \/ UNCHANGED vars
  BY <1>1, <1>2 DEF Administer, Register, SetAuditorPublicKey, SetTokenBlacklist,
     SetAuthorizedDepositor, BuildProof, BuildMint, BuildSpend, StoreProof, vars
<1>3. CASE MakeDeposit
  <2>1. PICK u \in Users, amount \in Amounts, t \in Tokens :
          \/ Deposit(u, amount, t)
          \/ \E d \in Depositors, drift \in PctDrift :
               DepositFor(d, u, amount, t, drift)
    BY <1>3 DEF MakeDeposit
  <2>2. amount \in Nat /\ PrivateValue(t, amount) \in Nat
    BY DataAssumption, Scaling
  <2>3. CASE Deposit(u, amount, t)
    BY <2>2, <2>3, CollectKeeps DEF Deposit, ExecuteDepositFrom, Holders
  <2>4. ASSUME NEW d \in Depositors, NEW drift \in PctDrift,
               DepositFor(d, u, amount, t, drift)
        PROVE  HistoryKept(balances, balances')
    <3>1. PrivateValue(t, amount) + drift \in Nat
      BY <2>2, DataAssumption
    <3> QED BY <2>2, <2>4, <3>1, CollectKeeps
            DEF DepositFor, ExecuteDepositFrom, Holders
  <2> QED BY <2>1, <2>3, <2>4
<1>4. ASSUME NEW p \in ProofIds, Withdraw(p) \/ PrivateBurn(p)
      PROVE  HistoryKept(balances, balances')
  <2>1. proofs[p] # NoProof
    BY <1>4 DEF Withdraw, PrivateBurn, Submittable
  <2>2. CASE Withdraw(p)
    <3>1. PICK e \in SpendableEntries(proofs[p]) : balances' = Debited(proofs[p], e, 1)
      BY <2>2 DEF Withdraw
    <3> QED BY <2>1, <3>1, DebitKeeps
  <2>3. CASE PrivateBurn(p)
    <3>1. PICK e \in SpendableEntries(proofs[p]) :
            balances' = Debited(proofs[p], e, proofs[p].r)
      BY <2>3 DEF PrivateBurn
    <3> QED BY <2>1, <3>1, DebitKeeps
  <2> QED BY <1>4, <2>2, <2>3
<1>5. CASE SubmitProof
  BY <1>4, <1>5, TransferKeeps, MintKeeps DEF SubmitProof
<1> QED BY <1>2, <1>3, <1>5 DEF Next

(* Whatever a proof may still spend, the contract can pay out.             *)
Payable ==
  \A p \in ProofIds, t \in Tokens :
    /\ proofs[p] # NoProof /\ proofs[p].kind # "mint"
    /\ SpendableEntries(proofs[p]) # {}
    /\ t = tokenAddresses[proofs[p].id]
    => PublicValue(t, proofs[p].amount) <= reserve[t]

LEMMA ReserveCovers ==
  ASSUME IInv, SInv, NEW p \in ProofIds, proofs[p] # NoProof,
         proofs[p].kind # "mint", SpendableEntries(proofs[p]) # {},
         NEW t \in Tokens, t = tokenAddresses[proofs[p].id]
  PROVE  PublicValue(t, proofs[p].amount) <= reserve[t]
<1>1. PICK u \in Users, i \in TokenIds, a \in Nat :
        /\ u = proofs[p].from /\ i = proofs[p].id /\ a = proofs[p].amount
        /\ a <= proofs[p].ct.m
  BY StatementOfProof
<1>2. PICK e \in balances[u][i].balanceList :
        e.ct = proofs[p].ct /\ e.nonce = balances[u][i].nonce
  BY <1>1 DEF SpendableEntries, VerifyUserBalance, SameKey
<1>3. a <= HeldIn(balances)[u][i]
  <2>1. GoodBalance(balances[u][i])
    BY AccountsGood DEF AllGood
  <2>2. e.ct.m <= balances[u][i].eGCT.m /\ e.ct.m \in Int /\ balances[u][i].eGCT.m \in Int
    BY <1>2, <2>1 DEF GoodBalance, Covered, EncryptedBalance, BalanceHistory, Ciphertext
  <2> QED BY <1>1, <1>2, <2>2 DEF HeldIn
<1>4. PICK h \in [Users -> [TokenIds -> Int]] : h = HeldIn(balances)
  BY AccountsGood, HeldInt
<1>5. h[u][i] <= Total(h, i)
  <2> DEFINE f == [w \in Users |-> h[w][i]]
  <2>1. \A w \in Users : f[w] \in Nat
    BY <1>4, AccountsGood, HeldType
  <2>2. f[u] = h[u][i] /\ Total(h, i) = SumFunctionOnSet(f, Users)
    BY DEF Total
  <2> HIDE DEF f
  <2> QED BY <2>1, <2>2, UserAssumption, SumAtLeast
<1>6. PICK H \in Int, R \in Int : H = Total(h, i) /\ R = reserve[t]
  BY <1>4, TotalInt DEF IInv, TypeOK
<1>7. a <= H
  <2>1. PICK x \in Int : x = h[u][i]
    BY <1>4
  <2> QED BY <1>3, <1>4, <1>5, <1>6, <2>1
<1>8. BackedBy(t, R, H)
  <2>1. t # NoToken
    BY NameAssumption
  <2>2. i # 0 /\ tokenIds[t] = i
    BY <1>1, <2>1 DEF SInv, TokensAssigned
  <2> QED BY <1>4, <1>6, <2>2 DEF SInv, Backed
<1> DEFINE d == ScaleDown[t]
           s == ScaleUp[t]
<1>9. d \in Nat \ {0} /\ s \in Nat \ {0} /\ R * s >= d * H
  BY <1>8, ScaleAssumption DEF BackedBy
<1>10. PublicValue(t, a) = (a * d) \div s
  BY DEF PublicValue
<1> HIDE DEF d, s
<1>11. a * d \in Nat
  BY <1>9
<1>12. PICK n \in Nat : n = (a * d) \div s
  BY <1>9, <1>11, Divide
<1>13. n * s <= a * d
  BY <1>9, <1>11, <1>12, Divide
<1>14. a * d <= d * H
  BY <1>7, <1>9
<1>15. n * s <= R * s
  <2>1. PICK x \in Int, y \in Int, z \in Int, w \in Int :
          x = n * s /\ y = a * d /\ z = d * H /\ w = R * s
    BY <1>6, <1>9, <1>11
  <2>2. x <= y /\ y <= z /\ z <= w
    BY <1>9, <1>13, <1>14, <2>1
  <2>3. x <= w
    BY <2>2
  <2> QED BY <2>1, <2>3
<1>16. n <= R
  <2> SUFFICES ASSUME n > R PROVE FALSE
    BY <1>6
  <2>1. n * s >= (R + 1) * s
    BY <1>9
  <2>2. (R + 1) * s = R * s + s
    BY <1>9
  <2> QED BY <1>9, <1>15, <2>1, <2>2
<1> QED BY <1>1, <1>6, <1>10, <1>12, <1>16

LEMMA SpendsArePayable == IInv /\ SInv => Payable
BY ReserveCovers DEF Payable

(* What else a proof was checked against does not go away.                 *)
LEMMA StepKeepsProofs ==
  ASSUME IInv, [Next]_vars
  PROVE  /\ registered \subseteq registered' /\ isConverter' = isConverter
         /\ \A p \in ProofIds : proofs[p] # NoProof => proofs'[p] = proofs[p]
<1>1. CASE Administer \/ UNCHANGED vars
  BY <1>1 DEF Administer, Register, SetAuditorPublicKey, SetTokenBlacklist,
              SetAuthorizedDepositor, vars, admin
<1>2. CASE MakeDeposit
  BY <1>2 DEF MakeDeposit, Deposit, DepositFor, ExecuteDepositFrom, CollectFrom, admin
<1>3. CASE BuildProof
  <2>1. ASSUME NEW p \in ProofIds, NEW q, StoreProof(p, q)
        PROVE  /\ registered \subseteq registered' /\ isConverter' = isConverter
               /\ \A x \in ProofIds : proofs[x] # NoProof => proofs'[x] = proofs[x]
    BY <2>1 DEF StoreProof, admin, IInv, TypeOK
  <2>2. PICK p \in ProofIds, from \in Users, amount \in Amounts, r \in Randoms :
          \/ BuildMint(p, from, amount, r)
          \/ \E kind \in SpendKinds, to \in Users, i \in TokenIds :
               BuildSpend(p, kind, from, to, i, amount, r)
    BY <1>3 DEF BuildProof
  <2>3. CASE BuildMint(p, from, amount, r)
    BY <2>1, <2>3 DEF BuildMint
  <2>4. ASSUME NEW kind \in SpendKinds, NEW to \in Users, NEW i \in TokenIds,
               BuildSpend(p, kind, from, to, i, amount, r)
        PROVE  /\ registered \subseteq registered' /\ isConverter' = isConverter
               /\ \A x \in ProofIds : proofs[x] # NoProof => proofs'[x] = proofs[x]
    BY <2>1, <2>4 DEF BuildSpend
  <2> QED BY <2>2, <2>3, <2>4
<1>4. CASE SubmitProof
  BY <1>4 DEF SubmitProof, Transfer, Withdraw, PrivateBurn, PrivateMint, Execute, admin
<1> QED BY <1>1, <1>2, <1>3, <1>4 DEF Next

LEMMA StepKeepsAddresses ==
  ASSUME IInv, IInv', SInv, [Next]_vars, NEW i \in TokenIds,
         tokenAddresses[i] # NoToken
  PROVE  tokenAddresses'[i] = tokenAddresses[i]
<1>1. CASE UNCHANGED tracker
  BY <1>1 DEF tracker
<1>2. ASSUME NEW t \in Tokens, AddToken(t)
      PROVE  tokenAddresses'[i] = tokenAddresses[i]
  <2>1. CASE tokenIds[t] # 0
    BY <1>1, <1>2, <2>1 DEF AddToken
  <2>2. CASE tokenIds[t] = 0
    <3>1. /\ nextTokenId \in TokenIds
          /\ tokenAddresses' = [tokenAddresses EXCEPT ![nextTokenId] = t]
      BY <1>2, <2>2 DEF AddToken
    <3>2. tokenAddresses[i] \in Tokens /\ nextTokenId \in Nat /\ i \in Nat
      BY DEF IInv, TypeOK, TokenIds
    <3>3. i < nextTokenId
      BY <3>2 DEF SInv, TokensAssigned
    <3>4. i # nextTokenId
      BY <3>2, <3>3
    <3> QED BY <3>1, <3>4 DEF IInv, TypeOK
  <2> QED BY <2>1, <2>2
<1>3. CASE MakeDeposit
  BY <1>2, <1>3 DEF MakeDeposit, Deposit, DepositFor, ExecuteDepositFrom,
                    CollectFrom, ConvertFrom
<1>4. CASE Administer \/ UNCHANGED vars
  BY <1>1, <1>4 DEF Administer, Register, SetAuditorPublicKey, SetTokenBlacklist,
                    SetAuthorizedDepositor, vars
<1>5. CASE BuildProof
  BY <1>1, <1>5 DEF BuildProof, BuildMint, BuildSpend, StoreProof
<1>6. CASE SubmitProof
  BY <1>1, <1>6 DEF SubmitProof, Transfer, Withdraw, PrivateBurn, PrivateMint, Execute
<1> QED BY <1>3, <1>4, <1>5, <1>6 DEF Next

LEMMA AcceptedStays ==
  ASSUME IInv, IInv', SInv, SInv', [Next]_vars, NEW p \in ProofIds, Accepts(p),
         auditor' = auditor,
         balances'[proofs[p].from][proofs[p].id].nonce
           = balances[proofs[p].from][proofs[p].id].nonce
  PROVE  Accepts(p)'
<1>1. PICK kind \in SpendKinds : Submittable(p, kind)
  BY DEF Accepts
<1>2. proofs[p] # NoProof /\ proofs[p].kind = kind /\ kind # "mint"
  BY <1>1 DEF Submittable, SpendKinds
<1>3. proofs'[p] = proofs[p] /\ registered \subseteq registered' /\ SpendKinds' = SpendKinds
  BY <1>2, StepKeepsProofs DEF SpendKinds
<1>4. Submittable(p, kind)'
  BY <1>1, <1>3 DEF Submittable, OnlyIfAuditorSet
<1>5. SpendableEntries(proofs[p])' # {}
  <2>1. PICK u \in Users, i \in TokenIds, ct \in Ciphertext :
          u = proofs[p].from /\ i = proofs[p].id /\ ct = proofs[p].ct
    BY <1>2, StatementOfProof
  <2>2. KeysKept(balances[u][i], balances'[u][i])
    BY StepKeepsHistory DEF HistoryKept
  <2>3. VerifyUserBalance(balances[u][i], ct) # {}
    BY <2>1 DEF Accepts, SpendableEntries
  <2>4. VerifyUserBalance(balances'[u][i], ct) # {}
    BY <2>1, <2>2, <2>3 DEF KeysKept
  <2> QED BY <1>3, <2>1, <2>4 DEF SpendableEntries
<1>6. ASSUME proofs[p].kind = "withdraw"
      PROVE  LET t == tokenAddresses'[proofs[p].id]
             IN  t # NoToken /\ PublicValue(t, proofs[p].amount) <= reserve'[t]
  <2>1. PICK t \in Tokens : t = tokenAddresses[proofs[p].id]
    BY <1>2, <1>6, StatementOfProof DEF Accepts, IInv, TypeOK
  <2>2. t # NoToken
    BY NameAssumption
  <2>3. t = tokenAddresses'[proofs[p].id]
    BY <1>2, <2>1, <2>2, StatementOfProof, StepKeepsAddresses
  <2>4. (IInv /\ SInv => Payable)'
    BY SpendsArePayable, PTL
  <2> QED BY <1>2, <1>3, <1>5, <2>2, <2>3, <2>4 DEF Payable
<1> QED BY <1>1, <1>3, <1>4, <1>5, <1>6 DEF Accepts

(* Only its own sender and an auditor rotation invalidate a spend in       *)
(* flight.                                                                 *)
THEOREM AcceptedProofsStayValid == Spec => OthersKeepProofsValid
<1>1. Spec => []SInv
  BY Invariance, InitSolvent, StepSolvent, PTL DEF Spec
<1>2. IInv /\ IInv' /\ SInv /\ SInv' /\ [Next]_vars =>
        [\A p \in ProofIds :
           LET q == proofs[p]
           IN  /\ Accepts(p)
               /\ auditor' = auditor
               /\ balances'[q.from][q.id].nonce = balances[q.from][q.id].nonce
               => Accepts(p)']_vars
  BY AcceptedStays
<1> QED BY <1>1, <1>2, Invariance, PTL DEF Spec, OthersKeepProofsValid

-------------------------------------------------------------------------------
(* The gifts. The invariants of EncryptedERC carry over, because a claim   *)
(* is a deposit that returns the dust to someone else. To them comes what  *)
(* a claim takes for granted: the token of a gift has had its id since the *)
(* gift was created.                                                       *)

OpenIn(gs, t) ==
  {g \in GiftIds : gs[g] # NoGift /\ gs[g].status = "created" /\ gs[g].token = t}

AmountsIn(gs) == [g \in GiftIds |-> gs[g].amount]

OpenSum(gs, t) == SumFunctionOnSet(AmountsIn(gs), OpenIn(gs, t))

EscrowHolds == \A t \in Tokens : erc[Escrow][t] = InitialErc + OpenSum(gifts, t)

TokensKnown == \A g \in GiftIds : gifts[g] # NoGift => tokenIds[gifts[g].token] # 0

GInv == GiftsTypeOK /\ EscrowHolds /\ TokensKnown

-------------------------------------------------------------------------------
(* What opening or closing one gift does to the sum.                       *)

LEMMA OpenAmounts ==
  ASSUME NEW gs \in [GiftIds -> Gift \cup {NoGift}], NEW t
  PROVE  \A g \in OpenIn(gs, t) : gs[g] \in Gift /\ AmountsIn(gs)[g] \in Nat
BY DEF OpenIn, AmountsIn, Gift

LEMMA OpenSumInt ==
  ASSUME NEW gs \in [GiftIds -> Gift \cup {NoGift}], NEW t, IsFiniteSet(OpenIn(gs, t))
  PROVE  OpenSum(gs, t) \in Nat
BY OpenAmounts, SumNat DEF OpenSum

LEMMA SumOpened ==
  ASSUME NEW gs \in [GiftIds -> Gift \cup {NoGift}], NEW t, IsFiniteSet(OpenIn(gs, t)),
         NEW g \in GiftIds, gs[g] = NoGift,
         NEW gift \in Gift, gift.status = "created", gift.token = t,
         NEW new \in [GiftIds -> Gift \cup {NoGift}], new[g] = gift,
         \A x \in GiftIds : x # g => new[x] = gs[x]
  PROVE  OpenSum(new, t) = OpenSum(gs, t) + gift.amount
<1>1. gift # NoGift
  BY EscrowAssumption
<1>2. OpenIn(new, t) = OpenIn(gs, t) \cup {g} /\ g \notin OpenIn(gs, t)
  BY <1>1 DEF OpenIn
<1>3. \A x \in OpenIn(gs, t) : AmountsIn(new)[x] = AmountsIn(gs)[x]
  BY <1>2 DEF OpenIn, AmountsIn
<1>4. AmountsIn(new)[g] = gift.amount /\ gift.amount \in Nat
  BY <1>1 DEF AmountsIn, Gift
<1>5. \A x \in OpenIn(gs, t) \cup {g} : AmountsIn(new)[x] \in Int
  <2>1. \A x \in OpenIn(gs, t) : AmountsIn(gs)[x] \in Int
    BY OpenAmounts
  <2>2. AmountsIn(new)[g] \in Int
    BY <1>4
  <2> QED BY <1>3, <2>1, <2>2
<1>6. SumFunctionOnSet(AmountsIn(new), OpenIn(gs, t) \cup {g})
        = AmountsIn(new)[g] + SumFunctionOnSet(AmountsIn(new), OpenIn(gs, t))
  <2>1. g \notin OpenIn(gs, t)
    BY <1>2
  <2> QED BY <1>5, <2>1, SumInsert
<1>7. SumFunctionOnSet(AmountsIn(new), OpenIn(gs, t)) = OpenSum(gs, t)
  BY <1>3, SumEqual DEF OpenSum
<1>8. OpenSum(new, t) = gift.amount + OpenSum(gs, t)
  BY <1>2, <1>6, <1>7, <1>4 DEF OpenSum
<1> QED BY <1>4, <1>8, OpenSumInt

LEMMA SumClosed ==
  ASSUME NEW gs \in [GiftIds -> Gift \cup {NoGift}], NEW t, IsFiniteSet(OpenIn(gs, t)),
         NEW g \in OpenIn(gs, t), NEW new, new[g].status # "created",
         \A x \in GiftIds : x # g => new[x] = gs[x]
  PROVE  OpenSum(new, t) = OpenSum(gs, t) - gs[g].amount
<1>1. g \in GiftIds /\ gs[g] \in Gift
  BY OpenAmounts DEF OpenIn
<1>3. OpenIn(new, t) = OpenIn(gs, t) \ {g}
  BY <1>1 DEF OpenIn
<1>4. IsFiniteSet(OpenIn(new, t))
  BY <1>3, FS_Subset
<1>5. \A x \in OpenIn(new, t) : AmountsIn(new)[x] = AmountsIn(gs)[x]
  BY <1>3 DEF OpenIn, AmountsIn
<1>6. OpenSum(new, t) = SumFunctionOnSet(AmountsIn(gs), OpenIn(gs, t) \ {g})
  <2>1. SumFunctionOnSet(AmountsIn(new), OpenIn(new, t))
          = SumFunctionOnSet(AmountsIn(gs), OpenIn(new, t))
    BY <1>4, <1>5, SumEqual
  <2> QED BY <1>3, <2>1 DEF OpenSum
<1>7. \A x \in OpenIn(gs, t) : AmountsIn(gs)[x] \in Int
  BY OpenAmounts
<1>8. OpenSum(gs, t) = AmountsIn(gs)[g] + OpenSum(new, t)
  BY <1>6, <1>7, SumSplit DEF OpenSum
<1>9. AmountsIn(gs)[g] = gs[g].amount /\ gs[g].amount \in Nat
  BY <1>1 DEF AmountsIn, Gift
<1>10. OpenSum(new, t) \in Int
  <2>1. \A x \in OpenIn(new, t) : AmountsIn(new)[x] \in Int
    BY <1>3, <1>5, <1>7
  <2> QED BY <1>4, <2>1, SumInt DEF OpenSum
<1> QED BY <1>8, <1>9, <1>10

(* A gift of one token is none of the business of another.                 *)
LEMMA SumOfOthers ==
  ASSUME NEW gs \in [GiftIds -> Gift \cup {NoGift}], NEW t, IsFiniteSet(OpenIn(gs, t)),
         NEW new, OpenIn(new, t) = OpenIn(gs, t),
         \A g \in OpenIn(gs, t) : new[g] = gs[g]
  PROVE  OpenSum(new, t) = OpenSum(gs, t)
<1>1. \A g \in OpenIn(gs, t) : AmountsIn(new)[g] = AmountsIn(gs)[g]
  BY DEF OpenIn, AmountsIn
<1> QED BY <1>1, SumEqual DEF OpenSum

LEMMA OpenFinite ==
  ASSUME GiftsTypeOK, NEW t
  PROVE  IsFiniteSet(OpenIn(gifts, t))
<1>1. PICK n \in Nat : n = nextGiftId
  BY DEF GiftsTypeOK
<1>2. \A g \in OpenIn(gifts, t) : g \in Nat \ {0} /\ g < n
  BY <1>1, EscrowAssumption DEF GiftsTypeOK, OpenIn
<1>3. OpenIn(gifts, t) \subseteq 1 .. n
  BY <1>2
<1>4. IsFiniteSet(1 .. n)
  BY FS_Interval
<1> QED BY <1>3, <1>4, FS_Subset

-------------------------------------------------------------------------------
(* The steps. All the EncryptedERC sees of the escrow, its ERC20s apart,   *)
(* is the deposit of a claim.                                              *)

LEMMA QuietGood ==
  ASSUME IInv, UNCHANGED <<admin, tracker, balances, reserve, proofs, alreadyMinted, uses>>,
         erc' \in [Holders -> [Tokens -> Int]]
  PROVE  IInv'
<1>1. TypeOK'
  BY DEF IInv, TypeOK, admin, tracker
<1>2. (SnapshotsCovered /\ NoncesPast /\ ProofsSound /\ UnusedUntilBuilt)'
  BY DEF IInv, SnapshotsCovered, NoncesPast, ProofsSound, UnusedUntilBuilt
<1> QED BY <1>1, <1>2 DEF IInv

LEMMA GiftFacts ==
  ASSUME GiftsTypeOK, NEW g \in GiftIds, gifts[g] # NoGift
  PROVE  /\ gifts[g] \in Gift
         /\ gifts[g].sender \in Users /\ gifts[g].token \in Tokens
         /\ gifts[g].amount \in Nat \ {0}
         /\ g \in Nat /\ g < nextGiftId
BY EscrowAssumption DEF GiftsTypeOK, Gift

LEMMA CreateTypes ==
  ASSUME IInv, GiftsTypeOK, NEW sender \in Users, NEW t \in Tokens,
         NEW amount \in Amounts, NEW expiry \in 1 .. MaxTime,
         createGift(sender, t, amount, expiry),
         NEW got, got = Received(t, amount),
         NEW gift, gift = [sender |-> sender, token |-> t, amount |-> got,
                           expiry |-> expiry, status |-> "created"]
  PROVE  /\ gift \in Gift /\ gifts[nextGiftId] = NoGift
         /\ gifts' = [gifts EXCEPT ![nextGiftId] = gift]
         /\ GiftsTypeOK'
         /\ erc' \in [Holders -> [Tokens -> Int]]
         /\ \A s \in Tokens :
              erc'[Escrow][s] = IF s = t THEN erc[Escrow][s] + got ELSE erc[Escrow][s]
<1>1. amount \in Nat /\ got \in Nat \ {0}
  BY DataAssumption DEF createGift, Received
<1>2. gift \in Gift
  BY <1>1 DEF Gift
<1>3. gifts' = [gifts EXCEPT ![nextGiftId] = gift]
  BY DEF createGift, EscrowedAmount
<1>4. PICK n \in GiftIds : n = nextGiftId
  BY DEF createGift
<1>5. n \in Nat /\ nextGiftId' = n + 1
  BY <1>4, EscrowAssumption DEF createGift
<1>6. gifts[n] = NoGift
  BY <1>4, <1>5 DEF GiftsTypeOK
<1>7. gifts' = [gifts EXCEPT ![n] = gift] /\ gift # NoGift
  BY <1>2, <1>3, <1>4, EscrowAssumption
<1>8. GiftsTypeOK'
  <2>1. gifts' \in [GiftIds -> Gift \cup {NoGift}] /\ gifts'[n] = gift
    BY <1>2, <1>7 DEF GiftsTypeOK
  <2>2. \A g \in GiftIds : gifts'[g] # NoGift <=> g < n + 1
    <3> SUFFICES ASSUME NEW g \in GiftIds PROVE gifts'[g] # NoGift <=> g < n + 1
      OBVIOUS
    <3>1. g \in Nat /\ (gifts[g] # NoGift <=> g < n)
      BY <1>4, EscrowAssumption DEF GiftsTypeOK
    <3> QED BY <1>5, <1>7, <2>1, <3>1 DEF GiftsTypeOK
  <2> QED BY <1>5, <2>1, <2>2 DEF GiftsTypeOK, createGift
<1>9. /\ erc \in [Holders -> [Tokens -> Int]] /\ sender \in Holders /\ Escrow \in Holders
      /\ sender # Escrow
  BY EscrowAssumption DEF IInv, TypeOK, Holders
<1>10. erc' = [erc EXCEPT ![sender][t] = @ - amount, ![Escrow][t] = @ + got]
  BY DEF createGift
<1>11. erc' \in [Holders -> [Tokens -> Int]]
  <2>1. PICK e : e = [erc EXCEPT ![sender][t] = @ - amount]
    OBVIOUS
  <2>2. e \in [Holders -> [Tokens -> Int]]
    BY <1>1, <1>9, <2>1
  <2>3. e[Escrow][t] = erc[Escrow][t]
    BY <1>9, <2>1
  <2>4. erc' = [e EXCEPT ![Escrow][t] = @ + got]
    BY <1>10, <2>1, <2>3
  <2> QED BY <1>1, <1>9, <2>2, <2>4
<1>12. \A s \in Tokens :
         erc'[Escrow][s] = IF s = t THEN erc[Escrow][s] + got ELSE erc[Escrow][s]
  BY <1>1, <1>9, <1>10
<1> QED BY <1>2, <1>3, <1>4, <1>6, <1>8, <1>11, <1>12

LEMMA CreateStep ==
  ASSUME IInv, SInv, GInv, NEW sender \in Users, NEW t \in Tokens,
         NEW amount \in Amounts, NEW expiry \in 1 .. MaxTime,
         createGift(sender, t, amount, expiry)
  PROVE  (IInv /\ SInv /\ GInv)'
<1>1. PICK got : got = Received(t, amount)
  OBVIOUS
<1>2. PICK gift : gift = [sender |-> sender, token |-> t, amount |-> got,
                          expiry |-> expiry, status |-> "created"]
  OBVIOUS
<1>3. /\ gift \in Gift /\ gifts[nextGiftId] = NoGift
      /\ gifts' = [gifts EXCEPT ![nextGiftId] = gift]
      /\ GiftsTypeOK'
      /\ erc' \in [Holders -> [Tokens -> Int]]
      /\ \A s \in Tokens :
           erc'[Escrow][s] = IF s = t THEN erc[Escrow][s] + got ELSE erc[Escrow][s]
  BY <1>1, <1>2, CreateTypes DEF GInv
<1>4. IInv'
  BY <1>3, QuietGood DEF createGift
<1>5. SInv'
  BY QuietSolvent DEF createGift, SInv, MintsOwnToken
<1>6. PICK gs \in [GiftIds -> Gift \cup {NoGift}], n \in GiftIds :
        gs = gifts /\ n = nextGiftId
  BY DEF GInv, GiftsTypeOK, createGift
<1>7. PICK new : new = gifts'
  OBVIOUS
<1>8. new = [gs EXCEPT ![n] = gift] /\ gs[n] = NoGift
  BY <1>3, <1>6, <1>7
<1>9. \A s \in Tokens : IsFiniteSet(OpenIn(gs, s)) /\ OpenSum(gs, s) \in Nat
  BY <1>6, OpenFinite, OpenSumInt DEF GInv
<1>10. EscrowHolds'
  <2> SUFFICES ASSUME NEW s \in Tokens
               PROVE  erc'[Escrow][s] = InitialErc + OpenSum(new, s)
    BY <1>7 DEF EscrowHolds
  <2>1. erc[Escrow][s] = InitialErc + OpenSum(gs, s)
    BY <1>6 DEF GInv, EscrowHolds
  <2>2. CASE s = t
    <3>1. gift.token = s /\ gift.status = "created" /\ gift.amount = got
      BY <1>2, <2>2
    <3>2. gift \in Gift
      BY <1>3
    <3>3. OpenSum(new, s) = OpenSum(gs, s) + gift.amount
      <4>1. \A x \in GiftIds : x # n => new[x] = gs[x]
        BY <1>8
      <4>2. new[n] = gift /\ new \in [GiftIds -> Gift \cup {NoGift}]
        BY <1>8, <3>2
      <4>3. gs[n] = NoGift /\ IsFiniteSet(OpenIn(gs, s))
        BY <1>8, <1>9
      <4>4. gift.status = "created" /\ gift.token = s
        BY <3>1
      <4> HIDE DEF OpenSum
      <4> QED BY <3>2, <4>1, <4>2, <4>3, <4>4, SumOpened
    <3>4. got \in Nat
      BY <3>1, <3>2 DEF Gift
    <3> QED BY <1>3, <1>9, <2>1, <2>2, <3>1, <3>3, <3>4, DataAssumption
  <2>3. CASE s # t
    <3>1. OpenIn(new, s) = OpenIn(gs, s) /\ \A g \in OpenIn(gs, s) : new[g] = gs[g]
      BY <1>2, <1>8, <2>3 DEF OpenIn
    <3>2. OpenSum(new, s) = OpenSum(gs, s)
      BY <1>9, <3>1, SumOfOthers
    <3> QED BY <1>3, <2>1, <2>3, <3>2
  <2> QED BY <2>2, <2>3
<1>11. TokensKnown'
  <2>1. UNCHANGED tokenIds /\ tokenIds[t] # 0 /\ gift.token = t
    BY <1>2 DEF createGift, tracker
  <2> QED BY <1>6, <1>7, <1>8, <2>1 DEF GInv, TokensKnown
<1> QED BY <1>3, <1>4, <1>5, <1>10, <1>11 DEF GInv

(* The escrow pays a out, of which b reaches x.                            *)
Paying(e, x, t, a, b) == [e EXCEPT ![Escrow][t] = @ - a, ![x][t] = @ + b]

LEMMA PaidOut ==
  ASSUME NEW e \in [Holders -> [Tokens -> Int]], NEW x \in Users, NEW t \in Tokens,
         NEW a \in Int, NEW b \in Int,
         NEW new, new = Paying(e, x, t, a, b)
  PROVE  /\ new \in [Holders -> [Tokens -> Int]]
         /\ \A s \in Tokens :
              new[Escrow][s] = IF s = t THEN e[Escrow][s] - a ELSE e[Escrow][s]
         /\ new[x][t] = e[x][t] + b
<1>1. x \in Holders /\ Escrow \in Holders /\ x # Escrow
  BY EscrowAssumption DEF Holders
<1>2. PICK less \in Int, more \in Int : less = e[Escrow][t] - a /\ more = e[x][t] + b
  BY <1>1
<1>3. PICK p \in [Tokens -> Int], q \in [Tokens -> Int] :
        p = [e[Escrow] EXCEPT ![t] = less] /\ q = [e[x] EXCEPT ![t] = more]
  BY <1>1
<1>4. new = [e EXCEPT ![Escrow] = p, ![x] = q]
  BY <1>1, <1>2, <1>3 DEF Paying
<1>5. new[Escrow] = p /\ new[x] = q /\ new \in [Holders -> [Tokens -> Int]]
  BY <1>1, <1>3, <1>4
<1>6. \A s \in Tokens :
        new[Escrow][s] = IF s = t THEN e[Escrow][s] - a ELSE e[Escrow][s]
  BY <1>1, <1>2, <1>3, <1>5
<1>7. new[x][t] = e[x][t] + b
  BY <1>2, <1>3, <1>5
<1> QED BY <1>5, <1>6, <1>7

LEMMA CloseStep ==
  ASSUME GInv, NEW g \in GiftIds, IsCreated(g),
         NEW status \in {"claimed", "refunded"},
         gifts' = [gifts EXCEPT ![g].status = status],
         UNCHANGED <<nextGiftId, now>>,
         \A s \in Tokens :
           erc'[Escrow][s] = IF s = gifts[g].token THEN erc[Escrow][s] - gifts[g].amount
                                                   ELSE erc[Escrow][s],
         \A s \in Tokens : tokenIds[s] # 0 => tokenIds'[s] # 0
  PROVE  GInv'
<1>1. PICK gs \in [GiftIds -> Gift \cup {NoGift}] : gs = gifts
  BY DEF GInv, GiftsTypeOK
<1>2. PICK new : new = gifts'
  OBVIOUS
<1>3. PICK gift \in Gift : gift = gs[g]
  BY <1>1, GiftFacts DEF IsCreated, GInv
<1>4. gift.status = "created" /\ gift.token \in Tokens /\ gift.amount \in Nat
  BY <1>1, <1>3 DEF IsCreated, Gift
<1>5. /\ new \in [GiftIds -> Gift \cup {NoGift}] /\ new[g] \in Gift
      /\ new[g].status # "created" /\ new[g].token = gift.token
      /\ \A x \in GiftIds : x # g => new[x] = gs[x]
  <2>1. new = [gs EXCEPT ![g] = [gift EXCEPT !.status = status]]
    BY <1>1, <1>2, <1>3
  <2>2. PICK after : after = [gift EXCEPT !.status = status]
    OBVIOUS
  <2>3. after \in Gift /\ after.status # "created" /\ after.token = gift.token
    BY <2>2 DEF Gift
  <2> QED BY <2>1, <2>2, <2>3
<1>6. gs[g] # NoGift /\ new[g] # NoGift
  BY <1>3, <1>5, EscrowAssumption
<1>7. GiftsTypeOK'
  BY <1>1, <1>2, <1>5, <1>6 DEF GInv, GiftsTypeOK
<1>8. \A s \in Tokens : IsFiniteSet(OpenIn(gs, s)) /\ OpenSum(gs, s) \in Nat
  BY <1>1, OpenFinite, OpenSumInt DEF GInv
<1>9. EscrowHolds'
  <2> SUFFICES ASSUME NEW s \in Tokens
               PROVE  erc'[Escrow][s] = InitialErc + OpenSum(new, s)
    BY <1>2 DEF EscrowHolds
  <2>1. erc[Escrow][s] = InitialErc + OpenSum(gs, s)
    BY <1>1 DEF GInv, EscrowHolds
  <2>2. CASE s = gift.token
    <3>1. g \in OpenIn(gs, s)
      BY <1>3, <1>4, <1>6, <2>2 DEF OpenIn
    <3>2. OpenSum(new, s) = OpenSum(gs, s) - gs[g].amount
      BY <1>5, <1>8, <3>1, SumClosed
    <3> QED BY <1>1, <1>3, <1>4, <1>8, <2>1, <2>2, <3>2, DataAssumption
  <2>3. CASE s # gift.token
    <3>1. OpenIn(new, s) = OpenIn(gs, s) /\ \A x \in OpenIn(gs, s) : new[x] = gs[x]
      BY <1>3, <1>5, <2>3 DEF OpenIn
    <3>2. OpenSum(new, s) = OpenSum(gs, s)
      BY <1>8, <3>1, SumOfOthers
    <3> QED BY <1>1, <1>3, <2>1, <2>3, <3>2
  <2> QED BY <2>2, <2>3
<1>10. TokensKnown'
  <2> SUFFICES ASSUME NEW x \in GiftIds, new[x] # NoGift
               PROVE  tokenIds'[new[x].token] # 0
    BY <1>2 DEF TokensKnown
  <2>1. gs[x] # NoGift /\ gs[x] \in Gift /\ new[x].token = gs[x].token
    BY <1>3, <1>5, <1>6
  <2>2. gs[x].token \in Tokens /\ tokenIds[gs[x].token] # 0
    BY <1>1, <2>1 DEF GInv, TokensKnown, Gift
  <2> QED BY <2>1, <2>2
<1> QED BY <1>7, <1>9, <1>10 DEF GInv

LEMMA RefundStep ==
  ASSUME IInv, SInv, GInv, NEW g \in GiftIds, refund(g)
  PROVE  (IInv /\ SInv /\ GInv)'
<1>1. PICK gift \in Gift : gift = gifts[g]
  BY GiftFacts DEF refund, IsCreated, GInv
<1>2. PICK sender \in Users, t \in Tokens, a \in Nat :
        sender = gift.sender /\ t = gift.token /\ a = gift.amount
  BY DEF Gift
<1>3. PICK back \in Int : back = Received(t, a)
  BY ReceivedInt
<1>4. erc' = [erc EXCEPT ![Escrow][t] = @ - a, ![sender][t] = @ + back]
  BY <1>1, <1>2, <1>3 DEF refund
<1>5. /\ erc' \in [Holders -> [Tokens -> Int]]
      /\ \A s \in Tokens :
           erc'[Escrow][s] = IF s = t THEN erc[Escrow][s] - a ELSE erc[Escrow][s]
  <2>1. PICK e \in [Holders -> [Tokens -> Int]] : e = erc
    BY DEF IInv, TypeOK
  <2>2. PICK new : new = erc'
    OBVIOUS
  <2>3. new = Paying(e, sender, t, a, back)
    BY <1>4, <2>1, <2>2 DEF Paying
  <2>4. /\ new \in [Holders -> [Tokens -> Int]]
        /\ \A s \in Tokens :
             new[Escrow][s] = IF s = t THEN e[Escrow][s] - a ELSE e[Escrow][s]
    BY <2>3, PaidOut
  <2> QED BY <2>1, <2>2, <2>4
<1>6. IInv'
  BY <1>5, QuietGood DEF refund
<1>7. SInv'
  BY QuietSolvent DEF refund, SInv, MintsOwnToken
<1>8. GInv'
  <2>1. \A s \in Tokens : tokenIds[s] # 0 => tokenIds'[s] # 0
    BY DEF refund, tracker
  <2>2. /\ gifts' = [gifts EXCEPT ![g].status = "refunded"]
        /\ UNCHANGED <<nextGiftId, now>> /\ IsCreated(g)
    BY DEF refund
  <2> QED BY <1>1, <1>2, <1>5, <2>1, <2>2, CloseStep
<1> QED BY <1>6, <1>7, <1>8

LEMMA ClaimStep ==
  ASSUME IInv, SInv, GInv, NEW g \in GiftIds, NEW recipient \in Users,
         claim(g, recipient)
  PROVE  (IInv /\ SInv /\ GInv)'
<1>1. PICK gift \in Gift : gift = gifts[g]
  BY GiftFacts DEF claim, IsCreated, GInv
<1>2. PICK sender \in Users, t \in Tokens, a \in Nat :
        sender = gift.sender /\ t = gift.token /\ a = gift.amount
  BY DEF Gift
<1>3. CollectFrom(Escrow, recipient, a, t, a)
  BY <1>1, <1>2 DEF claim
<1>4. PICK back \in Int : back = Received(t, Dust(t, a))
  BY Scaling, ReceivedInt
<1>5. erc' = [erc EXCEPT ![Escrow][t] = @ - a, ![sender][t] = @ + back]
  BY <1>1, <1>2, <1>4 DEF claim, Settle
<1>6. /\ erc' \in [Holders -> [Tokens -> Int]]
      /\ \A s \in Tokens :
           erc'[Escrow][s] = IF s = t THEN erc[Escrow][s] - a ELSE erc[Escrow][s]
  <2>1. PICK e \in [Holders -> [Tokens -> Int]] : e = erc
    BY DEF IInv, TypeOK
  <2>2. PICK new : new = erc'
    OBVIOUS
  <2>3. new = Paying(e, sender, t, a, back)
    BY <1>5, <2>1, <2>2 DEF Paying
  <2>4. /\ new \in [Holders -> [Tokens -> Int]]
        /\ \A s \in Tokens :
             new[Escrow][s] = IF s = t THEN e[Escrow][s] - a ELSE e[Escrow][s]
    BY <2>3, PaidOut
  <2> QED BY <2>1, <2>2, <2>4
<1>7. Escrow \in Holders
  BY EscrowAssumption DEF Holders
<1>8. IInv'
  BY <1>3, <1>6, <1>7, CollectStep
<1>9. SInv'
  BY <1>3, <1>7, <1>8, CollectSolvent
<1>10. \A s \in Tokens : tokenIds[s] # 0 => tokenIds'[s] # 0
  <2>1. AddToken(t)
    BY <1>3 DEF CollectFrom, ConvertFrom
  <2>2. /\ tokenIds'[t] # 0
        /\ \A s \in Tokens : s # t => tokenIds'[s] = tokenIds[s]
    BY <1>8, <2>1, AddTokenKeeps DEF SInv
  <2> QED BY <2>2
<1>11. GInv'
  BY <1>1, <1>2, <1>6, <1>10, CloseStep DEF claim
<1> QED BY <1>8, <1>9, <1>11

LEMMA OthersAreNext == OthersDeposit => MakeDeposit
<1> SUFFICES ASSUME OthersDeposit PROVE MakeDeposit
  OBVIOUS
<1>1. PICK u \in Users, amount \in Amounts, t \in Tokens :
        \/ Deposit(u, amount, t)
        \/ \E d \in Depositors \ {Escrow}, drift \in PctDrift :
             DepositFor(d, u, amount, t, drift)
  BY DEF OthersDeposit
<1>2. \/ Deposit(u, amount, t)
      \/ \E d \in Depositors, drift \in PctDrift : DepositFor(d, u, amount, t, drift)
  BY <1>1
<1> QED BY <1>2 DEF MakeDeposit

(* Nobody else moves the ERC20s of the escrow.                             *)
LEMMA OthersKeepEscrow ==
  ASSUME IInv, Administer \/ OthersDeposit \/ BuildProof \/ SubmitProof
  PROVE  erc'[Escrow] = erc[Escrow]
<1>1. /\ erc \in [Holders -> [Tokens -> Int]] /\ Escrow \in Holders
      /\ \A u \in Users : u \in Holders /\ u # Escrow
  BY EscrowAssumption DEF IInv, TypeOK, Holders
<1>2. CASE Administer
  BY <1>2 DEF Administer, Register, SetAuditorPublicKey, SetTokenBlacklist,
              SetAuthorizedDepositor, cash
<1>3. CASE OthersDeposit
  <2>1. PICK u \in Users, amount \in Amounts, t \in Tokens :
          \/ Deposit(u, amount, t)
          \/ \E d \in Depositors \ {Escrow}, drift \in PctDrift :
               DepositFor(d, u, amount, t, drift)
    BY <1>3 DEF OthersDeposit
  <2>2. PICK payer \in Holders : /\ payer # Escrow
                                 /\ erc' = [erc EXCEPT ![payer][t] = @ - amount + Dust(t, amount)]
    BY <1>1, <2>1 DEF Deposit, DepositFor, ExecuteDepositFrom, Holders
  <2> QED BY <1>1, <2>2
<1>4. CASE BuildProof
  BY <1>4 DEF BuildProof, BuildMint, BuildSpend, StoreProof, cash
<1>5. CASE SubmitProof
  <2>1. PICK p \in ProofIds : Transfer(p) \/ Withdraw(p) \/ PrivateBurn(p) \/ PrivateMint(p)
    BY <1>5 DEF SubmitProof
  <2>2. CASE Withdraw(p)
    <3>1. proofs[p].from \in Users
      BY <2>2, StatementOfProof DEF Withdraw, Submittable
    <3>2. PICK payee, t, a :
            payee \in Holders /\ payee # Escrow /\ erc' = [erc EXCEPT ![payee][t] = a]
      BY <1>1, <2>2, <3>1 DEF Withdraw
    <3> QED BY <1>1, <3>2
  <2>3. CASE Transfer(p) \/ PrivateBurn(p) \/ PrivateMint(p)
    BY <2>3 DEF Transfer, PrivateBurn, PrivateMint, cash
  <2> QED BY <2>1, <2>2, <2>3
<1> QED BY <1>2, <1>3, <1>4, <1>5

(* A token that has its id keeps it.                                       *)
LEMMA OthersKeepIds ==
  ASSUME IInv, IInv', SInv, Administer \/ OthersDeposit \/ BuildProof \/ SubmitProof
  PROVE  \A s \in Tokens : tokenIds[s] # 0 => tokenIds'[s] # 0
<1>1. CASE Administer
  BY <1>1 DEF Administer, Register, SetAuditorPublicKey, SetTokenBlacklist,
              SetAuthorizedDepositor, tracker
<1>2. CASE OthersDeposit
  <2>1. PICK u \in Users, amount \in Amounts, t \in Tokens :
          \/ Deposit(u, amount, t)
          \/ \E d \in Depositors \ {Escrow}, drift \in PctDrift :
               DepositFor(d, u, amount, t, drift)
    BY <1>2 DEF OthersDeposit
  <2>2. AddToken(t)
    BY <2>1 DEF Deposit, DepositFor, ExecuteDepositFrom, CollectFrom, ConvertFrom
  <2>3. tokenIds'[t] # 0 /\ \A s \in Tokens : s # t => tokenIds'[s] = tokenIds[s]
    BY <2>2, AddTokenKeeps DEF SInv
  <2> QED BY <2>3
<1>3. CASE BuildProof
  BY <1>3 DEF BuildProof, BuildMint, BuildSpend, StoreProof, tracker
<1>4. CASE SubmitProof
  BY <1>4 DEF SubmitProof, Transfer, PrivateBurn, PrivateMint, Withdraw, Execute, tracker
<1> QED BY <1>1, <1>2, <1>3, <1>4

LEMMA OthersStep ==
  ASSUME IInv, SInv, GInv, UNCHANGED giftVars,
         Administer \/ OthersDeposit \/ BuildProof \/ SubmitProof
  PROVE  (IInv /\ SInv /\ GInv)'
<1>1. Next
  BY OthersAreNext DEF Next
<1>2. IInv' /\ SInv'
  BY <1>1, StepGood, StepSolvent
<1>3. UNCHANGED <<gifts, nextGiftId, now>>
  BY DEF giftVars
<1>4. GiftsTypeOK'
  BY <1>3 DEF GInv, GiftsTypeOK
<1>5. EscrowHolds'
  BY <1>3, OthersKeepEscrow DEF GInv, EscrowHolds
<1>6. TokensKnown'
  <2> SUFFICES ASSUME NEW g \in GiftIds, gifts[g] # NoGift
               PROVE  tokenIds'[gifts[g].token] # 0
    BY <1>3 DEF TokensKnown
  <2>1. gifts[g].token \in Tokens /\ tokenIds[gifts[g].token] # 0
    BY GiftFacts DEF GInv, TokensKnown
  <2> QED BY <1>2, <2>1, OthersKeepIds
<1> QED BY <1>2, <1>4, <1>5, <1>6 DEF GInv

LEMMA StutterStep ==
  ASSUME IInv, SInv, GInv, TimePasses \/ UNCHANGED allVars
  PROVE  (IInv /\ SInv /\ GInv)'
<1>1. UNCHANGED <<vars, gifts, nextGiftId>> /\ now' \in 0 .. MaxTime
  BY EscrowAssumption DEF TimePasses, allVars, giftVars, GInv, GiftsTypeOK
<1>2. IInv' /\ SInv'
  BY <1>1, StepGood, StepSolvent
<1>3. UNCHANGED <<erc, tokenIds>>
  BY <1>1 DEF vars, tracker, cash
<1>4. GInv'
  BY <1>1, <1>3 DEF GInv, GiftsTypeOK, EscrowHolds, TokensKnown
<1> QED BY <1>2, <1>4

LEMMA GiftsStep == (IInv /\ SInv /\ GInv) /\ [GiftsNext]_allVars => (IInv /\ SInv /\ GInv)'
<1> SUFFICES ASSUME IInv, SInv, GInv, [GiftsNext]_allVars
             PROVE  (IInv /\ SInv /\ GInv)'
  OBVIOUS
<1>1. CASE (Administer \/ OthersDeposit \/ BuildProof \/ SubmitProof) /\ UNCHANGED giftVars
  BY <1>1, OthersStep
<1>2. CASE \E sender \in Users, t \in Tokens, amount \in Amounts, expiry \in 1 .. MaxTime :
             createGift(sender, t, amount, expiry)
  BY <1>2, CreateStep
<1>3. ASSUME NEW g \in GiftIds, refund(g) \/ \E recipient \in Users : claim(g, recipient)
      PROVE  (IInv /\ SInv /\ GInv)'
  BY <1>3, RefundStep, ClaimStep
<1>4. CASE TimePasses \/ UNCHANGED allVars
  BY <1>4, StutterStep
<1> QED BY <1>1, <1>2, <1>3, <1>4 DEF GiftsNext

LEMMA GiftsInitial == GiftsInit => IInv /\ SInv /\ GInv
<1> SUFFICES ASSUME GiftsInit PROVE IInv /\ SInv /\ GInv
  OBVIOUS
<1>1. IInv /\ SInv
  BY InitGood, InitSolvent DEF GiftsInit
<1>2. \A g \in GiftIds : gifts[g] = NoGift /\ g \in Nat \ {0}
  BY EscrowAssumption DEF GiftsInit
<1>3. GiftsTypeOK
  BY <1>2, EscrowAssumption DEF GiftsInit, GiftsTypeOK
<1>4. EscrowHolds
  <2> SUFFICES ASSUME NEW s \in Tokens
               PROVE  erc[Escrow][s] = InitialErc + OpenSum(gifts, s)
    BY DEF EscrowHolds
  <2>1. OpenSum(gifts, s) = 0
    <3>1. OpenIn(gifts, s) = {}
      BY <1>2 DEF OpenIn
    <3> QED BY <3>1, SumEmpty DEF OpenSum
  <2>2. erc[Escrow][s] = InitialErc
    BY EscrowAssumption DEF GiftsInit, Init, Holders
  <2> QED BY <2>1, <2>2, DataAssumption
<1>5. TokensKnown
  BY <1>2 DEF TokensKnown
<1> QED BY <1>1, <1>3, <1>4, <1>5 DEF GInv

(* The invariants of the token, of its reserves and of the gifts.          *)
THEOREM GiftsInvariance == GiftsSpec => [](IInv /\ SInv /\ GInv)
BY GiftsInitial, GiftsStep, PTL DEF GiftsSpec

(* The types of the composition.                                           *)
THEOREM GiftTypes == GiftsSpec => []GiftsTypeOK
<1>1. IInv /\ SInv /\ GInv => GiftsTypeOK
  BY DEF GInv
<1> QED BY <1>1, GiftsInvariance, PTL

(* Claims credit the EncryptedERC no more than the gifts paid into it.     *)
THEOREM SolventWithGifts == GiftsSpec => []Solvent
<1>1. IInv /\ SInv /\ GInv => Solvent
  BY BackedIsSolvent
<1> QED BY <1>1, GiftsInvariance, PTL

-------------------------------------------------------------------------------
(* The sums of the properties are those of the invariant.                  *)

LEMMA SumOfOpen ==
  ASSUME GiftsTypeOK, NEW t,
         NEW open, open = {g \in GiftIds : IsCreated(g) /\ gifts[g].token = t}
  PROVE  MapThenSumSet(LAMBDA g : gifts[g].amount, open) = OpenSum(gifts, t)
<1>1. open = OpenIn(gifts, t) /\ open \subseteq GiftIds
  BY DEF OpenIn, IsCreated
<1>2. IsFiniteSet(open)
  BY <1>1, OpenFinite
<1> DEFINE f == AmountsIn(gifts)
           R(h) == h = [s \in SUBSET open |->
                     IF s = {} THEN 0 ELSE gifts[Pick(s)].amount + h[s \ {Pick(s)}]]
           h0 == CHOOSE h : R(h)
<1>3. \A h : R(h) <=> IsSum(h, f, open)
  <2>1. \A s \in SUBSET open : s # {} => f[Pick(s)] = gifts[Pick(s)].amount
    BY <1>1, PickIn DEF AmountsIn
  <2> QED BY <2>1 DEF IsSum
<1>4. PICK h1 : IsSum(h1, f, open) /\ SumFunctionOnSet(f, open) = h1[open]
  BY <1>2, SumIsSum
<1>5. R(h0)
  BY <1>3, <1>4
<1>6. MapThenSumSet(LAMBDA g : gifts[g].amount, open) = h0[open]
  BY DEF MapThenSumSet, MapThenFoldSet, Pick
<1>7. IsSum(h0, f, open)
  BY <1>3, <1>5
<1>8. OpenSum(gifts, t) = SumFunctionOnSet(f, open)
  BY <1>1 DEF OpenSum
<1> HIDE DEF h0, f
<1>9. h0[open] = h1[open]
  BY <1>2, <1>4, <1>7, SumUnique
<1> QED BY <1>4, <1>6, <1>8, <1>9

(* The escrow holds what its open gifts add up to, and nothing else: each  *)
(* of them can be paid, and no dust, fee, claim or refund leaves a rest.   *)
THEOREM EscrowBalances == GiftsSpec => []EscrowIsExact
<1>1. ASSUME IInv, SInv, GInv PROVE EscrowIsExact
  <2> SUFFICES ASSUME NEW t \in Tokens,
                      NEW open,
                      open = {g \in GiftIds : IsCreated(g) /\ gifts[g].token = t}
               PROVE  erc[Escrow][t] =
                        InitialErc + MapThenSumSet(LAMBDA g : gifts[g].amount, open)
    BY DEF EscrowIsExact
  <2>1. MapThenSumSet(LAMBDA g : gifts[g].amount, open) = OpenSum(gifts, t)
    BY <1>1, SumOfOpen DEF GInv
  <2>2. erc[Escrow][t] = InitialErc + OpenSum(gifts, t)
    BY <1>1 DEF GInv, EscrowHolds
  <2> QED BY <2>1, <2>2
<1>2. IInv /\ SInv /\ GInv => EscrowIsExact
  BY <1>1
<1> QED BY <1>2, GiftsInvariance, PTL

-------------------------------------------------------------------------------
(* What a claim pays.                                                      *)

(* Scaled up again, a private value is the amount without its dust.        *)
LEMMA ValueReturns ==
  ASSUME NEW t \in Tokens, NEW a \in Nat, a - Dust(t, a) # 0
  PROVE  /\ PrivateValue(t, a) > 0
         /\ PublicValue(t, PrivateValue(t, a)) = a - Dust(t, a)
<1> DEFINE d == ScaleDown[t]
           u == ScaleUp[t]
<1>1. d \in Nat \ {0} /\ u \in Nat \ {0}
  BY ScaleAssumption
<1> HIDE DEF d, u
<1>2. PICK q \in Nat : q = a \div d
  BY <1>1, Divide
<1>3. a - (a % d) = d * q
  BY <1>1, <1>2, Divide
<1>4. PrivateValue(t, a) = q * u /\ Dust(t, a) = a % d
  BY <1>2 DEF PrivateValue, Dust, d, u
<1>5. q # 0
  BY <1>1, <1>3, <1>4
<1>6. q * u > 0
  BY <1>1, <1>5
<1>7. PICK x \in Nat : x = d * q
  BY <1>1
<1>8. (q * u) * d = x * u /\ x * u \in Nat
  BY <1>1, <1>7
<1>9. (x * u) \div u = x
  <2>1. PICK y \in Nat, r \in Nat :
          y = (x * u) \div u /\ r < u /\ x * u = u * y + r
    BY <1>1, <1>8, Divide
  <2>2. CASE y < x
    <3>1. y + 1 <= x
      BY <2>2
    <3>2. u * (y + 1) <= u * x
      BY <1>1, <3>1
    <3>3. u * (y + 1) = u * y + u /\ u * x = x * u
      BY <1>1
    <3> QED BY <1>1, <1>8, <2>1, <3>2, <3>3
  <2>3. CASE y > x
    <3>1. x + 1 <= y
      BY <2>3
    <3>2. u * (x + 1) <= u * y
      BY <1>1, <3>1
    <3>3. u * (x + 1) = x * u + u
      BY <1>1
    <3> QED BY <1>1, <1>8, <2>1, <3>2, <3>3
  <2> QED BY <2>1, <2>2, <2>3
<1>10. PublicValue(t, q * u) = x
  BY <1>8, <1>9 DEF PublicValue, d, u
<1> QED BY <1>3, <1>4, <1>6, <1>7, <1>10

(* HeldBy of the token of a gift, in this state and in the next.           *)
HeldByGift(g) == HeldBy(tokenIds[gifts[g].token])

HeldIsTotal ==
  \A g \in GiftIds :
    tokenIds[gifts[g].token] \in TokenIds =>
      HeldByGift(g) = Total(HeldIn(balances), tokenIds[gifts[g].token])

LEMMA HeldByIsTotal == HeldIsTotal
<1> SUFFICES ASSUME NEW g \in GiftIds, NEW i \in TokenIds, i = tokenIds[gifts[g].token]
             PROVE  HeldBy(i) = Total(HeldIn(balances), i)
  BY DEF HeldIsTotal, HeldByGift
<1> DEFINE f == [u \in Users |-> Balance(u, i)]
           R(h) == h = [s \in SUBSET Users |->
                     IF s = {} THEN 0 ELSE Balance(Pick(s), i) + h[s \ {Pick(s)}]]
           h0 == CHOOSE h : R(h)
<1>1. \A h : R(h) <=> IsSum(h, f, Users)
  <2>1. \A s \in SUBSET Users : s # {} => f[Pick(s)] = Balance(Pick(s), i)
    BY PickIn
  <2> QED BY <2>1 DEF IsSum
<1>2. PICK h1 : IsSum(h1, f, Users) /\ SumFunctionOnSet(f, Users) = h1[Users]
  BY UserAssumption, SumIsSum
<1>3. R(h0)
  BY <1>1, <1>2
<1>4. HeldBy(i) = h0[Users]
  BY DEF HeldBy, MapThenSumSet, MapThenFoldSet, Pick
<1>5. IsSum(h0, f, Users)
  BY <1>1, <1>3
<1>6. [u \in Users |-> HeldIn(balances)[u][i]] = f
  BY DEF HeldIn, Balance
<1> HIDE DEF h0, f
<1>7. h0[Users] = h1[Users]
  BY <1>2, <1>5, UserAssumption, SumUnique
<1> QED BY <1>2, <1>4, <1>6, <1>7 DEF Total

LEMMA HeldByIsTotalNext == HeldIsTotal'
BY HeldByIsTotal, PTL

(* Only a claim of it makes a gift claimed.                                *)
LEMMA ClaimedByClaim ==
  ASSUME GiftsTypeOK, [GiftsNext]_allVars, NEW g \in GiftIds, IsCreated(g),
         gifts'[g].status = "claimed"
  PROVE  \E recipient \in Users : claim(g, recipient)
<1>1. /\ gifts \in [GiftIds -> Gift \cup {NoGift}] /\ gifts[g] \in Gift
      /\ gifts[g].status = "created" /\ gifts'[g] # gifts[g]
  BY GiftFacts DEF GiftsTypeOK, IsCreated
<1>2. ~ (UNCHANGED giftVars \/ TimePasses \/ UNCHANGED allVars)
  BY <1>1 DEF giftVars, allVars, TimePasses
<1>3. ASSUME NEW sender \in Users, NEW t \in Tokens, NEW amount \in Amounts,
             NEW expiry \in 1 .. MaxTime, createGift(sender, t, amount, expiry)
      PROVE  FALSE
  <2>1. PICK n, gift :
          n \in Nat /\ n = nextGiftId /\ gifts' = [gifts EXCEPT ![n] = gift]
    BY <1>3 DEF createGift, GiftsTypeOK
  <2>2. g < n
    BY <2>1, GiftFacts DEF IsCreated
  <2>3. g # n
    BY <2>2, EscrowAssumption
  <2>4. gifts'[g] = gifts[g]
    BY <1>1, <2>1, <2>3
  <2> QED BY <1>1, <2>4
<1>4. ASSUME NEW x \in GiftIds, refund(x)
      PROVE  FALSE
  <2>1. gifts' = [gifts EXCEPT ![x].status = "refunded"]
    BY <1>4 DEF refund
  <2>2. CASE x = g
    <3>1. PICK gift \in Gift : gift = gifts[g]
      BY <1>1
    <3>2. gifts'[g] = [gift EXCEPT !.status = "refunded"]
      BY <1>1, <2>1, <2>2, <3>1
    <3>3. gifts'[g].status = "refunded"
      BY <3>2 DEF Gift
    <3> QED BY <3>3
  <2>3. CASE x # g
    <3>1. gifts'[g] = gifts[g]
      BY <1>1, <2>1, <2>3
    <3> QED BY <1>1, <3>1
  <2> QED BY <2>2, <2>3
<1>5. PICK x \in GiftIds, recipient \in Users : claim(x, recipient)
  BY <1>2, <1>3, <1>4 DEF GiftsNext
<1>6. x = g
  <2> SUFFICES ASSUME x # g PROVE FALSE
    OBVIOUS
  <2>1. gifts' = [gifts EXCEPT ![x].status = "claimed"]
    BY <1>5 DEF claim
  <2>2. gifts'[g] = gifts[g]
    BY <1>1, <2>1
  <2> QED BY <1>1, <2>2
<1> QED BY <1>5, <1>6

LEMMA ClaimPays ==
  ASSUME IInv, SInv, GInv, IInv', NEW g \in GiftIds, NEW recipient \in Users,
         claim(g, recipient),
         NEW gift \in Gift, gift = gifts[g],
         NEW sender \in Users, sender = gift.sender,
         NEW t \in Tokens, t = gift.token,
         NEW a \in Nat \ {0}, a = gift.amount
  PROVE  \E gain \in Nat \ {0}, back \in Nat :
           /\ HeldByGift(g)' = HeldByGift(g) + gain /\ HeldByGift(g) \in Int
           /\ erc'[sender][t] = erc[sender][t] + back /\ erc[sender][t] \in Int
           /\ PublicValue(t, gain) + back = a
<1>1. CollectFrom(Escrow, recipient, a, t, a) /\ a - Dust(t, a) # 0
  BY DEF claim, Credits, Consumed
<1>2. PICK gain \in Nat \ {0} : gain = PrivateValue(t, a)
  BY <1>1, Scaling, ValueReturns
<1>3. PublicValue(t, gain) = a - Dust(t, a)
  BY <1>1, <1>2, ValueReturns
<1>4. PICK back \in Nat : back = Dust(t, a)
  <2>1. PICK d \in Nat \ {0} : d = ScaleDown[t]
    BY ScaleAssumption
  <2>2. a \in Nat
    OBVIOUS
  <2>3. a % d \in 0 .. d - 1
    BY <2>1, <2>2, Divide
  <2>4. a % d \in Nat
    BY <2>1, <2>3
  <2> QED BY <2>1, <2>4 DEF Dust
<1>5. t \notin FeeTokens
  BY <1>1 DEF CollectFrom, TransferredInFull, Received
<1>6. Received(t, back) = back
  BY <1>5 DEF Received
<1>7. erc' = [erc EXCEPT ![Escrow][t] = @ - a, ![sender][t] = @ + back]
  BY <1>4, <1>6 DEF claim, Settle
<1>8. erc'[sender][t] = erc[sender][t] + back /\ erc[sender][t] \in Int
  <2>1. PICK e \in [Holders -> [Tokens -> Int]] : e = erc
    BY DEF IInv, TypeOK
  <2>2. PICK new : new = erc'
    OBVIOUS
  <2>3. new = Paying(e, sender, t, a, back)
    BY <1>7, <2>1, <2>2 DEF Paying
  <2>4. new[sender][t] = e[sender][t] + back
    <3>1. PICK out \in Int, more \in Int : out = a /\ more = back
      OBVIOUS
    <3>2. new = Paying(e, sender, t, out, more)
      BY <2>3, <3>1
    <3>3. new[sender][t] = e[sender][t] + more
      BY <3>2, PaidOut
    <3> QED BY <3>1, <3>3
  <2>5. e[sender][t] \in Int
    BY DEF Holders
  <2> QED BY <2>1, <2>2, <2>4, <2>5
<1>9. PICK i \in TokenIds : i = tokenIds[t] /\ i # 0
  BY GiftFacts DEF claim, IsCreated, GInv, TokensKnown, IInv, TypeOK
<1>10. i = tokenIds'[t]
  <2>1. AddToken(t)
    BY <1>1 DEF CollectFrom, ConvertFrom
  <2> QED BY <1>9, <2>1 DEF AddToken, tracker
<1>11. gifts'[g].token = t
  <2>1. gifts \in [GiftIds -> Gift \cup {NoGift}]
    BY DEF GInv, GiftsTypeOK
  <2>2. gifts'[g] = [gift EXCEPT !.status = "claimed"]
    BY <2>1 DEF claim
  <2> QED BY <2>2 DEF Gift
<1>12. PICK h \in [Users -> [TokenIds -> Int]] : h = HeldIn(balances)
  BY AccountsGood, HeldInt
<1>13. HeldIn(balances)' = Adding(h, recipient, i, gain)
  BY <1>1, <1>2, <1>10, <1>12, DepositMoves
<1>14. HeldByGift(g) = Total(h, i)
  BY <1>9, <1>12, HeldByIsTotal DEF HeldIsTotal
<1>15. HeldByGift(g)' = Total(Adding(h, recipient, i, gain), i)
  BY <1>10, <1>11, <1>13, HeldByIsTotalNext DEF HeldIsTotal
<1>16. Total(Adding(h, recipient, i, gain), i) = Total(h, i) + gain /\ Total(h, i) \in Int
  BY TotalAdding, TotalInt
<1>17. PublicValue(t, gain) + back = a
  BY <1>3, <1>4
<1> QED BY <1>8, <1>14, <1>15, <1>16, <1>17

(* A claim pays the gift once, to two parties, and in full: the recipient  *)
(* in private value, which is not nothing, and the sender in dust.         *)
THEOREM ClaimsPayInFull == GiftsSpec => ClaimsPayOut
<1>1. ASSUME IInv, SInv, GInv, [GiftsNext]_allVars,
             NEW g \in GiftIds, IsCreated(g), gifts'[g].status = "claimed"
      PROVE  /\ HeldByGift(g)' - HeldByGift(g) > 0
             /\ PublicValue(gifts[g].token, HeldByGift(g)' - HeldByGift(g))
                  + (erc'[gifts[g].sender][gifts[g].token]
                       - erc[gifts[g].sender][gifts[g].token])
                  = gifts[g].amount
  <2>1. PICK recipient \in Users : claim(g, recipient)
    BY <1>1, ClaimedByClaim DEF GInv
  <2>2. IInv'
    BY <1>1, GiftsStep
  <2>3. PICK gift \in Gift : gift = gifts[g]
    BY <1>1, GiftFacts DEF IsCreated, GInv
  <2>4. PICK sender \in Users, t \in Tokens, a \in Nat \ {0} :
          sender = gift.sender /\ t = gift.token /\ a = gift.amount
    BY DEF Gift
  <2>5. \E gain \in Nat \ {0}, back \in Nat :
           /\ HeldByGift(g)' = HeldByGift(g) + gain /\ HeldByGift(g) \in Int
           /\ erc'[sender][t] = erc[sender][t] + back /\ erc[sender][t] \in Int
           /\ PublicValue(t, gain) + back = a
    BY <1>1, <2>1, <2>2, <2>3, <2>4, ClaimPays
  <2>6. PICK gain \in Nat \ {0}, back \in Nat :
           /\ HeldByGift(g)' = HeldByGift(g) + gain /\ HeldByGift(g) \in Int
           /\ erc'[sender][t] = erc[sender][t] + back /\ erc[sender][t] \in Int
           /\ PublicValue(t, gain) + back = a
    BY <2>5
  <2>7. HeldByGift(g)' - HeldByGift(g) = gain
    BY <2>6
  <2>8. erc'[sender][t] - erc[sender][t] = back
    BY <2>6
  <2> QED BY <2>3, <2>4, <2>6, <2>7, <2>8
<1>2. (IInv /\ SInv /\ GInv) /\ [GiftsNext]_allVars =>
        \A g \in GiftIds :
          LET gift == gifts[g]
              i    == tokenIds[gift.token]
              back == erc'[gift.sender][gift.token] - erc[gift.sender][gift.token]
              gain == HeldBy(i)' - HeldBy(i)
          IN  IsCreated(g) /\ gifts'[g].status = "claimed" =>
                gain > 0 /\ PublicValue(gift.token, gain) + back = gift.amount
  BY <1>1 DEF HeldByGift
<1> QED BY <1>2, GiftsInvariance, PTL DEF GiftsSpec, ClaimsPayOut

===============================================================================

---------------------------- MODULE LockupProofs -----------------------------
(***************************************************************************)
(* What the accounts of a payments contract hold is locked for the rails   *)
(* that draw on them: the lockup of an account is the sum, over its rails, *)
(* of what each has earned and is promised.  First come sums over finite   *)
(* sets, as MapThenSumSet computes them; then the operations of the        *)
(* contract, each with what it adds to one term of the sum and to the      *)
(* account; then the invariant, and the month of notice that follows.      *)
(***************************************************************************)
EXTENDS LifecycleProofs, WellFoundedInduction

----------------------------------------------------------------------------
(* Sums over finite sets.                                                  *)

Pick(T) == CHOOSE x \in T : TRUE

\* A set of subsets that has every subset whose rest, without the element that
\* is picked, it has, has them all.
LEMMA SubsetInduction ==
    ASSUME NEW S, IsFiniteSet(S), NEW H \in SUBSET SUBSET S, {} \in H,
           \A T \in SUBSET S : T # {} /\ T \ {Pick(T)} \in H => T \in H
    PROVE  H = SUBSET S
<1> DEFINE R == StrictSubsetOrdering(S)
           Rest == (SUBSET S) \ H
<1>1. IsWellFoundedOn(R, SUBSET S)
  BY FS_StrictSubsetOrderingWellFounded, FS_FiniteSubsetsOfFinite
<1>2. ASSUME Rest # {}
      PROVE  FALSE
  <2>0. Rest \subseteq SUBSET S
    OBVIOUS
  <2>1. PICK T \in Rest : \A U \in Rest : <<U, T>> \notin R
    <3> HIDE DEF R, Rest
    <3> QED BY <1>1, <1>2, <2>0, WFMin
  <2>2. T # {} /\ T \in SUBSET S
    BY <2>1
  <2>3. Pick(T) \in T
    BY <2>2 DEF Pick
  <2>4. T \ {Pick(T)} \in Rest
    BY <2>1, <2>2
  <2>5. <<T \ {Pick(T)}, T>> \in R
    BY <2>2, <2>3 DEF R, StrictSubsetOrdering
  <2> QED BY <2>1, <2>4, <2>5
<1> QED BY <1>2

\* One step of a sum.
SumStep(sum, w, T) == IF T = {} THEN 0 ELSE w[Pick(T)] + sum[T \ {Pick(T)}]

IsSum(sum, w, S) ==
    /\ sum \in [SUBSET S -> Int]
    /\ \A T \in SUBSET S : sum[T] = SumStep(sum, w, T)

LEMMA Picked ==
    ASSUME NEW S, NEW T \in SUBSET S, T # {}
    PROVE  Pick(T) \in T /\ Pick(T) \in S /\ T \ {Pick(T)} \in SUBSET S
<1>1. Pick(T) \in T
  BY DEF Pick
<1> QED BY <1>1

\* A sum over the subsets exists.
LEMMA SumExists ==
    ASSUME NEW S, IsFiniteSet(S), NEW w \in [S -> Int]
    PROVE  \E sum : IsSum(sum, w, S)
<1> DEFINE UpTo(f, n) == \A U \in SUBSET S : Cardinality(U) <= n => f[U] = SumStep(f, w, U)
           Upto == {n \in Nat : \E f \in [SUBSET S -> Int] : UpTo(f, n)}
           H == {T \in SUBSET S : Cardinality(T) \in Upto}
<1>1. \A U \in SUBSET S : /\ Cardinality(U) \in Nat
                          /\ Cardinality(U) = 0 <=> U = {}
                          /\ U # {} => Cardinality(U \ {Pick(U)}) = Cardinality(U) - 1
  <2> SUFFICES ASSUME NEW U \in SUBSET S
               PROVE  /\ Cardinality(U) \in Nat
                      /\ Cardinality(U) = 0 <=> U = {}
                      /\ U # {} => Cardinality(U \ {Pick(U)}) = Cardinality(U) - 1
    OBVIOUS
  <2>1. IsFiniteSet(U)
    BY FS_Subset
  <2>2. Cardinality(U) \in Nat /\ (Cardinality(U) = 0 <=> U = {})
    BY <2>1, FS_CardinalityType, FS_EmptySet
  <2>3. U # {} => Pick(U) \in U
    BY Picked
  <2> QED BY <2>1, <2>2, <2>3, FS_RemoveElement
<1>2. {} \in H
  <2>1. PICK f : f = [U \in SUBSET S |-> 0]
    OBVIOUS
  <2>2. {} \in SUBSET S /\ f \in [SUBSET S -> Int] /\ Cardinality({}) = 0
    BY <2>1, FS_EmptySet
  <2>3. ASSUME NEW U \in SUBSET S, Cardinality(U) <= 0
        PROVE  f[U] = SumStep(f, w, U)
    <3>0. Cardinality(U) \in Nat /\ (Cardinality(U) = 0 => U = {})
      BY <1>1
    <3>1. U = {}
      BY <2>3, <3>0
    <3> QED BY <2>1, <3>1 DEF SumStep
  <2>4. UpTo(f, 0)
    BY <2>3
  <2> HIDE DEF UpTo
  <2>5. 0 \in Upto
    BY <2>2, <2>4
  <2> HIDE DEF Upto
  <2> QED BY <2>2, <2>5
<1>3. ASSUME NEW T \in SUBSET S, T # {}, T \ {Pick(T)} \in H
      PROVE  T \in H
  <2>1. PICK n \in Nat : n = Cardinality(T \ {Pick(T)})
    BY <1>3
  <2>2. PICK f \in [SUBSET S -> Int] : UpTo(f, n)
    BY <1>3, <2>1
  <2>3. PICK g : g = [U \in SUBSET S |-> IF Cardinality(U) <= n THEN f[U] ELSE SumStep(f, w, U)]
    OBVIOUS
  <2>4. g \in [SUBSET S -> Int]
    <3>1. \A U \in SUBSET S : SumStep(f, w, U) \in Int
      BY <2>2, Picked DEF SumStep
    <3> QED BY <2>2, <2>3, <3>1
  <2>5. ASSUME NEW U \in SUBSET S, Cardinality(U) <= n + 1
        PROVE  g[U] = SumStep(g, w, U)
    <3>1. g[U] = SumStep(f, w, U)
      BY <2>2, <2>3
    <3>2. U # {} => g[U \ {Pick(U)}] = f[U \ {Pick(U)}]
      <4>1. U # {} => U \ {Pick(U)} \in SUBSET S /\ Cardinality(U \ {Pick(U)}) <= n
        BY <1>1, <2>1, <2>5, Picked
      <4> QED BY <2>3, <4>1
    <3> QED BY <3>1, <3>2 DEF SumStep
  <2>6. UpTo(g, n + 1)
    BY <2>5
  <2>7. Cardinality(T) = n + 1
    BY <1>1, <1>3, <2>1
  <2> HIDE DEF UpTo
  <2>8. n + 1 \in Upto
    BY <2>4, <2>6
  <2> HIDE DEF Upto
  <2> QED BY <2>7, <2>8
<1>4. S \in H
  <2> HIDE DEF Upto
  <2>1. H \in SUBSET SUBSET S
    OBVIOUS
  <2> HIDE DEF H
  <2> QED BY <1>2, <1>3, <2>1, SubsetInduction
<1>5. PICK f \in [SUBSET S -> Int] : UpTo(f, Cardinality(S))
  BY <1>4
<1>6. \A U \in SUBSET S : Cardinality(U) <= Cardinality(S)
  BY FS_Subset
<1> QED BY <1>5, <1>6 DEF IsSum

\* The recursion of MapThenSumSet, with w for its operator.
Recursion(w, S, i) ==
    [T \in SUBSET S |-> IF T = {} THEN 0
        ELSE w[CHOOSE x \in T : TRUE] + i[T \ {CHOOSE x \in T : TRUE}]]

\* Whatever satisfies the recursion is a sum.
LEMMA RecursionIsSum ==
    ASSUME NEW S, IsFiniteSet(S), NEW w \in [S -> Int],
           NEW iter, iter = Recursion(w, S, iter)
    PROVE  IsSum(iter, w, S)
<1>1. \A T \in SUBSET S : iter[T] = SumStep(iter, w, T)
  BY DEF Recursion, SumStep, Pick
<1> DEFINE H == {T \in SUBSET S : iter[T] \in Int}
<1>2. {} \in H
  <2>1. {} \in SUBSET S
    OBVIOUS
  <2>2. iter[{}] = 0
    BY <1>1, <2>1 DEF SumStep
  <2> QED BY <2>1, <2>2
<1>3. ASSUME NEW T \in SUBSET S, T # {}, T \ {Pick(T)} \in H
      PROVE  T \in H
  <2>1. PICK x \in S, U \in SUBSET S : x = Pick(T) /\ U = T \ {Pick(T)}
    BY <1>3, Picked
  <2>2. iter[T] = w[x] + iter[U] /\ w[x] \in Int /\ iter[U] \in Int
    BY <1>1, <1>3, <2>1 DEF SumStep
  <2> QED BY <2>2
<1>4. H \in SUBSET SUBSET S
  OBVIOUS
<1>5. H = SUBSET S
  <2> HIDE DEF H
  <2> QED BY <1>2, <1>3, <1>4, SubsetInduction
<1>6. iter = [T \in SUBSET S |-> iter[T]]
  BY DEF Recursion
<1> QED BY <1>1, <1>5, <1>6 DEF IsSum

\* The sum of w over S.
Total(w, S) == MapThenSumSet(LAMBDA x : w[x], S)

LEMMA TotalIs ==
    ASSUME NEW S, IsFiniteSet(S), NEW w \in [S -> Int]
    PROVE  \E sum : IsSum(sum, w, S) /\ Total(w, S) = sum[S]
<1> DEFINE iter == CHOOSE i : i = Recursion(w, S, i)
<1>1. Total(w, S) = iter[S]
  BY DEF Total, MapThenSumSet, MapThenFoldSet, Recursion
<1>2. PICK sum : IsSum(sum, w, S)
  BY SumExists
<1>3. sum = Recursion(w, S, sum)
  BY <1>2 DEF IsSum, SumStep, Pick, Recursion
<1>4. iter = Recursion(w, S, iter)
  BY <1>3
<1> HIDE DEF iter
<1> QED BY <1>1, <1>4, RecursionIsSum

LEMMA TotalType ==
    ASSUME NEW S, IsFiniteSet(S), NEW w \in [S -> Int]
    PROVE  Total(w, S) \in Int
<1>1. PICK sum : IsSum(sum, w, S) /\ Total(w, S) = sum[S]
  BY TotalIs
<1>2. S \in SUBSET S
  OBVIOUS
<1> QED BY <1>1, <1>2 DEF IsSum

LEMMA Distributes ==
    \A n, a, b \in Int : n * (a + b) = n * a + n * b /\ n * a \in Int
BY SMT

\* SumStep add up, term by term.
LEMMA TotalPlus ==
    ASSUME NEW S, IsFiniteSet(S), NEW n \in Int,
           NEW w \in [S -> Int], NEW v \in [S -> Int], NEW u \in [S -> Int],
           \A x \in S : u[x] = w[x] + n * v[x]
    PROVE  Total(u, S) = Total(w, S) + n * Total(v, S)
<1>1. PICK i : IsSum(i, w, S) /\ Total(w, S) = i[S]
  BY TotalIs
<1>2. PICK j : IsSum(j, v, S) /\ Total(v, S) = j[S]
  BY TotalIs
<1>3. PICK k : IsSum(k, u, S) /\ Total(u, S) = k[S]
  BY TotalIs
<1> DEFINE H == {T \in SUBSET S : k[T] = i[T] + n * j[T]}
<1>0. H \in SUBSET SUBSET S
  OBVIOUS
<1>4. {} \in H
  <2>1. {} \in SUBSET S
    OBVIOUS
  <2>2. i[{}] = 0 /\ j[{}] = 0 /\ k[{}] = 0
    BY <1>1, <1>2, <1>3, <2>1 DEF IsSum, SumStep
  <2> QED BY <2>1, <2>2
<1>5. ASSUME NEW T \in SUBSET S, T # {}, T \ {Pick(T)} \in H
      PROVE  T \in H
  <2>1. PICK x \in S, U \in SUBSET S : x = Pick(T) /\ U = T \ {Pick(T)}
    BY <1>5, Picked
  <2>2. i[T] = w[x] + i[U] /\ j[T] = v[x] + j[U] /\ k[T] = u[x] + k[U]
    BY <1>1, <1>2, <1>3, <1>5, <2>1 DEF IsSum, SumStep
  <2>3. /\ w[x] \in Int /\ v[x] \in Int /\ i[U] \in Int /\ j[U] \in Int
        /\ u[x] = w[x] + n * v[x] /\ k[U] = i[U] + n * j[U]
    BY <1>1, <1>2, <1>5, <2>1 DEF IsSum
  <2>4. n * (v[x] + j[U]) = n * v[x] + n * j[U] /\ n * v[x] \in Int /\ n * j[U] \in Int
    BY <2>3, Distributes
  <2>5. k[T] = i[T] + n * j[T]
    BY <2>2, <2>3, <2>4
  <2> QED BY <2>5
<1>6. H = SUBSET S
  <2> HIDE DEF H
  <2> QED BY <1>0, <1>4, <1>5, SubsetInduction
<1>7. S \in H
  BY <1>6
<1> QED BY <1>1, <1>2, <1>3, <1>7

\* One term changes.
LEMMA TotalChange ==
    ASSUME NEW S, IsFiniteSet(S), NEW w \in [S -> Int], NEW v \in [S -> Int],
           NEW y \in S, \A x \in S \ {y} : v[x] = w[x]
    PROVE  Total(v, S) = Total(w, S) + (v[y] - w[y])
<1>1. PICK i : IsSum(i, w, S) /\ Total(w, S) = i[S]
  BY TotalIs
<1>2. PICK j : IsSum(j, v, S) /\ Total(v, S) = j[S]
  BY TotalIs
<1> DEFINE H == {T \in SUBSET S : j[T] = i[T] + IF y \in T THEN v[y] - w[y] ELSE 0}
<1>3. {} \in H
  <2>1. {} \in SUBSET S
    OBVIOUS
  <2>2. i[{}] = 0 /\ j[{}] = 0
    BY <1>1, <1>2, <2>1 DEF IsSum, SumStep
  <2> QED BY <2>1, <2>2
<1>4. ASSUME NEW T \in SUBSET S, T # {}, T \ {Pick(T)} \in H
      PROVE  T \in H
  <2>1. PICK x \in S, U \in SUBSET S : x = Pick(T) /\ U = T \ {Pick(T)} /\ x \in T
    BY <1>4, Picked
  <2>2. i[T] = w[x] + i[U] /\ j[T] = v[x] + j[U]
    BY <1>1, <1>2, <1>4, <2>1 DEF IsSum, SumStep
  <2>3. /\ w[x] \in Int /\ v[x] \in Int /\ i[U] \in Int
        /\ w[y] \in Int /\ v[y] \in Int
        /\ j[U] = i[U] + IF y \in U THEN v[y] - w[y] ELSE 0
    BY <1>1, <1>4, <2>1 DEF IsSum
  <2>4. CASE x = y
    <3>1. y \in T /\ y \notin U
      BY <2>1, <2>4
    <3> QED BY <2>2, <2>3, <2>4, <3>1
  <2>5. CASE x # y
    <3>1. (y \in T <=> y \in U) /\ v[x] = w[x]
      BY <2>1, <2>5
    <3> QED BY <2>2, <2>3, <2>5, <3>1
  <2> QED BY <2>4, <2>5
<1>5. S \in H
  <2>1. H \in SUBSET SUBSET S
    OBVIOUS
  <2> HIDE DEF H
  <2> QED BY <1>3, <1>4, <2>1, SubsetInduction
<1> QED BY <1>1, <1>2, <1>5

\* Larger terms, larger sum.
LEMMA TotalGrows ==
    ASSUME NEW S, IsFiniteSet(S), NEW w \in [S -> Int], NEW v \in [S -> Int],
           \A x \in S : w[x] <= v[x]
    PROVE  Total(w, S) <= Total(v, S)
<1>1. PICK i : IsSum(i, w, S) /\ Total(w, S) = i[S]
  BY TotalIs
<1>2. PICK j : IsSum(j, v, S) /\ Total(v, S) = j[S]
  BY TotalIs
<1> DEFINE H == {T \in SUBSET S : i[T] <= j[T]}
<1>3. {} \in H
  <2>1. {} \in SUBSET S
    OBVIOUS
  <2>2. i[{}] = 0 /\ j[{}] = 0
    BY <1>1, <1>2, <2>1 DEF IsSum, SumStep
  <2> QED BY <2>1, <2>2
<1>4. ASSUME NEW T \in SUBSET S, T # {}, T \ {Pick(T)} \in H
      PROVE  T \in H
  <2>1. PICK x \in S, U \in SUBSET S : x = Pick(T) /\ U = T \ {Pick(T)}
    BY <1>4, Picked
  <2>2. i[T] = w[x] + i[U] /\ j[T] = v[x] + j[U]
    BY <1>1, <1>2, <1>4, <2>1 DEF IsSum, SumStep
  <2>3. /\ w[x] \in Int /\ v[x] \in Int /\ i[U] \in Int /\ j[U] \in Int
        /\ w[x] <= v[x] /\ i[U] <= j[U]
    BY <1>1, <1>2, <1>4, <2>1 DEF IsSum
  <2> QED BY <2>2, <2>3
<1>5. S \in H
  <2>1. H \in SUBSET SUBSET S
    OBVIOUS
  <2> HIDE DEF H
  <2> QED BY <1>3, <1>4, <2>1, SubsetInduction
<1> QED BY <1>1, <1>2, <1>5

\* Nothing adds up to nothing.
LEMMA TotalZero ==
    ASSUME NEW S, IsFiniteSet(S), NEW w \in [S -> Int], \A x \in S : w[x] = 0
    PROVE  Total(w, S) = 0
<1>1. \A x \in S : w[x] = w[x] + 1 * w[x]
  OBVIOUS
<1>2. Total(w, S) = Total(w, S) + 1 * Total(w, S) /\ Total(w, S) \in Int
  BY <1>1, TotalPlus, TotalType
<1>3. PICK total \in Int : total = Total(w, S)
  BY <1>2
<1>4. total = total + 1 * total
  BY <1>2, <1>3
<1>5. total = 0
  BY <1>4
<1> QED BY <1>3, <1>5

\* A sum over A whose terms are at most those of different elements of S is at
\* most the sum over S, if no term of that is negative.
LEMMA TotalImage ==
    ASSUME NEW S, IsFiniteSet(S), NEW w \in [S -> Int], \A x \in S : w[x] >= 0,
           NEW A, NEW g \in [A -> S], \A a, b \in A : g[a] = g[b] => a = b,
           NEW sum, NEW v \in [A -> Int], IsFiniteSet(A), IsSum(sum, v, A),
           \A a \in A : v[a] <= w[g[a]]
    PROVE  sum[A] <= Total(w, S)
<1> DEFINE Of(T) == [x \in S |-> IF \E a \in T : g[a] = x THEN w[x] ELSE 0]
           H == {T \in SUBSET A : sum[T] <= Total(Of(T), S)}
<1>1. \A T \in SUBSET A : Of(T) \in [S -> Int]
  OBVIOUS
<1>2. {} \in H
  <2>1. {} \in SUBSET A
    OBVIOUS
  <2>2. sum[{}] = 0
    BY <2>1 DEF IsSum, SumStep
  <2>3. \A x \in S : Of({})[x] = 0
    OBVIOUS
  <2>4. Total(Of({}), S) = 0
    <3> HIDE DEF Of
    <3> QED BY <1>1, <2>1, <2>3, TotalZero
  <2> QED BY <2>1, <2>2, <2>4
<1>3. ASSUME NEW T \in SUBSET A, T # {}, T \ {Pick(T)} \in H
      PROVE  T \in H
  <2>1. PICK a \in A, U \in SUBSET A : a = Pick(T) /\ U = T \ {Pick(T)} /\ a \in T
    BY <1>3, Picked
  <2>2. sum[T] = v[a] + sum[U]
    BY <1>3, <2>1 DEF IsSum, SumStep
  <2>3. \A x \in S \ {g[a]} : Of(T)[x] = Of(U)[x]
    BY <2>1
  <2>4. Of(T)[g[a]] = w[g[a]] /\ Of(U)[g[a]] = 0 /\ g[a] \in S
    BY <2>1
  <2>5. Total(Of(T), S) = Total(Of(U), S) + (w[g[a]] - 0)
    <3>1. PICK m \in [S -> Int], k \in [S -> Int] : m = Of(T) /\ k = Of(U)
      BY <1>1
    <3> HIDE DEF Of
    <3>2. Total(m, S) = Total(k, S) + (m[g[a]] - k[g[a]])
      BY <2>3, <2>4, <3>1, TotalChange
    <3> QED BY <2>4, <3>1, <3>2
  <2>6. /\ Total(Of(U), S) \in Int /\ w[g[a]] \in Int /\ v[a] \in Int /\ sum[U] \in Int
        /\ v[a] <= w[g[a]] /\ sum[U] <= Total(Of(U), S)
    <3>1. v[a] \in Int /\ sum[U] \in Int /\ w[g[a]] \in Int
      BY <2>1, <2>4 DEF IsSum
    <3>2. sum[U] <= Total(Of(U), S)
      BY <1>3, <2>1
    <3> HIDE DEF Of
    <3>3. Total(Of(U), S) \in Int
      BY <1>1, TotalType
    <3> QED BY <3>1, <3>2, <3>3
  <2> HIDE DEF Of
  <2>7. sum[T] <= Total(Of(T), S)
    BY <2>2, <2>5, <2>6
  <2> QED BY <2>7
<1>4. A \in H
  <2>1. H \in SUBSET SUBSET A
    OBVIOUS
  <2> HIDE DEF H
  <2> QED BY <1>2, <1>3, <2>1, SubsetInduction
<1>5. A \in SUBSET A /\ sum[A] \in Int
  BY DEF IsSum
<1>6. \A x \in S : Of(A)[x] <= w[x]
  OBVIOUS
<1>7. /\ sum[A] <= Total(Of(A), S) /\ Of(A) \in [S -> Int]
  BY <1>1, <1>4
<1> HIDE DEF Of
<1>8. Total(Of(A), S) <= Total(w, S) /\ Total(Of(A), S) \in Int /\ Total(w, S) \in Int
  BY <1>6, <1>7, TotalGrows, TotalType
<1> QED BY <1>5, <1>7, <1>8

----------------------------------------------------------------------------
(* What the rails stream and lock.                                         *)

DrawsOn(rail, k) == k = <<rail.from, rail.token>>

\* What the rail takes from the account k each epoch.
StreamOf(rail, k) ==
    IF DrawsOn(rail, k) /\ rail.endEpoch = 0 THEN rail.rate ELSE 0

\* The end of the time the rail is paid for, with an account settled up to `at'.
PaidFor(rail, at) ==
    IF rail.endEpoch # 0 THEN rail.endEpoch ELSE at + rail.lockupPeriod

\* What the rail locks in the account k.
LockOf(rail, k, at) ==
    IF DrawsOn(rail, k)
    THEN rail.lockupFixed + rail.rate * (PaidFor(rail, at) - rail.settledUpTo)
    ELSE 0

\* A rail that streams is settled no further than its account.
Reached(rail, k, at) ==
    DrawsOn(rail, k) /\ rail.endEpoch = 0 /\ rail.rate # 0 => rail.settledUpTo <= at

Streams(rails, k) == [r \in RailIds |-> StreamOf(rails[r], k)]
Locks(rails, k, at) == [r \in RailIds |-> LockOf(rails[r], k, at)]

\* The account k locks what its rails lock in it, and as much each epoch as they
\* stream.
Counts(rails, k, a) ==
    /\ a.lockupRate = Total(Streams(rails, k), RailIds)
    /\ a.lockupCurrent = Total(Locks(rails, k, a.lockupLastSettledAt), RailIds)
    /\ \A r \in RailIds : Reached(rails[r], k, a.lockupLastSettledAt)

Ledger(p) == \A k \in Clients \X Tokens : Counts(p.rails, k, p.accounts[k])

LEMMA RailFields ==
    ASSUME NEW rail \in Rail
    PROVE  /\ rail.rate \in Nat /\ rail.lockupFixed \in Nat
           /\ rail.lockupPeriod \in Nat /\ rail.settledUpTo \in Nat
           /\ rail.endEpoch \in Nat
BY DEF Rail, LiveRail, NoRail

LEMMA RailIdsFinite == IsFiniteSet(RailIds)
BY FS_Interval, MaxRailsAssumption DEF RailIds

\* What a rail streams and locks are numbers; later, it locks more by what it
\* streams meanwhile.
LEMMA RailWeights ==
    ASSUME NEW rail \in Rail, NEW k, NEW at \in Int, NEW m \in Int
    PROVE  /\ StreamOf(rail, k) \in Int
           /\ LockOf(rail, k, at) \in Int
           /\ LockOf(rail, k, at + m) = LockOf(rail, k, at) + m * StreamOf(rail, k)
<1> DEFINE x == PaidFor(rail, at) - rail.settledUpTo
           y == PaidFor(rail, at + m) - rail.settledUpTo
<1>1. /\ rail.rate \in Int /\ rail.lockupFixed \in Int /\ rail.lockupPeriod \in Int
      /\ rail.settledUpTo \in Int /\ rail.endEpoch \in Int
  BY RailFields
<1>2. x \in Int
  BY <1>1 DEF PaidFor
<1>3. y = x + IF rail.endEpoch = 0 THEN m ELSE 0
  BY <1>1 DEF PaidFor
<1>4. StreamOf(rail, k) \in Int
  BY <1>1 DEF StreamOf
<1>5. /\ LockOf(rail, k, at) = IF DrawsOn(rail, k) THEN rail.lockupFixed + rail.rate * x ELSE 0
      /\ LockOf(rail, k, at + m) =
             IF DrawsOn(rail, k) THEN rail.lockupFixed + rail.rate * y ELSE 0
  BY DEF LockOf
<1> HIDE DEF x, y
<1>6. rail.rate * x \in Int /\ rail.rate * m \in Int
  BY <1>1, <1>2, Distributes
<1>7. CASE rail.endEpoch = 0
  <2>1. rail.rate * y = rail.rate * x + rail.rate * m
    BY <1>1, <1>2, <1>3, <1>7, Distributes
  <2>2. m * StreamOf(rail, k) = IF DrawsOn(rail, k) THEN rail.rate * m ELSE 0
    BY <1>1, <1>7 DEF StreamOf
  <2> QED BY <1>4, <1>5, <1>6, <2>1, <2>2, <1>1
<1>8. CASE rail.endEpoch # 0
  <2>1. y = x /\ m * StreamOf(rail, k) = 0
    BY <1>2, <1>3, <1>8 DEF StreamOf
  <2> QED BY <1>4, <1>5, <1>6, <2>1, <1>1
<1> QED BY <1>1, <1>7, <1>8

\* The terms of the sums.
LEMMA Weights ==
    ASSUME NEW rails \in [RailIds -> Rail], NEW k, NEW at \in Int
    PROVE  /\ Streams(rails, k) \in [RailIds -> Int]
           /\ Locks(rails, k, at) \in [RailIds -> Int]
           /\ \A r \in RailIds : /\ Streams(rails, k)[r] = StreamOf(rails[r], k)
                                 /\ Locks(rails, k, at)[r] = LockOf(rails[r], k, at)
<1>1. \A r \in RailIds : StreamOf(rails[r], k) \in Int /\ LockOf(rails[r], k, at) \in Int
  BY RailWeights
<1> QED BY <1>1 DEF Streams, Locks

\* An account that is settled locks what its rails lock, as before.
LEMMA SettledCounts ==
    ASSUME NEW now \in Nat, NEW a, AccountSound(a, now),
           NEW rails \in [RailIds -> Rail], NEW k, Counts(rails, k, a)
    PROVE  Counts(rails, k, SettledAccount(a, now))
<1>1. PICK b : b = SettledAccount(a, now)
  OBVIOUS
<1>2. /\ a.lockupRate \in Nat /\ a.lockupCurrent \in Nat
      /\ a.lockupLastSettledAt \in Nat /\ a \in Account
      /\ a.funds \in Nat /\ a.lockupCurrent <= a.funds /\ a.lockupLastSettledAt <= now
  BY DEF AccountSound, Account
<1>3. \E m \in Nat : /\ b.lockupRate = a.lockupRate
                     /\ b.lockupLastSettledAt = a.lockupLastSettledAt + m
                     /\ b.lockupCurrent = a.lockupCurrent + m * a.lockupRate
  <2>1. CASE a.lockupRate = 0
             \/ a.funds >= a.lockupCurrent + a.lockupRate * (now - a.lockupLastSettledAt)
    <3>1. PICK m \in Nat : m = now - a.lockupLastSettledAt
      BY <1>2
    <3>2. /\ b.lockupRate = a.lockupRate
          /\ b.lockupLastSettledAt = now
          /\ b.lockupCurrent = a.lockupCurrent + a.lockupRate * m
      BY <1>1, <1>2, <2>1, <3>1 DEF SettledAccount, Account
    <3>3. now = a.lockupLastSettledAt + m /\ a.lockupRate * m = m * a.lockupRate
      BY <1>2, <3>1
    <3> QED BY <3>2, <3>3
  <2>2. CASE ~(a.lockupRate = 0
          \/ a.funds >= a.lockupCurrent + a.lockupRate * (now - a.lockupLastSettledAt))
    <3>1. PICK m \in Nat : m = (a.funds - a.lockupCurrent) \div a.lockupRate
      BY <1>2, <2>2, Quotients
    <3>2. /\ b.lockupRate = a.lockupRate
          /\ b.lockupLastSettledAt = a.lockupLastSettledAt + m
          /\ b.lockupCurrent = a.lockupCurrent + a.lockupRate * m
      BY <1>1, <1>2, <2>2, <3>1 DEF SettledAccount, Account
    <3>3. a.lockupRate * m = m * a.lockupRate
      BY <1>2
    <3> QED BY <3>2, <3>3
  <2> QED BY <2>1, <2>2
<1>4. PICK m \in Nat : /\ b.lockupRate = a.lockupRate
                       /\ b.lockupLastSettledAt = a.lockupLastSettledAt + m
                       /\ b.lockupCurrent = a.lockupCurrent + m * a.lockupRate
  BY <1>3
<1>5. PICK at \in Int : at = a.lockupLastSettledAt
  BY <1>2
<1>6. PICK w \in [RailIds -> Int], v \in [RailIds -> Int], u \in [RailIds -> Int] :
          /\ w = Locks(rails, k, at) /\ v = Streams(rails, k)
          /\ u = Locks(rails, k, at + m)
  BY Weights
<1>7. \A r \in RailIds : u[r] = w[r] + m * v[r]
  BY <1>6, Weights, RailWeights
<1>8. Total(u, RailIds) = Total(w, RailIds) + m * Total(v, RailIds)
  BY <1>7, RailIdsFinite, TotalPlus
<1>9. /\ b.lockupRate = Total(v, RailIds)
      /\ b.lockupCurrent = Total(u, RailIds)
  BY <1>4, <1>5, <1>6, <1>8 DEF Counts
<1>10. \A r \in RailIds : Reached(rails[r], k, at + m)
  <2>1. \A r \in RailIds : rails[r].settledUpTo \in Nat
    BY RailFields
  <2> QED BY <1>5, <2>1 DEF Counts, Reached
<1> QED BY <1>1, <1>4, <1>5, <1>6, <1>9, <1>10 DEF Counts

\* What becomes of the account of a rail when the rail changes: it locks and
\* streams more by what the rail does.
Balanced(a, b, old, new, k) ==
    LET at == a.lockupLastSettledAt
    IN  /\ b.lockupLastSettledAt = at
        /\ b.lockupRate = a.lockupRate + (StreamOf(new, k) - StreamOf(old, k))
        /\ b.lockupCurrent = a.lockupCurrent + (LockOf(new, k, at) - LockOf(old, k, at))
        /\ Reached(new, k, at)

LEMMA OneRailCounts ==
    ASSUME NEW rails \in [RailIds -> Rail], NEW rails2 \in [RailIds -> Rail],
           NEW id \in RailIds, \A r \in RailIds \ {id} : rails2[r] = rails[r],
           NEW k, NEW a, a.lockupLastSettledAt \in Nat, NEW b,
           Counts(rails, k, a), Balanced(a, b, rails[id], rails2[id], k)
    PROVE  Counts(rails2, k, b)
<1>1. PICK at \in Nat : at = a.lockupLastSettledAt /\ at = b.lockupLastSettledAt
  BY DEF Balanced
<1>2. PICK w \in [RailIds -> Int], v \in [RailIds -> Int] :
          w = Locks(rails, k, at) /\ v = Locks(rails2, k, at)
  BY Weights
<1>3. PICK x \in [RailIds -> Int], y \in [RailIds -> Int] :
          x = Streams(rails, k) /\ y = Streams(rails2, k)
  BY Weights
<1>4. \A r \in RailIds \ {id} : v[r] = w[r] /\ y[r] = x[r]
  BY <1>2, <1>3, Weights
<1>5. /\ v[id] = LockOf(rails2[id], k, at) /\ w[id] = LockOf(rails[id], k, at)
      /\ y[id] = StreamOf(rails2[id], k) /\ x[id] = StreamOf(rails[id], k)
  BY <1>2, <1>3, Weights
<1>6. Total(v, RailIds) = Total(w, RailIds) + (v[id] - w[id])
  BY <1>4, RailIdsFinite, TotalChange
<1>7. Total(y, RailIds) = Total(x, RailIds) + (y[id] - x[id])
  BY <1>4, RailIdsFinite, TotalChange
<1>8. b.lockupRate = Total(y, RailIds)
  BY <1>3, <1>5, <1>7 DEF Counts, Balanced
<1>9. b.lockupCurrent = Total(v, RailIds)
  BY <1>1, <1>2, <1>5, <1>6 DEF Counts, Balanced
<1>10. \A r \in RailIds : Reached(rails2[r], k, at)
  BY <1>1 DEF Counts, Balanced
<1> QED BY <1>1, <1>2, <1>3, <1>8, <1>9, <1>10 DEF Counts

\* An operation on one rail and its account.
LEMMA RailLedger ==
    ASSUME NEW p, Ledger(p), p.rails \in [RailIds -> Rail],
           p.accounts \in [Clients \X Tokens -> Account],
           NEW q, q.rails \in [RailIds -> Rail],
           NEW id \in RailIds, \A r \in RailIds \ {id} : q.rails[r] = p.rails[r],
           NEW key \in Clients \X Tokens,
           \A k \in (Clients \X Tokens) \ {key} :
               /\ q.accounts[k] = p.accounts[k]
               /\ ~DrawsOn(p.rails[id], k) /\ ~DrawsOn(q.rails[id], k),
           NEW a, a.lockupLastSettledAt \in Nat, Counts(p.rails, key, a),
           Balanced(a, q.accounts[key], p.rails[id], q.rails[id], key)
    PROVE  Ledger(q)
<1>1. Counts(q.rails, key, q.accounts[key])
  BY OneRailCounts
<1>2. ASSUME NEW k \in (Clients \X Tokens) \ {key}
      PROVE  Counts(q.rails, k, q.accounts[k])
  <2>1. PICK b \in Account : b = p.accounts[k] /\ b = q.accounts[k]
    OBVIOUS
  <2>2. b.lockupLastSettledAt \in Nat /\ b.lockupRate \in Nat /\ b.lockupCurrent \in Nat
    BY <2>1 DEF Account
  <2>3. /\ StreamOf(p.rails[id], k) = 0 /\ StreamOf(q.rails[id], k) = 0
        /\ \A at : LockOf(p.rails[id], k, at) = 0 /\ LockOf(q.rails[id], k, at) = 0
        /\ \A at : Reached(q.rails[id], k, at)
    BY DEF StreamOf, LockOf, Reached
  <2>4. Balanced(b, b, p.rails[id], q.rails[id], k)
    BY <2>2, <2>3 DEF Balanced
  <2>5. Counts(p.rails, k, b)
    BY <2>1 DEF Ledger
  <2> QED BY <2>1, <2>2, <2>4, <2>5, OneRailCounts
<1> QED BY <1>1, <1>2 DEF Ledger

----------------------------------------------------------------------------
(* The operations of the payments contract.                                *)

LEMMA OneDraw ==
    ASSUME NEW rail \in Rail, NEW k \in Clients \X Tokens, DrawsOn(rail, k)
    PROVE  rail.from # ZERO /\ rail \in LiveRail
BY ZeroAssumption DEF DrawsOn, Rail, LiveRail, NoRail

\* An operation on the rail id, whose account `key' it settles.
LEMMA UpdatedLedger ==
    ASSUME NEW now \in Nat, NEW p, PaySound(p, now), Ledger(p),
           NEW q, PaySound(q, now),
           NEW id \in RailIds, NEW r, NEW key \in Clients \X Tokens, NEW b, NEW v,
           Updated(p, q, id, r, key, b, v),
           \A k \in Clients \X Tokens : DrawsOn(p.rails[id], k) \/ DrawsOn(r, k) => k = key,
           Balanced(SettledAccount(p.accounts[key], now), b, p.rails[id], r, key)
    PROVE  Ledger(q)
<1>1. /\ p.rails \in [RailIds -> Rail] /\ q.rails \in [RailIds -> Rail]
      /\ p.accounts \in [Clients \X Tokens -> Account]
      /\ AccountSound(p.accounts[key], now)
  BY PayParts
<1>2. PICK a : a = SettledAccount(p.accounts[key], now)
  OBVIOUS
<1>3. a.lockupLastSettledAt \in Nat
  BY <1>1, <1>2, SettledAccountForward
<1>4. Counts(p.rails, key, a)
  BY <1>1, <1>2, SettledCounts DEF Ledger
<1>5. /\ q.rails[id] = r /\ \A i \in RailIds \ {id} : q.rails[i] = p.rails[i]
      /\ q.accounts[key] = b
      /\ \A k \in (Clients \X Tokens) \ {key} : q.accounts[k] = p.accounts[k]
  BY <1>1 DEF Updated
<1>6. \A k \in (Clients \X Tokens) \ {key} :
          ~DrawsOn(p.rails[id], k) /\ ~DrawsOn(q.rails[id], k)
  BY <1>5
<1>7. Balanced(a, q.accounts[key], p.rails[id], q.rails[id], key)
  BY <1>2, <1>5
<1> QED BY <1>1, <1>3, <1>4, <1>5, <1>6, <1>7, RailLedger

\* The account of a rail that is there, settled, draws no one else and is settled
\* as far as the rail.
Draws(id, rail, key, a, now) ==
    /\ id \in RailIds /\ rail \in LiveRail
    /\ key \in Clients \X Tokens
    /\ \A k : DrawsOn(rail, k) <=> k = key
    /\ a \in Account
    /\ a.lockupLastSettledAt \in Nat /\ a.lockupLastSettledAt <= now
    /\ Reached(rail, key, a.lockupLastSettledAt)

LEMMA SettledAccounts ==
    ASSUME NEW now \in Nat, NEW p, PaySound(p, now), Ledger(p),
           NEW id, RailExists(p, id)
    PROVE  Draws(id, p.rails[id], Key(p, id),
                 SettledAccount(p.accounts[Key(p, id)], now), now)
<1>1. PICK rail, key : rail = p.rails[id] /\ key = Key(p, id)
  OBVIOUS
<1>2. PICK a : a = SettledAccount(p.accounts[key], now)
  OBVIOUS
<1>3. /\ id \in RailIds /\ rail \in LiveRail /\ key \in Clients \X Tokens
      /\ AccountSound(p.accounts[key], now)
  BY <1>1, LiveRails
<1>4. \A k : DrawsOn(rail, k) <=> k = key
  BY <1>1 DEF DrawsOn, Key
<1>5. AccountSound(a, now)
  BY <1>2, <1>3, SettledAccountSound
<1>6. /\ a \in Account /\ a.lockupLastSettledAt \in Nat /\ a.lockupLastSettledAt <= now
  BY <1>5 DEF AccountSound, Account
<1>7. Counts(p.rails, key, a)
  BY <1>2, <1>3, PayParts, SettledCounts DEF Ledger
<1>8. Reached(rail, key, a.lockupLastSettledAt)
  BY <1>1, <1>3, <1>7 DEF Counts
<1> QED BY <1>1, <1>2, <1>3, <1>4, <1>6, <1>8 DEF Draws

\* A client's moves of funds leave what is locked.
LEMMA AccountLedger ==
    ASSUME NEW now \in Nat, NEW p, PaySound(p, now), Ledger(p),
           NEW key \in Clients \X Tokens, NEW a, AccountSound(a, now),
           Counts(p.rails, key, a),
           NEW b, b.lockupRate = a.lockupRate, b.lockupCurrent = a.lockupCurrent,
           b.lockupLastSettledAt = a.lockupLastSettledAt,
           NEW q, q = [p EXCEPT !.accounts[key] = b]
    PROVE  Ledger(q)
<1>1. p \in PayState /\ p.accounts \in [Clients \X Tokens -> Account]
  BY PayParts DEF PaySound
<1>2. q.rails = p.rails /\ q.accounts = [p.accounts EXCEPT ![key] = b]
  BY <1>1 DEF PayState
<1>3. Counts(p.rails, key, b)
  BY DEF Counts
<1> QED BY <1>1, <1>2, <1>3 DEF Ledger

LEMMA DepositLedger ==
    ASSUME NEW now \in Nat, NEW p, PaySound(p, now), Ledger(p),
           NEW key \in Clients \X Tokens, NEW amount \in Nat
    PROVE  Ledger(Deposit(p, key, amount, now))
<1>1. p.accounts[key] \in Account /\ AccountSound(p.accounts[key], now)
      /\ p.rails \in [RailIds -> Rail] /\ Counts(p.rails, key, p.accounts[key])
  BY PayParts DEF Ledger
<1>2. PICK a : a = [p.accounts[key] EXCEPT !.funds = @ + amount]
  OBVIOUS
<1>3. /\ a.lockupRate = p.accounts[key].lockupRate
      /\ a.lockupCurrent = p.accounts[key].lockupCurrent
      /\ a.lockupLastSettledAt = p.accounts[key].lockupLastSettledAt
      /\ a.funds = p.accounts[key].funds + amount /\ a \in Account
  BY <1>1, <1>2 DEF Account
<1>4. AccountSound(a, now) /\ Counts(p.rails, key, a)
  BY <1>1, <1>3 DEF AccountSound, Account, Counts
<1>5. PICK b : b = SettledAccount(a, now)
  OBVIOUS
<1>6. AccountSound(b, now) /\ Counts(p.rails, key, b)
  BY <1>1, <1>4, <1>5, SettledAccountSound, SettledCounts
<1>7. PICK q : q = Deposit(p, key, amount, now)
  OBVIOUS
<1>8. q = [p EXCEPT !.accounts[key] = b]
  BY <1>2, <1>5, <1>7 DEF Deposit
<1>9. Ledger(q)
  BY <1>6, <1>8, AccountLedger
<1> QED BY <1>7, <1>9

LEMMA WithdrawLedger ==
    ASSUME NEW now \in Nat, NEW p, PaySound(p, now), Ledger(p),
           NEW key \in Clients \X Tokens, NEW amount \in Nat
    PROVE  Ledger(Withdraw(p, key, amount, now))
<1>1. /\ AccountSound(p.accounts[key], now) /\ p.rails \in [RailIds -> Rail]
      /\ Counts(p.rails, key, p.accounts[key])
  BY PayParts DEF Ledger
<1>2. PICK a : a = SettledAccount(p.accounts[key], now)
  OBVIOUS
<1>3. AccountSound(a, now) /\ a \in Account /\ Counts(p.rails, key, a)
  BY <1>1, <1>2, SettledAccountSound, SettledCounts DEF AccountSound
<1>4. PICK b : b = [a EXCEPT !.funds = @ - amount]
  OBVIOUS
<1>5. /\ b.lockupRate = a.lockupRate /\ b.lockupCurrent = a.lockupCurrent
      /\ b.lockupLastSettledAt = a.lockupLastSettledAt
  BY <1>3, <1>4 DEF Account
<1>6. PICK q : q = Withdraw(p, key, amount, now)
  OBVIOUS
<1>7. q = [p EXCEPT !.accounts[key] = b]
  BY <1>2, <1>4, <1>6 DEF Withdraw
<1>8. Ledger(q)
  BY <1>3, <1>5, <1>7, AccountLedger
<1> QED BY <1>6, <1>8

LEMMA ApprovalLedger ==
    ASSUME NEW now, NEW p, PaySound(p, now), Ledger(p), NEW key, NEW limits
    PROVE  Ledger(SetOperatorApproval(p, key, limits))
<1>1. PICK q : q = SetOperatorApproval(p, key, limits)
  OBVIOUS
<1>2. q.rails = p.rails /\ q.accounts = p.accounts
  BY <1>1 DEF SetOperatorApproval, PaySound, PayState
<1>3. Ledger(q)
  BY <1>2 DEF Ledger
<1> QED BY <1>1, <1>3

\* A rail with another lockup locks more by the change of it.
LEMMA LockChanges ==
    ASSUME NEW old \in LiveRail, NEW period \in Nat, NEW fixed \in Nat,
           NEW new, new = Locked(old, period, fixed), NEW at \in Nat,
           old.endEpoch # 0 => period = old.lockupPeriod,
           NEW k, DrawsOn(old, k)
    PROVE  /\ StreamOf(new, k) = StreamOf(old, k)
           /\ LockOf(new, k, at) = LockOf(old, k, at)
                 + ((fixed + old.rate * period) - RailLockup(old))
<1> DEFINE x == PaidFor(old, at) - old.settledUpTo
           y == PaidFor(new, at) - new.settledUpTo
<1>1. /\ new.rate = old.rate /\ new.endEpoch = old.endEpoch
      /\ new.settledUpTo = old.settledUpTo
      /\ new.lockupPeriod = period /\ new.lockupFixed = fixed
      /\ DrawsOn(new, k)
  BY DEF Locked, LiveRail, DrawsOn
<1>2. /\ old.rate \in Int /\ old.lockupFixed \in Int /\ old.lockupPeriod \in Int
      /\ old.settledUpTo \in Int /\ old.endEpoch \in Int
  BY DEF LiveRail
<1>3. x \in Int /\ y = x + (period - old.lockupPeriod)
  BY <1>1, <1>2 DEF PaidFor
<1>4. /\ LockOf(old, k, at) = old.lockupFixed + old.rate * x
      /\ LockOf(new, k, at) = fixed + old.rate * y
  BY <1>1 DEF LockOf
<1>5. StreamOf(new, k) = StreamOf(old, k)
  BY <1>1 DEF StreamOf
<1> HIDE DEF x, y
<1>6. /\ old.rate * y = old.rate * x + old.rate * (period - old.lockupPeriod)
      /\ old.rate * x \in Int
  BY <1>2, <1>3, Distributes
<1>7. /\ old.rate * period =
             old.rate * (period - old.lockupPeriod) + old.rate * old.lockupPeriod
      /\ old.rate * (period - old.lockupPeriod) \in Int
      /\ old.rate * old.lockupPeriod \in Int
  <2>1. period - old.lockupPeriod \in Int
        /\ period = (period - old.lockupPeriod) + old.lockupPeriod
    BY <1>2
  <2> QED BY <1>2, <2>1, Distributes
<1>8. RailLockup(old) = old.lockupFixed + old.rate * old.lockupPeriod
  BY DEF RailLockup
<1>9. LockOf(new, k, at) =
          LockOf(old, k, at) + ((fixed + old.rate * period) - RailLockup(old))
  BY <1>2, <1>4, <1>6, <1>7, <1>8
<1> QED BY <1>5, <1>9

LEMMA LockupLedger ==
    ASSUME NEW now \in Nat, NEW p, PaySound(p, now), Ledger(p),
           NEW id, NEW period \in Nat, NEW fixed \in Nat,
           CanModifyRailLockup(p, id, period, fixed, now)
    PROVE  Ledger(ModifyRailLockup(p, id, period, fixed, now))
<1>1. PICK old : old = p.rails[id]
  OBVIOUS
<1>2. PICK key : key = Key(p, id)
  OBVIOUS
<1>3. PICK a : a = SettledAccount(p.accounts[key], now)
  OBVIOUS
<1>4. PICK at : at = a.lockupLastSettledAt
  OBVIOUS
<1>5. RailExists(p, id)
  BY DEF CanModifyRailLockup
<1>6. /\ id \in RailIds /\ old \in LiveRail /\ key \in Clients \X Tokens
      /\ \A k : DrawsOn(old, k) <=> k = key
      /\ a \in Account /\ at \in Nat /\ Reached(old, key, at)
  <2>1. Draws(id, old, key, a, now)
    BY <1>1, <1>2, <1>3, <1>5, SettledAccounts
  <2> QED BY <1>4, <2>1 DEF Draws
<1>7. PICK new : new = Locked(old, period, fixed)
  OBVIOUS
<1>8. PICK change : change = (fixed + old.rate * period) - RailLockup(old)
  OBVIOUS
<1>9. PICK b : b = [a EXCEPT !.lockupCurrent = @ + change]
  OBVIOUS
<1>10. PICK v : v = [p.approvals[key] EXCEPT !.lockupUsage = Usage(@, change)]
  OBVIOUS
<1>11. PICK q : q = ModifyRailLockup(p, id, period, fixed, now)
  OBVIOUS
<1>12. PaySound(q, now) /\ p \in PayState
  BY <1>11, ModifyRailLockupSound DEF PaySound
<1>13. Updated(p, q, id, new, key, b, v)
  BY <1>1, <1>2, <1>3, <1>6, <1>7, <1>8, <1>9, <1>10, <1>11, <1>12
     DEF ModifyRailLockup, PayState, Updated, Locked
<1>14. old.endEpoch # 0 => period = old.lockupPeriod
  BY <1>1 DEF CanModifyRailLockup, Terminated
<1>15. /\ StreamOf(new, key) = StreamOf(old, key)
       /\ LockOf(new, key, at) = LockOf(old, key, at) + change
  BY <1>6, <1>7, <1>8, <1>14, LockChanges
<1>16. \A k : DrawsOn(new, k) <=> k = key
  BY <1>6, <1>7 DEF DrawsOn, Locked, LiveRail
<1>17. Reached(new, key, at)
  BY <1>6, <1>7, <1>16 DEF Reached, Locked, LiveRail
<1>18. /\ b.lockupLastSettledAt = at /\ b.lockupRate = a.lockupRate
       /\ b.lockupCurrent = a.lockupCurrent + change
       /\ a.lockupRate \in Nat /\ a.lockupCurrent \in Nat
  BY <1>4, <1>6, <1>9 DEF Account
<1>19. /\ StreamOf(old, key) \in Int /\ LockOf(old, key, at) \in Int /\ change \in Int
  <2>1. old.rate * period \in Nat /\ RailLockup(old) \in Int
    BY <1>6, Products DEF LiveRail, RailLockup
  <2>2. change \in Int
    BY <1>8, <2>1
  <2> QED BY <1>6, <2>2, RailWeights DEF Rail
<1>20. Balanced(a, b, old, new, key)
  BY <1>4, <1>15, <1>17, <1>18, <1>19 DEF Balanced
<1>21. Ledger(q)
  BY <1>1, <1>3, <1>6, <1>12, <1>13, <1>16, <1>20, UpdatedLedger
<1> QED BY <1>11, <1>21

\* A rail without a rate gets one: it is settled up to now, as its account is.
LEMMA PaymentLedger ==
    ASSUME NEW now \in Nat, NEW p, PaySound(p, now), Ledger(p),
           NEW id, NEW rate \in Nat, CanModifyRailPayment(p, id, rate, now),
           p.rails[id].rate = 0
    PROVE  Ledger(ModifyRailPayment(p, id, rate, now))
<1>1. PICK old : old = p.rails[id]
  OBVIOUS
<1>2. PICK key : key = Key(p, id)
  OBVIOUS
<1>3. PICK a : a = SettledAccount(p.accounts[key], now)
  OBVIOUS
<1>4. PICK at : at = a.lockupLastSettledAt
  OBVIOUS
<1>5. RailExists(p, id)
  BY DEF CanModifyRailPayment
<1>6. /\ id \in RailIds /\ old \in LiveRail /\ key \in Clients \X Tokens
      /\ \A k : DrawsOn(old, k) <=> k = key
      /\ a \in Account /\ at \in Nat /\ Reached(old, key, at)
  <2>1. Draws(id, old, key, a, now)
    BY <1>1, <1>2, <1>3, <1>5, SettledAccounts
  <2> QED BY <1>4, <2>1 DEF Draws
<1>7. PICK new : new = [old EXCEPT !.rate = rate,
                                   !.settledUpTo = IF rate # 0 THEN now ELSE @]
  OBVIOUS
<1>8. old.rate = 0 /\ rate - old.rate = rate
  BY <1>1
<1>9. PICK b : b = [a EXCEPT !.lockupCurrent = @ + rate * old.lockupPeriod,
                             !.lockupRate = @ + rate]
  OBVIOUS
<1>10. PICK v : v = [p.approvals[key] EXCEPT !.rateUsage = Usage(@, rate),
                         !.lockupUsage = Usage(@, rate * old.lockupPeriod)]
  OBVIOUS
<1>11. PICK q : q = ModifyRailPayment(p, id, rate, now)
  OBVIOUS
<1>12. PaySound(q, now) /\ p \in PayState
  BY <1>11, ModifyRailPaymentSound DEF PaySound
<1>13. Updated(p, q, id, new, key, b, v)
  BY <1>1, <1>2, <1>3, <1>6, <1>7, <1>8, <1>9, <1>10, <1>11, <1>12
     DEF ModifyRailPayment, PayState, Updated
<1>14. rate # 0 => old.endEpoch = 0 /\ at = now
  BY <1>1, <1>2, <1>3, <1>4, <1>8 DEF CanModifyRailPayment, Terminated
<1>15. /\ \A k : DrawsOn(new, k) <=> k = key
       /\ new.rate = rate /\ new.lockupFixed = old.lockupFixed
       /\ new.lockupPeriod = old.lockupPeriod /\ new.endEpoch = old.endEpoch
       /\ new.settledUpTo = IF rate # 0 THEN now ELSE old.settledUpTo
  BY <1>6, <1>7 DEF DrawsOn, LiveRail
<1>16. /\ old.lockupFixed \in Nat /\ old.lockupPeriod \in Nat
       /\ old.settledUpTo \in Nat /\ old.endEpoch \in Nat
       /\ rate * old.lockupPeriod \in Nat
  BY <1>6, Products DEF LiveRail
<1>17. StreamOf(new, key) = rate /\ StreamOf(old, key) = 0
  BY <1>6, <1>8, <1>14, <1>15 DEF StreamOf
<1>18. LockOf(old, key, at) = old.lockupFixed
  <2>1. PaidFor(old, at) - old.settledUpTo \in Int
    BY <1>6, <1>16 DEF PaidFor
  <2>2. old.rate * (PaidFor(old, at) - old.settledUpTo) = 0
    BY <1>8, <2>1
  <2> QED BY <1>6, <1>16, <2>2 DEF LockOf
<1>19. LockOf(new, key, at) = old.lockupFixed + rate * old.lockupPeriod
  <2>1. CASE rate = 0
    <3>1. PaidFor(new, at) - new.settledUpTo \in Int
      BY <1>6, <1>15, <1>16 DEF PaidFor
    <3>2. /\ new.rate * (PaidFor(new, at) - new.settledUpTo) = 0
          /\ rate * old.lockupPeriod = 0
      BY <1>15, <1>16, <2>1, <3>1
    <3> QED BY <1>15, <3>2 DEF LockOf
  <2>2. CASE rate # 0
    <3>1. PaidFor(new, at) - new.settledUpTo = old.lockupPeriod
      BY <1>14, <1>15, <1>16, <2>2 DEF PaidFor
    <3> QED BY <1>15, <3>1 DEF LockOf
  <2> QED BY <2>1, <2>2
<1>20. Reached(new, key, at)
  BY <1>6, <1>14, <1>15 DEF Reached
<1>21. /\ b.lockupLastSettledAt = at /\ b.lockupRate = a.lockupRate + rate
       /\ b.lockupCurrent = a.lockupCurrent + rate * old.lockupPeriod
       /\ a.lockupRate \in Nat /\ a.lockupCurrent \in Nat
  BY <1>4, <1>6, <1>9 DEF Account
<1>22. Balanced(a, b, old, new, key)
  <2>1. PICK added \in Nat : added = rate * old.lockupPeriod
    BY <1>16
  <2> QED BY <1>4, <1>16, <1>17, <1>18, <1>19, <1>20, <1>21, <2>1 DEF Balanced
<1>23. Ledger(q)
  BY <1>1, <1>3, <1>6, <1>12, <1>13, <1>15, <1>22, UpdatedLedger
<1> QED BY <1>11, <1>23

\* The end of a rail with a period of notice: what is locked stays.
LEMMA TerminateLedger ==
    ASSUME NEW now \in Nat, NEW p, PaySound(p, now), Ledger(p),
           NEW id, CanTerminateRail(p, id, now),
           p.rails[id].rate # 0 => p.rails[id].lockupPeriod # 0
    PROVE  Ledger(TerminateRail(p, id, now))
<1>1. PICK old : old = p.rails[id]
  OBVIOUS
<1>2. PICK key : key = Key(p, id)
  OBVIOUS
<1>3. PICK a : a = SettledAccount(p.accounts[key], now)
  OBVIOUS
<1>4. a.lockupLastSettledAt = now
  BY <1>2, <1>3 DEF CanTerminateRail, FullySettled
<1>5. RailExists(p, id)
  BY DEF CanTerminateRail
<1>6. /\ id \in RailIds /\ old \in LiveRail /\ key \in Clients \X Tokens
      /\ \A k : DrawsOn(old, k) <=> k = key
      /\ a \in Account /\ Reached(old, key, now)
  <2>1. Draws(id, old, key, a, now)
    BY <1>1, <1>2, <1>3, <1>5, SettledAccounts
  <2> QED BY <1>4, <2>1 DEF Draws
<1>7. PICK new : new = [old EXCEPT !.endEpoch = now + old.lockupPeriod]
  OBVIOUS
<1>8. PICK b : b = [a EXCEPT !.lockupRate = @ - old.rate]
  OBVIOUS
<1>9. PICK v : v = [p.approvals[key] EXCEPT !.rateUsage = Usage(@, -old.rate)]
  OBVIOUS
<1>10. PICK q : q = TerminateRail(p, id, now)
  OBVIOUS
<1>11. PaySound(q, now) /\ p \in PayState
  BY <1>10, TerminateRailSound DEF PaySound
<1>12. Updated(p, q, id, new, key, b, v)
  BY <1>1, <1>2, <1>3, <1>6, <1>7, <1>8, <1>9, <1>10, <1>11
     DEF TerminateRail, PayState, Updated
<1>13. /\ \A k : DrawsOn(new, k) <=> k = key
       /\ new.rate = old.rate /\ new.lockupFixed = old.lockupFixed
       /\ new.lockupPeriod = old.lockupPeriod
       /\ new.endEpoch = now + old.lockupPeriod
       /\ new.settledUpTo = old.settledUpTo
  BY <1>6, <1>7 DEF DrawsOn, LiveRail
<1>14. /\ old.rate \in Nat /\ old.lockupFixed \in Nat /\ old.lockupPeriod \in Nat
       /\ old.settledUpTo \in Nat /\ old.endEpoch = 0
       /\ old.rate # 0 => old.lockupPeriod # 0
  BY <1>1, <1>6 DEF LiveRail, CanTerminateRail, Terminated
<1>15. StreamOf(old, key) = old.rate /\ StreamOf(new, key) = 0
  <2>1. now + old.lockupPeriod = 0 => old.rate = 0
    <3>1. PICK period \in Nat : period = old.lockupPeriod
      BY <1>14
    <3>2. now + period = 0 => period = 0
      OBVIOUS
    <3> QED BY <1>14, <3>1, <3>2
  <2> QED BY <1>6, <1>13, <1>14, <2>1 DEF StreamOf
<1>16. PaidFor(new, now) = now + old.lockupPeriod /\ PaidFor(old, now) = now + old.lockupPeriod
  BY <1>13, <1>14 DEF PaidFor
<1>17. LockOf(new, key, now) = LockOf(old, key, now)
  BY <1>6, <1>13, <1>16 DEF LockOf
<1>18. Reached(new, key, now)
  BY <1>13, <1>14 DEF Reached
<1>19. /\ b.lockupLastSettledAt = now /\ b.lockupRate = a.lockupRate - old.rate
       /\ b.lockupCurrent = a.lockupCurrent
       /\ a.lockupRate \in Nat /\ a.lockupCurrent \in Nat
  BY <1>4, <1>6, <1>8 DEF Account
<1>20. LockOf(old, key, now) \in Int
  BY <1>6, RailWeights DEF Rail
<1>21. Balanced(a, b, old, new, key)
  BY <1>4, <1>14, <1>15, <1>17, <1>18, <1>19, <1>20 DEF Balanced
<1>22. Ledger(q)
  BY <1>1, <1>3, <1>6, <1>11, <1>12, <1>13, <1>21, UpdatedLedger
<1> QED BY <1>10, <1>22

\* A new rail locks nothing yet.
LEMMA CreateRailLedger ==
    ASSUME NEW now \in Nat, NEW p, PaySound(p, now), Ledger(p),
           NEW token \in Tokens, NEW from \in Clients,
           NEW to \in Payees \cup {ZERO}, NEW commission \in Nat,
           p.nextRailId \in RailIds, p.rails[p.nextRailId].from = ZERO
    PROVE  Ledger(CreateRail(p, token, from, to, commission, now))
<1>1. PICK q : q = CreateRail(p, token, from, to, commission, now)
  OBVIOUS
<1>2. PICK id \in RailIds : id = p.nextRailId
  OBVIOUS
<1>3. PICK new : new = [NoRail EXCEPT !.token = token, !.from = from, !.to = to,
                                      !.commissionRateBps = commission, !.settledUpTo = now]
  OBVIOUS
<1>4. /\ p \in PayState /\ p.rails \in [RailIds -> Rail]
      /\ p.accounts \in [Clients \X Tokens -> Account]
      /\ PaySound(q, now)
  BY <1>1, PayParts, CreateRailSound DEF PaySound
<1>5. q.rails \in [RailIds -> Rail]
  BY <1>4, PayParts
<1>6. q.rails = [p.rails EXCEPT ![id] = new] /\ q.accounts = p.accounts
  BY <1>1, <1>2, <1>3, <1>4 DEF CreateRail, PayState
<1>7. q.rails[id] = new /\ \A r \in RailIds \ {id} : q.rails[r] = p.rails[r]
  BY <1>4, <1>6
<1>8. PICK key \in Clients \X Tokens : key = <<from, token>>
  OBVIOUS
<1>9. PICK old : old = p.rails[id]
  OBVIOUS
<1>10. /\ new.rate = 0 /\ new.lockupFixed = 0 /\ new.lockupPeriod = 0
       /\ new.endEpoch = 0 /\ new.settledUpTo = now
       /\ \A k : DrawsOn(new, k) <=> k = key
  BY <1>3, <1>8 DEF NoRail, DrawsOn
<1>11. \A k \in Clients \X Tokens : ~DrawsOn(old, k)
  BY <1>2, <1>4, <1>9, OneDraw
<1>12. PICK a \in Account : a = p.accounts[key] /\ a = q.accounts[key]
  BY <1>4, <1>6
<1>13. PICK at \in Nat : at = a.lockupLastSettledAt
  BY DEF Account
<1>14. /\ StreamOf(new, key) = 0 /\ StreamOf(old, key) = 0
       /\ LockOf(old, key, at) = 0 /\ Reached(new, key, at)
  BY <1>10, <1>11 DEF StreamOf, LockOf, Reached
<1>15. LockOf(new, key, at) = 0
  <2>1. PaidFor(new, at) - now \in Int
    BY <1>10 DEF PaidFor
  <2>2. 0 * (PaidFor(new, at) - now) = 0
    BY <2>1
  <2> QED BY <1>10, <2>2 DEF LockOf
<1>16. Balanced(a, a, old, new, key)
  BY <1>13, <1>14, <1>15 DEF Balanced, Account
<1>17. /\ \A k \in (Clients \X Tokens) \ {key} :
              /\ q.accounts[k] = p.accounts[k]
              /\ ~DrawsOn(p.rails[id], k) /\ ~DrawsOn(q.rails[id], k)
       /\ Balanced(a, q.accounts[key], p.rails[id], q.rails[id], key)
       /\ a.lockupLastSettledAt \in Nat /\ Counts(p.rails, key, a)
  BY <1>6, <1>7, <1>9, <1>10, <1>11, <1>12, <1>13, <1>16 DEF Ledger
<1>18. Ledger(q)
  BY <1>4, <1>5, <1>7, <1>17, RailLedger
<1> QED BY <1>1, <1>18

\* A rail that is settled further locks less, by what the settlement releases.
LEMMA SettledLedger ==
    ASSUME NEW now \in Nat, NEW p, PaySound(p, now), Ledger(p),
           NEW id, NEW until \in Nat, NEW result,
           CanSettleRail(p, id, until, now, result)
    PROVE  Ledger(Settled(p, id, until, now, result))
<1>1. PICK old : old = p.rails[id]
  OBVIOUS
<1>2. PICK key : key = Key(p, id)
  OBVIOUS
<1>3. PICK a : a = SettledAccount(p.accounts[key], now)
  OBVIOUS
<1>4. PICK at : at = a.lockupLastSettledAt
  OBVIOUS
<1>5. RailExists(p, id)
  BY DEF CanSettleRail
<1>6. /\ id \in RailIds /\ old \in LiveRail /\ key \in Clients \X Tokens
      /\ \A k : DrawsOn(old, k) <=> k = key
      /\ a \in Account /\ at \in Nat /\ Reached(old, key, at)
  <2>1. Draws(id, old, key, a, now)
    BY <1>1, <1>2, <1>3, <1>5, SettledAccounts
  <2> QED BY <1>4, <2>1 DEF Draws
<1>7. PICK settlement : settlement = Settlement(p, id, until, now, result)
  OBVIOUS
<1>8. PICK to : to = settlement.to
  OBVIOUS
<1>9. /\ SettleTo(p, id, until, now) \in Nat
      /\ to \in Nat /\ old.settledUpTo <= to
      /\ to <= Max2(old.settledUpTo, SettleTo(p, id, until, now))
  BY <1>1, <1>7, <1>8, SettlementForward
<1>10. PICK new : new = [old EXCEPT !.settledUpTo = to]
  OBVIOUS
<1>11. PICK b : b = [a EXCEPT !.funds = @ - settlement.amount,
                              !.lockupCurrent = @ - settlement.released]
  OBVIOUS
<1>12. PICK q : q = Settled(p, id, until, now, result)
  OBVIOUS
<1>13. PaySound(q, now) /\ p \in PayState
  BY <1>7, <1>12, SettledSound DEF PaySound
<1>14. Updated(p, q, id, new, key, b, p.approvals[key])
  <2>1. q = [p EXCEPT !.rails[id].settledUpTo = to,
                      !.accounts[key] = b,
                      !.paid[id] = @ + settlement.amount]
    BY <1>2, <1>3, <1>7, <1>8, <1>11, <1>12 DEF Settled
  <2> QED BY <1>1, <1>6, <1>10, <1>13, <2>1 DEF PayState, Updated
<1>15. /\ \A k : DrawsOn(new, k) <=> k = key
       /\ new.rate = old.rate /\ new.lockupFixed = old.lockupFixed
       /\ new.lockupPeriod = old.lockupPeriod /\ new.endEpoch = old.endEpoch
       /\ new.settledUpTo = to
  BY <1>6, <1>10 DEF DrawsOn, LiveRail
<1>16. /\ old.rate \in Nat /\ old.lockupFixed \in Nat /\ old.lockupPeriod \in Nat
       /\ old.settledUpTo \in Nat /\ old.endEpoch \in Nat
  BY <1>6 DEF LiveRail
<1>17. PICK released : released = old.rate * (to - old.settledUpTo)
  OBVIOUS
<1>18. settlement.released = released
  BY <1>1, <1>7, <1>8, <1>17 DEF Settlement, Proposal
<1>19. StreamOf(new, key) = StreamOf(old, key)
  BY <1>6, <1>15 DEF StreamOf
<1>20. PICK x \in Int : x = PaidFor(new, at) - to
  BY <1>6, <1>9, <1>15, <1>16 DEF PaidFor
<1>21. PaidFor(old, at) - old.settledUpTo = x + (to - old.settledUpTo)
  BY <1>6, <1>9, <1>15, <1>16, <1>20 DEF PaidFor
<1>22. /\ LockOf(new, key, at) = old.lockupFixed + old.rate * x
       /\ LockOf(old, key, at) = old.lockupFixed + (old.rate * x + released)
       /\ old.rate * x \in Int /\ released \in Int
  <2>1. to - old.settledUpTo \in Int
    BY <1>9, <1>16
  <2>2. old.rate * (x + (to - old.settledUpTo)) = old.rate * x + released
        /\ old.rate * x \in Int /\ released \in Int
    BY <1>16, <1>17, <1>20, <2>1, Distributes
  <2> QED BY <1>6, <1>15, <1>20, <1>21, <2>2 DEF LockOf
<1>23. Reached(new, key, at)
  <2> SUFFICES ASSUME old.endEpoch = 0, old.rate # 0
               PROVE  to <= at
    BY <1>15 DEF Reached
  <2>1. old.settledUpTo <= at
    BY <1>6 DEF Reached
  <2>2. SettleTo(p, id, until, now) = Min2(until, at)
    BY <1>1, <1>2, <1>3, <1>4 DEF SettleTo, Terminated
  <2>3. Min2(until, at) <= at
    BY <1>6 DEF Min2
  <2> QED BY <1>6, <1>9, <1>16, <2>1, <2>2, <2>3 DEF Max2
<1>24. /\ b.lockupLastSettledAt = at /\ b.lockupRate = a.lockupRate
       /\ b.lockupCurrent = a.lockupCurrent - released
       /\ a.lockupRate \in Nat /\ a.lockupCurrent \in Nat
  BY <1>4, <1>6, <1>11, <1>18 DEF Account
<1>25. StreamOf(old, key) \in Int
  BY <1>6, <1>16 DEF StreamOf
<1>26. Balanced(a, b, old, new, key)
  <2>1. LockOf(new, key, at) - LockOf(old, key, at) = 0 - released
    <3>1. PICK y \in Int : y = old.rate * x
      BY <1>22
    <3> QED BY <1>16, <1>22, <3>1
  <2>2. b.lockupCurrent = a.lockupCurrent + (LockOf(new, key, at) - LockOf(old, key, at))
    BY <1>22, <1>24, <2>1
  <2>3. b.lockupRate = a.lockupRate + (StreamOf(new, key) - StreamOf(old, key))
    BY <1>19, <1>24, <1>25
  <2> QED BY <1>4, <1>23, <1>24, <2>2, <2>3 DEF Balanced
<1>27. Ledger(q)
  BY <1>1, <1>3, <1>6, <1>13, <1>14, <1>15, <1>26, UpdatedLedger
<1> QED BY <1>12, <1>27

\* A rail that is settled to its end locks its fixed lockup, which goes with it.
LEMMA FinalizeLedger ==
    ASSUME NEW now \in Nat, NEW p, PaySound(p, now), Ledger(p),
           NEW id, RailExists(p, id), PaySound(Finalize(p, id), now),
           p.rails[id].endEpoch # 0 => p.rails[id].settledUpTo <= p.rails[id].endEpoch
    PROVE  Ledger(Finalize(p, id))
<1>1. PICK old : old = p.rails[id]
  OBVIOUS
<1>2. CASE ~FullyPaid(p, id, old.settledUpTo)
  BY <1>1, <1>2 DEF Finalize
<1>3. CASE FullyPaid(p, id, old.settledUpTo)
  <2>1. PICK key : key = Key(p, id)
    OBVIOUS
  <2>2. /\ id \in RailIds /\ old \in LiveRail /\ key \in Clients \X Tokens
        /\ p \in PayState /\ p.rails \in [RailIds -> Rail]
        /\ p.accounts \in [Clients \X Tokens -> Account]
    BY <1>1, <2>1, LiveRails, PayParts DEF PaySound
  <2>3. \A k : DrawsOn(old, k) <=> k = key
    BY <1>1, <2>1 DEF DrawsOn, Key
  <2>4. PICK a \in Account : a = p.accounts[key]
    BY <2>2
  <2>5. PICK b : b = [a EXCEPT !.lockupCurrent = @ - old.lockupFixed]
    OBVIOUS
  <2>6. PICK q : q = Finalize(p, id)
    OBVIOUS
  <2>7. /\ q.rails = [p.rails EXCEPT ![id] = NoRail]
        /\ q.accounts = [p.accounts EXCEPT ![key] = b]
    BY <1>1, <1>3, <2>1, <2>2, <2>4, <2>5, <2>6 DEF Finalize, PayState
  <2>8. q.rails \in [RailIds -> Rail]
    BY <2>6, PayParts
  <2>9. /\ old.rate \in Nat /\ old.lockupFixed \in Nat
        /\ old.settledUpTo \in Nat /\ old.endEpoch \in Nat
    BY <2>2 DEF LiveRail
  <2>10. old.endEpoch # 0 /\ old.settledUpTo = old.endEpoch
    <3>1. old.endEpoch # 0 /\ old.settledUpTo >= old.endEpoch
      BY <1>1, <1>3 DEF FullyPaid, Terminated
    <3> QED BY <1>1, <2>9, <3>1
  <2>11. PICK at \in Nat : at = a.lockupLastSettledAt
    BY DEF Account
  <2>12. \A k \in Clients \X Tokens : ~DrawsOn(NoRail, k)
    BY OneDraw DEF NoRail, Rail
  <2>13. /\ StreamOf(old, key) = 0 /\ StreamOf(NoRail, key) = 0
         /\ LockOf(NoRail, key, at) = 0 /\ Reached(NoRail, key, at)
    BY <2>2, <2>10, <2>12 DEF StreamOf, LockOf, Reached
  <2>14. LockOf(old, key, at) = old.lockupFixed
    <3>1. PaidFor(old, at) - old.settledUpTo = 0
      BY <2>9, <2>10 DEF PaidFor
    <3>2. old.rate * 0 = 0
      BY <2>9
    <3> QED BY <2>3, <2>9, <3>1, <3>2 DEF LockOf
  <2>15. Balanced(a, b, old, NoRail, key)
    BY <2>5, <2>9, <2>11, <2>13, <2>14 DEF Balanced, Account
  <2>16. /\ q.rails[id] = NoRail /\ \A r \in RailIds \ {id} : q.rails[r] = p.rails[r]
         /\ q.accounts[key] = b
         /\ \A k \in (Clients \X Tokens) \ {key} : q.accounts[k] = p.accounts[k]
    BY <2>2, <2>7
  <2>17. /\ \A k \in (Clients \X Tokens) \ {key} :
                /\ q.accounts[k] = p.accounts[k]
                /\ ~DrawsOn(p.rails[id], k) /\ ~DrawsOn(q.rails[id], k)
         /\ Balanced(a, q.accounts[key], p.rails[id], q.rails[id], key)
         /\ a.lockupLastSettledAt \in Nat /\ Counts(p.rails, key, a)
    BY <1>1, <2>2, <2>3, <2>4, <2>11, <2>12, <2>15, <2>16 DEF Ledger
  <2>18. Ledger(q)
    BY <2>2, <2>8, <2>16, <2>17, RailLedger
  <2> QED BY <2>6, <2>18
<1> QED BY <1>2, <1>3

LEMMA SettleLedger ==
    ASSUME NEW now \in Nat, NEW p, PaySound(p, now), Ledger(p), Timely(p, now),
           NEW id, NEW until \in Nat, NEW result,
           CanSettleRail(p, id, until, now, result)
    PROVE  Ledger(SettleRail(p, id, until, now, result))
<1>1. PICK q : q = Settled(p, id, until, now, result)
  OBVIOUS
<1>2. PICK settlement : settlement = Settlement(p, id, until, now, result)
  OBVIOUS
<1>3. PICK old : old = p.rails[id]
  OBVIOUS
<1>4. /\ Ledger(q) /\ PaySound(q, now)
      /\ q.rails = [p.rails EXCEPT ![id] = [old EXCEPT !.settledUpTo = settlement.to]]
  <2>1. Ledger(q)
    BY <1>1, SettledLedger
  <2>2. /\ PaySound(q, now)
        /\ q.rails = [p.rails EXCEPT ![id] = [p.rails[id] EXCEPT !.settledUpTo = settlement.to]]
    BY <1>1, <1>2, SettledSound
  <2> QED BY <1>3, <2>1, <2>2
<1>5. /\ id \in RailIds /\ old \in LiveRail /\ old.from # ZERO
      /\ p.rails \in [RailIds -> Rail]
  BY <1>3, LiveRails, PayParts DEF CanSettleRail, RailExists
<1>6. /\ q.rails[id].settledUpTo = settlement.to
      /\ q.rails[id].endEpoch = old.endEpoch /\ q.rails[id].from = old.from
  BY <1>4, <1>5 DEF LiveRail
<1>7. q.rails[id].endEpoch # 0 => q.rails[id].settledUpTo <= q.rails[id].endEpoch
  BY <1>2, <1>3, <1>6, SettlementTimely
<1>8. RailExists(q, id)
  BY <1>5, <1>6 DEF RailExists
<1>9. PaySound(SettleRail(p, id, until, now, result), now)
  BY SettleRailSound
<1>10. SettleRail(p, id, until, now, result) = Finalize(q, id)
  BY <1>1 DEF SettleRail
<1>11. PaySound(Finalize(q, id), now)
  BY <1>9, <1>10
<1>12. Ledger(Finalize(q, id))
  BY <1>4, <1>7, <1>8, <1>11, FinalizeLedger
<1> QED BY <1>10, <1>12

----------------------------------------------------------------------------
(* The steps of the diamond and of the clients.                            *)

\* Every payments contract locks what its rails lock.
Ledgers(pays) == \A c \in PaymentsContracts : Ledger(pays[c])

\* A step that changes one payments contract, and keeps its ledger.
LEMMA OneLedger ==
    ASSUME IInv, Ledgers(pay), NEW c, NEW q, pay' = [pay EXCEPT ![c] = q],
           c \in PaymentsContracts => Ledger(q)
    PROVE  Ledgers(pay')
<1>1. \A d \in PaymentsContracts : pay'[d] = IF d = c THEN q ELSE pay[d]
  BY SoundParts
<1> QED BY <1>1 DEF Ledgers

\* A rail that streams has a notice to run out: only activated allocations have
\* rails that stream, and theirs have a month.
LEMMA StreamsHaveNotice ==
    ASSUME SingleContract, IInv, RailInv(s, pay), PaidRails(s, pay, epoch),
           NEW c \in PaymentsContracts, NEW r \in RailIds,
           NEW rail, rail = pay[c].rails[r], rail.from # ZERO, rail.rate # 0
    PROVE  rail.lockupPeriod # 0
<1>1. PICK a : a = s.railIdToAllocationId[r]
  OBVIOUS
<1>2. a # 0
  BY <1>1 DEF PaidRails, UnboundUnpaid
<1>3. a \in Allocated(s) /\ s.allocationInfos[a].railId = r
  BY <1>1, <1>2 DEF RailInv, RailMapInverse
<1>4. s.paymentsContract = c
  BY <1>3, SoundParts, AllocatedContract DEF SingleContract
<1>5. PICK info : info = s.allocationInfos[a]
  OBVIOUS
<1>6. ServesAllocation(rail, info)
  BY <1>3, <1>4, <1>5 DEF RailInv, RailsServe
<1> QED BY <1>6, EpochsAssumption DEF ServesAllocation

LEMMA SettleLedgers ==
    ASSUME IInv, PaidRails(s, pay, epoch), Ledgers(pay), NEW c, NEW id,
           NEW until \in Nat, CanSettle(c, id, until), Settle(c, id, until)
    PROVE  Ledgers(pay')
<1>1. PICK p, result : p = pay[c] /\ result = Validated(c, id, until)
  OBVIOUS
<1>2. PICK q : q = SettleRail(p, id, until, epoch, result)
  OBVIOUS
<1>3. pay' = [pay EXCEPT ![c] = q] /\ CanSettleRail(p, id, until, epoch, result)
  BY <1>1, <1>2 DEF Settle, CanSettle
<1>4. ASSUME c \in PaymentsContracts
      PROVE  Ledger(q)
  <2>1. PaySound(p, epoch) /\ Timely(p, epoch) /\ epoch \in Nat /\ Ledger(p)
    BY <1>1, <1>4, SoundParts DEF PaidRails, Ledgers
  <2> QED BY <1>2, <1>3, <2>1, SettleLedger
<1> QED BY <1>3, <1>4, OneLedger

\* The transactions of the clients: whatever they move, end or settle.
LEMMA ClientLedgers ==
    ASSUME SingleContract, IInv, RailInv(s, pay), PaidRails(s, pay, epoch),
           Ledgers(pay), AnyClient
    PROVE  Ledgers(pay')
<1>0. /\ epoch \in Nat
      /\ \A c \in PaymentsContracts : PaySound(pay[c], epoch) /\ Ledger(pay[c])
  BY SoundParts DEF Ledgers
<1>1. ASSUME NEW c \in PaymentsContracts, NEW k \in Clients \X Tokens,
             NEW amount \in Nat, AnyDeposit(c, k, amount)
      PROVE  Ledgers(pay')
  <2>1. PICK q : q = Deposit(pay[c], k, amount, epoch)
    OBVIOUS
  <2>2. Ledger(q)
    BY <1>0, <2>1, DepositLedger
  <2>3. pay' = [pay EXCEPT ![c] = q]
    BY <1>1, <2>1 DEF AnyDeposit
  <2> QED BY <2>2, <2>3, OneLedger
<1>2. ASSUME NEW c \in PaymentsContracts, NEW k \in Clients \X Tokens,
             NEW amount \in Nat, withdraw(c, k, amount)
      PROVE  Ledgers(pay')
  <2>1. PICK q : q = Withdraw(pay[c], k, amount, epoch)
    OBVIOUS
  <2>2. Ledger(q)
    BY <1>0, <2>1, WithdrawLedger
  <2>3. pay' = [pay EXCEPT ![c] = q]
    BY <1>2, <2>1 DEF withdraw
  <2> QED BY <2>2, <2>3, OneLedger
<1>3. ASSUME NEW c \in PaymentsContracts, NEW k \in Clients \X Tokens,
             NEW limits \in ApprovalLimits, setOperatorApproval(c, k, limits)
      PROVE  Ledgers(pay')
  <2>1. PICK q : q = SetOperatorApproval(pay[c], k, limits)
    OBVIOUS
  <2>2. Ledger(q)
    BY <1>0, <2>1, ApprovalLedger
  <2>3. pay' = [pay EXCEPT ![c] = q]
    BY <1>3, <2>1 DEF setOperatorApproval
  <2> QED BY <2>2, <2>3, OneLedger
<1>4. ASSUME NEW c \in PaymentsContracts, NEW r \in RailIds, terminateRail(c, r)
      PROVE  Ledgers(pay')
  <2>1. PICK p, q : p = pay[c] /\ q = TerminateRail(p, r, epoch)
    OBVIOUS
  <2>2. CanTerminateRail(p, r, epoch) /\ pay' = [pay EXCEPT ![c] = q]
    BY <1>4, <2>1 DEF terminateRail
  <2>3. p.rails[r].rate # 0 => p.rails[r].lockupPeriod # 0
    <3>1. p.rails[r].from # ZERO
      BY <2>2 DEF CanTerminateRail, RailExists
    <3> QED BY <2>1, <3>1, StreamsHaveNotice
  <2>4. Ledger(q)
    BY <1>0, <2>1, <2>2, <2>3, TerminateLedger
  <2> QED BY <2>2, <2>4, OneLedger
<1>5. ASSUME NEW c \in PaymentsContracts, NEW r \in RailIds, settleRail(c, r)
      PROVE  Ledgers(pay')
  BY <1>0, <1>5, SettleLedgers DEF settleRail
<1> QED BY <1>1, <1>2, <1>3, <1>4, <1>5 DEF AnyClient

\* A new rail locks its fixed amount; its number had no rail.
LEMMA OpenedRailLedger ==
    ASSUME IInv, NEW p, PaySound(p, epoch), Ledger(p), NEW piece \in PieceInfo,
           NEW client \in Clients, CanOpenRail(p, piece, client),
           p.rails[p.nextRailId].from = ZERO
    PROVE  Ledger(OpenedRail(p, piece, client))
<1>1. /\ piece.paymentTokenAddress \in Tokens
      /\ s.spConfigs[piece.provider].paymentAddress \in Payees \cup {ZERO}
      /\ s.commissionRateBps \in Nat
      /\ s.allocationLockupAmount \in Nat
      /\ epoch \in Nat
  BY SoundParts DEF DDOState, SPConfig, PieceInfo
<1>2. PICK n : n = p.nextRailId
  OBVIOUS
<1>3. n \in RailIds
  BY <1>2, OpenedRailSound
<1>4. PICK q : q = CreateRail(p, piece.paymentTokenAddress, client,
                        s.spConfigs[piece.provider].paymentAddress,
                        s.commissionRateBps, epoch)
  OBVIOUS
<1>5. PaySound(q, epoch) /\ Ledger(q)
  BY <1>1, <1>2, <1>3, <1>4, CreateRailSound, CreateRailLedger
<1>6. CanModifyRailLockup(q, n, 0, s.allocationLockupAmount, epoch)
  BY <1>2, <1>4 DEF CanOpenRail
<1>7. Ledger(ModifyRailLockup(q, n, 0, s.allocationLockupAmount, epoch))
  BY <1>1, <1>5, <1>6, LockupLedger
<1> QED BY <1>2, <1>4, <1>7 DEF OpenedRail

LEMMA CreateLedgers ==
    ASSUME SingleContract, IInv, RailInv(s, pay), PaidRails(s, pay, epoch),
           Ledgers(pay), s.paymentsContract # ZERO, createAllocation
    PROVE  Ledgers(pay')
<1> DEFINE piece == call.pieceInfos[call.i]
           a == call.newAllocations[call.i]
<1>1. PICK c, p, n : c = s.paymentsContract /\ p = pay[c] /\ n = p.nextRailId
  OBVIOUS
<1>2. c \in PaymentsContracts /\ PaySound(p, epoch) /\ Ledger(p)
  BY <1>1, SoundParts DEF DDOState, Ledgers
<1>3. call.client \in Clients /\ piece \in PieceInfo
  BY CreateFrameParts DEF createAllocation
<1>4. CanOpenRail(p, piece, call.client)
  BY <1>1 DEF createAllocation, canCreateAllocation
<1>5. PICK q : q = OpenedRail(p, piece, call.client)
  OBVIOUS
<1>6. pay' = [pay EXCEPT ![c] = q]
  BY <1>1, <1>5 DEF createAllocation
<1> HIDE DEF piece
<1>7. n \in RailIds
  BY <1>1, <1>2, <1>3, <1>4, OpenedRailSound
<1>8. s.railIdToAllocationId[n] = 0
  <2>1. SUFFICES ASSUME s.railIdToAllocationId[n] # 0
                 PROVE  FALSE
    OBVIOUS
  <2>2. PICK b : b = s.railIdToAllocationId[n]
    OBVIOUS
  <2>3. b \in Allocated(s) /\ s.allocationInfos[b].railId = n
    BY <1>7, <2>1, <2>2 DEF RailInv, RailMapInverse
  <2>4. n < n
    BY <1>1, <2>3 DEF RailInv, RailMapInverse
  <2> QED BY <1>7, <2>4, MaxRailsAssumption DEF RailIds
<1>9. p.rails[n].from = ZERO
  BY <1>1, <1>2, <1>7, <1>8 DEF PaidRails, UnboundUnpaid
<1>10. Ledger(q)
  BY <1>1, <1>2, <1>3, <1>4, <1>5, <1>9, OpenedRailLedger
<1> QED BY <1>6, <1>10, OneLedger

\* A rail that starts streams its price, and locks a month of it.
LEMMA ActivatedRailLedger ==
    ASSUME IInv, NEW p, PaySound(p, epoch), Ledger(p), NEW info \in AllocationInfo,
           canActivateRail(p, info), p.rails[info.railId].rate = 0
    PROVE  Ledger(ActivatedRail(p, info))
<1>1. PICK id, price : id = info.railId /\ price = pricePerEpoch(info)
  OBVIOUS
<1>2. epoch \in Nat /\ price \in Nat /\ EPOCHS_PER_MONTH \in Nat
  BY <1>1, SoundParts, EpochsAssumption, Products DEF AllocationInfo, pricePerEpoch
<1>3. PICK q : q = ModifyRailPayment(p, id, price, epoch)
  OBVIOUS
<1>4. /\ CanModifyRailPayment(p, id, price, epoch)
      /\ CanModifyRailLockup(q, id, EPOCHS_PER_MONTH, 0, epoch)
  BY <1>1, <1>3 DEF canActivateRail
<1>5. PaySound(q, epoch) /\ Ledger(q)
  BY <1>1, <1>2, <1>3, <1>4, ModifyRailPaymentSound, PaymentLedger
<1>6. Ledger(ModifyRailLockup(q, id, EPOCHS_PER_MONTH, 0, epoch))
  BY <1>2, <1>4, <1>5, LockupLedger
<1> QED BY <1>1, <1>3, <1>6 DEF ActivatedRail

LEMMA ActivateLedgers ==
    ASSUME IInv, RailInv(s, pay), Ledgers(pay), activatePiece
    PROVE  Ledgers(pay')
<1> DEFINE a == call.pieces[call.i].allocationId
           info == s.allocationInfos[a]
<1>1. PICK c, p : c = s.paymentsContract /\ p = pay[c]
  OBVIOUS
<1>2. a \in AllocationIds /\ info \in AllocationInfo /\ a \in Allocated(s)
  <2>1. a \in AllocationIds
    BY NotifyFrameParts DEF activatePiece, NotificationPiece
  <2>2. info.client # ZERO
    BY DEF activatePiece, accepts
  <2> QED BY <2>1, <2>2, SoundParts DEF DDOState, Allocated
<1>3. c \in PaymentsContracts /\ PaySound(p, epoch) /\ Ledger(p)
  <2> HIDE DEF a
  <2> QED BY <1>1, <1>2, SoundParts, AllocatedContract DEF Ledgers
<1>4. canActivateRail(p, info) /\ ~info.activated
  BY <1>1 DEF activatePiece, accepts
<1>5. p.rails[info.railId].rate = 0
  <2>1. ServesAllocation(p.rails[info.railId], info)
    <3> HIDE DEF a
    <3> QED BY <1>1, <1>2 DEF RailInv, RailsServe
  <2>2. p.rails[info.railId].from # ZERO
    BY <1>4 DEF canActivateRail, CanModifyRailPayment, RailExists
  <2> QED BY <1>4, <2>1, <2>2 DEF ServesAllocation
<1>6. PICK q : q = ActivatedRail(p, info)
  OBVIOUS
<1>7. pay' = [pay EXCEPT ![c] = q]
  BY <1>1, <1>6 DEF activatePiece
<1> HIDE DEF info
<1>8. Ledger(q)
  BY <1>2, <1>3, <1>4, <1>5, <1>6, ActivatedRailLedger
<1> QED BY <1>7, <1>8, OneLedger

----------------------------------------------------------------------------
(* LockupInv is an invariant.                                              *)

\* Every account locks what its rails lock in it, in the running state and in
\* what a revert would put back.
LockupInv == Ledgers(pay) /\ Ledgers(committed.pay)

\* Every step keeps the ledgers.
LEMMA LockupInvStep ==
    ASSUME SingleContract, RailsInv, LockupInv, Steps
    PROVE  LockupInv'
<1>0. /\ IInv /\ RailInv(s, pay)
      /\ PaidRails(s, pay, epoch)
      /\ Ledgers(pay) /\ Ledgers(committed.pay)
      /\ call.fn = "create" => s.paymentsContract # ZERO
  BY DEF RailsInv, AllocationInv, LockupInv
<1>1. ASSUME Ledgers(pay'), Ledgers(committed'.pay)
      PROVE  LockupInv'
  BY <1>1 DEF LockupInv, Ledgers
<1>2. CASE Whole
  <2>1. CASE AnyAdmin \/ AnySP
    <3>1. pay' = pay
      BY <1>0, <2>1, OwnerChanges
    <3> QED BY <1>0, <1>1, <1>2, <3>1, Commits
  <2>2. CASE AnyClient
    <3>1. Ledgers(pay')
      BY <1>0, <2>2, ClientLedgers
    <3> QED BY <1>0, <1>1, <1>2, <3>1, Commits
  <2>3. CASE Tick
    <3>1. pay' = pay
      BY <2>3 DEF Tick
    <3> QED BY <1>0, <1>1, <1>2, <3>1, Commits
  <2>4. ASSUME NEW a, NEW until \in Nat, settleSpPayment(a, until)
        PROVE  LockupInv'
    <3>1. PICK id : /\ CanSettle(s.paymentsContract, id, until)
                    /\ Settle(s.paymentsContract, id, until)
      BY <2>4 DEF settleSpPayment
    <3>2. Ledgers(pay')
      BY <1>0, <3>1, SettleLedgers
    <3> QED BY <1>0, <1>1, <1>2, <3>2, Commits
  <2> QED BY <1>2, <2>1, <2>2, <2>3, <2>4 DEF Whole
<1>3. CASE Begins
  <2>1. pay' = pay
    BY <1>3 DEF Begins
  <2> QED BY <1>0, <1>1, <1>3, <2>1, Commits
<1>4. CASE Continues
  <2>1. Ledgers(pay')
    <3>1. CASE createAllocation
      <4>1. s.paymentsContract # ZERO
        BY <1>0, <3>1 DEF createAllocation, creating
      <4> QED BY <1>0, <3>1, <4>1, CreateLedgers
    <3>2. CASE activatePiece
      BY <1>0, <3>2, ActivateLedgers
    <3>3. CASE rejectPiece \/ settleSkip
      BY <1>0, <3>3 DEF rejectPiece, settleSkip
    <3>4. CASE settleNext
      <4>1. call.untilEpoch \in Nat
        BY <1>0, <3>4, SettleFrameType DEF settleNext, settling
      <4>2. \E id : /\ CanSettle(s.paymentsContract, id, call.untilEpoch)
                    /\ Settle(s.paymentsContract, id, call.untilEpoch)
        BY <3>4 DEF settleNext
      <4> QED BY <1>0, <4>1, <4>2, SettleLedgers
    <3> QED BY <1>4, <3>1, <3>2, <3>3, <3>4 DEF Continues
  <2> QED BY <1>0, <1>1, <1>4, <2>1, Commits
<1>5. CASE Reverts
  <2>1. pay' = committed.pay
    BY <1>5 DEF Reverts, Revert, committed
  <2> QED BY <1>0, <1>1, <1>5, <2>1, Commits
<1>6. CASE Returns
  <2>1. pay' = pay
    BY <1>6 DEF Returns
  <2> QED BY <1>0, <1>1, <1>6, <2>1, Commits
<1>7. CASE UNCHANGED vars
  BY <1>0, <1>1, <1>7, Commits DEF vars
<1> QED BY <1>2, <1>3, <1>4, <1>5, <1>6, <1>7 DEF Steps

LEMMA LockupInvInit ==
    ASSUME Init
    PROVE  LockupInv
<1>1. /\ \A c \in PaymentsContracts : pay[c] = PayInit
      /\ call = Idle
  BY DEF Init
<1>2. /\ PayInit.rails \in [RailIds -> Rail]
      /\ \A r \in RailIds : PayInit.rails[r] = NoRail
      /\ \A k \in Clients \X Tokens :
            /\ PayInit.accounts[k].lockupCurrent = 0
            /\ PayInit.accounts[k].lockupRate = 0
            /\ PayInit.accounts[k].lockupLastSettledAt = 0
  BY DEF PayInit, Rail
<1>3. ASSUME NEW k \in Clients \X Tokens
      PROVE  Counts(PayInit.rails, k, PayInit.accounts[k])
  <2>1. PICK rails, a : rails = PayInit.rails /\ a = PayInit.accounts[k]
    OBVIOUS
  <2>a. rails \in [RailIds -> Rail]
    BY <1>2, <2>1
  <2>2. PICK v \in [RailIds -> Int], w \in [RailIds -> Int] :
            v = Streams(rails, k) /\ w = Locks(rails, k, 0)
    <3>1. 0 \in Int
      OBVIOUS
    <3> QED BY <2>a, <3>1, Weights
  <2>3. /\ \A at : LockOf(NoRail, k, at) = 0 /\ StreamOf(NoRail, k) = 0
        /\ \A at : Reached(NoRail, k, at)
    <3>1. NoRail.rate = 0 /\ ~DrawsOn(NoRail, k)
      BY ZeroAssumption DEF NoRail, DrawsOn
    <3> QED BY <3>1 DEF StreamOf, LockOf, Reached
  <2>4. \A r \in RailIds : v[r] = 0 /\ w[r] = 0
    <3>1. 0 \in Int
      OBVIOUS
    <3> QED BY <1>2, <2>1, <2>a, <2>2, <2>3, <3>1, Weights
  <2>5. Total(v, RailIds) = 0 /\ Total(w, RailIds) = 0
    BY <2>4, RailIdsFinite, TotalZero
  <2> QED BY <1>2, <2>1, <2>2, <2>3, <2>5 DEF Counts
<1>4. Ledgers(pay)
  BY <1>1, <1>3 DEF Ledgers, Ledger
<1> QED BY <1>1, <1>4 DEF LockupInv, committed, Snapshot

\* With one payments contract, what an account has locked is the sum of what its
\* rails have earned since they were settled and of what each is promised yet,
\* and the account streams what its rails stream.
THEOREM LockupInvariance ==
    ASSUME SingleContract
    PROVE  Spec => []LockupInv
<1>1. Init => LockupInv
  BY LockupInvInit
<1>2. SingleContract /\ RailsInv /\ LockupInv /\ [AnyNext]_vars => LockupInv'
  BY LockupInvStep, StepKinds DEF RailsInv, AllocationInv
<1> QED BY <1>1, <1>2, RailsInvariance, SpecIsAny, PTL

----------------------------------------------------------------------------
(* The month of notice.                                                    *)

\* No rail locks less than nothing.
LEMMA LocksPositive ==
    ASSUME NEW p, p.rails \in [RailIds -> Rail], NEW now, Timely(p, now),
           NEW k, NEW at \in Nat, \A r \in RailIds : Reached(p.rails[r], k, at),
           NEW r \in RailIds
    PROVE  LockOf(p.rails[r], k, at) >= 0
<1>1. PICK rail \in Rail : rail = p.rails[r]
  OBVIOUS
<1>2. /\ rail.rate \in Nat /\ rail.lockupFixed \in Nat /\ rail.lockupPeriod \in Nat
      /\ rail.settledUpTo \in Nat /\ rail.endEpoch \in Nat
  BY RailFields
<1>3. PICK x \in Int : x = PaidFor(rail, at) - rail.settledUpTo
  BY <1>2 DEF PaidFor
<1>4. CASE ~DrawsOn(rail, k)
  BY <1>1, <1>4 DEF LockOf
<1>5. CASE DrawsOn(rail, k) /\ rail.rate = 0
  BY <1>1, <1>2, <1>3, <1>5 DEF LockOf
<1>6. CASE DrawsOn(rail, k) /\ rail.rate # 0
  <2>1. rail.endEpoch # 0 => rail.settledUpTo <= rail.endEpoch
    BY <1>1 DEF Timely
  <2>2. rail.endEpoch = 0 => rail.settledUpTo <= at
    BY <1>1, <1>6 DEF Reached
  <2>3. x \in Nat
    BY <1>2, <1>3, <2>1, <2>2 DEF PaidFor
  <2>4. rail.rate * x \in Nat
    BY <1>2, <2>3, Products
  <2> QED BY <1>1, <1>2, <1>3, <1>6, <2>4 DEF LockOf
<1> QED BY <1>4, <1>5, <1>6

\* A living allocation asks for what its rail has locked.
LEMMA CommittedIsLocked ==
    ASSUME IInv, RailInv(s, pay), NEW c, c = s.paymentsContract,
           NEW k \in Clients \X Tokens, NEW a \in LivingAllocations(c, k)
    PROVE  /\ c \in PaymentsContracts
           /\ s.allocationInfos[a].railId \in RailIds
           /\ s.railIdToAllocationId[s.allocationInfos[a].railId] = a
           /\ Committed(c, a) = LockOf(pay[c].rails[s.allocationInfos[a].railId], k,
                                       pay[c].accounts[k].lockupLastSettledAt)
<1>1. PICK info, rail, at : /\ info = s.allocationInfos[a]
                            /\ rail = pay[c].rails[info.railId]
                            /\ at = pay[c].accounts[k].lockupLastSettledAt
  OBVIOUS
<1>2. /\ a \in Allocated(s) /\ info.activated
      /\ k = <<info.client, info.paymentToken>> /\ rail.from # ZERO
  BY <1>1 DEF LivingAllocations
<1>3. /\ c \in PaymentsContracts /\ info \in AllocationInfo /\ info.railId \in RailIds
      /\ s.railIdToAllocationId[info.railId] = a
  BY <1>1, <1>2, SoundParts, AllocatedContract DEF RailInv, RailMapInverse
<1>4. /\ rail.from = info.client /\ rail.token = info.paymentToken
      /\ rail.rate = pricePerEpoch(info)
      /\ rail.lockupPeriod = EPOCHS_PER_MONTH /\ rail.lockupFixed = 0
  BY <1>1, <1>2 DEF RailInv, RailsServe, ServesAllocation
<1>5. /\ rail \in Rail /\ at \in Nat
      /\ rail.settledUpTo \in Nat /\ rail.endEpoch \in Nat /\ rail.rate \in Nat
      /\ EPOCHS_PER_MONTH \in Nat
  <2>1. /\ pay[c].rails \in [RailIds -> Rail]
        /\ pay[c].accounts \in [Clients \X Tokens -> Account]
    BY <1>3, SoundParts, PayParts
  <2>2. rail \in Rail /\ pay[c].accounts[k] \in Account
    BY <1>1, <1>3, <2>1
  <2> QED BY <1>1, <2>2, RailFields, EpochsAssumption DEF Account
<1>6. PICK x \in Int : x = PaidFor(rail, at) - rail.settledUpTo
  BY <1>4, <1>5 DEF PaidFor
<1>7. Committed(c, a) = rail.rate * x
  <2>1. Committed(c, a) = rail.rate *
            (IF rail.endEpoch # 0 THEN rail.endEpoch - rail.settledUpTo
             ELSE EPOCHS_PER_MONTH + at - rail.settledUpTo)
    BY <1>1, <1>2, <1>4 DEF Committed
  <2>2. x = IF rail.endEpoch # 0 THEN rail.endEpoch - rail.settledUpTo
            ELSE EPOCHS_PER_MONTH + at - rail.settledUpTo
    BY <1>4, <1>5, <1>6 DEF PaidFor
  <2> QED BY <2>1, <2>2
<1>8. LockOf(rail, k, at) = rail.lockupFixed + rail.rate * x
  BY <1>2, <1>4, <1>6 DEF LockOf, DrawsOn
<1>9. rail.rate * x \in Int
  BY <1>5, <1>6, IntProducts
<1> QED BY <1>1, <1>3, <1>4, <1>7, <1>8, <1>9

\* The sum MonthIsLocked takes over the living allocations is at most what their
\* account has locked.
LEMMA MonthFromLedger ==
    ASSUME RailsInv, LockupInv
    PROVE  MonthIsLocked
<1>0. /\ IInv /\ RailInv(s, pay) /\ PaidRails(s, pay, epoch) /\ Ledgers(pay)
  BY DEF RailsInv, AllocationInv, LockupInv
<1> SUFFICES ASSUME NEW c, c = s.paymentsContract, c # ZERO,
                    NEW k \in Clients \X Tokens
             PROVE  MapThenSumSet(LAMBDA a : Committed(c, a), LivingAllocations(c, k))
                        <= pay[c].accounts[k].funds
  BY DEF MonthIsLocked
<1>1. c \in PaymentsContracts
  BY <1>0, SoundParts DEF DDOState
<1>2. PICK p, acct : p = pay[c] /\ acct = p.accounts[k]
  OBVIOUS
<1>3. /\ PaySound(p, epoch) /\ Timely(p, epoch) /\ Counts(p.rails, k, acct)
      /\ p.rails \in [RailIds -> Rail] /\ AccountSound(acct, epoch)
  BY <1>0, <1>1, <1>2, SoundParts, PayParts DEF PaidRails, Ledgers, Ledger
<1>4. PICK at \in Nat : at = acct.lockupLastSettledAt
  BY <1>3 DEF AccountSound, Account
<1>5. PICK w \in [RailIds -> Int] :
          w = Locks(p.rails, k, at) /\ \A r \in RailIds : w[r] = LockOf(p.rails[r], k, at)
  BY <1>3, Weights
<1>6. \A r \in RailIds : w[r] >= 0
  <2>1. \A r \in RailIds : Reached(p.rails[r], k, at)
    BY <1>3, <1>4 DEF Counts
  <2>2. \A r \in RailIds : LockOf(p.rails[r], k, at) >= 0
    BY <1>3, <2>1, LocksPositive
  <2> QED BY <1>5, <2>2
<1>7. PICK A : A = LivingAllocations(c, k)
  OBVIOUS
<1>8. ASSUME NEW a \in A
      PROVE  /\ s.allocationInfos[a].railId \in RailIds
             /\ s.railIdToAllocationId[s.allocationInfos[a].railId] = a
             /\ Committed(c, a) = w[s.allocationInfos[a].railId]
  BY <1>0, <1>2, <1>4, <1>5, <1>7, <1>8, CommittedIsLocked
<1>9. PICK g \in [A -> RailIds] : \A a \in A : g[a] = s.allocationInfos[a].railId
  <2>1. [a \in A |-> s.allocationInfos[a].railId] \in [A -> RailIds]
    BY <1>8
  <2> QED BY <2>1
<1>10. \A a, b \in A : g[a] = g[b] => a = b
  BY <1>8, <1>9
<1>11. PICK v \in [A -> Int] : \A a \in A : v[a] = Committed(c, a) /\ v[a] = w[g[a]]
  <2>1. PICK u : u = [a \in A |-> Committed(c, a)]
    OBVIOUS
  <2>2. \A a \in A : Committed(c, a) \in Int /\ Committed(c, a) = w[g[a]]
    BY <1>8, <1>9
  <2>3. u \in [A -> Int] /\ \A a \in A : u[a] = Committed(c, a) /\ u[a] = w[g[a]]
    BY <2>1, <2>2
  <2> QED BY <2>3
<1>12. IsFiniteSet(A)
  <2>1. g \in Injection(A, RailIds)
    BY <1>10 DEF Injection, IsInjective
  <2> QED BY <2>1, RailIdsFinite, FS_Injection
<1> DEFINE Step(i) == [T \in SUBSET A |-> IF T = {} THEN 0
               ELSE Committed(c, CHOOSE x \in T : TRUE) + i[T \ {CHOOSE x \in T : TRUE}]]
           iter == CHOOSE i : i = Step(i)
<1>13. MapThenSumSet(LAMBDA a : Committed(c, a), A) = iter[A]
  BY DEF MapThenSumSet, MapThenFoldSet
<1>14. \A i : Step(i) = Recursion(v, A, i)
  <2>1. \A T \in SUBSET A : T # {} =>
            Committed(c, CHOOSE x \in T : TRUE) = v[CHOOSE x \in T : TRUE]
    BY <1>11
  <2> QED BY <2>1 DEF Recursion
<1>15. iter = Recursion(v, A, iter)
  <2>1. PICK sum : IsSum(sum, v, A)
    BY <1>12, SumExists
  <2>2. sum = Recursion(v, A, sum)
    BY <2>1 DEF IsSum, SumStep, Pick, Recursion
  <2>3. sum = Step(sum)
    BY <1>14, <2>2
  <2> HIDE DEF Step
  <2>4. iter = Step(iter)
    BY <2>3
  <2> HIDE DEF iter
  <2> QED BY <1>14, <2>4
<1> HIDE DEF iter, Step
<1>16. IsSum(iter, v, A)
  BY <1>12, <1>15, RecursionIsSum
<1>17. iter[A] <= Total(w, RailIds)
  <2>1. \A a \in A : v[a] <= w[g[a]]
    BY <1>11
  <2> QED BY <1>6, <1>9, <1>10, <1>12, <1>16, <2>1, RailIdsFinite, TotalImage
<1>18. Total(w, RailIds) = acct.lockupCurrent
  BY <1>3, <1>4, <1>5 DEF Counts
<1>19. /\ acct.lockupCurrent <= acct.funds /\ acct.lockupCurrent \in Nat
       /\ acct.funds \in Nat
  BY <1>3 DEF AccountSound, Account
<1>20. iter[A] \in Int
  <2>1. A \in SUBSET A
    OBVIOUS
  <2> QED BY <1>16, <2>1 DEF IsSum
<1>21. iter[A] <= acct.funds
  BY <1>17, <1>18, <1>19, <1>20
<1> QED BY <1>2, <1>7, <1>13, <1>21

\* Whatever a client withdraws, ends or fails to fund, its account holds what all
\* its activated allocations together have earned and their month of notice.
THEOREM MonthAlwaysLocked ==
    ASSUME SingleContract
    PROVE  Spec => []MonthIsLocked
<1>1. RailsInv /\ LockupInv => MonthIsLocked
  BY MonthFromLedger
<1> QED BY <1>1, RailsInvariance, LockupInvariance, PTL
=============================================================================

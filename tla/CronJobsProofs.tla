--------------------------- MODULE CronJobsProofs ---------------------------
(***************************************************************************)
(* Proofs about the jobs that a cron starts: RevenueShare, the month's       *)
(* earnings of the creators, and Reminders.  They share nothing but that    *)
(* several runs of a job overlap.                                           *)
(*                                                                         *)
(* Of RevenueShare: the types, which allocation a finalized month holds, and *)
(* what its amounts add up to.  Sums are folds over finite sets; the first   *)
(* part proves what the rest needs of them.  Of Reminders, at the end: the   *)
(* types, that a window has a tick, and that it does not have two.          *)
(***************************************************************************)
EXTENDS RevenueShare, Reminders, FiniteSetTheorems, TLAPS
-----------------------------------------------------------------------------
(* Sums over finite sets *)

\* The sum of f over S, and the recursive function that MapThenSumSet is.
SumOver(f, S) == MapThenSumSet(LAMBDA x : f[x], S)
Chosen(s) == CHOOSE x \in s : TRUE
IsSum(g, f, U) ==
  g = [s \in SUBSET U |-> IF s = {} THEN 0 ELSE f[Chosen(s)] + g[s \ {Chosen(s)}]]

\* Induction over the subsets of a finite set, as a minimal counterexample.
LEMMA MinimalSubset ==
  ASSUME NEW U, IsFiniteSet(U), NEW B \in SUBSET SUBSET U, B # {}
  PROVE  \E T \in B : \A x \in T : T \ {x} \notin B
<1>1. IsWellFoundedOn(StrictSubsetOrdering(U), SUBSET U)
  BY FS_StrictSubsetOrderingWellFounded, FS_FiniteSubsetsOfFinite
<1>2. PICK T \in B : \A S \in B : <<S, T>> \notin StrictSubsetOrdering(U)
  BY <1>1, WFMin
<1>3. ASSUME NEW x \in T, T \ {x} \in B PROVE FALSE
  <2>1. <<T \ {x}, T>> \in StrictSubsetOrdering(U)
    BY <1>3 DEF StrictSubsetOrdering
  <2> QED BY <1>2, <1>3, <2>1
<1> QED BY <1>2, <1>3

LEMMA ChosenIsIn ==
  ASSUME NEW s, s # {}
  PROVE  Chosen(s) \in s
  BY DEF Chosen

\* The recursion is well founded: there is such a function on the subsets of a
\* finite set, built up by their size.
LEMMA SumExists ==
  ASSUME NEW U, IsFiniteSet(U), NEW f, \A x \in U : f[x] \in Int
  PROVE  \E g : IsSum(g, f, U)
<1> DEFINE Value(g, s) == IF s = {} THEN 0 ELSE f[Chosen(s)] + g[s \ {Chosen(s)}]
           Good(V) == \E g \in [SUBSET U -> Int] :
                        \A s \in SUBSET U : Cardinality(s) <= Cardinality(V) => g[s] = Value(g, s)
           B == {V \in SUBSET U : ~Good(V)}
<1>1. \A s \in SUBSET U : IsFiniteSet(s) /\ Cardinality(s) \in Nat
  BY FS_Subset, FS_CardinalityType
<1>2. \A s \in SUBSET U : \A x \in s :
        s \ {x} \in SUBSET U /\ Cardinality(s \ {x}) = Cardinality(s) - 1
  BY <1>1, FS_RemoveElement
<1>3. ASSUME NEW T \in SUBSET U, T = {} PROVE Good(T)
  <2> DEFINE g == [s \in SUBSET U |-> 0]
  <2>1. \A s \in SUBSET U : Cardinality(s) <= Cardinality(T) => s = {}
    BY <1>1, <1>3, FS_EmptySet
  <2>2. g \in [SUBSET U -> Int] /\ \A s \in SUBSET U : Cardinality(s) <= Cardinality(T) => g[s] = Value(g, s)
    BY <2>1
  <2> HIDE DEF Value
  <2> QED BY <2>2
<1>4. ASSUME NEW T \in SUBSET U, NEW x \in T, Good(T \ {x}) PROVE Good(T)
  <2> DEFINE n == Cardinality(T \ {x})
  <2>1. PICK g \in [SUBSET U -> Int] : \A s \in SUBSET U : Cardinality(s) <= n => g[s] = Value(g, s)
    BY <1>4
  <2> DEFINE h == [s \in SUBSET U |-> IF Cardinality(s) <= n THEN g[s] ELSE Value(g, s)]
  <2>2. n \in Nat /\ Cardinality(T) = n + 1
    BY <1>1, <1>2
  <2> HIDE DEF n
  <2>3. \A s \in SUBSET U : Value(g, s) \in Int
    BY <1>2, ChosenIsIn
  <2>4. h \in [SUBSET U -> Int]
    <3> HIDE DEF Value
    <3> QED BY <2>3
  <2>5. ASSUME NEW s \in SUBSET U, Cardinality(s) <= n + 1 PROVE h[s] = Value(h, s)
    <3>1. h[s] = Value(g, s)
      <4> HIDE DEF Value
      <4> QED BY <2>1
    <3>2. CASE s = {}
      BY <3>1, <3>2
    <3>3. CASE s # {}
      <4> DEFINE t == s \ {Chosen(s)}
      <4>1. t \in SUBSET U /\ Cardinality(t) <= n
        BY <1>1, <1>2, <2>2, <2>5, <3>3, ChosenIsIn
      <4>2. h[t] = g[t]
        <5> HIDE DEF t
        <5> QED BY <4>1
      <4> HIDE DEF h
      <4> QED BY <3>1, <3>3, <4>2
    <3> QED BY <3>2, <3>3
  <2> HIDE DEF h, Value
  <2> QED BY <2>2, <2>4, <2>5
<1>5. Good(U)
  <2> HIDE DEF Good
  <2>1. ASSUME B # {} PROVE FALSE
    <3>1. PICK T \in B : \A x \in T : T \ {x} \notin B
      BY <2>1, MinimalSubset
    <3> QED BY <1>3, <1>4, <3>1
  <2> QED BY <2>1
<1>6. PICK g \in [SUBSET U -> Int] :
        \A s \in SUBSET U : Cardinality(s) <= Cardinality(U) => g[s] = Value(g, s)
  BY <1>5
<1>7. \A s \in SUBSET U : g[s] = Value(g, s)
  <2> HIDE DEF Value
  <2> QED BY <1>6, FS_Subset
<1>8. g = [s \in SUBSET U |-> Value(g, s)]
  <2> HIDE DEF Value
  <2> QED BY <1>6, <1>7
<1> QED BY <1>8 DEF IsSum

LEMMA SumIsUnique ==
  ASSUME NEW U, IsFiniteSet(U), NEW f, NEW V \in SUBSET U,
         NEW g, IsSum(g, f, U), NEW h, IsSum(h, f, V)
  PROVE  \A s \in SUBSET V : g[s] = h[s]
<1> DEFINE B == {s \in SUBSET V : g[s] # h[s]}
<1>1. IsFiniteSet(V)
  BY FS_Subset
<1>2. ASSUME NEW T \in B, \A x \in T : T \ {x} \notin B PROVE FALSE
  <2>1. T \in SUBSET U /\ T \in SUBSET V
    OBVIOUS
  <2>2. /\ g[T] = IF T = {} THEN 0 ELSE f[Chosen(T)] + g[T \ {Chosen(T)}]
        /\ h[T] = IF T = {} THEN 0 ELSE f[Chosen(T)] + h[T \ {Chosen(T)}]
    BY <2>1 DEF IsSum
  <2>3. CASE T = {}
    BY <2>2, <2>3
  <2>4. CASE T # {}
    <3>1. g[T \ {Chosen(T)}] = h[T \ {Chosen(T)}]
      BY <1>2, <2>4, ChosenIsIn
    <3> QED BY <2>2, <3>1
  <2> QED BY <2>3, <2>4
<1> HIDE DEF B
<1>3. B \in SUBSET SUBSET V
  BY DEF B
<1>4. B = {}
  BY <1>1, <1>2, <1>3, MinimalSubset
<1> QED BY <1>4 DEF B

\* One function gives the sums over all subsets, and any element may be taken
\* out of a sum first.
LEMMA Sums ==
  ASSUME NEW U, IsFiniteSet(U), NEW f, \A x \in U : f[x] \in Int
  PROVE  /\ SumOver(f, {}) = 0
         /\ \A S \in SUBSET U :
              /\ SumOver(f, S) \in Int
              /\ \A x \in S : SumOver(f, S) = f[x] + SumOver(f, S \ {x})
<1>1. PICK g : IsSum(g, f, U)
  BY SumExists
<1>2. ASSUME NEW S \in SUBSET U PROVE SumOver(f, S) = g[S]
  <2> DEFINE h == CHOOSE h : IsSum(h, f, S)
  <2>1. IsFiniteSet(S) /\ \A x \in S : f[x] \in Int
    BY FS_Subset
  <2>2. IsSum(h, f, S)
    BY <2>1, SumExists
  <2>3. SumOver(f, S) = h[S]
    BY Zenon DEF SumOver, MapThenSumSet, MapThenFoldSet, IsSum, Chosen
  <2> HIDE DEF h
  <2> QED BY <1>1, <2>2, <2>3, SumIsUnique
<1>3. \A s \in SUBSET U : g[s] = IF s = {} THEN 0 ELSE f[Chosen(s)] + g[s \ {Chosen(s)}]
  BY <1>1 DEF IsSum
<1>4. \A s \in SUBSET U : g[s] \in Int
  <2> DEFINE B == {s \in SUBSET U : g[s] \notin Int}
  <2>1. ASSUME NEW T \in B, \A x \in T : T \ {x} \notin B PROVE FALSE
    <3>1. CASE T = {}
      <4>1. g[T] = 0
        BY <1>3, <3>1
      <4> QED BY <4>1
    <3>2. CASE T # {}
      <4>1. Chosen(T) \in T /\ g[T \ {Chosen(T)}] \in Int
        BY <2>1, <3>2, ChosenIsIn
      <4>2. g[T] = f[Chosen(T)] + g[T \ {Chosen(T)}]
        BY <1>3, <3>2
      <4>3. f[Chosen(T)] \in Int
        BY <4>1
      <4> QED BY <4>1, <4>2, <4>3
    <3> QED BY <3>1, <3>2
  <2> HIDE DEF B
  <2>2. B \in SUBSET SUBSET U
    BY DEF B
  <2>3. B = {}
    BY <2>1, <2>2, MinimalSubset
  <2> QED BY <2>3 DEF B
<1>5. \A s \in SUBSET U : \A x \in s : g[s] = f[x] + g[s \ {x}]
  <2> DEFINE Apart(s) == \A x \in s : g[s] = f[x] + g[s \ {x}]
             B == {s \in SUBSET U : ~Apart(s)}
  <2>1. ASSUME NEW T \in B, \A x \in T : T \ {x} \notin B PROVE FALSE
    <3> DEFINE y == Chosen(T)
    <3>1. ASSUME NEW x \in T PROVE g[T] = f[x] + g[T \ {x}]
      <4>1. y \in T /\ g[T] = f[y] + g[T \ {y}]
        BY <1>3, ChosenIsIn
      <4> HIDE DEF y
      <4>2. CASE x = y
        BY <4>1, <4>2
      <4>3. CASE x # y
        <5>1. T \ {x} \in SUBSET U /\ T \ {y} \in SUBSET U /\ Apart(T \ {x}) /\ Apart(T \ {y})
          BY <2>1, <4>1
        <5> DEFINE R == (T \ {x}) \ {y}
        <5>2. g[T \ {y}] = f[x] + g[(T \ {y}) \ {x}] /\ (T \ {y}) \ {x} = R
          BY <4>3, <5>1
        <5>3. g[T \ {x}] = f[y] + g[R]
          BY <4>1, <4>3, <5>1
        <5>4. R \in SUBSET U /\ f[x] \in Int /\ f[y] \in Int
          BY <4>1
        <5>5. g[R] \in Int
          BY <1>4, <5>4
        <5>6. \A a, b, r \in Int : b + (a + r) = a + (b + r)
          OBVIOUS
        <5>7. g[T] = f[y] + (f[x] + g[R])
          BY <4>1, <5>2
        <5>8. f[y] + (f[x] + g[R]) = f[x] + (f[y] + g[R])
          <6> HIDE DEF R
          <6> QED BY <5>4, <5>5, <5>6
        <5> QED BY <5>3, <5>7, <5>8, Zenon
      <4> QED BY <4>2, <4>3
    <3> QED BY <3>1
  <2> HIDE DEF B
  <2>2. B \in SUBSET SUBSET U
    BY DEF B
  <2>3. B = {}
    <3> HIDE DEF Apart
    <3> QED BY <2>1, <2>2, MinimalSubset
  <2> QED BY <2>3 DEF B
<1>6. \A s \in SUBSET U : \A x \in s : s \ {x} \in SUBSET U
  OBVIOUS
<1>7. SumOver(f, {}) = 0
  BY <1>2, <1>3
<1> QED BY <1>2, <1>4, <1>5, <1>6, <1>7

\* Sums of amounts are amounts, and the sum over two disjoint sets is what the
\* two sums give together.
LEMMA SumOfAmounts ==
  ASSUME NEW U, IsFiniteSet(U), NEW f, \A x \in U : f[x] \in Nat
  PROVE  \A S \in SUBSET U : SumOver(f, S) \in Nat
<1> DEFINE B == {S \in SUBSET U : SumOver(f, S) \notin Nat}
<1>1. \A x \in U : f[x] \in Int
  OBVIOUS
<1>2. ASSUME NEW T \in B, \A x \in T : T \ {x} \notin B PROVE FALSE
  <2>1. CASE T = {}
    BY <1>1, <2>1, Sums
  <2>2. CASE T # {}
    <3>1. PICK x \in T : TRUE
      BY <2>2
    <3>2. SumOver(f, T) = f[x] + SumOver(f, T \ {x})
      BY <1>1, Sums
    <3>3. f[x] \in Nat /\ SumOver(f, T \ {x}) \in Nat
      BY <1>2, <3>1
    <3> QED BY <3>2, <3>3
  <2> QED BY <2>1, <2>2
<1> HIDE DEF B
<1>3. B \in SUBSET SUBSET U
  BY DEF B
<1>4. B = {}
  BY <1>2, <1>3, MinimalSubset
<1> QED BY <1>4 DEF B

LEMMA SumOfDisjoint ==
  ASSUME NEW U, IsFiniteSet(U), NEW f, \A x \in U : f[x] \in Int,
         NEW A \in SUBSET U
  PROVE  \A S \in SUBSET U : A \cap S = {} => SumOver(f, A \cup S) = SumOver(f, A) + SumOver(f, S)
<1> DEFINE Adds(S) == A \cap S = {} => SumOver(f, A \cup S) = SumOver(f, A) + SumOver(f, S)
           B == {S \in SUBSET U : ~Adds(S)}
<1>1. \A S \in SUBSET U : SumOver(f, S) \in Int
  BY Sums
<1>2. ASSUME NEW T \in B, \A x \in T : T \ {x} \notin B PROVE FALSE
  <2>0. T \in SUBSET U /\ A \cap T = {}
    OBVIOUS
  <2>1. CASE T = {}
    <3>1. SumOver(f, T) = 0 /\ A \cup T = A
      BY <2>1, Sums
    <3>2. SumOver(f, A) \in Int
      BY <1>1
    <3>3. SumOver(f, A) = SumOver(f, A) + SumOver(f, T)
      BY <3>1, <3>2
    <3>4. SumOver(f, A \cup T) = SumOver(f, A) + SumOver(f, T)
      BY <3>1, <3>3, Zenon
    <3> QED BY <3>4
  <2>2. CASE T # {}
    <3>1. PICK x \in T : TRUE
      BY <2>2
    <3> DEFINE R == T \ {x}
    <3>2. R \in SUBSET U /\ A \cup R \in SUBSET U /\ A \cup T \in SUBSET U
      BY <2>0
    <3>3. SumOver(f, A \cup R) = SumOver(f, A) + SumOver(f, R)
      BY <1>2, <2>0, <3>1
    <3>4. SumOver(f, T) = f[x] + SumOver(f, R)
      BY <2>0, <3>1, Sums
    <3>5. (A \cup T) \ {x} = A \cup R
      BY <2>0, <3>1
    <3>6. SumOver(f, A \cup T) = f[x] + SumOver(f, A \cup R)
      BY <3>1, <3>2, <3>5, Sums
    <3>7. f[x] \in Int /\ SumOver(f, A) \in Int /\ SumOver(f, R) \in Int
      BY <1>1, <2>0, <3>1, <3>2
    <3>8. \A a, b, c \in Int : a + (b + c) = b + (a + c)
      OBVIOUS
    <3> HIDE DEF R
    <3>9. SumOver(f, A \cup T) = SumOver(f, A) + SumOver(f, T)
      BY <3>3, <3>4, <3>6, <3>7, <3>8
    <3> QED BY <3>9
  <2> QED BY <2>1, <2>2
<1> HIDE DEF B
<1>3. B \in SUBSET SUBSET U
  BY DEF B
<1>4. B = {}
  BY <1>2, <1>3, MinimalSubset
<1> QED BY <1>4 DEF B

LEMMA SumGrows ==
  ASSUME NEW U, IsFiniteSet(U), NEW f, \A x \in U : f[x] \in Nat,
         NEW S \in SUBSET U, NEW T \in SUBSET S
  PROVE  SumOver(f, T) <= SumOver(f, S)
<1>1. SumOver(f, T) \in Nat /\ SumOver(f, S \ T) \in Nat
  BY SumOfAmounts
<1>2. S = T \cup (S \ T) /\ T \cap (S \ T) = {} /\ T \in SUBSET U /\ S \ T \in SUBSET U
  OBVIOUS
<1>3. \A x \in U : f[x] \in Int
  OBVIOUS
<1>4. SumOver(f, S) = SumOver(f, T) + SumOver(f, S \ T)
  BY <1>2, <1>3, SumOfDisjoint
<1> QED BY <1>1, <1>4
-----------------------------------------------------------------------------
(* Shares *)

OwnOf(b, x) == Counted(x, b.sessions, b.learners)
OwnOfAll(b, T) == UNION {OwnOf(b, x) : x \in T}
TotalOf(b) == Score(OwnOfAll(b, Creators))

\* The sessions of two creators have nothing in common.
LEMMA OwnSessions ==
  ASSUME NEW b \in Basis, NEW T \in SUBSET Creators
  PROVE  /\ OwnOfAll(b, T) \in SUBSET Sessions
         /\ \A x \in T : /\ OwnOf(b, x) \in SUBSET Sessions
                         /\ OwnOfAll(b, T) = OwnOf(b, x) \cup OwnOfAll(b, T \ {x})
                         /\ OwnOf(b, x) \cap OwnOfAll(b, T \ {x}) = {}
<1>1. \A x \in T : OwnOf(b, x) \in SUBSET {s \in Sessions : CreatorOf[s] = x}
  BY DEF Basis, OwnOf, Counted
<1> QED BY <1>1 DEF OwnOfAll

LEMMA Scores ==
  /\ \A S \in SUBSET Sessions : Score(S) \in Nat
  /\ \A S \in SUBSET Sessions : \A T \in SUBSET S : Score(T) <= Score(S)
  /\ \A A, S \in SUBSET Sessions : A \cap S = {} => Score(A \cup S) = Score(A) + Score(S)
  /\ Score({}) = 0
<1>1. \A S : Score(S) = SumOver(ScoreOf, S)
  BY DEF Score, SumOver
<1>2. \A s \in Sessions : ScoreOf[s] \in Nat /\ ScoreOf[s] \in Int
  BY RowsAssumption
<1>3. IsFiniteSet(Sessions)
  BY FiniteAssumption
<1>4. \A S \in SUBSET Sessions : SumOver(ScoreOf, S) \in Nat
  BY <1>2, <1>3, SumOfAmounts
<1>5. ASSUME NEW S \in SUBSET Sessions, NEW T \in SUBSET S PROVE SumOver(ScoreOf, T) <= SumOver(ScoreOf, S)
  BY <1>2, <1>3, SumGrows
<1>6. ASSUME NEW A \in SUBSET Sessions, NEW S \in SUBSET Sessions, A \cap S = {}
      PROVE  SumOver(ScoreOf, A \cup S) = SumOver(ScoreOf, A) + SumOver(ScoreOf, S)
  BY <1>2, <1>3, <1>6, SumOfDisjoint
<1>7. SumOver(ScoreOf, {}) = 0
  BY <1>2, <1>3, Sums
<1> QED BY <1>1, <1>4, <1>5, <1>6, <1>7

\* A share is rounded to the nearest amount.
LEMMA ShareIsRounded ==
  ASSUME NEW creatorPool \in Nat, NEW score \in Nat, NEW total \in Nat, total > 0
  PROVE  /\ Share(creatorPool, score, total) \in Int
         /\ 2 * total * Share(creatorPool, score, total) <= 2 * creatorPool * score + total
<1>1. PICK n \in Int : n = 2 * creatorPool * score + total
  OBVIOUS
<1>2. PICK d \in Int : d = 2 * total /\ d > 0
  OBVIOUS
<1>3. n \div d \in Int /\ d * (n \div d) <= n
  BY <1>2
<1>4. Share(creatorPool, score, total) = n \div d
  BY <1>1, <1>2 DEF Share
<1> QED BY <1>1, <1>2, <1>3, <1>4

LEMMA CappedShare ==
  ASSUME NEW a \in Int, NEW b \in Int
  PROVE  Min({a, b}) \in Int /\ Min({a, b}) <= a
<1>1. CASE a <= b
  <2>1. \E x \in {a, b} : \A y \in {a, b} : x <= y
    BY <1>1
  <2> QED BY <2>1 DEF Min
<1>2. CASE ~(a <= b)
  <2>1. \E x \in {a, b} : \A y \in {a, b} : x <= y
    BY <1>2
  <2> QED BY <2>1 DEF Min
<1> QED BY <1>1, <1>2

LEMMA AmountOfCreator ==
  ASSUME NEW b \in Basis, NEW x \in Creators
  PROVE  /\ Allocation(b)[x] \in Nat
         /\ Allocation(b)[x] > 0 =>
              /\ b.creator \in Nat /\ TotalOf(b) \in Nat /\ TotalOf(b) > 0
              /\ 2 * TotalOf(b) * Allocation(b)[x]
                   <= 2 * b.creator * Score(OwnOf(b, x)) + TotalOf(b)
<1> DEFINE share == Share(b.creator, Score(OwnOf(b, x)), TotalOf(b))
           amount == IF TotalOf(b) <= 0 \/ b.creator <= 0 THEN 0 ELSE Min({share, b.cap})
<1>1. Allocation(b)[x] = IF amount > 0 THEN amount ELSE 0
  BY Zenon DEF Allocation, OwnOf, OwnOfAll, TotalOf
<1>2. TotalOf(b) \in Nat /\ Score(OwnOf(b, x)) \in Nat
  BY OwnSessions, Scores DEF TotalOf
<1>3. b.creator \in Int /\ b.cap \in Int
  BY DEF Basis
<1>4. CASE TotalOf(b) <= 0 \/ b.creator <= 0
  <2>1. Allocation(b)[x] = 0
    BY <1>1, <1>4
  <2> QED BY <2>1
<1>5. CASE ~(TotalOf(b) <= 0 \/ b.creator <= 0)
  <2>1. b.creator \in Nat /\ TotalOf(b) > 0
    BY <1>2, <1>3, <1>5
  <2>2. share \in Int /\ 2 * TotalOf(b) * share <= 2 * b.creator * Score(OwnOf(b, x)) + TotalOf(b)
    BY <1>2, <2>1, ShareIsRounded
  <2> HIDE DEF share
  <2>3. amount \in Int /\ amount <= share
    BY <1>3, <1>5, <2>2, CappedShare
  <2> HIDE DEF amount
  <2>4. Allocation(b)[x] \in Nat /\ (Allocation(b)[x] > 0 => Allocation(b)[x] = amount)
    BY <1>1, <2>3
  <2>5. 2 * TotalOf(b) * amount <= 2 * TotalOf(b) * share
    BY <1>2, <2>2, <2>3
  <2>6. 2 * TotalOf(b) * amount <= 2 * b.creator * Score(OwnOf(b, x)) + TotalOf(b)
    <3>1. \A p, q, r \in Int : p <= q /\ q <= r => p <= r
      OBVIOUS
    <3>2. /\ 2 * TotalOf(b) * amount \in Int
          /\ 2 * TotalOf(b) * share \in Int
          /\ 2 * b.creator * Score(OwnOf(b, x)) + TotalOf(b) \in Int
      BY <1>2, <1>3, <2>2, <2>3
    <3> QED BY <2>2, <2>5, <3>1, <3>2
  <2> QED BY <1>2, <2>1, <2>4, <2>6
<1> QED BY <1>4, <1>5

LEMMA AllocationType ==
  ASSUME NEW b \in Basis
  PROVE  Allocation(b) \in [Creators -> Nat]
<1>1. Allocation(b) = [x \in Creators |-> Allocation(b)[x]]
  BY Zenon DEF Allocation
<1> QED BY <1>1, AmountOfCreator

\* Rounding can add half an amount for each creator who is paid, never more.
LEMMA SharesAddUp ==
  ASSUME NEW b \in Basis, b.creator \in Nat
  PROVE  \A T \in SUBSET Creators :
           (\A x \in T : Allocation(b)[x] > 0) =>
             2 * TotalOf(b) * SumOver(Allocation(b), T)
               <= 2 * b.creator * Score(OwnOfAll(b, T)) + TotalOf(b) * Cardinality(T)
<1> DEFINE e == Allocation(b)
           D == TotalOf(b)
           P == b.creator
           Holds(T) == (\A x \in T : e[x] > 0) =>
             2 * D * SumOver(e, T) <= 2 * P * Score(OwnOfAll(b, T)) + D * Cardinality(T)
           B == {T \in SUBSET Creators : ~Holds(T)}
<1>1. IsFiniteSet(Creators) /\ e \in [Creators -> Nat]
  BY FiniteAssumption, AllocationType
<1>2. D \in Nat /\ P \in Nat
  BY OwnSessions, Scores DEF TotalOf
<1>3. \A T \in SUBSET Creators :
        /\ SumOver(e, T) \in Nat
        /\ Score(OwnOfAll(b, T)) \in Nat
        /\ IsFiniteSet(T) /\ Cardinality(T) \in Nat
  <2>1. \A x \in Creators : e[x] \in Nat
    BY <1>1
  <2> HIDE DEF e
  <2>2. \A T \in SUBSET Creators : SumOver(e, T) \in Nat
    BY <1>1, <2>1, SumOfAmounts
  <2> QED BY <1>1, <2>2, OwnSessions, Scores, FS_Subset, FS_CardinalityType
<1>4. \A x \in Creators : e[x] > 0 => 2 * D * e[x] <= 2 * P * Score(OwnOf(b, x)) + D
  BY AmountOfCreator
<1>5. \A d, p, n, m, s, t, k \in Nat :
        2 * d * n <= 2 * p * s + d /\ 2 * d * m <= 2 * p * t + d * k
          => 2 * d * (n + m) <= 2 * p * (s + t) + d * (k + 1)
  <2> TAKE d, p, n, m, s, t, k \in Nat
  <2> HAVE 2 * d * n <= 2 * p * s + d /\ 2 * d * m <= 2 * p * t + d * k
  <2>1. 2 * d * (n + m) = 2 * d * n + 2 * d * m
    OBVIOUS
  <2>2. 2 * p * (s + t) + d * (k + 1) = (2 * p * s + d) + (2 * p * t + d * k)
    OBVIOUS
  <2> QED BY <2>1, <2>2
<1>6. ASSUME NEW T \in B, \A x \in T : T \ {x} \notin B PROVE FALSE
  <2> HIDE DEF e, D, P
  <2>0. T \in SUBSET Creators /\ \A x \in T : e[x] > 0
    OBVIOUS
  <2>1. CASE T = {}
    <3>1. SumOver(e, T) = 0
      <4>1. \A x \in Creators : e[x] \in Int
        BY <1>1
      <4> QED BY <1>1, <2>1, <4>1, Sums
    <3>2. OwnOfAll(b, T) = {} /\ Cardinality(T) = 0
      BY <2>1, FS_EmptySet DEF OwnOfAll
    <3>3. 2 * D * 0 <= 2 * P * 0 + D * 0
      BY <1>2
    <3>4. 2 * D * SumOver(e, T) <= 2 * P * Score(OwnOfAll(b, T)) + D * Cardinality(T)
      BY <3>1, <3>2, <3>3, Scores, Zenon
    <3> QED BY <3>4
  <2>2. CASE T # {}
    <3>1. PICK x \in T : TRUE
      BY <2>2
    <3> DEFINE R == T \ {x}
    <3>2. R \in SUBSET Creators /\ x \in Creators
      BY <2>0
    <3>3. 2 * D * SumOver(e, R) <= 2 * P * Score(OwnOfAll(b, R)) + D * Cardinality(R)
      BY <1>6, <2>0, <3>1, <3>2
    <3>4. 2 * D * e[x] <= 2 * P * Score(OwnOf(b, x)) + D
      BY <1>4, <2>0, <3>1
    <3>5. SumOver(e, T) = e[x] + SumOver(e, R)
      <4>1. \A y \in Creators : e[y] \in Int
        BY <1>1
      <4> QED BY <1>1, <2>0, <3>1, <4>1, Sums
    <3>6. Score(OwnOfAll(b, T)) = Score(OwnOf(b, x)) + Score(OwnOfAll(b, R))
      <4>1. OwnOfAll(b, R) \in SUBSET Sessions
        BY <3>2, OwnSessions
      <4>2. /\ OwnOf(b, x) \in SUBSET Sessions
            /\ OwnOfAll(b, T) = OwnOf(b, x) \cup OwnOfAll(b, R)
            /\ OwnOf(b, x) \cap OwnOfAll(b, R) = {}
        BY <2>0, <3>1, OwnSessions
      <4> HIDE DEF R
      <4> QED BY <4>1, <4>2, Scores
    <3>7. Cardinality(T) = Cardinality(R) + 1
      BY <1>3, <2>0, <3>1, FS_RemoveElement
    <3>8. e[x] \in Nat /\ Score(OwnOf(b, x)) \in Nat
      BY <1>1, <2>0, <3>1, OwnSessions, Scores
    <3>9. SumOver(e, R) \in Nat /\ Score(OwnOfAll(b, R)) \in Nat /\ Cardinality(R) \in Nat
      BY <1>3, <3>2
    <3> HIDE DEF R
    <3>10. 2 * D * (e[x] + SumOver(e, R))
             <= 2 * P * (Score(OwnOf(b, x)) + Score(OwnOfAll(b, R))) + D * (Cardinality(R) + 1)
      BY <1>2, <1>5, <3>3, <3>4, <3>8, <3>9
    <3>11. 2 * D * SumOver(e, T) <= 2 * P * Score(OwnOfAll(b, T)) + D * Cardinality(T)
      BY <3>5, <3>6, <3>7, <3>10, Zenon
    <3> QED BY <3>11
  <2> QED BY <2>1, <2>2
<1> HIDE DEF B
<1>7. B \in SUBSET SUBSET Creators
  BY DEF B
<1>8. B = {}
  BY <1>1, <1>6, <1>7, MinimalSubset
<1> QED BY <1>8 DEF B

\* All that is paid out together.
LEMMA PaidWithinPool ==
  ASSUME NEW b \in Basis, NEW paid \in SUBSET Creators, paid # {},
         \A x \in paid : Allocation(b)[x] > 0
  PROVE  2 * SumOver(Allocation(b), paid) <= 2 * b.creator + Cardinality(paid)
<1> DEFINE n == SumOver(Allocation(b), paid)
           D == TotalOf(b)
           s == Score(OwnOfAll(b, paid))
           k == Cardinality(paid)
<1>1. b.creator \in Nat /\ D \in Nat /\ D > 0
  <2>1. PICK x \in paid : TRUE
    OBVIOUS
  <2> QED BY <2>1, AmountOfCreator
<1>2. 2 * D * n <= 2 * b.creator * s + D * k
  BY <1>1, SharesAddUp
<1>3. s \in Nat /\ s <= D
  <2>1. OwnOfAll(b, Creators) \in SUBSET Sessions /\ OwnOfAll(b, paid) \in SUBSET OwnOfAll(b, Creators)
    BY OwnSessions DEF OwnOfAll
  <2> QED BY <2>1, Scores DEF TotalOf
<1>4. n \in Nat
  BY AllocationType, FiniteAssumption, SumOfAmounts
<1>5. k \in Nat
  BY FiniteAssumption, FS_Subset, FS_CardinalityType
<1> HIDE DEF n, D, s, k
<1>6. PICK p \in Nat : p = b.creator
  BY <1>1
<1>7. p * s <= p * D
  BY <1>1, <1>3, <1>6
<1>8. D * (2 * n) <= D * (2 * p + k)
  <2>1. D * (2 * n) = 2 * D * n /\ D * (2 * p + k) = 2 * (p * D) + D * k /\ 2 * p * s = 2 * (p * s)
    BY <1>1, <1>3, <1>4, <1>5
  <2>2. PICK u \in Int, v \in Int, w \in Int, z \in Int :
          u = 2 * D * n /\ v = p * s /\ w = p * D /\ z = D * k
    BY <1>1, <1>3, <1>4, <1>5
  <2>3. u <= 2 * v + z /\ v <= w
    BY <1>2, <1>6, <1>7, <2>1, <2>2
  <2>4. u <= 2 * w + z
    BY <2>3
  <2> QED BY <2>1, <2>2, <2>4
<1>9. 2 * n <= 2 * p + k
  <2>1. \A c, x, y \in Int : c > 0 /\ c * x <= c * y => x <= y
    OBVIOUS
  <2> QED BY <1>1, <1>4, <1>5, <1>8, <2>1
<1> QED BY <1>6, <1>9 DEF n, k
-----------------------------------------------------------------------------
(* The invariant *)

\* What was or will be sent is a pool that is divided like the others.
SentInv ==
  /\ \A c \in Calculations : Divided(job[c].final)
  /\ \A m \in late : Divided(m.pool)

\* A calculation that is alone really is.
AloneInv ==
  \A c \in alone : at[c] # "idle" /\ \A d \in Calculations : d # c => at[d] = "idle"

\* What a calculation that is alone has done so far is still there.
ProgressInv ==
  \A c \in alone :
    /\ at[c] \in {"delete", "insert", "finalize"} => pool.status = "draft"
    /\ at[c] \in {"delete", "insert", "finalize", "sync"} => pool.creator = job[c].creator
    /\ at[c] = "insert" => earnings = NoEarnings
    /\ at[c] \in {"finalize", "sync"} =>
         /\ basis.creator = job[c].creator
         /\ earnings = Allocation(basis)
         /\ job[c].inserted = earnings
    /\ at[c] = "sync" => job[c].final = pool

\* Nobody is in the middle of changing a month that is finalized and clean.
SettledInv ==
  clean /\ pool.status = "finalized" =>
    \A d \in Calculations : at[d] \notin {"delete", "insert", "finalize"}

Inv == TypeOK /\ SentInv /\ AloneInv /\ ProgressInv /\ SettledInv /\ FinalPoolIsItsOwn

\* A part of an amount is no more than the amount.
LEMMA PartBounds ==
  ASSUME NEW amount \in Int, NEW percent \in 0..100
  PROVE  /\ Part(amount, percent) \in Int
         /\ amount >= 0 => Part(amount, percent) \in 0..amount
<1>1. PICK n \in Int : n = amount * percent
  OBVIOUS
<1>2. Part(amount, percent) \in Int
  <2>1. amount * percent \in Int /\ (-amount) * percent \in Int
    OBVIOUS
  <2>2. \A k \in Int : k \div 100 \in Int
    OBVIOUS
  <2> QED
    BY <2>1, <2>2 DEF Part
<1>3. ASSUME amount >= 0  PROVE 0 <= n /\ n <= amount * 100
  <2>1. percent >= 0 /\ 100 - percent >= 0
    OBVIOUS
  <2>2. amount * percent >= 0
    BY <1>3, <2>1
  <2>3. amount * (100 - percent) >= 0
    BY <1>3, <2>1
  <2> QED
    BY <1>1, <2>2, <2>3
<1>4. ASSUME amount >= 0  PROVE n \div 100 \in 0..amount
  BY <1>1, <1>3, <1>4
<1> QED
  BY <1>1, <1>2, <1>4 DEF Part

\* An allocation has an amount or 0 for every creator.
LEMMA AllocationShape ==
  ASSUME NEW b
  PROVE  Allocation(b) = [x \in Creators |-> IF Allocation(b)[x] > 0 THEN Allocation(b)[x] ELSE 0]
<1> DEFINE counted(x) == Counted(x, b.sessions, b.learners)
           total == Score(UNION {counted(x) : x \in Creators})
           amount(x) ==
             IF total <= 0 \/ b.creator <= 0 THEN 0
             ELSE Min({Share(b.creator, Score(counted(x)), total), b.cap})
<1>1. Allocation(b) = [x \in Creators |-> IF amount(x) > 0 THEN amount(x) ELSE 0]
  BY Zenon DEF Allocation
<1> HIDE DEF amount
<1>2. ASSUME NEW x \in Creators
      PROVE  Allocation(b)[x] = IF Allocation(b)[x] > 0 THEN Allocation(b)[x] ELSE 0
  <2>1. Allocation(b)[x] = IF amount(x) > 0 THEN amount(x) ELSE 0
    BY <1>1
  <2> QED
    BY <2>1
<1> QED
  BY <1>1, <1>2
LEMMA NothingYet == NoJob \in Job /\ NoPool \in Pool /\ NoEarnings \in [Creators -> Nat] /\ NoBasis \in Basis
<1>1. NoEarnings \in [Creators -> Nat] /\ NoPool \in Pool /\ NoBasis \in Basis
  BY RowsAssumption DEF NoPool, Pool, PoolStatus, NoBasis, Basis
<1> QED
  BY <1>1 DEF NoJob, Job

LEMMA InitInv == Init => Inv
<1> SUFFICES ASSUME Init PROVE Inv
  OBVIOUS
<1>1. TypeOK
  <2>1. Divided(NoPool) /\ Divided(NoJob)
    BY DEF Divided, NoPool, NoJob
  <2>2. billing \in Message /\ billing.pool = NoPool
    BY NothingYet DEF Init, Message
  <2> QED
    BY NothingYet, RowsAssumption, <2>1, <2>2 DEF Init, TypeOK
<1>2. alone = {} /\ clean = FALSE
  BY DEF Init
<1>3. SentInv
  BY DEF Init, SentInv, Divided, NoJob, NoPool
<1> QED
  BY <1>1, <1>2, <1>3 DEF Inv, AloneInv, ProgressInv, SettledInv, FinalPoolIsItsOwn

\* What every step that ends a calculation does.
LEMMA Returns ==
  ASSUME TypeOK, AloneInv, NEW c \in Calculations, Return(c)
  PROVE  /\ at' \in [Calculations -> {"idle", "upsert", "delete", "insert", "finalize", "sync"}]
         /\ job' \in [Calculations -> Job]
         /\ \A d \in Calculations : Divided(job'[d])
         /\ alone' = alone \ {c}
         /\ at'[c] = "idle"
         /\ \A d \in Calculations \ {c} : at'[d] = at[d] /\ job'[d] = job[d]
<1>1. Divided(NoJob)
  BY DEF Divided, NoJob
<1>2. job' \in [Calculations -> Job] /\ \A d \in Calculations : job'[d] = IF d = c THEN NoJob ELSE job[d]
  BY NothingYet DEF Return, TypeOK
<1>3. \A d \in Calculations : Divided(job'[d])
  BY <1>1, <1>2 DEF TypeOK
<1> QED
  BY <1>2, <1>3 DEF Return, TypeOK

LEMMA TypeStep ==
  ASSUME TypeOK, SentInv, AloneInv, Next
  PROVE  TypeOK' /\ SentInv'
<1> DEFINE Jobs == /\ job' \in [Calculations -> Job]
                   /\ \A d \in Calculations : Divided(job'[d]) /\ Divided(job'[d].final)
           Control == at' \in [Calculations -> {"idle", "upsert", "delete", "insert", "finalize", "sync"}]
           Tables == recorded' \subseteq Sessions /\ earnings' \in [Creators -> Nat] /\ basis' \in Basis
           Flags == alone' \subseteq Calculations /\ clean' \in BOOLEAN /\ synced' \in BOOLEAN
           Pools == pool' \in Pool /\ Divided(pool')
           Billing == billing' \in Message /\ Divided(billing'.pool)
           Sent == late' \subseteq Message /\ \A m \in late' : Divided(m.pool)
<1>0. ASSUME Jobs, Control, Tables, Flags, Pools, Billing, Sent PROVE TypeOK' /\ SentInv'
  BY <1>0 DEF TypeOK, SentInv, Divided
<1>1. /\ job' = job => Jobs
      /\ at' = at => Control
      /\ UNCHANGED <<recorded, earnings, basis>> => Tables
      /\ alone' \subseteq Calculations /\ clean' = clean /\ synced' \in BOOLEAN => Flags
      /\ pool' = pool => Pools
      /\ billing' = billing => Billing
      /\ late' = late => Sent
  BY DEF TypeOK, SentInv
<1>2. ASSUME NEW c \in Calculations, NEW where \in {"upsert", "delete", "insert", "finalize", "sync"},
             Goto(c, where)
      PROVE  Control
  BY <1>2 DEF TypeOK, Goto
<1>3. ASSUME NEW c \in Calculations, NEW j \in Job, Divided(j), Divided(j.final),
             job' = [job EXCEPT ![c] = j]
      PROVE  Jobs
  <2>1. job' \in [Calculations -> Job] /\ \A d \in Calculations : job'[d] = IF d = c THEN j ELSE job[d]
    BY <1>3 DEF TypeOK
  <2> QED
    BY <1>3, <2>1 DEF TypeOK, SentInv
<1>4. ASSUME NEW c \in Calculations, Return(c)
      PROVE  Jobs /\ Control /\ alone' \subseteq Calculations
  <2>1. Divided(NoJob) /\ Divided(NoJob.final)
    BY DEF NoJob, NoPool, Divided
  <2>2. Jobs
    BY <1>3, <1>4, <2>1, NothingYet DEF Return
  <2> QED
    BY <1>4, <2>2 DEF Return, TypeOK
<1>5. synced \in BOOLEAN /\ alone \subseteq Calculations
  BY DEF TypeOK
<1>6. \A c \in Calculations : MessageOf(c) \in Message /\ Divided(MessageOf(c).pool)
  BY DEF TypeOK, SentInv, MessageOf, Message, Job
<1> HIDE DEF Jobs, Control, Tables, Flags, Pools, Billing, Sent
<1>7. CASE \E s \in Sessions : RecordSession(s)
  <2>1. Tables
    BY <1>7 DEF RecordSession, TypeOK, Tables
  <2> QED
    BY <1>0, <1>1, <1>5, <1>7, <2>1 DEF RecordSession
<1>8. ASSUME NEW c \in Calculations, NEW r \in Requests, NEW answer \in Revenues \cup {r.gross},
             Begin(c, r, answer)
      PROVE  TypeOK' /\ SentInv'
  <2>1. r.gross \in Int /\ r.rate \in Int /\ r.cap \in Int /\ r.learners \in Int /\ answer \in Int
    BY RequestsAssumption
  <2>2. Rate(r) \in 0..100 /\ Cap(r) \in 0..100 /\ MinLearners(r) \in Nat
    BY <2>1 DEF Rate, Cap, MinLearners
  <2>3. Gross(r, answer) \in Int
    BY <2>1 DEF Gross
  <2>4. PICK gross \in Int : gross = Gross(r, answer)
    BY <2>3
  <2>5. PICK creatorPool \in Int : creatorPool = Part(gross, Rate(r))
    BY <2>2, PartBounds
  <2>6. PICK cap \in Int : cap = Part(creatorPool, Cap(r))
    BY <2>2, PartBounds
  <2>7. PICK j : j = [gross |-> gross, creator |-> creatorPool, cap |-> cap,
                      learners |-> MinLearners(r), inserted |-> NoEarnings, final |-> NoPool]
    OBVIOUS
  <2>8. j \in Job
    BY <2>2, <2>7, NothingYet DEF Job
  <2>9. Divided(j)
    BY <2>2, <2>5, <2>7, PartBounds DEF Divided
  <2>10. Divided(j.final)
    BY <2>7 DEF Divided, NoPool
  <2>11. job' = [job EXCEPT ![c] = j]
    BY <1>8, <2>4, <2>5, <2>6, <2>7, Zenon DEF Begin
  <2>12. Jobs
    BY <1>3, <2>8, <2>9, <2>10, <2>11
  <2>13. Control
    BY <1>2, <1>8 DEF Begin
  <2>14. alone' \subseteq Calculations
    BY <1>8 DEF Begin
  <2> QED
    BY <1>0, <1>1, <1>5, <1>8, <2>12, <2>13, <2>14 DEF Begin
<1>9. ASSUME NEW c \in Calculations, UpsertMonthlyRevenuePool(c)
      PROVE  TypeOK' /\ SentInv'
  <2>1. Pools
    BY <1>9 DEF UpsertMonthlyRevenuePool, Pools, Pool, PoolStatus, Divided, TypeOK, Job
  <2>2. Control
    BY <1>2, <1>9 DEF UpsertMonthlyRevenuePool
  <2> QED
    BY <1>0, <1>1, <1>5, <1>9, <2>1, <2>2 DEF UpsertMonthlyRevenuePool
<1>10. ASSUME NEW c \in Calculations, DeleteCreatorEarningsForMonth(c)
       PROVE  TypeOK' /\ SentInv'
  <2>1. Tables
    BY <1>10, NothingYet DEF DeleteCreatorEarningsForMonth, Tables, TypeOK
  <2>2. Control
    BY <1>2, <1>10 DEF DeleteCreatorEarningsForMonth
  <2> QED
    BY <1>0, <1>1, <1>5, <1>10, <2>1, <2>2 DEF DeleteCreatorEarningsForMonth
<1>11. ASSUME NEW c \in Calculations, InsertCreatorEarningsForMonth(c)
       PROVE  TypeOK' /\ SentInv'
  <2>1. PICK from : from = [creator |-> job[c].creator, cap |-> job[c].cap,
                            learners |-> job[c].learners, sessions |-> recorded]
    OBVIOUS
  <2>2. from \in Basis
    BY <2>1 DEF TypeOK, Basis, Job
  <2>3. PICK rows : rows = Allocation(from)
    OBVIOUS
  <2>4. rows \in [Creators -> Nat]
    BY <2>2, <2>3, AllocationType
  <2>5. UNCHANGED <<recorded, pool, billing, late, clean, synced>>
    BY <1>11 DEF InsertCreatorEarningsForMonth
  <2>6. CASE Return(c) /\ UNCHANGED <<earnings, basis>>
    BY <1>0, <1>1, <1>4, <1>5, <2>5, <2>6
  <2>7. CASE /\ earnings' = [x \in Creators |-> IF rows[x] > 0 THEN rows[x] ELSE earnings[x]]
             /\ basis' = from
             /\ job' = [job EXCEPT ![c] = [job[c] EXCEPT !.inserted = rows]]
             /\ Goto(c, "finalize")
             /\ UNCHANGED alone
    <3>1. Tables
      BY <2>2, <2>4, <2>5, <2>7 DEF Tables, TypeOK
    <3> DEFINE j == [job[c] EXCEPT !.inserted = rows]
    <3>2. j \in Job /\ Divided(j) /\ Divided(j.final)
      BY <2>4 DEF TypeOK, SentInv, Job, Divided
    <3>3. Jobs
      BY <1>3, <2>7, <3>2
    <3>4. Control
      BY <1>2, <2>7
    <3> QED
      BY <1>0, <1>1, <1>5, <2>5, <2>7, <3>1, <3>3, <3>4
  <2> QED
    BY <1>11, <2>1, <2>3, <2>6, <2>7 DEF InsertCreatorEarningsForMonth
<1>12. ASSUME NEW c \in Calculations, FinalizeRevenuePool(c)
       PROVE  TypeOK' /\ SentInv'
  <2>1. pool' = [pool EXCEPT !.status = "finalized"]
    BY <1>12 DEF FinalizeRevenuePool
  <2>2. pool' \in Pool /\ Divided(pool')
    BY <2>1 DEF TypeOK, Pool, PoolStatus, Divided
  <2> DEFINE j == [job[c] EXCEPT !.final = pool']
  <2>3. j \in Job /\ Divided(j) /\ Divided(j.final)
    BY <2>2 DEF TypeOK, Job, Divided
  <2>4. Jobs
    BY <1>3, <1>12, <2>3 DEF FinalizeRevenuePool
  <2>5. Control
    BY <1>2, <1>12 DEF FinalizeRevenuePool
  <2>6. Flags
    <3>1. clean' = (c \in alone) /\ synced' = FALSE /\ alone' = alone
      BY <1>12, Zenon DEF FinalizeRevenuePool
    <3>2. clean' \in BOOLEAN
      <4>1. (c \in alone) \in BOOLEAN
        OBVIOUS
      <4> QED BY <3>1, <4>1, Zenon
    <3> QED BY <1>5, <3>1, <3>2 DEF Flags
  <2> QED
    BY <1>0, <1>1, <1>12, <2>2, <2>4, <2>5, <2>6 DEF FinalizeRevenuePool, Pools
<1>13. ASSUME NEW c \in Calculations, SyncRevenuePool(c)
       PROVE  TypeOK' /\ SentInv'
  <2>1. Billing
    BY <1>6, <1>13 DEF SyncRevenuePool, TakeSync, Billing
  <2>2. synced' \in BOOLEAN
    <3>1. synced' = (c \in alone)
      BY <1>13, Zenon DEF SyncRevenuePool
    <3>2. (c \in alone) \in BOOLEAN
      OBVIOUS
    <3> QED BY <3>1, <3>2, Zenon
  <2> QED
    BY <1>0, <1>1, <1>4, <1>13, <2>1, <2>2 DEF SyncRevenuePool
<1>14. ASSUME NEW c \in Calculations, SyncTimesOut(c)
       PROVE  TypeOK' /\ SentInv'
  <2>1. Sent
    BY <1>6, <1>14 DEF SyncTimesOut, Sent, TypeOK, SentInv
  <2> QED
    BY <1>0, <1>1, <1>4, <1>5, <1>14, <2>1 DEF SyncTimesOut
<1>15. ASSUME NEW c \in Calculations, CalculationDies(c)
       PROVE  TypeOK' /\ SentInv'
  BY <1>0, <1>1, <1>4, <1>5, <1>15 DEF CalculationDies
<1>16. ASSUME NEW m \in late, LateSyncArrives(m)
       PROVE  TypeOK' /\ SentInv'
  <2>1. Billing /\ Sent
    BY <1>16 DEF LateSyncArrives, TakeSync, Billing, Sent, TypeOK, SentInv
  <2> QED
    BY <1>0, <1>1, <1>5, <1>16, <2>1 DEF LateSyncArrives
<1> QED
  BY <1>7, <1>8, <1>9, <1>10, <1>11, <1>12, <1>13, <1>14, <1>15, <1>16 DEF Next

\* Begin takes an idle calculation and decides who is alone; every later step
\* of a calculation moves only itself and lets nobody become alone.
LEMMA AloneStep ==
  ASSUME TypeOK, AloneInv, Next
  PROVE  AloneInv'
<1>1. CASE UNCHANGED <<at, alone>>
  BY <1>1 DEF AloneInv
<1>2. ASSUME NEW c \in Calculations, NEW r \in Requests, NEW answer \in Revenues \cup {r.gross},
             Begin(c, r, answer)
      PROVE  AloneInv'
  BY <1>2 DEF Begin, Goto, TypeOK, AloneInv, Running
<1>3. ASSUME NEW c \in Calculations, NEW where, where # "idle", at[c] # "idle",
             Goto(c, where), alone' = alone
      PROVE  AloneInv'
  BY <1>3 DEF Goto, TypeOK, AloneInv
<1>4. ASSUME NEW c \in Calculations, Return(c)
      PROVE  AloneInv'
  BY <1>4, Returns DEF TypeOK, AloneInv
<1>5. ASSUME NEW c \in Calculations, InsertCreatorEarningsForMonth(c)
      PROVE  AloneInv'
  <2>1. Return(c) \/ (at[c] # "idle" /\ Goto(c, "finalize") /\ alone' = alone)
    BY <1>5, Zenon DEF InsertCreatorEarningsForMonth
  <2> QED
    BY <1>3, <1>4, <2>1
<1>6. ASSUME NEW c \in Calculations,
             UpsertMonthlyRevenuePool(c) \/ DeleteCreatorEarningsForMonth(c) \/ FinalizeRevenuePool(c)
      PROVE  AloneInv'
  <2>1. \E where \in {"delete", "insert", "sync"} :
          at[c] # "idle" /\ Goto(c, where) /\ alone' = alone
    BY <1>6 DEF UpsertMonthlyRevenuePool, DeleteCreatorEarningsForMonth, FinalizeRevenuePool
  <2> QED
    BY <1>3, <2>1
<1> QED
  BY <1>1, <1>2, <1>4, <1>5, <1>6
     DEF Next, RecordSession, LateSyncArrives, SyncRevenuePool, SyncTimesOut, CalculationDies

\* While a calculation is alone, the only step of another one is a Begin, which
\* ends that.
LEMMA OwnStep ==
  ASSUME TypeOK, AloneInv, NEW c \in Calculations, NEW a \in alone, at[c] # "idle"
  PROVE  a = c
  BY DEF TypeOK, AloneInv

LEMMA ProgressStep ==
  ASSUME Inv, Next
  PROVE  ProgressInv'
<1> USE DEF Inv
<1>1. CASE UNCHANGED <<pool, earnings, at, job, alone, basis>>
  BY <1>1 DEF ProgressInv
<1>2. ASSUME NEW c \in Calculations, NEW r \in Requests, NEW answer \in Revenues \cup {r.gross},
             Begin(c, r, answer)
      PROVE  ProgressInv'
  BY <1>2 DEF Begin, Goto, TypeOK, ProgressInv
<1>3. ASSUME NEW c \in Calculations, UpsertMonthlyRevenuePool(c)
      PROVE  ProgressInv'
  <2>1. ASSUME NEW a \in alone' PROVE a = c
    BY <1>3, <2>1, OwnStep DEF UpsertMonthlyRevenuePool
  <2>2. at'[c] = "delete" /\ pool'.status = "draft" /\ pool'.creator = job'[c].creator
    BY <1>3 DEF UpsertMonthlyRevenuePool, Goto, TypeOK
  <2> QED
    BY <2>1, <2>2 DEF ProgressInv
<1>4. ASSUME NEW c \in Calculations, DeleteCreatorEarningsForMonth(c)
      PROVE  ProgressInv'
  <2>1. ASSUME NEW a \in alone' PROVE a = c /\ c \in alone
    BY <1>4, <2>1, OwnStep DEF DeleteCreatorEarningsForMonth
  <2>2. at'[c] = "insert" /\ earnings' = NoEarnings /\ pool' = pool /\ job' = job
    BY <1>4 DEF DeleteCreatorEarningsForMonth, Goto, TypeOK
  <2>3. at[c] = "delete"
    BY <1>4 DEF DeleteCreatorEarningsForMonth
  <2> QED
    BY <2>1, <2>2, <2>3 DEF ProgressInv
<1>5. ASSUME NEW c \in Calculations, at[c] # "idle", Return(c)
      PROVE  ProgressInv'
  <2>1. \A a \in alone : a = c
    BY <1>5, OwnStep
  <2>2. alone' = {}
    BY <1>5, <2>1, Returns
  <2> QED
    BY <2>2 DEF ProgressInv
<1>6. ASSUME NEW c \in Calculations, InsertCreatorEarningsForMonth(c)
      PROVE  ProgressInv'
  <2>1. PICK from : from = [creator |-> job[c].creator, cap |-> job[c].cap,
                            learners |-> job[c].learners, sessions |-> recorded]
    OBVIOUS
  <2>2. PICK rows : rows = Allocation(from)
    OBVIOUS
  <2>3. rows = [x \in Creators |-> IF rows[x] > 0 THEN rows[x] ELSE 0]
    BY <2>2, AllocationShape
  <2>4. at[c] = "insert" /\ pool' = pool
    BY <1>6 DEF InsertCreatorEarningsForMonth
  <2>5. CASE Return(c)
    BY <1>5, <2>4, <2>5
  <2>6. CASE /\ earnings' = [x \in Creators |-> IF rows[x] > 0 THEN rows[x] ELSE earnings[x]]
             /\ basis' = from
             /\ job' = [job EXCEPT ![c] = [job[c] EXCEPT !.inserted = rows]]
             /\ Goto(c, "finalize")
             /\ UNCHANGED alone
    <3>1. ASSUME NEW a \in alone' PROVE a = c /\ c \in alone
      BY <2>4, <2>6, <3>1, OwnStep
    <3>2. at'[c] = "finalize"
      BY <2>6 DEF Goto, TypeOK
    <3>3. basis'.creator = job[c].creator /\ Allocation(basis') = rows
      BY <2>1, <2>2, <2>6
    <3>4. job'[c].creator = job[c].creator /\ job'[c].inserted = rows
      BY <2>6 DEF TypeOK, Job
    <3>5. c \in alone => pool.status = "draft" /\ pool.creator = job[c].creator /\ earnings = NoEarnings
      BY <2>4 DEF ProgressInv
    <3>6. c \in alone => earnings' = rows
      <4>1. ASSUME c \in alone PROVE \A x \in Creators : earnings[x] = 0
        BY <3>5, <4>1, RowsAssumption
      <4> QED
        BY <2>3, <2>6, <4>1
    <3> QED
      BY <2>4, <3>1, <3>2, <3>3, <3>4, <3>5, <3>6 DEF ProgressInv
  <2> QED
    BY <1>6, <2>1, <2>2, <2>5, <2>6 DEF InsertCreatorEarningsForMonth
<1>7. ASSUME NEW c \in Calculations, FinalizeRevenuePool(c)
      PROVE  ProgressInv'
  <2>1. ASSUME NEW a \in alone' PROVE a = c /\ c \in alone
    BY <1>7, <2>1, OwnStep DEF FinalizeRevenuePool
  <2>2. at[c] = "finalize" /\ at'[c] = "sync" /\ earnings' = earnings /\ basis' = basis
    BY <1>7 DEF FinalizeRevenuePool, Goto, TypeOK
  <2>3. pool'.creator = pool.creator
    BY <1>7 DEF FinalizeRevenuePool, TypeOK, Pool
  <2>4. job'[c] = [job[c] EXCEPT !.final = pool']
    BY <1>7 DEF FinalizeRevenuePool, TypeOK
  <2>5. job'[c].creator = job[c].creator /\ job'[c].inserted = job[c].inserted /\ job'[c].final = pool'
    BY <2>4 DEF TypeOK, Job
  <2> QED
    BY <2>1, <2>2, <2>3, <2>5 DEF ProgressInv
<1>8. ASSUME NEW c \in Calculations, SyncRevenuePool(c) \/ SyncTimesOut(c) \/ CalculationDies(c)
      PROVE  ProgressInv'
  BY <1>5, <1>8 DEF SyncRevenuePool, SyncTimesOut, CalculationDies
<1> QED
  BY <1>1, <1>2, <1>3, <1>4, <1>6, <1>7, <1>8 DEF Next, RecordSession, LateSyncArrives

\* Settled months stay settled: whoever changes one has made it a draft first.
LEMMA SettledStep ==
  ASSUME Inv, Next
  PROVE  SettledInv' /\ FinalPoolIsItsOwn'
<1> USE DEF Inv
<1> DEFINE Busy(d) == at[d] \in {"delete", "insert", "finalize"}
           Same == earnings' = earnings /\ pool' = pool /\ basis' = basis /\ clean' = clean
<1>1. ASSUME Same, \A d \in Calculations : at'[d] = at[d] \/ at'[d] \in {"idle", "upsert"}
      PROVE  SettledInv'
  BY <1>1 DEF SettledInv
<1>2. ASSUME Same, (synced' = synced /\ billing' = billing) \/ (synced' => FALSE)
      PROVE  FinalPoolIsItsOwn'
  BY <1>2 DEF FinalPoolIsItsOwn
<1>3. CASE \E s \in Sessions : RecordSession(s)
  BY <1>1, <1>2, <1>3 DEF RecordSession
<1>4. CASE \E m \in late : LateSyncArrives(m)
  BY <1>1, <1>2, <1>4 DEF LateSyncArrives
<1>5. ASSUME NEW c \in Calculations, NEW r \in Requests, NEW answer \in Revenues \cup {r.gross},
             Begin(c, r, answer)
      PROVE  SettledInv' /\ FinalPoolIsItsOwn'
  BY <1>1, <1>2, <1>5 DEF Begin, Goto, TypeOK
<1>6. ASSUME NEW c \in Calculations, UpsertMonthlyRevenuePool(c)
      PROVE  SettledInv' /\ FinalPoolIsItsOwn'
  <2>1. pool'.status = "draft"
    BY <1>6 DEF UpsertMonthlyRevenuePool
  <2> QED
    BY <2>1 DEF SettledInv, FinalPoolIsItsOwn
<1>7. ASSUME NEW c \in Calculations, DeleteCreatorEarningsForMonth(c) \/ InsertCreatorEarningsForMonth(c)
      PROVE  SettledInv' /\ FinalPoolIsItsOwn'
  <2>1. Busy(c) /\ pool' = pool /\ clean' = clean
    BY <1>7 DEF DeleteCreatorEarningsForMonth, InsertCreatorEarningsForMonth
  <2>2. ~(clean /\ pool.status = "finalized")
    BY <2>1 DEF SettledInv
  <2> QED
    BY <2>1, <2>2 DEF SettledInv, FinalPoolIsItsOwn
<1>8. ASSUME NEW c \in Calculations, FinalizeRevenuePool(c)
      PROVE  SettledInv' /\ FinalPoolIsItsOwn'
  <2>1. /\ clean' => c \in alone
        /\ ~synced'
        /\ at[c] = "finalize"
    BY <1>8, Zenon DEF FinalizeRevenuePool
  <2>2. at' = [at EXCEPT ![c] = "sync"] /\ pool'.creator = pool.creator
        /\ earnings' = earnings /\ basis' = basis
    BY <1>8 DEF FinalizeRevenuePool, Goto, TypeOK, Pool
  <2>3. clean' => \A d \in Calculations : ~(at'[d] \in {"delete", "insert", "finalize"})
    BY <2>1, <2>2 DEF AloneInv, TypeOK
  <2>4. clean' => basis.creator = pool.creator /\ earnings = Allocation(basis)
    BY <2>1 DEF ProgressInv
  <2> QED
    BY <2>1, <2>2, <2>3, <2>4 DEF SettledInv, FinalPoolIsItsOwn
<1>9. ASSUME NEW c \in Calculations, SyncTimesOut(c) \/ CalculationDies(c)
      PROVE  SettledInv' /\ FinalPoolIsItsOwn'
  BY <1>1, <1>2, <1>9 DEF SyncTimesOut, CalculationDies, Return, TypeOK
<1>10. ASSUME NEW c \in Calculations, SyncRevenuePool(c)
      PROVE  SettledInv' /\ FinalPoolIsItsOwn'
  <2>1. Same /\ Return(c) /\ at[c] = "sync"
    BY <1>10 DEF SyncRevenuePool
  <2>2. SettledInv'
    BY <1>1, <2>1, Returns
  <2>3. synced' => c \in alone
    BY <1>10, Zenon DEF SyncRevenuePool
  <2>4. c \in alone => billing' = [pool |-> pool, earnings |-> earnings]
    <3>1. billing' = [pool |-> job[c].final, earnings |-> job[c].inserted]
      BY <1>10 DEF SyncRevenuePool, TakeSync, MessageOf
    <3> QED
      BY <2>1, <3>1 DEF ProgressInv
  <2> QED
    BY <2>1, <2>2, <2>3, <2>4 DEF FinalPoolIsItsOwn
<1> QED
  BY <1>3, <1>4, <1>5, <1>6, <1>7, <1>8, <1>9, <1>10 DEF Next

LEMMA Stutter == Inv /\ UNCHANGED vars => Inv'
  BY DEF Inv, vars, TypeOK, SentInv, AloneInv, ProgressInv, SettledInv, FinalPoolIsItsOwn

LEMMA InvHolds == Spec => []Inv
<1>1. Inv /\ [Next]_vars => Inv'
  BY TypeStep, AloneStep, ProgressStep, SettledStep, Stutter DEF Inv
<1> QED
  BY InitInv, <1>1, PTL DEF Spec
-----------------------------------------------------------------------------
(* Theorems *)

\* Amounts, messages and tables are well-formed, and the creators' part of every
\* pool, sent or kept, is a part of its gross amount.
THEOREM TypeCorrect == Spec => []TypeOK
<1>1. Inv => TypeOK
  BY DEF Inv
<1> QED
  BY InvHolds, <1>1, PTL

\* A finalized month that one calculation made by itself holds the earnings of
\* its own pool, and billing-service what it was told of them: for any number
\* of creators, sessions and calculations, and any requests.
THEOREM FinalMonthIsConsistent == Spec => []FinalPoolIsItsOwn
<1>1. Inv => FinalPoolIsItsOwn
  BY DEF Inv
<1> QED
  BY InvHolds, <1>1, PTL

\* Such a month pays out no more than its pool and half an amount for each
\* creator who is paid: for any scores, however the shares are rounded.
THEOREM MonthIsWithinItsPool == Spec => []SharesWithinPool
<1>1. ASSUME Inv PROVE SharesWithinPool
  <2> DEFINE paid == {x \in Creators : earnings[x] > 0}
  <2>1. SUFFICES ASSUME clean, pool.status = "finalized", paid # {}
                 PROVE  2 * SumOver(earnings, paid) <= 2 * pool.creator + Cardinality(paid)
    BY DEF SharesWithinPool, SumOver
  <2>2. basis \in Basis /\ basis.creator = pool.creator /\ earnings = Allocation(basis)
    BY <1>1, <2>1 DEF Inv, TypeOK, FinalPoolIsItsOwn
  <2>3. paid \in SUBSET Creators /\ \A x \in paid : Allocation(basis)[x] > 0
    BY <2>2
  <2> HIDE DEF paid
  <2>4. 2 * SumOver(Allocation(basis), paid) <= 2 * basis.creator + Cardinality(paid)
    BY <2>1, <2>2, <2>3, PaidWithinPool
  <2> QED
    BY <2>2, <2>4, Zenon
<1> QED
  BY InvHolds, <1>1, PTL
-----------------------------------------------------------------------------
(* Days and windows *)

LEMMA Division ==
  ASSUME NEW x \in Int, NEW d \in Nat, d > 0
  PROVE  x \div d \in Int /\ x % d \in 0..(d - 1) /\ x = d * (x \div d) + (x % d)
  OBVIOUS

LEMMA Quotient ==
  ASSUME NEW x \in Int, NEW d \in Nat, d > 0, NEW q \in Int, q * d <= x, x < q * d + d
  PROVE  x \div d = q
<1>1. PICK k \in Int, r \in 0..(d - 1) : k = x \div d /\ x = d * k + r
  BY Division
<1>2. ASSUME k >= q + 1 PROVE FALSE
  <2>1. d * k >= d * (q + 1)
    BY <1>2
  <2> QED BY <1>1, <2>1
<1>3. ASSUME k <= q - 1 PROVE FALSE
  <2>1. d * k <= d * (q - 1)
    BY <1>3
  <2> QED BY <1>1, <2>1
<1> QED BY <1>1, <1>2, <1>3

LEMMA Units ==
  /\ Window \in Nat /\ Window > 0 /\ Hour = 4 * Window /\ Window % 2 = 0
  /\ Day \in Nat /\ Day = 96 * Window
  BY TimeAssumption DEF Window, Day

\* A day has the instants from one midnight on to the next.
LEMMA Days ==
  ASSUME NEW l \in Int
  PROVE  /\ DayOf(l) \in Int
         /\ DayOf(l) * Day <= l /\ l < DayOf(l) * Day + Day
         /\ l % Day = l - DayOf(l) * Day
         /\ \A d \in Int : d * Day <= l /\ l < d * Day + Day => DayOf(l) = d
<1>1. Day \in Nat /\ Day > 0
  BY Units
<1>2. l \div Day \in Int /\ l % Day \in 0..(Day - 1) /\ l = Day * (l \div Day) + (l % Day)
  BY <1>1, Division
<1>3. Day * (l \div Day) = (l \div Day) * Day
  BY <1>1, <1>2
<1>4. \A d \in Int : d * Day <= l /\ l < d * Day + Day => l \div Day = d
  BY <1>1, Quotient
<1> HIDE DEF Day
<1> QED BY <1>1, <1>2, <1>3, <1>4 DEF DayOf

LEMMA DaysGrow ==
  ASSUME NEW k \in Int, NEW l \in Int, k <= l
  PROVE  DayOf(k) <= DayOf(l)
<1>1. Day \in Nat /\ Day > 0
  BY Units
<1>2. PICK a \in Int, b \in Int : a = DayOf(k) /\ b = DayOf(l)
  BY Days
<1>3. a * Day <= k /\ l < b * Day + Day
  BY <1>2, Days
<1>4. ASSUME a >= b + 1 PROVE FALSE
  <2>1. a * Day >= (b + 1) * Day
    BY <1>1, <1>4
  <2>2. (b + 1) * Day = b * Day + Day
    BY <1>1
  <2>3. a * Day \in Int /\ b * Day \in Int
    BY <1>1
  <2> HIDE DEF Day
  <2> QED BY <1>1, <1>3, <2>1, <2>2, <2>3
<1> QED BY <1>2, <1>4

\* Ticks are Window apart: of the instants that follow one, a window has one.
LEMMA OneTick ==
  ASSUME NEW a \in Int, NEW b \in Int, a % Window = 0, b % Window = 0, a < b
  PROVE  a + Window <= b
<1>1. Window \in Nat /\ Window > 0
  BY Units
<1>2. PICK i \in Int, j \in Int : a = Window * i /\ b = Window * j
  <2>1. \A x \in Int : x % Window = 0 => x \div Window \in Int /\ x = Window * (x \div Window)
    <3>1. ASSUME NEW x \in Int, x % Window = 0
          PROVE  x \div Window \in Int /\ x = Window * (x \div Window) + 0
      BY <1>1, <3>1, Division
    <3>2. \A k \in Int : Window * k + 0 = Window * k
      BY <1>1
    <3> QED BY <3>1, <3>2
  <2> QED BY <2>1
<1> HIDE DEF Window
<1>3. j >= i + 1
  <2>1. ASSUME j <= i PROVE FALSE
    <3>1. Window * j <= Window * i
      BY <1>1, <2>1
    <3> QED BY <1>2, <3>1
  <2> QED BY <2>1
<1>4. Window * j >= Window * (i + 1)
  BY <1>1, <1>3
<1> QED BY <1>1, <1>2, <1>4

LEMMA SomeTick ==
  ASSUME NEW c \in Int
  PROVE  \E t \in Int : t % Window = 0 /\ c - Window <= t /\ t < c
<1>1. Window \in Nat /\ Window > 0
  BY Units
<1>2. PICK k \in Int, r \in Int, p \in Int :
        p = Window * k /\ p = k * Window /\ c - 1 = p + r /\ 0 <= r /\ r < Window
  <2>1. PICK n \in Int : n = c - 1
    OBVIOUS
  <2>2. PICK k \in Int, r \in 0..(Window - 1) : n = Window * k + r
    BY <1>1, Division
  <2>3. Window * k \in Int /\ Window * k = k * Window
    BY <1>1
  <2> QED BY <1>1, <2>1, <2>2, <2>3
<1>3. c - Window <= p /\ p < c
  BY <1>1, <1>2
<1>4. p % Window = 0
  <2>1. p \div Window = k
    BY <1>1, <1>2, Quotient
  <2>2. p % Window \in Int /\ p = Window * (p \div Window) + (p % Window)
    BY <1>1, Division
  <2>3. p = p + (p % Window)
    BY <1>2, <2>1, <2>2, Zenon
  <2> QED BY <2>2, <2>3
<1> QED BY <1>3, <1>4

\* The time of day that is promised to p on day d.  It is on that day, or a
\* quarter of an hour before it, and on an even unit; and it is the time that
\* the handlers compute.
ReminderOf(p) == IF p.reminder < 0 THEN 21 * Hour ELSE p.reminder
HourOf(p, d) ==
  LET hour == IF d % 7 \in {5, 6} THEN p.weekend ELSE p.weekday
      before == ReminderOf(p) \div Hour - 1
  IN  IF hour >= 0 THEN hour ELSE IF before >= 0 THEN before ELSE 20
PromisedTo(p, d) == IF p.kind = "streak" THEN ReminderOf(p) ELSE Hour * HourOf(p, d) - Window

LEMMA ReminderTimes ==
  ASSUME NEW p \in Profiles
  PROVE  /\ ReminderOf(p) \in 0..(Day - 1) /\ ReminderOf(p) % 2 = 0
         /\ ReminderOf(p) \div Hour \in 0..23
<1>1. p.reminder \in -1..(Day - 1) /\ (p.reminder >= 0 => p.reminder % 2 = 0)
  BY ProfilesAssumption
<1>2. ReminderOf(p) \in 0..(Day - 1) /\ ReminderOf(p) % 2 = 0
  BY <1>1, TimeAssumption DEF ReminderOf, Day
<1>3. ReminderOf(p) \div Hour \in 0..23
  BY <1>2, TimeAssumption DEF Day
<1> QED BY <1>2, <1>3

LEMMA PromisedTimes ==
  ASSUME NEW p \in Profiles, NEW d \in Int
  PROVE  /\ PromisedTo(p, d) \in -Window..(Day - 1)
         /\ p.kind # "study" => PromisedTo(p, d) >= 0
         /\ PromisedTo(p, d) % 2 = 0
<1>1. p.kind \in {"study", "streak"} /\ p.weekday \in -1..23 /\ p.weekend \in -1..23
  BY ProfilesAssumption
<1>2. HourOf(p, d) \in 0..23
  BY <1>1, ReminderTimes DEF HourOf
<1>3. Hour * HourOf(p, d) \in 0..(Hour * 23) /\ (Hour * HourOf(p, d)) % 2 = 0
  BY <1>2, TimeAssumption
<1> HIDE DEF Day, Window, HourOf
<1> QED BY <1>1, <1>3, ReminderTimes, Units DEF PromisedTo

LEMMA Promises ==
  \A d : Promised(d) = PromisedTo(profile, d)
  BY DEF Promised, ReminderTime, PromisedTo, HourOf, ReminderOf

LEMMA SendIsPromised ==
  ASSUME profile \in Profiles, NEW l \in Int
  PROVE  SendTime(l) = DayOf(l) * Day + PromisedTo(profile, DayOf(l))
<1>1. profile.kind \in {"study", "streak"} /\ profile.weekday \in Int /\ profile.weekend \in Int
  BY ProfilesAssumption
<1>2. DayOf(l) \in Int
  BY Days
<1>3. OptimalHour(l) = HourOf(profile, DayOf(l))
  BY DEF OptimalHour, PickOptimalHour, Weekend, HourOf, ReminderTime, ReminderOf
<1>4. HourOf(profile, DayOf(l)) \in Int
  BY <1>1, <1>2, ReminderTimes DEF HourOf
<1>5. OptimalHour(l) * Hour = Hour * HourOf(profile, DayOf(l))
  BY <1>3, <1>4, TimeAssumption
<1>6. ReminderTime = ReminderOf(profile)
  BY DEF ReminderTime, ReminderOf
<1> HIDE DEF Day, Window
<1> QED BY <1>1, <1>2, <1>5, <1>6 DEF SendTime, PromisedTo
-----------------------------------------------------------------------------
(* The invariant *)

\* The window of the local day, with the instants it opens and closes at.
Opening == Today * Day + PromisedTo(profile, Today) - Window
Closing == Today * Day + PromisedTo(profile, Today)

\* The types; what RemindersTypeOK says about the send time holds by how it is computed.
Types ==
  /\ profile \in Profiles
  /\ now \in Start..End
  /\ due \in BOOLEAN
  /\ studied \in Int
  /\ ticks \subseteq Start..End
  /\ run \in [Handlers -> Run]
  /\ pushes \in 0..2
  /\ calm \in BOOLEAN /\ entitled \in BOOLEAN

TicksInv == \A t \in ticks : t % Window = 0
PastInv == \A h \in Handlers : run[h].busy => run[h].at <= now

\* Instants of the day at which a reminder may be decided on; handlers at it; and
\* that the one tick that there is for it has been handled.
Due(a) == DayOf(Local(a)) = Today /\ Opening <= Local(a) /\ Local(a) <= Closing
Good(h) == run[h].busy /\ Due(run[h].at)
Spent == \E a \in Int : a <= now /\ (a - 1) % Window = 0 /\ Due(a) /\ a - 1 \notin ticks

OnceInv ==
  calm =>
    /\ pushes <= 1
    /\ pushes > 0 => Spent /\ \A h \in Handlers : ~Good(h)
    /\ \A h \in Handlers : Good(h) => Spent /\ \A g \in Handlers : Good(g) => g = h

\* A handler that will remind the user, if nothing fails and he still wants it.
InHand(h) ==
  /\ run[h].busy
  /\ Opening < Local(run[h].at) /\ Local(run[h].at) <= Closing
  /\ profile.kind = "streak" => run[h].studied # Today

\* Whoever is entitled has his reminder, or somebody is at it, or a tick of the
\* window is still to be handled.
EntitledInv ==
  entitled =>
    /\ Wanting
    /\ PromisedTo(profile, Today) >= Window
    /\ Local(now) >= Opening
    /\ Local(now) > Closing => pushes > 0
    /\ \A t \in Int :
         t % Window = 0 /\ Opening <= Local(t) /\ Local(t) < Closing /\ t <= now =>
           t \in ticks \/ pushes > 0 \/ \E h \in Handlers : InHand(h)

RemindersInv == Types /\ TicksInv /\ PastInv /\ OnceInv /\ EntitledInv

LEMMA SendOnDay ==
  ASSUME profile \in Profiles, now \in Int
  PROVE  SendTime(Local(now)) - Today * Day \in
           (IF profile.kind = "study" THEN -Window ELSE 0)..(Day - 1)
<1>1. profile.zone \in Int
  BY ProfilesAssumption
<1>2. Local(now) \in Int
  BY <1>1 DEF Local
<1>3. PICK l \in Int : l = Local(now)
  BY <1>2
<1>4. SendTime(l) = DayOf(l) * Day + PromisedTo(profile, DayOf(l))
  BY SendIsPromised
<1>5. PICK d \in Int : d = DayOf(l)
  BY Days
<1>6. d * Day \in Int
  BY Units
<1>7. PICK q \in -Window..(Day - 1) : q = PromisedTo(profile, d) /\ (profile.kind # "study" => q >= 0)
  BY PromisedTimes
<1>8. SendTime(l) - d * Day = q
  BY <1>4, <1>5, <1>6, <1>7, Units
<1>9. Today = d
  BY <1>3, <1>5 DEF Today
<1> QED BY <1>3, <1>7, <1>8, <1>9, Units

LEMMA Times ==
  ASSUME Types
  PROVE  /\ profile.zone \in Int /\ profile.zone % 2 = 0 /\ profile.kind \in {"study", "streak"}
         /\ now \in Int /\ Local(now) \in Int
         /\ Today \in Int /\ Opening \in Int /\ Closing \in Int /\ Closing = Opening + Window
         /\ Today * Day <= Local(now) /\ Local(now) < Today * Day + Day
         /\ TimeOfDay = Local(now) - Today * Day
         /\ Closing < Today * Day + Day
         /\ PromisedTo(profile, Today) \in Int /\ Today * Day \in Int
         /\ Closing = Today * Day + PromisedTo(profile, Today)
<1>1. profile \in Profiles /\ now \in Int
  BY TimeAssumption DEF Types
<1>2. profile.zone \in Int /\ profile.zone % 2 = 0 /\ profile.kind \in {"study", "streak"}
  BY <1>1, ProfilesAssumption
<1>3. PICK l \in Int : l = Local(now)
  BY <1>1, <1>2 DEF Local
<1>4. PICK d \in Int : d = DayOf(l) /\ d = Today
  BY <1>3, Days DEF Today
<1>5. PICK m \in Int : m = d * Day
  BY Units
<1>6. PICK q \in -Window..(Day - 1) : q = PromisedTo(profile, d)
  BY <1>1, PromisedTimes
<1>7. m <= l /\ l < m + Day /\ l % Day = l - m
  BY <1>4, <1>5, Days
<1>8. Opening = m + q - Window /\ Closing = m + q
  BY <1>4, <1>5, <1>6 DEF Opening, Closing
<1>9. TimeOfDay = l - m
  BY <1>3, <1>7 DEF TimeOfDay
<1> HIDE DEF Window, Day
<1> QED BY <1>1, <1>2, <1>3, <1>4, <1>5, <1>6, <1>7, <1>8, <1>9, Units

LEMMA TypesAreOK == Types => RemindersTypeOK
<1> SUFFICES ASSUME Types PROVE RemindersTypeOK
  OBVIOUS
<1>1. SendTime(Local(now)) - Today * Day \in
        (IF profile.kind = "study" THEN -Window ELSE 0)..(Day - 1)
  BY Times, SendOnDay DEF Types
<1> HIDE DEF Day, Window
<1> QED BY <1>1 DEF Types, RemindersTypeOK

LEMMA RemindersInitInv == RemindersInit => RemindersInv
<1> SUFFICES ASSUME RemindersInit PROVE RemindersInv
  OBVIOUS
<1>1. profile \in Profiles /\ profile.zone \in Int
  BY ProfilesAssumption DEF RemindersInit
<1>2. Start + profile.zone \in Int
  BY <1>1, TimeAssumption
<1>3. PICK d \in Int : d = DayOf(Start + profile.zone)
  BY <1>2, Days
<1>4. studied \in Int
  BY <1>3 DEF RemindersInit
<1>5. Types
  <2>1. now \in Start..End /\ run \in [Handlers -> Run]
    BY TimeAssumption DEF RemindersInit, Idle, Run
  <2>2. pushes \in 0..2 /\ ticks \subseteq Start..End
    BY DEF RemindersInit
  <2>4. calm \in BOOLEAN /\ entitled \in BOOLEAN
    <3>1. calm = FALSE /\ entitled = FALSE
      BY Zenon DEF RemindersInit
    <3> QED BY <3>1, Zenon
  <2>3. due \in BOOLEAN
    BY Zenon DEF RemindersInit
  <2> QED BY <1>1, <1>4, <2>1, <2>2, <2>3, <2>4, Zenon DEF Types
<1>6. ~calm /\ ~entitled /\ ticks = {} /\ \A h \in Handlers : ~run[h].busy
  BY DEF RemindersInit, Idle
<1> QED BY <1>5, <1>6 DEF RemindersInv, TicksInv, PastInv, OnceInv, EntitledInv

\* Only the clock moves the day.
LEMMA SameInstant ==
  ASSUME UNCHANGED <<profile, now>>
  PROVE  /\ Today' = Today /\ Opening' = Opening /\ Closing' = Closing
         /\ Local(now)' = Local(now)
         /\ \A t : Local(t)' = Local(t)
         /\ \A t : Due(t)' = Due(t)
  BY DEF Today, Opening, Closing, Local, Due

LEMMA TypesStep ==
  ASSUME RemindersInv, RemindersNext
  PROVE  Types' /\ TicksInv' /\ PastInv'
<1> USE DEF RemindersInv
<1>1. profile.zone \in Int /\ now \in Int /\ Today \in Int
  BY Times
<1>2. CASE Clock
  <2>1. now' \in Start..End /\ now' = now + 1 /\ profile' = profile
    BY <1>1, <1>2, TimeAssumption DEF Clock, Types
  <2>2. ticks' \subseteq Start..End /\ TicksInv'
    BY <1>2, <2>1 DEF Clock, Types, TicksInv
  <2>3. pushes' \in 0..2 /\ calm' \in BOOLEAN
    <3>1. /\ pushes' = IF Today' = Today THEN pushes ELSE 0
          /\ calm' = IF Today' = Today THEN calm ELSE TRUE
      BY <1>2, Zenon DEF Clock
    <3>2. pushes \in 0..2 /\ calm \in BOOLEAN
      BY Zenon DEF Types
    <3>3. pushes' \in 0..2
      BY <3>1, <3>2
    <3>4. calm' = calm \/ calm' = TRUE
      BY <3>1, Zenon
    <3>5. calm' \in BOOLEAN
      BY <3>2, <3>4, Zenon
    <3> QED BY <3>3, <3>5
  <2>4. entitled' \in BOOLEAN
    <3>1. CASE Opens'
      <4>1. entitled' = Wanting'
        BY <1>2, <3>1 DEF Clock
      <4>2. Wanting' \in BOOLEAN
        BY <1>2 DEF Clock, Types, Wanting
      <4> QED BY <4>1, <4>2, Zenon
    <3>2. CASE ~Opens'
      <4>1. entitled' = (/\ entitled
                         /\ Today' = Today
                         /\ Closes => /\ \A t \in ticks : t >= now
                                      /\ \A h \in Handlers : ~run[h].busy)
        BY <1>2, <3>2, Zenon DEF Clock
      <4>2. (/\ entitled
             /\ Today' = Today
             /\ Closes => /\ \A t \in ticks : t >= now
                          /\ \A h \in Handlers : ~run[h].busy) \in BOOLEAN
        OBVIOUS
      <4> QED BY <4>1, <4>2, Zenon
    <3> QED BY <3>1, <3>2
  <2>5. PastInv'
    BY <1>1, <1>2, <2>1 DEF Clock, PastInv, Types, Run
  <2> QED BY <1>2, <2>1, <2>2, <2>3, <2>4, <2>5 DEF Clock, Types
<1>3. CASE Study
  <2>1. (entitled /\ Wanting') \in BOOLEAN
    OBVIOUS
  <2>2. entitled' = (entitled /\ Wanting')
    BY <1>3, Zenon DEF Study
  <2>3. entitled' \in BOOLEAN
    BY <2>1, <2>2, Zenon
  <2> QED BY <1>1, <1>3, <2>3 DEF Study, Types, TicksInv, PastInv
<1>4. CASE CardsBecomeDue
  BY <1>4 DEF CardsBecomeDue, Types, TicksInv, PastInv
<1>5. ASSUME NEW h \in Handlers, NEW t \in ticks, NEW again \in BOOLEAN, HandleTick(h, t, again)
      PROVE  Types' /\ TicksInv' /\ PastInv'
  <2>1. calm' \in BOOLEAN
    <3>1. calm' = (calm /\ ~again /\ now = t + 1)
      BY <1>5, Zenon DEF HandleTick
    <3>2. (calm /\ ~again /\ now = t + 1) \in BOOLEAN
      OBVIOUS
    <3> QED BY <3>1, <3>2, Zenon
  <2>2. run' \in [Handlers -> Run]
    BY <1>1, <1>5 DEF HandleTick, Types, Run
  <2>3. ticks' \subseteq ticks
    BY <1>5 DEF HandleTick
  <2>4. \A g \in Handlers : run'[g] = run[g] \/ run'[g].at = now
    BY <1>5 DEF HandleTick, Types
  <2>5. PastInv'
    BY <1>1, <1>5, <2>4 DEF HandleTick, PastInv
  <2> QED BY <1>5, <2>1, <2>2, <2>3, <2>5 DEF HandleTick, Types, TicksInv
<1>6. ASSUME NEW t \in ticks, TickFails(t)
      PROVE  Types' /\ TicksInv' /\ PastInv'
  BY <1>6 DEF TickFails, Types, TicksInv, PastInv
<1>7. ASSUME NEW h \in Handlers, RunForUser(h) \/ RunFails(h)
      PROVE  Types' /\ TicksInv' /\ PastInv'
  <2>1. run' = [run EXCEPT ![h] = Idle]
    BY <1>7 DEF RunForUser, RunFails, Finish
  <2>2. run' \in [Handlers -> Run] /\ \A g \in Handlers : run'[g].busy => run'[g] = run[g]
    BY <2>1 DEF Types, Run, Idle
  <2>3. pushes' \in 0..2
    BY <1>7 DEF RunForUser, RunFails, Types
  <2>4. UNCHANGED <<profile, now, due, studied, ticks, calm>> /\ entitled' \in BOOLEAN
    BY <1>7 DEF RunForUser, RunFails, Types
  <2> QED BY <2>2, <2>3, <2>4 DEF Types, TicksInv, PastInv
<1> QED BY <1>2, <1>3, <1>4, <1>5, <1>6, <1>7 DEF RemindersNext
-----------------------------------------------------------------------------
(* Not more than one *)

LEMMA TicksAreEven ==
  ASSUME NEW t \in Int, t % Window = 0
  PROVE  t % 2 = 0
<1>1. PICK w \in Nat : Window = 2 * w /\ w > 0
  BY Units
<1>2. t \div Window \in Int /\ t = Window * (t \div Window) + (t % Window)
  BY Units, Division
<1>3. PICK k \in Int : t = Window * k + 0
  BY <1>2
<1>4. PICK m \in Int : m = w * k
  BY <1>1
<1> HIDE DEF Window
<1>5. t = 2 * m
  BY <1>1, <1>3, <1>4
<1> QED BY <1>5

\* Of the deliveries that are made at once, one instant after a tick, only one
\* is within the window.
LEMMA OneDue ==
  ASSUME Types
  PROVE  \A a, b \in Int :
           (a - 1) % Window = 0 /\ (b - 1) % Window = 0 /\ Due(a) /\ Due(b) => a = b
<1>1. Opening \in Int /\ Closing = Opening + Window /\ Closing % 2 = 0
  <2>1. profile \in Profiles /\ Today \in Int /\ Closing = Today * Day + PromisedTo(profile, Today)
    BY Times DEF Types
  <2>2. PICK q \in Int : q = PromisedTo(profile, Today) /\ q % 2 = 0
    BY <2>1, PromisedTimes, Units
  <2>3. PICK m \in Int : Today * Day = 2 * m
    <3>1. PICK w \in Int, d \in Int : w = 48 * Window /\ Day = 2 * w /\ d = Today
      BY <2>1, Units
    <3>2. d * w \in Int /\ d * (2 * w) = 2 * (d * w)
      OBVIOUS
    <3> QED BY <3>1, <3>2
  <2>4. Closing = 2 * m + q
    BY <2>1, <2>2, <2>3
  <2> QED BY <2>2, <2>4, Times
<1>2. profile.zone \in Int /\ profile.zone % 2 = 0
  BY Times
<1>3. ASSUME NEW a \in Int, NEW b \in Int, a < b,
             (a - 1) % Window = 0, (b - 1) % Window = 0, Due(a), Due(b)
      PROVE  FALSE
  <2>1. PICK c \in Int, d \in Int : c = a - 1 /\ d = b - 1
    OBVIOUS
  <2>2. c + Window <= d /\ d % 2 = 0
    BY <1>3, <2>1, OneTick, TicksAreEven
  <2>3. Opening <= a + profile.zone /\ b + profile.zone <= Closing
    BY <1>3 DEF Due, Local
  <2>4. Window \in Nat
    BY Units
  <2>5. b + profile.zone = Closing
    BY <1>1, <1>2, <2>1, <2>2, <2>3, <2>4
  <2> QED BY <1>1, <1>2, <2>1, <2>2, <2>5
<1> QED
  <2> SUFFICES ASSUME NEW a \in Int, NEW b \in Int, a # b,
                      (a - 1) % Window = 0, (b - 1) % Window = 0, Due(a), Due(b)
               PROVE  FALSE
    OBVIOUS
  <2>1. a < b \/ b < a
    OBVIOUS
  <2> QED BY <1>3, <2>1

\* What a handler pushes it pushes within the window.
LEMMA PushedIsGood ==
  ASSUME Types, NEW h \in Handlers, run[h].busy, Pushed(h), DayOf(Local(run[h].at)) = Today
  PROVE  Good(h)
<1>1. profile \in Profiles /\ run[h].at \in Int
  BY DEF Types, Run
<1>2. PICK l \in Int : l = Local(run[h].at)
  BY <1>1, Times DEF Local
<1>3. SendTime(l) = Closing
  BY <1>1, <1>2, SendIsPromised DEF Closing
<1>4. SendTime(l) - Window <= l /\ l <= SendTime(l)
  BY <1>2 DEF Pushed, InWindow
<1>5. Opening <= l /\ l <= Closing
  BY <1>3, <1>4, Times, Units
<1> QED BY <1>2, <1>5 DEF Good, Due

LEMMA StaysSpent ==
  ASSUME Types, UNCHANGED <<profile, now>>, ticks' \subseteq ticks, Spent
  PROVE  Spent'
<1>1. PICK a \in Int : a <= now /\ (a - 1) % Window = 0 /\ Due(a) /\ a - 1 \notin ticks
  BY DEF Spent
<1>2. Due(a)'
  BY <1>1, SameInstant
<1>3. a <= now' /\ a - 1 \notin ticks'
  BY <1>1
<1> QED BY <1>1, <1>2, <1>3 DEF Spent

LEMMA OnceStep ==
  ASSUME RemindersInv, RemindersNext
  PROVE  OnceInv'
<1> USE DEF RemindersInv
<1> SUFFICES ASSUME calm' PROVE OnceInv'
  BY DEF OnceInv
<1>1. profile.zone \in Int /\ now \in Int /\ Today \in Int /\ pushes \in 0..2
      /\ \A h \in Handlers : run[h].at \in Int
  BY Times DEF Types, Run
<1>2. CASE UNCHANGED <<profile, now, run, pushes, calm>> /\ ticks' \subseteq ticks
  <2>1. \A h \in Handlers : Good(h)' = Good(h)
    BY <1>2 DEF Good, Due, Today, Opening, Closing, Local
  <2> QED BY <1>2, <2>1, StaysSpent DEF OnceInv
<1>3. CASE Clock
  <2>1. /\ profile' = profile /\ now' = now + 1 /\ run' = run
        /\ ticks' \subseteq ticks \cup {now + 1}
        /\ pushes' = IF Today' = Today THEN pushes ELSE 0
    BY <1>3 DEF Clock
  <2>2. CASE Today' = Today
    <3>1. calm /\ pushes' = pushes
      BY <1>3, <2>1, <2>2 DEF Clock
    <3>2. Opening' = Opening /\ Closing' = Closing
      BY <2>1, <2>2 DEF Opening, Closing
    <3>3. \A a : Due(a)' = Due(a)
      BY <2>1, <2>2, <3>2 DEF Due, Local
    <3>4. \A h \in Handlers : Good(h)' = Good(h)
      BY <2>1, <2>2, <3>2 DEF Good, Due, Local
    <3>5. Spent => Spent'
      <4>1. SUFFICES ASSUME Spent PROVE Spent'
        OBVIOUS
      <4>2. PICK a \in Int : a <= now /\ (a - 1) % Window = 0 /\ Due(a) /\ a - 1 \notin ticks
        BY <4>1 DEF Spent
      <4>3. a <= now' /\ a - 1 \notin ticks'
        BY <1>1, <2>1, <4>2
      <4> QED BY <3>3, <4>2, <4>3 DEF Spent
    <3> QED BY <3>1, <3>4, <3>5 DEF OnceInv
  <2>3. CASE Today' # Today
    <3>1. pushes' = 0
      BY <2>1, <2>3
    <3>2. PICK k \in Int : k = now + profile.zone
      BY <1>1
    <3>3. Today = DayOf(k) /\ Today' = DayOf(k + 1)
      BY <1>1, <2>1, <3>2 DEF Today, Local
    <3>4. DayOf(k) <= DayOf(k + 1) /\ DayOf(k) \in Int /\ DayOf(k + 1) \in Int
      BY Days, DaysGrow
    <3>5. ASSUME NEW h \in Handlers, Good(h)' PROVE FALSE
      <4>1. run[h].busy /\ DayOf(run[h].at + profile.zone) = Today'
        BY <2>1, <3>5 DEF Good, Due, Local
      <4>2. run[h].at <= now
        BY <4>1 DEF PastInv
      <4>3. PICK j \in Int : j = run[h].at + profile.zone
        BY <1>1
      <4>4. DayOf(j) <= DayOf(k)
        BY <1>1, <3>2, <4>2, <4>3, DaysGrow
      <4> QED BY <2>3, <3>3, <3>4, <4>1, <4>3, <4>4
    <3> QED BY <3>1, <3>5 DEF OnceInv
  <2> QED BY <2>2, <2>3
<1>4. ASSUME NEW h \in Handlers, NEW t \in ticks, NEW again \in BOOLEAN, HandleTick(h, t, again)
      PROVE  OnceInv'
  <2>1. calm /\ ~again /\ now = t + 1 /\ ~run[h].busy
    BY <1>4 DEF HandleTick
  <2>2. /\ UNCHANGED <<profile, now, pushes>> /\ ticks' = ticks \ {t}
        /\ run' = [run EXCEPT ![h] = [busy |-> TRUE, at |-> now, studied |-> studied]]
    BY <1>4, <2>1 DEF HandleTick
  <2>3. run'[h].at = now /\ \A g \in Handlers : g # h => run'[g] = run[g]
    BY <2>2 DEF Types
  <2>4. \A g \in Handlers : g # h => Good(g)' = Good(g)
    BY <2>2, <2>3 DEF Good, Due, Today, Opening, Closing, Local
  <2>5. Spent => Spent'
    BY <2>2, StaysSpent
  <2>6. ~Good(h)
    BY <2>1 DEF Good
  <2>7. CASE ~Due(now)
    <3>1. ~Good(h)'
      BY <2>2, <2>3, <2>7 DEF Good, Due, Today, Opening, Closing, Local
    <3> QED BY <2>1, <2>2, <2>4, <2>5, <3>1 DEF OnceInv
  <2>8. CASE Due(now)
    <3>1. t \in Int /\ t % Window = 0 /\ now - 1 = t
      BY <1>1, <2>1, TimeAssumption DEF Types, TicksInv
    <3>2. ~Spent
      <4>1. ASSUME NEW a \in Int, a <= now, (a - 1) % Window = 0, Due(a), a - 1 \notin ticks
            PROVE  FALSE
        <5>1. a = now
          BY <1>1, <2>8, <3>1, <4>1, OneDue
        <5> QED BY <3>1, <4>1, <5>1
      <4> QED BY <4>1 DEF Spent
    <3>3. pushes = 0 /\ \A g \in Handlers : ~Good(g)
      BY <1>1, <2>1, <3>2 DEF OnceInv
    <3>4. Spent'
      <4>1. Due(now)'
        BY <2>2, <2>8 DEF Due, Today, Opening, Closing, Local
      <4>2. now' \in Int /\ (now' - 1) % Window = 0 /\ now' <= now' /\ now' - 1 \notin ticks'
        BY <1>1, <2>2, <3>1
      <4> QED BY <4>1, <4>2 DEF Spent
    <3> QED BY <2>2, <2>4, <3>3, <3>4 DEF OnceInv
  <2> QED BY <2>7, <2>8
<1>5. ASSUME NEW h \in Handlers, RunForUser(h)
      PROVE  OnceInv'
  <2>1. /\ UNCHANGED <<profile, now, ticks, calm>> /\ run[h].busy
        /\ run' = [run EXCEPT ![h] = Idle]
        /\ pushes' = IF Pushed(h) /\ DayOf(Local(run[h].at)) = Today /\ pushes < 2
                     THEN pushes + 1 ELSE pushes
    BY <1>5 DEF RunForUser, Finish
  <2>2. ~Good(h)' /\ \A g \in Handlers : g # h => Good(g)' = Good(g)
    BY <2>1 DEF Types, Idle, Good, Due, Today, Opening, Closing, Local
  <2>3. Spent => Spent'
    BY <2>1, StaysSpent
  <2>4. CASE Good(h)
    <3>1. pushes = 0 /\ Spent /\ \A g \in Handlers : g # h => ~Good(g)
      BY <1>1, <2>1, <2>4 DEF OnceInv
    <3>2. pushes' <= 1
      BY <2>1, <3>1
    <3> QED BY <2>2, <2>3, <3>1, <3>2 DEF OnceInv
  <2>5. CASE ~Good(h)
    <3>1. pushes' = pushes
      BY <2>1, <2>5, PushedIsGood
    <3> QED BY <2>1, <2>2, <2>3, <3>1 DEF OnceInv
  <2> QED BY <2>4, <2>5
<1>6. ASSUME NEW h \in Handlers, RunFails(h)
      PROVE  OnceInv'
  <2>1. /\ UNCHANGED <<profile, now, ticks, calm, pushes>> /\ run' = [run EXCEPT ![h] = Idle]
    BY <1>6 DEF RunFails, Finish
  <2>2. ~Good(h)' /\ \A g \in Handlers : g # h => Good(g)' = Good(g)
    BY <2>1 DEF Types, Idle, Good, Due, Today, Opening, Closing, Local
  <2>3. Spent => Spent'
    BY <2>1, StaysSpent
  <2> QED BY <2>1, <2>2, <2>3 DEF OnceInv
<1>7. CASE Study \/ CardsBecomeDue \/ \E t \in ticks : TickFails(t)
  BY <1>2, <1>7 DEF Study, CardsBecomeDue, TickFails
<1> QED BY <1>3, <1>4, <1>5, <1>6, <1>7 DEF RemindersNext
-----------------------------------------------------------------------------
(* At least one *)

\* A handler that has the user in hand will push, if he still wants it.
LEMMA InHandPushes ==
  ASSUME Types, Wanting, PromisedTo(profile, Today) >= Window, NEW h \in Handlers, InHand(h)
  PROVE  Pushed(h) /\ DayOf(Local(run[h].at)) = Today
<1>1. profile \in Profiles /\ run[h].at \in Int
  BY DEF Types, Run
<1>2. PICK l \in Int : l = Local(run[h].at)
  BY <1>1, Times DEF Local
<1>3. Opening < l /\ l <= Closing /\ Today * Day <= Opening
  BY <1>2, Times, Units DEF InHand
<1>4. Today * Day <= l /\ l < Today * Day + Day /\ Today \in Int
  BY <1>3, Times, Units
<1>5. DayOf(l) = Today
  BY <1>4, Days
<1>6. SendTime(l) = Closing
  BY <1>1, <1>5, SendIsPromised DEF Closing
<1>7. InWindow(l, SendTime(l))
  BY <1>2, <1>3, <1>6, Times, Units DEF InWindow
<1>8. IF profile.kind = "study" THEN due ELSE run[h].studied # DayOf(l)
  BY <1>5, Times DEF Wanting, InHand
<1> QED BY <1>2, <1>5, <1>7, <1>8 DEF Pushed

LEMMA EntitledStep ==
  ASSUME RemindersInv, RemindersNext
  PROVE  EntitledInv'
<1> USE DEF RemindersInv
<1> SUFFICES ASSUME entitled' PROVE EntitledInv'
  BY DEF EntitledInv
<1>1. profile.zone \in Int /\ now \in Int /\ Today \in Int /\ pushes \in 0..2
      /\ profile.kind \in {"study", "streak"}
      /\ \A h \in Handlers : run[h].at \in Int
  BY Times DEF Types, Run
<1>2. CASE UNCHANGED <<profile, now, run, pushes, ticks>> /\ entitled /\ Wanting'
  <2>1. \A h \in Handlers : InHand(h)' = InHand(h)
    BY <1>2 DEF InHand, Today, Opening, Closing, Local
  <2>2. Today' = Today /\ Opening' = Opening /\ Closing' = Closing /\ Local(now)' = Local(now)
        /\ \A t : Local(t)' = Local(t)
    BY <1>2, SameInstant
  <2> QED BY <1>2, <2>1, <2>2 DEF EntitledInv
<1>3. CASE Study
  BY <1>2, <1>3 DEF Study
<1>4. CASE CardsBecomeDue
  <2>1. entitled /\ UNCHANGED <<profile, now, run, pushes, ticks, studied>> /\ due'
    BY <1>4 DEF CardsBecomeDue
  <2>2. Wanting'
    BY <2>1 DEF EntitledInv, Wanting, Today, Local
  <2> QED BY <1>2, <2>1, <2>2
<1>5. ASSUME NEW h \in Handlers, NEW t0 \in ticks, NEW again \in BOOLEAN, HandleTick(h, t0, again)
      PROVE  EntitledInv'
  <2>1. /\ UNCHANGED <<profile, now, due, studied, pushes, entitled>> /\ ~run[h].busy
        /\ run' = [run EXCEPT ![h] = [busy |-> TRUE, at |-> now, studied |-> studied]]
        /\ ticks \ {t0} \subseteq ticks' /\ t0 < now
    BY <1>5 DEF HandleTick
  <2>2. run'[h] = [busy |-> TRUE, at |-> now, studied |-> studied]
        /\ \A g \in Handlers : g # h => run'[g] = run[g]
    BY <2>1 DEF Types
  <2>3. Today' = Today /\ Opening' = Opening /\ Closing' = Closing /\ Local(now)' = Local(now)
        /\ \A t : Local(t)' = Local(t)
    BY <2>1, SameInstant
  <2>4. \A g \in Handlers : InHand(g) => InHand(g)'
    <3>1. \A g \in Handlers : g # h => InHand(g)' = InHand(g)
      BY <2>1, <2>2, <2>3 DEF InHand, Local
    <3>2. ~InHand(h)
      BY <2>1 DEF InHand
    <3> QED BY <3>1, <3>2
  <2>5. entitled /\ Wanting /\ Wanting'
    BY <2>1 DEF EntitledInv, Wanting, Today, Local
  <2>6. ASSUME NEW t \in Int, t % Window = 0, Opening <= Local(t), Local(t) < Closing, t <= now
        PROVE  t \in ticks' \/ pushes' > 0 \/ \E g \in Handlers : InHand(g)'
    <3>1. t \in ticks \/ pushes > 0 \/ \E g \in Handlers : InHand(g)
      BY <2>5, <2>6 DEF EntitledInv
    <3>2. CASE t \in ticks /\ t # t0
      BY <2>1, <3>2
    <3>3. CASE t = t0
      <4>1. Opening < Local(now)
        BY <1>1, <2>1, <2>6, <3>3, Times DEF Local
      <4>2. CASE Local(now) > Closing
        BY <2>1, <2>5, <4>2 DEF EntitledInv
      <4>3. CASE ~(Local(now) > Closing)
        <5>1. Local(now) <= Closing
          BY <4>3, Times
        <5>2. profile.kind = "streak" => studied # Today
          BY <2>5 DEF Wanting
        <5>3. InHand(h)'
          BY <2>1, <2>2, <2>3, <4>1, <5>1, <5>2 DEF InHand, Local
        <5> QED BY <5>3
      <4> QED BY <4>2, <4>3
    <3> QED BY <2>1, <2>4, <3>1, <3>2, <3>3
  <2> QED BY <2>1, <2>3, <2>5, <2>6 DEF EntitledInv
<1>6. ASSUME NEW h \in Handlers, RunForUser(h)
      PROVE  EntitledInv'
  <2>1. /\ UNCHANGED <<profile, now, due, studied, ticks, entitled>>
        /\ run' = [run EXCEPT ![h] = Idle]
        /\ pushes' = IF Pushed(h) /\ DayOf(Local(run[h].at)) = Today /\ pushes < 2
                     THEN pushes + 1 ELSE pushes
    BY <1>6 DEF RunForUser, Finish
  <2>2. Today' = Today /\ Opening' = Opening /\ Closing' = Closing /\ Local(now)' = Local(now)
        /\ \A t : Local(t)' = Local(t)
    BY <2>1, SameInstant
  <2>3. \A g \in Handlers : g # h => InHand(g)' = InHand(g)
    BY <2>1, <2>2 DEF InHand, Types, Local
  <2>4. entitled /\ Wanting /\ Wanting' /\ PromisedTo(profile, Today) >= Window
    BY <2>1 DEF EntitledInv, Wanting, Today, Local
  <2>5. pushes > 0 => pushes' > 0
    BY <1>1, <2>1
  <2>6. InHand(h) => pushes' > 0
    BY <1>1, <2>1, <2>4, InHandPushes
  <2>7. ASSUME NEW t \in Int, t % Window = 0, Opening <= Local(t), Local(t) < Closing, t <= now
        PROVE  t \in ticks' \/ pushes' > 0 \/ \E g \in Handlers : InHand(g)'
    <3>1. t \in ticks \/ pushes > 0 \/ \E g \in Handlers : InHand(g)
      BY <2>4, <2>7 DEF EntitledInv
    <3> QED BY <2>1, <2>3, <2>5, <2>6, <3>1
  <2> QED BY <2>1, <2>2, <2>4, <2>5, <2>7 DEF EntitledInv
<1>7. CASE (\E t \in ticks : TickFails(t)) \/ (\E h \in Handlers : RunFails(h))
  BY <1>7 DEF TickFails, RunFails
<1>8. CASE Clock
  <2>1. /\ UNCHANGED <<profile, due, studied, run>> /\ now' = now + 1
        /\ ticks' = IF (now + 1) % Window = 0 THEN ticks \cup {now + 1} ELSE ticks
        /\ pushes' = IF Today' = Today THEN pushes ELSE 0
    BY <1>8, Zenon DEF Clock
  <2>2. Local(now)' = Local(now) + 1 /\ \A t : Local(t)' = Local(t)
    BY <1>1, <2>1 DEF Local
  <2>3. CASE Opens'
    <3>1. Wanting'
      BY <1>8, <2>3 DEF Clock
    <3>2. PICK l \in Int : l = Local(now)'
      BY <1>1, <2>1 DEF Local
    <3>3. PICK d \in Int : d = Today' /\ d = DayOf(l)
      BY <3>2, Days DEF Today
    <3>4. l % Day = PromisedTo(profile', d) - Window
      BY <2>3, <3>2, <3>3
         DEF Opens, TimeOfDay, Promised, PromisedTo, HourOf, ReminderOf, ReminderTime
    <3>5. profile' \in Profiles
      BY <2>1 DEF Types
    <3>6. PICK q \in Int : q = PromisedTo(profile', d)
      BY <3>5, PromisedTimes, Units
    <3>7. PICK m \in Int : m = d * Day /\ m <= l /\ l % Day = l - m
      BY <3>3, Days, Units
    <3>8. q >= Window /\ l = m + q - Window
      BY <3>4, <3>6, <3>7, Units
    <3>9. Opening' = l /\ Closing' = l + Window
      BY <3>3, <3>6, <3>7, <3>8, Units DEF Opening, Closing
    <3>10. ASSUME NEW t \in Int, t % Window = 0, Opening' <= Local(t)', t <= now'
           PROVE  t \in ticks'
      <4>1. t + profile.zone >= now' + profile.zone
        BY <2>1, <3>2, <3>9, <3>10 DEF Local
      <4>2. t = now + 1
        BY <1>1, <2>1, <3>10, <4>1
      <4> QED BY <2>1, <3>10, <4>2
    <3>11. ~(l > Closing')
      BY <3>9, Units
    <3> QED BY <3>1, <3>2, <3>3, <3>6, <3>8, <3>9, <3>10, <3>11 DEF EntitledInv
  <2>4. CASE ~Opens'
    <3>1. /\ entitled /\ Today' = Today
          /\ Closes => /\ \A t \in ticks : t >= now
                       /\ \A h \in Handlers : ~run[h].busy
      BY <1>8, <2>4 DEF Clock
    <3>2. Opening' = Opening /\ Closing' = Closing /\ pushes' = pushes
      BY <2>1, <3>1 DEF Opening, Closing
    <3>3. Wanting' /\ PromisedTo(profile', Today') >= Window
      BY <2>1, <3>1 DEF EntitledInv, Wanting
    <3>4. \A h \in Handlers : InHand(h)' = InHand(h)
      BY <2>1, <3>1, <3>2 DEF InHand, Local
    <3>5. ASSUME NEW t \in Int, t % Window = 0, Opening <= Local(t), Local(t) < Closing, t <= now'
          PROVE  t \in ticks' \/ pushes' > 0 \/ \E h \in Handlers : InHand(h)'
      <4>1. CASE t = now + 1
        BY <2>1, <3>5, <4>1
      <4>2. CASE t # now + 1
        <5>1. t <= now
          BY <1>1, <2>1, <3>5, <4>2
        <5>2. t \in ticks \/ pushes > 0 \/ \E h \in Handlers : InHand(h)
          BY <3>1, <3>5, <5>1 DEF EntitledInv
        <5> QED BY <2>1, <3>2, <3>4, <5>2
      <4> QED BY <4>1, <4>2
    <3>6. ASSUME Local(now) + 1 > Closing PROVE pushes > 0
      <4>1. CASE Local(now) > Closing
        BY <3>1, <4>1 DEF EntitledInv
      <4>2. CASE ~(Local(now) > Closing)
        <5>1. Local(now) = Closing
          BY <3>6, <4>2, Times
        <5>2. Closes
          BY <5>1, Times, Promises DEF Closes
        <5>3. PICK t \in Int : t % Window = 0 /\ now - Window <= t /\ t < now
          BY <1>1, SomeTick
        <5>4. Opening <= Local(t) /\ Local(t) < Closing
          BY <1>1, <5>1, <5>3, Times, Units DEF Local
        <5>5. t \in ticks \/ pushes > 0 \/ \E h \in Handlers : InHand(h)
          BY <1>1, <3>1, <5>3, <5>4 DEF EntitledInv
        <5>6. t \notin ticks /\ \A h \in Handlers : ~InHand(h)
          BY <1>1, <3>1, <5>2, <5>3 DEF InHand
        <5> QED BY <5>5, <5>6
      <4> QED BY <4>1, <4>2
    <3>7. Local(now)' >= Opening
      BY <2>2, <3>1, Times DEF EntitledInv
    <3> QED BY <2>2, <3>2, <3>3, <3>5, <3>6, <3>7 DEF EntitledInv
  <2> QED BY <2>3, <2>4
<1> QED BY <1>3, <1>4, <1>5, <1>6, <1>7, <1>8 DEF RemindersNext

LEMMA RemindersStutter == RemindersInv /\ UNCHANGED remindersVars => RemindersInv'
<1> SUFFICES ASSUME RemindersInv, UNCHANGED remindersVars PROVE RemindersInv'
  OBVIOUS
<1> USE DEF RemindersInv, remindersVars
<1>1. Types' /\ TicksInv' /\ PastInv'
  BY DEF Types, TicksInv, PastInv
<1>2. OnceInv'
  BY DEF OnceInv, Spent, Good, Due, Today, Opening, Closing, Local
<1>3. EntitledInv'
  BY DEF EntitledInv, Wanting, InHand, Today, Opening, Closing, Local
<1> QED BY <1>1, <1>2, <1>3

LEMMA RemindersInvHolds == RemindersSpec => []RemindersInv
<1>1. RemindersInv /\ [RemindersNext]_remindersVars => RemindersInv'
  BY TypesStep, OnceStep, EntitledStep, RemindersStutter DEF RemindersInv
<1> QED
  BY RemindersInitInv, <1>1, PTL DEF RemindersSpec

-----------------------------------------------------------------------------
\* The types, and that a send time is on the local day or a quarter of an hour
\* before it, in every zone and for every setting of the user.
THEOREM RemindersTypeCorrect == RemindersSpec => []RemindersTypeOK
<1>1. RemindersInv => RemindersTypeOK
  BY TypesAreOK DEF RemindersInv
<1> QED BY RemindersInvHolds, <1>1, PTL

\* A user who wants his reminder from the opening of its window on has it when
\* the window closes, unless a call fails or a tick comes too late: for every
\* zone, hour and reminder, and any handlers that overlap or repeat.
THEOREM EntitledAreReminded == RemindersSpec => []DueIsReminded
<1>1. ASSUME RemindersInv PROVE DueIsReminded
  <2> SUFFICES ASSUME entitled, TimeOfDay > Promised(Today) PROVE pushes > 0
    BY DEF DueIsReminded
  <2>1. Local(now) > Closing
    BY <1>1, Times, Promises DEF RemindersInv
  <2> QED BY <1>1, <2>1 DEF RemindersInv, EntitledInv
<1> QED BY RemindersInvHolds, <1>1, PTL

\* A user has one reminder at most on a day whose ticks were handled once and at
\* once.
THEOREM CalmDaysRemindOnce == RemindersSpec => []OneReminder
<1>1. RemindersInv => OneReminder
  BY DEF RemindersInv, OnceInv, OneReminder
<1> QED BY RemindersInvHolds, <1>1, PTL
=============================================================================

----------------------- MODULE WindowJudgementProofs -----------------------
(***************************************************************************)
(* Proofs about WindowJudgement for any windows, addresses, balances and   *)
(* tolerances: named payouts are accounted for to the last luna, strays    *)
(* leave a failing row, and an accepted window credits everything that was *)
(* paid out and treats any two stakers alike.                              *)
(***************************************************************************)
EXTENDS WindowJudgement, FiniteSetTheorems, FunctionTheorems, SequenceTheorems,
        WellFoundedInduction, TLAPS

-----------------------------------------------------------------------------
\* Induction.  The library's theorems take an operator; a set says the same.

LEMMA InductionOnSet ==
    ASSUME NEW S \in SUBSET Nat, 0 \in S, \A n \in S : n + 1 \in S
    PROVE  S = Nat
<1> DEFINE less == OpToRel(<, Nat)
           others == Nat \ S
<1>1. \A x, y \in Nat : x < y => <<x, y>> \in less
  BY DEF OpToRel
<1>2. IsWellFoundedOn(less, Nat)
  BY NatLessThanWellFounded
<1> HIDE DEF less
<1> SUFFICES ASSUME others # {} PROVE FALSE
  OBVIOUS
<1>3. PICK n \in others : \A m \in others : ~(<<m, n>> \in less)
  BY <1>2, WFMin
<1>4. n - 1 \in Nat /\ n - 1 < n
  BY <1>3
<1>5. n - 1 \in S
  BY <1>1, <1>3, <1>4
<1> QED
  BY <1>3, <1>4, <1>5

\* A set that has T whenever it has T without any one of its elements has
\* every subset of a finite set.
LEMMA SetInduction ==
    ASSUME NEW S, IsFiniteSet(S), NEW family,
           \A T \in SUBSET S : (\A x \in T : T \ {x} \in family) => T \in family
    PROVE  \A T \in SUBSET S : T \in family
<1> DEFINE N == {n \in Nat : \A T \in SUBSET S : Cardinality(T) = n => T \in family}
<1>1. \A T \in SUBSET S : IsFiniteSet(T) /\ Cardinality(T) \in Nat
  BY FS_Subset, FS_CardinalityType
<1>2. 0 \in N
  <2> SUFFICES ASSUME NEW T \in SUBSET S, Cardinality(T) = 0 PROVE T \in family
    OBVIOUS
  <2>1. T = {}
    BY <1>1, FS_EmptySet
  <2> QED
    BY <2>1
<1>3. ASSUME NEW n \in N PROVE n + 1 \in N
  <2> SUFFICES ASSUME NEW T \in SUBSET S, Cardinality(T) = n + 1 PROVE T \in family
    OBVIOUS
  <2>1. ASSUME NEW x \in T PROVE T \ {x} \in family
    <3>1. Cardinality(T \ {x}) = n
      BY <1>1, FS_RemoveElement
    <3> QED
      BY <3>1
  <2> QED
    BY <2>1
<1>4. N = Nat
  <2>1. N \in SUBSET Nat
    OBVIOUS
  <2> HIDE DEF N
  <2> QED
    BY <1>2, <1>3, <2>1, InductionOnSet
<1> QED
  BY <1>1, <1>4

-----------------------------------------------------------------------------
\* Sums over finite sets.

\* The recursion that SumFunctionOnSet unfolds to, one step.
Step(f, sums, T) ==
    IF T = {} THEN 0 ELSE f[CHOOSE x \in T : TRUE] + sums[T \ {CHOOSE x \in T : TRUE}]

LEMMA SumRecursion ==
    ASSUME NEW f, NEW S, IsFiniteSet(S)
    PROVE  \E sums : /\ \A T \in SUBSET S : sums[T] = Step(f, sums, T)
                     /\ SumFunctionOnSet(f, S) = sums[S]
<1> DEFINE D(n) == {T \in SUBSET S : Cardinality(T) <= n}
           Is(g, n) == \A T \in D(n) : g[T] = Step(f, g, T)
           N == {n \in Nat : \E g : Is(g, n)}
           Rec(g) == [T \in SUBSET S |-> Step(f, g, T)]
           sums == CHOOSE g : g = Rec(g)
<1>1. \A T \in SUBSET S : /\ IsFiniteSet(T) /\ Cardinality(T) \in Nat
                          /\ Cardinality(T) <= Cardinality(S)
  BY FS_Subset, FS_CardinalityType
<1>2. 0 \in N
  <2>1. Is([T \in SUBSET S |-> 0], 0)
    <3> SUFFICES ASSUME NEW T \in D(0) PROVE Step(f, [U \in SUBSET S |-> 0], T) = 0
      OBVIOUS
    <3>1. T = {}
      BY <1>1, FS_EmptySet
    <3> QED
      BY <3>1 DEF Step
  <2> HIDE DEF Is
  <2> QED
    BY <2>1
<1>3. ASSUME NEW n \in N PROVE n + 1 \in N
  <2>1. n \in Nat
    OBVIOUS
  <2>2. PICK g : Is(g, n)
    OBVIOUS
  <2> DEFINE h == [T \in SUBSET S |-> IF T \in D(n) THEN g[T] ELSE Step(f, g, T)]
  <2>3. ASSUME NEW T \in D(n + 1) PROVE h[T] = Step(f, h, T)
    <3>1. h[T] = Step(f, g, T)
      BY <2>2
    <3>2. CASE T = {}
      BY <3>1, <3>2 DEF Step
    <3>3. CASE T # {}
      <4> DEFINE x == CHOOSE x \in T : TRUE
      <4>1. x \in T
        BY <3>3
      <4> HIDE DEF x
      <4>2. T \ {x} \in D(n)
        BY <1>1, <2>1, <4>1, FS_RemoveElement
      <4>3. h[T \ {x}] = g[T \ {x}]
        BY <4>2
      <4> QED
        BY <3>1, <4>3 DEF Step, x
    <3> QED
      BY <3>2, <3>3
  <2> HIDE DEF h
  <2>4. Is(h, n + 1)
    BY <2>3
  <2> HIDE DEF Is
  <2> QED
    BY <2>1, <2>4
<1>4. N = Nat
  <2>1. N \in SUBSET Nat
    OBVIOUS
  <2> HIDE DEF N
  <2> QED
    BY <1>2, <1>3, <2>1, InductionOnSet
<1>5. \E g : g = Rec(g)
  <2>1. PICK g : Is(g, Cardinality(S))
    BY <1>1, <1>4
  <2>2. \A T \in SUBSET S : g[T] = Step(f, g, T)
    BY <1>1, <2>1
  <2> DEFINE h == [T \in SUBSET S |-> g[T]]
  <2>3. \A T \in SUBSET S : Step(f, h, T) = Step(f, g, T)
    BY DEF Step
  <2>4. h = Rec(h)
    BY <2>2, <2>3
  <2> QED
    BY <2>4
<1>6. sums = Rec(sums)
  <2> HIDE DEF Rec
  <2> QED
    BY <1>5
<1>7. SumFunctionOnSet(f, S) = sums[S]
  BY DEF SumFunctionOnSet, FoldFunctionOnSet, MapThenFoldSet, Step
<1>8. \A T \in SUBSET S : sums[T] = Step(f, sums, T)
  <2> HIDE DEF sums
  <2> QED
    BY <1>6
<1> HIDE DEF sums
<1> QED
  BY <1>7, <1>8

\* Sums are integers, and any element may be taken out first.
LEMMA SumSplits ==
    ASSUME NEW f, NEW S, IsFiniteSet(S), \A x \in S : f[x] \in Int,
           NEW sums, \A T \in SUBSET S : sums[T] = Step(f, sums, T)
    PROVE  /\ \A T \in SUBSET S : sums[T] \in Int
           /\ \A a \in S : sums[S] = f[a] + sums[S \ {a}]
<1> DEFINE ints == {T \in SUBSET S : sums[T] \in Int}
           splits == {T \in SUBSET S : \A a \in T : sums[T] = f[a] + sums[T \ {a}]}
           p(T) == CHOOSE x \in T : TRUE
<1>1. \A T \in SUBSET S : T # {} => p(T) \in T /\ sums[T] = f[p(T)] + sums[T \ {p(T)}]
  BY DEF Step
<1>2. sums[{}] = 0
  BY DEF Step
<1> HIDE DEF p
<1>3. ASSUME NEW T \in SUBSET S, \A x \in T : T \ {x} \in ints PROVE T \in ints
  <2>1. CASE T = {}
    BY <1>2, <2>1
  <2>2. CASE T # {}
    <3>1. p(T) \in T /\ sums[T] = f[p(T)] + sums[T \ {p(T)}]
      BY <1>1, <2>2
    <3>2. sums[T \ {p(T)}] \in Int
      BY <1>3, <3>1
    <3> QED
      BY <3>1, <3>2
  <2> QED
    BY <2>1, <2>2
<1>4. \A T \in SUBSET S : sums[T] \in Int
  <2>1. \A T \in SUBSET S : T \in ints
    <3> HIDE DEF ints
    <3> QED
      BY <1>3, SetInduction
  <2> QED
    BY <2>1
<1>5. ASSUME NEW T \in SUBSET S, \A x \in T : T \ {x} \in splits PROVE T \in splits
  <2> SUFFICES ASSUME NEW a \in T PROVE sums[T] = f[a] + sums[T \ {a}]
    OBVIOUS
  <2> DEFINE q == p(T)
             U == (T \ {q}) \ {a}
  <2>1. q \in T /\ sums[T] = f[q] + sums[T \ {q}]
    BY <1>1
  <2>2. CASE a # q
    <3>1. U = (T \ {a}) \ {q} /\ U \in SUBSET S
      OBVIOUS
    <3>2. sums[T \ {q}] = f[a] + sums[U]
      BY <1>5, <2>1, <2>2
    <3>3. sums[T \ {a}] = f[q] + sums[U]
      BY <1>5, <2>1, <2>2, <3>1
    <3>4. f[a] \in Int /\ f[q] \in Int /\ sums[U] \in Int
      BY <1>4, <2>1, <3>1
    <3> HIDE DEF U, q
    <3> QED
      BY <2>1, <3>2, <3>3, <3>4
  <2> QED
    BY <2>1, <2>2
<1>6. \A T \in SUBSET S : T \in splits
  <2> HIDE DEF splits
  <2> QED
    BY <1>5, SetInduction
<1> QED
  <2>1. S \in splits
    <3> HIDE DEF splits
    <3> QED
      BY <1>6
  <2> QED
    BY <1>4, <2>1

\* Two recursions agree on the sets they share.
LEMMA SumUnique ==
    ASSUME NEW f, NEW S, IsFiniteSet(S), NEW sums, NEW others,
           \A T \in SUBSET S : sums[T] = Step(f, sums, T),
           \A T \in SUBSET S : others[T] = Step(f, others, T)
    PROVE  sums[S] = others[S]
<1> DEFINE same == {T \in SUBSET S : sums[T] = others[T]}
<1>1. ASSUME NEW T \in SUBSET S, \A x \in T : T \ {x} \in same PROVE T \in same
  <2>1. Step(f, sums, T) = Step(f, others, T)
    <3> DEFINE x == CHOOSE x \in T : TRUE
    <3>1. T # {} => x \in T
      OBVIOUS
    <3> HIDE DEF x
    <3>2. T # {} => sums[T \ {x}] = others[T \ {x}]
      BY <1>1, <3>1
    <3> QED
      BY <3>2 DEF Step, x
  <2> QED
    BY <2>1
<1>2. \A T \in SUBSET S : T \in same
  <2> HIDE DEF same
  <2> QED
    BY <1>1, SetInduction
<1> QED
  BY <1>2

\* What the later proofs use of sums: the empty sum, one element less, the type.
LEMMA SumEmpty == ASSUME NEW f PROVE SumFunctionOnSet(f, {}) = 0
<1>1. IsFiniteSet({})
  BY FS_EmptySet
<1>2. PICK sums : /\ \A T \in SUBSET {} : sums[T] = Step(f, sums, T)
                  /\ SumFunctionOnSet(f, {}) = sums[{}]
  BY <1>1, SumRecursion
<1> QED
  BY <1>2 DEF Step

LEMMA SumInt ==
    ASSUME NEW f, NEW S, IsFiniteSet(S), \A x \in S : f[x] \in Int
    PROVE  SumFunctionOnSet(f, S) \in Int
<1>1. PICK sums : /\ \A T \in SUBSET S : sums[T] = Step(f, sums, T)
                  /\ SumFunctionOnSet(f, S) = sums[S]
  BY SumRecursion
<1> QED
  BY <1>1, SumSplits

LEMMA SumRemove ==
    ASSUME NEW f, NEW S, IsFiniteSet(S), \A x \in S : f[x] \in Int, NEW a \in S
    PROVE  SumFunctionOnSet(f, S) = f[a] + SumFunctionOnSet(f, S \ {a})
<1>1. PICK sums : /\ \A T \in SUBSET S : sums[T] = Step(f, sums, T)
                  /\ SumFunctionOnSet(f, S) = sums[S]
  BY SumRecursion
<1>2. IsFiniteSet(S \ {a})
  BY FS_RemoveElement
<1>3. PICK less : /\ \A T \in SUBSET (S \ {a}) : less[T] = Step(f, less, T)
                  /\ SumFunctionOnSet(f, S \ {a}) = less[S \ {a}]
  BY <1>2, SumRecursion
<1>4. \A T \in SUBSET (S \ {a}) : sums[T] = Step(f, sums, T)
  BY <1>1
<1>5. sums[S \ {a}] = less[S \ {a}]
  <2> DEFINE R == S \ {a}
  <2>1. /\ IsFiniteSet(R)
        /\ \A T \in SUBSET R : sums[T] = Step(f, sums, T)
        /\ \A T \in SUBSET R : less[T] = Step(f, less, T)
    BY <1>2, <1>3, <1>4
  <2> HIDE DEF R
  <2>2. sums[R] = less[R]
    BY <2>1, SumUnique
  <2> QED
    BY <2>2 DEF R
<1>6. sums[S] = f[a] + sums[S \ {a}]
  BY <1>1, SumSplits
<1> QED
  BY <1>1, <1>3, <1>5, <1>6

LEMMA SumNat ==
    ASSUME NEW f, NEW S, IsFiniteSet(S), \A x \in S : f[x] \in Nat
    PROVE  SumFunctionOnSet(f, S) \in Nat
<1> DEFINE nats == {T \in SUBSET S : SumFunctionOnSet(f, T) \in Nat}
<1>1. ASSUME NEW T \in SUBSET S, \A x \in T : T \ {x} \in nats PROVE T \in nats
  <2>1. CASE T = {}
    BY <2>1, SumEmpty
  <2>2. ASSUME NEW a \in T PROVE T \in nats
    <3>1. IsFiniteSet(T) /\ \A x \in T : f[x] \in Int
      BY FS_Subset
    <3>2. SumFunctionOnSet(f, T) = f[a] + SumFunctionOnSet(f, T \ {a})
      BY <3>1, SumRemove
    <3> QED
      BY <1>1, <3>2
  <2> QED
    BY <2>1, <2>2
<1>2. \A T \in SUBSET S : T \in nats
  <2> HIDE DEF nats
  <2> QED
    BY <1>1, SetInduction
<1> QED
  BY <1>2

LEMMA SumMember ==
    ASSUME NEW f, NEW S, IsFiniteSet(S), \A x \in S : f[x] \in Nat, NEW a \in S
    PROVE  f[a] <= SumFunctionOnSet(f, S)
<1>1. IsFiniteSet(S \ {a}) /\ \A x \in S : f[x] \in Int
  BY FS_RemoveElement
<1>2. SumFunctionOnSet(f, S \ {a}) \in Nat
  BY <1>1, SumNat
<1>3. SumFunctionOnSet(f, S) = f[a] + SumFunctionOnSet(f, S \ {a})
  BY <1>1, SumRemove
<1> QED
  BY <1>2, <1>3

\* A set and a disjoint one add up.
LEMMA SumUnion ==
    ASSUME NEW f, NEW R, NEW S, IsFiniteSet(R), IsFiniteSet(S), R \cap S = {},
           \A x \in R \cup S : f[x] \in Int
    PROVE  SumFunctionOnSet(f, R \cup S) = SumFunctionOnSet(f, R) + SumFunctionOnSet(f, S)
<1> DEFINE add == {T \in SUBSET S : SumFunctionOnSet(f, R \cup T)
                                      = SumFunctionOnSet(f, R) + SumFunctionOnSet(f, T)}
<1>0. SumFunctionOnSet(f, R) \in Int
  BY SumInt
<1>1. ASSUME NEW T \in SUBSET S, \A x \in T : T \ {x} \in add PROVE T \in add
  <2>1. CASE T = {}
    <3>1. R \cup T = R /\ SumFunctionOnSet(f, T) = 0
      BY <2>1, SumEmpty
    <3>2. SumFunctionOnSet(f, R \cup T) = SumFunctionOnSet(f, R)
      BY <3>1
    <3>3. SumFunctionOnSet(f, R \cup T) = SumFunctionOnSet(f, R) + SumFunctionOnSet(f, T)
      BY <1>0, <3>1, <3>2
    <3> QED
      BY <3>3
  <2>2. ASSUME NEW a \in T PROVE T \in add
    <3>1. /\ IsFiniteSet(T) /\ IsFiniteSet(T \ {a}) /\ IsFiniteSet(R \cup T)
          /\ \A x \in T : f[x] \in Int
          /\ \A x \in R \cup T : f[x] \in Int
      BY FS_Subset, FS_Union, FS_RemoveElement
    <3>2. SumFunctionOnSet(f, T) = f[a] + SumFunctionOnSet(f, T \ {a})
      BY <3>1, SumRemove
    <3>3. SumFunctionOnSet(f, R \cup T) = f[a] + SumFunctionOnSet(f, (R \cup T) \ {a})
      BY <3>1, SumRemove
    <3>4. (R \cup T) \ {a} = R \cup (T \ {a})
      OBVIOUS
    <3>5. SumFunctionOnSet(f, T \ {a}) \in Int /\ f[a] \in Int
      BY <3>1, SumInt
    <3>6. SumFunctionOnSet(f, R \cup (T \ {a}))
            = SumFunctionOnSet(f, R) + SumFunctionOnSet(f, T \ {a})
      BY <1>1
    <3>7. SumFunctionOnSet(f, R \cup T) = f[a] + SumFunctionOnSet(f, R \cup (T \ {a}))
      BY <3>3, <3>4
    <3> QED
      BY <1>0, <3>2, <3>5, <3>6, <3>7
  <2> QED
    BY <2>1, <2>2
<1>2. \A T \in SUBSET S : T \in add
  <2> HIDE DEF add
  <2> QED
    BY <1>1, SetInduction
<1> QED
  BY <1>2

-----------------------------------------------------------------------------
\* Finite sets in sequence.

LEMMA SeqOfSet ==
    ASSUME NEW S, IsFiniteSet(S)
    PROVE  /\ SetToSeq(S) \in [1..Cardinality(S) -> S]
           /\ \A i, j \in 1..Cardinality(S) : SetToSeq(S)[i] = SetToSeq(S)[j] => i = j
           /\ \A x \in S : \E i \in 1..Cardinality(S) : SetToSeq(S)[i] = x
<1> DEFINE n == Cardinality(S)
           s == SetToSeq(S)
<1>1. n \in Nat /\ ExistsBijection(1..n, S)
  BY FS_CardinalityType
<1>2. \E g \in [1..n -> S] : IsInjective(g)
  BY <1>1 DEF ExistsBijection, Bijection, Injection
<1>3. s \in [1..n -> S] /\ IsInjective(s)
  BY <1>2 DEF SetToSeq
<1> HIDE DEF n, s
<1>4. s \in Injection(1..n, S)
  BY <1>3 DEF Injection
<1>5. Cardinality(1..n) = n
  BY <1>1, FS_Interval
<1>6. s \in Surjection(1..n, S)
  BY <1>4, <1>5, FS_Injection DEF n
<1>7. \A i, j \in 1..n : s[i] = s[j] => i = j
  BY <1>3 DEF IsInjective
<1>8. \A x \in S : \E i \in 1..n : s[i] = x
  BY <1>6 DEF Surjection
<1> QED
  BY <1>3, <1>7, <1>8 DEF n, s

\* Every place in a finite set of numbers is somebody's.
LEMMA Places ==
    ASSUME NEW S \in SUBSET Int, IsFiniteSet(S)
    PROVE  /\ \A i \in S : Cardinality({j \in S : j <= i}) \in 1..Cardinality(S)
           /\ \A h, i \in S : Cardinality({j \in S : j <= h}) = Cardinality({j \in S : j <= i})
                                => h = i
           /\ \A n \in 1..Cardinality(S) :
                \E i \in S : Cardinality({j \in S : j <= i}) = n
<1> DEFINE upTo(i) == {j \in S : j <= i}
           place == [i \in S |-> Cardinality(upTo(i))]
           n == Cardinality(S)
<1>1. n \in Nat
  BY FS_CardinalityType
<1>2. ASSUME NEW i \in S
      PROVE  IsFiniteSet(upTo(i)) /\ Cardinality(upTo(i)) \in 1..n
  <2>1. IsFiniteSet(upTo(i)) /\ Cardinality(upTo(i)) <= n
    BY FS_Subset
  <2>2. i \in upTo(i)
    OBVIOUS
  <2>3. Cardinality(upTo(i)) # 0 /\ Cardinality(upTo(i)) \in Nat
    BY <2>1, <2>2, FS_EmptySet, FS_CardinalityType
  <2> QED
    BY <1>1, <2>1, <2>3
<1>3. ASSUME NEW i \in S, NEW j \in S, i < j PROVE Cardinality(upTo(i)) # Cardinality(upTo(j))
  <2>1. upTo(i) \in SUBSET upTo(j) /\ j \in upTo(j) /\ j \notin upTo(i)
    <3>1. i \in Int /\ j \in Int /\ \A k \in S : k \in Int
      OBVIOUS
    <3>2. \A k \in S : k <= i => k <= j
      BY <1>3, <3>1
    <3>3. j <= j /\ ~(j <= i)
      BY <1>3, <3>1
    <3> QED
      BY <3>2, <3>3
  <2>2. upTo(i) # upTo(j)
    BY <2>1
  <2> HIDE DEF upTo
  <2> QED
    BY <1>2, <2>1, <2>2, FS_Subset
<1>4. place \in Injection(S, 1..n)
  <2>1. place \in [S -> 1..n]
    BY <1>2
  <2>2. ASSUME NEW i \in S, NEW j \in S, place[i] = place[j] PROVE i = j
    <3>1. ~(i < j) /\ ~(j < i)
      BY <1>3, <2>2
    <3> QED
      BY <3>1
  <2>3. IsInjective(place)
    BY <2>1, <2>2 DEF IsInjective
  <2> QED
    BY <2>1, <2>3 DEF Injection
<1>5. IsFiniteSet(1..n) /\ Cardinality(1..n) = n
  BY <1>1, FS_Interval
<1> HIDE DEF place
<1>6. place \in Surjection(S, 1..n)
  BY <1>4, <1>5, FS_Injection
<1>7. \A k \in 1..n : \E i \in S : place[i] = k
  BY <1>6 DEF Surjection
<1> QED
  <2>1. \A h, i \in S : Cardinality(upTo(h)) = Cardinality(upTo(i)) => h = i
    <3>1. \A h, i \in S : h < i \/ i < h \/ h = i
      OBVIOUS
    <3> HIDE DEF upTo
    <3> QED
      BY <1>3, <3>1
  <2> QED
    BY <1>2, <1>7, <2>1 DEF place

-----------------------------------------------------------------------------
\* Rows and payouts.

LEMMA WindowTypes ==
    ASSUME NEW w, IsWindow(w)
    PROVE  /\ Len(w.rows) \in Nat /\ DOMAIN w.rows = 1..Len(w.rows)
           /\ IsFiniteSet(DOMAIN w.rows) /\ DOMAIN w.rows \in SUBSET Int
           /\ PayoutRows(w) \in SUBSET DOMAIN w.rows /\ IsFiniteSet(PayoutRows(w))
           /\ StrayRows(w) \in SUBSET DOMAIN w.rows /\ IsFiniteSet(StrayRows(w))
           /\ OpenStakers(w) \in SUBSET DOMAIN w.before /\ IsFiniteSet(OpenStakers(w))
           /\ \A a \in DOMAIN w.before : w.before[a] \in Nat
           /\ \A a \in DOMAIN w.after : w.after[a] \in Nat
<1>1. Len(w.rows) \in Nat /\ DOMAIN w.rows = 1..Len(w.rows)
  <2> DEFINE R == Range(w.rows)
  <2>1. w.rows \in Seq(R)
    BY DEF IsWindow
  <2> HIDE DEF R
  <2> QED
    BY <2>1
<1>2. IsFiniteSet(DOMAIN w.rows) /\ DOMAIN w.rows \in SUBSET Int
  BY <1>1, FS_Interval
<1>3. PayoutRows(w) \in SUBSET DOMAIN w.rows /\ StrayRows(w) \in SUBSET DOMAIN w.rows
  BY DEF PayoutRows, StrayRows
<1>4. IsFiniteSet(PayoutRows(w)) /\ IsFiniteSet(StrayRows(w))
  BY <1>2, <1>3, FS_Subset
<1>5. OpenStakers(w) \in SUBSET DOMAIN w.before /\ IsFiniteSet(DOMAIN w.before)
  BY DEF OpenStakers, IsWindow, Balances
<1>6. IsFiniteSet(OpenStakers(w))
  BY <1>5, FS_Subset
<1>7. /\ \A a \in DOMAIN w.before : w.before[a] \in Nat
      /\ \A a \in DOMAIN w.after : w.after[a] \in Nat
  BY DEF IsWindow, Balances
<1> QED
  BY <1>1, <1>2, <1>3, <1>4, <1>5, <1>6, <1>7

LEMMA RowSums ==
    ASSUME NEW w, IsWindow(w), NEW I \in SUBSET DOMAIN w.rows
    PROVE  IsFiniteSet(I) /\ SumRows(w, I) \in Nat
<1>1. IsFiniteSet(I)
  BY WindowTypes, FS_Subset
<1>2. \A i \in DOMAIN w.rows : w.rows[i].amount \in Nat
  BY DEF IsWindow
<1>3. \A i \in I : [j \in DOMAIN w.rows |-> w.rows[j].amount][i] \in Nat
  BY <1>2
<1> QED
  BY <1>1, <1>3, SumNat DEF SumRows

LEMMA RowSumsAdd ==
    ASSUME NEW w, IsWindow(w), NEW I \in SUBSET DOMAIN w.rows,
           NEW J \in SUBSET DOMAIN w.rows, I \cap J = {}
    PROVE  SumRows(w, I \cup J) = SumRows(w, I) + SumRows(w, J)
<1>1. IsFiniteSet(I) /\ IsFiniteSet(J)
  BY RowSums
<1>2. \A i \in DOMAIN w.rows : w.rows[i].amount \in Nat
  BY DEF IsWindow
<1>3. \A i \in I \cup J : [j \in DOMAIN w.rows |-> w.rows[j].amount][i] \in Int
  BY <1>2
<1> QED
  BY <1>1, <1>3, SumUnion DEF SumRows

\* What some stakers were paid is what the rows that name them amount to.
RowsTo(w, S) == {i \in PayoutRows(w) : StakerOf(w.rows[i]) \in S}

LEMMA PaidByRows ==
    ASSUME NEW w, IsWindow(w), NEW S, IsFiniteSet(S)
    PROVE  /\ \A a \in S : Paid(w, a) \in Nat
           /\ PaidTo(w, S) = SumRows(w, RowsTo(w, S))
<1> DEFINE paid == [a \in S |-> Paid(w, a)]
           matched == {T \in SUBSET S : SumFunctionOnSet(paid, T) = SumRows(w, RowsTo(w, T))}
<1>1. \A T : RowsTo(w, T) \in SUBSET DOMAIN w.rows
  BY WindowTypes DEF RowsTo
<1>2. \A a : Paid(w, a) = SumRows(w, RowsTo(w, {a}))
  BY DEF Paid, RowsTo
<1>3. \A a : Paid(w, a) \in Nat
  BY <1>1, <1>2, RowSums
<1>4. \A a \in S : paid[a] \in Int
  BY <1>3
<1>5. ASSUME NEW T \in SUBSET S, \A x \in T : T \ {x} \in matched PROVE T \in matched
  <2>1. CASE T = {}
    <3>1. RowsTo(w, T) = {}
      BY <2>1 DEF RowsTo
    <3>2. SumFunctionOnSet(paid, T) = 0 /\ SumRows(w, RowsTo(w, T)) = 0
      BY <2>1, <3>1, SumEmpty DEF SumRows
    <3> QED
      BY <3>2
  <2>2. ASSUME NEW a \in T PROVE T \in matched
    <3>1. SumFunctionOnSet(paid, T) = paid[a] + SumFunctionOnSet(paid, T \ {a})
      <4>1. IsFiniteSet(T) /\ \A x \in T : paid[x] \in Int
        BY <1>4, FS_Subset
      <4> HIDE DEF paid
      <4> QED
        BY <4>1, SumRemove
    <3>2. /\ RowsTo(w, T) = RowsTo(w, {a}) \cup RowsTo(w, T \ {a})
          /\ RowsTo(w, {a}) \cap RowsTo(w, T \ {a}) = {}
      BY DEF RowsTo
    <3>3. SumRows(w, RowsTo(w, T)) = SumRows(w, RowsTo(w, {a})) + SumRows(w, RowsTo(w, T \ {a}))
      <4> DEFINE I == RowsTo(w, {a})
                 J == RowsTo(w, T \ {a})
      <4>1. I \in SUBSET DOMAIN w.rows /\ J \in SUBSET DOMAIN w.rows
        BY <1>1
      <4>2. RowsTo(w, T) = I \cup J /\ I \cap J = {}
        BY <3>2
      <4> HIDE DEF I, J
      <4>3. SumRows(w, I \cup J) = SumRows(w, I) + SumRows(w, J)
        BY <4>1, <4>2, RowSumsAdd
      <4> QED
        BY <4>2, <4>3 DEF I, J
    <3>4. paid[a] = SumRows(w, RowsTo(w, {a}))
      BY <1>2
    <3>5. SumFunctionOnSet(paid, T \ {a}) = SumRows(w, RowsTo(w, T \ {a}))
      BY <1>5
    <3> QED
      BY <3>1, <3>3, <3>4, <3>5
  <2> QED
    BY <2>1, <2>2
<1>6. \A T \in SUBSET S : T \in matched
  <2> HIDE DEF matched
  <2> QED
    BY <1>5, SetInduction
<1>7. PaidTo(w, S) = SumFunctionOnSet(paid, S)
  BY DEF PaidTo, SumFunction
<1> QED
  BY <1>3, <1>6, <1>7

LEMMA PayeesFinite ==
    ASSUME NEW w, IsWindow(w)
    PROVE  IsFiniteSet(Payees(w)) /\ IsFiniteSet(Joiners(w))
<1> DEFINE named == [i \in PayoutRows(w) |-> StakerOf(w.rows[i])]
           all == {StakerOf(w.rows[i]) : i \in PayoutRows(w)}
<1>1. IsFiniteSet(PayoutRows(w))
  BY WindowTypes
<1>2. named \in Surjection(PayoutRows(w), all)
  BY DEF Surjection
<1>3. IsFiniteSet(all)
  <2> HIDE DEF named, all
  <2> QED
    BY <1>1, <1>2, FS_Surjection
<1>4. Payees(w) \in SUBSET all
  BY DEF Payees
<1>5. Joiners(w) \in SUBSET all
  BY <1>4 DEF Joiners
<1> HIDE DEF all
<1> QED
  BY <1>3, <1>4, <1>5, FS_Subset

\* With named payouts every row is a credit, a joiner's payout or a stray.
LEMMA NamedAddUp ==
    ASSUME NEW w, IsWindow(w), Mode(w) = "tx"
    PROVE  /\ PaidOut(w) = Credits(w) + Unaccounted(w)
           /\ PaidOut(w) \in Nat
<1> DEFINE O == OpenStakers(w)
           J == Joiners(w)
           P == PayoutRows(w)
<1>1. IsFiniteSet(O) /\ IsFiniteSet(J) /\ P \in SUBSET DOMAIN w.rows
  BY WindowTypes, PayeesFinite
<1>2. RowsTo(w, O) \in SUBSET P /\ RowsTo(w, J) \in SUBSET P
  BY DEF RowsTo
<1>3. P = RowsTo(w, O) \cup RowsTo(w, J)
  <2>1. ASSUME NEW i \in P PROVE StakerOf(w.rows[i]) \in O \cup J
    <3>1. StakerOf(w.rows[i]) # NoAddr
      BY DEF Mode
    <3> QED
      BY <3>1 DEF Payees, Joiners
  <2> QED
    BY <2>1 DEF RowsTo
<1>4. RowsTo(w, O) \cap RowsTo(w, J) = {}
  BY DEF RowsTo, Joiners
<1>5. SumRows(w, P) = SumRows(w, RowsTo(w, O)) + SumRows(w, RowsTo(w, J))
  <2> DEFINE R == RowsTo(w, O)
             Q == RowsTo(w, J)
  <2>1. R \in SUBSET DOMAIN w.rows /\ Q \in SUBSET DOMAIN w.rows /\ R \cap Q = {}
    BY <1>1, <1>2, <1>4
  <2>2. P = R \cup Q
    BY <1>3
  <2> HIDE DEF R, Q, P
  <2>3. SumRows(w, R \cup Q) = SumRows(w, R) + SumRows(w, Q)
    BY <2>1, RowSumsAdd
  <2> QED
    BY <2>2, <2>3 DEF R, Q
<1>6. Credits(w) = PaidTo(w, O)
  <2>1. [a \in O |-> Actual(w, a)] = [a \in O |-> Paid(w, a)]
    BY DEF Actual
  <2> QED
    BY <2>1 DEF Credits, PaidTo
<1>7. /\ PaidTo(w, O) = SumRows(w, RowsTo(w, O))
      /\ PaidTo(w, J) = SumRows(w, RowsTo(w, J))
  BY <1>1, PaidByRows
<1>8. Unaccounted(w) = SumRows(w, StrayRows(w)) + PaidTo(w, J)
  BY DEF Unaccounted
<1>9. /\ SumRows(w, RowsTo(w, O)) \in Nat /\ SumRows(w, RowsTo(w, J)) \in Nat
      /\ SumRows(w, StrayRows(w)) \in Nat
  BY <1>1, <1>2, WindowTypes, RowSums
<1>10. PaidOut(w) = SumRows(w, P) + SumRows(w, StrayRows(w))
  BY DEF PaidOut
<1> HIDE DEF P, O, J
<1> QED
  BY <1>5, <1>6, <1>7, <1>8, <1>9, <1>10

LEMMA NoDrift ==
    ASSUME NEW w, IsWindow(w), Mode(w) = "tx"
    PROVE  ~Drift(w)
<1>1. PaidOut(w) = Credits(w) + Unaccounted(w) /\ PaidOut(w) \in Nat
  BY NamedAddUp
<1>2. Gap(PaidOut(w), Credits(w) + Unaccounted(w)) = 0
  BY <1>1 DEF Gap
<1> QED
  BY <1>2 DEF Drift

-----------------------------------------------------------------------------
\* The share lines.

IsList(s, n) == s = [i \in 1..n |-> s[i]]

Joined(q, s, t, u, l, m, n) ==
    /\ DOMAIN q = 1..(l + m + n)
    /\ \A i \in 1..l : q[i] = s[i]
    /\ \A i \in 1..m : q[l + i] = t[i]
    /\ \A i \in 1..n : q[l + m + i] = u[i]

LEMMA Parts ==
    ASSUME NEW s, NEW t, NEW u, NEW l \in Nat, NEW m \in Nat, NEW n \in Nat,
           IsList(s, l), IsList(t, m), IsList(u, n)
    PROVE  Joined(s \o t \o u, s, t, u, l, m, n)
<1> DEFINE S == Range(s) \cup Range(t) \cup Range(u)
           st == s \o t
<1>1. s \in Seq(S) /\ t \in Seq(S) /\ u \in Seq(S)
  <2>1. (\A i \in 1..l : s[i] \in S) /\ (\A i \in 1..m : t[i] \in S) /\ (\A i \in 1..n : u[i] \in S)
    BY DEF Range, IsList
  <2> HIDE DEF S
  <2>2. s \in [1..l -> S] /\ t \in [1..m -> S] /\ u \in [1..n -> S]
    BY <2>1 DEF IsList
  <2> QED
    BY <2>2
<1>2. Len(s) = l /\ Len(t) = m /\ Len(u) = n
  BY <1>1 DEF IsList
<1> HIDE DEF S
<1>3. /\ st \in Seq(S) /\ Len(st) = l + m
      /\ \A i \in 1..(l + m) : st[i] = IF i <= l THEN s[i] ELSE t[i - l]
  <2>1. /\ st \in Seq(S) /\ Len(st) = Len(s) + Len(t)
        /\ \A i \in 1..(Len(s) + Len(t)) :
             st[i] = IF i <= Len(s) THEN s[i] ELSE t[i - Len(s)]
    BY <1>1, ConcatProperties
  <2> QED
    BY <1>2, <2>1
<1> HIDE DEF st
<1>4. /\ st \o u \in Seq(S) /\ Len(st \o u) = l + m + n
      /\ \A i \in 1..(l + m + n) : (st \o u)[i] = IF i <= l + m THEN st[i] ELSE u[i - (l + m)]
  <2>1. /\ st \o u \in Seq(S) /\ Len(st \o u) = Len(st) + Len(u)
        /\ \A i \in 1..(Len(st) + Len(u)) :
             (st \o u)[i] = IF i <= Len(st) THEN st[i] ELSE u[i - Len(st)]
    BY <1>1, <1>3, ConcatProperties
  <2> QED
    BY <1>2, <1>3, <2>1
<1>5. DOMAIN (st \o u) = 1..(l + m + n)
  BY <1>4
<1>6. ASSUME NEW i \in 1..l PROVE (st \o u)[i] = s[i]
  <2>1. i \in 1..(l + m + n) /\ i \in 1..(l + m) /\ i <= l /\ i <= l + m
    OBVIOUS
  <2> QED
    BY <1>3, <1>4, <2>1
<1>7. ASSUME NEW i \in 1..m PROVE (st \o u)[l + i] = t[i]
  <2>1. /\ l + i \in 1..(l + m + n) /\ l + i \in 1..(l + m)
        /\ ~(l + i <= l) /\ l + i <= l + m /\ (l + i) - l = i
    OBVIOUS
  <2> QED
    BY <1>3, <1>4, <2>1
<1>8. ASSUME NEW i \in 1..n PROVE (st \o u)[l + m + i] = u[i]
  <2>1. /\ l + m + i \in 1..(l + m + n)
        /\ ~(l + m + i <= l + m) /\ (l + m + i) - (l + m) = i
    OBVIOUS
  <2> QED
    BY <1>4, <2>1
<1> QED
  BY <1>5, <1>6, <1>7, <1>8 DEF Joined, st

\* The smallest and the largest.
LEMMA SmallestOne ==
    ASSUME NEW S \in SUBSET Nat, S # {}
    PROVE  \E i \in S : \A j \in S : i <= j
<1> DEFINE less == OpToRel(<, Nat)
<1>1. IsWellFoundedOn(less, Nat)
  BY NatLessThanWellFounded
<1>2. \A x, y \in Nat : x < y => <<x, y>> \in less
  BY DEF OpToRel
<1> HIDE DEF less
<1>3. PICK i \in S : \A j \in S : ~(<<j, i>> \in less)
  BY <1>1, WFMin
<1>4. ASSUME NEW j \in S PROVE i <= j
  <2>1. ~(j < i) /\ i \in Nat /\ j \in Nat
    BY <1>2, <1>3
  <2> QED
    BY <2>1
<1> QED
  BY <1>4

LEMMA LastOne ==
    ASSUME NEW n \in Nat, NEW S \in SUBSET (0..n), S # {}
    PROVE  Max(S) \in S /\ \A i \in S : i <= Max(S)
<1> DEFINE below == {n - i : i \in S}
<1>1. below \in SUBSET Nat /\ below # {}
  OBVIOUS
<1> HIDE DEF below
<1>2. PICK d \in below : \A e \in below : d <= e
  BY <1>1, SmallestOne
<1>3. PICK i \in S : d = n - i
  BY DEF below
<1>4. ASSUME NEW j \in S PROVE i >= j
  <2>1. n - j \in below
    BY DEF below
  <2>2. d <= n - j
    BY <1>2, <2>1
  <2> QED
    BY <1>3, <2>2
<1>5. \E x \in S : \A y \in S : x >= y
  BY <1>4
<1>6. Max(S) \in S /\ \A y \in S : Max(S) >= y
  BY <1>5 DEF Max
<1> QED
  BY <1>6

\* A line's place among the stakers', the joiners' and the strays' lines.
JoinersListed(w) == IF Mode(w) = "tx" THEN Cardinality(Joiners(w)) ELSE 0

LEMMA LineParts ==
    ASSUME NEW w, IsWindow(w), NEW n, n = Cardinality(OpenStakers(w)),
           NEW m, m = JoinersListed(w), NEW k, k = Cardinality(StrayRows(w))
    PROVE  /\ n \in Nat /\ m \in Nat /\ k \in Nat
           /\ DOMAIN Lines(w) = 1..(n + m + k)
           /\ \A i \in 1..n :
                Lines(w)[i] = StakerLine(w, Split(w), SetToSeq(OpenStakers(w))[i])
           /\ \A i \in 1..m : ~Lines(w)[n + i].ok
           /\ \A i \in 1..k : ~Lines(w)[n + m + i].ok
           /\ \A i \in StrayRows(w) :
                \E p \in 1..k : Lines(w)[n + m + p].staker = w.rows[i].to
<1> DEFINE s == StakerLines(w)
           t == JoinerLines(w)
           u == StrayLines(w)
           upTo(i) == {j \in StrayRows(w) : j <= i}
           row(p) == CHOOSE i \in StrayRows(w) : Cardinality(upTo(i)) = p
<1>1. n \in Nat /\ m \in Nat /\ k \in Nat
  BY WindowTypes, PayeesFinite, FS_CardinalityType DEF JoinersListed
<1>2. s = [i \in 1..n |-> StakerLine(w, Split(w), SetToSeq(OpenStakers(w))[i])]
  <2>1. DOMAIN SetToSeq(OpenStakers(w)) = 1..n
    BY WindowTypes, SeqOfSet
  <2> QED
    BY <2>1 DEF StakerLines
<1>3. t = [i \in 1..m |-> Line(SetToSeq(Joiners(w))[i], Paid(w, SetToSeq(Joiners(w))[i]), FALSE)]
  <2>1. CASE Mode(w) = "tx"
    <3>1. DOMAIN SetToSeq(Joiners(w)) = 1..m
      BY <2>1, PayeesFinite, SeqOfSet DEF JoinersListed
    <3> QED
      BY <2>1, <3>1 DEF JoinerLines
  <2>2. CASE Mode(w) # "tx"
    <3>1. m = 0 /\ DOMAIN <<>> = 1..0
      BY <2>2 DEF JoinersListed
    <3>2. t = [i \in 1..0 |-> Line(<<>>[i], Paid(w, <<>>[i]), FALSE)]
      BY <2>2, <3>1 DEF JoinerLines
    <3>3. t = [i \in 1..0 |-> Line(SetToSeq(Joiners(w))[i], Paid(w, SetToSeq(Joiners(w))[i]), FALSE)]
      BY <3>2
    <3> QED
      BY <3>1, <3>3
  <2> QED
    BY <2>1, <2>2
<1>4. u = [p \in 1..k |-> Line(w.rows[row(p)].to, w.rows[row(p)].amount, FALSE)]
  BY DEF StrayLines
<1>5. \A i \in 1..n : s[i] = StakerLine(w, Split(w), SetToSeq(OpenStakers(w))[i])
  <2> HIDE DEF s
  <2> QED
    BY <1>2
<1>10. \A i \in 1..m : ~t[i].ok
  <2> HIDE DEF t
  <2> QED
    BY <1>3 DEF Line
<1>11. \A i \in 1..k : ~u[i].ok /\ u[i].staker = w.rows[row(i)].to
  <2> HIDE DEF u, row
  <2> QED
    BY <1>4 DEF Line
<1>12. IsList(s, n) /\ IsList(t, m) /\ IsList(u, k)
  <2>1. DOMAIN s = 1..n /\ s = [i \in DOMAIN s |-> s[i]]
    BY <1>2
  <2>2. DOMAIN t = 1..m /\ t = [i \in DOMAIN t |-> t[i]]
    BY <1>3
  <2>3. DOMAIN u = 1..k /\ u = [i \in DOMAIN u |-> u[i]]
    BY <1>4
  <2> HIDE DEF s, t, u
  <2> QED
    BY <2>1, <2>2, <2>3 DEF IsList
<1>6. ASSUME NEW i \in StrayRows(w) PROVE \E p \in 1..k : row(p) = i
  <2> DEFINE p == Cardinality(upTo(i))
  <2>1. StrayRows(w) \in SUBSET Int /\ IsFiniteSet(StrayRows(w))
    BY WindowTypes
  <2>2. p \in 1..k
    BY <2>1, Places
  <2>3. row(p) \in StrayRows(w) /\ Cardinality(upTo(row(p))) = p
    <3> HIDE DEF upTo
    <3> QED
      OBVIOUS
  <2>4. row(p) = i
    <3> HIDE DEF row, p
    <3>1. row(p) \in StrayRows(w) /\ Cardinality(upTo(row(p))) = Cardinality(upTo(i))
      BY <2>3 DEF p
    <3> QED
      BY <2>1, <3>1, Places
  <2> HIDE DEF p, row
  <2> QED
    BY <2>2, <2>4
<1> HIDE DEF s, t, u, row
<1>7. Joined(s \o t \o u, s, t, u, n, m, k)
  BY <1>1, <1>12, Parts
<1>8. /\ DOMAIN Lines(w) = 1..(n + m + k)
      /\ \A i \in 1..n : Lines(w)[i] = s[i]
      /\ \A i \in 1..m : Lines(w)[n + i] = t[i]
      /\ \A i \in 1..k : Lines(w)[n + m + i] = u[i]
  <2>1. Lines(w) = s \o t \o u
    BY DEF Lines, s, t, u
  <2> QED
    BY <1>7, <2>1 DEF Joined
<1>9. \A i \in StrayRows(w) : \E p \in 1..k : Lines(w)[n + m + p].staker = w.rows[i].to
  <2> SUFFICES ASSUME NEW i \in StrayRows(w)
               PROVE  \E p \in 1..k : Lines(w)[n + m + p].staker = w.rows[i].to
    OBVIOUS
  <2>1. PICK p \in 1..k : row(p) = i
    BY <1>6
  <2>2. Lines(w)[n + m + p] = u[p]
    BY <1>8
  <2> QED
    BY <1>11, <2>1, <2>2
<1>13. \A i \in 1..n :
         Lines(w)[i] = StakerLine(w, Split(w), SetToSeq(OpenStakers(w))[i])
  BY <1>5, <1>8
<1>14. (\A i \in 1..m : ~Lines(w)[n + i].ok) /\ (\A i \in 1..k : ~Lines(w)[n + m + i].ok)
  <2>1. ASSUME NEW i \in 1..m PROVE ~Lines(w)[n + i].ok
    <3>1. Lines(w)[n + i] = t[i]
      BY <1>8
    <3> QED
      BY <1>10, <3>1
  <2>2. ASSUME NEW i \in 1..k PROVE ~Lines(w)[n + m + i].ok
    <3>1. Lines(w)[n + m + i] = u[i]
      BY <1>8
    <3> QED
      BY <1>11, <3>1
  <2> QED
    BY <2>1, <2>2
<1> QED
  BY <1>1, <1>8, <1>9, <1>13, <1>14

\* Of the lines for one staker the last is stored.
LEMMA LastIsStored ==
    ASSUME NEW q, NEW n \in Nat, DOMAIN q = 1..n, NEW i \in 1..n, NEW a, q[i].staker = a
    PROVE  /\ a \in DOMAIN StoredLines(q)
           /\ \E j \in 1..n : i <= j /\ q[j].staker = a /\ StoredLines(q)[a] = q[j]
<1> DEFINE S == {j \in DOMAIN q : q[j].staker = a}
<1>1. a \in DOMAIN StoredLines(q) /\ StoredLines(q)[a] = q[Max(S)]
  BY DEF StoredLines
<1>2. S \in SUBSET (0..n) /\ S \in SUBSET (1..n) /\ i \in S
  OBVIOUS
<1>3. \A j \in S : q[j].staker = a
  OBVIOUS
<1> HIDE DEF S
<1>4. Max(S) \in S /\ i <= Max(S)
  BY <1>2, LastOne
<1> QED
  BY <1>1, <1>2, <1>3, <1>4

LEMMA StrayListed ==
    ASSUME NEW w, IsWindow(w), NEW i \in StrayRows(w), NEW to, to = w.rows[i].to
    PROVE  /\ ~AllOk(Lines(w))
           /\ to \in DOMAIN StoredLines(Lines(w)) /\ ~StoredLines(Lines(w))[to].ok
<1> DEFINE q == Lines(w)
           n == Cardinality(OpenStakers(w))
           m == JoinersListed(w)
           k == Cardinality(StrayRows(w))
<1>1. /\ n \in Nat /\ m \in Nat /\ k \in Nat
      /\ DOMAIN q = 1..(n + m + k)
      /\ \A p \in 1..k : ~q[n + m + p].ok
      /\ \E p \in 1..k : q[n + m + p].staker = to
  BY LineParts
<1> HIDE DEF n, m, k, q
<1>2. PICK p \in 1..k : q[n + m + p].staker = to
  BY <1>1
<1>3. n + m + p \in 1..(n + m + k) /\ n + m + k \in Nat
  BY <1>1
<1>4. ~AllOk(q)
  BY <1>1, <1>3 DEF AllOk
<1>5. /\ to \in DOMAIN StoredLines(q)
      /\ \E j \in 1..(n + m + k) : n + m + p <= j /\ StoredLines(q)[to] = q[j]
  <2> DEFINE all == n + m + k
             at == n + m + p
  <2>1. all \in Nat /\ DOMAIN q = 1..all /\ at \in 1..all /\ q[at].staker = to
    BY <1>1, <1>2, <1>3
  <2> HIDE DEF all, at
  <2>2. /\ to \in DOMAIN StoredLines(q)
        /\ \E j \in 1..all : at <= j /\ StoredLines(q)[to] = q[j]
    BY <2>1, LastIsStored
  <2> QED
    BY <2>2 DEF all, at
<1>6. PICK j \in 1..(n + m + k) : n + m + p <= j /\ StoredLines(q)[to] = q[j]
  BY <1>5
<1>7. ~q[j].ok
  <2>1. j - (n + m) \in 1..k /\ n + m + (j - (n + m)) = j
    BY <1>1, <1>6
  <2> QED
    BY <1>1, <2>1
<1> QED
  BY <1>4, <1>5, <1>6, <1>7 DEF q

\* When every line is OK there are stakers' lines only, and all are stored.
LEMMA AllOkLines ==
    ASSUME NEW w, IsWindow(w), AllOk(Lines(w))
    PROVE  /\ StrayRows(w) = {} /\ JoinersListed(w) = 0
           /\ DOMAIN StoredLines(Lines(w)) = OpenStakers(w)
           /\ \A a \in OpenStakers(w) :
                /\ StakerLine(w, Split(w), a).ok
                /\ StoredLines(Lines(w))[a] = StakerLine(w, Split(w), a)
<1> DEFINE q == Lines(w)
           O == OpenStakers(w)
           n == Cardinality(O)
           m == JoinersListed(w)
           k == Cardinality(StrayRows(w))
           line(a) == StakerLine(w, Split(w), a)
           s == SetToSeq(O)
<1>1. StrayRows(w) = {}
  BY StrayListed
<1>2. k = 0
  BY <1>1, FS_EmptySet
<1>3. /\ n \in Nat /\ m \in Nat /\ DOMAIN q = 1..(n + m + k)
      /\ \A i \in 1..n : q[i] = line(s[i])
      /\ \A i \in 1..m : ~q[n + i].ok
  BY LineParts
<1>4. \A a : line(a).staker = a
  BY DEF StakerLine, Line
<1>5. /\ \A i \in 1..n : s[i] \in O
      /\ \A a \in O : \E i \in 1..n : s[i] = a
      /\ \A i, j \in 1..n : s[i] = s[j] => i = j
  BY WindowTypes, SeqOfSet
<1> HIDE DEF k, m, n, s, line, q, O
<1>6. AllOk(q)
  BY DEF q
<1>7. m = 0
  <2> SUFFICES ASSUME m # 0 PROVE FALSE
    OBVIOUS
  <2>1. n + 1 \in 1..(n + m + k) /\ 1 \in 1..m
    BY <1>2, <1>3
  <2> QED
    BY <1>3, <1>6, <2>1 DEF AllOk
<1>8. DOMAIN q = 1..n
  BY <1>2, <1>3, <1>7
<1>9. \A i \in 1..n : q[i].staker = s[i]
  BY <1>3, <1>4
<1>10. DOMAIN StoredLines(q) = O
  <2>1. DOMAIN StoredLines(q) = {q[i].staker : i \in 1..n}
    BY <1>8 DEF StoredLines
  <2> QED
    BY <1>5, <1>9, <2>1
<1>11. ASSUME NEW a \in O PROVE line(a).ok /\ StoredLines(q)[a] = line(a)
  <2>1. PICK i \in 1..n : s[i] = a
    BY <1>5
  <2>2. q[i] = line(a) /\ q[i].staker = a
    BY <1>3, <1>4, <2>1
  <2>3. q[i].ok
    BY <1>6, <1>8 DEF AllOk
  <2>4. n \in Nat /\ DOMAIN q = 1..n /\ i \in 1..n /\ q[i].staker = a
    BY <1>3, <1>8, <2>2
  <2>5. PICK j \in 1..n : i <= j /\ q[j].staker = a /\ StoredLines(q)[a] = q[j]
    BY <2>4, LastIsStored
  <2>6. i = j
    BY <1>5, <1>9, <2>1, <2>5
  <2> QED
    BY <2>2, <2>3, <2>5, <2>6
<1> QED
  BY <1>1, <1>7, <1>10, <1>11 DEF q, O, m, line

LEMMA ActualIsInt ==
    ASSUME NEW w, IsWindow(w), Covered(w), NEW a \in OpenStakers(w)
    PROVE  Actual(w, a) \in Int
<1>1. Mode(w) = "tx" => Paid(w, a) \in Int
  BY WindowTypes, PaidByRows
<1>2. Mode(w) # "tx" => Delta(w, a) \in Int
  <2>1. Mode(w) # "tx" => Mode(w) = "delta"
    BY DEF Mode
  <2>2. Mode(w) = "delta" => a \in DOMAIN w.after
    BY DEF Covered
  <2>3. a \in DOMAIN w.after => w.after[a] \in Nat
    BY WindowTypes
  <2>4. w.before[a] \in Nat
    BY WindowTypes
  <2> QED
    BY <2>1, <2>2, <2>3, <2>4 DEF Delta
<1> QED
  BY <1>1, <1>2 DEF Actual

\* What newcomers hold is a number.
LEMMA NewcomersHold ==
    ASSUME NEW w, IsWindow(w)
    PROVE  SumFunctionOnSet(w.after, Newcomers(w)) \in Int
<1>1. IsFiniteSet(DOMAIN w.after)
  BY DEF IsWindow, Balances
<1>2. IsFiniteSet(Newcomers(w))
  BY <1>1, FS_Subset, FS_EmptySet DEF Newcomers
<1>3. \A a \in Newcomers(w) : w.after[a] \in Int
  BY WindowTypes DEF Newcomers
<1> QED
  BY <1>2, <1>3, SumInt

\* An accepted window: what is credited, with what newcomers hold in delta mode,
\* is what left the wallet.
LEMMA AcceptedCredits ==
    ASSUME NEW w, IsWindow(w), Covered(w), AllOk(Lines(w)), ~Drift(w)
    PROVE  LET q == StoredLines(Lines(w))
               credited == SumFunction([a \in DOMAIN q |-> q[a].amount])
           IN  /\ Gap(credited + SumFunctionOnSet(w.after, Newcomers(w)), PaidOut(w)) <= 1
               /\ Newcomers(w) \cap DOMAIN q = {}
<1> DEFINE O == OpenStakers(w)
           q == StoredLines(Lines(w))
           N == Newcomers(w)
           new == SumFunctionOnSet(w.after, N)
<1>1. /\ StrayRows(w) = {} /\ JoinersListed(w) = 0 /\ DOMAIN q = O
      /\ \A a \in O : StakerLine(w, Split(w), a).ok /\ q[a] = StakerLine(w, Split(w), a)
  BY AllOkLines
<1>2. \A a \in O : q[a].amount = Actual(w, a)
  BY <1>1 DEF StakerLine, Line
<1>3. SumFunction([a \in DOMAIN q |-> q[a].amount]) = Credits(w)
  <2>1. [a \in DOMAIN q |-> q[a].amount] = [a \in O |-> Actual(w, a)]
    BY <1>1, <1>2
  <2> QED
    BY <2>1 DEF Credits
<1>4. Unaccounted(w) = new
  <2>1. SumRows(w, StrayRows(w)) = 0
    BY <1>1, SumEmpty DEF SumRows
  <2>2. CASE Mode(w) = "tx"
    <3>1. Joiners(w) = {}
      BY <1>1, <2>2, PayeesFinite, FS_EmptySet DEF JoinersListed
    <3>2. PaidTo(w, Joiners(w)) = 0
      BY <3>1, SumEmpty DEF PaidTo, SumFunction
    <3>3. new = 0
      BY <2>2, SumEmpty DEF Newcomers
    <3> QED
      BY <2>1, <2>2, <3>2, <3>3 DEF Unaccounted
  <2>3. CASE Mode(w) # "tx"
    <3>1. Unstaked(w) = {}
      BY <1>1 DEF StakerLine, Line, Unstaked
    <3>2. Lost(w) = 0
      BY <3>1, SumEmpty DEF Lost, SumFunction
    <3>3. Appeared(w) = new
      BY <2>3 DEF Appeared, Newcomers
    <3>4. new \in Int
      BY NewcomersHold
    <3> HIDE DEF new
    <3> QED
      BY <2>1, <2>3, <3>2, <3>3, <3>4 DEF Unaccounted
  <2> QED
    BY <2>2, <2>3
<1>5. Credits(w) \in Int
  <2>1. IsFiniteSet(O)
    BY WindowTypes
  <2>2. \A a \in O : Actual(w, a) \in Int
    BY ActualIsInt
  <2>3. \A a \in O : [b \in O |-> Actual(w, b)][a] \in Int
    BY <2>2
  <2> HIDE DEF O
  <2>4. SumFunctionOnSet([b \in O |-> Actual(w, b)], O) \in Int
    BY <2>1, <2>3, SumInt
  <2> QED
    BY <2>4 DEF Credits, SumFunction, O
<1>6. PaidOut(w) \in Int
  BY WindowTypes, RowSums DEF PaidOut
<1>7. new \in Int
  BY NewcomersHold
<1> HIDE DEF new
<1>8. Gap(PaidOut(w), Credits(w) + new) <= 1
  BY <1>4, <1>5, <1>6, <1>7 DEF Drift, Gap
<1>9. Gap(Credits(w) + new, PaidOut(w)) <= 1
  BY <1>5, <1>6, <1>7, <1>8 DEF Gap
<1>10. N \cap O = {}
  BY DEF Newcomers
<1> QED
  BY <1>1, <1>3, <1>9, <1>10 DEF new

-----------------------------------------------------------------------------
\* The pot is a natural number.

\* The k-th smallest value is a value: the smallest bound that k values meet.
LEMMA NthIsValue ==
    ASSUME NEW f, IsFiniteSet(DOMAIN f), \A a \in DOMAIN f : f[a] \in Nat,
           NEW k \in 1..Cardinality(DOMAIN f)
    PROVE  Nth(f, k) \in Nat
<1> DEFINE upTo(v) == {a \in DOMAIN f : f[a] <= v}
           below(v) == {a \in DOMAIN f : f[a] < v}
           bounds == {v \in Nat : Cardinality(upTo(v)) >= k}
           whole == SumFunctionOnSet(f, DOMAIN f)
<1>1. \A v \in Nat : IsFiniteSet(upTo(v)) /\ Cardinality(upTo(v)) \in Nat
  BY FS_Subset, FS_CardinalityType
<1>2. whole \in Nat /\ \A a \in DOMAIN f : f[a] <= whole
  BY SumNat, SumMember
<1>3. upTo(whole) = DOMAIN f
  BY <1>2
<1>4. whole \in bounds
  BY <1>2, <1>3
<1>5. PICK v \in bounds : \A u \in bounds : v <= u
  BY <1>4, SmallestOne
<1>6. Cardinality(below(v)) < k
  <2>1. CASE v = 0
    <3>1. below(v) = {}
      BY <2>1
    <3> QED
      BY <3>1, FS_EmptySet
  <2>2. CASE v # 0
    <3>1. v - 1 \in Nat /\ below(v) = upTo(v - 1)
      BY <2>2
    <3>2. v - 1 \notin bounds
      BY <1>5, <2>2
    <3>3. ~(Cardinality(upTo(v - 1)) >= k)
      BY <3>1, <3>2
    <3> DEFINE c == Cardinality(upTo(v - 1))
    <3>4. c \in Nat /\ Cardinality(below(v)) = c
      BY <1>1, <3>1
    <3>5. ~(c >= k)
      BY <3>3
    <3> HIDE DEF c
    <3>6. c < k
      BY <3>4, <3>5
    <3> QED
      BY <3>4, <3>6
  <2> QED
    BY <2>1, <2>2
<1>7. \E a \in DOMAIN f : f[a] = v
  <2> DEFINE c == Cardinality(below(v))
  <2>1. c \in Nat /\ c < k
    <3>1. IsFiniteSet(below(v))
      BY FS_Subset
    <3> QED
      BY <1>6, <3>1, FS_CardinalityType
  <2>2. Cardinality(upTo(v)) >= k
    BY <1>5
  <2>3. upTo(v) # below(v)
    <3> SUFFICES ASSUME upTo(v) = below(v) PROVE FALSE
      OBVIOUS
    <3>1. c >= k
      BY <2>2
    <3> HIDE DEF c
    <3> QED
      BY <2>1, <3>1
  <2> QED
    BY <1>5, <2>3
<1>8. v \in Range(f)
  BY <1>7 DEF Range
<1>9. Range(f) \subseteq Nat
  BY DEF Range
<1>10. \E u \in Range(f) : Cardinality(below(u)) < k /\ Cardinality(upTo(u)) >= k
  BY <1>5, <1>6, <1>8
<1>11. Nth(f, k) \in Range(f)
  BY <1>10 DEF Nth
<1> QED
  BY <1>9, <1>11

LEMMA MedianIsNat ==
    ASSUME NEW f, IsFiniteSet(DOMAIN f), \A a \in DOMAIN f : f[a] \in Nat, DOMAIN f # {}
    PROVE  Median(f) \in Nat
<1> DEFINE n == Cardinality(DOMAIN f)
           mid == n \div 2
<1>1. n \in Nat /\ n # 0
  BY FS_CardinalityType, FS_EmptySet
<1>2. /\ n % 2 = 1 => mid + 1 \in 1..n
      /\ n % 2 # 1 => mid \in 1..n /\ mid + 1 \in 1..n
  BY <1>1
<1>3. \A k \in 1..n : Nth(f, k) \in Nat
  BY NthIsValue
<1>4. \A x, y \in Nat : (x + y) \div 2 \in Nat
  OBVIOUS
<1> HIDE DEF n, mid
<1>5. Median(f) = IF n % 2 = 1 THEN Nth(f, mid + 1) ELSE (Nth(f, mid) + Nth(f, mid + 1)) \div 2
  BY DEF Median, n, mid
<1> QED
  BY <1>2, <1>3, <1>4, <1>5

LEMMA Quotient ==
    ASSUME NEW x \in Nat, NEW s \in Nat, s > 0
    PROVE  x \div s \in Nat /\ (x \div s) * s <= x /\ x < (x \div s + 1) * s
OBVIOUS

LEMMA Product == ASSUME NEW x \in Nat, NEW y \in Nat PROVE x * y \in Nat
OBVIOUS

LEMMA ProductGrows ==
    ASSUME NEW x \in Int, NEW y \in Int, x <= y, NEW z \in Nat
    PROVE  x * z <= y * z
OBVIOUS

LEMMA ScaledUpIsNat ==
    ASSUME NEW actual, NEW weight, NEW some, IsFiniteSet(some), some # {}, NEW whole \in Nat,
           \A a \in some : actual[a] \in Int /\ weight[a] \in Nat /\ weight[a] > 0
    PROVE  ScaledUp(actual, weight, some, whole) \in Nat
<1> DEFINE paid == [a \in some |-> Positive(actual[a])]
           x == SumFunctionOnSet(paid, some)
           s == SumFunctionOnSet(weight, some)
<1>1. \A a \in some : paid[a] \in Nat
  BY DEF Positive
<1> HIDE DEF paid
<1>2. x \in Nat
  BY <1>1, SumNat
<1>3. s \in Nat
  BY SumNat
<1>4. s > 0
  <2>1. PICK a \in some : TRUE
    OBVIOUS
  <2>2. weight[a] <= s
    BY SumMember
  <2>3. weight[a] \in Nat /\ weight[a] > 0
    BY <2>1
  <2> HIDE DEF s
  <2> QED
    BY <1>3, <2>2, <2>3
<1>5. ScaledUp(actual, weight, some, whole) = (x * whole) \div s
  BY DEF ScaledUp, SumFunction, paid
<1> HIDE DEF x, s
<1> DEFINE y == x * whole
<1>6. y \in Nat
  BY <1>2, Product
<1> HIDE DEF y
<1>7. y \div s \in Nat
  BY <1>3, <1>4, <1>6, Quotient
<1> QED
  BY <1>5, <1>7 DEF y

LEMMA PotIsNat ==
    ASSUME NEW judged, IsFiniteSet(judged), NEW actual, NEW weight,
           \A a \in judged : actual[a] \in Int /\ weight[a] \in Nat,
           NEW D \in Nat, NEW sum \in Nat
    PROVE  Pot(actual, weight, D, judged, sum) \in Nat
<1> DEFINE precise == {a \in judged : weight[a] > 0 /\ (weight[a] * D) \div sum >= PreciseShare}
           measured == IF precise = {} THEN D ELSE ScaledUp(actual, weight, precise, sum)
           paid == {b \in precise : actual[b] > 0}
           implied == [a \in paid |-> (actual[a] * sum) \div weight[a]]
           outliers == /\ Cardinality(DOMAIN implied) >= 3
                       /\ Gap(Median(implied), measured) > DustTolerance
<1>1. /\ precise \in SUBSET judged /\ IsFiniteSet(precise)
      /\ paid \in SUBSET precise /\ IsFiniteSet(paid)
      /\ \A a \in precise : weight[a] > 0
      /\ \A a \in paid : actual[a] > 0
  BY FS_Subset
<1>2. Pot(actual, weight, D, judged, sum) = IF outliers THEN Median(implied) ELSE measured
  BY DEF Pot
<1>3. outliers => DOMAIN implied # {}
  <2> SUFFICES ASSUME DOMAIN implied = {} PROVE ~(Cardinality(DOMAIN implied) >= 3)
    OBVIOUS
  <2>1. Cardinality(DOMAIN implied) = 0
    BY FS_EmptySet
  <2> HIDE DEF implied
  <2> QED
    BY <2>1
<1> HIDE DEF precise, paid, outliers
<1>4. measured \in Nat
  BY <1>1, ScaledUpIsNat
<1>5. ASSUME NEW a \in DOMAIN implied PROVE implied[a] \in Nat
  <2>1. a \in paid /\ actual[a] \in Nat /\ weight[a] \in Nat /\ weight[a] > 0
    BY <1>1
  <2> DEFINE y == actual[a] * sum
             s == weight[a]
  <2>2. y \in Nat
    BY <2>1, Product
  <2>3. s \in Nat /\ s > 0
    BY <2>1
  <2>4. implied[a] = y \div s
    BY <2>1
  <2> HIDE DEF y, s, implied
  <2> QED
    BY <2>2, <2>3, <2>4, Quotient
<1>6. IsFiniteSet(DOMAIN implied)
  BY <1>1
<1> HIDE DEF implied, measured
<1>7. DOMAIN implied # {} => Median(implied) \in Nat
  BY <1>5, <1>6, MedianIsNat
<1> QED
  BY <1>2, <1>3, <1>4, <1>7

-----------------------------------------------------------------------------
\* The split.

LEMMA WeightIsNat ==
    ASSUME NEW w, IsWindow(w), Covered(w), NEW a \in OpenStakers(w)
    PROVE  Weight(w, a) \in Nat
<1>1. w.before[a] \in Nat
  BY WindowTypes
<1>2. w.elects /\ a \in DOMAIN w.epochStart => w.epochStart[a] \in Nat
  BY DEF Covered, IsWindow, Balances
<1>3. ASSUME NEW x \in Nat, NEW y \in Nat PROVE Min({x, y}) \in Nat
  <2>1. \E u \in {x, y} : \A v \in {x, y} : u <= v
    OBVIOUS
  <2>2. Min({x, y}) \in {x, y}
    BY <2>1 DEF Min
  <2> QED
    BY <2>2
<1>4. w.elects /\ a \in DOMAIN w.epochStart => Min({w.epochStart[a], w.before[a]}) \in Nat
  BY <1>1, <1>2, <1>3
<1>5. w.elects \in BOOLEAN
  BY DEF IsWindow
<1> QED
  BY <1>1, <1>4, <1>5 DEF Weight

\* What the fairness argument needs of the split.
LEMMA SplitFacts ==
    ASSUME NEW w, IsWindow(w), Covered(w)
    PROVE  LET split == Split(w)
           IN  /\ split.judged \subseteq OpenStakers(w)
               /\ split.sum \in Nat /\ split.pot \in Nat
               /\ \A a \in split.judged :
                    /\ split.weight[a] = Weight(w, a)
                    /\ Weight(w, a) \in Nat /\ Weight(w, a) <= split.sum
<1> DEFINE W == Weighted(w)
           weight == [a \in W |-> Weight(w, a)]
           actual == [a \in W |-> Actual(w, a)]
           gains == [a \in W |-> Positive(actual[a])]
           D == SumFunction(gains)
           judged == W \ DustStakers(actual, weight, D, SumFunction(weight))
           sum == SumFunctionOnSet(weight, judged)
           pot == Pot(actual, weight, D, judged, sum)
           split == [judged |-> judged, weight |-> weight, sum |-> sum, pot |-> pot]
<1>1. Split(w) = split
  BY DEF Split
<1>2. W \in SUBSET OpenStakers(w) /\ IsFiniteSet(W)
  BY WindowTypes, FS_Subset DEF Weighted
<1> HIDE DEF W
<1>3. judged \in SUBSET W /\ IsFiniteSet(judged)
  BY <1>2, FS_Subset
<1>4. \A a \in W : weight[a] = Weight(w, a) /\ weight[a] \in Nat
  BY <1>2, WeightIsNat
<1>5. \A a \in W : actual[a] \in Int
  BY <1>2, ActualIsInt
<1>6. \A a \in W : gains[a] \in Nat
  BY <1>5 DEF Positive
<1>7. D \in Nat
  <2>1. DOMAIN gains = W
    OBVIOUS
  <2> HIDE DEF gains
  <2> QED
    BY <1>2, <1>6, <2>1, SumNat DEF SumFunction
<1> HIDE DEF weight, actual, gains, judged, D
<1>8. sum \in Nat /\ \A a \in judged : weight[a] <= sum
  BY <1>3, <1>4, SumNat, SumMember
<1> HIDE DEF sum
<1>9. pot \in Nat
  BY <1>3, <1>4, <1>5, <1>7, <1>8, PotIsNat
<1> HIDE DEF pot
<1>10. /\ split.judged = judged /\ split.weight = weight
       /\ split.sum = sum /\ split.pot = pot
  OBVIOUS
<1> HIDE DEF split
<1> QED
  BY <1>1, <1>2, <1>3, <1>4, <1>8, <1>9, <1>10

LEMMA LargestOfFour ==
    ASSUME NEW x \in Nat, NEW y \in Nat, NEW z \in Nat, NEW u \in Nat
    PROVE  /\ Max({x, y, z, u}) \in Nat
           /\ x <= Max({x, y, z, u}) /\ y <= Max({x, y, z, u})
           /\ z <= Max({x, y, z, u}) /\ u <= Max({x, y, z, u})
<1> DEFINE S == {x, y, z, u}
<1>1. S \in SUBSET (0..(x + y + z + u)) /\ S # {} /\ x + y + z + u \in Nat
  OBVIOUS
<1>2. x \in S /\ y \in S /\ z \in S /\ u \in S /\ S \subseteq Nat
  OBVIOUS
<1> HIDE DEF S
<1>3. Max(S) \in S /\ \A i \in S : i <= Max(S)
  BY <1>1, LastOne
<1>4. Max(S) \in Nat /\ x <= Max(S) /\ y <= Max(S) /\ z <= Max(S) /\ u <= Max(S)
  BY <1>2, <1>3
<1> QED
  BY <1>4 DEF S

LEMMA LargestOfTwo ==
    ASSUME NEW x \in Nat, NEW y \in Nat
    PROVE  Max({x, y}) \in {x, y}
<1>1. \E u \in {x, y} : \A v \in {x, y} : u >= v
  OBVIOUS
<1> QED
  BY <1>1 DEF Max

\* Shares of a smaller amount are smaller.
LEMMA QuotientGrows ==
    ASSUME NEW x \in Nat, NEW y \in Nat, x <= y, NEW s \in Nat, s > 0
    PROVE  x \div s <= y \div s
<1> DEFINE p == x \div s
           q == y \div s
<1>1. p \in Nat /\ p * s <= x /\ q \in Nat /\ y < (q + 1) * s
  BY Quotient
<1> HIDE DEF p, q
<1>2. p * s < (q + 1) * s
  BY <1>1
<1>3. ~(q + 1 <= p)
  BY <1>1, <1>2
<1>4. p <= q
  BY <1>1, <1>3
<1> QED
  BY <1>4 DEF p, q

\* A share is part of the pot, and the share rounded up is at least exact.
LEMMA ExpectedIsShare ==
    ASSUME NEW weight \in Nat, NEW pot \in Nat, NEW sum \in Nat, sum > 0, weight <= sum,
           NEW e, e = (weight * pot) \div sum
    PROVE  /\ e \in Nat /\ e <= pot
           /\ e * sum <= weight * pot /\ weight * pot <= (e + 1) * sum
<1> DEFINE x == weight * pot
<1>1. x \in Nat /\ x <= sum * pot
  BY Product, ProductGrows
<1>2. x \in Nat => e \in Nat /\ e * sum <= x /\ x < (e + 1) * sum
  <2> HIDE DEF x
  <2> SUFFICES ASSUME x \in Nat PROVE x \div sum \in Nat /\ (x \div sum) * sum <= x
                                      /\ x < (x \div sum + 1) * sum
    BY DEF x
  <2> QED
    BY Quotient
<1>3. e * sum <= pot * sum
  BY <1>1, <1>2
<1> HIDE DEF x
<1>4. ~(pot + 1 <= e)
  <2> SUFFICES ASSUME pot + 1 <= e PROVE FALSE
    OBVIOUS
  <2>1. (pot + 1) * sum <= e * sum
    BY <1>1, <1>2, ProductGrows
  <2>2. (pot + 1) * sum = pot * sum + sum
    OBVIOUS
  <2> DEFINE y == pot * sum
             z == e * sum
  <2>3. y \in Nat /\ z \in Int /\ y + sum <= z /\ z <= y
    BY <1>1, <1>2, <1>3, <2>1, <2>2, Product
  <2> HIDE DEF y, z
  <2> QED
    BY <2>3
<1>5. e <= pot
  BY <1>1, <1>2, <1>4
<1> QED
  BY <1>1, <1>2, <1>5 DEF x

LEMMA UnderBounds ==
    ASSUME NEW pot \in Nat
    PROVE  /\ Under(pot) \in Nat /\ (pot * SharePpm) \div Million \in Nat
           /\ 1 <= Under(pot) /\ ShareFloor <= Under(pot) /\ MinShare <= Under(pot)
           /\ (pot * SharePpm) \div Million <= Under(pot)
<1> DEFINE x == pot * SharePpm
           part == x \div Million
<1>1. x \in Nat /\ MinShare \in Nat /\ ShareFloor \in Nat /\ Million \in Nat /\ Million > 0
  BY VerdictConstants, CarryConstants, Product
<1>2. Under(pot) = Max({1, ShareFloor, MinShare, part})
  BY DEF Under
<1> HIDE DEF x
<1>3. part \in Nat
  BY <1>1, Quotient
<1> HIDE DEF part
<1>4. /\ Under(pot) \in Nat /\ part \in Nat
      /\ 1 <= Under(pot) /\ ShareFloor <= Under(pot) /\ MinShare <= Under(pot)
      /\ part <= Under(pot)
  BY <1>1, <1>2, <1>3, LargestOfFour
<1> QED
  BY <1>4 DEF part, x

\* An OK line pays the expected share up to the tolerances.
LEMMA OkIsClose ==
    ASSUME NEW pot \in Nat, NEW e \in Nat, e <= pot, NEW paid \in Nat,
           paid <= e + DustTolerance, IsOk(e, paid)
    PROVE  e - paid <= Under(pot)
<1> DEFINE part == (pot * SharePpm) \div Million
           epart == (e * SharePpm) \div Million
           U == Under(pot)
<1> SUFFICES e - paid <= U
  OBVIOUS
<1>1. /\ MinShare \in Nat /\ DustTolerance \in Nat /\ SharePpm \in Nat /\ ShareFloor \in Nat
      /\ Million \in Nat /\ Million > 0
  BY VerdictConstants, CarryConstants
<1>2. epart \in Nat /\ epart <= part
  <2> DEFINE x == pot * SharePpm
             y == e * SharePpm
  <2>1. x \in Nat /\ y \in Nat /\ y <= x
    BY <1>1, Product, ProductGrows
  <2> HIDE DEF x, y
  <2>2. y \div Million \in Nat /\ y \div Million <= x \div Million
    BY <1>1, <2>1, Quotient, QuotientGrows
  <2> QED
    BY <2>2 DEF x, y
<1>3. part \in Nat /\ U \in Nat /\ 1 <= U /\ ShareFloor <= U /\ MinShare <= U /\ part <= U
  BY UnderBounds
<1> HIDE DEF part, U
<1>4. epart <= U
  BY <1>2, <1>3
<1>5. CASE Gap(paid, e) <= 1
  BY <1>3, <1>5 DEF Gap
<1>6. CASE e < MinShare /\ paid = 0
  BY <1>1, <1>3, <1>6
<1>7. CASE paid < e /\ e - paid <= Max({epart, ShareFloor})
  <2> HIDE DEF epart
  <2>1. Max({epart, ShareFloor}) \in {epart, ShareFloor}
    BY <1>1, <1>2, LargestOfTwo
  <2> QED
    BY <1>1, <1>2, <1>3, <1>4, <1>7, <2>1
<1>8. CASE paid > e
  BY <1>3, <1>8
<1> QED
  BY <1>3, <1>5, <1>6, <1>7, <1>8 DEF IsOk

\* If each of two is paid its share but for the tolerances, neither gets more
\* per unit of stake than the other, but for the tolerances and the flooring.
LEMMA FairToBoth ==
    ASSUME NEW s \in Nat, s > 0, NEW pot \in Nat,
           NEW wa \in Nat, NEW wb \in Nat, NEW ea \in Nat, NEW eb \in Nat,
           ea * s <= wa * pot, wb * pot <= (eb + 1) * s,
           NEW over \in Nat, NEW under \in Nat, NEW pa \in Nat, NEW pb \in Nat,
           pa <= ea + over, eb - pb <= under
    PROVE  pa * wb - pb * wa <= over * wb + (under + 1) * wa
<1>1. pa * wb <= ea * wb + over * wb
  <2>1. pa * wb <= (ea + over) * wb
    BY ProductGrows
  <2> QED
    BY <2>1
<1>2. eb * wa - under * wa <= pb * wa
  <2>1. (eb - under) * wa <= pb * wa
    <3>1. eb - under <= pb
      OBVIOUS
    <3> QED
      BY <3>1, ProductGrows
  <2> QED
    BY <2>1
<1>3. ea * wb <= (eb + 1) * wa
  <2>1. (ea * s) * wb <= (wa * pot) * wb
    BY ProductGrows, Product
  <2>2. (wb * pot) * wa <= ((eb + 1) * s) * wa
    BY ProductGrows, Product
  <2>3. (wa * pot) * wb = (wb * pot) * wa
    OBVIOUS
  <2> DEFINE x == ea * wb
             y == (eb + 1) * wa
  <2>4. x \in Nat /\ y \in Nat
    BY Product
  <2>5. x * s <= y * s
    <3>1. (ea * s) * wb = x * s /\ ((eb + 1) * s) * wa = y * s
      OBVIOUS
    <3> DEFINE p == (ea * s) * wb
               q == (wa * pot) * wb
               r == (wb * pot) * wa
               t == ((eb + 1) * s) * wa
    <3>2. p \in Nat /\ q \in Nat /\ r \in Nat /\ t \in Nat
      BY Product
    <3>3. p <= q /\ q = r /\ r <= t
      BY <2>1, <2>2, <2>3
    <3> HIDE DEF p, q, r, t
    <3>4. p <= t
      BY <3>2, <3>3
    <3> QED
      BY <3>1, <3>4 DEF p, t
  <2> HIDE DEF x, y
  <2>6. ~(y + 1 <= x)
    <3> SUFFICES ASSUME y + 1 <= x PROVE FALSE
      OBVIOUS
    <3>1. (y + 1) * s <= x * s
      BY <2>4, ProductGrows
    <3>2. (y + 1) * s = y * s + s
      BY <2>4
    <3> DEFINE p == y * s
               q == x * s
    <3>3. p \in Nat /\ q \in Nat /\ p + s <= q /\ q <= p
      BY <2>4, <2>5, <3>1, <3>2, Product
    <3> HIDE DEF p, q
    <3> QED
      BY <3>3
  <2>7. x <= y
    BY <2>4, <2>6
  <2> QED
    BY <2>7 DEF x, y
<1>4. (eb + 1) * wa = eb * wa + wa /\ (under + 1) * wa = under * wa + wa
  OBVIOUS
<1> DEFINE p == pa * wb
           q == pb * wa
           r == ea * wb
           t == eb * wa
           o == over * wb
           u == under * wa
<1>5. p \in Nat /\ q \in Nat /\ r \in Nat /\ t \in Nat /\ o \in Nat /\ u \in Nat
  BY Product
<1>6. p <= r + o /\ t - u <= q /\ r <= t + wa
  BY <1>1, <1>2, <1>3, <1>4
<1> HIDE DEF p, q, r, t, o, u
<1>7. p - q <= o + (u + wa)
  BY <1>5, <1>6
<1> QED
  BY <1>4, <1>7 DEF p, q, o, u

\* An accepted window is fair between any two judged stakers.
LEMMA AcceptedPayments ==
    ASSUME NEW w, IsWindow(w), Covered(w), Mode(w) = "tx", AllOk(Lines(w)),
           NEW a \in Split(w).judged
    PROVE  LET split == Split(w)
           IN  /\ Paid(w, a) \in Nat /\ Expected(split, a) \in Nat
               /\ Paid(w, a) <= Expected(split, a) + DustTolerance
               /\ split.sum > 0 =>
                    /\ Expected(split, a) - Paid(w, a) <= Under(split.pot)
                    /\ Expected(split, a) * split.sum <= Weight(w, a) * split.pot
                    /\ Weight(w, a) * split.pot <= (Expected(split, a) + 1) * split.sum
<1> DEFINE split == Split(w)
           wa == Weight(w, a)
           e == Expected(split, a)
           paid == Paid(w, a)
<1>1. /\ a \in OpenStakers(w) /\ a \in split.judged
      /\ split.sum \in Nat /\ split.pot \in Nat
      /\ split.weight[a] = wa /\ wa \in Nat /\ wa <= split.sum
  BY SplitFacts
<1>2. paid \in Nat
  BY <1>1, WindowTypes, PaidByRows
<1>3. StakerLine(w, split, a).ok
  BY <1>1, AllOkLines
<1>4. paid <= e + DustTolerance /\ IsOk(e, paid)
  BY <1>3 DEF StakerLine, Line, Actual
<1>5. e = IF split.sum > 0 THEN (wa * split.pot) \div split.sum ELSE 0
  BY <1>1 DEF Expected
<1> HIDE DEF split, wa, e, paid
<1>6. split.sum > 0 =>
        /\ e \in Nat /\ e <= split.pot
        /\ e * split.sum <= wa * split.pot /\ wa * split.pot <= (e + 1) * split.sum
  BY <1>1, <1>5, ExpectedIsShare
<1>7. e \in Nat
  BY <1>5, <1>6
<1>8. split.sum > 0 => e - paid <= Under(split.pot)
  BY <1>1, <1>2, <1>4, <1>6, OkIsClose
<1> QED
  BY <1>2, <1>4, <1>6, <1>7, <1>8 DEF split, wa, e, paid

Fair(w, a, b) ==
    Paid(w, a) * Weight(w, b) - Paid(w, b) * Weight(w, a)
        <= DustTolerance * Weight(w, b) + (Under(Split(w).pot) + 1) * Weight(w, a)

LEMMA AcceptedFair ==
    ASSUME NEW w, IsWindow(w), Covered(w), Mode(w) = "tx", AllOk(Lines(w)),
           NEW a \in Split(w).judged, NEW b \in Split(w).judged
    PROVE  Fair(w, a, b)
<1> DEFINE pot == Split(w).pot
           s == Split(w).sum
           wa == Weight(w, a)
           wb == Weight(w, b)
           pa == Paid(w, a)
           pb == Paid(w, b)
           ea == Expected(Split(w), a)
           eb == Expected(Split(w), b)
           U == Under(pot)
<1> SUFFICES pa * wb - pb * wa <= DustTolerance * wb + (U + 1) * wa
  BY DEF Fair
<1>1. /\ s \in Nat /\ pot \in Nat
      /\ wa \in Nat /\ wa <= s /\ wb \in Nat /\ wb <= s
  BY SplitFacts
<1>2. /\ pa \in Nat /\ ea \in Nat /\ pa <= ea + DustTolerance
      /\ s > 0 => ea * s <= wa * pot
  BY AcceptedPayments
<1>3. /\ pb \in Nat /\ eb \in Nat
      /\ s > 0 => eb - pb <= U /\ wb * pot <= (eb + 1) * s
  BY AcceptedPayments
<1>4. DustTolerance \in Nat
  BY VerdictConstants
<1>5. U \in Nat
  BY <1>1, UnderBounds
<1> HIDE DEF pot, s, wa, wb, pa, pb, ea, eb, U
<1>6. CASE s > 0
  BY <1>1, <1>2, <1>3, <1>4, <1>5, <1>6, FairToBoth
<1>7. CASE s = 0
  <2>1. wa = 0 /\ wb = 0
    BY <1>1, <1>7
  <2> QED
    BY <1>2, <1>3, <1>4, <1>5, <2>1
<1> QED
  BY <1>1, <1>6, <1>7

-----------------------------------------------------------------------------
\* The judgement.

\* A verdict is the one the window's own lines and drift give, and the lines
\* in the database are the window's: nothing else is ever stored.
JudgementInv ==
    /\ window \in Windows
    /\ verdict \in {"none", "ok", "failed", "uncovered"}
    /\ verdict \in {"ok", "failed"} =>
         /\ Covered(window)
         /\ stored = StoredLines(Lines(window))
         /\ verdict = "ok" <=> AllOk(Lines(window)) /\ ~Drift(window)

\* Every judgement has the invariant: the lines and the verdict that
\* _verify_and_close (jobs.py) leaves are those of the window it was given.
THEOREM JudgementInvHolds == Spec => []JudgementInv
<1>1. Init => JudgementInv
  BY DEF Init, JudgementInv
<1>2. JudgementInv /\ [Next]_vars => JudgementInv'
  <2> SUFFICES ASSUME JudgementInv, [Next]_vars PROVE JudgementInv'
    OBVIOUS
  <2> USE DEF JudgementInv
  <2>1. CASE Judge
    BY <2>1 DEF Judge
  <2>2. CASE CannotJudge
    BY <2>2 DEF CannotJudge
  <2>3. CASE UNCHANGED vars
    BY <2>3 DEF vars
  <2> QED
    BY <2>1, <2>2, <2>3 DEF Next
<1> QED
  BY <1>1, <1>2, PTL DEF Spec

\* With named payouts the drift check (_verify_and_close, jobs.py) never fails
\* a window, whatever its rows, balances, mode and weights are.
THEOREM NamedPayoutsNeverDriftHolds == Spec => []NamedPayoutsNeverDrift
<1>1. JudgementInv => NamedPayoutsNeverDrift
  BY WindowsAreTyped, NoDrift DEF JudgementInv, NamedPayoutsNeverDrift
<1> QED
  BY <1>1, JudgementInvHolds, PTL

\* A stray payment leaves a failing row for its recipient: the upserts of
\* cycle_shares (jobs.py) write it last, and the window is not verified.
THEOREM StrayIsVisibleHolds == Spec => []StrayIsVisible
<1>1. JudgementInv => StrayIsVisible
  <2> SUFFICES ASSUME JudgementInv, verdict \in {"ok", "failed"},
                      NEW i \in StrayRows(window), NEW to, to = window.rows[i].to
               PROVE  verdict = "failed" /\ to \in DOMAIN stored /\ ~stored[to].ok
    BY DEF StrayIsVisible
  <2>1. IsWindow(window) /\ stored = StoredLines(Lines(window))
    BY WindowsAreTyped DEF JudgementInv
  <2>2. /\ ~AllOk(Lines(window))
        /\ to \in DOMAIN stored /\ ~stored[to].ok
    BY <2>1, StrayListed
  <2> QED
    BY <2>2 DEF JudgementInv
<1> QED
  BY <1>1, JudgementInvHolds, PTL

\* What left the wallet for stakers in an accepted window is, to within a luna,
\* what the stored lines credit (_verify_and_close, jobs.py) plus, in delta mode,
\* what newcomers hold, who are credited nothing (Guard 3).
THEOREM EveryLunaTracedHolds == Spec => []EveryLunaTraced
<1>1. JudgementInv => EveryLunaTraced
  <2> SUFFICES ASSUME JudgementInv, verdict = "ok"
               PROVE  LET credited == SumFunction([a \in DOMAIN stored |-> stored[a].amount])
                      IN  /\ Gap(credited + SumFunctionOnSet(window.after, Newcomers(window)),
                                 PaidOut(window)) <= 1
                          /\ Newcomers(window) \cap DOMAIN stored = {}
    BY DEF EveryLunaTraced
  <2>1. /\ IsWindow(window) /\ stored = StoredLines(Lines(window))
        /\ Covered(window) /\ AllOk(Lines(window)) /\ ~Drift(window)
    BY WindowsAreTyped DEF JudgementInv
  <2> QED
    BY <2>1, AcceptedCredits
<1> QED
  BY <1>1, JudgementInvHolds, PTL

\* An accepted window with named payouts is fair: per unit of stake no staker
\* got more than another, but for the line tolerances and the flooring (_is_ok
\* and the expected shares, jobs.py).
THEOREM AcceptedIsFairHolds == Spec => []AcceptedIsFair
<1>1. JudgementInv => AcceptedIsFair
  <2> SUFFICES ASSUME JudgementInv, verdict = "ok", Mode(window) = "tx",
                      NEW a \in Split(window).judged, NEW b \in Split(window).judged
               PROVE  LET paid == [c \in OpenStakers(window) |-> Paid(window, c)]
                          stake == [c \in OpenStakers(window) |-> Weight(window, c)]
                      IN  paid[a] * stake[b] - paid[b] * stake[a]
                            <= DustTolerance * stake[b]
                                 + (Under(Split(window).pot) + 1) * stake[a]
    BY DEF AcceptedIsFair
  <2>1. IsWindow(window) /\ Covered(window) /\ AllOk(Lines(window))
    BY WindowsAreTyped DEF JudgementInv
  <2>2. a \in OpenStakers(window) /\ b \in OpenStakers(window)
    BY <2>1, SplitFacts
  <2>3. Fair(window, a, b)
    BY <2>1, AcceptedFair
  <2> QED
    BY <2>2, <2>3 DEF Fair
<1> QED
  BY <1>1, JudgementInvHolds, PTL
=============================================================================

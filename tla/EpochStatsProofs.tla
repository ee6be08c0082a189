-------------------------- MODULE EpochStatsProofs --------------------------
(***************************************************************************)
(* Proofs about EpochStats for any epoch and batch length, budget and      *)
(* lookback, and any number of blocks and faults: a resumed walk counts    *)
(* every block at most once and leaves out only what the node has lost.    *)
(***************************************************************************)
EXTENDS EpochStats, FiniteSetTheorems, FunctionTheorems, SequenceTheorems, TLAPS

-----------------------------------------------------------------------------
\* Epochs on the number line.

LEMMA Quotient ==
    ASSUME NEW x \in Int, NEW s \in Nat \ {0}
    PROVE  x \div s \in Int /\ (x \div s) * s <= x /\ x < (x \div s + 1) * s
OBVIOUS

LEMMA ProductGrows ==
    ASSUME NEW x \in Int, NEW y \in Int, x <= y, NEW s \in Nat
    PROVE  x * s <= y * s
OBVIOUS

LEMMA EpochBounds ==
    ASSUME NEW e \in Int
    PROVE  /\ FirstBlock(e) \in Int /\ LastBlock(e) \in Int
           /\ LastBlock(e) = FirstBlock(e) + EpochBlocks - 1
           /\ e >= 0 => FirstBlock(e) >= 1
BY StatsConstants DEF FirstBlock, LastBlock

LEMMA EpochOrder ==
    ASSUME NEW e \in Int, NEW f \in Int, e < f
    PROVE  LastBlock(e) < FirstBlock(f)
<1>1. (e + 1) * EpochBlocks <= f * EpochBlocks
  BY ProductGrows, StatsConstants
<1>2. (e + 1) * EpochBlocks \in Int /\ f * EpochBlocks \in Int
  BY StatsConstants
<1> DEFINE x == (e + 1) * EpochBlocks
           y == f * EpochBlocks
<1>3. LastBlock(e) = x /\ FirstBlock(f) = y + 1
  BY DEF FirstBlock, LastBlock
<1> HIDE DEF x, y
<1> QED
  BY <1>1, <1>2, <1>3 DEF x, y

LEMMA EpochOfBlock ==
    ASSUME NEW b \in Int
    PROVE  /\ EpochOf(b) \in Int
           /\ FirstBlock(EpochOf(b)) <= b /\ b <= LastBlock(EpochOf(b))
<1> DEFINE e == EpochOf(b)
<1>1. e \in Int /\ e * EpochBlocks <= b - 1 /\ b - 1 < (e + 1) * EpochBlocks
  BY Quotient, StatsConstants DEF EpochOf
<1>2. e * EpochBlocks \in Int /\ (e + 1) * EpochBlocks \in Int
  BY <1>1, StatsConstants
<1> HIDE DEF e
<1> DEFINE x == e * EpochBlocks
           y == (e + 1) * EpochBlocks
<1>3. FirstBlock(e) = x + 1 /\ LastBlock(e) = y
  BY DEF FirstBlock, LastBlock
<1>4. x \in Int /\ y \in Int /\ x <= b - 1 /\ b - 1 < y
  BY <1>1, <1>2
<1> HIDE DEF x, y
<1>5. FirstBlock(e) <= b /\ b <= LastBlock(e)
  BY <1>3, <1>4
<1> QED
  BY <1>1, <1>5 DEF e

LEMMA EpochOfGrows ==
    ASSUME NEW b \in Int, NEW c \in Int, b <= c
    PROVE  EpochOf(b) <= EpochOf(c)
<1>1. /\ EpochOf(b) \in Int /\ EpochOf(c) \in Int
      /\ FirstBlock(EpochOf(b)) <= b /\ c <= LastBlock(EpochOf(c))
  BY EpochOfBlock
<1>2. EpochOf(c) < EpochOf(b) => LastBlock(EpochOf(c)) < FirstBlock(EpochOf(b))
  BY <1>1, EpochOrder
<1>3. FirstBlock(EpochOf(b)) \in Int /\ LastBlock(EpochOf(c)) \in Int
  BY <1>1, EpochBounds
<1> QED
  BY <1>1, <1>2, <1>3

\* The first block after so many whole epochs is of that epoch or a later one.
LEMMA EpochOfAtLeast ==
    ASSUME NEW n \in Nat, NEW b \in Int, b > n * EpochBlocks
    PROVE  EpochOf(b) >= n
<1>1. /\ EpochOf(b) \in Int /\ b <= LastBlock(EpochOf(b))
      /\ LastBlock(EpochOf(b)) \in Int
  BY EpochOfBlock, EpochBounds
<1>2. EpochOf(b) < n => LastBlock(EpochOf(b)) < FirstBlock(n)
  BY <1>1, EpochOrder
<1>3. FirstBlock(n) = n * EpochBlocks + 1 /\ n * EpochBlocks \in Int
  BY StatsConstants DEF FirstBlock
<1> DEFINE x == n * EpochBlocks
<1>4. x \in Int /\ b > x /\ FirstBlock(n) = x + 1
  BY <1>3
<1> HIDE DEF x
<1> QED
  BY <1>1, <1>2, <1>4

-----------------------------------------------------------------------------
\* Counting blocks.

MicroBlocks(lo, hi) == {b \in lo..hi : b % BatchBlocks # 0}

LEMMA MicrosType ==
    ASSUME NEW lo \in Int, NEW hi \in Int
    PROVE  /\ IsFiniteSet(MicroBlocks(lo, hi))
           /\ Micros(lo, hi) \in Nat /\ Micros(lo, hi) = Cardinality(MicroBlocks(lo, hi))
<1>1. IsFiniteSet(lo..hi) /\ MicroBlocks(lo, hi) \in SUBSET (lo..hi)
  BY FS_Interval DEF MicroBlocks
<1>2. IsFiniteSet(MicroBlocks(lo, hi))
  BY <1>1, FS_Subset
<1>3. Micros(lo, hi) = Cardinality(MicroBlocks(lo, hi))
  BY DEF Micros, MicroBlocks
<1> QED
  BY <1>2, <1>3, FS_CardinalityType

LEMMA MicrosOfNone ==
    ASSUME NEW lo \in Int, NEW hi \in Int, hi < lo
    PROVE  Micros(lo, hi) = 0
<1>1. MicroBlocks(lo, hi) = {}
  BY DEF MicroBlocks
<1> QED
  BY <1>1, MicrosType, FS_EmptySet

LEMMA MicrosOfFewer ==
    ASSUME NEW lo \in Int, NEW hi \in Int, NEW lo2 \in Int, NEW hi2 \in Int,
           lo <= lo2, hi2 <= hi
    PROVE  Micros(lo2, hi2) <= Micros(lo, hi)
<1>1. MicroBlocks(lo2, hi2) \in SUBSET MicroBlocks(lo, hi)
  BY DEF MicroBlocks
<1> QED
  BY <1>1, MicrosType, FS_Subset

LEMMA MicrosAddUp ==
    ASSUME NEW lo \in Int, NEW mid \in Int, NEW hi \in Int, lo <= mid, mid <= hi + 1
    PROVE  Micros(lo, hi) = Micros(lo, mid - 1) + Micros(mid, hi)
<1> DEFINE A == MicroBlocks(lo, mid - 1)
           B == MicroBlocks(mid, hi)
<1>1. MicroBlocks(lo, hi) = A \cup B
  BY DEF MicroBlocks
<1>2. A \cap B = {}
  BY DEF MicroBlocks
<1>3. IsFiniteSet(A) /\ IsFiniteSet(B)
  BY MicrosType
<1>4. Cardinality(A \cup B) = Cardinality(A) + Cardinality(B)
  <2> HIDE DEF A, B
  <2>1. Cardinality(A \cup B) = Cardinality(A) + Cardinality(B) - Cardinality(A \cap B)
    BY <1>3, FS_Union
  <2>2. Cardinality(A) \in Nat /\ Cardinality(B) \in Nat
    BY <1>3, FS_CardinalityType
  <2> QED
    BY <1>2, <2>1, <2>2, FS_EmptySet
<1>5. /\ Micros(lo, hi) = Cardinality(MicroBlocks(lo, hi))
      /\ Micros(lo, mid - 1) = Cardinality(A) /\ Micros(mid, hi) = Cardinality(B)
  BY MicrosType
<1> HIDE DEF A, B
<1> QED
  BY <1>1, <1>4, <1>5

-----------------------------------------------------------------------------
\* The list of epochs to do.

\* Every place in a finite set of numbers, counted from above, is somebody's.
LEMMA Places ==
    ASSUME NEW S \in SUBSET Int, IsFiniteSet(S)
    PROVE  /\ Cardinality(S) \in Nat
           /\ \A k \in 1..Cardinality(S) :
                \E e \in S : Cardinality({x \in S : x >= e}) = k
<1> DEFINE above(e) == {x \in S : x >= e}
           place == [e \in S |-> Cardinality(above(e))]
           n == Cardinality(S)
<1>1. n \in Nat
  BY FS_CardinalityType
<1>2. ASSUME NEW e \in S
      PROVE  IsFiniteSet(above(e)) /\ Cardinality(above(e)) \in 1..n
  <2>1. IsFiniteSet(above(e)) /\ Cardinality(above(e)) <= n
    BY FS_Subset
  <2>2. e \in above(e)
    OBVIOUS
  <2>3. Cardinality(above(e)) # 0 /\ Cardinality(above(e)) \in Nat
    BY <2>1, <2>2, FS_EmptySet, FS_CardinalityType
  <2> QED
    BY <1>1, <2>1, <2>3
<1>3. ASSUME NEW e \in S, NEW f \in S, f < e
      PROVE  Cardinality(above(e)) # Cardinality(above(f))
  <2>1. above(e) \in SUBSET above(f) /\ f \in above(f) /\ f \notin above(e)
    <3>1. e \in Int /\ f \in Int /\ \A x \in S : x \in Int
      OBVIOUS
    <3>2. \A x \in S : x >= e => x >= f
      BY <1>3, <3>1
    <3>3. f >= f /\ ~(f >= e)
      BY <1>3, <3>1
    <3> QED
      BY <3>2, <3>3
  <2>2. above(e) # above(f)
    BY <2>1
  <2> HIDE DEF above
  <2> QED
    BY <1>2, <2>1, <2>2, FS_Subset
<1>4. place \in Injection(S, 1..n)
  <2>1. place \in [S -> 1..n]
    BY <1>2
  <2>2. ASSUME NEW e \in S, NEW f \in S, place[e] = place[f] PROVE e = f
    <3>1. ~(e < f) /\ ~(f < e)
      BY <1>3, <2>2
    <3> QED
      BY <3>1
  <2>3. IsInjective(place)
    BY <2>1, <2>2 DEF IsInjective
  <2> QED
    BY <2>1, <2>3 DEF Injection
<1>5. IsFiniteSet(1..n) /\ Cardinality(1..n) = n
  BY <1>1, FS_Interval
<1> HIDE DEF place
<1>6. place \in Surjection(S, 1..n)
  BY <1>4, <1>5, FS_Injection
<1>7. \A k \in 1..n : \E e \in S : place[e] = k
  BY <1>6 DEF Surjection
<1> QED
  BY <1>1, <1>7 DEF place

\* A list of epochs of S, each at most once.
IsTodo(q, S) == q \in Seq(S) /\ \A i, j \in 1..Len(q) : q[i] = q[j] => i = j

LEMMA NewestFirstIsTodo ==
    ASSUME NEW S \in SUBSET Int, IsFiniteSet(S)
    PROVE  IsTodo(NewestFirst(S), S)
<1> DEFINE n == Cardinality(S)
           above(e) == {x \in S : x >= e}
           q == NewestFirst(S)
<1>1. n \in Nat /\ \A k \in 1..n : \E e \in S : Cardinality(above(e)) = k
  BY Places
<1>2. q = [k \in 1..n |-> CHOOSE e \in S : Cardinality(above(e)) = k]
  BY DEF NewestFirst
<1>3. \A k \in 1..n : q[k] \in S /\ Cardinality(above(q[k])) = k
  <2> SUFFICES ASSUME NEW k \in 1..n PROVE q[k] \in S /\ Cardinality(above(q[k])) = k
    OBVIOUS
  <2>1. q[k] = CHOOSE e \in S : Cardinality(above(e)) = k
    BY <1>2
  <2>2. \E e \in S : Cardinality(above(e)) = k
    BY <1>1
  <2> HIDE DEF above, q, n
  <2> QED
    BY <2>1, <2>2
<1> HIDE DEF n, above
<1>4. q \in [1..n -> S]
  BY <1>2, <1>3
<1> HIDE DEF q
<1>5. q \in Seq(S) /\ Len(q) = n
  BY <1>1, <1>4
<1>6. \A i, j \in 1..n : q[i] = q[j] => i = j
  BY <1>3
<1>7. IsTodo(q, S)
  BY <1>5, <1>6 DEF IsTodo
<1> QED
  BY <1>7 DEF q

LEMMA TodosJoin ==
    ASSUME NEW S, NEW T, S \cap T = {}, NEW q, IsTodo(q, S), NEW r, IsTodo(r, T)
    PROVE  IsTodo(q \o r, S \cup T)
<1> DEFINE all == q \o r
           l == Len(q)
           m == Len(r)
<1>1. q \in Seq(S \cup T) /\ r \in Seq(S \cup T) /\ l \in Nat /\ m \in Nat
  BY DEF IsTodo
<1>2. /\ all \in Seq(S \cup T) /\ Len(all) = l + m
      /\ \A i \in 1..(l + m) : all[i] = IF i <= l THEN q[i] ELSE r[i - l]
  BY <1>1, ConcatProperties
<1>3. /\ \A i \in 1..l : q[i] \in S
      /\ \A i \in 1..m : r[i] \in T
      /\ \A i, j \in 1..l : q[i] = q[j] => i = j
      /\ \A i, j \in 1..m : r[i] = r[j] => i = j
  BY DEF IsTodo
<1> HIDE DEF all, l, m
<1>4. ASSUME NEW i \in 1..(l + m), NEW j \in 1..(l + m), all[i] = all[j] PROVE i = j
  <2>1. /\ i <= l => i \in 1..l /\ all[i] = q[i] /\ all[i] \in S
        /\ ~(i <= l) => i - l \in 1..m /\ all[i] = r[i - l] /\ all[i] \in T
    BY <1>1, <1>2, <1>3
  <2>2. /\ j <= l => j \in 1..l /\ all[j] = q[j] /\ all[j] \in S
        /\ ~(j <= l) => j - l \in 1..m /\ all[j] = r[j - l] /\ all[j] \in T
    BY <1>1, <1>2, <1>3
  <2>3. CASE i <= l
    <3>1. j <= l
      BY <1>4, <2>1, <2>2, <2>3
    <3> QED
      BY <1>3, <1>4, <2>1, <2>2, <2>3, <3>1
  <2>4. CASE ~(i <= l)
    <3>1. ~(j <= l)
      BY <1>4, <2>1, <2>2, <2>4
    <3>2. i - l = j - l
      BY <1>3, <1>4, <2>1, <2>2, <2>4, <3>1
    <3> QED
      BY <1>1, <3>2
  <2> QED
    BY <2>3, <2>4
<1>5. IsTodo(all, S \cup T)
  BY <1>2, <1>4 DEF IsTodo
<1> QED
  BY <1>5 DEF all

LEMMA TodoOfMore ==
    ASSUME NEW S, NEW T, S \subseteq T, NEW q, IsTodo(q, S)
    PROVE  IsTodo(q, T)
<1>1. q \in Seq(S) /\ \A i, j \in 1..Len(q) : q[i] = q[j] => i = j
  BY DEF IsTodo
<1>2. q \in Seq(T)
  BY <1>1
<1> QED
  BY <1>1, <1>2 DEF IsTodo

LEMMA EpochsToDoIsTodo ==
    ASSUME NEW c \in Epochs, Lookback <= c, NEW start
    PROVE  IsTodo(EpochsToDo(c, start), 0..c)
<1> DEFINE Begins(e) == start - (c - e) * EpochBlocks
           I == {e \in Epochs : /\ e < c /\ rows[e] # NULL
                                /\ rows[e].end < Begins(e) + EpochBlocks - 1}
           M == {e \in (c - Lookback)..(c - 1) : rows[e] = NULL}
<1>1. c \in Nat /\ Lookback \in Nat /\ EpochOf(MaxHead) \in Int
  BY StatsConstants, EpochOfBlock DEF Epochs
<1>2. I \in SUBSET (0..c) /\ M \in SUBSET (0..c) /\ c \notin I /\ c \notin M /\ I \cap M = {}
  BY <1>1 DEF Epochs
<1>3. IsFiniteSet(0..c)
  BY <1>1, FS_Interval
<1>4. EpochsToDo(c, start) = <<c>> \o NewestFirst(I) \o NewestFirst(M)
  BY DEF EpochsToDo
<1> HIDE DEF I, M
<1>5. IsFiniteSet(I) /\ IsFiniteSet(M)
  BY <1>2, <1>3, FS_Subset
<1>6. I \in SUBSET Int /\ M \in SUBSET Int
  BY <1>2
<1>7. IsTodo(NewestFirst(I), I) /\ IsTodo(NewestFirst(M), M)
  BY <1>5, <1>6, NewestFirstIsTodo
<1>8. IsTodo(<<c>>, {c})
  BY DEF IsTodo
<1> DEFINE q == NewestFirst(I)
           r == NewestFirst(M)
           p == <<c>>
<1> HIDE DEF q, r, p
<1>9. IsTodo(p \o q, {c} \cup I)
  <2>1. {c} \cap I = {} /\ IsTodo(p, {c}) /\ IsTodo(q, I)
    BY <1>2, <1>7, <1>8 DEF p, q
  <2> QED
    BY <2>1, TodosJoin
<1> DEFINE pq == p \o q
           PQ == {c} \cup I
<1>10. PQ \cap M = {} /\ IsTodo(pq, PQ) /\ IsTodo(r, M) /\ PQ \cup M \in SUBSET (0..c)
  BY <1>1, <1>2, <1>7, <1>9 DEF r
<1> HIDE DEF pq, PQ
<1>11. IsTodo(pq \o r, PQ \cup M)
  BY <1>10, TodosJoin
<1>12. IsTodo(pq \o r, 0..c)
  BY <1>10, <1>11, TodoOfMore
<1> QED
  BY <1>4, <1>12 DEF pq, p, q, r

Free(q, e) == \A i \in 1..Len(q) : q[i] # e

LEMMA NextOfTodo ==
    ASSUME NEW S, NEW q, IsTodo(q, S), q # <<>>
    PROVE  /\ q[1] \in S /\ IsTodo(Tail(q), S) /\ Free(Tail(q), q[1])
           /\ \A e : Free(q, e) => e # q[1] /\ Free(Tail(q), e)
<1> DEFINE r == Tail(q)
           l == Len(q)
<1>1. /\ q \in Seq(S) /\ l \in Nat /\ \A i, j \in 1..l : q[i] = q[j] => i = j
  BY DEF IsTodo
<1>2. l > 0 /\ r \in Seq(S) /\ Len(r) = l - 1 /\ \A i \in 1..(l - 1) : r[i] = q[i + 1]
  BY <1>1
<1>3. q[1] \in S
  BY <1>1, <1>2
<1> HIDE DEF r, l
<1>4. \A i \in 1..(l - 1) : i + 1 \in 1..l /\ i + 1 # 1
  BY <1>1, <1>2
<1>5. \A i, j \in 1..(l - 1) : r[i] = r[j] => i = j
  BY <1>1, <1>2, <1>4
<1>6. 1 \in 1..l
  BY <1>1, <1>2
<1>7. \A i \in 1..(l - 1) : r[i] # q[1]
  BY <1>1, <1>2, <1>4, <1>6
<1>8. ASSUME NEW e, \A i \in 1..l : q[i] # e PROVE e # q[1] /\ \A i \in 1..(l - 1) : r[i] # e
  BY <1>2, <1>4, <1>6, <1>8
<1>9. IsTodo(r, S) /\ Free(r, q[1])
  BY <1>2, <1>5, <1>7 DEF IsTodo, Free
<1>10. \A e : Free(q, e) => e # q[1] /\ Free(r, e)
  BY <1>2, <1>8 DEF Free, l
<1> QED
  BY <1>3, <1>9, <1>10 DEF r

-----------------------------------------------------------------------------
\* The inductive invariant.

RowType == [start : Int, end : Int, micro : Int, rewards : Int]

ChainInv ==
    /\ head \in Nat /\ FirstHead <= head /\ head <= MaxHead
    /\ pruned \in Nat /\ pruned < head

\* The start that was found for the current epoch is its first block, or the
\* first one that the node had.
BoundaryInv ==
    boundary # NULL =>
        /\ current \in Nat /\ current <= EpochOf(head)
        /\ boundary \in FirstBlock(current)..LastBlock(current)
        /\ boundary = FirstBlock(current) \/ boundary <= pruned + 1

\* A stored row or one that is about to be.
RowOk(e, u, r) == u \in Int /\ r \in RowType /\ Exact(e, u, r)

TablesInv ==
    /\ DOMAIN rows = Epochs /\ DOMAIN upto = Epochs
    /\ \A e \in Epochs : \/ rows[e] = NULL /\ upto[e] = NULL
                         \/ rows[e] # NULL /\ RowOk(e, upto[e], rows[e])

\* What is left to do is of the head's epoch or an older one, and no epoch comes
\* twice: the row the run saw at its start is still the one in the table.
RunInv ==
    /\ pc \in {"idle", "next", "walk", "stopped"}
    /\ pc # "idle" =>
         /\ boundary # NULL
         /\ top \in FirstBlock(current)..LastBlock(current)
         /\ IsTodo(todo, 0..current)
    /\ written # NULL =>
         /\ pc = "next"
         /\ written.epoch \in 0..current /\ Free(todo, written.epoch)
         /\ RowOk(written.epoch, written.upto, written.row)

CountedBefore(e) == IF rows[e] = NULL THEN 0 ELSE rows[e].micro

\* The walk has counted what it read, from where the last one stopped.
WalkInv ==
    pc \in {"walk", "stopped"} =>
        /\ written = NULL
        /\ ep \in 0..current /\ Free(todo, ep)
        /\ from = Resume(ep) /\ from \in Int /\ h \in Int /\ from <= h
        /\ micro = CountedBefore(ep) + Micros(from, h - 1)
        /\ h > from =>
             /\ FirstBlock(ep) <= from /\ EpochStart(ep) <= from /\ h - 1 <= LastBlock(ep)
             /\ rows[ep] = NULL => from = FirstBlock(ep) \/ from <= pruned + 1
             /\ rows[ep] # NULL => rows[ep].end = from - 1

StatsInv == ChainInv /\ BoundaryInv /\ TablesInv /\ RunInv /\ WalkInv

-----------------------------------------------------------------------------
\* Where the blocks of an epoch are taken to be: the start that was found can
\* lie behind the first block only where the node has lost what is before it.
LEMMA Starts ==
    ASSUME BoundaryInv, boundary # NULL, pruned \in Nat, NEW e \in 0..current
    PROVE  /\ e \in Int /\ current \in Nat
           /\ FirstBlock(e) \in Int /\ LastBlock(e) \in Int /\ EpochStart(e) \in Int
           /\ FirstBlock(e) >= 1
           /\ FirstBlock(e) <= EpochStart(e) /\ EpochStart(e) <= LastBlock(e)
           /\ EpochStart(e) = FirstBlock(e) \/ EpochStart(e) <= pruned + 1
           /\ e < current => LET end == EpochStart(e) + EpochBlocks - 1
                             IN  end <= LastBlock(e) \/ end <= pruned
<1> DEFINE F == FirstBlock(e)
           L == LastBlock(e)
           Fc == FirstBlock(current)
           o == boundary - Fc
           S == EpochStart(e)
<1>1. /\ current \in Nat /\ e \in Int /\ e >= 0 /\ e <= current
      /\ boundary \in Fc..LastBlock(current)
      /\ boundary = Fc \/ boundary <= pruned + 1
  BY DEF BoundaryInv
<1>2. /\ F \in Int /\ L = F + EpochBlocks - 1 /\ F >= 1
      /\ Fc \in Int /\ LastBlock(current) = Fc + EpochBlocks - 1
      /\ EpochBlocks \in Nat
  BY <1>1, EpochBounds, StatsConstants
<1>3. e < current => L < Fc
  BY <1>1, EpochOrder
<1>4. S = F + o
  <2>1. (current - e) * EpochBlocks = current * EpochBlocks - e * EpochBlocks
    BY <1>1, <1>2
  <2>2. current * EpochBlocks \in Int /\ e * EpochBlocks \in Int
    BY <1>1, <1>2
  <2> DEFINE x == current * EpochBlocks
             y == e * EpochBlocks
  <2>3. S = boundary - (x - y) /\ F = y + 1 /\ Fc = x + 1 /\ x \in Int /\ y \in Int
    BY <2>1, <2>2 DEF EpochStart, FirstBlock
  <2>4. boundary \in Int
    BY <1>1, <1>2
  <2> HIDE DEF x, y, S, F, Fc
  <2> QED
    BY <2>3, <2>4
<1> HIDE DEF F, L, Fc, S
<1>5. o \in Int /\ 0 <= o /\ o < EpochBlocks /\ boundary = Fc + o
  BY <1>1, <1>2
<1> HIDE DEF o
<1>6. /\ S \in Int /\ F <= S /\ S <= L
      /\ S = F \/ S <= pruned + 1
  <2>1. F <= Fc
    BY <1>1, <1>2, <1>3 DEF F, Fc
  <2> QED
    BY <1>1, <1>2, <1>4, <1>5, <2>1
<1>7. e < current => S + EpochBlocks - 1 <= L \/ S + EpochBlocks - 1 <= pruned
  BY <1>1, <1>2, <1>3, <1>4, <1>5
<1> QED
  BY <1>1, <1>2, <1>6, <1>7 DEF F, L, S

\* No block is read that is not of the epoch, as long as the run saw its end.
LEMMA Ends ==
    ASSUME BoundaryInv, boundary # NULL, pruned \in Nat,
           top \in FirstBlock(current)..LastBlock(current), NEW e \in 0..current
    PROVE  EpochEnd(e) \in Int /\ (EpochEnd(e) <= LastBlock(e) \/ EpochEnd(e) <= pruned)
<1>1. /\ FirstBlock(e) \in Int /\ LastBlock(e) \in Int /\ EpochStart(e) \in Int
      /\ e \in Int /\ current \in Nat /\ EpochBlocks \in Nat
  BY Starts, StatsConstants
<1>2. e < current => EpochEnd(e) = EpochStart(e) + EpochBlocks - 1
  BY <1>1 DEF EpochEnd
<1>3. e = current => EpochEnd(e) = top
  BY DEF EpochEnd
<1>4. e = current \/ e < current
  BY <1>1
<1>5. CASE e < current
  <2>1. LET end == EpochStart(e) + EpochBlocks - 1
        IN  end <= LastBlock(e) \/ end <= pruned
    BY <1>5, Starts
  <2> QED
    BY <1>1, <1>2, <1>5, <2>1
<1>6. CASE e = current
  BY <1>1, <1>3, <1>6
<1> QED
  BY <1>4, <1>5, <1>6

-----------------------------------------------------------------------------
\* The rows.

LEMMA LaterOfTwo ==
    ASSUME NEW x \in Int, NEW y \in Int
    PROVE  Max({x, y}) = IF x >= y THEN x ELSE y
<1>1. \E u \in {x, y} : \A v \in {x, y} : u >= v
  OBVIOUS
<1>2. Max({x, y}) \in {x, y} /\ Max({x, y}) >= x /\ Max({x, y}) >= y
  BY <1>1 DEF Max
<1> QED
  BY <1>2

LEMMA LatestOfThree ==
    ASSUME NEW x \in Int, NEW y \in Int, NEW z \in Int, NEW m, m = Max({x, y, z})
    PROVE  m \in {x, y, z} /\ m >= x /\ m >= y /\ m >= z
<1>1. \E u \in {x, y, z} : \A v \in {x, y, z} : u >= v
  OBVIOUS
<1> QED
  BY <1>1 DEF Max

\* What the node still has is what it had, or less.
LEMMA PruningKeepsExact ==
    ASSUME pruned \in Nat, pruned' \in Nat, pruned <= pruned',
           NEW e \in Int, NEW u, NEW r, RowOk(e, u, r)
    PROVE  RowOk(e, u, r)'
<1> DEFINE F == FirstBlock(e)
           lo == Max({F, pruned + 1})
           lo2 == Max({F, pruned' + 1})
<1>1. /\ u \in Int /\ r \in RowType /\ u \in F..r.end /\ r.end <= LastBlock(e)
      /\ r.end > u => r.end <= pruned
      /\ r.micro <= Micros(F, u) /\ r.micro >= Micros(lo, r.end)
  BY DEF RowOk, Exact
<1>2. F \in Int /\ r.end \in Int /\ r.micro \in Int
  BY <1>1, EpochBounds DEF RowType
<1>3. lo \in Int /\ lo2 \in Int /\ lo <= lo2
  BY <1>2, LaterOfTwo
<1> HIDE DEF lo, lo2, F
<1>4. Micros(lo2, r.end) <= Micros(lo, r.end)
  BY <1>2, <1>3, MicrosOfFewer
<1>5. Micros(lo2, r.end) \in Nat /\ Micros(lo, r.end) \in Nat
  BY <1>2, <1>3, MicrosType
<1>6. r.micro >= Micros(lo2, r.end)
  BY <1>1, <1>2, <1>4, <1>5
<1>7. r.end > u => r.end <= pruned'
  BY <1>1, <1>2
<1> QED
  BY <1>1, <1>6, <1>7 DEF RowOk, Exact, F, lo2

-----------------------------------------------------------------------------
\* A batch.

\* What the table has of an epoch that is due, and where its walk begins.
LEMMA DueEpoch ==
    ASSUME StatsInv, boundary # NULL, NEW e \in 0..current
    PROVE  /\ e \in Epochs
           /\ rows[e] = NULL => upto[e] = NULL /\ CountedBefore(e) = 0 /\ Resume(e) = EpochStart(e)
           /\ rows[e] # NULL =>
                /\ RowOk(e, upto[e], rows[e])
                /\ upto[e] # NULL /\ upto[e] \in Int /\ rows[e].end \in Int
                /\ FirstBlock(e) <= upto[e] /\ upto[e] <= rows[e].end
                /\ rows[e].end <= LastBlock(e)
                /\ rows[e].end > upto[e] => rows[e].end <= pruned
                /\ CountedBefore(e) = rows[e].micro /\ rows[e].micro \in Int
                /\ Resume(e) = upto[e] + 1
<1>1. e \in Epochs
  <2>1. /\ current \in Nat /\ current <= EpochOf(head)
        /\ head \in Nat /\ head <= MaxHead /\ MaxHead \in Nat
    BY StatsConstants DEF StatsInv, ChainInv, BoundaryInv
  <2>2. EpochOf(head) <= EpochOf(MaxHead) /\ EpochOf(head) \in Int /\ EpochOf(MaxHead) \in Int
    BY <2>1, EpochOfGrows, EpochOfBlock
  <2> QED
    BY <2>1, <2>2 DEF Epochs
<1>2. \/ rows[e] = NULL /\ upto[e] = NULL
      \/ rows[e] # NULL /\ RowOk(e, upto[e], rows[e])
  BY <1>1 DEF StatsInv, TablesInv
<1>3. CASE rows[e] = NULL /\ upto[e] = NULL
  BY <1>1, <1>3 DEF CountedBefore, Resume
<1>4. CASE rows[e] # NULL /\ RowOk(e, upto[e], rows[e])
  <2>1. /\ upto[e] \in Int /\ rows[e] \in RowType
        /\ upto[e] \in FirstBlock(e)..rows[e].end /\ rows[e].end <= LastBlock(e)
        /\ rows[e].end > upto[e] => rows[e].end <= pruned
    BY <1>4 DEF RowOk, Exact
  <2>2. upto[e] # NULL
    BY <2>1, StatsConstants
  <2>3. rows[e].end \in Int /\ rows[e].micro \in Int
    BY <2>1 DEF RowType
  <2>4. e \in Int
    OBVIOUS
  <2>5. FirstBlock(e) \in Int
    BY <2>4, EpochBounds
  <2>6. FirstBlock(e) <= upto[e] /\ upto[e] <= rows[e].end
    BY <2>1, <2>3, <2>5
  <2>7. CountedBefore(e) = rows[e].micro /\ Resume(e) = upto[e] + 1
    BY <1>4, <2>2 DEF CountedBefore, Resume
  <2> QED
    BY <1>1, <1>4, <2>1, <2>2, <2>3, <2>6, <2>7
<1> QED
  BY <1>2, <1>3, <1>4

\* Counted up to `last`, which is where it was or a block the node has.
LEMMA CountKeepsWalk ==
    ASSUME StatsInv, pc = "walk", NEW last \in Int, h - 1 <= last, last <= EpochEnd(ep),
           last >= h => h > pruned, Count(last), UNCHANGED chain
    PROVE  WalkInv'
<1> DEFINE F == FirstBlock(ep)
           S == EpochStart(ep)
           L == LastBlock(ep)
           base == CountedBefore(ep)
<1>1. /\ boundary # NULL /\ pruned \in Nat /\ ep \in 0..current
      /\ top \in FirstBlock(current)..LastBlock(current) /\ BoundaryInv
  BY DEF StatsInv, ChainInv, RunInv, WalkInv
<1>2. /\ written = NULL /\ Free(todo, ep)
      /\ from = Resume(ep) /\ from \in Int /\ h \in Int /\ from <= h
      /\ micro = base + Micros(from, h - 1)
      /\ h > from =>
           /\ F <= from /\ S <= from /\ h - 1 <= L
           /\ rows[ep] = NULL => from = F \/ from <= pruned + 1
           /\ rows[ep] # NULL => rows[ep].end = from - 1
  BY DEF StatsInv, WalkInv
<1>3. /\ h' = last + 1 /\ micro' = micro + Micros(h, last)
      /\ UNCHANGED <<written, pruned, boundary, current, upto, rows, top, todo, ep, from>>
  BY DEF Count, meta, chain
<1>4. /\ F \in Int /\ S \in Int /\ L \in Int /\ F <= S /\ (S = F \/ S <= pruned + 1)
      /\ EpochEnd(ep) \in Int
      /\ EpochEnd(ep) <= L \/ EpochEnd(ep) <= pruned
  BY <1>1, Starts, Ends
<1>5. /\ base \in Int
      /\ rows[ep] = NULL => from = S
      /\ rows[ep] # NULL =>
           /\ from - 1 = upto[ep] /\ upto[ep] \in Int /\ rows[ep].end \in Int
           /\ F <= upto[ep] /\ upto[ep] <= rows[ep].end
           /\ rows[ep].end > upto[ep] => rows[ep].end <= pruned
  <2>1. CASE rows[ep] = NULL
    BY <1>1, <1>2, <2>1, DueEpoch
  <2>2. CASE rows[ep] # NULL
    <3>1. /\ upto[ep] \in Int /\ rows[ep].end \in Int
          /\ F <= upto[ep] /\ upto[ep] <= rows[ep].end
          /\ rows[ep].end > upto[ep] => rows[ep].end <= pruned
          /\ base \in Int /\ from = upto[ep] + 1
      BY <1>1, <1>2, <2>2, DueEpoch
    <3> QED
      BY <2>2, <3>1
  <2> QED
    BY <2>1, <2>2
<1> HIDE DEF F, S, L, base
<1>6. micro' = base + Micros(from, h' - 1)
  <2>1. Micros(from, last) = Micros(from, h - 1) + Micros(h, last)
    BY <1>2, MicrosAddUp
  <2>2. Micros(from, h - 1) \in Nat /\ Micros(h, last) \in Nat /\ h' - 1 = last
    BY <1>2, <1>3, MicrosType
  <2>3. micro' = (base + Micros(from, h - 1)) + Micros(h, last)
    BY <1>2, <1>3
  <2> QED
    BY <1>5, <2>1, <2>2, <2>3
<1>7. h' \in Int /\ from <= h'
  BY <1>2, <1>3
<1>8. ASSUME last >= h
      PROVE  /\ F <= from /\ S <= from /\ last <= L
             /\ rows[ep] = NULL => from = F \/ from <= pruned + 1
             /\ rows[ep] # NULL => rows[ep].end = from - 1
  <2>1. pruned < h /\ last <= L
    BY <1>1, <1>2, <1>4, <1>8
  <2>2. CASE h > from
    BY <1>2, <2>1, <2>2
  <2>3. CASE h = from
    <3>1. CASE rows[ep] = NULL
      BY <1>1, <1>2, <1>4, <1>5, <2>1, <2>3, <3>1
    <3>2. CASE rows[ep] # NULL
      BY <1>1, <1>2, <1>4, <1>5, <2>1, <2>3, <3>2
    <3> QED
      BY <3>1, <3>2
  <2> QED
    BY <1>2, <2>2, <2>3
<1>9. h' > from =>
        /\ F <= from /\ S <= from /\ h' - 1 <= L
        /\ rows[ep] = NULL => from = F \/ from <= pruned + 1
        /\ rows[ep] # NULL => rows[ep].end = from - 1
  <2>1. CASE last >= h
    BY <1>2, <1>3, <1>8, <2>1
  <2>2. CASE last = h - 1
    <3>1. h' = h
      BY <1>2, <1>3, <2>2
    <3> QED
      BY <1>2, <3>1
  <2> QED
    BY <1>2, <2>1, <2>2
<1>10. /\ F' = F /\ S' = S /\ L' = L /\ base' = base /\ Resume(ep)' = Resume(ep)
       /\ Free(todo, ep)' = Free(todo, ep)
  BY <1>3 DEF F, S, L, base, FirstBlock, LastBlock, EpochStart, CountedBefore, Resume, Free
<1> QED
  BY <1>1, <1>2, <1>3, <1>6, <1>7, <1>9, <1>10 DEF WalkInv, F, S, L, base

LEMMA EarlierOfTwo ==
    ASSUME NEW x \in Int, NEW y \in Int
    PROVE  Min({x, y}) = IF x <= y THEN x ELSE y
<1>1. \E u \in {x, y} : \A v \in {x, y} : u <= v
  OBVIOUS
<1>2. Min({x, y}) \in {x, y} /\ Min({x, y}) <= x /\ Min({x, y}) <= y
  BY <1>1 DEF Min
<1> QED
  BY <1>2

\* A batch ends at the block that is to be read next or later.
LEMMA BatchBounds ==
    ASSUME EpochEnd(ep) \in Int, EpochStart(ep) \in Int, h \in Int, h <= EpochEnd(ep)
    PROVE  BatchEnd \in Int /\ h <= BatchEnd /\ BatchEnd <= EpochEnd(ep)
<1> DEFINE S == EpochStart(ep)
           q == (h - S) \div BatchBlocks
           y == (q + 1) * BatchBlocks
           b == S + y - 1
           E == EpochEnd(ep)
<1>1. q \in Int /\ h - S < y
  <2> DEFINE n == h - S
             d == BatchBlocks
  <2>1. n \in Int /\ d \in Nat \ {0}
    BY StatsConstants
  <2> HIDE DEF n, d
  <2>2. n \div d \in Int /\ n < (n \div d + 1) * d
    BY <2>1, Quotient
  <2> QED
    BY <2>2 DEF n, d
<1>2. y \in Int
  BY <1>1, StatsConstants
<1>3. BatchEnd = Min({b, E})
  BY DEF BatchEnd
<1> HIDE DEF y, S, E
<1>4. b \in Int /\ h <= b
  BY <1>1, <1>2 DEF S
<1> HIDE DEF b
<1>5. BatchEnd = IF b <= E THEN b ELSE E
  BY <1>3, <1>4, EarlierOfTwo DEF E
<1> QED
  BY <1>4, <1>5 DEF E

LEMMA FetchKeepsInv ==
    ASSUME StatsInv, FetchBatch \/ FetchHiccup
    PROVE  StatsInv'
<1>1. /\ pc = "walk" /\ h <= EpochEnd(ep) /\ boundary # NULL /\ pruned \in Nat
      /\ ep \in 0..current /\ h \in Int /\ written = NULL
      /\ top \in FirstBlock(current)..LastBlock(current) /\ BoundaryInv
  BY DEF FetchBatch, FetchHiccup, Walking, StatsInv, ChainInv, RunInv, WalkInv
<1>2. EpochEnd(ep) \in Int /\ EpochStart(ep) \in Int
  BY <1>1, Starts, Ends
<1>3. BatchEnd \in Int /\ h <= BatchEnd /\ BatchEnd <= EpochEnd(ep)
  BY <1>1, <1>2, BatchBounds
<1>4. \E last \in Int : /\ h - 1 <= last /\ last <= EpochEnd(ep)
                        /\ last >= h => h > pruned
                        /\ Count(last) /\ UNCHANGED chain
  <2>1. CASE FetchBatch
    <3>1. UNCHANGED chain
      BY <2>1 DEF FetchBatch, Count, chain
    <3>2. CASE h <= pruned
      <4>1. Count(h - 1)
        BY <2>1, <3>2 DEF FetchBatch
      <4> QED
        BY <1>1, <1>2, <3>1, <4>1
    <3>3. CASE ~(h <= pruned)
      <4>1. Count(BatchEnd)
        BY <2>1, <3>3 DEF FetchBatch
      <4> QED
        BY <1>1, <1>2, <1>3, <3>1, <3>3, <4>1
    <3> QED
      BY <3>2, <3>3
  <2>2. CASE FetchHiccup
    <3>1. UNCHANGED chain /\ h > pruned
      BY <2>2 DEF FetchHiccup, Count, chain
    <3>2. PICK last \in (h - 1)..(BatchEnd - 1) : Count(last)
      BY <2>2 DEF FetchHiccup
    <3> QED
      BY <1>1, <1>2, <1>3, <3>1, <3>2
  <2> QED
    BY <2>1, <2>2
<1>5. PICK last \in Int : /\ h - 1 <= last /\ last <= EpochEnd(ep)
                          /\ last >= h => h > pruned
                          /\ Count(last) /\ UNCHANGED chain
  BY <1>4
<1>6. WalkInv'
  BY <1>1, <1>5, CountKeepsWalk
<1>7. /\ UNCHANGED <<head, pruned, boundary, current, upto, rows, top, todo, written>>
      /\ pc' \in {"walk", "stopped"}
  BY <1>1, <1>5 DEF Count, chain, meta
<1>8. ChainInv' /\ BoundaryInv'
  BY <1>7 DEF StatsInv, ChainInv, BoundaryInv, FirstBlock, LastBlock, EpochOf
<1>9. TablesInv'
  BY <1>7 DEF StatsInv, TablesInv, RowOk, Exact
<1>10. RunInv'
  BY <1>1, <1>7 DEF StatsInv, RunInv, FirstBlock, LastBlock, IsTodo
<1> QED
  BY <1>6, <1>8, <1>9, <1>10 DEF StatsInv

-----------------------------------------------------------------------------
\* The row that is written.

\* A walk that counted something: what it counted adds up with what was counted.
LEMMA CountsAddUp ==
    ASSUME NEW F \in Int, NEW start \in Int, NEW last \in Int, NEW lost \in Int,
           F <= start, start <= last, NEW base \in Int, NEW prev \in Int, prev = start - 1,
           NEW lo, lo = Max({F, lost + 1}),
           \/ base = 0 /\ (start = F \/ start <= lost + 1)
           \/ base <= Micros(F, prev) /\ base >= Micros(lo, prev)
    PROVE  /\ base + Micros(start, last) <= Micros(F, last)
           /\ base + Micros(start, last) >= Micros(lo, last)
<1>1. lo \in Int /\ F <= lo /\ lost + 1 <= lo
  BY LaterOfTwo
<1>2. /\ Micros(F, prev) \in Nat /\ Micros(start, last) \in Nat /\ Micros(F, last) \in Nat
      /\ Micros(lo, prev) \in Nat /\ Micros(lo, last) \in Nat
  BY <1>1, MicrosType
<1>3. Micros(F, last) = Micros(F, prev) + Micros(start, last)
  BY MicrosAddUp
<1>4. start <= lo => Micros(lo, last) <= Micros(start, last)
  BY <1>1, MicrosOfFewer
<1>5. lo <= start => Micros(lo, last) = Micros(lo, prev) + Micros(start, last)
  BY <1>1, MicrosAddUp
<1>6. CASE base = 0 /\ (start = F \/ start <= lost + 1)
  <2>1. start <= lo
    BY <1>1, <1>6
  <2> QED
    BY <1>2, <1>3, <1>4, <1>6, <2>1
<1>7. CASE base <= Micros(F, prev) /\ base >= Micros(lo, prev)
  <2>1. start <= lo \/ lo <= start
    BY <1>1
  <2> QED
    BY <1>2, <1>3, <1>4, <1>5, <1>7, <2>1
<1> QED
  BY <1>6, <1>7

SavedEnd(e) == Max({h - 1, EpochStart(e) - 1} \cup (IF rows[e] = NULL THEN {} ELSE {rows[e].end}))
SavedUpto(e) == IF h > from THEN h - 1 ELSE upto[e]

LEMMA SavedWalk ==
    ASSUME StatsInv, pc \in {"walk", "stopped"}, h > from,
           NEW r, r \in RowType, r.end = SavedEnd(ep), r.micro = micro
    PROVE  RowOk(ep, SavedUpto(ep), r)
<1> DEFINE F == FirstBlock(ep)
           S == EpochStart(ep)
           L == LastBlock(ep)
           base == CountedBefore(ep)
           lo == Max({F, pruned + 1})
           end == rows[ep].end
<1>1. /\ boundary # NULL /\ pruned \in Nat /\ ep \in 0..current /\ BoundaryInv
  BY DEF StatsInv, ChainInv, RunInv, WalkInv
<1>2. /\ from = Resume(ep) /\ from \in Int /\ h \in Int
      /\ micro = base + Micros(from, h - 1)
      /\ F <= from /\ S <= from /\ h - 1 <= L
      /\ rows[ep] = NULL => from = F \/ from <= pruned + 1
      /\ rows[ep] # NULL => end = from - 1
  BY DEF StatsInv, WalkInv
<1>3. F \in Int /\ S \in Int /\ L \in Int
  BY <1>1, Starts
<1>4. /\ base \in Int
      /\ \/ base = 0 /\ (from = F \/ from <= pruned + 1)
         \/ base <= Micros(F, from - 1) /\ base >= Micros(lo, from - 1)
  <2>1. CASE rows[ep] = NULL
    <3>1. base = 0
      BY <1>1, <2>1, DueEpoch
    <3> QED
      BY <1>2, <2>1, <3>1
  <2>2. CASE rows[ep] # NULL
    <3>1. /\ RowOk(ep, upto[ep], rows[ep]) /\ upto[ep] \in Int
          /\ base = rows[ep].micro /\ rows[ep].micro \in Int /\ Resume(ep) = upto[ep] + 1
      BY <1>1, <2>2, DueEpoch
    <3>2. /\ rows[ep].micro <= Micros(F, upto[ep])
          /\ rows[ep].micro >= Micros(lo, rows[ep].end)
      BY <3>1 DEF RowOk, Exact
    <3>3. upto[ep] = from - 1 /\ rows[ep].end = from - 1
      BY <1>2, <2>2, <3>1
    <3> QED
      BY <3>1, <3>2, <3>3
  <2> QED
    BY <2>1, <2>2
<1> HIDE DEF F, S, L, base
<1>5. SavedEnd(ep) = h - 1
  <2>1. CASE rows[ep] = NULL
    <3>1. SavedEnd(ep) = Max({h - 1, S - 1})
      BY <2>1 DEF SavedEnd, S
    <3> QED
      BY <1>2, <1>3, <3>1, LaterOfTwo
  <2>2. CASE rows[ep] # NULL
    <3>1. end \in Int /\ end = from - 1
      BY <1>2, <2>2
    <3> DEFINE x == h - 1
               y == S - 1
               m == SavedEnd(ep)
    <3>2. m = Max({x, y, end})
      <4>1. {x, y} \cup {end} = {x, y, end}
        OBVIOUS
      <4> QED
        BY <2>2, <4>1 DEF SavedEnd, S, end
    <3>3. x \in Int /\ y \in Int /\ x >= y /\ x >= end
      BY <1>2, <1>3, <3>1
    <3> HIDE DEF end, x, y, m
    <3>4. m \in {x, y, end} /\ m >= x /\ m >= y /\ m >= end
      <4>1. x \in Int /\ y \in Int /\ end \in Int
        BY <3>1, <3>3
      <4> QED
        BY <3>2, <4>1, LatestOfThree
    <3>5. m = x
      BY <3>1, <3>3, <3>4
    <3> QED
      BY <3>5 DEF x, m
  <2> QED
    BY <2>1, <2>2
<1>6. SavedUpto(ep) = h - 1
  BY DEF SavedUpto
<1>7. from <= h - 1 /\ h - 1 \in Int
  BY <1>2
<1>8. micro <= Micros(F, h - 1) /\ micro >= Micros(lo, h - 1)
  <2> DEFINE last == h - 1
             prev == from - 1
  <2>1. /\ last \in Int /\ from <= last /\ prev \in Int /\ prev = from - 1
        /\ F \in Int /\ from \in Int /\ pruned \in Int /\ F <= from /\ base \in Int
        /\ lo = Max({F, pruned + 1})
        /\ \/ base = 0 /\ (from = F \/ from <= pruned + 1)
           \/ base <= Micros(F, prev) /\ base >= Micros(lo, prev)
    BY <1>1, <1>2, <1>3, <1>4, <1>7
  <2> HIDE DEF last, lo, prev
  <2>2. base + Micros(from, last) <= Micros(F, last) /\ base + Micros(from, last) >= Micros(lo, last)
    BY <2>1, CountsAddUp
  <2> QED
    BY <1>2, <2>2 DEF last
<1>9. r.end = h - 1 /\ r.micro = micro
  BY <1>5
<1>10. h - 1 \in F..(h - 1) /\ ~(h - 1 > h - 1)
  BY <1>2, <1>3, <1>7
<1> QED
  BY <1>2, <1>6, <1>7, <1>8, <1>9, <1>10 DEF RowOk, Exact, F, L

LEMMA SavedAgain ==
    ASSUME StatsInv, pc \in {"walk", "stopped"}, h = from, rows[ep] # NULL,
           NEW r, r \in RowType, r.end = SavedEnd(ep), r.micro = micro
    PROVE  RowOk(ep, SavedUpto(ep), r)
<1> DEFINE F == FirstBlock(ep)
           S == EpochStart(ep)
           L == LastBlock(ep)
           lo == Max({F, pruned + 1})
           end == rows[ep].end
           u == upto[ep]
           last == SavedEnd(ep)
<1>1. /\ boundary # NULL /\ pruned \in Nat /\ ep \in 0..current /\ BoundaryInv
  BY DEF StatsInv, ChainInv, RunInv, WalkInv
<1>2. from = Resume(ep) /\ from \in Int /\ micro = CountedBefore(ep) + Micros(from, h - 1)
  BY DEF StatsInv, WalkInv
<1>3. F \in Int /\ S \in Int /\ L \in Int /\ S <= L /\ (S = F \/ S <= pruned + 1)
  BY <1>1, Starts
<1>4. /\ RowOk(ep, u, rows[ep]) /\ u \in Int /\ end \in Int
      /\ F <= u /\ u <= end /\ end <= L /\ (end > u => end <= pruned)
      /\ CountedBefore(ep) = rows[ep].micro /\ rows[ep].micro \in Int /\ from = u + 1
  BY <1>1, <1>2, DueEpoch
<1>5. micro = rows[ep].micro
  <2>1. Micros(from, h - 1) = 0
    BY <1>2, MicrosOfNone
  <2> QED
    BY <1>2, <1>4, <2>1
<1>6. micro \in Int /\ micro <= Micros(F, u) /\ micro >= Micros(lo, end)
  BY <1>4, <1>5 DEF RowOk, Exact
<1>7. SavedUpto(ep) = u /\ h - 1 = u
  BY <1>2, <1>4 DEF SavedUpto
<1> HIDE DEF F, S, L, end, u
<1>8. last \in {u, S - 1, end} /\ last >= u /\ last >= end
  <2> DEFINE y == S - 1
  <2>1. {h - 1, y} \cup {end} = {u, y, end}
    BY <1>7
  <2>2. last = Max({u, y, end})
    BY <2>1 DEF SavedEnd, S, end
  <2>3. y \in Int
    BY <1>3
  <2> HIDE DEF last, y
  <2>4. u \in Int /\ y \in Int /\ end \in Int
    BY <1>4, <2>3
  <2>5. last \in {u, y, end} /\ last >= u /\ last >= y /\ last >= end
    BY <2>2, <2>4, LatestOfThree
  <2> QED
    BY <2>5 DEF y
<1> HIDE DEF last
<1>9. lo \in Int /\ pruned < lo
  BY <1>1, <1>3, LaterOfTwo
<1> HIDE DEF lo
<1>10. last \in Int /\ last <= L /\ u \in F..last
  BY <1>3, <1>4, <1>8
<1>11. last > u => last <= pruned
  BY <1>1, <1>3, <1>4, <1>8
<1>12. micro >= Micros(lo, last)
  <2>1. CASE last = end
    BY <1>6, <2>1
  <2>2. CASE last # end
    <3>1. last < lo
      BY <1>1, <1>4, <1>8, <1>9, <1>10, <1>11, <2>2
    <3>2. Micros(lo, last) = 0
      BY <1>9, <1>10, <3>1, MicrosOfNone
    <3>3. Micros(lo, end) \in Nat
      BY <1>4, <1>9, MicrosType
    <3> QED
      BY <1>6, <3>2, <3>3
  <2> QED
    BY <2>1, <2>2
<1>13. r.end = last /\ r.micro = micro
  BY DEF last
<1> QED
  BY <1>4, <1>6, <1>7, <1>10, <1>11, <1>12, <1>13 DEF RowOk, Exact, F, L, lo

LEMMA RewardsType ==
    ASSUME NEW lo \in Int, NEW hi \in Int
    PROVE  RewardsIn(lo, hi) \in Int
<1>1. IsFiniteSet(lo..hi)
  BY FS_Interval
<1>2. IsFiniteSet({b \in lo..hi : b % BatchBlocks = 0 /\ b <= rewarded})
  BY <1>1, FS_Subset
<1> QED
  BY <1>2, FS_CardinalityType DEF RewardsIn

\* The last block a row is of is a number, whatever there was before.
LEMMA SavedEndType ==
    ASSUME h \in Int, NEW e, EpochStart(e) \in Int, rows[e] # NULL => rows[e].end \in Int
    PROVE  SavedEnd(e) \in Int
<1> DEFINE x == h - 1
           y == EpochStart(e) - 1
           m == SavedEnd(e)
<1>1. x \in Int /\ y \in Int
  OBVIOUS
<1>2. CASE rows[e] = NULL
  <2>1. m = Max({x, y})
    BY <1>2 DEF SavedEnd
  <2> HIDE DEF m, x, y
  <2>2. m \in Int
    BY <1>1, <2>1, LaterOfTwo
  <2> QED
    BY <2>2 DEF m
<1>3. CASE rows[e] # NULL
  <2> DEFINE z == rows[e].end
  <2>1. {x, y} \cup {z} = {x, y, z}
    OBVIOUS
  <2>2. m = Max({x, y, z})
    BY <1>3, <2>1 DEF SavedEnd
  <2>3. z \in Int
    BY <1>3
  <2> HIDE DEF m, x, y, z
  <2>4. m \in {x, y, z} /\ m >= x /\ m >= y /\ m >= z
    BY <1>1, <2>2, <2>3, LatestOfThree
  <2> QED
    BY <1>1, <2>3, <2>4 DEF m
<1> QED
  BY <1>2, <1>3

LEMMA SaveKeepsInv ==
    ASSUME StatsInv, Save
    PROVE  StatsInv'
<1> DEFINE row == [start |-> EpochStart(ep), end |-> SavedEnd(ep), micro |-> micro,
                   rewards |-> RewardsIn(EpochStart(ep),
                                   IF ep = current THEN top ELSE EpochStart(ep) + EpochBlocks - 1)]
<1>1. /\ pc \in {"walk", "stopped"} /\ pc' = "next"
      /\ UNCHANGED <<head, pruned, boundary, current, upto, rows, top, todo>>
      /\ written' = IF NothingToSay THEN NULL
                    ELSE [epoch |-> ep, upto |-> SavedUpto(ep), row |-> row]
  BY DEF Save, chain, meta, run, SavedUpto, SavedEnd
<1>2. /\ boundary # NULL /\ pruned \in Nat /\ ep \in 0..current /\ BoundaryInv
      /\ top \in FirstBlock(current)..LastBlock(current) /\ Free(todo, ep)
      /\ from = Resume(ep) /\ from \in Int /\ h \in Int /\ from <= h
      /\ micro = CountedBefore(ep) + Micros(from, h - 1)
  BY <1>1 DEF StatsInv, ChainInv, RunInv, WalkInv
<1>3. /\ EpochStart(ep) \in Int /\ EpochBlocks \in Int /\ top \in Int
  <2>1. FirstBlock(current) \in Int /\ LastBlock(current) \in Int
    BY <1>2, EpochBounds DEF BoundaryInv
  <2> QED
    BY <1>2, <2>1, Starts, StatsConstants
<1>4. /\ rows[ep] # NULL => rows[ep].end \in Int
      /\ CountedBefore(ep) \in Int
  BY <1>2, DueEpoch
<1>5. row \in RowType
  <2>1. SavedEnd(ep) \in Int
    BY <1>2, <1>3, <1>4, SavedEndType
  <2>2. Micros(from, h - 1) \in Nat
    BY <1>2, MicrosType
  <2>3. micro \in Int
    BY <1>2, <1>4, <2>2
  <2> DEFINE hi == IF ep = current THEN top ELSE EpochStart(ep) + EpochBlocks - 1
  <2>4. hi \in Int
    BY <1>3
  <2>5. RewardsIn(EpochStart(ep), hi) \in Int
    BY <1>3, <2>4, RewardsType
  <2> HIDE DEF hi
  <2> QED
    BY <1>3, <2>1, <2>3, <2>5 DEF RowType, hi
<1>6. row.end = SavedEnd(ep) /\ row.micro = micro
  OBVIOUS
<1> HIDE DEF row
<1>7. ~NothingToSay => RowOk(ep, SavedUpto(ep), row)
  <2>1. CASE h > from
    BY <1>1, <1>5, <1>6, <2>1, SavedWalk
  <2>2. CASE h = from /\ rows[ep] # NULL
    BY <1>1, <1>5, <1>6, <2>2, SavedAgain
  <2> QED
    BY <1>2, <2>1, <2>2 DEF NothingToSay
<1>8. ASSUME written' # NULL
      PROVE  /\ written'.epoch \in 0..current' /\ Free(todo', written'.epoch)
             /\ RowOk(written.epoch, written.upto, written.row)'
  <2>1. /\ written'.epoch = ep /\ written'.upto = SavedUpto(ep) /\ written'.row = row
        /\ ~NothingToSay
    BY <1>1, <1>8
  <2>2. RowOk(ep, SavedUpto(ep), row)
    BY <1>7, <2>1
  <2> DEFINE u == SavedUpto(ep)
  <2> HIDE DEF u
  <2>3. RowOk(written.epoch, written.upto, written.row)' <=> RowOk(ep, u, row)
    BY <1>1, <2>1 DEF RowOk, Exact, u
  <2> QED
    BY <1>1, <1>2, <2>1, <2>2, <2>3 DEF u
<1>9. ChainInv' /\ BoundaryInv'
  BY <1>1 DEF StatsInv, ChainInv, BoundaryInv, FirstBlock, LastBlock, EpochOf
<1>10. TablesInv'
  BY <1>1 DEF StatsInv, TablesInv, RowOk, Exact
<1>11. RunInv'
  <2>1. /\ boundary' # NULL /\ top' \in FirstBlock(current')..LastBlock(current')
        /\ IsTodo(todo', 0..current')
    BY <1>1 DEF StatsInv, RunInv
  <2>2. Free(todo', written'.epoch) <=> Free(todo, written.epoch)'
    BY DEF Free
  <2> QED
    BY <1>1, <1>8, <2>1, <2>2 DEF RunInv, IsTodo, FirstBlock, LastBlock
<1>12. WalkInv'
  BY <1>1 DEF WalkInv
<1> QED
  BY <1>9, <1>10, <1>11, <1>12 DEF StatsInv

-----------------------------------------------------------------------------
\* A run, from its start to its end.

LEMMA HeadsEpoch ==
    ASSUME ChainInv
    PROVE  /\ EpochOf(head) \in Epochs /\ EpochOf(head) \in Nat /\ Lookback <= EpochOf(head)
           /\ head \in FirstBlock(EpochOf(head))..LastBlock(EpochOf(head))
<1> DEFINE c == EpochOf(head)
           b == Lookback * EpochBlocks
<1>1. /\ head \in Int /\ MaxHead \in Int /\ FirstHead \in Int /\ Lookback \in Nat
      /\ head <= MaxHead /\ FirstHead <= head /\ FirstHead > b
  BY StatsConstants DEF ChainInv
<1>2. b \in Int
  BY StatsConstants
<1>3. head > b
  <2> HIDE DEF b
  <2> QED
    BY <1>1, <1>2
<1>4. c \in Int /\ Lookback <= c
  <2>1. c \in Int /\ c >= Lookback
    BY <1>1, <1>3, EpochOfBlock, EpochOfAtLeast
  <2> HIDE DEF c
  <2> QED
    BY <1>1, <2>1
<1>5. FirstBlock(c) \in Int /\ LastBlock(c) \in Int /\ FirstBlock(c) <= head /\ head <= LastBlock(c)
  BY <1>1, <1>4, EpochOfBlock, EpochBounds
<1>6. c <= EpochOf(MaxHead) /\ EpochOf(MaxHead) \in Int
  BY <1>1, EpochOfGrows, EpochOfBlock
<1> HIDE DEF c
<1> QED
  BY <1>1, <1>4, <1>5, <1>6 DEF Epochs, c

LEMMA StartRunKeepsInv ==
    ASSUME StatsInv, StartRun
    PROVE  StatsInv'
<1> DEFINE c == EpochOf(head)
           fresh == boundary = NULL \/ current # c \/ boundary > head
<1>1. /\ pc = "idle" /\ pc' = "next" /\ written = NULL
      /\ UNCHANGED <<head, pruned, upto, rows, written>>
  BY DEF StartRun, chain, StatsInv, RunInv
<1>2. /\ boundary' = IF fresh THEN FindEpochStart ELSE boundary
      /\ current' = c /\ top' = head /\ todo' = EpochsToDo(current', boundary')
  BY DEF StartRun
<1>3. /\ c \in Epochs /\ c \in Nat /\ Lookback <= c
      /\ head \in FirstBlock(c)..LastBlock(c)
      /\ FirstBlock(c) \in Int /\ LastBlock(c) \in Int
      /\ pruned \in Nat /\ pruned < head
  BY HeadsEpoch, EpochBounds DEF StatsInv, ChainInv
<1> HIDE DEF c
<1>4. /\ boundary' \in FirstBlock(c)..LastBlock(c)
      /\ boundary' = FirstBlock(c) \/ boundary' <= pruned + 1
  <2>1. CASE fresh
    <3> DEFINE F == FirstBlock(c)
               p == pruned + 1
    <3>1. boundary' = Max({F, p}) /\ F \in Int /\ p \in Int
      BY <1>2, <1>3, <2>1 DEF FindEpochStart, c
    <3> HIDE DEF F, p
    <3>2. boundary' = IF F >= p THEN F ELSE p
      BY <3>1, LaterOfTwo
    <3> QED
      BY <1>3, <3>1, <3>2 DEF F, p
  <2>2. CASE ~fresh
    <3>1. boundary # NULL /\ current = c /\ boundary' = boundary
      BY <1>2, <2>2
    <3> QED
      BY <3>1 DEF StatsInv, BoundaryInv
  <2> QED
    BY <2>1, <2>2
<1>5. boundary' # NULL
  BY <1>3, <1>4, StatsConstants
<1>6. BoundaryInv'
  <2>1. EpochOf(head)' = c
    BY <1>1 DEF EpochOf, c
  <2>2. /\ current' = c /\ pruned' = pruned /\ c \in Nat /\ c <= EpochOf(head)'
        /\ FirstBlock(current)' = FirstBlock(c) /\ LastBlock(current)' = LastBlock(c)
    BY <1>1, <1>2, <1>3, <2>1 DEF FirstBlock, LastBlock
  <2> QED
    BY <1>4, <2>2 DEF BoundaryInv
<1>7. IsTodo(todo', 0..current')
  BY <1>2, <1>3, EpochsToDoIsTodo
<1>8. RunInv'
  BY <1>1, <1>2, <1>3, <1>5, <1>7 DEF RunInv, IsTodo, FirstBlock, LastBlock
<1>9. ChainInv' /\ TablesInv'
  BY <1>1 DEF StatsInv, ChainInv, TablesInv, RowOk, Exact
<1>10. WalkInv'
  BY <1>1 DEF WalkInv
<1> QED
  BY <1>6, <1>8, <1>9, <1>10 DEF StatsInv

\* A commit changes the row of the epoch the run was at and no other.
LEMMA CommitKeepsTables ==
    ASSUME StatsInv, pc # "idle", Commit, pruned' = pruned
    PROVE  /\ TablesInv'
           /\ \A e \in Epochs : \/ written # NULL /\ e = written.epoch
                                \/ rows'[e] = rows[e] /\ upto'[e] = upto[e]
<1>1. CASE written = NULL
  <2>1. UNCHANGED <<rows, upto>>
    BY <1>1 DEF Commit
  <2> QED
    BY <2>1 DEF StatsInv, TablesInv, RowOk, Exact
<1>2. CASE written # NULL
  <2> DEFINE w == written.epoch
             u == written.upto
             r == written.row
  <2>1. /\ rows' = [rows EXCEPT ![w] = r] /\ upto' = [upto EXCEPT ![w] = u]
    BY <1>2 DEF Commit
  <2>2. w \in 0..current /\ RowOk(w, u, r) /\ boundary # NULL
    BY <1>2 DEF StatsInv, RunInv
  <2>3. w \in Epochs
    BY <2>2, DueEpoch
  <2> HIDE DEF w, u, r
  <2>4. r # NULL
    BY <2>2, StatsConstants DEF RowOk, RowType
  <2>5. /\ DOMAIN rows = Epochs /\ DOMAIN upto = Epochs
        /\ \A e \in Epochs : \/ rows[e] = NULL /\ upto[e] = NULL
                             \/ rows[e] # NULL /\ RowOk(e, upto[e], rows[e])
    BY DEF StatsInv, TablesInv
  <2>6. /\ DOMAIN rows' = Epochs /\ DOMAIN upto' = Epochs
        /\ rows'[w] = r /\ upto'[w] = u
        /\ \A e \in Epochs : e # w => rows'[e] = rows[e] /\ upto'[e] = upto[e]
    BY <2>1, <2>3, <2>5
  <2>7. \A e \in Epochs : \/ rows'[e] = NULL /\ upto'[e] = NULL
                          \/ rows'[e] # NULL /\ RowOk(e, upto'[e], rows'[e])
    BY <2>2, <2>4, <2>5, <2>6
  <2>8. \A e \in Epochs : RowOk(e, upto'[e], rows'[e]) <=> RowOk(e, upto[e], rows[e])'
    BY DEF RowOk, Exact
  <2>9. TablesInv'
    BY <2>6, <2>7, <2>8 DEF TablesInv
  <2> QED
    BY <1>2, <2>6, <2>9 DEF w
<1> QED
  BY <1>1, <1>2

LEMMA NextEpochKeepsInv ==
    ASSUME StatsInv, NextEpoch
    PROVE  StatsInv'
<1>1. /\ pc = "next" /\ pc' \in {"walk", "stopped"} /\ todo # <<>>
      /\ Commit /\ ep' = todo[1] /\ todo' = Tail(todo) /\ written' = NULL
      /\ micro' = CountedBefore(ep') /\ from' = Resume(ep') /\ h' = from'
      /\ UNCHANGED <<head, pruned, boundary, current, top>>
  BY DEF NextEpoch, Commit, CountedBefore, chain
<1>2. /\ boundary # NULL /\ IsTodo(todo, 0..current) /\ top \in FirstBlock(current)..LastBlock(current)
      /\ written # NULL => Free(todo, written.epoch)
      /\ BoundaryInv /\ pruned \in Nat
  BY <1>1 DEF StatsInv, RunInv, ChainInv
<1>3. /\ ep' \in 0..current /\ IsTodo(todo', 0..current) /\ Free(todo', ep')
      /\ written # NULL => written.epoch # ep'
  BY <1>1, <1>2, NextOfTodo
<1>4. /\ TablesInv'
      /\ \A e \in Epochs : \/ written # NULL /\ e = written.epoch
                           \/ rows'[e] = rows[e] /\ upto'[e] = upto[e]
  BY <1>1, CommitKeepsTables
<1>5. CountedBefore(ep') \in Int /\ Resume(ep') \in Int /\ ep' \in Epochs
  <2>1. EpochStart(ep') \in Int
    BY <1>2, <1>3, Starts
  <2> DEFINE e == ep'
  <2>2. e \in 0..current /\ EpochStart(e) \in Int
    BY <1>3, <2>1
  <2> HIDE DEF e
  <2>3. CountedBefore(e) \in Int /\ Resume(e) \in Int /\ e \in Epochs
    <3>1. CASE rows[e] = NULL
      BY <1>2, <2>2, <3>1, DueEpoch
    <3>2. CASE rows[e] # NULL
      BY <1>2, <2>2, <3>2, DueEpoch
    <3> QED
      BY <3>1, <3>2
  <2> QED
    BY <2>3 DEF e
<1>6. rows'[ep'] = rows[ep'] /\ upto'[ep'] = upto[ep']
  BY <1>3, <1>4, <1>5
<1>7. CountedBefore(ep)' = CountedBefore(ep') /\ Resume(ep)' = Resume(ep')
  BY <1>1, <1>6 DEF CountedBefore, Resume, EpochStart
<1>8. micro' = CountedBefore(ep)' + Micros(from', h' - 1)
  <2>1. Micros(from', h' - 1) = 0
    BY <1>1, <1>5, MicrosOfNone
  <2> QED
    BY <1>1, <1>5, <1>7, <2>1
<1>9. WalkInv'
  <2>1. /\ from' \in Int /\ h' \in Int /\ from' <= h' /\ ~(h' > from')
        /\ from' = Resume(ep)'
    BY <1>1, <1>5, <1>7
  <2>2. Free(todo, ep)' /\ ep' \in 0..current'
    BY <1>1, <1>3 DEF Free
  <2>3. Micros(from, h - 1)' = Micros(from', h' - 1)
    BY DEF Micros
  <2> QED
    BY <1>1, <1>8, <2>1, <2>2, <2>3 DEF WalkInv
<1>10. ChainInv' /\ BoundaryInv'
  BY <1>1 DEF StatsInv, ChainInv, BoundaryInv, FirstBlock, LastBlock, EpochOf
<1>11. RunInv'
  BY <1>1, <1>2, <1>3 DEF RunInv, IsTodo, FirstBlock, LastBlock
<1> QED
  BY <1>4, <1>9, <1>10, <1>11 DEF StatsInv

LEMMA FinishKeepsInv ==
    ASSUME StatsInv, Finish
    PROVE  StatsInv'
<1>1. /\ pc = "next" /\ pc' = "idle" /\ Commit /\ written' = NULL
      /\ UNCHANGED <<head, pruned, boundary, current>>
  BY DEF Finish, Commit, Leave, chain
<1>2. TablesInv'
  BY <1>1, CommitKeepsTables
<1>3. ChainInv' /\ BoundaryInv'
  BY <1>1 DEF StatsInv, ChainInv, BoundaryInv, FirstBlock, LastBlock, EpochOf
<1>4. RunInv' /\ WalkInv'
  BY <1>1 DEF RunInv, WalkInv
<1> QED
  BY <1>2, <1>3, <1>4 DEF StatsInv

LEMMA DieKeepsInv ==
    ASSUME StatsInv, Die
    PROVE  StatsInv'
<1>1. /\ pc' = "idle" /\ written' = NULL
      /\ UNCHANGED <<head, pruned, boundary, current, upto, rows>>
  BY DEF Die, Leave, chain, meta
<1>2. ChainInv' /\ BoundaryInv'
  BY <1>1 DEF StatsInv, ChainInv, BoundaryInv, FirstBlock, LastBlock, EpochOf
<1>3. RunInv' /\ WalkInv' /\ TablesInv'
  BY <1>1 DEF StatsInv, RunInv, WalkInv, TablesInv, RowOk, Exact
<1> QED
  BY <1>2, <1>3 DEF StatsInv

-----------------------------------------------------------------------------
\* The chain and the node's history.

LEMMA GrowKeepsInv ==
    ASSUME StatsInv, Grow
    PROVE  StatsInv'
<1>1. /\ head < MaxHead /\ head' = head + 1
      /\ UNCHANGED <<pruned, boundary, current, upto, rows, pc, written, top, todo, ep, from, h, micro>>
  BY DEF Grow, meta, run
<1>2. /\ head \in Nat /\ MaxHead \in Nat /\ FirstHead \in Nat /\ pruned \in Nat
      /\ FirstHead <= head /\ pruned < head
  BY StatsConstants DEF StatsInv, ChainInv
<1>3. ChainInv'
  BY <1>1, <1>2 DEF ChainInv
<1>4. BoundaryInv'
  <2>1. EpochOf(head) <= EpochOf(head') /\ EpochOf(head) \in Int /\ EpochOf(head') \in Int
    BY <1>1, <1>2, EpochOfGrows, EpochOfBlock
  <2>2. EpochOf(head)' = EpochOf(head')
    BY DEF EpochOf
  <2>3. boundary # NULL =>
          /\ current \in Nat /\ current <= EpochOf(head)
          /\ boundary \in FirstBlock(current)..LastBlock(current)
          /\ boundary = FirstBlock(current) \/ boundary <= pruned + 1
    BY DEF StatsInv, BoundaryInv
  <2>4. boundary # NULL => current <= EpochOf(head')
    BY <2>1, <2>3
  <2> QED
    BY <1>1, <2>2, <2>3, <2>4 DEF BoundaryInv, FirstBlock, LastBlock
<1>5. TablesInv'
  BY <1>1 DEF StatsInv, TablesInv, RowOk, Exact
<1>6. RunInv'
  BY <1>1 DEF StatsInv, RunInv, RowOk, Exact, IsTodo, Free, FirstBlock, LastBlock
<1>7. WalkInv'
  BY <1>1 DEF StatsInv, WalkInv, Free, Resume, EpochStart, CountedBefore, FirstBlock, LastBlock
<1> QED
  BY <1>3, <1>4, <1>5, <1>6, <1>7 DEF StatsInv

LEMMA PruneKeepsInv ==
    ASSUME StatsInv, Prune
    PROVE  StatsInv'
<1>1. /\ pruned < head - 1 /\ pruned' = pruned + 1
      /\ UNCHANGED <<head, boundary, current, upto, rows, pc, written, top, todo, ep, from, h, micro>>
  BY DEF Prune, meta, run
<1>2. head \in Nat /\ pruned \in Nat
  BY DEF StatsInv, ChainInv
<1>3. ChainInv'
  BY <1>1, <1>2 DEF StatsInv, ChainInv
<1>4. pruned' \in Nat /\ pruned <= pruned'
  BY <1>1, <1>2
<1>5. BoundaryInv'
  <2>1. /\ current \in Int => FirstBlock(current) \in Int /\ LastBlock(current) \in Int
    BY EpochBounds
  <2>2. boundary # NULL => boundary = FirstBlock(current) \/ boundary <= pruned' + 1
    BY <1>1, <1>2, <2>1 DEF StatsInv, BoundaryInv
  <2>3. EpochOf(head)' = EpochOf(head)
    BY <1>1 DEF EpochOf
  <2> QED
    BY <1>1, <2>2, <2>3 DEF StatsInv, BoundaryInv, FirstBlock, LastBlock
<1>6. \A e \in Int : \A u, r : RowOk(e, u, r) => RowOk(e, u, r)'
  BY <1>2, <1>4, PruningKeepsExact
<1>7. TablesInv'
  <2>1. ASSUME NEW e \in Epochs
        PROVE  \/ rows[e] = NULL /\ upto[e] = NULL
               \/ rows[e] # NULL /\ RowOk(e, upto[e], rows[e])'
    <3>1. \/ rows[e] = NULL /\ upto[e] = NULL
          \/ rows[e] # NULL /\ RowOk(e, upto[e], rows[e])
      BY DEF StatsInv, TablesInv
    <3>2. e \in Int
      BY DEF Epochs
    <3>3. RowOk(e, upto[e], rows[e]) => RowOk(e, upto[e], rows[e])'
      BY <1>1, <1>6, <3>2 DEF RowOk, Exact
    <3> QED
      BY <3>1, <3>3
  <2> QED
    BY <1>1, <2>1 DEF StatsInv, TablesInv
<1>8. RunInv'
  <2>1. ASSUME written # NULL PROVE RowOk(written.epoch, written.upto, written.row)'
    <3>1. written.epoch \in Int /\ RowOk(written.epoch, written.upto, written.row)
      BY <2>1 DEF StatsInv, RunInv
    <3> QED
      BY <1>1, <1>6, <3>1 DEF RowOk, Exact
  <2> QED
    BY <1>1, <2>1 DEF StatsInv, RunInv, IsTodo, Free, FirstBlock, LastBlock
<1>9. WalkInv'
  <2>1. from \in Int /\ from <= pruned + 1 => from <= pruned' + 1
    BY <1>1, <1>2
  <2> QED
    BY <1>1, <2>1 DEF StatsInv, WalkInv, Free, Resume, EpochStart, CountedBefore, FirstBlock, LastBlock
<1> QED
  BY <1>3, <1>5, <1>7, <1>8, <1>9 DEF StatsInv

LEMMA RewardKeepsInv ==
    ASSUME StatsInv, Reward \/ UNCHANGED vars
    PROVE  StatsInv'
<1>1. UNCHANGED <<head, pruned, boundary, current, upto, rows, pc, written, top, todo, ep, from, h, micro>>
  BY DEF Reward, meta, run, vars, chain
<1>2. ChainInv' /\ BoundaryInv'
  BY <1>1 DEF StatsInv, ChainInv, BoundaryInv, FirstBlock, LastBlock, EpochOf
<1>3. TablesInv'
  BY <1>1 DEF StatsInv, TablesInv, RowOk, Exact
<1>4. RunInv'
  BY <1>1 DEF StatsInv, RunInv, RowOk, Exact, IsTodo, Free, FirstBlock, LastBlock
<1>5. WalkInv'
  BY <1>1 DEF StatsInv, WalkInv, Free, Resume, EpochStart, CountedBefore, FirstBlock, LastBlock
<1> QED
  BY <1>2, <1>3, <1>4, <1>5 DEF StatsInv

-----------------------------------------------------------------------------
\* Every state of the collector has the invariant, whatever happens to the
\* chain, the node's history, a request or the run.
THEOREM StatsInvHolds == Spec => []StatsInv
<1>1. Init => StatsInv
  <2> SUFFICES ASSUME Init PROVE StatsInv
    OBVIOUS
  <2>1. ChainInv
    BY StatsConstants DEF Init, ChainInv
  <2>2. BoundaryInv /\ RunInv /\ WalkInv /\ TablesInv
    BY DEF Init, BoundaryInv, RunInv, WalkInv, TablesInv
  <2> QED
    BY <2>1, <2>2 DEF StatsInv
<1>2. StatsInv /\ [Next]_vars => StatsInv'
  <2> SUFFICES ASSUME StatsInv, [Next]_vars PROVE StatsInv'
    OBVIOUS
  <2>1. CASE StartRun
    BY <2>1, StartRunKeepsInv
  <2>2. CASE NextEpoch
    BY <2>2, NextEpochKeepsInv
  <2>3. CASE FetchBatch \/ FetchHiccup
    BY <2>3, FetchKeepsInv
  <2>4. CASE Save
    BY <2>4, SaveKeepsInv
  <2>5. CASE Finish
    BY <2>5, FinishKeepsInv
  <2>6. CASE Die
    BY <2>6, DieKeepsInv
  <2>7. CASE Grow
    BY <2>7, GrowKeepsInv
  <2>8. CASE Prune
    BY <2>8, PruneKeepsInv
  <2>9. CASE Reward \/ UNCHANGED vars
    BY <2>9, RewardKeepsInv
  <2> QED
    BY <2>1, <2>2, <2>3, <2>4, <2>5, <2>6, <2>7, <2>8, <2>9 DEF Next, Collecting
<1> QED
  BY <1>1, <1>2, PTL DEF Spec

\* epoch_stats.py "a resumed walk never double-counts or skips a block": of an
\* epoch's blocks up to its row's end_block none is counted twice, and none that
\* the node still has is left out, however many epochs, blocks, batches, faults
\* and budgets there are.
THEOREM CountsAreExactHolds == Spec => []CountsAreExact
<1>1. StatsInv => CountsAreExact
  BY DEF StatsInv, TablesInv, RowOk, CountsAreExact
<1> QED
  BY <1>1, StatsInvHolds, PTL
=============================================================================

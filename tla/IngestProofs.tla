---------------------------- MODULE IngestProofs ----------------------------
(***************************************************************************)
(* Proofs about Ingest for any history, any page sizes and page budgets,   *)
(* and any number of faults, stops and runs of the tool, which is run only *)
(* while the job does not run: the watermark never moves back, gaps do not *)
(* overlap, and what is forgotten a stop has torn.                         *)
(***************************************************************************)
EXTENDS Ingest, FiniteSetTheorems, FunctionTheorems, NaturalsInduction, WellFoundedInduction, TLAPS

\* The history is in the order of its blocks, and the watermark is within it.
Ordered == \A i, j \in 1..Len(chain) : i <= j => chain[i].block <= chain[j].block
Within == watermark # NULL => \E p \in 1..Len(chain) : watermark <= chain[p].block

\* A gap's floor is not above its cursor; before there is a watermark, only
\* the tool has registered gaps, each above a stored row.
GapsFit ==
    /\ \A n \in 1..Len(gaps) : /\ gaps[n].cursor \in 1..Len(chain)
                               /\ gaps[n].floor <= chain[gaps[n].cursor].block
    /\ watermark = NULL =>
        \A n \in 1..Len(gaps) : \E q \in stored : chain[q].block <= gaps[n].floor

\* A walk has read full pages; what it returns says why it ended; what it has
\* read above next has the row of its key.
Kept(p) == HasRow(p) \/ chain[p].kind = "other"
Walked ==
    pc \in {"fetch", "store", "gap"} =>
        /\ cursor = from \/ cursor = 1 \/ cursor <= from - PageSize
        /\ \A p \in (next + 1)..(from - 1) : Kept(p)
        /\ (pc = "fetch" \/ status = "truncated") /\ cursor < from /\ floor # NULL
               => chain[cursor].block >= floor
        /\ pc = "fetch" => next = from - 1 /\ pages >= 1
        /\ pc # "fetch" => /\ status = "end_of_history" => cursor = 1
                           /\ status = "reached_floor" => /\ floor # NULL /\ cursor < from
                                                          /\ chain[cursor].block < floor
        /\ pc = "gap" => ~draining /\ next = cursor - 1

\* The head walk goes back to the watermark or, before there is one, to the
\* oldest row that was stored when it began; it has no floor in an empty database.
HeadWalk ==
    /\ pc \in {"fetch", "store"} /\ ~draining =>
        /\ watermark # NULL => floor = watermark
        /\ watermark = NULL /\ floor = NULL => gaps = <<>> /\ \A q \in stored : q > next
        /\ watermark = NULL /\ floor # NULL =>
            /\ \A n \in 1..Len(gaps) : gaps[n].floor >= floor
            /\ \A q \in stored : q > next \/ chain[q].block >= floor
    /\ pc = "gap" /\ Unregistered => watermark = chain[from - 1].block

\* A drain serves the newest gap of a list that nobody else writes.
Drain ==
    /\ pc = "loop" \/ (pc \in {"fetch", "store"} /\ draining) => mine = gaps
    /\ pc \in {"fetch", "store"} /\ draining =>
        gaps # <<>> /\ from = gaps[1].cursor /\ floor = gaps[1].floor

\* The tool runs while the job does not; it keeps the list it has read and adds
\* the holes between stored rows whose floors the list has not.
Registering ==
    tool # NULL =>
        /\ pc = "idle" /\ Len(tool) >= Len(gaps)
        /\ \A n \in 1..Len(gaps) : tool[n] = gaps[n]
        /\ \A n \in (Len(gaps) + 1)..Len(tool) :
            \E lo \in stored : /\ tool[n].cursor \in (lo + 1)..Len(chain)
                               /\ tool[n].floor = chain[lo].block
        /\ \A h \in Holes : \/ \E n \in 1..Len(tool) : tool[n] = h
                            \/ \E n \in 1..Len(gaps) : gaps[n].floor = h.floor

\* Once there is a watermark, a transaction is safe when it needs no row, its
\* key has one, will be read again, or a stop lost it; between the commits of the
\* watermark and of the gap the running job alone knows of the gap.
Pending(p) == pc = "gap" /\ Unregistered /\ p < cursor /\ chain[p].block >= floor
Safe(p) ==
    \/ Kept(p) \/ p \in lost \/ InGap(p) \/ Pending(p)
    \/ watermark # NULL /\ chain[p].block >= watermark

\* All those must be safe that lie above a stored row, above a gap, above the
\* start of the running walk, or on the newest page, where an outdated answer
\* may let a walk begin.
Reached(p) ==
    \/ \E q \in stored : q < p
    \/ \E n \in 1..Len(gaps) : gaps[n].cursor <= p
    \/ pc \in {"fetch", "store", "gap"} /\ from <= p
    \/ p > Len(chain) - PageSize
AllSafe == watermark # NULL => \A p \in 1..Len(chain) : Reached(p) => Safe(p)

\* As long as the tool has not run, a gap lies below the floor of every newer
\* one, and below the watermark.
Stacked ==
    runs = 0 =>
        /\ tool = NULL
        /\ \A m, n \in 1..Len(gaps) : m < n => chain[gaps[n].cursor].block <= gaps[m].floor
        /\ \A n \in 1..Len(gaps) : /\ watermark # NULL
                                   /\ chain[gaps[n].cursor].block <= watermark
                                   /\ pc = "gap" /\ Unregistered =>
                                        chain[gaps[n].cursor].block <= floor

IngestInv ==
    /\ TypeOK /\ Ordered /\ Within /\ GapsFit /\ Walked /\ HeadWalk /\ Drain
    /\ Registering /\ AllSafe /\ Stacked

-----------------------------------------------------------------------------
\* The list of gaps.  The library's induction takes an operator; a set of
\* numbers says the same.

LEMMA InductionOnSet ==
    ASSUME NEW S \in SUBSET Nat, 0 \in S, \A n \in S : n + 1 \in S
    PROVE  S = Nat
<1> DEFINE less == OpToRel(<, Nat)
           others == Nat \ S
<1>1. \A x, y \in Nat : x < y => <<x, y>> \in less
  BY DEF OpToRel
<1>2. IsWellFoundedOn(less, Nat)
  BY NatLessThanWellFounded
<1> HIDE DEF less
<1> SUFFICES ASSUME others # {} PROVE FALSE
  OBVIOUS
<1>3. PICK n \in others : \A m \in others : ~(<<m, n>> \in less)
  BY <1>2, WFMin
<1>4. n - 1 \in Nat /\ n - 1 < n
  BY <1>3
<1>5. n - 1 \in S
  BY <1>1, <1>3, <1>4
<1> QED
  BY <1>3, <1>4, <1>5

\* The recursion of OtherFloors, one step.
Longer(list, bound, n, shorter) ==
    IF n = 0 THEN <<>>
    ELSE IF list[n].floor = bound THEN shorter
    ELSE Append(shorter, list[n])

LEMMA OtherFloorsRecursion ==
    ASSUME NEW list \in Seq(Gap), NEW bound
    PROVE  \E kept : /\ \A n \in 0..Len(list) : kept[n] = Longer(list, bound, n, kept[n - 1])
                     /\ OtherFloors(list, bound) = kept[Len(list)]
<1> DEFINE Fcn(k, n) == [i \in 0..n |-> Longer(list, bound, i, k[i - 1])]
           Is(k, n) == k = Fcn(k, n)
           S == {n \in Nat : \E k : Is(k, n)}
<1>0. ASSUME NEW n \in Nat, NEW k, Is(k, n)
      PROVE  \A i \in 0..n : k[i] = Longer(list, bound, i, k[i - 1])
  <2>1. \A i \in 0..n : Fcn(k, n)[i] = Longer(list, bound, i, k[i - 1])
    OBVIOUS
  <2>2. k = Fcn(k, n)
    BY <1>0
  <2> HIDE DEF Fcn
  <2> QED
    BY <2>1, <2>2
<1>1. 0 \in S
  <2>1. Is([i \in 0..0 |-> <<>>], 0)
    BY DEF Longer
  <2> QED
    BY <2>1
<1>2. ASSUME NEW n \in S PROVE n + 1 \in S
  <2>1. n \in Nat /\ \E k : Is(k, n)
    OBVIOUS
  <2>2. PICK k : Is(k, n)
    BY <2>1
  <2> DEFINE l == [i \in 0..(n + 1) |-> IF i = n + 1 THEN Longer(list, bound, n + 1, k[n]) ELSE k[i]]
  <2>3. \A i \in 0..n : k[i] = Longer(list, bound, i, k[i - 1])
    BY <1>0, <2>1, <2>2
  <2>4. \A i \in 0..n : l[i] = k[i]
    BY <2>1
  <2>5. l[n + 1] = Longer(list, bound, n + 1, k[n])
    BY <2>1
  <2>6. \A i \in 0..(n + 1) : l[i] = Longer(list, bound, i, l[i - 1])
    <3> HIDE DEF l, Is
    <3> SUFFICES ASSUME NEW i \in 0..(n + 1) PROVE l[i] = Longer(list, bound, i, l[i - 1])
      OBVIOUS
    <3>1. CASE i = n + 1
      <4>1. l[n] = k[n] /\ i - 1 = n
        BY <2>1, <2>4, <3>1
      <4> QED
        BY <2>5, <3>1, <4>1
    <3>2. CASE i \in 1..n
      <4>1. l[i - 1] = k[i - 1] /\ i \in 0..n
        BY <2>1, <2>4, <3>2
      <4> QED
        BY <2>3, <2>4, <4>1
    <3>3. CASE i = 0
      <4>1. i \in 0..n /\ Longer(list, bound, i, l[i - 1]) = Longer(list, bound, i, k[i - 1])
        BY <2>1, <3>3 DEF Longer
      <4> QED
        BY <2>3, <2>4, <4>1
    <3> QED
      BY <2>1, <3>1, <3>2, <3>3
  <2>7. Is(l, n + 1)
    <3> DEFINE m == Fcn(l, n + 1)
    <3>1. \A i \in 0..(n + 1) : m[i] = Longer(list, bound, i, l[i - 1])
      <4> HIDE DEF l
      <4> QED
        OBVIOUS
    <3>2. \A i \in 0..(n + 1) : m[i] = l[i]
      <4> HIDE DEF l, m
      <4> QED
        BY <2>6, <3>1
    <3>3. m = [i \in 0..(n + 1) |-> m[i]] /\ l = [i \in 0..(n + 1) |-> l[i]]
      OBVIOUS
    <3> HIDE DEF m, l
    <3>4. m = l
      BY <3>2, <3>3
    <3> QED
      BY <3>4 DEF m
  <2> HIDE DEF l, Is
  <2>8. n + 1 \in Nat /\ \E q : Is(q, n + 1)
    BY <2>1, <2>7
  <2> QED
    BY <2>8
<1>3. S = Nat
  <2>1. S \in SUBSET Nat
    OBVIOUS
  <2> HIDE DEF S
  <2> QED
    BY <2>1, <1>1, <1>2, InductionOnSet
<1> DEFINE kept == CHOOSE k : Is(k, Len(list))
<1>4. Is(kept, Len(list))
  <2>1. Len(list) \in S
    BY <1>3
  <2> QED
    BY <2>1
<1>5. OtherFloors(list, bound) = kept[Len(list)]
  BY DEF OtherFloors, Longer
<1> HIDE DEF kept, Is
<1>6. \A n \in 0..Len(list) : kept[n] = Longer(list, bound, n, kept[n - 1])
  BY <1>0, <1>4
<1> QED
  BY <1>5, <1>6

\* OtherFloors keeps the gaps with another floor, and their order.
Selected(o, list, bound) ==
    /\ o \in Seq(Gap)
    /\ \E at \in [1..Len(o) -> 1..Len(list)] : /\ \A l, m \in 1..Len(o) : l < m => at[l] < at[m]
                                               /\ \A m \in 1..Len(o) : o[m] = list[at[m]]
    /\ \A i \in 1..Len(list) : list[i].floor # bound => \E m \in 1..Len(o) : o[m] = list[i]

LEMMA OtherFloorsFacts ==
    ASSUME NEW list \in Seq(Gap), NEW bound
    PROVE  Selected(OtherFloors(list, bound), list, bound)
<1> DEFINE Sub(o, n) ==
        /\ o \in Seq(Gap)
        /\ \E at \in [1..Len(o) -> 1..n] : /\ \A l, m \in 1..Len(o) : l < m => at[l] < at[m]
                                           /\ \A m \in 1..Len(o) : o[m] = list[at[m]]
        /\ \A i \in 1..n : list[i].floor # bound => \E m \in 1..Len(o) : o[m] = list[i]
<1>1. PICK kept : /\ \A n \in 0..Len(list) : kept[n] = Longer(list, bound, n, kept[n - 1])
                  /\ OtherFloors(list, bound) = kept[Len(list)]
  BY OtherFloorsRecursion
<1> DEFINE S == {n \in Nat : n <= Len(list) => Sub(kept[n], n)}
<1>2. Sub(<<>>, 0)
  <2> DEFINE none == [m \in 1..0 |-> 0]
  <2>1. Len(<<>>) = 0 /\ 1..0 = {} /\ <<>> \in Seq(Gap)
    OBVIOUS
  <2>2. none \in [1..0 -> 1..0]
    BY <2>1
  <2> HIDE DEF none
  <2>3. \E at \in [1..0 -> 1..0] : /\ \A l, m \in 1..0 : l < m => at[l] < at[m]
                                   /\ \A m \in 1..0 : <<>>[m] = list[at[m]]
    BY <2>1, <2>2
  <2> QED
    BY <2>1, <2>3
<1>3. ASSUME NEW n \in Nat, n < Len(list), NEW o, Sub(o, n), list[n + 1].floor = bound
      PROVE  Sub(o, n + 1)
  <2>1. PICK at \in [1..Len(o) -> 1..n] : /\ \A l, m \in 1..Len(o) : l < m => at[l] < at[m]
                                          /\ \A m \in 1..Len(o) : o[m] = list[at[m]]
    BY <1>3
  <2>2. at \in [1..Len(o) -> 1..(n + 1)]
    OBVIOUS
  <2>3. \A i \in 1..(n + 1) : list[i].floor # bound => \E m \in 1..Len(o) : o[m] = list[i]
    BY <1>3
  <2> QED
    BY <1>3, <2>1, <2>2, <2>3
<1>4. ASSUME NEW n \in Nat, n < Len(list), NEW o, Sub(o, n)
      PROVE  Sub(Append(o, list[n + 1]), n + 1)
  <2> DEFINE p == Append(o, list[n + 1])
  <2>1. PICK at \in [1..Len(o) -> 1..n] : /\ \A l, m \in 1..Len(o) : l < m => at[l] < at[m]
                                          /\ \A m \in 1..Len(o) : o[m] = list[at[m]]
    BY <1>4
  <2>2. /\ p \in Seq(Gap) /\ Len(p) = Len(o) + 1 /\ p[Len(p)] = list[n + 1]
        /\ \A m \in 1..Len(o) : p[m] = o[m]
        /\ Len(o) \in Nat
    <3>1. list[n + 1] \in Gap
      BY <1>4
    <3> QED
      BY <1>4, <3>1
  <2> HIDE DEF p
  <2> DEFINE above == [m \in 1..Len(p) |-> IF m = Len(p) THEN n + 1 ELSE at[m]]
  <2>3. above \in [1..Len(p) -> 1..(n + 1)]
    BY <2>2
  <2>4. \A l, m \in 1..Len(p) : l < m => above[l] < above[m]
    <3> SUFFICES ASSUME NEW l \in 1..Len(p), NEW m \in 1..Len(p), l < m
                 PROVE  above[l] < above[m]
      OBVIOUS
    <3>0. Len(p) = Len(o) + 1 /\ Len(o) \in Nat /\ l \in Nat /\ m \in Nat
      BY <2>2
    <3>1. l \in 1..Len(o) /\ above[l] = at[l] /\ at[l] \in 1..n
      BY <3>0
    <3>2. CASE m = Len(p)
      BY <3>1, <3>2, <1>4
    <3>3. CASE m \in 1..Len(o)
      <4>1. above[m] = at[m]
        BY <2>2, <3>3
      <4> QED
        BY <2>1, <3>1, <3>3, <4>1
    <3>4. m = Len(p) \/ m \in 1..Len(o)
      BY <3>0
    <3> QED
      BY <3>2, <3>3, <3>4
  <2>5. \A m \in 1..Len(p) : p[m] = list[above[m]]
    BY <2>1, <2>2
  <2>6. \A i \in 1..(n + 1) : list[i].floor # bound => \E m \in 1..Len(p) : p[m] = list[i]
    <3> SUFFICES ASSUME NEW i \in 1..(n + 1), list[i].floor # bound
                 PROVE  \E m \in 1..Len(p) : p[m] = list[i]
      OBVIOUS
    <3>1. CASE i = n + 1
      BY <2>2, <3>1
    <3>2. CASE i \in 1..n
      <4>1. PICK m \in 1..Len(o) : o[m] = list[i]
        BY <1>4, <3>2
      <4>2. m \in 1..Len(p) /\ p[m] = list[i]
        BY <2>2, <4>1
      <4> QED
        BY <4>2
    <3> QED
      BY <1>4, <3>1, <3>2
  <2> HIDE DEF above
  <2> QED
    BY <2>2, <2>3, <2>4, <2>5, <2>6 DEF p
<1> HIDE DEF Sub
<1>5. 0 \in S
  BY <1>1, <1>2 DEF Longer
<1>6. ASSUME NEW n \in S PROVE n + 1 \in S
  <2>1. n \in Nat /\ (n < Len(list) => Sub(kept[n], n))
    OBVIOUS
  <2>2. ASSUME n < Len(list) PROVE Sub(kept[n + 1], n + 1)
    <3>1. n + 1 \in 0..Len(list) /\ (n + 1) - 1 = n /\ n + 1 # 0
      BY <2>1, <2>2
    <3>2. kept[n + 1] = IF list[n + 1].floor = bound THEN kept[n] ELSE Append(kept[n], list[n + 1])
      BY <1>1, <3>1 DEF Longer
    <3> QED
      BY <1>3, <1>4, <2>1, <2>2, <3>2
  <2> QED
    BY <2>1, <2>2
<1>7. S = Nat
  <2>1. S \in SUBSET Nat
    OBVIOUS
  <2> HIDE DEF S
  <2> QED
    BY <2>1, <1>5, <1>6, InductionOnSet
<1>8. Sub(OtherFloors(list, bound), Len(list))
  BY <1>1, <1>7
<1> QED
  BY <1>8 DEF Sub, Selected

-----------------------------------------------------------------------------
\* The steps.

\* What the type invariant says of single values.
LEMMA Types ==
    ASSUME TypeOK
    PROVE  /\ Len(chain) \in Nat /\ PageSize \in Nat \ {0} /\ NULL \notin Int
           /\ \A p \in 1..Len(chain) : /\ chain[p] \in Tx /\ chain[p].block \in Nat
                                       /\ chain[p].kind \in {"reward", "restake", "other"}
           /\ stored \subseteq 1..Len(chain)
           /\ \A q \in stored : q \in 1..Len(chain) /\ chain[q].block \in Nat
           /\ Len(gaps) \in Nat /\ Len(mine) \in Nat
           /\ \A n \in 1..Len(gaps) : /\ gaps[n] \in Gap
                                      /\ gaps[n].cursor \in Nat /\ gaps[n].floor \in Nat
           /\ from \in Nat /\ cursor \in Nat /\ next \in Int
           /\ cursor >= 1 /\ cursor <= from /\ from <= Len(chain) + 1
           /\ cursor - 1 <= next /\ next <= from - 1
           /\ (floor # NULL => floor \in Nat)
           /\ (watermark # NULL => watermark \in Nat)
           /\ budget \in Int /\ (budget > 0 => budget \in Nat)
<1>1. Len(chain) \in Nat /\ Len(gaps) \in Nat /\ Len(mine) \in Nat
  BY DEF TypeOK
<1>2. \A p \in 1..Len(chain) : chain[p] \in Tx
  BY DEF TypeOK
<1>3. \A n \in 1..Len(gaps) : gaps[n] \in Gap
  BY DEF TypeOK
<1>4. /\ from \in Nat /\ cursor \in Nat /\ next \in Int
      /\ cursor >= 1 /\ cursor <= from /\ from <= Len(chain) + 1
      /\ cursor - 1 <= next /\ next <= from - 1
  BY <1>1 DEF TypeOK
<1>5. stored \subseteq 1..Len(chain)
  BY DEF TypeOK
<1>6. PageSize \in Nat \ {0} /\ NULL \notin Int
  BY IngestConstants
<1>7. (floor # NULL => floor \in Nat) /\ (watermark # NULL => watermark \in Nat)
  BY DEF TypeOK
<1>8. budget \in Int
  BY DEF TypeOK
<1> QED
  BY <1>1, <1>2, <1>3, <1>4, <1>5, <1>6, <1>7, <1>8 DEF Tx, Gap

\* The chain grows.
LEMMA Grown ==
    ASSUME TypeOK, Ordered, NEW b \in Nat, NEW k \in {"reward", "restake", "other"}, Produce(b, k)
    PROVE  /\ Len(chain') = Len(chain) + 1 /\ chain' \in Seq(Tx)
           /\ \A i \in 1..Len(chain) : chain'[i] = chain[i] /\ chain[i].block <= b
           /\ chain'[Len(chain) + 1].block = b
<1>1. chain' = Append(chain, [block |-> b, kind |-> k]) /\ b >= Tip
  BY DEF Produce
<1>2. chain \in Seq(Tx) /\ [block |-> b, kind |-> k] \in Tx
  BY DEF TypeOK, Tx
<1>3. /\ Len(chain') = Len(chain) + 1 /\ chain' \in Seq(Tx)
      /\ \A i \in 1..Len(chain) : chain'[i] = chain[i]
      /\ chain'[Len(chain) + 1].block = b
  BY <1>1, <1>2
<1>4. ASSUME NEW i \in 1..Len(chain) PROVE chain[i].block <= b
  <2>1. Tip = chain[Len(chain)].block /\ Len(chain) \in 1..Len(chain)
    BY <1>2 DEF Tip
  <2>2. chain[i].block <= chain[Len(chain)].block
    BY <2>1 DEF Ordered
  <2>3. chain[i].block \in Nat /\ chain[Len(chain)].block \in Nat
    BY <2>1, Types
  <2> QED
    BY <1>1, <2>1, <2>2, <2>3
<1> QED
  BY <1>3, <1>4

LEMMA ProduceInv ==
    ASSUME IngestInv, NEW b \in Nat, NEW k \in {"reward", "restake", "other"}, Produce(b, k)
    PROVE  IngestInv'
<1> USE DEF IngestInv
<1>1. UNCHANGED <<stored, watermark, gaps, pc, walk, budget, mine, tool, runs, faults, lost>>
  BY DEF Produce
<1>2. UNCHANGED <<draining, floor, from, cursor, next, pages, status>>
  BY <1>1 DEF walk
<1>3. /\ Len(chain') = Len(chain) + 1 /\ chain' \in Seq(Tx)
      /\ \A i \in 1..Len(chain) : i \in 1..Len(chain') /\ chain'[i] = chain[i] /\ chain[i].block <= b
      /\ chain'[Len(chain) + 1].block = b
      /\ Len(chain) \in Nat
      /\ \A i \in 1..Len(chain') : i \in 1..Len(chain) \/ i = Len(chain) + 1
  <2>1. Len(chain) \in Nat
    BY Types
  <2>2. /\ Len(chain') = Len(chain) + 1 /\ chain' \in Seq(Tx)
        /\ \A i \in 1..Len(chain) : chain'[i] = chain[i] /\ chain[i].block <= b
        /\ chain'[Len(chain) + 1].block = b
    BY Grown
  <2>3. /\ \A i \in 1..Len(chain) : i \in 1..Len(chain')
        /\ \A i \in 1..Len(chain') : i \in 1..Len(chain) \/ i = Len(chain) + 1
    BY <2>1, <2>2
  <2> QED
    BY <2>1, <2>2, <2>3
<1>4. TypeOK'
  <2>1. stored' \subseteq 1..Len(chain') /\ lost' \subseteq 1..Len(chain')
    BY <1>1, <1>3 DEF TypeOK
  <2>2. from' \in 1..(Len(chain') + 1)
    BY <1>2, <1>3, Types
  <2> QED
    BY <1>1, <1>2, <1>3, <2>1, <2>2 DEF TypeOK
<1>5. Ordered'
  <2> SUFFICES ASSUME NEW i \in 1..Len(chain'), NEW j \in 1..Len(chain'), i <= j
               PROVE  chain'[i].block <= chain'[j].block
    BY DEF Ordered
  <2>1. CASE j \in 1..Len(chain)
    BY <1>3, <2>1 DEF Ordered
  <2>2. CASE j = Len(chain) + 1
    BY <1>3, <2>2
  <2> QED
    BY <1>3, <2>1, <2>2
<1>6. Within'
  BY <1>1, <1>3 DEF Within
<1>7. GapsFit'
  BY <1>1, <1>3, Types DEF GapsFit
<1>8. \A p \in 1..Len(chain) : Kept(p)' = Kept(p)
  <2>1. \A q \in stored : chain'[q] = chain[q]
    BY <1>3, Types
  <2> SUFFICES ASSUME NEW p \in 1..Len(chain) PROVE Kept(p)' = Kept(p)
    OBVIOUS
  <2>2. chain'[p] = chain[p]
    BY <1>3
  <2>3. \A q \in stored : SameKey(p, q)' <=> SameKey(p, q)
    BY <2>1, <2>2 DEF SameKey
  <2>4. HasRow(p)' <=> HasRow(p)
    BY <1>1, <2>3 DEF HasRow
  <2> QED
    BY <2>2, <2>4 DEF Kept
<1>9. cursor < from => cursor \in 1..Len(chain) /\ from - 1 \in 1..Len(chain)
  BY Types
<1>10. Walked'
  <2>1. \A p \in (next + 1)..(from - 1) : p \in 1..Len(chain)
    BY Types
  <2>2. \A p \in (next + 1)..(from - 1) : Kept(p) => Kept(p)'
    BY <1>8, <2>1
  <2>3. cursor < from => chain'[cursor] = chain[cursor]
    BY <1>3, <1>9
  <2> QED
    BY <1>1, <1>2, <2>2, <2>3 DEF Walked
<1>11. Unregistered' = Unregistered
  BY <1>2 DEF Unregistered, ColdStart
<1>12. HeadWalk'
  <2>1. \A q \in stored : chain'[q] = chain[q]
    BY <1>3, Types
  <2>2. Unregistered => chain'[from - 1] = chain[from - 1]
    BY <1>3, <1>9 DEF Unregistered
  <2> QED
    BY <1>1, <1>2, <1>11, <2>1, <2>2 DEF HeadWalk
<1>13. Drain'
  BY <1>1, <1>2 DEF Drain
<1>14. Holes' = Holes
  <2>1. Rewards' = Rewards
    BY <1>1, <1>3, Types DEF Rewards
  <2>2. \A lo, hi \in Rewards : Apart(lo, hi)' = Apart(lo, hi) /\ chain'[lo] = chain[lo]
    BY <1>3, <2>1, Types DEF Rewards, Apart
  <2> QED
    BY <2>1, <2>2 DEF Holes
<1>15. Registering'
  <2>1. \A q \in stored : chain'[q] = chain[q]
    BY <1>3, Types
  <2>2. \A lo \in stored : \A c \in (lo + 1)..Len(chain) : c \in (lo + 1)..Len(chain')
    BY <1>3, Types
  <2>3. ASSUME tool # NULL, NEW n \in (Len(gaps) + 1)..Len(tool)
        PROVE  \E lo \in stored : /\ tool[n].cursor \in (lo + 1)..Len(chain')
                                  /\ tool[n].floor = chain'[lo].block
    <3>1. PICK lo \in stored : /\ tool[n].cursor \in (lo + 1)..Len(chain)
                               /\ tool[n].floor = chain[lo].block
      BY <2>3 DEF Registering
    <3> QED
      BY <2>1, <2>2, <3>1
  <2> QED
    BY <1>1, <1>14, <2>3 DEF Registering
<1>16. AllSafe'
  <2> SUFFICES ASSUME watermark # NULL, NEW p \in 1..Len(chain'), Reached(p)'
               PROVE  Safe(p)'
    BY <1>1 DEF AllSafe
  <2>1. CASE p \in 1..Len(chain)
    <3>1. Reached(p)
      BY <1>1, <1>2, <1>3, <2>1, Types DEF Reached
    <3>2. Safe(p)
      BY <3>1, <2>1 DEF AllSafe
    <3>3. chain'[p] = chain[p]
      BY <1>3, <2>1
    <3> QED
      BY <1>1, <1>2, <1>8, <1>11, <2>1, <3>2, <3>3 DEF Safe, InGap, Pending
  <2>2. CASE p = Len(chain) + 1
    <3>1. PICK q \in 1..Len(chain) : watermark <= chain[q].block
      BY DEF Within
    <3>2. chain[q].block \in Nat /\ watermark \in Nat
      BY <3>1, Types
    <3>3. chain'[p].block = b /\ chain[q].block <= b
      BY <1>3, <2>2, <3>1
    <3>4. chain'[p].block >= watermark
      BY <3>1, <3>2, <3>3
    <3> QED
      BY <1>1, <3>4 DEF Safe
  <2> QED
    BY <1>3, <2>1, <2>2
<1>17. Stacked'
  <2>1. \A n \in 1..Len(gaps) : chain'[gaps[n].cursor] = chain[gaps[n].cursor]
    BY <1>3 DEF GapsFit
  <2> QED
    BY <1>1, <1>2, <1>11, <2>1 DEF Stacked
<1> QED
  BY <1>4, <1>5, <1>6, <1>7, <1>10, <1>12, <1>13, <1>15, <1>16, <1>17

LEMMA Earliest ==
    ASSUME NEW T \in SUBSET Nat, T # {}
    PROVE  (CHOOSE t \in T : \A u \in T : t <= u) \in T
           /\ \A u \in T : (CHOOSE t \in T : \A v \in T : t <= v) <= u
<1> DEFINE S == {n \in Nat : \A u \in T : n <= u}
<1>1. \E t \in T : \A u \in T : t <= u
  <2> SUFFICES ASSUME \A t \in T : \E u \in T : ~(t <= u) PROVE FALSE
    OBVIOUS
  <2>1. 0 \in S
    OBVIOUS
  <2>2. \A n \in S : n + 1 \in S
    OBVIOUS
  <2>3. S = Nat
    <3>1. S \in SUBSET Nat
      OBVIOUS
    <3> HIDE DEF S
    <3> QED
      BY <2>1, <2>2, <3>1, InductionOnSet
  <2>4. PICK t \in T : TRUE
    OBVIOUS
  <2>5. t + 1 \in S
    BY <2>3
  <2> QED
    BY <2>4, <2>5
<1> QED
  BY <1>1

LEMMA StopBeforeFacts ==
    ASSUME TypeOK
    PROVE  /\ StopBefore \in Nat \cup {NULL}
           /\ watermark # NULL => StopBefore = watermark
           /\ watermark = NULL /\ stored = {} => StopBefore = NULL
           /\ watermark = NULL /\ stored # {} =>
                /\ StopBefore # NULL
                /\ OldestStored \in stored /\ StopBefore = chain[OldestStored].block
                /\ \A q \in stored : OldestStored <= q
<1>1. CASE watermark = NULL /\ stored # {}
  <2>1. stored \in SUBSET Nat
    BY Types
  <2>2. OldestStored \in stored /\ \A q \in stored : OldestStored <= q
    BY <1>1, <2>1, Earliest DEF OldestStored
  <2>3. StopBefore = chain[OldestStored].block
    BY <1>1 DEF StopBefore
  <2>4. StopBefore \in Nat /\ StopBefore # NULL
    BY <2>2, <2>3, Types
  <2> QED
    BY <1>1, <2>2, <2>3, <2>4
<1>2. CASE ~(watermark = NULL /\ stored # {})
  BY <1>2, Types DEF StopBefore
<1> QED
  BY <1>1, <1>2

LEMMA StartHeadInv ==
    ASSUME IngestInv, ToolAlone, NEW newest \in Nat, newest <= Len(chain),
           newest >= Len(chain) - PageSize, StartHeadWalk(newest), faults' \in Nat
    PROVE  IngestInv'
<1> USE DEF IngestInv
<1>1. /\ pc = "idle" /\ pc' = "fetch" /\ draining' = FALSE /\ floor' = StopBefore
      /\ from' = newest + 1 /\ cursor' = newest + 1 /\ next' = newest
      /\ pages' = (IF StopBefore = NULL THEN 1 ELSE HeadPages)
      /\ status' = "end_of_history"
      /\ tool = NULL
      /\ UNCHANGED <<chain, stored, watermark, gaps, budget, mine, tool, runs, lost>>
  BY DEF StartHeadWalk
<1>2. TypeOK'
  <2>1. pages' \in Nat \ {0}
    BY <1>1, IngestConstants
  <2>2. from' \in 1..(Len(chain) + 1) /\ cursor' \in 1..from' /\ next' \in (cursor' - 1)..(from' - 1)
    BY <1>1, Types
  <2>3. floor' \in Nat \cup {NULL}
    BY <1>1, StopBeforeFacts
  <2> QED
    BY <1>1, <2>1, <2>2, <2>3 DEF TypeOK
<1>3. Ordered' /\ Within' /\ GapsFit'
  BY <1>1 DEF Ordered, Within, GapsFit
<1>4. Walked'
  <2>1. pages' >= 1
    BY <1>1, IngestConstants
  <2>2. \A p \in (next' + 1)..(from' - 1) : FALSE
    BY <1>1
  <2> QED
    BY <1>1, <2>1, <2>2 DEF Walked
<1>5. HeadWalk'
  <2>1. watermark # NULL => floor' = watermark
    BY <1>1, StopBeforeFacts
  <2>2. watermark = NULL /\ floor' = NULL => gaps = <<>> /\ stored = {}
    <3> SUFFICES ASSUME watermark = NULL, floor' = NULL PROVE gaps = <<>> /\ stored = {}
      OBVIOUS
    <3>1. stored = {}
      BY <1>1, StopBeforeFacts
    <3>2. \A n \in 1..Len(gaps) : FALSE
      BY <3>1 DEF GapsFit
    <3>3. gaps = <<>>
      BY <3>2 DEF TypeOK
    <3> QED
      BY <3>1, <3>3
  <2>3. ASSUME watermark = NULL, floor' # NULL
        PROVE  /\ \A q \in stored : chain[q].block >= floor'
               /\ \A n \in 1..Len(gaps) : gaps[n].floor >= floor'
    <3>1. /\ OldestStored \in stored /\ floor' = chain[OldestStored].block
          /\ \A q \in stored : OldestStored <= q
      BY <1>1, <2>3, StopBeforeFacts
    <3>2. \A q \in stored : chain[q].block >= floor'
      BY <3>1, Types DEF Ordered
    <3>3. ASSUME NEW n \in 1..Len(gaps) PROVE gaps[n].floor >= floor'
      <4>1. PICK q \in stored : chain[q].block <= gaps[n].floor
        BY <2>3 DEF GapsFit
      <4>2. gaps[n].floor \in Nat /\ chain[q].block \in Nat /\ floor' \in Nat
        BY <3>1, Types
      <4> QED
        BY <3>2, <4>1, <4>2
    <3> QED
      BY <3>2, <3>3
  <2> QED
    BY <1>1, <2>1, <2>2, <2>3 DEF HeadWalk
<1>6. Drain' /\ Registering' /\ Stacked'
  BY <1>1 DEF Drain, Registering, Stacked
<1>7. AllSafe'
  <2> SUFFICES ASSUME watermark # NULL, NEW p \in 1..Len(chain), Reached(p)'
               PROVE  Safe(p)'
    BY <1>1 DEF AllSafe
  <2>1. Reached(p)
    <3>1. CASE from' <= p
      <4>1. Len(chain) \in Nat /\ PageSize \in Nat /\ p \in Nat
        BY Types
      <4>2. p > Len(chain) - PageSize
        BY <1>1, <3>1, <4>1
      <4> QED
        BY <4>2 DEF Reached
    <3>2. CASE ~(from' <= p)
      BY <1>1, <3>2 DEF Reached
    <3> QED
      BY <3>1, <3>2
  <2>2. Safe(p) /\ ~Pending(p)
    BY <1>1, <2>1 DEF AllSafe, Pending
  <2> QED
    BY <1>1, <2>2 DEF Safe, Kept, HasRow, SameKey, InGap
<1> QED
  BY <1>2, <1>3, <1>4, <1>5, <1>6, <1>7

LEMMA StartInv ==
    ASSUME IngestInv, ToolAlone, StartIngest \/ StartOutdated
    PROVE  IngestInv'
<1> USE DEF IngestInv
<1>1. PICK newest \in Nat : /\ newest <= Len(chain) /\ newest >= Len(chain) - PageSize
                            /\ StartHeadWalk(newest)
  <2>1. CASE StartIngest
    <3>1. Len(chain) \in Nat /\ Len(chain) >= Len(chain) - PageSize
      BY Types
    <3> QED
      BY <2>1, <3>1 DEF StartIngest
  <2>2. CASE StartOutdated
    <3>1. PICK lag \in 1..PageSize : lag <= Len(chain) /\ StartHeadWalk(Len(chain) - lag)
      BY <2>2 DEF StartOutdated
    <3>2. /\ Len(chain) - lag \in Nat /\ Len(chain) - lag <= Len(chain)
          /\ Len(chain) - lag >= Len(chain) - PageSize
      BY <3>1, Types
    <3> QED
      BY <3>1, <3>2
  <2> QED
    BY <2>1, <2>2
<1>2. faults' \in Nat
  BY DEF StartIngest, StartOutdated, TypeOK
<1> QED
  BY <1>1, <1>2, StartHeadInv

\* What no row, gap or watermark changed is as safe as it was.
LEMMA QuietSafe ==
    ASSUME AllSafe, UNCHANGED <<chain, stored, watermark, gaps>>, lost \subseteq lost',
           \A p \in 1..Len(chain) : Pending(p) => p \in lost' \/ Pending(p)',
           pc' \in {"fetch", "store", "gap"} =>
               \A p \in 1..Len(chain) : from' <= p => Reached(p)
    PROVE  AllSafe'
<1> SUFFICES ASSUME watermark # NULL, NEW p \in 1..Len(chain), Reached(p)'
             PROVE  Safe(p)'
  BY DEF AllSafe
<1>1. Reached(p)
  <2>1. CASE pc' \in {"fetch", "store", "gap"} /\ from' <= p
    BY <2>1
  <2>2. CASE ~(pc' \in {"fetch", "store", "gap"} /\ from' <= p)
    BY <2>2 DEF Reached
  <2> QED
    BY <2>1, <2>2
<1>2. Safe(p)
  BY <1>1 DEF AllSafe
<1> QED
  BY <1>2 DEF Safe, Kept, HasRow, SameKey, InGap

LEMMA AbortInv ==
    ASSUME IngestInv, FetchFails \/ Crash
    PROVE  IngestInv'
<1> USE DEF IngestInv
<1>1. /\ pc' = "idle" /\ draining' = FALSE /\ floor' = NULL
      /\ from' = 1 /\ cursor' = 1 /\ next' = 0 /\ pages' = 0 /\ status' = "end_of_history"
      /\ budget' = 0 /\ mine' = <<>> /\ faults' = faults + 1
      /\ UNCHANGED <<chain, stored, watermark, gaps, tool, runs>>
  BY DEF FetchFails, Crash, Abort
<1>2. /\ lost \subseteq lost' /\ lost' \subseteq 1..Len(chain)
      /\ \A p \in 1..Len(chain) : Pending(p) => p \in lost'
  <2>1. CASE FetchFails
    BY <2>1 DEF FetchFails, Pending, TypeOK
  <2>2. CASE Crash
    <3>1. lost' = IF pc = "gap" /\ Unregistered
                  THEN lost \cup {p \in 1..(cursor - 1) : chain[p].block >= floor} ELSE lost
      BY <2>2 DEF Crash
    <3>2. \A p \in 1..Len(chain) : p < cursor => p \in 1..(cursor - 1)
      BY Types
    <3>3. \A p \in 1..(cursor - 1) : p \in 1..Len(chain)
      BY Types
    <3>4. lost \subseteq 1..Len(chain)
      BY DEF TypeOK
    <3> QED
      BY <3>1, <3>2, <3>3, <3>4 DEF Pending
  <2> QED
    BY <2>1, <2>2
<1>3. TypeOK'
  <2>1. from' \in 1..(Len(chain) + 1) /\ cursor' \in 1..from' /\ next' \in (cursor' - 1)..(from' - 1)
    BY <1>1, Types
  <2>2. mine' \in Seq(Gap) /\ pages' \in Nat /\ budget' \in Int /\ faults' \in Nat
    BY <1>1 DEF TypeOK
  <2>3. lost' \subseteq 1..Len(chain')
    BY <1>1, <1>2
  <2> QED
    BY <1>1, <2>1, <2>2, <2>3 DEF TypeOK
<1>4. Ordered' /\ Within' /\ GapsFit' /\ Walked' /\ HeadWalk' /\ Drain'
  BY <1>1 DEF Ordered, Within, GapsFit, Walked, HeadWalk, Drain
<1>5. Registering' /\ Stacked'
  <2>1. Holes' = Holes
    BY <1>1 DEF Holes, Apart, Rewards
  <2> QED
    BY <1>1, <2>1 DEF Registering, Stacked
<1>6. AllSafe'
  BY <1>1, <1>2, QuietSafe
<1> QED
  BY <1>3, <1>4, <1>5, <1>6

LEMMA PageEndFacts ==
    ASSUME TypeOK, cursor # 1
    PROVE  /\ PageEnd \in 1..(cursor - 1) /\ PageEnd \in 1..Len(chain)
           /\ PageEnd = 1 \/ PageEnd = cursor - PageSize
           /\ cursor - PageEnd < PageSize => PageEnd = 1
           /\ chain[PageEnd].block \in Nat
<1>1. /\ PageEnd \in 1..(cursor - 1) /\ PageEnd \in 1..Len(chain)
      /\ PageEnd = 1 \/ PageEnd = cursor - PageSize
      /\ cursor - PageEnd < PageSize => PageEnd = 1
  BY Types DEF PageEnd
<1> QED
  BY <1>1, Types

LEMMA FetchInv ==
    ASSUME IngestInv, FetchPage \/ RateLimited
    PROVE  IngestInv'
<1> USE DEF IngestInv
<1>1. /\ pc = "fetch" /\ pc' \in {"fetch", "store"} /\ faults' \in Nat
      /\ UNCHANGED <<chain, stored, watermark, gaps, draining, floor, from, next,
                     budget, mine, tool, runs, lost>>
  <2>1. faults \in Nat
    BY DEF TypeOK
  <2>2. CASE FetchPage
    BY <2>1, <2>2 DEF FetchPage
  <2>3. CASE RateLimited
    BY <2>1, <2>3 DEF RateLimited
  <2> QED
    BY <2>2, <2>3
<1>2. /\ cursor = from \/ cursor = 1 \/ cursor <= from - PageSize
      /\ cursor < from /\ floor # NULL => chain[cursor].block >= floor
      /\ next = from - 1 /\ pages >= 1 /\ pages \in Nat
      /\ \A p \in (next + 1)..(from - 1) : Kept(p)
  BY <1>1 DEF Walked, TypeOK
<1> DEFINE Ended(c, s, stop) ==
        /\ c = from \/ c = 1 \/ c <= from - PageSize
        /\ stop => /\ s \in {"reached_floor", "end_of_history", "truncated"}
                   /\ s = "end_of_history" => c = 1
                   /\ s = "reached_floor" => floor # NULL /\ c < from /\ chain[c].block < floor
        /\ (~stop \/ s = "truncated") /\ c < from /\ floor # NULL => chain[c].block >= floor
<1>3. /\ cursor' \in 1..cursor /\ Ended(cursor', status', pc' = "store")
      /\ status' \in {"reached_floor", "end_of_history", "truncated"}
      /\ pages' \in Nat /\ (pc' = "fetch" => pages' >= 1)
  <2>1. CASE RateLimited
    <3>1. cursor' = cursor /\ status' = "truncated" /\ pc' = "store" /\ pages' = pages
      BY <2>1 DEF RateLimited
    <3> QED
      BY <1>2, <3>1, Types
  <2>2. CASE FetchPage /\ cursor = 1
    <3>1. cursor' = cursor /\ status' = "end_of_history" /\ pc' = "store" /\ pages' = pages
      BY <2>2 DEF FetchPage
    <3> QED
      BY <1>2, <2>2, <3>1, Types
  <2>3. CASE FetchPage /\ cursor # 1
    <3> DEFINE reached == floor # NULL /\ chain[PageEnd].block < floor
               short == cursor - PageEnd < PageSize
    <3>1. /\ cursor' = PageEnd /\ pages' = pages - 1
          /\ status' = (IF reached THEN "reached_floor"
                        ELSE IF short THEN "end_of_history"
                        ELSE IF pages = 1 THEN "truncated"
                        ELSE status)
          /\ pc' = IF reached \/ short \/ pages = 1 THEN "store" ELSE "fetch"
      BY <2>3 DEF FetchPage
    <3>2. /\ PageEnd \in 1..(cursor - 1)
          /\ PageEnd = 1 \/ PageEnd = cursor - PageSize
          /\ short => PageEnd = 1
          /\ chain[PageEnd].block \in Nat /\ (floor # NULL => floor \in Nat)
      BY <2>3, PageEndFacts, Types
    <3>3. PageEnd \in 1..cursor /\ PageEnd < from /\ (PageEnd = 1 \/ PageEnd <= from - PageSize)
      BY <3>2, Types
    <3>4. pages' \in Nat /\ (pc' = "fetch" => pages' >= 1)
      BY <1>2, <3>1
    <3>5. status \in {"reached_floor", "end_of_history", "truncated"}
      BY DEF TypeOK
    <3>6. ~reached /\ floor # NULL => chain[PageEnd].block >= floor
      BY <3>2
    <3>7. pc' = "store" => reached \/ short \/ pages = 1
      BY <3>1
    <3>8. pc' # "store" \/ status' = "truncated" => ~reached
      BY <3>1
    <3> HIDE DEF reached, short
    <3>9. pc' = "store" => /\ status' = "end_of_history" => short
                           /\ status' = "reached_floor" => reached
      BY <3>1, <3>7
    <3> QED
      BY <3>1, <3>2, <3>3, <3>4, <3>5, <3>6, <3>8, <3>9 DEF reached
  <2> QED
    BY <2>1, <2>2, <2>3
<1>4. TypeOK'
  <2>1. cursor' \in 1..from /\ next \in (cursor' - 1)..(from - 1)
    BY <1>3, Types
  <2> QED
    BY <1>1, <1>3, <2>1 DEF TypeOK
<1>5. Walked'
  <2>1. \A p : Kept(p)' = Kept(p)
    BY <1>1 DEF Kept, HasRow, SameKey
  <2> QED
    BY <1>1, <1>2, <1>3, <2>1 DEF Walked
<1>6. Ordered' /\ Within' /\ GapsFit' /\ HeadWalk' /\ Drain'
  BY <1>1 DEF Ordered, Within, GapsFit, HeadWalk, Drain
<1>7. Registering' /\ Stacked'
  BY <1>1 DEF Registering, Stacked
<1>8. AllSafe'
  <2>1. \A p : ~Pending(p)
    BY <1>1 DEF Pending
  <2>2. \A p \in 1..Len(chain) : from' <= p => Reached(p)
    BY <1>1 DEF Reached
  <2> QED
    BY <1>1, <2>1, <2>2, QuietSafe
<1> QED
  BY <1>4, <1>5, <1>6, <1>7, <1>8

LEMMA StoreInv ==
    ASSUME IngestInv, StoreTx
    PROVE  IngestInv'
<1> USE DEF IngestInv
<1>1. /\ pc = "store" /\ next >= cursor /\ next' = next - 1
      /\ stored' = IF chain[next].kind = "other" THEN stored
                   ELSE {q \in stored : ~SameKey(q, next)} \cup {next}
      /\ UNCHANGED <<chain, watermark, gaps, pc, draining, floor, from, cursor, pages,
                     status, budget, mine, tool, runs, faults, lost>>
  BY DEF StoreTx
<1>2. next \in 1..Len(chain) /\ next' \in (cursor - 1)..(from - 1) /\ next \in Nat
  BY <1>1, Types
<1>3. /\ stored' \subseteq stored \cup {next}
      /\ \A q \in stored : \E r \in stored' : chain[r].block = chain[q].block
      /\ \A p : Kept(p) => Kept(p)'
      /\ \A p : p = next => Kept(p)'
  <2>1. stored' \subseteq stored \cup {next}
    BY <1>1
  <2>2. ASSUME NEW q \in stored PROVE q \in stored' \/ (next \in stored' /\ SameKey(q, next))
    BY <1>1
  <2>3. \A q \in stored : \E r \in stored' : chain[r].block = chain[q].block
    BY <2>2 DEF SameKey
  <2>4. ASSUME NEW p, HasRow(p) PROVE HasRow(p)'
    <3>1. PICK q \in stored : SameKey(p, q)
      BY <2>4 DEF HasRow
    <3>2. \A r : SameKey(p, r)' = SameKey(p, r)
      BY <1>1 DEF SameKey
    <3>3. CASE q \in stored'
      BY <3>1, <3>2, <3>3 DEF HasRow
    <3>4. CASE next \in stored' /\ SameKey(q, next)
      <4>1. SameKey(p, next)
        BY <3>1, <3>4 DEF SameKey
      <4> QED
        BY <3>2, <3>4, <4>1 DEF HasRow
    <3> QED
      BY <2>2, <3>3, <3>4
  <2>5. \A p : Kept(p) => Kept(p)'
    BY <1>1, <2>4 DEF Kept
  <2>6. ASSUME NEW p, p = next PROVE Kept(p)'
    <3>1. CASE chain[next].kind = "other"
      BY <1>1, <2>6, <3>1 DEF Kept
    <3>2. CASE chain[next].kind # "other"
      <4>1. p \in stored'
        BY <1>1, <2>6, <3>2
      <4> QED
        BY <4>1 DEF Kept, HasRow, SameKey
    <3> QED
      BY <3>1, <3>2
  <2> QED
    BY <2>1, <2>3, <2>5, <2>6
<1>4. TypeOK'
  BY <1>1, <1>2, <1>3 DEF TypeOK
<1>5. \A p \in next..(from - 1) : Kept(p)'
  <2>1. \A p \in (next + 1)..(from - 1) : Kept(p)
    BY <1>1 DEF Walked
  <2>2. \A p \in next..(from - 1) : p = next \/ p \in (next + 1)..(from - 1)
    BY Types
  <2> QED
    BY <1>3, <2>1, <2>2
<1>6. Walked'
  <2>1. (next' + 1)..(from - 1) = next..(from - 1)
    BY <1>1, <1>2
  <2> QED
    BY <1>1, <1>5, <2>1 DEF Walked
<1>7. HeadWalk'
  <2>1. \A q \in stored' : q > next' \/ q \in stored
    BY <1>1, <1>2, <1>3
  <2>2. \A q \in stored : q > next => q > next'
    BY <1>1, <1>2, Types
  <2>3. \A q \in stored' : (q \in stored => q > next \/ (floor # NULL /\ chain[q].block >= floor))
            => q > next' \/ (floor # NULL /\ chain[q].block >= floor)
    BY <2>1, <2>2
  <2> QED
    BY <1>1, <2>3 DEF HeadWalk
<1>8. Ordered' /\ Within' /\ GapsFit' /\ Drain' /\ Stacked'
  <2>1. GapsFit'
    <3> SUFFICES ASSUME watermark = NULL, NEW n \in 1..Len(gaps)
                 PROVE  \E q \in stored' : chain[q].block <= gaps[n].floor
      BY <1>1 DEF GapsFit
    <3>1. PICK q \in stored : chain[q].block <= gaps[n].floor
      BY DEF GapsFit
    <3> QED
      BY <1>3, <3>1
  <2>2. Unregistered' = Unregistered
    BY <1>1 DEF Unregistered, ColdStart
  <2> QED
    BY <1>1, <2>1, <2>2 DEF Ordered, Within, Drain, Stacked
<1>9. Registering'
  BY <1>1 DEF Registering
<1>10. AllSafe'
  <2> SUFFICES ASSUME watermark # NULL, NEW p \in 1..Len(chain), Reached(p)'
               PROVE  Safe(p)'
    BY <1>1 DEF AllSafe
  <2>1. CASE p \in next..(from - 1)
    BY <1>5, <2>1 DEF Safe
  <2>2. CASE p \notin next..(from - 1)
    <3>1. next < p => from <= p
      BY <1>2, <2>2, Types
    <3>2. Reached(p)
      BY <1>1, <1>3, <3>1 DEF Reached
    <3>3. Safe(p) /\ ~Pending(p)
      BY <1>1, <3>2 DEF AllSafe, Pending
    <3> QED
      BY <1>1, <1>3, <3>3 DEF Safe, InGap
  <2> QED
    BY <2>1, <2>2
<1> QED
  BY <1>4, <1>6, <1>7, <1>8, <1>9, <1>10

\* The watermark moves: what lay between the walk and its floor is pending.
LEMMA SetWatermarkInv ==
    ASSUME IngestInv, SetWatermark
    PROVE  IngestInv'
<1> USE DEF IngestInv
<1> DEFINE moved == cursor < from /\ (floor = NULL \/ chain[from - 1].block >= floor)
<1>1. /\ pc = "store" /\ next < cursor /\ ~draining /\ pc' = "gap"
      /\ watermark' = IF moved THEN chain[from - 1].block ELSE watermark
      /\ UNCHANGED <<chain, stored, gaps, budget, mine, tool, runs, faults, lost>>
      /\ UNCHANGED <<draining, floor, from, cursor, next, pages, status>>
  BY DEF SetWatermark, walk, ColdStart
<1>2. /\ next = cursor - 1
      /\ cursor < from => /\ from - 1 \in 1..Len(chain) /\ cursor \in 1..Len(chain)
                          /\ chain[from - 1].block \in Nat /\ chain[cursor].block \in Nat
                          /\ chain[cursor].block <= chain[from - 1].block
  <2>1. next = cursor - 1
    BY <1>1, Types
  <2>2. cursor < from => from - 1 \in 1..Len(chain) /\ cursor \in 1..Len(chain) /\ cursor <= from - 1
    BY Types
  <2> QED
    BY <2>1, <2>2, Types DEF Ordered
<1>3. /\ cursor = from \/ cursor = 1 \/ cursor <= from - PageSize
      /\ \A p \in cursor..(from - 1) : Kept(p)
      /\ status = "truncated" /\ cursor < from /\ floor # NULL => chain[cursor].block >= floor
      /\ status = "end_of_history" => cursor = 1
      /\ status = "reached_floor" => /\ floor # NULL /\ cursor < from
                                     /\ chain[cursor].block < floor
  BY <1>1, <1>2, Types DEF Walked
<1>4. /\ watermark # NULL => floor = watermark
      /\ watermark = NULL /\ floor = NULL => gaps = <<>> /\ \A q \in stored : q > next
      /\ watermark = NULL /\ floor # NULL =>
            /\ \A n \in 1..Len(gaps) : gaps[n].floor >= floor
            /\ \A q \in stored : q > next \/ chain[q].block >= floor
  BY <1>1 DEF HeadWalk
<1>5. Unregistered' = Unregistered /\ (Unregistered => moved)
  <2>1. Unregistered' = Unregistered
    BY <1>1 DEF Unregistered, ColdStart
  <2>2. ASSUME Unregistered PROVE chain[from - 1].block >= floor
    <3>1. cursor < from /\ floor # NULL /\ status = "truncated" /\ floor \in Nat
      BY <2>2, Types DEF Unregistered, ColdStart
    <3>2. chain[cursor].block >= floor
      BY <1>3, <3>1
    <3> QED
      BY <1>2, <3>1, <3>2
  <2> QED
    BY <2>1, <2>2 DEF Unregistered, ColdStart
<1>6. watermark # NULL => watermark' # NULL /\ watermark' >= watermark
  <2>1. watermark # NULL => watermark \in Nat
    BY Types
  <2>2. CASE moved
    BY <1>1, <1>2, <1>4, <2>1, <2>2, Types
  <2>3. CASE ~moved
    BY <1>1, <2>1, <2>3
  <2> QED
    BY <2>2, <2>3
<1>7. watermark' \in Nat \cup {NULL} /\ (moved => watermark' \in Nat /\ watermark' # NULL)
  BY <1>1, <1>2, Types
<1>8. TypeOK'
  BY <1>1, <1>7 DEF TypeOK
<1>9. Ordered' /\ GapsFit' /\ Drain' /\ Registering'
  BY <1>1, <1>6 DEF Ordered, GapsFit, Drain, Registering
<1>10. Within'
  <2>1. CASE moved
    <3>1. watermark' = chain[from - 1].block /\ from - 1 \in 1..Len(chain)
      BY <1>1, <1>2, <2>1
    <3> QED
      BY <1>1, <1>2, <2>1, <3>1 DEF Within
  <2>2. CASE ~moved
    BY <1>1, <2>2 DEF Within
  <2> QED
    BY <2>1, <2>2
<1>11. Walked'
  <2>1. \A p : Kept(p)' = Kept(p)
    BY <1>1 DEF Kept, HasRow, SameKey
  <2>2. (next + 1)..(from - 1) = cursor..(from - 1)
    BY <1>2, Types
  <2> QED
    BY <1>1, <1>2, <1>3, <2>1, <2>2 DEF Walked
<1>12. HeadWalk'
  BY <1>1, <1>5 DEF HeadWalk
<1>13. Stacked'
  <2>1. \A n \in 1..Len(gaps) : chain[gaps[n].cursor].block \in Nat
    BY Types DEF GapsFit
  <2>2. ASSUME runs = 0, NEW n \in 1..Len(gaps)
        PROVE  /\ watermark' # NULL /\ chain[gaps[n].cursor].block <= watermark'
               /\ chain[gaps[n].cursor].block <= floor
    <3>1. watermark # NULL /\ chain[gaps[n].cursor].block <= watermark
      BY <2>2 DEF Stacked
    <3>2. watermark \in Nat /\ watermark' \in Nat /\ watermark' # NULL /\ watermark' >= watermark
      BY <1>6, <1>7, <3>1, Types
    <3> QED
      BY <1>4, <2>1, <3>1, <3>2
  <2> QED
    BY <1>1, <2>2 DEF Stacked
<1>14. AllSafe'
  <2> SUFFICES ASSUME watermark' # NULL, NEW p \in 1..Len(chain), Reached(p)'
               PROVE  Safe(p)'
    BY <1>1 DEF AllSafe
  <2> DEFINE Known == Kept(p) \/ p \in lost \/ InGap(p)
  <2>1. Known => Safe(p)'
    BY <1>1 DEF Safe, Kept, HasRow, SameKey, InGap
  <2>2. p \in Nat /\ chain[p].block \in Nat
    BY Types
  <2>3. CASE ~moved
    <3>1. Reached(p) /\ watermark' = watermark
      BY <1>1, <2>3 DEF Reached
    <3>2. Safe(p) /\ ~Pending(p)
      BY <1>1, <3>1 DEF AllSafe, Pending
    <3> QED
      BY <1>1, <2>1, <3>1, <3>2 DEF Safe
  <2>4. CASE moved /\ from <= p
    <3>1. chain[from - 1].block <= chain[p].block
      <4>1. from - 1 \in 1..Len(chain) /\ from - 1 <= p
        BY <1>2, <2>2, <2>4, Types
      <4> QED
        BY <4>1 DEF Ordered
    <3> QED
      BY <1>1, <1>2, <2>2, <2>4, <3>1 DEF Safe
  <2>5. CASE p \in cursor..(from - 1)
    BY <1>3, <2>1, <2>5
  <2>6. CASE moved /\ p < cursor
    <3>1. chain[p].block <= chain[cursor].block
      <4>1. cursor \in 1..Len(chain) /\ p <= cursor
        BY <1>2, <2>2, <2>6, Types
      <4> QED
        BY <4>1 DEF Ordered
    <3>2. ~(p > Len(chain) - PageSize) /\ ~(from <= p)
      <4>1. cursor <= from - PageSize
        BY <1>3, <2>2, <2>6, Types
      <4> QED
        BY <2>2, <2>6, <4>1, Types
    <3>3. \/ \E q \in stored : q < p
          \/ \E n \in 1..Len(gaps) : gaps[n].cursor <= p
      BY <1>1, <3>2 DEF Reached
    <3>4. Known \/ (floor # NULL /\ chain[p].block >= floor)
      <4>1. CASE watermark # NULL
        <5>1. Reached(p)
          BY <3>3 DEF Reached
        <5>2. Safe(p) /\ ~Pending(p)
          BY <1>1, <4>1, <5>1 DEF AllSafe, Pending
        <5> QED
          BY <1>4, <5>2 DEF Safe
      <4>2. CASE watermark = NULL /\ \E q \in stored : q < p
        <5>1. PICK q \in stored : q < p
          BY <4>2
        <5>2. q \in 1..Len(chain) /\ chain[q].block \in Nat /\ ~(q > next)
          BY <1>2, <2>2, <2>6, <5>1, Types
        <5>3. floor # NULL /\ chain[q].block >= floor
          BY <1>4, <4>2, <5>2
        <5>4. chain[q].block <= chain[p].block
          BY <2>2, <5>1, <5>2 DEF Ordered
        <5>5. floor \in Nat
          BY <5>3, Types
        <5>6. chain[p].block >= floor
          BY <2>2, <5>2, <5>3, <5>4, <5>5
        <5> QED
          BY <5>3, <5>6
      <4>3. CASE watermark = NULL /\ \E n \in 1..Len(gaps) : gaps[n].cursor <= p
        <5>1. PICK n \in 1..Len(gaps) : gaps[n].cursor <= p
          BY <4>3
        <5>2. gaps # <<>>
          BY <5>1
        <5>3. floor # NULL /\ gaps[n].floor >= floor
          BY <1>4, <4>3, <5>2
        <5>4. /\ gaps[n].cursor \in 1..Len(chain)
              /\ gaps[n].floor <= chain[gaps[n].cursor].block
          BY DEF GapsFit
        <5>5. chain[gaps[n].cursor].block <= chain[p].block
          BY <5>1, <5>4 DEF Ordered
        <5>6. /\ gaps[n].floor \in Nat /\ floor \in Nat
              /\ chain[gaps[n].cursor].block \in Nat
          BY <5>3, <5>4, Types
        <5>7. chain[p].block >= floor
          BY <2>2, <5>3, <5>4, <5>5, <5>6
        <5> QED
          BY <5>3, <5>7
      <4> QED
        BY <3>3, <4>1, <4>2, <4>3
    <3>5. ASSUME floor # NULL, chain[p].block >= floor PROVE Safe(p)'
      <4>1. cursor # 1 /\ floor \in Nat
        BY <2>2, <2>6, <3>5, Types
      <4>2. status = "truncated"
        <5>1. status \in {"reached_floor", "end_of_history", "truncated"}
          BY DEF TypeOK
        <5>2. status # "reached_floor"
          BY <1>2, <1>3, <2>2, <3>1, <3>5, <4>1
        <5> QED
          BY <1>3, <4>1, <5>1, <5>2
      <4>3. Unregistered
        BY <2>6, <3>5, <4>2 DEF Unregistered, ColdStart
      <4> QED
        BY <1>1, <1>5, <2>6, <3>5, <4>3 DEF Safe, Pending
    <3> QED
      BY <2>1, <3>4, <3>5
  <2> QED
    BY <2>2, <2>3, <2>4, <2>5, <2>6, Types
<1> QED
  BY <1>8, <1>9, <1>10, <1>11, <1>12, <1>13, <1>14

\* A walk without a gap to record is over; the drain loop begins or ends.
LEMMA BetweenInv ==
    ASSUME IngestInv, (RecordGap /\ ~Unregistered) \/ LoadGaps \/ IngestDone
    PROVE  IngestInv'
<1> USE DEF IngestInv
<1>1. /\ pc # "idle" /\ pc' \in {"drain", "loop", "idle"} /\ budget' \in Int
      /\ mine' \in {mine, gaps} /\ (pc' = "loop" => mine' = gaps)
      /\ UNCHANGED <<chain, stored, watermark, gaps, tool, runs, faults, lost>>
      /\ UNCHANGED <<draining, floor, from, cursor, next, pages, status>>
  <2>1. budget \in Int /\ BackfillPages \in Int
    BY IngestConstants DEF TypeOK
  <2>2. CASE RecordGap /\ ~Unregistered
    BY <2>1, <2>2 DEF RecordGap, walk
  <2>3. CASE LoadGaps
    BY <2>1, <2>3 DEF LoadGaps, walk
  <2>4. CASE IngestDone
    BY <2>1, <2>4 DEF IngestDone, walk
  <2> QED
    BY <2>2, <2>3, <2>4
<1>2. \A p : ~Pending(p)
  BY DEF RecordGap, LoadGaps, IngestDone, Pending
<1>3. TypeOK'
  BY <1>1 DEF TypeOK
<1>4. Ordered' /\ Within' /\ GapsFit' /\ Walked' /\ HeadWalk' /\ Drain' /\ Registering' /\ Stacked'
  BY <1>1 DEF Ordered, Within, GapsFit, Walked, HeadWalk, Drain, Registering, Stacked
<1>5. AllSafe'
  BY <1>1, <1>2, QuietSafe
<1> QED
  BY <1>3, <1>4, <1>5

\* The gap is on the list: what was pending is in it.
LEMMA RecordGapInv ==
    ASSUME IngestInv, RecordGap, Unregistered
    PROVE  IngestInv'
<1> USE DEF IngestInv
<1>1. /\ pc = "gap" /\ pc' = "drain" 
      /\ gaps' = <<[cursor |-> cursor, floor |-> floor]>> \o OtherFloors(gaps, floor)
      /\ UNCHANGED <<chain, stored, watermark, budget, mine, tool, runs, faults, lost>>
      /\ UNCHANGED <<draining, floor, from, cursor, next, pages, status>>
  BY DEF RecordGap, walk
<1>2. /\ floor # NULL /\ status = "truncated" /\ cursor < from /\ floor \in Nat
      /\ from - 1 \in 1..Len(chain) /\ cursor \in 1..Len(chain)
      /\ watermark = chain[from - 1].block /\ watermark \in Nat /\ watermark # NULL
      /\ chain[cursor].block <= watermark
      /\ chain[cursor].block >= floor /\ chain[cursor].block \in Nat
      /\ \A p \in cursor..(from - 1) : Kept(p)
  <2>1. floor # NULL /\ status = "truncated" /\ cursor < from /\ floor \in Nat
    BY Types DEF Unregistered, ColdStart
  <2>2. from - 1 \in 1..Len(chain) /\ cursor \in 1..Len(chain) /\ cursor <= from - 1
    BY <2>1, Types
  <2>3. watermark = chain[from - 1].block
    BY <1>1 DEF HeadWalk
  <2>4. chain[cursor].block >= floor /\ next = cursor - 1
        /\ \A p \in (next + 1)..(from - 1) : Kept(p)
    BY <1>1, <2>1 DEF Walked
  <2>5. (next + 1)..(from - 1) = cursor..(from - 1)
    BY <2>4, Types
  <2>6. chain[cursor].block <= chain[from - 1].block
    BY <2>2 DEF Ordered
  <2>7. chain[cursor].block \in Nat /\ chain[from - 1].block \in Nat /\ NULL \notin Int
    BY <2>2, Types
  <2> QED
    BY <2>1, <2>2, <2>3, <2>4, <2>5, <2>6, <2>7
<1> DEFINE new == [cursor |-> cursor, floor |-> floor]
           others == OtherFloors(gaps, floor)
<1>3. gaps \in Seq(Gap) /\ new \in Gap /\ new.cursor = cursor /\ new.floor = floor
  BY <1>2, Types DEF TypeOK, Gap
<1>4. Selected(others, gaps, floor)
  BY <1>3, OtherFloorsFacts
<1>5. gaps' = <<new>> \o others
  BY <1>1
<1> HIDE DEF others, new
<1>6. others \in Seq(Gap)
  BY <1>4 DEF Selected
<1>7. /\ gaps' \in Seq(Gap) /\ Len(gaps') = Len(others) + 1 /\ Len(others) \in Nat
      /\ gaps'[1] = new /\ \A m \in 1..Len(others) : gaps'[m + 1] = others[m]
  BY <1>3, <1>5, <1>6
<1>8. PICK at \in [1..Len(others) -> 1..Len(gaps)] :
            /\ \A m, n \in 1..Len(others) : m < n => at[m] < at[n]
            /\ \A m \in 1..Len(others) : others[m] = gaps[at[m]]
  BY <1>4 DEF Selected
<1>9. /\ 1 \in 1..Len(gaps')
      /\ \A m \in 1..Len(others) : m + 1 \in 1..Len(gaps') /\ gaps'[m + 1] = gaps[at[m]]
      /\ \A n \in 1..Len(gaps') : n = 1 \/ (n - 1 \in 1..Len(others) /\ gaps'[n] = gaps[at[n - 1]])
  <2>1. \A m \in 1..Len(others) : m + 1 \in 1..Len(gaps') /\ gaps'[m + 1] = gaps[at[m]]
    BY <1>7, <1>8
  <2>2. \A n \in 1..Len(gaps') : n = 1 \/ (n - 1 \in 1..Len(others) /\ (n - 1) + 1 = n)
    BY <1>7
  <2>3. 1 \in 1..Len(gaps')
    BY <1>7
  <2> QED
    BY <2>1, <2>2, <2>3
<1>10. TypeOK'
  BY <1>1, <1>7 DEF TypeOK
<1>11. GapsFit'
  <2>1. ASSUME NEW n \in 1..Len(gaps')
        PROVE  gaps'[n].cursor \in 1..Len(chain) /\ gaps'[n].floor <= chain[gaps'[n].cursor].block
    <3>1. CASE n = 1
      BY <1>2, <1>3, <1>7, <3>1
    <3>2. CASE n # 1
      <4>1. gaps'[n] = gaps[at[n - 1]] /\ at[n - 1] \in 1..Len(gaps)
        BY <1>8, <1>9, <3>2
      <4> QED
        BY <4>1 DEF GapsFit
    <3> QED
      BY <3>1, <3>2
  <2> QED
    BY <1>1, <1>2, <2>1 DEF GapsFit
<1>12. Ordered' /\ Within' /\ Walked' /\ HeadWalk' /\ Drain' /\ Registering'
  BY <1>1 DEF Ordered, Within, Walked, HeadWalk, Drain, Registering
<1>13. AllSafe'
  <2> SUFFICES ASSUME NEW p \in 1..Len(chain), Reached(p)'
               PROVE  Safe(p)'
    BY <1>1 DEF AllSafe
  <2>1. p \in Nat /\ chain[p].block \in Nat
    BY Types
  <2>2. CASE from <= p
    <3>1. chain[from - 1].block <= chain[p].block
      BY <1>2, <2>1, <2>2, Types DEF Ordered
    <3> QED
      BY <1>1, <1>2, <2>1, <3>1 DEF Safe
  <2>3. CASE p \in cursor..(from - 1)
    BY <1>1, <1>2, <2>3 DEF Safe, Kept, HasRow, SameKey
  <2>4. CASE p < cursor
    <3>1. Reached(p)
      <4>1. CASE \E n \in 1..Len(gaps') : gaps'[n].cursor <= p
        <5>1. PICK n \in 1..Len(gaps') : gaps'[n].cursor <= p
          BY <4>1
        <5>2. n # 1
          BY <1>3, <1>7, <2>1, <2>4, <5>1, Types
        <5>3. at[n - 1] \in 1..Len(gaps) /\ gaps'[n] = gaps[at[n - 1]]
          BY <1>8, <1>9, <5>2
        <5> QED
          BY <5>1, <5>3 DEF Reached
      <4>2. CASE ~\E n \in 1..Len(gaps') : gaps'[n].cursor <= p
        BY <1>1, <4>2 DEF Reached
      <4> QED
        BY <4>1, <4>2
    <3>2. Safe(p)
      BY <1>2, <3>1 DEF AllSafe
    <3>3. chain[p].block >= floor => InGap(p)'
      BY <1>1, <1>3, <1>7, <1>9, <2>4 DEF InGap
    <3>4. InGap(p) => InGap(p)'
      <4> SUFFICES ASSUME NEW i \in 1..Len(gaps), p < gaps[i].cursor,
                          chain[p].block >= gaps[i].floor
                   PROVE  InGap(p)'
        BY DEF InGap
      <4>1. CASE gaps[i].floor = floor
        BY <3>3, <4>1
      <4>2. CASE gaps[i].floor # floor
        <5>1. PICK m \in 1..Len(others) : others[m] = gaps[i]
          BY <1>4, <4>2 DEF Selected
        <5>2. m + 1 \in 1..Len(gaps') /\ gaps'[m + 1] = gaps[i]
          BY <1>7, <1>9, <5>1
        <5> QED
          BY <1>1, <5>2 DEF InGap
      <4> QED
        BY <4>1, <4>2
    <3>5. Pending(p) => InGap(p)'
      BY <3>3 DEF Pending
    <3> QED
      BY <1>1, <3>2, <3>4, <3>5 DEF Safe, Kept, HasRow, SameKey
  <2> QED
    BY <2>1, <2>2, <2>3, <2>4, Types
<1>14. Stacked'
  <2> SUFFICES ASSUME runs = 0 PROVE Stacked'
    BY <1>1 DEF Stacked
  <2>1. /\ tool = NULL
        /\ \A m, n \in 1..Len(gaps) : m < n => chain[gaps[n].cursor].block <= gaps[m].floor
        /\ \A n \in 1..Len(gaps) : /\ chain[gaps[n].cursor].block <= watermark
                                   /\ chain[gaps[n].cursor].block <= floor
    BY <1>1 DEF Stacked
  <2>2. ASSUME NEW m \in 1..Len(gaps'), NEW n \in 1..Len(gaps'), m < n
        PROVE  chain[gaps'[n].cursor].block <= gaps'[m].floor
    <3>0. n # 1 /\ m \in Nat /\ n \in Nat
      BY <1>7, <2>2
    <3>1. n - 1 \in 1..Len(others) /\ gaps'[n] = gaps[at[n - 1]] /\ at[n - 1] \in 1..Len(gaps)
      BY <1>8, <1>9, <3>0
    <3>2. CASE m = 1
      BY <1>3, <1>7, <2>1, <3>1, <3>2
    <3>3. CASE m # 1
      <4>1. m - 1 \in 1..Len(others) /\ gaps'[m] = gaps[at[m - 1]] /\ at[m - 1] \in 1..Len(gaps)
        BY <1>8, <1>9, <3>3
      <4>2. m - 1 < n - 1
        BY <2>2, <3>0
      <4>3. at[m - 1] < at[n - 1]
        BY <1>8, <3>1, <4>1, <4>2
      <4> QED
        BY <2>1, <3>1, <4>1, <4>3
    <3> QED
      BY <3>2, <3>3
  <2>3. ASSUME NEW n \in 1..Len(gaps') PROVE chain[gaps'[n].cursor].block <= watermark
    <3>1. CASE n = 1
      BY <1>2, <1>3, <1>7, <3>1
    <3>2. CASE n # 1
      <4>1. gaps'[n] = gaps[at[n - 1]] /\ at[n - 1] \in 1..Len(gaps)
        BY <1>8, <1>9, <3>2
      <4> QED
        BY <2>1, <4>1
    <3> QED
      BY <3>1, <3>2
  <2> QED
    BY <1>1, <1>2, <2>1, <2>2, <2>3 DEF Stacked
<1> QED
  BY <1>10, <1>11, <1>12, <1>13, <1>14

\* A drain begins where the newest gap's walk has ended.
LEMMA StartGapWalkInv ==
    ASSUME IngestInv, StartGapWalk
    PROVE  IngestInv'
<1> USE DEF IngestInv
<1>1. /\ pc = "loop" /\ budget > 0 /\ mine = gaps /\ gaps # <<>>
      /\ pc' = "fetch" /\ draining' = TRUE /\ pages' = budget /\ status' = "end_of_history"
      /\ floor' = gaps[1].floor /\ from' = gaps[1].cursor /\ cursor' = from' /\ next' = from' - 1
      /\ UNCHANGED <<chain, stored, watermark, gaps, budget, mine, tool, runs, faults, lost>>
  BY DEF StartGapWalk, Drain
<1>2. /\ 1 \in 1..Len(gaps) /\ from' \in 1..Len(chain) /\ floor' \in Nat
      /\ pages' \in Nat /\ pages' >= 1
  <2>1. 1 \in 1..Len(gaps)
    BY <1>1 DEF TypeOK
  <2>2. gaps[1].cursor \in 1..Len(chain)
    BY <2>1 DEF GapsFit
  <2>3. gaps[1].floor \in Nat /\ budget \in Nat
    BY <1>1, <2>1, Types
  <2> QED
    BY <1>1, <2>1, <2>2, <2>3
<1>3. TypeOK'
  <2>1. Len(chain) \in Nat
    BY Types
  <2>2. from' \in 1..(Len(chain) + 1) /\ cursor' \in 1..from' /\ next' \in (cursor' - 1)..(from' - 1)
    BY <1>1, <1>2, <2>1
  <2> QED
    BY <1>1, <1>2, <2>2 DEF TypeOK
<1>4. Walked'
  <2>1. \A p \in (next' + 1)..(from' - 1) : FALSE
    BY <1>1, <1>2
  <2> QED
    BY <1>1, <1>2, <2>1 DEF Walked
<1>5. Ordered' /\ Within' /\ GapsFit' /\ HeadWalk' /\ Drain' /\ Registering' /\ Stacked'
  BY <1>1 DEF Ordered, Within, GapsFit, HeadWalk, Drain, Registering, Stacked
<1>6. AllSafe'
  <2>1. \A p : ~Pending(p)
    BY <1>1 DEF Pending
  <2>2. \A p \in 1..Len(chain) : from' <= p => Reached(p)
    BY <1>1, <1>2 DEF Reached
  <2> QED
    BY <1>1, <2>1, <2>2, QuietSafe
<1> QED
  BY <1>3, <1>4, <1>5, <1>6

\* A drain moves its gap's cursor to where it has come, or takes the gap off
\* the list; what it has read is stored.
LEMMA SettleGapInv ==
    ASSUME IngestInv, SettleGap
    PROVE  IngestInv'
<1> USE DEF IngestInv
<1>1. /\ pc = "store" /\ next < cursor /\ draining /\ mine = gaps
      /\ gaps # <<>> /\ from = gaps[1].cursor /\ floor = gaps[1].floor
      /\ budget' = budget - PagesUsed /\ gaps' = mine'
      /\ UNCHANGED <<chain, stored, watermark, tool, runs, faults, lost>>
      /\ UNCHANGED <<draining, floor, from, cursor, next, pages, status>>
  BY DEF SettleGap, Drain, walk
<1>2. tool = NULL
  BY <1>1 DEF Registering
<1>3. /\ 1 \in 1..Len(gaps) /\ from \in 1..Len(chain) /\ cursor \in 1..Len(chain) /\ cursor <= from
      /\ gaps[1] \in Gap /\ floor \in Nat /\ floor # NULL
      /\ chain[cursor].block \in Nat /\ chain[from].block \in Nat
      /\ chain[cursor].block <= chain[from].block /\ floor <= chain[from].block
      /\ next = cursor - 1
  <2>1. 1 \in 1..Len(gaps)
    BY <1>1 DEF TypeOK
  <2>2. from \in 1..Len(chain) /\ floor <= chain[from].block
    BY <1>1, <2>1 DEF GapsFit
  <2>3. cursor \in 1..Len(chain) /\ cursor <= from /\ next = cursor - 1
    BY <1>1, <2>2, Types
  <2>4. chain[cursor].block <= chain[from].block
    BY <2>2, <2>3 DEF Ordered
  <2>5. chain[cursor].block \in Nat /\ chain[from].block \in Nat
    BY <2>2, <2>3, Types
  <2>6. gaps[1] \in Gap /\ floor \in Nat /\ floor # NULL
    BY <1>1, <2>1, Types
  <2> QED
    BY <2>1, <2>2, <2>3, <2>4, <2>5, <2>6
<1>4. /\ \A p \in cursor..(from - 1) : Kept(p)
      /\ status = "truncated" => chain[cursor].block >= floor
      /\ status # "truncated" => cursor = 1 \/ chain[cursor].block < floor
  <2>1. /\ \A p \in (next + 1)..(from - 1) : Kept(p)
        /\ status = "truncated" /\ cursor < from => chain[cursor].block >= floor
        /\ status = "end_of_history" => cursor = 1
        /\ status = "reached_floor" => chain[cursor].block < floor
    BY <1>1, <1>3 DEF Walked
  <2>2. (next + 1)..(from - 1) = cursor..(from - 1)
    BY <1>3
  <2>3. status \in {"reached_floor", "end_of_history", "truncated"}
    BY DEF TypeOK
  <2>4. status = "truncated" => chain[cursor].block >= floor
    <3>1. CASE cursor = from
      BY <1>3, <3>1
    <3>2. CASE cursor < from
      BY <2>1, <3>2
    <3>3. cursor = from \/ cursor < from
      BY <1>3
    <3> QED
      BY <3>1, <3>2, <3>3
  <2>5. status # "truncated" => cursor = 1 \/ chain[cursor].block < floor
    BY <2>1, <2>3
  <2> QED
    BY <2>1, <2>2, <2>4, <2>5
<1>5. budget' \in Int
  <2>1. PagesUsed \in Int
    BY Types DEF PagesUsed
  <2> QED
    BY <1>1, <2>1, Types
<1>6. \A p : Kept(p)' = Kept(p)
  BY <1>1 DEF Kept, HasRow, SameKey
<1>7. \A p : ~Pending(p)
  BY <1>1 DEF Pending
<1>8. /\ pc' \in {"idle", "loop"} /\ gaps' \in Seq(Gap)
      /\ \A n \in 1..Len(gaps') :
            \/ \E m \in 1..Len(gaps) : gaps'[n] = gaps[m]
            \/ status = "truncated" /\ gaps'[n] = [cursor |-> cursor, floor |-> floor]
      /\ status = "truncated" =>
            \E n \in 1..Len(gaps') : gaps'[n] = [cursor |-> cursor, floor |-> floor]
      /\ \A n \in 2..Len(gaps) : \E m \in 1..Len(gaps') : gaps'[m] = gaps[n]
      /\ \A m, n \in 1..Len(gaps') : m < n =>
            \E k, l \in 1..Len(gaps) : k < l /\ gaps'[n] = gaps[l] /\ gaps'[m].floor = gaps[k].floor
  <2>1. CASE status = "truncated"
    <3>1. gaps' = [gaps EXCEPT ![1].cursor = cursor] /\ pc' = "idle"
      BY <1>1, <2>1 DEF SettleGap
    <3>2. [gaps[1] EXCEPT !.cursor = cursor] = [cursor |-> cursor, floor |-> floor]
      BY <1>1, <1>3 DEF Gap
    <3>3. /\ gaps' \in Seq(Gap) /\ Len(gaps') = Len(gaps) /\ Len(gaps) \in Nat
          /\ gaps'[1] = [cursor |-> cursor, floor |-> floor]
          /\ \A n \in 1..Len(gaps) : n # 1 => gaps'[n] = gaps[n]
      <4>1. gaps \in Seq(Gap) /\ [cursor |-> cursor, floor |-> floor] \in Gap
        BY <1>3, Types DEF TypeOK, Gap
      <4>2. gaps' = [gaps EXCEPT ![1] = [cursor |-> cursor, floor |-> floor]]
        BY <3>1, <3>2
      <4> QED
        BY <1>3, <4>1, <4>2
    <3>4. ASSUME NEW m \in 1..Len(gaps), NEW n \in 1..Len(gaps), m < n
          PROVE  gaps'[n] = gaps[n] /\ gaps'[m].floor = gaps[m].floor
      <4>1. n # 1
        BY <3>4
      <4>2. CASE m = 1
        BY <1>1, <3>3, <4>1, <4>2
      <4>3. CASE m # 1
        BY <3>3, <4>1, <4>3
      <4> QED
        BY <4>2, <4>3
    <3>5. \A m, n \in 1..Len(gaps') : m < n =>
            \E k, l \in 1..Len(gaps) : k < l /\ gaps'[n] = gaps[l] /\ gaps'[m].floor = gaps[k].floor
      BY <3>3, <3>4
    <3>6. \A n \in 1..Len(gaps') :
            \/ \E m \in 1..Len(gaps) : gaps'[n] = gaps[m]
            \/ status = "truncated" /\ gaps'[n] = [cursor |-> cursor, floor |-> floor]
      BY <2>1, <3>3
    <3>7. \A n \in 2..Len(gaps) : n \in 1..Len(gaps') /\ gaps'[n] = gaps[n]
      BY <3>3
    <3>8. 1 \in 1..Len(gaps') /\ gaps'[1] = [cursor |-> cursor, floor |-> floor]
      BY <1>3, <3>3
    <3> QED
      BY <3>1, <3>3, <3>5, <3>6, <3>7, <3>8
  <2>2. CASE status # "truncated"
    <3>1. gaps' = Tail(gaps) /\ pc' = "loop"
      BY <1>1, <2>2 DEF SettleGap
    <3>2. /\ gaps' \in Seq(Gap) /\ Len(gaps') = Len(gaps) - 1 /\ Len(gaps) \in Nat
          /\ \A n \in 1..Len(gaps') : gaps'[n] = gaps[n + 1]
      BY <1>1, <3>1 DEF TypeOK
    <3>3. \A n \in 1..Len(gaps') : n + 1 \in 1..Len(gaps)
      BY <3>2
    <3>4. \A n \in 2..Len(gaps) : n - 1 \in 1..Len(gaps') /\ gaps'[n - 1] = gaps[n]
      BY <3>2
    <3>5. \A m, n \in 1..Len(gaps') : m < n => m + 1 < n + 1
      BY <3>2
    <3> QED
      BY <2>2, <3>1, <3>2, <3>3, <3>4, <3>5
  <2> QED
    BY <2>1, <2>2
<1>9. TypeOK'
  BY <1>1, <1>5, <1>8 DEF TypeOK
<1>10. GapsFit'
  <2>1. ASSUME NEW n \in 1..Len(gaps')
        PROVE  /\ gaps'[n].cursor \in 1..Len(chain)
               /\ gaps'[n].floor <= chain[gaps'[n].cursor].block
               /\ \E m \in 1..Len(gaps) : gaps'[n].floor = gaps[m].floor
    <3>1. CASE \E m \in 1..Len(gaps) : gaps'[n] = gaps[m]
      BY <3>1 DEF GapsFit
    <3>2. CASE status = "truncated" /\ gaps'[n] = [cursor |-> cursor, floor |-> floor]
      BY <1>1, <1>3, <1>4, <3>2
    <3> QED
      BY <1>8, <3>1, <3>2
  <2>2. watermark = NULL =>
            \A n \in 1..Len(gaps') : \E q \in stored : chain[q].block <= gaps'[n].floor
    BY <2>1 DEF GapsFit
  <2> QED
    BY <1>1, <2>1, <2>2 DEF GapsFit
<1>11. Ordered' /\ Within' /\ Walked' /\ HeadWalk' /\ Drain' /\ Registering'
  BY <1>1, <1>2, <1>8 DEF Ordered, Within, Walked, HeadWalk, Drain, Registering
<1>12. AllSafe'
  <2> SUFFICES ASSUME watermark # NULL, NEW p \in 1..Len(chain), Reached(p)'
               PROVE  Safe(p)'
    BY <1>1 DEF AllSafe
  <2>1. p \in Nat /\ chain[p].block \in Nat
    BY Types
  <2>2. CASE p \in cursor..(from - 1)
    BY <1>4, <1>6, <2>2 DEF Safe
  <2>3. CASE p \notin cursor..(from - 1)
    <3>1. Reached(p)
      <4>1. CASE \E n \in 1..Len(gaps') : gaps'[n].cursor <= p
        <5>1. PICK n \in 1..Len(gaps') : gaps'[n].cursor <= p
          BY <4>1
        <5>2. CASE \E m \in 1..Len(gaps) : gaps'[n] = gaps[m]
          BY <5>1, <5>2 DEF Reached
        <5>3. CASE gaps'[n] = [cursor |-> cursor, floor |-> floor]
          <6>1. from <= p
            BY <1>3, <2>1, <2>3, <5>1, <5>3
          <6> QED
            BY <1>1, <1>3, <6>1 DEF Reached
        <5> QED
          BY <1>8, <5>2, <5>3
      <4>2. CASE ~\E n \in 1..Len(gaps') : gaps'[n].cursor <= p
        BY <1>1, <1>8, <4>2 DEF Reached
      <4> QED
        BY <4>1, <4>2
    <3>2. Safe(p) /\ ~Pending(p)
      BY <1>7, <3>1 DEF AllSafe
    <3>3. ASSUME NEW n \in 1..Len(gaps), p < gaps[n].cursor, chain[p].block >= gaps[n].floor
          PROVE  InGap(p)'
      <4>1. CASE n = 1
        <5>1. p < cursor /\ chain[p].block >= floor
          BY <1>1, <1>3, <2>1, <2>3, <3>3, <4>1
        <5>2. chain[p].block <= chain[cursor].block
          BY <1>3, <2>1, <5>1 DEF Ordered
        <5>3. status = "truncated"
          BY <1>3, <1>4, <2>1, <5>1, <5>2
        <5>4. PICK m \in 1..Len(gaps') : gaps'[m] = [cursor |-> cursor, floor |-> floor]
          BY <1>8, <5>3
        <5> QED
          BY <1>1, <5>1, <5>4 DEF InGap
      <4>2. CASE n # 1
        <5>1. n \in 2..Len(gaps)
          BY <4>2
        <5>2. PICK m \in 1..Len(gaps') : gaps'[m] = gaps[n]
          BY <1>8, <5>1
        <5> QED
          BY <1>1, <3>3, <5>2 DEF InGap
      <4> QED
        BY <4>1, <4>2
    <3>4. InGap(p) => InGap(p)'
      BY <3>3 DEF InGap
    <3> QED
      BY <1>1, <1>6, <3>2, <3>4 DEF Safe
  <2> QED
    BY <2>2, <2>3
<1>13. Stacked'
  <2> SUFFICES ASSUME runs = 0 PROVE Stacked'
    BY <1>1 DEF Stacked
  <2>1. /\ \A m, n \in 1..Len(gaps) : m < n => chain[gaps[n].cursor].block <= gaps[m].floor
        /\ \A n \in 1..Len(gaps) : watermark # NULL /\ chain[gaps[n].cursor].block <= watermark
    BY DEF Stacked
  <2>2. \A m, n \in 1..Len(gaps') : m < n => chain[gaps'[n].cursor].block <= gaps'[m].floor
    <3> SUFFICES ASSUME NEW m \in 1..Len(gaps'), NEW n \in 1..Len(gaps'), m < n
                 PROVE  chain[gaps'[n].cursor].block <= gaps'[m].floor
      OBVIOUS
    <3>1. PICK k \in 1..Len(gaps), l \in 1..Len(gaps) :
                k < l /\ gaps'[n] = gaps[l] /\ gaps'[m].floor = gaps[k].floor
      BY <1>8
    <3> QED
      BY <2>1, <3>1
  <2>3. ASSUME NEW n \in 1..Len(gaps')
        PROVE  watermark # NULL /\ chain[gaps'[n].cursor].block <= watermark
    <3>1. CASE \E m \in 1..Len(gaps) : gaps'[n] = gaps[m]
      BY <2>1, <3>1
    <3>2. CASE gaps'[n] = [cursor |-> cursor, floor |-> floor]
      <4>1. watermark # NULL /\ chain[from].block <= watermark
        BY <1>1, <1>3, <2>1
      <4>2. watermark \in Nat
        BY <4>1, Types
      <4> QED
        BY <1>3, <3>2, <4>1, <4>2
    <3> QED
      BY <1>8, <3>1, <3>2
  <2> QED
    BY <1>1, <1>2, <1>8, <2>2, <2>3 DEF Stacked
<1> QED
  BY <1>9, <1>10, <1>11, <1>12, <1>13

-----------------------------------------------------------------------------
\* The tool.

\* A hole lies above a stored row; there are finitely many of them.
LEMMA HoleFacts ==
    ASSUME TypeOK, Ordered
    PROVE  /\ \A h \in Holes :
                /\ h \in Gap
                /\ \E lo \in stored : h.cursor \in (lo + 1)..Len(chain) /\ h.floor = chain[lo].block
           /\ IsFiniteSet(Holes)
<1>1. \A r \in Rewards : r \in stored /\ r \in 1..Len(chain) /\ chain[r].block \in Nat
  BY Types DEF Rewards
<1>2. ASSUME NEW lo \in Rewards, NEW hi \in Rewards, Apart(lo, hi)
      PROVE  lo < hi
  <2>1. HoleBlocks \in Nat /\ chain[hi].block - chain[lo].block > HoleBlocks
    BY <1>2, IngestConstants DEF Apart
  <2>2. hi <= lo => chain[hi].block <= chain[lo].block
    BY <1>1 DEF Ordered
  <2> QED
    BY <1>1, <2>1, <2>2
<1>3. ASSUME NEW h \in Holes
      PROVE  \E lo, hi \in Rewards : Apart(lo, hi) /\ h = [cursor |-> hi, floor |-> chain[lo].block]
  <2>1. PICK d \in Rewards \X Rewards :
            Apart(d[1], d[2]) /\ h = [cursor |-> d[2], floor |-> chain[d[1]].block]
    BY <1>3 DEF Holes
  <2>2. d[1] \in Rewards /\ d[2] \in Rewards
    OBVIOUS
  <2> QED
    BY <2>1, <2>2
<1>4. ASSUME NEW h \in Holes
      PROVE  /\ h \in Gap /\ h.cursor \in 1..Len(chain)
             /\ \E lo \in stored : h.cursor \in (lo + 1)..Len(chain) /\ h.floor = chain[lo].block
  <2>1. PICK lo \in Rewards, hi \in Rewards :
            Apart(lo, hi) /\ h = [cursor |-> hi, floor |-> chain[lo].block]
    BY <1>3
  <2>2. lo < hi /\ lo \in stored /\ lo \in 1..Len(chain) /\ hi \in 1..Len(chain) /\ chain[lo].block \in Nat
    BY <1>1, <1>2, <2>1
  <2>3. hi \in (lo + 1)..Len(chain)
    BY <2>2, Types
  <2> QED
    BY <2>1, <2>2, <2>3 DEF Gap
<1>5. ASSUME NEW g \in Holes, NEW h \in Holes, g.cursor = h.cursor
      PROVE  g = h
  <2>1. PICK k \in Rewards, i \in Rewards :
            Apart(k, i) /\ g = [cursor |-> i, floor |-> chain[k].block]
    BY <1>3
  <2>2. PICK l \in Rewards, j \in Rewards :
            Apart(l, j) /\ h = [cursor |-> j, floor |-> chain[l].block]
    BY <1>3
  <2>3. i = j
    BY <1>5, <2>1, <2>2
  <2>4. (l <= k \/ i <= l) /\ (k <= l \/ i <= k) /\ k < i /\ l < i
    BY <1>2, <2>1, <2>2, <2>3 DEF Apart
  <2>5. k = l
    BY <1>1, <2>4
  <2> QED
    BY <2>1, <2>2, <2>3, <2>5
<1>6. IsFiniteSet(Holes)
  <2> DEFINE at == [h \in Holes |-> h.cursor]
  <2>1. at \in [Holes -> 1..Len(chain)] /\ \A g, h \in Holes : at[g] = at[h] => g = h
    BY <1>4, <1>5
  <2>2. at \in Injection(Holes, 1..Len(chain))
    BY <2>1 DEF Injection, IsInjective
  <2>3. IsFiniteSet(1..Len(chain))
    BY Types, FS_Interval
  <2> QED
    BY <2>2, <2>3, FS_Injection
<1> QED
  BY <1>4, <1>6

LEMMA ToolReadsInv ==
    ASSUME IngestInv, ToolAlone, ToolReads
    PROVE  IngestInv'
<1> USE DEF IngestInv
<1>1. PICK found \in [1..Cardinality(NewHoles) -> NewHoles] :
        /\ \A m, n \in DOMAIN found : m < n => found[m].floor < found[n].floor
        /\ tool' = gaps \o found
  BY DEF ToolReads
<1>2. /\ tool = NULL /\ pc = "idle" /\ runs' = runs + 1
      /\ UNCHANGED <<chain, stored, watermark, gaps, pc, budget, mine, faults, lost>>
      /\ UNCHANGED <<draining, floor, from, cursor, next, pages, status>>
  BY DEF ToolReads, walk
<1>3. /\ IsFiniteSet(NewHoles) /\ NewHoles \subseteq Holes
      /\ \A h \in NewHoles : h \in Gap /\ h.floor \in Nat
  <2>1. NewHoles \in SUBSET Holes
    BY DEF NewHoles
  <2> QED
    BY <2>1, HoleFacts, FS_Subset DEF Gap
<1> DEFINE C == Cardinality(NewHoles)
<1>4. C \in Nat /\ IsFiniteSet(1..C) /\ Cardinality(1..C) = C
  <2>1. C \in Nat
    BY <1>3, FS_CardinalityType
  <2> HIDE DEF C
  <2>2. IsFiniteSet(1..C) /\ Cardinality(1..C) = IF 1 > C THEN 0 ELSE C - 1 + 1
    BY <2>1, FS_Interval
  <2> QED
    BY <2>1, <2>2
<1>5. \A h \in NewHoles : \E n \in 1..C : found[n] = h
  <2>1. \A m, n \in 1..C : found[m] = found[n] => m = n
    <3> SUFFICES ASSUME NEW m \in 1..C, NEW n \in 1..C, m < n PROVE found[m] # found[n]
      BY <1>4
    <3>1. found[m] \in NewHoles /\ found[m].floor \in Nat /\ found[m].floor < found[n].floor
      BY <1>1, <1>3
    <3> QED
      BY <3>1
  <2>2. found \in Injection(1..C, NewHoles)
    BY <2>1 DEF Injection, IsInjective
  <2>3. found \in Surjection(1..C, NewHoles)
    BY <1>3, <1>4, <2>2, FS_Injection
  <2> QED
    BY <2>3 DEF Surjection
<1>6. found \in Seq(Gap) /\ Len(found) = C
  <2>1. found \in [1..C -> Gap]
    BY <1>3
  <2> HIDE DEF C
  <2> QED
    BY <1>4, <2>1
<1> HIDE DEF C
<1>7. /\ tool' \in Seq(Gap) /\ Len(tool') = Len(gaps) + C /\ Len(gaps) \in Nat
      /\ \A n \in 1..Len(gaps) : tool'[n] = gaps[n]
      /\ \A n \in 1..C : tool'[Len(gaps) + n] = found[n]
  BY <1>1, <1>6 DEF TypeOK
<1>8. TypeOK'
  BY <1>2, <1>7 DEF TypeOK
<1>9. Holes' = Holes
  BY <1>2 DEF Holes, Apart, Rewards
<1>10. Registering'
  <2>1. Len(tool') >= Len(gaps)
    BY <1>4, <1>7
  <2>2. ASSUME NEW n \in (Len(gaps) + 1)..Len(tool')
        PROVE  \E lo \in stored : /\ tool'[n].cursor \in (lo + 1)..Len(chain)
                                  /\ tool'[n].floor = chain[lo].block
    <3>1. n - Len(gaps) \in 1..C /\ n = Len(gaps) + (n - Len(gaps))
      BY <1>4, <1>7
    <3>2. tool'[n] = found[n - Len(gaps)]
      BY <1>7, <3>1
    <3>3. tool'[n] \in Holes
      BY <1>3, <3>1, <3>2 DEF C
    <3> QED
      BY <3>3, HoleFacts
  <2>3. ASSUME NEW h \in Holes
        PROVE  \/ \E n \in 1..Len(tool') : tool'[n] = h
               \/ \E n \in 1..Len(gaps) : gaps[n].floor = h.floor
    <3>1. CASE h \in NewHoles
      <4>1. PICK n \in 1..C : found[n] = h
        BY <1>5, <3>1
      <4>2. Len(gaps) + n \in 1..Len(tool') /\ tool'[Len(gaps) + n] = h
        BY <1>4, <1>7, <4>1
      <4> QED
        BY <4>2
    <3>2. CASE h \notin NewHoles
      BY <3>2 DEF NewHoles
    <3> QED
      BY <3>1, <3>2
  <2> QED
    BY <1>2, <1>7, <1>9, <2>1, <2>2, <2>3 DEF Registering
<1>11. Ordered' /\ Within' /\ GapsFit' /\ Walked' /\ HeadWalk' /\ Drain'
  BY <1>2 DEF Ordered, Within, GapsFit, Walked, HeadWalk, Drain
<1>12. AllSafe'
  <2>1. \A p : ~Pending(p)
    BY <1>2 DEF Pending
  <2> QED
    BY <1>2, <2>1, QuietSafe
<1>13. Stacked'
  <2>1. runs' # 0
    BY <1>2 DEF TypeOK
  <2> QED
    BY <2>1 DEF Stacked
<1> QED
  BY <1>8, <1>10, <1>11, <1>12, <1>13

LEMMA ToolWritesInv ==
    ASSUME IngestInv, ToolWrites
    PROVE  IngestInv'
<1> USE DEF IngestInv
<1>1. /\ tool # NULL /\ gaps' = tool /\ tool' = NULL /\ pc = "idle"
      /\ UNCHANGED <<chain, stored, watermark, pc, budget, mine, runs, faults, lost>>
      /\ UNCHANGED <<draining, floor, from, cursor, next, pages, status>>
  BY DEF ToolWrites, walk, Registering
<1>2. /\ tool \in Seq(Gap) /\ Len(tool) \in Nat /\ Len(gaps) \in Nat /\ Len(tool) >= Len(gaps)
      /\ \A n \in 1..Len(gaps) : n \in 1..Len(tool) /\ tool[n] = gaps[n]
      /\ \A n \in (Len(gaps) + 1)..Len(tool) :
            \E lo \in stored : /\ tool[n].cursor \in (lo + 1)..Len(chain)
                               /\ tool[n].floor = chain[lo].block
      /\ \A n \in 1..Len(tool) : n \in 1..Len(gaps) \/ n \in (Len(gaps) + 1)..Len(tool)
  <2>1. tool \in Seq(Gap) /\ Len(gaps) \in Nat
    BY <1>1 DEF TypeOK
  <2>2. /\ Len(tool) >= Len(gaps)
        /\ \A n \in 1..Len(gaps) : tool[n] = gaps[n]
        /\ \A n \in (Len(gaps) + 1)..Len(tool) :
            \E lo \in stored : /\ tool[n].cursor \in (lo + 1)..Len(chain)
                               /\ tool[n].floor = chain[lo].block
    BY <1>1 DEF Registering
  <2>3. Len(tool) \in Nat
    BY <2>1
  <2>4. \A n \in 1..Len(tool) : n \in 1..Len(gaps) \/ n \in (Len(gaps) + 1)..Len(tool)
    BY <2>1, <2>3
  <2>5. \A n \in 1..Len(gaps) : n \in 1..Len(tool)
    BY <2>1, <2>2, <2>3
  <2> QED
    BY <2>1, <2>2, <2>3, <2>4, <2>5
<1>3. TypeOK'
  BY <1>1, <1>2 DEF TypeOK
<1>4. GapsFit'
  <2>1. ASSUME NEW n \in 1..Len(tool)
        PROVE  /\ tool[n].cursor \in 1..Len(chain)
               /\ tool[n].floor <= chain[tool[n].cursor].block
               /\ watermark = NULL => \E q \in stored : chain[q].block <= tool[n].floor
    <3>1. CASE n \in 1..Len(gaps)
      BY <1>2, <3>1 DEF GapsFit
    <3>2. CASE n \in (Len(gaps) + 1)..Len(tool)
      <4>1. PICK lo \in stored : /\ tool[n].cursor \in (lo + 1)..Len(chain)
                                 /\ tool[n].floor = chain[lo].block
        BY <1>2, <3>2
      <4>2. lo \in 1..Len(chain) /\ chain[lo].block \in Nat /\ lo \in Nat
        BY Types
      <4>3. \A c \in (lo + 1)..Len(chain) : c \in 1..Len(chain) /\ lo <= c
        BY <4>2
      <4>4. tool[n].cursor \in 1..Len(chain) /\ lo <= tool[n].cursor
        BY <4>1, <4>3
      <4>5. chain[lo].block <= chain[tool[n].cursor].block
        BY <4>2, <4>4 DEF Ordered
      <4> QED
        BY <4>1, <4>2, <4>4, <4>5
    <3> QED
      BY <1>2, <3>1, <3>2
  <2> QED
    BY <1>1, <2>1 DEF GapsFit
<1>5. Ordered' /\ Within' /\ Walked' /\ HeadWalk' /\ Drain' /\ Registering'
  BY <1>1 DEF Ordered, Within, Walked, HeadWalk, Drain, Registering
<1>6. AllSafe'
  <2> SUFFICES ASSUME watermark # NULL, NEW p \in 1..Len(chain), Reached(p)'
               PROVE  Safe(p)'
    BY <1>1 DEF AllSafe
  <2>1. Reached(p)
    <3>1. CASE \E n \in 1..Len(tool) : tool[n].cursor <= p
      <4>1. PICK n \in 1..Len(tool) : tool[n].cursor <= p
        BY <3>1
      <4>2. CASE n \in 1..Len(gaps)
        BY <1>2, <4>1, <4>2 DEF Reached
      <4>3. CASE n \in (Len(gaps) + 1)..Len(tool)
        <5>1. PICK lo \in stored : tool[n].cursor \in (lo + 1)..Len(chain)
          BY <1>2, <4>3
        <5>2. lo \in Nat /\ p \in Nat /\ Len(chain) \in Nat
          BY Types
        <5>3. tool[n].cursor \in Nat /\ lo < tool[n].cursor
          BY <5>1, <5>2
        <5>4. lo < p
          BY <4>1, <5>2, <5>3
        <5> QED
          BY <5>4 DEF Reached
      <4> QED
        BY <1>2, <4>2, <4>3
    <3>2. CASE ~\E n \in 1..Len(tool) : tool[n].cursor <= p
      BY <1>1, <3>2 DEF Reached
    <3> QED
      BY <3>1, <3>2
  <2>2. Safe(p) /\ ~Pending(p)
    BY <1>1, <2>1 DEF AllSafe, Pending
  <2>3. InGap(p) => InGap(p)'
    BY <1>1, <1>2 DEF InGap
  <2> QED
    BY <1>1, <2>2, <2>3 DEF Safe, Kept, HasRow, SameKey
<1>7. Stacked'
  BY <1>1 DEF Stacked
<1> QED
  BY <1>3, <1>4, <1>5, <1>6, <1>7

-----------------------------------------------------------------------------
LEMMA InitIngestInv ==
    ASSUME Init
    PROVE  IngestInv
<1>1. /\ chain = <<>> /\ stored = {} /\ watermark = NULL /\ gaps = <<>>
      /\ pc = "idle" /\ draining = FALSE /\ floor = NULL
      /\ from = 1 /\ cursor = 1 /\ next = 0 /\ pages = 0 /\ status = "end_of_history"
      /\ budget = 0 /\ mine = <<>>
      /\ tool = NULL /\ runs = 0 /\ faults = 0 /\ lost = {}
  BY DEF Init
<1>2. TypeOK
  <2>1. chain \in Seq(Tx) /\ gaps \in Seq(Gap) /\ mine \in Seq(Gap) /\ Len(chain) = 0
    BY <1>1
  <2>2. from \in 1..(Len(chain) + 1) /\ cursor \in 1..from /\ next \in (cursor - 1)..(from - 1)
    BY <1>1, <2>1
  <2>3. /\ stored \subseteq 1..Len(chain) /\ lost \subseteq 1..Len(chain)
        /\ watermark \in Nat \cup {NULL} /\ floor \in Nat \cup {NULL}
        /\ tool \in Seq(Gap) \cup {NULL}
    BY <1>1
  <2>4. /\ pc \in {"idle", "fetch", "store", "gap", "drain", "loop"}
        /\ pages \in Nat /\ budget \in Int /\ runs \in Nat /\ faults \in Nat
        /\ status \in {"reached_floor", "end_of_history", "truncated"}
    BY <1>1
  <2>5. draining \in BOOLEAN
    BY <1>1, Zenon
  <2> QED
    BY <2>1, <2>2, <2>3, <2>4, <2>5 DEF TypeOK
<1>3. /\ \A p \in 1..Len(chain) : FALSE
      /\ \A n \in 1..Len(gaps) : FALSE
  BY <1>1
<1>4. Ordered /\ Within /\ GapsFit /\ Walked /\ HeadWalk /\ Drain /\ Registering /\ AllSafe
  BY <1>1, <1>3 DEF Ordered, Within, GapsFit, Walked, HeadWalk, Drain, Registering, AllSafe
<1>5. Stacked
  BY <1>1, <1>3 DEF Stacked
<1> QED
  BY <1>2, <1>4, <1>5 DEF IngestInv

LEMMA StutterIngestInv ==
    ASSUME IngestInv, UNCHANGED vars
    PROVE  IngestInv'
<1> USE DEF IngestInv
<1>1. /\ UNCHANGED <<chain, stored, watermark, gaps, pc, budget, mine, tool, runs, faults, lost>>
      /\ UNCHANGED <<draining, floor, from, cursor, next, pages, status>>
  BY DEF vars, walk
<1>2. TypeOK' /\ Ordered' /\ Within' /\ GapsFit' /\ Walked' /\ HeadWalk' /\ Drain'
  <2>1. TypeOK'
    BY <1>1 DEF TypeOK
  <2>2. Ordered' /\ Within' /\ GapsFit'
    BY <1>1 DEF Ordered, Within, GapsFit
  <2>3. Walked'
    BY <1>1 DEF Walked, Kept, HasRow, SameKey
  <2>4. HeadWalk' /\ Drain'
    BY <1>1 DEF HeadWalk, Unregistered, ColdStart, Drain
  <2> QED
    BY <2>1, <2>2, <2>3, <2>4
<1>3. Registering'
  BY <1>1 DEF Registering, Holes, Apart, Rewards
<1>4. AllSafe' /\ Stacked'
  <2>1. AllSafe'
    BY <1>1 DEF AllSafe, Reached, Safe, Kept, HasRow, SameKey, InGap, Pending, Unregistered, ColdStart
  <2>2. Stacked'
    BY <1>1 DEF Stacked, Unregistered, ColdStart
  <2> QED
    BY <2>1, <2>2
<1> QED
  BY <1>2, <1>3, <1>4

LEMMA StepIngestInv ==
    ASSUME IngestInv, ToolAlone, [Next]_vars
    PROVE  IngestInv'
<1>1. CASE UNCHANGED vars
  BY <1>1, StutterIngestInv
<1>2. CASE Ingesting
  <2>1. CASE StartIngest
    BY <2>1, StartInv
  <2>2. CASE FetchPage
    BY <2>2, FetchInv
  <2>3. CASE StoreTx
    BY <2>3, StoreInv
  <2>4. CASE SetWatermark
    BY <2>4, SetWatermarkInv
  <2>5. CASE RecordGap
    BY <2>5, RecordGapInv, BetweenInv
  <2>6. CASE LoadGaps
    BY <2>6, BetweenInv
  <2>7. CASE StartGapWalk
    BY <2>7, StartGapWalkInv
  <2>8. CASE SettleGap
    BY <2>8, SettleGapInv
  <2>9. CASE IngestDone
    BY <2>9, BetweenInv
  <2> QED
    BY <1>2, <2>1, <2>2, <2>3, <2>4, <2>5, <2>6, <2>7, <2>8, <2>9 DEF Ingesting
<1>3. CASE Faults
  BY <1>3, StartInv, FetchInv, AbortInv DEF Faults
<1>4. CASE Tool
  BY <1>4, ToolReadsInv, ToolWritesInv DEF Tool
<1>5. CASE Growth
  <2>1. PICK b \in 1..MaxBlock : \E k \in KindsAt[b] : Produce(b, k)
    BY <1>5 DEF Growth
  <2>2. PICK k \in KindsAt[b] : Produce(b, k)
    BY <2>1
  <2>3. b \in Nat /\ k \in {"reward", "restake", "other"}
    BY IngestConstants
  <2> QED
    BY <2>2, <2>3, ProduceInv
<1> QED
  BY <1>1, <1>2, <1>3, <1>4, <1>5 DEF Next

-----------------------------------------------------------------------------
\* What the walks, the gap list and the tool keep true together, whatever
\* fails: the invariant behind the theorems below.
THEOREM AlwaysIngestInv ==
    ASSUME ToolAlone
    PROVE  Spec => []IngestInv
<1>1. Init => IngestInv
  BY InitIngestInv
<1>2. IngestInv /\ [Next]_vars => IngestInv'
  BY StepIngestInv
<1> QED
  BY <1>1, <1>2, PTL DEF Spec

\* Every walk stays inside the history, and the meta rows and the tool's list
\* are lists of gaps.
THEOREM IngestTypeOK ==
    ASSUME ToolAlone
    PROVE  Spec => []TypeOK
<1>1. IngestInv => TypeOK
  BY DEF IngestInv
<1> QED
  BY <1>1, AlwaysIngestInv, PTL

\* ingest_watermark_block never moves back: SetWatermark compares with the
\* floor the walk was given, and nothing moves the watermark in between.
THEOREM WatermarkAdvancesHolds ==
    ASSUME ToolAlone
    PROVE  Spec => WatermarkAdvances
<1>1. IngestInv /\ [Next]_vars => [watermark # NULL => watermark' >= watermark]_watermark
  <2> SUFFICES ASSUME IngestInv, Next, watermark # NULL, watermark' # watermark
               PROVE  watermark' >= watermark
    BY DEF vars, walk
  <2>1. SetWatermark
    BY DEF Next, Ingesting, StartIngest, StartHeadWalk, FetchPage, StoreTx, RecordGap,
           LoadGaps, StartGapWalk, SettleGap, IngestDone, Faults, StartOutdated, RateLimited,
           FetchFails, Crash, Abort, Tool, ToolReads, ToolWrites, Growth, Produce
  <2>2. /\ watermark' = chain[from - 1].block /\ cursor < from
        /\ ColdStart \/ chain[from - 1].block >= floor
    BY <2>1 DEF SetWatermark
  <2>3. floor = watermark
    BY <2>1 DEF SetWatermark, IngestInv, HeadWalk
  <2> QED
    BY <2>2, <2>3 DEF ColdStart
<1> QED
  BY <1>1, AlwaysIngestInv, PTL DEF Spec, WatermarkAdvances

\* run_ingest, "no outage loses data": whenever the job does not run, all that
\* is claimed has the row of its key (a reward: that of its block), is on the gap
\* list or above the watermark, except what a stop between the commits of the
\* watermark and of the gap has torn.  The code takes no lock against the tool:
\* as long as it is run only while the job does not run.
THEOREM ForgottenOnlyInTearHolds ==
    ASSUME ToolAlone
    PROVE  Spec => []ForgottenOnlyInTear
<1>1. IngestInv => ForgottenOnlyInTear
  <2> SUFFICES ASSUME IngestInv, pc = "idle", NEW p \in Forgotten
               PROVE  p \in lost
    BY DEF ForgottenOnlyInTear
  <2> USE DEF IngestInv
  <2>1. /\ p \in 1..Len(chain) /\ p \in Nat /\ chain[p].block \in Nat /\ ~InGap(p) /\ ~WillBeRead(p)
        /\ ~Kept(p) /\ ~Pending(p)
    BY Types DEF Forgotten, Claimed, Kept, HasRow, SameKey, Pending
  <2>2. PICK q \in stored : q < p
    BY DEF Forgotten, Claimed
  <2>3. CASE watermark # NULL
    <3>1. Safe(p)
      BY <2>1, <2>2, <2>3 DEF AllSafe, Reached
    <3>2. chain[p].block >= watermark => WillBeRead(p)
      BY <2>3, StopBeforeFacts DEF WillBeRead
    <3> QED
      BY <2>1, <3>1, <3>2 DEF Safe
  <2>4. CASE watermark = NULL
    <3>1. /\ StopBefore # NULL /\ OldestStored \in stored /\ OldestStored <= q
          /\ StopBefore = chain[OldestStored].block
      BY <2>2, <2>4, StopBeforeFacts
    <3>2. OldestStored \in 1..Len(chain) /\ OldestStored <= p /\ chain[OldestStored].block \in Nat
      BY <2>1, <2>2, <3>1, Types
    <3>3. chain[p].block >= StopBefore
      BY <2>1, <3>1, <3>2 DEF Ordered
    <3> QED
      BY <2>1, <3>1, <3>3 DEF WillBeRead
  <2> QED
    BY <2>3, <2>4
<1> QED
  BY <1>1, AlwaysIngestInv, PTL

\* _record_gap puts a new gap before the others and the drain takes the first:
\* as long as the tool has added nothing, no stretch is on the list twice.
THEOREM GapsDoNotOverlapHolds ==
    ASSUME ToolAlone
    PROVE  Spec => []GapsDoNotOverlap
<1>1. IngestInv => GapsDoNotOverlap
  BY DEF IngestInv, Stacked, GapsDoNotOverlap
<1> QED
  BY <1>1, AlwaysIngestInv, PTL

\* register_ingest_gaps: when it has written its list, what is forgotten lies
\* in no hole it was asked to register.
THEOREM ToolRepairsHolds ==
    ASSUME ToolAlone
    PROVE  Spec => ToolRepairs
<1>1. IngestInv /\ [Next]_vars =>
        [tool # NULL /\ tool' = NULL => \A p \in Forgotten' : ~InHole(p)]_vars
  <2> SUFFICES ASSUME IngestInv, Next, tool # NULL, tool' = NULL,
                      NEW p \in Forgotten', InHole(p)
               PROVE  FALSE
    OBVIOUS
  <2> USE DEF IngestInv
  <2>1. ToolWrites
    BY DEF Next, Ingesting, StartIngest, StartHeadWalk, FetchPage, StoreTx, SetWatermark, RecordGap,
           LoadGaps, StartGapWalk, SettleGap, IngestDone, Faults, StartOutdated, RateLimited,
           FetchFails, Crash, Abort, Tool, ToolReads, Growth, Produce
  <2>2. gaps' = tool /\ chain' = chain
    BY <2>1 DEF ToolWrites
  <2>3. p \in 1..Len(chain) /\ p \in Nat /\ chain[p].block \in Nat /\ ~InGap(p)'
    BY <2>2, Types DEF Forgotten
  <2>4. PICK lo \in Rewards, hi \in Rewards :
            /\ lo < p /\ p < hi /\ Apart(lo, hi)
            /\ \A n \in 1..Len(gaps) : gaps[n].floor = chain[lo].block => p < gaps[n].cursor
    BY DEF InHole
  <2>5. chain[p].block >= chain[lo].block
    <3>1. lo \in 1..Len(chain) /\ lo <= p /\ chain[lo].block \in Nat
      BY <2>3, <2>4, Types DEF Rewards
    <3> QED
      BY <2>3, <3>1 DEF Ordered
  <2>6. [cursor |-> hi, floor |-> chain[lo].block] \in Holes
    <3>1. <<lo, hi>> \in {d \in Rewards \X Rewards : Apart(d[1], d[2])}
      BY <2>4
    <3> QED
      BY <3>1 DEF Holes
  <2>7. CASE \E n \in 1..Len(tool) : tool[n] = [cursor |-> hi, floor |-> chain[lo].block]
    BY <2>2, <2>3, <2>4, <2>5, <2>7 DEF InGap
  <2>8. CASE \E n \in 1..Len(gaps) : gaps[n].floor = chain[lo].block
    <3>1. PICK n \in 1..Len(gaps) : gaps[n].floor = chain[lo].block
      BY <2>8
    <3>2. n \in 1..Len(tool) /\ tool[n] = gaps[n]
      <4>1. tool \in Seq(Gap) /\ Len(gaps) \in Nat
        BY DEF TypeOK
      <4>2. Len(tool) >= Len(gaps) /\ tool[n] = gaps[n]
        BY <3>1 DEF Registering
      <4> QED
        BY <4>1, <4>2
    <3> QED
      BY <2>2, <2>3, <2>4, <2>5, <3>1, <3>2 DEF InGap
  <2> QED
    BY <2>6, <2>7, <2>8 DEF Registering
<1> QED
  BY <1>1, AlwaysIngestInv, PTL DEF Spec, ToolRepairs
=============================================================================

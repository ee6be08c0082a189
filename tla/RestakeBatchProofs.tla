------------------------- MODULE RestakeBatchProofs -------------------------
(***************************************************************************)
(* Every window ends on a row of its own and holds rows of one batch, for  *)
(* any gap, fetch limit and order in which rows arrive or a gap is         *)
(* drained; and a batch is closed whole if the fetch reaches past it.      *)
(***************************************************************************)
EXTENDS RestakeBatch, SequenceTheorems, FiniteSetTheorems, WellFoundedInduction, TLAPS

Rows == 1..Len(table)

Typed ==
    /\ table \in Seq(Nat) /\ behind \in Seq(Nat)
    /\ ends \in Seq(Nat) /\ ends # <<>>
    /\ pc \in {"idle", "scan"} /\ start \in Nat

Sorted == \A n, m \in Rows : n <= m => table[n] <= table[m]

\* The scan has passed over no row of this window, or it stands on a row that is
\* in one batch with every row of the window it has passed.
Untouched == \A n \in Rows : ~(Opener < table[n] /\ table[n] < start)
Together(block) ==
    \A n \in 1..(Len(table) - 1) :
        Opener < table[n] /\ table[n + 1] <= block => table[n + 1] - table[n] <= Gap
OneBatch == (\E n \in Rows : table[n] = start) /\ Together(start)

Scanned == pc = "scan" => Opener < start /\ (Untouched \/ OneBatch)

IInv == Typed /\ Sorted /\ WindowsAreOwn /\ Scanned

-----------------------------------------------------------------------------
\* Facts about the operators.

\* A non-empty set of positions has a first one, and Min picks it.
LEMMA MinIsLeast ==
    ASSUME NEW S \in SUBSET Nat, S # {}
    PROVE  Min(S) \in S /\ \A m \in S : Min(S) <= m
<1> DEFINE less == OpToRel(<, Nat)
<1>1. \A x, y \in Nat : x < y => <<x, y>> \in less
  BY DEF OpToRel
<1>2. IsWellFoundedOn(less, Nat)
  BY NatLessThanWellFounded
<1> HIDE DEF less
<1>3. PICK k \in S : \A m \in S : ~(<<m, k>> \in less)
  BY <1>2, WFMin
<1>4. \A m \in S : k <= m
  <2> TAKE m \in S
  <2>1. ~(m < k)
    BY <1>1, <1>3
  <2> QED
    BY <2>1
<1> QED
  BY <1>4 DEF Min

\* In a sorted table, Before(b) is the position of the last row before block b.
LEMMA BeforeFacts ==
    ASSUME Typed, Sorted, NEW b \in Nat
    PROVE  /\ Before(b) \in 0..Len(table)
           /\ \A n \in Rows : table[n] < b <=> n <= Before(b)
<1> DEFINE low == {n \in 1..Len(table) : table[n] < b}
           high == {n \in Rows : ~(table[n] < b)}
<1>1. Len(table) \in Nat /\ \A n \in Rows : table[n] \in Nat
  BY DEF Typed, Rows
<1>2. \E k \in 0..Len(table) : \A n \in Rows : table[n] < b <=> n <= k
  <2>1. CASE high = {}
    <3>1. \A n \in Rows : table[n] < b <=> n <= Len(table)
      BY <2>1 DEF Rows
    <3> QED
      BY <1>1, <3>1
  <2>2. CASE high # {}
    <3>1. high \in SUBSET Nat
      BY <1>1 DEF Rows
    <3> HIDE DEF high
    <3>2. Min(high) \in high /\ \A m \in high : Min(high) <= m
      BY <2>2, <3>1, MinIsLeast
    <3>3. Min(high) \in Rows /\ ~(table[Min(high)] < b)
      BY <3>2 DEF high
    <3>4. Min(high) - 1 \in 0..Len(table)
      BY <1>1, <3>3 DEF Rows
    <3>5. ASSUME NEW n \in Rows PROVE table[n] < b <=> n <= Min(high) - 1
      <4>1. n \in Int /\ Min(high) \in Int /\ table[n] \in Nat /\ table[Min(high)] \in Nat
        BY <1>1, <3>3 DEF Rows
      <4>2. ~(table[n] < b) => Min(high) <= n
        BY <3>2 DEF high
      <4>3. Min(high) <= n => table[Min(high)] <= table[n]
        BY <3>3 DEF Sorted
      <4> QED
        BY <3>3, <4>1, <4>2, <4>3
    <3> QED
      BY <3>4, <3>5
  <2> QED
    BY <2>1, <2>2
<1>3. PICK k \in 0..Len(table) : \A n \in Rows : table[n] < b <=> n <= k
  BY <1>2
<1>4. low = 1..k
  BY <1>1, <1>3 DEF Rows
<1>5. Cardinality(1..k) = k
  BY <1>1, <1>3, FS_Interval
<1>6. Before(b) = k
  BY <1>4, <1>5 DEF Before
<1> QED
  BY <1>3, <1>6

\* The rows of a fetch are those from position First on, up to position Final.
First == Before(start) + 1
Final == Min({Before(start + Limit), Before(start) + Limit})

LEMMA FetchFacts ==
    ASSUME Typed, Sorted
    PROVE  /\ First \in 1..(Len(table) + 1) /\ Final \in (First - 1)..Len(table)
           /\ \A n \in Rows : table[n] < start <=> n < First
           /\ \A n \in Rows : n <= Final => table[n] < start + Limit
           /\ Final + 1 - First < Limit =>
                \A n \in Rows : table[n] < start + Limit => n <= Final
           /\ Len(Fetched) = Final + 1 - First
           /\ \A k \in 1..Len(Fetched) : Fetched[k] = table[First + k - 1]
           /\ Fetched = <<>> => First = Final + 1
<1> DEFINE a == Before(start)
           c == Before(start + Limit)
<1>1. Limit \in Nat /\ Limit >= 2 /\ start \in Nat /\ start + Limit \in Nat /\ Len(table) \in Nat
  BY BatchConstants DEF Typed
<1>2. a \in 0..Len(table) /\ \A n \in Rows : table[n] < start <=> n <= a
  BY <1>1, BeforeFacts
<1>3. c \in 0..Len(table) /\ \A n \in Rows : table[n] < start + Limit <=> n <= c
  BY <1>1, BeforeFacts
<1>4. a <= c
  <2>1. CASE a = 0
    BY <1>3, <2>1
  <2>2. CASE a # 0
    <3>1. a \in Rows /\ table[a] \in Nat
      BY <1>1, <1>2, <2>2 DEF Rows, Typed
    <3>2. table[a] < start + Limit
      BY <1>1, <1>2, <3>1
    <3> QED
      BY <1>3, <3>1, <3>2
  <2> QED
    BY <2>1, <2>2
<1>5. Final \in {c, a + Limit} /\ Final <= c /\ Final <= a + Limit
  <2>1. {c, a + Limit} \in SUBSET Nat
    BY <1>1, <1>2, <1>3
  <2> HIDE DEF a, c
  <2>2. Min({c, a + Limit}) \in {c, a + Limit} /\ \A m \in {c, a + Limit} : Min({c, a + Limit}) <= m
    BY <2>1, MinIsLeast
  <2> QED
    BY <2>2 DEF Final, a, c
<1> HIDE DEF a, c
<1>6. First = a + 1
  BY DEF First, a
<1>7. a \in Nat /\ c \in Nat /\ a <= Len(table) /\ c <= Len(table)
  BY <1>1, <1>2, <1>3
<1>8. First \in 1..(Len(table) + 1) /\ Final \in (First - 1)..Len(table)
  BY <1>1, <1>4, <1>5, <1>6, <1>7
<1>9. Fetched = SubSeq(table, First, Final)
  BY DEF Fetched, First, Final
<1>10. table \in Seq(Nat)
  BY DEF Typed
<1>11. /\ Len(Fetched) = Final + 1 - First
       /\ \A k \in 1..Len(Fetched) : Fetched[k] = table[First + k - 1]
  <2> HIDE DEF First, Final
  <2> QED
    BY <1>1, <1>8, <1>9, <1>10
<1>12. \A n \in Rows : n \in Int
  BY <1>1 DEF Rows
<1>13. \A n \in Rows : table[n] < start <=> n < First
  BY <1>2, <1>6, <1>7, <1>12
<1>14. \A n \in Rows : n <= Final => table[n] < start + Limit
  <2>1. Final \in Int
    BY <1>1, <1>5, <1>7
  <2> QED
    BY <1>3, <1>5, <1>7, <1>12, <2>1
<1>15. Final + 1 - First < Limit => \A n \in Rows : table[n] < start + Limit => n <= Final
  <2>1. Final + 1 - First < Limit => Final = c
    BY <1>1, <1>5, <1>6, <1>7
  <2> QED
    BY <1>3, <2>1
<1>16. Fetched = <<>> => First = Final + 1
  <2>1. Fetched = <<>> => Len(Fetched) = 0
    OBVIOUS
  <2> QED
    BY <1>1, <1>8, <1>11, <2>1
<1> QED
  BY <1>8, <1>11, <1>13, <1>14, <1>15, <1>16

\* A batch ends at a row of the fetch; the rows up to it are together, and the
\* next row of the fetch, if there is one, is not.
LEMMA BatchEndFacts ==
    ASSUME Typed, Sorted, Fetched # <<>>
    PROVE  \E e \in First..Final :
              /\ BatchEnd(Fetched) = table[e]
              /\ \A n \in First..(e - 1) : table[n + 1] - table[n] <= Gap
              /\ e < Final => table[e + 1] - table[e] > Gap
              /\ Boundaries(Fetched) = {} => e = Final
<1> DEFINE len == Len(Fetched)
           cuts == Boundaries(Fetched)
<1>1. /\ First \in Nat /\ Final \in Nat /\ Final <= Len(table) /\ First >= 1
      /\ len = Final + 1 - First /\ Len(table) \in Nat
      /\ \A k \in 1..len : Fetched[k] = table[First + k - 1]
      /\ \A n \in Rows : table[n] \in Nat
  <2>1. Len(table) \in Nat /\ \A n \in Rows : table[n] \in Nat
    BY DEF Typed, Rows
  <2>2. First \in 1..(Len(table) + 1) /\ Final \in (First - 1)..Len(table)
    BY FetchFacts
  <2> HIDE DEF First, Final
  <2> QED
    BY <2>1, <2>2, FetchFacts
<1>2. len \in Nat /\ len >= 1
  <2>1. Fetched \in Seq(Nat)
    <3>1. table \in Seq(Nat)
      BY DEF Typed
    <3>2. First \in 1..(Len(table) + 1) /\ Final \in (First - 1)..Len(table)
      BY FetchFacts
    <3>3. Fetched = SubSeq(table, First, Final)
      BY DEF Fetched, First, Final
    <3> HIDE DEF First, Final
    <3> QED
      BY <3>1, <3>2, <3>3, SubSeqProperties
  <2> QED
    BY <2>1
<1>3. cuts = {k \in 1..(len - 1) : Fetched[k + 1] - Fetched[k] > Gap}
  BY DEF Boundaries
<1> HIDE DEF len
<1>4. ASSUME NEW k \in 1..(len - 1)
      PROVE  /\ Fetched[k] = table[First + k - 1] /\ Fetched[k + 1] = table[First + k]
             /\ First + k - 1 \in Rows /\ First + k \in Rows
  <2>1. k \in 1..len /\ k + 1 \in 1..len /\ First + (k + 1) - 1 = First + k
    BY <1>1, <1>2
  <2>2. First + k - 1 \in Rows /\ First + k \in Rows
    BY <1>1, <1>2 DEF Rows
  <2> QED
    BY <1>1, <2>1, <2>2
<1>5. \A n \in First..(Final - 1) : n + 1 - First \in 1..(len - 1) /\ First + (n + 1 - First) - 1 = n
                                  /\ First + (n + 1 - First) = n + 1
  BY <1>1
<1>6. CASE cuts = {}
  <2>1. Final \in First..Final
    BY <1>1, <1>2
  <2>2. BatchEnd(Fetched) = table[Final]
    <3>1. BatchEnd(Fetched) = Fetched[len]
      BY <1>6 DEF BatchEnd, Last, len
    <3>2. len \in 1..len /\ First + len - 1 = Final
      BY <1>1, <1>2
    <3> QED
      BY <1>1, <3>1, <3>2
  <2>3. ASSUME NEW n \in First..(Final - 1) PROVE table[n + 1] - table[n] <= Gap
    <3>1. n + 1 - First \in 1..(len - 1)
      BY <1>5
    <3>2. ~(Fetched[n + 1 - First + 1] - Fetched[n + 1 - First] > Gap)
      BY <1>3, <1>6, <3>1
    <3>3. /\ Fetched[n + 1 - First] = table[n] /\ Fetched[n + 1 - First + 1] = table[n + 1]
          /\ n \in Rows /\ n + 1 \in Rows
      BY <1>4, <1>5, <3>1
    <3>4. table[n] \in Nat /\ table[n + 1] \in Nat /\ Gap \in Nat
      BY <1>1, <3>3, BatchConstants
    <3> QED
      BY <3>2, <3>3, <3>4
  <2>4. ~(Final < Final)
    BY <1>1
  <2> QED
    BY <2>1, <2>2, <2>3, <2>4
<1>7. CASE cuts # {}
  <2>1. cuts \in SUBSET Nat
    BY <1>2, <1>3
  <2> HIDE DEF cuts
  <2>2. Min(cuts) \in cuts /\ \A m \in cuts : Min(cuts) <= m
    BY <1>7, <2>1, MinIsLeast
  <2> DEFINE k == Min(cuts)
             e == First + k - 1
  <2>3. k \in 1..(len - 1) /\ Fetched[k + 1] - Fetched[k] > Gap
    BY <1>3, <2>2
  <2>4. e \in First..Final /\ e < Final /\ e + 1 = First + k /\ e \in Int
    BY <1>1, <1>2, <2>3
  <2>5. Fetched[k] = table[e] /\ Fetched[k + 1] = table[e + 1]
    BY <1>4, <2>3, <2>4
  <2>6. BatchEnd(Fetched) = table[e]
    BY <1>7, <2>5 DEF BatchEnd, cuts
  <2>7. ASSUME NEW n \in First..(e - 1) PROVE table[n + 1] - table[n] <= Gap
    <3>1. n \in First..(Final - 1) /\ n + 1 - First < k /\ n + 1 - First \in Int
      BY <1>1, <2>3, <2>4
    <3>2. n + 1 - First \in 1..(len - 1)
      BY <1>5, <3>1
    <3>3. n + 1 - First \notin cuts
      <4>1. k \in Int
        BY <2>3
      <4> HIDE DEF k
      <4> QED
        BY <2>2, <3>1, <4>1 DEF k
    <3>4. ~(Fetched[n + 1 - First + 1] - Fetched[n + 1 - First] > Gap)
      BY <1>3, <3>2, <3>3
    <3>5. /\ Fetched[n + 1 - First] = table[n] /\ Fetched[n + 1 - First + 1] = table[n + 1]
          /\ n \in Rows /\ n + 1 \in Rows
      BY <1>4, <1>5, <3>1, <3>2
    <3>6. table[n] \in Nat /\ table[n + 1] \in Nat /\ Gap \in Nat
      BY <1>1, <3>5, BatchConstants
    <3> QED
      BY <3>4, <3>5, <3>6
  <2> HIDE DEF k, e
  <2>8. table[e + 1] - table[e] > Gap
    BY <2>3, <2>5
  <2>9. Boundaries(Fetched) # {}
    BY <1>7 DEF cuts
  <2> QED
    BY <2>4, <2>6, <2>7, <2>8, <2>9
<1> QED
  BY <1>6, <1>7

\* What InsertAt puts where.
LEMMA InsertFacts ==
    ASSUME NEW s \in Seq(Nat), NEW i \in 1..(Len(s) + 1), NEW b \in Nat
    PROVE  /\ InsertAt(s, i, b) \in Seq(Nat) /\ Len(InsertAt(s, i, b)) = Len(s) + 1
           /\ \A k \in 1..(i - 1) : InsertAt(s, i, b)[k] = s[k]
           /\ InsertAt(s, i, b)[i] = b
           /\ \A k \in i..Len(s) : InsertAt(s, i, b)[k + 1] = s[k]
<1> DEFINE front == SubSeq(s, 1, i - 1)
           back == SubSeq(s, i, Len(s))
<1>1. i \in Int /\ i - 1 \in Int /\ Len(s) \in Nat /\ Len(s) \in Int /\ 1 \in Int /\ i - 1 <= Len(s) /\ 1 <= i
      /\ \A k \in 1..Len(s) : s[k] \in Nat
  OBVIOUS
<1>2. /\ front \in Seq(Nat) /\ Len(front) = i - 1
      /\ \A k \in 1..(i - 1) : front[k] = s[k]
  <2>1. \A k \in 1..(i - 1) : s[k] \in Nat /\ k \in Int
    BY <1>1
  <2>2. /\ front \in Seq(Nat) /\ Len(front) = IF 1 <= i - 1 THEN i - 1 - 1 + 1 ELSE 0
        /\ \A k \in 1..(i - 1 - 1 + 1) : front[k] = s[1 + k - 1]
    BY <1>1, <2>1, SubSeqProperties
  <2> HIDE DEF front
  <2>3. Len(front) = i - 1
    BY <1>1, <2>2
  <2>4. \A k \in 1..(i - 1) : k \in 1..(i - 1 - 1 + 1) /\ 1 + k - 1 = k
    BY <1>1
  <2> QED
    BY <2>2, <2>3, <2>4
<1>3. /\ back \in Seq(Nat) /\ Len(back) = Len(s) + 1 - i
      /\ \A k \in i..Len(s) : back[k + 1 - i] = s[k]
  <2>1. \A k \in i..Len(s) : s[k] \in Nat /\ k \in Int
    BY <1>1
  <2>2. /\ back \in Seq(Nat) /\ Len(back) = IF i <= Len(s) THEN Len(s) - i + 1 ELSE 0
        /\ \A k \in 1..(Len(s) - i + 1) : back[k] = s[i + k - 1]
    BY <1>1, <2>1, SubSeqProperties
  <2> HIDE DEF back
  <2>3. Len(back) = Len(s) + 1 - i
    BY <1>1, <2>2
  <2>4. \A k \in i..Len(s) : k + 1 - i \in 1..(Len(s) - i + 1) /\ i + (k + 1 - i) - 1 = k
    BY <1>1
  <2> QED
    BY <2>2, <2>3, <2>4
<1>4. InsertAt(s, i, b) = (front \o <<b>>) \o back
  BY DEF InsertAt
<1> HIDE DEF front, back
<1> DEFINE half == front \o <<b>>
<1>5. /\ half \in Seq(Nat) /\ Len(half) = i
      /\ \A k \in 1..(i - 1) : half[k] = front[k]
      /\ half[i] = b
  <2>1. <<b>> \in Seq(Nat) /\ Len(<<b>>) = 1 /\ <<b>>[1] = b
    OBVIOUS
  <2>2. /\ half \in Seq(Nat) /\ Len(half) = Len(front) + Len(<<b>>)
        /\ \A k \in 1..(Len(front) + Len(<<b>>)) :
              half[k] = IF k <= Len(front) THEN front[k] ELSE <<b>>[k - Len(front)]
    BY <1>2, <2>1, ConcatProperties
  <2> HIDE DEF half
  <2>3. i \in 1..(Len(front) + Len(<<b>>)) /\ ~(i <= Len(front)) /\ i - Len(front) = 1
    BY <1>1, <1>2, <2>1
  <2>4. \A k \in 1..(i - 1) : k \in 1..(Len(front) + Len(<<b>>)) /\ k <= Len(front)
    BY <1>1, <1>2, <2>1
  <2>5. Len(front) + Len(<<b>>) = i
    BY <1>1, <1>2, <2>1
  <2> QED
    BY <2>1, <2>2, <2>3, <2>4, <2>5
<1> HIDE DEF half
<1>6. /\ half \o back \in Seq(Nat) /\ Len(half \o back) = Len(s) + 1
      /\ \A k \in 1..i : (half \o back)[k] = half[k]
      /\ \A k \in i..Len(s) : (half \o back)[k + 1] = back[k + 1 - i]
  <2>1. \A k \in i..Len(s) : k + 1 \in 1..(Len(half) + Len(back)) /\ ~(k + 1 <= Len(half)) /\ k + 1 - Len(half) = k + 1 - i
    BY <1>1, <1>3, <1>5
  <2>2. \A k \in 1..i : k \in 1..(Len(half) + Len(back)) /\ k <= Len(half)
    BY <1>1, <1>3, <1>5
  <2>3. Len(half) + Len(back) = Len(s) + 1
    BY <1>1, <1>3, <1>5
  <2> QED
    <3>1. /\ half \o back \in Seq(Nat) /\ Len(half \o back) = Len(half) + Len(back)
          /\ \A k \in 1..(Len(half) + Len(back)) :
                (half \o back)[k] = IF k <= Len(half) THEN half[k] ELSE back[k - Len(half)]
      BY <1>3, <1>5, ConcatProperties
    <3> DEFINE t == half \o back
    <3>2. \A k \in i..Len(s) : t[k + 1] = back[k + 1 - Len(half)]
      BY <2>1, <3>1
    <3>3. \A k \in 1..i : t[k] = half[k]
      BY <2>2, <3>1
    <3> HIDE DEF t
    <3>4. \A k \in i..Len(s) : t[k + 1] = back[k + 1 - i]
      BY <2>1, <3>2
    <3> QED
      BY <2>3, <3>1, <3>3, <3>4 DEF t
<1>7. \A k \in 1..(i - 1) : k \in 1..i
  BY <1>1
<1>8. i \in 1..i
  BY <1>1
<1>9. InsertAt(s, i, b) = half \o back
  BY <1>4 DEF half
<1> QED
  BY <1>2, <1>3, <1>5, <1>6, <1>7, <1>8, <1>9

-----------------------------------------------------------------------------
\* The invariant.

LEMMA InitIInv == Init => IInv
<1> SUFFICES ASSUME Init PROVE IInv
  OBVIOUS
<1>1. table = <<>> /\ behind = <<>> /\ ends = <<0>> /\ pc = "idle" /\ start = 0
  BY DEF Init
<1>2. Len(table) = 0 /\ Len(ends) = 1 /\ ends # <<>> /\ ends \in Seq(Nat)
  BY <1>1
<1>3. \A n \in 1..0 : FALSE
  OBVIOUS
<1>4. \A w \in 1..(1 - 1) : FALSE
  OBVIOUS
<1> QED
  BY <1>1, <1>2, <1>3, <1>4 DEF IInv, Typed, Sorted, Rows, WindowsAreOwn, Scanned

LEMMA OpenerType ==
    ASSUME Typed
    PROVE  Opener \in Nat /\ Len(ends) \in Nat /\ Len(ends) >= 1 /\ Opener = ends[Len(ends)]
<1>1. ends \in Seq(Nat) /\ ends # <<>>
  BY DEF Typed
<1> QED
  BY <1>1 DEF Opener, Last

\* The table grows in order and loses no row.
Grows ==
    /\ table' \in Seq(Nat) /\ Sorted'
    /\ \A n \in Rows : \E m \in Rows' : table'[m] = table[n]

LEMMA GrowingKeepsIInv ==
    ASSUME IInv, Grows, pc = "idle", behind' \in Seq(Nat), UNCHANGED <<ends, pc, start>>
    PROVE  IInv'
<1>1. Typed'
  BY DEF IInv, Typed, Grows
<1>2. WindowsAreOwn'
  <2>1. \A w \in 1..(Len(ends) - 1) :
          ends[w] < ends[w + 1] /\ \E n \in Rows : table[n] = ends[w + 1]
    BY DEF IInv, WindowsAreOwn, Rows
  <2>2. \A w \in 1..(Len(ends) - 1) :
          ends[w] < ends[w + 1] /\ \E n \in Rows' : table'[n] = ends[w + 1]
    BY <2>1 DEF Grows
  <2> QED
    BY <2>2 DEF WindowsAreOwn, Rows
<1> QED
  BY <1>1, <1>2 DEF IInv, Grows, Scanned

\* A row that is not older than the newest one is added at the end.
LEMMA AppendGrows ==
    ASSUME Typed, Sorted, NEW b \in Nat, table # <<>> => b >= Last(table),
           table' = Append(table, b)
    PROVE  Grows
<1>1. table \in Seq(Nat) /\ Len(table) \in Nat /\ \A n \in Rows : table[n] \in Nat
  BY DEF Typed, Rows
<1>2. /\ table' \in Seq(Nat) /\ Len(table') = Len(table) + 1
      /\ \A n \in Rows : table'[n] = table[n]
      /\ table'[Len(table) + 1] = b
  BY <1>1 DEF Rows
<1>3. Rows' = 1..(Len(table) + 1) /\ \A n \in Rows : n \in Rows'
  BY <1>1, <1>2 DEF Rows
<1>4. \A n \in Rows : table[n] <= b
  <2> SUFFICES ASSUME NEW n \in Rows PROVE table[n] <= b
    OBVIOUS
  <2>1. Len(table) \in Rows /\ n <= Len(table) /\ table # <<>>
    BY <1>1 DEF Rows
  <2>2. table[n] <= table[Len(table)]
    BY <2>1 DEF Sorted
  <2>3. b >= table[Len(table)]
    BY <2>1 DEF Last
  <2> QED
    BY <1>1, <2>1, <2>2, <2>3
<1>5. ASSUME NEW n \in 1..(Len(table) + 1), NEW m \in 1..(Len(table) + 1), n <= m
      PROVE  table'[n] <= table'[m]
  <2>1. n \in Rows \/ n = Len(table) + 1
    BY <1>1 DEF Rows
  <2>2. m \in Rows \/ m = Len(table) + 1
    BY <1>1 DEF Rows
  <2>3. m \in Rows => n \in Rows
    BY <1>1, <1>5 DEF Rows
  <2> QED
    BY <1>2, <1>4, <1>5, <2>1, <2>2, <2>3 DEF Sorted
<1> QED
  BY <1>2, <1>3, <1>5 DEF Grows, Sorted

\* Rows that a head walk leaves behind are in chain order, up to the row it got.
LEMMA ChainOrder ==
    ASSUME NEW s \in Seq(Nat), Len(s) >= 1, \A n \in 1..(Len(s) - 1) : s[n] <= s[n + 1]
    PROVE  s[1] <= s[Len(s)]
<1> DEFINE below == {n \in 1..Len(s) : s[n] < s[1]}
<1>1. Len(s) \in Nat /\ 1 \in 1..Len(s) /\ Len(s) \in 1..Len(s) /\ \A n \in 1..Len(s) : s[n] \in Nat
  OBVIOUS
<1>2. below = {}
  <2> SUFFICES ASSUME below # {} PROVE FALSE
    OBVIOUS
  <2>1. below \in SUBSET Nat
    BY <1>1
  <2> HIDE DEF below
  <2>2. Min(below) \in below /\ \A n \in below : Min(below) <= n
    BY <2>1, MinIsLeast
  <2> DEFINE k == Min(below)
  <2>3. k \in 1..Len(s) /\ s[k] < s[1]
    BY <2>2 DEF below
  <2>4. k # 1
    BY <1>1, <2>3
  <2>5. k - 1 \in 1..(Len(s) - 1) /\ k - 1 \in 1..Len(s) /\ k - 1 + 1 = k
    BY <1>1, <2>3, <2>4
  <2>6. s[k - 1] <= s[k]
    BY <2>5
  <2> HIDE DEF k
  <2>7. k - 1 \in below
    <3>1. s[k - 1] \in Nat /\ s[k] \in Nat /\ s[1] \in Nat
      BY <1>1, <2>3, <2>5
    <3>2. s[k - 1] < s[1]
      BY <2>3, <2>6, <3>1
    <3> QED
      BY <2>5, <3>2 DEF below
  <2>8. k <= k - 1
    BY <2>2, <2>7 DEF k
  <2> QED
    BY <2>3, <2>8
<1> QED
  BY <1>1, <1>2

LEMMA IngestedKeepsIInv ==
    ASSUME IInv, Ingested
    PROVE  IInv'
<1>1. ASSUME NEW b \in 1..MaxBlock, Arrive(b) PROVE IInv'
  <2>1. b \in Nat /\ pc = "idle" /\ b >= Newest(table) /\ table' = Append(table, b)
    BY <1>1, BatchConstants DEF Arrive, New
  <2>2. Grows
    BY <2>1, AppendGrows DEF IInv, Newest
  <2> QED
    BY <1>1, <2>1, <2>2, GrowingKeepsIInv DEF Arrive, IInv, Typed
<1>2. ASSUME NEW b \in 1..MaxBlock, NEW m \in 1..MaxMissed, NEW missed \in [1..m -> 1..MaxBlock],
             FallBehind(missed, b)
      PROVE  IInv'
  <2>1. m \in Nat /\ b \in Nat /\ \A x \in 1..MaxBlock : x \in Nat
    BY BatchConstants
  <2>2. missed \in Seq(Nat) /\ Len(missed) = m
    <3>1. missed \in [1..m -> Nat]
      BY <2>1
    <3>2. missed \in Seq(Nat)
      BY <2>1, <3>1, IsASeq
    <3>3. Len(missed) = m
      BY <2>1, <3>2, LenProperties
    <3> QED
      BY <3>2, <3>3
  <2> DEFINE all == Append(missed, b)
  <2>3. /\ all \in Seq(Nat) /\ Len(all) = m + 1 /\ all[m + 1] = b
        /\ \A n \in 1..m : all[n] = missed[n]
    BY <2>1, <2>2
  <2>4. pc = "idle" /\ table # <<>> /\ all[1] >= Newest(table) /\ table' = Append(table, b)
        /\ \A n \in 1..m : missed[n] <= all[n + 1]
    BY <1>2, <2>2 DEF FallBehind, New
  <2> HIDE DEF all
  <2>5. all[1] <= b
    <3>1. Len(all) - 1 = m /\ Len(all) >= 1
      BY <2>1, <2>3
    <3>2. \A n \in 1..m : all[n] <= all[n + 1]
      BY <2>3, <2>4
    <3> QED
      BY <2>3, <3>1, <3>2, ChainOrder
  <2>6. b >= Last(table)
    <3>1. Last(table) \in Nat /\ Newest(table) = Last(table)
      <4>1. table \in Seq(Nat) /\ Len(table) \in 1..Len(table)
        BY <2>4 DEF IInv, Typed
      <4> QED
        BY <2>4, <4>1 DEF Last, Newest
    <3>2. all[1] \in Nat
      <4>1. 1 \in 1..Len(all)
        BY <2>1, <2>3
      <4> QED
        BY <2>3, <4>1
    <3> QED
      BY <2>1, <2>4, <2>5, <3>1, <3>2
  <2>7. Grows
    BY <2>1, <2>4, <2>6, AppendGrows DEF IInv
  <2>8. behind' \in Seq(Nat)
    BY <1>2, <2>2 DEF FallBehind, IInv, Typed
  <2> QED
    BY <1>2, <2>4, <2>7, <2>8, GrowingKeepsIInv DEF FallBehind
<1>3. CASE Drain
  <2> DEFINE b == Last(behind)
             i == Before(b) + 1
  <2>1. behind \in Seq(Nat) /\ behind # <<>> /\ table \in Seq(Nat) /\ Len(table) \in Nat
    BY <1>3 DEF Drain, IInv, Typed
  <2>2. b \in Nat /\ Front(behind) \in Seq(Nat)
    BY <2>1 DEF Last, Front
  <2>3. /\ Before(b) \in 0..Len(table)
        /\ \A n \in Rows : table[n] < b <=> n <= Before(b)
    BY <2>2, BeforeFacts DEF IInv
  <2>4. table' = InsertAt(table, i, b) /\ behind' = Front(behind)
    BY <1>3 DEF Drain
  <2> HIDE DEF b
  <2>5. i \in 1..(Len(table) + 1)
    BY <2>1, <2>3
  <2>6. \A n \in Rows : n \in Int /\ table[n] \in Nat /\ (n < i => table[n] < b) /\ (n >= i => b <= table[n])
    <3>1. \A n \in Rows : n \in Int /\ table[n] \in Nat
      BY <2>1 DEF Rows
    <3>2. Before(b) \in Int
      BY <2>1, <2>3
    <3> QED
      BY <2>2, <2>3, <3>1, <3>2
  <2> HIDE DEF i
  <2>7. /\ table' \in Seq(Nat) /\ Len(table') = Len(table) + 1
        /\ \A k \in 1..(i - 1) : table'[k] = table[k]
        /\ table'[i] = b
        /\ \A k \in i..Len(table) : table'[k + 1] = table[k]
    <3> DEFINE t == InsertAt(table, i, b)
    <3>1. /\ t \in Seq(Nat) /\ Len(t) = Len(table) + 1
          /\ \A k \in 1..(i - 1) : t[k] = table[k]
          /\ t[i] = b
          /\ \A k \in i..Len(table) : t[k + 1] = table[k]
      BY <2>1, <2>2, <2>5, InsertFacts
    <3> QED
      BY <2>4, <3>1
  <2>8. \A n \in Rows : IF n < i THEN table'[n] = table[n] ELSE table'[n + 1] = table[n]
    <3> SUFFICES ASSUME NEW n \in Rows
                 PROVE  IF n < i THEN table'[n] = table[n] ELSE table'[n + 1] = table[n]
      OBVIOUS
    <3>1. n < i => n \in 1..(i - 1)
      BY <2>1, <2>5 DEF Rows
    <3>2. ~(n < i) => n \in i..Len(table)
      BY <2>1, <2>5 DEF Rows
    <3> QED
      BY <2>7, <3>1, <3>2
  <2>9. Rows' = 1..(Len(table) + 1)
    BY <2>7 DEF Rows
  <2>10. \A n \in Rows : \E m \in Rows' : table'[m] = table[n]
    <3> SUFFICES ASSUME NEW n \in Rows PROVE \E m \in Rows' : table'[m] = table[n]
      OBVIOUS
    <3>1. n \in Rows' /\ n + 1 \in Rows'
      BY <2>1, <2>9 DEF Rows
    <3> QED
      BY <2>8, <3>1
  <2>11. ASSUME NEW n \in 1..(Len(table) + 1), NEW m \in 1..(Len(table) + 1), n <= m
         PROVE  table'[n] <= table'[m]
    <3>1. i \in Int /\ n \in Int /\ m \in Int
      BY <2>1, <2>5
    <3>2. ASSUME NEW k \in 1..(Len(table) + 1)
          PROVE  /\ k < i => k \in Rows /\ table'[k] = table[k] /\ table[k] < b
                 /\ k = i => table'[k] = b
                 /\ k > i => k - 1 \in Rows /\ table'[k] = table[k - 1] /\ b <= table[k - 1]
      <4>1. k < i => k \in Rows
        BY <2>1, <2>5 DEF Rows
      <4>2. k > i => k - 1 \in Rows /\ k - 1 + 1 = k /\ k - 1 >= i /\ ~(k - 1 < i)
        BY <2>1, <2>5 DEF Rows
      <4>3. k > i => table'[k] = table[k - 1]
        BY <2>8, <4>2
      <4> QED
        BY <2>6, <2>7, <2>8, <4>1, <4>2, <4>3
    <3>3. \A k \in Rows : table[k] \in Nat
      BY <2>6
    <3>4. \A k, l \in Rows : k <= l => table[k] <= table[l]
      BY DEF IInv, Sorted
    <3>5. CASE n < i
      BY <2>2, <2>11, <3>1, <3>2, <3>3, <3>4, <3>5
    <3>6. CASE n = i
      <4>1. table'[n] = b
        BY <3>2, <3>6
      <4>2. m = i \/ m > i
        BY <2>11, <3>1, <3>6
      <4>3. m = i => table'[m] = b
        BY <3>2
      <4>4. m > i => b <= table'[m]
        BY <3>2
      <4> QED
        BY <2>2, <4>1, <4>2, <4>3, <4>4
    <3>7. CASE n > i
      <4>1. m > i /\ n - 1 <= m - 1
        BY <2>11, <3>1, <3>7
      <4> QED
        BY <3>2, <3>4, <3>7, <4>1
    <3> QED
      BY <3>1, <3>5, <3>6, <3>7
  <2>12. Sorted'
    BY <2>9, <2>11 DEF Sorted
  <2>13. Grows
    BY <2>7, <2>10, <2>12 DEF Grows
  <2> QED
    BY <1>3, <2>2, <2>4, <2>13, GrowingKeepsIInv DEF Drain
<1> QED
  BY <1>1, <1>2, <1>3 DEF Ingested

\* The scan.  Up to the row a fetch answers with, the window is one batch.
LEMMA SpanIsOneBatch ==
    ASSUME IInv, pc = "scan", Fetched # <<>>
    PROVE  \E e \in First..Final :
              /\ e \in Rows /\ BatchEnd(Fetched) = table[e] /\ Opener < table[e]
              /\ Together(table[e])
              /\ e < Final => table[e + 1] - table[e] > Gap
              /\ Boundaries(Fetched) = {} => e = Final
<1>1. PICK e \in First..Final :
              /\ BatchEnd(Fetched) = table[e]
              /\ \A n \in First..(e - 1) : table[n + 1] - table[n] <= Gap
              /\ e < Final => table[e + 1] - table[e] > Gap
              /\ Boundaries(Fetched) = {} => e = Final
  BY BatchEndFacts DEF IInv
<1>2. /\ First \in Nat /\ Final \in Nat /\ First >= 1 /\ Final <= Len(table)
      /\ Len(table) \in Nat /\ \A n \in Rows : n \in Int /\ table[n] \in Nat
      /\ \A n \in Rows : table[n] < start <=> n < First
  <2>1. Len(table) \in Nat /\ \A n \in Rows : n \in Int /\ table[n] \in Nat
    BY DEF IInv, Typed, Rows
  <2>2. First \in 1..(Len(table) + 1) /\ Final \in (First - 1)..Len(table)
    BY FetchFacts DEF IInv
  <2>3. \A n \in Rows : table[n] < start <=> n < First
    BY FetchFacts DEF IInv
  <2> HIDE DEF First, Final
  <2> QED
    BY <2>1, <2>2, <2>3
<1>3. e \in Rows /\ e \in Int /\ ~(e < First)
  BY <1>2 DEF Rows
<1>4. start \in Nat /\ Opener \in Nat /\ Gap \in Nat
  BY OpenerType, BatchConstants DEF IInv, Typed
<1>5. Opener < start /\ (Untouched \/ OneBatch)
  BY DEF IInv, Scanned
<1>6. Opener < table[e]
  BY <1>2, <1>3, <1>4, <1>5
<1>7. ASSUME NEW n \in 1..(Len(table) - 1), Opener < table[n], table[n + 1] <= table[e]
      PROVE  table[n + 1] - table[n] <= Gap
  <2>1. n \in Rows /\ n + 1 \in Rows /\ n \in Int
    BY <1>2 DEF Rows
  <2>2. table[n] \in Nat /\ table[n + 1] \in Nat /\ table[e] \in Nat
    BY <1>2, <1>3, <2>1
  <2>3. CASE n < First
    <3>1. table[n] < start
      BY <1>2, <2>1, <2>3
    <3>2. OneBatch
      BY <1>5, <1>7, <2>1, <3>1 DEF Untouched
    <3>3. PICK p \in Rows : table[p] = start
      BY <3>2 DEF OneBatch
    <3>4. ~(p <= n)
      BY <1>4, <2>1, <2>2, <3>1, <3>3 DEF IInv, Sorted
    <3>5. n + 1 <= p
      BY <1>2, <2>1, <3>4
    <3>6. table[n + 1] <= start
      BY <2>1, <3>3, <3>5 DEF IInv, Sorted
    <3> QED
      BY <1>7, <3>2, <3>6 DEF OneBatch, Together
  <2>4. CASE ~(n < First) /\ n < e
    <3>1. n \in First..(e - 1)
      BY <1>2, <1>3, <2>1, <2>4
    <3> QED
      BY <1>1, <3>1
  <2>5. CASE e <= n
    <3>1. table[e] <= table[n]
      BY <1>3, <2>1, <2>5 DEF IInv, Sorted
    <3> QED
      BY <1>4, <1>7, <2>2, <3>1
  <2> QED
    BY <1>3, <2>1, <2>3, <2>4, <2>5
<1>8. Together(table[e])
  BY <1>7 DEF Together
<1> QED
  BY <1>1, <1>3, <1>6, <1>8

\* Hopping over a stretch without rows passes over none.
LEMMA HopKeepsIInv ==
    ASSUME IInv, Hop
    PROVE  IInv'
<1>1. /\ pc = "scan" /\ Fetched = <<>> /\ Ahead # {} /\ start' = table[Min(Ahead)]
      /\ UNCHANGED <<table, behind, ends, pc>>
  BY DEF Hop
<1>2. Len(table) \in Nat /\ \A n \in Rows : n \in Int /\ table[n] \in Nat
  BY DEF IInv, Typed, Rows
<1>3. Limit \in Nat /\ Limit >= 2 /\ start \in Nat /\ Opener \in Nat
  BY OpenerType, BatchConstants DEF IInv, Typed
<1>4. Opener < start /\ (Untouched \/ OneBatch)
  BY <1>1 DEF IInv, Scanned
<1>5. \A n \in Rows : table[n] < start \/ table[n] >= start + Limit
  <2> SUFFICES ASSUME NEW n \in Rows, ~(table[n] < start), ~(table[n] >= start + Limit)
               PROVE  FALSE
    OBVIOUS
  <2>1. table[n] < start + Limit
    BY <1>2, <1>3
  <2>2. First \in 1..(Len(table) + 1) /\ Final \in (First - 1)..Len(table) /\ First = Final + 1
    BY <1>1, FetchFacts DEF IInv
  <2>3. \A m \in Rows : table[m] < start <=> m < First
    BY FetchFacts DEF IInv
  <2>4. Final + 1 - First < Limit => \A m \in Rows : table[m] < start + Limit => m <= Final
    BY FetchFacts DEF IInv
  <2> HIDE DEF First, Final
  <2>5. n <= Final /\ ~(n < First) /\ n \in Int
    BY <1>2, <1>3, <2>1, <2>2, <2>3, <2>4
  <2> QED
    BY <1>2, <2>2, <2>5
<1>6. /\ Min(Ahead) \in Rows /\ table[Min(Ahead)] >= start + Limit
      /\ \A n \in Rows : table[n] >= start + Limit => Min(Ahead) <= n
  <2>1. Ahead \in SUBSET Nat
    BY <1>2 DEF Ahead
  <2>2. Min(Ahead) \in Ahead /\ \A n \in Ahead : Min(Ahead) <= n
    BY <1>1, <2>1, MinIsLeast
  <2> QED
    BY <2>2 DEF Ahead, Rows
<1>7. start' \in Nat /\ start < start'
  BY <1>1, <1>2, <1>3, <1>6
<1>8. Untouched
  <2>1. ASSUME OneBatch PROVE FALSE
    <3>1. PICK p \in Rows : table[p] = start
      BY <2>1 DEF OneBatch
    <3> QED
      BY <1>3, <1>5, <3>1
  <2> QED
    BY <1>4, <2>1
<1>9. Untouched'
  <2>1. ASSUME NEW n \in Rows, Opener < table[n], table[n] < start'
        PROVE  FALSE
    <3>1. ~(table[n] < start)
      BY <1>8, <2>1 DEF Untouched
    <3>2. Min(Ahead) <= n
      BY <1>5, <1>6, <3>1
    <3>3. start' <= table[n]
      BY <1>1, <1>6, <3>2 DEF IInv, Sorted
    <3> QED
      BY <1>2, <1>7, <2>1, <3>3
  <2> QED
    BY <1>1, <2>1 DEF Untouched, Rows, Opener
<1>10. Opener' = Opener
  BY <1>1 DEF Opener
<1>11. Typed'
  BY <1>1, <1>7 DEF IInv, Typed
<1>12. Sorted' /\ WindowsAreOwn'
  BY <1>1 DEF IInv, Sorted, Rows, WindowsAreOwn
<1>13. Opener' < start'
  BY <1>3, <1>4, <1>7, <1>10
<1> QED
  BY <1>9, <1>11, <1>12, <1>13 DEF IInv, Scanned

\* A fetch without a boundary is read on from its last row.
LEMMA ExpandKeepsIInv ==
    ASSUME IInv, Expand
    PROVE  IInv'
<1>1. /\ pc = "scan" /\ Fetched # <<>> /\ Boundaries(Fetched) = {} /\ start' = Last(Fetched)
      /\ UNCHANGED <<table, behind, ends, pc>>
  BY DEF Expand, Unproven
<1>2. start' = BatchEnd(Fetched)
  BY <1>1 DEF BatchEnd
<1>3. PICK e \in Rows : BatchEnd(Fetched) = table[e] /\ Opener < table[e] /\ Together(table[e])
  BY <1>1, SpanIsOneBatch
<1>4. table[e] \in Nat /\ start' = table[e]
  BY <1>2, <1>3 DEF IInv, Typed, Rows
<1>5. Opener' = Opener /\ Rows' = Rows
  BY <1>1 DEF Opener, Rows
<1>6. OneBatch'
  BY <1>1, <1>3, <1>4, <1>5 DEF OneBatch, Together
<1>7. Typed'
  BY <1>1, <1>4 DEF IInv, Typed
<1>8. Sorted' /\ WindowsAreOwn'
  BY <1>1 DEF IInv, Sorted, Rows, WindowsAreOwn
<1> QED
  BY <1>3, <1>4, <1>5, <1>6, <1>7, <1>8 DEF IInv, Scanned

\* The window closes on the last row of its batch.
LEMMA FoundKeepsIInv ==
    ASSUME IInv, Found
    PROVE  IInv'
<1>1. /\ pc = "scan" /\ Fetched # <<>> /\ ends' = Append(ends, BatchEnd(Fetched)) /\ pc' = "idle"
      /\ UNCHANGED <<table, behind, start>>
  BY DEF Found
<1>2. PICK e \in Rows : BatchEnd(Fetched) = table[e] /\ Opener < table[e]
  BY <1>1, SpanIsOneBatch
<1>3. table[e] \in Nat
  BY DEF IInv, Typed, Rows
<1>4. ends \in Seq(Nat) /\ Len(ends) \in Nat /\ Len(ends) >= 1 /\ Opener = ends[Len(ends)]
  BY OpenerType DEF IInv, Typed
<1>5. /\ ends' \in Seq(Nat) /\ ends' # <<>> /\ Len(ends') = Len(ends) + 1
      /\ \A w \in 1..Len(ends) : ends'[w] = ends[w]
      /\ ends'[Len(ends) + 1] = table[e]
  BY <1>1, <1>2, <1>3, <1>4, AppendProperties
<1>6. ASSUME NEW w \in 1..Len(ends)
      PROVE  ends'[w] < ends'[w + 1] /\ \E n \in Rows : table[n] = ends'[w + 1]
  <2>1. CASE w = Len(ends)
    BY <1>2, <1>4, <1>5, <2>1
  <2>2. CASE w # Len(ends)
    <3>1. w \in 1..(Len(ends) - 1) /\ w + 1 \in 1..Len(ends)
      BY <1>4, <2>2
    <3>2. ends[w] < ends[w + 1] /\ \E n \in Rows : table[n] = ends[w + 1]
      BY <3>1 DEF IInv, WindowsAreOwn, Rows
    <3> QED
      BY <1>5, <3>1, <3>2
  <2> QED
    BY <2>1, <2>2
<1>7. WindowsAreOwn'
  <2>1. Len(ends') - 1 = Len(ends)
    BY <1>4, <1>5
  <2> QED
    BY <1>1, <1>6, <2>1 DEF WindowsAreOwn, Rows
<1>8. Typed' /\ Sorted'
  BY <1>1, <1>5 DEF IInv, Typed, Sorted, Rows
<1> QED
  BY <1>1, <1>7, <1>8 DEF IInv, Scanned

LEMMA StepIInv == IInv /\ [Next]_vars => IInv'
<1> SUFFICES ASSUME IInv, [Next]_vars PROVE IInv'
  OBVIOUS
<1>1. CASE Call
  <2>1. pc' = "scan" /\ start' = Opener + 1 /\ UNCHANGED <<table, behind, ends>>
    BY <1>1 DEF Call
  <2>2. Opener \in Nat /\ Opener' = Opener
    BY <2>1, OpenerType DEF IInv, Opener
  <2>3. Typed' /\ Sorted' /\ WindowsAreOwn'
    BY <2>1, <2>2 DEF IInv, Typed, Sorted, Rows, WindowsAreOwn
  <2>4. Opener' < start'
    BY <2>1, <2>2
  <2>5. Untouched'
    <3>1. \A n \in Rows : table[n] \in Nat
      BY DEF IInv, Typed, Rows
    <3>2. \A n \in Rows : ~(Opener < table[n] /\ table[n] < Opener + 1)
      BY <2>2, <3>1
    <3> QED
      BY <2>1, <2>2, <3>2 DEF Untouched, Rows
  <2> QED
    BY <2>3, <2>4, <2>5 DEF IInv, Scanned
<1>2. CASE NoBatch \/ UNCHANGED vars
  BY <1>2 DEF NoBatch, vars, IInv, Typed, Sorted, Rows, WindowsAreOwn, Scanned, Untouched,
              OneBatch, Together, Opener
<1> QED
  BY <1>1, <1>2, IngestedKeepsIInv, HopKeepsIInv, ExpandKeepsIInv, FoundKeepsIInv
  DEF Next, Scan

-----------------------------------------------------------------------------
\* The results.

\* Every window ends on a row of its own, behind the end of the one before it,
\* however rows arrive, gaps are drained and fetches cut the table up.
THEOREM WindowsAreOwnHolds == Spec => []WindowsAreOwn
<1>1. IInv => WindowsAreOwn
  BY DEF IInv
<1> QED
  BY <1>1, InitIInv, StepIInv, PTL DEF Spec

\* A window is closed only by Found, on what SpanIsOneBatch says of it.
LEMMA OnlyFoundCloses ==
    ASSUME IInv, [Next]_vars, ends' # ends
    PROVE  /\ pc = "scan" /\ Fetched # <<>> /\ UNCHANGED <<table, start>>
           /\ Last(ends') = BatchEnd(Fetched)
<1>1. Found
  BY DEF Next, Scan, Hop, NoBatch, Expand, Call, Ingested, Arrive, FallBehind, Drain, vars
<1>2. ends \in Seq(Nat)
  BY DEF IInv, Typed
<1>3. pc = "scan" /\ Fetched # <<>> /\ UNCHANGED <<table, start>> /\ ends' = Append(ends, BatchEnd(Fetched))
  BY <1>1 DEF Found
<1>4. PICK e \in Rows : BatchEnd(Fetched) = table[e]
  BY <1>3, SpanIsOneBatch
<1>5. BatchEnd(Fetched) \in Nat
  BY <1>4 DEF IInv, Typed, Rows
<1> QED
  BY <1>2, <1>3, <1>5, AppendProperties DEF Last

\* No window closes on rows of two batches: the rows between its opener and its
\* end follow each other within the gap, however many fetches it took to see them.
THEOREM NeverMergesHolds == Spec => NeverMerges
<1>1. IInv /\ [Next]_vars =>
        [\A n \in 1..(Len(table) - 1) :
            Opener < table[n] /\ table[n + 1] <= Last(ends') => table[n + 1] - table[n] <= Gap]_ends
  <2> SUFFICES ASSUME IInv, [Next]_vars, ends' # ends
               PROVE  Together(Last(ends'))
    BY DEF Together
  <2> QED
    BY OnlyFoundCloses, SpanIsOneBatch
<1> QED
  BY <1>1, InitIInv, StepIInv, PTL DEF Spec, NeverMerges

\* A batch that the fetch reaches past, in blocks and in rows, is closed whole:
\* no row on record of the same batch is left for the next window.
THEOREM EndsBatchWithinFetchHolds == Spec => EndsBatchWithinFetch
<1>1. IInv /\ [Next]_vars =>
        [Len(Fetched) < Limit /\ Last(ends') + Gap < start + Limit => LeftOver' = {}]_ends
  <2> SUFFICES ASSUME IInv, [Next]_vars, ends' # ends,
                      Len(Fetched) < Limit, Last(ends') + Gap < start + Limit
               PROVE  LeftOver' = {}
    OBVIOUS
  <2>1. /\ pc = "scan" /\ Fetched # <<>> /\ UNCHANGED <<table, start>>
        /\ Last(ends') = BatchEnd(Fetched)
    BY OnlyFoundCloses
  <2>2. PICK e \in First..Final :
              /\ e \in Rows /\ BatchEnd(Fetched) = table[e]
              /\ e < Final => table[e + 1] - table[e] > Gap
    BY <2>1, SpanIsOneBatch
  <2>3. /\ First \in Nat /\ Final \in Nat /\ Final <= Len(table) /\ Len(table) \in Nat
        /\ \A n \in Rows : table[n] < start + Limit => n <= Final
    <3>1. First \in 1..(Len(table) + 1) /\ Final \in (First - 1)..Len(table)
      BY FetchFacts DEF IInv
    <3>2. Len(Fetched) = Final + 1 - First
      BY FetchFacts DEF IInv
    <3>3. Final + 1 - First < Limit => \A n \in Rows : table[n] < start + Limit => n <= Final
      BY FetchFacts DEF IInv
    <3>4. Len(table) \in Nat
      BY DEF IInv, Typed
    <3> HIDE DEF First, Final
    <3> QED
      BY <3>1, <3>2, <3>3, <3>4
  <2> HIDE DEF First, Final
  <2>4. start \in Nat /\ Limit \in Nat /\ Gap \in Nat /\ \A n \in Rows : n \in Int /\ table[n] \in Nat
    BY BatchConstants DEF IInv, Typed, Rows
  <2>5. ASSUME NEW n \in Rows, table[e] < table[n], table[n] <= table[e] + Gap
        PROVE  FALSE
    <3>1. table[n] < start + Limit
      BY <2>1, <2>2, <2>4, <2>5
    <3>2. n <= Final
      BY <2>3, <3>1
    <3>3. ~(n <= e)
      BY <2>2, <2>4, <2>5 DEF IInv, Sorted
    <3>4. e < Final /\ e + 1 <= n /\ e + 1 \in Rows
      BY <2>2, <2>3, <2>4, <3>2, <3>3 DEF Rows
    <3>5. table[e + 1] <= table[n]
      BY <3>4 DEF IInv, Sorted
    <3> QED
      BY <2>2, <2>4, <2>5, <3>4, <3>5
  <2> QED
    BY <2>1, <2>2, <2>5 DEF LeftOver, Rows
<1> QED
  BY <1>1, InitIInv, StepIInv, PTL DEF Spec, EndsBatchWithinFetch
=============================================================================

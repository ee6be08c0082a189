--------------------------- MODULE SnapshotProofs ---------------------------
(***************************************************************************)
(* Proofs about Snapshot and EpochStart for any set of addresses, any      *)
(* retention, bucket and window, and any number of polls, changes and      *)
(* faults: a poll books no fake unstake, a complete one settles what the   *)
(* latest rows show, thinning loses no hour, and whoever weighs in an      *)
(* epoch was staked at one poll of it.                                     *)
(***************************************************************************)
EXTENDS EpochStart, FiniteSetTheorems, NaturalsInduction, WellFoundedInduction, TLAPS

\* The inductive invariant of the polls: rows are unique by address and time and
\* not of the future; once the list is answered it is a part of the pool, which
\* stays as it is until the poll is over; the rows written so far in this poll
\* are those of the listed addresses that are not left to do, and then zero rows
\* of the others.

Phases == {"idle", "record", "list", "write", "tombstones", "thin", "stamp"}

Typed ==
    /\ pool \in [Addrs -> {"out", "inactive", "staked"}]
    /\ rows \subseteq Row
    /\ thinned \in Nat \cup {NULL}
    /\ now \in 0..MaxPolls
    /\ pc \in Phases
    /\ count \in Nat
    /\ listed \subseteq Addrs /\ todo \subseteq Addrs

Keyed == \A r, q \in rows : r.addr = q.addr /\ r.at = q.at => r = q

NotAhead ==
    /\ pc # "idle" => now # 0
    /\ \A r \in rows : r.at \in 1..now /\ (pc \in {"record", "list"} => r.at < now)

\* The row that this poll writes for a listed address.
Fresh(a) == [addr |-> a, at |-> now, staked |-> pool[a] = "staked"]

Writing ==
    pc \in {"write", "tombstones"} =>
        /\ listed \subseteq Present
        /\ \A a \in listed : Fresh(a) \in rows \/ (pc = "write" /\ a \in todo)
        /\ \A r \in rows : r.at = now => \/ r.addr \in listed /\ r = Fresh(r.addr)
                                         \/ pc = "tombstones" /\ r.addr \notin listed /\ ~r.staked
        /\ pc = "write" => todo \subseteq listed

Departed ==
    pc = "tombstones" =>
        /\ todo \cap listed = {} /\ (todo # {} => Complete)
        /\ Complete => \A a \in Addrs \ listed : a \in todo \/ ~ShownStaked(a)

PollInv == Typed /\ Keyed /\ NotAhead /\ Writing /\ Departed

\* The inductive invariant of the epoch's weights.

Written == pc \notin {"record", "list", "write"}

\* When nothing failed and the rows of the epoch's first poll are too young to
\* be thinned, all its stakers are on record once it is written.
Young == faults = 0 /\ (Retention > 0 => now <= Start + Retention)
Reached == now > Start \/ (now = Start /\ Written)

SeenInv ==
    /\ seen \in [1..MaxPolls -> SUBSET Addrs] /\ faults \in Nat
    /\ \A t \in 1..MaxPolls : t > now \/ (t = now /\ pc \in {"record", "list"}) => seen[t] = {}
    /\ pc = "write" => seen[now] = Staked
    /\ pc = "write" /\ faults = 0 => listed = Present
    /\ \A r \in rows : r.staked => r.addr \in seen[r.at]
    /\ pc \in {"thin", "stamp"} => Retention > 0

\* Anyone staked at the epoch's first poll is on record from then on.
Settled == Young /\ Reached => StakedAt(Start) = seen[Start]

\* What a close was told is fit to be used.
Fit(a) ==
    /\ a.staked # {} => \E t \in 1..MaxPolls : a.staked \subseteq seen[t]
    /\ Young /\ a.kind = "definitive" /\ a.from = Start /\ seen[Start] # {}
           => a.staked = seen[Start]

ToldInv ==
    /\ first # NULL => first.at \in Start..MaxPolls
    /\ Fit(answer)
    /\ memo # NULL => Fit(memo) /\ Reached

LadderInv == PollInv /\ SeenInv /\ Settled /\ ToldInv

-----------------------------------------------------------------------------
\* The polls.

LEMMA PoolFacts ==
    ASSUME Typed
    PROVE  /\ Present \subseteq Addrs /\ IsFiniteSet(Present) /\ Cardinality(Present) \in Nat
           /\ IsFiniteSet(listed) /\ Cardinality(listed) \in Nat
           /\ now \in Nat
           /\ \A a \in Addrs : Fresh(a) \in Row
<1>1. Present \subseteq Addrs /\ listed \subseteq Addrs
  BY DEF Present, Typed
<1>2. IsFiniteSet(Present) /\ IsFiniteSet(listed)
  BY <1>1, SnapshotConstants, FS_Subset
<1>3. Cardinality(Present) \in Nat /\ Cardinality(listed) \in Nat
  BY <1>2, FS_CardinalityType
<1>4. now \in Nat
  BY SnapshotConstants DEF Typed
<1> QED
  BY <1>1, <1>2, <1>3, <1>4 DEF Fresh, Row

\* A complete list, when the record counts no fewer stakers than there are, is
\* the pool.
LEMMA CompleteIsPool ==
    ASSUME Typed, listed \subseteq Present, Complete, count >= Cardinality(Present)
    PROVE  listed = Present
<1>1. /\ IsFiniteSet(Present) /\ Cardinality(Present) \in Nat
      /\ IsFiniteSet(listed) /\ Cardinality(listed) \in Nat /\ count \in Nat
  BY PoolFacts DEF Typed
<1>2. count # 0
  <2> SUFFICES ASSUME count = 0 PROVE FALSE
    OBVIOUS
  <2>1. Cardinality(Present) = 0
    BY <1>1
  <2>2. Present = {}
    BY <1>1, <2>1, FS_EmptySet
  <2> QED
    BY <2>2 DEF Complete
<1>3. Cardinality(listed) >= Cardinality(Present)
  BY <1>1, <1>2 DEF Complete
<1>4. Cardinality(listed) <= Cardinality(Present)
  BY <1>1, FS_Subset
<1> QED
  BY <1>1, <1>3, <1>4, FS_Subset

\* One row is written: the others stay, and keys stay unique.
LEMMA PutFacts ==
    ASSUME Typed, Keyed, NEW a \in Addrs, NEW staked \in BOOLEAN, Put(a, staked)
    PROVE  LET new == [addr |-> a, at |-> now, staked |-> staked]
           IN  /\ rows' \subseteq Row /\ new \in rows' /\ new \in Row
               /\ \A r, q \in rows' : r.addr = q.addr /\ r.at = q.at => r = q
               /\ \A r \in rows' : r = new \/ (r \in rows /\ ~(r.addr = a /\ r.at = now))
               /\ \A r \in rows : r \in rows' \/ (r.addr = a /\ r.at = now)
<1>1. now \in Nat
  BY PoolFacts
<1> QED
  BY <1>1 DEF Put, Typed, Keyed, Row

LEMMA InitPollInv == Init => PollInv
BY SnapshotConstants
   DEF Init, PollInv, Typed, Keyed, NotAhead, Writing, Departed, Phases

\* Steps that write no row.
LEMMA QuietPolls ==
    ASSUME PollInv, UNCHANGED rows,
           \/ Moves \/ StartPoll \/ GetRecord \/ GetList \/ GetTruncated
           \/ StartTombstones \/ WriteRecord \/ Stamp \/ Abort
    PROVE  PollInv'
<1>1. Typed /\ now \in Nat /\ MaxPolls \in Nat
  BY PoolFacts, SnapshotConstants DEF PollInv
<1>2. Keyed'
  BY DEF PollInv, Keyed
<1>3. CASE Moves
  <2>1. PICK a \in Addrs, to \in {"out", "inactive", "staked"} : Change(a, to)
    BY <1>3 DEF Moves
  <2>2. Typed'
    BY <1>1, <2>1 DEF Change, Typed, job
  <2>3. pc' = pc /\ now' = now /\ pc \in {"idle", "list"}
    BY <2>1 DEF Change, job
  <2> QED
    BY <1>2, <2>2, <2>3 DEF PollInv, NotAhead, Writing, Departed
<1>4. CASE StartPoll
  <2>1. Typed' /\ now' = now + 1 /\ pc' = "record"
    BY <1>1, <1>4 DEF StartPoll, Typed, Phases
  <2>2. NotAhead'
    BY <1>1, <2>1 DEF PollInv, NotAhead
  <2> QED
    BY <1>2, <2>1, <2>2 DEF PollInv, Writing, Departed
<1>5. CASE GetRecord
  <2>1. Typed' /\ now' = now /\ pc = "record" /\ pc' = "list"
    <3>1. Cardinality(Present) \in Nat
      BY <1>1, PoolFacts
    <3> QED
      BY <1>1, <1>5, <3>1 DEF GetRecord, Typed, Phases
  <2> QED
    BY <1>2, <2>1 DEF PollInv, NotAhead, Writing, Departed
<1>6. CASE GetList \/ GetTruncated
  <2>1. PICK list \in SUBSET Present : Answer(list)
    BY <1>6 DEF GetList, GetTruncated
  <2>2. /\ pc = "list" /\ pc' = "write" /\ listed' = list /\ todo' = list
        /\ UNCHANGED <<pool, now>>
    BY <2>1 DEF Answer
  <2>3. Typed'
    BY <1>1, <2>1, PoolFacts DEF Answer, Typed, Phases
  <2>4. \A r \in rows : r.at \in 1..now /\ r.at # now
    BY <1>1, <2>2 DEF PollInv, NotAhead
  <2>5. NotAhead' /\ Departed'
    BY <2>2, <2>4 DEF PollInv, NotAhead, Departed
  <2>6. Writing'
    BY <2>2, <2>4 DEF Writing, Present
  <2> QED
    BY <1>2, <2>3, <2>5, <2>6 DEF PollInv
<1>7. CASE StartTombstones
  <2>1. /\ pc = "write" /\ pc' = "tombstones" /\ todo = {}
        /\ todo' = IF Complete THEN {a \in Addrs \ listed : ShownStaked(a)} ELSE {}
        /\ UNCHANGED <<pool, now, listed, count>>
    BY <1>7 DEF StartTombstones
  <2>2. Typed'
    BY <1>1, <1>7 DEF StartTombstones, Typed, Phases
  <2>3. NotAhead'
    BY <2>1 DEF PollInv, NotAhead
  <2>4. Writing'
    BY <2>1 DEF PollInv, Writing, Present, Fresh
  <2>5. Complete' = Complete /\ \A a : ShownStaked(a)' = ShownStaked(a)
    BY <2>1 DEF Complete, ShownStaked, RowsFor
  <2>6. Departed'
    BY <2>1, <2>5 DEF Departed
  <2> QED
    BY <1>2, <2>2, <2>3, <2>4, <2>6 DEF PollInv
<1>8. CASE WriteRecord \/ Stamp \/ Abort
  <2>1. Typed' /\ now' = now /\ pc' \in {"idle", "thin"} /\ pc # "idle"
    BY <1>1, <1>8, SnapshotConstants
    DEF WriteRecord, Stamp, Abort, Leave, Typed, Phases, job
  <2> QED
    BY <1>2, <2>1 DEF PollInv, NotAhead, Writing, Departed
<1> QED
  BY <1>3, <1>4, <1>5, <1>6, <1>7, <1>8

LEMMA WritingPolls ==
    ASSUME PollInv, NEW a \in todo, WriteRow(a)
    PROVE  PollInv'
<1>1. Typed /\ Keyed /\ now \in Nat /\ a \in Addrs
  BY PoolFacts DEF PollInv, Typed
<1>2. /\ pc = "write" /\ pc' = "write" /\ todo' = todo \ {a}
      /\ UNCHANGED <<pool, now, listed, count, thinned>> /\ Put(a, pool[a] = "staked")
  BY DEF WriteRow
<1>3. /\ rows' \subseteq Row /\ Fresh(a) \in rows'
      /\ \A r, q \in rows' : r.addr = q.addr /\ r.at = q.at => r = q
      /\ \A r \in rows' : r = Fresh(a) \/ (r \in rows /\ ~(r.addr = a /\ r.at = now))
      /\ \A r \in rows : r \in rows' \/ (r.addr = a /\ r.at = now)
  <2> DEFINE staked == pool[a] = "staked"
  <2>1. staked \in BOOLEAN /\ Put(a, staked) /\ Fresh(a) = [addr |-> a, at |-> now, staked |-> staked]
    BY <1>2 DEF Fresh
  <2> HIDE DEF staked
  <2> QED
    BY <1>1, <2>1, PutFacts
<1>4. \A b : Fresh(b).addr = b /\ Fresh(b).at = now /\ Fresh(b)' = Fresh(b)
  BY <1>2 DEF Fresh
<1>5. Typed' /\ Keyed' /\ Departed'
  BY <1>1, <1>2, <1>3 DEF Typed, Keyed, Departed
<1>6. NotAhead'
  <2>1. now \in 1..now
    BY <1>1, <1>2 DEF PollInv, NotAhead
  <2> QED
    BY <1>2, <1>3, <1>4, <2>1 DEF PollInv, NotAhead
<1>7. Writing'
  <2>1. listed \subseteq Present /\ a \in listed /\ Present' = Present
    BY <1>2 DEF PollInv, Writing, Present
  <2>2. \A b \in listed : Fresh(b) \in rows' \/ b \in todo'
    BY <1>2, <1>3, <1>4 DEF PollInv, Writing
  <2>3. \A r \in rows' : r.at = now => r.addr \in listed /\ r = Fresh(r.addr)
    BY <1>2, <1>3, <1>4, <2>1 DEF PollInv, Writing
  <2> QED
    BY <1>2, <1>4, <2>1, <2>2, <2>3 DEF PollInv, Writing
<1> QED
  BY <1>5, <1>6, <1>7 DEF PollInv

LEMMA TombstonePolls ==
    ASSUME PollInv, NEW a \in todo, WriteTombstone(a)
    PROVE  PollInv'
<1> DEFINE zero == [addr |-> a, at |-> now, staked |-> FALSE]
<1>1. Typed /\ Keyed /\ now \in Nat /\ a \in Addrs
  BY PoolFacts DEF PollInv, Typed
<1>2. /\ pc = "tombstones" /\ pc' = "tombstones" /\ todo' = todo \ {a}
      /\ UNCHANGED <<pool, now, listed, count, thinned>> /\ Put(a, FALSE)
  BY DEF WriteTombstone
<1>3. /\ rows' \subseteq Row /\ zero \in rows'
      /\ \A r, q \in rows' : r.addr = q.addr /\ r.at = q.at => r = q
      /\ \A r \in rows' : r = zero \/ (r \in rows /\ ~(r.addr = a /\ r.at = now))
      /\ \A r \in rows : r \in rows' \/ (r.addr = a /\ r.at = now)
  BY <1>1, <1>2, PutFacts
<1>4. zero.addr = a /\ zero.at = now /\ ~zero.staked
  OBVIOUS
<1> HIDE DEF zero
<1>5. Typed' /\ Keyed'
  BY <1>1, <1>2, <1>3 DEF Typed, Keyed
<1>6. a \notin listed /\ Complete
  BY <1>2 DEF PollInv, Departed
<1>7. \A b : Fresh(b).addr = b /\ Fresh(b)' = Fresh(b)
  BY <1>2 DEF Fresh
<1>8. Writing'
  <2>1. listed \subseteq Present /\ Present' = Present
    BY <1>2 DEF PollInv, Writing, Present
  <2>2. \A b \in listed : Fresh(b) \in rows'
    BY <1>2, <1>3, <1>6, <1>7 DEF PollInv, Writing
  <2>3. \A r \in rows' : r.at = now => \/ r.addr \in listed /\ r = Fresh(r.addr)
                                       \/ r.addr \notin listed /\ ~r.staked
    BY <1>2, <1>3, <1>4, <1>6 DEF PollInv, Writing
  <2> QED
    BY <1>2, <1>7, <2>1, <2>2, <2>3 DEF Writing
<1>9. NotAhead'
  <2>1. now \in 1..now
    BY <1>1, <1>2 DEF PollInv, NotAhead
  <2> QED
    BY <1>2, <1>3, <1>4, <2>1 DEF PollInv, NotAhead
<1>10. Departed'
  <2>1. Complete' = Complete
    BY <1>2 DEF Complete
  <2>2. ~ShownStaked(a)'
    <3> SUFFICES ASSUME NEW r \in rows', r.addr = a, r.staked,
                        \A q \in rows' : q.addr = a => q.at <= r.at
                 PROVE  FALSE
      BY DEF ShownStaked, RowsFor
    <3>1. r \in rows /\ r.at # now
      BY <1>3, <1>4
    <3>2. r.at \in Nat /\ r.at <= now
      BY <1>1, <3>1 DEF PollInv, NotAhead
    <3>3. now <= r.at
      BY <1>3, <1>4
    <3> QED
      BY <1>1, <3>1, <3>2, <3>3
  <2>3. \A b \in Addrs : b # a => ShownStaked(b)' = ShownStaked(b)
    <3> TAKE b \in Addrs
    <3>1. b # a => RowsFor(b)' = RowsFor(b)
      BY <1>3, <1>4 DEF RowsFor
    <3> QED
      BY <3>1 DEF ShownStaked
  <2> QED
    BY <1>2, <1>6, <2>1, <2>2, <2>3 DEF PollInv, Departed
<1> QED
  BY <1>5, <1>8, <1>9, <1>10 DEF PollInv

LEMMA ThinningPolls ==
    ASSUME PollInv, Thin
    PROVE  PollInv'
<1>1. pc = "thin" /\ pc' = "stamp" /\ rows' \subseteq rows
      /\ UNCHANGED <<pool, now, listed, count, thinned, todo>>
  BY DEF Thin
<1>2. Typed' /\ Keyed' /\ NotAhead'
  BY <1>1 DEF PollInv, Typed, Keyed, NotAhead, Phases
<1> QED
  BY <1>1, <1>2 DEF PollInv, Writing, Departed

LEMMA StepPollInv == PollInv /\ [Next]_vars => PollInv'
<1> SUFFICES ASSUME PollInv, [Next]_vars PROVE PollInv'
  OBVIOUS
<1>1. CASE UNCHANGED vars
  BY <1>1 DEF vars, job, PollInv, Typed, Keyed, NotAhead, Writing, Departed, Fresh,
              Present, Complete, ShownStaked, RowsFor
<1>2. CASE Next
  <2>1. Moves \/ StartPoll \/ GetRecord \/ GetList \/ GetTruncated
           \/ StartTombstones \/ WriteRecord \/ Stamp \/ Abort => UNCHANGED rows
    BY DEF Moves, Change, StartPoll, GetRecord, GetList, GetTruncated, Answer,
           StartTombstones, WriteRecord, Stamp, Abort
  <2> QED
    BY <1>2, <2>1, QuietPolls, WritingPolls, TombstonePolls, ThinningPolls DEF Next, Polling
<1> QED
  BY <1>1, <1>2

LEMMA LadderPolls ==
    /\ LadderInit => Init
    /\ [LadderNext]_ladderVars => [Next]_vars
BY DEF LadderInit, LadderNext, PollStep, StoreInEpoch, Ask, Restart, ladderVars

\* The polls behind the epoch's weights keep their invariant.
THEOREM AlwaysPollInv == LadderSpec => []PollInv
BY LadderPolls, InitPollInv, StepPollInv, PTL DEF LadderSpec

\* Once a complete answer is written, tombstones included, the latest rows show
\* exactly the addresses that are staked, whatever earlier polls lost.
THEOREM CompletePollSettlesHolds == LadderSpec => []CompletePollSettles
<1>1. PollInv => CompletePollSettles
  <2> SUFFICES ASSUME PollInv, pc = "tombstones", todo = {}, listed = Present, Complete,
                      NEW a \in Addrs
               PROVE  ShownStaked(a) <=> pool[a] = "staked"
    BY DEF CompletePollSettles
  <2>1. CASE a \in listed
    <3>1. Fresh(a) \in rows /\ Fresh(a).addr = a /\ Fresh(a).at = now
          /\ Fresh(a).staked = (pool[a] = "staked")
      BY <2>1 DEF PollInv, Writing, Fresh
    <3>2. now \in Nat /\ \A q \in rows : q.at \in 1..now
      BY PoolFacts DEF PollInv, NotAhead
    <3>3. \A r \in rows : r.addr = a /\ r.at >= now => r = Fresh(a)
      BY <3>1, <3>2 DEF PollInv, Keyed
    <3>4. \A q \in rows : q.at <= Fresh(a).at
      BY <3>1, <3>2
    <3> QED
      BY <3>1, <3>2, <3>3, <3>4 DEF ShownStaked, RowsFor
  <2>2. CASE a \notin listed
    <3>1. ~ShownStaked(a)
      BY <2>2 DEF PollInv, Departed
    <3>2. pool[a] = "out"
      BY <2>2 DEF Present
    <3> QED
      BY <3>1, <3>2
  <2> QED
    BY <2>1, <2>2
<1> QED
  BY <1>1, AlwaysPollInv, PTL

\* README "a truncated answer never books a fake unstake": whatever the list
\* lost, a zero row is written for an address that has no stake, as long as the
\* validator record counts no fewer stakers than there are.
THEOREM RowsTellTruthHolds == LadderSpec => RowsTellTruth
<1> DEFINE A == count >= Cardinality(Present) =>
                    \A r \in rows' \ rows : r.staked <=> pool[r.addr] = "staked"
<1>1. PollInv /\ [Next]_vars => [A]_rows
  <2> SUFFICES ASSUME PollInv, Next, count >= Cardinality(Present), NEW r \in rows' \ rows
               PROVE  r.staked <=> pool[r.addr] = "staked"
    BY DEF vars
  <2>1. Typed /\ Keyed
    BY DEF PollInv
  <2>2. ASSUME NEW a \in todo, WriteRow(a)
        PROVE  r.staked <=> pool[r.addr] = "staked"
    <3>1. a \in Addrs /\ Put(a, pool[a] = "staked")
      BY <2>1, <2>2 DEF WriteRow, Typed
    <3>2. r = [addr |-> a, at |-> now, staked |-> pool[a] = "staked"]
      BY <2>1, <3>1, PutFacts
    <3> QED
      BY <3>2
  <2>3. ASSUME NEW a \in todo, WriteTombstone(a)
        PROVE  r.staked <=> pool[r.addr] = "staked"
    <3>1. a \in Addrs /\ Put(a, FALSE) /\ pc = "tombstones"
      BY <2>1, <2>3 DEF WriteTombstone, Typed
    <3>2. r = [addr |-> a, at |-> now, staked |-> FALSE]
      BY <2>1, <3>1, PutFacts
    <3>3. Complete /\ a \notin listed /\ listed \subseteq Present
      BY <2>3, <3>1 DEF PollInv, Departed, Writing
    <3>4. pool[a] = "out"
      BY <2>1, <3>1, <3>3, CompleteIsPool DEF Present
    <3> QED
      BY <3>2, <3>4
  <2>4. rows' \subseteq rows \/ \E a \in todo : WriteRow(a) \/ WriteTombstone(a)
    BY DEF Next, Polling, Moves, Change, StartPoll, GetRecord, GetList, GetTruncated, Answer,
           StartTombstones, WriteRecord, Thin, Stamp, Abort
  <2> QED
    BY <2>2, <2>3, <2>4
<1> QED
  BY <1>1, AlwaysPollInv, LadderPolls, PTL DEF LadderSpec, RowsTellTruth

\* Every set of times that is not empty has an earliest one.
LEMMA EarliestExists ==
    ASSUME NEW T \in SUBSET Nat, T # {}
    PROVE  (CHOOSE t \in T : \A u \in T : t <= u) \in T
           /\ \A u \in T : (CHOOSE t \in T : \A v \in T : t <= v) <= u
<1> DEFINE less == OpToRel(<, Nat)
<1>1. \A x, y \in Nat : x < y => <<x, y>> \in less
  BY DEF OpToRel
<1>2. IsWellFoundedOn(less, Nat)
  BY NatLessThanWellFounded
<1> HIDE DEF less
<1>3. PICK t \in T : \A u \in T : ~(<<u, t>> \in less)
  BY <1>2, WFMin
<1>4. \A u \in T : t <= u
  <2> SUFFICES ASSUME NEW u \in T, ~(t <= u) PROVE FALSE
    OBVIOUS
  <2>1. u < t /\ u \in Nat /\ t \in Nat
    OBVIOUS
  <2> QED
    BY <1>1, <1>3, <2>1
<1> QED
  BY <1>3, <1>4

\* Every set of rows of one hour has an oldest one.
LEMMA OldestRow ==
    ASSUME Typed, NEW S \in SUBSET rows, S # {}
    PROVE  \E q \in S : \A r \in S : q.at <= r.at
<1> DEFINE times == {r.at : r \in S}
           t == CHOOSE t \in times : \A u \in times : t <= u
<1>1. times \in SUBSET Nat /\ times # {}
  BY DEF Typed, Row
<1>2. t \in times /\ \A u \in times : t <= u
  <2> HIDE DEF times
  <2> QED
    BY <1>1, EarliestExists
<1> HIDE DEF t
<1> QED
  BY <1>2

\* README SNAPSHOT_RETENTION_DAYS: no hour of a staker is lost, and recent rows
\* are not touched, whenever and however often the table is thinned.
THEOREM ThinningKeepsHoursHolds == LadderSpec => ThinningKeepsHours
<1> DEFINE Kept(r) == /\ \E q \in rows' : SameHour(r, q) /\ q.at <= r.at
                      /\ ~Old(r) => \E q \in rows' : q.addr = r.addr /\ q.at = r.at
<1>1. PollInv /\ [Next]_vars => [\A r \in rows : Kept(r)]_rows
  <2> SUFFICES ASSUME PollInv, Next, NEW r \in rows
               PROVE  Kept(r)
    BY DEF vars
  <2>1. Typed /\ Keyed /\ r \in Row /\ r.at \in Nat
    BY DEF PollInv, Typed, Row
  <2>2. ASSUME NEW q \in rows', q.addr = r.addr, q.at = r.at PROVE Kept(r)
    BY <2>1, <2>2 DEF SameHour
  <2>3. CASE r \in rows'
    BY <2>2, <2>3
  <2>4. ASSUME NEW a \in todo, NEW staked \in BOOLEAN, Put(a, staked), r \notin rows'
        PROVE  Kept(r)
    <3> DEFINE new == [addr |-> a, at |-> now, staked |-> staked]
    <3>1. a \in Addrs
      BY <2>1 DEF Typed
    <3>2. new \in rows' /\ r.addr = a /\ r.at = now
      BY <2>1, <2>4, <3>1, PutFacts
    <3> QED
      BY <2>2, <3>2
  <2>5. CASE Thin /\ r \notin rows'
    <3>1. Old(r) /\ rows' = {p \in rows : ~Old(p) \/ \A q \in rows : SameHour(p, q) => p.at <= q.at}
      BY <2>5 DEF Thin
    <3> DEFINE S == {q \in rows : SameHour(r, q)}
    <3>2. r \in S
      BY DEF SameHour
    <3>3. PICK q \in S : \A p \in S : q.at <= p.at
      BY <2>1, <3>2, OldestRow
    <3>4. \A p \in rows : SameHour(q, p) => q.at <= p.at
      BY <3>3 DEF SameHour
    <3>5. q \in rows' /\ SameHour(r, q) /\ q.at <= r.at
      BY <3>1, <3>2, <3>3, <3>4
    <3> QED
      BY <3>1, <3>5
  <2>6. \/ r \in rows'
        \/ \E a \in todo, staked \in BOOLEAN : Put(a, staked)
        \/ Thin
    BY DEF Next, Polling, Moves, Change, StartPoll, GetRecord, GetList, GetTruncated, Answer,
           WriteRow, WriteTombstone, StartTombstones, WriteRecord, Stamp, Abort
  <2> QED
    BY <2>3, <2>4, <2>5, <2>6
<1> QED
  BY <1>1, AlwaysPollInv, LadderPolls, PTL DEF LadderSpec, ThinningKeepsHours

-----------------------------------------------------------------------------
\* The weights.

LEMMA LadderFacts ==
    ASSUME PollInv, SeenInv
    PROVE  /\ Start \in Nat \ {0} /\ Window \in Nat \ {0} /\ MaxPolls \in Nat /\ Retention \in Nat
           /\ now \in 0..MaxPolls /\ (pc # "idle" => now \in 1..MaxPolls)
           /\ rows \subseteq Row /\ \A r \in rows : r.at \in 1..now /\ r.at \in 1..MaxPolls
           /\ Reached => Start \in 1..MaxPolls
           /\ Staked \subseteq Addrs
BY EpochConstants, SnapshotConstants DEF PollInv, Typed, NotAhead, Reached, Staked

\* A poll's list is answered.
LEMMA ListIsSeen ==
    ASSUME PollInv, SeenInv, Settled, GetList \/ GetTruncated,
           seen' = [seen EXCEPT ![now] = Staked]
    PROVE  SeenInv' /\ Settled'
<1>1. /\ pc = "list" /\ pc' = "write" /\ UNCHANGED <<pool, now, rows>>
      /\ \/ faults' = faults /\ listed' = Present
         \/ faults' = faults + 1
  BY DEF GetList, GetTruncated, Answer
<1>2. /\ now \in 1..MaxPolls /\ \A r \in rows : r.at \in 1..MaxPolls /\ r.at # now
      /\ Start \in Nat /\ faults \in Nat /\ MaxPolls \in Nat
  BY <1>1, LadderFacts DEF PollInv, NotAhead, SeenInv
<1>3. /\ seen' \in [1..MaxPolls -> SUBSET Addrs] /\ seen'[now] = Staked
      /\ \A t \in 1..MaxPolls : t # now => seen'[t] = seen[t]
  BY <1>2, LadderFacts DEF SeenInv
<1>4. Staked' = Staked /\ Present' = Present
  BY <1>1 DEF Staked, Present
<1>5. SeenInv'
  <2>1. \A t \in 1..MaxPolls : t > now => seen'[t] = {}
    BY <1>2, <1>3 DEF SeenInv
  <2>2. \A r \in rows : r.staked => r.addr \in seen'[r.at]
    BY <1>2, <1>3 DEF SeenInv
  <2>3. faults' \in Nat /\ (faults' = 0 => listed' = Present')
    BY <1>1, <1>2, <1>4
  <2> QED
    BY <1>1, <1>2, <1>3, <1>4, <2>1, <2>2, <2>3 DEF SeenInv
<1>6. Settled'
  <2> SUFFICES ASSUME Young', Reached' PROVE StakedAt(Start)' = seen'[Start]
    BY DEF Settled
  <2>1. now > Start /\ Young
    BY <1>1, <1>2 DEF Young, Reached, Written
  <2>2. Reached /\ Start \in 1..MaxPolls /\ Start # now
    BY <1>2, <2>1, LadderFacts DEF Reached
  <2>3. StakedAt(Start) = seen[Start] /\ StakedAt(Start)' = StakedAt(Start)
    BY <1>1, <2>1, <2>2 DEF Settled, StakedAt
  <2> QED
    BY <1>3, <2>2, <2>3
<1> QED
  BY <1>5, <1>6

\* Steps that neither see the pool nor touch the rows.
LEMMA QuietSeen ==
    ASSUME PollInv, SeenInv, Settled, UNCHANGED <<rows, seen>>,
           Moves \/ StartPoll \/ GetRecord \/ WriteRecord \/ Stamp \/ Abort
    PROVE  SeenInv' /\ Settled'
<1>1. /\ Start \in Nat /\ MaxPolls \in Nat /\ Retention \in Nat /\ now \in Nat /\ faults \in Nat
      /\ (Reached => Start \in 1..MaxPolls)
  BY LadderFacts DEF SeenInv
<1>2. StakedAt(Start)' = StakedAt(Start)
  BY DEF StakedAt
<1>3. CASE Moves
  <2>1. pc' = pc /\ now' = now /\ faults' = faults /\ pc \in {"idle", "list"}
    BY <1>3 DEF Moves, Change, job
  <2>2. SeenInv'
    BY <2>1 DEF SeenInv
  <2>3. Young' = Young /\ Reached' = Reached
    BY <2>1 DEF Young, Reached, Written
  <2> QED
    BY <1>2, <2>2, <2>3 DEF Settled
<1>4. CASE StartPoll
  <2>1. pc = "idle" /\ pc' = "record" /\ now' = now + 1 /\ faults' = faults
    BY <1>4 DEF StartPoll
  <2>2. SeenInv'
    BY <1>1, <2>1 DEF SeenInv
  <2>3. (Young' => Young) /\ (Reached' => Reached)
    BY <1>1, <2>1 DEF Young, Reached, Written
  <2> QED
    BY <1>2, <2>2, <2>3 DEF Settled
<1>5. CASE GetRecord
  <2>1. pc = "record" /\ pc' = "list" /\ now' = now /\ faults' = faults
    BY <1>5 DEF GetRecord
  <2>2. SeenInv'
    BY <1>1, <2>1 DEF SeenInv
  <2>3. Young' = Young /\ Reached' = Reached
    BY <2>1 DEF Young, Reached, Written
  <2> QED
    BY <1>2, <2>2, <2>3 DEF Settled
<1>6. CASE WriteRecord
  <2>1. /\ pc = "tombstones" /\ now' = now /\ faults' = faults
        /\ pc' = "idle" \/ (pc' = "thin" /\ Retention > 0)
    BY <1>6 DEF WriteRecord, Leave
  <2>2. SeenInv'
    BY <1>1, <2>1 DEF SeenInv
  <2>3. Young' = Young /\ (Reached' => Reached)
    BY <2>1 DEF Young, Reached, Written
  <2> QED
    BY <1>2, <2>2, <2>3 DEF Settled
<1>7. CASE Stamp
  <2>1. pc = "stamp" /\ pc' = "idle" /\ now' = now /\ faults' = faults
    BY <1>7 DEF Stamp, Leave
  <2>2. SeenInv'
    BY <1>1, <2>1 DEF SeenInv
  <2>3. Young' = Young /\ (Reached' => Reached)
    BY <2>1 DEF Young, Reached, Written
  <2> QED
    BY <1>2, <2>2, <2>3 DEF Settled
<1>8. CASE Abort
  <2>1. pc' = "idle" /\ now' = now /\ faults' = faults + 1
    BY <1>8 DEF Abort, Leave
  <2>2. SeenInv'
    BY <1>1, <2>1 DEF SeenInv
  <2>3. ~Young'
    BY <1>1, <2>1 DEF Young
  <2> QED
    BY <2>2, <2>3 DEF Settled
<1> QED
  BY <1>3, <1>4, <1>5, <1>6, <1>7, <1>8

\* The rows of the listed addresses are written.
LEMMA WritingSeen ==
    ASSUME PollInv, SeenInv, Settled, UNCHANGED seen, NEW a \in todo, WriteRow(a)
    PROVE  SeenInv' /\ Settled'
<1>1. /\ Start \in Nat /\ MaxPolls \in Nat /\ Retention \in Nat /\ now \in Nat
      /\ Typed /\ Keyed /\ a \in Addrs
  BY LadderFacts DEF PollInv, Typed
<1>2. /\ pc = "write" /\ pc' = "write" /\ UNCHANGED <<pool, now, listed, faults>>
      /\ Put(a, pool[a] = "staked")
  BY DEF WriteRow
<1>3. \A r \in rows' : r = Fresh(a) \/ r \in rows
  BY <1>1, <1>2, PutFacts DEF Fresh
<1>4. \A r : r.at # now => (r \in rows' <=> r \in rows)
  BY <1>2 DEF Put
<1>5. Fresh(a).addr = a /\ Fresh(a).at = now /\ (Fresh(a).staked => a \in seen[now])
  BY <1>1, <1>2 DEF Fresh, SeenInv, Staked
<1>6. SeenInv'
  <2>1. \A r \in rows' : r.staked => r.addr \in seen[r.at]
    BY <1>3, <1>5 DEF SeenInv
  <2>2. Staked' = Staked /\ Present' = Present
    BY <1>2 DEF Staked, Present
  <2> QED
    BY <1>2, <2>1, <2>2 DEF SeenInv
<1>7. Settled'
  <2> SUFFICES ASSUME Young', Reached' PROVE StakedAt(Start)' = seen[Start]
    BY DEF Settled
  <2>1. now > Start /\ Young /\ Reached
    BY <1>1, <1>2 DEF Young, Reached, Written
  <2>2. StakedAt(Start)' = StakedAt(Start)
    BY <1>1, <1>4, <2>1 DEF StakedAt
  <2> QED
    BY <2>1, <2>2 DEF Settled
<1> QED
  BY <1>6, <1>7

\* The list is written: at the epoch's first poll its stakers are on record.
LEMMA WrittenSeen ==
    ASSUME PollInv, SeenInv, Settled, UNCHANGED seen, StartTombstones
    PROVE  SeenInv' /\ Settled'
<1>1. /\ Start \in Nat /\ MaxPolls \in Nat /\ Retention \in Nat /\ now \in Nat
  BY LadderFacts
<1>2. /\ pc = "write" /\ pc' = "tombstones" /\ todo = {} /\ UNCHANGED <<pool, now, rows, faults>>
  BY DEF StartTombstones
<1>3. SeenInv'
  BY <1>1, <1>2 DEF SeenInv
<1>4. Settled'
  <2> SUFFICES ASSUME Young', Reached' PROVE StakedAt(Start)' = seen[Start]
    BY DEF Settled
  <2>1. Young /\ StakedAt(Start)' = StakedAt(Start)
    BY <1>2 DEF Young, StakedAt
  <2>2. CASE now > Start
    BY <1>1, <2>1, <2>2 DEF Settled, Reached
  <2>3. CASE now = Start
    <3>1. listed = Present /\ seen[Start] = Staked
      BY <1>2, <2>1, <2>3 DEF SeenInv, Young
    <3>2. \A b \in Present : Fresh(b) \in rows
      BY <1>2, <3>1 DEF PollInv, Writing
    <3>3. \A r \in rows : r.at = Start => r.addr \in Present /\ r = Fresh(r.addr)
      BY <1>2, <2>3, <3>1 DEF PollInv, Writing
    <3>4. \A b : Fresh(b).addr = b /\ Fresh(b).at = Start /\ Fresh(b).staked = (pool[b] = "staked")
      BY <2>3 DEF Fresh
    <3>5. \A b : b \in StakedAt(Start) <=> b \in Staked
      <4> TAKE b
      <4>1. ASSUME b \in StakedAt(Start) PROVE b \in Staked
        <5>1. PICK r \in rows : r.at = Start /\ r.staked /\ r.addr = b
          BY <4>1 DEF StakedAt
        <5>2. b \in Present /\ r = Fresh(b)
          BY <3>3, <5>1
        <5> QED
          BY <3>4, <5>1, <5>2 DEF Staked, Present
      <4>2. ASSUME b \in Staked PROVE b \in StakedAt(Start)
        <5>1. b \in Present /\ pool[b] = "staked"
          BY <4>2 DEF Staked, Present
        <5>2. PICK r \in rows : r.addr = b /\ r.at = Start /\ r.staked
          BY <3>2, <3>4, <5>1
        <5> QED
          BY <5>2 DEF StakedAt
      <4> QED
        BY <4>1, <4>2
    <3> QED
      BY <2>1, <3>1, <3>5
  <2> QED
    BY <1>2, <2>2, <2>3 DEF Reached
<1> QED
  BY <1>3, <1>4

\* A zero row adds no staker and hides none of this poll.
LEMMA TombstoneSeen ==
    ASSUME PollInv, SeenInv, Settled, UNCHANGED seen, NEW a \in todo, WriteTombstone(a)
    PROVE  SeenInv' /\ Settled'
<1> DEFINE zero == [addr |-> a, at |-> now, staked |-> FALSE]
<1>1. /\ Start \in Nat /\ MaxPolls \in Nat /\ Retention \in Nat /\ now \in Nat
      /\ Typed /\ Keyed /\ a \in Addrs
  BY LadderFacts DEF PollInv, Typed
<1>2. /\ pc = "tombstones" /\ pc' = "tombstones" /\ UNCHANGED <<pool, now, faults>> /\ Put(a, FALSE)
  BY DEF WriteTombstone
<1>3. /\ \A r \in rows' : r = zero \/ r \in rows
      /\ \A r \in rows : r \in rows' \/ (r.addr = a /\ r.at = now)
  BY <1>1, <1>2, PutFacts
<1>4. ~zero.staked
  OBVIOUS
<1> HIDE DEF zero
<1>5. \A r \in rows : r.addr = a /\ r.at = now => ~r.staked
  BY <1>2 DEF PollInv, Writing, Departed
<1>6. \A r : r.staked => (r \in rows' <=> r \in rows)
  BY <1>3, <1>4, <1>5
<1>7. SeenInv'
  <2>1. \A r \in rows' : r.staked => r.addr \in seen[r.at]
    BY <1>6 DEF SeenInv
  <2> QED
    BY <1>2, <2>1 DEF SeenInv
<1>8. Settled'
  <2>1. StakedAt(Start)' = StakedAt(Start)
    BY <1>6 DEF StakedAt
  <2>2. Young' = Young /\ Reached' = Reached
    BY <1>2 DEF Young, Reached, Written
  <2> QED
    BY <2>1, <2>2 DEF Settled
<1> QED
  BY <1>7, <1>8

\* Thinning deletes no row of the epoch's first poll while it is young.
LEMMA ThinningSeen ==
    ASSUME PollInv, SeenInv, Settled, UNCHANGED seen, Thin
    PROVE  SeenInv' /\ Settled'
<1>1. /\ Start \in Nat /\ MaxPolls \in Nat /\ Retention \in Nat /\ now \in Nat
  BY LadderFacts
<1>2. /\ pc = "thin" /\ pc' = "stamp" /\ UNCHANGED <<pool, now, faults>>
      /\ rows' \subseteq rows /\ \A r \in rows : Old(r) \/ r \in rows'
  BY DEF Thin
<1>3. SeenInv'
  <2>1. \A r \in rows' : r.staked => r.addr \in seen[r.at]
    BY <1>2 DEF SeenInv
  <2> QED
    BY <1>2, <2>1 DEF SeenInv
<1>4. Settled'
  <2> SUFFICES ASSUME Young', Reached' PROVE StakedAt(Start)' = seen[Start]
    BY DEF Settled
  <2>1. Young /\ Reached /\ Retention > 0
    BY <1>2 DEF Young, Reached, Written, SeenInv
  <2>2. \A r \in rows : r.at = Start => ~Old(r)
    BY <1>1, <2>1 DEF Young, Old
  <2>3. StakedAt(Start)' = StakedAt(Start)
    BY <1>2, <2>2 DEF StakedAt
  <2> QED
    BY <2>1, <2>3 DEF Settled
<1> QED
  BY <1>3, <1>4

LEMMA PollSeen == PollInv /\ SeenInv /\ Settled /\ PollStep => SeenInv' /\ Settled'
<1> SUFFICES ASSUME PollInv, SeenInv, Settled, PollStep PROVE SeenInv' /\ Settled'
  OBVIOUS
<1>1. GetList \/ GetTruncated => seen' = [seen EXCEPT ![now] = Staked]
  BY DEF PollStep, GetList, GetTruncated, Answer
<1>2. ~(pc = "list" /\ pc' = "write") => UNCHANGED seen
  BY DEF PollStep
<1>3. Moves \/ StartPoll \/ GetRecord \/ WriteRecord \/ Stamp \/ Abort => UNCHANGED <<rows, seen>>
  BY <1>2 DEF Moves, Change, StartPoll, GetRecord, WriteRecord, Stamp, Abort, Leave, job
<1>4. (\E a \in todo : WriteRow(a) \/ WriteTombstone(a)) \/ StartTombstones \/ Thin => UNCHANGED seen
  BY <1>2 DEF WriteRow, WriteTombstone, StartTombstones, Thin
<1>5. \/ GetList \/ GetTruncated
      \/ Moves \/ StartPoll \/ GetRecord \/ WriteRecord \/ Stamp \/ Abort
      \/ \E a \in todo : WriteRow(a) \/ WriteTombstone(a)
      \/ StartTombstones \/ Thin
  BY DEF PollStep, Next, Polling
<1> QED
  BY <1>1, <1>3, <1>4, <1>5, ListIsSeen, QuietSeen, WritingSeen, WrittenSeen, TombstoneSeen,
     ThinningSeen

\* What was told stays fit when a poll goes on: the weights of an earlier poll
\* are not touched.
LEMMA FitLasts ==
    ASSUME PollInv, SeenInv, NEW a, Fit(a), PollStep, Reached
    PROVE  Fit(a)' /\ Reached'
<1>1. /\ Start \in 1..MaxPolls /\ MaxPolls \in Nat /\ Retention \in Nat /\ now \in Nat
      /\ faults \in Nat
  BY LadderFacts DEF SeenInv
<1>2. /\ faults' = faults \/ faults' = faults + 1
      /\ \/ now' = now /\ (pc' = pc \/ pc' # "record")
         \/ now' = now + 1
  BY DEF PollStep, Next, Polling, Moves, Change, StartPoll, GetRecord, GetList, GetTruncated,
         Answer, WriteRow, WriteTombstone, StartTombstones, WriteRecord, Thin, Stamp, Abort, Leave, job
<1>3. pc' = "list" => pc \in {"list", "record"} /\ now' = now
  BY DEF PollStep, Next, Polling, Moves, Change, StartPoll, GetRecord, GetList, GetTruncated,
         Answer, WriteRow, WriteTombstone, StartTombstones, WriteRecord, Thin, Stamp, Abort, Leave, job
<1>4. pc' = "write" => pc \in {"list", "write"} /\ now' = now
  BY DEF PollStep, Next, Polling, Moves, Change, StartPoll, GetRecord, GetList, GetTruncated,
         Answer, WriteRow, WriteTombstone, StartTombstones, WriteRecord, Thin, Stamp, Abort, Leave, job
<1>5. Reached'
  BY <1>1, <1>2, <1>3, <1>4 DEF Reached, Written
<1>6. Young' => Young
  BY <1>1, <1>2 DEF Young
<1>7. /\ \A t \in 1..MaxPolls : seen[t] # {} => seen'[t] = seen[t]
      /\ seen'[Start] = seen[Start]
  <2>1. CASE UNCHANGED seen
    BY <2>1
  <2>2. CASE pc = "list" /\ seen' = [seen EXCEPT ![now] = Staked]
    <3>1. now \in 1..MaxPolls /\ seen[now] = {} /\ now # Start
      BY <1>1, <2>2, LadderFacts DEF SeenInv, Reached, Written
    <3> QED
      BY <1>1, <2>2, <3>1 DEF SeenInv
  <2> QED
    BY <2>1, <2>2 DEF PollStep
<1>8. (\E t \in 1..MaxPolls : a.staked \subseteq seen[t] /\ seen[t] # {})
          => \E t \in 1..MaxPolls : a.staked \subseteq seen'[t]
  BY <1>7
<1>9. Fit(a)'
  BY <1>6, <1>7, <1>8 DEF Fit
<1> QED
  BY <1>5, <1>9

\* Whoever a poll's rows show as staked was staked when its list was answered.
LEMMA RowsWereSeen ==
    ASSUME PollInv, SeenInv, NEW t, StakedAt(t) # {}
    PROVE  t \in 1..MaxPolls /\ StakedAt(t) \subseteq seen[t]
BY LadderFacts DEF StakedAt, SeenInv

\* The weights that the ladder gives are fit.
LEMMA WeightsFit ==
    ASSUME PollInv, SeenInv, Settled, pc = "idle", now >= Start,
           first # NULL => first.at \in Start..MaxPolls,
           NEW history \in BOOLEAN
    PROVE  Fit(Weights(history))
<1> DEFINE after == IF Anchor = NULL THEN {} ELSE PollsIn(Anchor, Anchor + Window - 1)
           before == IF Anchor = NULL THEN {} ELSE PollsIn(Anchor - Window, Anchor - 1)
           w == Weights(history)
<1>1. /\ Start \in Nat \ {0} /\ Window \in Nat \ {0} /\ MaxPolls \in Nat /\ now \in Nat
      /\ Anchor # NULL => Anchor \in Start..MaxPolls /\ Anchor \in Nat
  BY LadderFacts, SnapshotConstants DEF Anchor
<1>2. \/ after # {} /\ w = Told("definitive", EarliestPoll(after))
      \/ w = Told("wait", {})
      \/ w = Told("fallback", LatestPoll(before))
      \/ w = Told("none", {})
  BY DEF Weights
<1> HIDE DEF w
<1>3. \A k, T : Told(k, T).kind = k /\ Told(k, T).staked = T /\ Told(k, T).from = Anchor
  BY DEF Told
<1>4. w.staked # {} => \E t \in 1..MaxPolls : w.staked \subseteq seen[t]
  <2>1. \A T : EarliestPoll(T) # {} => \E t \in 1..MaxPolls : EarliestPoll(T) \subseteq seen[t]
    BY RowsWereSeen DEF EarliestPoll
  <2>2. \A T : LatestPoll(T) # {} => \E t \in 1..MaxPolls : LatestPoll(T) \subseteq seen[t]
    BY RowsWereSeen DEF LatestPoll
  <2> HIDE DEF after, before
  <2> QED
    BY <1>2, <1>3, <2>1, <2>2
<1>5. ASSUME Young, w.kind = "definitive", w.from = Start, seen[Start] # {}
      PROVE  w.staked = seen[Start]
  <2>1. after # {} /\ w.staked = EarliestPoll(after) /\ Anchor = Start
    <3> HIDE DEF after, before
    <3> QED
      BY <1>2, <1>3, <1>5
  <2>2. Reached
    BY <1>1 DEF Reached, Written
  <2>3. StakedAt(Start) = seen[Start]
    BY <1>5, <2>2 DEF Settled
  <2>4. after = PollsIn(Start, Start + Window - 1) /\ Start # NULL
    BY <1>1, <2>1, SnapshotConstants
  <2>5. after \subseteq Nat /\ Start \in after /\ \A t \in after : Start <= t
    <3>1. \E r \in rows : r.at = Start
      BY <1>5, <2>3 DEF StakedAt
    <3> QED
      BY <1>1, <2>4, <3>1 DEF PollsIn
  <2>6. (CHOOSE t \in after : \A u \in after : t <= u) = Start
    <3> DEFINE c == CHOOSE t \in after : \A u \in after : t <= u
    <3>1. c \in after /\ c <= Start
      <4> HIDE DEF after
      <4> QED
        BY <2>5, EarliestExists
    <3> HIDE DEF after, c
    <3>2. c = Start
      BY <1>1, <2>5, <3>1
    <3> QED
      BY <3>2 DEF c
  <2> QED
    BY <2>1, <2>3, <2>6 DEF EarliestPoll
<1> QED
  BY <1>4, <1>5 DEF Fit, w

LEMMA NothingFits == Fit(Nothing)
BY DEF Fit, Nothing

LEMMA InitLadderInv == LadderInit => LadderInv
<1> SUFFICES ASSUME LadderInit PROVE LadderInv
  OBVIOUS
<1>1. PollInv
  BY InitPollInv DEF LadderInit
<1>2. SeenInv
  BY SnapshotConstants DEF SeenInv, LadderInit, Init
<1>3. ~Reached
  BY EpochConstants DEF Reached, LadderInit, Init
<1> QED
  BY <1>1, <1>2, <1>3, NothingFits DEF LadderInv, Settled, ToldInv, LadderInit

LEMMA StepLadderInv == LadderInv /\ [LadderNext]_ladderVars => LadderInv'
<1> SUFFICES ASSUME LadderInv, [LadderNext]_ladderVars PROVE LadderInv'
  OBVIOUS
<1>1. PollInv /\ SeenInv /\ Settled /\ ToldInv /\ PollInv'
  BY LadderPolls, StepPollInv DEF LadderInv
<1>2. ASSUME UNCHANGED <<vars, seen>>
      PROVE  SeenInv' /\ Settled' /\ Reached' = Reached /\ \A a : Fit(a)' = Fit(a)
  <2>1. Young' = Young /\ Reached' = Reached
    BY <1>2 DEF Young, Reached, Written, vars, job
  <2>2. SeenInv'
    BY <1>1, <1>2 DEF SeenInv, vars, job, Staked, Present
  <2>3. Settled'
    BY <1>1, <1>2, <2>1 DEF Settled, StakedAt, vars
  <2> QED
    BY <1>2, <2>1, <2>2, <2>3 DEF Fit
<1>3. CASE PollStep
  <2>1. SeenInv' /\ Settled'
    BY <1>1, <1>3, PollSeen
  <2>2. ToldInv'
    <3>1. UNCHANGED <<first, memo>> /\ answer' = Nothing
      BY <1>3 DEF PollStep
    <3>2. Fit(answer)'
      BY <3>1 DEF Fit, Nothing
    <3>3. memo # NULL => Fit(memo)' /\ Reached'
      BY <1>1, <1>3, <3>1, FitLasts DEF ToldInv, Fit
    <3> QED
      BY <1>1, <3>1, <3>2, <3>3 DEF ToldInv
  <2> QED
    BY <1>1, <2>1, <2>2 DEF LadderInv
<1>4. ASSUME NEW kind \in {"reward", "restake"}, NEW t \in Start..MaxPolls, StoreInEpoch(kind, t)
      PROVE  LadderInv'
  <2>1. /\ UNCHANGED <<vars, seen>> /\ memo' = memo /\ answer' = Nothing
        /\ first' = [kind |-> kind, at |-> t]
    BY <1>4 DEF StoreInEpoch
  <2>2. Fit(answer)' /\ Fit(memo)' = Fit(memo)
    BY <1>2, <2>1 DEF Fit, Nothing
  <2> QED
    BY <1>1, <1>2, <2>1, <2>2 DEF LadderInv, ToldInv
<1>5. ASSUME NEW history \in BOOLEAN, Ask(history)
      PROVE  LadderInv'
  <2>1. /\ UNCHANGED <<vars, seen, first>> /\ pc = "idle" /\ now >= Start
        /\ (answer' = memo /\ memo # NULL) \/ answer' = Weights(history)
        /\ memo' = answer' \/ memo' = memo
    BY <1>5 DEF Ask
  <2>2. Reached
    BY <2>1, LadderFacts, <1>1 DEF Reached, Written
  <2>3. Fit(answer')
    BY <1>1, <2>1, WeightsFit DEF ToldInv
  <2>4. Fit(answer)' /\ (memo' # NULL => Fit(memo)')
    BY <1>1, <1>2, <2>1, <2>3 DEF Fit, ToldInv
  <2> QED
    BY <1>1, <1>2, <2>1, <2>2, <2>4 DEF LadderInv, ToldInv
<1>6. CASE Restart
  <2>1. UNCHANGED <<vars, seen, first>> /\ memo' = NULL /\ answer' = Nothing
    BY <1>6 DEF Restart
  <2>2. Fit(answer)'
    BY <2>1 DEF Fit, Nothing
  <2> QED
    BY <1>1, <1>2, <2>1, <2>2 DEF LadderInv, ToldInv
<1>7. CASE UNCHANGED ladderVars
  <2>1. UNCHANGED <<vars, seen, first, memo, answer>>
    BY <1>7 DEF ladderVars, ladder
  <2>2. Fit(answer)' = Fit(answer) /\ Fit(memo)' = Fit(memo)
    BY <1>2, <2>1 DEF Fit
  <2> QED
    BY <1>1, <1>2, <2>1, <2>2 DEF LadderInv, ToldInv
<1> QED
  BY <1>3, <1>4, <1>5, <1>6, <1>7 DEF LadderNext

\* What the weights rest on holds of every step of polls, ingest, questions and
\* restarts.
THEOREM AlwaysLadderInv == LadderSpec => []LadderInv
BY InitLadderInv, StepLadderInv, PTL DEF LadderSpec

\* db.py "a single poll is the ladder state at that moment": for any polls lost,
\* rows thinned, and older rows of the epoch that came in late, whoever weighs
\* was staked at one and the same poll.
THEOREM WeighedWereStakedHolds == LadderSpec => []WeighedWereStaked
<1>1. LadderInv => WeighedWereStaked
  BY DEF LadderInv, ToldInv, Fit, WeighedWereStaked
<1> QED
  BY <1>1, AlwaysLadderInv, PTL

\* When nothing failed and the rows of the epoch's first poll are too young to
\* be thinned, the weights are all its stakers, whenever and however often they
\* are asked for, over any restarts.
THEOREM UndisturbedIsCompleteHolds == LadderSpec => []UndisturbedIsComplete
<1>1. LadderInv => UndisturbedIsComplete
  BY DEF LadderInv, ToldInv, Fit, Young, UndisturbedIsComplete
<1> QED
  BY <1>1, AlwaysLadderInv, PTL
=============================================================================

---------------------------- MODULE CycleProofs ----------------------------
(***************************************************************************)
(* Proofs about the cycle tables, for any pool of window data and any      *)
(* number of batches, closes per tick, revisions, faults and requests.     *)
(*                                                                         *)
(*   - CycleClose by itself: the tables are typed, the windows tile the    *)
(*     history, every credit is backed, verdicts are final and credits     *)
(*     never disappear;                                                    *)
(*   - CycleCarry: CycleClose implements CarryChain, so what holds of the  *)
(*     chain holds of the tables;                                          *)
(*   - ReadApi: what a client reads fits together.                         *)
(***************************************************************************)
EXTENDS CycleCarry, ReadApi, CarryRuleProofs, SequenceTheorems, WellFoundedInduction,
        FiniteSetTheorems, FunctionTheorems, TLAPS

\* A non-empty set of row ids has a newest one, and Latest picks it.
LEMMA LatestIsNewest ==
    ASSUME NEW n \in Nat, NEW ids \in SUBSET (1..n), ids # {}
    PROVE  Latest(ids) \in ids /\ \A j \in ids : j <= Latest(ids)
<1> DEFINE less == OpToRel(<, Nat)
           gaps == {g \in Nat : \E i \in ids : g = n - i}
<1>1. gaps \subseteq Nat /\ gaps # {}
  <2>1. PICK i \in ids : TRUE
    OBVIOUS
  <2>2. n - i \in Nat
    BY <2>1
  <2>3. n - i \in gaps
    BY <2>1, <2>2
  <2> QED
    BY <2>3
<1>2. \A x, y \in Nat : x < y => <<x, y>> \in less
  BY DEF OpToRel
<1>3. IsWellFoundedOn(less, Nat)
  BY NatLessThanWellFounded
<1> HIDE DEF less
<1>4. PICK g \in gaps : \A h \in gaps : ~(<<h, g>> \in less)
  <2> HIDE DEF gaps
  <2> QED
    BY <1>1, <1>3, WFMin
<1>5. PICK i \in ids : g = n - i
  BY <1>4
<1>6. \A j \in ids : j <= i
  <2> TAKE j \in ids
  <2>1. n - j \in gaps /\ n - j \in Nat /\ g \in Nat
    BY <1>1, <1>4
  <2>2. ~(n - j < g)
    BY <1>2, <1>4, <2>1
  <2> QED
    BY <1>5, <2>2
<1> QED
  BY <1>6 DEF Latest

-----------------------------------------------------------------------------
\* The inductive invariant.  WindowsTile and LedgerBacked need the facts that
\* connect the tables with the scheduler's control state: which cycle a phase
\* works on, that keys are unique, and that closed blocks grow with the ids.

N == Len(cycles)

Ordered ==
    \A i, j \in DOMAIN cycles : i < j =>
        cycles[i].closed \in Nat /\ cycles[i].closed <= cycles[j].opened

Keyed ==
    /\ \A r \in shares : r.cycle \in DOMAIN cycles
    /\ \A r, q \in shares : r.cycle = q.cycle /\ r.staker = q.staker => r = q

SkippedShowsNothing ==
    \A i \in DOMAIN cycles : cycles[i].status = "SKIPPED" => RowsOf(i) = {}

Writing == {"clear", "skip", "lines"}
Settling == {"reasons", "credit"}

Control ==
    /\ pc \in Writing => /\ N # 0 /\ current = N
                         /\ cycles[N].status = "PENDING" /\ HasBatch(N)
    /\ pc \in Settling => /\ N # 0 /\ current = N
    /\ pc \in Settling \cup {"recredit"} => current \in JudgedIds
    /\ pc \in {"credit", "recredit"} => todo \subseteq OkStakers(current)
    /\ pc \in {"reopen", "open"} => PendingIds = {}
    /\ pc \in Writing \cup Settling \cup {"reopen"} => rounds > 0
    /\ pc = "skip" => RowsOf(current) = {}

IInv ==
    /\ TypeOK /\ WindowsTile /\ Ordered /\ Keyed
    /\ SkippedShowsNothing /\ LedgerBacked /\ Control

-----------------------------------------------------------------------------
\* Facts about the tables and what one statement does to them.

LEMMA TableFacts ==
    ASSUME TypeOK
    PROVE  /\ N \in Nat /\ DOMAIN cycles = 1..N
           /\ \A i \in 1..N : /\ cycles[i] \in Cycle
                              /\ i \in PendingIds <=> cycles[i].status = "PENDING"
                              /\ i \in ClosedIds <=> cycles[i].status # "PENDING"
           /\ PendingIds \subseteq 1..N /\ ClosedIds \subseteq 1..N
           /\ JudgedIds \subseteq ClosedIds
BY DEF TypeOK, N, PendingIds, ClosedIds, JudgedIds

LEMMA PredecessorType == TypeOK => Predecessor \in Balance
<1> SUFFICES ASSUME TypeOK PROVE Predecessor \in Balance
  OBVIOUS
<1>1. CASE ClosedIds = {}
  BY <1>1, CarryConstants DEF Predecessor, NoPredecessor, Balance
<1>2. CASE ClosedIds # {}
  <2>1. Latest(ClosedIds) \in 1..N
    BY <1>2, TableFacts, LatestIsNewest
  <2>2. cycles[Latest(ClosedIds)] \in Cycle
    BY <2>1, TableFacts
  <2> QED
    BY <1>2, <2>2 DEF Predecessor, Balance, Cycle
<1> QED
  BY <1>1, <1>2

\* When nothing is pending the newest cycle is the last closed one.
LEMMA NewestIsClosed ==
    ASSUME TypeOK, PendingIds = {}
    PROVE  /\ ClosedIds = {} <=> N = 0
           /\ N # 0 => Latest(ClosedIds) = N /\ N \in ClosedIds
<1>1. ClosedIds = 1..N
  BY TableFacts
<1>2. N # 0 => N \in 1..N
  BY TableFacts
<1>3. N # 0 => Latest(ClosedIds) \in 1..N /\ \A j \in 1..N : j <= Latest(ClosedIds)
  BY <1>1, <1>2, TableFacts, LatestIsNewest
<1> QED
  BY <1>1, <1>2, <1>3, TableFacts

\* A pending cycle is the newest one.
LEMMA PendingIsNewest ==
    ASSUME TypeOK, WindowsTile, PendingIds # {}
    PROVE  /\ Latest(PendingIds) = N /\ N # 0 /\ N \in DOMAIN cycles
           /\ cycles[N].status = "PENDING"
<1>1. Latest(PendingIds) \in PendingIds
  BY TableFacts, LatestIsNewest
<1> QED
  BY <1>1, TableFacts DEF WindowsTile, N

\* What the verifier computes for a window that has its batch.
LEMMA DataType ==
    ASSUME TypeOK, NEW i \in DOMAIN cycles, HasBatch(i)
    PROVE  /\ Data(i) \in WindowData
           /\ Data(i).totals \in CarryWindow
           /\ Batch(i) = cycles[i].opened + 1 /\ cycles[i].opened \in Nat
<1>1. cycles[i].opened \in Nat
  BY TableFacts DEF Cycle
<1>2. Batch(i) \in 1..Len(feed)
  BY <1>1 DEF HasBatch, Batch, TypeOK
<1>3. feed[Batch(i)] \in Pool
  BY <1>2 DEF TypeOK
<1> QED
  BY <1>1, <1>3, CloseConstants DEF Data, Batch, WindowData

\* Steps that leave the tables alone keep everything about the tables.
LEMMA Quiet ==
    ASSUME IInv, UNCHANGED tables, TypeOK', Control'
    PROVE  IInv'
BY DEF IInv, tables, WindowsTile, Ordered, Keyed, SkippedShowsNothing, LedgerBacked,
       RowsOf, JudgedIds, N

\* One upsert of a share row.
LEMMA PutShareFacts ==
    ASSUME Keyed, shares \subseteq ShareRow, NEW row \in ShareRow,
           row.cycle \in DOMAIN cycles, UNCHANGED cycles, PutShare(row)
    PROVE  /\ shares' \subseteq ShareRow /\ Keyed'
           /\ \A i \in Nat : i # row.cycle => RowsOf(i)' = RowsOf(i)
           /\ row \in shares'
BY DEF PutShare, Keyed, RowsOf, ShareRow

\* close_cycle on the pending cycle: the newest row becomes a closed one, and
\* every other row, the share rows and the ledger stay what they were.
LEMMA Closing ==
    ASSUME IInv, N # 0, current = N, cycles[N].status = "PENDING", HasBatch(N),
           NEW v \in Verdict, Close(v), UNCHANGED <<shares, ledger>>,
           v.status = "SKIPPED" => RowsOf(N) = {}
    PROVE  /\ cycles' \in Seq(Cycle) /\ N' = N
           /\ WindowsTile' /\ Ordered' /\ Keyed' /\ SkippedShowsNothing' /\ LedgerBacked'
           /\ PendingIds' = {}
           /\ v.status # "SKIPPED" => N \in JudgedIds'
           /\ \A i \in ClosedIds : i \in DOMAIN cycles' /\ cycles'[i] = cycles[i]
<1>1. /\ N \in Nat /\ N \in 1..N /\ DOMAIN cycles = 1..N /\ cycles \in Seq(Cycle)
      /\ cycles[N] \in Cycle /\ N = Len(cycles)
  BY TableFacts DEF IInv, TypeOK, N
<1> DEFINE row == [opened |-> cycles[N].opened, closed |-> Batch(N),
                   status |-> v.status, carry |-> v.carry, fee |-> v.fee]
<1>2. Batch(N) = cycles[N].opened + 1 /\ cycles[N].opened \in Nat
  BY <1>1, DataType DEF IInv
<1>3. row \in Cycle /\ row.status \in Statuses
  BY <1>2 DEF Cycle, Verdict
<1>4. cycles' = [cycles EXCEPT ![N] = row]
  BY <1>1 DEF Close
<1> HIDE DEF row
<1>5. /\ cycles' \in Seq(Cycle) /\ N' = N
      /\ \A j \in 1..N : cycles'[j] = IF j = N THEN row ELSE cycles[j]
  BY <1>1, <1>3, <1>4, ExceptSeq DEF N
<1>6. DOMAIN cycles' = 1..N
  BY <1>1, <1>4
<1>7. row.opened = cycles[N].opened /\ row.closed = row.opened + 1 /\ row.status = v.status
  BY <1>2 DEF row
<1>8. row.status # "PENDING"
  BY <1>3 DEF Statuses
<1>9. WindowsTile'
  BY <1>1, <1>5, <1>6, <1>7, <1>8 DEF IInv, WindowsTile, N
<1>10. Ordered'
  <2> SUFFICES ASSUME NEW i \in 1..N, NEW j \in 1..N, i < j
               PROVE  cycles'[i].closed \in Nat /\ cycles'[i].closed <= cycles'[j].opened
    BY <1>6 DEF Ordered
  <2>1. cycles'[i] = cycles[i] /\ cycles'[j].opened = cycles[j].opened
    BY <1>1, <1>5, <1>7
  <2> QED
    BY <1>1, <2>1 DEF IInv, Ordered
<1>11. Keyed'
  BY <1>1, <1>6 DEF IInv, Keyed
<1>12. SkippedShowsNothing'
  BY <1>1, <1>5, <1>6, <1>7 DEF IInv, SkippedShowsNothing, RowsOf
<1>13. PendingIds' = {}
  BY <1>1, <1>5, <1>6, <1>8 DEF IInv, WindowsTile, PendingIds
<1>14. v.status # "SKIPPED" => N \in JudgedIds'
  BY <1>1, <1>3, <1>5, <1>6, <1>7 DEF JudgedIds, Statuses
<1>15. LedgerBacked'
  <2> SUFFICES ASSUME NEW e \in ledger
               PROVE  \E i \in JudgedIds' :
                        /\ cycles'[i].closed = e.block
                        /\ \E r \in RowsOf(i)' :
                            r.ok /\ r.staker = e.staker /\ r.amount = e.amount
    BY DEF LedgerBacked
  <2>1. PICK i \in JudgedIds :
            /\ cycles[i].closed = e.block
            /\ \E r \in RowsOf(i) : r.ok /\ r.staker = e.staker /\ r.amount = e.amount
    BY DEF IInv, LedgerBacked
  <2>2. i \in 1..N /\ i # N
    BY <1>1, <2>1 DEF JudgedIds
  <2>3. i \in JudgedIds' /\ cycles'[i] = cycles[i] /\ RowsOf(i)' = RowsOf(i)
    BY <1>5, <1>6, <2>1, <2>2 DEF JudgedIds, RowsOf
  <2> QED
    BY <2>1, <2>3
<1>16. \A i \in ClosedIds : i \in DOMAIN cycles' /\ cycles'[i] = cycles[i]
  BY <1>1, <1>5, <1>6 DEF ClosedIds
<1> QED
  BY <1>5, <1>9, <1>10, <1>11, <1>12, <1>13, <1>14, <1>15, <1>16

\* _open_pending_cycle when nothing is pending: a row is added that starts
\* where the newest one ended.
LEMMA Opening ==
    ASSUME IInv, PendingIds = {}, OpenPending
    PROVE  /\ cycles' \in Seq(Cycle) /\ N' = N + 1
           /\ WindowsTile' /\ Ordered' /\ Keyed' /\ SkippedShowsNothing' /\ LedgerBacked'
           /\ \A i \in ClosedIds : i \in DOMAIN cycles' /\ cycles'[i] = cycles[i]
<1>1. /\ N \in Nat /\ DOMAIN cycles = 1..N /\ cycles \in Seq(Cycle) /\ N = Len(cycles)
      /\ \A i \in 1..N : cycles[i] \in Cycle /\ cycles[i].status # "PENDING"
  BY TableFacts DEF IInv, TypeOK, N
<1> DEFINE opener == IF ClosedIds = {} THEN Len(feed) ELSE cycles[Latest(ClosedIds)].closed
           row == [opened |-> opener, closed |-> NULL, status |-> "PENDING",
                   carry |-> NULL, fee |-> 0]
<1>2. ClosedIds = {} <=> N = 0
  BY NewestIsClosed DEF IInv
<1>3. N # 0 => opener = cycles[N].closed
  BY <1>2, NewestIsClosed DEF IInv
<1>4. N # 0 => N \in 1..N /\ cycles[N].closed = cycles[N].opened + 1
  BY <1>1 DEF IInv, WindowsTile
<1>5. opener \in Nat
  <2>1. Len(feed) \in Nat
    BY DEF IInv, TypeOK
  <2>2. CASE N = 0
    BY <1>2, <2>1, <2>2
  <2>3. CASE N # 0
    <3>1. opener = cycles[N].opened + 1 /\ cycles[N] \in Cycle
      BY <1>1, <1>3, <1>4, <2>3
    <3>2. cycles[N].opened \in Nat
      BY <3>1 DEF Cycle
    <3> QED
      BY <3>1, <3>2
  <2> QED
    BY <2>2, <2>3
<1>6. cycles' = Append(cycles, row)
  BY DEF OpenPending
<1>7. UNCHANGED <<shares, ledger>>
  BY DEF OpenPending
<1>8. row.opened = opener /\ row.status = "PENDING"
  OBVIOUS
<1> HIDE DEF opener
<1>9. row \in Cycle
  BY <1>5 DEF Cycle
<1> HIDE DEF row
<1>10. /\ cycles' \in Seq(Cycle) /\ Len(cycles') = N + 1
       /\ \A i \in 1..N : cycles'[i] = cycles[i]
       /\ cycles'[N + 1] = row
  BY <1>1, <1>6, <1>9, AppendProperties
<1>11. DOMAIN cycles' = 1..(N + 1) /\ N' = N + 1
  BY <1>10 DEF N
<1>12. WindowsTile'
  <2>1. \A i \in 1..N : cycles'[i].status # "PENDING"
                        /\ cycles'[i].closed = cycles'[i].opened + 1
    BY <1>1, <1>10 DEF IInv, WindowsTile
  <2>2. \A i \in 1..(N + 1) : cycles'[i].status # "PENDING" =>
                                cycles'[i].closed = cycles'[i].opened + 1
    BY <1>1, <1>8, <1>10, <2>1
  <2>3. ASSUME NEW i \in 1..N PROVE cycles'[i + 1].opened = cycles'[i].closed
    <3>1. CASE i = N
      BY <1>1, <1>3, <1>8, <1>10, <3>1
    <3>2. CASE i # N
      <4>1. N \in Nat /\ i \in DOMAIN cycles /\ i # Len(cycles)
        BY <1>1, <3>2
      <4>2. i + 1 \in 1..N
        BY <3>2, <4>1
      <4>3. cycles[i + 1].opened = cycles[i].closed
        BY <4>1 DEF IInv, WindowsTile
      <4> QED
        BY <1>10, <4>2, <4>3
    <3> QED
      BY <3>1, <3>2
  <2> QED
    BY <1>1, <1>10, <1>11, <2>1, <2>2, <2>3 DEF WindowsTile
<1>13. Ordered'
  <2> SUFFICES ASSUME NEW i \in 1..(N + 1), NEW j \in 1..(N + 1), i < j
               PROVE  cycles'[i].closed \in Nat /\ cycles'[i].closed <= cycles'[j].opened
    BY <1>11 DEF Ordered
  <2>1. i \in 1..N /\ cycles'[i] = cycles[i] /\ cycles[i] \in Cycle
    BY <1>1, <1>10
  <2>2. cycles[i].closed = cycles[i].opened + 1 /\ cycles[i].opened \in Nat
    BY <1>1, <2>1 DEF IInv, WindowsTile, Cycle
  <2>3. CASE j \in 1..N
    BY <1>1, <1>10, <2>1, <2>2, <2>3 DEF IInv, Ordered
  <2>4. CASE j = N + 1
    <3>1. cycles'[j].opened = cycles[N].closed
      BY <1>3, <1>8, <1>10, <2>1, <2>4
    <3>2. cycles[N].closed = cycles[N].opened + 1 /\ cycles[N].opened \in Nat
      <4>1. N # 0 /\ N \in 1..N
        BY <1>1, <2>1
      <4> QED
        BY <1>1, <1>4, <4>1 DEF Cycle
    <3>3. i # N => cycles[i].closed <= cycles[N].opened
      <4> DEFINE n == N
      <4>1. n \in Nat /\ DOMAIN cycles = 1..n /\ i \in 1..n
        BY <1>1, <2>1
      <4> HIDE DEF n
      <4>2. i # n => i \in DOMAIN cycles /\ n \in DOMAIN cycles /\ i < n
        BY <4>1
      <4>3. i # N => i \in DOMAIN cycles /\ N \in DOMAIN cycles /\ i < N
        BY <4>2 DEF n
      <4>4. Ordered
        BY DEF IInv
      <4> QED
        BY <4>3, <4>4 DEF Ordered
    <3> QED
      BY <2>1, <2>2, <3>1, <3>2, <3>3
  <2> QED
    BY <1>1, <2>3, <2>4
<1>14. Keyed'
  BY <1>1, <1>7, <1>11 DEF IInv, Keyed
<1>15. SkippedShowsNothing'
  BY <1>1, <1>7, <1>8, <1>10, <1>11 DEF IInv, SkippedShowsNothing, RowsOf
<1>16. LedgerBacked'
  <2>1. JudgedIds \subseteq 1..N /\ JudgedIds \subseteq JudgedIds'
    BY <1>1, <1>10, <1>11 DEF JudgedIds
  <2>2. \A i \in JudgedIds : cycles'[i] = cycles[i] /\ RowsOf(i)' = RowsOf(i)
    BY <1>7, <1>10, <2>1 DEF RowsOf
  <2> QED
    BY <1>7, <2>1, <2>2 DEF IInv, LedgerBacked
<1>17. \A i \in ClosedIds : i \in DOMAIN cycles' /\ cycles'[i] = cycles[i]
  BY <1>1, <1>10, <1>11 DEF ClosedIds
<1> QED
  BY <1>10, <1>11, <1>12, <1>13, <1>14, <1>15, <1>16, <1>17

-----------------------------------------------------------------------------
\* The invariant holds at the start and every step keeps it.

LEMMA InitIInv == Init => IInv
<1> SUFFICES ASSUME Init PROVE IInv
  OBVIOUS
<1>1. N = 0 /\ DOMAIN cycles = {} /\ PendingIds = {} /\ JudgedIds = {}
  BY DEF Init, N, PendingIds, JudgedIds
<1>2. TypeOK
  BY DEF Init, TypeOK
<1>3. WindowsTile /\ Ordered /\ Keyed /\ SkippedShowsNothing /\ LedgerBacked
  BY <1>1 DEF Init, WindowsTile, Ordered, Keyed, SkippedShowsNothing, LedgerBacked
<1>4. Control
  BY <1>1 DEF Init, Control, Writing, Settling
<1> QED
  BY <1>2, <1>3, <1>4 DEF IInv

\* Steps between ticks, and faults, touch no table.
LEMMA OutsideSteps ==
    ASSUME IInv, Feeding \/ StartTick \/ Faults \/ UNCHANGED vars
    PROVE  IInv'
<1>1. ASSUME NEW d \in Pool, NewBatch(d) PROVE IInv'
  <2>1. TypeOK'
    BY <1>1, AppendProperties DEF IInv, NewBatch, TypeOK, tables, control
  <2>2. Control'
    BY <1>1 DEF NewBatch, Control, Writing, Settling, control
  <2> QED
    BY <1>1, <2>1, <2>2, Quiet DEF NewBatch
<1>2. ASSUME NEW d \in Pool, NEW b \in DOMAIN feed, Revise(b, d) PROVE IInv'
  <2>1. TypeOK'
    <3>1. feed \in Seq(Pool) /\ b \in 1..Len(feed)
      BY DEF IInv, TypeOK
    <3>2. feed' \in Seq(Pool)
      BY <1>2, <3>1, ExceptSeq DEF Revise
    <3> QED
      BY <1>2, <3>2 DEF IInv, Revise, TypeOK, tables, control
  <2>2. Control'
    BY <1>2 DEF Revise, Control, Writing, Settling, control
  <2> QED
    BY <1>2, <2>1, <2>2, Quiet DEF Revise
<1>3. CASE StartTick
  <2>1. TypeOK'
    BY <1>3, CloseConstants DEF IInv, StartTick, TypeOK, tables, ClosePhases
  <2>2. Control'
    BY <1>3 DEF StartTick, Control, Writing, Settling
  <2> QED
    BY <1>3, <2>1, <2>2, Quiet DEF StartTick
<1>4. ASSUME NEW next \in {"idle", "verify"}, Fault(next) PROVE IInv'
  <2>1. TypeOK'
    BY <1>4, TableFacts DEF IInv, Fault, TypeOK, tables, VerifyPhases, N
  <2>2. Control'
    BY <1>4 DEF Fault, Control, Writing, Settling
  <2> QED
    BY <1>4, <2>1, <2>2, Quiet DEF Fault
<1>5. CASE UNCHANGED vars
  <2>1. TypeOK'
    BY <1>5 DEF IInv, vars, TypeOK
  <2>2. Control'
    BY <1>5 DEF IInv, vars, Control, PendingIds, JudgedIds, OkStakers, RowsOf, N, HasBatch, Batch
  <2> QED
    BY <1>5, <2>1, <2>2, Quiet DEF vars, tables
<1> QED
  BY <1>1, <1>2, <1>3, <1>4, <1>5 DEF Feeding, Faults, CloseJobFails, Crash

\* Steps of the close and verify jobs that only move the control state.
LEMMA ControlSteps ==
    ASSUME IInv,
           \/ LoopEnds \/ StartCredits \/ CreditsDone \/ VerifyJob
           \/ \E i \in DOMAIN cycles : StartSkip(i) \/ StartJudge(i)
    PROVE  IInv'
<1>1. TypeOK /\ N \in Nat /\ N = Len(cycles) /\ DOMAIN cycles = 1..N
  BY TableFacts DEF IInv, N
<1>2. ASSUME UNCHANGED tables
      PROVE  /\ N' = N /\ PendingIds' = PendingIds /\ JudgedIds' = JudgedIds
             /\ \A i : RowsOf(i)' = RowsOf(i) /\ OkStakers(i)' = OkStakers(i)
  BY <1>2 DEF tables, N, PendingIds, JudgedIds, RowsOf, OkStakers
<1>3. \A i : OkStakers(i) \subseteq Stakers
  BY <1>1 DEF OkStakers, RowsOf, TypeOK, ShareRow
<1>4. CASE LoopEnds
  <2>1. TypeOK'
    BY <1>1, <1>4 DEF LoopEnds, TypeOK, tables, ClosePhases, VerifyPhases
  <2>2. PendingIds = {} \/ pc' = "verify"
    BY <1>4 DEF LoopEnds
  <2>3. Control'
    BY <1>2, <1>4, <2>2 DEF LoopEnds, Control, Writing, Settling
  <2> QED
    BY <1>4, <2>1, <2>3, Quiet DEF LoopEnds
<1>5. CASE StartCredits
  <2>1. TypeOK'
    BY <1>1, <1>3, <1>5 DEF StartCredits, TypeOK, tables, ClosePhases
  <2>2. Control'
    BY <1>2, <1>5 DEF IInv, StartCredits, Control, Writing, Settling
  <2> QED
    BY <1>5, <2>1, <2>2, Quiet DEF StartCredits
<1>6. CASE CreditsDone
  <2>1. TypeOK'
    BY <1>1, <1>6 DEF CreditsDone, TypeOK, tables, ClosePhases
  <2>2. N # 0 /\ current = N /\ current \in JudgedIds /\ rounds > 0
    BY <1>6 DEF IInv, Control, CreditsDone, Settling
  <2>3. PendingIds = {}
    BY <1>1, <2>2 DEF IInv, WindowsTile, PendingIds, JudgedIds
  <2>4. Control'
    BY <1>2, <1>6, <2>2, <2>3 DEF CreditsDone, Control, Writing, Settling
  <2> QED
    BY <1>6, <2>1, <2>4, Quiet DEF CreditsDone
<1>7. CASE StartVerify
  <2>1. CASE JudgedIds = {}
    <3>1. TypeOK'
      BY <1>1, <1>7, <2>1 DEF StartVerify, TypeOK, tables
    <3>2. Control'
      BY <1>7, <2>1 DEF StartVerify, Control, Writing, Settling
    <3> QED
      BY <1>7, <3>1, <3>2, Quiet DEF StartVerify
  <2>2. CASE JudgedIds # {}
    <3>1. Latest(JudgedIds) \in JudgedIds /\ Latest(JudgedIds) \in 1..N
      BY <1>1, <2>2, TableFacts, LatestIsNewest
    <3>2. TypeOK'
      BY <1>1, <1>3, <1>7, <2>2, <3>1 DEF StartVerify, TypeOK, tables, VerifyPhases
    <3>3. Control'
      BY <1>2, <1>7, <2>2, <3>1 DEF StartVerify, Control, Writing, Settling
    <3> QED
      BY <1>7, <3>2, <3>3, Quiet DEF StartVerify
  <2> QED
    BY <2>1, <2>2
<1>8. CASE VerifyDone
  <2>1. TypeOK'
    BY <1>1, <1>8 DEF VerifyDone, TypeOK, tables
  <2>2. Control'
    BY <1>8 DEF VerifyDone, Control, Writing, Settling
  <2> QED
    BY <1>8, <2>1, <2>2, Quiet DEF VerifyDone
<1>9. ASSUME NEW i \in DOMAIN cycles, StartSkip(i) \/ StartJudge(i) PROVE IInv'
  <2>1. /\ Attempt(i) /\ pc' \in {"clear", "lines"}
        /\ i = Latest(PendingIds) /\ PendingIds # {} /\ HasBatch(i) /\ rounds > 0
        /\ UNCHANGED <<feed, tables>>
    BY <1>9 DEF StartSkip, StartJudge, Attempt
  <2>2. i = N /\ N # 0 /\ cycles[N].status = "PENDING"
    BY <2>1, PendingIsNewest DEF IInv
  <2>3. TypeOK'
    BY <1>1, <1>9, <2>1, <2>2 DEF Attempt, TypeOK, tables, ClosePhases
  <2>4. HasBatch(N)' /\ cycles'[N].status = "PENDING" /\ N' = N /\ current' = N
    BY <1>2, <2>1, <2>2 DEF Attempt, HasBatch, Batch, tables
  <2>5. Control'
    BY <2>1, <2>2, <2>4 DEF Attempt, Control, Writing, Settling
  <2> QED
    BY <2>1, <2>3, <2>5, Quiet
<1> QED
  BY <1>4, <1>5, <1>6, <1>7, <1>8, <1>9 DEF VerifyJob

\* Deleting, writing and annotating share rows of the cycle at hand.
LEMMA ShareSteps ==
    ASSUME IInv, ClearShares \/ WriteLine \/ \E s \in todo : SurfaceReason(s)
    PROVE  IInv'
<1>1. TypeOK /\ N \in Nat /\ N = Len(cycles) /\ DOMAIN cycles = 1..N
  BY TableFacts DEF IInv, N
<1>2. ASSUME UNCHANGED cycles
      PROVE  WindowsTile' /\ Ordered' /\ JudgedIds' = JudgedIds /\ N' = N
  BY <1>1, <1>2 DEF IInv, WindowsTile, Ordered, JudgedIds, N
<1>3. ASSUME pc \in Writing, UNCHANGED <<cycles, ledger>>,
             \A i \in 1..N : i # N => RowsOf(i)' = RowsOf(i)
      PROVE  SkippedShowsNothing' /\ LedgerBacked'
  <2>1. cycles[N].status = "PENDING" /\ N \notin JudgedIds /\ JudgedIds \subseteq 1..N
    BY <1>1, <1>3 DEF IInv, Control, JudgedIds
  <2>2. SkippedShowsNothing'
    BY <1>1, <1>3, <2>1 DEF IInv, SkippedShowsNothing
  <2>3. \A i \in JudgedIds : RowsOf(i)' = RowsOf(i)
    BY <1>3, <2>1
  <2> QED
    BY <1>2, <1>3, <2>2, <2>3 DEF IInv, LedgerBacked
<1>4. CASE ClearShares
  <2>1. pc \in Writing /\ current = N /\ shares' = shares \ RowsOf(N)
    BY <1>4 DEF IInv, Control, ClearShares, Writing
  <2>2. \A i : i # N => RowsOf(i)' = RowsOf(i)
    BY <2>1 DEF RowsOf
  <2>3. RowsOf(N)' = {}
    BY <1>2, <1>4, <2>1 DEF ClearShares, RowsOf
  <2>4. TypeOK' /\ Keyed'
    BY <1>1, <1>4 DEF IInv, ClearShares, TypeOK, Keyed, ClosePhases
  <2>5. Control'
    BY <1>2, <1>4, <2>1, <2>3
    DEF IInv, ClearShares, Control, Writing, Settling, HasBatch, Batch, RowsOf
  <2> QED
    BY <1>2, <1>3, <1>4, <2>1, <2>2, <2>4, <2>5 DEF IInv, ClearShares
<1>5. CASE WriteLine
  <2>1. pc = "lines" /\ pc \in Writing /\ current = N /\ N \in 1..N /\ HasBatch(N)
    BY <1>1, <1>5 DEF IInv, Control, WriteLine, Writing
  <2> DEFINE line == Data(N).lines[written + 1]
             row == [cycle |-> N, staker |-> line.staker, amount |-> line.amount,
                     ok |-> line.ok, reason |-> line.reason]
  <2>2. line \in ShareLine
    <3>1. Data(N).lines \in Seq(ShareLine)
      BY <1>1, <2>1, DataType DEF WindowData
    <3>2. written \in Nat /\ written < Len(Data(N).lines)
      BY <1>1, <1>5, <2>1 DEF WriteLine, TypeOK
    <3>3. written + 1 \in 1..Len(Data(N).lines)
      BY <3>1, <3>2, LenProperties
    <3> QED
      BY <3>1, <3>3, ElementOfSeq
  <2> HIDE DEF line
  <2>3. row \in ShareRow /\ row.cycle = N
    BY <1>1, <2>2 DEF ShareRow, ShareLine
  <2>4. PutShare(row) /\ UNCHANGED <<feed, cycles, ledger, pc, current, rounds, todo>>
    BY <1>5, <2>1 DEF WriteLine, line
  <2> HIDE DEF row
  <2>5. /\ shares' \subseteq ShareRow /\ Keyed'
        /\ \A i \in Nat : i # N => RowsOf(i)' = RowsOf(i)
    <3>1. Keyed /\ shares \subseteq ShareRow
      BY DEF IInv, TypeOK
    <3> QED
      BY <1>1, <2>1, <2>3, <2>4, <3>1, PutShareFacts
  <2>6. TypeOK'
    BY <1>1, <1>5, <2>4, <2>5 DEF WriteLine, TypeOK
  <2>7. Control'
    BY <1>2, <2>1, <2>4 DEF IInv, Control, Writing, Settling, HasBatch, Batch
  <2>8. \A i \in 1..N : i # N => RowsOf(i)' = RowsOf(i)
    BY <1>1, <2>5
  <2> QED
    BY <1>2, <1>3, <2>1, <2>4, <2>5, <2>6, <2>7, <2>8 DEF IInv
<1>6. ASSUME NEW s \in todo, SurfaceReason(s) PROVE IInv'
  <2>1. pc = "reasons" /\ current = N /\ N \in 1..N /\ current \in JudgedIds
    BY <1>1, <1>6 DEF IInv, Control, SurfaceReason, Settling
  <2>2. PICK row \in RowsOf(current) : PutShare([row EXCEPT !.reason = TRUE])
    BY <1>6 DEF SurfaceReason
  <2>3. UNCHANGED <<feed, revisions, cycles, ledger, pc, current, rounds, written, faults>>
    BY <1>6 DEF SurfaceReason
  <2> DEFINE new == [row EXCEPT !.reason = TRUE]
  <2>4. row \in ShareRow /\ row.cycle = current
    BY <1>1, <2>2 DEF RowsOf, TypeOK
  <2>5. /\ new \in ShareRow /\ new.cycle = N
        /\ new.ok = row.ok /\ new.staker = row.staker /\ new.amount = row.amount
    BY <2>1, <2>4 DEF ShareRow
  <2> HIDE DEF new
  <2>6. /\ shares' \subseteq ShareRow /\ Keyed' /\ new \in shares'
        /\ \A i \in Nat : i # N => RowsOf(i)' = RowsOf(i)
    <3>1. Keyed /\ shares \subseteq ShareRow /\ PutShare(new)
      BY <2>2 DEF IInv, TypeOK, new
    <3> QED
      BY <1>1, <2>1, <2>3, <2>5, <3>1, PutShareFacts
  <2>7. TypeOK'
    BY <1>1, <1>6, <2>3, <2>6 DEF SurfaceReason, TypeOK
  <2>8. Control'
    BY <1>2, <2>1, <2>3 DEF IInv, Control, Writing, Settling
  <2>9. \A i \in 1..N : cycles[i].status = "SKIPPED" => i # N
    BY <2>1 DEF JudgedIds
  <2>10. SkippedShowsNothing'
    BY <1>1, <2>3, <2>6, <2>9 DEF IInv, SkippedShowsNothing
  <2>11. \A i \in 1..N : \A r \in RowsOf(i) : \E q \in RowsOf(i)' :
            q.ok = r.ok /\ q.staker = r.staker /\ q.amount = r.amount
    <3> SUFFICES ASSUME NEW i \in 1..N, NEW r \in RowsOf(i)
                 PROVE  \E q \in RowsOf(i)' :
                          q.ok = r.ok /\ q.staker = r.staker /\ q.amount = r.amount
      OBVIOUS
    <3>1. CASE i # N
      BY <1>1, <2>6, <3>1
    <3>2. CASE i = N /\ r.staker = row.staker
      <4>1. r = row
        BY <2>1, <2>4, <3>2 DEF IInv, Keyed, RowsOf
      <4> QED
        BY <2>5, <2>6, <3>2, <4>1 DEF RowsOf
    <3>3. CASE i = N /\ r.staker # row.staker
      <4>1. r \in shares'
        BY <2>2, <2>4, <3>3 DEF PutShare, RowsOf
      <4> QED
        BY <3>3, <4>1 DEF RowsOf
    <3> QED
      BY <3>1, <3>2, <3>3
  <2>12. LedgerBacked'
    <3>1. JudgedIds \subseteq 1..N
      BY <1>1 DEF JudgedIds
    <3> SUFFICES ASSUME NEW e \in ledger
                 PROVE  \E i \in JudgedIds : /\ cycles[i].closed = e.block
                            /\ \E q \in RowsOf(i)' :
                                q.ok /\ q.staker = e.staker /\ q.amount = e.amount
      BY <1>2, <2>3 DEF LedgerBacked
    <3>2. PICK i \in JudgedIds : /\ cycles[i].closed = e.block
                 /\ \E r \in RowsOf(i) :
                        r.ok /\ r.staker = e.staker /\ r.amount = e.amount
      BY DEF IInv, LedgerBacked
    <3> QED
      BY <2>11, <3>1, <3>2
  <2> QED
    BY <1>2, <2>3, <2>6, <2>7, <2>8, <2>10, <2>12 DEF IInv
<1> QED
  BY <1>4, <1>5, <1>6

\* Closing the pending cycle, and opening the next one.
LEMMA CycleSteps ==
    ASSUME IInv, CloseSkipped \/ CloseJudged \/ Reopen \/ OpenAfterLoop
    PROVE  IInv'
<1>1. TypeOK /\ N \in Nat /\ N = Len(cycles) /\ DOMAIN cycles = 1..N
  BY TableFacts DEF IInv, N
<1>2. ASSUME pc \in {"skip", "lines"}
      PROVE  /\ N # 0 /\ N \in 1..N /\ current = N
             /\ cycles[N].status = "PENDING" /\ HasBatch(N) /\ rounds > 0
             /\ Data(N).totals \in CarryWindow /\ Predecessor \in Balance
             /\ pc = "skip" => RowsOf(N) = {}
  <2>1. N # 0 /\ current = N /\ cycles[N].status = "PENDING" /\ HasBatch(N) /\ rounds > 0
        /\ (pc = "skip" => RowsOf(N) = {})
    BY <1>2 DEF IInv, Control, Writing
  <2> QED
    BY <1>1, <2>1, DataType, PredecessorType
<1>3. CASE CloseSkipped
  <2>1. pc = "skip" /\ pc' = "reopen" /\ UNCHANGED <<shares, ledger>>
    BY <1>3 DEF CloseSkipped
  <2> DEFINE w == Data(N).totals
             v == IF Degenerate(w, Predecessor) THEN DegenerateClose(w, Predecessor)
                  ELSE SkippedClose(w, Predecessor)
  <2>2. Close(v)
    BY <1>2, <1>3, <2>1 DEF CloseSkipped
  <2>3. v \in Verdict /\ v.status = "SKIPPED"
    BY <1>2, <2>1, VerdictTypes
  <2> HIDE DEF v
  <2>4. /\ cycles' \in Seq(Cycle) /\ N' = N /\ PendingIds' = {}
        /\ WindowsTile' /\ Ordered' /\ Keyed' /\ SkippedShowsNothing' /\ LedgerBacked'
    BY <1>2, <2>1, <2>2, <2>3, Closing
  <2>5. TypeOK'
    BY <1>1, <1>3, <2>4 DEF CloseSkipped, TypeOK, ClosePhases, N
  <2>6. Control'
    BY <1>2, <1>3, <2>1, <2>4 DEF CloseSkipped, Control, Writing, Settling
  <2> QED
    BY <2>4, <2>5, <2>6 DEF IInv
<1>4. CASE CloseJudged
  <2>1. pc = "lines" /\ pc' = "reasons" /\ UNCHANGED <<shares, ledger>>
    BY <1>4 DEF CloseJudged
  <2> DEFINE d == Data(N)
             v == JudgedClose(d.totals, Predecessor, LinesOk(d))
  <2>2. Close(v)
    BY <1>2, <1>4, <2>1 DEF CloseJudged
  <2>3. LinesOk(d) \in BOOLEAN
    BY DEF LinesOk
  <2>4. v \in Verdict /\ v.status # "SKIPPED"
    BY <1>2, <2>1, <2>3, VerdictTypes
  <2> HIDE DEF v
  <2>5. /\ cycles' \in Seq(Cycle) /\ N' = N /\ N \in JudgedIds'
        /\ WindowsTile' /\ Ordered' /\ Keyed' /\ SkippedShowsNothing' /\ LedgerBacked'
    BY <1>2, <2>1, <2>2, <2>4, Closing
  <2>6. todo' \subseteq Stakers
    BY <1>1, <1>4 DEF CloseJudged, RowsOf, TypeOK, ShareRow
  <2>7. TypeOK'
    BY <1>1, <1>4, <2>5, <2>6 DEF CloseJudged, TypeOK, ClosePhases, N
  <2>8. Control'
    BY <1>2, <1>4, <2>1, <2>5 DEF CloseJudged, Control, Writing, Settling
  <2> QED
    BY <2>5, <2>7, <2>8 DEF IInv
<1>5. CASE Reopen
  <2>1. pc = "reopen" /\ pc' = "close" /\ OpenPending /\ rounds' = rounds - 1
    BY <1>5 DEF Reopen
  <2>2. PendingIds = {} /\ rounds > 0
    BY <2>1 DEF IInv, Control
  <2>3. /\ cycles' \in Seq(Cycle) /\ N' = N + 1
        /\ WindowsTile' /\ Ordered' /\ Keyed' /\ SkippedShowsNothing' /\ LedgerBacked'
    BY <2>1, <2>2, Opening
  <2>4. UNCHANGED <<feed, revisions, shares, ledger, current, written, todo, faults>>
    BY <2>1 DEF OpenPending
  <2>5. TypeOK'
    BY <1>1, <2>1, <2>2, <2>3, <2>4 DEF TypeOK, ClosePhases, N
  <2>6. Control'
    BY <2>1 DEF Control, Writing, Settling
  <2> QED
    BY <2>3, <2>5, <2>6 DEF IInv
<1>6. CASE OpenAfterLoop
  <2>1. pc = "open" /\ pc' = "verify" /\ OpenPending /\ rounds' = rounds
    BY <1>6 DEF OpenAfterLoop
  <2>2. PendingIds = {}
    BY <2>1 DEF IInv, Control
  <2>3. /\ cycles' \in Seq(Cycle) /\ N' = N + 1
        /\ WindowsTile' /\ Ordered' /\ Keyed' /\ SkippedShowsNothing' /\ LedgerBacked'
    BY <2>1, <2>2, Opening
  <2>4. UNCHANGED <<feed, revisions, shares, ledger, current, written, todo, faults>>
    BY <2>1 DEF OpenPending
  <2>5. TypeOK'
    BY <1>1, <2>1, <2>3, <2>4 DEF TypeOK, VerifyPhases, N
  <2>6. Control'
    BY <2>1 DEF Control, Writing, Settling
  <2> QED
    BY <2>3, <2>5, <2>6 DEF IInv
<1> QED
  BY <1>3, <1>4, <1>5, <1>6

\* A judged cycle closed at a block that is its own alone.
LEMMA ClosedBlocks ==
    ASSUME IInv
    PROVE  /\ \A i \in ClosedIds : cycles[i].closed \in Nat
           /\ \A i, j \in ClosedIds : cycles[i].closed = cycles[j].closed => i = j
<1>1. /\ N \in Nat /\ DOMAIN cycles = 1..N /\ ClosedIds \subseteq 1..N
      /\ \A i \in 1..N : cycles[i] \in Cycle
  BY TableFacts DEF IInv
<1>2. \A i \in ClosedIds : cycles[i].opened \in Nat
                           /\ cycles[i].closed = cycles[i].opened + 1
  BY <1>1 DEF IInv, WindowsTile, ClosedIds, Cycle
<1>3. \A i, j \in ClosedIds : i < j => cycles[i].closed < cycles[j].closed
  <2> SUFFICES ASSUME NEW i \in ClosedIds, NEW j \in ClosedIds, i < j
               PROVE  cycles[i].closed < cycles[j].closed
    OBVIOUS
  <2>1. i \in DOMAIN cycles /\ j \in DOMAIN cycles /\ Ordered
    BY <1>1 DEF IInv
  <2>2. cycles[i].closed \in Nat /\ cycles[i].closed <= cycles[j].opened
    BY <2>1 DEF Ordered
  <2>3. cycles[j].opened \in Nat /\ cycles[j].closed = cycles[j].opened + 1
    BY <1>2
  <2> QED
    BY <2>2, <2>3
<1>4. \A i, j \in ClosedIds : i < j \/ j < i \/ i = j
  BY <1>1
<1> QED
  BY <1>2, <1>3, <1>4

\* What a credit adds to the ledger: the amount of an OK line of the cycle that
\* is being credited, in place of a credit that can only be the same one.
LEMMA CreditFacts ==
    ASSUME IInv, NEW s \in todo, CreditStaker(s)
    PROVE  \E row \in RowsOf(current) :
             /\ row.ok /\ row.staker = s /\ row \in ShareRow
             /\ current \in JudgedIds /\ cycles[current].closed \in Nat
             /\ ledger' = ledger \cup {[staker |-> s, block |-> cycles[current].closed,
                                        amount |-> row.amount]}
<1>1. current \in JudgedIds /\ s \in OkStakers(current)
  BY DEF IInv, Control, Settling, CreditStaker
<1>2. PICK row \in RowsOf(current) :
        /\ row.staker = s
        /\ ledger' = {e \in ledger : e.staker # s \/ e.block # cycles[current].closed}
                        \cup {[staker |-> s, block |-> cycles[current].closed,
                               amount |-> row.amount]}
  BY DEF CreditStaker
<1>3. row.ok /\ row \in ShareRow
  BY <1>1, <1>2 DEF IInv, TypeOK, Keyed, OkStakers, RowsOf
<1>4. current \in ClosedIds /\ JudgedIds \subseteq ClosedIds
  BY <1>1, TableFacts DEF IInv
<1>5. \A e \in ledger : e.staker = s /\ e.block = cycles[current].closed =>
          e = [staker |-> s, block |-> cycles[current].closed, amount |-> row.amount]
  <2> SUFFICES ASSUME NEW e \in ledger, e.staker = s, e.block = cycles[current].closed
               PROVE  e = [staker |-> s, block |-> cycles[current].closed,
                           amount |-> row.amount]
    OBVIOUS
  <2>1. PICK i \in JudgedIds : /\ cycles[i].closed = e.block
             /\ \E r \in RowsOf(i) : r.ok /\ r.staker = e.staker /\ r.amount = e.amount
    BY DEF IInv, LedgerBacked
  <2>2. i = current
    BY <1>4, <2>1, ClosedBlocks
  <2>3. e.amount = row.amount
    BY <1>2, <2>1, <2>2 DEF IInv, Keyed, RowsOf
  <2>4. e \in Credit
    BY DEF IInv, TypeOK
  <2> QED
    BY <2>3, <2>4 DEF Credit
<1>6. cycles[current].closed \in Nat
  BY <1>4, ClosedBlocks
<1> QED
  BY <1>1, <1>2, <1>3, <1>5, <1>6

LEMMA CreditSteps ==
    ASSUME IInv, Crediting
    PROVE  IInv'
<1>1. PICK s \in todo : CreditStaker(s)
  BY DEF Crediting
<1>2. PICK row \in RowsOf(current) :
             /\ row.ok /\ row.staker = s /\ row \in ShareRow
             /\ current \in JudgedIds /\ cycles[current].closed \in Nat
             /\ ledger' = ledger \cup {[staker |-> s, block |-> cycles[current].closed,
                                        amount |-> row.amount]}
  BY <1>1, CreditFacts
<1>3. /\ UNCHANGED <<feed, revisions, cycles, shares, pc, current, rounds, written, faults>>
      /\ todo' = todo \ {s}
  BY <1>1 DEF CreditStaker
<1>4. TypeOK'
  <2>1. ledger' \subseteq Credit
    BY <1>2 DEF IInv, TypeOK, Credit, ShareRow
  <2> QED
    BY <1>3, <2>1 DEF IInv, TypeOK
<1>5. WindowsTile' /\ Ordered' /\ Keyed' /\ SkippedShowsNothing'
  BY <1>3 DEF IInv, WindowsTile, Ordered, Keyed, SkippedShowsNothing, RowsOf
<1>6. JudgedIds' = JudgedIds /\ \A i : RowsOf(i)' = RowsOf(i)
  BY <1>3 DEF JudgedIds, RowsOf
<1>7. LedgerBacked'
  <2> SUFFICES ASSUME NEW e \in ledger'
               PROVE  \E i \in JudgedIds : /\ cycles[i].closed = e.block
                          /\ \E r \in RowsOf(i) :
                                r.ok /\ r.staker = e.staker /\ r.amount = e.amount
    BY <1>3, <1>6 DEF LedgerBacked
  <2>1. CASE e \in ledger
    BY <2>1 DEF IInv, LedgerBacked
  <2>2. CASE e \notin ledger
    BY <1>2, <2>2
  <2> QED
    BY <2>1, <2>2
<1>8. Control'
  BY <1>3, <1>6
  DEF IInv, Control, Writing, Settling, HasBatch, Batch, OkStakers, N, PendingIds
<1> QED
  BY <1>4, <1>5, <1>7, <1>8 DEF IInv

\* Every step of the scheduler, of the data it reads and of the faults.
LEMMA StepIInv == IInv /\ [Next]_vars => IInv'
BY OutsideSteps, ControlSteps, ShareSteps, CycleSteps, CreditSteps
DEF Next, Scheduler, CloseJob

\* Every reachable state satisfies the inductive invariant: wherever a tick
\* stops, the tables and the phase of the tick fit together.
THEOREM AlwaysIInv == Spec => []IInv
BY InitIInv, StepIInv, PTL DEF Spec

-----------------------------------------------------------------------------
\* The results, for any number of batches, closes per tick, faults and stakers.

\* The tables keep their types: no close leaves a NULL closed block behind a
\* judged cycle, and credits are made of typed rows only.
THEOREM TypeCorrect == Spec => []TypeOK
<1>1. IInv => TypeOK
  BY DEF IInv
<1> QED
  BY <1>1, AlwaysIInv, PTL

\* Windows tile the payout history and only the newest cycle can be PENDING,
\* whatever sequence of failed jobs and crashes interrupts the close.
THEOREM WindowsTileHolds == Spec => []WindowsTile
<1>1. IInv => WindowsTile
  BY DEF IInv
<1> QED
  BY <1>1, AlwaysIInv, PTL

\* Every credit on the ledger is the amount of an OK line of the judged cycle
\* that closed at its block.
THEOREM LedgerBackedHolds == Spec => []LedgerBacked
<1>1. IInv => LedgerBacked
  BY DEF IInv
<1> QED
  BY <1>1, AlwaysIInv, PTL

\* A SKIPPED cycle shows no lines and nothing is credited at its block.
THEOREM SkippedCreditsNothingHolds == Spec => []SkippedCreditsNothing
<1>1. ASSUME IInv PROVE SkippedCreditsNothing
  <2> SUFFICES ASSUME NEW i \in DOMAIN cycles, cycles[i].status = "SKIPPED",
                      NEW e \in ledger, e.block = cycles[i].closed
               PROVE  FALSE
    BY <1>1 DEF IInv, SkippedShowsNothing, SkippedCreditsNothing
  <2>1. PICK j \in JudgedIds : cycles[j].closed = e.block
    BY <1>1 DEF IInv, LedgerBacked
  <2>2. i \in ClosedIds /\ j \in ClosedIds /\ i # j
    BY <2>1 DEF ClosedIds, JudgedIds
  <2> QED
    BY <1>1, <2>1, <2>2, ClosedBlocks
<1> QED
  BY <1>1, AlwaysIInv, PTL

LEMMA StepsKeepCredits == IInv /\ [Next]_vars => ledger \subseteq ledger'
<1> SUFFICES ASSUME IInv, [Next]_vars PROVE ledger \subseteq ledger'
  OBVIOUS
<1>1. CASE Crediting
  BY <1>1, CreditFacts DEF Crediting
<1>2. Crediting \/ UNCHANGED ledger
  BY DEF Next, Scheduler, CloseJob, VerifyJob, Feeding, Faults, Fault, vars, tables, control,
      StartTick, LoopEnds, StartSkip, StartJudge, Attempt, ClearShares, CloseSkipped,
      WriteLine, CloseJudged, SurfaceReason, StartCredits, CreditsDone, Reopen,
      OpenAfterLoop, OpenPending, StartVerify, VerifyDone, NewBatch, Revise,
      CloseJobFails, Crash
<1> QED
  BY <1>1, <1>2

\* A credit, once visible, never disappears, and its amount never changes: when
\* the close loop or run_verify (jobs.py) credits again, the row that is deleted
\* is followed by one of the same staker, block and amount.  Nothing is said of
\* the row's time and hash, which are written anew.
THEOREM CreditsStayHolds == Spec => CreditsStay
BY StepsKeepCredits, AlwaysIInv, PTL DEF Spec, CreditsStay

\* What VerdictsAreFinal asks of one step and one closed cycle.
Final(i) == i \in DOMAIN cycles' /\ cycles'[i] = cycles[i] /\ Results(i)' = Results(i)

LEMMA SharesKeepResults ==
    ASSUME IInv, ClearShares \/ WriteLine \/ \E s \in todo : SurfaceReason(s),
           NEW i \in ClosedIds
    PROVE  Final(i)
<1>1. /\ N \in Nat /\ DOMAIN cycles = 1..N /\ i \in 1..N /\ cycles[i].status # "PENDING"
      /\ shares \subseteq ShareRow
  BY TableFacts DEF IInv, TypeOK
<1>2. UNCHANGED cycles
  BY DEF ClearShares, WriteLine, SurfaceReason
<1>3. CASE ClearShares \/ WriteLine
  <2>1. current = N /\ cycles[N].status = "PENDING"
    BY <1>3 DEF IInv, Control, ClearShares, WriteLine, Writing
  <2>2. i # current
    BY <1>1, <2>1
  <2>3. RowsOf(i)' = RowsOf(i)
    BY <1>3, <2>2 DEF ClearShares, WriteLine, PutShare, RowsOf
  <2> QED
    BY <1>1, <1>2, <2>3 DEF Final, Results
<1>4. ASSUME NEW s \in todo, SurfaceReason(s) PROVE Final(i)
  <2>1. PICK row \in RowsOf(current) : PutShare([row EXCEPT !.reason = TRUE])
    BY <1>4 DEF SurfaceReason
  <2> DEFINE new == [row EXCEPT !.reason = TRUE]
  <2>2. row \in ShareRow /\ row.cycle = current /\ row \in shares
    BY <1>1, <2>1 DEF RowsOf
  <2>3. /\ new.cycle = row.cycle /\ new.staker = row.staker
        /\ new.amount = row.amount /\ new.ok = row.ok
    BY <2>2 DEF ShareRow
  <2> HIDE DEF new
  <2>4. shares' = {r \in shares : r.cycle # row.cycle \/ r.staker # row.staker} \cup {new}
    BY <2>1, <2>3 DEF PutShare, new
  <2>5. \A r \in shares : r.cycle = row.cycle /\ r.staker = row.staker => r = row
    BY <2>2 DEF IInv, Keyed
  <2>6. \A r \in RowsOf(i) : \E q \in RowsOf(i)' :
            q.staker = r.staker /\ q.amount = r.amount /\ q.ok = r.ok
    BY <2>3, <2>4, <2>5 DEF RowsOf
  <2>7. \A q \in RowsOf(i)' : \E r \in RowsOf(i) :
            q.staker = r.staker /\ q.amount = r.amount /\ q.ok = r.ok
    BY <2>2, <2>3, <2>4 DEF RowsOf
  <2>8. \A x : x \in Results(i) => x \in Results(i)'
    BY <2>6 DEF Results
  <2>9. \A x : x \in Results(i)' => x \in Results(i)
    BY <2>7 DEF Results
  <2> QED
    BY <1>1, <1>2, <2>8, <2>9 DEF Final
<1> QED
  BY <1>3, <1>4

\* Closing or opening a cycle touches neither the share rows nor closed rows.
LEMMA CyclesKeepResults ==
    ASSUME IInv, CloseSkipped \/ CloseJudged \/ Reopen \/ OpenAfterLoop, NEW i \in ClosedIds
    PROVE  Final(i)
<1>1. UNCHANGED <<shares, ledger>>
  BY DEF CloseSkipped, CloseJudged, Reopen, OpenAfterLoop, OpenPending
<1>2. Results(i)' = Results(i)
  BY <1>1 DEF Results, RowsOf
<1>3. TypeOK /\ N \in Nat /\ N = Len(cycles) /\ DOMAIN cycles = 1..N
  BY TableFacts DEF IInv, N
<1>4. CASE CloseSkipped \/ CloseJudged
  <2>1. pc \in {"skip", "lines"}
    BY <1>4 DEF CloseSkipped, CloseJudged
  <2>2. /\ N # 0 /\ N \in 1..N /\ current = N
        /\ cycles[N].status = "PENDING" /\ HasBatch(N)
        /\ pc = "skip" => RowsOf(N) = {}
    BY <1>3, <2>1 DEF IInv, Control, Writing
  <2> DEFINE w == Data(N).totals
             p == Predecessor
  <2>3. w \in CarryWindow /\ p \in Balance
    BY <1>3, <2>2, DataType, PredecessorType
  <2>4. CASE CloseSkipped
    <3> DEFINE v == IF Degenerate(w, p) THEN DegenerateClose(w, p) ELSE SkippedClose(w, p)
    <3>1. Close(v) /\ pc = "skip"
      BY <2>2, <2>4 DEF CloseSkipped
    <3>2. v \in Verdict
      BY <2>3, VerdictTypes
    <3> HIDE DEF v
    <3> QED
      BY <1>1, <1>2, <2>2, <3>1, <3>2, Closing DEF Final
  <2>5. CASE CloseJudged
    <3> DEFINE v == JudgedClose(w, p, LinesOk(Data(N)))
    <3>1. Close(v)
      BY <2>2, <2>5 DEF CloseJudged
    <3>2. LinesOk(Data(N)) \in BOOLEAN
      BY DEF LinesOk
    <3>3. v \in Verdict /\ v.status # "SKIPPED"
      BY <2>3, <3>2, VerdictTypes
    <3> HIDE DEF v
    <3> QED
      BY <1>1, <1>2, <2>2, <3>1, <3>3, Closing DEF Final
  <2> QED
    BY <1>4, <2>4, <2>5
<1>5. CASE Reopen \/ OpenAfterLoop
  <2>1. OpenPending /\ PendingIds = {}
    BY <1>5 DEF IInv, Control, Reopen, OpenAfterLoop
  <2> QED
    BY <1>2, <2>1, Opening DEF Final
<1> QED
  BY <1>4, <1>5

\* Every step keeps every verdict.
LEMMA StepsKeepVerdicts ==
    ASSUME IInv, [Next]_vars, NEW i \in ClosedIds
    PROVE  Final(i)
<1>1. CASE UNCHANGED <<cycles, shares>>
  BY <1>1 DEF Final, Results, RowsOf, ClosedIds
<1>2. \/ UNCHANGED <<cycles, shares>>
      \/ ClearShares \/ WriteLine \/ \E s \in todo : SurfaceReason(s)
      \/ CloseSkipped \/ CloseJudged \/ Reopen \/ OpenAfterLoop
  BY DEF Next, Scheduler, CloseJob, VerifyJob, Feeding, Faults, Fault, vars, tables, control,
      StartTick, LoopEnds, StartSkip, StartJudge, Attempt, StartCredits, CreditsDone,
      Crediting, CreditStaker, StartVerify, VerifyDone, NewBatch, Revise,
      CloseJobFails, Crash
<1> QED
  BY <1>1, <1>2, SharesKeepResults, CyclesKeepResults

\* A closed cycle's row never changes again, nor the amounts and results on its
\* lines: retries write only the cycle that is still PENDING.
THEOREM VerdictsAreFinalHolds == Spec => VerdictsAreFinal
<1>1. IInv /\ [Next]_vars =>
        [\A i \in ClosedIds : /\ i \in DOMAIN cycles' /\ cycles'[i] = cycles[i]
                              /\ Results(i)' = Results(i)]_vars
  BY StepsKeepVerdicts DEF Final
<1> QED
  BY <1>1, AlwaysIInv, PTL DEF Spec, VerdictsAreFinal

-----------------------------------------------------------------------------
\* LedgerComplete.  Which cycle is credited in which phase, what is credited so
\* far, and when the newest judged cycle may be short of credits: while its
\* close runs, or, after one fault, while run_verify comes before the next close.

CreditOf(i, r) == [staker |-> r.staker, block |-> cycles[i].closed, amount |-> r.amount]

LatestCredited == JudgedIds # {} => Credited(Latest(JudgedIds))

Awaited == pc \in {"verify", "recredit"} \/ (pc \in {"idle", "close", "open"} /\ PendingIds = {})

Settled ==
    /\ pc \in Settling \cup {"recredit"} => current = Latest(JudgedIds)
    /\ pc \in {"credit", "recredit"} =>
        \A r \in RowsOf(current) : r.ok /\ r.staker \notin todo => CreditOf(current, r) \in ledger
    /\ LedgerComplete
    /\ faults <= 1 => LatestCredited \/ pc \in Settling \/ (faults = 1 /\ Awaited)

\* What is judged stays judged; only the end of a judging close adds a cycle,
\* which is then the newest.
LEMMA JudgedSteps ==
    ASSUME IInv, [Next]_vars
    PROVE  /\ ~CloseJudged => JudgedIds' = JudgedIds
           /\ CloseJudged => /\ pc = "lines" /\ pc' = "reasons" /\ current = N
                             /\ JudgedIds' = JudgedIds \cup {N} /\ Latest(JudgedIds)' = N
<1>1. /\ N \in Nat /\ N = Len(cycles) /\ DOMAIN cycles = 1..N
      /\ JudgedIds \subseteq 1..N /\ JudgedIds \subseteq ClosedIds
  BY TableFacts DEF IInv, N
<1>2. \A i \in JudgedIds : i \in JudgedIds'
  BY <1>1, StepsKeepVerdicts DEF Final, JudgedIds
<1>3. CASE UNCHANGED cycles
  <2>1. JudgedIds' = JudgedIds
    BY <1>3 DEF JudgedIds
  <2>2. ~CloseJudged
    <3> SUFFICES ASSUME CloseJudged PROVE FALSE
      OBVIOUS
    <3>1. /\ N \in 1..N /\ current = N /\ cycles[N].status = "PENDING" /\ HasBatch(N)
      BY <1>1 DEF IInv, Control, Writing, CloseJudged
    <3> DEFINE v == JudgedClose(Data(current).totals, Predecessor, LinesOk(Data(current)))
    <3>2. v.status # "PENDING"
      BY DEF JudgedClose
    <3>3. cycles'[N].status = v.status
      BY <1>1, <3>1 DEF CloseJudged, Close
    <3> QED
      BY <1>3, <3>1, <3>2, <3>3
  <2> QED
    BY <2>1, <2>2
<1>4. CASE CloseSkipped \/ CloseJudged
  <2>1. pc \in {"skip", "lines"} /\ (CloseSkipped => pc = "skip")
        /\ (CloseJudged => pc = "lines" /\ pc' = "reasons")
    BY <1>4 DEF CloseSkipped, CloseJudged
  <2>2. N \in 1..N /\ current = N /\ cycles[N].status = "PENDING"
    BY <1>1, <2>1 DEF IInv, Control, Writing
  <2>3. \A i \in 1..N : i # N => cycles'[i] = cycles[i]
    BY <1>1, <1>4, <2>2 DEF CloseSkipped, CloseJudged, Close
  <2>4. DOMAIN cycles' = 1..N
    BY <1>1, <1>4 DEF CloseSkipped, CloseJudged, Close
  <2>5. CASE CloseSkipped
    <3>1. cycles'[N].status = "SKIPPED"
      BY <1>1, <2>2, <2>5 DEF CloseSkipped, Close, DegenerateClose, SkippedClose
    <3>2. JudgedIds' = JudgedIds
      BY <1>1, <2>2, <2>3, <2>4, <3>1 DEF JudgedIds
    <3> QED
      BY <2>1, <2>5, <3>2
  <2>6. CASE CloseJudged
    <3>1. cycles'[N].status \in {"VERIFIED", "MISMATCH"}
      BY <1>1, <2>2, <2>6 DEF CloseJudged, Close, JudgedClose
    <3>2. JudgedIds' = JudgedIds \cup {N}
      BY <1>1, <2>2, <2>3, <2>4, <3>1 DEF JudgedIds
    <3>3. Latest(JudgedIds)' = N
      <4> DEFINE L == Latest(JudgedIds')
      <4>1. JudgedIds' \in SUBSET (1..N) /\ JudgedIds' # {}
        BY <1>1, <2>2, <3>2
      <4>2. L \in JudgedIds' /\ \A j \in JudgedIds' : j <= L
        BY <1>1, <4>1, LatestIsNewest
      <4>3. N <= L /\ L \in 1..N
        BY <3>2, <4>1, <4>2
      <4>4. L = N
        BY <1>1, <4>3
      <4> QED
        BY <4>4 DEF Latest
    <3> QED
      BY <2>1, <2>2, <2>6, <3>2, <3>3
  <2> QED
    BY <1>4, <2>5, <2>6
<1>5. CASE Reopen \/ OpenAfterLoop
  <2>1. /\ cycles' \in Seq(Cycle) /\ Len(cycles') = N + 1
        /\ \A i \in 1..N : cycles'[i] = cycles[i]
        /\ cycles'[N + 1].status = "PENDING"
    <3> DEFINE opener == IF ClosedIds = {} THEN Len(feed) ELSE cycles[Latest(ClosedIds)].closed
               row == [opened |-> opener, closed |-> NULL, status |-> "PENDING",
                       carry |-> NULL, fee |-> 0]
    <3>1. cycles' = Append(cycles, row)
      BY <1>5 DEF Reopen, OpenAfterLoop, OpenPending
    <3>2. row.status = "PENDING"
      OBVIOUS
    <3> HIDE DEF row
    <3>3. cycles' \in Seq(Cycle)
      BY StepIInv DEF IInv, TypeOK
    <3>4. /\ DOMAIN cycles' = 1..(N + 1)
          /\ \A i \in 1..N : cycles'[i] = cycles[i]
          /\ cycles'[N + 1] = row
      BY <1>1, <3>1 DEF IInv, TypeOK
    <3>5. Len(cycles') = N + 1
      BY <1>1, <3>1 DEF IInv, TypeOK
    <3> QED
      BY <3>2, <3>3, <3>4, <3>5
  <2>2. DOMAIN cycles' = 1..(N + 1)
    BY <2>1
  <2>3. JudgedIds' = JudgedIds
    <3>1. \A i \in 1..(N + 1) : i \in 1..N \/ i = N + 1
      BY <1>1
    <3> QED
      BY <1>1, <2>1, <2>2, <3>1 DEF JudgedIds
  <2>4. ~CloseJudged
    BY <1>5 DEF Reopen, OpenAfterLoop, CloseJudged
  <2> QED
    BY <2>3, <2>4
<1>6. UNCHANGED cycles \/ CloseSkipped \/ CloseJudged \/ Reopen \/ OpenAfterLoop
  BY DEF Next, Scheduler, CloseJob, VerifyJob, Feeding, Faults, Fault, vars, tables, control,
      StartTick, LoopEnds, StartSkip, StartJudge, Attempt, ClearShares,
      WriteLine, SurfaceReason, StartCredits, CreditsDone, Crediting, CreditStaker,
      StartVerify, VerifyDone, NewBatch, Revise, CloseJobFails, Crash
<1> QED
  BY <1>3, <1>4, <1>5, <1>6

\* What is credited stays credited.
LEMMA CreditedStays ==
    ASSUME IInv, [Next]_vars, NEW i \in JudgedIds, Credited(i)
    PROVE  Credited(i)'
<1>1. i \in ClosedIds
  BY TableFacts DEF IInv
<1>2. Final(i) /\ ledger \subseteq ledger'
  BY <1>1, StepsKeepVerdicts, StepsKeepCredits
<1>3. SUFFICES ASSUME NEW r \in RowsOf(i)', r.ok
               PROVE  [staker |-> r.staker, block |-> cycles'[i].closed,
                       amount |-> r.amount] \in ledger'
  BY DEF Credited
<1>4. <<r.staker, r.amount, r.ok>> \in Results(i)
  BY <1>2 DEF Final, Results
<1>5. PICK q \in RowsOf(i) : q.staker = r.staker /\ q.amount = r.amount /\ q.ok = r.ok
  BY <1>4 DEF Results
<1>6. [staker |-> q.staker, block |-> cycles[i].closed, amount |-> q.amount] \in ledger
  BY <1>3, <1>5 DEF Credited
<1> QED
  BY <1>2, <1>5, <1>6 DEF Final

LEMMA InitSettled == Init => Settled
BY DEF Init, Settled, Settling, LedgerComplete, LatestCredited, JudgedIds

\* A close is judged: the cycle before it was paid in full.
LEMMA JudgingSettles ==
    ASSUME IInv, Settled, [Next]_vars, CloseJudged
    PROVE  Settled'
<1>1. /\ pc = "lines" /\ pc' = "reasons" /\ current = N /\ current' = current
      /\ JudgedIds' = JudgedIds \cup {N} /\ Latest(JudgedIds)' = N /\ faults' = faults
  BY JudgedSteps DEF CloseJudged
<1>2. faults <= 1 => \A i \in JudgedIds : Credited(i)
  BY <1>1 DEF Settled, Settling, LedgerComplete, LatestCredited, Awaited
<1>3. faults <= 1 => \A i \in JudgedIds : Credited(i)'
  BY <1>2, CreditedStays
<1>4. LedgerComplete'
  BY <1>1, <1>3 DEF LedgerComplete
<1> QED
  BY <1>1, <1>4 DEF Settled, Settling

\* While a judged cycle is settled nothing is pending.
LEMMA SettlingIsAlone == IInv /\ pc \in Settling => PendingIds = {}
<1> SUFFICES ASSUME IInv, pc \in Settling PROVE PendingIds = {}
  OBVIOUS
<1>1. N = Len(cycles) /\ N \in JudgedIds
  BY DEF IInv, Control, N
<1>2. cycles[N].status # "PENDING"
  BY <1>1 DEF JudgedIds
<1> QED
  BY <1>1, <1>2 DEF IInv, WindowsTile, PendingIds

\* All OK lines of the cycle that is being credited are on the ledger.
LEMMA PaidInFull ==
    ASSUME Settled, pc \in {"credit", "recredit"}, todo = {}
    PROVE  LatestCredited
BY DEF Settled, Settling, LatestCredited, Credited, CreditOf

\* Every other step keeps what is judged and what is credited.
LEMMA OthersSettle ==
    ASSUME IInv, Settled, [Next]_vars, ~CloseJudged
    PROVE  Settled'
<1>1. JudgedIds' = JudgedIds /\ Latest(JudgedIds)' = Latest(JudgedIds)
  BY JudgedSteps DEF Latest
<1>2. \A i \in JudgedIds : Credited(i) => Credited(i)'
  BY CreditedStays
<1>3. faults \in Nat
  BY DEF IInv, TypeOK
<1>4. (faults' <= 1 => faults <= 1) => LedgerComplete'
  BY <1>1, <1>2 DEF Settled, LedgerComplete
<1>5. JudgedIds # {} => Latest(JudgedIds) \in JudgedIds
  BY TableFacts, LatestIsNewest DEF IInv
<1>6. LatestCredited => LatestCredited'
  BY <1>1, <1>2, <1>5 DEF LatestCredited
<1>7. ledger \subseteq ledger'
  BY StepsKeepCredits
<1>8. CASE UNCHANGED <<tables, pc, current, todo, faults>>
  BY <1>1, <1>4, <1>6, <1>8
  DEF Settled, Settling, RowsOf, CreditOf, Awaited, PendingIds, tables
<1>9. CASE \/ StartTick \/ LoopEnds \/ \E i \in DOMAIN cycles : StartSkip(i) \/ StartJudge(i)
           \/ ClearShares \/ CloseSkipped \/ WriteLine \/ Reopen \/ OpenAfterLoop
  <2>1. UNCHANGED faults /\ pc' \notin Settling \cup {"recredit"}
        /\ pc \notin Settling \cup {"recredit"}
    BY <1>9 DEF StartTick, LoopEnds, StartSkip, StartJudge, Attempt, ClearShares, CloseSkipped,
        WriteLine, Reopen, OpenAfterLoop, OpenPending, Settling
  <2>2. Awaited => Awaited' \/ LatestCredited
    BY <1>9 DEF Awaited, PendingIds, tables, StartTick, LoopEnds, StartSkip, StartJudge,
        Attempt, ClearShares, CloseSkipped, WriteLine, Reopen, OpenAfterLoop
  <2> QED
    BY <1>4, <1>6, <2>1, <2>2 DEF Settled, Settling
<1>10. ASSUME NEW s \in todo, SurfaceReason(s) PROVE Settled'
  BY <1>1, <1>4, <1>10 DEF Settled, Settling, SurfaceReason
<1>11. CASE StartCredits
  <2>1. /\ UNCHANGED <<faults, current, cycles, shares>> /\ pc' = "credit" /\ pc \in Settling
        /\ todo' = OkStakers(current)
    BY <1>11 DEF StartCredits, tables, Settling
  <2>2. \A r \in RowsOf(current)' : r.ok => r.staker \in todo'
    BY <2>1 DEF OkStakers, RowsOf
  <2> QED
    BY <1>1, <1>4, <2>1, <2>2 DEF Settled, Settling
<1>12. CASE StartVerify
  <2>1. UNCHANGED <<faults, cycles, shares>> /\ pc = "verify"
    BY <1>12 DEF StartVerify, tables
  <2>2. CASE JudgedIds = {}
    <3>1. pc' = "idle" /\ LatestCredited'
      BY <1>1, <1>12, <2>2 DEF StartVerify, LatestCredited
    <3> QED
      BY <1>4, <2>1, <3>1 DEF Settled, Settling
  <2>3. CASE JudgedIds # {}
    <3>1. pc' = "recredit" /\ current' = Latest(JudgedIds) /\ todo' = OkStakers(current')
      BY <1>12, <2>3 DEF StartVerify
    <3>2. \A r \in RowsOf(current)' : r.ok => r.staker \in todo'
      BY <2>1, <3>1 DEF OkStakers, RowsOf
    <3>3. Awaited' /\ pc \notin Settling
      BY <2>1, <3>1 DEF Awaited, Settling
    <3> QED
      BY <1>1, <1>4, <1>6, <2>1, <3>1, <3>2, <3>3 DEF Settled, Settling
  <2> QED
    BY <2>2, <2>3
<1>13. CASE CreditsDone \/ VerifyDone
  <2>1. /\ UNCHANGED faults /\ pc' \in {"reopen", "idle"}
        /\ pc \in {"credit", "recredit"} /\ todo = {}
    BY <1>13 DEF CreditsDone, VerifyDone
  <2>2. LatestCredited'
    BY <1>6, <2>1, PaidInFull
  <2> QED
    BY <1>4, <2>1, <2>2 DEF Settled, Settling
<1>14. ASSUME NEW s \in todo, CreditStaker(s) PROVE Settled'
  <2>1. /\ UNCHANGED <<faults, pc, current, cycles, shares>> /\ todo' = todo \ {s}
        /\ pc \in {"credit", "recredit"}
    BY <1>14 DEF CreditStaker
  <2>2. PICK row \in RowsOf(current) :
            row.staker = s /\ CreditOf(current, row) \in ledger'
    BY <1>14, CreditFacts DEF CreditOf
  <2>3. ASSUME NEW r \in RowsOf(current), r.ok, r.staker \notin todo'
        PROVE  CreditOf(current, r) \in ledger'
    <3>1. CASE r.staker = s
      <4>1. r = row
        BY <2>2, <3>1 DEF IInv, Keyed, RowsOf
      <4> QED
        BY <2>2, <4>1
    <3>2. CASE r.staker # s
      BY <1>7, <2>1, <2>3, <3>2 DEF Settled
    <3> QED
      BY <3>1, <3>2
  <2>4. RowsOf(current)' = RowsOf(current) /\ \A r : CreditOf(current, r)' = CreditOf(current, r)
    BY <2>1 DEF RowsOf, CreditOf
  <2>5. PendingIds' = PendingIds
    BY <2>1 DEF PendingIds
  <2> QED
    BY <1>1, <1>4, <1>6, <2>1, <2>3, <2>4, <2>5 DEF Settled, Settling, Awaited
<1>15. CASE Faults
  <2>1. /\ faults' = faults + 1 /\ pc' \in {"verify", "idle"}
        /\ UNCHANGED cycles
    BY <1>15 DEF Faults, CloseJobFails, Crash, Fault, tables
  <2>2. faults' <= 1 => faults = 0 /\ faults <= 1 /\ faults' = 1
    BY <1>3, <2>1
  <2>3. pc \in Settling => Awaited'
    BY <2>1, SettlingIsAlone DEF Awaited, PendingIds
  <2> QED
    BY <1>4, <1>6, <2>1, <2>2, <2>3 DEF Settled, Settling
<1> QED
  BY <1>8, <1>9, <1>10, <1>11, <1>12, <1>13, <1>14, <1>15
  DEF Next, Scheduler, CloseJob, VerifyJob, Crediting, Feeding, NewBatch, Revise, vars,
      tables, control

\* README "G1": with at most one fault so far every judged cycle but the newest
\* has all its OK lines on the ledger, for any number of cycles and stakers.
THEOREM LedgerCompleteHolds == Spec => []LedgerComplete
<1>1. IInv /\ Settled /\ [Next]_vars => Settled'
  BY JudgingSettles, OthersSettle
<1>2. Settled => LedgerComplete
  BY DEF Settled
<1> QED
  BY <1>1, <1>2, InitSettled, AlwaysIInv, PTL DEF Spec

-----------------------------------------------------------------------------
\* RowsMatchVerdict.  An attempt that failed may have left rows of the pending
\* cycle, of stakers that have a line; this attempt has replaced those of the
\* lines it has written so far by the last line of each staker.

Shows(r, line) == r.staker = line.staker /\ r.amount = line.amount /\ r.ok = line.ok

\* Line n is the last of its staker among the first k lines.
LastOf(lines, n, k) == \A m \in 1..k : m > n => lines[m].staker # lines[n].staker

\* What this attempt has written so far: the last line of each staker.
Written ==
    LET lines == Data(current).lines
    IN  /\ written <= Len(lines)
        /\ \A n \in 1..written : LastOf(lines, n, written) =>
                \E r \in RowsOf(current) : Shows(r, lines[n])

Verbatim ==
    /\ RowsMatchVerdict
    /\ revisions = 0 =>
        /\ \A i \in ClosedIds : HasBatch(i)
        /\ \A r \in shares : /\ HasBatch(r.cycle)
                             /\ \E n \in DOMAIN Data(r.cycle).lines :
                                    Data(r.cycle).lines[n].staker = r.staker
        /\ pc = "lines" => Written

Same(i) == /\ i \in DOMAIN cycles' /\ cycles'[i].opened = cycles[i].opened
           /\ HasBatch(i)' /\ Data(i)' = Data(i)

\* A cycle keeps its row and its opener, whatever step is taken.
LEMMA OpenersStay ==
    ASSUME IInv, [Next]_vars, NEW i \in DOMAIN cycles
    PROVE  i \in DOMAIN cycles' /\ cycles'[i].opened = cycles[i].opened
<1>1. /\ N \in Nat /\ N = Len(cycles) /\ DOMAIN cycles = 1..N
      /\ \A j \in 1..N : cycles[j].opened \in Nat
  BY TableFacts DEF IInv, N, Cycle
<1>2. CASE UNCHANGED cycles
  BY <1>1, <1>2
<1>3. CASE CloseSkipped \/ CloseJudged
  BY <1>1, <1>3 DEF CloseSkipped, CloseJudged, Close
<1>4. CASE Reopen \/ OpenAfterLoop
  <2>1. PICK row : cycles' = Append(cycles, row)
    BY <1>4 DEF Reopen, OpenAfterLoop, OpenPending
  <2>2. cycles \in Seq(Cycle)
    BY DEF IInv, TypeOK
  <2> QED
    BY <1>1, <2>1, <2>2
<1> QED
  BY <1>2, <1>3, <1>4
  DEF Next, Scheduler, CloseJob, VerifyJob, Feeding, Faults, Fault, vars, tables, control,
      StartTick, LoopEnds, StartSkip, StartJudge, Attempt, ClearShares,
      WriteLine, SurfaceReason, StartCredits, CreditsDone, Crediting, CreditStaker,
      StartVerify, VerifyDone, NewBatch, Revise, CloseJobFails, Crash

\* Without revisions a window's data stays what it is.
LEMMA DataStays ==
    ASSUME IInv, [Next]_vars, revisions' = 0
    PROVE  /\ revisions = 0
           /\ \A i \in DOMAIN cycles : HasBatch(i) => Same(i)
<1>1. /\ N \in Nat /\ N = Len(cycles) /\ DOMAIN cycles = 1..N
      /\ \A i \in 1..N : cycles[i].opened \in Nat
  BY TableFacts DEF IInv, N, Cycle
<1>2. revisions = 0 /\ (UNCHANGED feed \/ \E d \in Pool : feed' = Append(feed, d))
  <2>1. revisions \in Nat
    BY DEF IInv, TypeOK
  <2> QED
    BY <2>1
    DEF Next, Scheduler, CloseJob, VerifyJob, Feeding, Faults, Fault, vars, tables, control,
        StartTick, LoopEnds, StartSkip, StartJudge, Attempt, ClearShares, CloseSkipped,
        WriteLine, CloseJudged, SurfaceReason, StartCredits, CreditsDone, Reopen,
        OpenAfterLoop, OpenPending, Crediting, CreditStaker, StartVerify, VerifyDone,
        NewBatch, Revise, CloseJobFails, Crash
<1>3. \A i \in 1..N : i \in DOMAIN cycles' /\ cycles'[i].opened = cycles[i].opened
  BY <1>1, OpenersStay
<1>4. feed \in Seq(Pool)
  BY DEF IInv, TypeOK
<1>5. /\ Len(feed') \in Nat /\ Len(feed) \in Nat /\ Len(feed) <= Len(feed')
      /\ \A b \in 1..Len(feed) : feed'[b] = feed[b]
  BY <1>2, <1>4
<1>6. ASSUME NEW i \in 1..N, HasBatch(i)
      PROVE  Same(i)
  <2>1. Batch(i)' = Batch(i) /\ Batch(i) \in 1..Len(feed)
    BY <1>1, <1>3, <1>5, <1>6 DEF HasBatch, Batch
  <2>2. Batch(i) <= Len(feed')
    BY <1>5, <2>1
  <2> QED
    BY <1>1, <1>3, <1>5, <2>1, <2>2 DEF HasBatch, Data, Same
<1> QED
  BY <1>1, <1>2, <1>6

\* All lines are written: the rows are the last line of each staker.
LEMMA AllWritten ==
    ASSUME IInv, Verbatim, revisions = 0, pc = "lines", written = Len(Data(current).lines)
    PROVE  LET lines == Data(current).lines
           IN  Results(current) =
                 {<<lines[n].staker, lines[n].amount, lines[n].ok>> :
                    n \in {n \in DOMAIN lines : LastOf(lines, n, Len(lines))}}
<1> DEFINE lines == Data(current).lines
           last == {n \in DOMAIN lines : LastOf(lines, n, Len(lines))}
<1>1. /\ current \in DOMAIN cycles /\ HasBatch(current) /\ Data(current) \in WindowData
  <2>1. current = N /\ N \in DOMAIN cycles /\ HasBatch(current)
    BY TableFacts DEF IInv, Control, Writing
  <2> QED
    BY <2>1, DataType DEF IInv
<1>2. lines \in Seq(ShareLine) /\ Len(lines) \in Nat /\ DOMAIN lines = 1..Len(lines)
  BY <1>1 DEF WindowData
<1>3. \A n \in last : \E r \in RowsOf(current) : Shows(r, lines[n])
  BY <1>2 DEF Verbatim, Written
<1>4. ASSUME NEW r \in RowsOf(current)
      PROVE  \E n \in last : Shows(r, lines[n])
  <2> DEFINE his == {n \in 1..Len(lines) : lines[n].staker = r.staker}
             top == Latest(his)
  <2>1. r \in shares /\ r.cycle = current
    BY DEF RowsOf
  <2>2. his # {}
    BY <1>2, <2>1 DEF Verbatim
  <2>3. top \in his /\ \A j \in his : j <= top
    BY <1>2, <2>2, LatestIsNewest
  <2> HIDE DEF top
  <2>4. top \in 1..Len(lines) /\ lines[top].staker = r.staker
    BY <2>3
  <2>5. LastOf(lines, top, Len(lines))
    <3> SUFFICES ASSUME NEW m \in 1..Len(lines), m > top, lines[m].staker = r.staker
                 PROVE  FALSE
      BY <2>4 DEF LastOf
    <3>1. m <= top
      BY <2>3
    <3> QED
      BY <2>4, <3>1, <1>2
  <2>6. top \in last
    BY <1>2, <2>4, <2>5
  <2>7. PICK q \in RowsOf(current) : Shows(q, lines[top])
    BY <1>3, <2>6
  <2>8. q = r
    BY <2>1, <2>4, <2>7 DEF IInv, Keyed, RowsOf, Shows
  <2> QED
    BY <2>6, <2>7, <2>8
<1>5. \A x : x \in Results(current) <=>
              x \in {<<lines[n].staker, lines[n].amount, lines[n].ok>> : n \in last}
  <2> HIDE DEF lines, last
  <2>1. ASSUME NEW x \in Results(current)
        PROVE  \E n \in last : x = <<lines[n].staker, lines[n].amount, lines[n].ok>>
    <3>1. PICK r \in RowsOf(current) : x = <<r.staker, r.amount, r.ok>>
      BY <2>1 DEF Results
    <3> QED
      BY <1>4, <3>1 DEF Shows
  <2>2. ASSUME NEW n \in last
        PROVE  <<lines[n].staker, lines[n].amount, lines[n].ok>> \in Results(current)
    <3>1. PICK r \in RowsOf(current) : Shows(r, lines[n])
      BY <1>3
    <3> QED
      BY <3>1 DEF Shows, Results
  <2> QED
    BY <2>1, <2>2
<1> QED
  BY <1>5

LEMMA InitVerbatim == Init => Verbatim
BY DEF Init, Verbatim, RowsMatchVerdict, JudgedIds, ClosedIds

\* Judged cycles keep their lines and their data; the one that a close has just
\* judged has the lines of AllWritten.
LEMMA RowsStayMatched ==
    ASSUME IInv, Verbatim, [Next]_vars
    PROVE  RowsMatchVerdict'
<1> DEFINE Matched(i) ==
        LET lines == Data(i).lines
        IN  Results(i) = {<<lines[n].staker, lines[n].amount, lines[n].ok>> :
                            n \in {n \in DOMAIN lines : LastOf(lines, n, Len(lines))}}
<1>1. \A i \in DOMAIN cycles : HasBatch(i) =>
        LET lines == Data(i).lines
        IN  lines \in Seq(ShareLine) /\ DOMAIN lines = 1..Len(lines)
  BY DataType DEF IInv, WindowData
<1>2. SUFFICES ASSUME revisions' = 0, NEW i \in JudgedIds'
               PROVE  i \in DOMAIN cycles /\ HasBatch(i) /\ Matched(i)
                      /\ Results(i)' = Results(i)
  <2> SUFFICES ASSUME revisions' = 0, NEW i \in JudgedIds',
                      i \in DOMAIN cycles, HasBatch(i), Matched(i), Results(i)' = Results(i)
               PROVE  LET lines == Data(i).lines'
                          last == {n \in DOMAIN lines : \A m \in DOMAIN lines :
                                      m > n => lines[m].staker # lines[n].staker}
                      IN  Results(i)' = {<<lines[n].staker, lines[n].amount, lines[n].ok>> : n \in last}
    BY <1>2 DEF RowsMatchVerdict, Results
  <2>1. Data(i)' = Data(i)
    BY DataStays DEF Same
  <2> QED
    BY <1>1, <2>1 DEF LastOf
<1>3. revisions = 0
  BY <1>2, DataStays
<1>4. CASE i \in JudgedIds
  <2>1. i \in DOMAIN cycles /\ i \in ClosedIds
    BY <1>4, TableFacts DEF IInv
  <2>2. HasBatch(i) /\ Results(i)' = Results(i)
    BY <1>3, <2>1, StepsKeepVerdicts DEF Verbatim, Final
  <2>3. Matched(i)
    BY <1>1, <1>3, <1>4, <2>1, <2>2 DEF Verbatim, RowsMatchVerdict, Results, LastOf
  <2> QED
    BY <2>1, <2>2, <2>3
<1>5. CASE i \notin JudgedIds
  <2>1. CloseJudged /\ i = N /\ current = N
    BY <1>2, <1>5, JudgedSteps
  <2>2. pc = "lines" /\ written = Len(Data(current).lines) /\ UNCHANGED shares
    BY <2>1 DEF CloseJudged
  <2>3. i \in DOMAIN cycles /\ HasBatch(i)
    BY <2>1, <2>2, TableFacts DEF IInv, Control, Writing
  <2>4. Matched(i)
    BY <1>3, <2>1, <2>2, AllWritten
  <2> QED
    BY <2>2, <2>3, <2>4 DEF Results, RowsOf
<1> QED
  BY <1>4, <1>5

\* Only a close whose batch is on record makes a cycle a closed one.
LEMMA NewlyClosed ==
    ASSUME IInv, [Next]_vars, NEW i \in ClosedIds', i \notin ClosedIds
    PROVE  i \in DOMAIN cycles /\ HasBatch(i)
<1>1. N \in Nat /\ N = Len(cycles) /\ DOMAIN cycles = 1..N
  BY TableFacts DEF IInv, N
<1>2. ~UNCHANGED cycles
  BY DEF ClosedIds
<1>3. CASE CloseSkipped \/ CloseJudged
  <2>1. pc \in Writing
    BY <1>3 DEF CloseSkipped, CloseJudged, Writing
  <2>2. N \in 1..N /\ current = N /\ HasBatch(N)
    BY <1>1, <2>1 DEF IInv, Control
  <2>3. DOMAIN cycles' = 1..N /\ \A j \in 1..N : j # N => cycles'[j] = cycles[j]
    BY <1>1, <1>3, <2>2 DEF CloseSkipped, CloseJudged, Close
  <2>4. i = N
    BY <1>1, <2>3 DEF ClosedIds
  <2> QED
    BY <1>1, <2>2, <2>4
<1>4. ASSUME Reopen \/ OpenAfterLoop
      PROVE  FALSE
  <2> DEFINE opener == IF ClosedIds = {} THEN Len(feed) ELSE cycles[Latest(ClosedIds)].closed
             row == [opened |-> opener, closed |-> NULL, status |-> "PENDING",
                     carry |-> NULL, fee |-> 0]
  <2>1. cycles' = Append(cycles, row) /\ cycles \in Seq(Cycle)
    BY <1>4 DEF Reopen, OpenAfterLoop, OpenPending, IInv, TypeOK
  <2>2. row.status = "PENDING"
    OBVIOUS
  <2> HIDE DEF row
  <2>3. /\ DOMAIN cycles' = 1..(N + 1)
        /\ \A j \in 1..N : cycles'[j] = cycles[j]
        /\ cycles'[N + 1] = row
    BY <1>1, <2>1
  <2>4. \A j \in 1..(N + 1) : j \in 1..N \/ j = N + 1
    BY <1>1
  <2> QED
    BY <1>1, <2>2, <2>3, <2>4 DEF ClosedIds
<1> QED
  BY <1>2, <1>3, <1>4
  DEF Next, Scheduler, CloseJob, VerifyJob, Feeding, Faults, Fault, vars, tables, control,
      StartTick, LoopEnds, StartSkip, StartJudge, Attempt, ClearShares,
      WriteLine, SurfaceReason, StartCredits, CreditsDone, Crediting, CreditStaker,
      StartVerify, VerifyDone, NewBatch, Revise, CloseJobFails, Crash

\* Every row that a step writes belongs to a line of its window.
LEMMA RowsHaveLines ==
    ASSUME IInv, Verbatim, revisions = 0, [Next]_vars, NEW r \in shares'
    PROVE  /\ r.cycle \in DOMAIN cycles /\ HasBatch(r.cycle)
           /\ \E n \in DOMAIN Data(r.cycle).lines : Data(r.cycle).lines[n].staker = r.staker
<1>1. CASE r \in shares
  BY <1>1 DEF Verbatim, IInv, Keyed
<1>2. CASE WriteLine /\ r \notin shares
  <2> DEFINE line == Data(current).lines[written + 1]
  <2>1. /\ N \in DOMAIN cycles /\ current = N /\ HasBatch(current)
        /\ written \in Nat /\ written < Len(Data(current).lines)
    BY <1>2, TableFacts DEF WriteLine, IInv, TypeOK, Control, Writing
  <2>2. Data(current).lines \in Seq(ShareLine)
    BY <2>1, DataType DEF IInv, WindowData
  <2>3. written + 1 \in DOMAIN Data(current).lines
    BY <2>1, <2>2
  <2>4. r.cycle = current /\ r.staker = line.staker
    BY <1>2 DEF WriteLine, PutShare
  <2> QED
    BY <2>1, <2>3, <2>4
<1>3. CASE (\E s \in todo : SurfaceReason(s)) /\ r \notin shares
  <2>1. PICK row \in RowsOf(current) : PutShare([row EXCEPT !.reason = TRUE])
    BY <1>3 DEF SurfaceReason
  <2>2. row \in shares /\ row \in ShareRow
    BY <2>1 DEF RowsOf, IInv, TypeOK
  <2>3. r.cycle = row.cycle /\ r.staker = row.staker
    BY <1>3, <2>1, <2>2 DEF PutShare, ShareRow
  <2> QED
    BY <2>2, <2>3 DEF Verbatim, IInv, Keyed
<1> QED
  BY <1>1, <1>2, <1>3
  DEF Next, Scheduler, CloseJob, VerifyJob, Feeding, Faults, Fault, vars, tables, control,
      StartTick, LoopEnds, StartSkip, StartJudge, Attempt, ClearShares, CloseSkipped,
      CloseJudged, StartCredits, CreditsDone, Reopen, OpenAfterLoop, OpenPending, Crediting,
      CreditStaker, StartVerify, VerifyDone, NewBatch, Revise, CloseJobFails, Crash

\* One more line replaces the row of its staker and keeps every other row.
LEMMA LineIsWritten ==
    ASSUME IInv, Written, WriteLine
    PROVE  Written'
<1> DEFINE lines == Data(current).lines
           k == written + 1
           row == [cycle |-> current, staker |-> lines[k].staker, amount |-> lines[k].amount,
                   ok |-> lines[k].ok, reason |-> lines[k].reason]
<1>1. /\ N \in DOMAIN cycles /\ current = N /\ HasBatch(current)
      /\ written \in Nat /\ written < Len(lines)
  BY TableFacts DEF WriteLine, IInv, TypeOK, Control, Writing
<1>2. lines \in Seq(ShareLine)
  BY <1>1, DataType DEF IInv, WindowData
<1>3. k \in 1..Len(lines) /\ 1..k = 1..written \cup {k} /\ k \notin 1..written
  BY <1>1, <1>2
<1>4. /\ Data(current)' = Data(current) /\ current' = current /\ written' = k
      /\ PutShare(row)
  BY DEF WriteLine, Data, Batch
<1> HIDE DEF lines, k
<1>5. ASSUME NEW n \in 1..k, LastOf(lines, n, k)
      PROVE  \E r \in RowsOf(current)' : Shows(r, lines[n])
  <2>1. CASE n = k
    <3>1. row \in RowsOf(current)'
      BY <1>4 DEF PutShare, RowsOf
    <3> QED
      BY <2>1, <3>1 DEF Shows
  <2>2. CASE n # k
    <3>1. n \in 1..written /\ k \in Nat /\ n \in Nat /\ k > n
      BY <1>1, <1>3, <2>2 DEF k
    <3>2. lines[k].staker # lines[n].staker
      BY <1>3, <1>5, <3>1 DEF LastOf
    <3>3. LastOf(lines, n, written)
      BY <1>3, <1>5 DEF LastOf
    <3>4. PICK r \in RowsOf(current) : Shows(r, lines[n])
      BY <3>1, <3>3 DEF Written, lines
    <3>5. r \in RowsOf(current)'
      BY <1>4, <3>2, <3>4 DEF PutShare, RowsOf, Shows
    <3> QED
      BY <3>4, <3>5
  <2> QED
    BY <2>1, <2>2
<1>6. lines' = lines /\ k <= Len(lines)
  BY <1>3, <1>4 DEF lines
<1> QED
  BY <1>4, <1>5, <1>6 DEF Written, lines

LEMMA VerbatimSteps ==
    ASSUME IInv, Verbatim, [Next]_vars
    PROVE  Verbatim'
<1>1. RowsMatchVerdict'
  BY RowsStayMatched
<1>2. SUFFICES ASSUME revisions' = 0
               PROVE  /\ \A i \in ClosedIds' : HasBatch(i)'
                      /\ \A r \in shares' : /\ HasBatch(r.cycle)'
                                            /\ \E n \in DOMAIN Data(r.cycle).lines' :
                                                Data(r.cycle).lines[n].staker' = r.staker
                      /\ pc' = "lines" => Written'
  BY <1>1 DEF Verbatim, Written
<1>3. /\ revisions = 0
      /\ \A i \in DOMAIN cycles : HasBatch(i) => Same(i)
  BY <1>2, DataStays
<1>4. ASSUME NEW i \in ClosedIds' PROVE HasBatch(i)'
  <2>1. i \in DOMAIN cycles /\ HasBatch(i)
    BY <1>3, TableFacts, NewlyClosed DEF IInv, Verbatim
  <2> QED
    BY <1>3, <2>1 DEF Same
<1>5. ASSUME NEW r \in shares'
      PROVE  /\ HasBatch(r.cycle)'
             /\ \E n \in DOMAIN Data(r.cycle).lines' :
                    Data(r.cycle).lines[n].staker' = r.staker
  <2>1. /\ r.cycle \in DOMAIN cycles /\ HasBatch(r.cycle)
        /\ \E n \in DOMAIN Data(r.cycle).lines : Data(r.cycle).lines[n].staker = r.staker
    BY <1>3, RowsHaveLines
  <2> QED
    BY <1>3, <2>1 DEF Same
<1>6. ASSUME pc' = "lines" PROVE Written'
  <2>1. CASE \E i \in DOMAIN cycles : StartJudge(i)
    <3>1. PICK i \in DOMAIN cycles : StartJudge(i)
      BY <2>1
    <3>2. HasBatch(i) /\ Data(i) \in WindowData
      BY <3>1, DataType DEF IInv, StartJudge, Attempt
    <3>3. current' = i /\ written' = 0 /\ Data(current)' = Data(i)
      BY <3>1 DEF StartJudge, Attempt, Data, Batch, tables
    <3>4. Len(Data(i).lines) \in Nat
      BY <3>2 DEF WindowData
    <3> QED
      BY <3>3, <3>4 DEF Written
  <2>2. CASE WriteLine
    BY <1>3, <2>2, LineIsWritten DEF Verbatim, Written, WriteLine
  <2>3. CASE UNCHANGED vars
    <3>1. Written
      BY <1>3, <1>6, <2>3 DEF Verbatim, Written, vars
    <3> QED
      BY <2>3, <3>1 DEF Written, vars, Data, Batch, RowsOf
  <2> QED
    BY <1>6, <2>1, <2>2, <2>3
    DEF Next, Scheduler, CloseJob, VerifyJob, Feeding, Faults, Fault, tables, control,
        StartTick, LoopEnds, StartSkip, Attempt, ClearShares, CloseSkipped,
        CloseJudged, SurfaceReason, StartCredits, CreditsDone, Reopen, OpenAfterLoop,
        OpenPending, Crediting, CreditStaker, StartVerify, VerifyDone, NewBatch, Revise,
        CloseJobFails, Crash
<1> QED
  BY <1>4, <1>5, <1>6

\* run_cycle_close: as long as no window's data changed under a retry, the rows
\* of every judged cycle are exactly the last lines of its own verdict, however
\* many failed attempts came before.
THEOREM RowsMatchVerdictHolds == Spec => []RowsMatchVerdict
<1>1. IInv /\ Verbatim /\ [Next]_vars => Verbatim'
  BY VerbatimSteps
<1>2. Verbatim => RowsMatchVerdict
  BY DEF Verbatim
<1> QED
  BY <1>1, <1>2, InitVerbatim, AlwaysIInv, PTL DEF Spec

-----------------------------------------------------------------------------
(***************************************************************************)
(* CycleClose implements CarryChain: between two commits of close_cycle    *)
(* the last closed row, the data of its window and the number of closed    *)
(* rows stay what they are, and close_cycle itself is a close of the       *)
(* chain.                                                                  *)
(***************************************************************************)

\* The i-th cycle opens at the (i-1)-st batch or later, and a cycle is closed
\* with a batch that is on record, so there are no more closed cycles than
\* batches.
Spread ==
    /\ Len(feed) <= BatchBound
    /\ \A i \in DOMAIN cycles : i - 1 <= cycles[i].opened
    /\ \A i \in ClosedIds : cycles[i].closed <= Len(feed)

\* A window that is being judged is not degenerate.
Judgeable == pc = "lines" => ~Degenerate(Data(current).totals, Predecessor)

CInv == IInv /\ Spread /\ Judgeable

-----------------------------------------------------------------------------
\* The close of the pending cycle.

\* close_cycle commits.
ClosesWith(v) ==
    /\ pc \in {"skip", "lines"} /\ v \in Verdict
    /\ Close(v) /\ UNCHANGED feed

\* Everything but the last cycle is closed before, everything after.
LEMMA CloseFacts ==
    ASSUME IInv, NEW v, ClosesWith(v)
    PROVE  /\ N \in Nat \ {0} /\ N = Len(cycles) /\ DOMAIN cycles = 1..N
           /\ current = N /\ HasBatch(N)
           /\ ClosedIds = 1..(N - 1) /\ ClosedIds' = 1..N
           /\ \A i \in 1..N : cycles'[i].opened = cycles[i].opened
           /\ cycles'[N].closed = Batch(N) /\ cycles'[N].status = v.status
           /\ Predecessor' = [carry |-> v.carry, fee |-> v.fee]
           /\ Latest(ClosedIds') = N
<1>1. /\ N \in Nat /\ N = Len(cycles) /\ DOMAIN cycles = 1..N
      /\ \A i \in 1..N : i \in ClosedIds <=> cycles[i].status # "PENDING"
      /\ ClosedIds \subseteq 1..N
  BY TableFacts DEF IInv, N
<1>2. N # 0 /\ current = N /\ cycles[N].status = "PENDING" /\ HasBatch(N)
  BY DEF ClosesWith, IInv, Control, Writing
<1>3. N \in 1..N
  BY <1>1, <1>2
<1>4. \A i \in 1..N : i # N => cycles[i].status # "PENDING"
  BY <1>1 DEF IInv, WindowsTile
<1>5. ClosedIds = 1..(N - 1)
  <2>1. \A i : i \in 1..(N - 1) <=> i \in 1..N /\ i # N
    BY <1>1
  <2> QED
    BY <1>1, <1>2, <1>3, <1>4, <2>1
<1> DEFINE row == [opened |-> cycles[N].opened, closed |-> Batch(N), status |-> v.status,
                   carry |-> v.carry, fee |-> v.fee]
<1>6. cycles' = [cycles EXCEPT ![N] = row]
  BY <1>2 DEF ClosesWith, Close
<1>7. DOMAIN cycles' = 1..N /\ cycles'[N] = row
      /\ \A i \in 1..N : i # N => cycles'[i] = cycles[i]
  BY <1>1, <1>3, <1>6
<1>8. v.status # "PENDING"
  BY DEF ClosesWith, Verdict, Statuses
<1>9. \A i \in 1..N : cycles'[i].status # "PENDING"
  BY <1>4, <1>7, <1>8
<1>10. ClosedIds' = 1..N
  BY <1>7, <1>9 DEF ClosedIds
<1>11. Latest(ClosedIds') = N
  <2> DEFINE L == Latest(ClosedIds')
  <2>1. L \in 1..N /\ \A j \in 1..N : j <= L
    BY <1>1, <1>3, <1>10, LatestIsNewest
  <2> QED
    BY <1>1, <1>3, <2>1
<1>12. Predecessor' = [carry |-> v.carry, fee |-> v.fee]
  <2>1. Latest(ClosedIds)' = N /\ ClosedIds' # {}
    BY <1>3, <1>10, <1>11 DEF Latest
  <2> QED
    BY <1>7, <2>1 DEF Predecessor
<1>13. \A i \in 1..N : cycles'[i].opened = cycles[i].opened
  BY <1>7
<1> QED
  BY <1>1, <1>2, <1>5, <1>7, <1>10, <1>11, <1>12, <1>13

\* Which steps commit close_cycle, with what verdict, and that no other step
\* closes a cycle.
LEMMA WhoCloses ==
    ASSUME IInv, Next
    PROVE  \/ UNCHANGED cycles
           \/ (Reopen \/ OpenAfterLoop) /\ ClosedIds' = ClosedIds
           \/ LET d == Data(current)
                  w == d.totals
                  p == Predecessor
              IN  \/ /\ Degenerate(w, p) /\ ClosesWith(DegenerateClose(w, p))
                  \/ /\ ~Degenerate(w, p) /\ ClosesWith(SkippedClose(w, p))
                  \/ /\ CloseJudged /\ ClosesWith(JudgedClose(w, p, LinesOk(d)))
<1> DEFINE d == Data(current)
           w == d.totals
           p == Predecessor
<1>1. CASE CloseSkipped \/ CloseJudged
  <2>1. pc \in {"skip", "lines"} /\ UNCHANGED feed
    BY <1>1 DEF CloseSkipped, CloseJudged
  <2>2. current = N /\ N \in DOMAIN cycles /\ HasBatch(current)
    BY <2>1, TableFacts DEF IInv, Control, Writing
  <2>3. w \in CarryWindow /\ p \in Balance /\ LinesOk(d) \in BOOLEAN
    BY <2>2, DataType, PredecessorType DEF IInv, LinesOk
  <2>4. CloseSkipped => Close(IF Degenerate(w, p) THEN DegenerateClose(w, p)
                              ELSE SkippedClose(w, p))
    BY DEF CloseSkipped
  <2>5. CloseJudged => Close(JudgedClose(w, p, LinesOk(d)))
    BY DEF CloseJudged
  <2> HIDE DEF d, w, p
  <2> QED
    BY <1>1, <2>1, <2>3, <2>4, <2>5, VerdictTypes DEF ClosesWith, d, w, p
<1>2. CASE UNCHANGED cycles
  BY <1>2
<1>3. CASE Reopen \/ OpenAfterLoop
  <2>1. N \in Nat /\ N = Len(cycles) /\ DOMAIN cycles = 1..N
    BY TableFacts DEF IInv, N
  <2> DEFINE opener == IF ClosedIds = {} THEN Len(feed) ELSE cycles[Latest(ClosedIds)].closed
             row == [opened |-> opener, closed |-> NULL, status |-> "PENDING",
                     carry |-> NULL, fee |-> 0]
  <2>2. cycles' = Append(cycles, row) /\ cycles \in Seq(Cycle)
    BY <1>3 DEF Reopen, OpenAfterLoop, OpenPending, IInv, TypeOK
  <2>3. row.status = "PENDING"
    OBVIOUS
  <2> HIDE DEF row
  <2>4. /\ DOMAIN cycles' = 1..(N + 1)
        /\ \A j \in 1..N : cycles'[j] = cycles[j]
        /\ cycles'[N + 1] = row
    BY <2>1, <2>2
  <2>5. 1..(N + 1) = 1..N \cup {N + 1}
    BY <2>1
  <2> QED
    BY <1>3, <2>1, <2>3, <2>4, <2>5 DEF ClosedIds
<1> QED
  BY <1>1, <1>2, <1>3
  DEF Next, Scheduler, CloseJob, VerifyJob, Feeding, Faults, Fault, tables, control,
      StartTick, LoopEnds, StartSkip, StartJudge, Attempt, ClearShares,
      WriteLine, SurfaceReason, StartCredits, CreditsDone, Crediting, CreditStaker,
      StartVerify, VerifyDone, NewBatch, Revise, CloseJobFails, Crash

-----------------------------------------------------------------------------
\* The invariant.

LEMMA InitCInv == CarryInit => CInv
BY InitIInv, CloseConstants DEF CarryInit, Init, CInv, Spread, Judgeable, ClosedIds

\* Ingest and the scheduler add batches up to the bound and never drop one.
LEMMA FeedGrows ==
    ASSUME CInv, [Next]_vars
    PROVE  /\ Len(feed) \in Nat /\ Len(feed') \in Nat
           /\ Len(feed) <= Len(feed') /\ Len(feed') <= BatchBound
           /\ \A i \in ClosedIds : /\ cycles[i].closed \in 1..Len(feed)
                                   /\ feed'[cycles[i].closed] = feed[cycles[i].closed]
<1>1. feed \in Seq(Pool) /\ BatchBound \in Nat
  BY CloseConstants DEF CInv, IInv, TypeOK
<1>2. ASSUME NEW i \in ClosedIds
      PROVE  cycles[i].closed \in 1..Len(feed)
  <2>1. i \in DOMAIN cycles /\ cycles[i] \in Cycle
    BY TableFacts DEF CInv, IInv
  <2>2. cycles[i].closed = cycles[i].opened + 1 /\ cycles[i].opened \in Nat
    BY <2>1 DEF CInv, IInv, WindowsTile, ClosedIds, Cycle
  <2> QED
    BY <1>1, <2>2 DEF CInv, Spread
<1>3. CASE UNCHANGED feed
  BY <1>1, <1>2, <1>3 DEF CInv, Spread
<1>4. ASSUME NEW d \in Pool, NewBatch(d)
      PROVE  /\ feed' = Append(feed, d) /\ Len(feed) < BatchBound
  BY <1>4 DEF NewBatch
<1>5. ASSUME NEW d \in Pool, NEW b \in DOMAIN feed, Revise(b, d)
      PROVE  /\ feed' = [feed EXCEPT ![b] = d]
             /\ \A i \in ClosedIds : cycles[i].closed < b
  BY <1>5 DEF Revise
<1>6. CASE Feeding
  <2>1. CASE \E d \in Pool : NewBatch(d)
    BY <1>1, <1>2, <1>4, <2>1
  <2>2. CASE \E d \in Pool : \E b \in DOMAIN feed : Revise(b, d)
    <3>1. PICK d \in Pool, b \in DOMAIN feed : Revise(b, d)
      BY <2>2
    <3>2. feed' = [feed EXCEPT ![b] = d] /\ \A i \in ClosedIds : cycles[i].closed < b
      BY <1>5, <3>1
    <3>3. Len(feed') = Len(feed)
      BY <1>1, <3>2
    <3> QED
      BY <1>1, <1>2, <3>2, <3>3 DEF CInv, Spread
  <2> QED
    BY <1>6, <2>1, <2>2 DEF Feeding
<1> QED
  BY <1>3, <1>6
  DEF Next, Scheduler, CloseJob, VerifyJob, Faults, Fault, vars, tables, control,
      StartTick, LoopEnds, StartSkip, StartJudge, Attempt, ClearShares, CloseSkipped,
      WriteLine, CloseJudged, SurfaceReason, StartCredits, CreditsDone, Reopen,
      OpenAfterLoop, OpenPending, Crediting, CreditStaker, StartVerify, VerifyDone,
      CloseJobFails, Crash

\* A closed row, once written, and the data of its window stay.
LEMMA ClosedStays ==
    ASSUME CInv, [Next]_vars, NEW i \in ClosedIds
    PROVE  /\ i \in ClosedIds' /\ cycles'[i] = cycles[i]
           /\ feed'[cycles'[i].closed] = feed[cycles[i].closed]
BY StepsKeepVerdicts, FeedGrows DEF CInv, Final, ClosedIds

LEMMA StepSpread == CInv /\ [Next]_vars => Spread'
<1> SUFFICES ASSUME CInv, [Next]_vars PROVE Spread'
  OBVIOUS
<1>1. IInv /\ IInv' /\ N \in Nat /\ N = Len(cycles) /\ DOMAIN cycles = 1..N
  BY StepIInv, TableFacts DEF CInv, IInv, N
<1>2. /\ Len(feed) \in Nat /\ Len(feed') \in Nat
      /\ Len(feed) <= Len(feed') /\ Len(feed') <= BatchBound
  BY FeedGrows
<1>3. cycles \in Seq(Cycle) /\ cycles' \in Seq(Cycle)
  BY <1>1 DEF IInv, TypeOK
<1>4. \A i \in 1..N : cycles[i].opened \in Nat /\ i - 1 <= cycles[i].opened
  <2>1. \A i \in 1..N : cycles[i] \in Cycle /\ cycles[i].opened \in Nat
    BY <1>1, TableFacts DEF IInv, Cycle
  <2> QED
    BY <1>1, <2>1 DEF CInv, Spread
<1>5. CASE UNCHANGED cycles
  BY <1>1, <1>2, <1>5, ClosedStays, FeedGrows DEF CInv, Spread, ClosedIds
<1>6. ASSUME NEW v, ClosesWith(v) PROVE Spread'
  <2>1. /\ N \in 1..N /\ HasBatch(N) /\ ClosedIds = 1..(N - 1) /\ ClosedIds' = 1..N
        /\ \A i \in 1..N : cycles'[i].opened = cycles[i].opened
        /\ cycles'[N].closed = Batch(N)
    BY <1>1, <1>6, CloseFacts
  <2>2. DOMAIN cycles' = 1..N
    BY <1>1, <1>6 DEF ClosesWith, Close
  <2>3. \A i \in ClosedIds : cycles'[i] = cycles[i] /\ cycles[i].closed \in 1..Len(feed)
    BY ClosedStays, FeedGrows
  <2>4. cycles'[N].closed <= Len(feed)
    BY <2>1 DEF HasBatch
  <2>5. \A i \in 1..N : i # N => i \in ClosedIds
    BY <1>1, <2>1
  <2>6. cycles'[N].closed \in Int
    BY <1>1, <1>4, <2>1 DEF Batch
  <2>7. \A i \in DOMAIN cycles' : i - 1 <= cycles'[i].opened
    BY <1>4, <2>1, <2>2
  <2>8. \A i \in ClosedIds' : cycles'[i].closed <= Len(feed')
    BY <1>2, <2>1, <2>3, <2>4, <2>5, <2>6
  <2> QED
    BY <1>2, <2>7, <2>8 DEF Spread
<1>7. CASE Reopen \/ OpenAfterLoop
  <2>1. OpenPending /\ PendingIds = {} /\ UNCHANGED feed
    BY <1>1, <1>7 DEF IInv, Control, Reopen, OpenAfterLoop, OpenPending
  <2>2. N' = N + 1 /\ WindowsTile' /\ \A i \in ClosedIds : cycles'[i] = cycles[i]
    BY <1>1, <2>1, Opening
  <2>3. ClosedIds = 1..N
    BY <1>1, <2>1, TableFacts DEF IInv
  <2>4. DOMAIN cycles' = 1..(N + 1) /\ Len(cycles') = N + 1
    BY <1>1, <1>3, <2>2 DEF N
  <2>5. cycles'[N + 1].opened \in Nat /\ N <= cycles'[N + 1].opened
    <3>1. cycles'[N + 1] \in Cycle
      BY <1>1, <1>3, <2>4
    <3>2. CASE N = 0
      BY <3>1, <3>2 DEF Cycle
    <3>3. CASE N # 0
      <4>1. N \in 1..N /\ N \in DOMAIN cycles' /\ N # Len(cycles')
        BY <1>1, <2>4, <3>3
      <4>2. /\ cycles'[N].status # "PENDING"
            /\ cycles'[N].closed = cycles'[N].opened + 1
            /\ cycles'[N + 1].opened = cycles'[N].closed
        BY <2>2, <4>1 DEF WindowsTile
      <4> QED
        BY <1>1, <1>4, <2>2, <2>3, <4>1, <4>2
    <3> QED
      BY <3>2, <3>3
  <2>6. \A i \in 1..(N + 1) : i \in 1..N \/ i = N + 1
    BY <1>1
  <2>7. ClosedIds' \subseteq 1..N
    <3>1. cycles'[N + 1].status = "PENDING"
      <4> DEFINE opener == IF ClosedIds = {} THEN Len(feed) ELSE cycles[Latest(ClosedIds)].closed
                 row == [opened |-> opener, closed |-> NULL, status |-> "PENDING",
                         carry |-> NULL, fee |-> 0]
      <4>1. cycles' = Append(cycles, row) /\ row.status = "PENDING"
        BY <2>1 DEF OpenPending
      <4> HIDE DEF row
      <4> QED
        BY <1>1, <1>3, <4>1
    <3> QED
      BY <2>4, <2>6, <3>1 DEF ClosedIds
  <2>8. \A i \in DOMAIN cycles' : i - 1 <= cycles'[i].opened
    <3>1. \A i \in 1..N : i - 1 <= cycles'[i].opened
      BY <1>4, <2>2, <2>3
    <3> QED
      BY <1>1, <2>4, <2>5, <2>6, <3>1
  <2>9. \A i \in ClosedIds' : cycles'[i].closed <= Len(feed')
    BY <2>1, <2>2, <2>3, <2>7 DEF CInv, Spread
  <2> QED
    BY <1>2, <2>8, <2>9 DEF Spread
<1> QED
  BY <1>1, <1>5, <1>6, <1>7, WhoCloses DEF vars

LEMMA StepJudgeable == CInv /\ [Next]_vars => Judgeable'
<1> SUFFICES ASSUME CInv, [Next]_vars, pc' = "lines"
             PROVE  ~Degenerate(Data(current).totals, Predecessor)'
  BY DEF Judgeable
<1>1. CASE \E i \in DOMAIN cycles : StartJudge(i)
  <2>1. PICK i \in DOMAIN cycles : StartJudge(i)
    BY <1>1
  <2>2. /\ ~Degenerate(Data(i).totals, Predecessor)
        /\ current' = i /\ UNCHANGED <<feed, cycles>>
    BY <2>1 DEF StartJudge, Attempt, tables
  <2>3. Predecessor' = Predecessor /\ Data(current)' = Data(i)
    BY <2>2 DEF Predecessor, ClosedIds, Latest, Data, Batch
  <2> QED
    BY <2>2, <2>3 DEF Degenerate, CarryIn, BaselineKnown
<1>2. CASE WriteLine \/ UNCHANGED vars
  <2>1. pc = "lines" /\ UNCHANGED <<feed, cycles, current>>
    BY <1>2 DEF WriteLine, vars
  <2>2. Predecessor' = Predecessor /\ Data(current)' = Data(current)
    BY <2>1 DEF Predecessor, ClosedIds, Latest, Data, Batch
  <2> QED
    BY <2>1, <2>2 DEF CInv, Judgeable, Degenerate, CarryIn, BaselineKnown
<1> QED
  BY <1>1, <1>2
  DEF Next, Scheduler, CloseJob, VerifyJob, Feeding, Faults, Fault, tables, control,
      StartTick, LoopEnds, StartSkip, Attempt, ClearShares, CloseSkipped,
      CloseJudged, SurfaceReason, StartCredits, CreditsDone, Reopen, OpenAfterLoop,
      OpenPending, Crediting, CreditStaker, StartVerify, VerifyDone, NewBatch, Revise,
      CloseJobFails, Crash

\* Withdrawals and entitlements stay integers, so the forgiven part adds up.
CarryInv == CInv /\ feeBalance \in Int

LEMMA StepCarryInv == CarryInv /\ [CarryNext]_carryVars => CarryInv'
<1> SUFFICES ASSUME CarryInv, [CarryNext]_carryVars PROVE CarryInv'
  OBVIOUS
<1>1. [Next]_vars
  BY DEF CarryNext, carryVars
<1>2. CInv'
  BY <1>1, StepIInv, StepSpread, StepJudgeable DEF CarryInv, CInv
<1>3. feeBalance' \in Int
  <2>1. CASE UNCHANGED history
    BY <2>1 DEF history, CarryInv
  <2>2. CASE Next /\ ClosedIds' # ClosedIds
    <3> DEFINE w == Data(current).totals
    <3>1. Record(w, Predecessor')
      BY <2>2 DEF CarryNext, carryVars, vars, ClosedIds
    <3>2. w \in CarryWindow
      <4>1. PICK v : ClosesWith(v)
        BY <2>2, WhoCloses DEF CarryInv, CInv, ClosedIds
      <4> QED
        BY <4>1, CloseFacts, DataType DEF CarryInv, CInv, IInv
    <3> HIDE DEF w
    <3>3. OperatorTake(w) \in Int /\ w.feePaid \in Int
      BY <3>2, OwedTypes DEF CarryWindow
    <3> QED
      BY <3>1, <3>3 DEF Record, CarryInv
  <2> QED
    BY <2>1, <2>2 DEF CarryNext, carryVars
<1> QED
  BY <1>2, <1>3 DEF CarryInv

-----------------------------------------------------------------------------
\* The refinement.

\* CarryChain's copy of the carry rule is the carry rule.
LEMMA SameRule ==
    \A w, p, ok :
        /\ Chain!Degenerate(w, p) <=> Degenerate(w, p)
        /\ Chain!DegenerateClose(w, p) = DegenerateClose(w, p)
        /\ Chain!SkippedClose(w, p) = SkippedClose(w, p)
        /\ Chain!JudgedClose(w, p, ok) = JudgedClose(w, p, ok)
        /\ Chain!WithheldLimit(w) = WithheldLimit(w)
        /\ Chain!Owed(w) = Owed(w) /\ Chain!OperatorTake(w) = OperatorTake(w)
        /\ Chain!FeeOut(w, p) = FeeOut(w, p)
        /\ Chain!BaselineKnown(p) <=> BaselineKnown(p)
BY DEF Chain!Degenerate, Chain!DegenerateClose, Chain!SkippedClose, Chain!JudgedClose,
       Chain!WithheldLimit, Chain!Owed, Chain!OperatorTake, Chain!FeeOut,
       Chain!BaselineKnown, Chain!CarryIn, Chain!CarryOut, Chain!FeeCut, Chain!DepositKept,
       Chain!CarryFlagged, Chain!Overpaid, Chain!Withheld, Chain!FeeOverdrawn,
       Degenerate, DegenerateClose, SkippedClose, JudgedClose,
       WithheldLimit, Owed, OperatorTake, FeeOut,
       BaselineKnown, CarryIn, CarryOut, FeeCut, DepositKept,
       CarryFlagged, Overpaid, Withheld, FeeOverdrawn

LEMMA InitChain == CarryInit => Chain!Init
<1> SUFFICES ASSUME CarryInit PROVE Chain!Init
  OBVIOUS
<1>1. ClosedIds = {}
  BY DEF CarryInit, Init, ClosedIds
<1>2. Cardinality(ClosedIds) = 0
  BY <1>1, FS_EmptySet
<1> QED
  BY <1>1, <1>2
  DEF Chain!Init, CarryInit, Predecessor, NoPredecessor, Chain!NoPredecessor,
      LastStatus, LastLimit

\* Steps that close nothing leave the chain where it is.
LEMMA ChainStays ==
    ASSUME CInv, [Next]_vars, ClosedIds' = ClosedIds, UNCHANGED history
    PROVE  UNCHANGED Chain!vars
<1>1. CASE ClosedIds = {}
  <2>1. Predecessor' = Predecessor /\ LastStatus' = LastStatus /\ LastLimit' = LastLimit
    BY <1>1 DEF Predecessor, LastStatus, LastLimit
  <2> QED
    BY <2>1 DEF Chain!vars, history
<1>2. CASE ClosedIds # {}
  <2> DEFINE last == Latest(ClosedIds)
  <2>1. last \in ClosedIds
    BY <1>2, TableFacts, LatestIsNewest DEF CInv, IInv
  <2>2. last' = last
    BY DEF Latest
  <2>3. cycles'[last] = cycles[last] /\ feed'[cycles'[last].closed] = feed[cycles[last].closed]
    BY <2>1, ClosedStays
  <2> HIDE DEF last
  <2>4. Predecessor' = Predecessor /\ LastStatus' = LastStatus /\ LastLimit' = LastLimit
    BY <1>2, <2>2, <2>3 DEF Predecessor, LastStatus, LastLimit, last
  <2> QED
    BY <2>4 DEF Chain!vars, history
<1> QED
  BY <1>1, <1>2

\* The closed cycles are an initial run of ids, which counts itself.
LEMMA CountUpTo ==
    ASSUME NEW n \in Nat
    PROVE  Cardinality(1..n) = n
BY FS_Interval

\* close_cycle stores what a close of the chain stores.
LEMMA ChainStores ==
    ASSUME CInv, NEW v, ClosesWith(v)
    PROVE  Chain!Store(Data(current).totals, v)
<1>1. /\ N \in Nat \ {0} /\ current = N /\ HasBatch(N) /\ N \in DOMAIN cycles
      /\ ClosedIds = 1..(N - 1) /\ ClosedIds' = 1..N
      /\ cycles'[N].closed = Batch(N) /\ cycles'[N].status = v.status
      /\ Predecessor' = [carry |-> v.carry, fee |-> v.fee]
      /\ Latest(ClosedIds') = N
  BY CloseFacts DEF CInv
<1>2. Cardinality(ClosedIds) = N - 1 /\ Cardinality(ClosedIds') = N
  <2>1. N \in Nat /\ N - 1 \in Nat
    BY <1>1
  <2>2. Cardinality(1..(N - 1)) = N - 1 /\ Cardinality(1..N) = N
    BY <2>1, CountUpTo
  <2> QED
    BY <1>1, <2>2
<1>3. N - 1 < BatchBound
  <2>1. /\ N - 1 <= cycles[N].opened /\ Batch(N) <= Len(feed) /\ Len(feed) <= BatchBound
    BY <1>1 DEF CInv, Spread, HasBatch
  <2>2. cycles[N].opened \in Nat /\ Batch(N) = cycles[N].opened + 1
    BY <1>1, DataType DEF CInv, IInv
  <2>3. Len(feed) \in Nat /\ BatchBound \in Nat
    BY CloseConstants DEF CInv, IInv, TypeOK
  <2> QED
    BY <1>1, <2>1, <2>2, <2>3
<1>4. Latest(ClosedIds)' = N /\ ClosedIds' # {}
  <2>1. N \in 1..N
    BY <1>1
  <2> QED
    BY <1>1, <2>1 DEF Latest
<1>5. LastStatus' = v.status
  BY <1>1, <1>4 DEF LastStatus
<1>6. LastLimit' = WithheldLimit(Data(current).totals)
  <2>1. feed'[cycles'[N].closed] = Data(N)
    BY <1>1 DEF Data, ClosesWith
  <2> QED
    BY <1>1, <1>4, <2>1 DEF LastLimit
<1> QED
  BY <1>1, <1>2, <1>3, <1>5, <1>6, SameRule DEF Chain!Store

\* The history moves as CarryChain's: the forgiven part is what the fee carry
\* and the fee balance differ by.
LEMMA ChainRemembers ==
    ASSUME CarryInv, NEW v, ClosesWith(v), Record(Data(current).totals, Predecessor'),
           v.status = "VERIFIED" /\ BaselineKnown(Predecessor)
               => v.fee = FeeOut(Data(current).totals, Predecessor)
    PROVE  Chain!Remember(Data(current).totals)
<1> DEFINE w == Data(current).totals
<1>1. /\ current = N /\ N \in DOMAIN cycles /\ HasBatch(N)
      /\ Predecessor' = [carry |-> v.carry, fee |-> v.fee]
  BY CloseFacts DEF CarryInv, CInv
<1>2. w \in CarryWindow /\ Predecessor \in Balance
  BY <1>1, DataType, PredecessorType DEF CarryInv, CInv, IInv
<1>3. LastStatus' = v.status
  BY ChainStores DEF CarryInv, Chain!Store
<1> HIDE DEF w
<1>4. /\ OperatorTake(w) \in Int /\ w.feePaid \in Int /\ Predecessor.fee \in Int
      /\ v.fee \in Int /\ feeBalance \in Int
      /\ FeeOut(w, Predecessor) = Predecessor.fee + OperatorTake(w) - w.feePaid
  BY <1>2, OwedTypes DEF CarryWindow, Balance, ClosesWith, Verdict, CarryInv, FeeOut
<1>5. feeBalance' = feeBalance + OperatorTake(w) - w.feePaid
  BY DEF Record, w
<1>6. (Predecessor.fee - feeBalance)' =
        IF v.status = "VERIFIED" /\ BaselineKnown(Predecessor)
        THEN Predecessor.fee - feeBalance
        ELSE Predecessor.fee - feeBalance + Predecessor'.fee - FeeOut(w, Predecessor)
  BY <1>1, <1>4, <1>5 DEF w
<1> QED
  BY <1>3, <1>6, SameRule DEF Chain!Remember, Record, w

\* Every step is a close of the chain or does not move it.
LEMMA StepChain == CarryInv /\ [CarryNext]_carryVars => [Chain!Next]_(Chain!vars)
<1> SUFFICES ASSUME CarryInv, [CarryNext]_carryVars
             PROVE  Chain!Next \/ UNCHANGED Chain!vars
  OBVIOUS
<1>1. [Next]_vars
  BY DEF CarryNext, carryVars
<1>2. CASE ClosedIds' = ClosedIds
  BY <1>1, <1>2, ChainStays DEF CarryNext, carryVars, CarryInv
<1>3. CASE ClosedIds' # ClosedIds
  <2> DEFINE d == Data(current)
             w == d.totals
             p == Predecessor
  <2>1. Next /\ Record(w, Predecessor')
    BY <1>3 DEF CarryNext, carryVars, vars, ClosedIds
  <2>2. PICK v : /\ ClosesWith(v)
                 /\ \/ Degenerate(w, p) /\ v = DegenerateClose(w, p)
                    \/ ~Degenerate(w, p) /\ v = SkippedClose(w, p)
                    \/ CloseJudged /\ v = JudgedClose(w, p, LinesOk(d))
    BY <1>3, <2>1, WhoCloses DEF CarryInv, CInv, ClosedIds
  <2>3. w \in {e.totals : e \in Pool} /\ w \in CarryWindow /\ LinesOk(d) \in BOOLEAN
    <3>1. current = N /\ N \in DOMAIN cycles /\ HasBatch(N)
      BY <2>2, CloseFacts DEF CarryInv, CInv
    <3>2. Batch(N) \in 1..Len(feed) /\ feed \in Seq(Pool)
      BY <3>1, DataType DEF CarryInv, CInv, IInv, TypeOK, HasBatch
    <3>3. d \in Pool
      BY <3>1, <3>2 DEF Data
    <3> QED
      BY <3>3, CloseConstants DEF WindowData, LinesOk
  <2>4. CloseJudged => ~Degenerate(w, p)
    BY DEF CarryInv, CInv, Judgeable, CloseJudged
  <2>5. v.status = "VERIFIED" /\ BaselineKnown(p) => v.fee = FeeOut(w, p)
    <3>1. p \in Balance
      BY PredecessorType DEF CarryInv, CInv, IInv
    <3> HIDE DEF d, w, p
    <3>2. CASE v = JudgedClose(w, p, LinesOk(d))
      <4>1. FeeOut(w, p) \in Int /\ Dust \in Nat
        BY <2>3, <3>1, CloseTypes, CarryConstants
      <4> QED
        BY <3>2 DEF JudgedClose, CarryFlagged
    <3>3. CASE v \in {DegenerateClose(w, p), SkippedClose(w, p)}
      BY <2>3, <3>1, <3>3, VerdictTypes
    <3> QED
      BY <2>2, <3>2, <3>3
  <2>6. Chain!Store(w, v) /\ Chain!Remember(w)
    BY <2>1, <2>2, <2>5, ChainStores, ChainRemembers DEF CarryInv
  <2>7. \/ Chain!CloseDegenerate(w)
        \/ Chain!CloseSkipped(w)
        \/ Chain!CloseJudged(w, LinesOk(d))
    BY <2>2, <2>4, <2>6, SameRule
    DEF Chain!CloseDegenerate, Chain!CloseSkipped, Chain!CloseJudged
  <2> QED
    BY <2>3, <2>7 DEF Chain!Next
<1> QED
  BY <1>2, <1>3

\* Every close, whatever faults surround its commits, is one step of the carry
\* chain, and nothing else moves it.
THEOREM ImplementsCarryChainHolds == CarrySpec => ImplementsCarryChain
<1>1. CarryInit => CarryInv
  BY InitCInv DEF CarryInv, CarryInit
<1> QED
  BY <1>1, InitChain, StepCarryInv, StepChain, PTL
  DEF CarrySpec, ImplementsCarryChain, Chain!Spec

-----------------------------------------------------------------------------
\* What is proved of the chain holds of the tables.

Proven == INSTANCE CarryChainProofs WITH
    Windows <- {d.totals : d \in Pool},
    MaxCycles <- BatchBound,
    prev <- Predecessor,
    status <- LastStatus,
    limit <- LastLimit,
    closed <- Cardinality(ClosedIds),
    forgiven <- Predecessor.fee - feeBalance

\* The chain's assumptions hold of the windows of this module.
LEMMA Assumed ==
    Proven!CarryConstants /\ Proven!WindowsAssumption /\ Proven!MaxCyclesAssumption
<1>1. \A d \in Pool : d.totals \in CarryWindow
  BY CloseConstants DEF WindowData
<1>2. Proven!CarryConstants
  BY CarryConstants DEF Proven!CarryConstants
<1> QED
  BY <1>1, <1>2, CloseConstants, FeePaidAssumption
  DEF Proven!WindowsAssumption, Proven!MaxCyclesAssumption, Proven!CarryWindow, CarryWindow

\* The instance that the proofs are about is the chain that is implemented.
LEMMA SameChain ==
    /\ Chain!Init <=> Proven!Init
    /\ [Chain!Next]_(Chain!vars) <=> [Proven!Next]_(Proven!vars)
BY DEF Chain!Init, Proven!Init, Chain!NoPredecessor, Proven!NoPredecessor,
       Chain!Next, Proven!Next, Chain!vars, Proven!vars,
       Chain!CloseDegenerate, Proven!CloseDegenerate,
       Chain!CloseSkipped, Proven!CloseSkipped,
       Chain!CloseJudged, Proven!CloseJudged,
       Chain!Store, Proven!Store, Chain!Remember, Proven!Remember,
       Chain!Degenerate, Chain!DegenerateClose, Chain!SkippedClose, Chain!JudgedClose,
       Chain!WithheldLimit, Chain!Owed, Chain!OperatorTake, Chain!FeeOut,
       Chain!BaselineKnown, Chain!CarryIn, Chain!CarryOut, Chain!FeeCut, Chain!DepositKept,
       Chain!CarryFlagged, Chain!Overpaid, Chain!Withheld, Chain!FeeOverdrawn,
       Proven!Degenerate, Proven!DegenerateClose, Proven!SkippedClose, Proven!JudgedClose,
       Proven!WithheldLimit, Proven!Owed, Proven!OperatorTake, Proven!FeeOut,
       Proven!BaselineKnown, Proven!CarryIn, Proven!CarryOut, Proven!FeeCut,
       Proven!DepositKept, Proven!CarryFlagged, Proven!Overpaid, Proven!Withheld,
       Proven!FeeOverdrawn

LEMMA ChainProven == CarrySpec => Proven!Spec
<1>1. Chain!Spec => Proven!Spec
  BY SameChain, PTL DEF Chain!Spec, Proven!Spec
<1> QED
  BY <1>1, ImplementsCarryChainHolds DEF ImplementsCarryChain

\* README "Check 1", of the tables as crashes and retries leave them: under a
\* VERIFIED newest row all that stakers were owed and not paid is within the
\* limit and all withdrawals are within all entitlements, and no row stores a
\* carry overdrawn by more than the dust.
THEOREM TablesHideNothing ==
    CarrySpec => [](/\ Chain!SkimCannotHide
                    /\ Chain!OperatorWithinEntitlement
                    /\ Chain!NeverOverdrawn)
<1>1. /\ Proven!Spec => []Proven!SkimCannotHide
      /\ Proven!Spec => []Proven!OperatorWithinEntitlement
      /\ Proven!Spec => []Proven!NeverOverdrawn
  BY Assumed, Proven!SkimCannotHideHolds, Proven!OperatorWithinEntitlementHolds,
     Proven!NeverOverdrawnHolds
<1>2. /\ Proven!SkimCannotHide => Chain!SkimCannotHide
      /\ Proven!OperatorWithinEntitlement => Chain!OperatorWithinEntitlement
      /\ Proven!NeverOverdrawn => Chain!NeverOverdrawn
  BY DEF Proven!SkimCannotHide, Chain!SkimCannotHide,
         Proven!OperatorWithinEntitlement, Chain!OperatorWithinEntitlement,
         Proven!NeverOverdrawn, Chain!NeverOverdrawn,
         Proven!BaselineKnown, Chain!BaselineKnown
<1> QED
  BY <1>1, <1>2, ChainProven, PTL

\* README "Check 1", of the tables: VERIFIED rows can be re-added, and a balance
\* above the limit stays flagged until it is paid down or the limit grows.
THEOREM TablesAddUp ==
    CarrySpec => Chain!VerifiedRowsAddUp /\ Chain!FlagPersists
<1>1. (Proven!Spec => Proven!VerifiedRowsAddUp) /\ (Proven!Spec => Proven!FlagPersists)
  BY Assumed, Proven!VerifiedRowsAddUpHolds, Proven!FlagPersistsHolds
<1>2. Proven!VerifiedRowsAddUp => Chain!VerifiedRowsAddUp
  BY DEF Proven!VerifiedRowsAddUp, Chain!VerifiedRowsAddUp, Proven!BaselineKnown,
         Chain!BaselineKnown, Proven!vars, Chain!vars
<1>3. Proven!FlagPersists => Chain!FlagPersists
  BY DEF Proven!FlagPersists, Chain!FlagPersists, Proven!BaselineKnown,
         Chain!BaselineKnown, Proven!vars, Chain!vars
<1> QED
  BY <1>1, <1>2, <1>3, ChainProven

-----------------------------------------------------------------------------
(***************************************************************************)
(* What a client reads fits together.  /shares never shows a closed cycle  *)
(* with the lines of another moment: the row is read first, and what is    *)
(* closed when it is read stays as it is (StepsKeepVerdicts).  A walk by   *)
(* `before` over a list that grows misses nothing: entries never leave a   *)
(* list, have places of their own and are taken from the top without a gap *)
(* (EntriesStay, EntriesFacts, PageFacts).                                 *)
(***************************************************************************)

\* A request is a record, so that EXCEPT changes the named fields only.
Shape ==
    \/ request = Idle
    \/ \E step, i, row, lines :
         request = [kind |-> "shares", step |-> step, id |-> i,
                    answer |-> [row |-> row, lines |-> lines]]
    \/ \E step, list, limit, before, seen, there :
         request = [kind |-> "walk", step |-> step, list |-> list, limit |-> limit,
                    before |-> before, seen |-> seen, there |-> there]

\* The closed row that was read is still the row of its cycle, and the lines,
\* once read, still show its results.
ShownStays ==
    (request.kind = "shares" /\ request.answer.row.status # "PENDING") =>
        /\ request.id \in ClosedIds
        /\ request.answer.row = cycles[request.id]
        /\ Answered => {<<r.staker, r.amount, r.ok>> : r \in request.answer.lines}
                          = Results(request.id)

AnswerInv == Shape /\ ShownStays

\* The scheduler goes on under an open request.
LEMMA SchedulerKeepsAnswer ==
    ASSUME IInv, AnswerInv, [Next]_vars, UNCHANGED request
    PROVE  AnswerInv'
<1>1. Shape'
  BY DEF AnswerInv, Shape
<1>2. ShownStays'
  <2> SUFFICES ASSUME request.kind = "shares", request.answer.row.status # "PENDING"
               PROVE  /\ request.id \in ClosedIds'
                      /\ request.answer.row = cycles'[request.id]
                      /\ Answered => {<<r.staker, r.amount, r.ok>> : r \in request.answer.lines}
                                        = Results(request.id)'
    BY DEF ShownStays, Answered, Results, RowsOf
  <2>1. request.id \in ClosedIds /\ request.answer.row = cycles[request.id]
    BY DEF AnswerInv, ShownStays
  <2>2. Final(request.id)
    BY <2>1, StepsKeepVerdicts
  <2> QED
    BY <2>1, <2>2 DEF Final, AnswerInv, ShownStays, ClosedIds
<1> QED
  BY <1>1, <1>2 DEF AnswerInv

\* The client asks and reads on: one lemma per kind of request.
LEMMA SharesKeepAnswer ==
    ASSUME IInv, AnswerInv, UNCHANGED vars,
           (\E i \in DOMAIN cycles : AskShares(i)) \/ ReadSecond
    PROVE  AnswerInv'
<1>1. UNCHANGED <<cycles, shares>>
  BY DEF vars
<1>2. \A i : UNCHANGED <<ClosedIds, Results(i)>>
  BY <1>1 DEF ClosedIds, Results, RowsOf
<1>3. ASSUME NEW i \in DOMAIN cycles, AskShares(i) PROVE AnswerInv'
  <2>1. request' = [kind |-> "shares", step |-> "second", id |-> i,
                    answer |-> [row |-> cycles[i], lines |-> {}]]
    BY <1>3 DEF AskShares, Statements, Answer
  <2>2. Shape'
    BY <2>1 DEF Shape
  <2>3. cycles[i].status # "PENDING" => i \in ClosedIds
    BY DEF ClosedIds
  <2> QED
    BY <1>1, <1>2, <2>1, <2>2, <2>3 DEF AnswerInv, ShownStays, Answered
<1>4. CASE ReadSecond
  <2>1. PICK step, i, row, lines :
            request = [kind |-> "shares", step |-> step, id |-> i,
                       answer |-> [row |-> row, lines |-> lines]]
    BY <1>4 DEF AnswerInv, Shape, ReadSecond, Idle
  <2>2. request' = [kind |-> "shares", step |-> "done", id |-> i,
                    answer |-> [row |-> row, lines |-> RowsOf(i)]]
    BY <1>4, <2>1 DEF ReadSecond, Statements, Answer
  <2>3. Shape'
    BY <2>2 DEF Shape
  <2>4. row.status # "PENDING" => i \in ClosedIds /\ row = cycles[i]
    BY <2>1 DEF AnswerInv, ShownStays
  <2> QED
    BY <1>1, <1>2, <2>2, <2>3, <2>4 DEF AnswerInv, ShownStays, Answered, Results
<1> QED
  BY <1>3, <1>4

LEMMA WalksKeepAnswer ==
    ASSUME AnswerInv,
           \/ \E list \in Lists, n \in 0..MaxLimit + 1 : FirstPage(list, n)
           \/ NextPage \/ HasMore
    PROVE  AnswerInv'
<1>1. ASSUME NEW walk, NEW before, Select(walk, before),
             \E step, list, limit, cursor, seen, there :
                walk = [kind |-> "walk", step |-> step, list |-> list, limit |-> limit,
                        before |-> cursor, seen |-> seen, there |-> there]
      PROVE  AnswerInv'
  <2>1. PICK step, list, limit, cursor, seen, there :
            walk = [kind |-> "walk", step |-> step, list |-> list, limit |-> limit,
                    before |-> cursor, seen |-> seen, there |-> there]
    BY <1>1
  <2> DEFINE rows == Page(list, limit, BeforeParam(before))
             at == IF rows = {} THEN before ELSE Oldest(rows)
             next == IF rows = {} THEN "done" ELSE "more"
  <2>2. request' = [kind |-> "walk", step |-> next, list |-> list, limit |-> limit,
                    before |-> at, seen |-> seen \cup rows, there |-> there]
    BY <1>1, <2>1 DEF Select
  <2> HIDE DEF rows, at, next
  <2> QED
    BY <2>2 DEF AnswerInv, Shape, ShownStays
<1>2. ASSUME NEW list \in Lists, NEW n \in 0..MaxLimit + 1, FirstPage(list, n)
      PROVE  AnswerInv'
  BY <1>1, <1>2 DEF FirstPage
<1>3. request.kind = "walk" =>
        \E step, list, limit, before, seen, there :
            request = [kind |-> "walk", step |-> step, list |-> list, limit |-> limit,
                       before |-> before, seen |-> seen, there |-> there]
  BY DEF AnswerInv, Shape, Idle
<1>4. CASE NextPage
  BY <1>1, <1>3, <1>4 DEF NextPage
<1>5. CASE HasMore
  <2>1. PICK step, list, limit, before, seen, there :
            request = [kind |-> "walk", step |-> step, list |-> list, limit |-> limit,
                       before |-> before, seen |-> seen, there |-> there]
    BY <1>3, <1>5 DEF HasMore
  <2> DEFINE next == IF \E e \in Entries(list) : e.at < before THEN "next" ELSE "done"
  <2>2. request' = [kind |-> "walk", step |-> next, list |-> list, limit |-> limit,
                    before |-> before, seen |-> seen, there |-> there]
    BY <1>5, <2>1 DEF HasMore
  <2> HIDE DEF next
  <2> QED
    BY <2>2 DEF AnswerInv, Shape, ShownStays
<1> QED
  BY <1>2, <1>4, <1>5

\* An answer of /shares that shows a closed cycle shows the lines of its
\* verdict, wherever the close, a retry or a fault fell between its two reads.
THEOREM ClosedAnswerIsFinalHolds == ApiSpec => []ClosedAnswerIsFinal
<1>1. ApiInit => IInv /\ AnswerInv
  BY InitIInv DEF ApiInit, Idle, AnswerInv, Shape, ShownStays
<1>2. IInv /\ AnswerInv /\ [ApiNext]_apiVars => IInv' /\ AnswerInv'
  <2> SUFFICES ASSUME IInv, AnswerInv, [ApiNext]_apiVars PROVE IInv' /\ AnswerInv'
    OBVIOUS
  <2>1. CASE [Next]_vars /\ UNCHANGED request
    BY <2>1, StepIInv, SchedulerKeepsAnswer
  <2>2. CASE Client /\ UNCHANGED vars
    <3>1. IInv'
      BY <2>2, StepIInv
    <3>2. AnswerInv'
      BY <2>2, SharesKeepAnswer, WalksKeepAnswer DEF Client
    <3> QED
      BY <3>1, <3>2
  <2> QED
    BY <2>1, <2>2 DEF ApiNext, apiVars
<1>3. IInv /\ AnswerInv => ClosedAnswerIsFinal
  BY DEF AnswerInv, ShownStays, ClosedAnswerIsFinal
<1> QED
  BY <1>1, <1>2, <1>3, PTL DEF ApiSpec

-----------------------------------------------------------------------------
\* Pages.

\* The entries of a list have places of their own, finitely many of them.
LEMMA EntriesFacts ==
    ASSUME IInv, NEW list
    PROVE  /\ \E b \in Nat : \A e \in Entries(list) : e.at \in 1..b
           /\ \A e, f \in Entries(list) : e.at = f.at => e = f
           /\ IsFiniteSet(Entries(list))
<1>1. /\ N \in Nat /\ DOMAIN cycles = 1..N /\ JudgedIds \subseteq ClosedIds /\ ClosedIds \subseteq 1..N
      /\ \A i \in 1..N : cycles[i].opened \in Nat
      /\ \A i \in 1..N : i \in ClosedIds => cycles[i].closed = cycles[i].opened + 1
  BY TableFacts DEF IInv, WindowsTile, ClosedIds, Cycle
<1>2. /\ \E b \in Nat : \A e \in Entries(list) : e.at \in 1..b
      /\ \A e, f \in Entries(list) : e.at = f.at => e = f
  <2>1. CASE list = "cycles"
    <3>1. \A e \in Entries(list) : e.at \in 1..N /\ e = [at |-> e.at, row |-> cycles[e.at]]
      BY <1>1, <2>1 DEF Entries
    <3> QED
      BY <1>1, <3>1
  <2>2. CASE list # "cycles"
    <3>1. ASSUME NEW e \in Entries(list)
          PROVE  \E c \in ledger : c.staker = list /\ e = [at |-> c.block, row |-> c]
      BY <2>2, <3>1 DEF Entries
    <3>2. ASSUME NEW c \in ledger
          PROVE  \E i \in JudgedIds : \E r \in RowsOf(i) :
                    cycles[i].closed = c.block /\ r.staker = c.staker /\ r.amount = c.amount
      BY <3>2 DEF IInv, LedgerBacked
    <3>3. ASSUME NEW c \in ledger, NEW d \in ledger, c.staker = d.staker, c.block = d.block
          PROVE  c = d
      <4>1. PICK i \in JudgedIds : \E r \in RowsOf(i) :
                cycles[i].closed = c.block /\ r.staker = c.staker /\ r.amount = c.amount
        BY <3>2
      <4>2. PICK j \in JudgedIds : \E q \in RowsOf(j) :
                cycles[j].closed = d.block /\ q.staker = d.staker /\ q.amount = d.amount
        BY <3>2
      <4>3. i = j
        BY <1>1, <3>3, <4>1, <4>2, ClosedBlocks
      <4>4. c.amount = d.amount
        BY <3>3, <4>1, <4>2, <4>3 DEF RowsOf, IInv, Keyed
      <4>5. c \in Credit /\ d \in Credit
        BY DEF IInv, TypeOK
      <4> QED
        BY <3>3, <4>4, <4>5 DEF Credit
    <3>4. PICK b \in Nat : \A i \in ClosedIds : cycles[i].closed \in 1..b
      <4>1. CASE N = 0
        BY <1>1, <4>1
      <4>2. CASE N # 0
        <5>1. N \in 1..N /\ cycles[N].opened + 1 \in Nat
          BY <1>1, <4>2
        <5>2. ASSUME NEW i \in ClosedIds PROVE cycles[i].closed \in 1..(cycles[N].opened + 1)
          <6>1. i = N \/ cycles[i].closed <= cycles[N].opened
            BY <1>1, <5>1 DEF IInv, Ordered
          <6> QED
            BY <1>1, <5>1, <6>1
        <5> QED
          BY <5>1, <5>2
      <4> QED
        BY <4>1, <4>2
    <3>5. \A e \in Entries(list) : e.at \in 1..b
      BY <1>1, <3>1, <3>2, <3>4
    <3>6. ASSUME NEW e \in Entries(list), NEW f \in Entries(list), e.at = f.at
          PROVE  e = f
      <4>1. PICK c \in ledger : c.staker = list /\ e = [at |-> c.block, row |-> c]
        BY <3>1
      <4>2. PICK d \in ledger : d.staker = list /\ f = [at |-> d.block, row |-> d]
        BY <3>1
      <4> QED
        BY <3>3, <3>6, <4>1, <4>2
    <3> QED
      BY <3>5, <3>6
  <2> QED
    BY <2>1, <2>2
<1>3. PICK b \in Nat : \A e \in Entries(list) : e.at \in 1..b
  BY <1>2
<1>4. IsFiniteSet(Entries(list))
  <2> DEFINE place == [e \in Entries(list) |-> e.at]
  <2>1. place \in [Entries(list) -> 1..b] /\ \A e, f \in Entries(list) : place[e] = place[f] => e = f
    BY <1>2, <1>3
  <2>2. place \in Injection(Entries(list), 1..b)
    BY <2>1 DEF Injection, IsInjective
  <2>3. IsFiniteSet(1..b)
    BY <1>3, FS_Interval
  <2> QED
    BY <2>2, <2>3, FS_Injection
<1> QED
  BY <1>2, <1>4

\* A page holds the newest entries before the cursor, without a gap, and it is
\* empty only when there is none.
LEMMA PageFacts ==
    ASSUME IInv, NEW list, NEW limit \in Nat \ {0}, NEW before, before # NULL => before \in Nat
    PROVE  /\ Page(list, limit, before) \subseteq Entries(list)
           /\ \A e \in Page(list, limit, before) :
                e.at \in Nat /\ (before # NULL => e.at < before)
           /\ Page(list, limit, before) = {} =>
                \A e \in Entries(list) : before # NULL /\ e.at >= before
           /\ Page(list, limit, before) # {} =>
                /\ Oldest(Page(list, limit, before)) \in Nat
                /\ before # NULL => Oldest(Page(list, limit, before)) < before
                /\ \A e \in Page(list, limit, before) : Oldest(Page(list, limit, before)) <= e.at
                /\ \A e \in Entries(list) :
                    /\ before # NULL => e.at < before
                    /\ Oldest(Page(list, limit, before)) <= e.at
                    => e \in Page(list, limit, before)
<1> DEFINE older == {e \in Entries(list) : before # NULL => e.at < before}
           newer(e) == {f \in older : f.at > e.at}
           rows == {e \in older : Cardinality(newer(e)) < limit}
<1>1. Page(list, limit, before) = rows
  BY DEF Page, NoCursor
<1>2. PICK b \in Nat : \A e \in Entries(list) : e.at \in 1..b
  BY EntriesFacts
<1>3. IsFiniteSet(older)
  <2>1. older \in SUBSET Entries(list)
    OBVIOUS
  <2> HIDE DEF older
  <2> QED
    BY <2>1, EntriesFacts, FS_Subset
<1>4. ASSUME NEW e \in older, NEW g \in rows, g.at <= e.at PROVE e \in rows
  <2>1. e.at \in Nat /\ g.at \in Nat /\ \A f \in older : f.at \in Nat
    BY <1>2
  <2>2. newer(g) \in SUBSET older /\ newer(e) \in SUBSET newer(g)
    BY <1>4, <2>1
  <2> HIDE DEF newer, older
  <2>3. IsFiniteSet(newer(g)) /\ IsFiniteSet(newer(e))
    BY <1>3, <2>2, FS_Subset
  <2>4. Cardinality(newer(e)) <= Cardinality(newer(g))
    BY <2>2, <2>3, FS_Subset
  <2>5. Cardinality(newer(e)) \in Nat /\ Cardinality(newer(g)) \in Nat
    BY <2>3, FS_CardinalityType
  <2>6. Cardinality(newer(g)) < limit
    OBVIOUS
  <2> QED
    BY <2>4, <2>5, <2>6
<1>5. older # {} => rows # {}
  <2> SUFFICES ASSUME older # {} PROVE rows # {}
    OBVIOUS
  <2> DEFINE places == {n \in 1..b : \E e \in older : e.at = n}
  <2>1. places \in SUBSET (1..b) /\ places # {}
    BY <1>2
  <2> HIDE DEF places
  <2>2. Latest(places) \in places /\ \A n \in places : n <= Latest(places)
    BY <1>2, <2>1, LatestIsNewest
  <2>3. PICK e \in older : e.at = Latest(places)
    BY <2>2 DEF places
  <2>4. newer(e) = {}
    <3>1. ASSUME NEW f \in older PROVE ~(f.at > e.at)
      <4>1. f.at \in places
        BY <1>2 DEF places
      <4>2. f.at \in Nat /\ e.at \in Nat
        BY <1>2
      <4> QED
        BY <2>2, <2>3, <4>1, <4>2
    <3> QED
      BY <3>1
  <2>5. Cardinality(newer(e)) < limit
    <3> HIDE DEF newer
    <3> QED
      BY <2>4, FS_EmptySet
  <2>6. e \in rows
    <3> HIDE DEF newer
    <3> QED
      BY <2>3, <2>5
  <2> QED
    BY <2>6
<1>6. rows = {} => \A e \in Entries(list) : before # NULL /\ e.at >= before
  <2>1. ASSUME rows = {}, NEW e \in Entries(list)
        PROVE  before # NULL /\ e.at >= before
    <3>1. older = {}
      BY <1>5, <2>1
    <3>2. before # NULL /\ ~(e.at < before)
      BY <3>1
    <3>3. e.at \in Nat
      BY <1>2
    <3> QED
      BY <3>2, <3>3
  <2> HIDE DEF rows
  <2> QED
    BY <2>1
<1>7. ASSUME rows # {}
      PROVE  /\ Oldest(rows) \in Places(rows)
             /\ \A n \in Places(rows) : Oldest(rows) <= n
  <2> DEFINE back == {g \in 1..b : \E e \in rows : e.at = b + 1 - g}
  <2>1. \A e \in rows : e.at \in 1..b /\ b + 1 - e.at \in 1..b /\ e.at = b + 1 - (b + 1 - e.at)
    BY <1>2
  <2>2. back \in SUBSET (1..b) /\ back # {}
    BY <1>7, <2>1
  <2> HIDE DEF back
  <2>3. Latest(back) \in back /\ \A g \in back : g <= Latest(back)
    BY <1>2, <2>2, LatestIsNewest
  <2>4. Latest(back) \in 1..b
    BY <2>2, <2>3
  <2>5. b + 1 - Latest(back) \in Places(rows)
    <3>1. PICK e \in rows : e.at = b + 1 - Latest(back)
      BY <2>3 DEF back
    <3> QED
      BY <3>1 DEF Places
  <2>6. ASSUME NEW n \in Places(rows) PROVE b + 1 - Latest(back) <= n
    <3>1. PICK e \in rows : n = e.at
      BY DEF Places
    <3>2. b + 1 - n \in back /\ n \in 1..b
      BY <2>1, <3>1 DEF back
    <3>3. b + 1 - n <= Latest(back)
      BY <2>3, <3>2
    <3> HIDE DEF rows, older, newer
    <3>4. b \in Nat
      BY <1>2
    <3>5. \A x \in 1..b : x \in Int
      BY <3>4
    <3>6. n \in Int /\ Latest(back) \in Int
      BY <2>4, <3>2, <3>5
    <3> QED
      BY <3>3, <3>4, <3>6
  <2> QED
    BY <2>5, <2>6 DEF Oldest
<1>8. ASSUME rows # {}
      PROVE  /\ Oldest(rows) \in Nat
             /\ before # NULL => Oldest(rows) < before
             /\ \A e \in rows : Oldest(rows) <= e.at
             /\ \A e \in Entries(list) :
                    /\ before # NULL => e.at < before
                    /\ Oldest(rows) <= e.at
                    => e \in rows
  <2>1. PICK g \in rows : g.at = Oldest(rows)
    BY <1>7, <1>8 DEF Places
  <2>2. \A e \in rows : Oldest(rows) <= e.at
    BY <1>7, <1>8 DEF Places
  <2>3. g.at \in Nat /\ (before # NULL => g.at < before)
    BY <1>2
  <2>4. ASSUME NEW e \in Entries(list), before # NULL => e.at < before, Oldest(rows) <= e.at
        PROVE  e \in rows
    <3>1. e \in older /\ g.at <= e.at
      BY <2>1, <2>4
    <3> QED
      BY <1>4, <3>1
  <2> HIDE DEF rows
  <2> QED
    BY <2>1, <2>2, <2>3, <2>4
<1>9. rows \subseteq Entries(list) /\ \A e \in rows : e.at \in Nat /\ (before # NULL => e.at < before)
  <2>1. rows \subseteq older /\ older \subseteq Entries(list)
    <3> HIDE DEF newer
    <3> QED
      OBVIOUS
  <2>2. \A e \in older : before # NULL => e.at < before
    OBVIOUS
  <2>3. \A e \in Entries(list) : e.at \in Nat
    BY <1>2
  <2> HIDE DEF rows, older
  <2> QED
    BY <2>1, <2>2, <2>3
<1> HIDE DEF rows
<1> QED
  BY <1>1, <1>6, <1>8, <1>9

\* Entries never leave a list: a closed cycle keeps its row and an open one its
\* place, and credits stay.
LEMMA EntriesStay ==
    ASSUME IInv, [Next]_vars, NEW list
    PROVE  /\ Places(Entries(list)) \subseteq Places(Entries(list)')
           /\ list # "cycles" => Entries(list) \subseteq Entries(list)'
<1>1. CASE list = "cycles"
  <2>1. ASSUME NEW i \in DOMAIN cycles PROVE i \in Places(Entries(list)')
    <3>1. i \in DOMAIN cycles'
      BY OpenersStay
    <3>2. [at |-> i, row |-> cycles'[i]] \in Entries(list)'
      BY <1>1, <3>1 DEF Entries
    <3> QED
      BY <3>2 DEF Places
  <2>2. Places(Entries(list)) \subseteq DOMAIN cycles
    BY <1>1 DEF Places, Entries
  <2> QED
    BY <1>1, <2>1, <2>2
<1>2. CASE list # "cycles"
  <2>1. ledger \subseteq ledger'
    BY StepsKeepCredits
  <2>2. Entries(list) \subseteq Entries(list)'
    BY <1>2, <2>1 DEF Entries
  <2> QED
    BY <1>2, <2>2 DEF Places
<1> QED
  BY <1>1, <1>2

\* What one page of the cycles list showed is still true of each cycle: where it
\* opens, its row once it is closed, and that nothing above a PENDING one was
\* seen.
CyclesAsSeen(seen) ==
    \A e \in seen :
        /\ e.at \in DOMAIN cycles /\ e.row.opened = cycles[e.at].opened
        /\ e.row.status # "PENDING" => e.row = cycles[e.at]
        /\ e.row.status = "PENDING" => \A f \in seen : f.at <= e.at

\* A walk down to `before` has seen all that was there from `before` on.
Walked(list, before, seen, there) ==
    /\ there \subseteq Places(Entries(list))
    /\ before = NULL => seen = {}
    /\ before # NULL => /\ before \in Nat
                        /\ \A e \in seen : e.at \in Nat /\ before <= e.at
                        /\ \A n \in there : before <= n => n \in Places(seen)
    /\ list # "cycles" => seen \subseteq Entries(list)
    /\ list = "cycles" => CyclesAsSeen(seen)

Walk(step, list, limit, before, seen, there) ==
    /\ limit \in Nat \ {0}
    /\ step # "done" => before # NULL
    /\ step = "done" => there \subseteq Places(seen)
    /\ Walked(list, before, seen, there)

WalkInv ==
    \A step, list, limit, before, seen, there :
        request = [kind |-> "walk", step |-> step, list |-> list, limit |-> limit,
                   before |-> before, seen |-> seen, there |-> there]
        => Walk(step, list, limit, before, seen, there)

\* The scheduler goes on under an open walk.
LEMMA SchedulerKeepsWalk ==
    ASSUME IInv, [Next]_vars, NEW list, NEW before, NEW seen, NEW there,
           Walked(list, before, seen, there)
    PROVE  Walked(list, before, seen, there)'
<1>1. /\ Places(Entries(list)) \subseteq Places(Entries(list)')
      /\ list # "cycles" => Entries(list) \subseteq Entries(list)'
  BY EntriesStay
<1>2. CyclesAsSeen(seen) => CyclesAsSeen(seen)'
  <2> SUFFICES ASSUME CyclesAsSeen(seen), NEW e \in seen
               PROVE  /\ e.at \in DOMAIN cycles' /\ e.row.opened = cycles'[e.at].opened
                      /\ e.row.status # "PENDING" => e.row = cycles'[e.at]
                      /\ e.row.status = "PENDING" => \A f \in seen : f.at <= e.at
    BY DEF CyclesAsSeen
  <2>1. /\ e.at \in DOMAIN cycles /\ e.row.opened = cycles[e.at].opened
        /\ e.row.status # "PENDING" => e.row = cycles[e.at]
        /\ e.row.status = "PENDING" => \A f \in seen : f.at <= e.at
    BY DEF CyclesAsSeen
  <2>2. e.at \in DOMAIN cycles' /\ cycles'[e.at].opened = cycles[e.at].opened
    BY <2>1, OpenersStay
  <2>3. e.row.status # "PENDING" => e.row = cycles'[e.at]
    <3>1. e.row.status # "PENDING" => e.at \in ClosedIds
      BY <2>1 DEF ClosedIds
    <3> QED
      BY <2>1, <3>1, StepsKeepVerdicts DEF Final
  <2> QED
    BY <2>1, <2>2, <2>3
<1>3. Places(Entries(list))' = Places(Entries(list)')
  BY DEF Places
<1> QED
  BY <1>1, <1>2, <1>3 DEF Walked

\* One page more.
LEMMA PageKeepsWalk ==
    ASSUME IInv, NEW list, NEW limit \in Nat \ {0}, NEW before, NEW seen, NEW there,
           Walked(list, before, seen, there),
           NEW rows, rows = Page(list, limit, before)
    PROVE  /\ rows = {} => there \subseteq Places(seen)
           /\ rows # {} => Oldest(rows) # NULL
           /\ Walked(list, IF rows = {} THEN before ELSE Oldest(rows), seen \cup rows, there)
<1>1. before # NULL => before \in Nat
  BY DEF Walked
<1>2. /\ rows \subseteq Entries(list)
      /\ \A e \in rows : e.at \in Nat /\ (before # NULL => e.at < before)
      /\ rows = {} => \A e \in Entries(list) : before # NULL /\ e.at >= before
      /\ rows # {} =>
            /\ Oldest(rows) \in Nat
            /\ before # NULL => Oldest(rows) < before
            /\ \A e \in rows : Oldest(rows) <= e.at
            /\ \A e \in Entries(list) :
                    /\ before # NULL => e.at < before
                    /\ Oldest(rows) <= e.at
                    => e \in rows
  BY <1>1, PageFacts
<1>3. Oldest(rows) \in Nat => Oldest(rows) # NULL
  BY CarryConstants
<1>4. \A n \in there : \E e \in Entries(list) : n = e.at
  BY DEF Walked, Places
<1>5. \A e \in Entries(list) : e.at \in Nat
  <2>1. PICK b \in Nat : \A e \in Entries(list) : e.at \in 1..b
    BY EntriesFacts
  <2> QED
    BY <2>1
<1>6. CASE rows = {}
  <2>1. ASSUME NEW n \in there PROVE n \in Places(seen)
    <3>1. PICK e \in Entries(list) : n = e.at
      BY <1>4
    <3>2. before # NULL /\ before <= n
      BY <1>1, <1>2, <1>5, <1>6, <3>1
    <3> QED
      BY <3>2 DEF Walked
  <2>2. seen \cup rows = seen
    BY <1>6
  <2> QED
    BY <1>6, <2>1, <2>2
<1>7. CASE rows # {}
  <2> DEFINE low == Oldest(rows)
  <2>1. low \in Nat /\ low # NULL
    BY <1>2, <1>3, <1>7
  <2>2. \A e \in seen \cup rows : e.at \in Nat /\ low <= e.at
    <3>1. ASSUME NEW e \in seen PROVE e.at \in Nat /\ low <= e.at
      <4>1. before # NULL /\ e.at \in Nat /\ before <= e.at
        BY DEF Walked
      <4> HIDE DEF low
      <4>2. low < before
        BY <1>2, <1>7, <4>1 DEF low
      <4> QED
        BY <1>1, <2>1, <4>1, <4>2
    <3> QED
      BY <1>2, <1>7, <3>1
  <2>3. ASSUME NEW n \in there, low <= n PROVE n \in Places(seen \cup rows)
    <3>1. PICK e \in Entries(list) : n = e.at
      BY <1>4
    <3>2. CASE before # NULL /\ before <= n
      <4>1. n \in Places(seen)
        BY <3>2 DEF Walked
      <4> QED
        BY <4>1 DEF Places
    <3>3. CASE ~(before # NULL /\ before <= n)
      <4>1. before # NULL => e.at < before
        BY <1>1, <1>5, <3>1, <3>3
      <4>2. e \in rows
        BY <1>2, <1>7, <2>3, <3>1, <4>1
      <4> QED
        BY <3>1, <4>2 DEF Places
    <3> QED
      BY <3>2, <3>3
  <2>4. list # "cycles" => seen \cup rows \subseteq Entries(list)
    BY <1>2 DEF Walked
  <2>5. list = "cycles" => CyclesAsSeen(seen \cup rows)
    <3> SUFFICES ASSUME list = "cycles", NEW e \in seen \cup rows
                 PROVE  /\ e.at \in DOMAIN cycles /\ e.row.opened = cycles[e.at].opened
                        /\ e.row.status # "PENDING" => e.row = cycles[e.at]
                        /\ e.row.status = "PENDING" => \A f \in seen \cup rows : f.at <= e.at
      BY DEF CyclesAsSeen
    <3>1. CyclesAsSeen(seen)
      BY DEF Walked
    <3>2. \A f \in rows : f.at \in DOMAIN cycles /\ f.row = cycles[f.at]
      BY <1>2 DEF Entries
    <3>3. \A f \in seen \cup rows : f.at \in DOMAIN cycles
      BY <3>1, <3>2 DEF CyclesAsSeen
    <3>4. CASE e \in rows
      <4>1. e.row.status = "PENDING" => e.at = N
        BY <3>2, <3>4 DEF IInv, WindowsTile, N
      <4>2. \A f \in seen \cup rows : f.at <= N
        BY <3>3, TableFacts DEF IInv
      <4> QED
        BY <3>2, <3>4, <4>1, <4>2
    <3>5. CASE e \in seen
      <4>1. before # NULL /\ before <= e.at /\ e.at \in Nat
        BY <3>5 DEF Walked
      <4>2. \A f \in rows : f.at <= e.at
        BY <1>1, <1>2, <4>1
      <4> QED
        BY <3>1, <3>5, <4>2 DEF CyclesAsSeen
    <3> QED
      BY <3>4, <3>5
  <2>6. Walked(list, low, seen \cup rows, there)
    <3> HIDE DEF low
    <3> QED
      BY <2>1, <2>2, <2>3, <2>4, <2>5 DEF Walked
  <2> QED
    BY <1>7, <2>1, <2>6
<1> QED
  BY <1>6, <1>7

\* The client reads on.
LEMMA ClientKeepsWalk ==
    ASSUME IInv, Shape, WalkInv, Client, UNCHANGED vars
    PROVE  WalkInv'
<1>1. \A list : UNCHANGED Entries(list)
  BY DEF vars, Entries
<1>2. ASSUME NEW list, NEW before, NEW seen, NEW there, Walked(list, before, seen, there)
      PROVE  Walked(list, before, seen, there)'
  <2>1. UNCHANGED cycles /\ Entries(list)' = Entries(list)
    BY <1>1 DEF vars
  <2> QED
    BY <1>2, <2>1 DEF Walked, CyclesAsSeen, Places
<1>3. ASSUME NEW step, NEW list, NEW limit, NEW before, NEW seen, NEW there,
             Walk(step, list, limit, before, seen, there),
             request' = [kind |-> "walk", step |-> step, list |-> list, limit |-> limit,
                         before |-> before, seen |-> seen, there |-> there]
      PROVE  WalkInv'
  <2>1. Walk(step, list, limit, before, seen, there)'
    BY <1>2, <1>3 DEF Walk, Places
  <2> QED
    BY <1>3, <2>1 DEF WalkInv
<1>4. ASSUME NEW step, NEW list, NEW limit \in Nat \ {0}, NEW before, NEW seen, NEW there,
             Walked(list, before, seen, there),
             Select([kind |-> "walk", step |-> step, list |-> list, limit |-> limit,
                     before |-> before, seen |-> seen, there |-> there], before)
      PROVE  WalkInv'
  <2> DEFINE rows == Page(list, limit, before)
             low == IF rows = {} THEN before ELSE Oldest(rows)
             next == IF rows = {} THEN "done" ELSE "more"
  <2>1. request' = [kind |-> "walk", step |-> next, list |-> list, limit |-> limit,
                    before |-> low, seen |-> seen \cup rows, there |-> there]
    BY <1>4 DEF Select, BeforeParam
  <2>2. /\ rows = {} => there \subseteq Places(seen)
        /\ rows # {} => Oldest(rows) # NULL
        /\ Walked(list, low, seen \cup rows, there)
    BY <1>4, PageKeepsWalk
  <2>3. rows = {} => seen \cup rows = seen
    OBVIOUS
  <2>4. Walk(next, list, limit, low, seen \cup rows, there)
    <3> HIDE DEF rows
    <3> QED
      BY <2>2, <2>3 DEF Walk
  <2> HIDE DEF rows, low, next
  <2> QED
    BY <1>3, <2>1, <2>4
<1>5. ASSUME NEW list \in Lists, NEW n \in 0..MaxLimit + 1, FirstPage(list, n)
      PROVE  WalkInv'
  <2>1. IntParam(n) \in Nat \ {0}
    BY ApiConstants DEF IntParam
  <2>2. Walked(list, NULL, {}, Places(Entries(list)))
    BY DEF Walked, CyclesAsSeen
  <2> QED
    BY <1>4, <1>5, <2>1, <2>2 DEF FirstPage, NoCursor
<1>6. ASSUME request.kind = "walk"
      PROVE  \E step, list, limit, before, seen, there :
                /\ request = [kind |-> "walk", step |-> step, list |-> list, limit |-> limit,
                              before |-> before, seen |-> seen, there |-> there]
                /\ Walk(step, list, limit, before, seen, there)
  BY <1>6 DEF Shape, WalkInv, Idle
<1>7. CASE NextPage
  <2>1. PICK step, list, limit, before, seen, there :
                /\ request = [kind |-> "walk", step |-> step, list |-> list, limit |-> limit,
                              before |-> before, seen |-> seen, there |-> there]
                /\ Walk(step, list, limit, before, seen, there)
    BY <1>6, <1>7 DEF NextPage
  <2>2. limit \in Nat \ {0} /\ Walked(list, before, seen, there)
    BY <2>1 DEF Walk
  <2>3. Select(request, before)
    BY <1>7, <2>1 DEF NextPage
  <2> QED
    BY <1>4, <2>1, <2>2, <2>3
<1>8. CASE HasMore
  <2>1. PICK step, list, limit, before, seen, there :
                /\ request = [kind |-> "walk", step |-> step, list |-> list, limit |-> limit,
                              before |-> before, seen |-> seen, there |-> there]
                /\ Walk(step, list, limit, before, seen, there)
    BY <1>6, <1>8 DEF HasMore
  <2> DEFINE older == \E e \in Entries(list) : e.at < before
             next == IF older THEN "next" ELSE "done"
  <2>2. request' = [kind |-> "walk", step |-> next, list |-> list, limit |-> limit,
                    before |-> before, seen |-> seen, there |-> there]
    BY <1>8, <2>1 DEF HasMore
  <2>3. step = "more"
    BY <1>8, <2>1 DEF HasMore
  <2>4. before # NULL /\ before \in Nat
    BY <2>1, <2>3 DEF Walk, Walked
  <2>5. ~older => there \subseteq Places(seen)
    <3> SUFFICES ASSUME ~older, NEW n \in there PROVE n \in Places(seen)
      OBVIOUS
    <3>1. PICK e \in Entries(list) : n = e.at
      BY <2>1 DEF Walk, Walked, Places
    <3>2. e.at \in Nat
      <4>1. PICK b \in Nat : \A f \in Entries(list) : f.at \in 1..b
        BY EntriesFacts
      <4> QED
        BY <4>1
    <3>3. before <= n
      BY <2>4, <3>1, <3>2
    <3> QED
      BY <2>1, <2>4, <3>3 DEF Walk, Walked
  <2>6. Walk(next, list, limit, before, seen, there)
    <3> HIDE DEF older
    <3> QED
      BY <2>1, <2>4, <2>5 DEF Walk
  <2> HIDE DEF older, next
  <2> QED
    BY <1>3, <2>2, <2>6
<1>9. CASE ReadSecond \/ \E i \in DOMAIN cycles : AskShares(i)
  <2>1. CASE ReadSecond
    <3>1. PICK step, i, row, lines :
              request = [kind |-> "shares", step |-> step, id |-> i,
                         answer |-> [row |-> row, lines |-> lines]]
      BY <2>1 DEF ReadSecond, Shape, Idle
    <3>2. request'.kind = "shares"
      BY <2>1, <3>1 DEF ReadSecond
    <3> QED
      BY <3>2 DEF WalkInv
  <2>2. ASSUME NEW i \in DOMAIN cycles, AskShares(i) PROVE WalkInv'
    <3>1. request'.kind = "shares"
      BY <2>2 DEF AskShares
    <3> QED
      BY <3>1 DEF WalkInv
  <2> QED
    BY <1>9, <2>1, <2>2
<1> QED
  BY <1>5, <1>7, <1>8, <1>9 DEF Client

\* Walking a list page by page while cycles close: nothing that was there at the
\* start is missed, every credit seen is on the ledger, and the cycles seen, read
\* at different moments, still tile the history.
THEOREM WalkTellsOneHistoryHolds == ApiSpec => []WalkTellsOneHistory
<1>1. ApiInit => IInv /\ AnswerInv /\ WalkInv
  BY InitIInv DEF ApiInit, Idle, AnswerInv, Shape, ShownStays, WalkInv
<1>2. IInv /\ AnswerInv /\ WalkInv /\ [ApiNext]_apiVars => IInv' /\ AnswerInv' /\ WalkInv'
  <2> SUFFICES ASSUME IInv, AnswerInv, WalkInv, [ApiNext]_apiVars
               PROVE  IInv' /\ AnswerInv' /\ WalkInv'
    OBVIOUS
  <2>1. CASE [Next]_vars /\ UNCHANGED request
    <3>1. IInv' /\ AnswerInv'
      BY <2>1, StepIInv, SchedulerKeepsAnswer
    <3>2. ASSUME NEW step, NEW list, NEW limit, NEW before, NEW seen, NEW there,
                 Walk(step, list, limit, before, seen, there)
          PROVE  Walk(step, list, limit, before, seen, there)'
      <4>1. Walked(list, before, seen, there)'
        BY <2>1, <3>2, SchedulerKeepsWalk DEF Walk
      <4> QED
        BY <3>2, <4>1 DEF Walk, Places
    <3>3. WalkInv'
      BY <2>1, <3>2 DEF WalkInv
    <3> QED
      BY <3>1, <3>3
  <2>2. CASE Client /\ UNCHANGED vars
    <3>1. IInv'
      BY <2>2, StepIInv
    <3>2. AnswerInv'
      BY <2>2, SharesKeepAnswer, WalksKeepAnswer DEF Client
    <3>3. WalkInv'
      BY <2>2, ClientKeepsWalk DEF AnswerInv
    <3> QED
      BY <3>1, <3>2, <3>3
  <2> QED
    BY <2>1, <2>2 DEF ApiNext, apiVars
<1>3. IInv /\ AnswerInv /\ WalkInv => WalkTellsOneHistory
  <2> SUFFICES ASSUME IInv, AnswerInv, WalkInv, request.kind = "walk"
               PROVE  /\ Answered => request.there \subseteq Places(request.seen)
                      /\ request.list # "cycles" => request.seen \subseteq Entries(request.list)
                      /\ request.list = "cycles" => \A e, f \in request.seen :
                            f.at = e.at + 1 => /\ e.row.status # "PENDING"
                                               /\ e.row.closed = f.row.opened
    BY DEF WalkTellsOneHistory
  <2>1. PICK step, list, limit, before, seen, there :
                /\ request = [kind |-> "walk", step |-> step, list |-> list, limit |-> limit,
                              before |-> before, seen |-> seen, there |-> there]
                /\ Walk(step, list, limit, before, seen, there)
    BY DEF AnswerInv, Shape, WalkInv, Idle
  <2>2. ASSUME list = "cycles", NEW e \in seen, NEW f \in seen, f.at = e.at + 1
        PROVE  e.row.status # "PENDING" /\ e.row.closed = f.row.opened
    <3>1. /\ e.at \in DOMAIN cycles /\ f.at \in DOMAIN cycles
          /\ f.row.opened = cycles[f.at].opened
          /\ e.row.status # "PENDING" => e.row = cycles[e.at]
          /\ e.row.status = "PENDING" => f.at <= e.at
      BY <2>1, <2>2 DEF Walk, Walked, CyclesAsSeen
    <3>2. e.at \in 1..N /\ f.at \in 1..N /\ e.at # N /\ N \in Nat
      BY <2>2, <3>1, TableFacts DEF IInv
    <3>3. e.row.status # "PENDING"
      BY <2>2, <3>1, <3>2
    <3>4. cycles[e.at + 1].opened = cycles[e.at].closed
      BY <3>1, <3>2 DEF IInv, WindowsTile, N
    <3> QED
      BY <2>2, <3>1, <3>3, <3>4
  <2> QED
    BY <2>1, <2>2 DEF Walk, Walked, Answered
<1> QED
  BY <1>1, <1>2, <1>3, PTL DEF ApiSpec
=============================================================================

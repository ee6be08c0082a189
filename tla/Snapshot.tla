------------------------------ MODULE Snapshot ------------------------------
(***************************************************************************)
(* How staker balances reach the tables (tracker/jobs.py: run_snapshot,    *)
(* _maybe_retention; tracker/db.py: the staker_snapshots statements).      *)
(* A poll asks for the validator record, then for the staker list, writes  *)
(* one row per listed staker, a zero row (tombstone) per staker that has   *)
(* departed, and the validator's own row; once a while old rows are        *)
(* thinned.  One step is one answer or one committed statement.            *)
(* A balance is abstracted to whether it is above zero.                    *)
(***************************************************************************)
EXTENDS Integers, FiniteSets

CONSTANTS
    NULL,           \* no row yet
    Addrs,          \* addresses that may stake
    Retention,      \* SNAPSHOT_RETENTION_DAYS in polls, 0 when off
    ThinEvery,      \* polls between two thinnings, a day in the code
    Hour,           \* polls per retention bucket, an hour in the code
    RecordMisses,   \* the answer may lack the validator's record
    PoolMoves,      \* stakers come and go between the two requests
    MaxPolls,       \* bound on the number of polls
    MaxChanges,     \* bound on stakers joining, leaving and deactivating
    MaxFaults       \* bound on failed and truncated answers and crashes

ASSUME SnapshotConstants ==
    /\ Retention \in Nat /\ ThinEvery \in Nat \ {0} /\ Hour \in Nat \ {0}
    /\ RecordMisses \in BOOLEAN /\ PoolMoves \in BOOLEAN
    /\ MaxPolls \in Nat /\ MaxChanges \in Nat /\ MaxFaults \in Nat
    /\ NULL \notin Int /\ IsFiniteSet(Addrs)

VARIABLES
    pool,       \* what each address has at the staking contract
    rows,       \* staker_snapshots
    record,     \* the latest validator_snapshots row
    thinned,    \* meta retention_last_ms
    now,        \* time of the running or the last poll
    pc,         \* "idle" or the phase of the running poll
    count,      \* staker count of the validator record, 0 when unknown
    found,      \* the validator record was in the answer
    listed,     \* addresses on the answered staker list
    todo,       \* addresses still to be written in this phase
    changes, faults

job == <<pc, count, found, listed, todo>>
vars == <<pool, rows, record, thinned, now, job, changes, faults>>

Row == [addr: Addrs, at: Nat, staked: BOOLEAN]

Present == {a \in Addrs : pool[a] # "out"}

RowsFor(a) == {r \in rows : r.addr = a}
\* latest_staker_rows shows the address with a balance above zero.
ShownStaked(a) ==
    \E r \in RowsFor(a) : r.staked /\ \A q \in RowsFor(a) : q.at <= r.at

Init ==
    /\ pool \in [Addrs -> {"out", "staked"}]
    /\ rows = {} /\ record = NULL /\ thinned = NULL /\ now = 0
    /\ pc = "idle" /\ count = 0 /\ found = FALSE /\ listed = {} /\ todo = {}
    /\ changes = 0 /\ faults = 0

-----------------------------------------------------------------------------
\* The pool changes between polls, and between the two requests of one; what
\* happens after the list is answered shows in the next poll only.
Change(a, to) ==
    /\ \/ pc = "idle"
       \/ PoolMoves /\ pc = "list"
    /\ changes < MaxChanges /\ changes' = changes + 1
    /\ to # pool[a] /\ (to = "inactive" => pool[a] = "staked")
    /\ pool' = [pool EXCEPT ![a] = to]
    /\ UNCHANGED <<rows, record, thinned, now, job, faults>>

\* A poll is over, and with it what it knew.
Leave == pc' = "idle" /\ count' = 0 /\ found' = FALSE /\ listed' = {} /\ todo' = {}

StartPoll ==
    /\ pc = "idle" /\ now < MaxPolls
    /\ now' = now + 1 /\ pc' = "record"
    /\ UNCHANGED <<pool, rows, record, thinned, count, found, listed, todo, changes, faults>>

GetRecord ==
    /\ pc = "record"
    /\ \/ count' = Cardinality(Present) /\ found' = TRUE
       \/ RecordMisses /\ count' = 0 /\ found' = FALSE
    /\ pc' = "list"
    /\ UNCHANGED <<pool, rows, record, thinned, now, listed, todo, changes, faults>>

Answer(list) ==
    /\ pc = "list"
    /\ listed' = list /\ todo' = list /\ pc' = "write"
    /\ UNCHANGED <<pool, rows, record, thinned, now, count, found, changes>>

GetList == Answer(Present) /\ UNCHANGED faults

\* A truncated, paginated or empty answer.
GetTruncated ==
    /\ faults < MaxFaults /\ faults' = faults + 1
    /\ \E list \in SUBSET Present : list # Present /\ Answer(list)

Put(a, staked) ==
    rows' = {r \in rows : r.addr # a \/ r.at # now}
                \cup {[addr |-> a, at |-> now, staked |-> staked]}

WriteRow(a) ==
    /\ pc = "write" /\ a \in todo
    /\ Put(a, pool[a] = "staked")
    /\ todo' = todo \ {a}
    /\ UNCHANGED <<pool, record, thinned, now, pc, count, found, listed, changes, faults>>

\* Mutant: any answer with a row in it is complete, as before 2026-10-19.
MutantComplete == listed # {}

\* The list can be trusted to be complete.
Complete == listed # {} /\ (count = 0 \/ Cardinality(listed) >= count)

\* Mutant: only stakers of the last poll can depart.
MutantStartTombstones ==
    /\ pc = "write" /\ todo = {}
    /\ todo' = IF Complete THEN {a \in Addrs \ listed :
                                    \E r \in RowsFor(a) : r.staked /\ r.at = now - 1}
               ELSE {}
    /\ pc' = "tombstones"
    /\ UNCHANGED <<pool, rows, record, thinned, now, count, found, listed, changes, faults>>

StartTombstones ==
    /\ pc = "write" /\ todo = {}
    /\ todo' = IF Complete THEN {a \in Addrs \ listed : ShownStaked(a)} ELSE {}
    /\ pc' = "tombstones"
    /\ UNCHANGED <<pool, rows, record, thinned, now, count, found, listed, changes, faults>>

WriteTombstone(a) ==
    /\ pc = "tombstones" /\ a \in todo
    /\ Put(a, FALSE)
    /\ todo' = todo \ {a}
    /\ UNCHANGED <<pool, record, thinned, now, pc, count, found, listed, changes, faults>>

WriteRecord ==
    /\ pc = "tombstones" /\ todo = {}
    /\ record' = IF ~found THEN record
                 ELSE [at |-> now, stakers |-> IF listed # {} THEN Cardinality(listed)
                                               ELSE count]
    /\ IF Retention > 0 /\ (thinned = NULL \/ now - thinned >= ThinEvery)
       THEN pc' = "thin" /\ UNCHANGED <<count, found, listed, todo>>
       ELSE Leave
    /\ UNCHANGED <<pool, rows, thinned, now, changes, faults>>

\* downsample_staker_snapshots: of the old rows, the first per address and
\* hour is kept.
Old(r) == r.at < now - Retention
SameHour(r, q) == r.addr = q.addr /\ r.at \div Hour = q.at \div Hour

\* Mutant: the last row of an hour is kept, not the first.
MutantThin ==
    /\ pc = "thin"
    /\ rows' = {r \in rows : ~Old(r) \/ \A q \in rows : SameHour(r, q) => q.at <= r.at}
    /\ pc' = "stamp"
    /\ UNCHANGED <<pool, record, thinned, now, count, found, listed, todo, changes, faults>>

Thin ==
    /\ pc = "thin"
    /\ rows' = {r \in rows : ~Old(r) \/ \A q \in rows : SameHour(r, q) => r.at <= q.at}
    /\ pc' = "stamp"
    /\ UNCHANGED <<pool, record, thinned, now, count, found, listed, todo, changes, faults>>

Stamp ==
    /\ pc = "stamp"
    /\ thinned' = now /\ Leave
    /\ UNCHANGED <<pool, rows, record, now, changes, faults>>

\* A request fails, or the process stops: the rest of the poll is not done.
Abort ==
    /\ pc # "idle" /\ faults < MaxFaults
    /\ faults' = faults + 1 /\ Leave
    /\ UNCHANGED <<pool, rows, record, thinned, now, changes>>

-----------------------------------------------------------------------------
Polling ==
    \/ StartPoll \/ GetRecord \/ GetList
    \/ \E a \in todo : WriteRow(a) \/ WriteTombstone(a)
    \/ StartTombstones \/ WriteRecord \/ Thin \/ Stamp
Moves == \E a \in Addrs, to \in {"out", "inactive", "staked"} : Change(a, to)

Next == Polling \/ GetTruncated \/ Abort \/ Moves

Spec == Init /\ [][Next]_vars

-----------------------------------------------------------------------------
\* README "a truncated answer never books a fake unstake": a new row shows what
\* the address had when the list was answered, as long as the validator record
\* counts no fewer stakers than there are.
RowsTellTruth ==
    [][count >= Cardinality(Present) =>
        \A r \in rows' \ rows : r.staked <=> pool[r.addr] = "staked"]_rows

\* Once a complete answer is written, tombstones included, the latest rows show
\* exactly the addresses that are staked, whatever earlier polls lost.
CompletePollSettles ==
    pc = "tombstones" /\ todo = {} /\ listed = Present /\ Complete =>
        \A a \in Addrs : ShownStaked(a) <=> pool[a] = "staked"

\* README SNAPSHOT_RETENTION_DAYS: old rows are thinned to one per staker per
\* hour. No hour of a staker is lost, and recent rows are not touched.
ThinningKeepsHours ==
    [][\A r \in rows : /\ \E q \in rows' : SameHour(r, q) /\ q.at <= r.at
                       /\ ~Old(r) => \E q \in rows' : q.addr = r.addr /\ q.at = r.at]_rows

=============================================================================

----------------------------- MODULE CycleClose -----------------------------
(***************************************************************************)
(* How cycles are opened, closed and credited (tracker/jobs.py,            *)
(* run_cycle_close, _open_pending_cycle, the writes of _verify_and_close,  *)
(* run_verify), at the grain of SQLite commits: every DB method commits on *)
(* its own, so one step here is one committed statement, and the process   *)
(* can stop, or the job fail, between any two of them.                     *)
(*                                                                         *)
(* Only the scheduler thread writes.  Its four jobs run one after another, *)
(* so new batches and snapshots become visible only between ticks.         *)
(* Blocks are counted in payout batches: opened and closed are the indexes *)
(* of the batches a window starts after and ends with, and feed[b] is all  *)
(* that the verifier computes from the rows and snapshots of window b.     *)
(***************************************************************************)
EXTENDS CarryRule, Sequences

CONSTANTS
    Stakers,        \* addresses that appear on share lines
    Pool,           \* the window data a run draws from
    BatchBound,     \* bound on the number of payout batches
    MaxClose,       \* MAX_CLOSE_PER_TICK
    MaxFaults,      \* bound on crashes and failed jobs
    MaxRevisions    \* bound on changes to the data of an open window

ShareLine == [staker: Stakers, amount: Int, ok: BOOLEAN, reason: BOOLEAN]

\* What one window's data yields: the totals of the carry rule, the share
\* lines in the order they are written, the drift check, and whether the
\* snapshots that a verdict needs are there.
WindowData ==
    [totals: CarryWindow, lines: Seq(ShareLine), drift: BOOLEAN, covered: BOOLEAN]

ASSUME CloseConstants ==
    /\ Pool \subseteq WindowData
    /\ BatchBound \in Nat /\ MaxClose \in Nat \ {0}
    /\ MaxFaults \in Nat /\ MaxRevisions \in Nat

VARIABLES
    feed,       \* what ingest and snapshots have stored, per payout batch
    revisions,  \* how often an open window's data changed
    cycles,     \* the cycles table; a row's id is its index
    shares,     \* the cycle_shares table
    ledger,     \* the staker_rewards table
    (* the scheduler's control state, lost in a crash *)
    pc,         \* where the tick is
    current,    \* id of the cycle being closed or credited
    rounds,     \* closes left in this tick
    written,    \* share lines of the current cycle written in this attempt
    todo,       \* stakers left in the reason or credit loop
    faults

tables == <<cycles, shares, ledger>>
control == <<pc, current, rounds, written, todo>>
vars == <<feed, revisions, cycles, shares, ledger, pc, current, rounds, written,
          todo, faults>>

Cycle == [opened: Nat, closed: Nat \cup {NULL}, status: Statuses \cup {"PENDING"},
          carry: Int \cup {NULL}, fee: Int]
ShareRow == [cycle: Nat, staker: Stakers, amount: Int, ok: BOOLEAN, reason: BOOLEAN]
Credit == [staker: Stakers, block: Nat, amount: Int]

ClosePhases == {"close", "clear", "skip", "lines", "reasons", "credit", "reopen", "open"}
VerifyPhases == {"verify", "recredit"}

Init ==
    /\ feed = <<>> /\ revisions = 0
    /\ cycles = <<>> /\ shares = {} /\ ledger = {}
    /\ pc = "idle" /\ current = 0 /\ rounds = 0 /\ written = 0 /\ todo = {}
    /\ faults = 0

-----------------------------------------------------------------------------
\* The queries.

Latest(ids) == CHOOSE i \in ids : \A j \in ids : j <= i

PendingIds == {i \in DOMAIN cycles : cycles[i].status = "PENDING"}
ClosedIds == {i \in DOMAIN cycles : cycles[i].status # "PENDING"}
JudgedIds == {i \in DOMAIN cycles : cycles[i].status \in {"VERIFIED", "MISMATCH"}}

\* Carry and fee carry of latest_closed_cycle_any.
Predecessor ==
    IF ClosedIds = {} THEN NoPredecessor
    ELSE LET p == cycles[Latest(ClosedIds)] IN [carry |-> p.carry, fee |-> p.fee]

\* next_restake_batch after the opener of cycle i, and what it holds.
Batch(i) == cycles[i].opened + 1
HasBatch(i) == Batch(i) <= Len(feed)
Data(i) == feed[Batch(i)]

\* A later batch is on record: close_bound_ms is set and no snapshot that is
\* still to come can serve this window.
Bounded(i) == Batch(i) < Len(feed)

\* Mutant: the wait does not end when a later batch is on record.
MutantWaits(i) == ~Degenerate(Data(i).totals, Predecessor) /\ ~Data(i).covered

\* Snapshots are missing but may still arrive: the cycle stays PENDING.
Waits(i) ==
    ~Degenerate(Data(i).totals, Predecessor) /\ ~Data(i).covered /\ ~Bounded(i)

RowsOf(i) == {r \in shares : r.cycle = i}
\* Mutant: failing lines are credited too.
MutantOkStakers(i) == {r.staker : r \in RowsOf(i)}

OkStakers(i) == {r.staker : r \in {q \in RowsOf(i) : q.ok}}

-----------------------------------------------------------------------------
\* Between ticks: ingest stores a batch, or new rows or snapshots change what
\* an open window's data yields.  A closed window's data is never read again.

NewBatch(d) ==
    /\ pc = "idle" /\ Len(feed) < BatchBound
    /\ feed' = Append(feed, d)
    /\ UNCHANGED <<revisions, tables, control, faults>>

Revise(b, d) ==
    /\ pc = "idle" /\ revisions < MaxRevisions
    /\ \A i \in ClosedIds : cycles[i].closed < b
    /\ feed' = [feed EXCEPT ![b] = d]
    /\ revisions' = revisions + 1
    /\ UNCHANGED <<tables, control, faults>>

StartTick ==
    /\ pc = "idle"
    /\ pc' = "close" /\ rounds' = MaxClose
    /\ UNCHANGED <<feed, revisions, tables, current, written, todo, faults>>

-----------------------------------------------------------------------------
\* The catch-up loop of run_cycle_close.

\* The loop ends: nothing is pending, no batch is there, the window waits for
\* snapshots, or the rounds are used up.
LoopEnds ==
    /\ pc = "close"
    /\ IF PendingIds = {} THEN pc' = "open"
       ELSE LET i == Latest(PendingIds)
            IN  /\ \/ rounds = 0
                   \/ ~HasBatch(i)
                   \/ HasBatch(i) /\ Waits(i)
                /\ pc' = "verify"
    /\ UNCHANGED <<feed, revisions, tables, current, rounds, written, todo, faults>>

\* Mutant: closes are not counted against MAX_CLOSE_PER_TICK.
MutantAttempt(i) ==
    /\ pc = "close"
    /\ PendingIds # {} /\ i = Latest(PendingIds) /\ HasBatch(i)
    /\ current' = i /\ written' = 0
    /\ UNCHANGED <<feed, revisions, tables, rounds, todo, faults>>

Attempt(i) ==
    /\ pc = "close" /\ rounds > 0
    /\ PendingIds # {} /\ i = Latest(PendingIds) /\ HasBatch(i)
    /\ current' = i /\ written' = 0
    /\ UNCHANGED <<feed, revisions, tables, rounds, todo, faults>>

StartSkip(i) ==
    /\ Attempt(i)
    /\ \/ Degenerate(Data(i).totals, Predecessor)
       \/ ~Data(i).covered /\ Bounded(i)
    /\ pc' = "clear"

StartJudge(i) ==
    /\ Attempt(i)
    /\ ~Degenerate(Data(i).totals, Predecessor) /\ Data(i).covered
    /\ pc' = "lines"

\* Mutant: the carry is not stored.
MutantClose(verdict) ==
    cycles' = [cycles EXCEPT ![current] =
        [opened |-> @.opened, closed |-> Batch(current), status |-> verdict.status,
         carry |-> NULL, fee |-> verdict.fee]]

\* db.close_cycle for the current cycle.
Close(verdict) ==
    cycles' = [cycles EXCEPT ![current] =
        [opened |-> @.opened, closed |-> Batch(current), status |-> verdict.status,
         carry |-> verdict.carry, fee |-> verdict.fee]]

\* Mutant: lines of an attempt that failed stay with the SKIPPED cycle.
MutantClearShares ==
    /\ pc = "clear" /\ pc' = "skip"
    /\ UNCHANGED <<feed, revisions, tables, current, rounds, written, todo, faults>>

ClearShares ==
    /\ pc = "clear"
    /\ shares' = shares \ RowsOf(current)
    /\ pc' = "skip"
    /\ UNCHANGED <<feed, revisions, cycles, ledger, current, rounds, written, todo, faults>>

CloseSkipped ==
    /\ pc = "skip"
    /\ LET w == Data(current).totals
       IN  Close(IF Degenerate(w, Predecessor) THEN DegenerateClose(w, Predecessor)
                 ELSE SkippedClose(w, Predecessor))
    /\ pc' = "reopen"
    /\ UNCHANGED <<feed, revisions, shares, ledger, current, rounds, written, todo, faults>>

\* Mutant: the row is keyed by staker alone.
MutantPutShare(row) == shares' = {r \in shares : r.staker # row.staker} \cup {row}

\* upsert_cycle_share: the row is keyed by cycle and staker.
PutShare(row) ==
    shares' = {r \in shares : r.cycle # row.cycle \/ r.staker # row.staker} \cup {row}

WriteLine ==
    /\ pc = "lines" /\ written < Len(Data(current).lines)
    /\ LET line == Data(current).lines[written + 1]
       IN  PutShare([cycle |-> current, staker |-> line.staker, amount |-> line.amount,
                     ok |-> line.ok, reason |-> line.reason])
    /\ written' = written + 1
    /\ UNCHANGED <<feed, revisions, cycles, ledger, pc, current, rounds, todo, faults>>

LinesOk(d) == ~d.drift /\ \A n \in DOMAIN d.lines : d.lines[n].ok
CycleReason(d) == d.drift \/ CarryFlagged(d.totals, Predecessor)

CloseJudged ==
    /\ pc = "lines" /\ written = Len(Data(current).lines)
    /\ LET d == Data(current)
       IN  /\ Close(JudgedClose(d.totals, Predecessor, LinesOk(d)))
           /\ todo' = IF CycleReason(d)
                      THEN {r.staker : r \in {q \in RowsOf(current) : ~q.reason}}
                      ELSE {}
    /\ pc' = "reasons"
    /\ UNCHANGED <<feed, revisions, shares, ledger, current, rounds, written, faults>>

\* Mutant: a line that gets a cycle-level reason fails with it.
MutantSurfaceReason(s) ==
    /\ pc = "reasons" /\ s \in todo
    /\ \E row \in RowsOf(current) :
           row.staker = s /\ PutShare([row EXCEPT !.reason = TRUE, !.ok = FALSE])
    /\ todo' = todo \ {s}
    /\ UNCHANGED <<feed, revisions, cycles, ledger, pc, current, rounds, written, faults>>

\* A cycle-level reason is added to every line that has none.
SurfaceReason(s) ==
    /\ pc = "reasons" /\ s \in todo
    /\ \E row \in RowsOf(current) :
           row.staker = s /\ PutShare([row EXCEPT !.reason = TRUE])
    /\ todo' = todo \ {s}
    /\ UNCHANGED <<feed, revisions, cycles, ledger, pc, current, rounds, written, faults>>

StartCredits ==
    /\ pc = "reasons" /\ todo = {}
    /\ pc' = "credit" /\ todo' = OkStakers(current)
    /\ UNCHANGED <<feed, revisions, tables, current, rounds, written, faults>>

\* Mutant: the delete forgets the block and takes the staker's older credits.
MutantCreditStaker(s) ==
    /\ pc \in {"credit", "recredit"} /\ s \in todo
    /\ \E row \in RowsOf(current) :
        /\ row.staker = s
        /\ ledger' = {e \in ledger : e.staker # s}
                        \cup {[staker |-> s, block |-> cycles[current].closed,
                               amount |-> row.amount]}
    /\ todo' = todo \ {s}
    /\ UNCHANGED <<feed, revisions, cycles, shares, pc, current, rounds, written, faults>>

\* credit_staker_reward: delete and insert in one transaction.  A credit is what
\* the ledger adds up: staker, block, amount.  ts_ms, which is the clock's at each
\* insert, and tx_hash are left out.
CreditStaker(s) ==
    /\ pc \in {"credit", "recredit"} /\ s \in todo
    /\ \E row \in RowsOf(current) :
        /\ row.staker = s
        /\ ledger' = {e \in ledger : e.staker # s \/ e.block # cycles[current].closed}
                        \cup {[staker |-> s, block |-> cycles[current].closed,
                               amount |-> row.amount]}
    /\ todo' = todo \ {s}
    /\ UNCHANGED <<feed, revisions, cycles, shares, pc, current, rounds, written, faults>>

CreditsDone ==
    /\ pc = "credit" /\ todo = {}
    /\ pc' = "reopen"
    /\ UNCHANGED <<feed, revisions, tables, current, rounds, written, todo, faults>>

\* Mutant: every window opens at the newest payout, as before 2026-09-30.
MutantOpenPending ==
    /\ cycles' = Append(cycles, [opened |-> Len(feed), closed |-> NULL,
                                 status |-> "PENDING", carry |-> NULL, fee |-> 0])
    /\ UNCHANGED <<feed, revisions, shares, ledger, current, written, todo, faults>>

\* _open_pending_cycle: chained from the last closed cycle; the very first one
\* opens at the newest payout that is stored.
OpenPending ==
    LET opener == IF ClosedIds = {} THEN Len(feed)
                  ELSE cycles[Latest(ClosedIds)].closed
    IN  /\ cycles' = Append(cycles, [opened |-> opener, closed |-> NULL,
                                     status |-> "PENDING", carry |-> NULL, fee |-> 0])
        /\ UNCHANGED <<feed, revisions, shares, ledger, current, written, todo, faults>>

\* After a close, inside the loop.
Reopen ==
    /\ pc = "reopen" /\ OpenPending
    /\ pc' = "close" /\ rounds' = rounds - 1

\* After the loop, when no cycle is pending.
OpenAfterLoop ==
    /\ pc = "open" /\ OpenPending
    /\ pc' = "verify" /\ UNCHANGED rounds

-----------------------------------------------------------------------------
\* run_verify: credit the latest judged cycle again.

\* Mutant: a MISMATCH cycle is not credited again.
MutantStartVerify ==
    /\ pc = "verify"
    /\ IF JudgedIds = {} \/ cycles[Latest(JudgedIds)].status = "MISMATCH"
       THEN pc' = "idle" /\ UNCHANGED <<current, todo>>
       ELSE /\ pc' = "recredit"
            /\ current' = Latest(JudgedIds)
            /\ todo' = OkStakers(Latest(JudgedIds))
    /\ UNCHANGED <<feed, revisions, tables, rounds, written, faults>>

StartVerify ==
    /\ pc = "verify"
    /\ IF JudgedIds = {} THEN pc' = "idle" /\ UNCHANGED <<current, todo>>
       ELSE /\ pc' = "recredit"
            /\ current' = Latest(JudgedIds)
            /\ todo' = OkStakers(Latest(JudgedIds))
    /\ UNCHANGED <<feed, revisions, tables, rounds, written, faults>>

VerifyDone ==
    /\ pc = "recredit" /\ todo = {}
    /\ pc' = "idle"
    /\ UNCHANGED <<feed, revisions, tables, current, rounds, written, todo, faults>>

-----------------------------------------------------------------------------
\* A job that raises ends; the next job of the tick still runs.  A crash, or a
\* failing verify job, ends the tick.

Fault(next) ==
    /\ faults < MaxFaults /\ faults' = faults + 1
    /\ pc' = next /\ current' = 0 /\ rounds' = 0 /\ written' = 0 /\ todo' = {}
    /\ UNCHANGED <<feed, revisions, tables>>

CloseJobFails == pc \in ClosePhases /\ Fault("verify")
Crash == pc # "idle" /\ Fault("idle")

-----------------------------------------------------------------------------
CloseJob ==
    \/ LoopEnds
    \/ \E i \in DOMAIN cycles : StartSkip(i) \/ StartJudge(i)
    \/ ClearShares \/ CloseSkipped
    \/ WriteLine \/ CloseJudged
    \/ \E s \in todo : SurfaceReason(s)
    \/ StartCredits \/ CreditsDone
    \/ Reopen \/ OpenAfterLoop

VerifyJob == StartVerify \/ VerifyDone
Crediting == \E s \in todo : CreditStaker(s)
Scheduler == StartTick \/ CloseJob \/ Crediting \/ VerifyJob

Feeding == \E d \in Pool : NewBatch(d) \/ \E b \in DOMAIN feed : Revise(b, d)
Faults == CloseJobFails \/ Crash

Next == Scheduler \/ Feeding \/ Faults

\* main.py runs the jobs in an endless loop: the scheduler always goes on.
Spec == Init /\ [][Next]_vars /\ WF_vars(Scheduler)

-----------------------------------------------------------------------------
TypeOK ==
    /\ feed \in Seq(Pool) /\ revisions \in Nat
    /\ cycles \in Seq(Cycle)
    /\ shares \subseteq ShareRow
    /\ ledger \subseteq Credit
    /\ pc \in ClosePhases \cup VerifyPhases \cup {"idle"}
    /\ current \in 0..Len(cycles)
    /\ rounds \in Nat /\ written \in Nat /\ faults \in Nat
    /\ todo \subseteq Stakers

\* Windows tile the payout history: each starts where its predecessor ended
\* and spans one batch, and only the newest cycle can be PENDING, wherever a
\* crash or a failed job left the close.
WindowsTile ==
    /\ \A i \in DOMAIN cycles :
        cycles[i].status # "PENDING" => cycles[i].closed = cycles[i].opened + 1
    /\ \A i \in DOMAIN cycles :
        i # Len(cycles) => /\ cycles[i].status # "PENDING"
                           /\ cycles[i + 1].opened = cycles[i].closed

\* Nothing on the ledger is unaccounted for: every credit is the amount of an
\* OK line of the one judged cycle that closed at its block.
LedgerBacked ==
    \A e \in ledger : \E i \in JudgedIds :
        /\ cycles[i].closed = e.block
        /\ \E r \in RowsOf(i) : r.ok /\ r.staker = e.staker /\ r.amount = e.amount

Credited(i) ==
    \A r \in RowsOf(i) : r.ok =>
        [staker |-> r.staker, block |-> cycles[i].closed, amount |-> r.amount] \in ledger

\* README "G1": every OK staker line from a closed cycle is credited.  Only the
\* newest judged cycle may still be short of credits, which run_verify repairs;
\* two faults in a row keep it from getting there before the next close.
LedgerComplete ==
    faults <= 1 => \A i \in JudgedIds : i # Latest(JudgedIds) => Credited(i)

\* The rows of a judged cycle are the lines of its own verdict, as long as its
\* data did not change between a failed attempt and the one that closed it: a
\* retry leaves no gaps and no line twice.
RowsMatchVerdict ==
    revisions = 0 => \A i \in JudgedIds :
        LET lines == Data(i).lines
            last == {n \in DOMAIN lines : \A m \in DOMAIN lines :
                        m > n => lines[m].staker # lines[n].staker}
        IN  {<<r.staker, r.amount, r.ok>> : r \in RowsOf(i)}
              = {<<lines[n].staker, lines[n].amount, lines[n].ok>> : n \in last}

\* README "Status": VERIFIED means every line is OK.
VerifiedMeansEveryLineOk ==
    \A i \in DOMAIN cycles : cycles[i].status = "VERIFIED" => \A r \in RowsOf(i) : r.ok

\* README "Status": a SKIPPED cycle credits nothing and shows no lines.
SkippedCreditsNothing ==
    \A i \in DOMAIN cycles : cycles[i].status = "SKIPPED" =>
        RowsOf(i) = {} /\ \A e \in ledger : e.block # cycles[i].closed

\* A verdict is final: no later close, retry or verify changes a closed cycle,
\* or the amounts and results on its lines.
Results(i) == {<<r.staker, r.amount, r.ok>> : r \in RowsOf(i)}
VerdictsAreFinal ==
    [][ \A i \in ClosedIds : /\ i \in DOMAIN cycles' /\ cycles'[i] = cycles[i]
                             /\ Results(i)' = Results(i) ]_vars

\* A credit, once visible, never disappears, and the amount that a staker has at
\* a block never changes.  (Its time and hash may: every verify writes them anew.)
CreditsStay == [][ledger \subseteq ledger']_vars

\* The backlog drains: once a later batch is on record, a window is closed
\* whatever its data, unless it lies before the first cycle's opener.
Frontier == IF cycles = <<>> THEN 0
            ELSE LET c == cycles[Len(cycles)] IN IF c.closed = NULL THEN c.opened ELSE c.closed
BacklogDrains == \A b \in 1..BatchBound : Len(feed) > b ~> Frontier >= b
=============================================================================

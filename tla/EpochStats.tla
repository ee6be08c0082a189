----------------------------- MODULE EpochStats -----------------------------
(***************************************************************************)
(* The epoch performance collector (tools/epoch_stats.py), a cron job: it  *)
(* counts the micro blocks of an epoch by walking them batch by batch, as  *)
(* far as a run's budget and the node's history go, and resumes where the  *)
(* last run stopped.  One step is one batched request, or the statements   *)
(* between two of them; what a run has written since its last commit is    *)
(* lost when it dies.  The file lock leaves one run at a time.             *)
(*                                                                         *)
(* Blocks are numbered from 1, the first block of epoch 0.                 *)
(***************************************************************************)
EXTENDS Integers, Sequences, FiniteSets, FiniteSetsExt

CONSTANTS
    NULL,           \* no row, no meta entry
    EpochBlocks,    \* EPOCH_BLOCKS
    BatchBlocks,    \* BATCH_BLOCKS; its last block is a macro block
    MaxBatches,     \* --max-batches, the budget of a run
    Lookback,       \* --lookback
    FirstHead,      \* height of the chain when the tool is first run
    MaxHead,        \* bound on the height of the chain
    MaxFaults       \* bound on unreadable answers and runs that die

ASSUME StatsConstants ==
    /\ NULL \notin Int /\ NULL \notin [start : Int, end : Int, micro : Int, rewards : Int]
    /\ EpochBlocks \in Nat \ {0} /\ BatchBlocks \in Nat \ {0} /\ EpochBlocks % BatchBlocks = 0
    /\ MaxBatches \in Nat \ {0}
    /\ Lookback \in Nat /\ FirstHead \in Nat /\ FirstHead > Lookback * EpochBlocks
    /\ MaxHead \in Nat /\ FirstHead <= MaxHead /\ MaxFaults \in Nat

VARIABLES
    head,       \* newest block
    pruned,     \* blocks up to here are gone from the node's history
    rewarded,   \* the tracker has the rewards up to this block
    boundary,   \* meta epoch_boundary
    current,    \* meta epoch_boundary_epoch
    upto,       \* meta epoch_stats_upto_<epoch>
    rows,       \* epoch_stats
    (* the running collector *)
    pc,         \* "idle", "next", "walk" or "stopped"
    top,        \* the head it saw
    todo,       \* epochs_to_do
    left,       \* what is left of its budget
    shallow,    \* history floor_hit
    ep,         \* the epoch it is at
    from, h,    \* where its walk began, and the next block to read
    micro,      \* micro blocks counted, of this run and before
    written,    \* what it has written and not committed, NULL if nothing
    faults

chain == <<head, pruned, rewarded>>
meta == <<boundary, current, upto, rows>>
run == <<top, todo, left, shallow, ep, from, h, micro>>
vars == <<chain, meta, pc, run, written, faults>>

EpochOf(b) == (b - 1) \div EpochBlocks
FirstBlock(e) == e * EpochBlocks + 1
LastBlock(e) == (e + 1) * EpochBlocks
Epochs == 0..EpochOf(MaxHead)

Micros(lo, hi) == Cardinality({b \in lo..hi : b % BatchBlocks # 0})
RewardsIn(lo, hi) == Cardinality({b \in lo..hi : b % BatchBlocks = 0 /\ b <= rewarded})

Init ==
    /\ head = FirstHead /\ pruned \in 0..FirstHead - 1 /\ rewarded = FirstHead
    /\ boundary = NULL /\ current = NULL
    /\ upto = [e \in Epochs |-> NULL] /\ rows = [e \in Epochs |-> NULL]
    /\ pc = "idle" /\ top = 0 /\ todo = <<>> /\ left = 0 /\ shallow = FALSE
    /\ ep = 0 /\ from = 0 /\ h = 0 /\ micro = 0
    /\ written = NULL /\ faults = 0

-----------------------------------------------------------------------------
\* The chain, the node's history and the tracker's ingest.
Grow ==
    /\ head < MaxHead /\ head' = head + 1
    /\ UNCHANGED <<pruned, rewarded, meta, pc, run, written, faults>>

Prune ==
    /\ pruned < head - 1 /\ pruned' = pruned + 1
    /\ UNCHANGED <<head, rewarded, meta, pc, run, written, faults>>

Reward ==
    /\ rewarded < head /\ rewarded' = head
    /\ UNCHANGED <<head, pruned, meta, pc, run, written, faults>>

-----------------------------------------------------------------------------
\* find_epoch_start: the first block the node knows to be of the head's epoch.
FindEpochStart == Max({FirstBlock(EpochOf(head)), pruned + 1})

EpochStart(e) == boundary - (current - e) * EpochBlocks
EpochEnd(e) == IF e = current THEN top ELSE EpochStart(e) + EpochBlocks - 1

\* sorted(S, reverse=True): the i-th is the one that i of S are not older than.
NewestFirst(S) ==
    [i \in 1..Cardinality(S) |-> CHOOSE e \in S : Cardinality({x \in S : x >= e}) = i]

\* Mutant: only epochs without a row, which froze every epoch after its first run.
MutantEpochsToDo(c, start) ==
    NewestFirst({e \in (c - Lookback)..c : rows[e] = NULL})

\* The current epoch, closed epochs that were not counted to their end, newest
\* first, and the newest closed epochs that have no row.
EpochsToDo(c, start) ==
    LET Begins(e) == start - (c - e) * EpochBlocks
        incomplete == {e \in Epochs : /\ e < c /\ rows[e] # NULL
                                      /\ rows[e].end < Begins(e) + EpochBlocks - 1}
        missing == {e \in (c - Lookback)..(c - 1) : rows[e] = NULL}
    IN  <<c>> \o NewestFirst(incomplete) \o NewestFirst(missing)

StartRun ==
    /\ pc = "idle"
    /\ LET fresh == boundary = NULL \/ current # EpochOf(head) \/ boundary > head
       IN  /\ boundary' = IF fresh THEN FindEpochStart ELSE boundary
           /\ current' = EpochOf(head)
    /\ top' = head /\ todo' = EpochsToDo(current', boundary')
    /\ left' = MaxBatches /\ shallow' = FALSE
    /\ pc' = "next"
    /\ UNCHANGED <<chain, upto, rows, ep, from, h, micro, written, faults>>

Commit ==
    /\ rows' = IF written = NULL THEN rows ELSE [rows EXCEPT ![written.epoch] = written.row]
    /\ upto' = IF written = NULL THEN upto ELSE [upto EXCEPT ![written.epoch] = written.upto]
    /\ written' = NULL

\* Mutant: the walk resumes at the last counted block.
MutantResume(e) == IF upto[e] = NULL THEN EpochStart(e) ELSE upto[e]

Resume(e) == IF upto[e] = NULL THEN EpochStart(e) ELSE upto[e] + 1

NextEpoch ==
    /\ pc = "next" /\ todo # <<>> /\ left > 0
    /\ Commit
    /\ ep' = todo[1] /\ todo' = Tail(todo)
    /\ micro' = IF rows[ep'] = NULL THEN 0 ELSE rows[ep'].micro
    /\ from' = Resume(ep') /\ h' = from'
    /\ pc' = IF shallow /\ ep' # current THEN "stopped" ELSE "walk"
    /\ UNCHANGED <<chain, boundary, current, top, left, shallow, faults>>

\* The batch's last block, or the epoch's.
BatchEnd ==
    LET b == EpochStart(ep) + ((h - EpochStart(ep)) \div BatchBlocks + 1) * BatchBlocks - 1
    IN  Min({b, EpochEnd(ep)})

\* Blocks h..last were readable; the rest of the batch was not.
Count(last) ==
    /\ left' = left - 1
    /\ micro' = micro + Micros(h, last) /\ h' = last + 1
    /\ IF last = BatchEnd THEN pc' = pc /\ shallow' = shallow
       ELSE pc' = "stopped" /\ shallow' = (shallow \/ ep # current)
    /\ UNCHANGED <<chain, meta, top, todo, ep, from, written>>

Walking == pc = "walk" /\ h <= EpochEnd(ep) /\ left > 0

\* Nothing below the node's history is read, and nothing after it either.
FetchBatch ==
    /\ Walking
    /\ Count(IF h <= pruned THEN h - 1 ELSE BatchEnd)
    /\ UNCHANGED faults

\* A part of the answer is missing.
FetchHiccup ==
    /\ Walking /\ h > pruned
    /\ faults < MaxFaults /\ faults' = faults + 1
    /\ \E last \in (h - 1)..(BatchEnd - 1) : Count(last)

\* No row for an epoch the node's history does not reach.
NothingToSay == rows[ep] = NULL /\ h = from

\* The row and the resume point are written, the commit comes later.
Save ==
    /\ pc = "stopped" \/ (pc = "walk" /\ ~Walking)
    /\ written' =
        IF NothingToSay THEN NULL
        ELSE [epoch |-> ep,
              upto |-> IF h > from THEN h - 1 ELSE upto[ep],
              row |-> [start |-> EpochStart(ep),
                       end |-> Max({h - 1, EpochStart(ep) - 1}
                                       \cup (IF rows[ep] = NULL THEN {} ELSE {rows[ep].end})),
                       micro |-> micro,
                       rewards |-> RewardsIn(EpochStart(ep),
                                       IF ep = current THEN top
                                       ELSE EpochStart(ep) + EpochBlocks - 1)]]
    /\ pc' = "next"
    /\ UNCHANGED <<chain, meta, run, faults>>

Leave ==
    /\ pc' = "idle" /\ top' = 0 /\ todo' = <<>> /\ left' = 0 /\ shallow' = FALSE
    /\ ep' = 0 /\ from' = 0 /\ h' = 0 /\ micro' = 0

Finish ==
    /\ pc = "next" /\ (todo = <<>> \/ left <= 0)
    /\ Commit /\ Leave
    /\ UNCHANGED <<chain, boundary, current, faults>>

\* A request fails, or the host stops the run.
Die ==
    /\ pc # "idle" /\ faults < MaxFaults /\ faults' = faults + 1
    /\ Leave /\ written' = NULL
    /\ UNCHANGED <<chain, meta>>

Collecting == StartRun \/ NextEpoch \/ FetchBatch \/ Save \/ Finish
Next == Collecting \/ FetchHiccup \/ Die \/ Grow \/ Prune \/ Reward

\* Cron starts the next run when the last one has ended; a run comes to its end.
Spec == Init /\ [][Next]_vars /\ WF_vars(Collecting)

-----------------------------------------------------------------------------
\* A row r of epoch e that the next walk goes on from after block u.
Exact(e, u, r) ==
    /\ u \in FirstBlock(e)..r.end /\ r.end <= LastBlock(e)
    /\ r.end > u => r.end <= pruned
    /\ r.micro <= Micros(FirstBlock(e), u)
    /\ r.micro >= Micros(Max({FirstBlock(e), pruned + 1}), r.end)

\* epoch_stats.py "a resumed walk never double-counts or skips a block" and
\* "blocks the node cannot serve stop the walk instead of being counted as
\* zero": of the epoch's blocks up to end_block none is counted twice, and none
\* that the node still has is left out or passed over, after any sequence of
\* budgets that ran out, unreadable answers and runs that died.
CountsAreExact == \A e \in {x \in Epochs : rows[x] # NULL} : Exact(e, upto[e], rows[e])

\* A closed epoch that was begun, or is new enough to be begun, while the node
\* still has what is missing of it.
Owed(e) ==
    /\ e < EpochOf(head)
    /\ IF rows[e] = NULL THEN e >= EpochOf(head) - Lookback /\ pruned < FirstBlock(e)
       ELSE rows[e].end < LastBlock(e) /\ pruned <= rows[e].end

\* An older epoch that can no longer be finished: every run stops at it, and the
\* epochs without a row come after it.
InTheWay(e) ==
    \E o \in Epochs : o < e /\ rows[o] # NULL /\ rows[o].end < LastBlock(o) /\ pruned > rows[o].end

\* epoch_stats.py "spends the remaining batch budget finishing closed epochs":
\* every closed epoch is counted to its end as long as the node has its blocks.
\* Neither the budget nor the current epoch keeps it from its turn for ever; one
\* that has no row yet, only an older epoch that is in the way.
ClosedEpochsAreFinished ==
    \A e \in Epochs : []<>~(Owed(e) /\ (rows[e] # NULL \/ ~InTheWay(e)))
=============================================================================

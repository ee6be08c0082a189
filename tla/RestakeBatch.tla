---------------------------- MODULE RestakeBatch ----------------------------
(***************************************************************************)
(* Where a cycle window ends: the scan of DB.next_restake_batch            *)
(* (tracker/db.py), called for one opener after the other as               *)
(* run_cycle_close does.  One step of the scan is one pass of its loop.    *)
(* A row of restake_txs is its block.  Rows arrive in chain order, except  *)
(* that a head walk which ran out of pages leaves a gap behind them, to be *)
(* filled newest first while windows are being closed (Ingest).            *)
(***************************************************************************)
EXTENDS Integers, Sequences, SequencesExt

CONSTANTS
    Gap,        \* BATCH_GAP_BLOCKS
    Limit,      \* LIMIT: blocks and rows of one fetch, 2000 in the code
    Outages,    \* the ingest may fall behind and record a gap
    MaxBlock,   \* bound on block numbers
    MaxRows,    \* bound on the number of rows
    MaxMissed   \* bound on the rows a head walk leaves behind

ASSUME BatchConstants ==
    /\ Gap \in Nat /\ Limit \in Nat /\ Limit >= 2
    /\ Outages \in BOOLEAN /\ MaxBlock \in Nat /\ MaxRows \in Nat
    /\ MaxMissed \in Nat

VARIABLES
    table,  \* restake_txs of the validator, ORDER BY block
    behind, \* rows inside a gap that is still to be drained, in block order
    ends,   \* closed_block of the windows closed so far, after the first opener
    pc,     \* "idle" or "scan"
    start   \* where the next fetch begins

vars == <<table, behind, ends, pc, start>>

Init == table = <<>> /\ behind = <<>> /\ ends = <<0>> /\ pc = "idle" /\ start = 0

Opener == Last(ends)

\* How many rows lie before block b.
Before(b) == Cardinality({n \in 1..Len(table) : table[n] < b})

Newest(rows) == IF rows = <<>> THEN Opener ELSE Last(rows)

\* New rows on the chain.  The rows of a block that is closed on are all there.
New(rows) ==
    /\ pc = "idle" /\ Len(table) + Len(behind) + Len(rows) <= MaxRows
    /\ rows[1] > Opener /\ rows[1] >= Newest(table)

Arrive(b) ==
    /\ New(<<b>>)
    /\ table' = Append(table, b)
    /\ UNCHANGED <<behind, ends, pc, start>>

\* After an outage the head walk gets to the newest row only.
FallBehind(missed, b) ==
    /\ Outages /\ table # <<>> /\ New(Append(missed, b))
    /\ \A n \in 1..Len(missed) : missed[n] <= Append(missed, b)[n + 1]
    /\ behind' = behind \o missed /\ table' = Append(table, b)
    /\ UNCHANGED <<ends, pc, start>>

\* The drain goes from the newest row of the gap back to the oldest.
Drain ==
    /\ pc = "idle" /\ behind # <<>>
    /\ table' = InsertAt(table, Before(Last(behind)) + 1, Last(behind))
    /\ behind' = Front(behind)
    /\ UNCHANGED <<ends, pc, start>>

-----------------------------------------------------------------------------
\* One fetch: the rows in Limit blocks from start on, at most Limit of them.
Fetched ==
    SubSeq(table, Before(start) + 1, Min({Before(start + Limit), Before(start) + Limit}))

\* Mutant: a distance of one more than the gap does not split.
MutantBoundaries(rows) == {n \in 1..(Len(rows) - 1) : rows[n + 1] - rows[n] > Gap + 1}

\* Positions after which a new batch starts.
Boundaries(rows) == {n \in 1..(Len(rows) - 1) : rows[n + 1] - rows[n] > Gap}

\* Mutant: without a boundary the first row is taken for the batch.
MutantBatchEnd(rows) ==
    IF Boundaries(rows) = {} THEN rows[1] ELSE rows[Min(Boundaries(rows))]

\* The block of the last row before the first boundary, or of the last row.
BatchEnd(rows) ==
    IF Boundaries(rows) = {} THEN Last(rows) ELSE rows[Min(Boundaries(rows))]

\* The fetch is filled to its cap without a boundary.
Unproven(rows) ==
    Boundaries(rows) = {} /\ Len(rows) = Limit /\ Last(rows) >= start + Limit - 1

Ahead == {n \in 1..Len(table) : table[n] >= start + Limit}

\* Mutant: the scan begins at the opener itself.
MutantCall ==
    /\ pc = "idle"
    /\ pc' = "scan" /\ start' = Opener
    /\ UNCHANGED <<table, behind, ends>>

Call ==
    /\ pc = "idle"
    /\ pc' = "scan" /\ start' = Opener + 1
    /\ UNCHANGED <<table, behind, ends>>

\* Mutant: an empty fetch ends the scan, as before 2026-10-06.
MutantHop ==
    /\ pc = "scan" /\ Fetched = <<>> /\ Ahead # {}
    /\ pc' = "idle"
    /\ UNCHANGED <<table, behind, ends, start>>

\* Nothing in reach: hop to the next row.
Hop ==
    /\ pc = "scan" /\ Fetched = <<>> /\ Ahead # {}
    /\ start' = table[Min(Ahead)]
    /\ UNCHANGED <<table, behind, ends, pc>>

NoBatch ==
    /\ pc = "scan" /\ Fetched = <<>> /\ Ahead = {}
    /\ pc' = "idle"
    /\ UNCHANGED <<table, behind, ends, start>>

Expand ==
    /\ pc = "scan" /\ Fetched # <<>> /\ Unproven(Fetched)
    /\ start' = Last(Fetched)
    /\ UNCHANGED <<table, behind, ends, pc>>

\* The batch is found, and the window of this opener closes on it.
Found ==
    /\ pc = "scan" /\ Fetched # <<>> /\ ~Unproven(Fetched)
    /\ ends' = Append(ends, BatchEnd(Fetched))
    /\ pc' = "idle"
    /\ UNCHANGED <<table, behind, start>>

Scan == Hop \/ NoBatch \/ Expand \/ Found
Ingested ==
    \/ \E b \in 1..MaxBlock : Arrive(b)
    \/ \E b \in 1..MaxBlock, m \in 1..MaxMissed :
           \E missed \in [1..m -> 1..MaxBlock] : FallBehind(missed, b)
    \/ Drain

Next == Scan \/ Call \/ Ingested

\* A call returns in the same tick, and the scheduler calls again every tick.
Spec == Init /\ [][Next]_vars /\ WF_vars(Scan \/ Call)

-----------------------------------------------------------------------------
\* README "cycle close": a window is the stretch between consecutive batches.
\* No window closes on rows of two batches, however the fetches and the gaps of
\* the ingest cut the table up.
NeverMerges ==
    [][\A n \in 1..(Len(table) - 1) :
        Opener < table[n] /\ table[n + 1] <= Last(ends') => table[n + 1] - table[n] <= Gap]_ends

\* Every window ends on a row of its own: none is empty, and none reaches back.
WindowsAreOwn ==
    \A w \in 1..(Len(ends) - 1) :
        ends[w] < ends[w + 1] /\ \E n \in 1..Len(table) : table[n] = ends[w + 1]

\* db.py:720 "the first complete restake batch": no row on record that belongs to
\* the same batch is left for the next window.
LeftOver == {n \in 1..Len(table) : Last(ends) < table[n] /\ table[n] <= Last(ends) + Gap}
EndsBatch == [][LeftOver' = {}]_ends

\* It holds as long as the fetch reaches past the batch, in blocks and in rows.
EndsBatchWithinFetch ==
    [][Len(Fetched) < Limit /\ Last(ends') + Gap < start + Limit => LeftOver' = {}]_ends

\* The 2026-10-06 close stall: no row is left outside every window for good, in
\* particular not after a silent stretch longer than a fetch.
RowsAreReached ==
    \A n \in 1..MaxRows : Len(table) >= n ~> Len(table) >= n /\ table[n] <= Opener
=============================================================================

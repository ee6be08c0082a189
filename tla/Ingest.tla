------------------------------- MODULE Ingest -------------------------------
(***************************************************************************)
(* How transactions reach the tables (tracker/jobs.py: run_ingest, the     *)
(* page walk of LiveFetcher.walk_transactions, _record_gap; tools/         *)
(* register_ingest_gaps.py): the head walk back to the watermark, the gaps *)
(* that a walk which ran out of pages leaves, and their drain.             *)
(*                                                                         *)
(* chain is the reward address' history, oldest first; a transaction's     *)
(* hash is its index.  The explorer serves it newest first in pages, from  *)
(* below a hash, so a walk has seen the transactions cursor..from-1.  One  *)
(* step is one page fetched or one committed statement, so the process can *)
(* stop, or the explorer fail, between any two.  The gap list's read and   *)
(* its write in _record_gap are one step; in the drain loop they are not.  *)
(***************************************************************************)
EXTENDS Integers, Sequences, FiniteSets

CONSTANTS
    NULL,           \* no value: SQL NULL, Python None
    PageSize,       \* MAX_TX_BATCH
    HeadPages,      \* MAX_TX_PAGES
    BackfillPages,  \* BACKFILL_PAGES_PER_POLL
    HoleBlocks,     \* the tool's threshold between two rewards, 60 in the code
    ToolRuns,       \* how often register_ingest_gaps is run
    ToolAlone,      \* it is run only while no ingest job is running
    KindsAt,        \* kinds of transactions that occur, by block
    CrashPoints,    \* phases in which the process may stop
    MaxBlock,       \* bound on the chain's block numbers
    MaxTxs,         \* bound on the length of the history
    BlockTxs,       \* bound on the transactions of one block
    MaxFaults       \* bound on failed, refused and outdated answers and crashes

ASSUME IngestConstants ==
    /\ NULL \notin Int
    /\ PageSize \in Nat \ {0} /\ HeadPages \in Nat \ {0} /\ BackfillPages \in Nat
    /\ HoleBlocks \in Nat /\ ToolRuns \in Nat /\ ToolAlone \in BOOLEAN
    /\ KindsAt \in [1..MaxBlock -> SUBSET {"reward", "restake", "other"}]
    /\ CrashPoints \subseteq {"fetch", "store", "gap", "drain", "loop"}
    /\ MaxBlock \in Nat /\ MaxTxs \in Nat /\ MaxFaults \in Nat
    /\ BlockTxs \in Nat \ {0} /\ BlockTxs < HeadPages * PageSize

VARIABLES
    chain,      \* the address' history at the explorer
    stored,     \* transactions whose values are in rewards or restake_txs
    watermark,  \* meta ingest_watermark_block
    gaps,       \* meta ingest_gaps, newest first
    (* the running ingest job *)
    pc,         \* "idle" or its phase
    draining,   \* the walk serves a gap, not the head
    floor,      \* stop_before of the walk
    from,       \* the walk started below this transaction
    cursor,     \* hash of the oldest transaction the walk has seen
    next,       \* newest seen transaction that is not stored yet
    pages,      \* pages the walk may still fetch
    status,     \* what walk_transactions returns
    budget,     \* remaining_pages of the drain loop
    mine,       \* the drain loop's copy of the gap list
    (* the host-side tool *)
    tool,       \* the gap list it is about to write, NULL when it is not running
    runs, faults,
    lost        \* history: what a stop kept out of the gap list

walk == <<draining, floor, from, cursor, next, pages, status>>
vars == <<chain, stored, watermark, gaps, pc, walk, budget, mine, tool, runs, faults, lost>>

Tx == [block: Nat, kind: {"reward", "restake", "other"}]
Gap == [cursor: Nat, floor: Nat]

Init ==
    /\ chain = <<>> /\ stored = {} /\ watermark = NULL /\ gaps = <<>>
    /\ pc = "idle" /\ draining = FALSE /\ floor = NULL
    /\ from = 1 /\ cursor = 1 /\ next = 0 /\ pages = 0 /\ status = "end_of_history"
    /\ budget = 0 /\ mine = <<>>
    /\ tool = NULL /\ runs = 0 /\ faults = 0 /\ lost = {}

-----------------------------------------------------------------------------
\* The chain grows at any time, a block's transactions one by one.

Tip == IF chain = <<>> THEN 0 ELSE chain[Len(chain)].block

Produce(b, k) ==
    /\ Len(chain) < MaxTxs /\ b >= Tip
    /\ Cardinality({p \in 1..Len(chain) : chain[p].block = b}) < BlockTxs
    /\ chain' = Append(chain, [block |-> b, kind |-> k])
    /\ UNCHANGED <<stored, watermark, gaps, pc, walk, budget, mine, tool, runs, faults, lost>>

-----------------------------------------------------------------------------
\* The head walk starts at what the explorer believes to be the newest
\* transaction and goes back to the watermark or, before there is one, to the
\* oldest stored row.

OldestStored == CHOOSE p \in stored : \A q \in stored : p <= q

StopBefore ==
    IF watermark # NULL THEN watermark
    ELSE IF stored = {} THEN NULL
    ELSE chain[OldestStored].block

ColdStart == floor = NULL

StartHeadWalk(newest) ==
    /\ pc = "idle" /\ (ToolAlone => tool = NULL)
    /\ pc' = "fetch" /\ draining' = FALSE
    /\ floor' = StopBefore
    /\ from' = newest + 1 /\ cursor' = newest + 1 /\ next' = newest
    /\ pages' = IF StopBefore = NULL THEN 1 ELSE HeadPages
    /\ status' = "end_of_history"
    /\ UNCHANGED <<chain, stored, watermark, gaps, budget, mine, tool, runs, lost>>

StartIngest == StartHeadWalk(Len(chain)) /\ UNCHANGED faults

\* The explorer answers from a node that is behind, by a page at most.
StartOutdated ==
    /\ faults < MaxFaults /\ faults' = faults + 1
    /\ \E lag \in 1..PageSize : lag <= Len(chain) /\ StartHeadWalk(Len(chain) - lag)

-----------------------------------------------------------------------------
\* walk_transactions, page by page.

\* Mutant: the last page is taken to be full.
MutantPageEnd == cursor - PageSize

PageEnd == IF cursor - 1 > PageSize THEN cursor - PageSize ELSE 1

FetchPage ==
    /\ pc = "fetch"
    /\ IF cursor = 1
       THEN /\ status' = "end_of_history" /\ pc' = "store"
            /\ UNCHANGED <<cursor, pages>>
       ELSE /\ cursor' = PageEnd /\ pages' = pages - 1
            /\ LET reached == floor # NULL /\ chain[PageEnd].block < floor
                   short == cursor - PageEnd < PageSize
               IN  /\ status' = IF reached THEN "reached_floor"
                                ELSE IF short THEN "end_of_history"
                                ELSE IF pages = 1 THEN "truncated"
                                ELSE status
                   /\ pc' = IF reached \/ short \/ pages = 1 THEN "store" ELSE "fetch"
    /\ UNCHANGED <<chain, stored, watermark, gaps, draining, floor, from, next,
                   budget, mine, tool, runs, faults, lost>>

\* HTTP 429: the walk ends early and what it has is used.
RateLimited ==
    /\ pc = "fetch" /\ faults < MaxFaults
    /\ faults' = faults + 1
    /\ status' = "truncated" /\ pc' = "store"
    /\ UNCHANGED <<chain, stored, watermark, gaps, draining, floor, from, cursor,
                   next, pages, budget, mine, tool, runs, lost>>

\* The walk left a stretch between its oldest transaction and its floor.
Unregistered == ~ColdStart /\ status = "truncated" /\ cursor < from

\* Any other error leaves run_ingest; so does the process when it stops.
Abort ==
    /\ faults < MaxFaults /\ faults' = faults + 1
    /\ pc' = "idle" /\ draining' = FALSE /\ floor' = NULL
    /\ from' = 1 /\ cursor' = 1 /\ next' = 0 /\ pages' = 0 /\ status' = "end_of_history"
    /\ budget' = 0 /\ mine' = <<>>
    /\ UNCHANGED <<chain, stored, watermark, gaps, tool, runs>>

FetchFails == pc = "fetch" /\ Abort /\ UNCHANGED lost

Crash ==
    /\ pc \in CrashPoints /\ Abort
    /\ lost' = IF pc = "gap" /\ Unregistered
               THEN lost \cup {p \in 1..(cursor - 1) : chain[p].block >= floor} ELSE lost

-----------------------------------------------------------------------------
\* What a walk returned is stored, newest first, one commit each, replacing
\* the row with the same key: a reward's key is its block, a restake's its hash.

SameKey(p, q) ==
    \/ p = q
    \/ /\ chain[p].kind = "reward" /\ chain[q].kind = "reward"
       /\ chain[p].block = chain[q].block

StoreTx ==
    /\ pc = "store" /\ next >= cursor
    /\ stored' = IF chain[next].kind = "other" THEN stored
                 ELSE {q \in stored : ~SameKey(q, next)} \cup {next}
    /\ next' = next - 1
    /\ UNCHANGED <<chain, watermark, gaps, pc, draining, floor, from, cursor, pages,
                   status, budget, mine, tool, runs, faults, lost>>

\* Mutant: an outdated answer moves the watermark back.
MutantSetWatermark ==
    /\ pc = "store" /\ next < cursor /\ ~draining
    /\ watermark' = IF cursor < from THEN chain[from - 1].block ELSE watermark
    /\ pc' = "gap"
    /\ UNCHANGED <<chain, stored, gaps, walk, budget, mine, tool, runs, faults, lost>>

\* The watermark moves to the newest block seen.
SetWatermark ==
    /\ pc = "store" /\ next < cursor /\ ~draining
    /\ watermark' = IF cursor < from /\ (ColdStart \/ chain[from - 1].block >= floor)
                    THEN chain[from - 1].block
                    ELSE watermark
    /\ pc' = "gap"
    /\ UNCHANGED <<chain, stored, gaps, walk, budget, mine, tool, runs, faults, lost>>

\* Mutant: a new gap replaces the list.
MutantRecordGapAlone ==
    /\ pc = "gap"
    /\ gaps' = IF Unregistered
               THEN <<[cursor |-> cursor, floor |-> floor]>> ELSE gaps
    /\ pc' = "drain"
    /\ UNCHANGED <<chain, stored, watermark, walk, budget, mine, tool, runs, faults, lost>>

\* Mutant: a new gap goes to the end of the list.
MutantRecordGapLast ==
    /\ pc = "gap"
    /\ gaps' = IF Unregistered
               THEN Append(gaps, [cursor |-> cursor, floor |-> floor]) ELSE gaps
    /\ pc' = "drain"
    /\ UNCHANGED <<chain, stored, watermark, walk, budget, mine, tool, runs, faults, lost>>

\* The gaps of a list that have another floor, in their order.
OtherFloors(list, bound) ==
    LET kept[n \in 0..Len(list)] ==
            IF n = 0 THEN <<>>
            ELSE IF list[n].floor = bound THEN kept[n - 1]
            ELSE Append(kept[n - 1], list[n])
    IN  kept[Len(list)]

\* _record_gap, when the walk did not reach its floor.
RecordGap ==
    /\ pc = "gap"
    /\ gaps' = IF Unregistered
               THEN <<[cursor |-> cursor, floor |-> floor]>> \o OtherFloors(gaps, floor)
               ELSE gaps
    /\ pc' = "drain"
    /\ UNCHANGED <<chain, stored, watermark, walk, budget, mine, tool, runs, faults, lost>>

-----------------------------------------------------------------------------
\* The drain loop, newest gap first, on a copy of the list.

LoadGaps ==
    /\ pc = "drain"
    /\ mine' = gaps /\ budget' = BackfillPages
    /\ pc' = "loop"
    /\ UNCHANGED <<chain, stored, watermark, gaps, walk, tool, runs, faults, lost>>

StartGapWalk ==
    /\ pc = "loop" /\ budget > 0 /\ mine # <<>>
    /\ pc' = "fetch" /\ draining' = TRUE
    /\ floor' = mine[1].floor
    /\ from' = mine[1].cursor /\ cursor' = mine[1].cursor /\ next' = mine[1].cursor - 1
    /\ pages' = budget /\ status' = "end_of_history"
    /\ UNCHANGED <<chain, stored, watermark, gaps, budget, mine, tool, runs, faults, lost>>

PagesUsed ==
    IF cursor < from THEN ((from - cursor) + PageSize - 1) \div PageSize ELSE 1

\* Mutant: a drain that runs out of pages does not move the gap's cursor.
MutantSettleGap ==
    /\ pc = "store" /\ next < cursor /\ draining
    /\ budget' = budget - PagesUsed
    /\ IF status = "truncated" THEN mine' = mine /\ pc' = "idle"
       ELSE mine' = Tail(mine) /\ pc' = "loop"
    /\ gaps' = mine'
    /\ UNCHANGED <<chain, stored, watermark, walk, tool, runs, faults, lost>>

SettleGap ==
    /\ pc = "store" /\ next < cursor /\ draining
    /\ budget' = budget - PagesUsed
    /\ IF status = "truncated"
       THEN mine' = [mine EXCEPT ![1].cursor = cursor] /\ pc' = "idle"
       ELSE mine' = Tail(mine) /\ pc' = "loop"
    /\ gaps' = mine'
    /\ UNCHANGED <<chain, stored, watermark, walk, tool, runs, faults, lost>>

IngestDone ==
    /\ pc = "loop" /\ (budget <= 0 \/ mine = <<>>)
    /\ pc' = "idle"
    /\ UNCHANGED <<chain, stored, watermark, gaps, walk, budget, mine, tool, runs, faults, lost>>

-----------------------------------------------------------------------------
\* register_ingest_gaps: it reads the gap list and the rewards, and writes the
\* list back with a gap for every hole between consecutive rewards.

Rewards == {p \in stored : chain[p].kind = "reward"}

\* Two rewards with no other between them, too far apart.
Apart(lo, hi) ==
    /\ chain[hi].block - chain[lo].block > HoleBlocks
    /\ \A q \in Rewards : q <= lo \/ hi <= q

\* Mutant: the cursor is the reward below the hole.
MutantHoles ==
    {[cursor |-> e[1], floor |-> chain[e[1]].block] :
        e \in {d \in Rewards \X Rewards : Apart(d[1], d[2])}}

Holes ==
    {[cursor |-> e[2], floor |-> chain[e[1]].block] :
        e \in {d \in Rewards \X Rewards : Apart(d[1], d[2])}}

NewHoles == {h \in Holes : \A n \in 1..Len(gaps) : gaps[n].floor # h.floor}

ToolReads ==
    /\ tool = NULL /\ runs < ToolRuns /\ (ToolAlone => pc = "idle")
    /\ NewHoles # {}
    /\ \E found \in [1..Cardinality(NewHoles) -> NewHoles] :
        /\ \A m, n \in DOMAIN found : m < n => found[m].floor < found[n].floor
        /\ tool' = gaps \o found
    /\ runs' = runs + 1
    /\ UNCHANGED <<chain, stored, watermark, gaps, pc, walk, budget, mine, faults, lost>>

ToolWrites ==
    /\ tool # NULL
    /\ gaps' = tool /\ tool' = NULL
    /\ UNCHANGED <<chain, stored, watermark, pc, walk, budget, mine, runs, faults, lost>>

-----------------------------------------------------------------------------
Ingesting ==
    \/ StartIngest \/ FetchPage \/ StoreTx \/ SetWatermark \/ RecordGap
    \/ LoadGaps \/ StartGapWalk \/ SettleGap \/ IngestDone

Faults == StartOutdated \/ RateLimited \/ FetchFails \/ Crash
Tool == ToolReads \/ ToolWrites
Growth == \E b \in 1..MaxBlock : \E k \in KindsAt[b] : Produce(b, k)

Next == Ingesting \/ Faults \/ Tool \/ Growth

\* The scheduler runs the job every tick, for ever; a tool that was started
\* comes to its end.
Spec == Init /\ [][Next]_vars /\ WF_vars(Ingesting) /\ WF_vars(ToolWrites)

-----------------------------------------------------------------------------
TypeOK ==
    /\ chain \in Seq(Tx)
    /\ stored \subseteq 1..Len(chain)
    /\ watermark \in Nat \cup {NULL}
    /\ gaps \in Seq(Gap) /\ mine \in Seq(Gap)
    /\ pc \in {"idle", "fetch", "store", "gap", "drain", "loop"}
    /\ draining \in BOOLEAN /\ floor \in Nat \cup {NULL}
    /\ from \in 1..(Len(chain) + 1) /\ cursor \in 1..from
    /\ next \in (cursor - 1)..(from - 1)
    /\ pages \in Nat /\ budget \in Int
    /\ status \in {"reached_floor", "end_of_history", "truncated"}
    /\ tool \in Seq(Gap) \cup {NULL} /\ runs \in Nat /\ faults \in Nat
    /\ lost \subseteq 1..Len(chain)

\* A transaction is covered when it needs no row, its key has one, or it will
\* be read again: by the next head walk, which goes back to StopBefore, or by
\* the drain of a recorded gap.  Of several rewards in one block the row holds
\* one: the others were read, but their amounts are in no table.  History older
\* than the first page is not claimed.
HasRow(p) == \E q \in stored : SameKey(p, q)
Claimed(p) == chain[p].kind # "other" /\ \E q \in stored : q < p
InGap(p) == \E n \in 1..Len(gaps) : p < gaps[n].cursor /\ chain[p].block >= gaps[n].floor
WillBeRead(p) == StopBefore # NULL /\ chain[p].block >= StopBefore
Forgotten == {p \in 1..Len(chain) : Claimed(p) /\ ~HasRow(p) /\ ~InGap(p) /\ ~WillBeRead(p)}

\* README "ingest", "no outage loses data": whenever the job is not running,
\* every claimed transaction has the row of its key or will be read.
NothingForgotten == pc = "idle" => Forgotten = {}

\* The same up to the one place where it fails: after any sequence of outages,
\* refused pages, outdated answers, stops and runs of the tool, only what a stop
\* between the commits of the watermark and of the gap has lost is forgotten:
\* every other claimed transaction has a row under its key (for a reward: the
\* row of its block, if not its own amount) or will be read.
ForgottenOnlyInTear == pc = "idle" => Forgotten \subseteq lost

\* A newer gap ends where the history of an older one begins, so that the page
\* budget is never spent twice on the same transactions.  (The tool knows only
\* rewards: its gaps may reach into recorded ones.)
GapsDoNotOverlap ==
    runs = 0 => \A m, n \in 1..Len(gaps) :
        m < n => chain[gaps[n].cursor].block <= gaps[m].floor

\* The watermark never moves back, not even on an outdated answer.
WatermarkAdvances == [][watermark # NULL => watermark' >= watermark]_watermark

\* tools/register_ingest_gaps.py: a hole of more than 60 blocks between
\* consecutive rewards is registered, "holes with floors already present [...]
\* are skipped".  Once the tool has written, nothing that was forgotten inside
\* such a hole stays forgotten, unless a gap with the hole's floor had been on
\* the list and lies below it.
InHole(p) ==
    \E lo, hi \in Rewards :
        /\ lo < p /\ p < hi /\ Apart(lo, hi)
        /\ \A n \in 1..Len(gaps) : gaps[n].floor = chain[lo].block => p < gaps[n].cursor
ToolRepairs ==
    [][tool # NULL /\ tool' = NULL => \A p \in Forgotten' : ~InHole(p)]_vars

\* Every claimed restake gets its row in the end, and every block with a claimed
\* reward the row of one of its rewards, however many pages the head walk was
\* short of, unless a stop lost it.
EverythingArrives ==
    \A p \in 1..MaxTxs :
        (p <= Len(chain) /\ Claimed(p)) ~> (p \in lost \/ (p <= Len(chain) /\ HasRow(p)))
=============================================================================

# Verification of the staking rewards tracker

TLA+ models of `src/tracker` (the Nimiq staking rewards tracker), checked with
TLC and, where a theorem is listed, proved with TLAPS. File names below are
relative to the repository; `jobs.py` and `db.py` are in `src/tracker`.

The tracker watches one validator. It stores the validator's coinbases and
outbound payments, polls the stakers' balances, cuts the payout history into
*cycles* (one payout batch each) and says of every cycle whether the operator
paid what the stakers earned: `VERIFIED`, `MISMATCH` or `SKIPPED`. Two things
make that hard: the verdict is arithmetic with a memory (a balance carried from
cycle to cycle, fees, tolerances, floors), and it is computed by four jobs that
commit statement by statement and can fail or be stopped between any two.

## The system

One process, two threads. `main.py:19-40` runs a scheduler thread: an endless
loop that calls, per tick, `run_snapshot`, `run_ingest`, `run_cycle_close` and
`run_verify`, each in its own `try`, so a job that raises ends and the next one
still runs. The other thread serves the read API, each request on a thread and a
connection of its own. `tools/register_ingest_gaps.py` is a separate process run
by hand, `tools/epoch_stats.py` one run by cron under a file lock. All share one
SQLite file; every writing method of `db.py` commits on its own, so the unit of
atomicity is the method, and a request that needs two SELECTs reads two states.

| component | state | operations | who it talks to | correct when |
|---|---|---|---|---|
| transaction ingest (`jobs.py:91-145, 363-495`) | `rewards`, `restake_txs`, `meta.ingest_watermark_block`, `meta.ingest_gaps` | head walk, store, watermark, record a gap, drain gaps | explorer (pages, HTTP 429, outdated nodes); its rows feed the close | every transaction of the claimed history is read and has the row of its key; gaps do not overlap; the watermark never goes back |
| gap tool (`tools/register_ingest_gaps.py`) | the same gap list | scan rewards for holes, append gaps | races with ingest | what was forgotten inside a hole is registered |
| staker snapshots and retention (`jobs.py:266-361`) | `staker_snapshots`, `validator_snapshots`, `meta.retention_last_ms` | two requests, one row per staker, tombstones, thinning | validator API; its rows are the weights of the close | rows tell what the stakers had; a complete poll settles; thinning loses no hour |
| payout batch scan (`db.py`, `next_restake_batch`) | none, reads `restake_txs` | `next_restake_batch` | called by the close | windows hold one batch each, whole, and every row is reached |
| cycle close (`jobs.py:497-1032`) | `cycles`, `cycle_shares`, `staker_rewards` | open, skip, judge, surface reasons, credit, catch-up loop | reads everything above | windows tile the history; verdicts are final; the ledger holds exactly the OK lines |
| carried balance, "Check 1" (in `_verify_and_close`) | `cycles.carry_luna`, `cycles.fee_carry_luna` | owed, carry, cycle-level flags | the chain of predecessors | nothing withheld or overdrawn hides behind `VERIFIED` |
| share check, "Check 2" (in `_verify_and_close`, `_is_ok`) | `cycle_shares` | classify, attribute, weight, pot, tolerances, drift | snapshots, epoch-start poll | accepts honest payouts, accepts only fair ones, flags the right line |
| verify (`jobs.py:1011-1032`) | `staker_rewards` | credits the newest judged cycle again | cycle close | no amount on the ledger changes (times and hashes are written anew); repairs an interrupted credit loop |
| epoch-start weights (`jobs.py:221-258`, `db.py:442`) | memo per epoch, lost in a restart | date the epoch's start, pick a poll, remember it | rows of ingest and snapshots; asked by the share check | whoever weighs was staked at one poll near the start; nobody is missing |
| read API (`api.py`) | none | list and detail queries, pages by cursor | reads between two commits of the close | a closed cycle is answered with its final lines; pages fit together |
| epoch statistics (`tools/epoch_stats.py`) | `epoch_stats`, `meta.epoch_boundary*`, `meta.epoch_stats_upto_*` | find the boundary, choose epochs, walk with a budget, save | node RPC (pruned history, missing answers), `rewards` | no block counted twice or skipped; closed epochs get finished |
| scheduler (`main.py`), configuration (`config.py`), migrations, container files | settings | | | |

What is hard here, and where it bites, is listed with source lines under
`hazards` in `PROJECT.json`: a stop between two commits of one job, retries of a
half-written close over data that has changed, outdated or truncated answers,
page budgets, fetch windows that cut a batch, deletes by retention that change
what "latest" means, and a dozen tolerances that overlap.

## Modules

| module | models | state and actions |
|---|---|---|
| `CarryRule` | Check 1's arithmetic and the three ways a window closes | operators only |
| `CarryChain` | the chain of closes, one close per step | `prev`, `status` are the last closed row; `owedTotal`, `paidTotal`, `feeBalance`, `forgiven` are history, read by properties only |
| `WindowVerdict` | Check 2 of one window | operators only |
| `WindowJudgement` | one judgement of one window, with the promises of Check 2 | `window` is the one under judgement, `stored` its rows in `cycle_shares`, `verdict` the outcome |
| `CycleClose` | `run_cycle_close`, `_open_pending_cycle`, the writes of `_verify_and_close`, `run_verify`; one commit per step | `cycles`, `shares`, `ledger` are the tables; `pc`, `current`, `rounds`, `written`, `todo` the tick's position, lost in a crash; `feed[b]` what the verifier computes from the rows and snapshots of window `b` |
| `CycleCarry` | refinement: `CycleClose` implements `CarryChain` | state of `CarryChain` read off the `cycles` table; its history is kept in `owedTotal`, `paidTotal`, `feeBalance`, entered when `close_cycle` commits and read by no step |
| `RestakeBatch` | `DB.next_restake_batch`, one pass of its loop per step, called for opener after opener while rows arrive in order or through a drained gap | `table` is `restake_txs`, `behind` the rows of a gap, `ends` the closed windows, `start` the fetch |
| `Ingest` | `run_ingest`, `walk_transactions`, `_record_gap`, the drain loop, the gap tool; one page or one commit per step | `chain` is the explorer's history, `stored`, `watermark`, `gaps` the tables, the rest is the running job's |
| `Snapshot` | `run_snapshot`, `_maybe_retention`; one answer or one commit per step | `pool` is the chain's truth, `rows`, `record`, `thinned` the tables |
| `EpochStart` | extends `Snapshot` by `_epoch_start_balances` for one epoch | `first` is the row that dates the epoch, `memo` the cache, `answer` what a close was just told; `seen` is history |
| `EpochStats` | `tools/epoch_stats.py`; one batched request, or the statements between two, per step | `boundary`, `current`, `upto`, `rows` are its tables; `written` what is not committed; `top`, `todo`, `left`, `h`, ... the run's locals |
| `ReadApi` | extends `CycleClose` by a client; one SELECT per step | `request` is the open or last answered request |
| `MC...` | instances for TLC: window data, symmetry, the windows enumerated | |
| `CarryRuleProofs`, `CarryChainProofs`, `WindowJudgementProofs`, `RestakeBatchProofs`, `IngestProofs`, `SnapshotProofs` (with `EpochStart`), `EpochStatsProofs` | theorems about the module they are named after | |
| `CycleProofs` | theorems about `CycleClose`, `CycleCarry` and `ReadApi`, in this order | |

How they meet: `CarryRule` is the arithmetic of both `CarryChain` and
`CycleClose`. `MCCycleClose` gives `CycleClose` a pool of windows whose totals,
lines, drift and coverage are *computed* by `WindowVerdict` from rows and
snapshots, so the close protocol runs on real verdicts. `WindowJudgement` is the
same judgement in one step, for windows of any size; `MCWindowVerdict` gives it
the windows the bot and its mistakes produce. `CycleCarry` shows that
what the protocol leaves in the table is the chain `CarryChain` promises: the run
`cycle_close` is an instance of it (`MCCycleCarry` adds the history to
`MCCycleClose`), so all its properties are checked together.
`ReadApi` and `EpochStart` add a reader to the module whose tables it reads:
every step of the writer, every crash included, can fall between two reads.

### What is abstracted

- Addresses, hashes and messages are model values; wording of reasons is one
  Boolean ("has this line a reason?"). `held_luna` is left out: only 0 is ever
  written to it.
- `CycleClose` counts blocks in payout batches and takes a window's data as one
  value. `Revise` changes the data of a window that is still open, which is what
  a late row or snapshot does. Times are not modelled there.
- `Ingest` reads and writes the gap list in one step in `_record_gap`, and the
  tool's two SELECTs are one step. In the drain loop the copy (`mine`) is
  separate, as in the code. An outdated explorer answer is behind by a page at
  most. Only the reward, restake and other kinds of transactions are told apart.
- The explorer of `Ingest` answers full pages except at the end of the history,
  and one block holds fewer transactions than the head walk reads
  (`BlockTxs < HeadPages * PageSize`; 600 in the code).
- A row of `rewards` is keyed by its block and replaced (`db.py:42`, `:475-480`):
  `StoreTx` drops the stored reward of the same block (`SameKey`), and the
  instance has two rewards in a block. Amounts are not modelled, only whose they
  are. Keys of restakes hold their hash, so theirs are never replaced.
- A credit of `CycleClose` is a staker, a block and an amount. `ts_ms` is the
  clock's at every insert and `tx_hash` the freshest one, so each verify changes
  them (`jobs.py:1026`) and the API shows the change (`api.py:428`); both are
  left out.
- A `Snapshot` balance is above zero or not, and time is counted in polls.
- `RestakeBatch` has the gap's rows but not the gap list: `FallBehind` and `Drain`
  are what `Ingest` does to the rows of one wallet.
- `EpochStart` looks at one epoch. Polls, ingest and close are jobs of one thread,
  so it is asked between two polls only.
- `EpochStats` numbers blocks from the first of epoch 0 and counts micro blocks;
  `produced` is counted in the same place by one more condition.
- `ReadApi` has one request at a time; requests read only and cannot meet.
- Parts per million, the precise share and the tolerances are scaled down in the
  instances; the theorems are about every value.

## Runs

Deadlock is checked where the system never stops (`cycle_close`, `read_api`,
`restake_batch`, `batch_cut`, `epoch_stats`); the other instances stop at their
bounds.

### Runs that pass

| run | instance | shows |
|---|---|---|
| `carry_chain` | three closes from a pool of windows that withhold, overpay, draw fees, have no income or no baseline; a quarter fee, deposit kept | under `VERIFIED`, everything owed and unpaid is within the limit and all withdrawals are within all entitlements; `VERIFIED` rows can be re-added; a withheld balance stays flagged |
| `window_verdict` | some 40,000 windows: each mode, with and without election weights, every combination of a mistake per staker, strays, joiners, unnamed payouts, departures | the reference bot's payout is never accused; an accepted window is fair between any two stakers; every luna is credited or, in delta mode, held by a newcomer; a shorted staker among at least three honest ones is the one flagged; strays are visible; named payouts never drift |
| `cycle_close` | three batches drawn from honest, skimmed, degenerate and unseen windows, one fault and one data change anywhere, two closes per tick | windows tile; the ledger is backed and complete; stored rows are the verdict's; nothing of a `SKIPPED` cycle shows; verdicts and the amounts of credits are final; the backlog drains; the carry chain is implemented |
| `read_api` | the same scheduler on skimmed and unseen windows, one fault; a client that asks for any cycle's shares, or pages any list by one or two rows | a closed cycle is answered with all its lines and their final results; a walk over pages misses nothing that was there when it began, and what it shows is one history |
| `ingest` | pages of two, two head pages, one drain page, six transactions in up to four blocks, two faults or stops anywhere, one run of the gap tool | nothing is forgotten but what a stop between two commits keeps out of the gap list, and of that the tool registers what lies in a hole of rewards; gaps do not overlap, the watermark advances, everything else arrives: a restake as a row, a reward at least as the row of its block |
| `restake_batch` | fetches of three blocks over seven, five rows that arrive while windows close, in order or, up to two of them, through a gap | no window closes on two batches, every window ends on its own row, a batch inside one fetch is closed whole, every row is reached |
| `snapshot` | four polls of two stakers around an epoch's start, two changes, one truncated answer or abort, thinning in buckets of two polls, one restart | no fake unstake; complete polls settle; thinning keeps every hour; the epoch's weights are stakers of one poll, and all of them if nothing failed |
| `epoch_stats` | epochs of two batches of two blocks, a chain of eleven, a budget of two requests, one epoch of lookback, any pruning, one unreadable answer or death | every count is exact however the runs were cut; every closed epoch the node still has gets finished |

Where a property is conditional, the condition is the code's own limit:

- `ForgottenOnlyInTear` and `EverythingArrives` allow for `lost`, what a stop in
  phase `gap` kept out of the gap list; `ingest_crash` shows that it happens.
- `ForgottenOnlyInTear` and `EverythingArrives` ask for the row of a transaction's
  key (`HasRow`). For the second reward of a block that is the row of the first:
  neither is read again, and the amount of the one is in no table.
- `EveryLunaTraced` does not say that every luna is credited: what newcomers hold
  in delta mode is credited to nobody, in a `VERIFIED` window too (Guard 3,
  `jobs.py:809-813`; `test_verify.py:574-608` expects that). With named payouts
  there are no newcomers, and all of it is credited.
- `CreditsStay` is about amounts, see above.
- `GapsDoNotOverlap` is claimed until the tool has run: its gaps are cut by
  rewards, not by the walks.
- `EndsBatchWithinFetch` is claimed when the fetch reaches past the batch, in
  blocks and in rows; `batch_cut` shows what happens otherwise.
- `LedgerComplete` is claimed for one fault. A second fault in the next tick's
  verify job leaves a cycle uncredited for good, because `run_verify` looks at
  the newest judged cycle only.
- `RowsMatchVerdict` is claimed while no data changed between attempts
  (`revisions = 0`): the run `stale_lines` shows what happens otherwise.
- `ClosedAnswerIsFinal` is about answers that show a closed cycle. One that shows
  `PENDING` may carry any part of the lines, those of an interrupted attempt too.
- `RowsTellTruth` is claimed when the validator record counts no fewer stakers
  than the list should hold. Without a record the code has nothing to tell a
  truncated list by.
- `UndisturbedIsComplete` needs the epoch's true start on record and its first
  poll younger than the retention; `epoch_ladder` shows that it needs the poll
  to be undisturbed.
- `ClosedEpochsAreFinished` exempts epochs without a row behind an older one that
  can no longer be finished (`InTheWay`).
- `CountsAreExact` lets a row's `end_block` lie past what was counted where the
  node has lost the blocks in between (see "Known limits" for how that happens).
- `AcceptedIsFair` measures the tolerance against the pot of the split. The pot
  is not the sum of the payouts: it follows the median when some are off.
- `OneShortedIsFlagged` needs three precise shares besides the shorted one.
- `ToolRepairs` is claimed with the tool alone (`ToolAlone`): with ingest
  running in between, the tool writes back a list it read before. It exempts a
  hole whose floor is on the list already, for what lies at or above that gap's
  cursor (`InHole`): the tool skips such a hole even when the gap on the list
  covers its lower part only (`register_ingest_gaps.py:15-16`). An instance of
  this size does not meet that case; the proof did.
- In `ReadApi` a walk begins without a cursor (`NoCursor`), and the query then has
  no condition on the place, as in `db.py:589-603`.

### Runs that fail, and what the code does there

| run | what a document says | what the code does |
|---|---|---|
| `ingest_crash` | `README.md:33` "no outage loses data" | the watermark is committed before the gap (`jobs.py:456`, `:460`); a stop in between forgets the stretch below the page budget |
| `stale_lines` | `README.md:77` "VERIFIED: every line OK" | lines of an interrupted attempt are not cleared before a judged retry (`jobs.py:908`); a failing line can stay on a `VERIFIED` cycle |
| `batch_cut` | `db.py:720` "the first complete restake batch" | the scan expands only if a fetch holds 2000 rows up to its last block (`db.py:771`); any other batch across the fetch's edge is returned without its rest, which becomes the next window |
| `epoch_ladder` | `jobs.py:223` "A staker absent from that poll was not staked at epoch start" | a truncated or aborted poll is a poll like any other (`jobs.py:249`), and is memoized; whoever it lacks weighs nothing for the epoch |

### Known limits

Met while modelling, reproducible by changing the instance named, and not runs
of their own:

- A burst that is still being ingested is closed as far as it is on record, and
  the rest becomes the next window (`db.py:771`; `RestakeBatch`, `Arrive` after
  `Found` within `Gap`). The scheduler ingests before it closes, so it takes a
  burst that is not over when the tick begins.
- A row that a gap delivers behind a closed window is in no verdict
  (`jobs.py:515`; `RestakeBatch`, `Drain` below `Opener`).
- Two coinbases in one block leave one row, with the amount of the one that was
  stored last (`db.py:477`; `Ingest`, `StoreTx`); the income of the window lacks
  the other. No document says how many a block may hold.
- With three measurable stakers of whom one is paid nothing, two implied pots
  are left, the median is not used and the two who were paid are flagged
  (`jobs.py:875`; `WindowVerdict`, `Split`), against `README.md:68`.
- Thinning can delete a tombstone that shares its hour with an earlier row, so a
  departed staker is shown as staked until the next complete poll (`db.py:847`;
  `Snapshot`, `Thin`). `/summary` counts tombstoned stakers in `num_stakers`.
- A stop before the cycle-level reasons leaves a `MISMATCH` without a reason
  (`jobs.py:990`; `CycleClose`, `SurfaceReason`).
- The epoch collector stops at an older epoch it can no longer finish before it
  begins newer ones that have no row (`epoch_stats.py:217-229`, "newest first"
  in line 21); an epoch that is counted to its end before its last rewards are
  ingested keeps a `reward_sum` that is too low (line 312 "this column is
  complete").
- A row of the epoch collector can look complete and not be. On a node whose
  history begins inside the current epoch, the first block it has is taken for
  the epoch's start (`epoch_stats.py:100`) and counted from. The next epoch's
  boundary moves the row to its true start (line 213), the walk resumes at the
  stored height, and the row ends as a whole epoch (line 321) whose first blocks
  nobody counted, against lines 21-23 "a closed epoch is complete when end_block
  == start_block + 43,199". On the instance of `epoch_stats`,
  `rows[e].end = rows[e].start + EpochBlocks - 1 => rows[e].micro =
  Micros(rows[e].start, rows[e].end)` fails after two runs. Likewise, a start that
  is corrected may leave `end_block` past the resume point, by blocks that the
  node has lost.

### Why the bounds are enough

Each run's bound is the smallest at which every case of the code occurs more
than once, and every action fires. Three closes give a carry a predecessor and a
successor, with a `SKIPPED` or degenerate row in any position. Three batches let
a window be bounded by a later one while a third arrives; one fault at every
commit of every one of them covers each "stop between". Six transactions
exceed the head walk's budget of four, and two faults make two gaps exist at
once, the least for overlap and order to matter. Five rows over seven blocks with
fetches of three let a batch straddle, fill or miss a fetch, with a gap of two
behind it. Four polls with buckets of two give a bucket an old and a new row, a
tombstone and a re-appearance, and an epoch's start a poll before it and two in
its window. Four cycles in pages of one or two need two to four pages, each with
two SELECTs, and three closes can pass between them. Eleven blocks hold two whole
epochs and most of a third, each two requests long: the budget runs out in every
epoch, the current epoch can use it up, and the start of an epoch can be found
late, corrected by the next one and used once more. (At ten blocks the last step
does not happen.) One fault is enough for
liveness, which is claimed when faults have ended; for the counts the theorem
covers any number.

### Fairness

`main.py` calls the jobs in an endless loop, so a job that can take its next
step does: weak fairness of `Scheduler` in `CycleClose` and of `Ingesting` in
`Ingest`. The scan is called every tick and returns within it: weak fairness of
`Scan \/ Call`. A started tool ends: weak fairness of `ToolWrites`. Nothing is
assumed of the outside: payouts may stop, data may stay away, and faults are
bounded, not fair. Cron starts a collector again when the last one has ended, and
a run works through its list: weak fairness of `Collecting`. `CarryChain`,
`Snapshot`, `EpochStart` and `ReadApi` make no liveness claim.

## Proofs

Assumptions on the constants are the `ASSUME`s of the modules
(`CarryConstants`, `WindowsAssumption`, `MaxCyclesAssumption`, `CloseConstants`,
`VerdictConstants`, `WindowsAreTyped`, `ApiConstants`, `BatchConstants`,
`SnapshotConstants`, `StatsConstants`, `FeePaidAssumption` and those of `Ingest`):
naturals for limits (the code does not check its settings), `NULL` not a number or a row,
windows as the database stores them (finitely many addresses, no negative
amounts), a chain older than the lookback, and no fee withdrawals when no operator
address is registered (cited by the refinement only). Nothing is assumed about
the pool of windows, the number of closes, rounds per tick, faults or revisions.

`CarryRuleProofs`. The fee is any integer, as in `config.py:126`.
`OwedIsPartOfIncome` says which ones make sense: stakers and operator get a part
of every window's income exactly if the fee is between 0 and a million. It rests
on two facts on integer division (`PartOfWhole`, `WholeOfWhole`). Nothing else
needs the fee's range: with any fee, owed amounts are integers (`OwedTypes`), and
the theorems about the chain hold of what the code then calls owed.

`CarryChainProofs`. The properties of `carry_chain` are not inductive: they
speak of totals, the steps of carries. `LedgerFacts` adds the link: with a known
baseline the stored carry is at least what was owed minus what was paid (a close
only ever drops negative carries), it is within the limit when the row is
`VERIFIED`, and the fee carry is the fee balance plus what was forgiven.
`TypeOK /\ LedgerFacts` is inductive (`StepIInv`), and `SkimCannotHide`,
`OperatorWithinEntitlement`, `VerifiedRowsAddUp`, `FlagPersists` and
`NeverOverdrawn` follow from it.

`WindowJudgementProofs`. `JudgementInv` says that what is stored is what the
window's own lines give, so each property is a fact about the operators. They
speak of sums over sets of any size. A sum's value is what its recursion gives
(`SumRecursion`), and facts about all sets follow by induction with a set of sets
as the induction hypothesis (`InductionOnSet`, `SetInduction`): sums split, add
up over disjoint sets and are bounded by their members (`SumUnion`,
`SumRemove`, `SumMember`).
  - `NamedPayoutsNeverDrift`: the rows are cut up by payee (`PaidByRows`), payees
    are stakers at open or joiners, so credits, joiners and strays add up to
    `paid_out` (`NamedAddUp`).
  - `StrayIsVisible`: the last line of an address is the one that stays
    (`LastIsStored`), and the strays' lines come last (`LineParts`).
  - `EveryLunaTraced`: when every line is OK there are no joiners, strays or
    departures, so what is left unaccounted is what newcomers hold
    (`AcceptedCredits`, `NewcomersHold`).
  - `AcceptedIsFair`: an OK line is within the tolerances of
    `weight * pot \div sum` (`OkIsClose`), and a staker's claim is multiplied by
    the other's stake (`FairToBoth`). That the pot is a natural number takes the
    median to be one of the implied pots or the middle of two (`NthIsValue`,
    `PotIsNat`).

`CycleProofs`, cycle close. `WindowsTile` and `LedgerBacked` talk about tables only, but
what keeps them true is where the tick is. `IInv` adds: `Ordered` (closed blocks
grow with ids, so a block names one cycle), `Keyed` (one row per cycle and
staker), `SkippedShowsNothing`, and `Control` (while lines are written the newest
cycle is pending; while credits are written the current cycle is judged and
`todo` holds its OK stakers; a cycle is opened only when none is pending). The
step lemma is split by what an action touches: `OutsideSteps`, `ControlSteps`,
`ShareSteps`, `CycleSteps`, `CreditSteps`. `TypeOK`, `WindowsTile`,
`LedgerBacked`, `SkippedCreditsNothing`, `CreditsStay` and `VerdictsAreFinal`
follow; `StepsKeepVerdicts` is the step part of the last one.

Two properties need more than `IInv`. `LedgerComplete` allows one fault anywhere,
so it must know when the newest judged cycle is paid: `Settled` says that without
a fault it is, whenever no close is at work on it, and that after one fault the
verify job has repaired it before the next cycle is judged. `RowsMatchVerdict`
speaks of judged cycles only, but its proof follows the retries: `Verbatim` says
that rows left by a failed attempt belong to stakers that have a line, and that
this attempt has replaced those of the lines it has written (`Written`).

`CycleProofs`, refinement. `ImplementsCarryChain`: every step of `CycleClose` with the
history is a step of `CarryChain` or a stutter. `Spread` bounds the number of
closed cycles by the batches (the chain's `MaxCycles`), and `Judgeable` keeps the
choice between a judged and a degenerate close valid from the moment it is made
to the moment it is committed, lines and failures later. A degenerate, a SKIPPED
and a judged close each map to the chain's action of that name; every other
commit leaves the last closed row, its limit and the count alone. The chain's
theorems therefore hold of the tables: `TablesHideNothing`, `TablesAddUp`.

`RestakeBatchProofs`. What a scan has passed over decides whether the next batch
is right: `Scanned` says that between the opener and `start` there is no row
(`Untouched`), or that `start` is a row and all rows of the window so far are
within the gap of each other (`OneBatch`). With a sorted table (`Sorted`, kept by
arrivals and by a drain's insertion) that is inductive. `SpanIsOneBatch` turns it
into the statement about the row that a fetch answers with, from which
`WindowsAreOwn`, `NeverMerges` and `EndsBatchWithinFetch` follow for any gap,
fetch limit and outages.

`IngestProofs`. That nothing is forgotten is a matter of every transaction being
in somebody's hands (`AllSafe`): on record under its key, in a gap, above the watermark, torn by a
stop (`lost`), or, between the commits of the watermark and of the gap, known to
the running job alone (`Pending`). `Reached` says which ones must be. Around it:
what a walk has read and why it ended (`Walked`), the floor of a head walk
(`HeadWalk`), that a drain serves the newest gap of a list nobody else writes
(`Drain`), what the tool has read (`Registering`), and that gaps lie below each
other (`Stacked`). The theorems assume `ToolAlone`, like the run: the tool is not
run while the job is, which nothing in the code prevents. They hold for any history, page sizes, budgets and faults.

`SnapshotProofs`. `PollInv` ties the rows to the point a poll has got to: what is
written so far are the listed addresses that are not left to do, then zero rows of
the others. `CompletePollSettles`, `RowsTellTruth` and `ThinningKeepsHours` follow.
`LadderInv` adds `seen`, the stakers of each poll: staked rows are of stakers seen
then (`SeenInv`), an undisturbed first poll of the epoch stays on record as long
as it is young (`Settled`), and what a close was told or the memo holds fits one
poll (`ToldInv`). `WeighedWereStaked` and `UndisturbedIsComplete` follow.

`CycleProofs`, read API. `IInv` stays true under a client that only reads.
`ClosedAnswerIsFinal`, for any page size: `ShownStays` says that a closed row,
once read, is still the row of its cycle, and that lines read after it show its
results; `StepsKeepVerdicts` carries this over the writer's steps between the two
reads. `WalkTellsOneHistory`: `Walked` says that a walk that has come down to
`before` has seen every entry of its start from there on, and that what it saw is
still true. Entries never leave a list (`EntriesStay`), have places of their own,
finitely many (`EntriesFacts`), and a page takes them from the top without a gap
(`PageFacts`); a PENDING cycle is the newest, so nothing above it was seen.

`EpochStatsProofs`. A row is exact (`Exact`) if its count lies between the micro
blocks of the epoch up to its resume point and those that the node still has up to
its end. What makes that inductive: `BoundaryInv`, the start taken for the current
epoch is its first block or a block the node had nothing below of (so every
older start is late only by lost blocks, `Starts`, and no epoch's end is passed by
a readable block, `Ends`); `RunInv`, the list holds no epoch twice and what is
not committed is of an epoch no longer on it, so a walk begins with the row on
record; and `WalkInv`, the walk has counted what lies between its begin and the
next block, and where it has counted anything the row ended just before it.
`CountsAddUp` joins two counts, `SavedWalk` and `SavedAgain` are the two rows that
`Save` writes, and `NewestFirstIsTodo` and `TodosJoin` are what a run needs to
know of `epochs_to_do`. Pruning only lowers what must be counted
(`PruningKeepsExact`). `CountsAreExact` is one conjunct of the invariant.

What the attempts found. `CountsAreExact` was once stated with the resume point
equal to `end_block`; that is false from eleven blocks on, and was not seen at ten.
`AcceptedIsFair` was once stated with the tolerance of the payouts' sum, which
the median can exceed. Windows in delta mode had balances below zero at first,
which no snapshot holds; `WindowsAreTyped` excludes them.

Only model-checked: liveness (`BacklogDrains`, `EverythingArrives`,
`RowsAreReached`, `ClosedEpochsAreFinished`; fairness is out of the prover's
reach), and `HonestPayoutOk` and `OneShortedIsFlagged`, which compare the verdict
with the payout of a bot that is no part of this repository. `OneShortedIsFlagged`
is no statement about every setting: the five lunas it calls too little are more
than the line tolerances of its instance allow, and other settings may allow them.

## Not modelled

- The single-read answers of the API (`/health`, `/summary`, `/stakers`,
  `/epochs`), path parsing, HTTP and JSON: nothing they hold is related to
  anything else.
- Hash comparison, the deposit derivation, `produced`: data that no control
  depends on.
- Reading the environment, migrations, the connection per thread, the container
  files: no behaviour of their own.
- Times in `CycleClose`: the wall clock as `opened_at_ms` (`jobs.py:697`) and a
  snapshot in the middle of a burst (`jobs.py:715`) need chain time, poll time
  and block order in one model, and with the close's own steps that is out of
  TLC's reach; what they can do to a window's data is what `Revise` does.
- A statement that fails inside a transaction (`db.py:659`).

## Still to prove

`HonestPayoutOk` for every pot: a share that is floored twice differs by less
than the line tolerances if the precise shares bound the error of the pot, which
is an estimate over quotients that has not been tried. `Snapshot` and `EpochStart`
have no claim about times in `CycleClose`, so `EpochStart` is not yet shown to
supply the weights that `WindowVerdict` takes as an input.

----------------------------- MODULE EpochStart -----------------------------
(***************************************************************************)
(* Who weighs in an epoch with election weighting (tracker/jobs.py:        *)
(* _epoch_start_balances; tracker/db.py: first_reward_ts_in_range,         *)
(* first_restake_ts_in_range, staker_poll_rows), composed with the polls   *)
(* that fill staker_snapshots (Snapshot).  One epoch; its first stored     *)
(* reward, or restake when there is none, dates its start.  Polls, ingest and close are jobs of *)
(* one thread, so the question is asked between two polls only.            *)
(***************************************************************************)
EXTENDS Snapshot

CONSTANTS
    Start,          \* time of the epoch's first block
    Window,         \* election_snapshot_window_ms in polls
    MaxRestarts     \* bound on restarts between two jobs

ASSUME EpochConstants ==
    /\ Start \in Nat \ {0} /\ Window \in Nat \ {0} /\ MaxRestarts \in Nat

VARIABLES
    first,      \* earliest stored reward in the epoch's blocks, else restake
    memo,       \* the epoch's entry in _election_bal_cache
    answer,     \* what a close was just told
    restarts,
    seen        \* history: who was staked when a poll's list was answered

ladder == <<first, memo, answer, restarts>>
ladderVars == <<vars, ladder, seen>>

Staked == {a \in Addrs : pool[a] = "staked"}

\* The close used its answer.
Nothing == [kind |-> "none", staked |-> {}, from |-> NULL]

LadderInit ==
    /\ Init
    /\ first = NULL /\ memo = NULL /\ restarts = 0
    /\ answer = Nothing
    /\ seen = [t \in 1..MaxPolls |-> {}]

\* A poll, as Snapshot has it.
PollStep ==
    /\ Next
    /\ seen' = IF pc = "list" /\ pc' = "write" THEN [seen EXCEPT ![now] = Staked] ELSE seen
    /\ answer' = Nothing /\ UNCHANGED <<first, memo, restarts>>

\* A row of the epoch is stored; one that a gap held back may be older than the
\* earliest so far, and the first reward counts before any restake.
StoreInEpoch(kind, t) ==
    /\ pc = "idle" /\ t <= now
    /\ first # NULL => IF kind = first.kind THEN t < first.at ELSE kind = "reward"
    /\ first' = [kind |-> kind, at |-> t]
    /\ answer' = Nothing /\ UNCHANGED <<vars, memo, restarts, seen>>

\* What dates the epoch's start.
Anchor == IF first = NULL THEN NULL ELSE first.at

PollsIn(lo, hi) == {t \in lo..hi : \E r \in rows : r.at = t}
StakedAt(t) == {r.addr : r \in {q \in rows : q.at = t /\ q.staked}}

\* Mutant: everyone with a row in the window, joiners of its later polls too.
MutantEarliestPoll(T) == UNION {StakedAt(t) : t \in T}

\* staker_poll_rows: the stakers of one poll.
EarliestPoll(T) == StakedAt(CHOOSE t \in T : \A u \in T : t <= u)
LatestPoll(T) == StakedAt(CHOOSE t \in T : \A u \in T : u <= t)

Told(kind, staked) == [kind |-> kind, staked |-> staked, from |-> Anchor]

\* Mutant: the window's last poll.
MutantWeights(history) ==
    LET after == IF Anchor = NULL THEN {} ELSE PollsIn(Anchor, Anchor + Window - 1)
    IN  IF after # {} THEN Told("definitive", LatestPoll(after))
        ELSE IF ~history THEN Told("wait", {}) ELSE Told("none", {})

\* The first poll in the window after the start; before there is one, the close
\* waits at the live head, and the last poll before has to do for history.
Weights(history) ==
    LET after == IF Anchor = NULL THEN {} ELSE PollsIn(Anchor, Anchor + Window - 1)
        before == IF Anchor = NULL THEN {} ELSE PollsIn(Anchor - Window, Anchor - 1)
    IN  IF after # {} THEN Told("definitive", EarliestPoll(after))
        ELSE IF ~history THEN Told("wait", {})
        ELSE IF before # {} THEN Told("fallback", LatestPoll(before))
        ELSE Told("none", {})

\* _epoch_start_balances, for the close of a window that lies in history or not.
\* Only a definitive answer is remembered.
Ask(history) ==
    /\ pc = "idle" /\ now >= Start
    /\ answer' = IF memo # NULL THEN memo ELSE Weights(history)
    /\ memo' = IF answer'.kind = "definitive" THEN answer' ELSE memo
    /\ UNCHANGED <<vars, first, restarts, seen>>

\* The process restarts between two jobs.
Restart ==
    /\ pc = "idle" /\ memo # NULL /\ restarts < MaxRestarts
    /\ restarts' = restarts + 1 /\ memo' = NULL
    /\ answer' = Nothing /\ UNCHANGED <<vars, first, seen>>

LadderNext ==
    \/ PollStep
    \/ \E kind \in {"reward", "restake"}, t \in Start..MaxPolls : StoreInEpoch(kind, t)
    \/ \E history \in BOOLEAN : Ask(history)
    \/ Restart

LadderSpec == LadderInit /\ [][LadderNext]_ladderVars

-----------------------------------------------------------------------------
\* db.py "a single poll is the ladder state at that moment; a staker who first
\* appears in a LATER poll of the window joined after it": whoever weighs was
\* staked at one and the same poll, whatever the polls lost, the retention has
\* deleted, or an older row of the epoch that came in later has moved.
WeighedWereStaked ==
    answer.staked # {} => \E t \in 1..MaxPolls : answer.staked \subseteq seen[t]

\* When nothing failed, the epoch's start was on record and its first poll left
\* rows that are too young to be thinned, the weights are the stakers of that
\* poll, all of them, whenever they are asked for.
UndisturbedIsComplete ==
    /\ faults = 0 /\ (Retention > 0 => now <= Start + Retention)
    /\ answer.kind = "definitive" /\ answer.from = Start /\ seen[Start] # {}
    => answer.staked = seen[Start]

\* jobs.py:223 "A staker absent from that poll was not staked at epoch start ->
\* weight 0."
AbsentWasNotStaked ==
    answer.kind = "definitive" => \E t \in Start..MaxPolls : seen[t] = answer.staked
=============================================================================

--------------------------- MODULE WindowVerdict ---------------------------
(***************************************************************************)
(* Check 2 of the verifier (tracker/jobs.py, _verify_and_close): which of  *)
(* a window's outbound rows are payouts, what each staker got, what it     *)
(* should have got, the share lines that are stored and the drift check.   *)
(* Constant-level operators: WindowJudgement judges a window with them and *)
(* MCCycleClose feeds them to the close protocol.                          *)
(*                                                                         *)
(* A window w is a record:                                                 *)
(*   rows       Seq of [to, amount, staker]: its restake_txs, block order  *)
(*   before     address -> balance in its last snapshot at or before open  *)
(*   after      address -> balance in its first snapshot after the open    *)
(*              and not beyond the close bound                             *)
(*   epochStart address -> balance in the epoch-start poll, or NULL when   *)
(*              there is no poll to use                                    *)
(*   payoutMode PAYOUT_MODE, "restake", "transfer" or "any"                *)
(*   elects     is the window's epoch one from ELECTION_FROM_EPOCH on?     *)
(*   income, span, total, unit   as in CarryRule                           *)
(* Addresses are compared as values: _norm_addr makes the code's           *)
(* comparisons independent of spacing and case.  tx hashes are left out.   *)
(***************************************************************************)
EXTENDS CarryRule, FiniteSets, SequencesExt, FiniteSetsExt

CONSTANTS
    Contract,       \* STAKING_CONTRACT_ADDR
    NoAddr,         \* "": the explorer named no staker
    OperatorAddrs,  \* OPERATOR_ADDRS
    MinShare,       \* MIN_SHARE_LUNA
    DustTolerance,  \* DUST_TOLERANCE_LUNA
    SharePpm,       \* SHARE_TOLERANCE_PPM
    ShareFloor,     \* SHARE_TOLERANCE_LUNA
    PreciseShare    \* smallest share that is measured precisely, 10000 luna

ASSUME VerdictConstants ==
    /\ {MinShare, DustTolerance, SharePpm, ShareFloor, PreciseShare} \subseteq Nat
    /\ OperatorKnown <=> OperatorAddrs # {}

Positive(n) == IF n > 0 THEN n ELSE 0
Gap(m, n) == IF m > n THEN m - n ELSE n - m

-----------------------------------------------------------------------------
\* Classification of the outbound rows (M2); a set of rows is a set of indices.

IsFee(r) == r.to \in OperatorAddrs

Allowed(mode, r) ==
    CASE mode = "any"      -> TRUE
      [] mode = "transfer" -> r.to # Contract
      [] mode = "restake"  -> r.to = Contract

FeeRows(w)    == {i \in DOMAIN w.rows : IsFee(w.rows[i])}
PayoutRows(w) == {i \in DOMAIN w.rows \ FeeRows(w) : Allowed(w.payoutMode, w.rows[i])}
StrayRows(w)  == (DOMAIN w.rows \ FeeRows(w)) \ PayoutRows(w)

SumRows(w, I) == SumFunctionOnSet([i \in DOMAIN w.rows |-> w.rows[i].amount], I)
PaidOut(w) == SumRows(w, PayoutRows(w)) + SumRows(w, StrayRows(w))

\* A restake names its staker, a plain transfer pays the staker itself.
StakerOf(r) ==
    IF r.staker # NoAddr THEN r.staker
    ELSE IF r.to # Contract THEN r.to ELSE NoAddr

Payees(w) == {StakerOf(w.rows[i]) : i \in PayoutRows(w)} \ {NoAddr}
Paid(w, a) == SumRows(w, {i \in PayoutRows(w) : StakerOf(w.rows[i]) = a})

\* One payout without a name switches the whole window to balance deltas.
Mode(w) ==
    IF \E i \in PayoutRows(w) : StakerOf(w.rows[i]) = NoAddr THEN "delta" ELSE "tx"

-----------------------------------------------------------------------------
\* Who held a stake at open and what the snapshots say.

\* Gone before the window: balance 0 at open and never seen again.
Excluded(w) == {a \in DOMAIN w.before : w.before[a] = 0 /\ a \notin DOMAIN w.after}
OpenStakers(w) == DOMAIN w.before \ Excluded(w)
StakerSum(w) == SumFunctionOnSet(w.before, OpenStakers(w))

\* The window's totals, as the carry rule reads them.
CarryWindowOf(w) ==
    [income |-> w.income, paidOut |-> PaidOut(w), feePaid |-> SumRows(w, FeeRows(w)),
     span |-> w.span, stakerSum |-> StakerSum(w), total |-> w.total,
     unit |-> w.unit]

\* Guard 1 and the election weights: is the data needed for a verdict there?
Covered(w) ==
    /\ Mode(w) = "delta" => OpenStakers(w) \subseteq DOMAIN w.after
    /\ w.elects => w.epochStart # NULL

Delta(w, a) == w.after[a] - w.before[a]
Actual(w, a) == IF Mode(w) = "tx" THEN Paid(w, a) ELSE Delta(w, a)

\* Guard 2: the active balance decreased across the window.
Unstaked(w) == {a \in OpenStakers(w) \cap DOMAIN w.after : Delta(w, a) < 0}

Joiners(w) == Payees(w) \ OpenStakers(w)

PaidTo(w, S) == SumFunction([a \in S |-> Paid(w, a)])
Lost(w) == SumFunction([a \in Unstaked(w) |-> -Delta(w, a)])

\* Mutant: the balances of newcomers are not counted.
MutantAppeared(w) == 0

Appeared(w) == SumFunctionOnSet(w.after, DOMAIN w.after \ OpenStakers(w))

\* Mutant: what joiners were paid is accounted for nowhere.
MutantUnaccounted(w) ==
    SumRows(w, StrayRows(w)) + IF Mode(w) = "tx" THEN 0 ELSE Lost(w)

\* Value that left the wallet and no staker line accounts for (Guards 2, 3).
Unaccounted(w) ==
    SumRows(w, StrayRows(w)) +
    IF Mode(w) = "tx" THEN PaidTo(w, Joiners(w)) ELSE Lost(w) + Appeared(w)

-----------------------------------------------------------------------------
\* The expected share of what was actually paid out.

Weighted(w) == OpenStakers(w) \ Unstaked(w)

\* Mutant: the epoch's election is ignored.
MutantWeight(w, a) == w.before[a]

Weight(w, a) ==
    IF ~w.elects THEN w.before[a]
    ELSE IF a \in DOMAIN w.epochStart THEN Min({w.epochStart[a], w.before[a]})
    ELSE 0

\* Skipped dust: paid nothing, and the share would be below MIN_SHARE_LUNA.
DustStakers(actual, weight, D, S) ==
    {a \in DOMAIN weight : /\ actual[a] = 0
                           /\ S <= 0 \/ (weight[a] * D) \div S < MinShare}

\* The k-th smallest of the values of f.
Nth(f, k) ==
    CHOOSE v \in Range(f) : /\ Cardinality({a \in DOMAIN f : f[a] < v}) < k
                            /\ Cardinality({a \in DOMAIN f : f[a] <= v}) >= k

\* Mutant: the middle between the smallest and the largest.
MutantMedian(f) == (Nth(f, 1) + Nth(f, Cardinality(DOMAIN f))) \div 2

Median(f) ==
    LET n == Cardinality(DOMAIN f)
        mid == n \div 2
    IN  IF n % 2 = 1 THEN Nth(f, mid + 1) ELSE (Nth(f, mid) + Nth(f, mid + 1)) \div 2

\* What the given stakers were paid, scaled up to the whole weight.
ScaledUp(actual, weight, some, whole) ==
    (SumFunction([a \in some |-> Positive(actual[a])]) * whole)
        \div SumFunctionOnSet(weight, some)

\* The pot as the shares that can be measured precisely tell it: scaled up from
\* their payouts, unless the median of the pots they imply one by one differs.
Pot(actual, weight, D, judged, sum) ==
    LET precise == {a \in judged :
                        weight[a] > 0 /\ (weight[a] * D) \div sum >= PreciseShare}
        measured == IF precise = {} THEN D ELSE ScaledUp(actual, weight, precise, sum)
        implied == [a \in {b \in precise : actual[b] > 0} |-> (actual[a] * sum) \div weight[a]]
        outliers == /\ Cardinality(DOMAIN implied) >= 3
                    /\ Gap(Median(implied), measured) > DustTolerance
    IN  IF outliers THEN Median(implied) ELSE measured

\* The split the payouts are judged against: who is judged, with which
\* weights, and the amount that should have been divided between them.
Split(w) ==
    LET weight == [a \in Weighted(w) |-> Weight(w, a)]
        actual == [a \in Weighted(w) |-> Actual(w, a)]
        D == SumFunction([a \in Weighted(w) |-> Positive(actual[a])])
        judged == Weighted(w) \ DustStakers(actual, weight, D, SumFunction(weight))
        sum == SumFunctionOnSet(weight, judged)
    IN  [judged |-> judged, weight |-> weight, sum |-> sum,
         pot |-> Pot(actual, weight, D, judged, sum)]

Expected(split, a) ==
    IF a \in split.judged /\ split.sum > 0
    THEN (split.weight[a] * split.pot) \div split.sum
    ELSE 0

\* Mutant: whoever is paid nothing counts as dust.
MutantIsOk(expected, actual) ==
    actual = 0 \/ Gap(actual, expected) <= Max({1, ShareFloor, DustTolerance})

\* The line tolerances of _is_ok.
IsOk(expected, actual) ==
    \/ Gap(actual, expected) <= 1
    \/ expected < MinShare /\ actual = 0
    \/ actual < expected
       /\ expected - actual <= Max({(expected * SharePpm) \div Million, ShareFloor})
    \/ actual > expected /\ actual - expected <= DustTolerance

-----------------------------------------------------------------------------
\* The share lines in the order they are upserted; reason: has the line one?

Line(a, amount, ok) == [staker |-> a, amount |-> amount, ok |-> ok, reason |-> ~ok]

StakerLine(w, split, a) ==
    LET actual == Actual(w, a)
        expected == Expected(split, a)
    IN  Line(a, actual, /\ a \notin Unstaked(w)
                        /\ actual <= expected + DustTolerance
                        /\ IsOk(expected, actual))

StakerLines(w) ==
    LET open == SetToSeq(OpenStakers(w))
        split == Split(w)
    IN  [i \in DOMAIN open |-> StakerLine(w, split, open[i])]

JoinerLines(w) ==
    LET joiners == IF Mode(w) = "tx" THEN SetToSeq(Joiners(w)) ELSE <<>>
    IN  [i \in DOMAIN joiners |-> Line(joiners[i], Paid(w, joiners[i]), FALSE)]

\* Mutant: strays are counted but get no line.
MutantStrayLines(w) == <<>>

\* In row order: as many strays come up to the n-th as n.
StrayLines(w) ==
    LET row(n) == CHOOSE i \in StrayRows(w) : Cardinality({j \in StrayRows(w) : j <= i}) = n
    IN  [n \in 1..Cardinality(StrayRows(w)) |->
            Line(w.rows[row(n)].to, w.rows[row(n)].amount, FALSE)]

\* Mutant: a staker's own line is upserted after a stray to the same address.
MutantLines(w) == StrayLines(w) \o StakerLines(w) \o JoinerLines(w)

Lines(w) == StakerLines(w) \o JoinerLines(w) \o StrayLines(w)

AllOk(lines) == \A i \in DOMAIN lines : lines[i].ok

\* Guard 4a: credits plus unaccounted value differ from what left the wallet.
Credits(w) == SumFunction([a \in OpenStakers(w) |-> Actual(w, a)])
Drift(w) == Gap(PaidOut(w), Credits(w) + Unaccounted(w)) > 1

\* The rows cycle_shares holds after the upserts, by staker: a later line for
\* the same staker replaces the earlier one.
StoredLines(lines) ==
    [a \in {lines[i].staker : i \in DOMAIN lines} |->
        lines[Max({i \in DOMAIN lines : lines[i].staker = a})]]
=============================================================================

-------------------------- MODULE WindowJudgement --------------------------
(***************************************************************************)
(* One judgement of one window: the part of _verify_and_close (tracker/    *)
(* jobs.py) from the classified rows to the stored share lines, and what   *)
(* the lines promise about it.  CycleClose has the same judgement cut into *)
(* its commits.                                                            *)
(***************************************************************************)
EXTENDS WindowVerdict

CONSTANT Windows    \* the windows that may come up for judgement

\* What the database keeps: finitely many addresses, no negative amounts.
Balances(f) == IsFiniteSet(DOMAIN f) /\ f \in [DOMAIN f -> Nat]
IsWindow(w) ==
    /\ w.rows \in Seq(Range(w.rows))
    /\ \A i \in DOMAIN w.rows : w.rows[i].amount \in Nat
    /\ Balances(w.before) /\ Balances(w.after)
    /\ w.epochStart # NULL => Balances(w.epochStart)
    /\ w.payoutMode \in {"restake", "transfer", "any"} /\ w.elects \in BOOLEAN

ASSUME WindowsAreTyped == \A w \in Windows : IsWindow(w)

VARIABLES
    window,     \* the window under judgement
    stored,     \* its rows in cycle_shares: staker -> line
    verdict     \* "none" before, then "ok", "failed" or "uncovered"

vars == <<window, stored, verdict>>

Init == window \in Windows /\ stored = << >> /\ verdict = "none"

Judge ==
    /\ verdict = "none" /\ Covered(window)
    /\ LET lines == Lines(window)
       IN  /\ stored' = StoredLines(lines)
           /\ verdict' = IF AllOk(lines) /\ ~Drift(window) THEN "ok" ELSE "failed"
    /\ UNCHANGED window

\* Snapshots or election weights are missing: no line is written.
CannotJudge ==
    /\ verdict = "none" /\ ~Covered(window)
    /\ verdict' = "uncovered"
    /\ UNCHANGED <<window, stored>>

Next == Judge \/ CannotJudge
Spec == Init /\ [][Next]_vars

-----------------------------------------------------------------------------
\* What a line may fall short of its expected share (_is_ok, jobs.py).
Under(pot) == Max({1, ShareFloor, MinShare, (pot * SharePpm) \div Million})

\* Whatever pot the split was judged against, an accepted window is fair
\* between any two stakers: per unit of stake one got no more than the other,
\* but for the tolerances of the lines and the flooring (_is_ok, jobs.py).
AcceptedIsFair ==
    verdict = "ok" /\ Mode(window) = "tx" =>
        LET paid == [a \in OpenStakers(window) |-> Paid(window, a)]
            stake == [a \in OpenStakers(window) |-> Weight(window, a)]
        IN  \A a, b \in Split(window).judged :
                paid[a] * stake[b] - paid[b] * stake[a]
                    <= DustTolerance * stake[b] + (Under(Split(window).pot) + 1) * stake[a]

\* Every luna of an accepted window can be traced, but for one: what left the
\* wallet for stakers is what the stored lines credit, plus, in delta mode, what
\* the addresses hold that had no stake at open.  These are credited nothing
\* (Guard 3, jobs.py), whatever the window is called.
Newcomers(w) == IF Mode(w) = "tx" THEN {} ELSE DOMAIN w.after \ OpenStakers(w)
EveryLunaTraced ==
    verdict = "ok" =>
        LET credited == SumFunction([a \in DOMAIN stored |-> stored[a].amount])
        IN  /\ Gap(credited + SumFunctionOnSet(window.after, Newcomers(window)),
                   PaidOut(window)) <= 1
            /\ Newcomers(window) \cap DOMAIN stored = {}

\* With named payouts the attribution is complete by itself: whatever the
\* window holds, only real mistakes fail it, never the drift check.
NamedPayoutsNeverDrift == verdict # "none" /\ Mode(window) = "tx" => ~Drift(window)

\* A stray payment leaves a failing row for its recipient, whatever else the
\* recipient was paid, and never a verified window.
StrayIsVisible ==
    verdict \in {"ok", "failed"} =>
        \A i \in StrayRows(window) :
            LET to == window.rows[i].to
            IN  verdict = "failed" /\ to \in DOMAIN stored /\ ~stored[to].ok
=============================================================================

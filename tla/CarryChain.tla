----------------------------- MODULE CarryChain -----------------------------
(***************************************************************************)
(* The chain of closed cycles seen at the grain of one close: every call   *)
(* of Jobs._verify_and_close that closes a window reads the predecessor's  *)
(* carry_luna and fee_carry_luna and stores its own.  Windows arrive in    *)
(* any order from the set Windows; which share lines are OK is left open   *)
(* (WindowVerdict computes them), since the carry does not depend on it.   *)
(*                                                                         *)
(* The question the module answers: how much can be withheld from stakers  *)
(* while the tracker keeps saying VERIFIED?                                *)
(***************************************************************************)
EXTENDS CarryRule

CONSTANTS
    Windows,    \* the windows a run draws from
    MaxCycles   \* bound on the number of closed cycles

ASSUME WindowsAssumption ==
    /\ Windows \subseteq CarryWindow
    /\ \A w \in Windows : ~OperatorKnown => w.feePaid = 0
ASSUME MaxCyclesAssumption == MaxCycles \in Nat

VARIABLES
    prev,       \* carry and fee carry of the latest closed cycle
    status,     \* its status, "NONE" before the first close
    limit,      \* the withheld limit its window was judged against
    closed,     \* how many cycles are closed
    (* history of what the windows held, kept only to state properties *)
    owedTotal,  \* owed to stakers since the baseline became known
    paidTotal,  \* left the wallet for stakers since then
    feeBalance, \* operator entitlement minus withdrawals since tracking began
    forgiven    \* of which: dropped by rows that are not VERIFIED, or that had
                \* no baseline to judge against

vars == <<prev, status, limit, closed, owedTotal, paidTotal, feeBalance, forgiven>>

Init ==
    /\ prev = NoPredecessor
    /\ status = "NONE"
    /\ limit = 0
    /\ closed = 0
    /\ owedTotal = 0
    /\ paidTotal = 0
    /\ feeBalance = 0
    /\ forgiven = 0

-----------------------------------------------------------------------------
\* close_cycle stores the status and both carries of window w.
Store(w, verdict) ==
    /\ closed < MaxCycles
    /\ closed' = closed + 1
    /\ prev' = [carry |-> verdict.carry, fee |-> verdict.fee]
    /\ status' = verdict.status
    /\ limit' = WithheldLimit(w)

\* What window w adds to the history: totals start with the window that
\* makes the baseline known.
Remember(w) ==
    /\ IF BaselineKnown(prev')
         THEN /\ owedTotal' = owedTotal + Owed(w)
              /\ paidTotal' = paidTotal + w.paidOut
         ELSE UNCHANGED <<owedTotal, paidTotal>>
    /\ feeBalance' = feeBalance + OperatorTake(w) - w.feePaid
    /\ forgiven' = IF status' = "VERIFIED" /\ BaselineKnown(prev) THEN forgiven
                   ELSE forgiven + prev'.fee - FeeOut(w, prev)

CloseDegenerate(w) ==
    /\ Degenerate(w, prev)
    /\ Store(w, DegenerateClose(w, prev))
    /\ Remember(w)

\* Insufficient snapshot coverage, or no election weights.
CloseSkipped(w) ==
    /\ ~Degenerate(w, prev)
    /\ Store(w, SkippedClose(w, prev))
    /\ Remember(w)

CloseJudged(w, linesOk) ==
    /\ ~Degenerate(w, prev)
    /\ Store(w, JudgedClose(w, prev, linesOk))
    /\ Remember(w)

Next == \E w \in Windows :
    \/ CloseDegenerate(w)
    \/ CloseSkipped(w)
    \/ \E linesOk \in BOOLEAN : CloseJudged(w, linesOk)

Spec == Init /\ [][Next]_vars

-----------------------------------------------------------------------------
TypeOK ==
    /\ prev \in Balance
    /\ status \in Statuses \cup {"NONE"}
    /\ limit \in Nat
    /\ closed \in 0..MaxCycles
    /\ owedTotal \in Int
    /\ paidTotal \in Nat
    /\ feeBalance \in Int
    /\ forgiven \in Int

\* README "Check 1": a skim that stays proportional cannot hide.  Whatever
\* the earlier verdicts were, a cycle is VERIFIED only if all that stakers
\* were owed and have not been paid since the baseline is within the limit.
SkimCannotHide ==
    status = "VERIFIED" => owedTotal - paidTotal <= limit

\* A VERIFIED cycle with a known baseline carries exactly what it was handed
\* plus what was owed minus what was paid: anyone can re-add the chain across
\* it.  Only MISMATCH and SKIPPED cycles may restart the carry.
VerifiedRowsAddUp ==
    [][ BaselineKnown(prev) /\ closed' # closed /\ status' = "VERIFIED"
        => prev'.carry - prev.carry
                = (owedTotal' - owedTotal) - (paidTotal' - paidTotal) ]_vars

\* README "Check 1": once the withheld balance is above the limit, every
\* judged cycle stays flagged until money is paid out or the batch size that
\* sets the limit grows.
FlagPersists ==
    [][ /\ BaselineKnown(prev) /\ prev.carry > limit /\ closed' # closed
        /\ limit' <= limit
        /\ owedTotal' - owedTotal >= paidTotal' - paidTotal
        => status' # "VERIFIED" ]_vars

\* The operator cannot draw on the stakers' money under VERIFIED rows: when a
\* cycle is VERIFIED against a known baseline, all withdrawals so far are within
\* the dust of all entitlements so far, except for what rows that were not
\* VERIFIED, or had no baseline, visibly dropped.
OperatorWithinEntitlement ==
    OperatorKnown /\ status = "VERIFIED" => feeBalance + forgiven >= -Dust

\* The carry is never overdrawn by more than the dust, so a payout that no
\* income funded is either flagged or restarts the carry in a SKIPPED row.
NeverOverdrawn == BaselineKnown(prev) => prev.carry >= -Dust
=============================================================================

----------------------------- MODULE CarryRule -----------------------------
(***************************************************************************)
(* The carried-balance arithmetic of Jobs._verify_and_close (tracker/      *)
(* jobs.py): what stakers are owed from a window's income, the balance     *)
(* carried from cycle to cycle, and the cycle-level verdict built on it.   *)
(* Constant-level operators only: CarryChain runs them as a state machine, *)
(* WindowVerdict combines them with the per-staker share check.            *)
(*                                                                         *)
(* A window is a record with at least the fields of CarryWindow.           *)
(* cycles.held_luna is left out: no code ever writes a value other than 0, *)
(* so available_luna is the window's income.                               *)
(***************************************************************************)
EXTENDS Integers

CONSTANTS
    NULL,           \* SQL NULL: a carry that was never recorded
    Dust,           \* CARRY_DUST_LUNA
    MaxBatches,     \* CARRY_MAX_BATCHES
    FeePpm,         \* VALIDATOR_FEE_PPM: any integer, the code has no bound
    Million,        \* the parts-per-million base, 1000000 in the code
    KeepDeposit,    \* DENOMINATOR_MODE = "total"
    OperatorKnown,  \* OPERATOR_ADDRS is not empty
    MinSpan         \* blocks between two coinbases, 60 in the code

ASSUME CarryConstants ==
    /\ NULL \notin Int
    /\ Dust \in Nat
    /\ MaxBatches \in Nat
    /\ Million \in Nat \ {0}
    /\ FeePpm \in Int
    /\ KeepDeposit \in BOOLEAN
    /\ OperatorKnown \in BOOLEAN
    /\ MinSpan \in Nat

Statuses == {"VERIFIED", "MISMATCH", "SKIPPED"}

\* The totals of one closed window that the carry rule reads.
CarryWindow ==
    [income: Nat,     \* sum of the window's coinbases
     paidOut: Nat,    \* outbound value that is not an operator withdrawal
     feePaid: Nat,    \* outbound value to OPERATOR_ADDRS
     span: Nat,       \* closed_block - opened_block
     stakerSum: Nat,  \* sum of the opening balances
     total: Nat,      \* cycles.total_luna, the validator total at open
     unit: Nat]       \* max_recent_reward at closed_block, 0 when there is none

\* What the predecessor's row says: carry_luna (NULL when unknown) and
\* fee_carry_luna (0 when unknown).
Balance == [carry: Int \cup {NULL}, fee: Int]
NoPredecessor == [carry |-> NULL, fee |-> 0]

BaselineKnown(prev) == prev.carry # NULL
CarryIn(prev) == IF BaselineKnown(prev) THEN prev.carry ELSE 0

-----------------------------------------------------------------------------
\* What the rule says stakers earn from the window, and the operator's part.

FeeCut(income) == (income * FeePpm) \div Million

\* In "total" mode the validator deposit's slice of the income stays with the
\* operator, as long as the recorded total exceeds what the stakers hold.
DepositKept(w) == KeepDeposit /\ w.stakerSum > 0 /\ w.total > w.stakerSum

Owed(w) ==
    LET net == w.income - FeeCut(w.income)
    IN  IF DepositKept(w) THEN (net * w.stakerSum) \div w.total ELSE net

OperatorTake(w) == w.income - Owed(w)

\* Mutant: the whole income is carried, not what stakers are owed of it.
MutantCarryOutOfIncome(w, prev) == CarryIn(prev) + w.income - w.paidOut

CarryOut(w, prev) == CarryIn(prev) + Owed(w) - w.paidOut
FeeOut(w, prev) == prev.fee + OperatorTake(w) - w.feePaid

WithheldLimit(w) == MaxBatches * w.unit + Dust

-----------------------------------------------------------------------------
\* The three ways a window is closed.

\* Payouts without income in a window shorter than one reward interval, which
\* the carried balance cannot fund.
Degenerate(w, prev) ==
    /\ w.income = 0
    /\ w.paidOut > 0
    /\ w.span < MinSpan
    /\ ~BaselineKnown(prev) \/ CarryIn(prev) - w.paidOut < -Dust

DegenerateClose(w, prev) ==
    [status |-> "SKIPPED",
     carry |-> IF ~BaselineKnown(prev) THEN NULL
               ELSE IF CarryIn(prev) >= w.paidOut THEN CarryIn(prev) - w.paidOut
               ELSE 0,
     fee |-> prev.fee - w.feePaid]

\* _close_skipped: the shares cannot be judged, the balance is still followed.
SkippedClose(w, prev) ==
    [status |-> "SKIPPED",
     carry |-> IF ~BaselineKnown(prev) THEN NULL
               ELSE IF CarryOut(w, prev) >= -Dust THEN CarryOut(w, prev)
               ELSE 0,
     fee |-> FeeOut(w, prev)]

Overpaid(w, prev) == CarryOut(w, prev) < -Dust
\* Mutant: each window is held to its own income.
MutantWithheld(w, prev) == Owed(w) - w.paidOut > WithheldLimit(w)

Withheld(w, prev) == CarryOut(w, prev) > WithheldLimit(w)
\* Mutant: each withdrawal is held to its own window's entitlement.
MutantFeeOverdrawn(w, prev) == OperatorKnown /\ OperatorTake(w) - w.feePaid < -Dust

FeeOverdrawn(w, prev) == OperatorKnown /\ FeeOut(w, prev) < -Dust

\* A cycle-level flag fires. Without a baseline an overpayment establishes it.
CarryFlagged(w, prev) ==
    \/ Overpaid(w, prev) /\ BaselineKnown(prev)
    \/ Withheld(w, prev)
    \/ FeeOverdrawn(w, prev) /\ BaselineKnown(prev)

\* Mutant: a flagged window is left PENDING, to be judged again.
MutantJudgedClose(w, prev, linesOk) ==
    [status |-> IF linesOk /\ ~CarryFlagged(w, prev) THEN "VERIFIED" ELSE "PENDING",
     carry |-> IF Overpaid(w, prev) THEN 0 ELSE CarryOut(w, prev),
     fee |-> IF FeeOverdrawn(w, prev) THEN 0 ELSE FeeOut(w, prev)]

\* linesOk: every share line is OK and the attribution does not drift.
JudgedClose(w, prev, linesOk) ==
    [status |-> IF linesOk /\ ~CarryFlagged(w, prev) THEN "VERIFIED" ELSE "MISMATCH",
     carry |-> IF Overpaid(w, prev) THEN 0 ELSE CarryOut(w, prev),
     fee |-> IF FeeOverdrawn(w, prev) THEN 0 ELSE FeeOut(w, prev)]
=============================================================================

----------------------------- MODULE CycleCarry -----------------------------
(***************************************************************************)
(* CycleClose implements CarryChain: whatever crashes, failing jobs and    *)
(* retries do to the close, the closed cycles carry their balances as if   *)
(* every close were one atomic step.  CarryChain's state is read off the   *)
(* cycles table; its history is kept in three variables that no step of    *)
(* CycleClose reads.                                                       *)
(***************************************************************************)
EXTENDS CycleClose, FiniteSets

\* Only registered addresses are operators: without one no row is a withdrawal.
ASSUME FeePaidAssumption ==
    \A d \in Pool : ~OperatorKnown => d.totals.feePaid = 0

VARIABLES
    owedTotal,  \* owed to stakers by the cycles closed since the baseline
    paidTotal,  \* what left the wallet for stakers in them
    feeBalance  \* operator entitlement minus withdrawals of all closed cycles

history == <<owedTotal, paidTotal, feeBalance>>
carryVars == <<vars, history>>

\* Entered when close_cycle commits: the totals of the window it closes.
Record(w, stored) ==
    /\ IF BaselineKnown(stored)
         THEN /\ owedTotal' = owedTotal + Owed(w)
              /\ paidTotal' = paidTotal + w.paidOut
         ELSE UNCHANGED <<owedTotal, paidTotal>>
    /\ feeBalance' = feeBalance + OperatorTake(w) - w.feePaid

CarryInit == Init /\ owedTotal = 0 /\ paidTotal = 0 /\ feeBalance = 0

CarryNext ==
    /\ Next
    /\ IF ClosedIds' = ClosedIds THEN UNCHANGED history
       ELSE Record(Data(current).totals, Predecessor')

CarrySpec == CarryInit /\ [][CarryNext]_carryVars /\ WF_vars(Scheduler)

-----------------------------------------------------------------------------
\* The status of the latest closed row, and the limit its window was judged
\* against.
LastStatus == IF ClosedIds = {} THEN "NONE" ELSE cycles[Latest(ClosedIds)].status

LastLimit ==
    IF ClosedIds = {} THEN 0
    ELSE WithheldLimit(feed[cycles[Latest(ClosedIds)].closed].totals)

Chain == INSTANCE CarryChain WITH
    Windows <- {d.totals : d \in Pool},
    MaxCycles <- BatchBound,
    prev <- Predecessor,
    status <- LastStatus,
    limit <- LastLimit,
    closed <- Cardinality(ClosedIds),
    forgiven <- Predecessor.fee - feeBalance

\* Every close, whatever faults surround its commits, is one step of the carry
\* chain, and nothing else moves it.
ImplementsCarryChain == Chain!Spec
=============================================================================

-------------------------- MODULE CarryChainProofs --------------------------
(***************************************************************************)
(* Proofs about CarryChain for every fee, dust, limit, number of batches   *)
(* and set of windows: the carry is typed and never overdrawn, a skim      *)
(* cannot hide under VERIFIED rows, and neither can an operator overdraft. *)
(***************************************************************************)
EXTENDS CarryChain, CarryRuleProofs, TLAPS

-----------------------------------------------------------------------------
\* What every close stores, whichever way the window was closed: a typed row,
\* a carry that is not below the balance it stands for, and no VERIFIED row
\* above its limit or with an overdrawn fee balance.
Closes(w) ==
    /\ closed < MaxCycles
    /\ closed' = closed + 1
    /\ prev' \in Balance
    /\ status' \in Statuses
    /\ limit' = WithheldLimit(w)
    /\ BaselineKnown(prev) => BaselineKnown(prev')
    /\ BaselineKnown(prev') => /\ prev'.carry >= CarryOut(w, prev)
                               /\ prev'.carry >= -Dust
    /\ BaselineKnown(prev') /\ ~BaselineKnown(prev) => CarryIn(prev) = 0
    /\ status' = "VERIFIED" => /\ BaselineKnown(prev')
                               /\ prev'.carry <= WithheldLimit(w)
    /\ BaselineKnown(prev) /\ status' = "VERIFIED"
          => prev'.carry = CarryOut(w, prev) /\ prev'.fee = FeeOut(w, prev)
    /\ OperatorKnown /\ status' = "VERIFIED" => prev'.fee >= -Dust
    /\ Remember(w)

\* Every step of the chain is a close of one of the windows.
LEMMA StepCloses ==
    ASSUME prev \in Balance, Next
    PROVE  \E w \in Windows : Closes(w)
<1> PICK w \in Windows : \/ CloseDegenerate(w)
                         \/ CloseSkipped(w)
                         \/ \E linesOk \in BOOLEAN : CloseJudged(w, linesOk)
  BY DEF Next
<1> SUFFICES Closes(w)
  OBVIOUS
<1>1. w \in CarryWindow
  BY WindowsAssumption
<1>2. /\ w.paidOut \in Nat /\ w.feePaid \in Nat /\ w.income \in Nat
      /\ CarryOut(w, prev) \in Int /\ FeeOut(w, prev) \in Int
      /\ CarryIn(prev) \in Int /\ (BaselineKnown(prev) => CarryIn(prev) = prev.carry)
      /\ prev.fee \in Int
      /\ WithheldLimit(w) \in Nat
      /\ Dust \in Nat /\ NULL \notin Int
  BY <1>1, CloseTypes, LimitType, CarryConstants DEF CarryWindow, Balance
<1>3. ~BaselineKnown(prev) => CarryIn(prev) = 0
  BY DEF CarryIn
<1>4. CASE CloseDegenerate(w)
  <2> DEFINE v == DegenerateClose(w, prev)
  <2>1. /\ v.status = "SKIPPED"
        /\ v.carry \in Int \cup {NULL} /\ v.fee \in Int
        /\ v.carry = NULL <=> ~BaselineKnown(prev)
    BY <1>2 DEF DegenerateClose
  <2>2. w.income = 0 /\ Owed(w) = 0
    BY <1>1, <1>4, OwedTypes DEF CloseDegenerate, Degenerate
  <2>3. BaselineKnown(prev) => v.carry >= CarryOut(w, prev) /\ v.carry >= -Dust
    BY <1>2, <2>2 DEF DegenerateClose, CarryOut
  <2> HIDE DEF v
  <2>4. /\ closed < MaxCycles /\ closed' = closed + 1
        /\ prev' = [carry |-> v.carry, fee |-> v.fee]
        /\ status' = v.status /\ limit' = WithheldLimit(w) /\ Remember(w)
    BY <1>4 DEF CloseDegenerate, Store, v
  <2> QED
    BY <1>2, <1>3, <2>1, <2>3, <2>4 DEF Closes, Balance, Statuses, BaselineKnown
<1>5. CASE CloseSkipped(w)
  <2> DEFINE v == SkippedClose(w, prev)
  <2>1. /\ v.status = "SKIPPED"
        /\ v.carry \in Int \cup {NULL} /\ v.fee \in Int
        /\ v.carry = NULL <=> ~BaselineKnown(prev)
        /\ BaselineKnown(prev) => v.carry >= CarryOut(w, prev) /\ v.carry >= -Dust
    BY <1>2 DEF SkippedClose
  <2> HIDE DEF v
  <2>2. /\ closed < MaxCycles /\ closed' = closed + 1
        /\ prev' = [carry |-> v.carry, fee |-> v.fee]
        /\ status' = v.status /\ limit' = WithheldLimit(w) /\ Remember(w)
    BY <1>5 DEF CloseSkipped, Store, v
  <2> QED
    BY <1>2, <1>3, <2>1, <2>2 DEF Closes, Balance, Statuses, BaselineKnown
<1>6. ASSUME NEW linesOk \in BOOLEAN, CloseJudged(w, linesOk)
      PROVE  Closes(w)
  <2> DEFINE v == JudgedClose(w, prev, linesOk)
  <2>1. /\ v.status \in {"VERIFIED", "MISMATCH"}
        /\ v.carry \in Int /\ v.fee \in Int
        /\ v.carry >= CarryOut(w, prev) /\ v.carry >= -Dust
    BY <1>2 DEF JudgedClose, Overpaid
  <2>2. v.status = "VERIFIED" =>
          /\ v.carry <= WithheldLimit(w)
          /\ OperatorKnown => v.fee >= -Dust
    BY <1>2 DEF JudgedClose, CarryFlagged, Overpaid, Withheld, FeeOverdrawn
  <2>3. BaselineKnown(prev) /\ v.status = "VERIFIED" =>
          v.carry = CarryOut(w, prev) /\ v.fee = FeeOut(w, prev)
    BY <1>2 DEF JudgedClose, CarryFlagged, Overpaid, FeeOverdrawn
  <2> HIDE DEF v
  <2>4. /\ closed < MaxCycles /\ closed' = closed + 1
        /\ prev' = [carry |-> v.carry, fee |-> v.fee]
        /\ status' = v.status /\ limit' = WithheldLimit(w) /\ Remember(w)
    BY <1>6 DEF CloseJudged, Store, v
  <2> QED
    BY <1>2, <1>3, <2>1, <2>2, <2>3, <2>4 DEF Closes, Balance, Statuses, BaselineKnown
<1> QED
  BY <1>4, <1>5, <1>6

-----------------------------------------------------------------------------
\* The inductive invariant: the types, and the ledger facts the properties
\* follow from.  A VERIFIED row must remember that its carry was within the
\* limit it was judged against, and the carry must dominate the open balance.
LedgerFacts ==
    /\ status = "VERIFIED" => BaselineKnown(prev) /\ prev.carry <= limit
    /\ BaselineKnown(prev) => prev.carry >= owedTotal - paidTotal
    /\ BaselineKnown(prev) => prev.carry >= -Dust
    /\ ~BaselineKnown(prev) => owedTotal = 0 /\ paidTotal = 0
    /\ prev.fee = feeBalance + forgiven
    /\ OperatorKnown /\ status = "VERIFIED" => prev.fee >= -Dust

IInv == TypeOK /\ LedgerFacts

\* The invariant holds before the first close, and every close keeps it.

LEMMA InitIInv == Init => IInv
BY CarryConstants, MaxCyclesAssumption
   DEF Init, IInv, TypeOK, LedgerFacts, Balance, NoPredecessor, BaselineKnown, Statuses

LEMMA StepIInv == IInv /\ [Next]_vars => IInv'
<1> SUFFICES ASSUME IInv, [Next]_vars PROVE IInv'
  OBVIOUS
<1>1. CASE UNCHANGED vars
  BY <1>1 DEF IInv, TypeOK, LedgerFacts, vars, BaselineKnown
<1>2. CASE Next
  <2>1. TypeOK /\ LedgerFacts /\ prev \in Balance
    BY DEF IInv, TypeOK
  <2> PICK w \in Windows : Closes(w)
    BY <1>2, <2>1, StepCloses
  <2>2. w \in CarryWindow
    BY WindowsAssumption
  <2>3. /\ CarryOut(w, prev) = CarryIn(prev) + Owed(w) - w.paidOut
        /\ FeeOut(w, prev) = prev.fee + OperatorTake(w) - w.feePaid
        /\ BaselineKnown(prev) => CarryIn(prev) = prev.carry
        /\ CarryIn(prev) \in Int /\ Owed(w) \in Int /\ OperatorTake(w) \in Int
        /\ w.paidOut \in Nat /\ w.feePaid \in Nat
        /\ WithheldLimit(w) \in Nat /\ prev.fee \in Int
    BY <2>1, <2>2, CloseTypes, LimitType, OwedTypes
       DEF CarryOut, FeeOut, CarryWindow, Balance
  <2>4. TypeOK'
    BY <2>1, <2>3, MaxCyclesAssumption
       DEF TypeOK, Closes, Remember, Balance
  <2>5. prev' \in Balance /\ (BaselineKnown(prev') => prev'.carry \in Int) /\ prev'.fee \in Int
    BY <2>4 DEF TypeOK, Balance, BaselineKnown
  <2>6. BaselineKnown(prev') => prev'.carry >= owedTotal' - paidTotal'
    <3>1. CASE BaselineKnown(prev)
      BY <2>1, <2>3, <2>5, <3>1 DEF Closes, Remember, LedgerFacts, TypeOK, Balance, BaselineKnown
    <3>2. CASE ~BaselineKnown(prev)
      BY <2>1, <2>3, <2>5, <3>2 DEF Closes, Remember, LedgerFacts, TypeOK
    <3> QED
      BY <3>1, <3>2
  <2>7. prev'.fee = feeBalance' + forgiven'
    BY <2>1, <2>3, <2>5 DEF Closes, Remember, LedgerFacts, TypeOK
  <2>8. ~BaselineKnown(prev') => owedTotal' = 0 /\ paidTotal' = 0
    BY <2>1 DEF Closes, Remember, LedgerFacts
  <2> QED
    BY <2>4, <2>6, <2>7, <2>8 DEF IInv, LedgerFacts, Closes, BaselineKnown
<1> QED
  BY <1>1, <1>2 DEF vars

\* Whatever windows were closed and however they were judged, the carry stored
\* last dominates what is still owed, and follows the fee balance exactly.
THEOREM AlwaysIInv == Spec => []IInv
BY InitIInv, StepIInv, PTL DEF Spec

\* The type invariant of the carry chain.
THEOREM TypeCorrect == Spec => []TypeOK
BY AlwaysIInv, PTL DEF IInv

\* Check 1 of the README, for every configuration and every history of
\* windows: a VERIFIED verdict bounds everything withheld since the baseline.
THEOREM SkimCannotHideHolds == Spec => []SkimCannotHide
<1>1. IInv => SkimCannotHide
  BY DEF IInv, TypeOK, LedgerFacts, SkimCannotHide, Balance, BaselineKnown
<1> QED
  BY <1>1, AlwaysIInv, PTL

\* No close stores a carry overdrawn by more than the dust.
THEOREM NeverOverdrawnHolds == Spec => []NeverOverdrawn
<1>1. IInv => NeverOverdrawn
  BY DEF IInv, LedgerFacts, NeverOverdrawn
<1> QED
  BY <1>1, AlwaysIInv, PTL

\* The operator's withdrawals under VERIFIED rows stay within its entitlement.
THEOREM OperatorWithinEntitlementHolds == Spec => []OperatorWithinEntitlement
<1>1. IInv => OperatorWithinEntitlement
  BY DEF IInv, TypeOK, LedgerFacts, OperatorWithinEntitlement
<1> QED
  BY <1>1, AlwaysIInv, PTL

\* VERIFIED rows with a known baseline can be re-added by anyone.
THEOREM VerifiedRowsAddUpHolds == Spec => VerifiedRowsAddUp
<1> DEFINE A == BaselineKnown(prev) /\ closed' # closed /\ status' = "VERIFIED"
                => prev'.carry - prev.carry
                     = (owedTotal' - owedTotal) - (paidTotal' - paidTotal)
<1>1. IInv /\ [Next]_vars => [A]_vars
  <2> SUFFICES ASSUME IInv, Next, BaselineKnown(prev), status' = "VERIFIED"
               PROVE  prev'.carry - prev.carry
                        = (owedTotal' - owedTotal) - (paidTotal' - paidTotal)
    BY DEF vars
  <2>1. TypeOK /\ prev \in Balance
    BY DEF IInv, TypeOK
  <2> PICK w \in Windows : Closes(w)
    BY <2>1, StepCloses
  <2>2. w \in CarryWindow
    BY WindowsAssumption
  <2>3. /\ CarryOut(w, prev) = prev.carry + Owed(w) - w.paidOut
        /\ prev.carry \in Int /\ Owed(w) \in Int /\ w.paidOut \in Nat
    BY <2>1, <2>2, CloseTypes, OwedTypes
       DEF CarryOut, CarryWindow, Balance, BaselineKnown
  <2> QED
    BY <2>1, <2>3 DEF Closes, Remember, TypeOK
<1> QED
  BY <1>1, AlwaysIInv, PTL DEF Spec, VerifiedRowsAddUp

\* A withheld balance above the limit stays flagged until it is paid down or
\* the limit grows.
THEOREM FlagPersistsHolds == Spec => FlagPersists
<1> DEFINE A == /\ BaselineKnown(prev) /\ prev.carry > limit /\ closed' # closed
                /\ limit' <= limit
                /\ owedTotal' - owedTotal >= paidTotal' - paidTotal
                => status' # "VERIFIED"
<1>1. IInv /\ [Next]_vars => [A]_vars
  <2> SUFFICES ASSUME IInv, Next, BaselineKnown(prev), prev.carry > limit,
                      limit' <= limit, status' = "VERIFIED",
                      owedTotal' - owedTotal >= paidTotal' - paidTotal
               PROVE  FALSE
    BY DEF vars
  <2>1. TypeOK /\ prev \in Balance
    BY DEF IInv, TypeOK
  <2> PICK w \in Windows : Closes(w)
    BY <2>1, StepCloses
  <2>2. w \in CarryWindow
    BY WindowsAssumption
  <2>3. /\ CarryOut(w, prev) = prev.carry + Owed(w) - w.paidOut
        /\ prev.carry \in Int /\ Owed(w) \in Int /\ w.paidOut \in Nat
        /\ WithheldLimit(w) \in Nat
    BY <2>1, <2>2, CloseTypes, LimitType, OwedTypes
       DEF CarryOut, CarryWindow, Balance, BaselineKnown
  <2>4. prev'.carry = CarryOut(w, prev) /\ prev'.carry <= limit'
    BY DEF Closes
  <2>5. Owed(w) >= w.paidOut
    BY <2>1, <2>3 DEF Closes, Remember, TypeOK
  <2>6. limit \in Nat /\ limit' = WithheldLimit(w)
    BY <2>1 DEF Closes, TypeOK
  <2> QED
    BY <2>3, <2>4, <2>5, <2>6
<1> QED
  BY <1>1, AlwaysIInv, PTL DEF Spec, FlagPersists
=============================================================================

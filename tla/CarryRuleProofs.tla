--------------------------- MODULE CarryRuleProofs ---------------------------
(***************************************************************************)
(* Lemmas about the carry arithmetic of CarryRule, for any fee, dust and   *)
(* limit: which fees leave stakers and operator a part of the income, and  *)
(* that everything a close stores has its type.                            *)
(***************************************************************************)
EXTENDS CarryRule, TLAPS

\* A part of a whole: a natural number taken f parts in m, f at most m, and
\* rounded down lies between 0 and the number (fee cut and deposit slice).
LEMMA PartOfWhole ==
    ASSUME NEW a \in Nat, NEW m \in Nat \ {0}, NEW f \in 0..m
    PROVE  (a * f) \div m \in 0..a
<1>1. a * f \in Nat /\ a * m \in Nat
  OBVIOUS
<1>2. a * f <= a * m
  BY SMT
<1> DEFINE p == a * f
           q == p \div m
<1>3. p \in Nat /\ p <= a * m
  BY <1>1, <1>2
<1> HIDE DEF p
<1>4. q \in Nat /\ m * q <= p
  BY <1>3
<1> HIDE DEF q
<1>5. m * q <= m * a
  BY <1>3, <1>4
<1>6. q <= a
  <2> SUFFICES ASSUME q > a PROVE FALSE
    BY <1>4
  <2>1. m * q >= m * (a + 1)
    BY <1>4
  <2>2. m * (a + 1) = m * a + m
    OBVIOUS
  <2> QED
    BY <1>5, <2>1, <2>2, <1>4
<1> QED
  BY <1>4, <1>6 DEF q, p

\* f parts in m of m are f, rounded or not.
LEMMA WholeOfWhole ==
    ASSUME NEW m \in Nat \ {0}, NEW f \in Int
    PROVE  (m * f) \div m = f
<1> DEFINE p == m * f
           q == p \div m
<1>1. p \in Int
  OBVIOUS
<1> HIDE DEF p
<1>2. q \in Int /\ m * q <= p /\ p < m * q + m
  BY <1>1
<1> HIDE DEF q
<1>3. m * q <= m * f /\ m * f < m * q + m
  BY <1>2 DEF p
<1>4. ~(q > f)
  <2> SUFFICES ASSUME q > f PROVE FALSE
    OBVIOUS
  <2>1. m * q >= m * (f + 1)
    BY <1>2
  <2>2. m * (f + 1) = m * f + m
    OBVIOUS
  <2> QED
    BY <1>2, <1>3, <2>1, <2>2
<1>5. ~(q < f)
  <2> SUFFICES ASSUME q < f PROVE FALSE
    OBVIOUS
  <2>1. m * f >= m * (q + 1)
    BY <1>2
  <2>2. m * (q + 1) = m * q + m
    BY <1>2
  <2> QED
    BY <1>2, <1>3, <2>1, <2>2
<1>6. q = f
  BY <1>2, <1>4, <1>5
<1> QED
  BY <1>6 DEF p, q

\* Whatever the fee is set to, what is owed and what is not are integers, and
\* nothing is owed on nothing.
LEMMA OwedTypes ==
    ASSUME NEW w \in CarryWindow
    PROVE  /\ Owed(w) \in Int /\ OperatorTake(w) \in Int
           /\ w.income = 0 => Owed(w) = 0
<1>1. w.income \in Nat /\ w.stakerSum \in Nat /\ w.total \in Nat
  BY DEF CarryWindow
<1>2. Million \in Nat \ {0} /\ FeePpm \in Int
  BY CarryConstants
<1>3. FeeCut(w.income) \in Int /\ (w.income = 0 => FeeCut(w.income) = 0)
  BY <1>1, <1>2 DEF FeeCut
<1> DEFINE net == w.income - FeeCut(w.income)
<1>4. net \in Int /\ (w.income = 0 => net = 0)
  BY <1>1, <1>3
<1>5. Owed(w) = IF DepositKept(w) THEN (net * w.stakerSum) \div w.total ELSE net
  BY DEF Owed
<1> HIDE DEF net
<1>6. DepositKept(w) => /\ (net * w.stakerSum) \div w.total \in Int
                        /\ w.income = 0 => (net * w.stakerSum) \div w.total = 0
  <2> SUFFICES ASSUME DepositKept(w)
               PROVE  /\ (net * w.stakerSum) \div w.total \in Int
                      /\ w.income = 0 => (net * w.stakerSum) \div w.total = 0
    OBVIOUS
  <2>1. w.total \in Nat \ {0}
    BY <1>1 DEF DepositKept
  <2>2. net * w.stakerSum \in Int /\ (w.income = 0 => net * w.stakerSum = 0)
    BY <1>1, <1>4
  <2> DEFINE p == net * w.stakerSum
  <2> HIDE DEF p
  <2>3. p \in Int /\ (w.income = 0 => p = 0)
    BY <2>2 DEF p
  <2>4. p \div w.total \in Int /\ (w.income = 0 => p \div w.total = 0)
    BY <2>1, <2>3
  <2> QED
    BY <2>4 DEF p
<1> QED
  BY <1>1, <1>4, <1>5, <1>6 DEF OperatorTake

\* With a fee of at most the whole, stakers are never owed a negative amount
\* nor more than the window earned, and neither is the operator.
LEMMA PartOfIncome ==
    ASSUME NEW w \in CarryWindow, FeePpm \in 0..Million
    PROVE  Owed(w) \in 0..w.income /\ OperatorTake(w) \in 0..w.income
<1>1. w.income \in Nat /\ w.stakerSum \in Nat /\ w.total \in Nat
  BY DEF CarryWindow
<1>2. FeeCut(w.income) \in 0..w.income
  BY <1>1, PartOfWhole, CarryConstants DEF FeeCut
<1> DEFINE net == w.income - FeeCut(w.income)
<1>3. net \in 0..w.income
  BY <1>1, <1>2
<1>4. Owed(w) \in 0..w.income
  <2>1. CASE DepositKept(w)
    <3>1. w.total \in Nat \ {0} /\ w.stakerSum \in 0..w.total
      BY <1>1, <2>1 DEF DepositKept
    <3>2. net \in Nat
      BY <1>1, <1>3
    <3>3. (net * w.stakerSum) \div w.total \in 0..net
      <4> HIDE DEF net
      <4> QED
        BY <3>1, <3>2, PartOfWhole
    <3> QED
      BY <1>1, <1>3, <2>1, <3>3 DEF Owed
  <2>2. CASE ~DepositKept(w)
    BY <1>3, <2>2 DEF Owed
  <2> QED
    BY <2>1, <2>2
<1> QED
  BY <1>1, <1>4 DEF OperatorTake

\* The fee cut of _verify_and_close (jobs.py) leaves stakers and operator a part
\* of every window's income each if, and only if, the fee lies between nothing
\* and the whole.  config.py (VALIDATOR_FEE_PPM) takes any integer: with any
\* other fee there are windows in which one of the two is owed less than zero.
THEOREM OwedIsPartOfIncome ==
    (\A w \in CarryWindow : Owed(w) \in 0..w.income /\ OperatorTake(w) \in 0..w.income)
        <=> FeePpm \in 0..Million
<1>1. ASSUME \A w \in CarryWindow : Owed(w) \in 0..w.income PROVE FeePpm \in 0..Million
  <2> DEFINE w == [income |-> Million, paidOut |-> 0, feePaid |-> 0, span |-> 0,
                   stakerSum |-> 0, total |-> 0, unit |-> 0]
             q == (Million * FeePpm) \div Million
  <2>1. Million \in Nat \ {0} /\ FeePpm \in Int
    BY CarryConstants
  <2>2. w \in CarryWindow
    BY <2>1 DEF CarryWindow
  <2>3. Owed(w) = Million - q
    BY DEF Owed, DepositKept, FeeCut
  <2>4. Owed(w) \in 0..Million
    BY <1>1, <2>2
  <2>5. q = FeePpm
    BY <2>1, WholeOfWhole
  <2> QED
    BY <2>1, <2>3, <2>4, <2>5
<1> QED
  BY <1>1, PartOfIncome

\* The limit a window is judged against is a natural number.
LEMMA LimitType ==
    ASSUME NEW w \in CarryWindow
    PROVE  WithheldLimit(w) \in Nat
BY CarryConstants DEF WithheldLimit, CarryWindow

\* The types of everything one close computes.
LEMMA CloseTypes ==
    ASSUME NEW w \in CarryWindow, NEW p \in Balance
    PROVE  /\ CarryOut(w, p) \in Int
           /\ FeeOut(w, p) \in Int
           /\ CarryIn(p) \in Int
           /\ BaselineKnown(p) => CarryIn(p) = p.carry
<1>1. w.paidOut \in Nat /\ w.feePaid \in Nat /\ w.income \in Nat
  BY DEF CarryWindow
<1>2. p.carry \in Int \cup {NULL} /\ p.fee \in Int
  BY DEF Balance
<1>3. CarryIn(p) \in Int /\ (BaselineKnown(p) => CarryIn(p) = p.carry)
  BY <1>2 DEF CarryIn, BaselineKnown
<1>4. Owed(w) \in Int /\ OperatorTake(w) \in Int
  BY OwedTypes
<1> QED
  BY <1>1, <1>2, <1>3, <1>4 DEF CarryOut, FeeOut

\* Whichever way a window is closed, the row gets a status and typed carries.
Verdict == [status: Statuses, carry: Int \cup {NULL}, fee: Int]

LEMMA VerdictTypes ==
    ASSUME NEW w \in CarryWindow, NEW p \in Balance, NEW linesOk \in BOOLEAN
    PROVE  /\ DegenerateClose(w, p) \in Verdict
           /\ SkippedClose(w, p) \in Verdict
           /\ JudgedClose(w, p, linesOk) \in Verdict
           /\ JudgedClose(w, p, linesOk).status \in {"VERIFIED", "MISMATCH"}
           /\ DegenerateClose(w, p).status = "SKIPPED"
           /\ SkippedClose(w, p).status = "SKIPPED"
<1>1. /\ CarryOut(w, p) \in Int /\ FeeOut(w, p) \in Int /\ CarryIn(p) \in Int
      /\ w.paidOut \in Nat /\ w.feePaid \in Nat /\ p.fee \in Int
  BY CloseTypes DEF CarryWindow, Balance
<1>2. DegenerateClose(w, p) \in Verdict /\ DegenerateClose(w, p).status = "SKIPPED"
  BY <1>1 DEF DegenerateClose, Verdict, Statuses
<1>3. SkippedClose(w, p) \in Verdict /\ SkippedClose(w, p).status = "SKIPPED"
  BY <1>1 DEF SkippedClose, Verdict, Statuses
<1>4. /\ JudgedClose(w, p, linesOk) \in Verdict
      /\ JudgedClose(w, p, linesOk).status \in {"VERIFIED", "MISMATCH"}
  BY <1>1 DEF JudgedClose, Verdict, Statuses
<1> QED
  BY <1>2, <1>3, <1>4
=============================================================================

---------------------------- MODULE MCCycleClose ----------------------------
(***************************************************************************)
(* Instance of CycleClose on windows whose totals, lines, drift and        *)
(* coverage WindowVerdict computes from rows and snapshots: an honest      *)
(* payout, one that withholds part of the income, shorts a staker and      *)
(* makes a stray payment, a degenerate one, and one without the snapshots  *)
(* it needs.                                                               *)
(***************************************************************************)
EXTENDS CycleClose, WindowVerdict

CONSTANTS A, B, X       \* two stakers and a stranger

Balances == (A :> 10) @@ (B :> 20)
Restake(a, amount) == [to |-> Contract, amount |-> amount, staker |-> a]
Unnamed(amount) == Restake(NoAddr, amount)
Stray(a, amount) == [to |-> a, amount |-> amount, staker |-> NoAddr]

Window(rows, income, span, before, after) ==
    [rows |-> rows, before |-> before, after |-> after, epochStart |-> NULL,
     payoutMode |-> "restake", elects |-> FALSE,
     income |-> income, span |-> span, total |-> 40, unit |-> 10]

DataOf(w) ==
    [totals |-> CarryWindowOf(w), covered |-> Covered(w),
     lines |-> IF Covered(w) THEN Lines(w) ELSE <<>>,
     drift |-> Covered(w) /\ Drift(w)]

Honest   == Window(<<Restake(A, 10), Restake(B, 20)>>, 30, 2, Balances, << >>)
Skimmed  == Window(<<Restake(A, 5), Restake(B, 24), Stray(X, 1)>>, 60, 2, Balances, << >>)
Early    == Window(<<Restake(A, 10), Restake(B, 20)>>, 0, 1, Balances, << >>)
Unseen   == Window(<<Restake(A, 10), Unnamed(20)>>, 30, 2, Balances, (A :> 20))

\* The same distribution caught while its burst was still coming in, with a
\* payout to a joiner, and then completed by a payout the explorer did not name.
HalfBurst == Window(<<Restake(A, 10), Restake(X, 1)>>, 15, 2, (A :> 10), << >>)
FullBurst == Window(<<Restake(A, 10), Restake(X, 1), Unnamed(4)>>, 15, 2,
                    (A :> 10), (A :> 20) @@ (X :> 5))

MCPool == {DataOf(w) : w \in {Honest, Skimmed, Early, Unseen}}
MCPoolBurst == {DataOf(w) : w \in {HalfBurst, FullBurst}}
=============================================================================

---------------------------- MODULE MCCarryChain ----------------------------
(***************************************************************************)
(* Instance of CarryChain: parts-per-million scaled to parts per 4 and the *)
(* amounts to a few units, so that the fee, the deposit slice, the dust    *)
(* and the one-batch limit all round and all bind.                         *)
(***************************************************************************)
EXTENDS CarryChain, FiniteSets

\* Totals with a coinbase of 3 units: no income, one or two coinbases; nothing,
\* part, all or more than all paid out; short and long windows; the limit's
\* unit shrinks to 2 in some windows.
MCWindows ==
    {w \in [income: {0, 3, 6}, paidOut: {0, 2, 3, 7}, feePaid: {0, 2},
            span: {1, 2}, stakerSum: {0, 2}, total: {3}, unit: {2, 3}] :
        /\ w.feePaid # 0 => OperatorKnown
        /\ w.span < MinSpan => w.income = 0
        /\ w.income # 0 => w.unit = 3
        /\ w.stakerSum = 0 => KeepDeposit}
=============================================================================

-------------------------- MODULE MCWindowVerdict --------------------------
(***************************************************************************)
(* Evaluates WindowVerdict over bounded windows, one judgement per window: *)
(* every state is a window and, once judged, its stored share lines.  The  *)
(* windows are the ones the payout bot and its mistakes produce: the       *)
(* honest proportional payout, the same with any of the stakers over- or   *)
(* underpaid or left out, payouts to joiners and strangers, stray          *)
(* payments, unnamed payouts judged from balance deltas, and departures.   *)
(***************************************************************************)
EXTENDS WindowJudgement

CONSTANTS A, B, C, E, X     \* four stakers and a stranger

Stakers == {A, B, C, E}

\* Balances at open: equal holders, one large holder, a holder below the
\* precise share, a dust holder.
Holdings ==
    {(A :> 10) @@ (B :> 10) @@ (C :> 10) @@ (E :> 10),
     (A :> 25) @@ (B :> 10) @@ (C :> 10) @@ (E :> 5),
     (A :> 20) @@ (B :> 14) @@ (C :> 15) @@ (E :> 1)}

\* The reference bot: floor(balance * pot / sum), shares below MIN_SHARE kept.
BotShare(bal, pot, a) ==
    LET share == (bal[a] * pot) \div SumFunction(bal)
    IN  IF share < MinShare THEN 0 ELSE share

\* What the bot weights a staker with: its balance, capped by its balance at
\* the epoch start when the epoch elects by it.
Elected(elects, bal, poll) ==
    [a \in DOMAIN bal |->
        IF ~elects THEN bal[a]
        ELSE IF a \in DOMAIN poll THEN Min({bal[a], poll[a]}) ELSE 0]

\* An opening as the snapshots tell it: balances, epoch-start poll, and whether
\* the epoch elects.
Polls(elects, bal) ==
    IF elects THEN {bal, [bal EXCEPT ![B] = 4], [a \in {A, C, E} |-> bal[a] + 3]}
    ELSE {NULL}
Openings == UNION {{<<bal, poll, elects>> : poll \in Polls(elects, bal)} :
                   bal \in Holdings, elects \in BOOLEAN}
Unpolled == {<<bal, NULL, elects>> : bal \in Holdings, elects \in BOOLEAN}

Restake(a, amount) == [to |-> Contract, amount |-> amount, staker |-> a]
Transfer(a, amount) == [to |-> a, amount |-> amount, staker |-> NoAddr]
Unnamed(amount) == [to |-> Contract, amount |-> amount, staker |-> NoAddr]

PayRows(mode, pay) ==
    LET order == SetToSeq({a \in DOMAIN pay : pay[a] > 0})
        row(a) == IF mode = "transfer" THEN Transfer(a, pay[a]) ELSE Restake(a, pay[a])
    IN  [i \in DOMAIN order |-> row(order[i])]

BotPays(stake) == [a \in DOMAIN stake |-> BotShare(stake, 80, a)]
Honest(mode, stake) == PayRows(mode, BotPays(stake))

Window(mode, elects, rows, before, after, poll) ==
    [rows |-> rows, before |-> before, after |-> after, epochStart |-> poll,
     payoutMode |-> mode, elects |-> elects,
     income |-> 0, span |-> MinSpan, total |-> 60, unit |-> 0]

\* A plan is a window but for the payout mode: what the bot pays by staker, the
\* rows that follow, and the other fields of the window.

\* Honest payouts with every combination of mistakes per staker.
Mistakes == {-6, 0, 2, 5}
PaidPlans ==
    {LET due == BotPays(Elected(elects, bal, poll))
     IN  <<[a \in Stakers \ out |-> Positive(due[a] + off[a])], << >>, bal, << >>, poll, elects>> :
        <<bal, poll, elects>> \in Openings, off \in [Stakers -> Mistakes], out \in {{}, {A}}}

\* Three holders, one of them possibly paid nothing.
ThreeHolders ==
    LET bal == (A :> 10) @@ (B :> 10) @@ (C :> 10)
    IN  {<<(A :> x) @@ (B :> y) @@ (C :> z), << >>, bal, << >>,
           IF elects THEN bal ELSE NULL, elects>> :
            x \in {0, 20, 26}, y \in {0, 20}, z \in {0, 10, 20}, elects \in BOOLEAN}

\* Honest payouts followed by strays, strangers, fee withdrawals or a payout
\* to a departed staker.
Extras == {Transfer(X, 3), Transfer(X, 4), Transfer(A, 20), Transfer(A, 3),
           Restake(X, 12), Restake(E, 9)}
          \cup {Transfer(o, 7) : o \in OperatorAddrs}
ExtraPlans ==
    {<<BotPays(Elected(elects, bal, bal)), extra, [bal EXCEPT ![E] = gone], after, poll, elects>> :
        <<bal, poll, elects>> \in Openings \cup Unpolled,
        gone \in {0, 5}, extra \in BoundedSeq(Extras, 2),
        after \in {<< >>, (E :> 0), (A :> 9) @@ (E :> 8)}}

\* Plans with an unnamed payout: credits are balance deltas.
DeltaPlans ==
    {<< << >>, <<Restake(A, 20), Unnamed(paid)>>, bal,
        [a \in DOMAIN bal |-> Positive(bal[a] + up[a])] @@ joined, NULL, elects>> :
        paid \in {59, 60, 61, 63},
        up \in {u \in [Stakers -> {-3, 0, 20, 22, 50}] :
                    u[A] \in {20, 50} /\ u[B] \in {20, 22}},
        joined \in {<< >>, (X :> 3)}, bal \in Holdings, elects \in BOOLEAN}
    \cup {<< << >>, <<Unnamed(20)>>, bal, (A :> 40), NULL, elects>> :
             bal \in Holdings, elects \in BOOLEAN}

MCWindows ==
    {Window(mode, elects, PayRows(mode, pay) \o extra, before, after, poll) :
        mode \in {"restake", "transfer", "any"},
        <<pay, extra, before, after, poll, elects>> \in
            ThreeHolders \cup DeltaPlans \cup PaidPlans \cup ExtraPlans}

-----------------------------------------------------------------------------
Stake == Elected(window.elects, window.before, window.epochStart)

\* README "Check 2": the reference bot's own payout is never accused.
HonestPayoutOk ==
    /\ verdict \in {"ok", "failed"} /\ window.after = << >>
    /\ window.rows = Honest(window.payoutMode, Stake)
    => verdict = "ok"

\* README "Check 2", pot: when three or more precise shares are honest, one
\* staker who is paid too little, or nothing, is the one flagged.
Others(a) == OpenStakers(window) \ {a}
ShortedAlone(a, pot) ==
    /\ window.after = << >> /\ DOMAIN window.before = Stakers /\ Mode(window) = "tx"
    /\ StrayRows(window) = {} /\ Joiners(window) = {}
    /\ \A b \in Others(a) : Paid(window, b) = BotShare(Stake, pot, b)
                            /\ Paid(window, b) >= PreciseShare
    /\ Paid(window, a) + 5 <= BotShare(Stake, pot, a)

OneShortedIsFlagged ==
    verdict \in {"ok", "failed"} =>
        \A a \in OpenStakers(window) :
            Cardinality(Others(a)) >= 3 /\ ShortedAlone(a, 80) =>
                {s \in DOMAIN stored : ~stored[s].ok} = {a}
=============================================================================

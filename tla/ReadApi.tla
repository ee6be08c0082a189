------------------------------- MODULE ReadApi -------------------------------
(***************************************************************************)
(* What a client of the read API sees while the scheduler writes           *)
(* (tracker/api.py _shares, _cycles, _verify, _rewards; the queries of     *)
(* tracker/db.py they call).  A request runs on its own thread and its own *)
(* connection, outside any transaction: each of its SELECTs reads what is  *)
(* committed at that moment, and the writer goes on between two of them.   *)
(* The client has one request open at a time; requests do not affect each  *)
(* other, and one that the process stops in only loses its answer.         *)
(* Limits run from 0 to one above the largest page, both of them clamped.  *)
(***************************************************************************)
EXTENDS CycleClose, FiniteSets

CONSTANT MaxLimit       \* the largest page, 500 in _int_param

ASSUME ApiConstants == MaxLimit \in Nat \ {0}

VARIABLE request        \* the request that is open or was answered last

apiVars == <<vars, request>>

Idle == [kind |-> "none", step |-> "done"]
Answered == request.step = "done"

ApiInit == Init /\ request = Idle

-----------------------------------------------------------------------------
\* /shares.

\* Mutant: the lines are read before the row.
MutantStatements == <<"lines", "row">>

\* The cycle row first (an id without one is answered 404), then its lines.
Statements == <<"row", "lines">>

Answer(statement, i) == IF statement = "row" THEN cycles[i] ELSE RowsOf(i)

AskShares(i) ==
    /\ Answered /\ i \in DOMAIN cycles
    /\ request' = [kind |-> "shares", step |-> "second", id |-> i,
                   answer |-> [[row |-> NULL, lines |-> {}] EXCEPT
                                   ![Statements[1]] = Answer(Statements[1], i)]]

ReadSecond ==
    /\ request.kind = "shares" /\ request.step = "second"
    /\ request' = [request EXCEPT !.step = "done",
           !.answer[Statements[2]] = Answer(Statements[2], request.id)]

-----------------------------------------------------------------------------
\* /cycles, /verify and a staker's /rewards: pages, newest first.

\* A list that can be paged: the cycles by id, or a staker's credits by block.
Lists == {"cycles"} \cup Stakers
Entries(list) ==
    IF list = "cycles" THEN {[at |-> i, row |-> cycles[i]] : i \in DOMAIN cycles}
    ELSE {[at |-> e.block, row |-> e] : e \in {c \in ledger : c.staker = list}}

Places(entries) == {e.at : e \in entries}

\* No `before` parameter: the query has no condition on the place.
NoCursor == NULL

IntParam(n) == IF n < 1 THEN 1 ELSE IF n > MaxLimit THEN MaxLimit ELSE n

\* Mutant: the cursor is clamped like a limit.
MutantBeforeParam(n) == IF n = NoCursor THEN n ELSE IntParam(n)

\* The cursor is not clamped.
BeforeParam(n) == n

\* The newest `limit` entries before the cursor.
Page(list, limit, before) ==
    LET older == {e \in Entries(list) : before # NoCursor => e.at < before}
    IN  {e \in older : Cardinality({f \in older : f.at > e.at}) < limit}

Oldest(rows) == CHOOSE n \in Places(rows) : \A m \in Places(rows) : n <= m

\* The first SELECT.  A page without rows is the last one.
Select(walk, before) ==
    LET rows == Page(walk.list, walk.limit, BeforeParam(before))
    IN  request' = [walk EXCEPT
            !.seen = @ \cup rows,
            !.before = IF rows = {} THEN before ELSE Oldest(rows),
            !.step = IF rows = {} THEN "done" ELSE "more"]

FirstPage(list, n) ==
    /\ Answered
    /\ Select([kind |-> "walk", step |-> "next", list |-> list, limit |-> IntParam(n),
               before |-> NoCursor, seen |-> {}, there |-> Places(Entries(list))],
              NoCursor)

NextPage == request.kind = "walk" /\ request.step = "next" /\ Select(request, request.before)

\* The second SELECT: has_more.
HasMore ==
    /\ request.kind = "walk" /\ request.step = "more"
    /\ request' = [request EXCEPT !.step =
            IF \E e \in Entries(request.list) : e.at < request.before
            THEN "next" ELSE "done"]

-----------------------------------------------------------------------------
Client ==
    \/ \E i \in DOMAIN cycles : AskShares(i)
    \/ ReadSecond
    \/ \E list \in Lists, n \in 0..MaxLimit + 1 : FirstPage(list, n)
    \/ NextPage
    \/ HasMore

ApiNext ==
    \/ Next /\ UNCHANGED request
    \/ Client /\ UNCHANGED vars

ApiSpec == ApiInit /\ [][ApiNext]_apiVars

-----------------------------------------------------------------------------
\* The two reads of /shares do not tear: an answer that shows a closed cycle
\* shows the lines of its verdict, all of them and with the results they keep
\* from then on, although the close writes the lines one commit at a time and
\* before the row.  (An answer that shows PENDING may show any part of them.)
ClosedAnswerIsFinal ==
    (request.kind = "shares" /\ Answered) =>
        LET row == request.answer.row
            lines == request.answer.lines
        IN  row.status # "PENDING" =>
                /\ row = cycles[request.id]
                /\ {<<r.staker, r.amount, r.ok>> : r \in lines} = Results(request.id)

\* Pages read at different moments of a running close fit together: walking by
\* `before` until has_more is false misses no entry that was there when the
\* walk began; the credits seen are on the ledger; each cycle seen was closed
\* where the next one seen opens, and only the newest can be PENDING.
WalkTellsOneHistory ==
    request.kind = "walk" =>
        /\ Answered => request.there \subseteq Places(request.seen)
        /\ request.list # "cycles" => request.seen \subseteq Entries(request.list)
        /\ request.list = "cycles" => \A e, f \in request.seen :
               f.at = e.at + 1 => e.row.status # "PENDING" /\ e.row.closed = f.row.opened
=============================================================================

----------------------------- MODULE ClickAnalytics -----------------------------
(***************************************************************************)
(* The analytics of one link: rows of clicks that the worker inserts at    *)
(* any time, requests of AnalyticsQueryService that read them with nine    *)
(* separate queries, and the answers Redis keeps for a minute.             *)
(*                                                                         *)
(* A part of an answer is the set of rows it was computed from; counts,    *)
(* days, names and percentages are functions of that set.  Three queries   *)
(* stand for the nine: one that counts the rows of the window (totals,     *)
(* visitors, days, devices), one that lists its largest groups (referrers, *)
(* countries, browsers, systems), and one for the most recent clicks.      *)
(*                                                                         *)
(* A definition whose comment begins with "Mistake" is no part of the      *)
(* model: it is a plausible bug that the properties are tried against.     *)
(***************************************************************************)
EXTENDS Naturals, FiniteSets, Functions

CONSTANTS
  Requests,    \* requests of the owner in flight
  Ranges,      \* values of timeRange, the unknown ones among them
  Groups,      \* values of a column the clicks are grouped by
  Day, Week, Month,
  TopLimit,    \* groups shown of a list that is limited
  RecentLimit, \* recent clicks shown
  MaxTime,     \* bound: the clock stops here
  MaxClicks,   \* bound: rows
  None

ASSUME LengthAssumption == {Day, Week, Month} \subseteq Nat
ASSUME LimitAssumption == TopLimit \in Nat /\ RecentLimit \in Nat
ASSUME BoundAssumption == MaxTime \in Nat /\ MaxClicks \in Nat

VARIABLES
  now,      \* the clock
  clicks,   \* the rows of the link
  answers,  \* analytics:<code>:<range>
  requests

vars == <<now, clicks, answers, requests>>

-----------------------------------------------------------------------------
Times == 0 .. MaxTime
Ids == 1 .. MaxClicks
Click == [at : Times, group : Groups]
Parts == {"counts", "top", "recent"}

\* known: history, the rows there were when the queries began
Answer == [start : Times, known : SUBSET Ids, parts : [Parts -> SUBSET Ids]]
ASSUME NoneIsNoAnswer == None \notin Click \union Answer

Idle == [pc |-> "idle"]
Loading(range) == [pc |-> "load", range |-> range]
Querying(range, answer, due) ==
  [pc |-> "query", range |-> range, answer |-> answer, due |-> due]

Become(r, request) == requests' = [requests EXCEPT ![r] = request]

Init ==
  /\ now = 0
  /\ clicks = [c \in Ids |-> None]
  /\ answers = [range \in Ranges |-> None]
  /\ requests = [r \in Requests |-> Idle]

Rows == {c \in Ids : clicks[c] # None}

\* The rows there were at one moment or will be, in the order of insertion, and
\* the table of then: a row never changes.
Moments == {1 .. n : n \in 0 .. MaxClicks}

Tick ==
  /\ now < MaxTime /\ now' = now + 1
  /\ UNCHANGED <<clicks, answers, requests>>

\* clicked_at is the time of the redirect; the row may come much later.
\* Ids are given in the order of insertion.
InsertClick(c, t, g) ==
  /\ clicks[c] = None /\ t <= now
  /\ \A d \in Ids : d < c => clicks[d] # None
  /\ clicks' = [clicks EXCEPT ![c] = [at |-> t, group |-> g]]
  /\ UNCHANGED <<now, answers, requests>>

-----------------------------------------------------------------------------
Length(range) == CASE range = "24h" -> Day [] range = "30d" -> Month [] OTHER -> Week

\* Mistake: the switch has no default branch.
NoDefault(range, t) ==
  CASE range = "all" -> 0 [] range \in {"24h", "7d", "30d"} -> t [] OTHER -> None

\* calculateStartDate: a range it does not know is a week.
StartDate(range, t) ==
  IF range = "all" \/ t < Length(range) THEN 0 ELSE t - Length(range)

\* The answer is not in Redis, or cannot be read.
MissAnswer(r, range) ==
  /\ requests[r].pc = "idle"
  /\ Become(r, Loading(range))
  /\ UNCHANGED <<now, clicks, answers>>

\* The link is there and its owner asks; every other caller is refused.
LoadUrl(r) ==
  LET range == requests[r].range IN
  /\ requests[r].pc = "load"
  /\ Become(r, Querying(range,
                 [start |-> StartDate(range, now), known |-> Rows,
                  parts |-> [p \in Parts |-> {}]], Parts))
  /\ UNCHANGED <<now, clicks, answers>>

\* clicked_at >= startDate
Within(table, start) == {c \in DOMAIN table : table[c].at >= start}

GroupsOf(table) == {table[c].group : c \in DOMAIN table}
InGroup(table, g) == {c \in DOMAIN table : table[c].group = g}
AtMost(limit, S) == IF Cardinality(S) < limit THEN Cardinality(S) ELSE limit

\* The rows of the largest groups, in one of the orders that break ties.
TopRows(table) ==
  {UNION {InGroup(table, g) : g \in top} : top \in
     {T \in SUBSET GroupsOf(table) :
        /\ Cardinality(T) = AtMost(TopLimit, GroupsOf(table))
        /\ \A g \in T, h \in GroupsOf(table) \ T :
             Cardinality(InGroup(table, g)) >= Cardinality(InGroup(table, h))}}

\* The recent clicks are those of all time.
RecentRows(table) ==
  {S \in SUBSET DOMAIN table :
     /\ Cardinality(S) = AtMost(RecentLimit, DOMAIN table)
     /\ \A c \in S, d \in DOMAIN table \ S : table[c].at >= table[d].at}

\* What a query may return when it reads the table.
PartRows(p, table, start) ==
  LET window == Within(table, start) IN
  CASE p = "top" -> TopRows(Restrict(table, window))
    [] p = "recent" -> RecentRows(table)
    [] OTHER -> {window}

Table == Restrict(clicks, Rows)

\* Mistake: every query takes the time itself.
QueryFromNow(r, p) ==
  LET m == requests[r] IN
  /\ m.pc = "query" /\ p \in m.due
  /\ \E S \in PartRows(p, Table, StartDate(m.range, now)) :
       Become(r, Querying(m.range, [m.answer EXCEPT !.parts[p] = S], m.due \ {p}))
  /\ UNCHANGED <<now, clicks, answers>>

\* One of the queries Promise.all waits for.
Query(r, p) ==
  LET m == requests[r] IN
  /\ m.pc = "query" /\ p \in m.due
  /\ \E S \in PartRows(p, Table, m.answer.start) :
       Become(r, Querying(m.range, [m.answer EXCEPT !.parts[p] = S], m.due \ {p}))
  /\ UNCHANGED <<now, clicks, answers>>

StoreAnswer(r) ==
  LET m == requests[r] IN
  /\ m.pc = "query" /\ m.due = {}
  /\ answers' = [answers EXCEPT ![m.range] = m.answer]
  /\ Become(r, Idle)
  /\ UNCHANGED <<now, clicks>>

\* Mistake: stored without a time to live.
KeepAnswer(range) == FALSE /\ UNCHANGED vars

\* ANALYTICS_TTL passes, or Redis evicts the key.
ExpireAnswer(range) ==
  /\ answers[range] # None
  /\ answers' = [answers EXCEPT ![range] = None]
  /\ UNCHANGED <<now, clicks, requests>>

\* The caller is refused, a query or the SET fails, or the process ends.
Abandon(r) ==
  /\ requests[r].pc # "idle"
  /\ Become(r, Idle)
  /\ UNCHANGED <<now, clicks, answers>>

-----------------------------------------------------------------------------
GetAnalytics(r) == \/ \E range \in Ranges : MissAnswer(r, range)
                   \/ LoadUrl(r) \/ \E p \in Parts : Query(r, p)
                   \/ StoreAnswer(r) \/ Abandon(r)

Next == \/ Tick
        \/ \E c \in Ids, t \in Times, g \in Groups : InsertClick(c, t, g)
        \/ \E r \in Requests : GetAnalytics(r)
        \/ \E range \in Ranges : ExpireAnswer(range)

Spec == Init /\ [][Next]_vars

\* Redis expires what has a time to live; queries are answered, or fail.
Fairness ==
  /\ \A range \in Ranges : WF_vars(ExpireAnswer(range))
  /\ \A r \in Requests : WF_vars((\E p \in Parts : Query(r, p)) \/ StoreAnswer(r))

FairSpec == Spec /\ Fairness

-----------------------------------------------------------------------------
LoadingStates == [pc : {"load"}, range : Ranges]
QueryStates == [pc : {"query"}, range : Ranges, answer : Answer, due : SUBSET Parts]
RequestStates == {Idle} \union LoadingStates \union QueryStates

\* Every variable has the shape the code gives it.
TypeOK ==
  /\ now \in Times
  /\ clicks \in [Ids -> Click \union {None}]
  /\ answers \in [Ranges -> Answer \union {None}]
  /\ requests \in [Requests -> RequestStates]

\* Every done part of an answer is what its query returns on the table as it was
\* at one moment since the request began, for the one window of the answer: it
\* misses no row that was there then, of the rows it lists none is pushed out by a
\* lesser one, and two parts differ only in the rows inserted between their
\* moments.  If none was inserted meanwhile, all parts are of one table.
Agrees(answer, done) ==
  \A p \in done : \E seen \in Moments :
    /\ answer.known \subseteq seen /\ seen \subseteq Rows
    /\ answer.parts[p] \in PartRows(p, Restrict(clicks, seen), answer.start)

AnswersAgree ==
  \A range \in Ranges : answers[range] # None => Agrees(answers[range], Parts)

\* An answer covers the range in its key, counted back from some earlier time.
StartsOf(range) == {StartDate(range, t) : t \in 0 .. now}

AnswersOfRange ==
  \A range \in Ranges : answers[range] # None =>
    answers[range].start \in StartsOf(range)

-----------------------------------------------------------------------------
(* The inductive invariant.                                                *)

RequestsAgree ==
  \A r \in Requests : requests[r].pc = "query" =>
    LET m == requests[r] IN
    /\ Agrees(m.answer, Parts \ m.due)
    /\ m.answer.start \in StartsOf(m.range)

KnownAreRows ==
  /\ \A range \in Ranges : answers[range] # None => answers[range].known \subseteq Rows
  /\ \A r \in Requests : requests[r].pc = "query" => requests[r].answer.known \subseteq Rows

\* Ids without a gap.
RowsInOrder == Rows \in Moments

IInv == TypeOK /\ AnswersAgree /\ AnswersOfRange /\ RequestsAgree /\ KnownAreRows
        /\ RowsInOrder

-----------------------------------------------------------------------------
\* An answer counts row c, or its window began after the click.
Covers(answer, c) ==
  c \in answer.parts["counts"] \/ clicks[c].at < answer.start

\* Of the rows in its window, the cached answer of a range in the end counts every
\* one, however late it was inserted and whatever slow requests store: for all time,
\* every row.
EventuallyCounted ==
  \A c \in Ids, range \in Ranges :
    <>[](c \in Rows /\ answers[range] # None => Covers(answers[range], c))

=============================================================================

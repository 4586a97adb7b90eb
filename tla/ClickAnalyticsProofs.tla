-------------------------- MODULE ClickAnalyticsProofs --------------------------
(***************************************************************************)
(* The invariant of ClickAnalytics, for every number of requests, rows,    *)
(* ranges and groups, and every length of the windows.                     *)
(***************************************************************************)
EXTENDS ClickAnalytics, TLAPS

\* What a request's program counter says about its record.
LEMMA Shapes ==
  ASSUME NEW m \in RequestStates
  PROVE  /\ m.pc = "load" <=> m \in LoadingStates
         /\ m.pc = "query" <=> m \in QueryStates
         /\ m.pc = "idle" <=> m = Idle
BY DEF RequestStates, LoadingStates, QueryStates, Idle

LEMMA Constructed ==
  /\ Idle \in RequestStates
  /\ \A range \in Ranges : Loading(range) \in RequestStates
  /\ \A range \in Ranges, a \in Answer, due \in SUBSET Parts :
       Querying(range, a, due) \in RequestStates
BY DEF RequestStates, LoadingStates, QueryStates, Idle, Loading, Querying

LEMMA Labels ==
  /\ Idle.pc = "idle"
  /\ \A range : Loading(range).pc = "load"
  /\ \A range, a, due : /\ Querying(range, a, due).pc = "query"
                        /\ Querying(range, a, due).range = range
                        /\ Querying(range, a, due).answer = a
                        /\ Querying(range, a, due).due = due
BY DEF Idle, Loading, Querying

LEMMA Updated ==
  ASSUME TypeOK, NEW r \in Requests, NEW m \in RequestStates, Become(r, m)
  PROVE  /\ requests' \in [Requests -> RequestStates]
         /\ requests'[r] = m
         /\ \A s \in Requests \ {r} : requests'[s] = requests[s]
BY DEF TypeOK, Become

-----------------------------------------------------------------------------
(* Types.                                                                  *)

\* No window starts outside of time.
LEMMA StartInTime ==
  ASSUME NEW t \in Times, NEW range \in Ranges
  PROVE  StartDate(range, t) \in Times
<1>1. Length(range) \in Nat
  BY LengthAssumption DEF Length
<1>2. t \in Nat /\ t <= MaxTime
  BY BoundAssumption DEF Times
<1>3. CASE range = "all" \/ t < Length(range)
  BY <1>3, BoundAssumption DEF StartDate, Times
<1>4. CASE ~(range = "all" \/ t < Length(range))
  <2>1. t - Length(range) \in 0 .. MaxTime
    BY <1>1, <1>2, <1>4, BoundAssumption
  <2> QED
    BY <1>4, <2>1 DEF StartDate, Times
<1> QED
  BY <1>3, <1>4

\* Whatever a query returns are rows of the table it reads, and the counted rows are
\* those of the window.
LEMMA PartsAreRows ==
  ASSUME NEW p \in Parts, NEW table, NEW start, NEW S \in PartRows(p, table, start)
  PROVE  /\ S \subseteq DOMAIN table
         /\ p = "counts" => S = Within(table, start)
<1> DEFINE window == Within(table, start)
<1>1. window \subseteq DOMAIN table
  BY DEF Within
<1>2. CASE p = "counts"
  BY <1>1, <1>2 DEF PartRows
<1>3. CASE p = "recent"
  BY <1>3 DEF PartRows, RecentRows
<1>4. CASE p = "top"
  <2>1. PICK T : S = UNION {InGroup(Restrict(table, window), g) : g \in T}
    BY <1>4 DEF PartRows, TopRows
  <2>2. DOMAIN Restrict(table, window) = window
    BY DEF Restrict
  <2> HIDE DEF window
  <2>3. S \subseteq window
    BY <2>1, <2>2 DEF InGroup
  <2> QED
    BY <1>1, <1>4, <2>3
<1> QED
  BY <1>2, <1>3, <1>4 DEF Parts

LEMMA TableIsRows ==
  /\ DOMAIN Table = Rows
  /\ \A c \in Rows : Table[c] = clicks[c]
  /\ Rows \subseteq Ids
BY DEF Table, Restrict, Rows

LEMMA TypeInit == Init => TypeOK
<1> SUFFICES ASSUME Init PROVE TypeOK
  OBVIOUS
<1>1. now \in Times
  BY BoundAssumption DEF Init, Times
<1>2. requests \in [Requests -> RequestStates]
  BY Constructed DEF Init
<1> QED
  BY <1>1, <1>2 DEF Init, TypeOK

LEMMA LoadedAnswer ==
  ASSUME TypeOK, NEW range \in Ranges
  PROVE  [start |-> StartDate(range, now), known |-> Rows,
          parts |-> [p \in Parts |-> {}]] \in Answer
BY StartInTime DEF TypeOK, Answer, Rows

LEMMA QueriedAnswer ==
  ASSUME NEW a \in Answer, NEW p \in Parts, NEW S \in SUBSET Ids
  PROVE  /\ [a EXCEPT !.parts[p] = S] \in Answer
         /\ [a EXCEPT !.parts[p] = S].start = a.start
         /\ [a EXCEPT !.parts[p] = S].known = a.known
         /\ [a EXCEPT !.parts[p] = S].parts = [a.parts EXCEPT ![p] = S]
BY DEF Answer

LEMMA TypeRequest ==
  ASSUME TypeOK, NEW r \in Requests, GetAnalytics(r)
  PROVE  TypeOK'
<1> DEFINE m == requests[r]
<1>1. ASSUME NEW range \in Ranges, MissAnswer(r, range) PROVE TypeOK'
  BY <1>1, Constructed, Updated DEF MissAnswer, TypeOK
<1>2. CASE LoadUrl(r)
  <2> DEFINE a == [start |-> StartDate(m.range, now), known |-> Rows,
                   parts |-> [p \in Parts |-> {}]]
  <2>1. m.range \in Ranges
    BY <1>2, Shapes DEF LoadUrl, TypeOK, LoadingStates
  <2>2. Querying(m.range, a, Parts) \in RequestStates
    BY <2>1, LoadedAnswer, Constructed
  <2>3. requests' \in [Requests -> RequestStates]
    BY <1>2, <2>2, Updated DEF LoadUrl
  <2> QED
    BY <1>2, <2>3 DEF LoadUrl, TypeOK
<1>3. ASSUME NEW p \in Parts, Query(r, p) PROVE TypeOK'
  <2>1. m \in QueryStates
    BY <1>3, Shapes DEF Query, TypeOK
  <2>2. m.range \in Ranges /\ m.answer \in Answer /\ m.due \in SUBSET Parts
    BY <2>1 DEF QueryStates
  <2>3. PICK S \in PartRows(p, Table, m.answer.start) :
          Become(r, Querying(m.range, [m.answer EXCEPT !.parts[p] = S], m.due \ {p}))
    BY <1>3 DEF Query
  <2>4. Querying(m.range, [m.answer EXCEPT !.parts[p] = S], m.due \ {p})
          \in RequestStates
    <3>1. S \subseteq Ids
      BY <2>2, PartsAreRows, TableIsRows
    <3> QED
      BY <2>2, <3>1, QueriedAnswer, Constructed
  <2>5. requests' \in [Requests -> RequestStates]
    BY <2>3, <2>4, Updated
  <2> QED
    BY <1>3, <2>5 DEF Query, TypeOK
<1>4. CASE StoreAnswer(r)
  <2>1. m.answer \in Answer
    BY <1>4, Shapes DEF StoreAnswer, TypeOK, QueryStates
  <2>2. requests' \in [Requests -> RequestStates]
    BY <1>4, Constructed, Updated DEF StoreAnswer
  <2> QED
    BY <1>4, <2>1, <2>2 DEF StoreAnswer, TypeOK
<1>5. CASE Abandon(r)
  BY <1>5, Constructed, Updated DEF Abandon, TypeOK
<1> QED
  BY <1>1, <1>2, <1>3, <1>4, <1>5 DEF GetAnalytics

LEMMA TypeNext ==
  ASSUME TypeOK, [Next]_vars
  PROVE  TypeOK'
<1>1. CASE Tick
  BY <1>1, BoundAssumption DEF Tick, TypeOK, Times
<1>2. ASSUME NEW c \in Ids, NEW t \in Times, NEW g \in Groups, InsertClick(c, t, g)
      PROVE  TypeOK'
  <2>1. [at |-> t, group |-> g] \in Click
    BY DEF Click
  <2> QED
    BY <1>2, <2>1 DEF InsertClick, TypeOK
<1>3. ASSUME NEW r \in Requests, GetAnalytics(r) PROVE TypeOK'
  BY <1>3, TypeRequest
<1>4. ASSUME NEW range \in Ranges, ExpireAnswer(range) PROVE TypeOK'
  BY <1>4 DEF ExpireAnswer, TypeOK
<1>5. CASE UNCHANGED vars
  BY <1>5 DEF vars, TypeOK
<1> QED
  BY <1>1, <1>2, <1>3, <1>4, <1>5 DEF Next

-----------------------------------------------------------------------------
(* Answers.  What the invariant says of an answer, as a predicate on the   *)
(* rows and the clock.                                                     *)

Present(rows) == {c \in Ids : rows[c] # None}
Fits(rows, a, done) ==
  \A p \in done : \E seen \in Moments :
    /\ a.known \subseteq seen /\ seen \subseteq Present(rows)
    /\ a.parts[p] \in PartRows(p, Restrict(rows, seen), a.start)
Starts(range, t) == {StartDate(range, u) : u \in 0 .. t}
Known(rows, a) == a.known \subseteq Present(rows)

\* What holds of an answer once the parts done are there.
Right(rows, t, range, a, done) ==
  Fits(rows, a, done) /\ a.start \in Starts(range, t) /\ Known(rows, a)

AnswersRight == \A range \in Ranges :
  answers[range] # None => Right(clicks, now, range, answers[range], Parts)
RequestsRight == \A r \in Requests : requests[r].pc = "query" =>
  Right(clicks, now, requests[r].range, requests[r].answer, Parts \ requests[r].due)

LEMMA RightIsIInv ==
  TypeOK => (IInv <=> AnswersRight /\ RequestsRight /\ RowsInOrder)
<1>1. Rows = Present(clicks)
  BY DEF Rows, Present
<1>2. \A a, done : Agrees(a, done) <=> Fits(clicks, a, done)
  BY <1>1 DEF Agrees, Fits
<1>3. \A a : a.known \subseteq Rows <=> Known(clicks, a)
  BY <1>1 DEF Known
<1>4. \A range : StartsOf(range) = Starts(range, now)
  BY DEF StartsOf, Starts
<1> QED
  BY <1>2, <1>3, <1>4 DEF IInv, AnswersAgree, AnswersOfRange, RequestsAgree,
     KnownAreRows, AnswersRight, RequestsRight, Right

-----------------------------------------------------------------------------
(* Steps.                                                                  *)

\* Time passes, and a row is inserted: what was right stays right.
LEMMA Later ==
  ASSUME NEW rows, NEW t \in Nat, NEW u \in Nat, t <= u, NEW range, NEW a, NEW done,
         Right(rows, t, range, a, done)
  PROVE  Right(rows, u, range, a, done)
<1>1. 0 .. t \subseteq 0 .. u
  OBVIOUS
<1> QED
  BY <1>1 DEF Right, Starts

LEMMA Inserted ==
  ASSUME NEW rows, NEW after, NEW c \in Ids, rows[c] = None, after[c] # None,
         \A d \in Ids \ {c} : after[d] = rows[d],
         NEW t, NEW range, NEW a, NEW done, Right(rows, t, range, a, done)
  PROVE  Right(after, t, range, a, done)
<1>1. Present(rows) \subseteq Present(after)
  BY DEF Present
<1>2. ASSUME NEW seen, seen \subseteq Present(rows)
      PROVE  Restrict(after, seen) = Restrict(rows, seen)
  <2>1. \A d \in seen : after[d] = rows[d]
    BY <1>2 DEF Present
  <2> QED
    BY <2>1 DEF Restrict
<1>3. Fits(after, a, done)
  <2> SUFFICES ASSUME NEW p \in done
               PROVE  \E seen \in Moments :
                        /\ a.known \subseteq seen /\ seen \subseteq Present(after)
                        /\ a.parts[p] \in PartRows(p, Restrict(after, seen), a.start)
    BY DEF Fits
  <2>1. PICK seen \in Moments :
          /\ a.known \subseteq seen /\ seen \subseteq Present(rows)
          /\ a.parts[p] \in PartRows(p, Restrict(rows, seen), a.start)
    BY DEF Right, Fits
  <2>2. Restrict(after, seen) = Restrict(rows, seen)
    BY <1>2, <2>1
  <2> QED
    BY <1>1, <2>1, <2>2
<1>4. Known(after, a)
  BY <1>1 DEF Right, Known
<1> QED
  BY <1>3, <1>4 DEF Right

\* Rows are inserted one after another.
LEMMA OrderKept ==
  ASSUME TypeOK, RowsInOrder, NEW c \in Ids, NEW t \in Times, NEW g \in Groups,
         InsertClick(c, t, g)
  PROVE  RowsInOrder'
<1>1. PICK n \in 0 .. MaxClicks : Rows = 1 .. n
  BY DEF RowsInOrder, Moments
<1>2. [at |-> t, group |-> g] # None
  BY NoneIsNoAnswer DEF Click
<1>3. Rows' = Rows \union {c}
  BY <1>2 DEF InsertClick, TypeOK, Rows
<1>4. c \notin 1 .. n /\ \A d \in Ids : d < c => d \in 1 .. n
  BY <1>1 DEF InsertClick, Rows
<1>5. c = n + 1
  BY <1>4, BoundAssumption DEF Ids
<1>6. Rows' = 1 .. n + 1 /\ n + 1 \in 0 .. MaxClicks
  BY <1>1, <1>3, <1>5, BoundAssumption DEF Ids
<1> QED
  BY <1>6 DEF RowsInOrder, Moments

\* A query answers one more part.
LEMMA Answered ==
  ASSUME NEW t, NEW range, NEW a \in Answer, NEW due \in SUBSET Parts,
         NEW p \in due, NEW S \in PartRows(p, Table, a.start),
         RowsInOrder, Right(clicks, t, range, a, Parts \ due)
  PROVE  Right(clicks, t, range, [a EXCEPT !.parts[p] = S], Parts \ (due \ {p}))
<1> DEFINE b == [a EXCEPT !.parts[p] = S]
<1>1. p \in Parts /\ S \subseteq Ids
  BY PartsAreRows, TableIsRows
<1>2. b.start = a.start /\ b.known = a.known /\ b.parts = [a.parts EXCEPT ![p] = S]
  BY <1>1, QueriedAnswer
<1>3. \A q \in Parts : b.parts[q] = IF q = p THEN S ELSE a.parts[q]
  BY <1>2 DEF Answer
<1> HIDE DEF b
<1>4. /\ Rows \in Moments /\ Rows \subseteq Present(clicks) /\ a.known \subseteq Rows
      /\ S \in PartRows(p, Restrict(clicks, Rows), a.start)
  BY DEF RowsInOrder, Right, Known, Rows, Present, Table
<1>5. Fits(clicks, b, Parts \ (due \ {p}))
  <2> SUFFICES ASSUME NEW q \in Parts \ (due \ {p})
               PROVE  \E seen \in Moments :
                        /\ b.known \subseteq seen /\ seen \subseteq Present(clicks)
                        /\ b.parts[q] \in PartRows(q, Restrict(clicks, seen), b.start)
    BY DEF Fits
  <2>1. CASE q = p
    BY <1>2, <1>3, <1>4, <2>1
  <2>2. CASE q # p
    <3>1. q \in Parts \ due /\ b.parts[q] = a.parts[q]
      BY <1>3, <2>2
    <3> QED
      BY <1>2, <3>1 DEF Right, Fits
  <2> QED
    BY <2>1, <2>2
<1>6. Known(clicks, b) /\ b.start \in Starts(range, t)
  BY <1>2 DEF Right, Known
<1>7. Right(clicks, t, range, b, Parts \ (due \ {p}))
  BY <1>5, <1>6 DEF Right
<1> QED
  BY <1>7 DEF b

\* A step of a request that leaves the answers alone.
LEMMA AnswersQuiet ==
  ASSUME AnswersRight, UNCHANGED <<now, clicks, answers>>
  PROVE  AnswersRight'
BY DEF AnswersRight

LEMMA RequestsBut ==
  ASSUME RequestsRight, UNCHANGED <<now, clicks>>, NEW r \in Requests,
         \A s \in Requests \ {r} : requests'[s] = requests[s],
         requests'[r].pc = "query" =>
           Right(clicks, now, requests'[r].range, requests'[r].answer,
                 Parts \ requests'[r].due)
  PROVE  RequestsRight'
BY DEF RequestsRight

LEMMA RightRequest ==
  ASSUME TypeOK, AnswersRight, RequestsRight, RowsInOrder, NEW r \in Requests,
         GetAnalytics(r)
  PROVE  AnswersRight' /\ RequestsRight'
<1> DEFINE m == requests[r]
<1>1. ASSUME NEW range \in Ranges, MissAnswer(r, range)
      PROVE  AnswersRight' /\ RequestsRight'
  <2>1. requests'[r] = Loading(range)
        /\ \A s \in Requests \ {r} : requests'[s] = requests[s]
    BY <1>1, Constructed, Updated DEF MissAnswer
  <2> QED
    BY <1>1, <2>1, Labels, AnswersQuiet, RequestsBut DEF MissAnswer
<1>2. CASE LoadUrl(r)
  <2> DEFINE a == [start |-> StartDate(m.range, now), known |-> Rows,
                   parts |-> [p \in Parts |-> {}]]
  <2>1. m.range \in Ranges
    BY <1>2, Shapes DEF LoadUrl, TypeOK, LoadingStates
  <2>2. Querying(m.range, a, Parts) \in RequestStates
    BY <2>1, LoadedAnswer, Constructed
  <2>3. requests'[r] = Querying(m.range, a, Parts)
        /\ \A s \in Requests \ {r} : requests'[s] = requests[s]
    BY <1>2, <2>2, Updated DEF LoadUrl
  <2>4. a.start \in Starts(m.range, now)
    BY BoundAssumption DEF TypeOK, Times, Starts
  <2>5. Known(clicks, a) /\ Fits(clicks, a, Parts \ Parts)
    BY DEF Known, Rows, Present, Fits
  <2> HIDE DEF a
  <2>6. Right(clicks, now, m.range, a, Parts \ Parts)
    BY <2>4, <2>5 DEF Right
  <2> QED
    BY <1>2, <2>3, <2>6, Labels, AnswersQuiet, RequestsBut DEF LoadUrl
<1>3. ASSUME NEW p \in Parts, Query(r, p)
      PROVE  AnswersRight' /\ RequestsRight'
  <2>1. m \in QueryStates /\ m.pc = "query" /\ p \in m.due
    BY <1>3, Shapes DEF Query, TypeOK
  <2>2. m.range \in Ranges /\ m.answer \in Answer /\ m.due \in SUBSET Parts
    BY <2>1 DEF QueryStates
  <2>3. PICK S \in PartRows(p, Table, m.answer.start) :
          Become(r, Querying(m.range, [m.answer EXCEPT !.parts[p] = S], m.due \ {p}))
    BY <1>3 DEF Query
  <2> DEFINE b == [m.answer EXCEPT !.parts[p] = S]
  <2>4. Querying(m.range, b, m.due \ {p}) \in RequestStates
    BY <2>2, PartsAreRows, TableIsRows, QueriedAnswer, Constructed
  <2>5. requests'[r] = Querying(m.range, b, m.due \ {p})
        /\ \A s \in Requests \ {r} : requests'[s] = requests[s]
    BY <2>3, <2>4, Updated
  <2>6. Right(clicks, now, m.range, m.answer, Parts \ m.due)
    BY <2>1 DEF RequestsRight
  <2>7. Right(clicks, now, m.range, b, Parts \ (m.due \ {p}))
    BY <2>1, <2>2, <2>6, Answered
  <2> HIDE DEF b
  <2>8. UNCHANGED <<now, clicks, answers>>
    BY <1>3 DEF Query
  <2> QED
    BY <2>5, <2>7, <2>8, Labels, AnswersQuiet, RequestsBut
<1>4. CASE StoreAnswer(r)
  <2>1. m.pc = "query" /\ m.due = {} /\ UNCHANGED <<now, clicks>>
    BY <1>4 DEF StoreAnswer
  <2>2. Right(clicks, now, m.range, m.answer, Parts)
    <3>1. Parts \ m.due = Parts
      BY <2>1
    <3>2. Right(clicks, now, m.range, m.answer, Parts \ m.due)
      BY <2>1 DEF RequestsRight
    <3> QED
      BY <3>1, <3>2
  <2>3. \A k \in Ranges : answers'[k] = IF k = m.range THEN m.answer ELSE answers[k]
    BY <1>4 DEF StoreAnswer, TypeOK
  <2>4. requests'[r] = Idle /\ \A s \in Requests \ {r} : requests'[s] = requests[s]
    BY <1>4, Constructed, Updated DEF StoreAnswer
  <2>5. AnswersRight'
    BY <2>1, <2>2, <2>3 DEF AnswersRight
  <2>6. RequestsRight'
    BY <2>1, <2>4, Labels, RequestsBut
  <2> QED
    BY <2>5, <2>6
<1>5. CASE Abandon(r)
  <2>1. requests'[r] = Idle /\ \A s \in Requests \ {r} : requests'[s] = requests[s]
    BY <1>5, Constructed, Updated DEF Abandon
  <2> QED
    BY <1>5, <2>1, Labels, AnswersQuiet, RequestsBut DEF Abandon
<1> QED
  BY <1>1, <1>2, <1>3, <1>4, <1>5 DEF GetAnalytics

LEMMA RightNext ==
  ASSUME TypeOK, AnswersRight, RequestsRight, RowsInOrder, [Next]_vars
  PROVE  AnswersRight' /\ RequestsRight'
<1>1. CASE Tick
  <2>1. now \in Nat /\ now' \in Nat /\ now <= now'
    BY <1>1, BoundAssumption DEF Tick, TypeOK, Times
  <2>2. UNCHANGED <<clicks, answers, requests>>
    BY <1>1 DEF Tick
  <2>3. AnswersRight'
    BY <2>1, <2>2, Later DEF AnswersRight
  <2>4. RequestsRight'
    BY <2>1, <2>2, Later DEF RequestsRight
  <2> QED
    BY <2>3, <2>4
<1>2. ASSUME NEW c \in Ids, NEW t \in Times, NEW g \in Groups, InsertClick(c, t, g)
      PROVE  AnswersRight' /\ RequestsRight'
  <2>1. [at |-> t, group |-> g] # None
    BY NoneIsNoAnswer DEF Click
  <2>2. /\ clicks[c] = None /\ clicks'[c] # None
        /\ \A d \in Ids \ {c} : clicks'[d] = clicks[d]
    BY <1>2, <2>1 DEF InsertClick, TypeOK
  <2>3. UNCHANGED <<now, answers, requests>>
    BY <1>2 DEF InsertClick
  <2>4. AnswersRight'
    BY <2>2, <2>3, Inserted DEF AnswersRight
  <2>5. RequestsRight'
    BY <2>2, <2>3, Inserted DEF RequestsRight
  <2> QED
    BY <2>4, <2>5
<1>3. ASSUME NEW r \in Requests, GetAnalytics(r)
      PROVE  AnswersRight' /\ RequestsRight'
  BY <1>3, RightRequest
<1>4. ASSUME NEW range \in Ranges, ExpireAnswer(range)
      PROVE  AnswersRight' /\ RequestsRight'
  <2>1. \A k \in Ranges : answers'[k] # None => answers'[k] = answers[k]
    BY <1>4 DEF ExpireAnswer, TypeOK
  <2>2. UNCHANGED <<now, clicks, requests>>
    BY <1>4 DEF ExpireAnswer
  <2>3. AnswersRight'
    BY <2>1, <2>2 DEF AnswersRight
  <2> QED
    BY <2>2, <2>3 DEF RequestsRight
<1>5. CASE UNCHANGED vars
  BY <1>5 DEF vars, AnswersRight, RequestsRight
<1> QED
  BY <1>1, <1>2, <1>3, <1>4, <1>5 DEF Next

-----------------------------------------------------------------------------
LEMMA OrderInit == Init => RowsInOrder
<1> SUFFICES ASSUME Init PROVE RowsInOrder
  OBVIOUS
<1>1. Rows = 1 .. 0
  BY DEF Init, Rows
<1> QED
  BY <1>1, BoundAssumption DEF RowsInOrder, Moments

LEMMA OrderNext ==
  ASSUME TypeOK, RowsInOrder, [Next]_vars
  PROVE  RowsInOrder'
<1>1. ASSUME NEW c \in Ids, NEW t \in Times, NEW g \in Groups, InsertClick(c, t, g)
      PROVE  RowsInOrder'
  BY <1>1, OrderKept
<1>2. CASE UNCHANGED clicks
  BY <1>2 DEF RowsInOrder, Rows
<1> QED
  BY <1>1, <1>2 DEF Next, Tick, GetAnalytics, MissAnswer, LoadUrl, Query, StoreAnswer,
     Abandon, ExpireAnswer, vars

LEMMA AllRight == Spec => [](TypeOK /\ AnswersRight /\ RequestsRight /\ RowsInOrder)
<1> DEFINE All == TypeOK /\ AnswersRight /\ RequestsRight /\ RowsInOrder
<1>1. Init => All
  BY TypeInit, OrderInit, Labels DEF Init, AnswersRight, RequestsRight
<1>2. All /\ [Next]_vars => All'
  BY TypeNext, RightNext, OrderNext
<1> QED
  BY <1>1, <1>2, PTL DEF Spec

\* Whatever rows arrive while the queries of a request run, and whenever its answer
\* is cached, for any number of requests, rows and ranges, the answers of
\* AnalyticsQueryService satisfy the whole invariant.
THEOREM AnalyticsInvariant == Spec => []IInv
<1>1. TypeOK /\ AnswersRight /\ RequestsRight /\ RowsInOrder => IInv
  BY RightIsIInv
<1> QED
  BY <1>1, AllRight, PTL

\* The table, the answers and the requests keep their shape: no window begins outside
\* of time.
THEOREM AnalyticsTypes == Spec => []TypeOK
<1>1. IInv => TypeOK
  BY DEF IInv
<1> QED
  BY <1>1, AnalyticsInvariant, PTL

\* Every part of a cached answer, the lists of largest groups and of recent clicks
\* too, is what its query returns on the table as it was at one moment since the
\* request began, for one and the same window: the parts disagree only about rows
\* inserted while the queries of the request ran.
THEOREM PartsAgree == Spec => []AnswersAgree
<1>1. IInv => AnswersAgree
  BY DEF IInv
<1> QED
  BY <1>1, AnalyticsInvariant, PTL

\* A cached answer covers the range in its key, counted back from some earlier time.
THEOREM AnswersCoverRange == Spec => []AnswersOfRange
<1>1. IInv => AnswersOfRange
  BY DEF IInv
<1> QED
  BY <1>1, AnalyticsInvariant, PTL

-----------------------------------------------------------------------------
(* What was counted stays counted.                                         *)

\* The cached answer of a range covers row c, and so does every answer of the range
\* that is past its counting query.
CountedBy(r, c, range) ==
  LET m == requests[r] IN
  m.pc = "query" /\ m.range = range /\ "counts" \notin m.due => Covers(m.answer, c)
Counted(c, range) ==
  /\ c \in Rows
  /\ answers[range] # None => Covers(answers[range], c)
  /\ \A r \in Requests : CountedBy(r, c, range)

LEMMA CountedRequest ==
  ASSUME TypeOK, NEW range \in Ranges, NEW c \in Ids, Counted(c, range),
         NEW r \in Requests, GetAnalytics(r)
  PROVE  Counted(c, range)'
<1> DEFINE m == requests[r]
<1>0. UNCHANGED clicks /\ c \in Rows'
  BY DEF Counted, Rows, GetAnalytics, MissAnswer, LoadUrl, Query, StoreAnswer, Abandon
<1>1. CASE (\E w \in Ranges : MissAnswer(r, w)) \/ LoadUrl(r) \/ Abandon(r)
  <2>1. PICK n \in RequestStates :
          Become(r, n) /\ (n.pc = "query" => "counts" \in n.due)
    <3>1. CASE LoadUrl(r)
      <4>1. m.range \in Ranges
        BY <3>1, Shapes DEF LoadUrl, TypeOK, LoadingStates
      <4>2. PICK a \in Answer : Become(r, Querying(m.range, a, Parts))
        BY <3>1, <4>1, LoadedAnswer DEF LoadUrl
      <4>3. Querying(m.range, a, Parts) \in RequestStates
        BY <4>1, Constructed
      <4> QED
        BY <4>2, <4>3, Labels DEF Parts
    <3>2. CASE (\E w \in Ranges : MissAnswer(r, w)) \/ Abandon(r)
      BY <3>2, Constructed, Labels DEF MissAnswer, Abandon
    <3> QED
      BY <1>1, <3>1, <3>2
  <2>2. requests'[r] = n /\ \A s \in Requests \ {r} : requests'[s] = requests[s]
    BY <2>1, Updated
  <2>3. UNCHANGED answers
    BY <1>1 DEF MissAnswer, LoadUrl, Abandon
  <2> QED
    BY <1>0, <2>1, <2>2, <2>3 DEF Counted, CountedBy, Covers
<1>2. ASSUME NEW p \in Parts, Query(r, p) PROVE Counted(c, range)'
  <2>1. m \in QueryStates /\ m.pc = "query" /\ p \in m.due /\ UNCHANGED answers
    BY <1>2, Shapes DEF Query, TypeOK
  <2>2. m.range \in Ranges /\ m.answer \in Answer /\ m.due \in SUBSET Parts
    BY <2>1 DEF QueryStates
  <2>3. PICK S \in PartRows(p, Table, m.answer.start) :
          Become(r, Querying(m.range, [m.answer EXCEPT !.parts[p] = S], m.due \ {p}))
    BY <1>2 DEF Query
  <2>4. PICK b : b = [m.answer EXCEPT !.parts[p] = S]
    OBVIOUS
  <2>5. b \in Answer /\ b.parts = [m.answer.parts EXCEPT ![p] = S]
    BY <2>2, <2>4, PartsAreRows, TableIsRows, QueriedAnswer
  <2>6. requests'[r] = Querying(m.range, b, m.due \ {p})
        /\ \A s \in Requests \ {r} : requests'[s] = requests[s]
    <3>1. Querying(m.range, b, m.due \ {p}) \in RequestStates
      BY <2>2, <2>5, Constructed
    <3> QED
      BY <2>3, <2>4, <3>1, Updated
  <2>7. b.start = m.answer.start
    BY <2>2, <2>4 DEF Answer
  <2>8. m.range = range /\ "counts" \notin m.due \ {p} => Covers(b, c)
    <3>1. CASE p = "counts"
      <4>1. S = Within(Table, m.answer.start)
        BY <3>1, PartsAreRows
      <4>2. b.parts["counts"] = S
        BY <2>2, <2>5, <3>1 DEF Answer
      <4>3. c \in Rows /\ clicks[c].at \in Nat /\ m.answer.start \in Nat
        BY <2>2, BoundAssumption DEF Counted, Rows, TypeOK, Click, Answer, Times
      <4> QED
        BY <2>7, <4>1, <4>2, <4>3, TableIsRows DEF Within, Covers
    <3>2. CASE p # "counts"
      <4>1. b.parts["counts"] = m.answer.parts["counts"]
        BY <2>2, <2>5, <3>2 DEF Answer, Parts
      <4>2. "counts" \notin m.due \ {p} => "counts" \notin m.due
        BY <3>2
      <4> QED
        BY <2>1, <2>7, <4>1, <4>2 DEF Counted, CountedBy, Covers
    <3> QED
      BY <3>1, <3>2
  <2>9. CountedBy(r, c, range)'
    BY <1>0, <2>6, <2>8, Labels DEF CountedBy, Covers
  <2>10. \A s \in Requests \ {r} : CountedBy(s, c, range)'
    BY <1>0, <2>6 DEF Counted, CountedBy, Covers
  <2> QED
    BY <1>0, <2>1, <2>9, <2>10 DEF Counted, Covers
<1>3. CASE StoreAnswer(r)
  <2>1. requests'[r] = Idle /\ \A s \in Requests \ {r} : requests'[s] = requests[s]
    BY <1>3, Constructed, Updated DEF StoreAnswer
  <2>2. answers'[range] = IF m.range = range THEN m.answer ELSE answers[range]
    BY <1>3 DEF StoreAnswer, TypeOK
  <2>3. m.pc = "query" /\ "counts" \notin m.due
    BY <1>3 DEF StoreAnswer
  <2>4. answers'[range] # None => Covers(answers'[range], c)
    BY <2>2, <2>3 DEF Counted, CountedBy
  <2> QED
    BY <1>0, <2>1, <2>4, Labels DEF Counted, CountedBy, Covers
<1> QED
  BY <1>1, <1>2, <1>3 DEF GetAnalytics

LEMMA CountedNext ==
  ASSUME TypeOK, NEW range \in Ranges, NEW c \in Ids, Counted(c, range),
         [Next]_vars
  PROVE  Counted(c, range)'
<1>1. ASSUME NEW r \in Requests, GetAnalytics(r) PROVE Counted(c, range)'
  BY <1>1, CountedRequest
<1>2. ASSUME NEW d \in Ids, NEW t \in Times, NEW g \in Groups, InsertClick(d, t, g)
      PROVE  Counted(c, range)'
  <2>1. d # c /\ clicks'[c] = clicks[c]
    BY <1>2 DEF Counted, Rows, InsertClick, TypeOK
  <2> QED
    BY <1>2, <2>1 DEF InsertClick, Counted, CountedBy, Covers, Rows
<1>3. ASSUME NEW w \in Ranges, ExpireAnswer(w) PROVE Counted(c, range)'
  <2>1. answers'[range] # None => answers'[range] = answers[range]
    BY <1>3 DEF ExpireAnswer, TypeOK
  <2>2. UNCHANGED <<clicks, requests>>
    BY <1>3 DEF ExpireAnswer
  <2> QED
    BY <2>1, <2>2 DEF Counted, CountedBy, Covers, Rows
<1>4. CASE Tick \/ UNCHANGED vars
  BY <1>4 DEF Tick, vars, Counted, CountedBy, Covers, Rows
<1> QED
  BY <1>1, <1>2, <1>3, <1>4 DEF Next

\* Once the cached answer of a range covers a row, and every answer of the range that
\* is past its counting query does, none that misses the row is cached later: no slow
\* request puts an older count back.  It is the safety half of EventuallyCounted.
THEOREM CountedForGood ==
  ASSUME NEW range \in Ranges, NEW c \in Ids
  PROVE  Spec => [](Counted(c, range) => []Counted(c, range))
<1>1. TypeOK /\ Counted(c, range) /\ [Next]_vars => Counted(c, range)'
  BY CountedNext
<1> QED
  BY <1>1, AnalyticsTypes, PTL DEF Spec

=============================================================================

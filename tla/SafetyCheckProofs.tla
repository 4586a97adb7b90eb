--------------------------- MODULE SafetyCheckProofs ---------------------------
(***************************************************************************)
(* The invariant of SafetyCheck, for every number of calls and URLs, every *)
(* quota and every length of a month.                                      *)
(***************************************************************************)
EXTENDS SafetyCheck, FiniteSetTheorems, TLAPS

\* What a call's program counter says about its record.
LEMMA Shapes ==
  ASSUME NEW m \in RequestStates
  PROVE  /\ m.pc = "idle" <=> m = Idle
         /\ m.pc \in {"row", "remember"} <=> m \in BlockStates
         /\ m.pc = "quota" <=> m \in QuotaStates
         /\ m.pc = "expire" <=> m \in ExpireStates
         /\ m.pc = "fetch" <=> m \in FetchStates
         /\ m.pc = "store" <=> m \in StoreStates
BY DEF RequestStates, Idle, BlockStates, QuotaStates, ExpireStates, FetchStates,
       StoreStates

LEMMA Constructed ==
  /\ Idle \in RequestStates
  /\ \A d \in Domains : /\ Asking("row", d) \in RequestStates
                        /\ Asking("remember", d) \in RequestStates
  /\ \A u \in Urls \ Trusted : Checking("quota", u) \in RequestStates
  /\ \A u \in Urls \ Trusted, m \in Months : Counted("expire", u, m) \in RequestStates
  /\ \A u \in Asked, m \in Months : Counted("fetch", u, m) \in RequestStates
  /\ \A u \in Asked, v \in {"safe", "unsafe"} : Storing(u, v) \in RequestStates
BY DEF RequestStates, Idle, BlockStates, QuotaStates, ExpireStates, FetchStates,
       StoreStates, Asking, Checking, Counted, Storing

LEMMA Labels ==
  /\ Idle.pc = "idle"
  /\ \A pc, d : Asking(pc, d).pc = pc
  /\ \A pc, u : Checking(pc, u).pc = pc /\ Checking(pc, u).url = u
  /\ \A pc, u, m : /\ Counted(pc, u, m).pc = pc /\ Counted(pc, u, m).url = u
                   /\ Counted(pc, u, m).month = m
  /\ \A u, v : /\ Storing(u, v).pc = "store" /\ Storing(u, v).url = u
               /\ Storing(u, v).verdict = v
BY DEF Idle, Asking, Checking, Counted, Storing

LEMMA Updated ==
  ASSUME TypeOK, NEW r \in Requests, NEW m \in RequestStates, Become(r, m)
  PROVE  /\ requests' \in [Requests -> RequestStates]
         /\ requests'[r] = m
         /\ \A s \in Requests \ {r} : requests'[s] = requests[s]
BY DEF TypeOK, Become

\* The numbers of the model.
LEMMA Numbers ==
  /\ MonthlyQuota \in Nat \ {0} /\ MonthDays \in Nat \ {0} /\ QuotaDays \in Nat
  /\ QuotaDays >= MonthDays /\ MaxMonth \in Nat \ {0} /\ None \notin Nat
  /\ Months \subseteq Nat /\ Asked = Urls \ (Trusted \union Local)
BY QuotaAssumption, NoneIsNothing DEF Months, Asked

\* After its count a check calls the API or is done.
LEMMA AfterCountIs ==
  ASSUME NEW u \in Urls \ Trusted, NEW m \in Months, NEW count
  PROVE  /\ AfterCount(u, m, count) \in RequestStates
         /\ \/ AfterCount(u, m, count) = Idle
            \/ Within(count) /\ AfterCount(u, m, count) = Counted("fetch", u, m)
<1>1. u \notin Local => u \in Asked
  BY DEF Asked
<1> QED
  BY <1>1, Constructed DEF AfterCount

-----------------------------------------------------------------------------
(* Types.                                                                  *)

LEMMA TypeInit == Init => TypeOK
<1> SUFFICES ASSUME Init PROVE TypeOK
  OBVIOUS
<1>1. 1 \in Months /\ MonthDays - 1 \in 0 .. MonthDays - 1
  BY Numbers DEF Months
<1>2. requests \in [Requests -> RequestStates]
  BY Constructed DEF Init
<1>3. \A n \in Nat : 0 \in 0 .. n + 1
  OBVIOUS
<1>4. 0 \in 0 .. MonthlyQuota + 1
  BY <1>3, Numbers
<1>5. Asked \subseteq Urls
  BY DEF Asked
<1> QED
  BY <1>1, <1>2, <1>4, <1>5 DEF Init, TypeOK

\* isDomainBlocked
LEMMA TypeBlock ==
  ASSUME TypeOK, NEW r \in Requests,
         \/ \E d \in Domains : AskBlockCache(r, d)
         \/ QueryBlocked(r) \/ RememberBlocked(r)
  PROVE  TypeOK'
<1> USE DEF calendar, outside, counting, judging
<1>1. ASSUME NEW d \in Domains, AskBlockCache(r, d) PROVE TypeOK'
  BY <1>1, Constructed, Updated DEF AskBlockCache, TypeOK
<1>2. CASE QueryBlocked(r) \/ RememberBlocked(r)
  <2>1. requests[r].domain \in Domains
    BY <1>2, Shapes DEF TypeOK, QueryBlocked, RememberBlocked, BlockStates
  <2>2. requests' \in [Requests -> RequestStates]
    BY <1>2, <2>1, Constructed, Updated DEF QueryBlocked, RememberBlocked
  <2> QED
    BY <1>2, <2>1, <2>2 DEF QueryBlocked, RememberBlocked, TypeOK
<1> QED
  BY <1>1, <1>2

\* The count of the quota
LEMMA TypeCount ==
  ASSUME TypeOK, NEW r \in Requests, CountCall(r) \/ KeepQuota(r)
  PROVE  TypeOK'
<1> USE DEF calendar, outside, counting, judging
<1>0. month \in Months /\ quota[month].count \in 0 .. MonthlyQuota + 1
  BY DEF TypeOK
<1>1. CASE CountCall(r)
  <2> DEFINE u == requests[r].url
             count == Least(quota[month].count + 1, MonthlyQuota + 1)
  <2>1. u \in Urls \ Trusted
    BY <1>1, Shapes DEF TypeOK, CountCall, QuotaStates
  <2>2. count \in 0 .. MonthlyQuota + 1
    BY <1>0, Numbers DEF Least
  <2>3. requests' \in [Requests -> RequestStates]
    <3>1. /\ Counted("expire", u, month) \in RequestStates
          /\ AfterCount(u, month, count) \in RequestStates
      BY <1>0, <2>1, Constructed, AfterCountIs
    <3> QED
      BY <1>1, <3>1, Updated DEF CountCall
  <2>4. quota' \in [Months -> [count : 0 .. MonthlyQuota + 1,
                              left : 1 .. QuotaDays \union {None}]]
    BY <1>0, <1>1, <2>2 DEF CountCall, TypeOK
  <2> QED
    BY <1>1, <2>3, <2>4 DEF CountCall, TypeOK
<1>2. CASE KeepQuota(r)
  <2> DEFINE m == requests[r].month
  <2>1. m \in Months /\ requests[r].url \in Urls \ Trusted
    BY <1>2, Shapes DEF TypeOK, KeepQuota, ExpireStates
  <2>2. QuotaLife \in 1 .. QuotaDays
    BY Numbers DEF QuotaLife
  <2>3. requests' \in [Requests -> RequestStates]
    BY <1>2, <2>1, AfterCountIs, Updated DEF KeepQuota
  <2>4. quota' \in [Months -> [count : 0 .. MonthlyQuota + 1,
                              left : 1 .. QuotaDays \union {None}]]
    BY <1>2, <2>1, <2>2 DEF KeepQuota, TypeOK
  <2> QED
    BY <1>2, <2>3, <2>4 DEF KeepQuota, TypeOK
<1> QED
  BY <1>1, <1>2

LEMMA TypeFetch ==
  ASSUME TypeOK, NEW r \in Requests, FetchVerdict(r) \/ NoAnswer(r)
  PROVE  TypeOK'
<1> USE DEF calendar, outside, counting, judging
<1> DEFINE u == requests[r].url
           m == requests[r].month
           verdict == IF u \in listed THEN "unsafe" ELSE "safe"
<1>1. u \in Asked /\ m \in Months
  BY Shapes DEF TypeOK, FetchVerdict, NoAnswer, FetchStates
<1>2. calls' \in [Months -> 0 .. MonthlyQuota + 1]
  <2>1. Least(calls[m] + 1, MonthlyQuota + 1) \in 0 .. MonthlyQuota + 1
    <3>1. calls[m] \in 0 .. MonthlyQuota + 1
      BY <1>1 DEF TypeOK
    <3> QED
      BY <3>1, Numbers DEF Least
  <2>2. CountedCall(m)
    BY DEF FetchVerdict, NoAnswer
  <2> QED
    BY <1>1, <2>1, <2>2 DEF CountedCall, TypeOK
<1>3. CASE FetchVerdict(r)
  <2>1. Storing(u, verdict) \in RequestStates
    BY <1>1, Constructed
  <2>2. requests' \in [Requests -> RequestStates]
    BY <1>3, <2>1, Updated DEF FetchVerdict
  <2>3. newest' \in [Asked -> {None, "safe", "unsafe", "several"}]
    BY <1>1, <1>3 DEF FetchVerdict, TypeOK
  <2> QED
    BY <1>2, <1>3, <2>2, <2>3 DEF FetchVerdict, TypeOK
<1>4. CASE NoAnswer(r)
  <2>1. requests' \in [Requests -> RequestStates]
    BY <1>4, Constructed, Updated DEF NoAnswer
  <2> QED
    BY <1>2, <1>4, <2>1 DEF NoAnswer, TypeOK
<1> QED
  BY <1>3, <1>4

LEMMA TypeVerdict ==
  ASSUME TypeOK, NEW r \in Requests,
         (\E u \in Urls : ReadVerdict(r, u)) \/ StoreVerdict(r) \/ Fail(r)
  PROVE  TypeOK'
<1> USE DEF calendar, outside, counting, judging
<1>1. ASSUME NEW u \in Urls, ReadVerdict(r, u) PROVE TypeOK'
  <2>1. requests' \in [Requests -> RequestStates]
    BY <1>1, Constructed, Updated DEF ReadVerdict
  <2>2. newest' \in [Asked -> {None, "safe", "unsafe", "several"}]
    BY <1>1 DEF ReadVerdict, TypeOK
  <2> QED
    BY <1>1, <2>1, <2>2 DEF ReadVerdict, TypeOK
<1>2. CASE StoreVerdict(r)
  <2>1. requests[r].url \in Asked /\ requests[r].verdict \in {"safe", "unsafe"}
    BY <1>2, Shapes DEF TypeOK, StoreVerdict, StoreStates
  <2>2. requests' \in [Requests -> RequestStates]
    BY <1>2, Constructed, Updated DEF StoreVerdict
  <2>3. /\ verdicts' \in [Urls -> {None, "safe", "unsafe"}]
        /\ \A u \in Urls \ Asked : verdicts'[u] = None
    BY <1>2, <2>1 DEF StoreVerdict, TypeOK
  <2> QED
    BY <1>2, <2>2, <2>3 DEF StoreVerdict, TypeOK
<1>3. CASE Fail(r)
  BY <1>3, Constructed, Updated DEF Fail, TypeOK
<1> QED
  BY <1>1, <1>2, <1>3

\* What happens outside the calls.
LEMMA TypeTick ==
  ASSUME TypeOK, Tick
  PROVE  TypeOK'
<1> USE DEF calendar, outside, counting, judging
<1>1. month' \in Months /\ daysLeft' \in 0 .. MonthDays - 1
  BY Numbers DEF Tick, TypeOK, Months
<1>2. quota' \in [Months -> [count : 0 .. MonthlyQuota + 1,
                            left : 1 .. QuotaDays \union {None}]]
  <2> SUFFICES ASSUME NEW m \in Months
               PROVE  quota'[m] \in [count : 0 .. MonthlyQuota + 1,
                                     left : 1 .. QuotaDays \union {None}]
    BY DEF Tick
  <2>1. quota[m] \in [count : 0 .. MonthlyQuota + 1, left : 1 .. QuotaDays \union {None}]
    BY DEF TypeOK
  <2>2. 0 \in 0 .. MonthlyQuota + 1
    BY Numbers
  <2>3. quota[m].left # None /\ ~(quota[m].left <= 1) =>
          quota[m].left - 1 \in 1 .. QuotaDays
    BY <2>1, Numbers
  <2> QED
    BY <2>1, <2>2, <2>3 DEF Tick
<1> QED
  BY <1>1, <1>2 DEF Tick, TypeOK

LEMMA TypeOther ==
  ASSUME TypeOK,
         \/ Edit \/ UNCHANGED vars
         \/ \E m \in Months : LoseQuota(m)
         \/ \E d \in Domains : ExpireBlocked(d)
         \/ \E u \in Urls : ExpireVerdict(u)
  PROVE  TypeOK'
<1> USE DEF calendar, outside, counting, judging
<1>1. CASE Edit
  BY <1>1 DEF Edit, TypeOK
<1>2. CASE UNCHANGED vars
  BY <1>2 DEF vars, TypeOK
<1>3. ASSUME NEW m \in Months, LoseQuota(m) PROVE TypeOK'
  <2>1. 0 \in 0 .. MonthlyQuota + 1
    BY Numbers
  <2>2. quota' \in [Months -> [count : 0 .. MonthlyQuota + 1,
                              left : 1 .. QuotaDays \union {None}]]
        /\ calls' \in [Months -> 0 .. MonthlyQuota + 1]
    BY <1>3, <2>1 DEF LoseQuota, TypeOK
  <2> QED
    BY <1>3, <2>2 DEF LoseQuota, TypeOK
<1>4. ASSUME NEW d \in Domains, ExpireBlocked(d) PROVE TypeOK'
  BY <1>4 DEF ExpireBlocked, TypeOK
<1>5. ASSUME NEW u \in Urls, ExpireVerdict(u) PROVE TypeOK'
  BY <1>5 DEF ExpireVerdict, TypeOK
<1> QED
  BY <1>1, <1>2, <1>3, <1>4, <1>5

LEMMA TypeNext == TypeOK /\ [Next]_vars => TypeOK'
BY TypeBlock, TypeCount, TypeFetch, TypeVerdict, TypeTick, TypeOther DEF Next, Step

-----------------------------------------------------------------------------
(* How a step moves the checks that have counted a call.                   *)

\* r becomes a record from which its part in Calling and Under is read off.
LEMMA Moved ==
  ASSUME TypeOK, NEW r \in Requests, NEW m \in RequestStates, Become(r, m)
  PROVE  /\ \A n \in Months, s \in Requests \ {r} :
              s \in Calling(n)' <=> s \in Calling(n)
         /\ \A n \in Months :
              r \in Calling(n)' <=> m.pc \in {"expire", "fetch"} /\ m.month = n
         /\ \A u \in Urls, s \in Requests \ {r} : s \in Under(u)' <=> s \in Under(u)
         /\ \A u \in Urls : r \in Under(u)' <=> m.pc \in CheckStates /\ m.url = u
<1>1. requests'[r] = m /\ \A s \in Requests \ {r} : requests'[s] = requests[s]
  BY Updated
<1> QED
  BY <1>1 DEF Calling, Under

LEMMA CallingFinite ==
  ASSUME NEW m
  PROVE  /\ IsFiniteSet(Calling(m)) /\ Cardinality(Calling(m)) \in Nat
         /\ IsFiniteSet(Calling(m)') /\ Cardinality(Calling(m)') \in Nat
<1>1. Calling(m) \subseteq Requests /\ Calling(m)' \subseteq Requests
  BY DEF Calling
<1> QED
  BY <1>1, RequestAssumption, FS_Subset, FS_CardinalityType

LEMMA CallingShrinks ==
  ASSUME NEW m, Calling(m)' \subseteq Calling(m)
  PROVE  Cardinality(Calling(m)') <= Cardinality(Calling(m))
BY CallingFinite, FS_Subset

\* Nothing is counted and no check joins those that have counted.
LEMMA CallsQuiet ==
  ASSUME TypeOK, CallsCounted, UNCHANGED <<month, calls, forgotten>>,
         \A m \in Months : quota'[m].count = quota[m].count,
         \A m \in Months : Calling(m)' \subseteq Calling(m)
  PROVE  CallsCounted'
<1>1. \A m \in Months : m \in Nat /\ quota[m].count \in Nat /\ calls[m] \in Nat
  BY Numbers DEF TypeOK
<1>2. \A m \in Months : /\ Cardinality(Calling(m)') <= Cardinality(Calling(m))
                        /\ Cardinality(Calling(m)) \in Nat
                        /\ Cardinality(Calling(m)') \in Nat
  BY CallingFinite, CallingShrinks
<1>3. ASSUME NEW m \in Months \ forgotten
      PROVE  /\ calls[m] + Cardinality(Calling(m)') <= MonthlyQuota
             /\ m >= month =>
                  calls[m] + Cardinality(Calling(m)') <= quota[m].count
  <2>1. /\ calls[m] + Cardinality(Calling(m)) <= MonthlyQuota
        /\ m >= month => calls[m] + Cardinality(Calling(m)) <= quota[m].count
    BY DEF CallsCounted
  <2> QED
    BY <1>1, <1>2, <2>1, Numbers
<1> QED
  BY <1>3 DEF CallsCounted

\* A step of a call after which it has counted no month it had not counted.
LEMMA CallsLeft ==
  ASSUME TypeOK, CallsCounted, NEW r \in Requests, NEW m \in RequestStates,
         Become(r, m), UNCHANGED <<month, calls, forgotten>>,
         \A n \in Months : quota'[n].count = quota[n].count,
         m.pc \in {"expire", "fetch"} =>
           requests[r].pc \in {"expire", "fetch"} /\ m.month = requests[r].month
  PROVE  CallsCounted'
<1>1. \A n \in Months : Calling(n)' \subseteq Calling(n)
  <2> SUFFICES ASSUME NEW n \in Months, NEW s \in Calling(n)'
               PROVE  s \in Calling(n)
    OBVIOUS
  <2>1. s \in Requests
    BY DEF Calling
  <2>2. CASE s = r
    <3>1. m.pc \in {"expire", "fetch"} /\ m.month = n
      BY <2>2, Moved
    <3> QED
      BY <2>2, <3>1 DEF Calling
  <2> QED
    BY <2>1, <2>2, Moved
<1> QED
  BY <1>1, CallsQuiet

-----------------------------------------------------------------------------
(* The quota.                                                              *)

\* INCR covers the call its check may make.
LEMMA CallsCount ==
  ASSUME TypeOK, CallsCounted, NEW r \in Requests, CountCall(r)
  PROVE  CallsCounted'
<1> DEFINE u == requests[r].url
           count == Least(quota[month].count + 1, MonthlyQuota + 1)
           next == IF count = 1 THEN Counted("expire", u, month)
                   ELSE AfterCount(u, month, count)
<1>1. month \in Months /\ month \in Nat /\ quota[month].count \in 0 .. MonthlyQuota + 1
      /\ u \in Urls \ Trusted /\ requests[r].pc = "quota"
  BY Shapes, Numbers DEF CountCall, TypeOK, QuotaStates
<1>2. next \in RequestStates /\ Become(r, next)
  BY <1>1, Constructed, AfterCountIs DEF CountCall
<1>3. count \in Nat /\ quota[month].count \in Nat /\ quota[month].count <= count
      /\ (count <= MonthlyQuota => count = quota[month].count + 1)
      /\ (count = 1 => count <= MonthlyQuota)
  BY <1>1, Numbers DEF Least
<1>4. /\ UNCHANGED <<month, calls, forgotten>>
      /\ quota'[month].count = count
      /\ \A m \in Months \ {month} : quota'[m] = quota[m]
  BY <1>1 DEF CountCall, calendar, TypeOK
<1>5. next.pc \in {"expire", "fetch"} => next.month = month /\ count <= MonthlyQuota
  <2>1. CASE count = 1
    BY <1>3, <2>1, Labels
  <2>2. CASE count # 1
    BY <1>1, <2>2, AfterCountIs, Labels DEF Within
  <2> QED
    BY <2>1, <2>2
<1>6. ASSUME NEW m \in Months \ forgotten
      PROVE  /\ calls[m] + Cardinality(Calling(m)') <= MonthlyQuota
             /\ m >= month => calls[m] + Cardinality(Calling(m)') <= quota'[m].count
  <2> HIDE DEF next
  <2>1. /\ calls[m] + Cardinality(Calling(m)) <= MonthlyQuota
        /\ m >= month => calls[m] + Cardinality(Calling(m)) <= quota[m].count
    BY DEF CallsCounted
  <2>2. /\ m \in Nat /\ calls[m] \in Nat /\ quota[m].count \in Nat
        /\ Cardinality(Calling(m)) \in Nat /\ Cardinality(Calling(m)') \in Nat
    BY Numbers, CallingFinite DEF TypeOK
  <2>3. r \notin Calling(m)
    BY <1>1 DEF Calling
  <2>4. CASE r \notin Calling(m)'
    <3>1. Calling(m)' \subseteq Calling(m)
      BY <1>2, <2>4, Moved DEF Calling
    <3>2. Cardinality(Calling(m)') <= Cardinality(Calling(m))
      BY <3>1, CallingShrinks
    <3>3. quota[m].count <= quota'[m].count /\ quota'[m].count \in Nat
      BY <1>3, <1>4, <2>2
    <3> QED
      BY <1>1, <2>1, <2>2, <3>2, <3>3, Numbers
  <2>5. CASE r \in Calling(m)'
    <3>1. m = month /\ count <= MonthlyQuota
      BY <1>2, <1>5, <2>5, Moved
    <3>2. Calling(m)' = Calling(m) \union {r}
      BY <1>2, <2>5, Moved DEF Calling
    <3>3. Cardinality(Calling(m)') = Cardinality(Calling(m)) + 1
      BY <2>3, <3>2, CallingFinite, FS_AddElement
    <3>4. quota'[m].count = quota[m].count + 1 /\ quota'[m].count <= MonthlyQuota
      BY <1>3, <1>4, <3>1
    <3> QED
      BY <1>1, <2>1, <2>2, <3>1, <3>3, <3>4, Numbers
  <2> QED
    BY <2>4, <2>5
<1> QED
  BY <1>4, <1>6 DEF CallsCounted

\* A call that is made was counted.
LEMMA CallsFetch ==
  ASSUME TypeOK, CallsCounted, NEW r \in Requests, FetchVerdict(r) \/ NoAnswer(r)
  PROVE  CallsCounted'
<1> DEFINE u == requests[r].url
           verdict == IF u \in listed THEN "unsafe" ELSE "safe"
<1>1. PICK m \in Months : /\ m = requests[r].month
                        /\ requests[r].pc = "fetch" /\ u \in Asked
  BY Shapes DEF FetchVerdict, NoAnswer, TypeOK, FetchStates
<1>2. CountedCall(m) /\ UNCHANGED <<month, quota, forgotten>>
  BY <1>1 DEF FetchVerdict, NoAnswer, calendar
<1>3. PICK next \in RequestStates : Become(r, next) /\ next.pc \in {"idle", "store"}
  <2>1. Storing(u, verdict) \in RequestStates /\ Storing(u, verdict).pc = "store"
    BY <1>1, Constructed, Labels
  <2>2. Idle \in RequestStates /\ Idle.pc = "idle"
    BY Constructed, Labels
  <2> QED
    BY <2>1, <2>2 DEF FetchVerdict, NoAnswer
<1>4. r \in Calling(m) /\ Calling(m)' = Calling(m) \ {r}
      /\ \A n \in Months \ {m} : Calling(n)' = Calling(n)
  <2>1. \A n \in Months : r \notin Calling(n)'
    BY <1>3, Moved
  <2>2. \A n \in Months : Calling(n)' = Calling(n) \ {r}
    BY <1>3, <2>1, Moved DEF Calling
  <2>3. \A n \in Months : r \in Calling(n) <=> n = m
    BY <1>1 DEF Calling
  <2>4. r \in Calling(m) /\ Calling(m)' = Calling(m) \ {r}
    BY <1>1, <2>2, <2>3
  <2>5. ASSUME NEW n \in Months \ {m} PROVE Calling(n)' = Calling(n)
    <3>1. Calling(n)' = Calling(n) \ {r} /\ r \notin Calling(n)
      BY <2>2, <2>3
    <3> QED
      BY <3>1
  <2> QED
    BY <2>4, <2>5
<1>5. Cardinality(Calling(m)') = Cardinality(Calling(m)) - 1
      /\ Cardinality(Calling(m)) \in Nat /\ Cardinality(Calling(m)') \in Nat
  BY <1>4, CallingFinite, FS_RemoveElement
<1>6. \A n \in Months : calls[n] \in Nat /\ quota[n].count \in Nat /\ n \in Nat
  BY Numbers DEF TypeOK
<1>7. CASE m \in forgotten
  <2>1. calls' = calls
    BY <1>2, <1>7 DEF CountedCall
  <2> QED
    BY <1>2, <1>4, <1>7, <2>1 DEF CallsCounted
<1>8. CASE m \notin forgotten
  <2>1. /\ calls[m] + Cardinality(Calling(m)) <= MonthlyQuota
        /\ m >= month => calls[m] + Cardinality(Calling(m)) <= quota[m].count
    BY <1>1, <1>8 DEF CallsCounted
  <2>2. Least(calls[m] + 1, MonthlyQuota + 1) = calls[m] + 1
    BY <1>1, <1>5, <1>6, <2>1, Numbers DEF Least
  <2>3. calls'[m] = calls[m] + 1 /\ \A n \in Months \ {m} : calls'[n] = calls[n]
    BY <1>1, <1>2, <1>8, <2>2 DEF CountedCall, TypeOK
  <2>4. calls'[m] + Cardinality(Calling(m)') = calls[m] + Cardinality(Calling(m))
    BY <1>1, <1>5, <1>6, <2>3
  <2>5. ASSUME NEW n \in Months \ forgotten
        PROVE  calls'[n] + Cardinality(Calling(n)') = calls[n] + Cardinality(Calling(n))
    <3>1. CASE n = m
      BY <2>4, <3>1
    <3>2. CASE n # m
      <4>1. Calling(n)' = Calling(n) /\ calls'[n] = calls[n]
        BY <1>4, <2>3, <3>2
      <4> QED
        BY <4>1
    <3> QED
      BY <3>1, <3>2
  <2>6. \A n \in forgotten : calls'[n] = calls[n]
    BY <1>8, <2>3 DEF TypeOK
  <2> QED
    BY <1>2, <2>5, <2>6 DEF CallsCounted
<1> QED
  BY <1>7, <1>8

\* A counter does not end before its month does.
LEMMA CallsTick ==
  ASSUME TypeOK, CallsCounted, CountersLast, Tick
  PROVE  CallsCounted'
<1>1. UNCHANGED <<calls, forgotten, requests>>
  BY DEF Tick
<1>2. \A m \in Months : Calling(m)' = Calling(m)
  BY <1>1 DEF Calling
<1>3. month \in Nat /\ month' \in Nat /\ month <= month'
      /\ (month' = month => daysLeft > 0 /\ daysLeft \in Nat)
  BY Numbers DEF Tick, TypeOK
<1>4. ASSUME NEW m \in Months, m >= month'
      PROVE  m >= month /\ quota'[m].count = quota[m].count
  <2>1. m \in Nat /\ quota[m].left \in Nat \union {None}
    BY Numbers DEF TypeOK
  <2>2. m >= month
    BY <1>3, <1>4, <2>1
  <2>3. quota[m].left # None => ~(quota[m].left <= 1)
    BY <1>3, <1>4, <2>1 DEF CountersLast
  <2> QED
    BY <2>2, <2>3 DEF Tick, TypeOK
<1> QED
  BY <1>1, <1>2, <1>4 DEF CallsCounted

LEMMA CallsLose ==
  ASSUME TypeOK, CallsCounted, NEW m \in Months, LoseQuota(m)
  PROVE  CallsCounted'
<1>1. /\ forgotten' = forgotten \union {m} /\ UNCHANGED <<month, requests>>
      /\ calls'[m] = 0
      /\ \A n \in Months \ {m} : calls'[n] = calls[n] /\ quota'[n] = quota[n]
  BY DEF LoseQuota, TypeOK, calendar
<1>2. \A n \in Months : Calling(n)' = Calling(n)
  BY <1>1 DEF Calling
<1> QED
  BY <1>1, <1>2 DEF CallsCounted, TypeOK

LEMMA CallsNext ==
  ASSUME TypeOK, CallsCounted, CountersLast, [Next]_vars
  PROVE  CallsCounted'
<1> USE DEF calendar, outside, counting, judging
<1>1. ASSUME NEW r \in Requests,
             \/ \E d \in Domains : AskBlockCache(r, d)
             \/ QueryBlocked(r) \/ RememberBlocked(r)
      PROVE  CallsCounted'
  <2>1. PICK next \in RequestStates :
          Become(r, next) /\ next.pc \in {"idle", "row", "remember"}
    <3>1. ASSUME NEW d \in Domains, AskBlockCache(r, d)
          PROVE  \E next \in RequestStates :
                   Become(r, next) /\ next.pc \in {"idle", "row", "remember"}
      BY <3>1, Constructed, Labels DEF AskBlockCache
    <3>2. CASE QueryBlocked(r) \/ RememberBlocked(r)
      <4>1. requests[r].domain \in Domains
        BY <3>2, Shapes DEF TypeOK, QueryBlocked, RememberBlocked, BlockStates
      <4> QED
        BY <3>2, <4>1, Constructed, Labels DEF QueryBlocked, RememberBlocked
    <3> QED
      BY <1>1, <3>1, <3>2
  <2>2. UNCHANGED <<month, quota, calls, forgotten>>
    BY <1>1 DEF AskBlockCache, QueryBlocked, RememberBlocked
  <2> QED
    BY <2>1, <2>2, CallsLeft
<1>2. ASSUME NEW r \in Requests, NEW u \in Urls, ReadVerdict(r, u)
      PROVE  CallsCounted'
  <2>1. Checking("quota", u) \in RequestStates /\ Checking("quota", u).pc = "quota"
    BY <1>2, Constructed, Labels DEF ReadVerdict
  <2>2. Become(r, Checking("quota", u)) /\ UNCHANGED <<month, quota, calls, forgotten>>
    BY <1>2 DEF ReadVerdict
  <2> QED
    BY <2>1, <2>2, CallsLeft
<1>3. ASSUME NEW r \in Requests, KeepQuota(r) PROVE CallsCounted'
  <2> DEFINE m == requests[r].month
             next == AfterCount(requests[r].url, m, 1)
  <2>1. m \in Months /\ requests[r].url \in Urls \ Trusted
    BY <1>3, Shapes DEF TypeOK, KeepQuota, ExpireStates
  <2>2. next \in RequestStates /\ Become(r, next)
        /\ (next.pc \in {"expire", "fetch"} => next.month = m)
    BY <1>3, <2>1, AfterCountIs, Labels DEF KeepQuota
  <2>3. UNCHANGED <<month, calls, forgotten>>
        /\ \A n \in Months : quota'[n].count = quota[n].count
    BY <1>3, <2>1 DEF KeepQuota, TypeOK
  <2>4. requests[r].pc = "expire"
    BY <1>3 DEF KeepQuota
  <2> HIDE DEF next
  <2> QED
    BY <2>2, <2>3, <2>4, CallsLeft
<1>4. ASSUME NEW r \in Requests, StoreVerdict(r) \/ Fail(r) PROVE CallsCounted'
  <2>1. Become(r, Idle) /\ UNCHANGED <<month, quota, calls, forgotten>>
    BY <1>4 DEF StoreVerdict, Fail
  <2> QED
    BY <2>1, Constructed, Labels, CallsLeft
<1>5. CASE \/ Edit \/ UNCHANGED vars
           \/ \E d \in Domains : ExpireBlocked(d)
           \/ \E u \in Urls : ExpireVerdict(u)
  <2>1. UNCHANGED <<month, quota, calls, forgotten, requests>>
    BY <1>5 DEF Edit, vars, ExpireBlocked, ExpireVerdict
  <2>2. \A m \in Months : Calling(m)' \subseteq Calling(m)
    BY <2>1 DEF Calling
  <2> QED
    BY <2>1, <2>2, CallsQuiet
<1> QED
  BY <1>1, <1>2, <1>3, <1>4, <1>5, CallsCount, CallsFetch, CallsTick, CallsLose
     DEF Next, Step

\* A check counts for the month of its INCR, and EXPIRE comes in it or later.
LEMMA LastNext ==
  ASSUME TypeOK, CountersLast, [Next]_vars
  PROVE  CountersLast'
<1> USE DEF calendar, outside, counting, judging
<1>0. month \in Nat /\ \A m \in Months : m \in Nat
  BY Numbers DEF TypeOK
<1>1. ASSUME NEW r \in Requests, NEW next \in RequestStates, Become(r, next),
             UNCHANGED <<month, daysLeft, quota>>, next.pc \notin {"expire", "fetch"}
      PROVE  CountersLast'
  BY <1>1, Updated DEF CountersLast
<1>2. ASSUME NEW r \in Requests, CountCall(r) PROVE CountersLast'
  <2> DEFINE u == requests[r].url
             count == Least(quota[month].count + 1, MonthlyQuota + 1)
             next == IF count = 1 THEN Counted("expire", u, month)
                     ELSE AfterCount(u, month, count)
  <2>1. month \in Months /\ u \in Urls \ Trusted
    BY <1>2, Shapes DEF CountCall, TypeOK, QuotaStates
  <2>2. next \in RequestStates /\ Become(r, next)
    BY <1>2, <2>1, Constructed, AfterCountIs DEF CountCall
  <2>3. next.pc \in {"expire", "fetch"} => next.month = month
    BY <2>1, AfterCountIs, Labels
  <2>4. UNCHANGED <<month, daysLeft>> /\ \A m \in Months : quota'[m].left = quota[m].left
    BY <1>2, <2>1 DEF CountCall, TypeOK
  <2> HIDE DEF next
  <2> QED
    BY <1>0, <2>2, <2>3, <2>4, Updated DEF CountersLast
<1>3. ASSUME NEW r \in Requests, KeepQuota(r) PROVE CountersLast'
  <2> DEFINE next == AfterCount(requests[r].url, requests[r].month, 1)
  <2>1. PICK m \in Months : /\ m = requests[r].month /\ requests[r].pc = "expire"
                            /\ requests[r].url \in Urls \ Trusted
    BY <1>3, Shapes DEF TypeOK, KeepQuota, ExpireStates
  <2>2. next \in RequestStates /\ Become(r, next)
        /\ (next.pc \in {"expire", "fetch"} => next.month = m)
    BY <1>3, <2>1, AfterCountIs, Labels DEF KeepQuota
  <2>3. m <= month
    BY <2>1 DEF CountersLast
  <2>4. UNCHANGED <<month, daysLeft>>
        /\ quota'[m].left \in {None, QuotaLife}
        /\ \A n \in Months \ {m} : quota'[n] = quota[n]
    BY <1>3, <2>1 DEF KeepQuota, TypeOK
  <2>5. QuotaLife > daysLeft
    BY Numbers DEF TypeOK, QuotaLife
  <2>6. \A n \in Months : quota'[n].left # None =>
          n <= month' /\ (n = month' => quota'[n].left > daysLeft')
    BY <2>3, <2>4, <2>5 DEF CountersLast
  <2> HIDE DEF next
  <2>7. \A s \in Requests :
          requests'[s].pc \in {"expire", "fetch"} => requests'[s].month <= month'
    BY <2>2, <2>3, <2>4, Updated DEF CountersLast
  <2> QED
    BY <2>6, <2>7 DEF CountersLast
<1>4. CASE Tick
  <2>1. /\ month' \in Nat /\ month <= month' /\ UNCHANGED requests
        /\ daysLeft \in Nat
        /\ month' = month => daysLeft' = daysLeft - 1
        /\ month' # month => month' = month + 1
    BY <1>0, <1>4, Numbers DEF Tick, TypeOK
  <2>2. ASSUME NEW r \in Requests, requests'[r].pc \in {"expire", "fetch"}
        PROVE  requests'[r].month <= month'
    <3>1. requests[r].month \in Months /\ requests[r].month <= month
      BY <2>1, <2>2, Shapes DEF CountersLast, TypeOK, ExpireStates, FetchStates
    <3> QED
      BY <1>0, <2>1, <3>1
  <2>3. ASSUME NEW m \in Months, quota'[m].left # None
        PROVE  m <= month' /\ (m = month' => quota'[m].left > daysLeft')
    <3>1. quota[m].left # None /\ quota'[m].left = quota[m].left - 1
      BY <1>4, <2>3 DEF Tick, TypeOK
    <3>2. m <= month /\ (m = month => quota[m].left > daysLeft)
      BY <3>1 DEF CountersLast
    <3>3. m \in Nat /\ quota[m].left \in Nat
      BY <1>0, <3>1, Numbers DEF TypeOK
    <3> QED
      BY <1>0, <2>1, <3>1, <3>2, <3>3
  <2> QED
    BY <2>2, <2>3 DEF CountersLast
<1>5. ASSUME NEW m \in Months, LoseQuota(m) PROVE CountersLast'
  BY <1>5 DEF LoseQuota, CountersLast, TypeOK
<1>6. CASE \/ Edit \/ UNCHANGED vars
           \/ \E d \in Domains : ExpireBlocked(d)
           \/ \E u \in Urls : ExpireVerdict(u)
  <2>1. UNCHANGED <<month, daysLeft, quota, requests>>
    BY <1>6 DEF Edit, vars, ExpireBlocked, ExpireVerdict
  <2> QED
    BY <2>1 DEF CountersLast
<1>7. ASSUME NEW r \in Requests,
             \/ \E d \in Domains : AskBlockCache(r, d)
             \/ \E u \in Urls : ReadVerdict(r, u)
             \/ QueryBlocked(r) \/ RememberBlocked(r) \/ FetchVerdict(r)
             \/ NoAnswer(r) \/ StoreVerdict(r) \/ Fail(r)
      PROVE  CountersLast'
  <2>1. UNCHANGED <<month, daysLeft, quota>>
    BY <1>7 DEF AskBlockCache, ReadVerdict, QueryBlocked, RememberBlocked,
                FetchVerdict, NoAnswer, StoreVerdict, Fail
  <2>2. \E next \in RequestStates :
          Become(r, next) /\ next.pc \notin {"expire", "fetch"}
    <3>1. CASE \E d \in Domains : AskBlockCache(r, d)
      BY <3>1, Constructed, Labels DEF AskBlockCache
    <3>2. CASE \E u \in Urls : ReadVerdict(r, u)
      BY <3>2, Constructed, Labels DEF ReadVerdict
    <3>3. CASE QueryBlocked(r) \/ RememberBlocked(r)
      <4>1. requests[r].domain \in Domains
        BY <3>3, Shapes DEF TypeOK, QueryBlocked, RememberBlocked, BlockStates
      <4> QED
        BY <3>3, <4>1, Constructed, Labels DEF QueryBlocked, RememberBlocked
    <3>4. CASE FetchVerdict(r)
      <4>1. requests[r].url \in Asked
        BY <3>4, Shapes DEF TypeOK, FetchVerdict, FetchStates
      <4> QED
        BY <3>4, <4>1, Constructed, Labels DEF FetchVerdict
    <3>5. CASE NoAnswer(r) \/ StoreVerdict(r) \/ Fail(r)
      BY <3>5, Constructed, Labels DEF NoAnswer, StoreVerdict, Fail
    <3> QED
      BY <1>7, <3>1, <3>2, <3>3, <3>4, <3>5
  <2> QED
    BY <1>1, <2>1, <2>2
<1> QED
  BY <1>2, <1>3, <1>4, <1>5, <1>6, <1>7 DEF Next, Step

\* The quota covers what the counter covers.
LEMMA CountedIsKept ==
  ASSUME TypeOK, CallsCounted
  PROVE  QuotaKept
<1> SUFFICES ASSUME NEW m \in Months PROVE calls[m] <= MonthlyQuota
  BY DEF QuotaKept
<1>1. calls[m] \in Nat /\ Cardinality(Calling(m)) \in Nat /\ MonthlyQuota \in Nat
  BY Numbers, CallingFinite DEF TypeOK
<1> QED
  BY <1>1 DEF CallsCounted

-----------------------------------------------------------------------------
(* Verdicts.                                                               *)

\* No answer comes, no check begins, and what is stored was so before.
LEMMA AloneQuiet ==
  ASSUME CheckedAlone, CachedIsNewest, UNCHANGED newest,
         \A u \in Asked : verdicts'[u] \in {verdicts[u], None},
         \A u \in Asked : Under(u)' \subseteq Under(u),
         \A s \in Requests : requests'[s].pc = "store" => requests'[s] = requests[s]
  PROVE  CheckedAlone' /\ CachedIsNewest'
<1>1. CachedIsNewest'
  BY DEF CachedIsNewest
<1>2. ASSUME NEW u \in Asked, newest[u] # "several", NEW r \in Under(u)'
      PROVE  /\ Under(u)' = {r} /\ verdicts'[u] = None
             /\ requests'[r].pc = "store" => requests'[r].verdict = newest[u]
  <2>1. r \in Under(u) /\ r \in Requests
    BY DEF Under
  <2>2. /\ Under(u) = {r} /\ verdicts[u] = None
        /\ requests[r].pc = "store" => requests[r].verdict = newest[u]
    BY <1>2, <2>1 DEF CheckedAlone
  <2>3. Under(u)' = {r}
    BY <1>2, <2>2
  <2> QED
    BY <2>1, <2>2, <2>3
<1> QED
  BY <1>1, <1>2 DEF CheckedAlone

\* The same for a step of a call after which it checks no other URL.
LEMMA AloneLeft ==
  ASSUME TypeOK, CheckedAlone, CachedIsNewest, NEW r \in Requests,
         NEW m \in RequestStates, Become(r, m), UNCHANGED <<newest, verdicts>>,
         m.pc # "store",
         m.pc \in CheckStates => requests[r].pc \in CheckStates /\ m.url = requests[r].url
  PROVE  CheckedAlone' /\ CachedIsNewest'
<1>1. requests'[r] = m /\ \A s \in Requests \ {r} : requests'[s] = requests[s]
  BY Updated
<1>2. \A u \in Asked : Under(u)' \subseteq Under(u)
  BY <1>1 DEF Under
<1>3. \A s \in Requests : requests'[s].pc = "store" => requests'[s] = requests[s]
  BY <1>1
<1> QED
  BY <1>2, <1>3, AloneQuiet

LEMMA AloneRead ==
  ASSUME TypeOK, CheckedAlone, CachedIsNewest, NEW r \in Requests, NEW u \in Urls,
         ReadVerdict(r, u)
  PROVE  CheckedAlone' /\ CachedIsNewest'
<1>1. /\ verdicts[u] = None /\ verdicts' = verdicts /\ requests[r].pc = "idle"
      /\ \A a \in Asked : newest'[a] = IF a # u THEN newest[a]
                                      ELSE IF Under(u) = {} THEN None ELSE "several"
  BY DEF ReadVerdict, outside, counting
<1>2. /\ requests'[r] = Checking("quota", u)
      /\ \A s \in Requests \ {r} : requests'[s] = requests[s]
  BY Constructed, Updated DEF ReadVerdict
<1>3. CachedIsNewest'
  BY <1>1 DEF CachedIsNewest
<1>4. ASSUME NEW a \in Asked, newest'[a] # "several", NEW s \in Under(a)'
      PROVE  /\ Under(a)' = {s} /\ verdicts'[a] = None
             /\ requests'[s].pc = "store" => requests'[s].verdict = newest'[a]
  <2>1. CASE a = u
    <3>1. Under(a) = {} /\ verdicts'[a] = None
      BY <1>1, <1>4, <2>1
    <3>2. Under(a)' \subseteq {r}
      BY <1>2, <3>1 DEF Under
    <3>3. requests'[r].pc # "store"
      BY <1>2, Labels
    <3> QED
      BY <1>4, <3>1, <3>2, <3>3
  <2>2. CASE a # u
    <3>1. Under(a)' = Under(a) /\ s # r
      BY <1>1, <1>2, <1>4, <2>2, Labels DEF Under, CheckStates
    <3>2. s \in Requests
      BY DEF Under
    <3>3. requests'[s] = requests[s] /\ newest'[a] = newest[a]
      BY <1>1, <1>2, <2>2, <3>1, <3>2
    <3> QED
      BY <1>1, <1>4, <3>1, <3>3 DEF CheckedAlone
  <2> QED
    BY <2>1, <2>2
<1> QED
  BY <1>3, <1>4 DEF CheckedAlone

LEMMA AloneFetch ==
  ASSUME TypeOK, CheckedAlone, CachedIsNewest, NEW r \in Requests, FetchVerdict(r)
  PROVE  CheckedAlone' /\ CachedIsNewest'
<1>1. PICK u \in Asked : u = requests[r].url /\ requests[r].pc = "fetch"
  BY Shapes DEF FetchVerdict, TypeOK, FetchStates
<1>2. PICK verdict \in {"safe", "unsafe"} :
        verdict = IF u \in listed THEN "unsafe" ELSE "safe"
  OBVIOUS
<1>3. /\ verdicts' = verdicts
      /\ newest'[u] = IF newest[u] = "several" THEN "several" ELSE verdict
      /\ \A a \in Asked \ {u} : newest'[a] = newest[a]
  BY <1>1, <1>2 DEF FetchVerdict, TypeOK
<1>4. /\ requests'[r] = Storing(u, verdict)
      /\ \A s \in Requests \ {r} : requests'[s] = requests[s]
  <2>1. Storing(u, verdict) \in RequestStates /\ Become(r, Storing(u, verdict))
    BY <1>1, <1>2, Constructed DEF FetchVerdict
  <2> QED
    BY <2>1, Updated
<1>5. \A a \in Asked : Under(a)' = Under(a)
  BY <1>1, <1>4, Labels DEF Under, CheckStates
<1>6. r \in Under(u)
  BY <1>1 DEF Under, CheckStates
<1>7. newest[u] # "several" => Under(u) = {r} /\ verdicts[u] = None
  BY <1>1, <1>6 DEF CheckedAlone
<1>8. CachedIsNewest'
  BY <1>3, <1>7 DEF CachedIsNewest
<1>9. ASSUME NEW a \in Asked, newest'[a] # "several", NEW s \in Under(a)'
      PROVE  /\ Under(a)' = {s} /\ verdicts'[a] = None
             /\ requests'[s].pc = "store" => requests'[s].verdict = newest'[a]
  <2>1. CASE a = u
    <3>1. newest[u] # "several" /\ newest'[u] = verdict
      BY <1>3, <1>9, <2>1
    <3>2. Under(u)' = {r} /\ s = r
      BY <1>5, <1>7, <1>9, <2>1, <3>1
    <3> QED
      BY <1>3, <1>4, <1>7, <2>1, <3>1, <3>2, Labels
  <2>2. CASE a # u
    <3>1. s \in Under(a) /\ s \in Requests \ {r}
      BY <1>1, <1>5, <1>9, <2>2 DEF Under
    <3>2. requests'[s] = requests[s] /\ newest'[a] = newest[a]
      BY <1>3, <1>4, <2>2, <3>1
    <3> QED
      BY <1>3, <1>5, <1>9, <3>1, <3>2 DEF CheckedAlone
  <2> QED
    BY <2>1, <2>2
<1> QED
  BY <1>8, <1>9 DEF CheckedAlone

LEMMA AloneStore ==
  ASSUME TypeOK, CheckedAlone, CachedIsNewest, NEW r \in Requests, StoreVerdict(r)
  PROVE  CheckedAlone' /\ CachedIsNewest'
<1>1. PICK u \in Asked : u = requests[r].url /\ requests[r].pc = "store"
  BY Shapes DEF StoreVerdict, TypeOK, StoreStates
<1>2. /\ newest' = newest /\ verdicts'[u] = requests[r].verdict
      /\ \A a \in Asked \ {u} : verdicts'[a] = verdicts[a]
  BY <1>1 DEF StoreVerdict, TypeOK, Asked
<1>3. requests'[r] = Idle /\ \A s \in Requests \ {r} : requests'[s] = requests[s]
  BY Constructed, Updated DEF StoreVerdict
<1>4. r \in Under(u)
  BY <1>1 DEF Under, CheckStates
<1>5. newest[u] # "several" => Under(u) = {r} /\ requests[r].verdict = newest[u]
  BY <1>1, <1>4 DEF CheckedAlone
<1>6. CachedIsNewest'
  BY <1>2, <1>5 DEF CachedIsNewest
<1>7. ASSUME NEW a \in Asked, newest'[a] # "several", NEW s \in Under(a)'
      PROVE  /\ Under(a)' = {s} /\ verdicts'[a] = None
             /\ requests'[s].pc = "store" => requests'[s].verdict = newest'[a]
  <2>1. r \notin Under(a)' /\ Under(a)' \subseteq Under(a) /\ s \in Requests \ {r}
    BY <1>3, <1>7, Labels DEF Under, CheckStates
  <2>2. a # u
    BY <1>2, <1>5, <1>7, <2>1
  <2>3. requests'[s] = requests[s] /\ newest'[a] = newest[a] /\ verdicts'[a] = verdicts[a]
    BY <1>2, <1>3, <2>1, <2>2
  <2>4. Under(a) = {s} /\ verdicts[a] = None
        /\ (requests[s].pc = "store" => requests[s].verdict = newest[a])
    BY <1>7, <2>1, <2>3 DEF CheckedAlone
  <2> QED
    BY <1>7, <2>1, <2>3, <2>4
<1> QED
  BY <1>6, <1>7 DEF CheckedAlone

LEMMA AloneNext ==
  ASSUME TypeOK, CheckedAlone, CachedIsNewest, [Next]_vars
  PROVE  CheckedAlone' /\ CachedIsNewest'
<1> USE DEF calendar, outside, counting, judging
<1>1. ASSUME NEW r \in Requests, NEW d \in Domains, AskBlockCache(r, d)
      PROVE  CheckedAlone' /\ CachedIsNewest'
  BY <1>1, Constructed, Labels, AloneLeft DEF AskBlockCache, CheckStates
<1>2. ASSUME NEW r \in Requests, QueryBlocked(r) \/ RememberBlocked(r)
      PROVE  CheckedAlone' /\ CachedIsNewest'
  <2>1. requests[r].domain \in Domains
    BY <1>2, Shapes DEF TypeOK, QueryBlocked, RememberBlocked, BlockStates
  <2>2. PICK next \in RequestStates : Become(r, next) /\ next.pc \in {"idle", "remember"}
    BY <1>2, <2>1, Constructed, Labels DEF QueryBlocked, RememberBlocked
  <2>3. UNCHANGED <<newest, verdicts>>
    BY <1>2 DEF QueryBlocked, RememberBlocked
  <2> QED
    BY <2>2, <2>3, AloneLeft DEF CheckStates
<1>3. ASSUME NEW r \in Requests, CountCall(r) \/ KeepQuota(r)
      PROVE  CheckedAlone' /\ CachedIsNewest'
  <2>1. requests[r].url \in Urls \ Trusted /\ requests[r].pc \in CheckStates
        /\ month \in Months /\ (requests[r].pc = "expire" => requests[r].month \in Months)
    BY <1>3, Shapes DEF TypeOK, CountCall, KeepQuota, QuotaStates, ExpireStates,
                        CheckStates
  <2>2. \A m \in Months : \A count :
          LET next == AfterCount(requests[r].url, m, count) IN
          /\ next \in RequestStates /\ next.pc # "store"
          /\ next.pc \in CheckStates => next.url = requests[r].url
    BY <2>1, AfterCountIs, Labels DEF CheckStates
  <2>3. LET next == Counted("expire", requests[r].url, month) IN
        /\ next \in RequestStates /\ next.pc # "store" /\ next.url = requests[r].url
    BY <2>1, Constructed, Labels
  <2>4. PICK next \in RequestStates :
          /\ Become(r, next) /\ next.pc # "store"
          /\ next.pc \in CheckStates => next.url = requests[r].url
    BY <1>3, <2>1, <2>2, <2>3 DEF CountCall, KeepQuota
  <2>5. UNCHANGED <<newest, verdicts>>
    BY <1>3 DEF CountCall, KeepQuota
  <2> QED
    BY <2>1, <2>4, <2>5, AloneLeft
<1>4. ASSUME NEW r \in Requests, NoAnswer(r) \/ Fail(r)
      PROVE  CheckedAlone' /\ CachedIsNewest'
  <2>1. Become(r, Idle) /\ UNCHANGED <<newest, verdicts>>
    BY <1>4 DEF NoAnswer, Fail
  <2> QED
    BY <2>1, Constructed, Labels, AloneLeft DEF CheckStates
<1>5. CASE \/ Tick \/ Edit \/ UNCHANGED vars
           \/ \E m \in Months : LoseQuota(m)
           \/ \E d \in Domains : ExpireBlocked(d)
           \/ \E u \in Urls : ExpireVerdict(u)
  <2>1. UNCHANGED <<requests, newest>>
        /\ \A u \in Asked : verdicts'[u] \in {verdicts[u], None}
    <3>1. Asked \subseteq Urls
      BY DEF Asked
    <3> QED
      BY <1>5, <3>1 DEF Tick, Edit, vars, LoseQuota, ExpireBlocked, ExpireVerdict, TypeOK
  <2>2. \A u \in Asked : Under(u)' \subseteq Under(u)
    BY <2>1 DEF Under
  <2> QED
    BY <2>1, <2>2, AloneQuiet
<1> QED
  BY <1>1, <1>2, <1>3, <1>4, <1>5, AloneRead, AloneFetch, AloneStore DEF Next, Step

-----------------------------------------------------------------------------
(* The invariant.                                                          *)

LEMMA InvInit == Init => IInv
<1> SUFFICES ASSUME Init PROVE IInv
  OBVIOUS
<1>1. TypeOK
  BY TypeInit
<1>2. \A r \in Requests : requests[r].pc = "idle"
  BY Labels DEF Init
<1>3. CallsCounted
  <2>1. \A m \in Months : Calling(m) = {}
    BY <1>2 DEF Calling
  <2> QED
    BY <2>1, FS_EmptySet, Numbers DEF Init, CallsCounted
<1>4. CountersLast
  BY <1>2 DEF Init, CountersLast
<1>5. CheckedAlone /\ CachedIsNewest
  <2>1. \A u \in Asked : Under(u) = {}
    BY <1>2 DEF Under, CheckStates
  <2> QED
    BY <2>1 DEF Init, CheckedAlone, CachedIsNewest, Asked
<1> QED
  BY <1>1, <1>3, <1>4, <1>5, CountedIsKept DEF IInv

LEMMA InvNext == IInv /\ [Next]_vars => IInv'
<1> SUFFICES ASSUME IInv, [Next]_vars PROVE IInv'
  OBVIOUS
<1>1. TypeOK' /\ CallsCounted' /\ CountersLast' /\ CheckedAlone' /\ CachedIsNewest'
  BY TypeNext, CallsNext, LastNext, AloneNext DEF IInv
<1>2. QuotaKept'
  BY <1>1, CountedIsKept, PTL
<1> QED
  BY <1>1, <1>2 DEF IInv

\* However calls, failures, evictions and edits of the lists interleave, for any
\* quota and any number of calls, SafetyService satisfies the whole invariant.
THEOREM SafetyInvariant == Spec => []IInv
<1>1. Init => IInv
  BY InvInit
<1>2. IInv /\ [Next]_vars => IInv'
  BY InvNext
<1> QED
  BY <1>1, <1>2, PTL DEF Spec

\* The API is asked of no trusted or local URL, and no verdict of one is stored.
THEOREM SafetyTypes == Spec => []TypeOK
<1>1. IInv => TypeOK
  BY DEF IInv
<1> QED
  BY <1>1, SafetyInvariant, PTL

\* No month sees more calls of the API than its quota unless Redis lost its
\* counter.
THEOREM QuotaIsKept == Spec => []QuotaKept
<1>1. IInv => QuotaKept
  BY DEF IInv
<1> QED
  BY <1>1, SafetyInvariant, PTL

\* A cached verdict is the last one the API gave unless two checks overlapped.
THEOREM VerdictsAreNewest == Spec => []CachedIsNewest
<1>1. IInv => CachedIsNewest
  BY DEF IInv
<1> QED
  BY <1>1, SafetyInvariant, PTL

=============================================================================

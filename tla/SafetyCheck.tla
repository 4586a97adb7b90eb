------------------------------ MODULE SafetyCheck ------------------------------
(***************************************************************************)
(* SafetyService: the block list a create asks, with its copy in Redis,    *)
(* and the check of a URL by the Web Risk API, with its cached verdicts    *)
(* and its monthly quota.                                                  *)
(*                                                                         *)
(* Of the calendar the model keeps the month and the days left of it.  A   *)
(* count past the quota is not told from the quota plus one.               *)
(*                                                                         *)
(* A definition whose comment begins with "Mistake" is no part of the      *)
(* model: it is a plausible bug that the properties are tried against.     *)
(***************************************************************************)
EXTENDS Integers, FiniteSets

CONSTANTS
  Requests,     \* calls of isDomainBlocked and checkUrl in flight at a time
  Urls,
  Trusted,      \* URLs of TRUSTED_DOMAINS
  Local,        \* URLs of this host
  Domains,      \* extractDomain of the URLs
  HasApiKey,    \* GOOGLE_WEB_RISK_API_KEY is configured
  MonthlyQuota,
  MonthDays,    \* days of a month
  QuotaDays,    \* days a quota counter is kept
  MaxMonth,     \* bound: the clock stops at the end of this month
  None

ASSUME RequestAssumption == IsFiniteSet(Requests)
ASSUME UrlAssumption == Trusted \subseteq Urls /\ Local \subseteq Urls
ASSUME KeyAssumption == HasApiKey \in BOOLEAN
ASSUME QuotaAssumption ==
  /\ MonthlyQuota \in Nat \ {0} /\ MonthDays \in Nat \ {0}
  /\ QuotaDays \in Nat /\ QuotaDays >= MonthDays
  /\ MaxMonth \in Nat \ {0}
ASSUME NoneIsNothing == None \notin {"safe", "unsafe", "several"} /\ None \notin Nat

Months == 1 .. MaxMonth
Asked == Urls \ (Trusted \union Local)

VARIABLES
  month,      \* of the process's clock
  daysLeft,   \* days of it that are still to begin
  quota,      \* web_risk:quota:<month>: its count, and the days it has left
  verdicts,   \* safety:<hash>
  blockCache, \* domains with cache:blocked_domains:<domain>
  blocked,    \* blocked_domains, which administrators edit
  listed,     \* URLs the API holds for a threat
  requests,
  calls,      \* history: calls of the API by the month they were counted in,
              \* until Redis loses the counter
  forgotten,  \* history: months whose counter Redis lost
  newest      \* history: the API's last answer, "several" when checks overlap

vars == <<month, daysLeft, quota, verdicts, blockCache, blocked, listed, requests,
          calls, forgotten, newest>>
calendar == <<month, daysLeft>>
outside == <<blocked, listed>>
counting == <<quota, calls, forgotten>>
judging == <<verdicts, newest>>

-----------------------------------------------------------------------------
Idle == [pc |-> "idle"]
Asking(pc, d) == [pc |-> pc, domain |-> d]
Checking(pc, u) == [pc |-> pc, url |-> u]
Counted(pc, u, m) == [pc |-> pc, url |-> u, month |-> m]
Storing(u, verdict) == [pc |-> "store", url |-> u, verdict |-> verdict]

Become(r, request) == requests' = [requests EXCEPT ![r] = request]

Init ==
  /\ month = 1 /\ daysLeft = MonthDays - 1
  /\ quota = [m \in Months |-> [count |-> 0, left |-> None]]
  /\ verdicts = [u \in Urls |-> None]
  /\ blockCache = {} /\ blocked = {} /\ listed = {}
  /\ requests = [r \in Requests |-> Idle]
  /\ calls = [m \in Months |-> 0]
  /\ forgotten = {}
  /\ newest = [u \in Asked |-> None]

-----------------------------------------------------------------------------
(* isDomainBlocked.                                                        *)

\* EXISTS; a copy answers at once.
AskBlockCache(r, d) ==
  /\ requests[r].pc = "idle"
  /\ d \notin blockCache
  /\ Become(r, Asking("row", d))
  /\ UNCHANGED <<calendar, blockCache, outside, counting, judging>>

\* Any row will do, an inactive one too; without one the create goes on.
QueryBlocked(r) ==
  LET d == requests[r].domain IN
  /\ requests[r].pc = "row"
  /\ Become(r, IF d \in blocked THEN Asking("remember", d) ELSE Idle)
  /\ UNCHANGED <<calendar, blockCache, outside, counting, judging>>

RememberBlocked(r) ==
  /\ requests[r].pc = "remember"
  /\ blockCache' = blockCache \union {requests[r].domain}
  /\ Become(r, Idle)
  /\ UNCHANGED <<calendar, outside, counting, judging>>

ExpireBlocked(d) ==
  /\ d \in blockCache
  /\ blockCache' = blockCache \ {d}
  /\ UNCHANGED <<calendar, outside, requests, counting, judging>>

-----------------------------------------------------------------------------
(* checkUrl.                                                               *)

CheckStates == {"quota", "expire", "fetch", "store"}
Under(u) == {r \in Requests : requests[r].pc \in CheckStates /\ requests[r].url = u}

\* A URL of a trusted domain, and a cached verdict, are answered at once.
ReadVerdict(r, u) ==
  /\ requests[r].pc = "idle"
  /\ u \notin Trusted /\ verdicts[u] = None
  /\ Become(r, Checking("quota", u))
  /\ newest' = [a \in Asked |-> IF a # u THEN newest[a]
                               ELSE IF Under(u) = {} THEN None ELSE "several"]
  /\ UNCHANGED <<calendar, blockCache, outside, counting, verdicts>>

Least(a, b) == IF a <= b THEN a ELSE b

Within(count) == count <= MonthlyQuota

\* Mistake: the API is asked about this host, too.
AskAnyway(u, m, count) ==
  IF Within(count) /\ HasApiKey THEN Counted("fetch", u, m) ELSE Idle

\* What follows the count; without a key, or for this host, no call.
AfterCount(u, m, count) ==
  IF Within(count) /\ HasApiKey /\ u \notin Local THEN Counted("fetch", u, m) ELSE Idle

\* INCR of the counter of this month
CountCall(r) ==
  LET u == requests[r].url
      count == Least(quota[month].count + 1, MonthlyQuota + 1)
  IN
  /\ requests[r].pc = "quota"
  /\ quota' = [quota EXCEPT ![month].count = count]
  /\ Become(r, IF count = 1 THEN Counted("expire", u, month)
               ELSE AfterCount(u, month, count))
  /\ UNCHANGED <<calendar, blockCache, outside, calls, forgotten, judging>>

\* Mistake: the counter lives for a day less than a month.
ShortLife == MonthDays - 1

QuotaLife == QuotaDays

\* EXPIRE finds nothing when the counter is gone.
KeepQuota(r) ==
  LET m == requests[r].month IN
  /\ requests[r].pc = "expire"
  /\ quota' = [quota EXCEPT ![m].left = IF quota[m].count = 0 THEN None ELSE QuotaLife]
  /\ Become(r, AfterCount(requests[r].url, m, 1))
  /\ UNCHANGED <<calendar, blockCache, outside, calls, forgotten, judging>>

CountedCall(m) ==
  calls' = IF m \in forgotten THEN calls
           ELSE [calls EXCEPT ![m] = Least(calls[m] + 1, MonthlyQuota + 1)]

\* Mistake: what is reported when the API does not answer is stored as well.
StoreDefault(r) ==
  LET u == requests[r].url IN
  /\ requests[r].pc = "fetch"
  /\ CountedCall(requests[r].month)
  /\ Become(r, Storing(u, "safe"))
  /\ UNCHANGED <<calendar, blockCache, outside, quota, forgotten, judging>>

\* The API does not answer, or not with 200: the check is reported as skipped.
NoAnswer(r) ==
  /\ requests[r].pc = "fetch"
  /\ CountedCall(requests[r].month)
  /\ Become(r, Idle)
  /\ UNCHANGED <<calendar, blockCache, outside, quota, forgotten, judging>>

FetchVerdict(r) ==
  LET u == requests[r].url
      verdict == IF u \in listed THEN "unsafe" ELSE "safe"
  IN
  /\ requests[r].pc = "fetch"
  /\ CountedCall(requests[r].month)
  /\ newest' = [newest EXCEPT ![u] = IF newest[u] = "several" THEN "several" ELSE verdict]
  /\ Become(r, Storing(u, verdict))
  /\ UNCHANGED <<calendar, blockCache, outside, quota, forgotten, verdicts>>

StoreVerdict(r) ==
  /\ requests[r].pc = "store"
  /\ verdicts' = [verdicts EXCEPT ![requests[r].url] = requests[r].verdict]
  /\ Become(r, Idle)
  /\ UNCHANGED <<calendar, blockCache, outside, counting, newest>>

\* Mistake: the verdict is stored without a time to live.
KeepVerdict(u) == FALSE /\ UNCHANGED vars

ExpireVerdict(u) ==
  /\ verdicts[u] # None
  /\ verdicts' = [verdicts EXCEPT ![u] = None]
  /\ UNCHANGED <<calendar, blockCache, outside, requests, counting, newest>>

\* The database or Redis fails, before or after the command took effect, or
\* the process ends: isDomainBlocked answers that the domain is blocked, and
\* checkUrl throws, or, from the call of the API on, reports a skipped check.
Fail(r) ==
  /\ requests[r].pc # "idle"
  /\ Become(r, Idle)
  /\ UNCHANGED <<calendar, blockCache, outside, counting, judging>>

-----------------------------------------------------------------------------
\* A day begins; Redis removes the counters whose time is over.
Tick ==
  /\ \/ daysLeft > 0 /\ daysLeft' = daysLeft - 1 /\ month' = month
     \/ /\ daysLeft = 0 /\ month < MaxMonth
        /\ month' = month + 1 /\ daysLeft' = MonthDays - 1
  /\ quota' = [m \in Months |->
       IF quota[m].left = None THEN quota[m]
       ELSE IF quota[m].left <= 1 THEN [count |-> 0, left |-> None]
       ELSE [quota[m] EXCEPT !.left = quota[m].left - 1]]
  /\ UNCHANGED <<blockCache, outside, requests, calls, forgotten, judging>>

\* Redis evicts the counter, or restarts.
LoseQuota(m) ==
  /\ quota[m].count > 0
  /\ quota' = [quota EXCEPT ![m] = [count |-> 0, left |-> None]]
  /\ forgotten' = forgotten \union {m}
  /\ calls' = [calls EXCEPT ![m] = 0]
  /\ UNCHANGED <<calendar, blockCache, outside, requests, judging>>

\* An administrator edits the block list, or the API its lists.
Edit ==
  /\ \/ /\ \E d \in Domains : blocked' \in {blocked \union {d}, blocked \ {d}}
        /\ listed' = listed
     \/ /\ \E u \in Asked : listed' \in {listed \union {u}, listed \ {u}}
        /\ blocked' = blocked
  /\ UNCHANGED <<calendar, blockCache, requests, counting, judging>>

-----------------------------------------------------------------------------
Step(r) == \/ QueryBlocked(r) \/ RememberBlocked(r) \/ CountCall(r) \/ KeepQuota(r)
           \/ FetchVerdict(r) \/ NoAnswer(r) \/ StoreVerdict(r)

Next == \/ Tick \/ Edit
        \/ \E m \in Months : LoseQuota(m)
        \/ \E d \in Domains : ExpireBlocked(d)
        \/ \E u \in Urls : ExpireVerdict(u)
        \/ \E r \in Requests : \/ \E d \in Domains : AskBlockCache(r, d)
                               \/ \E u \in Urls : ReadVerdict(r, u)
                               \/ Step(r) \/ Fail(r)

Spec == Init /\ [][Next]_vars

\* A request under way goes on, and Redis ends the time to live.
FairSpec == /\ Spec
            /\ \A r \in Requests : WF_vars(Step(r))
            /\ \A d \in Domains : WF_vars(ExpireBlocked(d))
            /\ \A u \in Urls : WF_vars(ExpireVerdict(u))

-----------------------------------------------------------------------------
BlockStates == [pc : {"row", "remember"}, domain : Domains]
QuotaStates == [pc : {"quota"}, url : Urls \ Trusted]
ExpireStates == [pc : {"expire"}, url : Urls \ Trusted, month : Months]
FetchStates == [pc : {"fetch"}, url : Asked, month : Months]
StoreStates == [pc : {"store"}, url : Asked, verdict : {"safe", "unsafe"}]
RequestStates ==
  {Idle} \union BlockStates
  \union QuotaStates \union ExpireStates \union FetchStates \union StoreStates

\* Every variable has the shape the code gives it; the API is asked of no
\* trusted or local URL, and no verdict of one is stored.
TypeOK ==
  /\ month \in Months
  /\ daysLeft \in 0 .. MonthDays - 1
  /\ quota \in [Months -> [count : 0 .. MonthlyQuota + 1, left : 1 .. QuotaDays \union {None}]]
  /\ verdicts \in [Urls -> {None, "safe", "unsafe"}]
  /\ \A u \in Urls \ Asked : verdicts[u] = None
  /\ blockCache \subseteq Domains /\ blocked \subseteq Domains
  /\ listed \subseteq Asked
  /\ requests \in [Requests -> RequestStates]
  /\ calls \in [Months -> 0 .. MonthlyQuota + 1]
  /\ forgotten \subseteq Months
  /\ newest \in [Asked -> {None, "safe", "unsafe", "several"}]

\* No month sees more calls of the API than its quota, however many checks race
\* and fail, unless Redis lost its counter: the counter outlives the month.
QuotaKept == \A m \in Months : calls[m] <= MonthlyQuota

\* A cached verdict is the last one the API gave, unless two checks of the URL
\* were under way at a time; what could not be found out is not cached.
CachedIsNewest ==
  \A u \in Asked : verdicts[u] # None => newest[u] \in {verdicts[u], "several"}

-----------------------------------------------------------------------------
(* The inductive invariant.                                                *)

\* Checks that have counted their call and may still make it
Calling(m) == {r \in Requests : /\ requests[r].pc \in {"expire", "fetch"}
                                /\ requests[r].month = m}

\* The counter of this month covers the calls made and those still to be made;
\* there are no more of them than the quota, in this month or an earlier one.
CallsCounted ==
  /\ \A m \in Months \ forgotten :
       /\ calls[m] + Cardinality(Calling(m)) <= MonthlyQuota
       /\ m >= month => calls[m] + Cardinality(Calling(m)) <= quota[m].count
  /\ \A m \in forgotten : calls[m] = 0

\* No check counts for a month to come, and no counter ends in its month.
CountersLast ==
  /\ \A r \in Requests :
       requests[r].pc \in {"expire", "fetch"} => requests[r].month <= month
  /\ \A m \in Months : quota[m].left # None =>
       m <= month /\ (m = month => quota[m].left > daysLeft)

\* Unless several check a URL at a time, the one that does found no verdict of
\* it, and stores what the API answered.
CheckedAlone ==
  \A u \in Asked : newest[u] # "several" => \A r \in Under(u) :
    /\ Under(u) = {r} /\ verdicts[u] = None
    /\ requests[r].pc = "store" => requests[r].verdict = newest[u]

IInv == TypeOK /\ CallsCounted /\ CountersLast /\ QuotaKept /\ CheckedAlone
        /\ CachedIsNewest

-----------------------------------------------------------------------------
\* What was learnt once does not stay: a URL that is a threat from now on is not
\* for ever cached as safe, nor the other way round, and a domain that is taken
\* off the block list can be used again.
EventuallyCurrent ==
  /\ \A u \in Asked : /\ <>[](u \in listed) => <>[](verdicts[u] # "safe")
                      /\ <>[](u \notin listed) => <>[](verdicts[u] # "unsafe")
  /\ \A d \in Domains : <>[](d \notin blocked) => <>[](d \notin blockCache)

=============================================================================

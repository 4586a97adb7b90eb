------------------------------- MODULE RateLimiter -------------------------------
(***************************************************************************)
(* GlobalRateLimiterGuard on one route: every request is counted under the *)
(* route's policies in their order, by a script that Redis runs atomically,*)
(* and is refused by the first one whose window is full.                   *)
(*                                                                         *)
(* Time is what is left of every window, in parts of a second, so the      *)
(* clock needs no bound.  A key is the set of callers it does not tell     *)
(* apart.  A count past the limit is not told from the limit plus one.     *)
(*                                                                         *)
(* A definition whose comment begins with "Mistake" is no part of the      *)
(* model: it is a plausible bug that the properties are tried against.     *)
(***************************************************************************)
EXTENDS Naturals

CONSTANTS
  Requests,      \* requests in flight at a time
  Callers,       \* who may ask
  NumPolicies,   \* policies of the route, applied in the order of their numbers
  MaxRequests,   \* maxRequests of every policy, as resolvePolicy found it
  WindowSeconds, \* its windowSeconds
  Dimensions,    \* the dimensions of its key
  Identity,      \* ip, user ("anonymous" without a valid token) and email of a caller
  Half,          \* parts of half a second
  None

Policies == 1 .. NumPolicies

ASSUME PolicyAssumption ==
  /\ NumPolicies \in Nat \ {0}
  /\ MaxRequests \in [Policies -> Nat \ {0}]
  /\ WindowSeconds \in [Policies -> Nat \ {0}]
\* Callers that agree in every dimension of the policy share its key.
Key == [p \in Policies |-> [c \in Callers |->
  {d \in Callers : \A dim \in Dimensions[p] : Identity[d][dim] = Identity[c][dim]}]]
Keys == [p \in Policies |-> {Key[p][c] : c \in Callers}]

ASSUME HalfAssumption == Half \in Nat \ {0}

VARIABLES
  counters,  \* rl:v2:<policy>:<route>:<key>
  requests,
  passed,    \* history: requests this window let through
  advice     \* history: parts until the callers it refused were told to return

vars == <<counters, requests, passed, advice>>

-----------------------------------------------------------------------------
Second == 2 * Half
Window(p) == WindowSeconds[p] * Second

Counter(p) == [count : 1 .. MaxRequests[p] + 1, left : 1 .. Window(p)]
\* The answer of one policy: what remains, and when the window ends.
Notice == [policy : Policies, remaining : Nat, reset : Nat]
ASSUME NoneIsNothing ==
  None \notin Notice /\ \A p \in Policies : None \notin Counter(p)

\* seen: history, the notices so far.
Idle == [pc |-> "idle"]
Counting(c, p, tightest, seen) ==
  [pc |-> "count", caller |-> c, policy |-> p, tightest |-> tightest, seen |-> seen]
Admitted(notice, seen) == [pc |-> "admitted", notice |-> notice, seen |-> seen]

Become(r, request) == requests' = [requests EXCEPT ![r] = request]

Init ==
  /\ counters = [p \in Policies |-> [k \in Keys[p] |-> None]]
  /\ requests = [r \in Requests |-> Idle]
  /\ passed = [p \in Policies |-> [k \in Keys[p] |-> 0]]
  /\ advice = [p \in Policies |-> [k \in Keys[p] |-> None]]

-----------------------------------------------------------------------------
Least(a, b) == IF a <= b THEN a ELSE b

\* Mistake: the window starts anew with every request.
Renewed(p, counter) ==
  IF counter = None THEN [count |-> 1, left |-> Window(p)]
  ELSE [count |-> Least(counter.count + 1, MaxRequests[p] + 1), left |-> Window(p)]

\* INCR, and EXPIRE when it made the key.
Incremented(p, counter) ==
  IF counter = None THEN [count |-> 1, left |-> Window(p)]
  ELSE [counter EXCEPT !.count = Least(counter.count + 1, MaxRequests[p] + 1)]

\* Mistake: TTL is reported as it is.
RawTtl(p, counter) == (counter.left + Half) \div Second

\* TTL rounds to the nearest second; when that is none, the guard reports a
\* whole window.
TtlSeconds(p, counter) ==
  LET ttl == (counter.left + Half) \div Second IN
  IF ttl > 0 THEN ttl ELSE WindowSeconds[p]

\* Mistake: one request too many.
OneTooMany(p, counter) == counter.count > MaxRequests[p] + 1

Full(p, counter) == counter.count > MaxRequests[p]

Remaining(p, counter) ==
  IF Full(p, counter) THEN 0 ELSE MaxRequests[p] - Least(counter.count, MaxRequests[p])

NoticeOf(p, counter) ==
  [policy |-> p, remaining |-> Remaining(p, counter), reset |-> TtlSeconds(p, counter)]

\* Mistake: of two equally tight policies the one that resets first is named.
ResetsFirst(a, b) ==
  IF \/ a = None \/ b.remaining < a.remaining
     \/ b.remaining = a.remaining /\ b.reset < a.reset
  THEN b ELSE a

\* What the guard keeps of the notices so far when it gets b.
Tighter(a, b) ==
  IF \/ a = None \/ b.remaining < a.remaining
     \/ b.remaining = a.remaining /\ a.reset < b.reset
  THEN b ELSE a

\* The request's identity is resolved from its body and its bearer token.
Ask(r, c) ==
  /\ requests[r].pc = "idle"
  /\ Become(r, Counting(c, 1, None, {}))
  /\ UNCHANGED <<counters, passed, advice>>

Count(r) ==
  LET m == requests[r]
      p == m.policy
      k == Key[p][m.caller]
      counter == Incremented(p, counters[p][k])
      notice == NoticeOf(p, counter)
      seen == m.seen \union {notice}
      tightest == Tighter(m.tightest, notice)
  IN
  /\ m.pc = "count"
  /\ counters' = [counters EXCEPT ![p][k] = counter]
  /\ IF Full(p, counter)
     THEN /\ Become(r, Idle)
          /\ advice' = [advice EXCEPT ![p][k] =
               IF advice[p][k] = None \/ advice[p][k] > notice.reset * Second
               THEN notice.reset * Second ELSE advice[p][k]]
          /\ passed' = passed
     ELSE /\ Become(r, IF p < NumPolicies THEN Counting(m.caller, p + 1, tightest, seen)
                       ELSE Admitted(tightest, seen))
          /\ passed' = [passed EXCEPT ![p][k] = Least(passed[p][k] + 1, MaxRequests[p] + 1)]
          /\ advice' = advice

\* The headers of an admitted request are sent, and it goes on to its handler.
Reply(r) ==
  /\ requests[r].pc = "admitted"
  /\ Become(r, Idle)
  /\ UNCHANGED <<counters, passed, advice>>

\* The script fails, before or after it ran, and with it the request.
Fail(r) ==
  /\ requests[r].pc = "count"
  /\ Become(r, Idle)
  /\ UNCHANGED <<counters, passed, advice>>

-----------------------------------------------------------------------------
Gone(p, k) == counters[p][k] = None \/ counters[p][k].left = 1

\* Part of a second passes; Redis removes the keys whose time is over.
Tick ==
  /\ \E p \in Policies : \E k \in Keys[p] : counters[p][k] # None
  /\ counters' = [p \in Policies |-> [k \in Keys[p] |->
       IF Gone(p, k) THEN None
       ELSE [counters[p][k] EXCEPT !.left = counters[p][k].left - 1]]]
  /\ passed' = [p \in Policies |-> [k \in Keys[p] |-> IF Gone(p, k) THEN 0 ELSE passed[p][k]]]
  /\ advice' = [p \in Policies |-> [k \in Keys[p] |->
       IF Gone(p, k) \/ advice[p][k] = None THEN None
       ELSE IF advice[p][k] = 0 THEN 0 ELSE advice[p][k] - 1]]
  /\ UNCHANGED requests

\* Redis evicts a key, or restarts: the window starts anew.
Evict(p, k) ==
  /\ counters[p][k] # None
  /\ counters' = [counters EXCEPT ![p][k] = None]
  /\ passed' = [passed EXCEPT ![p][k] = 0]
  /\ advice' = [advice EXCEPT ![p][k] = None]
  /\ UNCHANGED requests

Next == \/ \E r \in Requests : \/ \E c \in Callers : Ask(r, c)
                               \/ Count(r) \/ Reply(r) \/ Fail(r)
        \/ Tick
        \/ \E p \in Policies : \E k \in Keys[p] : Evict(p, k)

Spec == Init /\ [][Next]_vars

\* Time passes.
FairSpec == Spec /\ WF_vars(Tick)

-----------------------------------------------------------------------------
CountStates == [pc : {"count"}, caller : Callers, policy : Policies,
                tightest : Notice \union {None}, seen : SUBSET Notice]
AnswerStates == [pc : {"admitted"}, notice : Notice, seen : SUBSET Notice]
RequestStates == {Idle} \union CountStates \union AnswerStates

\* Every variable has the shape the code gives it; a reset of 0 is never
\* reported.
TypeOK ==
  /\ DOMAIN counters = Policies /\ DOMAIN passed = Policies
  /\ DOMAIN advice = Policies
  /\ \A p \in Policies :
       /\ counters[p] \in [Keys[p] -> Counter(p) \union {None}]
       /\ passed[p] \in [Keys[p] -> 0 .. MaxRequests[p] + 1]
       /\ advice[p] \in [Keys[p] -> 0 .. Window(p) \union {None}]
  /\ requests \in [Requests -> RequestStates]
  /\ \A r \in Requests : requests[r].pc # "idle" =>
       \A n \in requests[r].seen : n.reset \in 1 .. WindowSeconds[n.policy]

\* However many callers race for a key, its window lets no more through than
\* the policy allows, and refuses nobody before it let as many through.
LimitKept ==
  \A p \in Policies : \A k \in Keys[p] :
    /\ passed[p][k] <= MaxRequests[p]
    /\ counters[p][k] # None /\ Full(p, counters[p][k]) => passed[p][k] = MaxRequests[p]

\* A caller that was refused and returns when it was told to, finds the window
\* over, half a second of rounding aside: what others ask in the meantime does
\* not prolong it.
RetryAfterHolds ==
  \A p \in Policies : \A k \in Keys[p] :
    counters[p][k] # None /\ advice[p][k] # None =>
      counters[p][k].left <= advice[p][k] + Half

\* The headers of an admitted request are those of its tightest policy, of
\* several the one that resets last.
HeadersTightest ==
  \A r \in Requests : requests[r].pc = "admitted" =>
    LET best == requests[r].notice IN
    /\ best \in requests[r].seen
    /\ \A n \in requests[r].seen :
         \/ n.remaining > best.remaining
         \/ n.remaining = best.remaining /\ n.reset <= best.reset

-----------------------------------------------------------------------------
(* The inductive invariant.                                                *)

\* A window let through what it counted, up to its limit, and has advised
\* nobody before it was open.
PassedCounted ==
  \A p \in Policies : \A k \in Keys[p] :
    /\ counters[p][k] = None => passed[p][k] = 0 /\ advice[p][k] = None
    /\ counters[p][k] # None => passed[p][k] = Least(counters[p][k].count, MaxRequests[p])

\* A request under way holds the tightest notice so far.
TightestSoFar ==
  \A r \in Requests : requests[r].pc = "count" =>
    LET best == requests[r].tightest IN
    IF best = None THEN requests[r].seen = {}
    ELSE /\ best \in requests[r].seen
         /\ \A n \in requests[r].seen :
              \/ n.remaining > best.remaining
              \/ n.remaining = best.remaining /\ n.reset <= best.reset

IInv == TypeOK /\ PassedCounted /\ LimitKept /\ RetryAfterHolds /\ TightestSoFar
        /\ HeadersTightest

-----------------------------------------------------------------------------
\* Nobody is locked out for good: every window ends, however often its key is
\* asked for.
WindowsEnd ==
  \A p \in Policies : \A k \in Keys[p] : counters[p][k] # None ~> counters[p][k] = None

=============================================================================

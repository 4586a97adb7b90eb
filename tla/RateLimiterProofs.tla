---------------------------- MODULE RateLimiterProofs ----------------------------
(***************************************************************************)
(* The invariant of RateLimiter, for every number of policies, callers and *)
(* requests, and every limit and window.                                   *)
(***************************************************************************)
EXTENDS RateLimiter, TLAPS

\* What a key's window, what it let through and what it advised have in common.
KeyRight(p, counter, through, return) ==
  /\ counter \in Counter(p) \union {None}
  /\ through \in 0 .. MaxRequests[p]
  /\ return \in 0 .. Window(p) \union {None}
  /\ counter = None => through = 0 /\ return = None
  /\ counter # None => /\ through = Least(counter.count, MaxRequests[p])
                       /\ return # None => counter.left <= return + Half

KeysRight ==
  /\ DOMAIN counters = Policies /\ DOMAIN passed = Policies /\ DOMAIN advice = Policies
  /\ \A p \in Policies :
       /\ counters[p] \in [Keys[p] -> Counter(p) \union {None}]
       /\ passed[p] \in [Keys[p] -> 0 .. MaxRequests[p] + 1]
       /\ advice[p] \in [Keys[p] -> 0 .. Window(p) \union {None}]
       /\ \A k \in Keys[p] : KeyRight(p, counters[p][k], passed[p][k], advice[p][k])

\* best is the tightest of the notices seen, of several the one that resets last.
Tightest(best, seen) ==
  /\ best \in seen
  /\ \A n \in seen : \/ n.remaining > best.remaining
                     \/ n.remaining = best.remaining /\ n.reset <= best.reset

Proper(n) == n \in Notice /\ n.reset \in 1 .. WindowSeconds[n.policy]

RequestRight(m) ==
  /\ m \in RequestStates
  /\ m.pc # "idle" => \A n \in m.seen : Proper(n)
  /\ m.pc = "count" => IF m.tightest = None THEN m.seen = {}
                       ELSE Tightest(m.tightest, m.seen)
  /\ m.pc = "admitted" => Tightest(m.notice, m.seen)

RequestsRight == /\ requests \in [Requests -> RequestStates]
                 /\ \A r \in Requests : RequestRight(requests[r])

Inv == KeysRight /\ RequestsRight

-----------------------------------------------------------------------------
(* Requests and notices.                                                   *)

LEMMA Shapes ==
  ASSUME NEW m \in RequestStates
  PROVE  /\ m.pc = "idle" <=> m = Idle
         /\ m.pc = "count" <=> m \in CountStates
         /\ m.pc = "admitted" <=> m \in AnswerStates
BY DEF RequestStates, CountStates, AnswerStates, Idle

LEMMA IdleRight == RequestRight(Idle)
BY DEF RequestRight, RequestStates, Idle

LEMMA CountingRight ==
  ASSUME NEW c \in Callers, NEW p \in Policies, NEW best \in Notice \union {None},
         NEW seen, \A n \in seen : Proper(n),
         IF best = None THEN seen = {} ELSE Tightest(best, seen)
  PROVE  RequestRight(Counting(c, p, best, seen))
<1>1. seen \in SUBSET Notice
  BY DEF Proper
<1>2. Counting(c, p, best, seen) \in RequestStates
  BY <1>1 DEF Counting, RequestStates, CountStates
<1> QED
  BY <1>2 DEF RequestRight, Counting

LEMMA AdmittedRight ==
  ASSUME NEW best, NEW seen, \A n \in seen : Proper(n), Tightest(best, seen)
  PROVE  RequestRight(Admitted(best, seen))
<1>1. seen \in SUBSET Notice /\ best \in Notice
  BY DEF Proper, Tightest
<1>2. Admitted(best, seen) \in RequestStates
  BY <1>1 DEF Admitted, RequestStates, AnswerStates
<1> QED
  BY <1>2 DEF RequestRight, Admitted

LEMMA Updated ==
  ASSUME RequestsRight, NEW r \in Requests, NEW m, RequestRight(m), Become(r, m)
  PROVE  RequestsRight'
<1>1. m \in RequestStates
  BY DEF RequestRight
<1>2. /\ requests' \in [Requests -> RequestStates]
      /\ \A s \in Requests : requests'[s] = IF s = r THEN m ELSE requests[s]
  BY <1>1 DEF RequestsRight, Become
<1>3. \A s \in Requests : RequestRight(requests'[s])
  BY <1>2 DEF RequestsRight
<1> QED
  BY <1>2, <1>3 DEF RequestsRight

\* What Tighter keeps is the tightest of what was seen and the new notice.
LEMMA TighterIsTightest ==
  ASSUME NEW best \in Notice \union {None}, NEW seen, NEW n \in Notice,
         \A o \in seen : o \in Notice,
         IF best = None THEN seen = {} ELSE Tightest(best, seen)
  PROVE  Tightest(Tighter(best, n), seen \union {n}) /\ Tighter(best, n) \in Notice
<1>1. CASE best = None
  BY <1>1 DEF Tighter, Tightest, Notice
<1>2. CASE best # None
  <2>1. /\ best \in Notice /\ best \in seen
        /\ best.remaining \in Nat /\ best.reset \in Nat
        /\ n.remaining \in Nat /\ n.reset \in Nat
        /\ \A o \in seen : o.remaining \in Nat /\ o.reset \in Nat
    BY <1>2 DEF Tightest, Notice
  <2>2. CASE \/ n.remaining < best.remaining
             \/ n.remaining = best.remaining /\ best.reset < n.reset
    <3>1. Tighter(best, n) = n
      BY <2>2 DEF Tighter
    <3>2. \A o \in seen : \/ o.remaining > n.remaining
                          \/ o.remaining = n.remaining /\ o.reset <= n.reset
      BY <1>2, <2>1, <2>2 DEF Tightest
    <3> QED
      BY <2>1, <3>1, <3>2 DEF Tightest
  <2>3. CASE ~ \/ n.remaining < best.remaining
               \/ n.remaining = best.remaining /\ best.reset < n.reset
    <3>1. Tighter(best, n) = best
      BY <1>2, <2>3 DEF Tighter
    <3> QED
      BY <1>2, <2>1, <2>3, <3>1 DEF Tightest
  <2> QED
    BY <2>2, <2>3
<1> QED
  BY <1>1, <1>2

-----------------------------------------------------------------------------
(* Windows.                                                                *)

LEMMA PolicyTypes ==
  ASSUME NEW p \in Policies
  PROVE  /\ MaxRequests[p] \in Nat \ {0} /\ WindowSeconds[p] \in Nat \ {0}
         /\ Half \in Nat \ {0} /\ Second \in Nat \ {0} /\ Second = Half + Half
         /\ Window(p) \in Nat \ {0} /\ Window(p) = WindowSeconds[p] * Second
         /\ Window(p) >= Second
<1>1. /\ MaxRequests[p] \in Nat \ {0} /\ WindowSeconds[p] \in Nat \ {0}
      /\ Half \in Nat \ {0} /\ Second \in Nat \ {0} /\ Second = Half + Half
  BY PolicyAssumption, HalfAssumption DEF Second
<1>2. \A a, b \in Nat \ {0} : a * b \in Nat \ {0} /\ a * b >= b
  OBVIOUS
<1> QED
  BY <1>1, <1>2 DEF Window

LEMMA NonePolicy ==
  ASSUME NEW p \in Policies
  PROVE  None \notin Counter(p) /\ None \notin Notice
BY NoneIsNothing

LEMMA KeyIsKey ==
  ASSUME NEW p \in Policies, NEW c \in Callers
  PROVE  Key[p][c] \in Keys[p]
BY DEF Keys

\* Division rounds down.
LEMMA RoundsDown ==
  ASSUME NEW a \in Nat, NEW d \in Nat \ {0}
  PROVE  /\ a \div d \in Nat
         /\ (a \div d) * d <= a
         /\ a < (a \div d) * d + d
OBVIOUS

\* The time the guard reports is at most the window, and what is left of the
\* window is at most half a second more than it.
LEMMA ReportedTime ==
  ASSUME NEW p \in Policies, NEW counter \in Counter(p)
  PROVE  /\ TtlSeconds(p, counter) \in 1 .. WindowSeconds[p]
         /\ TtlSeconds(p, counter) * Second \in 0 .. Window(p)
         /\ counter.left <= TtlSeconds(p, counter) * Second + Half
<1> DEFINE ttl == (counter.left + Half) \div Second
<1>1. counter.left \in Nat /\ counter.left <= Window(p)
  BY PolicyTypes DEF Counter
<1>2. /\ ttl \in Nat /\ ttl * Second <= counter.left + Half
      /\ counter.left + Half < ttl * Second + Second
  <2>1. counter.left + Half \in Nat
    BY <1>1, PolicyTypes
  <2> QED
    BY <2>1, PolicyTypes, RoundsDown
<1> HIDE DEF ttl
<1>3. ttl <= WindowSeconds[p]
  <2>1. ttl * Second < WindowSeconds[p] * Second + Second
    BY <1>1, <1>2, PolicyTypes
  <2>2. \A a, b \in Nat, d \in Nat \ {0} : a * d < b * d + d => a <= b
    <3>1. SUFFICES ASSUME NEW a \in Nat, NEW b \in Nat, NEW d \in Nat \ {0}, a > b
                   PROVE  a * d >= b * d + d
      BY <3>1
    <3>2. PICK e \in Nat : a = b + 1 + e
      <4>1. a - (b + 1) \in Nat /\ a = b + 1 + (a - (b + 1))
        BY <3>1
      <4> QED
        BY <4>1
    <3>3. a * d = b * d + d + e * d /\ e * d \in Nat
      BY <3>2
    <3> QED
      BY <3>3
  <2> QED
    BY <1>2, <2>1, <2>2, PolicyTypes
<1>4. CASE ttl > 0
  <2>1. TtlSeconds(p, counter) = ttl
    BY <1>4 DEF TtlSeconds, ttl
  <2>2. ttl * Second \in Nat /\ ttl * Second <= WindowSeconds[p] * Second
    <3>1. \A a, b, d \in Nat : a <= b => a * d \in Nat /\ a * d <= b * d
      OBVIOUS
    <3> QED
      BY <1>2, <1>3, <3>1, PolicyTypes
  <2> QED
    BY <1>1, <1>2, <1>3, <1>4, <2>1, <2>2, PolicyTypes
<1>5. CASE ttl = 0
  <2>1. TtlSeconds(p, counter) = WindowSeconds[p]
    BY <1>5 DEF TtlSeconds, ttl
  <2> QED
    BY <1>1, <2>1, PolicyTypes
<1> QED
  BY <1>2, <1>4, <1>5

LEMMA RemainingCounts ==
  ASSUME NEW p \in Policies, NEW counter \in Counter(p)
  PROVE  Remaining(p, counter) \in Nat
<1>1. counter.count \in Nat /\ MaxRequests[p] \in Nat
  BY PolicyTypes DEF Counter
<1>2. CASE counter.count > MaxRequests[p]
  BY <1>2 DEF Remaining, Full
<1>3. CASE counter.count <= MaxRequests[p]
  BY <1>1, <1>3 DEF Remaining, Full, Least
<1> QED
  BY <1>1, <1>2, <1>3

LEMMA IncrementedCounter ==
  ASSUME NEW p \in Policies, NEW old \in Counter(p) \union {None}
  PROVE  /\ Incremented(p, old) \in Counter(p)
         /\ old = None => Incremented(p, old).count = 1
         /\ old # None => /\ Incremented(p, old).left = old.left
                          /\ Incremented(p, old).count = Least(old.count + 1, MaxRequests[p] + 1)
<1>1. CASE old = None
  BY <1>1, PolicyTypes DEF Incremented, Counter
<1>2. CASE old # None
  BY <1>2, PolicyTypes DEF Incremented, Counter, Least
<1> QED
  BY <1>1, <1>2

\* The count a policy lets through, and the one it refuses.
LEMMA KeyLetsThrough ==
  ASSUME NEW p \in Policies, NEW old, NEW through, NEW return,
         KeyRight(p, old, through, return), ~Full(p, Incremented(p, old))
  PROVE  KeyRight(p, Incremented(p, old), Least(through + 1, MaxRequests[p] + 1), return)
<1> DEFINE new == Incremented(p, old)
<1>1. /\ new \in Counter(p) /\ new # None /\ new.count \in Nat
      /\ through \in Nat /\ MaxRequests[p] \in Nat
  BY IncrementedCounter, PolicyTypes, NonePolicy DEF KeyRight, Counter
<1>2. new.count <= MaxRequests[p]
  BY <1>1 DEF Full
<1>3. CASE old = None
  <2>1. new.count = 1 /\ through = 0 /\ return = None
    BY <1>3, IncrementedCounter DEF KeyRight
  <2> QED
    BY <1>1, <1>2, <2>1 DEF KeyRight, Least
<1>4. CASE old # None
  <2>1. old \in Counter(p) /\ old.count \in Nat /\ through = Least(old.count, MaxRequests[p])
    BY <1>4, PolicyTypes DEF KeyRight, Counter
  <2>2. new.left = old.left /\ new.count = old.count + 1
    BY <1>1, <1>2, <1>4, <2>1, IncrementedCounter DEF KeyRight, Least
  <2>3. Least(through + 1, MaxRequests[p] + 1) = through + 1
    BY <1>1, <1>2, <2>1, <2>2 DEF Least
  <2> HIDE DEF new
  <2>4. /\ through + 1 \in 0 .. MaxRequests[p]
        /\ through + 1 = Least(new.count, MaxRequests[p])
        /\ return # None => new.left <= return + Half
    BY <1>1, <1>2, <1>4, <2>1, <2>2 DEF KeyRight, Least
  <2>5. KeyRight(p, new, Least(through + 1, MaxRequests[p] + 1), return)
    BY <1>1, <2>3, <2>4 DEF KeyRight
  <2> QED
    BY <2>5 DEF new
<1> QED
  BY <1>3, <1>4

LEMMA KeyRefuses ==
  ASSUME NEW p \in Policies, NEW old, NEW through, NEW return,
         KeyRight(p, old, through, return), Full(p, Incremented(p, old)),
         NEW reset, reset = TtlSeconds(p, Incremented(p, old)) * Second
  PROVE  KeyRight(p, Incremented(p, old), through,
                  IF return = None \/ return > reset THEN reset ELSE return)
<1> DEFINE new == Incremented(p, old)
<1>1. /\ new \in Counter(p) /\ new # None /\ new.count \in Nat
      /\ through \in Nat /\ MaxRequests[p] \in Nat
  BY IncrementedCounter, PolicyTypes, NonePolicy DEF KeyRight, Counter
<1>2. new.count > MaxRequests[p]
  BY DEF Full
<1>3. old # None
  BY <1>1, <1>2, IncrementedCounter, PolicyTypes DEF KeyRight
<1>4. new.left = old.left /\ through = Least(new.count, MaxRequests[p])
  <2>1. old.count \in Nat /\ through = Least(old.count, MaxRequests[p])
    BY <1>3, PolicyTypes DEF KeyRight, Counter
  <2>2. new.left = old.left /\ new.count = Least(old.count + 1, MaxRequests[p] + 1)
    BY <1>3, IncrementedCounter DEF KeyRight
  <2> HIDE DEF new
  <2> QED BY <1>1, <1>2, <2>1, <2>2 DEF Least
<1>5. reset \in 0 .. Window(p) /\ new.left <= reset + Half
  BY <1>1, ReportedTime
<1> HIDE DEF new
<1>6. KeyRight(p, new, through, IF return = None \/ return > reset THEN reset ELSE return)
  BY <1>1, <1>3, <1>4, <1>5 DEF KeyRight
<1> QED
  BY <1>6 DEF new

\* A part of a second passes.
LEMMA KeyTicks ==
  ASSUME NEW p \in Policies, NEW old, NEW through, NEW return,
         KeyRight(p, old, through, return), old # None, old.left # 1
  PROVE  KeyRight(p, [old EXCEPT !.left = old.left - 1], through,
                  IF return = None THEN None ELSE IF return = 0 THEN 0 ELSE return - 1)
<1> DEFINE new == [old EXCEPT !.left = old.left - 1]
<1>1. old \in Counter(p) /\ old.left \in 1 .. Window(p) /\ Window(p) \in Nat
  BY PolicyTypes DEF KeyRight, Counter
<1>2. new \in Counter(p) /\ new.left = old.left - 1 /\ new.count = old.count
  BY <1>1 DEF Counter
<1>3. new # None
  BY <1>2, NonePolicy
<1> HIDE DEF new
<1>4. Half \in Nat
  BY HalfAssumption
<1>5. CASE return = None
  <2>1. KeyRight(p, new, through, None)
    BY <1>2, <1>3, <1>5 DEF KeyRight
  <2> QED
    BY <1>5, <2>1 DEF new
<1>6. CASE return # None
  <2>1. return \in 0 .. Window(p) /\ old.left <= return + Half
    BY <1>6 DEF KeyRight
  <2> DEFINE left == IF return = 0 THEN 0 ELSE return - 1
  <2>2. left \in 0 .. Window(p) /\ new.left <= left + Half
    BY <1>1, <1>2, <1>4, <2>1
  <2> HIDE DEF left
  <2>3. KeyRight(p, new, through, left)
    BY <1>2, <1>3, <2>2 DEF KeyRight
  <2> QED
    BY <1>6, <2>3 DEF left, new
<1> QED
  BY <1>5, <1>6

LEMMA KeyEmpty ==
  ASSUME NEW p \in Policies
  PROVE  KeyRight(p, None, 0, None)
BY PolicyTypes DEF KeyRight

-----------------------------------------------------------------------------
(* Steps.                                                                  *)

\* One key of one policy changes.
LEMMA OneKey ==
  ASSUME KeysRight, NEW p \in Policies, NEW k \in Keys[p],
         NEW counter, NEW through, NEW return, KeyRight(p, counter, through, return),
         counters' = [counters EXCEPT ![p][k] = counter],
         \/ passed' = [passed EXCEPT ![p][k] = through]
         \/ passed' = passed /\ through = passed[p][k],
         \/ advice' = [advice EXCEPT ![p][k] = return]
         \/ advice' = advice /\ return = advice[p][k]
  PROVE  KeysRight'
<1>1. /\ DOMAIN counters' = Policies /\ DOMAIN passed' = Policies
      /\ DOMAIN advice' = Policies
  BY DEF KeysRight
<1>2. ASSUME NEW q \in Policies
      PROVE  /\ counters'[q] \in [Keys[q] -> Counter(q) \union {None}]
             /\ passed'[q] \in [Keys[q] -> 0 .. MaxRequests[q] + 1]
             /\ advice'[q] \in [Keys[q] -> 0 .. Window(q) \union {None}]
             /\ \A j \in Keys[q] : KeyRight(q, counters'[q][j], passed'[q][j], advice'[q][j])
  <2>1. CASE q # p
    <3>1. counters'[q] = counters[q] /\ passed'[q] = passed[q] /\ advice'[q] = advice[q]
      BY <2>1 DEF KeysRight
    <3> QED
      BY <3>1 DEF KeysRight
  <2>2. CASE q = p
    <3>1. /\ counters'[p] = [counters[p] EXCEPT ![k] = counter]
          /\ passed'[p] = [passed[p] EXCEPT ![k] = through]
          /\ advice'[p] = [advice[p] EXCEPT ![k] = return]
      <4>1. counters'[p] = [counters[p] EXCEPT ![k] = counter]
        BY DEF KeysRight
      <4>2. passed'[p] = [passed[p] EXCEPT ![k] = through]
        BY DEF KeysRight
      <4>3. advice'[p] = [advice[p] EXCEPT ![k] = return]
        BY DEF KeysRight
      <4> QED
        BY <4>1, <4>2, <4>3
    <3>2. /\ counter \in Counter(p) \union {None}
          /\ through \in 0 .. MaxRequests[p] + 1
          /\ return \in 0 .. Window(p) \union {None}
      BY PolicyTypes DEF KeyRight
    <3>3. /\ counters'[p] \in [Keys[p] -> Counter(p) \union {None}]
          /\ \A j \in Keys[p] : counters'[p][j] = IF j = k THEN counter ELSE counters[p][j]
      BY <3>1, <3>2 DEF KeysRight
    <3>4. /\ passed'[p] \in [Keys[p] -> 0 .. MaxRequests[p] + 1]
          /\ \A j \in Keys[p] : passed'[p][j] = IF j = k THEN through ELSE passed[p][j]
      BY <3>1, <3>2 DEF KeysRight
    <3>5. /\ advice'[p] \in [Keys[p] -> 0 .. Window(p) \union {None}]
          /\ \A j \in Keys[p] : advice'[p][j] = IF j = k THEN return ELSE advice[p][j]
      BY <3>1, <3>2 DEF KeysRight
    <3>6. \A j \in Keys[p] : KeyRight(p, counters'[p][j], passed'[p][j], advice'[p][j])
      BY <3>3, <3>4, <3>5 DEF KeysRight
    <3> QED
      BY <2>2, <3>3, <3>4, <3>5, <3>6
  <2> QED
    BY <2>1, <2>2
<1> QED
  BY <1>1, <1>2 DEF KeysRight

LEMMA InvInit == Init => Inv
<1> SUFFICES ASSUME Init PROVE Inv
  OBVIOUS
<1>1. RequestsRight
  BY IdleRight DEF Init, RequestsRight, RequestStates
<1>2. ASSUME NEW p \in Policies
      PROVE  0 \in 0 .. MaxRequests[p] + 1
  BY PolicyTypes
<1>3. KeysRight
  BY <1>2, KeyEmpty DEF Init, KeysRight
<1> QED
  BY <1>1, <1>3 DEF Inv

LEMMA InvAsk ==
  ASSUME Inv, NEW r \in Requests, NEW c \in Callers, Ask(r, c)
  PROVE  Inv'
<1>1. 1 \in Policies
  BY PolicyAssumption DEF Policies
<1>2. RequestRight(Counting(c, 1, None, {}))
  BY <1>1, CountingRight
<1>3. RequestsRight'
  BY <1>2, Updated DEF Inv, Ask
<1> QED
  BY <1>3 DEF Inv, Ask, KeysRight

LEMMA InvLeave ==
  ASSUME Inv, NEW r \in Requests, Reply(r) \/ Fail(r)
  PROVE  Inv'
<1>1. RequestsRight'
  BY IdleRight, Updated DEF Inv, Reply, Fail
<1> QED
  BY <1>1 DEF Inv, Reply, Fail, KeysRight

LEMMA InvCount ==
  ASSUME Inv, NEW r \in Requests, Count(r)
  PROVE  Inv'
<1> DEFINE m == requests[r]
           p == m.policy
           k == Key[p][m.caller]
           old == counters[p][k]
           counter == Incremented(p, old)
           notice == NoticeOf(p, counter)
           seen == m.seen \union {notice}
           tightest == Tighter(m.tightest, notice)
<1>1. /\ m \in CountStates /\ m.pc = "count"
      /\ \A n \in m.seen : Proper(n)
      /\ IF m.tightest = None THEN m.seen = {} ELSE Tightest(m.tightest, m.seen)
  BY Shapes DEF Inv, RequestsRight, RequestRight, Count
<1>2. /\ p \in Policies /\ m.caller \in Callers /\ m.tightest \in Notice \union {None}
      /\ k \in Keys[p]
  <2>1. p \in Policies /\ m.caller \in Callers /\ m.tightest \in Notice \union {None}
    BY <1>1 DEF CountStates
  <2> QED
    BY <2>1, KeyIsKey
<1>3. KeyRight(p, old, passed[p][k], advice[p][k])
  BY <1>2 DEF Inv, KeysRight
<1>4. counter \in Counter(p)
  BY <1>2, <1>3, IncrementedCounter DEF KeyRight
<1>5. Proper(notice) /\ notice.reset = TtlSeconds(p, counter)
  <2>1. TtlSeconds(p, counter) \in 1 .. WindowSeconds[p] /\ WindowSeconds[p] \in Nat
    BY <1>2, <1>4, ReportedTime, PolicyTypes
  <2>2. Remaining(p, counter) \in Nat
    BY <1>2, <1>4, RemainingCounts
  <2> QED
    BY <1>2, <2>1, <2>2 DEF NoticeOf, Proper, Notice
<1>6. /\ Tightest(tightest, seen) /\ tightest \in Notice
      /\ \A n \in seen : Proper(n)
  <2>1. notice \in Notice /\ \A o \in m.seen : o \in Notice
    BY <1>1, <1>5 DEF Proper
  <2> QED
    BY <1>1, <1>2, <1>5, <2>1, TighterIsTightest
<1>7. CASE Full(p, counter)
  <2>1. /\ Become(r, Idle) /\ passed' = passed
        /\ counters' = [counters EXCEPT ![p][k] = counter]
        /\ advice' = [advice EXCEPT ![p][k] =
             IF advice[p][k] = None \/ advice[p][k] > notice.reset * Second
             THEN notice.reset * Second ELSE advice[p][k]]
    BY <1>7 DEF Count
  <2>2. KeyRight(p, counter, passed[p][k],
                 IF advice[p][k] = None \/ advice[p][k] > notice.reset * Second
                 THEN notice.reset * Second ELSE advice[p][k])
    BY <1>2, <1>3, <1>5, <1>7, KeyRefuses
  <2> HIDE DEF p, k, counter, notice
  <2>3. KeysRight'
    BY <1>2, <2>1, <2>2, OneKey DEF Inv
  <2>4. RequestsRight'
    BY <2>1, IdleRight, Updated DEF Inv
  <2> QED
    BY <2>3, <2>4 DEF Inv
<1>8. CASE ~Full(p, counter)
  <2> DEFINE next == IF p < NumPolicies THEN Counting(m.caller, p + 1, tightest, seen)
                     ELSE Admitted(tightest, seen)
  <2>1. /\ Become(r, next) /\ advice' = advice
        /\ counters' = [counters EXCEPT ![p][k] = counter]
        /\ passed' = [passed EXCEPT ![p][k] = Least(passed[p][k] + 1, MaxRequests[p] + 1)]
    BY <1>8 DEF Count
  <2>2. KeyRight(p, counter, Least(passed[p][k] + 1, MaxRequests[p] + 1), advice[p][k])
    BY <1>2, <1>3, <1>8, KeyLetsThrough
  <2>3. tightest # None
    BY <1>2, <1>6, NonePolicy
  <2>4. p < NumPolicies => p + 1 \in Policies
    BY <1>2, PolicyAssumption DEF Policies
  <2> HIDE DEF p, k, counter, notice, seen, tightest
  <2>5. RequestRight(next)
    BY <1>2, <1>6, <2>3, <2>4, CountingRight, AdmittedRight
  <2> HIDE DEF next
  <2>6. KeysRight'
    BY <1>2, <2>1, <2>2, OneKey DEF Inv
  <2>7. RequestsRight'
    BY <2>1, <2>5, Updated DEF Inv
  <2> QED
    BY <2>6, <2>7 DEF Inv
<1> QED
  BY <1>7, <1>8

LEMMA InvTick ==
  ASSUME Inv, Tick
  PROVE  Inv'
<1>1. RequestsRight'
  BY DEF Inv, RequestsRight, Tick
<1>2. ASSUME NEW p \in Policies, NEW k \in Keys[p]
      PROVE  KeyRight(p, counters'[p][k], passed'[p][k], advice'[p][k])
  <2>1. KeyRight(p, counters[p][k], passed[p][k], advice[p][k])
    BY DEF Inv, KeysRight
  <2>2. CASE Gone(p, k)
    <3>1. counters'[p][k] = None /\ passed'[p][k] = 0 /\ advice'[p][k] = None
      BY <2>2 DEF Tick
    <3> QED
      BY <3>1, KeyEmpty
  <2>3. CASE ~Gone(p, k)
    <3>1. /\ counters'[p][k] = [counters[p][k] EXCEPT !.left = counters[p][k].left - 1]
          /\ passed'[p][k] = passed[p][k]
          /\ advice'[p][k] = IF advice[p][k] = None THEN None
                             ELSE IF advice[p][k] = 0 THEN 0 ELSE advice[p][k] - 1
      BY <2>3 DEF Tick
    <3>2. counters[p][k] # None /\ counters[p][k].left # 1
      BY <2>3 DEF Gone
    <3> QED
      BY <2>1, <3>1, <3>2, KeyTicks
  <2> QED
    BY <2>2, <2>3
<1>3. ASSUME NEW p \in Policies
      PROVE  /\ counters'[p] \in [Keys[p] -> Counter(p) \union {None}]
             /\ passed'[p] \in [Keys[p] -> 0 .. MaxRequests[p] + 1]
             /\ advice'[p] \in [Keys[p] -> 0 .. Window(p) \union {None}]
  <2>1. \A k \in Keys[p] : /\ counters'[p][k] \in Counter(p) \union {None}
                           /\ passed'[p][k] \in 0 .. MaxRequests[p] + 1
                           /\ advice'[p][k] \in 0 .. Window(p) \union {None}
    BY <1>2, PolicyTypes DEF KeyRight
  <2>2. /\ counters'[p] = [k \in Keys[p] |-> counters'[p][k]]
        /\ passed'[p] = [k \in Keys[p] |-> passed'[p][k]]
        /\ advice'[p] = [k \in Keys[p] |-> advice'[p][k]]
    BY DEF Tick
  <2> QED
    BY <2>1, <2>2
<1>4. /\ DOMAIN counters' = Policies /\ DOMAIN passed' = Policies
      /\ DOMAIN advice' = Policies
  BY DEF Tick
<1>5. KeysRight'
  BY <1>2, <1>3, <1>4 DEF KeysRight
<1> QED
  BY <1>1, <1>5 DEF Inv

LEMMA InvEvict ==
  ASSUME Inv, NEW p \in Policies, NEW k \in Keys[p], Evict(p, k)
  PROVE  Inv'
<1>1. RequestsRight'
  BY DEF Inv, RequestsRight, Evict
<1>2. KeysRight'
  BY KeyEmpty, OneKey DEF Inv, Evict
<1> QED
  BY <1>1, <1>2 DEF Inv

LEMMA InvNext == Inv /\ [Next]_vars => Inv'
<1> SUFFICES ASSUME Inv, [Next]_vars PROVE Inv'
  OBVIOUS
<1>1. CASE UNCHANGED vars
  BY <1>1 DEF vars, Inv, KeysRight, RequestsRight
<1>2. CASE Next
  BY <1>2, InvAsk, InvCount, InvLeave, InvTick, InvEvict DEF Next
<1> QED
  BY <1>1, <1>2

LEMMA InvHolds == Spec => []Inv
<1>1. Init => Inv
  BY InvInit
<1>2. Inv /\ [Next]_vars => Inv'
  BY InvNext
<1> QED
  BY <1>1, <1>2, PTL DEF Spec

-----------------------------------------------------------------------------
LEMMA InvImplies == Inv => IInv
<1> SUFFICES ASSUME Inv PROVE IInv
  OBVIOUS
<1>1. TypeOK
  <2>1. ASSUME NEW r \in Requests, requests[r].pc # "idle", NEW n \in requests[r].seen
        PROVE  n.reset \in 1 .. WindowSeconds[n.policy]
    BY <2>1 DEF Inv, RequestsRight, RequestRight, Proper
  <2> QED
    BY <2>1 DEF Inv, KeysRight, RequestsRight, TypeOK
<1>2. ASSUME NEW p \in Policies, NEW k \in Keys[p]
      PROVE  KeyRight(p, counters[p][k], passed[p][k], advice[p][k])
  BY DEF Inv, KeysRight
<1>3. PassedCounted /\ LimitKept
  <2>1. ASSUME NEW p \in Policies, NEW k \in Keys[p], counters[p][k] # None,
               Full(p, counters[p][k])
        PROVE  passed[p][k] = MaxRequests[p]
    BY <1>2, <2>1, PolicyTypes DEF KeyRight, Full, Least, Counter
  <2>2. ASSUME NEW p \in Policies, NEW k \in Keys[p]
        PROVE  passed[p][k] <= MaxRequests[p]
    BY <1>2, PolicyTypes DEF KeyRight
  <2>3. LimitKept
    BY <2>1, <2>2 DEF LimitKept
  <2> QED BY <1>2, <2>3 DEF KeyRight, PassedCounted
<1>4. RetryAfterHolds
  BY <1>2 DEF KeyRight, RetryAfterHolds
<1>5. TightestSoFar /\ HeadersTightest
  BY DEF Inv, RequestsRight, RequestRight, Tightest, TightestSoFar, HeadersTightest
<1> QED
  BY <1>1, <1>3, <1>4, <1>5 DEF IInv

\* The inductive invariant holds always.
THEOREM LimiterInvariant == Spec => []IInv
BY InvHolds, InvImplies, PTL

\* Every variable keeps its shape, and no request is ever told to come back in
\* no time or later than a whole window.
THEOREM LimiterTypes == Spec => []TypeOK
<1>1. IInv => TypeOK
  BY DEF IInv
<1> QED
  BY <1>1, LimiterInvariant, PTL

\* No window of any policy lets more requests through than the policy allows,
\* however many callers share the key.
THEOREM LimitIsKept == Spec => []LimitKept
<1>1. IInv => LimitKept
  BY DEF IInv
<1> QED
  BY <1>1, LimiterInvariant, PTL

\* Who returns when Retry-After said finds the window over, but for rounding.
THEOREM RetryAfterIsKept == Spec => []RetryAfterHolds
<1>1. IInv => RetryAfterHolds
  BY DEF IInv
<1> QED
  BY <1>1, LimiterInvariant, PTL

\* The headers name the tightest of any number of policies.
THEOREM HeadersNameTightest == Spec => []HeadersTightest
<1>1. IInv => HeadersTightest
  BY DEF IInv
<1> QED
  BY <1>1, LimiterInvariant, PTL

-----------------------------------------------------------------------------
(* Windows from one step to the next.                                      *)

\* An open window is never prolonged, never forgets what it counted, and lets
\* nobody through any more once it has refused somebody.
WindowIsFixed ==
  \A p \in Policies : \A k \in Keys[p] :
    counters[p][k] # None /\ counters'[p][k] # None =>
      /\ counters'[p][k].left <= counters[p][k].left
      /\ counters'[p][k].count >= counters[p][k].count
      /\ Full(p, counters[p][k]) => passed'[p][k] = passed[p][k]

LEMMA CountKeepsWindow ==
  ASSUME Inv, NEW r \in Requests, Count(r)
  PROVE  WindowIsFixed
<1> DEFINE p == requests[r].policy
           k == Key[p][requests[r].caller]
           counter == Incremented(p, counters[p][k])
<1>1. p \in Policies /\ k \in Keys[p]
  <2>1. requests[r] \in CountStates
    BY Shapes DEF Inv, RequestsRight, RequestRight, Count
  <2> QED BY <2>1, KeyIsKey DEF CountStates
<1>2. /\ counters' = [counters EXCEPT ![p][k] = counter]
      /\ \/ passed' = passed
         \/ ~Full(p, counter)
            /\ passed' = [passed EXCEPT ![p][k] = Least(passed[p][k] + 1, MaxRequests[p] + 1)]
  BY DEF Count
<1> HIDE DEF p, k
<1> SUFFICES ASSUME NEW q \in Policies, NEW j \in Keys[q],
                    counters[q][j] # None, counters'[q][j] # None
             PROVE  /\ counters'[q][j].left <= counters[q][j].left
                    /\ counters'[q][j].count >= counters[q][j].count
                    /\ Full(q, counters[q][j]) => passed'[q][j] = passed[q][j]
  BY DEF WindowIsFixed
<1>3. /\ counters[q][j] \in Counter(q) /\ MaxRequests[q] \in Nat /\ Window(q) \in Nat
      /\ counters[q][j].count \in 1 .. MaxRequests[q] + 1 /\ counters[q][j].left \in Nat
  BY PolicyTypes DEF Inv, KeysRight, Counter
<1>4. CASE q = p /\ j = k
  <2>1. counters'[q][j] = Incremented(q, counters[q][j])
    BY <1>1, <1>2, <1>4 DEF Inv, KeysRight
  <2>2. /\ Incremented(q, counters[q][j]).left = counters[q][j].left
        /\ Incremented(q, counters[q][j]).count
             = Least(counters[q][j].count + 1, MaxRequests[q] + 1)
    BY <1>3, IncrementedCounter
  <2>3. Least(counters[q][j].count + 1, MaxRequests[q] + 1) >= counters[q][j].count
    BY <1>3 DEF Least
  <2>4. Full(q, counters[q][j]) => Full(p, counter)
    BY <1>3, <1>4, <2>2 DEF Full, Least
  <2>5. Full(q, counters[q][j]) => passed' = passed
    BY <1>2, <2>4
  <2> QED BY <1>3, <2>1, <2>2, <2>3, <2>5
<1>5. CASE q # p \/ j # k
  <2>1. counters'[q][j] = counters[q][j] /\ passed'[q][j] = passed[q][j]
    BY <1>1, <1>2, <1>5 DEF Inv, KeysRight
  <2> QED BY <1>3, <2>1
<1> QED BY <1>4, <1>5

LEMMA TimeKeepsWindow ==
  ASSUME Inv, Tick
  PROVE  WindowIsFixed
<1> SUFFICES ASSUME NEW p \in Policies, NEW k \in Keys[p],
                    counters[p][k] # None, counters'[p][k] # None
             PROVE  /\ counters'[p][k].left <= counters[p][k].left
                    /\ counters'[p][k].count >= counters[p][k].count
                    /\ Full(p, counters[p][k]) => passed'[p][k] = passed[p][k]
  BY DEF WindowIsFixed
<1>1. counters[p][k] \in Counter(p) /\ counters[p][k].count \in Nat /\ counters[p][k].left \in Nat
  BY PolicyTypes DEF Inv, KeysRight, Counter
<1>2. ~Gone(p, k)
  BY DEF Tick
<1>3. /\ counters'[p][k] = [counters[p][k] EXCEPT !.left = counters[p][k].left - 1]
      /\ passed'[p][k] = passed[p][k]
  BY <1>2 DEF Tick
<1>4. counters'[p][k].left = counters[p][k].left - 1 /\ counters'[p][k].count = counters[p][k].count
  BY <1>1, <1>3 DEF Counter
<1> QED BY <1>1, <1>3, <1>4

LEMMA OthersKeepWindow ==
  ASSUME Inv, UNCHANGED <<counters, passed>>
  PROVE  WindowIsFixed
<1>1. \A p \in Policies : \A k \in Keys[p] : counters[p][k] # None =>
        counters[p][k].count \in Nat /\ counters[p][k].left \in Nat
  BY PolicyTypes DEF Inv, KeysRight, Counter
<1> QED BY <1>1 DEF WindowIsFixed

LEMMA EvictionKeepsWindow ==
  ASSUME Inv, NEW p \in Policies, NEW k \in Keys[p], Evict(p, k)
  PROVE  WindowIsFixed
<1>1. \A q \in Policies : \A j \in Keys[q] : counters[q][j] # None =>
        counters[q][j].count \in Nat /\ counters[q][j].left \in Nat
  BY PolicyTypes DEF Inv, KeysRight, Counter
<1>2. \A q \in Policies : \A j \in Keys[q] :
        IF q = p /\ j = k THEN counters'[q][j] = None
        ELSE counters'[q][j] = counters[q][j] /\ passed'[q][j] = passed[q][j]
  BY DEF Evict, Inv, KeysRight
<1> QED BY <1>1, <1>2 DEF WindowIsFixed

\* A window that is asked for again and again still ends when it was to end, and
\* once it has refused somebody it stays shut: nobody who asks more often, and no
\* other caller of the key, gets through before then.
THEOREM WindowsAreFixed == Spec => [][WindowIsFixed]_vars
<1>1. Inv /\ Next => WindowIsFixed
  <2> SUFFICES ASSUME Inv, Next PROVE WindowIsFixed
    OBVIOUS
  <2>1. CASE \E r \in Requests : (\E c \in Callers : Ask(r, c)) \/ Reply(r) \/ Fail(r)
    BY <2>1, OthersKeepWindow DEF Ask, Reply, Fail
  <2>2. CASE \E r \in Requests : Count(r)
    BY <2>2, CountKeepsWindow
  <2>3. CASE Tick
    BY <2>3, TimeKeepsWindow
  <2>4. CASE \E p \in Policies : \E k \in Keys[p] : Evict(p, k)
    BY <2>4, EvictionKeepsWindow
  <2> QED BY <2>1, <2>2, <2>3, <2>4 DEF Next
<1> QED BY <1>1, InvHolds, PTL DEF Spec
=============================================================================

----------------------------- MODULE SessionsProofs -----------------------------
(***************************************************************************)
(* The invariant of Sessions, for every number of requests and logins and  *)
(* every life of the tokens.                                               *)
(***************************************************************************)
EXTENDS Sessions, TLAPS

\* What a request's program counter says about its record.
LEMMA Shapes ==
  ASSUME NEW m \in RequestStates
  PROVE  /\ m.pc = "idle" <=> m = Idle
         /\ m.pc = "find" <=> m \in FindStates
         /\ m.pc \in {"revoke", "rotate"} <=> m \in RefreshStates
         /\ m.pc = "verify" <=> m \in CheckStates
         /\ m.pc = "measure" <=> m \in MeasureStates
         /\ m.pc = "set" <=> m \in SetStates
BY DEF RequestStates, FindStates, RefreshStates, CheckStates, MeasureStates, SetStates,
       Idle

LEMMA Constructed ==
  /\ Idle \in RequestStates
  /\ \A t \in Tokens : Finding(t) \in RequestStates
  /\ \A pc \in {"revoke", "rotate"}, i \in Rows : Refreshing(pc, i) \in RequestStates
  /\ \A t \in Tokens, leave, late \in BOOLEAN : Checking(t, leave, late) \in RequestStates
  /\ \A t \in Tokens : Measuring(t) \in RequestStates
  /\ \A t \in Tokens, ttl \in 1 .. AccessLife : Blacklisting(t, ttl) \in RequestStates
BY DEF RequestStates, FindStates, RefreshStates, CheckStates, MeasureStates, SetStates,
       Idle, Finding, Refreshing, Checking, Measuring, Blacklisting

LEMMA Labels ==
  /\ Idle.pc = "idle"
  /\ \A t : Finding(t).pc = "find" /\ Finding(t).token = t
  /\ \A pc, i : Refreshing(pc, i).pc = pc /\ Refreshing(pc, i).row = i
  /\ \A t, leave, late : /\ Checking(t, leave, late).pc = "verify"
                         /\ Checking(t, leave, late).token = t
                         /\ Checking(t, leave, late).late = late
  /\ \A t : Measuring(t).pc = "measure" /\ Measuring(t).token = t
  /\ \A t, ttl : /\ Blacklisting(t, ttl).pc = "set"
                 /\ Blacklisting(t, ttl).token = t /\ Blacklisting(t, ttl).ttl = ttl
BY DEF Idle, Finding, Refreshing, Checking, Measuring, Blacklisting

LEMMA Updated ==
  ASSUME TypeOK, NEW r \in Requests, NEW m \in RequestStates, Become(r, m)
  PROVE  /\ requests' \in [Requests -> RequestStates]
         /\ \A s \in Requests : requests'[s] = IF s = r THEN m ELSE requests[s]
BY DEF TypeOK, Become

\* The steps of a refresh that touch no row
Asks(r) == RefuseRefresh(r) \/ \E t \in Tokens : VerifyRefreshToken(r, t)

LEMMA Asked ==
  ASSUME TypeOK, NEW r \in Requests, Asks(r)
  PROVE  /\ UNCHANGED <<now, sessions, access>> /\ requests[r].pc \in {"idle", "find"}
         /\ \E m \in RequestStates : Become(r, m) /\ m.pc \in {"idle", "find"}
         /\ requests' \in [Requests -> RequestStates]
         /\ requests'[r].pc \in {"idle", "find"}
         /\ \A s \in Requests : s # r => requests'[s] = requests[s]
<1>1. UNCHANGED <<now, sessions, access>> /\ requests[r].pc \in {"idle", "find"}
  BY DEF Asks, RefuseRefresh, VerifyRefreshToken
<1>2. PICK m \in RequestStates : Become(r, m) /\ m.pc \in {"idle", "find"}
  <2>1. CASE RefuseRefresh(r)
    BY <2>1, Constructed, Labels DEF RefuseRefresh
  <2>2. ASSUME NEW t \in Tokens, VerifyRefreshToken(r, t)
        PROVE  Become(r, Finding(t)) /\ Finding(t) \in RequestStates
    BY <2>2, Constructed DEF VerifyRefreshToken
  <2> QED
    BY <2>1, <2>2, Labels DEF Asks
<1> QED
  BY <1>1, <1>2, Updated

LEMMA Numbers ==
  /\ AccessLife \in Nat \ {0} /\ RefreshLife \in Nat \ {0} /\ Parts \in Nat \ {0}
  /\ MaxSecond \in Nat /\ MaxRows \in Nat
  /\ TypeOK => /\ now.second \in Tokens /\ now.second \in Nat /\ now.second <= MaxSecond
               /\ now.part \in 0 .. Parts - 1
               /\ issued \in Nat /\ issued <= MaxRows
BY LifeAssumption, ClockAssumption, RowAssumption DEF TypeOK, Tokens

-----------------------------------------------------------------------------
(* Types, and that every token was signed before now.                      *)

Older(m, second) == m.pc \in {"verify", "measure", "set"} => m.token <= second

Typed == TypeOK /\ SignedBefore

LEMMA Signs ==
  ASSUME Typed
  PROVE  /\ \A i \in Rows : rows[i].token <= now.second
         /\ \A r \in Requests : Older(requests[r], now.second)
BY DEF Typed, SignedBefore, Older

\* One request changed, and nothing the tokens depend on.
LEMMA OlderKept ==
  ASSUME Typed, TypeOK', NEW r \in Requests, NEW m \in RequestStates, Become(r, m),
         UNCHANGED now, Older(m, now.second),
         \A i \in Rows : rows'[i].token <= now.second
  PROVE  Typed'
<1>1. \A s \in Requests : Older(requests'[s], now.second)
  BY Signs, Updated DEF Typed
<1>2. \A s \in Requests : requests'[s].pc \in {"verify", "measure", "set"} =>
                            requests'[s].token <= now'.second
  BY <1>1 DEF Older
<1>3. \A i \in Rows : rows'[i].token <= now'.second
  OBVIOUS
<1> QED
  BY <1>2, <1>3 DEF Typed, SignedBefore

LEMMA TypedInit == Init => Typed
<1> SUFFICES ASSUME Init PROVE Typed
  OBVIOUS
<1>1. /\ 0 \in 0 .. MaxSecond /\ 0 \in 0 .. Parts - 1 /\ 0 \in 0 .. MaxRows
      /\ 0 \in Tokens
  BY Numbers DEF Tokens
<1>2. rows \in [Rows -> Row]
  BY <1>1 DEF Init, Row
<1>3. requests \in [Requests -> RequestStates] /\ \A r \in Requests : requests[r] = Idle
  BY Constructed DEF Init
<1>4. now \in [second : 0 .. MaxSecond, part : 0 .. Parts - 1] /\ now.second = 0
  BY <1>1 DEF Init
<1>5. TypeOK
  BY <1>1, <1>2, <1>3, <1>4 DEF Init, TypeOK
<1>6. SignedBefore
  BY <1>3, <1>4, Labels DEF Init, SignedBefore
<1> QED
  BY <1>5, <1>6 DEF Typed

LEMMA TypedTick ==
  ASSUME Typed, Tick
  PROVE  Typed'
<1>1. /\ now' \in [second : 0 .. MaxSecond, part : 0 .. Parts - 1]
      /\ now'.second \in Nat /\ now.second <= now'.second
  <2>1. now \in [second : 0 .. MaxSecond, part : 0 .. Parts - 1]
    BY DEF Typed, TypeOK
  <2>2. CASE now.part + 1 < Parts /\ now' = [now EXCEPT !.part = now.part + 1]
    BY <2>1, <2>2, Numbers
  <2>3. CASE now.second < MaxSecond /\ now' = [second |-> now.second + 1, part |-> 0]
    BY <2>1, <2>3, Numbers
  <2> QED
    BY <2>2, <2>3 DEF Tick
<1>2. TypeOK'
  BY <1>1 DEF Typed, TypeOK, Tick, sessions, access
<1>3. \A i \in Rows : rows[i].token \in Nat
  BY Numbers DEF Typed, TypeOK, Row, Tokens
<1>4. \A i \in Rows : rows'[i].token <= now'.second
  BY <1>1, <1>3, Signs, Numbers DEF Typed, Tick, sessions
<1>5. ASSUME NEW r \in Requests, requests[r].pc \in {"verify", "measure", "set"}
      PROVE  requests[r].token <= now'.second
  <2>1. requests[r].token \in Tokens
    BY <1>5, Shapes DEF Typed, TypeOK, CheckStates, MeasureStates, SetStates
  <2>2. requests[r].token \in Nat /\ requests[r].token <= now.second
    BY <1>5, <2>1, Signs, Numbers DEF Older, Tokens
  <2> QED
    BY <1>1, <2>2, Numbers DEF Typed
<1> QED
  BY <1>2, <1>4, <1>5 DEF Typed, SignedBefore, Tick

LEMMA TypedGenerate ==
  ASSUME Typed, NEW login \in Rows, GenerateTokens(login)
  PROVE  /\ issued + 1 \in Rows /\ issued' \in 0 .. MaxRows
         /\ rows' \in [Rows -> Row]
         /\ \A i \in Rows : rows'[i].token <= now.second
<1>1. issued + 1 \in Rows /\ issued' \in 0 .. MaxRows
  BY Numbers DEF Typed, GenerateTokens, Rows
<1>2. [state |-> "pending", token |-> now.second, login |-> login, revoked |-> FALSE] \in Row
  BY Numbers DEF Typed, Row
<1>3. /\ rows' \in [Rows -> Row]
      /\ \A i \in Rows : rows'[i].token = IF i = issued + 1 THEN now.second ELSE rows[i].token
  BY <1>1, <1>2 DEF Typed, TypeOK, GenerateTokens
<1>4. now.second <= now.second
  BY Numbers DEF Typed
<1> QED
  BY <1>1, <1>3, <1>4, Signs

LEMMA TypedRows ==
  ASSUME Typed, \/ LogIn
                \/ \E i \in Rows : PersistRefreshToken(i) \/ LoseRefreshToken(i)
  PROVE  Typed'
<1>1. CASE LogIn
  <2>1. issued + 1 \in Rows
    BY <1>1, Numbers DEF Typed, LogIn, GenerateTokens, Rows
  <2>2. /\ issued' \in 0 .. MaxRows /\ rows' \in [Rows -> Row]
        /\ \A i \in Rows : rows'[i].token <= now.second
    BY <1>1, <2>1, TypedGenerate DEF LogIn
  <2>3. TypeOK'
    BY <1>1, <2>2 DEF Typed, TypeOK, LogIn, access
  <2> QED
    BY <1>1, <2>2, <2>3, Signs DEF Typed, SignedBefore, LogIn, Older
<1>2. ASSUME NEW i \in Rows, PersistRefreshToken(i) \/ LoseRefreshToken(i)
      PROVE  Typed'
  <2>1. /\ rows' \in [Rows -> Row]
        /\ \A j \in Rows : rows'[j].token = rows[j].token
    BY <1>2 DEF Typed, TypeOK, PersistRefreshToken, LoseRefreshToken, Row
  <2>2. rows[i].login \in Rows
    BY DEF Typed, TypeOK, Row
  <2>3. TypeOK'
    BY <1>2, <2>1, <2>2 DEF Typed, TypeOK, PersistRefreshToken, LoseRefreshToken, access
  <2>4. now' = now /\ requests' = requests
    BY <1>2 DEF PersistRefreshToken, LoseRefreshToken
  <2> QED
    BY <2>1, <2>3, <2>4, Signs DEF Typed, SignedBefore, Older
<1> QED
  BY <1>1, <1>2

LEMMA RowOf ==
  ASSUME TypeOK, NEW r \in Requests, requests[r].pc \in {"revoke", "rotate"}
  PROVE  requests[r].row \in Rows /\ rows[requests[r].row].login \in Rows
<1>1. requests[r].row \in Rows
  BY Shapes DEF TypeOK, RefreshStates
<1> QED
  BY <1>1 DEF TypeOK, Row

LEMMA TypedRefresh ==
  ASSUME Typed, NEW r \in Requests, Refresh(r)
  PROVE  Typed'
<1>0. TypeOK /\ \A i \in Rows : rows[i].token <= now.second
  BY Signs DEF Typed
<1>1. ASSUME NEW i \in Rows, FindRefreshToken(r, i) PROVE Typed'
  <2>1. Refreshing("revoke", i) \in RequestStates /\ Older(Refreshing("revoke", i), now.second)
    BY Constructed, Labels DEF Older
  <2>2. rows[i].login \in Rows
    BY <1>0 DEF TypeOK, Row
  <2>3. requests' \in [Requests -> RequestStates] /\ contested' \subseteq Rows
    BY <1>0, <1>1, <2>1, <2>2, Updated DEF FindRefreshToken, TypeOK
  <2>4. TypeOK'
    BY <1>0, <1>1, <2>3 DEF FindRefreshToken, TypeOK, access
  <2> QED
    BY <1>0, <1>1, <2>1, <2>4, OlderKept DEF FindRefreshToken
<1>2. CASE RevokeToken(r)
  <2> DEFINE i == requests[r].row
  <2>1. i \in Rows
    BY <1>0, <1>2, RowOf DEF RevokeToken
  <2>2. Refreshing("rotate", i) \in RequestStates /\ Older(Refreshing("rotate", i), now.second)
    BY <2>1, Constructed, Labels DEF Older
  <2>3. requests' \in [Requests -> RequestStates]
    BY <1>0, <1>2, <2>2, Updated DEF RevokeToken
  <2>4. /\ rows' \in [Rows -> Row]
        /\ \A j \in Rows : rows'[j].token = rows[j].token
    <3>1. \A row \in Row : /\ [row EXCEPT !.revoked = TRUE] \in Row
                            /\ [row EXCEPT !.revoked = TRUE].token = row.token
      BY DEF Row
    <3>2. /\ \A j \in Rows : rows[j] \in Row
          /\ rows' = [j \in Rows |-> IF j \in SavedRows(i)
                                     THEN [rows[j] EXCEPT !.revoked = TRUE] ELSE rows[j]]
      BY <1>0, <1>2 DEF RevokeToken, TypeOK
    <3> QED
      BY <3>1, <3>2
  <2>5. TypeOK'
    BY <1>0, <1>2, <2>3, <2>4 DEF RevokeToken, TypeOK, access
  <2> QED
    BY <1>0, <1>2, <2>2, <2>4, <2>5, OlderKept DEF RevokeToken
<1>3. CASE RotateToken(r)
  <2>1. rows[requests[r].row].login \in Rows
    BY <1>0, <1>3, RowOf DEF RotateToken
  <2>2. /\ issued' \in 0 .. MaxRows /\ rows' \in [Rows -> Row]
        /\ \A i \in Rows : rows'[i].token <= now.second
    BY <1>3, <2>1, TypedGenerate DEF RotateToken
  <2>3. requests' \in [Requests -> RequestStates]
    BY <1>0, <1>3, Constructed, Updated DEF RotateToken
  <2>4. TypeOK'
    BY <1>0, <1>3, <2>2, <2>3 DEF RotateToken, TypeOK, access
  <2> QED
    BY <1>3, <2>2, <2>4, Constructed, Labels, OlderKept DEF RotateToken, Older
<1>4. CASE FailRefresh(r)
  <2>1. rows[requests[r].row].login \in Rows
    BY <1>0, <1>4, RowOf DEF FailRefresh
  <2>2. requests' \in [Requests -> RequestStates]
    BY <1>0, <1>4, Constructed, Updated DEF FailRefresh
  <2>3. TypeOK'
    BY <1>0, <1>4, <2>1, <2>2 DEF FailRefresh, TypeOK, access
  <2> QED
    BY <1>0, <1>4, <2>3, Constructed, Labels, OlderKept DEF FailRefresh, Older
<1>5. CASE Asks(r)
  <2>1. PICK m \in RequestStates : Become(r, m) /\ m.pc \in {"idle", "find"}
    BY <1>0, <1>5, Asked
  <2>2. UNCHANGED <<now, rows, issued, contested, broken, access>>
        /\ requests' \in [Requests -> RequestStates]
    BY <1>0, <1>5, Asked DEF sessions
  <2>3. TypeOK'
    BY <1>0, <2>2 DEF TypeOK, access
  <2> QED
    BY <1>0, <2>1, <2>2, <2>3, OlderKept DEF Older
<1> QED
  BY <1>1, <1>2, <1>3, <1>4, <1>5 DEF Refresh, Asks

LEMMA TypedAccess ==
  ASSUME Typed, NEW r \in Requests, Access(r)
  PROVE  Typed'
<1> DEFINE m == requests[r]
<1>0. TypeOK /\ \A i \in Rows : rows[i].token <= now.second
  BY Signs DEF Typed
<1>1. ASSUME NEW t \in Presented, NEW leave \in BOOLEAN, CheckBlacklist(r, t, leave)
      PROVE  Typed'
  <2>1. t \in Tokens /\ (t \in loggedOut) \in BOOLEAN
    BY PresentedAssumption
  <2>2. Checking(t, leave, t \in loggedOut) \in RequestStates
    BY <2>1, Constructed
  <2>3. t <= now.second
    BY <1>0, <1>1 DEF CheckBlacklist, Signed
  <2>4. Older(Checking(t, leave, t \in loggedOut), now.second)
    BY <2>3, Labels DEF Older
  <2>5. requests' \in [Requests -> RequestStates]
    BY <1>0, <1>1, <2>2, Updated DEF CheckBlacklist
  <2>6. TypeOK'
    BY <1>0, <1>1, <2>5 DEF CheckBlacklist, TypeOK, sessions, access
  <2> QED
    BY <1>0, <1>1, <2>2, <2>4, <2>6, OlderKept DEF CheckBlacklist, sessions
<1>2. CASE VerifyToken(r)
  <2>1. m.token \in Tokens /\ m.token <= now.second
    BY <1>0, <1>2, Shapes, Signs DEF VerifyToken, TypeOK, CheckStates, Older
  <2>2. PICK next \in {Idle, Measuring(m.token)} : Become(r, next)
    BY <1>2 DEF VerifyToken
  <2>3. next \in RequestStates /\ Older(next, now.second)
    BY <2>1, <2>2, Constructed, Labels DEF Older
  <2>4. requests' \in [Requests -> RequestStates]
    BY <1>0, <2>2, <2>3, Updated
  <2>5. TypeOK'
    BY <1>0, <1>2, <2>1, <2>4 DEF VerifyToken, TypeOK, sessions
  <2> QED
    BY <1>0, <1>2, <2>2, <2>3, <2>5, OlderKept DEF VerifyToken, sessions
<1>3. CASE MeasureToken(r)
  <2>1. m.token \in Tokens /\ m.token <= now.second
    BY <1>0, <1>3, Shapes, Signs DEF MeasureToken, TypeOK, MeasureStates, Older
  <2> DEFINE ttl == RemainingTime(m.token)
  <2>2. ttl > 0 => ttl \in 1 .. AccessLife
    BY <1>0, <2>1, Numbers DEF RemainingTime, Tokens
  <2>3. PICK next : /\ next = Idle \/ (ttl > 0 /\ next = Blacklisting(m.token, ttl))
                    /\ Become(r, next)
    BY <1>3 DEF MeasureToken
  <2>4. next \in RequestStates /\ Older(next, now.second)
    BY <2>1, <2>2, <2>3, Constructed, Labels DEF Older
  <2>5. requests' \in [Requests -> RequestStates]
    BY <1>0, <2>3, <2>4, Updated
  <2>6. TypeOK'
    BY <1>0, <1>3, <2>5 DEF MeasureToken, TypeOK, sessions, access
  <2> QED
    BY <1>0, <1>3, <2>3, <2>4, <2>6, OlderKept DEF MeasureToken, sessions
<1>4. CASE BlacklistToken(r)
  <2>1. m.token \in Tokens /\ m.ttl \in 1 .. AccessLife
    BY <1>0, <1>4, Shapes DEF BlacklistToken, TypeOK, SetStates
  <2>2. [second |-> now.second + m.ttl, part |-> now.part] \in Instants
    BY <1>0, <2>1, Numbers DEF Instants
  <2>3. requests' \in [Requests -> RequestStates]
    BY <1>0, <1>4, Constructed, Updated DEF BlacklistToken
  <2>4. TypeOK'
    BY <1>0, <1>4, <2>1, <2>2, <2>3 DEF BlacklistToken, TypeOK, sessions
  <2> QED
    BY <1>0, <1>4, <2>4, Constructed, Labels, OlderKept DEF BlacklistToken, sessions, Older
<1>5. CASE FailAccess(r)
  <2>1. requests' \in [Requests -> RequestStates]
    BY <1>0, <1>5, Constructed, Updated DEF FailAccess
  <2>2. TypeOK'
    BY <1>0, <1>5, <2>1 DEF FailAccess, TypeOK, sessions, access
  <2> QED
    BY <1>0, <1>5, <2>2, Constructed, Labels, OlderKept DEF FailAccess, sessions, Older
<1> QED
  BY <1>1, <1>2, <1>3, <1>4, <1>5 DEF Access

LEMMA TypedKeys ==
  ASSUME Typed, NEW t \in Tokens, ExpireBlacklist(t) \/ LoseBlacklist(t)
  PROVE  Typed'
<1>1. TypeOK'
  BY DEF Typed, TypeOK, ExpireBlacklist, LoseBlacklist, sessions
<1> QED
  BY <1>1 DEF Typed, SignedBefore, ExpireBlacklist, LoseBlacklist, sessions

LEMMA TypedNext == Typed /\ [Next]_vars => Typed'
<1> SUFFICES ASSUME Typed, [Next]_vars PROVE Typed'
  OBVIOUS
<1>1. CASE UNCHANGED vars
  BY <1>1 DEF vars, Typed, TypeOK, SignedBefore
<1>2. CASE Next
  BY <1>2, TypedTick, TypedRows, TypedRefresh, TypedAccess, TypedKeys DEF Next
<1> QED
  BY <1>1, <1>2

-----------------------------------------------------------------------------
(* The blacklist.                                                          *)

\* A key outlives the token, and so does the memory of the logout.
TokenRight(t, key, second, out, lost) ==
  /\ key # None => key.second >= t + AccessLife
  /\ t \in out \ lost => key # None \/ second >= t + AccessLife

AskRight(m, second, lost) ==
  /\ m.pc = "set" => second + m.ttl >= m.token + AccessLife
  /\ m.pc = "verify" /\ m.late => m.token \in lost \/ second >= m.token + AccessLife

Gate ==
  /\ \A t \in Tokens : TokenRight(t, blacklist[t], now.second, loggedOut, evicted)
  /\ \A r \in Requests : AskRight(requests[r], now.second, evicted)
  /\ trespassed \subseteq evicted

LEMMA GateInit == Init => Gate
<1> SUFFICES ASSUME Init PROVE Gate
  OBVIOUS
<1>1. \A r \in Requests : AskRight(requests[r], now.second, evicted)
  BY Labels DEF Init, AskRight
<1> QED
  BY <1>1 DEF Init, Gate, TokenRight

\* One request changed, and neither the clock nor the blacklist.
LEMMA GateRequest ==
  ASSUME TypeOK, Gate, NEW r \in Requests, NEW m \in RequestStates, Become(r, m),
         AskRight(m, now.second, evicted),
         UNCHANGED <<now, blacklist, loggedOut, evicted>>, trespassed' \subseteq evicted
  PROVE  Gate'
<1>1. \A s \in Requests : AskRight(requests'[s], now.second, evicted)
  BY Updated DEF Gate
<1> QED
  BY <1>1 DEF Gate

LEMMA GateTick ==
  ASSUME Typed, Gate, Tick
  PROVE  Gate'
<1>1. now'.second \in Nat /\ now.second \in Nat /\ now.second <= now'.second
  <2>1. now \in [second : 0 .. MaxSecond, part : 0 .. Parts - 1]
    BY DEF Typed, TypeOK
  <2>2. CASE now.part + 1 < Parts /\ now' = [now EXCEPT !.part = now.part + 1]
    BY <2>1, <2>2, Numbers
  <2>3. CASE now.second < MaxSecond /\ now' = [second |-> now.second + 1, part |-> 0]
    BY <2>1, <2>3, Numbers
  <2> QED
    BY <2>2, <2>3 DEF Tick
<1>2. ASSUME NEW t \in Tokens
      PROVE  TokenRight(t, blacklist[t], now'.second, loggedOut, evicted)
  <2>1. t + AccessLife \in Nat
    BY Numbers DEF Tokens
  <2>2. now.second >= t + AccessLife => now'.second >= t + AccessLife
    BY <1>1, <2>1
  <2> QED
    BY <2>2 DEF Gate, TokenRight
<1>3. ASSUME NEW r \in Requests
      PROVE  AskRight(requests[r], now'.second, evicted)
  <2>1. CASE requests[r].pc = "set"
    <3>1. requests[r].token + AccessLife \in Nat /\ requests[r].ttl \in Nat
      BY <2>1, Shapes, Numbers DEF Typed, TypeOK, SetStates, Tokens
    <3>2. now.second + requests[r].ttl >= requests[r].token + AccessLife
      BY <2>1 DEF Gate, AskRight
    <3>3. now'.second + requests[r].ttl >= requests[r].token + AccessLife
      BY <1>1, <3>1, <3>2
    <3> QED
      BY <2>1, <3>3 DEF AskRight
  <2>2. CASE requests[r].pc = "verify"
    <3>1. requests[r].token + AccessLife \in Nat
      BY <2>2, Shapes, Numbers DEF Typed, TypeOK, CheckStates, Tokens
    <3>2. now.second >= requests[r].token + AccessLife =>
            now'.second >= requests[r].token + AccessLife
      BY <1>1, <3>1
    <3> QED
      BY <2>2, <3>2 DEF Gate, AskRight
  <2> QED
    BY <2>1, <2>2 DEF AskRight
<1> QED
  BY <1>2, <1>3 DEF Gate, Tick, access

LEMMA GateAccess ==
  ASSUME Typed, Gate, NEW r \in Requests, Access(r)
  PROVE  Gate'
<1> DEFINE m == requests[r]
<1>0. TypeOK /\ trespassed \subseteq evicted /\ AskRight(m, now.second, evicted)
  BY DEF Typed, Gate
<1>1. ASSUME NEW t \in Presented, NEW leave \in BOOLEAN, CheckBlacklist(r, t, leave)
      PROVE  Gate'
  <2>1. t \in Tokens /\ (t \in loggedOut) \in BOOLEAN
    BY PresentedAssumption
  <2>2. Checking(t, leave, t \in loggedOut) \in RequestStates
    BY <2>1, Constructed
  <2>3. t \in loggedOut => t \in evicted \/ now.second >= t + AccessLife
    BY <1>1, <2>1 DEF Gate, TokenRight, CheckBlacklist
  <2>4. AskRight(Checking(t, leave, t \in loggedOut), now.second, evicted)
    <3> DEFINE late == t \in loggedOut
    <3>1. late => t \in evicted \/ now.second >= t + AccessLife
      BY <2>3
    <3> HIDE DEF late
    <3>2. AskRight(Checking(t, leave, late), now.second, evicted)
      BY <3>1, Labels DEF AskRight
    <3> QED
      BY <3>2 DEF late
  <2> QED
    BY <1>0, <1>1, <2>2, <2>4, GateRequest DEF CheckBlacklist, access
<1>2. CASE VerifyToken(r)
  <2>1. m.token \in Tokens
    BY <1>0, <1>2, Shapes DEF VerifyToken, TypeOK, CheckStates
  <2>2. PICK next \in {Idle, Measuring(m.token)} : Become(r, next)
    BY <1>2 DEF VerifyToken
  <2>3. next \in RequestStates /\ AskRight(next, now.second, evicted)
    BY <2>1, <2>2, Constructed, Labels DEF AskRight
  <2>4. trespassed' \subseteq evicted
    <3>1. m.pc = "verify" /\ m.late /\ now.second < m.token + AccessLife => m.token \in evicted
      <4>1. m.token + AccessLife \in Nat /\ now.second \in Nat
        BY <1>0, <2>1, Numbers DEF Tokens
      <4> QED
        BY <1>0, <4>1 DEF AskRight
    <3> QED
      BY <1>0, <1>2, <3>1 DEF VerifyToken
  <2> QED
    BY <1>0, <1>2, <2>2, <2>3, <2>4, GateRequest DEF VerifyToken
<1>3. CASE MeasureToken(r)
  <2>1. m.token \in Tokens /\ m.token <= now.second
    BY <1>0, <1>3, Shapes, Signs DEF MeasureToken, TypeOK, MeasureStates, Older
  <2> DEFINE ttl == RemainingTime(m.token)
  <2>2. ttl > 0 => ttl \in 1 .. AccessLife /\ now.second + ttl >= m.token + AccessLife
    BY <1>0, <2>1, Numbers DEF RemainingTime, Tokens
  <2>3. PICK next : /\ next = Idle \/ (ttl > 0 /\ next = Blacklisting(m.token, ttl))
                    /\ Become(r, next)
    BY <1>3 DEF MeasureToken
  <2>4. next \in RequestStates /\ AskRight(next, now.second, evicted)
    BY <2>1, <2>2, <2>3, Constructed, Labels DEF AskRight
  <2> QED
    BY <1>0, <1>3, <2>3, <2>4, GateRequest DEF MeasureToken, access
<1>4. CASE BlacklistToken(r)
  <2> DEFINE key == [second |-> now.second + m.ttl, part |-> now.part]
  <2>1. m.token \in Tokens /\ key \in Instants
    <3>1. m.token \in Tokens /\ m.ttl \in 1 .. AccessLife
      BY <1>0, <1>4, Shapes DEF BlacklistToken, TypeOK, SetStates
    <3> QED
      BY <1>0, <3>1, Numbers DEF Instants
  <2>2. key.second >= m.token + AccessLife /\ key # None
    BY <1>0, <1>4, <2>1, NoneIsNoInstant DEF AskRight, BlacklistToken
  <2>3. ASSUME NEW t \in Tokens
        PROVE  TokenRight(t, blacklist'[t], now.second, loggedOut', evicted)
    <3>1. blacklist'[t] = IF t = m.token THEN key ELSE blacklist[t]
      BY <1>0, <1>4 DEF TypeOK, BlacklistToken
    <3> HIDE DEF key, m
    <3>2. CASE t = m.token
      BY <2>2, <3>1, <3>2 DEF TokenRight
    <3>3. CASE t # m.token
      <4>1. t \in loggedOut' => t \in loggedOut
        BY <1>4, <3>3 DEF BlacklistToken, m
      <4> QED
        BY <3>1, <3>3, <4>1 DEF Gate, TokenRight
    <3> QED
      BY <3>2, <3>3
  <2>4. \A s \in Requests : AskRight(requests'[s], now.second, evicted)
    <3>1. AskRight(Idle, now.second, evicted)
      BY Labels DEF AskRight
    <3> QED
      BY <1>0, <1>4, <3>1, Constructed, Updated DEF Gate, BlacklistToken
  <2> QED
    BY <1>4, <2>3, <2>4 DEF Gate, BlacklistToken
<1>5. CASE FailAccess(r)
  BY <1>0, <1>5, Constructed, Labels, GateRequest DEF FailAccess, access, AskRight
<1> QED
  BY <1>1, <1>2, <1>3, <1>4, <1>5 DEF Access

LEMMA GateKeys ==
  ASSUME Typed, Gate, NEW k \in Tokens, ExpireBlacklist(k) \/ LoseBlacklist(k)
  PROVE  Gate'
<1>0. TypeOK
  BY DEF Typed
<1>1. /\ now' = now /\ requests' = requests /\ loggedOut' = loggedOut
      /\ trespassed' = trespassed
      /\ evicted \subseteq evicted'
      /\ \A t \in Tokens : blacklist'[t] = IF t = k THEN None ELSE blacklist[t]
  BY <1>0 DEF TypeOK, ExpireBlacklist, LoseBlacklist
<1>2. ASSUME NEW t \in Tokens
      PROVE  TokenRight(t, blacklist'[t], now.second, loggedOut, evicted')
  <2>1. CASE t # k
    BY <1>1, <2>1 DEF Gate, TokenRight
  <2>2. CASE t = k /\ ExpireBlacklist(k)
    <3>1. blacklist[t] # None /\ blacklist[t].second <= now.second
      <4>1. blacklist[t] \in Instants
        BY <1>0, <2>2 DEF TypeOK, ExpireBlacklist
      <4> QED
        BY <1>0, <2>2, <4>1, Numbers DEF ExpireBlacklist, Reached, Instants
    <3>2. blacklist[t].second >= t + AccessLife
      BY <3>1 DEF Gate, TokenRight
    <3>3. blacklist[t].second \in Nat /\ t + AccessLife \in Nat /\ now.second \in Nat
      BY <1>0, <3>1, Numbers DEF TypeOK, Instants, Tokens
    <3>4. now.second >= t + AccessLife
      BY <3>1, <3>2, <3>3
    <3> QED
      BY <1>1, <2>2, <3>4 DEF TokenRight
  <2>3. CASE t = k /\ LoseBlacklist(k)
    BY <1>1, <2>3 DEF TokenRight, LoseBlacklist
  <2> QED
    BY <2>1, <2>2, <2>3
<1>3. \A r \in Requests : AskRight(requests[r], now.second, evicted')
  BY <1>1 DEF Gate, AskRight
<1> QED
  BY <1>1, <1>2, <1>3 DEF Gate

\* Issuing and rotating does not touch the blacklist.
LEMMA GateSessions ==
  ASSUME Typed, Gate,
         \/ LogIn
         \/ \E i \in Rows : PersistRefreshToken(i) \/ LoseRefreshToken(i)
         \/ \E r \in Requests : Refresh(r)
  PROVE  Gate'
<1>0. TypeOK
  BY DEF Typed
<1>1. CASE \/ LogIn
           \/ \E i \in Rows : PersistRefreshToken(i) \/ LoseRefreshToken(i)
  BY <1>1 DEF LogIn, PersistRefreshToken, LoseRefreshToken, access, Gate
<1>2. ASSUME NEW r \in Requests, Refresh(r), ~Asks(r) PROVE Gate'
  <2>1. /\ UNCHANGED <<now, blacklist, loggedOut, evicted>> /\ trespassed' \subseteq evicted
    BY <1>2 DEF Refresh, Asks, FindRefreshToken, RevokeToken, RotateToken, FailRefresh, access,
       Gate
  <2>2. PICK next : /\ next = Idle \/ \E pc \in {"revoke", "rotate"}, i \in Rows :
                                        next = Refreshing(pc, i)
                    /\ Become(r, next)
    <3>1. CASE RevokeToken(r)
      BY <1>0, <3>1, RowOf DEF RevokeToken
    <3>2. CASE ~RevokeToken(r)
      BY <1>2, <3>2 DEF Refresh, Asks, FindRefreshToken, RotateToken, FailRefresh
    <3> QED
      BY <3>1, <3>2
  <2>3. next \in RequestStates /\ AskRight(next, now.second, evicted)
    BY <2>2, Constructed, Labels DEF AskRight
  <2> QED
    BY <1>0, <2>1, <2>2, <2>3, GateRequest
<1>3. ASSUME NEW r \in Requests, Asks(r) PROVE Gate'
  <2>1. /\ UNCHANGED <<now, blacklist, loggedOut, evicted>> /\ trespassed' \subseteq evicted
    BY <1>0, <1>3, Asked DEF access, Gate
  <2>2. PICK m \in RequestStates : Become(r, m) /\ m.pc \in {"idle", "find"}
    BY <1>0, <1>3, Asked
  <2> QED
    BY <1>0, <2>1, <2>2, GateRequest DEF AskRight
<1> QED
  BY <1>1, <1>2, <1>3

LEMMA GateNext == Typed /\ Gate /\ [Next]_vars => Gate'
<1> SUFFICES ASSUME Typed, Gate, [Next]_vars PROVE Gate'
  OBVIOUS
<1>1. CASE UNCHANGED vars
  BY <1>1 DEF vars, Gate
<1>2. CASE Next
  BY <1>2, GateTick, GateSessions, GateAccess, GateKeys DEF Next
<1> QED
  BY <1>1, <1>2

-----------------------------------------------------------------------------
(* The refresh tokens of a login.                                          *)

Works(m) == m.pc \in {"revoke", "rotate"}

\* Row i can be rotated for login f; request r is rotating one of f's rows.
AliveFor(table, i, f) ==
  table[i].login = f /\ table[i].state \in {"pending", "stored"} /\ ~table[i].revoked
RotatesFor(table, asked, r, f) ==
  asked[r].pc = "rotate" /\ table[asked[r].row].login = f

RowRight(row, i, n, shared) ==
  /\ i > n => row.state = "unused" /\ row.login = i /\ i \notin shared
  /\ i <= n => row.login <= i /\ row.state # "unused"
  /\ row.revoked => row.state = "stored"

HeldRight(m, table, n) ==
  Works(m) => /\ m.row <= n /\ table[m.row].state = "stored"
              /\ m.pc = "rotate" => table[m.row].revoked

Alone(asked, table, shared, r) ==
  Works(asked[r]) /\ table[asked[r].row].login \notin shared =>
    /\ asked[r].pc = "revoke" => ~table[asked[r].row].revoked
    /\ \A s \in Requests \ {r} : Works(asked[s]) => asked[s].row # asked[r].row

Single(table, asked, f) ==
  /\ \A i, j \in Rows : AliveFor(table, i, f) /\ AliveFor(table, j, f) => i = j
  /\ \A r, s \in Requests : RotatesFor(table, asked, r, f) /\ RotatesFor(table, asked, s, f) => r = s
  /\ \A r \in Requests, i \in Rows :
       ~(RotatesFor(table, asked, r, f) /\ AliveFor(table, i, f))

Kept(table, asked, f) ==
  \/ \E i \in Rows : AliveFor(table, i, f)
  \/ \E r \in Requests : RotatesFor(table, asked, r, f)

Chains ==
  /\ \A i \in Rows : RowRight(rows[i], i, issued, contested)
  /\ \A r \in Requests : HeldRight(requests[r], rows, issued)
  /\ \A r \in Requests : Alone(requests, rows, contested, r)
  /\ \A f \in Rows \ contested : Single(rows, requests, f)
  /\ \A f \in Rows \ (contested \union broken) :
       f <= issued /\ rows[f].login = f => Kept(rows, requests, f)

LEMMA ChainsInit == Init => Chains
<1> SUFFICES ASSUME Init PROVE Chains
  OBVIOUS
<1>1. \A i \in Rows : RowRight(rows[i], i, issued, contested)
  BY Numbers DEF Init, RowRight, Rows
<1>2. \A r \in Requests : ~Works(requests[r]) /\ requests[r].pc # "rotate"
  BY Labels DEF Init, Works
<1>3. \A i \in Rows, f \in Rows : ~AliveFor(rows, i, f)
  BY DEF Init, AliveFor
<1>4. \A f \in Rows : Single(rows, requests, f)
  BY <1>2, <1>3 DEF Single, RotatesFor
<1>5. \A f \in Rows : ~(f <= issued)
  BY Numbers DEF Init, Rows
<1> QED
  BY <1>1, <1>2, <1>4, <1>5 DEF Chains, HeldRight, Alone

\* A request that does not refresh changed, and no row.
LEMMA ChainsQuiet ==
  ASSUME TypeOK, Chains, NEW r \in Requests, NEW m \in RequestStates, Become(r, m),
         ~Works(requests[r]), ~Works(m), UNCHANGED sessions
  PROVE  Chains'
<1>1. \A s \in Requests :
        /\ Works(requests'[s]) <=> Works(requests[s])
        /\ Works(requests'[s]) => requests'[s] = requests[s]
        /\ requests'[s].pc = "rotate" <=> requests[s].pc = "rotate"
  BY Updated DEF Works
<1>2. rows' = rows /\ issued' = issued /\ contested' = contested /\ broken' = broken
  BY DEF sessions
<1>3. \A s \in Requests, f \in Rows :
        RotatesFor(rows, requests', s, f) <=> RotatesFor(rows, requests, s, f)
  BY <1>1 DEF RotatesFor, Works
<1>4. \A s \in Requests : HeldRight(requests'[s], rows, issued)
  BY <1>1 DEF Chains, HeldRight
<1>5. \A s \in Requests : Alone(requests', rows, contested, s)
  BY <1>1 DEF Chains, Alone
<1>6. \A f \in Rows \ contested : Single(rows, requests', f)
  BY <1>3 DEF Chains, Single
<1>7. \A f \in Rows : Kept(rows, requests, f) => Kept(rows, requests', f)
  BY <1>3 DEF Kept
<1> QED
  BY <1>2, <1>4, <1>5, <1>6, <1>7 DEF Chains

LEMMA ChainsAsk ==
  ASSUME TypeOK, Chains, NEW r \in Requests, Asks(r)
  PROVE  Chains'
<1>1. PICK m \in RequestStates : Become(r, m) /\ m.pc \in {"idle", "find"}
  BY Asked
<1>2. requests[r].pc \in {"idle", "find"} /\ UNCHANGED sessions
  BY Asked
<1> QED
  BY <1>1, <1>2, ChainsQuiet DEF Works

LEMMA ChainsAccess ==
  ASSUME TypeOK, Chains, NEW r \in Requests, Access(r), TypeOK'
  PROVE  Chains'
<1>1. requests'[r] \in RequestStates /\ Become(r, requests'[r])
  BY DEF TypeOK, Access, CheckBlacklist, VerifyToken, MeasureToken, BlacklistToken,
         FailAccess, Become
<1>2. requests[r].pc \in {"idle", "verify", "measure", "set"} /\ UNCHANGED sessions
  BY DEF Access, CheckBlacklist, VerifyToken, MeasureToken, BlacklistToken, FailAccess
<1>3. requests'[r].pc \notin {"revoke", "rotate"}
  <2>1. ASSUME NEW m, Become(r, m) PROVE requests'[r] = m
    BY <2>1 DEF TypeOK, Become
  <2>2. CASE \E t \in Presented, leave \in BOOLEAN : CheckBlacklist(r, t, leave)
    BY <2>1, <2>2, Labels DEF CheckBlacklist
  <2>3. CASE VerifyToken(r)
    BY <2>1, <2>3, Labels DEF VerifyToken
  <2>4. CASE MeasureToken(r)
    BY <2>1, <2>4, Labels DEF MeasureToken
  <2>5. CASE BlacklistToken(r) \/ FailAccess(r)
    BY <2>1, <2>5, Labels DEF BlacklistToken, FailAccess
  <2> QED
    BY <2>2, <2>3, <2>4, <2>5 DEF Access
<1> QED
  BY <1>1, <1>2, <1>3, ChainsQuiet DEF Works

\* What a request works on was issued before.
LEMMA Held ==
  ASSUME TypeOK, Chains, NEW r \in Requests, Works(requests[r])
  PROVE  /\ requests[r].row \in Rows /\ requests[r].row <= issued
         /\ rows[requests[r].row].state = "stored"
         /\ rows[requests[r].row].login \in Rows
         /\ requests[r].pc = "rotate" => rows[requests[r].row].revoked
BY RowOf DEF Works, Chains, HeldRight

\* The next row belongs to no login yet.
LEMMA Fresh ==
  ASSUME TypeOK, Chains, NEW n \in Rows, n = issued + 1
  PROVE  /\ n \notin contested /\ rows[n].login = n /\ rows[n].state = "unused"
         /\ \A i \in Rows : ~AliveFor(rows, i, n)
         /\ \A r \in Requests : ~RotatesFor(rows, requests, r, n)
         /\ \A r \in Requests : Works(requests[r]) => requests[r].row # n
<1>1. issued \in Nat /\ n \in Nat /\ n > issued /\ Rows \subseteq Nat
  BY Numbers DEF Rows
<1>2. n \notin contested /\ rows[n].login = n /\ rows[n].state = "unused"
  BY <1>1 DEF Chains, RowRight
<1>3. ASSUME NEW i \in Rows PROVE ~AliveFor(rows, i, n)
  <2>1. rows[i].login \in Nat /\ i \in Nat
    BY <1>1 DEF TypeOK, Row
  <2>2. RowRight(rows[i], i, issued, contested)
    BY DEF Chains
  <2>3. CASE i <= issued
    BY <1>1, <2>1, <2>2, <2>3 DEF RowRight, AliveFor
  <2>4. CASE i > issued
    BY <1>1, <2>1, <2>2, <2>4 DEF RowRight, AliveFor
  <2> QED
    BY <1>1, <2>1, <2>3, <2>4
<1>4. ASSUME NEW r \in Requests, Works(requests[r])
      PROVE  requests[r].row # n /\ rows[requests[r].row].login # n
  <2> DEFINE i == requests[r].row
  <2>1. i \in Rows /\ i <= issued
    BY <1>4, Held
  <2>2. rows[i].login <= i /\ rows[i].login \in Nat /\ i \in Nat
    BY <1>1, <2>1 DEF Chains, RowRight, TypeOK, Row
  <2> QED
    BY <1>1, <2>1, <2>2
<1> QED
  BY <1>2, <1>3, <1>4 DEF RotatesFor, Works

\* The rows after a pair of tokens was generated.
LEMMA Generated ==
  ASSUME TypeOK, Chains, NEW login \in Rows, GenerateTokens(login), login <= issued + 1,
         login = issued + 1 \/ rows[login].login # issued + 1
  PROVE  /\ issued + 1 \in Rows /\ issued' = issued + 1
         /\ \A i \in Rows : i # issued + 1 => rows'[i] = rows[i]
         /\ rows'[issued + 1].login = login /\ rows'[issued + 1].state = "pending"
         /\ ~rows'[issued + 1].revoked
         /\ \A i \in Rows : RowRight(rows'[i], i, issued', contested)
         /\ \A r \in Requests : Works(requests[r]) => rows'[requests[r].row] = rows[requests[r].row]
         /\ \A i \in Rows, f \in Rows :
              AliveFor(rows', i, f) <=>
                (i = issued + 1 /\ f = login) \/ (i # issued + 1 /\ AliveFor(rows, i, f))
         /\ \A r \in Requests, f \in Rows :
              RotatesFor(rows', requests, r, f) <=> RotatesFor(rows, requests, r, f)
<1> DEFINE n == issued + 1
           new == [state |-> "pending", token |-> now.second, login |-> login,
                   revoked |-> FALSE]
<1>1. n \in Rows /\ issued \in Nat /\ Rows \subseteq Nat
  BY Numbers DEF GenerateTokens, Rows
<1>2. /\ issued' = n
      /\ \A i \in Rows : rows'[i] = IF i = n THEN new ELSE rows[i]
  BY <1>1 DEF TypeOK, GenerateTokens
<1>3. new.login = login /\ new.state = "pending" /\ ~new.revoked
  OBVIOUS
<1> HIDE DEF new
<1>4. ASSUME NEW i \in Rows PROVE RowRight(rows'[i], i, n, contested)
  <2>1. CASE i = n
    BY <1>1, <1>2, <1>3, <2>1 DEF RowRight
  <2>2. CASE i # n
    <3>1. RowRight(rows[i], i, issued, contested)
      BY DEF Chains
    <3>2. /\ i \in Nat /\ n \in Nat
          /\ i > n => i > issued
          /\ i <= n => i <= issued
      BY <1>1, <2>2
    <3>3. rows'[i] = rows[i]
      BY <1>2, <2>2
    <3> HIDE DEF n
    <3> QED
      BY <3>1, <3>2, <3>3 DEF RowRight
  <2> QED
    BY <2>1, <2>2
<1>5. \A r \in Requests : Works(requests[r]) => rows'[requests[r].row] = rows[requests[r].row]
  BY <1>1, <1>2, Fresh, Held
<1>6. \A i \in Rows, f \in Rows :
        AliveFor(rows', i, f) <=> (i = n /\ f = login) \/ (i # n /\ AliveFor(rows, i, f))
  BY <1>2, <1>3 DEF AliveFor
<1>7. \A r \in Requests, f \in Rows :
        RotatesFor(rows', requests, r, f) <=> RotatesFor(rows, requests, r, f)
  BY <1>5 DEF RotatesFor, Works
<1> QED
  BY <1>1, <1>2, <1>3, <1>4, <1>5, <1>6, <1>7

LEMMA ChainsLogIn ==
  ASSUME TypeOK, Chains, LogIn
  PROVE  Chains'
<1> DEFINE n == issued + 1
<1>1. n \in Rows /\ n <= issued + 1 /\ issued \in Nat /\ Rows \subseteq Nat
  BY Numbers DEF LogIn, GenerateTokens, Rows
<1>2. GenerateTokens(n) /\ requests' = requests /\ contested' = contested /\ broken' = broken
  BY DEF LogIn
<1>3. /\ \A i \in Rows : RowRight(rows'[i], i, issued', contested)
      /\ issued' = n
      /\ \A i \in Rows : i # n => rows'[i] = rows[i]
      /\ \A r \in Requests : Works(requests[r]) => rows'[requests[r].row] = rows[requests[r].row]
      /\ \A i \in Rows, f \in Rows :
           AliveFor(rows', i, f) <=> (i = n /\ f = n) \/ (i # n /\ AliveFor(rows, i, f))
      /\ \A r \in Requests, f \in Rows :
           RotatesFor(rows', requests, r, f) <=> RotatesFor(rows, requests, r, f)
  BY <1>1, <1>2, Generated
<1>4. /\ \A i \in Rows : ~AliveFor(rows, i, n)
      /\ \A r \in Requests : ~RotatesFor(rows, requests, r, n)
      /\ \A f \in Rows : ~AliveFor(rows, n, f)
  BY <1>1, Fresh DEF AliveFor
<1>5. \A r \in Requests : HeldRight(requests[r], rows', issued')
  <2>1. ASSUME NEW r \in Requests, Works(requests[r])
        PROVE  requests[r].row <= n
    <3>1. requests[r].row \in Rows /\ requests[r].row <= issued
      BY <2>1, Held
    <3>2. requests[r].row \in Nat
      BY <1>1, <3>1
    <3> QED
      BY <1>1, <3>1, <3>2
  <2> QED
    BY <1>3, <2>1, Held DEF HeldRight
<1>6. \A r \in Requests : Alone(requests, rows', contested, r)
  BY <1>3 DEF Chains, Alone
<1>7. ASSUME NEW f \in Rows \ contested PROVE Single(rows', requests, f)
  <2>1. Single(rows, requests, f)
    BY DEF Chains
  <2>2. CASE f = n
    BY <1>3, <1>4, <2>2 DEF Single
  <2>3. CASE f # n
    BY <1>3, <2>1, <2>3 DEF Single
  <2> QED
    BY <2>2, <2>3
<1>8. ASSUME NEW f \in Rows \ (contested \union broken), f <= n, rows'[f].login = f
      PROVE  Kept(rows', requests, f)
  <2>1. CASE f = n
    BY <1>1, <1>3, <2>1 DEF Kept
  <2>2. CASE f # n
    <3>1. f <= issued /\ rows[f].login = f
      BY <1>1, <1>3, <1>8, <2>2
    <3>2. Kept(rows, requests, f)
      BY <3>1 DEF Chains
    <3> QED
      BY <1>3, <1>4, <3>2 DEF Kept
  <2> QED
    BY <2>1, <2>2
<1> QED
  BY <1>2, <1>3, <1>5, <1>6, <1>7, <1>8 DEF Chains


\* The token is stored, or lost on the way.
LEMMA ChainsStored ==
  ASSUME TypeOK, Chains, NEW k \in Rows, PersistRefreshToken(k) \/ LoseRefreshToken(k)
  PROVE  Chains'
<1>1. /\ issued' = issued /\ requests' = requests /\ contested' = contested
      /\ broken \subseteq broken'
      /\ rows[k].state = "pending"
      /\ \A i \in Rows : i # k => rows'[i] = rows[i]
      /\ rows'[k].state \in {"stored", "lost"}
      /\ rows'[k].login = rows[k].login /\ rows'[k].revoked = rows[k].revoked
  BY DEF TypeOK, Row, PersistRefreshToken, LoseRefreshToken
<1>2. ~rows[k].revoked
  BY <1>1 DEF Chains, RowRight
<1>3. \A i \in Rows : RowRight(rows'[i], i, issued, contested)
  BY <1>1, <1>2 DEF Chains, RowRight
<1>4. \A r \in Requests : Works(requests[r]) => rows'[requests[r].row] = rows[requests[r].row]
  BY <1>1, Held
<1>5. \A r \in Requests, f \in Rows :
        RotatesFor(rows', requests, r, f) <=> RotatesFor(rows, requests, r, f)
  BY <1>4 DEF RotatesFor, Works
<1>6. \A i \in Rows, f \in Rows :
        /\ AliveFor(rows', i, f) => AliveFor(rows, i, f)
        /\ f \notin broken' /\ AliveFor(rows, i, f) => AliveFor(rows', i, f)
  <2>1. \A i \in Rows, f \in Rows : AliveFor(rows', i, f) => AliveFor(rows, i, f)
    BY <1>1 DEF AliveFor
  <2>2. ASSUME NEW i \in Rows, NEW f \in Rows, f \notin broken', AliveFor(rows, i, f)
        PROVE  AliveFor(rows', i, f)
    <3>1. CASE i # k
      BY <1>1, <2>2, <3>1 DEF AliveFor
    <3>2. CASE i = k /\ PersistRefreshToken(k)
      <4>1. rows'[k].state = "stored"
        BY <3>2 DEF TypeOK, Row, PersistRefreshToken
      <4> QED
        BY <1>1, <2>2, <3>2, <4>1 DEF AliveFor
    <3>3. CASE i = k /\ LoseRefreshToken(k)
      BY <2>2, <3>3 DEF AliveFor, LoseRefreshToken
    <3> QED
      BY <3>1, <3>2, <3>3
  <2> QED
    BY <2>1, <2>2
<1>7. \A r \in Requests : HeldRight(requests[r], rows', issued)
  BY <1>4 DEF Chains, HeldRight
<1>8. \A r \in Requests : Alone(requests, rows', contested, r)
  BY <1>4 DEF Chains, Alone
<1>9. \A f \in Rows \ contested : Single(rows', requests, f)
  BY <1>5, <1>6 DEF Chains, Single
<1>10. ASSUME NEW f \in Rows \ (contested \union broken'), f <= issued, rows'[f].login = f
       PROVE  Kept(rows', requests, f)
  <2>1. rows[f].login = f /\ f \in Rows \ (contested \union broken)
    BY <1>1, <1>10
  <2>2. Kept(rows, requests, f)
    BY <1>10, <2>1 DEF Chains
  <2> QED
    BY <1>5, <1>6, <1>10, <2>2 DEF Kept
<1> QED
  BY <1>1, <1>3, <1>7, <1>8, <1>9, <1>10 DEF Chains

LEMMA ChainsFind ==
  ASSUME TypeOK, Chains, NEW r \in Requests, NEW k \in Rows, FindRefreshToken(r, k)
  PROVE  Chains'
<1> DEFINE m == Refreshing("revoke", k)
<1>1. /\ rows' = rows /\ issued' = issued /\ broken' = broken /\ contested \subseteq contested'
      /\ rows[k].state = "stored" /\ ~rows[k].revoked /\ rows[k].login \in Rows
      /\ requests[r].pc = "find"
  BY DEF FindRefreshToken, Usable, TypeOK, Row
<1>2. /\ \A s \in Requests : requests'[s] = IF s = r THEN m ELSE requests[s]
      /\ Works(m) /\ m.pc = "revoke" /\ m.row = k
  BY Constructed, Updated, Labels DEF FindRefreshToken, Works
<1>3. ~Works(requests[r])
  BY <1>1 DEF Works
<1>4. \A f \in contested' : f \in contested \/ f = rows[k].login
  BY DEF FindRefreshToken
<1>5. rows[k].login \in contested' \/
        \A s \in Requests \ {r} : Works(requests[s]) => requests[s].row # k
  <2>1. CASE \E s \in Requests : requests[s] = Refreshing("revoke", k)
    BY <2>1 DEF FindRefreshToken
  <2>2. CASE ~\E s \in Requests : requests[s] = Refreshing("revoke", k)
    <3>1. ASSUME NEW s \in Requests, Works(requests[s]), requests[s].row = k
          PROVE  FALSE
      <4>1. requests[s].pc # "rotate"
        BY <1>1, <3>1, Held
      <4>2. requests[s] \in RefreshStates /\ requests[s].pc = "revoke"
        BY <3>1, <4>1, Shapes DEF TypeOK, Works
      <4>3. requests[s] = Refreshing("revoke", k)
        BY <3>1, <4>2 DEF RefreshStates, Refreshing
      <4> QED
        BY <2>2, <4>3
    <3> QED
      BY <3>1
  <2> QED
    BY <2>1, <2>2
<1> HIDE DEF m
<1>6. k <= issued
  <2>1. RowRight(rows[k], k, issued, contested) /\ k \in Nat /\ issued \in Nat
    BY Numbers DEF Chains, Rows
  <2> QED
    BY <1>1, <2>1 DEF RowRight
<1>7. \A i \in Rows : RowRight(rows[i], i, issued, contested')
  <2>1. rows[k].login <= issued
    <3>1. RowRight(rows[k], k, issued, contested)
      BY DEF Chains
    <3>2. rows[k].login \in Nat /\ k \in Nat /\ issued \in Nat
      BY Numbers DEF TypeOK, Row, Rows
    <3> QED
      BY <1>6, <3>1, <3>2 DEF RowRight
  <2>2. ASSUME NEW i \in Rows, i > issued PROVE i \notin contested'
    <3>1. i \notin contested /\ i \in Nat /\ issued \in Nat
      BY <2>2, Numbers DEF Chains, RowRight, Rows
    <3>2. rows[k].login \in Nat
      BY DEF TypeOK, Row, Rows
    <3> QED
      BY <1>4, <2>1, <2>2, <3>1, <3>2
  <2> QED
    BY <2>2 DEF Chains, RowRight
<1>8. \A s \in Requests : HeldRight(requests'[s], rows, issued)
  BY <1>1, <1>2, <1>6 DEF Chains, HeldRight
<1>9. ASSUME NEW s \in Requests PROVE Alone(requests', rows, contested', s)
  <2>1. CASE s = r
    BY <1>1, <1>2, <1>5, <2>1 DEF Alone
  <2>2. CASE s # r
    <3>1. Alone(requests, rows, contested, s)
      BY DEF Chains
    <3>2. Works(requests[s]) /\ rows[requests[s].row].login \notin contested' =>
            requests[s].row # k
      BY <1>5, <2>2
    <3> QED
      BY <1>1, <1>2, <2>2, <3>1, <3>2 DEF Alone
  <2> QED
    BY <2>1, <2>2
<1>10. \A s \in Requests, f \in Rows :
         RotatesFor(rows, requests', s, f) <=> RotatesFor(rows, requests, s, f)
  BY <1>1, <1>2 DEF RotatesFor
<1>11. \A f \in Rows \ contested' : Single(rows, requests', f)
  BY <1>1, <1>10 DEF Chains, Single
<1>12. \A f \in Rows : Kept(rows, requests, f) => Kept(rows, requests', f)
  BY <1>10 DEF Kept
<1> QED
  BY <1>1, <1>7, <1>8, <1>9, <1>11, <1>12 DEF Chains

LEMMA ChainsRevoke ==
  ASSUME TypeOK, Chains, NEW r \in Requests, RevokeToken(r)
  PROVE  Chains'
<1> DEFINE k == requests[r].row
           m == Refreshing("rotate", k)
<1>1. /\ k \in Rows /\ k <= issued /\ rows[k].state = "stored" /\ rows[k].login \in Rows
      /\ requests[r].pc = "revoke" /\ Works(requests[r])
  BY Held DEF RevokeToken, Works
<1>2. /\ issued' = issued /\ contested' = contested /\ broken' = broken
      /\ \A s \in Requests : requests'[s] = IF s = r THEN m ELSE requests[s]
      /\ Works(m) /\ m.pc = "rotate" /\ m.row = k
  BY <1>1, Constructed, Updated, Labels DEF RevokeToken, Works
<1>3. /\ \A i \in Rows : i # k => rows'[i] = rows[i]
      /\ rows'[k] = [rows[k] EXCEPT !.revoked = TRUE]
  BY <1>1 DEF RevokeToken, SavedRows
<1>4. /\ \A i \in Rows : rows'[i].login = rows[i].login /\ rows'[i].state = rows[i].state
      /\ \A i \in Rows : rows[i].revoked => rows'[i].revoked
      /\ rows'[k].revoked
  BY <1>1, <1>3 DEF TypeOK, Row
<1> HIDE DEF k, m
<1>5. \A i \in Rows : RowRight(rows'[i], i, issued, contested)
  BY <1>1, <1>3, <1>4 DEF Chains, RowRight
<1>6. \A s \in Requests : HeldRight(requests'[s], rows', issued)
  <2>1. HeldRight(requests'[r], rows', issued)
    BY <1>1, <1>2, <1>4 DEF HeldRight
  <2>2. ASSUME NEW s \in Requests, s # r PROVE HeldRight(requests'[s], rows', issued)
    BY <1>2, <1>4, <2>2, Held DEF HeldRight
  <2> QED
    BY <2>1, <2>2
<1>7. rows[k].login \notin contested =>
        /\ ~rows[k].revoked
        /\ \A s \in Requests \ {r} : Works(requests[s]) => requests[s].row # k
  BY <1>1 DEF Chains, Alone, k
<1>8. ASSUME NEW s \in Requests PROVE Alone(requests', rows', contested, s)
  <2>1. CASE s = r
    BY <1>1, <1>2, <1>4, <1>7, <2>1 DEF Alone
  <2>2. CASE s # r
    <3>1. Alone(requests, rows, contested, s)
      BY DEF Chains
    <3>2. Works(requests[s]) =>
            /\ requests[s].row \in Rows
            /\ rows'[requests[s].row].login = rows[requests[s].row].login
      BY <1>4, Held
    <3>3. Works(requests[s]) /\ rows[requests[s].row].login \notin contested =>
            requests[s].row # k
      BY <1>7, <2>2
    <3> QED
      BY <1>2, <1>3, <2>2, <3>1, <3>2, <3>3 DEF Alone
  <2> QED
    BY <2>1, <2>2
<1>9. \A s \in Requests, f \in Rows :
        RotatesFor(rows', requests', s, f) <=>
          (s = r /\ f = rows[k].login) \/ (s # r /\ RotatesFor(rows, requests, s, f))
  <2>1. ASSUME NEW s \in Requests, NEW f \in Rows, s # r
        PROVE  RotatesFor(rows', requests', s, f) <=> RotatesFor(rows, requests, s, f)
    <3>1. requests'[s] = requests[s]
      BY <1>2, <2>1
    <3>2. requests[s].pc = "rotate" => requests[s].row \in Rows
      BY Held DEF Works
    <3> QED
      BY <1>4, <3>1, <3>2 DEF RotatesFor
  <2>2. ASSUME NEW f \in Rows
        PROVE  RotatesFor(rows', requests', r, f) <=> f = rows[k].login
    BY <1>1, <1>2, <1>4 DEF RotatesFor
  <2> QED
    BY <2>1, <2>2
<1>10. \A i \in Rows, f \in Rows :
         AliveFor(rows', i, f) <=> i # k /\ AliveFor(rows, i, f)
  BY <1>1, <1>3, <1>4 DEF AliveFor
<1>11. rows[k].login \notin contested => AliveFor(rows, k, rows[k].login)
  BY <1>1, <1>7 DEF AliveFor
<1>12. ~RotatesFor(rows, requests, r, rows[k].login)
  BY <1>1 DEF RotatesFor
<1>13. ASSUME NEW f \in Rows \ contested PROVE Single(rows', requests', f)
  <2>1. Single(rows, requests, f)
    BY DEF Chains
  <2>2. CASE f # rows[k].login
    BY <1>9, <1>10, <2>1, <2>2 DEF Single
  <2>3. CASE f = rows[k].login
    <3>1. AliveFor(rows, k, f)
      BY <1>11, <2>3
    <3>2. /\ \A i \in Rows : ~AliveFor(rows', i, f)
          /\ \A s \in Requests : ~RotatesFor(rows, requests, s, f)
      BY <1>1, <1>10, <2>1, <3>1 DEF Single
    <3> QED
      BY <1>9, <3>2 DEF Single
  <2> QED
    BY <2>2, <2>3
<1>14. ASSUME NEW f \in Rows \ (contested \union broken), f <= issued, rows'[f].login = f
       PROVE  Kept(rows', requests', f)
  <2>1. Kept(rows, requests, f)
    BY <1>4, <1>14 DEF Chains
  <2>2. CASE f = rows[k].login
    BY <1>9, <2>2 DEF Kept
  <2>3. CASE f # rows[k].login
    <3>1. \A i \in Rows : AliveFor(rows, i, f) => i # k
      BY <2>3 DEF AliveFor
    <3>2. \A s \in Requests : RotatesFor(rows, requests, s, f) => s # r
      BY <1>1 DEF RotatesFor
    <3> QED
      BY <1>9, <1>10, <2>1, <3>1, <3>2 DEF Kept
  <2> QED
    BY <2>2, <2>3
<1> QED
  BY <1>2, <1>5, <1>6, <1>8, <1>13, <1>14 DEF Chains

\* A request goes idle.
LEMMA Leaves ==
  ASSUME TypeOK, NEW r \in Requests, Become(r, Idle)
  PROVE  /\ \A s \in Requests : s # r => requests'[s] = requests[s]
         /\ requests'[r].pc = "idle" /\ ~Works(requests'[r])
BY Constructed, Updated, Labels DEF Works

LEMMA ChainsRotate ==
  ASSUME TypeOK, Chains, NEW r \in Requests, RotateToken(r)
  PROVE  Chains'
<1> DEFINE k == requests[r].row
           login == rows[k].login
           n == issued + 1
<1>1. /\ k \in Rows /\ k <= issued /\ login \in Rows /\ requests[r].pc = "rotate"
      /\ Works(requests[r]) /\ rows[k].state = "stored"
  BY Held DEF RotateToken, Works
<1>2. /\ GenerateTokens(login) /\ contested' = contested /\ broken' = broken
      /\ Become(r, Idle)
  BY DEF RotateToken
<1>3. /\ issued \in Nat /\ login \in Nat /\ login <= issued /\ n \in Rows /\ Rows \subseteq Nat
      /\ rows[login].login # n
  <2>1. issued \in Nat /\ Rows \subseteq Nat /\ n \in Rows
    BY <1>2, Numbers DEF GenerateTokens, Rows
  <2>2. RowRight(rows[k], k, issued, contested) /\ RowRight(rows[login], login, issued, contested)
    BY <1>1 DEF Chains
  <2>3. k \in Nat /\ login \in Nat /\ rows[login].login \in Nat
    BY <1>1, <2>1 DEF TypeOK, Row
  <2>4. login <= issued
    BY <1>1, <2>1, <2>2, <2>3 DEF RowRight
  <2>5. rows[login].login <= login
    BY <2>2, <2>4 DEF RowRight
  <2> QED
    BY <2>1, <2>3, <2>4, <2>5
<1> HIDE DEF k, login
<1>4. login <= n
  BY <1>3
<1>5. /\ \A i \in Rows : RowRight(rows'[i], i, issued', contested)
      /\ issued' = n
      /\ \A i \in Rows : i # n => rows'[i] = rows[i]
      /\ rows'[n].login = login
      /\ \A s \in Requests : Works(requests[s]) => rows'[requests[s].row] = rows[requests[s].row]
      /\ \A i \in Rows, f \in Rows :
           AliveFor(rows', i, f) <=> (i = n /\ f = login) \/ (i # n /\ AliveFor(rows, i, f))
      /\ \A s \in Requests, f \in Rows :
           RotatesFor(rows', requests, s, f) <=> RotatesFor(rows, requests, s, f)
  BY <1>1, <1>2, <1>3, <1>4, Generated
<1>6. /\ \A s \in Requests : s # r => requests'[s] = requests[s]
      /\ requests'[r].pc = "idle" /\ ~Works(requests'[r])
  BY <1>2, Leaves
<1>7. /\ \A i \in Rows : ~AliveFor(rows, i, n)
      /\ \A f \in Rows : ~AliveFor(rows, n, f)
  BY <1>3, Fresh DEF AliveFor
<1>8. \A s \in Requests : HeldRight(requests'[s], rows', issued')
  <2>1. ASSUME NEW s \in Requests, Works(requests[s])
        PROVE  requests[s].row <= n
    <3>1. requests[s].row \in Rows /\ requests[s].row <= issued
      BY <2>1, Held
    <3>2. requests[s].row \in Nat
      BY <1>3, <3>1
    <3> QED
      BY <1>3, <3>1, <3>2
  <2> QED
    BY <1>5, <1>6, <2>1, Held DEF HeldRight
<1>9. \A s \in Requests : Alone(requests', rows', contested, s)
  BY <1>5, <1>6 DEF Chains, Alone
<1>10. \A s \in Requests, f \in Rows :
         RotatesFor(rows', requests', s, f) <=> s # r /\ RotatesFor(rows, requests, s, f)
  <2>1. ASSUME NEW s \in Requests, NEW f \in Rows, s # r
        PROVE  RotatesFor(rows', requests', s, f) <=> RotatesFor(rows', requests, s, f)
    BY <1>6, <2>1 DEF RotatesFor
  <2>2. \A f \in Rows : ~RotatesFor(rows', requests', r, f)
    BY <1>6 DEF RotatesFor
  <2> QED
    BY <1>5, <2>1, <2>2
<1>11. RotatesFor(rows, requests, r, login)
  BY <1>1 DEF RotatesFor, login, k
<1>12. ASSUME NEW f \in Rows \ contested PROVE Single(rows', requests', f)
  <2>1. Single(rows, requests, f)
    BY DEF Chains
  <2>2. CASE f = login
    <3>1. /\ \A i \in Rows : ~AliveFor(rows, i, f)
          /\ \A s \in Requests : s # r => ~RotatesFor(rows, requests, s, f)
      BY <1>11, <2>1, <2>2 DEF Single
    <3> QED
      BY <1>5, <1>10, <2>2, <3>1 DEF Single
  <2>3. CASE f # login
    BY <1>5, <1>10, <2>1, <2>3 DEF Single
  <2> QED
    BY <2>2, <2>3
<1>13. ASSUME NEW f \in Rows \ (contested \union broken), f <= n, rows'[f].login = f
       PROVE  Kept(rows', requests', f)
  <2>1. CASE f = login
    BY <1>3, <1>5, <2>1 DEF Kept
  <2>2. CASE f # login
    <3>1. f # n
      BY <1>5, <1>13, <2>2
    <3>2. f <= issued /\ rows[f].login = f
      BY <1>3, <1>5, <1>13, <3>1
    <3>3. Kept(rows, requests, f)
      BY <1>13, <3>2 DEF Chains
    <3>4. \A s \in Requests : RotatesFor(rows, requests, s, f) => s # r
      BY <1>11, <2>2 DEF RotatesFor
    <3>5. \A i \in Rows : AliveFor(rows, i, f) => AliveFor(rows', i, f)
      BY <1>5, <1>7
    <3> QED
      BY <1>10, <3>3, <3>4, <3>5 DEF Kept
  <2> QED
    BY <2>1, <2>2
<1> QED
  BY <1>2, <1>5, <1>8, <1>9, <1>12, <1>13 DEF Chains

LEMMA ChainsFail ==
  ASSUME TypeOK, Chains, NEW r \in Requests, FailRefresh(r)
  PROVE  Chains'
<1> DEFINE login == rows[requests[r].row].login
<1>1. /\ rows' = rows /\ issued' = issued /\ contested' = contested
      /\ broken' = broken \union {login}
  BY DEF FailRefresh
<1>2. /\ \A s \in Requests : s # r => requests'[s] = requests[s]
      /\ requests'[r].pc = "idle" /\ ~Works(requests'[r])
  BY Leaves DEF FailRefresh
<1>3. \A s \in Requests, f \in Rows :
        RotatesFor(rows, requests', s, f) <=> s # r /\ RotatesFor(rows, requests, s, f)
  <2>1. ASSUME NEW s \in Requests, NEW f \in Rows, s # r
        PROVE  RotatesFor(rows, requests', s, f) <=> RotatesFor(rows, requests, s, f)
    BY <1>2, <2>1 DEF RotatesFor
  <2>2. \A f \in Rows : ~RotatesFor(rows, requests', r, f)
    BY <1>2 DEF RotatesFor
  <2> QED
    BY <2>1, <2>2
<1>4. \A s \in Requests : HeldRight(requests'[s], rows, issued)
  BY <1>2 DEF Chains, HeldRight
<1>5. \A s \in Requests : Alone(requests', rows, contested, s)
  BY <1>2 DEF Chains, Alone
<1>6. \A f \in Rows \ contested : Single(rows, requests', f)
  BY <1>3 DEF Chains, Single
<1>7. \A f \in Rows : f # login /\ Kept(rows, requests, f) => Kept(rows, requests', f)
  BY <1>3 DEF Kept, RotatesFor
<1> HIDE DEF login
<1> QED
  BY <1>1, <1>4, <1>5, <1>6, <1>7 DEF Chains

LEMMA ChainsNext == Typed /\ Typed' /\ Chains /\ [Next]_vars => Chains'
<1> SUFFICES ASSUME Typed, Typed', Chains, [Next]_vars PROVE Chains'
  OBVIOUS
<1>0. TypeOK /\ TypeOK'
  BY DEF Typed
<1>1. CASE UNCHANGED vars
  BY <1>1 DEF vars, Chains
<1>2. CASE Next
  <2>1. CASE Tick \/ \E t \in Tokens : ExpireBlacklist(t) \/ LoseBlacklist(t)
    BY <2>1 DEF Tick, ExpireBlacklist, LoseBlacklist, sessions, Chains
  <2>2. ASSUME NEW r \in Requests, Refresh(r) PROVE Chains'
    BY <1>0, <2>2, ChainsAsk, ChainsFind, ChainsRevoke, ChainsRotate, ChainsFail
       DEF Refresh, Asks
  <2>3. ASSUME NEW r \in Requests, Access(r) PROVE Chains'
    BY <1>0, <2>3, ChainsAccess
  <2> QED
    BY <1>0, <1>2, <2>1, <2>2, <2>3, ChainsLogIn, ChainsStored DEF Next
<1> QED
  BY <1>1, <1>2

-----------------------------------------------------------------------------
Inv == Typed /\ Gate /\ Chains

LEMMA InvHolds == Spec => []Inv
<1>1. Init => Inv
  BY TypedInit, GateInit, ChainsInit DEF Inv
<1>2. Inv /\ [Next]_vars => Inv'
  BY TypedNext, GateNext, ChainsNext DEF Inv
<1> QED
  BY <1>1, <1>2, PTL DEF Spec

LEMMA InvImplies == Inv => IInv
<1> SUFFICES ASSUME Inv PROVE IInv
  OBVIOUS
<1>1. TypeOK /\ SignedBefore
  BY DEF Inv, Typed
<1>2. RowsIssued
  BY DEF Inv, Chains, RowRight, RowsIssued
<1>3. RowsHeld
  BY DEF Inv, Chains, HeldRight, Alone, Works, RowsHeld
<1>4. \A f \in Rows : /\ \A i \in Rows : i \in Live(f) <=> AliveFor(rows, i, f)
                      /\ \A r \in Requests : r \in Rotating(f) <=> RotatesFor(rows, requests, r, f)
                      /\ Live(f) \subseteq Rows /\ Rotating(f) \subseteq Requests
  BY DEF Live, Rotating, AliveFor, RotatesFor
<1>5. OneSession
  <2>1. ASSUME NEW f \in Rows \ contested
        PROVE  /\ \A i, j \in Live(f) : i = j
               /\ \A r, s \in Rotating(f) : r = s
               /\ Rotating(f) # {} => Live(f) = {}
    <3>1. Single(rows, requests, f)
      BY DEF Inv, Chains
    <3> QED
      BY <1>4, <3>1 DEF Single
  <2> QED
    BY <2>1 DEF OneSession
<1>6. SessionKept
  <2>1. ASSUME NEW f \in Rows \ (contested \union broken), f <= issued, rows[f].login = f
        PROVE  Live(f) # {} \/ Rotating(f) # {}
    <3>1. Kept(rows, requests, f)
      BY <2>1 DEF Inv, Chains
    <3> QED
      BY <1>4, <3>1 DEF Kept
  <2> QED
    BY <2>1 DEF SessionKept
<1>7. Outlives /\ LateIsOver /\ LoggedOutIsRefused
  BY DEF Inv, Gate, TokenRight, AskRight, Outlives, LateIsOver, LoggedOutIsRefused
<1> QED
  BY <1>1, <1>2, <1>3, <1>5, <1>6, <1>7 DEF IInv

\* The inductive invariant holds always.
THEOREM SessionsInvariant == Spec => []IInv
BY InvHolds, InvImplies, PTL

\* Tokens, rows and requests keep their shape, and Redis is never given a time
\* to live that is not positive or longer than the token's.
THEOREM SessionTypes == Spec => []TypeOK
<1>1. IInv => TypeOK
  BY DEF IInv
<1> QED
  BY <1>1, SessionsInvariant, PTL

\* A login has one refresh token that can be rotated, for any number of logins
\* and requests, unless two refreshes read one of its rows at a time.
THEOREM OneSessionPerLogin == Spec => []OneSession
<1>1. IInv => OneSession
  BY DEF IInv
<1> QED
  BY <1>1, SessionsInvariant, PTL

\* And it keeps one as long as none of its own statements fails.
THEOREM SessionsAreKept == Spec => []SessionKept
<1>1. IInv => SessionKept
  BY DEF IInv
<1> QED
  BY <1>1, SessionsInvariant, PTL

\* A token that was blacklisted admits no later request, whatever the life of
\* the tokens, unless Redis lost its key.
THEOREM LogoutIsFinal == Spec => []LoggedOutIsRefused
<1>1. IInv => LoggedOutIsRefused
  BY DEF IInv
<1> QED
  BY <1>1, SessionsInvariant, PTL

-----------------------------------------------------------------------------
(* The rows implement SessionLife.                                         *)

\* The row a login began with keeps its login: every row leads to one.
Heads == \A i \in Rows : rows[rows[i].login].login = rows[i].login

\* SessionOf in the terms of this module.
Phase(table, n, asked, shared, f) ==
  IF f > n \/ table[f].login # f THEN "none"
  ELSE IF f \in shared THEN "shared"
  ELSE IF \E r \in Requests : RotatesFor(table, asked, r, f) THEN "spent"
  ELSE IF \E i \in Rows : AliveFor(table, i, f) THEN "open" ELSE "over"

PhaseOf(f) == Phase(rows, issued, requests, contested, f)

LEMMA Seen ==
  /\ SessionOf = [f \in Rows |-> PhaseOf(f)]
  /\ SessionOf' = [f \in Rows |-> PhaseOf(f)']
<1>1. \A f \in Rows : /\ Live(f) # {} <=> \E i \in Rows : AliveFor(rows, i, f)
                      /\ Rotating(f) # {} <=> \E r \in Requests : RotatesFor(rows, requests, r, f)
  BY DEF Live, Rotating, AliveFor, RotatesFor
<1>2. \A f \in Rows : /\ Live(f)' # {} <=> \E i \in Rows : AliveFor(rows', i, f)
                      /\ Rotating(f)' # {} <=> \E r \in Requests : RotatesFor(rows', requests', r, f)
  BY DEF Live, Rotating, AliveFor, RotatesFor
<1>3. SessionOf = [f \in Rows |-> PhaseOf(f)]
  BY <1>1 DEF SessionOf, PhaseOf, Phase
<1>4. SessionOf' = [f \in Rows |-> PhaseOf(f)']
  BY <1>2 DEF SessionOf, PhaseOf, Phase
<1> QED
  BY <1>3, <1>4

\* A login whose rows, refreshes and number of readers stay sees no change.
LEMMA PhaseStays ==
  ASSUME NEW f \in Rows, f > issued' <=> f > issued, rows'[f].login = rows[f].login,
         f \in contested' <=> f \in contested,
         \A r \in Requests : RotatesFor(rows', requests', r, f) <=> RotatesFor(rows, requests, r, f),
         \A i \in Rows : AliveFor(rows', i, f) <=> AliveFor(rows, i, f)
  PROVE  PhaseOf(f)' = PhaseOf(f)
BY DEF PhaseOf, Phase

LEMMA NoneMoves ==
  ASSUME \A f \in Rows : PhaseOf(f)' = PhaseOf(f), broken' = broken
  PROVE  UNCHANGED <<SessionOf, broken>>
BY Seen

LEMMA OneGoesOn ==
  ASSUME NEW g \in Rows, \A f \in Rows \ {g} : PhaseOf(f)' = PhaseOf(f), broken' = broken,
         <<PhaseOf(g), PhaseOf(g)'>> \in Life!Moves
  PROVE  Life!Next
<1>1. SessionOf' = [SessionOf EXCEPT ![g] = SessionOf'[g]]
  BY Seen
<1>2. Life!GoOn(g)
  BY <1>1, Seen DEF Life!GoOn
<1> QED
  BY <1>2 DEF Life!Next

LEMMA OneFails ==
  ASSUME NEW g \in Rows, \A f \in Rows \ {g} : PhaseOf(f)' = PhaseOf(f),
         broken' = broken \union {g}, PhaseOf(g) \in {"open", "spent", "shared"},
         PhaseOf(g)' = PhaseOf(g) \/ (PhaseOf(g) # "shared" /\ PhaseOf(g)' = "over")
  PROVE  Life!Next
<1>1. \/ SessionOf' = SessionOf
      \/ SessionOf[g] # "shared" /\ SessionOf' = [SessionOf EXCEPT ![g] = "over"]
  <2>1. CASE PhaseOf(g)' = PhaseOf(g)
    BY <2>1, Seen
  <2>2. CASE PhaseOf(g) # "shared" /\ PhaseOf(g)' = "over"
    <3>1. SessionOf' = [SessionOf EXCEPT ![g] = "over"]
      BY <2>2, Seen
    <3> QED
      BY <2>2, <3>1, Seen
  <2> QED
    BY <2>1, <2>2
<1>2. Life!Fail(g)
  BY <1>1, Seen DEF Life!Fail
<1> QED
  BY <1>2 DEF Life!Next

\* The login of a row that was issued is a login.
LEMMA Owner ==
  ASSUME TypeOK, Chains, Heads, NEW i \in Rows, rows[i].state # "unused"
  PROVE  /\ rows[i].login \in Rows /\ ~(rows[i].login > issued)
         /\ rows[rows[i].login].login = rows[i].login
<1>1. i \in Nat /\ issued \in Nat /\ rows[i].login \in Nat /\ rows[i].login \in Rows
  BY Numbers DEF TypeOK, Row, Rows
<1>2. RowRight(rows[i], i, issued, contested)
  BY DEF Chains
<1>3. i <= issued
  BY <1>1, <1>2 DEF RowRight
<1>4. ~(rows[i].login > issued)
  BY <1>1, <1>2, <1>3 DEF RowRight
<1> QED
  BY <1>1, <1>4 DEF Heads

LEMMA HeadsNext ==
  ASSUME TypeOK, Chains, Heads, [Next]_vars
  PROVE  Heads'
<1>1. CASE \A i \in Rows : rows'[i].login = rows[i].login
  <2>1. \A i \in Rows : rows[i].login \in Rows
    BY DEF TypeOK, Row
  <2> QED
    BY <1>1, <2>1 DEF Heads
<1>2. ASSUME NEW g \in Rows, GenerateTokens(g), g <= issued + 1,
             g = issued + 1 \/ (rows[g].login = g /\ g # issued + 1)
      PROVE  Heads'
  <2> DEFINE n == issued + 1
  <2>1. /\ n \in Rows /\ \A i \in Rows : i # n => rows'[i] = rows[i]
        /\ rows'[n].login = g
    BY <1>2, Generated
  <2>2. ASSUME NEW i \in Rows, i # n PROVE rows[i].login \in Rows \ {n}
    <3>1. i \in Nat /\ issued \in Nat /\ rows[i].login \in Rows /\ rows[i].login \in Nat
      BY Numbers DEF TypeOK, Row, Rows
    <3>2. RowRight(rows[i], i, issued, contested)
      BY DEF Chains
    <3>3. rows[i].login = i \/ rows[i].login <= issued
      BY <3>1, <3>2 DEF RowRight
    <3> QED
      BY <2>2, <3>1, <3>3
  <2> HIDE DEF n
  <2>3. rows'[g].login = g
    BY <1>2, <2>1 DEF n
  <2> QED
    BY <2>1, <2>2, <2>3 DEF Heads
<1>3. CASE LogIn
  <2>1. issued + 1 \in Rows /\ issued + 1 <= issued + 1
    BY <1>3, Numbers DEF LogIn, GenerateTokens, Rows
  <2> QED
    BY <1>2, <1>3, <2>1 DEF LogIn
<1>4. ASSUME NEW r \in Requests, RotateToken(r) PROVE Heads'
  <2>1. requests[r].row \in Rows /\ rows[requests[r].row].state = "stored"
    BY <1>4, Held DEF RotateToken, Works
  <2>2. PICK g \in Rows : /\ g = rows[requests[r].row].login /\ ~(g > issued)
                          /\ rows[g].login = g
    BY <2>1, Owner
  <2>3. g <= issued + 1 /\ g # issued + 1
    BY <2>2, Numbers DEF Rows
  <2> QED
    BY <1>2, <1>4, <2>2, <2>3 DEF RotateToken
<1>5. CASE ~(LogIn \/ \E r \in Requests : RotateToken(r))
  <2>1. \/ rows' = rows
        \/ \E i \in Rows : PersistRefreshToken(i) \/ LoseRefreshToken(i)
        \/ \E r \in Requests : RevokeToken(r)
    BY <1>5 DEF Next, Tick, Refresh, VerifyRefreshToken, RefuseRefresh, FindRefreshToken,
       FailRefresh, Access, CheckBlacklist, VerifyToken, MeasureToken, BlacklistToken,
       FailAccess, ExpireBlacklist, LoseBlacklist, sessions, vars
  <2>2. \A i \in Rows : rows'[i].login = rows[i].login
    <3>1. CASE \E i \in Rows : PersistRefreshToken(i) \/ LoseRefreshToken(i)
      BY <3>1 DEF TypeOK, Row, PersistRefreshToken, LoseRefreshToken
    <3>2. CASE \E r \in Requests : RevokeToken(r)
      BY <3>2 DEF TypeOK, Row, RevokeToken
    <3> QED
      BY <2>1, <3>1, <3>2
  <2> QED
    BY <1>1, <2>2
<1> QED
  BY <1>3, <1>4, <1>5

LEMMA LifeLogIn ==
  ASSUME TypeOK, Chains, LogIn
  PROVE  Life!Next
<1>0. issued + 1 \in Rows
  BY Numbers DEF LogIn, GenerateTokens, Rows
<1>1. PICK n \in Rows : n = issued + 1 /\ issued \in Nat /\ n \in Nat
  BY <1>0, Numbers
<1>2. GenerateTokens(n) /\ requests' = requests /\ contested' = contested /\ broken' = broken
  BY <1>1 DEF LogIn
<1>3. /\ issued' = n
      /\ \A i \in Rows : i # n => rows'[i] = rows[i]
      /\ rows'[n].login = n
      /\ \A i \in Rows, f \in Rows :
           AliveFor(rows', i, f) <=> (i = n /\ f = n) \/ (i # n /\ AliveFor(rows, i, f))
      /\ \A r \in Requests, f \in Rows :
           RotatesFor(rows', requests, r, f) <=> RotatesFor(rows, requests, r, f)
  BY <1>1, <1>2, Generated
<1>4. /\ n \notin contested
      /\ \A r \in Requests : ~RotatesFor(rows, requests, r, n)
      /\ \A f \in Rows : ~AliveFor(rows, n, f)
  BY <1>1, Fresh DEF AliveFor
<1>5. ASSUME NEW f \in Rows \ {n} PROVE PhaseOf(f)' = PhaseOf(f)
  <2>1. f > issued' <=> f > issued
    BY <1>1, <1>3, <1>5 DEF Rows
  <2>2. \A i \in Rows : AliveFor(rows', i, f) <=> AliveFor(rows, i, f)
    BY <1>3, <1>4, <1>5
  <2> QED
    BY <1>2, <1>3, <1>5, <2>1, <2>2, PhaseStays
<1>6. n > issued /\ ~(n > issued')
  BY <1>1, <1>3
<1>7. /\ AliveFor(rows', n, n)
      /\ \A r \in Requests : ~RotatesFor(rows', requests', r, n)
  BY <1>1, <1>2, <1>3, <1>4
<1>8. n \in Rows /\ n \notin contested' /\ broken' = broken
  BY <1>1, <1>2, <1>4
<1>9. PhaseOf(n) = "none" /\ PhaseOf(n)' = "open"
  BY <1>3, <1>6, <1>7, <1>8 DEF PhaseOf, Phase
<1> QED
  BY <1>5, <1>8, <1>9, OneGoesOn DEF Life!Moves

LEMMA LifeStored ==
  ASSUME TypeOK, Chains, Heads, NEW k \in Rows,
         PersistRefreshToken(k) \/ LoseRefreshToken(k)
  PROVE  [Life!Next]_<<SessionOf, broken>>
<1>1. /\ issued' = issued /\ requests' = requests /\ contested' = contested
      /\ rows[k].state = "pending"
      /\ \A i \in Rows : i # k => rows'[i] = rows[i]
      /\ \A i \in Rows : rows'[i].login = rows[i].login /\ rows'[i].revoked = rows[i].revoked
  BY DEF TypeOK, Row, PersistRefreshToken, LoseRefreshToken
<1>2. ~rows[k].revoked
  BY <1>1 DEF Chains, RowRight
<1>3. \A r \in Requests, f \in Rows :
        RotatesFor(rows', requests, r, f) <=> RotatesFor(rows, requests, r, f)
  <2>1. \A r \in Requests : Works(requests[r]) => requests[r].row \in Rows
    BY Held
  <2> QED
    BY <1>1, <2>1 DEF RotatesFor, Works
<1>4. CASE PersistRefreshToken(k)
  <2>1. rows'[k].state = "stored" /\ broken' = broken
    BY <1>4 DEF TypeOK, Row, PersistRefreshToken
  <2>2. \A i \in Rows, f \in Rows : AliveFor(rows', i, f) <=> AliveFor(rows, i, f)
    BY <1>1, <2>1 DEF AliveFor
  <2>3. \A f \in Rows : PhaseOf(f)' = PhaseOf(f)
    BY <1>1, <1>3, <2>2, PhaseStays
  <2> QED
    BY <2>1, <2>3, NoneMoves
<1>5. CASE LoseRefreshToken(k)
  <2>1. PICK g \in Rows : g = rows[k].login /\ ~(g > issued) /\ rows[g].login = g
    BY <1>1, Owner
  <2>2. rows'[k].state = "lost" /\ broken' = broken \union {g}
    BY <1>5, <2>1 DEF TypeOK, Row, LoseRefreshToken
  <2>3. \A i \in Rows, f \in Rows : AliveFor(rows', i, f) <=> i # k /\ AliveFor(rows, i, f)
    BY <1>1, <2>2 DEF AliveFor
  <2>4. AliveFor(rows, k, g)
    BY <1>1, <1>2, <2>1 DEF AliveFor
  <2>5. ASSUME NEW f \in Rows \ {g} PROVE PhaseOf(f)' = PhaseOf(f)
    <3>1. ~AliveFor(rows, k, f)
      BY <2>1, <2>5 DEF AliveFor
    <3> QED
      BY <1>1, <1>3, <2>3, <3>1, PhaseStays
  <2>6. CASE g \in contested
    <3>1. PhaseOf(g) = "shared" /\ PhaseOf(g)' = "shared"
      BY <1>1, <2>1, <2>6 DEF PhaseOf, Phase
    <3> QED
      BY <2>2, <2>5, <3>1, OneFails
  <2>7. CASE g \notin contested
    <3>1. Single(rows, requests, g)
      BY <2>7 DEF Chains
    <3>2. /\ \A i \in Rows : ~AliveFor(rows', i, g)
          /\ \A r \in Requests : ~RotatesFor(rows, requests, r, g)
      BY <2>3, <2>4, <3>1 DEF Single
    <3>3. PhaseOf(g) = "open" /\ PhaseOf(g)' = "over"
      BY <1>1, <1>3, <2>1, <2>4, <2>7, <3>2 DEF PhaseOf, Phase
    <3> QED
      BY <2>2, <2>5, <3>3, OneFails
  <2> QED
    BY <2>6, <2>7
<1> QED
  BY <1>4, <1>5

LEMMA LifeFind ==
  ASSUME TypeOK, Chains, Heads, NEW r \in Requests, NEW k \in Rows, FindRefreshToken(r, k)
  PROVE  [Life!Next]_<<SessionOf, broken>>
<1>1. /\ rows' = rows /\ issued' = issued /\ broken' = broken
      /\ rows[k].state = "stored" /\ ~rows[k].revoked /\ requests[r].pc = "find"
  BY DEF FindRefreshToken, Usable
<1>2. \A s \in Requests : requests'[s] = IF s = r THEN Refreshing("revoke", k) ELSE requests[s]
  BY Constructed, Updated DEF FindRefreshToken
<1>3. \A s \in Requests, f \in Rows :
        RotatesFor(rows, requests', s, f) <=> RotatesFor(rows, requests, s, f)
  BY <1>1, <1>2, Labels DEF RotatesFor
<1>4. PICK g \in Rows : g = rows[k].login /\ ~(g > issued) /\ rows[g].login = g
  BY <1>1, Owner
<1>5. AliveFor(rows, k, g)
  BY <1>1, <1>4 DEF AliveFor
<1>6. contested' \in {contested, contested \union {g}}
  BY <1>4 DEF FindRefreshToken
<1>7. \A f \in Rows : (f \in contested' <=> f \in contested) => PhaseOf(f)' = PhaseOf(f)
  BY <1>1, <1>3, PhaseStays
<1>8. CASE g \in contested \/ contested' = contested
  <2>1. \A f \in Rows : PhaseOf(f)' = PhaseOf(f)
    BY <1>6, <1>7, <1>8
  <2> QED
    BY <1>1, <2>1, NoneMoves
<1>9. CASE g \notin contested /\ contested' = contested \union {g}
  <2>1. Single(rows, requests, g)
    BY <1>9 DEF Chains
  <2>2. \A s \in Requests : ~RotatesFor(rows, requests, s, g)
    BY <1>5, <2>1 DEF Single
  <2>3. PhaseOf(g) = "open" /\ PhaseOf(g)' = "shared"
    BY <1>1, <1>4, <1>5, <1>9, <2>2 DEF PhaseOf, Phase
  <2>4. \A f \in Rows \ {g} : PhaseOf(f)' = PhaseOf(f)
    BY <1>7, <1>9
  <2> QED
    BY <1>1, <2>3, <2>4, OneGoesOn DEF Life!Moves
<1> QED
  BY <1>6, <1>8, <1>9

LEMMA LifeRevoke ==
  ASSUME TypeOK, Chains, Heads, NEW r \in Requests, RevokeToken(r)
  PROVE  [Life!Next]_<<SessionOf, broken>>
<1> DEFINE k == requests[r].row
           m == Refreshing("rotate", k)
<1>1. /\ k \in Rows /\ rows[k].state = "stored"
      /\ requests[r].pc = "revoke" /\ Works(requests[r])
  BY Held DEF RevokeToken, Works
<1>2. /\ issued' = issued /\ contested' = contested /\ broken' = broken
      /\ \A s \in Requests : requests'[s] = IF s = r THEN m ELSE requests[s]
      /\ m.pc = "rotate" /\ m.row = k
  BY <1>1, Constructed, Updated, Labels DEF RevokeToken
<1>3. /\ \A i \in Rows : i # k => rows'[i] = rows[i]
      /\ rows'[k] = [rows[k] EXCEPT !.revoked = TRUE]
  BY <1>1 DEF RevokeToken, SavedRows
<1>4. /\ \A i \in Rows : rows'[i].login = rows[i].login
      /\ rows'[k].revoked
  BY <1>1, <1>3 DEF TypeOK, Row
<1>5. PICK g \in Rows : g = rows[k].login /\ ~(g > issued) /\ rows[g].login = g
  BY <1>1, Owner
<1>6. g \notin contested => AliveFor(rows, k, g)
  BY <1>1, <1>5 DEF Chains, Alone, AliveFor
<1> HIDE DEF k, m
<1>7. \A s \in Requests, f \in Rows :
        RotatesFor(rows', requests', s, f) <=>
          (s = r /\ f = g) \/ (s # r /\ RotatesFor(rows, requests, s, f))
  <2>1. ASSUME NEW s \in Requests, NEW f \in Rows, s # r
        PROVE  RotatesFor(rows', requests', s, f) <=> RotatesFor(rows, requests, s, f)
    <3>1. requests'[s] = requests[s]
      BY <1>2, <2>1
    <3>2. requests[s].pc = "rotate" => requests[s].row \in Rows
      BY Held DEF Works
    <3> QED
      BY <1>4, <3>1, <3>2 DEF RotatesFor
  <2>2. ASSUME NEW f \in Rows
        PROVE  RotatesFor(rows', requests', r, f) <=> f = g
    BY <1>1, <1>2, <1>4, <1>5 DEF RotatesFor
  <2> QED
    BY <2>1, <2>2
<1>8. \A i \in Rows, f \in Rows : AliveFor(rows', i, f) <=> i # k /\ AliveFor(rows, i, f)
  BY <1>1, <1>3, <1>4 DEF AliveFor
<1>9. ASSUME NEW f \in Rows \ {g} PROVE PhaseOf(f)' = PhaseOf(f)
  <2>1. ~AliveFor(rows, k, f) /\ ~RotatesFor(rows, requests, r, f)
    BY <1>1, <1>5, <1>9 DEF AliveFor, RotatesFor
  <2> QED
    BY <1>2, <1>4, <1>7, <1>8, <1>9, <2>1, PhaseStays
<1>10. CASE g \in contested
  <2>1. PhaseOf(g)' = PhaseOf(g)
    BY <1>2, <1>4, <1>5, <1>10 DEF PhaseOf, Phase
  <2> QED
    BY <1>2, <1>9, <2>1, NoneMoves
<1>11. CASE g \notin contested
  <2>1. \A s \in Requests : ~RotatesFor(rows, requests, s, g)
    BY <1>1, <1>6, <1>11 DEF Chains, Single
  <2>2. PhaseOf(g) = "open"
    BY <1>1, <1>5, <1>6, <1>11, <2>1 DEF PhaseOf, Phase
  <2>3. PhaseOf(g)' = "spent"
    BY <1>2, <1>4, <1>5, <1>7, <1>11 DEF PhaseOf, Phase
  <2> QED
    BY <1>2, <1>9, <2>2, <2>3, OneGoesOn DEF Life!Moves
<1> QED
  BY <1>10, <1>11

LEMMA LifeRotate ==
  ASSUME TypeOK, Chains, Heads, NEW r \in Requests, RotateToken(r)
  PROVE  [Life!Next]_<<SessionOf, broken>>
<1> DEFINE n == issued + 1
<1>1. /\ requests[r].row \in Rows /\ rows[requests[r].row].state = "stored"
      /\ requests[r].pc = "rotate"
  BY Held DEF RotateToken, Works
<1>2. PICK g \in Rows : /\ g = rows[requests[r].row].login /\ ~(g > issued)
                        /\ rows[g].login = g
  BY <1>1, Owner
<1>3. /\ GenerateTokens(g) /\ contested' = contested /\ broken' = broken /\ Become(r, Idle)
  BY <1>2 DEF RotateToken
<1>4. /\ issued \in Nat /\ n \in Rows /\ Rows \subseteq Nat
      /\ g <= n /\ g # n
  BY <1>2, <1>3, Numbers DEF GenerateTokens, Rows
<1>5. /\ issued' = n
      /\ \A i \in Rows : i # n => rows'[i] = rows[i]
      /\ rows'[n].login = g
      /\ \A i \in Rows, f \in Rows :
           AliveFor(rows', i, f) <=> (i = n /\ f = g) \/ (i # n /\ AliveFor(rows, i, f))
      /\ \A s \in Requests, f \in Rows :
           RotatesFor(rows', requests, s, f) <=> RotatesFor(rows, requests, s, f)
  BY <1>2, <1>3, <1>4, Generated
<1>6. /\ \A s \in Requests : s # r => requests'[s] = requests[s]
      /\ requests'[r].pc = "idle"
  BY <1>3, Leaves
<1>7. \A s \in Requests, f \in Rows :
         RotatesFor(rows', requests', s, f) <=> s # r /\ RotatesFor(rows, requests, s, f)
  <2>1. ASSUME NEW s \in Requests, NEW f \in Rows, s # r
        PROVE  RotatesFor(rows', requests', s, f) <=> RotatesFor(rows', requests, s, f)
    BY <1>6, <2>1 DEF RotatesFor
  <2>2. \A f \in Rows : ~RotatesFor(rows', requests', r, f)
    BY <1>6 DEF RotatesFor
  <2> QED
    BY <1>5, <2>1, <2>2
<1>8. RotatesFor(rows, requests, r, g)
  BY <1>1, <1>2 DEF RotatesFor
<1>9. /\ rows[n].login = n /\ \A f \in Rows : ~AliveFor(rows, n, f)
  BY <1>4, Fresh DEF AliveFor
<1>10. ASSUME NEW f \in Rows \ {g} PROVE PhaseOf(f)' = PhaseOf(f)
  <2>1. CASE f = n
    <3>1. n > issued /\ rows'[n].login # n
      BY <1>4, <1>5
    <3> QED
      BY <1>5, <2>1, <3>1 DEF PhaseOf, Phase
  <2>2. CASE f # n
    <3>1. f > issued' <=> f > issued
      BY <1>4, <1>5, <2>2
    <3>2. /\ \A i \in Rows : AliveFor(rows', i, f) <=> AliveFor(rows, i, f)
          /\ ~RotatesFor(rows, requests, r, f)
      BY <1>2, <1>5, <1>9, <1>10 DEF RotatesFor
    <3> QED
      BY <1>3, <1>5, <1>7, <2>2, <3>1, <3>2, PhaseStays
  <2> QED
    BY <2>1, <2>2
<1>11. rows'[g].login = g /\ ~(g > issued')
  BY <1>2, <1>4, <1>5
<1> HIDE DEF n
<1>12. CASE g \in contested
  <2>1. PhaseOf(g)' = PhaseOf(g)
    BY <1>2, <1>3, <1>11, <1>12 DEF PhaseOf, Phase
  <2> QED
    BY <1>3, <1>10, <2>1, NoneMoves
<1>13. CASE g \notin contested
  <2>1. \A s \in Requests : ~RotatesFor(rows', requests', s, g)
    BY <1>7, <1>8, <1>13 DEF Chains, Single
  <2>2. PhaseOf(g) = "spent"
    BY <1>2, <1>8, <1>13 DEF PhaseOf, Phase
  <2>3. PhaseOf(g)' = "open"
    BY <1>3, <1>4, <1>5, <1>11, <1>13, <2>1 DEF PhaseOf, Phase
  <2> QED
    BY <1>3, <1>10, <2>2, <2>3, OneGoesOn DEF Life!Moves
<1> QED
  BY <1>12, <1>13

LEMMA LifeFail ==
  ASSUME TypeOK, Chains, Heads, NEW r \in Requests, FailRefresh(r)
  PROVE  Life!Next
<1> DEFINE k == requests[r].row
<1>1. /\ k \in Rows /\ rows[k].state = "stored" /\ requests[r].pc \in {"revoke", "rotate"}
  BY Held DEF FailRefresh, Works
<1>2. PICK g \in Rows : g = rows[k].login /\ ~(g > issued) /\ rows[g].login = g
  BY <1>1, Owner
<1>3. /\ rows' = rows /\ issued' = issued /\ contested' = contested
      /\ broken' = broken \union {g}
  BY <1>2 DEF FailRefresh
<1>4. /\ \A s \in Requests : s # r => requests'[s] = requests[s]
      /\ requests'[r].pc = "idle"
  BY Leaves DEF FailRefresh
<1>5. \A s \in Requests, f \in Rows :
        RotatesFor(rows, requests', s, f) <=> s # r /\ RotatesFor(rows, requests, s, f)
  <2>1. ASSUME NEW s \in Requests, NEW f \in Rows, s # r
        PROVE  RotatesFor(rows, requests', s, f) <=> RotatesFor(rows, requests, s, f)
    BY <1>4, <2>1 DEF RotatesFor
  <2>2. \A f \in Rows : ~RotatesFor(rows, requests', r, f)
    BY <1>4 DEF RotatesFor
  <2> QED
    BY <2>1, <2>2
<1>6. ASSUME NEW f \in Rows \ {g} PROVE PhaseOf(f)' = PhaseOf(f)
  <2>1. ~RotatesFor(rows, requests, r, f)
    BY <1>2, <1>6 DEF RotatesFor
  <2> QED
    BY <1>3, <1>5, <2>1, PhaseStays
<1>7. CASE g \in contested
  <2>1. PhaseOf(g) = "shared" /\ PhaseOf(g)' = "shared"
    BY <1>2, <1>3, <1>7 DEF PhaseOf, Phase
  <2> QED
    BY <1>3, <1>6, <2>1, OneFails
<1>8. CASE g \notin contested /\ requests[r].pc = "revoke"
  <2>1. ~rows[k].revoked
    BY <1>1, <1>2, <1>8 DEF Chains, Alone, Works
  <2>2. AliveFor(rows, k, g) /\ ~RotatesFor(rows, requests, r, g)
    BY <1>1, <1>2, <1>8, <2>1 DEF AliveFor, RotatesFor
  <2>3. \A s \in Requests : ~RotatesFor(rows, requests, s, g)
    BY <1>1, <1>8, <2>2 DEF Chains, Single
  <2>4. PhaseOf(g) = "open" /\ PhaseOf(g)' = "open"
    BY <1>1, <1>2, <1>3, <1>5, <1>8, <2>2, <2>3 DEF PhaseOf, Phase
  <2> QED
    BY <1>3, <1>6, <2>4, OneFails
<1>9. CASE g \notin contested /\ requests[r].pc = "rotate"
  <2>1. RotatesFor(rows, requests, r, g)
    BY <1>2, <1>9 DEF RotatesFor
  <2>2. Single(rows, requests, g)
    BY <1>9 DEF Chains
  <2>3. /\ \A s \in Requests : ~RotatesFor(rows, requests', s, g)
        /\ \A i \in Rows : ~AliveFor(rows, i, g)
    BY <1>5, <2>1, <2>2 DEF Single
  <2>4. PhaseOf(g) = "spent" /\ PhaseOf(g)' = "over"
    BY <1>2, <1>3, <1>9, <2>1, <2>3 DEF PhaseOf, Phase
  <2> QED
    BY <1>3, <1>6, <2>4, OneFails
<1> QED
  BY <1>1, <1>7, <1>8, <1>9

\* What is no login and no refresh: the clock, the access tokens, the blacklist.
LEMMA LifeQuiet ==
  ASSUME TypeOK, Chains,
         \/ Tick \/ UNCHANGED vars
         \/ \E t \in Tokens : ExpireBlacklist(t) \/ LoseBlacklist(t)
         \/ \E r \in Requests : Access(r)
  PROVE  UNCHANGED <<SessionOf, broken>>
<1>1. UNCHANGED sessions
  BY DEF Tick, ExpireBlacklist, LoseBlacklist, Access, CheckBlacklist, VerifyToken,
     MeasureToken, BlacklistToken, FailAccess, sessions, vars
<1>2. \A s \in Requests : requests'[s].pc = "rotate" \/ requests[s].pc = "rotate"
                            => requests'[s] = requests[s]
  <2>1. ASSUME NEW r \in Requests, Access(r), NEW s \in Requests,
               requests'[s].pc = "rotate" \/ requests[s].pc = "rotate"
        PROVE  requests'[s] = requests[s]
    <3>1. ASSUME NEW m, Become(r, m)
          PROVE  requests'[r] = m /\ \A q \in Requests : q # r => requests'[q] = requests[q]
      BY <3>1 DEF TypeOK, Become
    <3>2. requests[r].pc # "rotate" /\ requests'[r].pc # "rotate"
      <4>1. CASE \E t \in Presented, leave \in BOOLEAN : CheckBlacklist(r, t, leave)
        BY <3>1, <4>1, Labels DEF CheckBlacklist
      <4>2. CASE VerifyToken(r)
        BY <3>1, <4>2, Labels DEF VerifyToken
      <4>3. CASE MeasureToken(r)
        BY <3>1, <4>3, Labels DEF MeasureToken
      <4>4. CASE BlacklistToken(r) \/ FailAccess(r)
        BY <3>1, <4>4, Labels DEF BlacklistToken, FailAccess
      <4> QED
        BY <2>1, <4>1, <4>2, <4>3, <4>4 DEF Access
    <3>3. \E m : Become(r, m)
      BY <2>1 DEF Access, CheckBlacklist, VerifyToken, MeasureToken, BlacklistToken,
         FailAccess
    <3> QED
      BY <2>1, <3>1, <3>2, <3>3
  <2>2. CASE requests' = requests
    BY <2>2
  <2>3. requests' = requests \/ \E r \in Requests : Access(r)
    BY DEF Tick, ExpireBlacklist, LoseBlacklist, vars
  <2> QED
    BY <2>1, <2>2, <2>3
<1>3. rows' = rows /\ issued' = issued /\ contested' = contested /\ broken' = broken
  BY <1>1 DEF sessions
<1>4. \A s \in Requests, f \in Rows :
        RotatesFor(rows, requests', s, f) <=> RotatesFor(rows, requests, s, f)
  BY <1>2 DEF RotatesFor
<1>5. \A f \in Rows : PhaseOf(f)' = PhaseOf(f)
  BY <1>3, <1>4, PhaseStays
<1> QED
  BY <1>3, <1>5, NoneMoves

LEMMA LifeAsk ==
  ASSUME TypeOK, Chains, NEW r \in Requests, Asks(r)
  PROVE  [Life!Next]_<<SessionOf, broken>>
<1>1. rows' = rows /\ issued' = issued /\ contested' = contested /\ broken' = broken
  BY Asked DEF sessions
<1>2. \A s \in Requests, f \in Rows :
        RotatesFor(rows, requests', s, f) <=> RotatesFor(rows, requests, s, f)
  <2>1. \A f \in Rows : /\ ~RotatesFor(rows, requests', r, f)
                        /\ ~RotatesFor(rows, requests, r, f)
    BY Asked DEF RotatesFor
  <2>2. ASSUME NEW s \in Requests, NEW f \in Rows, s # r
        PROVE  RotatesFor(rows, requests', s, f) <=> RotatesFor(rows, requests, s, f)
    BY <2>2, Asked DEF RotatesFor
  <2> QED
    BY <2>1, <2>2
<1>3. \A f \in Rows : PhaseOf(f)' = PhaseOf(f)
  BY <1>1, <1>2, PhaseStays
<1> QED
  BY <1>1, <1>3, NoneMoves

LEMMA LifeStep == Inv /\ Heads /\ [Next]_vars => [Life!Next]_<<SessionOf, broken>>
<1> SUFFICES ASSUME Inv, Heads, [Next]_vars PROVE [Life!Next]_<<SessionOf, broken>>
  OBVIOUS
<1>0. TypeOK /\ Chains
  BY DEF Inv, Typed
<1>1. CASE \/ Tick \/ UNCHANGED vars
           \/ \E t \in Tokens : ExpireBlacklist(t) \/ LoseBlacklist(t)
           \/ \E r \in Requests : Access(r)
  BY <1>0, <1>1, LifeQuiet
<1>2. CASE LogIn
  BY <1>0, <1>2, LifeLogIn
<1>3. CASE \E i \in Rows : PersistRefreshToken(i) \/ LoseRefreshToken(i)
  BY <1>0, <1>3, LifeStored
<1>4. ASSUME NEW r \in Requests, Refresh(r) PROVE [Life!Next]_<<SessionOf, broken>>
  BY <1>0, <1>4, LifeAsk, LifeFind, LifeRevoke, LifeRotate, LifeFail DEF Refresh, Asks
<1> QED
  BY <1>1, <1>2, <1>3, <1>4 DEF Next

LEMMA LifeInit == Init => Life!Init /\ Heads
<1> SUFFICES ASSUME Init PROVE Life!Init /\ Heads
  OBVIOUS
<1>1. \A f \in Rows : f > issued
  BY Numbers DEF Init, Rows
<1>2. SessionOf = [f \in Rows |-> "none"]
  BY <1>1 DEF SessionOf
<1> QED
  BY <1>2 DEF Init, Life!Init, Heads

\* The rows and refreshes of a login implement SessionLife, for any number of
\* logins, requests and lives: whatever happens to tokens that are equal, a
\* session ends only by a failure of its own, and never comes back.
THEOREM SessionLifeImplemented == Spec => ImplementsSessionLife
<1>1. Inv /\ Heads /\ [Next]_vars => Heads'
  BY HeadsNext DEF Inv, Typed
<1>2. [Life!Next]_<<SessionOf, broken>> <=> [Life!Next]_(Life!lifeVars)
  BY DEF Life!lifeVars
<1> QED
  BY InvHolds, LifeInit, LifeStep, <1>1, <1>2, PTL DEF Spec, ImplementsSessionLife, Life!Spec

=============================================================================

-------------------------------- MODULE Sessions --------------------------------
(***************************************************************************)
(* The sessions of one user: the refresh tokens AuthService issues, stores *)
(* and rotates, the access tokens JwtAuthGuard admits, and the blacklist   *)
(* logout keeps in Redis.                                                  *)
(*                                                                         *)
(* A JWT holds the user and whole seconds, so the tokens signed for a user *)
(* within one second are equal: a token is the second it was signed in.    *)
(* The clock of the processes and of Redis is one clock.                   *)
(*                                                                         *)
(* A definition whose comment begins with "Mistake" is no part of the      *)
(* model: it is a plausible bug that the properties are tried against.     *)
(***************************************************************************)
EXTENDS Naturals

CONSTANTS
  Requests,    \* requests in flight at a time
  AccessLife,  \* seconds an access token is valid
  RefreshLife, \* seconds a refresh token is valid
  Parts,       \* instants the model tells apart within a second
  MaxSecond,   \* bound: the clock stops here
  MaxLogins,   \* bound: refresh tokens after these come from refreshes only
  MaxRows,     \* bound: refresh tokens issued in one behaviour
  Presented,   \* bound: the access tokens that are presented to a guard
  None

ASSUME LifeAssumption ==
  AccessLife \in Nat \ {0} /\ RefreshLife \in Nat \ {0}
ASSUME ClockAssumption == Parts \in Nat \ {0} /\ MaxSecond \in Nat
ASSUME RowAssumption == MaxLogins \in Nat /\ MaxRows \in Nat

Tokens == 0 .. MaxSecond
ASSUME PresentedAssumption == Presented \subseteq Tokens
Rows == 1 .. MaxRows
Instants == [second : 0 .. MaxSecond + AccessLife, part : 0 .. Parts - 1]
ASSUME NoneIsNoInstant == None \notin Instants

VARIABLES
  now,        \* the clock
  rows,       \* refresh_tokens
  issued,     \* rows made so far
  blacklist,  \* the instant bl_<token> expires, or None
  requests,
  contested,  \* history: logins one of whose rows two refreshes read at a time
  broken,     \* history: logins whose refresh or INSERT failed
  loggedOut,  \* history: tokens blacklisted
  evicted,    \* history: blacklisted tokens Redis forgot
  trespassed  \* history: tokens admitted by a guard that began after that

vars == <<now, rows, issued, blacklist, requests, contested, broken, loggedOut,
          evicted, trespassed>>
sessions == <<rows, issued, contested, broken>>
access == <<blacklist, loggedOut, evicted, trespassed>>

-----------------------------------------------------------------------------
\* login is the row a chain of refreshes began with.
Row == [state : {"unused", "pending", "stored", "lost"}, token : Tokens,
        login : Rows, revoked : BOOLEAN]

Idle == [pc |-> "idle"]
Finding(t) == [pc |-> "find", token |-> t]
Refreshing(pc, i) == [pc |-> pc, row |-> i]
Checking(t, leave, late) ==
  [pc |-> "verify", token |-> t, leave |-> leave, late |-> late]
Measuring(t) == [pc |-> "measure", token |-> t]
Blacklisting(t, ttl) == [pc |-> "set", token |-> t, ttl |-> ttl]

Become(r, request) == requests' = [requests EXCEPT ![r] = request]

Init ==
  /\ now = [second |-> 0, part |-> 0]
  /\ rows = [i \in Rows |-> [state |-> "unused", token |-> 0, login |-> i,
                             revoked |-> FALSE]]
  /\ issued = 0
  /\ blacklist = [t \in Tokens |-> None]
  /\ requests = [r \in Requests |-> Idle]
  /\ contested = {} /\ broken = {}
  /\ loggedOut = {} /\ evicted = {} /\ trespassed = {}

Reached(t) == \/ t.second < now.second
              \/ t.second = now.second /\ t.part <= now.part

Tick ==
  /\ \/ now.part + 1 < Parts /\ now' = [now EXCEPT !.part = now.part + 1]
     \/ /\ now.part + 1 = Parts /\ now.second < MaxSecond
        /\ now' = [second |-> now.second + 1, part |-> 0]
  /\ UNCHANGED <<requests, sessions, access>>

-----------------------------------------------------------------------------
(* Refresh tokens.                                                         *)

\* The pair is signed and handed out before the refresh token is stored.
GenerateTokens(login) ==
  /\ issued < MaxRows
  /\ issued' = issued + 1
  /\ rows' = [rows EXCEPT ![issued + 1] =
                [state |-> "pending", token |-> now.second, login |-> login,
                 revoked |-> FALSE]]

LogIn ==
  /\ issued < MaxLogins
  /\ GenerateTokens(issued + 1)
  /\ UNCHANGED <<now, requests, contested, broken, access>>

PersistRefreshToken(i) ==
  /\ rows[i].state = "pending"
  /\ rows' = [rows EXCEPT ![i].state = "stored"]
  /\ UNCHANGED <<now, issued, requests, contested, broken, access>>

\* The INSERT fails, which is logged, or the process ends before it.
LoseRefreshToken(i) ==
  /\ rows[i].state = "pending"
  /\ rows' = [rows EXCEPT ![i].state = "lost"]
  /\ broken' = broken \union {rows[i].login}
  /\ UNCHANGED <<now, issued, requests, contested, access>>

Signed(t) == \E i \in Rows : i <= issued /\ rows[i].token = t

\* Mistake: revoked rows are found as well.
StoredRow(i) == rows[i].state = "stored"

\* token_hash is not unique: findOne may return any row with it.
Usable(i) == rows[i].state = "stored" /\ ~rows[i].revoked

\* The JWT's end is looked at before the SELECT, not after it.
VerifyRefreshToken(r, t) ==
  /\ requests[r].pc = "idle"
  /\ Signed(t) /\ now.second < t + RefreshLife
  /\ Become(r, Finding(t))
  /\ UNCHANGED <<now, sessions, access>>

\* No row is found, it has expired by now (its expires_at is a little later than
\* the JWT's end), the SELECT fails or the process ends.
RefuseRefresh(r) ==
  /\ requests[r].pc = "find"
  /\ Become(r, Idle)
  /\ UNCHANGED <<now, sessions, access>>

FindRefreshToken(r, i) ==
  /\ requests[r].pc = "find" /\ requests[r].token = rows[i].token
  /\ Usable(i)
  /\ Become(r, Refreshing("revoke", i))
  /\ contested' = IF \E s \in Requests : requests[s] = Refreshing("revoke", i)
                  THEN contested \union {rows[i].login}
                  ELSE contested
  /\ UNCHANGED <<now, rows, issued, broken, access>>

\* Mistake: the rows of the token are updated, not the row that was read.
SameToken(i) == {j \in Rows : /\ rows[j].state = "stored"
                              /\ rows[j].token = rows[i].token}

\* save() of an entity that has its id
SavedRows(i) == {i}

RevokeToken(r) ==
  LET i == requests[r].row IN
  /\ requests[r].pc = "revoke"
  /\ rows' = [j \in Rows |-> IF j \in SavedRows(i)
                             THEN [rows[j] EXCEPT !.revoked = TRUE] ELSE rows[j]]
  /\ Become(r, Refreshing("rotate", i))
  /\ UNCHANGED <<now, issued, contested, broken, access>>

RotateToken(r) ==
  /\ requests[r].pc = "rotate"
  /\ GenerateTokens(rows[requests[r].row].login)
  /\ Become(r, Idle)
  /\ UNCHANGED <<now, contested, broken, access>>

\* A statement failed, before or after it took effect, the user is not active
\* any more, or the process ended.
FailRefresh(r) ==
  /\ requests[r].pc \in {"revoke", "rotate"}
  /\ broken' = broken \union {rows[requests[r].row].login}
  /\ Become(r, Idle)
  /\ UNCHANGED <<now, rows, issued, contested, access>>

-----------------------------------------------------------------------------
(* Access tokens.                                                          *)

\* The guard of a route; leave: the route is logout.  When Redis fails, so
\* does the request.
CheckBlacklist(r, t, leave) ==
  /\ requests[r].pc = "idle"
  /\ Signed(t)
  /\ blacklist[t] = None
  /\ Become(r, Checking(t, leave, t \in loggedOut))
  /\ UNCHANGED <<now, sessions, access>>

VerifyToken(r) ==
  LET m == requests[r] IN
  /\ m.pc = "verify"
  /\ IF now.second < m.token + AccessLife
     THEN /\ trespassed' = IF m.late THEN trespassed \union {m.token}
                           ELSE trespassed
          /\ Become(r, IF m.leave THEN Measuring(m.token) ELSE Idle)
     ELSE trespassed' = trespassed /\ Become(r, Idle)
  /\ UNCHANGED <<now, sessions, blacklist, loggedOut, evicted>>

\* Mistake: the current second is rounded up.
RoundedUp(t) == IF now.part = 0 THEN t + AccessLife - now.second
                ELSE (t + AccessLife) - (now.second + 1)

\* The rest of the token's life in seconds; negative is not distinguished from 0.
RemainingTime(t) ==
  IF now.second < t + AccessLife THEN (t + AccessLife) - now.second ELSE 0

\* Mistake: a token that has expired is blacklisted too.
MeasureAnyway(r) ==
  /\ requests[r].pc = "measure"
  /\ Become(r, Blacklisting(requests[r].token, RemainingTime(requests[r].token)))
  /\ UNCHANGED <<now, sessions, access>>

\* A header whose scheme is not spelled "Bearer " passed the guard, but is not
\* a token to logout: that answers, and nothing is blacklisted.
MeasureToken(r) ==
  LET t == requests[r].token
      ttl == RemainingTime(t)
  IN
  /\ requests[r].pc = "measure"
  /\ \/ Become(r, IF ttl > 0 THEN Blacklisting(t, ttl) ELSE Idle)
     \/ Become(r, Idle)
  /\ UNCHANGED <<now, sessions, access>>

BlacklistToken(r) ==
  LET m == requests[r] IN
  /\ m.pc = "set"
  /\ blacklist' = [blacklist EXCEPT ![m.token] =
                     [second |-> now.second + m.ttl, part |-> now.part]]
  /\ loggedOut' = loggedOut \union {m.token}
  /\ Become(r, Idle)
  /\ UNCHANGED <<now, sessions, evicted, trespassed>>

\* logout answers the same when Redis fails.
FailAccess(r) ==
  /\ requests[r].pc \in {"verify", "measure", "set"}
  /\ Become(r, Idle)
  /\ UNCHANGED <<now, sessions, access>>

ExpireBlacklist(t) ==
  /\ blacklist[t] # None /\ Reached(blacklist[t])
  /\ blacklist' = [blacklist EXCEPT ![t] = None]
  /\ UNCHANGED <<now, requests, sessions, loggedOut, evicted, trespassed>>

\* Redis restarts empty or evicts the key.
LoseBlacklist(t) ==
  /\ blacklist[t] # None
  /\ blacklist' = [blacklist EXCEPT ![t] = None]
  /\ evicted' = evicted \union {t}
  /\ UNCHANGED <<now, requests, sessions, loggedOut, trespassed>>

-----------------------------------------------------------------------------
Refresh(r) == \/ \E t \in Tokens : VerifyRefreshToken(r, t)
              \/ \E i \in Rows : FindRefreshToken(r, i)
              \/ RefuseRefresh(r) \/ RevokeToken(r) \/ RotateToken(r) \/ FailRefresh(r)
Access(r) == \/ \E t \in Presented, leave \in BOOLEAN : CheckBlacklist(r, t, leave)
             \/ VerifyToken(r) \/ MeasureToken(r) \/ BlacklistToken(r)
             \/ FailAccess(r)

Next == \/ Tick \/ LogIn
        \/ \E i \in Rows : PersistRefreshToken(i) \/ LoseRefreshToken(i)
        \/ \E r \in Requests : Refresh(r) \/ Access(r)
        \/ \E t \in Tokens : ExpireBlacklist(t) \/ LoseBlacklist(t)

Spec == Init /\ [][Next]_vars

-----------------------------------------------------------------------------
FindStates == [pc : {"find"}, token : Tokens]
RefreshStates == [pc : {"revoke", "rotate"}, row : Rows]
CheckStates == [pc : {"verify"}, token : Tokens, leave : BOOLEAN, late : BOOLEAN]
MeasureStates == [pc : {"measure"}, token : Tokens]
SetStates == [pc : {"set"}, token : Tokens, ttl : 1 .. AccessLife]
RequestStates == {Idle} \union FindStates \union RefreshStates \union CheckStates
                 \union MeasureStates \union SetStates

\* Every variable has the shape the code gives it; Redis is never given a time
\* to live it would refuse, nor one longer than the token's.
TypeOK ==
  /\ now \in [second : 0 .. MaxSecond, part : 0 .. Parts - 1]
  /\ rows \in [Rows -> Row]
  /\ issued \in 0 .. MaxRows
  /\ blacklist \in [Tokens -> Instants \union {None}]
  /\ requests \in [Requests -> RequestStates]
  /\ contested \subseteq Rows /\ broken \subseteq Rows
  /\ loggedOut \subseteq Tokens /\ evicted \subseteq Tokens
  /\ trespassed \subseteq Tokens

\* What can still be rotated, and the rotations under way, of a login
Live(f) == {i \in Rows : /\ rows[i].login = f /\ rows[i].state \in {"pending", "stored"}
                         /\ ~rows[i].revoked}
Rotating(f) == {r \in Requests : /\ requests[r].pc = "rotate"
                                 /\ rows[requests[r].row].login = f}

\* A login has one refresh token, on its way to being stored, stored, or being
\* rotated, unless two refreshes read one of its rows before either revoked it.
OneSession ==
  \A f \in Rows \ contested :
    /\ \A i, j \in Live(f) : i = j
    /\ \A r, s \in Rotating(f) : r = s
    /\ Rotating(f) # {} => Live(f) = {}

\* And it has one as long as none of its refreshes and INSERTs fails, whatever
\* other logins, those with the same token too, do.
SessionKept ==
  \A f \in Rows \ (contested \union broken) :
    f <= issued /\ rows[f].login = f => Live(f) # {} \/ Rotating(f) # {}

\* The rows and the refreshes of a login, as its user sees them, implement
\* SessionLife: a session that is over stays over, and only a failure of its own
\* ends it, whatever refreshes and logins with an equal token are under way.
SessionOf == [f \in Rows |->
  IF f > issued \/ rows[f].login # f THEN "none"
  ELSE IF f \in contested THEN "shared"
  ELSE IF Rotating(f) # {} THEN "spent"
  ELSE IF Live(f) # {} THEN "open" ELSE "over"]
Life == INSTANCE SessionLife WITH
  Logins <- Rows, session <- SessionOf, failed <- broken

ImplementsSessionLife == Life!Spec

\* A request that starts after the token was blacklisted is not let in, unless
\* Redis lost the key: it outlives the token.
LoggedOutIsRefused == trespassed \subseteq evicted

-----------------------------------------------------------------------------
(* The inductive invariant.                                                *)

RowsIssued == \A i \in Rows :
  /\ i > issued => rows[i].state = "unused" /\ rows[i].login = i /\ i \notin contested
  /\ i <= issued => rows[i].login <= i /\ rows[i].state # "unused"
  /\ rows[i].revoked => rows[i].state = "stored"

\* A refresh of a login that is not contested works on a row nobody else does.
RowsHeld == \A r \in Requests :
  requests[r].pc \in {"revoke", "rotate"} =>
    LET i == requests[r].row IN
    /\ i <= issued /\ rows[i].state = "stored"
    /\ requests[r].pc = "rotate" => rows[i].revoked
    /\ rows[i].login \notin contested =>
         /\ requests[r].pc = "revoke" => ~rows[i].revoked
         /\ \A s \in Requests \ {r} :
              requests[s].pc \in {"revoke", "rotate"} => requests[s].row # i

\* A key, and a SET under way, outlive the token.
Outlives == /\ \A t \in Tokens : /\ blacklist[t] # None =>
                                      blacklist[t].second >= t + AccessLife
                                 /\ t \in loggedOut \ evicted =>
                                      \/ blacklist[t] # None
                                      \/ now.second >= t + AccessLife
            /\ \A r \in Requests : requests[r].pc = "set" =>
                 now.second + requests[r].ttl >= requests[r].token + AccessLife

\* A guard that began after the logout has a lost key to blame or a token that
\* is over.
LateIsOver == \A r \in Requests :
  requests[r].pc = "verify" /\ requests[r].late =>
    \/ requests[r].token \in evicted
    \/ now.second >= requests[r].token + AccessLife

\* No token was signed after now.
SignedBefore ==
  /\ \A i \in Rows : rows[i].token <= now.second
  /\ \A r \in Requests : requests[r].pc \in {"verify", "measure", "set"} =>
                           requests[r].token <= now.second

IInv == TypeOK /\ SignedBefore /\ RowsIssued /\ RowsHeld /\ OneSession /\ SessionKept
        /\ Outlives /\ LateIsOver /\ LoggedOutIsRefused

=============================================================================

------------------------------- MODULE UserCaches -------------------------------
(***************************************************************************)
(* What Redis keeps of one user: the pages of the dashboard, stored under  *)
(* a version that every create and delete increments, and the profile with *)
(* its totals, which they delete.  Both commands are sent after the commit *)
(* and not waited for.  A click or a verdict changes what both show as     *)
(* well and sends nothing: it is a write whose commands are lost.          *)
(*                                                                         *)
(* A copy is the number of writes it shows in all its parts: those that    *)
(* were committed when the first SELECT it was computed from ran.  What    *)
(* later SELECTs of the same request show beyond them is left out, and no  *)
(* property speaks of it.  The model follows one page, sort order and      *)
(* status filter; the others have keys of their own, and a search or a     *)
(* page after the fifth is not cached.                                     *)
(*                                                                         *)
(* A definition whose comment begins with "Mistake" is no part of the      *)
(* model: it is a plausible bug that the properties are tried against.     *)
(***************************************************************************)
EXTENDS Naturals, FiniteSets

CONSTANTS
  Requests,   \* dashboard and profile requests in flight
  MaxWrites,  \* bound: changes of what the caches show
  None

ASSUME BoundAssumption == MaxWrites \in Nat \ {0}

VARIABLES
  writes,     \* writes committed so far
  version,    \* dashboard:ver:<user>; 0 when there is no such key
  pages,      \* the page stored under each version
  profile,    \* profile:<user>
  incrs,      \* writes whose INCR was sent or will be
  dels,       \* writes whose DEL of the profile was sent or will be
  requests,
  busted,     \* history: the write whose INCR made this version; 0 for none
  forgotten,  \* history: the version's key was lost or expired
  lost        \* history: writes whose DEL never arrived

vars == <<writes, version, pages, profile, incrs, dels, requests, busted,
          forgotten, lost>>
history == <<busted, forgotten, lost>>

-----------------------------------------------------------------------------
Writes == 1 .. MaxWrites
Versions == 1 .. MaxWrites
Copy == 0 .. MaxWrites
\* missed: writes whose DEL was applied after the copy was read
Profile == [copy : Copy, missed : SUBSET Writes]
ASSUME NoneIsNoCopy == None \notin Copy \union Profile

Idle == [pc |-> "idle"]
Paging(v) == [pc |-> "page", version |-> v]
StoringPage(v, copy) == [pc |-> "storePage", version |-> v, copy |-> copy]
Aggregating == [pc |-> "profile"]
StoringProfile(copy, missed) ==
  [pc |-> "storeProfile", copy |-> copy, missed |-> missed]

Become(r, request) == requests' = [requests EXCEPT ![r] = request]

Init ==
  /\ writes = 0
  /\ version = 0
  /\ pages = [v \in Versions |-> None]
  /\ profile = None
  /\ incrs = {} /\ dels = {}
  /\ requests = [r \in Requests |-> Idle]
  /\ busted = [v \in Versions |-> 0]
  /\ forgotten = FALSE /\ lost = {}

-----------------------------------------------------------------------------
(* Changes.                                                                *)

\* Mistake: the profile is left to its time to live.
CommitUnannounced ==
  /\ writes < MaxWrites
  /\ writes' = writes + 1
  /\ incrs' = incrs \union {writes'}
  /\ UNCHANGED <<version, pages, profile, dels, requests, history>>

CommitWrite ==
  /\ writes < MaxWrites
  /\ writes' = writes + 1
  /\ incrs' = incrs \union {writes'}
  /\ dels' = dels \union {writes'}
  /\ UNCHANGED <<version, pages, profile, requests, history>>

\* INCR, and EXPIRE when it made the key: the key ends after thirty days.
BustDashboardCache(w) ==
  /\ w \in incrs
  /\ version' = version + 1
  /\ busted' = [busted EXCEPT ![version + 1] = w]
  /\ incrs' = incrs \ {w}
  /\ UNCHANGED <<writes, pages, profile, dels, requests, forgotten, lost>>

\* The command fails, or the process ends, or deleteUrl failed between the
\* commit and here; a click or a verdict sends none.
LoseBust(w) ==
  /\ w \in incrs
  /\ incrs' = incrs \ {w}
  /\ UNCHANGED <<writes, version, pages, profile, dels, requests, history>>

BustProfile(w) ==
  /\ w \in dels
  /\ profile' = None
  /\ dels' = dels \ {w}
  /\ requests' = [r \in Requests |->
       IF requests[r].pc = "storeProfile"
       THEN [requests[r] EXCEPT !.missed = requests[r].missed \union {w}]
       ELSE requests[r]]
  /\ UNCHANGED <<writes, version, pages, incrs, history>>

LoseProfileBust(w) ==
  /\ w \in dels
  /\ dels' = dels \ {w}
  /\ lost' = lost \union {w}
  /\ UNCHANGED <<writes, version, pages, profile, incrs, requests, busted,
                 forgotten>>

\* The key of the version expires or is evicted.
ForgetVersion ==
  /\ version > 0
  /\ version' = 0 /\ forgotten' = TRUE
  /\ UNCHANGED <<writes, pages, profile, incrs, dels, requests, busted, lost>>

-----------------------------------------------------------------------------
(* getDashboard.                                                           *)

\* Mistake: a missing version is not read as the first one.
RawVersion == version

CacheVersion == IF version = 0 THEN 1 ELSE version

\* A version that cannot be read is taken for the first one.
ReadVersion(r) ==
  /\ requests[r].pc = "idle"
  /\ \E v \in {CacheVersion, 1} : Become(r, Paging(v))
  /\ UNCHANGED <<writes, version, pages, profile, incrs, dels, history>>

ServePage(r) ==
  /\ requests[r].pc = "page" /\ pages[requests[r].version] # None
  /\ Become(r, Idle)
  /\ UNCHANGED <<writes, version, pages, profile, incrs, dels, history>>

\* The page is missing or cannot be read.  This is the first SELECT of
\* getManyAndCount; the others run before StorePage.
QueryPage(r) ==
  /\ requests[r].pc = "page"
  /\ Become(r, StoringPage(requests[r].version, writes))
  /\ UNCHANGED <<writes, version, pages, profile, incrs, dels, history>>

\* Mistake: the version is read when the page is stored.
StoreUnderCurrent(r) ==
  /\ requests[r].pc = "storePage"
  /\ pages' = [pages EXCEPT ![CacheVersion] = requests[r].copy]
  /\ Become(r, Idle)
  /\ UNCHANGED <<writes, version, profile, incrs, dels, history>>

StorePage(r) ==
  /\ requests[r].pc = "storePage"
  /\ pages' = [pages EXCEPT ![requests[r].version] = requests[r].copy]
  /\ Become(r, Idle)
  /\ UNCHANGED <<writes, version, profile, incrs, dels, history>>

\* Mistake: the page is stored without a time to live.
KeepPage(v) == FALSE /\ UNCHANGED vars

\* DASHBOARD_TTL_SECONDS pass, or Redis evicts the page.
ExpirePage(v) ==
  /\ pages[v] # None
  /\ pages' = [pages EXCEPT ![v] = None]
  /\ UNCHANGED <<writes, version, profile, incrs, dels, requests, history>>

-----------------------------------------------------------------------------
(* getProfile.                                                             *)

\* No profile is cached, or it cannot be read.
MissProfile(r) ==
  /\ requests[r].pc = "idle"
  /\ Become(r, Aggregating)
  /\ UNCHANGED <<writes, version, pages, profile, incrs, dels, history>>

AggregateProfile(r) ==
  /\ requests[r].pc = "profile"
  /\ Become(r, StoringProfile(writes, {}))
  /\ UNCHANGED <<writes, version, pages, profile, incrs, dels, history>>

StoreProfile(r) ==
  LET m == requests[r] IN
  /\ m.pc = "storeProfile"
  /\ profile' = [copy |-> m.copy, missed |-> m.missed]
  /\ Become(r, Idle)
  /\ UNCHANGED <<writes, version, pages, incrs, dels, history>>

\* The time to live passes, Redis evicts the profile, or the user logs out.
DropProfile ==
  /\ profile # None
  /\ profile' = None
  /\ UNCHANGED <<writes, version, pages, incrs, dels, requests, history>>

\* A query or a SET fails, or the process ends.
Abandon(r) ==
  /\ requests[r].pc # "idle"
  /\ Become(r, Idle)
  /\ UNCHANGED <<writes, version, pages, profile, incrs, dels, history>>

-----------------------------------------------------------------------------
GetDashboard(r) == ReadVersion(r) \/ ServePage(r) \/ QueryPage(r) \/ StorePage(r)
GetProfile(r) == MissProfile(r) \/ AggregateProfile(r) \/ StoreProfile(r)
Change == \/ CommitWrite
          \/ \E w \in Writes : \/ BustDashboardCache(w) \/ LoseBust(w)
                               \/ BustProfile(w) \/ LoseProfileBust(w)
Next == \/ Change
        \/ \E r \in Requests : GetDashboard(r) \/ GetProfile(r) \/ Abandon(r)
        \/ \E v \in Versions : ExpirePage(v)
        \/ DropProfile \/ ForgetVersion

Spec == Init /\ [][Next]_vars

\* Redis expires what has a time to live, and a request that can go on does.
Fairness ==
  /\ \A v \in Versions : WF_vars(ExpirePage(v))
  /\ WF_vars(DropProfile)
  /\ \A r \in Requests : WF_vars(StorePage(r)) /\ WF_vars(StoreProfile(r))

FairSpec == Spec /\ Fairness

-----------------------------------------------------------------------------
PagingStates == [pc : {"page"}, version : Versions]
StoringStates == [pc : {"storePage"}, version : Versions, copy : Copy]
ProfileStates == [pc : {"storeProfile"}, copy : Copy, missed : SUBSET Writes]
RequestStates ==
  {Idle, Aggregating} \union PagingStates \union StoringStates \union ProfileStates

\* Every variable has the shape the code gives it; no page is looked for or
\* stored under a version that no INCR returns.
TypeOK ==
  /\ writes \in 0 .. MaxWrites
  /\ version \in 0 .. MaxWrites
  /\ pages \in [Versions -> Copy \union {None}]
  /\ profile \in Profile \union {None}
  /\ incrs \subseteq Writes /\ dels \subseteq Writes
  /\ requests \in [Requests -> RequestStates]
  /\ busted \in [Versions -> 0 .. MaxWrites]
  /\ forgotten \in BOOLEAN /\ lost \subseteq Writes

\* A page stored under a version shows every write whose INCR made that version
\* or an earlier one, however the page was computed meanwhile, as long as the
\* version's key is not lost.  This is so from the second version on: the first
\* is also what a missing key is read as.
PageCoversBusts ==
  \A v \in Versions \ {1} : pages[v] # None /\ ~forgotten =>
    \A u \in 1 .. v : pages[v] >= busted[u]

\* A cached profile lacks a write only if the DEL of that write is under way,
\* was lost, or came while the profile was on its way to Redis.
ProfileCoversBusts ==
  profile # None =>
    \A w \in Writes : w <= writes /\ profile.copy < w =>
      w \in dels \union lost \union profile.missed

-----------------------------------------------------------------------------
(* The inductive invariant.                                                *)

\* What INCR covers was committed, and every version it returned or will return
\* is one of the writes.
Outstanding ==
  /\ incrs \subseteq 1 .. writes /\ dels \subseteq 1 .. writes
  /\ version + Cardinality(incrs) <= writes

BustsCommitted ==
  /\ \A v \in Versions : busted[v] <= writes
  /\ ~forgotten => \A v \in Versions : v > version => busted[v] = 0

\* No page and no request is ahead of the version, but for the first.
VersionsPast ==
  ~forgotten =>
    /\ \A v \in Versions \ {1} : v > version => pages[v] = None
    /\ \A r \in Requests :
         requests[r].pc \in {"page", "storePage"} /\ requests[r].version # 1 =>
           requests[r].version <= version

PageCopiesCover == \A r \in Requests :
  requests[r].pc = "storePage" /\ requests[r].version # 1 /\ ~forgotten =>
    \A u \in 1 .. requests[r].version : requests[r].copy >= busted[u]

ProfileCopiesCover == \A r \in Requests :
  requests[r].pc = "storeProfile" =>
    \A w \in Writes : w <= writes /\ requests[r].copy < w =>
      w \in dels \union lost \union requests[r].missed

IInv == TypeOK /\ PageCoversBusts /\ ProfileCoversBusts /\ Outstanding
        /\ BustsCommitted /\ VersionsPast /\ PageCopiesCover /\ ProfileCopiesCover

-----------------------------------------------------------------------------
\* However busts are lost, overtake each other or come to nothing because the
\* version was missing, every write reaches every cached copy in the end.
CopiesShow(w) == /\ \A v \in Versions : pages[v] # None => pages[v] >= w
                 /\ profile # None => profile.copy >= w

EventuallyFresh == \A w \in Writes : <>(writes >= w) => <>[]CopiesShow(w)

=============================================================================

---------------------------- MODULE UserCachesProofs ----------------------------
(***************************************************************************)
(* The invariant of UserCaches, for every number of requests and writes.   *)
(***************************************************************************)
EXTENDS UserCaches, FiniteSetTheorems, TLAPS

\* What a request's program counter says about its record.
LEMMA Shapes ==
  ASSUME NEW m \in RequestStates
  PROVE  /\ m.pc = "page" <=> m \in PagingStates
         /\ m.pc = "storePage" <=> m \in StoringStates
         /\ m.pc = "storeProfile" <=> m \in ProfileStates
         /\ m.pc = "idle" <=> m = Idle
         /\ m.pc = "profile" <=> m = Aggregating
BY DEF RequestStates, PagingStates, StoringStates, ProfileStates, Idle, Aggregating

LEMMA Constructed ==
  /\ Idle \in RequestStates /\ Aggregating \in RequestStates
  /\ \A v \in Versions : Paging(v) \in RequestStates
  /\ \A v \in Versions, c \in Copy : StoringPage(v, c) \in RequestStates
  /\ \A c \in Copy, S \in SUBSET Writes : StoringProfile(c, S) \in RequestStates
BY DEF RequestStates, PagingStates, StoringStates, ProfileStates, Idle, Aggregating,
       Paging, StoringPage, StoringProfile

LEMMA Labels ==
  /\ Idle.pc = "idle" /\ Aggregating.pc = "profile"
  /\ \A v : Paging(v).pc = "page" /\ Paging(v).version = v
  /\ \A v, c : /\ StoringPage(v, c).pc = "storePage"
               /\ StoringPage(v, c).version = v /\ StoringPage(v, c).copy = c
  /\ \A c, S : /\ StoringProfile(c, S).pc = "storeProfile"
               /\ StoringProfile(c, S).copy = c /\ StoringProfile(c, S).missed = S
BY DEF Idle, Aggregating, Paging, StoringPage, StoringProfile

LEMMA Updated ==
  ASSUME TypeOK, NEW r \in Requests, NEW m \in RequestStates, Become(r, m)
  PROVE  /\ requests' \in [Requests -> RequestStates]
         /\ requests'[r] = m
         /\ \A s \in Requests \ {r} : requests'[s] = requests[s]
BY DEF TypeOK, Become

-----------------------------------------------------------------------------
(* Types.                                                                  *)

LEMMA TypeInit == Init => TypeOK
<1> SUFFICES ASSUME Init PROVE TypeOK
  OBVIOUS
<1>1. 0 \in 0 .. MaxWrites
  BY BoundAssumption
<1>2. requests \in [Requests -> RequestStates]
  BY Constructed DEF Init
<1> QED
  BY <1>1, <1>2 DEF Init, TypeOK

\* INCR returns a version for every write at most.
LEMMA NextVersion ==
  ASSUME TypeOK, Outstanding, NEW w \in incrs
  PROVE  /\ version + 1 \in Versions
         /\ version + 1 + Cardinality(incrs \ {w}) <= writes
<1>1. writes \in Nat /\ version \in Nat /\ writes <= MaxWrites
  BY BoundAssumption DEF TypeOK
<1>2. IsFiniteSet(incrs)
  <2>1. 1 \in Int /\ writes \in Int
    BY <1>1
  <2>2. IsFiniteSet(1 .. writes)
    BY <2>1, FS_Interval
  <2> QED
    BY <2>2, FS_Subset DEF Outstanding
<1>3. Cardinality(incrs \ {w}) = Cardinality(incrs) - 1
  BY <1>2, FS_RemoveElement
<1>4. Cardinality(incrs \ {w}) \in Nat /\ Cardinality(incrs) \in Nat
  BY <1>2, FS_RemoveElement, FS_CardinalityType
<1> QED
  BY <1>1, <1>3, <1>4, BoundAssumption DEF Outstanding, Versions

LEMMA TypeChange ==
  ASSUME TypeOK, Outstanding, Change
  PROVE  TypeOK'
<1> USE DEF TypeOK
<1>1. CASE CommitWrite
  <2>1. writes' \in 0 .. MaxWrites /\ writes' \in Writes
    BY <1>1, BoundAssumption DEF CommitWrite, Writes
  <2> QED
    BY <1>1, <2>1 DEF CommitWrite, history
<1>2. ASSUME NEW w \in Writes, BustDashboardCache(w) PROVE TypeOK'
  <2>1. version + 1 \in Versions
    BY <1>2, NextVersion DEF BustDashboardCache
  <2>2. version' \in 0 .. MaxWrites /\ w \in 0 .. MaxWrites
    BY <1>2, <2>1, BoundAssumption DEF BustDashboardCache, Versions, Writes
  <2>3. busted' \in [Versions -> 0 .. MaxWrites]
    BY <1>2, <2>2 DEF BustDashboardCache
  <2> QED
    BY <1>2, <2>2, <2>3 DEF BustDashboardCache
<1>3. ASSUME NEW w \in Writes, LoseBust(w) \/ LoseProfileBust(w) PROVE TypeOK'
  BY <1>3 DEF LoseBust, LoseProfileBust, history
<1>4. ASSUME NEW w \in Writes, BustProfile(w) PROVE TypeOK'
  <2>1. \A m \in ProfileStates :
          [m EXCEPT !.missed = m.missed \union {w}] \in ProfileStates
    BY DEF ProfileStates
  <2>2. requests' \in [Requests -> RequestStates]
    BY <1>4, <2>1, Shapes DEF BustProfile, RequestStates
  <2> QED
    BY <1>4, <2>2 DEF BustProfile, history
<1> QED
  BY <1>1, <1>2, <1>3, <1>4 DEF Change

LEMMA TypeRequest ==
  ASSUME TypeOK, NEW r \in Requests, GetDashboard(r) \/ GetProfile(r) \/ Abandon(r)
  PROVE  TypeOK'
<1> USE DEF TypeOK
<1> DEFINE m == requests[r]
<1>0. writes \in Copy /\ CacheVersion \in Versions /\ 1 \in Versions
  BY BoundAssumption DEF Copy, CacheVersion, Versions
<1>1. CASE ReadVersion(r)
  BY <1>0, <1>1, Constructed, Updated DEF ReadVersion, history
<1>2. CASE ServePage(r) \/ Abandon(r)
  BY <1>2, Constructed, Updated DEF ServePage, Abandon, history
<1>3. CASE QueryPage(r)
  <2>1. m.version \in Versions
    BY <1>3, Shapes DEF QueryPage, PagingStates
  <2>2. StoringPage(m.version, writes) \in RequestStates
    BY <1>0, <2>1, Constructed
  <2> QED
    BY <1>3, <2>2, Updated DEF QueryPage, history
<1>4. CASE StorePage(r)
  <2>1. m.version \in Versions /\ m.copy \in Copy
    BY <1>4, Shapes DEF StorePage, StoringStates
  <2>2. requests' \in [Requests -> RequestStates]
    BY <1>4, Constructed, Updated DEF StorePage
  <2> QED
    BY <1>4, <2>1, <2>2 DEF StorePage, history
<1>5. CASE MissProfile(r)
  BY <1>5, Constructed, Updated DEF MissProfile, history
<1>6. CASE AggregateProfile(r)
  <2>1. StoringProfile(writes, {}) \in RequestStates
    BY <1>0, Constructed
  <2> QED
    BY <1>6, <2>1, Updated DEF AggregateProfile, history
<1>7. CASE StoreProfile(r)
  <2>1. m.copy \in Copy /\ m.missed \in SUBSET Writes
    BY <1>7, Shapes DEF StoreProfile, ProfileStates
  <2>2. requests' \in [Requests -> RequestStates]
    BY <1>7, Constructed, Updated DEF StoreProfile
  <2>3. profile' \in Profile
    BY <1>7, <2>1 DEF StoreProfile, Profile
  <2> QED
    BY <1>7, <2>2, <2>3 DEF StoreProfile, history
<1> QED
  BY <1>1, <1>2, <1>3, <1>4, <1>5, <1>6, <1>7 DEF GetDashboard, GetProfile

LEMMA TypeNext ==
  ASSUME TypeOK, Outstanding, [Next]_vars
  PROVE  TypeOK'
<1>1. CASE Change
  BY <1>1, TypeChange
<1>2. ASSUME NEW r \in Requests, GetDashboard(r) \/ GetProfile(r) \/ Abandon(r)
      PROVE  TypeOK'
  BY <1>2, TypeRequest
<1>3. CASE (\E v \in Versions : ExpirePage(v)) \/ DropProfile \/ ForgetVersion
  <2>1. 0 \in 0 .. MaxWrites
    BY BoundAssumption
  <2> QED
    BY <1>3, <2>1 DEF TypeOK, ExpirePage, DropProfile, ForgetVersion, history
<1>4. CASE UNCHANGED vars
  BY <1>4 DEF TypeOK, vars
<1> QED
  BY <1>1, <1>2, <1>3, <1>4 DEF Next

-----------------------------------------------------------------------------
(* What INCR and the version promise.                                      *)

LEMMA OutstandingNext ==
  ASSUME TypeOK, Outstanding, [Next]_vars
  PROVE  Outstanding'
<1>0. writes \in Nat /\ version \in Nat
  BY BoundAssumption DEF TypeOK
<1>1. IsFiniteSet(incrs) /\ Cardinality(incrs) \in Nat
  <2>1. IsFiniteSet(1 .. writes)
    BY <1>0, FS_Interval
  <2> QED
    BY <2>1, FS_Subset, FS_CardinalityType DEF Outstanding
<1>2. CASE CommitWrite
  <2>1. writes' = writes + 1 /\ incrs' = incrs \union {writes + 1}
        /\ dels' = dels \union {writes + 1} /\ version' = version
    BY <1>2 DEF CommitWrite
  <2>2. writes + 1 \notin incrs
    BY <1>0 DEF Outstanding
  <2>3. Cardinality(incrs') = Cardinality(incrs) + 1
    BY <1>1, <2>1, <2>2, FS_AddElement
  <2>4. incrs' \subseteq 1 .. writes' /\ dels' \subseteq 1 .. writes'
    BY <1>0, <2>1 DEF Outstanding
  <2> QED
    BY <1>0, <1>1, <2>1, <2>3, <2>4 DEF Outstanding
<1>3. ASSUME NEW w \in Writes, BustDashboardCache(w) PROVE Outstanding'
  <2>1. version + 1 + Cardinality(incrs \ {w}) <= writes
    BY <1>3, NextVersion DEF BustDashboardCache
  <2> QED
    BY <1>3, <2>1 DEF BustDashboardCache, Outstanding
<1>4. ASSUME NEW w \in Writes, LoseBust(w) PROVE Outstanding'
  <2>1. Cardinality(incrs \ {w}) = Cardinality(incrs) - 1
    BY <1>1, <1>4, FS_RemoveElement DEF LoseBust
  <2>2. incrs' = incrs \ {w} /\ UNCHANGED <<version, writes, dels>>
    BY <1>4 DEF LoseBust
  <2>3. version' + Cardinality(incrs') <= writes'
    BY <1>0, <1>1, <2>1, <2>2 DEF Outstanding
  <2> QED
    BY <2>2, <2>3 DEF Outstanding
<1>5. ASSUME NEW w \in Writes, BustProfile(w) \/ LoseProfileBust(w)
      PROVE  Outstanding'
  BY <1>5 DEF BustProfile, LoseProfileBust, history, Outstanding
<1>6. CASE ForgetVersion
  <2>1. 0 + Cardinality(incrs) <= writes
    BY <1>0, <1>1 DEF Outstanding
  <2> QED
    BY <1>6, <2>1 DEF ForgetVersion, Outstanding
<1>7. ASSUME NEW r \in Requests, GetDashboard(r) \/ GetProfile(r) \/ Abandon(r)
      PROVE  Outstanding'
  BY <1>7 DEF GetDashboard, GetProfile, Abandon, ReadVersion, ServePage, QueryPage,
              StorePage, MissProfile, AggregateProfile, StoreProfile, Outstanding
<1>8. CASE (\E v \in Versions : ExpirePage(v)) \/ DropProfile \/ UNCHANGED vars
  BY <1>8 DEF ExpirePage, DropProfile, vars, Outstanding
<1> QED
  BY <1>2, <1>3, <1>4, <1>5, <1>6, <1>7, <1>8 DEF Next, Change

LEMMA BustsNext ==
  ASSUME TypeOK, Outstanding, BustsCommitted, [Next]_vars
  PROVE  BustsCommitted'
<1>0. writes \in Nat /\ version \in Nat /\ Versions \subseteq Nat
      /\ \A v \in Versions : busted[v] \in Nat
  BY BoundAssumption DEF TypeOK, Versions
<1>1. CASE CommitWrite
  BY <1>0, <1>1 DEF CommitWrite, history, BustsCommitted
<1>2. ASSUME NEW w \in Writes, BustDashboardCache(w) PROVE BustsCommitted'
  <2>1. w <= writes
    BY <1>0, <1>2 DEF BustDashboardCache, Outstanding
  <2>2. \A v \in Versions : busted'[v] = IF v = version + 1 THEN w ELSE busted[v]
    BY <1>2 DEF BustDashboardCache, TypeOK
  <2>3. version' = version + 1 /\ writes' = writes /\ forgotten' = forgotten
    BY <1>2 DEF BustDashboardCache
  <2> QED
    BY <1>0, <2>1, <2>2, <2>3 DEF BustsCommitted
<1>3. CASE ForgetVersion
  BY <1>3 DEF ForgetVersion, BustsCommitted
<1>4. CASE UNCHANGED <<writes, version, busted, forgotten>>
  BY <1>4 DEF BustsCommitted
<1>5. ASSUME NEW r \in Requests, GetDashboard(r) \/ GetProfile(r) \/ Abandon(r)
      PROVE  UNCHANGED <<writes, version, busted, forgotten>>
  BY <1>5 DEF GetDashboard, GetProfile, Abandon, ReadVersion, ServePage, QueryPage,
              StorePage, MissProfile, AggregateProfile, StoreProfile, history
<1>6. ASSUME NEW w \in Writes, LoseBust(w) \/ BustProfile(w) \/ LoseProfileBust(w)
      PROVE  UNCHANGED <<writes, version, busted, forgotten>>
  BY <1>6 DEF LoseBust, BustProfile, LoseProfileBust, history
<1>7. CASE (\E v \in Versions : ExpirePage(v)) \/ DropProfile \/ UNCHANGED vars
  BY <1>4, <1>7 DEF ExpirePage, DropProfile, vars, history
<1> QED
  BY <1>1, <1>2, <1>3, <1>4, <1>5, <1>6, <1>7 DEF Next, Change

\* A step after which no request works on a version it did not work on before.
LEMMA VersionsQuiet ==
  ASSUME VersionsPast, UNCHANGED <<version, forgotten>>,
         \A v \in Versions \ {1} : pages'[v] # None => pages[v] # None,
         \A s \in Requests : requests'[s].pc \in {"page", "storePage"} =>
           /\ requests[s].pc \in {"page", "storePage"}
           /\ requests'[s].version = requests[s].version
  PROVE  VersionsPast'
BY DEF VersionsPast

LEMMA VersionOf ==
  ASSUME TypeOK, NEW r \in Requests, requests[r].pc \in {"page", "storePage"}
  PROVE  requests[r].version \in Versions
<1>1. requests[r] \in PagingStates \union StoringStates
  BY Shapes DEF TypeOK
<1> QED
  BY <1>1 DEF PagingStates, StoringStates

LEMMA VersionsNext ==
  ASSUME TypeOK, VersionsPast, [Next]_vars
  PROVE  VersionsPast'
<1>0. version \in Nat /\ Versions \subseteq Nat
  BY BoundAssumption DEF TypeOK, Versions
<1>1. ASSUME NEW w \in Writes, BustDashboardCache(w) PROVE VersionsPast'
  <2>1. version' = version + 1 /\ UNCHANGED <<pages, requests, forgotten>>
    BY <1>1 DEF BustDashboardCache
  <2>2. \A s \in Requests : requests[s].pc \in {"page", "storePage"} =>
          requests[s].version \in Nat
    BY <1>0, VersionOf
  <2> QED
    BY <1>0, <2>1, <2>2 DEF VersionsPast
<1>2. CASE ForgetVersion
  BY <1>2 DEF ForgetVersion, VersionsPast
<1>3. ASSUME NEW r \in Requests, ReadVersion(r) PROVE VersionsPast'
  <2>1. PICK v \in {CacheVersion, 1} : Become(r, Paging(v))
    BY <1>3 DEF ReadVersion
  <2>2. v \in Versions /\ (v # 1 => v <= version)
    BY <1>0, <2>1, BoundAssumption DEF CacheVersion, TypeOK, Versions
  <2>3. requests'[r] = Paging(v)
        /\ \A s \in Requests \ {r} : requests'[s] = requests[s]
    BY <2>1, <2>2, Constructed, Updated
  <2>4. UNCHANGED <<version, pages, forgotten>>
    BY <1>3 DEF ReadVersion, history
  <2> QED
    BY <2>2, <2>3, <2>4, Labels DEF VersionsPast
<1>4. ASSUME NEW r \in Requests, QueryPage(r) PROVE VersionsPast'
  <2>1. requests[r].version \in Versions /\ writes \in Copy
    BY <1>4, Shapes DEF QueryPage, TypeOK, PagingStates, Copy
  <2>2. requests'[r] = StoringPage(requests[r].version, writes)
        /\ \A s \in Requests \ {r} : requests'[s] = requests[s]
    BY <1>4, <2>1, Constructed, Updated DEF QueryPage
  <2>3. UNCHANGED <<version, pages, forgotten>> /\ requests[r].pc = "page"
    BY <1>4 DEF QueryPage, history
  <2> QED
    BY <2>2, <2>3, VersionsQuiet, Labels
<1>5. ASSUME NEW r \in Requests, StorePage(r) PROVE VersionsPast'
  <2>1. requests'[r] = Idle /\ \A s \in Requests \ {r} : requests'[s] = requests[s]
    BY <1>5, Constructed, Updated DEF StorePage
  <2>2. \A v \in Versions : v # requests[r].version => pages'[v] = pages[v]
    BY <1>5 DEF StorePage, TypeOK
  <2>3. UNCHANGED <<version, forgotten>> /\ requests[r].pc = "storePage"
    BY <1>5 DEF StorePage, history
  <2>4. requests[r].version \in Nat
    BY <1>0, <2>3, VersionOf
  <2>5. ASSUME ~forgotten, NEW v \in Versions \ {1}, v > version
        PROVE  pages'[v] = None
    <3>1. v # requests[r].version
      BY <1>0, <2>3, <2>4, <2>5 DEF VersionsPast
    <3> QED
      BY <2>2, <2>5, <3>1 DEF VersionsPast
  <2>6. \A s \in Requests : requests'[s].pc \in {"page", "storePage"} =>
          requests'[s] = requests[s]
    BY <2>1, Labels
  <2> QED
    BY <2>3, <2>5, <2>6 DEF VersionsPast
<1>6. ASSUME NEW r \in Requests,
             \/ ServePage(r) \/ Abandon(r) \/ MissProfile(r) \/ StoreProfile(r)
      PROVE  VersionsPast'
  <2>1. \E m \in {Idle, Aggregating} : Become(r, m)
    BY <1>6 DEF ServePage, Abandon, MissProfile, StoreProfile
  <2>2. requests'[r].pc \notin {"page", "storePage"}
        /\ \A s \in Requests \ {r} : requests'[s] = requests[s]
    BY <2>1, Constructed, Updated, Labels
  <2>3. UNCHANGED <<version, pages, forgotten>>
    BY <1>6 DEF ServePage, Abandon, MissProfile, StoreProfile, history
  <2> QED
    BY <2>2, <2>3, VersionsQuiet
<1>7. ASSUME NEW r \in Requests, AggregateProfile(r) PROVE VersionsPast'
  <2>1. StoringProfile(writes, {}) \in RequestStates
    BY Constructed DEF TypeOK, Copy
  <2>2. requests'[r] = StoringProfile(writes, {})
        /\ \A s \in Requests \ {r} : requests'[s] = requests[s]
    BY <1>7, <2>1, Updated DEF AggregateProfile
  <2>3. UNCHANGED <<version, pages, forgotten>>
    BY <1>7 DEF AggregateProfile, history
  <2> QED
    BY <2>2, <2>3, VersionsQuiet, Labels
<1>8. ASSUME NEW w \in Writes, BustProfile(w) PROVE VersionsPast'
  <2>1. \A s \in Requests : requests[s].pc # "storeProfile" => requests'[s] = requests[s]
    BY <1>8 DEF BustProfile
  <2>2. \A s \in Requests : requests'[s].pc = requests[s].pc
    BY <1>8, Shapes DEF BustProfile, TypeOK, ProfileStates
  <2>3. UNCHANGED <<version, pages, forgotten>>
    BY <1>8 DEF BustProfile, history
  <2> QED
    BY <2>1, <2>2, <2>3, VersionsQuiet
<1>9. ASSUME NEW v \in Versions, ExpirePage(v) PROVE VersionsPast'
  <2>1. \A u \in Versions : pages'[u] # None => pages[u] # None
    BY <1>9 DEF ExpirePage, TypeOK
  <2> QED
    BY <1>9, <2>1, VersionsQuiet DEF ExpirePage, history
<1>10. CASE \/ CommitWrite \/ DropProfile \/ UNCHANGED vars
            \/ \E w \in Writes : LoseBust(w) \/ LoseProfileBust(w)
  BY <1>10, VersionsQuiet
     DEF CommitWrite, DropProfile, LoseBust, LoseProfileBust, vars, history
<1> QED
  BY <1>1, <1>2, <1>3, <1>4, <1>5, <1>6, <1>7, <1>8, <1>9, <1>10
     DEF Next, Change, GetDashboard, GetProfile

-----------------------------------------------------------------------------
(* Pages.                                                                  *)

\* A step that stores no page and starts no store.
LEMMA PagesQuiet ==
  ASSUME PageCoversBusts, PageCopiesCover, UNCHANGED <<busted, forgotten>>,
         \A v \in Versions : pages'[v] # None => pages'[v] = pages[v],
         \A s \in Requests : requests'[s].pc = "storePage" => requests'[s] = requests[s]
  PROVE  PageCoversBusts' /\ PageCopiesCover'
<1>1. \A v \in Versions : pages'[v] # None => pages[v] # None /\ pages'[v] = pages[v]
  OBVIOUS
<1> QED
  BY <1>1 DEF PageCoversBusts, PageCopiesCover

\* The versions up to the current one keep what was busted by them.
LEMMA PagesBusted ==
  ASSUME TypeOK, Outstanding, VersionsPast, PageCoversBusts, PageCopiesCover,
         NEW w \in Writes, BustDashboardCache(w)
  PROVE  PageCoversBusts' /\ PageCopiesCover'
<1>0. version \in Nat /\ Versions \subseteq Nat
  BY BoundAssumption DEF TypeOK, Versions
<1>1. \A v \in Versions : v <= version => busted'[v] = busted[v]
  <2>1. \A v \in Versions : v # version + 1 => busted'[v] = busted[v]
    BY DEF BustDashboardCache, TypeOK
  <2>2. \A v \in Nat : v <= version => v # version + 1
    BY <1>0
  <2> QED
    BY <1>0, <2>1, <2>2
<1>2. UNCHANGED <<pages, requests, forgotten>>
  BY DEF BustDashboardCache
<1>3. ASSUME NEW v \in Versions, v <= version, NEW u \in 1 .. v
      PROVE  busted'[u] = busted[u]
  <2>1. u \in Versions /\ u <= version
    BY <1>0, <1>3, BoundAssumption DEF Versions
  <2> QED
    BY <1>1, <2>1
<1>4. ASSUME NEW v \in Versions \ {1}, pages[v] # None, ~forgotten
      PROVE  v <= version
  BY <1>0, <1>4 DEF VersionsPast
<1>5. PageCoversBusts'
  BY <1>2, <1>3, <1>4 DEF PageCoversBusts
<1>6. ASSUME NEW r \in Requests, requests[r].pc = "storePage",
             requests[r].version # 1, ~forgotten
      PROVE  requests[r].version \in Versions /\ requests[r].version <= version
  BY <1>6, VersionOf DEF VersionsPast
<1>7. PageCopiesCover'
  BY <1>2, <1>3, <1>6 DEF PageCopiesCover
<1> QED
  BY <1>5, <1>7

LEMMA PagesRequest ==
  ASSUME TypeOK, BustsCommitted, PageCoversBusts, PageCopiesCover, NEW r \in Requests,
         GetDashboard(r) \/ GetProfile(r) \/ Abandon(r)
  PROVE  PageCoversBusts' /\ PageCopiesCover'
<1>0. writes \in Copy /\ {CacheVersion, 1} \subseteq Versions
  BY BoundAssumption DEF TypeOK, Copy, CacheVersion, Versions
<1>1. CASE QueryPage(r)
  <2>1. requests[r].version \in Versions
    BY <1>1, VersionOf DEF QueryPage
  <2>2. requests'[r] = StoringPage(requests[r].version, writes)
        /\ \A s \in Requests \ {r} : requests'[s] = requests[s]
    BY <1>0, <1>1, <2>1, Constructed, Updated DEF QueryPage
  <2>3. UNCHANGED <<pages, busted, forgotten>>
    BY <1>1 DEF QueryPage, history
  <2>4. \A v \in Versions : \A u \in 1 .. v : writes >= busted[u]
    BY BoundAssumption DEF BustsCommitted, Versions, TypeOK
  <2>5. PageCopiesCover'
    BY <2>1, <2>2, <2>3, <2>4, Labels DEF PageCopiesCover
  <2>6. PageCoversBusts'
    BY <2>3 DEF PageCoversBusts
  <2> QED
    BY <2>5, <2>6
<1>2. CASE StorePage(r)
  <2>1. requests[r].version \in Versions
    BY <1>2, VersionOf DEF StorePage
  <2>2. requests'[r] = Idle /\ \A s \in Requests \ {r} : requests'[s] = requests[s]
    BY <1>2, Constructed, Updated DEF StorePage
  <2>3. UNCHANGED <<busted, forgotten>> /\ requests[r].pc = "storePage"
    BY <1>2 DEF StorePage, history
  <2>4. \A v \in Versions :
          pages'[v] = IF v = requests[r].version THEN requests[r].copy ELSE pages[v]
    BY <1>2 DEF StorePage, TypeOK
  <2>5. PageCoversBusts'
    BY <2>1, <2>3, <2>4 DEF PageCoversBusts, PageCopiesCover
  <2>6. PageCopiesCover'
    BY <2>2, <2>3, Labels DEF PageCopiesCover
  <2> QED
    BY <2>5, <2>6
<1>3. CASE \/ ReadVersion(r) \/ ServePage(r) \/ Abandon(r) \/ MissProfile(r)
           \/ AggregateProfile(r) \/ StoreProfile(r)
  <2>1. \E m \in RequestStates : Become(r, m) /\ m.pc # "storePage"
    <3>1. CASE ReadVersion(r)
      BY <1>0, <3>1, Constructed, Labels DEF ReadVersion
    <3>2. CASE AggregateProfile(r)
      <4>1. StoringProfile(writes, {}) \in RequestStates
        BY <1>0, Constructed
      <4> QED
        BY <3>2, <4>1, Labels DEF AggregateProfile
    <3>3. CASE ServePage(r) \/ Abandon(r) \/ MissProfile(r) \/ StoreProfile(r)
      BY <3>3, Constructed, Labels DEF ServePage, Abandon, MissProfile, StoreProfile
    <3> QED
      BY <1>3, <3>1, <3>2, <3>3
  <2>2. requests'[r].pc # "storePage"
        /\ \A s \in Requests \ {r} : requests'[s] = requests[s]
    BY <2>1, Updated
  <2>3. UNCHANGED <<pages, busted, forgotten>>
    BY <1>3 DEF ReadVersion, ServePage, Abandon, MissProfile, AggregateProfile,
                StoreProfile, history
  <2> QED
    BY <2>2, <2>3, PagesQuiet
<1> QED
  BY <1>1, <1>2, <1>3 DEF GetDashboard, GetProfile

LEMMA PagesNext ==
  ASSUME TypeOK, Outstanding, BustsCommitted, VersionsPast, PageCoversBusts,
         PageCopiesCover, [Next]_vars
  PROVE  PageCoversBusts' /\ PageCopiesCover'
<1>1. ASSUME NEW w \in Writes, BustDashboardCache(w)
      PROVE  PageCoversBusts' /\ PageCopiesCover'
  BY <1>1, PagesBusted
<1>2. ASSUME NEW r \in Requests, GetDashboard(r) \/ GetProfile(r) \/ Abandon(r)
      PROVE  PageCoversBusts' /\ PageCopiesCover'
  BY <1>2, PagesRequest
<1>3. CASE ForgetVersion
  BY <1>3 DEF ForgetVersion, PageCoversBusts, PageCopiesCover
<1>4. ASSUME NEW w \in Writes, BustProfile(w)
      PROVE  PageCoversBusts' /\ PageCopiesCover'
  <2>1. \A s \in Requests : requests'[s].pc = "storePage" => requests'[s] = requests[s]
    <3>1. \A s \in Requests : requests[s].pc = "storeProfile" =>
            requests'[s].pc = "storeProfile"
      BY <1>4, Shapes DEF BustProfile, TypeOK, ProfileStates
    <3> QED
      BY <1>4, <3>1 DEF BustProfile
  <2> QED
    BY <1>4, <2>1, PagesQuiet DEF BustProfile, history
<1>5. ASSUME NEW v \in Versions, ExpirePage(v)
      PROVE  PageCoversBusts' /\ PageCopiesCover'
  <2>1. \A u \in Versions : pages'[u] # None => pages'[u] = pages[u]
    BY <1>5 DEF ExpirePage, TypeOK
  <2> QED
    BY <1>5, <2>1, PagesQuiet DEF ExpirePage, history
<1>6. CASE \/ CommitWrite \/ DropProfile \/ UNCHANGED vars
           \/ \E w \in Writes : LoseBust(w) \/ LoseProfileBust(w)
  BY <1>6, PagesQuiet
     DEF CommitWrite, DropProfile, LoseBust, LoseProfileBust, vars, history
<1> QED
  BY <1>1, <1>2, <1>3, <1>4, <1>5, <1>6 DEF Next, Change

-----------------------------------------------------------------------------
(* The profile.                                                            *)

\* A step that stores no profile and gives no reason up.
LEMMA ProfileQuiet ==
  ASSUME ProfileCoversBusts, ProfileCopiesCover, UNCHANGED writes,
         dels \union lost \subseteq dels' \union lost',
         profile' # None => profile' = profile,
         \A s \in Requests :
           requests'[s].pc = "storeProfile" => requests'[s] = requests[s]
  PROVE  ProfileCoversBusts' /\ ProfileCopiesCover'
<1>1. ProfileCoversBusts'
  BY DEF ProfileCoversBusts
<1>2. ProfileCopiesCover'
  BY DEF ProfileCopiesCover
<1> QED
  BY <1>1, <1>2

LEMMA ProfileChange ==
  ASSUME TypeOK, ProfileCoversBusts, ProfileCopiesCover, Change
  PROVE  ProfileCoversBusts' /\ ProfileCopiesCover'
<1>0. writes \in Nat /\ Writes \subseteq Nat
  BY BoundAssumption DEF TypeOK, Writes
<1>1. CASE CommitWrite
  <2>1. writes' = writes + 1 /\ dels' = dels \union {writes + 1}
        /\ UNCHANGED <<profile, requests, lost>>
    BY <1>1 DEF CommitWrite, history
  <2>2. \A w \in Writes : w <= writes' => w <= writes \/ w \in dels'
    BY <1>0, <2>1
  <2>3. ProfileCoversBusts'
    BY <2>1, <2>2 DEF ProfileCoversBusts
  <2>4. ProfileCopiesCover'
    BY <2>1, <2>2 DEF ProfileCopiesCover
  <2> QED
    BY <2>3, <2>4
<1>2. ASSUME NEW w \in Writes, BustProfile(w)
      PROVE  ProfileCoversBusts' /\ ProfileCopiesCover'
  <2>1. profile' = None /\ dels' = dels \ {w} /\ UNCHANGED <<writes, lost>>
    BY <1>2 DEF BustProfile, history
  <2>2. ASSUME NEW s \in Requests, requests'[s].pc = "storeProfile"
        PROVE  /\ requests[s].pc = "storeProfile"
               /\ requests'[s].copy = requests[s].copy
               /\ requests'[s].missed = requests[s].missed \union {w}
    <3>1. CASE requests[s].pc = "storeProfile"
      <4>1. requests[s] \in ProfileStates
        BY <3>1, Shapes DEF TypeOK
      <4>2. requests'[s] = [requests[s] EXCEPT !.missed = requests[s].missed \union {w}]
        BY <1>2, <3>1 DEF BustProfile
      <4> QED
        BY <3>1, <4>1, <4>2 DEF ProfileStates
    <3>2. CASE requests[s].pc # "storeProfile"
      BY <1>2, <2>2, <3>2 DEF BustProfile
    <3> QED
      BY <3>1, <3>2
  <2>3. ProfileCopiesCover'
    BY <2>1, <2>2 DEF ProfileCopiesCover
  <2> QED
    BY <2>1, <2>3 DEF ProfileCoversBusts
<1>3. ASSUME NEW w \in Writes, \/ BustDashboardCache(w) \/ LoseBust(w)
                               \/ LoseProfileBust(w)
      PROVE  ProfileCoversBusts' /\ ProfileCopiesCover'
  BY <1>3, ProfileQuiet DEF BustDashboardCache, LoseBust, LoseProfileBust, history
<1> QED
  BY <1>1, <1>2, <1>3 DEF Change

LEMMA ProfileRequest ==
  ASSUME TypeOK, ProfileCoversBusts, ProfileCopiesCover, NEW r \in Requests,
         GetDashboard(r) \/ GetProfile(r) \/ Abandon(r)
  PROVE  ProfileCoversBusts' /\ ProfileCopiesCover'
<1>0. writes \in Nat /\ Writes \subseteq Nat /\ writes \in Copy
      /\ {CacheVersion, 1} \subseteq Versions
  BY BoundAssumption DEF TypeOK, Writes, Copy, CacheVersion, Versions
<1>1. CASE AggregateProfile(r)
  <2>1. StoringProfile(writes, {}) \in RequestStates
    BY <1>0, Constructed
  <2>2. requests'[r] = StoringProfile(writes, {})
        /\ \A s \in Requests \ {r} : requests'[s] = requests[s]
    BY <1>1, <2>1, Updated DEF AggregateProfile
  <2>3. UNCHANGED <<writes, profile, dels, lost>>
    BY <1>1 DEF AggregateProfile, history
  <2>4. \A w \in Writes : ~(w <= writes /\ writes < w)
    BY <1>0
  <2>5. ProfileCopiesCover'
    BY <2>2, <2>3, <2>4, Labels DEF ProfileCopiesCover
  <2>6. ProfileCoversBusts'
    BY <2>3 DEF ProfileCoversBusts
  <2> QED
    BY <2>5, <2>6
<1>2. CASE StoreProfile(r)
  <2>1. requests'[r] = Idle /\ \A s \in Requests \ {r} : requests'[s] = requests[s]
    BY <1>2, Constructed, Updated DEF StoreProfile
  <2>2. UNCHANGED <<writes, dels, lost>> /\ requests[r].pc = "storeProfile"
    BY <1>2 DEF StoreProfile, history
  <2>3. profile' = [copy |-> requests[r].copy, missed |-> requests[r].missed]
    BY <1>2 DEF StoreProfile
  <2>4. ProfileCoversBusts'
    BY <2>2, <2>3 DEF ProfileCoversBusts, ProfileCopiesCover
  <2>5. ProfileCopiesCover'
    BY <2>1, <2>2, Labels DEF ProfileCopiesCover
  <2> QED
    BY <2>4, <2>5
<1>3. CASE \/ ReadVersion(r) \/ ServePage(r) \/ QueryPage(r) \/ StorePage(r)
           \/ MissProfile(r) \/ Abandon(r)
  <2>1. \E m \in RequestStates : Become(r, m) /\ m.pc # "storeProfile"
    <3>1. CASE ReadVersion(r)
      BY <1>0, <3>1, Constructed, Labels DEF ReadVersion
    <3>2. CASE QueryPage(r)
      <4>1. requests[r].version \in Versions
        BY <3>2, VersionOf DEF QueryPage
      <4>2. StoringPage(requests[r].version, writes) \in RequestStates
        BY <1>0, <4>1, Constructed
      <4> QED
        BY <3>2, <4>2, Labels DEF QueryPage
    <3>3. CASE ServePage(r) \/ StorePage(r) \/ MissProfile(r) \/ Abandon(r)
      BY <3>3, Constructed, Labels DEF ServePage, StorePage, MissProfile, Abandon
    <3> QED
      BY <1>3, <3>1, <3>2, <3>3
  <2>2. requests'[r].pc # "storeProfile"
        /\ \A s \in Requests \ {r} : requests'[s] = requests[s]
    BY <2>1, Updated
  <2>3. UNCHANGED <<writes, profile, dels, lost>>
    BY <1>3 DEF ReadVersion, ServePage, QueryPage, StorePage, MissProfile, Abandon,
                history
  <2> QED
    BY <2>2, <2>3, ProfileQuiet
<1> QED
  BY <1>1, <1>2, <1>3 DEF GetDashboard, GetProfile

LEMMA ProfileNext ==
  ASSUME TypeOK, ProfileCoversBusts, ProfileCopiesCover, [Next]_vars
  PROVE  ProfileCoversBusts' /\ ProfileCopiesCover'
<1>1. CASE Change
  BY <1>1, ProfileChange
<1>2. ASSUME NEW r \in Requests, GetDashboard(r) \/ GetProfile(r) \/ Abandon(r)
      PROVE  ProfileCoversBusts' /\ ProfileCopiesCover'
  BY <1>2, ProfileRequest
<1>3. CASE \/ DropProfile \/ ForgetVersion \/ UNCHANGED vars
           \/ \E v \in Versions : ExpirePage(v)
  BY <1>3, ProfileQuiet DEF DropProfile, ForgetVersion, ExpirePage, vars, history
<1> QED
  BY <1>1, <1>2, <1>3 DEF Next

-----------------------------------------------------------------------------
(* The invariant.                                                          *)

LEMMA InitIInv == Init => IInv
<1> SUFFICES ASSUME Init PROVE IInv
  OBVIOUS
<1>1. TypeOK
  BY TypeInit
<1>2. \A r \in Requests : requests[r].pc = "idle"
  BY Labels DEF Init
<1>3. Outstanding
  BY FS_EmptySet DEF Init, Outstanding
<1>4. BustsCommitted /\ VersionsPast /\ PageCoversBusts
  BY <1>2 DEF Init, BustsCommitted, VersionsPast, PageCoversBusts
<1>5. ProfileCoversBusts /\ PageCopiesCover /\ ProfileCopiesCover
  BY <1>2 DEF Init, ProfileCoversBusts, PageCopiesCover, ProfileCopiesCover
<1> QED
  BY <1>1, <1>3, <1>4, <1>5 DEF IInv

LEMMA NextIInv == IInv /\ [Next]_vars => IInv'
BY TypeNext, OutstandingNext, BustsNext, VersionsNext, PagesNext, ProfileNext DEF IInv

\* However requests, changes, lost commands and expired keys interleave, for any
\* number of requests and writes, the caches of UrlService and AuthService satisfy
\* the whole invariant.
THEOREM CachesInvariant == Spec => []IInv
<1>1. Init => IInv
  BY InitIInv
<1>2. IInv /\ [Next]_vars => IInv'
  BY NextIInv
<1> QED
  BY <1>1, <1>2, PTL DEF Spec

\* No page is looked for or stored under a version that no INCR returns.
THEOREM CacheTypes == Spec => []TypeOK
<1>1. IInv => TypeOK
  BY DEF IInv
<1> QED
  BY <1>1, CachesInvariant, PTL

\* A page under the second version or a later one shows every write whose INCR
\* made that version or an earlier one.
THEOREM PagesCover == Spec => []PageCoversBusts
<1>1. IInv => PageCoversBusts
  BY DEF IInv
<1> QED
  BY <1>1, CachesInvariant, PTL

\* A cached profile lacks a write only if its DEL is under way, was lost, or
\* overtook the profile on its way to Redis.
THEOREM ProfileCovers == Spec => []ProfileCoversBusts
<1>1. IInv => ProfileCoversBusts
  BY DEF IInv
<1> QED
  BY <1>1, CachesInvariant, PTL

-----------------------------------------------------------------------------
(* What became fresh stays fresh.                                          *)

\* Write w was committed, no copy lacks it and none that lacks it is on its way.
Carrying(r) == requests[r].pc \in {"storePage", "storeProfile"}
Fresh(w) == /\ writes >= w /\ CopiesShow(w)
            /\ \A r \in Requests : Carrying(r) => requests[r].copy >= w

\* A step that stores nothing and computes nothing.
LEMMA FreshQuiet ==
  ASSUME NEW w \in Writes, Fresh(w), writes' >= w,
         \A v \in Versions : pages'[v] # None => pages'[v] = pages[v],
         profile' # None => profile' = profile,
         \A s \in Requests : Carrying(s)' =>
           Carrying(s) /\ requests'[s].copy = requests[s].copy
  PROVE  Fresh(w)'
<1>1. \A v \in Versions : pages'[v] # None => pages[v] # None /\ pages'[v] = pages[v]
  OBVIOUS
<1>2. CopiesShow(w)'
  BY <1>1 DEF Fresh, CopiesShow
<1> QED
  BY <1>2 DEF Fresh

LEMMA FreshRequest ==
  ASSUME TypeOK, NEW w \in Writes, Fresh(w), NEW r \in Requests,
         GetDashboard(r) \/ GetProfile(r) \/ Abandon(r)
  PROVE  Fresh(w)'
<1>0. writes \in Copy /\ {CacheVersion, 1} \subseteq Versions
  BY BoundAssumption DEF TypeOK, Copy, CacheVersion, Versions
<1>1. UNCHANGED writes /\ writes >= w
  BY DEF Fresh, GetDashboard, GetProfile, Abandon, ReadVersion, ServePage, QueryPage,
         StorePage, MissProfile, AggregateProfile, StoreProfile
<1>2. CASE QueryPage(r) \/ AggregateProfile(r)
  <2>1. PICK m \in {StoringPage(requests[r].version, writes),
                    StoringProfile(writes, {})} :
          m \in RequestStates /\ Become(r, m)
    <3>1. CASE QueryPage(r)
      <4>1. requests[r].version \in Versions
        BY <3>1, VersionOf DEF QueryPage
      <4> QED
        BY <1>0, <3>1, <4>1, Constructed DEF QueryPage
    <3>2. CASE AggregateProfile(r)
      <4>1. StoringProfile(writes, {}) \in RequestStates
        BY <1>0, Constructed
      <4> QED
        BY <3>2, <4>1 DEF AggregateProfile
    <3> QED
      BY <1>2, <3>1, <3>2
  <2>2. requests'[r] = m /\ \A s \in Requests \ {r} : requests'[s] = requests[s]
    BY <2>1, Updated
  <2>3. m.copy = writes
    BY <2>1, Labels
  <2>4. CopiesShow(w)'
    BY <1>2 DEF Fresh, CopiesShow, QueryPage, AggregateProfile
  <2> QED
    BY <1>1, <2>2, <2>3, <2>4 DEF Fresh, Carrying
<1>3. CASE StorePage(r) \/ StoreProfile(r)
  <2>1. requests'[r] = Idle /\ \A s \in Requests \ {r} : requests'[s] = requests[s]
    BY <1>3, Constructed, Updated DEF StorePage, StoreProfile
  <2>2. requests[r].copy >= w
    BY <1>3 DEF Fresh, Carrying, StorePage, StoreProfile
  <2>3. \A v \in Versions : pages'[v] = pages[v] \/ pages'[v] = requests[r].copy
    BY <1>3 DEF StorePage, StoreProfile, TypeOK
  <2>4. profile' = profile \/ profile'.copy = requests[r].copy
    BY <1>3 DEF StorePage, StoreProfile
  <2>5. CopiesShow(w)'
    BY <2>2, <2>3, <2>4 DEF Fresh, CopiesShow
  <2> QED
    BY <1>1, <2>1, <2>5, Labels DEF Fresh, Carrying
<1>4. CASE ReadVersion(r) \/ ServePage(r) \/ MissProfile(r) \/ Abandon(r)
  <2>1. \E m \in RequestStates :
          Become(r, m) /\ m.pc \notin {"storePage", "storeProfile"}
    <3>1. CASE ReadVersion(r)
      BY <1>0, <3>1, Constructed, Labels DEF ReadVersion
    <3>2. CASE ServePage(r) \/ MissProfile(r) \/ Abandon(r)
      BY <3>2, Constructed, Labels DEF ServePage, MissProfile, Abandon
    <3> QED
      BY <1>4, <3>1, <3>2
  <2>2. ~Carrying(r)' /\ \A s \in Requests \ {r} : requests'[s] = requests[s]
    BY <2>1, Updated DEF Carrying
  <2>3. \A s \in Requests : Carrying(s)' =>
          Carrying(s) /\ requests'[s].copy = requests[s].copy
    BY <2>2 DEF Carrying
  <2>4. UNCHANGED <<pages, profile>>
    BY <1>4 DEF ReadVersion, ServePage, MissProfile, Abandon
  <2> QED
    BY <1>1, <2>3, <2>4, FreshQuiet
<1> QED
  BY <1>2, <1>3, <1>4 DEF GetDashboard, GetProfile

LEMMA FreshNext ==
  ASSUME TypeOK, NEW w \in Writes, Fresh(w), [Next]_vars
  PROVE  Fresh(w)'
<1>0. writes \in Nat /\ w \in Nat /\ writes >= w
  BY BoundAssumption DEF TypeOK, Writes, Fresh
<1>1. ASSUME NEW r \in Requests, GetDashboard(r) \/ GetProfile(r) \/ Abandon(r)
      PROVE  Fresh(w)'
  BY <1>1, FreshRequest
<1>2. ASSUME NEW u \in Writes, BustProfile(u) PROVE Fresh(w)'
  <2>1. ASSUME NEW s \in Requests
        PROVE  /\ requests'[s].pc = requests[s].pc
               /\ Carrying(s) => requests'[s].copy = requests[s].copy
    <3>1. CASE requests[s].pc = "storeProfile"
      <4>1. requests[s] \in ProfileStates
        BY <3>1, Shapes DEF TypeOK
      <4>2. requests'[s] = [requests[s] EXCEPT !.missed = requests[s].missed \union {u}]
        BY <1>2, <3>1 DEF BustProfile
      <4> QED
        BY <4>1, <4>2 DEF ProfileStates
    <3>2. CASE requests[s].pc # "storeProfile"
      BY <1>2, <3>2 DEF BustProfile
    <3> QED
      BY <3>1, <3>2
  <2>2. \A s \in Requests : Carrying(s)' =>
          Carrying(s) /\ requests'[s].copy = requests[s].copy
    BY <2>1 DEF Carrying
  <2>3. UNCHANGED <<writes, pages>> /\ profile' = None
    BY <1>2 DEF BustProfile
  <2> QED
    BY <1>0, <2>2, <2>3, FreshQuiet
<1>3. ASSUME NEW v \in Versions, ExpirePage(v) PROVE Fresh(w)'
  <2>1. \A u \in Versions : pages'[u] # None => pages'[u] = pages[u]
    BY <1>3 DEF ExpirePage, TypeOK
  <2>2. UNCHANGED <<writes, profile, requests>>
    BY <1>3 DEF ExpirePage
  <2> QED
    BY <1>0, <2>1, <2>2, FreshQuiet DEF Carrying
<1>4. CASE \/ CommitWrite \/ DropProfile \/ ForgetVersion \/ UNCHANGED vars
           \/ \E u \in Writes : BustDashboardCache(u) \/ LoseBust(u) \/ LoseProfileBust(u)
  <2>1. UNCHANGED <<pages, requests>> /\ (profile' = profile \/ profile' = None)
    BY <1>4 DEF CommitWrite, DropProfile, ForgetVersion, BustDashboardCache, LoseBust,
                LoseProfileBust, vars
  <2>2. writes' = writes \/ writes' = writes + 1
    BY <1>4 DEF CommitWrite, DropProfile, ForgetVersion, BustDashboardCache, LoseBust,
                LoseProfileBust, vars
  <2>3. writes' >= w
    BY <1>0, <2>2
  <2> QED
    BY <2>1, <2>3, FreshQuiet DEF Carrying
<1> QED
  BY <1>1, <1>2, <1>3, <1>4 DEF Next, Change

\* Once every cached copy shows a write, and every copy a request is about to
\* store does, no order of busts, fills, losses and expiries brings a copy back
\* that lacks it: the safety half of EventuallyFresh.
THEOREM FreshIsFinal ==
  ASSUME NEW w \in Writes
  PROVE  Spec => [](Fresh(w) => []Fresh(w))
<1>1. TypeOK /\ Fresh(w) /\ [Next]_vars => Fresh(w)'
  BY FreshNext
<1> QED
  BY <1>1, CacheTypes, PTL DEF Spec

=============================================================================

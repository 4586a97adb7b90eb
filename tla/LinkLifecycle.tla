---------------------------- MODULE LinkLifecycle ----------------------------
(***************************************************************************)
(* The life of a short link: the urls row in PostgreSQL, its copy under    *)
(* url:<code> in Redis, and its one message on the safety:checks stream.   *)
(*                                                                         *)
(* Four kinds of process share that state.  Readers run a redirect         *)
(* (RedirectController.redirect over UrlService.findByCodeWithCache),      *)
(* creators run UrlService.create, deleters UrlService.deleteUrl, and      *)
(* workers the consuming loop of SafetyWorker.  Every await between two    *)
(* accesses to shared state ends an action, so all interleavings of        *)
(* instances of the program are explored.  The messages of different links *)
(* never interact, so the stream is kept as one status per link rather     *)
(* than as a list.                                                         *)
(*                                                                         *)
(* A definition whose comment begins with "Mistake" is no part of the      *)
(* model: it is a plausible bug that the properties are tried against.     *)
(***************************************************************************)
EXTENDS Naturals, FiniteSets

CONSTANTS
  Codes,        \* short codes the generator can return
  Users,        \* owners of links
  Urls,         \* normalised URLs (one per url_hash)
  Readers,      \* redirect requests in flight at a time
  Creators,     \* create requests in flight at a time
  Deleters,     \* delete requests in flight at a time
  Workers,      \* safety workers
  MaxRetries,   \* UrlService.MAX_RETRIES
  BatchSize,    \* messages taken from the stream by one read
  StreamMaxLen, \* entries the stream keeps when it trims the oldest
  Verdicts,     \* what SafetyService.checkUrl may answer
  ReadBack,     \* short code put on the stream -> the one read from it
  Faults,       \* which failures the environment may inject
  None          \* no row, no cached copy, no code

AllVerdicts == {"safe", "unsafe", "skipped", "throws"}
AllFaults == {"db", "redis", "crash", "streamLoss"}

ASSUME NoneAssumption == None \notin Codes
\* parseFields reads every field of a message with JSON.parse and the worker
\* turns the result back with String(): 1e0005 comes back as 100000, and
\* 12e456 as Infinity, which is no link's code.
ASSUME ReadBackAssumption == ReadBack \in [Codes -> Codes]
PlainCodes == \A c \in Codes : ReadBack[c] = c
ASSUME VerdictAssumption == Verdicts \subseteq AllVerdicts
ASSUME FaultAssumption == Faults \subseteq AllFaults
ASSUME BoundAssumption == /\ MaxRetries \in Nat \ {0}
                          /\ BatchSize \in Nat \ {0}
                          /\ StreamMaxLen \in Nat \ {0}

VARIABLES
  row,      \* the urls table: code -> link or None
  cache,    \* Redis url:<code>: code -> link or None
  msg,      \* the safety:checks entry of each code
  group,    \* whether the consumer group safety-workers exists
  readers, creators, deleters, workers,
  dirty,    \* history: the cached copy outlived an invalidation that was lost
  deleted   \* history: the owner's delete of this code reached the table

vars == <<row, cache, msg, group, readers, creators, deleters, workers,
          dirty, deleted>>

-----------------------------------------------------------------------------
Statuses == {"pending", "safe", "unsafe"}
Link == [owner : Users, url : Urls, active : BOOLEAN, checked : BOOLEAN,
         status : Statuses]
ASSUME NoneIsNoLink == None \notin Link

NewLink(u, l) == [owner |-> u, url |-> l, active |-> TRUE, checked |-> FALSE,
                  status |-> "pending"]

IdleReader(answer) == [pc |-> "idle", code |-> None, snap |-> None,
                       lapped |-> FALSE, answer |-> answer]
IdleCreator == [pc |-> "idle", user |-> None, url |-> None, code |-> None,
                tries |-> 0]
IdleDeleter == [pc |-> "idle", code |-> None, snap |-> None, diff |-> {}]
IdleWorker(batch) == [pc |-> "idle", batch |-> batch, code |-> None,
                      verdict |-> None]

Init ==
  /\ row = [c \in Codes |-> None]
  /\ cache = [c \in Codes |-> None]
  /\ msg = [c \in Codes |-> "none"]
  /\ group = TRUE
  /\ readers = [r \in Readers |-> IdleReader("none")]
  /\ creators = [k \in Creators |-> IdleCreator]
  /\ deleters = [d \in Deleters |-> IdleDeleter]
  /\ workers = [w \in Workers |-> IdleWorker({})]
  /\ dirty = [c \in Codes |-> FALSE]
  /\ deleted = [c \in Codes |-> FALSE]

-----------------------------------------------------------------------------
(* The two ways a writer's del url:<code> can end.  lapped and dirty only   *)
(* record what happened; no guard reads them.                              *)

LapReaders(c) ==
  readers' = [r \in Readers |->
                IF readers[r].pc = "fill" /\ readers[r].code = c
                THEN [readers[r] EXCEPT !.lapped = TRUE]
                ELSE readers[r]]

\* DEL url:<code>
Invalidate(c) ==
  /\ cache' = [cache EXCEPT ![c] = None]
  /\ dirty' = [dirty EXCEPT ![c] = FALSE]
  /\ LapReaders(c)

\* The writer wrote the row and will never send its DEL.
LoseInvalidation(c) ==
  /\ cache' = cache
  /\ dirty' = [dirty EXCEPT ![c] = (cache[c] # None)]
  /\ LapReaders(c)

-----------------------------------------------------------------------------
(* Redirects.                                                              *)

\* What the controller sends for a link it was given.
Serve(link) == IF ~link.active THEN "notFound"
               ELSE IF link.status = "unsafe" THEN "warning"
               ELSE "redirect"

\* GET url:<code>.  A failed read is a miss.
ReadCache(r, c) ==
  /\ readers[r].pc = "idle"
  /\ \/ /\ cache[c] # None
        /\ readers' = [readers EXCEPT ![r] = IdleReader(Serve(cache[c]))]
     \/ /\ cache[c] = None \/ "redis" \in Faults
        /\ readers' = [readers EXCEPT ![r] =
             [pc |-> "query", code |-> c, snap |-> None, lapped |-> FALSE,
              answer |-> "none"]]
  /\ UNCHANGED <<row, cache, msg, group, creators, deleters, workers, dirty,
                 deleted>>

IsActive(c) == row[c] # None /\ row[c].active

\* Mistake: the lookup forgets is_active.
QueryAnyRow(r) ==
  LET c == readers[r].code IN
  /\ readers[r].pc = "query"
  /\ readers' = [readers EXCEPT ![r] =
       IF row[c] = None THEN IdleReader("notFound")
       ELSE [pc |-> "fill", code |-> c, snap |-> row[c], lapped |-> FALSE,
             answer |-> "none"]]
  /\ UNCHANGED <<row, cache, msg, group, creators, deleters, workers, dirty,
                 deleted>>

\* SELECT ... WHERE short_code = code AND is_active
QueryRow(r) ==
  LET c == readers[r].code IN
  /\ readers[r].pc = "query"
  /\ \/ /\ IsActive(c)
        /\ readers' = [readers EXCEPT ![r] =
             [pc |-> "fill", code |-> c, snap |-> row[c], lapped |-> FALSE,
              answer |-> "none"]]
     \/ /\ ~IsActive(c)
        /\ readers' = [readers EXCEPT ![r] = IdleReader("notFound")]
     \/ /\ "db" \in Faults
        /\ readers' = [readers EXCEPT ![r] = IdleReader("error")]
  /\ UNCHANGED <<row, cache, msg, group, creators, deleters, workers, dirty,
                 deleted>>

\* SET url:<code> of the row read above.  A failed SET, applied or not,
\* turns the whole lookup into a 500.
FillCache(r) ==
  LET c == readers[r].code
      store == /\ cache' = [cache EXCEPT ![c] = readers[r].snap]
               /\ dirty' = [dirty EXCEPT ![c] = readers[r].lapped]
  IN
  /\ readers[r].pc = "fill"
  /\ \/ /\ store
        /\ readers' = [readers EXCEPT ![r] = IdleReader(Serve(readers[r].snap))]
     \/ /\ "redis" \in Faults
        /\ store \/ UNCHANGED <<cache, dirty>>
        /\ readers' = [readers EXCEPT ![r] = IdleReader("error")]
  /\ UNCHANGED <<row, msg, group, creators, deleters, workers, deleted>>

\* Mistake: the entry is stored without a time to live.
NeverExpire(c) == cache[c] # cache[c] /\ UNCHANGED vars

\* The 24 hour time to live, or an LRU eviction.
ExpireCache(c) ==
  /\ cache[c] # None
  /\ cache' = [cache EXCEPT ![c] = None]
  /\ dirty' = [dirty EXCEPT ![c] = FALSE]
  /\ UNCHANGED <<row, msg, group, readers, creators, deleters, workers,
                 deleted>>

CrashReader(r) ==
  /\ "crash" \in Faults
  /\ readers[r].pc # "idle"
  /\ readers' = [readers EXCEPT ![r] = IdleReader("none")]
  /\ UNCHANGED <<row, cache, msg, group, creators, deleters, workers, dirty,
                 deleted>>

-----------------------------------------------------------------------------
(* Creation.  A blocked domain or an unknown owner is refused before any    *)
(* state is touched, and an existing link is returned without a change.    *)

ActiveLinks(u, l) ==
  {c \in Codes : IsActive(c) /\ row[c].owner = u /\ row[c].url = l}

Deduplicate(k, u, l) ==
  /\ creators[k].pc = "idle"
  /\ ActiveLinks(u, l) = {}
  /\ creators' = [creators EXCEPT ![k] =
       [pc |-> "generate", user |-> u, url |-> l, code |-> None, tries |-> 0]]
  /\ UNCHANGED <<row, cache, msg, group, readers, deleters, workers, dirty,
                 deleted>>

\* Mistake: one turn of the loop too many.
RetryOnceMore(k) ==
  creators' = [creators EXCEPT ![k] =
    IF creators[k].tries < MaxRetries
    THEN [creators[k] EXCEPT !.pc = "generate", !.code = None,
                             !.tries = creators[k].tries + 1]
    ELSE IdleCreator]

\* retries++ and another turn of the loop, or the 500 after the last one.
Retry(k) ==
  LET retries == creators[k].tries + 1 IN
  creators' = [creators EXCEPT ![k] =
    IF retries < MaxRetries
    THEN [creators[k] EXCEPT !.pc = "generate", !.code = None, !.tries = retries]
    ELSE IdleCreator]

\* generate() and the SELECT that looks for a collision; a failed SELECT ends
\* the request.
GenerateCode(k, c) ==
  /\ creators[k].pc = "generate"
  /\ \/ /\ row[c] = None
        /\ creators' = [creators EXCEPT ![k].pc = "insert", ![k].code = c]
     \/ row[c] # None /\ Retry(k)
     \/ "db" \in Faults /\ creators' = [creators EXCEPT ![k] = IdleCreator]
  /\ UNCHANGED <<row, cache, msg, group, readers, deleters, workers, dirty,
                 deleted>>

\* Mistake: short_code without its unique index.
AnyCode(c) == TRUE

\* The unique index on short_code decides between two creators.
CodeIsFree(c) == row[c] = None

\* INSERT.  Any failure, a unique violation included, counts as a collision;
\* an INSERT whose reply is lost leaves a row behind all the same.
InsertRow(k) ==
  LET c == creators[k].code
      insert == /\ CodeIsFree(c)
                /\ row' = [row EXCEPT ![c] =
                             NewLink(creators[k].user, creators[k].url)]
  IN
  /\ creators[k].pc = "insert"
  /\ \/ insert /\ creators' = [creators EXCEPT ![k].pc = "queue"]
     \/ ~CodeIsFree(c) /\ row' = row /\ Retry(k)
     \/ "db" \in Faults /\ (insert \/ row' = row) /\ Retry(k)
  /\ UNCHANGED <<cache, msg, group, readers, deleters, workers, dirty, deleted>>

\* Mistake: the stream read from '0', which delivers pending entries again.
NotAcked == {c \in Codes : msg[c] \in {"waiting", "pending"}}

Waiting == {c \in Codes : msg[c] = "waiting"}

\* XADD safety:checks MAXLEN ~: unread entries are trimmed, a node of the stream
\* at a time, as long as StreamMaxLen of them are left.  A failed XADD is logged
\* and forgotten.
QueueCheck(k) ==
  LET c == creators[k].code IN
  /\ creators[k].pc = "queue"
  /\ \/ \E trimmed \in SUBSET Waiting :
          /\ trimmed = {} \/ Cardinality(Waiting \ trimmed) + 1 >= StreamMaxLen
          /\ msg' = [e \in Codes |-> IF e = c THEN "waiting"
                                    ELSE IF e \in trimmed THEN "lost" ELSE msg[e]]
     \/ "redis" \in Faults /\ msg' = msg
  /\ creators' = [creators EXCEPT ![k] = IdleCreator]
  /\ UNCHANGED <<row, cache, group, readers, deleters, workers, dirty, deleted>>

CrashCreator(k) ==
  /\ "crash" \in Faults
  /\ creators[k].pc # "idle"
  /\ creators' = [creators EXCEPT ![k] = IdleCreator]
  /\ UNCHANGED <<row, cache, msg, group, readers, deleters, workers, dirty,
                 deleted>>

-----------------------------------------------------------------------------
(* Deletion.  TypeORM's save(url) reads the row again, compares it with the *)
(* entity in memory and updates the columns that differ, so columns another *)
(* process changed since the first read are written back as they were.     *)

LoadForDelete(d, c, u) ==
  /\ deleters[d].pc = "idle"
  /\ row[c] # None
  /\ row[c].owner = u
  /\ deleters' = [deleters EXCEPT ![d] =
       [pc |-> "compare", code |-> c, diff |-> {},
        snap |-> [row[c] EXCEPT !.active = FALSE]]]
  /\ UNCHANGED <<row, cache, msg, group, readers, creators, workers, dirty,
                 deleted>>

Diff(old, new) == {col \in {"active", "checked", "status"} : old[col] # new[col]}

Merge(old, new, diff) ==
  [old EXCEPT !.active = IF "active" \in diff THEN new.active ELSE @,
              !.checked = IF "checked" \in diff THEN new.checked ELSE @,
              !.status = IF "status" \in diff THEN new.status ELSE @]

\* No differing column, no UPDATE.
CompareRow(d) ==
  LET c == deleters[d].code
      diff == Diff(row[c], deleters[d].snap)
  IN
  /\ deleters[d].pc = "compare"
  /\ deleters' = [deleters EXCEPT
       ![d].diff = diff, ![d].pc = IF diff = {} THEN "invalidate" ELSE "update"]
  /\ deleted' = [deleted EXCEPT ![c] = @ \/ diff = {}]
  /\ UNCHANGED <<row, cache, msg, group, readers, creators, workers, dirty>>

\* Mistake: the row is saved and the cache forgotten.
UpdateRowOnly(d) ==
  LET c == deleters[d].code IN
  /\ deleters[d].pc = "update"
  /\ row' = [row EXCEPT ![c] = Merge(row[c], deleters[d].snap, deleters[d].diff)]
  /\ deleters' = [deleters EXCEPT ![d] = IdleDeleter]
  /\ deleted' = [deleted EXCEPT ![c] = TRUE]
  /\ UNCHANGED <<cache, msg, group, readers, creators, workers, dirty>>

UpdateRow(d) ==
  LET c == deleters[d].code IN
  /\ deleters[d].pc = "update"
  /\ row' = [row EXCEPT ![c] = Merge(row[c], deleters[d].snap, deleters[d].diff)]
  /\ deleters' = [deleters EXCEPT ![d].pc = "invalidate"]
  /\ deleted' = [deleted EXCEPT ![c] = TRUE]
  /\ UNCHANGED <<cache, msg, group, readers, creators, workers, dirty>>

\* save() failed, or committed and its reply was lost: a 500 and no DEL.
FailDelete(d) ==
  LET c == deleters[d].code IN
  /\ "db" \in Faults
  /\ deleters[d].pc \in {"compare", "update"}
  /\ \/ UNCHANGED <<row, cache, readers, dirty, deleted>>
     \/ /\ deleters[d].pc = "update"
        /\ row' = [row EXCEPT ![c] = Merge(row[c], deleters[d].snap, deleters[d].diff)]
        /\ deleted' = [deleted EXCEPT ![c] = TRUE]
        /\ LoseInvalidation(c)
  /\ deleters' = [deleters EXCEPT ![d] = IdleDeleter]
  /\ UNCHANGED <<msg, group, creators, workers>>

InvalidateDeleted(d) ==
  /\ deleters[d].pc = "invalidate"
  /\ \/ Invalidate(deleters[d].code)
     \/ "redis" \in Faults /\ LoseInvalidation(deleters[d].code)
  /\ deleters' = [deleters EXCEPT ![d] = IdleDeleter]
  /\ UNCHANGED <<row, msg, group, creators, workers, deleted>>

CrashDeleter(d) ==
  /\ "crash" \in Faults
  /\ deleters[d].pc # "idle"
  /\ IF deleters[d].pc = "invalidate"
     THEN LoseInvalidation(deleters[d].code)
     ELSE UNCHANGED <<cache, readers, dirty>>
  /\ deleters' = [deleters EXCEPT ![d] = IdleDeleter]
  /\ UNCHANGED <<row, msg, group, creators, workers, deleted>>

-----------------------------------------------------------------------------
(* The safety worker.  XREADGROUP asks for '>' only: entries never          *)
(* delivered to anyone.  What was delivered and not acknowledged stays      *)
(* "pending", and no code reads it again.                                  *)

ReadStream(w) ==
  /\ workers[w].pc = "idle" /\ workers[w].batch = {}
  /\ group
  /\ \E batch \in SUBSET Waiting :
       /\ batch # {}
       /\ Cardinality(batch) = BatchSize
            \/ (Cardinality(batch) < BatchSize /\ batch = Waiting)
       /\ msg' = [c \in Codes |-> IF c \in batch THEN "pending" ELSE msg[c]]
       /\ \/ workers' = [workers EXCEPT ![w].batch = batch]
          \/ "redis" \in Faults /\ workers' = workers    \* the reply is lost
  /\ UNCHANGED <<row, cache, group, readers, creators, deleters, dirty, deleted>>

\* Mistake: only one message of a batch is looked at.
CheckOneUrl(w, c, v) ==
  /\ workers[w].pc = "idle" /\ c \in workers[w].batch
  /\ workers' = [workers EXCEPT ![w] =
       [pc |-> "persist", batch |-> {}, code |-> c, verdict |-> v]]
  /\ UNCHANGED <<row, cache, msg, group, readers, creators, deleters, dirty,
                 deleted>>

\* SafetyService.checkUrl on the next message of the batch.  When it throws
\* the message is neither persisted nor acknowledged.
CheckUrl(w, c, v) ==
  /\ workers[w].pc = "idle" /\ c \in workers[w].batch
  /\ workers' = [workers EXCEPT ![w] =
       IF v = "throws"
       THEN IdleWorker(workers[w].batch \ {c})
       ELSE [pc |-> "persist", batch |-> workers[w].batch \ {c}, code |-> c,
             verdict |-> v]]
  /\ UNCHANGED <<row, cache, msg, group, readers, creators, deleters, dirty,
                 deleted>>

Judged(link, v) ==
  IF v = "skipped" THEN [link EXCEPT !.checked = FALSE]
  ELSE [link EXCEPT !.checked = TRUE, !.active = (v = "safe"), !.status = v]

\* The short code in the message, as the worker reads it.
Named(w) == ReadBack[workers[w].code]

\* Mistake: the verdict is stored and acknowledged without a DEL.
PersistOnly(w) ==
  /\ workers[w].pc = "persist"
  /\ row' = [row EXCEPT ![Named(w)] = Judged(row[Named(w)], workers[w].verdict)]
  /\ workers' = [workers EXCEPT ![w].pc = "ack"]
  /\ UNCHANGED <<cache, readers, dirty, msg, group, creators, deleters, deleted>>

\* UPDATE urls ... WHERE short_code = code.  When it fails the DEL is skipped
\* and the message is acknowledged all the same.
PersistVerdict(w) ==
  LET c == Named(w)
      update == row' = IF row[c] = None THEN row
                       ELSE [row EXCEPT ![c] = Judged(row[c], workers[w].verdict)]
  IN
  /\ workers[w].pc = "persist"
  /\ \/ /\ update
        /\ workers' = [workers EXCEPT ![w].pc = "invalidate"]
        /\ UNCHANGED <<cache, readers, dirty>>
     \/ /\ "db" \in Faults
        /\ (update /\ LoseInvalidation(c)) \/ UNCHANGED <<row, cache, readers, dirty>>
        /\ workers' = [workers EXCEPT ![w].pc = "ack"]
  /\ UNCHANGED <<msg, group, creators, deleters, deleted>>

InvalidateJudged(w) ==
  /\ workers[w].pc = "invalidate"
  /\ \/ Invalidate(Named(w))
     \/ "redis" \in Faults /\ LoseInvalidation(Named(w))
  /\ workers' = [workers EXCEPT ![w].pc = "ack"]
  /\ UNCHANGED <<row, msg, group, creators, deleters, deleted>>

\* Mistake: a message whose XACK failed is processed once more.
AckOrRepeat(w) ==
  LET c == workers[w].code IN
  /\ workers[w].pc = "ack"
  /\ \/ /\ msg' = [msg EXCEPT ![c] = IF @ = "pending" THEN "acked" ELSE @]
        /\ workers' = [workers EXCEPT ![w] = IdleWorker(workers[w].batch)]
     \/ /\ "redis" \in Faults /\ msg' = msg
        /\ workers' = [workers EXCEPT ![w] =
             IdleWorker(workers[w].batch \union {c})]
  /\ UNCHANGED <<row, cache, group, readers, creators, deleters, dirty, deleted>>

\* XACK.  When it fails the message stays pending.
AckMessage(w) ==
  LET c == workers[w].code IN
  /\ workers[w].pc = "ack"
  /\ \/ msg' = [msg EXCEPT ![c] = IF @ = "pending" THEN "acked" ELSE @]
     \/ "redis" \in Faults /\ msg' = msg
  /\ workers' = [workers EXCEPT ![w] = IdleWorker(workers[w].batch)]
  /\ UNCHANGED <<row, cache, group, readers, creators, deleters, dirty, deleted>>

CrashWorker(w) ==
  /\ "crash" \in Faults
  /\ workers[w].pc # "down"
  /\ IF workers[w].pc = "invalidate"
     THEN LoseInvalidation(Named(w))
     ELSE UNCHANGED <<cache, readers, dirty>>
  /\ workers' = [workers EXCEPT ![w] =
       [pc |-> "down", batch |-> {}, code |-> None, verdict |-> None]]
  /\ UNCHANGED <<row, msg, group, creators, deleters, deleted>>

\* A new process creates the group at '0' when it is missing; a failure to
\* do so is swallowed.
StartWorker(w) ==
  /\ workers[w].pc = "down"
  /\ group' = TRUE \/ ("redis" \in Faults /\ group' = group)
  /\ workers' = [workers EXCEPT ![w] = IdleWorker({})]
  /\ UNCHANGED <<row, cache, msg, readers, creators, deleters, dirty, deleted>>

\* Redis restarts empty (nothing is persisted) or evicts the stream's key.
LoseStream ==
  /\ "streamLoss" \in Faults
  /\ group' = FALSE
  /\ msg' = [c \in Codes |-> IF msg[c] \in {"waiting", "pending"}
                             THEN "lost" ELSE msg[c]]
  /\ UNCHANGED <<row, cache, readers, creators, deleters, workers, dirty,
                 deleted>>

-----------------------------------------------------------------------------
Redirecting == \E r \in Readers : \/ \E c \in Codes : ReadCache(r, c)
                                  \/ QueryRow(r) \/ FillCache(r)
                                  \/ CrashReader(r)
Creating == \E k \in Creators :
              \/ \E u \in Users, l \in Urls : Deduplicate(k, u, l)
              \/ \E c \in Codes : GenerateCode(k, c)
              \/ InsertRow(k) \/ QueueCheck(k) \/ CrashCreator(k)
Deleting == \E d \in Deleters :
              \/ \E c \in Codes, u \in Users : LoadForDelete(d, c, u)
              \/ CompareRow(d) \/ UpdateRow(d) \/ FailDelete(d)
              \/ InvalidateDeleted(d) \/ CrashDeleter(d)
Checking == \E w \in Workers :
              \/ ReadStream(w)
              \/ \E c \in Codes, v \in Verdicts : CheckUrl(w, c, v)
              \/ PersistVerdict(w) \/ InvalidateJudged(w) \/ AckMessage(w)
              \/ CrashWorker(w) \/ StartWorker(w)
Environment == LoseStream \/ \E c \in Codes : ExpireCache(c)

Next == Redirecting \/ Creating \/ Deleting \/ Checking \/ Environment

Spec == Init /\ [][Next]_vars

\* What a running instance keeps doing: requests in flight go on, the worker
\* loop turns, and a time to live runs out.
Fairness ==
  /\ \A r \in Readers : WF_vars(QueryRow(r)) /\ WF_vars(FillCache(r))
  /\ \A k \in Creators : WF_vars(InsertRow(k)) /\ WF_vars(QueueCheck(k))
  /\ \A d \in Deleters : /\ WF_vars(CompareRow(d)) /\ WF_vars(UpdateRow(d))
                         /\ WF_vars(InvalidateDeleted(d))
  /\ \A w \in Workers :
       /\ WF_vars(ReadStream(w))
       /\ WF_vars(\E c \in Codes, v \in Verdicts : CheckUrl(w, c, v))
       /\ WF_vars(PersistVerdict(w)) /\ WF_vars(InvalidateJudged(w))
       /\ WF_vars(AckMessage(w))
  /\ \A c \in Codes : WF_vars(ExpireCache(c))

FairSpec == Spec /\ Fairness

-----------------------------------------------------------------------------
Answers == {"none", "redirect", "notFound", "warning", "error"}

ReaderStates ==
  [pc : {"idle"}, code : {None}, snap : {None}, lapped : {FALSE},
   answer : Answers] \union
  [pc : {"query"}, code : Codes, snap : {None}, lapped : {FALSE},
   answer : {"none"}] \union
  [pc : {"fill"}, code : Codes, snap : Link, lapped : BOOLEAN, answer : {"none"}]

CreatorStates ==
  {IdleCreator} \union
  [pc : {"generate"}, user : Users, url : Urls, code : {None},
   tries : 0 .. MaxRetries - 1] \union
  [pc : {"insert", "queue"}, user : Users, url : Urls, code : Codes,
   tries : 0 .. MaxRetries - 1]

DeleterStates ==
  {IdleDeleter} \union
  [pc : {"compare", "update", "invalidate"}, code : Codes, snap : Link,
   diff : SUBSET {"active", "checked", "status"}]

WorkerStates ==
  [pc : {"idle", "down"}, batch : SUBSET Codes, code : {None},
   verdict : {None}] \union
  [pc : {"persist", "invalidate", "ack"}, batch : SUBSET Codes, code : Codes,
   verdict : Verdicts \ {"throws"}]

\* Every variable has the shape the code gives it, in every phase of every
\* request.
TypeOK ==
  /\ row \in [Codes -> Link \union {None}]
  /\ cache \in [Codes -> Link \union {None}]
  /\ msg \in [Codes -> {"none", "waiting", "pending", "acked", "lost"}]
  /\ group \in BOOLEAN
  /\ readers \in [Readers -> ReaderStates]
  /\ creators \in [Creators -> CreatorStates]
  /\ deleters \in [Deleters -> DeleterStates]
  /\ workers \in [Workers -> WorkerStates]
  /\ dirty \in [Codes -> BOOLEAN]
  /\ deleted \in [Codes -> BOOLEAN]

-----------------------------------------------------------------------------
\* Some writer has written the row of c and its DEL is still to come.
InvalidationDue(c) ==
  \/ \E d \in Deleters : deleters[d].pc = "invalidate" /\ deleters[d].code = c
  \/ \E w \in Workers : workers[w].pc = "invalidate" /\ Named(w) = c

\* Cache-aside: a cached link is the row, unless the DEL that follows the
\* latest write is still to come, was lost (an error, a crash), or came while
\* the reader that filled the entry was between its SELECT and its SET.
\* The code has no other way to serve a stale link.
CacheCoherent ==
  \A c \in Codes : cache[c] # None =>
    row[c] = cache[c] \/ InvalidationDue(c) \/ dirty[c]

\* The same of a row a reader holds and is about to store.
FillsCoherent ==
  \A r \in Readers : readers[r].pc = "fill" =>
    LET c == readers[r].code IN
    row[c] = readers[r].snap \/ InvalidationDue(c) \/ readers[r].lapped

\* A link found unsafe is not active, in the table, in the cache and in any
\* reader's hands, whatever a delete writes back.  So the warning page of the
\* redirect controller is never sent: such a link is a 404.  It holds for codes
\* that the stream gives back as they were (PlainCodes): the verdict on a code
\* such as 1e0005 is stored on the row of another code, or on none.
UnsafeNeverActive ==
  /\ \A c \in Codes : IsActive(c) => row[c].status # "unsafe"
  /\ \A c \in Codes : cache[c] # None => cache[c].active /\ cache[c].status # "unsafe"
  /\ \A r \in Readers : readers[r].answer # "warning"

\* The place where the check of c is still to be done, if any.
AboutToQueue(c) ==
  {k \in Creators : creators[k].pc = "queue" /\ creators[k].code = c}
Holding(c) ==
  {w \in Workers : c \in workers[w].batch
                   \/ (workers[w].pc = "persist" /\ workers[w].code = c)}
Outstanding(c) ==
  AboutToQueue(c) # {} \/ msg[c] = "waiting" \/ Holding(c) # {}

\* The rows, as the owner of a link sees them, implement LinkDirectory.
TargetOf == [c \in Codes |-> IF row[c] = None THEN None
                             ELSE <<row[c].owner, row[c].url>>]
LiveOf == [c \in Codes |-> IsActive(c)]
CheckOf == [c \in Codes |-> IF row[c] = None THEN "none"
                            ELSE IF Outstanding(c) THEN "due" ELSE "settled"]
Directory == INSTANCE LinkDirectory WITH
  Targets <- Users \X Urls, target <- TargetOf, live <- LiveOf, check <- CheckOf

\* A code is given to one link for good, its check is settled at most once,
\* and after that nothing (no redelivery, no second verdict, no delete that
\* writes an old copy of the row back) makes an inactive link active again.  It
\* holds for codes that the stream gives back as they were (PlainCodes): a code
\* such as 1e0005 brings its verdict to another link.
ImplementsDirectory == Directory!Spec

\* A create that was told its row is new, and is about to queue its check,
\* owns that row: of two creates that picked the same free code only one got
\* it.
NewRowIsOwn ==
  \A k \in Creators : creators[k].pc = "queue" =>
    LET c == creators[k].code IN
    /\ row[c].owner = creators[k].user /\ row[c].url = creators[k].url
    /\ AboutToQueue(c) = {k}

-----------------------------------------------------------------------------
(* The inductive invariant.                                                *)

\* No row is ever removed, so whatever mentions a code mentions a row.
RowsStay ==
  /\ \A c \in Codes : cache[c] # None \/ msg[c] # "none" => row[c] # None
  /\ \A r \in Readers : readers[r].pc = "fill" => row[readers[r].code] # None
  /\ \A k \in Creators : creators[k].pc = "queue" => row[creators[k].code] # None
  /\ \A d \in Deleters : deleters[d].pc # "idle" => row[deleters[d].code] # None
  /\ \A w \in Workers : \A c \in Codes :
       c \in workers[w].batch \/ c = workers[w].code => row[c] # None

\* The check of a link is in one place: a creator's hands, the stream, or one
\* worker's hands.
CheckInOnePlace ==
  /\ \A k \in Creators : creators[k].pc = "queue" => msg[creators[k].code] = "none"
  /\ \A c \in Codes : msg[c] \in {"none", "waiting"} => Holding(c) = {}
  /\ \A w \in Workers : workers[w].code \notin workers[w].batch
  /\ \A v, w \in Workers : \A c \in Codes :
       v \in Holding(c) /\ w \in Holding(c) => v = w

\* Until then neither the row nor any copy a delete may write back shows a
\* verdict.
NoVerdictWhileDue ==
  \A c \in Codes : Outstanding(c) =>
    /\ row[c].status = "pending" /\ ~row[c].checked
    /\ \A d \in Deleters : deleters[d].pc # "idle" /\ deleters[d].code = c =>
         deleters[d].snap.status = "pending" /\ ~deleters[d].snap.checked

\* A delete only ever writes is_active = false; one that found the row already
\* inactive leaves the column out, and if a verdict has activated the row
\* since then, its copy predates every verdict.
DeletesAreHarmless ==
  \A d \in Deleters :
    /\ deleters[d].pc # "idle" => ~deleters[d].snap.active
    /\ deleters[d].pc = "update" /\ "active" \notin deleters[d].diff
         /\ IsActive(deleters[d].code) => deleters[d].snap.status = "pending"

\* Readers store active rows without an unsafe verdict, and nothing else.
FillsAreSafe ==
  \A r \in Readers : readers[r].pc = "fill" =>
    readers[r].snap.active /\ readers[r].snap.status # "unsafe"

IInv ==
  /\ TypeOK /\ RowsStay
  /\ CacheCoherent /\ FillsCoherent
  /\ CheckInOnePlace /\ NoVerdictWhileDue /\ NewRowIsOwn
  /\ DeletesAreHarmless /\ FillsAreSafe /\ UnsafeNeverActive

-----------------------------------------------------------------------------
\* A link that stays inactive in the table stops being served: no cached copy
\* of it survives for ever, however the deletes, the fills and the failures
\* interleave.
InactiveIsForgotten ==
  \A c \in Codes :
    <>[](~IsActive(c)) => <>[](cache[c] = None)

\* Without failures every new link is judged, or taken down by its owner.
\* (A delete may write checked = FALSE back over a verdict.)  It holds for codes
\* that the stream gives back as they were (PlainCodes): one such as 1e0005 is
\* never judged.
PublishedIsJudged ==
  \A c \in Codes : IsActive(c) ~> (IsActive(c) => row[c].checked)

-----------------------------------------------------------------------------
(* What the README says and the code does not do.                          *)

\* README.md:43: "URLs are deactivated (is_active=false)"; the redirect's
\* 404 reads "URL not found or has been deleted".
DeletedStaysInactive == \A c \in Codes : deleted[c] => ~IsActive(c)

=============================================================================

------------------------- MODULE LinkLifecycleProofs -------------------------
(***************************************************************************)
(* Theorems about LinkLifecycle, for every number of codes, owners,        *)
(* requests and workers and every set of failures: first what holds with   *)
(* any code, then what needs PlainCodes, and the refinement of             *)
(* LinkDirectory.                                                          *)
(***************************************************************************)
EXTENDS LinkLifecycle, TLAPS

-----------------------------------------------------------------------------
(* What a request in a given phase holds.                                  *)

LEMMA ReaderFields ==
  ASSUME NEW s \in ReaderStates
  PROVE  /\ s.pc \in {"idle", "query", "fill"}
         /\ s.pc \in {"query", "fill"} => s.code \in Codes
         /\ s.pc = "fill" => s.snap \in Link /\ s.lapped \in BOOLEAN
         /\ s.pc = "fill" => /\ [s EXCEPT !.lapped = TRUE] \in ReaderStates
                             /\ [s EXCEPT !.lapped = TRUE].pc = s.pc
                             /\ [s EXCEPT !.lapped = TRUE].code = s.code
                             /\ [s EXCEPT !.lapped = TRUE].snap = s.snap
                             /\ [s EXCEPT !.lapped = TRUE].answer = s.answer
                             /\ [s EXCEPT !.lapped = TRUE].lapped
         /\ s.answer \in Answers
BY DEF ReaderStates, Answers

LEMMA CreatorFields ==
  ASSUME NEW s \in CreatorStates
  PROVE  /\ s.pc \in {"idle", "generate", "insert", "queue"}
         /\ s.pc # "idle" => /\ s.user \in Users /\ s.url \in Urls
                             /\ s.tries \in 0 .. MaxRetries - 1
         /\ s.pc \in {"insert", "queue"} => s.code \in Codes
BY DEF CreatorStates, IdleCreator

LEMMA DeleterFields ==
  ASSUME NEW s \in DeleterStates
  PROVE  /\ s.pc \in {"idle", "compare", "update", "invalidate"}
         /\ s.pc # "idle" => /\ s.code \in Codes /\ s.snap \in Link
                             /\ s.diff \in SUBSET {"active", "checked", "status"}
BY DEF DeleterStates, IdleDeleter

LEMMA WorkerFields ==
  ASSUME NEW s \in WorkerStates
  PROVE  /\ s.pc \in {"idle", "down", "persist", "invalidate", "ack"}
         /\ s.batch \in SUBSET Codes
         /\ s.pc \in {"idle", "down"} => s.code = None
         /\ s.pc \in {"persist", "invalidate", "ack"} =>
              s.code \in Codes /\ s.verdict \in {"safe", "unsafe", "skipped"}
BY VerdictAssumption DEF WorkerStates, AllVerdicts

LEMMA CreatorMoves ==
  ASSUME NEW s \in CreatorStates, s.pc # "idle"
  PROVE  /\ \A n \in 0 .. MaxRetries - 1 :
              [s EXCEPT !.pc = "generate", !.code = None, !.tries = n]
                \in CreatorStates
         /\ \A c \in Codes : [s EXCEPT !.pc = "insert", !.code = c] \in CreatorStates
         /\ s.code \in Codes => [s EXCEPT !.pc = "queue"] \in CreatorStates
<1> DEFINE G == [pc : {"generate"}, user : Users, url : Urls, code : {None},
                 tries : 0 .. MaxRetries - 1]
           I == [pc : {"insert", "queue"}, user : Users, url : Urls,
                 code : Codes, tries : 0 .. MaxRetries - 1]
<1>1. CreatorStates = {IdleCreator} \union G \union I
  BY DEF CreatorStates
<1>2. s \in G \/ s \in I
  BY <1>1 DEF IdleCreator
<1>3. CASE s \in G
  <2>1. \A n \in 0 .. MaxRetries - 1 :
          [s EXCEPT !.pc = "generate", !.code = None, !.tries = n] \in G
    BY <1>3
  <2>2. \A c \in Codes : [s EXCEPT !.pc = "insert", !.code = c] \in I
    BY <1>3
  <2>3. s.code \in Codes => [s EXCEPT !.pc = "queue"] \in I
    BY <1>3
  <2> QED BY <1>1, <2>1, <2>2, <2>3
<1>4. CASE s \in I
  <2>1. \A n \in 0 .. MaxRetries - 1 :
          [s EXCEPT !.pc = "generate", !.code = None, !.tries = n] \in G
    BY <1>4
  <2>2. \A c \in Codes : [s EXCEPT !.pc = "insert", !.code = c] \in I
    BY <1>4
  <2>3. [s EXCEPT !.pc = "queue"] \in I
    BY <1>4
  <2> QED BY <1>1, <2>1, <2>2, <2>3
<1> QED BY <1>2, <1>3, <1>4

LEMMA CreatorMoved ==
  ASSUME NEW s \in CreatorStates
  PROVE  /\ \A n : [s EXCEPT !.pc = "generate", !.code = None, !.tries = n].pc = "generate"
         /\ \A c : [s EXCEPT !.pc = "insert", !.code = c].pc = "insert"
         /\ LET q == [s EXCEPT !.pc = "queue"] IN
              q.pc = "queue" /\ q.code = s.code /\ q.user = s.user /\ q.url = s.url
BY DEF CreatorStates, IdleCreator

LEMMA DeleterMoves ==
  ASSUME NEW s \in DeleterStates, s.pc # "idle"
  PROVE  \A p \in {"compare", "update", "invalidate"},
            diff \in SUBSET {"active", "checked", "status"} :
           [s EXCEPT !.diff = diff, !.pc = p] \in DeleterStates
<1> DEFINE B == [pc : {"compare", "update", "invalidate"}, code : Codes,
                 snap : Link, diff : SUBSET {"active", "checked", "status"}]
<1>1. DeleterStates = {IdleDeleter} \union B
  BY DEF DeleterStates
<1>2. s \in B
  BY <1>1 DEF IdleDeleter
<1> QED BY <1>1, <1>2

LEMMA WorkerMoved ==
  ASSUME NEW s \in WorkerStates
  PROVE  /\ \A b : /\ [s EXCEPT !.batch = b].pc = s.pc
                   /\ [s EXCEPT !.batch = b].code = s.code
                   /\ [s EXCEPT !.batch = b].batch = b
         /\ \A p : /\ [s EXCEPT !.pc = p].pc = p
                   /\ [s EXCEPT !.pc = p].code = s.code
                   /\ [s EXCEPT !.pc = p].batch = s.batch
BY DEF WorkerStates

LEMMA DeleterMoved ==
  ASSUME NEW s \in DeleterStates
  PROVE  /\ \A diff, p : LET t == [s EXCEPT !.diff = diff, !.pc = p] IN
              t.pc = p /\ t.diff = diff /\ t.code = s.code /\ t.snap = s.snap
         /\ \A p : LET t == [s EXCEPT !.pc = p] IN
              t.pc = p /\ t.diff = s.diff /\ t.code = s.code /\ t.snap = s.snap
BY DEF DeleterStates, IdleDeleter

LEMMA NamedCode ==
  ASSUME TypeOK, NEW w \in Workers,
         workers[w].pc \in {"persist", "invalidate", "ack"}
  PROVE  Named(w) \in Codes
BY WorkerFields, ReadBackAssumption DEF Named, TypeOK

LEMMA IdleReaderType == \A a \in Answers : IdleReader(a) \in ReaderStates
BY DEF ReaderStates, IdleReader

LEMMA ServeType == \A link \in Link : Serve(link) \in Answers
BY DEF Serve, Answers

LEMMA MergeType ==
  ASSUME NEW old \in Link, NEW new \in Link, NEW diff
  PROVE  /\ Merge(old, new, diff) \in Link
         /\ Merge(old, new, diff).active =
              IF "active" \in diff THEN new.active ELSE old.active
         /\ Merge(old, new, diff).checked =
              IF "checked" \in diff THEN new.checked ELSE old.checked
         /\ Merge(old, new, diff).status =
              IF "status" \in diff THEN new.status ELSE old.status
         /\ Merge(old, new, diff).owner = old.owner
         /\ Merge(old, new, diff).url = old.url
BY DEF Merge, Link

LEMMA JudgedType ==
  ASSUME NEW link \in Link, NEW v \in {"safe", "unsafe", "skipped"}
  PROVE  /\ Judged(link, v) \in Link
         /\ Judged(link, v).owner = link.owner
         /\ Judged(link, v).url = link.url
         /\ v = "skipped" => /\ Judged(link, v).active = link.active
                             /\ Judged(link, v).status = link.status
         /\ v # "skipped" => /\ Judged(link, v).active = (v = "safe")
                             /\ Judged(link, v).status = v
BY DEF Judged, Link, Statuses

LEMMA LapKeeps ==
  ASSUME readers \in [Readers -> ReaderStates], NEW c \in Codes, LapReaders(c),
         NEW r \in Readers
  PROVE  /\ readers'[r].pc = readers[r].pc
         /\ readers'[r].code = readers[r].code
         /\ readers'[r].snap = readers[r].snap
         /\ readers'[r].answer = readers[r].answer
         /\ readers[r].lapped => readers'[r].lapped
         /\ readers[r].pc = "fill" /\ readers[r].code = c => readers'[r].lapped
<1>1. CASE readers[r].pc = "fill" /\ readers[r].code = c
  <2>1. readers'[r] = [readers[r] EXCEPT !.lapped = TRUE]
    BY <1>1 DEF LapReaders
  <2> QED BY <1>1, <2>1, ReaderFields
<1>2. CASE ~(readers[r].pc = "fill" /\ readers[r].code = c)
  BY <1>2 DEF LapReaders
<1> QED BY <1>1, <1>2

LEMMA LapType ==
  ASSUME readers \in [Readers -> ReaderStates], NEW c \in Codes, LapReaders(c)
  PROVE  readers' \in [Readers -> ReaderStates]
BY ReaderFields DEF LapReaders

-----------------------------------------------------------------------------
(* Type correctness.  TypeOK needs RowsStay: a row that is written back or  *)
(* judged has to exist.                                                    *)

LEMMA TypeInit == Init => TypeOK /\ RowsStay
BY NoneAssumption, IdleReaderType
   DEF Init, TypeOK, RowsStay, Answers, IdleReader, IdleCreator, CreatorStates,
       IdleDeleter, DeleterStates, IdleWorker, WorkerStates

LEMMA TypeNext == TypeOK /\ RowsStay /\ [Next]_vars => TypeOK'
<1> SUFFICES ASSUME TypeOK, RowsStay, [Next]_vars PROVE TypeOK'
    OBVIOUS
<1> USE NoneAssumption DEF TypeOK
<1>1. ASSUME NEW r \in Readers, NEW c \in Codes, ReadCache(r, c) PROVE TypeOK'
  <2>1. cache[c] # None => IdleReader(Serve(cache[c])) \in ReaderStates
    BY IdleReaderType, ServeType
  <2>2. [pc |-> "query", code |-> c, snap |-> None, lapped |-> FALSE,
         answer |-> "none"] \in ReaderStates
    BY DEF ReaderStates
  <2> QED BY <1>1, <2>1, <2>2 DEF ReadCache
<1>2. ASSUME NEW r \in Readers, QueryRow(r) PROVE TypeOK'
  <2> DEFINE c == readers[r].code
  <2>1. c \in Codes
    BY <1>2, ReaderFields DEF QueryRow
  <2>2. IsActive(c) => [pc |-> "fill", code |-> c, snap |-> row[c],
                        lapped |-> FALSE, answer |-> "none"] \in ReaderStates
    BY <2>1 DEF ReaderStates, IsActive
  <2>3. IdleReader("notFound") \in ReaderStates /\ IdleReader("error") \in ReaderStates
    BY IdleReaderType DEF Answers
  <2> QED BY <1>2, <2>2, <2>3 DEF QueryRow
<1>3. ASSUME NEW r \in Readers, FillCache(r) PROVE TypeOK'
  <2> DEFINE s == readers[r]
  <2>1. s.code \in Codes /\ s.snap \in Link /\ s.lapped \in BOOLEAN
    BY <1>3, ReaderFields DEF FillCache
  <2>2. IdleReader("error") \in ReaderStates /\ IdleReader(Serve(s.snap)) \in ReaderStates
    BY <2>1, IdleReaderType, ServeType DEF Answers
  <2> QED BY <1>3, <2>1, <2>2 DEF FillCache
<1>4. ASSUME NEW r \in Readers, CrashReader(r) PROVE TypeOK'
  BY <1>4, IdleReaderType DEF CrashReader, Answers
<1>5. ASSUME NEW k \in Creators, NEW u \in Users, NEW l \in Urls,
             Deduplicate(k, u, l) PROVE TypeOK'
  <2>1. [pc |-> "generate", user |-> u, url |-> l, code |-> None, tries |-> 0]
           \in CreatorStates
    BY BoundAssumption DEF CreatorStates
  <2> QED BY <1>5, <2>1 DEF Deduplicate
<1>6. ASSUME NEW k \in Creators, creators[k].pc # "idle", Retry(k)
      PROVE creators' \in [Creators -> CreatorStates]
  <2>1. creators[k].user \in Users /\ creators[k].url \in Urls
        /\ creators[k].tries \in 0 .. MaxRetries - 1
    BY <1>6, CreatorFields
  <2>2. CASE creators[k].tries + 1 < MaxRetries
    <3>1. creators[k].tries + 1 \in 0 .. MaxRetries - 1
      BY <2>1, <2>2, BoundAssumption
    <3> QED BY <1>6, <2>2, <3>1, CreatorMoves DEF Retry
  <2>3. CASE ~(creators[k].tries + 1 < MaxRetries)
    BY <1>6, <2>3 DEF Retry, CreatorStates
  <2> QED BY <2>2, <2>3
<1>7. ASSUME NEW k \in Creators, NEW c \in Codes, GenerateCode(k, c) PROVE TypeOK'
  <2>2. CASE Retry(k)
    BY <1>6, <1>7, <2>2 DEF GenerateCode
  <2>3. CASE creators' = [creators EXCEPT ![k].pc = "insert", ![k].code = c]
             /\ creators[k].pc = "generate"
    <3>1. [creators[k] EXCEPT !.pc = "insert", !.code = c] \in CreatorStates
      BY <1>7, <2>3, CreatorMoves DEF GenerateCode
    <3> QED BY <1>7, <2>3, <3>1 DEF GenerateCode
  <2>4. CASE creators' = [creators EXCEPT ![k] = IdleCreator]
    BY <1>7, <2>4 DEF GenerateCode, CreatorStates
  <2> QED BY <1>7, <2>2, <2>3, <2>4 DEF GenerateCode
<1>8. ASSUME NEW k \in Creators, InsertRow(k) PROVE TypeOK'
  <2> DEFINE s == creators[k]
  <2>1. s.code \in Codes /\ NewLink(s.user, s.url) \in Link
    BY <1>8, CreatorFields DEF InsertRow, NewLink, Link, Statuses
  <2>2. [s EXCEPT !.pc = "queue"] \in CreatorStates
    BY <1>8 DEF InsertRow, CreatorStates, IdleCreator
  <2>3. row' \in [Codes -> Link \union {None}]
    BY <1>8, <2>1 DEF InsertRow
  <2>4. creators' \in [Creators -> CreatorStates]
    BY <1>6, <1>8, <2>2 DEF InsertRow
  <2> QED BY <1>8, <2>3, <2>4 DEF InsertRow
<1>9. ASSUME NEW k \in Creators, QueueCheck(k) PROVE TypeOK'
  <2>1. msg' \in [Codes -> {"none", "waiting", "pending", "acked", "lost"}]
    BY <1>9 DEF QueueCheck
  <2>2. creators' \in [Creators -> CreatorStates]
    BY <1>9 DEF QueueCheck, CreatorStates
  <2> QED BY <1>9, <2>1, <2>2 DEF QueueCheck
<1>10. ASSUME NEW k \in Creators, CrashCreator(k) PROVE TypeOK'
  BY <1>10 DEF CrashCreator, CreatorStates
<1>11. ASSUME NEW d \in Deleters, NEW c \in Codes, NEW u \in Users,
              LoadForDelete(d, c, u) PROVE TypeOK'
  <2>1. [row[c] EXCEPT !.active = FALSE] \in Link
    <3>1. row[c] \in Link
      BY <1>11 DEF LoadForDelete
    <3> QED BY <3>1 DEF Link
  <2>2. [pc |-> "compare", code |-> c, diff |-> {},
         snap |-> [row[c] EXCEPT !.active = FALSE]] \in DeleterStates
    BY <2>1 DEF DeleterStates
  <2> QED BY <1>11, <2>2 DEF LoadForDelete
<1>12. ASSUME NEW d \in Deleters, CompareRow(d) PROVE TypeOK'
  <2> DEFINE c == deleters[d].code
             diff == Diff(row[c], deleters[d].snap)
  <2>1. diff \in SUBSET {"active", "checked", "status"}
    BY DEF Diff
  <2>2. [deleters[d] EXCEPT !.diff = diff,
           !.pc = IF diff = {} THEN "invalidate" ELSE "update"] \in DeleterStates
    BY <1>12, <2>1, DeleterMoves DEF CompareRow
  <2> QED BY <1>12, <2>2 DEF CompareRow
<1>13. ASSUME NEW d \in Deleters, deleters[d].pc = "update",
              row' = [row EXCEPT ![deleters[d].code] =
                        Merge(row[deleters[d].code], deleters[d].snap, deleters[d].diff)]
       PROVE row' \in [Codes -> Link \union {None}]
  BY <1>13, DeleterFields, MergeType DEF RowsStay
<1>14. ASSUME NEW d \in Deleters, UpdateRow(d) PROVE TypeOK'
  <2>1. [deleters[d] EXCEPT !.pc = "invalidate"] \in DeleterStates
    BY <1>14 DEF UpdateRow, DeleterStates, IdleDeleter
  <2> QED BY <1>13, <1>14, <2>1 DEF UpdateRow
<1>15. ASSUME NEW c \in Codes, Invalidate(c) \/ LoseInvalidation(c)
       PROVE /\ cache' \in [Codes -> Link \union {None}]
             /\ readers' \in [Readers -> ReaderStates]
             /\ dirty' \in [Codes -> BOOLEAN]
  BY <1>15, LapType DEF Invalidate, LoseInvalidation
<1>16. IdleDeleter \in DeleterStates
  BY DEF DeleterStates
<1>17. ASSUME NEW d \in Deleters, FailDelete(d) PROVE TypeOK'
  BY <1>13, <1>15, <1>16, <1>17, DeleterFields DEF FailDelete
<1>18. ASSUME NEW d \in Deleters, InvalidateDeleted(d) PROVE TypeOK'
  BY <1>15, <1>16, <1>18, DeleterFields DEF InvalidateDeleted
<1>19. ASSUME NEW d \in Deleters, CrashDeleter(d) PROVE TypeOK'
  BY <1>15, <1>16, <1>19, DeleterFields DEF CrashDeleter
<1>20. ASSUME NEW batch \in SUBSET Codes
       PROVE  IdleWorker(batch) \in WorkerStates
  BY DEF IdleWorker, WorkerStates
<1>21. ASSUME NEW w \in Workers, ReadStream(w) PROVE TypeOK'
  <2>1. PICK batch \in SUBSET Waiting :
          /\ msg' = [c \in Codes |-> IF c \in batch THEN "pending" ELSE msg[c]]
          /\ workers' = [workers EXCEPT ![w].batch = batch] \/ workers' = workers
    BY <1>21 DEF ReadStream
  <2>2. [workers[w] EXCEPT !.batch = batch] \in WorkerStates
    BY <1>21 DEF ReadStream, WorkerStates, Waiting
  <2> QED BY <1>21, <2>1, <2>2 DEF ReadStream
<1>22. ASSUME NEW w \in Workers, NEW c \in Codes, NEW v \in Verdicts,
              CheckUrl(w, c, v) PROVE TypeOK'
  <2>1. workers[w].batch \ {c} \in SUBSET Codes
    BY WorkerFields
  <2>2. v # "throws" => [pc |-> "persist", batch |-> workers[w].batch \ {c},
                         code |-> c, verdict |-> v] \in WorkerStates
    BY <2>1 DEF WorkerStates
  <2> QED BY <1>20, <1>22, <2>1, <2>2 DEF CheckUrl
<1>23. ASSUME NEW w \in Workers, NEW p \in {"invalidate", "ack"},
              workers[w].pc \in {"persist", "invalidate", "ack"}
       PROVE [workers[w] EXCEPT !.pc = p] \in WorkerStates
  BY <1>23 DEF WorkerStates
<1>24. ASSUME NEW w \in Workers, PersistVerdict(w) PROVE TypeOK'
  <2>1. PICK c \in Codes : c = Named(w)
    BY <1>24, NamedCode DEF PersistVerdict
  <2>4. row[c] # None => row[c] \in Link /\ Judged(row[c], workers[w].verdict) \in Link
    BY <1>24, <2>1, WorkerFields, JudgedType DEF PersistVerdict
  <2>2. row' \in [Codes -> Link \union {None}]
    BY <1>24, <2>1, <2>4 DEF PersistVerdict
  <2>3. workers' \in [Workers -> WorkerStates]
    BY <1>23, <1>24 DEF PersistVerdict
  <2> QED BY <1>15, <1>24, <2>1, <2>2, <2>3 DEF PersistVerdict
<1>25. ASSUME NEW w \in Workers, InvalidateJudged(w) PROVE TypeOK'
  BY <1>15, <1>23, <1>25, NamedCode DEF InvalidateJudged
<1>26. ASSUME NEW w \in Workers, AckMessage(w) PROVE TypeOK'
  <2>1. IdleWorker(workers[w].batch) \in WorkerStates
    BY <1>20, WorkerFields
  <2>2. workers' \in [Workers -> WorkerStates]
    BY <1>26, <2>1 DEF AckMessage
  <2>3. msg' \in [Codes -> {"none", "waiting", "pending", "acked", "lost"}]
    BY <1>26 DEF AckMessage
  <2> QED BY <1>26, <2>2, <2>3 DEF AckMessage
<1>27. ASSUME NEW w \in Workers, CrashWorker(w) PROVE TypeOK'
  <2>1. [pc |-> "down", batch |-> {}, code |-> None, verdict |-> None]
          \in WorkerStates
    BY DEF WorkerStates
  <2> QED BY <1>15, <1>27, <2>1, NamedCode DEF CrashWorker
<1>28. ASSUME NEW w \in Workers, StartWorker(w) PROVE TypeOK'
  BY <1>20, <1>28 DEF StartWorker
<1>29. ASSUME LoseStream PROVE TypeOK'
  BY <1>29 DEF LoseStream
<1>30. ASSUME NEW c \in Codes, ExpireCache(c) PROVE TypeOK'
  BY <1>30 DEF ExpireCache
<1>31. CASE UNCHANGED vars
  BY <1>31 DEF vars
<1> QED
  BY <1>1, <1>2, <1>3, <1>4, <1>5, <1>7, <1>8, <1>9, <1>10, <1>11, <1>12,
     <1>14, <1>17, <1>18, <1>19, <1>21, <1>22, <1>24, <1>25, <1>26, <1>27,
     <1>28, <1>29, <1>30, <1>31
  DEF Next, Redirecting, Creating, Deleting, Checking, Environment

-----------------------------------------------------------------------------
(* A row keeps its owner and its URL and is never removed.                  *)

RowKept(c) == row[c] # None => /\ row'[c] # None
                               /\ row'[c].owner = row[c].owner
                               /\ row'[c].url = row[c].url

LEMMA RowsKept ==
  ASSUME TypeOK, RowsStay, [Next]_vars
  PROVE  \A c \in Codes : RowKept(c)
<1> SUFFICES ASSUME NEW c \in Codes PROVE RowKept(c)
    OBVIOUS
<1> USE NoneIsNoLink DEF TypeOK
<1>1. CASE row' = row
  BY <1>1 DEF RowKept
<1>2. ASSUME NEW k \in Creators, InsertRow(k) PROVE RowKept(c)
  BY <1>2, CreatorFields DEF InsertRow, CodeIsFree, RowKept
<1>3. ASSUME NEW d \in Deleters, deleters[d].pc = "update",
             row' = [row EXCEPT ![deleters[d].code] =
               Merge(row[deleters[d].code], deleters[d].snap, deleters[d].diff)]
      PROVE  RowKept(c)
  BY <1>3, DeleterFields, MergeType DEF RowsStay, RowKept
<1>4. ASSUME NEW d \in Deleters, UpdateRow(d) \/ FailDelete(d) PROVE RowKept(c)
  BY <1>1, <1>3, <1>4 DEF UpdateRow, FailDelete
<1>5. ASSUME NEW w \in Workers, PersistVerdict(w) PROVE RowKept(c)
  BY <1>1, <1>5, WorkerFields, JudgedType DEF PersistVerdict, RowsStay, RowKept
<1>6. Redirecting \/ Environment \/ UNCHANGED vars => row' = row
  BY DEF Redirecting, Environment, ReadCache, QueryRow, FillCache, CrashReader,
         LoseStream, ExpireCache, vars
<1>7. Creating => row' = row \/ \E k \in Creators : InsertRow(k)
  BY DEF Creating, Deduplicate, GenerateCode, QueueCheck, CrashCreator
<1>8. Deleting => row' = row \/ \E d \in Deleters : UpdateRow(d) \/ FailDelete(d)
  BY DEF Deleting, LoadForDelete, CompareRow, InvalidateDeleted, CrashDeleter
<1>9. Checking => row' = row \/ \E w \in Workers : PersistVerdict(w)
  BY DEF Checking, ReadStream, CheckUrl, InvalidateJudged, AckMessage,
         CrashWorker, StartWorker
<1> QED
  BY <1>1, <1>2, <1>4, <1>5, <1>6, <1>7, <1>8, <1>9 DEF Next

\* A step that mentions no code anew keeps RowsStay.
LEMMA RowsCarried ==
  ASSUME TypeOK, RowsStay,
         \A c \in Codes : row[c] # None => row'[c] # None,
         \A c \in Codes : cache'[c] # None => cache[c] # None,
         msg' = msg,
         \A r \in Readers : readers'[r].pc = "fill" =>
           readers[r].pc = "fill" /\ readers'[r].code = readers[r].code,
         \A k \in Creators : creators'[k].pc = "queue" =>
           creators[k].pc = "queue" /\ creators'[k].code = creators[k].code,
         \A d \in Deleters : deleters'[d].pc # "idle" =>
           deleters[d].pc # "idle" /\ deleters'[d].code = deleters[d].code,
         \A w \in Workers : workers'[w].code = workers[w].code
                            /\ workers'[w].batch = workers[w].batch
  PROVE  RowsStay'
<1> USE DEF TypeOK, RowsStay
<1>1. \A c \in Codes : cache'[c] # None \/ msg'[c] # "none" => row'[c] # None
  OBVIOUS
<1>2. \A r \in Readers : readers'[r].pc = "fill" => row'[readers'[r].code] # None
  <2> SUFFICES ASSUME NEW r \in Readers, readers'[r].pc = "fill"
               PROVE  row'[readers'[r].code] # None
    OBVIOUS
  <2>1. readers[r].pc = "fill" /\ readers'[r].code = readers[r].code
    OBVIOUS
  <2>2. readers[r].code \in Codes
    BY <2>1, ReaderFields
  <2>3. row[readers[r].code] # None
    BY <2>1
  <2> QED BY <2>1, <2>2, <2>3
<1>3. \A k \in Creators : creators'[k].pc = "queue" => row'[creators'[k].code] # None
  BY CreatorFields
<1>4. \A d \in Deleters : deleters'[d].pc # "idle" => row'[deleters'[d].code] # None
  BY DeleterFields
<1>5. \A w \in Workers : \A c \in Codes :
        c \in workers'[w].batch \/ c = workers'[w].code => row'[c] # None
  OBVIOUS
<1> QED BY <1>1, <1>2, <1>3, <1>4, <1>5

LEMMA RowsNext == TypeOK /\ RowsStay /\ [Next]_vars => RowsStay'
<1> SUFFICES ASSUME TypeOK, RowsStay, [Next]_vars PROVE RowsStay'
    OBVIOUS
<1>0. \A c \in Codes : row[c] # None => row'[c] # None
  BY RowsKept DEF RowKept
<1>t. TypeOK'
  BY TypeNext
<1> USE <1>0, NoneAssumption DEF TypeOK, RowsStay
<1>1. ASSUME NEW r \in Readers, NEW c \in Codes, ReadCache(r, c) PROVE RowsStay'
  BY <1>1 DEF ReadCache, IdleReader
<1>2. ASSUME NEW r \in Readers, QueryRow(r) PROVE RowsStay'
  BY <1>2, ReaderFields DEF QueryRow, IdleReader, IsActive
<1>3. ASSUME NEW r \in Readers, FillCache(r) PROVE RowsStay'
  BY <1>3, ReaderFields DEF FillCache, IdleReader
<1>4. ASSUME NEW r \in Readers, CrashReader(r) PROVE RowsStay'
  BY <1>4 DEF CrashReader, IdleReader
<1>5. ASSUME NEW k \in Creators, NEW u \in Users, NEW l \in Urls,
             Deduplicate(k, u, l) PROVE RowsStay'
  BY <1>5 DEF Deduplicate
<1>27. ASSUME NEW k \in Creators, Retry(k)
       PROVE  /\ creators'[k].pc # "queue"
              /\ \A j \in Creators : j # k => creators'[j] = creators[j]
  BY <1>27, CreatorMoved DEF Retry, IdleCreator
<1>6. ASSUME NEW k \in Creators, NEW c \in Codes, GenerateCode(k, c) PROVE RowsStay'
  <2>1. CASE Retry(k)
    BY <1>6, <1>27, <2>1 DEF GenerateCode
  <2>2. CASE creators' = [creators EXCEPT ![k].pc = "insert", ![k].code = c]
    BY <1>6, <2>2, CreatorMoved DEF GenerateCode
  <2>3. CASE creators' = [creators EXCEPT ![k] = IdleCreator]
    BY <1>6, <2>3 DEF GenerateCode, IdleCreator
  <2> QED BY <1>6, <2>1, <2>2, <2>3 DEF GenerateCode
<1>7. ASSUME NEW k \in Creators, InsertRow(k) PROVE RowsStay'
  <2>1. CASE Retry(k)
    <3>1. \A j \in Creators : creators'[j].pc = "queue" =>
            creators[j].pc = "queue" /\ creators'[j].code = creators[j].code
      BY <1>27, <2>1
    <3>2. UNCHANGED <<cache, msg, readers, deleters, workers>>
      BY <1>7 DEF InsertRow
    <3> QED BY <3>1, <3>2, RowsCarried
  <2>2. CASE creators' = [creators EXCEPT ![k].pc = "queue"]
             /\ row' = [row EXCEPT ![creators[k].code] =
                          NewLink(creators[k].user, creators[k].url)]
    <3>1. creators[k].code \in Codes
          /\ NewLink(creators[k].user, creators[k].url) # None
      <4>1. creators[k].pc = "insert"
        BY <1>7 DEF InsertRow
      <4>2. /\ creators[k].code \in Codes
            /\ creators[k].user \in Users /\ creators[k].url \in Urls
        BY <4>1, CreatorFields
      <4>3. NewLink(creators[k].user, creators[k].url) \in Link
        BY <4>2 DEF NewLink, Link, Statuses
      <4> QED BY <4>2, <4>3, NoneIsNoLink
    <3> QED BY <1>7, <2>2, <3>1, CreatorMoved DEF InsertRow
  <2> QED BY <1>7, <2>1, <2>2 DEF InsertRow
<1>8. ASSUME NEW k \in Creators, QueueCheck(k) PROVE RowsStay'
  BY <1>8, CreatorFields DEF QueueCheck, Waiting, IdleCreator
<1>9. ASSUME NEW k \in Creators, CrashCreator(k) PROVE RowsStay'
  BY <1>9 DEF CrashCreator, IdleCreator
<1>10. ASSUME NEW d \in Deleters, NEW c \in Codes, NEW u \in Users,
              LoadForDelete(d, c, u) PROVE RowsStay'
  BY <1>10 DEF LoadForDelete
<1>11. ASSUME NEW d \in Deleters, CompareRow(d) PROVE RowsStay'
  BY <1>11 DEF CompareRow
<1>12. ASSUME NEW d \in Deleters, UpdateRow(d) PROVE RowsStay'
  BY <1>12, DeleterFields DEF UpdateRow
<1>13. ASSUME NEW c \in Codes, Invalidate(c) \/ LoseInvalidation(c)
       PROVE  /\ \A e \in Codes : cache'[e] # None => cache[e] # None
              /\ \A r \in Readers : /\ readers'[r].pc = readers[r].pc
                                    /\ readers'[r].code = readers[r].code
  <2>1. \A e \in Codes : cache'[e] # None => cache[e] # None
    BY <1>13 DEF Invalidate, LoseInvalidation
  <2>2. LapReaders(c)
    BY <1>13 DEF Invalidate, LoseInvalidation
  <2> QED BY <2>1, <2>2, LapKeeps
<1>14. ASSUME NEW d \in Deleters, FailDelete(d) PROVE RowsStay'
  <2>1. /\ \A e \in Codes : cache'[e] # None => cache[e] # None
        /\ \A r \in Readers : /\ readers'[r].pc = readers[r].pc
                              /\ readers'[r].code = readers[r].code
    BY <1>13, <1>14, DeleterFields DEF FailDelete
  <2>2. UNCHANGED <<msg, creators, workers>>
        /\ deleters' = [deleters EXCEPT ![d] = IdleDeleter]
    BY <1>14 DEF FailDelete
  <2>3. \A e \in Deleters : deleters'[e].pc # "idle" => deleters'[e] = deleters[e]
    BY <2>2 DEF IdleDeleter
  <2> QED BY <2>1, <2>2, <2>3, RowsCarried
<1>15. ASSUME NEW d \in Deleters, InvalidateDeleted(d) PROVE RowsStay'
  BY <1>13, <1>15, DeleterFields DEF InvalidateDeleted, IdleDeleter
<1>16. ASSUME NEW d \in Deleters, CrashDeleter(d) PROVE RowsStay'
  BY <1>13, <1>16, DeleterFields DEF CrashDeleter, IdleDeleter
<1>17. ASSUME NEW w \in Workers, ReadStream(w) PROVE RowsStay'
  <2>1. PICK batch \in SUBSET Waiting :
          /\ msg' = [c \in Codes |-> IF c \in batch THEN "pending" ELSE msg[c]]
          /\ workers' = [workers EXCEPT ![w].batch = batch] \/ workers' = workers
    BY <1>17 DEF ReadStream
  <2>2. \A c \in batch : c \in Codes /\ row[c] # None
    BY DEF Waiting
  <2>3. \A v \in Workers : workers'[v].code = workers[v].code
                           /\ workers'[v].batch \in {workers[v].batch, batch}
    <3>1. CASE workers' = workers
      BY <3>1
    <3>2. CASE workers' = [workers EXCEPT ![w].batch = batch]
      <4>1. workers'[w] = [workers[w] EXCEPT !.batch = batch]
        BY <3>2
      <4>2. workers'[w].code = workers[w].code /\ workers'[w].batch = batch
        BY <4>1, WorkerMoved
      <4> QED BY <3>2, <4>2
    <3> QED BY <2>1, <3>1, <3>2
  <2> QED BY <1>17, <2>1, <2>2, <2>3 DEF ReadStream
<1>18. ASSUME NEW w \in Workers, NEW c \in Codes, NEW v \in Verdicts,
              CheckUrl(w, c, v) PROVE RowsStay'
  BY <1>18 DEF CheckUrl, IdleWorker
<1>19. ASSUME NEW w \in Workers, PersistVerdict(w) PROVE RowsStay'
  <2>1. workers[w].code \in Codes
        /\ \A v \in Workers : workers'[v].code = workers[v].code
                              /\ workers'[v].batch = workers[v].batch
    <3>1. workers[w].code \in Codes
      BY <1>19, WorkerFields DEF PersistVerdict
    <3>2. PICK p \in {"invalidate", "ack"} : workers' = [workers EXCEPT ![w].pc = p]
      BY <1>19 DEF PersistVerdict
    <3>3. workers'[w] = [workers[w] EXCEPT !.pc = p]
      BY <3>2
    <3>4. workers'[w].code = workers[w].code /\ workers'[w].batch = workers[w].batch
      BY <3>3, WorkerMoved
    <3> QED BY <3>1, <3>2, <3>4
  <2>2. /\ \A e \in Codes : cache'[e] # None => cache[e] # None
        /\ \A r \in Readers : /\ readers'[r].pc = readers[r].pc
                              /\ readers'[r].code = readers[r].code
    BY <1>13, <1>19, NamedCode DEF PersistVerdict
  <2>3. UNCHANGED <<msg, creators, deleters>>
    BY <1>19 DEF PersistVerdict
  <2> QED BY <2>1, <2>2, <2>3, RowsCarried
<1>20. ASSUME NEW w \in Workers, InvalidateJudged(w) PROVE RowsStay'
  BY <1>13, <1>20, WorkerFields, NamedCode DEF InvalidateJudged
<1>21. ASSUME NEW w \in Workers, AckMessage(w) PROVE RowsStay'
  BY <1>21, WorkerFields DEF AckMessage, IdleWorker
<1>22. ASSUME NEW w \in Workers, CrashWorker(w) PROVE RowsStay'
  BY <1>13, <1>22, WorkerFields, NamedCode DEF CrashWorker
<1>23. ASSUME NEW w \in Workers, StartWorker(w) PROVE RowsStay'
  BY <1>23 DEF StartWorker, IdleWorker
<1>24. ASSUME LoseStream PROVE RowsStay'
  BY <1>24 DEF LoseStream
<1>25. ASSUME NEW c \in Codes, ExpireCache(c) PROVE RowsStay'
  BY <1>25 DEF ExpireCache
<1>26. CASE UNCHANGED vars
  BY <1>26 DEF vars
<1> QED
  BY <1>1, <1>2, <1>3, <1>4, <1>5, <1>6, <1>7, <1>8, <1>9, <1>10, <1>11,
     <1>12, <1>14, <1>15, <1>16, <1>17, <1>18, <1>19, <1>20, <1>21, <1>22,
     <1>23, <1>24, <1>25, <1>26
  DEF Next, Redirecting, Creating, Deleting, Checking, Environment

-----------------------------------------------------------------------------
(* Cache coherence.  The cached copy and the copies in the hands of readers *)
(* follow the row in three ways: nothing moves (CoherentQuiet), a writer    *)
(* writes the row of c and still owes the DEL (CoherentWritten), or the DEL *)
(* of c is sent or lost (CoherentSettled).                                 *)

Coherent == CacheCoherent /\ FillsCoherent

LEMMA CoherentQuiet ==
  ASSUME Coherent, UNCHANGED <<row, cache, dirty, readers>>,
         \A c \in Codes : InvalidationDue(c) => InvalidationDue(c)',
         TypeOK
  PROVE  Coherent'
<1>1. CacheCoherent'
  BY DEF Coherent, CacheCoherent
<1>2. FillsCoherent'
  BY ReaderFields DEF Coherent, FillsCoherent, TypeOK
<1> QED BY <1>1, <1>2 DEF Coherent

LEMMA CoherentWritten ==
  ASSUME TypeOK, Coherent, UNCHANGED <<cache, dirty, readers>>, NEW c \in Codes,
         \A e \in Codes \ {c} : row'[e] = row[e],
         \A e \in Codes \ {c} : InvalidationDue(e) => InvalidationDue(e)',
         InvalidationDue(c)'
  PROVE  Coherent'
<1>1. CacheCoherent'
  <2> SUFFICES ASSUME NEW e \in Codes, cache'[e] # None
               PROVE  row'[e] = cache'[e] \/ InvalidationDue(e)' \/ dirty'[e]
    BY DEF CacheCoherent
  <2> QED BY DEF Coherent, CacheCoherent
<1>2. FillsCoherent'
  <2> SUFFICES ASSUME NEW r \in Readers, readers'[r].pc = "fill"
               PROVE  \/ row'[readers'[r].code] = readers'[r].snap
                      \/ InvalidationDue(readers[r].code)'
                      \/ readers'[r].lapped
    BY DEF FillsCoherent
  <2>1. readers[r].code \in Codes
    BY ReaderFields DEF TypeOK
  <2> QED BY <2>1 DEF Coherent, FillsCoherent
<1> QED BY <1>1, <1>2 DEF Coherent

LEMMA CoherentSettled ==
  ASSUME TypeOK, Coherent, NEW c \in Codes, Invalidate(c) \/ LoseInvalidation(c),
         \A e \in Codes \ {c} : row'[e] = row[e],
         \A e \in Codes \ {c} : InvalidationDue(e) => InvalidationDue(e)'
  PROVE  Coherent'
<1>1. CacheCoherent'
  <2> SUFFICES ASSUME NEW e \in Codes, cache'[e] # None
               PROVE  row'[e] = cache'[e] \/ InvalidationDue(e)' \/ dirty'[e]
    BY DEF CacheCoherent
  <2>1. CASE e = c
    BY <2>1 DEF Invalidate, LoseInvalidation, TypeOK
  <2>2. CASE e # c
    <3>1. cache'[e] = cache[e] /\ dirty'[e] = dirty[e]
      BY <2>2 DEF Invalidate, LoseInvalidation, TypeOK
    <3> QED BY <2>2, <3>1 DEF Coherent, CacheCoherent
  <2> QED BY <2>1, <2>2
<1>2. FillsCoherent'
  <2> SUFFICES ASSUME NEW r \in Readers, readers'[r].pc = "fill"
               PROVE  \/ row'[readers'[r].code] = readers'[r].snap
                      \/ InvalidationDue(readers[r].code)'
                      \/ readers'[r].lapped
    BY DEF FillsCoherent
  <2>1. LapReaders(c)
    BY DEF Invalidate, LoseInvalidation
  <2>2. /\ readers[r].pc = "fill"
        /\ readers'[r].code = readers[r].code /\ readers'[r].snap = readers[r].snap
        /\ readers[r].lapped => readers'[r].lapped
        /\ readers[r].code = c => readers'[r].lapped
    BY <2>1, LapKeeps DEF TypeOK
  <2>3. readers[r].code \in Codes
    BY <2>2, ReaderFields DEF TypeOK
  <2> QED BY <2>2, <2>3 DEF Coherent, FillsCoherent
<1> QED BY <1>1, <1>2 DEF Coherent

LEMMA CoherentNext ==
  TypeOK /\ RowsStay /\ Coherent /\ [Next]_vars => Coherent'
<1> SUFFICES ASSUME TypeOK, RowsStay, Coherent, [Next]_vars PROVE Coherent'
    OBVIOUS
<1>1. ASSUME NEW r \in Readers, NEW c \in Codes, ReadCache(r, c) PROVE Coherent'
  <2>1. UNCHANGED <<row, cache, dirty>>
        /\ \A e \in Codes : InvalidationDue(e) => InvalidationDue(e)'
    BY <1>1 DEF ReadCache, InvalidationDue, Named
  <2>2. \A q \in Readers : readers'[q].pc = "fill" => readers'[q] = readers[q]
    BY <1>1 DEF ReadCache, IdleReader, TypeOK
  <2> QED BY <2>1, <2>2, ReaderFields
          DEF Coherent, CacheCoherent, FillsCoherent, TypeOK
<1>2. ASSUME NEW r \in Readers, QueryRow(r) PROVE Coherent'
  <2>1. UNCHANGED <<row, cache, dirty>>
        /\ \A e \in Codes : InvalidationDue(e) => InvalidationDue(e)'
    BY <1>2 DEF QueryRow, InvalidationDue, Named
  <2>2. \A q \in Readers : readers'[q].pc = "fill" =>
          readers'[q] = readers[q] \/ readers'[q].snap = row[readers'[q].code]
    BY <1>2 DEF QueryRow, IdleReader, TypeOK
  <2>3. \A q \in Readers : readers[q].pc = "fill" => readers[q].code \in Codes
    BY ReaderFields DEF TypeOK
  <2>4. CacheCoherent'
    BY <2>1 DEF Coherent, CacheCoherent
  <2>5. FillsCoherent'
    BY <2>1, <2>2, <2>3 DEF Coherent, FillsCoherent
  <2> QED BY <2>4, <2>5 DEF Coherent
<1>3. ASSUME NEW r \in Readers, FillCache(r) PROVE Coherent'
  <2> DEFINE c == readers[r].code
  <2>1. /\ row' = row /\ c \in Codes /\ readers[r].pc = "fill"
        /\ \A e \in Codes : InvalidationDue(e) => InvalidationDue(e)'
    BY <1>3, ReaderFields DEF FillCache, InvalidationDue, Named, TypeOK
  <2>2. \/ UNCHANGED <<cache, dirty>>
        \/ /\ cache' = [cache EXCEPT ![c] = readers[r].snap]
           /\ dirty' = [dirty EXCEPT ![c] = readers[r].lapped]
    BY <1>3 DEF FillCache
  <2>3. \A q \in Readers : readers'[q].pc = "fill" => readers'[q] = readers[q]
    BY <1>3 DEF FillCache, IdleReader, TypeOK
  <2>4. CacheCoherent'
    <3> SUFFICES ASSUME NEW e \in Codes, cache'[e] # None
                 PROVE  row'[e] = cache'[e] \/ InvalidationDue(e)' \/ dirty'[e]
      BY DEF CacheCoherent
    <3>1. CASE cache'[e] = cache[e] /\ dirty'[e] = dirty[e]
      BY <2>1, <3>1 DEF Coherent, CacheCoherent
    <3>2. CASE e = c /\ cache'[c] = readers[r].snap /\ dirty'[c] = readers[r].lapped
      BY <2>1, <3>2 DEF Coherent, FillsCoherent
    <3> QED BY <2>1, <2>2, <3>1, <3>2 DEF TypeOK
  <2>5. FillsCoherent'
    BY <2>1, <2>3, ReaderFields DEF Coherent, FillsCoherent, TypeOK
  <2> QED BY <2>4, <2>5 DEF Coherent
<1>4. ASSUME NEW r \in Readers, CrashReader(r) PROVE Coherent'
  <2>1. UNCHANGED <<row, cache, dirty>>
        /\ \A e \in Codes : InvalidationDue(e) => InvalidationDue(e)'
    BY <1>4 DEF CrashReader, InvalidationDue, Named
  <2>2. \A q \in Readers : readers'[q].pc = "fill" => readers'[q] = readers[q]
    BY <1>4 DEF CrashReader, IdleReader, TypeOK
  <2> QED BY <2>1, <2>2, ReaderFields
          DEF Coherent, CacheCoherent, FillsCoherent, TypeOK
<1>5. ASSUME NEW c \in Codes, ExpireCache(c) PROVE Coherent'
  <2>1. UNCHANGED <<row, readers>>
        /\ \A e \in Codes : InvalidationDue(e) => InvalidationDue(e)'
    BY <1>5 DEF ExpireCache, InvalidationDue, Named
  <2>2. \A e \in Codes : cache'[e] # None => cache'[e] = cache[e] /\ dirty'[e] = dirty[e]
    BY <1>5 DEF ExpireCache, TypeOK
  <2> QED BY <2>1, <2>2, ReaderFields
          DEF Coherent, CacheCoherent, FillsCoherent, TypeOK
<1>6. ASSUME NEW k \in Creators, InsertRow(k) PROVE Coherent'
  <2> DEFINE c == creators[k].code
  <2>1. UNCHANGED <<cache, dirty, readers>> /\ c \in Codes
        /\ \A e \in Codes : InvalidationDue(e) => InvalidationDue(e)'
    BY <1>6, CreatorFields DEF InsertRow, InvalidationDue, Named, TypeOK
  <2>2. \A e \in Codes : row[e] # None => row'[e] = row[e]
    BY <1>6, <2>1 DEF InsertRow, CodeIsFree, TypeOK
  <2>3. CacheCoherent'
    BY <2>1, <2>2 DEF Coherent, CacheCoherent, RowsStay
  <2>4. \A r \in Readers : readers[r].pc = "fill" =>
          readers[r].code \in Codes /\ row[readers[r].code] # None
    BY ReaderFields DEF RowsStay, TypeOK
  <2>5. FillsCoherent'
    BY <2>1, <2>2, <2>4 DEF Coherent, FillsCoherent
  <2> QED BY <2>3, <2>5 DEF Coherent
<1>7. ASSUME NEW d \in Deleters, UpdateRow(d) PROVE Coherent'
  <2>1. PICK c \in Codes : c = deleters[d].code
    BY <1>7, DeleterFields DEF UpdateRow, TypeOK
  <2>2. UNCHANGED <<cache, dirty, readers, workers>>
        /\ \A e \in Codes \ {c} : row'[e] = row[e]
    BY <1>7, <2>1 DEF UpdateRow, TypeOK
  <2>3. deleters'[d].pc = "invalidate" /\ deleters'[d].code = c
        /\ \A e \in Deleters : e # d => deleters'[e] = deleters[e]
    BY <1>7, <2>1, DeleterMoved DEF UpdateRow, TypeOK
  <2>4. \A e \in Codes \ {c} : InvalidationDue(e) => InvalidationDue(e)'
    BY <2>1, <2>2, <2>3, <1>7 DEF UpdateRow, InvalidationDue, Named
  <2>5. InvalidationDue(c)'
    BY <2>3 DEF InvalidationDue
  <2> QED BY <2>1, <2>2, <2>4, <2>5, CoherentWritten
<1>8. ASSUME NEW d \in Deleters, FailDelete(d) PROVE Coherent'
  <2> DEFINE c == deleters[d].code
  <2>1. c \in Codes
    BY <1>8, DeleterFields DEF FailDelete, TypeOK
  <2>2. \A e \in Codes : InvalidationDue(e) => InvalidationDue(e)'
    BY <1>8 DEF FailDelete, InvalidationDue, Named
  <2>3. CASE UNCHANGED <<row, cache, dirty, readers>>
    BY <2>2, <2>3, CoherentQuiet
  <2>4. CASE LoseInvalidation(c) /\ \A e \in Codes \ {c} : row'[e] = row[e]
    BY <2>1, <2>2, <2>4, CoherentSettled
  <2> QED BY <1>8, <2>1, <2>3, <2>4 DEF FailDelete, TypeOK
<1>9. ASSUME NEW d \in Deleters, InvalidateDeleted(d) \/ CrashDeleter(d),
             deleters[d].pc = "invalidate" PROVE Coherent'
  <2> DEFINE c == deleters[d].code
  <2>1. c \in Codes
    BY <1>9, DeleterFields DEF TypeOK
  <2>2. UNCHANGED <<row, workers>> /\ (Invalidate(c) \/ LoseInvalidation(c))
        /\ \A e \in Deleters : e # d => deleters'[e] = deleters[e]
    BY <1>9 DEF InvalidateDeleted, CrashDeleter, TypeOK
  <2>3. \A e \in Codes \ {c} : InvalidationDue(e) => InvalidationDue(e)'
    BY <2>2 DEF InvalidationDue, Named
  <2> QED BY <2>1, <2>2, <2>3, CoherentSettled
<1>10. ASSUME NEW d \in Deleters, CrashDeleter(d), deleters[d].pc # "invalidate"
       PROVE Coherent'
  <2>1. UNCHANGED <<row, cache, dirty, readers>>
        /\ \A e \in Codes : InvalidationDue(e) => InvalidationDue(e)'
    BY <1>10 DEF CrashDeleter, InvalidationDue, Named
  <2> QED BY <2>1, CoherentQuiet
<1>11. ASSUME NEW w \in Workers, PersistVerdict(w) PROVE Coherent'
  <2>1. workers[w].pc = "persist"
    BY <1>11 DEF PersistVerdict
  <2>c. PICK c \in Codes : c = Named(w)
    BY <2>1, NamedCode
  <2>2. \A e \in Codes \ {c} : row'[e] = row[e]
    BY <1>11, <2>1, <2>c DEF PersistVerdict, TypeOK
  <2>3. deleters' = deleters /\ \A v \in Workers : v # w => workers'[v] = workers[v]
    BY <1>11 DEF PersistVerdict, TypeOK
  <2>4. \A e \in Codes : InvalidationDue(e) => InvalidationDue(e)'
    BY <2>1, <2>3 DEF InvalidationDue, Named
  <2>5. CASE /\ UNCHANGED <<cache, dirty, readers>>
             /\ workers' = [workers EXCEPT ![w].pc = "invalidate"]
    <3>1. workers'[w] = [workers[w] EXCEPT !.pc = "invalidate"]
      BY <2>5 DEF TypeOK
    <3>0. workers'[w].pc = "invalidate" /\ workers'[w].code = workers[w].code
      BY <3>1, WorkerMoved DEF TypeOK
    <3>2. InvalidationDue(c)'
      BY <2>c, <3>0, <3>1 DEF InvalidationDue, Named
    <3> QED BY <2>1, <2>c, <2>2, <2>4, <2>5, <3>2, CoherentWritten
  <2>6. CASE LoseInvalidation(c)
    BY <2>1, <2>2, <2>4, <2>6, CoherentSettled
  <2>7. CASE UNCHANGED <<row, cache, dirty, readers>>
    BY <2>4, <2>7, CoherentQuiet
  <2> QED BY <1>11, <2>c, <2>5, <2>6, <2>7 DEF PersistVerdict
<1>12. ASSUME NEW w \in Workers, InvalidateJudged(w) \/ CrashWorker(w),
              workers[w].pc = "invalidate" PROVE Coherent'
  <2> DEFINE c == Named(w)
  <2>1. c \in Codes
    BY <1>12, NamedCode
  <2>2. UNCHANGED <<row, deleters>> /\ (Invalidate(c) \/ LoseInvalidation(c))
        /\ \A v \in Workers : v # w => workers'[v] = workers[v]
    BY <1>12 DEF InvalidateJudged, CrashWorker, TypeOK
  <2>3. \A e \in Codes \ {c} : InvalidationDue(e) => InvalidationDue(e)'
    BY <2>2 DEF InvalidationDue, Named
  <2> QED BY <2>1, <2>2, <2>3, CoherentSettled
<1>13. ASSUME NEW w \in Workers, CrashWorker(w), workers[w].pc # "invalidate"
       PROVE Coherent'
  <2>1. UNCHANGED <<row, cache, dirty, readers>>
        /\ \A e \in Codes : InvalidationDue(e) => InvalidationDue(e)'
    BY <1>13 DEF CrashWorker, InvalidationDue, Named
  <2> QED BY <2>1, CoherentQuiet
<1>14. ASSUME NEW k \in Creators,
              \/ \E u \in Users, l \in Urls : Deduplicate(k, u, l)
              \/ \E c \in Codes : GenerateCode(k, c)
              \/ QueueCheck(k) \/ CrashCreator(k)
       PROVE Coherent'
  <2>1. UNCHANGED <<row, cache, dirty, readers, deleters, workers>>
    BY <1>14 DEF Deduplicate, GenerateCode, QueueCheck, CrashCreator
  <2> QED BY <2>1, CoherentQuiet DEF InvalidationDue, Named
<1>15. ASSUME NEW d \in Deleters,
              \/ \E c \in Codes, u \in Users : LoadForDelete(d, c, u)
              \/ CompareRow(d)
       PROVE Coherent'
  <2>1. UNCHANGED <<row, cache, dirty, readers, workers>>
        /\ deleters[d].pc # "invalidate"
        /\ \A e \in Deleters : e # d => deleters'[e] = deleters[e]
    BY <1>15 DEF LoadForDelete, CompareRow, TypeOK
  <2> QED BY <2>1, CoherentQuiet DEF InvalidationDue, Named
<1>16. ASSUME NEW w \in Workers,
              \/ ReadStream(w) \/ AckMessage(w) \/ StartWorker(w)
              \/ \E c \in Codes, v \in Verdicts : CheckUrl(w, c, v)
       PROVE Coherent'
  <2>1. UNCHANGED <<row, cache, dirty, readers, deleters>>
        /\ workers[w].pc # "invalidate"
        /\ \A v \in Workers : v # w => workers'[v] = workers[v]
    BY <1>16 DEF ReadStream, AckMessage, StartWorker, CheckUrl, TypeOK
  <2> QED BY <2>1, CoherentQuiet DEF InvalidationDue, Named
<1>17. CASE LoseStream \/ UNCHANGED vars
  <2>1. UNCHANGED <<row, cache, dirty, readers, deleters, workers>>
    BY <1>17 DEF LoseStream, vars
  <2> QED BY <2>1, CoherentQuiet DEF InvalidationDue, Named
<1>18. Deleting => Coherent'
  BY <1>7, <1>8, <1>9, <1>10, <1>15 DEF Deleting, InvalidateDeleted
<1>19. Checking => Coherent'
  BY <1>11, <1>12, <1>13, <1>16 DEF Checking, InvalidateJudged
<1>20. Redirecting \/ Environment => Coherent'
  BY <1>1, <1>2, <1>3, <1>4, <1>5, <1>17 DEF Redirecting, Environment
<1>21. Creating => Coherent'
  BY <1>6, <1>14 DEF Creating
<1> QED BY <1>17, <1>18, <1>19, <1>20, <1>21 DEF Next

\* Every request, row, cached copy and message keeps its shape in every
\* behaviour: no step of the code leaves a request without what its next step
\* reads.
THEOREM TypeCorrect == Spec => []TypeOK
<1>1. Init => TypeOK /\ RowsStay
  BY TypeInit
<1>2. TypeOK /\ RowsStay /\ [Next]_vars => (TypeOK /\ RowsStay)'
  BY TypeNext, RowsNext
<1> QED BY <1>1, <1>2, PTL DEF Spec

\* Cache-aside is coherent for any number of readers, deletes, workers and
\* failures: a cached link differs from its row only while a writer owes its
\* DEL, or after an invalidation was lost or overtaken by a fill.
THEOREM CoherenceHolds == Spec => []CacheCoherent
<1> DEFINE Inv == TypeOK /\ RowsStay /\ Coherent
<1>1. Init => Inv
  <2>1. Init => TypeOK /\ RowsStay
    BY TypeInit
  <2>2. Init => Coherent
    BY DEF Init, Coherent, CacheCoherent, FillsCoherent, IdleReader
  <2> QED BY <2>1, <2>2
<1>2. Inv /\ [Next]_vars => Inv'
  BY TypeNext, RowsNext, CoherentNext
<1>3. Inv => CacheCoherent
  BY DEF Coherent
<1> QED BY <1>1, <1>2, <1>3, PTL DEF Spec

-----------------------------------------------------------------------------
(* The check of a link is in one place, and a new row belongs to the create *)
(* that is about to queue its check.                                       *)

Placed == CheckInOnePlace /\ NewRowIsOwn

\* A step after which creators and workers hold no more than before.
LEMMA PlacedKept ==
  ASSUME TypeOK, RowsStay, Placed, [Next]_vars,
         \A k \in Creators : creators'[k].pc = "queue" => creators'[k] = creators[k],
         \A c \in Codes : Holding(c)' \subseteq Holding(c),
         \A w \in Workers : workers'[w].code \notin workers'[w].batch,
         \A c \in Codes : \/ msg'[c] = msg[c]
                          \/ msg'[c] \notin {"none", "waiting"}
                               /\ AboutToQueue(c) = {}
  PROVE  Placed'
<1>1. \A k \in Creators : creators[k].pc = "queue" =>
        creators[k].code \in Codes /\ row[creators[k].code] # None
  BY CreatorFields DEF TypeOK, RowsStay
<1>2. \A k \in Creators : creators'[k].pc = "queue" => msg'[creators'[k].code] = "none"
  BY <1>1 DEF Placed, CheckInOnePlace, AboutToQueue
<1>3. \A c \in Codes : msg'[c] \in {"none", "waiting"} => Holding(c)' = {}
  BY DEF Placed, CheckInOnePlace
<1>4. \A v, w \in Workers : \A c \in Codes :
        v \in Holding(c)' /\ w \in Holding(c)' => v = w
  BY DEF Placed, CheckInOnePlace
<1>5. CheckInOnePlace'
  BY <1>2, <1>3, <1>4 DEF CheckInOnePlace
<1>6. ASSUME NEW k \in Creators, creators'[k].pc = "queue"
      PROVE  /\ row'[creators'[k].code].owner = creators'[k].user
             /\ row'[creators'[k].code].url = creators'[k].url
             /\ \A j \in Creators : creators'[j].pc = "queue"
                  /\ creators'[j].code = creators'[k].code => j = k
  BY <1>1, <1>6, RowsKept DEF RowKept, Placed, NewRowIsOwn, AboutToQueue
<1>7. NewRowIsOwn'
  BY <1>6 DEF NewRowIsOwn, AboutToQueue
<1> QED BY <1>5, <1>7 DEF Placed

LEMMA PlacedNext == TypeOK /\ RowsStay /\ Placed /\ [Next]_vars => Placed'
<1> SUFFICES ASSUME TypeOK, RowsStay, Placed, [Next]_vars PROVE Placed'
    OBVIOUS
<1>0. \A w \in Workers : workers[w].code \notin workers[w].batch
  BY DEF Placed, CheckInOnePlace
<1>1. CASE UNCHANGED <<creators, workers, msg>>
  <2>1. \A c \in Codes : Holding(c)' = Holding(c)
    BY <1>1 DEF Holding
  <2> QED BY <1>0, <1>1, <2>1, PlacedKept
<1>2. ASSUME NEW k \in Creators, UNCHANGED <<workers, msg>>,
             creators'[k].pc # "queue",
             \A j \in Creators : j # k => creators'[j] = creators[j]
      PROVE  Placed'
  <2>1. \A c \in Codes : Holding(c)' = Holding(c)
    BY <1>2 DEF Holding
  <2>2. \A j \in Creators : creators'[j].pc = "queue" => creators'[j] = creators[j]
    BY <1>2
  <2> QED BY <1>0, <1>2, <2>1, <2>2, PlacedKept
<1>3. ASSUME NEW k \in Creators, InsertRow(k), ~Retry(k) PROVE Placed'
  <2>1. PICK c \in Codes : c = creators[k].code
    BY <1>3, CreatorFields DEF InsertRow, TypeOK
  <2>2. /\ row[c] = None
        /\ row' = [row EXCEPT ![c] = NewLink(creators[k].user, creators[k].url)]
        /\ creators' = [creators EXCEPT ![k].pc = "queue"]
        /\ UNCHANGED <<msg, workers>>
    BY <1>3, <2>1 DEF InsertRow, CodeIsFree
  <2>3. creators'[k] = [creators[k] EXCEPT !.pc = "queue"]
        /\ \A j \in Creators : j # k => creators'[j] = creators[j]
    BY <2>2 DEF TypeOK
  <2>4. creators'[k].pc = "queue" /\ creators'[k].code = c
        /\ creators'[k].user = creators[k].user /\ creators'[k].url = creators[k].url
    BY <2>1, <2>3, CreatorMoved DEF TypeOK
  <2>5. msg[c] = "none" /\ \A j \in Creators : creators[j].pc = "queue" =>
          /\ creators[j].code # c /\ creators[j].code \in Codes
          /\ row'[creators[j].code] = row[creators[j].code]
    BY <2>2, CreatorFields DEF RowsStay, TypeOK
  <2>6. CheckInOnePlace'
    BY <2>2, <2>3, <2>4, <2>5 DEF Placed, CheckInOnePlace, Holding
  <2>7. row'[c].owner = creators[k].user /\ row'[c].url = creators[k].url
    BY <2>2 DEF NewLink, TypeOK
  <2>8. ASSUME NEW j \in Creators, creators'[j].pc = "queue"
        PROVE  /\ row'[creators'[j].code].owner = creators'[j].user
               /\ row'[creators'[j].code].url = creators'[j].url
    <3>1. CASE j = k
      BY <2>4, <2>7, <3>1
    <3>2. CASE j # k
      <4>1. creators'[j] = creators[j] /\ creators[j].pc = "queue"
        BY <2>3, <2>8, <3>2
      <4>2. row[creators[j].code].owner = creators[j].user
            /\ row[creators[j].code].url = creators[j].url
        BY <4>1 DEF Placed, NewRowIsOwn
      <4> QED BY <2>5, <4>1, <4>2
    <3> QED BY <3>1, <3>2
  <2>9. ASSUME NEW i \in Creators, NEW j \in Creators,
               creators'[i].pc = "queue", creators'[j].pc = "queue",
               creators'[i].code = creators'[j].code
        PROVE  i = j
    <3>1. CASE i = k
      BY <2>3, <2>4, <2>5, <2>9, <3>1
    <3>2. CASE j = k
      BY <2>3, <2>4, <2>5, <2>9, <3>2
    <3>3. CASE i # k /\ j # k
      <4>1. /\ creators[i].pc = "queue" /\ creators[j].pc = "queue"
            /\ creators[i].code = creators[j].code
        BY <2>3, <2>9, <3>3
      <4> QED BY <4>1 DEF Placed, NewRowIsOwn, AboutToQueue
    <3> QED BY <3>1, <3>2, <3>3
  <2>10. NewRowIsOwn'
    BY <2>8, <2>9 DEF NewRowIsOwn, AboutToQueue
  <2> QED BY <2>6, <2>10 DEF Placed
<1>4. ASSUME NEW k \in Creators, QueueCheck(k) PROVE Placed'
  <2>1. PICK c \in Codes : c = creators[k].code
    BY <1>4, CreatorFields DEF QueueCheck, TypeOK
  <2>2. /\ creators[k].pc = "queue" /\ creators'[k].pc # "queue"
        /\ \A j \in Creators : j # k => creators'[j] = creators[j]
        /\ UNCHANGED <<row, workers>>
    BY <1>4 DEF QueueCheck, IdleCreator, TypeOK
  <2>3. \A e \in Codes : \/ msg'[e] = msg[e]
                         \/ e = c /\ msg'[e] = "waiting"
                         \/ msg[e] = "waiting" /\ msg'[e] = "lost"
    BY <1>4, <2>1 DEF QueueCheck, Waiting, TypeOK
  <2>4. msg[c] = "none"
    BY <2>1, <2>2 DEF Placed, CheckInOnePlace
  <2>5. \A j \in Creators : j # k /\ creators[j].pc = "queue" =>
          creators[j].code # c /\ creators[j].code \in Codes
    BY <2>1, <2>2, CreatorFields DEF Placed, NewRowIsOwn, AboutToQueue, TypeOK
  <2>6. \A j \in Creators : creators'[j].pc = "queue" =>
          j # k /\ creators'[j] = creators[j] /\ msg'[creators'[j].code] = "none"
    BY <2>2, <2>3, <2>5 DEF Placed, CheckInOnePlace
  <2>7. \A e \in Codes : Holding(e)' = Holding(e)
    BY <2>2 DEF Holding
  <2>8. CheckInOnePlace'
    BY <2>2, <2>3, <2>4, <2>6, <2>7 DEF Placed, CheckInOnePlace
  <2>9. NewRowIsOwn'
    BY <2>2, <2>6 DEF Placed, NewRowIsOwn, AboutToQueue
  <2> QED BY <2>8, <2>9 DEF Placed
<1>5. ASSUME NEW w \in Workers, ReadStream(w) PROVE Placed'
  <2>1. PICK batch \in SUBSET Waiting :
          /\ msg' = [c \in Codes |-> IF c \in batch THEN "pending" ELSE msg[c]]
          /\ workers' = [workers EXCEPT ![w].batch = batch] \/ workers' = workers
    BY <1>5 DEF ReadStream
  <2>2. UNCHANGED <<row, creators>> /\ workers[w].pc = "idle" /\ workers[w].batch = {}
        /\ workers[w].code = None
    BY <1>5, WorkerFields DEF ReadStream, TypeOK
  <2>3. \A v \in Workers : v # w => workers'[v] = workers[v]
    BY <2>1 DEF TypeOK
  <2>4. /\ workers'[w].pc = "idle" /\ workers'[w].code = None
        /\ workers'[w].batch \subseteq batch
    <3>1. CASE workers' = workers
      BY <2>2, <3>1
    <3>2. CASE workers' = [workers EXCEPT ![w].batch = batch]
      <4>1. workers'[w] = [workers[w] EXCEPT !.batch = batch]
        BY <3>2 DEF TypeOK
      <4> QED BY <2>2, <4>1, WorkerMoved DEF TypeOK
    <3> QED BY <2>1, <3>1, <3>2
  <2>5. \A c \in Codes : c \in batch =>
          msg[c] = "waiting" /\ msg'[c] = "pending" /\ Holding(c) = {}
            /\ AboutToQueue(c) = {}
    BY <2>1 DEF Waiting, Placed, CheckInOnePlace, AboutToQueue
  <2>6. \A c \in Codes : c \notin batch => msg'[c] = msg[c]
    BY <2>1
  <2>7. \A v \in Workers, c \in Codes :
          v \in Holding(c)' => v \in Holding(c) \/ (v = w /\ c \in batch)
    BY <2>3, <2>4 DEF Holding
  <2>8. \A k \in Creators : creators'[k].pc = "queue" => msg'[creators'[k].code] = "none"
    BY <2>2, <2>5, <2>6, CreatorFields DEF Placed, CheckInOnePlace, AboutToQueue, TypeOK
  <2>9. \A c \in Codes : msg'[c] \in {"none", "waiting"} => Holding(c)' = {}
    <3> SUFFICES ASSUME NEW c \in Codes, msg'[c] \in {"none", "waiting"},
                        NEW v \in Holding(c)'
                 PROVE FALSE
      OBVIOUS
    <3>1. v \in Workers
      BY DEF Holding
    <3> QED BY <2>5, <2>6, <2>7, <3>1 DEF Placed, CheckInOnePlace
  <2>10. \A u, v \in Workers : \A c \in Codes :
           u \in Holding(c)' /\ v \in Holding(c)' => u = v
    BY <2>5, <2>7 DEF Placed, CheckInOnePlace
  <2>11. \A v \in Workers : workers'[v].code \notin workers'[v].batch
    BY <1>0, <2>3, <2>4, NoneAssumption DEF Waiting
  <2>12. CheckInOnePlace'
    BY <2>8, <2>9, <2>10, <2>11 DEF CheckInOnePlace
  <2>13. NewRowIsOwn'
    BY <2>2 DEF Placed, NewRowIsOwn, AboutToQueue
  <2> QED BY <2>12, <2>13 DEF Placed
<1>6. ASSUME NEW w \in Workers, UNCHANGED <<creators, msg>>,
             \A v \in Workers : v # w => workers'[v] = workers[v],
             workers'[w].batch \subseteq workers[w].batch,
             workers'[w].code \notin workers'[w].batch,
             workers'[w].pc = "persist" => workers'[w].code \in workers[w].batch
      PROVE  Placed'
  <2>1. \A c \in Codes : Holding(c)' \subseteq Holding(c)
    BY <1>6 DEF Holding
  <2> QED BY <1>0, <1>6, <2>1, PlacedKept
<1>7. ASSUME NEW w \in Workers, NEW c \in Codes, NEW v \in Verdicts,
             CheckUrl(w, c, v) PROVE Placed'
  BY <1>6, <1>7, NoneAssumption, WorkerFields DEF CheckUrl, IdleWorker, TypeOK
<1>8. ASSUME NEW w \in Workers, PersistVerdict(w) \/ InvalidateJudged(w) PROVE Placed'
  <2>1. PICK p \in {"invalidate", "ack"} : workers' = [workers EXCEPT ![w].pc = p]
    BY <1>8 DEF PersistVerdict, InvalidateJudged
  <2>2. workers'[w] = [workers[w] EXCEPT !.pc = p]
        /\ \A v \in Workers : v # w => workers'[v] = workers[v]
    BY <2>1 DEF TypeOK
  <2>3. workers'[w].pc = p /\ workers'[w].code = workers[w].code
        /\ workers'[w].batch = workers[w].batch
    BY <2>2, WorkerMoved DEF TypeOK
  <2>4. UNCHANGED <<creators, msg>>
    BY <1>8 DEF PersistVerdict, InvalidateJudged
  <2> QED BY <1>0, <1>6, <2>2, <2>3, <2>4
<1>9. ASSUME NEW w \in Workers, AckMessage(w) PROVE Placed'
  <2>1. PICK c \in Codes : c = workers[w].code
    BY <1>9, WorkerFields DEF AckMessage, TypeOK
  <2>2. /\ creators' = creators /\ workers'[w] = IdleWorker(workers[w].batch)
        /\ \A v \in Workers : v # w => workers'[v] = workers[v]
    BY <1>9 DEF AckMessage, TypeOK
  <2>3. \A e \in Codes : Holding(e)' \subseteq Holding(e)
    BY <2>2 DEF Holding, IdleWorker
  <2>4. \A v \in Workers : workers'[v].code \notin workers'[v].batch
    BY <1>0, <2>2, NoneAssumption, WorkerFields DEF IdleWorker, TypeOK
  <2>5. \A e \in Codes : \/ msg'[e] = msg[e]
                         \/ msg[e] = "pending" /\ msg'[e] = "acked"
    BY <1>9, <2>1 DEF AckMessage, TypeOK
  <2>6. \A e \in Codes : msg[e] = "pending" => AboutToQueue(e) = {}
    BY DEF Placed, CheckInOnePlace, AboutToQueue
  <2> QED BY <2>2, <2>3, <2>4, <2>5, <2>6, PlacedKept
<1>10. ASSUME NEW w \in Workers, CrashWorker(w) \/ StartWorker(w) PROVE Placed'
  BY <1>6, <1>10, NoneAssumption DEF CrashWorker, StartWorker, IdleWorker, TypeOK
<1>11. ASSUME LoseStream PROVE Placed'
  <2>1. \A c \in Codes : Holding(c)' = Holding(c)
    BY <1>11 DEF LoseStream, Holding
  <2>2. \A e \in Codes : \/ msg'[e] = msg[e]
                         \/ msg[e] # "none" /\ msg'[e] = "lost"
    BY <1>11 DEF LoseStream, TypeOK
  <2>3. \A e \in Codes : msg[e] # "none" => AboutToQueue(e) = {}
    BY DEF Placed, CheckInOnePlace, AboutToQueue
  <2>4. UNCHANGED <<creators, workers>>
    BY <1>11 DEF LoseStream
  <2> QED BY <1>0, <2>1, <2>2, <2>3, <2>4, PlacedKept
<1>12. ASSUME NEW k \in Creators,
              \/ \E u \in Users, l \in Urls : Deduplicate(k, u, l)
              \/ \E c \in Codes : GenerateCode(k, c)
              \/ CrashCreator(k)
              \/ InsertRow(k) /\ Retry(k)
       PROVE Placed'
  <2>1. UNCHANGED <<workers, msg>>
    BY <1>12 DEF Deduplicate, GenerateCode, CrashCreator, InsertRow
  <2>2. \A j \in Creators : j # k => creators'[j] = creators[j]
    BY <1>12
       DEF Deduplicate, GenerateCode, CrashCreator, Retry, IdleCreator, TypeOK
  <2>3. Retry(k) => creators'[k].pc # "queue"
    <3> SUFFICES ASSUME Retry(k) PROVE creators'[k].pc # "queue"
      OBVIOUS
    <3>1. \/ creators'[k] = IdleCreator
          \/ creators'[k] = [creators[k] EXCEPT !.pc = "generate", !.code = None,
                                                !.tries = creators[k].tries + 1]
      BY DEF Retry, TypeOK
    <3>2. [creators[k] EXCEPT !.pc = "generate", !.code = None,
             !.tries = creators[k].tries + 1].pc = "generate"
      BY CreatorFields DEF TypeOK, CreatorStates, IdleCreator
    <3>3. IdleCreator.pc = "idle"
      BY DEF IdleCreator
    <3> QED BY <3>1, <3>2, <3>3
  <2>4. ASSUME NEW c \in Codes, creators' = [creators EXCEPT ![k].pc = "insert", ![k].code = c]
        PROVE  creators'[k].pc # "queue"
    <3>1. creators'[k] = [creators[k] EXCEPT !.pc = "insert", !.code = c]
      BY <2>4 DEF TypeOK
    <3>2. [creators[k] EXCEPT !.pc = "insert", !.code = c].pc = "insert"
      BY DEF TypeOK, CreatorStates, IdleCreator
    <3> QED BY <3>1, <3>2
  <2>5. ASSUME NEW c \in Codes, GenerateCode(k, c) PROVE creators'[k].pc # "queue"
    BY <2>3, <2>4, <2>5 DEF GenerateCode, IdleCreator, TypeOK
  <2>6. ASSUME NEW u \in Users, NEW l \in Urls, Deduplicate(k, u, l)
        PROVE  creators'[k].pc # "queue"
    BY <2>6 DEF Deduplicate, TypeOK
  <2>7. CrashCreator(k) => creators'[k].pc # "queue"
    BY DEF CrashCreator, IdleCreator, TypeOK
  <2>8. creators'[k].pc # "queue"
    BY <1>12, <2>3, <2>5, <2>6, <2>7
  <2> QED BY <1>2, <2>1, <2>2, <2>8
<1>13. Redirecting \/ Deleting \/ UNCHANGED vars => UNCHANGED <<creators, workers, msg>>
  BY DEF Redirecting, Deleting, ReadCache, QueryRow, FillCache, CrashReader,
         LoadForDelete, CompareRow, UpdateRow, FailDelete, InvalidateDeleted,
         CrashDeleter, vars
<1>14. Creating => Placed'
  BY <1>3, <1>4, <1>12 DEF Creating
<1>15. Checking => Placed'
  BY <1>5, <1>7, <1>8, <1>9, <1>10 DEF Checking
<1>16. Environment => Placed'
  BY <1>1, <1>11 DEF Environment, ExpireCache
<1> QED BY <1>1, <1>13, <1>14, <1>15, <1>16 DEF Next

\* Whatever number of creates pick the same free codes, in whatever order their
\* SELECTs and INSERTs run, fail or lose their replies: a create that goes on
\* to queue a check owns the row it queues it for, and no other create does.
THEOREM NewRowBelongs == Spec => []NewRowIsOwn
<1> DEFINE Inv == TypeOK /\ RowsStay /\ Placed
<1>1. Init => Inv
  <2>1. Init => TypeOK /\ RowsStay
    BY TypeInit
  <2>2. Init => Placed
    BY DEF Init, Placed, CheckInOnePlace, NewRowIsOwn, Holding, IdleCreator, IdleWorker
  <2> QED BY <2>1, <2>2
<1>2. Inv /\ [Next]_vars => Inv'
  BY TypeNext, RowsNext, PlacedNext
<1>3. Inv => NewRowIsOwn
  BY DEF Placed
<1> QED BY <1>1, <1>2, <1>3, PTL DEF Spec

-----------------------------------------------------------------------------
(* From here on the short codes come back from the stream as they were put *)
(* there (PlainCodes) wherever a theorem says so: LinkLifecycle implements *)
(* LinkDirectory, and an unsafe link is never served.                      *)

-----------------------------------------------------------------------------
(* Where the check of a link is outstanding.                               *)

\* A step after which nobody holds a check it did not hold before.
LEMMA OutstandingFewer ==
  ASSUME \A k \in Creators : creators'[k].pc = "queue" => creators'[k] = creators[k],
         \A c \in Codes : msg'[c] = "waiting" => msg[c] = "waiting",
         \A c \in Codes : Holding(c)' \subseteq Holding(c)
  PROVE  \A c \in Codes : Outstanding(c)' => Outstanding(c)
<1> SUFFICES ASSUME NEW c \in Codes, Outstanding(c)' PROVE Outstanding(c)
    OBVIOUS
<1>1. CASE AboutToQueue(c)' # {}
  <2>1. PICK k \in Creators : creators'[k].pc = "queue" /\ creators'[k].code = c
    BY <1>1 DEF AboutToQueue
  <2>2. k \in AboutToQueue(c)
    BY <2>1 DEF AboutToQueue
  <2> QED BY <2>2 DEF Outstanding
<1>2. CASE msg'[c] = "waiting"
  BY <1>2 DEF Outstanding
<1>3. CASE Holding(c)' # {}
  BY <1>3 DEF Outstanding
<1> QED BY <1>1, <1>2, <1>3 DEF Outstanding

\* A worker that drops messages, or turns one of its batch into the one in hand.
LEMMA HoldingFewer ==
  ASSUME NEW w \in Workers,
         \A v \in Workers : v # w => workers'[v] = workers[v],
         workers'[w].batch \subseteq workers[w].batch,
         workers'[w].pc = "persist" => workers'[w].code \in workers[w].batch
  PROVE  \A c \in Codes : Holding(c)' \subseteq Holding(c)
BY DEF Holding

LEMMA HoldingSame ==
  workers' = workers => \A c \in Codes : Holding(c)' = Holding(c)
BY DEF Holding

\* Once a link exists its check becomes outstanding no more: no message is
\* delivered twice and no check is queued again.
LEMMA OutstandingNext ==
  ASSUME TypeOK, RowsStay, Placed, [Next]_vars
  PROVE  \A c \in Codes : row[c] # None /\ Outstanding(c)' => Outstanding(c)
<1> DEFINE Fewer == \A c \in Codes : row[c] # None /\ Outstanding(c)' => Outstanding(c)
<1> USE DEF TypeOK
<1>1. CASE UNCHANGED <<creators, workers, msg>>
  BY <1>1, HoldingSame, OutstandingFewer
<1>2. ASSUME NEW k \in Creators, UNCHANGED <<workers, msg>>,
             creators'[k].pc # "queue",
             \A j \in Creators : j # k => creators'[j] = creators[j]
      PROVE  Fewer
  BY <1>2, HoldingSame, OutstandingFewer
<1>3. ASSUME NEW k \in Creators, InsertRow(k) PROVE Fewer
  <2> SUFFICES ASSUME NEW e \in Codes, row[e] # None, Outstanding(e)'
               PROVE  Outstanding(e)
    OBVIOUS
  <2>1. UNCHANGED <<workers, msg>>
        /\ \A j \in Creators : j # k => creators'[j] = creators[j]
    BY <1>3 DEF InsertRow, Retry
  <2>2. CASE Retry(k)
    <3>1. creators'[k].pc # "queue"
      BY <2>2, CreatorMoved DEF Retry, IdleCreator
    <3> QED BY <1>2, <2>1, <3>1
  <2>3. CASE ~Retry(k)
    <3>1. row[creators[k].code] = None /\ creators' = [creators EXCEPT ![k].pc = "queue"]
      BY <1>3, <2>3 DEF InsertRow, CodeIsFree
    <3>2. creators'[k] = [creators[k] EXCEPT !.pc = "queue"]
      BY <3>1
    <3>3. creators'[k].code = creators[k].code
      BY <3>2, CreatorMoved
    <3>4. AboutToQueue(e)' \subseteq AboutToQueue(e)
      BY <2>1, <3>1, <3>3 DEF AboutToQueue
    <3>5. Holding(e)' = Holding(e)
      BY <2>1, HoldingSame
    <3> QED BY <2>1, <3>4, <3>5 DEF Outstanding
  <2> QED BY <2>2, <2>3
<1>4. ASSUME NEW k \in Creators, QueueCheck(k) PROVE Fewer
  <2> SUFFICES ASSUME NEW e \in Codes, Outstanding(e)' PROVE Outstanding(e)
    OBVIOUS
  <2>1. PICK c \in Codes : c = creators[k].code
    BY <1>4, CreatorFields DEF QueueCheck
  <2>2. /\ creators[k].pc = "queue" /\ creators'[k].pc # "queue"
        /\ \A j \in Creators : j # k => creators'[j] = creators[j]
        /\ workers' = workers
    BY <1>4 DEF QueueCheck, IdleCreator
  <2>3. msg'[e] = "waiting" => e = c \/ msg[e] = "waiting"
    BY <1>4, <2>1 DEF QueueCheck, Waiting
  <2>4. k \in AboutToQueue(c)
    BY <2>1, <2>2 DEF AboutToQueue
  <2>5. AboutToQueue(e)' \subseteq AboutToQueue(e)
    BY <2>2 DEF AboutToQueue
  <2>6. Holding(e)' = Holding(e)
    BY <2>2, HoldingSame
  <2> QED BY <2>3, <2>4, <2>5, <2>6 DEF Outstanding
<1>5. ASSUME NEW w \in Workers, ReadStream(w) PROVE Fewer
  <2> SUFFICES ASSUME NEW e \in Codes, Outstanding(e)' PROVE Outstanding(e)
    OBVIOUS
  <2>1. PICK batch \in SUBSET Waiting :
          /\ msg' = [c \in Codes |-> IF c \in batch THEN "pending" ELSE msg[c]]
          /\ workers' = [workers EXCEPT ![w].batch = batch] \/ workers' = workers
    BY <1>5 DEF ReadStream
  <2>2. AboutToQueue(e)' = AboutToQueue(e) /\ (msg'[e] = "waiting" => msg[e] = "waiting")
    BY <1>5, <2>1 DEF ReadStream, AboutToQueue
  <2>3. Holding(e)' # {} => Holding(e) # {} \/ e \in batch
    <3>1. CASE workers' = workers
      BY <3>1, HoldingSame
    <3>2. CASE workers' = [workers EXCEPT ![w].batch = batch]
      <4>1. workers'[w] = [workers[w] EXCEPT !.batch = batch]
            /\ \A v \in Workers : v # w => workers'[v] = workers[v]
        BY <3>2
      <4>2. workers'[w].pc = workers[w].pc /\ workers'[w].code = workers[w].code
            /\ workers'[w].batch = batch
        BY <4>1, WorkerMoved
      <4> SUFFICES ASSUME NEW v \in Workers, v \in Holding(e)', e \notin batch
                   PROVE  v \in Holding(e)
        BY DEF Holding
      <4>3. CASE v = w
        BY <4>2, <4>3 DEF Holding
      <4>4. CASE v # w
        <5>1. workers'[v] = workers[v]
          BY <4>1, <4>4
        <5> QED BY <5>1 DEF Holding
      <4> QED BY <4>3, <4>4
    <3> QED BY <2>1, <3>1, <3>2
  <2>4. e \in batch => msg[e] = "waiting"
    BY <2>1 DEF Waiting
  <2> QED BY <2>2, <2>3, <2>4 DEF Outstanding
<1>6. ASSUME NEW w \in Workers, UNCHANGED creators,
             \A c \in Codes : msg'[c] = "waiting" => msg[c] = "waiting",
             \A v \in Workers : v # w => workers'[v] = workers[v],
             workers'[w].batch \subseteq workers[w].batch,
             workers'[w].pc = "persist" => workers'[w].code \in workers[w].batch
      PROVE  Fewer
  BY <1>6, HoldingFewer, OutstandingFewer
<1>7. ASSUME NEW w \in Workers, NEW c \in Codes, NEW v \in Verdicts,
             CheckUrl(w, c, v) PROVE Fewer
  BY <1>6, <1>7, WorkerFields DEF CheckUrl, IdleWorker
<1>8. ASSUME NEW w \in Workers, PersistVerdict(w) \/ InvalidateJudged(w) PROVE Fewer
  <2>1. PICK p \in {"invalidate", "ack"} : workers' = [workers EXCEPT ![w].pc = p]
    BY <1>8 DEF PersistVerdict, InvalidateJudged
  <2>2. workers'[w] = [workers[w] EXCEPT !.pc = p]
        /\ \A v \in Workers : v # w => workers'[v] = workers[v]
    BY <2>1
  <2>3. workers'[w].pc = p /\ workers'[w].batch = workers[w].batch
    BY <2>2, WorkerMoved
  <2>4. UNCHANGED <<creators, msg>>
    BY <1>8 DEF PersistVerdict, InvalidateJudged
  <2> QED BY <1>6, <2>2, <2>3, <2>4
<1>9. ASSUME NEW w \in Workers, AckMessage(w) PROVE Fewer
  <2>1. /\ creators' = creators /\ workers'[w] = IdleWorker(workers[w].batch)
        /\ \A v \in Workers : v # w => workers'[v] = workers[v]
    BY <1>9 DEF AckMessage
  <2>2. \A c \in Codes : msg'[c] = "waiting" => msg[c] = "waiting"
    BY <1>9 DEF AckMessage
  <2> QED BY <1>6, <2>1, <2>2 DEF IdleWorker
<1>10. ASSUME NEW w \in Workers, CrashWorker(w) \/ StartWorker(w) PROVE Fewer
  BY <1>6, <1>10 DEF CrashWorker, StartWorker, IdleWorker
<1>11. ASSUME LoseStream PROVE Fewer
  BY <1>11, HoldingSame, OutstandingFewer DEF LoseStream
<1>12. ASSUME NEW k \in Creators, NEW c \in Codes, GenerateCode(k, c) PROVE Fewer
  <2>1. UNCHANGED <<workers, msg>>
        /\ \A j \in Creators : j # k => creators'[j] = creators[j]
    BY <1>12 DEF GenerateCode, Retry
  <2>2. creators'[k].pc # "queue"
    <3>1. CASE Retry(k)
      BY <3>1, CreatorMoved DEF Retry, IdleCreator
    <3>2. CASE creators' = [creators EXCEPT ![k].pc = "insert", ![k].code = c]
      BY <3>2, CreatorMoved
    <3>3. CASE creators' = [creators EXCEPT ![k] = IdleCreator]
      BY <3>3 DEF IdleCreator
    <3> QED BY <1>12, <3>1, <3>2, <3>3 DEF GenerateCode
  <2> QED BY <1>2, <2>1, <2>2
<1>13. ASSUME NEW k \in Creators,
              (\E u \in Users, l \in Urls : Deduplicate(k, u, l)) \/ CrashCreator(k)
       PROVE  Fewer
  BY <1>2, <1>13 DEF Deduplicate, CrashCreator, IdleCreator
<1>14. Redirecting \/ Deleting \/ UNCHANGED vars => UNCHANGED <<creators, workers, msg>>
  BY DEF Redirecting, Deleting, ReadCache, QueryRow, FillCache, CrashReader,
         LoadForDelete, CompareRow, UpdateRow, FailDelete, InvalidateDeleted,
         CrashDeleter, vars
<1>15. Creating => Fewer
  BY <1>3, <1>4, <1>12, <1>13 DEF Creating
<1>16. Checking => Fewer
  BY <1>5, <1>7, <1>8, <1>9, <1>10 DEF Checking
<1>17. Environment => Fewer
  BY <1>1, <1>11 DEF Environment, ExpireCache
<1> QED BY <1>1, <1>14, <1>15, <1>16, <1>17 DEF Next

\* The UPDATE of a verdict settles the check of its link and no other.
LEMMA PersistSettles ==
  ASSUME TypeOK, RowsStay, Placed, NEW w \in Workers, PersistVerdict(w)
  PROVE  /\ workers[w].code \in Codes /\ row[workers[w].code] # None
         /\ Outstanding(workers[w].code)
         /\ \A e \in Codes : Outstanding(e)' <=> Outstanding(e) /\ e # workers[w].code
<1> USE DEF TypeOK
<1>1. PICK c \in Codes : c = workers[w].code
  BY WorkerFields DEF PersistVerdict
<1>2. PICK p \in {"invalidate", "ack"} : workers' = [workers EXCEPT ![w].pc = p]
  BY DEF PersistVerdict
<1>3. workers'[w] = [workers[w] EXCEPT !.pc = p]
      /\ \A v \in Workers : v # w => workers'[v] = workers[v]
  BY <1>2
<1>4. workers'[w].pc = p /\ workers'[w].batch = workers[w].batch
  BY <1>3, WorkerMoved
<1>5. UNCHANGED <<creators, msg>> /\ workers[w].pc = "persist"
  BY DEF PersistVerdict
<1>6. \A e \in Codes : AboutToQueue(e)' = AboutToQueue(e) /\ msg'[e] = msg[e]
  BY <1>5 DEF AboutToQueue
<1>7. w \in Holding(c)
  BY <1>1, <1>5 DEF Holding
<1>8. \A e \in Codes : e # c => Holding(e)' = Holding(e)
  BY <1>1, <1>3, <1>4, <1>5 DEF Holding
<1>9. Holding(c)' = {}
  <2> SUFFICES ASSUME NEW v \in Holding(c)' PROVE FALSE
    OBVIOUS
  <2>1. v \in Workers
    BY DEF Holding
  <2>2. c \notin workers[w].batch
    BY <1>1 DEF Placed, CheckInOnePlace
  <2>3. v # w
    BY <1>4, <2>2 DEF Holding
  <2>4. v \in Holding(c)
    BY <1>3, <2>1, <2>3 DEF Holding
  <2> QED BY <1>7, <2>1, <2>3, <2>4 DEF Placed, CheckInOnePlace
<1>10. msg[c] \notin {"none", "waiting"}
  BY <1>7 DEF Placed, CheckInOnePlace
<1>11. AboutToQueue(c) = {}
  BY <1>10 DEF AboutToQueue, Placed, CheckInOnePlace
<1>12. Outstanding(c) /\ ~Outstanding(c)'
  BY <1>6, <1>7, <1>9, <1>10, <1>11 DEF Outstanding
<1>13. \A e \in Codes : e # c => (Outstanding(e)' <=> Outstanding(e))
  BY <1>6, <1>8 DEF Outstanding
<1>14. row[c] # None
  BY <1>1 DEF RowsStay
<1> QED BY <1>1, <1>12, <1>13, <1>14

\* What is outstanding has a row.
LEMMA OutstandingHasRow ==
  ASSUME RowsStay, NEW c \in Codes, Outstanding(c)
  PROVE  row[c] # None
BY DEF Outstanding, AboutToQueue, Holding, RowsStay

-----------------------------------------------------------------------------
(* What one step does to one row, one delete, one reader, one cached copy.  *)

Created(c) == /\ row[c] = None /\ \E k \in Creators : InsertRow(k)
              /\ row'[c].active /\ row'[c].status = "pending" /\ ~row'[c].checked
Erased(c, d) ==
  /\ deleters[d].pc = "update" /\ deleters[d].code = c
  /\ row'[c] = Merge(row[c], deleters[d].snap, deleters[d].diff)
Settled(c, w) ==
  /\ PersistVerdict(w) /\ workers[w].code = c
  /\ row'[c] = Judged(row[c], workers[w].verdict)

LEMMA RowSteps ==
  ASSUME TypeOK, RowsStay, PlainCodes, [Next]_vars, NEW c \in Codes
  PROVE  \/ row'[c] = row[c] \/ Created(c)
         \/ \E d \in Deleters : Erased(c, d)
         \/ \E w \in Workers : Settled(c, w)
<1> USE NoneIsNoLink DEF TypeOK
<1> DEFINE Goal == \/ row'[c] = row[c] \/ Created(c)
                   \/ \E d \in Deleters : Erased(c, d)
                   \/ \E w \in Workers : Settled(c, w)
<1>1. CASE row' = row
  BY <1>1
<1>2. ASSUME NEW k \in Creators, InsertRow(k) PROVE Goal
  <2>1. PICK e \in Codes : e = creators[k].code
    BY <1>2, CreatorFields DEF InsertRow
  <2>2. CASE row' = [row EXCEPT ![e] = NewLink(creators[k].user, creators[k].url)]
             /\ row[e] = None /\ e = c
    <3>1. row'[c] = NewLink(creators[k].user, creators[k].url)
      BY <2>2
    <3> QED BY <1>2, <2>2, <3>1 DEF Created, NewLink
  <2>3. CASE row' = [row EXCEPT ![e] = NewLink(creators[k].user, creators[k].url)]
             /\ e # c
    BY <2>3
  <2> QED BY <1>1, <1>2, <2>1, <2>2, <2>3 DEF InsertRow, CodeIsFree
<1>3. ASSUME NEW d \in Deleters, UpdateRow(d) \/ FailDelete(d) PROVE Goal
  BY <1>3, DeleterFields DEF UpdateRow, FailDelete, Erased
<1>4. ASSUME NEW w \in Workers, PersistVerdict(w) PROVE Goal
  BY <1>4, WorkerFields DEF PersistVerdict, Settled, Named, PlainCodes
<1>5. Redirecting \/ Environment \/ UNCHANGED vars => row' = row
  BY DEF Redirecting, Environment, ReadCache, QueryRow, FillCache, CrashReader,
         LoseStream, ExpireCache, vars
<1>6. Creating => row' = row \/ \E k \in Creators : InsertRow(k)
  BY DEF Creating, Deduplicate, GenerateCode, QueueCheck, CrashCreator
<1>7. Deleting => row' = row \/ \E d \in Deleters : UpdateRow(d) \/ FailDelete(d)
  BY DEF Deleting, LoadForDelete, CompareRow, InvalidateDeleted, CrashDeleter
<1>8. Checking => row' = row \/ \E w \in Workers : PersistVerdict(w)
  BY DEF Checking, ReadStream, CheckUrl, InvalidateJudged, AckMessage,
         CrashWorker, StartWorker
<1> QED
  BY <1>1, <1>2, <1>3, <1>4, <1>5, <1>6, <1>7, <1>8 DEF Next

Loaded(d) ==
  LET c == deleters'[d].code IN
  /\ c \in Codes /\ row[c] # None /\ row' = row
  /\ deleters'[d].pc = "compare"
  /\ deleters'[d].snap = [row[c] EXCEPT !.active = FALSE]
WentOn(d) ==
  LET c == deleters[d].code IN
  /\ deleters[d].pc # "idle"
  /\ deleters'[d].code = c /\ deleters'[d].snap = deleters[d].snap
  /\ deleters'[d].pc = "update" =>
       row' = row /\ deleters'[d].diff = Diff(row[c], deleters[d].snap)

LEMMA DeleterSteps ==
  ASSUME TypeOK, [Next]_vars, NEW d \in Deleters
  PROVE  \/ deleters'[d] = deleters[d] \/ deleters'[d].pc = "idle"
         \/ Loaded(d) \/ WentOn(d)
<1> USE DEF TypeOK
<1> DEFINE Goal == \/ deleters'[d] = deleters[d] \/ deleters'[d].pc = "idle"
                   \/ Loaded(d) \/ WentOn(d)
<1>1. ASSUME NEW e \in Deleters, NEW c \in Codes, NEW u \in Users,
             LoadForDelete(e, c, u) PROVE Goal
  BY <1>1 DEF LoadForDelete, Loaded
<1>2. ASSUME CompareRow(d) PROVE Goal
  <2>0. PICK diff : diff = Diff(row[deleters[d].code], deleters[d].snap)
    OBVIOUS
  <2>1. PICK p \in {"invalidate", "update"} :
          deleters' = [deleters EXCEPT ![d].diff = diff, ![d].pc = p]
    <3>1. deleters' = [deleters EXCEPT ![d].diff = diff,
             ![d].pc = IF diff = {} THEN "invalidate" ELSE "update"]
      BY <1>2, <2>0 DEF CompareRow
    <3> QED BY <3>1
  <2>2. deleters'[d] = [deleters[d] EXCEPT !.diff = diff, !.pc = p]
    BY <2>1
  <2>3. deleters'[d].pc = p /\ deleters'[d].diff = diff
        /\ deleters'[d].code = deleters[d].code /\ deleters'[d].snap = deleters[d].snap
    BY <2>2, DeleterMoved
  <2> QED BY <1>2, <2>0, <2>1, <2>3 DEF CompareRow, WentOn
<1>3. ASSUME UpdateRow(d) PROVE Goal
  <2>1. deleters'[d] = [deleters[d] EXCEPT !.pc = "invalidate"]
    BY <1>3 DEF UpdateRow
  <2> QED BY <1>3, <2>1, DeleterMoved DEF UpdateRow, WentOn
<1>4. ASSUME FailDelete(d) \/ InvalidateDeleted(d) \/ CrashDeleter(d) PROVE Goal
  BY <1>4 DEF FailDelete, InvalidateDeleted, CrashDeleter, IdleDeleter
<1>5. ASSUME NEW e \in Deleters, e # d,
             \/ CompareRow(e) \/ UpdateRow(e) \/ FailDelete(e)
             \/ InvalidateDeleted(e) \/ CrashDeleter(e)
      PROVE  deleters'[d] = deleters[d]
  BY <1>5 DEF CompareRow, UpdateRow, FailDelete, InvalidateDeleted, CrashDeleter
<1>6. Deleting => Goal
  BY <1>1, <1>2, <1>3, <1>4, <1>5 DEF Deleting
<1>7. Redirecting \/ Creating \/ Checking \/ Environment \/ UNCHANGED vars
        => deleters' = deleters
  BY DEF Redirecting, Creating, Checking, Environment, ReadCache, QueryRow,
         FillCache, CrashReader, Deduplicate, GenerateCode, InsertRow, QueueCheck,
         CrashCreator, ReadStream, CheckUrl, PersistVerdict, InvalidateJudged,
         AckMessage, CrashWorker, StartWorker, LoseStream, ExpireCache, vars
<1> QED BY <1>6, <1>7 DEF Next

LEMMA ReaderSteps ==
  ASSUME TypeOK, [Next]_vars, NEW r \in Readers
  PROVE  /\ readers'[r].pc = "fill" =>
              \/ readers[r].pc = "fill" /\ readers'[r].snap = readers[r].snap
                   /\ readers'[r].code = readers[r].code
              \/ \E c \in Codes : IsActive(c) /\ readers'[r].snap = row[c]
                                 /\ readers'[r].code = c
         /\ \/ readers'[r].answer = readers[r].answer
            \/ readers'[r].answer \in {"none", "notFound", "error"}
            \/ \E c \in Codes : cache[c] # None /\ readers'[r].answer = Serve(cache[c])
            \/ readers[r].pc = "fill" /\ readers'[r].answer = Serve(readers[r].snap)
<1> USE DEF TypeOK
<1> DEFINE Goal ==
      /\ readers'[r].pc = "fill" =>
           \/ readers[r].pc = "fill" /\ readers'[r].snap = readers[r].snap
                /\ readers'[r].code = readers[r].code
           \/ \E c \in Codes : IsActive(c) /\ readers'[r].snap = row[c]
                              /\ readers'[r].code = c
      /\ \/ readers'[r].answer = readers[r].answer
         \/ readers'[r].answer \in {"none", "notFound", "error"}
         \/ \E c \in Codes : cache[c] # None /\ readers'[r].answer = Serve(cache[c])
         \/ readers[r].pc = "fill" /\ readers'[r].answer = Serve(readers[r].snap)
<1>1. CASE readers'[r] = readers[r]
  BY <1>1
<1>2. ASSUME NEW c \in Codes, LapReaders(c) PROVE Goal
  BY <1>2, LapKeeps
<1>3. ASSUME NEW c \in Codes, ReadCache(r, c) PROVE Goal
  BY <1>3 DEF ReadCache, IdleReader
<1>4. ASSUME QueryRow(r) PROVE Goal
  <2>1. PICK c \in Codes : c = readers[r].code
    BY <1>4, ReaderFields DEF QueryRow
  <2>2. \/ IsActive(c) /\ readers'[r] = [pc |-> "fill", code |-> c, snap |-> row[c],
                                         lapped |-> FALSE, answer |-> "none"]
        \/ readers'[r] = IdleReader("notFound")
        \/ readers'[r] = IdleReader("error")
    BY <1>4, <2>1 DEF QueryRow
  <2> QED BY <2>2 DEF IdleReader
<1>5. ASSUME FillCache(r) PROVE Goal
  BY <1>5 DEF FillCache, IdleReader
<1>6. ASSUME CrashReader(r) PROVE Goal
  BY <1>6 DEF CrashReader, IdleReader
<1>7. ASSUME NEW q \in Readers, q # r,
             \/ \E c \in Codes : ReadCache(q, c)
             \/ QueryRow(q) \/ FillCache(q) \/ CrashReader(q)
      PROVE  readers'[r] = readers[r]
  BY <1>7 DEF ReadCache, QueryRow, FillCache, CrashReader
<1>8. Redirecting => Goal
  BY <1>1, <1>3, <1>4, <1>5, <1>6, <1>7 DEF Redirecting
<1>9. Deleting => readers' = readers \/ \E c \in Codes : LapReaders(c)
  BY DeleterFields
     DEF Deleting, LoadForDelete, CompareRow, UpdateRow, FailDelete,
         InvalidateDeleted, CrashDeleter, Invalidate, LoseInvalidation
<1>10. Checking => readers' = readers \/ \E c \in Codes : LapReaders(c)
  <2>1. \A w \in Workers : PersistVerdict(w) \/ InvalidateJudged(w) \/ CrashWorker(w)
          => readers' = readers \/ \E c \in Codes : LapReaders(c)
    BY NamedCode DEF PersistVerdict, InvalidateJudged, CrashWorker, Invalidate,
                     LoseInvalidation
  <2> QED BY <2>1 DEF Checking, ReadStream, CheckUrl, AckMessage, StartWorker
<1>11. Creating \/ Environment \/ UNCHANGED vars => readers' = readers
  BY DEF Creating, Environment, Deduplicate, GenerateCode, InsertRow, QueueCheck,
         CrashCreator, LoseStream, ExpireCache, vars
<1> QED BY <1>1, <1>2, <1>8, <1>9, <1>10, <1>11 DEF Next

LEMMA CacheSteps ==
  ASSUME TypeOK, [Next]_vars, NEW c \in Codes, cache'[c] # None
  PROVE  \/ cache'[c] = cache[c]
         \/ \E r \in Readers : /\ readers[r].pc = "fill" /\ readers[r].code = c
                              /\ cache'[c] = readers[r].snap
<1> USE DEF TypeOK
<1>1. ASSUME NEW r \in Readers, FillCache(r)
      PROVE  \/ cache'[c] = cache[c]
             \/ /\ readers[r].pc = "fill" /\ readers[r].code = c
                /\ cache'[c] = readers[r].snap
  BY <1>1 DEF FillCache
<1>2. Redirecting => cache' = cache \/ \E r \in Readers : FillCache(r)
  BY DEF Redirecting, ReadCache, QueryRow, CrashReader
<1>3. Deleting => cache'[c] = cache[c]
  BY DEF Deleting, LoadForDelete, CompareRow, UpdateRow, FailDelete,
         InvalidateDeleted, CrashDeleter, Invalidate, LoseInvalidation
<1>4. Checking => cache'[c] = cache[c]
  BY DEF Checking, ReadStream, CheckUrl, PersistVerdict, InvalidateJudged,
         AckMessage, CrashWorker, StartWorker, Invalidate, LoseInvalidation
<1>5. Creating \/ Environment \/ UNCHANGED vars => cache'[c] = cache[c]
  BY DEF Creating, Environment, Deduplicate, GenerateCode, InsertRow, QueueCheck,
         CrashCreator, LoseStream, ExpireCache, vars
<1> QED BY <1>1, <1>2, <1>3, <1>4, <1>5 DEF Next

-----------------------------------------------------------------------------
(* No verdict shows while a check is due, so a delete that goes back to an  *)
(* old copy of the row can only go back to one without a verdict.          *)

Harmless == DeletesAreHarmless /\ FillsAreSafe /\ UnsafeNeverActive

LEMMA NoVerdictNext ==
  ASSUME TypeOK, RowsStay, Placed, PlainCodes, NoVerdictWhileDue, [Next]_vars
  PROVE  NoVerdictWhileDue'
<1> USE DEF TypeOK
<1>1. SUFFICES ASSUME NEW c \in Codes, Outstanding(c)'
      PROVE  /\ row'[c].status = "pending" /\ ~row'[c].checked
             /\ \A d \in Deleters : deleters'[d].pc # "idle" /\ deleters'[d].code = c =>
                  deleters'[d].snap.status = "pending" /\ ~deleters'[d].snap.checked
  BY DEF NoVerdictWhileDue
<1>2. RowsStay' /\ TypeOK'
  BY RowsNext, TypeNext
<1>3. row'[c] # None
  BY <1>1, <1>2 DEF RowsStay, Outstanding, AboutToQueue, Holding
<1>4. CASE row[c] = None
  <2>1. \A d \in Deleters : deleters[d].pc # "idle" => deleters[d].code # c
    BY <1>4 DEF RowsStay
  <2>2. \A w \in Workers : ~Settled(c, w)
    BY <1>4, PersistSettles DEF Settled
  <2>3. Created(c)
    BY <1>3, <1>4, <2>1, <2>2, RowSteps DEF Erased
  <2>4. \A d \in Deleters : deleters'[d].pc # "idle" => deleters'[d].code # c
    BY <1>4, <2>1, DeleterSteps DEF Loaded, WentOn
  <2> QED BY <2>3, <2>4 DEF Created
<1>5. CASE row[c] # None
  <2>1. Outstanding(c)
    BY <1>1, <1>5, OutstandingNext
  <2>2. row[c].status = "pending" /\ ~row[c].checked /\ row[c] \in Link
    BY <1>5, <2>1 DEF NoVerdictWhileDue
  <2>3. \A d \in Deleters : deleters[d].pc # "idle" /\ deleters[d].code = c =>
          /\ deleters[d].snap.status = "pending" /\ ~deleters[d].snap.checked
          /\ deleters[d].snap \in Link
    BY <2>1, DeleterFields DEF NoVerdictWhileDue
  <2>4. \A w \in Workers : ~Settled(c, w)
    BY <1>1, PersistSettles DEF Settled
  <2>5. row'[c].status = "pending" /\ ~row'[c].checked
    <3>1. ASSUME NEW d \in Deleters, Erased(c, d)
          PROVE  row'[c].status = "pending" /\ ~row'[c].checked
      BY <2>2, <2>3, <3>1, MergeType DEF Erased
    <3> QED BY <1>5, <2>2, <2>4, <3>1, RowSteps DEF Created
  <2>6. ASSUME NEW d \in Deleters, deleters'[d].pc # "idle", deleters'[d].code = c
        PROVE  deleters'[d].snap.status = "pending" /\ ~deleters'[d].snap.checked
    <3>1. CASE deleters'[d] = deleters[d]
      BY <2>3, <2>6, <3>1
    <3>2. CASE Loaded(d)
      BY <2>2, <2>6, <3>2 DEF Loaded, Link
    <3>3. CASE WentOn(d)
      BY <2>3, <2>6, <3>3 DEF WentOn
    <3> QED BY <2>6, <3>1, <3>2, <3>3, DeleterSteps
  <2> QED BY <2>5, <2>6
<1> QED BY <1>4, <1>5

LEMMA DeletesHarmlessNext ==
  ASSUME TypeOK, RowsStay, Placed, PlainCodes, NoVerdictWhileDue,
         DeletesAreHarmless, [Next]_vars
  PROVE  DeletesAreHarmless'
<1> USE DEF TypeOK
<1>1. ASSUME NEW d \in Deleters, deleters'[d].pc # "idle"
      PROVE  ~deleters'[d].snap.active
  <2>1. CASE deleters'[d] = deleters[d]
    BY <1>1, <2>1 DEF DeletesAreHarmless
  <2>2. CASE Loaded(d)
    BY <2>2 DEF Loaded, Link
  <2>3. CASE WentOn(d)
    BY <1>1, <2>3 DEF WentOn, DeletesAreHarmless
  <2> QED BY <1>1, <2>1, <2>2, <2>3, DeleterSteps
<1>2. ASSUME NEW d \in Deleters, deleters'[d].pc = "update",
             "active" \notin deleters'[d].diff, IsActive(deleters[d].code)'
      PROVE  deleters'[d].snap.status = "pending"
  <2>1. CASE WentOn(d)
    <3>1. PICK c \in Codes : c = deleters[d].code
      BY <2>1, DeleterFields DEF WentOn
    <3>2. row'[c] # None /\ row'[c].active /\ row'[c] = row[c]
          /\ "active" \notin Diff(row[c], deleters[d].snap)
      BY <1>2, <2>1, <3>1 DEF WentOn, IsActive
    <3>3. ~deleters[d].snap.active
      BY <2>1 DEF WentOn, DeletesAreHarmless
    <3>4. row[c] \in Link /\ deleters[d].snap \in Link
      BY <2>1, <3>2, DeleterFields DEF WentOn
    <3> QED BY <3>2, <3>3, <3>4 DEF Diff, Link
  <2>2. CASE deleters'[d] = deleters[d]
    <3>1. PICK c \in Codes : c = deleters[d].code
      BY <1>2, <2>2, DeleterFields
    <3>2. row'[c] # None /\ row'[c].active /\ row[c] # None
      BY <1>2, <2>2, <3>1 DEF IsActive, RowsStay
    <3>3. IsActive(c) => deleters[d].snap.status = "pending"
      BY <1>2, <2>2, <3>1 DEF DeletesAreHarmless
    <3>4. CASE row'[c] = row[c]
      BY <2>2, <3>2, <3>3, <3>4 DEF IsActive
    <3>5. ASSUME NEW e \in Deleters, Erased(c, e) PROVE row[c].active
      <4>1. deleters[e].snap \in Link /\ ~deleters[e].snap.active
        BY <3>5, DeleterFields DEF Erased, DeletesAreHarmless
      <4> QED BY <3>2, <3>5, <4>1, MergeType DEF Erased
    <3>6. ASSUME NEW w \in Workers, Settled(c, w)
          PROVE  deleters[d].snap.status = "pending"
      <4>1. Outstanding(c)
        BY <3>6, PersistSettles DEF Settled
      <4> QED BY <1>2, <2>2, <3>1, <4>1 DEF NoVerdictWhileDue
    <3> QED BY <2>2, <3>2, <3>3, <3>4, <3>5, <3>6, RowSteps DEF Created, IsActive
  <2> QED BY <1>2, <2>1, <2>2, DeleterSteps DEF Loaded
<1> QED BY <1>1, <1>2 DEF DeletesAreHarmless

LEMMA UnsafeNext ==
  ASSUME TypeOK, RowsStay, Placed, PlainCodes, Harmless, [Next]_vars
  PROVE  (FillsAreSafe /\ UnsafeNeverActive)'
<1> USE DEF TypeOK
<1>1. ASSUME NEW r \in Readers, readers'[r].pc = "fill"
      PROVE  readers'[r].snap.active /\ readers'[r].snap.status # "unsafe"
  BY <1>1, ReaderSteps DEF Harmless, FillsAreSafe, UnsafeNeverActive, IsActive
<1>2. ASSUME NEW c \in Codes, IsActive(c)' PROVE row'[c].status # "unsafe"
  <2>1. row'[c] # None /\ row'[c].active
    BY <1>2 DEF IsActive
  <2>2. row[c] # None /\ row[c].active => row[c].status # "unsafe"
    BY DEF Harmless, UnsafeNeverActive, IsActive
  <2>3. ASSUME NEW d \in Deleters, Erased(c, d) PROVE row'[c].status # "unsafe"
    <3>1. /\ deleters[d].snap \in Link /\ ~deleters[d].snap.active
          /\ row[c] # None /\ row[c] \in Link
      BY <2>3, DeleterFields DEF Erased, Harmless, DeletesAreHarmless, RowsStay
    <3>2. "active" \notin deleters[d].diff /\ row[c].active
      BY <2>1, <2>3, <3>1, MergeType DEF Erased
    <3>3. deleters[d].snap.status = "pending"
      BY <2>3, <3>1, <3>2 DEF Erased, Harmless, DeletesAreHarmless, IsActive
    <3> QED BY <2>2, <2>3, <3>1, <3>2, <3>3, MergeType DEF Erased
  <2>4. ASSUME NEW w \in Workers, Settled(c, w) PROVE row'[c].status # "unsafe"
    <3>1. row[c] # None /\ row[c] \in Link
      BY <2>4, PersistSettles DEF Settled
    <3>2. workers[w].verdict \in {"safe", "unsafe", "skipped"}
      BY <2>4, WorkerFields DEF Settled, PersistVerdict
    <3>3. row'[c] = Judged(row[c], workers[w].verdict)
      BY <2>4 DEF Settled
    <3>4. CASE workers[w].verdict = "skipped"
      BY <2>1, <2>2, <3>1, <3>3, <3>4, JudgedType
    <3>5. CASE workers[w].verdict # "skipped"
      <4>1. row'[c].active = (workers[w].verdict = "safe")
            /\ row'[c].status = workers[w].verdict
        BY <3>1, <3>2, <3>3, <3>5, JudgedType
      <4> QED BY <2>1, <4>1
    <3> QED BY <3>4, <3>5
  <2> QED BY <2>1, <2>2, <2>3, <2>4, RowSteps DEF Created
<1>3. ASSUME NEW c \in Codes, cache'[c] # None
      PROVE  cache'[c].active /\ cache'[c].status # "unsafe"
  BY <1>3, CacheSteps DEF Harmless, FillsAreSafe, UnsafeNeverActive
<1>4. ASSUME NEW r \in Readers PROVE readers'[r].answer # "warning"
  BY ReaderSteps DEF Serve, Harmless, FillsAreSafe, UnsafeNeverActive
<1> QED BY <1>1, <1>2, <1>3, <1>4 DEF FillsAreSafe, UnsafeNeverActive

\* The inductive invariant, in the order its parts rest on each other.
Inductive ==
  TypeOK /\ RowsStay /\ Coherent /\ Placed /\ NoVerdictWhileDue /\ Harmless

LEMMA InductiveInit == Init => Inductive
<1> SUFFICES ASSUME Init PROVE Inductive
    OBVIOUS
<1>1. TypeOK /\ RowsStay
  BY TypeInit
<1>2. Coherent
  BY DEF Init, Coherent, CacheCoherent, FillsCoherent, IdleReader
<1>3. Placed
  BY DEF Init, Placed, CheckInOnePlace, NewRowIsOwn, Holding, IdleCreator, IdleWorker
<1>4. NoVerdictWhileDue
  BY DEF Init, NoVerdictWhileDue, Outstanding, AboutToQueue, Holding, IdleCreator,
         IdleWorker
<1>5. Harmless
  BY DEF Init, Harmless, DeletesAreHarmless, FillsAreSafe, UnsafeNeverActive,
         IsActive, IdleReader, IdleDeleter
<1> QED BY <1>1, <1>2, <1>3, <1>4, <1>5 DEF Inductive

LEMMA InductiveNext == PlainCodes /\ Inductive /\ [Next]_vars => Inductive'
BY TypeNext, RowsNext, CoherentNext, PlacedNext, NoVerdictNext, DeletesHarmlessNext,
   UnsafeNext
DEF Inductive, Harmless

LEMMA InductiveHolds ==
  ASSUME PlainCodes
  PROVE  Spec => []Inductive
<1>1. Inductive /\ [Next]_vars => Inductive'
  BY InductiveNext
<1> QED BY InductiveInit, <1>1, PTL DEF Spec

\* The whole inductive invariant holds in every behaviour, if every code comes back
\* from the stream as it was.
THEOREM InvariantHolds == PlainCodes => (Spec => []IInv)
<1> SUFFICES ASSUME PlainCodes PROVE Spec => []IInv
    OBVIOUS
<1>1. Inductive => IInv
  BY DEF Inductive, Coherent, Placed, Harmless, IInv
<1> QED BY InductiveHolds, <1>1, PTL

\* No delete, verdict, retry, crash or lost reply, in any order, makes an unsafe
\* link active, puts one into the cache or has the warning page sent, if every code
\* comes back from the stream as it was.
THEOREM UnsafeStaysDown == PlainCodes => (Spec => []UnsafeNeverActive)
<1> SUFFICES ASSUME PlainCodes PROVE Spec => []UnsafeNeverActive
    OBVIOUS
<1>1. Inductive => UnsafeNeverActive
  BY DEF Inductive, Harmless
<1> QED BY InductiveHolds, <1>1, PTL

-----------------------------------------------------------------------------
(* Refinement.  A step that leaves targets and live links alone forfeits the *)
(* checks that are no longer outstanding, if any; the others are a create    *)
(* (Publish), a delete (TakeDown) and a verdict (Judge).                     *)

LEMMA ForfeitStep ==
  ASSUME TypeOK, RowsStay, Placed, [Next]_vars,
         \A c \in Codes : /\ row'[c] = None <=> row[c] = None
                          /\ row[c] # None => /\ row'[c].owner = row[c].owner
                                              /\ row'[c].url = row[c].url
                          /\ IsActive(c)' = IsActive(c)
  PROVE  Directory!Next
<1> DEFINE lost == {c \in Codes : Outstanding(c) /\ ~Outstanding(c)'}
<1>1. TargetOf' = TargetOf
  BY DEF TargetOf
<1>2. LiveOf' = LiveOf
  BY DEF LiveOf
<1>3. \A c \in lost : CheckOf[c] = "due"
  BY OutstandingHasRow DEF CheckOf
<1>4. ASSUME NEW c \in Codes
      PROVE  CheckOf'[c] = IF c \in lost THEN "settled" ELSE CheckOf[c]
  <2>1. CASE row[c] = None
    BY <2>1, OutstandingHasRow DEF CheckOf
  <2>2. CASE row[c] # None
    BY <2>2, OutstandingNext DEF CheckOf
  <2> QED BY <2>1, <2>2
<1>5. CheckOf' = [c \in Codes |-> IF c \in lost THEN "settled" ELSE CheckOf[c]]
  BY <1>4 DEF CheckOf
<1>6. Directory!Forfeit(lost)
  BY <1>1, <1>2, <1>3, <1>5 DEF Directory!Forfeit
<1>7. lost \in SUBSET Codes
  OBVIOUS
<1> HIDE DEF lost
<1> QED BY <1>6, <1>7 DEF Directory!Next

LEMMA PublishStep ==
  ASSUME TypeOK, RowsStay, Placed, [Next]_vars, NEW k \in Creators, InsertRow(k),
         row' # row
  PROVE  Directory!Next
<1> USE DEF TypeOK
<1>1. PICK c \in Codes : c = creators[k].code
  BY CreatorFields DEF InsertRow
<1>2. creators[k].user \in Users /\ creators[k].url \in Urls
  BY CreatorFields DEF InsertRow
<1>3. row[c] = None /\ row' = [row EXCEPT ![c] = NewLink(creators[k].user, creators[k].url)]
  BY <1>1 DEF InsertRow, CodeIsFree
<1>4. row'[c] = NewLink(creators[k].user, creators[k].url)
      /\ \A e \in Codes : e # c => row'[e] = row[e]
  BY <1>3
<1>5. row'[c] # None /\ row'[c].owner = creators[k].user
      /\ row'[c].url = creators[k].url /\ row'[c].active
  <2>1. NewLink(creators[k].user, creators[k].url) \in Link
    BY <1>2 DEF NewLink, Link, Statuses
  <2>2. row'[c] # None
    BY <1>4, <2>1, NoneIsNoLink
  <2>3. NewLink(creators[k].user, creators[k].url).owner = creators[k].user
        /\ NewLink(creators[k].user, creators[k].url).url = creators[k].url
        /\ NewLink(creators[k].user, creators[k].url).active
    BY DEF NewLink
  <2> QED BY <1>4, <2>2, <2>3
<1>6. TargetOf[c] = None
      /\ TargetOf' = [TargetOf EXCEPT ![c] = <<creators[k].user, creators[k].url>>]
  BY <1>3, <1>4, <1>5 DEF TargetOf
<1>7. LiveOf' = [LiveOf EXCEPT ![c] = TRUE]
  BY <1>4, <1>5 DEF LiveOf, IsActive
<1>8. \A e \in Codes : e # c => (Outstanding(e)' <=> Outstanding(e))
  <2> SUFFICES ASSUME NEW e \in Codes, e # c
               PROVE  Outstanding(e)' <=> Outstanding(e)
    OBVIOUS
  <2>1. UNCHANGED <<workers, msg>> /\ creators[k].pc = "insert"
        /\ \A j \in Creators : j # k => creators'[j] = creators[j]
    BY DEF InsertRow, Retry
  <2>2. creators'[k].pc = "queue" => creators'[k].code = c
    <3>1. CASE Retry(k)
      BY <3>1, CreatorMoved DEF Retry, IdleCreator
    <3>2. CASE creators' = [creators EXCEPT ![k].pc = "queue"]
      <4>1. creators'[k] = [creators[k] EXCEPT !.pc = "queue"]
        BY <3>2
      <4> QED BY <1>1, <4>1, CreatorMoved
    <3> QED BY <3>1, <3>2 DEF InsertRow
  <2>3. AboutToQueue(e)' = AboutToQueue(e)
    BY <2>1, <2>2 DEF AboutToQueue
  <2>4. Holding(e)' = Holding(e)
    BY <2>1, HoldingSame
  <2> QED BY <2>1, <2>3, <2>4 DEF Outstanding
<1>9. PICK s \in {"due", "settled"} : s = IF Outstanding(c)' THEN "due" ELSE "settled"
  OBVIOUS
<1>10. CheckOf' = [CheckOf EXCEPT ![c] = s]
  BY <1>4, <1>5, <1>8, <1>9 DEF CheckOf
<1>11. Directory!Publish(c, <<creators[k].user, creators[k].url>>)
  BY <1>6, <1>7, <1>10 DEF Directory!Publish
<1>12. <<creators[k].user, creators[k].url>> \in Users \X Urls
  BY <1>2
<1> QED BY <1>11, <1>12 DEF Directory!Next

LEMMA JudgeStep ==
  ASSUME TypeOK, RowsStay, Placed, PlainCodes, [Next]_vars, NEW w \in Workers,
         PersistVerdict(w)
  PROVE  Directory!Next
<1> USE DEF TypeOK
<1>1. PICK c \in Codes : c = workers[w].code
  BY PersistSettles
<1>2. /\ Outstanding(c) /\ row[c] # None /\ row[c] \in Link
      /\ \A e \in Codes : Outstanding(e)' <=> Outstanding(e) /\ e # c
  BY <1>1, PersistSettles
<1>3. workers[w].verdict \in {"safe", "unsafe", "skipped"}
  BY WorkerFields DEF PersistVerdict
<1>4. row' = row \/ row' = [row EXCEPT ![c] = Judged(row[c], workers[w].verdict)]
  BY <1>1, <1>2 DEF PersistVerdict, Named, PlainCodes
<1>5. CASE row' = row
  <2>1. \A e \in Codes : IsActive(e)' = IsActive(e)
    BY <1>5 DEF IsActive
  <2> QED BY <1>5, <2>1, ForfeitStep
<1>6. CASE row' = [row EXCEPT ![c] = Judged(row[c], workers[w].verdict)]
  <2>1. /\ row'[c] = Judged(row[c], workers[w].verdict) /\ row'[c] \in Link
        /\ row'[c].owner = row[c].owner /\ row'[c].url = row[c].url
        /\ \A e \in Codes : e # c => row'[e] = row[e]
    BY <1>2, <1>3, <1>6, JudgedType
  <2>2. row'[c] # None
    BY <2>1, NoneIsNoLink
  <2>3. CASE workers[w].verdict = "skipped"
    <3>1. row'[c].active = row[c].active
      BY <1>2, <1>3, <2>1, <2>3, JudgedType
    <3>2. \A e \in Codes : IsActive(e)' = IsActive(e)
      BY <1>2, <2>1, <2>2, <3>1 DEF IsActive
    <3> QED BY <1>2, <2>1, <2>2, <3>2, ForfeitStep
  <2>4. CASE workers[w].verdict # "skipped"
    <3>1. PICK safe \in BOOLEAN : safe = (workers[w].verdict = "safe")
      OBVIOUS
    <3>2. row'[c].active = safe
      BY <1>2, <1>3, <2>1, <2>4, <3>1, JudgedType
    <3>3. LiveOf' = [LiveOf EXCEPT ![c] = safe]
      BY <2>1, <2>2, <3>2 DEF LiveOf, IsActive
    <3>4. TargetOf' = TargetOf
      BY <1>2, <2>1, <2>2 DEF TargetOf
    <3>5. CheckOf[c] = "due" /\ CheckOf' = [CheckOf EXCEPT ![c] = "settled"]
      BY <1>2, <2>1, <2>2 DEF CheckOf
    <3>6. Directory!Judge(c, safe)
      BY <3>3, <3>4, <3>5 DEF Directory!Judge
    <3> QED BY <3>6 DEF Directory!Next
  <2> QED BY <2>3, <2>4
<1> QED BY <1>4, <1>5, <1>6

LEMMA TakeDownStep ==
  ASSUME TypeOK, RowsStay, Placed, DeletesAreHarmless, [Next]_vars,
         NEW d \in Deleters, UpdateRow(d) \/ FailDelete(d)
  PROVE  Directory!Next
<1> USE DEF TypeOK
<1>1. PICK c \in Codes : c = deleters[d].code
  BY DeleterFields DEF UpdateRow, FailDelete
<1>2. /\ row[c] # None /\ row[c] \in Link /\ deleters[d].snap \in Link
      /\ ~deleters[d].snap.active
  BY <1>1, DeleterFields DEF UpdateRow, FailDelete, RowsStay, DeletesAreHarmless
<1>3. \/ row' = row
      \/ row' = [row EXCEPT ![c] = Merge(row[c], deleters[d].snap, deleters[d].diff)]
  BY <1>1 DEF UpdateRow, FailDelete
<1>4. \A e \in Codes : Outstanding(e)' <=> Outstanding(e)
  BY DEF UpdateRow, FailDelete, Outstanding, AboutToQueue, Holding
<1>5. CASE row' = row
  <2>1. \A e \in Codes : IsActive(e)' = IsActive(e)
    BY <1>5 DEF IsActive
  <2> QED BY <1>5, <2>1, ForfeitStep
<1>6. CASE row' = [row EXCEPT ![c] = Merge(row[c], deleters[d].snap, deleters[d].diff)]
  <2>1. /\ row'[c] = Merge(row[c], deleters[d].snap, deleters[d].diff)
        /\ row'[c] \in Link
        /\ row'[c].owner = row[c].owner /\ row'[c].url = row[c].url
        /\ \A e \in Codes : e # c => row'[e] = row[e]
    BY <1>2, <1>6, MergeType
  <2>2. row'[c] # None
    BY <2>1, NoneIsNoLink
  <2>3. CASE row'[c].active = row[c].active
    <3>1. \A e \in Codes : IsActive(e)' = IsActive(e)
      BY <1>2, <2>1, <2>2, <2>3 DEF IsActive
    <3> QED BY <1>2, <2>1, <2>2, <3>1, ForfeitStep
  <2>4. CASE row'[c].active # row[c].active
    <3>1. row[c].active = TRUE /\ row'[c].active = FALSE
      BY <1>2, <2>1, <2>4, MergeType DEF Link
    <3>2. LiveOf[c] /\ LiveOf' = [LiveOf EXCEPT ![c] = FALSE]
      BY <1>2, <2>1, <3>1 DEF LiveOf, IsActive
    <3>3. TargetOf' = TargetOf
      BY <1>2, <2>1, <2>2 DEF TargetOf
    <3>4. CheckOf' = CheckOf
      BY <1>2, <1>4, <2>1, <2>2 DEF CheckOf
    <3>5. Directory!TakeDown(c)
      BY <3>2, <3>3, <3>4 DEF Directory!TakeDown
    <3> QED BY <3>5 DEF Directory!Next
  <2> QED BY <2>3, <2>4
<1> QED BY <1>3, <1>5, <1>6

LEMMA DirectoryStep ==
  ASSUME PlainCodes, Inductive, [Next]_vars
  PROVE  Directory!Next
<1>0. TypeOK /\ RowsStay /\ Placed /\ DeletesAreHarmless
  BY DEF Inductive, Harmless
<1>1. CASE row' = row
  <2>1. \A e \in Codes : IsActive(e)' = IsActive(e)
    BY <1>1 DEF IsActive
  <2> QED BY <1>0, <1>1, <2>1, ForfeitStep
<1>2. CASE row' # row
  <2>1. \/ \E k \in Creators : InsertRow(k)
        \/ \E d \in Deleters : UpdateRow(d) \/ FailDelete(d)
        \/ \E w \in Workers : PersistVerdict(w)
    <3>1. ~(Redirecting \/ Environment \/ UNCHANGED vars)
      BY <1>2 DEF Redirecting, Environment, ReadCache, QueryRow, FillCache,
                  CrashReader, LoseStream, ExpireCache, vars
    <3>2. Creating => \E k \in Creators : InsertRow(k)
      BY <1>2 DEF Creating, Deduplicate, GenerateCode, QueueCheck, CrashCreator
    <3>3. Deleting => \E d \in Deleters : UpdateRow(d) \/ FailDelete(d)
      BY <1>2 DEF Deleting, LoadForDelete, CompareRow, InvalidateDeleted, CrashDeleter
    <3>4. Checking => \E w \in Workers : PersistVerdict(w)
      BY <1>2 DEF Checking, ReadStream, CheckUrl, InvalidateJudged, AckMessage,
                  CrashWorker, StartWorker
    <3> QED BY <3>1, <3>2, <3>3, <3>4 DEF Next
  <2> QED BY <1>0, <1>2, <2>1, PublishStep, TakeDownStep, JudgeStep
<1> QED BY <1>1, <1>2

LEMMA DirectoryInit == Init => Directory!Init
BY DEF Init, Directory!Init, TargetOf, LiveOf, CheckOf, IsActive

\* The rows implement the directory: whatever creates, deletes, workers, crashes
\* and losses do, a code is published once, its check is settled at most once,
\* and a settled link that is down stays down, if every code comes back from the
\* stream as it was.
THEOREM DirectoryImplemented == PlainCodes => (Spec => ImplementsDirectory)
<1> SUFFICES ASSUME PlainCodes PROVE Spec => ImplementsDirectory
    OBVIOUS
<1>1. Inductive /\ [Next]_vars => [Directory!Next]_<<TargetOf, LiveOf, CheckOf>>
  BY DirectoryStep
<1>2. [Directory!Next]_<<TargetOf, LiveOf, CheckOf>>
        <=> [Directory!Next]_(Directory!dirVars)
  BY DEF Directory!dirVars
<1> QED BY InductiveHolds, DirectoryInit, <1>1, <1>2, PTL
        DEF Spec, ImplementsDirectory, Directory!Spec

-----------------------------------------------------------------------------
(* Gone for good.                                                          *)

\* The link of code c is down, its check is settled, no copy of it is cached and
\* none is on its way to the cache.
Gone(c) ==
  /\ row[c] # None /\ ~IsActive(c) /\ ~Outstanding(c)
  /\ cache[c] = None
  /\ \A r \in Readers : ~(readers[r].pc = "fill" /\ readers[r].code = c)

LEMMA GoneNext ==
  ASSUME PlainCodes, Inductive, [Next]_vars, NEW c \in Codes, Gone(c)
  PROVE  Gone(c)'
<1>0. TypeOK /\ RowsStay /\ Placed /\ DeletesAreHarmless
  BY DEF Inductive, Harmless
<1>1. ~Outstanding(c)'
  BY <1>0, OutstandingNext DEF Gone
<1>2. row[c] # None /\ row[c] \in Link /\ ~row[c].active
  BY <1>0 DEF Gone, IsActive, TypeOK
<1>3. row'[c] # None /\ ~row'[c].active
  <2>1. ASSUME NEW d \in Deleters, Erased(c, d) PROVE row'[c] # None /\ ~row'[c].active
    <3>1. deleters[d].snap \in Link /\ ~deleters[d].snap.active
      BY <1>0, <2>1, DeleterFields DEF Erased, DeletesAreHarmless, TypeOK
    <3>2. row'[c] \in Link /\ ~row'[c].active
      BY <1>2, <2>1, <3>1, MergeType DEF Erased
    <3> QED
      BY <3>2, NoneIsNoLink
  <2>2. ASSUME NEW w \in Workers, Settled(c, w) PROVE FALSE
    <3>1. Outstanding(c)
      BY <1>0, <2>2, PersistSettles DEF Settled
    <3> QED
      BY <3>1 DEF Gone
  <2> QED
    BY <1>0, <1>2, <2>1, <2>2, RowSteps DEF Created
<1>4. cache'[c] = None
  BY <1>0, CacheSteps DEF Gone
<1>5. ASSUME NEW r \in Readers PROVE ~(readers'[r].pc = "fill" /\ readers'[r].code = c)
  BY <1>0, ReaderSteps DEF Gone
<1> QED
  BY <1>1, <1>3, <1>4, <1>5 DEF Gone, IsActive

\* Such a link stays a 404 for ever: no redelivered message, no late verdict, no
\* delete that writes an old copy of the row back and no reader puts it into the
\* cache or makes it active again, if every code comes back from the stream as it
\* was.  So what InactiveIsForgotten ends in is final once the check is settled.
THEOREM GoneStaysGone ==
  ASSUME NEW c \in Codes
  PROVE  PlainCodes => (Spec => [](Gone(c) => []Gone(c)))
<1> SUFFICES ASSUME PlainCodes PROVE Spec => [](Gone(c) => []Gone(c))
    OBVIOUS
<1>1. Inductive /\ Gone(c) /\ [Next]_vars => Gone(c)'
  BY GoneNext
<1> QED BY InductiveHolds, <1>1, PTL DEF Spec

=============================================================================

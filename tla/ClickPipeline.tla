--------------------------- MODULE ClickPipeline ---------------------------
(***************************************************************************)
(* From a redirect to the analytics tables: AnalyticsService.trackClick    *)
(* appends to the stream clicks:events, AnalyticsWorker reads batches of   *)
(* it, inserts one row per click, adds to urls.click_count once per short  *)
(* code and acknowledges the batch.  These are separate commands: what a   *)
(* failure or a crash leaves undone is never taken up again, because the   *)
(* workers read never-delivered entries only.  UrlService.deleteUrl is     *)
(* here for one column: its save() may write an old click_count back.      *)
(*                                                                         *)
(* An entry's position in the stream is its id.  Links exist before they   *)
(* are clicked and are never removed, so the rows of urls are click_count. *)
(*                                                                         *)
(* A definition whose comment begins with "Mistake" is no part of the      *)
(* model: it is a plausible bug that the properties are tried against.     *)
(***************************************************************************)
EXTENDS Naturals, Sequences, FiniteSets

CONSTANTS
  Codes,        \* short codes of the links that are clicked
  NumericCodes, \* those that JSON.parse reads as a number
  Workers,      \* analytics workers
  Deleters,     \* delete requests in flight at a time
  MaxClicks,    \* bound: clicks tracked in a behaviour
  BatchSize,    \* COUNT of XREADGROUP
  StreamMaxLen, \* AnalyticsService.streamMaxLength
  Faults,       \* which failures the environment may inject
  None          \* no code

\* "misfit": a click with a value longer than its column (the country is the
\* header as it came, the column has two characters).
AllFaults == {"db", "redis", "crash", "streamLoss", "misfit"}

ASSUME CodesAssumption == NumericCodes \subseteq Codes /\ None \notin Codes
ASSUME FaultAssumption == Faults \subseteq AllFaults
ASSUME BoundAssumption == /\ MaxClicks \in Nat
                          /\ BatchSize \in Nat \ {0}
                          /\ StreamMaxLen \in Nat \ {0}

VARIABLES
  stream,   \* clicks:events: every entry ever appended, in order
  first,    \* id of the oldest entry the stream still holds
  group,    \* whether the consumer group clicks-workers exists
  last,     \* the group's last delivered id
  acked,    \* ids a worker acknowledged
  rows,     \* id -> number of rows of clicks made from that entry
  count,    \* urls.click_count: code -> number
  workers, deleters,
  drifted   \* history: a count of this code was lost or overwritten

vars == <<stream, first, group, last, acked, rows, count, workers, deleters,
          drifted>>

-----------------------------------------------------------------------------
Ids == 1..MaxClicks
Click == [code : Codes, fits : BOOLEAN]

Worker == [pc : {"idle", "insert", "count", "ack", "down"},
           batch : SUBSET Nat, due : SUBSET Codes]
IdleWorker == [pc |-> "idle", batch |-> {}, due |-> {}]
IdleDeleter == [pc |-> "idle", code |-> None, snap |-> 0]

Init ==
  /\ stream = <<>> /\ first = 1
  /\ group = TRUE /\ last = 0
  /\ acked = {}
  /\ rows = [i \in Ids |-> 0]
  /\ count = [c \in Codes |-> 0]
  /\ workers = [w \in Workers |-> IdleWorker]
  /\ deleters = [d \in Deleters |-> IdleDeleter]
  /\ drifted = [c \in Codes |-> FALSE]

-----------------------------------------------------------------------------
(* The producer and the stream.                                            *)

\* What extractClickData makes of a request, as far as it matters here.
Extracted(c) ==
  {[code |-> c, fits |-> f] : f \in {TRUE, "misfit" \notin Faults}}

\* XADD clicks:events MAXLEN ~.  The redirect does not wait for it, and a
\* failed one is logged and forgotten.
TrackClick(c) ==
  /\ Len(stream) < MaxClicks
  /\ \E click \in Extracted(c) : stream' = Append(stream, click)
  /\ \E oldest \in first..Len(stream') :
       /\ oldest = first \/ Len(stream') + 1 - oldest >= StreamMaxLen
       /\ first' = oldest
  /\ UNCHANGED <<group, last, acked, rows, count, workers, deleters, drifted>>

\* Redis restarts empty, or evicts the stream with its group.
LoseStream ==
  /\ "streamLoss" \in Faults
  /\ first' = Len(stream) + 1
  /\ group' = FALSE
  /\ UNCHANGED <<stream, last, acked, rows, count, workers, deleters, drifted>>

-----------------------------------------------------------------------------
(* The worker.                                                             *)

\* Mistake: a worker reads from '0', so entries it was given come again.
OldestEntry == first

\* Mistake: a group that begins with the newest entry.
NewestEntry == IF last < Len(stream) THEN Len(stream) ELSE last + 1

\* The oldest entry of the stream that was never delivered to anyone.
NextUnread == IF last < first THEN first ELSE last + 1

\* resolveShortCode: only a string is a short code.
HasCode(i) == stream[i].code \notin NumericCodes
Kept(batch) == {i \in batch : HasCode(i)}
CodesOf(batch) == {stream[i].code : i \in batch}

\* Mistakes: the count of a code set instead of added to, or of all codes.
OneOfCode(batch, c) == {CHOOSE i \in batch : stream[i].code = c}
OfAnyCode(batch, c) == batch

OfCode(batch, c) == {i \in batch : stream[i].code = c}

\* XREADGROUP '>' COUNT.  When nothing of the batch has a code, there is no
\* INSERT to do.
ReadBatch(w) ==
  LET end == NextUnread + BatchSize - 1
      batch == NextUnread..last'
  IN
  /\ workers[w].pc = "idle"
  /\ group /\ NextUnread <= Len(stream)
  /\ last' = IF end < Len(stream) THEN end ELSE Len(stream)
  /\ \/ workers' = [workers EXCEPT ![w] =
          [pc |-> IF Kept(batch) = {} THEN "ack" ELSE "insert",
           batch |-> batch, due |-> {}]]
     \/ "redis" \in Faults /\ workers' = workers         \* the reply is lost
  /\ UNCHANGED <<stream, first, group, acked, rows, count, deleters, drifted>>

Drift(codes) == drifted' = [c \in Codes |-> drifted[c] \/ c \in codes]

\* Mistake: the batch is acknowledged in a finally block.
AckAnyway(w) == workers' = [workers EXCEPT ![w].pc = "ack", ![w].due = {}]

\* An exception leaves processBatch; the loop logs it and reads on.
Abandon(w) == workers' = [workers EXCEPT ![w] = IdleWorker]

\* One INSERT for all the clicks of the batch: a value that does not fit its
\* column fails them all.
InsertClicks(w) ==
  LET kept == Kept(workers[w].batch)
      insert == /\ \A i \in kept : stream[i].fits
                /\ rows' = [i \in Ids |-> rows[i] + IF i \in kept THEN 1 ELSE 0]
  IN
  /\ workers[w].pc = "insert"
  /\ \/ /\ insert
        /\ workers' = [workers EXCEPT ![w] =
             [pc |-> "count", batch |-> workers[w].batch, due |-> CodesOf(kept)]]
        /\ drifted' = drifted
     \/ /\ ("db" \in Faults \/ \E i \in kept : ~stream[i].fits)
        /\ UNCHANGED <<rows, drifted>>
        /\ Abandon(w)
     \/ /\ "db" \in Faults                               \* the reply is lost
        /\ insert
        /\ Drift(CodesOf(kept))
        /\ Abandon(w)
  /\ UNCHANGED <<stream, first, group, last, acked, count, deleters>>

\* UPDATE urls SET click_count = click_count + n, one code after the other.
CountCode(w, c) ==
  LET n == Cardinality(OfCode(workers[w].batch, c))
      due == workers[w].due \ {c}
      add == count' = [count EXCEPT ![c] = @ + n]
  IN
  /\ workers[w].pc = "count" /\ c \in workers[w].due
  /\ \/ /\ add
        /\ workers' = [workers EXCEPT ![w] =
             [pc |-> IF due = {} THEN "ack" ELSE "count",
              batch |-> workers[w].batch, due |-> due]]
        /\ drifted' = drifted
     \/ /\ "db" \in Faults
        /\ \/ count' = count /\ Drift(workers[w].due)
           \/ add /\ Drift(due)                          \* the reply is lost
        /\ Abandon(w)
  /\ UNCHANGED <<stream, first, group, last, acked, rows, deleters>>

\* One XACK for the whole batch.  When it fails the batch stays pending.
AckBatch(w) ==
  /\ workers[w].pc = "ack"
  /\ \/ acked' = acked \union workers[w].batch
     \/ "redis" \in Faults /\ acked' = acked
  /\ workers' = [workers EXCEPT ![w] = IdleWorker]
  /\ UNCHANGED <<stream, first, group, last, rows, count, deleters, drifted>>

CrashWorker(w) ==
  /\ "crash" \in Faults
  /\ workers[w].pc # "down"
  /\ Drift(workers[w].due)
  /\ workers' = [workers EXCEPT ![w] = [pc |-> "down", batch |-> {}, due |-> {}]]
  /\ UNCHANGED <<stream, first, group, last, acked, rows, count, deleters>>

\* Mistake: the new group skips the oldest entry.
StartAfterFirst(w) ==
  /\ workers[w].pc = "down"
  /\ workers' = [workers EXCEPT ![w] = IdleWorker]
  /\ group' = TRUE
  /\ last' = IF group THEN last ELSE first
  /\ UNCHANGED <<stream, first, acked, rows, count, deleters, drifted>>

\* A process starts: XGROUP CREATE '0' makes a missing group that reads
\* whatever the stream holds, and changes nothing of an existing one.
StartWorker(w) ==
  /\ workers[w].pc = "down"
  /\ workers' = [workers EXCEPT ![w] = IdleWorker]
  /\ group' = TRUE
  /\ last' = IF group THEN last ELSE first - 1
  /\ UNCHANGED <<stream, first, acked, rows, count, deleters, drifted>>

-----------------------------------------------------------------------------
(* deleteUrl, as far as click_count goes: LinkLifecycle has the rest.       *)

LoadForDelete(d, c) ==
  /\ deleters[d].pc = "idle"
  /\ deleters' = [deleters EXCEPT ![d] =
       [pc |-> "compare", code |-> c, snap |-> count[c]]]
  /\ UNCHANGED <<stream, first, group, last, acked, rows, count, workers, drifted>>

\* save() reads the row again and updates the columns that differ from the
\* entity: click_count too, when a click was counted in between.
CompareRow(d) ==
  /\ deleters[d].pc = "compare"
  /\ deleters' = [deleters EXCEPT ![d] =
       IF count[deleters[d].code] = deleters[d].snap THEN IdleDeleter
       ELSE [deleters[d] EXCEPT !.pc = "update"]]
  /\ UNCHANGED <<stream, first, group, last, acked, rows, count, workers, drifted>>

UpdateRow(d) ==
  LET c == deleters[d].code IN
  /\ deleters[d].pc = "update"
  /\ count' = [count EXCEPT ![c] = deleters[d].snap]
  /\ Drift({c})
  /\ deleters' = [deleters EXCEPT ![d] = IdleDeleter]
  /\ UNCHANGED <<stream, first, group, last, acked, rows, workers>>

\* save() fails, or the process ends.
StopDelete(d) ==
  /\ Faults \intersect {"db", "crash"} # {}
  /\ deleters[d].pc # "idle"
  /\ deleters' = [deleters EXCEPT ![d] = IdleDeleter]
  /\ UNCHANGED <<stream, first, group, last, acked, rows, count, workers, drifted>>

-----------------------------------------------------------------------------
Consume(w) == \/ InsertClicks(w) \/ AckBatch(w)
              \/ \E c \in Codes : CountCode(w, c)

Next ==
  \/ \E c \in Codes : TrackClick(c)
  \/ \E w \in Workers : \/ ReadBatch(w) \/ Consume(w)
                        \/ CrashWorker(w) \/ StartWorker(w)
  \/ \E d \in Deleters : \/ \E c \in Codes : LoadForDelete(d, c)
                         \/ CompareRow(d) \/ UpdateRow(d) \/ StopDelete(d)
  \/ LoseStream

Spec == Init /\ [][Next]_vars

\* The loop of a worker never ends, and Node runs a resolved await.
Fairness == \A w \in Workers : WF_vars(ReadBatch(w)) /\ WF_vars(Consume(w))
FairSpec == Spec /\ Fairness

-----------------------------------------------------------------------------
TypeOK ==
  /\ stream \in Seq(Click) /\ Len(stream) <= MaxClicks
  /\ first \in 1..(Len(stream) + 1)
  /\ group \in BOOLEAN
  /\ last \in 0..Len(stream)
  /\ acked \subseteq 1..Len(stream)
  /\ rows \in [Ids -> Nat]
  /\ count \in [Codes -> Nat]
  /\ workers \in [Workers -> Worker]
  /\ \A w \in Workers : workers[w].batch \subseteq 1..Len(stream)
  /\ deleters \in [Deleters -> [pc : {"idle", "compare", "update"},
                                code : Codes \union {None}, snap : Nat]]
  /\ drifted \in [Codes -> BOOLEAN]

\* A click makes at most one row, however workers fail, crash, start and race
\* for the stream, and however often the stream and its group are made anew.
StoredOnce == \A i \in Ids : rows[i] <= 1

\* An acknowledged click is stored: only codes that look like numbers, which
\* resolveShortCode takes for a missing code, are acknowledged unseen.
AckedIsStored == \A i \in acked : HasCode(i) => rows[i] > 0

\* An entry is in the hands of one worker at most, and only entries that were
\* delivered are, or have rows; a new group begins after all of them.
ReadOnce ==
  /\ \A w \in Workers : workers[w].batch \subseteq 1..last
  /\ \A i \in Ids : rows[i] > 0 => i <= last
  /\ \A v, w \in Workers :
       v # w => workers[v].batch \intersect workers[w].batch = {}
  /\ group \/ last < first

\* What a worker has done to its batch, by where it is.
StagesAgree ==
  \A w \in Workers :
    /\ workers[w].pc \in {"idle", "down"} => workers[w].batch = {}
    /\ workers[w].pc = "insert" => \A i \in workers[w].batch : rows[i] = 0
    /\ workers[w].pc \in {"count", "ack"} => \A i \in Kept(workers[w].batch) : rows[i] > 0
    /\ workers[w].due # {} => workers[w].pc = "count"
    /\ workers[w].due \subseteq CodesOf(Kept(workers[w].batch))

StoredOf(c) == {i \in 1..Len(stream) : rows[i] > 0 /\ stream[i].code = c}
UncountedOf(c) ==
  UNION {OfCode(workers[w].batch, c) : w \in {v \in Workers : c \in workers[v].due}}

\* The counter of a link never runs ahead of its clicks, not even when a delete
\* writes an old value back.
CountNeverAhead ==
  \A c \in Codes :
    count[c] + Cardinality(UncountedOf(c)) <= Cardinality(StoredOf(c))

\* The counter and the rows agree, up to what workers are about to add, unless
\* a failure fell between the INSERT and the UPDATE or a delete wrote it back.
CountIsExact ==
  \A c \in Codes : ~drifted[c] =>
    count[c] + Cardinality(UncountedOf(c)) = Cardinality(StoredOf(c))

\* A counter that a delete may write back is behind too.
CopiesBehind ==
  \A d \in Deleters : deleters[d].pc # "idle" =>
    LET c == deleters[d].code IN
    /\ c \in Codes
    /\ deleters[d].snap + Cardinality(UncountedOf(c)) <= Cardinality(StoredOf(c))

\* The inductive invariant (ClickPipelineProofs).
IInv ==
  /\ TypeOK /\ ReadOnce /\ StagesAgree
  /\ StoredOnce /\ AckedIsStored
  /\ CountNeverAhead /\ CountIsExact /\ CopiesBehind

-----------------------------------------------------------------------------
(* What becomes of a click, and of the counter of its link.                 *)

InHand(i) == \E w \in Workers : workers[w].pc = "insert" /\ i \in Kept(workers[w].batch)
ToBeCounted(i) ==
  \E w \in Workers : i \in workers[w].batch /\ stream[i].code \in workers[w].due

CodeAt(i) == IF i <= Len(stream) THEN stream[i].code ELSE None
FateAt(i) ==
  CASE i > Len(stream)                 -> "new"
    [] i \in NextUnread..Len(stream)   -> "waiting"
    [] i < NextUnread /\ rows[i] > 0   -> IF ToBeCounted(i) THEN "stored" ELSE "settled"
    [] i < NextUnread /\ rows[i] = 0   -> IF InHand(i) THEN "held" ELSE "lost"

Ledger == INSTANCE ClickLedger WITH
  Clicks <- Ids, Unreadable <- NumericCodes,
  code <- [i \in Ids |-> CodeAt(i)], fate <- [i \in Ids |-> FateAt(i)]

\* Whatever fails, races, starts again and is written back, a click is taken up in
\* its turn, stored at most once and counted at most once after that, and what
\* became of it is final; a counter moves by clicks that it counts for the first
\* time, or back to a value that its settled clicks cover.
ImplementsLedger == Ledger!Spec

-----------------------------------------------------------------------------
TrackedOf(c) == {i \in 1..Len(stream) : stream[i].code = c}

\* Without failures and full streams, every redirect shows in the counter of
\* its link after a while.
TrackedIsCounted ==
  \A c \in Codes \ NumericCodes : \A n \in 1..MaxClicks :
    Cardinality(TrackedOf(c)) >= n ~> count[c] >= n

=============================================================================

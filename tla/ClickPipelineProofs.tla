------------------------ MODULE ClickPipelineProofs ------------------------
(***************************************************************************)
(* What holds of the click pipeline for any number of codes, workers,      *)
(* deletes and clicks, any batch size and stream length, and any failures. *)
(***************************************************************************)
EXTENDS ClickPipeline, FiniteSetTheorems, TLAPS

(***************************************************************************)
(* Types.                                                                  *)
(***************************************************************************)

LEMMA InitType == Init => TypeOK
BY CodesAssumption, BoundAssumption
   DEF Init, TypeOK, Click, Worker, IdleWorker, IdleDeleter, Ids

\* Setting one worker to a well-formed record leaves the others alone.
LEMMA WorkerSet ==
  ASSUME workers \in [Workers -> Worker], NEW w \in Workers, NEW r \in Worker,
         workers' = [workers EXCEPT ![w] = r]
  PROVE  /\ workers' \in [Workers -> Worker]
         /\ workers'[w] = r
         /\ \A v \in Workers : v # w => workers'[v] = workers[v]
OBVIOUS

LEMMA IdleIsWorker == IdleWorker \in Worker
BY DEF IdleWorker, Worker

LEMMA EntryIsClick ==
  ASSUME TypeOK
  PROVE  \A i \in 1..Len(stream) : stream[i] \in Click /\ stream[i].code \in Codes
<1>1. \A i \in 1..Len(stream) : stream[i] \in Click
  BY DEF TypeOK
<1> QED BY <1>1 DEF Click

LEMMA DriftType ==
  ASSUME NEW S, Drift(S)
  PROVE  drifted' \in [Codes -> BOOLEAN]
BY DEF Drift

LEMMA TrackType ==
  ASSUME TypeOK, NEW c \in Codes, TrackClick(c)
  PROVE  TypeOK'
<1> USE DEF TypeOK
<1>1. PICK click \in Click : stream' = Append(stream, click)
  BY DEF TrackClick, Extracted, Click
<1>2. stream' \in Seq(Click) /\ Len(stream') = Len(stream) + 1
  BY <1>1
<1>3. first' \in 1..(Len(stream') + 1)
  BY <1>2 DEF TrackClick
<1>4. last' \in 0..Len(stream') /\ acked' \subseteq 1..Len(stream')
  BY <1>2 DEF TrackClick
<1>5. Len(stream') <= MaxClicks
  BY <1>2, BoundAssumption DEF TrackClick
<1> QED BY <1>2, <1>3, <1>4, <1>5 DEF TrackClick

LEMMA ReadType ==
  ASSUME TypeOK, NEW w \in Workers, ReadBatch(w)
  PROVE  /\ last' \in NextUnread..Len(stream)
         /\ TypeOK'
<1> USE DEF TypeOK
<1> DEFINE batch == NextUnread..last'
<1>1. NextUnread \in 1..Len(stream) /\ BatchSize \in Nat \ {0}
  BY BoundAssumption DEF ReadBatch, NextUnread
<1>2. last' \in NextUnread..Len(stream)
  BY <1>1 DEF ReadBatch
<1>3. batch \subseteq 1..Len(stream)
  BY <1>1, <1>2
<1>4. CASE workers' = workers
  BY <1>1, <1>2, <1>4 DEF ReadBatch
<1>5. CASE workers' # workers
  <2> DEFINE r == [pc |-> IF Kept(batch) = {} THEN "ack" ELSE "insert",
                   batch |-> batch, due |-> {}]
  <2>1. r \in Worker /\ r.batch = batch
    BY <1>3 DEF Worker
  <2>2. workers' = [workers EXCEPT ![w] = r]
    BY <1>5 DEF ReadBatch
  <2> HIDE DEF r
  <2>3. workers' \in [Workers -> Worker] /\ workers'[w] = r
        /\ \A v \in Workers : v # w => workers'[v] = workers[v]
    BY <2>1, <2>2, WorkerSet
  <2>4. \A v \in Workers : workers'[v].batch \subseteq 1..Len(stream)
    BY <1>3, <2>1, <2>3
  <2> QED BY <1>1, <1>2, <2>3, <2>4 DEF ReadBatch
<1> QED BY <1>2, <1>4, <1>5

\* Every other step of a worker leaves the stream alone and sets the worker to a
\* record with its own batch or none.
LEMMA StepOfWorker ==
  ASSUME TypeOK, NEW w \in Workers, NEW r \in Worker,
         r.batch \in {{}, workers[w].batch},
         workers' = [workers EXCEPT ![w] = r]
  PROVE  /\ workers' \in [Workers -> Worker]
         /\ \A v \in Workers : workers'[v].batch \subseteq 1..Len(stream)
BY WorkerSet DEF TypeOK

LEMMA InsertType ==
  ASSUME TypeOK, NEW w \in Workers, InsertClicks(w)
  PROVE  TypeOK'
<1> USE DEF TypeOK
<1> DEFINE kept == Kept(workers[w].batch)
           r == [pc |-> "count", batch |-> workers[w].batch, due |-> CodesOf(kept)]
<1>1. r \in Worker /\ r.batch = workers[w].batch
  <2>1. \A i \in 1..Len(stream) : stream[i].code \in Codes
    BY EntryIsClick
  <2>2. CodesOf(kept) \subseteq Codes
    BY <2>1 DEF CodesOf, Kept
  <2>3. workers[w].batch \in SUBSET Nat
    BY DEF Worker
  <2> QED BY <2>2, <2>3 DEF Worker
<1>2. IdleWorker \in Worker /\ IdleWorker.batch = {}
  BY IdleIsWorker DEF IdleWorker
<1>3. workers' = [workers EXCEPT ![w] = r] \/ workers' = [workers EXCEPT ![w] = IdleWorker]
  BY DEF InsertClicks, Abandon
<1>4. workers' \in [Workers -> Worker]
      /\ \A v \in Workers : workers'[v].batch \subseteq 1..Len(stream)
  <2> HIDE DEF r
  <2> QED BY <1>1, <1>2, <1>3, StepOfWorker
<1>5. rows' \in [Ids -> Nat]
  BY DEF InsertClicks
<1>6. drifted' \in [Codes -> BOOLEAN]
  BY DriftType DEF InsertClicks
<1> QED BY <1>4, <1>5, <1>6 DEF InsertClicks

LEMMA CountType ==
  ASSUME TypeOK, NEW w \in Workers, NEW c \in Codes, CountCode(w, c)
  PROVE  TypeOK'
<1> USE DEF TypeOK
<1> DEFINE due == workers[w].due \ {c}
           r == [pc |-> IF due = {} THEN "ack" ELSE "count",
                 batch |-> workers[w].batch, due |-> due]
<1>1. r \in Worker /\ r.batch = workers[w].batch
  BY DEF Worker
<1>2. IdleWorker \in Worker /\ IdleWorker.batch = {}
  BY IdleIsWorker DEF IdleWorker
<1>3. workers' = [workers EXCEPT ![w] = r] \/ workers' = [workers EXCEPT ![w] = IdleWorker]
  BY DEF CountCode, Abandon
<1>4. workers' \in [Workers -> Worker]
      /\ \A v \in Workers : workers'[v].batch \subseteq 1..Len(stream)
  <2> HIDE DEF r
  <2> QED BY <1>1, <1>2, <1>3, StepOfWorker
<1>5. Cardinality(OfCode(workers[w].batch, c)) \in Nat
  <2>1. OfCode(workers[w].batch, c) \subseteq 1..Len(stream)
    BY DEF OfCode
  <2>2. IsFiniteSet(1..Len(stream))
    <3>1. 1 \in Int /\ Len(stream) \in Int
      OBVIOUS
    <3> QED BY <3>1, FS_Interval
  <2> QED BY <2>1, <2>2, FS_Subset, FS_CardinalityType
<1>6. count' \in [Codes -> Nat]
  BY <1>5 DEF CountCode
<1>7. drifted' \in [Codes -> BOOLEAN]
  BY DriftType DEF CountCode
<1> QED BY <1>4, <1>6, <1>7 DEF CountCode

LEMMA OtherWorkerType ==
  ASSUME TypeOK, NEW w \in Workers, AckBatch(w) \/ CrashWorker(w) \/ StartWorker(w)
  PROVE  TypeOK'
<1> USE DEF TypeOK
<1> DEFINE down == [pc |-> "down", batch |-> {}, due |-> {}]
<1>1. IdleWorker \in Worker /\ IdleWorker.batch = {} /\ down \in Worker /\ down.batch = {}
  BY IdleIsWorker DEF IdleWorker, Worker
<1>2. workers' = [workers EXCEPT ![w] = IdleWorker] \/ workers' = [workers EXCEPT ![w] = down]
  BY DEF AckBatch, CrashWorker, StartWorker
<1>3. workers' \in [Workers -> Worker]
      /\ \A v \in Workers : workers'[v].batch \subseteq 1..Len(stream)
  <2> HIDE DEF down
  <2> QED BY <1>1, <1>2, StepOfWorker
<1>4. last' \in 0..Len(stream) /\ group' \in BOOLEAN
  <2>1. last' = last \/ last' = first - 1
    BY DEF AckBatch, CrashWorker, StartWorker
  <2>2. group' = group \/ group' = TRUE
    BY DEF AckBatch, CrashWorker, StartWorker
  <2>3. first - 1 \in 0..Len(stream)
    OBVIOUS
  <2> QED BY <2>1, <2>2, <2>3
<1>5. acked' \subseteq 1..Len(stream)
  BY DEF AckBatch, CrashWorker, StartWorker
<1>6. drifted' \in [Codes -> BOOLEAN]
  BY DriftType DEF AckBatch, CrashWorker, StartWorker
<1> QED BY <1>3, <1>4, <1>5, <1>6 DEF AckBatch, CrashWorker, StartWorker

LEMMA DeleterType ==
  ASSUME TypeOK, NEW d \in Deleters,
         \/ \E c \in Codes : LoadForDelete(d, c)
         \/ CompareRow(d) \/ UpdateRow(d) \/ StopDelete(d)
  PROVE  TypeOK'
<1> USE DEF TypeOK
<1>1. UNCHANGED <<stream, first, group, last, acked, rows, workers>>
  BY DEF LoadForDelete, CompareRow, UpdateRow, StopDelete
<1>2. deleters' \in [Deleters -> [pc : {"idle", "compare", "update"},
                                  code : Codes \union {None}, snap : Nat]]
  <2> DEFINE T == [pc : {"idle", "compare", "update"},
                   code : Codes \union {None}, snap : Nat]
  <2>1. IdleDeleter \in T
    BY DEF IdleDeleter
  <2>2. \A c \in Codes : [pc |-> "compare", code |-> c, snap |-> count[c]] \in T
    OBVIOUS
  <2>3. [deleters[d] EXCEPT !.pc = "update"] \in T
    OBVIOUS
  <2>4. \E t \in T : deleters' = [deleters EXCEPT ![d] = t]
    BY <2>1, <2>2, <2>3 DEF LoadForDelete, CompareRow, UpdateRow, StopDelete
  <2> QED BY <2>4
<1>3. count' \in [Codes -> Nat] /\ drifted' \in [Codes -> BOOLEAN]
  BY DriftType DEF LoadForDelete, CompareRow, UpdateRow, StopDelete
<1> QED BY <1>1, <1>2, <1>3

LEMMA TypeNext == TypeOK /\ [Next]_vars => TypeOK'
<1> SUFFICES ASSUME TypeOK, [Next]_vars PROVE TypeOK'
  OBVIOUS
<1>1. CASE \E c \in Codes : TrackClick(c)
  BY <1>1, TrackType
<1>2. CASE \E w \in Workers : ReadBatch(w)
  BY <1>2, ReadType
<1>3. CASE \E w \in Workers : Consume(w)
  BY <1>3, InsertType, CountType, OtherWorkerType DEF Consume
<1>4. CASE \E w \in Workers : CrashWorker(w) \/ StartWorker(w)
  BY <1>4, OtherWorkerType
<1>5. CASE \E d \in Deleters : \/ \E c \in Codes : LoadForDelete(d, c)
                               \/ CompareRow(d) \/ UpdateRow(d) \/ StopDelete(d)
  BY <1>5, DeleterType
<1>6. CASE LoseStream
  <2>1. first' \in 1..(Len(stream) + 1) /\ group' \in BOOLEAN
    <3>1. Len(stream) \in Nat
      BY DEF TypeOK
    <3>2. first' = Len(stream) + 1 /\ group' = FALSE
      BY <1>6 DEF LoseStream
    <3>3. first' \in 1..(Len(stream) + 1)
      BY <3>1, <3>2
    <3> QED BY <3>2, <3>3
  <2>2. UNCHANGED <<stream, last, acked, rows, count, workers, deleters, drifted>>
    BY <1>6 DEF LoseStream
  <2> QED BY <2>1, <2>2 DEF TypeOK
<1>7. CASE UNCHANGED vars
  BY <1>7 DEF vars, TypeOK
<1> QED BY <1>1, <1>2, <1>3, <1>4, <1>5, <1>6, <1>7 DEF Next

\* Streams, rows, counters and processes keep their shape.
THEOREM ClickTypes == Spec => []TypeOK
<1>1. TypeOK /\ [Next]_vars => TypeOK'
  BY TypeNext
<1> QED BY InitType, <1>1, PTL DEF Spec

(***************************************************************************)
(* Entries are read once, and what was done to a batch is known from where *)
(* its worker is.                                                          *)
(***************************************************************************)

Placed == TypeOK /\ ReadOnce /\ StagesAgree

LEMMA PlacedInit == Init => Placed
<1> SUFFICES ASSUME Init PROVE Placed
  OBVIOUS
<1>1. ReadOnce
  BY DEF Init, ReadOnce, IdleWorker
<1>2. StagesAgree
  BY DEF Init, StagesAgree, IdleWorker, CodesOf, Kept
<1> QED BY <1>1, <1>2, InitType DEF Placed

\* Appending to the stream does not change the entries already in it.
LEMMA TrackPlaced ==
  ASSUME Placed, NEW c \in Codes, TrackClick(c)
  PROVE  ReadOnce' /\ StagesAgree'
<1> USE DEF Placed, TypeOK
<1>1. PICK click \in Click : stream' = Append(stream, click)
  BY DEF TrackClick, Extracted, Click
<1>2. \A i \in 1..Len(stream) : stream'[i] = stream[i]
  BY <1>1
<1>3. UNCHANGED <<workers, rows, last, group>> /\ first <= first'
  BY <1>1 DEF TrackClick
<1>4. \A w \in Workers : /\ Kept(workers[w].batch)' = Kept(workers[w].batch)
                         /\ CodesOf(Kept(workers[w].batch))' = CodesOf(Kept(workers[w].batch))
  <2> SUFFICES ASSUME NEW w \in Workers
               PROVE  /\ Kept(workers[w].batch)' = Kept(workers[w].batch)
                      /\ CodesOf(Kept(workers[w].batch))' = CodesOf(Kept(workers[w].batch))
    OBVIOUS
  <2>1. workers'[w].batch = workers[w].batch
        /\ \A i \in workers[w].batch : stream'[i] = stream[i]
    BY <1>2, <1>3
  <2>2. Kept(workers[w].batch)' = Kept(workers[w].batch)
    BY <2>1 DEF Kept, HasCode
  <2>3. \A i \in Kept(workers[w].batch) : stream'[i] = stream[i]
    BY <2>1 DEF Kept
  <2>4. CodesOf(Kept(workers[w].batch))' = {stream'[i].code : i \in Kept(workers[w].batch)}
    BY <2>2 DEF CodesOf
  <2>5. CodesOf(Kept(workers[w].batch)) = {stream[i].code : i \in Kept(workers[w].batch)}
    BY DEF CodesOf
  <2>6. {stream'[i].code : i \in Kept(workers[w].batch)}
          = {stream[i].code : i \in Kept(workers[w].batch)}
    BY <2>3
  <2> QED BY <2>2, <2>4, <2>5, <2>6
<1>5. ReadOnce'
  <2>1. group' \/ last' < first'
    <3>1. last \in Int /\ first \in Int /\ first' \in Int
      BY TrackType
    <3> QED BY <1>3, <3>1 DEF ReadOnce
  <2> QED BY <1>3, <2>1 DEF ReadOnce
<1>6. StagesAgree'
  BY <1>3, <1>4 DEF StagesAgree
<1> QED BY <1>5, <1>6

LEMMA ReadPlaced ==
  ASSUME Placed, NEW w \in Workers, ReadBatch(w)
  PROVE  ReadOnce' /\ StagesAgree'
<1> USE DEF Placed
<1> DEFINE batch == NextUnread..last'
<1>1. last' \in NextUnread..Len(stream) /\ last < NextUnread
      /\ NextUnread \in 1..Len(stream)
  <2>1. last < NextUnread /\ NextUnread \in 1..Len(stream)
    BY DEF TypeOK, ReadBatch, NextUnread
  <2> QED BY <2>1, ReadType
<1>2. \A i \in batch : i > last /\ i \in 1..last'
  BY <1>1 DEF TypeOK
<1>3. UNCHANGED <<stream, first, group, rows>> /\ group
  BY DEF ReadBatch
<1>4. last \in 0..last'
  BY <1>1 DEF TypeOK
<1>5. \A v \in Workers : workers[v].batch \subseteq 1..last'
  <2> SUFFICES ASSUME NEW v \in Workers, NEW i \in workers[v].batch
               PROVE  i \in 1..last'
    OBVIOUS
  <2>1. i \in 1..last
    BY DEF ReadOnce
  <2>2. last \in Int /\ last' \in Int
    BY <1>1 DEF TypeOK
  <2> QED BY <1>4, <2>1, <2>2
<1>6. \A i \in Ids : rows'[i] > 0 => i <= last'
  <2> SUFFICES ASSUME NEW i \in Ids, rows[i] > 0 PROVE i <= last'
    BY <1>3
  <2>1. i <= last /\ i \in Int /\ last \in Int /\ last' \in Int
    BY <1>1, BoundAssumption DEF ReadOnce, Ids, TypeOK
  <2> QED BY <1>4, <2>1
<1>7. CASE workers' = workers
  <2>1. ReadOnce'
    BY <1>3, <1>5, <1>6, <1>7 DEF ReadOnce
  <2>2. StagesAgree'
    BY <1>3, <1>7 DEF StagesAgree, Kept, CodesOf, HasCode
  <2> QED BY <2>1, <2>2
<1>8. CASE workers' # workers
  <2> DEFINE r == [pc |-> IF Kept(batch) = {} THEN "ack" ELSE "insert",
                   batch |-> batch, due |-> {}]
  <2>1. r \in Worker /\ r.batch = batch /\ r.due = {}
        /\ r.pc = (IF Kept(batch) = {} THEN "ack" ELSE "insert")
    BY <1>1 DEF Worker
  <2>2. workers' = [workers EXCEPT ![w] = r]
    BY <1>8 DEF ReadBatch
  <2> HIDE DEF r
  <2>3. workers'[w] = r /\ \A v \in Workers : v # w => workers'[v] = workers[v]
    BY <2>1, <2>2, WorkerSet DEF TypeOK
  <2>4. \A v \in Workers : v # w => workers'[v].batch \intersect batch = {}
    <3> SUFFICES ASSUME NEW v \in Workers, v # w, NEW i \in workers[v].batch, i \in batch
                 PROVE  FALSE
      BY <2>3
    <3>1. i \in 1..last /\ i > last
      BY <1>2 DEF ReadOnce
    <3>2. last \in Int
      BY DEF TypeOK
    <3> QED BY <3>1, <3>2
  <2>5. ReadOnce'
    <3>1. \A v \in Workers : workers'[v].batch \subseteq 1..last'
      BY <1>2, <1>5, <2>1, <2>3
    <3>2. \A u, v \in Workers : u # v => workers'[u].batch \intersect workers'[v].batch = {}
      BY <2>1, <2>3, <2>4 DEF ReadOnce
    <3> QED BY <1>3, <1>6, <3>1, <3>2 DEF ReadOnce
  <2>6. \A i \in batch : rows'[i] = 0
    <3> SUFFICES ASSUME NEW i \in batch PROVE rows'[i] = 0
      OBVIOUS
    <3>1. i \in Ids /\ i > last
      BY <1>1, <1>2, BoundAssumption DEF TypeOK, Ids
    <3>2. rows[i] \in Nat /\ ~(rows[i] > 0)
      BY <3>1 DEF TypeOK, ReadOnce, Ids
    <3> QED BY <1>3, <3>2
  <2>7. StagesAgree'
    <3> SUFFICES ASSUME NEW v \in Workers
                 PROVE  (/\ workers[v].pc \in {"idle", "down"} => workers[v].batch = {}
                         /\ workers[v].pc = "insert" => \A i \in workers[v].batch : rows[i] = 0
                         /\ workers[v].pc \in {"count", "ack"} =>
                              \A i \in Kept(workers[v].batch) : rows[i] > 0
                         /\ workers[v].due # {} => workers[v].pc = "count"
                         /\ workers[v].due \subseteq CodesOf(Kept(workers[v].batch)))'
      BY DEF StagesAgree
    <3>1. CASE v = w
      <4>1. workers'[v].batch = batch /\ workers'[v].due = {}
            /\ workers'[v].pc = (IF Kept(batch) = {} THEN "ack" ELSE "insert")
        BY <3>1, <2>1, <2>3
      <4>2. \A i \in batch : HasCode(i)' = HasCode(i)
        BY <1>3 DEF HasCode
      <4>3. CASE Kept(batch) = {}
        <5>1. Kept(workers[v].batch)' = {}
          BY <4>1, <4>2, <4>3 DEF Kept
        <5> QED BY <4>1, <4>3, <5>1
      <4>4. CASE Kept(batch) # {}
        BY <4>1, <4>4, <2>6
      <4> QED BY <4>3, <4>4
    <3>2. CASE v # w
      BY <3>2, <2>3, <1>3 DEF StagesAgree, Kept, HasCode, CodesOf
    <3> QED BY <3>1, <3>2
  <2> QED BY <2>5, <2>7
<1> QED BY <1>7, <1>8

\* A worker that moves on within its batch, or lets it go: the entries it holds
\* are the same or none.
LEMMA MovePlaced ==
  ASSUME Placed, UNCHANGED <<stream, first, group, last>>,
         NEW w \in Workers, NEW r \in Worker,
         workers' = [workers EXCEPT ![w] = r],
         r.batch \in {{}, workers[w].batch},
         \A i \in Ids : rows'[i] = rows[i] \/ i \in workers[w].batch,
         rows' \in [Ids -> Nat],
         \A i \in Ids : rows[i] > 0 => rows'[i] > 0,
         r.pc \in {"idle", "down"} => r.batch = {},
         r.pc # "insert",
         r.pc \in {"count", "ack"} => \A i \in Kept(r.batch) : rows'[i] > 0,
         r.due # {} => r.pc = "count",
         r.due \subseteq CodesOf(Kept(r.batch))
  PROVE  ReadOnce' /\ StagesAgree'
<1> USE DEF Placed
<1>1. workers'[w] = r /\ \A v \in Workers : v # w => workers'[v] = workers[v]
  BY WorkerSet DEF TypeOK
<1>2. \A v \in Workers : workers'[v].batch \subseteq workers[v].batch
  BY <1>1
<1>3. \A i \in Ids : rows'[i] > 0 => i <= last
  <2> SUFFICES ASSUME NEW i \in Ids, rows'[i] > 0 PROVE i <= last
    OBVIOUS
  <2>1. CASE rows'[i] = rows[i]
    BY <2>1 DEF ReadOnce
  <2>2. CASE i \in workers[w].batch
    <3>1. i \in 1..last
      BY <2>2 DEF ReadOnce
    <3> QED BY <3>1
  <2> QED BY <2>1, <2>2
<1>4. ReadOnce'
  <2>1. \A v \in Workers : workers'[v].batch \subseteq 1..last
    BY <1>2 DEF ReadOnce
  <2>2. \A u, v \in Workers : u # v => workers'[u].batch \intersect workers'[v].batch = {}
    BY <1>2 DEF ReadOnce
  <2> QED BY <1>3, <2>1, <2>2 DEF ReadOnce
<1>5. StagesAgree'
  <2> SUFFICES ASSUME NEW v \in Workers
               PROVE  (/\ workers[v].pc \in {"idle", "down"} => workers[v].batch = {}
                       /\ workers[v].pc = "insert" => \A i \in workers[v].batch : rows[i] = 0
                       /\ workers[v].pc \in {"count", "ack"} =>
                            \A i \in Kept(workers[v].batch) : rows[i] > 0
                       /\ workers[v].due # {} => workers[v].pc = "count"
                       /\ workers[v].due \subseteq CodesOf(Kept(workers[v].batch)))'
    BY DEF StagesAgree
  <2>2. CASE v = w
    BY <1>1, <2>2 DEF Kept, HasCode, CodesOf
  <2>3. CASE v # w
    <3>1. workers'[v] = workers[v]
      BY <1>1, <2>3
    <3>2. workers[v].batch \subseteq Ids /\ workers[v].batch \intersect workers[w].batch = {}
      BY <2>3, BoundAssumption DEF ReadOnce, TypeOK, Ids
    <3>3. \A i \in workers[v].batch : rows'[i] = rows[i]
      BY <3>2
    <3>4. Kept(workers[v].batch)' = Kept(workers[v].batch)
          /\ Kept(workers[v].batch) \subseteq workers[v].batch
      BY <3>1 DEF Kept, HasCode
    <3>5. CodesOf(Kept(workers[v].batch))' = CodesOf(Kept(workers[v].batch))
      BY <3>4 DEF CodesOf
    <3> QED BY <3>1, <3>3, <3>4, <3>5 DEF StagesAgree
  <2> QED BY <2>2, <2>3
<1> QED BY <1>4, <1>5

LEMMA BatchInIds ==
  ASSUME Placed
  PROVE  \A w \in Workers : workers[w].batch \subseteq Ids
                            /\ workers[w].batch \subseteq 1..Len(stream)
BY BoundAssumption DEF Placed, TypeOK, Ids

\* What an INSERT that commits does to the rows.
LEMMA InsertedRows ==
  ASSUME Placed, NEW w \in Workers, InsertClicks(w)
  PROVE  \/ rows' = rows
         \/ /\ \A i \in Kept(workers[w].batch) : rows[i] = 0 /\ rows'[i] = 1
            /\ \A i \in Ids : i \notin Kept(workers[w].batch) => rows'[i] = rows[i]
<1> DEFINE kept == Kept(workers[w].batch)
<1>1. CASE rows' = [i \in Ids |-> rows[i] + IF i \in kept THEN 1 ELSE 0]
  <2>1. kept \subseteq Ids
    BY BatchInIds DEF Kept
  <2>2. \A i \in kept : rows[i] = 0
    BY DEF Placed, StagesAgree, InsertClicks, Kept
  <2>3. \A i \in Ids : rows[i] \in Nat
    BY DEF Placed, TypeOK
  <2> HIDE DEF kept
  <2>4. \A i \in kept : rows[i] = 0 /\ rows'[i] = 1
    BY <1>1, <2>1, <2>2
  <2>5. \A i \in Ids : i \notin kept => rows'[i] = rows[i]
    BY <1>1, <2>3
  <2> QED BY <2>4, <2>5 DEF kept
<1> QED BY <1>1 DEF InsertClicks

LEMMA InsertPlaced ==
  ASSUME Placed, NEW w \in Workers, InsertClicks(w)
  PROVE  ReadOnce' /\ StagesAgree'
<1> DEFINE kept == Kept(workers[w].batch)
           r == [pc |-> "count", batch |-> workers[w].batch, due |-> CodesOf(kept)]
<1>1. UNCHANGED <<stream, first, group, last>> /\ rows' \in [Ids -> Nat]
  BY InsertType DEF InsertClicks, TypeOK, Placed
<1>2. \A i \in Ids : rows'[i] = rows[i] \/ i \in workers[w].batch
  BY InsertedRows DEF Kept
<1>3. \A i \in Ids : rows[i] > 0 => rows'[i] > 0
  BY InsertedRows
<1>4. CASE workers' = [workers EXCEPT ![w] = IdleWorker]
  BY <1>1, <1>2, <1>3, <1>4, MovePlaced, IdleIsWorker DEF IdleWorker
<1>5. CASE workers' # [workers EXCEPT ![w] = IdleWorker]
  <2>1. workers' = [workers EXCEPT ![w] = r]
        /\ rows' = [i \in Ids |-> rows[i] + IF i \in kept THEN 1 ELSE 0]
    BY <1>5 DEF InsertClicks, Abandon
  <2>2. \A i \in kept : rows'[i] > 0
    <3>1. kept \subseteq Ids
      BY BatchInIds DEF Kept
    <3>2. \A i \in Ids : rows[i] \in Nat
      BY DEF Placed, TypeOK
    <3> HIDE DEF kept
    <3> QED BY <2>1, <3>1, <3>2
  <2>3. r \in Worker
    <3>1. CodesOf(kept) \subseteq Codes
      BY BatchInIds, EntryIsClick DEF Placed, CodesOf, Kept
    <3>2. workers[w].batch \in SUBSET Nat
      BY DEF Placed, TypeOK, Worker
    <3> QED BY <3>1, <3>2 DEF Worker
  <2>4. r.pc = "count" /\ r.batch = workers[w].batch /\ r.due = CodesOf(kept)
    OBVIOUS
  <2> HIDE DEF r
  <2> QED BY <1>1, <1>2, <1>3, <2>1, <2>2, <2>3, <2>4, MovePlaced
<1> QED BY <1>4, <1>5

LEMMA CountPlaced ==
  ASSUME Placed, NEW w \in Workers, NEW c \in Codes, CountCode(w, c)
  PROVE  ReadOnce' /\ StagesAgree'
<1> DEFINE due == workers[w].due \ {c}
           r == [pc |-> IF due = {} THEN "ack" ELSE "count",
                 batch |-> workers[w].batch, due |-> due]
<1>1. UNCHANGED <<stream, first, group, last, rows>> /\ rows \in [Ids -> Nat]
  BY DEF CountCode, TypeOK, Placed
<1>2. CASE workers' = [workers EXCEPT ![w] = IdleWorker]
  BY <1>1, <1>2, MovePlaced, IdleIsWorker DEF IdleWorker
<1>3. CASE workers' = [workers EXCEPT ![w] = r]
  <2>1. r \in Worker
    BY DEF Worker, Placed, TypeOK
  <2>2. r.pc = (IF due = {} THEN "ack" ELSE "count")
        /\ r.batch = workers[w].batch /\ r.due = due
    OBVIOUS
  <2>3. (\A i \in Kept(workers[w].batch) : rows[i] > 0)
        /\ due \subseteq CodesOf(Kept(workers[w].batch))
    BY DEF Placed, StagesAgree, CountCode
  <2> HIDE DEF r
  <2> QED BY <1>1, <1>3, <2>1, <2>2, <2>3, MovePlaced
<1> QED BY <1>2, <1>3 DEF CountCode, Abandon

LEMMA LeavePlaced ==
  ASSUME Placed, NEW w \in Workers, AckBatch(w) \/ CrashWorker(w)
  PROVE  ReadOnce' /\ StagesAgree'
<1> DEFINE down == [pc |-> "down", batch |-> {}, due |-> {}]
<1>1. UNCHANGED <<stream, first, group, last, rows>> /\ rows \in [Ids -> Nat]
  BY DEF AckBatch, CrashWorker, TypeOK, Placed
<1>2. CASE workers' = [workers EXCEPT ![w] = IdleWorker]
  BY <1>1, <1>2, MovePlaced, IdleIsWorker DEF IdleWorker
<1>3. CASE workers' = [workers EXCEPT ![w] = down]
  <2>1. down \in Worker /\ down.pc = "down" /\ down.batch = {} /\ down.due = {}
    BY DEF Worker
  <2> HIDE DEF down
  <2> QED BY <1>1, <1>3, <2>1, MovePlaced
<1> QED BY <1>2, <1>3 DEF AckBatch, CrashWorker

\* A new group begins after everything that was ever delivered.
LEMMA StartPlaced ==
  ASSUME Placed, NEW w \in Workers, StartWorker(w)
  PROVE  ReadOnce' /\ StagesAgree'
<1> USE DEF Placed
<1>1. UNCHANGED <<stream, first, rows>> /\ group'
      /\ workers' = [workers EXCEPT ![w] = IdleWorker]
  BY DEF StartWorker
<1>2. workers'[w] = IdleWorker /\ \A v \in Workers : v # w => workers'[v] = workers[v]
  BY <1>1, WorkerSet, IdleIsWorker DEF TypeOK
<1>3. last <= last' /\ last \in Int /\ last' \in Int
  BY DEF StartWorker, ReadOnce, TypeOK
<1>4. \A v \in Workers : workers'[v].batch \subseteq workers[v].batch
  BY <1>2 DEF IdleWorker
<1>5. \A v \in Workers : workers'[v].batch \subseteq 1..last'
  <2> SUFFICES ASSUME NEW v \in Workers, NEW i \in workers[v].batch
               PROVE  i \in 1..last'
    BY <1>4
  <2>1. i \in 1..last
    BY DEF ReadOnce
  <2> QED BY <1>3, <2>1
<1>6. \A i \in Ids : rows'[i] > 0 => i <= last'
  <2> SUFFICES ASSUME NEW i \in Ids, rows[i] > 0 PROVE i <= last'
    BY <1>1
  <2>1. i <= last /\ i \in Int
    BY BoundAssumption DEF ReadOnce, Ids
  <2> QED BY <1>3, <2>1
<1>7. ReadOnce'
  BY <1>1, <1>4, <1>5, <1>6 DEF ReadOnce
<1>8. StagesAgree'
  BY <1>1, <1>2 DEF StagesAgree, IdleWorker, Kept, HasCode, CodesOf
<1> QED BY <1>7, <1>8

LEMMA PlacedNext == Placed /\ [Next]_vars => Placed'
<1> SUFFICES ASSUME Placed, [Next]_vars PROVE ReadOnce' /\ StagesAgree'
  BY TypeNext DEF Placed
<1>1. CASE \E c \in Codes : TrackClick(c)
  BY <1>1, TrackPlaced
<1>2. CASE \E w \in Workers : ReadBatch(w)
  BY <1>2, ReadPlaced
<1>3. CASE \E w \in Workers : Consume(w)
  BY <1>3, InsertPlaced, CountPlaced, LeavePlaced DEF Consume
<1>4. CASE \E w \in Workers : CrashWorker(w) \/ StartWorker(w)
  BY <1>4, LeavePlaced, StartPlaced
<1>5. CASE \/ \E d \in Deleters : \/ \E c \in Codes : LoadForDelete(d, c)
                                  \/ CompareRow(d) \/ UpdateRow(d) \/ StopDelete(d)
           \/ UNCHANGED vars
  <2>1. UNCHANGED <<stream, first, group, last, rows, workers>>
    BY <1>5 DEF LoadForDelete, CompareRow, UpdateRow, StopDelete, vars
  <2> QED BY <2>1 DEF Placed, ReadOnce, StagesAgree, Kept, HasCode, CodesOf
<1>6. CASE LoseStream
  <2>1. UNCHANGED <<stream, last, rows, workers>> /\ last < first'
    BY <1>6 DEF LoseStream, Placed, TypeOK
  <2> QED BY <2>1 DEF Placed, ReadOnce, StagesAgree, Kept, HasCode, CodesOf
<1> QED BY <1>1, <1>2, <1>3, <1>4, <1>5, <1>6 DEF Next

\* A click makes at most one row.
LEMMA StoredOnceNext == Placed /\ StoredOnce /\ [Next]_vars => StoredOnce'
<1> SUFFICES ASSUME Placed, StoredOnce, [Next]_vars PROVE StoredOnce'
  OBVIOUS
<1>1. CASE rows' = rows
  BY <1>1 DEF StoredOnce
<1>2. CASE \E w \in Workers : InsertClicks(w)
  BY <1>2, InsertedRows DEF StoredOnce
<1>3. rows' = rows \/ \E w \in Workers : InsertClicks(w)
  BY DEF Next, Consume, TrackClick, ReadBatch, AckBatch, CountCode, CrashWorker,
         StartWorker, LoadForDelete, CompareRow, UpdateRow, StopDelete, LoseStream, vars
<1> QED BY <1>1, <1>2, <1>3

\* An acknowledged click whose code is read as a string has its row.
LEMMA AckedNext == Placed /\ AckedIsStored /\ [Next]_vars => AckedIsStored'
<1> SUFFICES ASSUME Placed, AckedIsStored, [Next]_vars,
                    NEW i \in acked', HasCode(i)'
             PROVE  rows'[i] > 0
  BY DEF AckedIsStored
<1>1. acked' = acked \/ \E w \in Workers : AckBatch(w)
  BY DEF Next, Consume, TrackClick, ReadBatch, InsertClicks, CountCode, CrashWorker,
         StartWorker, LoadForDelete, CompareRow, UpdateRow, StopDelete, LoseStream, vars
<1>2. CASE i \in acked
  <2>1. i \in 1..Len(stream) /\ i \in Ids
    BY <1>2, BoundAssumption DEF Placed, TypeOK, Ids
  <2>2. stream'[i] = stream[i]
    <3>1. CASE \E c \in Codes : TrackClick(c)
      BY <2>1, <3>1 DEF TrackClick, Extracted, Placed, TypeOK
    <3>2. stream' = stream \/ \E c \in Codes : TrackClick(c)
      BY DEF Next, Consume, ReadBatch, InsertClicks, AckBatch, CountCode, CrashWorker,
             StartWorker, LoadForDelete, CompareRow, UpdateRow, StopDelete, LoseStream, vars
    <3> QED BY <3>1, <3>2
  <2>3. rows[i] > 0
    BY <1>2, <2>2 DEF AckedIsStored, HasCode
  <2>4. rows' = rows \/ \E w \in Workers : InsertClicks(w)
    BY DEF Next, Consume, TrackClick, ReadBatch, AckBatch, CountCode, CrashWorker,
           StartWorker, LoadForDelete, CompareRow, UpdateRow, StopDelete, LoseStream, vars
  <2> QED BY <2>1, <2>3, <2>4, InsertedRows
<1>3. CASE i \notin acked
  <2>1. PICK w \in Workers : AckBatch(w)
    BY <1>1, <1>3
  <2>2. i \in workers[w].batch /\ workers[w].pc = "ack" /\ HasCode(i) /\ rows' = rows
    BY <1>3, <2>1 DEF AckBatch, HasCode
  <2> QED BY <2>2 DEF Placed, StagesAgree, Kept
<1> QED BY <1>2, <1>3

LEMMA PlacedHolds == Spec => [](Placed /\ StoredOnce /\ AckedIsStored)
<1>1. Init => Placed /\ StoredOnce /\ AckedIsStored
  BY PlacedInit DEF Init, StoredOnce, AckedIsStored
<1>2. Placed /\ StoredOnce /\ AckedIsStored /\ [Next]_vars
        => (Placed /\ StoredOnce /\ AckedIsStored)'
  BY PlacedNext, StoredOnceNext, AckedNext
<1> QED BY <1>1, <1>2, PTL DEF Spec

\* Whatever fails, races and starts again, no click is stored twice.
THEOREM ClicksStoredOnce == Spec => []StoredOnce
BY PlacedHolds, PTL

\* No click with a short code is acknowledged unless its row was inserted.
THEOREM AcknowledgedIsStored == Spec => []AckedIsStored
BY PlacedHolds, PTL

(***************************************************************************)
(* Counters.  The clicks of a link that are stored and that no worker is   *)
(* about to add only ever get more, and bound the counter.                 *)
(***************************************************************************)

SettledOf(c) == StoredOf(c) \ UncountedOf(c)

LEMMA SettledSize ==
  ASSUME Placed, NEW c \in Codes
  PROVE  /\ IsFiniteSet(SettledOf(c))
         /\ Cardinality(SettledOf(c)) \in Nat
         /\ IsFiniteSet(UncountedOf(c))
         /\ Cardinality(UncountedOf(c)) \in Nat
         /\ Cardinality(StoredOf(c)) = Cardinality(SettledOf(c)) + Cardinality(UncountedOf(c))
<1>1. UncountedOf(c) \subseteq StoredOf(c)
  <2> SUFFICES ASSUME NEW i \in UncountedOf(c) PROVE i \in StoredOf(c)
    OBVIOUS
  <2>1. PICK w \in Workers : c \in workers[w].due /\ i \in OfCode(workers[w].batch, c)
    BY DEF UncountedOf
  <2>2. i \in workers[w].batch /\ stream[i].code = c
    BY <2>1 DEF OfCode
  <2>3. workers[w].pc = "count" /\ c \in CodesOf(Kept(workers[w].batch))
    BY <2>1 DEF Placed, StagesAgree
  <2>4. c \notin NumericCodes
    BY <2>3 DEF CodesOf, Kept, HasCode
  <2>5. i \in Kept(workers[w].batch)
    BY <2>2, <2>4 DEF Kept, HasCode
  <2>6. rows[i] > 0
    BY <2>3, <2>5 DEF Placed, StagesAgree
  <2> QED BY <2>2, <2>6, BatchInIds DEF StoredOf
<1>2. IsFiniteSet(StoredOf(c))
  <2>1. 1 \in Int /\ Len(stream) \in Int
    BY DEF Placed, TypeOK
  <2>2. IsFiniteSet(1..Len(stream))
    BY <2>1, FS_Interval
  <2> QED BY <2>2, FS_Subset DEF StoredOf
<1>3. IsFiniteSet(UncountedOf(c)) /\ IsFiniteSet(SettledOf(c))
  BY <1>1, <1>2, FS_Subset DEF SettledOf
<1>4. Cardinality(SettledOf(c)) \in Nat /\ Cardinality(UncountedOf(c)) \in Nat
      /\ Cardinality(StoredOf(c)) \in Nat
  BY <1>2, <1>3, FS_CardinalityType
<1>5. StoredOf(c) = SettledOf(c) \union UncountedOf(c)
      /\ SettledOf(c) \intersect UncountedOf(c) = {}
  BY <1>1 DEF SettledOf
<1>6. Cardinality(StoredOf(c)) = Cardinality(SettledOf(c)) + Cardinality(UncountedOf(c))
  <2> HIDE DEF SettledOf
  <2>1. Cardinality(SettledOf(c) \union UncountedOf(c))
          = Cardinality(SettledOf(c)) + Cardinality(UncountedOf(c))
              - Cardinality(SettledOf(c) \intersect UncountedOf(c))
    BY <1>3, FS_Union
  <2>2. Cardinality({}) = 0
    BY FS_EmptySet
  <2> QED BY <1>4, <1>5, <2>1, <2>2
<1> QED BY <1>3, <1>4, <1>6

SizesFit ==
  \A c \in Codes : /\ IsFiniteSet(SettledOf(c))
                   /\ Cardinality(SettledOf(c)) \in Nat

LEMMA SettledSizes == Placed => SizesFit
BY SettledSize DEF SizesFit

LEMMA SettledSizeNext == Placed' => SizesFit'
BY SettledSizes, PTL

\* The counting invariants, said with the settled clicks.
Balanced ==
  /\ \A c \in Codes : /\ count[c] <= Cardinality(SettledOf(c))
                      /\ ~drifted[c] => count[c] = Cardinality(SettledOf(c))
  /\ \A d \in Deleters : deleters[d].pc # "idle" =>
       /\ deleters[d].code \in Codes
       /\ deleters[d].snap <= Cardinality(SettledOf(deleters[d].code))

LEMMA BalancedMeans ==
  ASSUME Placed
  PROVE  Balanced <=> CountNeverAhead /\ CountIsExact /\ CopiesBehind
<1>1. \A c \in Codes : /\ Cardinality(SettledOf(c)) \in Nat
                       /\ Cardinality(UncountedOf(c)) \in Nat
                       /\ Cardinality(StoredOf(c))
                            = Cardinality(SettledOf(c)) + Cardinality(UncountedOf(c))
  BY SettledSize
<1>2. \A c \in Codes : count[c] \in Nat
  BY DEF Placed, TypeOK
<1>3. \A d \in Deleters : deleters[d].snap \in Nat
  BY DEF Placed, TypeOK
<1>4. \A c \in Codes :
        /\ count[c] <= Cardinality(SettledOf(c))
             <=> count[c] + Cardinality(UncountedOf(c)) <= Cardinality(StoredOf(c))
        /\ count[c] = Cardinality(SettledOf(c))
             <=> count[c] + Cardinality(UncountedOf(c)) = Cardinality(StoredOf(c))
  BY <1>1, <1>2
<1>5. \A d \in Deleters, c \in Codes :
        deleters[d].snap <= Cardinality(SettledOf(c))
          <=> deleters[d].snap + Cardinality(UncountedOf(c)) <= Cardinality(StoredOf(c))
  BY <1>1, <1>3
<1> QED BY <1>4, <1>5 DEF Balanced, CountNeverAhead, CountIsExact, CopiesBehind

\* A step that leaves the copies alone keeps the balance, when the settled clicks
\* of a link only grow, and its counter by as many or by none and it has drifted.
LEMMA BalanceMoves ==
  ASSUME Placed, Placed', Balanced, UNCHANGED deleters,
         \A c \in Codes : drifted[c] => drifted'[c],
         \A c \in Codes : SettledOf(c) \subseteq SettledOf(c)',
         \A c \in Codes :
           \/ count'[c] + Cardinality(SettledOf(c)) = count[c] + Cardinality(SettledOf(c)')
           \/ count'[c] = count[c] /\ drifted'[c]
  PROVE  Balanced'
<1>1. \A c \in Codes : /\ Cardinality(SettledOf(c)) \in Nat
                       /\ Cardinality(SettledOf(c)') \in Nat
                       /\ Cardinality(SettledOf(c)) <= Cardinality(SettledOf(c)')
  BY SettledSizes, SettledSizeNext, FS_Subset DEF SizesFit
<1>2. \A c \in Codes : count[c] \in Nat /\ count'[c] \in Nat
  BY DEF Placed, TypeOK
<1>3. \A d \in Deleters : deleters[d].snap \in Nat
  BY DEF Placed, TypeOK
<1>4. \A c \in Codes : /\ count'[c] <= Cardinality(SettledOf(c)')
                       /\ ~drifted'[c] => count'[c] = Cardinality(SettledOf(c)')
  BY <1>1, <1>2 DEF Balanced
<1>5. \A d \in Deleters : deleters'[d].pc # "idle" =>
        /\ deleters'[d].code \in Codes
        /\ deleters'[d].snap <= Cardinality(SettledOf(deleters[d].code)')
  <2> SUFFICES ASSUME NEW d \in Deleters, deleters[d].pc # "idle"
               PROVE  /\ deleters[d].code \in Codes
                      /\ deleters[d].snap <= Cardinality(SettledOf(deleters[d].code)')
    OBVIOUS
  <2>1. PICK c \in Codes : c = deleters[d].code
    BY DEF Balanced
  <2>2. deleters[d].snap <= Cardinality(SettledOf(c))
    BY <2>1 DEF Balanced
  <2>3. deleters[d].snap <= Cardinality(SettledOf(c)')
    BY <1>1, <1>3, <2>2
  <2> QED BY <2>1, <2>3
<1> QED BY <1>4, <1>5 DEF Balanced

\* The same for a step that leaves the counters alone too.
LEMMA BalanceQuiet ==
  ASSUME Placed, Placed', Balanced, UNCHANGED <<count, deleters>>,
         \A c \in Codes : drifted[c] => drifted'[c],
         \A c \in Codes : \/ SettledOf(c)' = SettledOf(c)
                          \/ SettledOf(c) \subseteq SettledOf(c)' /\ drifted'[c]
  PROVE  Balanced'
<1>1. \A c \in Codes : SettledOf(c) \subseteq SettledOf(c)'
  OBVIOUS
<1>2. \A c \in Codes :
        \/ count'[c] + Cardinality(SettledOf(c)) = count[c] + Cardinality(SettledOf(c)')
        \/ count'[c] = count[c] /\ drifted'[c]
  OBVIOUS
<1> QED BY <1>1, <1>2, BalanceMoves

LEMMA SettledSame ==
  ASSUME NEW c \in Codes, UNCHANGED stream,
         \A i \in 1..Len(stream) : rows'[i] > 0 <=> rows[i] > 0,
         \A v \in Workers : c \in workers'[v].due <=> c \in workers[v].due,
         \A v \in Workers : c \in workers[v].due => workers'[v].batch = workers[v].batch
  PROVE  SettledOf(c)' = SettledOf(c)
<1>1. StoredOf(c)' = StoredOf(c)
  BY DEF StoredOf
<1>2. \A v \in Workers : c \in workers[v].due =>
        OfCode(workers[v].batch, c)' = OfCode(workers[v].batch, c)
  BY DEF OfCode
<1>3. UncountedOf(c)' = UncountedOf(c)
  BY <1>2 DEF UncountedOf
<1> QED BY <1>1, <1>3 DEF SettledOf

\* Rows are only added, and nobody takes over what another was to count.
LEMMA SettledGrows ==
  ASSUME NEW c \in Codes, UNCHANGED stream,
         \A i \in 1..Len(stream) : rows[i] > 0 => rows'[i] > 0,
         \A v \in Workers : c \in workers'[v].due =>
           c \in workers[v].due /\ workers'[v].batch = workers[v].batch
  PROVE  SettledOf(c) \subseteq SettledOf(c)'
<1> SUFFICES ASSUME NEW i \in SettledOf(c), i \notin SettledOf(c)' PROVE FALSE
  OBVIOUS
<1>1. i \in StoredOf(c) /\ i \in StoredOf(c)'
  BY DEF SettledOf, StoredOf
<1>2. i \in UncountedOf(c)'
  BY <1>1 DEF SettledOf
<1>3. PICK v \in Workers : c \in workers'[v].due /\ i \in OfCode(workers[v].batch, c)'
  BY <1>2 DEF UncountedOf
<1>4. c \in workers[v].due /\ i \in OfCode(workers[v].batch, c)
  BY <1>3 DEF OfCode
<1>5. i \in UncountedOf(c)
  BY <1>4 DEF UncountedOf
<1> QED BY <1>1, <1>5 DEF SettledOf

LEMMA TrackBalance ==
  ASSUME Placed, Placed', Balanced, NEW e \in Codes, TrackClick(e)
  PROVE  Balanced'
<1> USE DEF Placed
<1>1. PICK click \in Click : stream' = Append(stream, click)
  BY DEF TrackClick, Extracted, Click
<1>2. Len(stream') = Len(stream) + 1 /\ Len(stream) \in Nat
      /\ \A i \in 1..Len(stream) : stream'[i] = stream[i]
  BY <1>1 DEF TypeOK
<1>3. UNCHANGED <<workers, rows, last, count, deleters, drifted>>
  BY DEF TrackClick
<1>4. ASSUME NEW c \in Codes PROVE SettledOf(c)' = SettledOf(c)
  <2>1. ~(rows[Len(stream) + 1] > 0)
    <3>1. Len(stream) + 1 \in Ids
      BY <1>2, BoundAssumption DEF TrackClick, Ids
    <3>2. last \in Int /\ last <= Len(stream)
      BY DEF TypeOK
    <3> QED BY <1>2, <3>1, <3>2 DEF ReadOnce
  <2>2. \A i : i \in 1..Len(stream') <=> i \in 1..Len(stream) \/ i = Len(stream) + 1
    BY <1>2
  <2>3. StoredOf(c)' = StoredOf(c)
    BY <1>2, <1>3, <2>1, <2>2 DEF StoredOf
  <2>4. \A v \in Workers : OfCode(workers[v].batch, c)' = OfCode(workers[v].batch, c)
    BY <1>2, <1>3, BatchInIds DEF OfCode
  <2>5. UncountedOf(c)' = UncountedOf(c)
    BY <1>3, <2>4 DEF UncountedOf
  <2> QED BY <2>3, <2>5 DEF SettledOf
<1> QED BY <1>3, <1>4, BalanceQuiet

\* Steps that add no row and leave what is to be counted to who had it.
LEMMA IdleBalance ==
  ASSUME Placed, Placed', Balanced, NEW w \in Workers,
         ReadBatch(w) \/ AckBatch(w) \/ StartWorker(w)
  PROVE  Balanced'
<1> USE DEF Placed
<1>1. UNCHANGED <<stream, rows, count, deleters, drifted>>
  BY DEF ReadBatch, AckBatch, StartWorker
<1>2. workers[w].due = {}
  BY DEF ReadBatch, AckBatch, StartWorker, StagesAgree
<1>4. workers'[w].due = {} /\ \A v \in Workers : v # w => workers'[v] = workers[v]
  <2>1. CASE ReadBatch(w)
    BY <1>2, <2>1 DEF ReadBatch, TypeOK
  <2>2. CASE AckBatch(w) \/ StartWorker(w)
    BY <2>2 DEF AckBatch, StartWorker, IdleWorker, TypeOK
  <2> QED BY <2>1, <2>2
<1>5. \A c \in Codes : SettledOf(c)' = SettledOf(c)
  BY <1>1, <1>2, <1>4, SettledSame
<1> QED BY <1>1, <1>5, BalanceQuiet

LEMMA CrashBalance ==
  ASSUME Placed, Placed', Balanced, NEW w \in Workers, CrashWorker(w)
  PROVE  Balanced'
<1> USE DEF Placed
<1>1. UNCHANGED <<stream, rows, count, deleters>> /\ Drift(workers[w].due)
  BY DEF CrashWorker
<1>2. workers'[w].due = {} /\ \A v \in Workers : v # w => workers'[v] = workers[v]
  BY DEF CrashWorker, TypeOK
<1>3. ASSUME NEW c \in Codes
      PROVE  \/ SettledOf(c)' = SettledOf(c)
             \/ SettledOf(c) \subseteq SettledOf(c)' /\ drifted'[c]
  <2>1. CASE c \in workers[w].due
    <3>1. SettledOf(c) \subseteq SettledOf(c)'
      BY <1>1, <1>2, SettledGrows
    <3> QED BY <1>1, <2>1, <3>1 DEF Drift
  <2>2. CASE c \notin workers[w].due
    BY <1>1, <1>2, <2>2, SettledSame
  <2> QED BY <2>1, <2>2
<1>4. \A c \in Codes : drifted[c] => drifted'[c]
  BY <1>1 DEF Drift
<1> QED BY <1>1, <1>3, <1>4, BalanceQuiet

\* An INSERT that was answered: its clicks are stored and still to be counted.
LEMMA InsertSettled ==
  ASSUME Placed, NEW w \in Workers, InsertClicks(w), NEW c \in Codes,
         \A i \in Kept(workers[w].batch) : rows[i] = 0,
         \A i \in Ids : i \notin Kept(workers[w].batch) => rows'[i] = rows[i],
         workers'[w].batch = workers[w].batch,
         workers'[w].due = CodesOf(Kept(workers[w].batch)),
         \A v \in Workers : v # w => workers'[v] = workers[v]
  PROVE  SettledOf(c)' = SettledOf(c)
<1> USE DEF Placed
<1> DEFINE kept == Kept(workers[w].batch)
<1>1. UNCHANGED stream /\ workers[w].due = {}
  BY DEF InsertClicks, StagesAgree
<1>2. 1..Len(stream) \subseteq Ids /\ kept \subseteq 1..Len(stream)
  BY BatchInIds, BoundAssumption DEF TypeOK, Ids, Kept
<1>3. \A i : i \in UncountedOf(c)' <=>
        i \in UncountedOf(c) \/ (i \in kept /\ stream[i].code = c)
  <2> SUFFICES ASSUME NEW i
               PROVE  i \in UncountedOf(c)' <=>
                        i \in UncountedOf(c) \/ (i \in kept /\ stream[i].code = c)
    OBVIOUS
  <2>1. i \in UncountedOf(c)' <=>
          \E v \in Workers : c \in workers'[v].due /\ i \in workers'[v].batch
                             /\ stream[i].code = c
    BY <1>1 DEF UncountedOf, OfCode
  <2>2. i \in UncountedOf(c) <=>
          \E v \in Workers : c \in workers[v].due /\ i \in workers[v].batch
                             /\ stream[i].code = c
    BY DEF UncountedOf, OfCode
  <2>3. c \in CodesOf(kept) /\ i \in workers[w].batch /\ stream[i].code = c
          <=> i \in kept /\ stream[i].code = c
    BY DEF CodesOf, Kept, HasCode
  <2> QED BY <1>1, <2>1, <2>2, <2>3
<1>4. \A i : i \in StoredOf(c)' =>
        i \in StoredOf(c) \/ (i \in kept /\ stream[i].code = c)
  BY <1>1, <1>2 DEF StoredOf
<1>5. \A i \in StoredOf(c) : i \in StoredOf(c)' /\ i \notin kept
  <2> SUFFICES ASSUME NEW i \in StoredOf(c) PROVE i \in StoredOf(c)' /\ i \notin kept
    OBVIOUS
  <2>1. i \in Ids /\ rows[i] > 0
    BY <1>2 DEF StoredOf
  <2>2. i \notin kept
    BY <2>1
  <2>3. rows'[i] = rows[i]
    BY <2>1, <2>2
  <2> QED BY <1>1, <2>2, <2>3 DEF StoredOf
<1> HIDE DEF kept
<1> QED BY <1>3, <1>4, <1>5 DEF SettledOf

LEMMA InsertBalance ==
  ASSUME Placed, Placed', Balanced, NEW w \in Workers, InsertClicks(w)
  PROVE  Balanced'
<1> USE DEF Placed
<1> DEFINE kept == Kept(workers[w].batch)
<1>1. UNCHANGED <<stream, count, deleters>> /\ workers[w].due = {}
  BY DEF InsertClicks, StagesAgree
<1>2. \A v \in Workers : v # w => workers'[v] = workers[v]
  BY DEF InsertClicks, Abandon, TypeOK
<1>3. \A c \in Codes : drifted[c] => drifted'[c]
  BY DEF InsertClicks, Drift
<1>4. CASE /\ workers'[w].batch = workers[w].batch
           /\ workers'[w].due = CodesOf(kept)
           /\ rows' = [i \in Ids |-> rows[i] + IF i \in kept THEN 1 ELSE 0]
  <2>1. \A i \in kept : rows[i] = 0
    BY DEF InsertClicks, StagesAgree, Kept
  <2>2. \A i \in Ids : i \notin kept => rows'[i] = rows[i]
    <3> HIDE DEF kept
    <3>1. \A i \in Ids : rows[i] \in Nat
      BY DEF TypeOK
    <3> QED BY <1>4, <3>1
  <2>3. \A c \in Codes : SettledOf(c)' = SettledOf(c)
    BY <1>2, <1>4, <2>1, <2>2, InsertSettled
  <2> QED BY <1>1, <1>3, <2>3, BalanceQuiet
<1>5. CASE workers'[w].due = {} /\ (rows' = rows \/ Drift(CodesOf(kept)))
  <2>1. \A i \in 1..Len(stream) : rows[i] > 0 => rows'[i] > 0
    <3>1. 1..Len(stream) \subseteq Ids
      BY BoundAssumption DEF TypeOK, Ids
    <3> QED BY <3>1, InsertedRows
  <2>2. ASSUME NEW c \in Codes
        PROVE  \/ SettledOf(c)' = SettledOf(c)
               \/ SettledOf(c) \subseteq SettledOf(c)' /\ drifted'[c]
    <3>1. CASE rows' = rows
      BY <1>1, <1>2, <1>5, <3>1, SettledSame
    <3>2. CASE Drift(CodesOf(kept)) /\ c \in CodesOf(kept)
      <4>1. SettledOf(c) \subseteq SettledOf(c)'
        BY <1>1, <1>2, <1>5, <2>1, SettledGrows
      <4> QED BY <3>2, <4>1 DEF Drift
    <3>3. CASE Drift(CodesOf(kept)) /\ c \notin CodesOf(kept)
      <4>1. \A i \in 1..Len(stream) : stream[i].code = c => i \notin kept
        BY <3>3 DEF CodesOf
      <4>2. \A i \in 1..Len(stream) : stream[i].code = c => rows'[i] = rows[i]
        <5>1. 1..Len(stream) \subseteq Ids
          BY BoundAssumption DEF TypeOK, Ids
        <5> QED BY <4>1, <5>1, InsertedRows
      <4>3. StoredOf(c)' = StoredOf(c)
        BY <1>1, <4>2 DEF StoredOf
      <4>4. UncountedOf(c)' = UncountedOf(c)
        BY <1>1, <1>2, <1>5 DEF UncountedOf, OfCode
      <4> QED BY <4>3, <4>4 DEF SettledOf
    <3> QED BY <1>5, <3>1, <3>2, <3>3
  <2> QED BY <1>1, <1>3, <2>2, BalanceQuiet
<1>6. \/ /\ workers'[w].batch = workers[w].batch
         /\ workers'[w].due = CodesOf(kept)
         /\ rows' = [i \in Ids |-> rows[i] + IF i \in kept THEN 1 ELSE 0]
      \/ workers'[w].due = {} /\ (rows' = rows \/ Drift(CodesOf(kept)))
  <2>1. workers \in [Workers -> Worker]
    BY DEF TypeOK
  <2> QED BY <2>1 DEF InsertClicks, Abandon, IdleWorker
<1> QED BY <1>4, <1>5, <1>6

\* An UPDATE that commits: the clicks of the code become settled, and there are as
\* many of them as it adds.
LEMMA CountedSettled ==
  ASSUME Placed, Placed', NEW w \in Workers, NEW c \in Codes, CountCode(w, c),
         c \notin workers'[w].due,
         \A v \in Workers : v # w => workers'[v] = workers[v]
  PROVE  /\ SettledOf(c) \subseteq SettledOf(c)'
         /\ Cardinality(SettledOf(c)')
              = Cardinality(SettledOf(c)) + Cardinality(OfCode(workers[w].batch, c))
<1> USE DEF Placed
<1> DEFINE added == OfCode(workers[w].batch, c)
<1>1. UNCHANGED <<stream, rows>> /\ c \in workers[w].due /\ workers[w].pc = "count"
  BY DEF CountCode
<1>2. \A i \in added : i \in StoredOf(c)
  <2>1. c \notin NumericCodes
    BY <1>1 DEF StagesAgree, CodesOf, Kept, HasCode
  <2>2. added \subseteq Kept(workers[w].batch)
    BY <2>1 DEF OfCode, Kept, HasCode
  <2> QED BY <1>1, <2>2, BatchInIds DEF StagesAgree, StoredOf, OfCode
<1>3. StoredOf(c)' = StoredOf(c)
  BY <1>1 DEF StoredOf
<1>4. \A i : i \in UncountedOf(c)' <=> i \in UncountedOf(c) /\ i \notin added
  <2> SUFFICES ASSUME NEW i
               PROVE  i \in UncountedOf(c)' <=> i \in UncountedOf(c) /\ i \notin added
    OBVIOUS
  <2>1. i \in UncountedOf(c)' <=>
          \E v \in Workers : c \in workers'[v].due /\ i \in workers'[v].batch
                             /\ stream[i].code = c
    BY <1>1 DEF UncountedOf, OfCode
  <2>2. i \in UncountedOf(c) <=>
          \E v \in Workers : c \in workers[v].due /\ i \in workers[v].batch
                             /\ stream[i].code = c
    BY DEF UncountedOf, OfCode
  <2>3. i \in added <=> i \in workers[w].batch /\ stream[i].code = c
    BY DEF OfCode
  <2>4. \A v \in Workers : v # w => workers[v].batch \intersect workers[w].batch = {}
    BY DEF ReadOnce
  <2> HIDE DEF added
  <2> QED BY <1>1, <2>1, <2>2, <2>3, <2>4
<1>5. added \subseteq UncountedOf(c)
  BY <1>1 DEF UncountedOf
<1>6. SettledOf(c)' = SettledOf(c) \union added /\ SettledOf(c) \intersect added = {}
  <2> HIDE DEF added
  <2> QED BY <1>2, <1>3, <1>4, <1>5 DEF SettledOf
<1>7. IsFiniteSet(SettledOf(c)) /\ IsFiniteSet(UncountedOf(c))
      /\ Cardinality(SettledOf(c)) \in Nat
  BY SettledSize
<1>8. IsFiniteSet(added) /\ Cardinality(added) \in Nat
  BY <1>5, <1>7, FS_Subset, FS_CardinalityType
<1>9. Cardinality(SettledOf(c) \union added)
        = Cardinality(SettledOf(c)) + Cardinality(added)
            - Cardinality(SettledOf(c) \intersect added)
  <2> HIDE DEF added
  <2> QED BY <1>7, <1>8, FS_Union
<1>10. Cardinality({}) = 0
  BY FS_EmptySet
<1> HIDE DEF added
<1>11. Cardinality(SettledOf(c)') = Cardinality(SettledOf(c)) + Cardinality(added)
  <2>1. Cardinality(SettledOf(c) \intersect added) = 0
    BY <1>6, <1>10
  <2>2. Cardinality(SettledOf(c)') = Cardinality(SettledOf(c) \union added)
    BY <1>6
  <2> QED BY <1>7, <1>8, <1>9, <2>1, <2>2
<1> QED BY <1>6, <1>11 DEF added

LEMMA CountBalance ==
  ASSUME Placed, Placed', Balanced, NEW w \in Workers, NEW c \in Codes, CountCode(w, c)
  PROVE  Balanced'
<1> USE DEF Placed
<1> DEFINE due == workers[w].due \ {c}
           n == Cardinality(OfCode(workers[w].batch, c))
<1>1. UNCHANGED <<stream, rows, deleters>> /\ c \in workers[w].due
  BY DEF CountCode
<1>2. /\ \A v \in Workers : v # w => workers'[v] = workers[v]
      /\ \/ workers'[w].due = due /\ workers'[w].batch = workers[w].batch
            /\ drifted' = drifted /\ count' = [count EXCEPT ![c] = count[c] + n]
         \/ workers'[w].due = {} /\ Drift(workers[w].due) /\ count' = count
         \/ workers'[w].due = {} /\ Drift(due)
            /\ count' = [count EXCEPT ![c] = count[c] + n]
  <2>1. workers \in [Workers -> Worker]
    BY DEF TypeOK
  <2> QED BY <2>1 DEF CountCode, Abandon, IdleWorker
<1>3. \A e \in Codes : drifted[e] => drifted'[e]
  BY <1>2 DEF Drift
<1>4. ASSUME NEW e \in Codes,
             e # c \/ (workers'[w].due = {} /\ Drift(workers[w].due))
      PROVE  \/ SettledOf(e)' = SettledOf(e)
             \/ SettledOf(e) \subseteq SettledOf(e)' /\ drifted'[e]
  <2>1. CASE e \in workers'[w].due <=> e \in workers[w].due
    <3>1. e \in workers[w].due => workers'[w].batch = workers[w].batch
      BY <1>2, <2>1
    <3> QED BY <1>1, <1>2, <2>1, <3>1, SettledSame
  <2>2. CASE /\ e \notin workers'[w].due /\ e \in workers[w].due
             /\ workers'[w].due = {} /\ (Drift(workers[w].due) \/ (Drift(due) /\ e # c))
    <3>1. SettledOf(e) \subseteq SettledOf(e)'
      BY <1>1, <1>2, <2>2, SettledGrows
    <3> QED BY <2>2, <3>1 DEF Drift
  <2>3. CASE workers'[w].due = due /\ e # c
    <3>1. e \in workers'[w].due <=> e \in workers[w].due
      BY <2>3
    <3> QED BY <2>1, <3>1
  <2>4. CASE workers'[w].due = {}
    <3>1. e \notin workers'[w].due
      BY <2>4
    <3>2. CASE e \in workers[w].due
      <4>1. CASE Drift(workers[w].due)
        <5>1. SettledOf(e) \subseteq SettledOf(e)'
          BY <1>1, <1>2, <2>4, SettledGrows
        <5> QED BY <3>2, <4>1, <5>1 DEF Drift
      <4>2. CASE Drift(due) /\ e # c
        BY <2>2, <2>4, <3>1, <3>2, <4>2
      <4>3. CASE workers'[w].due = due /\ e # c
        BY <2>3, <4>3
      <4> QED BY <1>2, <1>4, <4>1, <4>2, <4>3
    <3>3. CASE e \notin workers[w].due
      BY <2>1, <3>1, <3>3
    <3> QED BY <3>2, <3>3
  <2> QED BY <1>2, <1>4, <2>3, <2>4
<1>5. CASE count' = count /\ workers'[w].due = {} /\ Drift(workers[w].due)
  BY <1>1, <1>3, <1>4, <1>5, BalanceQuiet
<1>6. CASE count' = [count EXCEPT ![c] = count[c] + n] /\ c \notin workers'[w].due
  <2>1. SettledOf(c) \subseteq SettledOf(c)'
        /\ Cardinality(SettledOf(c)') = Cardinality(SettledOf(c)) + n
    BY <1>2, <1>6, CountedSettled
  <2>2. Cardinality(SettledOf(c)) \in Nat /\ count[c] \in Nat /\ count'[c] = count[c] + n
    BY <1>6, SettledSize DEF TypeOK
  <2>3. n \in Nat
    <3>1. OfCode(workers[w].batch, c) \subseteq UncountedOf(c)
      BY <1>1 DEF UncountedOf
    <3>2. IsFiniteSet(UncountedOf(c))
      BY SettledSize
    <3> QED BY <3>1, <3>2, FS_Subset, FS_CardinalityType
  <2> HIDE DEF n
  <2>4. count'[c] + Cardinality(SettledOf(c)) = count[c] + Cardinality(SettledOf(c)')
    BY <2>1, <2>2, <2>3
  <2>5. \A e \in Codes : e # c => count'[e] = count[e]
    BY <1>6 DEF TypeOK
  <2>6. \A e \in Codes : SettledOf(e) \subseteq SettledOf(e)'
    BY <1>4, <2>1
  <2>7. \A e \in Codes :
          \/ count'[e] + Cardinality(SettledOf(e)) = count[e] + Cardinality(SettledOf(e)')
          \/ count'[e] = count[e] /\ drifted'[e]
    <3> SUFFICES ASSUME NEW e \in Codes, e # c
                 PROVE  \/ count'[e] + Cardinality(SettledOf(e))
                             = count[e] + Cardinality(SettledOf(e)')
                        \/ count'[e] = count[e] /\ drifted'[e]
      BY <2>4
    <3>1. count'[e] = count[e]
      BY <2>5
    <3> QED BY <1>4, <3>1
  <2> QED BY <1>1, <1>3, <2>6, <2>7, BalanceMoves
<1> QED BY <1>2, <1>5, <1>6

\* Deletes: what was read is behind from then on, and is written back as it was.
LEMMA DeleterBalance ==
  ASSUME Placed, Placed', Balanced, NEW d \in Deleters,
         \/ \E c \in Codes : LoadForDelete(d, c)
         \/ CompareRow(d) \/ UpdateRow(d) \/ StopDelete(d)
  PROVE  Balanced'
<1> USE DEF Placed
<1>1. UNCHANGED <<stream, rows, workers>>
  BY DEF LoadForDelete, CompareRow, UpdateRow, StopDelete
<1>2. \A c \in Codes : SettledOf(c)' = SettledOf(c)
  BY <1>1, SettledSame
<1>3. \A e \in Deleters : e # d => deleters'[e] = deleters[e]
  BY DEF LoadForDelete, CompareRow, UpdateRow, StopDelete, TypeOK
<1>4. \A c \in Codes : /\ count'[c] <= Cardinality(SettledOf(c))
                       /\ ~drifted'[c] => count'[c] = Cardinality(SettledOf(c))
  <2>1. CASE UpdateRow(d)
    <3>1. deleters[d].pc # "idle" /\ count' = [count EXCEPT ![deleters[d].code] = deleters[d].snap]
          /\ \A c \in Codes : drifted'[c] <=> (drifted[c] \/ c = deleters[d].code)
      BY <2>1 DEF UpdateRow, Drift
    <3>2. deleters[d].code \in Codes
          /\ deleters[d].snap <= Cardinality(SettledOf(deleters[d].code))
      BY <3>1 DEF Balanced
    <3> QED BY <3>1, <3>2 DEF Balanced, TypeOK
  <2>2. CASE count' = count /\ drifted' = drifted
    BY <2>2 DEF Balanced
  <2> QED BY <2>1, <2>2 DEF LoadForDelete, CompareRow, StopDelete
<1>5. deleters'[d].pc # "idle" =>
        /\ deleters'[d].code \in Codes
        /\ deleters'[d].snap <= Cardinality(SettledOf(deleters'[d].code))
  <2>1. CASE \E c \in Codes : LoadForDelete(d, c)
    <3>1. PICK c \in Codes : LoadForDelete(d, c)
      BY <2>1
    <3>2. deleters'[d].code = c /\ deleters'[d].snap = count[c]
      BY <3>1 DEF LoadForDelete, TypeOK
    <3> QED BY <3>2 DEF Balanced
  <2>2. CASE CompareRow(d)
    <3>1. deleters[d].pc # "idle"
      BY <2>2 DEF CompareRow
    <3>2. \/ deleters'[d].pc = "idle"
          \/ deleters'[d].code = deleters[d].code /\ deleters'[d].snap = deleters[d].snap
      BY <2>2 DEF CompareRow, IdleDeleter, TypeOK
    <3> QED BY <3>1, <3>2 DEF Balanced
  <2>3. CASE UpdateRow(d) \/ StopDelete(d)
    BY <2>3 DEF UpdateRow, StopDelete, IdleDeleter, TypeOK
  <2> QED BY <2>1, <2>2, <2>3
<1>6. \A e \in Deleters : deleters'[e].pc # "idle" =>
        /\ deleters'[e].code \in Codes
        /\ deleters'[e].snap <= Cardinality(SettledOf(deleters'[e].code))
  BY <1>3, <1>5 DEF Balanced
<1>7. \A c \in Codes : SettledOf(c)' = SettledOf(c)
                       /\ Cardinality(SettledOf(c))' = Cardinality(SettledOf(c))
  BY <1>2
<1>8. (\A c \in Codes : /\ count[c] <= Cardinality(SettledOf(c))
                        /\ ~drifted[c] => count[c] = Cardinality(SettledOf(c)))'
  BY <1>4, <1>7
<1>9. (\A e \in Deleters : deleters[e].pc # "idle" =>
         /\ deleters[e].code \in Codes
         /\ deleters[e].snap <= Cardinality(SettledOf(deleters[e].code)))'
  BY <1>6, <1>1 DEF SettledOf, StoredOf, UncountedOf, OfCode
<1> QED BY <1>8, <1>9 DEF Balanced

LEMMA BalancedNext == Placed /\ Balanced /\ [Next]_vars => Balanced'
<1> SUFFICES ASSUME Placed, Balanced, [Next]_vars PROVE Balanced'
  OBVIOUS
<1>0. Placed'
  BY PlacedNext
<1>1. CASE \E c \in Codes : TrackClick(c)
  BY <1>0, <1>1, TrackBalance
<1>2. CASE \E w \in Workers : ReadBatch(w) \/ AckBatch(w) \/ StartWorker(w)
  BY <1>0, <1>2, IdleBalance
<1>3. CASE \E w \in Workers : InsertClicks(w) \/ (\E c \in Codes : CountCode(w, c))
  BY <1>0, <1>3, InsertBalance, CountBalance
<1>4. CASE \E w \in Workers : CrashWorker(w)
  BY <1>0, <1>4, CrashBalance
<1>5. CASE \E d \in Deleters : \/ \E c \in Codes : LoadForDelete(d, c)
                               \/ CompareRow(d) \/ UpdateRow(d) \/ StopDelete(d)
  BY <1>0, <1>5, DeleterBalance
<1>6. CASE LoseStream \/ UNCHANGED vars
  <2>1. UNCHANGED <<stream, rows, count, workers, deleters, drifted>>
    BY <1>6 DEF LoseStream, vars
  <2>2. \A c \in Codes : SettledOf(c)' = SettledOf(c)
    BY <2>1, SettledSame
  <2> QED BY <1>0, <2>1, <2>2, BalanceQuiet
<1> QED BY <1>1, <1>2, <1>3, <1>4, <1>5, <1>6 DEF Next, Consume

LEMMA BalancedInit == Init => Balanced
<1> SUFFICES ASSUME Init PROVE Balanced
  OBVIOUS
<1>1. \A c \in Codes : SettledOf(c) = {}
  BY DEF Init, SettledOf, StoredOf
<1>2. \A c \in Codes : Cardinality(SettledOf(c)) = 0
  BY <1>1, FS_EmptySet
<1> QED BY <1>2 DEF Init, Balanced, IdleDeleter

LEMMA BalancedHolds == Spec => [](Placed /\ Balanced)
<1>1. Placed /\ Balanced /\ [Next]_vars => (Placed /\ Balanced)'
  BY PlacedNext, BalancedNext
<1> QED BY PlacedInit, BalancedInit, <1>1, PTL DEF Spec

LEMMA BalancedImplies ==
  Placed /\ Balanced => CountNeverAhead /\ CountIsExact /\ CopiesBehind
BY BalancedMeans

\* A counter is never more than the clicks of its link that are stored and that
\* no worker is about to add.
THEOREM CounterBehind == Spec => []CountNeverAhead
BY BalancedHolds, BalancedImplies, PTL

\* As long as no failure or stale save hit a link, its counter is exact.
THEOREM CounterExact == Spec => []CountIsExact
BY BalancedHolds, BalancedImplies, PTL

\* The inductive invariant, as one.
THEOREM ClickInvariant == Spec => []IInv
<1>1. Placed /\ StoredOnce /\ AckedIsStored /\ CountNeverAhead /\ CountIsExact
        /\ CopiesBehind => IInv
  BY DEF Placed, IInv
<1> QED BY PlacedHolds, BalancedHolds, BalancedImplies, <1>1, PTL

(***************************************************************************)
(* The refinement of ClickLedger: every step moves clicks as the ledger    *)
(* may, or none.                                                           *)
(***************************************************************************)

\* Where the unread part of the stream begins.
LEMMA Unread ==
  ASSUME Placed
  PROVE  /\ NextUnread \in 1..(Len(stream) + 1)
         /\ first <= NextUnread /\ last < NextUnread
         /\ Len(stream) \in Nat /\ Len(stream) <= MaxClicks
         /\ \A i \in NextUnread..Len(stream) : i \in Ids /\ rows[i] = 0
<1>1. /\ Len(stream) \in Nat /\ first \in 1..(Len(stream) + 1) /\ last \in 0..Len(stream)
      /\ Len(stream) <= MaxClicks
  BY DEF Placed, TypeOK
<1>2. NextUnread \in 1..(Len(stream) + 1) /\ first <= NextUnread /\ last < NextUnread
  BY <1>1 DEF NextUnread
<1>3. ASSUME NEW i \in NextUnread..Len(stream) PROVE i \in Ids /\ rows[i] = 0
  <2>1. i \in Ids /\ ~(i <= last)
    BY <1>1, <1>2, BoundAssumption DEF Ids
  <2>2. rows[i] \in Nat /\ ~(rows[i] > 0)
    BY <2>1 DEF Placed, TypeOK, ReadOnce
  <2> QED BY <2>1, <2>2
<1> QED BY <1>1, <1>2, <1>3

\* The fates of a click, one by one.
Fates == {"new", "waiting", "held", "stored", "settled", "lost"}

FateFits(i) ==
  /\ FateAt(i) \in Fates
  /\ FateAt(i) = "new" <=> i > Len(stream)
  /\ FateAt(i) = "waiting" <=> i \in NextUnread..Len(stream)
  /\ FateAt(i) = "stored" <=> rows[i] > 0 /\ ToBeCounted(i)
  /\ FateAt(i) = "settled" <=> rows[i] > 0 /\ ~ToBeCounted(i)
  /\ FateAt(i) = "held" <=> i < NextUnread /\ rows[i] = 0 /\ InHand(i)
  /\ FateAt(i) = "lost" <=> i < NextUnread /\ rows[i] = 0 /\ ~InHand(i)

LEMMA FateKnown ==
  ASSUME Placed
  PROVE  \A i \in Ids : FateFits(i)
<1> SUFFICES ASSUME NEW i \in Ids PROVE FateFits(i)
  OBVIOUS
<1>1. /\ NextUnread \in 1..(Len(stream) + 1) /\ Len(stream) \in Nat /\ i \in Nat
      /\ last \in Nat /\ last < NextUnread
  BY Unread, BoundAssumption DEF Ids, Placed, TypeOK
<1>2. rows[i] \in Nat /\ (rows[i] > 0 => i < NextUnread)
  <2>1. rows[i] \in Nat /\ (rows[i] > 0 => i <= last)
    BY DEF Placed, TypeOK, ReadOnce
  <2> QED BY <1>1, <2>1
<1>3. CASE i > Len(stream)
  <2>1. FateAt(i) = "new" /\ i \notin NextUnread..Len(stream) /\ ~(i < NextUnread)
    BY <1>1, <1>3 DEF FateAt
  <2> QED BY <1>1, <1>2, <1>3, <2>1 DEF FateFits, Fates
<1>4. CASE i \in NextUnread..Len(stream)
  <2>1. ~(i > Len(stream)) /\ ~(i < NextUnread)
    BY <1>1, <1>4
  <2>2. FateAt(i) = "waiting"
    BY <1>4, <2>1 DEF FateAt
  <2> QED BY <1>2, <1>4, <2>1, <2>2 DEF FateFits, Fates
<1>5. CASE i < NextUnread
  <2>1. ~(i > Len(stream)) /\ i \notin NextUnread..Len(stream)
    BY <1>1, <1>5
  <2>2. rows[i] > 0 <=> ~(rows[i] = 0)
    BY <1>2
  <2>3. FateAt(i) = IF rows[i] > 0 THEN IF ToBeCounted(i) THEN "stored" ELSE "settled"
                    ELSE IF InHand(i) THEN "held" ELSE "lost"
    BY <1>5, <2>1, <2>2 DEF FateAt
  <2> QED BY <1>5, <2>1, <2>2, <2>3 DEF FateFits, Fates
<1> QED BY <1>1, <1>3, <1>4, <1>5

LEMMA FateKnownNext == Placed' => (\A i \in Ids : FateFits(i))'
BY FateKnown, PTL

\* How the ledger sees a step.
LEMMA Becomes ==
  ASSUME NEW S, NEW f, NEW L,
         \A i \in Ids : FateAt(i)' = IF i \in S THEN f ELSE IF i \in L THEN "lost" ELSE FateAt(i)
  PROVE  Ledger!Become(S, f, L)
BY DEF Ledger!Become

LEMMA AreThose ==
  /\ \A f : Ledger!Are(f) = {i \in Ids : FateAt(i) = f}
  /\ \A c : Ledger!Of(c) = {i \in Ids : CodeAt(i) = c}
BY DEF Ledger!Are, Ledger!Of

LEMMA CodesStay ==
  ASSUME UNCHANGED stream
  PROVE  UNCHANGED [i \in Ids |-> CodeAt(i)]
BY DEF CodeAt

\* A step that leaves the stream, the rows and what is unread alone, and nobody's
\* hands fuller or emptier, leaves every fate alone.
LEMMA FateStays ==
  ASSUME UNCHANGED <<stream, rows, NextUnread>>, NEW i,
         InHand(i)' <=> InHand(i), ToBeCounted(i)' <=> ToBeCounted(i)
  PROVE  FateAt(i)' = FateAt(i)
BY DEF FateAt

\* The same for a single click that was delivered before.
LEMMA FateSame ==
  ASSUME Placed, NEW i \in Ids, FateFits(i), FateFits(i)', rows'[i] = rows[i],
         i < NextUnread, i < NextUnread',
         InHand(i)' <=> InHand(i), ToBeCounted(i)' <=> ToBeCounted(i)
  PROVE  FateAt(i)' = FateAt(i)
<1>1. CASE rows[i] > 0
  BY <1>1 DEF FateFits
<1>2. CASE rows[i] = 0
  BY <1>2 DEF FateFits
<1>3. rows[i] \in Nat
  BY DEF Placed, TypeOK
<1> QED BY <1>1, <1>2, <1>3

LEMMA Quiet ==
  ASSUME UNCHANGED <<stream, count>>, \A i \in Ids : FateAt(i)' = FateAt(i)
  PROVE  UNCHANGED Ledger!ledgerVars
<1>1. UNCHANGED [i \in Ids |-> CodeAt(i)]
  BY CodesStay
<1>2. UNCHANGED [i \in Ids |-> FateAt(i)]
  OBVIOUS
<1> QED BY <1>1, <1>2 DEF Ledger!ledgerVars

\* What one worker holds and is to count decides what changes for a click.
LEMMA OneWorker ==
  ASSUME Placed, NEW w \in Workers, NEW r, workers' = [workers EXCEPT ![w] = r],
         NEW i \in Ids, i \notin workers[w].batch, i \notin r.batch,
         CodeAt(i)' = CodeAt(i), i \in 1..Len(stream), i \in 1..Len(stream')
  PROVE  (InHand(i)' <=> InHand(i)) /\ (ToBeCounted(i)' <=> ToBeCounted(i))
<1>1. /\ \A v \in Workers : v # w => workers'[v] = workers[v]
      /\ workers'[w] = r
  BY DEF Placed, TypeOK
<1>2. stream'[i].code = stream[i].code
  <2>1. Len(stream) \in Nat /\ ~(i > Len(stream)) /\ i <= Len(stream') /\ i <= Len(stream)
    BY DEF Placed, TypeOK
  <2> QED BY <2>1 DEF CodeAt
<1>3. \A v \in Workers : (i \in Kept(workers[v].batch))' <=>
        i \in workers'[v].batch /\ stream[i].code \notin NumericCodes
  BY <1>2 DEF Kept, HasCode
<1>4. \A v \in Workers : i \in Kept(workers[v].batch) <=>
        i \in workers[v].batch /\ stream[i].code \notin NumericCodes
  BY DEF Kept, HasCode
<1>5. InHand(i)' <=> InHand(i)
  BY <1>1, <1>3, <1>4 DEF InHand
<1>6. ToBeCounted(i)' <=> ToBeCounted(i)
  BY <1>1, <1>2 DEF ToBeCounted
<1> QED BY <1>5, <1>6

\* A worker that neither inserts nor counts may come and go.
LEMMA IdleHands ==
  ASSUME Placed, NEW w \in Workers, NEW r, workers' = [workers EXCEPT ![w] = r],
         workers[w].pc # "insert", r.pc # "insert", workers[w].due = {}, r.due = {},
         UNCHANGED <<stream, rows, NextUnread>>
  PROVE  \A i \in Ids : FateAt(i)' = FateAt(i)
<1> SUFFICES ASSUME NEW i \in Ids
             PROVE  (InHand(i)' <=> InHand(i)) /\ (ToBeCounted(i)' <=> ToBeCounted(i))
  BY FateStays
<1>1. /\ \A v \in Workers : v # w => workers'[v] = workers[v]
      /\ workers'[w] = r
  BY DEF Placed, TypeOK
<1>2. InHand(i)' <=> InHand(i)
  BY <1>1 DEF InHand, Kept, HasCode
<1>3. ToBeCounted(i)' <=> ToBeCounted(i)
  BY <1>1 DEF ToBeCounted
<1> QED BY <1>2, <1>3

\* Nothing that was not delivered is in anybody's hands.
LEMMA UnreadAlone ==
  ASSUME Placed, NEW i \in Ids, i >= NextUnread
  PROVE  /\ \A w \in Workers : i \notin workers[w].batch
         /\ ~InHand(i) /\ ~ToBeCounted(i)
<1>1. i > last /\ last \in Nat
  BY Unread DEF Placed, TypeOK, Ids
<1>2. \A w \in Workers : i \notin workers[w].batch
  BY <1>1 DEF Placed, ReadOnce
<1> QED BY <1>2 DEF InHand, ToBeCounted, Kept

LEMMA LedgerInit == Init => Ledger!Init
<1> SUFFICES ASSUME Init PROVE Ledger!Init
  OBVIOUS
<1>1. Placed /\ Len(stream) = 0
  BY PlacedInit DEF Init
<1>2. \A i \in Ids : i > Len(stream) /\ FateAt(i) = "new" /\ CodeAt(i) = None
  BY <1>1, FateKnown, BoundAssumption DEF Ids, FateFits, CodeAt
<1> QED BY <1>2 DEF Ledger!Init, Init

\* A new click waits; what the stream could not keep is lost, from its old end.
LEMMA LedgerTrack ==
  ASSUME Placed, Placed', NEW c \in Codes, TrackClick(c)
  PROVE  Ledger!Next
<1> DEFINE i == Len(stream) + 1
           L == {j \in NextUnread..Len(stream) : j < NextUnread'}
<1>1. /\ Len(stream) \in Nat /\ Len(stream) < MaxClicks /\ i \in Ids
      /\ NextUnread \in 1..(Len(stream) + 1) /\ last \in Nat
  <2>1. Len(stream) \in Nat /\ Len(stream) < MaxClicks
    BY Unread DEF TrackClick
  <2>2. i \in Ids
    BY <2>1, BoundAssumption DEF Ids
  <2> QED BY <2>1, <2>2, Unread DEF Placed, TypeOK
<1>2. /\ Len(stream') = Len(stream) + 1
      /\ stream'[i].code = c
      /\ \A j \in 1..Len(stream) : stream'[j] = stream[j]
  <2>1. PICK click \in Extracted(c) : stream' = Append(stream, click)
    BY DEF TrackClick
  <2>2. click.code = c /\ click.fits \in BOOLEAN
        /\ click = [code |-> click.code, fits |-> click.fits]
    <3>1. PICK f \in {TRUE, "misfit" \notin Faults} : click = [code |-> c, fits |-> f]
      BY DEF Extracted
    <3>2. f \in BOOLEAN
      OBVIOUS
    <3> QED BY <3>1, <3>2
  <2>3. click \in Click
    BY <2>2 DEF Click
  <2> QED BY <2>1, <2>2, <2>3 DEF Placed, TypeOK
<1>3. UNCHANGED <<last, rows, workers, count>>
  BY DEF TrackClick
<1>4. NextUnread' \in NextUnread..Len(stream')
  <2>1. first' \in first..Len(stream') /\ first \in Nat /\ first' \in Int
    BY <1>1, <1>2 DEF TrackClick, Placed, TypeOK
  <2> QED BY <1>1, <1>2, <1>3, <2>1 DEF NextUnread
<1>5. \A j \in Ids : FateAt(j)' = IF j \in {i} THEN "waiting"
                                  ELSE IF j \in L THEN "lost" ELSE FateAt(j)
  <2> SUFFICES ASSUME NEW j \in Ids
               PROVE  FateAt(j)' = IF j \in {i} THEN "waiting"
                                   ELSE IF j \in L THEN "lost" ELSE FateAt(j)
    OBVIOUS
  <2>0. FateFits(j) /\ FateFits(j)' /\ j \in Nat \ {0}
    BY FateKnown, FateKnownNext, BoundAssumption DEF Ids
  <2>1. CASE j > Len(stream)
    <3>1. CASE j = i
      BY <1>1, <1>2, <1>4, <2>0, <3>1 DEF FateFits
    <3>2. CASE j # i
      BY <1>1, <1>2, <2>0, <2>1, <3>2 DEF FateFits
    <3> QED BY <3>1, <3>2
  <2>2. CASE j \in NextUnread..Len(stream)
    <3>1. j # i /\ j >= NextUnread /\ rows[j] = 0
      BY <1>1, <2>2, Unread
    <3>2. ~InHand(j)'
      <4>1. \A w \in Workers : j \notin workers'[w].batch
        BY <1>3, <3>1, UnreadAlone
      <4> QED BY <4>1 DEF InHand, Kept
    <3>3. CASE j < NextUnread'
      BY <1>3, <2>0, <2>2, <3>1, <3>2, <3>3 DEF FateFits
    <3>4. CASE ~(j < NextUnread')
      <4>1. FateAt(j) = "waiting"
        BY <2>0, <2>2 DEF FateFits
      <4>2. j \in NextUnread'..Len(stream')
        BY <1>1, <1>2, <1>4, <2>2, <3>4
      <4>3. FateAt(j)' = "waiting"
        BY <2>0, <4>2 DEF FateFits
      <4> QED BY <3>1, <3>4, <4>1, <4>3
    <3> QED BY <3>3, <3>4
  <2>3. CASE j < NextUnread
    <3>1. j \in 1..Len(stream) /\ j # i /\ j \notin L /\ j < NextUnread'
          /\ j \notin NextUnread'..Len(stream') /\ ~(j > Len(stream')) /\ ~(j > Len(stream))
          /\ j \notin NextUnread..Len(stream)
      BY <1>1, <1>2, <1>4, <2>0, <2>3
    <3>2. stream'[j] = stream[j]
      BY <1>2, <3>1
    <3>3. InHand(j)' <=> InHand(j)
      BY <1>3, <3>2 DEF InHand, Kept, HasCode
    <3>4. ToBeCounted(j)' <=> ToBeCounted(j)
      BY <1>3, <3>2 DEF ToBeCounted
    <3>5. FateAt(j)' = FateAt(j)
      BY <1>3, <2>0, <2>3, <3>1, <3>3, <3>4, FateSame
    <3> QED BY <3>1, <3>5
  <2> QED BY <1>1, <2>0, <2>1, <2>2, <2>3
<1>6. Ledger!Become({i}, "waiting", L)
  <2> HIDE DEF i, L
  <2> QED BY <1>5, Becomes
<1>7. Ledger!Are("waiting") = NextUnread..Len(stream)
      /\ Ledger!Are("new") = {j \in Ids : j > Len(stream)}
  BY FateKnown, Unread, AreThose DEF FateFits
<1>8. L \in SUBSET Ledger!Are("waiting") /\ Ledger!Oldest(L)
  BY <1>1, <1>4, <1>7 DEF Ledger!Oldest
<1>9. [j \in Ids |-> CodeAt(j)]' = [[j \in Ids |-> CodeAt(j)] EXCEPT ![i] = c]
  <2>1. \A j \in Ids : CodeAt(j)' = IF j = i THEN c ELSE CodeAt(j)
    <3> SUFFICES ASSUME NEW j \in Ids PROVE CodeAt(j)' = IF j = i THEN c ELSE CodeAt(j)
      OBVIOUS
    <3>1. j \in Nat \ {0}
      BY BoundAssumption DEF Ids
    <3> QED BY <1>1, <1>2, <3>1 DEF CodeAt
  <2> HIDE DEF i
  <2> QED BY <2>1
<1>10. [j \in Ids |-> FateAt(j)][i] = "new" /\ \A j \in Ledger!Are("new") : i <= j
  <2>1. FateAt(i) = "new"
    BY <1>1, FateKnown DEF FateFits
  <2>2. \A j \in Ids : j > Len(stream) => i <= j
    BY <1>1, BoundAssumption DEF Ids
  <2> QED BY <1>1, <1>7, <2>1, <2>2
<1>11. Ledger!Track(i, c)
  <2> HIDE DEF i, L
  <2> QED BY <1>3, <1>6, <1>8, <1>9, <1>10 DEF Ledger!Track
<1> QED BY <1>1, <1>11 DEF Ledger!Next

\* The oldest unread clicks are taken up, or lost with the reply.
LEMMA LedgerRead ==
  ASSUME Placed, Placed', NEW w \in Workers, ReadBatch(w)
  PROVE  Ledger!Next
<1>1. PICK S : S = NextUnread..last'
  OBVIOUS
<1>2. PICK H : H = {j \in S : CodeAt(j) \notin NumericCodes}
  OBVIOUS
<1>3. PICK r : r = [pc |-> IF Kept(S) = {} THEN "ack" ELSE "insert", batch |-> S, due |-> {}]
  OBVIOUS
<1>4. /\ UNCHANGED <<stream, first, rows, count>>
      /\ workers[w].pc = "idle" /\ workers[w].batch = {} /\ workers[w].due = {}
      /\ workers' = [workers EXCEPT ![w] = r] \/ workers' = workers
  <2>1. UNCHANGED <<stream, first, rows, count>> /\ workers[w].pc = "idle"
        /\ (workers' = [workers EXCEPT ![w] = r] \/ workers' = workers)
    BY <1>1, <1>3 DEF ReadBatch
  <2> QED BY <2>1 DEF Placed, StagesAgree
<1>e. PICK e : e = last'
  OBVIOUS
<1>5. /\ e \in NextUnread..Len(stream) /\ NextUnread \in Nat /\ e \in Nat
      /\ NextUnread' = e + 1 /\ Len(stream) \in Nat
  <2>1. e \in NextUnread..Len(stream) /\ NextUnread \in Nat /\ Len(stream) \in Nat
    BY <1>e, ReadType, Unread DEF Placed
  <2>2. first \in Nat /\ first <= NextUnread
    BY Unread DEF Placed, TypeOK
  <2>3. NextUnread' = IF e < first THEN first ELSE e + 1
    BY <1>e, <1>4 DEF NextUnread
  <2> QED BY <2>1, <2>2, <2>3
<1>6. \A j \in Ids : FateFits(j) /\ FateFits(j)' /\ j \in Nat \ {0}
  BY FateKnown, FateKnownNext, BoundAssumption DEF Ids
<1>s. S = NextUnread..e
  BY <1>e, <1>1
<1>7. \A j \in S : /\ j \in Ids /\ CodeAt(j) = stream[j].code /\ rows[j] = 0
                   /\ FateAt(j) = "waiting"
                   /\ \A v \in Workers : j \notin workers[v].batch
  <2> SUFFICES ASSUME NEW j \in S
               PROVE  /\ j \in Ids /\ CodeAt(j) = stream[j].code /\ rows[j] = 0
                      /\ FateAt(j) = "waiting"
                      /\ \A v \in Workers : j \notin workers[v].batch
    OBVIOUS
  <2>1. j \in NextUnread..Len(stream) /\ j <= Len(stream) /\ ~(j > Len(stream)) /\ j >= NextUnread
    BY <1>s, <1>5
  <2>2. j \in Ids /\ rows[j] = 0
    BY <2>1, Unread
  <2>3. \A v \in Workers : j \notin workers[v].batch
    BY <2>1, <2>2, UnreadAlone
  <2> QED BY <1>6, <2>1, <2>2, <2>3 DEF CodeAt, FateFits
<1>8. Kept(S) = H /\ Kept(S)' = H
  BY <1>2, <1>4, <1>7 DEF Kept, HasCode
<1>9. PICK T \in {{}, H} : \A j \in S : InHand(j)' <=> j \in T
  <2>1. CASE workers' = workers
    <3>1. \A j \in S : ~InHand(j)'
      BY <1>7, <2>1 DEF InHand, Kept
    <3> QED BY <3>1
  <2>2. CASE workers' = [workers EXCEPT ![w] = r]
    <3>1. workers'[w] = r /\ \A v \in Workers : v # w => workers'[v] = workers[v]
      BY <2>2 DEF Placed, TypeOK
    <3>2. ASSUME NEW j \in S PROVE InHand(j)' <=> j \in H
      <4>1. \A v \in Workers : v # w => j \notin Kept(workers[v].batch)'
        BY <1>7, <3>1 DEF Kept
      <4>2. InHand(j)' <=> workers'[w].pc = "insert" /\ j \in Kept(workers[w].batch)'
        BY <4>1 DEF InHand
      <4>3. r.batch = S /\ (r.pc = "insert" <=> H # {})
        BY <1>3, <1>8
      <4>4. Kept(workers[w].batch)' = {i \in S : HasCode(i)'}
        BY <3>1, <4>3 DEF Kept
      <4>5. {i \in S : HasCode(i)'} = H
        BY <1>8 DEF Kept
      <4> QED BY <3>1, <4>2, <4>3, <4>4, <4>5
    <3> QED BY <3>2
  <2> QED BY <1>4, <2>1, <2>2
<1>10. \A j \in Ids : FateAt(j)' = IF j \in T THEN "held"
                                   ELSE IF j \in S THEN "lost" ELSE FateAt(j)
  <2> SUFFICES ASSUME NEW j \in Ids
               PROVE  FateAt(j)' = IF j \in T THEN "held"
                                   ELSE IF j \in S THEN "lost" ELSE FateAt(j)
    OBVIOUS
  <2>0. FateFits(j) /\ FateFits(j)' /\ j \in Nat \ {0} /\ T \subseteq S
    BY <1>2, <1>6
  <2>9. j \in Nat /\ j >= 1
    BY <2>0
  <2>1. CASE j \in S
    <3>1. j < NextUnread' /\ rows'[j] = 0
      BY <1>s, <1>4, <1>5, <1>7, <2>1
    <3> QED BY <1>9, <2>0, <2>1, <3>1 DEF FateFits
  <2>2. CASE j < NextUnread
    <3>1. /\ j \in 1..Len(stream) /\ CodeAt(j)' = CodeAt(j) /\ j \notin S
          /\ j < NextUnread' /\ rows'[j] = rows[j] /\ Len(stream') = Len(stream)
      <4>1. j \in 1..Len(stream) /\ j < NextUnread'
        BY <1>5, <2>9, <2>2
      <4>2. j \notin S
        BY <1>s, <1>5, <2>0, <2>2
      <4> QED BY <1>4, <4>1, <4>2 DEF CodeAt
    <3>2. (InHand(j)' <=> InHand(j)) /\ (ToBeCounted(j)' <=> ToBeCounted(j))
      <4>1. CASE workers' = workers
        BY <1>4, <4>1 DEF InHand, ToBeCounted, Kept, HasCode
      <4>2. CASE workers' = [workers EXCEPT ![w] = r]
        <5>1. j \notin workers[w].batch /\ j \notin r.batch
          BY <1>3, <1>4, <3>1
        <5> QED BY <3>1, <4>2, <5>1, OneWorker
      <4> QED BY <1>4, <4>1, <4>2
    <3> QED BY <2>0, <2>2, <3>1, <3>2, FateSame
  <2>3. CASE j > e
    <3>1. j \notin S /\ ~(j < NextUnread') /\ ~(j < NextUnread)
      <4>1. j \notin NextUnread..e /\ ~(j < e + 1) /\ ~(j < NextUnread)
        BY <1>5, <2>9, <2>3
      <4> QED BY <1>s, <1>5, <4>1
    <3>2. j > Len(stream') <=> j > Len(stream)
      BY <1>4
    <3>3. j \in NextUnread'..Len(stream') <=> j \in NextUnread..Len(stream)
      BY <1>4, <1>5, <2>0, <2>3
    <3>4. j > Len(stream) \/ j \in NextUnread..Len(stream)
      BY <1>5, <2>0, <2>3
    <3>5. FateAt(j)' = FateAt(j)
      BY <2>0, <3>2, <3>3, <3>4 DEF FateFits
    <3> QED BY <2>0, <3>1, <3>5
  <2> QED BY <1>s, <1>5, <2>0, <2>1, <2>2, <2>3
<1>11. Ledger!Become(T, "held", S)
  BY <1>10, Becomes
<1>12. Ledger!Are("waiting") = NextUnread..Len(stream)
  BY FateKnown, Unread, AreThose DEF FateFits
<1>13. S \in SUBSET Ledger!Are("waiting") /\ Ledger!Oldest(S)
  BY <1>s, <1>5, <1>12 DEF Ledger!Oldest
<1>14. T \in {{}, {i \in S : [j \in Ids |-> CodeAt(j)][i] \notin NumericCodes}}
  BY <1>2, <1>7, <1>9
<1>15. UNCHANGED [i \in Ids |-> CodeAt(i)]
  BY <1>4, CodesStay
<1> QED BY <1>4, <1>11, <1>13, <1>14, <1>15 DEF Ledger!Next, Ledger!TakeUp

RowsOnlyOf(K) == \A j \in Ids : j \notin K => rows'[j] = rows[j]

\* A worker that ends an INSERT, in whatever way, changes the fates of the clicks it
\* held alone.
LEMMA OutOfHands ==
  ASSUME Placed, Placed', NEW w \in Workers, NEW K, K = Kept(workers[w].batch),
         workers[w].pc = "insert", stream' = stream, NextUnread' = NextUnread,
         RowsOnlyOf(K), NEW r, workers' = [workers EXCEPT ![w] = r],
         r.pc # "insert", r.batch \subseteq workers[w].batch
  PROVE  /\ \A j \in Ids : j \notin K => FateAt(j)' = FateAt(j)
         /\ \A j \in K : /\ j \in Ids /\ j < NextUnread' /\ FateAt(j) = "held" /\ ~InHand(j)'
                         /\ ToBeCounted(j)' <=> j \in r.batch /\ stream[j].code \in r.due
<1>1. workers'[w] = r /\ \A v \in Workers : v # w => workers'[v] = workers[v]
  BY DEF Placed, TypeOK
<1>2. \A j \in Ids : FateFits(j) /\ FateFits(j)' /\ rows[j] \in Nat
  BY FateKnown, FateKnownNext DEF Placed, TypeOK
<1>3. \A j \in workers[w].batch :
        /\ j \in Ids /\ j \in 1..Len(stream) /\ j < NextUnread /\ rows[j] = 0
        /\ \A v \in Workers : v # w => j \notin workers[v].batch
  <2> SUFFICES ASSUME NEW j \in workers[w].batch
               PROVE  /\ j \in Ids /\ j \in 1..Len(stream) /\ j < NextUnread /\ rows[j] = 0
                      /\ \A v \in Workers : v # w => j \notin workers[v].batch
    OBVIOUS
  <2>1. j \in Ids /\ j \in 1..Len(stream) /\ rows[j] = 0
    BY BatchInIds DEF Placed, StagesAgree
  <2>2. j \in 1..last /\ last \in Nat /\ last < NextUnread /\ NextUnread \in Nat
    BY Unread DEF Placed, ReadOnce, TypeOK
  <2>3. \A v \in Workers : v # w => j \notin workers[v].batch
    BY DEF Placed, ReadOnce
  <2> QED BY <2>1, <2>2, <2>3
<1>4. ASSUME NEW j \in K
      PROVE  /\ j \in Ids /\ j < NextUnread' /\ FateAt(j) = "held" /\ ~InHand(j)'
             /\ ToBeCounted(j)' <=> j \in r.batch /\ stream[j].code \in r.due
  <2>1. j \in workers[w].batch
    BY DEF Kept
  <2>2. InHand(j) /\ FateAt(j) = "held"
    BY <1>2, <1>3, <2>1 DEF InHand, FateFits
  <2>3. ~InHand(j)'
    BY <1>1, <1>3, <2>1 DEF InHand, Kept
  <2>4. ToBeCounted(j)' <=> j \in r.batch /\ stream[j].code \in r.due
    BY <1>1, <1>3, <2>1 DEF ToBeCounted
  <2> QED BY <1>3, <2>1, <2>2, <2>3, <2>4
<1>5. ASSUME NEW j \in Ids, j \notin K
      PROVE  FateAt(j)' = FateAt(j)
  <2>1. CASE j \in workers[w].batch
    <3>1. ~HasCode(j) /\ ~HasCode(j)'
      <4>1. j \notin Kept(workers[w].batch)
        BY <1>5
      <4>2. ~HasCode(j)
        BY <2>1, <4>1 DEF Kept
      <4> QED BY <4>2 DEF HasCode
    <3>2. ~InHand(j) /\ ~InHand(j)'
      BY <3>1 DEF InHand, Kept
    <3> QED BY <1>2, <1>3, <1>5, <2>1, <3>2 DEF FateFits, RowsOnlyOf
  <2>2. CASE j \notin workers[w].batch /\ j \in 1..Len(stream)
    <3>1. j \notin r.batch /\ Len(stream') = Len(stream) /\ CodeAt(j)' = CodeAt(j)
      BY <2>2 DEF CodeAt
    <3>2. (InHand(j)' <=> InHand(j)) /\ (ToBeCounted(j)' <=> ToBeCounted(j))
      BY <2>2, <3>1, OneWorker
    <3>3. rows'[j] = rows[j]
      BY <1>5 DEF RowsOnlyOf
    <3> QED BY <3>2, <3>3 DEF FateAt
  <2>3. CASE j \notin 1..Len(stream)
    <3>1. j > Len(stream)
      BY <2>3, BoundAssumption, Unread DEF Ids
    <3> QED BY <1>2, <3>1 DEF FateFits
  <2> QED BY <2>1, <2>2, <2>3
<1> QED BY <1>4, <1>5

\* A batch is stored, and then counted by the worker or by nobody, or it is lost.
LEMMA LedgerInsert ==
  ASSUME Placed, Placed', NEW w \in Workers, InsertClicks(w)
  PROVE  Ledger!Next
<1>1. PICK K : K = Kept(workers[w].batch)
  OBVIOUS
<1>2. PICK r : r = [pc |-> "count", batch |-> workers[w].batch, due |-> CodesOf(K)]
  OBVIOUS
<1>i. PICK q : q = IdleWorker
  OBVIOUS
<1>3. /\ UNCHANGED <<stream, NextUnread, count>> /\ workers[w].pc = "insert"
      /\ \/ workers' = [workers EXCEPT ![w] = r] /\ \A j \in K : rows'[j] = 1
         \/ workers' = [workers EXCEPT ![w] = q]
            /\ (rows' = rows \/ \A j \in K : rows'[j] = 1)
  <2>1. /\ UNCHANGED <<stream, NextUnread, count>> /\ workers[w].pc = "insert"
        /\ \/ workers' = [workers EXCEPT ![w] = r]
              /\ rows' = [i \in Ids |-> rows[i] + IF i \in K THEN 1 ELSE 0]
           \/ workers' = [workers EXCEPT ![w] = q]
              /\ \/ rows' = rows
                 \/ rows' = [i \in Ids |-> rows[i] + IF i \in K THEN 1 ELSE 0]
    BY <1>1, <1>2, <1>i DEF InsertClicks, Abandon, NextUnread
  <2>2. \A j \in K : j \in Ids /\ rows[j] = 0
    BY <1>1, <2>1, BatchInIds DEF Kept, Placed, StagesAgree
  <2>3. rows' = [i \in Ids |-> rows[i] + IF i \in K THEN 1 ELSE 0] => \A j \in K : rows'[j] = 1
    BY <2>2
  <2> QED BY <2>1, <2>3
<1>4. RowsOnlyOf(K)
  BY <1>1, InsertedRows DEF RowsOnlyOf
<1>5. /\ r.pc = "count" /\ r.batch = workers[w].batch /\ r.due = CodesOf(K)
      /\ q.pc = "idle" /\ q.batch = {} /\ q.due = {}
  BY <1>2, <1>i DEF IdleWorker
<1>6. \A j \in Ids : FateFits(j) /\ FateFits(j)'
  BY FateKnown, FateKnownNext
<1>7. ASSUME workers' = [workers EXCEPT ![w] = r], \A j \in K : rows'[j] = 1
      PROVE  K \subseteq Ledger!Are("held") /\ Ledger!Become(K, "stored", {})
  <2>0. /\ r.pc # "insert" /\ r.batch \subseteq workers[w].batch
        /\ stream' = stream /\ NextUnread' = NextUnread /\ workers[w].pc = "insert"
        /\ workers' = [workers EXCEPT ![w] = r]
    BY <1>3, <1>5, <1>7
  <2>1. /\ \A j \in Ids : j \notin K => FateAt(j)' = FateAt(j)
        /\ \A j \in K : /\ j \in Ids /\ j < NextUnread' /\ FateAt(j) = "held" /\ ~InHand(j)'
                        /\ ToBeCounted(j)' <=> j \in r.batch /\ stream[j].code \in r.due
    BY <1>1, <1>4, <2>0, OutOfHands
  <2>2. \A j \in K : ToBeCounted(j)'
    BY <1>1, <1>5, <2>1 DEF Kept, CodesOf
  <2>3. \A j \in K : FateAt(j)' = "stored"
    BY <1>6, <1>7, <2>1, <2>2 DEF FateFits
  <2>4. Ledger!Become(K, "stored", {})
    BY <2>1, <2>3, Becomes
  <2> QED BY <2>1, <2>4, AreThose
<1>8. ASSUME workers' = [workers EXCEPT ![w] = q],
             rows' = rows \/ \A j \in K : rows'[j] = 1
      PROVE  /\ K \subseteq Ledger!Are("held")
             /\ Ledger!Become(K, "settled", {}) \/ Ledger!Become({}, "stored", K)
  <2>0. /\ q.pc # "insert" /\ q.batch \subseteq workers[w].batch
        /\ stream' = stream /\ NextUnread' = NextUnread /\ workers[w].pc = "insert"
        /\ workers' = [workers EXCEPT ![w] = q]
    BY <1>3, <1>5, <1>8
  <2>1. /\ \A j \in Ids : j \notin K => FateAt(j)' = FateAt(j)
        /\ \A j \in K : /\ j \in Ids /\ j < NextUnread' /\ FateAt(j) = "held" /\ ~InHand(j)'
                        /\ ToBeCounted(j)' <=> j \in q.batch /\ stream[j].code \in q.due
    BY <1>1, <1>4, <2>0, OutOfHands
  <2>2. CASE rows' = rows
    <3>1. \A j \in K : FateAt(j)' = "lost"
      BY <1>5, <1>6, <2>1, <2>2 DEF FateFits
    <3>2. Ledger!Become({}, "stored", K)
      BY <2>1, <3>1, Becomes
    <3> QED BY <2>1, <3>2, AreThose
  <2>3. CASE \A j \in K : rows'[j] = 1
    <3>1. \A j \in K : FateAt(j)' = "settled"
      BY <1>5, <1>6, <2>1, <2>3 DEF FateFits
    <3>2. Ledger!Become(K, "settled", {})
      BY <2>1, <3>1, Becomes
    <3> QED BY <2>1, <3>2, AreThose
  <2> QED BY <1>8, <2>2, <2>3
<1>9. UNCHANGED [i \in Ids |-> CodeAt(i)]
  BY <1>3, CodesStay
<1> QED BY <1>3, <1>7, <1>8, <1>9 DEF Ledger!Next, Ledger!Store

\* A worker that counts settles what it is no longer to count.
LEMMA CountedOut ==
  ASSUME Placed, Placed', NEW w \in Workers, workers[w].pc = "count",
         UNCHANGED <<stream, rows, NextUnread>>,
         NEW r, workers' = [workers EXCEPT ![w] = r], r.pc # "insert",
         r.due \subseteq workers[w].due, r.due = {} \/ r.batch = workers[w].batch,
         NEW G, G = {j \in workers[w].batch : stream[j].code \in workers[w].due \ r.due}
  PROVE  G \subseteq Ledger!Are("stored") /\ Ledger!Become(G, "settled", {})
<1>1. workers'[w] = r /\ \A v \in Workers : v # w => workers'[v] = workers[v]
  BY DEF Placed, TypeOK
<1>2. \A j \in Ids : FateFits(j) /\ FateFits(j)' /\ rows[j] \in Nat
  BY FateKnown, FateKnownNext DEF Placed, TypeOK
<1>3. ASSUME NEW j \in G
      PROVE  j \in Ids /\ FateAt(j) = "stored" /\ FateAt(j)' = "settled"
  <2>1. j \in Ids /\ j \in workers[w].batch /\ stream[j].code \in workers[w].due
        /\ stream[j].code \notin r.due
    BY BatchInIds
  <2>2. stream[j].code \notin NumericCodes
    <3>1. stream[j].code \in CodesOf(Kept(workers[w].batch))
      BY <2>1 DEF Placed, StagesAgree
    <3> QED BY <3>1 DEF CodesOf, Kept, HasCode
  <2>3. rows[j] > 0
    BY <2>1, <2>2 DEF Placed, StagesAgree, Kept, HasCode
  <2>4. \A v \in Workers : v # w => j \notin workers[v].batch
    BY <2>1 DEF Placed, ReadOnce
  <2>5. ToBeCounted(j) /\ ~ToBeCounted(j)'
    BY <1>1, <2>1, <2>4 DEF ToBeCounted
  <2> QED BY <1>2, <2>1, <2>3, <2>5 DEF FateFits
<1>4. ASSUME NEW j \in Ids, j \notin G
      PROVE  FateAt(j)' = FateAt(j)
  <2>1. InHand(j)' <=> InHand(j)
    BY <1>1 DEF InHand, Kept, HasCode
  <2>2. j \in workers[w].batch /\ stream[j].code \in workers[w].due
          <=> j \in r.batch /\ stream[j].code \in r.due
    BY <1>4
  <2>3. ToBeCounted(j)' <=> ToBeCounted(j)
    BY <1>1, <2>2 DEF ToBeCounted
  <2> QED BY <2>1, <2>3, FateStays
<1>5. Ledger!Become(G, "settled", {})
  BY <1>3, <1>4, Becomes
<1> QED BY <1>3, <1>5, AreThose

\* Clicks of one link are counted, or those of several are given up.
LEMMA LedgerCounts ==
  ASSUME Placed, NEW c \in Codes, NEW S, NEW G,
         S \subseteq G, G \subseteq Ledger!Are("stored"), S \subseteq Ledger!Of(c),
         Ledger!Become(G, "settled", {}), UNCHANGED stream,
         count' = [count EXCEPT ![c] = @ + Cardinality(S)]
  PROVE  Ledger!Next
<1>1. S \union G = G /\ S \in SUBSET Ledger!Are("stored") /\ G \in SUBSET Ledger!Are("stored")
  OBVIOUS
<1>2. UNCHANGED [i \in Ids |-> CodeAt(i)]
  BY CodesStay
<1>3. Ledger!Become(S \union G, "settled", {})
  BY <1>1 DEF Ledger!Become
<1>4. Ledger!Count(c, S, G)
  <2>1. Ledger!Cardinality(S) = Cardinality(S)
    BY DEF Ledger!Cardinality, Cardinality
  <2> QED BY <1>2, <1>3, <2>1 DEF Ledger!Count
<1> QED BY <1>1, <1>4 DEF Ledger!Next

LEMMA LedgerGivesUp ==
  ASSUME Placed, NEW c \in Codes, NEW G, G \subseteq Ledger!Are("stored"),
         Ledger!Become(G, "settled", {}), UNCHANGED <<stream, count>>
  PROVE  Ledger!Next
<1>1. PICK S : S = {}
  OBVIOUS
<1>2. count' = [count EXCEPT ![c] = @ + Cardinality(S)]
  <2>1. Cardinality(S) = 0
    BY <1>1, FS_EmptySet
  <2> QED BY <2>1 DEF Placed, TypeOK
<1>3. S \subseteq Ledger!Of(c) /\ S \subseteq G /\ UNCHANGED stream
  BY <1>1
<1> QED BY <1>2, <1>3, LedgerCounts

LEMMA LedgerCount ==
  ASSUME Placed, Placed', NEW w \in Workers, NEW c \in Codes, CountCode(w, c)
  PROVE  Ledger!Next
<1>1. PICK S : S = OfCode(workers[w].batch, c)
  OBVIOUS
<1>2. PICK r : r = [pc |-> IF workers[w].due \ {c} = {} THEN "ack" ELSE "count",
                    batch |-> workers[w].batch, due |-> workers[w].due \ {c}]
  OBVIOUS
<1>3. PICK q : q = IdleWorker
  OBVIOUS
<1>4. /\ workers[w].pc = "count" /\ c \in workers[w].due
      /\ UNCHANGED <<stream, first, last, rows>>
      /\ \/ workers' = [workers EXCEPT ![w] = r]
            /\ count' = [count EXCEPT ![c] = @ + Cardinality(S)]
         \/ /\ workers' = [workers EXCEPT ![w] = q]
            /\ count' = count \/ count' = [count EXCEPT ![c] = @ + Cardinality(S)]
  BY <1>1, <1>2, <1>3 DEF CountCode, Abandon
<1>5. UNCHANGED <<stream, rows, NextUnread>>
  BY <1>4 DEF NextUnread
<1>6. /\ r.pc # "insert" /\ r.batch = workers[w].batch /\ r.due = workers[w].due \ {c}
      /\ q.pc # "insert" /\ q.due = {}
  BY <1>2, <1>3 DEF IdleWorker
<1>7. S \subseteq Ledger!Of(c)
  <2>1. \A j \in S : j \in Ids /\ CodeAt(j) = c
    <3> SUFFICES ASSUME NEW j \in S PROVE j \in Ids /\ CodeAt(j) = c
      OBVIOUS
    <3>1. j \in workers[w].batch /\ stream[j].code = c
      BY <1>1 DEF OfCode
    <3>2. j \in Ids /\ j \in 1..Len(stream) /\ Len(stream) \in Nat
      BY <3>1, BatchInIds DEF Placed, TypeOK
    <3>3. ~(j > Len(stream)) /\ j <= Len(stream)
      BY <3>2
    <3> QED BY <3>1, <3>2, <3>3 DEF CodeAt
  <2> QED BY <2>1, AreThose
<1>8. CASE workers' = [workers EXCEPT ![w] = r]
           /\ count' = [count EXCEPT ![c] = @ + Cardinality(S)]
  <2>1. S = {j \in workers[w].batch : stream[j].code \in workers[w].due \ r.due}
    BY <1>1, <1>4, <1>6 DEF OfCode
  <2>2. S \subseteq Ledger!Are("stored") /\ Ledger!Become(S, "settled", {})
    BY <1>4, <1>5, <1>6, <1>8, <2>1, CountedOut
  <2> QED BY <1>4, <1>7, <1>8, <2>2, LedgerCounts
<1>9. CASE workers' = [workers EXCEPT ![w] = q]
  <2>1. PICK G : G = {j \in workers[w].batch : stream[j].code \in workers[w].due \ q.due}
    OBVIOUS
  <2>2. G \subseteq Ledger!Are("stored") /\ Ledger!Become(G, "settled", {})
    BY <1>4, <1>5, <1>6, <1>9, <2>1, CountedOut
  <2>3. S \subseteq G
    BY <1>1, <1>4, <1>6, <2>1 DEF OfCode
  <2>4. CASE count' = count
    BY <1>4, <2>2, <2>4, LedgerGivesUp
  <2>5. CASE count' = [count EXCEPT ![c] = @ + Cardinality(S)]
    BY <1>4, <1>7, <2>2, <2>3, <2>5, LedgerCounts
  <2>6. count' = count \/ count' = [count EXCEPT ![c] = @ + Cardinality(S)]
    BY <1>4
  <2> QED BY <2>4, <2>5, <2>6
<1> QED BY <1>4, <1>8, <1>9

\* What a worker held when it crashed is lost, and what it was to count given up.
LEMMA LedgerCrash ==
  ASSUME Placed, Placed', NEW w \in Workers, CrashWorker(w)
  PROVE  Ledger!Next \/ UNCHANGED Ledger!ledgerVars
<1>1. PICK r : r = [pc |-> "down", batch |-> {}, due |-> {}]
  OBVIOUS
<1>2. /\ UNCHANGED <<stream, rows, count, first, last>>
      /\ workers' = [workers EXCEPT ![w] = r] /\ workers[w].pc # "down"
      /\ stream' = stream /\ NextUnread' = NextUnread
  BY <1>1 DEF CrashWorker, NextUnread
<1>3. r.pc = "down" /\ r.pc # "insert" /\ r.batch = {} /\ r.due = {}
      /\ r.batch \subseteq workers[w].batch /\ r.due \subseteq workers[w].due
  BY <1>1
<1>4. CASE workers[w].pc = "insert"
  <2>1. PICK K : K = Kept(workers[w].batch)
    OBVIOUS
  <2>2. RowsOnlyOf(K)
    BY <1>2 DEF RowsOnlyOf
  <2>3. /\ \A j \in Ids : j \notin K => FateAt(j)' = FateAt(j)
        /\ \A j \in K : /\ j \in Ids /\ j < NextUnread' /\ FateAt(j) = "held" /\ ~InHand(j)'
                        /\ ToBeCounted(j)' <=> j \in r.batch /\ stream[j].code \in r.due
    <3>1. /\ r.pc # "insert" /\ r.batch \subseteq workers[w].batch
          /\ stream' = stream /\ NextUnread' = NextUnread /\ workers[w].pc = "insert"
          /\ workers' = [workers EXCEPT ![w] = r]
      BY <1>2, <1>3, <1>4
    <3> QED BY <2>1, <2>2, <3>1, OutOfHands
  <2>4. \A j \in K : FateAt(j)' = "lost"
    <3> SUFFICES ASSUME NEW j \in K PROVE FateAt(j)' = "lost"
      OBVIOUS
    <3>1. FateFits(j) /\ FateFits(j)'
      BY <2>3, FateKnown, FateKnownNext
    <3> QED BY <1>2, <2>3, <3>1 DEF FateFits
  <2>5. Ledger!Become({}, "stored", K)
    BY <2>3, <2>4, Becomes
  <2>6. K \in SUBSET Ledger!Are("held")
    BY <2>3, AreThose
  <2>7. UNCHANGED [i \in Ids |-> CodeAt(i)]
    BY <1>2, CodesStay
  <2> QED BY <1>2, <2>5, <2>6, <2>7 DEF Ledger!Next, Ledger!Store
<1>5. CASE workers[w].due # {}
  <2>1. workers[w].pc = "count"
    BY <1>5 DEF Placed, StagesAgree
  <2>2. PICK c : c \in workers[w].due
    BY <1>5
  <2>3. c \in Codes
    BY <2>2 DEF Placed, TypeOK, Worker
  <2>4. PICK G : G = {j \in workers[w].batch : stream[j].code \in workers[w].due \ r.due}
    OBVIOUS
  <2>5. G \subseteq Ledger!Are("stored") /\ Ledger!Become(G, "settled", {})
    BY <1>2, <1>3, <2>1, <2>4, CountedOut
  <2> QED BY <1>2, <2>3, <2>5, LedgerGivesUp
<1>6. CASE workers[w].pc # "insert" /\ workers[w].due = {}
  <2>1. \A i \in Ids : FateAt(i)' = FateAt(i)
    BY <1>2, <1>3, <1>6, IdleHands
  <2> QED BY <1>2, <2>1, Quiet
<1> QED BY <1>4, <1>5, <1>6

\* Acknowledging and starting change nothing the ledger knows of.
LEMMA LedgerIdle ==
  ASSUME Placed, NEW w \in Workers, AckBatch(w) \/ StartWorker(w)
  PROVE  UNCHANGED Ledger!ledgerVars
<1>1. PICK q : q = IdleWorker
  OBVIOUS
<1>2. /\ UNCHANGED <<stream, rows, count, first>> /\ workers' = [workers EXCEPT ![w] = q]
      /\ workers[w].pc \in {"ack", "down"}
  BY <1>1 DEF AckBatch, StartWorker
<1>3. workers[w].pc # "insert" /\ workers[w].due = {}
  <2>1. workers[w].pc # "insert" /\ workers[w].pc # "count"
    BY <1>2
  <2> QED BY <2>1 DEF Placed, StagesAgree
<1>4. q.pc # "insert" /\ q.due = {}
  BY <1>1 DEF IdleWorker
<1>5. NextUnread' = NextUnread
  <2>1. CASE last' = last
    BY <1>2, <2>1 DEF NextUnread
  <2>2. CASE last' # last
    <3>1. last < first /\ last' = first - 1 /\ first \in Nat
      BY <2>2 DEF AckBatch, StartWorker, Placed, ReadOnce, TypeOK
    <3>2. PICK e : e = last'
      OBVIOUS
    <3>3. e < first
      BY <3>1, <3>2
    <3>4. NextUnread = first
      BY <3>1 DEF NextUnread
    <3>5. NextUnread' = IF e < first THEN first ELSE e + 1
      BY <1>2, <3>2 DEF NextUnread
    <3> QED BY <3>3, <3>4, <3>5
  <2> QED BY <2>1, <2>2
<1>6. \A i \in Ids : FateAt(i)' = FateAt(i)
  BY <1>2, <1>3, <1>4, <1>5, IdleHands
<1> QED BY <1>2, <1>6, Quiet

\* A stream that is lost takes what was unread with it.
LEMMA LedgerLose ==
  ASSUME Placed, Placed', LoseStream
  PROVE  Ledger!Next
<1>1. PICK S : S = NextUnread..Len(stream)
  OBVIOUS
<1>2. UNCHANGED <<stream, rows, count, workers, last>> /\ first' = Len(stream) + 1
  BY DEF LoseStream
<1>3. Len(stream) \in Nat /\ last \in 0..Len(stream) /\ NextUnread \in 1..(Len(stream) + 1)
  BY Unread DEF Placed, TypeOK
<1>4. NextUnread' = Len(stream) + 1
  <2>1. NextUnread' = IF last < Len(stream) + 1 THEN Len(stream) + 1 ELSE last + 1
    BY <1>2 DEF NextUnread
  <2> QED BY <1>3, <2>1
<1>5. ASSUME NEW j \in Ids
      PROVE  FateAt(j)' = IF j \in {} THEN "held" ELSE IF j \in S THEN "lost" ELSE FateAt(j)
  <2>1. FateFits(j) /\ FateFits(j)' /\ j \in Nat
    BY FateKnown, FateKnownNext, BoundAssumption DEF Ids
  <2>2. (InHand(j)' <=> InHand(j)) /\ (ToBeCounted(j)' <=> ToBeCounted(j))
    BY <1>2 DEF InHand, ToBeCounted, Kept, HasCode
  <2>3. CASE j \in S
    <3>1. j >= NextUnread /\ j < NextUnread' /\ rows'[j] = 0
      BY <1>1, <1>2, <1>3, <1>4, <2>1, <2>3, Unread
    <3>2. ~InHand(j)'
      BY <2>2, <3>1, UnreadAlone
    <3> QED BY <2>1, <2>3, <3>1, <3>2 DEF FateFits
  <2>4. CASE j < NextUnread
    <3>1. j \notin S /\ j < NextUnread' /\ rows'[j] = rows[j]
      BY <1>1, <1>2, <1>3, <1>4, <2>1, <2>4
    <3>2. FateAt(j)' = FateAt(j)
      BY <2>1, <2>2, <2>4, <3>1, FateSame
    <3> QED BY <3>1, <3>2
  <2>5. CASE j > Len(stream)
    <3>1. j \notin S /\ j > Len(stream')
      BY <1>1, <1>2, <1>3, <2>1, <2>5
    <3>2. FateAt(j)' = FateAt(j)
      BY <2>1, <2>5, <3>1 DEF FateFits
    <3> QED BY <3>1, <3>2
  <2> QED BY <1>1, <1>3, <2>1, <2>3, <2>4, <2>5
<1>6. Ledger!Become({}, "held", S)
  BY <1>5, Becomes
<1>7. Ledger!Are("waiting") = S
  BY <1>1, FateKnown, Unread, AreThose DEF FateFits
<1>8. S \in SUBSET Ledger!Are("waiting") /\ Ledger!Oldest(S)
  BY <1>7 DEF Ledger!Oldest
<1>9. UNCHANGED [i \in Ids |-> CodeAt(i)]
  BY <1>2, CodesStay
<1> QED BY <1>2, <1>6, <1>8, <1>9 DEF Ledger!Next, Ledger!TakeUp

\* A delete can only write back what its link's settled clicks cover.
LEMMA LedgerDelete ==
  ASSUME Placed, Balanced, NEW d \in Deleters,
         \/ \E c \in Codes : LoadForDelete(d, c)
         \/ CompareRow(d) \/ UpdateRow(d) \/ StopDelete(d)
  PROVE  Ledger!Next \/ UNCHANGED Ledger!ledgerVars
<1>1. UNCHANGED <<stream, rows, first, last, workers>>
  BY DEF LoadForDelete, CompareRow, UpdateRow, StopDelete
<1>2. \A i \in Ids : FateAt(i)' = FateAt(i)
  <2>1. UNCHANGED NextUnread
    BY <1>1 DEF NextUnread
  <2>2. \A i \in Ids : (InHand(i)' <=> InHand(i)) /\ (ToBeCounted(i)' <=> ToBeCounted(i))
    BY <1>1 DEF InHand, ToBeCounted, Kept, HasCode
  <2> QED BY <1>1, <2>1, <2>2, FateStays
<1>3. CASE count' = count
  BY <1>1, <1>2, <1>3, Quiet
<1>4. CASE count' # count
  <2>1. PICK c, n : c = deleters[d].code /\ n = deleters[d].snap
    OBVIOUS
  <2>2. UpdateRow(d) /\ deleters[d].pc # "idle" /\ count' = [count EXCEPT ![c] = n]
    BY <1>4, <2>1 DEF LoadForDelete, CompareRow, UpdateRow, StopDelete
  <2>3. c \in Codes /\ n \in Nat /\ n <= Cardinality(SettledOf(c))
    BY <2>1, <2>2 DEF Balanced, Placed, TypeOK
  <2>4. Ledger!Are("settled") \intersect Ledger!Of(c) = SettledOf(c)
    <3>1. ASSUME NEW i
          PROVE  i \in SettledOf(c) <=> i \in Ids /\ FateAt(i) = "settled" /\ CodeAt(i) = c
      <4>1. CASE i \in 1..Len(stream)
        <5>1. i \in Ids /\ i <= Len(stream) /\ ~(i > Len(stream)) /\ FateFits(i)
          BY <4>1, Unread, FateKnown, BoundAssumption DEF Ids
        <5>2. CodeAt(i) = stream[i].code
          BY <5>1 DEF CodeAt
        <5>3. i \in UncountedOf(c) <=> ToBeCounted(i) /\ stream[i].code = c
          BY DEF UncountedOf, OfCode, ToBeCounted
        <5> QED BY <4>1, <5>1, <5>2, <5>3 DEF SettledOf, StoredOf, FateFits
      <4>2. CASE i \notin 1..Len(stream)
        <5>1. i \notin SettledOf(c)
          BY <4>2 DEF SettledOf, StoredOf
        <5>2. i \in Ids => FateAt(i) = "new"
          BY <4>2, FateKnown, Unread, BoundAssumption DEF FateFits, Ids
        <5> QED BY <5>1, <5>2
      <4> QED BY <4>1, <4>2
    <3> QED BY <3>1, AreThose
  <2>5. IsFiniteSet(Ids) /\ Cardinality(Ids) \in Nat
    <3>1. 1 \in Int /\ MaxClicks \in Int
      BY BoundAssumption
    <3>2. IsFiniteSet(1..MaxClicks)
      BY <3>1, FS_Interval
    <3> QED BY <3>2, FS_CardinalityType DEF Ids
  <2>6. Cardinality(SettledOf(c)) \in Nat /\ Cardinality(SettledOf(c)) <= Cardinality(Ids)
    <3>1. SettledOf(c) \subseteq Ids
      BY <2>4, AreThose
    <3> QED BY <2>5, <3>1, FS_Subset, FS_CardinalityType
  <2>7. n \in 0..Cardinality(Ids)
    BY <2>3, <2>5, <2>6
  <2>8. \A T : Ledger!Cardinality(T) = Cardinality(T)
    BY DEF Ledger!Cardinality, Cardinality
  <2>9. UNCHANGED [i \in Ids |-> FateAt(i)] /\ UNCHANGED [i \in Ids |-> CodeAt(i)]
    BY <1>1, <1>2, CodesStay
  <2>10. Ledger!WriteBack(c, n)
    BY <2>2, <2>3, <2>4, <2>8, <2>9 DEF Ledger!WriteBack
  <2> QED BY <2>3, <2>7, <2>8, <2>10 DEF Ledger!Next
<1> QED BY <1>3, <1>4

LEMMA LedgerStep ==
  Placed /\ Placed' /\ Balanced /\ [Next]_vars => [Ledger!Next]_(Ledger!ledgerVars)
<1> SUFFICES ASSUME Placed, Placed', Balanced, [Next]_vars
             PROVE  Ledger!Next \/ UNCHANGED Ledger!ledgerVars
  OBVIOUS
<1>1. CASE \E c \in Codes : TrackClick(c)
  BY <1>1, LedgerTrack
<1>2. CASE \E w \in Workers : ReadBatch(w)
  BY <1>2, LedgerRead
<1>3. CASE \E w \in Workers : InsertClicks(w)
  BY <1>3, LedgerInsert
<1>4. CASE \E w \in Workers : \E c \in Codes : CountCode(w, c)
  BY <1>4, LedgerCount
<1>5. CASE \E w \in Workers : CrashWorker(w)
  BY <1>5, LedgerCrash
<1>6. CASE \E w \in Workers : AckBatch(w) \/ StartWorker(w)
  BY <1>6, LedgerIdle
<1>7. CASE \E d \in Deleters : \/ \E c \in Codes : LoadForDelete(d, c)
                               \/ CompareRow(d) \/ UpdateRow(d) \/ StopDelete(d)
  BY <1>7, LedgerDelete
<1>8. CASE LoseStream
  BY <1>8, LedgerLose
<1>9. CASE UNCHANGED vars
  <2>1. UNCHANGED <<stream, rows, first, last, workers, count>>
    BY <1>9 DEF vars
  <2>2. UNCHANGED NextUnread
    BY <2>1 DEF NextUnread
  <2>3. \A i \in Ids : (InHand(i)' <=> InHand(i)) /\ (ToBeCounted(i)' <=> ToBeCounted(i))
    BY <2>1 DEF InHand, ToBeCounted, Kept, HasCode
  <2>4. \A i \in Ids : FateAt(i)' = FateAt(i)
    BY <2>1, <2>2, <2>3, FateStays
  <2> QED BY <2>1, <2>4, Quiet
<1> QED BY <1>1, <1>2, <1>3, <1>4, <1>5, <1>6, <1>7, <1>8, <1>9 DEF Next, Consume

\* Whatever fails, races, starts again and is written back, clicks and counters
\* move as the ledger allows: a click is taken up in its turn, stored and counted at
\* most once, and what became of it is final.
THEOREM LedgerImplemented == Spec => ImplementsLedger
<1>1. Spec => [](Placed /\ Balanced)
  BY BalancedHolds
<1> QED BY LedgerInit, LedgerStep, <1>1, PTL DEF Spec, ImplementsLedger, Ledger!Spec
=============================================================================

--------------------------- MODULE WorkEventsProofs ---------------------------
(* For any events, writers, indexing processes and bounds: no pending event is  *)
(* left without an indexing, the index holds nothing that was rolled back, and   *)
(* what is marked as indexed is in the index as the row has it.                  *)
EXTENDS WorkEvents, FiniteSetTheorems, SequenceTheorems, TLAPS

----------------------------------------------------------------------------
(* The inductive invariant.                                                 *)

\* What an indexing process holds: the rows as it loaded them, the keys it has
\* not indexed yet, and a result for each of the others.
IndexTask ==
  [pc : {"index", "mark"}, keys : SUBSET Keys, todo : SUBSET Keys,
   loaded : UNION {[K -> Row] : K \in SUBSET Keys}, results : Seq([key : Keys, ok : BOOLEAN])]

TaskShape(j) ==
  \/ j = NoTask
  \/ /\ j \in IndexTask
     /\ j.todo \subseteq j.keys
     /\ j.loaded \in [j.keys -> Row]
     /\ j.pc = "mark" => j.todo = {}
     /\ \A i \in 1..Len(j.results) : j.results[i].key \in j.keys \ j.todo
     /\ \A k \in j.keys \ j.todo : \E i \in 1..Len(j.results) : j.results[i].key = k

\* Every task in the broker was put there for an ingestion of its own.
Flushing(k) == {w \in Writers : writer[w].pc = "flush" /\ writer[w].key = k}
QueueIsCounted ==
  \A k \in Keys : IsFiniteSet(Flushing(k)) /\ queued[k] + Cardinality(Flushing(k)) <= version

\* What a process loaded was committed, and so is what the index holds.
LoadsCommitted ==
  /\ \A k \in Keys : row[k] # NoRow => row[k].payload.version \in committed[k]
  /\ \A t \in Tasks : \A k \in Indexing(t) : task[t].loaded[k].payload.version \in committed[k]

\* A transaction that asks for vectors has its task in the broker until it ends, or
\* the task was taken too early.
OpenIsQueued ==
  \A w \in Writers :
    writer[w].pc = "open" /\ writer[w].payload.hot
      => queued[writer[w].key] > 0 \/ forgotten[writer[w].key]

\* A process at work on a pending event has loaded it as pending: only then will it
\* write the status that it finds.
PendingIsLoaded ==
  \A k \in Keys :
    row[k].status = "pending" =>
      \/ queued[k] > 0 \/ forgotten[k]
      \/ \E t \in Tasks : k \in Indexing(t) /\ task[t].loaded[k].status = "pending"

OneAtATime ==
  \A k \in Keys : ~overlapped[k] =>
    \A t, u \in Tasks : k \in Indexing(t) /\ k \in Indexing(u) => t = u

\* A payload without the mark: what an ingestion brought.
Core(p) == <<p.version, p.hot, p.size>>

\* Only a process at work can mark an event as indexed.
IndexedWasLoaded ==
  \A k \in Keys, t \in Tasks :
    ~overlapped[k] /\ k \in Indexing(t) /\ row[k].status = "indexed"
      => task[t].loaded[k].status = "indexed"

\* A payload stored since the process loaded the row is in the broker.
ChangeIsQueued ==
  \A k \in Keys, t \in Tasks :
    ~overlapped[k] /\ ~forgotten[k] /\ k \in Indexing(t) /\ row[k] # NoRow
      /\ row[k].payload.hot /\ Core(row[k].payload) # Core(task[t].loaded[k].payload)
      => queued[k] > 0

\* Of an event reported as indexed chunks were sent, and they are in the index.
Found(k, p) ==
  /\ sent[k] # {} /\ sent[k] \subseteq 1..p.size
  /\ \A c \in sent[k] : points[k][c] = p.version
SentIsFound ==
  \A k \in Keys, t \in Tasks :
    ~overlapped[k] /\ k \in Indexing(t)
      => \A i \in 1..Len(task[t].results) :
           task[t].results[i].key = k /\ task[t].results[i].ok => Found(k, task[t].loaded[k].payload)

\* While nobody is at work on an event, an indexed one is found or will be indexed again.
IndexedIsFound ==
  \A k \in Keys :
    ~overlapped[k] /\ ~forgotten[k] /\ (\A t \in Tasks : k \notin Indexing(t))
      /\ row[k].status = "indexed" /\ row[k].payload.hot
      => queued[k] > 0 \/ Found(k, row[k].payload)

EventTypes ==
  /\ EventTypeOK
  /\ task \in [Tasks -> IndexTask \cup {NoTask}]
  /\ \A t \in Tasks : TaskShape(task[t])
  /\ QueueIsCounted

EventInv ==
  /\ EventTypes
  /\ LoadsCommitted /\ IndexHoldsCommitted
  /\ OpenIsQueued /\ PendingIsLoaded
  /\ OneAtATime /\ IndexedWasLoaded /\ ChangeIsQueued /\ SentIsFound /\ IndexedIsFound

----------------------------------------------------------------------------
(* Facts about the operators.                                               *)

LEMMA RowFacts ==
  /\ NoRow \notin Row /\ NoRow.status = "none" /\ NoRow \in RowOrNone
  /\ \A r \in RowOrNone : r # NoRow => r \in Row
  /\ \A r \in Row : /\ r.payload \in Payload /\ r.status \in Statuses
                    /\ r.payload.version \in Versions /\ r.payload.hot \in BOOLEAN
                    /\ r.payload.size \in Chunks
<1>1. NoRow.status = "none" /\ NoRow \in RowOrNone
  BY DEF NoRow, RowOrNone
<1>2. ASSUME NEW r \in Row
      PROVE /\ r.payload \in Payload /\ r.status \in Statuses
            /\ r.payload.version \in Versions /\ r.payload.hot \in BOOLEAN
            /\ r.payload.size \in Chunks
  BY DEF Row, Payload
<1>3. NoRow \notin Row
  BY <1>1, <1>2 DEF Statuses
<1> QED BY <1>1, <1>2, <1>3 DEF RowOrNone

\* What an UPDATE leaves: each column is the one written, or the one found.
LEMMA WrittenFacts ==
  ASSUME NEW now \in RowOrNone, NEW loaded \in RowOrNone, NEW payload \in Payload,
         NEW status \in Statuses
  PROVE  LET new == Written(now, loaded, payload, status) IN
           /\ new \in Row /\ new # NoRow
           /\ \/ new.payload = payload
              \/ now \in Row /\ now # NoRow /\ payload = loaded.payload /\ new.payload = now.payload
           /\ \/ new.status = status
              \/ now \in Row /\ now # NoRow /\ status = loaded.status /\ new.status = now.status
<1> DEFINE new == Written(now, loaded, payload, status)
<1>1. CASE now = NoRow
  <2>1. new = [payload |-> payload, status |-> status]
    BY <1>1 DEF Written
  <2> QED BY <2>1, RowFacts DEF Row
<1>2. CASE now # NoRow
  <2>1. now \in Row /\ now.payload \in Payload /\ now.status \in Statuses
    BY <1>2, RowFacts
  <2>2. new = [payload |-> IF payload = loaded.payload THEN now.payload ELSE payload,
               status  |-> IF status = loaded.status THEN now.status ELSE status]
    BY <1>2 DEF Written
  <2> QED BY <1>2, <2>1, <2>2, RowFacts DEF Row
<1> QED BY <1>1, <1>2

LEMMA MarkFacts ==
  ASSUME NEW p \in Payload, NEW status \in Statuses
  PROVE  /\ Marked(p, status) \in Payload
         /\ Core(Marked(p, status)) = Core(p)
         /\ Marked(p, status).version = p.version
         /\ Marked(p, status).hot = p.hot
         /\ Marked(p, status).size = p.size
BY DEF Marked, Payload, Core

\* Payloads that differ in nothing but the mark are found together.
LEMMA FoundByCore ==
  ASSUME NEW k, NEW p, NEW q, Core(p) = Core(q), Found(k, p)
  PROVE  Found(k, q)
BY DEF Core, Found

LEMMA WriterFacts ==
  ASSUME EventTypes, NEW w \in Writers
  PROVE  /\ writer[w] \in WriteType
         /\ writer[w].pc \in {"idle", "flush", "open"}
         /\ writer[w].pc # "idle" =>
              /\ writer[w] \in [pc : {"flush", "open"}, key : Keys, loaded : RowOrNone,
                                payload : Payload]
              /\ writer[w].key \in Keys /\ writer[w].loaded \in RowOrNone
              /\ writer[w].payload \in Payload /\ writer[w].payload.hot \in BOOLEAN
              /\ NewStatus(writer[w].payload) \in {"pending", "skipped"}
              /\ NewStatus(writer[w].payload) = "pending" => writer[w].payload.hot
              /\ NewStatus(writer[w].payload) \in Statuses
<1>1. writer[w] \in WriteType
  BY DEF EventTypes, EventTypeOK
<1>2. CASE writer[w] = NoWrite
  BY <1>1, <1>2 DEF NoWrite
<1>3. CASE writer[w] \in [pc : {"flush", "open"}, key : Keys, loaded : RowOrNone, payload : Payload]
  BY <1>1, <1>3 DEF NewStatus, Statuses, Payload
<1> QED BY <1>1, <1>2, <1>3 DEF WriteType

LEMMA TaskFacts ==
  ASSUME EventTypes, NEW t \in Tasks
  PROVE  /\ Indexing(t) \subseteq Keys
         /\ task[t].pc \in {"idle", "index", "mark"}
         /\ task[t].pc = "idle" => task[t] = NoTask /\ Indexing(t) = {}
         /\ task[t].pc # "idle" =>
              /\ task[t] \in IndexTask /\ task[t].keys \in SUBSET Keys
              /\ Indexing(t) = task[t].keys
              /\ task[t].todo \subseteq task[t].keys
              /\ task[t].loaded \in [task[t].keys -> Row]
              /\ task[t].results \in Seq([key : Keys, ok : BOOLEAN])
              /\ task[t].pc = "mark" => task[t].todo = {}
              /\ \A i \in 1..Len(task[t].results) :
                   task[t].results[i].key \in task[t].keys \ task[t].todo
              /\ \A k \in task[t].keys \ task[t].todo :
                   \E i \in 1..Len(task[t].results) : task[t].results[i].key = k
<1>1. TaskShape(task[t])
  BY DEF EventTypes
<1>2. CASE task[t] = NoTask
  BY <1>2 DEF NoTask, Indexing
<1>3. CASE task[t] # NoTask
  BY <1>1, <1>3 DEF TaskShape, IndexTask, Indexing
<1> QED BY <1>2, <1>3

----------------------------------------------------------------------------
(* Framing.                                                                 *)

\* The part of the invariant that is about processes and the index.
IndexInv ==
  /\ LoadsCommitted /\ IndexHoldsCommitted /\ PendingIsLoaded
  /\ OneAtATime /\ IndexedWasLoaded /\ ChangeIsQueued /\ SentIsFound /\ IndexedIsFound

LEMMA IndexKept ==
  ASSUME EventInv, UNCHANGED <<row, queued, points, sent, task, committed, forgotten, overlapped>>
  PROVE  IndexInv'
<1>1. \A t : Indexing(t)' = Indexing(t)
  BY DEF Indexing
<1>2. \A k, p : Found(k, p)' = Found(k, p)
  BY DEF Found
<1>3. LoadsCommitted' /\ IndexHoldsCommitted' /\ PendingIsLoaded' /\ OneAtATime' /\ IndexedWasLoaded'
  BY <1>1 DEF EventInv, LoadsCommitted, IndexHoldsCommitted, PendingIsLoaded, OneAtATime,
     IndexedWasLoaded
<1>4. ChangeIsQueued' /\ SentIsFound' /\ IndexedIsFound'
  BY <1>1, <1>2 DEF EventInv, ChangeIsQueued, SentIsFound, IndexedIsFound
<1> QED BY <1>3, <1>4 DEF IndexInv

\* How the count of ingestions covers the tasks in the broker.
LEMMA CountKept ==
  ASSUME EventTypes, NEW k \in Keys, Flushing(k)' \subseteq Flushing(k),
         queued'[k] \in Nat, queued'[k] <= queued[k], version' = version
  PROVE  IsFiniteSet(Flushing(k))' /\ queued'[k] + Cardinality(Flushing(k)') <= version'
<1>1. /\ IsFiniteSet(Flushing(k)) /\ queued[k] + Cardinality(Flushing(k)) <= version
      /\ queued[k] \in Nat /\ version \in Nat
  BY EventAssumption DEF EventTypes, QueueIsCounted, EventTypeOK
<1>2. IsFiniteSet(Flushing(k)') /\ Cardinality(Flushing(k)') <= Cardinality(Flushing(k))
  BY <1>1, FS_Subset
<1>3. Cardinality(Flushing(k)) \in Nat /\ Cardinality(Flushing(k)') \in Nat
  BY <1>1, <1>2, FS_CardinalityType
<1> QED BY <1>1, <1>2, <1>3

LEMMA CountLoads ==
  ASSUME EventTypes, NEW k \in Keys, NEW w, Flushing(k)' \subseteq Flushing(k) \cup {w},
         queued' = queued, version' = version + 1
  PROVE  IsFiniteSet(Flushing(k))' /\ queued'[k] + Cardinality(Flushing(k)') <= version'
<1>1. /\ IsFiniteSet(Flushing(k)) /\ queued[k] + Cardinality(Flushing(k)) <= version
      /\ queued[k] \in Nat /\ version \in Nat
  BY EventAssumption DEF EventTypes, QueueIsCounted, EventTypeOK
<1>2. /\ IsFiniteSet(Flushing(k) \cup {w})
      /\ Cardinality(Flushing(k) \cup {w}) <= Cardinality(Flushing(k)) + 1
  <2>1. Cardinality(Flushing(k)) \in Nat
    BY <1>1, FS_CardinalityType
  <2>2. /\ IsFiniteSet(Flushing(k) \cup {w})
        /\ Cardinality(Flushing(k) \cup {w})
             = IF w \in Flushing(k) THEN Cardinality(Flushing(k)) ELSE Cardinality(Flushing(k)) + 1
    BY <1>1, FS_AddElement
  <2> HIDE DEF Flushing
  <2> QED BY <2>1, <2>2
<1>3. IsFiniteSet(Flushing(k)') /\ Cardinality(Flushing(k)') <= Cardinality(Flushing(k) \cup {w})
  BY <1>2, FS_Subset
<1>4. /\ Cardinality(Flushing(k)) \in Nat /\ Cardinality(Flushing(k)') \in Nat
      /\ Cardinality(Flushing(k) \cup {w}) \in Nat
  BY <1>1, <1>2, <1>3, FS_CardinalityType
<1> QED BY <1>1, <1>2, <1>3, <1>4

LEMMA CountFlushes ==
  ASSUME EventTypes, NEW k \in Keys, NEW w \in Flushing(k), Flushing(k)' = Flushing(k) \ {w},
         queued'[k] \in {queued[k], queued[k] + 1}, version' = version
  PROVE  /\ IsFiniteSet(Flushing(k))' /\ queued'[k] + Cardinality(Flushing(k)') <= version'
         /\ queued[k] + 1 <= version
<1>1. /\ IsFiniteSet(Flushing(k)) /\ queued[k] + Cardinality(Flushing(k)) <= version
      /\ queued[k] \in Nat /\ version \in Nat
  BY EventAssumption DEF EventTypes, QueueIsCounted, EventTypeOK
<1>2. IsFiniteSet(Flushing(k)') /\ Cardinality(Flushing(k)') = Cardinality(Flushing(k)) - 1
  BY <1>1, FS_RemoveElement
<1>3. Cardinality(Flushing(k)) \in Nat /\ Cardinality(Flushing(k)') \in Nat
  BY <1>1, <1>2, FS_CardinalityType
<1> QED BY <1>1, <1>2, <1>3

----------------------------------------------------------------------------
(* The steps of a writer.                                                   *)

\* A transaction that has nothing locked yet begins, or ends.
LEMMA UnlockedStep ==
  ASSUME EventInv, NEW w \in Writers, NEW x \in WriteType,
         writer' = [writer EXCEPT ![w] = x], x.pc # "open", writer[w].pc # "open",
         \/ version' = version + 1 /\ version < MaxVersions
         \/ version' = version /\ x = NoWrite,
         UNCHANGED <<row, lock, queued, points, sent, task, sweeps, faults, ghosts>>
  PROVE  EventInv'
<1>1. /\ \A v \in Writers : writer'[v] = IF v = w THEN x ELSE writer[v]
      /\ writer' \in [Writers -> WriteType]
      /\ version' \in 0..MaxVersions
      /\ UNCHANGED <<row, lock, queued, points, sent, task, sweeps, faults, committed, forgotten,
                     overlapped>>
  BY EventAssumption DEF EventInv, EventTypes, EventTypeOK, ghosts
<1>2. EventTypeOK'
  BY <1>1 DEF EventInv, EventTypes, EventTypeOK
<1>3. QueueIsCounted'
  <2> SUFFICES ASSUME NEW k \in Keys
               PROVE  IsFiniteSet(Flushing(k))' /\ queued'[k] + Cardinality(Flushing(k)') <= version'
    BY DEF QueueIsCounted
  <2>1. Flushing(k)' \subseteq Flushing(k) \cup {w} /\ queued[k] \in Nat
    BY <1>1, EventAssumption DEF Flushing, EventInv, EventTypes, EventTypeOK
  <2>2. CASE version' = version + 1
    BY <1>1, <2>1, <2>2, CountLoads DEF EventInv
  <2>3. CASE version' = version /\ x = NoWrite
    <3>1. Flushing(k)' \subseteq Flushing(k)
      BY <1>1, <2>3 DEF Flushing, NoWrite
    <3> QED BY <1>1, <2>1, <2>3, <3>1, CountKept DEF EventInv
  <2> QED BY <2>2, <2>3
<1>4. OpenIsQueued'
  BY <1>1 DEF EventInv, OpenIsQueued
<1> QED BY <1>1, <1>2, <1>3, <1>4, IndexKept DEF EventInv, EventTypes, IndexInv

LEMMA LoadStep ==
  ASSUME EventInv, NEW w \in Writers, NEW k \in Keys,
         \/ \E hot \in BOOLEAN, size \in Chunks : LoadEvent(w, k, hot, size)
         \/ LoadEventKeepPayload(w, k)
  PROVE  EventInv'
<1> DEFINE X(p) == [pc |-> "flush", key |-> k, loaded |-> row[k], payload |-> p]
<1>1. row[k] \in RowOrNone /\ version \in Nat
  BY EventAssumption DEF EventInv, EventTypes, EventTypeOK
<1>2. /\ writer[w].pc = "idle" /\ version < MaxVersions /\ version' = version + 1
      /\ UNCHANGED <<row, lock, queued, points, sent, task, sweeps, faults, ghosts>>
  BY DEF LoadEvent, LoadEventKeepPayload
<1>3. \E p \in Payload : writer' = [writer EXCEPT ![w] = X(p)]
  <2>1. ASSUME NEW hot \in BOOLEAN, NEW size \in Chunks, LoadEvent(w, k, hot, size)
        PROVE  \E p \in Payload : writer' = [writer EXCEPT ![w] = X(p)]
    <3> DEFINE p == [version |-> version + 1, hot |-> hot, size |-> size, mark |-> "pending"]
    <3>1. version + 1 \in Versions
      BY <1>1, <1>2, EventAssumption DEF Versions
    <3>2. p \in Payload
      BY <3>1 DEF Payload, Statuses
    <3> QED BY <2>1, <3>2 DEF LoadEvent
  <2>2. CASE LoadEventKeepPayload(w, k)
    BY <1>1, <2>2, RowFacts DEF LoadEventKeepPayload
  <2> QED BY <2>1, <2>2
<1>4. PICK p \in Payload : writer' = [writer EXCEPT ![w] = X(p)]
  BY <1>3
<1>5. X(p) \in WriteType /\ X(p).pc = "flush"
  BY <1>1 DEF WriteType
<1> QED BY <1>2, <1>4, <1>5, UnlockedStep

LEMMA FlushFailsStep ==
  ASSUME EventInv, NEW w \in Writers, FlushFails(w)
  PROVE  EventInv'
<1>1. NoWrite \in WriteType /\ NoWrite.pc = "idle"
  BY DEF WriteType, NoWrite
<1> QED BY <1>1, UnlockedStep DEF FlushFails

\* The lock is free when a row is flushed, so the writer holds it alone.
LEMMA FlushStep ==
  ASSUME EventInv, NEW w \in Writers, NEW delivered \in BOOLEAN, FlushEvent(w, delivered)
  PROVE  EventInv'
<1> DEFINE hot == writer[w].payload.hot
           x == [writer[w] EXCEPT !.pc = "open"]
<1>a. /\ writer[w] \in [pc : {"flush", "open"}, key : Keys, loaded : RowOrNone, payload : Payload]
      /\ writer[w].pc = "flush" /\ writer[w].key \in Keys /\ hot \in BOOLEAN
  BY WriterFacts DEF EventInv, FlushEvent
<1>b. PICK k \in Keys : k = writer[w].key
  BY <1>a
<1>1. /\ writer[w] \in [pc : {"flush", "open"}, key : Keys, loaded : RowOrNone, payload : Payload]
      /\ writer[w].pc = "flush" /\ k = writer[w].key /\ hot \in BOOLEAN
  BY <1>a, <1>b
<1>2. /\ lock[k] = Nobody /\ lock' = [lock EXCEPT ![k] = w]
      /\ writer' = [writer EXCEPT ![w] = x]
      /\ delivered \/ (hot /\ faults < MaxFaults)
      /\ faults' = IF delivered THEN faults ELSE faults + 1
      /\ queued' = IF delivered /\ hot THEN [queued EXCEPT ![k] = @ + 1] ELSE queued
      /\ forgotten' = [forgotten EXCEPT ![k] = IF hot THEN ~delivered ELSE @]
      /\ UNCHANGED <<row, points, sent, task, version, sweeps, committed, overlapped>>
  BY <1>1 DEF FlushEvent, Enqueued
<1>3. /\ x \in WriteType /\ x.pc = "open" /\ x.key = k /\ x.payload.hot = hot
  BY <1>1 DEF WriteType
<1> HIDE DEF x, hot
<1>4. /\ \A v \in Writers : writer'[v] = IF v = w THEN x ELSE writer[v]
      /\ writer' \in [Writers -> WriteType]
      /\ queued \in [Keys -> 0..MaxVersions] /\ version \in 0..MaxVersions
      /\ faults \in 0..MaxFaults /\ MaxFaults \in Nat /\ MaxVersions \in Nat
      /\ \A l \in Keys : lock'[l] = IF l = k THEN w ELSE lock[l]
      /\ forgotten \in [Keys -> BOOLEAN]
  BY <1>2, <1>3, EventAssumption DEF EventInv, EventTypes, EventTypeOK
<1>5. \A l \in Keys : /\ queued'[l] = IF l = k /\ delivered /\ hot THEN queued[l] + 1 ELSE queued[l]
                      /\ queued'[l] \in Nat
                      /\ forgotten'[l] => forgotten[l] \/ (l = k /\ hot /\ ~delivered)
                      /\ forgotten[l] /\ ~forgotten'[l] => queued'[l] > 0
  BY <1>1, <1>2, <1>4
<1>6. QueueIsCounted' /\ queued[k] + 1 <= version
  <2>1. ASSUME NEW l \in Keys, l # k
        PROVE  IsFiniteSet(Flushing(l))' /\ queued'[l] + Cardinality(Flushing(l)') <= version'
    <3>1. Flushing(l)' \subseteq Flushing(l)
      BY <1>1, <1>3, <1>4, <2>1 DEF Flushing
    <3> QED BY <1>2, <1>4, <1>5, <2>1, <3>1, CountKept DEF EventInv
  <2>2. w \in Flushing(k) /\ Flushing(k)' = Flushing(k) \ {w}
    BY <1>1, <1>3, <1>4 DEF Flushing
  <2>3. /\ IsFiniteSet(Flushing(k))' /\ queued'[k] + Cardinality(Flushing(k)') <= version'
        /\ queued[k] + 1 <= version
    BY <1>1, <1>2, <1>5, <2>2, CountFlushes DEF EventInv
  <2> QED BY <2>1, <2>3 DEF QueueIsCounted
<1>7. EventTypeOK'
  <2>1. queued' \in [Keys -> 0..MaxVersions]
    BY <1>1, <1>2, <1>4, <1>6
  <2>2. faults' \in 0..MaxFaults
    BY <1>1, <1>2, <1>4
  <2>5. forgotten' \in [Keys -> BOOLEAN]
    <3> DEFINE lost == IF hot THEN ~delivered ELSE forgotten[k]
    <3>1. lost \in BOOLEAN
      BY <1>1, <1>4
    <3>2. forgotten' = [forgotten EXCEPT ![k] = lost]
      BY <1>2
    <3> HIDE DEF lost
    <3> QED BY <1>1, <1>4, <3>1, <3>2
  <2>3. \A l \in Keys, v \in Writers :
          lock'[l] = v <=> (writer'[v].pc = "open" /\ writer'[v].key = l)
    BY <1>1, <1>2, <1>3, <1>4, EventAssumption DEF EventInv, EventTypes, EventTypeOK
  <2>4. lock' \in [Keys -> Writers \cup {Nobody}]
    BY <1>1, <1>2 DEF EventInv, EventTypes, EventTypeOK
  <2> QED BY <1>2, <1>4, <2>1, <2>2, <2>3, <2>4, <2>5 DEF EventInv, EventTypes, EventTypeOK
<1>8. OpenIsQueued'
  <2> SUFFICES ASSUME NEW v \in Writers, writer'[v].pc = "open", writer'[v].payload.hot
               PROVE  queued'[writer'[v].key] > 0 \/ forgotten'[writer'[v].key]
    BY DEF OpenIsQueued
  <2>1. CASE v = w
    BY <1>1, <1>2, <1>3, <1>4, <2>1
  <2>2. CASE v # w
    <3>1. writer'[v] = writer[v] /\ writer[v].key \in Keys
      BY <1>4, <2>2, WriterFacts DEF EventInv
    <3> QED BY <1>4, <1>5, <3>1 DEF EventInv, OpenIsQueued
  <2> QED BY <2>1, <2>2
<1>9. /\ \A t : Indexing(t)' = Indexing(t)
      /\ \A l, p : Found(l, p)' = Found(l, p)
  BY <1>2 DEF Indexing, Found
<1>10. LoadsCommitted' /\ IndexHoldsCommitted' /\ OneAtATime' /\ IndexedWasLoaded' /\ SentIsFound'
  BY <1>2, <1>9 DEF EventInv, LoadsCommitted, IndexHoldsCommitted, OneAtATime, IndexedWasLoaded,
     SentIsFound
<1>11. PendingIsLoaded'
  BY <1>2, <1>4, <1>5, <1>9 DEF EventInv, PendingIsLoaded
<1>12. ChangeIsQueued' /\ IndexedIsFound'
  BY <1>2, <1>4, <1>5, <1>9 DEF EventInv, ChangeIsQueued, IndexedIsFound
<1> QED BY <1>2, <1>6, <1>7, <1>8, <1>10, <1>11, <1>12 DEF EventInv, EventTypes

\* A transaction ends: its lock is released, and with it nothing is open on the row.
LEMMA EndTransaction ==
  ASSUME EventInv, NEW w \in Writers, NEW k \in Keys, writer[w].pc = "open", writer[w].key = k,
         lock' = [lock EXCEPT ![k] = Nobody], writer' = [writer EXCEPT ![w] = NoWrite],
         row' \in [Keys -> RowOrNone], committed' \in [Keys -> SUBSET Versions],
         faults' \in 0..MaxFaults,
         UNCHANGED <<queued, points, sent, task, version, sweeps, forgotten, overlapped>>
  PROVE  EventTypes' /\ OpenIsQueued'
<1>1. NoWrite \in WriteType /\ NoWrite.pc = "idle"
  BY DEF NoWrite, WriteType
<1>2. /\ \A v \in Writers : writer'[v] = IF v = w THEN NoWrite ELSE writer[v]
      /\ writer' \in [Writers -> WriteType]
      /\ \A l \in Keys : lock'[l] = IF l = k THEN Nobody ELSE lock[l]
      /\ lock' \in [Keys -> Writers \cup {Nobody}]
  BY <1>1 DEF EventInv, EventTypes, EventTypeOK
<1>3. \A l \in Keys, v \in Writers : lock'[l] = v <=> (writer'[v].pc = "open" /\ writer'[v].key = l)
  <2> SUFFICES ASSUME NEW l \in Keys, NEW v \in Writers
               PROVE  lock'[l] = v <=> (writer'[v].pc = "open" /\ writer'[v].key = l)
    OBVIOUS
  <2>1. /\ lock[l] = v <=> (writer[v].pc = "open" /\ writer[v].key = l)
        /\ lock[k] = w /\ v # Nobody
    BY EventAssumption DEF EventInv, EventTypes, EventTypeOK
  <2>2. CASE v = w
    BY <1>1, <1>2, <2>1, <2>2
  <2>3. CASE v # w
    BY <1>2, <2>1, <2>3
  <2> QED BY <2>2, <2>3
<1>4. EventTypeOK'
  BY <1>2, <1>3 DEF EventInv, EventTypes, EventTypeOK
<1>5. QueueIsCounted'
  <2> SUFFICES ASSUME NEW l \in Keys
               PROVE  IsFiniteSet(Flushing(l))' /\ queued'[l] + Cardinality(Flushing(l)') <= version'
    BY DEF QueueIsCounted
  <2>1. Flushing(l)' \subseteq Flushing(l)
    BY <1>1, <1>2 DEF Flushing
  <2>2. queued[l] \in Nat /\ queued' = queued /\ version' = version
    BY EventAssumption DEF EventInv, EventTypes, EventTypeOK
  <2> QED BY <2>1, <2>2, CountKept DEF EventInv
<1>6. OpenIsQueued'
  BY <1>1, <1>2 DEF EventInv, OpenIsQueued
<1> QED BY <1>4, <1>5, <1>6 DEF EventInv, EventTypes

LEMMA RollbackStep ==
  ASSUME EventInv, NEW w \in Writers, RollbackEvent(w)
  PROVE  EventInv'
<1>1. writer[w].pc = "open" /\ writer[w].key \in Keys
  BY WriterFacts DEF EventInv, RollbackEvent
<1>2. PICK k \in Keys : k = writer[w].key
  BY <1>1
<1>3. faults' \in 0..MaxFaults /\ row' \in [Keys -> RowOrNone] /\ committed' \in [Keys -> SUBSET Versions]
  BY EventAssumption DEF RollbackEvent, EventInv, EventTypes, EventTypeOK, ghosts
<1>4. EventTypes' /\ OpenIsQueued'
  BY <1>1, <1>2, <1>3, EndTransaction DEF RollbackEvent, ghosts
<1>5. IndexInv'
  BY IndexKept DEF RollbackEvent, ghosts
<1> QED BY <1>4, <1>5 DEF EventInv, IndexInv

\* A commit brings the writer's columns, or keeps those of a commit in between: it
\* never marks an event as indexed, and what it leaves to be indexed is in the broker.
LEMMA CommitStep ==
  ASSUME EventInv, NEW w \in Writers, CommitEvent(w)
  PROVE  EventInv'
<1>1. /\ writer[w].pc = "open" /\ writer[w].key \in Keys /\ writer[w].loaded \in RowOrNone
      /\ writer[w].payload \in Payload /\ writer[w].payload.hot \in BOOLEAN
      /\ NewStatus(writer[w].payload) \in {"pending", "skipped"}
      /\ NewStatus(writer[w].payload) = "pending" => writer[w].payload.hot
      /\ NewStatus(writer[w].payload) \in Statuses
  BY WriterFacts DEF EventInv, CommitEvent
<1>2. PICK k \in Keys : k = writer[w].key
  BY <1>1
<1> DEFINE payload == writer[w].payload
           new == Written(row[k], writer[w].loaded, payload, NewStatus(payload))
<1>3. /\ row' = [row EXCEPT ![k] = new]
      /\ committed' = [committed EXCEPT ![k] = @ \cup {new.payload.version}]
      /\ lock' = [lock EXCEPT ![k] = Nobody]
      /\ writer' = [writer EXCEPT ![w] = NoWrite]
      /\ UNCHANGED <<queued, points, sent, task, version, sweeps, faults, forgotten, overlapped>>
  BY <1>2 DEF CommitEvent
<1>4. /\ row \in [Keys -> RowOrNone] /\ row[k] \in RowOrNone
      /\ committed \in [Keys -> SUBSET Versions] /\ faults \in 0..MaxFaults
  BY DEF EventInv, EventTypes, EventTypeOK
<1>5. /\ new \in Row /\ new # NoRow
      /\ new.payload = payload \/ (row[k] # NoRow /\ row[k] \in Row /\ new.payload = row[k].payload)
      /\ \/ new.status = NewStatus(payload)
         \/ row[k] # NoRow /\ row[k] \in Row /\ new.status = row[k].status
  BY <1>1, <1>4, WrittenFacts
<1>6. new.payload.version \in Versions /\ new \in RowOrNone
  BY <1>5, RowFacts DEF RowOrNone
<1>7. payload.hot => queued[k] > 0 \/ forgotten[k]
  BY <1>1, <1>2 DEF EventInv, OpenIsQueued
<1>8. /\ new.status = "pending" => queued[k] > 0 \/ forgotten[k] \/ row[k].status = "pending"
      /\ new.status = "indexed" => row[k].status = "indexed"
      /\ new.payload.hot => queued[k] > 0 \/ forgotten[k]
                            \/ (row[k] # NoRow /\ new.payload = row[k].payload)
  BY <1>1, <1>5, <1>7
<1> HIDE DEF new, payload
<1>9. /\ \A l \in Keys : row'[l] = IF l = k THEN new ELSE row[l]
      /\ row' \in [Keys -> RowOrNone]
      /\ \A l \in Keys : committed[l] \subseteq committed'[l]
      /\ new.payload.version \in committed'[k]
      /\ committed' \in [Keys -> SUBSET Versions]
  BY <1>3, <1>4, <1>6
<1>10. EventTypes' /\ OpenIsQueued'
  BY <1>1, <1>2, <1>3, <1>4, <1>9, EndTransaction
<1>11. /\ \A t : Indexing(t)' = Indexing(t)
       /\ \A l, p : Found(l, p)' = Found(l, p)
  BY <1>3 DEF Indexing, Found
<1>12. \A t \in Tasks : Indexing(t) \subseteq Keys
  BY TaskFacts DEF EventInv
<1>13. LoadsCommitted'
  BY <1>3, <1>9, <1>11, <1>12 DEF EventInv, LoadsCommitted
<1>14. IndexHoldsCommitted'
  BY <1>3, <1>9 DEF EventInv, IndexHoldsCommitted
<1>15. OneAtATime' /\ SentIsFound'
  BY <1>3, <1>11 DEF EventInv, OneAtATime, SentIsFound
<1>16. PendingIsLoaded'
  BY <1>3, <1>8, <1>9, <1>11 DEF EventInv, PendingIsLoaded
<1>17. IndexedWasLoaded'
  BY <1>3, <1>8, <1>9, <1>11 DEF EventInv, IndexedWasLoaded
<1>18. ChangeIsQueued'
  <2> SUFFICES ASSUME NEW l \in Keys, NEW t \in Tasks, ~overlapped[l], ~forgotten[l],
                      l \in Indexing(t), row'[l] # NoRow, row'[l].payload.hot,
                      Core(row'[l].payload) # Core(task[t].loaded[l].payload)
               PROVE  queued[l] > 0
    BY <1>3, <1>11 DEF ChangeIsQueued, Core
  <2>1. CASE l # k \/ (row[k] # NoRow /\ row'[l].payload = row[l].payload)
    BY <1>9, <2>1 DEF EventInv, ChangeIsQueued
  <2>2. CASE l = k /\ ~(row[k] # NoRow /\ row'[l].payload = row[l].payload)
    BY <1>8, <1>9, <2>2
  <2> QED BY <2>1, <2>2
<1>19. IndexedIsFound'
  <2> SUFFICES ASSUME NEW l \in Keys, ~overlapped[l], ~forgotten[l],
                      \A t \in Tasks : l \notin Indexing(t),
                      row'[l].status = "indexed", row'[l].payload.hot
               PROVE  queued[l] > 0 \/ Found(l, row'[l].payload)
    BY <1>3, <1>11 DEF IndexedIsFound, Found
  <2>1. CASE l # k
    BY <1>9, <2>1 DEF EventInv, IndexedIsFound
  <2>2. CASE l = k
    BY <1>8, <1>9, <2>2 DEF EventInv, IndexedIsFound
  <2> QED BY <2>1, <2>2
<1> QED BY <1>10, <1>13, <1>14, <1>15, <1>16, <1>17, <1>18, <1>19 DEF EventInv

----------------------------------------------------------------------------
(* The steps of an indexing process.                                        *)

LEMMA ShapeIsTyped ==
  ASSUME NEW j, TaskShape(j)
  PROVE  TaskTypeOK(j) /\ j \in IndexTask \cup {NoTask}
<1>1. CASE j = NoTask
  BY <1>1 DEF TaskTypeOK
<1>2. CASE j # NoTask
  <2>1. /\ j \in IndexTask /\ j.todo \subseteq j.keys /\ j.loaded \in [j.keys -> Row]
        /\ \A i \in 1..Len(j.results) : j.results[i].key \in j.keys \ j.todo
    BY <1>2, <1>1 DEF TaskShape
  <2>2. /\ j.pc \in {"index", "mark"} /\ j.keys \subseteq Keys
        /\ j.results \in Seq([key : Keys, ok : BOOLEAN])
    BY <2>1 DEF IndexTask
  <2>3. ASSUME NEW i \in 1..Len(j.results)
        PROVE  j.results[i] \in [key : j.keys \ j.todo, ok : BOOLEAN]
    <3>1. j.results[i] \in [key : Keys, ok : BOOLEAN]
      BY <2>2, ElementOfSeq
    <3>2. PICK key \in Keys, ok \in BOOLEAN : j.results[i] = [key |-> key, ok |-> ok]
      BY <3>1
    <3>3. key \in j.keys \ j.todo
      BY <2>1, <3>2
    <3> QED BY <3>2, <3>3
  <2> QED BY <2>1, <2>2, <2>3 DEF TaskTypeOK
<1> QED BY <1>1, <1>2

\* The types after a step of one process: the writers and their locks are as they were.
LEMMA TaskTypesKept ==
  ASSUME EventInv, NEW t \in Tasks, NEW x, TaskShape(x), task' = [task EXCEPT ![t] = x],
         row' \in [Keys -> RowOrNone], queued' \in [Keys -> 0..MaxVersions],
         \A k \in Keys : queued'[k] <= queued[k],
         points' \in [Keys -> [Chunks -> 0..MaxVersions]], sent' \in [Keys -> SUBSET Chunks],
         sweeps' \in 0..MaxSweeps, faults' \in 0..MaxFaults,
         forgotten' \in [Keys -> BOOLEAN], overlapped' \in [Keys -> BOOLEAN],
         UNCHANGED <<lock, writer, version, committed>>
  PROVE  /\ EventTypes'
         /\ \A u \in Tasks : task'[u] = IF u = t THEN x ELSE task[u]
         /\ \A u \in Tasks : u # t => Indexing(u)' = Indexing(u)
         /\ Indexing(t)' = IF x.pc = "idle" THEN {} ELSE x.keys
<1>1. x \in IndexTask \cup {NoTask}
  BY ShapeIsTyped
<1>2. /\ task' \in [Tasks -> IndexTask \cup {NoTask}]
      /\ \A u \in Tasks : task'[u] = IF u = t THEN x ELSE task[u]
  BY <1>1 DEF EventInv, EventTypes
<1>3. \A u \in Tasks : TaskShape(task[u])
  BY DEF EventInv, EventTypes
<1>4. \A u \in Tasks : TaskShape(task'[u]) /\ TaskTypeOK(task'[u])
  BY <1>2, <1>3, ShapeIsTyped
<1>5. EventTypeOK'
  BY <1>4 DEF EventInv, EventTypes, EventTypeOK, TaskTypeOK
<1>6. QueueIsCounted'
  <2> SUFFICES ASSUME NEW k \in Keys
               PROVE  IsFiniteSet(Flushing(k))' /\ queued'[k] + Cardinality(Flushing(k)') <= version'
    BY DEF QueueIsCounted
  <2>1. Flushing(k)' \subseteq Flushing(k) /\ queued'[k] \in Nat
    BY EventAssumption DEF Flushing
  <2> QED BY <2>1, CountKept DEF EventInv
<1>7. (\A u \in Tasks : TaskShape(task[u]))'
  BY <1>4 DEF TaskShape
<1>8. EventTypes'
  BY <1>2, <1>5, <1>6, <1>7 DEF EventTypes
<1>9. /\ \A u \in Tasks : u # t => Indexing(u)' = Indexing(u)
      /\ Indexing(t)' = IF x.pc = "idle" THEN {} ELSE x.keys
  BY <1>2 DEF Indexing
<1> QED BY <1>2, <1>8, <1>9

\* A process begins with the rows as they are: what it has loaded is what is stored.
LEMMA StartStep ==
  ASSUME EventInv, NEW t \in Tasks, NEW K \in SUBSET Keys, task[t].pc = "idle",
         \A k \in K : row[k] # NoRow,
         Start(t, K), MeetsOthers(t, K),
         queued' \in [Keys -> 0..MaxVersions], forgotten' \in [Keys -> BOOLEAN],
         \A k \in Keys : queued'[k] <= queued[k] /\ (k \notin K => queued'[k] = queued[k]),
         \A k \in Keys : forgotten[k] => forgotten'[k],
         \A k \in Keys : queued'[k] < queued[k] /\ lock[k] # Nobody => forgotten'[k],
         sweeps' \in 0..MaxSweeps,
         UNCHANGED <<row, lock, points, sent, writer, version, faults, committed>>
  PROVE  EventInv'
<1> DEFINE x == [pc |-> "index", keys |-> K, todo |-> K, loaded |-> [k \in K |-> row[k]],
                 results |-> <<>>]
<1>1. row \in [Keys -> RowOrNone] /\ \A k \in K : row[k] \in Row /\ k \in Keys
  BY RowFacts DEF EventInv, EventTypes, EventTypeOK
<1>2. /\ x \in IndexTask /\ x.pc = "index" /\ x.keys = K /\ x.todo = K
      /\ x.loaded \in [K -> Row] /\ x.results = <<>> /\ Len(x.results) = 0
      /\ \A k \in K : x.loaded[k] = row[k]
  <2>1. [k \in K |-> row[k]] \in [K -> Row]
    BY <1>1
  <2>2. [k \in K |-> row[k]] \in UNION {[J -> Row] : J \in SUBSET Keys}
    BY <2>1
  <2>3. <<>> \in Seq([key : Keys, ok : BOOLEAN]) /\ Len(<<>>) = 0
    OBVIOUS
  <2> QED BY <2>1, <2>2, <2>3 DEF IndexTask
<1>3. TaskShape(x)
  BY <1>2 DEF TaskShape
<1>4. task' = [task EXCEPT ![t] = x]
  BY DEF Start, Visible
<1> HIDE DEF x
<1>5. /\ \A k \in Keys :
            overlapped'[k] = (overlapped[k] \/ (k \in K /\ \E u \in Tasks \ {t} : k \in Indexing(u)))
      /\ overlapped' \in [Keys -> BOOLEAN]
  BY DEF MeetsOthers, EventInv, EventTypes, EventTypeOK
<1>6. /\ EventTypes'
      /\ \A u \in Tasks : task'[u] = IF u = t THEN x ELSE task[u]
      /\ \A u \in Tasks : u # t => Indexing(u)' = Indexing(u)
      /\ Indexing(t)' = K /\ Indexing(t) = {}
  <2>1. /\ row' \in [Keys -> RowOrNone] /\ points' \in [Keys -> [Chunks -> 0..MaxVersions]]
        /\ sent' \in [Keys -> SUBSET Chunks] /\ faults' \in 0..MaxFaults
    BY DEF EventInv, EventTypes, EventTypeOK
  <2>2. Indexing(t) = {}
    BY DEF Indexing
  <2>3. /\ EventTypes'
        /\ \A u \in Tasks : task'[u] = IF u = t THEN x ELSE task[u]
        /\ \A u \in Tasks : u # t => Indexing(u)' = Indexing(u)
        /\ Indexing(t)' = IF x.pc = "idle" THEN {} ELSE x.keys
    BY <1>3, <1>4, <1>5, <2>1, TaskTypesKept
  <2> QED BY <1>2, <2>2, <2>3
<1>7. \A k, p : Found(k, p)' = Found(k, p)
  BY DEF Found
<1>8. \A k \in Keys : queued[k] \in Nat /\ queued'[k] \in Nat
  BY EventAssumption DEF EventInv, EventTypes, EventTypeOK
\* Who meets an event that is being indexed is counted as overlapping.
<1>9. \A k \in Keys : ~overlapped'[k] =>
        /\ ~overlapped[k]
        /\ k \in K => \A u \in Tasks : k \in Indexing(u)' => u = t
  BY <1>5, <1>6
<1>10. LoadsCommitted'
  BY <1>1, <1>2, <1>6 DEF EventInv, LoadsCommitted
<1>11. IndexHoldsCommitted'
  BY DEF EventInv, IndexHoldsCommitted
<1>12. OpenIsQueued'
  <2> SUFFICES ASSUME NEW w \in Writers, writer[w].pc = "open", writer[w].payload.hot
               PROVE  queued'[writer[w].key] > 0 \/ forgotten'[writer[w].key]
    BY DEF OpenIsQueued
  <2>1. writer[w].key \in Keys
    BY WriterFacts DEF EventInv
  <2>2. lock[writer[w].key] = w /\ w # Nobody
    BY <2>1, EventAssumption DEF EventInv, EventTypes, EventTypeOK
  <2> QED BY <1>8, <2>1, <2>2 DEF EventInv, OpenIsQueued
<1>13. PendingIsLoaded'
  <2> SUFFICES ASSUME NEW k \in Keys, row[k].status = "pending"
               PROVE  \/ queued'[k] > 0 \/ forgotten'[k]
                      \/ \E u \in Tasks : k \in Indexing(u)' /\ task'[u].loaded[k].status = "pending"
    BY DEF PendingIsLoaded
  <2>1. CASE k \in K
    BY <1>2, <1>6, <2>1
  <2>2. CASE k \notin K
    BY <1>6, <2>2 DEF EventInv, PendingIsLoaded
  <2> QED BY <2>1, <2>2
<1>14. OneAtATime'
  <2> SUFFICES ASSUME NEW k \in Keys, ~overlapped'[k], NEW u \in Tasks, NEW v \in Tasks,
                      k \in Indexing(u)', k \in Indexing(v)'
               PROVE  u = v
    BY DEF OneAtATime
  <2> QED BY <1>6, <1>9 DEF EventInv, OneAtATime
<1>15. IndexedWasLoaded'
  <2> SUFFICES ASSUME NEW k \in Keys, NEW u \in Tasks, ~overlapped'[k], k \in Indexing(u)',
                      row[k].status = "indexed"
               PROVE  task'[u].loaded[k].status = "indexed"
    BY DEF IndexedWasLoaded
  <2>1. CASE u = t
    BY <1>2, <1>6, <2>1
  <2>2. CASE u # t
    BY <1>6, <1>9, <2>2 DEF EventInv, IndexedWasLoaded
  <2> QED BY <2>1, <2>2
<1>16. ChangeIsQueued'
  <2> SUFFICES ASSUME NEW k \in Keys, NEW u \in Tasks, ~overlapped'[k], ~forgotten'[k],
                      k \in Indexing(u)', row[k] # NoRow, row[k].payload.hot,
                      Core(row[k].payload) # Core(task'[u].loaded[k].payload)
               PROVE  queued'[k] > 0
    BY DEF ChangeIsQueued, Core
  <2>1. CASE u = t
    BY <1>2, <1>6, <2>1
  <2>2. CASE u # t
    BY <1>6, <1>9, <2>2 DEF EventInv, ChangeIsQueued
  <2> QED BY <2>1, <2>2
<1>17. SentIsFound'
  <2> SUFFICES ASSUME NEW k \in Keys, NEW u \in Tasks, ~overlapped'[k], k \in Indexing(u)',
                      NEW i \in 1..Len(task'[u].results),
                      task'[u].results[i].key = k, task'[u].results[i].ok
               PROVE  Found(k, task'[u].loaded[k].payload)
    BY DEF SentIsFound, Found
  <2>1. u # t
    BY <1>2, <1>6
  <2> QED BY <1>6, <1>9, <2>1 DEF EventInv, SentIsFound
<1>18. IndexedIsFound'
  <2> SUFFICES ASSUME NEW k \in Keys, ~overlapped'[k], ~forgotten'[k],
                      \A u \in Tasks : k \notin Indexing(u)', row[k].status = "indexed",
                      row[k].payload.hot
               PROVE  queued'[k] > 0 \/ Found(k, row[k].payload)
    BY DEF IndexedIsFound, Found
  <2>1. k \notin K /\ \A u \in Tasks : k \notin Indexing(u)
    BY <1>6
  <2> QED BY <1>9, <2>1 DEF EventInv, IndexedIsFound
<1> QED BY <1>6, <1>10, <1>11, <1>12, <1>13, <1>14, <1>15, <1>16, <1>17, <1>18 DEF EventInv

\* A task read before its transaction commits is an indexing lost.
LEMMA TakeStep ==
  ASSUME EventInv, NEW t \in Tasks, NEW k \in Keys, TakeTask(t, k)
  PROVE  EventInv'
<1>1. /\ row \in [Keys -> RowOrNone] /\ queued \in [Keys -> 0..MaxVersions]
      /\ forgotten \in [Keys -> BOOLEAN] /\ sweeps \in 0..MaxSweeps /\ MaxVersions \in Nat
      /\ points \in [Keys -> [Chunks -> 0..MaxVersions]] /\ sent \in [Keys -> SUBSET Chunks]
      /\ faults \in 0..MaxFaults /\ overlapped \in [Keys -> BOOLEAN]
  BY EventAssumption DEF EventInv, EventTypes, EventTypeOK
<1>2. /\ task[t].pc = "idle" /\ queued[k] > 0 /\ queued' = [queued EXCEPT ![k] = @ - 1]
      /\ UNCHANGED <<row, lock, points, sent, writer, version, sweeps, faults, committed>>
  BY DEF TakeTask
<1>3. /\ \A l \in Keys : queued'[l] = IF l = k THEN queued[k] - 1 ELSE queued[l]
      /\ queued' \in [Keys -> 0..MaxVersions]
      /\ \A l \in Keys : queued'[l] <= queued[l] /\ (l # k => queued'[l] = queued[l])
  BY <1>1, <1>2
<1>4. CASE row[k] = NoRow
  <2>1. Forget({k}) /\ task' = task /\ overlapped' = overlapped
    BY <1>4 DEF TakeTask, Visible
  <2>2. /\ \A l \in Keys : forgotten'[l] = (forgotten[l] \/ l = k)
        /\ forgotten' \in [Keys -> BOOLEAN]
    BY <1>1, <2>1 DEF Forget
  <2>3. TaskShape(task[t]) /\ task' = [task EXCEPT ![t] = task[t]]
    BY <2>1 DEF EventInv, EventTypes
  <2>4. EventTypes'
    BY <1>1, <1>2, <1>3, <2>1, <2>2, <2>3, TaskTypesKept
  <2>5. /\ \A u : Indexing(u)' = Indexing(u)
        /\ \A l, p : Found(l, p)' = Found(l, p)
    BY <1>2, <2>1 DEF Indexing, Found
  <2>6. LoadsCommitted' /\ IndexHoldsCommitted' /\ OneAtATime' /\ IndexedWasLoaded' /\ SentIsFound'
    BY <1>2, <2>1, <2>5 DEF EventInv, LoadsCommitted, IndexHoldsCommitted, OneAtATime,
       IndexedWasLoaded, SentIsFound
  <2>7. OpenIsQueued'
    <3> SUFFICES ASSUME NEW w \in Writers, writer[w].pc = "open", writer[w].payload.hot
                 PROVE  queued'[writer[w].key] > 0 \/ forgotten'[writer[w].key]
      BY <1>2 DEF OpenIsQueued
    <3>1. writer[w].key \in Keys
      BY WriterFacts DEF EventInv
    <3> QED BY <1>3, <2>2, <3>1 DEF EventInv, OpenIsQueued
  <2>8. PendingIsLoaded'
    BY <1>2, <1>3, <2>1, <2>2, <2>5 DEF EventInv, PendingIsLoaded
  <2>9. ChangeIsQueued' /\ IndexedIsFound'
    BY <1>2, <1>3, <2>1, <2>2, <2>5 DEF EventInv, ChangeIsQueued, IndexedIsFound
  <2> QED BY <2>4, <2>6, <2>7, <2>8, <2>9 DEF EventInv
<1>5. CASE row[k] # NoRow
  <2>1. /\ Start(t, {k}) /\ MeetsOthers(t, {k})
        /\ Forget(IF lock[k] = Nobody THEN {} ELSE {k})
    BY <1>5 DEF TakeTask, Visible
  <2>2. /\ \A l \in Keys : forgotten'[l] = (forgotten[l] \/ (l = k /\ lock[k] # Nobody))
        /\ forgotten' \in [Keys -> BOOLEAN]
    BY <1>1, <2>1 DEF Forget
  <2>3. \A l \in Keys : queued'[l] < queued[l] /\ lock[l] # Nobody => forgotten'[l]
    BY <1>1, <1>3, <2>2
  <2>4. {k} \in SUBSET Keys /\ \A l \in {k} : row[l] # NoRow
    BY <1>5
  <2>5. /\ \A l \in Keys : queued'[l] <= queued[l] /\ (l \notin {k} => queued'[l] = queued[l])
        /\ \A l \in Keys : forgotten[l] => forgotten'[l]
        /\ sweeps' \in 0..MaxSweeps
    BY <1>1, <1>2, <1>3, <2>2
  <2> QED BY <1>2, <1>3, <2>1, <2>2, <2>3, <2>4, <2>5, StartStep
<1> QED BY <1>4, <1>5

LEMMA SweepStep ==
  ASSUME EventInv, NEW t \in Tasks, Sweep(t)
  PROVE  EventInv'
<1> DEFINE K == {k \in Keys : row[k].status = "pending"}
<1>1. /\ queued \in [Keys -> 0..MaxVersions] /\ forgotten \in [Keys -> BOOLEAN]
      /\ sweeps \in 0..MaxSweeps /\ MaxSweeps \in Nat /\ MaxVersions \in Nat
  BY EventAssumption DEF EventInv, EventTypes, EventTypeOK
<1>2. /\ task[t].pc = "idle" /\ sweeps < MaxSweeps /\ sweeps' = sweeps + 1
      /\ Start(t, K) /\ MeetsOthers(t, K)
      /\ UNCHANGED <<row, lock, queued, points, sent, writer, version, faults, committed, forgotten>>
  BY DEF Sweep
<1>3. K \in SUBSET Keys /\ \A k \in K : row[k] # NoRow
  BY RowFacts
<1>4. /\ sweeps' \in 0..MaxSweeps
      /\ queued' \in [Keys -> 0..MaxVersions] /\ forgotten' \in [Keys -> BOOLEAN]
      /\ \A k \in Keys : queued'[k] <= queued[k] /\ (k \notin K => queued'[k] = queued[k])
      /\ \A k \in Keys : forgotten[k] => forgotten'[k]
      /\ \A k \in Keys : queued'[k] < queued[k] /\ lock[k] # Nobody => forgotten'[k]
  BY <1>1, <1>2
<1> HIDE DEF K
<1> QED BY <1>2, <1>3, <1>4, StartStep

\* A process that dies leaves its events forgotten.
LEMMA FailStep ==
  ASSUME EventInv, NEW t \in Tasks, TaskFails(t)
  PROVE  EventInv'
<1>1. /\ task[t].pc # "idle" /\ faults < MaxFaults /\ faults' = faults + 1
      /\ Forget(task[t].keys) /\ task' = [task EXCEPT ![t] = NoTask]
      /\ UNCHANGED <<row, lock, queued, points, sent, writer, version, sweeps, committed, overlapped>>
  BY DEF TaskFails
<1>2. /\ row \in [Keys -> RowOrNone] /\ queued \in [Keys -> 0..MaxVersions]
      /\ forgotten \in [Keys -> BOOLEAN] /\ sweeps \in 0..MaxSweeps /\ MaxVersions \in Nat
      /\ points \in [Keys -> [Chunks -> 0..MaxVersions]] /\ overlapped \in [Keys -> BOOLEAN]
      /\ sent \in [Keys -> SUBSET Chunks] /\ faults' \in 0..MaxFaults
  BY <1>1, EventAssumption DEF EventInv, EventTypes, EventTypeOK
<1>3. /\ \A k \in Keys : forgotten'[k] = (forgotten[k] \/ k \in Indexing(t))
      /\ forgotten' \in [Keys -> BOOLEAN]
  BY <1>1, <1>2 DEF Forget, Indexing
<1>4. TaskShape(NoTask) /\ NoTask.pc = "idle" /\ \A k \in Keys : queued'[k] <= queued[k]
  BY <1>1, <1>2 DEF TaskShape, NoTask
<1>5. /\ EventTypes'
      /\ \A u \in Tasks : task'[u] = IF u = t THEN NoTask ELSE task[u]
      /\ \A u \in Tasks : u # t => Indexing(u)' = Indexing(u)
      /\ Indexing(t)' = {}
  BY <1>1, <1>2, <1>3, <1>4, TaskTypesKept
<1>6. \A k, p : Found(k, p)' = Found(k, p)
  BY <1>1 DEF Found
<1>7. LoadsCommitted' /\ IndexHoldsCommitted' /\ OneAtATime'
  BY <1>1, <1>5 DEF EventInv, LoadsCommitted, IndexHoldsCommitted, OneAtATime
<1>8. IndexedWasLoaded'
  BY <1>1, <1>5 DEF EventInv, IndexedWasLoaded
<1>9. SentIsFound'
  BY <1>1, <1>5, <1>6 DEF EventInv, SentIsFound
<1>10. OpenIsQueued'
  <2> SUFFICES ASSUME NEW w \in Writers, writer[w].pc = "open", writer[w].payload.hot
               PROVE  queued[writer[w].key] > 0 \/ forgotten'[writer[w].key]
    BY <1>1 DEF OpenIsQueued
  <2>1. writer[w].key \in Keys
    BY WriterFacts DEF EventInv
  <2> QED BY <1>3, <2>1 DEF EventInv, OpenIsQueued
<1>11. PendingIsLoaded'
  <2> SUFFICES ASSUME NEW k \in Keys, row[k].status = "pending", ~(queued[k] > 0), ~forgotten'[k]
               PROVE  \E u \in Tasks : k \in Indexing(u)' /\ task'[u].loaded[k].status = "pending"
    BY <1>1 DEF PendingIsLoaded
  <2>1. PICK u \in Tasks : k \in Indexing(u) /\ task[u].loaded[k].status = "pending"
    BY <1>3 DEF EventInv, PendingIsLoaded
  <2> QED BY <1>3, <1>5, <2>1
<1>12. ChangeIsQueued'
  BY <1>1, <1>3, <1>5 DEF EventInv, ChangeIsQueued
<1>13. IndexedIsFound'
  <2> SUFFICES ASSUME NEW k \in Keys, ~overlapped[k], ~forgotten'[k],
                      \A u \in Tasks : k \notin Indexing(u)', row[k].status = "indexed",
                      row[k].payload.hot
               PROVE  queued[k] > 0 \/ Found(k, row[k].payload)
    BY <1>1, <1>6 DEF IndexedIsFound
  <2>1. \A u \in Tasks : k \notin Indexing(u)
    BY <1>3, <1>5
  <2> QED BY <1>3, <2>1 DEF EventInv, IndexedIsFound
<1> QED BY <1>5, <1>7, <1>8, <1>9, <1>10, <1>11, <1>12, <1>13 DEF EventInv

\* The points that are sent belong to what the process loaded, which was committed.
LEMMA IndexStep ==
  ASSUME EventInv, NEW t \in Tasks, NEW k \in Keys, NEW embedded \in SUBSET Chunks,
         IndexEvent(t, k, embedded)
  PROVE  EventInv'
<1> DEFINE j == task[t]
           payload == j.loaded[k].payload
           chunks == IF payload.hot THEN embedded \cap 1..payload.size ELSE {}
           result == [key |-> k, ok |-> chunks # {}]
           x == [j EXCEPT !.todo = @ \ {k}, !.results = Append(@, result),
                          !.pc = IF j.todo = {k} THEN "mark" ELSE "index"]
<1>1. /\ j.pc = "index" /\ j \in IndexTask /\ j.keys \in SUBSET Keys /\ Indexing(t) = j.keys
      /\ j.todo \subseteq j.keys /\ k \in j.todo /\ k \in j.keys
      /\ j.loaded \in [j.keys -> Row] /\ j.results \in Seq([key : Keys, ok : BOOLEAN])
      /\ \A i \in 1..Len(j.results) : j.results[i].key \in j.keys \ j.todo
      /\ \A l \in j.keys \ j.todo : \E i \in 1..Len(j.results) : j.results[i].key = l
  BY TaskFacts DEF EventInv, IndexEvent
<1>2. payload.version \in Versions /\ payload.hot \in BOOLEAN /\ payload.size \in Chunks
  BY <1>1, RowFacts
<1>3. /\ points' = [points EXCEPT ![k] =
            [c \in Chunks |-> IF c \in chunks THEN payload.version ELSE @[c]]]
      /\ sent' = [sent EXCEPT ![k] = chunks]
      /\ task' = [task EXCEPT ![t] = x]
      /\ UNCHANGED <<row, lock, queued, writer, version, sweeps, faults, committed, forgotten,
                     overlapped>>
  <2>1. task \in [Tasks -> IndexTask \cup {NoTask}]
    BY DEF EventInv, EventTypes
  <2> QED BY <2>1 DEF IndexEvent, ghosts
<1>4. chunks \subseteq Chunks /\ chunks \subseteq 1..payload.size
  BY <1>2
<1>5. result \in [key : Keys, ok : BOOLEAN] /\ result.key = k /\ result.ok = (chunks # {})
  OBVIOUS
<1> HIDE DEF chunks, result
<1>6. /\ Append(j.results, result) \in Seq([key : Keys, ok : BOOLEAN])
      /\ Len(Append(j.results, result)) = Len(j.results) + 1
      /\ \A i \in 1..Len(j.results) : Append(j.results, result)[i] = j.results[i]
      /\ Append(j.results, result)[Len(j.results) + 1] = result
      /\ Len(j.results) \in Nat
  BY <1>1, <1>5, AppendProperties, LenProperties
<1>7. /\ x \in IndexTask /\ x.pc = (IF j.todo = {k} THEN "mark" ELSE "index") /\ x.keys = j.keys
      /\ x.todo = j.todo \ {k} /\ x.loaded = j.loaded /\ x.results = Append(j.results, result)
  BY <1>1, <1>6 DEF IndexTask
<1> HIDE DEF x
<1>8. TaskShape(x)
  <2>1. ASSUME NEW i \in 1..Len(x.results)
        PROVE  x.results[i].key \in x.keys \ x.todo
    <3>1. CASE i \in 1..Len(j.results)
      BY <1>1, <1>6, <1>7, <3>1
    <3>2. CASE i = Len(j.results) + 1
      BY <1>1, <1>5, <1>6, <1>7, <3>2
    <3> QED BY <1>6, <1>7, <3>1, <3>2
  <2>2. ASSUME NEW l \in x.keys \ x.todo
        PROVE  \E i \in 1..Len(x.results) : x.results[i].key = l
    <3>1. CASE l = k
      BY <1>5, <1>6, <1>7, <3>1
    <3>2. CASE l # k
      <4>1. PICK i \in 1..Len(j.results) : j.results[i].key = l
        BY <1>1, <1>7, <3>2
      <4>2. i \in 1..Len(x.results) /\ x.results[i] = j.results[i]
        BY <1>6, <1>7
      <4> QED BY <4>1, <4>2
    <3> QED BY <3>1, <3>2
  <2>3. x.todo \subseteq x.keys /\ x.loaded \in [x.keys -> Row] /\ (x.pc = "mark" => x.todo = {})
    BY <1>1, <1>7
  <2> QED BY <1>7, <2>1, <2>2, <2>3 DEF TaskShape
<1>9. /\ row \in [Keys -> RowOrNone] /\ queued \in [Keys -> 0..MaxVersions]
      /\ forgotten \in [Keys -> BOOLEAN] /\ overlapped \in [Keys -> BOOLEAN]
      /\ sweeps \in 0..MaxSweeps /\ faults \in 0..MaxFaults /\ MaxVersions \in Nat
      /\ points \in [Keys -> [Chunks -> 0..MaxVersions]] /\ sent \in [Keys -> SUBSET Chunks]
  BY EventAssumption DEF EventInv, EventTypes, EventTypeOK
<1>10. /\ \A l \in Keys : l # k => points'[l] = points[l] /\ sent'[l] = sent[l]
       /\ sent'[k] = chunks /\ sent' \in [Keys -> SUBSET Chunks]
       /\ \A c \in Chunks : points'[k][c] = IF c \in chunks THEN payload.version ELSE points[k][c]
       /\ points' \in [Keys -> [Chunks -> 0..MaxVersions]]
  <2> DEFINE new == [c \in Chunks |-> IF c \in chunks THEN payload.version ELSE points[k][c]]
  <2>1. new \in [Chunks -> 0..MaxVersions]
    BY <1>2, <1>9 DEF Versions
  <2>2. points' = [points EXCEPT ![k] = new]
    BY <1>3
  <2>3. \A c \in Chunks : new[c] = IF c \in chunks THEN payload.version ELSE points[k][c]
    OBVIOUS
  <2>4. /\ \A l \in Keys : l # k => sent'[l] = sent[l]
        /\ sent'[k] = chunks /\ sent' \in [Keys -> SUBSET Chunks]
    BY <1>3, <1>4, <1>9
  <2> HIDE DEF new
  <2> QED BY <1>9, <2>1, <2>2, <2>3, <2>4
<1>11. /\ EventTypes'
       /\ \A u \in Tasks : task'[u] = IF u = t THEN x ELSE task[u]
       /\ \A u \in Tasks : Indexing(u)' = Indexing(u)
  <2>1. /\ row' \in [Keys -> RowOrNone] /\ queued' \in [Keys -> 0..MaxVersions]
        /\ \A l \in Keys : queued'[l] <= queued[l]
        /\ sweeps' \in 0..MaxSweeps /\ faults' \in 0..MaxFaults
        /\ forgotten' \in [Keys -> BOOLEAN] /\ overlapped' \in [Keys -> BOOLEAN]
    BY <1>3, <1>9
  <2>2. /\ EventTypes'
        /\ \A u \in Tasks : task'[u] = IF u = t THEN x ELSE task[u]
        /\ \A u \in Tasks : u # t => Indexing(u)' = Indexing(u)
        /\ Indexing(t)' = IF x.pc = "idle" THEN {} ELSE x.keys
    BY <1>3, <1>8, <1>10, <2>1, TaskTypesKept
  <2> QED BY <1>1, <1>7, <2>2
\* Nothing that a process has loaded changes.
<1>12. \A u \in Tasks : task'[u].loaded = task[u].loaded
  BY <1>7, <1>11
<1>14. LoadsCommitted' /\ OneAtATime' /\ IndexedWasLoaded' /\ ChangeIsQueued' /\ OpenIsQueued'
  BY <1>3, <1>11, <1>12 DEF EventInv, LoadsCommitted, OneAtATime, IndexedWasLoaded,
     ChangeIsQueued, OpenIsQueued
<1>15. PendingIsLoaded'
  BY <1>3, <1>11, <1>12 DEF EventInv, PendingIsLoaded
<1>16. IndexHoldsCommitted'
  <2>1. payload.version \in committed[k]
    BY <1>1 DEF EventInv, LoadsCommitted
  <2> QED BY <1>3, <1>10, <2>1 DEF EventInv, IndexHoldsCommitted
<1>17. SentIsFound'
  <2> SUFFICES ASSUME NEW l \in Keys, NEW u \in Tasks, ~overlapped'[l], l \in Indexing(u)',
                      NEW i \in 1..Len(task'[u].results),
                      task'[u].results[i].key = l, task'[u].results[i].ok
               PROVE  Found(l, task[u].loaded[l].payload)'
    BY DEF SentIsFound, Found
  <2> ~overlapped[l] /\ l \in Indexing(u)
    BY <1>3, <1>11
  <2>1. CASE l = k
    <3>1. u = t
      BY <1>1, <2>1 DEF EventInv, OneAtATime
    <3>2. i = Len(j.results) + 1
      <4>1. ASSUME i \in 1..Len(j.results)
            PROVE  FALSE
        <5>1. task'[t].results = Append(j.results, result)
          BY <1>7, <1>11
        <5>2. j.results[i].key = k
          BY <1>6, <2>1, <3>1, <4>1, <5>1
        <5> QED BY <1>1, <4>1, <5>2
      <4> QED BY <1>6, <1>7, <1>11, <3>1, <4>1
    <3>3. chunks # {}
      BY <1>5, <1>6, <1>7, <1>11, <3>1, <3>2
    <3>4. sent'[k] = chunks /\ \A c \in chunks : points'[k][c] = payload.version
      BY <1>4, <1>10
    <3>5. task'[t].loaded[k].payload = payload
      BY <1>12
    <3> QED BY <1>4, <2>1, <3>1, <3>3, <3>4, <3>5 DEF Found
  <2>2. CASE l # k
    <3>1. CASE u # t
      <4>1. Found(l, task[u].loaded[l].payload)
        BY <1>11, <3>1 DEF EventInv, SentIsFound
      <4> QED BY <1>10, <1>12, <2>2, <4>1 DEF Found
    <3>2. CASE u = t
      <4>1. i \in 1..Len(j.results) /\ x.results[i] = j.results[i]
        <5>1. i # Len(j.results) + 1
          BY <1>5, <1>6, <1>7, <1>11, <2>2, <3>2
        <5> QED BY <1>6, <1>7, <1>11, <3>2, <5>1
      <4>2. i \in 1..Len(task[t].results) /\ task[t].results[i].key = l /\ task[t].results[i].ok
        BY <1>7, <1>11, <3>2, <4>1
      <4>3. Found(l, task[u].loaded[l].payload)
        BY <3>2, <4>2 DEF EventInv, SentIsFound
      <4> QED BY <1>10, <1>12, <2>2, <4>3 DEF Found
    <3> QED BY <3>1, <3>2
  <2> QED BY <2>1, <2>2
<1>18. IndexedIsFound'
  <2> SUFFICES ASSUME NEW l \in Keys, ~overlapped'[l], ~forgotten'[l],
                      \A u \in Tasks : l \notin Indexing(u)',
                      row'[l].status = "indexed", row'[l].payload.hot
               PROVE  queued'[l] > 0 \/ Found(l, row[l].payload)'
    BY DEF IndexedIsFound
  <2>1. UNCHANGED <<overlapped, forgotten, row, queued>> /\ \A u \in Tasks : l \notin Indexing(u)
    BY <1>3, <1>11
  <2>2. l # k
    BY <1>1, <2>1
  <2>3. queued[l] > 0 \/ Found(l, row[l].payload)
    BY <2>1 DEF EventInv, IndexedIsFound
  <2>4. Found(l, row[l].payload)' <=> Found(l, row[l].payload)
    BY <1>10, <2>1, <2>2 DEF Found
  <2> QED BY <2>1, <2>3, <2>4
<1> QED BY <1>11, <1>14, <1>15, <1>16, <1>17, <1>18 DEF EventInv

\* The rows get the status found and the payload indexed, except in columns that an
\* ingestion changed meanwhile while the process did not.
LEMMA MarkStep ==
  ASSUME EventInv, NEW t \in Tasks, MarkAndCommit(t)
  PROVE  EventInv'
<1> DEFINE j == task[t]
           results == {j.results[i] : i \in 1..Len(j.results)}
           ResultOf(k) == CHOOSE r \in results : r.key = k
           status(k) == Outcome(ResultOf(k).ok)
           marked(k) == Marked(j.loaded[k].payload, status(k))
           new(k) == Written(row[k], j.loaded[k], marked(k), status(k))
<1>1. /\ j.pc = "mark" /\ j.keys \in SUBSET Keys /\ Indexing(t) = j.keys
      /\ j.loaded \in [j.keys -> Row] /\ j.results \in Seq([key : Keys, ok : BOOLEAN])
      /\ j.todo = {}
      /\ \A k \in j.keys \ j.todo : \E i \in 1..Len(j.results) : j.results[i].key = k
  BY TaskFacts DEF EventInv, MarkAndCommit
<1>2. /\ row' = [k \in Keys |-> IF k \in j.keys THEN new(k) ELSE row[k]]
      /\ task' = [task EXCEPT ![t] = NoTask]
      /\ UNCHANGED <<lock, queued, points, sent, writer, version, sweeps, faults, committed, forgotten,
                     overlapped>>
  BY DEF MarkAndCommit, ghosts
<1>3. ASSUME NEW k \in j.keys
      PROVE  /\ ResultOf(k) \in results /\ ResultOf(k).key = k
             /\ \E i \in 1..Len(j.results) : j.results[i] = ResultOf(k)
  <2>1. PICK i \in 1..Len(j.results) : j.results[i].key = k
    BY <1>1
  <2>2. \E r \in results : r.key = k
    BY <2>1
  <2> QED BY <2>2
<1>4. ASSUME NEW k \in j.keys
      PROVE  status(k) \in {"indexed", "skipped"} /\ (status(k) = "indexed" => ResultOf(k).ok)
  BY DEF Outcome
<1> HIDE DEF ResultOf
<1>5. ASSUME NEW k \in j.keys
      PROVE  /\ new(k) \in Row /\ new(k) # NoRow /\ new(k) \in RowOrNone
             /\ marked(k) \in Payload /\ Core(marked(k)) = Core(j.loaded[k].payload)
             /\ marked(k).version = j.loaded[k].payload.version
             /\ new(k).payload = marked(k) \/ (row[k] # NoRow /\ new(k).payload = row[k].payload)
             /\ \/ new(k).status = status(k)
                \/ status(k) = j.loaded[k].status /\ new(k).status = row[k].status
  <2>1. /\ j.loaded[k] \in RowOrNone /\ j.loaded[k].payload \in Payload
        /\ status(k) \in Statuses /\ row[k] \in RowOrNone
    BY <1>1, <1>4, RowFacts DEF EventInv, EventTypes, EventTypeOK, Statuses, RowOrNone
  <2> HIDE DEF status
  <2>2. /\ marked(k) \in Payload /\ Core(marked(k)) = Core(j.loaded[k].payload)
        /\ marked(k).version = j.loaded[k].payload.version
    BY <2>1, MarkFacts
  <2> HIDE DEF marked
  <2>3. /\ new(k) \in Row /\ new(k) # NoRow
        /\ \/ new(k).payload = marked(k)
           \/ row[k] # NoRow /\ new(k).payload = row[k].payload
        /\ \/ new(k).status = status(k)
           \/ status(k) = j.loaded[k].status /\ new(k).status = row[k].status
    <3> PICK now \in RowOrNone, loaded \in RowOrNone, payload \in Payload, found \in Statuses :
          now = row[k] /\ loaded = j.loaded[k] /\ payload = marked(k) /\ found = status(k)
      BY <2>1, <2>2
    <3>1. new(k) = Written(now, loaded, payload, found)
      OBVIOUS
    <3> HIDE DEF new
    <3> QED BY <3>1, WrittenFacts
  <2> QED BY <2>2, <2>3 DEF RowOrNone
<1> HIDE DEF status, marked, new
<1>6. /\ \A k \in Keys : row'[k] = IF k \in j.keys THEN new(k) ELSE row[k]
      /\ row' \in [Keys -> RowOrNone]
  <2>1. row \in [Keys -> RowOrNone]
    BY DEF EventInv, EventTypes, EventTypeOK
  <2> QED BY <1>2, <1>5, <2>1
<1>7. /\ EventTypes'
      /\ \A u \in Tasks : task'[u] = IF u = t THEN NoTask ELSE task[u]
      /\ \A u \in Tasks : u # t => Indexing(u)' = Indexing(u)
      /\ Indexing(t)' = {}
  <2>1. TaskShape(NoTask) /\ NoTask.pc = "idle"
    BY DEF TaskShape, NoTask
  <2>2. /\ queued' \in [Keys -> 0..MaxVersions] /\ \A k \in Keys : queued'[k] <= queued[k]
        /\ points' \in [Keys -> [Chunks -> 0..MaxVersions]] /\ sent' \in [Keys -> SUBSET Chunks]
        /\ sweeps' \in 0..MaxSweeps /\ faults' \in 0..MaxFaults
        /\ forgotten' \in [Keys -> BOOLEAN] /\ overlapped' \in [Keys -> BOOLEAN]
    BY <1>2, EventAssumption DEF EventInv, EventTypes, EventTypeOK
  <2> QED BY <1>2, <1>6, <2>1, <2>2, TaskTypesKept
<1>8. \A k, p : Found(k, p)' = Found(k, p)
  BY <1>2 DEF Found
\* Alone at work on an event, nobody else is when the process is done.
<1>9. \A k \in j.keys : ~overlapped[k] => \A u \in Tasks : k \notin Indexing(u)'
  BY <1>1, <1>7 DEF EventInv, OneAtATime
<1>10. LoadsCommitted'
  <2>1. ASSUME NEW k \in Keys, row'[k] # NoRow
        PROVE  row'[k].payload.version \in committed[k]
    <3>1. CASE k \in j.keys
      BY <1>1, <1>5, <1>6, <3>1 DEF EventInv, LoadsCommitted
    <3>2. CASE k \notin j.keys
      BY <1>6, <2>1, <3>2 DEF EventInv, LoadsCommitted
    <3> QED BY <3>1, <3>2
  <2>2. ASSUME NEW u \in Tasks, NEW k \in Indexing(u)'
        PROVE  task'[u].loaded[k].payload.version \in committed[k]
    BY <1>7 DEF EventInv, LoadsCommitted
  <2> QED BY <1>2, <2>1, <2>2 DEF LoadsCommitted
<1>11. IndexHoldsCommitted' /\ OpenIsQueued'
  BY <1>2 DEF EventInv, IndexHoldsCommitted, OpenIsQueued
<1>12. OneAtATime'
  BY <1>2, <1>7 DEF EventInv, OneAtATime
<1>13. SentIsFound'
  BY <1>2, <1>7, <1>8 DEF EventInv, SentIsFound
<1>14. PendingIsLoaded'
  <2> SUFFICES ASSUME NEW k \in Keys, row'[k].status = "pending", ~(queued[k] > 0), ~forgotten[k]
               PROVE  \E u \in Tasks : k \in Indexing(u)' /\ task'[u].loaded[k].status = "pending"
    BY <1>2 DEF PendingIsLoaded
  <2>1. row[k].status = "pending"
    BY <1>4, <1>5, <1>6
  <2>2. PICK u \in Tasks : k \in Indexing(u) /\ task[u].loaded[k].status = "pending"
    BY <2>1 DEF EventInv, PendingIsLoaded
  <2>3. u # t
    BY <1>1, <1>4, <1>5, <1>6, <2>2
  <2> QED BY <1>7, <2>2, <2>3
<1>15. IndexedWasLoaded'
  <2> SUFFICES ASSUME NEW k \in Keys, NEW u \in Tasks, ~overlapped[k], k \in Indexing(u)',
                      row'[k].status = "indexed"
               PROVE  task'[u].loaded[k].status = "indexed"
    BY <1>2 DEF IndexedWasLoaded
  <2>1. k \notin j.keys /\ u # t
    BY <1>7, <1>9
  <2> QED BY <1>6, <1>7, <2>1 DEF EventInv, IndexedWasLoaded
<1>16. ChangeIsQueued'
  <2> SUFFICES ASSUME NEW k \in Keys, NEW u \in Tasks, ~overlapped[k], ~forgotten[k],
                      k \in Indexing(u)', row'[k] # NoRow, row'[k].payload.hot,
                      Core(row'[k].payload) # Core(task'[u].loaded[k].payload)
               PROVE  queued[k] > 0
    BY <1>2 DEF ChangeIsQueued, Core
  <2>1. k \notin j.keys /\ u # t
    BY <1>7, <1>9
  <2> QED BY <1>6, <1>7, <2>1 DEF EventInv, ChangeIsQueued
<1>17. IndexedIsFound'
  <2> SUFFICES ASSUME NEW k \in Keys, ~overlapped[k], ~forgotten[k],
                      \A u \in Tasks : k \notin Indexing(u)',
                      row'[k].status = "indexed", row'[k].payload.hot
               PROVE  queued[k] > 0 \/ Found(k, row'[k].payload)
    BY <1>2, <1>8 DEF IndexedIsFound
  <2>1. CASE k \notin j.keys
    <3>1. \A u \in Tasks : k \notin Indexing(u)
      BY <1>1, <1>7, <2>1
    <3> QED BY <1>6, <2>1, <3>1 DEF EventInv, IndexedIsFound
  <2>2. CASE k \in j.keys
    <3>1. status(k) = "indexed"
      <4>1. CASE new(k).status = status(k)
        BY <1>6, <2>2, <4>1
      <4>2. CASE status(k) = j.loaded[k].status /\ new(k).status = row[k].status
        <5>1. row[k].status = "indexed"
          BY <1>6, <2>2, <4>2
        <5> QED BY <1>1, <2>2, <4>2, <5>1 DEF EventInv, IndexedWasLoaded
      <4> QED BY <1>5, <2>2, <4>1, <4>2
    <3>2. Found(k, j.loaded[k].payload)
      <4>1. PICK i \in 1..Len(j.results) : j.results[i] = ResultOf(k)
        BY <1>3, <2>2
      <4>2. j.results[i].key = k /\ j.results[i].ok
        BY <1>3, <1>4, <2>2, <3>1, <4>1
      <4> QED BY <1>1, <2>2, <4>2 DEF EventInv, SentIsFound
    <3>3. CASE new(k).payload = marked(k)
      BY <1>5, <1>6, <2>2, <3>2, <3>3, FoundByCore
    <3>4. CASE row[k] # NoRow /\ new(k).payload = row[k].payload
      <4>1. CASE Core(row[k].payload) = Core(j.loaded[k].payload)
        BY <1>6, <2>2, <3>2, <3>4, <4>1, FoundByCore
      <4>2. CASE Core(row[k].payload) # Core(j.loaded[k].payload)
        BY <1>1, <1>6, <2>2, <3>4, <4>2 DEF EventInv, ChangeIsQueued
      <4> QED BY <4>1, <4>2
    <3> QED BY <1>5, <2>2, <3>3, <3>4
  <2> QED BY <2>1, <2>2
<1> QED BY <1>7, <1>10, <1>11, <1>12, <1>13, <1>14, <1>15, <1>16, <1>17 DEF EventInv

----------------------------------------------------------------------------
(* The invariant, and what follows from it.                                 *)

LEMMA EventsBegin ==
  ASSUME Init
  PROVE  EventInv
<1>1. /\ \A k \in Keys : row[k] = NoRow /\ queued[k] = 0 /\ lock[k] = Nobody
      /\ \A k \in Keys, c \in Chunks : points[k][c] = 0
      /\ \A w \in Writers : writer[w] = NoWrite
      /\ \A t \in Tasks : task[t] = NoTask /\ Indexing(t) = {}
      /\ NoWrite.pc = "idle" /\ NoTask.pc = "idle" /\ NoRow.status = "none"
      /\ version = 0
  BY DEF Init, Indexing, NoTask, NoWrite, NoRow
<1>2. EventTypeOK
  <2>1. NoRow \in RowOrNone /\ NoWrite \in WriteType /\ TaskTypeOK(NoTask)
    BY DEF RowOrNone, WriteType, TaskTypeOK
  <2>2. /\ row \in [Keys -> RowOrNone] /\ lock \in [Keys -> Writers \cup {Nobody}]
        /\ queued \in [Keys -> 0..MaxVersions] /\ writer \in [Writers -> WriteType]
        /\ points \in [Keys -> [Chunks -> 0..MaxVersions]] /\ sent \in [Keys -> SUBSET Chunks]
        /\ version \in 0..MaxVersions /\ sweeps \in 0..MaxSweeps /\ faults \in 0..MaxFaults
        /\ committed \in [Keys -> SUBSET Versions]
        /\ forgotten \in [Keys -> BOOLEAN] /\ overlapped \in [Keys -> BOOLEAN]
    BY <2>1, EventAssumption DEF Init
  <2>3. \A k \in Keys, w \in Writers :
          lock[k] = w <=> (writer[w].pc = "open" /\ writer[w].key = k)
    BY <1>1, EventAssumption
  <2>4. \A t \in Tasks : TaskTypeOK(task[t])
    BY <1>1, <2>1
  <2> QED BY <2>2, <2>3, <2>4 DEF EventTypeOK
<1>3. QueueIsCounted
  <2> SUFFICES ASSUME NEW k \in Keys
               PROVE  IsFiniteSet(Flushing(k)) /\ queued[k] + Cardinality(Flushing(k)) <= version
    BY DEF QueueIsCounted
  <2>1. Flushing(k) = {}
    BY <1>1 DEF Flushing
  <2>2. IsFiniteSet({}) /\ Cardinality({}) = 0
    BY FS_EmptySet
  <2> QED BY <1>1, <2>1, <2>2
<1>4. EventTypes
  <2>1. task \in [Tasks -> IndexTask \cup {NoTask}] /\ \A t \in Tasks : TaskShape(task[t])
    BY <1>1 DEF Init, TaskShape
  <2> QED BY <1>2, <1>3, <2>1 DEF EventTypes
<1>5. LoadsCommitted /\ IndexHoldsCommitted /\ OpenIsQueued /\ PendingIsLoaded
  BY <1>1 DEF LoadsCommitted, IndexHoldsCommitted, OpenIsQueued, PendingIsLoaded
<1>6. OneAtATime /\ IndexedWasLoaded /\ ChangeIsQueued /\ SentIsFound /\ IndexedIsFound
  BY <1>1 DEF OneAtATime, IndexedWasLoaded, ChangeIsQueued, SentIsFound, IndexedIsFound
<1> QED BY <1>4, <1>5, <1>6 DEF EventInv

LEMMA EventsKept ==
  ASSUME EventInv, [Next]_vars
  PROVE  EventInv'
<1>1. ASSUME NEW w \in Writers, WriterStep(w)
      PROVE  EventInv'
  BY <1>1, LoadStep, FlushStep, FlushFailsStep, CommitStep, RollbackStep DEF WriterStep
<1>2. ASSUME NEW t \in Tasks, TaskStep(t)
      PROVE  EventInv'
  BY <1>2, TakeStep, SweepStep, IndexStep, FailStep, MarkStep DEF TaskStep
<1>3. CASE UNCHANGED vars
  <2>1. EventTypes'
    BY <1>3 DEF vars, EventInv, EventTypes, EventTypeOK, TaskTypeOK, TaskShape, QueueIsCounted, Flushing
  <2>2. OpenIsQueued'
    BY <1>3 DEF vars, EventInv, OpenIsQueued
  <2> QED BY <1>3, <2>1, <2>2, IndexKept DEF vars, EventInv, IndexInv
<1> QED BY <1>1, <1>2, <1>3 DEF Next

LEMMA EventsInvariant == Spec => []EventInv
BY EventsBegin, EventsKept, PTL DEF Spec

\* The state of ingestion and indexing has its types, and a row is locked exactly by
\* the transaction that is open on it.
THEOREM EventsAreTyped == Spec => []EventTypeOK
<1>1. EventInv => EventTypeOK
  BY DEF EventInv, EventTypes
<1> QED BY <1>1, EventsInvariant, PTL

\* Whatever the order of ingestions, indexings and failures: a pending event has its
\* task in the broker or at work, unless an indexing of it was lost.
THEOREM PendingIsWaitedFor == Spec => []PendingHasTask
<1>1. EventInv => PendingHasTask
  BY DEF EventInv, PendingIsLoaded, PendingHasTask
<1> QED BY <1>1, EventsInvariant, PTL

\* Whatever is rolled back, the vector index holds committed versions alone.
THEOREM IndexIsCommitted == Spec => []IndexHoldsCommitted
<1>1. EventInv => IndexHoldsCommitted
  BY DEF EventInv
<1> QED BY <1>1, EventsInvariant, PTL

\* Search reaches an indexed event at rest by every chunk that got an embedding when
\* it was indexed last, at least one, and each is of the payload in its row, unless an
\* indexing of it was lost or two ran at once.  Nothing is said of older points.
THEOREM IndexedChunksAreFound == Spec => []EmbeddedChunksAreFound
<1>1. EventInv => EmbeddedChunksAreFound
  <2> SUFFICES ASSUME EventInv, NEW k \in Keys, AtRest(k), row[k].status = "indexed",
                      row[k].payload.hot, ~forgotten[k], ~overlapped[k]
               PROVE  Found(k, row[k].payload)
    BY DEF EmbeddedChunksAreFound, Found
  <2>1. queued[k] = 0 /\ \A t \in Tasks : k \notin Indexing(t)
    BY DEF AtRest
  <2>2. queued[k] > 0 \/ Found(k, row[k].payload)
    BY <2>1 DEF EventInv, IndexedIsFound
  <2> QED BY <2>1, <2>2
<1> QED BY <1>1, EventsInvariant, PTL

=============================================================================

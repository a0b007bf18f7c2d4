----------------------------- MODULE WorkEvents -----------------------------
(***************************************************************************)
(* Ingestion of work events and their vector index: upsert_work_event       *)
(* (services/work_events.py), the Celery tasks that index an event or every *)
(* pending one (tasks/celery_app.py) and WorkEventVectorIndex               *)
(* (services/ai/vector_search.py).                                          *)
(*                                                                          *)
(* An event is stored once per (source, external_id), a key here.  Of its   *)
(* columns the model keeps payload (the version ingested, whether it asks   *)
(* for vectors, how many chunks it has, and the index status written into   *)
(* rag_indexing) and vector_status.  The database is PostgreSQL at READ     *)
(* COMMITTED: a row changed by an open transaction is locked, readers see   *)
(* the last commit, and SQLAlchemy writes only columns whose value differs  *)
(* from the one it loaded.  Points of the vector index are replaced one by  *)
(* one and never deleted.                                                   *)
(***************************************************************************)
EXTENDS Naturals, Sequences, FiniteSets

CONSTANTS
  Keys,        \* (source, external_id) of an event
  Writers,     \* transactions that ingest: webhook, sync, mail
  Tasks,       \* processes that index: Celery workers, the admin request
  MaxVersions, \* bound: ingestions, over all keys; each brings a new version
  MaxChunks,   \* bound: chunks of one document
  MaxSweeps,   \* bound: requests to index what is pending
  MaxFaults    \* bound: failures of the broker, of the vector store, and crashes

Nobody == "nobody"

ASSUME EventAssumption ==
  /\ MaxVersions \in Nat /\ MaxChunks \in Nat \ {0} /\ MaxSweeps \in Nat /\ MaxFaults \in Nat
  /\ Writers \cap Tasks = {} /\ Nobody \notin Writers

VARIABLES
  row,       \* the committed row of each key, or NoRow
  lock,      \* the writer that holds the row's lock, or Nobody
  queued,    \* vectorize tasks in the broker, per key
  points,    \* the version of each chunk's point in the index, 0 for none
  writer,    \* each writer's transaction
  task,      \* each indexing process
  version,   \* ingestions so far
  sweeps, faults,
  sent,      \* ghost: the chunks that the latest indexing of the key sent
  committed, \* ghost: versions ever committed, per key
  forgotten, \* ghost: an indexing of the key was lost, see Forget
  overlapped \* ghost: two processes indexed the key at once

vars == <<row, lock, queued, points, sent, writer, task, version, sweeps, faults,
          committed, forgotten, overlapped>>
ghosts == <<committed, forgotten, overlapped>>

----------------------------------------------------------------------------
Versions == 1..MaxVersions
Chunks == 1..MaxChunks
Statuses == {"pending", "indexed", "skipped"}

\* hot: should_vectorize_work_event of the payload; mark: rag_indexing.vector_status
Payload == [version : Versions, hot : BOOLEAN, size : Chunks, mark : Statuses]
Row == [payload : Payload, status : Statuses]
NoRow == [status |-> "none"]
RowOrNone == Row \cup {NoRow}

NoWrite == [pc |-> "idle"]
NoTask == [pc |-> "idle"]

Init ==
  /\ row = [k \in Keys |-> NoRow]
  /\ lock = [k \in Keys |-> Nobody]
  /\ queued = [k \in Keys |-> 0]
  /\ points = [k \in Keys |-> [c \in Chunks |-> 0]]
  /\ sent = [k \in Keys |-> {}]
  /\ writer = [w \in Writers |-> NoWrite]
  /\ task = [t \in Tasks |-> NoTask]
  /\ version = 0 /\ sweeps = 0 /\ faults = 0
  /\ committed = [k \in Keys |-> {}]
  /\ forgotten = [k \in Keys |-> FALSE]
  /\ overlapped = [k \in Keys |-> FALSE]

----------------------------------------------------------------------------
(* upsert_work_event                                                        *)

\* The select by key, and the payload the caller brings; an empty payload
\* keeps the stored one (payload or event.payload).
LoadEvent(w, k, hot, size) ==
  /\ writer[w].pc = "idle"
  /\ version < MaxVersions
  /\ version' = version + 1
  /\ writer' = [writer EXCEPT ![w] =
       [pc |-> "flush", key |-> k, loaded |-> row[k],
        payload |-> [version |-> version + 1, hot |-> hot, size |-> size, mark |-> "pending"]]]
  /\ UNCHANGED <<row, lock, queued, points, sent, task, sweeps, faults, ghosts>>

LoadEventKeepPayload(w, k) ==
  /\ writer[w].pc = "idle"
  /\ row[k] # NoRow
  /\ version < MaxVersions
  /\ version' = version + 1
  /\ writer' = [writer EXCEPT ![w] =
       [pc |-> "flush", key |-> k, loaded |-> row[k], payload |-> row[k].payload]]
  /\ UNCHANGED <<row, lock, queued, points, sent, task, sweeps, faults, ghosts>>

\* "pending" if should_enqueue_vectorize else "skipped"
NewStatus(payload) == IF payload.hot THEN "pending" ELSE "skipped"

\* The columns an UPDATE writes are those that differ from the loaded row.
Written(now, loaded, payload, status) ==
  IF now = NoRow THEN [payload |-> payload, status |-> status]
  ELSE [payload |-> IF payload = loaded.payload THEN now.payload ELSE payload,
        status  |-> IF status = loaded.status THEN now.status ELSE status]

\* A mutant of Enqueued: only a new event is queued for indexing.
EnqueuedNew(payload, loaded) == payload.hot /\ loaded = NoRow

\* A mutant of Enqueued: an event that is pending already is not queued again.
EnqueuedUnlessPending(payload, loaded) ==
  payload.hot /\ (loaded = NoRow \/ loaded.status # "pending")

\* if should_enqueue_vectorize: _enqueue_vectorize_event
Enqueued(payload, loaded) == payload.hot

\* db.flush waits for the row's lock; the task goes to the broker before the
\* commit.  A broker that refuses it is only recorded in the audit log.
FlushEvent(w, delivered) ==
  LET k == writer[w].key
      enqueues == Enqueued(writer[w].payload, writer[w].loaded)
  IN /\ writer[w].pc = "flush"
     /\ lock[k] = Nobody
     /\ writer[w].loaded = NoRow => row[k] = NoRow
     /\ lock' = [lock EXCEPT ![k] = w]
     /\ writer' = [writer EXCEPT ![w].pc = "open"]
     /\ delivered \/ (enqueues /\ faults < MaxFaults)
     /\ faults' = IF delivered THEN faults ELSE faults + 1
     /\ queued' = IF delivered /\ enqueues THEN [queued EXCEPT ![k] = @ + 1] ELSE queued
     /\ forgotten' = [forgotten EXCEPT ![k] = IF enqueues THEN ~delivered ELSE @]
     /\ UNCHANGED <<row, points, sent, task, version, sweeps, committed, overlapped>>

\* Another transaction inserted the key since the select: the unique constraint
\* (source, external_id) fails the flush, before anything was queued.
FlushFails(w) ==
  LET k == writer[w].key
  IN /\ writer[w].pc = "flush"
     /\ lock[k] = Nobody
     /\ writer[w].loaded = NoRow /\ row[k] # NoRow
     /\ writer' = [writer EXCEPT ![w] = NoWrite]
     /\ UNCHANGED <<row, lock, queued, points, sent, task, version, sweeps, faults, ghosts>>

\* The caller commits, when the rest of its work is done.
CommitEvent(w) ==
  LET k == writer[w].key
      new == Written(row[k], writer[w].loaded, writer[w].payload, NewStatus(writer[w].payload))
  IN /\ writer[w].pc = "open"
     /\ row' = [row EXCEPT ![k] = new]
     /\ committed' = [committed EXCEPT ![k] = @ \cup {new.payload.version}]
     /\ lock' = [lock EXCEPT ![k] = Nobody]
     /\ writer' = [writer EXCEPT ![w] = NoWrite]
     /\ UNCHANGED <<queued, points, sent, task, version, sweeps, faults, forgotten, overlapped>>

\* The rest of the caller's work fails, or its process dies; the task stays queued.
RollbackEvent(w) ==
  /\ writer[w].pc = "open"
  /\ faults < MaxFaults
  /\ faults' = faults + 1
  /\ lock' = [lock EXCEPT ![writer[w].key] = Nobody]
  /\ writer' = [writer EXCEPT ![w] = NoWrite]
  /\ UNCHANGED <<row, queued, points, sent, task, version, sweeps, ghosts>>

----------------------------------------------------------------------------
(* vectorize_work_event_task, vectorize_pending_work_events_task            *)

\* A mutant of Visible: the task is handed the event as it was when it was queued.
VisibleUncommitted(k) ==
  IF lock[k] = Nobody THEN row[k]
  ELSE [payload |-> writer[lock[k]].payload, status |-> "pending"]

\* db.get reads the last commit.
Visible(k) == row[k]

Indexing(t) == IF task[t].pc = "idle" THEN {} ELSE task[t].keys

\* A process starts on keys, with the rows as they are now.  results: what
\* upsert_event returned so far.
Start(t, keys) ==
  task' = [task EXCEPT ![t] = [pc |-> "index", keys |-> keys, todo |-> keys,
                               loaded |-> [k \in keys |-> Visible(k)], results |-> <<>>]]

\* An indexing of the keys is lost: it met a transaction that is not committed,
\* it raised, or it died.
Forget(keys) == forgotten' = [k \in Keys |-> forgotten[k] \/ k \in keys]

MeetsOthers(t, keys) ==
  overlapped' = [k \in Keys |-> overlapped[k] \/ (k \in keys /\ \E u \in Tasks \ {t} : k \in Indexing(u))]

TakeTask(t, k) ==
  /\ task[t].pc = "idle"
  /\ queued[k] > 0
  /\ queued' = [queued EXCEPT ![k] = @ - 1]
  /\ IF Visible(k) = NoRow
     THEN /\ Forget({k})                          \* {"ok": False}
          /\ UNCHANGED <<task, overlapped>>
     ELSE /\ Start(t, {k})
          /\ MeetsOthers(t, {k})
          /\ Forget(IF lock[k] = Nobody THEN {} ELSE {k})
  /\ UNCHANGED <<row, lock, points, sent, writer, version, sweeps, faults, committed>>

\* The admin request for the pending events, all of them in one transaction.
Sweep(t) ==
  LET pending == {k \in Keys : row[k].status = "pending"}
  IN /\ task[t].pc = "idle"
     /\ sweeps < MaxSweeps
     /\ sweeps' = sweeps + 1
     /\ pending # {}
     /\ Start(t, pending)
     /\ MeetsOthers(t, pending)
     /\ UNCHANGED <<row, lock, queued, points, sent, writer, version, faults, committed, forgotten>>

\* upsert_event: every chunk that gets an embedding replaces its point; without
\* any, or for a payload that asks for none, nothing is sent.
IndexEvent(t, k, embedded) ==
  LET payload == task[t].loaded[k].payload
      chunks == IF payload.hot THEN embedded \cap 1..payload.size ELSE {}
  IN /\ task[t].pc = "index"
     /\ k \in task[t].todo
     /\ points' = [points EXCEPT ![k] = [c \in Chunks |-> IF c \in chunks THEN payload.version ELSE @[c]]]
     /\ sent' = [sent EXCEPT ![k] = chunks]
     /\ task' = [task EXCEPT
          ![t].todo = @ \ {k},
          ![t].results = Append(@, [key |-> k, ok |-> chunks # {}]),
          ![t].pc = IF task[t].todo = {k} THEN "mark" ELSE "index"]
     /\ UNCHANGED <<row, lock, queued, writer, version, sweeps, faults, ghosts>>

\* The vector store or the embedding service raises, or the process dies, before or
\* after the points were sent.  There is no retry.
TaskFails(t) ==
  /\ task[t].pc \in {"index", "mark"}
  /\ faults < MaxFaults
  /\ faults' = faults + 1
  /\ Forget(task[t].keys)
  /\ task' = [task EXCEPT ![t] = NoTask]
  /\ UNCHANGED <<row, lock, queued, points, sent, writer, version, sweeps, committed, overlapped>>

\* A mutant of Outcome: a status that no reader knows.
OutcomeFailed(ok) == IF ok THEN "indexed" ELSE "failed"

\* mark_event_vector_indexing_result
Outcome(ok) == IF ok THEN "indexed" ELSE "skipped"

\* The payload is written back whole, as loaded, with the status in it.
Marked(payload, status) == IF payload.hot THEN [payload EXCEPT !.mark = status] ELSE payload

\* mark_event_vector_indexing_result for each event, then the commit, which
\* waits for the rows' locks.
MarkAndCommit(t) ==
  LET results == {task[t].results[i] : i \in 1..Len(task[t].results)}
      ResultOf(k) == CHOOSE r \in results : r.key = k
      New(k) == LET status == Outcome(ResultOf(k).ok)
                    loaded == task[t].loaded[k]
                IN Written(row[k], loaded, Marked(loaded.payload, status), status)
  IN /\ task[t].pc = "mark"
     /\ \A k \in task[t].keys : lock[k] = Nobody
     /\ row' = [k \in Keys |-> IF k \in task[t].keys THEN New(k) ELSE row[k]]
     /\ task' = [task EXCEPT ![t] = NoTask]
     /\ UNCHANGED <<lock, queued, points, sent, writer, version, sweeps, faults, ghosts>>

WriterStep(w) ==
  \/ \E k \in Keys, hot \in BOOLEAN, size \in Chunks : LoadEvent(w, k, hot, size)
  \/ \E k \in Keys : LoadEventKeepPayload(w, k)
  \/ \E delivered \in BOOLEAN : FlushEvent(w, delivered)
  \/ FlushFails(w)
  \/ CommitEvent(w)
  \/ RollbackEvent(w)

TaskStep(t) ==
  \/ \E k \in Keys : TakeTask(t, k)
  \/ Sweep(t)
  \/ \E k \in Keys, embedded \in SUBSET Chunks : IndexEvent(t, k, embedded)
  \/ TaskFails(t)
  \/ MarkAndCommit(t)

Next == (\E w \in Writers : WriterStep(w)) \/ (\E t \in Tasks : TaskStep(t))

Spec == Init /\ [][Next]_vars

----------------------------------------------------------------------------
(* Properties                                                               *)

WriteType ==
  [pc : {"flush", "open"}, key : Keys, loaded : RowOrNone, payload : Payload] \cup {NoWrite}

TaskTypeOK(j) ==
  \/ j = NoTask
  \/ /\ j.pc \in {"index", "mark"}
     /\ j.keys \subseteq Keys /\ j.todo \subseteq j.keys
     /\ j.loaded \in [j.keys -> Row]
     /\ \A i \in 1..Len(j.results) : j.results[i] \in [key : j.keys \ j.todo, ok : BOOLEAN]

\* Types, and: a row's lock is held exactly by the writer whose transaction is open on it.
EventTypeOK ==
  /\ row \in [Keys -> RowOrNone]
  /\ lock \in [Keys -> Writers \cup {Nobody}]
  /\ \A k \in Keys, w \in Writers :
       lock[k] = w <=> (writer[w].pc = "open" /\ writer[w].key = k)
  /\ queued \in [Keys -> 0..MaxVersions]
  /\ points \in [Keys -> [Chunks -> 0..MaxVersions]]
  /\ sent \in [Keys -> SUBSET Chunks]
  /\ writer \in [Writers -> WriteType]
  /\ \A t \in Tasks : TaskTypeOK(task[t])
  /\ version \in 0..MaxVersions /\ sweeps \in 0..MaxSweeps /\ faults \in 0..MaxFaults
  /\ committed \in [Keys -> SUBSET Versions]
  /\ forgotten \in [Keys -> BOOLEAN] /\ overlapped \in [Keys -> BOOLEAN]

\* An event stored as "pending" is waited for: its task is in the broker or at work,
\* or was lost in one of the ways Forget names (refused by the broker, run before the
\* commit, raised, died).  There is no other way for an event to stay pending.
PendingHasTask ==
  \A k \in Keys :
    row[k].status = "pending" =>
       queued[k] > 0 \/ forgotten[k] \/ \E t \in Tasks : k \in Indexing(t)

\* The index holds only what was stored: an ingestion that is rolled back after its
\* task was queued never reaches the index, because the task reads the row itself.
IndexHoldsCommitted ==
  \A k \in Keys, c \in Chunks : points[k][c] = 0 \/ points[k][c] \in committed[k]

AtRest(k) ==
  /\ queued[k] = 0
  /\ \A t \in Tasks : k \notin Indexing(t)
  /\ \A w \in Writers : writer[w].pc = "idle" \/ writer[w].key # k

\* When all is done, search reaches an "indexed" event by every chunk that got an
\* embedding when its payload was indexed last, there is at least one, and each is of
\* the payload that the row holds; provided no indexing was lost and no two of one
\* event ran at once: the payload that mark_event_vector_indexing_result writes back
\* is the one it indexed.  Older points may be found beside them, past the end of a
\* document that shrank and at chunks without an embedding; and the payload need not
\* be the latest ingested, which the marking may have overwritten.
EmbeddedChunksAreFound ==
  \A k \in Keys :
    (AtRest(k) /\ row[k].status = "indexed" /\ row[k].payload.hot
       /\ ~forgotten[k] /\ ~overlapped[k]) =>
       /\ sent[k] # {} /\ sent[k] \subseteq 1..row[k].payload.size
       /\ \A c \in sent[k] : points[k][c] = row[k].payload.version

=============================================================================

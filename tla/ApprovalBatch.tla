---------------------------- MODULE ApprovalBatch ----------------------------
(***************************************************************************)
(* Batch approval: the approval workbench card, the confirmation card of a *)
(* batch (app/services/feishu/confirmation_card_entrypoint.py) and the     *)
(* Celery task that submits the batch (bot_approvals_batch_approve_task in *)
(* app/tasks/celery_app.py).  It does not go through run_runtime_v5.       *)
(*                                                                         *)
(* The workbench numbers the rows of the chat's result context, and a      *)
(* selection is a set of these numbers.  A batch holds the rows themselves.*)
(* Every handler is a program: a sequence of steps, each of them a         *)
(* read-modify-write of the whole session (a load and, later, a store), a  *)
(* write of the result context, or an effect outside (a card, a queued     *)
(* task, a call of the provider).  Handlers interleave between steps.      *)
(***************************************************************************)
EXTENDS Naturals, Sequences, SequencesExt, FiniteSets

CONSTANTS
    Approvals,      \* the approvals a query can list
    LowRisk,        \* those whose assessment puts them in the group "pass"
    Listings,       \* the lists a query can return
    MaxIndex,       \* bound on the numbers of the workbench's rows
    Procs,          \* threads and workers
    MaxQueries,     \* bound on the query ids in use at a time
    MaxBatches,     \* bound on the batches prepared
    MaxConfirms,    \* bound on the confirming clicks, and so on the tasks queued
    MaxCrashes      \* bound on the handlers that die or raise

\* A row of a receipt or of a pending confirmation: it names no approval task.
NoteRow == "note"

ASSUME BatchAssumption ==
    /\ LowRisk \subseteq Approvals /\ NoteRow \notin Approvals
    /\ Listings \subseteq {list \in Seq(Approvals) : Len(list) <= MaxIndex}
    /\ IsFiniteSet(Procs)
    /\ {MaxIndex, MaxQueries, MaxBatches, MaxConfirms, MaxCrashes} \subseteq Nat

Rows == Approvals \cup {NoteRow}

Indexes == 1..MaxIndex

NoBatch == [id |-> 0, items |-> <<>>]

NoResult == [query |-> 0, items |-> <<>>]

\* selection, batch: runtime_v5_approval_batch_selection and
\* runtime_v5_pending_approval_batch; seen: the query the workbench was last
\* drawn for.
EmptySession == [selection |-> {}, batch |-> NoBatch, seen |-> 0]

VARIABLES
    session,    \* the batch part of the session in Redis
    result,     \* the result context; query = 0 unless it is a list
    expired,    \* the result context is gone from Redis
    proc,       \* the handler each process is in
    tasks,      \* queued batch tasks
    batches,    \* batches so far; also the last id handed out
    confirms,   \* confirming clicks so far
    lapsed,     \* ids of batches whose expires_at has passed
    cards,      \* confirmation cards sent
    crashes,
    \* history, read by no action:
    ticked,     \* the approvals the user has ticked in the list shown last
    confirmed,  \* ids of batches whose card was confirmed
    cancelled,  \* ids of batches whose user was told that they are cancelled
    handed      \* <<id, row, times>>: what was handed to the provider

history == <<ticked, confirmed, cancelled, handed>>
bounds == <<tasks, batches, confirms, lapsed, crashes>>
vars == <<session, result, expired, proc, cards, bounds, history>>

-----------------------------------------------------------------------------
(* Programs *)

\* One step: its name and what it carries
Step(op) == [op |-> op, sel |-> {}, batch |-> NoBatch, result |-> NoResult,
             copy |-> EmptySession]

Touch == Step("touch")                      \* a trace or an event is added
Render == Step("render")                    \* the workbench is drawn again
SetSelection(S) == [Step("select") EXCEPT !.sel = S]
Offer(b) == [Step("offer") EXCEPT !.batch = b]
Clear == Step("clear")
Clean == Step("clean")
Keep(s) == [Step("keep") EXCEPT !.copy = s]
SetResult(r) == [Step("result") EXCEPT !.result = r]

SessionOps == {"touch", "render", "select", "offer", "clear", "clean"}

Idle == [todo |-> <<>>, loaded |-> FALSE, buf |-> EmptySession, won |-> FALSE]

IsIdle(p) == proc[p].todo = <<>>

Continue(p, program) == proc' = [proc EXCEPT ![p] = [Idle EXCEPT !.todo = program]]

Begin(p, program) == IsIdle(p) /\ Continue(p, program)

\* What is left of a program when its first step is done; won: an entry of the
\* task's batch has succeeded.
Rest(w, won) == [Idle EXCEPT !.todo = Tail(w.todo), !.won = won]

Done(p) ==
    proc' = [proc EXCEPT ![p] = IF Len(proc[p].todo) = 1 THEN Idle ELSE Rest(proc[p], proc[p].won)]

At(p, op) == ~IsIdle(p) /\ Head(proc[p].todo).op = op

-----------------------------------------------------------------------------
(* Rows and selections *)

\* The k-th of the numbers in S, in ascending order
Kth(S, k) == CHOOSE i \in S : Cardinality({j \in S : j <= i}) = k

\* The rows that the selected numbers name; numbers outside are skipped.
Resolve(items, S) ==
    LET inside == {i \in S : i <= Len(items)}
    IN [k \in 1..Cardinality(inside) |-> items[Kth(inside, k)]]

Toggle(S, i) == IF i \in S THEN S \ {i} ELSE S \cup {i}

group_indexes(items) == {i \in DOMAIN items : items[i] \in LowRisk}

\* What _save_approval_pending_confirmation, a receipt or the result of a batch
\* puts in the place of the list: one row for each of the batch's, or one.
Notes(items) ==
    [query |-> 0, items |-> IF items = <<>> THEN <<NoteRow>> ELSE [i \in DOMAIN items |-> NoteRow]]

\* Mutant: only the selection is dropped.
WithoutSelection(s) == [s EXCEPT !.selection = {}]

\* _clear_batch_state
WithoutBatch(s) == [s EXCEPT !.batch = NoBatch, !.selection = {}]

\* Mutant: a new list keeps the old selection.
Rendered_keeping(s) == [s EXCEPT !.seen = result.query]

\* _reset_approval_workbench_ui_state_if_new_result
Rendered(s) == [s EXCEPT !.seen = result.query, !.selection = {}]

\* Only a list with rows draws the workbench.
NeedsReset(s) == ~expired /\ result.query # 0 /\ result.items # <<>> /\ s.seen # result.query

Stored(step, s) ==
    CASE step.op = "select" -> [s EXCEPT !.selection = step.sel]
      [] step.op = "offer"  -> [s EXCEPT !.batch = step.batch]
      [] step.op = "clear"  -> WithoutBatch(s)
      [] step.op = "clean"  -> [s EXCEPT !.batch = IF s.batch.id \in lapsed THEN NoBatch
                                                            ELSE s.batch]
      [] step.op = "render" /\ NeedsReset(s) -> Rendered(s)
      [] OTHER -> s

-----------------------------------------------------------------------------
(* The steps of a handler *)

LoadSession(p) ==
    /\ ~IsIdle(p) /\ Head(proc[p].todo).op \in SessionOps /\ ~proc[p].loaded
    /\ proc' = [proc EXCEPT ![p] = [@ EXCEPT !.loaded = TRUE, !.buf = session]]
    /\ UNCHANGED <<session, result, expired, cards, bounds, history>>

StoreSession(p) ==
    /\ proc[p].loaded
    /\ session' = Stored(Head(proc[p].todo), proc[p].buf)
    /\ Done(p)
    /\ UNCHANGED <<result, expired, cards, bounds, history>>

\* A write of the session that the handler has held since it began
KeepSession(p) ==
    /\ At(p, "keep")
    /\ session' = Head(proc[p].todo).copy
    /\ Done(p)
    /\ UNCHANGED <<result, expired, cards, bounds, history>>

SaveResult(p) ==
    /\ At(p, "result")
    /\ result' = Head(proc[p].todo).result
    /\ expired' = FALSE
    /\ Done(p)
    /\ UNCHANGED <<session, cards, bounds, history>>

ClearResult(p) ==
    /\ At(p, "clear_result")
    /\ result' = NoResult /\ expired' = TRUE
    /\ Done(p)
    /\ UNCHANGED <<session, cards, bounds, history>>

-----------------------------------------------------------------------------
(* _handle_runtime_approval_workbench *)

\* select: the new selection is computed from a first load.
Select(p, i) ==
    /\ ~expired
    /\ Begin(p, <<SetSelection(Toggle(session.selection, i)), Render>>)
    /\ ticked' = IF i \in DOMAIN result.items /\ result.items[i] \in Approvals
                 THEN IF i \in session.selection THEN ticked \ {result.items[i]}
                                                 ELSE ticked \cup {result.items[i]}
                 ELSE ticked
    /\ UNCHANGED <<session, result, expired, cards, bounds, confirmed, cancelled, handed>>

\* toggle_group, toggle_collapse: what is folded changes, and the card is drawn.
Fold(p) ==
    /\ Begin(p, <<Touch, Render>>)
    /\ UNCHANGED <<session, result, expired, cards, bounds, history>>

ClearSelection(p) ==
    /\ Begin(p, <<SetSelection({}), Render>>)
    /\ ticked' = {}
    /\ UNCHANGED <<session, result, expired, cards, bounds, confirmed, cancelled, handed>>

\* The bound on batches counts the handlers that are about to prepare one.
MayPrepare ==
    batches + Cardinality({p \in Procs : \E i \in DOMAIN proc[p].todo :
                                            proc[p].todo[i].op = "prepare"}) < MaxBatches

BatchApprove(p) ==
    /\ ~expired /\ MayPrepare
    /\ Begin(p, <<Touch, Step("prepare")>>)
    /\ UNCHANGED <<session, result, expired, cards, bounds, history>>

\* batch_approve_group: the button stands for ticking the whole group.
BatchApproveGroup(p) ==
    /\ ~expired /\ MayPrepare
    /\ Begin(p, <<SetSelection(group_indexes(result.items)), Step("prepare")>>)
    /\ ticked' = {result.items[i] : i \in group_indexes(result.items)}
    /\ UNCHANGED <<session, result, expired, cards, bounds, confirmed, cancelled, handed>>

\* _prepare_batch_approve_confirmation
Prepare(p) ==
    /\ At(p, "prepare")
    /\ LET items == IF expired THEN <<>> ELSE Resolve(result.items, session.selection)
           b == [id |-> batches + 1, items |-> items]
       IN IF items = <<>>
          THEN Done(p) /\ UNCHANGED batches
          ELSE /\ batches' = batches + 1
               /\ Continue(p, <<Offer(b), SetResult(Notes(items)), Touch,
                                [Step("card") EXCEPT !.batch = b], Touch>>)
    /\ UNCHANGED <<session, result, expired, cards, tasks, confirms, lapsed, crashes, history>>

SendCard(p) ==
    /\ At(p, "card")
    /\ cards' = cards \cup {Head(proc[p].todo).batch.id}
    /\ Done(p)
    /\ UNCHANGED <<session, result, expired, bounds, history>>

-----------------------------------------------------------------------------
(* _handle_runtime_approval_batch_confirm *)

Receipt(items) == <<Touch, SetResult(Notes(items)), Touch>>

IsPending(id) == session.batch.id = id

ClickStale(p, id) ==
    /\ id \in cards /\ ~IsPending(id)
    /\ Begin(p, Receipt(session.batch.items))
    /\ UNCHANGED <<session, result, expired, cards, bounds, history>>

ClickExpired(p, id) ==
    /\ id \in cards /\ IsPending(id) /\ id \in lapsed
    /\ Begin(p, <<Clear>> \o Receipt(session.batch.items))
    /\ UNCHANGED <<session, result, expired, cards, bounds, history>>

ClickCancel(p, id) ==
    /\ id \in cards /\ IsPending(id) /\ id \notin lapsed
    /\ Begin(p, <<Clear>> \o Receipt(session.batch.items)
                \o <<[Step("tell") EXCEPT !.batch = session.batch]>>)
    /\ UNCHANGED <<session, result, expired, cards, bounds, history>>

TellCancelled(p) ==
    /\ At(p, "tell")
    /\ cancelled' = cancelled \cup {Head(proc[p].todo).batch.id}
    /\ Done(p)
    /\ UNCHANGED <<session, result, expired, cards, bounds, ticked, confirmed, handed>>

ClickConfirm(p, id) ==
    /\ id \in cards /\ IsPending(id) /\ id \notin lapsed
    /\ confirms < MaxConfirms
    /\ confirms' = confirms + 1
    /\ Begin(p, Receipt(session.batch.items) \o <<Step("queue")>>)
    /\ confirmed' = confirmed \cup {id}
    /\ UNCHANGED <<session, result, expired, cards, tasks, batches, lapsed, crashes,
                   ticked, cancelled, handed>>

\* _enqueue_batch_approve: the task carries the chat and no batch id.
Queue(p) ==
    /\ At(p, "queue")
    /\ tasks' = tasks + 1
    /\ Done(p)
    /\ UNCHANGED <<session, result, expired, cards, batches, confirms, lapsed, crashes, history>>

-----------------------------------------------------------------------------
(* bot_approvals_batch_approve_task *)

\* Mutant: the batch stays in the session when it has been submitted.
Settled_kept(s) == [s EXCEPT !.selection = {}]

\* Mutant: the batch loses its id and keeps its rows.
Settled_rows(s) == [s EXCEPT !.batch.id = 0, !.selection = {}]

\* The session as it was when the task began, without the batch
Settled(s) == WithoutBatch(s)

StartTask(p) ==
    /\ tasks > 0
    /\ tasks' = tasks - 1
    /\ LET rows == session.batch.items
       IN Begin(p, IF rows = <<>> THEN <<SetResult(Notes(<<>>)), Touch>>
                   ELSE [i \in DOMAIN rows |->
                            [Step("submit") EXCEPT !.batch = [id |-> session.batch.id,
                                                              items |-> <<rows[i]>>]]]
                        \o <<[Step("settle") EXCEPT !.copy = session]>>)
    /\ UNCHANGED <<session, result, expired, cards, batches, confirms, lapsed, crashes, history>>

\* Times a row of a batch was handed to the provider
Times(id, row) == Cardinality({h \in handed : h[1] = id /\ h[2] = row})

Hand(b) == handed' = handed \cup {<<b.id, b.items[1], Times(b.id, b.items[1]) + 1>>}

\* provider.execute for one entry; a row without a task cannot succeed.
Submit(p, success) ==
    /\ At(p, "submit")
    /\ LET b == Head(proc[p].todo).batch
       IN /\ success => b.items[1] \in Approvals
          /\ Hand(b)
    /\ proc' = [proc EXCEPT ![p] = Rest(proc[p], proc[p].won \/ success)]
    /\ UNCHANGED <<session, result, expired, cards, bounds, ticked, confirmed, cancelled>>

Settle(p) ==
    /\ At(p, "settle")
    /\ LET s == Head(proc[p].todo).copy
           cleared == IF proc[p].won THEN <<Step("clear_result"), Touch>> ELSE <<>>
       IN /\ session' = Settled(s)
          /\ Continue(p, <<Touch>> \o cleared \o <<SetResult(Notes(s.batch.items)), Touch>>)
    /\ UNCHANGED <<result, expired, cards, bounds, history>>

\* The provider raises: the handler of the task writes a receipt of the error
\* and leaves the batch pending.
SubmitRaises(p) ==
    /\ At(p, "submit") /\ crashes < MaxCrashes
    /\ crashes' = crashes + 1
    /\ Hand(Head(proc[p].todo).batch)
    /\ Continue(p, Receipt(<<>>))
    /\ UNCHANGED <<session, result, expired, cards, tasks, batches, confirms, lapsed,
                   ticked, confirmed, cancelled>>

-----------------------------------------------------------------------------
(* The rest of the chat *)

\* Query ids (uuid4) that nothing refers to any more may be used again.
UsedQueries ==
    {session.seen, result.query}
      \cup UNION {{proc[p].buf.seen} \cup
                  UNION {{proc[p].todo[i].copy.seen, proc[p].todo[i].result.query} :
                            i \in DOMAIN proc[p].todo} : p \in Procs}

\* A question that lists approvals: the turn of RuntimeV5 writes its session
\* before and after the result, cleans up, and the workbench is drawn.
Query(p, list) ==
    /\ 1..MaxQueries \ UsedQueries # {}
    /\ LET q == Min(1..MaxQueries \ UsedQueries)
       IN Begin(p, <<Keep(session), SetResult([query |-> q, items |-> list]), Touch,
                     Keep(session), Clean, Touch, Render>>)
    /\ ticked' = {}
    /\ UNCHANGED <<session, result, expired, cards, bounds, confirmed, cancelled, handed>>

Crash(p) ==
    /\ ~IsIdle(p) /\ crashes < MaxCrashes
    /\ crashes' = crashes + 1
    /\ proc' = [proc EXCEPT ![p] = Idle]
    /\ UNCHANGED <<session, result, expired, cards, tasks, batches, confirms, lapsed, history>>

\* 900 seconds pass after a batch was prepared.
Lapse(id) ==
    /\ id <= batches /\ id \notin lapsed
    /\ lapsed' = lapsed \cup {id}
    /\ UNCHANGED <<session, result, expired, proc, cards, tasks, batches, confirms, crashes, history>>

\* 1800 seconds without a write.  The session is written after the result
\* context, so it is dropped after it; by then every batch has lapsed.
ExpireResult ==
    /\ \A p \in Procs : IsIdle(p)
    /\ ~expired
    /\ result' = NoResult /\ expired' = TRUE
    /\ UNCHANGED <<session, proc, cards, bounds, history>>

ExpireSession ==
    /\ \A p \in Procs : IsIdle(p)
    /\ expired /\ session # EmptySession
    /\ session' = EmptySession
    /\ lapsed' = lapsed \cup 1..batches
    /\ ticked' = {}
    /\ UNCHANGED <<result, expired, proc, cards, tasks, batches, confirms, crashes,
                   confirmed, cancelled, handed>>

-----------------------------------------------------------------------------
Init ==
    /\ session = EmptySession
    /\ result = NoResult /\ expired = TRUE
    /\ proc = [p \in Procs |-> Idle]
    /\ tasks = 0 /\ batches = 0 /\ confirms = 0 /\ crashes = 0
    /\ lapsed = {} /\ cards = {}
    /\ ticked = {} /\ confirmed = {} /\ cancelled = {} /\ handed = {}

Workbench(p) ==
    \/ \E i \in Indexes : Select(p, i)
    \/ Fold(p)
    \/ ClearSelection(p) \/ BatchApprove(p) \/ BatchApproveGroup(p)

ConfirmCard(p) ==
    \E id \in 1..MaxBatches :
        ClickStale(p, id) \/ ClickExpired(p, id) \/ ClickCancel(p, id) \/ ClickConfirm(p, id)

Continues(p) ==
    \/ LoadSession(p) \/ StoreSession(p) \/ KeepSession(p) \/ SaveResult(p) \/ ClearResult(p)
    \/ Prepare(p) \/ SendCard(p) \/ TellCancelled(p) \/ Queue(p)
    \/ (\E success \in BOOLEAN : Submit(p, success)) \/ Settle(p)

Next ==
    \/ \E p \in Procs :
        \/ Workbench(p) \/ ConfirmCard(p) \/ Continues(p) \/ StartTask(p)
        \/ \E list \in Listings : Query(p, list)
        \/ SubmitRaises(p) \/ Crash(p)
    \/ \E id \in 1..MaxBatches : Lapse(id)
    \/ ExpireResult \/ ExpireSession

\* Handlers run on; queued tasks are started in the end.
Fairness == \A p \in Procs : WF_vars(Continues(p)) /\ SF_vars(StartTask(p))

Spec == Init /\ [][Next]_vars /\ Fairness

-----------------------------------------------------------------------------
(* Properties *)

BatchTypeOK ==
    /\ session \in [selection : SUBSET Indexes, seen : 0..MaxQueries,
                    batch : [id : 0..batches, items : Seq(Rows)]]
    /\ result \in [query : 0..MaxQueries, items : Seq(Rows)]
    /\ expired \in BOOLEAN
    /\ tasks \in 0..confirms /\ confirms \in 0..MaxConfirms
    /\ batches \in 0..MaxBatches
    /\ cards \subseteq 1..batches /\ lapsed \subseteq 1..batches
    /\ ticked \subseteq Approvals
    /\ confirmed \subseteq cards /\ cancelled \subseteq cards
    /\ \A h \in handed : h[1] \in 1..batches /\ h[2] \in Rows

\* Unless a handler dies, every approval in a batch that is offered for
\* confirmation was ticked by the user in the list shown last, whatever lists, receipts and expiries lie
\* between ticking and offering: selections are numbers of rows.
Offers(p) == At(p, "prepare") /\ proc'[p] # proc[p] /\ batches' # batches

OfferedWasTicked ==
    [][\A p \in Procs : Offers(p) /\ crashes = 0 =>
         ToSet(Head(proc'[p].todo).batch.items) \cap Approvals \subseteq ticked]_vars

\* Unless a handler dies or the provider raises, no approval of a batch is
\* handed to the provider twice, however often its card is confirmed.
BatchRunOnce == crashes = 0 => \A h \in handed : h[2] \in Approvals => h[3] = 1

\* Unless something dies, a batch whose card was confirmed does not stay
\* pending.
ConfirmedBatchSettles ==
    \A id \in 1..MaxBatches :
        (id \in confirmed /\ IsPending(id)) ~> (~IsPending(id) \/ crashes > 0)

\* Nothing of a batch is handed to the provider after its user was told that
\* it is cancelled and will not be submitted, not even by a task that an
\* earlier click queued.
CancelledStays ==
    [][\A h \in handed' \ handed : h[1] \notin cancelled]_vars

\* Only batches whose own card was confirmed are handed to the provider.
BatchesWereConfirmed == \A h \in handed : h[1] \in confirmed

=============================================================================

# Verification of the digital-advisor runtime

digital-advisor is a company assistant in Feishu: users ask it questions in a
chat or in a web portal, and ask it to approve, reject, transfer or add-sign
approvals. A write on the provider (the approval API) cannot be taken back, so
the question this project asks first is *what has to be true before a write is
submitted*: who confirmed it, how often it runs, and what the user is told.

All paths below are relative to `src/digital-advisor/`; `runtime_v5/` stands for
`app/services/runtime_v5/` and `card_entrypoint` for
`app/services/feishu/confirmation_card_entrypoint.py`.

## 1. Inventory

### Components

| Component | State it keeps | Operations | Correct when |
|---|---|---|---|
| Runtime state (`runtime_v5/runtime_state.py`) | `runtime_v5_state` (task, its latest action) and `runtime_v5_pending_action`, in the chat session | `save_waiting_*_state`, `mark_runtime_action_*`, `save_runtime_task_execution_state` | task and action status agree; an action moves along its life cycle |
| Runtime turn (`runtime_v5/runtime.py`) | none of its own; a copy of the session | `run_runtime_v5`: entry contract, waiting for input, confirm/cancel, plan, policy, execute, settle | only confirmed actions are written; guarded ones never; at most once |
| Context (`runtime_v5/context.py`) | Redis: `feishu:session:{chat}` and `feishu:result:{chat}` (TTL 1800 s) | load, save, clear, record events | nobody's update is lost |
| Action input (`runtime_v5/runtime_action_input.py`) | `runtime_v5_action_input` in the session | built by cards and portal, consumed by the next turn | it is taken once, for the action its user meant |
| Bot (`app/services/feishu/bot_runtime.py`), portal (`app/services/portal_runtime.py`) | none | start a turn, clean up expired confirmations, trace the decision | see the turn |
| Confirmation and detail cards (`card_entrypoint`) | session keys | click handlers, `_enqueue_runtime_card_reply` | a click confirms the action on its own card |
| Card task (`app/tasks/celery_app.py`, `bot_runtime_card_reply_task`) | Celery queue | runs a turn on a command, records a receipt | the receipt tells what happened |
| Batch approval (`card_entrypoint`, `bot_approvals_batch_approve_task`) | selection, pending batch, result context | select, group, prepare, confirm, cancel, submit row by row | only ticked rows are offered, only confirmed batches submitted, once |
| Single-approval cards (`card_entrypoint`) | `runtime_v5_pending_approval_single` | offer, confirm, cancel, clear | as the confirmation card |
| Permission and policy (`runtime_v5/permission.py`, `policy_layer.py`) | none | pure rules | denied wins; a write asks |
| Capability router, providers (`runtime_v5/capability_router.py`, `feishu_resource_providers.py`) | Redis: `runtime_v5:people_snapshot:{company}` | a loop over a plan's sources, each handed the results before it and the chat's result context | a recorded success means the write is complete and about what was read |
| Intent, planner, follow-up, composer | none | text in, plan or text out | outside of a model checker's reach |
| Older approval commands and cards (`app/services/feishu/commands.py`, `approval_actions.py`, `approval_context.py`) | Redis: the list row numbers refer to, the action waiting for "确认" | prepare, confirm, submit, audit | only what was prepared and confirmed is submitted; the audit log tells the truth |
| Tool router, write audit (`app/services/tools/`) | audit rows | permission, confirmation token, audit | a write without its own token does not run |
| Resource sync (`app/services/v5_auto_sync.py`, `v5_workspace.py`, ...) | resource rows, run rows | select, decide, call, record; blocks and owner decisions | everybody is served; nobody blocked is called; rows are closed |
| Work events, vector index (`app/services/work_events.py`, `ai/vector_search.py`) | event rows, points | ingest, queue, index, mark | what search finds is what is stored |
| WebSocket worker (`app/workers/feishu_ws.py`) | connection, threads | connect, watchdog, exit | its exit leaves no false record |
| Identity and authorizations (`app/services/user_identity_authorizations.py`, `user_accounts.py`, ...) | access rows, user tokens | authorize, mark, refresh, synchronise contacts | nobody is marked for another; only who authorized is read for; tokens stay alive |

`PROJECT.json` lists every component with its status and the reason for those
that are not modelled.

### How they interact

    chat message ──► bot ─────┐                        ┌─► provider
    portal request ──► portal ┼─► run_runtime_v5 ──────┤
    card click ─► session.input, Celery queue ─► task ─┘
                        │
                  Redis session  ◄── every handler: load all, write all
                        │
    workbench card ─► selection ─► batch ─► card ─► queue ─► batch task ─► provider

    chat command / older card ─► WebSocket thread ─► pending key ─► tool router ─► provider, audit row
    provider (people) ─► snapshot cache, result context ─► provider (base) ─► table
    webhook, sync, mail ─► event row ─► queue ─► vector task ─► index ─► event row
    beat, request, owner ─► resource rows ─► Feishu ─► resource rows, run row
    OAuth, CLI, mail callback, contact sync, console ─► access row;  tools, discovery, admin ─► tokens

The session is one JSON value. Every handler, trace and receipt loads it, changes
a key and writes all of it back; nothing locks it and nothing compares it before
a write. Messages run on threads of the WebSocket worker, requests on HTTP
workers, tasks on Celery workers, so any two of them interleave between a load
and a store.

### What is hard here

* **Stale copies.** A turn keeps the session it loaded at its start and writes it
  again at its end (`_sync_current_approval_item`), after other writes of the
  same turn.
* **A command without a subject.** A click leaves its input in the session and
  queues only "确认执行"; the batch task carries no batch id. What they apply to
  is decided when they run.
* **Free text.** "确认", a parameter and a cancellation come over one channel, and
  an approve message contains a confirmation term.
* **Death between two steps.** Confirmed, executing, the call of the provider and
  its outcome are four steps; no task is retried.
* **Two clocks.** An action lapses after 900 s, the session after 1800 s without a
  write; an action built from an input never lapses.
* **Numbers for rows.** A selection is a set of row numbers of whatever list the
  result context holds, and an older command names a row of whatever list is stored.
* **Transactions without versions.** Rows are loaded, changed in Python and flushed at
  READ COMMITTED; whoever flushes last wins, and SQLAlchemy writes only the columns it
  sees changed.
* **One-time tokens.** A refresh token is accepted once, and what it returned is
  stored only by a later commit.
* **Work queued before its commit.** A vector task may run before the row it is about
  is visible, or after it was rolled back.
* **A bounded batch.** A run of the resource sync takes a few resources at a time; the
  order decides whether the others are ever reached.

`PROJECT.json` lists these under `hazards`, each at its line.

## 2. Modules

| Module | Models | Relation |
|---|---|---|
| `RuntimeState` | the session and the operations of `runtime_state.py` | operators without variables |
| `RuntimeV5` | the turns of `run_runtime_v5`, started by bot and portal | extends `RuntimeState` |
| `CardConfirm` | card clicks, the queue and the card task, composed with `RuntimeV5` | extends `RuntimeV5` |
| `ApprovalBatch` | workbench, batch card and batch task | stands alone: it shares only the session's storage discipline with the turns |
| `WriteGate` | what any of the ways to a write promises: confirm, then submit | abstract; implemented by `RuntimeV5` and `ApprovalCommands` |
| `ApprovalCommands` | the approval commands and cards used while the runtime is switched off, with the tool router's gate and the watchdog | instantiates `WriteGate` |
| `CapabilityRoute` | the router's loop over sources, the people and base providers, the snapshot cache | stands alone; what confirms an export is in `RuntimeV5` |
| `ResourceSync` | automatic and manual synchronisation of resources | stands alone |
| `WorkEvents` | ingestion of events and their vector index | stands alone |
| `UserIdentity` | authorization marks and user tokens | stands alone |
| `RuntimeV5Proofs` | theorems about `RuntimeV5` | extends `RuntimeV5`, `TLAPS` |
| `CardConfirmProofs` | theorems about `CardConfirm` | extends it and `RuntimeV5Proofs`, whose lemmas about the turns it uses |
| `ApprovalBatchProofs`, `CapabilityRouteProofs`, `ApprovalCommandsProofs`, `UserIdentityProofs`, `WorkEventsProofs`, `ResourceSyncProofs` | theorems about the module of that name | each extends it and `TLAPS` |
| `MC...` | instances for TLC, one for each module with variables except `WriteGate` | |

### RuntimeState and RuntimeV5

A session is `[state, pending, input, started, single]`. `state` is the task status,
the status of the latest action and the payload kept in the action's metadata;
`pending` is the session key that doubles it, and `single` the one a single-approval
card keeps its action under. State and key can disagree, and several
behaviours below depend on it: `pending_action(s)` reads the state first and
falls back to the key, exactly as `pending_action_from_runtime_state` and its
caller do. A payload has its id, message, strategy, whether it carries
`expires_at`, and whether a parameter is missing.

A worker's turn is a record in `turn[p]`: program counter, message, `ctx` (its
copy of the session), `buf` (what a trace loaded), `conf` (the payload that was
confirmed) and `granted` (the entity `confirmation_granted`). One action is one
write of the session with the computation before it, or one call of the
provider. `entry` → (`confirm_input`) → `route` → `plan` → `execute` → `settle` →
`note` → (`sync`) → `clean` → `trace`, with an early return wherever the code has
one. `note`, `clean` and `trace` are each a load and a store of the whole session,
so another handler's write between the two is lost, as in the code. Consecutive
trace-like writes are one load and one store; this merges nothing that decides.

Choices instead of computation: whether a plan needs a clarification or is denied
(`AnswerWithoutExecution`), whether the provider succeeds, and whether a question
leaves a result context. A message is one of the classes the runtime tells apart
(`Messages`).

`InputsLeft` is what a session may hold as its action input when it is first read: an
input that a card left (the clicks themselves are in `CardConfirm`), or one of an
older release that the entry contract refuses.

With `RedisFails`, every load may answer with an empty session (`Loaded`) and every
save may leave the session as it was (`Saved`) while the turn goes on: `_load_json` and
`_save_json` swallow all errors.

`Crash` ends a turn between any two steps: a process that dies, or a provider
that raises. `Lapse` and `ExpireSession` are the two clocks. `confirmed` and
`submitted` are history: the ids a user confirmed, and those handed to the
provider (0: a write that no pending action stands behind).

### CardConfirm

A click checks the action it is about against one load of the session and then works
off a program, `click[k].todo`: each step loads the whole session and stores it with one
key changed (`LoadSession`, `StoreSession`, `Stored`), or queues a command (`Queue`), or
sends a card (`SendSingle`). There are the confirmation card (`ClickLive`,
`ClickStale`), the detail card (`ClickDetail`), and the workbench's row buttons, which
keep an action under `single` and send a card that asks to confirm it (`OfferSingle`,
`ClickSingle`, `ClickSingleStale`); a confirmation forgets the kept action only after
its task was queued. `StartTask` runs a turn of `RuntimeV5` on the command.
`TurnStepOf` is a turn's step seen from outside: an answer that asks for a confirmation
sends a card, and a task remembers what the provider answered. `TaskOutcome` is what
the task records after its turn (see the further effects below).

### ApprovalBatch

Every handler is a program, a sequence of steps that `proc[p].todo` holds; a step
is a read-modify-write of the session (`LoadSession`, `StoreSession`), a write of
the result context, or an effect outside. `result.query` is 0 unless the context
is a list the workbench can be drawn for; a receipt or a pending confirmation
replaces the list by rows that name no approval (`NoteRow`). `ticked` is history:
what the user ticked in the list shown last. A query's turn appears as the
session writes it performs (`Query`); the rest of the turn is in `RuntimeV5`.

### WriteGate

Two sets, `confirmed` and `submitted`, and two steps: a user confirms an action, and a
confirmed action is submitted. `GateImplemented` in `RuntimeV5` and in
`ApprovalCommands` is `WriteGate!Spec` under the identity on the history variables of
the same names: two implementations that share no code promise the same.

### ApprovalCommands

One user in one chat. `context` is the stored list, `pending` the stored action with
its token, `proc[h]` the message a thread works on with what it loaded. One action is
one access to Redis, one call of Feishu or one commit. The user is answered
(`Reply`) before the audit row is committed (`record_command_context`), and a reply
that fails (`ReplyFails`) rolls the row back. `Call` chooses what the provider says
and whether the decision took effect, independently: a timeout may have worked.
`Watchdog` is `os._exit` of the process with all its threads.

### CapabilityRoute

`context` and `pending` are those of a chat, `snapshot` the company's cached
directory, `directory` what Feishu holds and people edit. A turn answers a question
about people (`Ask`), asks for or confirms an export (`AskExport`, `Confirm`), reads
(`LoadSnapshot`, `SearchPerson`, `FetchDepartments`, `FetchUsers`, `SaveSnapshot`) and,
for an export, creates a base, a table and its records. `FetchUsers` is one call of the
walk over the departments: it brings any part of the users the directory has at that
moment, and the walk may end after any call, since the tool stops at its caps, asks for
one page of each department, and takes a call that raises for a department without
users. So the payload that is cached, and recorded in `fetched`, may be a part of the
organization or a mixture of two states of it. `AfterPeople` is the router's step to
the second source, which it takes whatever the first one answered.
`organization_rows_from_previous_results` chooses what is written, from the results of
this turn and the items of the result context. `is_company_allowed` is the policy's
rule, asked anew at every turn. `fetched` and `last` are history: the users of every
fetch, and the export settled last.

### ResourceSync

A worker's run selects (`Selections`, `DecisionState`), then decides again and calls
resource by resource, and closes its row; a request does the same for one resource or
a batch. Time is an order: `lastSync` lists the synchronised resources oldest first,
`stale` is its older part, `due` says that the interval has passed. `governance` is
the one key that holds blocks and the owner's decisions; calls, the owner and the
rediscovery of resources all rewrite it. Each of them reads the row, builds the new
value in Python and commits it without a lock, so reading and committing are two
actions: a call ends with the copy of the row it works on (`CallEnds`; `Refreshed`: a
call with the app's identity commits inside, which makes SQLAlchemy read the row again)
and `Save` commits what was made of that copy; `OpenEdit` puts a change of the owner or of
discovery with its copy into `edits`, and `EditStep` commits it. `overtaken` is history:
the actors about to commit a row whose decision another commit has changed since they
read it.

### WorkEvents

A writer's transaction loads, flushes (which locks the row and queues the task) and
commits or rolls back; a task takes a key, or sweeps all pending ones, indexes chunk
by chunk and writes the mark back with the payload it loaded. A chunk without an
embedding is left out, and points are never deleted. `sent`, `forgotten` and
`overlapped` are history: the chunks that got an embedding when the event was indexed
last, the ways an indexing can be lost, and two at once on one event.

### UserIdentity

`row` is a user's settings as far as marks go, `cred` the number of the stored token
pair, `issued`, `valid` and `expired` are Feishu's. A handler (`proc`) is a transaction:
it reads, may refresh at Feishu, flushes (which locks), and commits or aborts.
`Differs` is SQLAlchemy's test whether a column changed, which an in-place change of a
nested dict escapes. `cli` is whose token `lark-cli` keeps: its last login's. All personal
tools pass one gate (`Permitted`, the actor's own mark). The approval query and the mail
tools then look for the actor's account (`ToolCall`, `Matched`); the calendar and meeting
tools run `lark-cli --as user` (`CliCall`), and which token that call goes out with is
decided when it runs (`TokenOf`). `CliComplete` leaves the new token with `lark-cli` even
when the account that confirmed is refused afterwards.

## 3. Runs

Bounds are small, and named in the modules: `MaxId` action ids, `MaxCrashes` deaths,
`MaxClicks`, `MaxConfirms`, `MaxBatches`, `MaxActions`, `MaxTokens`, `MaxVersions`,
`MaxFaults`, `MaxInterruptions` (in `ResourceSync`: crashes, requests and changes by
the owner or discovery together) and so on; `Governed` are the resources that
somebody acts on one by one. Every cycle through the code is unbounded apart from
them: messages keep arriving for ever.

| Run | Instance | Shows |
|---|---|---|
| `RuntimeSequential` | 1 worker, all classes of messages, confirmed portal requests, inputs left by cards and by an older release, 2 ids, 1 crash, failing Redis; 637k states | `TypeOK`, `GuardedNeverSubmitted`, `TaskAgreesWithAction`, `GateImplemented` |
| `RuntimeOnce` | 1 worker, messages that write, confirm or cancel, unconfirmed portal requests, inputs left by cards, 2 ids, 2 crashes; 135k states | `ExecutionIsRecorded`, `SubmittedOnce`, `CancelClears`, `ActionsFollowLifecycle`, `ExecutingSettles` |
| `CardDetail` | 1 worker, 1 clicker, 2 clicks, detail card (approve, transfer), single-approval card; 110k states | `CardTypeOK`, `InputsWereConfirmed`, `InputTaken` |
| `CardButtons` | cards of two successive actions, 1 crash; 1.9M states | `WritesWerePending`, `InputsWereConfirmed` |
| `BatchSequential` | 1 process, two lists, two confirming clicks, 1 crash; 373k states | `BatchTypeOK`, `BatchRunOnce`, `OfferedWasTicked`, `CancelledStays`, `ConfirmedBatchSettles` |
| `ApprovalCommands` | 2 threads, 2 approvals, 2 prepared actions; 4.0M states | `CommandTypeOK`, `DoneIsForgotten`, `SuccessRowsAreTrue`, `SubmissionsAreAudited`, `GateImplemented` |
| `CapabilityRoute` | 1 chat, 1 worker, 2 persons, 3 directories, fetches that bring any part of them; 5.8M states | `RouteTypeOK`, `DoneWroteOneFetch`, `ReceiptsNotExported` |
| `ResourceSync` | 1 worker, 1 request, 3 resources of which one fails and one may be refused and changed by hand, 2 per run, 2 interruptions; 711k states | `SyncTypeOK`, `RunRowTruthful`, `CalledOnlyWhenReady`, `DecisionLostOnlyIfOvertaken`, `EveryResourceServed` |
| `WorkEvents` | 1 event, 2 writers, 2 tasks, 3 versions, 2 chunks, 1 sweep, 1 fault; 2.7M states | `EventTypeOK`, `PendingHasTask`, `IndexHoldsCommitted`, `EmbeddedChunksAreFound` |
| `UserIdentity` | 2 users, 2 handlers, 2 token pairs; 3.3M states | `IdentityTypeOK`, `AuthorizedByOwner`, `PersonalCallsAreGranted`, `StoredTokenIsLive` |

Why the bounds are enough to be interesting: two ids are the least with which one
action can be taken for another; two crashes let one die while confirming and
another while executing. Two clicks let a second input overwrite the first, and two
lists of different lengths let a row number mean another row or no row. Three query
ids suffice because an id nothing refers to any more is used again. For
`ApprovalBatch` two batches were also checked, with one confirmation and one crash
(3.1M states) and with two confirmations and no crash (2.2M states): the same
properties hold. For `CardConfirm`, `InputsWereConfirmed`, `GuardedNeverSubmitted`
and `WritesWerePending` were also checked with two successive single-approval cards
and three clicks (2.3M states), with two clickers on one (2.0M states) and with a
failing Redis (166k states). The life cycle was also checked with chat questions and
a Redis that answers (119k states); where a save may be lost the recorded status
skips steps, from waiting to executing for instance. Two threads and two approvals
let a message confirm an action while another message replaces it. Two users are the
least with which a mark can go to the wrong one, and two pairs the least with which
a refresh can make another one useless. Three versions let a third ingestion
overwrite what a task is marking. A limit below the number of resources, with one of
them failing for ever, is what starvation needs. Two interruptions of the worker let
a decision be made, and taken back or overwritten, between the reading and the
commit of a refused call, or a request synchronise a resource that is changed
meanwhile; the safety of `ResourceSync` was also checked over two resources with a
request that may come again and again (2.5M states), and its liveness with two
workers (214k), and with such a request and one other interruption (1.7M). The
directories of `CapabilityRoute` include an empty one, and a fetch whose calls for
users all fail brings departments and nobody. Two turns of the runtime that overlap
are not run at all: what they must not do is proved for any number of workers
(section 5), and so is what the other proved modules promise for more processes than
the runs have.

`ApprovalCommands`, `WorkEvents` and `UserIdentity` use symmetry of processes, and of
approvals or users; they check safety only, and nothing in them orders the members of
those sets.

Every property comes with a mutant: a plausible bug in the code it is about (a
guard that forgets `approval_transfer`, an outcome that is not recorded, an input
that is not consumed, a pending action that is not deleted, an order by creation
instead of last synchronisation, a receipt handed on as a person) under which TLC
refutes it.

### What the code does not do

Two runs check what the program's own text says, and TLC finds a behaviour that does
otherwise.

* `BatchUnconfirmed` (`BatchesWereConfirmed`). Two clicks on a card queue two tasks;
  the second takes the next batch before its card is confirmed.
* `ExportStops` (`ExportStops`). When nobody was read, the table is created all the
  same and filled from the chat's result context, which after a confirmation is the
  note of the pending action; with departments but no users read, the execution even
  counts as a success. The texts are at
  `runtime_v5/feishu_resource_providers.py:158` and `:594`.

Further effects met while modelling, which the models reproduce:

* `SubmittedOnce`, `ExecutionIsRecorded` and `CancelClears` hold for one worker and
  without a chat question between an action and its confirmation or cancellation.
  With two workers both confirm the same action. After a question the action survives
  under the pending key without a state (`_sync_current_approval_item`): it can be
  confirmed again, and a cancellation writes nothing, so that the user is told it is
  cancelled while a later "确认" executes it. A confirmed portal request that is sent
  again with its token runs again: the token is the action's id and nothing remembers
  it.
* In `CardConfirm` an input can come back after a turn took it: a click's later writes,
  `_clear_pending_single` (`card_entrypoint:786`) and the traces of a turn store a whole
  session that they loaded before. The action is confirmed (`InputsWereConfirmed`), but
  it is submitted again by the next turn.
* Where a save of the session is lost, the action stays recorded as it was, and a second
  confirmation submits it again.
* The text of an unconfirmed portal approval contains a confirmation term and confirms
  whatever the chat has pending; `GateImplemented` is therefore checked and proved for
  confirmed requests.
* The command of a click may run after its input was taken by another message, and
  confirms the next pending action.
* A portal request without a `chat_id` is neither asked about nor confirmed
  (`_should_request_confirmation`, `runtime_v5/runtime.py:833`).
* In `CardConfirm` a recorded status can move backwards: a receipt loaded before a
  turn settles and stored after it puts "executing" back.
* After a successful turn the card task uses a name bound only in its own `except`
  clause (`record_action_trace`, `app/tasks/celery_app.py:517` and `:575`), raises, and
  reports a failure (`TaskOutcome`).
* With two processes `BatchRunOnce` and `OfferedWasTicked` fail: the batch task
  writes back the session it loaded before its first row. A cancel between two rows of
  a running batch is answered with "不会提交" and the remaining rows are submitted;
  `CancelledStays` holds for handlers that do not overlap.
* Preparing a batch replaces the list by notes, so that ticking the same card again
  makes a batch of notes. Submitting it fails row by row and is harmless.
* Two overlapping "确认" of the older commands, or a second one after a timeout of the
  provider that took effect, submit one action twice. A row number may name another
  row than the card on the screen, since the card's list is fetched live and not
  stored. The user may be told of a success whose audit row is then rolled back, and
  the watchdog may exit in the middle of a submission.
* A successful synchronisation, the clearing of a block, or a rediscovery erases the
  owner's access decision with the block. A decision committed after a refused call
  has read the row again and before it commits (`app/services/v5_workspace.py:330`
  to `:369`) is overwritten, and one that was taken back in that window returns;
  likewise a block that is committed while the owner decides is lost.
  `DecisionLostOnlyIfOvertaken` says that nothing else takes a decision. As many
  failing resources as the limit starve all the others (`EveryResourceServed` says
  so in its premise). A worker that dies leaves its row "running" for ever.
* Marking an event as indexed writes the loaded payload over one ingested since. A task
  that runs before its commit finds nothing, and the sweep that would repair it is not
  in the beat schedule. Points of chunks that a shorter document no longer has stay, and
  so do older points at chunks that got no embedding this time: search still finds them,
  beside the chunks that `EmbeddedChunksAreFound` is about.
* A second authorization mark is lost when only the nested dict changed. The console
  replaces the settings and their marks. When the CLI names nobody, the row is
  marked authorized without a comparison. When it names another user than expected
  the page refuses, but `lark-cli` has stored that user's token already. A stored
  refresh token goes dead when an answer or a transaction is lost, or when two
  refreshes overlap.
* Whoever is asked to authorize is told that only what they are authorized for is read
  (`app/services/agent/runtime.py:1370`, `app/services/feishu/authorization_cards.py:41`).
  But `lark-cli` keeps one user token, the one of its last login, and the calendar and
  meeting tools call it `--as user` (`app/services/tools/providers/feishu_mcp.py:2443`):
  after a second user has authorized through the CLI, the first one's question may be
  answered from, and the first one's event created in, the second one's calendar.
  `PersonalCallsAreGranted` says no more than that both have authorized. Callers that ask
  for `as=bot` are not affected, nor are the tools that read with an account.
* An empty organization is cached like any other (its payload has a timing key and so
  counts as true). The organization tool answers success with whatever part of the
  organization its caps (100 departments, 500 users), one page for each department and the
  calls that did not raise have brought; that part is cached for ten minutes and exported
  as done. The search for a person takes calls that fail for nobody found. When the read
  is empty, the people list of an earlier question is
  exported.

## 4. Fairness

`RuntimeV5` assumes weak fairness of `TurnStep(p)`: a turn is straight-line code on a
thread, so a turn that has started is run to its end unless it dies. Nothing is
assumed of arrivals, clocks or crashes. `CardConfirm` and `ApprovalBatch` assume the
same of handlers and tasks, and strong fairness of starting a queued task: Celery
delivers first in, first out, and a worker that keeps coming free takes the task in
the end, while weak fairness would let chat messages occupy the single worker of
the model for ever. `ExecutingSettles`, `InputTaken` and `ConfirmedBatchSettles`
claim nothing once something has died: the code has no recovery for that.

`ResourceSync` assumes weak fairness of a worker's steps (a run is straight-line code,
and the Feishu client has a timeout) and of the interval passing, since beat keeps
sending the task. Nothing is assumed of requests or of the owner. The remaining modules
state no liveness: what they wait for (a user, a redelivery, the next sweep) nothing in
the code forces.

Deadlock is checked in every run but `WorkEvents`: messages can always arrive at an
idle worker. There the number of ingestions is bounded and indexing ends, so the
system may come to rest, and `EmbeddedChunksAreFound` is about that state.

## 5. Proofs

### Turns

`RuntimeV5Proofs` proves for every set of workers, messages and requests, every bound,
and a Redis that may fail or not:

* `TypeCorrect`: `Spec => []TypeOK`. One lemma per operation of `RuntimeState` says
  that it maps sessions to sessions; one per phase of a turn lifts it to the step.
* `WritesAreConfirmed`: `Spec => []ConfirmedWrites`, assuming
  `OnlyConfirmedRequests` (every portal request is confirmed) and, in
  `RuntimeAssumption`, that no confirmed input is left in the session by someone else
  (inputs of clicks are `CardConfirm`'s subject). The first assumption is needed, as
  the effects above say.
* `TurnsImplementGate`: `Spec => GateImplemented` under the same assumption: every step
  of a turn confirms one action, submits a confirmed one, or changes neither.
* `StatusesAgree`: `Spec => []TaskAgreesWithAction`, without further assumption.
* `GuardHolds`: `Spec => []GuardedNeverSubmitted`, assuming `InputsRecognised` (an
  input that a card left names the strategy of its message).

`ConfirmedWrites` is not inductive: that a turn about to execute was confirmed
depends on how it got there. The invariant is `ConfirmInv`, the conjunction of
`TypeOK`, `ConfirmedWrites` and

* `InputConfirmed(s, C)` of the session and of every copy a worker holds: a confirmed
  input carries the id of a confirmed action, and no other input can be taken for
  one. Whole-session writes put such copies back at any time, so it must hold of the
  copies too; a failed load adds only empty sessions, of which it holds trivially.
* `PendingConfirmed(s, C, L)` of a turn's copy whose message is going to confirm: its
  pending action is confirmed already, or has lapsed and will be refused. `confirmed`
  and `lapsed` only grow (`ConfirmedMonotone`), so other workers' steps cannot undo it.
* `TurnConfirmed(t, C, L)`: from the confirmation on, what the turn carries to
  the provider is the confirmed payload, and a turn with no confirmation carries no
  write past the gate.

TLC checked `ConfirmInv` before it was proved (198k states with one worker, 947k with
two). The proof has one lemma for each of entry, routing, planning and execution,
what follows an answer, arrivals and the environment, with one case per action.

The guard is one test of a pending action's *strategy*, while what is executed is the
*message* stored with it, planned anew. So `GuardInv` says of the session and of every
copy that a payload or input whose message is a transfer or add-sign carries such a
strategy (`SessionRecognised`), and of a turn that what it was granted is neither
(`TurnGuarded`).

`AgreeInv` says of every copy what `TaskAgreesWithAction` says of the session. Each
operation of `RuntimeState` that changes a status writes both, so its result agrees
whatever it read (`OperationsAgree`); the other writes keep the state they loaded
(`KeysKeepState`). TLC checked it first (637k states).

### Turns, one worker at a time

What the runtime promises of single actions fails as soon as two turns overlap (section
3), so it is proved for one worker, for any messages, requests, ids and crashes. Each
theorem builds on the invariant of the one before:

* `LifecycleKept`: `Spec => ActionsFollowLifecycle`, assuming `OneWorker`, `Reliable`
  (loads and saves of the session work; a lost save lets the record skip a step) and
  `InputsNamed` (an input that a card left has its action's id, as
  `build_runtime_action_input` gives one to every input). The property is about one
  step, but a turn stores what it loaded earlier. `LifeInv` therefore says what the
  turn's copy has in common with Redis at each step: until it answers, the same action
  in the same status, or none (`TurnLife`); and that a session has a status exactly
  when it has an action (`SessionLife`).
* `ExecutionsAreRecorded` and `CancellationClears`: `ExecutionIsRecorded` and
  `CancelClears`, assuming `OnlyWrites` besides (the chat asks no question; after one an
  action lives on under the pending key alone, section 3). `HeldInv` adds that the
  pending key is the action that the state says is waiting (`Held`), in Redis and in
  both copies of every turn, so that granting, recording and cancelling mean one
  action whichever of the two they read.
* `SubmittedAtMostOnce`: `SubmittedOnce`, assuming `OnlyUnconfirmed` besides (a portal
  request is in a chat and unconfirmed; a confirmed one brings its own id, as often as
  it is sent). `FreshInv` adds that the id of an action that waits, or of an input that
  is left, was handed out and never submitted (`Fresh`), wherever it is kept.

`RuntimeOnce` satisfies all five assumptions. TLC checked the invariants first: `LifeInv`
with questions in the chat too (1.6M states), `HeldInv` (929k) and `FreshInv` (104k).

### Cards

`CardConfirmProofs` proves for every set of workers, clickers, buttons and requests and
every bound: `CardTypes` and `InputsAreConfirmed`, and, assuming `RequestsAsk`,
`WritesArePending`. `RequestsAsk` says that every portal request names a chat or comes
confirmed: any other is executed without being asked about, so its write has no pending
action (section 3). The invariant is `CardInv`:

* `InputRight(s, C)`: a confirmed input carries the id of a confirmed action. Clicks,
  turns and tasks all store whole sessions loaded before, so it is stated of the session
  and of every copy: a turn's two, a handler's, a task's receipt, and of the input that a
  click is going to leave. `confirmed` only grows, so a copy stays right however old it is
  when it is stored.
* `TurnAsks`: a turn that reaches the provider without being asked about was granted
  by a confirmation of the pending action it carries, which has an id. It is the part that
  needs `RequestsAsk`.
* `ClickShape`: a handler queues at most one command and sends a card only for an action
  that has an id; `NextClick` says that it keeps this as its program gets shorter.
* `QueueIsCounted`: commands of one kind in the queue and handlers that have yet to queue
  one are together no more than clicks. Without it the queue has no bound, and
  `CardTypeOK` is not inductive.

That every turn's step keeps `InputRight` is proved once more and not taken from
`ConfirmInv`: that invariant also says which pending action a message may confirm, which
a card's command, queued long before its turn, does not satisfy.

### Batch approval

`ApprovalBatchProofs` proves `BatchTypes` (`BatchTypeOK`) for every finite set of
processes, every listing and every bound, and, assuming `OneProc` and `NoneTwice`,
`BatchesRunOnce`, `OffersWereTicked` and `CancelledIsFinal`. `OneProc` is needed, as the
effects in section 3 say. `NoneTwice` says that a list names an approval once: the code
takes the tasks as Feishu lists them and does not look for a second one of the same id,
which it would submit a second time.

`BatchInv` is for any number of handlers. A task is counted when a click confirms and
queued some steps later, and a batch is numbered in the middle of a program; so the
bounds on both are inductive only together with what every handler has yet to do
(`CountsOK`, by the number of processes that have a step left), and `WorkOK` says that a
program prepares one batch at most and queues one task, as its last step.

`OneInv` is for one handler at a time, which may die between any two steps:

* `WorkOne` follows what is left of a program: which step may come before which
  (`Ordered`); that an answer "cancelled" comes after the batch has left the session
  (`Tells`); that a new list is drawn after it is saved (`Draws`); and that what a step
  carries is the session's batch, or one that was never cancelled (`Bound`).
* `Once` and `Spent`: no approval was handed over twice, and while anything of the
  session's batch was, the task that did so is still at it, or something has crashed.
  The rest of the task are entries that were not handed over yet.
* `Tick`: what is selected, or is about to be stored as selected, names only ticked rows
  of the list (`Covered`), or the handler at work is going to clear the selection: it
  has saved a new list that is not drawn yet (`Stale`), or has both still to do (`Due`).

`Resolve` picks the selected rows in ascending order. That the k-th number of a finite
set exists is proved by a least counterexample (`KthExists`, from `WFMin`), since the
induction theorems cannot be used. TLC checked `OneInv` first on the run's instance and
with two batches (373k and 950k states). `BatchInv` was searched with two processes
without a violation, and without coming to an end (10M states).

### The capability router

`CapabilityRouteProofs` proves for every number of chats, workers, persons and
directories, from `RouteAssumption` only: `RouteTypes` (`RouteTypeOK`),
`ExportsAreOneFetch` (`DoneWroteOneFetch`) and `NoReceiptExported`
(`ReceiptsNotExported`). What a turn writes was read, cached or left in a context by
another turn, so `RouteInv` adds that a cached snapshot is one that was fetched,
that a receipt in a context, or in any turn's copy of one, is marked by its kind
(`Marked`), and `TurnSound`: what a turn of an export has read is the answer of one
fetch, however partial, or nothing, and what its base provider answered is what the
rows were at that moment. TLC checked `RouteInv` first, on the instance of the run.

### The older approval commands

`ApprovalCommandsProofs` proves for every number of threads, messages, approvals and
prepared actions, from `CommandAssumption` (the approvals are finitely many): `CommandTypes`,
`DoneActionsAreForgotten`, `AuditIsTrue`, `AuditIsComplete` and
`CommandsImplementGate`. The properties speak of the pending key and of the log, and
why they hold is in what a thread carries between two steps. `CommandInv` adds

* `Shape` and `Sound` of every thread: which phase carries an action and which carries
  rows; rows are about the thread's own action; one that calls the provider was
  confirmed; and an id names one action, in a thread as under the key. Without the last
  a thread's clearing of the key could stand for another action's.
* `RowsOfSubmissions`, stronger than the property: a submission that is not in the log
  is in the rows *that name it* of some thread, or was interrupted. That another thread
  holds the same action is no witness, since it may end without a row.
* `HistoryIsOld` and `IdsSuffice`: the next id is new to every history, and the bound
  on ids leaves one for each message that is going to prepare an action. Preparing takes
  an id when it is done, so the type of `nextId` depends on how many are under way.

### Identity

`UserIdentityProofs` proves for every set of users and handlers: `IdentityTypes`,
`MarksAreOwn`, `CallsAreGranted` and `TokensStayLive`. `CallsAreGranted` rests on the
history of who authorized: marks, copies of marks and the token `lark-cli` keeps all come
from such users, and whoever authorized once did so for ever, so a call that passed the
gate on a mark since replaced is still granted. A handler stores what it read when it
began, so what must hold of the rows must hold of the copies, of the mark a handler
is about to store, and of the pair it carries (`WorkOK`). `TokensStayLive` needs more:
`FreshIsUnique` says that a pair on its way to be stored is accepted by Feishu and is
nowhere else, so that no other refresh can use it up before its commit.

### Work events

`WorkEventsProofs` proves for every set of keys, writers and tasks and every bound:
`EventsAreTyped`, `PendingIsWaitedFor`, `IndexIsCommitted` and `IndexedChunksAreFound`.
The last is about events at rest, and nothing at rest says why it holds. `EventInv`
follows an indexing from its start to its mark:

* `LoadsCommitted`: what a row holds, and what a task loaded, was committed.
* `OpenIsQueued`, `PendingIsLoaded`: an open transaction that asks for vectors has its
  task in the broker; a pending row has one there, or a task that loaded it *as
  pending*. A task that loaded another status writes that status back, so the property's
  "some task is at it" is not enough.
* `OneAtATime`, `ChangeIsQueued`, `SentIsFound`, `IndexedWasLoaded`,
  `IndexedIsFound`, for events without an overlap: a payload that changed since it
  was loaded has its own task in the broker; of what a task reports as indexed,
  every chunk that got an embedding is in the index with the payload it loaded, and
  there is one; so a row marked from an older payload is indexed again before it is
  at rest.
* `TaskShape`, `QueueIsCounted`: a task has a result for each key it is done with, and
  tasks in the broker and flushes under way together are no more than ingestions.

### Resource sync

`ResourceSyncProofs` proves for every set of resources, workers and requests:
`SyncTypes`, `RunRowsAreTruthful`, `OnlyReadyIsCalled` and `DecisionsKept`, the
last two about steps. The order in which resources wait is a sequence without
repetition whose stale part comes first; `RemovedFacts` says what taking out one element
leaves, and `SyncedLast` that moving it to the end keeps that order. `SyncInv` adds that
a job has resources left exactly while it is at one, that only workers have runs,
that a worker that was killed is in none, and, for `DecisionsKept`, `Fresh`: an actor about
to commit a refusal, unless it is in `overtaken`, holds a copy whose decision is the row's.
Reading the row makes it so, the actor's own session changes only the status, and every
commit by another that changes the decision puts the actor into `overtaken`
(`CommitGovernance`). The selection is stated by what it returns (`Selections`, by the
relation `Sooner`) and not by sorting and filtering a sequence, which the provers cannot
look into.

For `CommandInv`, `TokenInv`, `EventInv`, `SyncInv` and `CardInv` too, TLC checked the
whole invariant on the instances of the runs (4.0M, 3.3M, 2.7M and 0.7M states;
`CardInv` 1.9M and 110k).

### Only model-checked

Liveness (`ExecutingSettles`, `InputTaken`, `ConfirmedBatchSettles`,
`EveryResourceServed`), which is out of the prover's reach. Every other property of a
passing run is stated by a theorem. The two runs of section 3 that TLC refutes are
counterexamples and have nothing to prove.

## 6. Not modelled

The contents of the result context in `RuntimeV5`, and so which approval a confirmed
message resolves to when it is planned anew; failing Redis calls outside of the session
(the result context, the batch's keys); deleted app configurations; a database error
after the provider has answered, in the audit row of a task.

Most of the repository's lines hold no state a model could keep: intent recognition,
planning and composition (text in, text out), the diagnostics and cockpit reports,
read-only providers (one call that answers or fails, as the provider in `RuntimeV5`),
payload parsing, HTTP routes, tables, static pages, and the older agent runtime, which
the bot no longer calls. Of the capability router, scopes over several companies are
left out, since no entry point builds one, and so is a provider that is not
registered, since the two modelled always are. Of the WebSocket worker, reconnecting
is the SDK's and the process supervisor's. Of the resource sync, `ResourceSyncRun` rows
(no decision reads them) and the payload of each kind of resource.

## 7. Plan

Done: the runtime's state and turns with a Redis that fails, the cards of all kinds and
their task, batch approval, the older approval commands, the gate that both implement,
the capability router with its two dependent providers, resource sync, work events and
identity, with thirty-six theorems; every property of a passing run that is not
liveness is proved.

Next: **policy and permission** as pure operators in the place of
`should_request_confirmation` and the free choice of a denial.

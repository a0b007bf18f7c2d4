------------------------------ MODULE RuntimeV5 ------------------------------
(***************************************************************************)
(* The turns of the V5 runtime: run_runtime_v5 in                          *)
(* app/services/runtime_v5/runtime.py, called by the bot                   *)
(* (employee_bot_answer_result) and by the portal (portal_runtime.py).     *)
(*                                                                         *)
(* Each worker (a WebSocket message thread, an HTTP request, a Celery      *)
(* worker) runs one turn at a time.  A turn loads the chat session once,   *)
(* works on that copy (ctx) and writes whole sessions back; nothing locks  *)
(* the session or compares it before a write.  One action of this module   *)
(* is one write of the session with the computation before it, or the call *)
(* of a provider, so that turns interleave between any two writes.         *)
(*                                                                         *)
(* What a message plans (intent recognition, policy) is a choice: a write  *)
(* needs a clarification, is denied, or goes ahead.                        *)
(***************************************************************************)
EXTENDS RuntimeState, FiniteSets

CONSTANTS
    Workers,            \* what can run a turn
    Texts,              \* the chat messages that may arrive
    PortalRequests,     \* the approval requests of the portal: is the request
                        \* confirmed, does it carry a chat_id?
    InputsLeft,         \* what cards or an older release may have left in the
                        \* session as its action input
    RedisFails,         \* a load or a save of the session may fail
    MaxCrashes          \* bound on the turns that die between two writes

ASSUME RuntimeAssumption ==
    /\ Texts \subseteq Messages
    /\ PortalRequests \subseteq [confirm : BOOLEAN, chat : BOOLEAN]
    /\ InputsLeft \subseteq {i \in Inputs : i.kind \notin {"confirmed", "plain"}}
    /\ RedisFails \in BOOLEAN
    /\ MaxCrashes \in Nat

VARIABLES
    session,    \* the session in Redis
    turn,       \* the turn each worker is in
    nextId,     \* the next unused action id
    lapsed,     \* ids whose expires_at has passed
    crashes,    \* turns that died
    \* history, read by no action:
    confirmed,  \* ids whose pending action a user confirmed
    submitted   \* ids whose write reached the provider; 0: one without an id

history == <<confirmed, submitted>>
vars == <<session, turn, nextId, lapsed, crashes, history>>

-----------------------------------------------------------------------------
(* Classes of messages *)

\* The message of an approve action, as the portal and the cards phrase it
\* (同意这个审批), contains a confirmation term.
is_confirmation_message(m) == m \in {"confirm", "approve"}
is_standalone_confirmation_message(m) == m = "confirm"
is_cancel_message(m) == m = "cancel"
waiting_input_still_missing(m) == m = "blank"

\* Mutant: the guard forgets approval_transfer.
guarded_add_sign_only(p) == p.strategy = "add_sign"

\* _confirmation_execution_guard_reason
confirmation_execution_guarded(p) == p.strategy \in {"transfer", "add_sign"}

pending_action_expired(p) == p.ttl /\ p.id \in lapsed

\* intent.question_type is "action": the policy requires a confirmation.
requires_confirmation(m) == m \in Strategies

\* Mutant: only a rejection asks.
should_request_confirmation_reject_only(t) ==
    t.chat /\ t.msg = "reject" /\ ~t.granted

should_request_confirmation(t) ==
    t.chat /\ requires_confirmation(t.msg) /\ ~t.granted

-----------------------------------------------------------------------------
(* Turns *)

Idle == [pc |-> "idle", msg |-> "none", chat |-> FALSE, bot |-> FALSE,
         ctx |-> EmptySession, buf |-> EmptySession, conf |-> NoPayload,
         granted |-> FALSE, ok |-> FALSE, syncs |-> FALSE]

PCs == {"idle", "entry", "confirm_input", "route", "plan", "execute", "settle",
        "note", "note_save", "sync", "clean", "clean_save", "trace", "trace_save"}

Turns == [pc : PCs, msg : Messages \cup {"none"}, chat : BOOLEAN, bot : BOOLEAN,
          ctx : Sessions, buf : Sessions, conf : Payloads,
          granted : BOOLEAN, ok : BOOLEAN, syncs : BOOLEAN]

\* _load_json: no Redis, no session.
Loaded == IF RedisFails THEN {session, EmptySession} ELSE {session}

\* _save_json: an error is swallowed, and the session stays as it is.
Saved(s) == IF RedisFails THEN {s, session} ELSE {s}

\* save_session_context, a no-op without a chat_id
Save(p, s) == session' \in IF turn[p].chat THEN Saved(s) ELSE {session}

At(p, pc) == turn[p].pc = pc

Goto(p, pc, ctx) == turn' = [turn EXCEPT ![p] = [@ EXCEPT !.pc = pc, !.ctx = ctx]]

\* The answer is ready: what is left needs the turn's session only if it is
\* written once more.
Answer(p, pc) ==
    turn' = [turn EXCEPT ![p] = [Idle EXCEPT !.pc = pc, !.chat = turn[p].chat, !.bot = turn[p].bot]]

AnswerKeeping(p, ctx) ==
    turn' = [turn EXCEPT ![p] = [Idle EXCEPT !.pc = "note", !.chat = turn[p].chat, !.bot = turn[p].bot,
                                             !.syncs = TRUE, !.ctx = ctx]]

Start(p, m, chat, bot, ctx) ==
    /\ At(p, "idle")
    /\ turn' = [turn EXCEPT ![p] =
                  [Idle EXCEPT !.pc = "entry", !.msg = m, !.chat = chat,
                               !.bot = bot, !.ctx = ctx]]

\* What a message of the user confirms: the pending action, unless it has
\* expired or the message is taken as the parameter an action waits for.
ConfirmedBy(m) ==
    {id \in Ids : /\ is_confirmation_message(m)
                  /\ session.state.act # "waiting_input"
                  /\ id = pending_action(session).id
                  /\ ~pending_action_expired(pending_action(session))}

\* build_runtime_context: a message in the chat starts a turn on the session.
ReceiveMessage(p, m) ==
    /\ \E s \in Loaded : Start(p, m, TRUE, TRUE, s)
    /\ confirmed' = confirmed \cup ConfirmedBy(m)
    /\ UNCHANGED <<session, nextId, lapsed, crashes, submitted>>

\* portal_approval_action_payload: the input is added in memory.  The request
\* carries the token of an earlier answer, or none and gets a fresh id.
PortalAction(p, m, r, id) ==
    /\ id <= nextId
    /\ \E s \in IF r.chat THEN Loaded ELSE {EmptySession} :
         Start(p, m, r.chat, FALSE,
               [s EXCEPT !.input = [kind |-> IF r.confirm THEN "confirmed" ELSE "plain",
                                    id |-> id, message |-> m, strategy |-> m]])
    /\ nextId' = IF id = nextId THEN nextId + 1 ELSE nextId
    /\ confirmed' = IF r.confirm THEN confirmed \cup {id} ELSE confirmed
    /\ UNCHANGED <<session, lapsed, crashes, submitted>>

\* portal_pending_approvals_payload: the turn starts from an empty session
\* under the chat's own id.
PortalQuery(p) ==
    /\ Start(p, "query", TRUE, FALSE, EmptySession)
    /\ UNCHANGED <<session, nextId, lapsed, crashes, history>>

-----------------------------------------------------------------------------
(* _context_from_action_request, and the two contract checks before it *)

\* Mutant: the input stays in the session.
Unconsumed(s) == s

Consumed(s) == [s EXCEPT !.input = NoInput]

EnterWithoutInput(p) ==
    /\ At(p, "entry") /\ turn[p].ctx.input.kind = "none"
    /\ Goto(p, "route", turn[p].ctx)
    /\ UNCHANGED <<session, nextId, lapsed, crashes, history>>

RejectInput(p) ==
    /\ At(p, "entry") /\ turn[p].ctx.input.kind \in {"legacy", "no_company"}
    /\ Save(p, Consumed(turn[p].ctx))
    /\ Answer(p, "note")
    /\ UNCHANGED <<nextId, lapsed, crashes, history>>

\* missing_params: wait for the parameter
EnterMissingInput(p) ==
    /\ At(p, "entry") /\ turn[p].ctx.input.kind = "missing"
    /\ LET c == turn[p].ctx
           s == save_waiting_input_state(Consumed(c), pending_from_input(c.input, TRUE))
       IN /\ Save(p, s)
          /\ turn' = [turn EXCEPT ![p] =
                        [@ EXCEPT !.pc = "route", !.msg = c.input.message,
                                  !.ctx = [s EXCEPT !.started = TRUE]]]
    /\ UNCHANGED <<nextId, lapsed, crashes, history>>

EnterCancelInput(p) ==
    /\ At(p, "entry") /\ turn[p].ctx.input.kind = "cancel"
    /\ LET c == turn[p].ctx
           s == save_waiting_confirmation_state(Consumed(c), pending_from_input(c.input, FALSE))
       IN /\ Save(p, s)
          /\ turn' = [turn EXCEPT ![p] =
                        [@ EXCEPT !.pc = "route", !.msg = "cancel", !.ctx = s]]
    /\ UNCHANGED <<nextId, lapsed, crashes, history>>

EnterConfirmedInput(p) ==
    /\ At(p, "entry") /\ turn[p].ctx.input.kind = "confirmed"
    /\ LET c == turn[p].ctx
           s == save_waiting_confirmation_state(Consumed(c), pending_from_input(c.input, FALSE))
       IN Save(p, s) /\ Goto(p, "confirm_input", s)
    /\ UNCHANGED <<nextId, lapsed, crashes, history>>

ConfirmInput(p) ==
    /\ At(p, "confirm_input")
    /\ LET s == mark_runtime_action_confirmed(turn[p].ctx)
       IN /\ Save(p, s)
          /\ turn' = [turn EXCEPT ![p] =
                        [@ EXCEPT !.pc = "route", !.msg = "confirm", !.ctx = s]]
    /\ UNCHANGED <<nextId, lapsed, crashes, history>>

\* An unconfirmed input only replaces the message; nothing is written.
EnterPlainInput(p) ==
    /\ At(p, "entry") /\ turn[p].ctx.input.kind = "plain"
    /\ turn' = [turn EXCEPT ![p] =
                  [@ EXCEPT !.pc = "route", !.msg = turn[p].ctx.input.message,
                            !.ctx = Consumed(turn[p].ctx)]]
    /\ UNCHANGED <<session, nextId, lapsed, crashes, history>>

-----------------------------------------------------------------------------
(* An action that waits for a parameter takes the whole message. *)

WaitsForInput(p) == At(p, "route") /\ turn[p].ctx.state.act = "waiting_input"

CancelWaitingInput(p) ==
    /\ WaitsForInput(p) /\ is_cancel_message(turn[p].msg)
    /\ Save(p, mark_terminal(turn[p].ctx, "cancelled"))
    /\ Answer(p, "note")
    /\ UNCHANGED <<nextId, lapsed, crashes, history>>

PromptStarted(p) ==
    /\ WaitsForInput(p) /\ ~is_cancel_message(turn[p].msg)
    /\ turn[p].ctx.started
    /\ LET s == [turn[p].ctx EXCEPT !.started = FALSE]
       IN Save(p, s) /\ Answer(p, "note")
    /\ UNCHANGED <<nextId, lapsed, crashes, history>>

PromptAgain(p) ==
    /\ WaitsForInput(p) /\ ~turn[p].ctx.started
    /\ waiting_input_still_missing(turn[p].msg)
    /\ Answer(p, "note")
    /\ UNCHANGED <<session, nextId, lapsed, crashes, history>>

FillInput(p) ==
    /\ WaitsForInput(p) /\ ~turn[p].ctx.started
    /\ ~is_cancel_message(turn[p].msg) /\ ~waiting_input_still_missing(turn[p].msg)
    /\ LET c == turn[p].ctx
           s == mark_runtime_action_waiting_confirmation(
                    c, with_user_input(waiting_input_action(c)))
       IN Save(p, s) /\ Answer(p, "note")
    /\ UNCHANGED <<nextId, lapsed, crashes, history>>

-----------------------------------------------------------------------------
(* A pending action is confirmed or cancelled by the message. *)

Routes(p) == At(p, "route") /\ turn[p].ctx.state.act # "waiting_input"

HasPending(p) == pending_action(turn[p].ctx).id # 0

ConfirmNothing(p) ==
    /\ Routes(p) /\ ~HasPending(p)
    /\ is_standalone_confirmation_message(turn[p].msg)
    /\ Answer(p, "note")
    /\ UNCHANGED <<session, nextId, lapsed, crashes, history>>

CancelPending(p) ==
    /\ Routes(p) /\ HasPending(p) /\ is_cancel_message(turn[p].msg)
    /\ LET c == turn[p].ctx
       IN /\ IF latest_action_exists(c)
             THEN Save(p, mark_terminal(c, "cancelled"))
             ELSE UNCHANGED session
          /\ Answer(p, "note")
    /\ UNCHANGED <<nextId, lapsed, crashes, history>>

Confirms(p) == Routes(p) /\ HasPending(p) /\ is_confirmation_message(turn[p].msg)

ConfirmExpired(p) ==
    /\ Confirms(p) /\ pending_action_expired(pending_action(turn[p].ctx))
    /\ LET c == turn[p].ctx
       IN /\ IF latest_action_exists(c)
             THEN Save(p, mark_terminal(c, "stale"))
             ELSE UNCHANGED session
          /\ Answer(p, "note")
    /\ UNCHANGED <<nextId, lapsed, crashes, history>>

\* approval_transfer and approval_add_sign are answered and never executed; the
\* receipt is part of the answer and no result context is saved.
ConfirmGuarded(p) ==
    /\ Confirms(p) /\ ~pending_action_expired(pending_action(turn[p].ctx))
    /\ confirmation_execution_guarded(pending_action(turn[p].ctx))
    /\ LET c == turn[p].ctx
       IN /\ IF Writes_done(c, FALSE)
             THEN Save(p, mark_runtime_action_done(c, FALSE))
             ELSE UNCHANGED session
          /\ Answer(p, "clean")
    /\ UNCHANGED <<nextId, lapsed, crashes, history>>

\* The stored message takes the place of the confirmation and is planned anew.
ConfirmPending(p) ==
    /\ Confirms(p) /\ ~pending_action_expired(pending_action(turn[p].ctx))
    /\ ~confirmation_execution_guarded(pending_action(turn[p].ctx))
    /\ LET c == turn[p].ctx
           a == pending_action(c)
           s == IF latest_action_exists(c) THEN mark_runtime_action_confirmed(c) ELSE c
       IN /\ IF Writes_confirmed(c) THEN Save(p, s) ELSE UNCHANGED session
          /\ turn' = [turn EXCEPT ![p] =
                        [@ EXCEPT !.pc = "plan", !.msg = a.message, !.conf = a,
                                  !.granted = TRUE, !.ctx = WithoutPending(s)]]
    /\ UNCHANGED <<nextId, lapsed, crashes, history>>

PassToPlanner(p) ==
    /\ Routes(p)
    /\ IF HasPending(p)
       THEN ~is_cancel_message(turn[p].msg) /\ ~is_confirmation_message(turn[p].msg)
       ELSE ~is_standalone_confirmation_message(turn[p].msg)
    /\ Goto(p, "plan", turn[p].ctx)
    /\ UNCHANGED <<session, nextId, lapsed, crashes, history>>

-----------------------------------------------------------------------------
(* Planning, policy and execution *)

\* A reference to the last result is answered from the result context.
AnswerFollowup(p) ==
    /\ At(p, "plan") /\ turn[p].msg = "followup"
    /\ Answer(p, "clean")
    /\ UNCHANGED <<session, nextId, lapsed, crashes, history>>

\* needs_clarification, or permission.allowed is false
AnswerWithoutExecution(p) ==
    /\ At(p, "plan")
    /\ Answer(p, "note")
    /\ UNCHANGED <<session, nextId, lapsed, crashes, history>>

\* _save_pending_action, under a new id and with an expiry
RequestConfirmation(p) ==
    /\ At(p, "plan") /\ should_request_confirmation(turn[p])
    /\ nextId <= MaxId
    /\ LET a == [id |-> nextId, message |-> turn[p].msg, strategy |-> turn[p].msg,
                 ttl |-> TRUE, missing |-> FALSE]
       IN Save(p, save_waiting_confirmation_state(turn[p].ctx, a))
    /\ nextId' = nextId + 1
    /\ Answer(p, "note")
    /\ UNCHANGED <<lapsed, crashes, history>>

BeginExecution(p) ==
    /\ At(p, "plan") /\ ~should_request_confirmation(turn[p])
    /\ LET c == turn[p].ctx
           s == mark_runtime_action_executing(c)
       IN IF turn[p].granted /\ Writes_executing(c)
          THEN Save(p, s) /\ Goto(p, "execute", s)
          ELSE UNCHANGED session /\ Goto(p, "execute", c)
    /\ UNCHANGED <<nextId, lapsed, crashes, history>>

\* A turn about to hand a write to the provider, and the id it was confirmed
\* under (0 when nothing was confirmed)
Submits(p) == At(p, "execute") /\ turn[p].msg \in Strategies

\* CapabilityRouter.execute: the provider answers
Execute(p, success) ==
    /\ At(p, "execute")
    /\ submitted' = IF Submits(p) THEN submitted \cup {turn[p].conf.id} ELSE submitted
    /\ turn' = [turn EXCEPT ![p] = [@ EXCEPT !.pc = "settle", !.ok = success]]
    /\ UNCHANGED <<session, nextId, lapsed, crashes, confirmed>>

\* Settling a confirmed action: mark_runtime_action_done.  What was confirmed is a
\* write, of which a receipt is kept in the result context.
SettleAction(p) ==
    /\ At(p, "settle") /\ turn[p].granted
    /\ LET c == turn[p].ctx
           s == mark_runtime_action_done(c, turn[p].ok)
       IN /\ IF Writes_done(c, turn[p].ok) THEN Save(p, s) ELSE UNCHANGED session
          /\ Answer(p, "note")
    /\ UNCHANGED <<nextId, lapsed, crashes, history>>

\* Settling anything else: save_runtime_task_execution_state drops the pending
\* action from the session it writes; the turn's own copy keeps it.
SettleTask(p) ==
    /\ At(p, "settle") /\ ~turn[p].granted
    /\ Save(p, save_runtime_task_execution_state(turn[p].ctx, turn[p].ok))
    /\ \/ Answer(p, "note")             \* a write's receipt, or no result context
       \/ /\ ~requires_confirmation(turn[p].msg)
          /\ AnswerKeeping(p, [turn[p].ctx EXCEPT !.state = TaskState(turn[p].ok)])
    /\ UNCHANGED <<nextId, lapsed, crashes, history>>

-----------------------------------------------------------------------------
(* What follows an answer.  Recording a result-context event, an action     *)
(* trace or a decision trace loads the whole session, adds to a list the    *)
(* runtime never decides on, and writes the whole session back: consecutive *)
(* ones are one load and one write here.                                    *)

Leave(p) == turn' = [turn EXCEPT ![p] = Idle]

\* Only the bot goes on to clean up and to trace its decision.
AfterAnswer(p) == IF turn[p].bot THEN Answer(p, "clean") ELSE Leave(p)

AfterNote(p) ==
    IF turn[p].syncs
    THEN turn' = [turn EXCEPT ![p] = [@ EXCEPT !.pc = "sync", !.buf = EmptySession]]
    ELSE AfterAnswer(p)

\* save_result_context / clear_result_context -> _record_result_context_event
Note(p) ==
    /\ At(p, "note")
    /\ IF turn[p].chat
       THEN \E s \in Loaded :
              turn' = [turn EXCEPT ![p] = [@ EXCEPT !.pc = "note_save", !.buf = s]]
       ELSE AfterNote(p)
    /\ UNCHANGED <<session, nextId, lapsed, crashes, history>>

NoteSave(p) ==
    /\ At(p, "note_save")
    /\ session' \in Saved(turn[p].buf)
    /\ AfterNote(p)
    /\ UNCHANGED <<nextId, lapsed, crashes, history>>

\* _sync_current_approval_item writes the session the turn holds in memory.
Sync(p) ==
    /\ At(p, "sync")
    /\ Save(p, turn[p].ctx)
    /\ AfterAnswer(p)
    /\ UNCHANGED <<nextId, lapsed, crashes, history>>

Unexpired(a) == IF pending_action_expired(a) THEN NoPayload ELSE a
Cleaned(s) == [s EXCEPT !.pending = Unexpired(@), !.single = Unexpired(@)]

\* _cleanup_expired_pending_confirmations: drops the pending keys, not the state
Clean(p) ==
    /\ At(p, "clean")
    /\ IF ~turn[p].bot THEN Leave(p)
       ELSE \E s \in Loaded :
              IF pending_action_expired(s.pending) \/ pending_action_expired(s.single)
              THEN turn' = [turn EXCEPT ![p] = [@ EXCEPT !.pc = "clean_save", !.buf = Cleaned(s)]]
              ELSE Answer(p, "trace")
    /\ UNCHANGED <<session, nextId, lapsed, crashes, history>>

CleanSave(p) ==
    /\ At(p, "clean_save")
    /\ session' \in Saved(turn[p].buf)
    /\ Answer(p, "trace")
    /\ UNCHANGED <<nextId, lapsed, crashes, history>>

Trace(p) ==
    /\ At(p, "trace")
    /\ \E s \in Loaded : turn' = [turn EXCEPT ![p] = [@ EXCEPT !.pc = "trace_save", !.buf = s]]
    /\ UNCHANGED <<session, nextId, lapsed, crashes, history>>

TraceSave(p) ==
    /\ At(p, "trace_save")
    /\ session' \in Saved(turn[p].buf)
    /\ Leave(p)
    /\ UNCHANGED <<nextId, lapsed, crashes, history>>

-----------------------------------------------------------------------------
(* The environment *)

\* The process dies, or the provider raises: nothing catches it before the
\* turn is over, and no task is retried.
Crash(p) ==
    /\ ~At(p, "idle") /\ crashes < MaxCrashes
    /\ crashes' = crashes + 1
    /\ Leave(p)
    /\ UNCHANGED <<session, nextId, lapsed, history>>

\* 900 seconds pass after an id was handed out.
Lapse(id) ==
    /\ id < nextId /\ id \notin lapsed
    /\ lapsed' = lapsed \cup {id}
    /\ UNCHANGED <<session, turn, nextId, crashes, history>>

\* 1800 seconds pass after the last write: Redis drops the session.
ExpireSession ==
    /\ \A p \in Workers : At(p, "idle")
    /\ session # EmptySession
    /\ session' = EmptySession
    /\ lapsed' = lapsed \cup {id \in Ids : id < nextId}
    /\ UNCHANGED <<turn, nextId, crashes, history>>

-----------------------------------------------------------------------------
\* The action behind an input that was left has its id already.
Init ==
    /\ session \in {[EmptySession EXCEPT !.input = i] : i \in InputsLeft \cup {NoInput}}
    /\ nextId = session.input.id + 1
    /\ turn = [p \in Workers |-> Idle]
    /\ lapsed = {}
    /\ crashes = 0
    /\ confirmed = {} /\ submitted = {}

\* One step of a turn that has started
EnterStep(p) ==
    \/ EnterWithoutInput(p) \/ RejectInput(p) \/ EnterMissingInput(p)
    \/ EnterCancelInput(p) \/ EnterConfirmedInput(p) \/ ConfirmInput(p)
    \/ EnterPlainInput(p)

RouteStep(p) ==
    \/ CancelWaitingInput(p) \/ PromptStarted(p) \/ PromptAgain(p) \/ FillInput(p)
    \/ ConfirmNothing(p) \/ CancelPending(p) \/ ConfirmExpired(p)
    \/ ConfirmGuarded(p) \/ ConfirmPending(p) \/ PassToPlanner(p)

ExecuteStep(p) ==
    \/ AnswerFollowup(p) \/ AnswerWithoutExecution(p) \/ RequestConfirmation(p)
    \/ BeginExecution(p) \/ \E success \in BOOLEAN : Execute(p, success)
    \/ SettleAction(p) \/ SettleTask(p)

FinishStep(p) ==
    \/ Note(p) \/ NoteSave(p) \/ Sync(p) \/ Clean(p) \/ CleanSave(p)
    \/ Trace(p) \/ TraceSave(p)

TurnStep(p) == EnterStep(p) \/ RouteStep(p) \/ ExecuteStep(p) \/ FinishStep(p)

Arrive(p) ==
    \/ \E m \in Texts : ReceiveMessage(p, m)
    \/ \E m \in {"approve", "reject"}, r \in PortalRequests, id \in Ids :
            PortalAction(p, m, r, id)
    \/ PortalQuery(p)

Environment == (\E p \in Workers : Crash(p)) \/ (\E id \in Ids : Lapse(id)) \/ ExpireSession

Next == (\E p \in Workers : Arrive(p) \/ TurnStep(p)) \/ Environment

\* A turn that has started is run to its end by its thread or worker.
Fairness == \A p \in Workers : WF_vars(TurnStep(p))

Spec == Init /\ [][Next]_vars /\ Fairness

-----------------------------------------------------------------------------
(* Properties *)

TypeOK ==
    /\ session \in Sessions
    /\ turn \in [Workers -> Turns]
    /\ nextId \in 1..(MaxId + 1)
    /\ lapsed \subseteq Ids
    /\ crashes \in 0..MaxCrashes
    /\ confirmed \subseteq Ids
    /\ submitted \subseteq Ids \cup {0}

\* No write reaches the provider unless a user confirmed that very action: by a
\* confirming message while it was pending and not expired, or by a confirmed
\* request (runtime.py: the confirmation gate, across every turn in between).
ConfirmedWrites == submitted \subseteq confirmed

\* The turns implement the gate: a step confirms one action, or hands one to the
\* provider that was confirmed before, and nothing confirmed or submitted is ever
\* taken back, whatever crashes, expires or overlaps in between.
Gate == INSTANCE WriteGate WITH Actions <- Ids
GateImplemented == Gate!Spec

\* approval_transfer and approval_add_sign are never handed to the provider,
\* whatever route the action took to its confirmation.
GuardedNeverSubmitted ==
    \A p \in Workers :
        Submits(p) => {turn[p].msg, turn[p].conf.strategy}
                          \cap {"transfer", "add_sign"} = {}

\* The task status and the status of its action never disagree: a task waits
\* exactly while its action does, runs while it is confirmed or executing, and
\* ends with it.
TaskAgreesWithAction ==
    LET t == session.state.task
        a == session.state.act
    IN /\ a \in {"waiting_input", "waiting_confirmation"} <=> t = "waiting"
       /\ a \in {"confirmed", "executing"} <=> t = "running"
       /\ a = "done" => t = "done"
       /\ a \in {"failed", "cancelled", "stale"} => t = "failed"

\* The recorded life of an action has no shortcut: it executes only after it was
\* recorded as confirmed, it is recorded done or failed only after executing
\* (a guarded action fails from its confirmation), and an action that waits
\* for a parameter waits for the confirmation next.
ActionLifecycle ==
    LET a == session.state
        b == session'.state
    IN a # b /\ a.held.id = b.held.id /\ a.act # b.act =>
         /\ b.act = "executing" => a.act = "confirmed"
         /\ b.act = "done" => a.act = "executing"
         /\ a.act = "waiting_input" => b.act \in {"waiting_confirmation", "cancelled"}
         /\ a.act = "executing" => b.act \in {"done", "failed", "waiting_confirmation"}

ActionsFollowLifecycle == [][ActionLifecycle]_vars

\* A write reaches the provider only while the session says that its action is
\* executing (mark_runtime_action_executing precedes execute_runtime_task).
ExecutionIsRecorded ==
    \A p \in Workers :
        Submits(p) /\ turn[p].chat =>
            session.state.act = "executing" /\ session.state.held = turn[p].conf

\* The same pending action is not handed to the provider twice.
SubmitsOnce(p) ==
    Submits(p) /\ turn'[p].pc = "settle" => turn[p].conf.id \notin submitted

SubmittedOnce == [][\A p \in Workers : SubmitsOnce(p)]_vars

\* After the user was told that the pending action is cancelled, the session
\* offers nothing to confirm, whatever wrote it last.
CancelClears ==
    [][\A p \in Workers : CancelPending(p) => pending_action(session').id = 0]_vars

\* Unless a turn dies, an action that executes is settled, by the turn that
\* began it: nothing else in the code ever does.
ExecutingSettles ==
    session.state.act = "executing" ~> session.state.act # "executing" \/ crashes > 0

=============================================================================

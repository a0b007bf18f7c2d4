-------------------------- MODULE CardConfirmProofs --------------------------
(* For any number of clicks, tasks and turns at once: a confirmed input in the   *)
(* session is one its user confirmed, and no card opens a way to the provider    *)
(* around a pending action.                                                      *)
EXTENDS CardConfirm, RuntimeV5Proofs, FiniteSetTheorems, SequenceTheorems

-----------------------------------------------------------------------------
(* The inductive invariant.  Clicks, tasks and turns store whole sessions that   *)
(* they loaded before, so what must hold of the session must hold of every copy. *)

\* A confirmed input carries the id of a confirmed action.
InputRight(s, C) == s.input.kind = "confirmed" => s.input.id \in C

\* A request without a chat is not asked about: it comes confirmed.
RequestsAsk == \A r \in PortalRequests : r.chat \/ r.confirm

\* A turn that writes without asking carries the pending action that was confirmed.
TurnAsks(t) ==
    /\ t.pc = "entry" => t.chat \/ t.ctx.input.kind = "confirmed"
    /\ t.pc = "route" => t.chat \/ t.msg = "confirm"
    /\ t.pc \in {"plan", "execute"} => t.chat \/ t.granted
    /\ t.pc = "execute" /\ t.msg \in Strategies => t.granted
    /\ t.granted => t.conf.id # 0

TurnRight(t, C) ==
    /\ InputRight(t.ctx, C) /\ InputRight(t.buf, C)
    /\ RequestsAsk => TurnAsks(t)

TurnsInv ==
    /\ TypeOK
    /\ InputRight(session, confirmed)
    /\ \A p \in Workers : TurnRight(turn[p], confirmed)
    /\ RequestsAsk => WritesWerePending

\* Where a program has the step.
Places(todo, step) == {i \in 1..Len(todo) : todo[i] = step}

\* A handler queues one command and sends a card for an action that has an id; it
\* holds a session only for a step that stores one.
ClickShape(c) ==
    /\ \A i, j \in Places(c.todo, "queue") : i = j
    /\ Places(c.todo, "queue") # {} => c.command \in Commands
    /\ Places(c.todo, "send") # {} => c.offer.id \in Ids
    /\ c.loaded => c.todo # <<>> /\ Head(c.todo) \notin {"queue", "send"}

\* The input a click is going to leave, and the session it loaded for its next step
ClickRight(c, C) == InputRight(c, C) /\ InputRight(c.buf, C)

\* A queued command is one of a click that has been counted.
Queuing == {k \in Clickers : Places(click[k].todo, "queue") # {}}
QueueIsCounted ==
    /\ IsFiniteSet(Queuing)
    /\ \A m \in Commands : tasks[m] + Cardinality(Queuing) <= clicks

CardInv ==
    /\ CardTypeOK
    /\ TurnsInv
    /\ \A k \in Clickers : ClickShape(click[k]) /\ ClickRight(click[k], confirmed)
    /\ \A p \in Workers : InputRight(job[p].buf, confirmed)
    /\ QueueIsCounted

-----------------------------------------------------------------------------
(* The turns *)

LEMMA RightMonotone ==
    ASSUME NEW s, NEW C, NEW D, C \subseteq D, InputRight(s, C)
    PROVE  InputRight(s, D)
BY DEF InputRight

LEMMA EmptyRight ==
    ASSUME NEW C
    PROVE  /\ InputRight(EmptySession, C) /\ TurnRight(Idle, C)
           /\ \A s : s.input = NoInput => InputRight(s, C)
<1>1. InputRight(EmptySession, C)
  BY DEF InputRight, EmptySession, NoInput
<1>2. TurnRight(Idle, C)
  BY <1>1 DEF TurnRight, TurnAsks, Idle
<1>3. \A s : s.input = NoInput => InputRight(s, C)
  BY DEF InputRight, NoInput
<1> QED BY <1>1, <1>2, <1>3

\* A step of one turn, or a turn that starts
LEMMA TurnsStep ==
    ASSUME TurnsInv, TypeOK', NEW p \in Workers, NEW t,
           turn' = [turn EXCEPT ![p] = t],
           confirmed \subseteq confirmed',
           InputRight(session', confirmed'), TurnRight(t, confirmed'),
           RequestsAsk => 0 \notin submitted'
    PROVE  TurnsInv'
<1>1. ASSUME NEW q \in Workers
      PROVE  TurnRight(turn'[q], confirmed')
  <2>1. CASE q = p
    BY <2>1 DEF TurnsInv, TypeOK
  <2>2. CASE q # p
    <3>1. turn'[q] = turn[q] /\ TurnRight(turn[q], confirmed)
      BY <2>2 DEF TurnsInv, TypeOK
    <3> QED BY <3>1, RightMonotone DEF TurnRight
  <2> QED BY <2>1, <2>2
<1> QED BY <1>1 DEF TurnsInv, WritesWerePending

\* A step outside of the turns
LEMMA OutsideStep ==
    ASSUME TurnsInv, TypeOK', turn' = turn, confirmed \subseteq confirmed',
           submitted' = submitted, InputRight(session', confirmed')
    PROVE  TurnsInv'
BY RightMonotone DEF TurnsInv, TurnRight, WritesWerePending

\* The history that a turn's step leaves alone
Kept == UNCHANGED <<confirmed, submitted>>

LEMMA AnswerRight ==
    ASSUME TurnsInv, TypeOK', NEW p \in Workers, Kept, InputRight(session', confirmed),
           \/ \E pc \in {"note", "clean", "trace"} : Answer(p, pc)
           \/ \E c : AnswerKeeping(p, c) /\ InputRight(c, confirmed)
           \/ Leave(p) \/ AfterAnswer(p)
    PROVE  TurnsInv'
<1>1. RequestsAsk => 0 \notin submitted'
  BY DEF Kept, TurnsInv, WritesWerePending
<1>2. ASSUME NEW pc \in {"note", "clean", "trace"}, Answer(p, pc)
      PROVE  TurnsInv'
  <2> DEFINE t == [Idle EXCEPT !.pc = pc, !.chat = turn[p].chat, !.bot = turn[p].bot]
  <2>1. TurnRight(t, confirmed)
    BY EmptyRight DEF TurnRight, TurnAsks, Idle
  <2>2. turn' = [turn EXCEPT ![p] = t]
    BY <1>2 DEF Answer
  <2> QED BY <1>1, <2>1, <2>2, TurnsStep DEF Kept
<1>3. ASSUME NEW c, AnswerKeeping(p, c), InputRight(c, confirmed)
      PROVE  TurnsInv'
  <2> DEFINE t == [Idle EXCEPT !.pc = "note", !.chat = turn[p].chat, !.bot = turn[p].bot,
                               !.syncs = TRUE, !.ctx = c]
  <2>1. TurnRight(t, confirmed)
    BY <1>3, EmptyRight DEF TurnRight, TurnAsks, Idle
  <2>2. turn' = [turn EXCEPT ![p] = t]
    BY <1>3 DEF AnswerKeeping
  <2> QED BY <1>1, <2>1, <2>2, TurnsStep DEF Kept
<1>4. ASSUME Leave(p)
      PROVE  TurnsInv'
  BY <1>1, <1>4, EmptyRight, TurnsStep DEF Leave, Kept
<1> QED BY <1>2, <1>3, <1>4 DEF AfterAnswer

LEMMA SaveRight ==
    ASSUME TurnsInv, NEW p \in Workers, NEW s, Save(p, s), InputRight(s, confirmed)
    PROVE  InputRight(session', confirmed)
BY DEF TurnsInv, Save, Saved

\* What the operations of runtime_state.py write has the input of what they read.
LEMMA OperationsRight ==
    ASSUME NEW s \in Sessions, NEW a \in Payloads, NEW ok \in BOOLEAN, NEW C, InputRight(s, C),
           NEW act \in {"cancelled", "stale"}
    PROVE  /\ InputRight(save_waiting_input_state(s, a), C)
           /\ InputRight(save_waiting_confirmation_state(s, a), C)
           /\ InputRight(mark_runtime_action_waiting_confirmation(s, a), C)
           /\ InputRight(mark_runtime_action_confirmed(s), C)
           /\ InputRight(mark_runtime_action_executing(s), C)
           /\ InputRight(mark_runtime_action_done(s, ok), C)
           /\ InputRight(mark_terminal(s, act), C)
           /\ InputRight(save_runtime_task_execution_state(s, ok), C)
           /\ InputRight([s EXCEPT !.state = TaskState(ok)], C)
           /\ InputRight(WithoutPending(s), C)
           /\ \A b \in BOOLEAN : InputRight([s EXCEPT !.started = b], C)
BY InputKept DEF InputRight

LEMMA EnterStepRight ==
    ASSUME TurnsInv, NEW p \in Workers, EnterStep(p)
    PROVE  TurnsInv'
<1> DEFINE c == turn[p].ctx
<1>1. TypeOK /\ TypeOK'
  BY EnterStepTyped DEF TurnsInv
<1>2. /\ TurnRight(turn[p], confirmed) /\ turn[p] \in Turns
      /\ c \in Sessions /\ c.input \in Inputs
      /\ InputRight(c, confirmed) /\ InputRight(turn[p].buf, confirmed)
      /\ InputRight(session, confirmed)
  BY <1>1, TurnFields, SessionFields DEF TurnsInv, TurnRight
<1>3. Consumed(c) \in Sessions /\ InputRight(Consumed(c), confirmed) /\ Consumed(c).input = NoInput
  <2>1. Consumed(c) \in Sessions /\ Consumed(c).input = NoInput
    BY <1>2, ConstantsTyped, StateOperationsTyped DEF Consumed, Sessions
  <2> QED BY <2>1, EmptyRight
<1>4. Kept
  BY DEF EnterStep, EnterWithoutInput, RejectInput, EnterMissingInput, EnterCancelInput,
     EnterConfirmedInput, ConfirmInput, EnterPlainInput, history, Kept
<1>5. RequestsAsk => 0 \notin submitted'
  BY <1>4 DEF Kept, TurnsInv, WritesWerePending
\* How a turn moves on: to pc with the message m and the session s.
<1>6. ASSUME NEW pc \in {"route", "confirm_input"}, NEW m, NEW s, InputRight(s, confirmed),
             turn' = [turn EXCEPT ![p] = [@ EXCEPT !.pc = pc, !.msg = m, !.ctx = s]],
             InputRight(session', confirmed),
             RequestsAsk /\ pc = "route" => turn[p].chat \/ m = "confirm"
      PROVE  TurnsInv'
  <2> DEFINE t == [turn[p] EXCEPT !.pc = pc, !.msg = m, !.ctx = s]
  <2>1. t.ctx = s /\ t.buf = turn[p].buf /\ t.pc = pc /\ t.msg = m /\ t.chat = turn[p].chat
        /\ t.granted = turn[p].granted /\ t.conf = turn[p].conf
    BY <1>2 DEF Turns
  <2>2. TurnRight(t, confirmed)
    BY <1>2, <1>6, <2>1 DEF TurnRight, TurnAsks
  <2> QED BY <1>1, <1>4, <1>5, <1>6, <2>2, TurnsStep DEF Kept
<1>7. At(p, "entry") /\ c.input.kind # "confirmed" /\ RequestsAsk => turn[p].chat
  BY <1>2 DEF At, TurnRight, TurnAsks
<1>8. /\ pending_from_input(c.input, TRUE) \in Payloads
      /\ pending_from_input(c.input, FALSE) \in Payloads
  BY <1>2, InputFields
<1>9. CASE EnterWithoutInput(p)
  <2>1. [turn[p] EXCEPT !.pc = "route", !.ctx = c]
          = [turn[p] EXCEPT !.pc = "route", !.msg = turn[p].msg, !.ctx = c]
    BY <1>2 DEF Turns
  <2> QED BY <1>2, <1>6, <1>7, <1>9, <2>1 DEF EnterWithoutInput, Goto
<1>10. CASE RejectInput(p)
  BY <1>1, <1>3, <1>4, <1>10, SaveRight, AnswerRight DEF RejectInput
<1>11. CASE EnterMissingInput(p)
  <2> DEFINE s == save_waiting_input_state(Consumed(c), pending_from_input(c.input, TRUE))
  <2>1. s \in Sessions /\ InputRight(s, confirmed)
    BY <1>3, <1>8, StateOperationsTyped, OperationsRight
  <2>2. InputRight([s EXCEPT !.started = TRUE], confirmed)
    BY <1>8, <2>1, OperationsRight
  <2> QED BY <1>6, <1>7, <1>11, <2>1, <2>2, SaveRight DEF EnterMissingInput
<1>12. CASE EnterCancelInput(p)
  <2> DEFINE s == save_waiting_confirmation_state(Consumed(c), pending_from_input(c.input, FALSE))
  <2>1. InputRight(s, confirmed)
    BY <1>3, <1>8, OperationsRight
  <2> QED BY <1>6, <1>7, <1>12, <2>1, SaveRight DEF EnterCancelInput
<1>13. CASE EnterConfirmedInput(p)
  <2> DEFINE s == save_waiting_confirmation_state(Consumed(c), pending_from_input(c.input, FALSE))
  <2>1. InputRight(s, confirmed)
    BY <1>3, <1>8, OperationsRight
  <2>2. Save(p, s) /\ turn' = [turn EXCEPT ![p] = [@ EXCEPT !.pc = "confirm_input", !.ctx = s]]
    BY <1>13 DEF EnterConfirmedInput, Goto
  <2>3. [turn[p] EXCEPT !.pc = "confirm_input", !.ctx = s]
          = [turn[p] EXCEPT !.pc = "confirm_input", !.msg = turn[p].msg, !.ctx = s]
    BY <1>2 DEF Turns
  <2> QED BY <1>6, <2>1, <2>2, <2>3, SaveRight
<1>14. CASE ConfirmInput(p)
  <2>1. InputRight(mark_runtime_action_confirmed(c), confirmed)
    BY <1>2, <1>8, OperationsRight
  <2> QED BY <1>6, <1>14, <2>1, SaveRight DEF ConfirmInput
<1>15. CASE EnterPlainInput(p)
  BY <1>2, <1>3, <1>6, <1>7, <1>15 DEF EnterPlainInput
<1> QED BY <1>9, <1>10, <1>11, <1>12, <1>13, <1>14, <1>15 DEF EnterStep

LEMMA RouteStepRight ==
    ASSUME TurnsInv, NEW p \in Workers, RouteStep(p)
    PROVE  TurnsInv'
<1> DEFINE c == turn[p].ctx
           a == pending_action(c)
<1>1. TypeOK /\ TypeOK'
  BY RouteStepTyped DEF TurnsInv
<1>2. /\ TurnRight(turn[p], confirmed) /\ turn[p] \in Turns
      /\ c \in Sessions /\ a \in Payloads /\ waiting_input_action(c) \in Payloads
      /\ InputRight(c, confirmed) /\ InputRight(turn[p].buf, confirmed)
      /\ InputRight(session, confirmed)
  BY <1>1, TurnFields, SessionFields DEF TurnsInv, TurnRight
<1>3. with_user_input(waiting_input_action(c)) \in Payloads
  BY <1>2, PayloadFields
<1>4. Kept
  BY DEF RouteStep, CancelWaitingInput, PromptStarted, PromptAgain, FillInput, ConfirmNothing,
     CancelPending, ConfirmExpired, ConfirmGuarded, ConfirmPending, PassToPlanner, history, Kept
<1>5. /\ InputRight(mark_terminal(c, "cancelled"), confirmed)
      /\ InputRight(mark_terminal(c, "stale"), confirmed)
      /\ InputRight(mark_runtime_action_done(c, FALSE), confirmed)
      /\ InputRight(mark_runtime_action_confirmed(c), confirmed)
      /\ InputRight([c EXCEPT !.started = FALSE], confirmed)
      /\ InputRight(mark_runtime_action_waiting_confirmation(
                       c, with_user_input(waiting_input_action(c))), confirmed)
  BY <1>2, <1>3, OperationsRight
<1>6. RequestsAsk => 0 \notin submitted'
  BY <1>4 DEF Kept, TurnsInv, WritesWerePending
<1>7. CASE CancelWaitingInput(p)
  BY <1>1, <1>4, <1>5, <1>7, SaveRight, AnswerRight DEF CancelWaitingInput
<1>8. CASE PromptStarted(p)
  BY <1>1, <1>4, <1>5, <1>8, SaveRight, AnswerRight DEF PromptStarted
<1>9. CASE PromptAgain(p)
  BY <1>1, <1>2, <1>4, <1>9, AnswerRight DEF PromptAgain
<1>10. CASE FillInput(p)
  BY <1>1, <1>4, <1>5, <1>10, SaveRight, AnswerRight DEF FillInput
<1>11. CASE ConfirmNothing(p)
  BY <1>1, <1>2, <1>4, <1>11, AnswerRight DEF ConfirmNothing
<1>12. CASE CancelPending(p)
  BY <1>1, <1>2, <1>4, <1>5, <1>12, SaveRight, AnswerRight DEF CancelPending
<1>13. CASE ConfirmExpired(p)
  BY <1>1, <1>2, <1>4, <1>5, <1>13, SaveRight, AnswerRight DEF ConfirmExpired
<1>14. CASE ConfirmGuarded(p)
  BY <1>1, <1>2, <1>4, <1>5, <1>14, SaveRight, AnswerRight DEF ConfirmGuarded
<1>15. CASE ConfirmPending(p)
  <2> DEFINE s == IF latest_action_exists(c) THEN mark_runtime_action_confirmed(c) ELSE c
             t == [turn[p] EXCEPT !.pc = "plan", !.msg = a.message, !.conf = a,
                                  !.granted = TRUE, !.ctx = WithoutPending(s)]
  <2>1. s \in Sessions /\ InputRight(s, confirmed)
    BY <1>2, <1>5, ConstantsTyped, StateOperationsTyped
  <2>2. InputRight(WithoutPending(s), confirmed)
    BY <1>2, <2>1, OperationsRight
  <2>3. InputRight(session', confirmed)
    BY <1>2, <1>15, <2>1, SaveRight DEF ConfirmPending
  <2>4. turn' = [turn EXCEPT ![p] = t]
    BY <1>15 DEF ConfirmPending
  <2>5. a.id # 0
    BY <1>15 DEF ConfirmPending, Confirms, HasPending
  <2>6. t.ctx = WithoutPending(s) /\ t.buf = turn[p].buf /\ t.pc = "plan"
        /\ t.granted = TRUE /\ t.conf = a
    BY <1>2 DEF Turns
  <2>7. TurnRight(t, confirmed)
    BY <1>2, <2>2, <2>5, <2>6 DEF TurnRight, TurnAsks
  <2> QED BY <1>1, <1>4, <1>6, <2>3, <2>4, <2>7, TurnsStep DEF Kept
<1>16. CASE PassToPlanner(p)
  <2> DEFINE t == [turn[p] EXCEPT !.pc = "plan", !.ctx = c]
  <2>1. turn' = [turn EXCEPT ![p] = t] /\ session' = session
    BY <1>16 DEF PassToPlanner, Goto
  <2>2. RequestsAsk => turn[p].chat
    BY <1>2, <1>16 DEF PassToPlanner, Routes, At, TurnRight, TurnAsks, is_confirmation_message,
        is_standalone_confirmation_message
  <2>3. t.ctx = c /\ t.buf = turn[p].buf /\ t.pc = "plan" /\ t.chat = turn[p].chat
        /\ t.granted = turn[p].granted /\ t.conf = turn[p].conf
    BY <1>2 DEF Turns
  <2>4. TurnRight(t, confirmed)
    BY <1>2, <2>2, <2>3 DEF TurnRight, TurnAsks
  <2> QED BY <1>1, <1>2, <1>4, <1>6, <2>1, <2>4, TurnsStep DEF Kept
<1> QED BY <1>7, <1>8, <1>9, <1>10, <1>11, <1>12, <1>13, <1>14, <1>15, <1>16 DEF RouteStep

LEMMA ExecuteStepRight ==
    ASSUME TurnsInv, NEW p \in Workers, ExecuteStep(p)
    PROVE  TurnsInv'
<1> DEFINE c == turn[p].ctx
           ok == turn[p].ok
<1>1. TypeOK /\ TypeOK'
  BY ExecuteStepTyped DEF TurnsInv
<1>2. /\ TurnRight(turn[p], confirmed) /\ turn[p] \in Turns
      /\ c \in Sessions /\ ok \in BOOLEAN
      /\ InputRight(c, confirmed) /\ InputRight(turn[p].buf, confirmed)
      /\ InputRight(session, confirmed) /\ (RequestsAsk => 0 \notin submitted)
  BY <1>1, TurnFields DEF TurnsInv, TurnRight, WritesWerePending
<1>3. /\ InputRight(mark_runtime_action_executing(c), confirmed)
      /\ InputRight(mark_runtime_action_done(c, ok), confirmed)
      /\ InputRight(save_runtime_task_execution_state(c, ok), confirmed)
      /\ InputRight([c EXCEPT !.state = TaskState(ok)], confirmed)
  BY <1>2, ConstantsTyped, OperationsRight
<1>4. CASE AnswerFollowup(p)
  BY <1>1, <1>2, <1>4, AnswerRight DEF AnswerFollowup, history, Kept
<1>5. CASE AnswerWithoutExecution(p)
  BY <1>1, <1>2, <1>5, AnswerRight DEF AnswerWithoutExecution, history, Kept
<1>6. CASE RequestConfirmation(p)
  <2> DEFINE a == [id |-> nextId, message |-> turn[p].msg, strategy |-> turn[p].msg,
                   ttl |-> TRUE, missing |-> FALSE]
  <2>1. save_waiting_confirmation_state(c, a).input = c.input
    BY <1>2 DEF save_waiting_confirmation_state, Sessions
  <2>2. InputRight(save_waiting_confirmation_state(c, a), confirmed)
    BY <1>2, <2>1 DEF InputRight
  <2>3. Save(p, save_waiting_confirmation_state(c, a)) /\ Answer(p, "note") /\ Kept
    BY <1>6 DEF RequestConfirmation, history, Kept
  <2> QED BY <1>1, <2>2, <2>3, SaveRight, AnswerRight
<1>7. CASE BeginExecution(p)
  <2>1. PICK s : /\ s \in {c, mark_runtime_action_executing(c)}
                 /\ turn' = [turn EXCEPT ![p] = [@ EXCEPT !.pc = "execute", !.ctx = s]]
                 /\ InputRight(session', confirmed)
    BY <1>2, <1>3, <1>7, SaveRight DEF BeginExecution, Goto
  <2> DEFINE t == [turn[p] EXCEPT !.pc = "execute", !.ctx = s]
  <2>2. confirmed' = confirmed /\ submitted' = submitted
    BY <1>7 DEF BeginExecution, history
  <2>3. t.ctx = s /\ t.buf = turn[p].buf /\ t.pc = "execute" /\ t.msg = turn[p].msg
        /\ t.chat = turn[p].chat /\ t.granted = turn[p].granted /\ t.conf = turn[p].conf
    BY <1>2 DEF Turns
  <2>4. RequestsAsk => turn[p].chat \/ turn[p].granted
    BY <1>2, <1>7 DEF BeginExecution, At, TurnRight, TurnAsks
  <2>5. RequestsAsk /\ turn[p].msg \in Strategies => turn[p].granted
    BY <1>7, <2>4 DEF BeginExecution, should_request_confirmation, requires_confirmation
  <2>6. TurnRight(t, confirmed)
    BY <1>2, <1>3, <2>1, <2>3, <2>4, <2>5 DEF TurnRight, TurnAsks
  <2> QED BY <1>1, <1>2, <2>1, <2>2, <2>6, TurnsStep
<1>8. CASE \E success \in BOOLEAN : Execute(p, success)
  <2>1. PICK success \in BOOLEAN : Execute(p, success)
    BY <1>8
  <2> DEFINE t == [turn[p] EXCEPT !.pc = "settle", !.ok = success]
  <2>2. turn' = [turn EXCEPT ![p] = t] /\ session' = session /\ confirmed' = confirmed
    BY <2>1 DEF Execute
  <2>3. t.ctx = c /\ t.buf = turn[p].buf /\ t.pc = "settle"
        /\ t.granted = turn[p].granted /\ t.conf = turn[p].conf
    BY <1>2 DEF Turns
  <2>4. TurnRight(t, confirmed)
    BY <1>2, <2>3 DEF TurnRight, TurnAsks
  <2>5. RequestsAsk /\ Submits(p) => turn[p].conf.id # 0
    BY <1>2 DEF Submits, At, TurnRight, TurnAsks
  <2>6. RequestsAsk => 0 \notin submitted'
    BY <1>2, <2>1, <2>5 DEF Execute
  <2> QED BY <1>1, <1>2, <2>2, <2>4, <2>6, TurnsStep
<1>9. CASE SettleAction(p)
  <2>1. InputRight(session', confirmed)
    BY <1>2, <1>3, <1>9, SaveRight DEF SettleAction
  <2>2. Answer(p, "note") /\ Kept
    BY <1>9 DEF SettleAction, history, Kept
  <2> QED BY <1>1, <2>1, <2>2, AnswerRight
<1>10. CASE SettleTask(p)
  <2>1. InputRight(session', confirmed)
    BY <1>3, <1>10, SaveRight DEF SettleTask
  <2>2. Answer(p, "note") \/ AnswerKeeping(p, [c EXCEPT !.state = TaskState(ok)])
    BY <1>10 DEF SettleTask
  <2>3. Kept
    BY <1>10 DEF SettleTask, history, Kept
  <2> QED BY <1>1, <1>3, <2>1, <2>2, <2>3, AnswerRight
<1> QED BY <1>4, <1>5, <1>6, <1>7, <1>8, <1>9, <1>10 DEF ExecuteStep

LEMMA LoadedRight ==
    ASSUME TurnsInv, NEW s \in Loaded
    PROVE  s \in Sessions /\ InputRight(s, confirmed)
BY LoadedTyped, EmptyRight DEF TurnsInv, Loaded

LEMMA BufferRight ==
    ASSUME TurnsInv, TypeOK', NEW p \in Workers,
           NEW pc \in {"note_save", "sync", "clean_save", "trace_save"},
           NEW b, InputRight(b, confirmed),
           turn' = [turn EXCEPT ![p] = [@ EXCEPT !.pc = pc, !.buf = b]],
           InputRight(session', confirmed), Kept
    PROVE  TurnsInv'
<1> DEFINE t == [turn[p] EXCEPT !.pc = pc, !.buf = b]
<1>1. TurnRight(turn[p], confirmed) /\ turn[p] \in Turns
  BY TurnFields DEF TurnsInv
<1>2. t.ctx = turn[p].ctx /\ t.buf = b /\ t.pc = pc
      /\ t.granted = turn[p].granted /\ t.conf = turn[p].conf
  BY <1>1 DEF Turns
<1>3. TurnRight(t, confirmed)
  BY <1>1, <1>2 DEF TurnRight, TurnAsks
<1> QED BY <1>3, TurnsStep DEF Kept, TurnsInv, WritesWerePending

LEMMA AfterNoteRight ==
    ASSUME TurnsInv, TypeOK', NEW p \in Workers, AfterNote(p),
           InputRight(session', confirmed), Kept
    PROVE  TurnsInv'
BY BufferRight, EmptyRight, AnswerRight DEF AfterNote

LEMMA FinishStepRight ==
    ASSUME TurnsInv, NEW p \in Workers, FinishStep(p)
    PROVE  TurnsInv'
<1>1. TypeOK'
  BY FinishStepTyped DEF TurnsInv
<1>2. /\ InputRight(session, confirmed) /\ InputRight(turn[p].buf, confirmed)
      /\ InputRight(turn[p].ctx, confirmed)
  BY DEF TurnsInv, TurnRight
<1>3. ASSUME NEW s \in Loaded
      PROVE  InputRight(s, confirmed) /\ InputRight(Cleaned(s), confirmed)
  BY LoadedRight DEF InputRight, Cleaned, Sessions
<1>4. session' \in Saved(turn[p].buf) => InputRight(session', confirmed)
  BY <1>2 DEF Saved
<1>5. Kept
  BY DEF FinishStep, Note, NoteSave, Sync, Clean, CleanSave, Trace, TraceSave, history, Kept
<1>6. CASE Note(p)
  BY <1>1, <1>2, <1>3, <1>5, <1>6, BufferRight, AfterNoteRight DEF Note
<1>7. CASE NoteSave(p)
  BY <1>1, <1>4, <1>5, <1>7, AfterNoteRight DEF NoteSave
<1>8. CASE Sync(p)
  BY <1>1, <1>2, <1>5, <1>8, SaveRight, AnswerRight DEF Sync
<1>9. CASE Clean(p)
  BY <1>1, <1>2, <1>3, <1>5, <1>9, BufferRight, AnswerRight DEF Clean
<1>10. CASE CleanSave(p)
  BY <1>1, <1>4, <1>5, <1>10, AnswerRight DEF CleanSave
<1>11. CASE Trace(p)
  BY <1>1, <1>2, <1>3, <1>5, <1>11, BufferRight DEF Trace
<1>12. CASE TraceSave(p)
  BY <1>1, <1>4, <1>5, <1>12, AnswerRight DEF TraceSave
<1> QED BY <1>6, <1>7, <1>8, <1>9, <1>10, <1>11, <1>12 DEF FinishStep

LEMMA StartRight ==
    ASSUME TurnsInv, TypeOK', NEW p \in Workers, NEW m, NEW chat, NEW bot, NEW c,
           Start(p, m, chat, bot, c), session' = session,
           confirmed \subseteq confirmed', submitted' = submitted,
           InputRight(c, confirmed'),
           RequestsAsk => chat \/ c.input.kind = "confirmed"
    PROVE  TurnsInv'
<1> DEFINE t == [Idle EXCEPT !.pc = "entry", !.msg = m, !.chat = chat, !.bot = bot, !.ctx = c]
<1>1. turn' = [turn EXCEPT ![p] = t]
  BY DEF Start
<1>2. t.ctx = c /\ t.buf = EmptySession /\ t.pc = "entry" /\ t.chat = chat /\ t.granted = FALSE
  BY DEF Idle
<1>3. TurnRight(t, confirmed')
  BY <1>2, EmptyRight DEF TurnRight, TurnAsks
<1>4. InputRight(session', confirmed') /\ (RequestsAsk => 0 \notin submitted')
  BY RightMonotone DEF TurnsInv, WritesWerePending
<1> QED BY <1>1, <1>3, <1>4, TurnsStep

LEMMA ArriveRight ==
    ASSUME TurnsInv, NEW p \in Workers, Arrive(p)
    PROVE  TurnsInv'
<1>1. TypeOK /\ TypeOK'
  BY ArriveTyped DEF TurnsInv
<1>2. CASE \E m \in Texts : ReceiveMessage(p, m)
  <2>1. PICK m \in Texts : ReceiveMessage(p, m)
    BY <1>2
  <2>2. PICK s \in Loaded : Start(p, m, TRUE, TRUE, s)
    BY <2>1 DEF ReceiveMessage
  <2>3. confirmed \subseteq confirmed' /\ session' = session /\ submitted' = submitted
    BY <2>1 DEF ReceiveMessage
  <2>4. InputRight(s, confirmed')
    BY <2>3, LoadedRight, RightMonotone
  <2> QED BY <1>1, <2>2, <2>3, <2>4, StartRight
<1>3. CASE \E m \in {"approve", "reject"}, r \in PortalRequests, id \in Ids :
              PortalAction(p, m, r, id)
  <2>1. PICK m \in {"approve", "reject"}, r \in PortalRequests, id \in Ids :
              PortalAction(p, m, r, id)
    BY <1>3
  <2> DEFINE i == [kind |-> IF r.confirm THEN "confirmed" ELSE "plain",
                   id |-> id, message |-> m, strategy |-> m]
             base == IF r.chat THEN Loaded ELSE {EmptySession}
  <2>2. /\ \E s \in base : Start(p, m, r.chat, FALSE, [s EXCEPT !.input = i])
        /\ confirmed \subseteq confirmed' /\ (r.confirm => id \in confirmed')
        /\ session' = session /\ submitted' = submitted
    BY <2>1 DEF PortalAction
  <2>3. PICK s \in base : Start(p, m, r.chat, FALSE, [s EXCEPT !.input = i])
    BY <2>2
  <2> DEFINE c == [s EXCEPT !.input = i]
  <2>4. s \in Sessions
    BY <1>1, LoadedTyped, ConstantsTyped
  <2>5. c.input = i
    BY <2>4 DEF Sessions
  <2>6. c.input.kind = (IF r.confirm THEN "confirmed" ELSE "plain") /\ c.input.id = id
    BY <2>5
  <2>7. InputRight(c, confirmed')
    BY <2>2, <2>6 DEF InputRight
  <2>8. RequestsAsk => r.chat \/ c.input.kind = "confirmed"
    BY <2>6 DEF RequestsAsk
  <2> QED BY <1>1, <2>2, <2>3, <2>7, <2>8, StartRight
<1>4. CASE PortalQuery(p)
  <2>1. /\ Start(p, "query", TRUE, FALSE, EmptySession)
        /\ session' = session /\ UNCHANGED <<confirmed, submitted>>
    BY <1>4 DEF PortalQuery, history
  <2>2. InputRight(EmptySession, confirmed')
    BY EmptyRight
  <2> QED BY <1>1, <2>1, <2>2, StartRight
<1> QED BY <1>2, <1>3, <1>4 DEF Arrive

LEMMA TurnStepRight ==
    ASSUME TurnsInv, NEW p \in Workers, TurnStep(p)
    PROVE  TurnsInv'
BY EnterStepRight, RouteStepRight, ExecuteStepRight, FinishStepRight DEF TurnStep

-----------------------------------------------------------------------------
(* The handlers *)

LEMMA CardConstantsTyped ==
    /\ NoClick \in Clicks /\ NoJob \in Jobs
    /\ ClickShape(NoClick) /\ \A C : ClickRight(NoClick, C) /\ InputRight(NoJob.buf, C)
<1>1. NoClick \in Clicks /\ NoJob \in Jobs
  BY ConstantsTyped DEF NoClick, Clicks, NoJob, Jobs, Outcomes
<1>2. \A x : Places(NoClick.todo, x) = {}
  BY DEF Places, NoClick
<1>3. ClickShape(NoClick)
  BY <1>2 DEF ClickShape, NoClick
<1>4. \A C : ClickRight(NoClick, C) /\ InputRight(NoJob.buf, C)
  BY EmptyRight DEF ClickRight, NoClick, NoJob, InputRight, NoInput
<1> QED BY <1>1, <1>3, <1>4

LEMMA ClickFields ==
    ASSUME CardInv, NEW k \in Clickers
    PROVE  /\ click[k] \in Clicks /\ click[k].todo \in Seq(Steps)
           /\ click[k].loaded \in BOOLEAN /\ click[k].buf \in Sessions
           /\ click[k].input \in Inputs /\ click[k].offer \in Payloads
           /\ click[k].command \in Commands \cup {"none"}
           /\ ClickShape(click[k]) /\ ClickRight(click[k], confirmed)
BY DEF CardInv, CardTypeOK, Clicks

\* Places of a program's tail are places of the program, and its head has been left.
LEMMA TailPlaces ==
    ASSUME NEW todo \in Seq(Steps), todo # <<>>
    PROVE  /\ Tail(todo) \in Seq(Steps) /\ Len(todo) \in Nat \ {0}
           /\ \A x : \A i \in Places(Tail(todo), x) : i + 1 \in Places(todo, x) /\ i \in Nat \ {0}
           /\ 1 \in Places(todo, Head(todo))
<1>1. /\ Tail(todo) \in Seq(Steps) /\ Len(Tail(todo)) = Len(todo) - 1
      /\ \A i \in 1..Len(Tail(todo)) : Tail(todo)[i] = todo[i + 1]
      /\ Len(todo) \in Nat \ {0} /\ Head(todo) = todo[1]
  BY HeadTailProperties, EmptySeq, LenProperties
<1>2. 1 \in Places(todo, Head(todo))
  BY <1>1 DEF Places
<1>3. ASSUME NEW x, NEW i \in Places(Tail(todo), x)
      PROVE  i + 1 \in Places(todo, x) /\ i \in Nat \ {0}
  BY <1>1, <1>3 DEF Places
<1> QED BY <1>1, <1>2, <1>3

LEMMA NextClick ==
    ASSUME NEW c \in Clicks, c.todo # <<>>, ClickShape(c), NEW C, ClickRight(c, C)
    PROVE  /\ Advanced(c) \in Clicks /\ ClickShape(Advanced(c)) /\ ClickRight(Advanced(c), C)
           /\ Places(Advanced(c).todo, "queue") # {} => Places(c.todo, "queue") # {}
           /\ Head(c.todo) = "queue" => Places(Advanced(c).todo, "queue") = {}
<1>1. CASE Len(c.todo) = 1
  <2>1. Advanced(c) = NoClick
    BY <1>1 DEF Advanced
  <2>2. Places(NoClick.todo, "queue") = {}
    BY DEF Places, NoClick
  <2> QED BY <2>1, <2>2, CardConstantsTyped
<1>2. CASE Len(c.todo) # 1
  <2> DEFINE d == [c EXCEPT !.todo = Tail(c.todo), !.loaded = FALSE, !.buf = EmptySession]
  <2>1. c.todo \in Seq(Steps)
    BY DEF Clicks
  <2>2. /\ d.todo = Tail(c.todo) /\ d.loaded = FALSE /\ d.buf = EmptySession
        /\ d.input = c.input /\ d.command = c.command /\ d.offer = c.offer
    BY DEF Clicks
  <2>3. d \in Clicks
    BY <2>1, TailPlaces, ConstantsTyped DEF Clicks
  <2>4. \A x : \A i \in Places(d.todo, x) : i + 1 \in Places(c.todo, x) /\ i \in Nat \ {0}
    BY <2>1, <2>2, TailPlaces
  <2>5. \A i, j \in Places(d.todo, "queue") : i = j
    <3>1. ASSUME NEW i \in Places(d.todo, "queue"), NEW j \in Places(d.todo, "queue")
          PROVE  i = j
      <4>1. i + 1 = j + 1
        BY <2>4 DEF ClickShape
      <4> QED BY <2>4, <4>1
    <3> QED BY <3>1
  <2>6. ClickShape(d)
    BY <2>2, <2>4, <2>5 DEF ClickShape
  <2>7. ClickRight(d, C)
    BY <2>2, EmptyRight DEF ClickRight, InputRight
  <2>8. Head(c.todo) = "queue" => Places(d.todo, "queue") = {}
    <3>1. SUFFICES ASSUME Head(c.todo) = "queue", NEW i \in Places(d.todo, "queue")
                   PROVE  FALSE
      OBVIOUS
    <3>2. 1 \in Places(c.todo, "queue") /\ i + 1 \in Places(c.todo, "queue") /\ i \in Nat \ {0}
      BY <2>1, <2>4, <3>1, TailPlaces
    <3>3. i + 1 = 1
      BY <3>2 DEF ClickShape
    <3> QED BY <3>2, <3>3
  <2>9. Advanced(c) = d
    BY <1>2 DEF Advanced
  <2> HIDE DEF d
  <2> QED BY <2>3, <2>4, <2>6, <2>7, <2>8, <2>9
<1> QED BY <1>1, <1>2

\* How many handlers have a command to queue, when one of them becomes d
LEMMA QueuingCounted ==
    ASSUME CardInv, NEW k \in Clickers, NEW d, click' = [click EXCEPT ![k] = d]
    PROVE  /\ IsFiniteSet(Queuing') /\ Cardinality(Queuing') \in Nat
           /\ Cardinality(Queuing) \in Nat
           /\ Cardinality(Queuing') <= Cardinality(Queuing) + 1
           /\ (Places(d.todo, "queue") # {} => k \in Queuing)
                => Cardinality(Queuing') <= Cardinality(Queuing)
           /\ Places(d.todo, "queue") = {} /\ k \in Queuing
                => Cardinality(Queuing') = Cardinality(Queuing) - 1
<1>1. IsFiniteSet(Queuing) /\ Cardinality(Queuing) \in Nat
  BY FS_CardinalityType DEF CardInv, QueueIsCounted
<1>2. \A j \in Clickers : click'[j] = IF j = k THEN d ELSE click[j]
  BY DEF CardInv, CardTypeOK
<1>3. CASE Places(d.todo, "queue") = {}
  <2>1. Queuing' = Queuing \ {k}
    BY <1>2, <1>3 DEF Queuing
  <2>2. /\ IsFiniteSet(Queuing \ {k})
        /\ Cardinality(Queuing \ {k}) = IF k \in Queuing THEN Cardinality(Queuing) - 1
                                                         ELSE Cardinality(Queuing)
    BY <1>1, FS_RemoveElement
  <2>3. Cardinality(Queuing \ {k}) \in Nat
    BY <2>2, FS_CardinalityType
  <2> QED BY <1>1, <2>1, <2>2, <2>3
<1>4. CASE Places(d.todo, "queue") # {}
  <2>1. Queuing' = Queuing \cup {k}
    BY <1>2, <1>4 DEF Queuing
  <2>2. /\ IsFiniteSet(Queuing \cup {k})
        /\ Cardinality(Queuing \cup {k}) = IF k \in Queuing THEN Cardinality(Queuing)
                                                            ELSE Cardinality(Queuing) + 1
    BY <1>1, FS_AddElement
  <2> QED BY <1>1, <1>4, <2>1, <2>2
<1> QED BY <1>3, <1>4

\* A step of one handler that leaves the tasks at work alone
LEMMA HandlerStep ==
    ASSUME CardInv, TurnsInv', NEW k \in Clickers, NEW d \in Clicks,
           click' = [click EXCEPT ![k] = d], ClickShape(d), ClickRight(d, confirmed'),
           confirmed \subseteq confirmed',
           tasks' \in [Commands -> 0..MaxClicks], clicks' \in 0..MaxClicks,
           offered' \subseteq Ids, UNCHANGED <<job, asks, cards>>,
           \A m \in Commands : tasks'[m] + Cardinality(Queuing') <= clicks'
    PROVE  CardInv'
<1>1. click' \in [Clickers -> Clicks]
  BY DEF CardInv, CardTypeOK
<1>2. CardTypeOK'
  BY <1>1 DEF CardInv, CardTypeOK, TurnsInv
<1>3. ASSUME NEW j \in Clickers
      PROVE  ClickShape(click'[j]) /\ ClickRight(click'[j], confirmed')
  <2>1. click'[j] = IF j = k THEN d ELSE click[j]
    BY DEF CardInv, CardTypeOK
  <2>2. ClickShape(click[j]) /\ ClickRight(click[j], confirmed')
    BY ClickFields, RightMonotone DEF ClickRight, InputRight
  <2> QED BY <2>1, <2>2
<1>4. \A p \in Workers : InputRight(job'[p].buf, confirmed')
  BY RightMonotone DEF CardInv
<1>5. QueueIsCounted'
  BY QueuingCounted DEF QueueIsCounted
<1> QED BY <1>2, <1>3, <1>4, <1>5 DEF CardInv

\* A step that leaves handlers and tasks alone
LEMMA CardKept ==
    ASSUME CardInv, TurnsInv', confirmed \subseteq confirmed', UNCHANGED cardVars
    PROVE  CardInv'
<1>1. CardTypeOK'
  BY DEF CardInv, CardTypeOK, TurnsInv, cardVars
<1>2. \A k \in Clickers : ClickShape(click'[k]) /\ ClickRight(click'[k], confirmed')
  BY ClickFields, RightMonotone DEF ClickRight, InputRight, cardVars
<1>3. \A p \in Workers : InputRight(job'[p].buf, confirmed')
  BY RightMonotone DEF CardInv, cardVars
<1>4. QueueIsCounted'
  BY DEF CardInv, QueueIsCounted, Queuing, cardVars
<1> QED BY <1>1, <1>2, <1>3, <1>4 DEF CardInv

\* A click begins: its program queues at most one command, of its own.
LEMMA ClickBegins ==
    ASSUME CardInv, NEW k \in Clickers, NEW todo \in Seq(Steps), NEW c \in Clicks,
           NewClick(k, todo, c), c.loaded = FALSE, c.buf = EmptySession,
           \A i, j \in Places(todo, "queue") : i = j,
           Places(todo, "queue") # {} => c.command \in Commands,
           Places(todo, "send") # {} => c.offer.id \in Ids,
           nextId' \in 1..(MaxId + 1), confirmed \subseteq confirmed', confirmed' \subseteq Ids,
           InputRight(c, confirmed')
    PROVE  CardInv'
<1> DEFINE d == [c EXCEPT !.todo = todo]
<1>1. /\ d \in Clicks /\ d.todo = todo /\ d.loaded = FALSE /\ d.buf = EmptySession
      /\ d.input = c.input /\ d.command = c.command /\ d.offer = c.offer
  BY DEF Clicks
<1>2. ClickShape(d) /\ ClickRight(d, confirmed')
  BY <1>1, EmptyRight DEF ClickShape, ClickRight, InputRight
<1>3. /\ click' = [click EXCEPT ![k] = d] /\ clicks < MaxClicks /\ clicks' = clicks + 1
      /\ UNCHANGED <<session, turn, lapsed, crashes, submitted, tasks, job, asks, cards, offered>>
  BY DEF NewClick
<1>4. TypeOK' /\ TurnsInv /\ CardTypeOK
  BY <1>3 DEF CardInv, CardTypeOK, TypeOK
<1>5. TurnsInv'
  <2>1. InputRight(session', confirmed')
    BY <1>3, <1>4, RightMonotone DEF TurnsInv
  <2> QED BY <1>3, <1>4, <2>1, OutsideStep
<1>6. tasks' \in [Commands -> 0..MaxClicks] /\ clicks \in Nat /\ clicks' \in 0..MaxClicks
      /\ offered' \subseteq Ids
  BY <1>3, <1>4, CardAssumption DEF CardTypeOK
<1>7. ASSUME NEW m \in Commands
      PROVE  tasks'[m] + Cardinality(Queuing') <= clicks'
  <2>1. tasks[m] \in Nat /\ tasks[m] + Cardinality(Queuing) <= clicks
    BY <1>4, CardAssumption DEF CardInv, CardTypeOK, QueueIsCounted
  <2>2. /\ Cardinality(Queuing') <= Cardinality(Queuing) + 1
        /\ Cardinality(Queuing') \in Nat /\ Cardinality(Queuing) \in Nat
    BY <1>3, QueuingCounted
  <2> QED BY <1>3, <1>6, <2>1, <2>2
<1> HIDE DEF d
<1> QED BY <1>1, <1>2, <1>3, <1>5, <1>6, <1>7, HandlerStep

\* A program that queues a command at the places Q and sends a card at those of S
Program(todo, Q, S) ==
    todo \in Seq(Steps) /\ Places(todo, "queue") = Q /\ Places(todo, "send") = S

LEMMA ProgramsTyped ==
    /\ Program(<<"touch">>, {}, {})
    /\ Program(<<"touch", "drop">>, {}, {})
    /\ Program(<<"clear", "touch">>, {}, {})
    /\ Program(<<"touch", "put", "queue">>, {3}, {})
    /\ Program(<<"touch", "put", "touch", "queue">>, {4}, {})
    /\ Program(<<"touch", "keep", "touch", "send", "touch">>, {}, {4})
    /\ Program(<<"put", "touch", "queue", "clear">>, {3}, {})
    /\ Program(<<"put", "clear", "touch", "queue">>, {4}, {})
<1>1. Program(<<"touch">>, {}, {})
  <2>1. <<"touch">> \in Seq(Steps)
    BY DEF Steps
  <2>2. Places(<<"touch">>, "queue") = {}
    BY DEF Places
  <2>3. Places(<<"touch">>, "send") = {}
    BY DEF Places
  <2> QED BY <2>1, <2>2, <2>3 DEF Program
<1>2. Program(<<"touch", "drop">>, {}, {})
  <2>1. <<"touch", "drop">> \in Seq(Steps)
    BY DEF Steps
  <2>2. Places(<<"touch", "drop">>, "queue") = {}
    BY DEF Places
  <2>3. Places(<<"touch", "drop">>, "send") = {}
    BY DEF Places
  <2> QED BY <2>1, <2>2, <2>3 DEF Program
<1>3. Program(<<"clear", "touch">>, {}, {})
  <2>1. <<"clear", "touch">> \in Seq(Steps)
    BY DEF Steps
  <2>2. Places(<<"clear", "touch">>, "queue") = {}
    BY DEF Places
  <2>3. Places(<<"clear", "touch">>, "send") = {}
    BY DEF Places
  <2> QED BY <2>1, <2>2, <2>3 DEF Program
<1>4. Program(<<"touch", "put", "queue">>, {3}, {})
  <2>1. <<"touch", "put", "queue">> \in Seq(Steps)
    BY DEF Steps
  <2>2. Places(<<"touch", "put", "queue">>, "queue") = {3}
    BY DEF Places
  <2>3. Places(<<"touch", "put", "queue">>, "send") = {}
    BY DEF Places
  <2> QED BY <2>1, <2>2, <2>3 DEF Program
<1>5. Program(<<"touch", "put", "touch", "queue">>, {4}, {})
  <2>1. <<"touch", "put", "touch", "queue">> \in Seq(Steps)
    BY DEF Steps
  <2>2. Places(<<"touch", "put", "touch", "queue">>, "queue") = {4}
    BY DEF Places
  <2>3. Places(<<"touch", "put", "touch", "queue">>, "send") = {}
    BY DEF Places
  <2> QED BY <2>1, <2>2, <2>3 DEF Program
<1>6. Program(<<"touch", "keep", "touch", "send", "touch">>, {}, {4})
  <2>1. <<"touch", "keep", "touch", "send", "touch">> \in Seq(Steps)
    BY DEF Steps
  <2>2. Places(<<"touch", "keep", "touch", "send", "touch">>, "queue") = {}
    BY DEF Places
  <2>3. Places(<<"touch", "keep", "touch", "send", "touch">>, "send") = {4}
    BY DEF Places
  <2> QED BY <2>1, <2>2, <2>3 DEF Program
<1>7. Program(<<"put", "touch", "queue", "clear">>, {3}, {})
  <2>1. <<"put", "touch", "queue", "clear">> \in Seq(Steps)
    BY DEF Steps
  <2>2. Places(<<"put", "touch", "queue", "clear">>, "queue") = {3}
    BY DEF Places
  <2>3. Places(<<"put", "touch", "queue", "clear">>, "send") = {}
    BY DEF Places
  <2> QED BY <2>1, <2>2, <2>3 DEF Program
<1>8. Program(<<"put", "clear", "touch", "queue">>, {4}, {})
  <2>1. <<"put", "clear", "touch", "queue">> \in Seq(Steps)
    BY DEF Steps
  <2>2. Places(<<"put", "clear", "touch", "queue">>, "queue") = {4}
    BY DEF Places
  <2>3. Places(<<"put", "clear", "touch", "queue">>, "send") = {}
    BY DEF Places
  <2> QED BY <2>1, <2>2, <2>3 DEF Program
<1> QED BY <1>1, <1>2, <1>3, <1>4, <1>5, <1>6, <1>7, <1>8

LEMMA ActionInputRight ==
    ASSUME NEW a \in Payloads, NEW id \in Ids, NEW action \in {"confirm", "cancel"},
           a.id = id, Decided(id, action)
    PROVE  /\ ActionInput(a, action) \in Inputs
           /\ ActionInput(a, action).kind = "confirmed" => ActionInput(a, action).id \in confirmed'
BY DEF ActionInput, Inputs, InputKinds, Payloads, Messages, Decided

\* A handler begins with an input and a command, or with an action to offer.
Leaving(i, m) == [NoClick EXCEPT !.input = i, !.command = m]
Offering(a) == [NoClick EXCEPT !.offer = a]

LEMMA LeavingTyped ==
    ASSUME NEW i \in Inputs, NEW m \in Commands
    PROVE  /\ Leaving(i, m) \in Clicks
           /\ Leaving(i, m).loaded = FALSE /\ Leaving(i, m).buf = EmptySession
           /\ Leaving(i, m).input = i /\ Leaving(i, m).command = m
BY CardConstantsTyped DEF NoClick, Clicks, Leaving

LEMMA OfferingTyped ==
    ASSUME NEW a \in Payloads
    PROVE  /\ Offering(a) \in Clicks
           /\ Offering(a).loaded = FALSE /\ Offering(a).buf = EmptySession
           /\ Offering(a).input = NoInput /\ Offering(a).offer = a
BY CardConstantsTyped DEF NoClick, Clicks, Offering

\* Clicks with an action: the confirmation card and the single-approval card
LEMMA ClickActs ==
    ASSUME CardInv, NEW k \in Clickers, NEW id \in Ids, NEW action \in {"confirm", "cancel"},
           ClickLive(k, id, action) \/ ClickSingle(k, id, action)
    PROVE  CardInv'
<1>0. PICK s \in Loaded :
        \E a \in {s.pending, s.single} : \E todo, n :
          /\ Program(todo, {n}, {}) /\ Live(a, id)
          /\ NewClick(k, todo, Leaving(ActionInput(a, action), action))
  <2>1. CASE ClickLive(k, id, action)
    <3>1. PICK s \in Loaded :
            /\ Live(s.pending, id)
            /\ NewClick(k, <<"touch", "put", "queue">>,
                        Leaving(ActionInput(s.pending, action), action))
      BY <2>1 DEF ClickLive, Leaving
    <3> QED BY <3>1, ProgramsTyped
  <2>2. CASE ClickSingle(k, id, action)
    <3>1. PICK s \in Loaded :
            /\ Live(s.single, id)
            /\ NewClick(k, IF action = "confirm" THEN <<"put", "touch", "queue", "clear">>
                           ELSE <<"put", "clear", "touch", "queue">>,
                        Leaving(ActionInput(s.single, action), action))
      BY <2>2 DEF ClickSingle, Leaving
    <3>2. CASE action = "confirm"
      <4>1. NewClick(k, <<"put", "touch", "queue", "clear">>,
                     Leaving(ActionInput(s.single, action), action))
        BY <3>1, <3>2
      <4> QED BY <3>1, <4>1, ProgramsTyped
    <3>3. CASE action # "confirm"
      <4>1. NewClick(k, <<"put", "clear", "touch", "queue">>,
                     Leaving(ActionInput(s.single, action), action))
        BY <3>1, <3>3
      <4> QED BY <3>1, <4>1, ProgramsTyped
    <3> QED BY <3>2, <3>3
  <2> QED BY <2>1, <2>2
<1>a. PICK a \in {s.pending, s.single} : \E todo, n :
        /\ Program(todo, {n}, {}) /\ Live(a, id)
        /\ NewClick(k, todo, Leaving(ActionInput(a, action), action))
  BY <1>0
<1>1. PICK todo, n :
        /\ Program(todo, {n}, {}) /\ Live(a, id)
        /\ NewClick(k, todo, Leaving(ActionInput(a, action), action))
  BY <1>a
<1>2. Decided(id, action) /\ nextId' = nextId
  BY DEF ClickLive, ClickSingle
<1>3. a \in Payloads /\ a.id = id
  BY <1>1, LoadedTyped DEF CardInv, TurnsInv, Live, Sessions
<1>4. action \in Commands
  BY DEF Commands
<1>5. /\ todo \in Seq(Steps) /\ Places(todo, "send") = {}
      /\ \A i, j \in Places(todo, "queue") : i = j
  BY <1>1 DEF Program
<1>6. confirmed \subseteq confirmed' /\ confirmed' \subseteq Ids /\ nextId' \in 1..(MaxId + 1)
  BY <1>2 DEF Decided, CardInv, TurnsInv, TypeOK
<1> DEFINE i == ActionInput(a, action)
           c == Leaving(i, action)
<1>7. i \in Inputs /\ (i.kind = "confirmed" => i.id \in confirmed')
  BY <1>2, <1>3, ActionInputRight
<1>8. c \in Clicks /\ c.loaded = FALSE /\ c.buf = EmptySession /\ c.input = i /\ c.command = action
  BY <1>4, <1>7, LeavingTyped
<1>9. InputRight(c, confirmed') /\ NewClick(k, todo, c)
  BY <1>1, <1>7, <1>8 DEF InputRight
<1> HIDE DEF c, i
<1> QED BY <1>4, <1>5, <1>6, <1>8, <1>9, ClickBegins

\* Clicks on a card of another action, or of an expired one
LEMMA ClickStops ==
    ASSUME CardInv, NEW k \in Clickers, NEW id \in Ids,
           ClickStale(k, id) \/ ClickSingleStale(k, id)
    PROVE  CardInv'
<1>1. PICK todo \in {<<"touch">>, <<"touch", "drop">>, <<"clear", "touch">>} :
        NewClick(k, todo, NoClick)
  BY DEF ClickStale, ClickSingleStale
<1>2. confirmed' = confirmed /\ nextId' = nextId
  BY DEF ClickStale, ClickSingleStale
<1>3. todo \in Seq(Steps) /\ Places(todo, "queue") = {} /\ Places(todo, "send") = {}
  BY <1>1, ProgramsTyped DEF Program
<1>4. NoClick \in Clicks /\ NoClick.loaded = FALSE /\ NoClick.buf = EmptySession
      /\ InputRight(NoClick, confirmed')
  BY CardConstantsTyped DEF NoClick, InputRight, NoInput
<1>5. confirmed' \subseteq Ids /\ nextId' \in 1..(MaxId + 1)
  BY <1>2 DEF CardInv, TurnsInv, TypeOK
<1> QED BY <1>1, <1>2, <1>3, <1>4, <1>5, ClickBegins

LEMMA DetailBegins ==
    ASSUME CardInv, NEW k \in Clickers, NEW a \in DetailActions, ClickDetail(k, a)
    PROVE  CardInv'
<1> DEFINE i == [kind |-> IF a = "approve" THEN "confirmed" ELSE "missing",
                 id |-> nextId, message |-> a, strategy |-> a]
           m == IF a = "approve" THEN "confirm" ELSE a
           c == Leaving(i, m)
           todo == <<"touch", "put", "touch", "queue">>
<1>1. /\ NewClick(k, todo, c) /\ nextId <= MaxId /\ nextId' = nextId + 1
      /\ Decided(nextId, m)
  BY DEF ClickDetail, Leaving
<1>2. a \in Strategies /\ nextId \in Ids /\ nextId' \in 1..(MaxId + 1) /\ confirmed \subseteq Ids
  BY <1>1, CardAssumption, MaxIdAssumption DEF CardInv, TurnsInv, TypeOK, Ids
<1>3. i \in Inputs /\ m \in Commands
  BY <1>2 DEF Inputs, InputKinds, Messages, Commands, Strategies
<1>4. confirmed \subseteq confirmed' /\ confirmed' \subseteq Ids
      /\ (i.kind = "confirmed" => i.id \in confirmed')
  BY <1>1, <1>2 DEF Decided
<1>5. c \in Clicks /\ c.loaded = FALSE /\ c.buf = EmptySession /\ c.input = i /\ c.command = m
  BY <1>3, LeavingTyped
<1>6. InputRight(c, confirmed')
  BY <1>4, <1>5 DEF InputRight
<1>7. todo \in Seq(Steps) /\ Places(todo, "queue") = {4} /\ Places(todo, "send") = {}
  BY ProgramsTyped DEF Program
<1> HIDE DEF c, i, m, todo
<1> QED BY <1>1, <1>2, <1>3, <1>4, <1>5, <1>6, <1>7, ClickBegins

LEMMA OfferBegins ==
    ASSUME CardInv, NEW k \in Clickers, NEW a \in SingleActions, OfferSingle(k, a)
    PROVE  CardInv'
<1> DEFINE o == [id |-> nextId, message |-> a, strategy |-> a, ttl |-> TRUE, missing |-> FALSE]
           c == Offering(o)
           todo == <<"touch", "keep", "touch", "send", "touch">>
<1>1. /\ NewClick(k, todo, c) /\ nextId <= MaxId /\ nextId' = nextId + 1
      /\ confirmed' = confirmed
  BY DEF OfferSingle, Offering
<1>2. a \in Strategies /\ nextId \in Ids /\ nextId' \in 1..(MaxId + 1) /\ confirmed \subseteq Ids
  BY <1>1, CardAssumption, MaxIdAssumption DEF CardInv, TurnsInv, TypeOK, Ids, Strategies
<1>3. o \in Payloads /\ o.id \in Ids
  BY <1>2 DEF Payloads, Messages
<1>4. /\ c \in Clicks /\ c.loaded = FALSE /\ c.buf = EmptySession
      /\ c.input = NoInput /\ c.offer = o
  BY <1>3, OfferingTyped
<1>5. InputRight(c, confirmed')
  BY <1>4, EmptyRight
<1>6. todo \in Seq(Steps) /\ Places(todo, "queue") = {} /\ Places(todo, "send") = {4}
  BY ProgramsTyped DEF Program
<1> HIDE DEF c, o, todo
<1> QED BY <1>1, <1>2, <1>3, <1>4, <1>5, <1>6, ClickBegins

LEMMA ClickKeeps ==
    ASSUME CardInv, NEW k \in Clickers, Click(k)
    PROVE  CardInv'
BY ClickActs, ClickStops, DetailBegins, OfferBegins DEF Click

\* What a step of a handler stores is a session whose input is right.
LEMMA StoredRight ==
    ASSUME NEW c \in Clicks, ClickShape(c), c.loaded, NEW C, ClickRight(c, C)
    PROVE  Stored(c) \in Sessions /\ InputRight(Stored(c), C)
<1>1. /\ c.buf \in Sessions /\ c.input \in Inputs /\ c.offer \in Payloads
      /\ c.todo \in Seq(Steps) /\ c.todo # <<>> /\ Head(c.todo) \notin {"queue", "send"}
  BY DEF Clicks, ClickShape
<1>2. Head(c.todo) \in {"touch", "drop", "put", "keep", "clear"}
  BY <1>1, HeadTailProperties DEF Steps
<1>3. InputRight(c.buf, C) /\ InputRight(c, C)
  BY DEF ClickRight
<1>4. CASE Head(c.todo) = "touch"
  BY <1>1, <1>3, <1>4 DEF Stored, Touched
<1>5. CASE Head(c.todo) = "drop"
  <2>1. Stored(c) = WithoutPending(c.buf)
    BY <1>5 DEF Stored
  <2> QED BY <1>1, <1>3, <2>1, WithoutPendingTyped DEF InputRight, WithoutPending, Sessions
<1>6. CASE Head(c.todo) = "put"
  <2>1. Stored(c) = WithInput(c.buf, c.input)
    BY <1>6 DEF Stored
  <2> QED BY <1>1, <1>3, <2>1 DEF InputRight, WithInput, Sessions
<1>7. CASE Head(c.todo) = "keep"
  <2>1. Stored(c) = WithSingle(c.buf, c.offer)
    BY <1>7 DEF Stored
  <2> QED BY <1>1, <1>3, <2>1 DEF InputRight, WithSingle, Sessions
<1>8. CASE Head(c.todo) = "clear"
  <2>1. Stored(c) = WithSingle(c.buf, NoPayload)
    BY <1>8 DEF Stored
  <2> QED BY <1>1, <1>3, <2>1, ConstantsTyped DEF InputRight, WithSingle, Sessions
<1> QED BY <1>2, <1>4, <1>5, <1>6, <1>7, <1>8

LEMMA ClickStepKept ==
    ASSUME CardInv, NEW k \in Clickers, ClickStep(k)
    PROVE  CardInv'
<1> DEFINE c == click[k]
<1>1. /\ c \in Clicks /\ c.todo \in Seq(Steps) /\ ClickShape(c) /\ ClickRight(c, confirmed)
      /\ c.loaded \in BOOLEAN /\ c.buf \in Sessions /\ c.offer \in Payloads
      /\ TypeOK /\ TurnsInv /\ CardTypeOK
  BY ClickFields DEF CardInv, CardTypeOK
<1>2. MaxClicks \in Nat /\ clicks \in 0..MaxClicks /\ tasks \in [Commands -> 0..MaxClicks]
      /\ offered \subseteq Ids
  BY <1>1, CardAssumption DEF CardTypeOK
<1>3. \A m \in Commands : tasks[m] + Cardinality(Queuing) <= clicks
  BY DEF CardInv, QueueIsCounted
\* A step after which the handler is d, and no more commands are queued or to be
<1>4. ASSUME TurnsInv', NEW d \in Clicks, click' = [click EXCEPT ![k] = d],
             ClickShape(d), ClickRight(d, confirmed'),
             Places(d.todo, "queue") # {} => Places(c.todo, "queue") # {},
             confirmed' = confirmed, offered' \subseteq Ids,
             UNCHANGED <<tasks, job, asks, cards, clicks>>
      PROVE  CardInv'
  <2>1. Places(d.todo, "queue") # {} => k \in Queuing
    BY <1>4 DEF Queuing
  <2>2. /\ Cardinality(Queuing') \in Nat /\ Cardinality(Queuing) \in Nat
        /\ Cardinality(Queuing') <= Cardinality(Queuing)
    BY <1>4, <2>1, QueuingCounted
  <2>3. \A m \in Commands : tasks'[m] + Cardinality(Queuing') <= clicks'
    BY <1>2, <1>3, <1>4, <2>2
  <2> QED BY <1>2, <1>4, <2>3, HandlerStep
<1>5. CASE LoadSession(k)
  <2>1. PICK s \in Loaded : click' = [click EXCEPT ![k] = [@ EXCEPT !.loaded = TRUE, !.buf = s]]
    BY <1>5 DEF LoadSession
  <2> DEFINE d == [c EXCEPT !.loaded = TRUE, !.buf = s]
  <2>2. s \in Sessions /\ InputRight(s, confirmed)
    BY <1>1, LoadedRight
  <2>3. /\ d \in Clicks /\ d.todo = c.todo /\ d.loaded = TRUE /\ d.buf = s /\ d.input = c.input
        /\ d.command = c.command /\ d.offer = c.offer
    BY <1>1, <2>2 DEF Clicks
  <2>4. c.todo # <<>> /\ Head(c.todo) \notin {"queue", "send"}
    BY <1>5 DEF LoadSession, ClickAt
  <2>5. ClickShape(d) /\ ClickRight(d, confirmed)
    BY <1>1, <2>2, <2>3, <2>4 DEF ClickShape, ClickRight, InputRight
  <2>6. UNCHANGED vars /\ UNCHANGED <<tasks, job, asks, cards, offered, clicks>>
    BY <1>5 DEF LoadSession
  <2>7. TurnsInv' /\ confirmed' = confirmed
    BY <1>1, <2>6 DEF vars, history, TurnsInv, TypeOK, WritesWerePending
  <2>8. click' = [click EXCEPT ![k] = d]
    BY <2>1
  <2> HIDE DEF d
  <2> QED BY <1>2, <1>4, <2>3, <2>5, <2>6, <2>7, <2>8
<1>6. Done(k) => click' = [click EXCEPT ![k] = Advanced(c)]
  BY DEF Done
<1>7. c.todo # <<>> =>
        /\ Advanced(c) \in Clicks /\ ClickShape(Advanced(c)) /\ ClickRight(Advanced(c), confirmed)
        /\ Places(Advanced(c).todo, "queue") # {} => Places(c.todo, "queue") # {}
        /\ Head(c.todo) = "queue" => Places(Advanced(c).todo, "queue") = {}
  BY <1>1, NextClick
<1>8. CASE StoreSession(k)
  <2>1. /\ c.loaded /\ session' \in Saved(Stored(c)) /\ Done(k)
        /\ UNCHANGED <<turn, nextId, lapsed, crashes, confirmed, submitted>>
        /\ UNCHANGED <<tasks, job, asks, cards, offered, clicks>>
    BY <1>8 DEF StoreSession, history
  <2>2. c.todo # <<>>
    BY <1>1, <2>1 DEF ClickShape
  <2>3. Stored(c) \in Sessions /\ InputRight(Stored(c), confirmed)
    BY <1>1, <2>1, StoredRight
  <2>4. session' \in Sessions /\ InputRight(session', confirmed)
    BY <1>1, <2>1, <2>3 DEF Saved, TurnsInv, TypeOK
  <2>5. TypeOK'
    BY <1>1, <2>1, <2>4 DEF TypeOK
  <2>6. TurnsInv'
    BY <1>1, <2>1, <2>4, <2>5, OutsideStep
  <2> QED BY <1>2, <1>4, <1>6, <1>7, <2>1, <2>2, <2>6
<1>9. CASE Queue(k)
  <2>1. /\ c.todo # <<>> /\ Head(c.todo) = "queue" /\ Done(k)
        /\ tasks' = [tasks EXCEPT ![c.command] = @ + 1]
        /\ UNCHANGED vars /\ UNCHANGED <<job, asks, cards, offered, clicks>>
    BY <1>9 DEF Queue, ClickAt
  <2>2. TurnsInv' /\ confirmed' = confirmed
    BY <1>1, <2>1 DEF vars, history, TurnsInv, TypeOK, WritesWerePending
  <2>3. Places(c.todo, "queue") # {} /\ k \in Queuing
    BY <1>1, <2>1, TailPlaces DEF Queuing
  <2>4. c.command \in Commands
    BY <1>1, <2>3 DEF ClickShape
  <2>5. /\ Cardinality(Queuing') = Cardinality(Queuing) - 1
        /\ Cardinality(Queuing') \in Nat /\ Cardinality(Queuing) \in Nat
    BY <1>6, <1>7, <2>1, <2>3, QueuingCounted
  <2>6. ASSUME NEW m \in Commands
        PROVE  tasks'[m] \in Nat /\ tasks'[m] + Cardinality(Queuing') <= clicks'
    <3>1. tasks'[m] = IF m = c.command THEN tasks[m] + 1 ELSE tasks[m]
      BY <1>2, <2>1
    <3>2. tasks[m] \in Nat /\ tasks[m] + Cardinality(Queuing) <= clicks /\ clicks' = clicks
      BY <1>2, <1>3, <2>1
    <3> QED BY <1>2, <2>5, <3>1, <3>2
  <2>7. tasks' \in [Commands -> 0..MaxClicks]
    <3>1. \A m \in Commands : tasks'[m] \in 0..MaxClicks
      BY <1>2, <2>1, <2>5, <2>6
    <3> QED BY <1>2, <2>1, <3>1
  <2> QED BY <1>2, <1>6, <1>7, <2>1, <2>2, <2>6, <2>7, HandlerStep
<1>10. CASE SendSingle(k)
  <2>1. /\ c.todo # <<>> /\ Head(c.todo) = "send" /\ Done(k)
        /\ offered' \in {offered, offered \cup {c.offer.id}}
        /\ UNCHANGED vars /\ UNCHANGED <<tasks, job, asks, cards, clicks>>
    BY <1>10 DEF SendSingle, ClickAt
  <2>2. TurnsInv' /\ confirmed' = confirmed
    BY <1>1, <2>1 DEF vars, history, TurnsInv, TypeOK, WritesWerePending
  <2>3. Places(c.todo, "send") # {}
    BY <1>1, <2>1, TailPlaces
  <2>4. offered' \subseteq Ids
    BY <1>1, <1>2, <2>1, <2>3 DEF ClickShape
  <2> QED BY <1>4, <1>6, <1>7, <2>1, <2>2, <2>4
<1> QED BY <1>5, <1>8, <1>9, <1>10 DEF ClickStep

-----------------------------------------------------------------------------
(* The tasks *)

\* A step of one worker that leaves the handlers alone and queues nothing
LEMMA TaskStep ==
    ASSUME CardInv, TurnsInv', NEW p \in Workers, NEW j \in Jobs,
           job' = [job EXCEPT ![p] = j], InputRight(j.buf, confirmed'),
           confirmed \subseteq confirmed',
           asks' \in [Workers -> Ids \cup {0}], cards' \subseteq Ids,
           tasks' \in [Commands -> 0..MaxClicks],
           \A m \in Commands : tasks'[m] <= tasks[m],
           UNCHANGED <<click, offered, clicks>>
    PROVE  CardInv'
<1>1. job' \in [Workers -> Jobs]
  BY DEF CardInv, CardTypeOK
<1>2. CardTypeOK'
  BY <1>1 DEF CardInv, CardTypeOK, TurnsInv
<1>3. \A k \in Clickers : ClickShape(click'[k]) /\ ClickRight(click'[k], confirmed')
  BY ClickFields, RightMonotone DEF ClickRight, InputRight
<1>4. ASSUME NEW q \in Workers
      PROVE  InputRight(job'[q].buf, confirmed')
  <2>1. job'[q] = IF q = p THEN j ELSE job[q]
    BY DEF CardInv, CardTypeOK
  <2>2. InputRight(job[q].buf, confirmed')
    BY RightMonotone DEF CardInv
  <2> QED BY <2>1, <2>2
<1>5. QueueIsCounted'
  <2>1. Queuing' = Queuing /\ IsFiniteSet(Queuing) /\ Cardinality(Queuing) \in Nat
    BY FS_CardinalityType DEF Queuing, CardInv, QueueIsCounted
  <2>2. ASSUME NEW m \in Commands
        PROVE  tasks'[m] + Cardinality(Queuing) <= clicks'
    <3>1. /\ tasks[m] \in Nat /\ tasks'[m] \in Nat /\ tasks'[m] <= tasks[m]
          /\ tasks[m] + Cardinality(Queuing) <= clicks
      BY CardAssumption DEF CardInv, CardTypeOK, QueueIsCounted
    <3>2. clicks \in Nat /\ clicks' = clicks
      BY CardAssumption DEF CardInv, CardTypeOK
    <3> QED BY <2>1, <3>1, <3>2
  <2> QED BY <2>1, <2>2 DEF QueueIsCounted
<1> QED BY <1>2, <1>3, <1>4, <1>5 DEF CardInv

LEMMA JobFields ==
    ASSUME CardInv, NEW p \in Workers
    PROVE  /\ job[p] \in Jobs /\ InputRight(job[p].buf, confirmed) /\ job[p].buf \in Sessions
           /\ asks \in [Workers -> Ids \cup {0}] /\ cards \subseteq Ids
           /\ tasks \in [Commands -> 0..MaxClicks]
           /\ \A m \in Commands : tasks[m] \in Nat
           /\ TurnsInv /\ TypeOK
BY CardAssumption DEF CardInv, CardTypeOK, Jobs

\* Nothing that a turn does confirms an action.
LEMMA TurnConfirmsNothing ==
    ASSUME NEW p \in Workers, TurnStep(p)
    PROVE  confirmed' = confirmed
<1>1. CASE EnterStep(p) \/ RouteStep(p) \/ FinishStep(p)
  BY <1>1, EnterAndRouteKeepHistory
<1>2. CASE ExecuteStep(p)
  BY <1>2 DEF ExecuteStep, AnswerFollowup, AnswerWithoutExecution, RequestConfirmation,
     BeginExecution, Execute, SettleAction, SettleTask, history
<1> QED BY <1>1, <1>2 DEF TurnStep

LEMMA TurnOfTaskKept ==
    ASSUME CardInv, NEW p \in Workers, TurnStepOf(p)
    PROVE  CardInv'
<1> DEFINE over == turn'[p].pc = "idle"
           id == IF over THEN 0
                 ELSE IF turn[p].bot /\ RequestConfirmation(p) THEN nextId
                 ELSE IF turn[p].bot /\ FillInput(p)
                 THEN waiting_input_action(turn[p].ctx).id ELSE asks[p]
           ran == IF turn'[p].ok THEN "success" ELSE "error"
           j == IF job[p].phase = "turn" /\ Submits(p) THEN [job[p] EXCEPT !.ran = ran] ELSE job[p]
<1>1. /\ TurnStep(p) /\ UNCHANGED <<click, tasks, offered, clicks>>
      /\ asks' = [asks EXCEPT ![p] = id]
      /\ cards' = IF over /\ job[p].phase = "none" /\ asks[p] # 0
                  THEN cards \cup {asks[p]} ELSE cards
      /\ job' = IF job[p].phase = "turn" /\ Submits(p)
                THEN [job EXCEPT ![p].ran = ran] ELSE job
  BY DEF TurnStepOf
<1>2. /\ job[p] \in Jobs /\ InputRight(job[p].buf, confirmed) /\ TurnsInv /\ TypeOK
      /\ asks \in [Workers -> Ids \cup {0}] /\ cards \subseteq Ids
      /\ tasks \in [Commands -> 0..MaxClicks] /\ \A m \in Commands : tasks[m] \in Nat
  BY JobFields
<1>3. TurnsInv' /\ confirmed' = confirmed
  BY <1>1, <1>2, TurnStepRight, TurnConfirmsNothing
<1>4. id \in Ids \cup {0}
  <2>1. RequestConfirmation(p) => nextId \in Ids
    BY <1>2, MaxIdAssumption DEF RequestConfirmation, TypeOK, Ids
  <2>2. waiting_input_action(turn[p].ctx).id \in Ids \cup {0}
    BY <1>2, TurnFields, SessionFields, PayloadFields
  <2>3. asks[p] \in Ids \cup {0}
    BY <1>2
  <2> QED BY <2>1, <2>2, <2>3
<1> HIDE DEF id
<1>5. asks' \in [Workers -> Ids \cup {0}]
  BY <1>1, <1>2, <1>4
<1>6. cards' \subseteq Ids
  BY <1>1, <1>2
<1>7. j \in Jobs /\ j.buf = job[p].buf
  BY <1>2 DEF Jobs, Outcomes
<1>8. job' = [job EXCEPT ![p] = j]
  <2>1. job \in [Workers -> Jobs]
    BY DEF CardInv, CardTypeOK
  <2>2. CASE job[p].phase = "turn" /\ Submits(p)
    BY <1>1, <2>1, <2>2
  <2>3. CASE ~(job[p].phase = "turn" /\ Submits(p))
    BY <1>1, <2>1, <2>3
  <2> QED BY <2>2, <2>3
<1>9. tasks' = tasks
  BY <1>1
<1>10. \A m \in Commands : tasks'[m] <= tasks[m]
  BY <1>2, <1>9
<1> HIDE DEF j
<1> QED BY <1>1, <1>2, <1>3, <1>5, <1>6, <1>7, <1>8, <1>9, <1>10, TaskStep

\* A step outside of the turn: the worker's task becomes j.
LEMMA OutsideTurnKept ==
    ASSUME CardInv, TypeOK', NEW p \in Workers, NEW j \in Jobs,
           job' = [job EXCEPT ![p] = j], InputRight(j.buf, confirmed),
           InputRight(session', confirmed), turn' = turn,
           UNCHANGED <<history, click, tasks, asks, cards, offered, clicks>>
    PROVE  CardInv'
<1>1. confirmed' = confirmed /\ submitted' = submitted
  BY DEF history
<1>2. TurnsInv'
  BY <1>1, OutsideStep, JobFields
<1>3. \A m \in Commands : tasks'[m] <= tasks[m]
  BY JobFields
<1> QED BY <1>1, <1>2, <1>3, JobFields, TaskStep

LEMMA JobStepKept ==
    ASSUME CardInv, NEW p \in Workers, JobStep(p)
    PROVE  CardInv'
<1>1. /\ job[p] \in Jobs /\ InputRight(job[p].buf, confirmed) /\ job[p].buf \in Sessions
      /\ TurnsInv /\ TypeOK /\ InputRight(session, confirmed)
  BY JobFields DEF TurnsInv
<1>2. CASE TurnStepOf(p)
  BY <1>2, TurnOfTaskKept
<1>3. CASE TaskTurnOver(p)
  <2> DEFINE j == [job[p] EXCEPT !.phase = "receipt", !.told = TaskOutcome(job[p].ran)]
  <2>1. j \in Jobs /\ j.buf = job[p].buf
    BY <1>1 DEF Jobs, Outcomes, TaskOutcome
  <2>2. /\ job' = [job EXCEPT ![p] = j] /\ UNCHANGED vars
        /\ UNCHANGED <<click, tasks, asks, cards, offered, clicks>>
    BY <1>3 DEF TaskTurnOver
  <2>3. TypeOK'
    BY <1>1, <2>2, NextTyped
  <2>4. turn' = turn /\ session' = session /\ UNCHANGED history
    BY <2>2 DEF vars
  <2> HIDE DEF j
  <2> QED BY <1>1, <2>1, <2>2, <2>3, <2>4, OutsideTurnKept
<1>4. CASE Receipt(p)
  <2>1. PICK s \in Loaded : job' = [job EXCEPT ![p] = [@ EXCEPT !.phase = "receipt_save", !.buf = s]]
    BY <1>4 DEF Receipt
  <2> DEFINE j == [job[p] EXCEPT !.phase = "receipt_save", !.buf = s]
  <2>2. s \in Sessions /\ InputRight(s, confirmed)
    BY <1>1, LoadedRight
  <2>3. j \in Jobs /\ j.buf = s
    BY <1>1, <2>2 DEF Jobs
  <2>4. /\ job' = [job EXCEPT ![p] = j] /\ UNCHANGED vars
        /\ UNCHANGED <<click, tasks, asks, cards, offered, clicks>>
    BY <1>4, <2>1 DEF Receipt
  <2>5. TypeOK'
    BY <1>1, <2>4, NextTyped
  <2>6. turn' = turn /\ session' = session /\ UNCHANGED history
    BY <2>4 DEF vars
  <2> HIDE DEF j
  <2> QED BY <1>1, <2>2, <2>3, <2>4, <2>5, <2>6, OutsideTurnKept
<1>5. CASE ReceiptSave(p)
  <2>1. /\ session' \in Saved(job[p].buf) /\ job' = [job EXCEPT ![p] = NoJob]
        /\ UNCHANGED <<turn, nextId, lapsed, crashes, history>>
        /\ UNCHANGED <<click, tasks, asks, cards, offered, clicks>>
    BY <1>5 DEF ReceiptSave
  <2>2. session' \in Sessions /\ InputRight(session', confirmed)
    BY <1>1, <2>1 DEF Saved, TypeOK
  <2>3. TypeOK'
    BY <1>1, <2>1, <2>2, TypeOKStep DEF TypeOK
  <2>4. NoJob \in Jobs /\ InputRight(NoJob.buf, confirmed)
    BY CardConstantsTyped
  <2> QED BY <2>1, <2>2, <2>3, <2>4, OutsideTurnKept
<1> QED BY <1>2, <1>3, <1>4, <1>5 DEF JobStep

LEMMA StartTaskKept ==
    ASSUME CardInv, NEW p \in Workers, NEW m \in Commands, StartTask(p, m)
    PROVE  CardInv'
<1>1. /\ job[p] \in Jobs /\ InputRight(job[p].buf, confirmed) /\ job[p].buf \in Sessions
      /\ TurnsInv /\ TypeOK /\ InputRight(session, confirmed)
      /\ tasks \in [Commands -> 0..MaxClicks] /\ \A n \in Commands : tasks[n] \in Nat
  BY JobFields DEF TurnsInv
<1>2. PICK s \in Loaded : Start(p, m, TRUE, TRUE, s)
  BY DEF StartTask
<1> DEFINE j == [job[p] EXCEPT !.phase = "turn"]
<1>3. /\ tasks[m] > 0 /\ tasks' = [tasks EXCEPT ![m] = @ - 1] /\ job' = [job EXCEPT ![p] = j]
      /\ UNCHANGED <<session, nextId, lapsed, crashes, history>>
      /\ UNCHANGED <<click, asks, cards, offered, clicks>>
  BY DEF StartTask
<1>4. confirmed' = confirmed /\ submitted' = submitted /\ session' = session
  BY <1>3 DEF history
<1>5. m \in Messages
  BY DEF Commands, Messages, Strategies
<1>6. s \in Sessions /\ InputRight(s, confirmed')
  BY <1>1, <1>4, LoadedRight
<1>7. TypeOK'
  <2>1. turn' \in [Workers -> Turns]
    BY <1>1, <1>2, <1>5, <1>6, StartTyped
  <2> QED BY <1>1, <1>3, <1>4, <2>1, TypeOKStep DEF TypeOK
<1>8. TurnsInv'
  BY <1>1, <1>2, <1>4, <1>6, <1>7, StartRight
<1>9. j \in Jobs /\ j.buf = job[p].buf
  BY <1>1 DEF Jobs
<1>10. tasks' \in [Commands -> 0..MaxClicks] /\ \A n \in Commands : tasks'[n] <= tasks[n]
  <2>1. ASSUME NEW n \in Commands
        PROVE  tasks'[n] \in 0..MaxClicks /\ tasks'[n] <= tasks[n]
    <3>1. tasks'[n] = IF n = m THEN tasks[n] - 1 ELSE tasks[n]
      BY <1>1, <1>3
    <3> QED BY <1>1, <1>3, <3>1, CardAssumption
  <2> QED BY <1>1, <1>3, <2>1
<1>11. asks' \in [Workers -> Ids \cup {0}] /\ cards' \subseteq Ids
  BY <1>3, JobFields
<1> HIDE DEF j
<1> QED BY <1>1, <1>3, <1>4, <1>8, <1>9, <1>10, <1>11, TaskStep

-----------------------------------------------------------------------------
(* The environment *)

LEMMA ArriveAtKept ==
    ASSUME CardInv, NEW p \in Workers, ArriveAt(p)
    PROVE  CardInv'
<1>1. Arrive(p) /\ UNCHANGED cardVars
  BY DEF ArriveAt
<1>2. TurnsInv'
  BY <1>1, ArriveRight DEF CardInv
<1>3. confirmed \subseteq confirmed'
  BY <1>1 DEF Arrive, ReceiveMessage, PortalAction, PortalQuery, history
<1> QED BY <1>1, <1>2, <1>3, CardKept

LEMMA CrashTurnKept ==
    ASSUME CardInv, NEW p \in Workers, CrashTurn(p)
    PROVE  CardInv'
<1>1. /\ Crash(p) /\ asks' = [asks EXCEPT ![p] = 0]
      /\ UNCHANGED <<click, tasks, cards, offered, clicks>>
  BY DEF CrashTurn
<1>2. /\ job[p] \in Jobs /\ InputRight(job[p].buf, confirmed)
      /\ TurnsInv /\ TypeOK /\ InputRight(session, confirmed)
  BY JobFields DEF TurnsInv
<1>3. TypeOK'
  BY <1>1, <1>2, EnvironmentTyped DEF Environment
<1>4. Leave(p) /\ session' = session /\ Kept
  BY <1>1 DEF Crash, history, Kept
<1>5. TurnsInv'
  BY <1>2, <1>3, <1>4, AnswerRight
<1>6. PICK j \in {NoJob, job[p]} : job' = [job EXCEPT ![p] = j]
  <2>1. job \in [Workers -> Jobs]
    BY DEF CardInv, CardTypeOK
  <2>2. job = [job EXCEPT ![p] = job[p]]
    BY <2>1
  <2> QED BY <2>2 DEF CrashTurn
<1>7. j \in Jobs /\ InputRight(j.buf, confirmed)
  BY <1>2, CardConstantsTyped
<1>8. asks' \in [Workers -> Ids \cup {0}] /\ cards' \subseteq Ids
  BY <1>1, JobFields
<1>9. tasks' \in [Commands -> 0..MaxClicks] /\ \A m \in Commands : tasks'[m] <= tasks[m]
  BY <1>1, JobFields
<1> QED BY <1>1, <1>4, <1>5, <1>6, <1>7, <1>8, <1>9, TaskStep DEF Kept

LEMMA CrashClickKept ==
    ASSUME CardInv, NEW k \in Clickers, CrashClick(k)
    PROVE  CardInv'
<1>1. /\ crashes < MaxCrashes /\ crashes' = crashes + 1 /\ click' = [click EXCEPT ![k] = NoClick]
      /\ UNCHANGED <<session, turn, nextId, lapsed, history>>
      /\ UNCHANGED <<tasks, job, asks, cards, offered, clicks>>
  BY DEF CrashClick
<1>2. confirmed' = confirmed /\ submitted' = submitted
  BY <1>1 DEF history
<1>3. TypeOK /\ TurnsInv /\ CardTypeOK /\ InputRight(session', confirmed')
  BY <1>1, <1>2 DEF CardInv, TurnsInv
<1>4. TypeOK'
  <2>1. crashes' \in 0..MaxCrashes
    BY <1>1, <1>3, RuntimeAssumption DEF TypeOK
  <2> QED BY <1>1, <1>2, <1>3, <2>1 DEF TypeOK
<1>5. TurnsInv'
  BY <1>1, <1>2, <1>3, <1>4, OutsideStep
<1>6. Places(NoClick.todo, "queue") = {}
  BY DEF Places, NoClick
<1>7. /\ Cardinality(Queuing') \in Nat /\ Cardinality(Queuing) \in Nat
      /\ Cardinality(Queuing') <= Cardinality(Queuing)
  BY <1>1, <1>6, QueuingCounted
<1>8. \A m \in Commands : tasks[m] \in Nat /\ tasks[m] + Cardinality(Queuing) <= clicks
  BY CardAssumption DEF CardInv, CardTypeOK, QueueIsCounted
<1>9. clicks \in 0..MaxClicks /\ clicks \in Nat /\ tasks \in [Commands -> 0..MaxClicks] /\ offered \subseteq Ids
  BY <1>3, CardAssumption DEF CardTypeOK
<1>10. \A m \in Commands : tasks'[m] + Cardinality(Queuing') <= clicks'
  BY <1>1, <1>7, <1>8, <1>9
<1> QED BY <1>1, <1>2, <1>5, <1>9, <1>10, CardConstantsTyped, HandlerStep

LEMMA CardEnvironmentKept ==
    ASSUME CardInv, CardEnvironment
    PROVE  CardInv'
<1>1. CASE \E p \in Workers : CrashTurn(p)
  BY <1>1, CrashTurnKept
<1>2. CASE \E k \in Clickers : CrashClick(k)
  BY <1>2, CrashClickKept
<1>3. CASE \E id \in Ids : Lapse(id) /\ UNCHANGED cardVars
  <2>1. PICK id \in Ids : Lapse(id) /\ UNCHANGED cardVars
    BY <1>3
  <2>2. TypeOK'
    BY <2>1, EnvironmentTyped DEF Environment, CardInv, TurnsInv
  <2>3. /\ turn' = turn /\ session' = session
        /\ confirmed' = confirmed /\ submitted' = submitted
    BY <2>1 DEF Lapse, history
  <2>4. TurnsInv'
    BY <2>2, <2>3, OutsideStep DEF CardInv, TurnsInv
  <2> QED BY <2>1, <2>3, <2>4, CardKept
<1>4. CASE ExpireSession /\ UNCHANGED cardVars
  <2>1. TypeOK'
    BY <1>4, EnvironmentTyped DEF Environment, CardInv, TurnsInv
  <2>2. /\ turn' = turn /\ session' = EmptySession
        /\ confirmed' = confirmed /\ submitted' = submitted
    BY <1>4 DEF ExpireSession, history
  <2>3. TurnsInv'
    BY <2>1, <2>2, OutsideStep, EmptyRight DEF CardInv
  <2> QED BY <1>4, <2>2, <2>3, CardKept
<1> QED BY <1>1, <1>2, <1>3, <1>4 DEF CardEnvironment

-----------------------------------------------------------------------------
(* The theorems *)

LEMMA CardBegins == CardInit => CardInv
<1> SUFFICES ASSUME CardInit PROVE CardInv
  OBVIOUS
<1>1. TypeOK
  BY InitTyped DEF CardInit
<1>2. TurnsInv
  <2>1. PICK i \in InputsLeft \cup {NoInput} : session = [EmptySession EXCEPT !.input = i]
    BY DEF CardInit, Init
  <2>2. session.input.kind # "confirmed"
    <3>1. session.input = i
      BY <2>1 DEF EmptySession
    <3> QED BY <3>1, RuntimeAssumption DEF NoInput
  <2>3. \A p \in Workers : TurnRight(turn[p], confirmed)
    BY EmptyRight DEF CardInit, Init
  <2>4. WritesWerePending
    BY DEF CardInit, Init, WritesWerePending
  <2> QED BY <1>1, <2>2, <2>3, <2>4 DEF TurnsInv, InputRight
<1>3. CardTypeOK
  BY <1>1, CardConstantsTyped, CardAssumption DEF CardInit, CardTypeOK
<1>4. \A k \in Clickers : ClickShape(click[k]) /\ ClickRight(click[k], confirmed)
  BY CardConstantsTyped DEF CardInit
<1>5. \A p \in Workers : InputRight(job[p].buf, confirmed)
  BY CardConstantsTyped DEF CardInit
<1>6. QueueIsCounted
  <2>1. Places(NoClick.todo, "queue") = {}
    BY DEF Places, NoClick
  <2>2. Queuing = {}
    BY <2>1 DEF Queuing, CardInit
  <2> QED BY <2>2, FS_EmptySet DEF QueueIsCounted, CardInit
<1> QED BY <1>2, <1>3, <1>4, <1>5, <1>6 DEF CardInv

LEMMA CardGoesOn == CardInv /\ [CardNext]_allVars => CardInv'
<1> SUFFICES ASSUME CardInv, [CardNext]_allVars PROVE CardInv'
  OBVIOUS
<1>1. CASE \E p \in Workers : ArriveAt(p) \/ JobStep(p) \/ \E m \in Commands : StartTask(p, m)
  BY <1>1, ArriveAtKept, JobStepKept, StartTaskKept
<1>2. CASE \E k \in Clickers : Click(k) \/ ClickStep(k)
  BY <1>2, ClickKeeps, ClickStepKept
<1>3. CASE CardEnvironment
  BY <1>3, CardEnvironmentKept
<1>4. CASE UNCHANGED allVars
  <2>1. UNCHANGED vars /\ UNCHANGED cardVars
    BY <1>4 DEF allVars
  <2>2. TypeOK'
    BY <2>1, NextTyped DEF CardInv, TurnsInv
  <2>3. /\ turn' = turn /\ session' = session
        /\ confirmed' = confirmed /\ submitted' = submitted
    BY <2>1 DEF vars, history
  <2>4. TurnsInv'
    BY <2>2, <2>3, OutsideStep DEF CardInv, TurnsInv
  <2> QED BY <2>1, <2>3, <2>4, CardKept
<1> QED BY <1>1, <1>2, <1>3, <1>4 DEF CardNext

\* However many clicks and tasks are at work at once, all of the state keeps its
\* type: no more commands are queued than clicks were made, and a card is sent only
\* for an action that has an id.
THEOREM CardTypes == CardSpec => []CardTypeOK
<1>1. CardInv => CardTypeOK
  BY DEF CardInv
<1> QED BY <1>1, CardBegins, CardGoesOn, PTL DEF CardSpec

\* A confirmed input in the session is one for an action that its user confirmed on
\* that action's own card, although every step of a click, of a turn and of a task
\* stores a whole session that it loaded before (confirmation_card_entrypoint.py,
\* celery_app.py: bot_runtime_card_reply_task).
THEOREM InputsAreConfirmed == CardSpec => []InputsWereConfirmed
<1>1. CardInv => InputsWereConfirmed
  BY DEF CardInv, TurnsInv, InputRight, InputsWereConfirmed
<1> QED BY <1>1, CardBegins, CardGoesOn, PTL DEF CardSpec

\* No card and no queued command opens a way to the provider around a pending
\* action, for portal requests that name a chat or come confirmed: any other is
\* executed without being asked about (runtime.py: _should_request_confirmation).
THEOREM WritesArePending ==
    ASSUME RequestsAsk
    PROVE  CardSpec => []WritesWerePending
<1>1. CardInv => WritesWerePending
  BY DEF CardInv, TurnsInv
<1> QED BY <1>1, CardBegins, CardGoesOn, PTL DEF CardSpec

=============================================================================

-------------------------- MODULE RuntimeV5Proofs --------------------------
(***************************************************************************)
(* Theorems about RuntimeV5.  For every number of workers, ids and crashes:*)
(* types, confirmed writes, the gate, statuses that agree, guarded writes. *)
(* For one worker, which is what they hold of: the life cycle, recorded    *)
(* executions, cancellations and single submissions.                       *)
(***************************************************************************)
EXTENDS RuntimeV5, TLAPS

-----------------------------------------------------------------------------
(* The operators of RuntimeState keep a session a session. *)

LEMMA ConstantsTyped ==
    /\ NoPayload \in Payloads /\ NoInput \in Inputs /\ NoState \in States
    /\ EmptySession \in Sessions /\ Idle \in Turns
BY MaxIdAssumption DEF NoPayload, Payloads, NoInput, Inputs, InputKinds, NoState, States,
    TaskStatuses, ActionStatuses, EmptySession, Sessions, Idle, Turns, PCs

LEMMA SessionFields ==
    ASSUME NEW s \in Sessions
    PROVE  /\ s.state \in States /\ s.pending \in Payloads /\ s.input \in Inputs
           /\ s.started \in BOOLEAN
           /\ s.state.task \in TaskStatuses /\ s.state.act \in ActionStatuses
           /\ s.state.held \in Payloads
           /\ pending_action(s) \in Payloads
           /\ waiting_input_action(s) \in Payloads
BY ConstantsTyped DEF Sessions, States, pending_action, waiting_input_action

LEMMA PayloadFields ==
    ASSUME NEW a \in Payloads
    PROVE  /\ a.id \in Ids \cup {0} /\ a.message \in Messages \cup {"none"}
           /\ a.strategy \in Strategies \cup {"none"}
           /\ with_user_input(a) \in Payloads
BY DEF Payloads, with_user_input

LEMMA InputFields ==
    ASSUME NEW i \in Inputs, NEW missing \in BOOLEAN
    PROVE  /\ i.kind \in InputKinds /\ i.id \in Ids \cup {0}
           /\ i.message \in Messages \cup {"none"}
           /\ i.strategy \in Strategies \cup {"none"}
           /\ pending_from_input(i, missing) \in Payloads
BY DEF Inputs, Payloads, pending_from_input

LEMMA WithActionTyped ==
    ASSUME NEW s \in Sessions, NEW t \in TaskStatuses, NEW a \in ActionStatuses
    PROVE  WithAction(s, t, a) \in Sessions
BY DEF WithAction, Sessions, States

LEMMA WithoutPendingTyped ==
    ASSUME NEW s \in Sessions
    PROVE  WithoutPending(s) \in Sessions
BY ConstantsTyped DEF WithoutPending, Sessions

LEMMA StateOperationsTyped ==
    ASSUME NEW s \in Sessions, NEW a \in Payloads, NEW ok \in BOOLEAN,
           NEW act \in {"cancelled", "stale"}
    PROVE  /\ save_waiting_input_state(s, a) \in Sessions
           /\ save_waiting_confirmation_state(s, a) \in Sessions
           /\ mark_runtime_action_waiting_confirmation(s, a) \in Sessions
           /\ mark_runtime_action_confirmed(s) \in Sessions
           /\ mark_runtime_action_executing(s) \in Sessions
           /\ mark_runtime_action_done(s, ok) \in Sessions
           /\ mark_terminal(s, act) \in Sessions
           /\ save_runtime_task_execution_state(s, ok) \in Sessions
           /\ [s EXCEPT !.state = TaskState(ok)] \in Sessions
           /\ [s EXCEPT !.input = NoInput] \in Sessions
           /\ \A b \in BOOLEAN : [s EXCEPT !.started = b] \in Sessions
<1>1. DoneStatus(ok) \in TaskStatuses \cap ActionStatuses
  BY DEF DoneStatus, TaskStatuses, ActionStatuses
<1>2. {"waiting", "running", "failed"} \subseteq TaskStatuses
  BY DEF TaskStatuses
<1>3. {"waiting_input", "waiting_confirmation", "confirmed", "executing", "cancelled", "stale"}
        \subseteq ActionStatuses
  BY DEF ActionStatuses
<1>4. /\ save_waiting_input_state(s, a) \in Sessions
      /\ save_waiting_confirmation_state(s, a) \in Sessions
      /\ mark_runtime_action_waiting_confirmation(s, a) \in Sessions
  BY <1>2, <1>3 DEF save_waiting_input_state, save_waiting_confirmation_state,
       mark_runtime_action_waiting_confirmation, Sessions, States
<1>5. /\ mark_runtime_action_confirmed(s) \in Sessions
      /\ mark_runtime_action_executing(s) \in Sessions
  BY <1>2, <1>3, WithActionTyped DEF mark_runtime_action_confirmed, mark_runtime_action_executing
<1>6. mark_runtime_action_done(s, ok) \in Sessions
  BY <1>1, WithActionTyped, WithoutPendingTyped DEF mark_runtime_action_done
<1>7. mark_terminal(s, act) \in Sessions
  BY <1>2, <1>3, WithActionTyped, WithoutPendingTyped DEF mark_terminal
<1>8. TaskState(ok) \in States
  BY <1>1, ConstantsTyped DEF TaskState, States
<1>9. [s EXCEPT !.state = TaskState(ok)] \in Sessions
  BY <1>8 DEF Sessions
<1>10. save_runtime_task_execution_state(s, ok) \in Sessions
  BY <1>9, WithoutPendingTyped DEF save_runtime_task_execution_state
<1>11. /\ [s EXCEPT !.input = NoInput] \in Sessions
       /\ \A b \in BOOLEAN : [s EXCEPT !.started = b] \in Sessions
  BY ConstantsTyped DEF Sessions
<1> QED BY <1>4, <1>5, <1>6, <1>7, <1>9, <1>10, <1>11

-----------------------------------------------------------------------------
(* What the helpers of the turns do to the variables *)

LEMMA TurnFields ==
    ASSUME TypeOK, NEW p \in Workers
    PROVE  /\ turn[p] \in Turns
           /\ turn[p].pc \in PCs /\ turn[p].msg \in Messages \cup {"none"}
           /\ turn[p].chat \in BOOLEAN /\ turn[p].bot \in BOOLEAN
           /\ turn[p].ctx \in Sessions /\ turn[p].buf \in Sessions
           /\ turn[p].conf \in Payloads /\ turn[p].granted \in BOOLEAN
           /\ turn[p].ok \in BOOLEAN /\ turn[p].syncs \in BOOLEAN
BY DEF TypeOK, Turns

LEMMA SaveTyped ==
    ASSUME TypeOK, NEW p \in Workers, NEW s \in Sessions, Save(p, s)
    PROVE  session' \in Sessions
BY DEF TypeOK, Save, Saved

LEMMA SavedTyped ==
    ASSUME TypeOK, NEW s \in Sessions, session' \in Saved(s)
    PROVE  session' \in Sessions
BY DEF TypeOK, Saved

LEMMA LoadedTyped ==
    ASSUME TypeOK, NEW s \in Loaded
    PROVE  s \in Sessions
BY ConstantsTyped DEF TypeOK, Loaded

LEMMA TurnUpdate ==
    ASSUME TypeOK, NEW p \in Workers, NEW t \in Turns, turn' = [turn EXCEPT ![p] = t]
    PROVE  turn' \in [Workers -> Turns]
BY DEF TypeOK

LEMMA GotoTyped ==
    ASSUME TypeOK, NEW p \in Workers, NEW pc \in PCs, NEW c \in Sessions, Goto(p, pc, c)
    PROVE  turn' \in [Workers -> Turns]
<1>1. [turn[p] EXCEPT !.pc = pc, !.ctx = c] \in Turns
  BY TurnFields DEF Turns
<1> QED BY <1>1, TurnUpdate DEF Goto

LEMMA AnswerTyped ==
    ASSUME TypeOK, NEW p \in Workers, NEW pc \in PCs, Answer(p, pc)
    PROVE  turn' \in [Workers -> Turns]
<1>1. [Idle EXCEPT !.pc = pc, !.chat = turn[p].chat, !.bot = turn[p].bot] \in Turns
  BY TurnFields, ConstantsTyped DEF Turns
<1> QED BY <1>1, TurnUpdate DEF Answer

LEMMA AnswerKeepingTyped ==
    ASSUME TypeOK, NEW p \in Workers, NEW c \in Sessions, AnswerKeeping(p, c)
    PROVE  turn' \in [Workers -> Turns]
<1>1. [Idle EXCEPT !.pc = "note", !.chat = turn[p].chat, !.bot = turn[p].bot,
                   !.syncs = TRUE, !.ctx = c] \in Turns
  BY TurnFields, ConstantsTyped DEF Turns, PCs
<1> QED BY <1>1, TurnUpdate DEF AnswerKeeping

LEMMA StartTyped ==
    ASSUME TypeOK, NEW p \in Workers, NEW m \in Messages, NEW chat \in BOOLEAN,
           NEW bot \in BOOLEAN, NEW c \in Sessions, Start(p, m, chat, bot, c)
    PROVE  turn' \in [Workers -> Turns]
<1>1. [Idle EXCEPT !.pc = "entry", !.msg = m, !.chat = chat, !.bot = bot, !.ctx = c] \in Turns
  BY ConstantsTyped DEF Turns, PCs
<1> QED BY <1>1, TurnUpdate DEF Start

LEMMA LeaveTyped ==
    ASSUME TypeOK, NEW p \in Workers, Leave(p)
    PROVE  turn' \in [Workers -> Turns]
BY ConstantsTyped, TurnUpdate DEF Leave

LEMMA AfterAnswerTyped ==
    ASSUME TypeOK, NEW p \in Workers, AfterAnswer(p)
    PROVE  turn' \in [Workers -> Turns]
<1>1. "clean" \in PCs
  BY DEF PCs
<1> QED BY <1>1, AnswerTyped, LeaveTyped DEF AfterAnswer

LEMMA BufferTyped ==
    ASSUME TypeOK, NEW p \in Workers, NEW pc \in PCs, NEW b \in Sessions,
           turn' = [turn EXCEPT ![p] = [@ EXCEPT !.pc = pc, !.buf = b]]
    PROVE  turn' \in [Workers -> Turns]
<1>1. [turn[p] EXCEPT !.pc = pc, !.buf = b] \in Turns
  BY TurnFields DEF Turns
<1> QED BY <1>1, TurnUpdate

LEMMA AfterNoteTyped ==
    ASSUME TypeOK, NEW p \in Workers, AfterNote(p)
    PROVE  turn' \in [Workers -> Turns]
<1>1. "sync" \in PCs
  BY DEF PCs
<1> QED BY <1>1, BufferTyped, ConstantsTyped, AfterAnswerTyped DEF AfterNote

\* A step that leaves the counters and the history alone
LEMMA TypeOKStep ==
    ASSUME TypeOK, session' \in Sessions, turn' \in [Workers -> Turns],
           UNCHANGED <<nextId, lapsed, crashes, history>>
    PROVE  TypeOK'
BY DEF TypeOK, history

LEMMA PCsTyped ==
    {"entry", "confirm_input", "route", "plan", "execute", "settle", "note", "note_save",
     "sync", "clean", "clean_save", "trace", "trace_save"} \subseteq PCs
BY DEF PCs

LEMMA MoveTyped ==
    ASSUME TypeOK, NEW p \in Workers, NEW pc \in PCs, NEW m \in Messages \cup {"none"},
           NEW c \in Sessions,
           turn' = [turn EXCEPT ![p] = [@ EXCEPT !.pc = pc, !.msg = m, !.ctx = c]]
    PROVE  turn' \in [Workers -> Turns]
<1>1. [turn[p] EXCEPT !.pc = pc, !.msg = m, !.ctx = c] \in Turns
  BY TurnFields DEF Turns
<1> QED BY <1>1, TurnUpdate

LEMMA EnterStepTyped ==
    ASSUME TypeOK, NEW p \in Workers, EnterStep(p)
    PROVE  TypeOK'
<1> DEFINE c == turn[p].ctx
<1>1. c \in Sessions /\ c.input \in Inputs /\ session \in Sessions
  BY TurnFields, SessionFields DEF TypeOK
<1>2. Consumed(c) \in Sessions
  BY <1>1, StateOperationsTyped, ConstantsTyped DEF Consumed
<1>3. c.input.message \in Messages \cup {"none"} /\ {"confirm", "cancel"} \subseteq Messages
  BY <1>1, InputFields DEF Messages
<1>4. CASE EnterWithoutInput(p)
  BY <1>1, <1>4, PCsTyped, GotoTyped, TypeOKStep DEF EnterWithoutInput
<1>5. CASE RejectInput(p)
  BY <1>2, <1>5, PCsTyped, SaveTyped, AnswerTyped, TypeOKStep DEF RejectInput
<1>6. CASE EnterMissingInput(p)
  <2> DEFINE s == save_waiting_input_state(Consumed(c), pending_from_input(c.input, TRUE))
  <2>1. pending_from_input(c.input, TRUE) \in Payloads
    BY <1>1, InputFields
  <2>2. s \in Sessions
    BY <1>2, <2>1, StateOperationsTyped
  <2>3. [s EXCEPT !.started = TRUE] \in Sessions
    BY <2>1, <2>2, StateOperationsTyped
  <2>4. session' \in Sessions
    BY <1>6, <2>2, SaveTyped DEF EnterMissingInput
  <2>5. turn' = [turn EXCEPT ![p] = [@ EXCEPT !.pc = "route", !.msg = c.input.message,
                                              !.ctx = [s EXCEPT !.started = TRUE]]]
    BY <1>6 DEF EnterMissingInput
  <2>6. turn' \in [Workers -> Turns]
    BY <1>3, <2>3, <2>5, PCsTyped, MoveTyped
  <2> QED BY <1>6, <2>4, <2>6, TypeOKStep DEF EnterMissingInput
<1>7. CASE EnterCancelInput(p)
  <2> DEFINE s == save_waiting_confirmation_state(Consumed(c), pending_from_input(c.input, FALSE))
  <2>1. s \in Sessions
    BY <1>1, <1>2, InputFields, StateOperationsTyped
  <2>2. session' \in Sessions
    BY <1>7, <2>1, SaveTyped DEF EnterCancelInput
  <2>3. turn' = [turn EXCEPT ![p] = [@ EXCEPT !.pc = "route", !.msg = "cancel", !.ctx = s]]
    BY <1>7 DEF EnterCancelInput
  <2>4. turn' \in [Workers -> Turns]
    BY <1>3, <2>1, <2>3, PCsTyped, MoveTyped
  <2> QED BY <1>7, <2>2, <2>4, TypeOKStep DEF EnterCancelInput
<1>8. CASE EnterConfirmedInput(p)
  <2> DEFINE s == save_waiting_confirmation_state(Consumed(c), pending_from_input(c.input, FALSE))
  <2>1. s \in Sessions
    BY <1>1, <1>2, InputFields, StateOperationsTyped
  <2>2. Save(p, s) /\ Goto(p, "confirm_input", s)
    BY <1>8 DEF EnterConfirmedInput
  <2>3. session' \in Sessions /\ turn' \in [Workers -> Turns]
    BY <2>1, <2>2, PCsTyped, SaveTyped, GotoTyped
  <2> QED BY <1>8, <2>3, TypeOKStep DEF EnterConfirmedInput
<1>9. CASE ConfirmInput(p)
  <2> DEFINE s == mark_runtime_action_confirmed(c)
  <2>1. s \in Sessions
    BY <1>1, ConstantsTyped, StateOperationsTyped
  <2>2. session' \in Sessions
    BY <1>9, <2>1, SaveTyped DEF ConfirmInput
  <2>3. turn' = [turn EXCEPT ![p] = [@ EXCEPT !.pc = "route", !.msg = "confirm", !.ctx = s]]
    BY <1>9 DEF ConfirmInput
  <2>4. turn' \in [Workers -> Turns]
    BY <1>3, <2>1, <2>3, PCsTyped, MoveTyped
  <2> QED BY <1>9, <2>2, <2>4, TypeOKStep DEF ConfirmInput
<1>10. CASE EnterPlainInput(p)
  <2>1. turn' \in [Workers -> Turns]
    BY <1>2, <1>3, <1>10, PCsTyped, MoveTyped DEF EnterPlainInput
  <2> QED BY <1>1, <1>10, <2>1, TypeOKStep DEF EnterPlainInput
<1> QED BY <1>4, <1>5, <1>6, <1>7, <1>8, <1>9, <1>10 DEF EnterStep

LEMMA RouteStepTyped ==
    ASSUME TypeOK, NEW p \in Workers, RouteStep(p)
    PROVE  TypeOK'
<1> DEFINE c == turn[p].ctx
           a == pending_action(c)
<1>1. c \in Sessions /\ session \in Sessions /\ a \in Payloads
      /\ waiting_input_action(c) \in Payloads
  BY TurnFields, SessionFields DEF TypeOK
<1>2. with_user_input(waiting_input_action(c)) \in Payloads
      /\ a.message \in Messages \cup {"none"}
  BY <1>1, PayloadFields
<1>3. /\ mark_terminal(c, "cancelled") \in Sessions /\ mark_terminal(c, "stale") \in Sessions
      /\ mark_runtime_action_done(c, FALSE) \in Sessions
      /\ mark_runtime_action_confirmed(c) \in Sessions
      /\ [c EXCEPT !.started = FALSE] \in Sessions
      /\ mark_runtime_action_waiting_confirmation(c, with_user_input(waiting_input_action(c))) \in Sessions
  BY <1>1, <1>2, StateOperationsTyped
<1>4. CASE CancelWaitingInput(p)
  BY <1>3, <1>4, PCsTyped, SaveTyped, AnswerTyped, TypeOKStep DEF CancelWaitingInput
<1>5. CASE PromptStarted(p)
  BY <1>3, <1>5, PCsTyped, SaveTyped, AnswerTyped, TypeOKStep DEF PromptStarted
<1>6. CASE PromptAgain(p)
  BY <1>1, <1>6, PCsTyped, AnswerTyped, TypeOKStep DEF PromptAgain
<1>7. CASE FillInput(p)
  BY <1>3, <1>7, PCsTyped, SaveTyped, AnswerTyped, TypeOKStep DEF FillInput
<1>8. CASE ConfirmNothing(p)
  BY <1>1, <1>8, PCsTyped, AnswerTyped, TypeOKStep DEF ConfirmNothing
<1>9. CASE CancelPending(p)
  BY <1>1, <1>3, <1>9, PCsTyped, SaveTyped, AnswerTyped, TypeOKStep DEF CancelPending
<1>10. CASE ConfirmExpired(p)
  BY <1>1, <1>3, <1>10, PCsTyped, SaveTyped, AnswerTyped, TypeOKStep DEF ConfirmExpired
<1>11. CASE ConfirmGuarded(p)
  BY <1>1, <1>3, <1>11, PCsTyped, SaveTyped, AnswerTyped, TypeOKStep DEF ConfirmGuarded
<1>12. CASE ConfirmPending(p)
  <2> DEFINE s == IF latest_action_exists(c) THEN mark_runtime_action_confirmed(c) ELSE c
             t == [turn[p] EXCEPT !.pc = "plan", !.msg = a.message, !.conf = a,
                                  !.granted = TRUE, !.ctx = WithoutPending(s)]
  <2>1. s \in Sessions /\ WithoutPending(s) \in Sessions
    BY <1>1, <1>3, WithoutPendingTyped
  <2>2. session' \in Sessions
    BY <1>1, <1>12, <2>1, SaveTyped DEF ConfirmPending
  <2>3. t \in Turns
    BY <1>1, <1>2, <2>1, PCsTyped, TurnFields DEF Turns
  <2>4. turn' = [turn EXCEPT ![p] = t]
    BY <1>12 DEF ConfirmPending
  <2> QED BY <1>12, <2>2, <2>3, <2>4, TurnUpdate, TypeOKStep DEF ConfirmPending
<1>13. CASE PassToPlanner(p)
  BY <1>1, <1>13, PCsTyped, GotoTyped, TypeOKStep DEF PassToPlanner
<1> QED BY <1>4, <1>5, <1>6, <1>7, <1>8, <1>9, <1>10, <1>11, <1>12, <1>13 DEF RouteStep

LEMMA ExecuteStepTyped ==
    ASSUME TypeOK, NEW p \in Workers, ExecuteStep(p)
    PROVE  TypeOK'
<1> DEFINE c == turn[p].ctx
           ok == turn[p].ok
<1>1. c \in Sessions /\ session \in Sessions /\ ok \in BOOLEAN
  BY TurnFields DEF TypeOK
<1>2. /\ mark_runtime_action_executing(c) \in Sessions
      /\ mark_runtime_action_done(c, ok) \in Sessions
      /\ save_runtime_task_execution_state(c, ok) \in Sessions
      /\ [c EXCEPT !.state = TaskState(ok)] \in Sessions
  BY <1>1, ConstantsTyped, StateOperationsTyped
<1>3. CASE AnswerFollowup(p)
  BY <1>1, <1>3, PCsTyped, AnswerTyped, TypeOKStep DEF AnswerFollowup
<1>4. CASE AnswerWithoutExecution(p)
  BY <1>1, <1>4, PCsTyped, AnswerTyped, TypeOKStep DEF AnswerWithoutExecution
<1>5. CASE RequestConfirmation(p)
  <2> DEFINE a == [id |-> nextId, message |-> turn[p].msg, strategy |-> turn[p].msg,
                   ttl |-> TRUE, missing |-> FALSE]
  <2>1. nextId \in Ids /\ turn[p].msg \in Strategies
    BY <1>5 DEF RequestConfirmation, should_request_confirmation, requires_confirmation,
        TypeOK, Ids
  <2>2. a \in Payloads
    BY <2>1 DEF Payloads, Messages
  <2>3. save_waiting_confirmation_state(c, a) \in Sessions
    BY <1>1, <2>2, StateOperationsTyped
  <2>4. session' \in Sessions /\ turn' \in [Workers -> Turns]
    BY <1>5, <2>3, PCsTyped, SaveTyped, AnswerTyped DEF RequestConfirmation
  <2>5. nextId' \in 1..(MaxId + 1)
    BY <1>5, <2>1, MaxIdAssumption DEF RequestConfirmation, Ids
  <2> QED BY <1>5, <2>4, <2>5 DEF RequestConfirmation, TypeOK, history
<1>6. CASE BeginExecution(p)
  <2>1. session' \in Sessions /\ turn' \in [Workers -> Turns]
    BY <1>1, <1>2, <1>6, PCsTyped, SaveTyped, GotoTyped DEF BeginExecution
  <2> QED BY <1>6, <2>1, TypeOKStep DEF BeginExecution
<1>7. CASE \E success \in BOOLEAN : Execute(p, success)
  <2>1. PICK success \in BOOLEAN : Execute(p, success)
    BY <1>7
  <2>2. [turn[p] EXCEPT !.pc = "settle", !.ok = success] \in Turns
    BY TurnFields, PCsTyped DEF Turns
  <2>3. turn' \in [Workers -> Turns]
    BY <2>1, <2>2, TurnUpdate DEF Execute
  <2>4. turn[p].conf.id \in Ids \cup {0}
    BY TurnFields, PayloadFields
  <2>5. submitted' \subseteq Ids \cup {0}
    BY <2>1, <2>4 DEF Execute, TypeOK
  <2> QED BY <2>1, <2>3, <2>5 DEF Execute, TypeOK
<1>8. CASE SettleAction(p)
  <2>1. session' \in Sessions
    BY <1>1, <1>2, <1>8, SaveTyped DEF SettleAction
  <2>2. turn' \in [Workers -> Turns]
    BY <1>8, PCsTyped, AnswerTyped DEF SettleAction
  <2> QED BY <1>8, <2>1, <2>2, TypeOKStep DEF SettleAction
<1>9. CASE SettleTask(p)
  <2>1. session' \in Sessions
    BY <1>2, <1>9, SaveTyped DEF SettleTask
  <2>2. turn' \in [Workers -> Turns]
    <3>1. CASE Answer(p, "note")
      BY <3>1, PCsTyped, AnswerTyped
    <3>2. CASE AnswerKeeping(p, [c EXCEPT !.state = TaskState(ok)])
      BY <1>2, <3>2, AnswerKeepingTyped
    <3> QED BY <1>9, <3>1, <3>2 DEF SettleTask
  <2> QED BY <1>9, <2>1, <2>2, TypeOKStep DEF SettleTask
<1> QED BY <1>3, <1>4, <1>5, <1>6, <1>7, <1>8, <1>9 DEF ExecuteStep

LEMMA FinishStepTyped ==
    ASSUME TypeOK, NEW p \in Workers, FinishStep(p)
    PROVE  TypeOK'
<1>1. session \in Sessions /\ turn[p].ctx \in Sessions /\ turn[p].buf \in Sessions
  BY TurnFields DEF TypeOK
<1>2. ASSUME NEW s \in Loaded
      PROVE  s \in Sessions /\ Cleaned(s) \in Sessions
  BY LoadedTyped, ConstantsTyped DEF Cleaned, Unexpired, Sessions
<1>3. CASE Note(p)
  <2>1. ASSUME NEW s \in Loaded,
               turn' = [turn EXCEPT ![p] = [@ EXCEPT !.pc = "note_save", !.buf = s]]
        PROVE  turn' \in [Workers -> Turns]
    BY <1>2, <2>1, PCsTyped, BufferTyped
  <2> QED BY <1>1, <1>3, <2>1, AfterNoteTyped, TypeOKStep DEF Note
<1>4. CASE NoteSave(p)
  BY <1>1, <1>4, SavedTyped, AfterNoteTyped, TypeOKStep DEF NoteSave
<1>5. CASE Sync(p)
  BY <1>1, <1>5, SaveTyped, AfterAnswerTyped, TypeOKStep DEF Sync
<1>6. CASE Clean(p)
  <2>1. ASSUME NEW s \in Loaded,
               turn' = [turn EXCEPT ![p] = [@ EXCEPT !.pc = "clean_save", !.buf = Cleaned(s)]]
        PROVE  turn' \in [Workers -> Turns]
    BY <1>2, <2>1, PCsTyped, BufferTyped
  <2> QED BY <1>1, <1>6, <2>1, PCsTyped, AnswerTyped, LeaveTyped, TypeOKStep DEF Clean
<1>7. CASE CleanSave(p)
  BY <1>1, <1>7, PCsTyped, SavedTyped, AnswerTyped, TypeOKStep DEF CleanSave
<1>8. CASE Trace(p)
  BY <1>1, <1>2, <1>8, PCsTyped, BufferTyped, TypeOKStep DEF Trace
<1>9. CASE TraceSave(p)
  BY <1>1, <1>9, SavedTyped, LeaveTyped, TypeOKStep DEF TraceSave
<1> QED BY <1>3, <1>4, <1>5, <1>6, <1>7, <1>8, <1>9 DEF FinishStep

LEMMA ArriveTyped ==
    ASSUME TypeOK, NEW p \in Workers, Arrive(p)
    PROVE  TypeOK'
<1>1. CASE \E m \in Texts : ReceiveMessage(p, m)
  <2>1. PICK m \in Texts : ReceiveMessage(p, m)
    BY <1>1
  <2>2. m \in Messages /\ \A s \in Loaded : s \in Sessions
    BY RuntimeAssumption, LoadedTyped
  <2>3. turn' \in [Workers -> Turns]
    BY <2>1, <2>2, StartTyped DEF ReceiveMessage
  <2>4. confirmed' \subseteq Ids
    BY <2>1 DEF ReceiveMessage, ConfirmedBy, TypeOK
  <2> QED BY <2>1, <2>3, <2>4 DEF ReceiveMessage, TypeOK
<1>2. CASE \E m \in {"approve", "reject"}, r \in PortalRequests, id \in Ids :
              PortalAction(p, m, r, id)
  <2>1. PICK m \in {"approve", "reject"}, r \in PortalRequests, id \in Ids :
              PortalAction(p, m, r, id)
    BY <1>2
  <2> DEFINE i == [kind |-> IF r.confirm THEN "confirmed" ELSE "plain",
                   id |-> id, message |-> m, strategy |-> m]
  <2>2. m \in Messages /\ m \in Strategies /\ r.chat \in BOOLEAN
    BY RuntimeAssumption DEF Messages, Strategies
  <2>3. i \in Inputs
    BY <2>2 DEF Inputs, InputKinds
  <2>4. PICK s \in IF r.chat THEN Loaded ELSE {EmptySession} :
          Start(p, m, r.chat, FALSE, [s EXCEPT !.input = i])
    BY <2>1 DEF PortalAction
  <2>5. turn' \in [Workers -> Turns]
    <3>1. s \in Sessions
      BY ConstantsTyped, LoadedTyped
    <3>2. [s EXCEPT !.input = i] \in Sessions
      BY <2>3, <3>1 DEF Sessions
    <3> QED BY <2>2, <2>4, <3>2, StartTyped
  <2>6. nextId' \in 1..(MaxId + 1)
    BY <2>1, MaxIdAssumption DEF PortalAction, TypeOK, Ids
  <2>7. confirmed' \subseteq Ids
    BY <2>1 DEF PortalAction, TypeOK
  <2> QED BY <2>1, <2>5, <2>6, <2>7 DEF PortalAction, TypeOK
<1>3. CASE PortalQuery(p)
  <2>1. turn' \in [Workers -> Turns]
    BY <1>3, ConstantsTyped, StartTyped DEF PortalQuery, Messages
  <2> QED BY <1>3, <2>1, TypeOKStep DEF PortalQuery, TypeOK
<1> QED BY <1>1, <1>2, <1>3 DEF Arrive

LEMMA EnvironmentTyped ==
    ASSUME TypeOK, Environment
    PROVE  TypeOK'
<1>1. CASE \E p \in Workers : Crash(p)
  <2>1. PICK p \in Workers : Crash(p)
    BY <1>1
  <2>2. turn' \in [Workers -> Turns]
    BY <2>1, LeaveTyped DEF Crash
  <2>3. crashes' \in 0..MaxCrashes
    BY <2>1, RuntimeAssumption DEF Crash, TypeOK
  <2> QED BY <2>1, <2>2, <2>3 DEF Crash, TypeOK, history
<1>2. CASE \E id \in Ids : Lapse(id)
  BY <1>2 DEF Lapse, TypeOK, history
<1>3. CASE ExpireSession
  BY <1>3, ConstantsTyped DEF ExpireSession, TypeOK, history
<1> QED BY <1>1, <1>2, <1>3 DEF Environment

LEMMA InitTyped == Init => TypeOK
<1> SUFFICES ASSUME Init PROVE TypeOK
  OBVIOUS
<1>1. session \in Sessions
  <2>1. PICK i \in InputsLeft \cup {NoInput} : session = [EmptySession EXCEPT !.input = i]
    BY DEF Init
  <2>2. i \in Inputs
    BY ConstantsTyped, RuntimeAssumption
  <2> QED BY <2>1, <2>2, ConstantsTyped DEF Sessions
<1>2. turn \in [Workers -> Turns]
  BY ConstantsTyped DEF Init
<1>3. session.input.id \in 0..MaxId
  BY <1>1, SessionFields, InputFields, MaxIdAssumption DEF Ids
<1> QED BY <1>1, <1>2, <1>3, MaxIdAssumption, RuntimeAssumption DEF Init, TypeOK

LEMMA NextTyped == TypeOK /\ [Next]_vars => TypeOK'
<1> SUFFICES ASSUME TypeOK, [Next]_vars PROVE TypeOK'
  OBVIOUS
<1>1. CASE \E p \in Workers : Arrive(p) \/ TurnStep(p)
  BY <1>1, ArriveTyped, EnterStepTyped, RouteStepTyped, ExecuteStepTyped, FinishStepTyped
     DEF TurnStep
<1>2. CASE Environment
  BY <1>2, EnvironmentTyped
<1>3. CASE UNCHANGED vars
  BY <1>3 DEF vars, history, TypeOK
<1> QED BY <1>1, <1>2, <1>3 DEF Next

\* Every session, turn and counter keeps its type, whatever the workers, the
\* clients of the portal and the crashes do (run_runtime_v5 with its callers).
THEOREM TypeCorrect == Spec => []TypeOK
<1>1. Init => TypeOK
  BY InitTyped
<1>2. TypeOK /\ [Next]_vars => TypeOK'
  BY NextTyped
<1> QED BY <1>1, <1>2, PTL DEF Spec

-----------------------------------------------------------------------------
(* Confirmed writes.  That submitted is a subset of confirmed says nothing    *)
(* about the turn that is about to submit; the invariant follows the          *)
(* confirmation through the turn: from the input or the message that brings   *)
(* it, over the pending action of the turn's own copy of the session, to the  *)
(* action it was granted for.                                                 *)

\* Every request of the portal is confirmed by its user.
OnlyConfirmedRequests == PortalRequests \subseteq [confirm : {TRUE}, chat : BOOLEAN]

\* The parts of the invariant, for the confirmed ids C and the lapsed ids L
InputConfirmed(s, C) ==
    /\ s.input.kind # "plain"
    /\ s.input.kind = "confirmed" => s.input.id \in C

\* If the session's pending action may be confirmed, its user has done so.
PendingConfirmed(s, C, L) ==
    LET a == pending_action(s)
    IN s.state.act # "waiting_input" /\ a.id # 0 /\ ~(a.ttl /\ a.id \in L) => a.id \in C

TurnConfirmed(t, C, L) ==
    /\ InputConfirmed(t.ctx, C) /\ InputConfirmed(t.buf, C)
    /\ t.pc = "entry" => t.chat \/ t.ctx.input.kind = "confirmed"
    /\ t.pc = "entry" /\ t.ctx.input.kind = "none" /\ is_confirmation_message(t.msg)
         => PendingConfirmed(t.ctx, C, L)
    /\ t.pc = "confirm_input" => t.ctx.state.held.id \in C
    /\ t.pc = "route" => t.chat \/ t.msg = "confirm"
    /\ t.pc = "route" /\ is_confirmation_message(t.msg) => PendingConfirmed(t.ctx, C, L)
    /\ t.granted => t.conf.id \in C
    /\ t.pc \in {"plan", "execute"} => t.chat \/ t.granted
    /\ t.pc = "execute" /\ t.msg \in Strategies => t.granted

ConfirmInv ==
    /\ TypeOK
    /\ InputConfirmed(session, confirmed)
    /\ \A p \in Workers : TurnConfirmed(turn[p], confirmed, lapsed)
    /\ ConfirmedWrites

\* Ids are only ever added to confirmed and lapsed.
LEMMA ConfirmedMonotone ==
    ASSUME NEW t, NEW C, NEW D, NEW L, NEW M, C \subseteq D, L \subseteq M,
           TurnConfirmed(t, C, L)
    PROVE  TurnConfirmed(t, D, M)
<1>1. InputConfirmed(t.ctx, D) /\ InputConfirmed(t.buf, D)
  BY DEF TurnConfirmed, InputConfirmed
<1>2. PendingConfirmed(t.ctx, C, L) => PendingConfirmed(t.ctx, D, M)
  BY DEF PendingConfirmed
<1> QED BY <1>1, <1>2 DEF TurnConfirmed

LEMMA ConfirmStep ==
    ASSUME ConfirmInv, TypeOK', NEW p \in Workers, NEW t,
           turn' = [turn EXCEPT ![p] = t],
           confirmed \subseteq confirmed', lapsed \subseteq lapsed',
           InputConfirmed(session', confirmed'),
           TurnConfirmed(t, confirmed', lapsed'),
           submitted' \subseteq confirmed'
    PROVE  ConfirmInv'
<1>1. ASSUME NEW q \in Workers
      PROVE  TurnConfirmed(turn'[q], confirmed', lapsed')
  <2>1. CASE q = p
    BY <2>1 DEF ConfirmInv, TypeOK
  <2>2. CASE q # p
    <3>1. turn'[q] = turn[q]
      BY <2>2 DEF ConfirmInv, TypeOK
    <3>2. TurnConfirmed(turn[q], confirmed, lapsed)
      BY DEF ConfirmInv
    <3> QED BY <3>1, <3>2, ConfirmedMonotone
  <2> QED BY <2>1, <2>2
<1> QED BY <1>1 DEF ConfirmInv, ConfirmedWrites

\* No operation on the runtime state touches the action input.
LEMMA InputKept ==
    ASSUME NEW s \in Sessions, NEW a \in Payloads, NEW ok \in BOOLEAN,
           NEW act \in {"cancelled", "stale"}
    PROVE  /\ save_waiting_input_state(s, a).input = s.input
           /\ save_waiting_confirmation_state(s, a).input = s.input
           /\ mark_runtime_action_waiting_confirmation(s, a).input = s.input
           /\ mark_runtime_action_confirmed(s).input = s.input
           /\ mark_runtime_action_executing(s).input = s.input
           /\ mark_runtime_action_done(s, ok).input = s.input
           /\ mark_terminal(s, act).input = s.input
           /\ save_runtime_task_execution_state(s, ok).input = s.input
           /\ [s EXCEPT !.state = TaskState(ok)].input = s.input
           /\ WithoutPending(s).input = s.input
           /\ \A b \in BOOLEAN : [s EXCEPT !.started = b].input = s.input
<1>1. \A u \in Sessions : WithoutPending(u).input = u.input
  BY DEF WithoutPending, Sessions
<1>2. \A t \in TaskStatuses, x \in ActionStatuses :
        WithAction(s, t, x) \in Sessions /\ WithAction(s, t, x).input = s.input
  BY WithActionTyped DEF WithAction, Sessions
<1>3. DoneStatus(ok) \in TaskStatuses \cap ActionStatuses
  BY DEF DoneStatus, TaskStatuses, ActionStatuses
<1>4. {"running", "failed"} \subseteq TaskStatuses
      /\ {"confirmed", "executing", "cancelled", "stale"} \subseteq ActionStatuses
  BY DEF TaskStatuses, ActionStatuses
<1>5. /\ save_waiting_input_state(s, a).input = s.input
      /\ save_waiting_confirmation_state(s, a).input = s.input
      /\ mark_runtime_action_waiting_confirmation(s, a).input = s.input
  BY DEF save_waiting_input_state, save_waiting_confirmation_state,
       mark_runtime_action_waiting_confirmation, Sessions
<1>6. /\ mark_runtime_action_confirmed(s).input = s.input
      /\ mark_runtime_action_executing(s).input = s.input
  BY <1>2, <1>4 DEF mark_runtime_action_confirmed, mark_runtime_action_executing
<1>7. mark_runtime_action_done(s, ok).input = s.input
  BY <1>1, <1>2, <1>3 DEF mark_runtime_action_done
<1>8. mark_terminal(s, act).input = s.input
  BY <1>1, <1>2, <1>4 DEF mark_terminal
<1>9. [s EXCEPT !.state = TaskState(ok)].input = s.input
  BY DEF Sessions
<1>10. save_runtime_task_execution_state(s, ok).input = s.input
  BY <1>1, <1>9, StateOperationsTyped DEF save_runtime_task_execution_state
<1>11. \A b \in BOOLEAN : [s EXCEPT !.started = b].input = s.input
  BY DEF Sessions
<1> QED BY <1>1, <1>5, <1>6, <1>7, <1>8, <1>9, <1>10, <1>11

LEMMA NoInputConfirmed ==
    ASSUME NEW s, NEW C, s.input = NoInput
    PROVE  InputConfirmed(s, C)
<1>1. NoInput.kind = "none"
  BY DEF NoInput
<1> QED BY <1>1 DEF InputConfirmed

LEMMA EmptyConfirmed ==
    ASSUME NEW C, NEW L
    PROVE  /\ InputConfirmed(EmptySession, C)
           /\ \A s \in Sessions : InputConfirmed([s EXCEPT !.input = NoInput], C)
           /\ TurnConfirmed(Idle, C, L)
<1>1. InputConfirmed(EmptySession, C)
  BY DEF InputConfirmed, EmptySession, NoInput
<1>2. \A s \in Sessions : InputConfirmed([s EXCEPT !.input = NoInput], C)
  BY DEF InputConfirmed, NoInput, Sessions
<1>3. TurnConfirmed(Idle, C, L)
  BY <1>1 DEF TurnConfirmed, Idle
<1> QED BY <1>1, <1>2, <1>3

\* Steps that end the work on the session and grant nothing
LEMMA AnswerConfirmed ==
    ASSUME ConfirmInv, TypeOK', NEW p \in Workers,
           UNCHANGED <<lapsed, confirmed, submitted>>,
           InputConfirmed(session', confirmed),
           \/ \E pc \in {"note", "clean", "trace"} : Answer(p, pc)
           \/ \E c : AnswerKeeping(p, c) /\ InputConfirmed(c, confirmed)
           \/ Leave(p) \/ AfterAnswer(p)
    PROVE  ConfirmInv'
<1> DEFINE Answered(pc) == [Idle EXCEPT !.pc = pc, !.chat = turn[p].chat, !.bot = turn[p].bot]
<1>1. ASSUME NEW pc \in {"note", "clean", "trace"}, Answer(p, pc)
      PROVE  ConfirmInv'
  <2>1. TurnConfirmed(Answered(pc), confirmed, lapsed)
    BY EmptyConfirmed DEF TurnConfirmed, Idle
  <2>2. turn' = [turn EXCEPT ![p] = Answered(pc)]
    BY <1>1 DEF Answer
  <2> QED BY <2>1, <2>2, ConfirmStep DEF ConfirmInv, ConfirmedWrites
<1>2. ASSUME NEW c, AnswerKeeping(p, c), InputConfirmed(c, confirmed)
      PROVE  ConfirmInv'
  <2> DEFINE t == [Idle EXCEPT !.pc = "note", !.chat = turn[p].chat, !.bot = turn[p].bot,
                               !.syncs = TRUE, !.ctx = c]
  <2>1. TurnConfirmed(t, confirmed, lapsed)
    BY <1>2, EmptyConfirmed DEF TurnConfirmed, Idle
  <2>2. turn' = [turn EXCEPT ![p] = t]
    BY <1>2 DEF AnswerKeeping
  <2> QED BY <2>1, <2>2, ConfirmStep DEF ConfirmInv, ConfirmedWrites
<1>3. ASSUME Leave(p)
      PROVE  ConfirmInv'
  <2>1. TurnConfirmed(Idle, confirmed, lapsed)
    BY EmptyConfirmed
  <2>2. turn' = [turn EXCEPT ![p] = Idle]
    BY <1>3 DEF Leave
  <2> QED BY <2>1, <2>2, ConfirmStep DEF ConfirmInv, ConfirmedWrites
<1> QED BY <1>1, <1>2, <1>3 DEF AfterAnswer

\* Saving keeps a session's input one the user confirmed.
LEMMA SaveConfirmed ==
    ASSUME ConfirmInv, NEW p \in Workers, NEW s, Save(p, s), InputConfirmed(s, confirmed)
    PROVE  InputConfirmed(session', confirmed)
BY DEF ConfirmInv, Save, Saved

LEMMA EnterStepConfirmed ==
    ASSUME ConfirmInv, NEW p \in Workers, EnterStep(p)
    PROVE  ConfirmInv'
<1> DEFINE c == turn[p].ctx
<1>1. TypeOK /\ TypeOK'
  BY EnterStepTyped DEF ConfirmInv
<1>2. /\ TurnConfirmed(turn[p], confirmed, lapsed) /\ turn[p] \in Turns
      /\ c \in Sessions /\ c.input \in Inputs
      /\ InputConfirmed(c, confirmed) /\ InputConfirmed(turn[p].buf, confirmed)
      /\ InputConfirmed(session, confirmed) /\ submitted \subseteq confirmed
  BY <1>1, TurnFields, SessionFields DEF ConfirmInv, ConfirmedWrites, TurnConfirmed
<1>3. Consumed(c) \in Sessions /\ InputConfirmed(Consumed(c), confirmed)
      /\ Consumed(c).input = NoInput
  BY <1>2, ConstantsTyped, StateOperationsTyped, EmptyConfirmed DEF Consumed, Sessions
<1>4. UNCHANGED <<lapsed, confirmed, submitted>>
  BY DEF EnterStep, EnterWithoutInput, RejectInput, EnterMissingInput, EnterCancelInput,
     EnterConfirmedInput, ConfirmInput, EnterPlainInput, history
<1>5. CASE EnterWithoutInput(p)
  <2> DEFINE t == [turn[p] EXCEPT !.pc = "route", !.ctx = c]
  <2>1. turn' = [turn EXCEPT ![p] = t] /\ session' = session
    BY <1>5 DEF EnterWithoutInput, Goto
  <2>2. turn[p].pc = "entry" /\ c.input.kind = "none"
    BY <1>5 DEF EnterWithoutInput, At
  <2>3. t.ctx = c /\ t.buf = turn[p].buf /\ t.pc = "route" /\ t.msg = turn[p].msg
        /\ t.chat = turn[p].chat /\ t.granted = turn[p].granted /\ t.conf = turn[p].conf
    BY <1>2 DEF Turns
  <2>4. TurnConfirmed(t, confirmed, lapsed)
    BY <1>2, <2>2, <2>3 DEF TurnConfirmed
  <2> QED BY <1>1, <1>2, <1>4, <2>1, <2>4, ConfirmStep
<1>6. CASE RejectInput(p)
  BY <1>1, <1>3, <1>4, <1>6, SaveConfirmed, AnswerConfirmed DEF RejectInput
<1>7. CASE EnterMissingInput(p)
  <2> DEFINE s == save_waiting_input_state(Consumed(c), pending_from_input(c.input, TRUE))
             u == [s EXCEPT !.started = TRUE]
             t == [turn[p] EXCEPT !.pc = "route", !.msg = c.input.message, !.ctx = u]
  <2>1. pending_from_input(c.input, TRUE) \in Payloads
    BY <1>2, InputFields
  <2>2. s \in Sessions /\ s.input = NoInput /\ u.input = NoInput
    <3>1. s \in Sessions /\ s.input = NoInput
      BY <1>3, <2>1, StateOperationsTyped, InputKept
    <3>2. u.input = s.input
      BY <2>1, <3>1, InputKept
    <3> QED BY <3>1, <3>2
  <2>3. u.state.act = "waiting_input"
    BY <1>3 DEF save_waiting_input_state, Sessions
  <2>4. InputConfirmed(s, confirmed) /\ InputConfirmed(u, confirmed)
    BY <2>2, NoInputConfirmed
  <2>5. InputConfirmed(session', confirmed)
    BY <1>7, <2>4, SaveConfirmed DEF EnterMissingInput
  <2>6. turn' = [turn EXCEPT ![p] = t]
    BY <1>7 DEF EnterMissingInput
  <2>7. turn[p].chat
    BY <1>2, <1>7 DEF EnterMissingInput, At, TurnConfirmed
  <2>8. t.ctx = u /\ t.buf = turn[p].buf /\ t.pc = "route" /\ t.chat = turn[p].chat
        /\ t.granted = turn[p].granted /\ t.conf = turn[p].conf
    BY <1>2 DEF Turns
  <2>9. PendingConfirmed(t.ctx, confirmed, lapsed)
    BY <2>3, <2>8 DEF PendingConfirmed
  <2>10. TurnConfirmed(t, confirmed, lapsed)
    BY <1>2, <2>4, <2>7, <2>8, <2>9 DEF TurnConfirmed
  <2> QED BY <1>1, <1>2, <1>4, <2>5, <2>6, <2>10, ConfirmStep
<1>8. CASE EnterCancelInput(p)
  <2> DEFINE s == save_waiting_confirmation_state(Consumed(c), pending_from_input(c.input, FALSE))
             t == [turn[p] EXCEPT !.pc = "route", !.msg = "cancel", !.ctx = s]
  <2>1. s.input = NoInput
    BY <1>2, <1>3, InputFields, InputKept
  <2>2. InputConfirmed(s, confirmed)
    BY <2>1, NoInputConfirmed
  <2>3. InputConfirmed(session', confirmed)
    BY <1>8, <2>2, SaveConfirmed DEF EnterCancelInput
  <2>4. turn' = [turn EXCEPT ![p] = t]
    BY <1>8 DEF EnterCancelInput
  <2>5. turn[p].chat
    BY <1>2, <1>8 DEF EnterCancelInput, At, TurnConfirmed
  <2>6. t.ctx = s /\ t.buf = turn[p].buf /\ t.pc = "route" /\ t.chat = turn[p].chat
        /\ t.msg = "cancel" /\ t.granted = turn[p].granted /\ t.conf = turn[p].conf
    BY <1>2 DEF Turns
  <2>7. TurnConfirmed(t, confirmed, lapsed)
    BY <1>2, <2>2, <2>5, <2>6 DEF TurnConfirmed, is_confirmation_message
  <2> QED BY <1>1, <1>2, <1>4, <2>3, <2>4, <2>7, ConfirmStep
<1>9. CASE EnterConfirmedInput(p)
  <2> DEFINE a == pending_from_input(c.input, FALSE)
             s == save_waiting_confirmation_state(Consumed(c), a)
             t == [turn[p] EXCEPT !.pc = "confirm_input", !.ctx = s]
  <2>1. s.input = NoInput
    BY <1>2, <1>3, InputFields, InputKept
  <2>2. s.state.held = a /\ a.id = c.input.id
    BY <1>3 DEF save_waiting_confirmation_state, pending_from_input, Sessions
  <2>3. c.input.id \in confirmed
    BY <1>2, <1>9 DEF EnterConfirmedInput, InputConfirmed
  <2>4. InputConfirmed(s, confirmed)
    BY <2>1, NoInputConfirmed
  <2>5. Save(p, s) /\ turn' = [turn EXCEPT ![p] = t]
    BY <1>9 DEF EnterConfirmedInput, Goto
  <2>6. InputConfirmed(session', confirmed)
    BY <2>4, <2>5, SaveConfirmed
  <2>7. t.ctx = s /\ t.buf = turn[p].buf /\ t.pc = "confirm_input"
        /\ t.granted = turn[p].granted /\ t.conf = turn[p].conf
    BY <1>2 DEF Turns
  <2>8. TurnConfirmed(t, confirmed, lapsed)
    BY <1>2, <2>2, <2>3, <2>4, <2>7 DEF TurnConfirmed
  <2> QED BY <1>1, <1>2, <1>4, <2>5, <2>6, <2>8, ConfirmStep
<1>10. CASE ConfirmInput(p)
  <2> DEFINE s == mark_runtime_action_confirmed(c)
             t == [turn[p] EXCEPT !.pc = "route", !.msg = "confirm", !.ctx = s]
  <2>1. s.input = c.input
    BY <1>2, ConstantsTyped, InputKept
  <2>2. InputConfirmed(s, confirmed)
    BY <1>2, <2>1 DEF InputConfirmed
  <2>3. s.state.act = "confirmed" /\ s.state.held = c.state.held
    BY <1>2 DEF mark_runtime_action_confirmed, WithAction, Sessions, States
  <2>4. c.state.held.id \in confirmed
    BY <1>2, <1>10 DEF ConfirmInput, At, TurnConfirmed
  <2>5. PendingConfirmed(s, confirmed, lapsed)
    BY <2>3, <2>4 DEF PendingConfirmed, pending_action
  <2>6. Save(p, s) /\ turn' = [turn EXCEPT ![p] = t]
    BY <1>10 DEF ConfirmInput
  <2>7. InputConfirmed(session', confirmed)
    BY <2>2, <2>6, SaveConfirmed
  <2>8. t.ctx = s /\ t.buf = turn[p].buf /\ t.pc = "route" /\ t.msg = "confirm"
        /\ t.granted = turn[p].granted /\ t.conf = turn[p].conf
    BY <1>2 DEF Turns
  <2>9. TurnConfirmed(t, confirmed, lapsed)
    BY <1>2, <2>2, <2>5, <2>8 DEF TurnConfirmed
  <2> QED BY <1>1, <1>2, <1>4, <2>6, <2>7, <2>9, ConfirmStep
<1>11. CASE EnterPlainInput(p)
  BY <1>2, <1>11 DEF EnterPlainInput, InputConfirmed
<1> QED BY <1>5, <1>6, <1>7, <1>8, <1>9, <1>10, <1>11 DEF EnterStep

LEMMA RouteStepConfirmed ==
    ASSUME ConfirmInv, NEW p \in Workers, RouteStep(p)
    PROVE  ConfirmInv'
<1> DEFINE c == turn[p].ctx
           a == pending_action(c)
<1>1. TypeOK /\ TypeOK'
  BY RouteStepTyped DEF ConfirmInv
<1>2. /\ TurnConfirmed(turn[p], confirmed, lapsed) /\ turn[p] \in Turns
      /\ c \in Sessions /\ a \in Payloads /\ waiting_input_action(c) \in Payloads
      /\ InputConfirmed(c, confirmed) /\ InputConfirmed(turn[p].buf, confirmed)
      /\ InputConfirmed(session, confirmed) /\ submitted \subseteq confirmed
  BY <1>1, TurnFields, SessionFields DEF ConfirmInv, ConfirmedWrites, TurnConfirmed
<1>3. with_user_input(waiting_input_action(c)) \in Payloads
  BY <1>2, PayloadFields
<1>4. UNCHANGED <<lapsed, confirmed, submitted>>
  BY DEF RouteStep, CancelWaitingInput, PromptStarted, PromptAgain, FillInput, ConfirmNothing,
     CancelPending, ConfirmExpired, ConfirmGuarded, ConfirmPending, PassToPlanner, history
<1>5. /\ InputConfirmed(mark_terminal(c, "cancelled"), confirmed)
      /\ InputConfirmed(mark_terminal(c, "stale"), confirmed)
      /\ InputConfirmed(mark_runtime_action_done(c, FALSE), confirmed)
      /\ InputConfirmed(mark_runtime_action_confirmed(c), confirmed)
      /\ InputConfirmed([c EXCEPT !.started = FALSE], confirmed)
      /\ InputConfirmed(mark_runtime_action_waiting_confirmation(
                           c, with_user_input(waiting_input_action(c))), confirmed)
  BY <1>2, <1>3, InputKept DEF InputConfirmed
<1>6. CASE CancelWaitingInput(p)
  BY <1>1, <1>4, <1>5, <1>6, SaveConfirmed, AnswerConfirmed DEF CancelWaitingInput
<1>7. CASE PromptStarted(p)
  BY <1>1, <1>4, <1>5, <1>7, SaveConfirmed, AnswerConfirmed DEF PromptStarted
<1>8. CASE PromptAgain(p)
  BY <1>1, <1>2, <1>4, <1>8, AnswerConfirmed DEF PromptAgain
<1>9. CASE FillInput(p)
  BY <1>1, <1>4, <1>5, <1>9, SaveConfirmed, AnswerConfirmed DEF FillInput
<1>10. CASE ConfirmNothing(p)
  BY <1>1, <1>2, <1>4, <1>10, AnswerConfirmed DEF ConfirmNothing
<1>11. CASE CancelPending(p)
  BY <1>1, <1>2, <1>4, <1>5, <1>11, SaveConfirmed, AnswerConfirmed DEF CancelPending
<1>12. CASE ConfirmExpired(p)
  BY <1>1, <1>2, <1>4, <1>5, <1>12, SaveConfirmed, AnswerConfirmed DEF ConfirmExpired
<1>13. CASE ConfirmGuarded(p)
  BY <1>1, <1>2, <1>4, <1>5, <1>13, SaveConfirmed, AnswerConfirmed DEF ConfirmGuarded
<1>14. CASE ConfirmPending(p)
  <2> DEFINE s == IF latest_action_exists(c) THEN mark_runtime_action_confirmed(c) ELSE c
             t == [turn[p] EXCEPT !.pc = "plan", !.msg = a.message, !.conf = a,
                                  !.granted = TRUE, !.ctx = WithoutPending(s)]
  <2>1. s \in Sessions /\ InputConfirmed(s, confirmed)
    BY <1>2, <1>5, ConstantsTyped, StateOperationsTyped
  <2>2. InputConfirmed(WithoutPending(s), confirmed)
    BY <2>1, ConstantsTyped, InputKept DEF InputConfirmed
  <2>3. InputConfirmed(session', confirmed)
    BY <1>2, <1>14, <2>1, SaveConfirmed DEF ConfirmPending
  <2>4. turn' = [turn EXCEPT ![p] = t]
    BY <1>14 DEF ConfirmPending
  <2>5. a.id \in confirmed
    BY <1>2, <1>14 DEF ConfirmPending, Confirms, Routes, HasPending, At, TurnConfirmed,
        PendingConfirmed, pending_action_expired
  <2>6. t.ctx = WithoutPending(s) /\ t.buf = turn[p].buf /\ t.pc = "plan"
        /\ t.granted = TRUE /\ t.conf = a
    BY <1>2 DEF Turns
  <2>7. TurnConfirmed(t, confirmed, lapsed)
    BY <1>2, <2>2, <2>5, <2>6 DEF TurnConfirmed
  <2> QED BY <1>1, <1>2, <1>4, <2>3, <2>4, <2>7, ConfirmStep
<1>15. CASE PassToPlanner(p)
  <2> DEFINE t == [turn[p] EXCEPT !.pc = "plan", !.ctx = c]
  <2>1. turn' = [turn EXCEPT ![p] = t] /\ session' = session
    BY <1>15 DEF PassToPlanner, Goto
  <2>2. turn[p].chat
    BY <1>2, <1>15 DEF PassToPlanner, Routes, At, TurnConfirmed, is_confirmation_message,
        is_standalone_confirmation_message
  <2>3. t.ctx = c /\ t.buf = turn[p].buf /\ t.pc = "plan" /\ t.chat = turn[p].chat
        /\ t.granted = turn[p].granted /\ t.conf = turn[p].conf
    BY <1>2 DEF Turns
  <2>4. TurnConfirmed(t, confirmed, lapsed)
    BY <1>2, <2>2, <2>3 DEF TurnConfirmed
  <2> QED BY <1>1, <1>2, <1>4, <2>1, <2>4, ConfirmStep
<1> QED BY <1>6, <1>7, <1>8, <1>9, <1>10, <1>11, <1>12, <1>13, <1>14, <1>15 DEF RouteStep

LEMMA ExecuteStepConfirmed ==
    ASSUME ConfirmInv, NEW p \in Workers, ExecuteStep(p)
    PROVE  ConfirmInv'
<1> DEFINE c == turn[p].ctx
           ok == turn[p].ok
<1>1. TypeOK /\ TypeOK'
  BY ExecuteStepTyped DEF ConfirmInv
<1>2. /\ TurnConfirmed(turn[p], confirmed, lapsed) /\ turn[p] \in Turns
      /\ c \in Sessions /\ ok \in BOOLEAN
      /\ InputConfirmed(c, confirmed) /\ InputConfirmed(turn[p].buf, confirmed)
      /\ InputConfirmed(session, confirmed) /\ submitted \subseteq confirmed
  BY <1>1, TurnFields DEF ConfirmInv, ConfirmedWrites, TurnConfirmed
<1>3. /\ InputConfirmed(mark_runtime_action_executing(c), confirmed)
      /\ InputConfirmed(mark_runtime_action_done(c, ok), confirmed)
      /\ InputConfirmed(save_runtime_task_execution_state(c, ok), confirmed)
      /\ InputConfirmed([c EXCEPT !.state = TaskState(ok)], confirmed)
  BY <1>2, ConstantsTyped, InputKept DEF InputConfirmed
<1>4. CASE AnswerFollowup(p)
  BY <1>1, <1>2, <1>4, AnswerConfirmed DEF AnswerFollowup, history
<1>5. CASE AnswerWithoutExecution(p)
  BY <1>1, <1>2, <1>5, AnswerConfirmed DEF AnswerWithoutExecution, history
<1>6. CASE RequestConfirmation(p)
  <2> DEFINE a == [id |-> nextId, message |-> turn[p].msg, strategy |-> turn[p].msg,
                   ttl |-> TRUE, missing |-> FALSE]
  <2>1. save_waiting_confirmation_state(c, a).input = c.input
    BY <1>2 DEF save_waiting_confirmation_state, Sessions
  <2>2. InputConfirmed(save_waiting_confirmation_state(c, a), confirmed)
    BY <1>2, <2>1 DEF InputConfirmed
  <2>3. Save(p, save_waiting_confirmation_state(c, a)) /\ Answer(p, "note")
        /\ UNCHANGED <<lapsed, confirmed, submitted>>
    BY <1>6 DEF RequestConfirmation, history
  <2> QED BY <1>1, <2>2, <2>3, SaveConfirmed, AnswerConfirmed
<1>7. CASE BeginExecution(p)
  <2>1. PICK s : /\ s \in {c, mark_runtime_action_executing(c)}
                 /\ turn' = [turn EXCEPT ![p] = [@ EXCEPT !.pc = "execute", !.ctx = s]]
                 /\ InputConfirmed(session', confirmed)
    BY <1>2, <1>3, <1>7, SaveConfirmed DEF BeginExecution, Goto
  <2> DEFINE t == [turn[p] EXCEPT !.pc = "execute", !.ctx = s]
  <2>2. UNCHANGED <<lapsed, confirmed, submitted>>
    BY <1>7 DEF BeginExecution, history
  <2>3. t.ctx = s /\ t.buf = turn[p].buf /\ t.pc = "execute" /\ t.msg = turn[p].msg
        /\ t.chat = turn[p].chat /\ t.granted = turn[p].granted /\ t.conf = turn[p].conf
    BY <1>2 DEF Turns
  <2>4. turn[p].chat \/ turn[p].granted
    BY <1>2, <1>7 DEF BeginExecution, At, TurnConfirmed
  <2>5. turn[p].msg \in Strategies => turn[p].granted
    BY <1>7, <2>4 DEF BeginExecution, should_request_confirmation, requires_confirmation
  <2>6. TurnConfirmed(t, confirmed, lapsed)
    BY <1>2, <1>3, <2>1, <2>3, <2>4, <2>5 DEF TurnConfirmed
  <2> QED BY <1>1, <1>2, <2>1, <2>2, <2>6, ConfirmStep
<1>8. CASE \E success \in BOOLEAN : Execute(p, success)
  <2>1. PICK success \in BOOLEAN : Execute(p, success)
    BY <1>8
  <2> DEFINE t == [turn[p] EXCEPT !.pc = "settle", !.ok = success]
  <2>2. turn' = [turn EXCEPT ![p] = t] /\ session' = session
        /\ UNCHANGED <<lapsed, confirmed>>
    BY <2>1 DEF Execute
  <2>3. t.ctx = c /\ t.buf = turn[p].buf /\ t.pc = "settle"
        /\ t.granted = turn[p].granted /\ t.conf = turn[p].conf
    BY <1>2 DEF Turns
  <2>4. TurnConfirmed(t, confirmed, lapsed)
    BY <1>2, <2>3 DEF TurnConfirmed
  <2>5. Submits(p) => turn[p].conf.id \in confirmed
    BY <1>2 DEF Submits, At, TurnConfirmed
  <2>6. submitted' \subseteq confirmed'
    BY <1>2, <2>1, <2>2, <2>5 DEF Execute
  <2> QED BY <1>1, <1>2, <2>2, <2>4, <2>6, ConfirmStep
<1>9. CASE SettleAction(p)
  <2>1. InputConfirmed(session', confirmed)
    BY <1>2, <1>3, <1>9, SaveConfirmed DEF SettleAction
  <2>2. Answer(p, "note") /\ UNCHANGED <<lapsed, confirmed, submitted>>
    BY <1>9 DEF SettleAction, history
  <2> QED BY <1>1, <2>1, <2>2, AnswerConfirmed
<1>10. CASE SettleTask(p)
  <2>1. InputConfirmed(session', confirmed)
    BY <1>3, <1>10, SaveConfirmed DEF SettleTask
  <2>2. Answer(p, "note") \/ AnswerKeeping(p, [c EXCEPT !.state = TaskState(ok)])
    BY <1>10 DEF SettleTask
  <2>3. UNCHANGED <<lapsed, confirmed, submitted>>
    BY <1>10 DEF SettleTask, history
  <2> QED BY <1>1, <1>3, <2>1, <2>2, <2>3, AnswerConfirmed
<1> QED BY <1>4, <1>5, <1>6, <1>7, <1>8, <1>9, <1>10 DEF ExecuteStep

\* Loading the session into the buffer, or setting the buffer aside
LEMMA BufferConfirmed ==
    ASSUME ConfirmInv, TypeOK', NEW p \in Workers,
           NEW pc \in {"note_save", "sync", "clean_save", "trace_save"},
           NEW b, InputConfirmed(b, confirmed),
           turn' = [turn EXCEPT ![p] = [@ EXCEPT !.pc = pc, !.buf = b]],
           InputConfirmed(session', confirmed),
           UNCHANGED <<lapsed, confirmed, submitted>>
    PROVE  ConfirmInv'
<1> DEFINE t == [turn[p] EXCEPT !.pc = pc, !.buf = b]
<1>1. TurnConfirmed(turn[p], confirmed, lapsed) /\ turn[p] \in Turns
  BY TurnFields DEF ConfirmInv
<1>2. t.ctx = turn[p].ctx /\ t.buf = b /\ t.pc = pc
      /\ t.granted = turn[p].granted /\ t.conf = turn[p].conf
  BY <1>1 DEF Turns
<1>3. TurnConfirmed(t, confirmed, lapsed)
  BY <1>1, <1>2 DEF TurnConfirmed
<1> QED BY <1>3, ConfirmStep DEF ConfirmInv, ConfirmedWrites

LEMMA AfterNoteConfirmed ==
    ASSUME ConfirmInv, TypeOK', NEW p \in Workers, AfterNote(p),
           InputConfirmed(session', confirmed), UNCHANGED <<lapsed, confirmed, submitted>>
    PROVE  ConfirmInv'
BY BufferConfirmed, EmptyConfirmed, AnswerConfirmed DEF AfterNote

LEMMA FinishStepConfirmed ==
    ASSUME ConfirmInv, NEW p \in Workers, FinishStep(p)
    PROVE  ConfirmInv'
<1>1. TypeOK /\ TypeOK'
  BY FinishStepTyped DEF ConfirmInv
<1>2. /\ InputConfirmed(session, confirmed) /\ InputConfirmed(turn[p].buf, confirmed)
      /\ InputConfirmed(turn[p].ctx, confirmed) /\ session \in Sessions
  BY <1>1 DEF ConfirmInv, TurnConfirmed, TypeOK
<1>3. ASSUME NEW s \in Loaded
      PROVE  InputConfirmed(s, confirmed) /\ InputConfirmed(Cleaned(s), confirmed)
  <2>1. s \in Sessions /\ InputConfirmed(s, confirmed)
    BY <1>1, <1>2, LoadedTyped, EmptyConfirmed DEF Loaded
  <2> QED BY <2>1 DEF InputConfirmed, Cleaned, Sessions
<1>4. session' \in Saved(turn[p].buf) => InputConfirmed(session', confirmed)
  BY <1>2 DEF Saved
<1>5. UNCHANGED <<lapsed, confirmed, submitted>>
  BY DEF FinishStep, Note, NoteSave, Sync, Clean, CleanSave, Trace, TraceSave, history
<1>6. CASE Note(p)
  BY <1>1, <1>2, <1>3, <1>5, <1>6, BufferConfirmed, AfterNoteConfirmed DEF Note
<1>7. CASE NoteSave(p)
  BY <1>1, <1>4, <1>5, <1>7, AfterNoteConfirmed DEF NoteSave
<1>8. CASE Sync(p)
  BY <1>1, <1>2, <1>5, <1>8, SaveConfirmed, AnswerConfirmed DEF Sync
<1>9. CASE Clean(p)
  BY <1>1, <1>2, <1>3, <1>5, <1>9, BufferConfirmed, AnswerConfirmed DEF Clean
<1>10. CASE CleanSave(p)
  BY <1>1, <1>4, <1>5, <1>10, AnswerConfirmed DEF CleanSave
<1>11. CASE Trace(p)
  BY <1>1, <1>2, <1>3, <1>5, <1>11, BufferConfirmed DEF Trace
<1>12. CASE TraceSave(p)
  BY <1>1, <1>4, <1>5, <1>12, AnswerConfirmed DEF TraceSave
<1> QED BY <1>6, <1>7, <1>8, <1>9, <1>10, <1>11, <1>12 DEF FinishStep

\* A turn that could not load the session has nothing pending.
LEMMA EmptyPending ==
    ASSUME NEW C, NEW L
    PROVE  PendingConfirmed(EmptySession, C, L)
<1>1. pending_action(EmptySession).id = 0
  BY DEF pending_action, EmptySession, NoPayload, NoState
<1> QED BY <1>1 DEF PendingConfirmed

\* A turn starts: what it carries and what its message confirms is confirmed.
LEMMA StartConfirmed ==
    ASSUME ConfirmInv, TypeOK', NEW p \in Workers, NEW m, NEW chat, NEW bot, NEW c,
           Start(p, m, chat, bot, c), session' = session,
           confirmed \subseteq confirmed', lapsed' = lapsed, submitted' = submitted,
           InputConfirmed(c, confirmed'),
           chat \/ c.input.kind = "confirmed",
           c.input.kind = "none" /\ is_confirmation_message(m)
             => PendingConfirmed(c, confirmed', lapsed')
    PROVE  ConfirmInv'
<1> DEFINE t == [Idle EXCEPT !.pc = "entry", !.msg = m, !.chat = chat, !.bot = bot, !.ctx = c]
<1>1. turn' = [turn EXCEPT ![p] = t]
  BY DEF Start
<1>2. t.ctx = c /\ t.buf = EmptySession /\ t.pc = "entry" /\ t.msg = m /\ t.chat = chat
      /\ t.granted = FALSE
  BY DEF Idle
<1>3. TurnConfirmed(t, confirmed', lapsed')
  BY <1>2, EmptyConfirmed DEF TurnConfirmed
<1>4. InputConfirmed(session', confirmed') /\ submitted' \subseteq confirmed'
  BY DEF ConfirmInv, InputConfirmed, ConfirmedWrites
<1> QED BY <1>1, <1>3, <1>4, ConfirmStep

LEMMA ArriveConfirmed ==
    ASSUME OnlyConfirmedRequests, ConfirmInv, NEW p \in Workers, Arrive(p)
    PROVE  ConfirmInv'
<1>1. TypeOK /\ TypeOK'
  BY ArriveTyped DEF ConfirmInv
<1>2. session \in Sessions /\ InputConfirmed(session, confirmed)
  BY <1>1 DEF ConfirmInv, TypeOK
<1>3. CASE \E m \in Texts : ReceiveMessage(p, m)
  <2>1. PICK m \in Texts : ReceiveMessage(p, m)
    BY <1>3
  <2>2. PICK s \in Loaded : Start(p, m, TRUE, TRUE, s)
    BY <2>1 DEF ReceiveMessage
  <2>3. /\ confirmed' = confirmed \cup ConfirmedBy(m)
        /\ session' = session /\ lapsed' = lapsed /\ submitted' = submitted
    BY <2>1 DEF ReceiveMessage
  <2>4. pending_action(session).id \in Ids \cup {0}
    BY <1>2, SessionFields, PayloadFields
  <2>5. is_confirmation_message(m) => PendingConfirmed(session, confirmed', lapsed')
    BY <2>3, <2>4 DEF PendingConfirmed, ConfirmedBy, pending_action_expired
  <2>6. InputConfirmed(session, confirmed')
    BY <1>2, <2>3 DEF InputConfirmed
  <2>7. InputConfirmed(s, confirmed')
        /\ (is_confirmation_message(m) => PendingConfirmed(s, confirmed', lapsed'))
    BY <2>5, <2>6, EmptyConfirmed, EmptyPending DEF Loaded
  <2> QED BY <1>1, <2>2, <2>3, <2>7, StartConfirmed
<1>4. CASE \E m \in {"approve", "reject"}, r \in PortalRequests, id \in Ids :
              PortalAction(p, m, r, id)
  <2>1. PICK m \in {"approve", "reject"}, r \in PortalRequests, id \in Ids :
              PortalAction(p, m, r, id)
    BY <1>4
  <2> DEFINE i == [kind |-> IF r.confirm THEN "confirmed" ELSE "plain",
                   id |-> id, message |-> m, strategy |-> m]
             base == IF r.chat THEN Loaded ELSE {EmptySession}
  <2>2. r.confirm
    BY DEF OnlyConfirmedRequests
  <2>3. /\ \E s \in base : Start(p, m, r.chat, FALSE, [s EXCEPT !.input = i])
        /\ confirmed' = confirmed \cup {id}
        /\ session' = session /\ lapsed' = lapsed /\ submitted' = submitted
    BY <2>1, <2>2 DEF PortalAction
  <2>4. PICK s \in base : Start(p, m, r.chat, FALSE, [s EXCEPT !.input = i])
    BY <2>3
  <2> DEFINE c == [s EXCEPT !.input = i]
  <2>5. s \in Sessions
    BY <1>1, LoadedTyped, ConstantsTyped
  <2>6. c.input = i
    BY <2>5 DEF Sessions
  <2>7. i.kind = "confirmed" /\ i.id = id
    BY <2>2
  <2>8. c.input.kind = "confirmed" /\ c.input.id = id
    BY <2>6, <2>7
  <2>9. InputConfirmed(c, confirmed')
    BY <2>3, <2>8 DEF InputConfirmed
  <2> QED BY <1>1, <2>3, <2>4, <2>8, <2>9, StartConfirmed
<1>5. CASE PortalQuery(p)
  <2>1. /\ Start(p, "query", TRUE, FALSE, EmptySession)
        /\ session' = session /\ UNCHANGED <<lapsed, confirmed, submitted>>
    BY <1>5 DEF PortalQuery, history
  <2>2. InputConfirmed(EmptySession, confirmed')
    BY EmptyConfirmed
  <2>3. ~is_confirmation_message("query")
    BY DEF is_confirmation_message
  <2> QED BY <1>1, <2>1, <2>2, <2>3, StartConfirmed
<1> QED BY <1>3, <1>4, <1>5 DEF Arrive

LEMMA EnvironmentConfirmed ==
    ASSUME ConfirmInv, Environment
    PROVE  ConfirmInv'
<1>1. TypeOK'
  BY EnvironmentTyped DEF ConfirmInv
<1>2. CASE \E p \in Workers : Crash(p)
  <2>1. PICK p \in Workers : Crash(p)
    BY <1>2
  <2>2. Leave(p) /\ session' = session /\ UNCHANGED <<lapsed, confirmed, submitted>>
    BY <2>1 DEF Crash, history
  <2> QED BY <1>1, <2>2, AnswerConfirmed DEF ConfirmInv
<1>3. CASE (\E id \in Ids : Lapse(id)) \/ ExpireSession
  <2>1. turn' = turn /\ lapsed \subseteq lapsed' /\ UNCHANGED <<confirmed, submitted>>
    BY <1>3 DEF Lapse, ExpireSession, history, ConfirmInv, TypeOK, Ids
  <2>2. InputConfirmed(session', confirmed')
    BY <1>3, <2>1, EmptyConfirmed DEF Lapse, ExpireSession, ConfirmInv
  <2>3. \A p \in Workers : TurnConfirmed(turn[p], confirmed, lapsed')
    BY <2>1, ConfirmedMonotone DEF ConfirmInv
  <2> QED BY <1>1, <2>1, <2>2, <2>3 DEF ConfirmInv, ConfirmedWrites
<1> QED BY <1>2, <1>3 DEF Environment

LEMMA ConfirmInit ==
    ASSUME Init
    PROVE  ConfirmInv
<1>1. InputConfirmed(session, confirmed)
  <2>1. PICK i \in InputsLeft \cup {NoInput} : session = [EmptySession EXCEPT !.input = i]
    BY DEF Init
  <2>2. session.input = i
    BY <2>1 DEF EmptySession
  <2>3. i.kind \notin {"confirmed", "plain"}
    BY RuntimeAssumption DEF NoInput
  <2> QED BY <2>2, <2>3 DEF InputConfirmed
<1>2. \A p \in Workers : TurnConfirmed(turn[p], confirmed, lapsed)
  BY EmptyConfirmed DEF Init
<1> QED BY <1>1, <1>2, InitTyped DEF Init, ConfirmInv, ConfirmedWrites

LEMMA ConfirmNext ==
    ASSUME OnlyConfirmedRequests, ConfirmInv, [Next]_vars
    PROVE  ConfirmInv'
<1>1. CASE \E p \in Workers : Arrive(p) \/ TurnStep(p)
  BY <1>1, ArriveConfirmed, EnterStepConfirmed, RouteStepConfirmed, ExecuteStepConfirmed,
     FinishStepConfirmed DEF TurnStep
<1>2. CASE Environment
  BY <1>2, EnvironmentConfirmed
<1>3. CASE UNCHANGED vars
  BY <1>3 DEF vars, history, ConfirmInv, TypeOK, ConfirmedWrites
<1> QED BY <1>1, <1>2, <1>3 DEF Next

\* When every request of the portal is confirmed by its user, no write reaches the
\* provider under an id that its user did not confirm: for any number of
\* concurrent workers, crashes and expiries (the gate of run_runtime_v5).
THEOREM WritesAreConfirmed ==
    ASSUME OnlyConfirmedRequests
    PROVE  Spec => []ConfirmedWrites
<1>1. Init => ConfirmInv
  BY ConfirmInit
<1>2. ConfirmInv /\ [Next]_vars => ConfirmInv'
  BY ConfirmNext
<1>3. ConfirmInv => ConfirmedWrites
  BY DEF ConfirmInv
<1> QED BY <1>1, <1>2, <1>3, PTL DEF Spec

-----------------------------------------------------------------------------
(* The turns implement WriteGate.  Every step but an arrival and an execution *)
(* leaves the two sets alone.                                                 *)

LEMMA ArriveConfirmsOne ==
    ASSUME NEW p \in Workers, Arrive(p)
    PROVE  [Gate!Confirm]_<<confirmed, submitted>>
<1>1. CASE \E m \in Texts : ReceiveMessage(p, m)
  <2>1. PICK m \in Texts : ReceiveMessage(p, m)
    BY <1>1
  <2>2. confirmed' = confirmed \cup ConfirmedBy(m) /\ submitted' = submitted
    BY <2>1 DEF ReceiveMessage
  <2>3. \/ ConfirmedBy(m) = {}
        \/ \E id \in Ids : ConfirmedBy(m) = {id}
    BY DEF ConfirmedBy
  <2> QED BY <2>2, <2>3 DEF Gate!Confirm
<1>2. CASE \E m \in {"approve", "reject"}, r \in PortalRequests, id \in Ids :
              PortalAction(p, m, r, id)
  BY <1>2 DEF PortalAction, Gate!Confirm
<1>3. CASE PortalQuery(p)
  BY <1>3 DEF PortalQuery, history
<1> QED BY <1>1, <1>2, <1>3 DEF Arrive

LEMMA EnterAndRouteKeepHistory ==
    ASSUME NEW p \in Workers, EnterStep(p) \/ RouteStep(p) \/ FinishStep(p)
    PROVE  UNCHANGED <<confirmed, submitted>>
<1>1. CASE EnterStep(p)
  BY <1>1 DEF EnterStep, EnterWithoutInput, RejectInput, EnterMissingInput, EnterCancelInput,
     EnterConfirmedInput, ConfirmInput, EnterPlainInput, history
<1>2. CASE RouteStep(p)
  BY <1>2 DEF RouteStep, CancelWaitingInput, PromptStarted, PromptAgain, FillInput,
     ConfirmNothing, CancelPending, ConfirmExpired, ConfirmGuarded, ConfirmPending,
     PassToPlanner, history
<1>3. CASE FinishStep(p)
  BY <1>3 DEF FinishStep, Note, NoteSave, Sync, Clean, CleanSave, Trace, TraceSave, history
<1> QED BY <1>1, <1>2, <1>3

\* What is submitted in a step was confirmed before the step: ConfirmInv' says
\* that it is confirmed after it, and the step confirms nothing.
LEMMA ExecuteSubmitsConfirmed ==
    ASSUME NEW p \in Workers, ExecuteStep(p), ConfirmInv'
    PROVE  [Gate!Submit]_<<confirmed, submitted>>
<1>1. CASE \E success \in BOOLEAN : Execute(p, success)
  <2>1. confirmed' = confirmed
        /\ (submitted' = submitted \/ submitted' = submitted \cup {turn[p].conf.id})
    BY <1>1 DEF Execute
  <2>2. submitted' \subseteq confirmed'
    BY DEF ConfirmInv, ConfirmedWrites
  <2> QED BY <2>1, <2>2 DEF Gate!Submit
<1>2. CASE \/ AnswerFollowup(p) \/ AnswerWithoutExecution(p) \/ RequestConfirmation(p)
           \/ BeginExecution(p) \/ SettleAction(p) \/ SettleTask(p)
  BY <1>2 DEF AnswerFollowup, AnswerWithoutExecution, RequestConfirmation, BeginExecution,
     SettleAction, SettleTask, history
<1> QED BY <1>1, <1>2 DEF ExecuteStep

LEMMA EnvironmentKeepsHistory ==
    ASSUME Environment
    PROVE  UNCHANGED <<confirmed, submitted>>
BY DEF Environment, Crash, Lapse, ExpireSession, history

\* With confirmed requests, run_runtime_v5 implements the abstract gate for any
\* number of workers: an action is submitted in a step only if an earlier step
\* confirmed it, and neither set ever shrinks.
THEOREM TurnsImplementGate ==
    ASSUME OnlyConfirmedRequests
    PROVE  Spec => GateImplemented
<1>1. Init => ConfirmInv /\ Gate!Init
  BY ConfirmInit DEF Init, Gate!Init
<1>2. ConfirmInv /\ [Next]_vars => ConfirmInv'
  BY ConfirmNext
<1>3. ConfirmInv /\ ConfirmInv' /\ [Next]_vars => [Gate!Next]_(Gate!gateVars)
  <2> SUFFICES ASSUME ConfirmInv, ConfirmInv', [Next]_vars PROVE [Gate!Next]_(Gate!gateVars)
    OBVIOUS
  <2>1. CASE \E p \in Workers : Arrive(p) \/ TurnStep(p)
    <3>1. PICK p \in Workers : Arrive(p) \/ TurnStep(p)
      BY <2>1
    <3>2. CASE Arrive(p)
      BY <3>2, ArriveConfirmsOne DEF Gate!Next, Gate!gateVars
    <3>3. CASE EnterStep(p) \/ RouteStep(p) \/ FinishStep(p)
      BY <3>3, EnterAndRouteKeepHistory DEF Gate!gateVars
    <3>4. CASE ExecuteStep(p)
      BY <3>4, ExecuteSubmitsConfirmed DEF Gate!Next, Gate!gateVars
    <3> QED BY <3>1, <3>2, <3>3, <3>4 DEF TurnStep
  <2>2. CASE Environment
    BY <2>2, EnvironmentKeepsHistory DEF Gate!gateVars
  <2>3. CASE UNCHANGED vars
    BY <2>3 DEF vars, history, Gate!gateVars
  <2> QED BY <2>1, <2>2, <2>3 DEF Next
<1> QED BY <1>1, <1>2, <1>3, PTL DEF Spec, GateImplemented, Gate!Spec

-----------------------------------------------------------------------------
(* The task and its latest action agree: in the session, in every copy of it   *)
(* that may be stored whole, and in what each operation makes of one.          *)

Agrees(s) ==
    LET t == s.state.task
        a == s.state.act
    IN /\ a \in {"waiting_input", "waiting_confirmation"} <=> t = "waiting"
       /\ a \in {"confirmed", "executing"} <=> t = "running"
       /\ a = "done" => t = "done"
       /\ a \in {"failed", "cancelled", "stale"} => t = "failed"

AgreeInv ==
    /\ TypeOK
    /\ Agrees(session)
    /\ \A p \in Workers : Agrees(turn[p].ctx) /\ Agrees(turn[p].buf)

LEMMA SameStateAgrees ==
    ASSUME NEW s, NEW r, Agrees(s), r.state = s.state
    PROVE  Agrees(r)
BY DEF Agrees

LEMMA EmptyAgrees ==
    /\ Agrees(EmptySession) /\ Agrees(Idle.ctx) /\ Agrees(Idle.buf)
    /\ \A i : Agrees([EmptySession EXCEPT !.input = i])
BY DEF Agrees, EmptySession, NoState, Idle

\* Every operation that changes the state sets both statuses, whatever it reads.
LEMMA WithActionAgrees ==
    ASSUME NEW s \in Sessions
    PROVE  /\ Agrees(WithAction(s, "running", "confirmed"))
           /\ Agrees(WithAction(s, "running", "executing"))
           /\ \A act \in {"failed", "cancelled", "stale"} : Agrees(WithAction(s, "failed", act))
           /\ Agrees(WithAction(s, "done", "done"))
<1>1. ASSUME NEW t, NEW a
      PROVE  WithAction(s, t, a).state.task = t /\ WithAction(s, t, a).state.act = a
  BY DEF WithAction, Sessions, States
<1> QED BY <1>1 DEF Agrees

LEMMA OperationsAgree ==
    ASSUME NEW s \in Sessions, NEW a \in Payloads, NEW ok \in BOOLEAN,
           NEW act \in {"cancelled", "stale"}
    PROVE  /\ Agrees(save_waiting_input_state(s, a))
           /\ Agrees(save_waiting_confirmation_state(s, a))
           /\ Agrees(mark_runtime_action_waiting_confirmation(s, a))
           /\ Agrees(mark_runtime_action_confirmed(s))
           /\ Agrees(mark_runtime_action_executing(s))
           /\ Agrees(mark_runtime_action_done(s, ok))
           /\ Agrees(mark_terminal(s, act))
           /\ Agrees([s EXCEPT !.state = TaskState(ok)])
           /\ Agrees(save_runtime_task_execution_state(s, ok))
<1>1. /\ Agrees(save_waiting_input_state(s, a))
      /\ Agrees(save_waiting_confirmation_state(s, a))
      /\ Agrees(mark_runtime_action_waiting_confirmation(s, a))
  BY DEF save_waiting_input_state, save_waiting_confirmation_state,
     mark_runtime_action_waiting_confirmation, Sessions, Agrees
<1>2. /\ Agrees(mark_runtime_action_confirmed(s))
      /\ Agrees(mark_runtime_action_executing(s))
  BY WithActionAgrees DEF mark_runtime_action_confirmed, mark_runtime_action_executing
<1>3. ASSUME NEW r \in Sessions, Agrees(r)
      PROVE  Agrees(WithoutPending(r))
  <2>1. WithoutPending(r).state = r.state
    BY DEF WithoutPending, Sessions
  <2> QED BY <1>3, <2>1, SameStateAgrees
<1>4. Agrees(mark_terminal(s, act))
  <2>1. WithAction(s, "failed", act) \in Sessions
    BY WithActionTyped DEF TaskStatuses, ActionStatuses
  <2> QED BY <1>3, <2>1, WithActionAgrees DEF mark_terminal
<1>5. Agrees(mark_runtime_action_done(s, ok))
  <2>1. DoneStatus(ok) \in {"done", "failed"}
    BY DEF DoneStatus
  <2>2. WithAction(s, DoneStatus(ok), DoneStatus(ok)) \in Sessions
    BY <2>1, WithActionTyped DEF TaskStatuses, ActionStatuses
  <2>3. Agrees(WithAction(s, DoneStatus(ok), DoneStatus(ok)))
    BY <2>1, WithActionAgrees
  <2> QED BY <1>3, <2>2, <2>3 DEF mark_runtime_action_done
<1>6. Agrees([s EXCEPT !.state = TaskState(ok)])
  <2>1. [s EXCEPT !.state = TaskState(ok)].state = TaskState(ok)
    BY DEF Sessions
  <2>2. TaskState(ok).act = "none" /\ TaskState(ok).task \in {"done", "failed"}
    BY DEF TaskState, NoState, DoneStatus
  <2> QED BY <2>1, <2>2 DEF Agrees
<1>7. Agrees(save_runtime_task_execution_state(s, ok))
  BY <1>3, <1>6, StateOperationsTyped DEF save_runtime_task_execution_state
<1> QED BY <1>1, <1>2, <1>4, <1>5, <1>6, <1>7

\* What changes a session without its state
LEMMA KeysKeepState ==
    ASSUME NEW s \in Sessions
    PROVE  /\ WithoutPending(s).state = s.state /\ Consumed(s).state = s.state
           /\ Cleaned(s).state = s.state
           /\ [s EXCEPT !.started = TRUE].state = s.state
           /\ [s EXCEPT !.started = FALSE].state = s.state
           /\ \A i : [s EXCEPT !.input = i].state = s.state
BY DEF WithoutPending, Consumed, Cleaned, Sessions

LEMMA AgreeFacts ==
    ASSUME AgreeInv, NEW p \in Workers
    PROVE  /\ TypeOK /\ turn[p] \in Turns
           /\ turn[p].ctx \in Sessions /\ Agrees(turn[p].ctx)
           /\ turn[p].buf \in Sessions /\ Agrees(turn[p].buf)
           /\ session \in Sessions /\ Agrees(session)
           /\ \A s \in Loaded : s \in Sessions /\ Agrees(s)
BY TurnFields, LoadedTyped, EmptyAgrees DEF AgreeInv, TypeOK, Loaded

LEMMA AgreeStep ==
    ASSUME AgreeInv, TypeOK', NEW p \in Workers, NEW t, turn' = [turn EXCEPT ![p] = t],
           Agrees(t.ctx), Agrees(t.buf), Agrees(session')
    PROVE  AgreeInv'
<1>1. ASSUME NEW q \in Workers
      PROVE  Agrees(turn'[q].ctx) /\ Agrees(turn'[q].buf)
  <2>1. CASE q = p
    BY <2>1 DEF AgreeInv, TypeOK
  <2>2. CASE q # p
    BY <2>2 DEF AgreeInv, TypeOK
  <2> QED BY <2>1, <2>2
<1> QED BY <1>1 DEF AgreeInv

LEMMA SaveAgrees ==
    ASSUME AgreeInv, NEW p \in Workers, NEW s, Save(p, s), Agrees(s)
    PROVE  Agrees(session')
BY DEF AgreeInv, Save, Saved

\* The ways a turn moves on: to an answer, or with another session or buffer
LEMMA AnswerAgrees ==
    ASSUME AgreeInv, TypeOK', NEW p \in Workers, Agrees(session'),
           \/ \E pc : Answer(p, pc)
           \/ \E c : AnswerKeeping(p, c) /\ Agrees(c)
           \/ Leave(p) \/ AfterAnswer(p)
    PROVE  AgreeInv'
<1>1. ASSUME NEW pc, Answer(p, pc)
      PROVE  AgreeInv'
  <2> DEFINE t == [Idle EXCEPT !.pc = pc, !.chat = turn[p].chat, !.bot = turn[p].bot]
  <2>1. t.ctx = Idle.ctx /\ t.buf = Idle.buf
    BY DEF Idle
  <2>2. turn' = [turn EXCEPT ![p] = t]
    BY <1>1 DEF Answer
  <2> HIDE DEF t
  <2> QED BY <2>1, <2>2, EmptyAgrees, AgreeStep
<1>2. ASSUME NEW c, AnswerKeeping(p, c), Agrees(c)
      PROVE  AgreeInv'
  <2> DEFINE t == [Idle EXCEPT !.pc = "note", !.chat = turn[p].chat, !.bot = turn[p].bot,
                               !.syncs = TRUE, !.ctx = c]
  <2>1. t.ctx = c /\ t.buf = Idle.buf
    BY DEF Idle
  <2>2. turn' = [turn EXCEPT ![p] = t]
    BY <1>2 DEF AnswerKeeping
  <2> HIDE DEF t
  <2> QED BY <1>2, <2>1, <2>2, EmptyAgrees, AgreeStep
<1>3. ASSUME Leave(p)
      PROVE  AgreeInv'
  BY <1>3, EmptyAgrees, AgreeStep DEF Leave
<1> QED BY <1>1, <1>2, <1>3 DEF AfterAnswer

LEMMA MoveAgrees ==
    ASSUME AgreeInv, TypeOK', NEW p \in Workers, NEW pc, NEW m, NEW c,
           \/ turn' = [turn EXCEPT ![p] = [@ EXCEPT !.pc = pc, !.msg = m, !.ctx = c]]
           \/ Goto(p, pc, c),
           Agrees(c), Agrees(session')
    PROVE  AgreeInv'
<1>1. PICK t : turn' = [turn EXCEPT ![p] = t] /\ t.ctx = c /\ t.buf = turn[p].buf
  <2>1. /\ [turn[p] EXCEPT !.pc = pc, !.msg = m, !.ctx = c].ctx = c
        /\ [turn[p] EXCEPT !.pc = pc, !.msg = m, !.ctx = c].buf = turn[p].buf
        /\ [turn[p] EXCEPT !.pc = pc, !.ctx = c].ctx = c
        /\ [turn[p] EXCEPT !.pc = pc, !.ctx = c].buf = turn[p].buf
    BY AgreeFacts DEF Turns
  <2> QED BY <2>1 DEF Goto
<1> QED BY <1>1, AgreeFacts, AgreeStep

LEMMA BufferAgrees ==
    ASSUME AgreeInv, TypeOK', NEW p \in Workers, NEW pc, NEW b,
           turn' = [turn EXCEPT ![p] = [@ EXCEPT !.pc = pc, !.buf = b]],
           Agrees(b), Agrees(session')
    PROVE  AgreeInv'
<1> DEFINE t == [turn[p] EXCEPT !.pc = pc, !.buf = b]
<1>1. t.ctx = turn[p].ctx /\ t.buf = b
  BY AgreeFacts DEF Turns
<1> HIDE DEF t
<1>2. turn' = [turn EXCEPT ![p] = t]
  BY DEF t
<1> QED BY <1>1, <1>2, AgreeFacts, AgreeStep

LEMMA EnterStepAgrees ==
    ASSUME AgreeInv, NEW p \in Workers, EnterStep(p)
    PROVE  AgreeInv'
<1> DEFINE c == turn[p].ctx
           u == Consumed(c)
           made(missing) == pending_from_input(c.input, missing)
<1>1. TypeOK'
  BY EnterStepTyped DEF AgreeInv
<1>2. c \in Sessions /\ Agrees(c) /\ Agrees(session) /\ c.input \in Inputs
  BY AgreeFacts, SessionFields
<1>3. u \in Sessions /\ Agrees(u)
  <2>1. u \in Sessions /\ u.state = c.state
    BY <1>2, ConstantsTyped, StateOperationsTyped, KeysKeepState DEF Consumed
  <2> QED BY <1>2, <2>1, SameStateAgrees
<1>4. made(TRUE) \in Payloads /\ made(FALSE) \in Payloads
  BY <1>2, InputFields
<1> DEFINE waits == save_waiting_input_state(u, made(TRUE))
           asks == save_waiting_confirmation_state(u, made(FALSE))
<1>5. /\ waits \in Sessions /\ Agrees(waits) /\ Agrees(asks)
      /\ Agrees(mark_runtime_action_confirmed(c))
  BY <1>2, <1>3, <1>4, OperationsAgree, StateOperationsTyped
<1>6. CASE EnterWithoutInput(p)
  BY <1>1, <1>2, <1>6, MoveAgrees DEF EnterWithoutInput
<1>7. CASE RejectInput(p)
  <2>1. Agrees(session') /\ Answer(p, "note")
    BY <1>3, <1>7, SaveAgrees DEF RejectInput
  <2> QED BY <1>1, <2>1, AnswerAgrees
<1>8. CASE EnterMissingInput(p)
  <2>1. /\ Save(p, waits)
        /\ turn' = [turn EXCEPT ![p] = [@ EXCEPT !.pc = "route", !.msg = c.input.message,
                                                 !.ctx = [waits EXCEPT !.started = TRUE]]]
    BY <1>8 DEF EnterMissingInput
  <2> HIDE DEF waits
  <2>2. Agrees([waits EXCEPT !.started = TRUE])
    BY <1>5, KeysKeepState, SameStateAgrees
  <2>3. Agrees(session')
    BY <1>5, <2>1, SaveAgrees
  <2> QED BY <1>1, <2>1, <2>2, <2>3, MoveAgrees
<1>9. CASE EnterCancelInput(p)
  <2>1. /\ Save(p, asks)
        /\ turn' = [turn EXCEPT ![p] = [@ EXCEPT !.pc = "route", !.msg = "cancel", !.ctx = asks]]
    BY <1>9 DEF EnterCancelInput
  <2> HIDE DEF asks
  <2> QED BY <1>1, <1>5, <2>1, SaveAgrees, MoveAgrees
<1>10. CASE EnterConfirmedInput(p)
  <2>1. Save(p, asks) /\ Goto(p, "confirm_input", asks)
    BY <1>10 DEF EnterConfirmedInput
  <2> HIDE DEF asks
  <2> QED BY <1>1, <1>5, <2>1, SaveAgrees, MoveAgrees
<1>11. CASE ConfirmInput(p)
  <2> DEFINE s == mark_runtime_action_confirmed(c)
  <2>1. /\ Save(p, s)
        /\ turn' = [turn EXCEPT ![p] = [@ EXCEPT !.pc = "route", !.msg = "confirm", !.ctx = s]]
    BY <1>11 DEF ConfirmInput
  <2> HIDE DEF s
  <2>2. Agrees(s)
    BY <1>5 DEF s
  <2> QED BY <1>1, <2>1, <2>2, SaveAgrees, MoveAgrees
<1>12. CASE EnterPlainInput(p)
  <2>1. /\ session' = session
        /\ turn' = [turn EXCEPT ![p] = [@ EXCEPT !.pc = "route", !.msg = c.input.message,
                                                 !.ctx = u]]
    BY <1>12 DEF EnterPlainInput
  <2> HIDE DEF u
  <2> QED BY <1>1, <1>2, <1>3, <2>1, MoveAgrees
<1> QED BY <1>6, <1>7, <1>8, <1>9, <1>10, <1>11, <1>12 DEF EnterStep

LEMMA RouteStepAgrees ==
    ASSUME AgreeInv, NEW p \in Workers, RouteStep(p)
    PROVE  AgreeInv'
<1> DEFINE c == turn[p].ctx
           a == pending_action(c)
           filled == with_user_input(waiting_input_action(c))
<1>1. TypeOK'
  BY RouteStepTyped DEF AgreeInv
<1>2. c \in Sessions /\ Agrees(c) /\ Agrees(session) /\ filled \in Payloads
  BY AgreeFacts, SessionFields, PayloadFields
<1>3. /\ Agrees(mark_terminal(c, "cancelled")) /\ Agrees(mark_terminal(c, "stale"))
      /\ Agrees(mark_runtime_action_done(c, FALSE))
      /\ Agrees(mark_runtime_action_confirmed(c))
      /\ Agrees(mark_runtime_action_waiting_confirmation(c, filled))
  BY <1>2, OperationsAgree
<1>4. Agrees([c EXCEPT !.started = FALSE])
  BY <1>2, KeysKeepState, SameStateAgrees
<1>5. CASE \/ CancelWaitingInput(p) \/ PromptStarted(p) \/ PromptAgain(p) \/ FillInput(p)
           \/ ConfirmNothing(p) \/ CancelPending(p) \/ ConfirmExpired(p) \/ ConfirmGuarded(p)
  <2>1. \E pc : Answer(p, pc)
    BY <1>5 DEF CancelWaitingInput, PromptStarted, PromptAgain, FillInput, ConfirmNothing,
       CancelPending, ConfirmExpired, ConfirmGuarded
  <2>2. Agrees(session')
    BY <1>2, <1>3, <1>4, <1>5, SaveAgrees DEF CancelWaitingInput, PromptStarted, PromptAgain,
       FillInput, ConfirmNothing, CancelPending, ConfirmExpired, ConfirmGuarded
  <2> QED BY <1>1, <2>1, <2>2, AnswerAgrees
<1>6. CASE ConfirmPending(p)
  <2> DEFINE s == IF latest_action_exists(c) THEN mark_runtime_action_confirmed(c) ELSE c
             t == [turn[p] EXCEPT !.pc = "plan", !.msg = a.message, !.conf = a,
                                  !.granted = TRUE, !.ctx = WithoutPending(s)]
  <2>1. s \in Sessions /\ Agrees(s)
    BY <1>2, <1>3, ConstantsTyped, StateOperationsTyped
  <2>2. Agrees(WithoutPending(s))
    BY <2>1, KeysKeepState, SameStateAgrees
  <2>3. /\ session' = session \/ Save(p, s)
        /\ turn' = [turn EXCEPT ![p] = t]
    BY <1>6 DEF ConfirmPending
  <2>4. t.ctx = WithoutPending(s) /\ t.buf = turn[p].buf
    BY AgreeFacts DEF Turns
  <2>5. Agrees(session')
    BY <1>2, <2>1, <2>3, SaveAgrees
  <2> HIDE DEF t, s
  <2> QED BY <1>1, <2>2, <2>3, <2>4, <2>5, AgreeFacts, AgreeStep
<1>7. CASE PassToPlanner(p)
  BY <1>1, <1>2, <1>7, MoveAgrees DEF PassToPlanner
<1> QED BY <1>5, <1>6, <1>7 DEF RouteStep

LEMMA ExecuteStepAgrees ==
    ASSUME AgreeInv, NEW p \in Workers, ExecuteStep(p)
    PROVE  AgreeInv'
<1> DEFINE c == turn[p].ctx
           ok == turn[p].ok
<1>1. TypeOK'
  BY ExecuteStepTyped DEF AgreeInv
<1>2. c \in Sessions /\ Agrees(c) /\ Agrees(session) /\ ok \in BOOLEAN
  BY AgreeFacts, TurnFields
<1>3. /\ Agrees(mark_runtime_action_executing(c)) /\ Agrees(mark_runtime_action_done(c, ok))
      /\ Agrees(save_runtime_task_execution_state(c, ok))
      /\ Agrees([c EXCEPT !.state = TaskState(ok)])
  BY <1>2, ConstantsTyped, OperationsAgree
<1>4. CASE AnswerFollowup(p) \/ AnswerWithoutExecution(p) \/ SettleAction(p)
  <2>1. \E pc : Answer(p, pc)
    BY <1>4 DEF AnswerFollowup, AnswerWithoutExecution, SettleAction
  <2>2. Agrees(session')
    BY <1>2, <1>3, <1>4, SaveAgrees DEF AnswerFollowup, AnswerWithoutExecution, SettleAction
  <2> QED BY <1>1, <2>1, <2>2, AnswerAgrees
<1>5. CASE RequestConfirmation(p)
  <2> DEFINE a == [id |-> nextId, message |-> turn[p].msg, strategy |-> turn[p].msg,
                   ttl |-> TRUE, missing |-> FALSE]
  <2>1. Save(p, save_waiting_confirmation_state(c, a)) /\ Answer(p, "note")
    BY <1>5 DEF RequestConfirmation
  <2> HIDE DEF a
  <2>2. save_waiting_confirmation_state(c, a).state
          = [task |-> "waiting", act |-> "waiting_confirmation", held |-> a]
    BY <1>2 DEF save_waiting_confirmation_state, Sessions
  <2>3. Agrees(save_waiting_confirmation_state(c, a))
    BY <2>2 DEF Agrees
  <2> QED BY <1>1, <2>1, <2>3, SaveAgrees, AnswerAgrees
<1>6. CASE BeginExecution(p)
  <2>1. PICK s \in {c, mark_runtime_action_executing(c)} :
               Goto(p, "execute", s) /\ (session' = session \/ Save(p, s))
    BY <1>6 DEF BeginExecution
  <2>2. Agrees(s)
    BY <1>2, <1>3
  <2> QED BY <1>1, <1>2, <2>1, <2>2, SaveAgrees, MoveAgrees
<1>7. CASE \E success \in BOOLEAN : Execute(p, success)
  <2>1. PICK success \in BOOLEAN : Execute(p, success)
    BY <1>7
  <2> DEFINE t == [turn[p] EXCEPT !.pc = "settle", !.ok = success]
  <2>2. turn' = [turn EXCEPT ![p] = t] /\ session' = session
    BY <2>1 DEF Execute
  <2>3. t.ctx = c /\ t.buf = turn[p].buf
    BY AgreeFacts DEF Turns
  <2> HIDE DEF t
  <2> QED BY <1>1, <1>2, <2>2, <2>3, AgreeFacts, AgreeStep
<1>8. CASE SettleTask(p)
  <2>1. Agrees(session')
    BY <1>3, <1>8, SaveAgrees DEF SettleTask
  <2>2. Answer(p, "note") \/ AnswerKeeping(p, [c EXCEPT !.state = TaskState(ok)])
    BY <1>8 DEF SettleTask
  <2> QED BY <1>1, <1>3, <2>1, <2>2, AnswerAgrees
<1> QED BY <1>4, <1>5, <1>6, <1>7, <1>8 DEF ExecuteStep

LEMMA FinishStepAgrees ==
    ASSUME AgreeInv, NEW p \in Workers, FinishStep(p)
    PROVE  AgreeInv'
<1>1. TypeOK'
  BY FinishStepTyped DEF AgreeInv
<1>2. Agrees(session) /\ Agrees(turn[p].buf) /\ Agrees(turn[p].ctx)
  BY AgreeFacts
<1>3. \A s \in Loaded : Agrees(s) /\ Agrees(Cleaned(s))
  BY AgreeFacts, KeysKeepState, SameStateAgrees
<1>4. session' \in Saved(turn[p].buf) => Agrees(session')
  BY <1>2 DEF Saved
<1>5. ASSUME AfterNote(p), Agrees(session')
      PROVE  AgreeInv'
  BY <1>1, <1>5, BufferAgrees, EmptyAgrees, AnswerAgrees DEF AfterNote
<1>6. CASE Note(p)
  BY <1>1, <1>2, <1>3, <1>5, <1>6, BufferAgrees DEF Note
<1>7. CASE NoteSave(p)
  BY <1>4, <1>5, <1>7 DEF NoteSave
<1>8. CASE Sync(p)
  BY <1>1, <1>2, <1>8, SaveAgrees, AnswerAgrees DEF Sync
<1>9. CASE Clean(p)
  BY <1>1, <1>2, <1>3, <1>9, BufferAgrees, AnswerAgrees DEF Clean
<1>10. CASE CleanSave(p)
  BY <1>1, <1>4, <1>10, AnswerAgrees DEF CleanSave
<1>11. CASE Trace(p)
  BY <1>1, <1>2, <1>3, <1>11, BufferAgrees DEF Trace
<1>12. CASE TraceSave(p)
  BY <1>1, <1>4, <1>12, AnswerAgrees DEF TraceSave
<1> QED BY <1>6, <1>7, <1>8, <1>9, <1>10, <1>11, <1>12 DEF FinishStep

LEMMA ArriveAgrees ==
    ASSUME AgreeInv, NEW p \in Workers, Arrive(p)
    PROVE  AgreeInv'
<1>1. TypeOK' /\ session' = session /\ Agrees(session)
  BY ArriveTyped DEF AgreeInv, Arrive, ReceiveMessage, PortalAction, PortalQuery
<1>2. PICK m, chat, bot, c : Start(p, m, chat, bot, c) /\ Agrees(c)
  <2>1. CASE \E m \in Texts : ReceiveMessage(p, m)
    BY <2>1, AgreeFacts DEF ReceiveMessage
  <2>2. CASE \E m \in {"approve", "reject"}, r \in PortalRequests, id \in Ids :
                PortalAction(p, m, r, id)
    <3>1. PICK m \in {"approve", "reject"}, r \in PortalRequests, id \in Ids :
                PortalAction(p, m, r, id)
      BY <2>2
    <3> DEFINE i == [kind |-> IF r.confirm THEN "confirmed" ELSE "plain",
                     id |-> id, message |-> m, strategy |-> m]
    <3>2. PICK s \in IF r.chat THEN Loaded ELSE {EmptySession} :
               Start(p, m, r.chat, FALSE, [s EXCEPT !.input = i])
      BY <3>1 DEF PortalAction
    <3> HIDE DEF i
    <3>3. s \in Sessions /\ Agrees(s)
      BY AgreeFacts, EmptyAgrees, ConstantsTyped
    <3>4. Agrees([s EXCEPT !.input = i])
      BY <3>3, KeysKeepState, SameStateAgrees
    <3> QED BY <3>2, <3>4
  <2>3. CASE PortalQuery(p)
    BY <2>3, EmptyAgrees DEF PortalQuery
  <2> QED BY <2>1, <2>2, <2>3 DEF Arrive
<1> DEFINE t == [Idle EXCEPT !.pc = "entry", !.msg = m, !.chat = chat, !.bot = bot, !.ctx = c]
<1>3. turn' = [turn EXCEPT ![p] = t]
  BY <1>2 DEF Start
<1>4. t.ctx = c /\ t.buf = Idle.buf
  BY DEF Idle
<1> HIDE DEF t
<1> QED BY <1>1, <1>2, <1>3, <1>4, EmptyAgrees, AgreeStep

LEMMA EnvironmentAgrees ==
    ASSUME AgreeInv, Environment
    PROVE  AgreeInv'
<1>1. TypeOK'
  BY EnvironmentTyped DEF AgreeInv
<1>2. CASE \E p \in Workers : Crash(p)
  BY <1>1, <1>2, AnswerAgrees DEF Crash, AgreeInv
<1>3. CASE (\E id \in Ids : Lapse(id)) \/ ExpireSession
  BY <1>1, <1>3, EmptyAgrees DEF Lapse, ExpireSession, AgreeInv
<1> QED BY <1>2, <1>3 DEF Environment

\* Task and action agree in the session whatever turns overlap, fail to load or fail
\* to store: no operation writes one status without the other, and a turn stores
\* only sessions it loaded (runtime_state.py).
THEOREM StatusesAgree == Spec => []TaskAgreesWithAction
<1>1. Init => AgreeInv
  BY InitTyped, EmptyAgrees DEF Init, AgreeInv
<1>2. AgreeInv /\ [Next]_vars => AgreeInv'
  <2> SUFFICES ASSUME AgreeInv, [Next]_vars PROVE AgreeInv'
    OBVIOUS
  <2>1. CASE \E p \in Workers : Arrive(p) \/ TurnStep(p)
    BY <2>1, ArriveAgrees, EnterStepAgrees, RouteStepAgrees, ExecuteStepAgrees,
       FinishStepAgrees DEF TurnStep
  <2>2. CASE Environment
    BY <2>2, EnvironmentAgrees
  <2>3. CASE UNCHANGED vars
    BY <2>3 DEF vars, history, AgreeInv, TypeOK
  <2> QED BY <2>1, <2>2, <2>3 DEF Next
<1>3. AgreeInv => TaskAgreesWithAction
  BY DEF AgreeInv, Agrees, TaskAgreesWithAction
<1> QED BY <1>1, <1>2, <1>3, PTL DEF Spec

-----------------------------------------------------------------------------
(* approval_transfer and approval_add_sign never reach the provider, for   *)
(* every number of workers, ids and crashes.  The guard is one test of the *)
(* pending action's strategy; what is executed is the message stored with  *)
(* it, planned anew.  The argument is that a payload whose message asks    *)
(* for a guarded write carries a guarded strategy, wherever a session or a *)
(* copy of one has kept it.                                                *)

GuardedWrites == {"transfer", "add_sign"}

\* A payload, or an input, that would be planned as a guarded write is
\* recognised by its strategy.
Recognised(a) == a.message \in GuardedWrites => a.strategy \in GuardedWrites

SessionRecognised(s) ==
    Recognised(s.state.held) /\ Recognised(s.pending) /\ Recognised(s.input)

\* The inputs that cards have left name the strategy of their message.
InputsRecognised == \A i \in InputsLeft : Recognised(i)

TurnGuarded(t) ==
    /\ SessionRecognised(t.ctx) /\ SessionRecognised(t.buf)
    /\ IF t.granted THEN /\ t.pc \in {"plan", "execute", "settle"}
                         /\ {t.msg, t.conf.strategy} \cap GuardedWrites = {}
                    ELSE t.conf = NoPayload
    /\ ~t.chat => {t.msg, t.ctx.input.message} \cap GuardedWrites = {}
    /\ t.pc = "execute" => t.msg \notin GuardedWrites

GuardInv ==
    /\ TypeOK
    /\ SessionRecognised(session)
    /\ \A p \in Workers : TurnGuarded(turn[p])

-----------------------------------------------------------------------------
(* Operations, and what they do to a guarded payload *)

LEMMA EmptyRecognised ==
    /\ Recognised(NoPayload) /\ Recognised(NoInput)
    /\ SessionRecognised(EmptySession) /\ TurnGuarded(Idle)
BY DEF Recognised, NoPayload, NoInput, SessionRecognised, EmptySession, NoState, TurnGuarded,
    Idle, GuardedWrites

LEMMA OperationsRecognised ==
    ASSUME NEW s \in Sessions, SessionRecognised(s), NEW a \in Payloads, Recognised(a),
           NEW ok \in BOOLEAN, NEW act \in {"cancelled", "stale"}
    PROVE  /\ SessionRecognised(save_waiting_input_state(s, a))
           /\ SessionRecognised(save_waiting_confirmation_state(s, a))
           /\ SessionRecognised(mark_runtime_action_waiting_confirmation(s, a))
           /\ SessionRecognised(mark_runtime_action_confirmed(s))
           /\ SessionRecognised(mark_runtime_action_executing(s))
           /\ SessionRecognised(mark_runtime_action_done(s, ok))
           /\ SessionRecognised(mark_terminal(s, act))
           /\ SessionRecognised(save_runtime_task_execution_state(s, ok))
           /\ SessionRecognised([s EXCEPT !.state = TaskState(ok)])
           /\ SessionRecognised(WithoutPending(s))
           /\ SessionRecognised(Consumed(s))
           /\ \A b \in BOOLEAN : SessionRecognised([s EXCEPT !.started = b])
<1>1. ASSUME NEW u \in Sessions, SessionRecognised(u), NEW t \in TaskStatuses,
             NEW x \in ActionStatuses
      PROVE  SessionRecognised(WithAction(u, t, x)) /\ WithAction(u, t, x) \in Sessions
  BY <1>1, WithActionTyped DEF WithAction, Sessions, States, SessionRecognised
<1>2. ASSUME NEW u \in Sessions, SessionRecognised(u)
      PROVE  SessionRecognised(WithoutPending(u))
  BY <1>2, EmptyRecognised DEF WithoutPending, Sessions, SessionRecognised
<1>3. DoneStatus(ok) \in TaskStatuses \cap ActionStatuses
  BY DEF DoneStatus, TaskStatuses, ActionStatuses
<1>4. {"running", "failed"} \subseteq TaskStatuses
      /\ {"confirmed", "executing", "cancelled", "stale"} \subseteq ActionStatuses
  BY DEF TaskStatuses, ActionStatuses
<1>5. /\ SessionRecognised(save_waiting_input_state(s, a))
      /\ SessionRecognised(save_waiting_confirmation_state(s, a))
      /\ SessionRecognised(mark_runtime_action_waiting_confirmation(s, a))
  BY DEF save_waiting_input_state, save_waiting_confirmation_state,
     mark_runtime_action_waiting_confirmation, Sessions, SessionRecognised
<1>6. /\ SessionRecognised(mark_runtime_action_confirmed(s))
      /\ SessionRecognised(mark_runtime_action_executing(s))
  BY <1>1, <1>4 DEF mark_runtime_action_confirmed, mark_runtime_action_executing
<1>7. /\ SessionRecognised(mark_runtime_action_done(s, ok))
      /\ SessionRecognised(mark_terminal(s, act))
  BY <1>1, <1>2, <1>3, <1>4 DEF mark_runtime_action_done, mark_terminal
<1>8. Recognised(TaskState(ok).held)
  BY EmptyRecognised DEF TaskState, NoState
<1>9. SessionRecognised([s EXCEPT !.state = TaskState(ok)])
      /\ [s EXCEPT !.state = TaskState(ok)] \in Sessions
  BY <1>8, StateOperationsTyped DEF Sessions, SessionRecognised
<1>10. SessionRecognised(save_runtime_task_execution_state(s, ok))
  BY <1>2, <1>9 DEF save_runtime_task_execution_state
<1>11. SessionRecognised(Consumed(s))
  BY EmptyRecognised DEF Consumed, Sessions, SessionRecognised
<1>12. \A b \in BOOLEAN : SessionRecognised([s EXCEPT !.started = b])
  BY DEF Sessions, SessionRecognised
<1> QED BY <1>2, <1>5, <1>6, <1>7, <1>9, <1>10, <1>11, <1>12

\* What a session offers to confirm, to fill or to build from its input
LEMMA PayloadsRecognised ==
    ASSUME NEW s \in Sessions, SessionRecognised(s), NEW missing \in BOOLEAN
    PROVE  /\ Recognised(pending_action(s))
           /\ Recognised(with_user_input(waiting_input_action(s)))
           /\ Recognised(pending_from_input(s.input, missing))
<1>1. Recognised(pending_action(s))
  BY DEF pending_action, SessionRecognised
<1>2. Recognised(waiting_input_action(s))
  BY EmptyRecognised DEF waiting_input_action, SessionRecognised
<1>3. Recognised(with_user_input(waiting_input_action(s)))
  BY <1>2, SessionFields DEF with_user_input, Payloads, Recognised
<1>4. Recognised(pending_from_input(s.input, missing))
  BY DEF pending_from_input, SessionRecognised, Recognised
<1> QED BY <1>1, <1>3, <1>4

-----------------------------------------------------------------------------
(* Steps of turns that keep the guard *)

LEMMA GuardStep ==
    ASSUME GuardInv, TypeOK', NEW p \in Workers, NEW t,
           turn' = [turn EXCEPT ![p] = t], TurnGuarded(t), SessionRecognised(session')
    PROVE  GuardInv'
<1>1. ASSUME NEW q \in Workers
      PROVE  TurnGuarded(turn'[q])
  <2>1. CASE q = p
    BY <2>1 DEF GuardInv, TypeOK
  <2>2. CASE q # p
    BY <2>2 DEF GuardInv, TypeOK
  <2> QED BY <2>1, <2>2
<1> QED BY <1>1 DEF GuardInv

LEMMA GuardFacts ==
    ASSUME GuardInv, NEW p \in Workers
    PROVE  /\ turn[p] \in Turns /\ TurnGuarded(turn[p])
           /\ turn[p].ctx \in Sessions /\ SessionRecognised(turn[p].ctx)
           /\ turn[p].buf \in Sessions /\ SessionRecognised(turn[p].buf)
           /\ session \in Sessions /\ SessionRecognised(session)
BY TurnFields DEF GuardInv, TurnGuarded, TypeOK

LEMMA SaveGuarded ==
    ASSUME GuardInv, NEW p \in Workers, NEW s, Save(p, s), SessionRecognised(s)
    PROVE  SessionRecognised(session')
BY DEF GuardInv, Save, Saved

LEMMA AnswerGuarded ==
    ASSUME GuardInv, TypeOK', NEW p \in Workers, SessionRecognised(session'),
           \/ \E pc \in {"note", "clean", "trace"} : Answer(p, pc)
           \/ Leave(p) \/ AfterAnswer(p)
    PROVE  GuardInv'
<1> DEFINE Answered(pc) == [Idle EXCEPT !.pc = pc, !.chat = turn[p].chat, !.bot = turn[p].bot]
<1>1. ASSUME NEW pc \in {"note", "clean", "trace"}, Answer(p, pc)
      PROVE  GuardInv'
  <2>1. TurnGuarded(Answered(pc))
    BY EmptyRecognised DEF TurnGuarded, Idle, EmptySession, NoInput, GuardedWrites
  <2>2. turn' = [turn EXCEPT ![p] = Answered(pc)]
    BY <1>1 DEF Answer
  <2> QED BY <2>1, <2>2, GuardStep
<1>2. ASSUME Leave(p)
      PROVE  GuardInv'
  BY <1>2, EmptyRecognised, GuardStep DEF Leave
<1> QED BY <1>1, <1>2 DEF AfterAnswer

\* A step before anything is granted that keeps the turn's message
LEMMA MoveGuarded ==
    ASSUME GuardInv, TypeOK', NEW p \in Workers, NEW pc \in PCs \ {"execute"}, NEW c,
           Goto(p, pc, c), ~turn[p].granted,
           SessionRecognised(c), SessionRecognised(session'),
           ~turn[p].chat => c.input.message \notin GuardedWrites
    PROVE  GuardInv'
<1> DEFINE t == [turn[p] EXCEPT !.pc = pc, !.ctx = c]
<1>1. t.ctx = c /\ t.buf = turn[p].buf /\ t.pc = pc /\ t.msg = turn[p].msg
      /\ t.chat = turn[p].chat /\ t.granted = turn[p].granted /\ t.conf = turn[p].conf
  BY GuardFacts DEF Turns
<1>2. TurnGuarded(t)
  BY <1>1, GuardFacts DEF TurnGuarded
<1> QED BY <1>2, GuardStep DEF Goto

\* A step of entry that sets the message
LEMMA EnterGuarded ==
    ASSUME GuardInv, TypeOK', NEW p \in Workers, NEW m, NEW c,
           turn' = [turn EXCEPT ![p] = [@ EXCEPT !.pc = "route", !.msg = m, !.ctx = c]],
           ~turn[p].granted,
           SessionRecognised(c), SessionRecognised(session'),
           ~turn[p].chat => {m, c.input.message} \cap GuardedWrites = {}
    PROVE  GuardInv'
<1> DEFINE t == [turn[p] EXCEPT !.pc = "route", !.msg = m, !.ctx = c]
<1>1. t.ctx = c /\ t.buf = turn[p].buf /\ t.pc = "route" /\ t.msg = m
      /\ t.chat = turn[p].chat /\ t.granted = turn[p].granted /\ t.conf = turn[p].conf
  BY GuardFacts DEF Turns
<1>2. TurnGuarded(t)
  BY <1>1, GuardFacts DEF TurnGuarded
<1> QED BY <1>2, GuardStep

LEMMA EnterStepGuarded ==
    ASSUME GuardInv, NEW p \in Workers, EnterStep(p)
    PROVE  GuardInv'
<1> DEFINE c == turn[p].ctx
           made(missing) == pending_from_input(c.input, missing)
<1>1. TypeOK'
  BY EnterStepTyped DEF GuardInv
<1>2. c \in Sessions /\ SessionRecognised(c) /\ TurnGuarded(turn[p])
      /\ turn[p].granted \in BOOLEAN /\ SessionRecognised(session)
  BY GuardFacts, TurnFields DEF GuardInv
<1>3. ~turn[p].granted
  BY <1>2 DEF EnterStep, EnterWithoutInput, RejectInput, EnterMissingInput, EnterCancelInput,
     EnterConfirmedInput, ConfirmInput, EnterPlainInput, At, TurnGuarded
<1>4. Consumed(c) \in Sessions /\ SessionRecognised(Consumed(c)) /\ Consumed(c).input = NoInput
  BY <1>2, ConstantsTyped, EmptyRecognised, OperationsRecognised, StateOperationsTyped
     DEF Consumed, Sessions
<1>5. \A b \in BOOLEAN : made(b) \in Payloads /\ Recognised(made(b))
  BY <1>2, SessionFields, InputFields, PayloadsRecognised
<1>6. NoInput.message \notin GuardedWrites /\ {"confirm", "cancel"} \cap GuardedWrites = {}
  BY DEF NoInput, GuardedWrites
<1>7. ~turn[p].chat => {turn[p].msg, c.input.message} \cap GuardedWrites = {}
  BY <1>2 DEF TurnGuarded
<1>8. {"route", "confirm_input"} \subseteq PCs \ {"execute"}
  BY DEF PCs
<1>9. CASE EnterWithoutInput(p)
  <2>1. Goto(p, "route", c) /\ session' = session
    BY <1>9 DEF EnterWithoutInput
  <2> QED BY <1>1, <1>2, <1>3, <1>7, <1>8, <2>1, MoveGuarded
<1>10. CASE RejectInput(p)
  BY <1>1, <1>4, <1>10, SaveGuarded, AnswerGuarded DEF RejectInput
<1>11. CASE EnterMissingInput(p)
  <2> DEFINE s == save_waiting_input_state(Consumed(c), made(TRUE))
  <2>1. s \in Sessions /\ SessionRecognised(s) /\ s.input = NoInput
    BY <1>4, <1>5, OperationsRecognised, StateOperationsTyped, InputKept
  <2>2. SessionRecognised([s EXCEPT !.started = TRUE])
        /\ [s EXCEPT !.started = TRUE].input = NoInput
    BY <2>1, ConstantsTyped, EmptyRecognised, OperationsRecognised, InputKept
  <2>3. SessionRecognised(session')
    BY <1>11, <2>1, SaveGuarded DEF EnterMissingInput
  <2>4. turn' = [turn EXCEPT ![p] = [@ EXCEPT !.pc = "route", !.msg = c.input.message,
                                              !.ctx = [s EXCEPT !.started = TRUE]]]
    BY <1>11 DEF EnterMissingInput
  <2>5. ~turn[p].chat => {c.input.message, [s EXCEPT !.started = TRUE].input.message}
                            \cap GuardedWrites = {}
    BY <1>6, <1>7, <2>2
  <2> QED BY <1>1, <1>3, <2>2, <2>3, <2>4, <2>5, EnterGuarded
<1>12. CASE EnterCancelInput(p)
  <2> DEFINE s == save_waiting_confirmation_state(Consumed(c), made(FALSE))
  <2>1. s \in Sessions /\ SessionRecognised(s) /\ s.input = NoInput
    BY <1>4, <1>5, OperationsRecognised, StateOperationsTyped, InputKept
  <2>2. SessionRecognised(session')
    BY <1>12, <2>1, SaveGuarded DEF EnterCancelInput
  <2>3. turn' = [turn EXCEPT ![p] = [@ EXCEPT !.pc = "route", !.msg = "cancel", !.ctx = s]]
    BY <1>12 DEF EnterCancelInput
  <2>4. {"cancel", s.input.message} \cap GuardedWrites = {}
    BY <1>6, <2>1
  <2> QED BY <1>1, <1>3, <2>1, <2>2, <2>3, <2>4, EnterGuarded
<1>13. CASE EnterConfirmedInput(p)
  <2> DEFINE s == save_waiting_confirmation_state(Consumed(c), made(FALSE))
  <2>1. s \in Sessions /\ SessionRecognised(s) /\ s.input = NoInput
    BY <1>4, <1>5, OperationsRecognised, StateOperationsTyped, InputKept
  <2>2. Save(p, s) /\ Goto(p, "confirm_input", s)
    BY <1>13 DEF EnterConfirmedInput
  <2>3. SessionRecognised(session') /\ s.input.message \notin GuardedWrites
    BY <1>6, <2>1, <2>2, SaveGuarded
  <2> QED BY <1>1, <1>3, <1>8, <2>1, <2>2, <2>3, MoveGuarded
<1>14. CASE ConfirmInput(p)
  <2> DEFINE s == mark_runtime_action_confirmed(c)
  <2>1. SessionRecognised(s) /\ s.input = c.input
    BY <1>2, ConstantsTyped, EmptyRecognised, OperationsRecognised, InputKept
  <2>2. SessionRecognised(session')
    BY <1>14, <2>1, SaveGuarded DEF ConfirmInput
  <2>3. turn' = [turn EXCEPT ![p] = [@ EXCEPT !.pc = "route", !.msg = "confirm", !.ctx = s]]
    BY <1>14 DEF ConfirmInput
  <2>4. ~turn[p].chat => {"confirm", s.input.message} \cap GuardedWrites = {}
    BY <1>6, <1>7, <2>1
  <2> QED BY <1>1, <1>3, <2>1, <2>2, <2>3, <2>4, EnterGuarded
<1>15. CASE EnterPlainInput(p)
  <2>1. turn' = [turn EXCEPT ![p] = [@ EXCEPT !.pc = "route", !.msg = c.input.message,
                                              !.ctx = Consumed(c)]]
        /\ session' = session
    BY <1>15 DEF EnterPlainInput
  <2>2. ~turn[p].chat => {c.input.message, Consumed(c).input.message} \cap GuardedWrites = {}
    BY <1>4, <1>6, <1>7
  <2> QED BY <1>1, <1>2, <1>3, <1>4, <2>1, <2>2, EnterGuarded
<1> QED BY <1>9, <1>10, <1>11, <1>12, <1>13, <1>14, <1>15 DEF EnterStep

\* The guard itself: a confirmed payload that passes it is not a guarded write.
LEMMA RouteStepGuarded ==
    ASSUME GuardInv, NEW p \in Workers, RouteStep(p)
    PROVE  GuardInv'
<1> DEFINE c == turn[p].ctx
           a == pending_action(c)
           filled == with_user_input(waiting_input_action(c))
<1>1. TypeOK'
  BY RouteStepTyped DEF GuardInv
<1>2. c \in Sessions /\ SessionRecognised(c) /\ TurnGuarded(turn[p]) /\ turn[p] \in Turns
      /\ SessionRecognised(turn[p].buf) /\ SessionRecognised(session)
      /\ turn[p].granted \in BOOLEAN
  BY GuardFacts, TurnFields DEF GuardInv
<1>3. a \in Payloads /\ Recognised(a) /\ filled \in Payloads /\ Recognised(filled)
  BY <1>2, SessionFields, PayloadFields, PayloadsRecognised
<1>4. /\ SessionRecognised(mark_terminal(c, "cancelled"))
      /\ SessionRecognised(mark_terminal(c, "stale"))
      /\ SessionRecognised(mark_runtime_action_done(c, FALSE))
      /\ SessionRecognised(mark_runtime_action_confirmed(c))
      /\ SessionRecognised([c EXCEPT !.started = FALSE])
      /\ SessionRecognised(mark_runtime_action_waiting_confirmation(c, filled))
  BY <1>2, <1>3, OperationsRecognised
<1>5. CASE CancelWaitingInput(p)
  BY <1>1, <1>4, <1>5, SaveGuarded, AnswerGuarded DEF CancelWaitingInput
<1>6. CASE PromptStarted(p)
  BY <1>1, <1>4, <1>6, SaveGuarded, AnswerGuarded DEF PromptStarted
<1>7. CASE PromptAgain(p)
  BY <1>1, <1>2, <1>7, AnswerGuarded DEF PromptAgain
<1>8. CASE FillInput(p)
  BY <1>1, <1>4, <1>8, SaveGuarded, AnswerGuarded DEF FillInput
<1>9. CASE ConfirmNothing(p)
  BY <1>1, <1>2, <1>9, AnswerGuarded DEF ConfirmNothing
<1>10. CASE CancelPending(p)
  BY <1>1, <1>2, <1>4, <1>10, SaveGuarded, AnswerGuarded DEF CancelPending
<1>11. CASE ConfirmExpired(p)
  BY <1>1, <1>2, <1>4, <1>11, SaveGuarded, AnswerGuarded DEF ConfirmExpired
<1>12. CASE ConfirmGuarded(p)
  BY <1>1, <1>2, <1>4, <1>12, SaveGuarded, AnswerGuarded DEF ConfirmGuarded
<1>13. CASE ConfirmPending(p)
  <2> DEFINE s == IF latest_action_exists(c) THEN mark_runtime_action_confirmed(c) ELSE c
             t == [turn[p] EXCEPT !.pc = "plan", !.msg = a.message, !.conf = a,
                                  !.granted = TRUE, !.ctx = WithoutPending(s)]
  <2>1. s \in Sessions /\ SessionRecognised(s) /\ s.input = c.input
    BY <1>2, <1>3, <1>4, StateOperationsTyped, InputKept
  <2>2. SessionRecognised(WithoutPending(s)) /\ WithoutPending(s).input = c.input
    BY <1>3, <2>1, OperationsRecognised, InputKept
  <2>3. SessionRecognised(session')
    BY <1>2, <1>13, <2>1, SaveGuarded DEF ConfirmPending
  <2>4. turn' = [turn EXCEPT ![p] = t]
    BY <1>13 DEF ConfirmPending
  <2>5. a.strategy \notin GuardedWrites
    BY <1>13 DEF ConfirmPending, confirmation_execution_guarded, GuardedWrites
  <2>6. {a.message, a.strategy} \cap GuardedWrites = {}
    BY <1>3, <2>5 DEF Recognised
  <2>7. t.ctx = WithoutPending(s) /\ t.buf = turn[p].buf /\ t.pc = "plan" /\ t.chat = turn[p].chat
        /\ t.granted = TRUE /\ t.conf = a /\ t.msg = a.message
    BY <1>2 DEF Turns
  <2>8. TurnGuarded(t)
    BY <1>2, <2>2, <2>6, <2>7 DEF TurnGuarded
  <2> QED BY <1>1, <2>3, <2>4, <2>8, GuardStep
<1>14. CASE PassToPlanner(p)
  <2>1. Goto(p, "plan", c) /\ session' = session
    BY <1>14 DEF PassToPlanner
  <2>2. ~turn[p].granted
    BY <1>2, <1>14 DEF PassToPlanner, Routes, At, TurnGuarded
  <2>3. ~turn[p].chat => c.input.message \notin GuardedWrites
    BY <1>2 DEF TurnGuarded
  <2>4. "plan" \in PCs \ {"execute"}
    BY DEF PCs
  <2> QED BY <1>1, <1>2, <2>1, <2>2, <2>3, <2>4, MoveGuarded
<1> QED BY <1>5, <1>6, <1>7, <1>8, <1>9, <1>10, <1>11, <1>12, <1>13, <1>14 DEF RouteStep

LEMMA ExecuteStepGuarded ==
    ASSUME GuardInv, NEW p \in Workers, ExecuteStep(p)
    PROVE  GuardInv'
<1> DEFINE c == turn[p].ctx
           ok == turn[p].ok
<1>1. TypeOK'
  BY ExecuteStepTyped DEF GuardInv
<1>2. c \in Sessions /\ SessionRecognised(c) /\ TurnGuarded(turn[p]) /\ turn[p] \in Turns
      /\ SessionRecognised(turn[p].buf) /\ SessionRecognised(session) /\ ok \in BOOLEAN
      /\ turn[p].granted \in BOOLEAN /\ turn[p].msg \in Messages \cup {"none"}
  BY GuardFacts, TurnFields DEF GuardInv
<1>3. /\ SessionRecognised(mark_runtime_action_executing(c))
      /\ mark_runtime_action_executing(c).input = c.input
      /\ SessionRecognised(mark_runtime_action_done(c, ok))
      /\ SessionRecognised(save_runtime_task_execution_state(c, ok))
      /\ SessionRecognised([c EXCEPT !.state = TaskState(ok)])
      /\ [c EXCEPT !.state = TaskState(ok)].input = c.input
  BY <1>2, ConstantsTyped, EmptyRecognised, OperationsRecognised, InputKept
<1>4. CASE AnswerFollowup(p) \/ AnswerWithoutExecution(p)
  BY <1>1, <1>2, <1>4, AnswerGuarded DEF AnswerFollowup, AnswerWithoutExecution
<1>5. CASE RequestConfirmation(p)
  <2> DEFINE a == [id |-> nextId, message |-> turn[p].msg, strategy |-> turn[p].msg,
                   ttl |-> TRUE, missing |-> FALSE]
  <2>1. nextId \in Ids /\ turn[p].msg \in Strategies
    BY <1>5 DEF RequestConfirmation, should_request_confirmation, requires_confirmation,
       GuardInv, TypeOK, Ids
  <2>2. a \in Payloads /\ Recognised(a)
    BY <2>1 DEF Payloads, Messages, Recognised
  <2>3. SessionRecognised(save_waiting_confirmation_state(c, a))
    BY <1>2, <2>2, OperationsRecognised
  <2>4. Save(p, save_waiting_confirmation_state(c, a)) /\ Answer(p, "note")
    BY <1>5 DEF RequestConfirmation
  <2> QED BY <1>1, <2>3, <2>4, SaveGuarded, AnswerGuarded
<1>6. CASE BeginExecution(p)
  <2>1. PICK s : /\ s \in {c, mark_runtime_action_executing(c)}
                 /\ turn' = [turn EXCEPT ![p] = [@ EXCEPT !.pc = "execute", !.ctx = s]]
                 /\ session' = session \/ Save(p, s)
    BY <1>6 DEF BeginExecution, Goto
  <2> DEFINE t == [turn[p] EXCEPT !.pc = "execute", !.ctx = s]
  <2>2. SessionRecognised(s) /\ s.input = c.input /\ SessionRecognised(session')
    BY <1>2, <1>3, <2>1, SaveGuarded
  <2>3. t.ctx = s /\ t.buf = turn[p].buf /\ t.pc = "execute" /\ t.msg = turn[p].msg
        /\ t.chat = turn[p].chat /\ t.granted = turn[p].granted /\ t.conf = turn[p].conf
    BY <1>2 DEF Turns
  <2>4. turn[p].granted \/ ~turn[p].chat \/ turn[p].msg \notin Strategies
    BY <1>6 DEF BeginExecution, should_request_confirmation, requires_confirmation
  <2>5. turn[p].msg \notin GuardedWrites
    BY <1>2, <2>4 DEF TurnGuarded, GuardedWrites, Strategies
  <2>6. TurnGuarded(t)
    BY <1>2, <2>2, <2>3, <2>5 DEF TurnGuarded
  <2> QED BY <1>1, <2>1, <2>2, <2>6, GuardStep
<1>7. CASE \E success \in BOOLEAN : Execute(p, success)
  <2>1. PICK success \in BOOLEAN : Execute(p, success)
    BY <1>7
  <2> DEFINE t == [turn[p] EXCEPT !.pc = "settle", !.ok = success]
  <2>2. turn' = [turn EXCEPT ![p] = t] /\ session' = session
    BY <2>1 DEF Execute
  <2>3. t.ctx = c /\ t.buf = turn[p].buf /\ t.pc = "settle" /\ t.msg = turn[p].msg
        /\ t.chat = turn[p].chat /\ t.granted = turn[p].granted /\ t.conf = turn[p].conf
    BY <1>2 DEF Turns
  <2>4. TurnGuarded(t)
    BY <1>2, <2>3 DEF TurnGuarded
  <2> QED BY <1>1, <1>2, <2>2, <2>4, GuardStep
<1>8. CASE SettleAction(p)
  BY <1>1, <1>2, <1>3, <1>8, SaveGuarded, AnswerGuarded DEF SettleAction
<1>9. CASE SettleTask(p)
  <2>1. SessionRecognised(session')
    BY <1>3, <1>9, SaveGuarded DEF SettleTask
  <2>2. CASE Answer(p, "note")
    BY <1>1, <2>1, <2>2, AnswerGuarded
  <2>3. CASE AnswerKeeping(p, [c EXCEPT !.state = TaskState(ok)])
    <3> DEFINE k == [c EXCEPT !.state = TaskState(ok)]
               t == [Idle EXCEPT !.pc = "note", !.chat = turn[p].chat, !.bot = turn[p].bot,
                                 !.syncs = TRUE, !.ctx = k]
    <3>1. t.ctx = k /\ t.buf = EmptySession /\ t.pc = "note" /\ t.msg = "none"
          /\ t.chat = turn[p].chat /\ t.granted = FALSE /\ t.conf = NoPayload
      BY DEF Idle
    <3>2. ~turn[p].chat => {"none", k.input.message} \cap GuardedWrites = {}
      BY <1>2, <1>3 DEF TurnGuarded, GuardedWrites
    <3>3. TurnGuarded(t)
      BY <1>3, <3>1, <3>2, EmptyRecognised DEF TurnGuarded
    <3>4. turn' = [turn EXCEPT ![p] = t]
      BY <2>3 DEF AnswerKeeping
    <3> QED BY <1>1, <2>1, <3>3, <3>4, GuardStep
  <2> QED BY <1>9, <2>2, <2>3 DEF SettleTask
<1> QED BY <1>4, <1>5, <1>6, <1>7, <1>8, <1>9 DEF ExecuteStep

LEMMA BufferGuarded ==
    ASSUME GuardInv, TypeOK', NEW p \in Workers,
           NEW pc \in {"note_save", "sync", "clean_save", "trace_save"},
           NEW b, SessionRecognised(b), ~turn[p].granted,
           turn' = [turn EXCEPT ![p] = [@ EXCEPT !.pc = pc, !.buf = b]],
           SessionRecognised(session')
    PROVE  GuardInv'
<1> DEFINE t == [turn[p] EXCEPT !.pc = pc, !.buf = b]
<1>1. t.ctx = turn[p].ctx /\ t.buf = b /\ t.pc = pc /\ t.msg = turn[p].msg
      /\ t.chat = turn[p].chat /\ t.granted = turn[p].granted /\ t.conf = turn[p].conf
  BY GuardFacts DEF Turns
<1>2. TurnGuarded(t)
  BY <1>1, GuardFacts DEF TurnGuarded
<1> QED BY <1>2, GuardStep

LEMMA FinishStepGuarded ==
    ASSUME GuardInv, NEW p \in Workers, FinishStep(p)
    PROVE  GuardInv'
<1>1. TypeOK'
  BY FinishStepTyped DEF GuardInv
<1>2. /\ TurnGuarded(turn[p]) /\ turn[p].granted \in BOOLEAN
      /\ session \in Sessions /\ SessionRecognised(session)
      /\ SessionRecognised(turn[p].ctx) /\ SessionRecognised(turn[p].buf)
  BY GuardFacts, TurnFields DEF GuardInv
<1>3. ~turn[p].granted
  BY <1>2 DEF FinishStep, Note, NoteSave, Sync, Clean, CleanSave, Trace, TraceSave, At,
     TurnGuarded
<1>4. ASSUME NEW s \in Loaded
      PROVE  SessionRecognised(s) /\ SessionRecognised(Cleaned(s))
  <2>1. s \in Sessions /\ SessionRecognised(s)
    BY <1>2, ConstantsTyped, EmptyRecognised DEF Loaded
  <2> QED BY <2>1, EmptyRecognised DEF Cleaned, Unexpired, Sessions, SessionRecognised
<1>5. session' \in Saved(turn[p].buf) => SessionRecognised(session')
  BY <1>2 DEF Saved
<1>6. ASSUME AfterNote(p), SessionRecognised(session')
      PROVE  GuardInv'
  BY <1>1, <1>3, <1>6, BufferGuarded, EmptyRecognised, AnswerGuarded DEF AfterNote
<1>7. CASE Note(p)
  BY <1>1, <1>2, <1>3, <1>4, <1>6, <1>7, BufferGuarded DEF Note
<1>8. CASE NoteSave(p)
  BY <1>5, <1>6, <1>8 DEF NoteSave
<1>9. CASE Sync(p)
  BY <1>1, <1>2, <1>9, SaveGuarded, AnswerGuarded DEF Sync
<1>10. CASE Clean(p)
  BY <1>1, <1>2, <1>3, <1>4, <1>10, BufferGuarded, AnswerGuarded DEF Clean
<1>11. CASE CleanSave(p)
  BY <1>1, <1>5, <1>11, AnswerGuarded DEF CleanSave
<1>12. CASE Trace(p)
  BY <1>1, <1>2, <1>3, <1>4, <1>12, BufferGuarded DEF Trace
<1>13. CASE TraceSave(p)
  BY <1>1, <1>5, <1>13, AnswerGuarded DEF TraceSave
<1> QED BY <1>7, <1>8, <1>9, <1>10, <1>11, <1>12, <1>13 DEF FinishStep

LEMMA StartGuarded ==
    ASSUME GuardInv, TypeOK', NEW p \in Workers, NEW m, NEW chat, NEW bot, NEW c,
           Start(p, m, chat, bot, c), session' = session, SessionRecognised(c),
           ~chat => {m, c.input.message} \cap GuardedWrites = {}
    PROVE  GuardInv'
<1> DEFINE t == [Idle EXCEPT !.pc = "entry", !.msg = m, !.chat = chat, !.bot = bot, !.ctx = c]
<1>1. turn' = [turn EXCEPT ![p] = t]
  BY DEF Start
<1>2. t.ctx = c /\ t.buf = EmptySession /\ t.pc = "entry" /\ t.msg = m /\ t.chat = chat
      /\ t.granted = FALSE /\ t.conf = NoPayload
  BY DEF Idle
<1>3. TurnGuarded(t)
  BY <1>2, EmptyRecognised DEF TurnGuarded
<1> QED BY <1>1, <1>3, GuardStep DEF GuardInv

LEMMA ArriveGuarded ==
    ASSUME GuardInv, NEW p \in Workers, Arrive(p)
    PROVE  GuardInv'
<1>1. TypeOK'
  BY ArriveTyped DEF GuardInv
<1>2. session \in Sessions /\ SessionRecognised(session)
  BY DEF GuardInv, TypeOK
<1>3. CASE \E m \in Texts : ReceiveMessage(p, m)
  <2>1. PICK m \in Texts, s \in Loaded : Start(p, m, TRUE, TRUE, s) /\ session' = session
    BY <1>3 DEF ReceiveMessage
  <2>2. SessionRecognised(s)
    BY <1>2, EmptyRecognised DEF Loaded
  <2> QED BY <1>1, <2>1, <2>2, StartGuarded
<1>4. CASE \E m \in {"approve", "reject"}, r \in PortalRequests, id \in Ids :
              PortalAction(p, m, r, id)
  <2>1. PICK m \in {"approve", "reject"}, r \in PortalRequests, id \in Ids :
              PortalAction(p, m, r, id)
    BY <1>4
  <2> DEFINE i == [kind |-> IF r.confirm THEN "confirmed" ELSE "plain",
                   id |-> id, message |-> m, strategy |-> m]
  <2>2. PICK b \in IF r.chat THEN Loaded ELSE {EmptySession} :
             Start(p, m, r.chat, FALSE, [b EXCEPT !.input = i])
    BY <2>1 DEF PortalAction
  <2> DEFINE c == [b EXCEPT !.input = i]
  <2>3. b \in Sessions /\ SessionRecognised(b) /\ session' = session
    BY <1>2, <2>1, ConstantsTyped, EmptyRecognised DEF Loaded, PortalAction
  <2>4. Recognised(i) /\ i.message = m /\ m \notin GuardedWrites
    BY DEF Recognised, GuardedWrites
  <2>5. c.input = i /\ SessionRecognised(c)
    BY <2>3, <2>4 DEF Sessions, SessionRecognised
  <2>6. {m, c.input.message} \cap GuardedWrites = {}
    BY <2>4, <2>5
  <2> QED BY <1>1, <2>2, <2>3, <2>5, <2>6, StartGuarded
<1>5. CASE PortalQuery(p)
  BY <1>1, <1>5, EmptyRecognised, StartGuarded DEF PortalQuery
<1> QED BY <1>3, <1>4, <1>5 DEF Arrive

LEMMA EnvironmentGuarded ==
    ASSUME GuardInv, Environment
    PROVE  GuardInv'
<1>1. TypeOK'
  BY EnvironmentTyped DEF GuardInv
<1>2. CASE \E p \in Workers : Crash(p)
  BY <1>1, <1>2, AnswerGuarded DEF Crash, GuardInv
<1>3. CASE (\E id \in Ids : Lapse(id)) \/ ExpireSession
  BY <1>1, <1>3, EmptyRecognised DEF Lapse, ExpireSession, GuardInv
<1> QED BY <1>2, <1>3 DEF Environment

LEMMA GuardInit ==
    ASSUME InputsRecognised, Init
    PROVE  GuardInv
<1>1. PICK i \in InputsLeft \cup {NoInput} : session = [EmptySession EXCEPT !.input = i]
  BY DEF Init
<1>2. Recognised(i)
  BY EmptyRecognised DEF InputsRecognised
<1>3. SessionRecognised(session)
  BY <1>1, <1>2, EmptyRecognised DEF SessionRecognised, EmptySession
<1>4. \A p \in Workers : TurnGuarded(turn[p])
  BY EmptyRecognised DEF Init
<1> QED BY <1>3, <1>4, InitTyped DEF GuardInv

LEMMA GuardNext ==
    ASSUME GuardInv, [Next]_vars
    PROVE  GuardInv'
<1>1. CASE \E p \in Workers : Arrive(p) \/ TurnStep(p)
  BY <1>1, ArriveGuarded, EnterStepGuarded, RouteStepGuarded, ExecuteStepGuarded,
     FinishStepGuarded DEF TurnStep
<1>2. CASE Environment
  BY <1>2, EnvironmentGuarded
<1>3. CASE UNCHANGED vars
  BY <1>3 DEF vars, history, GuardInv, TypeOK
<1> QED BY <1>1, <1>2, <1>3 DEF Next

\* As long as an input left by a card names the strategy of its message, no
\* transfer and no add-sign reaches the provider, whichever of the three routes
\* to a confirmation it took and whatever other workers wrote over the session
\* meanwhile (_confirmation_execution_guard_reason).
THEOREM GuardHolds ==
    ASSUME InputsRecognised
    PROVE  Spec => []GuardedNeverSubmitted
<1>1. Init => GuardInv
  BY GuardInit
<1>2. GuardInv /\ [Next]_vars => GuardInv'
  BY GuardNext
<1>3. GuardInv => GuardedNeverSubmitted
  <2> SUFFICES ASSUME GuardInv, NEW p \in Workers, Submits(p)
               PROVE  {turn[p].msg, turn[p].conf.strategy} \cap {"transfer", "add_sign"} = {}
    BY DEF GuardedNeverSubmitted
  <2>1. TurnGuarded(turn[p]) /\ turn[p].pc = "execute" /\ turn[p].granted \in BOOLEAN
    BY TurnFields DEF GuardInv, Submits, At
  <2>2. CASE turn[p].granted
    BY <2>1, <2>2 DEF TurnGuarded, GuardedWrites
  <2>3. CASE ~turn[p].granted
    BY <2>1, <2>3 DEF TurnGuarded, NoPayload, GuardedWrites
  <2> QED BY <2>2, <2>3
<1> QED BY <1>1, <1>2, <1>3, PTL DEF Spec

-----------------------------------------------------------------------------
(* One worker: an action moves along its life cycle *)

OneWorker == \A p, q \in Workers : p = q

Reliable == RedisFails = FALSE

\* Every input that a card has left names its action (build_runtime_action_input
\* makes an id for one that has none).
InputsNamed == \A i \in InputsLeft : i.kind \in {"missing", "cancel"} => i.id # 0

Waits == {"waiting_input", "waiting_confirmation", "confirmed"}

\* The state of a session has an action exactly if it has an action's id, and a
\* pending key outlives neither an execution nor an end.
SessionLife(s) ==
    /\ s.state.act = "none" <=> s.state.held.id = 0
    /\ s.pending.id # 0 => s.state.act \in Waits \cup {"none"}

\* An input that is left to be taken: no action has been recorded since.
InputLeft(s) ==
    s.input.kind # "none" =>
        /\ s.state.act = "none"
        /\ s.input.kind \in {"legacy", "no_company", "missing", "cancel"}
        /\ s.input.kind \in {"missing", "cancel"} => s.input.id # 0

SameAction(a, b) == a.act = b.act /\ a.held = b.held

\* A turn, against the session in Redis: until it answers, what it holds is
\* what is stored, or has no action.
TurnLife(t, s) ==
    /\ SessionLife(t.ctx) /\ SessionLife(t.buf)
    /\ IF t.pc = "entry"
       THEN /\ t.ctx.input.kind \in {"missing", "cancel"} => s.state.act = "none"
            /\ t.ctx.input.kind \in {"missing", "cancel", "confirmed"} => t.ctx.input.id # 0
       ELSE t.ctx.input.kind = "none"
    /\ t.chat /\ t.pc \in {"entry", "confirm_input", "route", "plan", "execute", "settle"} =>
         t.ctx.state.act = "none" \/ SameAction(t.ctx.state, s.state)
    /\ t.pc = "confirm_input" => t.ctx.state.act = "waiting_confirmation"
    /\ t.granted =>
         /\ t.pc \in {"plan", "execute", "settle"} /\ t.ctx.pending.id = 0
         /\ t.pc = "plan" => t.ctx.state.act \in {"none", "confirmed"}
         /\ t.pc # "plan" => t.ctx.state.act \in {"none", "executing"}
    /\ t.pc \in {"note_save", "clean_save", "trace_save"} =>
         t.buf.state = s.state /\ t.buf.input = s.input
    /\ t.syncs => t.pc \in {"note", "note_save", "sync"} /\ t.ctx.state.act = "none"
    /\ t.pc = "sync" => t.ctx.state.act = "none"

LifeInv ==
    /\ TypeOK
    /\ SessionLife(session) /\ InputLeft(session)
    /\ \A p \in Workers : TurnLife(turn[p], session)

\* What ActionLifecycle asks of two states one after the other
Follows(a, b) ==
    a.held.id = b.held.id /\ a.act # b.act =>
        /\ b.act = "executing" => a.act = "confirmed"
        /\ b.act = "done" => a.act = "executing"
        /\ a.act = "waiting_input" => b.act \in {"waiting_confirmation", "cancelled"}
        /\ a.act = "executing" => b.act \in {"done", "failed", "waiting_confirmation"}

\* What an operation leaves of a session's state, pending key and input
Written(s, act, held, pending, input) ==
    s.state.act = act /\ s.state.held = held /\ s.pending = pending /\ s.input = input

LEMMA OperationsWrite ==
    ASSUME NEW s \in Sessions, NEW a \in Payloads, NEW ok \in BOOLEAN, NEW x
    PROVE  /\ Written(save_waiting_input_state(s, a), "waiting_input", a, a, s.input)
           /\ Written(save_waiting_confirmation_state(s, a), "waiting_confirmation", a, a, s.input)
           /\ Written(mark_runtime_action_waiting_confirmation(s, a),
                      "waiting_confirmation", a, a, s.input)
           /\ Written(mark_runtime_action_confirmed(s), "confirmed", s.state.held, s.pending, s.input)
           /\ Written(mark_runtime_action_executing(s), "executing", s.state.held, s.pending, s.input)
           /\ Written(mark_runtime_action_done(s, ok), DoneStatus(ok), s.state.held, NoPayload, s.input)
           /\ Written(mark_terminal(s, x), x, s.state.held, NoPayload, s.input)
           /\ Written(save_runtime_task_execution_state(s, ok), "none", NoPayload, NoPayload, s.input)
           /\ Written([s EXCEPT !.state = TaskState(ok)], "none", NoPayload, s.pending, s.input)
<1>1. ASSUME NEW u \in Sessions, NEW t, NEW y
      PROVE  Written(WithAction(u, t, y), y, u.state.held, u.pending, u.input)
  BY DEF WithAction, Sessions, States, Written
<1>2. ASSUME NEW t, NEW y
      PROVE  Written(WithoutPending(WithAction(s, t, y)), y, s.state.held, NoPayload, s.input)
  BY DEF WithAction, WithoutPending, Sessions, States, Written
<1>3. TaskState(ok).act = "none" /\ TaskState(ok).held = NoPayload
  BY DEF TaskState, NoState
<1>4. /\ Written([s EXCEPT !.state = TaskState(ok)], "none", NoPayload, s.pending, s.input)
      /\ Written(save_runtime_task_execution_state(s, ok), "none", NoPayload, NoPayload, s.input)
  BY <1>3 DEF save_runtime_task_execution_state, WithoutPending, Sessions, Written
<1>5. /\ Written(save_waiting_input_state(s, a), "waiting_input", a, a, s.input)
      /\ Written(save_waiting_confirmation_state(s, a), "waiting_confirmation", a, a, s.input)
      /\ Written(mark_runtime_action_waiting_confirmation(s, a),
                 "waiting_confirmation", a, a, s.input)
  BY DEF save_waiting_input_state, save_waiting_confirmation_state,
     mark_runtime_action_waiting_confirmation, Sessions, Written
<1> QED BY <1>1, <1>2, <1>4, <1>5 DEF mark_runtime_action_confirmed,
           mark_runtime_action_executing, mark_runtime_action_done, mark_terminal

\* The keys that the other writes change
LEMMA KeysWrite ==
    ASSUME NEW s \in Sessions
    PROVE  /\ WithoutPending(s).state = s.state /\ WithoutPending(s).pending = NoPayload
           /\ WithoutPending(s).input = s.input
           /\ Consumed(s).state = s.state /\ Consumed(s).pending = s.pending
           /\ Consumed(s).input = NoInput
           /\ Cleaned(s).state = s.state /\ Cleaned(s).pending \in {s.pending, NoPayload}
           /\ Cleaned(s).input = s.input
           /\ \A b : LET u == [s EXCEPT !.started = b]
                     IN u.state = s.state /\ u.pending = s.pending /\ u.input = s.input
           /\ \A i : LET u == [s EXCEPT !.input = i]
                     IN u.state = s.state /\ u.pending = s.pending /\ u.input = i
BY DEF WithoutPending, Consumed, Cleaned, Unexpired, Sessions

-----------------------------------------------------------------------------
(* Steps that keep the life cycle *)

LEMMA LifeEmpty ==
    /\ SessionLife(EmptySession) /\ InputLeft(EmptySession) /\ EmptySession.input.kind = "none"
    /\ NoInput.kind = "none" /\ NoPayload.id = 0
    /\ EmptySession.state.act = "none" /\ EmptySession.input = NoInput
BY DEF SessionLife, InputLeft, EmptySession, NoState, NoPayload, NoInput

LEMMA LifeFacts ==
    ASSUME LifeInv, NEW p \in Workers
    PROVE  /\ TypeOK /\ turn[p] \in Turns /\ TurnLife(turn[p], session)
           /\ turn[p].ctx \in Sessions /\ SessionLife(turn[p].ctx)
           /\ turn[p].buf \in Sessions /\ SessionLife(turn[p].buf)
           /\ session \in Sessions /\ SessionLife(session) /\ InputLeft(session)
BY TurnFields DEF LifeInv, TurnLife, TypeOK

LEMMA ReliableFacts ==
    ASSUME Reliable, NEW p \in Workers, NEW s
    PROVE  /\ Loaded = {session} /\ Saved(s) = {s}
           /\ Save(p, s) => session' = IF turn[p].chat THEN s ELSE session
BY DEF Reliable, Loaded, Saved, Save

LEMMA LifeStep ==
    ASSUME OneWorker, TypeOK, TypeOK', NEW p \in Workers, NEW t, turn' = [turn EXCEPT ![p] = t],
           TurnLife(t, session'), SessionLife(session'), InputLeft(session')
    PROVE  LifeInv'
<1>1. ASSUME NEW q \in Workers
      PROVE  TurnLife(turn'[q], session')
  BY DEF OneWorker, TypeOK
<1> QED BY <1>1 DEF LifeInv

LEMMA SameStateFollows ==
    ASSUME session'.state = session.state
    PROVE  ActionLifecycle
BY DEF ActionLifecycle

LEMMA FollowsLifecycle ==
    ASSUME Follows(session.state, session'.state)
    PROVE  ActionLifecycle
BY DEF ActionLifecycle, Follows

\* A write of a session whose input was taken
LEMMA LifeSaved ==
    ASSUME Reliable, LifeInv, NEW p \in Workers, NEW s, Save(p, s), SessionLife(s),
           s.input.kind = "none", turn[p].chat => Follows(session.state, s.state)
    PROVE  SessionLife(session') /\ InputLeft(session') /\ ActionLifecycle
<1>1. CASE turn[p].chat
  <2>1. session' = s
    BY <1>1, ReliableFacts
  <2> QED BY <1>1, <2>1, FollowsLifecycle DEF InputLeft
<1>2. CASE ~turn[p].chat
  <2>1. session' = session
    BY <1>2, ReliableFacts
  <2> QED BY <2>1, SameStateFollows DEF LifeInv
<1> QED BY <1>1, <1>2

LEMMA LifeAnswer ==
    ASSUME OneWorker, TypeOK, TypeOK', NEW p \in Workers,
           SessionLife(session'), InputLeft(session'),
           \/ \E pc \in {"note", "clean", "trace"} : Answer(p, pc)
           \/ \E c : AnswerKeeping(p, c) /\ SessionLife(c) /\ c.input.kind = "none"
                     /\ c.state.act = "none"
           \/ Leave(p) \/ AfterAnswer(p)
    PROVE  LifeInv'
<1>1. ASSUME NEW pc \in {"note", "clean", "trace"}, Answer(p, pc)
      PROVE  LifeInv'
  <2> DEFINE t == [Idle EXCEPT !.pc = pc, !.chat = turn[p].chat, !.bot = turn[p].bot]
  <2>1. t.ctx = EmptySession /\ t.buf = EmptySession /\ t.pc = pc /\ ~t.granted /\ ~t.syncs
    BY DEF Idle
  <2>2. turn' = [turn EXCEPT ![p] = t]
    BY <1>1 DEF Answer
  <2> HIDE DEF t
  <2>3. TurnLife(t, session')
    BY <2>1, LifeEmpty DEF TurnLife
  <2> QED BY <2>2, <2>3, LifeStep
<1>2. ASSUME NEW c, AnswerKeeping(p, c), SessionLife(c), c.input.kind = "none",
             c.state.act = "none"
      PROVE  LifeInv'
  <2> DEFINE t == [Idle EXCEPT !.pc = "note", !.chat = turn[p].chat, !.bot = turn[p].bot,
                               !.syncs = TRUE, !.ctx = c]
  <2>1. t.ctx = c /\ t.buf = EmptySession /\ t.pc = "note" /\ ~t.granted
    BY DEF Idle
  <2>2. turn' = [turn EXCEPT ![p] = t]
    BY <1>2 DEF AnswerKeeping
  <2> HIDE DEF t
  <2>3. TurnLife(t, session')
    BY <1>2, <2>1, LifeEmpty DEF TurnLife
  <2> QED BY <2>2, <2>3, LifeStep
<1>3. ASSUME Leave(p)
      PROVE  LifeInv'
  <2>1. TurnLife(Idle, session')
    BY LifeEmpty DEF TurnLife, Idle
  <2> QED BY <1>3, <2>1, LifeStep DEF Leave
<1> QED BY <1>1, <1>2, <1>3 DEF AfterAnswer

\* A turn that goes on with another session, and another message or the same
LEMMA LifeMove ==
    ASSUME OneWorker, LifeInv, TypeOK', NEW p \in Workers, NEW pc \in {"confirm_input", "route", "plan"},
           NEW m, NEW c, ~turn[p].granted, ~turn[p].syncs,
           \/ turn' = [turn EXCEPT ![p] = [@ EXCEPT !.pc = pc, !.msg = m, !.ctx = c]]
           \/ Goto(p, pc, c),
           SessionLife(c), c.input.kind = "none",
           turn[p].chat => c.state.act = "none" \/ SameAction(c.state, session'.state),
           pc = "confirm_input" => c.state.act = "waiting_confirmation",
           SessionLife(session'), InputLeft(session')
    PROVE  LifeInv'
<1>1. PICK t : /\ turn' = [turn EXCEPT ![p] = t] /\ t.ctx = c /\ t.buf = turn[p].buf /\ t.pc = pc
               /\ t.chat = turn[p].chat /\ ~t.granted /\ ~t.syncs
  <2> DEFINE t == [turn[p] EXCEPT !.pc = pc, !.msg = m, !.ctx = c]
             u == [turn[p] EXCEPT !.pc = pc, !.ctx = c]
  <2>1. /\ t.ctx = c /\ t.buf = turn[p].buf /\ t.pc = pc
        /\ t.chat = turn[p].chat /\ ~t.granted /\ ~t.syncs
    BY LifeFacts DEF Turns
  <2>2. /\ u.ctx = c /\ u.buf = turn[p].buf /\ u.pc = pc
        /\ u.chat = turn[p].chat /\ ~u.granted /\ ~u.syncs
    BY LifeFacts DEF Turns
  <2>3. turn' = [turn EXCEPT ![p] = t] \/ turn' = [turn EXCEPT ![p] = u]
    BY DEF Goto
  <2> HIDE DEF t, u
  <2> QED BY <2>1, <2>2, <2>3
<1>2. TurnLife(t, session')
  BY <1>1, LifeFacts DEF TurnLife
<1> QED BY <1>1, <1>2, LifeFacts, LifeStep

LEMMA EnterStepLife ==
    ASSUME OneWorker, Reliable, LifeInv, NEW p \in Workers, EnterStep(p)
    PROVE  LifeInv' /\ ActionLifecycle
<1> DEFINE c == turn[p].ctx
           made(missing) == pending_from_input(c.input, missing)
<1>1. TypeOK'
  BY EnterStepTyped DEF LifeInv
<1>2. /\ c \in Sessions /\ SessionLife(c) /\ TurnLife(turn[p], session) /\ TypeOK
      /\ session \in Sessions /\ SessionLife(session) /\ InputLeft(session)
  BY LifeFacts
<1>3. /\ Consumed(c) \in Sessions /\ Consumed(c).state = c.state
      /\ Consumed(c).pending = c.pending /\ Consumed(c).input.kind = "none"
  BY <1>2, StateOperationsTyped, ConstantsTyped, KeysWrite, LifeEmpty DEF Consumed
<1>4. SessionLife(Consumed(c))
  BY <1>2, <1>3 DEF SessionLife
<1>5. /\ made(TRUE) \in Payloads /\ made(FALSE) \in Payloads
      /\ made(TRUE).id = c.input.id /\ made(FALSE).id = c.input.id
  BY <1>2, SessionFields, InputFields DEF pending_from_input
<1>6. turn[p].pc \in {"entry", "confirm_input"} => ~turn[p].granted /\ ~turn[p].syncs
  BY <1>2 DEF TurnLife
<1>7. CASE EnterWithoutInput(p)
  <2>1. session' = session /\ Goto(p, "route", c) /\ turn[p].pc = "entry" /\ c.input.kind = "none"
    BY <1>7 DEF EnterWithoutInput, At
  <2>2. turn[p].chat => c.state.act = "none" \/ SameAction(c.state, session'.state)
    BY <1>2, <2>1 DEF TurnLife
  <2>3. LifeInv'
    BY <1>1, <1>2, <1>6, <2>1, <2>2, LifeMove
  <2> QED BY <2>1, <2>3, SameStateFollows
<1>8. CASE RejectInput(p)
  <2>1. turn[p].pc = "entry" /\ Save(p, Consumed(c)) /\ Answer(p, "note")
    BY <1>8 DEF RejectInput, At
  <2>2. turn[p].chat => Follows(session.state, Consumed(c).state)
    BY <1>2, <1>3, <2>1 DEF TurnLife, SessionLife, Follows, SameAction
  <2>3. SessionLife(session') /\ InputLeft(session') /\ ActionLifecycle
    BY <1>3, <1>4, <2>1, <2>2, LifeSaved
  <2> QED BY <1>1, <1>2, <2>1, <2>3, LifeAnswer
<1>9. CASE EnterMissingInput(p)
  <2> DEFINE s == save_waiting_input_state(Consumed(c), made(TRUE))
             u == [s EXCEPT !.started = TRUE]
  <2>1. /\ turn[p].pc = "entry" /\ c.input.kind = "missing" /\ Save(p, s)
        /\ turn' = [turn EXCEPT ![p] = [@ EXCEPT !.pc = "route", !.msg = c.input.message, !.ctx = u]]
    BY <1>9 DEF EnterMissingInput, At
  <2>2. c.input.id # 0 /\ session.state.act = "none"
    BY <1>2, <2>1 DEF TurnLife
  <2>3. s \in Sessions /\ Written(s, "waiting_input", made(TRUE), made(TRUE), Consumed(c).input)
    BY <1>3, <1>5, StateOperationsTyped, OperationsWrite
  <2> HIDE DEF s
  <2>4. u.state = s.state /\ u.pending = s.pending /\ u.input = s.input
    BY <2>3, KeysWrite
  <2> HIDE DEF u
  <2>5. SessionLife(s) /\ s.input.kind = "none" /\ SessionLife(u) /\ u.input.kind = "none"
        /\ Follows(session.state, s.state)
    BY <1>2, <1>3, <1>5, <2>2, <2>3, <2>4 DEF SessionLife, Written, Follows, Waits
  <2>6. SessionLife(session') /\ InputLeft(session') /\ ActionLifecycle
    BY <2>1, <2>5, LifeSaved
  <2>7. turn[p].chat => SameAction(u.state, session'.state)
    BY <2>1, <2>4, ReliableFacts DEF SameAction
  <2> QED BY <1>1, <1>6, <2>1, <2>5, <2>6, <2>7, LifeMove
<1>10. CASE EnterCancelInput(p)
  <2> DEFINE s == save_waiting_confirmation_state(Consumed(c), made(FALSE))
  <2>1. /\ turn[p].pc = "entry" /\ c.input.kind = "cancel" /\ Save(p, s)
        /\ turn' = [turn EXCEPT ![p] = [@ EXCEPT !.pc = "route", !.msg = "cancel", !.ctx = s]]
    BY <1>10 DEF EnterCancelInput, At
  <2>2. c.input.id # 0 /\ session.state.act = "none"
    BY <1>2, <2>1 DEF TurnLife
  <2>3. Written(s, "waiting_confirmation", made(FALSE), made(FALSE), Consumed(c).input)
    BY <1>3, <1>5, OperationsWrite
  <2> HIDE DEF s
  <2>4. SessionLife(s) /\ s.input.kind = "none" /\ Follows(session.state, s.state)
    BY <1>2, <1>3, <1>5, <2>2, <2>3 DEF SessionLife, Written, Follows, Waits
  <2>5. SessionLife(session') /\ InputLeft(session') /\ ActionLifecycle
    BY <2>1, <2>4, LifeSaved
  <2>6. turn[p].chat => SameAction(s.state, session'.state)
    BY <2>1, ReliableFacts DEF SameAction
  <2> QED BY <1>1, <1>6, <2>1, <2>4, <2>5, <2>6, LifeMove
<1>11. CASE EnterConfirmedInput(p)
  <2> DEFINE s == save_waiting_confirmation_state(Consumed(c), made(FALSE))
  <2>1. /\ turn[p].pc = "entry" /\ c.input.kind = "confirmed" /\ Save(p, s)
        /\ Goto(p, "confirm_input", s)
    BY <1>11 DEF EnterConfirmedInput, At
  <2>2. c.input.id # 0
    BY <1>2, <2>1 DEF TurnLife
  <2>3. Written(s, "waiting_confirmation", made(FALSE), made(FALSE), Consumed(c).input)
    BY <1>3, <1>5, OperationsWrite
  <2> HIDE DEF s
  <2>4. SessionLife(s) /\ s.input.kind = "none" /\ Follows(session.state, s.state)
    BY <1>3, <1>5, <2>2, <2>3 DEF SessionLife, Written, Follows, Waits
  <2>5. SessionLife(session') /\ InputLeft(session') /\ ActionLifecycle
    BY <2>1, <2>4, LifeSaved
  <2>6. turn[p].chat => SameAction(s.state, session'.state)
    BY <2>1, ReliableFacts DEF SameAction
  <2> QED BY <1>1, <1>6, <2>1, <2>3, <2>4, <2>5, <2>6, LifeMove DEF Written
<1>12. CASE ConfirmInput(p)
  <2> DEFINE s == mark_runtime_action_confirmed(c)
  <2>1. /\ turn[p].pc = "confirm_input" /\ Save(p, s)
        /\ turn' = [turn EXCEPT ![p] = [@ EXCEPT !.pc = "route", !.msg = "confirm", !.ctx = s]]
    BY <1>12 DEF ConfirmInput, At
  <2>2. /\ c.state.act = "waiting_confirmation" /\ c.input.kind = "none"
        /\ turn[p].chat => SameAction(c.state, session.state)
    BY <1>2, <2>1 DEF TurnLife
  <2>3. Written(s, "confirmed", c.state.held, c.pending, c.input)
    BY <1>2, ConstantsTyped, OperationsWrite
  <2> HIDE DEF s
  <2>4. SessionLife(s) /\ s.input.kind = "none"
        /\ (turn[p].chat => Follows(session.state, s.state))
    BY <1>2, <2>2, <2>3 DEF SessionLife, Written, Follows, Waits, SameAction
  <2>5. SessionLife(session') /\ InputLeft(session') /\ ActionLifecycle
    BY <2>1, <2>4, LifeSaved
  <2>6. turn[p].chat => SameAction(s.state, session'.state)
    BY <2>1, ReliableFacts DEF SameAction
  <2> QED BY <1>1, <1>6, <2>1, <2>4, <2>5, <2>6, LifeMove
<1>13. CASE EnterPlainInput(p)
  <2>1. /\ turn[p].pc = "entry" /\ session' = session
        /\ turn' = [turn EXCEPT ![p] = [@ EXCEPT !.pc = "route", !.msg = c.input.message,
                                                 !.ctx = Consumed(c)]]
    BY <1>13 DEF EnterPlainInput, At
  <2>2. turn[p].chat => Consumed(c).state.act = "none" \/ SameAction(Consumed(c).state, session'.state)
    BY <1>2, <1>3, <2>1 DEF TurnLife
  <2>3. LifeInv'
    BY <1>1, <1>2, <1>3, <1>4, <1>6, <2>1, <2>2, LifeMove
  <2> QED BY <2>1, <2>3, SameStateFollows
<1> QED BY <1>7, <1>8, <1>9, <1>10, <1>11, <1>12, <1>13 DEF EnterStep

LEMMA RouteStepLife ==
    ASSUME OneWorker, Reliable, LifeInv, NEW p \in Workers, RouteStep(p)
    PROVE  LifeInv' /\ ActionLifecycle
<1> DEFINE c == turn[p].ctx
           a == pending_action(c)
<1>1. TypeOK'
  BY RouteStepTyped DEF LifeInv
<1>2. /\ c \in Sessions /\ SessionLife(c) /\ TurnLife(turn[p], session) /\ TypeOK
      /\ session \in Sessions /\ SessionLife(session) /\ InputLeft(session)
      /\ a \in Payloads
  BY LifeFacts, SessionFields
<1>3. turn[p].pc = "route"
  BY DEF RouteStep, CancelWaitingInput, PromptStarted, PromptAgain, FillInput, WaitsForInput,
     ConfirmNothing, CancelPending, ConfirmExpired, ConfirmGuarded, ConfirmPending, PassToPlanner,
     Confirms, Routes, At
<1>4. /\ c.input.kind = "none" /\ ~turn[p].granted /\ ~turn[p].syncs
      /\ turn[p].chat => c.state.act = "none" \/ SameAction(c.state, session.state)
  BY <1>2, <1>3 DEF TurnLife
\* A turn that answers after it stored a session, or none
<1>5. ASSUME NEW s, Save(p, s), Answer(p, "note") \/ Answer(p, "clean"), SessionLife(s),
             s.input.kind = "none", turn[p].chat => Follows(session.state, s.state)
      PROVE  LifeInv' /\ ActionLifecycle
  BY <1>1, <1>2, <1>5, LifeSaved, LifeAnswer
<1>6. ASSUME UNCHANGED session, Answer(p, "note") \/ Answer(p, "clean")
      PROVE  LifeInv' /\ ActionLifecycle
  BY <1>1, <1>2, <1>6, LifeAnswer, SameStateFollows
<1>7. ASSUME Routes(p), HasPending(p)
      PROVE  /\ c.state.act \in {"none", "waiting_confirmation", "confirmed"}
             /\ a.id # 0
  BY <1>2, <1>7 DEF Routes, HasPending, pending_action, SessionLife, Waits
<1>8. CASE CancelWaitingInput(p)
  <2> DEFINE s == mark_terminal(c, "cancelled")
  <2>1. c.state.act = "waiting_input" /\ Save(p, s) /\ Answer(p, "note")
    BY <1>8 DEF CancelWaitingInput, WaitsForInput
  <2>2. Written(s, "cancelled", c.state.held, NoPayload, c.input)
    BY <1>2, ConstantsTyped, OperationsWrite
  <2> HIDE DEF s
  <2>3. SessionLife(s) /\ s.input.kind = "none"
        /\ (turn[p].chat => Follows(session.state, s.state))
    BY <1>2, <1>4, <2>1, <2>2, LifeEmpty DEF SessionLife, Written, Follows, SameAction
  <2> QED BY <1>5, <2>1, <2>3
<1>9. CASE PromptStarted(p)
  <2> DEFINE s == [c EXCEPT !.started = FALSE]
  <2>1. Save(p, s) /\ Answer(p, "note") /\ c.state.act = "waiting_input"
    BY <1>9 DEF PromptStarted, WaitsForInput
  <2>2. s.state = c.state /\ s.pending = c.pending /\ s.input = c.input
    BY <1>2, KeysWrite
  <2> HIDE DEF s
  <2>3. SessionLife(s) /\ s.input.kind = "none"
        /\ (turn[p].chat => Follows(session.state, s.state))
    BY <1>2, <1>4, <2>1, <2>2 DEF SessionLife, Follows, SameAction
  <2> QED BY <1>5, <2>1, <2>3
<1>10. CASE PromptAgain(p)
  BY <1>6, <1>10 DEF PromptAgain
<1>11. CASE FillInput(p)
  <2> DEFINE f == with_user_input(waiting_input_action(c))
             s == mark_runtime_action_waiting_confirmation(c, f)
  <2>1. c.state.act = "waiting_input" /\ Save(p, s) /\ Answer(p, "note")
    BY <1>11 DEF FillInput, WaitsForInput
  <2>2. f \in Payloads /\ f.id = c.state.held.id
    BY <1>2, <2>1, SessionFields, PayloadFields DEF waiting_input_action, with_user_input, Payloads
  <2>3. Written(s, "waiting_confirmation", f, f, c.input)
    BY <1>2, <2>2, ConstantsTyped, OperationsWrite
  <2> HIDE DEF s, f
  <2>4. SessionLife(s) /\ s.input.kind = "none"
        /\ (turn[p].chat => Follows(session.state, s.state))
    BY <1>2, <1>4, <2>1, <2>2, <2>3 DEF SessionLife, Written, Follows, Waits
  <2> QED BY <1>5, <2>1, <2>4
<1>12. CASE ConfirmNothing(p)
  BY <1>6, <1>12 DEF ConfirmNothing
<1>13. ASSUME NEW x \in {"cancelled", "stale"}, Routes(p), HasPending(p), Answer(p, "note"),
              IF latest_action_exists(c) THEN Save(p, mark_terminal(c, x)) ELSE UNCHANGED session
       PROVE  LifeInv' /\ ActionLifecycle
  <2> DEFINE s == mark_terminal(c, x)
  <2>1. CASE latest_action_exists(c)
    <3>1. c.state.act \in {"waiting_confirmation", "confirmed"} /\ Save(p, s)
      BY <1>7, <1>13, <2>1 DEF latest_action_exists
    <3>2. Written(s, x, c.state.held, NoPayload, c.input)
      BY <1>2, ConstantsTyped, OperationsWrite
    <3> HIDE DEF s
    <3>3. SessionLife(s) /\ s.input.kind = "none"
          /\ (turn[p].chat => Follows(session.state, s.state))
      BY <1>2, <1>4, <3>1, <3>2, LifeEmpty DEF SessionLife, Written, Follows, SameAction
    <3> QED BY <1>5, <1>13, <3>1, <3>3
  <2>2. CASE ~latest_action_exists(c)
    BY <1>6, <1>13, <2>2
  <2> QED BY <2>1, <2>2
<1>14. CASE CancelPending(p)
  BY <1>13, <1>14 DEF CancelPending
<1>15. CASE ConfirmExpired(p)
  BY <1>13, <1>15 DEF ConfirmExpired, Confirms
<1>16. CASE ConfirmGuarded(p)
  <2> DEFINE s == mark_runtime_action_done(c, FALSE)
  <2>1. Routes(p) /\ HasPending(p) /\ Answer(p, "clean")
        /\ IF Writes_done(c, FALSE) THEN Save(p, s) ELSE UNCHANGED session
    BY <1>16 DEF ConfirmGuarded, Confirms
  <2>2. CASE Writes_done(c, FALSE)
    <3>1. c.state.act \in {"waiting_confirmation", "confirmed"} /\ Save(p, s)
      BY <1>7, <2>1, <2>2 DEF Writes_done, latest_action_exists
    <3>2. Written(s, "failed", c.state.held, NoPayload, c.input)
      BY <1>2, ConstantsTyped, OperationsWrite DEF DoneStatus
    <3> HIDE DEF s
    <3>3. SessionLife(s) /\ s.input.kind = "none"
          /\ (turn[p].chat => Follows(session.state, s.state))
      BY <1>2, <1>4, <3>1, <3>2, LifeEmpty DEF SessionLife, Written, Follows, SameAction
    <3> QED BY <1>5, <2>1, <3>1, <3>3
  <2>3. CASE ~Writes_done(c, FALSE)
    BY <1>6, <2>1, <2>3
  <2> QED BY <2>2, <2>3
<1>17. CASE ConfirmPending(p)
  <2> DEFINE s == IF latest_action_exists(c) THEN mark_runtime_action_confirmed(c) ELSE c
             u == WithoutPending(s)
             t == [turn[p] EXCEPT !.pc = "plan", !.msg = a.message, !.conf = a,
                                  !.granted = TRUE, !.ctx = u]
  <2>1. /\ Routes(p) /\ HasPending(p) /\ turn' = [turn EXCEPT ![p] = t]
        /\ IF Writes_confirmed(c) THEN Save(p, s) ELSE UNCHANGED session
    BY <1>17 DEF ConfirmPending, Confirms
  <2>2. s \in Sessions /\ mark_runtime_action_confirmed(c) \in Sessions
    BY <1>2, ConstantsTyped, StateOperationsTyped
  <2>3. u.state = s.state /\ u.pending = NoPayload /\ u.input = s.input
    BY <2>2, KeysWrite
  <2>4. /\ Written(s, IF c.state.act = "none" THEN "none" ELSE "confirmed", c.state.held,
                   c.pending, c.input)
    BY <1>2, ConstantsTyped, OperationsWrite DEF latest_action_exists, Written
  <2>5. c.state.act \in {"none", "confirmed"} => s.state.act = c.state.act
    BY <2>4 DEF Written
  <2>6. t.ctx = u /\ t.buf = turn[p].buf /\ t.pc = "plan" /\ t.granted /\ ~t.syncs
        /\ t.chat = turn[p].chat
    BY <1>2, <1>4, LifeFacts DEF Turns
  <2>7. c.state.act \in {"none", "waiting_confirmation", "confirmed"}
    BY <1>7, <2>1
  <2>8. Writes_confirmed(c) <=> c.state.act = "waiting_confirmation"
    BY <2>7 DEF Writes_confirmed, latest_action_exists
  <2>9. c.state.act = "none" => s = c
    BY DEF latest_action_exists
  <2> HIDE DEF t, u, s
  <2>10. SessionLife(s) /\ s.input.kind = "none" /\ SessionLife(u) /\ u.input.kind = "none"
    BY <1>2, <1>4, <2>3, <2>4, LifeEmpty DEF SessionLife, Written, Waits
  <2>11. CASE Writes_confirmed(c)
    <3>1. turn[p].chat => Follows(session.state, s.state)
      BY <1>4, <2>4, <2>8, <2>11 DEF Written, Follows, SameAction
    <3>2. SessionLife(session') /\ InputLeft(session') /\ ActionLifecycle
      BY <2>1, <2>10, <2>11, <3>1, LifeSaved
    <3>3. turn[p].chat => SameAction(u.state, session'.state)
      BY <2>1, <2>3, <2>11, ReliableFacts DEF SameAction
    <3>4. TurnLife(t, session')
      BY <2>3, <2>4, <2>6, <2>10, <3>3, LifeFacts, LifeEmpty DEF TurnLife, Written
    <3> QED BY <1>1, <1>2, <2>1, <3>2, <3>4, LifeStep
  <2>12. CASE ~Writes_confirmed(c) /\ c.state.act = "none"
    <3>1. session' = session /\ u.state = c.state
      BY <2>1, <2>3, <2>9, <2>12
    <3>2. TurnLife(t, session')
      BY <2>3, <2>6, <2>10, <2>12, <3>1, LifeFacts, LifeEmpty DEF TurnLife
    <3> QED BY <1>1, <1>2, <2>1, <3>1, <3>2, LifeStep, SameStateFollows
  <2>13. CASE c.state.act = "confirmed"
    <3>1. session' = session
      BY <2>1, <2>8, <2>13
    <3>2. SameAction(u.state, c.state)
      BY <2>3, <2>4, <2>13 DEF Written, SameAction
    <3>3. TurnLife(t, session')
      BY <1>4, <2>3, <2>6, <2>10, <2>13, <3>1, <3>2, LifeFacts, LifeEmpty DEF TurnLife, SameAction
    <3> QED BY <1>1, <1>2, <2>1, <3>1, <3>3, LifeStep, SameStateFollows
  <2> QED BY <2>7, <2>8, <2>11, <2>12, <2>13
<1>18. CASE PassToPlanner(p)
  <2>1. session' = session /\ Goto(p, "plan", c)
    BY <1>18 DEF PassToPlanner
  <2>2. LifeInv'
    BY <1>1, <1>2, <1>4, <2>1, LifeMove
  <2> QED BY <2>1, <2>2, SameStateFollows
<1> QED BY <1>8, <1>9, <1>10, <1>11, <1>12, <1>14, <1>15, <1>16, <1>17, <1>18 DEF RouteStep

LEMMA ExecuteStepLife ==
    ASSUME OneWorker, Reliable, LifeInv, NEW p \in Workers, ExecuteStep(p)
    PROVE  LifeInv' /\ ActionLifecycle
<1> DEFINE c == turn[p].ctx
           ok == turn[p].ok
<1>1. TypeOK'
  BY ExecuteStepTyped DEF LifeInv
<1>2. /\ c \in Sessions /\ SessionLife(c) /\ TurnLife(turn[p], session) /\ TypeOK
      /\ session \in Sessions /\ SessionLife(session) /\ InputLeft(session)
      /\ ok \in BOOLEAN
  BY LifeFacts, TurnFields
<1>3. turn[p].pc \in {"plan", "execute", "settle"}
  BY DEF ExecuteStep, AnswerFollowup, AnswerWithoutExecution, RequestConfirmation,
     BeginExecution, Execute, SettleAction, SettleTask, At
<1>4. /\ c.input.kind = "none" /\ ~turn[p].syncs
      /\ turn[p].chat => c.state.act = "none" \/ SameAction(c.state, session.state)
  BY <1>2, <1>3 DEF TurnLife
<1>5. CASE AnswerFollowup(p) \/ AnswerWithoutExecution(p)
  <2>1. session' = session /\ (Answer(p, "note") \/ Answer(p, "clean"))
    BY <1>5 DEF AnswerFollowup, AnswerWithoutExecution
  <2> QED BY <1>1, <1>2, <2>1, LifeAnswer, SameStateFollows
<1>6. CASE RequestConfirmation(p)
  <2> DEFINE a == [id |-> nextId, message |-> turn[p].msg, strategy |-> turn[p].msg,
                   ttl |-> TRUE, missing |-> FALSE]
             s == save_waiting_confirmation_state(c, a)
  <2>1. Save(p, s) /\ Answer(p, "note")
    BY <1>6 DEF RequestConfirmation
  <2>2. nextId \in Ids /\ turn[p].msg \in Strategies
    BY <1>2, <1>6 DEF RequestConfirmation, should_request_confirmation, requires_confirmation,
        TypeOK, Ids
  <2>3. a \in Payloads /\ a.id # 0
    BY <2>2 DEF Payloads, Messages, Ids
  <2>4. Written(s, "waiting_confirmation", a, a, c.input)
    BY <1>2, <2>3, OperationsWrite
  <2> HIDE DEF s, a
  <2>5. SessionLife(s) /\ s.input.kind = "none"
    BY <1>4, <2>3, <2>4 DEF SessionLife, Written, Waits
  <2>6. Follows(session.state, s.state)
    BY <2>4 DEF Written, Follows
  <2>7. SessionLife(session') /\ InputLeft(session') /\ ActionLifecycle
    BY <2>1, <2>5, <2>6, LifeSaved
  <2> QED BY <1>1, <1>2, <2>1, <2>7, LifeAnswer
<1>7. CASE BeginExecution(p)
  <2> DEFINE s == mark_runtime_action_executing(c)
             b == IF turn[p].granted /\ Writes_executing(c) THEN s ELSE c
             t == [turn[p] EXCEPT !.pc = "execute", !.ctx = b]
  <2>1. /\ turn[p].pc = "plan" /\ turn' = [turn EXCEPT ![p] = t]
        /\ IF turn[p].granted /\ Writes_executing(c) THEN Save(p, s) ELSE UNCHANGED session
    BY <1>7 DEF BeginExecution, Goto, At
  <2>2. turn[p].granted => c.state.act \in {"none", "confirmed"}
    BY <1>2, <2>1 DEF TurnLife
  <2>3. Written(s, "executing", c.state.held, c.pending, c.input)
    BY <1>2, ConstantsTyped, OperationsWrite
  <2>4. /\ t.ctx = b /\ t.buf = turn[p].buf /\ t.pc = "execute" /\ t.granted = turn[p].granted
        /\ ~t.syncs /\ t.chat = turn[p].chat
    BY <1>2, <1>4, LifeFacts DEF Turns
  <2>5. Writes_executing(c) <=> c.state.act \notin {"none", "executing"}
    BY DEF Writes_executing, latest_action_exists
  <2>6. CASE turn[p].granted /\ Writes_executing(c)
    <3>1. b = s /\ c.state.act = "confirmed"
      BY <2>2, <2>5, <2>6
    <3> HIDE DEF t, b, s
    <3>2. s.input.kind = "none" /\ (turn[p].chat => Follows(session.state, s.state))
      BY <1>4, <2>3, <3>1 DEF Written, Follows, SameAction
    <3>3. SessionLife(s)
      BY <1>2, <2>1, <2>3, <2>6, <3>1 DEF SessionLife, Written, TurnLife
    <3>4. SessionLife(session') /\ InputLeft(session') /\ ActionLifecycle
      BY <2>1, <2>6, <3>2, <3>3, LifeSaved
    <3>5. turn[p].chat => SameAction(s.state, session'.state)
      BY <2>1, <2>6, ReliableFacts DEF SameAction
    <3>6. t.ctx.state.act = "executing" /\ t.ctx.pending.id = 0 /\ t.ctx = s
      BY <1>2, <2>3, <2>4, <2>6, <3>1 DEF TurnLife, Written
    <3>7. TurnLife(t, session')
      BY <2>4, <2>6, <3>2, <3>3, <3>5, <3>6, LifeFacts DEF TurnLife
    <3> QED BY <1>1, <1>2, <2>1, <3>4, <3>7, LifeStep
  <2>7. CASE ~(turn[p].granted /\ Writes_executing(c))
    <3>1. b = c /\ session' = session
      BY <2>1, <2>7
    <3> HIDE DEF t, b
    <3>2. TurnLife(t, session')
      BY <1>2, <1>4, <2>2, <2>4, <2>5, <2>7, <3>1, LifeFacts DEF TurnLife
    <3> QED BY <1>1, <1>2, <2>1, <3>1, <3>2, LifeStep, SameStateFollows
  <2> QED BY <2>6, <2>7
<1>8. CASE \E success \in BOOLEAN : Execute(p, success)
  <2>1. PICK success \in BOOLEAN : Execute(p, success)
    BY <1>8
  <2> DEFINE t == [turn[p] EXCEPT !.pc = "settle", !.ok = success]
  <2>2. turn[p].pc = "execute" /\ turn' = [turn EXCEPT ![p] = t] /\ session' = session
    BY <2>1 DEF Execute, At
  <2>3. /\ t.ctx = c /\ t.buf = turn[p].buf /\ t.pc = "settle" /\ t.granted = turn[p].granted
        /\ t.syncs = turn[p].syncs /\ t.chat = turn[p].chat
    BY <1>2, LifeFacts DEF Turns
  <2> HIDE DEF t
  <2>4. TurnLife(t, session')
    BY <1>2, <1>4, <2>2, <2>3 DEF TurnLife
  <2> QED BY <1>1, <1>2, <2>2, <2>4, LifeStep, SameStateFollows
<1>9. CASE SettleAction(p)
  <2> DEFINE s == mark_runtime_action_done(c, ok)
  <2>1. /\ turn[p].pc = "settle" /\ turn[p].granted /\ Answer(p, "note")
        /\ IF Writes_done(c, ok) THEN Save(p, s) ELSE UNCHANGED session
    BY <1>9 DEF SettleAction, At
  <2>2. CASE Writes_done(c, ok)
    <3>1. c.state.act = "executing"
      BY <1>2, <2>1, <2>2 DEF TurnLife, Writes_done, latest_action_exists
    <3>2. Written(s, DoneStatus(ok), c.state.held, NoPayload, c.input)
      BY <1>2, ConstantsTyped, OperationsWrite
    <3> HIDE DEF s
    <3>3. SessionLife(s) /\ s.input.kind = "none"
          /\ (turn[p].chat => Follows(session.state, s.state))
      BY <1>2, <1>4, <3>1, <3>2, LifeEmpty DEF SessionLife, Written, Follows, SameAction, DoneStatus
    <3>4. SessionLife(session') /\ InputLeft(session') /\ ActionLifecycle
      BY <2>1, <2>2, <3>3, LifeSaved
    <3> QED BY <1>1, <1>2, <2>1, <3>4, LifeAnswer
  <2>3. CASE ~Writes_done(c, ok)
    BY <1>1, <1>2, <2>1, <2>3, LifeAnswer, SameStateFollows
  <2> QED BY <2>2, <2>3
<1>10. CASE SettleTask(p)
  <2> DEFINE s == save_runtime_task_execution_state(c, ok)
             u == [c EXCEPT !.state = TaskState(ok)]
  <2>1. /\ turn[p].pc = "settle" /\ Save(p, s)
        /\ Answer(p, "note") \/ AnswerKeeping(p, u)
    BY <1>10 DEF SettleTask, At
  <2>2. /\ Written(s, "none", NoPayload, NoPayload, c.input)
        /\ Written(u, "none", NoPayload, c.pending, c.input)
    BY <1>2, ConstantsTyped, OperationsWrite
  <2> HIDE DEF s, u
  <2>3. /\ SessionLife(s) /\ s.input.kind = "none" /\ Follows(session.state, s.state)
        /\ SessionLife(u) /\ u.input.kind = "none" /\ u.state.act = "none"
    BY <1>2, <1>4, <2>2, LifeEmpty DEF SessionLife, Written, Follows
  <2>4. SessionLife(session') /\ InputLeft(session') /\ ActionLifecycle
    BY <2>1, <2>3, LifeSaved
  <2> QED BY <1>1, <1>2, <2>1, <2>3, <2>4, LifeAnswer
<1> QED BY <1>5, <1>6, <1>7, <1>8, <1>9, <1>10 DEF ExecuteStep

\* A turn that loads the session again
Buffers(p, pc, b) == turn' = [turn EXCEPT ![p] = [@ EXCEPT !.pc = pc, !.buf = b]]

LEMMA LifeBuffer ==
    ASSUME OneWorker, LifeInv, TypeOK', NEW p \in Workers,
           NEW pc \in {"note_save", "clean_save", "trace_save", "sync"}, NEW b,
           turn[p].pc \in {"note", "note_save", "clean", "trace"},
           Buffers(p, pc, b), SessionLife(b),
           pc # "sync" => b.state = session'.state /\ b.input = session'.input,
           turn[p].syncs => pc \in {"note_save", "sync"}, pc = "sync" => turn[p].syncs,
           SessionLife(session'), InputLeft(session')
    PROVE  LifeInv'
<1> DEFINE t == [turn[p] EXCEPT !.pc = pc, !.buf = b]
<1>1. /\ t.ctx = turn[p].ctx /\ t.buf = b /\ t.pc = pc /\ t.granted = turn[p].granted
      /\ t.syncs = turn[p].syncs /\ t.chat = turn[p].chat
  BY LifeFacts DEF Turns
<1>2. turn' = [turn EXCEPT ![p] = t]
  BY DEF Buffers
<1> HIDE DEF t
<1>3. TurnLife(t, session')
  BY <1>1, LifeFacts DEF TurnLife
<1> QED BY <1>2, <1>3, LifeFacts, LifeStep

LEMMA FinishStepLife ==
    ASSUME OneWorker, Reliable, LifeInv, NEW p \in Workers, FinishStep(p)
    PROVE  LifeInv' /\ ActionLifecycle
<1> DEFINE c == turn[p].ctx
           b == turn[p].buf
<1>1. TypeOK'
  BY FinishStepTyped DEF LifeInv
<1>2. /\ c \in Sessions /\ SessionLife(c) /\ b \in Sessions /\ SessionLife(b)
      /\ TurnLife(turn[p], session) /\ TypeOK
      /\ session \in Sessions /\ SessionLife(session) /\ InputLeft(session)
  BY LifeFacts
<1>3. ASSUME turn[p].pc \in {"note", "note_save"}, AfterNote(p),
             SessionLife(session'), InputLeft(session')
      PROVE  LifeInv'
  <2>1. CASE turn[p].syncs
    <3>1. Buffers(p, "sync", EmptySession)
      BY <1>3, <2>1 DEF AfterNote, Buffers
    <3> HIDE DEF c, b
    <3> QED BY <1>1, <1>3, <2>1, <3>1, LifeEmpty, LifeBuffer
  <2>2. CASE ~turn[p].syncs
    BY <1>1, <1>2, <1>3, <2>2, LifeAnswer DEF AfterNote
  <2> QED BY <2>1, <2>2
\* Storing what was loaded changes neither the state nor the input.
<1>4. ASSUME turn[p].pc \in {"note_save", "clean_save", "trace_save"}, session' \in Saved(b)
      PROVE  SessionLife(session') /\ InputLeft(session') /\ ActionLifecycle
  <2>1. session' = b
    BY <1>4, ReliableFacts
  <2>2. session'.state = session.state /\ session'.input = session.input
    BY <1>2, <1>4, <2>1 DEF TurnLife
  <2> QED BY <1>2, <2>1, <2>2, SameStateFollows DEF InputLeft
<1>5. CASE Note(p)
  <2>1. turn[p].pc = "note" /\ session' = session
    BY <1>5 DEF Note, At
  <2>2. CASE turn[p].chat
    <3>1. Buffers(p, "note_save", session)
      BY <1>5, <2>2, ReliableFacts DEF Note, Buffers
    <3>2. LifeInv'
      BY <1>1, <1>2, <2>1, <3>1, LifeBuffer
    <3> QED BY <2>1, <3>2, SameStateFollows
  <2>3. CASE ~turn[p].chat
    BY <1>2, <1>3, <1>5, <2>1, <2>3, SameStateFollows DEF Note
  <2> QED BY <2>2, <2>3
<1>6. CASE NoteSave(p)
  BY <1>3, <1>4, <1>6 DEF NoteSave, At
<1>7. CASE Sync(p)
  <2>1. turn[p].pc = "sync" /\ Save(p, c) /\ AfterAnswer(p)
    BY <1>7 DEF Sync, At
  <2>2. c.input.kind = "none" /\ Follows(session.state, c.state)
    BY <1>2, <2>1 DEF TurnLife, SessionLife, Follows
  <2>3. SessionLife(session') /\ InputLeft(session') /\ ActionLifecycle
    BY <1>2, <2>1, <2>2, LifeSaved
  <2> QED BY <1>1, <1>2, <2>1, <2>3, LifeAnswer
<1>8. CASE Clean(p)
  <2>1. turn[p].pc = "clean" /\ session' = session
    BY <1>8 DEF Clean, At
  <2>2. \/ Leave(p) \/ Answer(p, "trace")
        \/ Buffers(p, "clean_save", Cleaned(session))
    BY <1>8, ReliableFacts DEF Clean, Buffers
  <2>3. CASE Leave(p) \/ Answer(p, "trace")
    BY <1>1, <1>2, <2>1, <2>3, LifeAnswer, SameStateFollows
  <2>4. CASE Buffers(p, "clean_save", Cleaned(session))
    <3>1. /\ Cleaned(session).state = session.state /\ Cleaned(session).input = session.input
          /\ Cleaned(session).pending \in {session.pending, NoPayload}
      BY <1>2, KeysWrite
    <3>2. SessionLife(Cleaned(session))
      BY <1>2, <3>1, LifeEmpty DEF SessionLife
    <3>3. ~turn[p].syncs
      BY <1>2, <2>1 DEF TurnLife
    <3>4. LifeInv'
      BY <1>1, <1>2, <2>1, <2>4, <3>1, <3>2, <3>3, LifeBuffer
    <3> QED BY <2>1, <3>4, SameStateFollows
  <2> QED BY <2>2, <2>3, <2>4
<1>9. CASE CleanSave(p)
  BY <1>1, <1>2, <1>4, <1>9, LifeAnswer DEF CleanSave, At
<1>10. CASE Trace(p)
  <2>1. turn[p].pc = "trace" /\ session' = session
    BY <1>10 DEF Trace, At
  <2>2. Buffers(p, "trace_save", session)
    BY <1>10, ReliableFacts DEF Trace, Buffers
  <2>3. ~turn[p].syncs
    BY <1>2, <2>1 DEF TurnLife
  <2>4. LifeInv'
    BY <1>1, <1>2, <2>1, <2>2, <2>3, LifeBuffer
  <2> QED BY <2>1, <2>4, SameStateFollows
<1>11. CASE TraceSave(p)
  BY <1>1, <1>2, <1>4, <1>11, LifeAnswer DEF TraceSave, At
<1> QED BY <1>5, <1>6, <1>7, <1>8, <1>9, <1>10, <1>11 DEF FinishStep

LEMMA ArriveLife ==
    ASSUME OneWorker, Reliable, LifeInv, NEW p \in Workers, Arrive(p)
    PROVE  LifeInv' /\ ActionLifecycle
<1>1. TypeOK' /\ TypeOK /\ SessionLife(session) /\ InputLeft(session) /\ session \in Sessions
  BY ArriveTyped, LifeFacts
\* The session a turn starts from: the stored one with any input, or an empty one
<1>2. ASSUME NEW m, NEW chat \in BOOLEAN, NEW bot, NEW c, Start(p, m, chat, bot, c), session' = session,
             SessionLife(c), c.state.act = "none" \/ c.state = session.state,
             c.input.kind \in {"missing", "cancel"} => session.state.act = "none",
             c.input.kind \in {"missing", "cancel", "confirmed"} => c.input.id # 0
      PROVE  LifeInv' /\ ActionLifecycle
  <2> DEFINE t == [Idle EXCEPT !.pc = "entry", !.msg = m, !.chat = chat, !.bot = bot, !.ctx = c]
  <2>1. /\ t.ctx = c /\ t.buf = EmptySession /\ t.pc = "entry" /\ ~t.granted
        /\ ~t.syncs /\ t.chat = chat
    BY DEF Idle
  <2>2. turn' = [turn EXCEPT ![p] = t]
    BY <1>2 DEF Start
  <2> HIDE DEF t
  <2>3. TurnLife(t, session')
    BY <1>2, <2>1, LifeEmpty DEF TurnLife, SameAction
  <2> QED BY <1>1, <1>2, <2>2, <2>3, LifeStep, SameStateFollows
<1>3. CASE \E m \in Texts : ReceiveMessage(p, m)
  <2>1. PICK m \in Texts : ReceiveMessage(p, m)
    BY <1>3
  <2>2. Start(p, m, TRUE, TRUE, session) /\ session' = session
    BY <2>1, ReliableFacts DEF ReceiveMessage
  <2>3. /\ session.input.kind \in {"missing", "cancel"} => session.state.act = "none"
        /\ session.input.kind \in {"missing", "cancel", "confirmed"} => session.input.id # 0
    BY <1>1 DEF InputLeft
  <2> QED BY <1>1, <1>2, <2>2, <2>3
<1>4. CASE \E m \in {"approve", "reject"}, r \in PortalRequests, id \in Ids :
              PortalAction(p, m, r, id)
  <2>1. PICK m \in {"approve", "reject"}, r \in PortalRequests, id \in Ids :
              PortalAction(p, m, r, id)
    BY <1>4
  <2> DEFINE i == [kind |-> IF r.confirm THEN "confirmed" ELSE "plain",
                   id |-> id, message |-> m, strategy |-> m]
  <2>2. PICK s \in IF r.chat THEN Loaded ELSE {EmptySession} :
          Start(p, m, r.chat, FALSE, [s EXCEPT !.input = i])
    BY <2>1 DEF PortalAction
  <2>3. s \in {session, EmptySession} /\ s \in Sessions /\ SessionLife(s)
    BY <1>1, ReliableFacts, LifeEmpty, ConstantsTyped
  <2>4. session' = session /\ r.chat \in BOOLEAN
    BY <2>1, RuntimeAssumption DEF PortalAction
  <2>5. i.kind \in {"confirmed", "plain"} /\ i.id # 0
    BY DEF Ids
  <2> HIDE DEF i
  <2> DEFINE c == [s EXCEPT !.input = i]
  <2>6. c.state = s.state /\ c.pending = s.pending /\ c.input = i
    BY <2>3, KeysWrite
  <2> HIDE DEF c
  <2>7. Start(p, m, r.chat, FALSE, c)
    BY <2>2 DEF c
  <2>8. SessionLife(c) /\ (c.state.act = "none" \/ c.state = session.state)
    BY <2>3, <2>6, LifeEmpty DEF SessionLife
  <2> QED BY <1>2, <2>4, <2>5, <2>6, <2>7, <2>8
<1>5. CASE PortalQuery(p)
  <2>1. Start(p, "query", TRUE, FALSE, EmptySession) /\ session' = session
    BY <1>5 DEF PortalQuery
  <2> QED BY <1>2, <2>1, LifeEmpty
<1> QED BY <1>3, <1>4, <1>5 DEF Arrive

LEMMA EnvironmentLife ==
    ASSUME OneWorker, LifeInv, Environment
    PROVE  LifeInv' /\ ActionLifecycle
<1>1. TypeOK' /\ TypeOK /\ SessionLife(session) /\ InputLeft(session)
  BY EnvironmentTyped DEF LifeInv
<1>2. CASE \E p \in Workers : Crash(p)
  <2>1. PICK p \in Workers : Leave(p) /\ session' = session
    BY <1>2 DEF Crash
  <2> QED BY <1>1, <2>1, LifeAnswer, SameStateFollows
<1>3. CASE \E id \in Ids : Lapse(id)
  <2>1. session' = session /\ turn' = turn
    BY <1>3 DEF Lapse
  <2> QED BY <1>1, <2>1, SameStateFollows DEF LifeInv
<1>4. CASE ExpireSession
  <2>1. session' = EmptySession /\ turn' = turn /\ \A p \in Workers : turn[p].pc = "idle"
    BY <1>4 DEF ExpireSession, At
  <2>2. \A p \in Workers : TurnLife(turn'[p], session')
    BY <2>1 DEF LifeInv, TurnLife
  <2>3. Follows(session.state, session'.state)
    BY <1>1, <2>1, LifeEmpty DEF Follows, SessionLife
  <2> QED BY <1>1, <2>1, <2>2, <2>3, LifeEmpty, FollowsLifecycle DEF LifeInv
<1> QED BY <1>2, <1>3, <1>4 DEF Environment

LEMMA LifeInit == InputsNamed /\ Init => LifeInv
<1> SUFFICES ASSUME InputsNamed, Init PROVE LifeInv
  OBVIOUS
<1>1. PICK i \in InputsLeft \cup {NoInput} : session = [EmptySession EXCEPT !.input = i]
  BY DEF Init
<1>2. session.state = EmptySession.state /\ session.pending = EmptySession.pending
      /\ session.input = i
  BY <1>1, ConstantsTyped, KeysWrite
<1>3. i.kind # "none" => /\ i.kind \in {"legacy", "no_company", "missing", "cancel"}
                         /\ i.kind \in {"missing", "cancel"} => i.id # 0
  BY LifeEmpty, RuntimeAssumption DEF InputsNamed, Inputs, InputKinds
<1>4. SessionLife(session) /\ InputLeft(session)
  BY <1>2, <1>3, LifeEmpty DEF SessionLife, InputLeft
<1>5. TurnLife(Idle, session)
  BY LifeEmpty DEF TurnLife, Idle
<1> QED BY <1>4, <1>5, InitTyped DEF LifeInv, Init

LEMMA LifeNext ==
    ASSUME OneWorker, Reliable, LifeInv, [Next]_vars
    PROVE  LifeInv' /\ [ActionLifecycle]_vars
<1>1. CASE \E p \in Workers : Arrive(p) \/ TurnStep(p)
  BY <1>1, ArriveLife, EnterStepLife, RouteStepLife, ExecuteStepLife, FinishStepLife
     DEF TurnStep
<1>2. CASE Environment
  BY <1>2, EnvironmentLife
<1>3. CASE UNCHANGED vars
  BY <1>3 DEF vars, history, LifeInv, TypeOK
<1> QED BY <1>1, <1>2, <1>3 DEF Next

\* With one worker and no failing Redis the recorded life of an action has no
\* shortcut, whatever messages and portal requests arrive, confirmed or sent
\* twice, and wherever a turn dies (runtime.py, runtime_state.py).
THEOREM LifecycleKept ==
    ASSUME OneWorker, Reliable, InputsNamed
    PROVE  Spec => ActionsFollowLifecycle
<1>1. Init => LifeInv
  BY LifeInit
<1>2. LifeInv /\ [Next]_vars => LifeInv' /\ [ActionLifecycle]_vars
  BY LifeNext
<1> QED BY <1>1, <1>2, PTL DEF Spec, ActionsFollowLifecycle

-----------------------------------------------------------------------------
(* One worker and no question in the chat: the pending key names the action *)
(* that the state says is waiting                                          *)

OnlyWrites == Texts \subseteq Strategies \cup {"confirm", "cancel"}

Held(s) == s.pending.id # 0 => s.state.act \in Waits /\ s.state.held = s.pending

\* What a turn about to be routed was asked: a write, an answer to the pending
\* action, the parameter an action waits for, or a question of the portal, which
\* starts from an empty session.
Asked(t) ==
    \/ t.msg \in Strategies \cup {"confirm", "cancel"}
    \/ t.ctx.state.act = "none" /\ t.ctx.pending.id = 0
    \/ t.ctx.state.act = "waiting_input"

TurnHeld(t) ==
    /\ Held(t.ctx) /\ Held(t.buf)
    /\ t.syncs => t.ctx.pending.id = 0
    /\ t.pc \in {"entry", "route"} => Asked(t)
    /\ t.pc = "entry" /\ t.ctx.input.kind = "plain" => t.ctx.input.message \in Strategies
    /\ ~t.chat => /\ t.pc \in {"entry", "confirm_input", "route"} => t.msg # "cancel"
                  /\ t.pc = "entry" => t.ctx.input.kind \notin {"missing", "cancel"}
    /\ IF t.granted
       THEN t.ctx.state.held = t.conf /\ t.ctx.state.act # "none"
       ELSE /\ t.pc \in {"plan", "execute", "settle"} => t.msg \in Strategies \/ t.ctx.pending.id = 0
            /\ t.chat /\ t.pc \in {"execute", "settle"} => t.msg \notin Strategies

HeldInv == LifeInv /\ Held(session) /\ \A p \in Workers : TurnHeld(turn[p])

LEMMA HeldEmpty == Held(EmptySession) /\ EmptySession.pending.id = 0
BY DEF Held, EmptySession, NoPayload

LEMMA HeldFacts ==
    ASSUME HeldInv, NEW p \in Workers
    PROVE  /\ LifeInv /\ TypeOK /\ turn[p] \in Turns
           /\ TurnLife(turn[p], session) /\ TurnHeld(turn[p])
           /\ turn[p].ctx \in Sessions /\ SessionLife(turn[p].ctx) /\ Held(turn[p].ctx)
           /\ turn[p].buf \in Sessions /\ Held(turn[p].buf)
           /\ session \in Sessions /\ SessionLife(session) /\ Held(session)
BY LifeFacts DEF HeldInv, TurnHeld

LEMMA HeldStep ==
    ASSUME OneWorker, HeldInv, LifeInv', NEW p \in Workers, NEW t, turn' = [turn EXCEPT ![p] = t],
           TurnHeld(t), Held(session')
    PROVE  HeldInv'
<1>1. ASSUME NEW q \in Workers
      PROVE  TurnHeld(turn'[q])
  BY DEF OneWorker, HeldInv, LifeInv, TypeOK
<1> QED BY <1>1 DEF HeldInv

LEMMA HeldSaved ==
    ASSUME Reliable, HeldInv, NEW p \in Workers, NEW s, Save(p, s), Held(s)
    PROVE  Held(session')
BY ReliableFacts DEF HeldInv

LEMMA HeldAnswer ==
    ASSUME OneWorker, HeldInv, LifeInv', NEW p \in Workers, Held(session'),
           \/ \E pc \in {"note", "clean", "trace"} : Answer(p, pc)
           \/ \E c : AnswerKeeping(p, c) /\ c.pending.id = 0
           \/ Leave(p) \/ AfterAnswer(p)
    PROVE  HeldInv'
<1>1. ASSUME NEW pc \in {"note", "clean", "trace"}, Answer(p, pc)
      PROVE  HeldInv'
  <2> DEFINE t == [Idle EXCEPT !.pc = pc, !.chat = turn[p].chat, !.bot = turn[p].bot]
  <2>1. /\ t.ctx = EmptySession /\ t.buf = EmptySession /\ t.pc = pc /\ ~t.granted /\ ~t.syncs
        /\ t.msg = "none"
    BY DEF Idle
  <2>2. turn' = [turn EXCEPT ![p] = t]
    BY <1>1 DEF Answer
  <2> HIDE DEF t
  <2>3. TurnHeld(t)
    BY <2>1, HeldEmpty DEF TurnHeld
  <2> QED BY <2>2, <2>3, HeldStep
<1>2. ASSUME NEW c, AnswerKeeping(p, c), c.pending.id = 0
      PROVE  HeldInv'
  <2> DEFINE t == [Idle EXCEPT !.pc = "note", !.chat = turn[p].chat, !.bot = turn[p].bot,
                               !.syncs = TRUE, !.ctx = c]
  <2>1. t.ctx = c /\ t.buf = EmptySession /\ t.pc = "note" /\ ~t.granted /\ t.msg = "none"
    BY DEF Idle
  <2>2. turn' = [turn EXCEPT ![p] = t]
    BY <1>2 DEF AnswerKeeping
  <2> HIDE DEF t
  <2>3. TurnHeld(t)
    BY <1>2, <2>1, HeldEmpty DEF TurnHeld, Held
  <2> QED BY <2>2, <2>3, HeldStep
<1>3. ASSUME Leave(p)
      PROVE  HeldInv'
  <2>1. TurnHeld(Idle)
    BY HeldEmpty DEF TurnHeld, Idle
  <2> QED BY <1>3, <2>1, HeldStep DEF Leave
<1> QED BY <1>1, <1>2, <1>3 DEF AfterAnswer

\* A turn that goes on with another session, and another message or the same
Moves(p, pc, m, c) ==
    \/ turn' = [turn EXCEPT ![p] = [@ EXCEPT !.pc = pc, !.msg = m, !.ctx = c]]
    \/ Goto(p, pc, c) /\ m = turn[p].msg

LEMMA HeldMove ==
    ASSUME OneWorker, HeldInv, LifeInv', NEW p \in Workers, NEW pc \in {"confirm_input", "route", "plan"},
           NEW m, NEW c, Moves(p, pc, m, c), ~turn[p].granted, ~turn[p].syncs,
           Held(c), Held(session'),
           pc = "route" => \/ m \in Strategies \cup {"confirm", "cancel"}
                           \/ c.state.act = "none" /\ c.pending.id = 0
                           \/ c.state.act = "waiting_input",
           pc = "plan" => m \in Strategies \/ c.pending.id = 0,
           ~turn[p].chat => pc = "plan" \/ m # "cancel"
    PROVE  HeldInv'
<1>1. PICK t : /\ turn' = [turn EXCEPT ![p] = t] /\ t.ctx = c /\ t.buf = turn[p].buf /\ t.pc = pc
               /\ t.chat = turn[p].chat /\ ~t.granted /\ ~t.syncs /\ t.msg = m
  <2> DEFINE t == [turn[p] EXCEPT !.pc = pc, !.msg = m, !.ctx = c]
             u == [turn[p] EXCEPT !.pc = pc, !.ctx = c]
  <2>1. /\ t.ctx = c /\ t.buf = turn[p].buf /\ t.pc = pc
        /\ t.chat = turn[p].chat /\ ~t.granted /\ ~t.syncs /\ t.msg = m
    BY HeldFacts DEF Turns
  <2>2. /\ u.ctx = c /\ u.buf = turn[p].buf /\ u.pc = pc
        /\ u.chat = turn[p].chat /\ ~u.granted /\ ~u.syncs /\ u.msg = turn[p].msg
    BY HeldFacts DEF Turns
  <2>3. turn' = [turn EXCEPT ![p] = t] \/ (turn' = [turn EXCEPT ![p] = u] /\ m = turn[p].msg)
    BY DEF Goto, Moves
  <2> HIDE DEF t, u
  <2> QED BY <2>1, <2>2, <2>3
<1>2. TurnHeld(t)
  BY <1>1, HeldFacts DEF TurnHeld, Asked
<1> QED BY <1>1, <1>2, HeldStep

LEMMA HeldBuffer ==
    ASSUME OneWorker, HeldInv, LifeInv', NEW p \in Workers,
           NEW pc \in {"note_save", "clean_save", "trace_save", "sync"}, NEW b,
           turn[p].pc \in {"note", "note_save", "clean", "trace"},
           Buffers(p, pc, b), Held(b), Held(session')
    PROVE  HeldInv'
<1> DEFINE t == [turn[p] EXCEPT !.pc = pc, !.buf = b]
<1>1. /\ t.ctx = turn[p].ctx /\ t.buf = b /\ t.pc = pc /\ t.granted = turn[p].granted
      /\ t.syncs = turn[p].syncs /\ t.chat = turn[p].chat /\ t.msg = turn[p].msg
  BY HeldFacts DEF Turns
<1>2. turn' = [turn EXCEPT ![p] = t] /\ ~turn[p].granted
  BY HeldFacts DEF Buffers, TurnLife
<1> HIDE DEF t
<1>3. TurnHeld(t)
  BY <1>1, <1>2, HeldFacts DEF TurnHeld
<1> QED BY <1>2, <1>3, HeldStep

LEMMA EnterStepHeld ==
    ASSUME OneWorker, Reliable, HeldInv, NEW p \in Workers, EnterStep(p)
    PROVE  HeldInv'
<1> DEFINE c == turn[p].ctx
           made(missing) == pending_from_input(c.input, missing)
<1>1. LifeInv'
  BY EnterStepLife DEF HeldInv
<1>2. /\ c \in Sessions /\ Held(c) /\ TurnLife(turn[p], session) /\ TurnHeld(turn[p])
      /\ Held(session) /\ SessionLife(c)
  BY HeldFacts
<1>3. /\ Consumed(c) \in Sessions /\ Consumed(c).state = c.state
      /\ Consumed(c).pending = c.pending /\ Consumed(c).input.kind = "none"
      /\ Held(Consumed(c))
  BY <1>2, StateOperationsTyped, ConstantsTyped, KeysWrite, LifeEmpty DEF Consumed, Held
<1>4. /\ made(TRUE) \in Payloads /\ made(FALSE) \in Payloads
  BY <1>2, SessionFields, InputFields DEF pending_from_input
<1>5. turn[p].pc \in {"entry", "confirm_input"} => ~turn[p].granted /\ ~turn[p].syncs
  BY <1>2 DEF TurnLife
<1>6. CASE EnterWithoutInput(p)
  <2>1. session' = session /\ Moves(p, "route", turn[p].msg, c) /\ turn[p].pc = "entry"
    BY <1>6 DEF EnterWithoutInput, At, Moves
  <2>2. Asked(turn[p]) /\ (~turn[p].chat => turn[p].msg # "cancel")
    BY <1>2, <2>1 DEF TurnHeld
  <2> QED BY <1>1, <1>2, <1>5, <2>1, <2>2, HeldMove DEF Asked
<1>7. CASE RejectInput(p)
  BY <1>1, <1>3, <1>7, HeldSaved, HeldAnswer DEF RejectInput
<1>8. CASE EnterMissingInput(p)
  <2> DEFINE s == save_waiting_input_state(Consumed(c), made(TRUE))
             u == [s EXCEPT !.started = TRUE]
  <2>1. /\ turn[p].pc = "entry" /\ c.input.kind = "missing" /\ Save(p, s)
        /\ Moves(p, "route", c.input.message, u)
    BY <1>8 DEF EnterMissingInput, At, Moves
  <2>2. s \in Sessions /\ Written(s, "waiting_input", made(TRUE), made(TRUE), Consumed(c).input)
    BY <1>3, <1>4, StateOperationsTyped, OperationsWrite
  <2> HIDE DEF s
  <2>3. u.state = s.state /\ u.pending = s.pending
    BY <2>2, KeysWrite
  <2> HIDE DEF u
  <2>4. Held(s) /\ Held(u) /\ u.state.act = "waiting_input"
    BY <2>2, <2>3 DEF Held, Written, Waits
  <2>5. turn[p].chat
    BY <1>2, <2>1 DEF TurnHeld
  <2> QED BY <1>1, <1>5, <2>1, <2>4, <2>5, HeldSaved, HeldMove
<1>9. CASE EnterCancelInput(p) \/ EnterConfirmedInput(p)
  <2> DEFINE s == save_waiting_confirmation_state(Consumed(c), made(FALSE))
  <2>1. /\ turn[p].pc = "entry" /\ Save(p, s)
        /\ \/ c.input.kind = "cancel" /\ Moves(p, "route", "cancel", s)
           \/ c.input.kind = "confirmed" /\ Moves(p, "confirm_input", turn[p].msg, s)
    BY <1>9 DEF EnterCancelInput, EnterConfirmedInput, At, Moves
  <2>2. Written(s, "waiting_confirmation", made(FALSE), made(FALSE), Consumed(c).input)
    BY <1>3, <1>4, OperationsWrite
  <2> HIDE DEF s
  <2>3. Held(s)
    BY <2>2 DEF Held, Written, Waits
  <2>4. /\ c.input.kind = "cancel" => turn[p].chat
        /\ ~turn[p].chat => turn[p].msg # "cancel"
    BY <1>2, <2>1 DEF TurnHeld
  <2> QED BY <1>1, <1>5, <2>1, <2>3, <2>4, HeldSaved, HeldMove
<1>10. CASE ConfirmInput(p)
  <2> DEFINE s == mark_runtime_action_confirmed(c)
  <2>1. /\ turn[p].pc = "confirm_input" /\ Save(p, s) /\ Moves(p, "route", "confirm", s)
    BY <1>10 DEF ConfirmInput, At, Moves
  <2>2. Written(s, "confirmed", c.state.held, c.pending, c.input)
    BY <1>2, ConstantsTyped, OperationsWrite
  <2> HIDE DEF s
  <2>3. Held(s)
    BY <1>2, <2>2 DEF Held, Written, Waits
  <2> QED BY <1>1, <1>5, <2>1, <2>3, HeldSaved, HeldMove
<1>11. CASE EnterPlainInput(p)
  <2>1. /\ turn[p].pc = "entry" /\ c.input.kind = "plain" /\ session' = session
        /\ Moves(p, "route", c.input.message, Consumed(c))
    BY <1>11 DEF EnterPlainInput, At, Moves
  <2>2. c.input.message \in Strategies
    BY <1>2, <2>1 DEF TurnHeld
  <2> QED BY <1>1, <1>2, <1>3, <1>5, <2>1, <2>2, HeldMove DEF Strategies
<1> QED BY <1>6, <1>7, <1>8, <1>9, <1>10, <1>11 DEF EnterStep

\* What a turn confirms or cancels is the payload of the recorded action.
LEMMA PendingIsHeld ==
    ASSUME HeldInv, NEW p \in Workers, Routes(p), HasPending(p)
    PROVE  LET c == turn[p].ctx
           IN /\ c.state.act \in {"waiting_confirmation", "confirmed"}
              /\ pending_action(c) = c.state.held /\ latest_action_exists(c)
<1> DEFINE c == turn[p].ctx
<1>1. SessionLife(c) /\ Held(c) /\ c.state.act # "waiting_input" /\ pending_action(c).id # 0
  BY HeldFacts DEF Routes, HasPending
<1> HIDE DEF c
<1> QED BY <1>1 DEF SessionLife, Held, pending_action, latest_action_exists, Waits, c

LEMMA RouteStepHeld ==
    ASSUME OneWorker, Reliable, HeldInv, NEW p \in Workers, RouteStep(p)
    PROVE  HeldInv'
<1> DEFINE c == turn[p].ctx
           a == pending_action(c)
<1>1. LifeInv'
  BY RouteStepLife DEF HeldInv
<1>2. /\ c \in Sessions /\ SessionLife(c) /\ Held(c) /\ Held(session)
      /\ TurnLife(turn[p], session) /\ TurnHeld(turn[p])
  BY HeldFacts
<1>3. turn[p].pc = "route"
  BY DEF RouteStep, CancelWaitingInput, PromptStarted, PromptAgain, FillInput, WaitsForInput,
     ConfirmNothing, CancelPending, ConfirmExpired, ConfirmGuarded, ConfirmPending, PassToPlanner,
     Confirms, Routes, At
<1>4. ~turn[p].granted /\ ~turn[p].syncs /\ Asked(turn[p])
      /\ (~turn[p].chat => turn[p].msg # "cancel")
  BY <1>2, <1>3 DEF TurnLife, TurnHeld
<1>5. ASSUME NEW s, Save(p, s), Answer(p, "note") \/ Answer(p, "clean"), Held(s)
      PROVE  HeldInv'
  BY <1>1, <1>5, HeldSaved, HeldAnswer
<1>6. ASSUME UNCHANGED session, Answer(p, "note") \/ Answer(p, "clean")
      PROVE  HeldInv'
  BY <1>1, <1>2, <1>6, HeldAnswer
<1>7. ASSUME NEW x
      PROVE  Held(mark_terminal(c, x))
  <2>1. Written(mark_terminal(c, x), x, c.state.held, NoPayload, c.input)
    BY <1>2, ConstantsTyped, OperationsWrite
  <2> QED BY <2>1, LifeEmpty DEF Held, Written
<1>8. CASE CancelWaitingInput(p)
  BY <1>5, <1>7, <1>8 DEF CancelWaitingInput
<1>9. CASE PromptStarted(p)
  <2> DEFINE s == [c EXCEPT !.started = FALSE]
  <2>1. s.state = c.state /\ s.pending = c.pending
    BY <1>2, KeysWrite
  <2>2. Save(p, s) /\ Answer(p, "note")
    BY <1>9 DEF PromptStarted
  <2> HIDE DEF s
  <2> QED BY <1>2, <1>5, <2>1, <2>2 DEF Held
<1>10. CASE PromptAgain(p) \/ ConfirmNothing(p)
  BY <1>6, <1>10 DEF PromptAgain, ConfirmNothing
<1>11. CASE FillInput(p)
  <2> DEFINE f == with_user_input(waiting_input_action(c))
             s == mark_runtime_action_waiting_confirmation(c, f)
  <2>1. Save(p, s) /\ Answer(p, "note")
    BY <1>11 DEF FillInput
  <2>2. f \in Payloads
    BY <1>2, SessionFields, PayloadFields
  <2>3. Written(s, "waiting_confirmation", f, f, c.input)
    BY <1>2, <2>2, ConstantsTyped, OperationsWrite
  <2> HIDE DEF s, f
  <2>4. Held(s)
    BY <2>3 DEF Held, Written, Waits
  <2> QED BY <1>5, <2>1, <2>4
<1>12. CASE CancelPending(p) \/ ConfirmExpired(p)
  BY <1>5, <1>6, <1>7, <1>12 DEF CancelPending, ConfirmExpired
<1>13. CASE ConfirmGuarded(p)
  <2> DEFINE s == mark_runtime_action_done(c, FALSE)
  <2>1. Written(s, "failed", c.state.held, NoPayload, c.input)
    BY <1>2, ConstantsTyped, OperationsWrite DEF DoneStatus
  <2>2. Answer(p, "clean") /\ IF Writes_done(c, FALSE) THEN Save(p, s) ELSE UNCHANGED session
    BY <1>13 DEF ConfirmGuarded
  <2> HIDE DEF s
  <2>3. Held(s)
    BY <2>1, LifeEmpty DEF Held, Written
  <2> QED BY <1>5, <1>6, <2>2, <2>3
<1>14. CASE ConfirmPending(p)
  <2> DEFINE s == mark_runtime_action_confirmed(c)
             u == WithoutPending(s)
             t == [turn[p] EXCEPT !.pc = "plan", !.msg = a.message, !.conf = a,
                                  !.granted = TRUE, !.ctx = u]
  <2>1. Routes(p) /\ HasPending(p) /\ turn[p].msg # "cancel"
    BY <1>14 DEF ConfirmPending, Confirms, is_confirmation_message
  <2>2. /\ c.state.act \in {"waiting_confirmation", "confirmed"}
        /\ a = c.state.held /\ latest_action_exists(c)
    BY <2>1, PendingIsHeld
  <2>3. /\ turn' = [turn EXCEPT ![p] = t]
        /\ IF Writes_confirmed(c) THEN Save(p, s) ELSE UNCHANGED session
    BY <1>14, <2>2 DEF ConfirmPending
  <2>4. Written(s, "confirmed", c.state.held, c.pending, c.input) /\ s \in Sessions
    BY <1>2, ConstantsTyped, OperationsWrite, StateOperationsTyped
  <2>5. u.state = s.state /\ u.pending = NoPayload
    BY <2>4, KeysWrite
  <2>6. /\ t.ctx = u /\ t.buf = turn[p].buf /\ t.pc = "plan" /\ t.granted /\ ~t.syncs
        /\ t.chat = turn[p].chat /\ t.conf = a /\ t.msg = a.message
    BY <1>2, <1>4, HeldFacts DEF Turns
  <2> HIDE DEF s, u, t
  <2>7. Held(s) /\ Held(u)
    BY <1>2, <2>4, <2>5, LifeEmpty DEF Held, Written, Waits
  <2>8. Held(session')
    BY <1>2, <2>3, <2>7, HeldSaved
  <2>9. u.state.held = a /\ u.state.act # "none"
    BY <2>2, <2>4, <2>5 DEF Written
  <2> QED BY <1>1, <2>3, <2>6, <2>7, <2>8, <2>9, HeldFacts, HeldStep DEF TurnHeld
<1>15. CASE PassToPlanner(p)
  <2>1. /\ session' = session /\ Moves(p, "plan", turn[p].msg, c) /\ Routes(p)
        /\ IF HasPending(p) THEN turn[p].msg \notin {"cancel", "confirm"}
                            ELSE TRUE
    BY <1>15 DEF PassToPlanner, Moves, is_cancel_message, is_confirmation_message
  <2>2. c.state.act # "waiting_input"
    BY <2>1 DEF Routes
  <2>3. turn[p].msg \in Strategies \/ c.pending.id = 0
    <3>1. CASE HasPending(p)
      <4>1. c.state.act # "none"
        BY <2>1, <3>1, PendingIsHeld
      <4> QED BY <1>4, <2>1, <2>2, <3>1, <4>1 DEF Asked
    <3>2. CASE ~HasPending(p)
      BY <1>2, <2>2, <3>2 DEF HasPending, pending_action, SessionLife, Held, Waits
    <3> QED BY <3>1, <3>2
  <2> QED BY <1>1, <1>2, <1>4, <2>1, <2>3, HeldMove
<1> QED BY <1>8, <1>9, <1>10, <1>11, <1>12, <1>13, <1>14, <1>15 DEF RouteStep

LEMMA ExecuteStepHeld ==
    ASSUME OneWorker, Reliable, HeldInv, NEW p \in Workers, ExecuteStep(p)
    PROVE  HeldInv'
<1> DEFINE c == turn[p].ctx
           ok == turn[p].ok
<1>1. LifeInv'
  BY ExecuteStepLife DEF HeldInv
<1>2. /\ c \in Sessions /\ SessionLife(c) /\ Held(c) /\ Held(session) /\ TypeOK
      /\ TurnLife(turn[p], session) /\ TurnHeld(turn[p]) /\ ok \in BOOLEAN
  BY HeldFacts, TurnFields
<1>3. turn[p].pc \in {"plan", "execute", "settle"}
  BY DEF ExecuteStep, AnswerFollowup, AnswerWithoutExecution, RequestConfirmation,
     BeginExecution, Execute, SettleAction, SettleTask, At
<1>4. ~turn[p].syncs
  BY <1>2, <1>3 DEF TurnLife
<1>5. CASE AnswerFollowup(p) \/ AnswerWithoutExecution(p)
  BY <1>1, <1>2, <1>5, HeldAnswer DEF AnswerFollowup, AnswerWithoutExecution
<1>6. CASE RequestConfirmation(p)
  <2> DEFINE a == [id |-> nextId, message |-> turn[p].msg, strategy |-> turn[p].msg,
                   ttl |-> TRUE, missing |-> FALSE]
             s == save_waiting_confirmation_state(c, a)
  <2>1. Save(p, s) /\ Answer(p, "note")
    BY <1>6 DEF RequestConfirmation
  <2>2. nextId \in Ids /\ turn[p].msg \in Strategies
    BY <1>2, <1>6 DEF RequestConfirmation, should_request_confirmation, requires_confirmation,
        TypeOK, Ids
  <2>3. a \in Payloads
    BY <2>2 DEF Payloads, Messages, Ids
  <2>4. Written(s, "waiting_confirmation", a, a, c.input)
    BY <1>2, <2>3, OperationsWrite
  <2> HIDE DEF s, a
  <2>5. Held(s)
    BY <2>4 DEF Held, Written, Waits
  <2> QED BY <1>1, <2>1, <2>5, HeldSaved, HeldAnswer
<1>7. CASE BeginExecution(p)
  <2> DEFINE s == mark_runtime_action_executing(c)
             b == IF turn[p].granted /\ Writes_executing(c) THEN s ELSE c
             t == [turn[p] EXCEPT !.pc = "execute", !.ctx = b]
  <2>1. /\ turn[p].pc = "plan" /\ turn' = [turn EXCEPT ![p] = t]
        /\ IF turn[p].granted /\ Writes_executing(c) THEN Save(p, b) ELSE UNCHANGED session
        /\ turn[p].chat /\ ~turn[p].granted => turn[p].msg \notin Strategies
    BY <1>7 DEF BeginExecution, Goto, At, should_request_confirmation, requires_confirmation
  <2>2. Written(s, "executing", c.state.held, c.pending, c.input)
    BY <1>2, ConstantsTyped, OperationsWrite
  <2>3. /\ t.ctx = b /\ t.buf = turn[p].buf /\ t.pc = "execute" /\ t.granted = turn[p].granted
        /\ ~t.syncs /\ t.chat = turn[p].chat /\ t.msg = turn[p].msg /\ t.conf = turn[p].conf
    BY <1>2, <1>4, HeldFacts DEF Turns
  <2>4. turn[p].granted => c.pending.id = 0 /\ c.state.held = turn[p].conf /\ c.state.act # "none"
    BY <1>2 DEF TurnLife, TurnHeld
  <2>5. /\ turn[p].granted => b.pending.id = 0 /\ b.state.held = turn[p].conf /\ b.state.act # "none"
        /\ ~turn[p].granted => b = c
    BY <2>2, <2>4 DEF Written
  <2> HIDE DEF s, b, t
  <2>6. Held(b)
    BY <1>2, <2>5 DEF Held
  <2>7. Held(session')
    BY <1>2, <2>1, <2>6, HeldSaved
  <2>8. TurnHeld(t)
    BY <1>2, <2>1, <2>3, <2>5, <2>6 DEF TurnHeld
  <2> QED BY <1>1, <2>1, <2>7, <2>8, HeldStep
<1>8. CASE \E success \in BOOLEAN : Execute(p, success)
  <2>1. PICK success \in BOOLEAN : Execute(p, success)
    BY <1>8
  <2> DEFINE t == [turn[p] EXCEPT !.pc = "settle", !.ok = success]
  <2>2. turn[p].pc = "execute" /\ turn' = [turn EXCEPT ![p] = t] /\ session' = session
    BY <2>1 DEF Execute, At
  <2>3. /\ t.ctx = c /\ t.buf = turn[p].buf /\ t.pc = "settle" /\ t.granted = turn[p].granted
        /\ ~t.syncs /\ t.chat = turn[p].chat /\ t.msg = turn[p].msg /\ t.conf = turn[p].conf
    BY <1>2, <1>4, HeldFacts DEF Turns
  <2> HIDE DEF t
  <2>4. TurnHeld(t)
    BY <1>2, <2>2, <2>3 DEF TurnHeld
  <2> QED BY <1>1, <1>2, <2>2, <2>4, HeldStep
<1>9. CASE SettleAction(p)
  <2> DEFINE s == mark_runtime_action_done(c, ok)
  <2>1. Answer(p, "note") /\ IF Writes_done(c, ok) THEN Save(p, s) ELSE UNCHANGED session
    BY <1>9 DEF SettleAction
  <2>2. Written(s, DoneStatus(ok), c.state.held, NoPayload, c.input)
    BY <1>2, ConstantsTyped, OperationsWrite
  <2> HIDE DEF s
  <2>3. Held(s)
    BY <2>2, LifeEmpty DEF Held, Written
  <2>4. Held(session')
    BY <1>2, <2>1, <2>3, HeldSaved
  <2> QED BY <1>1, <2>1, <2>4, HeldAnswer
<1>10. CASE SettleTask(p)
  <2> DEFINE s == save_runtime_task_execution_state(c, ok)
             u == [c EXCEPT !.state = TaskState(ok)]
  <2>1. /\ turn[p].pc = "settle" /\ ~turn[p].granted /\ Save(p, s)
        /\ Answer(p, "note") \/ (turn[p].msg \notin Strategies /\ AnswerKeeping(p, u))
    BY <1>10 DEF SettleTask, At, requires_confirmation
  <2>2. /\ Written(s, "none", NoPayload, NoPayload, c.input)
        /\ Written(u, "none", NoPayload, c.pending, c.input)
    BY <1>2, ConstantsTyped, OperationsWrite
  <2> HIDE DEF s, u
  <2>3. Held(s)
    BY <2>2, LifeEmpty DEF Held, Written
  <2>4. turn[p].msg \notin Strategies => u.pending.id = 0
    BY <1>2, <2>1, <2>2 DEF TurnHeld, Written
  <2>5. Held(session')
    BY <2>1, <2>3, HeldSaved
  <2> QED BY <1>1, <2>1, <2>4, <2>5, HeldAnswer
<1> QED BY <1>5, <1>6, <1>7, <1>8, <1>9, <1>10 DEF ExecuteStep

LEMMA FinishStepHeld ==
    ASSUME OneWorker, Reliable, HeldInv, NEW p \in Workers, FinishStep(p)
    PROVE  HeldInv'
<1> DEFINE c == turn[p].ctx
           b == turn[p].buf
<1>1. LifeInv'
  BY FinishStepLife DEF HeldInv
<1>2. Held(c) /\ Held(b) /\ session \in Sessions /\ Held(session)
  BY HeldFacts
<1>3. ASSUME turn[p].pc \in {"note", "note_save"}, AfterNote(p), Held(session')
      PROVE  HeldInv'
  <2>1. CASE turn[p].syncs
    <3>1. Buffers(p, "sync", EmptySession)
      BY <1>3, <2>1 DEF AfterNote, Buffers
    <3> HIDE DEF c, b
    <3> QED BY <1>1, <1>3, <3>1, HeldEmpty, HeldBuffer
  <2>2. CASE ~turn[p].syncs
    BY <1>1, <1>3, <2>2, HeldAnswer DEF AfterNote
  <2> QED BY <2>1, <2>2
<1>4. session' \in Saved(b) => Held(session')
  BY <1>2, ReliableFacts
<1>5. CASE Note(p)
  <2>1. turn[p].pc = "note" /\ session' = session
    BY <1>5 DEF Note, At
  <2>2. \/ AfterNote(p) \/ Buffers(p, "note_save", session)
    BY <1>5, ReliableFacts DEF Note, Buffers
  <2>3. CASE Buffers(p, "note_save", session)
    BY <1>1, <1>2, <2>1, <2>3, HeldBuffer
  <2> QED BY <1>2, <1>3, <2>1, <2>2, <2>3
<1>6. CASE NoteSave(p)
  BY <1>3, <1>4, <1>6 DEF NoteSave, At
<1>7. CASE Sync(p)
  BY <1>1, <1>2, <1>7, HeldSaved, HeldAnswer DEF Sync
<1>8. CASE Clean(p)
  <2>1. turn[p].pc = "clean" /\ session' = session
    BY <1>8 DEF Clean, At
  <2>2. \/ Leave(p) \/ Answer(p, "trace") \/ Buffers(p, "clean_save", Cleaned(session))
    BY <1>8, ReliableFacts DEF Clean, Buffers
  <2>3. Held(Cleaned(session))
    BY <1>2, KeysWrite, LifeEmpty DEF Held
  <2>4. CASE Buffers(p, "clean_save", Cleaned(session))
    BY <1>1, <1>2, <2>1, <2>3, <2>4, HeldBuffer
  <2> QED BY <1>1, <1>2, <2>1, <2>2, <2>4, HeldAnswer
<1>9. CASE CleanSave(p)
  BY <1>1, <1>4, <1>9, HeldAnswer DEF CleanSave
<1>10. CASE Trace(p)
  <2>1. turn[p].pc = "trace" /\ session' = session /\ Buffers(p, "trace_save", session)
    BY <1>10, ReliableFacts DEF Trace, At, Buffers
  <2> QED BY <1>1, <1>2, <2>1, HeldBuffer
<1>11. CASE TraceSave(p)
  BY <1>1, <1>4, <1>11, HeldAnswer DEF TraceSave
<1> QED BY <1>5, <1>6, <1>7, <1>8, <1>9, <1>10, <1>11 DEF FinishStep

LEMMA ArriveHeld ==
    ASSUME OneWorker, Reliable, OnlyWrites, HeldInv, NEW p \in Workers, Arrive(p)
    PROVE  HeldInv'
<1>1. LifeInv' /\ Held(session) /\ session \in Sessions /\ LifeInv
  BY ArriveLife, HeldFacts DEF HeldInv
<1>2. ASSUME NEW m, NEW chat \in BOOLEAN, NEW bot, NEW c, Start(p, m, chat, bot, c), session' = session,
             Held(c), m \in Strategies \cup {"confirm", "cancel"} \/ c = EmptySession,
             c.input.kind = "plain" => c.input.message \in Strategies,
             ~chat => m # "cancel" /\ c.input.kind \notin {"missing", "cancel"}
      PROVE  HeldInv'
  <2> DEFINE t == [Idle EXCEPT !.pc = "entry", !.msg = m, !.chat = chat, !.bot = bot, !.ctx = c]
  <2>1. /\ t.ctx = c /\ t.buf = EmptySession /\ t.pc = "entry" /\ ~t.granted
        /\ ~t.syncs /\ t.chat = chat /\ t.msg = m
    BY DEF Idle
  <2>2. turn' = [turn EXCEPT ![p] = t]
    BY <1>2 DEF Start
  <2> HIDE DEF t
  <2>3. TurnHeld(t)
    BY <1>2, <2>1, LifeEmpty, HeldEmpty DEF TurnHeld, Asked
  <2> QED BY <1>1, <1>2, <2>2, <2>3, HeldStep
<1>3. CASE \E m \in Texts : ReceiveMessage(p, m)
  <2>1. PICK m \in Texts : ReceiveMessage(p, m)
    BY <1>3
  <2>2. Start(p, m, TRUE, TRUE, session) /\ session' = session
    BY <2>1, ReliableFacts DEF ReceiveMessage
  <2>3. m \in Strategies \cup {"confirm", "cancel"} /\ session.input.kind # "plain"
    BY <1>1 DEF OnlyWrites, LifeInv, InputLeft
  <2> QED BY <1>1, <1>2, <2>2, <2>3
<1>4. CASE \E m \in {"approve", "reject"}, r \in PortalRequests, id \in Ids :
              PortalAction(p, m, r, id)
  <2>1. PICK m \in {"approve", "reject"}, r \in PortalRequests, id \in Ids :
              PortalAction(p, m, r, id)
    BY <1>4
  <2> DEFINE i == [kind |-> IF r.confirm THEN "confirmed" ELSE "plain",
                   id |-> id, message |-> m, strategy |-> m]
  <2>2. PICK s \in IF r.chat THEN Loaded ELSE {EmptySession} :
          Start(p, m, r.chat, FALSE, [s EXCEPT !.input = i])
    BY <2>1 DEF PortalAction
  <2>3. s \in {session, EmptySession} /\ s \in Sessions /\ Held(s)
    BY <1>1, ReliableFacts, HeldEmpty, ConstantsTyped
  <2>4. session' = session /\ r.chat \in BOOLEAN /\ m \in Strategies /\ m # "cancel"
    BY <2>1, RuntimeAssumption DEF PortalAction, Strategies
  <2>5. i.kind \notin {"missing", "cancel"} /\ i.message = m
    OBVIOUS
  <2> HIDE DEF i
  <2> DEFINE c == [s EXCEPT !.input = i]
  <2>6. c.state = s.state /\ c.pending = s.pending /\ c.input = i
    BY <2>3, KeysWrite
  <2> HIDE DEF c
  <2>7. Start(p, m, r.chat, FALSE, c)
    BY <2>2 DEF c
  <2>8. Held(c)
    BY <2>3, <2>6 DEF Held
  <2> QED BY <1>2, <2>4, <2>5, <2>6, <2>7, <2>8
<1>5. CASE PortalQuery(p)
  <2>1. Start(p, "query", TRUE, FALSE, EmptySession) /\ session' = session
    BY <1>5 DEF PortalQuery
  <2> QED BY <1>2, <2>1, LifeEmpty, HeldEmpty
<1> QED BY <1>3, <1>4, <1>5 DEF Arrive

LEMMA EnvironmentHeld ==
    ASSUME OneWorker, HeldInv, Environment
    PROVE  HeldInv'
<1>1. LifeInv' /\ Held(session)
  BY EnvironmentLife DEF HeldInv
<1>2. CASE \E p \in Workers : Crash(p)
  BY <1>1, <1>2, HeldAnswer DEF Crash
<1>3. CASE (\E id \in Ids : Lapse(id)) \/ ExpireSession
  BY <1>1, <1>3, HeldEmpty DEF Lapse, ExpireSession, HeldInv
<1> QED BY <1>2, <1>3 DEF Environment

LEMMA HeldInit == InputsNamed /\ Init => HeldInv
<1> SUFFICES ASSUME InputsNamed, Init PROVE HeldInv
  OBVIOUS
<1>1. PICK i \in InputsLeft \cup {NoInput} : session = [EmptySession EXCEPT !.input = i]
  BY DEF Init
<1>2. Held(session)
  BY <1>1, ConstantsTyped, KeysWrite, HeldEmpty DEF Held
<1>3. TurnHeld(Idle)
  BY HeldEmpty DEF TurnHeld, Idle
<1> QED BY <1>2, <1>3, LifeInit DEF HeldInv, Init

LEMMA HeldNext ==
    ASSUME OneWorker, Reliable, OnlyWrites, HeldInv, [Next]_vars
    PROVE  HeldInv'
<1>1. CASE \E p \in Workers : Arrive(p) \/ TurnStep(p)
  BY <1>1, ArriveHeld, EnterStepHeld, RouteStepHeld, ExecuteStepHeld, FinishStepHeld
     DEF TurnStep
<1>2. CASE Environment
  BY <1>2, EnvironmentHeld
<1>3. CASE UNCHANGED vars
  <2>1. LifeInv'
    BY <1>3, LifeNext DEF HeldInv
  <2> QED BY <1>3, <2>1 DEF vars, HeldInv
<1> QED BY <1>1, <1>2, <1>3 DEF Next

\* What is handed to the provider is what the session says is executing: the
\* confirmed payload, recorded before the call (mark_runtime_action_executing).
\* A question in the chat would leave the action under the pending key alone.
THEOREM ExecutionsAreRecorded ==
    ASSUME OneWorker, Reliable, InputsNamed, OnlyWrites
    PROVE  Spec => []ExecutionIsRecorded
<1>1. Init => HeldInv
  BY HeldInit
<1>2. HeldInv /\ [Next]_vars => HeldInv'
  BY HeldNext
<1>3. HeldInv => ExecutionIsRecorded
  <2> SUFFICES ASSUME HeldInv, NEW p \in Workers, Submits(p), turn[p].chat
               PROVE  session.state.act = "executing" /\ session.state.held = turn[p].conf
    BY DEF ExecutionIsRecorded
  <2>1. TurnLife(turn[p], session) /\ TurnHeld(turn[p])
    BY HeldFacts
  <2>2. turn[p].granted
    BY <2>1 DEF Submits, At, TurnHeld
  <2> QED BY <2>1, <2>2 DEF Submits, At, TurnLife, TurnHeld, SameAction
<1> QED BY <1>1, <1>2, <1>3, PTL DEF Spec

\* After the answer that the pending action is cancelled the session offers nothing
\* to confirm: the cancelled payload was the recorded one, so the cancellation was
\* written (the two branches of the cancel message in run_runtime_v5).
THEOREM CancellationClears ==
    ASSUME OneWorker, Reliable, InputsNamed, OnlyWrites
    PROVE  Spec => CancelClears
<1>1. Init => HeldInv
  BY HeldInit
<1>2. HeldInv /\ [Next]_vars => HeldInv'
  BY HeldNext
<1>3. HeldInv /\ [Next]_vars =>
        [\A p \in Workers : CancelPending(p) => pending_action(session').id = 0]_vars
  <2> SUFFICES ASSUME HeldInv, NEW p \in Workers, CancelPending(p)
               PROVE  pending_action(session').id = 0
    OBVIOUS
  <2> DEFINE c == turn[p].ctx
  <2>1. /\ Routes(p) /\ HasPending(p) /\ turn[p].msg = "cancel"
        /\ latest_action_exists(c) => Save(p, mark_terminal(c, "cancelled"))
    BY DEF CancelPending, is_cancel_message
  <2>2. turn[p].chat
    BY <2>1, HeldFacts DEF Routes, At, TurnHeld
  <2>3. session' = mark_terminal(c, "cancelled")
    BY <2>1, <2>2, PendingIsHeld, ReliableFacts
  <2>4. Written(session', "cancelled", c.state.held, NoPayload, c.input)
    BY <2>3, HeldFacts, ConstantsTyped, OperationsWrite
  <2> QED BY <2>4, LifeEmpty DEF Written, pending_action
<1> QED BY <1>1, <1>2, <1>3, PTL DEF Spec, CancelClears

-----------------------------------------------------------------------------
(* One worker and no confirmed portal request: an action is handed over once *)

\* The portal asks for its actions in a chat and confirms none of them itself.
OnlyUnconfirmed == PortalRequests \subseteq [confirm : {FALSE}, chat : {TRUE}]

\* An id that was handed out (below N) and never submitted
Fresh(id, N, done) == id < N /\ id \notin done

SessionFresh(s, N, done) ==
    /\ s.state.act \in Waits => Fresh(s.state.held.id, N, done)
    /\ s.input.kind \in {"missing", "cancel"} => Fresh(s.input.id, N, done)

TurnFresh(t, N, done) ==
    /\ t.pc # "idle" => t.chat
    /\ t.pc # "confirm_input"
    /\ t.pc = "entry" => /\ t.ctx.input.kind # "confirmed"
                         /\ t.ctx.input.kind \in {"missing", "cancel"} =>
                              Fresh(t.ctx.input.id, N, done)
    /\ t.granted /\ t.pc = "execute" => Fresh(t.conf.id, N, done)

FreshInv ==
    /\ HeldInv
    /\ \A id \in submitted : id < nextId
    /\ SessionFresh(session, nextId, submitted)
    /\ \A p \in Workers : TurnFresh(turn[p], nextId, submitted)

\* What is fresh stays so while no id is submitted.
LEMMA FreshKept ==
    ASSUME NEW N \in Nat, NEW M \in {N, N + 1}, NEW done
    PROVE  /\ \A id \in Nat : Fresh(id, N, done) => Fresh(id, M, done)
           /\ \A s \in Sessions : SessionFresh(s, N, done) => SessionFresh(s, M, done)
           /\ \A t \in Turns : TurnFresh(t, N, done) => TurnFresh(t, M, done)
<1>1. \A id \in Nat : Fresh(id, N, done) => Fresh(id, M, done)
  BY DEF Fresh
<1>2. ASSUME NEW s \in Sessions
      PROVE  s.state.held.id \in Nat /\ s.input.id \in Nat
  BY DEF Sessions, States, Payloads, Inputs, Ids
<1>3. ASSUME NEW t \in Turns
      PROVE  t.ctx.input.id \in Nat /\ t.conf.id \in Nat
  BY <1>2 DEF Turns, Payloads, Ids
<1> QED BY <1>1, <1>2, <1>3 DEF SessionFresh, TurnFresh

LEMMA FreshFacts ==
    ASSUME FreshInv, NEW p \in Workers
    PROVE  /\ HeldInv /\ LifeInv /\ TypeOK /\ turn[p] \in Turns /\ turn[p].ctx \in Sessions
           /\ TurnLife(turn[p], session) /\ TurnHeld(turn[p])
           /\ TurnFresh(turn[p], nextId, submitted)
           /\ session \in Sessions /\ SessionLife(session) /\ InputLeft(session)
           /\ SessionFresh(session, nextId, submitted)
           /\ \A id \in submitted : id \in Nat /\ id < nextId
           /\ nextId \in Nat
BY HeldFacts, LifeFacts, MaxIdAssumption DEF FreshInv, TypeOK, Ids

\* Until it answers, the action that a turn finds waiting is the stored one.
LEMMA FreshContext ==
    ASSUME FreshInv, NEW p \in Workers,
           turn[p].pc \in {"entry", "confirm_input", "route", "plan", "execute", "settle"}
    PROVE  LET c == turn[p].ctx
           IN /\ turn[p].chat
              /\ c.state.act \in Waits => Fresh(c.state.held.id, nextId, submitted)
<1>1. turn[p].chat
  BY FreshFacts DEF TurnFresh
<1>2. turn[p].ctx.state.act = "none" \/ SameAction(turn[p].ctx.state, session.state)
  BY <1>1, FreshFacts DEF TurnLife
<1> QED BY <1>1, <1>2, FreshFacts DEF SessionFresh, SameAction, Waits

LEMMA FreshStep ==
    ASSUME OneWorker, FreshInv, HeldInv', NEW p \in Workers, NEW t, turn' = [turn EXCEPT ![p] = t],
           submitted' = submitted, nextId' \in {nextId, nextId + 1},
           TurnFresh(t, nextId, submitted), SessionFresh(session', nextId', submitted)
    PROVE  FreshInv'
<1>1. nextId \in Nat /\ \A id \in submitted : id \in Nat /\ id < nextId
  BY FreshFacts
<1>2. \A id \in submitted' : id < nextId'
  BY <1>1
<1>3. t \in Turns
  <2>1. TypeOK' /\ TypeOK
    BY DEF HeldInv, LifeInv, FreshInv
  <2>2. turn' \in [Workers -> Turns] /\ turn'[p] = t
    BY <2>1 DEF TypeOK
  <2> QED BY <2>2
<1>4. TurnFresh(t, nextId', submitted')
  BY <1>1, <1>3, FreshKept
<1>5. ASSUME NEW q \in Workers
      PROVE  TurnFresh(turn'[q], nextId', submitted')
  BY <1>4, FreshFacts DEF OneWorker, TypeOK
<1> QED BY <1>2, <1>5 DEF FreshInv

LEMMA FreshSaved ==
    ASSUME Reliable, FreshInv, NEW p \in Workers, NEW s, Save(p, s), s.input.kind = "none",
           s.state.act \in Waits => Fresh(s.state.held.id, nextId', submitted),
           nextId' \in {nextId, nextId + 1}
    PROVE  SessionFresh(session', nextId', submitted)
<1>1. CASE turn[p].chat
  <2>1. session' = s
    BY <1>1, ReliableFacts
  <2> QED BY <2>1 DEF SessionFresh
<1>2. CASE ~turn[p].chat
  <2>1. session' = session
    BY <1>2, ReliableFacts
  <2> QED BY <2>1, FreshFacts, FreshKept
<1> QED BY <1>1, <1>2

LEMMA FreshAnswer ==
    ASSUME OneWorker, FreshInv, HeldInv', NEW p \in Workers, turn[p].pc # "idle",
           submitted' = submitted, nextId' \in {nextId, nextId + 1},
           SessionFresh(session', nextId', submitted),
           \/ \E pc \in {"note", "clean", "trace"} : Answer(p, pc)
           \/ \E c : AnswerKeeping(p, c)
           \/ Leave(p) \/ AfterAnswer(p)
    PROVE  FreshInv'
<1>1. turn[p].chat
  BY FreshFacts DEF TurnFresh
<1>2. ASSUME NEW pc \in {"note", "clean", "trace"}, Answer(p, pc)
      PROVE  FreshInv'
  <2> DEFINE t == [Idle EXCEPT !.pc = pc, !.chat = turn[p].chat, !.bot = turn[p].bot]
  <2>1. t.pc = pc /\ t.chat = turn[p].chat
    BY DEF Idle
  <2>2. turn' = [turn EXCEPT ![p] = t]
    BY <1>2 DEF Answer
  <2> HIDE DEF t
  <2>3. TurnFresh(t, nextId, submitted)
    BY <1>1, <2>1 DEF TurnFresh
  <2> QED BY <2>2, <2>3, FreshStep
<1>3. ASSUME NEW c, AnswerKeeping(p, c)
      PROVE  FreshInv'
  <2> DEFINE t == [Idle EXCEPT !.pc = "note", !.chat = turn[p].chat, !.bot = turn[p].bot,
                               !.syncs = TRUE, !.ctx = c]
  <2>1. t.pc = "note" /\ t.chat = turn[p].chat
    BY DEF Idle
  <2>2. turn' = [turn EXCEPT ![p] = t]
    BY <1>3 DEF AnswerKeeping
  <2> HIDE DEF t
  <2>3. TurnFresh(t, nextId, submitted)
    BY <1>1, <2>1 DEF TurnFresh
  <2> QED BY <2>2, <2>3, FreshStep
<1>4. ASSUME Leave(p)
      PROVE  FreshInv'
  <2>1. TurnFresh(Idle, nextId, submitted)
    BY DEF TurnFresh, Idle
  <2> QED BY <1>4, <2>1, FreshStep DEF Leave
<1> QED BY <1>2, <1>3, <1>4 DEF AfterAnswer

\* A turn that goes on, and neither takes an input nor is about to execute
LEMMA FreshMove ==
    ASSUME OneWorker, FreshInv, HeldInv', NEW p \in Workers, turn[p].pc # "idle",
           submitted' = submitted, nextId' = nextId,
           SessionFresh(session', nextId', submitted),
           NEW pc \in {"route", "plan", "note_save", "clean_save", "trace_save", "sync"},
           NEW m, NEW c,
           Moves(p, pc, m, c) \/ Buffers(p, pc, c)
    PROVE  FreshInv'
<1>1. turn[p].chat
  BY FreshFacts DEF TurnFresh
<1>2. PICK t : turn' = [turn EXCEPT ![p] = t] /\ t.pc = pc /\ t.chat = turn[p].chat
  <2> DEFINE t == [turn[p] EXCEPT !.pc = pc, !.msg = m, !.ctx = c]
             u == [turn[p] EXCEPT !.pc = pc, !.ctx = c]
             v == [turn[p] EXCEPT !.pc = pc, !.buf = c]
  <2>1. /\ t.pc = pc /\ t.chat = turn[p].chat /\ u.pc = pc /\ u.chat = turn[p].chat
        /\ v.pc = pc /\ v.chat = turn[p].chat
    BY FreshFacts DEF Turns
  <2>2. \/ turn' = [turn EXCEPT ![p] = t] \/ turn' = [turn EXCEPT ![p] = u]
        \/ turn' = [turn EXCEPT ![p] = v]
    BY DEF Goto, Moves, Buffers
  <2> HIDE DEF t, u, v
  <2> QED BY <2>1, <2>2
<1>3. TurnFresh(t, nextId, submitted)
  BY <1>1, <1>2 DEF TurnFresh
<1> QED BY <1>2, <1>3, FreshStep

LEMMA EnterStepFresh ==
    ASSUME OneWorker, Reliable, FreshInv, NEW p \in Workers, EnterStep(p)
    PROVE  FreshInv'
<1> DEFINE c == turn[p].ctx
           made(missing) == pending_from_input(c.input, missing)
<1>1. HeldInv' /\ submitted' = submitted /\ nextId' = nextId
  BY EnterStepHeld DEF FreshInv, EnterStep, EnterWithoutInput, RejectInput, EnterMissingInput,
     EnterCancelInput, EnterConfirmedInput, ConfirmInput, EnterPlainInput, history
<1>2. /\ c \in Sessions /\ SessionFresh(session, nextId, submitted) /\ nextId \in Nat
      /\ TurnFresh(turn[p], nextId, submitted)
  BY FreshFacts
<1>3. /\ turn[p].pc = "entry"
      /\ c.input.kind \notin {"confirmed"}
  BY <1>2 DEF EnterStep, EnterWithoutInput, RejectInput, EnterMissingInput,
     EnterCancelInput, EnterConfirmedInput, ConfirmInput, EnterPlainInput, At, TurnFresh
<1>4. /\ Consumed(c) \in Sessions /\ Consumed(c).state = c.state /\ Consumed(c).input.kind = "none"
  BY <1>2, StateOperationsTyped, ConstantsTyped, KeysWrite, LifeEmpty DEF Consumed
<1>5. /\ made(TRUE) \in Payloads /\ made(FALSE) \in Payloads
      /\ made(TRUE).id = c.input.id /\ made(FALSE).id = c.input.id
  BY <1>2, SessionFields, InputFields DEF pending_from_input
<1>6. c.state.act \in Waits => Fresh(c.state.held.id, nextId, submitted)
  BY <1>3, FreshContext
<1>7. CASE EnterWithoutInput(p) \/ EnterPlainInput(p)
  <2>1. session' = session /\ \E m, d : Moves(p, "route", m, d)
    BY <1>7 DEF EnterWithoutInput, EnterPlainInput, Moves
  <2> QED BY <1>1, <1>2, <1>3, <2>1, FreshMove
<1>8. CASE RejectInput(p)
  <2>1. Save(p, Consumed(c)) /\ Answer(p, "note")
    BY <1>8 DEF RejectInput
  <2>2. SessionFresh(session', nextId', submitted)
    BY <1>1, <1>4, <1>6, <2>1, FreshSaved
  <2> QED BY <1>1, <1>3, <2>1, <2>2, FreshAnswer
<1>9. CASE EnterMissingInput(p)
  <2> DEFINE s == save_waiting_input_state(Consumed(c), made(TRUE))
             u == [s EXCEPT !.started = TRUE]
  <2>1. c.input.kind = "missing" /\ Save(p, s) /\ Moves(p, "route", c.input.message, u)
    BY <1>9 DEF EnterMissingInput, Moves
  <2>2. Written(s, "waiting_input", made(TRUE), made(TRUE), Consumed(c).input)
    BY <1>4, <1>5, OperationsWrite
  <2> HIDE DEF u, s
  <2>3. Fresh(c.input.id, nextId, submitted)
    BY <1>2, <1>3, <2>1 DEF TurnFresh
  <2>4. SessionFresh(session', nextId', submitted)
    BY <1>1, <1>4, <1>5, <2>1, <2>2, <2>3, FreshSaved DEF Written
  <2> QED BY <1>1, <1>3, <2>1, <2>4, FreshMove
<1>10. CASE EnterCancelInput(p)
  <2> DEFINE s == save_waiting_confirmation_state(Consumed(c), made(FALSE))
  <2>1. c.input.kind = "cancel" /\ Save(p, s) /\ Moves(p, "route", "cancel", s)
    BY <1>10 DEF EnterCancelInput, Moves
  <2>2. Written(s, "waiting_confirmation", made(FALSE), made(FALSE), Consumed(c).input)
    BY <1>4, <1>5, OperationsWrite
  <2> HIDE DEF s
  <2>3. Fresh(c.input.id, nextId, submitted)
    BY <1>2, <1>3, <2>1 DEF TurnFresh
  <2>4. SessionFresh(session', nextId', submitted)
    BY <1>1, <1>4, <1>5, <2>1, <2>2, <2>3, FreshSaved DEF Written
  <2> QED BY <1>1, <1>3, <2>1, <2>4, FreshMove
<1> QED BY <1>3, <1>7, <1>8, <1>9, <1>10
        DEF EnterStep, EnterConfirmedInput, ConfirmInput, At

LEMMA RouteStepFresh ==
    ASSUME OneWorker, Reliable, FreshInv, NEW p \in Workers, RouteStep(p)
    PROVE  FreshInv'
<1> DEFINE c == turn[p].ctx
           a == pending_action(c)
<1>1. HeldInv' /\ submitted' = submitted /\ nextId' = nextId
  BY RouteStepHeld DEF FreshInv, RouteStep, CancelWaitingInput, PromptStarted, PromptAgain,
     FillInput, ConfirmNothing, CancelPending, ConfirmExpired, ConfirmGuarded, ConfirmPending,
     PassToPlanner, history
<1>2. turn[p].pc = "route"
  BY DEF RouteStep, CancelWaitingInput, PromptStarted, PromptAgain, FillInput, WaitsForInput,
     ConfirmNothing, CancelPending, ConfirmExpired, ConfirmGuarded, ConfirmPending, PassToPlanner,
     Confirms, Routes, At
<1>3. /\ c \in Sessions /\ SessionFresh(session, nextId, submitted) /\ TurnLife(turn[p], session)
      /\ turn[p].chat /\ (c.state.act \in Waits => Fresh(c.state.held.id, nextId, submitted))
      /\ c.input.kind = "none"
  BY <1>2, FreshFacts, FreshContext DEF TurnLife
<1>4. ASSUME NEW s, Save(p, s) \/ session' = session, s.input.kind = "none",
             s.state.act \in Waits => Fresh(s.state.held.id, nextId, submitted)
      PROVE  SessionFresh(session', nextId', submitted)
  BY <1>1, <1>3, <1>4, FreshSaved
<1>5. ASSUME SessionFresh(session', nextId', submitted), Answer(p, "note") \/ Answer(p, "clean")
      PROVE  FreshInv'
  BY <1>1, <1>2, <1>5, FreshAnswer
<1>6. CASE \E x \in {"cancelled", "stale"} :
              /\ Save(p, mark_terminal(c, x)) \/ session' = session
              /\ Answer(p, "note")
  <2>1. PICK x \in {"cancelled", "stale"} :
              /\ Save(p, mark_terminal(c, x)) \/ session' = session
              /\ Answer(p, "note")
    BY <1>6
  <2>2. Written(mark_terminal(c, x), x, c.state.held, NoPayload, c.input)
    BY <1>3, ConstantsTyped, OperationsWrite
  <2> QED BY <1>3, <1>4, <1>5, <2>1, <2>2 DEF Written, Waits
<1>7. CASE PromptStarted(p)
  <2> DEFINE s == [c EXCEPT !.started = FALSE]
  <2>1. s.state = c.state /\ s.input = c.input
    BY <1>3, KeysWrite
  <2>2. Save(p, s) /\ Answer(p, "note")
    BY <1>7 DEF PromptStarted
  <2> HIDE DEF s
  <2> QED BY <1>3, <1>4, <1>5, <2>1, <2>2
<1>8. CASE PromptAgain(p) \/ ConfirmNothing(p)
  BY <1>3, <1>4, <1>5, <1>8 DEF PromptAgain, ConfirmNothing
<1>9. CASE FillInput(p)
  <2> DEFINE f == with_user_input(waiting_input_action(c))
             s == mark_runtime_action_waiting_confirmation(c, f)
  <2>1. Save(p, s) /\ Answer(p, "note") /\ c.state.act = "waiting_input"
    BY <1>9 DEF FillInput, WaitsForInput
  <2>2. f \in Payloads /\ f.id = c.state.held.id
    BY <1>3, <2>1, SessionFields, PayloadFields DEF waiting_input_action, with_user_input, Payloads
  <2>3. Written(s, "waiting_confirmation", f, f, c.input)
    BY <1>3, <2>2, ConstantsTyped, OperationsWrite
  <2> HIDE DEF s, f
  <2> QED BY <1>3, <1>4, <1>5, <2>1, <2>2, <2>3 DEF Written, Waits
<1>10. CASE ConfirmGuarded(p)
  <2> DEFINE s == mark_runtime_action_done(c, FALSE)
  <2>1. (Save(p, s) \/ session' = session) /\ Answer(p, "clean")
    BY <1>10 DEF ConfirmGuarded
  <2>2. Written(s, DoneStatus(FALSE), c.state.held, NoPayload, c.input)
    BY <1>3, ConstantsTyped, OperationsWrite
  <2> HIDE DEF s
  <2>3. s.state.act \notin Waits /\ s.input.kind = "none"
    BY <1>3, <2>2 DEF Written, DoneStatus, Waits
  <2> QED BY <1>4, <1>5, <2>1, <2>3
<1>11. CASE ConfirmPending(p)
  <2> DEFINE s == IF latest_action_exists(c) THEN mark_runtime_action_confirmed(c) ELSE c
             t == [turn[p] EXCEPT !.pc = "plan", !.msg = a.message, !.conf = a,
                                  !.granted = TRUE, !.ctx = WithoutPending(s)]
  <2>1. /\ (Save(p, s) \/ session' = session) /\ Confirms(p)
        /\ turn' = [turn EXCEPT ![p] = t]
    BY <1>11 DEF ConfirmPending
  <2>2. c.state.act \in {"waiting_confirmation", "confirmed"} /\ latest_action_exists(c)
    BY <2>1, PendingIsHeld DEF Confirms, FreshInv
  <2>3. Written(s, "confirmed", c.state.held, c.pending, c.input)
    BY <1>3, <2>2, ConstantsTyped, OperationsWrite
  <2>4. t.pc = "plan" /\ t.chat = turn[p].chat
    BY <1>3, FreshFacts DEF Turns
  <2> HIDE DEF s, t
  <2>5. SessionFresh(session', nextId', submitted)
    BY <1>3, <1>4, <2>1, <2>2, <2>3 DEF Written, Waits
  <2>6. TurnFresh(t, nextId, submitted)
    BY <1>3, <2>4 DEF TurnFresh
  <2> QED BY <1>1, <2>1, <2>5, <2>6, FreshStep
<1>12. CASE PassToPlanner(p)
  <2>1. session' = session /\ Moves(p, "plan", turn[p].msg, c)
    BY <1>12 DEF PassToPlanner, Moves
  <2> QED BY <1>1, <1>2, <1>3, <2>1, FreshMove
<1>13. ASSUME CancelWaitingInput(p) \/ CancelPending(p) \/ ConfirmExpired(p)
       PROVE  FreshInv'
  BY <1>6, <1>13 DEF CancelWaitingInput, CancelPending, ConfirmExpired
<1> QED BY <1>7, <1>8, <1>9, <1>10, <1>11, <1>12, <1>13 DEF RouteStep

LEMMA ExecuteStepFresh ==
    ASSUME OneWorker, Reliable, FreshInv, NEW p \in Workers, ExecuteStep(p)
    PROVE  FreshInv' /\ SubmitsOnce(p)
<1> DEFINE c == turn[p].ctx
           ok == turn[p].ok
<1>1. HeldInv'
  BY ExecuteStepHeld DEF FreshInv
<1>2. turn[p].pc \in {"plan", "execute", "settle"}
  BY DEF ExecuteStep, AnswerFollowup, AnswerWithoutExecution, RequestConfirmation,
     BeginExecution, Execute, SettleAction, SettleTask, At
<1>3. /\ c \in Sessions /\ SessionFresh(session, nextId, submitted) /\ TurnLife(turn[p], session)
      /\ turn[p] \in Turns /\ TurnHeld(turn[p]) /\ TurnFresh(turn[p], nextId, submitted)
      /\ InputLeft(session) /\ nextId \in Nat /\ ok \in BOOLEAN
  BY FreshFacts, TurnFields
<1>4. /\ turn[p].chat /\ (c.state.act \in Waits => Fresh(c.state.held.id, nextId, submitted))
      /\ c.input.kind = "none" /\ ~turn[p].syncs
  BY <1>2, <1>3, FreshContext DEF TurnLife
<1>5. ~At(p, "execute") => SubmitsOnce(p)
  BY DEF SubmitsOnce, Submits
<1>6. CASE AnswerFollowup(p) \/ AnswerWithoutExecution(p)
  <2>1. /\ session' = session /\ nextId' = nextId /\ submitted' = submitted /\ At(p, "plan")
        /\ \E pc \in {"note", "clean"} : Answer(p, pc)
    BY <1>6 DEF AnswerFollowup, AnswerWithoutExecution, history
  <2>2. FreshInv'
    BY <1>1, <1>2, <1>3, <2>1, FreshAnswer
  <2> QED BY <1>5, <2>1, <2>2 DEF At
<1>7. CASE RequestConfirmation(p)
  <2> DEFINE a == [id |-> nextId, message |-> turn[p].msg, strategy |-> turn[p].msg,
                   ttl |-> TRUE, missing |-> FALSE]
             s == save_waiting_confirmation_state(c, a)
  <2>1. Save(p, s) /\ Answer(p, "note") /\ nextId' = nextId + 1 /\ submitted' = submitted
        /\ At(p, "plan")
    BY <1>7 DEF RequestConfirmation, history
  <2>2. nextId \in Ids /\ turn[p].msg \in Strategies
    BY <1>7, FreshFacts DEF RequestConfirmation, should_request_confirmation, requires_confirmation,
        TypeOK, Ids
  <2>3. a \in Payloads /\ a.id = nextId
    BY <2>2 DEF Payloads, Messages, Ids
  <2>4. Written(s, "waiting_confirmation", a, a, c.input)
    BY <1>3, <2>3, OperationsWrite
  <2> HIDE DEF s, a
  <2>5. Fresh(nextId, nextId', submitted)
    <3>1. nextId \notin submitted
      BY <1>3, FreshFacts
    <3> QED BY <1>3, <2>1, <3>1 DEF Fresh
  <2>6. SessionFresh(session', nextId', submitted)
    BY <1>4, <2>1, <2>3, <2>4, <2>5, FreshSaved DEF Written
  <2>7. FreshInv'
    BY <1>1, <1>2, <2>1, <2>6, FreshAnswer
  <2> QED BY <1>5, <2>1, <2>7 DEF At
<1>8. CASE BeginExecution(p)
  <2> DEFINE s == mark_runtime_action_executing(c)
             b == IF turn[p].granted /\ Writes_executing(c) THEN s ELSE c
             t == [turn[p] EXCEPT !.pc = "execute", !.ctx = b]
  <2>1. /\ turn[p].pc = "plan" /\ turn' = [turn EXCEPT ![p] = t]
        /\ IF turn[p].granted /\ Writes_executing(c) THEN Save(p, s) ELSE UNCHANGED session
        /\ nextId' = nextId /\ submitted' = submitted
    BY <1>8 DEF BeginExecution, Goto, At, history
  <2>2. Written(s, "executing", c.state.held, c.pending, c.input)
    BY <1>3, ConstantsTyped, OperationsWrite
  <2>3. /\ t.pc = "execute" /\ t.granted = turn[p].granted /\ t.chat = turn[p].chat
        /\ t.conf = turn[p].conf
    BY <1>3 DEF Turns
  <2> HIDE DEF s, b, t
  <2>4. SessionFresh(session', nextId', submitted)
    BY <1>3, <1>4, <2>1, <2>2, FreshSaved DEF Written, Waits
  <2>5. turn[p].granted => Fresh(turn[p].conf.id, nextId, submitted)
    BY <1>3, <1>4, <2>1 DEF TurnLife, TurnHeld, Waits
  <2>6. TurnFresh(t, nextId, submitted)
    BY <1>4, <2>3, <2>5 DEF TurnFresh
  <2>7. FreshInv'
    BY <1>1, <2>1, <2>4, <2>6, FreshStep
  <2> QED BY <1>5, <2>1, <2>7 DEF At
\* What is handed over was confirmed, is executing, and is offered by nothing.
<1>9. CASE \E success \in BOOLEAN : Execute(p, success)
  <2>1. PICK success \in BOOLEAN : Execute(p, success)
    BY <1>9
  <2> DEFINE t == [turn[p] EXCEPT !.pc = "settle", !.ok = success]
             id == turn[p].conf.id
  <2>2. /\ turn[p].pc = "execute" /\ turn' = [turn EXCEPT ![p] = t]
        /\ session' = session /\ nextId' = nextId
        /\ submitted' = IF Submits(p) THEN submitted \cup {id} ELSE submitted
    BY <2>1 DEF Execute, At
  <2>3. t.pc = "settle" /\ t.chat = turn[p].chat
    BY <1>3 DEF Turns
  <2> HIDE DEF t
  <2>4. CASE Submits(p)
    <3>1. turn[p].granted
      BY <1>3, <1>4, <2>2, <2>4 DEF Submits, TurnHeld
    <3>2. /\ Fresh(id, nextId, submitted) /\ session.state.act = "executing"
      BY <1>3, <1>4, <2>2, <3>1 DEF TurnLife, TurnHeld, TurnFresh, SameAction
    <3>3. SessionFresh(session', nextId', submitted')
      BY <1>3, <2>2, <3>2 DEF SessionFresh, InputLeft, Waits
    <3>4. \A i \in submitted' : i < nextId'
      BY <2>2, <2>4, <3>2, FreshFacts DEF Fresh
    <3>5. TurnFresh(t, nextId', submitted')
      BY <1>4, <2>3 DEF TurnFresh
    <3>6. \A q \in Workers : TurnFresh(turn'[q], nextId', submitted')
      BY <2>2, <3>5, FreshFacts DEF OneWorker, TypeOK
    <3> QED BY <1>1, <3>2, <3>3, <3>4, <3>6 DEF FreshInv, SubmitsOnce, Fresh
  <2>5. CASE ~Submits(p)
    <3>1. TurnFresh(t, nextId, submitted)
      BY <1>4, <2>3 DEF TurnFresh
    <3>2. FreshInv'
      BY <1>1, <1>3, <2>2, <2>5, <3>1, FreshStep
    <3> QED BY <2>5, <3>2 DEF SubmitsOnce
  <2> QED BY <2>4, <2>5
<1>10. CASE SettleAction(p)
  <2> DEFINE s == mark_runtime_action_done(c, ok)
  <2>1. /\ Answer(p, "note") /\ (Save(p, s) \/ session' = session) /\ At(p, "settle")
        /\ nextId' = nextId /\ submitted' = submitted
    BY <1>10 DEF SettleAction, history
  <2>2. Written(s, DoneStatus(ok), c.state.held, NoPayload, c.input)
    BY <1>3, ConstantsTyped, OperationsWrite
  <2> HIDE DEF s
  <2>3. s.state.act \notin Waits /\ s.input.kind = "none"
    BY <1>4, <2>2 DEF Written, DoneStatus, Waits
  <2>4. SessionFresh(session', nextId', submitted)
    BY <1>3, <2>1, <2>3, FreshSaved
  <2>5. FreshInv'
    BY <1>1, <1>2, <2>1, <2>4, FreshAnswer
  <2> QED BY <1>5, <2>1, <2>5 DEF At
<1>11. CASE SettleTask(p)
  <2> DEFINE s == save_runtime_task_execution_state(c, ok)
  <2>1. /\ Save(p, s) /\ At(p, "settle") /\ nextId' = nextId /\ submitted' = submitted
        /\ Answer(p, "note") \/ \E u : AnswerKeeping(p, u)
    BY <1>11 DEF SettleTask, history
  <2>2. Written(s, "none", NoPayload, NoPayload, c.input)
    BY <1>3, ConstantsTyped, OperationsWrite
  <2> HIDE DEF s
  <2>3. SessionFresh(session', nextId', submitted)
    BY <1>4, <2>1, <2>2, FreshSaved DEF Written, Waits
  <2>4. FreshInv'
    BY <1>1, <1>2, <2>1, <2>3, FreshAnswer
  <2> QED BY <1>5, <2>1, <2>4 DEF At
<1> QED BY <1>6, <1>7, <1>8, <1>9, <1>10, <1>11 DEF ExecuteStep

LEMMA FinishStepFresh ==
    ASSUME OneWorker, Reliable, FreshInv, NEW p \in Workers, FinishStep(p)
    PROVE  FreshInv'
<1> DEFINE c == turn[p].ctx
           b == turn[p].buf
<1>1. /\ HeldInv' /\ submitted' = submitted /\ nextId' = nextId
      /\ turn[p].pc \in {"note", "note_save", "sync", "clean", "clean_save", "trace", "trace_save"}
  BY FinishStepHeld DEF FreshInv, FinishStep, Note, NoteSave, Sync, Clean, CleanSave, Trace,
     TraceSave, At, history
<1>2. SessionFresh(session, nextId, submitted) /\ TurnLife(turn[p], session)
  BY FreshFacts
\* What is stored again has the state and the input that it has now.
<1>3. ASSUME turn[p].pc \in {"note_save", "clean_save", "trace_save"}, session' \in Saved(b)
      PROVE  SessionFresh(session', nextId', submitted)
  <2>1. session' = b
    BY <1>3, ReliableFacts
  <2>2. session'.state = session.state /\ session'.input = session.input
    BY <1>2, <1>3, <2>1 DEF TurnLife
  <2> QED BY <1>1, <1>2, <2>2 DEF SessionFresh
<1>4. ASSUME SessionFresh(session', nextId', submitted), AfterNote(p)
      PROVE  FreshInv'
  <2>1. Buffers(p, "sync", EmptySession) \/ AfterAnswer(p)
    BY <1>4 DEF AfterNote, Buffers
  <2> QED BY <1>1, <1>4, <2>1, FreshMove, FreshAnswer
<1>5. CASE Note(p)
  <2>1. session' = session
    BY <1>5 DEF Note
  <2>2. AfterNote(p) \/ Buffers(p, "note_save", session)
    BY <1>5, ReliableFacts DEF Note, Buffers
  <2> QED BY <1>1, <1>2, <1>4, <2>1, <2>2, FreshMove
<1>6. CASE NoteSave(p)
  BY <1>3, <1>4, <1>6 DEF NoteSave, At
<1>7. CASE Sync(p)
  <2>1. turn[p].pc = "sync" /\ Save(p, c) /\ AfterAnswer(p)
    BY <1>7 DEF Sync, At
  <2>2. c.state.act = "none" /\ c.input.kind = "none"
    BY <1>2, <2>1 DEF TurnLife
  <2>3. SessionFresh(session', nextId', submitted)
    BY <1>1, <2>1, <2>2, FreshSaved DEF Waits
  <2> QED BY <1>1, <2>1, <2>3, FreshAnswer
<1>8. CASE Clean(p)
  <2>1. session' = session
    BY <1>8 DEF Clean
  <2>2. \/ Leave(p) \/ Answer(p, "trace") \/ Buffers(p, "clean_save", Cleaned(session))
    BY <1>8, ReliableFacts DEF Clean, Buffers
  <2>3. CASE Buffers(p, "clean_save", Cleaned(session))
    BY <1>1, <1>2, <2>1, <2>3, FreshMove
  <2> QED BY <1>1, <1>2, <2>1, <2>2, <2>3, FreshAnswer
<1>9. CASE CleanSave(p)
  BY <1>1, <1>3, <1>9, FreshAnswer DEF CleanSave, At
<1>10. CASE Trace(p)
  <2>1. session' = session /\ Buffers(p, "trace_save", session)
    BY <1>10, ReliableFacts DEF Trace, Buffers
  <2> QED BY <1>1, <1>2, <2>1, FreshMove
<1>11. CASE TraceSave(p)
  BY <1>1, <1>3, <1>11, FreshAnswer DEF TraceSave, At
<1> QED BY <1>5, <1>6, <1>7, <1>8, <1>9, <1>10, <1>11 DEF FinishStep

LEMMA ArriveFresh ==
    ASSUME OneWorker, Reliable, OnlyWrites, OnlyUnconfirmed, FreshInv, NEW p \in Workers, Arrive(p)
    PROVE  FreshInv'
<1>1. HeldInv' /\ session \in Sessions /\ SessionFresh(session, nextId, submitted)
      /\ InputLeft(session) /\ nextId \in Nat
  BY ArriveHeld, FreshFacts DEF FreshInv
<1>2. ASSUME NEW m, NEW bot, NEW c, Start(p, m, TRUE, bot, c), session' = session,
             submitted' = submitted, nextId' \in {nextId, nextId + 1},
             c.input.kind # "confirmed",
             c.input.kind \in {"missing", "cancel"} => Fresh(c.input.id, nextId, submitted)
      PROVE  FreshInv'
  <2> DEFINE t == [Idle EXCEPT !.pc = "entry", !.msg = m, !.chat = TRUE, !.bot = bot, !.ctx = c]
  <2>1. t.ctx = c /\ t.pc = "entry" /\ t.chat
    BY DEF Idle
  <2>2. turn' = [turn EXCEPT ![p] = t]
    BY <1>2 DEF Start
  <2> HIDE DEF t
  <2>3. TurnFresh(t, nextId, submitted)
    BY <1>2, <2>1 DEF TurnFresh
  <2>4. SessionFresh(session', nextId', submitted)
    BY <1>1, <1>2, FreshKept
  <2> QED BY <1>1, <1>2, <2>2, <2>3, <2>4, FreshStep
<1>3. CASE \E m \in Texts : ReceiveMessage(p, m)
  <2>1. PICK m \in Texts : ReceiveMessage(p, m)
    BY <1>3
  <2>2. /\ Start(p, m, TRUE, TRUE, session) /\ session' = session
        /\ submitted' = submitted /\ nextId' = nextId
    BY <2>1, ReliableFacts DEF ReceiveMessage
  <2>3. session.input.kind # "confirmed"
        /\ (session.input.kind \in {"missing", "cancel"} =>
              Fresh(session.input.id, nextId, submitted))
    BY <1>1 DEF InputLeft, SessionFresh
  <2> QED BY <1>2, <2>2, <2>3
<1>4. CASE \E m \in {"approve", "reject"}, r \in PortalRequests, id \in Ids :
              PortalAction(p, m, r, id)
  <2>1. PICK m \in {"approve", "reject"}, r \in PortalRequests, id \in Ids :
              PortalAction(p, m, r, id)
    BY <1>4
  <2>2. ~r.confirm /\ r.chat
    BY DEF OnlyUnconfirmed
  <2> DEFINE i == [kind |-> IF r.confirm THEN "confirmed" ELSE "plain",
                   id |-> id, message |-> m, strategy |-> m]
  <2>3. /\ Start(p, m, r.chat, FALSE, [session EXCEPT !.input = i]) /\ session' = session
        /\ submitted' = submitted /\ nextId' \in {nextId, nextId + 1}
    BY <2>1, <2>2, ReliableFacts DEF PortalAction
  <2>4. i.kind = "plain"
    BY <2>2
  <2> HIDE DEF i
  <2> DEFINE c == [session EXCEPT !.input = i]
  <2>5. c.input = i
    BY <1>1, KeysWrite
  <2> HIDE DEF c
  <2>6. Start(p, m, TRUE, FALSE, c)
    BY <2>2, <2>3 DEF c, Start
  <2> QED BY <1>2, <2>3, <2>4, <2>5, <2>6
<1>5. CASE PortalQuery(p)
  <2>1. Start(p, "query", TRUE, FALSE, EmptySession) /\ session' = session
        /\ submitted' = submitted /\ nextId' = nextId
    BY <1>5 DEF PortalQuery, history
  <2> QED BY <1>2, <2>1, LifeEmpty
<1> QED BY <1>3, <1>4, <1>5 DEF Arrive

LEMMA EnvironmentFresh ==
    ASSUME OneWorker, FreshInv, Environment
    PROVE  FreshInv'
<1>1. HeldInv' /\ SessionFresh(session, nextId, submitted)
      /\ nextId' = nextId /\ submitted' = submitted
  BY EnvironmentHeld DEF FreshInv, Environment, Crash, Lapse, ExpireSession, history
<1>2. CASE \E p \in Workers : Crash(p)
  <2>1. PICK p \in Workers : Leave(p) /\ session' = session /\ turn[p].pc # "idle"
    BY <1>2 DEF Crash, At
  <2> QED BY <1>1, <2>1, FreshAnswer
<1>3. CASE \E id \in Ids : Lapse(id)
  BY <1>1, <1>3 DEF Lapse, FreshInv
<1>4. CASE ExpireSession
  <2>1. session' = EmptySession /\ turn' = turn
    BY <1>4 DEF ExpireSession
  <2> QED BY <1>1, <2>1, LifeEmpty DEF FreshInv, SessionFresh, Waits
<1> QED BY <1>2, <1>3, <1>4 DEF Environment

LEMMA FreshInit == InputsNamed /\ Init => FreshInv
<1> SUFFICES ASSUME InputsNamed, Init PROVE FreshInv
  OBVIOUS
<1>1. HeldInv
  BY HeldInit
<1>2. session \in Sessions /\ session.input.id \in Nat
  BY <1>1, SessionFields, InputFields DEF HeldInv, LifeInv, TypeOK, Ids
<1>3. PICK i \in InputsLeft \cup {NoInput} : session = [EmptySession EXCEPT !.input = i]
  BY DEF Init
<1>6. session.state.act = "none"
  BY <1>3, LifeEmpty, ConstantsTyped, KeysWrite
<1>4. SessionFresh(session, nextId, submitted)
  BY <1>2, <1>6 DEF SessionFresh, Fresh, Init, Waits
<1>5. TurnFresh(Idle, nextId, submitted)
  BY DEF TurnFresh, Idle
<1> QED BY <1>1, <1>4, <1>5 DEF FreshInv, Init

LEMMA FreshNext ==
    ASSUME OneWorker, Reliable, OnlyWrites, OnlyUnconfirmed, FreshInv, [Next]_vars
    PROVE  FreshInv' /\ [\A p \in Workers : SubmitsOnce(p)]_vars
<1>1. CASE \E p \in Workers : ExecuteStep(p)
  <2>1. PICK p \in Workers : ExecuteStep(p)
    BY <1>1
  <2>2. FreshInv' /\ SubmitsOnce(p)
    BY <2>1, ExecuteStepFresh
  <2> QED BY <2>2 DEF OneWorker
\* No other step of a turn ends an execution.
<1>2. CASE \E p \in Workers : Arrive(p) \/ EnterStep(p) \/ RouteStep(p) \/ FinishStep(p)
  <2>1. PICK p \in Workers : Arrive(p) \/ EnterStep(p) \/ RouteStep(p) \/ FinishStep(p)
    BY <1>2
  <2>2. FreshInv'
    BY <2>1, ArriveFresh, EnterStepFresh, RouteStepFresh, FinishStepFresh
  <2>3. turn[p].pc # "execute"
    BY <2>1 DEF Arrive, ReceiveMessage, PortalAction, PortalQuery, Start,
       EnterStep, EnterWithoutInput, RejectInput, EnterMissingInput, EnterCancelInput,
       EnterConfirmedInput, ConfirmInput, EnterPlainInput,
       RouteStep, CancelWaitingInput, PromptStarted, PromptAgain, FillInput, WaitsForInput,
       ConfirmNothing, CancelPending, ConfirmExpired, ConfirmGuarded, ConfirmPending,
       PassToPlanner, Confirms, Routes,
       FinishStep, Note, NoteSave, Sync, Clean, CleanSave, Trace, TraceSave, At
  <2>4. \A q \in Workers : SubmitsOnce(q)
    BY <2>3 DEF OneWorker, SubmitsOnce, Submits, At
  <2> QED BY <2>2, <2>4
<1>3. CASE Environment
  <2>1. FreshInv'
    BY <1>3, EnvironmentFresh
  <2>2. ASSUME NEW q \in Workers, At(q, "execute"), turn'[q].pc = "settle"
        PROVE  FALSE
    <3>1. turn \in [Workers -> Turns]
      BY DEF FreshInv, HeldInv, LifeInv, TypeOK
    <3>2. turn' = turn \/ \E p \in Workers : turn' = [turn EXCEPT ![p] = Idle]
      BY <1>3 DEF Environment, Crash, Leave, Lapse, ExpireSession
    <3>3. Idle.pc = "idle"
      BY DEF Idle
    <3> QED BY <2>2, <3>1, <3>2, <3>3 DEF OneWorker, At
  <2> QED BY <2>1, <2>2 DEF SubmitsOnce, Submits
<1>4. CASE UNCHANGED vars
  <2>1. HeldInv'
    BY <1>4, HeldNext DEF FreshInv
  <2> QED BY <1>4, <2>1 DEF vars, history, FreshInv
<1> QED BY <1>1, <1>2, <1>3, <1>4 DEF Next, TurnStep

\* No confirmed action is handed to the provider twice: its id is handed out once,
\* and once it is submitted no session, input or turn offers it again.  A confirmed
\* request of the portal brings its own id, any number of times.
THEOREM SubmittedAtMostOnce ==
    ASSUME OneWorker, Reliable, InputsNamed, OnlyWrites, OnlyUnconfirmed
    PROVE  Spec => SubmittedOnce
<1>1. Init => FreshInv
  BY FreshInit
<1>2. FreshInv /\ [Next]_vars => FreshInv' /\ [\A p \in Workers : SubmitsOnce(p)]_vars
  BY FreshNext
<1> QED BY <1>1, <1>2, PTL DEF Spec, SubmittedOnce

=============================================================================

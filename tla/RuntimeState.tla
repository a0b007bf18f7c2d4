---------------------------- MODULE RuntimeState ----------------------------
(***************************************************************************)
(* The chat session of the V5 runtime and the operations of                *)
(* app/services/runtime_v5/runtime_state.py on it.                         *)
(*                                                                         *)
(* A session is the JSON blob kept in Redis under feishu:session:{chat_id}.*)
(* Only the keys that decide what is executed are modelled:                *)
(*   state    runtime_v5_state: the task status, the status of its latest  *)
(*            action ("none" when actions = ()) and the payload kept in    *)
(*            the action's metadata.pending_action                         *)
(*   pending  runtime_v5_pending_action                                    *)
(*   input    runtime_v5_action_input, left by a card click                *)
(*   started  runtime_v5_waiting_input_started                             *)
(*   single   runtime_v5_pending_approval_single, which the approval cards *)
(*            keep (CardConfirm) and a turn only carries along             *)
(*                                                                         *)
(* Every operation takes the session its caller holds in memory and is the *)
(* session it writes; the operator Writes_* next to it says whether it     *)
(* writes at all (the early returns of the code).                          *)
(***************************************************************************)
EXTENDS Naturals

CONSTANT MaxId          \* bound on the number of action ids (uuid4) handed out

ASSUME MaxIdAssumption == MaxId \in Nat \ {0}

Ids == 1..MaxId

\* Messages that ask for a write; each plans the strategy of the same name.
Strategies == {"approve", "reject", "transfer", "add_sign"}

\* What else a message can be to the runtime: a text that contains a
\* confirmation term and nothing else, a cancel term, a question, a reference
\* to the last result, and a text that fills no parameter (a bare prefix).
Messages == Strategies \cup {"confirm", "cancel", "query", "followup", "blank"}

TaskStatuses == {"none", "waiting", "running", "done", "failed"}

ActionStatuses == {"none", "waiting_input", "waiting_confirmation", "confirmed",
                   "executing", "done", "failed", "cancelled", "stale"}

(* A pending action.  ttl: the payload carries expires_at; missing: it      *)
(* still lists missing_params.                                             *)
Payloads == [id : Ids \cup {0}, message : Messages \cup {"none"},
             strategy : Strategies \cup {"none"},
             ttl : BOOLEAN, missing : BOOLEAN]

NoPayload == [id |-> 0, message |-> "none", strategy |-> "none",
              ttl |-> FALSE, missing |-> FALSE]

(* A RuntimeActionInput.  "legacy" and "no_company" are inputs that break   *)
(* the entry contract; "missing" declares missing_params and is not         *)
(* confirmed; "plain" is an unconfirmed input with nothing missing.         *)
InputKinds == {"none", "legacy", "no_company", "missing", "cancel",
               "confirmed", "plain"}

Inputs == [kind : InputKinds, id : Ids \cup {0}, message : Messages \cup {"none"},
           strategy : Strategies \cup {"none"}]

NoInput == [kind |-> "none", id |-> 0, message |-> "none", strategy |-> "none"]

States == [task : TaskStatuses, act : ActionStatuses, held : Payloads]

NoState == [task |-> "none", act |-> "none", held |-> NoPayload]

Sessions == [state : States, pending : Payloads, input : Inputs, started : BOOLEAN,
             single : Payloads]

EmptySession == [state |-> NoState, pending |-> NoPayload, input |-> NoInput,
                 started |-> FALSE, single |-> NoPayload]

-----------------------------------------------------------------------------
(* Reading the state *)

latest_action_exists(s) == s.state.act # "none"

\* pending_action_from_runtime_state, then the session key as a fallback.
pending_action(s) ==
    IF s.state.act \in {"waiting_confirmation", "confirmed"}
    THEN s.state.held
    ELSE s.pending

waiting_input_action(s) ==
    IF s.state.act = "waiting_input" THEN s.state.held ELSE NoPayload

\* The payload that pending_action_from_runtime_action_input builds: it has no
\* expires_at.
pending_from_input(i, missing) ==
    [id |-> i.id, message |-> i.message, strategy |-> i.strategy,
     ttl |-> FALSE, missing |-> missing]

\* pending_action_with_user_input: the parameter is filled.
with_user_input(p) == [p EXCEPT !.missing = FALSE]

-----------------------------------------------------------------------------
(* Writing the state *)

WithAction(s, task, act) ==
    [s EXCEPT !.state = [@ EXCEPT !.task = task, !.act = act]]

WithoutPending(s) == [s EXCEPT !.pending = NoPayload]

save_waiting_input_state(s, p) ==
    [s EXCEPT !.state = [task |-> "waiting", act |-> "waiting_input", held |-> p],
              !.pending = p]

save_waiting_confirmation_state(s, p) ==
    [s EXCEPT !.state = [task |-> "waiting", act |-> "waiting_confirmation", held |-> p],
              !.pending = p]

mark_runtime_action_waiting_confirmation(s, p) ==
    [s EXCEPT !.state = [task |-> "waiting", act |-> "waiting_confirmation", held |-> p],
              !.pending = p]

\* Mutant: the confirmation is never recorded.
Writes_never(s) == FALSE

Writes_confirmed(s) == latest_action_exists(s) /\ s.state.act # "confirmed"

mark_runtime_action_confirmed(s) == WithAction(s, "running", "confirmed")

Writes_executing(s) == latest_action_exists(s) /\ s.state.act # "executing"

mark_runtime_action_executing(s) == WithAction(s, "running", "executing")

\* Mutant: the execution's own status is stored.
ExecutionStatus(success) == IF success THEN "success" ELSE "error"

DoneStatus(success) == IF success THEN "done" ELSE "failed"

\* Mutant: the outcome is recorded only for an action that is not executing.
Writes_done_early(s, success) ==
    latest_action_exists(s) /\ s.state.act \notin {"executing", DoneStatus(success)}

Writes_done(s, success) ==
    latest_action_exists(s) /\ s.state.act # DoneStatus(success)

mark_runtime_action_done(s, success) ==
    WithoutPending(WithAction(s, DoneStatus(success), DoneStatus(success)))

\* Mutant: a cancelled or stale action leaves its task as it was.
mark_terminal_action_only(s, act) ==
    WithoutPending(WithAction(s, s.state.task, act))

\* Mutant: the pending key is left to the state that doubles it.
mark_terminal_state_only(s, act) == WithAction(s, "failed", act)

\* mark_runtime_action_cancelled and mark_runtime_action_stale
mark_terminal(s, act) == WithoutPending(WithAction(s, "failed", act))

\* The state of a task that asked for no confirmation: it has no action.
TaskState(success) == [NoState EXCEPT !.task = DoneStatus(success)]

save_runtime_task_execution_state(s, success) ==
    WithoutPending([s EXCEPT !.state = TaskState(success)])

=============================================================================

-------------------------- MODULE ApprovalCommands --------------------------
(***************************************************************************)
(* Approving and rejecting by text command or by the older approval card,  *)
(* the path that is in use while feishu_bot_runtime_v5_enabled is off      *)
(* (app/services/feishu/commands.py, command_dispatcher.py,                *)
(* approval_actions.py, approval_context.py, approval_card_responder.py),  *)
(* with the gate of the tool router behind it (app/services/tools).        *)
(*                                                                         *)
(* Redis keeps two keys for a user in a chat: the list of approvals that   *)
(* row numbers refer to, and the action waiting for "确认".  The model is  *)
(* of one user in one chat; every message is handled on a thread of its    *)
(* own, and a message may arrive twice.                                    *)
(***************************************************************************)
EXTENDS Naturals, Sequences, FiniteSets

CONSTANTS
    Handlers,       \* threads that handle messages and card clicks
    Messages,       \* the commands the user sends and the buttons clicked
    Tasks,          \* approval tasks
    MaxActions      \* bound on the actions prepared

Decisions == {"approve", "reject"}
Rows == 0 .. Cardinality(Tasks)     \* 0: the message names no row

Commands ==
    [kind : {"prepare", "click"}, action : Decisions, row : Rows]
      \cup [kind : {"confirm"}, action : Decisions]

ASSUME CommandAssumption ==
    /\ Messages \subseteq Commands
    /\ IsFiniteSet(Tasks) /\ MaxActions \in Nat

VARIABLES
    context,        \* the list that row numbers refer to, <<>> if there is none
    pending,        \* the action waiting for a confirmation
    nextId,         \* the next prepared action
    proc,           \* the message each handler works on
    open,           \* the tasks still waiting at Feishu
    audit,          \* committed audit rows
    confirmed,      \* history: the actions their user confirmed
    submitted,      \* history: the actions handed to the provider
    succeeded,      \* history: the actions the provider reported done
    interrupted     \* history: the actions whose handler did not reach its end

redis == <<context, pending>>
history == <<confirmed, submitted, succeeded, interrupted>>
commandVars == <<context, pending, nextId, proc, open, audit, history>>

Ids == 1 .. MaxActions

Lists == {l \in UNION {[1 .. n -> Tasks] : n \in 0 .. Cardinality(Tasks)} :
            \A i, j \in DOMAIN l : l[i] = l[j] => i = j}

\* The confirmation token is a digest of actor, action and task; its value is
\* the part that could differ.
approval_action_confirmation_token(item, action) == <<item, action>>

NoPending == [id |-> 0]
PreparedActions ==
    {[id |-> i, action |-> a, item |-> t, token |-> approval_action_confirmation_token(t, a)] :
        i \in Ids, a \in Decisions, t \in Tasks}

\* access: the identity read when the message arrived; items: the list it works
\* on; act: the action it confirms; rows: audit rows not yet committed.  A field
\* that is not read again goes back to its idle value.
Idle == [pc |-> "idle", msg |-> [kind |-> "none"], access |-> "none", items |-> <<>>,
         act |-> NoPending, rows |-> {}]

AuditRows == [id : Ids, status : {"success", "error", "denied"}]

Handling ==
    [pc : {"idle", "items", "fetch", "keep", "prepare", "load", "drop", "call", "clear",
           "clear_context", "reply", "record"},
     msg : Messages \cup {Idle.msg}, access : {"none", "read", "write"}, items : Lists,
     act : PreparedActions \cup {NoPending}, rows : SUBSET AuditRows]

At(h, pc) == proc[h].pc = pc
Preparing(h) == proc[h].msg.kind \in {"prepare", "click"}
Goto(h, pc) == proc' = [proc EXCEPT ![h].pc = pc]
End(h) == proc' = [proc EXCEPT ![h] = Idle]

-----------------------------------------------------------------------------
(* A message arrives.  Nothing compares it with messages seen before.        *)

\* identity, access: resolved from the access tables, which an administrator may
\* edit between two messages.  A click may come from any card still in the chat:
\* the card shows the live list of the moment it was sent, which is not kept, so
\* its row number need not fit the list kept.  Without can_query_approvals the
\* message ends here.
Receive(h, m, access) ==
    /\ At(h, "idle")
    /\ m.kind = "click" => m.row # 0
    /\ m.kind # "confirm" => nextId + Cardinality({k \in Handlers : Preparing(k)}) \in Ids
    /\ proc' = [proc EXCEPT ![h] = [Idle EXCEPT
            !.pc = IF m.kind = "confirm" THEN "load" ELSE "items",
            !.msg = m, !.access = IF m.kind = "confirm" THEN access ELSE "none"]]
    /\ UNCHANGED <<redis, nextId, open, audit, history>>

\* "取消": the key is deleted, whoever is working on what it held.
clear_pending_approval_action ==
    /\ pending' = NoPending
    /\ UNCHANGED <<context, nextId, proc, open, audit, history>>

-----------------------------------------------------------------------------
(* prepare_approval_action_reply *)

\* The list kept; a text command reads a new one if there is none, a click on
\* the card does not.
LoadItems(h) ==
    /\ At(h, "items")
    /\ proc' = [proc EXCEPT ![h] =
         IF context # <<>> THEN [@ EXCEPT !.pc = "prepare", !.items = context]
         ELSE IF @.msg.kind = "prepare" THEN [@ EXCEPT !.pc = "fetch"]
         ELSE Idle]
    /\ UNCHANGED <<redis, nextId, open, audit, history>>

\* The tasks open at Feishu in whatever order it lists them; none, or an error,
\* ends the command.
Fetch(h) ==
    /\ At(h, "fetch")
    /\ \/ \E l \in Lists \ {<<>>} :
            /\ {l[i] : i \in DOMAIN l} = open
            /\ proc' = [proc EXCEPT ![h].pc = "keep", ![h].items = l]
       \/ End(h)
    /\ UNCHANGED <<redis, nextId, open, audit, history>>

\* Mutant: the new list is added to the one another handler has kept.
Listed_appended(h) == context \o proc[h].items

Listed(h) == proc[h].items

store_approval_context(h) ==
    /\ At(h, "keep")
    /\ context' = Listed(h)
    /\ Goto(h, "prepare")
    /\ UNCHANGED <<pending, nextId, open, audit, history>>

\* A row in range selects; any other selects nothing and leaves the whole list.
Chosen(items, row) == IF row \in DOMAIN items THEN <<items[row]>> ELSE items

Prepared(h, item) ==
    [id |-> nextId, action |-> proc[h].msg.action, item |-> item,
     token |-> approval_action_confirmation_token(item, proc[h].msg.action)]

store_pending_approval_action(h) ==
    LET items == Chosen(proc[h].items, proc[h].msg.row)
    IN /\ At(h, "prepare")
       /\ \/ /\ Len(items) = 1
             /\ pending' = Prepared(h, items[1])
             /\ nextId' = nextId + 1
          \/ UNCHANGED <<pending, nextId>>      \* which one, or missing_approval_action_fields
       /\ End(h)
       /\ UNCHANGED <<context, open, audit, history>>

-----------------------------------------------------------------------------
(* execute_pending_approval_action_reply *)

Row(h, status) == [id |-> proc[h].act.id, status |-> status]

\* Mutant: any "确认" confirms what is pending.
Matches_any(p, action) == TRUE

\* approval_action_confirmation_matches, and the action the user named
Matches(p, action) ==
    p.action = action /\ p.token = approval_action_confirmation_token(p.item, p.action)

LoadPending(h) ==
    /\ At(h, "load")
    /\ IF pending = NoPending
       THEN End(h) /\ UNCHANGED confirmed
       ELSE IF Matches(pending, proc[h].msg.action)
            THEN /\ proc' = [proc EXCEPT ![h].pc = "call", ![h].act = pending, ![h].msg = Idle.msg]
                 /\ confirmed' = IF pending.action = proc[h].msg.action
                                  THEN confirmed \cup {pending.id} ELSE confirmed
            ELSE /\ proc' = [proc EXCEPT ![h] = [Idle EXCEPT !.pc = "drop", !.act = pending,
                               !.rows = {[id |-> pending.id, status |-> "denied"]}]]
                 /\ UNCHANGED confirmed
    /\ UNCHANGED <<redis, nextId, open, audit, submitted, succeeded, interrupted>>

Drop(h) ==
    /\ At(h, "drop")
    /\ pending' = NoPending
    /\ Goto(h, "reply")
    /\ UNCHANGED <<context, nextId, open, audit, history>>

\* execute_agent_tool: the tool asks for approval:write; a refusal leaves the
\* action pending.  The write guard is passed with a token made on the spot.
Denied(h) ==
    /\ At(h, "call") /\ proc[h].access # "write"
    /\ proc' = [proc EXCEPT ![h].pc = "reply", ![h].access = "none",
                        ![h].rows = {Row(h, "denied")}]
    /\ UNCHANGED <<redis, nextId, open, audit, history>>

\* Mutant: a failed submission is reported like a successful one.
AfterCall_ok(h, ok) ==
    [proc[h] EXCEPT !.pc = "clear", !.access = "none", !.rows = {Row(h, "success")}]

AfterCall(h, ok) ==
    [proc[h] EXCEPT !.pc = IF ok THEN "clear" ELSE "reply", !.access = "none",
                    !.rows = {Row(h, IF ok THEN "success" ELSE "error")}]

\* The call of lark-cli: ok when it ends with exit code 0 (run_lark_cli_json does
\* not look at the code in its output).  An error or a timeout says nothing of
\* the task either.
Call(h, ok, effect) ==
    LET act == proc[h].act
    IN /\ At(h, "call") /\ proc[h].access = "write"
       /\ effect => act.item \in open
       /\ open' = IF effect THEN open \ {act.item} ELSE open
       /\ submitted' = submitted \cup {act.id}
       /\ succeeded' = IF ok THEN succeeded \cup {act.id} ELSE succeeded
       /\ proc' = [proc EXCEPT ![h] = AfterCall(h, ok)]
       /\ UNCHANGED <<redis, nextId, audit, confirmed, interrupted>>

\* Mutant: the key is left to expire.
Forget_late(h) == UNCHANGED pending

\* The key is deleted whatever it holds by now.
Forget(h) == pending' = NoPending

Clear(h) ==
    /\ At(h, "clear")
    /\ Forget(h)
    /\ Goto(h, "clear_context")
    /\ UNCHANGED <<context, nextId, open, audit, history>>

ClearContext(h) ==
    /\ At(h, "clear_context")
    /\ context' = <<>>
    /\ Goto(h, "reply")
    /\ UNCHANGED <<pending, nextId, open, audit, history>>

\* The reply is sent before the transaction of the audit rows is committed;
\* when sending raises, the session is closed and the rows are gone.
Reply(h) ==
    /\ At(h, "reply")
    /\ Goto(h, "record")
    /\ UNCHANGED <<redis, nextId, open, audit, history>>

ReplyFails(h) ==
    /\ At(h, "reply")
    /\ interrupted' = interrupted \cup {proc[h].act.id}
    /\ End(h)
    /\ UNCHANGED <<redis, nextId, open, audit, confirmed, submitted, succeeded>>

\* Mutant: only failures are worth a row.
Kept_failures(rows) == {r \in rows : r.status # "success"}

Kept(rows) == rows

record_command_context(h) ==
    /\ At(h, "record")
    /\ audit' = audit \cup Kept(proc[h].rows)
    /\ End(h)
    /\ UNCHANGED <<redis, nextId, open, history>>

-----------------------------------------------------------------------------
(* What happens around the handlers *)

\* 300 s and 900 s
ExpirePending ==
    /\ pending # NoPending /\ pending' = NoPending
    /\ UNCHANGED <<context, nextId, proc, open, audit, history>>

ExpireContext ==
    /\ context # <<>> /\ context' = <<>>
    /\ UNCHANGED <<pending, nextId, proc, open, audit, history>>

\* The task is decided in Feishu itself.
DecidedElsewhere(t) ==
    /\ t \in open /\ open' = open \ {t}
    /\ UNCHANGED <<redis, nextId, proc, audit, history>>

\* _ws_watchdog_loop: after 300 s without a message event (a connection that
\* hangs, or a chat that is quiet; clicks on cards do not count) the process
\* exits in the middle of whatever its threads do, and the container starts it
\* again.
Watchdog ==
    /\ proc' = [h \in Handlers |-> Idle]
    /\ interrupted' = interrupted \cup ({proc[h].act.id : h \in Handlers} \ {0})
    /\ UNCHANGED <<redis, nextId, open, audit, confirmed, submitted, succeeded>>

-----------------------------------------------------------------------------
Init ==
    /\ context = <<>> /\ pending = NoPending /\ nextId = 1
    /\ proc = [h \in Handlers |-> Idle]
    /\ open = Tasks
    /\ audit = {} /\ confirmed = {} /\ submitted = {} /\ succeeded = {} /\ interrupted = {}

HandlerStep(h) ==
    \/ LoadItems(h) \/ Fetch(h) \/ store_approval_context(h) \/ store_pending_approval_action(h)
    \/ LoadPending(h) \/ Drop(h) \/ Denied(h)
    \/ \E ok, effect \in BOOLEAN : Call(h, ok, effect)
    \/ Clear(h) \/ ClearContext(h)
    \/ Reply(h) \/ ReplyFails(h) \/ record_command_context(h)

Arrive ==
    \/ \E h \in Handlers, m \in Messages, a \in {"read", "write"} : Receive(h, m, a)
    \/ clear_pending_approval_action

Surroundings ==
    \/ ExpirePending \/ ExpireContext
    \/ \E t \in Tasks : DecidedElsewhere(t)
    \/ Watchdog

Next == Arrive \/ (\E h \in Handlers : HandlerStep(h)) \/ Surroundings

Spec == Init /\ [][Next]_commandVars

-----------------------------------------------------------------------------
(* Properties *)

\* Every variable has its type; in particular every list that a row number may
\* be looked up in has no task twice (approval_context.py).
CommandTypeOK ==
    /\ context \in Lists
    /\ pending \in PreparedActions \cup {NoPending}
    /\ nextId \in 1 .. MaxActions + 1
    /\ proc \in [Handlers -> Handling]
    /\ open \subseteq Tasks
    /\ audit \subseteq AuditRows
    /\ \A s \in {confirmed, submitted, succeeded, interrupted} : s \subseteq Ids

\* The commands implement the gate: what is handed to the provider is an action
\* that was prepared, and whose own decision the user confirmed while it was the
\* pending one (execute_pending_approval_action_reply).
Gate == INSTANCE WriteGate WITH Actions <- Ids
GateImplemented == Gate!Spec

\* An action the provider reported done is forgotten: unless its handler is
\* still on the way to the deletion or was interrupted before it, no later
\* "确认" can find it pending again.
DoneIsForgotten ==
    pending.id \in succeeded =>
        \/ pending.id \in interrupted
        \/ \E h \in Handlers : proc[h].act = pending /\ At(h, "clear")

\* A row of the audit log that says success stands for a submission the provider
\* reported done, and is about that action and not about the one that happens to
\* be pending when the row is written (_record_feishu_approval_action_audit).
SuccessRowsAreTrue ==
    \A r \in audit : r.status = "success" => r.id \in succeeded

\* Every submission leaves a row in the audit log once its handler has ended,
\* unless the handler was interrupted.
SubmissionsAreAudited ==
    \A i \in submitted :
        \/ \E r \in audit : r.id = i /\ r.status # "denied"
        \/ i \in interrupted
        \/ \E h \in Handlers : proc[h].act.id = i

=============================================================================

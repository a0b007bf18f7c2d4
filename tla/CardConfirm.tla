----------------------------- MODULE CardConfirm -----------------------------
(***************************************************************************)
(* Clicks on the runtime's cards, and the Celery task they queue           *)
(* (app/services/feishu/confirmation_card_entrypoint.py,                   *)
(* bot_runtime_card_reply_task in app/tasks/celery_app.py), composed with  *)
(* the turns of RuntimeV5.                                                 *)
(*                                                                         *)
(* A click does not execute anything.  It leaves a RuntimeActionInput in   *)
(* the session and queues a task that carries only a command ("确认执行"); *)
(* a worker later runs a turn on that command, and the turn finds the      *)
(* input in the session if it is still there.  Each access of a click to   *)
(* the session loads all of it and writes all of it back.                  *)
(***************************************************************************)
EXTENDS RuntimeV5, Sequences

CONSTANTS
    Clickers,           \* threads that handle card events
    DetailActions,      \* the buttons of the detail card in use
    SingleActions,      \* the buttons of a row of the workbench card in use
    MaxClicks           \* bound on the clicks

ASSUME CardAssumption ==
    /\ DetailActions \subseteq Strategies
    /\ SingleActions \subseteq {"approve", "reject"}
    /\ MaxClicks \in Nat

VARIABLES
    click,      \* the card event each clicker handles
    tasks,      \* the queued commands, with their multiplicity
    job,        \* the card task each worker is in
    asks,       \* the id each worker's answer asks the user to confirm, or 0
    cards,      \* ids that a confirmation card was sent for
    offered,    \* ids that a single-approval card was sent for
    clicks      \* clicks so far

cardVars == <<click, tasks, job, asks, cards, offered, clicks>>
allVars == <<vars, cardVars>>

Commands == {"confirm", "cancel", "reject", "transfer", "add_sign"}

\* What a handler does, step by step: "queue" and "send" act outside, all others
\* load the session and store all of it.
Steps == {"touch", "drop", "put", "keep", "clear", "queue", "send"}

\* todo: the steps left; buf: what the first of them loaded; input, command, offer:
\* what "put", "queue" and "keep" will store or queue.
NoClick == [todo |-> <<>>, loaded |-> FALSE, buf |-> EmptySession, input |-> NoInput,
            command |-> "none", offer |-> NoPayload]

Clicks == [todo : Seq(Steps), loaded : BOOLEAN, buf : Sessions, input : Inputs,
           command : Commands \cup {"none"}, offer : Payloads]

\* phase: the task runs its turn, then records how it went; ran: what the
\* provider answered to a write of that turn; told: the status of the receipt.
NoJob == [phase |-> "none", ran |-> "none", told |-> "none", buf |-> EmptySession]

Outcomes == {"none", "success", "error"}

Jobs == [phase : {"none", "turn", "receipt", "receipt_save"},
         ran : Outcomes, told : Outcomes, buf : Sessions]

ClickAt(k, step) == click[k].todo # <<>> /\ Head(click[k].todo) = step

\* A click starts a handler with the steps of todo.
NewClick(k, todo, c) ==
    /\ click[k].todo = <<>> /\ clicks < MaxClicks
    /\ click' = [click EXCEPT ![k] = [c EXCEPT !.todo = todo]]
    /\ clicks' = clicks + 1
    /\ UNCHANGED <<session, turn, lapsed, crashes, submitted, tasks, job, asks, cards, offered>>

\* The user confirms the action by the click.
Decided(id, action) == confirmed' = IF action = "confirm" THEN confirmed \cup {id} ELSE confirmed

-----------------------------------------------------------------------------
(* _handle_runtime_confirmation *)

\* Mutant: the card's id is not compared with the pending action's.
Live_unchecked(a, id) == a.id # 0 /\ ~pending_action_expired(a)

\* The pending action that was read is the card's, and has not expired.
Live(a, id) == a.id = id /\ ~pending_action_expired(a)

\* Mutant: the input is a confirmed one whichever button was clicked.
ActionInput_confirmed(a, action) ==
    [kind |-> "confirmed", id |-> a.id, message |-> a.message, strategy |-> a.strategy]

\* The input for the pending action that was read
ActionInput(a, action) ==
    IF action = "cancel"
    THEN [kind |-> "cancel", id |-> a.id, message |-> "cancel", strategy |-> a.strategy]
    ELSE [kind |-> "confirmed", id |-> a.id, message |-> a.message, strategy |-> a.strategy]

\* A live card: trace and receipt, then the input, then the task.
ClickLive(k, id, action) ==
    /\ id \in cards
    /\ \E s \in Loaded :
         /\ Live(s.pending, id)
         /\ NewClick(k, <<"touch", "put", "queue">>,
                     [NoClick EXCEPT !.input = ActionInput(s.pending, action),
                                     !.command = action])
    /\ Decided(id, action) /\ UNCHANGED nextId

\* A card of another action or of an expired one: trace and receipt only; the
\* pending key of the expired action is dropped after them.
ClickStale(k, id) ==
    /\ id \in cards
    /\ \E s \in Loaded :
         /\ ~Live(s.pending, id)
         /\ NewClick(k, IF s.pending.id = id THEN <<"touch", "drop">> ELSE <<"touch">>, NoClick)
    /\ UNCHANGED <<nextId, confirmed>>

-----------------------------------------------------------------------------
(* _handle_runtime_approval_detail_action: every click has a new id.  Only   *)
(* "approve" is confirmed by the click; the others wait for a parameter.     *)

ClickDetail(k, a) ==
    /\ nextId <= MaxId
    /\ NewClick(k, <<"touch", "put", "touch", "queue">>,
         [NoClick EXCEPT
            !.input = [kind |-> IF a = "approve" THEN "confirmed" ELSE "missing",
                       id |-> nextId, message |-> a, strategy |-> a],
            !.command = IF a = "approve" THEN "confirm" ELSE a])
    /\ nextId' = nextId + 1
    /\ Decided(nextId, IF a = "approve" THEN "confirm" ELSE a)

-----------------------------------------------------------------------------
(* Single approvals: a button of a row of the workbench card keeps the       *)
(* action under a key of its own and sends a card that asks to confirm it.   *)

\* _send_single_approval_confirmation
OfferSingle(k, a) ==
    /\ nextId <= MaxId
    /\ NewClick(k, <<"touch", "keep", "touch", "send", "touch">>,
         [NoClick EXCEPT !.offer = [id |-> nextId, message |-> a, strategy |-> a,
                                    ttl |-> TRUE, missing |-> FALSE]])
    /\ nextId' = nextId + 1
    /\ UNCHANGED confirmed

\* _handle_runtime_approval_single_confirm: a confirmation forgets the action after
\* its task was queued, a cancellation before.
ClickSingle(k, id, action) ==
    /\ id \in offered
    /\ \E s \in Loaded :
         /\ Live(s.single, id)
         /\ NewClick(k, IF action = "confirm" THEN <<"put", "touch", "queue", "clear">>
                        ELSE <<"put", "clear", "touch", "queue">>,
                     [NoClick EXCEPT !.input = ActionInput(s.single, action),
                                     !.command = action])
    /\ Decided(id, action) /\ UNCHANGED nextId

\* Without a kept action the user is only told so.
ClickSingleStale(k, id) ==
    /\ id \in offered
    /\ \E s \in Loaded :
         /\ s.single # NoPayload /\ ~Live(s.single, id)
         /\ NewClick(k, IF s.single.id = id THEN <<"clear", "touch">> ELSE <<"touch">>, NoClick)
    /\ UNCHANGED <<nextId, confirmed>>

-----------------------------------------------------------------------------
(* The steps of a handler *)

\* _record_action_trace, the receipts and _save_current_approval_item add what no
\* turn decides on.
Touched(s) == s

\* _save_runtime_confirmation_action_input and
\* _save_single_approval_runtime_action_input
WithInput(s, i) == [s EXCEPT !.input = i]

\* _save_pending_single, and _clear_pending_single for NoPayload
WithSingle(s, a) == [s EXCEPT !.single = a]

\* What the step at hand makes of the session that was loaded for it
Stored(c) ==
    CASE Head(c.todo) = "touch" -> Touched(c.buf)
      [] Head(c.todo) = "drop"  -> WithoutPending(c.buf)
      [] Head(c.todo) = "put"   -> WithInput(c.buf, c.input)
      [] Head(c.todo) = "keep"  -> WithSingle(c.buf, c.offer)
      [] Head(c.todo) = "clear" -> WithSingle(c.buf, NoPayload)

\* The handler after the step at hand
Advanced(c) ==
    IF Len(c.todo) = 1 THEN NoClick
    ELSE [c EXCEPT !.todo = Tail(c.todo), !.loaded = FALSE, !.buf = EmptySession]

Done(k) == click' = [click EXCEPT ![k] = Advanced(click[k])]

LoadSession(k) ==
    /\ click[k].todo # <<>> /\ ~click[k].loaded /\ ~ClickAt(k, "queue") /\ ~ClickAt(k, "send")
    /\ \E s \in Loaded : click' = [click EXCEPT ![k] = [@ EXCEPT !.loaded = TRUE, !.buf = s]]
    /\ UNCHANGED <<vars, tasks, job, asks, cards, offered, clicks>>

StoreSession(k) ==
    /\ click[k].loaded
    /\ session' \in Saved(Stored(click[k]))
    /\ Done(k)
    /\ UNCHANGED <<turn, nextId, lapsed, crashes, history, tasks, job, asks, cards, offered,
                   clicks>>

\* _enqueue_runtime_card_reply
Queue(k) ==
    /\ ClickAt(k, "queue")
    /\ tasks' = [tasks EXCEPT ![click[k].command] = @ + 1]
    /\ Done(k)
    /\ UNCHANGED <<vars, job, asks, cards, offered, clicks>>

\* The card is sent, or sending fails and only a trace tells.
SendSingle(k) ==
    /\ ClickAt(k, "send")
    /\ offered' \in {offered, offered \cup {click[k].offer.id}}
    /\ Done(k)
    /\ UNCHANGED <<vars, tasks, job, asks, cards, clicks>>

-----------------------------------------------------------------------------
(* bot_runtime_card_reply_task *)

StartTask(p, m) ==
    /\ tasks[m] > 0 /\ job[p].phase = "none"
    /\ \E s \in Loaded : Start(p, m, TRUE, TRUE, s)
    /\ tasks' = [tasks EXCEPT ![m] = @ - 1]
    /\ job' = [job EXCEPT ![p] = [@ EXCEPT !.phase = "turn"]]
    /\ UNCHANGED <<session, nextId, lapsed, crashes, history, click, asks, cards, offered, clicks>>

\* A step of a worker's turn.  An answer that asks for a confirmation is sent as
\* a card once the turn is over, by the caller that handles chat messages.
TurnStepOf(p) ==
    /\ TurnStep(p)
    /\ LET over == turn'[p].pc = "idle"
       IN /\ asks' = [asks EXCEPT ![p] =
                        IF over THEN 0
                        ELSE IF turn[p].bot /\ RequestConfirmation(p) THEN nextId
                        ELSE IF turn[p].bot /\ FillInput(p)
                        THEN waiting_input_action(turn[p].ctx).id ELSE @]
          /\ cards' = IF over /\ job[p].phase = "none" /\ asks[p] # 0
                      THEN cards \cup {asks[p]} ELSE cards
          /\ job' = IF job[p].phase = "turn" /\ Submits(p)
                    THEN [job EXCEPT ![p].ran = IF turn'[p].ok THEN "success" ELSE "error"]
                    ELSE job
    /\ UNCHANGED <<click, tasks, offered, clicks>>

\* What the task does when its turn has answered: the first statement after it
\* uses record_action_trace, a local name bound only in the handler below it
\* (UnboundLocalError), so every task ends in the handler.
TaskOutcome(ran) == "error"

TaskTurnOver(p) ==
    /\ job[p].phase = "turn" /\ At(p, "idle")
    /\ job' = [job EXCEPT ![p] = [@ EXCEPT !.phase = "receipt", !.told = TaskOutcome(job[p].ran)]]
    /\ UNCHANGED <<vars, click, tasks, asks, cards, offered, clicks>>

\* record_action_trace and _save_runtime_card_action_receipt
Receipt(p) ==
    /\ job[p].phase = "receipt"
    /\ \E s \in Loaded : job' = [job EXCEPT ![p] = [@ EXCEPT !.phase = "receipt_save", !.buf = s]]
    /\ UNCHANGED <<vars, click, tasks, asks, cards, offered, clicks>>

ReceiptSave(p) ==
    /\ job[p].phase = "receipt_save"
    /\ session' \in Saved(job[p].buf)
    /\ job' = [job EXCEPT ![p] = NoJob]
    /\ UNCHANGED <<turn, nextId, lapsed, crashes, history, click, tasks, asks, cards, offered, clicks>>

-----------------------------------------------------------------------------
(* The environment: messages and requests reach workers that are not in a    *)
(* task; a worker that dies takes its task with it (acknowledged when it     *)
(* starts); a raised exception ends the turn and is told.                    *)

ArriveAt(p) ==
    /\ job[p].phase = "none" /\ Arrive(p)
    /\ UNCHANGED cardVars

CrashTurn(p) ==
    /\ Crash(p)
    /\ asks' = [asks EXCEPT ![p] = 0]
    /\ \/ job' = [job EXCEPT ![p] = NoJob]
       \/ job[p].phase = "turn" /\ UNCHANGED job
    /\ UNCHANGED <<click, tasks, cards, offered, clicks>>

CrashClick(k) ==
    /\ click[k].todo # <<>> /\ crashes < MaxCrashes
    /\ crashes' = crashes + 1
    /\ click' = [click EXCEPT ![k] = NoClick]
    /\ UNCHANGED <<session, turn, nextId, lapsed, history, tasks, job, asks, cards, offered, clicks>>

Quiet == /\ \A k \in Clickers : click[k].todo = <<>>
         /\ \A p \in Workers : job[p].phase = "none"

CardEnvironment ==
    \/ \E p \in Workers : CrashTurn(p)
    \/ \E k \in Clickers : CrashClick(k)
    \/ (\E id \in Ids : Lapse(id)) /\ UNCHANGED cardVars
    \/ Quiet /\ ExpireSession /\ UNCHANGED cardVars

ClickStep(k) == LoadSession(k) \/ StoreSession(k) \/ Queue(k) \/ SendSingle(k)

Click(k) ==
    \/ \E id \in Ids, action \in {"confirm", "cancel"} :
         ClickLive(k, id, action) \/ ClickSingle(k, id, action)
    \/ \E id \in Ids : ClickStale(k, id) \/ ClickSingleStale(k, id)
    \/ \E a \in DetailActions : ClickDetail(k, a)
    \/ \E a \in SingleActions : OfferSingle(k, a)

JobStep(p) ==
    \/ TurnStepOf(p) \/ TaskTurnOver(p) \/ Receipt(p) \/ ReceiptSave(p)

CardInit ==
    /\ Init
    /\ click = [k \in Clickers |-> NoClick]
    /\ tasks = [m \in Commands |-> 0]
    /\ job = [p \in Workers |-> NoJob]
    /\ asks = [p \in Workers |-> 0]
    /\ cards = {} /\ offered = {} /\ clicks = 0

CardNext ==
    \/ \E p \in Workers : ArriveAt(p) \/ JobStep(p) \/ \E m \in Commands : StartTask(p, m)
    \/ \E k \in Clickers : Click(k) \/ ClickStep(k)
    \/ CardEnvironment

\* Turns and handlers run on; a worker that keeps coming free takes the queued
\* task in the end (its queue is served first in, first out).
CardFairness ==
    /\ \A p \in Workers : WF_allVars(JobStep(p))
    /\ \A k \in Clickers : WF_allVars(ClickStep(k))
    /\ \A p \in Workers, m \in Commands : SF_allVars(StartTask(p, m))

CardSpec == CardInit /\ [][CardNext]_allVars /\ CardFairness

-----------------------------------------------------------------------------
(* Properties *)

CardTypeOK ==
    /\ TypeOK
    /\ click \in [Clickers -> Clicks]
    /\ tasks \in [Commands -> 0..MaxClicks]
    /\ job \in [Workers -> Jobs]
    /\ asks \in [Workers -> Ids \cup {0}]
    /\ cards \subseteq Ids /\ offered \subseteq Ids
    /\ clicks \in 0..MaxClicks

\* No write reaches the provider without having been a pending action first:
\* neither a card's input nor a queued command opens a way around it.
WritesWerePending == 0 \notin submitted

\* A confirmed input in the session, however often the session was loaded and
\* written back since (also by _clear_pending_single, after its task was queued), is
\* one for an action that its user confirmed on that action's own card: the
\* confirmation card, the single-approval card or the detail card.
InputsWereConfirmed ==
    session.input.kind = "confirmed" => session.input.id \in confirmed

\* Unless something dies, what a click leaves in the session is taken by some
\* turn: by its own task's if no message came first.
InputTaken ==
    \A k \in Clickers :
        ClickAt(k, "queue") ~> session.input.kind = "none" \/ crashes > 0

=============================================================================

--------------------------- MODULE CapabilityRoute ---------------------------
(* The capability router and the two providers whose results depend on each   *)
(* other: an organization export reads the directory (source "people") and     *)
(* writes what was read into a new table (source "base").  What the second     *)
(* provider is handed are the results of the first, followed by the items of   *)
(* the chat's result context, whatever turn left them there.  Questions about  *)
(* people are answered through the same provider and the same snapshot cache   *)
(* of the company, and leave such items.                                       *)
(*                                                                             *)
(* A turn is a record of the worker that runs it.  One action is one access to *)
(* Redis or one call of the Feishu API with the computation up to the next.    *)
(* Confirmations, their lapse and the session are RuntimeV5's subject; here a  *)
(* pending export is only there or not.                                        *)

CONSTANTS
  Chats,        \* chats of one company
  Workers,      \* threads and processes that run turns
  People,       \* persons the directory may list
  Sought,       \* persons the keyword of a search or of a department matches
  Directories   \* contents the directory may have

\* Items of a result context that stand for no person.
Notes == {"pending", "receipt", "denied", "approval"}

ASSUME RouteAssumption ==
  /\ People \cap (Notes \cup {"none"}) = {}
  /\ Sought \subseteq People
  /\ Directories \subseteq [departments : BOOLEAN, users : SUBSET People]

VARIABLES
  directory,    \* the company's directory, outside
  snapshot,     \* runtime_v5:people_snapshot:{company}
  context,      \* chat -> feishu:result:{chat}
  pending,      \* chat -> the target of the export waiting for confirmation
  turn,         \* worker -> the turn it runs
  fetched,      \* history: the users of every answer of a fetch
  last          \* history: chat -> the export that was settled last

vars == <<directory, snapshot, context, pending, turn, fetched, last>>

----------------------------------------------------------------------------
Items == SUBSET (People \cup Notes)
Queries == {"organization_snapshot", "department_members", "people_lookup"}
Strategies == Queries \cup {"organization_export"}
Statuses == {"success", "error", "denied"}
Identities == [role : {"owner", "admin", "member"}, domains : BOOLEAN]
Targets == {"new_base", "existing_base"}

Payloads == [departments : BOOLEAN, users : SUBSET People]
NoSnapshot == [departments |-> FALSE, users |-> {"none"}]
NoResult == [status |-> "skipped", items |-> {}]

\* A result context: its kind, the source its items are filed under, the items.
ResultContext(kind, source, items) == [kind |-> kind, source |-> source, items |-> items]
NoContext == ResultContext("none", "none", {})

\* The scopes of these strategies (person, department, organization) are open to the
\* owner, to administrators and to members with a domain.  evaluate_policy asks at
\* every turn, and the role may have been edited since the last one.
is_company_allowed(identity) == identity.role \in {"owner", "admin"} \/ identity.domains

\* The contexts a turn leaves without an execution of its own, or after an action.
PendingConfirmation == ResultContext("pending_confirmation", "people", {"pending"})
ActionReceipt == ResultContext("action_receipt", "people", {"receipt"})
PermissionDenied(strategy) ==
  ResultContext(IF strategy = "organization_export" THEN "action_receipt" ELSE "no_result",
                "people", {"denied"})
ApprovalList == ResultContext("query_result", "approval", {"approval"})

\* The mutant: a receipt is handed on like a list.
previous_results_with_receipts(ctx) ==
  IF ctx.source = "people" THEN ctx.items ELSE {}

\* The people items a provider is handed from the result context.
result_context_previous_results(ctx) ==
  IF ctx.kind # "action_receipt" /\ ctx.source = "people" THEN ctx.items ELSE {}

\* The mutant: what the chat saw comes before what the turn has read.
rows_of_context_first(t) ==
  IF result_context_previous_results(t.ctx) # {}
  THEN result_context_previous_results(t.ctx)
  ELSE t.read.items

\* The first people result with rows: the turn's own, else the context's.
organization_rows_from_previous_results(t) ==
  IF t.read.items # {} THEN t.read.items ELSE result_context_previous_results(t.ctx)

\* get_org_snapshot: a directory without departments and users is an error.
organization_snapshot_result(status, d) ==
  IF status = "success" /\ ~d.departments /\ d.users = {}
  THEN [status |-> "error", items |-> {}]
  ELSE [status |-> status, items |-> d.users]

\* The people provider's answer to a payload it has loaded or fetched.
people_result(strategy, status, d) ==
  IF strategy = "department_members"
  THEN [status |-> status, items |-> d.users \cap Sought]
  ELSE organization_snapshot_result(status, d)

\* The status of an execution from those of its sources; every source here answers.
execution_status(results) ==
  LET has(s) == \E r \in results : r.status = s
  IN  IF has("success") /\ (has("error") \/ has("denied")) THEN "partial"
      ELSE IF has("error") THEN "error"
      ELSE IF has("denied") THEN "denied"
      ELSE "success"

----------------------------------------------------------------------------
Idle == [pc |-> "idle", chat |-> "none", strategy |-> "none", target |-> "none",
         ctx |-> NoContext, payload |-> NoSnapshot, read |-> NoResult, base |-> NoResult]

NoExport == [status |-> "none", read |-> {}, rows |-> {}]

Init ==
  /\ directory \in Directories
  /\ snapshot = NoSnapshot
  /\ context = [c \in Chats |-> NoContext]
  /\ pending = [c \in Chats |-> "none"]
  /\ turn = [w \in Workers |-> Idle]
  /\ fetched = {}
  /\ last = [c \in Chats |-> NoExport]

Goto(w, pc) == turn' = [turn EXCEPT ![w].pc = pc]

Begin(w, c, strategy, target, pc) ==
  turn' = [turn EXCEPT ![w] = [Idle EXCEPT !.pc = pc, !.chat = c, !.strategy = strategy,
                                           !.target = target, !.ctx = context[c]]]

Answer(c, ctx) == context' = [context EXCEPT ![c] = ctx]

----------------------------------------------------------------------------
(* Turns up to their execution. *)

\* A question about people; a user without permission is answered at once.
Ask(w, c, strategy, identity) ==
  /\ turn[w].pc = "idle"
  /\ IF is_company_allowed(identity)
     THEN Begin(w, c, strategy, "none", "load") /\ UNCHANGED context
     ELSE Answer(c, PermissionDenied(strategy)) /\ UNCHANGED turn
  /\ UNCHANGED <<directory, snapshot, pending, fetched, last>>

\* A request to export: it is kept as pending, and then the context is replaced.
AskExport(w, c, target, identity) ==
  /\ turn[w].pc = "idle"
  /\ IF is_company_allowed(identity)
     THEN /\ pending' = [pending EXCEPT ![c] = target]
          /\ Begin(w, c, "organization_export", target, "save_pending")
          /\ UNCHANGED context
     ELSE /\ Answer(c, PermissionDenied("organization_export"))
          /\ UNCHANGED <<turn, pending>>
  /\ UNCHANGED <<directory, snapshot, fetched, last>>

SavePending(w) ==
  /\ turn[w].pc = "save_pending"
  /\ Answer(turn[w].chat, PendingConfirmation)
  /\ turn' = [turn EXCEPT ![w] = Idle]
  /\ UNCHANGED <<directory, snapshot, pending, fetched, last>>

\* A confirmation: the message is planned anew with the context of this moment.
Confirm(w, c, identity) ==
  /\ turn[w].pc = "idle"
  /\ pending[c] # "none"
  /\ pending' = [pending EXCEPT ![c] = "none"]
  /\ IF is_company_allowed(identity)
     THEN Begin(w, c, "organization_export", pending[c], "load") /\ UNCHANGED context
     ELSE Answer(c, PermissionDenied("organization_export")) /\ UNCHANGED turn
  /\ UNCHANGED <<directory, snapshot, fetched, last>>

Cancel(c) ==
  /\ pending[c] # "none"
  /\ pending' = [pending EXCEPT ![c] = "none"]
  /\ Answer(c, ActionReceipt)
  /\ UNCHANGED <<directory, snapshot, turn, fetched, last>>

\* A question that another source answers.
AskApprovals(c) ==
  /\ Answer(c, ApprovalList)
  /\ UNCHANGED <<directory, snapshot, pending, turn, fetched, last>>

----------------------------------------------------------------------------
(* The source "people". *)

\* The mutant: the sources of an export are run for every plan.
AfterPeopleAlwaysBase(w, result) ==
  turn' = [turn EXCEPT ![w].read = result, ![w].payload = NoSnapshot, ![w].pc = "base"]

\* With the people result at hand a question is done; an export goes on to "base",
\* whatever the status of the result.
AfterPeople(w, result) ==
  turn' = [turn EXCEPT ![w].read = result, ![w].payload = NoSnapshot,
                       ![w].pc = IF turn[w].strategy = "organization_export"
                                 THEN "base" ELSE "finish"]

LoadSnapshot(w) ==
  LET t == turn[w]
  IN /\ t.pc = "load"
     /\ \/ /\ t.strategy = "people_lookup"
           /\ snapshot.users \cap Sought # {}
           /\ AfterPeople(w, [status |-> "success", items |-> snapshot.users \cap Sought])
        \/ /\ t.strategy = "people_lookup"
           /\ snapshot.users \cap Sought = {}
           /\ Goto(w, "search")
        \/ /\ t.strategy # "people_lookup"
           /\ snapshot # NoSnapshot
           /\ AfterPeople(w, people_result(t.strategy, "success", snapshot))
        \/ /\ t.strategy # "people_lookup"
           /\ snapshot = NoSnapshot
           /\ Goto(w, "departments")
     /\ UNCHANGED <<directory, snapshot, context, pending, fetched, last>>

\* The search walks over the departments in the same way when the quick one finds
\* nobody: whoever matches may be missing, and a search that fails is a success.
SearchPerson(w) ==
  /\ turn[w].pc = "search"
  /\ \/ \E found \in SUBSET (directory.users \cap Sought) :
          AfterPeople(w, [status |-> "success", items |-> found])
     \/ \E s \in {"error", "denied"} : AfterPeople(w, [status |-> s, items |-> {}])
  /\ UNCHANGED <<directory, snapshot, context, pending, fetched, last>>

\* The tool first walks over the departments, up to a number of them; a call that
\* fails there fails the tool, which then answers with no payload.
FetchDepartments(w) ==
  /\ turn[w].pc = "departments"
  /\ \/ turn' = [turn EXCEPT ![w].payload = [departments |-> directory.departments, users |-> {}],
                              ![w].pc = "users"]
     \/ \E s \in {"error", "denied"} : AfterPeople(w, [status |-> s, items |-> {}])
  /\ UNCHANGED <<directory, snapshot, context, pending, fetched, last>>

\* Then it asks for the users of each department it knows.  A call brings the first
\* page of them, and nobody when it fails; calls after the users' cap do not count.
\* So any of the users may be missing, and the answer is a success all the same.
FetchUsers(w) ==
  /\ turn[w].pc = "users"
  /\ \/ /\ \E page \in SUBSET directory.users \ {{}} :
             turn' = [turn EXCEPT ![w].payload.users = @ \cup page]
        /\ UNCHANGED fetched
     \/ /\ Goto(w, "store")
        /\ fetched' = fetched \cup {turn[w].payload.users}
  /\ UNCHANGED <<directory, snapshot, context, pending, last>>

\* What was fetched is cached, an empty organization too.
SaveSnapshot(w) ==
  /\ turn[w].pc = "store"
  /\ snapshot' = turn[w].payload
  /\ AfterPeople(w, people_result(turn[w].strategy, "success", turn[w].payload))
  /\ UNCHANGED <<directory, context, pending, fetched, last>>

----------------------------------------------------------------------------
(* The source "base". *)

BaseAnswers(w, status, rows) ==
  turn' = [turn EXCEPT ![w].base = [status |-> status, items |-> rows], ![w].pc = "finish"]

\* Nothing is created without rows.  A base that was created has a first table or not.
CreateBase(w) ==
  LET t == turn[w]
  IN /\ t.pc = "base"
     /\ \/ /\ organization_rows_from_previous_results(t) = {}
           /\ BaseAnswers(w, "error", {})
        \/ /\ organization_rows_from_previous_results(t) # {}
           /\ t.target = "existing_base"
           /\ Goto(w, "table")
        \/ /\ organization_rows_from_previous_results(t) # {}
           /\ t.target = "new_base"
           /\ \/ \E s \in {"error", "denied"} : BaseAnswers(w, s, {})
              \/ \E pc \in {"table", "records"} : Goto(w, pc)
     /\ UNCHANGED <<directory, snapshot, context, pending, fetched, last>>

CreateTable(w) ==
  /\ turn[w].pc = "table"
  /\ \/ Goto(w, "records")
     \/ \E s \in {"error", "denied"} : BaseAnswers(w, s, {})
  /\ UNCHANGED <<directory, snapshot, context, pending, fetched, last>>

CreateRecords(w) ==
  /\ turn[w].pc = "records"
  /\ \E s \in Statuses :
       BaseAnswers(w, s, IF s = "success"
                         THEN organization_rows_from_previous_results(turn[w]) ELSE {})
  /\ UNCHANGED <<directory, snapshot, context, pending, fetched, last>>

----------------------------------------------------------------------------
\* The turn's end: a question leaves what it found, an export its receipt and the
\* outcome that mark_runtime_action_done records.
Finish(w) ==
  LET t == turn[w]
  IN /\ t.pc = "finish"
     /\ turn' = [turn EXCEPT ![w] = Idle]
     /\ IF t.strategy = "organization_export"
        THEN /\ Answer(t.chat, ActionReceipt)
             /\ last' = [last EXCEPT ![t.chat] =
                           [status |-> IF execution_status({t.read, t.base}) = "success"
                                       THEN "done" ELSE "failed",
                            read |-> t.read.items, rows |-> t.base.items]]
        ELSE /\ Answer(t.chat, ResultContext("query_result", "people", t.read.items))
             /\ UNCHANGED last
     /\ UNCHANGED <<directory, snapshot, pending, fetched>>

----------------------------------------------------------------------------
(* The surroundings. *)

\* The directory is edited; TTLs run out; a worker dies.
EditDirectory ==
  /\ directory' \in Directories
  /\ UNCHANGED <<snapshot, context, pending, turn, fetched, last>>

SnapshotExpires ==
  /\ snapshot' = NoSnapshot
  /\ UNCHANGED <<directory, context, pending, turn, fetched, last>>

ContextExpires(c) ==
  /\ Answer(c, NoContext)
  /\ UNCHANGED <<directory, snapshot, pending, turn, fetched, last>>

Crash(w) ==
  /\ turn[w].pc # "idle"
  /\ turn' = [turn EXCEPT ![w] = Idle]
  /\ UNCHANGED <<directory, snapshot, context, pending, fetched, last>>

TurnStep(w) ==
  \/ SavePending(w)
  \/ LoadSnapshot(w)
  \/ SearchPerson(w)
  \/ FetchDepartments(w)
  \/ FetchUsers(w)
  \/ SaveSnapshot(w)
  \/ CreateBase(w)
  \/ CreateTable(w)
  \/ CreateRecords(w)
  \/ Finish(w)

Next ==
  \/ \E w \in Workers : TurnStep(w) \/ Crash(w)
  \/ \E w \in Workers, c \in Chats, i \in Identities :
       \/ \E s \in Queries : Ask(w, c, s, i)
       \/ \E target \in Targets : AskExport(w, c, target, i)
       \/ Confirm(w, c, i)
  \/ \E c \in Chats : Cancel(c) \/ AskApprovals(c) \/ ContextExpires(c)
  \/ EditDirectory
  \/ SnapshotExpires

Spec == Init /\ [][Next]_vars

----------------------------------------------------------------------------
(* Properties *)

Phases == {"idle", "save_pending", "load", "search", "departments", "users", "store", "base",
           "table", "records", "finish"}

Contexts ==
  [kind : {"none", "pending_confirmation", "action_receipt", "no_result", "query_result"},
   source : {"none", "people", "approval"}, items : Items]

Results == [status : Statuses \cup {"skipped"}, items : Items]

Turns ==
  [pc : Phases, chat : Chats \cup {"none"}, strategy : Strategies \cup {"none"},
   target : Targets \cup {"none"}, ctx : Contexts,
   payload : Payloads \cup {NoSnapshot}, read : Results, base : Results]

\* What a turn holds in each phase: a chat unless it is idle, no result before its
\* source has answered, a payload only while it is to be stored.
TurnShape(t) ==
  /\ t.pc # "idle" => t.chat \in Chats /\ t.strategy \in Strategies
  /\ t.pc = "search" => t.strategy = "people_lookup"
  /\ t.pc \in {"users", "store"} => t.payload \in Payloads
  /\ t.pc \in {"load", "search", "departments", "users", "store"} => t.read = NoResult /\ t.base = NoResult
  /\ t.pc \in {"base", "table", "records"} =>
       t.strategy = "organization_export" /\ t.base = NoResult

\* The types of the variables, and the shape of every turn.
RouteTypeOK ==
  /\ directory \in Directories
  /\ snapshot \in Payloads \cup {NoSnapshot}
  /\ context \in [Chats -> Contexts]
  /\ pending \in [Chats -> Targets \cup {"none"}]
  /\ turn \in [Workers -> Turns]
  /\ \A w \in Workers : TurnShape(turn[w])
  /\ fetched \subseteq SUBSET People
  /\ last \in [Chats -> [status : {"none", "done", "failed"}, read : Items, rows : Items]]

\* An export that read anybody and is recorded as done wrote exactly those it read,
\* and they are the users that one fetch answered with, its own or the one whose
\* snapshot it found: not a department or a search of an earlier question, no note of
\* the chat, and no mixture of answers.  That answer may itself be a part of the
\* organization: the export is no more complete than the fetch (CapabilityRouter.execute,
\* _execution_status, _organization_rows_from_previous_results).
DoneWroteOneFetch ==
  \A c \in Chats :
    (last[c].status = "done" /\ last[c].read # {}) =>
      last[c].rows = last[c].read /\ last[c].rows \in fetched

\* The receipt of an earlier action is never written into a table as if it were a
\* person, although it is filed under "people": not when a worker died between keeping
\* the next export as pending and replacing the context either
\* (_result_context_previous_results).
ReceiptsNotExported ==
  \A c \in Chats : "receipt" \notin last[c].rows

\* What the program says when nobody was read: "没有读取到组织架构数据，已停止后续建表写入。"
\* and "没有可写入的组织架构人员数据，未创建表格。".
ExportStops ==
  \A w \in Workers :
    turn[w].pc \in {"table", "records"} => turn[w].read.items # {}

=============================================================================

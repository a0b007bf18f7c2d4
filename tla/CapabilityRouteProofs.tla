------------------------ MODULE CapabilityRouteProofs ------------------------
(* For every company, directory, number of chats and number of workers: an    *)
(* export that is recorded as done wrote what it read and nothing else, namely *)
(* what one fetch answered, and no receipt is ever written as if it were a     *)
(* person.                                                                     *)
EXTENDS CapabilityRoute, TLAPS

----------------------------------------------------------------------------
(* The inductive invariant.  What is written depends on what the turn read, on  *)
(* the snapshot another turn may have cached, and on the context as it was when *)
(* the turn began: each of them must be known to be sound beforehand.           *)

\* A receipt is recognised by its kind.
Marked(ctx) == "receipt" \in ctx.items => ctx.kind = "action_receipt"

\* What the base provider may have answered after t's people result.
BaseSound(t) ==
  \/ t.base = NoResult
  \/ t.base.status \in {"error", "denied"} /\ t.base.items = {}
  \/ /\ t.base.status = "success"
     /\ t.base.items = organization_rows_from_previous_results(t)
     /\ t.base.items # {}

\* F: the users of every fetch so far.
TurnSound(t, F) ==
  /\ Marked(t.ctx)
  /\ t.read.items \subseteq People
  /\ t.pc = "store" => t.payload.users \in F
  /\ t.strategy = "organization_export" => t.read.items \in F \cup {{}}
  /\ BaseSound(t)
  /\ t.pc \in {"table", "records"} => organization_rows_from_previous_results(t) # {}
  /\ (t.pc = "finish" /\ t.strategy = "organization_export") => t.base # NoResult

RouteInv ==
  /\ RouteTypeOK
  /\ snapshot = NoSnapshot \/ snapshot.users \in fetched
  /\ \A c \in Chats : Marked(context[c])
  /\ \A w \in Workers : TurnSound(turn[w], fetched)
  /\ DoneWroteOneFetch
  /\ ReceiptsNotExported

----------------------------------------------------------------------------
(* Facts about the operators. *)

\* What the turn may write is a person or an item of a context that is no receipt.
LEMMA RowsFacts ==
  ASSUME NEW t \in Turns, Marked(t.ctx), t.read.items \subseteq People
  PROVE  /\ organization_rows_from_previous_results(t) \in Items
         /\ "receipt" \notin organization_rows_from_previous_results(t)
         /\ t.read.items # {} => organization_rows_from_previous_results(t) = t.read.items
<1>1. t.ctx \in Contexts /\ t.ctx.items \in Items
  BY DEF Turns, Contexts
<1>2. "receipt" \notin People
  BY RouteAssumption DEF Notes
<1>3. /\ result_context_previous_results(t.ctx) \in Items
      /\ "receipt" \notin result_context_previous_results(t.ctx)
  BY <1>1 DEF result_context_previous_results, Marked, Items
<1> QED
  BY <1>2, <1>3 DEF organization_rows_from_previous_results, Items

\* The people provider answers a directory with its users, some of them, or nobody.
LEMMA PeopleFacts ==
  ASSUME NEW d \in Payloads, NEW strategy, NEW status \in Statuses
  PROVE  /\ people_result(strategy, status, d) \in Results
         /\ people_result(strategy, status, d).items \subseteq People
         /\ strategy # "department_members" =>
              people_result(strategy, status, d).items \in {d.users, {}}
<1>1. d.users \subseteq People /\ d.departments \in BOOLEAN
  BY DEF Payloads
<1> DEFINE all == organization_snapshot_result(status, d)
<1>2. all \in Results /\ all.items \in {d.users, {}}
  BY <1>1 DEF organization_snapshot_result, Results, Items, Statuses
<1>3. CASE strategy = "department_members"
  BY <1>1, <1>3 DEF people_result, Results, Items, Statuses
<1>4. CASE strategy # "department_members"
  BY <1>1, <1>2, <1>4 DEF people_result
<1> QED BY <1>3, <1>4

\* An execution succeeds only if its second source has.
LEMMA StatusFacts ==
  ASSUME NEW r, NEW b, b.status \in Statuses,
         execution_status({r, b}) = "success"
  PROVE  b.status = "success"
<1> SUFFICES ASSUME b.status \in {"error", "denied"} PROVE FALSE
  BY DEF Statuses
<1> QED BY DEF execution_status

\* The idle turn and the contexts that turns leave are sound.
LEMMA IdleSound ==
  ASSUME NEW F
  PROVE  Idle \in Turns /\ TurnShape(Idle) /\ TurnSound(Idle, F)
<1>1. NoContext \in Contexts /\ Marked(NoContext)
  BY DEF NoContext, ResultContext, Contexts, Items, Marked
<1>2. NoResult \in Results
  BY DEF NoResult, Results, Items
<1>3. Idle \in Turns
  BY <1>1, <1>2 DEF Idle, Turns, Phases
<1>4. TurnShape(Idle)
  BY DEF TurnShape, Idle
<1>5. TurnSound(Idle, F)
  BY <1>1 DEF TurnSound, Idle, NoResult, BaseSound
<1> QED BY <1>3, <1>4, <1>5

LEMMA ContextFacts ==
  ASSUME NEW items \in SUBSET People, NEW strategy
  PROVE  \A ctx \in {NoContext, PendingConfirmation, ActionReceipt, ApprovalList,
                     PermissionDenied(strategy), ResultContext("query_result", "people", items)} :
           ctx \in Contexts /\ Marked(ctx)
<1>1. "receipt" \notin People
  BY RouteAssumption DEF Notes
<1> QED
  BY <1>1 DEF NoContext, PendingConfirmation, ActionReceipt, ApprovalList, PermissionDenied,
              ResultContext, Contexts, Items, Notes, Marked

----------------------------------------------------------------------------
(* A step changes the turn of one worker; the other turns stay sound because   *)
(* the fetches only grow.                                                      *)

LEMMA OneTurn ==
  ASSUME RouteInv, NEW w \in Workers, NEW t,
         t \in Turns, TurnShape(t), TurnSound(t, fetched'),
         fetched \subseteq fetched',
         turn' = [turn EXCEPT ![w] = t]
  PROVE  /\ turn' \in [Workers -> Turns]
         /\ \A v \in Workers : TurnShape(turn'[v])
         /\ \A v \in Workers : TurnSound(turn'[v], fetched')
<1>1. turn \in [Workers -> Turns]
  BY DEF RouteInv, RouteTypeOK
<1>2. turn' \in [Workers -> Turns]
  BY <1>1
<1>3. ASSUME NEW v \in Workers
      PROVE  TurnShape(turn'[v]) /\ TurnSound(turn'[v], fetched')
  <2>1. CASE v = w
    BY <1>1, <2>1
  <2>2. CASE v # w
    <3>1. turn'[v] = turn[v]
      BY <1>1, <2>2
    <3>2. TurnShape(turn[v]) /\ TurnSound(turn[v], fetched)
      BY DEF RouteInv, RouteTypeOK
    <3> QED BY <3>1, <3>2 DEF TurnSound
  <2> QED BY <2>1, <2>2
<1> QED BY <1>2, <1>3

\* A step that only moves one turn preserves the invariant.
LEMMA TurnMoves ==
  ASSUME RouteInv, NEW w \in Workers, NEW t,
         t \in Turns, TurnShape(t), TurnSound(t, fetched),
         turn' = [turn EXCEPT ![w] = t],
         UNCHANGED <<directory, snapshot, context, pending, fetched, last>>
  PROVE  RouteInv'
<1>1. /\ turn' \in [Workers -> Turns]
      /\ \A v \in Workers : TurnShape(turn'[v])
      /\ \A v \in Workers : TurnSound(turn'[v], fetched')
  BY OneTurn
<1>2. RouteTypeOK'
  BY <1>1 DEF RouteInv, RouteTypeOK
<1>3. (\A c \in Chats : Marked(context[c]))'
  BY DEF RouteInv
<1>4. DoneWroteOneFetch' /\ ReceiptsNotExported'
  BY DEF RouteInv, DoneWroteOneFetch, ReceiptsNotExported
<1> QED BY <1>1, <1>2, <1>3, <1>4 DEF RouteInv

\* A step that only answers a chat preserves the invariant.
LEMMA ChatAnswered ==
  ASSUME RouteInv, NEW c \in Chats, NEW ctx \in Contexts, Marked(ctx),
         Answer(c, ctx),
         UNCHANGED <<directory, snapshot, fetched, last>>,
         pending' \in [Chats -> Targets \cup {"none"}],
         turn' \in [Workers -> Turns],
         \A v \in Workers : TurnShape(turn'[v]) /\ TurnSound(turn'[v], fetched')
  PROVE  RouteInv'
<1>1. context \in [Chats -> Contexts]
  BY DEF RouteInv, RouteTypeOK
<1>2. context' \in [Chats -> Contexts]
  BY <1>1 DEF Answer
<1>3. ASSUME NEW d \in Chats PROVE Marked(context'[d])
  BY <1>1 DEF Answer, RouteInv
<1>4. RouteTypeOK'
  BY <1>2 DEF RouteInv, RouteTypeOK
<1>5. DoneWroteOneFetch' /\ ReceiptsNotExported'
  BY DEF RouteInv, DoneWroteOneFetch, ReceiptsNotExported
<1> QED BY <1>3, <1>4, <1>5 DEF RouteInv

\* A turn that begins with the context of its chat is sound.
LEMMA BeginSound ==
  ASSUME RouteInv, NEW c \in Chats, NEW strategy \in Strategies,
         NEW target \in Targets \cup {"none"}, NEW pc \in {"load", "save_pending"},
         NEW t, t = [Idle EXCEPT !.pc = pc, !.chat = c, !.strategy = strategy,
                                 !.target = target, !.ctx = context[c]]
  PROVE  t \in Turns /\ TurnShape(t) /\ TurnSound(t, fetched)
<1>1. context[c] \in Contexts /\ Marked(context[c])
  BY DEF RouteInv, RouteTypeOK
<1>2. Idle \in Turns
  BY IdleSound
<1>3. /\ t.pc = pc /\ t.chat = c /\ t.strategy = strategy /\ t.target = target
      /\ t.ctx = context[c] /\ t.read = NoResult /\ t.base = NoResult
      /\ t \in Turns
  BY <1>1, <1>2 DEF Idle, Turns, Phases
<1>4. TurnShape(t)
  BY <1>3 DEF TurnShape
<1>5. TurnSound(t, fetched)
  BY <1>1, <1>3 DEF TurnSound, NoResult, BaseSound
<1> QED BY <1>3, <1>4, <1>5

\* With the people result at hand.
LEMMA AfterPeopleSound ==
  ASSUME RouteInv, NEW w \in Workers, NEW result \in Results,
         turn[w].pc \in {"load", "search", "departments", "store"},
         result.items \subseteq People,
         NEW F, fetched \subseteq F,
         turn[w].strategy = "organization_export" => result.items \in F \cup {{}},
         AfterPeople(w, result)
  PROVE  \E t \in Turns : /\ turn' = [turn EXCEPT ![w] = t]
                          /\ TurnShape(t)
                          /\ TurnSound(t, F)
<1> DEFINE u == turn[w]
           t == [u EXCEPT !.read = result, !.payload = NoSnapshot,
                          !.pc = IF u.strategy = "organization_export"
                                 THEN "base" ELSE "finish"]
<1>1. u \in Turns /\ TurnShape(u) /\ TurnSound(u, fetched) /\ turn \in [Workers -> Turns]
  BY DEF RouteInv, RouteTypeOK
<1>2. turn' = [turn EXCEPT ![w] = t]
  BY <1>1 DEF AfterPeople
<1>3. /\ t \in Turns
      /\ t.pc = IF u.strategy = "organization_export" THEN "base" ELSE "finish"
      /\ t.strategy = u.strategy /\ t.chat = u.chat /\ t.ctx = u.ctx
      /\ t.read = result /\ t.base = u.base /\ t.payload = NoSnapshot
  BY <1>1 DEF Turns, Phases
<1>4. u.base = NoResult
  BY <1>1 DEF TurnShape
<1> HIDE DEF t
<1>5. TurnShape(t)
  BY <1>1, <1>3, <1>4 DEF TurnShape
<1>6. TurnSound(t, F)
  BY <1>1, <1>3, <1>4 DEF TurnSound, BaseSound
<1> QED BY <1>2, <1>3, <1>5, <1>6

----------------------------------------------------------------------------
(* One lemma per group of actions. *)

\* A turn that begins, or is refused.
LEMMA StartStep ==
  ASSUME RouteInv, NEW w \in Workers, NEW c \in Chats, NEW i \in Identities,
         \/ \E s \in Queries : Ask(w, c, s, i)
         \/ \E target \in Targets : AskExport(w, c, target, i)
         \/ Confirm(w, c, i)
  PROVE  RouteInv'
<1>1. /\ pending \in [Chats -> Targets \cup {"none"}]
      /\ turn \in [Workers -> Turns]
      /\ \A v \in Workers : TurnShape(turn[v]) /\ TurnSound(turn[v], fetched)
  BY DEF RouteInv, RouteTypeOK
<1>2. ASSUME NEW strategy, Answer(c, PermissionDenied(strategy)), UNCHANGED turn,
             UNCHANGED <<directory, snapshot, fetched, last>>,
             pending' \in [Chats -> Targets \cup {"none"}]
      PROVE  RouteInv'
  <2>1. PermissionDenied(strategy) \in Contexts /\ Marked(PermissionDenied(strategy))
    BY ContextFacts
  <2>2. /\ turn' \in [Workers -> Turns]
        /\ \A v \in Workers : TurnShape(turn'[v]) /\ TurnSound(turn'[v], fetched')
    BY <1>1, <1>2
  <2> QED BY <1>2, <2>1, <2>2, ChatAnswered
<1>3. ASSUME NEW strategy \in Strategies, NEW target \in Targets \cup {"none"},
             NEW pc \in {"load", "save_pending"}, Begin(w, c, strategy, target, pc),
             UNCHANGED <<directory, snapshot, context, fetched, last>>,
             pending' \in [Chats -> Targets \cup {"none"}]
      PROVE  RouteInv'
  <2> DEFINE t == [Idle EXCEPT !.pc = pc, !.chat = c, !.strategy = strategy,
                               !.target = target, !.ctx = context[c]]
  <2>1. t \in Turns /\ TurnShape(t) /\ TurnSound(t, fetched)
    BY BeginSound
  <2>2. turn' = [turn EXCEPT ![w] = t]
    BY <1>3 DEF Begin
  <2> HIDE DEF t
  <2>3. /\ turn' \in [Workers -> Turns]
        /\ \A v \in Workers : TurnShape(turn'[v])
        /\ \A v \in Workers : TurnSound(turn'[v], fetched')
    BY <1>3, <2>1, <2>2, OneTurn
  <2>4. RouteTypeOK'
    BY <1>3, <2>3 DEF RouteInv, RouteTypeOK
  <2>5. DoneWroteOneFetch' /\ ReceiptsNotExported'
    BY <1>3 DEF RouteInv, DoneWroteOneFetch, ReceiptsNotExported
  <2> QED BY <1>3, <2>3, <2>4, <2>5 DEF RouteInv
<1>4. CASE \E s \in Queries : Ask(w, c, s, i)
  <2>1. PICK s \in Queries : Ask(w, c, s, i)
    BY <1>4
  <2> QED BY <1>1, <1>2, <1>3, <2>1 DEF Ask, Strategies
<1>5. CASE \E target \in Targets : AskExport(w, c, target, i)
  <2>1. PICK target \in Targets : AskExport(w, c, target, i)
    BY <1>5
  <2>2. pending' \in [Chats -> Targets \cup {"none"}]
    BY <1>1, <2>1 DEF AskExport
  <2> QED BY <1>2, <1>3, <2>1, <2>2 DEF AskExport, Strategies
<1>6. CASE Confirm(w, c, i)
  <2>1. pending' \in [Chats -> Targets \cup {"none"}] /\ pending[c] \in Targets
    BY <1>1, <1>6 DEF Confirm
  <2> QED BY <1>2, <1>3, <1>6, <2>1 DEF Confirm, Strategies
<1> QED BY <1>4, <1>5, <1>6

\* The source "people".
LEMMA PeopleStep ==
  ASSUME RouteInv, NEW w \in Workers,
         \/ LoadSnapshot(w) \/ SearchPerson(w)
         \/ FetchDepartments(w) \/ FetchUsers(w) \/ SaveSnapshot(w)
  PROVE  RouteInv'
<1> DEFINE u == turn[w]
<1>1. /\ u \in Turns /\ TurnShape(u) /\ TurnSound(u, fetched)
      /\ turn \in [Workers -> Turns]
      /\ directory.departments \in BOOLEAN /\ directory.users \subseteq People
      /\ snapshot \in Payloads \cup {NoSnapshot}
      /\ snapshot # NoSnapshot => snapshot.users \in fetched
      /\ fetched \subseteq SUBSET People
  BY RouteAssumption DEF RouteInv, RouteTypeOK
<1>2. ASSUME NEW result \in Results, AfterPeople(w, result),
             u.pc \in {"load", "search", "departments", "store"}, result.items \subseteq People,
             u.strategy = "organization_export" => result.items \in fetched \cup {{}},
             UNCHANGED <<directory, snapshot, context, pending, fetched, last>>
      PROVE  RouteInv'
  <2>1. PICK t \in Turns : /\ turn' = [turn EXCEPT ![w] = t]
                           /\ TurnShape(t) /\ TurnSound(t, fetched)
    BY <1>2, AfterPeopleSound
  <2> QED BY <1>2, <2>1, TurnMoves
<1>3. ASSUME NEW pc \in {"search", "departments"}, Goto(w, pc), u.pc = "load",
             pc = "search" => u.strategy = "people_lookup",
             UNCHANGED <<directory, snapshot, context, pending, fetched, last>>
      PROVE  RouteInv'
  <2> DEFINE t == [u EXCEPT !.pc = pc]
  <2>1. turn' = [turn EXCEPT ![w] = t]
    BY <1>1, <1>3 DEF Goto
  <2>2. /\ t \in Turns /\ t.pc = pc
        /\ t.strategy = u.strategy /\ t.chat = u.chat /\ t.ctx = u.ctx
        /\ t.read = u.read /\ t.base = u.base /\ t.payload = u.payload
    BY <1>1 DEF Turns, Phases
  <2> HIDE DEF t
  <2>3. TurnShape(t)
    BY <1>1, <1>3, <2>2 DEF TurnShape
  <2>4. TurnSound(t, fetched)
    BY <1>1, <1>3, <2>2, <2>3 DEF TurnSound, BaseSound, TurnShape
  <2> QED BY <1>3, <2>1, <2>2, <2>3, <2>4, TurnMoves
<1>4. CASE LoadSnapshot(w)
  <2>1. u.pc = "load" /\ UNCHANGED <<directory, snapshot, context, pending, fetched, last>>
    BY <1>4 DEF LoadSnapshot
  <2>2. CASE /\ u.strategy = "people_lookup"
             /\ AfterPeople(w, [status |-> "success", items |-> snapshot.users \cap Sought])
    <3> DEFINE r == [status |-> "success", items |-> snapshot.users \cap Sought]
    <3>1. r \in Results /\ r.items \subseteq People
      BY RouteAssumption DEF Results, Items, Statuses
    <3> QED BY <1>2, <2>1, <2>2, <3>1
  <2>3. CASE /\ u.strategy # "people_lookup" /\ snapshot # NoSnapshot
             /\ AfterPeople(w, people_result(u.strategy, "success", snapshot))
    <3> DEFINE r == people_result(u.strategy, "success", snapshot)
    <3>1. "success" \in Statuses /\ snapshot \in Payloads
      BY <1>1, <2>3 DEF Statuses
    <3>2. /\ r \in Results /\ r.items \subseteq People
          /\ u.strategy # "department_members" => r.items \in {snapshot.users, {}}
      BY <3>1, PeopleFacts
    <3>3. u.strategy = "organization_export" => r.items \in fetched \cup {{}}
      BY <1>1, <2>3, <3>2
    <3> HIDE DEF r
    <3>4. AfterPeople(w, r)
      BY <2>3 DEF r
    <3> QED BY <1>2, <2>1, <3>2, <3>3, <3>4
  <2>4. CASE (Goto(w, "search") /\ u.strategy = "people_lookup") \/ Goto(w, "departments")
    BY <1>3, <2>1, <2>4
  <2> QED BY <1>4, <2>2, <2>3, <2>4 DEF LoadSnapshot
<1>5. ASSUME NEW s \in {"error", "denied"}, AfterPeople(w, [status |-> s, items |-> {}]),
             u.pc \in {"search", "departments"},
             UNCHANGED <<directory, snapshot, context, pending, fetched, last>>
      PROVE  RouteInv'
  <2>1. [status |-> s, items |-> {}] \in Results
    BY DEF Results, Items, Statuses
  <2> QED BY <1>2, <1>5, <2>1
<1>6. CASE SearchPerson(w)
  <2>1. /\ u.pc = "search" /\ u.strategy # "organization_export"
        /\ UNCHANGED <<directory, snapshot, context, pending, fetched, last>>
    BY <1>1, <1>6 DEF SearchPerson, TurnShape
  <2>2. ASSUME NEW found \in SUBSET (directory.users \cap Sought),
               AfterPeople(w, [status |-> "success", items |-> found])
        PROVE  RouteInv'
    <3>1. [status |-> "success", items |-> found] \in Results /\ found \subseteq People
      BY <1>1 DEF Results, Items, Statuses
    <3> QED BY <1>2, <2>1, <2>2, <3>1
  <2> QED BY <1>5, <1>6, <2>1, <2>2 DEF SearchPerson
\* The turn gathers its payload, p.
<1>7. ASSUME NEW pc \in {"users", "store"}, NEW p \in Payloads, NEW F \in SUBSET SUBSET People,
             u.pc \in {"departments", "users"},
             turn' = [turn EXCEPT ![w] = [u EXCEPT !.payload = p, !.pc = pc]],
             fetched' = fetched \cup F, pc = "store" => p.users \in F,
             UNCHANGED <<directory, snapshot, context, pending, last>>
      PROVE  RouteInv'
  <2> DEFINE t == [u EXCEPT !.payload = p, !.pc = pc]
  <2>1. turn' = [turn EXCEPT ![w] = t]
    BY <1>7
  <2>2. /\ t \in Turns /\ t.pc = pc
        /\ t.strategy = u.strategy /\ t.chat = u.chat /\ t.ctx = u.ctx
        /\ t.read = u.read /\ t.base = u.base /\ t.payload = p
    BY <1>1 DEF Turns, Phases
  <2> HIDE DEF t
  <2>3. TurnShape(t)
    BY <1>1, <1>7, <2>2 DEF TurnShape
  <2>4. TurnSound(t, fetched')
    BY <1>1, <1>7, <2>2, <2>3 DEF TurnSound, BaseSound, TurnShape
  <2>5. /\ turn' \in [Workers -> Turns]
        /\ \A v \in Workers : TurnShape(turn'[v])
        /\ \A v \in Workers : TurnSound(turn'[v], fetched')
    BY <1>7, <2>1, <2>2, <2>3, <2>4, OneTurn
  <2>6. RouteTypeOK'
    BY <1>1, <1>7, <2>5 DEF RouteInv, RouteTypeOK
  <2>7. DoneWroteOneFetch' /\ ReceiptsNotExported'
    BY <1>7 DEF RouteInv, DoneWroteOneFetch, ReceiptsNotExported
  <2>8. snapshot' = NoSnapshot \/ snapshot'.users \in fetched'
    BY <1>1, <1>7
  <2> QED BY <1>7, <2>5, <2>6, <2>7, <2>8 DEF RouteInv
<1>8. CASE FetchDepartments(w)
  <2> DEFINE p == [departments |-> directory.departments, users |-> {}]
  <2>1. /\ u.pc = "departments" /\ p \in Payloads
        /\ UNCHANGED <<directory, snapshot, context, pending, fetched, last>>
    BY <1>1, <1>8 DEF FetchDepartments, Payloads
  <2>2. CASE turn' = [turn EXCEPT ![w].payload = p, ![w].pc = "users"]
    <3>1. turn' = [turn EXCEPT ![w] = [u EXCEPT !.payload = p, !.pc = "users"]]
      BY <1>1, <2>2
    <3>2. fetched' = fetched \cup {}
      BY <2>1
    <3> HIDE DEF p
    <3> QED BY <1>7, <2>1, <3>1, <3>2
  <2> QED BY <1>5, <1>8, <2>1, <2>2 DEF FetchDepartments
<1>9. CASE FetchUsers(w)
  <2>1. /\ u.pc = "users" /\ u.payload \in Payloads
        /\ u.payload.departments \in BOOLEAN /\ u.payload.users \subseteq People
        /\ UNCHANGED <<directory, snapshot, context, pending, last>>
    BY <1>1, <1>9 DEF FetchUsers, TurnShape, Payloads
  <2>2. ASSUME NEW page \in SUBSET directory.users \ {{}},
               turn' = [turn EXCEPT ![w].payload.users = @ \cup page], UNCHANGED fetched
        PROVE  RouteInv'
    <3> DEFINE p == [u.payload EXCEPT !.users = @ \cup page]
    <3>1. p \in Payloads
      BY <1>1, <2>1 DEF Payloads
    <3>2. turn' = [turn EXCEPT ![w] = [u EXCEPT !.payload = p]]
      BY <1>1, <2>2
    <3>3. [u EXCEPT !.payload = p] = [u EXCEPT !.payload = p, !.pc = "users"]
      BY <1>1, <2>1 DEF Turns
    <3>4. fetched' = fetched \cup {}
      BY <2>2
    <3> HIDE DEF p
    <3> QED BY <1>7, <2>1, <3>1, <3>2, <3>3, <3>4
  <2>3. CASE Goto(w, "store") /\ fetched' = fetched \cup {u.payload.users}
    <3>1. turn' = [turn EXCEPT ![w] = [u EXCEPT !.payload = u.payload, !.pc = "store"]]
      <4>1. [u EXCEPT !.payload = u.payload, !.pc = "store"] = [u EXCEPT !.pc = "store"]
        BY <1>1 DEF Turns
      <4> QED BY <1>1, <2>3, <4>1 DEF Goto
    <3> QED BY <1>7, <2>1, <2>3, <3>1
  <2> QED BY <1>9, <2>2, <2>3 DEF FetchUsers
<1>10. CASE SaveSnapshot(w)
  <2> DEFINE r == people_result(u.strategy, "success", u.payload)
  <2>1. /\ u.pc = "store" /\ snapshot' = u.payload /\ AfterPeople(w, r)
        /\ UNCHANGED <<directory, context, pending, fetched, last>>
    BY <1>10 DEF SaveSnapshot
  <2>2. u.payload \in Payloads /\ u.payload.users \in fetched /\ "success" \in Statuses
    BY <1>1, <2>1 DEF TurnShape, TurnSound, Statuses
  <2>3. /\ r \in Results /\ r.items \subseteq People
        /\ u.strategy # "department_members" => r.items \in {u.payload.users, {}}
    BY <2>2, PeopleFacts
  <2>4. u.strategy = "organization_export" => r.items \in fetched \cup {{}}
    BY <2>2, <2>3
  <2> HIDE DEF r
  <2>5. PICK t \in Turns : /\ turn' = [turn EXCEPT ![w] = t]
                           /\ TurnShape(t) /\ TurnSound(t, fetched)
    BY <2>1, <2>3, <2>4, AfterPeopleSound
  <2>6. /\ turn' \in [Workers -> Turns]
        /\ \A v \in Workers : TurnShape(turn'[v])
        /\ \A v \in Workers : TurnSound(turn'[v], fetched')
    BY <2>1, <2>5, OneTurn
  <2>7. RouteTypeOK'
    BY <2>1, <2>2, <2>6 DEF RouteInv, RouteTypeOK
  <2>8. DoneWroteOneFetch' /\ ReceiptsNotExported'
    BY <2>1 DEF RouteInv, DoneWroteOneFetch, ReceiptsNotExported
  <2> QED BY <2>1, <2>2, <2>6, <2>7, <2>8 DEF RouteInv
<1> QED BY <1>4, <1>6, <1>8, <1>9, <1>10

\* The source "base".
LEMMA BaseStep ==
  ASSUME RouteInv, NEW w \in Workers,
         CreateBase(w) \/ CreateTable(w) \/ CreateRecords(w)
  PROVE  RouteInv'
<1> DEFINE u == turn[w]
           rows == organization_rows_from_previous_results(u)
<1>1. u \in Turns /\ TurnShape(u) /\ TurnSound(u, fetched) /\ turn \in [Workers -> Turns]
  BY DEF RouteInv, RouteTypeOK
<1>2. /\ u.pc \in {"base", "table", "records"}
      /\ UNCHANGED <<directory, snapshot, context, pending, fetched, last>>
  BY DEF CreateBase, CreateTable, CreateRecords
<1>3. rows \in Items
  BY <1>1, RowsFacts DEF TurnSound
<1>4. ASSUME NEW s \in Statuses, NEW items \in Items, BaseAnswers(w, s, items),
             \/ s \in {"error", "denied"} /\ items = {}
             \/ s = "success" /\ items = rows /\ rows # {}
      PROVE  RouteInv'
  <2> DEFINE b == [status |-> s, items |-> items]
             t == [u EXCEPT !.base = b, !.pc = "finish"]
  <2>1. turn' = [turn EXCEPT ![w] = t]
    BY <1>1, <1>4 DEF BaseAnswers
  <2>2. b \in Results /\ b # NoResult
    BY DEF Results, Statuses, NoResult
  <2>3. /\ t \in Turns /\ t.pc = "finish"
        /\ t.strategy = u.strategy /\ t.chat = u.chat /\ t.ctx = u.ctx
        /\ t.read = u.read /\ t.base = b /\ t.payload = u.payload
    BY <1>1, <2>2 DEF Turns, Phases
  <2> HIDE DEF t
  <2>4. organization_rows_from_previous_results(t) = rows
    BY <2>3 DEF organization_rows_from_previous_results
  <2>5. TurnShape(t)
    BY <1>1, <1>2, <2>3 DEF TurnShape
  <2>6. BaseSound(t)
    BY <1>4, <2>3, <2>4 DEF BaseSound
  <2>7. TurnSound(t, fetched)
    BY <1>1, <2>2, <2>3, <2>6 DEF TurnSound
  <2> QED BY <1>2, <2>1, <2>3, <2>5, <2>7, TurnMoves
<1>5. ASSUME NEW pc \in {"table", "records"}, Goto(w, pc), rows # {}
      PROVE  RouteInv'
  <2> DEFINE t == [u EXCEPT !.pc = pc]
  <2>1. turn' = [turn EXCEPT ![w] = t]
    BY <1>1, <1>5 DEF Goto
  <2>2. /\ t \in Turns /\ t.pc = pc
        /\ t.strategy = u.strategy /\ t.chat = u.chat /\ t.ctx = u.ctx
        /\ t.read = u.read /\ t.base = u.base /\ t.payload = u.payload
    BY <1>1 DEF Turns, Phases
  <2> HIDE DEF t
  <2>3. organization_rows_from_previous_results(t) = rows
    BY <2>2 DEF organization_rows_from_previous_results
  <2>4. TurnShape(t)
    BY <1>1, <1>2, <2>2 DEF TurnShape
  <2>5. t.base = NoResult
    BY <2>2, <2>4 DEF TurnShape
  <2>6. TurnSound(t, fetched)
    BY <1>1, <1>5, <2>2, <2>3, <2>5 DEF TurnSound, BaseSound
  <2> QED BY <1>2, <2>1, <2>2, <2>4, <2>6, TurnMoves
<1>6. {} \in Items /\ "error" \in Statuses /\ "denied" \in Statuses
  BY DEF Items, Statuses
<1>7. CASE CreateBase(w)
  <2>1. CASE BaseAnswers(w, "error", {}) \/ \E s \in {"error", "denied"} : BaseAnswers(w, s, {})
    BY <1>4, <1>6, <2>1
  <2>2. CASE rows # {} /\ \E pc \in {"table", "records"} : Goto(w, pc)
    BY <1>5, <2>2
  <2> QED BY <1>7, <2>1, <2>2 DEF CreateBase
<1>8. CASE CreateTable(w)
  <2>1. rows # {}
    BY <1>1, <1>8 DEF CreateTable, TurnSound
  <2> QED BY <1>4, <1>5, <1>6, <1>8, <2>1 DEF CreateTable
<1>9. CASE CreateRecords(w)
  <2>1. rows # {}
    BY <1>1, <1>9 DEF CreateRecords, TurnSound
  <2>2. PICK s \in Statuses :
          BaseAnswers(w, s, IF s = "success" THEN rows ELSE {})
    BY <1>9 DEF CreateRecords
  <2>3. CASE s = "success"
    BY <1>3, <1>4, <2>1, <2>2, <2>3
  <2>4. CASE s # "success"
    BY <1>4, <1>6, <2>2, <2>4 DEF Statuses
  <2> QED BY <2>3, <2>4
<1> QED BY <1>7, <1>8, <1>9

\* The end of a turn: what the export wrote is what was read, if anybody was.
LEMMA FinishStep ==
  ASSUME RouteInv, NEW w \in Workers, Finish(w)
  PROVE  RouteInv'
<1> DEFINE u == turn[w]
           rows == organization_rows_from_previous_results(u)
<1>1. u \in Turns /\ TurnShape(u) /\ TurnSound(u, fetched) /\ turn \in [Workers -> Turns]
  BY DEF RouteInv, RouteTypeOK
<1>2. /\ u.pc = "finish" /\ u.chat \in Chats
      /\ turn' = [turn EXCEPT ![w] = Idle]
      /\ UNCHANGED <<directory, snapshot, pending, fetched>>
  BY <1>1 DEF Finish, TurnShape
<1>3. /\ turn' \in [Workers -> Turns]
      /\ \A v \in Workers : TurnShape(turn'[v])
      /\ \A v \in Workers : TurnSound(turn'[v], fetched')
  BY <1>2, IdleSound, OneTurn
<1>4. /\ rows \in Items /\ "receipt" \notin rows
      /\ u.read.items # {} => rows = u.read.items
  BY <1>1, RowsFacts DEF TurnSound
<1>5. CASE u.strategy # "organization_export"
  <2>1. Answer(u.chat, ResultContext("query_result", "people", u.read.items)) /\ UNCHANGED last
    BY <1>5 DEF Finish
  <2>2. u.read.items \in SUBSET People
    BY <1>1 DEF TurnSound
  <2>3. /\ ResultContext("query_result", "people", u.read.items) \in Contexts
        /\ Marked(ResultContext("query_result", "people", u.read.items))
    BY <2>2, ContextFacts
  <2>4. pending' \in [Chats -> Targets \cup {"none"}]
    BY <1>2 DEF RouteInv, RouteTypeOK
  <2> QED BY <1>2, <1>3, <2>1, <2>3, <2>4, ChatAnswered
<1>6. CASE u.strategy = "organization_export"
  <2> DEFINE e == [status |-> IF execution_status({u.read, u.base}) = "success"
                              THEN "done" ELSE "failed",
                   read |-> u.read.items, rows |-> u.base.items]
  <2>1. Answer(u.chat, ActionReceipt) /\ last' = [last EXCEPT ![u.chat] = e]
    BY <1>6 DEF Finish
  <2>2. last \in [Chats -> [status : {"none", "done", "failed"}, read : Items, rows : Items]]
    BY DEF RouteInv, RouteTypeOK
  <2>3. u.base \in Results /\ u.base # NoResult
    BY <1>1, <1>2, <1>6 DEF TurnSound, Turns
  <2>4. u.base.status \in Statuses /\ "receipt" \notin u.base.items
    BY <1>1, <1>4, <2>3 DEF TurnSound, BaseSound, Statuses
  <2>5. execution_status({u.read, u.base}) = "success" => u.base.status = "success"
    BY <2>4, StatusFacts
  <2>6. u.base.status = "success" => u.base.items = rows /\ rows # {}
    BY <1>1, <2>3 DEF TurnSound, BaseSound
  <2>7. (e.status = "done" /\ e.read # {}) => e.rows = e.read /\ e.rows \in fetched
    BY <1>1, <1>4, <1>6, <2>5, <2>6 DEF TurnSound
  <2>8. /\ e \in [status : {"none", "done", "failed"}, read : Items, rows : Items]
        /\ e.rows = u.base.items
    BY <1>1, <2>3 DEF Results, Turns
  <2> HIDE DEF e
  <2>9. last' \in [Chats -> [status : {"none", "done", "failed"}, read : Items, rows : Items]]
    BY <2>1, <2>2, <2>8
  <2>10. DoneWroteOneFetch'
    BY <1>2, <2>1, <2>2, <2>7 DEF RouteInv, DoneWroteOneFetch
  <2>11. ReceiptsNotExported'
    BY <1>2, <2>1, <2>2, <2>4, <2>8 DEF RouteInv, ReceiptsNotExported
  <2>12. ActionReceipt \in Contexts /\ Marked(ActionReceipt)
    BY ContextFacts
  <2>13. context \in [Chats -> Contexts]
    BY DEF RouteInv, RouteTypeOK
  <2>14. context' \in [Chats -> Contexts] /\ \A c \in Chats : Marked(context'[c])
    BY <1>2, <2>1, <2>12, <2>13 DEF Answer, RouteInv
  <2>15. RouteTypeOK'
    BY <1>2, <1>3, <2>9, <2>14 DEF RouteInv, RouteTypeOK
  <2> QED BY <1>2, <1>3, <2>10, <2>11, <2>14, <2>15 DEF RouteInv
<1> QED BY <1>5, <1>6

\* Pending exports that are saved or cancelled, other questions, clocks, edits, deaths.
LEMMA OtherStep ==
  ASSUME RouteInv,
         \/ \E w \in Workers : SavePending(w) \/ Crash(w)
         \/ \E c \in Chats : Cancel(c) \/ AskApprovals(c) \/ ContextExpires(c)
         \/ EditDirectory
         \/ SnapshotExpires
  PROVE  RouteInv'
<1>1. /\ pending \in [Chats -> Targets \cup {"none"}]
      /\ turn \in [Workers -> Turns]
      /\ \A v \in Workers : TurnShape(turn[v]) /\ TurnSound(turn[v], fetched)
  BY DEF RouteInv, RouteTypeOK
<1>2. \A ctx \in {NoContext, PendingConfirmation, ActionReceipt, ApprovalList} :
        ctx \in Contexts /\ Marked(ctx)
  BY ContextFacts
<1>3. ASSUME NEW w \in Workers, SavePending(w) PROVE RouteInv'
  <2>1. /\ turn' \in [Workers -> Turns]
        /\ \A v \in Workers : TurnShape(turn'[v])
        /\ \A v \in Workers : TurnSound(turn'[v], fetched')
    BY <1>3, IdleSound, OneTurn DEF SavePending
  <2>2. turn[w].chat \in Chats
    BY <1>1, <1>3 DEF SavePending, TurnShape
  <2> QED BY <1>1, <1>2, <1>3, <2>1, <2>2, ChatAnswered DEF SavePending
<1>4. ASSUME NEW w \in Workers, Crash(w) PROVE RouteInv'
  BY <1>4, IdleSound, TurnMoves DEF Crash
<1>5. ASSUME NEW c \in Chats, Cancel(c) \/ AskApprovals(c) \/ ContextExpires(c)
      PROVE  RouteInv'
  <2>1. PICK ctx \in {NoContext, ActionReceipt, ApprovalList} : Answer(c, ctx)
    BY <1>5 DEF Cancel, AskApprovals, ContextExpires
  <2>2. /\ pending' \in [Chats -> Targets \cup {"none"}]
        /\ UNCHANGED <<directory, snapshot, turn, fetched, last>>
    BY <1>1, <1>5 DEF Cancel, AskApprovals, ContextExpires
  <2>3. /\ turn' \in [Workers -> Turns]
        /\ \A v \in Workers : TurnShape(turn'[v]) /\ TurnSound(turn'[v], fetched')
    BY <1>1, <2>2
  <2> QED BY <1>2, <2>1, <2>2, <2>3, ChatAnswered
<1>6. CASE EditDirectory \/ SnapshotExpires
  <2>1. /\ directory' \in Directories
        /\ snapshot' \in {snapshot, NoSnapshot}
        /\ UNCHANGED <<context, pending, turn, fetched, last>>
    BY <1>6 DEF EditDirectory, SnapshotExpires, RouteInv, RouteTypeOK
  <2>2. RouteTypeOK'
    BY <2>1 DEF RouteInv, RouteTypeOK
  <2>3. DoneWroteOneFetch' /\ ReceiptsNotExported'
    BY <2>1 DEF RouteInv, DoneWroteOneFetch, ReceiptsNotExported
  <2> QED BY <2>1, <2>2, <2>3 DEF RouteInv
<1> QED BY <1>3, <1>4, <1>5, <1>6

----------------------------------------------------------------------------
(* The theorems. *)

LEMMA InitRoute == Init => RouteInv
<1> SUFFICES ASSUME Init PROVE RouteInv
  OBVIOUS
<1>1. NoContext \in Contexts /\ Marked(NoContext)
  BY ContextFacts
<1>2. Idle \in Turns /\ TurnShape(Idle) /\ TurnSound(Idle, fetched)
  BY IdleSound
<1>3. {} \in Items
  BY DEF Items
<1>4. RouteTypeOK
  BY <1>1, <1>2, <1>3 DEF Init, RouteTypeOK, NoExport
<1>5. DoneWroteOneFetch /\ ReceiptsNotExported
  BY DEF Init, DoneWroteOneFetch, ReceiptsNotExported, NoExport
<1> QED BY <1>1, <1>2, <1>4, <1>5 DEF Init, RouteInv

LEMMA NextRoute == RouteInv /\ [Next]_vars => RouteInv'
<1> SUFFICES ASSUME RouteInv, [Next]_vars PROVE RouteInv'
  OBVIOUS
<1>1. CASE UNCHANGED vars
  <2>1. UNCHANGED <<directory, snapshot, context, pending, turn, fetched, last>>
    BY <1>1 DEF vars
  <2> QED BY <2>1 DEF RouteInv, RouteTypeOK, DoneWroteOneFetch, ReceiptsNotExported
<1>2. CASE Next
  <2>1. ASSUME NEW w \in Workers, TurnStep(w) PROVE RouteInv'
    BY <2>1, OtherStep, PeopleStep, BaseStep, FinishStep DEF TurnStep
  <2> QED BY <1>2, <2>1, OtherStep, StartStep DEF Next
<1> QED BY <1>1, <1>2

\* Every export that read somebody and is recorded as done wrote exactly those, and they
\* are what one fetch answered with, be it all of the organization or a part, for any
\* number of chats and overlapping turns of a company (CapabilityRouter.execute).
THEOREM ExportsAreOneFetch == Spec => []DoneWroteOneFetch
<1>1. RouteInv => DoneWroteOneFetch
  BY DEF RouteInv
<1> QED BY <1>1, InitRoute, NextRoute, PTL DEF Spec

\* No receipt is written into a table, whatever turns overlap or die.
THEOREM NoReceiptExported == Spec => []ReceiptsNotExported
<1>1. RouteInv => ReceiptsNotExported
  BY DEF RouteInv
<1> QED BY <1>1, InitRoute, NextRoute, PTL DEF Spec

\* The types, and the shape of every turn in each of its phases.
THEOREM RouteTypes == Spec => []RouteTypeOK
<1>1. RouteInv => RouteTypeOK
  BY DEF RouteInv
<1> QED BY <1>1, InitRoute, NextRoute, PTL DEF Spec

=============================================================================

---------------------------- MODULE ResourceSync ----------------------------
(***************************************************************************)
(* The automatic synchronisation of a company's Feishu resources           *)
(* (services/v5_auto_sync.py, v5_workspace.py, v5_sync_decisions.py,        *)
(* v5_sync_strategy.py, v5_resource_status.py): Celery workers that run     *)
(* v5.resources.sync_auto, HTTP requests that synchronise by hand, and the  *)
(* owner who clears a block, records an access decision or registers a      *)
(* resource again.                                                          *)
(*                                                                          *)
(* Time is abstract: lastSync orders the synchronised resources by their    *)
(* last_sync_at, stale is the set whose last_sync_at is older than          *)
(* STALE_AFTER (24 h), due says that interval_seconds have passed since the *)
(* latest auto run started.  ResourceSyncRun rows are left out: no decision *)
(* modelled here reads them.                                                *)
(*                                                                          *)
(* A row is read, rewritten in Python and committed without a lock, by      *)
(* every actor: reading and committing are separate steps, and what is      *)
(* committed is made from the copy that was read.                           *)
(***************************************************************************)
EXTENDS Naturals, Sequences, FiniteSets, SequencesExt

CONSTANTS
  Resources,      \* rows of table resources of one company, platform feishu
  Created,        \* the same rows, by created_at
  Profile,        \* what of a row no action changes, see ProfileType
  Failing,        \* resources whose Feishu call may raise (network, 5xx)
  Workers,        \* Celery worker processes
  Requests,       \* HTTP requests that synchronise by hand
  LimitResources, \* policy["limit_resources"]
  AllowedTypes,   \* policy["resource_types"]
  AllowedStatuses,\* policy["statuses"]
  LargeDocumentMode, BitableMode, \* policy["large_document_mode"], ["bitable_mode"]
  MaxInterruptions, \* bound: how many times a worker is killed, a request comes, or
                  \* the owner or discovery begins to change a row, together
  Governed        \* bound: the resources a person acts on one by one

Actors == Workers \cup Requests

\* "doc" and "wiki" are the KNOWLEDGE_COLD types.
Realtime == {"chat", "approval", "calendar", "meeting", "task", "mailbox", "directory"}
Types    == Realtime \cup {"bitable", "doc", "wiki", "web", "memory", "other"}

\* identity: the preferred sync source (preferred_sync_source); config: the Feishu
\* app configuration it leads to exists (_app_config_id_for_sync, db.get);
\* identifier: _has_redacted_identifier and _resource_identifier_issue.
ProfileType == [type : Types, identity : {"app", "user"}, config : BOOLEAN,
                identifier : {"ok", "redacted", "missing", "requires_user"}]

ASSUME SyncAssumption ==
  /\ Profile \in [Resources -> ProfileType]
  /\ Created \in Seq(Resources)
  /\ \A r \in Resources : \E i \in 1..Len(Created) : Created[i] = r
  /\ Len(Created) = Cardinality(Resources)
  /\ Failing \subseteq Resources
  /\ LimitResources \in Nat \ {0}
  /\ Workers \cap Requests = {}
  /\ MaxInterruptions \in Nat /\ Governed \subseteq Resources

VARIABLES
  enabled,     \* resources with Resource.enabled
  governance,  \* config_json["governance"]: its status and its access_decision
  lastSync,    \* resources with a last_sync_at, oldest first
  stale,       \* those whose last_sync_at is older than STALE_AFTER
  due,         \* company_auto_sync_due
  runRow,      \* status of the SyncRun row of the worker's latest run
  job,         \* where each actor is
  edits,       \* changes by the owner or by discovery that are not committed yet
  killed,      \* ghost: workers killed during their latest run
  overtaken,   \* ghost: actors about to commit a row whose decision another
               \* commit changed since they read it
  interruptions \* crashes, requests and edits begun so far: at most MaxInterruptions

vars == <<enabled, governance, lastSync, stale, due, runRow, job, edits, killed, overtaken, interruptions>>
rows == <<enabled, governance, lastSync, stale>>
runs == <<due, runRow, killed, interruptions>>

----------------------------------------------------------------------------
(* Strategy and decision                                                    *)

NoGovernance == [status |-> "none", decision |-> FALSE]
Governance   == [status : {"none", "blocked"}, decision : BOOLEAN]

\* sync_action_for_resource with data_layer_for_resource
SyncAction(type) ==
  CASE type \in Realtime         -> "realtime_event"
    [] type = "bitable"          -> IF BitableMode = "disabled" THEN "skip" ELSE "master_data_index"
    [] type \in {"doc", "wiki"}  ->
         IF LargeDocumentMode = "disabled" THEN "skip"
         ELSE IF type = "doc" /\ LargeDocumentMode = "knowledge_vectorize"
              THEN "knowledge_vectorize" ELSE "document_index_only"
    [] type = "web"              -> "external_realtime_reference"
    [] type = "memory"           -> "memory_extract_later"
    [] OTHER                     -> "manual_review_required"

ExecutableActions ==
  {"realtime_event", "master_data_index", "document_index_only", "knowledge_vectorize"}

\* _decision_state: the first obstacle decides; types is the policy's list,
\* empty when a request brings none.
DecisionState(r, on, access, types) ==
  LET p == Profile[r]
      action == SyncAction(p.type)
  IN IF ~on THEN "disabled"
     ELSE IF p.identifier \in {"redacted", "missing"} THEN "manual_review_required"
     ELSE IF p.identifier = "requires_user" \/ access = "blocked" THEN "access_blocked"
     ELSE IF types # {} /\ p.type \notin types THEN "policy_excluded"
     ELSE IF action = "skip" THEN "skipped"
     ELSE IF action \in ExecutableActions THEN "ready"
     ELSE IF action = "external_realtime_reference" THEN "unsupported"
     ELSE "manual_review_required"

\* _sync_args_for_resource is not None
HasSyncArgs(r) == Profile[r].type \in Realtime \cup {"doc", "bitable"}

Synced == {lastSync[i] : i \in 1..Len(lastSync)}

\* classify_resource_sync_status (no latest_run is passed to it)
SyncStatus(r, types) ==
  LET d == DecisionState(r, r \in enabled, governance[r].status, types)
  IN IF d # "ready" THEN d
     ELSE IF ~HasSyncArgs(r) /\ SyncAction(Profile[r].type) # "document_index_only"
          THEN "unsupported"
     ELSE IF r \notin Synced THEN "never_synced"
     ELSE IF r \in stale THEN "stale" ELSE "healthy"

Place(s, r) == CHOOSE i \in 1..Len(s) : s[i] = r

\* A mutant of Sooner: the order forgets when a resource was last synchronised.
SoonerCreated(q, r) == Place(Created, q) < Place(Created, r)

\* order_by(last_sync_at.asc().nullsfirst(), created_at.asc())
Sooner(q, r) ==
  \/ q \notin Synced /\ r \in Synced
  \/ {q, r} \cap Synced = {} /\ Place(Created, q) < Place(Created, r)
  \/ {q, r} \subseteq Synced /\ Place(lastSync, q) < Place(lastSync, r)

\* select_company_auto_sync_resources: decision and status of each row in
\* order, up to the limit.  The set has one element.
Selections(types, statuses) ==
  LET ready == {r \in Resources :
                  /\ DecisionState(r, r \in enabled, governance[r].status, types) = "ready"
                  /\ statuses = {} \/ SyncStatus(r, types) \in statuses}
  IN {s \in UNION {[1..n -> ready] : n \in 0..LimitResources} :
        /\ \A i, k \in 1..Len(s) : i < k => Sooner(s[i], s[k])
        /\ \A r \in ready \ ToSet(s) :
             Len(s) = LimitResources /\ \A i \in 1..Len(s) : Sooner(s[i], r)}

----------------------------------------------------------------------------
(* State                                                                    *)

\* The head of todo is the resource at hand, copy the governance in the session's
\* copy of its row, outcome what the commit will do to it.
JobType == [pc : {"idle", "start", "select", "load", "calling", "saving", "finish"},
            todo : Seq(Resources), retry : BOOLEAN, copy : Governance,
            outcome : {"none", "clear", "keep", "block"}, errors : BOOLEAN]

Idle == [pc |-> "idle", todo |-> <<>>, retry |-> FALSE, copy |-> NoGovernance,
         outcome |-> "none", errors |-> FALSE]

\* A change of row r under way: copy and was are its governance and enabled as
\* they were read, on is the enabled that discovery asks for.
Edit == [op : {"clear", "set", "reset", "rediscover"}, r : Resources,
         copy : Governance, was : BOOLEAN, on : BOOLEAN]

Init ==
  /\ enabled = Resources
  /\ governance = [r \in Resources |-> NoGovernance]
  /\ lastSync = <<>>
  /\ stale = {}
  /\ due = TRUE                      \* no auto run yet
  /\ runRow = [w \in Workers |-> "none"]
  /\ job = [p \in Actors |-> Idle]
  /\ edits = {}
  /\ killed = {}
  /\ overtaken = {}
  /\ interruptions = 0

Interrupts ==
  /\ interruptions < MaxInterruptions
  /\ interruptions' = interruptions + 1

\* The for loop goes on with the next resource, or ends.
NextResource(p, j) ==
  IF Len(j.todo) > 1
  THEN [j EXCEPT !.pc = "load", !.todo = Tail(@), !.copy = NoGovernance, !.outcome = "none"]
  ELSE IF p \in Workers
       THEN [j EXCEPT !.pc = "finish", !.todo = <<>>, !.copy = NoGovernance, !.outcome = "none"]
       ELSE Idle

\* A mutant of AfterError: the exception leaves the loop of an auto run too.
AbortOnError(p, j) == Idle

\* The except of sync_company_auto_resources records the error and goes on;
\* a request has no such handler and ends with the exception.
AfterError(p, j) ==
  IF p \in Workers THEN NextResource(p, [j EXCEPT !.errors = TRUE]) ELSE Idle

\* A mutant of SetLastSync: the resource keeps its old place too.
SetLastSyncTwice(r) ==
  /\ lastSync' = Append(lastSync, r)
  /\ stale' = stale \ {r}

\* resource.last_sync_at = now
SetLastSync(r) ==
  /\ lastSync' = Append(RemoveFirst(lastSync, r), r)
  /\ stale' = stale \ {r}

\* A commit that writes governance g into row r, by the actors in self (one or none).
CommitGovernance(r, g, self) ==
  /\ governance' = [governance EXCEPT ![r] = g]
  /\ overtaken' = (overtaken \ self) \cup
       {p \in Actors \ self : /\ job[p].pc = "saving" /\ Head(job[p].todo) = r
                              /\ g.decision # governance[r].decision}

\* _clear_resource_access_block: the whole governance goes, the owner's access
\* decision with it, if the copy of the row has one.
ClearBlock(r, copy, self) ==
  CommitGovernance(r, IF copy = NoGovernance THEN governance[r] ELSE NoGovernance, self)

\* _mark_resource_access_blocked: the governance of the copy, with the new status.
MarkBlocked(r, copy, self) == CommitGovernance(r, [copy EXCEPT !.status = "blocked"], self)

----------------------------------------------------------------------------
(* sync_v5_resource                                                         *)

\* A mutant of Verdict: the selection is not checked again when its turn comes.
VerdictUnchecked(r, retry) ==
  IF ~Profile[r].config THEN "skip"
  ELSE IF SyncAction(Profile[r].type) = "document_index_only" THEN "index" ELSE "call"

\* The early returns before the Feishu call, in their order.  A request carries no
\* resource_types, and a retry ignores a block (_decision_resource).
Verdict(r, retry) ==
  LET p == Profile[r]
      access == IF retry THEN "none" ELSE governance[r].status
  IN IF DecisionState(r, r \in enabled, access, {}) # "ready" \/ ~p.config THEN "skip"
     ELSE IF SyncAction(p.type) = "document_index_only" THEN "index"
     ELSE IF p.identity = "user" THEN IF p.type = "bitable" THEN "call" ELSE "skip"
     ELSE IF HasSyncArgs(r) THEN "call" ELSE "skip"

\* From loading the row to the Feishu call, or to the commit that comes without one.
LoadResource(p, j) ==
  LET r == Head(j.todo)
      verdict == Verdict(r, j.retry)
  IN \/ /\ verdict = "skip"
        /\ job' = [job EXCEPT ![p] = NextResource(p, j)]
     \/ /\ verdict = "index"
        /\ job' = [job EXCEPT ![p] = [j EXCEPT !.pc = "saving", !.copy = governance[r],
                                                !.outcome = "clear"]]
     \/ /\ verdict = "call"
        /\ job' = [job EXCEPT ![p] = [j EXCEPT !.pc = "calling", !.copy = governance[r]]]

Load(p) ==
  /\ job[p].pc = "load"
  /\ LoadResource(p, job[p])
  /\ UNCHANGED <<rows, runs, edits, overtaken>>

\* A mutant of Refreshed: the row stays as it was loaded before the call.
AsLoaded(p) == job[p].copy

\* The governance in the copy of the row after the call: sync_feishu_information
\* commits, which expires the row, so it is read again; the call with a user's
\* token commits nothing.
Refreshed(p) ==
  LET r == Head(job[p].todo)
  IN IF Profile[r].identity = "user" THEN job[p].copy ELSE governance[r]

CallEnds(p, outcome) ==
  /\ job[p].pc = "calling"
  /\ job' = [job EXCEPT ![p].pc = "saving", ![p].copy = Refreshed(p), ![p].outcome = outcome]
  /\ UNCHANGED <<rows, runs, edits, overtaken>>

\* The call returned data for every kind asked.
CallSucceeds(p) == CallEnds(p, "clear")

\* The call returned an error for some kind: the app identity sets last_sync_at
\* all the same; of the user identity's row nothing is written.
CallPartial(p) ==
  LET identity == Profile[Head(job[p].todo)].identity
  IN /\ job[p].pc = "calling"
     /\ \/ identity = "app" /\ CallEnds(p, "keep")
        \/ /\ identity = "user"
           /\ job' = [job EXCEPT ![p] = NextResource(p, job[p])]
           /\ UNCHANGED <<rows, runs, edits, overtaken>>

\* Feishu refuses: the bot is not in the chat, or the calendar needs the user.
CallDenied(p) ==
  LET r == Head(job[p].todo)
  IN /\ job[p].pc = "calling"
     /\ Profile[r].identity = "app"
     /\ Profile[r].type \in {"chat", "calendar"}
     /\ CallEnds(p, "block")

\* The commit: what was made from the copy goes into the row.  last_sync_at is the
\* moment just before it, so the order of last_sync_at is that of the commits.
Save(p) ==
  LET r == Head(job[p].todo)
  IN /\ job[p].pc = "saving"
     /\ SetLastSync(r)
     /\ \/ job[p].outcome = "clear" /\ ClearBlock(r, job[p].copy, {p})
        \/ job[p].outcome = "block" /\ MarkBlocked(r, job[p].copy, {p})
        \/ job[p].outcome = "keep" /\ CommitGovernance(r, governance[r], {p})
     /\ job' = [job EXCEPT ![p] = NextResource(p, job[p])]
     /\ UNCHANGED <<enabled, runs, edits>>

\* The call raises: nothing of the resource is written.
CallRaises(p) ==
  /\ job[p].pc = "calling"
  /\ Head(job[p].todo) \in Failing
  /\ job' = [job EXCEPT ![p] = AfterError(p, job[p])]
  /\ UNCHANGED <<rows, runs, edits, overtaken>>

----------------------------------------------------------------------------
(* The auto run of a worker                                                 *)

\* auto_v5_resource_sync_task up to the due check
CheckDue(w) ==
  /\ job[w].pc = "idle"
  /\ due
  /\ job' = [job EXCEPT ![w].pc = "start"]
  /\ UNCHANGED <<rows, runs, edits, overtaken>>

\* start_sync_run and its commit: the new started_at makes every later check wait.
StartRun(w) ==
  /\ job[w].pc = "start"
  /\ job' = [job EXCEPT ![w].pc = "select"]
  /\ runRow' = [runRow EXCEPT ![w] = "running"]
  /\ due' = FALSE
  /\ killed' = killed \ {w}
  /\ UNCHANGED <<rows, edits, overtaken, interruptions>>

\* The selected rows stay in the session until the first commit, so the first
\* resource is decided on the values it was selected with: one step.
SelectResources(w) ==
  /\ job[w].pc = "select"
  /\ \E chosen \in Selections(AllowedTypes, AllowedStatuses) :
       IF chosen = <<>>
       THEN job' = [job EXCEPT ![w].pc = "finish"]
       ELSE LoadResource(w, [job[w] EXCEPT !.pc = "load", !.todo = chosen])
  /\ UNCHANGED <<rows, runs, edits, overtaken>>

\* finish_sync_run and its commit
FinishRun(w) ==
  /\ job[w].pc = "finish"
  /\ runRow' = [runRow EXCEPT ![w] = IF job[w].errors THEN "partial" ELSE "success"]
  /\ job' = [job EXCEPT ![w] = Idle]
  /\ UNCHANGED <<rows, due, killed, edits, overtaken, interruptions>>

\* The worker process dies; its rows stay as last committed.
Crash(w) ==
  /\ Interrupts
  /\ job[w].pc \notin {"idle", "start"}
  /\ job' = [job EXCEPT ![w] = Idle]
  /\ killed' = killed \cup {w}
  /\ overtaken' = overtaken \ {w}
  /\ UNCHANGED <<rows, due, runRow, edits>>

----------------------------------------------------------------------------
(* Requests and the owner                                                   *)

\* sync_v5_resource by hand, and retry_v5_resource_access_block
RequestSync(q, r, retry) ==
  /\ job[q].pc = "idle"
  /\ Interrupts
  /\ job' = [job EXCEPT ![q] = [Idle EXCEPT !.pc = "load", !.todo = <<r>>, !.retry = retry]]
  /\ UNCHANGED <<rows, due, runRow, edits, killed, overtaken>>

\* sync_company_resource_batch: no types, the statuses of the request or none
RequestBatch(q, statuses) ==
  /\ job[q].pc = "idle"
  /\ Interrupts
  /\ \E chosen \in Selections({}, statuses) \ {<<>>} :
       LoadResource(q, [Idle EXCEPT !.pc = "load", !.todo = chosen])
  /\ UNCHANGED <<rows, due, runRow, edits, killed, overtaken>>

\* The owner's request, or discovery, reads the row.  A clear or a reset
\* that finds nothing to take away writes nothing and is left out.
OpenEdit(r, op, on) ==
  /\ Interrupts
  /\ op = "clear" => governance[r] # NoGovernance
  /\ op = "reset" => governance[r].decision
  /\ edits' = edits \cup {[op |-> op, r |-> r, copy |-> governance[r], was |-> r \in enabled, on |-> on]}
  /\ UNCHANGED <<rows, due, runRow, job, killed, overtaken>>

\* clear_v5_resource_access_block
OwnerClears(e) ==
  /\ e.op = "clear"
  /\ ClearBlock(e.r, e.copy, {})
  /\ UNCHANGED enabled

\* update_v5_resource_access_decision.  A decision carries the time it was made, so it
\* is always written.
OwnerDecides(e) ==
  /\ e.op \in {"set", "reset"}
  /\ CommitGovernance(e.r, [e.copy EXCEPT !.decision = (e.op = "set")], {})
  /\ UNCHANGED enabled

\* upsert_feishu_discovered_resource finds the row again: it replaces the whole
\* config_json, so block and decision go, and sets enabled from the item.  The
\* ORM writes a column only if it differs from what was read: without a governance
\* read, config_json is written when the item's settings changed.
Rediscover(e) ==
  /\ e.op = "rediscover"
  /\ \/ CommitGovernance(e.r, NoGovernance, {})
     \/ e.copy = NoGovernance /\ UNCHANGED <<governance, overtaken>>
  /\ enabled' = IF e.on = e.was THEN enabled
                ELSE IF e.on THEN enabled \cup {e.r} ELSE enabled \ {e.r}

----------------------------------------------------------------------------
(* Time                                                                     *)

\* STALE_AFTER passes for the oldest last_sync_at that is not stale yet.
Ages(i) ==
  /\ lastSync[i] \notin stale
  /\ \A k \in 1..(i - 1) : lastSync[k] \in stale
  /\ stale' = stale \cup {lastSync[i]}
  /\ UNCHANGED <<enabled, governance, lastSync, runs, job, edits, overtaken>>

\* interval_seconds pass since the latest started_at.
IntervalElapses ==
  /\ ~due
  /\ due' = TRUE
  /\ UNCHANGED <<rows, runRow, job, edits, killed, overtaken, interruptions>>

SyncStep(p) ==
  \/ Load(p) \/ Save(p)
  \/ CallSucceeds(p) \/ CallPartial(p) \/ CallDenied(p) \/ CallRaises(p)

RunStep(w) == CheckDue(w) \/ StartRun(w) \/ SelectResources(w) \/ FinishRun(w)

EditStep(e) ==
  /\ OwnerClears(e) \/ OwnerDecides(e) \/ Rediscover(e)
  /\ edits' = edits \ {e}
  /\ UNCHANGED <<lastSync, stale, runs, job>>

Next ==
  \/ \E p \in Actors : SyncStep(p)
  \/ \E w \in Workers : RunStep(w) \/ Crash(w)
  \/ \E q \in Requests, r \in Governed, retry \in BOOLEAN : RequestSync(q, r, retry)
  \/ \E q \in Requests, statuses \in {{}, AllowedStatuses} : RequestBatch(q, statuses)
  \/ \E r \in Governed, op \in {"clear", "set", "reset", "rediscover"}, on \in BOOLEAN :
       (on \/ op = "rediscover") /\ OpenEdit(r, op, on)
  \/ \E e \in edits : EditStep(e)
  \/ \E i \in 1..Len(lastSync) : Ages(i)
  \/ IntervalElapses

\* A worker goes on with its run, a Feishu call ends (the client has a timeout),
\* and beat keeps sending the task as time passes.  Nothing is assumed of requests.
Fairness ==
  /\ \A w \in Workers : WF_vars(RunStep(w) \/ SyncStep(w))
  /\ WF_vars(IntervalElapses)

Spec == Init /\ [][Next]_vars
FairSpec == Spec /\ Fairness

----------------------------------------------------------------------------
(* Properties                                                               *)

\* Types, and: lastSync lists a resource once, and what is stale is the oldest part
\* of it, which is what the meaning of Sooner (order by last_sync_at) rests on.
SyncTypeOK ==
  /\ enabled \subseteq Resources
  /\ governance \in [Resources -> Governance]
  /\ lastSync \in Seq(Resources)
  /\ \A i, k \in 1..Len(lastSync) : lastSync[i] = lastSync[k] => i = k
  /\ stale \subseteq Synced
  /\ \A i \in 1..Len(lastSync) : lastSync[i] \in stale => \A k \in 1..i : lastSync[k] \in stale
  /\ due \in BOOLEAN
  /\ runRow \in [Workers -> {"none", "running", "success", "partial"}]
  /\ job \in [Actors -> JobType]
  /\ edits \subseteq Edit
  /\ killed \subseteq Workers
  /\ overtaken \subseteq {p \in Actors : job[p].pc = "saving"}
  /\ interruptions \in 0..MaxInterruptions

\* A SyncRun row says "running" exactly while its worker is in the run, or for ever
\* when the worker was killed there: a resource whose call raises does not leave
\* the row open (the except of sync_company_auto_resources).
RunRowTruthful ==
  \A w \in Workers :
    runRow[w] = "running" <=> job[w].pc \in {"select", "load", "calling", "saving", "finish"} \/ w \in killed

\* A resource that was selected and then disabled or blocked by somebody else before
\* its turn is not called: sync_v5_resource decides again.  Only a retry by
\* hand calls a blocked resource.
CalledOnlyWhenReady ==
  [][\A p \in Actors :
       (job[p].pc # "calling" /\ job'[p].pc = "calling") =>
         LET r == Head(job'[p].todo)
         IN /\ r \in enabled
            /\ governance[r].status = "blocked" => job'[p].retry]_vars

\* Decisions of the owner survive the blocks that refused calls record, however
\* long the call and whatever is decided during it, except in one window: the row
\* is read again after the call and committed without a lock, and a decision that
\* is committed between the two is overwritten.  Outside that window a decision
\* comes and goes only with the owner's own request, or goes with all governance
\* (a clear, a successful synchronisation, discovery).
DecisionLostOnlyIfOvertaken ==
  [][\A r \in Resources :
       governance'[r].decision # governance[r].decision =>
          \/ governance'[r] = NoGovernance
          \/ \E e \in edits \ edits' : e.r = r /\ e.op \in {"set", "reset"}
          \/ \E p \in overtaken : job'[p] # job[p] /\ Head(job[p].todo) = r]_vars

\* Resources whose last_sync_at may never be set, whatever is tried.
Stuckable == {r \in Resources : r \in Failing \/ ~Profile[r].config \/ Profile[r].identity = "user"}

\* The next auto run would take the resource, were there no limit.
Waiting(r) ==
  /\ DecisionState(r, r \in enabled, governance[r].status, AllowedTypes) = "ready"
  /\ SyncStatus(r, AllowedTypes) \in AllowedStatuses

\* Nobody waits for ever, that is, again and again each resource does not wait: with
\* fewer stuck resources than the limit, one that is due for synchronisation is
\* synchronised (or blocked, or disabled), although each run takes only
\* limit_resources of them, others age meanwhile, requests come between and workers
\* die.  The order by last_sync_at is what makes it so.
EveryResourceServed ==
  Cardinality(Stuckable) < LimitResources =>
    \A r \in Resources \ Stuckable : []<>~Waiting(r)

=============================================================================

---------------------------- MODULE UserIdentity ----------------------------
(***************************************************************************)
(* Personal authorization: the OAuth callback, the CLI authorization and   *)
(* the mail callback, which mark a user as authorized in bot_user_access;  *)
(* the contact sync and the console, which rewrite the same row; and the   *)
(* user tokens in accounts, which tools, the resource discovery and an     *)
(* administrator refresh (user_identity_authorizations.py,                 *)
(* feishu_oauth_helpers.py, user_accounts.py, feishu_mcp.py, resources.py).*)
(*                                                                         *)
(* Feishu accepts a refresh token once and answers with the next pair.     *)
(* A pair is its number; 0 is no pair.  Handlers are transactions at read  *)
(* committed: an update that was flushed locks its row until the commit,   *)
(* and no row has a version.                                               *)
(***************************************************************************)
EXTENDS Naturals, Sequences

CONSTANTS
    Users,
    Procs,          \* requests, tool calls and sync jobs under way
    MaxTokens       \* bound on the pairs issued

ASSUME IdentityAssumption == MaxTokens \in Nat

VARIABLES
    row,            \* bot_user_access.settings of each user
    cred,           \* accounts.credentials of each user
    cli,            \* the user whose token lark-cli keeps, or "nobody"
    issued,         \* the users the pairs were issued to, in turn
    valid,          \* pairs whose refresh token Feishu still accepts
    expired,        \* pairs whose access token has expired
    proc,
    granted,        \* history: users who authorized the application themselves
    spoiled         \* history: users whose rotation went wrong outside of the code

feishu == <<issued, valid, expired>>
vars == <<row, cred, cli, feishu, proc, granted, spoiled>>

NextPair == Len(issued) + 1
PairsOf(u) == {n \in 1 .. Len(issued) : issued[n] = u}

\* What the settings hold under user_identity_authorizations ("none": no such
\* key), and whether they hold the key open_id.  "pending" stands for
\* authorization_started and authorization_pending_token_exchange, which nothing
\* tells apart.
Statuses == {"not_authorized", "pending", "authorized"}
Absent == [status |-> "absent", keyed |-> FALSE]
AccessRows == [status : Statuses \cup {"none"}, keyed : BOOLEAN] \cup {Absent}

\* who: the user the work is about; pair: the credentials read or obtained;
\* dirty: the account was flushed; status: what to mark; copy: the access row as
\* it was read.  A "tool" looks for the actor's account, a "cli" tool calls lark-cli.
Idle == [pc |-> "idle", kind |-> "none", who |-> "nobody", actor |-> "nobody", pair |-> 0,
         dirty |-> FALSE, status |-> "not_authorized", copy |-> Absent]

Kinds == {"none", "tool", "cli", "discovery", "admin", "callback", "mark", "contacts"}
Work ==
    [pc : {"idle", "refresh", "flush", "use", "end", "upsert", "store"},
     kind : Kinds, who : Users \cup {"nobody"}, actor : Users \cup {"nobody"},
     pair : 0 .. MaxTokens, dirty : BOOLEAN, status : Statuses, copy : AccessRows]

\* Feishu issues a pair to u and stops accepting those of old.
Issue(u, old) ==
    /\ NextPair <= MaxTokens
    /\ issued' = Append(issued, u)
    /\ valid' = (valid \ old) \cup {NextPair}

At(p, pc) == proc[p].pc = pc
Begin(p, w) == At(p, "idle") /\ proc' = [proc EXCEPT ![p] = w]
Become(p, w) == proc' = [proc EXCEPT ![p] = w]
End(p) == proc' = [proc EXCEPT ![p] = Idle]

\* The access row of u is read, to be written with this status.
Authorize(u, status) ==
    [Idle EXCEPT !.pc = "store", !.kind = "mark", !.who = u, !.status = status, !.copy = row[u]]

-----------------------------------------------------------------------------
(* Marking an access row *)

\* Mutant: the page trusts the user named in the state.
SameOwner_any(u, v) == TRUE

\* The account that authorized is the one the authorization was started for.
SameOwner(u, v) == u = v

\* feishu_oauth_callback_payload: the code is exchanged for a pair of the user v
\* who confirmed; u is the user in the state, "nobody" for an administrator's link.
Callback(p, u, v) ==
    /\ Issue(v, {})
    /\ Begin(p, [Idle EXCEPT !.pc = "upsert", !.kind = "callback", !.who = v, !.actor = u,
                             !.pair = NextPair])
    /\ granted' = granted \cup {v}
    /\ UNCHANGED <<row, cred, expired, spoiled, cli>>

\* Rows flushed and not committed are locked.
Unlocked(p, u) ==
    \A q \in Procs \ {p} : ~(proc[q].who = u /\ proc[q].dirty)

\* upsert_feishu_user_account and its commit; the owner is compared afterwards.
UpsertAccount(p) ==
    LET w == proc[p]
    IN /\ At(p, "upsert") /\ Unlocked(p, w.who)
       /\ cred' = [cred EXCEPT ![w.who] = w.pair]
       /\ IF w.actor # "nobody" /\ SameOwner(w.actor, w.who)
          THEN Become(p, Authorize(w.actor, "authorized"))
          ELSE End(p)
       /\ UNCHANGED <<row, feishu, granted, spoiled, cli>>

\* start_feishu_cli_user_identity_auth
CliStart(p, u) ==
    /\ Begin(p, Authorize(u, "pending"))
    /\ UNCHANGED <<row, cred, feishu, granted, spoiled, cli>>

\* complete_feishu_cli_user_identity_auth: v confirmed on the phone, and lark-cli
\* keeps v's token instead of the one it had.  When it names v the owner is compared
\* after that, and another's is refused; when it names nobody the page goes on.
CliComplete(p, u, v, named) ==
    /\ IF named => SameOwner(u, v)
       THEN Begin(p, Authorize(u, "authorized"))
       ELSE Begin(p, Idle)
    /\ cli' = v
    /\ granted' = granted \cup (IF named THEN {v} ELSE {u, v})
    /\ UNCHANGED <<row, cred, feishu, spoiled>>

\* mail_user_identity_oauth_callback: writes the same bundle.
MailCallback(p, u) ==
    /\ Begin(p, Authorize(u, "pending"))
    /\ UNCHANGED <<row, cred, feishu, granted, spoiled, cli>>

\* Mutant: the key open_id is left out.
Marked_unkeyed(status) == [status |-> status, keyed |-> FALSE]

Marked(status) == [status |-> status, keyed |-> TRUE]

\* mark_user_identity_authorization changes the nested dictionary of the settings
\* it has read in place.  The new settings then differ from the old ones only if
\* a key is added at the top, and an attribute that does not differ is not
\* written: the second mark of a row is lost.
Differs(copy) == ~copy.keyed \/ copy.status = "none"

\* A row that another transaction inserted meanwhile breaks the unique key.
Conflict(p) == proc[p].copy = Absent /\ row[proc[p].who] # Absent

StoreMark(p) ==
    LET w == proc[p]
    IN /\ At(p, "store") /\ w.kind = "mark"
       /\ row' = IF ~Conflict(p) /\ (w.copy = Absent \/ Differs(w.copy))
                 THEN [row EXCEPT ![w.who] = Marked(w.status)] ELSE row
       /\ End(p)
       /\ UNCHANGED <<cred, feishu, granted, spoiled, cli>>

\* The contact sync reads a row, and commits it with all the others at its end.
Contacts(p, u) ==
    /\ Begin(p, [Idle EXCEPT !.pc = "store", !.kind = "contacts", !.who = u, !.copy = row[u]])
    /\ UNCHANGED <<row, cred, feishu, granted, spoiled, cli>>

StoreContact(p) ==
    LET w == proc[p]
    IN /\ At(p, "store") /\ w.kind = "contacts"
       /\ row' = IF Conflict(p) THEN row
                 ELSE [row EXCEPT ![w.who] =
                         [status |-> IF w.copy.status \in {"absent", "none"}
                                     THEN "not_authorized" ELSE w.copy.status,
                          keyed |-> w.copy.keyed]]
       /\ End(p)
       /\ UNCHANGED <<cred, feishu, granted, spoiled, cli>>

\* The first message of a user creates the row with its defaults.
FirstMessage(u) ==
    /\ row[u] = Absent
    /\ row' = [row EXCEPT ![u] = [status |-> "not_authorized", keyed |-> FALSE]]
    /\ UNCHANGED <<cred, feishu, proc, granted, spoiled, cli>>

\* The console stores the settings of its request, which are empty by default.
upsert_bot_user_access(u) ==
    /\ row' = [row EXCEPT ![u] = [status |-> "none", keyed |-> FALSE]]
    /\ UNCHANGED <<cred, feishu, proc, granted, spoiled, cli>>

-----------------------------------------------------------------------------
(* Using and refreshing a token *)

\* The accounts whose open_id is the actor's
Matched(u) == {v \in {u} : cred[v] # 0}

Found(p, v, w) ==
    Become(p, [w EXCEPT !.who = v, !.pair = cred[v],
                        !.pc = IF cred[v] \in expired THEN "refresh" ELSE "use"])

\* Mutant: an authorization that was started will do.
Permitted_started(u) == row[u].status \in {"pending", "authorized"}

\* _actor_data_permission_for_tool, the gate of the tools on personal resources
Permitted(u) == row[u].status = "authorized"

\* The approval query and the mail tools look for the account of the actor.
ToolCall(p, u) ==
    /\ At(p, "idle") /\ Permitted(u)
    /\ \E v \in Matched(u) : Found(p, v, [Idle EXCEPT !.kind = "tool", !.actor = u])
    /\ UNCHANGED <<row, cred, feishu, granted, spoiled, cli>>

\* The calendar and meeting tools call lark-cli --as user, which takes the token it
\* keeps when it runs.
CliCall(p, u) ==
    /\ Permitted(u)
    /\ Begin(p, [Idle EXCEPT !.pc = "use", !.kind = "cli", !.who = u, !.actor = u])
    /\ UNCHANGED <<row, cred, feishu, granted, spoiled, cli>>

\* Resource discovery walks over the accounts of the company.
Discover(p, v) ==
    /\ At(p, "idle") /\ cred[v] # 0
    /\ Found(p, v, [Idle EXCEPT !.kind = "discovery"])
    /\ UNCHANGED <<row, cred, feishu, granted, spoiled, cli>>

\* refresh_feishu_user_token_payload
AdminRefresh(p, v) ==
    /\ cred[v] # 0
    /\ Begin(p, [Idle EXCEPT !.pc = "refresh", !.kind = "admin", !.who = v, !.pair = cred[v]])
    /\ UNCHANGED <<row, cred, feishu, granted, spoiled, cli>>

\* Mutant: the old credentials are merged over the new ones.
Merged_swapped(old, new) == IF old = 0 THEN new ELSE old

\* refresh_feishu_user_account: the new credentials over the old ones; an answer
\* without credentials (0) leaves the old ones.
Merged(old, new) == IF new = 0 THEN old ELSE new

Refresh(p) ==
    /\ At(p, "refresh") /\ proc[p].pair \in valid
    /\ Issue(proc[p].who, {proc[p].pair})
    /\ \/ /\ Become(p, [proc[p] EXCEPT !.pc = "flush", !.pair = Merged(@, NextPair)])
          /\ UNCHANGED spoiled
       \/ End(p) /\ spoiled' = spoiled \cup {proc[p].who}     \* the answer is lost
    /\ UNCHANGED <<row, cred, expired, granted, cli>>

\* The call fails before it reaches Feishu, or there is no refresh token.
RefreshFails(p) ==
    /\ At(p, "refresh") /\ End(p)
    /\ UNCHANGED <<row, cred, feishu, granted, spoiled, cli>>

\* Another refresh has used the token up.  A tool looks at the HTTP status only:
\* an answer that says so in its body is merged like any other.
RefreshRefused(p) ==
    /\ At(p, "refresh") /\ proc[p].pair \notin valid
    /\ \/ End(p)
       \/ /\ proc[p].kind = "tool"
          /\ Become(p, [proc[p] EXCEPT !.pc = "flush", !.pair = Merged(@, 0)])
    /\ spoiled' = spoiled \cup {proc[p].who}
    /\ UNCHANGED <<row, cred, feishu, granted, cli>>

Flush(p) ==
    /\ At(p, "flush") /\ Unlocked(p, proc[p].who)
    /\ Become(p, [proc[p] EXCEPT !.dirty = TRUE,
                                 !.pc = IF proc[p].kind = "admin" THEN "end" ELSE "use"])
    /\ UNCHANGED <<row, cred, feishu, granted, spoiled, cli>>

\* The request to Feishu under the user's token
Use(p) ==
    LET w == proc[p]
    IN /\ At(p, "use")
       /\ IF w.dirty THEN Become(p, [w EXCEPT !.pc = "end"]) ELSE End(p)
       /\ UNCHANGED <<row, cred, feishu, granted, spoiled, cli>>

Commit(p) ==
    /\ At(p, "end")
    /\ cred' = [cred EXCEPT ![proc[p].who] = proc[p].pair]
    /\ End(p)
    /\ UNCHANGED <<row, feishu, granted, spoiled, cli>>

\* The reply cannot be sent, a later resource raises, or the process dies: what
\* was not committed is gone.
Abort(p) ==
    /\ ~At(p, "idle") /\ End(p)
    /\ spoiled' = IF At(p, "flush") \/ proc[p].dirty
                  THEN spoiled \cup {proc[p].who} ELSE spoiled
    /\ UNCHANGED <<row, cred, feishu, granted, cli>>

-----------------------------------------------------------------------------
(* Feishu and time *)

ExpireAccess(u) ==
    /\ PairsOf(u) \ expired # {}
    /\ expired' = expired \cup PairsOf(u)
    /\ UNCHANGED <<row, cred, issued, valid, proc, granted, spoiled, cli>>

\* The user withdraws the authorization in Feishu, or the refresh token expires.
Withdraw(u) ==
    /\ valid \cap PairsOf(u) # {}
    /\ valid' = valid \ PairsOf(u)
    /\ spoiled' = spoiled \cup {u}
    /\ UNCHANGED <<row, cred, issued, expired, proc, granted, cli>>

-----------------------------------------------------------------------------
Init ==
    /\ row = [u \in Users |-> Absent] /\ cli = "nobody"
    /\ cred = [u \in Users |-> 0] /\ issued = <<>>
    /\ valid = {} /\ expired = {}
    /\ proc = [p \in Procs |-> Idle]
    /\ granted = {} /\ spoiled = {}

Request(p) ==
    \/ \E u \in Users \cup {"nobody"}, v \in Users : Callback(p, u, v)
    \/ \E u, v \in Users, named \in BOOLEAN : CliComplete(p, u, v, named)
    \/ \E u \in Users : \/ CliStart(p, u) \/ MailCallback(p, u) \/ Contacts(p, u)
                        \/ ToolCall(p, u) \/ CliCall(p, u)
                        \/ Discover(p, u) \/ AdminRefresh(p, u)

Step(p) ==
    \/ UpsertAccount(p) \/ StoreMark(p) \/ StoreContact(p)
    \/ Refresh(p) \/ RefreshFails(p) \/ RefreshRefused(p)
    \/ Flush(p) \/ Use(p) \/ Commit(p) \/ Abort(p)

Surroundings(u) ==
    FirstMessage(u) \/ upsert_bot_user_access(u) \/ ExpireAccess(u) \/ Withdraw(u)

Next == (\E p \in Procs : Request(p) \/ Step(p)) \/ (\E u \in Users : Surroundings(u))

Spec == Init /\ [][Next]_vars

-----------------------------------------------------------------------------
(* Properties *)

\* Every variable has its type, and a row that was ever marked holds the key
\* open_id, which is what decides whether a later mark is written.
IdentityTypeOK ==
    /\ row \in [Users -> AccessRows]
    /\ cred \in [Users -> 0 .. MaxTokens] /\ issued \in Seq(Users)
    /\ cli \in Users \cup {"nobody"}
    /\ valid \subseteq 1 .. MaxTokens /\ expired \subseteq 1 .. MaxTokens
    /\ proc \in [Procs -> Work]
    /\ granted \subseteq Users /\ spoiled \subseteq Users
    /\ \A u \in Users : row[u].status \in Statuses \ {"not_authorized"} => row[u].keyed

\* A row says authorized only for a user who authorized the application (or for
\* whom the CLI named nobody), although the state of the link, the account that
\* confirms and the row that is written are three different users' to choose
\* (feishu_oauth_callback_payload, complete_lark_cli_user_authorization).
AuthorizedByOwner ==
    \A u \in Users : row[u].status = "authorized" => u \in granted

\* A personal call under way: whose token it goes out with, "nobody" when lark-cli
\* has none and the call fails.
Calling(p) == At(p, "use") /\ proc[p].kind \in {"tool", "cli"}
TokenOf(p) == IF proc[p].kind = "cli" THEN cli ELSE proc[p].who

\* Whatever marks, copies of rows and tokens change hands meanwhile: a personal call
\* is made for a user who authorized the application (or for whom the CLI named
\* nobody), with the token of such a user.  With an account that user is the actor;
\* with lark-cli it is whoever completed a login last, and so another user perhaps
\* (execute_agent_tool, feishu_mcp.py).
PersonalCallsAreGranted ==
    \A p \in Procs :
        Calling(p) => /\ proc[p].actor \in granted
                      /\ TokenOf(p) \in granted \cup {"nobody"}
                      /\ proc[p].kind = "tool" => TokenOf(p) = proc[p].actor

\* A stored refresh token is one that Feishu accepts, or a handler is on its way
\* to store the pair that replaced it; it goes dead only when an answer or a
\* transaction was lost, when Feishu withdrew it, or when two refreshes of one
\* account overlapped (refresh_feishu_user_account and its three callers).
StoredTokenIsLive ==
    \A u \in Users :
        cred[u] = 0 \/ u \in spoiled \/ cred[u] \in valid
        \/ \E p \in Procs : /\ At(p, "flush") \/ proc[p].dirty
                            /\ proc[p].who = u /\ proc[p].pair \in valid

=============================================================================

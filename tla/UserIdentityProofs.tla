-------------------------- MODULE UserIdentityProofs --------------------------
(* For any users, handlers and token pairs: nobody is marked as authorized for  *)
(* another, a personal call is made for and with the token of somebody who       *)
(* authorized, and a stored refresh token goes dead only in the ways the model   *)
(* names.                                                                        *)
EXTENDS UserIdentity, SequenceTheorems, TLAPS

----------------------------------------------------------------------------
(* The inductive invariant.  A handler writes what it read when it began, so     *)
(* what must hold of the rows must hold of the copies, and of the mark a handler *)
(* is on its way to store.                                                       *)

\* The key decides whether a later mark is written (Differs).
Keyed(r) == r.status \in Statuses \ {"not_authorized"} => r.keyed

\* A pair belongs to the user it was issued to.
OwnPair(n, u, I) == n # 0 => n \in 1 .. Len(I) /\ I[n] = u

\* I: the users the pairs were issued to; G: those who authorized.
WorkOK(w, I, G) ==
    /\ w.pc # "idle" => w.who \in Users
    /\ w.dirty => w.pc \in {"use", "end"}
    /\ w.pc = "end" => w.dirty
    /\ Keyed(w.copy)
    /\ OwnPair(w.pair, w.who, I)
    /\ w.copy.status = "authorized" => w.who \in G
    /\ w.status = "authorized" => w.who \in G
    /\ w.pc = "upsert" => w.who \in G
    /\ w.kind \in {"tool", "cli"} => w.who = w.actor /\ w.actor \in G

\* lark-cli keeps the token of somebody who authorized.
CliOK == cli \in granted \cup {"nobody"}

IdentityInv ==
    /\ IdentityTypeOK
    /\ Len(issued) <= MaxTokens
    /\ \A u \in Users : OwnPair(cred[u], u, issued)
    /\ AuthorizedByOwner /\ CliOK
    /\ \A p \in Procs : WorkOK(proc[p], issued, granted)

\* A handler that is going to store a pair: Feishu accepts the pair, and nobody
\* else can use it up before it is stored, since it is nowhere else.
Fresh(w) == w.pc \in {"upsert", "flush"} \/ w.dirty
FreshIsUnique ==
    \A p \in Procs :
        Fresh(proc[p]) =>
            \/ proc[p].who \in spoiled
            \/ /\ proc[p].pair \in valid
               /\ \A v \in Users : cred[v] # proc[p].pair
               /\ \A q \in Procs \ {p} : proc[q].pair # proc[p].pair

TokenInv == IdentityInv /\ FreshIsUnique /\ StoredTokenIsLive

----------------------------------------------------------------------------
(* Facts about the operators. *)

LEMMA RowFacts ==
    /\ Absent \in AccessRows /\ Keyed(Absent) /\ Absent.status = "absent"
    /\ \A r \in AccessRows : r.status \in Statuses \cup {"none", "absent"} /\ r.keyed \in BOOLEAN
    /\ \A s \in Statuses : Marked(s) \in AccessRows /\ Keyed(Marked(s)) /\ Marked(s).status = s
<1>1. Absent.status = "absent"
  BY DEF Absent
<1>2. Absent \in AccessRows
  BY DEF AccessRows
<1>3. Keyed(Absent)
  BY <1>1 DEF Keyed, Statuses
<1>4. ASSUME NEW r \in AccessRows
      PROVE r.status \in Statuses \cup {"none", "absent"} /\ r.keyed \in BOOLEAN
  <2>1. CASE r = Absent
    <3>1. r.keyed = FALSE
      BY <2>1 DEF Absent
    <3> QED BY <2>1, <3>1 DEF Absent
  <2>2. CASE r \in [status : Statuses \cup {"none"}, keyed : BOOLEAN]
    BY <2>2
  <2> QED BY <2>1, <2>2 DEF AccessRows
<1>5. ASSUME NEW s \in Statuses
      PROVE Marked(s) \in AccessRows /\ Keyed(Marked(s)) /\ Marked(s).status = s
  BY DEF AccessRows, Keyed, Marked, Statuses
<1> QED BY <1>1, <1>2, <1>3, <1>4, <1>5

LEMMA IdleFacts ==
    /\ Idle \in Work
    /\ \A I, G : WorkOK(Idle, I, G)
<1>1. Idle \in Work
  BY RowFacts, IdentityAssumption DEF Idle, Work, Kinds, Statuses
<1>2. ASSUME NEW I, NEW G PROVE WorkOK(Idle, I, G)
  BY RowFacts DEF WorkOK, OwnPair, Idle
<1> QED BY <1>1, <1>2

LEMMA WorkFacts ==
    ASSUME IdentityInv, NEW p \in Procs
    PROVE  /\ proc[p] \in Work
           /\ WorkOK(proc[p], issued, granted)
           /\ proc[p].pair \in 0 .. MaxTokens
           /\ proc[p].copy \in AccessRows
           /\ proc[p].status \in Statuses
BY DEF IdentityInv, IdentityTypeOK, Work

\* Reading a row to mark it.
LEMMA AuthorizeFacts ==
    ASSUME IdentityInv, NEW u \in Users, NEW status \in Statuses, NEW G, granted \subseteq G,
           status = "authorized" => u \in G
    PROVE  /\ Authorize(u, status) \in Work
           /\ WorkOK(Authorize(u, status), issued, G)
           /\ Authorize(u, status).pair = 0
           /\ ~Fresh(Authorize(u, status))
<1>1. row[u] \in AccessRows /\ Keyed(row[u]) /\ (row[u].status = "authorized" => u \in G)
  BY DEF IdentityInv, IdentityTypeOK, AuthorizedByOwner, Keyed
<1> QED BY <1>1, IdleFacts, IdentityAssumption
        DEF Authorize, Idle, Work, WorkOK, OwnPair, Fresh, Kinds

\* A new pair leaves those before it with their users.
LEMMA PairsStay ==
    ASSUME NEW I \in Seq(Users), NEW u \in Users, NEW v, NEW n, OwnPair(n, v, I)
    PROVE  OwnPair(n, v, Append(I, u))
BY AppendProperties DEF OwnPair

LEMMA WorkStays ==
    ASSUME NEW I \in Seq(Users), NEW J, NEW G, NEW H, G \subseteq H,
           J = I \/ \E u \in Users : J = Append(I, u),
           NEW w, WorkOK(w, I, G)
    PROVE  WorkOK(w, J, H)
<1>1. OwnPair(w.pair, w.who, J)
  BY PairsStay DEF WorkOK
<1> QED BY <1>1 DEF WorkOK

----------------------------------------------------------------------------
(* Framing: a step of one handler, or of none. *)

\* What a step may do to the pairs issued.
PairsMove ==
    /\ issued' = issued \/ \E u \in Users : issued' = Append(issued, u)
    /\ Len(issued') <= MaxTokens

LEMMA CliStays ==
    ASSUME IdentityInv, cli' = cli, granted \subseteq granted'
    PROVE  CliOK'
BY DEF IdentityInv, CliOK

LEMMA IdentityFrame ==
    ASSUME IdentityInv, PairsMove, CliOK', granted \subseteq granted', granted' \subseteq Users,
           spoiled' \subseteq Users, valid' \subseteq 1 .. MaxTokens,
           expired' \subseteq 1 .. MaxTokens,
           row' \in [Users -> AccessRows],
           \A u \in Users : Keyed(row'[u]) /\ (row'[u].status = "authorized" => u \in granted'),
           cred' \in [Users -> 0 .. MaxTokens],
           \A u \in Users : OwnPair(cred'[u], u, issued) \/ OwnPair(cred'[u], u, issued'),
           \/ proc' = proc
           \/ \E p \in Procs, x \in Work :
                proc' = [proc EXCEPT ![p] = x] /\ WorkOK(x, issued', granted')
    PROVE  IdentityInv'
<1>1. issued \in Seq(Users) /\ proc \in [Procs -> Work]
  BY DEF IdentityInv, IdentityTypeOK
<1>2. issued' \in Seq(Users)
  <2>1. CASE issued' = issued
    BY <1>1, <2>1
  <2>2. ASSUME NEW u \in Users, issued' = Append(issued, u) PROVE issued' \in Seq(Users)
    BY <1>1, <2>2, AppendProperties
  <2> QED BY <2>1, <2>2 DEF PairsMove
<1>3. \A p \in Procs : WorkOK(proc[p], issued', granted')
  BY <1>1, WorkStays DEF PairsMove, IdentityInv
<1>4. proc' \in [Procs -> Work] /\ \A p \in Procs : WorkOK(proc'[p], issued', granted')
  BY <1>1, <1>3
<1>5. \A u \in Users : OwnPair(cred'[u], u, issued')
  <2>1. ASSUME NEW u \in Users PROVE OwnPair(cred'[u], u, issued')
    <3>1. OwnPair(cred'[u], u, issued) \/ OwnPair(cred'[u], u, issued')
      OBVIOUS
    <3>2. CASE OwnPair(cred'[u], u, issued) /\ issued' # issued
      <4>1. PICK v \in Users : issued' = Append(issued, v)
        BY <3>2 DEF PairsMove
      <4> QED BY <1>1, <3>2, <4>1, PairsStay
    <3> QED BY <3>1, <3>2
  <2> QED BY <2>1
<1>6. IdentityTypeOK'
  BY <1>2, <1>4 DEF IdentityTypeOK, Keyed, CliOK
<1>7. AuthorizedByOwner'
  BY DEF AuthorizedByOwner
<1> QED BY <1>4, <1>5, <1>6, <1>7 DEF IdentityInv, PairsMove

\* Most steps touch neither rows nor tokens.
LEMMA WorkOnly ==
    ASSUME IdentityInv, NEW p \in Procs, NEW x \in Work,
           proc' = [proc EXCEPT ![p] = x], WorkOK(x, issued, granted'),
           granted \subseteq granted', granted' \subseteq Users,
           CliOK', UNCHANGED <<row, cred, feishu>>, spoiled' \subseteq Users
    PROVE  IdentityInv'
<1>1. PairsMove
  BY DEF PairsMove, feishu, IdentityInv
<1>2. \A u \in Users : /\ Keyed(row'[u]) /\ OwnPair(cred'[u], u, issued)
                       /\ row'[u].status = "authorized" => u \in granted'
  BY DEF IdentityInv, IdentityTypeOK, AuthorizedByOwner, Keyed
<1>3. /\ row' \in [Users -> AccessRows] /\ cred' \in [Users -> 0 .. MaxTokens]
      /\ valid' \subseteq 1 .. MaxTokens /\ expired' \subseteq 1 .. MaxTokens
      /\ WorkOK(x, issued', granted')
  BY DEF IdentityInv, IdentityTypeOK, feishu
<1> QED BY <1>1, <1>2, <1>3, IdentityFrame

----------------------------------------------------------------------------
(* Marks and rows: the steps keep IdentityInv. *)

LEMMA BeginMoves ==
    ASSUME IdentityInv, NEW p \in Procs, NEW u \in Users,
           CliStart(p, u) \/ MailCallback(p, u) \/ Contacts(p, u)
    PROVE  /\ \E x \in Work : /\ proc' = [proc EXCEPT ![p] = x] /\ ~Fresh(x) /\ x.pair = 0
                              /\ WorkOK(x, issued, granted)
           /\ proc[p].pc = "idle"
           /\ UNCHANGED <<row, cred, cli, feishu, granted, spoiled>>
<1>1. /\ Authorize(u, "pending") \in Work /\ WorkOK(Authorize(u, "pending"), issued, granted)
      /\ Authorize(u, "pending").pair = 0 /\ ~Fresh(Authorize(u, "pending"))
  BY AuthorizeFacts DEF Statuses
<1> DEFINE y == [Idle EXCEPT !.pc = "store", !.kind = "contacts", !.who = u, !.copy = row[u]]
<1>2. row[u] \in AccessRows /\ Keyed(row[u]) /\ (row[u].status = "authorized" => u \in granted)
  BY DEF IdentityInv, IdentityTypeOK, AuthorizedByOwner, Keyed
<1>3. y \in Work /\ WorkOK(y, issued, granted) /\ y.pair = 0 /\ ~Fresh(y)
  BY <1>2, IdleFacts, IdentityAssumption DEF Idle, Work, WorkOK, OwnPair, Fresh, Kinds
<1>4. CASE Contacts(p, u)
  BY <1>3, <1>4 DEF Contacts, Begin, At
<1>5. CASE CliStart(p, u) \/ MailCallback(p, u)
  BY <1>1, <1>5 DEF CliStart, MailCallback, Begin, At
<1> QED BY <1>4, <1>5

LEMMA CliCompleteMoves ==
    ASSUME IdentityInv, NEW p \in Procs, NEW u \in Users, NEW v \in Users, NEW named \in BOOLEAN,
           CliComplete(p, u, v, named)
    PROVE  /\ granted \subseteq granted' /\ granted' \subseteq Users
           /\ \E x \in Work : /\ proc' = [proc EXCEPT ![p] = x] /\ ~Fresh(x) /\ x.pair = 0
                              /\ WorkOK(x, issued, granted')
           /\ proc[p].pc = "idle" /\ CliOK'
           /\ UNCHANGED <<row, cred, feishu, spoiled>>
<1>1. /\ granted \subseteq granted' /\ granted' \subseteq Users /\ CliOK'
      /\ (named => SameOwner(u, v)) => u \in granted'
  BY DEF CliComplete, SameOwner, IdentityInv, IdentityTypeOK, CliOK
<1>2. CASE named => SameOwner(u, v)
  <2>1. /\ Authorize(u, "authorized") \in Work
        /\ WorkOK(Authorize(u, "authorized"), issued, granted')
        /\ Authorize(u, "authorized").pair = 0 /\ ~Fresh(Authorize(u, "authorized"))
    BY <1>1, <1>2, AuthorizeFacts DEF Statuses
  <2> QED BY <1>1, <1>2, <2>1 DEF CliComplete, Begin, At
<1>3. CASE ~(named => SameOwner(u, v))
  <2>1. ~Fresh(Idle) /\ Idle.pair = 0
    BY DEF Fresh, Idle
  <2> QED BY <1>1, <1>3, <2>1, IdleFacts DEF CliComplete, Begin, At
<1> QED BY <1>2, <1>3

\* Whoever confirmed has authorized the application, and owns the pair that follows.
LEMMA CallbackMoves ==
    ASSUME IdentityInv, NEW p \in Procs, NEW u \in Users \cup {"nobody"}, NEW v \in Users,
           Callback(p, u, v)
    PROVE  /\ IdentityInv'
           /\ \E x \in Work : /\ proc' = [proc EXCEPT ![p] = x]
                              /\ x.who = v /\ x.pair = NextPair /\ x.pc = "upsert"
           /\ proc[p].pc = "idle"
           /\ valid' = valid \cup {NextPair}
           /\ UNCHANGED <<row, cred, expired, spoiled>>
<1> DEFINE x == [Idle EXCEPT !.pc = "upsert", !.kind = "callback", !.who = v, !.actor = u,
                             !.pair = NextPair]
<1>1. /\ issued \in Seq(Users) /\ NextPair = Len(issued) + 1 /\ NextPair \in Nat
      /\ NextPair <= MaxTokens /\ NextPair # 0 /\ NextPair \in 0 .. MaxTokens
      /\ issued' = Append(issued, v) /\ valid' = valid \cup {NextPair}
      /\ proc' = [proc EXCEPT ![p] = x] /\ proc[p].pc = "idle"
      /\ granted' = granted \cup {v} /\ UNCHANGED <<row, cred, cli, expired, spoiled>>
  BY IdentityAssumption
     DEF Callback, Issue, Begin, At, NextPair, IdentityInv, IdentityTypeOK
<1>2. x \in Work /\ x.who = v /\ x.pair = NextPair /\ x.pc = "upsert"
  <2>1. x \in Work
    BY <1>1, IdleFacts DEF Idle, Work, Kinds
  <2>2. x.who = v /\ x.pair = NextPair /\ x.pc = "upsert"
    BY DEF Idle
  <2> QED BY <2>1, <2>2
<1>3. PairsMove
  BY <1>1, AppendProperties DEF PairsMove
<1>4. OwnPair(NextPair, v, issued')
  BY <1>1, AppendProperties DEF OwnPair
<1>5. WorkOK(x, issued', granted')
  <2>1. /\ x.pc = "upsert" /\ x.who = v /\ x.pair = NextPair /\ x.dirty = FALSE
        /\ x.copy = Absent /\ x.status = "not_authorized" /\ x.kind = "callback"
    BY DEF Idle
  <2>2. v \in granted'
    BY <1>1
  <2> HIDE DEF x
  <2> QED BY <1>4, <2>1, <2>2, RowFacts DEF WorkOK
<1>6. \A w \in Users : /\ Keyed(row'[w]) /\ OwnPair(cred'[w], w, issued)
                       /\ row'[w].status = "authorized" => w \in granted'
  BY <1>1 DEF IdentityInv, IdentityTypeOK, AuthorizedByOwner, Keyed
<1>7. /\ granted \subseteq granted' /\ granted' \subseteq Users
      /\ row' \in [Users -> AccessRows] /\ cred' \in [Users -> 0 .. MaxTokens]
      /\ valid' \subseteq 1 .. MaxTokens /\ expired' \subseteq 1 .. MaxTokens
      /\ spoiled' \subseteq Users
  BY <1>1 DEF IdentityInv, IdentityTypeOK
<1> HIDE DEF x
<1>8. IdentityInv'
  BY <1>1, <1>2, <1>3, <1>5, <1>6, <1>7, CliStays, IdentityFrame
<1> QED BY <1>1, <1>2, <1>8

LEMMA UpsertMoves ==
    ASSUME IdentityInv, NEW p \in Procs, UpsertAccount(p)
    PROVE  /\ IdentityInv'
           /\ \E x \in Work : proc' = [proc EXCEPT ![p] = x] /\ ~Fresh(x) /\ x.pair = 0
           /\ proc[p].pc = "upsert" /\ proc[p].who \in Users
           /\ cred' = [cred EXCEPT ![proc[p].who] = proc[p].pair]
           /\ UNCHANGED <<row, feishu, granted, spoiled>>
<1> DEFINE w == proc[p]
<1>1. /\ w \in Work /\ w.pc = "upsert" /\ w.who \in Users /\ w.who \in granted
      /\ w.pair \in 0 .. MaxTokens /\ OwnPair(w.pair, w.who, issued)
      /\ cred' = [cred EXCEPT ![w.who] = w.pair]
      /\ UNCHANGED <<row, cli, issued, valid, expired, granted, spoiled>>
  BY WorkFacts DEF UpsertAccount, At, WorkOK, feishu
<1>2. \E x \in Work : /\ proc' = [proc EXCEPT ![p] = x] /\ ~Fresh(x) /\ x.pair = 0
                      /\ WorkOK(x, issued, granted)
  <2>1. CASE w.actor # "nobody" /\ SameOwner(w.actor, w.who)
    <3>1. w.actor \in Users /\ w.actor \in granted
      BY <1>1, <2>1 DEF SameOwner
    <3>2. /\ Authorize(w.actor, "authorized") \in Work
          /\ WorkOK(Authorize(w.actor, "authorized"), issued, granted)
          /\ Authorize(w.actor, "authorized").pair = 0 /\ ~Fresh(Authorize(w.actor, "authorized"))
      BY <3>1, AuthorizeFacts DEF Statuses
    <3> QED BY <2>1, <3>2 DEF UpsertAccount, Become
  <2>2. CASE ~(w.actor # "nobody" /\ SameOwner(w.actor, w.who))
    <3>1. proc' = [proc EXCEPT ![p] = Idle]
      BY <2>2 DEF UpsertAccount, End
    <3>2. ~Fresh(Idle) /\ Idle.pair = 0
      BY DEF Fresh, Idle
    <3> QED BY <3>1, <3>2, IdleFacts
  <2> QED BY <2>1, <2>2
<1>3. PairsMove
  BY <1>1 DEF PairsMove, IdentityInv
<1>4. \A u \in Users : /\ Keyed(row'[u]) /\ OwnPair(cred'[u], u, issued)
                       /\ row'[u].status = "authorized" => u \in granted'
  BY <1>1 DEF IdentityInv, IdentityTypeOK, AuthorizedByOwner, Keyed
<1>5. /\ row' \in [Users -> AccessRows] /\ cred' \in [Users -> 0 .. MaxTokens]
      /\ valid' \subseteq 1 .. MaxTokens /\ expired' \subseteq 1 .. MaxTokens
      /\ spoiled' \subseteq Users /\ granted \subseteq granted' /\ granted' \subseteq Users
  BY <1>1 DEF IdentityInv, IdentityTypeOK
<1>6. IdentityInv'
  BY <1>1, <1>2, <1>3, <1>4, <1>5, CliStays, IdentityFrame
<1> QED BY <1>1, <1>2, <1>6 DEF feishu

\* A handler writes the row it read, or marks it for the user who authorized.
LEMMA StoreMoves ==
    ASSUME IdentityInv, NEW p \in Procs, StoreMark(p) \/ StoreContact(p)
    PROVE  /\ IdentityInv'
           /\ proc' = [proc EXCEPT ![p] = Idle] /\ proc[p].pc = "store"
           /\ UNCHANGED <<cred, feishu, granted, spoiled>>
<1> DEFINE w == proc[p]
<1>1. /\ w \in Work /\ w.pc = "store" /\ w.who \in Users /\ w.copy \in AccessRows
      /\ Keyed(w.copy) /\ w.status \in Statuses
      /\ w.copy.status = "authorized" => w.who \in granted
      /\ w.status = "authorized" => w.who \in granted
      /\ proc' = [proc EXCEPT ![p] = Idle]
      /\ UNCHANGED <<cred, cli, issued, valid, expired, granted, spoiled>>
  BY WorkFacts DEF StoreMark, StoreContact, At, WorkOK, feishu, End
<1>2. \E r \in AccessRows : /\ Keyed(r) /\ (r.status = "authorized" => w.who \in granted)
                            /\ row' \in {row, [row EXCEPT ![w.who] = r]}
  <2>1. CASE StoreMark(p)
    <3>1. Marked(w.status) \in AccessRows /\ Keyed(Marked(w.status)) /\ Marked(w.status).status = w.status
      BY <1>1, RowFacts
    <3>2. row' \in {row, [row EXCEPT ![w.who] = Marked(w.status)]}
      BY <2>1 DEF StoreMark
    <3> QED BY <1>1, <3>1, <3>2
  <2>2. CASE StoreContact(p)
    <3> DEFINE status == IF w.copy.status \in {"absent", "none"} THEN "not_authorized"
                         ELSE w.copy.status
               r == [status |-> status, keyed |-> w.copy.keyed]
    <3>1. status \in Statuses /\ w.copy.keyed \in BOOLEAN
      BY <1>1, RowFacts DEF Statuses
    <3>2. r \in AccessRows
      BY <3>1 DEF AccessRows
    <3>3. Keyed(r)
      BY <1>1 DEF Keyed, Statuses
    <3>4. row' \in {row, [row EXCEPT ![w.who] = r]}
      BY <2>2 DEF StoreContact
    <3> QED BY <1>1, <3>2, <3>3, <3>4
  <2> QED BY <2>1, <2>2
<1>3. PairsMove
  BY <1>1 DEF PairsMove, IdentityInv
<1>4. \A u \in Users : /\ Keyed(row'[u]) /\ OwnPair(cred'[u], u, issued)
                       /\ row'[u].status = "authorized" => u \in granted'
  BY <1>1, <1>2 DEF IdentityInv, IdentityTypeOK, AuthorizedByOwner, Keyed
<1>5. /\ row' \in [Users -> AccessRows] /\ cred' \in [Users -> 0 .. MaxTokens]
      /\ valid' \subseteq 1 .. MaxTokens /\ expired' \subseteq 1 .. MaxTokens
      /\ spoiled' \subseteq Users /\ granted \subseteq granted' /\ granted' \subseteq Users
  BY <1>1, <1>2 DEF IdentityInv, IdentityTypeOK
<1>6. IdentityInv'
  BY <1>1, <1>3, <1>4, <1>5, IdleFacts, CliStays, IdentityFrame
<1> QED BY <1>1, <1>6 DEF feishu

----------------------------------------------------------------------------
(* Tokens: the steps keep IdentityInv. *)

\* An account is found by its owner, so the pair read is the owner's, and a tool
\* acts for its owner.
LEMMA FoundMoves ==
    ASSUME IdentityInv, NEW p \in Procs, NEW u \in Users,
           ToolCall(p, u) \/ Discover(p, u) \/ AdminRefresh(p, u)
    PROVE  /\ \E x \in Work : /\ proc' = [proc EXCEPT ![p] = x] /\ ~Fresh(x) /\ x.pair = cred[u]
                              /\ WorkOK(x, issued, granted)
           /\ proc[p].pc = "idle"
           /\ UNCHANGED <<row, cred, cli, feishu, granted, spoiled>>
<1> DEFINE Reading(w, pc) == [w EXCEPT !.who = u, !.pair = cred[u], !.pc = pc]
           tool == [Idle EXCEPT !.kind = "tool", !.actor = u]
           found == [Idle EXCEPT !.kind = "discovery"]
           admin == [Idle EXCEPT !.pc = "refresh", !.kind = "admin", !.who = u, !.pair = cred[u]]
           pc == IF cred[u] \in expired THEN "refresh" ELSE "use"
<1>1. cred[u] \in 0 .. MaxTokens /\ OwnPair(cred[u], u, issued)
  BY DEF IdentityInv, IdentityTypeOK
<1>2. Keyed(Absent) /\ Absent.status = "absent" /\ pc \in {"refresh", "use"}
  BY RowFacts
<1>3. CASE ToolCall(p, u)
  <2> DEFINE x == Reading(tool, pc)
  <2>1. proc' = [proc EXCEPT ![p] = x] /\ row[u].status = "authorized"
    BY <1>3 DEF ToolCall, Permitted, Matched, Found, Become
  <2>2. u \in granted
    BY <2>1 DEF IdentityInv, AuthorizedByOwner
  <2>3. x \in Work
    BY <1>1, IdleFacts DEF Idle, Work, Kinds
  <2>4. /\ x.pc = pc /\ x.who = u /\ x.pair = cred[u] /\ x.dirty = FALSE /\ x.copy = Absent
        /\ x.status = "not_authorized" /\ x.kind = "tool" /\ x.actor = u
    BY DEF Idle
  <2> HIDE DEF x
  <2>5. WorkOK(x, issued, granted) /\ ~Fresh(x)
    BY <1>1, <1>2, <2>2, <2>4 DEF WorkOK, Fresh
  <2> QED BY <1>3, <2>1, <2>3, <2>4, <2>5 DEF ToolCall, At
<1>4. CASE Discover(p, u)
  <2> DEFINE x == Reading(found, pc)
  <2>1. proc' = [proc EXCEPT ![p] = x]
    BY <1>4 DEF Discover, Found, Become
  <2>2. x \in Work
    BY <1>1, IdleFacts DEF Idle, Work, Kinds
  <2>3. /\ x.pc = pc /\ x.who = u /\ x.pair = cred[u] /\ x.dirty = FALSE /\ x.copy = Absent
        /\ x.status = "not_authorized" /\ x.kind = "discovery"
    BY DEF Idle
  <2> HIDE DEF x
  <2>4. WorkOK(x, issued, granted) /\ ~Fresh(x)
    BY <1>1, <1>2, <2>3 DEF WorkOK, Fresh
  <2> QED BY <1>4, <2>1, <2>2, <2>3, <2>4 DEF Discover, At
<1>5. CASE AdminRefresh(p, u)
  <2>1. proc' = [proc EXCEPT ![p] = admin]
    BY <1>5 DEF AdminRefresh, Begin
  <2>2. admin \in Work
    BY <1>1, IdleFacts DEF Idle, Work, Kinds
  <2>3. /\ admin.pc = "refresh" /\ admin.who = u /\ admin.pair = cred[u] /\ admin.dirty = FALSE
        /\ admin.copy = Absent /\ admin.status = "not_authorized" /\ admin.kind = "admin"
    BY DEF Idle
  <2> HIDE DEF admin
  <2>4. WorkOK(admin, issued, granted) /\ ~Fresh(admin)
    BY <1>1, <1>2, <2>3 DEF WorkOK, Fresh
  <2> QED BY <1>5, <2>1, <2>2, <2>3, <2>4 DEF AdminRefresh, Begin, At
<1> QED BY <1>3, <1>4, <1>5

\* lark-cli is called for an actor who is marked.
LEMMA CliCallMoves ==
    ASSUME IdentityInv, NEW p \in Procs, NEW u \in Users, CliCall(p, u)
    PROVE  /\ \E x \in Work : /\ proc' = [proc EXCEPT ![p] = x] /\ ~Fresh(x) /\ x.pair = 0
                              /\ WorkOK(x, issued, granted)
           /\ proc[p].pc = "idle"
           /\ UNCHANGED <<row, cred, cli, feishu, granted, spoiled>>
<1> DEFINE x == [Idle EXCEPT !.pc = "use", !.kind = "cli", !.who = u, !.actor = u]
<1>1. u \in granted
  BY DEF CliCall, Permitted, IdentityInv, AuthorizedByOwner
<1>2. x \in Work
  BY IdleFacts DEF Idle, Work, Kinds
<1>3. /\ x.pc = "use" /\ x.who = u /\ x.actor = u /\ x.pair = 0 /\ x.dirty = FALSE
      /\ x.copy = Absent /\ x.status = "not_authorized" /\ x.kind = "cli"
  BY DEF Idle
<1>4. proc' = [proc EXCEPT ![p] = x]
  BY DEF CliCall, Begin
<1> HIDE DEF x
<1>5. WorkOK(x, issued, granted) /\ ~Fresh(x)
  BY <1>1, <1>3, RowFacts DEF WorkOK, OwnPair, Fresh
<1> QED BY <1>2, <1>3, <1>4, <1>5 DEF CliCall, Begin, At

\* A refresh uses up the pair it carries; its answer holds the next one, of the same user.
LEMMA RefreshMoves ==
    ASSUME IdentityInv, NEW p \in Procs, Refresh(p)
    PROVE  /\ IdentityInv'
           /\ proc[p].pc = "refresh" /\ proc[p].pair \in valid /\ proc[p].who \in Users
           /\ valid' = (valid \ {proc[p].pair}) \cup {NextPair}
           /\ UNCHANGED <<row, cred, expired, granted>>
           /\ \/ /\ proc' = [proc EXCEPT ![p] = [@ EXCEPT !.pc = "flush", !.pair = NextPair]]
                 /\ spoiled' = spoiled
              \/ /\ proc' = [proc EXCEPT ![p] = Idle]
                 /\ spoiled' = spoiled \cup {proc[p].who}
<1> DEFINE w == proc[p]
           x == [w EXCEPT !.pc = "flush", !.pair = NextPair]
<1>1. /\ issued \in Seq(Users) /\ NextPair = Len(issued) + 1 /\ NextPair \in Nat
      /\ NextPair <= MaxTokens /\ NextPair # 0 /\ NextPair \in 0 .. MaxTokens
  BY IdentityAssumption DEF Refresh, Issue, NextPair, IdentityInv, IdentityTypeOK
<1>2. /\ w \in Work /\ w.pc = "refresh" /\ w.who \in Users /\ w.pair \in valid
      /\ WorkOK(w, issued, granted)
      /\ issued' = Append(issued, w.who)
      /\ valid' = (valid \ {w.pair}) \cup {NextPair}
      /\ UNCHANGED <<row, cred, cli, expired, granted>>
  BY WorkFacts DEF Refresh, Issue, At, WorkOK
<1>3. \/ proc' = [proc EXCEPT ![p] = x] /\ spoiled' = spoiled
      \/ proc' = [proc EXCEPT ![p] = Idle] /\ spoiled' = spoiled \cup {w.who}
  BY <1>1 DEF Refresh, Become, End, Merged
<1>4. PairsMove
  BY <1>1, <1>2, AppendProperties DEF PairsMove
<1>5. x \in Work
  BY <1>1, <1>2 DEF Work
<1>6. WorkOK(x, issued', granted')
  <2>1. OwnPair(NextPair, w.who, issued')
    BY <1>1, <1>2, AppendProperties DEF OwnPair
  <2>2. /\ x.pc = "flush" /\ x.who = w.who /\ x.pair = NextPair /\ x.dirty = w.dirty
        /\ x.copy = w.copy /\ x.status = w.status /\ x.kind = w.kind /\ x.actor = w.actor
    BY <1>2 DEF Work
  <2> HIDE DEF x
  <2> QED BY <1>2, <2>1, <2>2 DEF WorkOK
<1>7. \A u \in Users : /\ Keyed(row'[u]) /\ OwnPair(cred'[u], u, issued)
                       /\ row'[u].status = "authorized" => u \in granted'
  BY <1>2 DEF IdentityInv, IdentityTypeOK, AuthorizedByOwner, Keyed
<1>8. /\ row' \in [Users -> AccessRows] /\ cred' \in [Users -> 0 .. MaxTokens]
      /\ valid' \subseteq 1 .. MaxTokens /\ expired' \subseteq 1 .. MaxTokens
      /\ spoiled' \subseteq Users /\ granted \subseteq granted' /\ granted' \subseteq Users
  BY <1>1, <1>2, <1>3 DEF IdentityInv, IdentityTypeOK
<1>9. IdentityInv'
  <2> HIDE DEF x
  <2> QED BY <1>2, <1>3, <1>4, <1>5, <1>6, <1>7, <1>8, IdleFacts, CliStays, IdentityFrame
<1> QED BY <1>1, <1>2, <1>3, <1>9

\* The steps of a handler that leave rows, tokens and history alone, but may give up.
LEMMA GiveUpMoves ==
    ASSUME IdentityInv, NEW p \in Procs, RefreshFails(p) \/ RefreshRefused(p) \/ Abort(p)
    PROVE  /\ IdentityInv'
           /\ UNCHANGED <<row, cred, feishu, granted>>
           /\ spoiled \subseteq spoiled'
           /\ Fresh(proc[p]) => proc[p].pc = "upsert" \/ proc[p].who \in spoiled'
           /\ \/ proc' = [proc EXCEPT ![p] = Idle]
              \/ /\ proc' = [proc EXCEPT ![p].pc = "flush"] /\ proc[p].who \in spoiled'
                 /\ proc[p].pc = "refresh"
<1> DEFINE w == proc[p]
           x == [w EXCEPT !.pc = "flush"]
<1>1. w \in Work /\ WorkOK(w, issued, granted) /\ w.pc # "idle" /\ w.who \in Users
  BY WorkFacts DEF RefreshFails, RefreshRefused, Abort, At, WorkOK
<1>2. /\ UNCHANGED <<row, cred, cli, feishu, granted>>
      /\ spoiled' \in {spoiled, spoiled \cup {w.who}}
  BY DEF RefreshFails, RefreshRefused, Abort
<1>3. \/ proc' = [proc EXCEPT ![p] = Idle]
      \/ proc' = [proc EXCEPT ![p] = x] /\ w.pc = "refresh" /\ spoiled' = spoiled \cup {w.who}
  <2>1. [w EXCEPT !.pc = "flush", !.pair = w.pair] = x
    BY <1>1 DEF Work
  <2> QED BY <2>1 DEF RefreshFails, RefreshRefused, Abort, End, Become, Merged, At
<1>4. Fresh(w) => w.pc = "upsert" \/ w.who \in spoiled'
  BY <1>1 DEF RefreshFails, RefreshRefused, Abort, At, Fresh, WorkOK
<1>5. w.pc = "refresh" => x \in Work /\ WorkOK(x, issued, granted)
  BY <1>1 DEF Work, WorkOK
<1>6. IdentityInv'
  <2>1. spoiled' \subseteq Users /\ granted \subseteq granted' /\ granted' \subseteq Users
    BY <1>1, <1>2 DEF IdentityInv, IdentityTypeOK
  <2> HIDE DEF x
  <2> QED BY <1>2, <1>3, <1>5, <2>1, IdleFacts, CliStays, WorkOnly
<1> QED BY <1>1, <1>2, <1>3, <1>4, <1>6

\* The flush and the use of a token.
LEMMA FlushMoves ==
    ASSUME IdentityInv, NEW p \in Procs, Flush(p) \/ Use(p)
    PROVE  /\ IdentityInv'
           /\ UNCHANGED <<row, cred, feishu, granted, spoiled>>
           /\ \/ ~Fresh(proc[p]) /\ proc' = [proc EXCEPT ![p] = Idle]
              \/ /\ Fresh(proc[p]) /\ proc[p].pc # "upsert"
                 /\ \E pc \in {"use", "end"} :
                      proc' = [proc EXCEPT ![p] = [@ EXCEPT !.pc = pc, !.dirty = TRUE]]
<1> DEFINE w == proc[p]
           X(pc) == [w EXCEPT !.pc = pc, !.dirty = TRUE]
<1>1. w \in Work /\ WorkOK(w, issued, granted) /\ w.who \in Users /\ w.pc \in {"flush", "use"}
  BY WorkFacts DEF Flush, Use, At, WorkOK
<1>2. UNCHANGED <<row, cred, cli, feishu, granted, spoiled>>
  BY DEF Flush, Use
<1>3. \/ ~Fresh(w) /\ proc' = [proc EXCEPT ![p] = Idle]
      \/ Fresh(w) /\ \E pc \in {"use", "end"} : proc' = [proc EXCEPT ![p] = X(pc)]
  <2>1. CASE Flush(p)
    <3>1. \E pc \in {"use", "end"} : proc' = [proc EXCEPT ![p] = X(pc)]
      <4>1. [w EXCEPT !.dirty = TRUE, !.pc = IF w.kind = "admin" THEN "end" ELSE "use"]
              = X(IF w.kind = "admin" THEN "end" ELSE "use")
        BY <1>1 DEF Work
      <4> QED BY <2>1, <4>1 DEF Flush, Become
    <3> QED BY <2>1, <3>1 DEF Flush, At, Fresh
  <2>2. CASE Use(p) /\ w.dirty
    <3>1. [w EXCEPT !.pc = "end"] = X("end")
      <4>1. w.dirty = TRUE
        BY <1>1, <2>2 DEF Work
      <4> QED BY <1>1, <4>1 DEF Work
    <3> QED BY <2>2, <3>1 DEF Use, Become, Fresh
  <2>3. CASE Use(p) /\ ~w.dirty
    BY <2>3 DEF Use, End, Fresh, At
  <2> QED BY <2>1, <2>2, <2>3
<1>4. ASSUME NEW pc \in {"use", "end"} PROVE X(pc) \in Work /\ WorkOK(X(pc), issued, granted)
  BY <1>1 DEF Work, WorkOK
<1>5. IdentityInv'
  <2>1. spoiled' \subseteq Users /\ granted \subseteq granted' /\ granted' \subseteq Users
    BY <1>1, <1>2 DEF IdentityInv, IdentityTypeOK
  <2> HIDE DEF X
  <2> QED BY <1>2, <1>3, <1>4, <2>1, IdleFacts, CliStays, WorkOnly
<1> QED BY <1>1, <1>2, <1>3, <1>5

LEMMA CommitMoves ==
    ASSUME IdentityInv, NEW p \in Procs, Commit(p)
    PROVE  /\ IdentityInv'
           /\ proc[p].dirty /\ proc[p].who \in Users
           /\ proc' = [proc EXCEPT ![p] = Idle]
           /\ cred' = [cred EXCEPT ![proc[p].who] = proc[p].pair]
           /\ UNCHANGED <<row, feishu, granted, spoiled>>
<1> DEFINE w == proc[p]
<1>1. /\ w \in Work /\ w.pc = "end" /\ w.who \in Users /\ w.dirty
      /\ w.pair \in 0 .. MaxTokens /\ OwnPair(w.pair, w.who, issued)
      /\ cred' = [cred EXCEPT ![w.who] = w.pair]
      /\ proc' = [proc EXCEPT ![p] = Idle]
      /\ UNCHANGED <<row, cli, issued, valid, expired, granted, spoiled>>
  BY WorkFacts DEF Commit, At, WorkOK, feishu, End
<1>2. PairsMove
  BY <1>1 DEF PairsMove, IdentityInv
<1>3. \A u \in Users : /\ Keyed(row'[u]) /\ OwnPair(cred'[u], u, issued)
                       /\ row'[u].status = "authorized" => u \in granted'
  BY <1>1 DEF IdentityInv, IdentityTypeOK, AuthorizedByOwner, Keyed
<1>4. /\ row' \in [Users -> AccessRows] /\ cred' \in [Users -> 0 .. MaxTokens]
      /\ valid' \subseteq 1 .. MaxTokens /\ expired' \subseteq 1 .. MaxTokens
      /\ spoiled' \subseteq Users /\ granted \subseteq granted' /\ granted' \subseteq Users
  BY <1>1 DEF IdentityInv, IdentityTypeOK
<1>5. IdentityInv'
  BY <1>1, <1>2, <1>3, <1>4, IdleFacts, CliStays, IdentityFrame
<1> QED BY <1>1, <1>5 DEF feishu

----------------------------------------------------------------------------
(* Stored tokens: the steps keep FreshIsUnique and StoredTokenIsLive. *)

\* What stands for a stored pair that Feishu no longer accepts.
Replacing(w, u) == (w.pc = "flush" \/ w.dirty) /\ w.who = u /\ w.pair \in valid

\* A step that neither stores a pair nor is answered with one.
LEMMA TokenFrame ==
    ASSUME TokenInv, IdentityInv', NEW p \in Procs, NEW x \in Work,
           proc' = [proc EXCEPT ![p] = x],
           cred' = cred, valid' = valid, spoiled \subseteq spoiled',
           \/ ~Fresh(proc[p]) \/ proc[p].pc = "upsert" \/ proc[p].who \in spoiled'
           \/ /\ x.pc = "flush" \/ x.dirty
              /\ x.pair = proc[p].pair /\ x.who = proc[p].who,
           \/ ~Fresh(x) \/ x.who \in spoiled'
           \/ Fresh(proc[p]) /\ x.pair = proc[p].pair /\ x.who = proc[p].who,
           x.pair = 0 \/ x.pair = proc[p].pair \/ \E u \in Users : x.pair = cred[u]
    PROVE  TokenInv'
<1>1. /\ \A q \in Procs : proc'[q] = IF q = p THEN x ELSE proc[q]
      /\ proc[p] \in Work /\ (proc[p].pc = "upsert" => ~proc[p].dirty)
      /\ valid \subseteq 1 .. MaxTokens /\ 0 \notin valid
  <2>1. proc[p] \in Work /\ WorkOK(proc[p], issued, granted)
    BY WorkFacts DEF TokenInv
  <2>2. proc \in [Procs -> Work] /\ valid \subseteq 1 .. MaxTokens
    BY DEF TokenInv, IdentityInv, IdentityTypeOK
  <2>3. \A q \in Procs : proc'[q] = IF q = p THEN x ELSE proc[q]
    BY <2>2
  <2>4. proc[p].pc = "upsert" => ~proc[p].dirty
    BY <2>1 DEF WorkOK
  <2> QED BY <2>1, <2>2, <2>3, <2>4, IdentityAssumption
<1>2. FreshIsUnique'
  <2> SUFFICES ASSUME NEW q \in Procs, Fresh(proc'[q]), proc'[q].who \notin spoiled'
               PROVE  /\ proc'[q].pair \in valid
                      /\ \A v \in Users : cred[v] # proc'[q].pair
                      /\ \A r \in Procs \ {q} : proc'[r].pair # proc'[q].pair
    BY DEF FreshIsUnique
  <2>1. /\ Fresh(proc[q]) /\ proc[q].who = proc'[q].who /\ proc[q].pair = proc'[q].pair
    BY <1>1
  <2>2. /\ proc[q].pair \in valid
        /\ \A v \in Users : cred[v] # proc[q].pair
        /\ \A r \in Procs \ {q} : proc[r].pair # proc[q].pair
    BY <2>1 DEF TokenInv, FreshIsUnique
  <2>3. q # p => x.pair # proc[q].pair
    BY <1>1, <2>2
  <2> QED BY <1>1, <2>1, <2>2, <2>3
<1>3. StoredTokenIsLive'
  <2> SUFFICES ASSUME NEW u \in Users, cred[u] # 0, u \notin spoiled', cred[u] \notin valid
               PROVE  \E q \in Procs : Replacing(proc'[q], u)
    BY DEF StoredTokenIsLive, At, Replacing
  <2>1. PICK q \in Procs : Replacing(proc[q], u)
    BY DEF TokenInv, StoredTokenIsLive, At, Replacing
  <2>2. CASE q = p
    <3>1. Replacing(x, u)
      BY <1>1, <2>1, <2>2 DEF Replacing, Fresh
    <3> QED BY <1>1, <3>1
  <2>3. CASE q # p
    BY <1>1, <2>1, <2>3
  <2> QED BY <2>2, <2>3
<1> QED BY <1>2, <1>3 DEF TokenInv

\* A step of no handler that touches neither the tokens nor Feishu's view of them.
LEMMA TokensKept ==
    ASSUME TokenInv, IdentityInv', UNCHANGED <<cred, valid, proc, spoiled>>
    PROVE  TokenInv'
BY DEF TokenInv, FreshIsUnique, StoredTokenIsLive, At

\* The next pair is known to nobody yet.
LEMMA NextPairIsNew ==
    ASSUME IdentityInv
    PROVE  /\ \A v \in Users : cred[v] # NextPair
           /\ \A q \in Procs : proc[q].pair # NextPair
           /\ NextPair # 0
<1>1. NextPair = Len(issued) + 1 /\ Len(issued) \in Nat
  BY DEF NextPair, IdentityInv, IdentityTypeOK
<1>2. \A n, v : OwnPair(n, v, issued) => n # NextPair
  BY <1>1 DEF OwnPair
<1> QED BY <1>1, <1>2 DEF IdentityInv, WorkOK

LEMMA CallbackTokens ==
    ASSUME TokenInv, NEW p \in Procs, NEW u \in Users \cup {"nobody"}, NEW v \in Users,
           Callback(p, u, v)
    PROVE  TokenInv'
<1>1. IdentityInv /\ IdentityInv'
  BY CallbackMoves DEF TokenInv
<1>2. PICK x \in Work : /\ proc' = [proc EXCEPT ![p] = x]
                        /\ x.who = v /\ x.pair = NextPair /\ x.pc = "upsert"
  BY <1>1, CallbackMoves
<1>3. /\ proc[p].pc = "idle" /\ valid' = valid \cup {NextPair}
      /\ UNCHANGED <<cred, spoiled>>
      /\ \A q \in Procs : proc'[q] = IF q = p THEN x ELSE proc[q]
      /\ ~proc[p].dirty
  BY <1>1, <1>2, CallbackMoves, WorkFacts DEF IdentityInv, IdentityTypeOK, WorkOK
<1>4. FreshIsUnique'
  BY <1>1, <1>2, <1>3, NextPairIsNew DEF TokenInv, FreshIsUnique, Fresh
<1>5. StoredTokenIsLive'
  BY <1>3 DEF TokenInv, StoredTokenIsLive, At
<1> QED BY <1>1, <1>4, <1>5 DEF TokenInv

\* The pair that the callback or the handler obtained is stored.
LEMMA StoredTokens ==
    ASSUME TokenInv, IdentityInv', NEW p \in Procs, NEW x \in Work,
           proc' = [proc EXCEPT ![p] = x], ~Fresh(x), x.pair = 0,
           Fresh(proc[p]), proc[p].who \in Users,
           cred' = [cred EXCEPT ![proc[p].who] = proc[p].pair],
           UNCHANGED <<valid, spoiled>>
    PROVE  TokenInv'
<1> DEFINE w == proc[p]
<1>1. /\ \A q \in Procs : proc'[q] = IF q = p THEN x ELSE proc[q]
      /\ \A u \in Users : cred'[u] = IF u = w.who THEN w.pair ELSE cred[u]
      /\ 0 \notin valid
  BY IdentityAssumption DEF TokenInv, IdentityInv, IdentityTypeOK
<1>2. FreshIsUnique'
  <2> SUFFICES ASSUME NEW q \in Procs \ {p}, Fresh(proc[q]), proc[q].who \notin spoiled
               PROVE  /\ proc[q].pair \in valid
                      /\ \A v \in Users : cred'[v] # proc[q].pair
                      /\ \A r \in Procs \ {q} : proc'[r].pair # proc[q].pair
    BY <1>1 DEF FreshIsUnique
  <2>1. /\ proc[q].pair \in valid
        /\ \A v \in Users : cred[v] # proc[q].pair
        /\ \A r \in Procs \ {q} : proc[r].pair # proc[q].pair
    BY DEF TokenInv, FreshIsUnique
  <2> QED BY <1>1, <2>1
<1>3. StoredTokenIsLive'
  <2> SUFFICES ASSUME NEW u \in Users, cred'[u] # 0, u \notin spoiled, cred'[u] \notin valid
               PROVE  \E q \in Procs : Replacing(proc'[q], u)
    BY DEF StoredTokenIsLive, At, Replacing
  <2>1. u # w.who
    BY <1>1 DEF TokenInv, FreshIsUnique
  <2>2. PICK q \in Procs : Replacing(proc[q], u)
    BY <1>1, <2>1 DEF TokenInv, StoredTokenIsLive, At, Replacing
  <2> QED BY <1>1, <2>1, <2>2 DEF Replacing
<1> QED BY <1>2, <1>3 DEF TokenInv

\* The pair used up is nobody's fresh pair, and the handler that got the next one
\* stands for whatever was stored, or its answer was lost.
LEMMA RefreshTokens ==
    ASSUME TokenInv, NEW p \in Procs, Refresh(p)
    PROVE  TokenInv'
<1> DEFINE w == proc[p]
           x == [w EXCEPT !.pc = "flush", !.pair = NextPair]
<1>1. IdentityInv /\ IdentityInv'
  BY RefreshMoves DEF TokenInv
<1>2. /\ w \in Work /\ w.pc = "refresh" /\ w.pair \in valid /\ w.who \in Users /\ ~w.dirty
      /\ valid' = (valid \ {w.pair}) \cup {NextPair} /\ cred' = cred
      /\ \/ proc' = [proc EXCEPT ![p] = x] /\ spoiled' = spoiled
         \/ proc' = [proc EXCEPT ![p] = Idle] /\ spoiled' = spoiled \cup {w.who}
  BY <1>1, RefreshMoves, WorkFacts DEF WorkOK
<1>3. PICK y \in {x, Idle} : /\ proc' = [proc EXCEPT ![p] = y]
                             /\ y = x \/ (y = Idle /\ w.who \in spoiled')
  BY <1>2
<1>4. /\ \A q \in Procs : proc'[q] = IF q = p THEN y ELSE proc[q]
      /\ spoiled \subseteq spoiled' /\ 0 \notin valid /\ w.pair # 0
  BY <1>1, <1>2, <1>3, IdentityAssumption DEF IdentityInv, IdentityTypeOK
<1>5. /\ x.pc = "flush" /\ x.who = w.who /\ x.pair = NextPair
      /\ Idle.pair = 0 /\ ~Fresh(Idle) /\ y.pair \in {0, NextPair}
  <2>1. x.pc = "flush" /\ x.who = w.who /\ x.pair = NextPair
    BY <1>2 DEF Work
  <2>2. Idle.pair = 0 /\ ~Fresh(Idle)
    BY DEF Idle, Fresh
  <2> QED BY <1>3, <2>1, <2>2
<1> HIDE DEF x
<1>6. FreshIsUnique'
  <2> SUFFICES ASSUME NEW q \in Procs, Fresh(proc'[q]), proc'[q].who \notin spoiled'
               PROVE  /\ proc'[q].pair \in valid'
                      /\ \A v \in Users : cred[v] # proc'[q].pair
                      /\ \A r \in Procs \ {q} : proc'[r].pair # proc'[q].pair
    BY <1>2 DEF FreshIsUnique
  <2>1. CASE q = p
    BY <1>1, <1>2, <1>3, <1>4, <1>5, <2>1, NextPairIsNew
  <2>2. CASE q # p
    <3>1. /\ Fresh(proc[q]) /\ proc[q].who \notin spoiled /\ proc'[q] = proc[q]
      BY <1>4, <2>2
    <3>2. /\ proc[q].pair \in valid
          /\ \A v \in Users : cred[v] # proc[q].pair
          /\ \A r \in Procs \ {q} : proc[r].pair # proc[q].pair
      BY <3>1 DEF TokenInv, FreshIsUnique
    <3>3. proc[q].pair # w.pair /\ proc[q].pair # NextPair /\ proc[q].pair # 0
      BY <1>1, <1>4, <2>2, <3>2, NextPairIsNew
    <3> QED BY <1>2, <1>4, <1>5, <2>2, <3>1, <3>2, <3>3
  <2> QED BY <2>1, <2>2
<1>7. StoredTokenIsLive'
  <2> SUFFICES ASSUME NEW u \in Users, cred[u] # 0, u \notin spoiled', cred[u] \notin valid'
               PROVE  \E q \in Procs : Replacing(proc[q], u)'
    BY <1>2 DEF StoredTokenIsLive, At, Replacing
  <2>1. CASE u = w.who
    BY <1>2, <1>3, <1>4, <1>5, <2>1 DEF Replacing
  <2>2. CASE u # w.who
    <3>1. \A n : OwnPair(n, u, issued) /\ n # 0 => n # w.pair
      BY <1>1, <1>4, <2>2, WorkFacts DEF WorkOK, OwnPair
    <3>2. cred[u] \notin valid
      BY <1>1, <1>2, <3>1 DEF IdentityInv
    <3>3. PICK q \in Procs : Replacing(proc[q], u)
      BY <1>4, <3>2 DEF TokenInv, StoredTokenIsLive, At, Replacing
    <3>4. q # p /\ proc'[q] = proc[q]
      BY <1>4, <2>2, <3>3 DEF Replacing
    <3>5. OwnPair(proc[q].pair, u, issued) /\ proc[q].pair # 0
      BY <1>1, <1>4, <3>3, WorkFacts DEF WorkOK, Replacing
    <3> QED BY <1>2, <3>1, <3>3, <3>4, <3>5 DEF Replacing
  <2> QED BY <2>1, <2>2
<1> QED BY <1>1, <1>6, <1>7 DEF TokenInv

\* Feishu withdraws the pairs of one user, who counts as spoiled from then on.
LEMMA WithdrawTokens ==
    ASSUME TokenInv, IdentityInv', NEW u \in Users, Withdraw(u)
    PROVE  TokenInv'
<1>1. /\ valid' = valid \ PairsOf(u) /\ spoiled' = spoiled \cup {u}
      /\ UNCHANGED <<cred, proc>> /\ 0 \notin valid
  BY IdentityAssumption DEF Withdraw, TokenInv, IdentityInv, IdentityTypeOK
<1>2. \A n, v : OwnPair(n, v, issued) /\ v # u => n \notin PairsOf(u) \/ n = 0
  BY DEF OwnPair, PairsOf
<1>3. FreshIsUnique'
  <2> SUFFICES ASSUME NEW q \in Procs, Fresh(proc[q]), proc[q].who \notin spoiled'
               PROVE  /\ proc[q].pair \in valid'
                      /\ \A v \in Users : cred[v] # proc[q].pair
                      /\ \A r \in Procs \ {q} : proc[r].pair # proc[q].pair
    BY <1>1 DEF FreshIsUnique
  <2>1. OwnPair(proc[q].pair, proc[q].who, issued)
    BY WorkFacts DEF TokenInv, WorkOK
  <2> QED BY <1>1, <1>2, <2>1 DEF TokenInv, FreshIsUnique
<1>4. StoredTokenIsLive'
  <2> SUFFICES ASSUME NEW v \in Users, cred[v] # 0, v \notin spoiled', cred[v] \notin valid'
               PROVE  \E q \in Procs : Replacing(proc[q], v)'
    BY <1>1 DEF StoredTokenIsLive, At, Replacing
  <2>1. v # u /\ cred[v] \notin valid
    BY <1>1, <1>2 DEF TokenInv, IdentityInv
  <2>2. PICK q \in Procs : Replacing(proc[q], v)
    BY <1>1, <2>1 DEF TokenInv, StoredTokenIsLive, At, Replacing
  <2>3. OwnPair(proc[q].pair, v, issued)
    BY <2>2, WorkFacts DEF TokenInv, WorkOK, Replacing
  <2> QED BY <1>1, <1>2, <2>1, <2>2, <2>3 DEF Replacing
<1> QED BY <1>3, <1>4 DEF TokenInv

----------------------------------------------------------------------------
(* The theorems. *)

LEMMA TokenInit == Init => TokenInv
<1> SUFFICES ASSUME Init PROVE TokenInv
  OBVIOUS
<1>1. IdentityTypeOK
  BY IdleFacts, RowFacts, IdentityAssumption DEF Init, IdentityTypeOK, Statuses
<1>2. Len(issued) <= MaxTokens /\ AuthorizedByOwner /\ \A u \in Users : OwnPair(cred[u], u, issued)
  BY RowFacts, IdentityAssumption DEF Init, AuthorizedByOwner, OwnPair
<1>3. \A p \in Procs : WorkOK(proc[p], issued, granted) /\ ~Fresh(proc[p])
  BY IdleFacts DEF Init, Idle, Fresh
<1>4. StoredTokenIsLive
  BY DEF Init, StoredTokenIsLive
<1>5. CliOK
  BY DEF Init, CliOK
<1> QED BY <1>1, <1>2, <1>3, <1>4, <1>5 DEF TokenInv, IdentityInv, FreshIsUnique

LEMMA RequestInv ==
    ASSUME TokenInv, NEW p \in Procs, Request(p)
    PROVE  TokenInv'
<1>1. IdentityInv /\ ~Fresh(Idle)
  BY DEF TokenInv, Fresh, Idle
<1>2. ASSUME NEW x \in Work, proc' = [proc EXCEPT ![p] = x], ~Fresh(x),
             x.pair = 0 \/ \E u \in Users : x.pair = cred[u],
             WorkOK(x, issued, granted'), granted \subseteq granted', granted' \subseteq Users,
             proc[p].pc = "idle", CliOK', UNCHANGED <<row, cred, feishu, spoiled>>
      PROVE TokenInv'
  <2>1. spoiled' \subseteq Users
    BY <1>2 DEF TokenInv, IdentityInv, IdentityTypeOK
  <2>2. IdentityInv'
    BY <1>1, <1>2, <2>1, WorkOnly
  <2>3. ~Fresh(proc[p])
    BY <1>1, <1>2, WorkFacts DEF WorkOK, Fresh
  <2> QED BY <1>2, <2>2, <2>3, TokenFrame DEF feishu
<1>3. granted \subseteq Users
  BY DEF TokenInv, IdentityInv, IdentityTypeOK
<1>4. ASSUME NEW u \in Users, CliStart(p, u) \/ MailCallback(p, u) \/ Contacts(p, u)
      PROVE TokenInv'
  BY <1>1, <1>2, <1>3, <1>4, CliStays, BeginMoves
<1>5. ASSUME NEW u \in Users, ToolCall(p, u) \/ Discover(p, u) \/ AdminRefresh(p, u)
      PROVE TokenInv'
  BY <1>1, <1>2, <1>3, <1>5, CliStays, FoundMoves
<1>6. ASSUME NEW u \in Users, NEW v \in Users, NEW named \in BOOLEAN, CliComplete(p, u, v, named)
      PROVE TokenInv'
  BY <1>1, <1>2, <1>6, CliCompleteMoves
<1>7. ASSUME NEW u \in Users, CliCall(p, u)
      PROVE TokenInv'
  BY <1>1, <1>2, <1>3, <1>7, CliStays, CliCallMoves
<1> QED BY <1>4, <1>5, <1>6, <1>7, CallbackTokens DEF Request

LEMMA StepInv ==
    ASSUME TokenInv, NEW p \in Procs, Step(p)
    PROVE  TokenInv'
<1>1. /\ IdentityInv /\ Idle \in Work /\ ~Fresh(Idle) /\ Idle.pair = 0
      /\ proc[p] \in Work /\ WorkOK(proc[p], issued, granted)
  BY IdleFacts, WorkFacts DEF TokenInv, Fresh, Idle
<1>2. CASE UpsertAccount(p)
  <2>1. Fresh(proc[p])
    BY <1>1, <1>2, UpsertMoves DEF Fresh
  <2> QED BY <1>1, <1>2, <2>1, UpsertMoves, StoredTokens DEF feishu
<1>3. CASE StoreMark(p) \/ StoreContact(p)
  <2>1. ~Fresh(proc[p])
    BY <1>1, <1>3, StoreMoves DEF Fresh, WorkOK
  <2> QED BY <1>1, <1>3, <2>1, StoreMoves, TokenFrame DEF feishu
<1>4. CASE RefreshFails(p) \/ RefreshRefused(p) \/ Abort(p)
  <2>1. /\ IdentityInv' /\ UNCHANGED <<cred, valid>> /\ spoiled \subseteq spoiled'
        /\ Fresh(proc[p]) => proc[p].pc = "upsert" \/ proc[p].who \in spoiled'
        /\ \/ proc' = [proc EXCEPT ![p] = Idle]
           \/ /\ proc' = [proc EXCEPT ![p].pc = "flush"] /\ proc[p].who \in spoiled'
              /\ proc[p].pc = "refresh"
    BY <1>1, <1>4, GiveUpMoves DEF feishu
  <2>2. CASE proc' = [proc EXCEPT ![p] = Idle]
    BY <1>1, <2>1, <2>2, TokenFrame
  <2>3. CASE proc' = [proc EXCEPT ![p].pc = "flush"] /\ proc[p].who \in spoiled'
    <3> DEFINE x == [proc[p] EXCEPT !.pc = "flush"]
    <3>1. x \in Work /\ x.who = proc[p].who /\ x.pair = proc[p].pair
      BY <1>1 DEF Work
    <3>2. proc' = [proc EXCEPT ![p] = x]
      BY <2>3
    <3> HIDE DEF x
    <3> QED BY <2>1, <2>3, <3>1, <3>2, TokenFrame
  <2> QED BY <2>1, <2>2, <2>3
<1>5. CASE Flush(p) \/ Use(p)
  <2>1. IdentityInv' /\ UNCHANGED <<cred, valid, spoiled>>
    BY <1>1, <1>5, FlushMoves DEF feishu
  <2>2. CASE ~Fresh(proc[p]) /\ proc' = [proc EXCEPT ![p] = Idle]
    BY <1>1, <2>1, <2>2, TokenFrame
  <2>3. ASSUME Fresh(proc[p]), NEW pc \in {"use", "end"},
               proc' = [proc EXCEPT ![p] = [@ EXCEPT !.pc = pc, !.dirty = TRUE]]
        PROVE TokenInv'
    <3> DEFINE x == [proc[p] EXCEPT !.pc = pc, !.dirty = TRUE]
    <3>1. x \in Work /\ x.who = proc[p].who /\ x.pair = proc[p].pair /\ x.dirty
      BY <1>1 DEF Work
    <3>2. proc' = [proc EXCEPT ![p] = x]
      BY <2>3
    <3> HIDE DEF x
    <3> QED BY <2>1, <2>3, <3>1, <3>2, TokenFrame
  <2> QED BY <1>1, <1>5, <2>2, <2>3, FlushMoves
<1>6. CASE Commit(p)
  <2>1. Fresh(proc[p])
    BY <1>1, <1>6, CommitMoves DEF Fresh
  <2> QED BY <1>1, <1>6, <2>1, CommitMoves, StoredTokens DEF feishu
<1> QED BY <1>2, <1>3, <1>4, <1>5, <1>6, RefreshTokens DEF Step

LEMMA SurroundingsInv ==
    ASSUME TokenInv, NEW u \in Users, Surroundings(u)
    PROVE  TokenInv'
<1>1. IdentityInv
  BY DEF TokenInv
<1>2. PairsOf(u) \subseteq 1 .. MaxTokens
  BY <1>1, IdentityAssumption DEF PairsOf, IdentityInv, IdentityTypeOK
<1>3. IdentityInv'
  <2>1. UNCHANGED <<cred, cli, issued, proc, granted>>
    BY DEF Surroundings, FirstMessage, upsert_bot_user_access, ExpireAccess, Withdraw, feishu
  <2>2. /\ row' \in [Users -> AccessRows]
        /\ \A v \in Users : Keyed(row'[v]) /\ (row'[v].status = "authorized" => v \in granted')
    <3> DEFINE R(s) == [status |-> s, keyed |-> FALSE]
    <3>1. \A s \in {"not_authorized", "none"} : R(s) \in AccessRows /\ Keyed(R(s)) /\ R(s).status = s
      BY DEF AccessRows, Statuses, Keyed
    <3>2. row' = row \/ \E s \in {"not_authorized", "none"} : row' = [row EXCEPT ![u] = R(s)]
      BY DEF Surroundings, FirstMessage, upsert_bot_user_access, ExpireAccess, Withdraw
    <3> HIDE DEF R
    <3>3. /\ row \in [Users -> AccessRows]
          /\ \A v \in Users : Keyed(row[v]) /\ (row[v].status = "authorized" => v \in granted')
      BY <1>1, <2>1 DEF IdentityInv, IdentityTypeOK, AuthorizedByOwner, Keyed
    <3> QED BY <3>1, <3>2, <3>3
  <2>3. /\ valid' \subseteq 1 .. MaxTokens /\ expired' \subseteq 1 .. MaxTokens
        /\ spoiled' \subseteq Users
    BY <1>1, <1>2 DEF Surroundings, FirstMessage, upsert_bot_user_access, ExpireAccess, Withdraw,
       feishu, IdentityInv, IdentityTypeOK
  <2>4. PairsMove
    BY <1>1, <2>1 DEF PairsMove, IdentityInv
  <2>5. /\ cred' \in [Users -> 0 .. MaxTokens] /\ granted' \subseteq Users
        /\ \A v \in Users : OwnPair(cred'[v], v, issued)
    BY <1>1, <2>1 DEF IdentityInv, IdentityTypeOK
  <2>6. CliOK'
    BY <1>1, <2>1, CliStays
  <2> QED BY <1>1, <2>1, <2>2, <2>3, <2>4, <2>5, <2>6, IdentityFrame
<1>4. CASE Withdraw(u)
  BY <1>3, <1>4, WithdrawTokens
<1>5. CASE FirstMessage(u) \/ upsert_bot_user_access(u) \/ ExpireAccess(u)
  BY <1>3, <1>5, TokensKept DEF FirstMessage, upsert_bot_user_access, ExpireAccess, feishu
<1> QED BY <1>4, <1>5 DEF Surroundings

LEMMA TokenNext == TokenInv /\ [Next]_vars => TokenInv'
<1> SUFFICES ASSUME TokenInv, [Next]_vars PROVE TokenInv'
  OBVIOUS
<1>1. CASE UNCHANGED vars
  <2>1. UNCHANGED <<row, cred, cli, issued, valid, expired, proc, granted, spoiled>>
    BY <1>1 DEF vars, feishu
  <2>2. IdentityInv'
    BY <2>1 DEF TokenInv, IdentityInv, IdentityTypeOK, AuthorizedByOwner, CliOK
  <2> QED BY <2>1, <2>2, TokensKept
<1> QED BY <1>1, RequestInv, StepInv, SurroundingsInv DEF Next

\* The types, and the key that decides whether a later mark of a row is written.
THEOREM IdentityTypes == Spec => []IdentityTypeOK
<1>1. TokenInv => IdentityTypeOK
  BY DEF TokenInv, IdentityInv
<1> QED BY <1>1, TokenInit, TokenNext, PTL DEF Spec

\* A row says authorized only for a user who authorized the application, whatever
\* copies of it other handlers store meanwhile (feishu_oauth_callback_payload,
\* complete_lark_cli_user_authorization, the contact sync).
THEOREM MarksAreOwn == Spec => []AuthorizedByOwner
<1>1. TokenInv => AuthorizedByOwner
  BY DEF TokenInv, IdentityInv
<1> QED BY <1>1, TokenInit, TokenNext, PTL DEF Spec

\* A personal call under way is made for a user who authorized the application; with
\* an account it holds that user's token, with lark-cli the token of whoever completed
\* a login last, who authorized it too (execute_agent_tool, the account lookups and
\* the lark-cli calls of feishu_mcp.py).
THEOREM CallsAreGranted == Spec => []PersonalCallsAreGranted
<1>1. TokenInv => PersonalCallsAreGranted
  <2> SUFFICES ASSUME TokenInv, NEW p \in Procs, Calling(p)
               PROVE  /\ proc[p].actor \in granted
                      /\ TokenOf(p) \in granted \cup {"nobody"}
                      /\ proc[p].kind = "tool" => TokenOf(p) = proc[p].actor
    BY DEF PersonalCallsAreGranted
  <2> QED BY DEF TokenInv, IdentityInv, WorkOK, CliOK, Calling, TokenOf
<1> QED BY <1>1, TokenInit, TokenNext, PTL DEF Spec

\* With any number of refreshes at once, a stored refresh token is accepted by
\* Feishu or its successor is on its way to be stored, unless something was lost,
\* withdrawn, or refreshed twice (refresh_feishu_user_account and its callers).
THEOREM TokensStayLive == Spec => []StoredTokenIsLive
<1>1. TokenInv => StoredTokenIsLive
  BY DEF TokenInv
<1> QED BY <1>1, TokenInit, TokenNext, PTL DEF Spec

=============================================================================

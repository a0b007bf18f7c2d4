------------------------ MODULE ApprovalCommandsProofs ------------------------
(* For every number of handlers, messages, approvals and prepared actions: the *)
(* text commands and the older card hand over only what their user confirmed,   *)
(* forget what is done, and leave an audit log that is complete and true.       *)
EXTENDS ApprovalCommands, FiniteSetTheorems, TLAPS

-----------------------------------------------------------------------------
(* The inductive invariant.  The properties speak of the pending key and of the *)
(* audit log; why they hold is in what each handler carries between two steps.   *)

\* What a handler holds in each of its phases.
Shape(p) ==
    /\ p.pc \in {"items", "fetch", "keep", "prepare"} <=> p.msg.kind \in {"prepare", "click"}
    /\ p.pc = "load" => p.msg.kind = "confirm"
    /\ p.pc \in {"drop", "call", "clear", "clear_context", "reply", "record"}
         <=> p.act # NoPending
    /\ p.rows # {} => p.pc \in {"drop", "clear", "clear_context", "reply", "record"}
    /\ \A r \in p.rows : r.id = p.act.id

\* C and S: the actions confirmed and succeeded; n: the next id; q: the pending
\* action.  An id names one action, in a handler as under the key.
Sound(p, C, S, n, q) ==
    /\ Shape(p)
    /\ p.act.id < n
    /\ p.pc = "call" => p.act.id \in C
    /\ \A r \in p.rows : r.status = "success" => r.id \in S
    /\ p.act.id = q.id => p.act = q

\* Ids that no handler and no key has seen are in no history.
HistoryIsOld ==
    /\ pending.id < nextId
    /\ \A i \in confirmed \cup submitted \cup succeeded \cup interrupted : i < nextId

\* Every message that may prepare an action has an id left for it.
Preparers == {h \in Handlers : Preparing(h)}
IdsSuffice ==
    /\ IsFiniteSet(Preparers)
    /\ nextId + Cardinality(Preparers) <= MaxActions + 1

\* A submission is in the log, in the rows its handler is about to commit, or was
\* interrupted: another handler that holds the same action is no witness.
RowsOfSubmissions ==
    \A i \in submitted :
        \/ \E r \in audit : r.id = i /\ r.status # "denied"
        \/ i \in interrupted
        \/ \E h \in Handlers : \E r \in proc[h].rows : r.id = i /\ r.status # "denied"

CommandInv ==
    /\ CommandTypeOK
    /\ \A h \in Handlers : Sound(proc[h], confirmed, succeeded, nextId, pending)
    /\ HistoryIsOld
    /\ IdsSuffice
    /\ RowsOfSubmissions
    /\ DoneIsForgotten
    /\ SuccessRowsAreTrue

-----------------------------------------------------------------------------
(* Facts about the operators. *)

LEMMA ListFacts ==
    /\ <<>> \in Lists
    /\ \A l \in Lists : l \in Seq(Tasks)
<1>1. Cardinality(Tasks) \in Nat
  BY CommandAssumption, FS_CardinalityType
<1>2. <<>> \in [1 .. 0 -> Tasks]
  OBVIOUS
<1>3. <<>> \in Lists
  BY <1>1, <1>2 DEF Lists
<1>4. ASSUME NEW l \in Lists PROVE l \in Seq(Tasks)
  <2>1. PICK n \in 0 .. Cardinality(Tasks) : l \in [1 .. n -> Tasks]
    BY <1>4 DEF Lists
  <2> QED BY <1>1, <2>1
<1> QED BY <1>3, <1>4

\* NoPending is nobody's action.
LEMMA PreparedFacts ==
    /\ \A a \in PreparedActions :
         a.id \in Ids /\ a.action \in Decisions /\ a.item \in Tasks /\ a # NoPending
    /\ NoPending.id = 0
    /\ NoPending \notin PreparedActions
<1>1. ASSUME NEW a \in PreparedActions
      PROVE a.id \in Ids /\ a.action \in Decisions /\ a.item \in Tasks /\ a.id # 0
  BY CommandAssumption DEF PreparedActions, Ids
<1> QED BY <1>1 DEF NoPending

LEMMA MessageFacts ==
    ASSUME NEW m \in Messages
    PROVE  /\ m.kind \in {"prepare", "click", "confirm"}
           /\ m.action \in Decisions
           /\ m.kind \in {"prepare", "click"} => m.row \in Rows
BY CommandAssumption DEF Commands

LEMMA IdleFacts ==
    /\ Idle \in Handling
    /\ \A C, S : \A n \in Nat \ {0} : \A q \in PreparedActions \cup {NoPending} : Sound(Idle, C, S, n, q)
<1>1. Idle \in Handling
  BY ListFacts DEF Idle, Handling
<1>2. ASSUME NEW C, NEW S, NEW n \in Nat \ {0}, NEW q \in PreparedActions \cup {NoPending}
      PROVE Sound(Idle, C, S, n, q)
  BY PreparedFacts, CommandAssumption DEF Sound, Shape, Idle, NoPending, Ids
<1> QED BY <1>1, <1>2

\* What a handler in each phase is known to hold.
LEMMA HandlerFacts ==
    ASSUME CommandInv, NEW h \in Handlers
    PROVE  /\ proc[h] \in Handling
           /\ Sound(proc[h], confirmed, succeeded, nextId, pending)
           /\ proc[h].msg \in Messages \cup {Idle.msg}
           /\ proc[h].items \in Lists
           /\ proc[h].act \in PreparedActions \cup {NoPending}
           /\ proc[h].rows \subseteq AuditRows
           /\ nextId \in Nat \ {0}
           /\ proc[h].act # NoPending => proc[h].act \in PreparedActions /\ proc[h].act.id \in Ids
<1>1. proc[h] \in Handling
  BY DEF CommandInv, CommandTypeOK
<1>2. /\ proc[h].msg \in Messages \cup {Idle.msg} /\ proc[h].items \in Lists
      /\ proc[h].act \in PreparedActions \cup {NoPending} /\ proc[h].rows \subseteq AuditRows
  BY <1>1 DEF Handling
<1> QED BY <1>1, <1>2, PreparedFacts, CommandAssumption DEF CommandInv, CommandTypeOK

-----------------------------------------------------------------------------
(* Framing.  A handler's soundness is kept by what other handlers do: history   *)
(* grows, and the key only ever loses its action or gets a new one.              *)

KeyMoves ==
    \/ pending' = pending /\ nextId' = nextId
    \/ pending' = NoPending /\ nextId' = nextId
    \/ pending'.id = nextId /\ nextId' = nextId + 1

LEMMA SoundIsStable ==
    ASSUME NEW p \in Handling, NEW C, NEW C1, NEW S, NEW S1, NEW n \in Nat, NEW n1 \in Nat,
           NEW q, NEW q1, Sound(p, C, S, n, q),
           C \subseteq C1, S \subseteq S1, n <= n1,
           q1 = q \/ q1 = NoPending \/ q1.id >= n, q1.id \in Nat
    PROVE  Sound(p, C1, S1, n1, q1)
<1>1. p.act \in PreparedActions \cup {NoPending} /\ p.act.id \in Nat
  BY PreparedFacts, CommandAssumption DEF Handling, Ids
<1>2. p.act.id = q1.id => p.act = q1
  BY <1>1, PreparedFacts DEF Sound, Ids
<1> QED BY <1>1, <1>2 DEF Sound

LEMMA OneHandlerMoves ==
    ASSUME CommandInv, NEW h \in Handlers, NEW x \in Handling,
           proc' = [proc EXCEPT ![h] = x], KeyMoves,
           pending' \in PreparedActions \cup {NoPending}, nextId' \in 1 .. MaxActions + 1,
           confirmed \subseteq confirmed', succeeded \subseteq succeeded',
           Sound(x, confirmed', succeeded', nextId', pending')
    PROVE  /\ proc' \in [Handlers -> Handling]
           /\ \A k \in Handlers : Sound(proc[k], confirmed, succeeded, nextId, pending)'
           /\ \A k \in Handlers : proc'[k] = IF k = h THEN x ELSE proc[k]
<1>1. proc \in [Handlers -> Handling] /\ nextId \in Nat
  BY CommandAssumption DEF CommandInv, CommandTypeOK
<1>2. nextId' \in Nat /\ nextId <= nextId' /\ pending'.id \in Nat
  BY <1>1, PreparedFacts, CommandAssumption DEF KeyMoves, Ids
<1>3. ASSUME NEW k \in Handlers PROVE Sound(proc'[k], confirmed', succeeded', nextId', pending')
  <2>1. CASE k = h
    BY <1>1, <2>1
  <2>2. CASE k # h
    <3>1. proc'[k] = proc[k] /\ proc[k] \in Handling
      BY <1>1, <2>2
    <3>2. Sound(proc[k], confirmed, succeeded, nextId, pending)
      BY DEF CommandInv
    <3>3. pending' = pending \/ pending' = NoPending \/ pending'.id >= nextId
      BY <1>1 DEF KeyMoves
    <3> QED BY <1>1, <1>2, <3>1, <3>2, <3>3, SoundIsStable
  <2> QED BY <2>1, <2>2
<1> QED BY <1>1, <1>3

\* How the ids left for the messages being prepared can change.
LEMMA PreparersKept ==
    ASSUME CommandInv, nextId' = nextId, Preparers' \subseteq Preparers
    PROVE  IdsSuffice'
<1>1. IsFiniteSet(Preparers') /\ Cardinality(Preparers') <= Cardinality(Preparers)
  BY FS_Subset DEF CommandInv, IdsSuffice
<1>2. Cardinality(Preparers) \in Nat /\ Cardinality(Preparers') \in Nat
  BY <1>1, FS_CardinalityType DEF CommandInv, IdsSuffice
<1> QED BY <1>1, <1>2, CommandAssumption DEF CommandInv, IdsSuffice, CommandTypeOK

LEMMA PreparerDone ==
    ASSUME CommandInv, NEW h \in Preparers, nextId' \in {nextId, nextId + 1},
           Preparers' = Preparers \ {h}
    PROVE  IdsSuffice' /\ nextId' \in 1 .. MaxActions + 1
<1>1. IsFiniteSet(Preparers') /\ Cardinality(Preparers') = Cardinality(Preparers) - 1
  BY FS_RemoveElement DEF CommandInv, IdsSuffice
<1>2. Cardinality(Preparers) \in Nat /\ Cardinality(Preparers') \in Nat
  BY <1>1, FS_CardinalityType DEF CommandInv, IdsSuffice
<1> QED BY <1>1, <1>2, CommandAssumption DEF CommandInv, IdsSuffice, CommandTypeOK

LEMMA PreparerStarts ==
    ASSUME CommandInv, NEW h, nextId' = nextId, Preparers' \subseteq Preparers \cup {h},
           nextId + Cardinality(Preparers) \in Ids
    PROVE  IdsSuffice'
<1>1. /\ IsFiniteSet(Preparers \cup {h})
      /\ Cardinality(Preparers \cup {h}) <= Cardinality(Preparers) + 1
  <2>1. IsFiniteSet(Preparers) /\ Cardinality(Preparers) \in Nat
    BY FS_CardinalityType DEF CommandInv, IdsSuffice
  <2> QED BY <2>1, FS_AddElement
<1>2. /\ IsFiniteSet(Preparers')
      /\ Cardinality(Preparers') <= Cardinality(Preparers \cup {h})
  BY <1>1, FS_Subset
<1>3. /\ Cardinality(Preparers) \in Nat /\ Cardinality(Preparers') \in Nat
      /\ Cardinality(Preparers \cup {h}) \in Nat
  BY <1>1, <1>2, FS_CardinalityType DEF CommandInv, IdsSuffice
<1> QED BY <1>1, <1>2, <1>3, CommandAssumption DEF CommandInv, IdsSuffice, CommandTypeOK, Ids

\* A step of one handler that neither calls the provider nor writes the log.
LEMMA QuietStep ==
    ASSUME CommandInv, NEW h \in Handlers, NEW x \in Handling,
           proc' = [proc EXCEPT ![h] = x], KeyMoves,
           pending' \in PreparedActions \cup {NoPending}, context' \in Lists,
           nextId' \in 1 .. MaxActions + 1, open' = open, IdsSuffice',
           confirmed \subseteq confirmed', confirmed' \subseteq Ids,
           \A i \in confirmed' : i < nextId',
           UNCHANGED <<audit, submitted, succeeded, interrupted>>,
           Sound(x, confirmed', succeeded', nextId', pending'),
           proc[h].rows \subseteq x.rows,
           (pending' = pending /\ proc[h].pc = "clear") => pending = NoPending
    PROVE  CommandInv'
<1>1. /\ proc' \in [Handlers -> Handling]
      /\ \A k \in Handlers : Sound(proc[k], confirmed, succeeded, nextId, pending)'
      /\ \A k \in Handlers : proc'[k] = IF k = h THEN x ELSE proc[k]
  BY OneHandlerMoves
<1>2. nextId \in Nat /\ nextId' \in Nat
  BY CommandAssumption DEF CommandInv, CommandTypeOK
<1>3. CommandTypeOK'
  BY <1>1 DEF CommandInv, CommandTypeOK
<1>4. HistoryIsOld'
  <2>1. pending'.id < nextId'
    BY <1>2, PreparedFacts DEF CommandInv, HistoryIsOld, KeyMoves
  <2>2. \A i \in submitted \cup succeeded \cup interrupted : i \in Nat /\ i < nextId'
    BY <1>2, CommandAssumption DEF CommandInv, HistoryIsOld, KeyMoves, CommandTypeOK, Ids
  <2> QED BY <2>1, <2>2 DEF HistoryIsOld
<1>5. RowsOfSubmissions'
  BY <1>1 DEF CommandInv, RowsOfSubmissions
<1>6. DoneIsForgotten'
  <2> SUFFICES ASSUME pending'.id \in succeeded'
               PROVE  \/ pending'.id \in interrupted
                      \/ \E k \in Handlers : proc'[k].act = pending' /\ proc'[k].pc = "clear"
    BY DEF DoneIsForgotten, At
  <2>1. pending' = pending /\ pending # NoPending
    BY <1>2, PreparedFacts DEF KeyMoves, CommandInv, HistoryIsOld, CommandTypeOK, Ids
  <2> QED BY <1>1, <2>1 DEF CommandInv, DoneIsForgotten, At
<1>7. SuccessRowsAreTrue'
  BY DEF CommandInv, SuccessRowsAreTrue
<1> QED BY <1>1, <1>3, <1>4, <1>5, <1>6, <1>7 DEF CommandInv

-----------------------------------------------------------------------------
(* The steps. *)

LEMMA ReceiveStep ==
    ASSUME CommandInv, NEW h \in Handlers, NEW m \in Messages, NEW a \in {"read", "write"},
           Receive(h, m, a)
    PROVE  CommandInv'
<1> DEFINE x == [Idle EXCEPT !.pc = IF m.kind = "confirm" THEN "load" ELSE "items",
                             !.msg = m, !.access = IF m.kind = "confirm" THEN a ELSE "none"]
<1>1. proc' = [proc EXCEPT ![h] = x] /\ UNCHANGED <<redis, nextId, open, audit, history>>
  BY DEF Receive
<1>2. x \in Handling /\ x.rows = {} /\ Sound(x, confirmed, succeeded, nextId, pending)
  <2>1. Idle \in Handling /\ Sound(Idle, confirmed, succeeded, nextId, pending)
    BY IdleFacts, HandlerFacts DEF CommandInv, CommandTypeOK
  <2>2. m.kind \in {"prepare", "click", "confirm"}
    BY MessageFacts
  <2>3. x \in Handling /\ x.rows = {} /\ x.act = Idle.act /\ x.msg = m
        /\ x.pc = IF m.kind = "confirm" THEN "load" ELSE "items"
    BY <2>1 DEF Handling, Idle
  <2> QED BY <2>1, <2>2, <2>3 DEF Sound, Shape, Idle
<1>3. proc[h].pc = "idle" /\ proc[h].rows = {}
  BY HandlerFacts DEF Receive, At, Sound, Shape
<1>4. \A k \in Handlers : proc'[k] = IF k = h THEN x ELSE proc[k]
  BY <1>1 DEF CommandInv, CommandTypeOK
<1>5. IdsSuffice'
  <2>1. CASE m.kind = "confirm"
    <3>1. Preparers' \subseteq Preparers
      BY <1>4, <2>1 DEF Preparers, Preparing, Idle
    <3> QED BY <1>1, <3>1, PreparersKept
  <2>2. CASE m.kind # "confirm"
    <3>1. Preparers' \subseteq Preparers \cup {h}
      BY <1>4 DEF Preparers, Preparing
    <3>2. nextId + Cardinality(Preparers) \in Ids
      BY <2>2 DEF Receive, Preparers
    <3> QED BY <1>1, <3>1, <3>2, PreparerStarts
  <2> QED BY <2>1, <2>2
<1> QED BY <1>1, <1>2, <1>3, <1>5, QuietStep
     DEF redis, history, KeyMoves, CommandInv, CommandTypeOK, HistoryIsOld

\* The key is deleted or expires, outside of any handler.
LEMMA KeyGone ==
    ASSUME CommandInv, pending' = NoPending,
           UNCHANGED <<context, nextId, proc, open, audit, history>>
    PROVE  CommandInv'
<1>1. \A k \in Handlers : Sound(proc[k], confirmed, succeeded, nextId, pending)'
  BY HandlerFacts, SoundIsStable, PreparedFacts DEF history
<1>2. 0 < nextId /\ 0 \notin Ids
  BY CommandAssumption DEF CommandInv, CommandTypeOK, Ids
<1> QED BY <1>1, <1>2, PreparedFacts
     DEF history, CommandInv, CommandTypeOK, HistoryIsOld, IdsSuffice, Preparers, Preparing,
         RowsOfSubmissions, DoneIsForgotten, SuccessRowsAreTrue

\* The list of the rows is read, fetched and kept.
LEMMA ListStep ==
    ASSUME CommandInv, NEW h \in Handlers,
           LoadItems(h) \/ Fetch(h) \/ store_approval_context(h)
    PROVE  CommandInv'
<1>0. /\ proc[h] \in Handling /\ Sound(proc[h], confirmed, succeeded, nextId, pending)
      /\ proc[h].pc \in {"items", "fetch", "keep"} /\ proc[h].rows = {}
      /\ proc[h].msg \in Messages \cup {Idle.msg} /\ proc[h].items \in Lists
      /\ proc[h].msg.kind \in {"prepare", "click"}
      /\ context \in Lists /\ nextId \in Nat \ {0} /\ pending \in PreparedActions \cup {NoPending}
  BY HandlerFacts DEF LoadItems, Fetch, store_approval_context, At, Sound, Shape, CommandInv,
     CommandTypeOK
<1>1. Idle \in Handling /\ Sound(Idle, confirmed, succeeded, nextId, pending)
  BY <1>0, IdleFacts
<1> DEFINE MovesTo(x) ==
        /\ proc' = [proc EXCEPT ![h] = x] /\ x.rows = {}
        /\ Sound(x, confirmed, succeeded, nextId, pending)
        /\ x.msg = proc[h].msg \/ x = Idle
<1>2. \E x \in Handling : MovesTo(x)
  <2>1. CASE LoadItems(h)
    <3>1. CASE context # <<>>
      <4> DEFINE x == [proc[h] EXCEPT !.pc = "prepare", !.items = context]
      <4>1. x \in Handling /\ Sound(x, confirmed, succeeded, nextId, pending)
            /\ x.msg = proc[h].msg /\ x.rows = {}
        BY <1>0 DEF Handling, Sound, Shape
      <4>2. proc' = [proc EXCEPT ![h] = x]
        BY <2>1, <3>1 DEF LoadItems
      <4> QED BY <4>1, <4>2
    <3>2. CASE context = <<>> /\ proc[h].msg.kind = "prepare"
      <4> DEFINE x == [proc[h] EXCEPT !.pc = "fetch"]
      <4>1. x \in Handling /\ Sound(x, confirmed, succeeded, nextId, pending)
            /\ x.msg = proc[h].msg /\ x.rows = {}
        BY <1>0 DEF Handling, Sound, Shape
      <4>2. proc' = [proc EXCEPT ![h] = x]
        BY <2>1, <3>2 DEF LoadItems
      <4> QED BY <4>1, <4>2
    <3>3. CASE context = <<>> /\ proc[h].msg.kind # "prepare"
      BY <1>1, <2>1, <3>3 DEF LoadItems, Idle
    <3> QED BY <3>1, <3>2, <3>3
  <2>2. CASE Fetch(h)
    <3>1. ASSUME NEW l \in Lists, proc' = [proc EXCEPT ![h].pc = "keep", ![h].items = l]
          PROVE  \E x \in Handling : MovesTo(x)
      <4> DEFINE x == [proc[h] EXCEPT !.pc = "keep", !.items = l]
      <4>1. x \in Handling /\ Sound(x, confirmed, succeeded, nextId, pending)
            /\ x.msg = proc[h].msg /\ x.rows = {}
        BY <1>0 DEF Handling, Sound, Shape
      <4> QED BY <3>1, <4>1
    <3>2. CASE End(h)
      BY <1>1, <3>2 DEF End, Idle
    <3> QED BY <2>2, <3>1, <3>2 DEF Fetch
  <2>3. CASE store_approval_context(h)
    <3> DEFINE x == [proc[h] EXCEPT !.pc = "prepare"]
    <3>1. x \in Handling /\ Sound(x, confirmed, succeeded, nextId, pending)
          /\ x.msg = proc[h].msg /\ x.rows = {}
      BY <1>0 DEF Handling, Sound, Shape
    <3> QED BY <2>3, <3>1 DEF store_approval_context, Goto
  <2> QED BY <2>1, <2>2, <2>3
<1>3. PICK x \in Handling : MovesTo(x)
  BY <1>2
<1>4. /\ UNCHANGED <<pending, nextId, open, audit, confirmed, submitted, succeeded, interrupted>>
      /\ context' \in Lists
  BY <1>0 DEF LoadItems, Fetch, store_approval_context, redis, history, Listed
<1>5. IdsSuffice'
  <2>1. \A k \in Handlers : proc'[k] = IF k = h THEN x ELSE proc[k]
    BY <1>3 DEF CommandInv, CommandTypeOK
  <2>2. Preparers' \subseteq Preparers
    BY <1>0, <1>3, <2>1 DEF Preparers, Preparing, Idle
  <2> QED BY <1>4, <2>2, PreparersKept
<1> QED BY <1>0, <1>3, <1>4, <1>5, QuietStep DEF KeyMoves, CommandInv, CommandTypeOK, HistoryIsOld

\* The action is prepared under the key, with an id of its own.
LEMMA PrepareStep ==
    ASSUME CommandInv, NEW h \in Handlers, store_pending_approval_action(h)
    PROVE  CommandInv'
<1>1. /\ proc[h].pc = "prepare" /\ proc[h].rows = {} /\ proc[h].items \in Lists
      /\ proc[h].msg \in Messages /\ proc[h].msg.kind \in {"prepare", "click"}
      /\ nextId \in Nat \ {0} /\ pending \in PreparedActions \cup {NoPending}
  BY HandlerFacts DEF store_pending_approval_action, At, Sound, Shape, CommandInv, CommandTypeOK,
     Idle
<1> DEFINE items == Chosen(proc[h].items, proc[h].msg.row)
<1>2. /\ proc' = [proc EXCEPT ![h] = Idle]
      /\ UNCHANGED <<context, open, audit, confirmed, submitted, succeeded, interrupted>>
      /\ \/ Len(items) = 1 /\ pending' = Prepared(h, items[1]) /\ nextId' = nextId + 1
         \/ pending' = pending /\ nextId' = nextId
  BY DEF store_pending_approval_action, End, history
<1>3. h \in Preparers /\ Preparers' = Preparers \ {h}
  BY <1>1, <1>2 DEF CommandInv, CommandTypeOK, Preparers, Preparing, Idle
<1>4. IdsSuffice' /\ nextId' \in 1 .. MaxActions + 1
  BY <1>2, <1>3, PreparerDone
<1>5. pending' \in PreparedActions \cup {NoPending} /\ KeyMoves
  <2>1. CASE pending' = pending /\ nextId' = nextId
    BY <1>1, <2>1 DEF KeyMoves
  <2>2. CASE Len(items) = 1 /\ pending' = Prepared(h, items[1]) /\ nextId' = nextId + 1
    <3>1. items \in Seq(Tasks)
      BY <1>1, ListFacts DEF Chosen
    <3>2. items[1] \in Tasks /\ nextId \in Ids /\ proc[h].msg.action \in Decisions
      BY <1>1, <1>4, <2>2, <3>1, MessageFacts, CommandAssumption DEF Ids
    <3>3. Prepared(h, items[1]) \in PreparedActions /\ Prepared(h, items[1]).id = nextId
      BY <3>2 DEF Prepared, PreparedActions
    <3> QED BY <2>2, <3>3 DEF KeyMoves
  <2> QED BY <1>2, <2>1, <2>2
<1>6. Idle \in Handling /\ Sound(Idle, confirmed', succeeded', nextId', pending')
  BY <1>4, <1>5, IdleFacts, CommandAssumption
<1>7. \A i \in confirmed' : i < nextId'
  BY <1>1, <1>2, CommandAssumption DEF KeyMoves, CommandInv, CommandTypeOK, HistoryIsOld, Ids
<1> QED BY <1>1, <1>2, <1>4, <1>5, <1>6, <1>7, QuietStep DEF CommandInv, CommandTypeOK

\* A confirmation finds nothing, something else, or its action.
LEMMA LoadPendingStep ==
    ASSUME CommandInv, NEW h \in Handlers, LoadPending(h)
    PROVE  CommandInv'
<1>1. /\ proc[h] \in Handling /\ Sound(proc[h], confirmed, succeeded, nextId, pending)
      /\ proc[h].pc = "load" /\ proc[h].rows = {} /\ proc[h].msg.kind = "confirm"
      /\ nextId \in Nat \ {0} /\ pending \in PreparedActions \cup {NoPending}
      /\ pending.id < nextId /\ nextId \in 1 .. MaxActions + 1 /\ confirmed \subseteq Ids
      /\ context \in Lists /\ \A i \in confirmed : i < nextId
  BY HandlerFacts DEF LoadPending, At, Sound, Shape, CommandInv, CommandTypeOK, HistoryIsOld
<1>2. UNCHANGED <<context, pending, nextId, open, audit, submitted, succeeded, interrupted>>
  BY DEF LoadPending, redis
<1> DEFINE MovesTo(x) ==
        /\ proc' = [proc EXCEPT ![h] = x]
        /\ x.msg.kind \notin {"prepare", "click"}
        /\ Sound(x, confirmed', succeeded, nextId, pending)
<1>3. /\ \E x \in Handling : MovesTo(x)
      /\ confirmed' \in {confirmed, confirmed \cup ({pending.id} \ {0})}
  <2>1. CASE pending = NoPending
    <3>1. proc' = [proc EXCEPT ![h] = Idle] /\ confirmed' = confirmed
      BY <2>1 DEF LoadPending, End
    <3>2. Idle \in Handling /\ Sound(Idle, confirmed, succeeded, nextId, pending)
      BY <1>1, IdleFacts
    <3> QED BY <3>1, <3>2 DEF Idle
  <2>2. CASE pending # NoPending /\ Matches(pending, proc[h].msg.action)
    <3> DEFINE x == [proc[h] EXCEPT !.pc = "call", !.act = pending, !.msg = Idle.msg]
    <3>1. proc' = [proc EXCEPT ![h] = x] /\ confirmed' = confirmed \cup {pending.id}
      BY <2>2 DEF LoadPending, Matches
    <3>2. x \in Handling
      BY <1>1 DEF Handling
    <3>3. Sound(x, confirmed', succeeded, nextId, pending)
      BY <1>1, <2>2, <3>1 DEF Sound, Shape, Idle, Handling
    <3>4. pending.id # 0 /\ x.msg.kind = "none"
      BY <1>1, <2>2, PreparedFacts, CommandAssumption DEF Ids, Idle, Handling
    <3> QED BY <3>1, <3>2, <3>3, <3>4
  <2>3. CASE pending # NoPending /\ ~Matches(pending, proc[h].msg.action)
    <3> DEFINE rows == {[id |-> pending.id, status |-> "denied"]}
               x == [Idle EXCEPT !.pc = "drop", !.act = pending, !.rows = rows]
    <3>1. proc' = [proc EXCEPT ![h] = x] /\ confirmed' = confirmed
      BY <2>3 DEF LoadPending
    <3>2. rows \subseteq AuditRows
      BY <1>1, <2>3, PreparedFacts DEF AuditRows
    <3>3. x \in Handling
      BY <1>1, <3>2, IdleFacts DEF Handling, Idle
    <3>4. Sound(x, confirmed', succeeded, nextId, pending)
      BY <1>1, <2>3, <3>1 DEF Sound, Shape, Idle
    <3> QED BY <3>1, <3>3, <3>4 DEF Idle
  <2> QED BY <2>1, <2>2, <2>3
<1>4. PICK x \in Handling : MovesTo(x)
  BY <1>3
<1>5. IdsSuffice'
  <2>1. \A k \in Handlers : proc'[k] = IF k = h THEN x ELSE proc[k]
    BY <1>4 DEF CommandInv, CommandTypeOK
  <2>2. Preparers' \subseteq Preparers
    BY <1>4, <2>1 DEF Preparers, Preparing
  <2> QED BY <1>2, <2>2, PreparersKept
<1>6. confirmed \subseteq confirmed' /\ confirmed' \subseteq Ids /\ \A i \in confirmed' : i < nextId
  BY <1>1, <1>3, PreparedFacts
<1> QED BY <1>1, <1>2, <1>4, <1>5, <1>6, QuietStep DEF KeyMoves

\* The steps between two phases that keep the rows of the handler: Drop, Clear,
\* ClearContext and Reply.
LEMMA AfterwardsStep ==
    ASSUME CommandInv, NEW h \in Handlers,
           Drop(h) \/ Clear(h) \/ ClearContext(h) \/ Reply(h)
    PROVE  CommandInv'
<1>1. /\ proc[h] \in Handling /\ Sound(proc[h], confirmed, succeeded, nextId, pending)
      /\ proc[h].pc \in {"drop", "clear", "clear_context", "reply"}
      /\ nextId \in Nat \ {0} /\ pending \in PreparedActions \cup {NoPending}
      /\ nextId \in 1 .. MaxActions + 1 /\ confirmed \subseteq Ids
      /\ context \in Lists /\ \A i \in confirmed : i < nextId
  BY HandlerFacts DEF Drop, Clear, ClearContext, Reply, At, CommandInv, CommandTypeOK, HistoryIsOld
<1>2. /\ UNCHANGED <<nextId, open, audit, confirmed, submitted, succeeded, interrupted>>
      /\ context' \in Lists /\ pending' \in {pending, NoPending}
      /\ (pending' = pending /\ proc[h].pc = "clear") => pending = NoPending
  BY <1>1, ListFacts DEF Drop, Clear, ClearContext, Reply, redis, history, Forget, At
<1>3. PICK pc \in {"clear_context", "reply", "record"} : proc' = [proc EXCEPT ![h].pc = pc]
  BY DEF Drop, Clear, ClearContext, Reply, Goto
<1> DEFINE x == [proc[h] EXCEPT !.pc = pc]
<1>4. x \in Handling /\ x.rows = proc[h].rows /\ x.msg = proc[h].msg
  BY <1>1 DEF Handling
<1>5. Sound(x, confirmed, succeeded, nextId, pending)
  BY <1>1 DEF Sound, Shape, Handling
<1>6. Sound(x, confirmed, succeeded, nextId, pending')
  <2>1. pending'.id \in Nat
    BY <1>1, <1>2, PreparedFacts, CommandAssumption DEF Ids
  <2> HIDE DEF x
  <2> QED BY <1>1, <1>2, <1>4, <1>5, <2>1, SoundIsStable
<1>7. IdsSuffice'
  <2>1. \A k \in Handlers : proc'[k] = IF k = h THEN x ELSE proc[k]
    BY <1>3 DEF CommandInv, CommandTypeOK
  <2>2. Preparers' \subseteq Preparers
    BY <1>4, <2>1 DEF Preparers, Preparing
  <2> QED BY <1>2, <2>2, PreparersKept
<1>8. KeyMoves /\ proc' = [proc EXCEPT ![h] = x]
  BY <1>2, <1>3 DEF KeyMoves
<1> QED BY <1>1, <1>2, <1>4, <1>6, <1>7, <1>8, QuietStep

\* A refusal by the tool router.
LEMMA DeniedStep ==
    ASSUME CommandInv, NEW h \in Handlers, Denied(h)
    PROVE  CommandInv'
<1>1. /\ proc[h] \in Handling /\ Sound(proc[h], confirmed, succeeded, nextId, pending)
      /\ proc[h].pc = "call" /\ proc[h].rows = {} /\ proc[h].act.id \in Ids
      /\ nextId \in Nat \ {0} /\ pending \in PreparedActions \cup {NoPending}
      /\ nextId \in 1 .. MaxActions + 1 /\ confirmed \subseteq Ids
      /\ context \in Lists /\ \A i \in confirmed : i < nextId
  BY HandlerFacts DEF Denied, At, Sound, Shape, CommandInv, CommandTypeOK, HistoryIsOld
<1> DEFINE x == [proc[h] EXCEPT !.pc = "reply", !.access = "none", !.rows = {Row(h, "denied")}]
<1>2. /\ proc' = [proc EXCEPT ![h] = x]
      /\ UNCHANGED <<context, pending, nextId, open, audit, confirmed, submitted, succeeded,
                     interrupted>>
  BY DEF Denied, redis, history
<1>3. Row(h, "denied") \in AuditRows
  BY <1>1 DEF Row, AuditRows
<1>4. x \in Handling /\ x.msg = proc[h].msg
  BY <1>1, <1>3 DEF Handling
<1>5. Sound(x, confirmed, succeeded, nextId, pending)
  BY <1>1 DEF Sound, Shape, Row, Handling
<1>6. IdsSuffice'
  <2>1. \A k \in Handlers : proc'[k] = IF k = h THEN x ELSE proc[k]
    BY <1>2 DEF CommandInv, CommandTypeOK
  <2>2. Preparers' \subseteq Preparers
    BY <1>4, <2>1 DEF Preparers, Preparing
  <2> QED BY <1>2, <2>2, PreparersKept
<1> QED BY <1>1, <1>2, <1>4, <1>5, <1>6, QuietStep DEF KeyMoves

\* The submission: the handler carries the row for it from here on.
LEMMA CallStep ==
    ASSUME CommandInv, NEW h \in Handlers, NEW ok \in BOOLEAN, NEW effect \in BOOLEAN,
           Call(h, ok, effect)
    PROVE  CommandInv'
<1> DEFINE act == proc[h].act
           x == AfterCall(h, ok)
<1>1. /\ proc[h] \in Handling /\ Sound(proc[h], confirmed, succeeded, nextId, pending)
      /\ proc[h].pc = "call" /\ proc[h].rows = {} /\ act.id \in Ids /\ act \in PreparedActions
      /\ nextId \in Nat \ {0} /\ nextId \in 1 .. MaxActions + 1
      /\ pending \in PreparedActions \cup {NoPending}
  BY HandlerFacts DEF Call, At, Sound, Shape, CommandInv, CommandTypeOK
<1>2. /\ proc' = [proc EXCEPT ![h] = x]
      /\ UNCHANGED <<context, pending, nextId, audit, confirmed, interrupted>>
      /\ open' \subseteq open
      /\ submitted' = submitted \cup {act.id}
      /\ succeeded' = IF ok THEN succeeded \cup {act.id} ELSE succeeded
  BY DEF Call, redis
<1> DEFINE row == Row(h, IF ok THEN "success" ELSE "error")
<1>3. row \in AuditRows /\ row.id = act.id /\ row.status = (IF ok THEN "success" ELSE "error")
  BY <1>1 DEF Row, AuditRows
<1>4. /\ x \in Handling /\ x.msg = proc[h].msg /\ x.rows = {row} /\ x.act = act
      /\ x.pc = IF ok THEN "clear" ELSE "reply"
  BY <1>1, <1>3 DEF Handling, AfterCall
<1>5. Sound(x, confirmed', succeeded', nextId', pending')
  <2>1. Shape(x)
    BY <1>1, <1>3, <1>4 DEF Sound, Shape
  <2> HIDE DEF x, row
  <2> QED BY <1>1, <1>2, <1>3, <1>4, <2>1 DEF Sound
<1> HIDE DEF x, row
<1>6. /\ proc' \in [Handlers -> Handling]
      /\ \A k \in Handlers : Sound(proc[k], confirmed, succeeded, nextId, pending)'
      /\ \A k \in Handlers : proc'[k] = IF k = h THEN x ELSE proc[k]
  BY <1>1, <1>2, <1>4, <1>5, OneHandlerMoves DEF KeyMoves
<1>7. IdsSuffice'
  <2>1. Preparers' \subseteq Preparers
    BY <1>4, <1>6 DEF Preparers, Preparing
  <2> QED BY <1>2, <2>1, PreparersKept
<1>8. CommandTypeOK'
  BY <1>1, <1>2, <1>6 DEF CommandInv, CommandTypeOK
<1>9. HistoryIsOld'
  BY <1>1, <1>2 DEF CommandInv, HistoryIsOld, Sound
<1>10. RowsOfSubmissions'
  <2> SUFFICES ASSUME NEW i \in submitted'
               PROVE  \/ \E r \in audit : r.id = i /\ r.status # "denied"
                      \/ i \in interrupted
                      \/ \E k \in Handlers : \E r \in proc'[k].rows : r.id = i /\ r.status # "denied"
    BY <1>2 DEF RowsOfSubmissions
  <2>1. CASE i = act.id
    BY <1>3, <1>4, <1>6, <2>1
  <2>2. CASE i # act.id
    BY <1>1, <1>2, <1>6, <2>2 DEF CommandInv, RowsOfSubmissions
  <2> QED BY <2>1, <2>2
<1>11. DoneIsForgotten'
  <2> SUFFICES ASSUME pending.id \in succeeded'
               PROVE  \/ pending.id \in interrupted
                      \/ \E k \in Handlers : proc'[k].act = pending /\ proc'[k].pc = "clear"
    BY <1>2 DEF DoneIsForgotten, At
  <2>1. CASE pending.id \in succeeded
    BY <1>1, <1>6, <2>1 DEF CommandInv, DoneIsForgotten, At
  <2>2. CASE pending.id \notin succeeded
    <3>1. ok /\ act = pending
      BY <1>1, <1>2, <2>2 DEF Sound
    <3> QED BY <1>4, <1>6, <3>1
  <2> QED BY <2>1, <2>2
<1>12. SuccessRowsAreTrue'
  BY <1>2 DEF CommandInv, SuccessRowsAreTrue
<1> QED BY <1>6, <1>7, <1>8, <1>9, <1>10, <1>11, <1>12 DEF CommandInv

\* The end of a handler: its rows are committed, or the reply failed and they are gone.
LEMMA EndStep ==
    ASSUME CommandInv, NEW h \in Handlers, ReplyFails(h) \/ record_command_context(h)
    PROVE  CommandInv'
<1>1. /\ proc[h] \in Handling /\ Sound(proc[h], confirmed, succeeded, nextId, pending)
      /\ proc[h].pc \in {"reply", "record"} /\ proc[h].act.id \in Ids
      /\ proc[h].rows \subseteq AuditRows
      /\ nextId \in Nat \ {0} /\ nextId \in 1 .. MaxActions + 1
      /\ pending \in PreparedActions \cup {NoPending}
  BY HandlerFacts DEF ReplyFails, record_command_context, At, Sound, Shape, CommandInv,
     CommandTypeOK
<1>2. /\ proc' = [proc EXCEPT ![h] = Idle]
      /\ UNCHANGED <<context, pending, nextId, open, confirmed, submitted, succeeded>>
      /\ \/ interrupted' = interrupted \cup {proc[h].act.id} /\ audit' = audit
         \/ audit' = audit \cup proc[h].rows /\ interrupted' = interrupted
  BY DEF ReplyFails, record_command_context, End, redis, history, Kept
<1>3. Idle \in Handling /\ Sound(Idle, confirmed', succeeded', nextId', pending')
  BY <1>1, <1>2, IdleFacts
<1>4. /\ proc' \in [Handlers -> Handling]
      /\ \A k \in Handlers : Sound(proc[k], confirmed, succeeded, nextId, pending)'
      /\ \A k \in Handlers : proc'[k] = IF k = h THEN Idle ELSE proc[k]
  BY <1>1, <1>2, <1>3, OneHandlerMoves DEF KeyMoves
<1>5. IdsSuffice'
  <2>1. Preparers' \subseteq Preparers
    BY <1>4 DEF Preparers, Preparing, Idle
  <2> QED BY <1>2, <2>1, PreparersKept
<1>6. CommandTypeOK'
  BY <1>1, <1>2, <1>4 DEF CommandInv, CommandTypeOK
<1>7. HistoryIsOld'
  BY <1>1, <1>2 DEF CommandInv, HistoryIsOld, Sound
<1>8. RowsOfSubmissions'
  <2> SUFFICES ASSUME NEW i \in submitted
               PROVE  \/ \E r \in audit' : r.id = i /\ r.status # "denied"
                      \/ i \in interrupted'
                      \/ \E k \in Handlers : \E r \in proc'[k].rows : r.id = i /\ r.status # "denied"
    BY <1>2 DEF RowsOfSubmissions
  <2>1. CASE \E r \in proc[h].rows : r.id = i /\ r.status # "denied"
    BY <1>1, <1>2, <2>1 DEF Sound, Shape
  <2>2. CASE ~ \E r \in proc[h].rows : r.id = i /\ r.status # "denied"
    BY <1>2, <1>4, <2>2 DEF CommandInv, RowsOfSubmissions
  <2> QED BY <2>1, <2>2
<1>9. DoneIsForgotten'
  BY <1>1, <1>2, <1>4 DEF CommandInv, DoneIsForgotten, At
<1>10. SuccessRowsAreTrue'
  BY <1>1, <1>2 DEF CommandInv, SuccessRowsAreTrue, Sound
<1> QED BY <1>4, <1>5, <1>6, <1>7, <1>8, <1>9, <1>10 DEF CommandInv

\* The list expires, or a task is decided in Feishu.
LEMMA OutsideStep ==
    ASSUME CommandInv, context' \in {context, <<>>}, open' \subseteq open,
           UNCHANGED <<pending, nextId, proc, audit, history>>
    PROVE  CommandInv'
<1>1. CommandTypeOK'
  BY ListFacts DEF history, CommandInv, CommandTypeOK
<1>2. HistoryIsOld' /\ SuccessRowsAreTrue' /\ RowsOfSubmissions' /\ DoneIsForgotten'
  BY DEF history, CommandInv, HistoryIsOld, SuccessRowsAreTrue, RowsOfSubmissions, DoneIsForgotten, At
<1>3. IdsSuffice'
  BY DEF CommandInv, IdsSuffice, Preparers, Preparing
<1>4. \A h \in Handlers : Sound(proc[h], confirmed, succeeded, nextId, pending)'
  BY DEF history, CommandInv
<1> QED BY <1>1, <1>2, <1>3, <1>4 DEF CommandInv

\* The watchdog ends every handler at once; each action under way counts as interrupted.
LEMMA WatchdogStep ==
    ASSUME CommandInv, Watchdog
    PROVE  CommandInv'
<1> DEFINE held == {proc[h].act.id : h \in Handlers}
<1>1. /\ proc' = [h \in Handlers |-> Idle] /\ interrupted' = interrupted \cup (held \ {0})
      /\ UNCHANGED <<context, pending, nextId, open, audit, confirmed, submitted, succeeded>>
  BY DEF Watchdog, redis
<1>2. /\ nextId \in Nat \ {0} /\ pending \in PreparedActions \cup {NoPending}
      /\ \A h \in Handlers : proc'[h] = Idle
  BY <1>1, CommandAssumption DEF CommandInv, CommandTypeOK
<1>3. held \ {0} \subseteq Ids /\ \A i \in held : i < nextId
  BY HandlerFacts, PreparedFacts DEF Sound
<1>4. CommandTypeOK'
  BY <1>1, <1>3, IdleFacts DEF CommandInv, CommandTypeOK
<1>5. \A h \in Handlers : Sound(proc[h], confirmed, succeeded, nextId, pending)'
  BY <1>1, <1>2, IdleFacts
<1>6. HistoryIsOld'
  BY <1>1, <1>3 DEF CommandInv, HistoryIsOld
<1>7. IdsSuffice'
  <2>1. Preparers' \subseteq Preparers
    BY <1>2 DEF Preparers, Preparing, Idle
  <2> QED BY <1>1, <2>1, PreparersKept
<1>8. RowsOfSubmissions'
  <2> SUFFICES ASSUME NEW i \in submitted
               PROVE  (\E r \in audit : r.id = i /\ r.status # "denied") \/ i \in interrupted'
    BY <1>1 DEF RowsOfSubmissions
  <2>1. ASSUME NEW h \in Handlers, NEW r \in proc[h].rows, r.id = i PROVE i \in interrupted'
    <3>1. proc[h].act.id = i /\ proc[h].act # NoPending
      BY <2>1, HandlerFacts DEF Sound, Shape
    <3>2. i \in held \ {0}
      BY <3>1, HandlerFacts, CommandAssumption DEF Ids
    <3> QED BY <1>1, <3>2
  <2> QED BY <1>1, <2>1 DEF CommandInv, RowsOfSubmissions
<1>9. DoneIsForgotten'
  <2> SUFFICES ASSUME pending.id \in succeeded
               PROVE  pending.id \in interrupted'
    BY <1>1 DEF DoneIsForgotten
  <2>1. pending.id # 0
    BY CommandAssumption DEF CommandInv, CommandTypeOK, Ids
  <2>2. pending.id \in interrupted \cup held
    BY DEF CommandInv, DoneIsForgotten
  <2> QED BY <1>1, <2>1, <2>2
<1>10. SuccessRowsAreTrue'
  BY <1>1 DEF CommandInv, SuccessRowsAreTrue
<1> QED BY <1>4, <1>5, <1>6, <1>7, <1>8, <1>9, <1>10 DEF CommandInv

-----------------------------------------------------------------------------
(* The theorems. *)

LEMMA CommandInit == Init => CommandInv
<1> SUFFICES ASSUME Init PROVE CommandInv
  OBVIOUS
<1>1. MaxActions \in Nat /\ nextId = 1 /\ pending = NoPending
  BY CommandAssumption DEF Init
<1>2. CommandTypeOK
  BY <1>1, ListFacts, IdleFacts DEF Init, CommandTypeOK
<1>3. \A h \in Handlers : Sound(proc[h], confirmed, succeeded, nextId, pending)
  BY <1>1, IdleFacts DEF Init
<1>4. IdsSuffice
  <2>1. Preparers = {}
    BY DEF Init, Preparers, Preparing, Idle
  <2> QED BY <1>1, <2>1, FS_EmptySet DEF IdsSuffice
<1> QED BY <1>1, <1>2, <1>3, <1>4
     DEF Init, CommandInv, HistoryIsOld, RowsOfSubmissions, DoneIsForgotten, SuccessRowsAreTrue,
         NoPending

LEMMA CommandNext == CommandInv /\ [Next]_commandVars => CommandInv'
<1> SUFFICES ASSUME CommandInv, [Next]_commandVars PROVE CommandInv'
  OBVIOUS
<1>1. CASE Arrive
  <2>1. ASSUME clear_pending_approval_action PROVE CommandInv'
    BY <2>1, KeyGone DEF clear_pending_approval_action
  <2> QED BY <1>1, <2>1, ReceiveStep DEF Arrive
<1>2. ASSUME NEW h \in Handlers, HandlerStep(h) PROVE CommandInv'
  BY <1>2, ListStep, PrepareStep, LoadPendingStep, AfterwardsStep, DeniedStep, CallStep, EndStep
     DEF HandlerStep
<1>3. CASE Surroundings
  <2>1. ASSUME ExpirePending PROVE CommandInv'
    BY <2>1, KeyGone DEF ExpirePending
  <2>2. ASSUME ExpireContext PROVE CommandInv'
    BY <2>2, OutsideStep DEF ExpireContext
  <2>3. ASSUME NEW t \in Tasks, DecidedElsewhere(t) PROVE CommandInv'
    BY <2>3, OutsideStep DEF DecidedElsewhere, redis
  <2> QED BY <1>3, <2>1, <2>2, <2>3, WatchdogStep DEF Surroundings
<1>4. CASE UNCHANGED commandVars
  BY <1>4, OutsideStep DEF commandVars
<1> QED BY <1>1, <1>2, <1>3, <1>4 DEF Next

\* Every variable has its type, for any number of messages handled at once: the
\* ids of the model suffice for the actions being prepared (IdsSuffice), and no
\* list that a row number is looked up in names a task twice.
THEOREM CommandTypes == Spec => []CommandTypeOK
<1>1. CommandInv => CommandTypeOK
  BY DEF CommandInv
<1> QED BY <1>1, CommandInit, CommandNext, PTL DEF Spec

\* An action the provider reported done is not left to be confirmed again, however
\* many messages prepare, confirm, cancel and expire meanwhile, unless its handler
\* was interrupted (execute_pending_approval_action_reply).
THEOREM DoneActionsAreForgotten == Spec => []DoneIsForgotten
<1>1. CommandInv => DoneIsForgotten
  BY DEF CommandInv
<1> QED BY <1>1, CommandInit, CommandNext, PTL DEF Spec

\* A row of the audit log that says success tells the truth about its own action
\* (_record_feishu_approval_action_audit).
THEOREM AuditIsTrue == Spec => []SuccessRowsAreTrue
<1>1. CommandInv => SuccessRowsAreTrue
  BY DEF CommandInv
<1> QED BY <1>1, CommandInit, CommandNext, PTL DEF Spec

\* No submission is missing from the audit log once its handler has ended, unless
\* the handler was interrupted (record_command_context).
THEOREM AuditIsComplete == Spec => []SubmissionsAreAudited
<1>1. CommandInv => SubmissionsAreAudited
  <2> SUFFICES ASSUME CommandInv PROVE SubmissionsAreAudited
    OBVIOUS
  <2>1. \A h \in Handlers : \A r \in proc[h].rows : r.id = proc[h].act.id
    BY DEF CommandInv, Sound, Shape
  <2> QED BY <2>1 DEF CommandInv, RowsOfSubmissions, SubmissionsAreAudited
<1> QED BY <1>1, CommandInit, CommandNext, PTL DEF Spec

-----------------------------------------------------------------------------
(* The commands implement WriteGate.  Two kinds of steps touch the history it   *)
(* speaks of: a confirmation that finds its action, and a submission.           *)

LEMMA GateStep ==
    ASSUME CommandInv, Next
    PROVE  [Gate!Next]_(Gate!gateVars)
<1>1. ASSUME NEW h \in Handlers, LoadPending(h) PROVE [Gate!Confirm]_<<confirmed, submitted>>
  <2>1. submitted' = submitted
    BY <1>1 DEF LoadPending
  <2>2. CASE pending # NoPending /\ Matches(pending, proc[h].msg.action)
    <3>1. pending.id \in Ids
      BY <2>2, PreparedFacts DEF CommandInv, CommandTypeOK
    <3>2. confirmed' = confirmed \cup {pending.id}
      BY <1>1, <2>2 DEF LoadPending, Matches
    <3> QED BY <2>1, <3>1, <3>2 DEF Gate!Confirm
  <2>3. CASE pending = NoPending \/ ~Matches(pending, proc[h].msg.action)
    BY <1>1, <2>1, <2>3 DEF LoadPending
  <2> QED BY <2>2, <2>3
<1>2. ASSUME NEW h \in Handlers, NEW ok \in BOOLEAN, NEW effect \in BOOLEAN, Call(h, ok, effect)
      PROVE Gate!Submit
  <2>1. proc[h].act.id \in confirmed
    BY <1>2 DEF Call, At, CommandInv, Sound
  <2> QED BY <1>2, <2>1 DEF Call, Gate!Submit
<1>3. ASSUME NEW h \in Handlers, HandlerStep(h), ~LoadPending(h),
             ~ \E ok, effect \in BOOLEAN : Call(h, ok, effect)
      PROVE UNCHANGED <<confirmed, submitted>>
  BY <1>3 DEF HandlerStep, LoadItems, Fetch, store_approval_context,
     store_pending_approval_action, Drop, Denied, Clear, ClearContext, Reply, ReplyFails,
     record_command_context, history
<1>4. ASSUME Arrive \/ Surroundings PROVE UNCHANGED <<confirmed, submitted>>
  BY <1>4 DEF Arrive, Receive, clear_pending_approval_action, Surroundings, ExpirePending,
     ExpireContext, DecidedElsewhere, Watchdog, history
<1> QED BY <1>1, <1>2, <1>3, <1>4 DEF Next, Gate!Next, Gate!gateVars

\* Every behaviour of the commands is one of the gate: whatever is handed to the
\* provider was prepared before, and its user confirmed that very decision on that
\* very task while it was the pending one (execute_pending_approval_action_reply).
THEOREM CommandsImplementGate == Spec => GateImplemented
<1>1. Init => Gate!Init
  BY DEF Init, Gate!Init
<1>2. CommandInv /\ [Next]_commandVars => [Gate!Next]_(Gate!gateVars)
  <2> SUFFICES ASSUME CommandInv, UNCHANGED commandVars PROVE UNCHANGED Gate!gateVars
    BY GateStep
  <2> QED BY DEF commandVars, history, Gate!gateVars
<1> QED BY <1>1, <1>2, CommandInit, CommandNext, PTL DEF Spec, GateImplemented, Gate!Spec

=============================================================================

-------------------------- MODULE ApprovalBatchProofs --------------------------
(* For any number of handlers: the types, which bound tasks and batches by clicks. *)
(* For one handler at a time and lists that name an approval once: an entry of a   *)
(* batch runs once, what is offered was ticked, and a cancelled batch stays so.    *)
EXTENDS ApprovalBatch, FiniteSetTheorems, SequenceTheorems, TLAPS

-----------------------------------------------------------------------------
(* What the handlers' steps carry, what a list of rows is, and the rows that  *)
(* a selection names.                                                        *)

Ops == SessionOps \cup {"keep", "result", "clear_result", "prepare", "card", "tell", "queue",
                        "submit", "settle"}

\* No batch has rows and no id.
Batches == {b \in [id : Nat, items : Seq(Rows)] : b.id = 0 => b.items = <<>>}

Sessions == [selection : SUBSET Indexes, seen : 0..MaxQueries, batch : Batches]

\* What is not a list has no row that names an approval.
Results == {r \in [query : 0..MaxQueries, items : Seq(Rows)] :
              IF r.query = 0 THEN \A i \in DOMAIN r.items : r.items[i] = NoteRow
                             ELSE Len(r.items) <= MaxIndex}

Steps == [op : Ops, sel : SUBSET Indexes, batch : Batches, result : Results, copy : Sessions]

Works == [todo : Seq(Steps), loaded : BOOLEAN, buf : Sessions, won : BOOLEAN]

Carries(x, op, S, b, r, s) ==
    x \in Steps /\ x.op = op /\ x.sel = S /\ x.batch = b /\ x.result = r /\ x.copy = s

Plain(x, op) == Carries(x, op, {}, NoBatch, NoResult, EmptySession)

LEMMA EmptyTyped ==
    /\ NoBatch \in Batches /\ NoBatch.id = 0 /\ NoBatch.items = <<>>
    /\ NoResult \in Results /\ NoResult.query = 0 /\ NoResult.items = <<>>
    /\ EmptySession \in Sessions /\ EmptySession.batch = NoBatch
    /\ EmptySession.selection = {} /\ EmptySession.seen = 0
    /\ Idle \in Works /\ Idle.todo = <<>> /\ ~Idle.loaded /\ Idle.buf = EmptySession
<1>1. /\ NoBatch \in Batches /\ NoBatch.id = 0 /\ NoBatch.items = <<>>
      /\ NoResult \in Results /\ NoResult.query = 0 /\ NoResult.items = <<>>
  BY BatchAssumption DEF NoBatch, Batches, NoResult, Results
<1>2. /\ EmptySession \in Sessions /\ EmptySession.batch = NoBatch
      /\ EmptySession.selection = {} /\ EmptySession.seen = 0
  BY <1>1, BatchAssumption DEF EmptySession, Sessions
<1>3. Idle \in Works /\ Idle.todo = <<>> /\ ~Idle.loaded /\ Idle.buf = EmptySession
  BY <1>2 DEF Idle, Works
<1> QED BY <1>1, <1>2, <1>3

LEMMA StepsTyped ==
    /\ \A op \in Ops : Plain(Step(op), op)
    /\ \A S \in SUBSET Indexes : Carries(SetSelection(S), "select", S, NoBatch, NoResult, EmptySession)
    /\ \A b \in Batches :
         /\ Carries(Offer(b), "offer", {}, b, NoResult, EmptySession)
         /\ \A op \in Ops : Carries([Step(op) EXCEPT !.batch = b], op, {}, b, NoResult, EmptySession)
    /\ \A r \in Results : Carries(SetResult(r), "result", {}, NoBatch, r, EmptySession)
    /\ \A s \in Sessions :
         /\ Carries(Keep(s), "keep", {}, NoBatch, NoResult, s)
         /\ Carries([Step("settle") EXCEPT !.copy = s], "settle", {}, NoBatch, NoResult, s)
<1>1. \A op \in Ops : Plain(Step(op), op)
  BY EmptyTyped DEF Plain, Carries, Step, Steps
<1>2. {"select", "offer", "result", "keep", "settle"} \subseteq Ops
  BY DEF Ops, SessionOps
<1>3. ASSUME NEW S \in SUBSET Indexes
      PROVE  Carries(SetSelection(S), "select", S, NoBatch, NoResult, EmptySession)
  BY <1>2, EmptyTyped DEF SetSelection, Carries, Step, Steps
<1>4. ASSUME NEW b \in Batches, NEW op \in Ops
      PROVE  Carries([Step(op) EXCEPT !.batch = b], op, {}, b, NoResult, EmptySession)
  BY <1>2, EmptyTyped DEF Carries, Step, Steps
<1>5. ASSUME NEW r \in Results
      PROVE  Carries(SetResult(r), "result", {}, NoBatch, r, EmptySession)
  BY <1>2, EmptyTyped DEF SetResult, Carries, Step, Steps
<1>6. ASSUME NEW s \in Sessions
      PROVE  /\ Carries(Keep(s), "keep", {}, NoBatch, NoResult, s)
             /\ Carries([Step("settle") EXCEPT !.copy = s], "settle", {}, NoBatch, NoResult, s)
  BY <1>2, EmptyTyped DEF Keep, Carries, Step, Steps
<1> QED BY <1>1, <1>2, <1>3, <1>4, <1>5, <1>6 DEF Offer

LEMMA PlainSteps ==
    /\ Plain(Touch, "touch") /\ Plain(Render, "render") /\ Plain(Clear, "clear")
    /\ Plain(Clean, "clean") /\ Plain(Step("prepare"), "prepare") /\ Plain(Step("queue"), "queue")
    /\ Plain(Step("clear_result"), "clear_result")
BY StepsTyped DEF Touch, Render, Clear, Clean, Ops, SessionOps

LEMMA ShortPrograms ==
    ASSUME NEW x \in Steps, NEW y \in Steps
    PROVE  /\ <<x, y>> \in Seq(Steps) /\ Len(<<x, y>>) = 2
           /\ <<x, y>>[1] = x /\ <<x, y>>[2] = y
OBVIOUS

LEMMA ReceiptProgram ==
    ASSUME NEW items \in Seq(Rows), Notes(items) \in Results
    PROVE  LET T == Receipt(items)
           IN /\ T \in Seq(Steps) /\ Len(T) = 3
              /\ Plain(T[1], "touch") /\ Plain(T[3], "touch")
              /\ Carries(T[2], "result", {}, NoBatch, Notes(items), EmptySession)
<1> DEFINE r == SetResult(Notes(items))
<1>1. /\ Carries(r, "result", {}, NoBatch, Notes(items), EmptySession) /\ Plain(Touch, "touch")
      /\ r \in Steps /\ Touch \in Steps
  <2>1. Carries(r, "result", {}, NoBatch, Notes(items), EmptySession) /\ Plain(Touch, "touch")
    BY StepsTyped, PlainSteps
  <2> QED BY <2>1 DEF Carries, Plain
<1> HIDE DEF r
<1>2. /\ <<Touch, r, Touch>> \in Seq(Steps) /\ Len(<<Touch, r, Touch>>) = 3
      /\ <<Touch, r, Touch>>[1] = Touch /\ <<Touch, r, Touch>>[2] = r /\ <<Touch, r, Touch>>[3] = Touch
  BY <1>1
<1> QED BY <1>1, <1>2 DEF Receipt, r

LEMMA QueryProgram ==
    ASSUME NEW s \in Sessions, NEW r \in Results
    PROVE  LET T == <<Keep(s), SetResult(r), Touch, Keep(s), Clean, Touch, Render>>
           IN /\ T \in Seq(Steps) /\ Len(T) = 7
              /\ Carries(T[1], "keep", {}, NoBatch, NoResult, s)
              /\ Carries(T[2], "result", {}, NoBatch, r, EmptySession)
              /\ Plain(T[3], "touch")
              /\ Carries(T[4], "keep", {}, NoBatch, NoResult, s)
              /\ Plain(T[5], "clean") /\ Plain(T[6], "touch") /\ Plain(T[7], "render")
<1>1. /\ Carries(Keep(s), "keep", {}, NoBatch, NoResult, s)
      /\ Carries(SetResult(r), "result", {}, NoBatch, r, EmptySession)
      /\ Plain(Touch, "touch") /\ Plain(Clean, "clean") /\ Plain(Render, "render")
      /\ {Keep(s), SetResult(r), Touch, Clean, Render} \subseteq Steps
  <2>1. /\ Carries(Keep(s), "keep", {}, NoBatch, NoResult, s)
        /\ Carries(SetResult(r), "result", {}, NoBatch, r, EmptySession)
    BY StepsTyped
  <2>2. Plain(Touch, "touch") /\ Plain(Clean, "clean") /\ Plain(Render, "render")
    BY PlainSteps
  <2> QED BY <2>1, <2>2 DEF Carries, Plain
<1> DEFINE T == <<Keep(s), SetResult(r), Touch, Keep(s), Clean, Touch, Render>>
<1>2. /\ T \in Seq(Steps) /\ Len(T) = 7
      /\ T[1] = Keep(s) /\ T[2] = SetResult(r) /\ T[3] = Touch /\ T[4] = Keep(s)
      /\ T[5] = Clean /\ T[6] = Touch /\ T[7] = Render
  BY <1>1
<1> QED BY <1>1, <1>2

LEMMA TailFacts ==
    ASSUME NEW T \in Seq(Steps), T # <<>>
    PROVE  /\ Head(T) = T[1] /\ 1 \in DOMAIN T /\ T[1] \in Steps
           /\ Tail(T) \in Seq(Steps) /\ Len(Tail(T)) = Len(T) - 1 /\ Len(T) \in Nat \ {0}
           /\ DOMAIN T = 1..Len(T) /\ DOMAIN Tail(T) = 1..(Len(T) - 1)
           /\ \A i \in 1..(Len(T) - 1) : Tail(T)[i] = T[i + 1] /\ i + 1 \in 1..Len(T)
           /\ Tail(T) = <<>> <=> Len(T) = 1
<1>1. Len(T) \in Nat \ {0} /\ DOMAIN T = 1..Len(T)
  BY EmptySeq, LenProperties
<1>2. /\ Tail(T) \in Seq(Steps) /\ Len(Tail(T)) = Len(T) - 1
      /\ \A i \in 1..Len(Tail(T)) : Tail(T)[i] = T[i + 1]
  BY HeadTailProperties
<1>3. Tail(T) = <<>> <=> Len(Tail(T)) = 0
  BY <1>2, EmptySeq
<1> QED BY <1>1, <1>2, <1>3, LenProperties

\* a \o b, place by place
LEMMA ConcatFacts ==
    ASSUME NEW S \in Seq(Steps), NEW T \in Seq(Steps)
    PROVE  /\ S \o T \in Seq(Steps) /\ Len(S \o T) = Len(S) + Len(T)
           /\ \A i \in 1..Len(S) : (S \o T)[i] = S[i]
           /\ \A i \in 1..Len(T) : (S \o T)[Len(S) + i] = T[i]
<1>1. Len(S) \in Nat /\ Len(T) \in Nat
  BY LenProperties
<1> QED BY <1>1, ConcatProperties

LEMMA LessIsWellFounded == IsWellFoundedOn({ss \in Nat \X Nat : ss[1] < ss[2]}, Nat)
BY NatLessThanWellFounded DEF OpToRel

LEMMA SmallestOf ==
    ASSUME NEW T, T \subseteq Nat, T # {}
    PROVE  \E x \in T : \A y \in T : x <= y
<1> DEFINE less == {ss \in Nat \X Nat : ss[1] < ss[2]}
<1>1. \E x \in T : \A y \in T : ~(<<y, x>> \in less)
  BY LessIsWellFounded, WFMin, Zenon
<1>2. ASSUME NEW x \in T, NEW y \in T, <<y, x>> \notin less
      PROVE  x <= y
  <2>1. x \in Nat /\ y \in Nat
    OBVIOUS
  <2>2. <<y, x>> \in Nat \X Nat
    BY <2>1
  <2>3. ~(y < x)
    BY <1>2, <2>2
  <2> QED BY <2>1, <2>3
<1> HIDE DEF less
<1> QED BY <1>1, <1>2

UpTo(S, i) == {j \in S : j <= i}

LEMMA KthExists ==
    ASSUME NEW S, S \subseteq Nat, IsFiniteSet(S), NEW k \in 1..Cardinality(S)
    PROVE  Kth(S, k) \in S /\ Cardinality({j \in S : j <= Kth(S, k)}) = k
<1> DEFINE Missed == {n \in 1..Cardinality(S) : \A i \in S : Cardinality(UpTo(S, i)) # n}
<1>1. Cardinality(S) \in Nat /\ \A i \in S : IsFiniteSet(UpTo(S, i)) /\ Cardinality(UpTo(S, i)) \in Nat
  BY FS_Subset, FS_CardinalityType DEF UpTo
<1>2. ASSUME NEW n \in Missed, \A m \in Missed : n <= m
      PROVE  FALSE
  <2>0. n \in 1..Cardinality(S) /\ \A i \in S : Cardinality(UpTo(S, i)) # n
    OBVIOUS
  <2>1. CASE n = 1
    <3>1. S # {}
      BY <1>1, <2>0, FS_EmptySet
    <3>2. PICK i \in S : \A j \in S : i <= j
      BY <3>1, SmallestOf
    <3>3. \A j \in S : j <= i <=> j = i
      BY <3>2
    <3>4. UpTo(S, i) = {i}
      BY <3>3 DEF UpTo
    <3>5. Cardinality(UpTo(S, i)) = 1
      BY <3>4, FS_Singleton
    <3> QED BY <2>0, <2>1, <3>5
  <2>2. CASE n # 1
    <3>1. n - 1 \in 1..Cardinality(S) /\ n - 1 \notin Missed
      BY <1>1, <1>2, <2>0, <2>2
    <3>2. PICK i \in S : Cardinality(UpTo(S, i)) = n - 1
      BY <3>1
    <3>3. S \ UpTo(S, i) # {}
      <4>1. CASE S \ UpTo(S, i) = {}
        <5>1. UpTo(S, i) = S
          BY <4>1 DEF UpTo
        <5>2. Cardinality(S) = n - 1
          BY <3>2, <5>1
        <5> QED BY <1>1, <2>0, <5>2
      <4> QED BY <4>1
    <3>4. PICK m \in S \ UpTo(S, i) : \A j \in S \ UpTo(S, i) : m <= j
      BY <3>3, SmallestOf
    <3>5. m \in S /\ m \in Nat /\ i \in Nat /\ i < m
      BY <3>4 DEF UpTo
    <3>6. ASSUME NEW j \in S
          PROVE  j <= m <=> (j <= i \/ j = m)
      BY <3>4, <3>5 DEF UpTo
    <3>7. UpTo(S, m) = UpTo(S, i) \cup {m} /\ m \notin UpTo(S, i)
      BY <3>5, <3>6 DEF UpTo
    <3>8. Cardinality(UpTo(S, i) \cup {m}) = Cardinality(UpTo(S, i)) + 1
      <4> DEFINE U == UpTo(S, i)
      <4>1. IsFiniteSet(U) /\ m \notin U
        BY <1>1, <3>7
      <4> HIDE DEF U
      <4>2. Cardinality(U \cup {m}) = Cardinality(U) + 1
        BY <4>1, FS_AddElement
      <4> QED BY <4>2 DEF U
    <3>9. Cardinality(UpTo(S, m)) = n
      BY <2>0, <3>2, <3>7, <3>8
    <3> QED BY <2>0, <3>5, <3>9
  <2> QED BY <2>1, <2>2
<1>3. Missed = {}
  <2>1. Missed \subseteq Nat
    OBVIOUS
  <2> HIDE DEF Missed
  <2> QED BY <1>2, <2>1, SmallestOf
<1>4. \E i \in S : Cardinality(UpTo(S, i)) = k
  BY <1>3
<1> QED BY <1>4 DEF Kth, UpTo

NoRepeat(items) ==
    \A i, j \in DOMAIN items : items[i] = items[j] /\ items[i] \in Approvals => i = j

\* The rows of a selection are rows that it names, each of them once.
LEMMA ResolveFacts ==
    ASSUME NEW items \in Seq(Rows), NEW S \in SUBSET Indexes
    PROVE  LET R == Resolve(items, S)
           IN /\ R \in Seq(Rows)
              /\ \A k \in DOMAIN R : \E i \in S : i \in DOMAIN items /\ R[k] = items[i]
              /\ NoRepeat(items) => NoRepeat(R)
<1> DEFINE inside == {i \in S : i <= Len(items)}
           R == Resolve(items, S)
           n == Cardinality(inside)
<1>1. /\ Len(items) \in Nat /\ DOMAIN items = 1..Len(items)
      /\ \A i \in 1..Len(items) : items[i] \in Rows
  BY LenProperties, ElementOfSeq
<1>2. inside \subseteq Nat /\ inside \subseteq DOMAIN items /\ inside \subseteq S
      /\ IsFiniteSet(inside) /\ n \in Nat
  <2>1. inside \subseteq 1..Len(items)
    <3>1. ASSUME NEW i \in inside
          PROVE  i \in 1..Len(items)
      <4>1. i \in 1..MaxIndex /\ i <= Len(items)
        BY DEF Indexes
      <4> QED BY <1>1, <4>1, BatchAssumption
    <3> QED BY <3>1
  <2>2. IsFiniteSet(1..Len(items))
    BY <1>1, FS_Interval
  <2> QED BY <1>1, <2>1, <2>2, FS_Subset, FS_CardinalityType
<1>3. R = [k \in 1..n |-> items[Kth(inside, k)]]
  BY DEF Resolve
<1> HIDE DEF inside, R
<1>4. \A k \in 1..n : Kth(inside, k) \in inside /\ Cardinality({j \in inside : j <= Kth(inside, k)}) = k
  BY <1>2, KthExists
<1>5. DOMAIN R = 1..n /\ \A k \in 1..n : R[k] = items[Kth(inside, k)] /\ R[k] \in Rows
  BY <1>1, <1>2, <1>3, <1>4
<1>6. R \in Seq(Rows)
  BY <1>2, <1>3, <1>5, IsASeq
<1>7. \A k \in DOMAIN R : \E i \in S : i \in DOMAIN items /\ R[k] = items[i]
  BY <1>2, <1>4, <1>5
<1>8. ASSUME NoRepeat(items), NEW k \in DOMAIN R, NEW l \in DOMAIN R, R[k] = R[l], R[k] \in Approvals
      PROVE  k = l
  <2>1. Kth(inside, k) = Kth(inside, l)
    BY <1>2, <1>4, <1>5, <1>8 DEF NoRepeat
  <2>2. k \in 1..n /\ l \in 1..n
    BY <1>5, <1>8
  <2>3. /\ Cardinality({j \in inside : j <= Kth(inside, k)}) = k
        /\ Cardinality({j \in inside : j <= Kth(inside, l)}) = l
    BY <1>4, <2>2
  <2> QED BY <2>1, <2>3
<1> QED BY <1>6, <1>7, <1>8 DEF R, NoRepeat

LEMMA NotesTyped ==
    ASSUME NEW items \in Seq(Rows)
    PROVE  Notes(items) \in Results /\ Notes(items).query = 0 /\ NoRepeat(Notes(items).items)
<1> DEFINE rows == IF items = <<>> THEN <<NoteRow>> ELSE [i \in DOMAIN items |-> NoteRow]
<1>1. NoteRow \in Rows /\ NoteRow \notin Approvals
  BY BatchAssumption DEF Rows
<1>2. Len(items) \in Nat /\ DOMAIN items = 1..Len(items)
  BY LenProperties
<1>3. [i \in DOMAIN items |-> NoteRow] \in Seq(Rows)
  BY <1>1, <1>2, IsASeq
<1>4. rows \in Seq(Rows) /\ \A i \in DOMAIN rows : rows[i] = NoteRow
  BY <1>1, <1>3
<1>5. Notes(items) = [query |-> 0, items |-> rows]
  BY DEF Notes
<1> HIDE DEF rows
<1> QED BY <1>1, <1>4, <1>5, BatchAssumption DEF Results, NoRepeat

-----------------------------------------------------------------------------
(* The inductive invariant for any number of processes.  The numbers of tasks *)
(* and batches are bounded only together with what handlers have yet to do:   *)
(* a confirming click queues one task, and a program prepares one batch.      *)

\* A step whose batch, if it has one, was handed out: n batches were, and the cards
\* in C were sent.
StepOK(x, n, C) ==
    /\ x.batch.id <= n /\ x.copy.batch.id <= n
    /\ x.op = "card" => x.batch.id # 0
    /\ x.op = "tell" => x.batch.id \in C
    /\ x.op = "submit" => x.batch.id # 0 /\ Len(x.batch.items) = 1

\* A program prepares one batch at most, and queues one task, and does so last.
WorkOK(w, n, C) ==
    /\ w \in Works
    /\ w.buf.batch.id <= n
    /\ w.loaded => w.todo # <<>>
    /\ \A i \in DOMAIN w.todo : StepOK(w.todo[i], n, C)
    /\ \A i \in DOMAIN w.todo : w.todo[i].op \in {"prepare", "queue"} => i = Len(w.todo)

Has(w, op) == \E i \in DOMAIN w.todo : w.todo[i].op = op

Count(op) == Cardinality({p \in Procs : Has(proc[p], op)})

StateOK ==
    /\ session \in Sessions /\ session.batch.id <= batches
    /\ result \in Results /\ expired \in BOOLEAN
    /\ tasks \in Nat /\ confirms \in 0..MaxConfirms /\ batches \in Nat
    /\ cards \subseteq 1..batches /\ lapsed \subseteq 1..batches
    /\ ticked \subseteq Approvals
    /\ confirmed \subseteq cards /\ cancelled \subseteq cards
    /\ \A h \in handed : h[1] \in 1..batches /\ h[2] \in Rows

\* What is about to be queued or prepared is counted already.
CountsOK ==
    /\ tasks + Count("queue") <= confirms
    /\ batches + Count("prepare") <= MaxBatches

BatchInv ==
    /\ StateOK /\ CountsOK
    /\ proc \in [Procs -> Works]
    /\ \A p \in Procs : WorkOK(proc[p], batches, cards)

LEMMA WorkTodo ==
    ASSUME NEW w \in Works
    PROVE  /\ w.todo \in Seq(Steps) /\ w.loaded \in BOOLEAN /\ w.buf \in Sessions /\ w.won \in BOOLEAN
           /\ Len(w.todo) \in Nat /\ DOMAIN w.todo = 1..Len(w.todo)
           /\ \A i \in DOMAIN w.todo : w.todo[i] \in Steps
<1>1. w.todo \in Seq(Steps) /\ w.loaded \in BOOLEAN /\ w.buf \in Sessions /\ w.won \in BOOLEAN
  BY DEF Works
<1> QED BY <1>1, LenProperties, ElementOfSeq

LEMMA SessionTyped ==
    ASSUME NEW s \in Sessions
    PROVE  /\ s.batch \in Batches /\ s.batch.id \in Nat /\ s.batch.items \in Seq(Rows)
           /\ s.batch.id = 0 => s.batch.items = <<>>
           /\ s.selection \in SUBSET Indexes /\ s.seen \in 0..MaxQueries
BY DEF Sessions, Batches

LEMMA StepTyped ==
    ASSUME NEW x \in Steps
    PROVE  /\ x.op \in Ops /\ x.sel \in SUBSET Indexes /\ x.batch \in Batches /\ x.result \in Results
           /\ x.copy \in Sessions /\ x.batch.id \in Nat /\ x.copy.batch.id \in Nat
BY DEF Steps, Batches, Sessions

LEMMA WorkKept ==
    ASSUME NEW w, NEW n \in Nat, NEW m \in {n, n + 1}, NEW C, NEW D, C \subseteq D, WorkOK(w, n, C)
    PROVE  WorkOK(w, m, D)
<1>1. w.buf.batch.id \in Nat
  BY WorkTodo, SessionTyped DEF WorkOK
<1>2. ASSUME NEW i \in DOMAIN w.todo
      PROVE  StepOK(w.todo[i], m, D)
  <2>1. StepOK(w.todo[i], n, C) /\ w.todo[i] \in Steps
    BY WorkTodo DEF WorkOK
  <2> QED BY <2>1, StepTyped DEF StepOK
<1> QED BY <1>1, <1>2 DEF WorkOK

\* A handler that begins a program
LEMMA BeginOK ==
    ASSUME NEW T \in Seq(Steps), NEW n \in Nat, NEW C,
           \A i \in DOMAIN T : StepOK(T[i], n, C),
           \A i \in DOMAIN T : T[i].op \in {"prepare", "queue"} => i = Len(T)
    PROVE  LET w == [Idle EXCEPT !.todo = T]
           IN w.todo = T /\ ~w.loaded /\ w.buf = EmptySession /\ WorkOK(w, n, C)
<1> DEFINE w == [Idle EXCEPT !.todo = T]
<1>1. w \in Works /\ w.todo = T /\ ~w.loaded /\ w.buf = EmptySession
  BY EmptyTyped DEF Works
<1> HIDE DEF w
<1>2. WorkOK(w, n, C)
  BY <1>1, EmptyTyped DEF WorkOK
<1> QED BY <1>1, <1>2 DEF w

\* A handler that has done its first step
LEMMA RestOK ==
    ASSUME NEW w, NEW n \in Nat, NEW C, WorkOK(w, n, C), w.todo # <<>>, NEW u \in Works,
           u.todo = Tail(w.todo), ~u.loaded, u.buf = EmptySession
    PROVE  /\ WorkOK(u, n, C)
           /\ \A op : Has(u, op) => Has(w, op)
           /\ \A op \in {"prepare", "queue"} : w.todo[1].op = op => ~Has(u, op) /\ Has(w, op)
<1>1. w.todo \in Seq(Steps)
  BY WorkTodo DEF WorkOK
<1>2. /\ Len(w.todo) \in Nat /\ DOMAIN w.todo = 1..Len(w.todo) /\ 1 \in DOMAIN w.todo
      /\ Len(u.todo) = Len(w.todo) - 1 /\ DOMAIN u.todo = 1..(Len(w.todo) - 1)
      /\ \A i \in DOMAIN u.todo : u.todo[i] = w.todo[i + 1] /\ i + 1 \in DOMAIN w.todo
  BY <1>1, TailFacts
<1>3. \A i \in DOMAIN u.todo : StepOK(u.todo[i], n, C)
  BY <1>2 DEF WorkOK
<1>4. \A i \in DOMAIN u.todo : u.todo[i].op \in {"prepare", "queue"} => i = Len(u.todo)
  BY <1>2 DEF WorkOK
<1>5. WorkOK(u, n, C)
  BY <1>3, <1>4, EmptyTyped DEF WorkOK
<1>6. \A op : Has(u, op) => Has(w, op)
  BY <1>2 DEF Has
<1>7. ASSUME NEW op \in {"prepare", "queue"}, w.todo[1].op = op
      PROVE  ~Has(u, op) /\ Has(w, op)
  <2>1. Len(w.todo) = 1
    BY <1>2, <1>7 DEF WorkOK
  <2>2. DOMAIN u.todo = {}
    BY <1>2, <2>1
  <2> QED BY <1>2, <1>7, <2>2 DEF Has
<1> QED BY <1>5, <1>6, <1>7

LEMMA DoneFacts ==
    ASSUME NEW p \in Procs, proc[p] \in Works, proc[p].todo # <<>>
    PROVE  /\ Done(p) => \E u \in Works :
                /\ proc' = [proc EXCEPT ![p] = u]
                /\ u.todo = Tail(proc[p].todo) /\ ~u.loaded /\ u.buf = EmptySession
           /\ \A won \in BOOLEAN : LET u == Rest(proc[p], won)
              IN u \in Works /\ u.todo = Tail(proc[p].todo) /\ ~u.loaded /\ u.buf = EmptySession
<1>1. proc[p].todo \in Seq(Steps) /\ proc[p].won \in BOOLEAN
  BY WorkTodo
<1>2. /\ Tail(proc[p].todo) \in Seq(Steps)
      /\ Len(proc[p].todo) = 1 => Tail(proc[p].todo) = <<>>
  BY <1>1, TailFacts
<1>3. ASSUME NEW won \in BOOLEAN
      PROVE  LET u == Rest(proc[p], won)
             IN u \in Works /\ u.todo = Tail(proc[p].todo) /\ ~u.loaded /\ u.buf = EmptySession
  BY <1>2, EmptyTyped DEF Rest, Works
<1>4. CASE Len(proc[p].todo) = 1
  BY <1>2, <1>3, <1>4, EmptyTyped DEF Done
<1>5. CASE Len(proc[p].todo) # 1
  BY <1>1, <1>3, <1>5 DEF Done
<1> QED BY <1>3, <1>4, <1>5

LEMMA CountStep ==
    ASSUME proc \in [Procs -> Works], NEW p \in Procs, NEW w, proc' = [proc EXCEPT ![p] = w], NEW op
    PROVE  /\ Count(op) \in Nat /\ Count(op)' \in Nat /\ Count(op)' <= Count(op) + 1
           /\ (Has(w, op) => Has(proc[p], op)) => Count(op)' <= Count(op)
           /\ Has(proc[p], op) /\ ~Has(w, op) => Count(op)' = Count(op) - 1
<1> DEFINE A == {q \in Procs : Has(proc[q], op)}
           B == {q \in Procs : Has(proc'[q], op)}
<1>1. IsFiniteSet(A) /\ IsFiniteSet(B)
  BY BatchAssumption, FS_Subset
<1>2. Count(op) = Cardinality(A) /\ Count(op)' = Cardinality(B)
  BY DEF Count, Has
<1>3. \A q \in Procs : q # p => (q \in A <=> q \in B)
  OBVIOUS
<1>4. (p \in A <=> Has(proc[p], op)) /\ (p \in B <=> Has(w, op))
  OBVIOUS
<1>5. A \subseteq Procs /\ B \subseteq Procs
  OBVIOUS
<1> HIDE DEF A, B
<1>6. Cardinality(A) \in Nat /\ Cardinality(B) \in Nat
  BY <1>1, FS_CardinalityType
<1>7. CASE p \in B /\ p \notin A
  <2>1. B = A \cup {p}
    BY <1>3, <1>5, <1>7
  <2>2. Cardinality(B) = Cardinality(A) + 1
    BY <1>1, <1>7, <2>1, FS_AddElement
  <2> QED BY <1>2, <1>4, <1>6, <1>7, <2>2
<1>8. CASE p \in A /\ p \notin B
  <2>1. B = A \ {p}
    BY <1>3, <1>5, <1>8
  <2>2. Cardinality(B) = Cardinality(A) - 1
    BY <1>1, <1>8, <2>1, FS_RemoveElement
  <2> QED BY <1>2, <1>4, <1>6, <1>8, <2>2
<1>9. CASE p \in A <=> p \in B
  <2>1. B = A
    BY <1>3, <1>5, <1>9
  <2> QED BY <1>2, <1>4, <1>6, <1>9, <2>1
<1> QED BY <1>7, <1>8, <1>9

LEMMA BatchStep ==
    ASSUME BatchInv, NEW p \in Procs, NEW w, proc' = [proc EXCEPT ![p] = w],
           WorkOK(w, batches', cards'), batches' \in {batches, batches + 1}, cards \subseteq cards',
           StateOK', CountsOK'
    PROVE  BatchInv'
<1>1. w \in Works /\ batches \in Nat
  BY DEF WorkOK, BatchInv, StateOK
<1>2. proc' \in [Procs -> Works]
  BY <1>1 DEF BatchInv
<1>3. ASSUME NEW q \in Procs
      PROVE  WorkOK(proc'[q], batches', cards')
  BY <1>1, WorkKept DEF BatchInv
<1> QED BY <1>2, <1>3 DEF BatchInv

\* A step that neither adds nor takes a task or a batch
LEMMA QuietStep ==
    ASSUME BatchInv, NEW p \in Procs, NEW w, proc' = [proc EXCEPT ![p] = w],
           UNCHANGED <<tasks, batches, confirms>>, cards \subseteq cards',
           WorkOK(w, batches, cards'), StateOK',
           \A op \in {"prepare", "queue"} : Has(w, op) => Has(proc[p], op)
    PROVE  BatchInv'
<1>1. batches \in Nat /\ tasks \in Nat /\ confirms \in Nat /\ MaxBatches \in Nat /\ CountsOK
      /\ proc \in [Procs -> Works]
  BY BatchAssumption DEF BatchInv, StateOK
<1>2. \A op \in {"prepare", "queue"} : Count(op)' <= Count(op) /\ Count(op) \in Nat /\ Count(op)' \in Nat
  BY <1>1, CountStep
<1>3. CountsOK'
  <2>1. tasks + Count("queue") <= confirms /\ batches + Count("prepare") <= MaxBatches
    BY <1>1 DEF CountsOK
  <2>2. tasks' + Count("queue")' <= confirms' /\ batches' + Count("prepare")' <= MaxBatches
    BY <1>1, <1>2, <2>1
  <2> QED BY <2>2 DEF CountsOK
<1> QED BY <1>3, BatchStep

LEMMA BatchFacts ==
    ASSUME BatchInv, NEW p \in Procs
    PROVE  LET w == proc[p]
           IN /\ StateOK /\ CountsOK /\ proc \in [Procs -> Works]
              /\ w \in Works /\ WorkOK(w, batches, cards) /\ batches \in Nat
              /\ w.todo \in Seq(Steps) /\ w.loaded \in BOOLEAN /\ w.won \in BOOLEAN
              /\ w.loaded => w.todo # <<>>
              /\ w.buf \in Sessions /\ w.buf.batch.id <= batches
              /\ w.todo # <<>> =>
                   /\ Head(w.todo) = w.todo[1] /\ 1 \in DOMAIN w.todo /\ w.todo[1] \in Steps
                   /\ StepOK(w.todo[1], batches, cards)
<1>1. proc[p] \in Works /\ WorkOK(proc[p], batches, cards)
  BY DEF BatchInv
<1>2. proc[p].todo # <<>> => Head(proc[p].todo) = proc[p].todo[1] /\ 1 \in DOMAIN proc[p].todo
  BY <1>1, WorkTodo, TailFacts
<1> QED BY <1>1, <1>2, WorkTodo DEF BatchInv, StateOK, WorkOK

\* A step that is done and that neither prepares nor queues
LEMMA DoneStep ==
    ASSUME BatchInv, NEW p \in Procs, proc[p].todo # <<>>,
           Done(p) \/ (\E won \in BOOLEAN : proc' = [proc EXCEPT ![p] = Rest(proc[p], won)]),
           UNCHANGED <<tasks, batches, confirms>>, cards \subseteq cards', StateOK'
    PROVE  BatchInv'
<1>1. PICK u \in Works : /\ proc' = [proc EXCEPT ![p] = u] /\ u.todo = Tail(proc[p].todo)
                         /\ ~u.loaded /\ u.buf = EmptySession
  BY BatchFacts, DoneFacts
<1>2. WorkOK(u, batches, cards) /\ \A op : Has(u, op) => Has(proc[p], op)
  BY <1>1, BatchFacts, RestOK
<1>3. WorkOK(u, batches, cards')
  BY <1>2, WorkKept, BatchFacts
<1> QED BY <1>1, <1>2, <1>3, QuietStep

-----------------------------------------------------------------------------
(* The programs of the handlers *)

LEMMA SelectProgram ==
    ASSUME NEW S \in SUBSET Indexes, NEW y \in {Render, Step("prepare")}
    PROVE  LET T == <<SetSelection(S), y>>
           IN /\ T \in Seq(Steps) /\ Len(T) = 2
              /\ Carries(T[1], "select", S, NoBatch, NoResult, EmptySession)
              /\ T[2] = y /\ (Plain(y, "render") \/ Plain(y, "prepare"))
<1>1. Carries(SetSelection(S), "select", S, NoBatch, NoResult, EmptySession)
  BY StepsTyped
<1>2. (Plain(y, "render") \/ Plain(y, "prepare")) /\ SetSelection(S) \in Steps /\ y \in Steps
  BY <1>1, PlainSteps DEF Plain, Carries
<1> QED BY <1>1, <1>2, ShortPrograms

LEMMA TouchProgram ==
    ASSUME NEW y \in {Render, Step("prepare")}
    PROVE  LET T == <<Touch, y>>
           IN /\ T \in Seq(Steps) /\ Len(T) = 2
              /\ Plain(T[1], "touch")
              /\ T[2] = y /\ (Plain(y, "render") \/ Plain(y, "prepare"))
<1>1. (Plain(y, "render") \/ Plain(y, "prepare")) /\ Plain(Touch, "touch")
      /\ Touch \in Steps /\ y \in Steps
  BY PlainSteps DEF Plain, Carries
<1> QED BY <1>1, ShortPrograms

LEMMA ClearProgram ==
    ASSUME NEW items \in Seq(Rows)
    PROVE  LET T == <<Clear>> \o Receipt(items)
           IN /\ T \in Seq(Steps) /\ Len(T) = 4
              /\ Plain(T[1], "clear") /\ Plain(T[2], "touch") /\ Plain(T[4], "touch")
              /\ Carries(T[3], "result", {}, NoBatch, Notes(items), EmptySession)
<1>1. Plain(Clear, "clear") /\ Clear \in Steps
  BY PlainSteps DEF Plain, Carries
<1>2. <<Clear>> \in Seq(Steps) /\ Len(<<Clear>>) = 1 /\ <<Clear>>[1] = Clear
  BY <1>1
<1> DEFINE R == Receipt(items)
<1>3. /\ R \in Seq(Steps) /\ Len(R) = 3
      /\ Plain(R[1], "touch") /\ Plain(R[3], "touch")
      /\ Carries(R[2], "result", {}, NoBatch, Notes(items), EmptySession)
  BY ReceiptProgram, NotesTyped
<1> HIDE DEF R
<1> DEFINE C == <<Clear>>
<1>0. C \in Seq(Steps) /\ Len(C) = 1 /\ C[1] = Clear
  BY <1>2
<1> HIDE DEF C
<1> DEFINE T == C \o R
<1>4. T \in Seq(Steps) /\ Len(T) = 4 /\ T[1] = Clear /\ T[2] = R[1] /\ T[3] = R[2] /\ T[4] = R[3]
  <2>a. /\ T \in Seq(Steps) /\ Len(T) = Len(C) + Len(R)
        /\ \A i \in 1..Len(C) : T[i] = C[i]
        /\ \A i \in 1..Len(R) : T[Len(C) + i] = R[i]
    BY <1>0, <1>3, ConcatFacts
  <2> HIDE DEF T
  <2>1. /\ T \in Seq(Steps) /\ Len(T) = 1 + 3
        /\ \A i \in 1..1 : T[i] = C[i]
        /\ \A i \in 1..3 : T[1 + i] = R[i]
    BY <1>0, <1>3, <2>a
  <2>2. T[1] = Clear /\ T[1 + 1] = R[1] /\ T[1 + 2] = R[2] /\ T[1 + 3] = R[3]
    BY <1>0, <2>1
  <2> QED BY <2>1, <2>2
<1> QED BY <1>1, <1>3, <1>4 DEF R, C

\* A program with one more step at its end
LEMMA OneMore ==
    ASSUME NEW S \in Seq(Steps), NEW X \in Seq(Steps), NEW x \in Steps, X = <<x>>
    PROVE  /\ S \o X \in Seq(Steps) /\ Len(S \o X) = Len(S) + 1 /\ Len(S) \in Nat
           /\ \A i \in 1..Len(S) : (S \o X)[i] = S[i]
           /\ (S \o X)[Len(S) + 1] = x
<1>1. Len(X) = 1 /\ X[1] = x /\ Len(S) \in Nat
  BY LenProperties
<1> QED BY <1>1, ConcatFacts

LEMMA CancelProgram ==
    ASSUME NEW b \in Batches
    PROVE  LET T == <<Clear>> \o Receipt(b.items) \o <<[Step("tell") EXCEPT !.batch = b]>>
           IN /\ T \in Seq(Steps) /\ Len(T) = 5
              /\ Plain(T[1], "clear") /\ Plain(T[2], "touch") /\ Plain(T[4], "touch")
              /\ Carries(T[3], "result", {}, NoBatch, Notes(b.items), EmptySession)
              /\ Carries(T[5], "tell", {}, b, NoResult, EmptySession)
<1> DEFINE S == <<Clear>> \o Receipt(b.items)
           x == [Step("tell") EXCEPT !.batch = b]
<1>1. /\ S \in Seq(Steps) /\ Len(S) = 4
      /\ Plain(S[1], "clear") /\ Plain(S[2], "touch") /\ Plain(S[4], "touch")
      /\ Carries(S[3], "result", {}, NoBatch, Notes(b.items), EmptySession)
  BY ClearProgram DEF Batches
<1>2. Carries(x, "tell", {}, b, NoResult, EmptySession) /\ x \in Steps
  BY StepsTyped DEF Carries, Ops
<1> HIDE DEF S, x
<1> DEFINE X == <<x>>
<1>0. X \in Seq(Steps) /\ X = <<x>>
  BY <1>2
<1> HIDE DEF X
<1>3. S \o X \in Seq(Steps) /\ Len(S \o X) = 5
      /\ (\A i \in 1..4 : (S \o X)[i] = S[i]) /\ (S \o X)[5] = x
  <2>1. /\ S \o X \in Seq(Steps) /\ Len(S \o X) = Len(S) + 1
        /\ \A i \in 1..Len(S) : (S \o X)[i] = S[i]
        /\ (S \o X)[Len(S) + 1] = x
    BY <1>0, <1>1, <1>2, OneMore
  <2> DEFINE T == S \o X
  <2> HIDE DEF T
  <2>2. T \in Seq(Steps) /\ Len(T) = 5 /\ (\A i \in 1..4 : T[i] = S[i]) /\ T[5] = x
    BY <1>1, <2>1 DEF T
  <2> QED BY <2>2 DEF T
<1>4. (S \o X)[1] = S[1] /\ (S \o X)[2] = S[2] /\ (S \o X)[3] = S[3] /\ (S \o X)[4] = S[4]
  BY <1>3
<1> QED BY <1>1, <1>2, <1>3, <1>4 DEF S, x, X

LEMMA ConfirmProgram ==
    ASSUME NEW items \in Seq(Rows)
    PROVE  LET T == Receipt(items) \o <<Step("queue")>>
           IN /\ T \in Seq(Steps) /\ Len(T) = 4
              /\ Plain(T[1], "touch") /\ Plain(T[3], "touch") /\ Plain(T[4], "queue")
              /\ Carries(T[2], "result", {}, NoBatch, Notes(items), EmptySession)
<1> DEFINE S == Receipt(items)
           x == Step("queue")
<1>1. /\ S \in Seq(Steps) /\ Len(S) = 3
      /\ Plain(S[1], "touch") /\ Plain(S[3], "touch")
      /\ Carries(S[2], "result", {}, NoBatch, Notes(items), EmptySession)
  BY ReceiptProgram, NotesTyped
<1>2. Plain(x, "queue") /\ x \in Steps
  BY PlainSteps DEF Carries, Plain
<1> HIDE DEF S, x
<1> DEFINE X == <<x>>
<1>0. X \in Seq(Steps) /\ X = <<x>>
  BY <1>2
<1> HIDE DEF X
<1>3. S \o X \in Seq(Steps) /\ Len(S \o X) = 4
      /\ (\A i \in 1..3 : (S \o X)[i] = S[i]) /\ (S \o X)[4] = x
  <2>1. /\ S \o X \in Seq(Steps) /\ Len(S \o X) = Len(S) + 1
        /\ \A i \in 1..Len(S) : (S \o X)[i] = S[i]
        /\ (S \o X)[Len(S) + 1] = x
    BY <1>0, <1>1, <1>2, OneMore
  <2> DEFINE T == S \o X
  <2> HIDE DEF T
  <2>2. T \in Seq(Steps) /\ Len(T) = 4 /\ (\A i \in 1..3 : T[i] = S[i]) /\ T[4] = x
    BY <1>1, <2>1 DEF T
  <2> QED BY <2>2 DEF T
<1>4. (S \o X)[1] = S[1] /\ (S \o X)[2] = S[2] /\ (S \o X)[3] = S[3]
  BY <1>3
<1> QED BY <1>1, <1>2, <1>3, <1>4 DEF S, x, X

\* The steps that hand the rows of a batch to the provider, one by one
Handing(b) == [i \in DOMAIN b.items |-> [Step("submit") EXCEPT !.batch = [id |-> b.id, items |-> <<b.items[i]>>]]]

LEMMA TaskProgram ==
    ASSUME NEW s \in Sessions, s.batch.items # <<>>
    PROVE  LET n == Len(s.batch.items)
               T == [i \in DOMAIN s.batch.items |->
                        [Step("submit") EXCEPT !.batch = [id |-> s.batch.id,
                                                          items |-> <<s.batch.items[i]>>]]]
                    \o <<[Step("settle") EXCEPT !.copy = s]>>
           IN /\ T \in Seq(Steps) /\ Len(T) = n + 1 /\ n \in Nat \ {0}
              /\ \A i \in 1..n : /\ i \in DOMAIN s.batch.items
                                 /\ Carries(T[i], "submit", {}, T[i].batch, NoResult, EmptySession)
                                 /\ T[i].batch.id = s.batch.id
                                 /\ Len(T[i].batch.items) = 1
                                 /\ T[i].batch.items[1] = s.batch.items[i]
              /\ Carries(T[n + 1], "settle", {}, NoBatch, NoResult, s)
<1> DEFINE rows == s.batch.items
           n == Len(rows)
           H == Handing(s.batch)
           x == [Step("settle") EXCEPT !.copy = s]
<1>1. rows \in Seq(Rows) /\ n \in Nat \ {0} /\ DOMAIN rows = 1..n /\ s.batch.id \in Nat
  BY SessionTyped, LenProperties, EmptySeq
<1>2. ASSUME NEW i \in 1..n
      PROVE  /\ H[i] \in Steps /\ Carries(H[i], "submit", {}, H[i].batch, NoResult, EmptySession)
             /\ H[i].batch.id = s.batch.id /\ Len(H[i].batch.items) = 1
             /\ H[i].batch.items[1] = rows[i]
  <2> DEFINE b == [id |-> s.batch.id, items |-> <<rows[i]>>]
  <2>1. rows[i] \in Rows
    BY <1>1, ElementOfSeq
  <2>2. s.batch.id # 0
    BY SessionTyped
  <2>3. <<rows[i]>> \in Seq(Rows) /\ Len(<<rows[i]>>) = 1 /\ <<rows[i]>>[1] = rows[i]
    BY <2>1
  <2>4. b \in Batches /\ b.id = s.batch.id /\ Len(b.items) = 1 /\ b.items[1] = rows[i]
    BY <1>1, <2>2, <2>3 DEF Batches
  <2>5. H[i] = [Step("submit") EXCEPT !.batch = b]
    BY <1>1 DEF Handing
  <2> HIDE DEF b, H, n
  <2>6. Carries(H[i], "submit", {}, b, NoResult, EmptySession)
    BY <2>4, <2>5, StepsTyped DEF Ops
  <2>7. H[i] \in Steps /\ H[i].batch = b
    BY <2>6 DEF Carries
  <2> QED BY <2>4, <2>6, <2>7
<1>3. H \in Seq(Steps) /\ Len(H) = n
  <2>1. H = [i \in 1..n |-> H[i]]
    BY <1>1 DEF Handing
  <2> HIDE DEF H, n
  <2> QED BY <1>1, <1>2, <2>1, IsASeq
<1>4. Carries(x, "settle", {}, NoBatch, NoResult, s) /\ x \in Steps
  BY StepsTyped DEF Carries
<1> HIDE DEF H, x, n
<1> DEFINE X == <<x>>
<1>0. X \in Seq(Steps) /\ X = <<x>>
  BY <1>4
<1> HIDE DEF X
<1>5. H \o X \in Seq(Steps) /\ Len(H \o X) = n + 1
      /\ (\A i \in 1..n : (H \o X)[i] = H[i]) /\ (H \o X)[n + 1] = x
  BY <1>0, <1>3, <1>4, OneMore
<1> QED BY <1>1, <1>2, <1>4, <1>5 DEF H, x, n, X, Handing

LEMMA SettleProgram ==
    ASSUME NEW items \in Seq(Rows), NEW won \in BOOLEAN
    PROVE  LET cleared == IF won THEN <<Step("clear_result"), Touch>> ELSE <<>>
               T == <<Touch>> \o cleared \o <<SetResult(Notes(items)), Touch>>
           IN /\ T \in Seq(Steps) /\ Len(T) >= 1
              /\ \A i \in DOMAIN T : \/ Plain(T[i], "touch") \/ Plain(T[i], "clear_result")
                                     \/ Carries(T[i], "result", {}, NoBatch, Notes(items), EmptySession)
<1> DEFINE r == SetResult(Notes(items))
           c == Step("clear_result")
<1>1. /\ Carries(r, "result", {}, NoBatch, Notes(items), EmptySession)
      /\ Plain(Touch, "touch") /\ Plain(c, "clear_result")
      /\ r \in Steps /\ Touch \in Steps /\ c \in Steps
  BY StepsTyped, PlainSteps, NotesTyped DEF Carries, Plain
<1> HIDE DEF r, c
<1> DEFINE X == {Touch, c, r}
           T == <<Touch>> \o (IF won THEN <<c, Touch>> ELSE <<>>) \o <<r, Touch>>
<1>2. T \in Seq(X) /\ Len(T) \in Nat /\ Len(T) >= 1 /\ DOMAIN T = 1..Len(T)
  <2>1. /\ <<Touch>> \in Seq(X) /\ Len(<<Touch>>) = 1 /\ <<r, Touch>> \in Seq(X) /\ Len(<<r, Touch>>) = 2
        /\ <<c, Touch>> \in Seq(X) /\ <<>> \in Seq(X)
    OBVIOUS
  <2> DEFINE A == <<Touch>>
             B == IF won THEN <<c, Touch>> ELSE <<>>
             D == <<r, Touch>>
  <2>2. A \in Seq(X) /\ B \in Seq(X) /\ D \in Seq(X) /\ Len(A) = 1 /\ Len(D) = 2
    BY <2>1
  <2> HIDE DEF A, B, D, X
  <2>3. Len(B) \in Nat /\ A \o B \in Seq(X) /\ Len(A \o B) = 1 + Len(B)
    BY <2>2, ConcatProperties, LenProperties
  <2> DEFINE E == A \o B
  <2>a. E \in Seq(X) /\ Len(E) = 1 + Len(B)
    BY <2>3
  <2> HIDE DEF E
  <2>b. E \o D \in Seq(X) /\ Len(E \o D) = Len(E) + Len(D)
    BY <2>a, <2>2, ConcatProperties
  <2>4. E \o D \in Seq(X) /\ Len(E \o D) = 1 + Len(B) + 2
    BY <2>a, <2>2, <2>b
  <2>5. T = E \o D
    BY DEF A, B, D, E
  <2> HIDE DEF T
  <2>6. DOMAIN T = 1..Len(T)
    BY <2>4, <2>5, LenProperties
  <2> QED BY <2>3, <2>4, <2>5, <2>6
<1> HIDE DEF T
<1>3. \A i \in DOMAIN T : T[i] \in X
  BY <1>2, ElementOfSeq
<1>4. T \in Seq(Steps)
  <2>1. X \subseteq Steps
    BY <1>1
  <2> HIDE DEF X
  <2> QED BY <1>2, <2>1
<1> QED BY <1>1, <1>2, <1>3, <1>4 DEF T, r, c

LEMMA PrepareProgram ==
    ASSUME NEW b \in Batches
    PROVE  LET T == <<Offer(b), SetResult(Notes(b.items)), Touch, [Step("card") EXCEPT !.batch = b], Touch>>
           IN /\ T \in Seq(Steps) /\ Len(T) = 5
              /\ Carries(T[1], "offer", {}, b, NoResult, EmptySession)
              /\ Carries(T[2], "result", {}, NoBatch, Notes(b.items), EmptySession)
              /\ Plain(T[3], "touch") /\ Plain(T[5], "touch")
              /\ Carries(T[4], "card", {}, b, NoResult, EmptySession)
<1> DEFINE r == SetResult(Notes(b.items))
           c == [Step("card") EXCEPT !.batch = b]
<1>1. /\ Carries(Offer(b), "offer", {}, b, NoResult, EmptySession)
      /\ Carries(r, "result", {}, NoBatch, Notes(b.items), EmptySession)
      /\ Plain(Touch, "touch") /\ Carries(c, "card", {}, b, NoResult, EmptySession)
      /\ {Offer(b), r, Touch, c} \subseteq Steps
  BY StepsTyped, PlainSteps, NotesTyped DEF Carries, Plain, Batches, Ops
<1> HIDE DEF r, c
<1> DEFINE T == <<Offer(b), r, Touch, c, Touch>>
<1>2. /\ T \in Seq(Steps) /\ Len(T) = 5 /\ T[1] = Offer(b) /\ T[2] = r /\ T[3] = Touch
      /\ T[4] = c /\ T[5] = Touch
  BY <1>1
<1> QED BY <1>1, <1>2 DEF r, c

-----------------------------------------------------------------------------
(* A step of a program *)

\* A session field by field
SessionIs(t, S, b, q) == t \in Sessions /\ t.selection = S /\ t.batch = b /\ t.seen = q

LEMMA StoredFacts ==
    ASSUME NEW x \in Steps, NEW s \in Sessions, result \in Results
    PROVE  LET t == Stored(x, s)
           IN /\ x.op = "select" => SessionIs(t, x.sel, s.batch, s.seen)
              /\ x.op = "offer" => SessionIs(t, s.selection, x.batch, s.seen)
              /\ x.op = "clear" => SessionIs(t, {}, NoBatch, s.seen)
              /\ x.op = "clean" => SessionIs(t, s.selection, IF s.batch.id \in lapsed THEN NoBatch ELSE s.batch, s.seen)
              /\ x.op = "render" /\ NeedsReset(s) => SessionIs(t, {}, s.batch, result.query)
              /\ x.op = "render" /\ ~NeedsReset(s) => t = s
              /\ x.op \notin {"select", "offer", "clear", "clean", "render"} => t = s
<1>1. /\ x.op \in Ops /\ x.sel \in SUBSET Indexes /\ x.batch \in Batches /\ result.query \in 0..MaxQueries
      /\ NoBatch \in Batches
  BY StepTyped, EmptyTyped DEF Results
<1>2. CASE x.op = "select"
  BY <1>1, <1>2 DEF Stored, SessionIs, Sessions
<1>3. CASE x.op = "offer"
  BY <1>1, <1>3 DEF Stored, SessionIs, Sessions
<1>4. CASE x.op = "clear"
  BY <1>1, <1>4 DEF Stored, SessionIs, Sessions, WithoutBatch
<1>5. CASE x.op = "clean"
  BY <1>1, <1>5 DEF Stored, SessionIs, Sessions
<1>6. CASE x.op = "render" /\ NeedsReset(s)
  BY <1>1, <1>6 DEF Stored, SessionIs, Sessions, Rendered
<1>7. CASE x.op = "render" /\ ~NeedsReset(s)
  BY <1>7 DEF Stored
<1>8. CASE x.op \notin {"select", "offer", "clear", "clean", "render"}
  BY <1>8 DEF Stored
<1> QED BY <1>2, <1>3, <1>4, <1>5, <1>6, <1>7, <1>8

LEMMA StoredTyped ==
    ASSUME NEW x \in Steps, NEW s \in Sessions, result \in Results, NEW n \in Nat,
           x.batch.id <= n, s.batch.id <= n
    PROVE  Stored(x, s) \in Sessions /\ Stored(x, s).batch.id <= n
BY StoredFacts, EmptyTyped DEF SessionIs

LEMMA LoadKeeps ==
    ASSUME BatchInv, NEW p \in Procs, LoadSession(p)
    PROVE  BatchInv'
<1> DEFINE w == [proc[p] EXCEPT !.loaded = TRUE, !.buf = session]
<1>1. proc' = [proc EXCEPT ![p] = w] /\ proc[p].todo # <<>>
      /\ UNCHANGED <<session, result, expired, cards, bounds, history>>
  BY DEF LoadSession, IsIdle
<1>2. StateOK' /\ UNCHANGED <<tasks, batches, confirms>> /\ cards \subseteq cards'
  BY <1>1 DEF BatchInv, StateOK, bounds, history
<1>3. w \in Works /\ w.todo = proc[p].todo /\ w.loaded /\ w.buf = session
  BY BatchFacts DEF Works, StateOK
<1> HIDE DEF w
<1>4. WorkOK(w, batches, cards)
  BY <1>1, <1>3, BatchFacts DEF WorkOK, StateOK
<1>5. \A op : Has(w, op) => Has(proc[p], op)
  BY <1>3 DEF Has
<1> QED BY <1>1, <1>2, <1>4, <1>5, QuietStep

LEMMA StoreKeeps ==
    ASSUME BatchInv, NEW p \in Procs, StoreSession(p)
    PROVE  BatchInv'
<1>1. /\ proc[p].todo # <<>> /\ Done(p) /\ session' = Stored(proc[p].todo[1], proc[p].buf)
      /\ UNCHANGED <<result, expired, cards, bounds, history>>
  BY BatchFacts DEF StoreSession
<1>2. session' \in Sessions /\ session'.batch.id <= batches
  BY <1>1, BatchFacts, StoredTyped DEF StateOK, StepOK
<1>3. StateOK'
  BY <1>1, <1>2 DEF BatchInv, StateOK, bounds, history
<1> QED BY <1>1, <1>3, DoneStep DEF bounds

LEMMA KeepKeeps ==
    ASSUME BatchInv, NEW p \in Procs, KeepSession(p)
    PROVE  BatchInv'
<1>1. /\ proc[p].todo # <<>> /\ Done(p) /\ session' = proc[p].todo[1].copy
      /\ UNCHANGED <<result, expired, cards, bounds, history>>
  BY BatchFacts DEF KeepSession, At, IsIdle
<1>2. session' \in Sessions /\ session'.batch.id <= batches
  BY <1>1, BatchFacts, StepTyped DEF StepOK
<1>3. StateOK'
  BY <1>1, <1>2 DEF BatchInv, StateOK, bounds, history
<1> QED BY <1>1, <1>3, DoneStep DEF bounds

LEMMA ResultKeeps ==
    ASSUME BatchInv, NEW p \in Procs, SaveResult(p) \/ ClearResult(p)
    PROVE  BatchInv'
<1>1. /\ proc[p].todo # <<>> /\ Done(p) /\ result' \in {proc[p].todo[1].result, NoResult}
      /\ expired' \in BOOLEAN
      /\ UNCHANGED <<session, cards, bounds, history>>
  BY BatchFacts DEF SaveResult, ClearResult, At, IsIdle
<1>2. result' \in Results
  BY <1>1, BatchFacts, StepTyped, EmptyTyped
<1>3. StateOK'
  BY <1>1, <1>2 DEF BatchInv, StateOK, bounds, history
<1> QED BY <1>1, <1>3, DoneStep DEF bounds

LEMMA CardKeeps ==
    ASSUME BatchInv, NEW p \in Procs, SendCard(p)
    PROVE  BatchInv'
<1>1. /\ proc[p].todo # <<>> /\ Done(p) /\ cards' = cards \cup {proc[p].todo[1].batch.id}
      /\ proc[p].todo[1].op = "card"
      /\ UNCHANGED <<session, result, expired, bounds, history>>
  BY BatchFacts DEF SendCard, At, IsIdle
<1>2. proc[p].todo[1].batch.id \in 1..batches
  BY <1>1, BatchFacts, StepTyped DEF StepOK
<1>3. StateOK'
  BY <1>1, <1>2 DEF BatchInv, StateOK, bounds, history
<1> QED BY <1>1, <1>3, DoneStep DEF bounds

LEMMA TellKeeps ==
    ASSUME BatchInv, NEW p \in Procs, TellCancelled(p)
    PROVE  BatchInv'
<1>1. /\ proc[p].todo # <<>> /\ Done(p) /\ cancelled' = cancelled \cup {proc[p].todo[1].batch.id}
      /\ proc[p].todo[1].op = "tell"
      /\ UNCHANGED <<session, result, expired, cards, bounds, ticked, confirmed, handed>>
  BY BatchFacts DEF TellCancelled, At, IsIdle
<1>2. proc[p].todo[1].batch.id \in cards
  BY <1>1, BatchFacts DEF StepOK
<1>3. StateOK'
  BY <1>1, <1>2 DEF BatchInv, StateOK, bounds
<1> QED BY <1>1, <1>3, DoneStep DEF bounds

LEMMA HandTyped ==
    ASSUME BatchInv, NEW p \in Procs, At(p, "submit"), Hand(Head(proc[p].todo).batch)
    PROVE  \A h \in handed' : h[1] \in 1..batches /\ h[2] \in Rows
<1> DEFINE b == proc[p].todo[1].batch
           t == Times(b.id, b.items[1]) + 1
<1>1. /\ proc[p].todo # <<>> /\ proc[p].todo[1].op = "submit" /\ proc[p].todo[1] \in Steps
      /\ StepOK(proc[p].todo[1], batches, cards) /\ batches \in Nat
      /\ Head(proc[p].todo) = proc[p].todo[1]
  BY BatchFacts DEF At, IsIdle
<1>2. b.id \in 1..batches /\ Len(b.items) = 1 /\ b.items \in Seq(Rows)
  BY <1>1, StepTyped DEF StepOK, Batches
<1>3. handed' = handed \cup {<<b.id, b.items[1], t>>}
  BY <1>1 DEF Hand
<1> HIDE DEF b, t
<1>4. b.items[1] \in Rows
  BY <1>2, ElementOfSeq
<1>5. <<b.id, b.items[1], t>>[1] = b.id /\ <<b.id, b.items[1], t>>[2] = b.items[1]
  OBVIOUS
<1> QED BY <1>2, <1>3, <1>4, <1>5 DEF BatchInv, StateOK

LEMMA SubmitKeeps ==
    ASSUME BatchInv, NEW p \in Procs, NEW success \in BOOLEAN, Submit(p, success)
    PROVE  BatchInv'
<1>1. /\ proc[p].todo # <<>> /\ At(p, "submit") /\ Hand(Head(proc[p].todo).batch)
      /\ proc' = [proc EXCEPT ![p] = Rest(proc[p], proc[p].won \/ success)]
      /\ UNCHANGED <<session, result, expired, cards, bounds, ticked, confirmed, cancelled>>
  BY DEF Submit, At, IsIdle
<1>2. (proc[p].won \/ success) \in BOOLEAN
  OBVIOUS
<1>3. StateOK'
  <2>1. \A h \in handed' : h[1] \in 1..batches /\ h[2] \in Rows
    BY <1>1, HandTyped
  <2> QED BY <1>1, <2>1 DEF BatchInv, StateOK, bounds
<1> QED BY <1>1, <1>2, <1>3, DoneStep DEF bounds

\* A handler begins a program that prepares and queues nothing, or goes on with one.
LEMMA QuietProgram ==
    ASSUME BatchInv, NEW p \in Procs, NEW T \in Seq(Steps), Continue(p, T),
           UNCHANGED <<tasks, batches, confirms, cards>>, StateOK',
           \A i \in DOMAIN T : StepOK(T[i], batches, cards) /\ T[i].op \notin {"prepare", "queue"}
    PROVE  BatchInv'
<1> DEFINE w == [Idle EXCEPT !.todo = T]
<1>1. w.todo = T /\ WorkOK(w, batches, cards)
  BY BeginOK DEF BatchInv, StateOK
<1>2. proc' = [proc EXCEPT ![p] = w]
  BY DEF Continue
<1> HIDE DEF w
<1>3. \A op \in {"prepare", "queue"} : ~Has(w, op)
  BY <1>1 DEF Has
<1> QED BY <1>1, <1>2, <1>3, QuietStep

-----------------------------------------------------------------------------
(* What begins a program *)

\* The steps of a program, by what they carry
LEMMA SoundSteps ==
    ASSUME batches \in Nat
    PROVE  /\ \A x : Plain(x, "touch") => StepOK(x, batches, cards) /\ x.op = "touch"
           /\ \A x : Plain(x, "render") => StepOK(x, batches, cards) /\ x.op = "render"
           /\ \A x : Plain(x, "clear") => StepOK(x, batches, cards) /\ x.op = "clear"
           /\ \A x : Plain(x, "clean") => StepOK(x, batches, cards) /\ x.op = "clean"
           /\ \A x : Plain(x, "clear_result") => StepOK(x, batches, cards) /\ x.op = "clear_result"
           /\ \A x : Plain(x, "prepare") => StepOK(x, batches, cards) /\ x.op = "prepare"
           /\ \A x : Plain(x, "queue") => StepOK(x, batches, cards) /\ x.op = "queue"
           /\ \A x, r : Carries(x, "result", {}, NoBatch, r, EmptySession)
                          => StepOK(x, batches, cards) /\ x.op = "result"
           /\ \A x, S : Carries(x, "select", S, NoBatch, NoResult, EmptySession)
                          => StepOK(x, batches, cards) /\ x.op = "select"
           /\ \A x, s : s.batch.id <= batches =>
                /\ Carries(x, "keep", {}, NoBatch, NoResult, s) => StepOK(x, batches, cards) /\ x.op = "keep"
                /\ Carries(x, "settle", {}, NoBatch, NoResult, s) => StepOK(x, batches, cards) /\ x.op = "settle"
           /\ \A x, b : b.id \in cards /\ b.id <= batches /\ Carries(x, "tell", {}, b, NoResult, EmptySession)
                          => StepOK(x, batches, cards) /\ x.op = "tell"
BY EmptyTyped DEF Plain, Carries, StepOK

\* A handler begins a program that may end in the preparation of a batch.
LEMMA PreparingProgram ==
    ASSUME BatchInv, NEW p \in Procs, NEW T \in Seq(Steps), Len(T) = 2, Begin(p, T), MayPrepare,
           UNCHANGED <<tasks, batches, confirms, cards>>, StateOK',
           \A i \in DOMAIN T : StepOK(T[i], batches, cards),
           T[1].op \notin {"prepare", "queue"}, T[2].op # "queue"
    PROVE  BatchInv'
<1> DEFINE w == [Idle EXCEPT !.todo = T]
<1>1. DOMAIN T = 1..2 /\ batches \in Nat /\ tasks \in Nat /\ confirms \in Nat /\ MaxBatches \in Nat
      /\ CountsOK /\ proc \in [Procs -> Works]
  BY BatchAssumption, LenProperties DEF BatchInv, StateOK
<1>2. \A i \in DOMAIN T : T[i].op \in {"prepare", "queue"} => i = Len(T)
  BY <1>1
<1>3. w.todo = T /\ WorkOK(w, batches, cards)
  BY <1>1, <1>2, BeginOK
<1>4. proc' = [proc EXCEPT ![p] = w] /\ proc[p].todo = <<>>
  BY DEF Continue, Begin, IsIdle
<1> HIDE DEF w
<1>5. ~Has(w, "queue")
  BY <1>1, <1>3 DEF Has
<1>6. Count("queue")' <= Count("queue") /\ Count("queue") \in Nat /\ Count("queue")' \in Nat
  BY <1>1, <1>4, <1>5, CountStep
<1>7. Count("prepare")' <= Count("prepare") + 1 /\ Count("prepare") \in Nat /\ Count("prepare")' \in Nat
  BY <1>1, <1>4, CountStep
<1>8. batches + Count("prepare") < MaxBatches
  BY DEF MayPrepare, Count, Has
<1>9. CountsOK'
  <2>1. tasks + Count("queue") <= confirms
    BY <1>1 DEF CountsOK
  <2>2. tasks' + Count("queue")' <= confirms' /\ batches' + Count("prepare")' <= MaxBatches
    BY <1>1, <1>6, <1>7, <1>8, <2>1
  <2> QED BY <2>2 DEF CountsOK
<1>10. WorkOK(w, batches', cards') /\ cards \subseteq cards' /\ batches' \in {batches, batches + 1}
  BY <1>3
<1> QED BY <1>4, <1>9, <1>10, BatchStep

LEMMA SelectionTyped ==
    ASSUME BatchInv
    PROVE  /\ \A i \in Indexes : Toggle(session.selection, i) \in SUBSET Indexes
           /\ group_indexes(result.items) \in SUBSET Indexes
           /\ {result.items[i] : i \in group_indexes(result.items)} \subseteq Approvals
<1>1. session.selection \in SUBSET Indexes /\ result \in Results
  BY SessionTyped DEF BatchInv, StateOK
<1>2. \A i \in Indexes : Toggle(session.selection, i) \in SUBSET Indexes
  BY <1>1 DEF Toggle
<1>3. {result.items[i] : i \in group_indexes(result.items)} \subseteq Approvals
  BY BatchAssumption DEF group_indexes
<1>4. ASSUME NEW i \in group_indexes(result.items)
      PROVE  i \in Indexes
  <2>1. i \in DOMAIN result.items /\ result.items[i] \in Approvals
    BY <1>4, BatchAssumption DEF group_indexes
  <2>2. result.query # 0
    BY <1>1, <2>1, BatchAssumption DEF Results
  <2>3. Len(result.items) <= MaxIndex /\ result.items \in Seq(Rows)
    BY <1>1, <2>2 DEF Results
  <2>4. DOMAIN result.items = 1..Len(result.items) /\ Len(result.items) \in Nat
    BY <2>3, LenProperties
  <2> QED BY <2>1, <2>3, <2>4, BatchAssumption DEF Indexes
<1> QED BY <1>2, <1>3, <1>4

LEMMA WorkbenchKeeps ==
    ASSUME BatchInv, NEW p \in Procs, Workbench(p)
    PROVE  BatchInv'
<1>0. batches \in Nat
  BY DEF BatchInv, StateOK
<1>1. ASSUME NEW i \in Indexes, Select(p, i)
      PROVE  BatchInv'
  <2> DEFINE S == Toggle(session.selection, i)
             T == <<SetSelection(S), Render>>
  <2>1. S \in SUBSET Indexes
    BY SelectionTyped
  <2> HIDE DEF S
  <2>2. T \in Seq(Steps) /\ Len(T) = 2
        /\ Carries(T[1], "select", S, NoBatch, NoResult, EmptySession) /\ Plain(T[2], "render")
    BY <2>1, SelectProgram, PlainSteps
  <2>3. Continue(p, T) /\ UNCHANGED <<session, result, expired, cards, bounds, confirmed, cancelled, handed>>
        /\ ticked' \subseteq Approvals
    BY <1>1 DEF Select, Begin, S, BatchInv, StateOK
  <2>4. StateOK' /\ UNCHANGED <<tasks, batches, confirms, cards>>
    BY <2>3 DEF BatchInv, StateOK, bounds
  <2> HIDE DEF T
  <2>5. \A j \in DOMAIN T : StepOK(T[j], batches, cards) /\ T[j].op \notin {"prepare", "queue"}
    BY <1>0, <2>2, SoundSteps, LenProperties
  <2> QED BY <2>2, <2>3, <2>4, <2>5, QuietProgram
<1>2. ASSUME Fold(p)
      PROVE  BatchInv'
  <2> DEFINE T == <<Touch, Render>>
  <2>1. T \in Seq(Steps) /\ Len(T) = 2 /\ Plain(T[1], "touch") /\ Plain(T[2], "render")
    BY TouchProgram, PlainSteps
  <2>2. Continue(p, T) /\ UNCHANGED <<session, result, expired, cards, bounds, history>>
    BY <1>2 DEF Fold, Begin
  <2>3. StateOK' /\ UNCHANGED <<tasks, batches, confirms, cards>>
    BY <2>2 DEF BatchInv, StateOK, bounds, history
  <2> HIDE DEF T
  <2>4. \A j \in DOMAIN T : StepOK(T[j], batches, cards) /\ T[j].op \notin {"prepare", "queue"}
    BY <1>0, <2>1, SoundSteps, LenProperties
  <2> QED BY <2>1, <2>2, <2>3, <2>4, QuietProgram
<1>3. ASSUME ClearSelection(p)
      PROVE  BatchInv'
  <2> DEFINE T == <<SetSelection({}), Render>>
  <2>2. T \in Seq(Steps) /\ Len(T) = 2
        /\ Carries(T[1], "select", {}, NoBatch, NoResult, EmptySession) /\ Plain(T[2], "render")
    BY SelectProgram, PlainSteps
  <2>3. Continue(p, T) /\ UNCHANGED <<session, result, expired, cards, bounds, confirmed, cancelled, handed>>
        /\ ticked' \subseteq Approvals
    BY <1>3 DEF ClearSelection, Begin
  <2>4. StateOK' /\ UNCHANGED <<tasks, batches, confirms, cards>>
    BY <2>3 DEF BatchInv, StateOK, bounds
  <2> HIDE DEF T
  <2>5. \A j \in DOMAIN T : StepOK(T[j], batches, cards) /\ T[j].op \notin {"prepare", "queue"}
    BY <1>0, <2>2, SoundSteps, LenProperties
  <2> QED BY <2>2, <2>3, <2>4, <2>5, QuietProgram
<1>4. ASSUME BatchApprove(p)
      PROVE  BatchInv'
  <2> DEFINE T == <<Touch, Step("prepare")>>
  <2>1. T \in Seq(Steps) /\ Len(T) = 2 /\ Plain(T[1], "touch") /\ Plain(T[2], "prepare")
    BY TouchProgram, PlainSteps
  <2>2. Begin(p, T) /\ MayPrepare /\ UNCHANGED <<session, result, expired, cards, bounds, history>>
    BY <1>4 DEF BatchApprove
  <2>3. StateOK' /\ UNCHANGED <<tasks, batches, confirms, cards>>
    BY <2>2 DEF BatchInv, StateOK, bounds, history
  <2> HIDE DEF T
  <2>4. /\ \A j \in DOMAIN T : StepOK(T[j], batches, cards)
        /\ T[1].op = "touch" /\ T[2].op = "prepare"
    BY <1>0, <2>1, SoundSteps, LenProperties
  <2> QED BY <2>1, <2>2, <2>3, <2>4, PreparingProgram
<1>5. ASSUME BatchApproveGroup(p)
      PROVE  BatchInv'
  <2> DEFINE S == group_indexes(result.items)
             T == <<SetSelection(S), Step("prepare")>>
  <2>1. S \in SUBSET Indexes
    BY SelectionTyped
  <2>3. Begin(p, T) /\ MayPrepare
        /\ UNCHANGED <<session, result, expired, cards, bounds, confirmed, cancelled, handed>>
        /\ ticked' \subseteq Approvals
    BY <1>5, SelectionTyped DEF BatchApproveGroup
  <2> HIDE DEF S
  <2>2. T \in Seq(Steps) /\ Len(T) = 2
        /\ Carries(T[1], "select", S, NoBatch, NoResult, EmptySession) /\ Plain(T[2], "prepare")
    BY <2>1, SelectProgram, PlainSteps
  <2>4. StateOK' /\ UNCHANGED <<tasks, batches, confirms, cards>>
    BY <2>3 DEF BatchInv, StateOK, bounds
  <2> HIDE DEF T
  <2>5. /\ \A j \in DOMAIN T : StepOK(T[j], batches, cards)
        /\ T[1].op = "select" /\ T[2].op = "prepare"
    BY <1>0, <2>2, SoundSteps, LenProperties
  <2> QED BY <2>2, <2>3, <2>4, <2>5, PreparingProgram
<1> QED BY <1>1, <1>2, <1>3, <1>4, <1>5 DEF Workbench

LEMMA ReceiptKeeps ==
    ASSUME BatchInv, NEW p \in Procs, NEW items \in Seq(Rows), Continue(p, Receipt(items)),
           UNCHANGED <<tasks, batches, confirms, cards>>, StateOK'
    PROVE  BatchInv'
<1> DEFINE T == Receipt(items)
<1>1. T \in Seq(Steps) /\ Len(T) = 3 /\ Plain(T[1], "touch") /\ Plain(T[3], "touch")
      /\ Carries(T[2], "result", {}, NoBatch, Notes(items), EmptySession)
  BY NotesTyped, ReceiptProgram
<1>2. batches \in Nat
  BY DEF BatchInv, StateOK
<1> HIDE DEF T
<1>3. \A j \in DOMAIN T : StepOK(T[j], batches, cards) /\ T[j].op \notin {"prepare", "queue"}
  BY <1>1, <1>2, SoundSteps, LenProperties
<1>4. Continue(p, T)
  BY DEF T
<1> QED BY <1>1, <1>3, <1>4, QuietProgram

LEMMA ClickKeeps ==
    ASSUME BatchInv, NEW p \in Procs, NEW id,
           ClickStale(p, id) \/ ClickExpired(p, id) \/ ClickCancel(p, id)
    PROVE  BatchInv'
<1> DEFINE items == session.batch.items
<1>1. /\ session \in Sessions /\ session.batch \in Batches /\ items \in Seq(Rows) /\ session.batch.id <= batches
      /\ batches \in Nat /\ items = session.batch.items
  BY SessionTyped DEF BatchInv, StateOK
<1> HIDE DEF items
<1>2. UNCHANGED <<session, result, expired, cards, bounds, history>>
  BY DEF ClickStale, ClickExpired, ClickCancel
<1>3. StateOK' /\ UNCHANGED <<tasks, batches, confirms, cards>>
  BY <1>2 DEF BatchInv, StateOK, bounds, history
<1>4. CASE ClickStale(p, id)
  BY <1>1, <1>3, <1>4, ReceiptKeeps DEF ClickStale, Begin
<1>5. CASE ClickExpired(p, id)
  <2> DEFINE T == <<Clear>> \o Receipt(items)
  <2>1. /\ T \in Seq(Steps) /\ Len(T) = 4
        /\ Plain(T[1], "clear") /\ Plain(T[2], "touch") /\ Plain(T[4], "touch")
        /\ Carries(T[3], "result", {}, NoBatch, Notes(items), EmptySession)
    BY <1>1, ClearProgram
  <2>2. Continue(p, T)
    BY <1>1, <1>5 DEF ClickExpired, Begin
  <2> HIDE DEF T
  <2>3. \A j \in DOMAIN T : StepOK(T[j], batches, cards) /\ T[j].op \notin {"prepare", "queue"}
    BY <1>1, <2>1, SoundSteps, LenProperties
  <2> QED BY <1>3, <2>1, <2>2, <2>3, QuietProgram
<1>6. CASE ClickCancel(p, id)
  <2> DEFINE b == session.batch
             T == <<Clear>> \o Receipt(b.items) \o <<[Step("tell") EXCEPT !.batch = b]>>
  <2>0. b \in Batches /\ b.id <= batches /\ b.id \in cards /\ b.id # 0
    BY <1>1, <1>6 DEF ClickCancel, IsPending, BatchInv, StateOK
  <2>2. Continue(p, T)
    BY <1>6 DEF ClickCancel, Begin
  <2> HIDE DEF b
  <2>1. /\ T \in Seq(Steps) /\ Len(T) = 5
        /\ Plain(T[1], "clear") /\ Plain(T[2], "touch") /\ Plain(T[4], "touch")
        /\ Carries(T[3], "result", {}, NoBatch, Notes(b.items), EmptySession)
        /\ Carries(T[5], "tell", {}, b, NoResult, EmptySession)
    BY <2>0, CancelProgram
  <2> HIDE DEF T
  <2>3. \A j \in DOMAIN T : StepOK(T[j], batches, cards) /\ T[j].op \notin {"prepare", "queue"}
    <3>1. DOMAIN T = 1..5
      BY <2>1, LenProperties
    <3>2. /\ StepOK(T[1], batches, cards) /\ T[1].op = "clear" /\ StepOK(T[2], batches, cards) /\ T[2].op = "touch"
          /\ StepOK(T[3], batches, cards) /\ T[3].op = "result" /\ StepOK(T[4], batches, cards) /\ T[4].op = "touch"
      BY <1>1, <2>1, SoundSteps
    <3>3. StepOK(T[5], batches, cards) /\ T[5].op = "tell"
      BY <1>1, <2>0, <2>1, SoundSteps
    <3>4. \A j \in 1..5 : j = 1 \/ j = 2 \/ j = 3 \/ j = 4 \/ j = 5
      OBVIOUS
    <3> QED BY <3>1, <3>2, <3>3, <3>4
  <2> QED BY <1>3, <2>1, <2>2, <2>3, QuietProgram
<1> QED BY <1>4, <1>5, <1>6

LEMMA ConfirmKeeps ==
    ASSUME BatchInv, NEW p \in Procs, NEW id, ClickConfirm(p, id)
    PROVE  BatchInv'
<1> DEFINE T == Receipt(session.batch.items) \o <<Step("queue")>>
           w == [Idle EXCEPT !.todo = T]
<1>1. /\ session.batch.items \in Seq(Rows) /\ batches \in Nat /\ tasks \in Nat /\ confirms \in Nat
      /\ MaxConfirms \in Nat /\ CountsOK /\ proc \in [Procs -> Works] /\ MaxBatches \in Nat
  BY SessionTyped, BatchAssumption DEF BatchInv, StateOK
<1>2. /\ T \in Seq(Steps) /\ Len(T) = 4
      /\ Plain(T[1], "touch") /\ Plain(T[3], "touch") /\ Plain(T[4], "queue")
      /\ Carries(T[2], "result", {}, NoBatch, Notes(session.batch.items), EmptySession)
  BY <1>1, ConfirmProgram
<1>3. /\ id \in cards /\ confirms < MaxConfirms /\ confirms' = confirms + 1 /\ confirmed' = confirmed \cup {id}
      /\ UNCHANGED <<session, result, expired, cards, tasks, batches, lapsed, crashes, ticked, cancelled, handed>>
      /\ proc' = [proc EXCEPT ![p] = w] /\ proc[p].todo = <<>>
  BY DEF ClickConfirm, Begin, Continue, IsIdle
<1> HIDE DEF T
<1>4. \A j \in DOMAIN T : StepOK(T[j], batches, cards) /\ T[j].op # "prepare" /\ (T[j].op = "queue" => j = Len(T))
  <2>1. DOMAIN T = 1..4
    BY <1>2, LenProperties
  <2>2. /\ StepOK(T[1], batches, cards) /\ T[1].op = "touch" /\ StepOK(T[2], batches, cards) /\ T[2].op = "result"
        /\ StepOK(T[3], batches, cards) /\ T[3].op = "touch" /\ StepOK(T[4], batches, cards) /\ T[4].op = "queue"
    BY <1>1, <1>2, SoundSteps
  <2>3. \A j \in 1..4 : j = 1 \/ j = 2 \/ j = 3 \/ j = 4
    OBVIOUS
  <2> QED BY <1>2, <2>1, <2>2, <2>3
<1>5. w.todo = T /\ WorkOK(w, batches, cards)
  BY <1>1, <1>2, <1>4, BeginOK
<1> HIDE DEF w
<1>6. ~Has(w, "prepare")
  BY <1>4, <1>5 DEF Has
<1>7. Count("prepare")' <= Count("prepare") /\ Count("prepare") \in Nat /\ Count("prepare")' \in Nat
  BY <1>1, <1>3, <1>6, CountStep
<1>8. Count("queue")' <= Count("queue") + 1 /\ Count("queue") \in Nat /\ Count("queue")' \in Nat
  BY <1>1, <1>3, CountStep
<1>9. CountsOK'
  <2>1. tasks + Count("queue") <= confirms /\ batches + Count("prepare") <= MaxBatches
    BY <1>1 DEF CountsOK
  <2>2. tasks' + Count("queue")' <= confirms' /\ batches' + Count("prepare")' <= MaxBatches
    BY <1>1, <1>3, <1>7, <1>8, <2>1
  <2> QED BY <2>2 DEF CountsOK
<1>10. StateOK'
  BY <1>1, <1>3 DEF BatchInv, StateOK
<1>11. WorkOK(w, batches', cards') /\ cards \subseteq cards' /\ batches' \in {batches, batches + 1}
  BY <1>3, <1>5
<1> QED BY <1>3, <1>9, <1>10, <1>11, BatchStep

LEMMA QueueKeeps ==
    ASSUME BatchInv, NEW p \in Procs, Queue(p)
    PROVE  BatchInv'
<1>1. /\ proc[p].todo # <<>> /\ Done(p) /\ tasks' = tasks + 1 /\ proc[p].todo[1].op = "queue"
      /\ UNCHANGED <<session, result, expired, cards, batches, confirms, lapsed, crashes, history>>
  BY BatchFacts DEF Queue, At, IsIdle
<1>2. /\ batches \in Nat /\ tasks \in Nat /\ confirms \in Nat /\ MaxBatches \in Nat
      /\ CountsOK /\ proc \in [Procs -> Works] /\ WorkOK(proc[p], batches, cards)
  BY BatchFacts, BatchAssumption DEF BatchInv, StateOK
<1>3. PICK u \in Works : /\ proc' = [proc EXCEPT ![p] = u] /\ u.todo = Tail(proc[p].todo)
                         /\ ~u.loaded /\ u.buf = EmptySession
  BY <1>1, BatchFacts, DoneFacts
<1>4. WorkOK(u, batches, cards) /\ (\A op : Has(u, op) => Has(proc[p], op))
      /\ ~Has(u, "queue") /\ Has(proc[p], "queue")
  BY <1>1, <1>2, <1>3, RestOK
<1>5. Count("queue")' = Count("queue") - 1 /\ Count("queue") \in Nat /\ Count("queue")' \in Nat
  BY <1>2, <1>3, <1>4, CountStep
<1>6. Count("prepare")' <= Count("prepare") /\ Count("prepare") \in Nat /\ Count("prepare")' \in Nat
  BY <1>2, <1>3, <1>4, CountStep
<1>7. CountsOK'
  <2>1. tasks + Count("queue") <= confirms /\ batches + Count("prepare") <= MaxBatches
    BY <1>2 DEF CountsOK
  <2>2. tasks' + Count("queue")' <= confirms' /\ batches' + Count("prepare")' <= MaxBatches
    BY <1>1, <1>2, <1>5, <1>6, <2>1
  <2> QED BY <2>2 DEF CountsOK
<1>8. StateOK'
  BY <1>1, <1>2 DEF BatchInv, StateOK, history
<1>9. WorkOK(u, batches', cards') /\ cards \subseteq cards' /\ batches' \in {batches, batches + 1}
  BY <1>1, <1>4
<1> QED BY <1>3, <1>7, <1>8, <1>9, BatchStep

LEMMA WithoutFacts ==
    ASSUME NEW s \in Sessions
    PROVE  SessionIs(WithoutBatch(s), {}, NoBatch, s.seen)
<1>1. {} \in SUBSET Indexes /\ NoBatch \in Batches
  BY EmptyTyped
<1> QED BY <1>1 DEF WithoutBatch, Sessions, SessionIs

LEMMA PrepareKeeps ==
    ASSUME BatchInv, NEW p \in Procs, Prepare(p)
    PROVE  BatchInv'
<1> DEFINE items == IF expired THEN <<>> ELSE Resolve(result.items, session.selection)
           b == [id |-> batches + 1, items |-> items]
           T == <<Offer(b), SetResult(Notes(b.items)), Touch, [Step("card") EXCEPT !.batch = b], Touch>>
           w == [Idle EXCEPT !.todo = T]
<1>1. /\ proc[p].todo # <<>> /\ proc[p].todo[1].op = "prepare" /\ 1 \in DOMAIN proc[p].todo
      /\ UNCHANGED <<session, result, expired, cards, tasks, confirms, lapsed, crashes, history>>
      /\ \/ Done(p) /\ UNCHANGED batches
         \/ items # <<>> /\ batches' = batches + 1 /\ Continue(p, T)
  BY BatchFacts DEF Prepare, At, IsIdle
<1>2. /\ batches \in Nat /\ tasks \in Nat /\ confirms \in Nat /\ MaxBatches \in Nat /\ CountsOK
      /\ proc \in [Procs -> Works] /\ result.items \in Seq(Rows) /\ session.selection \in SUBSET Indexes
  BY SessionTyped, BatchAssumption DEF BatchInv, StateOK, Results
<1>3. CASE Done(p) /\ UNCHANGED batches
  <2>1. StateOK' /\ UNCHANGED <<tasks, batches, confirms>> /\ cards \subseteq cards'
    BY <1>1, <1>3 DEF BatchInv, StateOK, history
  <2> QED BY <1>1, <1>3, <2>1, DoneStep
<1>4. CASE items # <<>> /\ batches' = batches + 1 /\ Continue(p, T)
  <2>1. items \in Seq(Rows)
    BY <1>2, ResolveFacts
  <2> HIDE DEF items
  <2>2. b \in Batches /\ b.id = batches + 1
    BY <1>2, <2>1 DEF Batches
  <2> HIDE DEF b
  <2>3. /\ T \in Seq(Steps) /\ Len(T) = 5
        /\ Carries(T[1], "offer", {}, b, NoResult, EmptySession)
        /\ Carries(T[2], "result", {}, NoBatch, Notes(b.items), EmptySession)
        /\ Plain(T[3], "touch") /\ Plain(T[5], "touch")
        /\ Carries(T[4], "card", {}, b, NoResult, EmptySession)
    BY <2>2, PrepareProgram
  <2>4. proc' = [proc EXCEPT ![p] = w]
    BY <1>4 DEF Continue
  <2> HIDE DEF T
  <2>5. \A j \in DOMAIN T : StepOK(T[j], batches + 1, cards) /\ T[j].op \notin {"prepare", "queue"}
    <3>1. DOMAIN T = 1..5
      BY <2>3, LenProperties
    <3>2. \A j \in {1, 2, 3, 4, 5} : StepOK(T[j], batches + 1, cards) /\ T[j].op \notin {"prepare", "queue"}
      BY <1>2, <2>2, <2>3, EmptyTyped DEF Plain, Carries, StepOK
    <3>3. 1..5 = {1, 2, 3, 4, 5}
      OBVIOUS
    <3> QED BY <3>1, <3>2, <3>3
  <2>6. w.todo = T /\ WorkOK(w, batches + 1, cards)
    <3>1. batches + 1 \in Nat
      BY <1>2
    <3>2. \A i \in DOMAIN T : T[i].op \in {"prepare", "queue"} => i = Len(T)
      BY <2>5
    <3> QED BY <2>3, <2>5, <3>1, <3>2, BeginOK
  <2> HIDE DEF w
  <2>7. ~Has(w, "prepare") /\ ~Has(w, "queue") /\ Has(proc[p], "prepare")
    BY <1>1, <2>5, <2>6 DEF Has
  <2>8. Count("prepare")' = Count("prepare") - 1 /\ Count("prepare") \in Nat /\ Count("prepare")' \in Nat
    BY <1>2, <2>4, <2>7, CountStep
  <2>9. Count("queue")' <= Count("queue") /\ Count("queue") \in Nat /\ Count("queue")' \in Nat
    BY <1>2, <2>4, <2>7, CountStep
  <2>10. CountsOK'
    <3>1. tasks + Count("queue") <= confirms /\ batches + Count("prepare") <= MaxBatches
      BY <1>2 DEF CountsOK
    <3>2. tasks' + Count("queue")' <= confirms' /\ batches' + Count("prepare")' <= MaxBatches
      BY <1>1, <1>2, <1>4, <2>8, <2>9, <3>1
    <3> QED BY <3>2 DEF CountsOK
  <2>11. StateOK'
    <3>1. batches' \in Nat /\ \A n : n \in 1..batches => n \in 1..batches'
      BY <1>2, <1>4
    <3>2. session.batch.id \in Nat /\ session.batch.id <= batches
      BY SessionTyped DEF BatchInv, StateOK
    <3>3. session'.batch.id <= batches'
      BY <1>1, <1>2, <1>4, <3>2
    <3> QED BY <1>1, <3>1, <3>3 DEF BatchInv, StateOK, history
  <2> QED BY <1>1, <1>4, <2>4, <2>6, <2>10, <2>11, BatchStep
<1> QED BY <1>1, <1>3, <1>4

LEMMA TaskKeeps ==
    ASSUME BatchInv, NEW p \in Procs, StartTask(p)
    PROVE  BatchInv'
<1> DEFINE rows == session.batch.items
           n == Len(rows)
           T == [i \in DOMAIN rows |-> [Step("submit") EXCEPT !.batch = [id |-> session.batch.id,
                                                                        items |-> <<rows[i]>>]]]
                  \o <<[Step("settle") EXCEPT !.copy = session]>>
           F == <<SetResult(Notes(<<>>)), Touch>>
           G == IF rows = <<>> THEN F ELSE T
           w == [Idle EXCEPT !.todo = G]
<1>1. /\ tasks > 0 /\ tasks' = tasks - 1 /\ proc' = [proc EXCEPT ![p] = w] /\ proc[p].todo = <<>>
      /\ UNCHANGED <<session, result, expired, cards, batches, confirms, lapsed, crashes, history>>
  BY DEF StartTask, Begin, Continue, IsIdle
<1>2. /\ batches \in Nat /\ tasks \in Nat /\ confirms \in Nat /\ MaxBatches \in Nat /\ CountsOK
      /\ proc \in [Procs -> Works] /\ session \in Sessions /\ session.batch.id <= batches
  BY BatchAssumption DEF BatchInv, StateOK
<1>3. /\ G \in Seq(Steps)
      /\ \A j \in DOMAIN G : StepOK(G[j], batches, cards) /\ G[j].op \notin {"prepare", "queue"}
  <2>1. CASE rows = <<>>
    <3> DEFINE r == Notes(<<>>)
               x == SetResult(r)
    <3>1. Carries(x, "result", {}, NoBatch, r, EmptySession) /\ Plain(Touch, "touch")
      <4>1. <<>> \in Seq(Rows)
        OBVIOUS
      <4>2. r \in Results
        BY <4>1, NotesTyped
      <4> HIDE DEF r
      <4> QED BY <4>2, StepsTyped, PlainSteps
    <3> HIDE DEF x
    <3>2. x \in Steps /\ Touch \in Steps
      BY <3>1 DEF Carries, Plain
    <3>3. F \in Seq(Steps) /\ Len(F) = 2 /\ F[1] = x /\ F[2] = Touch
      BY <3>2, ShortPrograms DEF x
    <3> HIDE DEF F
    <3>4. DOMAIN F = 1..2
      BY <3>3, LenProperties
    <3>5. \A j \in DOMAIN F : StepOK(F[j], batches, cards) /\ F[j].op \notin {"prepare", "queue"}
      BY <1>2, <3>1, <3>3, <3>4, SoundSteps
    <3> QED BY <2>1, <3>3, <3>5
  <2>2. CASE rows # <<>>
    <3>1. /\ T \in Seq(Steps) /\ Len(T) = n + 1 /\ n \in Nat \ {0}
          /\ \A i \in 1..n : /\ Carries(T[i], "submit", {}, T[i].batch, NoResult, EmptySession)
                             /\ T[i].batch.id = session.batch.id /\ Len(T[i].batch.items) = 1
          /\ Carries(T[n + 1], "settle", {}, NoBatch, NoResult, session)
      BY <1>2, <2>2, TaskProgram
    <3> HIDE DEF T, n
    <3>2. session.batch.id # 0
      BY <1>2, <2>2, SessionTyped
    <3>3. \A j \in 1..n : StepOK(T[j], batches, cards) /\ T[j].op = "submit"
      BY <1>2, <3>1, <3>2, EmptyTyped DEF Carries, StepOK
    <3>4. StepOK(T[n + 1], batches, cards) /\ T[n + 1].op = "settle"
      BY <1>2, <3>1, SoundSteps
    <3>5. DOMAIN T = 1..(n + 1)
      BY <3>1, LenProperties
    <3>6. \A j \in 1..(n + 1) : j \in 1..n \/ j = n + 1
      BY <3>1
    <3> QED BY <2>2, <3>1, <3>3, <3>4, <3>5, <3>6
  <2> QED BY <2>1, <2>2
<1> HIDE DEF G
<1>4. w.todo = G /\ WorkOK(w, batches, cards)
  BY <1>2, <1>3, BeginOK
<1> HIDE DEF w
<1>5. ~Has(w, "prepare") /\ ~Has(w, "queue")
  BY <1>3, <1>4 DEF Has
<1>6. /\ Count("prepare")' <= Count("prepare") /\ Count("prepare") \in Nat /\ Count("prepare")' \in Nat
      /\ Count("queue")' <= Count("queue") /\ Count("queue") \in Nat /\ Count("queue")' \in Nat
  BY <1>1, <1>2, <1>5, CountStep
<1>7. CountsOK'
  <2>1. tasks + Count("queue") <= confirms /\ batches + Count("prepare") <= MaxBatches
    BY <1>2 DEF CountsOK
  <2>2. tasks' + Count("queue")' <= confirms' /\ batches' + Count("prepare")' <= MaxBatches
    BY <1>1, <1>2, <1>6, <2>1
  <2> QED BY <2>2 DEF CountsOK
<1>8. StateOK'
  BY <1>1, <1>2 DEF BatchInv, StateOK, history
<1> QED BY <1>1, <1>4, <1>7, <1>8, BatchStep

LEMMA SettleKeeps ==
    ASSUME BatchInv, NEW p \in Procs, Settle(p)
    PROVE  BatchInv'
<1> DEFINE s == proc[p].todo[1].copy
           cleared == IF proc[p].won THEN <<Step("clear_result"), Touch>> ELSE <<>>
           T == <<Touch>> \o cleared \o <<SetResult(Notes(s.batch.items)), Touch>>
<1>1. /\ proc[p].todo # <<>> /\ session' = WithoutBatch(s) /\ Continue(p, T)
      /\ UNCHANGED <<result, expired, cards, bounds, history>>
  BY BatchFacts DEF Settle, Settled, At, IsIdle
<1>2. s \in Sessions /\ proc[p].won \in BOOLEAN /\ batches \in Nat /\ s.batch.items \in Seq(Rows)
  BY <1>1, BatchFacts, StepTyped, SessionTyped
<1> HIDE DEF s
<1>3. session' \in Sessions /\ session'.batch.id <= batches
  <2>1. SessionIs(session', {}, NoBatch, s.seen)
    BY <1>1, <1>2, WithoutFacts
  <2> QED BY <1>2, <2>1, EmptyTyped DEF SessionIs
<1>4. StateOK' /\ UNCHANGED <<tasks, batches, confirms, cards>>
  BY <1>1, <1>3 DEF BatchInv, StateOK, bounds, history
<1>5. /\ T \in Seq(Steps)
      /\ \A i \in DOMAIN T : \/ Plain(T[i], "touch") \/ Plain(T[i], "clear_result")
                             \/ Carries(T[i], "result", {}, NoBatch, Notes(s.batch.items), EmptySession)
  BY <1>2, SettleProgram
<1> HIDE DEF T
<1>6. \A j \in DOMAIN T : StepOK(T[j], batches, cards) /\ T[j].op \notin {"prepare", "queue"}
  BY <1>2, <1>5, SoundSteps
<1> QED BY <1>1, <1>4, <1>5, <1>6, QuietProgram

LEMMA RaiseKeeps ==
    ASSUME BatchInv, NEW p \in Procs, SubmitRaises(p)
    PROVE  BatchInv'
<1>1. /\ At(p, "submit") /\ Hand(Head(proc[p].todo).batch) /\ Continue(p, Receipt(<<>>))
      /\ UNCHANGED <<session, result, expired, cards, tasks, batches, confirms, lapsed,
                     ticked, confirmed, cancelled>>
  BY DEF SubmitRaises
<1>2. StateOK'
  <2>1. \A h \in handed' : h[1] \in 1..batches /\ h[2] \in Rows
    BY <1>1, HandTyped
  <2> QED BY <1>1, <2>1 DEF BatchInv, StateOK
<1>3. <<>> \in Seq(Rows)
  OBVIOUS
<1> QED BY <1>1, <1>2, <1>3, ReceiptKeeps

LEMMA QueryFacts ==
    ASSUME BatchInv, NEW p \in Procs, NEW list \in Listings, Query(p, list)
    PROVE  \E r \in Results :
             /\ r.items = list /\ r.query \in 1..MaxQueries \ UsedQueries
             /\ Begin(p, <<Keep(session), SetResult(r), Touch, Keep(session), Clean, Touch, Render>>)
             /\ ticked' = {}
             /\ UNCHANGED <<session, result, expired, cards, bounds, confirmed, cancelled, handed>>
<1> DEFINE F == 1..MaxQueries \ UsedQueries
           q == Min(F)
           r == [query |-> q, items |-> list]
<1>1. /\ F # {}
      /\ Begin(p, <<Keep(session), SetResult(r), Touch, Keep(session), Clean, Touch, Render>>)
      /\ ticked' = {}
      /\ UNCHANGED <<session, result, expired, cards, bounds, confirmed, cancelled, handed>>
  BY DEF Query
<1>2. F \subseteq 1..MaxQueries /\ F \subseteq Nat
  BY BatchAssumption
<1> HIDE DEF F
<1>3. q \in F
  <2>1. \E x \in F : \A y \in F : x <= y
    BY <1>1, <1>2, SmallestOf
  <2> QED BY <2>1 DEF Min
<1> HIDE DEF q
<1>4. q \in 1..MaxQueries /\ q # 0 /\ q \in 0..MaxQueries
  BY <1>2, <1>3, BatchAssumption
<1>5. list \in Seq(Rows) /\ Len(list) <= MaxIndex
  BY BatchAssumption DEF Rows
<1>6. r \in Results /\ r.items = list /\ r.query = q
  BY <1>4, <1>5 DEF Results
<1> QED BY <1>1, <1>3, <1>6 DEF F

LEMMA QueryKeeps ==
    ASSUME BatchInv, NEW p \in Procs, NEW list \in Listings, Query(p, list)
    PROVE  BatchInv'
<1>1. PICK r \in Results :
             /\ Begin(p, <<Keep(session), SetResult(r), Touch, Keep(session), Clean, Touch, Render>>)
             /\ ticked' = {}
             /\ UNCHANGED <<session, result, expired, cards, bounds, confirmed, cancelled, handed>>
  BY QueryFacts
<1> DEFINE T == <<Keep(session), SetResult(r), Touch, Keep(session), Clean, Touch, Render>>
<1>2. session \in Sessions /\ session.batch.id <= batches /\ batches \in Nat
  BY DEF BatchInv, StateOK
<1>3. /\ T \in Seq(Steps) /\ Len(T) = 7
      /\ Carries(T[1], "keep", {}, NoBatch, NoResult, session)
      /\ Carries(T[2], "result", {}, NoBatch, r, EmptySession)
      /\ Plain(T[3], "touch")
      /\ Carries(T[4], "keep", {}, NoBatch, NoResult, session)
      /\ Plain(T[5], "clean") /\ Plain(T[6], "touch") /\ Plain(T[7], "render")
  BY <1>2, QueryProgram
<1>4. Continue(p, T)
  BY <1>1 DEF Begin
<1>5. StateOK' /\ UNCHANGED <<tasks, batches, confirms, cards>>
  BY <1>1 DEF BatchInv, StateOK, bounds
<1> HIDE DEF T
<1>6. \A j \in DOMAIN T : StepOK(T[j], batches, cards) /\ T[j].op \notin {"prepare", "queue"}
  <2>1. DOMAIN T = 1..7
    BY <1>3, LenProperties
  <2>2. \A j \in {1, 2, 3, 4, 5, 6, 7} : StepOK(T[j], batches, cards) /\ T[j].op \notin {"prepare", "queue"}
    <3>1. StepOK(T[1], batches, cards) /\ T[1].op = "keep" /\ StepOK(T[2], batches, cards) /\ T[2].op = "result"
      BY <1>2, <1>3, SoundSteps
    <3>2. StepOK(T[3], batches, cards) /\ T[3].op = "touch" /\ StepOK(T[4], batches, cards) /\ T[4].op = "keep"
      BY <1>2, <1>3, SoundSteps
    <3>3. StepOK(T[5], batches, cards) /\ T[5].op = "clean" /\ StepOK(T[6], batches, cards) /\ T[6].op = "touch"
      BY <1>2, <1>3, SoundSteps
    <3>4. StepOK(T[7], batches, cards) /\ T[7].op = "render"
      BY <1>2, <1>3, SoundSteps
    <3> QED BY <3>1, <3>2, <3>3, <3>4
  <2>3. 1..7 = {1, 2, 3, 4, 5, 6, 7}
    OBVIOUS
  <2> QED BY <2>1, <2>2, <2>3
<1> QED BY <1>3, <1>4, <1>5, <1>6, QuietProgram

LEMMA CrashKeeps ==
    ASSUME BatchInv, NEW p \in Procs, Crash(p)
    PROVE  BatchInv'
<1>1. /\ proc' = [proc EXCEPT ![p] = Idle]
      /\ UNCHANGED <<session, result, expired, cards, tasks, batches, confirms, lapsed, history>>
  BY DEF Crash
<1>2. StateOK' /\ UNCHANGED <<tasks, batches, confirms>> /\ cards \subseteq cards'
  BY <1>1 DEF BatchInv, StateOK, history
<1>3. WorkOK(Idle, batches, cards)
  BY EmptyTyped DEF WorkOK, BatchInv, StateOK
<1>4. \A op : ~Has(Idle, op)
  BY EmptyTyped DEF Has
<1> QED BY <1>1, <1>2, <1>3, <1>4, QuietStep

\* A step of no handler
LEMMA OutsideKeeps ==
    ASSUME BatchInv, UNCHANGED <<proc, cards, tasks, batches, confirms>>, StateOK'
    PROVE  BatchInv'
<1>1. Count("queue")' = Count("queue") /\ Count("prepare")' = Count("prepare")
  BY DEF Count, Has
<1>2. CountsOK'
  BY <1>1 DEF BatchInv, CountsOK
<1> QED BY <1>2 DEF BatchInv

LEMMA ClockKeeps ==
    ASSUME BatchInv,
           (\E id \in 1..MaxBatches : Lapse(id)) \/ ExpireResult \/ ExpireSession \/ UNCHANGED vars
    PROVE  BatchInv'
<1>0. StateOK /\ batches \in Nat
  BY DEF BatchInv, StateOK
<1>1. ASSUME NEW id \in 1..MaxBatches, Lapse(id)
      PROVE  BatchInv'
  <2>1. lapsed' \subseteq 1..batches
    BY <1>0, <1>1, BatchAssumption DEF Lapse, StateOK
  <2>2. StateOK' /\ UNCHANGED <<proc, cards, tasks, batches, confirms>>
    BY <1>0, <1>1, <2>1 DEF Lapse, StateOK, history
  <2> QED BY <2>2, OutsideKeeps
<1>2. CASE ExpireResult
  <2>1. StateOK' /\ UNCHANGED <<proc, cards, tasks, batches, confirms>>
    BY <1>0, <1>2, EmptyTyped DEF ExpireResult, StateOK, history, bounds
  <2> QED BY <2>1, OutsideKeeps
<1>3. CASE ExpireSession
  <2>1. StateOK' /\ UNCHANGED <<proc, cards, tasks, batches, confirms>>
    BY <1>0, <1>3, EmptyTyped DEF ExpireSession, StateOK
  <2> QED BY <2>1, OutsideKeeps
<1>4. CASE UNCHANGED vars
  <2>1. StateOK' /\ UNCHANGED <<proc, cards, tasks, batches, confirms>>
    BY <1>0, <1>4 DEF vars, StateOK, history, bounds
  <2> QED BY <2>1, OutsideKeeps
<1> QED BY <1>1, <1>2, <1>3, <1>4

LEMMA BatchNext == BatchInv /\ [Next]_vars => BatchInv'
<1> SUFFICES ASSUME BatchInv, [Next]_vars
             PROVE  BatchInv'
  OBVIOUS
<1>1. ASSUME NEW p \in Procs, Continues(p)
      PROVE  BatchInv'
  BY <1>1, LoadKeeps, StoreKeeps, KeepKeeps, ResultKeeps, PrepareKeeps, CardKeeps, TellKeeps, QueueKeeps,
     SubmitKeeps, SettleKeeps DEF Continues
<1>2. ASSUME NEW p \in Procs, ConfirmCard(p)
      PROVE  BatchInv'
  BY <1>2, ClickKeeps, ConfirmKeeps DEF ConfirmCard
<1>3. ASSUME NEW p \in Procs,
             Workbench(p) \/ StartTask(p) \/ (\E list \in Listings : Query(p, list)) \/ SubmitRaises(p) \/ Crash(p)
      PROVE  BatchInv'
  BY <1>3, WorkbenchKeeps, TaskKeeps, QueryKeeps, RaiseKeeps, CrashKeeps
<1> QED BY <1>1, <1>2, <1>3, ClockKeeps DEF Next

LEMMA BatchInit == Init => BatchInv
<1> SUFFICES ASSUME Init
             PROVE  BatchInv
  OBVIOUS
<1>1. \A p \in Procs : proc[p] = Idle
  BY DEF Init
<1>2. proc \in [Procs -> Works]
  BY EmptyTyped DEF Init
<1>3. WorkOK(Idle, 0, cards) /\ \A op : ~Has(Idle, op)
  BY EmptyTyped DEF WorkOK, Has
<1>4. ASSUME NEW op
      PROVE  Count(op) = 0
  <2>1. {p \in Procs : Has(proc[p], op)} = {}
    BY <1>1, <1>3
  <2> QED BY <2>1, FS_EmptySet DEF Count
<1>5. StateOK /\ CountsOK
  BY <1>4, EmptyTyped, BatchAssumption DEF Init, StateOK, CountsOK
<1>6. batches = 0
  BY DEF Init
<1> QED BY <1>1, <1>2, <1>3, <1>5, <1>6 DEF BatchInv

LEMMA BatchBounds == BatchInv => BatchTypeOK
<1> SUFFICES ASSUME BatchInv
             PROVE  BatchTypeOK
  OBVIOUS
<1>1. ASSUME NEW op
      PROVE  Count(op) \in Nat
  BY BatchAssumption, FS_Subset, FS_CardinalityType DEF Count
<1>2. StateOK /\ CountsOK /\ Count("queue") \in Nat /\ Count("prepare") \in Nat /\ MaxBatches \in Nat /\ MaxConfirms \in Nat
  BY <1>1, BatchAssumption DEF BatchInv
<1>3. tasks \in 0..confirms /\ batches \in 0..MaxBatches
  <2>1. tasks \in Nat /\ batches \in Nat /\ confirms \in Nat
    BY <1>2 DEF StateOK
  <2>2. tasks + Count("queue") <= confirms /\ batches + Count("prepare") <= MaxBatches
    BY <1>2 DEF CountsOK
  <2> QED BY <1>2, <2>1, <2>2
<1>4. session.batch \in [id : 0..batches, items : Seq(Rows)]
  BY <1>2 DEF StateOK, Sessions, Batches
<1>5. session \in [selection : SUBSET Indexes, seen : 0..MaxQueries, batch : [id : 0..batches, items : Seq(Rows)]]
  BY <1>2, <1>4 DEF StateOK, Sessions
<1>6. result \in [query : 0..MaxQueries, items : Seq(Rows)]
  BY <1>2 DEF StateOK, Results
<1> QED BY <1>2, <1>3, <1>5, <1>6 DEF StateOK, BatchTypeOK

\* However many clicks, queries and tasks work on the chat at once: what the session,
\* the list and every handler hold is well formed, no program has more steps than its
\* code, and there are no more tasks than clicks that confirmed (the handlers of
\* confirmation_card_entrypoint.py and its task).
THEOREM BatchTypes == Spec => []BatchTypeOK
<1>1. Spec => []BatchInv
  BY BatchInit, BatchNext, PTL DEF Spec
<1> QED BY <1>1, BatchBounds, PTL

-----------------------------------------------------------------------------
(* One handler at a time.  What a handler carries then agrees with the session *)
(* and the list: a batch of which something was handed out leaves the session  *)
(* with the task that did so, and a selection is of the list that is shown or  *)
(* is going to be cleared before it is used.                                   *)

\* One handler at a time.
OneProc == \A p, q \in Procs : p = q

\* No list names an approval twice.
NoneTwice == \A list \in Listings : NoRepeat(list)

\* Which steps can come before which in a program
MayFollow(x, y) ==
    /\ x \notin {"prepare", "queue", "settle", "tell", "render"}
    /\ x = "submit" <=> y \in {"submit", "settle"}
    /\ y \notin {"select", "offer", "clear"}
    /\ y = "keep" => x \in {"keep", "result", "touch"}
    /\ y = "tell" => x \in {"clear", "touch", "result"}

Ordered(T) ==
    /\ \A i, j \in DOMAIN T : i < j => MayFollow(T[i].op, T[j].op)
    /\ T # <<>> => T[Len(T)].op # "submit"

\* What a step carries when the session is s, the batches in C are cancelled and H
\* was handed to the provider
Bound(x, s, C, H) ==
    /\ x.op \in {"keep", "settle"} => x.copy = s
    /\ x.op = "submit" => x.batch.id = s.batch.id
    /\ x.op = "offer" => /\ x.batch.id \notin C /\ NoRepeat(x.batch.items)
                         /\ \A h \in H : h[1] # x.batch.id
    /\ x.op = "result" => NoRepeat(x.result.items)

Tells(T, s) == \A i \in DOMAIN T : T[i].op = "tell" => T[1].op = "clear" \/ s.batch.id = 0

\* A list that is still to be saved is new, and the workbench is drawn after it.
Draws(T, seen) ==
    \A i \in DOMAIN T : T[i].op = "result" /\ T[i].result.query # 0 =>
        /\ T[i].result.query # seen
        /\ \E j \in DOMAIN T : i < j /\ T[j].op = "render"

WorkOne(w, s, C, H) ==
    /\ w.loaded => w.buf = s /\ w.todo[1].op \in SessionOps
    /\ Ordered(w.todo) /\ Tells(w.todo, s) /\ Draws(w.todo, s.seen)
    /\ \A i \in DOMAIN w.todo : Bound(w.todo[i], s, C, H)

Untouched(b, H) == \A h \in H : h[1] # b.id

Once(H) == \A h \in H : h[2] \in Approvals => h[3] = 1

\* A batch of which something was handed out leaves the session with the task.
Spent(w, s, H) ==
    /\ Has(w, "settle") \/ Untouched(s.batch, H)
    /\ \A i \in DOMAIN w.todo :
         w.todo[i].op = "submit" /\ w.todo[i].batch.items[1] \in Approvals =>
           /\ \A h \in H : ~(h[1] = w.todo[i].batch.id /\ h[2] = w.todo[i].batch.items[1])
           /\ \A j \in DOMAIN w.todo : w.todo[j].op = "submit"
                /\ w.todo[j].batch.items[1] = w.todo[i].batch.items[1] => i = j

\* The selected rows that are approvals are ticked.
Covered(S, items, K) == \A i \in S : i \in DOMAIN items /\ items[i] \in Approvals => items[i] \in K

\* The selection goes before it can be used: a new list is to be drawn, now or when
\* it is saved.
Stale(w, s, r, e) == ~e /\ r.query \notin {0, s.seen} /\ Has(w, "render")

Due(w) ==
    \E i, j \in DOMAIN w.todo : i < j /\ w.todo[i].op = "result" /\ w.todo[i].result.query # 0
                                      /\ w.todo[j].op = "render"

Tick(w, s, r, e, K) ==
    IF Has(w, "select") THEN Covered(w.todo[1].sel, r.items, K)
    ELSE Covered(s.selection, r.items, K) \/ Stale(w, s, r, e) \/ Due(w)

OneInv ==
    /\ crashes \in Nat
    /\ session.batch.id \notin cancelled /\ NoRepeat(session.batch.items) /\ NoRepeat(result.items)
    /\ \A p \in Procs : WorkOne(proc[p], session, cancelled, handed)
    /\ crashes = 0 =>
         /\ Once(handed)
         /\ \A p \in Procs : Spent(proc[p], session, handed) /\ Tick(proc[p], session, result, expired, ticked)

LEMMA OneStep ==
    ASSUME OneProc, NEW p \in Procs, NEW u, proc \in [Procs -> Works], proc' = [proc EXCEPT ![p] = u],
           crashes' \in Nat, session'.batch.id \notin cancelled', NoRepeat(session'.batch.items),
           NoRepeat(result'.items), WorkOne(u, session', cancelled', handed'),
           crashes' = 0 => /\ Once(handed') /\ Spent(u, session', handed')
                           /\ Tick(u, session', result', expired', ticked')
    PROVE  OneInv'
<1>1. \A q \in Procs : proc'[q] = u
  BY DEF OneProc
<1> QED BY <1>1 DEF OneInv

\* What is left of a program when its first step is done
LEMMA TailOne ==
    ASSUME NEW w \in Works, w.todo # <<>>, NEW s, NEW C, NEW H, WorkOne(w, s, C, H),
           NEW u \in Works, u.todo = Tail(w.todo), ~u.loaded, NEW t, NEW D, NEW G,
           \A j \in DOMAIN w.todo : j # 1 => Bound(w.todo[j], t, D, G),
           \A j \in DOMAIN w.todo : j # 1 /\ w.todo[j].op = "tell" => t.batch.id = 0,
           t.seen = s.seen \/ Len(w.todo) = 1
    PROVE  WorkOne(u, t, D, G)
<1>1. /\ Len(w.todo) \in Nat /\ DOMAIN w.todo = 1..Len(w.todo) /\ 1 \in DOMAIN w.todo
      /\ Len(u.todo) = Len(w.todo) - 1 /\ DOMAIN u.todo = 1..(Len(w.todo) - 1)
      /\ \A i \in DOMAIN u.todo : u.todo[i] = w.todo[i + 1] /\ i + 1 \in DOMAIN w.todo /\ i + 1 # 1
      /\ u.todo = <<>> <=> Len(w.todo) = 1
  BY WorkTodo, TailFacts
<1>2. Ordered(u.todo)
  <2>1. \A i, j \in DOMAIN u.todo : i < j => MayFollow(u.todo[i].op, u.todo[j].op)
    BY <1>1 DEF WorkOne, Ordered
  <2>2. ASSUME u.todo # <<>>
        PROVE  u.todo[Len(u.todo)].op # "submit"
    <3>1. Len(u.todo) \in DOMAIN u.todo /\ u.todo[Len(u.todo)] = w.todo[Len(w.todo)]
      BY <1>1, <2>2
    <3> QED BY <3>1 DEF WorkOne, Ordered
  <2> QED BY <2>1, <2>2 DEF Ordered
<1>3. Tells(u.todo, t)
  BY <1>1 DEF Tells
<1>4. Draws(u.todo, t.seen)
  <2>1. ASSUME NEW i \in DOMAIN u.todo, u.todo[i].op = "result", u.todo[i].result.query # 0
        PROVE  /\ u.todo[i].result.query # t.seen
               /\ \E j \in DOMAIN u.todo : i < j /\ u.todo[j].op = "render"
    <3>1. Draws(w.todo, s.seen) /\ i + 1 \in DOMAIN w.todo /\ w.todo[i + 1] = u.todo[i]
      BY <1>1 DEF WorkOne
    <3>2. w.todo[i + 1].result.query # s.seen /\ \E j \in DOMAIN w.todo : i + 1 < j /\ w.todo[j].op = "render"
      BY <2>1, <3>1 DEF Draws
    <3>3. PICK j \in DOMAIN w.todo : i + 1 < j /\ w.todo[j].op = "render"
      BY <3>2
    <3>4. j - 1 \in DOMAIN u.todo /\ i < j - 1 /\ u.todo[j - 1] = w.todo[j]
      BY <1>1, <3>3
    <3>5. t.seen = s.seen
      BY <1>1
    <3> QED BY <3>1, <3>2, <3>3, <3>4, <3>5
  <2> QED BY <2>1 DEF Draws
<1>5. \A i \in DOMAIN u.todo : Bound(u.todo[i], t, D, G)
  BY <1>1
<1> QED BY <1>2, <1>3, <1>4, <1>5 DEF WorkOne

LEMMA FirstStep ==
    ASSUME NEW w \in Works, w.todo # <<>>, NEW s, NEW C, NEW H, WorkOne(w, s, C, H)
    PROVE  /\ Bound(w.todo[1], s, C, H) /\ 1 \in DOMAIN w.todo
           /\ \A j \in DOMAIN w.todo : j # 1 => MayFollow(w.todo[1].op, w.todo[j].op)
           /\ w.todo[1].op \in {"prepare", "queue", "settle", "tell", "render"} => Len(w.todo) = 1
           /\ w.todo[1].op = "tell" => s.batch.id = 0
           /\ \A j \in DOMAIN w.todo : Bound(w.todo[j], s, C, H)
           /\ \A j \in DOMAIN w.todo : w.todo[1].op # "clear" /\ w.todo[j].op = "tell" => s.batch.id = 0
<1>1. Len(w.todo) \in Nat /\ DOMAIN w.todo = 1..Len(w.todo) /\ 1 \in DOMAIN w.todo
  BY WorkTodo, TailFacts
<1>2. \A j \in DOMAIN w.todo : j # 1 => MayFollow(w.todo[1].op, w.todo[j].op)
  BY <1>1 DEF WorkOne, Ordered
<1>3. ASSUME w.todo[1].op \in {"prepare", "queue", "settle", "tell", "render"}
      PROVE  Len(w.todo) = 1
  <2>1. \A j \in DOMAIN w.todo : j = 1
    BY <1>2, <1>3 DEF MayFollow
  <2>2. Len(w.todo) \in DOMAIN w.todo
    BY <1>1
  <2> QED BY <2>1, <2>2
<1> QED BY <1>1, <1>2, <1>3 DEF WorkOne, Tells

\* A handler that is not at work on a task submits and settles nothing.
LEMMA SpentTail ==
    ASSUME NEW w \in Works, w.todo # <<>>, NEW s, NEW C, NEW H, WorkOne(w, s, C, H), Spent(w, s, H),
           w.todo[1].op \notin {"submit", "settle"},
           NEW u \in Works, u.todo = Tail(w.todo), NEW t, Untouched(t.batch, H) \/ t.batch = s.batch
    PROVE  Spent(u, t, H)
<1>1. \A j \in DOMAIN w.todo : w.todo[j].op \notin {"submit", "settle"}
  BY FirstStep DEF MayFollow
<1>2. Untouched(s.batch, H)
  BY <1>1 DEF Spent, Has
<1>3. \A i \in DOMAIN u.todo : u.todo[i] = w.todo[i + 1] /\ i + 1 \in DOMAIN w.todo
  BY WorkTodo, TailFacts
<1> QED BY <1>1, <1>2, <1>3 DEF Spent

\* Steps that leave the selection and the list alone
LEMMA TickTail ==
    ASSUME NEW w \in Works, w.todo # <<>>, NEW s, NEW C, NEW H, WorkOne(w, s, C, H),
           NEW r, NEW e, NEW K, Tick(w, s, r, e, K), w.todo[1].op \notin {"select", "result", "render"},
           NEW u \in Works, u.todo = Tail(w.todo), NEW t, t.selection = s.selection, t.seen = s.seen
    PROVE  Tick(u, t, r, e, K)
<1>1. /\ DOMAIN w.todo = 1..Len(w.todo) /\ Len(w.todo) \in Nat /\ DOMAIN u.todo = 1..(Len(w.todo) - 1)
      /\ \A i \in DOMAIN u.todo : u.todo[i] = w.todo[i + 1] /\ i + 1 \in DOMAIN w.todo /\ i + 1 # 1
      /\ \A i \in DOMAIN w.todo : i # 1 => i - 1 \in DOMAIN u.todo /\ u.todo[i - 1] = w.todo[i]
  BY WorkTodo, TailFacts
<1>2. ~Has(w, "select") /\ ~Has(u, "select")
  <2>1. \A j \in DOMAIN w.todo : w.todo[j].op # "select"
    BY FirstStep DEF MayFollow
  <2> QED BY <1>1, <2>1 DEF Has
<1>3. CASE Covered(s.selection, r.items, K)
  BY <1>2, <1>3 DEF Tick
<1>4. CASE Stale(w, s, r, e)
  <2>1. Has(u, "render")
    BY <1>1, <1>4 DEF Stale, Has
  <2> QED BY <1>2, <1>4, <2>1 DEF Tick, Stale
<1>5. CASE Due(w)
  <2>1. PICK i, j \in DOMAIN w.todo : i < j /\ w.todo[i].op = "result" /\ w.todo[i].result.query # 0
                                            /\ w.todo[j].op = "render"
    BY <1>5 DEF Due
  <2>2. /\ i - 1 \in DOMAIN u.todo /\ j - 1 \in DOMAIN u.todo /\ i - 1 < j - 1
        /\ u.todo[i - 1] = w.todo[i] /\ u.todo[j - 1] = w.todo[j]
    <3>1. i # 1
      BY <2>1
    <3>2. i \in Nat /\ j \in Nat /\ i >= 1 /\ j # 1
      BY <1>1, <2>1
    <3>3. i - 1 \in DOMAIN u.todo /\ u.todo[i - 1] = w.todo[i]
      BY <1>1, <3>1
    <3>4. j - 1 \in DOMAIN u.todo /\ u.todo[j - 1] = w.todo[j]
      BY <1>1, <3>2
    <3> QED BY <2>1, <3>2, <3>3, <3>4
  <2>3. Due(u)
    BY <2>1, <2>2 DEF Due
  <2> QED BY <1>2, <2>3 DEF Tick
<1> QED BY <1>2, <1>3, <1>4, <1>5 DEF Tick

LEMMA IdleOne ==
    ASSUME NEW w, w.todo = <<>>, NEW s, NEW r, NEW e, NEW K, NEW H
    PROVE  /\ Tick(w, s, r, e, K) <=> Covered(s.selection, r.items, K)
           /\ Spent(w, s, H) <=> Untouched(s.batch, H)
<1>1. DOMAIN w.todo = {}
  OBVIOUS
<1> QED BY <1>1 DEF Tick, Stale, Due, Has, Spent

-----------------------------------------------------------------------------
(* A step of a program, with one handler at a time *)

LEMMA TailCovered ==
    ASSUME NEW w \in Works, w.todo # <<>>, NEW s, NEW C, NEW H, WorkOne(w, s, C, H),
           NEW u \in Works, u.todo = Tail(w.todo), NEW t, NEW r, NEW e, NEW K
    PROVE  /\ ~Has(u, "select")
           /\ Covered(t.selection, r.items, K) \/ Stale(u, t, r, e) => Tick(u, t, r, e, K)
<1>1. \A i \in DOMAIN u.todo : u.todo[i] = w.todo[i + 1] /\ i + 1 \in DOMAIN w.todo /\ i + 1 # 1
  BY WorkTodo, TailFacts
<1>2. ~Has(u, "select")
  <2>1. \A j \in DOMAIN w.todo : j # 1 => w.todo[j].op # "select"
    BY FirstStep DEF MayFollow
  <2> QED BY <1>1, <2>1 DEF Has
<1> QED BY <1>2 DEF Tick

LEMMA OneFacts ==
    ASSUME BatchInv, OneInv, NEW p \in Procs
    PROVE  LET w == proc[p]
           IN /\ w \in Works /\ proc \in [Procs -> Works] /\ WorkOne(w, session, cancelled, handed)
              /\ crashes \in Nat
              /\ crashes = 0 => /\ Once(handed) /\ Spent(w, session, handed)
                                /\ Tick(w, session, result, expired, ticked)
              /\ w.todo # <<>> => w.todo[1] \in Steps
              /\ Untouched(NoBatch, handed) /\ 0 \notin cancelled /\ NoRepeat(NoBatch.items)
<1>1. proc[p] \in Works /\ proc \in [Procs -> Works] /\ (proc[p].todo # <<>> => proc[p].todo[1] \in Steps)
  BY BatchFacts
<1>2. Untouched(NoBatch, handed) /\ 0 \notin cancelled
  <2>1. NoBatch.id = 0 /\ batches \in Nat /\ (\A h \in handed : h[1] \in 1..batches)
        /\ cancelled \subseteq cards /\ cards \subseteq 1..batches
    BY EmptyTyped DEF BatchInv, StateOK
  <2>2. 0 \notin 1..batches
    BY <2>1
  <2> QED BY <2>1, <2>2 DEF Untouched
<1>3. NoRepeat(NoBatch.items)
  BY EmptyTyped DEF NoRepeat
<1> QED BY <1>1, <1>2, <1>3 DEF OneInv

\* A step that is done and that hands nothing to the provider
LEMMA DoneOne ==
    ASSUME OneProc, BatchInv, OneInv, NEW p \in Procs, proc[p].todo # <<>>, Done(p),
           UNCHANGED <<crashes, handed, ticked>>,
           session'.batch.id \notin cancelled', NoRepeat(session'.batch.items), NoRepeat(result'.items),
           \A j \in DOMAIN proc[p].todo : j # 1 => Bound(proc[p].todo[j], session', cancelled', handed),
           \A j \in DOMAIN proc[p].todo : j # 1 /\ proc[p].todo[j].op = "tell" => session'.batch.id = 0,
           session'.seen = session.seen \/ Len(proc[p].todo) = 1,
           proc[p].todo[1].op \notin {"submit", "settle"},
           crashes = 0 => Untouched(session'.batch, handed) \/ session'.batch = session.batch,
           \A u \in Works : crashes = 0 /\ u.todo = Tail(proc[p].todo)
                              => Tick(u, session', result', expired', ticked)
    PROVE  OneInv'
<1>1. PICK u \in Works : /\ proc' = [proc EXCEPT ![p] = u] /\ u.todo = Tail(proc[p].todo)
                         /\ ~u.loaded /\ u.buf = EmptySession
  BY BatchFacts, DoneFacts
<1>2. WorkOne(u, session', cancelled', handed')
  BY <1>1, OneFacts, TailOne
<1>3. ASSUME crashes = 0
      PROVE  Once(handed') /\ Spent(u, session', handed') /\ Tick(u, session', result', expired', ticked')
  <2>1. Once(handed') /\ Tick(u, session', result', expired', ticked')
    BY <1>1, <1>3, OneFacts
  <2>2. Spent(u, session', handed')
    BY <1>1, <1>3, OneFacts, SpentTail
  <2> QED BY <2>1, <2>2
<1>4. proc \in [Procs -> Works] /\ crashes' \in Nat
  BY OneFacts
<1> QED BY <1>1, <1>2, <1>3, <1>4, OneStep

LEMMA LoadOne ==
    ASSUME OneProc, BatchInv, OneInv, NEW p \in Procs, LoadSession(p)
    PROVE  OneInv'
<1> DEFINE u == [proc[p] EXCEPT !.loaded = TRUE, !.buf = session]
<1>1. proc' = [proc EXCEPT ![p] = u] /\ proc[p].todo # <<>> /\ proc[p].todo[1].op \in SessionOps
      /\ UNCHANGED <<session, result, expired, cards, bounds, history>>
  BY BatchFacts DEF LoadSession, IsIdle
<1>2. u.todo = proc[p].todo /\ u.loaded /\ u.buf = session
  BY BatchFacts DEF Works
<1> HIDE DEF u
<1>3. WorkOne(u, session, cancelled, handed)
  BY <1>1, <1>2, OneFacts DEF WorkOne
<1>4. crashes = 0 => Once(handed) /\ Spent(u, session, handed) /\ Tick(u, session, result, expired, ticked)
  BY <1>2, OneFacts DEF Spent, Tick, Stale, Due, Has
<1>5. UNCHANGED <<session, result, expired, crashes, ticked, cancelled, handed>>
  BY <1>1 DEF bounds, history
<1>6. proc \in [Procs -> Works] /\ session.batch.id \notin cancelled /\ NoRepeat(session.batch.items)
      /\ NoRepeat(result.items) /\ crashes \in Nat
  BY OneFacts DEF OneInv
<1> QED BY <1>1, <1>3, <1>4, <1>5, <1>6, OneStep

LEMMA StoreOne ==
    ASSUME OneProc, BatchInv, OneInv, NEW p \in Procs, StoreSession(p)
    PROVE  OneInv'
<1> DEFINE w == proc[p]
           T == w.todo
           x == T[1]
<1>1. /\ T # <<>> /\ Done(p) /\ session' = Stored(x, w.buf) /\ w.loaded
      /\ UNCHANGED <<result, expired, cards, bounds, history>>
  BY BatchFacts DEF StoreSession
<1>2. /\ w.buf = session /\ session \in Sessions /\ result \in Results /\ x \in Steps
      /\ WorkOne(w, session, cancelled, handed) /\ w \in Works
      /\ session.batch.id \notin cancelled /\ NoRepeat(session.batch.items) /\ NoRepeat(result.items)
  BY <1>1, BatchFacts, OneFacts DEF WorkOne, OneInv, BatchInv, StateOK
<1>3. /\ Bound(x, session, cancelled, handed) /\ 1 \in DOMAIN T
      /\ \A j \in DOMAIN T : j # 1 => MayFollow(x.op, T[j].op)
      /\ x.op \in {"prepare", "queue", "settle", "tell", "render"} => Len(T) = 1
      /\ \A j \in DOMAIN T : Bound(T[j], session, cancelled, handed)
      /\ \A j \in DOMAIN T : x.op # "clear" /\ T[j].op = "tell" => session.batch.id = 0
  BY <1>1, <1>2, FirstStep
<1>4. UNCHANGED <<result, expired, crashes, ticked, cancelled, handed>>
  BY <1>1 DEF bounds, history
<1>5. crashes = 0 => Tick(w, session, result, expired, ticked)
  BY OneFacts
<1>6. Untouched(NoBatch, handed) /\ 0 \notin cancelled /\ NoRepeat(NoBatch.items) /\ NoBatch.id = 0
  BY OneFacts, EmptyTyped
<1>7. DOMAIN T = 1..Len(T)
  BY <1>2, WorkTodo
<1> HIDE DEF w, T, x
<1>8. SUFFICES
        /\ x.op \notin {"submit", "settle"}
        /\ session'.batch.id \notin cancelled /\ NoRepeat(session'.batch.items)
        /\ \A j \in DOMAIN T : j # 1 => Bound(T[j], session', cancelled, handed)
        /\ \A j \in DOMAIN T : j # 1 /\ T[j].op = "tell" => session'.batch.id = 0
        /\ session'.seen = session.seen \/ Len(T) = 1
        /\ Untouched(session'.batch, handed) \/ session'.batch = session.batch
        /\ \A u \in Works : crashes = 0 /\ u.todo = Tail(T) => Tick(u, session', result, expired, ticked)
  BY <1>1, <1>2, <1>4, DoneOne DEF w, T, x
<1>9. \A u \in Works : /\ u.todo = Tail(T) /\ Covered(session'.selection, result.items, ticked)
                            => Tick(u, session', result, expired, ticked)
  BY <1>1, <1>2, TailCovered DEF T
<1>10. ASSUME x.op \notin {"select", "result", "render"}, session'.selection = session.selection,
              session'.seen = session.seen
       PROVE  \A u \in Works : crashes = 0 /\ u.todo = Tail(T) => Tick(u, session', result, expired, ticked)
  BY <1>1, <1>2, <1>5, <1>10, TickTail DEF T, x
<1>11. CASE x.op = "select"
  <2>1. SessionIs(session', x.sel, session.batch, session.seen)
    BY <1>1, <1>2, <1>11, StoredFacts
  <2>2. \A j \in DOMAIN T : j # 1 => T[j].op \notin {"keep", "settle", "submit", "offer", "tell"}
    BY <1>3, <1>11 DEF MayFollow
  <2>3. \A j \in DOMAIN T : j # 1 => Bound(T[j], session', cancelled, handed)
    BY <1>3, <2>2 DEF Bound
  <2>4. crashes = 0 => Covered(session'.selection, result.items, ticked)
    <3>1. Has(w, "select")
      BY <1>3, <1>11 DEF Has, T, x
    <3> QED BY <1>5, <2>1, <3>1 DEF Tick, SessionIs, T, x
  <2> QED BY <1>2, <1>9, <1>11, <2>1, <2>2, <2>3, <2>4 DEF SessionIs
<1>12. CASE x.op = "offer"
  <2>1. SessionIs(session', session.selection, x.batch, session.seen)
    BY <1>1, <1>2, <1>12, StoredFacts
  <2>2. \A j \in DOMAIN T : j # 1 => T[j].op \notin {"keep", "settle", "submit", "offer", "tell"}
    BY <1>3, <1>12 DEF MayFollow
  <2>3. \A j \in DOMAIN T : j # 1 => Bound(T[j], session', cancelled, handed)
    BY <1>3, <2>2 DEF Bound
  <2>4. x.batch.id \notin cancelled /\ NoRepeat(x.batch.items) /\ Untouched(x.batch, handed)
    BY <1>3, <1>12 DEF Bound, Untouched
  <2> QED BY <1>10, <1>12, <2>1, <2>2, <2>3, <2>4 DEF SessionIs
<1>13. CASE x.op = "clear"
  <2>1. SessionIs(session', {}, NoBatch, session.seen)
    BY <1>1, <1>2, <1>13, StoredFacts
  <2>2. \A j \in DOMAIN T : j # 1 => T[j].op \notin {"keep", "settle", "submit", "offer"}
    BY <1>3, <1>13 DEF MayFollow
  <2>3. \A j \in DOMAIN T : j # 1 => Bound(T[j], session', cancelled, handed)
    BY <1>3, <2>2 DEF Bound
  <2>4. Covered(session'.selection, result.items, ticked)
    BY <2>1 DEF SessionIs, Covered
  <2> QED BY <1>6, <1>9, <1>13, <2>1, <2>3, <2>4 DEF SessionIs
<1>14. CASE x.op = "clean"
  <2>1. PICK b \in {NoBatch, session.batch} : SessionIs(session', session.selection, b, session.seen)
    BY <1>1, <1>2, <1>14, StoredFacts
  <2>2. \A j \in DOMAIN T : j # 1 => T[j].op \notin {"keep", "settle", "submit", "offer", "tell"}
    BY <1>3, <1>14 DEF MayFollow
  <2>3. \A j \in DOMAIN T : j # 1 => Bound(T[j], session', cancelled, handed)
    BY <1>3, <2>2 DEF Bound
  <2> QED BY <1>2, <1>6, <1>10, <1>14, <2>1, <2>2, <2>3 DEF SessionIs
<1>15. CASE x.op = "render" /\ NeedsReset(session)
  <2>1. SessionIs(session', {}, session.batch, result.query)
    BY <1>1, <1>2, <1>15, StoredFacts
  <2>2. \A j \in DOMAIN T : j = 1
    BY <1>3, <1>7, <1>15
  <2>4. Covered(session'.selection, result.items, ticked)
    BY <2>1 DEF SessionIs, Covered
  <2> QED BY <1>2, <1>3, <1>9, <1>15, <2>1, <2>2, <2>4 DEF SessionIs
<1>16. CASE x.op = "render" /\ ~NeedsReset(session)
  <2>1. session' = session
    BY <1>1, <1>2, <1>16, StoredFacts
  <2>2. \A j \in DOMAIN T : j = 1
    BY <1>3, <1>7, <1>16
  <2>3. crashes = 0 => Covered(session'.selection, result.items, ticked)
    <3>1. ~Has(w, "select") /\ ~Due(w)
      BY <1>16, <2>2 DEF Has, Due, T, x
    <3>2. Stale(w, session, result, expired) => result.items = <<>>
      BY <1>16 DEF Stale, NeedsReset
    <3>3. result.items = <<>> => Covered(session.selection, result.items, ticked)
      BY DEF Covered
    <3> QED BY <1>5, <2>1, <3>1, <3>2, <3>3 DEF Tick
  <2> QED BY <1>2, <1>9, <1>16, <2>1, <2>2, <2>3
<1>17. CASE x.op = "touch"
  <2>1. session' = session
    BY <1>1, <1>2, <1>17, StoredFacts
  <2> QED BY <1>2, <1>3, <1>10, <1>17, <2>1
<1>18. x.op \in SessionOps
  BY <1>1, <1>2 DEF WorkOne, w, T, x
<1> QED BY <1>11, <1>12, <1>13, <1>14, <1>15, <1>16, <1>17, <1>18 DEF SessionOps

\* The step of a handler that is done next
LEMMA OneFirst ==
    ASSUME BatchInv, OneInv, NEW p \in Procs, proc[p].todo # <<>>
    PROVE  LET T == proc[p].todo
           IN /\ Bound(T[1], session, cancelled, handed) /\ 1 \in DOMAIN T /\ Head(T) = T[1]
              /\ \A j \in DOMAIN T : j # 1 => MayFollow(T[1].op, T[j].op)
              /\ T[1].op \in {"prepare", "queue", "settle", "tell", "render"} => Len(T) = 1
              /\ T[1].op = "tell" => session.batch.id = 0
              /\ \A j \in DOMAIN T : Bound(T[j], session, cancelled, handed)
              /\ \A j \in DOMAIN T : T[1].op # "clear" /\ T[j].op = "tell" => session.batch.id = 0
              /\ DOMAIN T = 1..Len(T)
              /\ session.batch.id \notin cancelled /\ NoRepeat(session.batch.items) /\ NoRepeat(result.items)
BY OneFacts, FirstStep, BatchFacts, WorkTodo DEF OneInv

LEMMA TailTicks ==
    ASSUME BatchInv, OneInv, NEW p \in Procs, proc[p].todo # <<>>,
           proc[p].todo[1].op \notin {"select", "result", "render"}
    PROVE  \A u \in Works : crashes = 0 /\ u.todo = Tail(proc[p].todo)
             => Tick(u, session, result, expired, ticked)
BY OneFacts, TickTail

LEMMA KeepOne ==
    ASSUME OneProc, BatchInv, OneInv, NEW p \in Procs, KeepSession(p)
    PROVE  OneInv'
<1>1. /\ proc[p].todo # <<>> /\ proc[p].todo[1].op = "keep" /\ Done(p) /\ session' = proc[p].todo[1].copy
      /\ UNCHANGED <<result, expired, crashes, ticked, cancelled, handed>>
  BY BatchFacts DEF KeepSession, At, IsIdle, bounds, history
<1>2. session' = session
  BY <1>1, OneFirst DEF Bound
<1> QED BY <1>1, <1>2, OneFirst, TailTicks, DoneOne

LEMMA CardOne ==
    ASSUME OneProc, BatchInv, OneInv, NEW p \in Procs, SendCard(p) \/ Queue(p)
    PROVE  OneInv'
<1>1. /\ proc[p].todo # <<>> /\ proc[p].todo[1].op \in {"card", "queue"} /\ Done(p)
      /\ UNCHANGED <<session, result, expired, crashes, ticked, cancelled, handed>>
  BY BatchFacts DEF SendCard, Queue, At, IsIdle, bounds, history
<1> QED BY <1>1, OneFirst, TailTicks, DoneOne

LEMMA TellOne ==
    ASSUME OneProc, BatchInv, OneInv, NEW p \in Procs, TellCancelled(p)
    PROVE  OneInv'
<1>1. /\ proc[p].todo # <<>> /\ proc[p].todo[1].op = "tell" /\ Done(p)
      /\ cancelled' = cancelled \cup {proc[p].todo[1].batch.id}
      /\ UNCHANGED <<session, result, expired, crashes, ticked, handed>>
  BY BatchFacts DEF TellCancelled, At, IsIdle, bounds
<1>2. proc[p].todo[1].batch.id # 0
  <2>1. proc[p].todo[1].batch.id \in cards /\ cards \subseteq 1..batches /\ batches \in Nat
    BY <1>1, BatchFacts DEF StepOK, BatchInv, StateOK
  <2> QED BY <2>1
<1>3. session'.batch.id \notin cancelled'
  BY <1>1, <1>2, OneFirst
<1>4. \A j \in DOMAIN proc[p].todo : j = 1
  BY <1>1, OneFirst
<1> QED BY <1>1, <1>3, <1>4, OneFirst, TailTicks, DoneOne

LEMMA ResultOne ==
    ASSUME OneProc, BatchInv, OneInv, NEW p \in Procs, SaveResult(p)
    PROVE  OneInv'
<1> DEFINE T == proc[p].todo
           x == T[1]
<1>1. /\ T # <<>> /\ x.op = "result" /\ Done(p) /\ result' = x.result /\ expired' = FALSE
      /\ UNCHANGED <<session, crashes, ticked, cancelled, handed>>
  BY BatchFacts DEF SaveResult, At, IsIdle, bounds, history
<1>2. NoRepeat(result'.items) /\ result' \in Results
  BY <1>1, OneFirst, BatchFacts, StepTyped DEF Bound
<1>3. ASSUME NEW u \in Works, u.todo = Tail(T)
      PROVE  Tick(u, session', result', expired', ticked)
  <2>0. WorkOne(proc[p], session, cancelled, handed) /\ proc[p] \in Works
    BY OneFacts
  <2>1. CASE x.result.query = 0
    <3>1. \A i \in DOMAIN result'.items : result'.items[i] \notin Approvals
      BY <1>1, <1>2, <2>1, BatchAssumption DEF Results
    <3>2. Covered(session'.selection, result'.items, ticked)
      BY <3>1 DEF Covered
    <3> QED BY <1>1, <1>3, <2>0, <3>2, TailCovered
  <2>2. CASE x.result.query # 0
    <3>1. Draws(T, session.seen)
      BY <2>0 DEF WorkOne
    <3>2. x.result.query # session.seen /\ \E j \in DOMAIN T : 1 < j /\ T[j].op = "render"
      BY <1>1, <2>2, <3>1, OneFirst DEF Draws
    <3>3. Has(u, "render")
      <4>1. \A j \in DOMAIN T : 1 < j => j - 1 \in DOMAIN u.todo /\ u.todo[j - 1] = T[j]
        BY <1>1, <1>3, <2>0, WorkTodo, TailFacts
      <4> QED BY <3>2, <4>1 DEF Has
    <3>4. Stale(u, session', result', expired')
      BY <1>1, <2>2, <3>2, <3>3 DEF Stale
    <3> QED BY <1>1, <1>3, <2>0, <3>4, TailCovered
  <2> QED BY <2>1, <2>2
<1> QED BY <1>1, <1>2, <1>3, OneFirst, DoneOne

LEMMA ClearResultOne ==
    ASSUME OneProc, BatchInv, OneInv, NEW p \in Procs, ClearResult(p)
    PROVE  OneInv'
<1>1. /\ proc[p].todo # <<>> /\ proc[p].todo[1].op = "clear_result" /\ Done(p)
      /\ result' = NoResult /\ expired' = TRUE
      /\ UNCHANGED <<session, crashes, ticked, cancelled, handed>>
  BY BatchFacts DEF ClearResult, At, IsIdle, bounds, history
<1>2. NoRepeat(result'.items) /\ Covered(session'.selection, result'.items, ticked)
  BY <1>1, EmptyTyped DEF NoRepeat, Covered
<1>3. \A u \in Works : u.todo = Tail(proc[p].todo) => Tick(u, session', result', expired', ticked)
  BY <1>1, <1>2, OneFacts, TailCovered
<1> QED BY <1>1, <1>2, <1>3, OneFirst, DoneOne

\* The session, the list and what the user ticked when a handler prepares a batch
LEMMA PreparedTicks ==
    ASSUME BatchInv, OneInv, NEW p \in Procs, At(p, "prepare"), crashes = 0
    PROVE  Covered(session.selection, result.items, ticked)
<1>1. proc[p].todo # <<>> /\ proc[p].todo[1].op = "prepare" /\ Len(proc[p].todo) = 1
      /\ DOMAIN proc[p].todo = 1..Len(proc[p].todo)
  BY BatchFacts, OneFirst DEF At, IsIdle
<1>2. \A j \in DOMAIN proc[p].todo : j = 1
  BY <1>1
<1>3. ~Has(proc[p], "select") /\ ~Has(proc[p], "render") /\ ~Due(proc[p])
  BY <1>1, <1>2 DEF Has, Due
<1> QED BY <1>3, OneFacts DEF Tick, Stale

\* A handler begins, or goes on with, a program that neither selects nor submits.
LEMMA ProgramOne ==
    ASSUME OneProc, BatchInv, OneInv, NEW p \in Procs, NEW T, Continue(p, T),
           UNCHANGED <<crashes, handed, ticked, cancelled>>,
           session'.batch.id \notin cancelled, NoRepeat(session'.batch.items), NoRepeat(result'.items),
           Ordered(T), Tells(T, session'), Draws(T, session'.seen),
           \A i \in DOMAIN T : Bound(T[i], session', cancelled, handed) /\ T[i].op \notin {"select", "submit"},
           crashes = 0 => Untouched(session'.batch, handed) /\ Covered(session'.selection, result'.items, ticked)
    PROVE  OneInv'
<1> DEFINE u == [Idle EXCEPT !.todo = T]
<1>1. proc' = [proc EXCEPT ![p] = u] /\ u.todo = T /\ ~u.loaded
  BY DEF Continue, Idle
<1> HIDE DEF u
<1>2. WorkOne(u, session', cancelled', handed')
  BY <1>1 DEF WorkOne
<1>3. ASSUME crashes = 0
      PROVE  Once(handed') /\ Spent(u, session', handed') /\ Tick(u, session', result', expired', ticked')
  BY <1>1, <1>3, OneFacts DEF Spent, Tick, Has
<1>4. proc \in [Procs -> Works] /\ crashes' \in Nat
  BY OneFacts
<1> QED BY <1>1, <1>2, <1>3, <1>4, OneStep

LEMMA PrepareOne ==
    ASSUME OneProc, BatchInv, OneInv, NEW p \in Procs, Prepare(p)
    PROVE  OneInv'
<1> DEFINE items == IF expired THEN <<>> ELSE Resolve(result.items, session.selection)
           b == [id |-> batches + 1, items |-> items]
           T == <<Offer(b), SetResult(Notes(b.items)), Touch, [Step("card") EXCEPT !.batch = b], Touch>>
<1>1. /\ proc[p].todo # <<>> /\ proc[p].todo[1].op = "prepare" /\ At(p, "prepare")
      /\ UNCHANGED <<session, result, expired, crashes, ticked, cancelled, handed>>
      /\ \/ Done(p)
         \/ Continue(p, T)
  BY BatchFacts DEF Prepare, At, IsIdle, history
<1>2. CASE Done(p)
  BY <1>1, <1>2, OneFirst, TailTicks, DoneOne
<1>3. CASE Continue(p, T)
  <2>1. /\ result.items \in Seq(Rows) /\ session.selection \in SUBSET Indexes /\ batches \in Nat
        /\ NoRepeat(result.items) /\ session.batch.id \notin cancelled /\ NoRepeat(session.batch.items)
    BY SessionTyped DEF BatchInv, StateOK, Results, OneInv
  <2>2. items \in Seq(Rows) /\ NoRepeat(items)
    <3>1. <<>> \in Seq(Rows) /\ NoRepeat(<<>>)
      BY DEF NoRepeat
    <3> QED BY <2>1, <3>1, ResolveFacts
  <2> HIDE DEF items
  <2>3. b \in Batches /\ b.id = batches + 1 /\ b.items = items
    BY <2>1, <2>2 DEF Batches
  <2>4. b.id \notin cancelled /\ Untouched(b, handed)
    <3>1. batches + 1 \notin 1..batches
      BY <2>1
    <3>2. (\A h \in handed : h[1] \in 1..batches) /\ cancelled \subseteq 1..batches
      BY DEF BatchInv, StateOK
    <3> QED BY <2>3, <3>1, <3>2 DEF Untouched
  <2>5. NoRepeat(b.items) /\ NoRepeat(Notes(b.items).items) /\ Notes(b.items).query = 0
    BY <2>2, <2>3, NotesTyped
  <2> HIDE DEF b
  <2>6. /\ T \in Seq(Steps) /\ Len(T) = 5
        /\ Carries(T[1], "offer", {}, b, NoResult, EmptySession)
        /\ Carries(T[2], "result", {}, NoBatch, Notes(b.items), EmptySession)
        /\ Plain(T[3], "touch") /\ Plain(T[5], "touch")
        /\ Carries(T[4], "card", {}, b, NoResult, EmptySession)
    BY <2>3, PrepareProgram
  <2> HIDE DEF T
  <2>7. /\ T[1].op = "offer" /\ T[2].op = "result" /\ T[3].op = "touch" /\ T[4].op = "card" /\ T[5].op = "touch"
        /\ T[1].batch = b /\ T[2].result = Notes(b.items)
        /\ DOMAIN T = 1..5 /\ T # <<>>
    <3>1. DOMAIN T = 1..5 /\ T # <<>>
      BY <2>6, LenProperties
    <3>2. /\ T[1].op = "offer" /\ T[2].op = "result" /\ T[3].op = "touch" /\ T[4].op = "card"
          /\ T[5].op = "touch" /\ T[1].batch = b /\ T[2].result = Notes(b.items)
      BY <2>6 DEF Plain, Carries
    <3> QED BY <3>1, <3>2
  <2>8. Ordered(T)
    BY <2>6, <2>7 DEF Ordered, MayFollow
  <2>9. Tells(T, session) /\ Draws(T, session.seen)
    BY <2>5, <2>7 DEF Tells, Draws
  <2>10. \A i \in DOMAIN T : Bound(T[i], session, cancelled, handed) /\ T[i].op \notin {"select", "submit"}
    BY <2>4, <2>5, <2>7 DEF Bound, Untouched
  <2>11. crashes = 0 => Untouched(session.batch, handed) /\ Covered(session.selection, result.items, ticked)
    <3>1. crashes = 0 => Spent(proc[p], session, handed) /\ Covered(session.selection, result.items, ticked)
      BY <1>1, OneFacts, PreparedTicks
    <3>2. ~Has(proc[p], "settle")
      BY <1>1, OneFirst DEF Has
    <3> QED BY <3>1, <3>2 DEF Spent
  <2> QED BY <1>1, <1>3, <2>1, <2>8, <2>9, <2>10, <2>11, ProgramOne
<1> QED BY <1>1, <1>2, <1>3

-----------------------------------------------------------------------------
(* What is handed to the provider, and what a click or a task begins *)

\* A row whose batch and whose name nothing that was handed out has
LEMMA FirstTime ==
    ASSUME NEW id, NEW row, \A h \in handed : ~(h[1] = id /\ h[2] = row)
    PROVE  Times(id, row) = 0
<1>1. {h \in handed : h[1] = id /\ h[2] = row} = {}
  OBVIOUS
<1> QED BY <1>1, FS_EmptySet DEF Times

LEMMA SubmitOne ==
    ASSUME OneProc, BatchInv, OneInv, NEW p \in Procs, NEW success \in BOOLEAN, Submit(p, success)
    PROVE  OneInv'
<1> DEFINE w == proc[p]
           T == w.todo
           b == T[1].batch
           row == b.items[1]
           new == <<b.id, row, Times(b.id, row) + 1>>
           u == Rest(w, w.won \/ success)
<1>1. /\ T # <<>> /\ T[1].op = "submit" /\ proc' = [proc EXCEPT ![p] = u]
      /\ handed' = handed \cup {new}
      /\ UNCHANGED <<session, result, expired, crashes, ticked, cancelled>>
  BY BatchFacts DEF Submit, Hand, At, IsIdle, bounds
<1>2. u \in Works /\ u.todo = Tail(T) /\ ~u.loaded
  BY <1>1, BatchFacts, DoneFacts
<1>3. /\ w \in Works /\ proc \in [Procs -> Works] /\ WorkOne(w, session, cancelled, handed) /\ crashes \in Nat
      /\ crashes = 0 => Once(handed) /\ Spent(w, session, handed) /\ Tick(w, session, result, expired, ticked)
  BY OneFacts
<1>4. /\ 1 \in DOMAIN T /\ \A j \in DOMAIN T : j # 1 => T[j].op \in {"submit", "settle"}
      /\ \A j \in DOMAIN T : Bound(T[j], session, cancelled, handed)
      /\ session.batch.id \notin cancelled /\ NoRepeat(session.batch.items) /\ NoRepeat(result.items)
  BY <1>1, OneFirst DEF MayFollow
<1>5. WorkOne(u, session, cancelled, handed')
  <2>1. \A j \in DOMAIN T : j # 1 => Bound(T[j], session, cancelled, handed')
    BY <1>4 DEF Bound
  <2>2. \A j \in DOMAIN T : ~(j # 1 /\ T[j].op = "tell")
    BY <1>4
  <2> HIDE DEF u
  <2> QED BY <1>1, <1>2, <1>3, <2>1, <2>2, TailOne
<1>6. /\ \A i \in DOMAIN u.todo : u.todo[i] = T[i + 1] /\ i + 1 \in DOMAIN T /\ i + 1 # 1 /\ i \in Nat
      /\ Len(T) \in Nat /\ DOMAIN T = 1..Len(T) /\ DOMAIN u.todo = 1..(Len(T) - 1)
  <2> HIDE DEF u
  <2>1. T \in Seq(Steps) /\ u.todo = Tail(T)
    BY <1>2, <1>3, WorkTodo
  <2> HIDE DEF T
  <2>2. /\ Len(T) \in Nat /\ DOMAIN T = 1..Len(T) /\ DOMAIN u.todo = 1..(Len(T) - 1)
        /\ \A i \in 1..(Len(T) - 1) : u.todo[i] = T[i + 1] /\ i + 1 \in 1..Len(T)
    BY <1>1, <2>1, TailFacts
  <2> QED BY <2>2
<1>7. Has(u, "settle")
  <2> HIDE DEF u
  <2>1. PICK n \in Nat : n = Len(T) /\ DOMAIN T = 1..n /\ DOMAIN u.todo = 1..(n - 1)
    BY <1>6
  <2>2. T[n].op # "submit" /\ n # 1
    BY <1>1, <1>3, <2>1 DEF WorkOne, Ordered
  <2>3. 1 \in 1..n
    BY <1>4, <2>1
  <2>4. n - 1 \in 1..(n - 1) /\ n \in 1..n /\ (n - 1) + 1 = n
    <3>1. n # 1
      BY <2>2
    <3> QED BY <2>3, <3>1
  <2>5. u.todo[n - 1] = T[n]
    BY <1>6, <2>1, <2>4
  <2>6. T[n].op = "settle"
    BY <1>4, <2>1, <2>2, <2>4
  <2> QED BY <2>1, <2>4, <2>5, <2>6 DEF Has
<1>8. new[1] = b.id /\ new[2] = row /\ new[3] = Times(b.id, row) + 1
  OBVIOUS
<1> HIDE DEF u, new
<1>9. ASSUME crashes = 0
      PROVE  Once(handed') /\ Spent(u, session, handed') /\ Tick(u, session, result, expired, ticked)
  <2>1. /\ Once(handed) /\ Spent(w, session, handed) /\ Tick(w, session, result, expired, ticked)
    BY <1>3, <1>9
  <2>2. row \in Approvals => /\ \A h \in handed : ~(h[1] = b.id /\ h[2] = row)
                             /\ \A j \in DOMAIN T : T[j].op = "submit" /\ T[j].batch.items[1] = row => j = 1
    BY <1>1, <1>4, <2>1 DEF Spent
  <2>3. Once(handed')
    BY <1>1, <1>8, <2>1, <2>2, FirstTime DEF Once
  <2>4. Tick(u, session, result, expired, ticked)
    BY <1>1, <1>2, <1>3, <2>1, TickTail
  <2>5. Spent(u, session, handed')
    <3>1. ASSUME NEW i \in DOMAIN u.todo, u.todo[i].op = "submit", u.todo[i].batch.items[1] \in Approvals
          PROVE  /\ \A h \in handed' : ~(h[1] = u.todo[i].batch.id /\ h[2] = u.todo[i].batch.items[1])
                 /\ \A j \in DOMAIN u.todo : u.todo[j].op = "submit"
                      /\ u.todo[j].batch.items[1] = u.todo[i].batch.items[1] => i = j
      <4>1. i + 1 \in DOMAIN T /\ T[i + 1] = u.todo[i] /\ i + 1 # 1 /\ i \in Nat
        BY <1>6
      <4>2. /\ \A h \in handed : ~(h[1] = u.todo[i].batch.id /\ h[2] = u.todo[i].batch.items[1])
            /\ \A j \in DOMAIN T : T[j].op = "submit" /\ T[j].batch.items[1] = u.todo[i].batch.items[1] => i + 1 = j
        BY <2>1, <3>1, <4>1 DEF Spent
      <4>3. row # u.todo[i].batch.items[1]
        BY <1>1, <1>4, <4>1, <4>2
      <4>4. \A h \in handed' : ~(h[1] = u.todo[i].batch.id /\ h[2] = u.todo[i].batch.items[1])
        BY <1>1, <1>8, <4>2, <4>3
      <4>5. ASSUME NEW j \in DOMAIN u.todo, u.todo[j].op = "submit",
                   u.todo[j].batch.items[1] = u.todo[i].batch.items[1]
            PROVE  i = j
        <5>1. i + 1 = j + 1 /\ j \in Nat
          BY <1>6, <4>2, <4>5
        <5> QED BY <4>1, <5>1
      <4> QED BY <4>4, <4>5
    <3> QED BY <1>7, <3>1 DEF Spent
  <2> QED BY <2>3, <2>4, <2>5
<1> QED BY <1>1, <1>3, <1>4, <1>5, <1>9, OneStep

LEMMA SettleOne ==
    ASSUME OneProc, BatchInv, OneInv, NEW p \in Procs, Settle(p)
    PROVE  OneInv'
<1> DEFINE s == proc[p].todo[1].copy
           cleared == IF proc[p].won THEN <<Step("clear_result"), Touch>> ELSE <<>>
           T == <<Touch>> \o cleared \o <<SetResult(Notes(s.batch.items)), Touch>>
<1>1. /\ proc[p].todo # <<>> /\ proc[p].todo[1].op = "settle" /\ session' = WithoutBatch(s) /\ Continue(p, T)
      /\ UNCHANGED <<result, expired, crashes, ticked, cancelled, handed>>
  BY BatchFacts DEF Settle, Settled, At, IsIdle, bounds, history
<1>2. s \in Sessions /\ proc[p].won \in BOOLEAN /\ s.batch.items \in Seq(Rows)
  BY <1>1, BatchFacts, StepTyped, SessionTyped
<1>3. Notes(s.batch.items).query = 0 /\ NoRepeat(Notes(s.batch.items).items)
  BY <1>2, NotesTyped
<1> HIDE DEF s
<1>4. SessionIs(session', {}, NoBatch, s.seen)
  BY <1>1, <1>2, WithoutFacts
<1>5. /\ T \in Seq(Steps) /\ Len(T) >= 1
      /\ \A i \in DOMAIN T : \/ Plain(T[i], "touch") \/ Plain(T[i], "clear_result")
                             \/ Carries(T[i], "result", {}, NoBatch, Notes(s.batch.items), EmptySession)
  BY <1>2, SettleProgram
<1> HIDE DEF T
<1>6. \A i \in DOMAIN T : /\ T[i].op \in {"touch", "clear_result", "result"}
                          /\ T[i].op = "result" => T[i].result = Notes(s.batch.items)
  BY <1>5 DEF Plain, Carries
<1>7. Ordered(T)
  <2>1. Len(T) \in DOMAIN T
    BY <1>5, LenProperties
  <2> QED BY <1>6, <2>1 DEF Ordered, MayFollow
<1>8. Tells(T, session') /\ Draws(T, session'.seen)
  BY <1>3, <1>6 DEF Tells, Draws
<1>9. \A i \in DOMAIN T : Bound(T[i], session', cancelled, handed) /\ T[i].op \notin {"select", "submit"}
  BY <1>3, <1>6 DEF Bound
<1>10. /\ session'.batch.id \notin cancelled /\ NoRepeat(session'.batch.items) /\ Untouched(session'.batch, handed)
       /\ Covered(session'.selection, result'.items, ticked) /\ NoRepeat(result'.items)
  BY <1>1, <1>4, OneFacts, OneFirst, EmptyTyped DEF SessionIs, Covered
<1> QED BY <1>1, <1>7, <1>8, <1>9, <1>10, ProgramOne

LEMMA ReceiptShape ==
    ASSUME NEW items \in Seq(Rows), NEW s, NEW C, NEW H
    PROVE  LET T == Receipt(items)
           IN /\ Ordered(T) /\ Tells(T, s) /\ Draws(T, s.seen)
              /\ \A i \in DOMAIN T : Bound(T[i], s, C, H) /\ T[i].op \notin {"select", "submit"}
              /\ \A i \in DOMAIN T : T[i].op \notin {"settle", "render"}
<1> DEFINE T == Receipt(items)
<1>1. T \in Seq(Steps) /\ Len(T) = 3 /\ Plain(T[1], "touch") /\ Plain(T[3], "touch")
      /\ Carries(T[2], "result", {}, NoBatch, Notes(items), EmptySession)
  BY NotesTyped, ReceiptProgram
<1>2. Notes(items).query = 0 /\ NoRepeat(Notes(items).items)
  BY NotesTyped
<1> HIDE DEF T
<1>3. /\ T[1].op = "touch" /\ T[2].op = "result" /\ T[3].op = "touch" /\ T[2].result = Notes(items)
  BY <1>1 DEF Plain, Carries
<1>4. DOMAIN T = 1..3 /\ Len(T) = 3
  BY <1>1, LenProperties
<1>5. Ordered(T)
  BY <1>3, <1>4 DEF Ordered, MayFollow
<1>6. Tells(T, s) /\ Draws(T, s.seen)
  BY <1>2, <1>3, <1>4 DEF Tells, Draws
<1>7. \A i \in DOMAIN T : Bound(T[i], s, C, H) /\ T[i].op \notin {"select", "submit", "settle", "render"}
  BY <1>2, <1>3, <1>4 DEF Bound
<1> QED BY <1>5, <1>6, <1>7 DEF T

LEMMA RaiseOne ==
    ASSUME OneProc, BatchInv, OneInv, NEW p \in Procs, SubmitRaises(p)
    PROVE  OneInv'
<1> DEFINE T == Receipt(<<>>)
           u == [Idle EXCEPT !.todo = T]
<1>1. /\ Continue(p, T) /\ crashes' = crashes + 1
      /\ UNCHANGED <<session, result, cancelled>> /\ proc[p].todo # <<>>
  BY DEF SubmitRaises, At, IsIdle
<1>2. Ordered(T) /\ Tells(T, session) /\ Draws(T, session.seen)
      /\ \A i \in DOMAIN T : Bound(T[i], session, cancelled, handed')
  <2>1. <<>> \in Seq(Rows)
    OBVIOUS
  <2> QED BY <2>1, ReceiptShape
<1> HIDE DEF T
<1>3. proc' = [proc EXCEPT ![p] = u] /\ u.todo = T /\ ~u.loaded
  BY <1>1 DEF Continue, Idle
<1> HIDE DEF u
<1>4. WorkOne(u, session', cancelled', handed')
  BY <1>1, <1>2, <1>3 DEF WorkOne
<1>5. crashes' \in Nat /\ crashes' # 0 /\ proc \in [Procs -> Works]
  BY <1>1, OneFacts
<1> QED BY <1>1, <1>3, <1>4, <1>5, OneFirst, OneStep

\* A handler that begins one of the programs below leaves the chat as it is for now.
LEMMA QuietBegin ==
    ASSUME OneProc, BatchInv, OneInv, NEW p \in Procs, NEW T, Begin(p, T),
           UNCHANGED <<session, result, expired, crashes, ticked, cancelled, handed>>,
           Ordered(T), Tells(T, session), Draws(T, session.seen),
           \A i \in DOMAIN T : Bound(T[i], session, cancelled, handed) /\ T[i].op \notin {"select", "submit"}
    PROVE  OneInv'
<1>1. Continue(p, T) /\ proc[p].todo = <<>>
  BY DEF Begin, IsIdle
<1>2. crashes = 0 => Untouched(session.batch, handed) /\ Covered(session.selection, result.items, ticked)
  BY <1>1, OneFacts, IdleOne
<1>3. session.batch.id \notin cancelled /\ NoRepeat(session.batch.items) /\ NoRepeat(result.items)
  BY DEF OneInv
<1> QED BY <1>1, <1>2, <1>3, ProgramOne

LEMMA ClickOne ==
    ASSUME OneProc, BatchInv, OneInv, NEW p \in Procs, NEW id,
           ClickStale(p, id) \/ ClickExpired(p, id) \/ ClickCancel(p, id) \/ ClickConfirm(p, id)
    PROVE  OneInv'
<1> DEFINE b == session.batch
           R == Receipt(b.items)
<1>1. b \in Batches /\ b.items \in Seq(Rows) /\ UNCHANGED <<session, result, expired, crashes, ticked, cancelled, handed>>
  BY SessionTyped DEF BatchInv, StateOK, ClickStale, ClickExpired, ClickCancel, ClickConfirm, bounds, history
<1>2. Notes(b.items).query = 0 /\ NoRepeat(Notes(b.items).items)
  BY <1>1, NotesTyped
<1>3. CASE ClickStale(p, id)
  <2>1. /\ Ordered(R) /\ Tells(R, session) /\ Draws(R, session.seen)
        /\ \A i \in DOMAIN R : Bound(R[i], session, cancelled, handed) /\ R[i].op \notin {"select", "submit"}
    BY <1>1, ReceiptShape
  <2>2. Begin(p, R)
    BY <1>3 DEF ClickStale
  <2> HIDE DEF R
  <2> QED BY <1>1, <2>1, <2>2, QuietBegin
<1>4. CASE ClickExpired(p, id)
  <2> DEFINE T == <<Clear>> \o Receipt(b.items)
  <2>1. Begin(p, T)
    BY <1>4 DEF ClickExpired
  <2> HIDE DEF b
  <2>2. /\ T \in Seq(Steps) /\ Len(T) = 4
        /\ Plain(T[1], "clear") /\ Plain(T[2], "touch") /\ Plain(T[4], "touch")
        /\ Carries(T[3], "result", {}, NoBatch, Notes(b.items), EmptySession)
    BY <1>1, ClearProgram
  <2> HIDE DEF T
  <2>3. /\ T[1].op = "clear" /\ T[2].op = "touch" /\ T[3].op = "result" /\ T[4].op = "touch"
        /\ T[3].result = Notes(b.items)
    BY <2>2 DEF Plain, Carries
  <2>4. DOMAIN T = 1..4 /\ Len(T) = 4
    BY <2>2, LenProperties
  <2>5. Ordered(T)
    BY <2>3, <2>4 DEF Ordered, MayFollow
  <2>6. Tells(T, session) /\ Draws(T, session.seen)
    BY <1>2, <2>3, <2>4 DEF Tells, Draws
  <2>7. \A i \in DOMAIN T : Bound(T[i], session, cancelled, handed) /\ T[i].op \notin {"select", "submit"}
    BY <1>2, <2>3, <2>4 DEF Bound
  <2> QED BY <1>1, <2>1, <2>5, <2>6, <2>7, QuietBegin
<1>5. CASE ClickCancel(p, id)
  <2> DEFINE T == <<Clear>> \o Receipt(b.items) \o <<[Step("tell") EXCEPT !.batch = b]>>
  <2>1. Begin(p, T)
    BY <1>5 DEF ClickCancel
  <2> HIDE DEF b
  <2>2. /\ T \in Seq(Steps) /\ Len(T) = 5
        /\ Plain(T[1], "clear") /\ Plain(T[2], "touch") /\ Plain(T[4], "touch")
        /\ Carries(T[3], "result", {}, NoBatch, Notes(b.items), EmptySession)
        /\ Carries(T[5], "tell", {}, b, NoResult, EmptySession)
    BY <1>1, CancelProgram
  <2> HIDE DEF T
  <2>3. /\ T[1].op = "clear" /\ T[2].op = "touch" /\ T[3].op = "result" /\ T[4].op = "touch"
        /\ T[5].op = "tell" /\ T[3].result = Notes(b.items)
    BY <2>2 DEF Plain, Carries
  <2>4. DOMAIN T = 1..5 /\ Len(T) = 5
    BY <2>2, LenProperties
  <2>5. Ordered(T)
    BY <2>3, <2>4 DEF Ordered, MayFollow
  <2>6. Tells(T, session) /\ Draws(T, session.seen)
    BY <1>2, <2>3, <2>4 DEF Tells, Draws
  <2>7. \A i \in DOMAIN T : Bound(T[i], session, cancelled, handed) /\ T[i].op \notin {"select", "submit"}
    BY <1>2, <2>3, <2>4 DEF Bound
  <2> QED BY <1>1, <2>1, <2>5, <2>6, <2>7, QuietBegin
<1>6. CASE ClickConfirm(p, id)
  <2> DEFINE T == Receipt(b.items) \o <<Step("queue")>>
  <2>1. Begin(p, T)
    BY <1>6 DEF ClickConfirm
  <2> HIDE DEF b
  <2>2. /\ T \in Seq(Steps) /\ Len(T) = 4
        /\ Plain(T[1], "touch") /\ Plain(T[3], "touch") /\ Plain(T[4], "queue")
        /\ Carries(T[2], "result", {}, NoBatch, Notes(b.items), EmptySession)
    BY <1>1, ConfirmProgram
  <2> HIDE DEF T
  <2>3. /\ T[1].op = "touch" /\ T[2].op = "result" /\ T[3].op = "touch" /\ T[4].op = "queue"
        /\ T[2].result = Notes(b.items)
    BY <2>2 DEF Plain, Carries
  <2>4. DOMAIN T = 1..4 /\ Len(T) = 4
    BY <2>2, LenProperties
  <2>5. Ordered(T)
    BY <2>3, <2>4 DEF Ordered, MayFollow
  <2>6. Tells(T, session) /\ Draws(T, session.seen)
    BY <1>2, <2>3, <2>4 DEF Tells, Draws
  <2>7. \A i \in DOMAIN T : Bound(T[i], session, cancelled, handed) /\ T[i].op \notin {"select", "submit"}
    BY <1>2, <2>3, <2>4 DEF Bound
  <2> QED BY <1>1, <2>1, <2>5, <2>6, <2>7, QuietBegin
<1> QED BY <1>3, <1>4, <1>5, <1>6

\* A handler that begins by storing a selection
LEMMA SelectingOne ==
    ASSUME OneProc, BatchInv, OneInv, NEW p \in Procs, NEW S \in SUBSET Indexes,
           NEW y \in {Render, Step("prepare")}, Begin(p, <<SetSelection(S), y>>),
           UNCHANGED <<session, result, expired, crashes, cancelled, handed>>,
           crashes = 0 => Covered(S, result.items, ticked')
    PROVE  OneInv'
<1> DEFINE T == <<SetSelection(S), y>>
           u == [Idle EXCEPT !.todo = T]
<1>1. T \in Seq(Steps) /\ Len(T) = 2
      /\ Carries(T[1], "select", S, NoBatch, NoResult, EmptySession) /\ (Plain(T[2], "render") \/ Plain(T[2], "prepare"))
  BY SelectProgram
<1>2. proc' = [proc EXCEPT ![p] = u] /\ u.todo = T /\ ~u.loaded /\ proc[p].todo = <<>>
  BY DEF Begin, Continue, IsIdle, Idle
<1> HIDE DEF T
<1> HIDE DEF u
<1>3. T[1].op = "select" /\ T[1].sel = S /\ T[2].op \in {"render", "prepare"} /\ DOMAIN T = 1..2
  BY <1>1, LenProperties DEF Carries, Plain
<1>4. WorkOne(u, session, cancelled, handed)
  <2>1. Ordered(T)
    BY <1>1, <1>3 DEF Ordered, MayFollow
  <2>2. Tells(T, session) /\ Draws(T, session.seen)
    BY <1>3 DEF Tells, Draws
  <2>3. \A i \in DOMAIN T : Bound(T[i], session, cancelled, handed)
    BY <1>3 DEF Bound
  <2> QED BY <1>2, <2>1, <2>2, <2>3 DEF WorkOne
<1>5. ASSUME crashes = 0
      PROVE  Once(handed) /\ Spent(u, session, handed) /\ Tick(u, session, result, expired, ticked')
  <2>1. Once(handed) /\ Untouched(session.batch, handed)
    BY <1>2, <1>5, OneFacts, IdleOne
  <2>2. \A i \in DOMAIN u.todo : u.todo[i].op # "submit"
    BY <1>2, <1>3
  <2>3. Spent(u, session, handed)
    BY <2>1, <2>2 DEF Spent
  <2>4. Has(u, "select")
    BY <1>2, <1>3 DEF Has
  <2>5. Tick(u, session, result, expired, ticked')
    BY <1>2, <1>3, <1>5, <2>4 DEF Tick
  <2> QED BY <2>1, <2>3, <2>5
<1>6. session.batch.id \notin cancelled /\ NoRepeat(session.batch.items) /\ NoRepeat(result.items)
      /\ crashes \in Nat /\ proc \in [Procs -> Works]
  BY OneFacts DEF OneInv
<1> QED BY <1>2, <1>4, <1>5, <1>6, OneStep

LEMMA TouchingOne ==
    ASSUME OneProc, BatchInv, OneInv, NEW p \in Procs,
           NEW y \in {Render, Step("prepare")}, Begin(p, <<Touch, y>>),
           UNCHANGED <<session, result, expired, crashes, ticked, cancelled, handed>>
    PROVE  OneInv'
<1> DEFINE T == <<Touch, y>>
<1>1. T \in Seq(Steps) /\ Len(T) = 2 /\ Plain(T[1], "touch") /\ (Plain(T[2], "render") \/ Plain(T[2], "prepare"))
  BY TouchProgram
<1>2. Begin(p, T)
  OBVIOUS
<1> HIDE DEF T
<1>3. T[1].op = "touch" /\ T[2].op \in {"render", "prepare"} /\ DOMAIN T = 1..2
  BY <1>1, LenProperties DEF Carries, Plain
<1>4. Ordered(T)
  BY <1>1, <1>3 DEF Ordered, MayFollow
<1>5. Tells(T, session) /\ Draws(T, session.seen)
  BY <1>3 DEF Tells, Draws
<1>6. \A i \in DOMAIN T : Bound(T[i], session, cancelled, handed) /\ T[i].op \notin {"select", "submit"}
  BY <1>3 DEF Bound
<1> QED BY <1>2, <1>4, <1>5, <1>6, QuietBegin

\* A click on a row ticks what it selects, and unticks what it drops: a list names
\* an approval once.
LEMMA ToggleTicks ==
    ASSUME BatchInv, OneInv, NEW p \in Procs, NEW i \in Indexes, Select(p, i), crashes = 0
    PROVE  Covered(Toggle(session.selection, i), result.items, ticked')
<1> DEFINE items == result.items
           sel == session.selection
           named == i \in DOMAIN items /\ items[i] \in Approvals
<1>1. proc[p].todo = <<>> /\ NoRepeat(items)
  BY DEF Select, Begin, IsIdle, OneInv
<1>2. Covered(sel, items, ticked)
  BY <1>1, OneFacts, IdleOne
<1>3. ticked' = IF named THEN IF i \in sel THEN ticked \ {items[i]} ELSE ticked \cup {items[i]}
                ELSE ticked
  BY DEF Select
<1> HIDE DEF items, sel, named
<1>4. ASSUME NEW j \in Toggle(sel, i), j \in DOMAIN items, items[j] \in Approvals
      PROVE  items[j] \in ticked'
  <2>1. CASE i \in sel
    <3>1. j \in sel /\ j # i
      BY <1>4, <2>1 DEF Toggle
    <3>2. items[j] \in ticked
      BY <1>2, <1>4, <3>1 DEF Covered
    <3>3. named => items[j] # items[i]
      BY <1>1, <1>4, <3>1 DEF NoRepeat, named
    <3> QED BY <1>3, <2>1, <3>2, <3>3
  <2>2. CASE i \notin sel
    <3>1. j \in sel \/ j = i
      BY <1>4, <2>2 DEF Toggle
    <3>2. j \in sel => items[j] \in ticked
      BY <1>2, <1>4 DEF Covered
    <3>3. j = i => named
      BY <1>4 DEF named
    <3> QED BY <1>3, <2>2, <3>1, <3>2, <3>3
  <2> QED BY <2>1, <2>2
<1> QED BY <1>4 DEF Covered, items, sel

LEMMA WorkbenchOne ==
    ASSUME OneProc, BatchInv, OneInv, NEW p \in Procs, Workbench(p)
    PROVE  OneInv'
<1>1. ASSUME NEW i \in Indexes, Select(p, i)
      PROVE  OneInv'
  <2>1. Begin(p, <<SetSelection(Toggle(session.selection, i)), Render>>)
        /\ UNCHANGED <<session, result, expired, crashes, cancelled, handed>>
    BY <1>1 DEF Select, bounds
  <2>2. Toggle(session.selection, i) \in SUBSET Indexes
    BY SelectionTyped
  <2>3. crashes = 0 => Covered(Toggle(session.selection, i), result.items, ticked')
    BY <1>1, ToggleTicks
  <2> QED BY <2>1, <2>2, <2>3, SelectingOne
<1>2. CASE Fold(p)
  <2>1. Begin(p, <<Touch, Render>>)
        /\ UNCHANGED <<session, result, expired, crashes, ticked, cancelled, handed>>
    BY <1>2 DEF Fold, bounds, history
  <2> QED BY <2>1, TouchingOne
<1>3. CASE ClearSelection(p)
  <2>1. Begin(p, <<SetSelection({}), Render>>)
        /\ UNCHANGED <<session, result, expired, crashes, cancelled, handed>>
    BY <1>3 DEF ClearSelection, bounds
  <2>2. Covered({}, result.items, ticked') /\ {} \in SUBSET Indexes
    BY DEF Covered
  <2> QED BY <2>1, <2>2, SelectingOne
<1>4. CASE BatchApprove(p)
  <2>1. Begin(p, <<Touch, Step("prepare")>>)
        /\ UNCHANGED <<session, result, expired, crashes, ticked, cancelled, handed>>
    BY <1>4 DEF BatchApprove, bounds, history
  <2> QED BY <2>1, TouchingOne
<1>5. CASE BatchApproveGroup(p)
  <2>1. Begin(p, <<SetSelection(group_indexes(result.items)), Step("prepare")>>)
        /\ UNCHANGED <<session, result, expired, crashes, cancelled, handed>>
        /\ ticked' = {result.items[i] : i \in group_indexes(result.items)}
    BY <1>5 DEF BatchApproveGroup, bounds
  <2>2. Covered(group_indexes(result.items), result.items, ticked')
    BY <2>1 DEF Covered
  <2>3. group_indexes(result.items) \in SUBSET Indexes
    BY SelectionTyped
  <2> QED BY <2>1, <2>2, <2>3, SelectingOne
<1> QED BY <1>1, <1>2, <1>3, <1>4, <1>5 DEF Workbench

LEMMA TaskOne ==
    ASSUME OneProc, BatchInv, OneInv, NEW p \in Procs, StartTask(p)
    PROVE  OneInv'
<1> DEFINE rows == session.batch.items
           n == Len(rows)
           T == [i \in DOMAIN rows |-> [Step("submit") EXCEPT !.batch = [id |-> session.batch.id,
                                                                        items |-> <<rows[i]>>]]]
                  \o <<[Step("settle") EXCEPT !.copy = session]>>
           F == <<SetResult(Notes(<<>>)), Touch>>
<1>1. /\ Begin(p, IF rows = <<>> THEN F ELSE T) /\ proc[p].todo = <<>>
      /\ UNCHANGED <<session, result, expired, crashes, ticked, cancelled, handed>>
  BY DEF StartTask, Begin, IsIdle, history
<1>2. /\ session \in Sessions /\ session.batch.id \notin cancelled /\ NoRepeat(rows) /\ NoRepeat(result.items)
      /\ proc \in [Procs -> Works] /\ crashes \in Nat
  BY DEF BatchInv, StateOK, OneInv
<1>3. CASE rows = <<>>
  <2> DEFINE r == Notes(<<>>)
             x == SetResult(r)
  <2>1. r.query = 0 /\ NoRepeat(r.items) /\ r \in Results
    <3>1. <<>> \in Seq(Rows)
      OBVIOUS
    <3> QED BY <3>1, NotesTyped
  <2>2. Begin(p, F)
    BY <1>1, <1>3
  <2>3. Carries(x, "result", {}, NoBatch, r, EmptySession) /\ Plain(Touch, "touch")
    <3> HIDE DEF r
    <3> QED BY <2>1, StepsTyped, PlainSteps
  <2> HIDE DEF x
  <2>4. x \in Steps /\ Touch \in Steps
    BY <2>3 DEF Carries, Plain
  <2>5. F \in Seq(Steps) /\ Len(F) = 2 /\ F[1] = x /\ F[2] = Touch
    BY <2>4, ShortPrograms DEF x
  <2> HIDE DEF F, r
  <2>6. F[1].op = "result" /\ F[1].result = r /\ F[2].op = "touch" /\ DOMAIN F = 1..2
    BY <2>3, <2>5, LenProperties DEF Carries, Plain
  <2>7. Ordered(F)
    BY <2>5, <2>6 DEF Ordered, MayFollow
  <2>8. Tells(F, session) /\ Draws(F, session.seen)
    BY <2>1, <2>6 DEF Tells, Draws
  <2>9. \A i \in DOMAIN F : Bound(F[i], session, cancelled, handed) /\ F[i].op \notin {"select", "submit"}
    BY <2>1, <2>6 DEF Bound
  <2> QED BY <1>1, <2>2, <2>7, <2>8, <2>9, QuietBegin
<1>4. CASE rows # <<>>
  <2> DEFINE u == [Idle EXCEPT !.todo = T]
  <2>1. proc' = [proc EXCEPT ![p] = u] /\ u.todo = T /\ ~u.loaded
    BY <1>1, <1>4 DEF Begin, Continue, Idle
  <2>2. /\ T \in Seq(Steps) /\ Len(T) = n + 1 /\ n \in Nat \ {0}
        /\ \A i \in 1..n : /\ i \in DOMAIN rows
                           /\ Carries(T[i], "submit", {}, T[i].batch, NoResult, EmptySession)
                           /\ T[i].batch.id = session.batch.id
                           /\ T[i].batch.items[1] = rows[i]
        /\ Carries(T[n + 1], "settle", {}, NoBatch, NoResult, session)
    BY <1>2, <1>4, TaskProgram
  <2> HIDE DEF T
  <2> HIDE DEF u, n
  <2>3. /\ DOMAIN T = 1..(n + 1) /\ T # <<>>
        /\ \A i \in 1..(n + 1) : i = n + 1 \/ (i \in 1..n /\ i # n + 1)
        /\ n + 1 \in 1..(n + 1)
    BY <2>2, LenProperties
  <2>4. /\ \A i \in 1..n : /\ T[i].op = "submit" /\ i \in DOMAIN rows /\ T[i].batch.id = session.batch.id
                           /\ T[i].batch.items[1] = rows[i]
        /\ T[n + 1].op = "settle" /\ T[n + 1].copy = session
    BY <2>2 DEF Carries
  <2>5. WorkOne(u, session, cancelled, handed)
    <3>1. Ordered(T)
      <4>1. \A i, j \in DOMAIN T : i < j => T[i].op = "submit" /\ T[j].op \in {"submit", "settle"}
        <5>1. \A i, j \in 1..(n + 1) : i < j => i # n + 1
          BY <2>2
        <5> QED BY <2>3, <2>4, <5>1
      <4>2. T[Len(T)].op # "submit"
        BY <2>2, <2>4
      <4> QED BY <4>1, <4>2 DEF Ordered, MayFollow
    <3>2. \A i \in DOMAIN T : T[i].op \in {"submit", "settle"}
      BY <2>3, <2>4
    <3>3. Tells(T, session) /\ Draws(T, session.seen)
      BY <3>2 DEF Tells, Draws
    <3>4. \A i \in DOMAIN T : Bound(T[i], session, cancelled, handed)
      BY <2>3, <2>4 DEF Bound
    <3> QED BY <2>1, <3>1, <3>3, <3>4 DEF WorkOne
  <2>6. ASSUME crashes = 0
        PROVE  Once(handed) /\ Spent(u, session, handed) /\ Tick(u, session, result, expired, ticked)
    <3>1. /\ Once(handed) /\ Untouched(session.batch, handed)
          /\ Covered(session.selection, result.items, ticked)
      BY <1>1, <2>6, OneFacts, IdleOne
    <3>2. Has(u, "settle") /\ ~Has(u, "select")
      BY <2>1, <2>3, <2>4 DEF Has
    <3>3. ASSUME NEW i \in DOMAIN T, T[i].op = "submit", T[i].batch.items[1] \in Approvals
          PROVE  /\ \A h \in handed : ~(h[1] = T[i].batch.id /\ h[2] = T[i].batch.items[1])
                 /\ \A j \in DOMAIN T : T[j].op = "submit" /\ T[j].batch.items[1] = T[i].batch.items[1] => i = j
      <4>1. T[i].batch.id = session.batch.id /\ T[i].batch.items[1] = rows[i] /\ i \in DOMAIN rows
        BY <2>3, <2>4, <3>3
      <4>2. \A j \in DOMAIN T : T[j].op = "submit" => j \in DOMAIN rows /\ T[j].batch.items[1] = rows[j]
        BY <2>3, <2>4
      <4>3. \A j \in DOMAIN rows : rows[i] = rows[j] /\ rows[i] \in Approvals => i = j
        BY <1>2, <4>1 DEF NoRepeat
      <4> HIDE DEF rows
      <4> QED BY <3>1, <3>3, <4>1, <4>2, <4>3 DEF Untouched
    <3>4. Spent(u, session, handed)
      BY <2>1, <3>2, <3>3 DEF Spent
    <3>5. Tick(u, session, result, expired, ticked)
      BY <3>1, <3>2 DEF Tick
    <3> QED BY <3>1, <3>4, <3>5
  <2> QED BY <1>1, <1>2, <2>1, <2>5, <2>6, OneStep
<1> QED BY <1>3, <1>4

LEMMA QueryOne ==
    ASSUME OneProc, NoneTwice, BatchInv, OneInv, NEW p \in Procs, NEW list \in Listings, Query(p, list)
    PROVE  OneInv'
<1>1. PICK r \in Results :
             /\ r.items = list /\ r.query \in 1..MaxQueries \ UsedQueries
             /\ Begin(p, <<Keep(session), SetResult(r), Touch, Keep(session), Clean, Touch, Render>>)
             /\ UNCHANGED <<session, result, expired, bounds, confirmed, cancelled, handed>>
  BY QueryFacts
<1> DEFINE T == <<Keep(session), SetResult(r), Touch, Keep(session), Clean, Touch, Render>>
           u == [Idle EXCEPT !.todo = T]
<1>2. /\ session \in Sessions /\ session.batch.id \notin cancelled /\ NoRepeat(session.batch.items)
      /\ NoRepeat(result.items) /\ proc \in [Procs -> Works] /\ crashes \in Nat
  BY DEF BatchInv, StateOK, OneInv
<1>3. /\ T \in Seq(Steps) /\ Len(T) = 7
      /\ Carries(T[1], "keep", {}, NoBatch, NoResult, session)
      /\ Carries(T[2], "result", {}, NoBatch, r, EmptySession)
      /\ Plain(T[3], "touch")
      /\ Carries(T[4], "keep", {}, NoBatch, NoResult, session)
      /\ Plain(T[5], "clean") /\ Plain(T[6], "touch") /\ Plain(T[7], "render")
  BY <1>2, QueryProgram
<1>4. proc' = [proc EXCEPT ![p] = u] /\ u.todo = T /\ ~u.loaded /\ proc[p].todo = <<>>
  BY <1>1 DEF Begin, Continue, Idle, IsIdle
<1>5. r.query # 0 /\ r.query # session.seen /\ NoRepeat(r.items)
  <2>1. r.query \notin {session.seen, result.query}
    BY <1>1 DEF UsedQueries
  <2>2. r.query # 0
    BY <1>1, BatchAssumption
  <2> QED BY <1>1, <2>1, <2>2 DEF NoneTwice
<1> HIDE DEF T
<1> HIDE DEF u
<1>6. /\ T[1].op = "keep" /\ T[2].op = "result" /\ T[3].op = "touch" /\ T[4].op = "keep" /\ T[5].op = "clean"
      /\ T[6].op = "touch" /\ T[7].op = "render" /\ T[1].copy = session /\ T[4].copy = session
      /\ T[2].result = r
  BY <1>3 DEF Carries, Plain
<1>7. DOMAIN T = 1..7
  BY <1>3, LenProperties
<1>8. \A i \in DOMAIN T : i = 1 \/ i = 2 \/ i = 3 \/ i = 4 \/ i = 5 \/ i = 6 \/ i = 7
  BY <1>7
<1>9. WorkOne(u, session, cancelled, handed)
  <2>1. Ordered(T)
    <3>1. ASSUME NEW i \in DOMAIN T, NEW j \in DOMAIN T, i < j
          PROVE  MayFollow(T[i].op, T[j].op)
      <4>1. /\ T[i].op \in {"keep", "result", "touch", "clean"}
            /\ T[i].op = "clean" => i = 5
        BY <1>6, <1>7, <1>8, <3>1
      <4>2. /\ T[j].op \in {"result", "keep", "touch", "clean", "render"}
            /\ T[j].op = "keep" => j \in {1, 4}
        BY <1>6, <1>8
      <4>3. ~(T[i].op = "clean" /\ T[j].op = "keep")
        BY <1>7, <3>1, <4>1, <4>2
      <4> QED BY <4>1, <4>2, <4>3 DEF MayFollow
    <3> QED BY <1>3, <1>6, <3>1 DEF Ordered
  <2>2. Tells(T, session)
    BY <1>6, <1>8 DEF Tells
  <2>3. Draws(T, session.seen)
    <3>1. \A i \in DOMAIN T : T[i].op = "result" => i = 2
      BY <1>6, <1>8
    <3>2. 7 \in DOMAIN T /\ 2 < 7
      BY <1>7
    <3> QED BY <1>5, <1>6, <3>1, <3>2 DEF Draws
  <2>4. \A i \in DOMAIN T : Bound(T[i], session, cancelled, handed)
    BY <1>5, <1>6, <1>8 DEF Bound
  <2> QED BY <1>4, <2>1, <2>2, <2>3, <2>4 DEF WorkOne
<1>10. ASSUME crashes = 0
       PROVE  Once(handed) /\ Spent(u, session, handed) /\ Tick(u, session, result, expired, ticked')
  <2>1. Once(handed) /\ Untouched(session.batch, handed)
    BY <1>4, <1>10, OneFacts, IdleOne
  <2>2. \A i \in DOMAIN T : T[i].op \notin {"submit", "select"}
    BY <1>6, <1>8
  <2>3. Due(u)
    <3>1. 2 \in DOMAIN T /\ 7 \in DOMAIN T /\ 2 < 7
      BY <1>7
    <3> QED BY <1>4, <1>5, <1>6, <3>1 DEF Due
  <2>4. Spent(u, session, handed)
    BY <1>4, <2>1, <2>2 DEF Spent
  <2>5. Tick(u, session, result, expired, ticked')
    BY <1>4, <2>2, <2>3 DEF Tick, Has
  <2> QED BY <2>1, <2>4, <2>5
<1>11. UNCHANGED <<session, result, expired, crashes, cancelled, handed>>
  BY <1>1 DEF bounds
<1> QED BY <1>2, <1>4, <1>9, <1>10, <1>11, OneStep

LEMMA CrashOne ==
    ASSUME OneProc, BatchInv, OneInv, NEW p \in Procs, Crash(p)
    PROVE  OneInv'
<1>1. /\ proc' = [proc EXCEPT ![p] = Idle] /\ crashes' = crashes + 1
      /\ UNCHANGED <<session, result, cancelled, handed>>
  BY DEF Crash, history
<1>2. WorkOne(Idle, session, cancelled, handed)
  <2>1. DOMAIN Idle.todo = {} /\ Idle.todo = <<>> /\ ~Idle.loaded
    BY EmptyTyped
  <2> QED BY <2>1 DEF WorkOne, Ordered, Tells, Draws
<1>3. /\ crashes' \in Nat /\ crashes' # 0 /\ proc \in [Procs -> Works]
      /\ session.batch.id \notin cancelled /\ NoRepeat(session.batch.items) /\ NoRepeat(result.items)
  BY <1>1, OneFacts DEF OneInv
<1> QED BY <1>1, <1>2, <1>3, OneStep

LEMMA ClockOne ==
    ASSUME OneProc, BatchInv, OneInv,
           (\E id \in 1..MaxBatches : Lapse(id)) \/ ExpireResult \/ ExpireSession \/ UNCHANGED vars
    PROVE  OneInv'
<1>1. CASE (\E id \in 1..MaxBatches : Lapse(id)) \/ UNCHANGED vars
  <2>1. UNCHANGED <<session, result, expired, proc, crashes, ticked, cancelled, handed>>
    BY <1>1 DEF Lapse, vars, bounds, history
  <2> QED BY <2>1 DEF OneInv, Tick, Stale, Due, Has, Spent
<1>2. CASE ExpireResult
  <2>1. /\ \A p \in Procs : proc[p].todo = <<>>
        /\ result' = NoResult /\ UNCHANGED <<session, proc, crashes, ticked, cancelled, handed>>
    BY <1>2 DEF ExpireResult, IsIdle, bounds, history
  <2>2. NoRepeat(result'.items) /\ Covered(session.selection, result'.items, ticked)
    BY <2>1, EmptyTyped DEF NoRepeat, Covered
  <2>3. \A p \in Procs : Tick(proc[p], session, result', expired', ticked)
    BY <2>1, <2>2, IdleOne
  <2> QED BY <2>1, <2>2, <2>3 DEF OneInv, Spent, Has
<1>3. CASE ExpireSession
  <2>1. /\ \A p \in Procs : proc[p].todo = <<>>
        /\ session' = EmptySession /\ UNCHANGED <<result, expired, proc, crashes, cancelled, handed>>
    BY <1>3 DEF ExpireSession, IsIdle
  <2>2. ASSUME NEW p \in Procs
        PROVE  /\ session'.batch.id \notin cancelled /\ NoRepeat(session'.batch.items)
               /\ Spent(proc[p], session', handed) /\ Tick(proc[p], session', result, expired, ticked')
    <3>1. session'.batch = NoBatch /\ session'.selection = {} /\ NoBatch.id = 0
      BY <2>1, EmptyTyped
    <3>2. Covered(session'.selection, result.items, ticked')
      BY <3>1 DEF Covered
    <3> QED BY <2>1, <3>1, <3>2, OneFacts, IdleOne
  <2>3. 0 \notin cancelled /\ session'.batch.id = 0 /\ session'.batch.items = <<>>
    <3>1. batches \in Nat /\ cancelled \subseteq cards /\ cards \subseteq 1..batches
      BY DEF BatchInv, StateOK
    <3>2. 0 \notin 1..batches
      BY <3>1
    <3> QED BY <2>1, <3>1, <3>2, EmptyTyped
  <2>4. NoRepeat(session'.batch.items)
    BY <2>3 DEF NoRepeat
  <2>5. \A p \in Procs : WorkOne(proc[p], session', cancelled, handed)
    <3>1. \A p \in Procs : DOMAIN proc[p].todo = {} /\ (proc[p].loaded => proc[p].todo # <<>>)
      BY <2>1, BatchFacts
    <3> QED BY <2>1, <3>1 DEF WorkOne, Ordered, Tells, Draws
  <2> QED BY <2>1, <2>2, <2>3, <2>4, <2>5 DEF OneInv
<1> QED BY <1>1, <1>2, <1>3

LEMMA OneNext == OneProc /\ NoneTwice /\ BatchInv /\ OneInv /\ [Next]_vars => OneInv'
<1> SUFFICES ASSUME OneProc, NoneTwice, BatchInv, OneInv, [Next]_vars
             PROVE  OneInv'
  OBVIOUS
<1>1. ASSUME NEW p \in Procs, Continues(p)
      PROVE  OneInv'
  BY <1>1, LoadOne, StoreOne, KeepOne, ResultOne, ClearResultOne, PrepareOne, CardOne, TellOne,
     SubmitOne, SettleOne DEF Continues
<1>2. ASSUME NEW p \in Procs, ConfirmCard(p)
      PROVE  OneInv'
  BY <1>2, ClickOne DEF ConfirmCard
<1>3. ASSUME NEW p \in Procs,
             Workbench(p) \/ StartTask(p) \/ (\E list \in Listings : Query(p, list)) \/ SubmitRaises(p) \/ Crash(p)
      PROVE  OneInv'
  BY <1>3, WorkbenchOne, TaskOne, QueryOne, RaiseOne, CrashOne
<1> QED BY <1>1, <1>2, <1>3, ClockOne DEF Next

LEMMA OneInit == Init => OneInv
<1> SUFFICES ASSUME Init
             PROVE  OneInv
  OBVIOUS
<1>1. \A p \in Procs : proc[p] = Idle
  BY DEF Init
<1>2. Idle.todo = <<>> /\ DOMAIN Idle.todo = {} /\ ~Idle.loaded
  BY EmptyTyped
<1>3. WorkOne(Idle, session, cancelled, handed)
  BY <1>2 DEF WorkOne, Ordered, Tells, Draws
<1>4. Covered(session.selection, result.items, ticked) /\ Untouched(session.batch, handed) /\ Once(handed)
  BY EmptyTyped DEF Init, Covered, Untouched, Once
<1>5. Tick(Idle, session, result, expired, ticked) /\ Spent(Idle, session, handed)
  BY <1>2, <1>4, IdleOne
<1>6. /\ crashes \in Nat /\ session.batch.id \notin cancelled /\ NoRepeat(session.batch.items)
      /\ NoRepeat(result.items)
  BY EmptyTyped DEF Init, NoRepeat
<1> QED BY <1>1, <1>3, <1>4, <1>5, <1>6 DEF OneInv

\* The invariants of batches with one handler at a time
LEMMA OneKept == ASSUME OneProc, NoneTwice PROVE Spec => [](BatchInv /\ OneInv)
<1>1. Init => BatchInv /\ OneInv
  BY BatchInit, OneInit
<1>2. BatchInv /\ OneInv /\ [Next]_vars => BatchInv' /\ OneInv'
  BY BatchNext, OneNext
<1> QED BY <1>1, <1>2, PTL DEF Spec

\* Only the preparation of a batch adds one.
LEMMA PreparesAlone ==
    ASSUME BatchInv, [Next]_vars, batches' # batches
    PROVE  \E p \in Procs : Prepare(p)
<1>1. ASSUME NEW p \in Procs, Continues(p), ~Prepare(p)
      PROVE  UNCHANGED batches
  BY <1>1 DEF Continues, LoadSession, StoreSession, KeepSession, SaveResult, ClearResult, SendCard,
     TellCancelled, Queue, Submit, Settle, bounds
<1>2. ASSUME NEW p \in Procs, Workbench(p) \/ ConfirmCard(p)
      PROVE  UNCHANGED batches
  BY <1>2 DEF Workbench, ConfirmCard, Select, Fold, ClearSelection, BatchApprove, BatchApproveGroup,
     ClickStale, ClickExpired, ClickCancel, ClickConfirm, bounds
<1>3. ASSUME NEW p \in Procs,
             StartTask(p) \/ (\E list \in Listings : Query(p, list)) \/ SubmitRaises(p) \/ Crash(p)
      PROVE  UNCHANGED batches
  BY <1>3 DEF StartTask, Query, SubmitRaises, Crash, bounds
<1>4. ASSUME (\E id \in 1..MaxBatches : Lapse(id)) \/ ExpireResult \/ ExpireSession \/ UNCHANGED vars
      PROVE  UNCHANGED batches
  BY <1>4 DEF Lapse, ExpireResult, ExpireSession, vars, bounds
<1> QED BY <1>1, <1>2, <1>3, <1>4 DEF Next

\* Only a submission, or one that raises, hands something to the provider.
LEMMA HandsAlone ==
    ASSUME BatchInv, [Next]_vars, handed' # handed
    PROVE  \E p \in Procs : At(p, "submit") /\ Hand(Head(proc[p].todo).batch)
<1>1. ASSUME NEW p \in Procs, Continues(p)
      PROVE  UNCHANGED handed \/ (At(p, "submit") /\ Hand(Head(proc[p].todo).batch))
  BY <1>1 DEF Continues, LoadSession, StoreSession, KeepSession, SaveResult, ClearResult, Prepare, SendCard,
     TellCancelled, Queue, Submit, Settle, history
<1>2. ASSUME NEW p \in Procs, Workbench(p) \/ ConfirmCard(p)
      PROVE  UNCHANGED handed
  BY <1>2 DEF Workbench, ConfirmCard, Select, Fold, ClearSelection, BatchApprove, BatchApproveGroup,
     ClickStale, ClickExpired, ClickCancel, ClickConfirm, history
<1>3. ASSUME NEW p \in Procs,
             StartTask(p) \/ (\E list \in Listings : Query(p, list)) \/ SubmitRaises(p) \/ Crash(p)
      PROVE  UNCHANGED handed \/ (At(p, "submit") /\ Hand(Head(proc[p].todo).batch))
  BY <1>3 DEF StartTask, Query, SubmitRaises, Crash, history
<1>4. ASSUME (\E id \in 1..MaxBatches : Lapse(id)) \/ ExpireResult \/ ExpireSession \/ UNCHANGED vars
      PROVE  UNCHANGED handed
  BY <1>4 DEF Lapse, ExpireResult, ExpireSession, vars, history
<1> QED BY <1>1, <1>2, <1>3, <1>4 DEF Next

\* Unless a handler dies or the provider raises, no approval of a batch is handed to
\* the provider twice, however often its card and older ones are confirmed: a task
\* ends by taking its batch from the session (bot_approvals_batch_approve_task), and a
\* batch prepared later has another id.
THEOREM BatchesRunOnce == ASSUME OneProc, NoneTwice PROVE Spec => []BatchRunOnce
<1>1. OneInv => BatchRunOnce
  BY DEF OneInv, Once, BatchRunOnce
<1> QED BY <1>1, OneKept, PTL

\* Unless a handler dies, a batch that is offered for confirmation has only approvals
\* that the user ticked in the list shown last.  A selection is stored as row numbers
\* (_save_batch_selection); drawing a new list clears them before they can name its
\* rows (_reset_approval_workbench_ui_state_if_new_result), and a receipt or an expired
\* list has no row that names an approval.
THEOREM OffersWereTicked == ASSUME OneProc, NoneTwice PROVE Spec => OfferedWasTicked
<1>1. ASSUME BatchInv, OneInv, [Next]_vars, NEW p \in Procs, Offers(p), crashes = 0
      PROVE  ToSet(Head(proc'[p].todo).batch.items) \cap Approvals \subseteq ticked
  <2> DEFINE items == IF expired THEN <<>> ELSE Resolve(result.items, session.selection)
             b == [id |-> batches + 1, items |-> items]
             T == <<Offer(b), SetResult(Notes(b.items)), Touch, [Step("card") EXCEPT !.batch = b], Touch>>
  <2>1. At(p, "prepare") /\ batches' # batches /\ proc'[p] # proc[p]
    BY <1>1 DEF Offers
  <2>2. Prepare(p)
    BY <1>1, <2>1, PreparesAlone DEF OneProc
  <2>3. Continue(p, T) /\ proc \in [Procs -> Works]
    BY <1>1, <2>1, <2>2, OneFacts DEF Prepare
  <2>4. result.items \in Seq(Rows) /\ session.selection \in SUBSET Indexes /\ batches \in Nat
    BY <1>1, SessionTyped DEF BatchInv, StateOK, Results
  <2>5. /\ items \in Seq(Rows)
        /\ \A k \in DOMAIN items : \E i \in session.selection : i \in DOMAIN result.items /\ items[k] = result.items[i]
    <3>1. <<>> \in Seq(Rows) /\ DOMAIN <<>> = {}
      OBVIOUS
    <3> QED BY <2>4, <3>1, ResolveFacts
  <2> HIDE DEF items
  <2>6. b \in Batches /\ b.items = items
    BY <2>4, <2>5 DEF Batches
  <2> HIDE DEF b
  <2>7. T # <<>> /\ T[1] = Offer(b) /\ Head(T) = T[1] /\ Carries(T[1], "offer", {}, b, NoResult, EmptySession)
    <3>1. T \in Seq(Steps) /\ Len(T) = 5 /\ Carries(T[1], "offer", {}, b, NoResult, EmptySession)
      BY <2>6, PrepareProgram
    <3>2. T # <<>>
      BY <3>1
    <3> QED BY <3>1, <3>2
  <2> HIDE DEF T
  <2>8. proc'[p].todo = T /\ Head(proc'[p].todo).batch.items = items
    BY <2>3, <2>6, <2>7 DEF Continue, Idle, Carries
  <2>9. Covered(session.selection, result.items, ticked)
    BY <1>1, <2>1, PreparedTicks
  <2> QED BY <2>5, <2>8, <2>9 DEF Covered, ToSet
<1>2. BatchInv /\ OneInv /\ [Next]_vars =>
        [\A p \in Procs : Offers(p) /\ crashes = 0 =>
           ToSet(Head(proc'[p].todo).batch.items) \cap Approvals \subseteq ticked]_vars
  BY <1>1
<1> QED BY <1>2, OneKept, PTL DEF Spec, OfferedWasTicked

\* Nothing of a batch whose cancellation was answered is submitted afterwards,
\* wherever a handler dies: the batch leaves the session before the answer is given
\* (_clear_batch_state), its id is not used again, and a task submits only what it
\* finds in the session.
THEOREM CancelledIsFinal == ASSUME OneProc, NoneTwice PROVE Spec => CancelledStays
<1>1. ASSUME BatchInv, OneInv, [Next]_vars, NEW h \in handed' \ handed
      PROVE  h[1] \notin cancelled
  <2>1. PICK p \in Procs : At(p, "submit") /\ Hand(Head(proc[p].todo).batch)
    BY <1>1, HandsAlone
  <2>2. proc[p].todo # <<>> /\ proc[p].todo[1].op = "submit" /\ Head(proc[p].todo) = proc[p].todo[1]
    BY <1>1, <2>1, BatchFacts DEF At, IsIdle
  <2>3. proc[p].todo[1].batch.id = session.batch.id /\ session.batch.id \notin cancelled
    <3>1. Bound(proc[p].todo[1], session, cancelled, handed) /\ session.batch.id \notin cancelled
      BY <1>1, <2>2, OneFirst
    <3> QED BY <2>2, <3>1 DEF Bound
  <2>4. h[1] = proc[p].todo[1].batch.id
    BY <1>1, <2>1, <2>2 DEF Hand
  <2> QED BY <2>3, <2>4
<1>2. BatchInv /\ OneInv /\ [Next]_vars => [\A h \in handed' \ handed : h[1] \notin cancelled]_vars
  BY <1>1
<1> QED BY <1>2, OneKept, PTL DEF Spec, CancelledStays

================================================================================

-------------------------- MODULE ResourceSyncProofs --------------------------
(* For any resources, workers, requests and policy: the order in which          *)
(* resources wait is kept, run rows are truthful, only what is ready is called,  *)
(* and a decision of the owner is lost to a refused call only in the window      *)
(* between its reading of the row and its commit.                                *)
EXTENDS ResourceSync, SequenceTheorems, TLAPS

----------------------------------------------------------------------------
(* Sequences without repetition, from which one element is taken.           *)

Distinct(s) == \A i, k \in 1..Len(s) : s[i] = s[k] => i = k

\* Where the i-th element of a sequence without its n-th was before.
Before(n, i) == IF i < n THEN i ELSE i + 1

\* RemoveFirst leaves the other elements in their order; n is past the end if the
\* element was not there.
LEMMA RemovedFacts ==
  ASSUME NEW S, NEW s \in Seq(S), Distinct(s), NEW r
  PROVE  \E n \in 1..(Len(s) + 1) :
           /\ n <= Len(s) => s[n] = r
           /\ n = Len(s) + 1 => \A i \in 1..Len(s) : s[i] # r
           /\ RemoveFirst(s, r) \in Seq(S)
           /\ Len(RemoveFirst(s, r)) = IF n <= Len(s) THEN Len(s) - 1 ELSE Len(s)
           /\ \A i \in 1..Len(RemoveFirst(s, r)) : RemoveFirst(s, r)[i] = s[Before(n, i)]
<1>1. Len(s) \in Nat
  BY LenProperties
<1>2. CASE \A i \in 1..Len(s) : s[i] # r
  <2>1. RemoveFirst(s, r) = s
    BY <1>2 DEF RemoveFirst
  <2>2. \A i \in 1..Len(s) : Before(Len(s) + 1, i) = i
    BY <1>1 DEF Before
  <2> QED BY <1>1, <1>2, <2>1, <2>2
<1>3. CASE \E n \in 1..Len(s) : s[n] = r
  <2>1. PICK n \in 1..Len(s) : s[n] = r
    BY <1>3
  <2>2. {i \in 1..Len(s) : s[i] = r} = {n}
    BY <2>1 DEF Distinct
  <2>3. RemoveFirst(s, r) = RemoveAt(s, n)
    <3>1. Min({n}) = n
      BY <1>1, <2>1 DEF Min
    <3>2. SelectInSeq(s, LAMBDA v : v = r) = n
      BY <2>2, <3>1 DEF SelectInSeq
    <3> QED BY <1>3, <3>2 DEF RemoveFirst
  <2> DEFINE a == SubSeq(s, 1, n - 1)
             b == SubSeq(s, n + 1, Len(s))
  <2>4. /\ a \in Seq(S) /\ Len(a) = n - 1
        /\ \A i \in 1..(n - 1) : a[i] = s[i]
    BY <1>1, <2>1, SubSeqProperties
  <2>5. /\ b \in Seq(S) /\ Len(b) = Len(s) - n
        /\ \A i \in 1..(Len(s) - n) : b[i] = s[n + i]
    BY <1>1, <2>1, SubSeqProperties
  <2> HIDE DEF a, b
  <2>6. /\ a \o b \in Seq(S) /\ Len(a \o b) = Len(s) - 1
        /\ \A i \in 1..(Len(s) - 1) : (a \o b)[i] = IF i <= n - 1 THEN a[i] ELSE b[i - (n - 1)]
    <3>1. /\ a \o b \in Seq(S) /\ Len(a \o b) = Len(a) + Len(b)
          /\ \A i \in 1..Len(a) + Len(b) : (a \o b)[i] = IF i <= Len(a) THEN a[i] ELSE b[i - Len(a)]
      BY <2>4, <2>5, ConcatProperties
    <3>2. Len(a) + Len(b) = Len(s) - 1
      BY <1>1, <2>1, <2>4, <2>5
    <3> QED BY <2>4, <3>1, <3>2
  <2>7. ASSUME NEW i \in 1..(Len(s) - 1)
        PROVE  (a \o b)[i] = s[Before(n, i)]
    <3>1. CASE i <= n - 1
      BY <1>1, <2>1, <2>4, <2>6, <3>1 DEF Before
    <3>2. CASE ~(i <= n - 1)
      <4>1. i - (n - 1) \in 1..(Len(s) - n) /\ n + (i - (n - 1)) = i + 1
        BY <1>1, <2>1, <3>2
      <4>2. (a \o b)[i] = b[i - (n - 1)]
        BY <2>6, <3>2
      <4>3. b[i - (n - 1)] = s[n + (i - (n - 1))]
        BY <2>5, <4>1
      <4>4. Before(n, i) = i + 1
        BY <1>1, <2>1, <3>2 DEF Before
      <4> QED BY <4>1, <4>2, <4>3, <4>4
    <3> QED BY <3>1, <3>2
  <2>8. RemoveFirst(s, r) = a \o b
    BY <2>3 DEF RemoveAt, a, b
  <2>9. /\ n \in 1..(Len(s) + 1) /\ n <= Len(s) /\ n # Len(s) + 1
        /\ RemoveFirst(s, r) \in Seq(S) /\ Len(RemoveFirst(s, r)) = Len(s) - 1
        /\ \A i \in 1..(Len(s) - 1) : RemoveFirst(s, r)[i] = s[Before(n, i)]
    BY <1>1, <2>1, <2>6, <2>7, <2>8
  <2> QED BY <2>1, <2>9
<1> QED BY <1>2, <1>3

----------------------------------------------------------------------------
(* The inductive invariant.                                                 *)

\* The order of waiting: each synchronised resource once, the stale ones first.
Ordered ==
  /\ lastSync \in Seq(Resources) /\ Distinct(lastSync)
  /\ stale \subseteq Synced
  /\ \A i \in 1..Len(lastSync) : lastSync[i] \in stale => \A k \in 1..i : lastSync[k] \in stale

Running == {"select", "load", "calling", "saving", "finish"}

\* Who has resources left is at one of them; only workers have runs.
JobShape(p, j) ==
  /\ j \in JobType
  /\ j.pc \in {"load", "calling", "saving"} <=> j.todo # <<>>
  /\ p \notin Workers => j.pc \in {"idle", "load", "calling", "saving"}

\* The copy from which actor p records a block has the decision that is in the row,
\* or p is overtaken.
Fresh(p) ==
  job[p].pc = "saving" /\ job[p].outcome = "block" /\ p \notin overtaken =>
    job[p].copy.decision = governance[Head(job[p].todo)].decision

SyncInv ==
  /\ SyncTypeOK
  /\ \A p \in Actors : JobShape(p, job[p]) /\ Fresh(p)
  /\ RunRowTruthful
  /\ \A w \in killed : job[w].pc \notin Running

----------------------------------------------------------------------------
(* The operators.                                                           *)

\* A resource that is synchronised goes to the end of the order, stale no more.
LEMMA SyncedLast ==
  ASSUME Ordered, NEW r \in Resources, SetLastSync(r)
  PROVE  Ordered'
<1> DEFINE t == RemoveFirst(lastSync, r)
<1>1. /\ lastSync \in Seq(Resources) /\ Distinct(lastSync) /\ Len(lastSync) \in Nat
      /\ lastSync' = Append(t, r) /\ stale' = stale \ {r}
  BY LenProperties DEF Ordered, SetLastSync
<1>2. PICK n \in 1..(Len(lastSync) + 1) :
           /\ n <= Len(lastSync) => lastSync[n] = r
           /\ n = Len(lastSync) + 1 => \A i \in 1..Len(lastSync) : lastSync[i] # r
           /\ t \in Seq(Resources)
           /\ Len(t) = IF n <= Len(lastSync) THEN Len(lastSync) - 1 ELSE Len(lastSync)
           /\ \A i \in 1..Len(t) : t[i] = lastSync[Before(n, i)]
  BY <1>1, RemovedFacts
<1> HIDE DEF t
<1>3. ASSUME NEW i \in 1..Len(t)
      PROVE  /\ Before(n, i) \in 1..Len(lastSync) /\ t[i] # r
             /\ \A k \in 1..i : Before(n, k) \in 1..Before(n, i)
             /\ \A k \in 1..Len(t) : Before(n, k) = Before(n, i) => k = i
  <2>1. /\ Before(n, i) \in 1..Len(lastSync) /\ Before(n, i) # n
        /\ \A k \in 1..i : Before(n, k) \in 1..Before(n, i)
        /\ \A k \in 1..Len(t) : Before(n, k) = Before(n, i) => k = i
    BY <1>1, <1>2 DEF Before
  <2>2. t[i] # r
    BY <1>1, <1>2, <2>1 DEF Distinct
  <2> QED BY <2>1, <2>2
<1>4. /\ lastSync' \in Seq(Resources) /\ Len(lastSync') = Len(t) + 1 /\ Len(t) \in Nat
      /\ \A i \in 1..Len(t) : lastSync'[i] = t[i]
      /\ lastSync'[Len(t) + 1] = r
  BY <1>1, <1>2, AppendProperties, LenProperties
<1>5. Distinct(lastSync)'
  <2> SUFFICES ASSUME NEW i \in 1..(Len(t) + 1), NEW k \in 1..(Len(t) + 1),
                      lastSync'[i] = lastSync'[k]
               PROVE  i = k
    BY <1>4 DEF Distinct
  <2>1. CASE i \in 1..Len(t) /\ k \in 1..Len(t)
    <3>1. lastSync[Before(n, i)] = lastSync[Before(n, k)]
      BY <1>2, <1>4, <2>1
    <3>2. Before(n, i) \in 1..Len(lastSync) /\ Before(n, k) \in 1..Len(lastSync)
      BY <1>3, <2>1
    <3>3. Before(n, i) = Before(n, k)
      BY <1>1, <3>1, <3>2 DEF Distinct
    <3> QED BY <1>3, <2>1, <3>3
  <2>2. CASE i = Len(t) + 1 /\ k \in 1..Len(t)
    <3>1. lastSync'[k] = t[k] /\ t[k] # r
      BY <1>3, <1>4, <2>2
    <3> QED BY <1>4, <2>2, <3>1
  <2>3. CASE k = Len(t) + 1 /\ i \in 1..Len(t)
    <3>1. lastSync'[i] = t[i] /\ t[i] # r
      BY <1>3, <1>4, <2>3
    <3> QED BY <1>4, <2>3, <3>1
  <2>4. i \in 1..Len(t) \/ i = Len(t) + 1
    BY <1>4
  <2>5. k \in 1..Len(t) \/ k = Len(t) + 1
    BY <1>4
  <2> QED BY <2>1, <2>2, <2>3, <2>4, <2>5
<1>6. stale' \subseteq Synced'
  <2> SUFFICES ASSUME NEW q \in stale, q # r
               PROVE  \E i \in 1..Len(lastSync') : lastSync'[i] = q
    BY <1>1 DEF Synced
  <2>1. PICK m \in 1..Len(lastSync) : lastSync[m] = q
    BY DEF Ordered, Synced
  <2> DEFINE i == IF m < n THEN m ELSE m - 1
  <2>2. m # n
    BY <1>2, <2>1
  <2>3. i \in 1..Len(t) /\ Before(n, i) = m
    BY <1>1, <1>2, <2>1, <2>2 DEF Before
  <2> HIDE DEF i
  <2>4. i \in 1..Len(lastSync') /\ lastSync'[i] = q
    BY <1>2, <1>4, <2>1, <2>3
  <2> QED BY <2>4
<1>7. ASSUME NEW i \in 1..Len(lastSync'), lastSync'[i] \in stale', NEW k \in 1..i
      PROVE  lastSync'[k] \in stale'
  <2>1. i \in 1..Len(t) /\ k \in 1..Len(t)
    BY <1>1, <1>4, <1>7
  <2>2. lastSync[Before(n, i)] \in stale
    BY <1>1, <1>2, <1>4, <1>7, <2>1
  <2>3. lastSync[Before(n, k)] \in stale
    BY <1>3, <2>1, <2>2 DEF Ordered
  <2> QED BY <1>1, <1>2, <1>3, <1>4, <2>1, <2>3
<1> QED BY <1>4, <1>5, <1>6, <1>7 DEF Ordered

\* Who does not commit stays fresh or becomes overtaken.
LEMMA CommitFacts ==
  ASSUME SyncInv, NEW r \in Resources, NEW g \in Governance, NEW self,
         CommitGovernance(r, g, self)
  PROVE  /\ governance' \in [Resources -> Governance]
         /\ overtaken' \subseteq {p \in Actors \ self : job[p].pc = "saving"}
         /\ \A p \in Actors \ self :
              job[p].pc = "saving" /\ job[p].outcome = "block" /\ p \notin overtaken' =>
                job[p].copy.decision = governance'[Head(job[p].todo)].decision
<1>1. /\ governance \in [Resources -> Governance]
      /\ overtaken \subseteq {p \in Actors : job[p].pc = "saving"}
      /\ \A p \in Actors : Fresh(p)
      /\ governance' = [governance EXCEPT ![r] = g]
      /\ overtaken' = (overtaken \ self) \cup
           {p \in Actors \ self : /\ job[p].pc = "saving" /\ Head(job[p].todo) = r
                                  /\ g.decision # governance[r].decision}
  BY DEF SyncInv, SyncTypeOK, CommitGovernance
<1>2. ASSUME NEW p \in Actors \ self, job[p].pc = "saving", job[p].outcome = "block",
             p \notin overtaken'
      PROVE  job[p].copy.decision = governance'[Head(job[p].todo)].decision
  <2>1. Head(job[p].todo) \in Resources
    <3>1. job[p].todo \in Seq(Resources) /\ job[p].todo # <<>>
      BY <1>2 DEF SyncInv, JobShape, JobType
    <3> QED BY <3>1, HeadTailProperties
  <2>2. job[p].copy.decision = governance[Head(job[p].todo)].decision
    BY <1>1, <1>2 DEF Fresh
  <2> QED BY <1>1, <1>2, <2>1, <2>2
<1> QED BY <1>1, <1>2

\* The loop goes on with a resource or ends.
LEMMA NextFacts ==
  ASSUME NEW p \in Actors, NEW j \in JobType, j.todo # <<>>
  PROVE  LET x == NextResource(p, j) IN
           /\ JobShape(p, x) /\ x.pc \in {"load", "finish", "idle"}
           /\ p \in Workers => x.pc \in {"load", "finish"}
<1> DEFINE x == NextResource(p, j)
<1>1. /\ j.todo \in Seq(Resources) /\ Len(j.todo) \in Nat \ {0} /\ <<>> \in Seq(Resources)
      /\ NoGovernance \in Governance
  BY EmptySeq DEF JobType, NoGovernance, Governance
<1>2. CASE Len(j.todo) > 1
  <2>1. Tail(j.todo) \in Seq(Resources) /\ Len(Tail(j.todo)) = Len(j.todo) - 1
    BY <1>1, HeadTailProperties
  <2>2. Tail(j.todo) # <<>>
    <3> DEFINE rest == Tail(j.todo)
    <3>1. Len(rest) > 0
      BY <1>1, <1>2, <2>1
    <3> HIDE DEF rest
    <3>2. rest # <<>>
      BY <3>1, Len(<<>>) = 0
    <3> QED BY <3>2 DEF rest
  <2>3. x = [j EXCEPT !.pc = "load", !.todo = Tail(@), !.copy = NoGovernance, !.outcome = "none"]
    BY <1>2 DEF NextResource
  <2>4. x \in JobType /\ x.pc = "load" /\ x.todo = Tail(j.todo)
    BY <1>1, <2>1, <2>3 DEF JobType
  <2> QED BY <2>2, <2>4 DEF JobShape
<1>3. CASE ~(Len(j.todo) > 1) /\ p \in Workers
  <2>1. x = [j EXCEPT !.pc = "finish", !.todo = <<>>, !.copy = NoGovernance, !.outcome = "none"]
    BY <1>3 DEF NextResource
  <2>2. x \in JobType /\ x.pc = "finish" /\ x.todo = <<>>
    BY <1>1, <2>1 DEF JobType
  <2> QED BY <1>3, <2>2 DEF JobShape
<1>4. CASE ~(Len(j.todo) > 1) /\ p \notin Workers
  <2>1. x = Idle /\ Idle \in JobType /\ Idle.pc = "idle" /\ Idle.todo = <<>>
    BY <1>1, <1>4 DEF NextResource, Idle, JobType
  <2> QED BY <1>4, <2>1 DEF JobShape
<1> QED BY <1>2, <1>3, <1>4

LEMMA StateFacts ==
  ASSUME SyncInv
  PROVE  /\ Ordered /\ governance \in [Resources -> Governance]
         /\ job \in [Actors -> JobType]
         /\ \A p \in Actors : JobShape(p, job[p])
         /\ \A p \in Actors :
              job[p].pc \in {"load", "calling", "saving"} => Head(job[p].todo) \in Resources
<1>1. Ordered /\ governance \in [Resources -> Governance] /\ job \in [Actors -> JobType]
  BY DEF SyncInv, SyncTypeOK, Ordered, Distinct
<1>2. ASSUME NEW p \in Actors, job[p].pc \in {"load", "calling", "saving"}
      PROVE  Head(job[p].todo) \in Resources
  <2>1. job[p].todo \in Seq(Resources) /\ job[p].todo # <<>>
    BY <1>1, <1>2 DEF SyncInv, JobShape, JobType
  <2> QED BY <2>1, HeadTailProperties
<1> QED BY <1>1, <1>2 DEF SyncInv

LEMMA InterruptionFacts ==
  ASSUME SyncInv, Interrupts
  PROVE  interruptions' \in 0..MaxInterruptions
BY SyncAssumption DEF SyncInv, SyncTypeOK, Interrupts

\* After a step of one actor that leaves the run rows alone.
LEMMA ActorStep ==
  ASSUME SyncInv, NEW p \in Actors, NEW x, JobShape(p, x), job' = [job EXCEPT ![p] = x],
         p \in Workers => (x.pc \in Running <=> job[p].pc \in Running),
         governance' \in [Resources -> Governance], Ordered',
         overtaken' \subseteq {q \in Actors : job'[q].pc = "saving"},
         \A q \in Actors : Fresh(q)',
         interruptions' \in 0..MaxInterruptions,
         UNCHANGED <<enabled, due, runRow, killed, edits>>
  PROVE  SyncInv'
<1>1. /\ \A q \in Actors : job'[q] = IF q = p THEN x ELSE job[q]
      /\ job' \in [Actors -> JobType]
  BY DEF SyncInv, SyncTypeOK, JobShape
<1>2. SyncTypeOK'
  BY <1>1 DEF SyncInv, SyncTypeOK, Ordered, Distinct, Synced
<1>3. \A q \in Actors : JobShape(q, job'[q])
  BY <1>1 DEF SyncInv
<1>4. RunRowTruthful'
  BY <1>1 DEF SyncInv, RunRowTruthful, Running, Actors
<1>5. \A w \in killed' : job'[w].pc \notin Running
  BY <1>1 DEF SyncInv, SyncTypeOK, Actors
<1> QED BY <1>2, <1>3, <1>4, <1>5 DEF SyncInv, JobShape

\* After a step of one actor that is not about to commit and commits nothing.
LEMMA QuietMove ==
  ASSUME SyncInv, NEW p \in Actors, NEW x, JobShape(p, x), job' = [job EXCEPT ![p] = x],
         p \in Workers => (x.pc \in Running <=> job[p].pc \in Running),
         job[p].pc # "saving",
         x.pc = "saving" /\ x.outcome = "block" =>
           x.copy.decision = governance[Head(x.todo)].decision,
         interruptions' \in 0..MaxInterruptions,
         UNCHANGED <<rows, due, runRow, killed, edits, overtaken>>
  PROVE  SyncInv'
<1>1. /\ \A q \in Actors : job'[q] = IF q = p THEN x ELSE job[q]
      /\ UNCHANGED <<enabled, governance, lastSync, stale, overtaken>>
  BY DEF SyncInv, SyncTypeOK, rows
<1>2. overtaken' \subseteq {q \in Actors : job'[q].pc = "saving"}
  BY <1>1 DEF SyncInv, SyncTypeOK
<1>3. \A q \in Actors : Fresh(q)'
  BY <1>1 DEF SyncInv, Fresh
<1>4. governance' \in [Resources -> Governance] /\ Ordered'
  BY <1>1, StateFacts DEF Ordered, Synced, Distinct
<1> QED BY <1>1, <1>2, <1>3, <1>4, ActorStep

\* Such a step of a run or of a request under way.
LEMMA QuietStep ==
  ASSUME SyncInv, NEW p \in Actors, NEW x, JobShape(p, x), job' = [job EXCEPT ![p] = x],
         p \in Workers => (x.pc \in Running <=> job[p].pc \in Running),
         job[p].pc # "saving",
         x.pc = "saving" /\ x.outcome = "block" =>
           x.copy.decision = governance[Head(x.todo)].decision,
         UNCHANGED <<rows, runs, edits, overtaken>>
  PROVE  SyncInv'
<1>1. interruptions' \in 0..MaxInterruptions /\ UNCHANGED <<due, runRow, killed>>
  BY DEF SyncInv, SyncTypeOK, runs
<1> QED BY <1>1, QuietMove

\* What loading a resource leads to.
LEMMA LoadFacts ==
  ASSUME SyncInv, NEW p \in Actors, NEW j \in JobType, j.pc = "load", j.todo # <<>>,
         LoadResource(p, j)
  PROVE  \E x : /\ JobShape(p, x) /\ job' = [job EXCEPT ![p] = x]
                /\ p \in Workers => x.pc \in Running
                /\ x.pc = "saving" => x.outcome = "clear"
<1> DEFINE r == Head(j.todo)
           next == NextResource(p, j)
           index == [j EXCEPT !.pc = "saving", !.copy = governance[r], !.outcome = "clear"]
           call == [j EXCEPT !.pc = "calling", !.copy = governance[r]]
<1>1. r \in Resources /\ governance[r] \in Governance
  <2>1. r \in Resources
    BY HeadTailProperties DEF JobType
  <2> QED BY <2>1, StateFacts
<1>2. /\ JobShape(p, next) /\ next.pc # "saving"
      /\ p \in Workers => next.pc \in {"load", "finish"}
  BY NextFacts
<1>3. JobShape(p, call) /\ call.pc = "calling"
  BY <1>1 DEF JobShape, JobType
<1>4. JobShape(p, index) /\ index.pc = "saving" /\ index.outcome = "clear"
  BY <1>1 DEF JobShape, JobType
<1>5. \/ job' = [job EXCEPT ![p] = next] \/ job' = [job EXCEPT ![p] = call]
      \/ job' = [job EXCEPT ![p] = index]
  BY DEF LoadResource
<1> HIDE DEF r, next, call, index
<1> QED BY <1>2, <1>3, <1>4, <1>5 DEF Running

LEMMA OrderedKept ==
  ASSUME SyncInv, UNCHANGED <<lastSync, stale>>
  PROVE  Ordered'
BY StateFacts DEF Ordered, Synced, Distinct

----------------------------------------------------------------------------
(* The steps of an actor at a resource.                                     *)

LEMMA LoadStep ==
  ASSUME SyncInv, NEW p \in Actors, Load(p)
  PROVE  SyncInv'
<1>1. /\ job[p] \in JobType /\ job[p].pc = "load" /\ job[p].todo # <<>> /\ LoadResource(p, job[p])
      /\ UNCHANGED <<rows, runs, edits, overtaken>>
  BY StateFacts DEF Load, JobShape
<1>2. PICK x : /\ JobShape(p, x) /\ job' = [job EXCEPT ![p] = x]
               /\ p \in Workers => x.pc \in Running
               /\ x.pc = "saving" => x.outcome = "clear"
  BY <1>1, LoadFacts
<1>3. p \in Workers => (x.pc \in Running <=> job[p].pc \in Running)
  BY <1>1, <1>2 DEF Running
<1> QED BY <1>1, <1>2, <1>3, QuietStep

\* The call is over: what is to be committed is made from the copy, which for a
\* refused call has just been read.
LEMMA CallStep ==
  ASSUME SyncInv, NEW p \in Actors, CallSucceeds(p) \/ CallPartial(p) \/ CallDenied(p)
  PROVE  SyncInv'
<1> DEFINE r == Head(job[p].todo)
           saving(o) == [job[p] EXCEPT !.pc = "saving", !.copy = Refreshed(p), !.outcome = o]
           next == NextResource(p, job[p])
<1>1. /\ job[p] \in JobType /\ job[p].pc = "calling" /\ job[p].todo # <<>> /\ r \in Resources
      /\ governance[r] \in Governance /\ job \in [Actors -> JobType]
      /\ p \in Workers => job[p].pc \in Running
  BY StateFacts DEF CallSucceeds, CallPartial, CallDenied, CallEnds, JobShape, Running
<1>2. \/ \E o \in {"clear", "keep"} : CallEnds(p, o)
      \/ CallEnds(p, "block") /\ Profile[r].identity = "app"
      \/ /\ job' = [job EXCEPT ![p] = next]
         /\ UNCHANGED <<rows, runs, edits, overtaken>>
  BY DEF CallSucceeds, CallPartial, CallDenied
<1>3. ASSUME NEW o \in {"clear", "keep", "block"}, CallEnds(p, o),
             o = "block" => Profile[r].identity = "app"
      PROVE  SyncInv'
  <2> DEFINE x == saving(o)
  <2>1. Refreshed(p) \in Governance
    BY <1>1 DEF Refreshed, JobType
  <2>2. /\ job' = [job EXCEPT ![p] = x]
        /\ UNCHANGED <<rows, runs, edits, overtaken>>
    BY <1>1, <1>3 DEF CallEnds
  <2>3. /\ JobShape(p, x) /\ x.pc = "saving" /\ x.outcome = o /\ x.todo = job[p].todo
        /\ x.copy = Refreshed(p)
    BY <1>1, <1>3, <2>1 DEF JobShape, JobType
  <2>4. o = "block" => Refreshed(p) = governance[r]
    BY <1>3 DEF Refreshed
  <2> HIDE DEF x
  <2>5. x.pc \in Running
    BY <2>3 DEF Running
  <2> QED BY <1>1, <2>2, <2>3, <2>4, <2>5, QuietStep
<1>4. CASE job' = [job EXCEPT ![p] = next] /\ UNCHANGED <<rows, runs, edits, overtaken>>
  <2>1. JobShape(p, next) /\ next.pc # "saving" /\ (p \in Workers => next.pc \in {"load", "finish"})
    BY <1>1, NextFacts
  <2> HIDE DEF next
  <2>2. p \in Workers => next.pc \in Running
    BY <2>1 DEF Running
  <2> QED BY <1>1, <1>4, <2>1, <2>2, QuietStep
<1> QED BY <1>2, <1>3, <1>4

LEMMA SaveStep ==
  ASSUME SyncInv, NEW p \in Actors, Save(p)
  PROVE  SyncInv'
<1> DEFINE r == Head(job[p].todo)
           x == NextResource(p, job[p])
<1>1. /\ job[p] \in JobType /\ job[p].pc = "saving" /\ job[p].todo # <<>> /\ r \in Resources
      /\ governance[r] \in Governance /\ job[p].copy \in Governance
      /\ job \in [Actors -> JobType]
      /\ job' = [job EXCEPT ![p] = x] /\ SetLastSync(r)
      /\ UNCHANGED <<enabled, runs, edits>>
  BY StateFacts DEF Save, JobShape, JobType
<1>2. PICK g \in Governance : CommitGovernance(r, g, {p})
  <2>1. NoGovernance \in Governance /\ [job[p].copy EXCEPT !.status = "blocked"] \in Governance
    BY <1>1 DEF NoGovernance, Governance
  <2> QED BY <1>1, <2>1 DEF Save, ClearBlock, MarkBlocked
<1>3. JobShape(p, x) /\ x.pc # "saving" /\ (p \in Workers => x.pc \in {"load", "finish"})
  BY <1>1, NextFacts
<1>4. /\ governance' \in [Resources -> Governance]
      /\ overtaken' \subseteq {q \in Actors \ {p} : job[q].pc = "saving"}
      /\ \A q \in Actors \ {p} :
           job[q].pc = "saving" /\ job[q].outcome = "block" /\ q \notin overtaken' =>
             job[q].copy.decision = governance'[Head(job[q].todo)].decision
  BY <1>1, <1>2, CommitFacts
<1>5. Ordered'
  BY <1>1, StateFacts, SyncedLast
<1> HIDE DEF x
<1>6. \A q \in Actors : job'[q] = IF q = p THEN x ELSE job[q]
  BY <1>1
<1>7. overtaken' \subseteq {q \in Actors : job'[q].pc = "saving"}
  BY <1>4, <1>6
<1>8. \A q \in Actors : Fresh(q)'
  BY <1>3, <1>4, <1>6 DEF Fresh
<1>9. p \in Workers => (x.pc \in Running <=> job[p].pc \in Running)
  BY <1>1, <1>3 DEF Running
<1>10. interruptions' \in 0..MaxInterruptions /\ UNCHANGED <<enabled, due, runRow, killed, edits>>
  BY <1>1 DEF SyncInv, SyncTypeOK, runs
<1> QED BY <1>1, <1>3, <1>4, <1>5, <1>7, <1>8, <1>9, <1>10, ActorStep

LEMMA RaiseStep ==
  ASSUME SyncInv, NEW p \in Actors, CallRaises(p)
  PROVE  SyncInv'
<1> DEFINE j == [job[p] EXCEPT !.errors = TRUE]
           x == AfterError(p, job[p])
<1>1. /\ job[p] \in JobType /\ job[p].pc = "calling" /\ job[p].todo # <<>>
      /\ job' = [job EXCEPT ![p] = x]
      /\ UNCHANGED <<rows, runs, edits, overtaken>>
  BY StateFacts DEF CallRaises, JobShape
<1>2. JobShape(p, x) /\ x.pc # "saving" /\ (p \in Workers => x.pc \in {"load", "finish"})
  <2>1. CASE p \in Workers
    <3>1. j \in JobType /\ j.todo # <<>>
      BY <1>1 DEF JobType
    <3>2. x = NextResource(p, j)
      BY <2>1 DEF AfterError
    <3> QED BY <2>1, <3>1, <3>2, NextFacts
  <2>2. CASE p \notin Workers
    <3>1. x = Idle
      BY <2>2 DEF AfterError
    <3>2. Idle \in JobType /\ Idle.pc = "idle" /\ Idle.todo = <<>>
      BY EmptySeq DEF Idle, JobType, NoGovernance, Governance
    <3> QED BY <2>2, <3>1, <3>2 DEF JobShape
  <2> QED BY <2>1, <2>2
<1> HIDE DEF x
<1>3. p \in Workers => (x.pc \in Running <=> job[p].pc \in Running)
  BY <1>1, <1>2 DEF Running
<1> QED BY <1>1, <1>2, <1>3, QuietStep

----------------------------------------------------------------------------
(* The steps of a run, of a request, of the owner and of time.              *)

LEMMA DueStep ==
  ASSUME SyncInv, NEW w \in Workers, CheckDue(w)
  PROVE  SyncInv'
<1> DEFINE x == [job[w] EXCEPT !.pc = "start"]
<1>1. /\ w \in Actors /\ job[w] \in JobType /\ job[w].pc = "idle" /\ job[w].todo = <<>>
      /\ job' = [job EXCEPT ![w] = x]
      /\ UNCHANGED <<rows, runs, edits, overtaken>>
  BY StateFacts DEF CheckDue, JobShape, runs, Actors
<1>2. JobShape(w, x) /\ x.pc = "start"
  BY <1>1 DEF JobShape, JobType
<1>3. x.pc \in Running <=> job[w].pc \in Running
  BY <1>1, <1>2 DEF Running
<1> HIDE DEF x
<1> QED BY <1>1, <1>2, <1>3, QuietStep

\* Each selection is a sequence of resources.
LEMMA SelectionFacts ==
  ASSUME NEW types, NEW statuses, NEW chosen \in Selections(types, statuses)
  PROVE  chosen \in Seq(Resources)
<1>1. PICK n \in Nat : chosen \in [1..n -> Resources]
  BY SyncAssumption DEF Selections
<1> QED BY <1>1

LEMMA SelectStep ==
  ASSUME SyncInv, NEW w \in Workers, SelectResources(w)
  PROVE  SyncInv'
<1>1. /\ w \in Actors /\ job[w] \in JobType /\ job[w].pc = "select" /\ job[w].todo = <<>>
      /\ UNCHANGED <<rows, runs, edits, overtaken>>
  BY StateFacts DEF SelectResources, JobShape, Actors
<1>2. PICK chosen \in Selections(AllowedTypes, AllowedStatuses) :
        IF chosen = <<>>
        THEN job' = [job EXCEPT ![w].pc = "finish"]
        ELSE LoadResource(w, [job[w] EXCEPT !.pc = "load", !.todo = chosen])
  BY DEF SelectResources
<1>3. CASE chosen = <<>>
  <2> DEFINE x == [job[w] EXCEPT !.pc = "finish"]
  <2>1. job' = [job EXCEPT ![w] = x]
    BY <1>2, <1>3
  <2>2. JobShape(w, x) /\ x.pc = "finish"
    BY <1>1 DEF JobShape, JobType
  <2>3. x.pc \in Running <=> job[w].pc \in Running
    BY <1>1, <2>2 DEF Running
  <2> HIDE DEF x
  <2> QED BY <1>1, <2>1, <2>2, <2>3, QuietStep
<1>4. CASE chosen # <<>>
  <2> DEFINE j == [job[w] EXCEPT !.pc = "load", !.todo = chosen]
  <2>1. j \in JobType /\ j.pc = "load" /\ j.todo # <<>> /\ LoadResource(w, j)
    BY <1>1, <1>2, <1>4, SelectionFacts DEF JobType
  <2> HIDE DEF j
  <2>2. PICK x : /\ JobShape(w, x) /\ job' = [job EXCEPT ![w] = x]
                 /\ w \in Workers => x.pc \in Running
                 /\ x.pc = "saving" => x.outcome = "clear"
    BY <1>1, <2>1, LoadFacts
  <2>3. x.pc \in Running <=> job[w].pc \in Running
    BY <1>1, <2>2 DEF Running
  <2> QED BY <1>1, <2>2, <2>3, QuietStep
<1> QED BY <1>3, <1>4

\* A row is opened when its worker enters the run and closed when it leaves it; only
\* a worker that is killed inside leaves it open.
LEMMA RowStep ==
  ASSUME SyncInv, NEW w \in Workers, StartRun(w) \/ FinishRun(w) \/ Crash(w)
  PROVE  SyncInv'
<1>1. /\ w \in Actors /\ job[w] \in JobType /\ JobShape(w, job[w]) /\ job \in [Actors -> JobType]
      /\ runRow \in [Workers -> {"none", "running", "success", "partial"}]
      /\ killed \subseteq Workers /\ interruptions \in 0..MaxInterruptions
      /\ enabled \subseteq Resources /\ due \in BOOLEAN
      /\ UNCHANGED <<enabled, governance, lastSync, stale, edits>>
      /\ edits \subseteq Edit /\ overtaken \subseteq {q \in Actors : job[q].pc = "saving"}
      /\ overtaken' \subseteq overtaken /\ overtaken \ {w} \subseteq overtaken'
  BY StateFacts DEF SyncInv, SyncTypeOK, Actors, StartRun, FinishRun, Crash, rows
<1>2. governance' \in [Resources -> Governance] /\ Ordered'
  BY <1>1, StateFacts, OrderedKept
<1>3. Idle \in JobType /\ Idle.pc = "idle" /\ Idle.todo = <<>> /\ JobShape(w, Idle)
  BY EmptySeq DEF Idle, JobType, NoGovernance, Governance, JobShape
<1>4. /\ \A v \in Workers : runRow[v] = "running" <=> job[v].pc \in Running \/ v \in killed
      /\ \A v \in killed : job[v].pc \notin Running
      /\ \A v \in Workers : v \in Actors
  BY DEF SyncInv, RunRowTruthful, Running, Actors
<1>5. \E x : /\ JobShape(w, x) /\ job' = [job EXCEPT ![w] = x] /\ x.pc # "saving"
             /\ w \notin overtaken'
             /\ runRow'[w] = "running" <=> x.pc \in Running \/ w \in killed'
             /\ w \in killed' => x.pc \notin Running
             /\ \A v \in Workers : v # w => runRow'[v] = runRow[v] /\ (v \in killed' <=> v \in killed)
             /\ runRow' \in [Workers -> {"none", "running", "success", "partial"}]
             /\ killed' \subseteq Workers /\ interruptions' \in 0..MaxInterruptions
             /\ due' \in BOOLEAN
  <2>1. CASE StartRun(w)
    <3> DEFINE x == [job[w] EXCEPT !.pc = "select"]
    <3>1. x \in JobType /\ x.pc = "select" /\ x.todo = <<>> /\ JobShape(w, x) /\ w \notin overtaken'
      BY <1>1, <2>1 DEF StartRun, JobType, JobShape
    <3>2. job' = [job EXCEPT ![w] = x] /\ runRow' = [runRow EXCEPT ![w] = "running"]
          /\ due' = FALSE /\ killed' = killed \ {w} /\ interruptions' = interruptions
      BY <2>1 DEF StartRun
    <3> HIDE DEF x
    <3> QED BY <1>1, <3>1, <3>2 DEF Running
  <2>2. CASE FinishRun(w)
    <3>1. /\ job' = [job EXCEPT ![w] = Idle]
          /\ runRow' = [runRow EXCEPT ![w] = IF job[w].errors THEN "partial" ELSE "success"]
          /\ UNCHANGED <<due, killed, interruptions>> /\ job[w].pc = "finish" /\ w \notin overtaken'
      BY <1>1, <2>2 DEF FinishRun
    <3>2. w \notin killed
      BY <1>4, <3>1 DEF Running
    <3> QED BY <1>1, <1>3, <3>1, <3>2 DEF Running
  <2>3. CASE Crash(w)
    <3>1. /\ job' = [job EXCEPT ![w] = Idle] /\ killed' = killed \cup {w}
          /\ Interrupts /\ UNCHANGED <<due, runRow>> /\ job[w].pc \notin {"idle", "start"} /\ w \notin overtaken'
      BY <2>3 DEF Crash
    <3>2. job[w].pc \in Running
      BY <1>1, <3>1 DEF JobType, Running
    <3>3. runRow[w] = "running" /\ interruptions' \in 0..MaxInterruptions
      BY <1>1, <1>4, <3>1, <3>2, InterruptionFacts
    <3> QED BY <1>1, <1>3, <3>1, <3>3 DEF Running
  <2> QED BY <2>1, <2>2, <2>3
<1>6. PICK x : /\ JobShape(w, x) /\ job' = [job EXCEPT ![w] = x] /\ x.pc # "saving"
               /\ w \notin overtaken'
               /\ runRow'[w] = "running" <=> x.pc \in Running \/ w \in killed'
               /\ w \in killed' => x.pc \notin Running
               /\ \A v \in Workers : v # w => runRow'[v] = runRow[v] /\ (v \in killed' <=> v \in killed)
               /\ runRow' \in [Workers -> {"none", "running", "success", "partial"}]
               /\ killed' \subseteq Workers /\ interruptions' \in 0..MaxInterruptions
               /\ due' \in BOOLEAN
  BY <1>5
<1>7. /\ \A q \in Actors : job'[q] = IF q = w THEN x ELSE job[q]
      /\ job' \in [Actors -> JobType]
  BY <1>1, <1>6 DEF JobShape
<1>8. SyncTypeOK' /\ \A q \in Actors : Fresh(q)'
  <2>1. overtaken' \subseteq {q \in Actors : job'[q].pc = "saving"}
    BY <1>1, <1>6, <1>7
  <2>2. \A q \in Actors : Fresh(q)'
    BY <1>1, <1>6, <1>7 DEF SyncInv, Fresh
  <2> QED BY <1>1, <1>2, <1>6, <1>7, <2>1, <2>2 DEF SyncTypeOK, Ordered, Distinct, Synced
<1>9. \A q \in Actors : JobShape(q, job'[q])
  BY <1>6, <1>7, StateFacts
<1>10. RunRowTruthful'
  BY <1>4, <1>6, <1>7 DEF RunRowTruthful, Running
<1>11. \A v \in killed' : job'[v].pc \notin Running
  BY <1>4, <1>6, <1>7
<1> QED BY <1>8, <1>9, <1>10, <1>11 DEF SyncInv, JobShape

LEMMA RequestStep ==
  ASSUME SyncInv, NEW q \in Requests, NEW r \in Resources, NEW retry \in BOOLEAN,
         RequestSync(q, r, retry)
  PROVE  SyncInv'
<1> DEFINE x == [Idle EXCEPT !.pc = "load", !.todo = <<r>>, !.retry = retry]
<1>1. /\ q \in Actors /\ q \notin Workers /\ job' = [job EXCEPT ![q] = x]
      /\ job[q].pc # "saving" /\ interruptions' \in 0..MaxInterruptions
      /\ UNCHANGED <<rows, due, runRow, killed, edits, overtaken>>
  BY InterruptionFacts, SyncAssumption DEF RequestSync, Actors
<1>2. <<r>> \in Seq(Resources) /\ <<r>> # <<>>
  OBVIOUS
<1>3. JobShape(q, x) /\ x.pc = "load"
  BY <1>2 DEF JobShape, JobType, Idle, NoGovernance, Governance
<1> HIDE DEF x
<1> QED BY <1>1, <1>3, QuietMove

LEMMA BatchStep ==
  ASSUME SyncInv, NEW q \in Requests, NEW statuses, RequestBatch(q, statuses)
  PROVE  SyncInv'
<1>1. /\ q \in Actors /\ q \notin Workers
      /\ job[q].pc # "saving" /\ interruptions' \in 0..MaxInterruptions
      /\ UNCHANGED <<rows, due, runRow, killed, edits, overtaken>>
  BY InterruptionFacts, SyncAssumption DEF RequestBatch, Actors
<1>2. PICK chosen \in Selections({}, statuses) \ {<<>>} :
        LoadResource(q, [Idle EXCEPT !.pc = "load", !.todo = chosen])
  BY DEF RequestBatch
<1> DEFINE j == [Idle EXCEPT !.pc = "load", !.todo = chosen]
<1>3. j \in JobType /\ j.pc = "load" /\ j.todo # <<>> /\ LoadResource(q, j)
  BY <1>2, SelectionFacts DEF JobType, Idle, NoGovernance, Governance
<1> HIDE DEF j
<1>4. PICK x : /\ JobShape(q, x) /\ job' = [job EXCEPT ![q] = x]
               /\ x.pc = "saving" => x.outcome = "clear"
  BY <1>1, <1>3, LoadFacts
<1> QED BY <1>1, <1>4, QuietMove

\* A step outside the runs: no actor moves.
LEMMA OutsideStep ==
  ASSUME SyncInv, Ordered', governance' \in [Resources -> Governance],
         enabled' \subseteq Resources, due' \in BOOLEAN, interruptions' \in 0..MaxInterruptions,
         edits' \subseteq Edit, overtaken' \subseteq {p \in Actors : job[p].pc = "saving"},
         \A p \in Actors : Fresh(p)',
         UNCHANGED <<runRow, job, killed>>
  PROVE  SyncInv'
<1>1. SyncTypeOK'
  BY DEF SyncInv, SyncTypeOK, Ordered, Distinct, Synced
<1>2. RunRowTruthful'
  BY DEF SyncInv, RunRowTruthful
<1> QED BY <1>1, <1>2 DEF SyncInv, JobShape

\* A step outside the runs that commits no governance.
LEMMA OutsideQuiet ==
  ASSUME SyncInv, Ordered', enabled' \subseteq Resources, due' \in BOOLEAN,
         interruptions' \in 0..MaxInterruptions, edits' \subseteq Edit,
         UNCHANGED <<governance, runRow, job, killed, overtaken>>
  PROVE  SyncInv'
<1>1. \A p \in Actors : Fresh(p)'
  BY DEF SyncInv, Fresh
<1> QED BY <1>1, OutsideStep DEF SyncInv, SyncTypeOK

LEMMA OpenStep ==
  ASSUME SyncInv, NEW r \in Resources, NEW op \in {"clear", "set", "reset", "rediscover"},
         NEW on \in BOOLEAN, OpenEdit(r, op, on)
  PROVE  SyncInv'
<1>1. /\ Interrupts
      /\ edits' = edits \cup {[op |-> op, r |-> r, copy |-> governance[r], was |-> r \in enabled, on |-> on]}
      /\ UNCHANGED <<enabled, governance, lastSync, stale, due, runRow, job, killed, overtaken>>
  BY DEF OpenEdit, rows
<1>2. /\ governance[r] \in Governance /\ edits \subseteq Edit
      /\ enabled \subseteq Resources /\ due \in BOOLEAN
  BY DEF SyncInv, SyncTypeOK
<1>3. edits' \subseteq Edit
  <2>1. (r \in enabled) \in BOOLEAN
    OBVIOUS
  <2>2. [op |-> op, r |-> r, copy |-> governance[r], was |-> r \in enabled, on |-> on] \in Edit
    BY <1>2, <2>1, Zenon DEF Edit
  <2> QED BY <1>1, <1>2, <2>2
<1>4. interruptions' \in 0..MaxInterruptions
  BY <1>1, InterruptionFacts
<1> QED BY <1>1, <1>2, <1>3, <1>4, OrderedKept, OutsideQuiet

\* What an edit commits is a governance, over the row or as it is.
LEMMA EditCommits ==
  ASSUME SyncInv, NEW e \in edits, EditStep(e)
  PROVE  /\ e.r \in Resources /\ e.copy \in Governance /\ governance[e.r] \in Governance
         /\ \/ \E g \in Governance : CommitGovernance(e.r, g, {})
            \/ UNCHANGED <<governance, overtaken>>
         /\ e.op \notin {"set", "reset"} =>
              UNCHANGED governance \/ CommitGovernance(e.r, NoGovernance, {})
                \/ CommitGovernance(e.r, governance[e.r], {})
<1>1. e \in Edit
  BY DEF SyncInv, SyncTypeOK
<1>2. e.r \in Resources /\ e.copy \in Governance
  BY <1>1 DEF Edit
<1>3. governance[e.r] \in Governance /\ NoGovernance \in Governance
  BY <1>2, StateFacts DEF NoGovernance, Governance
<1>4. [e.copy EXCEPT !.decision = (e.op = "set")] \in Governance
  BY <1>2 DEF Governance
<1>5. CASE OwnerClears(e)
  BY <1>2, <1>3, <1>5 DEF OwnerClears, ClearBlock
<1>6. CASE OwnerDecides(e)
  BY <1>2, <1>3, <1>4, <1>6 DEF OwnerDecides
<1>7. CASE Rediscover(e)
  BY <1>2, <1>3, <1>7 DEF Rediscover
<1> QED BY <1>5, <1>6, <1>7 DEF EditStep

LEMMA EditedStep ==
  ASSUME SyncInv, NEW e \in edits, EditStep(e)
  PROVE  SyncInv'
<1>1. /\ e.r \in Resources
      /\ \/ \E g \in Governance : CommitGovernance(e.r, g, {})
         \/ UNCHANGED <<governance, overtaken>>
  BY EditCommits
<1>2. /\ edits' \subseteq Edit /\ enabled' \subseteq Resources
      /\ due' \in BOOLEAN /\ interruptions' \in 0..MaxInterruptions
      /\ UNCHANGED <<lastSync, stale, runRow, job, killed>>
  BY <1>1 DEF EditStep, OwnerClears, OwnerDecides, Rediscover, SyncInv, SyncTypeOK, runs
<1>3. CASE UNCHANGED <<governance, overtaken>>
  BY <1>2, <1>3, OrderedKept, OutsideQuiet
<1>4. CASE \E g \in Governance : CommitGovernance(e.r, g, {})
  <2>1. /\ governance' \in [Resources -> Governance]
        /\ overtaken' \subseteq {p \in Actors : job[p].pc = "saving"}
        /\ \A p \in Actors :
             job[p].pc = "saving" /\ job[p].outcome = "block" /\ p \notin overtaken' =>
               job[p].copy.decision = governance'[Head(job[p].todo)].decision
    BY <1>1, <1>4, CommitFacts
  <2>2. \A p \in Actors : Fresh(p)'
    BY <1>2, <2>1 DEF Fresh
  <2> QED BY <1>2, <2>1, <2>2, OrderedKept, OutsideStep
<1> QED BY <1>1, <1>3, <1>4

LEMMA AgeStep ==
  ASSUME SyncInv, NEW i \in 1..Len(lastSync), Ages(i)
  PROVE  SyncInv'
<1>1. /\ \A k \in 1..(i - 1) : lastSync[k] \in stale
      /\ stale' = stale \cup {lastSync[i]}
      /\ UNCHANGED <<enabled, governance, lastSync, due, runRow, job, edits, killed, overtaken, interruptions>>
  BY DEF Ages, runs
<1>2. Ordered /\ governance \in [Resources -> Governance] /\ Len(lastSync) \in Nat
  BY StateFacts, LenProperties DEF Ordered
<1>3. Ordered'
  <2>1. Distinct(lastSync') /\ lastSync' \in Seq(Resources) /\ stale' \subseteq Synced'
    BY <1>1, <1>2 DEF Ordered, Synced
  <2>2. ASSUME NEW m \in 1..Len(lastSync), lastSync[m] \in stale', NEW k \in 1..m
        PROVE  lastSync[k] \in stale'
    <3>1. CASE lastSync[m] \in stale
      BY <1>1, <1>2, <3>1 DEF Ordered
    <3>2. CASE lastSync[m] = lastSync[i]
      <4>1. m = i
        BY <1>2, <3>2 DEF Ordered, Distinct
      <4>2. k = i \/ k \in 1..(i - 1)
        BY <1>2, <4>1
      <4> QED BY <1>1, <4>2
    <3> QED BY <1>1, <2>2, <3>1, <3>2
  <2> QED BY <1>1, <2>1, <2>2 DEF Ordered, Distinct
<1>4. enabled' \subseteq Resources /\ due' \in BOOLEAN /\ interruptions' \in 0..MaxInterruptions /\ edits' \subseteq Edit
  BY <1>1 DEF SyncInv, SyncTypeOK
<1> QED BY <1>1, <1>2, <1>3, <1>4, OutsideQuiet

LEMMA ElapseStep ==
  ASSUME SyncInv, IntervalElapses \/ UNCHANGED vars
  PROVE  SyncInv'
<1>1. /\ enabled \subseteq Resources /\ due' \in BOOLEAN /\ interruptions \in 0..MaxInterruptions
      /\ edits \subseteq Edit
      /\ UNCHANGED <<enabled, governance, lastSync, stale, runRow, job, edits, killed, overtaken, interruptions>>
  BY DEF SyncInv, SyncTypeOK, IntervalElapses, vars, rows
<1> QED BY <1>1, StateFacts, OrderedKept, OutsideQuiet

----------------------------------------------------------------------------
(* The invariant, and what follows from it.                                 *)

LEMMA SyncBegins ==
  ASSUME Init
  PROVE  SyncInv
<1>1. /\ Idle \in JobType /\ Idle.pc = "idle" /\ Idle.todo = <<>>
      /\ NoGovernance \in Governance
  BY EmptySeq DEF Idle, JobType, NoGovernance, Governance
<1>2. lastSync = <<>> /\ lastSync \in Seq(Resources) /\ Len(lastSync) = 0 /\ stale = {}
  BY EmptySeq DEF Init
<1>3. SyncTypeOK
  BY <1>1, <1>2, SyncAssumption DEF Init, SyncTypeOK
<1>4. \A p \in Actors : JobShape(p, job[p]) /\ Fresh(p)
  BY <1>1 DEF Init, JobShape, Fresh
<1>5. RunRowTruthful /\ \A w \in killed : job[w].pc \notin Running
  BY <1>1 DEF Init, RunRowTruthful, Actors
<1> QED BY <1>3, <1>4, <1>5 DEF SyncInv

LEMMA SyncKept ==
  ASSUME SyncInv, [Next]_vars
  PROVE  SyncInv'
<1>1. ASSUME NEW p \in Actors, SyncStep(p)
      PROVE  SyncInv'
  BY <1>1, LoadStep, CallStep, RaiseStep, SaveStep DEF SyncStep
<1>2. ASSUME NEW w \in Workers, RunStep(w) \/ Crash(w)
      PROVE  SyncInv'
  BY <1>2, DueStep, SelectStep, RowStep DEF RunStep
<1>3. ASSUME NEW q \in Requests, NEW r \in Governed, NEW retry \in BOOLEAN,
             RequestSync(q, r, retry)
      PROVE  SyncInv'
  BY <1>3, RequestStep, SyncAssumption
<1>4. ASSUME NEW r \in Governed, NEW op \in {"clear", "set", "reset", "rediscover"},
             NEW on \in BOOLEAN, OpenEdit(r, op, on)
      PROVE  SyncInv'
  BY <1>4, OpenStep, SyncAssumption
<1> QED BY <1>1, <1>2, <1>3, <1>4, EditedStep, BatchStep, AgeStep, ElapseStep DEF Next

LEMMA SyncInvariant == Spec => []SyncInv
BY SyncBegins, SyncKept, PTL DEF Spec

\* The order in which resources wait lists each of them once, the stale ones first,
\* whatever is synchronised, refused or retried in any order.
THEOREM SyncTypes == Spec => []SyncTypeOK
<1>1. SyncInv => SyncTypeOK
  BY DEF SyncInv
<1> QED BY <1>1, SyncInvariant, PTL

\* A SyncRun row says "running" exactly while its worker is in the run or was
\* killed in it.
THEOREM RunRowsAreTruthful == Spec => []RunRowTruthful
<1>1. SyncInv => RunRowTruthful
  BY DEF SyncInv
<1> QED BY <1>1, SyncInvariant, PTL

\* What reaches the Feishu call was enabled, and not blocked unless it is a retry.
LEMMA LoadedIsReady ==
  ASSUME SyncInv, NEW p \in Actors, NEW j \in JobType, j.todo # <<>>,
         LoadResource(p, j), job'[p].pc = "calling"
  PROVE  /\ Head(job'[p].todo) \in enabled
         /\ governance[Head(job'[p].todo)].status = "blocked" => job'[p].retry
<1> DEFINE r == Head(j.todo)
           call == [j EXCEPT !.pc = "calling", !.copy = governance[r]]
<1>1. job \in [Actors -> JobType] /\ NextResource(p, j).pc # "calling"
  BY StateFacts, NextFacts
<1>2. Verdict(r, j.retry) = "call" /\ job' = [job EXCEPT ![p] = call]
  <2> DEFINE index == [j EXCEPT !.pc = "saving", !.copy = governance[r], !.outcome = "clear"]
  <2>1. index.pc = "saving"
    BY DEF JobType
  <2>2. \/ job' = [job EXCEPT ![p] = NextResource(p, j)]
        \/ job' = [job EXCEPT ![p] = index]
        \/ Verdict(r, j.retry) = "call" /\ job' = [job EXCEPT ![p] = call]
    BY DEF LoadResource
  <2> HIDE DEF index, call
  <2> QED BY <1>1, <2>1, <2>2
<1>3. job'[p].todo = j.todo /\ job'[p].retry = j.retry
  BY <1>1, <1>2 DEF JobType
<1>4. DecisionState(r, r \in enabled, IF j.retry THEN "none" ELSE governance[r].status, {}) = "ready"
  BY <1>2 DEF Verdict
<1>5. r \in enabled /\ (IF j.retry THEN "none" ELSE governance[r].status) # "blocked"
  BY <1>4 DEF DecisionState
<1> QED BY <1>3, <1>5

\* Whoever of the workers and requests calls Feishu, and whatever the owner did
\* since the selection: the resource is enabled, and not blocked unless it is a retry.
THEOREM OnlyReadyIsCalled == Spec => CalledOnlyWhenReady
<1> DEFINE Ready(p) ==
      (job[p].pc # "calling" /\ job'[p].pc = "calling") =>
         LET r == Head(job'[p].todo)
         IN /\ r \in enabled
            /\ governance[r].status = "blocked" => job'[p].retry
<1>1. ASSUME SyncInv, Next, NEW p \in Actors
      PROVE  Ready(p)
  <2> SUFFICES ASSUME job[p].pc # "calling", job'[p].pc = "calling"
               PROVE  /\ Head(job'[p].todo) \in enabled
                      /\ governance[Head(job'[p].todo)].status = "blocked" => job'[p].retry
    OBVIOUS
  <2>1. job \in [Actors -> JobType] /\ \A q \in Actors : JobShape(q, job[q])
    BY <1>1, StateFacts
  <2>2. ASSUME NEW q \in Actors, Load(q)
        PROVE  /\ Head(job'[p].todo) \in enabled
               /\ governance[Head(job'[p].todo)].status = "blocked" => job'[p].retry
    <3>1. LoadResource(q, job[q]) /\ job[q] \in JobType /\ job[q].todo # <<>> /\ job[q].pc = "load"
      BY <2>1, <2>2 DEF Load, JobShape
    <3>2. p = q
      BY <2>1, <3>1 DEF LoadResource
    <3> QED BY <1>1, <3>1, <3>2, LoadedIsReady
  <2>3. ASSUME NEW q \in Actors, CallSucceeds(q) \/ CallPartial(q) \/ CallDenied(q) \/ CallRaises(q)
        PROVE  FALSE
    <3>1. job[q].pc = "calling" /\ job' = [job EXCEPT ![q] = job'[q]]
      BY <2>1, <2>3 DEF CallSucceeds, CallPartial, CallDenied, CallRaises, CallEnds
    <3> QED BY <2>1, <3>1
  <2>3a. ASSUME NEW q \in Actors, Save(q)
         PROVE  FALSE
    <3>1. job[q] \in JobType /\ job[q].todo # <<>> /\ job' = [job EXCEPT ![q] = NextResource(q, job[q])]
      BY <2>1, <2>3a DEF Save, JobShape
    <3>2. NextResource(q, job[q]).pc # "calling"
      BY <3>1, NextFacts
    <3> QED BY <2>1, <3>1, <3>2
  <2>4. ASSUME NEW w \in Workers, SelectResources(w)
        PROVE  /\ Head(job'[p].todo) \in enabled
               /\ governance[Head(job'[p].todo)].status = "blocked" => job'[p].retry
    <3>1. w \in Actors
      BY DEF Actors
    <3>2. PICK chosen \in Selections(AllowedTypes, AllowedStatuses) :
            IF chosen = <<>>
            THEN job' = [job EXCEPT ![w].pc = "finish"]
            ELSE LoadResource(w, [job[w] EXCEPT !.pc = "load", !.todo = chosen])
      BY <2>4 DEF SelectResources
    <3> DEFINE j == [job[w] EXCEPT !.pc = "load", !.todo = chosen]
    <3>3. chosen # <<>>
      BY <2>1, <3>1, <3>2 DEF JobType
    <3>4. j \in JobType /\ j.todo # <<>> /\ LoadResource(w, j)
      BY <2>1, <3>1, <3>2, <3>3, SelectionFacts DEF JobType
    <3> HIDE DEF j
    <3>5. p = w
      BY <2>1, <3>4 DEF LoadResource
    <3> QED BY <1>1, <3>1, <3>4, <3>5, LoadedIsReady
  <2>5. ASSUME NEW w \in Workers, CheckDue(w) \/ StartRun(w) \/ FinishRun(w) \/ Crash(w)
        PROVE  FALSE
    <3>1. w \in Actors /\ Idle.pc = "idle"
      BY DEF Actors, Idle
    <3> QED BY <2>1, <2>5, <3>1 DEF CheckDue, StartRun, FinishRun, Crash, JobType
  <2>6. ASSUME NEW q \in Requests, NEW r, NEW retry, RequestSync(q, r, retry)
        PROVE  FALSE
    BY <2>1, <2>6 DEF RequestSync, Idle, Actors
  <2>7. ASSUME NEW q \in Requests, NEW statuses, RequestBatch(q, statuses)
        PROVE  /\ Head(job'[p].todo) \in enabled
               /\ governance[Head(job'[p].todo)].status = "blocked" => job'[p].retry
    <3>1. q \in Actors
      BY DEF Actors
    <3>2. PICK chosen \in Selections({}, statuses) \ {<<>>} :
            LoadResource(q, [Idle EXCEPT !.pc = "load", !.todo = chosen])
      BY <2>7 DEF RequestBatch
    <3> DEFINE j == [Idle EXCEPT !.pc = "load", !.todo = chosen]
    <3>3. j \in JobType /\ j.todo # <<>> /\ LoadResource(q, j)
      BY <3>2, SelectionFacts DEF JobType, Idle, NoGovernance, Governance
    <3> HIDE DEF j
    <3>4. p = q
      BY <2>1, <3>3 DEF LoadResource
    <3> QED BY <1>1, <3>1, <3>3, <3>4, LoadedIsReady
  <2>8. ASSUME NEW r, NEW op, NEW on, OpenEdit(r, op, on)
        PROVE  FALSE
    BY <2>8 DEF OpenEdit
  <2>8a. ASSUME NEW e, EditStep(e)
         PROVE  FALSE
    BY <2>8a DEF EditStep
  <2>9. ASSUME NEW i, Ages(i)
        PROVE  FALSE
    BY <2>9 DEF Ages
  <2>10. ~IntervalElapses
    BY DEF IntervalElapses
  <2> QED BY <1>1, <2>2, <2>3, <2>3a, <2>4, <2>5, <2>6, <2>7, <2>8, <2>8a, <2>9, <2>10 DEF Next, SyncStep, RunStep
<1>2. SyncInv /\ [Next]_vars => [\A p \in Actors : Ready(p)]_vars
  BY <1>1
<1> QED BY <1>2, SyncInvariant, PTL DEF Spec, CalledOnlyWhenReady

\* Whatever is read, called, refused and decided in between: a step changes a
\* decision only as the owner's own request, with all governance, or as the commit
\* of an actor that another commit overtook after it had read the row again.
THEOREM DecisionsKept == Spec => DecisionLostOnlyIfOvertaken
<1> DEFINE Kept(r) ==
      governance'[r].decision # governance[r].decision =>
        \/ governance'[r] = NoGovernance
        \/ \E e \in edits \ edits' : e.r = r /\ e.op \in {"set", "reset"}
        \/ \E p \in overtaken : job'[p] # job[p] /\ Head(job[p].todo) = r
<1>1. ASSUME SyncInv, Next, NEW r \in Resources
      PROVE  Kept(r)
  <2> SUFFICES ASSUME governance'[r].decision # governance[r].decision
               PROVE  Kept(r)
    OBVIOUS
  <2>1. governance \in [Resources -> Governance] /\ job \in [Actors -> JobType]
    BY <1>1, StateFacts
  <2>2. ASSUME NEW q \in Resources, NEW g, NEW self, CommitGovernance(q, g, self)
        PROVE  q = r /\ governance'[r] = g
    BY <2>1, <2>2 DEF CommitGovernance
  <2>3. ASSUME NEW p \in Actors, Save(p)
        PROVE  Kept(r)
    <3> DEFINE q == Head(job[p].todo)
    <3>1. /\ job[p] \in JobType /\ job[p].todo # <<>> /\ job[p].pc = "saving" /\ q \in Resources
          /\ job' = [job EXCEPT ![p] = NextResource(p, job[p])]
      BY <1>1, <2>3, StateFacts DEF Save, JobShape
    <3>2. CASE MarkBlocked(q, job[p].copy, {p}) /\ job[p].outcome = "block"
      <4>1. q = r /\ governance'[r] = [job[p].copy EXCEPT !.status = "blocked"]
        BY <2>2, <3>1, <3>2 DEF MarkBlocked
      <4>2. job[p].copy.decision # governance[q].decision
        BY <3>1, <4>1 DEF JobType, Governance
      <4>3. p \in overtaken
        BY <1>1, <3>1, <3>2, <4>2 DEF SyncInv, Fresh
      <4>4. job'[p] # job[p]
        <5>1. NextResource(p, job[p]).pc # "saving"
          BY <3>1, NextFacts
        <5> QED BY <2>1, <3>1, <5>1
      <4> QED BY <4>1, <4>3, <4>4
    <3>3. CASE ClearBlock(q, job[p].copy, {p})
      BY <2>2, <3>1, <3>3 DEF ClearBlock
    <3>4. CASE CommitGovernance(q, governance[q], {p})
      BY <2>2, <3>1, <3>4
    <3> QED BY <2>3, <3>2, <3>3, <3>4 DEF Save
  <2>4. ASSUME NEW e \in edits, EditStep(e)
        PROVE  Kept(r)
    <3>1. /\ e.r \in Resources
          /\ \/ \E g \in Governance : CommitGovernance(e.r, g, {})
             \/ UNCHANGED <<governance, overtaken>>
          /\ e.op \notin {"set", "reset"} =>
               UNCHANGED governance \/ CommitGovernance(e.r, NoGovernance, {})
                 \/ CommitGovernance(e.r, governance[e.r], {})
          /\ e \notin edits'
      BY <1>1, <2>4, EditCommits DEF EditStep
    <3>2. e.r = r
      BY <2>2, <3>1
    <3>3. CASE e.op \in {"set", "reset"}
      BY <3>1, <3>2, <3>3
    <3>4. CASE e.op \notin {"set", "reset"}
      BY <2>2, <3>1, <3>4
    <3> QED BY <3>3, <3>4
  <2>5. ASSUME NEW p \in Actors, SyncStep(p)
        PROVE  Kept(r)
    <3>1. Save(p) \/ UNCHANGED governance
      BY <2>5 DEF SyncStep, Load, CallSucceeds, CallPartial, CallDenied, CallRaises, CallEnds, rows
    <3> QED BY <2>3, <3>1
  <2>6. ASSUME NEW w, RunStep(w) \/ Crash(w)
        PROVE  FALSE
    BY <2>6 DEF RunStep, CheckDue, StartRun, SelectResources, FinishRun, Crash, rows
  <2>7. ASSUME NEW q, NEW s, NEW statuses, NEW retry, RequestSync(q, s, retry) \/ RequestBatch(q, statuses)
        PROVE  FALSE
    BY <2>7 DEF RequestSync, RequestBatch, rows
  <2>8. ASSUME NEW i, NEW q, NEW op, NEW on, Ages(i) \/ IntervalElapses \/ OpenEdit(q, op, on)
        PROVE  FALSE
    BY <2>8 DEF Ages, IntervalElapses, OpenEdit, rows
  <2> QED BY <1>1, <2>4, <2>5, <2>6, <2>7, <2>8 DEF Next
<1>2. SyncInv /\ [Next]_vars => [\A r \in Resources : Kept(r)]_vars
  BY <1>1
<1> QED BY <1>2, SyncInvariant, PTL DEF Spec, DecisionLostOnlyIfOvertaken

=============================================================================

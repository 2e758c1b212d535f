------------------------ MODULE ScanLifecycle_proofs ------------------------
(***************************************************************************)
(* Theorems about ScanLifecycle for every set of scans and requests and    *)
(* every size of the pool: its pool, which implements ScanPool, and its    *)
(* rows. No late write brings a deleted scan back, a row that says running *)
(* has a run behind it, only a retry makes a second job of a scan in a     *)
(* process, nothing but the user undoes a completion, and every queued row *)
(* has something to start it.                                              *)
(***************************************************************************)
EXTENDS ScanLifecycle, FiniteSetTheorems, TLAPS

\* A caller whose pc is not idle holds a full call record.
LEMMA BusyIsCall ==
  ASSUME NEW c \in Callers, call \in [Callers -> Call \cup {NoCall}],
         call[c].pc # "idle"
  PROVE  call[c] \in Call
  BY DEF NoCall

LEMMA OpenIsCall ==
  ASSUME NEW op \in Ops, NEW s \in Scans, NEW pc \in CallPcs, NEW seen \in Statuses
  PROVE  Open(op, s, pc, seen) \in Call
  BY DEF Open, Call, Verdicts

-----------------------------------------------------------------------------
(* The pool *)

\* What ScanLifecycle says of the pool's variables, apart from rows and calls.
PoolShape == PoolTypeOK /\ ArrivalOrder /\ PoolAccounting /\ WorkConserving

\* The same, stated of any jobs, states, queue and counter: the pool's operators take
\* them as parameters.  Before processNext the counter may be one short of the
\* capacity with jobs waiting (a job has just ended) or the queue may hold one job
\* beside free slots (a job has just been pushed).
Ordered(js, st, q) ==
  /\ Len(q) <= Len(js)
  /\ \A i \in 1..Len(q) : q[i] = Len(js) - Len(q) + i
  /\ \A j \in 1..Len(js) : st[j] = "waiting" <=> j > Len(js) - Len(q)

Counted(st, n) ==
  /\ IsFiniteSet({j \in 1..Len(st) : st[j] \in InPool})
  /\ n = Cardinality({j \in 1..Len(st) : st[j] \in InPool})
  /\ n <= MaxConcurrent

Pooled(js, st, q, n) ==
  /\ js \in Seq(Scans) /\ st \in Seq(JobStates) /\ Len(st) = Len(js)
  /\ q \in Seq(Nat) /\ n \in Nat
  /\ Ordered(js, st, q)
  /\ Counted(st, n)

LEMMA PoolShapeIsPooled ==
  PoolShape <=> Pooled(jobs, state, queue, running) /\ WorkConserving
<1>1. ASSUME PoolTypeOK
      PROVE  Active = {j \in 1..Len(state) : state[j] \in InPool}
  BY <1>1 DEF PoolTypeOK, Active
<1>2. ASSUME PoolTypeOK
      PROVE  IsFiniteSet({j \in 1..Len(state) : state[j] \in InPool})
  <2>1. Len(state) \in Nat
    BY <1>2 DEF PoolTypeOK
  <2>2. IsFiniteSet(1..Len(state))
    BY <2>1, FS_Interval
  <2>3. QED
    BY <2>2, FS_Subset
<1>3. ASSUME PoolTypeOK
      PROVE  ArrivalOrder <=> Ordered(jobs, state, queue)
  <2>1. DOMAIN jobs = 1..Len(jobs) /\ DOMAIN queue = 1..Len(queue)
    BY <1>3 DEF PoolTypeOK
  <2>2. QED
    BY <2>1, Zenon DEF ArrivalOrder, Ordered
<1>4. QED
  BY <1>1, <1>2, <1>3 DEF PoolShape, Pooled, PoolTypeOK, PoolAccounting, Counted

\* Moving one job from a state outside the pool to one inside it adds one to the count.
LEMMA CountUp ==
  ASSUME NEW st \in Seq(JobStates), NEW n \in Nat, NEW j \in 1..Len(st),
         NEW b \in InPool, Counted(st, n), st[j] \notin InPool, n < MaxConcurrent
  PROVE  Counted([st EXCEPT ![j] = b], n + 1)
<1> DEFINE A == {k \in 1..Len(st) : st[k] \in InPool}
           st2 == [st EXCEPT ![j] = b]
           B == {k \in 1..Len(st2) : st2[k] \in InPool}
<1>1. Len(st2) = Len(st)
  OBVIOUS
<1>2. B = A \cup {j} /\ j \notin A
  BY <1>1
<1>3. IsFiniteSet(B) /\ Cardinality(B) = Cardinality(A) + 1
  BY <1>2, FS_AddElement DEF Counted
<1>4. QED
  BY <1>3, PoolAssumption DEF Counted

\* Moving one job out of the pool takes one from the count.
LEMMA CountDown ==
  ASSUME NEW st \in Seq(JobStates), NEW n \in Nat, NEW j \in 1..Len(st),
         NEW b \in JobStates \ InPool, Counted(st, n), st[j] \in InPool
  PROVE  Counted([st EXCEPT ![j] = b], n - 1) /\ n - 1 \in Nat
<1> DEFINE A == {k \in 1..Len(st) : st[k] \in InPool}
           st2 == [st EXCEPT ![j] = b]
           B == {k \in 1..Len(st2) : st2[k] \in InPool}
<1>1. Len(st2) = Len(st)
  OBVIOUS
<1>2. B = A \ {j} /\ j \in A
  BY <1>1
<1>3. IsFiniteSet(B) /\ Cardinality(B) = Cardinality(A) - 1
  <2>1. IsFiniteSet(A)
    BY DEF Counted
  <2>2. IsFiniteSet(A \ {j})
    BY <2>1, FS_Subset
  <2>3. Cardinality(A \ {j}) = Cardinality(A) - 1
    BY <1>2, <2>1, FS_RemoveElement
  <2>4. QED
    BY <1>2, <2>2, <2>3
<1>4. Cardinality(B) \in Nat
  BY <1>3, FS_CardinalityType
<1>5. QED
  BY <1>3, <1>4, PoolAssumption DEF Counted

\* Moving one job inside the pool, or appending one outside it, leaves the count.
LEMMA CountSame ==
  ASSUME NEW st \in Seq(JobStates), NEW n \in Nat, NEW st2 \in Seq(JobStates),
         Counted(st, n),
         {k \in 1..Len(st2) : st2[k] \in InPool} = {k \in 1..Len(st) : st[k] \in InPool}
  PROVE  Counted(st2, n)
  BY DEF Counted

\* processNext, from any of the states it is called in: the pool keeps its shape and
\* leaves no free slot beside a waiting job.
LEMMA ProcessNextPooled ==
  ASSUME NEW js, NEW st, NEW q, NEW n, NEW rs,
         Pooled(js, st, q, n),
         Len(q) >= 2 => n >= MaxConcurrent - 1,
         ProcessNext(js, st, q, n, rs)
  PROVE  Pooled(jobs', state', queue', running') /\ WorkConserving'
<1> USE PoolAssumption
<1>1. jobs' = js
  BY DEF ProcessNext
<1>2. CASE /\ n >= MaxConcurrent \/ q = <<>>
           /\ state' = st /\ queue' = q /\ running' = n
  <2>1. Pooled(jobs', state', queue', running')
    BY <1>1, <1>2, Zenon
  <2>2. n \in Nat /\ n <= MaxConcurrent
    BY DEF Pooled, Counted
  <2>3. WorkConserving'
    BY <1>2, <2>2 DEF WorkConserving
  <2>4. QED
    BY <2>1, <2>3
<1>3. CASE n < MaxConcurrent /\ q # <<>> /\ StartHead(js, st, q, n, rs)
  <2> DEFINE j == Head(q)
  <2>0. q \in Seq(Nat) /\ st \in Seq(JobStates) /\ js \in Seq(Scans) /\ n \in Nat
        /\ Len(st) = Len(js) /\ Ordered(js, st, q) /\ Counted(st, n)
    BY DEF Pooled
  <2>1. j = Len(js) - Len(q) + 1 /\ j \in 1..Len(js) /\ st[j] = "waiting"
    BY <1>3, <2>0 DEF Ordered
  <2>2. PICK b \in InPool : state' = [st EXCEPT ![j] = b]
    BY <1>3 DEF StartHead, InPool
  <2>3. Counted(state', running') /\ running' = n + 1
    <3>1. st[j] \notin InPool
      BY <2>1 DEF InPool, Endings
    <3>2. Counted([st EXCEPT ![j] = b], n + 1)
      BY <1>3, <2>0, <2>1, <3>1, CountUp
    <3>3. QED
      BY <1>3, <2>2, <3>2 DEF StartHead
  <2>4. queue' \in Seq(Nat) /\ Len(queue') = Len(q) - 1
        /\ \A i \in 1..Len(queue') : queue'[i] = q[i + 1]
    BY <1>3, <2>0 DEF StartHead
  <2>5. state' \in Seq(JobStates) /\ Len(state') = Len(st)
        /\ \A k \in 1..Len(st) : state'[k] = IF k = j THEN b ELSE st[k]
    BY <2>0, <2>1, <2>2 DEF InPool, Endings, JobStates
  <2>6. Ordered(jobs', state', queue')
    <3>1. Len(queue') <= Len(jobs')
      BY <1>1, <2>0, <2>4 DEF Ordered
    <3>2. ASSUME NEW i \in 1..Len(queue')
          PROVE  queue'[i] = Len(jobs') - Len(queue') + i
      <4>1. Len(q) \in Nat /\ Len(js) \in Nat /\ i \in Nat
        BY <2>0, <2>4
      <4>2. i + 1 \in 1..Len(q)
        BY <2>4, <4>1
      <4>3. q[i + 1] = Len(js) - Len(q) + (i + 1)
        BY <2>0, <4>2 DEF Ordered
      <4>4. queue'[i] = q[i + 1]
        BY <2>4
      <4>5. QED
        BY <1>1, <2>4, <4>1, <4>3, <4>4
    <3>3. ASSUME NEW k \in 1..Len(jobs')
          PROVE  state'[k] = "waiting" <=> k > Len(jobs') - Len(queue')
      <4>1. /\ Len(q) \in Nat /\ Len(js) \in Nat
            /\ k \in Nat /\ k \in 1..Len(js) /\ k \in 1..Len(st)
            /\ Len(jobs') = Len(js) /\ Len(queue') = Len(q) - 1
        BY <1>1, <2>0, <2>4
      <4>2. CASE k = j
        <5>1. state'[k] # "waiting"
          BY <2>5, <4>1, <4>2 DEF InPool, Endings
        <5>2. QED
          BY <2>1, <4>1, <4>2, <5>1
      <4>3. CASE k # j
        <5>1. state'[k] = st[k]
          BY <2>5, <4>1, <4>3
        <5>2. st[k] = "waiting" <=> k > Len(js) - Len(q)
          BY <2>0, <4>1 DEF Ordered
        <5>3. k > Len(js) - Len(q) <=> k > Len(jobs') - Len(queue')
          BY <2>1, <4>1, <4>3
        <5>4. QED
          BY <5>1, <5>2, <5>3
      <4>4. QED
        BY <4>2, <4>3
    <3>4. QED
      BY <3>1, <3>2, <3>3 DEF Ordered
  <2>7. WorkConserving'
    <3>1. ASSUME queue' # <<>>
          PROVE  Len(q) >= 2
      BY <2>0, <2>4, <3>1
    <3>2. QED
      BY <1>3, <2>0, <2>3, <3>1 DEF WorkConserving
  <2>8. QED
    BY <1>1, <2>0, <2>3, <2>4, <2>5, <2>6, <2>7 DEF Pooled
<1>4. QED
  BY <1>2, <1>3 DEF ProcessNext

\* Enqueue pushes a job that is the newest one and waits.
LEMMA PushPooled ==
  ASSUME PoolShape, NEW s \in Scans
  PROVE  /\ Pooled(Append(jobs, s), Append(state, "waiting"),
                   Append(queue, Len(jobs) + 1), running)
         /\ Len(Append(queue, Len(jobs) + 1)) >= 2 => running >= MaxConcurrent - 1
<1> DEFINE js == Append(jobs, s)
           st == Append(state, "waiting")
           q  == Append(queue, Len(jobs) + 1)
<1>1. Pooled(jobs, state, queue, running) /\ WorkConserving
  BY PoolShapeIsPooled
<1>2. /\ jobs \in Seq(Scans) /\ state \in Seq(JobStates) /\ Len(state) = Len(jobs)
      /\ queue \in Seq(Nat) /\ running \in Nat
      /\ Ordered(jobs, state, queue) /\ Counted(state, running)
  BY <1>1 DEF Pooled
<1>3. /\ js \in Seq(Scans) /\ Len(js) = Len(jobs) + 1
      /\ st \in Seq(JobStates) /\ Len(st) = Len(state) + 1
      /\ q \in Seq(Nat) /\ Len(q) = Len(queue) + 1
  BY <1>2 DEF JobStates, InPool
<1>4. \A k \in 1..Len(st) : st[k] = IF k = Len(st) THEN "waiting" ELSE state[k]
  BY <1>2, <1>3
<1>5. Ordered(js, st, q)
  <2>1. \A i \in 1..Len(q) : q[i] = Len(js) - Len(q) + i
    BY <1>2, <1>3 DEF Ordered
  <2>2. \A k \in 1..Len(js) : st[k] = "waiting" <=> k > Len(js) - Len(q)
    BY <1>2, <1>3, <1>4 DEF Ordered
  <2>3. QED
    BY <1>2, <1>3, <2>1, <2>2 DEF Ordered
<1>6. Counted(st, running)
  <2>1. {k \in 1..Len(st) : st[k] \in InPool} = {k \in 1..Len(state) : state[k] \in InPool}
    BY <1>2, <1>3, <1>4 DEF InPool, Endings
  <2>2. QED
    BY <1>2, <1>3, <2>1, CountSame
<1>7. Len(q) >= 2 => running >= MaxConcurrent - 1
  BY <1>1, <1>2, <1>3, PoolAssumption DEF WorkConserving
<1>8. Pooled(js, st, q, running)
  BY <1>2, <1>3, <1>5, <1>6 DEF Pooled
<1>9. QED
  BY <1>7, <1>8

LEMMA EnqueuePooled ==
  ASSUME PoolShape, NEW s \in Scans, Enqueue(s)
  PROVE  PoolShape'
<1>1. Pooled(jobs', state', queue', running') /\ WorkConserving'
  BY PushPooled, ProcessNextPooled DEF Enqueue
<1>2. (PoolShape <=> Pooled(jobs, state, queue, running) /\ WorkConserving)'
  BY PoolShapeIsPooled, PTL
<1>3. QED
  BY <1>1, <1>2

\* A job that moves on without leaving the pool leaves its shape.
LEMMA AdvancePooled ==
  ASSUME PoolShape, NEW j \in DOMAIN jobs, NEW b \in InPool, state[j] \in InPool,
         Advance(j, b), UNCHANGED <<queue, running>>
  PROVE  PoolShape'
<1>1. /\ jobs \in Seq(Scans) /\ state \in Seq(JobStates) /\ Len(state) = Len(jobs)
      /\ queue \in Seq(Nat) /\ running \in Nat
      /\ Ordered(jobs, state, queue) /\ Counted(state, running) /\ WorkConserving
  BY PoolShapeIsPooled DEF Pooled
<1>2. j \in 1..Len(state) /\ jobs' = jobs
  BY <1>1 DEF Advance
<1>3. state' \in Seq(JobStates) /\ Len(state') = Len(state)
      /\ \A k \in 1..Len(state) : state'[k] = IF k = j THEN b ELSE state[k]
  BY <1>1, <1>2 DEF Advance, InPool, JobStates
<1>4. Counted(state', running')
  <2>1. {k \in 1..Len(state') : state'[k] \in InPool} = {k \in 1..Len(state) : state[k] \in InPool}
    BY <1>2, <1>3
  <2>2. Counted(state', running)
    BY <1>1, <1>3, <2>1, CountSame
  <2>3. QED
    BY <2>2
<1>5. Ordered(jobs', state', queue')
  <2>1. \A k \in 1..Len(jobs) : state'[k] = "waiting" <=> state[k] = "waiting"
    BY <1>1, <1>2, <1>3 DEF InPool, Endings
  <2>2. QED
    BY <1>1, <1>2, <2>1 DEF Ordered
<1>6. Pooled(jobs', state', queue', running') /\ WorkConserving'
  BY <1>1, <1>2, <1>3, <1>4, <1>5 DEF Pooled, WorkConserving
<1>7. (PoolShape <=> Pooled(jobs, state, queue, running) /\ WorkConserving)'
  BY PoolShapeIsPooled, PTL
<1>8. QED
  BY <1>6, <1>7

\* A job that ends gives its place to the job at the head of the queue.
LEMMA FinishPooled ==
  ASSUME PoolShape, NEW j \in DOMAIN jobs, state[j] \in Endings,
         ProcessNext(jobs, [state EXCEPT ![j] = "done"], queue, running - 1, row)
  PROVE  PoolShape' /\ Pooled(jobs, [state EXCEPT ![j] = "done"], queue, running - 1)
<1> DEFINE st == [state EXCEPT ![j] = "done"]
<1>1. /\ jobs \in Seq(Scans) /\ state \in Seq(JobStates) /\ Len(state) = Len(jobs)
      /\ queue \in Seq(Nat) /\ running \in Nat
      /\ Ordered(jobs, state, queue) /\ Counted(state, running) /\ WorkConserving
  BY PoolShapeIsPooled DEF Pooled
<1>2. j \in 1..Len(state)
  BY <1>1
<1>3. st \in Seq(JobStates) /\ Len(st) = Len(state)
      /\ \A k \in 1..Len(state) : st[k] = IF k = j THEN "done" ELSE state[k]
  BY <1>1, <1>2 DEF JobStates, InPool
<1>4. Counted(st, running - 1) /\ running - 1 \in Nat
  <2>1. "done" \in JobStates \ InPool /\ state[j] \in InPool
    BY DEF JobStates, InPool, Endings
  <2>2. QED
    BY <1>1, <1>2, <2>1, CountDown
<1>5. Ordered(jobs, st, queue)
  <2>1. \A k \in 1..Len(jobs) : st[k] = "waiting" <=> state[k] = "waiting"
    BY <1>1, <1>2, <1>3 DEF Endings
  <2>2. QED
    BY <1>1, <2>1 DEF Ordered
<1>6. Pooled(jobs, st, queue, running - 1)
  BY <1>1, <1>3, <1>4, <1>5 DEF Pooled
<1>7. Len(queue) >= 2 => running - 1 >= MaxConcurrent - 1
  BY <1>1, PoolAssumption DEF WorkConserving
<1>8. Pooled(jobs', state', queue', running') /\ WorkConserving'
  BY <1>6, <1>7, ProcessNextPooled
<1>9. (PoolShape <=> Pooled(jobs, state, queue, running) /\ WorkConserving)'
  BY PoolShapeIsPooled, PTL
<1>10. QED
  BY <1>6, <1>8, <1>9

LEMMA EmptyPooled ==
  ASSUME jobs = <<>>, state = <<>>, queue = <<>>, running = 0
  PROVE  PoolShape
<1>1. {j \in 1..Len(state) : state[j] \in InPool} = {}
  OBVIOUS
<1>2. IsFiniteSet({}) /\ Cardinality({}) = 0
  BY FS_EmptySet
<1>3. Counted(state, running)
  BY <1>1, <1>2, PoolAssumption DEF Counted
<1>4. Ordered(jobs, state, queue)
  BY DEF Ordered
<1>5. Pooled(jobs, state, queue, running) /\ WorkConserving
  BY <1>3, <1>4 DEF Pooled, WorkConserving
<1>6. QED
  BY <1>5, PoolShapeIsPooled

-----------------------------------------------------------------------------
(* Types and the pool, step by step *)

LEMMA FailRowType ==
  ASSUME row \in [Scans -> Row], NEW s \in Scans, NEW e \in Errors, FailRow(s, e)
  PROVE  row' \in [Scans -> Row]
  BY DEF FailRow, Row, Statuses

\* Starting a job writes nothing into a row but the status running.
LEMMA ProcessNextRow ==
  ASSUME NEW js, NEW st, NEW q, NEW n, Pooled(js, st, q, n), row \in [Scans -> Row],
         ProcessNext(js, st, q, n, row)
  PROVE  row' \in [Scans -> Row]
<1>1. CASE row' = row
  BY <1>1
<1>2. CASE q # <<>> /\ StartHead(js, st, q, n, row)
  <2>1. /\ js \in Seq(Scans) /\ q \in Seq(Nat) /\ Len(q) <= Len(js)
        /\ \A i \in 1..Len(q) : q[i] = Len(js) - Len(q) + i
    BY DEF Pooled, Ordered
  <2>2. Head(q) \in 1..Len(js)
    BY <1>2, <2>1
  <2>3. js[Head(q)] \in Scans
    BY <2>1, <2>2
  <2>4. QED
    BY <1>2, <2>3 DEF StartHead, Row, Statuses
<1>3. QED
  BY <1>1, <1>2 DEF ProcessNext

\* The part of the type invariant that is not about the pool.
RestType ==
  /\ row \in [Scans -> Row]
  /\ files \subseteq Scans
  /\ call \in [Callers -> Call \cup {NoCall}]
  /\ toRecover \subseteq Scans /\ deferred \subseteq Scans /\ retried \subseteq Scans
  /\ phase \in {"booting", "serving"}
  /\ begun \in 0..MaxCalls /\ crashes \in 0..MaxCrashes

PoolInv == PoolShape /\ RestType

LEMMA PoolInvParts ==
  PoolInv <=> TypeOK /\ ArrivalOrder /\ PoolAccounting /\ WorkConserving
  BY DEF PoolInv, PoolShape, RestType, TypeOK

LEMMA PoolUnchanged ==
  ASSUME PoolShape, UNCHANGED poolVars
  PROVE  PoolShape'
  BY DEF PoolShape, PoolTypeOK, ArrivalOrder, PoolAccounting, WorkConserving, Active,
         poolVars

\* A call that is under way works on a scan.
LEMMA CallerScan ==
  ASSUME RestType, NEW c \in Callers, NEW pc \in CallPcs, At(c, pc)
  PROVE  call[c] \in Call /\ call[c].scan \in Scans
  BY BusyIsCall DEF RestType, At, CallPcs, Call

LEMMA CloseType ==
  ASSUME RestType, NEW c \in Callers, Close(c)
  PROVE  call' \in [Callers -> Call \cup {NoCall}]
  BY DEF RestType, Close

\* A call that begins touches one row at most, and the pool not at all.
LEMMA BeginInv ==
  ASSUME PoolInv, NEW c \in Callers, NEW op \in Ops, NEW s \in Scans,
         NEW pc \in CallPcs, NEW seen \in Statuses, Begin(c, op, s, pc, seen),
         row' \in [Scans -> Row], retried' \subseteq Scans
  PROVE  PoolInv'
<1>1. PoolShape'
  BY PoolUnchanged DEF PoolInv, Begin, poolVars
<1>2. call' \in [Callers -> Call \cup {NoCall}]
  BY OpenIsCall DEF PoolInv, RestType, Begin
<1>3. begun' \in 0..MaxCalls
  BY BoundAssumption DEF PoolInv, RestType, Begin
<1>4. RestType'
  BY <1>2, <1>3 DEF PoolInv, RestType, Begin
<1>5. QED
  BY <1>1, <1>4 DEF PoolInv

LEMMA BeginCallInv ==
  ASSUME PoolInv, NEW c \in Requests, BeginCall(c)
  PROVE  PoolInv'
<1> USE DEF PoolInv
<1>1. c \in Callers
  BY DEF Callers
<1>2. PICK s \in Scans : Initiate(c, s) \/ Schedule(c, s) \/ Retry(c, s)
                           \/ Cancel(c, s) \/ Delete(c, s)
  BY DEF BeginCall
<1>3. NewRow \in Row
  BY DEF NewRow, Row, Statuses, Errors
<1>4. CASE Initiate(c, s)
  <2>1. row' \in [Scans -> Row] /\ retried' \subseteq Scans
    BY <1>3, <1>4 DEF Initiate, RestType
  <2>2. QED
    BY <1>1, <1>4, <2>1, BeginInv DEF Initiate, Ops, CallPcs, Statuses
<1>5. CASE Schedule(c, s)
  <2>1. row' \in [Scans -> Row] /\ retried' \subseteq Scans
    BY <1>3, <1>5 DEF Schedule, RestType
  <2>2. QED
    BY <1>1, <1>5, <2>1, BeginInv DEF Schedule, Ops, CallPcs, Statuses
<1>6. CASE Retry(c, s)
  <2>1. row' \in [Scans -> Row] /\ retried' \subseteq Scans
    BY <1>6 DEF Retry, RestType
  <2>2. row[s].status \in Statuses
    BY <1>6 DEF Retry, Statuses
  <2>3. QED
    BY <1>1, <1>6, <2>1, <2>2, BeginInv DEF Retry, Ops, CallPcs
<1>7. CASE Cancel(c, s)
  <2>1. row' \in [Scans -> Row] /\ retried' \subseteq Scans
    BY <1>7 DEF Cancel, RestType
  <2>2. row[s].status \in Statuses
    BY <1>7 DEF Cancel, Statuses
  <2>3. QED
    BY <1>1, <1>7, <2>1, <2>2, BeginInv DEF Cancel, Ops, CallPcs
<1>8. CASE Delete(c, s)
  <2>1. row' \in [Scans -> Row] /\ retried' \subseteq Scans
    BY <1>8 DEF Delete, RestType
  <2>2. row[s].status \in Statuses
    BY <1>8 DEF Delete, Exists
  <2>3. PICK pc \in CallPcs : Begin(c, "delete", s, pc, row[s].status)
    BY <1>8 DEF Delete, CallPcs
  <2>4. QED
    BY <1>1, <2>1, <2>2, <2>3, BeginInv DEF Ops
<1>9. QED
  BY <1>2, <1>4, <1>5, <1>6, <1>7, <1>8

LEMMA RecoverInv ==
  ASSUME PoolInv, NEW s \in Scans, Recover(s)
  PROVE  PoolInv'
<1>1. PoolShape'
  BY PoolUnchanged DEF PoolInv, Recover
<1>2. Open("recover", s, "checking", "queued") \in Call
  BY OpenIsCall DEF Ops, CallPcs, Statuses
<1>3. RestType'
  BY <1>2 DEF PoolInv, RestType, Recover, Callers, boundVars
<1>4. QED
  BY <1>1, <1>3 DEF PoolInv

\* The steps of a call that leave the pool alone.
LEMMA CallStepInv ==
  ASSUME PoolInv, NEW c \in Callers, CallStep(c)
  PROVE  PoolInv'
<1> USE DEF PoolInv
<1>1. ASSUME UNCHANGED poolVars, UNCHANGED boundVars, UNCHANGED <<toRecover, retried, phase>>,
             row' \in [Scans -> Row], files' \subseteq Scans, deferred' \subseteq Scans,
             call' \in [Callers -> Call \cup {NoCall}]
      PROVE  PoolInv'
  <2>1. PoolShape'
    BY <1>1, PoolUnchanged
  <2>2. RestType'
    BY <1>1 DEF RestType, boundVars
  <2>3. QED
    BY <2>1, <2>2
<1>2. ASSUME NEW pc \in CallPcs, At(c, pc), NEW pc2 \in CallPcs
      PROVE  [call EXCEPT ![c].pc = pc2] \in [Callers -> Call \cup {NoCall}]
  <2>1. call[c] \in Call
    BY <1>2, CallerScan
  <2>2. [call[c] EXCEPT !.pc = pc2] \in Call
    BY <1>2, <2>1 DEF Call
  <2>3. QED
    BY <2>2 DEF RestType
<1>3. ASSUME NEW verdict \in Verdicts, LookedUp(c, verdict)
      PROVE  PoolInv'
  <2>1. call[c] \in Call
    BY <1>3, CallerScan DEF LookedUp, CallPcs
  <2>2. [call[c] EXCEPT !.pc = "deciding", !.verdict = verdict] \in Call
    BY <2>1 DEF Call, CallPcs
  <2>3. call' \in [Callers -> Call \cup {NoCall}]
    BY <1>3, <2>2 DEF LookedUp, RestType
  <2>4. QED
    BY <1>1, <1>3, <2>3 DEF LookedUp, RestType, memoryVars
<1>4. CASE LookupThrew(c)
  <2>1. call[c].scan \in Scans
    BY <1>4, CallerScan DEF LookupThrew, CallPcs
  <2>2. row' \in [Scans -> Row]
    BY <1>4, <2>1, FailRowType DEF LookupThrew, RestType, Errors
  <2>3. QED
    BY <1>1, <1>4, <2>2, CloseType DEF LookupThrew, RestType, memoryVars
<1>5. CASE Defer(c)
  <2>1. call[c].scan \in Scans
    BY <1>5, CallerScan DEF Defer, CallPcs
  <2>2. QED
    BY <1>1, <1>5, <2>1, CloseType DEF Defer, RestType
<1>6. CASE Refuse(c)
  <2>1. call[c].scan \in Scans
    BY <1>6, CallerScan DEF Refuse, CallPcs
  <2>2. row' \in [Scans -> Row]
    BY <1>6, <2>1, FailRowType DEF Refuse, RestType, Errors
  <2>3. QED
    BY <1>1, <1>6, <2>2, CloseType DEF Refuse, RestType, memoryVars
<1>7. CASE Requeue(c)
  <2>1. call[c].scan \in Scans
    BY <1>7, CallerScan DEF Requeue, CallPcs
  <2>2. row' \in [Scans -> Row]
    BY <1>7, <2>1 DEF Requeue, RestType, Row, Statuses, Errors
  <2>3. call' \in [Callers -> Call \cup {NoCall}]
    BY <1>2, <1>7, CloseType DEF Requeue, CallPcs
  <2>4. QED
    BY <1>1, <1>7, <2>2, <2>3 DEF Requeue, RestType, memoryVars
<1>8. CASE StartScan(c)
  <2>1. call[c].scan \in Scans
    BY <1>8, CallerScan DEF StartScan, CallPcs
  <2>2. PoolShape'
    BY <1>8, <2>1, EnqueuePooled DEF StartScan
  <2>3. Pooled(Append(jobs, call[c].scan), Append(state, "waiting"),
               Append(queue, Len(jobs) + 1), running)
    BY <2>1, PushPooled
  <2>4. row' \in [Scans -> Row]
    BY <1>8, <2>3, ProcessNextRow DEF StartScan, Enqueue, RestType
  <2>5. RestType'
    BY <1>8, <2>4, CloseType DEF StartScan, RestType, memoryVars, boundVars
  <2>6. QED
    BY <2>2, <2>5
<1>9. CASE CancelWrite(c)
  <2>1. call[c].scan \in Scans
    BY <1>9, CallerScan DEF CancelWrite, CallPcs
  <2>2. row' \in [Scans -> Row]
    BY <1>9, <2>1, FailRowType DEF CancelWrite, RestType, Errors
  <2>3. QED
    BY <1>1, <1>9, <2>2, CloseType DEF CancelWrite, RestType, memoryVars
<1>10. CASE Unlink(c)
  <2>1. call' \in [Callers -> Call \cup {NoCall}]
    BY <1>2, <1>10 DEF Unlink, CallPcs
  <2>2. QED
    BY <1>1, <1>10, <2>1 DEF Unlink, RestType, memoryVars
<1>11. CASE UnlinkFails(c)
  BY <1>1, <1>11, CloseType DEF UnlinkFails, RestType, memoryVars
<1>12. CASE DropRow(c)
  <2>1. row' \in [Scans -> Row]
    BY <1>12 DEF DropRow, RestType, Row
  <2>2. QED
    BY <1>1, <1>12, <2>1, CloseType DEF DropRow, RestType, memoryVars
<1>13. QED
  BY <1>3, <1>4, <1>5, <1>6, <1>7, <1>8, <1>9, <1>10, <1>11, <1>12 DEF CallStep

LEMMA JobStepInv ==
  ASSUME PoolInv, NEW j \in DOMAIN jobs, JobStep(j)
  PROVE  PoolInv'
<1> USE DEF PoolInv
<1>1. jobs[j] \in Scans
  BY DEF PoolShape, PoolTypeOK
<1>2. CASE CompleteWrite(j)
  <2>1. row' \in [Scans -> Row]
    BY <1>1, <1>2 DEF CompleteWrite, RestType, Row, Statuses
  <2>2. PICK b \in InPool : Advance(j, b)
    BY <1>2 DEF CompleteWrite, InPool
  <2>3. PoolShape'
    BY <1>2, <2>2, AdvancePooled DEF CompleteWrite, JobAt, InPool, Endings
  <2>4. QED
    BY <1>2, <2>1, <2>3 DEF CompleteWrite, RestType, memoryVars, boundVars
<1>3. CASE FailWrite(j)
  <2>1. row' \in [Scans -> Row]
    BY <1>1, <1>3, FailRowType DEF FailWrite, RestType, Errors
  <2>2. PoolShape'
    BY <1>3, AdvancePooled DEF FailWrite, JobAt, InPool, Endings
  <2>3. QED
    BY <1>3, <2>1, <2>2 DEF FailWrite, RestType, memoryVars, boundVars
<1>4. CASE StoreFile(j)
  <2>1. PoolShape'
    BY <1>4, AdvancePooled DEF StoreFile, JobAt, InPool, Endings
  <2>2. QED
    BY <1>1, <1>4, <2>1 DEF StoreFile, RestType, memoryVars, boundVars
<1>5. CASE FinishJob(j)
  <2>1. PoolShape' /\ Pooled(jobs, [state EXCEPT ![j] = "done"], queue, running - 1)
    BY <1>5, FinishPooled DEF FinishJob, Ended
  <2>2. row' \in [Scans -> Row]
    BY <1>5, <2>1, ProcessNextRow DEF FinishJob, RestType
  <2>3. QED
    BY <1>5, <2>1, <2>2 DEF FinishJob, RestType, memoryVars, boundVars
<1>6. QED
  BY <1>2, <1>3, <1>4, <1>5 DEF JobStep

LEMMA BootStepInv ==
  ASSUME PoolInv, BootStep
  PROVE  PoolInv'
<1> USE DEF PoolInv
<1>1. CASE Serve
  <2>1. PoolShape'
    BY <1>1, PoolUnchanged DEF Serve
  <2>2. QED
    BY <1>1, <2>1 DEF Serve, RestType, boundVars
<1>2. ASSUME NEW s \in Scans, MarkInterrupted(s)
      PROVE  PoolInv'
  <2>1. PoolShape'
    BY <1>2, PoolUnchanged DEF MarkInterrupted
  <2>2. row' \in [Scans -> Row]
    BY <1>2, FailRowType DEF MarkInterrupted, RestType, Errors
  <2>3. QED
    BY <1>2, <2>1, <2>2 DEF MarkInterrupted, RestType, memoryVars, boundVars
<1>3. QED
  BY <1>1, <1>2 DEF BootStep

LEMMA CrashInv ==
  ASSUME PoolInv, Crash
  PROVE  PoolInv'
<1>1. PoolShape'
  <2>1. (jobs = <<>> /\ state = <<>> /\ queue = <<>> /\ running = 0)'
    BY DEF Crash
  <2>2. (jobs = <<>> /\ state = <<>> /\ queue = <<>> /\ running = 0 => PoolShape)'
    BY EmptyPooled, PTL
  <2>3. QED
    BY <2>1, <2>2
<1>2. RestType'
  BY BoundAssumption DEF PoolInv, RestType, Crash
<1>3. QED
  BY <1>1, <1>2 DEF PoolInv

LEMMA InitInv == Init => PoolInv
<1>1. Init => PoolShape
  BY EmptyPooled DEF Init
<1>2. Init => RestType
  BY BoundAssumption DEF Init, RestType, Row, Statuses, Errors
<1>3. QED
  BY <1>1, <1>2 DEF PoolInv

LEMMA NextInv == PoolInv /\ [Next]_vars => PoolInv'
<1> SUFFICES ASSUME PoolInv, [Next]_vars
             PROVE  PoolInv'
  OBVIOUS
<1>1. CASE \E c \in Requests : BeginCall(c)
  BY <1>1, BeginCallInv
<1>2. CASE \E s \in Scans : Recover(s)
  BY <1>2, RecoverInv
<1>3. CASE \E c \in Callers : CallStep(c)
  BY <1>3, CallStepInv
<1>4. CASE \E j \in DOMAIN jobs : JobStep(j)
  BY <1>4, JobStepInv
<1>5. CASE BootStep
  BY <1>5, BootStepInv
<1>6. CASE Crash
  BY <1>6, CrashInv
<1>7. CASE UNCHANGED vars
  <2>1. PoolShape'
    BY <1>7, PoolUnchanged DEF PoolInv, vars, poolVars
  <2>2. QED
    BY <1>7, <2>1 DEF PoolInv, RestType, vars
<1>8. QED
  BY <1>1, <1>2, <1>3, <1>4, <1>5, <1>6, <1>7 DEF Next

\* What holds of the pool and of the types in every reachable state.
THEOREM PoolInvariant == Spec => []PoolInv
  BY InitInv, NextInv, PTL DEF Spec

\* The types of the variables: rows, files, the pool, calls and recovery.
THEOREM TypeCorrect == Spec => []TypeOK
<1>1. PoolInv => TypeOK
  BY PoolInvParts
<1>2. QED
  BY <1>1, PoolInvariant, PTL

\* The counter of ScanQueue is the number of started jobs whose finally has not run,
\* however they end, and stays within the size of the pool.
THEOREM PoolIsAccounted == Spec => []PoolAccounting
<1>1. PoolInv => PoolAccounting
  BY PoolInvParts
<1>2. QED
  BY <1>1, PoolInvariant, PTL

\* One processNext per enqueue and per finished job is enough: a job waits only
\* while the pool is full.
THEOREM PoolConservesWork == Spec => []WorkConserving
<1>1. PoolInv => WorkConserving
  BY PoolInvParts
<1>2. QED
  BY <1>1, PoolInvariant, PTL

\* Jobs start in the order they were enqueued.
THEOREM PoolKeepsOrder == Spec => []ArrivalOrder
<1>1. PoolInv => ArrivalOrder
  BY PoolInvParts
<1>2. QED
  BY <1>1, PoolInvariant, PTL

-----------------------------------------------------------------------------
(* The lifecycle implements ScanPool: every step of calls, jobs, recovery and crashes
   submits, ends or resets as the abstract pool says, or does nothing it speaks of. *)

Started == Len(jobs) - Len(queue)
Done    == {j \in DOMAIN jobs : state[j] = "done"}

\* FiniteSets is reached twice, once through the instance.
LEMMA PoolCardinality ==
  ASSUME NEW S
  PROVE  Pool!Cardinality(S) = Cardinality(S)
  BY Zenon DEF Pool!Cardinality, Cardinality

\* The abstract jobs at work are the ones ScanQueue counts.
LEMMA WorkingIsActive ==
  ASSUME PoolShape
  PROVE  Pool!Working = Active /\ Cardinality(Pool!Working) = running
<1>1. /\ jobs \in Seq(Scans) /\ state \in Seq(JobStates) /\ Len(state) = Len(jobs)
      /\ queue \in Seq(Nat) /\ Ordered(jobs, state, queue)
  BY PoolShapeIsPooled DEF Pooled
<1>2. Len(queue) \in Nat /\ Len(jobs) \in Nat /\ DOMAIN jobs = 1..Len(jobs)
      /\ DOMAIN state = 1..Len(jobs) /\ Len(queue) <= Len(jobs)
  BY <1>1 DEF Ordered
<1>3. \A j \in 1..Len(jobs) : state[j] \in InPool <=> state[j] \notin {"waiting", "done"}
  BY <1>1, <1>2 DEF InPool, Endings, JobStates
<1>4. \A j \in 1..Len(jobs) : j \in 1..Started <=> state[j] # "waiting"
  BY <1>1, <1>2 DEF Ordered, Started
<1>5. 1..Started \subseteq 1..Len(jobs)
  BY <1>2 DEF Started
<1>6. (1..Started) \ Done = Active
  BY <1>2, <1>3, <1>4, <1>5 DEF Active, Done
<1>7. Pool!Working = Active
  BY <1>6 DEF Pool!Working, Started, Done
<1>8. QED
  BY <1>7 DEF PoolShape, PoolAccounting

\* What processNext does to the abstract state.
LEMMA ProcessNextMaps ==
  ASSUME NEW js, NEW st, NEW q, NEW n, Pooled(js, st, q, n),
         ProcessNext(js, st, q, n, row)
  PROVE  /\ Len(jobs') = Len(js)
         /\ Done' = {j \in DOMAIN js : st[j] = "done"}
         /\ n < MaxConcurrent /\ q # <<>> => Started' = Len(js) - Len(q) + 1
         /\ n >= MaxConcurrent \/ q = <<>> => Started' = Len(js) - Len(q)
<1>1. /\ js \in Seq(Scans) /\ st \in Seq(JobStates) /\ Len(st) = Len(js)
      /\ q \in Seq(Nat) /\ n \in Nat /\ Ordered(js, st, q)
  BY DEF Pooled
<1>2. jobs' = js
  BY DEF ProcessNext
<1>3. CASE (n >= MaxConcurrent \/ q = <<>>) /\ state' = st /\ queue' = q
  BY <1>1, <1>2, <1>3, PoolAssumption DEF Done, Started
<1>4. CASE n < MaxConcurrent /\ q # <<>> /\ StartHead(js, st, q, n, row)
  <2> DEFINE j == Head(q)
  <2>1. j \in 1..Len(js) /\ st[j] = "waiting"
    BY <1>1, <1>4 DEF Ordered
  <2>2. PICK b \in {"scanning", "failing"} : state' = [st EXCEPT ![j] = b]
    BY <1>4 DEF StartHead
  <2>3. \A k \in DOMAIN js : state'[k] = "done" <=> st[k] = "done"
    BY <1>1, <2>1, <2>2
  <2>4. Done' = {k \in DOMAIN js : st[k] = "done"}
    BY <1>2, <2>3 DEF Done
  <2>5. Len(queue') = Len(q) - 1
    BY <1>1, <1>4 DEF StartHead
  <2>6. Started' = Len(js) - Len(q) + 1
    BY <1>1, <1>2, <2>5 DEF Started
  <2>7. QED
    BY <1>1, <1>2, <1>4, <2>4, <2>6, PoolAssumption
<1>5. QED
  BY <1>3, <1>4 DEF ProcessNext

\* startScan submits a job, which starts at once if there is room.
LEMMA EnqueueSubmits ==
  ASSUME PoolShape, NEW s \in Scans, Enqueue(s)
  PROVE  Pool!Submit
<1> DEFINE js == Append(jobs, s)
           st == Append(state, "waiting")
           q  == Append(queue, Len(jobs) + 1)
<1>1. Pooled(js, st, q, running)
  BY PushPooled
<1>2. /\ jobs \in Seq(Scans) /\ state \in Seq(JobStates) /\ Len(state) = Len(jobs)
      /\ queue \in Seq(Nat) /\ running \in Nat
  BY DEF PoolShape, PoolTypeOK
<1>3. Len(js) = Len(jobs) + 1 /\ Len(q) = Len(queue) + 1 /\ q # <<>>
  BY <1>2
<1>4. {j \in DOMAIN js : st[j] = "done"} = Done
  BY <1>2 DEF Done
<1>5. /\ Len(jobs') = Len(js)
      /\ Done' = {j \in DOMAIN js : st[j] = "done"}
      /\ running < MaxConcurrent /\ q # <<>> => Started' = Len(js) - Len(q) + 1
      /\ running >= MaxConcurrent \/ q = <<>> => Started' = Len(js) - Len(q)
  <2> HIDE DEF js, st, q
  <2>1. QED
    BY <1>1, ProcessNextMaps DEF Enqueue, js, st, q
<1>6. Len(jobs') = Len(jobs) + 1 /\ Done' = Done
  BY <1>3, <1>4, <1>5
<1>7. running < MaxConcurrent => Started' = Started + 1
  BY <1>2, <1>3, <1>5 DEF Started
<1>8. ~(running < MaxConcurrent) => Started' = Started
  <2>1. ~(running < MaxConcurrent) => Started' = Len(js) - Len(q)
    <3> HIDE DEF js, q
    <3>1. running \in Nat /\ MaxConcurrent \in Nat
      BY <1>2, PoolAssumption
    <3>2. QED
      BY <1>5, <3>1
  <2>2. Len(js) - Len(q) = Started
    BY <1>2, <1>3 DEF Started
  <2>3. QED
    BY <2>1, <2>2
<1>9. Pool!Cardinality(Pool!Working) = running
  BY WorkingIsActive, PoolCardinality
<1>10. QED
  BY <1>6, <1>7, <1>8, <1>9 DEF Pool!Submit, Started, Done

\* The finally of a job ends it and starts the oldest job that waits.
LEMMA FinishEnds ==
  ASSUME PoolShape, NEW j \in DOMAIN jobs, FinishJob(j)
  PROVE  j \in Pool!Working /\ Pool!End(j)
<1> DEFINE st == [state EXCEPT ![j] = "done"]
<1>1. ProcessNext(jobs, st, queue, running - 1, row) /\ state[j] \in Endings
  BY DEF FinishJob, Ended
<1>2. Pooled(jobs, st, queue, running - 1)
  BY <1>1, FinishPooled
<1>3. /\ jobs \in Seq(Scans) /\ state \in Seq(JobStates) /\ Len(state) = Len(jobs)
      /\ queue \in Seq(Nat) /\ running \in Nat /\ running <= MaxConcurrent
  BY DEF PoolShape, PoolTypeOK, PoolAccounting
<1>4. j \in Pool!Working
  BY <1>1, WorkingIsActive DEF Active, InPool
<1>5. /\ Len(jobs') = Len(jobs)
      /\ Done' = {k \in DOMAIN jobs : st[k] = "done"}
      /\ running - 1 < MaxConcurrent /\ queue # <<>> => Started' = Len(jobs) - Len(queue) + 1
      /\ running - 1 >= MaxConcurrent \/ queue = <<>> => Started' = Len(jobs) - Len(queue)
  <2> HIDE DEF st
  <2>1. QED
    BY <1>1, <1>2, ProcessNextMaps
<1>6. Done' = Done \cup {j}
  BY <1>3, <1>5 DEF Done
<1>7. queue # <<>> => Started' = Started + 1
  BY <1>3, <1>5, PoolAssumption DEF Started
<1>8. queue = <<>> => Started' = Started
  BY <1>3, <1>5 DEF Started
<1>9. queue # <<>> <=> Started < Len(jobs)
  BY <1>3 DEF Started
<1>10. Len(jobs') = Len(jobs)
  BY <1>5
<1>11. QED
  BY <1>4, <1>6, <1>7, <1>8, <1>9, <1>10 DEF Pool!End, Started, Done

\* Every other step of a job leaves it where it is as far as the pool is concerned.
LEMMA AdvanceStutters ==
  ASSUME PoolShape, NEW j \in DOMAIN jobs, NEW b \in InPool, state[j] \in InPool,
         Advance(j, b), UNCHANGED queue
  PROVE  UNCHANGED Pool!poolVars
<1>1. jobs \in Seq(Scans) /\ state \in Seq(JobStates) /\ Len(state) = Len(jobs)
  BY DEF PoolShape, PoolTypeOK
<1>2. jobs' = jobs /\ state' = [state EXCEPT ![j] = b]
  BY DEF Advance
<1>3. \A k \in DOMAIN jobs : state'[k] = "done" <=> state[k] = "done"
  BY <1>1, <1>2 DEF InPool, Endings
<1>4. QED
  BY <1>2, <1>3 DEF Pool!poolVars

LEMMA PoolStutters ==
  ASSUME UNCHANGED poolVars
  PROVE  UNCHANGED Pool!poolVars
  BY DEF Pool!poolVars, poolVars

LEMMA StepMaps ==
  PoolInv /\ [Next]_vars => [Pool!Next]_(Pool!poolVars)
<1> SUFFICES ASSUME PoolInv, [Next]_vars
             PROVE  Pool!Next \/ UNCHANGED Pool!poolVars
  OBVIOUS
<1>0. PoolShape /\ RestType
  BY DEF PoolInv
<1>1. CASE \E c \in Requests : BeginCall(c)
  <2>1. UNCHANGED poolVars
    BY <1>1 DEF BeginCall, Initiate, Schedule, Retry, Cancel, Delete, Begin
  <2>2. QED
    BY <2>1, PoolStutters
<1>2. CASE \E s \in Scans : Recover(s)
  <2>1. UNCHANGED poolVars
    BY <1>2 DEF Recover
  <2>2. QED
    BY <2>1, PoolStutters
<1>3. CASE \E c \in Callers : CallStep(c)
  <2>1. PICK c \in Callers : CallStep(c)
    BY <1>3
  <2>2. CASE StartScan(c)
    <3>1. call[c].scan \in Scans /\ Enqueue(call[c].scan)
      BY <1>0, <2>2, CallerScan DEF StartScan, CallPcs
    <3>2. QED
      BY <1>0, <3>1, EnqueueSubmits DEF Pool!Next
  <2>3. CASE ~StartScan(c)
    <3>1. UNCHANGED poolVars
      BY <2>1, <2>3 DEF CallStep, LookedUp, LookupThrew, Defer, Refuse, Requeue,
                        CancelWrite, Unlink, UnlinkFails, DropRow
    <3>2. QED
      BY <3>1, PoolStutters
  <2>4. QED
    BY <2>2, <2>3
<1>4. CASE \E j \in DOMAIN jobs : JobStep(j)
  <2>1. PICK j \in DOMAIN jobs : JobStep(j)
    BY <1>4
  <2>2. CASE FinishJob(j)
    BY <1>0, <2>2, FinishEnds DEF Pool!Next
  <2>3. CASE CompleteWrite(j)
    <3>1. PICK b \in InPool : Advance(j, b)
      BY <2>3 DEF CompleteWrite, InPool
    <3>2. QED
      BY <1>0, <2>3, <3>1, AdvanceStutters DEF CompleteWrite, JobAt, InPool, Endings
  <2>4. CASE FailWrite(j)
    BY <1>0, <2>4, AdvanceStutters DEF FailWrite, JobAt, InPool, Endings
  <2>5. CASE StoreFile(j)
    BY <1>0, <2>5, AdvanceStutters DEF StoreFile, JobAt, InPool, Endings
  <2>6. QED
    BY <2>1, <2>2, <2>3, <2>4, <2>5 DEF JobStep
<1>5. CASE BootStep
  <2>1. UNCHANGED poolVars
    BY <1>5 DEF BootStep, Serve, MarkInterrupted
  <2>2. QED
    BY <2>1, PoolStutters
<1>6. CASE Crash
  <2>1. Pool!Reset
    BY <1>6 DEF Crash, Pool!Reset
  <2>2. QED
    BY <2>1 DEF Pool!Next
<1>7. CASE UNCHANGED vars
  <2>1. UNCHANGED poolVars
    BY <1>7 DEF vars, poolVars
  <2>2. QED
    BY <2>1, PoolStutters
<1>8. QED
  BY <1>1, <1>2, <1>3, <1>4, <1>5, <1>6, <1>7 DEF Next

\* The safety part of KeepsPoolPromise: for every set of scans and calls and every
\* size of the pool, the behaviour of ScanQueue under calls, runs and crashes is one
\* of the abstract pool.
THEOREM ImplementsScanPool == Spec => Pool!Spec
<1>1. Init => Pool!Init
  BY DEF Init, Pool!Init
<1>2. QED
  BY <1>1, StepMaps, PoolInvariant, PTL DEF Spec, Pool!Spec

-----------------------------------------------------------------------------
(* The rows *)

\* A write of FailRow reaches no deleted row, and makes no row running.
LEMMA FailRowSpares ==
  ASSUME row \in [Scans -> Row], NEW t \in Scans, NEW e \in Errors, FailRow(t, e),
         NEW s \in Scans
  PROVE  /\ row[s].status = "deleted" => row'[s] = row[s]
         /\ row'[s].status = "running" => s # t /\ row[s].status = "running"
  BY DEF FailRow, Exists, Row, Statuses

LEMMA SetStatusSpares ==
  ASSUME row \in [Scans -> Row], NEW t \in Scans, NEW s \in Scans,
         row[s].status = "deleted",
         row' = [row EXCEPT ![t].status = "deleted"]
  PROVE  row'[s] = row[s]
<1>1. CASE t # s
  BY <1>1
<1>2. CASE t = s
  <2>1. row[s] \in Row /\ row'[s] = [row[s] EXCEPT !.status = "deleted"]
    BY <1>2
  <2>2. ASSUME NEW r \in Row, r.status = "deleted"
        PROVE  [r EXCEPT !.status = "deleted"] = r
    BY <2>2 DEF Row
  <2>3. QED
    BY <2>1, <2>2
<1>3. QED
  BY <1>1, <1>2

\* Starting a job reaches no row without a run of its own.
LEMMA ProcessNextSpares ==
  ASSUME NEW js, NEW st, NEW q, NEW n, Pooled(js, st, q, n), row \in [Scans -> Row],
         ProcessNext(js, st, q, n, row), NEW s \in Scans
  PROVE  /\ row[s].status = "deleted" => row'[s] = row[s]
         /\ row'[s].status = "running" =>
              \/ row[s].status = "running"
              \/ \E j \in DOMAIN jobs' : jobs'[j] = s /\ state'[j] = "scanning"
         /\ \A j \in 1..Len(js) :
              st[j] = "scanning" => j \in DOMAIN jobs' /\ state'[j] = "scanning"
<1>1. jobs' = js /\ DOMAIN js = 1..Len(js) /\ js \in Seq(Scans)
      /\ st \in Seq(JobStates) /\ DOMAIN st = 1..Len(js)
  BY DEF ProcessNext, Pooled
<1>2. CASE row' = row /\ state' = st
  BY <1>1, <1>2
<1>3. CASE q # <<>> /\ StartHead(js, st, q, n, row)
  <2> DEFINE j == Head(q)
             t == js[j]
  <2>1. /\ q \in Seq(Nat) /\ Len(q) <= Len(js)
        /\ \A i \in 1..Len(q) : q[i] = Len(js) - Len(q) + i
        /\ \A k \in 1..Len(js) : st[k] = "waiting" <=> k > Len(js) - Len(q)
    BY DEF Pooled, Ordered
  <2>2. j \in 1..Len(js) /\ st[j] = "waiting"
    BY <1>1, <1>3, <2>1
  <2>3. t \in Scans
    BY <1>1, <2>2
  <2>4. CASE row[t].status \in Statuses
    <3>1. row' = [row EXCEPT ![t].status = "running"] /\ state' = [st EXCEPT ![j] = "scanning"]
      BY <1>3, <2>4 DEF StartHead
    <3>2. t # s => row'[s] = row[s]
      BY <2>3, <3>1
    <3>3. state'[j] = "scanning" /\ jobs'[j] = t /\ j \in DOMAIN jobs'
      BY <1>1, <2>2, <3>1
    <3>4. \A k \in 1..Len(js) : st[k] = "scanning" => state'[k] = "scanning"
      BY <1>1, <2>2, <3>1
    <3>5. row[s].status = "deleted" => t # s
      BY <2>4 DEF Statuses
    <3>6. QED
      BY <1>1, <3>2, <3>3, <3>4, <3>5
  <2>5. CASE row[t].status \notin Statuses
    <3>1. row' = row /\ state' = [st EXCEPT ![j] = "failing"]
      BY <1>3, <2>5 DEF StartHead
    <3>2. \A k \in 1..Len(js) : st[k] = "scanning" => state'[k] = "scanning"
      BY <1>1, <2>2, <3>1
    <3>3. QED
      BY <1>1, <3>1, <3>2
  <2>6. QED
    BY <2>4, <2>5
<1>4. QED
  BY <1>2, <1>3 DEF ProcessNext

-----------------------------------------------------------------------------
(* Deleted scans *)

LEMMA StepSparesDeleted ==
  ASSUME PoolInv, Next, NEW s \in Scans, row[s].status = "deleted"
  PROVE  row'[s] = row[s]
<1>0. row \in [Scans -> Row] /\ PoolShape /\ RestType
  BY DEF PoolInv, RestType
<1>1. CASE \E c \in Requests : BeginCall(c)
  <2>1. PICK c \in Requests, t \in Scans :
          Initiate(c, t) \/ Schedule(c, t) \/ Retry(c, t) \/ Cancel(c, t) \/ Delete(c, t)
    BY <1>1 DEF BeginCall
  <2>2. UNCHANGED row \/ (row[t].status = "absent" /\ row' = [row EXCEPT ![t] = NewRow])
    BY <2>1 DEF Initiate, Schedule, Retry, Cancel, Delete
  <2>3. QED
    BY <1>0, <2>2
<1>2. CASE \E t \in Scans : Recover(t)
  BY <1>2 DEF Recover
<1>3. CASE \E c \in Callers : CallStep(c)
  <2>1. PICK c \in Callers : CallStep(c)
    BY <1>3
  <2> DEFINE t == call[c].scan
  <2>2. ASSUME NEW pc \in CallPcs, At(c, pc)
        PROVE  t \in Scans
    BY <1>0, <2>2, CallerScan
  <2>3. CASE LookupThrew(c) \/ Refuse(c) \/ CancelWrite(c)
    <3>1. t \in Scans
      BY <2>2, <2>3 DEF LookupThrew, Refuse, CancelWrite, CallPcs
    <3>2. UNCHANGED row \/ \E e \in Errors : FailRow(t, e)
      BY <2>3 DEF LookupThrew, Refuse, CancelWrite, Errors
    <3>3. QED
      BY <1>0, <3>1, <3>2, FailRowSpares
  <2>4. CASE Requeue(c)
    <3>1. t \in Scans
      BY <2>2, <2>4 DEF Requeue, CallPcs
    <3>2. UNCHANGED row \/ (Exists(t) /\ row' = [row EXCEPT ![t].status = "queued", ![t].error = "none"])
      BY <2>4 DEF Requeue
    <3>3. QED
      BY <1>0, <3>1, <3>2 DEF Exists, Statuses
  <2>5. CASE StartScan(c)
    <3>1. t \in Scans
      BY <2>2, <2>5 DEF StartScan, CallPcs
    <3>2. Pooled(Append(jobs, t), Append(state, "waiting"), Append(queue, Len(jobs) + 1), running)
      BY <1>0, <3>1, PushPooled
    <3>3. QED
      BY <1>0, <2>5, <3>2, ProcessNextSpares DEF StartScan, Enqueue
  <2>6. CASE DropRow(c)
    <3>1. t \in Scans
      BY <2>2, <2>6 DEF DropRow, CallPcs
    <3>2. QED
      BY <1>0, <2>6, <3>1, SetStatusSpares DEF DropRow
  <2>7. CASE Defer(c) \/ Unlink(c) \/ UnlinkFails(c) \/ \E verdict \in Verdicts : LookedUp(c, verdict)
    BY <2>7 DEF Defer, Unlink, UnlinkFails, LookedUp
  <2>8. QED
    BY <2>1, <2>3, <2>4, <2>5, <2>6, <2>7 DEF CallStep
<1>4. CASE \E j \in DOMAIN jobs : JobStep(j)
  <2>1. PICK j \in DOMAIN jobs : JobStep(j)
    BY <1>4
  <2>2. jobs[j] \in Scans
    BY <1>0 DEF PoolShape, PoolTypeOK
  <2>3. CASE CompleteWrite(j)
    <3>1. UNCHANGED row \/ (Exists(jobs[j]) /\ row' = [row EXCEPT ![jobs[j]].status = "completed", ![jobs[j]].report = TRUE])
      BY <2>3 DEF CompleteWrite
    <3>2. QED
      BY <1>0, <2>2, <3>1 DEF Exists, Statuses
  <2>4. CASE FailWrite(j)
    BY <1>0, <2>2, <2>4, FailRowSpares DEF FailWrite, Errors
  <2>5. CASE StoreFile(j)
    BY <2>5 DEF StoreFile
  <2>6. CASE FinishJob(j)
    <3>1. ProcessNext(jobs, [state EXCEPT ![j] = "done"], queue, running - 1, row)
          /\ state[j] \in Endings
      BY <2>6 DEF FinishJob, Ended
    <3>2. Pooled(jobs, [state EXCEPT ![j] = "done"], queue, running - 1)
      BY <1>0, <3>1, FinishPooled
    <3>3. QED
      BY <1>0, <3>1, <3>2, ProcessNextSpares
  <2>7. QED
    BY <2>1, <2>3, <2>4, <2>5, <2>6 DEF JobStep
<1>5. CASE BootStep
  BY <1>0, <1>5, FailRowSpares DEF BootStep, Serve, MarkInterrupted, Errors
<1>6. CASE Crash
  BY <1>6 DEF Crash
<1>7. QED
  BY <1>1, <1>2, <1>3, <1>4, <1>5, <1>6 DEF Next

\* A deleted scan stays deleted: the writes of calls and runs that read its row
\* before the delete fall on nothing.
THEOREM NoScanReturns == Spec => DeletedStaysDeleted
<1>1. PoolInv /\ [Next]_vars =>
        [\A s \in Scans : row[s].status = "deleted" => row'[s] = row[s]]_vars
  BY StepSparesDeleted
<1>2. QED
  BY <1>1, PoolInvariant, PTL DEF Spec, DeletedStaysDeleted

-----------------------------------------------------------------------------
(* Running rows *)

HasRun(s) == \E j \in DOMAIN jobs : jobs[j] = s /\ state[j] = "scanning"

\* Steps that leave the jobs alone and make no row running.
LEMMA RunKept ==
  ASSUME RunningRowHasRun, NEW s \in Scans, UNCHANGED <<jobs, state, phase>>,
         row'[s].status = "running" => row[s].status = "running",
         phase' = "serving", row'[s].status = "running"
  PROVE  HasRun(s)'
  BY DEF RunningRowHasRun, HasRun

LEMMA CallStepKeepsRuns ==
  ASSUME PoolInv, RunningRowHasRun, NEW c \in Callers, CallStep(c), NEW s \in Scans,
         phase' = "serving", row'[s].status = "running"
  PROVE  HasRun(s)'
<1> DEFINE t == call[c].scan
<1>0. row \in [Scans -> Row] /\ PoolShape /\ RestType
  BY DEF PoolInv, RestType
<1>2. ASSUME NEW pc \in CallPcs, At(c, pc)
      PROVE  t \in Scans
  BY <1>0, <1>2, CallerScan
<1>3. CASE LookupThrew(c) \/ Refuse(c) \/ CancelWrite(c)
  <2>1. t \in Scans
    BY <1>2, <1>3 DEF LookupThrew, Refuse, CancelWrite, CallPcs
  <2>2. UNCHANGED row \/ \E e \in Errors : FailRow(t, e)
    BY <1>3 DEF LookupThrew, Refuse, CancelWrite, Errors
  <2>3. UNCHANGED <<jobs, state, phase>>
    BY <1>3 DEF LookupThrew, Refuse, CancelWrite, poolVars, memoryVars
  <2>4. row[s].status = "running"
    BY <1>0, <2>1, <2>2, FailRowSpares
  <2>5. QED
    BY <2>3, <2>4, RunKept
<1>4. CASE Requeue(c)
  <2>1. t \in Scans
    BY <1>2, <1>4 DEF Requeue, CallPcs
  <2>2. UNCHANGED row \/ row' = [row EXCEPT ![t].status = "queued", ![t].error = "none"]
    BY <1>4 DEF Requeue
  <2>3. row[s].status = "running"
    BY <1>0, <2>1, <2>2 DEF Row
  <2>4. QED
    BY <1>4, <2>3, RunKept DEF Requeue, poolVars, memoryVars
<1>5. CASE StartScan(c)
  <2>1. t \in Scans
    BY <1>2, <1>5 DEF StartScan, CallPcs
  <2> DEFINE st == Append(state, "waiting")
             js == Append(jobs, t)
  <2>2. Pooled(js, st, Append(queue, Len(jobs) + 1), running)
    BY <1>0, <2>1, PushPooled
  <2>3. ProcessNext(js, st, Append(queue, Len(jobs) + 1), running, row)
    BY <1>5 DEF StartScan, Enqueue
  <2>4. CASE row[s].status = "running"
    <3>1. phase = "serving"
      BY <1>5 DEF StartScan, memoryVars
    <3>2. PICK j \in DOMAIN jobs : jobs[j] = s /\ state[j] = "scanning"
      BY <2>4, <3>1 DEF RunningRowHasRun
    <3>3. jobs \in Seq(Scans) /\ state \in Seq(JobStates) /\ Len(state) = Len(jobs)
      BY <1>0 DEF PoolShape, PoolTypeOK
    <3>4. j \in 1..Len(js) /\ st[j] = "scanning" /\ js[j] = s
      BY <2>1, <3>2, <3>3
    <3>5. \A k \in 1..Len(js) :
            st[k] = "scanning" => k \in DOMAIN jobs' /\ state'[k] = "scanning"
      <4> HIDE DEF js, st
      <4>1. QED
        BY <1>0, <2>2, <2>3, ProcessNextSpares
    <3>6. j \in DOMAIN jobs' /\ state'[j] = "scanning"
      BY <3>4, <3>5
    <3>7. jobs'[j] = s
      BY <2>3, <3>4 DEF ProcessNext
    <3>8. QED
      BY <3>6, <3>7 DEF HasRun
  <2>5. CASE row[s].status # "running"
    BY <1>0, <2>2, <2>3, <2>5, ProcessNextSpares DEF HasRun
  <2>6. QED
    BY <2>4, <2>5
<1>6. CASE DropRow(c)
  <2>1. t \in Scans
    BY <1>2, <1>6 DEF DropRow, CallPcs
  <2>2. row' = [row EXCEPT ![t].status = "deleted"]
    BY <1>6 DEF DropRow
  <2>3. row[s].status = "running"
    BY <1>0, <2>1, <2>2 DEF Row
  <2>4. QED
    BY <1>6, <2>3, RunKept DEF DropRow, poolVars, memoryVars
<1>7. CASE Defer(c) \/ Unlink(c) \/ UnlinkFails(c) \/ \E verdict \in Verdicts : LookedUp(c, verdict)
  <2>1. UNCHANGED <<row, jobs, state, phase>>
    BY <1>7 DEF Defer, Unlink, UnlinkFails, LookedUp, poolVars, memoryVars
  <2>2. QED
    BY <2>1, RunKept
<1>8. QED
  BY <1>3, <1>4, <1>5, <1>6, <1>7 DEF CallStep

\* A job leaves its scan only with a write that takes its row off running.
LEMMA JobStepKeepsRuns ==
  ASSUME PoolInv, RunningRowHasRun, NEW j \in DOMAIN jobs, JobStep(j), NEW s \in Scans,
         phase' = "serving", row'[s].status = "running"
  PROVE  HasRun(s)'
<1>0. /\ row \in [Scans -> Row] /\ PoolShape
      /\ jobs \in Seq(Scans) /\ state \in Seq(JobStates) /\ Len(state) = Len(jobs)
      /\ jobs[j] \in Scans
  BY DEF PoolInv, RestType, PoolShape, PoolTypeOK
<1>1. phase = "serving"
  BY DEF JobStep, CompleteWrite, FailWrite, StoreFile, FinishJob, memoryVars
<1>2. ASSUME row[s].status = "running", jobs' = jobs, NEW b \in InPool,
             state' = [state EXCEPT ![j] = b], jobs[j] # s \/ state[j] # "scanning"
      PROVE  HasRun(s)'
  <2>1. PICK k \in DOMAIN jobs : jobs[k] = s /\ state[k] = "scanning"
    BY <1>1, <1>2 DEF RunningRowHasRun
  <2>2. k # j
    BY <1>2, <2>1
  <2>3. state'[k] = "scanning"
    BY <1>0, <1>2, <2>1, <2>2
  <2>4. QED
    BY <1>2, <2>1, <2>3 DEF HasRun
<1>3. CASE CompleteWrite(j)
  <2>1. CASE Exists(jobs[j])
    <3>1. row' = [row EXCEPT ![jobs[j]].status = "completed", ![jobs[j]].report = TRUE]
          /\ jobs' = jobs /\ state' = [state EXCEPT ![j] = "storing"]
      BY <1>3, <2>1 DEF CompleteWrite, Advance
    <3>2. jobs[j] # s /\ row[s].status = "running"
      BY <1>0, <3>1 DEF Row
    <3>3. QED
      BY <1>2, <3>1, <3>2 DEF InPool, Endings
  <2>2. CASE ~Exists(jobs[j])
    <3>1. row' = row /\ jobs' = jobs /\ state' = [state EXCEPT ![j] = "failing"]
      BY <1>3, <2>2 DEF CompleteWrite, Advance
    <3>2. jobs[j] # s
      BY <2>2, <3>1 DEF Exists, Statuses
    <3>3. QED
      BY <1>2, <3>1, <3>2 DEF InPool, Endings
  <2>3. QED
    BY <2>1, <2>2
<1>4. CASE FailWrite(j)
  <2>1. FailRow(jobs[j], "scan_error") /\ jobs' = jobs
        /\ \E b \in {"failed", "threw"} : state' = [state EXCEPT ![j] = b]
    BY <1>4 DEF FailWrite, Advance
  <2>2. jobs[j] # s /\ row[s].status = "running"
    BY <1>0, <2>1, FailRowSpares DEF Errors
  <2>3. QED
    BY <1>2, <2>1, <2>2 DEF InPool, Endings
<1>5. CASE StoreFile(j)
  <2>1. row' = row /\ jobs' = jobs /\ state' = [state EXCEPT ![j] = "succeeded"]
        /\ state[j] = "storing"
    BY <1>5 DEF StoreFile, Advance, JobAt
  <2>2. QED
    BY <1>2, <2>1 DEF InPool, Endings
<1>6. CASE FinishJob(j)
  <2> DEFINE st == [state EXCEPT ![j] = "done"]
  <2>1. ProcessNext(jobs, st, queue, running - 1, row) /\ state[j] \in Endings
    BY <1>6 DEF FinishJob, Ended
  <2>2. Pooled(jobs, st, queue, running - 1)
    BY <1>0, <2>1, FinishPooled
  <2>3. CASE row[s].status = "running"
    <3>1. PICK k \in DOMAIN jobs : jobs[k] = s /\ state[k] = "scanning"
      BY <1>1, <2>3 DEF RunningRowHasRun
    <3>2. k \in 1..Len(jobs) /\ st[k] = "scanning"
      BY <1>0, <2>1, <3>1 DEF Endings
    <3>3. k \in DOMAIN jobs' /\ state'[k] = "scanning"
      BY <1>0, <2>1, <2>2, <3>2, ProcessNextSpares
    <3>4. QED
      BY <2>1, <3>1, <3>3 DEF HasRun, ProcessNext
  <2>4. CASE row[s].status # "running"
    BY <1>0, <2>1, <2>2, <2>4, ProcessNextSpares DEF HasRun
  <2>5. QED
    BY <2>3, <2>4
<1>7. QED
  BY <1>3, <1>4, <1>5, <1>6 DEF JobStep

LEMMA StepKeepsRuns ==
  PoolInv /\ RunningRowHasRun /\ [Next]_vars => RunningRowHasRun'
<1> SUFFICES ASSUME PoolInv, RunningRowHasRun, [Next]_vars, NEW s \in Scans,
                    phase' = "serving", row'[s].status = "running"
             PROVE  HasRun(s)'
  BY DEF RunningRowHasRun, HasRun
<1>0. row \in [Scans -> Row]
  BY DEF PoolInv, RestType
<1>1. CASE \E c \in Requests : BeginCall(c)
  <2>1. PICK c \in Requests, t \in Scans :
          Initiate(c, t) \/ Schedule(c, t) \/ Retry(c, t) \/ Cancel(c, t) \/ Delete(c, t)
    BY <1>1 DEF BeginCall
  <2>2. UNCHANGED row \/ row' = [row EXCEPT ![t] = NewRow]
    BY <2>1 DEF Initiate, Schedule, Retry, Cancel, Delete
  <2>3. row[s].status = "running"
    BY <1>0, <2>2 DEF NewRow
  <2>4. UNCHANGED <<jobs, state, phase>>
    BY <2>1 DEF Initiate, Schedule, Retry, Cancel, Delete, Begin, poolVars
  <2>5. QED
    BY <2>3, <2>4, RunKept
<1>2. CASE \E t \in Scans : Recover(t)
  <2>1. UNCHANGED <<row, jobs, state, phase>>
    BY <1>2 DEF Recover, poolVars
  <2>2. QED
    BY <2>1, RunKept
<1>3. CASE \E c \in Callers : CallStep(c)
  BY <1>3, CallStepKeepsRuns
<1>4. CASE \E j \in DOMAIN jobs : JobStep(j)
  BY <1>4, JobStepKeepsRuns
<1>5. CASE Serve
  BY <1>5 DEF Serve
<1>6. CASE \E t \in Scans : MarkInterrupted(t)
  BY <1>6 DEF MarkInterrupted, memoryVars
<1>7. CASE Crash
  BY <1>7 DEF Crash
<1>8. CASE UNCHANGED vars
  <2>1. UNCHANGED <<row, jobs, state, phase>>
    BY <1>8 DEF vars
  <2>2. QED
    BY <2>1, RunKept
<1>9. QED
  BY <1>1, <1>2, <1>3, <1>4, <1>5, <1>6, <1>7, <1>8 DEF Next, BootStep

\* Once the rows a dead process left are marked, every row that says running has a
\* job of this process that is still scanning it.
THEOREM RunningRowsHaveRuns == Spec => []RunningRowHasRun
<1>1. Init => RunningRowHasRun
  BY DEF Init, RunningRowHasRun
<1>2. QED
  BY <1>1, StepKeepsRuns, PoolInvariant, PTL DEF Spec

-----------------------------------------------------------------------------
(* What the calls know *)

Starts == {"initiate", "schedule", "recover"}

CallOK(c) ==
  call[c] \in Call =>
    /\ c \in Scans => call[c].op = "recover" /\ call[c].scan = c
    /\ call[c].op \in {"schedule", "recover"} => call[c].seen = "queued"
    /\ call[c].op = "retry" => call[c].scan \in retried
    /\ call[c].pc \in {"checking", "deciding", "starting"} => call[c].op \in Starts \cup {"retry"}

CallsOK == \A c \in Callers : CallOK(c)

\* Nothing is in memory before the server listens.
Empty == phase = "booting" => jobs = <<>> /\ \A c \in Callers : call[c] \notin Call

LEMMA IdleIsNoCall == NoCall \notin Call /\ NoCall.pc = "idle" /\ "idle" \notin CallPcs
  BY DEF NoCall, Call, CallPcs

\* A call ends or goes on with what it read; the others are where they were.
LEMMA CallGoesOn ==
  ASSUME PoolInv, NEW c \in Callers, CallStep(c)
  PROVE  /\ call[c] \in Call /\ call[c].scan \in Scans
         /\ \A d \in Callers : d # c => call'[d] = call[d]
         /\ \/ call'[c] = NoCall
            \/ /\ call'[c] \in Call /\ call'[c].op = call[c].op
               /\ call'[c].scan = call[c].scan /\ call'[c].seen = call[c].seen
               /\ call'[c].pc \in {"deciding", "starting"} => call[c].pc \in {"checking", "deciding"}
               /\ call'[c].pc # "checking"
         /\ phase' = phase /\ toRecover' = toRecover /\ retried' = retried
<1>0. RestType /\ call \in [Callers -> Call \cup {NoCall}]
  BY DEF PoolInv, RestType
<1>1. \E pc \in CallPcs : At(c, pc)
  BY DEF CallStep, LookedUp, LookupThrew, Defer, Refuse, Requeue, StartScan, CancelWrite, Unlink,
     UnlinkFails, DropRow, CallPcs
<1>2. call[c] \in Call /\ call[c].scan \in Scans
  BY <1>0, <1>1, CallerScan
<1>3. phase' = phase /\ toRecover' = toRecover /\ retried' = retried
  BY DEF CallStep, LookedUp, LookupThrew, Defer, Refuse, Requeue, StartScan, CancelWrite, Unlink,
     UnlinkFails, DropRow, memoryVars
<1>4. CASE Close(c)
  BY <1>0, <1>2, <1>3, <1>4 DEF Close
<1>5. ASSUME NEW pc \in CallPcs, NEW v \in Verdicts,
             call' = [call EXCEPT ![c] = [@ EXCEPT !.pc = pc, !.verdict = v]]
      PROVE  /\ call'[c] \in Call /\ call'[c].op = call[c].op /\ call'[c].pc = pc
             /\ call'[c].scan = call[c].scan /\ call'[c].seen = call[c].seen
             /\ \A d \in Callers : d # c => call'[d] = call[d]
  <2>1. call'[c] = [call[c] EXCEPT !.pc = pc, !.verdict = v]
    BY <1>0, <1>5
  <2>2. \A d \in Callers : d # c => call'[d] = call[d]
    BY <1>0, <1>5
  <2>3. QED
    BY <1>2, <2>1, <2>2 DEF Call
<1>6. ASSUME NEW pc \in CallPcs, call' = [call EXCEPT ![c].pc = pc]
      PROVE  /\ call'[c] \in Call /\ call'[c].op = call[c].op /\ call'[c].pc = pc
             /\ call'[c].scan = call[c].scan /\ call'[c].seen = call[c].seen
             /\ \A d \in Callers : d # c => call'[d] = call[d]
  <2>1. call'[c] = [call[c] EXCEPT !.pc = pc]
    BY <1>0, <1>6
  <2>2. \A d \in Callers : d # c => call'[d] = call[d]
    BY <1>0, <1>6
  <2>3. QED
    BY <1>2, <2>1, <2>2 DEF Call
<1>7. ASSUME NEW v \in Verdicts, LookedUp(c, v)
      PROVE  \/ Close(c)
             \/ call' = [call EXCEPT ![c] = [@ EXCEPT !.pc = "deciding", !.verdict = v]]
  BY <1>7 DEF LookedUp, Close
<1>8. CASE \E v \in Verdicts : LookedUp(c, v)
  <2>1. PICK v \in Verdicts : LookedUp(c, v)
    BY <1>8
  <2>2. At(c, "checking") /\ "deciding" \in CallPcs
    BY <2>1 DEF LookedUp, CallPcs
  <2>3. QED
    BY <1>2, <1>3, <1>4, <1>5, <1>7, <2>1, <2>2 DEF At
<1>9. CASE Requeue(c) \/ Unlink(c)
  BY <1>2, <1>3, <1>4, <1>6, <1>9 DEF Requeue, Unlink, At, CallPcs
<1>10. QED
  BY <1>4, <1>8, <1>9 DEF CallStep, LookupThrew, Defer, Refuse, StartScan, CancelWrite,
     UnlinkFails, DropRow

\* Calls begin with what they were opened with.
LEMMA CallBegins ==
  ASSUME PoolInv, NEW c \in Callers, NEW op \in Ops, NEW s \in Scans, NEW pc \in CallPcs,
         NEW seen \in Statuses, call' = [call EXCEPT ![c] = Open(op, s, pc, seen)]
  PROVE  /\ call'[c] \in Call /\ call'[c].op = op /\ call'[c].scan = s
         /\ call'[c].pc = pc /\ call'[c].seen = seen
         /\ \A d \in Callers : d # c => call'[d] = call[d]
<1>1. call \in [Callers -> Call \cup {NoCall}]
  BY DEF PoolInv, RestType
<1>2. call'[c] = Open(op, s, pc, seen) /\ \A d \in Callers : d # c => call'[d] = call[d]
  BY <1>1
<1>3. QED
  BY <1>2, OpenIsCall DEF Open

\* What a call of a user or of the schedule tick is opened with.
BeginsAs(c, s, op, pc, seen) ==
  /\ call' = [call EXCEPT ![c] = Open(op, s, pc, seen)]
  /\ phase = "serving" /\ phase' = "serving"
  /\ UNCHANGED <<jobs, state, queue, running, toRecover>>
  /\ op = "schedule" => seen = "queued" /\ pc = "checking"
  /\ op = "initiate" => pc = "starting"
  /\ pc \in {"checking", "deciding", "starting"} => op \in Starts \cup {"retry"}
  /\ retried' = IF op = "retry" THEN retried \cup {s} ELSE retried
  /\ IF op \in Starts THEN row[s].status = "absent" /\ row' = [row EXCEPT ![s] = NewRow]
     ELSE row' = row

LEMMA BeginsCall ==
  ASSUME NEW c \in Requests, BeginCall(c)
  PROVE  \E s \in Scans, op \in Ops \ {"recover"}, pc \in CallPcs, seen \in Statuses :
           BeginsAs(c, s, op, pc, seen)
<1>1. PICK s \in Scans : Initiate(c, s) \/ Schedule(c, s) \/ Retry(c, s)
                           \/ Cancel(c, s) \/ Delete(c, s)
  BY DEF BeginCall
<1>2. /\ {"initiate", "schedule", "retry", "cancel", "delete"} \subseteq Ops \ {"recover"}
      /\ {"checking", "starting", "cancelling", "deleting", "dropping"} \subseteq CallPcs
      /\ {"queued", "running", "failed"} \subseteq Statuses
  BY DEF Ops, CallPcs, Statuses
<1>3. CASE Initiate(c, s)
  <2>1. BeginsAs(c, s, "initiate", "starting", "queued")
    BY <1>3 DEF Initiate, Begin, BeginsAs, Starts, poolVars
  <2>2. QED
    BY <1>2, <2>1
<1>4. CASE Schedule(c, s)
  <2>1. BeginsAs(c, s, "schedule", "checking", "queued")
    BY <1>4 DEF Schedule, Begin, BeginsAs, Starts, poolVars
  <2>2. QED
    BY <1>2, <2>1
<1>5. CASE Retry(c, s)
  <2>1. BeginsAs(c, s, "retry", "checking", row[s].status) /\ row[s].status \in {"queued", "failed"}
    BY <1>5 DEF Retry, Begin, BeginsAs, Starts, poolVars
  <2>2. QED
    BY <1>2, <2>1
<1>6. CASE Cancel(c, s)
  <2>1. BeginsAs(c, s, "cancel", "cancelling", row[s].status) /\ row[s].status \in {"queued", "running"}
    BY <1>6 DEF Cancel, Begin, BeginsAs, Starts, poolVars
  <2>2. QED
    BY <1>2, <2>1
<1>7. CASE Delete(c, s)
  <2>1. PICK pc : pc = IF row[s].report THEN "deleting" ELSE "dropping"
    OBVIOUS
  <2>2. pc \in {"deleting", "dropping"} /\ row[s].status \in Statuses
    BY <1>7, <2>1 DEF Delete, Exists
  <2>3. BeginsAs(c, s, "delete", pc, row[s].status)
    BY <1>7, <2>1, <2>2 DEF Delete, Begin, BeginsAs, Starts, poolVars
  <2>4. QED
    BY <1>2, <2>2, <2>3
<1>8. QED
  BY <1>1, <1>3, <1>4, <1>5, <1>6, <1>7

LEMMA CallsOKStep ==
  ASSUME PoolInv, CallsOK, Empty, [Next]_vars
  PROVE  CallsOK' /\ Empty'
<1>0. /\ call \in [Callers -> Call \cup {NoCall}] /\ Requests \subseteq Callers /\ Scans \subseteq Callers
      /\ \A c \in Requests : c \notin Scans
  BY CallerAssumption DEF PoolInv, RestType, Callers
<1>1. ASSUME NEW c \in Callers, CallOK(c), call'[c] = call[c], retried \subseteq retried'
      PROVE  CallOK(c)'
  BY <1>1 DEF CallOK
<1>2. ASSUME NEW c \in Requests, BeginCall(c)
      PROVE  CallsOK' /\ Empty'
  <2>1. PICK s \in Scans, op \in Ops \ {"recover"}, pc \in CallPcs, seen \in Statuses :
          BeginsAs(c, s, op, pc, seen)
    BY <1>2, BeginsCall
  <2>2. /\ call'[c] \in Call /\ call'[c].op = op /\ call'[c].scan = s
        /\ call'[c].pc = pc /\ call'[c].seen = seen
        /\ \A d \in Callers : d # c => call'[d] = call[d]
    BY <1>0, <2>1, CallBegins DEF BeginsAs
  <2>3. CallOK(c)'
    BY <1>0, <2>1, <2>2 DEF CallOK, BeginsAs
  <2>4. retried \subseteq retried' /\ phase' = "serving"
    BY <2>1 DEF BeginsAs
  <2>5. \A d \in Callers : d # c => CallOK(d)'
    BY <1>1, <2>2, <2>4 DEF CallsOK
  <2>6. QED
    BY <2>3, <2>4, <2>5 DEF CallsOK, Empty
<1>3. ASSUME NEW s \in Scans, Recover(s)
      PROVE  CallsOK' /\ Empty'
  <2>1. "recover" \in Ops /\ "checking" \in CallPcs /\ "queued" \in Statuses
    BY DEF Ops, CallPcs, Statuses
  <2>2. /\ call'[s] \in Call /\ call'[s].op = "recover" /\ call'[s].scan = s
        /\ call'[s].pc = "checking" /\ call'[s].seen = "queued"
        /\ \A d \in Callers : d # s => call'[d] = call[d]
    BY <1>0, <1>3, <2>1, CallBegins DEF Recover
  <2>3. phase' = "serving" /\ retried' = retried
    BY <1>3 DEF Recover
  <2>4. CallOK(s)'
    BY <2>2 DEF CallOK, Starts
  <2>5. \A d \in Callers : d # s => CallOK(d)'
    BY <1>1, <2>2, <2>3 DEF CallsOK
  <2>6. QED
    BY <2>3, <2>4, <2>5 DEF CallsOK, Empty
<1>4. ASSUME NEW c \in Callers, CallStep(c)
      PROVE  CallsOK' /\ Empty'
  <2>1. /\ call[c] \in Call /\ call[c].scan \in Scans
        /\ \A d \in Callers : d # c => call'[d] = call[d]
        /\ \/ call'[c] = NoCall
           \/ /\ call'[c] \in Call /\ call'[c].op = call[c].op
              /\ call'[c].scan = call[c].scan /\ call'[c].seen = call[c].seen
              /\ call'[c].pc \in {"deciding", "starting"} => call[c].pc \in {"checking", "deciding"}
              /\ call'[c].pc # "checking"
        /\ phase' = phase /\ toRecover' = toRecover /\ retried' = retried
    BY <1>4, CallGoesOn
  <2>2. CallOK(c)'
    BY <2>1, IdleIsNoCall DEF CallsOK, CallOK
  <2>3. \A d \in Callers : d # c => CallOK(d)'
    BY <1>1, <2>1 DEF CallsOK
  <2>4. QED
    BY <2>1, <2>2, <2>3 DEF CallsOK, Empty
<1>5. ASSUME UNCHANGED <<call, retried>>
      PROVE  CallsOK'
  BY <1>1, <1>5 DEF CallsOK
<1>6. ASSUME NEW j \in DOMAIN jobs, JobStep(j)
      PROVE  CallsOK' /\ Empty'
  <2>1. UNCHANGED <<call, retried, phase>>
    BY <1>6 DEF JobStep, CompleteWrite, FailWrite, StoreFile, FinishJob, memoryVars
  <2>2. phase # "booting"
    BY DEF Empty
  <2>3. QED
    BY <1>5, <2>1, <2>2 DEF Empty
<1>7. CASE Serve
  BY <1>5, <1>7 DEF Serve, Empty
<1>8. CASE \E s \in Scans : MarkInterrupted(s)
  BY <1>5, <1>8 DEF MarkInterrupted, Empty, poolVars, memoryVars
<1>9. CASE Crash
  BY <1>9, IdleIsNoCall DEF Crash, CallsOK, CallOK, Empty
<1>10. CASE UNCHANGED vars
  BY <1>5, <1>10 DEF vars, Empty
<1>11. QED
  BY <1>2, <1>3, <1>4, <1>6, <1>7, <1>8, <1>9, <1>10 DEF Next, BootStep

-----------------------------------------------------------------------------
(* One start of a scan *)

Unsettled == {"waiting", "scanning", "failing"}

\* Starting a job: its row becomes running, if there is one; the jobs stay, and so do
\* their states but that of a waiting one.
LEMMA ProcessNextStarts ==
  ASSUME NEW js, NEW st, NEW q, NEW n, Pooled(js, st, q, n), row \in [Scans -> Row],
         ProcessNext(js, st, q, n, row)
  PROVE  /\ jobs' = js /\ DOMAIN jobs' = 1..Len(js) /\ DOMAIN state' = 1..Len(js)
         /\ \A k \in 1..Len(js) :
              \/ state'[k] = st[k]
              \/ /\ st[k] = "waiting" /\ state'[k] \in {"scanning", "failing"}
                 /\ row'[js[k]].status # "queued"
         /\ \A s \in Scans :
              \/ row'[s] = row[s]
              \/ /\ row[s].status \in Statuses /\ row'[s].status = "running"
                 /\ \E k \in 1..Len(js) : js[k] = s /\ st[k] = "waiting"
<1>1. /\ jobs' = js /\ DOMAIN js = 1..Len(js) /\ js \in Seq(Scans)
      /\ st \in Seq(JobStates) /\ DOMAIN st = 1..Len(js)
  BY DEF ProcessNext, Pooled
<1>2. CASE row' = row /\ state' = st
  BY <1>1, <1>2
<1>3. CASE q # <<>> /\ StartHead(js, st, q, n, row)
  <2>1. PICK j, t : j = Head(q) /\ t = js[j]
    OBVIOUS
  <2>2. /\ q \in Seq(Nat) /\ Len(q) <= Len(js)
        /\ \A i \in 1..Len(q) : q[i] = Len(js) - Len(q) + i
        /\ \A k \in 1..Len(js) : st[k] = "waiting" <=> k > Len(js) - Len(q)
    BY DEF Pooled, Ordered
  <2>3. j \in 1..Len(js) /\ st[j] = "waiting" /\ t \in Scans
    BY <1>1, <1>3, <2>1, <2>2
  <2>4. PICK b : b = IF row[t].status \in Statuses THEN "scanning" ELSE "failing"
    OBVIOUS
  <2>5. /\ state' = [st EXCEPT ![j] = b] /\ b \in {"scanning", "failing"}
        /\ row' = IF row[t].status \in Statuses THEN [row EXCEPT ![t].status = "running"] ELSE row
    BY <1>3, <2>1, <2>4 DEF StartHead
  <2>6. DOMAIN state' = 1..Len(js) /\ state'[j] = b
        /\ \A k \in 1..Len(js) : k # j => state'[k] = st[k]
    BY <1>1, <2>3, <2>5
  <2>7. /\ row'[t].status # "queued"
        /\ \/ row'[t] = row[t]
           \/ row[t].status \in Statuses /\ row'[t].status = "running"
        /\ \A s \in Scans : s # t => row'[s] = row[s]
    <3>1. CASE row[t].status \in Statuses
      <4>1. row'[t] = [row[t] EXCEPT !.status = "running"] /\ \A s \in Scans : s # t => row'[s] = row[s]
        BY <2>3, <2>5, <3>1
      <4>2. row[t] \in Row
        BY <2>3
      <4>3. QED
        BY <3>1, <4>1, <4>2 DEF Row
    <3>2. CASE row[t].status \notin Statuses
      BY <2>5, <3>2 DEF Statuses
    <3>3. QED
      BY <3>1, <3>2
  <2>8. QED
    BY <1>1, <2>1, <2>3, <2>5, <2>6, <2>7
<1>4. QED
  BY <1>2, <1>3 DEF ProcessNext

Source(c, s) == call[c] \in Call /\ call[c].scan = s /\ call[c].op \in Starts
HasJob(s) == \E j \in DOMAIN jobs : jobs[j] = s
Unfinished(s) == \E j \in DOMAIN jobs : jobs[j] = s /\ state[j] \in Unsettled
Begins(s) == s \in toRecover \/ \E c \in Callers : Source(c, s)

\* A scan nobody retried is started by one call, or listed for recovery, or has one
\* job, and before the job's completion write its row is not completed.
Once(s) ==
  /\ \A i, j \in DOMAIN jobs : jobs[i] = s /\ jobs[j] = s => i = j
  /\ \A c, d \in Callers : Source(c, s) /\ Source(d, s) => c = d
  /\ \A c \in Callers : Source(c, s) => s \notin toRecover
  /\ Begins(s) => ~HasJob(s)
  /\ Begins(s) \/ HasJob(s) => row[s].status # "absent"
  /\ Begins(s) \/ Unfinished(s) => row[s].status # "completed"

\* A step that starts nothing of s and completes nothing of it.
LEMMA OnceKept ==
  ASSUME NEW s \in Scans, Once(s),
         \A j \in DOMAIN jobs' : jobs'[j] = s =>
            /\ j \in DOMAIN jobs /\ jobs[j] = s
            /\ state'[j] \in Unsettled => state[j] \in Unsettled,
         \A c \in Callers : Source(c, s)' => Source(c, s),
         s \in toRecover' => s \in toRecover,
         row'[s].status = "absent" => row[s].status = "absent",
         row'[s].status = "completed" => row[s].status = "completed"
  PROVE  Once(s)'
<1>1. HasJob(s)' => HasJob(s)
  BY DEF HasJob
<1>2. Unfinished(s)' => Unfinished(s)
  BY DEF Unfinished
<1>3. Begins(s)' => Begins(s)
  BY DEF Begins
<1>4. QED
  BY <1>1, <1>2, <1>3 DEF Once

OnceAll == \A s \in Scans \ retried : Once(s)

StartInv == PoolInv /\ CallsOK /\ Empty /\ OnceAll

LEMMA NotCompleted == ASSUME NEW s \in Scans, NEW e \in Errors, NEW t \in Scans,
                             row \in [Scans -> Row], FailRow(t, e)
  PROVE  /\ row'[s].status = "absent" => row[s].status = "absent"
         /\ row'[s].status = "completed" => row[s].status = "completed"
         /\ row'[s] # row[s] => s = t
         /\ Exists(t) => row'[t].status = "failed" /\ row'[t].error = e
         /\ row'[t].status # "queued"
<1>1. row[s] \in Row /\ row[t] \in Row
  OBVIOUS
<1>2. CASE ~Exists(t)
  BY <1>2 DEF FailRow, Exists, Statuses
<1>3. CASE Exists(t)
  <2>1. row' = [row EXCEPT ![t] = [row[t] EXCEPT !.status = "failed", !.error = e]]
    BY <1>3 DEF FailRow
  <2>2. row'[t].status = "failed" /\ row'[t].error = e /\ (s # t => row'[s] = row[s])
    BY <1>1, <2>1 DEF Row
  <2>3. QED
    BY <2>2
<1>4. QED
  BY <1>2, <1>3

LEMMA OnceBegins ==
  ASSUME StartInv, NEW c \in Requests, BeginCall(c)
  PROVE  OnceAll'
<1>0. row \in [Scans -> Row] /\ c \in Callers /\ PoolInv
  BY DEF StartInv, PoolInv, RestType, Callers
<1>1. PICK t \in Scans, op \in Ops \ {"recover"}, pc \in CallPcs, seen \in Statuses :
        BeginsAs(c, t, op, pc, seen)
  BY BeginsCall
<1>2. /\ call'[c] \in Call /\ call'[c].op = op /\ call'[c].scan = t
      /\ call'[c].pc = pc /\ call'[c].seen = seen
      /\ \A d \in Callers : d # c => call'[d] = call[d]
  BY <1>0, <1>1, CallBegins DEF BeginsAs
<1>3. ASSUME NEW s \in Scans \ retried'
      PROVE  Once(s)'
  <2>1. s \notin retried /\ Once(s)
    BY <1>1, <1>3 DEF BeginsAs, StartInv, OnceAll
  <2>2. CASE s = t /\ op \in Starts
    <3>1. row[s].status = "absent" /\ row'[s] = NewRow
      BY <1>0, <1>1, <2>2 DEF BeginsAs
    <3>2. ~Begins(s) /\ ~HasJob(s)
      BY <2>1, <3>1 DEF Once
    <3>3. ~HasJob(s)' /\ ~Unfinished(s)'
      BY <1>1, <3>2 DEF BeginsAs, HasJob, Unfinished
    <3>4. s \notin toRecover' /\ \A d \in Callers : Source(d, s)' => d = c
      BY <1>1, <1>2, <3>2 DEF BeginsAs, Begins, Source
    <3>5. QED
      BY <3>1, <3>3, <3>4 DEF Once, NewRow, HasJob
  <2>3. CASE ~(s = t /\ op \in Starts)
    <3>1. row'[s] = row[s]
      BY <1>0, <1>1, <2>3 DEF BeginsAs
    <3>2. \A d \in Callers : Source(d, s)' => Source(d, s)
      BY <1>2, <2>3 DEF Source
    <3>3. QED
      BY <1>1, <2>1, <3>1, <3>2, OnceKept DEF BeginsAs
  <2>4. QED
    BY <2>2, <2>3
<1>4. QED
  BY <1>3 DEF OnceAll

\* A listed row becomes a call of recovery.
LEMMA OnceRecovers ==
  ASSUME StartInv, NEW t \in Scans, Recover(t)
  PROVE  OnceAll'
<1>0. PoolInv /\ t \in Callers
  BY DEF StartInv, Callers
<1>1. "recover" \in Ops /\ "checking" \in CallPcs /\ "queued" \in Statuses
  BY DEF Ops, CallPcs, Statuses
<1>2. /\ call'[t] \in Call /\ call'[t].op = "recover" /\ call'[t].scan = t
      /\ call'[t].pc = "checking" /\ call'[t].seen = "queued"
      /\ \A d \in Callers : d # t => call'[d] = call[d]
  BY <1>0, <1>1, CallBegins DEF Recover
<1>3. /\ t \in toRecover /\ toRecover' = toRecover \ {t} /\ retried' = retried
      /\ row' = row /\ jobs' = jobs /\ state' = state
  BY DEF Recover, poolVars
<1>4. ASSUME NEW s \in Scans \ retried'
      PROVE  Once(s)'
  <2>1. Once(s)
    BY <1>3, <1>4 DEF StartInv, OnceAll
  <2>2. CASE s = t
    <3>1. \A d \in Callers : Source(d, s)' => d = t
      BY <1>2, <1>3, <2>1, <2>2 DEF Once, Source
    <3>2. Begins(s) /\ ~HasJob(s) /\ row[s].status \notin {"absent", "completed"}
      BY <1>3, <2>1, <2>2 DEF Once, Begins
    <3>3. ~HasJob(s)' /\ ~Unfinished(s)'
      BY <1>3, <3>2 DEF HasJob, Unfinished
    <3>4. QED
      BY <1>3, <2>2, <3>1, <3>2, <3>3 DEF Once, HasJob
  <2>3. CASE s # t
    <3>1. \A d \in Callers : Source(d, s)' => Source(d, s)
      BY <1>2, <2>3 DEF Source
    <3>2. QED
      BY <1>3, <2>1, <3>1, OnceKept
  <2>4. QED
    BY <2>2, <2>3
<1>5. QED
  BY <1>4 DEF OnceAll

\* What a call that starts nothing does to its row. It gives up what it was to start
\* only with a write that takes the row off queued, or when recovery defers it.
LEMMA CallWrites ==
  ASSUME PoolInv, CallsOK, NEW c \in Callers, CallStep(c), ~StartScan(c), NEW s \in Scans
  PROVE  /\ jobs' = jobs /\ state' = state /\ deferred \subseteq deferred'
         /\ row'[s] # row[s] => s = call[c].scan
         /\ row'[s].status = "absent" => row[s].status = "absent"
         /\ row'[s].status = "completed" => row[s].status = "completed"
         /\ row'[s].status = "queued" => row[s].status = "queued" \/ Starter(c, s)'
         /\ row[s].status = "completed" /\ row'[s].status # "completed" =>
              \/ row'[s].status = "deleted" \/ row'[s].error = "cancelled"
              \/ call[c].scan = s /\ call[c].op \in Starts \cup {"retry"}
         /\ Starter(c, s) /\ row'[s].status = "queued" => Starter(c, s)' \/ s \in deferred'
<1>0. /\ row \in [Scans -> Row] /\ row[s] \in Row
      /\ call \in [Callers -> Call \cup {NoCall}] /\ CallOK(c)
  BY DEF PoolInv, RestType, CallsOK
<1>1. PICK t : t = call[c].scan
  OBVIOUS
<1>2. /\ call[c] \in Call /\ t \in Scans /\ call[c] # NoCall
      /\ \/ call'[c] = NoCall
         \/ /\ call'[c] \in Call /\ call'[c].op = call[c].op
            /\ call'[c].scan = t /\ call'[c].seen = call[c].seen
  BY <1>1, CallGoesOn, IdleIsNoCall
<1>3. jobs' = jobs /\ state' = state /\ deferred \subseteq deferred'
  BY DEF CallStep, LookedUp, LookupThrew, Defer, Refuse, Requeue, CancelWrite, Unlink,
     UnlinkFails, DropRow, poolVars, memoryVars
<1>4. ASSUME NEW v \in Verdicts, LookedUp(c, v)
      PROVE  row' = row /\ (Starter(c, s) /\ row[s].status = "queued" => Starter(c, s)')
  <2>1. row' = row /\ At(c, "checking")
    BY <1>4 DEF LookedUp
  <2>2. CASE row[t].status # call[c].seen
    BY <1>0, <1>1, <1>2, <2>1, <2>2 DEF Starter, At, CallOK
  <2>3. CASE row[t].status = call[c].seen
    <3>1. call' = [call EXCEPT ![c] = [call[c] EXCEPT !.pc = "deciding", !.verdict = v]]
      BY <1>0, <1>1, <1>4, <2>3 DEF LookedUp
    <3>2. call'[c] = [call[c] EXCEPT !.pc = "deciding", !.verdict = v]
      BY <1>0, <3>1
    <3>3. /\ call'[c].pc = "deciding" /\ call'[c].op = call[c].op /\ call'[c].scan = t
          /\ call'[c] # NoCall
      BY <1>1, <1>2, <3>2 DEF Call, NoCall
    <3>4. QED
      BY <1>1, <2>1, <3>3 DEF Starter, At
  <2>4. QED
    BY <2>2, <2>3
<1>5. CASE LookupThrew(c) \/ Refuse(c)
  <2>1. At(c, "checking") \/ At(c, "deciding")
    BY <1>5 DEF LookupThrew, Refuse
  <2>2. call[c].op \in Starts \cup {"retry"}
    BY <1>0, <1>2, <2>1 DEF CallOK, At
  <2>3. "not_started" \in Errors
    BY DEF Errors
  <2>4. CASE row' = row /\ LookupThrew(c) /\ call[c].op = "retry"
    BY <1>1, <1>3, <2>4 DEF LookupThrew, Starter, At
  <2>5. CASE FailRow(t, "not_started")
    BY <1>0, <1>1, <1>2, <1>3, <2>2, <2>3, <2>5, NotCompleted DEF Starter
  <2>6. QED
    BY <1>1, <1>5, <2>4, <2>5 DEF LookupThrew, Refuse
<1>6. CASE CancelWrite(c)
  <2>1. "cancelled" \in Errors /\ FailRow(t, "cancelled") /\ At(c, "cancelling")
    BY <1>1, <1>6 DEF CancelWrite, Errors
  <2>2. row[s].status = "completed" /\ s = t => Exists(t)
    BY DEF Exists, Statuses
  <2>3. QED
    BY <1>0, <1>1, <1>2, <1>3, <2>1, <2>2, NotCompleted DEF Starter, At
<1>7. CASE Defer(c)
  BY <1>1, <1>3, <1>7 DEF Defer, Starter
<1>8. CASE Requeue(c)
  <2>1. At(c, "deciding") /\ call[c].op \in Starts \cup {"retry"}
    BY <1>0, <1>2, <1>8 DEF Requeue, CallOK, At
  <2>2. CASE Exists(t)
    <3>1. /\ row' = [row EXCEPT ![t] = [row[t] EXCEPT !.status = "queued", !.error = "none"]]
          /\ call' = [call EXCEPT ![c] = [call[c] EXCEPT !.pc = "starting"]]
      BY <1>0, <1>1, <1>8, <2>2 DEF Requeue
    <3>2. row'[t].status = "queued" /\ (s # t => row'[s] = row[s])
      BY <1>0, <1>2, <3>1 DEF Row
    <3>3. call'[c] = [call[c] EXCEPT !.pc = "starting"]
      BY <1>0, <3>1
    <3>4. call'[c].pc = "starting" /\ call'[c].scan = t /\ call'[c] # NoCall
      BY <1>1, <1>2, <3>3 DEF Call, NoCall
    <3>5. Starter(c, t)'
      BY <3>4 DEF Starter, At
    <3>6. QED
      BY <1>1, <1>3, <2>1, <3>2, <3>5 DEF Starter
  <2>3. CASE ~Exists(t)
    BY <1>1, <1>3, <1>8, <2>3 DEF Requeue, Starter, Exists, Statuses
  <2>4. QED
    BY <2>2, <2>3
<1>9. CASE DropRow(c)
  <2>1. row' = [row EXCEPT ![t] = [row[t] EXCEPT !.status = "deleted"]] /\ At(c, "dropping")
    BY <1>0, <1>1, <1>9 DEF DropRow
  <2>2. row'[t].status = "deleted" /\ (s # t => row'[s] = row[s])
    BY <1>0, <1>2, <2>1 DEF Row
  <2>3. QED
    BY <1>1, <1>3, <2>1, <2>2 DEF Starter, At
<1>10. CASE Unlink(c) \/ UnlinkFails(c)
  <2>1. row' = row /\ At(c, "deleting")
    BY <1>10 DEF Unlink, UnlinkFails
  <2>2. QED
    BY <1>1, <1>3, <2>1 DEF Starter, At
<1>11. CASE \E v \in Verdicts : LookedUp(c, v)
  BY <1>1, <1>3, <1>4, <1>11
<1>12. QED
  BY <1>5, <1>6, <1>7, <1>8, <1>9, <1>10, <1>11 DEF CallStep

\* Calls that go on or end bring no source.
LEMMA SourcesStay ==
  ASSUME PoolInv, NEW c \in Callers, CallStep(c), NEW s \in Scans
  PROVE  \A d \in Callers : Source(d, s)' => Source(d, s)
  BY CallGoesOn, IdleIsNoCall DEF Source

\* The jobs when a call has pushed its own, before the next one is started.
LEMMA Pushed ==
  ASSUME PoolInv, NEW c \in Callers, StartScan(c)
  PROVE  LET t  == call[c].scan
             js == Append(jobs, t)
             st == Append(state, "waiting")
             q  == Append(queue, Len(jobs) + 1)
         IN  /\ t \in Scans /\ call[c] \in Call
             /\ Pooled(js, st, q, running) /\ ProcessNext(js, st, q, running, row)
             /\ Len(js) = Len(jobs) + 1 /\ DOMAIN jobs = 1..Len(jobs) /\ Len(jobs) \in Nat
             /\ js[Len(js)] = t /\ st[Len(js)] = "waiting"
             /\ \A k \in 1..Len(jobs) : js[k] = jobs[k] /\ st[k] = state[k]
<1>1. PoolShape /\ RestType /\ jobs \in Seq(Scans) /\ state \in Seq(JobStates) /\ Len(state) = Len(jobs)
  BY DEF PoolInv, PoolShape, PoolTypeOK
<1>2. call[c].scan \in Scans /\ call[c] \in Call
  BY <1>1, CallerScan DEF StartScan, CallPcs
<1>3. QED
  BY <1>1, <1>2, PushPooled DEF StartScan, Enqueue

LEMMA OnceStarts ==
  ASSUME StartInv, NEW c \in Callers, StartScan(c)
  PROVE  OnceAll'
<1>0. PoolInv /\ row \in [Scans -> Row] /\ CallOK(c) /\ call \in [Callers -> Call \cup {NoCall}]
  BY DEF StartInv, PoolInv, RestType, CallsOK
<1>1. PICK t, js, st, q :
        /\ t = call[c].scan /\ js = Append(jobs, t) /\ st = Append(state, "waiting")
        /\ q = Append(queue, Len(jobs) + 1)
  OBVIOUS
<1>2. /\ t \in Scans /\ call[c] \in Call
      /\ Pooled(js, st, q, running) /\ ProcessNext(js, st, q, running, row)
      /\ Len(js) = Len(jobs) + 1 /\ DOMAIN jobs = 1..Len(jobs) /\ Len(jobs) \in Nat
      /\ js[Len(js)] = t /\ st[Len(js)] = "waiting"
      /\ \A k \in 1..Len(jobs) : js[k] = jobs[k] /\ st[k] = state[k]
  BY <1>0, <1>1, Pushed
<1>3. /\ jobs' = js /\ DOMAIN jobs' = 1..Len(js)
      /\ \A k \in 1..Len(js) : state'[k] = st[k] \/ st[k] = "waiting"
      /\ \A s \in Scans : row'[s] = row[s] \/ row'[s].status = "running"
  BY <1>0, <1>2, ProcessNextStarts
<1>4. CallStep(c) /\ call'[c] = NoCall /\ retried' = retried /\ toRecover' = toRecover
      /\ call[c].op \in Starts \cup {"retry"} /\ (call[c].op = "retry" => t \in retried)
  BY <1>0, <1>1, <1>2 DEF CallStep, StartScan, Close, memoryVars, CallOK, At
<1>5. \A s \in Scans : \A d \in Callers : Source(d, s)' => Source(d, s)
  BY <1>0, <1>4, SourcesStay
<1>6. ASSUME NEW s \in Scans \ retried'
      PROVE  Once(s)'
  <2>1. Once(s) /\ s \notin retried
    BY <1>4, <1>6 DEF StartInv, OnceAll
  <2>2. CASE s = t
    <3>1. Source(c, s)
      BY <1>1, <1>2, <1>4, <2>1, <2>2 DEF Source
    <3>2. /\ s \notin toRecover /\ ~HasJob(s)
          /\ row[s].status \notin {"absent", "completed"}
          /\ \A d \in Callers : Source(d, s) => d = c
      BY <2>1, <3>1 DEF Once, Begins
    <3>3. ~Source(c, s)'
      BY <1>4, IdleIsNoCall DEF Source
    <3>4. \A j \in DOMAIN jobs' : jobs'[j] = s => j = Len(js)
      BY <1>2, <1>3, <3>2 DEF HasJob
    <3>5. row'[s].status \notin {"absent", "completed"}
      BY <1>3, <3>2
    <3>6. ~Begins(s)'
      BY <1>4, <1>5, <3>2, <3>3 DEF Begins
    <3>7. QED
      BY <3>4, <3>5, <3>6 DEF Once, Begins
  <2>3. CASE s # t
    <3>1. \A j \in DOMAIN jobs' : jobs'[j] = s =>
            /\ j \in DOMAIN jobs /\ jobs[j] = s
            /\ state'[j] \in Unsettled => state[j] \in Unsettled
      BY <1>2, <1>3, <2>3 DEF Unsettled
    <3>2. /\ row'[s].status = "absent" => row[s].status = "absent"
          /\ row'[s].status = "completed" => row[s].status = "completed"
      BY <1>3
    <3>3. QED
      BY <1>4, <1>5, <2>1, <3>1, <3>2, OnceKept
  <2>4. QED
    BY <2>2, <2>3
<1>7. QED
  BY <1>6 DEF OnceAll

LEMMA OnceCalls ==
  ASSUME StartInv, NEW c \in Callers, CallStep(c)
  PROVE  OnceAll'
<1>1. PoolInv /\ CallsOK
  BY DEF StartInv
<1>2. CASE ~StartScan(c)
  <2>1. ASSUME NEW s \in Scans \ retried'
        PROVE  Once(s)'
    <3>1. retried' = retried /\ toRecover' = toRecover
      BY <1>1, CallGoesOn
    <3>2. Once(s)
      BY <2>1, <3>1 DEF StartInv, OnceAll
    <3>3. \A d \in Callers : Source(d, s)' => Source(d, s)
      BY <1>1, SourcesStay
    <3>4. /\ jobs' = jobs /\ state' = state
          /\ row'[s].status = "absent" => row[s].status = "absent"
          /\ row'[s].status = "completed" => row[s].status = "completed"
      BY <1>1, <1>2, CallWrites
    <3>5. QED
      BY <3>1, <3>2, <3>3, <3>4, OnceKept
  <2>2. QED
    BY <2>1 DEF OnceAll
<1>3. QED
  BY <1>2, OnceStarts

\* What a job does to the rows and the jobs' states.
LEMMA JobWrites ==
  ASSUME PoolInv, NEW j \in DOMAIN jobs, JobStep(j), NEW s \in Scans
  PROVE  /\ jobs' = jobs
         /\ UNCHANGED <<call, toRecover, deferred, retried, phase>>
         /\ row'[s].status = "absent" => row[s].status = "absent"
         /\ row'[s].status = "queued" => row[s].status = "queued"
         /\ row'[s].status = "completed" =>
              \/ row[s].status = "completed"
              \/ jobs[j] = s /\ state[j] \in Unsettled /\ state'[j] \notin Unsettled
         /\ \A k \in DOMAIN jobs :
              /\ state'[k] \in Unsettled => state[k] \in Unsettled
              /\ state[k] = "waiting" => state'[k] = "waiting" \/ row'[jobs[k]].status # "queued"
              /\ k # j => state'[k] = state[k] \/ state[k] = "waiting"
         /\ row[s].status = "completed" /\ row'[s].status # "completed" =>
              \E k \in DOMAIN jobs : jobs[k] = s /\ state[k] \in Unsettled
<1>0. /\ row \in [Scans -> Row] /\ PoolShape /\ row[s] \in Row
      /\ jobs \in Seq(Scans) /\ state \in Seq(JobStates) /\ Len(state) = Len(jobs)
      /\ jobs[j] \in Scans /\ DOMAIN jobs = 1..Len(jobs) /\ DOMAIN state = 1..Len(jobs)
      /\ j \in 1..Len(jobs)
  BY DEF PoolInv, RestType, PoolShape, PoolTypeOK
<1>1. UNCHANGED <<call, toRecover, deferred, retried, phase>> /\ jobs' = jobs
  BY DEF JobStep, CompleteWrite, FailWrite, StoreFile, FinishJob, memoryVars, Advance, ProcessNext
<1>2. ASSUME NEW b \in JobStates \ {"waiting"}, state[j] # "waiting",
             state' = [state EXCEPT ![j] = b], b \in Unsettled => state[j] \in Unsettled
      PROVE  /\ state'[j] = b
             /\ \A k \in DOMAIN jobs :
                  /\ state'[k] \in Unsettled => state[k] \in Unsettled
                  /\ state[k] = "waiting" => state'[k] = "waiting"
                  /\ k # j => state'[k] = state[k]
  BY <1>0, <1>2 DEF Unsettled
<1>3. CASE CompleteWrite(j) /\ Exists(jobs[j])
  <2>1. /\ row' = [row EXCEPT ![jobs[j]] = [row[jobs[j]] EXCEPT !.status = "completed", !.report = TRUE]]
        /\ state[j] = "scanning" /\ state' = [state EXCEPT ![j] = "storing"]
    BY <1>0, <1>3 DEF CompleteWrite, Advance, JobAt
  <2>2. row'[jobs[j]].status = "completed" /\ (s # jobs[j] => row'[s] = row[s])
    BY <1>0, <2>1 DEF Row
  <2>3. /\ "storing" \in JobStates \ {"waiting"} /\ "storing" \notin Unsettled
        /\ "scanning" \in Unsettled
    BY DEF JobStates, InPool, Unsettled
  <2>4. /\ state'[j] = "storing"
        /\ \A k \in DOMAIN jobs :
             /\ state'[k] \in Unsettled => state[k] \in Unsettled
             /\ state[k] = "waiting" => state'[k] = "waiting"
             /\ k # j => state'[k] = state[k]
    BY <1>2, <2>1, <2>3
  <2>5. QED
    BY <1>1, <2>1, <2>2, <2>3, <2>4
<1>4. CASE CompleteWrite(j) /\ ~Exists(jobs[j])
  <2>1. row' = row /\ state[j] = "scanning" /\ state' = [state EXCEPT ![j] = "failing"]
    BY <1>4 DEF CompleteWrite, Advance, JobAt
  <2>2. "failing" \in JobStates \ {"waiting"} /\ state[j] \in Unsettled
    BY <2>1 DEF JobStates, InPool, Unsettled
  <2>3. QED
    BY <1>1, <1>2, <2>1, <2>2
<1>5. CASE FailWrite(j)
  <2>1. FailRow(jobs[j], "scan_error") /\ state[j] \in {"scanning", "failing"}
        /\ \E b \in {"failed", "threw"} : state' = [state EXCEPT ![j] = b]
    BY <1>5 DEF FailWrite, Advance, JobAt
  <2>2. /\ {"failed", "threw"} \subseteq JobStates \ {"waiting"} /\ state[j] \in Unsettled
        /\ "scan_error" \in Errors
    BY <2>1 DEF JobStates, InPool, Endings, Unsettled, Errors
  <2>3. \A k \in DOMAIN jobs :
          /\ state'[k] \in Unsettled => state[k] \in Unsettled
          /\ state[k] = "waiting" => state'[k] = "waiting"
          /\ k # j => state'[k] = state[k]
    BY <1>2, <2>1, <2>2
  <2>4. /\ row'[s].status = "absent" => row[s].status = "absent"
        /\ row'[s].status = "completed" => row[s].status = "completed"
        /\ row'[s] # row[s] => s = jobs[j]
        /\ row'[jobs[j]].status # "queued"
    BY <1>0, <2>1, <2>2, NotCompleted
  <2>5. QED
    BY <1>1, <2>2, <2>3, <2>4
<1>6. CASE StoreFile(j)
  <2>1. row' = row /\ state[j] = "storing" /\ state' = [state EXCEPT ![j] = "succeeded"]
    BY <1>6 DEF StoreFile, Advance, JobAt
  <2>2. "succeeded" \in JobStates \ {"waiting"} /\ "succeeded" \notin Unsettled
    BY DEF JobStates, InPool, Endings, Unsettled
  <2>3. QED
    BY <1>1, <1>2, <2>1, <2>2
<1>7. CASE FinishJob(j)
  <2>1. PICK st : st = [state EXCEPT ![j] = "done"]
    OBVIOUS
  <2>2. ProcessNext(jobs, st, queue, running - 1, row) /\ state[j] \in Endings
    BY <1>7, <2>1 DEF FinishJob, Ended
  <2>3. Pooled(jobs, st, queue, running - 1)
    BY <1>0, <2>1, <2>2, FinishPooled
  <2>4. /\ \A k \in 1..Len(jobs) :
              \/ state'[k] = st[k]
              \/ /\ st[k] = "waiting" /\ state'[k] \in {"scanning", "failing"}
                 /\ row'[jobs[k]].status # "queued"
        /\ \/ row'[s] = row[s]
           \/ /\ row[s].status \in Statuses /\ row'[s].status = "running"
              /\ \E k \in 1..Len(jobs) : jobs[k] = s /\ st[k] = "waiting"
    BY <1>0, <2>2, <2>3, ProcessNextStarts
  <2>5. st[j] = "done" /\ \A k \in 1..Len(jobs) : k # j => st[k] = state[k]
    BY <1>0, <2>1
  <2>6. state[j] \notin {"waiting", "scanning", "failing"}
    BY <2>2 DEF Endings
  <2>7. \A k \in DOMAIN jobs :
          /\ state'[k] \in Unsettled => state[k] \in Unsettled
          /\ state[k] = "waiting" => state'[k] = "waiting" \/ row'[jobs[k]].status # "queued"
          /\ k # j => state'[k] = state[k] \/ state[k] = "waiting"
    BY <1>0, <2>4, <2>5, <2>6 DEF Unsettled
  <2>8. row'[s] # row[s] =>
          /\ row'[s].status = "running"
          /\ \E k \in DOMAIN jobs : jobs[k] = s /\ state[k] \in Unsettled
    BY <1>0, <2>4, <2>5 DEF Unsettled
  <2>9. QED
    BY <1>1, <2>7, <2>8
<1>8. QED
  BY <1>3, <1>4, <1>5, <1>6, <1>7 DEF JobStep

LEMMA OnceJobs ==
  ASSUME StartInv, NEW j \in DOMAIN jobs, JobStep(j)
  PROVE  OnceAll'
<1>1. ASSUME NEW s \in Scans \ retried'
      PROVE  Once(s)'
  <2>1. /\ jobs' = jobs /\ call' = call /\ toRecover' = toRecover /\ retried' = retried
        /\ row'[s].status = "absent" => row[s].status = "absent"
        /\ row'[s].status = "completed" =>
             \/ row[s].status = "completed"
             \/ jobs[j] = s /\ state'[j] \notin Unsettled
        /\ \A k \in DOMAIN jobs : state'[k] \in Unsettled => state[k] \in Unsettled
    BY <1>1, JobWrites DEF StartInv
  <2>2. Once(s)
    BY <1>1, <2>1 DEF StartInv, OnceAll
  <2>3. \A c \in Callers : Source(c, s)' <=> Source(c, s)
    BY <2>1 DEF Source
  <2>4. CASE row'[s].status = "completed" => row[s].status = "completed"
    BY <2>1, <2>2, <2>3, <2>4, OnceKept
  <2>5. CASE jobs[j] = s /\ state'[j] \notin Unsettled
    <3>1. HasJob(s) /\ ~Begins(s)
      BY <2>2, <2>5 DEF HasJob, Once
    <3>2. ~Begins(s)'
      BY <2>1, <2>3, <3>1 DEF Begins
    <3>3. ~Unfinished(s)'
      BY <2>1, <2>2, <2>5 DEF Unfinished, Once
    <3>4. row'[s].status # "absent"
      BY <2>1, <2>2, <3>1 DEF Once
    <3>5. QED
      BY <2>1, <2>2, <3>2, <3>3, <3>4 DEF Once, Begins
  <2>6. QED
    BY <2>1, <2>4, <2>5
<1>2. QED
  BY <1>1 DEF OnceAll

\* Before it serves, a process has started nothing.
LEMMA OnceAfresh ==
  ASSUME StartInv, Serve \/ Crash
  PROVE  OnceAll'
<1>1. ASSUME NEW s \in Scans \ retried'
      PROVE  Once(s)'
  <2>1. jobs' = <<>> /\ \A c \in Callers : call'[c] \notin Call
    BY IdleIsNoCall DEF Serve, Crash, StartInv, Empty, poolVars
  <2>2. s \in toRecover' => row'[s].status = "queued"
    BY DEF Serve, Crash
  <2>3. ~HasJob(s)' /\ ~Unfinished(s)' /\ \A c \in Callers : ~Source(c, s)'
    BY <2>1 DEF HasJob, Unfinished, Source
  <2>4. QED
    BY <2>1, <2>2, <2>3 DEF Once, Begins
<1>2. QED
  BY <1>1 DEF OnceAll

LEMMA OnceIdle ==
  ASSUME StartInv,
         jobs' = jobs, state' = state, call' = call, toRecover' = toRecover, retried' = retried,
         \A s \in Scans : /\ row'[s].status = "absent" => row[s].status = "absent"
                          /\ row'[s].status = "completed" => row[s].status = "completed"
  PROVE  OnceAll'
<1>1. ASSUME NEW s \in Scans \ retried
      PROVE  Once(s)'
  <2>1. Once(s) /\ \A c \in Callers : Source(c, s)' <=> Source(c, s)
    BY <1>1 DEF StartInv, OnceAll, Source
  <2>2. QED
    BY <1>1, <2>1, OnceKept
<1>2. QED
  BY <1>1 DEF OnceAll

LEMMA OnceStep ==
  ASSUME StartInv, [Next]_vars
  PROVE  OnceAll'
<1>1. ASSUME NEW t \in Scans, MarkInterrupted(t)
      PROVE  OnceAll'
  <2>1. FailRow(t, "interrupted") /\ row \in [Scans -> Row] /\ "interrupted" \in Errors
    BY <1>1 DEF MarkInterrupted, StartInv, PoolInv, RestType, Errors
  <2>2. \A s \in Scans : /\ row'[s].status = "absent" => row[s].status = "absent"
                         /\ row'[s].status = "completed" => row[s].status = "completed"
    BY <2>1, NotCompleted
  <2>3. /\ jobs' = jobs /\ state' = state /\ call' = call
        /\ toRecover' = toRecover /\ retried' = retried
    BY <1>1 DEF MarkInterrupted, poolVars, memoryVars
  <2>4. QED
    BY <2>2, <2>3, OnceIdle
<1>2. CASE UNCHANGED vars
  <2>1. /\ jobs' = jobs /\ state' = state /\ call' = call /\ row' = row
        /\ toRecover' = toRecover /\ retried' = retried
    BY <1>2 DEF vars
  <2>2. QED
    BY <2>1, OnceIdle
<1>3. CASE \E c \in Requests : BeginCall(c)
  BY <1>3, OnceBegins
<1>4. CASE \E s \in Scans : Recover(s)
  BY <1>4, OnceRecovers
<1>5. CASE \E c \in Callers : CallStep(c)
  BY <1>5, OnceCalls
<1>6. CASE \E j \in DOMAIN jobs : JobStep(j)
  BY <1>6, OnceJobs
<1>7. CASE BootStep \/ Crash
  BY <1>1, <1>7, OnceAfresh DEF BootStep
<1>8. QED
  BY <1>2, <1>3, <1>4, <1>5, <1>6, <1>7 DEF Next

LEMMA StartInvStep == StartInv /\ [Next]_vars => StartInv'
  BY NextInv, CallsOKStep, OnceStep DEF StartInv

\* Between one crash and the next, a scan that no user retried is being started by at
\* most one call, or is listed for recovery, or has one job, and nothing of these
\* is there still once its row is completed but the end of the run.
THEOREM StartsOnce == Spec => []StartInv
<1>1. Init => StartInv
  <2> SUFFICES ASSUME Init
               PROVE  StartInv
    OBVIOUS
  <2>1. PoolInv
    BY InitInv
  <2>2. CallsOK /\ Empty
    BY IdleIsNoCall DEF Init, CallsOK, CallOK, Empty
  <2>3. \A s \in Scans : ~HasJob(s) /\ ~Unfinished(s) /\ ~Begins(s)
    BY IdleIsNoCall DEF Init, HasJob, Unfinished, Begins, Source
  <2>4. OnceAll
    BY <2>3, IdleIsNoCall DEF Init, OnceAll, Once, HasJob, Begins
  <2>5. QED
    BY <2>1, <2>2, <2>4 DEF StartInv
<1>2. QED
  BY <1>1, StartInvStep, PTL DEF Spec

\* Only a user's retry gives a scan a second job in a process: creation,
\* the schedule tick and recovery together enqueue at most one.
THEOREM OverlapIsARetry == Spec => []OverlapNeedsRetry
<1>1. StartInv => OverlapNeedsRetry
  BY DEF StartInv, PoolInv, PoolShape, PoolTypeOK, OnceAll, Once, OverlapNeedsRetry
<1>2. QED
  BY <1>1, StartsOnce, PTL

-----------------------------------------------------------------------------
(* Completed rows *)

LEMMA CompletionStays ==
  ASSUME StartInv, Next, NEW s \in Scans,
         row[s].status = "completed", row'[s].status # "completed", s \notin retried
  PROVE  row'[s].status = "deleted" \/ row'[s].error = "cancelled"
<1>0. PoolInv /\ CallsOK /\ row \in [Scans -> Row] /\ Once(s)
  BY DEF StartInv, PoolInv, RestType, OnceAll
<1>1. ~Unfinished(s) /\ \A c \in Callers : ~Source(c, s)
  BY <1>0 DEF Once, Begins
<1>2. ASSUME NEW c \in Callers, CallStep(c), call[c].scan = s, call[c].op \in Starts \cup {"retry"}
      PROVE  FALSE
  <2>1. call[c] \in Call
    BY <1>0, <1>2, CallGoesOn
  <2>2. QED
    BY <1>0, <1>1, <1>2, <2>1 DEF CallsOK, CallOK, Source
<1>3. ASSUME NEW c \in Requests, BeginCall(c)
      PROVE  FALSE
  <2>1. PICK t \in Scans : \/ row[t].status = "absent" /\ row' = [row EXCEPT ![t] = NewRow]
                           \/ row' = row
    BY <1>3, BeginsCall DEF BeginsAs
  <2>2. QED
    BY <1>0, <2>1
<1>4. ASSUME NEW c \in Callers, StartScan(c)
      PROVE  FALSE
  <2>1. PICK t, js, st, q :
          /\ t = call[c].scan /\ js = Append(jobs, t) /\ st = Append(state, "waiting")
          /\ q = Append(queue, Len(jobs) + 1)
    OBVIOUS
  <2>2. /\ Pooled(js, st, q, running) /\ ProcessNext(js, st, q, running, row)
        /\ Len(js) = Len(jobs) + 1 /\ DOMAIN jobs = 1..Len(jobs) /\ Len(jobs) \in Nat
        /\ js[Len(js)] = t
        /\ \A k \in 1..Len(jobs) : js[k] = jobs[k] /\ st[k] = state[k]
    BY <1>0, <1>4, <2>1, Pushed
  <2>3. PICK k \in 1..Len(js) : js[k] = s /\ st[k] = "waiting"
    BY <1>0, <2>2, ProcessNextStarts
  <2>4. k \notin 1..Len(jobs)
    BY <1>1, <2>2, <2>3 DEF Unfinished, Unsettled
  <2>5. k = Len(js) /\ t = s
    BY <2>2, <2>3, <2>4
  <2>6. CallStep(c) /\ call[c].op \in Starts \cup {"retry"}
    <3>1. CallStep(c) /\ At(c, "starting")
      BY <1>4 DEF CallStep, StartScan
    <3>2. QED
      BY <1>0, <3>1, CallGoesOn DEF CallsOK, CallOK, At
  <2>7. QED
    BY <1>2, <2>1, <2>5, <2>6
<1>5. ASSUME NEW c \in Callers, CallStep(c), ~StartScan(c)
      PROVE  row'[s].status = "deleted" \/ row'[s].error = "cancelled"
  BY <1>0, <1>2, <1>5, CallWrites
<1>6. ASSUME NEW j \in DOMAIN jobs, JobStep(j)
      PROVE  FALSE
  BY <1>0, <1>1, <1>6, JobWrites DEF Unfinished
<1>7. ASSUME NEW t \in Scans, MarkInterrupted(t)
      PROVE  FALSE
  <2>1. s # t /\ FailRow(t, "interrupted") /\ "interrupted" \in Errors
    BY <1>7 DEF MarkInterrupted, Errors
  <2>2. QED
    BY <1>0, <2>1, NotCompleted
<1>8. CASE Serve \/ Crash \/ \E t \in Scans : Recover(t)
  BY <1>8 DEF Serve, Crash, Recover
<1>9. QED
  BY <1>3, <1>4, <1>5, <1>6, <1>7, <1>8 DEF Next, BootStep

\* Nothing but a delete, a cancel or a user's retry undoes a completion.
THEOREM CompletionIsKept == Spec => CompletionUndoneOnlyByUser
<1>1. StartInv /\ [Next]_vars =>
        [\A s \in Scans :
           row[s].status = "completed" /\ row'[s].status # "completed" =>
             \/ row'[s].status = "deleted"
             \/ row'[s].error = "cancelled"
             \/ s \in retried]_vars
  BY CompletionStays
<1>2. QED
  BY <1>1, StartsOnce, PTL DEF Spec, CompletionUndoneOnlyByUser

-----------------------------------------------------------------------------
(* Queued rows *)

Waits(s) == \E j \in DOMAIN jobs : jobs[j] = s /\ state[j] = "waiting"
Covered(s) == Waits(s) \/ (\E c \in Callers : Starter(c, s)) \/ s \in toRecover \cup deferred

\* A step that takes no cover of s away.
LEMMA CoverKept ==
  ASSUME NEW s \in Scans, Covered(s), jobs' = jobs,
         \A j \in DOMAIN jobs : jobs[j] = s /\ state[j] = "waiting" => state'[j] = "waiting",
         \A c \in Callers : Starter(c, s) => Starter(c, s)' \/ s \in deferred',
         s \in toRecover => s \in toRecover' \/ \E c \in Callers : Starter(c, s)',
         s \in deferred => s \in deferred'
  PROVE  Covered(s)'
<1>1. Waits(s) => Waits(s)'
  BY DEF Waits
<1>2. QED
  BY <1>1 DEF Covered

LEMMA StepCovers ==
  ASSUME PoolInv, CallsOK, Empty, QueuedRowIsCovered, [Next]_vars, NEW s \in Scans,
         phase' = "serving", row'[s].status = "queued"
  PROVE  Covered(s)'
<1>0. /\ row \in [Scans -> Row] /\ call \in [Callers -> Call \cup {NoCall}]
      /\ Requests \subseteq Callers /\ Scans \subseteq Callers
  BY DEF PoolInv, RestType, Callers
<1>1. phase = "serving" /\ row[s].status = "queued" => Covered(s)
  BY DEF QueuedRowIsCovered, Covered, Waits
<1>2. ASSUME NEW c \in Requests, BeginCall(c)
      PROVE  Covered(s)'
  <2>1. PICK t \in Scans, op \in Ops \ {"recover"}, pc \in CallPcs, seen \in Statuses :
          BeginsAs(c, t, op, pc, seen)
    BY <1>2, BeginsCall
  <2>2. /\ call'[c] \in Call /\ call'[c].op = op /\ call'[c].scan = t
        /\ call'[c].pc = pc /\ call'[c].seen = seen
        /\ \A d \in Callers : d # c => call'[d] = call[d]
    BY <1>0, <2>1, CallBegins DEF BeginsAs
  <2>3. CASE s = t /\ op \in Starts
    <3>1. \/ op = "schedule" /\ pc = "checking"
          \/ op = "initiate" /\ pc = "starting"
      BY <2>1, <2>3 DEF BeginsAs, Starts
    <3>2. Starter(c, s)'
      BY <2>2, <2>3, <3>1, IdleIsNoCall DEF Starter, At
    <3>3. QED
      BY <1>0, <3>2 DEF Covered
  <2>4. CASE ~(s = t /\ op \in Starts)
    <3>1. row'[s] = row[s] /\ Covered(s)
      BY <1>0, <1>1, <2>1, <2>4 DEF BeginsAs
    <3>2. call[c] = NoCall /\ deferred' = deferred
      BY <1>2 DEF BeginCall, Initiate, Schedule, Retry, Cancel, Delete, Begin
    <3>3. \A d \in Callers : Starter(d, s) => Starter(d, s)'
      BY <2>2, <3>2 DEF Starter, At
    <3>4. QED
      BY <2>1, <3>1, <3>2, <3>3, CoverKept DEF BeginsAs
  <2>5. QED
    BY <2>3, <2>4
<1>3. ASSUME NEW t \in Scans, Recover(t)
      PROVE  Covered(s)'
  <2>1. "recover" \in Ops /\ "checking" \in CallPcs /\ "queued" \in Statuses
    BY DEF Ops, CallPcs, Statuses
  <2>2. /\ call'[t] \in Call /\ call'[t].op = "recover" /\ call'[t].scan = t
        /\ call'[t].pc = "checking" /\ call'[t].seen = "queued"
        /\ \A d \in Callers : d # t => call'[d] = call[d]
    BY <1>0, <1>3, <2>1, CallBegins DEF Recover
  <2>3. Starter(t, t)'
    BY <2>2, IdleIsNoCall DEF Starter, At
  <2>4. Starter(t, s) => s = t
    BY <1>0 DEF Starter, CallsOK, CallOK
  <2>5. \A d \in Callers : Starter(d, s) => Starter(d, s)'
    BY <2>2, <2>3, <2>4 DEF Starter, At
  <2>6. /\ jobs' = jobs /\ state' = state /\ deferred' = deferred /\ row' = row
        /\ toRecover' = toRecover \ {t} /\ phase = "serving"
    BY <1>3 DEF Recover, poolVars
  <2>7. s \in toRecover => s \in toRecover' \/ \E c \in Callers : Starter(c, s)'
    BY <1>0, <2>3, <2>6
  <2>8. QED
    BY <1>1, <2>5, <2>6, <2>7, CoverKept
<1>4. ASSUME NEW c \in Callers, CallStep(c), ~StartScan(c)
      PROVE  Covered(s)'
  <2>1. /\ jobs' = jobs /\ state' = state /\ deferred \subseteq deferred'
        /\ row[s].status = "queued" \/ Starter(c, s)'
        /\ Starter(c, s) => Starter(c, s)' \/ s \in deferred'
    BY <1>4, CallWrites
  <2>2. /\ phase' = phase /\ toRecover' = toRecover
        /\ \A d \in Callers : d # c => call'[d] = call[d]
    BY <1>4, CallGoesOn
  <2>3. \A d \in Callers : Starter(d, s) => Starter(d, s)' \/ s \in deferred'
    BY <2>1, <2>2 DEF Starter, At
  <2>4. CASE Starter(c, s)'
    BY <2>4 DEF Covered
  <2>5. CASE row[s].status = "queued"
    BY <1>1, <2>1, <2>2, <2>3, <2>5, CoverKept
  <2>6. QED
    BY <2>1, <2>4, <2>5
<1>5. ASSUME NEW c \in Callers, StartScan(c)
      PROVE  Covered(s)'
  <2>1. PICK t, js, st, q :
          /\ t = call[c].scan /\ js = Append(jobs, t) /\ st = Append(state, "waiting")
          /\ q = Append(queue, Len(jobs) + 1)
    OBVIOUS
  <2>2. /\ Pooled(js, st, q, running) /\ ProcessNext(js, st, q, running, row)
        /\ Len(js) = Len(jobs) + 1 /\ DOMAIN jobs = 1..Len(jobs) /\ Len(jobs) \in Nat
        /\ js[Len(js)] = t /\ st[Len(js)] = "waiting"
        /\ \A k \in 1..Len(jobs) : js[k] = jobs[k] /\ st[k] = state[k]
    BY <1>5, <2>1, Pushed
  <2>3. /\ jobs' = js /\ DOMAIN jobs' = 1..Len(js)
        /\ \A k \in 1..Len(js) : state'[k] = st[k] \/ row'[js[k]].status # "queued"
        /\ row'[s] = row[s] \/ row'[s].status = "running"
    BY <1>0, <2>2, ProcessNextStarts
  <2>4. \A k \in 1..Len(js) : js[k] = s /\ st[k] = "waiting" => Waits(s)'
    BY <2>3 DEF Waits
  <2>5. CASE s = t
    BY <2>2, <2>4, <2>5 DEF Covered
  <2>6. CASE s # t
    <3>1. CallStep(c)
      BY <1>5 DEF CallStep
    <3>2. /\ phase' = phase /\ toRecover' = toRecover /\ deferred' = deferred
          /\ \A d \in Callers : d # c => call'[d] = call[d]
      BY <1>5, <3>1, CallGoesOn DEF StartScan, memoryVars
    <3>3. Covered(s)
      BY <1>1, <2>3, <3>2
    <3>4. CASE Waits(s)
      BY <2>2, <2>4, <3>4 DEF Waits, Covered
    <3>5. CASE \E d \in Callers : Starter(d, s)
      <4>1. PICK d \in Callers : Starter(d, s)
        BY <3>5
      <4>2. d # c
        BY <2>1, <2>6, <4>1 DEF Starter
      <4>3. Starter(d, s)'
        BY <3>2, <4>1, <4>2 DEF Starter, At
      <4>4. QED
        BY <4>3 DEF Covered
    <3>6. CASE s \in toRecover \cup deferred
      BY <3>2, <3>6 DEF Covered
    <3>7. QED
      BY <3>3, <3>4, <3>5, <3>6 DEF Covered
  <2>7. QED
    BY <2>5, <2>6
<1>6. ASSUME NEW j \in DOMAIN jobs, JobStep(j)
      PROVE  Covered(s)'
  <2>1. /\ jobs' = jobs /\ call' = call /\ toRecover' = toRecover /\ deferred' = deferred
        /\ phase' = phase /\ row[s].status = "queued"
        /\ \A k \in DOMAIN jobs :
             state[k] = "waiting" => state'[k] = "waiting" \/ row'[jobs[k]].status # "queued"
    BY <1>6, JobWrites
  <2>2. \A c \in Callers : Starter(c, s) => Starter(c, s)'
    BY <2>1 DEF Starter, At
  <2>3. QED
    BY <1>1, <2>1, <2>2, CoverKept
<1>7. CASE BootStep \/ Crash
  <2>1. CASE Serve
    BY <2>1 DEF Serve, Covered
  <2>2. CASE Crash \/ \E t \in Scans : MarkInterrupted(t)
    BY <2>2 DEF Crash, MarkInterrupted, memoryVars
  <2>3. QED
    BY <1>7, <2>1, <2>2 DEF BootStep
<1>8. CASE UNCHANGED vars
  <2>1. /\ jobs' = jobs /\ state' = state /\ call' = call /\ row' = row /\ phase' = phase
        /\ toRecover' = toRecover /\ deferred' = deferred
    BY <1>8 DEF vars
  <2>2. \A c \in Callers : Starter(c, s) => Starter(c, s)'
    BY <2>1 DEF Starter, At
  <2>3. QED
    BY <1>1, <2>1, <2>2, CoverKept
<1>9. QED
  BY <1>2, <1>3, <1>4, <1>5, <1>6, <1>7, <1>8 DEF Next

\* A queued row has something that will start it or settle it, through every order of
\* retries, cancels, refusals, deletes, recovery and the ends of runs.
THEOREM QueuedRowsAreCovered == Spec => []QueuedRowIsCovered
<1>1. Init => QueuedRowIsCovered
  BY DEF Init, QueuedRowIsCovered
<1>2. StartInv /\ QueuedRowIsCovered /\ [Next]_vars => QueuedRowIsCovered'
  BY StepCovers DEF StartInv, QueuedRowIsCovered, Covered, Waits
<1>3. QED
  BY <1>1, <1>2, StartsOnce, PTL DEF Spec
=============================================================================

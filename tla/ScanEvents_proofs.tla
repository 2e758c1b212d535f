------------------------- MODULE ScanEvents_proofs -------------------------
(***************************************************************************)
(* Theorems about ScanEvents for every set of scans, requests and clients: *)
(* the streams leave the lifecycle as it is, and what they tell is what    *)
(* the rows hold.                                                          *)
(***************************************************************************)
EXTENDS ScanEvents, ScanLifecycle_proofs

-----------------------------------------------------------------------------
(* The rows behind the outcomes *)

\* What a row may hold once a run of its scan has settled it.
Completion(s) == row[s].status \in {"completed", "deleted"} \/ row[s].error = "cancelled"
Failure(s)    == row[s].status \in {"failed", "deleted"}

\* A run that is to tell how it ended has its outcome in the row of a scan nobody retried.
Stored(j) ==
  jobs[j] \notin retried =>
    /\ state[j] \in {"storing", "succeeded"} => Completion(jobs[j])
    /\ state[j] = "failed" => Failure(jobs[j])

OutcomeStored == \A j \in DOMAIN jobs : Stored(j)

OutcomeInv == StartInv /\ OutcomeStored

\* A step of a job moves that job on, with what it writes, or starts a waiting one; it
\* changes no row but of a scan that has a job still to settle.
LEMMA JobAdvances ==
  ASSUME PoolInv, NEW j \in DOMAIN jobs, JobStep(j)
  PROVE  /\ \A s \in Scans : row'[s] # row[s] =>
              \E m \in DOMAIN jobs : jobs[m] = s /\ state[m] \in Unsettled
         /\ \A m \in DOMAIN jobs : m # j \/ state[j] = "waiting" =>
              state'[m] = state[m] \/ state'[m] \in {"scanning", "failing"}
         /\ \/ state'[j] \in {"scanning", "failing", "threw", "done"}
            \/ state'[j] = "storing" /\ row'[jobs[j]].status = "completed"
            \/ state'[j] = "failed" /\ row'[jobs[j]].status = "failed"
            \/ state[j] = "storing" /\ state'[j] = "succeeded" /\ row' = row
<1>0. /\ row \in [Scans -> Row] /\ PoolShape
      /\ jobs \in Seq(Scans) /\ state \in Seq(JobStates) /\ Len(state) = Len(jobs)
      /\ jobs[j] \in Scans /\ DOMAIN jobs = 1..Len(jobs) /\ DOMAIN state = 1..Len(jobs)
      /\ j \in 1..Len(jobs) /\ row[jobs[j]] \in Row
  BY DEF PoolInv, RestType, PoolShape, PoolTypeOK
<1>1. ASSUME NEW b, state' = [state EXCEPT ![j] = b]
      PROVE  state'[j] = b /\ \A m \in DOMAIN jobs : m # j => state'[m] = state[m]
  BY <1>0, <1>1
<1>2. CASE CompleteWrite(j)
  <2>1. state[j] = "scanning" /\ state[j] \in Unsettled
    BY <1>2 DEF CompleteWrite, JobAt, Unsettled
  <2>2. CASE Exists(jobs[j])
    <3>1. /\ row' = [row EXCEPT ![jobs[j]] = [row[jobs[j]] EXCEPT !.status = "completed", !.report = TRUE]]
          /\ state' = [state EXCEPT ![j] = "storing"]
      BY <1>0, <1>2, <2>2 DEF CompleteWrite, Advance
    <3>2. /\ row'[jobs[j]].status = "completed"
          /\ \A s \in Scans : s # jobs[j] => row'[s] = row[s]
      BY <1>0, <3>1 DEF Row
    <3>3. QED
      BY <1>1, <2>1, <3>1, <3>2
  <2>3. CASE ~Exists(jobs[j])
    <3>1. row' = row /\ state' = [state EXCEPT ![j] = "failing"]
      BY <1>2, <2>3 DEF CompleteWrite, Advance
    <3>2. QED
      BY <1>1, <2>1, <3>1
  <2>4. QED
    BY <2>2, <2>3
<1>3. CASE FailWrite(j)
  <2>1. /\ state[j] \in {"scanning", "failing"} /\ FailRow(jobs[j], "scan_error")
        /\ state' = [state EXCEPT ![j] = IF Exists(jobs[j]) THEN "failed" ELSE "threw"]
        /\ state[j] \in Unsettled /\ "scan_error" \in Errors
    BY <1>3 DEF FailWrite, Advance, JobAt, Unsettled, Errors
  <2>2. \A s \in Scans : row'[s] # row[s] => s = jobs[j]
    BY <1>0, <2>1, NotCompleted
  <2>3. Exists(jobs[j]) => row'[jobs[j]].status = "failed"
    BY <1>0, <2>1, NotCompleted
  <2>4. /\ state'[j] = IF Exists(jobs[j]) THEN "failed" ELSE "threw"
        /\ \A m \in DOMAIN jobs : m # j => state'[m] = state[m]
    BY <1>1, <2>1
  <2>5. QED
    BY <2>1, <2>2, <2>3, <2>4
<1>4. CASE StoreFile(j)
  <2>1. row' = row /\ state[j] = "storing" /\ state' = [state EXCEPT ![j] = "succeeded"]
    BY <1>4 DEF StoreFile, Advance, JobAt
  <2>2. QED
    BY <1>1, <2>1
<1>5. CASE FinishJob(j)
  <2>1. PICK st : st = [state EXCEPT ![j] = "done"]
    OBVIOUS
  <2>2. ProcessNext(jobs, st, queue, running - 1, row) /\ state[j] \in Endings
    BY <1>5, <2>1 DEF FinishJob, Ended
  <2>3. Pooled(jobs, st, queue, running - 1)
    BY <1>0, <2>1, <2>2, FinishPooled
  <2>4. /\ \A k \in 1..Len(jobs) :
              \/ state'[k] = st[k]
              \/ st[k] = "waiting" /\ state'[k] \in {"scanning", "failing"}
        /\ \A s \in Scans :
              \/ row'[s] = row[s]
              \/ \E k \in 1..Len(jobs) : jobs[k] = s /\ st[k] = "waiting"
    BY <1>0, <2>2, <2>3, ProcessNextStarts
  <2>5. st[j] = "done" /\ \A k \in 1..Len(jobs) : k # j => st[k] = state[k]
    BY <1>0, <2>1
  <2>6. state[j] # "waiting"
    BY <2>2 DEF Endings
  <2>7. \A s \in Scans : row'[s] # row[s] =>
          \E m \in DOMAIN jobs : jobs[m] = s /\ state[m] \in Unsettled
    BY <1>0, <2>4, <2>5 DEF Unsettled
  <2>8. QED
    BY <1>0, <2>4, <2>5, <2>6, <2>7
<1>6. QED
  BY <1>2, <1>3, <1>4, <1>5 DEF JobStep

\* A call that is not about to start its scan writes a cancel, a delete or nothing.
LEMMA UserCallWrites ==
  ASSUME PoolInv, CallsOK, NEW c \in Callers, CallStep(c), NEW s \in Scans,
         call[c].op \notin Starts \cup {"retry"}
  PROVE  \/ row'[s] = row[s]
         \/ row'[s].status = "deleted"
         \/ row'[s].status = "failed" /\ row'[s].error = "cancelled"
<1>0. /\ row \in [Scans -> Row] /\ row[s] \in Row /\ CallOK(c)
      /\ call[c] \in Call /\ call[c].scan \in Scans
  BY CallGoesOn DEF PoolInv, RestType, CallsOK
<1>1. ~At(c, "checking") /\ ~At(c, "deciding") /\ ~At(c, "starting")
  BY <1>0 DEF CallOK, At
<1>2. CASE CancelWrite(c)
  <2>1. FailRow(call[c].scan, "cancelled") /\ "cancelled" \in Errors
    BY <1>2 DEF CancelWrite, Errors
  <2>2. ~Exists(call[c].scan) => row' = row
    BY <2>1 DEF FailRow
  <2>3. QED
    BY <1>0, <2>1, <2>2, NotCompleted
<1>3. CASE DropRow(c)
  <2>1. row' = [row EXCEPT ![call[c].scan] = [row[call[c].scan] EXCEPT !.status = "deleted"]]
    BY <1>0, <1>3 DEF DropRow
  <2>2. row'[call[c].scan].status = "deleted" /\ (s # call[c].scan => row'[s] = row[s])
    BY <1>0, <2>1 DEF Row
  <2>3. QED
    BY <2>2
<1>4. CASE Unlink(c) \/ UnlinkFails(c)
  BY <1>4 DEF Unlink, UnlinkFails
<1>5. QED
  BY <1>1, <1>2, <1>3, <1>4 DEF CallStep, LookedUp, LookupThrew, Defer, Refuse, Requeue, StartScan

\* A process forgets no retry.
LEMMA RetriedGrows ==
  ASSUME StartInv, Next, ~Crash
  PROVE  retried \subseteq retried'
<1>0. PoolInv
  BY DEF StartInv
<1>1. ASSUME NEW c \in Requests, BeginCall(c)
      PROVE  retried \subseteq retried'
  BY <1>1, BeginsCall DEF BeginsAs
<1>2. ASSUME NEW c \in Callers, CallStep(c)
      PROVE  retried' = retried
  BY <1>0, <1>2, CallGoesOn
<1>3. ASSUME NEW j \in DOMAIN jobs, JobStep(j)
      PROVE  retried' = retried
  BY <1>3 DEF JobStep, CompleteWrite, FailWrite, StoreFile, FinishJob, memoryVars
<1>4. ASSUME BootStep \/ \E t \in Scans : Recover(t)
      PROVE  retried' = retried
  BY <1>4 DEF BootStep, Serve, MarkInterrupted, Recover, memoryVars
<1>5. QED
  BY <1>1, <1>2, <1>3, <1>4 DEF Next

\* The row of a scan nobody retried stays what its settled run made it, but for a
\* delete or a cancel of a user: its one start is behind it.
LEMMA SettledRowStays ==
  ASSUME StartInv, Next, ~Crash, NEW s \in Scans \ retried', NEW j \in DOMAIN jobs,
         jobs[j] = s, state[j] \notin Unsettled
  PROVE  \/ row'[s] = row[s]
         \/ row'[s].status = "deleted"
         \/ row'[s].status = "failed" /\ row'[s].error = "cancelled"
<1>0. PoolInv /\ CallsOK /\ row \in [Scans -> Row] /\ phase = "serving"
  BY DEF StartInv, PoolInv, RestType, PoolShape, TypeOK, Empty
<1>1. s \notin retried
  BY RetriedGrows
<1>2. Once(s) /\ HasJob(s) /\ ~Unfinished(s) /\ \A c \in Callers : ~Source(c, s)
  <2>1. Once(s) /\ HasJob(s)
    BY <1>1 DEF StartInv, OnceAll, HasJob
  <2>2. ~Unfinished(s)
    BY <2>1 DEF Once, Unfinished
  <2>3. QED
    BY <2>1, <2>2 DEF Once, Begins
<1>3. ASSUME NEW c \in Callers, CallStep(c), call[c].scan = s
      PROVE  call[c].op \notin Starts \cup {"retry"}
  BY <1>0, <1>1, <1>2, <1>3, CallGoesOn DEF CallsOK, CallOK, Source
<1>4. ASSUME NEW c \in Requests, BeginCall(c)
      PROVE  row'[s] = row[s]
  <2>1. PICK t \in Scans : \/ row[t].status = "absent" /\ row' = [row EXCEPT ![t] = NewRow]
                           \/ row' = row
    BY <1>4, BeginsCall DEF BeginsAs
  <2>2. row[s].status # "absent"
    BY <1>2 DEF Once
  <2>3. QED
    BY <1>0, <2>1, <2>2
<1>5. ASSUME NEW c \in Callers, StartScan(c)
      PROVE  row'[s] = row[s]
  <2>1. PICK t, js, st, q :
          /\ t = call[c].scan /\ js = Append(jobs, t) /\ st = Append(state, "waiting")
          /\ q = Append(queue, Len(jobs) + 1)
    OBVIOUS
  <2>2. /\ Pooled(js, st, q, running) /\ ProcessNext(js, st, q, running, row)
        /\ Len(js) = Len(jobs) + 1 /\ DOMAIN jobs = 1..Len(jobs) /\ Len(jobs) \in Nat
        /\ js[Len(js)] = t
        /\ \A k \in 1..Len(jobs) : js[k] = jobs[k] /\ st[k] = state[k]
    BY <1>0, <1>5, <2>1, Pushed
  <2>3. CallStep(c) /\ At(c, "starting") /\ call[c] \in Call /\ CallOK(c)
    BY <1>0, <1>5, CallGoesOn DEF CallStep, StartScan, CallsOK
  <2>4. t # s
    BY <1>3, <2>1, <2>3 DEF CallOK, At
  <2>5. ASSUME NEW k \in 1..Len(js), js[k] = s, st[k] = "waiting"
        PROVE  FALSE
    BY <1>2, <2>2, <2>4, <2>5 DEF Unfinished, Unsettled
  <2>6. QED
    BY <1>0, <2>2, <2>5, ProcessNextStarts
<1>6. ASSUME NEW c \in Callers, CallStep(c), ~StartScan(c), call[c].scan # s
      PROVE  row'[s] = row[s]
  BY <1>0, <1>6, CallWrites
<1>7. ASSUME NEW c \in Callers, CallStep(c), call[c].scan = s
      PROVE  \/ row'[s] = row[s]
             \/ row'[s].status = "deleted"
             \/ row'[s].status = "failed" /\ row'[s].error = "cancelled"
  BY <1>0, <1>3, <1>7, UserCallWrites
<1>8. ASSUME NEW m \in DOMAIN jobs, JobStep(m)
      PROVE  row'[s] = row[s]
  BY <1>0, <1>2, <1>8, JobAdvances DEF Unfinished
<1>9. ASSUME BootStep \/ \E t \in Scans : Recover(t)
      PROVE  row'[s] = row[s]
  BY <1>0, <1>9 DEF BootStep, Serve, MarkInterrupted, Recover
<1>10. QED
  BY <1>4, <1>5, <1>6, <1>7, <1>8, <1>9 DEF Next

\* The jobs keep their scans and places, and a job that a step neither starts nor moves
\* on keeps its state; a job is enqueued waiting or started at once.
LEMMA JobsMoveOn ==
  ASSUME StartInv, Next, ~Crash, NEW k \in DOMAIN jobs'
  PROVE  \/ state'[k] \in {"waiting", "scanning", "failing"}
         \/ k \in DOMAIN jobs /\ jobs'[k] = jobs[k] /\ state'[k] = state[k]
         \/ JobStep(k) /\ k \in DOMAIN jobs /\ jobs'[k] = jobs[k]
<1>0. PoolInv /\ row \in [Scans -> Row]
  BY DEF StartInv, PoolInv, RestType
<1>1. ASSUME NEW c \in Callers, StartScan(c)
      PROVE  \/ state'[k] \in {"waiting", "scanning", "failing"}
             \/ k \in DOMAIN jobs /\ jobs'[k] = jobs[k] /\ state'[k] = state[k]
  <2>1. PICK t, js, st, q :
          /\ t = call[c].scan /\ js = Append(jobs, t) /\ st = Append(state, "waiting")
          /\ q = Append(queue, Len(jobs) + 1)
    OBVIOUS
  <2>2. /\ Pooled(js, st, q, running) /\ ProcessNext(js, st, q, running, row)
        /\ Len(js) = Len(jobs) + 1 /\ DOMAIN jobs = 1..Len(jobs) /\ Len(jobs) \in Nat
        /\ st[Len(js)] = "waiting"
        /\ \A m \in 1..Len(jobs) : js[m] = jobs[m] /\ st[m] = state[m]
    BY <1>0, <1>1, <2>1, Pushed
  <2>3. /\ jobs' = js /\ DOMAIN jobs' = 1..Len(js)
        /\ \A m \in 1..Len(js) : state'[m] = st[m] \/ state'[m] \in {"scanning", "failing"}
    BY <1>0, <2>2, ProcessNextStarts
  <2>4. QED
    BY <2>2, <2>3
<1>2. ASSUME NEW c \in Callers, CallStep(c), ~StartScan(c)
      PROVE  jobs' = jobs /\ state' = state
  BY <1>2 DEF CallStep, LookedUp, LookupThrew, Defer, Refuse, Requeue, CancelWrite, Unlink,
     UnlinkFails, DropRow, poolVars
<1>3. ASSUME NEW c \in Requests, BeginCall(c)
      PROVE  jobs' = jobs /\ state' = state
  BY <1>3, BeginsCall DEF BeginsAs
<1>4. ASSUME BootStep \/ \E t \in Scans : Recover(t)
      PROVE  jobs' = jobs /\ state' = state
  BY <1>4 DEF BootStep, Serve, MarkInterrupted, Recover, poolVars
<1>5. ASSUME NEW j \in DOMAIN jobs, JobStep(j), j # k
      PROVE  \/ state'[k] \in {"scanning", "failing"}
             \/ k \in DOMAIN jobs /\ jobs'[k] = jobs[k] /\ state'[k] = state[k]
  <2>1. jobs' = jobs
    BY <1>5 DEF JobStep, CompleteWrite, FailWrite, StoreFile, FinishJob, Advance, ProcessNext
  <2>2. QED
    BY <1>0, <1>5, <2>1, JobAdvances
<1>6. ASSUME NEW j \in DOMAIN jobs, JobStep(j)
      PROVE  jobs' = jobs
  BY <1>6 DEF JobStep, CompleteWrite, FailWrite, StoreFile, FinishJob, Advance, ProcessNext
<1>7. QED
  BY <1>1, <1>2, <1>3, <1>4, <1>5, <1>6 DEF Next

LEMMA OutcomeStep == OutcomeInv /\ [Next]_vars => OutcomeInv'
<1>1. SUFFICES ASSUME OutcomeInv, [Next]_vars
               PROVE  OutcomeStored'
  BY StartInvStep DEF OutcomeInv
<1>2. CASE UNCHANGED vars
  BY <1>1, <1>2 DEF OutcomeInv, OutcomeStored, Stored, Completion, Failure, vars
<1>3. CASE Crash
  BY <1>3 DEF Crash, OutcomeStored
<1>4. CASE Next /\ ~Crash
  <2>1. SUFFICES ASSUME NEW k \in DOMAIN jobs', NEW s, s = jobs'[k], s \notin retried',
                        state'[k] \notin {"waiting", "scanning", "failing"}
                 PROVE  /\ state'[k] \in {"storing", "succeeded"} =>
                             \/ row'[s].status \in {"completed", "deleted"}
                             \/ row'[s].error = "cancelled"
                        /\ state'[k] = "failed" => row'[s].status \in {"failed", "deleted"}
    BY DEF OutcomeStored, Stored, Completion, Failure
  <2>2. StartInv /\ PoolInv /\ jobs \in Seq(Scans)
    BY <1>1 DEF OutcomeInv, StartInv, PoolInv, PoolShape, PoolTypeOK
  <2>3. k \in DOMAIN jobs /\ jobs[k] = s /\ s \in Scans \ retried'
    BY <1>4, <2>1, <2>2, JobsMoveOn
  <2>4. CASE state'[k] = state[k]
    <3>1. state[k] \notin Unsettled
      BY <2>1, <2>4 DEF Unsettled
    <3>2. \/ row'[s] = row[s]
          \/ row'[s].status = "deleted"
          \/ row'[s].status = "failed" /\ row'[s].error = "cancelled"
      BY <1>4, <2>2, <2>3, <3>1, SettledRowStays
    <3>3. s \notin retried
      BY <1>4, <2>2, <2>3, RetriedGrows
    <3>4. Stored(k)
      BY <1>1, <2>3 DEF OutcomeInv, OutcomeStored
    <3>5. QED
      BY <2>3, <2>4, <3>2, <3>3, <3>4 DEF Stored, Completion, Failure
  <2>5. CASE state'[k] # state[k]
    <3>1. JobStep(k)
      BY <1>4, <2>1, <2>2, <2>5, JobsMoveOn
    <3>2. \/ state'[k] \in {"scanning", "failing", "threw", "done"}
          \/ state'[k] = "storing" /\ row'[s].status = "completed"
          \/ state'[k] = "failed" /\ row'[s].status = "failed"
          \/ state[k] = "storing" /\ state'[k] = "succeeded" /\ row' = row
      BY <2>2, <2>3, <3>1, JobAdvances
    <3>3. s \notin retried
      BY <1>4, <2>2, <2>3, RetriedGrows
    <3>4. Stored(k)
      BY <1>1, <2>3 DEF OutcomeInv, OutcomeStored
    <3>5. QED
      BY <2>1, <2>3, <3>2, <3>3, <3>4 DEF Stored, Completion, Failure
  <2>6. QED
    BY <2>4, <2>5
<1>5. QED
  BY <1>1, <1>2, <1>3, <1>4

\* What a run that has settled is to tell is what the row of its scan holds, between
\* one crash and the next, unless a user retried the scan.
THEOREM OutcomesAreStored == Spec => []OutcomeInv
<1>1. Init => OutcomeStored
  BY DEF Init, OutcomeStored
<1>2. Spec => [](OutcomeStored /\ StartInv)
  <2>1. OutcomeStored /\ StartInv /\ [Next]_vars => OutcomeStored'
    BY OutcomeStep DEF OutcomeInv
  <2>2. QED
    BY <1>1, <2>1, StartsOnce, PTL DEF Spec
<1>3. OutcomeStored /\ StartInv => OutcomeInv
  BY DEF OutcomeInv
<1>4. QED
  BY <1>2, <1>3, PTL

-----------------------------------------------------------------------------
(* The streams *)

\* What is replayed is progress, and an open stream has been told no outcome yet.
StreamInv ==
  /\ stream \in [Clients -> Stream \cup {NoStream}]
  /\ buffer \in [Scans -> SUBSET {"scan_start"}]
  /\ \A k \in Clients : stream[k].pc \in {"looking", "open"} => stream[k].told \subseteq {"scan_start"}

LEMMA EventsStepIsAStep == [EventsNext]_allVars => [Next]_vars
<1>1. UNCHANGED allVars => UNCHANGED vars
  BY DEF allVars
<1>2. ASSUME EventsNext
      PROVE  [Next]_vars
  BY <1>2 DEF EventsNext, EmittingCallStep, EmittingJobStep, Announce, Connect, Respond,
     Disconnect, Next
<1>3. QED
  BY <1>1, <1>2

\* The streams only watch: every behaviour of the system with its streams is one of the
\* lifecycle, so what is proved of scans and pool holds beside any number of clients.
THEOREM StreamsOnlyWatch == EventsSpec => Spec
<1>1. EventsInit => Init
  BY DEF EventsInit
<1>2. QED
  BY <1>1, EventsStepIsAStep, PTL DEF EventsSpec, Spec

\* What an event of a scan does to the streams: its listeners are told it, and a
\* terminal one ends them.
LEMMA Delivered ==
  ASSUME StreamInv, NEW s, NEW event \in Events, Deliver(s, event), NEW k \in Clients
  PROVE  IF Listening(k, s)
         THEN /\ stream'[k] \in Stream
              /\ stream'[k].told = stream[k].told \cup {event}
              /\ stream'[k].pc = IF event \in Terminal THEN "ended" ELSE "open"
         ELSE stream'[k] = stream[k]
<1>1. stream'[k] = IF Listening(k, s)
                   THEN [stream[k] EXCEPT !.told = stream[k].told \cup {event},
                                          !.pc = IF event \in Terminal THEN "ended" ELSE stream[k].pc]
                   ELSE stream[k]
  BY DEF Deliver
<1>2. CASE Listening(k, s)
  <2>1. stream[k] \in Stream /\ stream[k].pc = "open"
    BY <1>2 DEF Listening, StreamInv, NoStream
  <2>2. stream[k].told \cup {event} \in SUBSET Events
    BY <2>1 DEF Stream
  <2>3. PICK b : b = IF event \in Terminal THEN "ended" ELSE "open"
    OBVIOUS
  <2>4. stream'[k] = [stream[k] EXCEPT !.told = stream[k].told \cup {event}, !.pc = b]
    BY <1>1, <1>2, <2>1, <2>3
  <2>5. b \in {"looking", "open", "ended"}
    BY <2>3
  <2>6. stream'[k] \in Stream /\ stream'[k].told = stream[k].told \cup {event} /\ stream'[k].pc = b
    BY <2>1, <2>2, <2>4, <2>5 DEF Stream
  <2>7. QED
    BY <1>2, <2>3, <2>6
<1>3. QED
  BY <1>1, <1>2

\* No event but an outcome ends a stream, and no outcome leaves one open.
LEMMA DeliverKeeps ==
  ASSUME StreamInv, NEW s, NEW event \in Events, Deliver(s, event), buffer' \in [Scans -> SUBSET {"scan_start"}]
  PROVE  StreamInv'
<1>1. stream' = [k \in Clients |-> stream'[k]]
  BY DEF Deliver
<1>2. ASSUME NEW k \in Clients
      PROVE  /\ stream'[k] \in Stream \cup {NoStream}
             /\ stream'[k].pc \in {"looking", "open"} => stream'[k].told \subseteq {"scan_start"}
  <2>1. CASE Listening(k, s)
    <3>1. stream'[k] \in Stream /\ stream'[k].told = stream[k].told \cup {event}
          /\ stream'[k].pc = IF event \in Terminal THEN "ended" ELSE "open"
      BY <2>1, Delivered
    <3>2. stream[k].told \subseteq {"scan_start"}
      BY <2>1 DEF Listening, StreamInv
    <3>3. event \in Terminal \/ event = "scan_start"
      BY DEF Events, Terminal
    <3>4. QED
      BY <3>1, <3>2, <3>3
  <2>2. CASE ~Listening(k, s)
    <3>1. stream'[k] = stream[k]
      BY <2>2, Delivered
    <3>2. QED
      BY <3>1 DEF StreamInv
  <2>3. QED
    BY <2>1, <2>2
<1>3. QED
  BY <1>1, <1>2 DEF StreamInv

LEMMA StreamStep == StreamInv /\ [EventsNext]_allVars => StreamInv'
<1>1. SUFFICES ASSUME StreamInv, [EventsNext]_allVars
               PROVE  StreamInv'
  OBVIOUS
<1>2. CASE UNCHANGED <<stream, buffer>>
  BY <1>1, <1>2 DEF StreamInv
<1>3. ASSUME NEW c \in Callers, EmittingCallStep(c)
      PROVE  StreamInv'
  <2>1. CASE BufferedEmit(call[c].scan, "scan_start")
    <3>1. buffer' \in [Scans -> SUBSET {"scan_start"}]
      BY <1>1, <2>1 DEF BufferedEmit, StreamInv
    <3>2. QED
      BY <1>1, <2>1, <3>1, DeliverKeeps DEF BufferedEmit, Events
  <2>2. QED
    BY <1>2, <1>3, <2>1 DEF EmittingCallStep, StartEmits
<1>4. ASSUME NEW j \in DOMAIN jobs, Announce(j) \/ EmittingJobStep(j)
      PROVE  StreamInv'
  <2>1. ASSUME NEW event \in Events, RunEmit(jobs[j], event)
        PROVE  StreamInv'
    <3>1. buffer' \in [Scans -> SUBSET {"scan_start"}]
      BY <1>1, <2>1 DEF RunEmit, StreamInv
    <3>2. QED
      BY <1>1, <2>1, <3>1, DeliverKeeps DEF RunEmit
  <2>2. \/ UNCHANGED <<stream, buffer>>
        \/ \E event \in Events : RunEmit(jobs[j], event)
    BY <1>4 DEF Announce, EmittingJobStep, JobEmits, Events
  <2>3. QED
    BY <1>2, <2>1, <2>2
<1>5. CASE Crash /\ CrashEmits
  <2>1. stream' = [k \in Clients |-> NoStream] /\ buffer' = [s \in Scans |-> {}]
    BY <1>5 DEF CrashEmits
  <2>2. NoStream.pc = "idle"
    BY DEF NoStream
  <2>3. QED
    BY <2>1, <2>2 DEF StreamInv
<1>6. ASSUME NEW k \in Clients, NEW new, stream' = [stream EXCEPT ![k] = new], buffer' = buffer,
             new \in Stream \cup {NoStream},
             new.pc \in {"looking", "open"} => new.told \subseteq {"scan_start"}
      PROVE  StreamInv'
  BY <1>1, <1>6 DEF StreamInv
<1>7. ASSUME NEW k \in Clients, NEW s \in Scans, Connect(k, s)
      PROVE  StreamInv'
  <2>1. PICK new : new = [pc |-> "looking", scan |-> s, seen |-> row[s].status, told |-> {}]
    OBVIOUS
  <2>2. stream' = [stream EXCEPT ![k] = new] /\ buffer' = buffer /\ new \in Stream /\ new.told = {}
    BY <1>7, <2>1 DEF Connect, Exists, Stream
  <2>3. QED
    BY <1>6, <2>2
<1>8. ASSUME NEW k \in Clients, Respond(k)
      PROVE  StreamInv'
  <2>1. PICK b, t :
          /\ b = IF stream[k].seen \in {"completed", "failed"} THEN "ended" ELSE "open"
          /\ t = CASE stream[k].seen = "completed" -> {"complete"}
                   [] stream[k].seen = "failed" -> {"failed"}
                   [] OTHER -> buffer[stream[k].scan]
    OBVIOUS
  <2>2. PICK new : new = [stream[k] EXCEPT !.pc = b, !.told = t]
    OBVIOUS
  <2>3. stream' = [stream EXCEPT ![k] = new] /\ buffer' = buffer
    BY <1>1, <1>8, <2>1, <2>2 DEF Respond, StreamInv
  <2>4. stream[k] \in Stream
    BY <1>1, <1>8 DEF Respond, StreamInv, NoStream
  <2>5. buffer[stream[k].scan] \subseteq {"scan_start"}
    BY <1>1, <2>4 DEF StreamInv, Stream
  <2>6. t \in SUBSET Events /\ b \in {"looking", "open", "ended"}
        /\ (b = "open" => t \subseteq {"scan_start"})
    BY <2>1, <2>5 DEF Events
  <2>7. new \in Stream /\ new.pc = b /\ new.told = t
    BY <2>2, <2>4, <2>6 DEF Stream
  <2>8. b # "looking"
    BY <2>1
  <2>9. QED
    BY <1>6, <2>3, <2>6, <2>7, <2>8
<1>9. ASSUME NEW k \in Clients, Disconnect(k)
      PROVE  StreamInv'
  <2>1. NoStream.pc = "idle" /\ stream' = [stream EXCEPT ![k] = NoStream] /\ buffer' = buffer
    BY <1>9 DEF Disconnect, NoStream
  <2>2. QED
    BY <1>6, <2>1
<1>10. QED
  BY <1>1, <1>2, <1>3, <1>4, <1>5, <1>7, <1>8, <1>9 DEF EventsNext, allVars, streamVars

\* A stream that is still looking or open has been told progress and no outcome: an
\* outcome is the last thing a stream tells.
THEOREM OutcomeComesLast == EventsSpec => []StreamInv
<1>1. EventsInit => StreamInv
  <2>1. NoStream.pc = "idle"
    BY DEF NoStream
  <2>2. QED
    BY <2>1 DEF EventsInit, StreamInv
<1>2. QED
  BY <1>1, StreamStep, PTL DEF EventsSpec

-----------------------------------------------------------------------------
(* What is told is what is stored *)

\* The event a step adds to an open stream: scan_start, or how the run whose wrapper is
\* about to leave it has ended.
LEMMA ToldByAJob ==
  ASSUME StreamInv, EventsNext, NEW k \in Clients, NEW s \in Scans, Listening(k, s),
         NEW event \in Terminal, stream'[k] # NoStream, event \in stream'[k].told
  PROVE  \E j \in DOMAIN jobs :
           /\ jobs[j] = s
           /\ state[j] = IF event = "complete" THEN "succeeded" ELSE "failed"
<1>1. /\ stream \in [Clients -> Stream \cup {NoStream}] /\ stream[k].pc = "open"
      /\ event \notin stream[k].told /\ stream[k] # NoStream
  BY DEF Listening, StreamInv, Terminal, NoStream
<1>2. stream'[k] # stream[k]
  BY <1>1
<1>3. ASSUME NEW t, NEW other \in Events, Deliver(t, other)
      PROVE  other = event /\ t = s
  BY <1>1, <1>2, <1>3, Delivered DEF Listening
<1>4. ASSUME NEW c \in Callers, EmittingCallStep(c)
      PROVE  FALSE
  BY <1>2, <1>3, <1>4 DEF EmittingCallStep, StartEmits, BufferedEmit, Terminal, Events
<1>5. ASSUME NEW j \in DOMAIN jobs, Announce(j)
      PROVE  FALSE
  BY <1>3, <1>5 DEF Announce, RunEmit, Terminal, Events
<1>6. ASSUME NEW j \in DOMAIN jobs, EmittingJobStep(j)
      PROVE  jobs[j] = s /\ state[j] = IF event = "complete" THEN "succeeded" ELSE "failed"
  <2>1. \/ state[j] = "succeeded" /\ Deliver(jobs[j], "complete")
        \/ state[j] = "failed" /\ Deliver(jobs[j], "failed")
    BY <1>2, <1>6 DEF EmittingJobStep, JobEmits, RunEmit
  <2>2. QED
    BY <1>3, <2>1 DEF Events
<1>7. ASSUME NEW l \in Clients, (\E t \in Scans : Connect(l, t)) \/ Respond(l) \/ Disconnect(l)
      PROVE  FALSE
  <2>1. stream[k].pc # "looking"
    BY <1>1
  <2>2. CASE l = k
    BY <1>1, <1>7, <2>1, <2>2 DEF Connect, Respond, Disconnect
  <2>3. CASE l # k
    BY <1>1, <1>2, <1>7, <2>3 DEF Connect, Respond, Disconnect
  <2>4. QED
    BY <2>2, <2>3
<1>8. ~ CrashEmits
  BY DEF CrashEmits
<1>9. stream' # stream
  BY <1>2
<1>10. QED
  BY <1>4, <1>5, <1>6, <1>7, <1>8, <1>9 DEF EventsNext, streamVars

LEMMA StepTellsWhatIsStored ==
  ASSUME OutcomeInv, StreamInv, EventsNext, NEW k \in Clients, NEW s \in Scans, Listening(k, s)
  PROVE  /\ stream'[k] # NoStream /\ "complete" \in stream'[k].told =>
              Completion(s) \/ s \in retried
         /\ stream'[k] # NoStream /\ "failed" \in stream'[k].told =>
              Failure(s) \/ s \in retried
<1>1. {"complete", "failed"} = Terminal
  BY DEF Terminal
<1>2. ASSUME stream'[k] # NoStream, "complete" \in stream'[k].told
      PROVE  Completion(s) \/ s \in retried
  <2>1. PICK j \in DOMAIN jobs : jobs[j] = s /\ state[j] = "succeeded"
    BY <1>1, <1>2, ToldByAJob
  <2>2. QED
    BY <2>1 DEF OutcomeInv, OutcomeStored, Stored
<1>3. ASSUME stream'[k] # NoStream, "failed" \in stream'[k].told
      PROVE  Failure(s) \/ s \in retried
  <2>1. PICK j \in DOMAIN jobs : jobs[j] = s /\ state[j] = "failed"
    BY <1>1, <1>3, ToldByAJob
  <2>2. QED
    BY <2>1 DEF OutcomeInv, OutcomeStored, Stored
<1>4. QED
  BY <1>2, <1>3

\* A stream never reports an outcome that is not stored, whatever else runs, retries,
\* recovers and deletes beside it.
THEOREM StreamsTellWhatIsStored == EventsSpec => OutcomeIsStored
<1> DEFINE Truthful ==
      \A k \in Clients, s \in Scans : Listening(k, s) =>
        /\ Tells(k, "complete")' =>
             \/ row[s].status \in {"completed", "deleted"}
             \/ row[s].error = "cancelled" \/ s \in retried
        /\ Tells(k, "failed")' =>
             \/ row[s].status \in {"failed", "deleted"}
             \/ s \in retried
<1>1. OutcomeInv /\ StreamInv /\ EventsNext => Truthful
  <2>1. SUFFICES ASSUME OutcomeInv, StreamInv, EventsNext,
                        NEW k \in Clients, NEW s \in Scans, Listening(k, s)
                 PROVE  /\ Tells(k, "complete")' =>
                             \/ row[s].status \in {"completed", "deleted"}
                             \/ row[s].error = "cancelled" \/ s \in retried
                        /\ Tells(k, "failed")' =>
                             \/ row[s].status \in {"failed", "deleted"}
                             \/ s \in retried
    OBVIOUS
  <2>2. QED
    BY <2>1, StepTellsWhatIsStored DEF Tells, Completion, Failure
<1>2. OutcomeInv /\ StreamInv /\ [EventsNext]_allVars => [Truthful]_allVars
  BY <1>1
<1>3. QED
  BY <1>2, StreamsOnlyWatch, OutcomesAreStored, OutcomeComesLast, PTL
     DEF EventsSpec, OutcomeIsStored

=============================================================================

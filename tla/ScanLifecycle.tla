--------------------------- MODULE ScanLifecycle ---------------------------
(***************************************************************************)
(* The life of a scan: its row in scan_records, the in-memory pool that    *)
(* runs it, the calls that start, retry, cancel and delete it, and the     *)
(* recovery a new process performs.                                        *)
(*                                                                         *)
(* One action is one synchronous stretch of the program: what the event    *)
(* loop runs between two awaits.  better-sqlite3 is synchronous, so a      *)
(* statement takes effect in the stretch that calls it and only the code   *)
(* after the await runs later, on whatever the rows have become.           *)
(***************************************************************************)
EXTENDS Integers, Sequences, FiniteSets

CONSTANTS
  Scans,          \* scan ids
  Requests,       \* slots for calls of users and of the schedule tick
  MaxConcurrent,  \* size of the pool (OrchestratorOptions.maxConcurrent)
  RecoveryLimit,  \* rows recovery checks at a time (RECOVERY_CONCURRENCY)
  MaxCalls,       \* bound: calls begun in a behaviour
  MaxCrashes      \* bound: crashes in a behaviour

ASSUME PoolAssumption == MaxConcurrent \in Nat \ {0} /\ RecoveryLimit \in Nat \ {0}
ASSUME BoundAssumption == MaxCalls \in Nat /\ MaxCrashes \in Nat
ASSUME CallerAssumption == Scans \cap Requests = {}

VARIABLES
  row,        \* scan_records: status, error and whether a report is stored
  files,      \* scans whose report file is in the reports directory
  jobs,       \* the scan of every job enqueued in this process, in order
  state,      \* how far each of those jobs has come
  queue,      \* ScanQueue.queue: the jobs not started yet
  running,    \* ScanQueue.running: the counter the pool trusts
  call,       \* the calls in progress and what each of them has read
  toRecover,  \* queued rows listed at startup and not yet taken by a worker
  deferred,   \* RecoveryResult.deferred: rows left queued, lookup unavailable
  retried,    \* scans a user has retried in this process (history)
  phase,      \* "booting" until the running rows are marked, then "serving"
  begun,      \* calls begun so far
  crashes     \* crashes so far

poolVars   == <<jobs, state, queue, running>>
boundVars  == <<begun, crashes>>
memoryVars == <<toRecover, deferred, retried, phase>>
vars == <<row, files, jobs, state, queue, running, call, toRecover, deferred,
          retried, phase, begun, crashes>>

-----------------------------------------------------------------------------
(* Rows *)

Statuses == {"queued", "running", "completed", "failed"}
Errors   == {"none", "cancelled", "interrupted", "not_started", "scan_error"}
Row      == [status : Statuses \cup {"absent", "deleted"},
             error  : Errors,
             report : BOOLEAN]

Exists(s) == row[s].status \in Statuses

\* createScan inserts a queued row; ids are fresh, so a deleted id never returns.
NewRow == [status |-> "queued", error |-> "none", report |-> FALSE]

\* Mutant of FailRow: the update is an upsert.
FailRowUpsert(s, e) ==
  row' = [row EXCEPT ![s].status = "failed", ![s].error = e]

\* UPDATE ... SET status = 'failed', error = e: without a row it changes nothing
\* (and updateScan then throws, which each caller handles in its own way).
FailRow(s, e) ==
  row' = IF Exists(s)
         THEN [row EXCEPT ![s].status = "failed", ![s].error = e]
         ELSE row

-----------------------------------------------------------------------------
(* The pool: ScanQueue *)

\* How a run ends: with its report stored, with its row failed, or with a throw out
\* of its own catch (the row is gone); nothing but the wrapper's finally is left then.
Endings   == {"succeeded", "failed", "threw"}
InPool    == {"scanning", "failing", "storing"} \cup Endings
JobStates == InPool \cup {"waiting", "done"}
Active    == {j \in DOMAIN jobs : state[j] \in InPool}

\* Starting the head of the queue q: runScan runs up to its first await, and its
\* first statement marks the row running whatever its status is; without a row the
\* update throws and the job goes on in its catch.  js, st, n and rs are the jobs,
\* their states, the counter and the rows at that point.
StartHead(js, st, q, n, rs) ==
  LET j == Head(q)
      s == js[j]
      present == rs[s].status \in Statuses
  IN  /\ state' = [st EXCEPT ![j] = IF present THEN "scanning" ELSE "failing"]
      /\ row' = IF present THEN [rs EXCEPT ![s].status = "running"] ELSE rs
      /\ queue' = Tail(q)
      /\ running' = n + 1

\* Mutant of ProcessNext: the capacity guard is dropped.
ProcessNextUnbounded(js, st, q, n, rs) ==
  /\ jobs' = js
  /\ \/ q = <<>> /\ state' = st /\ queue' = q /\ running' = n /\ row' = rs
     \/ q # <<>> /\ StartHead(js, st, q, n, rs)

\* processNext: if there is room, shift the head and run it.
ProcessNext(js, st, q, n, rs) ==
  /\ jobs' = js
  /\ \/ /\ n >= MaxConcurrent \/ q = <<>>
        /\ state' = st /\ queue' = q /\ running' = n /\ row' = rs
     \/ /\ n < MaxConcurrent /\ q # <<>>
        /\ StartHead(js, st, q, n, rs)

\* startScan -> ScanQueue.enqueue: push the job, then processNext.
Enqueue(s) ==
  ProcessNext(Append(jobs, s), Append(state, "waiting"),
              Append(queue, Len(jobs) + 1), running, row)

-----------------------------------------------------------------------------
(* Calls.  A recovery worker is identified by the row it handles. *)

Callers  == Requests \cup Scans
Ops      == {"initiate", "schedule", "retry", "cancel", "delete", "recover"}
CallPcs  == {"checking", "deciding", "starting", "cancelling", "deleting", "dropping"}
Verdicts == {"ok", "refused", "transient"}
Call     == [op : Ops, scan : Scans, pc : CallPcs, seen : Statuses, verdict : Verdicts]
NoCall   == [pc |-> "idle"]

Open(op, s, pc, seen) ==
  [op |-> op, scan |-> s, pc |-> pc, seen |-> seen, verdict |-> "ok"]

Close(c) == call' = [call EXCEPT ![c] = NoCall]

At(c, pc) == call[c].pc = pc

Begin(c, op, s, pc, seen) ==
  /\ phase = "serving"
  /\ call[c] = NoCall
  /\ begun < MaxCalls
  /\ begun' = begun + 1
  /\ call' = [call EXCEPT ![c] = Open(op, s, pc, seen)]
  /\ UNCHANGED <<files, poolVars, toRecover, deferred, phase, crashes>>

-----------------------------------------------------------------------------
(* Starting a scan *)

\* initiateScan, once the URL is validated and probed: insert the row; startScan
\* follows in the code after the await.
Initiate(c, s) ==
  /\ row[s].status = "absent"
  /\ row' = [row EXCEPT ![s] = NewRow]
  /\ Begin(c, "initiate", s, "starting", "queued")
  /\ UNCHANGED retried

\* startScheduledScan inserts the row before the stored URL is validated.
Schedule(c, s) ==
  /\ row[s].status = "absent"
  /\ row' = [row EXCEPT ![s] = NewRow]
  /\ Begin(c, "schedule", s, "checking", "queued")
  /\ UNCHANGED retried

\* retryScan: the status is read and judged, then the URL lookup is awaited.
Retry(c, s) ==
  /\ row[s].status \in {"queued", "failed"}
  /\ Begin(c, "retry", s, "checking", row[s].status)
  /\ retried' = retried \cup {s}
  /\ UNCHANGED row

\* Mutant of Recover: the worker leaves the row on the list while it checks it.
RecoverKeepsListed(s) ==
  /\ phase = "serving"
  /\ s \in toRecover
  /\ call[s] = NoCall
  /\ Cardinality({t \in Scans : call[t] # NoCall}) < RecoveryLimit
  /\ call' = [call EXCEPT ![s] = Open("recover", s, "checking", "queued")]
  /\ UNCHANGED <<row, files, poolVars, memoryVars, boundVars>>

\* A recovery worker takes a listed row.
Recover(s) ==
  /\ phase = "serving"
  /\ s \in toRecover
  /\ Cardinality({t \in Scans : call[t] # NoCall}) < RecoveryLimit
  /\ call' = [call EXCEPT ![s] = Open("recover", s, "checking", "queued")]
  /\ toRecover' = toRecover \ {s}
  /\ UNCHANGED <<row, files, poolVars, deferred, retried, phase, boundVars>>

\* validateAndStart: the lookup has answered, the row is read again and the call
\* goes on only if its status is the one read at first.
LookedUp(c, verdict) ==
  /\ At(c, "checking")
  /\ call' = [call EXCEPT ![c] =
                IF row[@.scan].status = @.seen
                THEN [@ EXCEPT !.pc = "deciding", !.verdict = verdict]
                ELSE NoCall]
  /\ UNCHANGED <<row, files, poolVars, memoryVars, boundVars>>

\* The lookup threw.  A retry answers 500 and writes nothing; the schedule tick
\* and recovery fail the row in their catch, without reading it again.
LookupThrew(c) ==
  /\ At(c, "checking")
  /\ IF call[c].op = "retry" THEN UNCHANGED row
                             ELSE FailRow(call[c].scan, "not_started")
  /\ Close(c)
  /\ UNCHANGED <<files, poolVars, memoryVars, boundVars>>

\* Recovery leaves a row queued when the lookup was unavailable.
Defer(c) ==
  /\ At(c, "deciding")
  /\ call[c].op = "recover" /\ call[c].verdict = "transient"
  /\ deferred' = deferred \cup {call[c].scan}
  /\ Close(c)
  /\ UNCHANGED <<row, files, poolVars, toRecover, retried, phase, boundVars>>

\* Every other refusal of the URL fails the row.
Refuse(c) ==
  /\ At(c, "deciding")
  /\ \/ call[c].verdict = "refused"
     \/ call[c].verdict = "transient" /\ call[c].op # "recover"
  /\ FailRow(call[c].scan, "not_started")
  /\ Close(c)
  /\ UNCHANGED <<files, poolVars, memoryVars, boundVars>>

\* The URL passes: the row is queued again and its error cleared; startScan
\* follows the await.  If the row is gone the update throws, the catch of the
\* caller finds nothing to fail either, and nothing starts.
Requeue(c) ==
  /\ At(c, "deciding") /\ call[c].verdict = "ok"
  /\ LET s == call[c].scan
     IN  IF Exists(s)
         THEN /\ row' = [row EXCEPT ![s].status = "queued", ![s].error = "none"]
              /\ call' = [call EXCEPT ![c].pc = "starting"]
         ELSE UNCHANGED row /\ Close(c)
  /\ UNCHANGED <<files, poolVars, memoryVars, boundVars>>

StartScan(c) ==
  /\ At(c, "starting")
  /\ Enqueue(call[c].scan)
  /\ Close(c)
  /\ UNCHANGED <<files, memoryVars, boundVars>>

-----------------------------------------------------------------------------
(* Cancelling and deleting *)

\* cancelScan reads the row and judges its status, then writes after the await.
Cancel(c, s) ==
  /\ row[s].status \in {"queued", "running"}
  /\ Begin(c, "cancel", s, "cancelling", row[s].status)
  /\ UNCHANGED <<row, retried>>

CancelWrite(c) ==
  /\ At(c, "cancelling")
  /\ FailRow(call[c].scan, "cancelled")
  /\ Close(c)
  /\ UNCHANGED <<files, poolVars, memoryVars, boundVars>>

\* A delete reads the row, removes the file the row names (none: goes straight on
\* to the row), then drops the row.  No status is asked for.
Delete(c, s) ==
  /\ Exists(s)
  /\ Begin(c, "delete", s, IF row[s].report THEN "deleting" ELSE "dropping",
           row[s].status)
  /\ UNCHANGED <<row, retried>>

Unlink(c) ==
  /\ At(c, "deleting")
  /\ files' = files \ {call[c].scan}
  /\ call' = [call EXCEPT ![c].pc = "dropping"]
  /\ UNCHANGED <<row, poolVars, memoryVars, boundVars>>

\* A file that cannot be removed keeps the scan (ScanNotDeletedError).
UnlinkFails(c) ==
  /\ At(c, "deleting")
  /\ Close(c)
  /\ UNCHANGED <<row, files, poolVars, memoryVars, boundVars>>

DropRow(c) ==
  /\ At(c, "dropping")
  /\ row' = [row EXCEPT ![call[c].scan].status = "deleted"]
  /\ Close(c)
  /\ UNCHANGED <<files, poolVars, memoryVars, boundVars>>

-----------------------------------------------------------------------------
(* A job: runScan and the wrapper ScanQueue puts around it *)

JobAt(j, st) == j \in DOMAIN jobs /\ state[j] = st
Ended(j)     == j \in DOMAIN jobs /\ state[j] \in Endings

Advance(j, st) == state' = [state EXCEPT ![j] = st] /\ UNCHANGED jobs

\* The scan succeeds: the completion write asks for no status and leaves the error
\* as it is.  If the row is gone the write throws.
CompleteWrite(j) ==
  /\ JobAt(j, "scanning")
  /\ LET s == jobs[j]
     IN  IF Exists(s)
         THEN /\ row' = [row EXCEPT ![s].status = "completed", ![s].report = TRUE]
              /\ Advance(j, "storing")
         ELSE UNCHANGED row /\ Advance(j, "failing")
  /\ UNCHANGED <<files, queue, running, call, memoryVars, boundVars>>

\* Mutant of FailWrite: the catch announces the failure without storing it.
FailWriteForgotten(j) ==
  /\ JobAt(j, "scanning") \/ JobAt(j, "failing")
  /\ Advance(j, "failed")
  /\ UNCHANGED <<row, files, queue, running, call, memoryVars, boundVars>>

\* Something in the try block threw: the catch fails the row, and throws if it is gone.
FailWrite(j) ==
  /\ JobAt(j, "scanning") \/ JobAt(j, "failing")
  /\ FailRow(jobs[j], "scan_error")
  /\ Advance(j, IF Exists(jobs[j]) THEN "failed" ELSE "threw")
  /\ UNCHANGED <<files, queue, running, call, memoryVars, boundVars>>

\* Mutant of StoreFile: a failed file write is not caught where it happens.
StoreFileUncaught(j) ==
  /\ JobAt(j, "storing")
  /\ \/ files' = files \cup {jobs[j]} /\ Advance(j, "succeeded")
     \/ UNCHANGED files /\ Advance(j, "failing")
  /\ UNCHANGED <<row, queue, running, call, memoryVars, boundVars>>

\* The report file is written after the row, best effort.
StoreFile(j) ==
  /\ JobAt(j, "storing")
  /\ files' \in {files, files \cup {jobs[j]}}
  /\ Advance(j, "succeeded")
  /\ UNCHANGED <<row, queue, running, call, memoryVars, boundVars>>

\* Mutants of FinishJob: the slot is given back twice; the next job is not started.
FinishJobTwice(j) ==
  /\ Ended(j)
  /\ ProcessNext(jobs, [state EXCEPT ![j] = "done"], queue, running - 2, row)
  /\ UNCHANGED <<files, call, memoryVars, boundVars>>

FinishJobNoNext(j) ==
  /\ Ended(j)
  /\ Advance(j, "done")
  /\ running' = running - 1
  /\ UNCHANGED <<row, queue, files, call, memoryVars, boundVars>>

\* The wrapper's finally: running--, then processNext.
FinishJob(j) ==
  /\ Ended(j)
  /\ ProcessNext(jobs, [state EXCEPT ![j] = "done"], queue, running - 1, row)
  /\ UNCHANGED <<files, call, memoryVars, boundVars>>

-----------------------------------------------------------------------------
(* Crash and startup *)

\* The process dies: rows and files stay, everything in memory is gone.
Crash ==
  /\ crashes < MaxCrashes
  /\ crashes' = crashes + 1
  /\ phase' = "booting"
  /\ jobs' = <<>> /\ state' = <<>> /\ queue' = <<>> /\ running' = 0
  /\ call' = [c \in Callers |-> NoCall]
  /\ toRecover' = {} /\ deferred' = {} /\ retried' = {}
  /\ UNCHANGED <<row, files, begun>>

\* onReady: the rows left running are failed one by one ...
MarkInterrupted(s) ==
  /\ phase = "booting"
  /\ row[s].status = "running"
  /\ FailRow(s, "interrupted")
  /\ UNCHANGED <<files, poolVars, call, memoryVars, boundVars>>

\* Mutant of Serve: the queued rows are not listed.
ServeWithoutRecovery ==
  /\ phase = "booting"
  /\ \A s \in Scans : row[s].status # "running"
  /\ phase' = "serving"
  /\ UNCHANGED <<row, files, poolVars, call, toRecover, deferred, retried, boundVars>>

\* ... then the queued rows are listed for recovery, which runs beside the server.
Serve ==
  /\ phase = "booting"
  /\ \A s \in Scans : row[s].status # "running"
  /\ phase' = "serving"
  /\ toRecover' = {s \in Scans : row[s].status = "queued"}
  /\ UNCHANGED <<row, files, poolVars, call, deferred, retried, boundVars>>

-----------------------------------------------------------------------------
Init ==
  /\ row = [s \in Scans |-> [status |-> "absent", error |-> "none", report |-> FALSE]]
  /\ files = {}
  /\ jobs = <<>> /\ state = <<>> /\ queue = <<>> /\ running = 0
  /\ call = [c \in Callers |-> NoCall]
  /\ toRecover = {} /\ deferred = {} /\ retried = {}
  /\ phase = "booting"
  /\ begun = 0 /\ crashes = 0

BeginCall(c) ==
  \E s \in Scans : Initiate(c, s) \/ Schedule(c, s) \/ Retry(c, s)
                     \/ Cancel(c, s) \/ Delete(c, s)

CallStep(c) ==
  \/ \E verdict \in Verdicts : LookedUp(c, verdict)
  \/ LookupThrew(c)
  \/ Defer(c) \/ Refuse(c) \/ Requeue(c) \/ StartScan(c)
  \/ CancelWrite(c)
  \/ Unlink(c) \/ UnlinkFails(c) \/ DropRow(c)

JobStep(j) == CompleteWrite(j) \/ FailWrite(j) \/ StoreFile(j) \/ FinishJob(j)

BootStep == Serve \/ \E s \in Scans : MarkInterrupted(s)

Next ==
  \/ \E c \in Requests : BeginCall(c)
  \/ \E s \in Scans : Recover(s)
  \/ \E c \in Callers : CallStep(c)
  \/ \E j \in DOMAIN jobs : JobStep(j)
  \/ BootStep
  \/ Crash

Spec == Init /\ [][Next]_vars

\* Every await ends: lookups and page loads carry timeouts, file and database
\* operations return.  Users and crashes owe nothing.
Fairness ==
  /\ \A c \in Callers : WF_vars(CallStep(c))
  /\ \A j \in 1..(MaxCalls + Cardinality(Scans)) : WF_vars(JobStep(j))
  /\ WF_vars(BootStep)
  /\ \A s \in Scans : WF_vars(Recover(s))

FairSpec == Spec /\ Fairness
-----------------------------------------------------------------------------
(* Properties *)

\* Type invariant.
PoolTypeOK ==
  /\ jobs \in Seq(Scans)
  /\ state \in Seq(JobStates) /\ Len(state) = Len(jobs)
  /\ queue \in Seq(Nat)
  /\ running \in Nat

TypeOK ==
  /\ PoolTypeOK
  /\ row \in [Scans -> Row]
  /\ files \subseteq Scans
  /\ call \in [Callers -> Call \cup {NoCall}]
  /\ toRecover \subseteq Scans /\ deferred \subseteq Scans /\ retried \subseteq Scans
  /\ phase \in {"booting", "serving"}
  /\ begun \in 0..MaxCalls /\ crashes \in 0..MaxCrashes

\* The counter the pool trusts is the number of jobs between their start and their
\* finally, over every way a job can end, and never passes the size of the pool.
PoolAccounting ==
  /\ running = Cardinality(Active)
  /\ running <= MaxConcurrent

\* A job waits only while the pool is full: no interleaving of enqueues and
\* finishes leaves a job in the queue beside a free slot (processNext starts one
\* job per call, so one missed call would strand it).
WorkConserving == queue # <<>> => running = MaxConcurrent

\* The queue holds exactly the jobs enqueued last, in the order they were enqueued:
\* jobs start first come, first served, whoever enqueued them.
ArrivalOrder ==
  /\ Len(queue) <= Len(jobs)
  /\ \A i \in DOMAIN queue : queue[i] = Len(jobs) - Len(queue) + i
  /\ \A j \in DOMAIN jobs :
       state[j] = "waiting" <=> j > Len(jobs) - Len(queue)

\* A row that says running has a run of this process behind it, once the rows the
\* dead process left are marked: no cancel, retry, second run or failure order
\* leaves a row running that nothing will settle.
RunningRowHasRun ==
  phase = "serving" =>
    \A s \in Scans : row[s].status = "running" =>
      \E j \in DOMAIN jobs : jobs[j] = s /\ state[j] = "scanning"

\* A row that says queued has something that will start it or settle it: a waiting
\* job, a call about to enqueue one, a start check of its own still going on, its
\* turn in recovery, or recovery has deferred it.
Starter(c, s) ==
  /\ call[c] # NoCall /\ call[c].scan = s
  /\ \/ At(c, "starting")
     \/ call[c].op \in {"schedule", "recover"} /\ call[c].pc \in {"checking", "deciding"}

QueuedRowIsCovered ==
  phase = "serving" =>
    \A s \in Scans : row[s].status = "queued" =>
      \/ \E j \in DOMAIN jobs : jobs[j] = s /\ state[j] = "waiting"
      \/ \E c \in Callers : Starter(c, s)
      \/ s \in toRecover \cup deferred

\* Only a user's retry gives a scan a second job in a process, finished or not:
\* creation, the schedule tick and recovery together enqueue at most one.
OverlapNeedsRetry ==
  \A i, j \in DOMAIN jobs :
    i # j /\ jobs[i] = jobs[j] => jobs[i] \in retried

\* A deleted scan stays deleted, whatever calls and runs that read its row before
\* the delete still write.
DeletedStaysDeleted ==
  [][\A s \in Scans : row[s].status = "deleted" => row'[s] = row[s]]_vars

\* A completed scan changes its status only by a delete, or by a cancel or a retry
\* that read the row before it completed: recovery, the schedule tick and the
\* first run never undo a completion.
CompletionUndoneOnlyByUser ==
  [][\A s \in Scans :
       row[s].status = "completed" /\ row'[s].status # "completed" =>
         \/ row'[s].status = "deleted"
         \/ row'[s].error = "cancelled"
         \/ s \in retried]_vars

\* Every scan queued or running ends completed, failed or deleted, or is left
\* queued by recovery because its host could not be looked up.
EveryScanSettles ==
  \A s \in Scans :
    row[s].status \in {"queued", "running"} ~>
      row[s].status \in {"completed", "failed", "deleted"} \/ s \in deferred

\* The pool keeps the promise of ScanPool: every step submits, ends or resets as it
\* says, or changes nothing it speaks of, and every started job ends.
Pool == INSTANCE ScanPool WITH
  MaxSubmitted <- MaxCalls + Cardinality(Scans),
  submitted    <- Len(jobs),
  started      <- Len(jobs) - Len(queue),
  ended        <- {j \in DOMAIN jobs : state[j] = "done"}

KeepsPoolPromise == Pool!FairSpec

\* docs/reference/api-reference.md:373 says a cancel stops a queued or running scan:
\* a cancelled scan does not complete before something has queued it again.
CancelledStaysStopped ==
  [][\A s \in Scans :
       row[s].status = "failed" /\ row[s].error = "cancelled" =>
         row'[s].status # "completed"]_vars
=============================================================================

----------------------------- MODULE ScanEvents -----------------------------
(***************************************************************************)
(* The progress stream of a scan: what the orchestrator emits while the    *)
(* calls and jobs of ScanLifecycle run, the buffer it replays to a client  *)
(* that connects, and the clients of GET /scan/:id/events.                 *)
(*                                                                         *)
(* Each step of ScanLifecycle is taken together with what it emits.  Only  *)
(* the first event of a run and its last one are told apart; the others    *)
(* are progress in between.                                                *)
(***************************************************************************)
EXTENDS ScanLifecycle

CONSTANT Clients  \* slots for open requests to the stream

VARIABLES
  stream,     \* what each client's request has come to and what it was told
  buffer,     \* eventBuffers: the events replayed to a client of each scan
  announced   \* jobs whose run has emitted scan_start

streamVars == <<stream, buffer, announced>>
allVars    == <<vars, streamVars>>

Events   == {"scan_start", "complete", "failed"}
Terminal == {"complete", "failed"}
Stream   == [pc   : {"looking", "open", "ended"},
             scan : Scans,
             seen : Statuses,
             told : SUBSET Events]
NoStream == [pc |-> "idle"]

Listening(k, s) == stream[k].pc = "open" /\ stream[k].scan = s

-----------------------------------------------------------------------------
(* Emitting *)

\* The emitter calls every listener of the scan; a listener that is told a terminal
\* event ends its response.
Deliver(s, event) ==
  stream' = [k \in Clients |->
               IF Listening(k, s)
               THEN [stream[k] EXCEPT !.told = @ \cup {event},
                                      !.pc = IF event \in Terminal THEN "ended" ELSE @]
               ELSE stream[k]]

\* ScanOrchestrator.emit buffers the event, then delivers it.  Its only caller is
\* startScan, with scan_start.
BufferedEmit(s, event) ==
  /\ buffer' = [buffer EXCEPT ![s] = @ \cup {event}]
  /\ Deliver(s, event)

\* The emit that runScan declares for itself goes to the emitter alone.
RunEmit(s, event) == Deliver(s, event) /\ UNCHANGED buffer

\* startScan tells that a scan has to wait before it enqueues it.
StartEmits(c) ==
  /\ IF At(c, "starting") /\ running >= MaxConcurrent
     THEN BufferedEmit(call[c].scan, "scan_start")
     ELSE UNCHANGED <<stream, buffer>>
  /\ UNCHANGED announced

\* A run that has marked its row running says so before it scans.
Announce(j) ==
  /\ JobAt(j, "scanning") /\ j \notin announced
  /\ announced' = announced \cup {j}
  /\ RunEmit(jobs[j], "scan_start")
  /\ UNCHANGED vars

\* Mutant of JobEmits: only a run that succeeds says how it ended.
JobEmitsSuccessOnly(j) ==
  /\ state[j] = "scanning" => j \in announced
  /\ IF state[j] = "succeeded"
     THEN RunEmit(jobs[j], "complete")
     ELSE UNCHANGED <<stream, buffer>>
  /\ UNCHANGED announced

\* Mutant of JobEmits: the run says complete before the completion is written.
JobEmitsEarly(j) ==
  /\ state[j] = "scanning" => j \in announced
  /\ CASE state[j] = "scanning" -> RunEmit(jobs[j], "complete")
       [] state[j] = "failed" -> RunEmit(jobs[j], "failed")
       [] OTHER -> UNCHANGED <<stream, buffer>>
  /\ UNCHANGED announced

\* A run that succeeded or whose row it failed says so on its way out; one whose
\* catch threw says nothing.
JobEmits(j) ==
  /\ state[j] = "scanning" => j \in announced
  /\ CASE state[j] = "succeeded" -> RunEmit(jobs[j], "complete")
       [] state[j] = "failed" -> RunEmit(jobs[j], "failed")
       [] OTHER -> UNCHANGED <<stream, buffer>>
  /\ UNCHANGED announced

-----------------------------------------------------------------------------
(* Clients *)

\* The handler looks the scan up (an unknown one is answered 404) ...
Connect(k, s) ==
  /\ phase = "serving"
  /\ stream[k] = NoStream
  /\ Exists(s)
  /\ stream' = [stream EXCEPT ![k] = [pc |-> "looking", scan |-> s,
                                      seen |-> row[s].status, told |-> {}]]
  /\ UNCHANGED <<vars, buffer, announced>>

\* ... and after the await answers a settled scan at once, or subscribes: the buffer
\* is replayed and the listener registered.  The status is the one read before.
Respond(k) ==
  /\ stream[k].pc = "looking"
  /\ stream' = [stream EXCEPT ![k] =
       CASE @.seen = "completed" -> [@ EXCEPT !.pc = "ended", !.told = {"complete"}]
         [] @.seen = "failed"    -> [@ EXCEPT !.pc = "ended", !.told = {"failed"}]
         [] OTHER                -> [@ EXCEPT !.pc = "open", !.told = buffer[stream[k].scan]]]
  /\ UNCHANGED <<vars, buffer, announced>>

\* The connection closes, on either side.
Disconnect(k) ==
  /\ stream[k].pc \in {"open", "ended"}
  /\ stream' = [stream EXCEPT ![k] = NoStream]
  /\ UNCHANGED <<vars, buffer, announced>>

\* A process that dies takes its connections, its buffers and its runs with it.
CrashEmits ==
  /\ stream' = [k \in Clients |-> NoStream]
  /\ buffer' = [s \in Scans |-> {}]
  /\ announced' = {}

-----------------------------------------------------------------------------
EventsInit ==
  /\ Init
  /\ stream = [k \in Clients |-> NoStream]
  /\ buffer = [s \in Scans |-> {}]
  /\ announced = {}

EmittingCallStep(c) == CallStep(c) /\ StartEmits(c)
EmittingJobStep(j)  == JobStep(j) /\ JobEmits(j)

EventsNext ==
  \/ \E c \in Requests : BeginCall(c) /\ UNCHANGED streamVars
  \/ \E s \in Scans : Recover(s) /\ UNCHANGED streamVars
  \/ \E c \in Callers : EmittingCallStep(c)
  \/ \E j \in DOMAIN jobs : Announce(j) \/ EmittingJobStep(j)
  \/ BootStep /\ UNCHANGED streamVars
  \/ Crash /\ CrashEmits
  \/ \E k \in Clients, s \in Scans : Connect(k, s)
  \/ \E k \in Clients : Respond(k) \/ Disconnect(k)

EventsSpec == EventsInit /\ [][EventsNext]_allVars

\* As in ScanLifecycle; the handler of a stream goes on after its lookup, and nobody
\* has to connect or to go away.
EventsFairSpec ==
  /\ EventsSpec
  /\ \A c \in Callers : WF_allVars(EmittingCallStep(c))
  /\ \A j \in 1..(MaxCalls + Cardinality(Scans)) :
       WF_allVars(j \in DOMAIN jobs /\ (Announce(j) \/ EmittingJobStep(j)))
  /\ WF_allVars(BootStep /\ UNCHANGED streamVars)
  /\ \A s \in Scans : WF_allVars(Recover(s) /\ UNCHANGED streamVars)
  /\ \A k \in Clients : WF_allVars(Respond(k))

-----------------------------------------------------------------------------
(* Properties *)

\* The outcome a run tells its listeners is the one its row holds, unless a user's own
\* call on that scan came between: a stream never reports an outcome that is not
\* stored, whatever else runs, retries, recovers and deletes beside it.
Tells(k, event) == stream[k] # NoStream /\ event \in stream[k].told

OutcomeIsStored ==
  [][\A k \in Clients, s \in Scans : Listening(k, s) =>
       /\ Tells(k, "complete")' =>
            \/ row[s].status \in {"completed", "deleted"}
            \/ row[s].error = "cancelled" \/ s \in retried
       /\ Tells(k, "failed")' =>
            \/ row[s].status \in {"failed", "deleted"}
            \/ s \in retried]_allVars

\* A client that listens while a run of its scan is still to end hears how it ended,
\* unless the scan is deleted, the client leaves or the process dies.
ListenerHearsTheEnd ==
  \A k \in Clients, s \in Scans :
    Listening(k, s) /\ (\E j \in DOMAIN jobs : jobs[j] = s /\ state[j] # "done")
      ~> ~Listening(k, s) \/ row[s].status = "deleted"

\* scanner/orchestrator.ts:306 says a late client is replayed the progress already
\* emitted: a client that found the scan running and listens to a run that has
\* announced itself knows that the scan has started.
LateClientCatchesUp ==
  \A k \in Clients, s \in Scans :
    Listening(k, s) /\ stream[k].seen = "running"
      /\ (\E j \in announced : jobs[j] = s /\ state[j] = "scanning")
      => Tells(k, "scan_start")
=============================================================================

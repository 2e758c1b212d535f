------------------------- MODULE AgentConversation -------------------------
(***************************************************************************)
(* One conversation with the agent companion: its rows, the turns that the *)
(* streams of it run, the destructive calls they pause, and the requests   *)
(* that confirm, decline, expire, replace, retry, cancel or delete.        *)
(*                                                                         *)
(* A step is what runs between two awaits. Another stream or request, of   *)
(* this process or (for the rows and the run token) of another one over    *)
(* the same database, may come in at any await; the model's answer and a   *)
(* tool's run are the long ones. A crash ends every turn and request and   *)
(* keeps what is stored.                                                   *)
(***************************************************************************)
EXTENDS Integers, Sequences, FiniteSets

CONSTANTS
  Streams,        \* the streams opened on the conversation, each runs one turn
  Requests,       \* slots for the requests of the user
  Sweeper,        \* the expiry sweep, one row at a time
  Texts,          \* what a question may say
  None,           \* no stream, no text
  WindowTurns,    \* questions the rolling window holds (20)
  KeepTurns,      \* questions a compaction keeps (MIN_KEEP_TURNS)
  MaxIterations,  \* MAX_TOOL_ITERATIONS
  MaxBatch,       \* bound: calls of one answer of the model
  MaxQuestions,   \* bound: questions ever stored by the user
  MaxRows         \* bound: rows ever stored

ASSUME WindowAssumption == WindowTurns \in Nat \ {0} /\ KeepTurns \in Nat \ {0}
ASSUME IterationAssumption == MaxIterations \in Nat \ {0} /\ MaxBatch \in Nat \ {0}
ASSUME BoundAssumption == MaxQuestions \in Nat /\ MaxRows \in Nat
ASSUME NameAssumption ==
  None \notin Streams \cup Texts /\ Sweeper \notin Requests

VARIABLES
  rows,      \* agent_messages of the conversation, in the order of insertion
  token,     \* agent_conversations.active_run_id, as the stream it was given to
  deleted,   \* agent_conversations.is_deleted
  registry,  \* the turn whose controller ActiveTurnRegistry holds
  turn,      \* how far the turn of each stream has come
  request    \* how far each request, and the sweep, has come

vars == <<rows, token, deleted, registry, turn, request>>

-----------------------------------------------------------------------------
(* Rows *)

Kinds    == {"question", "answer", "summary", "batch", "result", "action"}
Statuses == {"sent", "pending", "denied", "failed", "streaming", "stopped", "superseded"}

\* The call ids of an answer of the model: made from what they belong to.
CallIds == Streams \X Nat \X Nat

Row == [kind    : Kinds,
        status  : Statuses,
        run     : Streams \cup {None},  \* the turn that wrote it (history)
        follows : Nat,                  \* followsMessageId, 0 when none (history)
        text    : Texts \cup {None},    \* of a question
        calls   : Seq(CallIds),         \* tool_call_json: the ids in it
        raw     : BOOLEAN,              \* its arguments are stored as given
        shown   : BOOLEAN,              \* in_window
        old     : BOOLEAN,              \* created more than 24 hours ago
        ran     : Nat]                  \* runs of a paused call (history)

NewRow(kind, status, run, follows, text, calls) ==
  [kind |-> kind, status |-> status, run |-> run, follows |-> follows,
   text |-> text, calls |-> calls, raw |-> status = "pending",
   shown |-> TRUE, old |-> FALSE, ran |-> 0]

Latest(S) == CHOOSE i \in S : \A j \in S : j <= i

Active == {i \in DOMAIN rows : rows[i].status # "superseded"}
Window == {i \in Active : rows[i].shown}
Asked(S)   == {i \in S : rows[i].kind = "question"}
Replies(S) == {i \in S : rows[i].kind \in {"answer", "summary", "batch"}}

\* A paused or streaming row stays in the window however old it is.
HideBefore(rs, b) ==
  [i \in DOMAIN rs |->
     IF i < b /\ rs[i].status \notin {"pending", "streaming"}
     THEN [rs[i] EXCEPT !.shown = FALSE]
     ELSE rs[i]]

\* insertMessageRow: a question moves the rolling window, whose first question is
\* the WindowTurns-th newest, superseded ones included.
FirstOfWindow(rs) ==
  {b \in DOMAIN rs :
     /\ rs[b].kind = "question"
     /\ Cardinality({i \in DOMAIN rs : rs[i].kind = "question" /\ b <= i}) = WindowTurns}

Room == Len(rows) < MaxRows

Insert(rs, r) ==
  LET grown == Append(rs, r)
  IN  IF r.kind = "question" /\ FirstOfWindow(grown) # {}
      THEN HideBefore(grown, Latest(FirstOfWindow(grown)))
      ELSE grown

\* Mutant: A store that knows no run token.
WritableByAnyRun(run, follows) == follows # 0 => follows \in Active /\ ~deleted

\* Mutant: A store that does not look at the row that is followed.
WritableAnywhere(run, follows) == run # None => token = run /\ ~deleted

\* insertMessageRow: a row of a turn needs the turn's run to be current, a row that
\* follows another needs that one on the active branch; neither goes into a
\* deleted conversation.
Writable(run, follows) ==
  /\ run # None => token = run /\ ~deleted
  /\ follows # 0 => follows \in Active /\ ~deleted

\* Mutant: An edit that leaves the arguments of what it supersedes.
SupersedeUnredacted(rs, S) ==
  [i \in DOMAIN rs |-> IF i \in S THEN [rs[i] EXCEPT !.status = "superseded"] ELSE rs[i]]

\* supersedeRows: a paused call that is superseded is stored redacted.
Supersede(rs, S) ==
  [i \in DOMAIN rs |->
     IF i \in S THEN [rs[i] EXCEPT !.status = "superseded", !.raw = FALSE] ELSE rs[i]]

-----------------------------------------------------------------------------
(* A turn: runTurn *)

Listed  == {"ask", "think", "compact", "flip", "call", "store", "final", "stop", "end"}
TurnPCs == {"idle", "begin", "register", "done"} \cup Listed

NoTurn == [pc |-> "idle", text |-> None, last |-> 0, iter |-> 0, cut |-> 0,
           left |-> <<>>, pause |-> FALSE, refused |-> FALSE, aborted |-> FALSE]

Turn == [pc : TurnPCs, text : Texts \cup {None}, last : Nat, iter : Nat, cut : Nat,
         left : Seq(CallIds), pause : BOOLEAN, refused : BOOLEAN, aborted : BOOLEAN]

Ended == [NoTurn EXCEPT !.pc = "done"]

At(s, pc)   == turn[s].pc = pc
Goto(s, pc) == turn' = [turn EXCEPT ![s].pc = pc]

\* GET /agent/stream: the newest question of the window is what the turn is about.
OpenStream(s) ==
  /\ At(s, "idle") /\ ~deleted
  /\ turn' = [turn EXCEPT ![s].pc = "begin",
                          ![s].text = IF Asked(Window) = {} THEN None
                                      ELSE rows[Latest(Asked(Window))].text]
  /\ UNCHANGED <<rows, token, deleted, registry, request>>

\* beginRun. A deleted conversation gets no token and the turn ends at once.
BeginRun(s) ==
  /\ At(s, "begin") /\ ~deleted
  /\ token' = s
  /\ Goto(s, "register")
  /\ UNCHANGED <<rows, deleted, registry, request>>

\* Mutant: A turn that waits when it is refused a token.
NoRunWaits(s) ==
  /\ At(s, "begin") /\ deleted
  /\ UNCHANGED vars

NoRun(s) ==
  /\ At(s, "begin") /\ deleted
  /\ turn' = [turn EXCEPT ![s] = Ended]
  /\ UNCHANGED <<rows, token, deleted, registry, request>>

\* The registry aborts the turn it held; then the window is read for the question,
\* the newest one with the text the stream was opened for.
Abort(t, s) == IF s = None THEN t ELSE [t EXCEPT ![s].aborted = TRUE]

Register(s) ==
  LET same == {i \in Asked(Window) : rows[i].text = turn[s].text}
      rest == Abort(turn, registry)
  IN  /\ At(s, "register")
      /\ registry' = s
      /\ \/ /\ same # {}
            /\ turn' = [rest EXCEPT ![s].pc = "think", ![s].iter = 1, ![s].last = Latest(same)]
         \/ /\ same = {}
            /\ turn' = [rest EXCEPT ![s].pc = "ask"]
      /\ UNCHANGED <<rows, token, deleted, request>>

\* Every row of a turn goes through here: a refused one ends the turn.
WriteRow(s, r, next) ==
  IF Writable(s, r.follows)
  THEN Room /\ rows' = Insert(rows, r) /\ turn' = [turn EXCEPT ![s] = next]
  ELSE Goto(s, "end") /\ UNCHANGED rows

Follow(s, kind, status, calls) ==
  NewRow(kind, status, s, turn[s].last, None, calls)

Written == Len(rows) + 1

StoreQuestion(s) ==
  /\ At(s, "ask")
  /\ WriteRow(s, NewRow("question", "sent", s, 0, turn[s].text, <<>>),
              [turn[s] EXCEPT !.pc = "think", !.iter = 1, !.last = Written])
  /\ UNCHANGED <<token, deleted, registry, request>>

-----------------------------------------------------------------------------
(* Compaction: compactOldestTurns *)

\* Starts before the model is called, when the window is over the token budget
\* and holds more questions than are kept.
StartCompaction(s) ==
  /\ At(s, "think")
  /\ \E b \in Asked(Window) :
       /\ Cardinality({i \in Asked(Window) : b <= i}) = KeepTurns
       /\ \E i \in Window : i < b
       /\ turn' = [turn EXCEPT ![s].pc = "compact", ![s].cut = b]
  /\ UNCHANGED <<rows, token, deleted, registry, request>>

Summarise(s) ==
  /\ At(s, "compact")
  /\ WriteRow(s, Follow(s, "summary", "sent", <<>>),
              [turn[s] EXCEPT !.pc = "flip", !.last = Written])
  /\ UNCHANGED <<token, deleted, registry, request>>

\* Mutant: A compaction that drops the old rows all the same.
SummaryFailsAndHides(s) ==
  /\ At(s, "compact")
  /\ turn' = [turn EXCEPT ![s].pc = "call", ![s].cut = 0]
  /\ rows' = HideBefore(rows, turn[s].cut)
  /\ UNCHANGED <<token, deleted, registry, request>>

\* No summary: nothing is dropped and the turn goes on.
SummaryFails(s) ==
  /\ At(s, "compact")
  /\ turn' = [turn EXCEPT ![s].pc = "call", ![s].cut = 0]
  /\ UNCHANGED <<rows, token, deleted, registry, request>>

\* markOutOfWindowBefore
HideOldRows(s) ==
  /\ At(s, "flip")
  /\ rows' = HideBefore(rows, turn[s].cut)
  /\ turn' = [turn EXCEPT ![s].pc = "call", ![s].cut = 0]
  /\ UNCHANGED <<token, deleted, registry, request>>

-----------------------------------------------------------------------------
(* The model's answers *)

Calling(s) == turn[s].pc \in {"think", "call"}
Call(s, k) == <<s, turn[s].iter, k>>

\* A plain answer, or the one forced at the iteration cap.
Answer(s) ==
  /\ Calling(s) \/ At(s, "final")
  /\ WriteRow(s, Follow(s, "answer", "sent", <<>>), [turn[s] EXCEPT !.pc = "end"])
  /\ UNCHANGED <<token, deleted, registry, request>>

\* A batch of calls none of which is paused.
CallTools(s) ==
  /\ Calling(s)
  /\ \E n \in 1..MaxBatch :
       LET calls == [k \in 1..n |-> Call(s, k)]
       IN  WriteRow(s, Follow(s, "batch", "sent", calls),
                    [turn[s] EXCEPT !.pc = "store", !.last = Written, !.left = calls])
  /\ UNCHANGED <<token, deleted, registry, request>>

\* A destructive call pauses the answer; calls that were not offered are answered
\* first, the other calls of the answer are dropped.
PausedRow(s) == Follow(s, "action", "pending", <<Call(s, 0)>>)

Pause(s) ==
  /\ Calling(s)
  /\ WriteRow(s, PausedRow(s), [turn[s] EXCEPT !.pc = "end"])
  /\ UNCHANGED <<token, deleted, registry, request>>

DenyThenPause(s) ==
  /\ Calling(s)
  /\ turn' = [turn EXCEPT ![s].pc = "store", ![s].left = <<Call(s, 1)>>, ![s].pause = TRUE]
  /\ UNCHANGED <<rows, token, deleted, registry, request>>

\* dispatchBatchAndPersist: once a result is refused no later one is written, and
\* the turn ends when every call has its audit row. A result of an error is stored as
\* failed; nothing tells it from a sent one, so it is sent here.
StoreResult(s) ==
  /\ At(s, "store") /\ turn[s].left # <<>>
  /\ LET rest == [turn[s] EXCEPT !.left = Tail(turn[s].left)]
     IN  \/ /\ ~turn[s].refused /\ Writable(s, turn[s].last) /\ Room
            /\ rows' = Insert(rows, Follow(s, "result", "sent", <<Head(turn[s].left)>>))
            /\ turn' = [turn EXCEPT ![s] = [rest EXCEPT !.last = Written]]
         \/ /\ turn[s].refused \/ ~Writable(s, turn[s].last)
            /\ turn' = [turn EXCEPT ![s] = [rest EXCEPT !.refused = TRUE]]
            /\ UNCHANGED rows
  /\ UNCHANGED <<token, deleted, registry, request>>

BatchStored(s) == At(s, "store") /\ turn[s].left = <<>>

PauseAfterDenied(s) ==
  /\ BatchStored(s) /\ turn[s].pause /\ ~turn[s].refused
  /\ WriteRow(s, PausedRow(s), [turn[s] EXCEPT !.pc = "end"])
  /\ UNCHANGED <<token, deleted, registry, request>>

\* The next iteration, unless the answer was withdrawn or the turn stopped; at the
\* cap an answer without tools is forced.
NextIteration(s) ==
  /\ BatchStored(s)
  /\ \/ turn[s].refused /\ Goto(s, "end")
     \/ /\ ~turn[s].refused /\ ~turn[s].pause
        /\ \/ turn[s].iter = MaxIterations /\ Goto(s, "final")
           \/ turn[s].iter < MaxIterations /\ turn[s].aborted /\ Goto(s, "end")
           \/ /\ turn[s].iter < MaxIterations /\ ~turn[s].aborted
              /\ turn' = [turn EXCEPT ![s].pc = "think", ![s].iter = @ + 1]
  /\ UNCHANGED <<rows, token, deleted, registry, request>>

\* Mutant: A stopped reply with a status of its own.
FailsAsAborted(s) ==
  /\ Calling(s) \/ At(s, "final")
  /\ WriteRow(s, Follow(s, "answer", IF turn[s].aborted THEN "aborted" ELSE "failed", <<>>),
              [turn[s] EXCEPT !.pc = "end"])
  /\ UNCHANGED <<token, deleted, registry, request>>

\* The model's stream throws: an aborted turn keeps what had arrived as a stopped
\* reply (handleStreamAbort), in two writes; any other leaves an error row.
Fails(s) ==
  /\ Calling(s) \/ At(s, "final")
  /\ IF turn[s].aborted
     THEN WriteRow(s, Follow(s, "answer", "streaming", <<>>),
                   [turn[s] EXCEPT !.pc = "stop", !.last = Written])
     ELSE WriteRow(s, Follow(s, "answer", "failed", <<>>), [turn[s] EXCEPT !.pc = "end"])
  /\ UNCHANGED <<token, deleted, registry, request>>

MarkStopped(s) ==
  /\ At(s, "stop")
  /\ rows' = IF turn[s].last \in Active
             THEN [rows EXCEPT ![turn[s].last].status = "stopped"] ELSE rows
  /\ Goto(s, "end")
  /\ UNCHANGED <<token, deleted, registry, request>>

\* Mutant: A clean-up that removes the entry of whichever turn holds it.
FinishAny(s) ==
  /\ At(s, "end")
  /\ registry' = None
  /\ turn' = [turn EXCEPT ![s] = Ended]
  /\ UNCHANGED <<rows, token, deleted, request>>

\* The finally of runTurn: only the turn's own entry leaves the registry.
Finish(s) ==
  /\ At(s, "end")
  /\ registry' = IF registry = s THEN None ELSE registry
  /\ turn' = [turn EXCEPT ![s] = Ended]
  /\ UNCHANGED <<rows, token, deleted, request>>

\* The client of the stream goes away.
Close(s) ==
  /\ turn[s].pc \in (Listed \ {"end"}) \cup {"begin", "register"} /\ ~turn[s].aborted
  /\ turn' = Abort(turn, s)
  /\ UNCHANGED <<rows, token, deleted, registry, request>>

-----------------------------------------------------------------------------
(* Requests on the conversation *)

Free == [pc |-> "free", row |-> 0]
RequestPCs == {"free", "posting", "cancelling", "confirming", "declining", "expiring",
               "dispatching", "answering", "reopening", "closing"}

Doing(q, pc) == request[q].pc = pc
Move(q, pc)  == request' = [request EXCEPT ![q].pc = pc]
Done(q)      == request' = [request EXCEPT ![q] = Free]

UserQuestions == {i \in DOMAIN rows : rows[i].kind = "question" /\ rows[i].run = None}
Question(t)   == NewRow("question", "sent", None, 0, t, <<>>)

\* POST /agent/message: the conversation is looked up, then the row is stored.
Post(q) ==
  /\ Doing(q, "free") /\ ~deleted
  /\ Move(q, "posting")
  /\ UNCHANGED <<rows, token, deleted, registry, turn>>

StorePost(q) ==
  /\ Doing(q, "posting") /\ Room /\ Cardinality(UserQuestions) < MaxQuestions
  /\ \E t \in Texts : rows' = Insert(rows, Question(t))
  /\ Done(q)
  /\ UNCHANGED <<token, deleted, registry, turn>>

\* Edit and resend: the latest question and everything after it is superseded and
\* the new question stored, in one transaction; the running turn is cancelled next.
EditResend(q) ==
  /\ Doing(q, "free") /\ ~deleted
  /\ Asked(Active) # {} /\ Room /\ Cardinality(UserQuestions) < MaxQuestions
  /\ LET withdrawn == {i \in Active : i >= Latest(Asked(Active))}
     IN  \E t \in Texts : rows' = Insert(Supersede(rows, withdrawn), Question(t))
  /\ Move(q, "cancelling")
  /\ UNCHANGED <<token, deleted, registry, turn>>

\* Retry: the newest row of the active branch, when it is a reply, is superseded.
Retry(q) ==
  /\ Doing(q, "free") /\ ~deleted
  /\ Active # {} /\ Latest(Active) \in Replies(Active)
  /\ rows' = Supersede(rows, {Latest(Active)})
  /\ Move(q, "cancelling")
  /\ UNCHANGED <<token, deleted, registry, turn>>

\* softDeleteConversation declines what is paused in the same transaction.
Delete(q) ==
  /\ Doing(q, "free") /\ ~deleted
  /\ deleted' = TRUE
  /\ rows' = [i \in DOMAIN rows |->
                IF rows[i].status = "pending"
                THEN [rows[i] EXCEPT !.status = "denied", !.raw = FALSE] ELSE rows[i]]
  /\ Move(q, "cancelling")
  /\ UNCHANGED <<token, registry, turn>>

\* POST /agent/cancel
Cancel(q) ==
  /\ Doing(q, "free")
  /\ Move(q, "cancelling")
  /\ UNCHANGED <<rows, token, deleted, registry, turn>>

\* turnRegistry.cancel
CancelTurn(q) ==
  /\ Doing(q, "cancelling")
  /\ turn' = Abort(turn, registry)
  /\ registry' = None
  /\ Done(q)
  /\ UNCHANGED <<rows, token, deleted>>

-----------------------------------------------------------------------------
(* Confirming, declining and expiring a paused call *)

Paused == {i \in DOMAIN rows : rows[i].status = "pending"}

Take(q, i, pc) == request' = [request EXCEPT ![q] = [pc |-> pc, row |-> i]]

\* findPendingMessage; an action of a deleted conversation is not found.
FindPending(q) ==
  /\ Doing(q, "free") /\ ~deleted
  /\ \E i \in Paused, pc \in {"confirming", "declining"} : Take(q, i, pc)
  /\ UNCHANGED <<rows, token, deleted, registry, turn>>

\* Mutant: A sweep whose comparison is the wrong way round.
SweepFresh ==
  /\ Doing(Sweeper, "free")
  /\ \E i \in Paused : ~rows[i].old /\ Take(Sweeper, i, "expiring")
  /\ UNCHANGED <<rows, token, deleted, registry, turn>>

\* runPendingExpirySweep reaches a row of its list.
Sweep ==
  /\ Doing(Sweeper, "free")
  /\ \E i \in Paused : rows[i].old /\ Take(Sweeper, i, "expiring")
  /\ UNCHANGED <<rows, token, deleted, registry, turn>>

\* claimPendingMessage: the row leaves pending by one write that redacts it. A
\* confirmation that finds it expired declines it, as the sweep does.
Verdict(q) ==
  IF Doing(q, "confirming") /\ ~rows[request[q].row].old THEN "sent" ELSE "denied"

Claiming(q) == request[q].pc \in {"confirming", "declining", "expiring"}

\* Mutant: A claim that does not ask whether the row is still paused.
ClaimAnyway(q) ==
  /\ Claiming(q)
  /\ rows' = [rows EXCEPT ![request[q].row].status = Verdict(q),
                          ![request[q].row].raw = FALSE]
  /\ Move(q, IF Verdict(q) = "sent" THEN "dispatching" ELSE "answering")
  /\ UNCHANGED <<token, deleted, registry, turn>>

Claim(q) ==
  /\ Claiming(q) /\ request[q].row \in Paused
  /\ rows' = [rows EXCEPT ![request[q].row].status = Verdict(q),
                          ![request[q].row].raw = FALSE]
  /\ Move(q, IF Verdict(q) = "sent" THEN "dispatching" ELSE "answering")
  /\ UNCHANGED <<token, deleted, registry, turn>>

ClaimLost(q) ==
  /\ Claiming(q) /\ request[q].row \notin Paused
  /\ Done(q)
  /\ UNCHANGED <<rows, token, deleted, registry, turn>>

\* Mutant: A tool that runs before the permission is judged.
RunToolThenJudge(q) ==
  /\ Doing(q, "dispatching")
  /\ rows' = [rows EXCEPT ![request[q].row].ran = @ + 1]
  /\ \E pc \in {"answering", "reopening"} : Move(q, pc)
  /\ UNCHANGED <<token, deleted, registry, turn>>

\* dispatch: the tool runs; or its arguments do not parse and nothing runs; or the
\* user may no longer use it; or the permissions cannot be read.
RunTool(q) ==
  /\ Doing(q, "dispatching")
  /\ rows' = [rows EXCEPT ![request[q].row].ran = @ + 1]
  /\ Move(q, "answering")
  /\ UNCHANGED <<token, deleted, registry, turn>>

DispatchEnds(q) ==
  /\ Doing(q, "dispatching")
  /\ \E pc \in {"answering", "reopening", "closing"} : Move(q, pc)
  /\ UNCHANGED <<rows, token, deleted, registry, turn>>

\* Mutant: A reopen that does not ask whether the conversation still exists.
ReopenAnyway(q) ==
  /\ Doing(q, "reopening")
  /\ rows' = IF rows[request[q].row].status = "sent"
             THEN [rows EXCEPT ![request[q].row].status = "pending",
                               ![request[q].row].raw = TRUE]
             ELSE rows
  /\ Done(q)
  /\ UNCHANGED <<token, deleted, registry, turn>>

\* reopenPendingMessage: with the arguments it was paused with.
Reopen(q) ==
  /\ Doing(q, "reopening")
  /\ rows' = IF rows[request[q].row].status = "sent" /\ ~deleted
             THEN [rows EXCEPT ![request[q].row].status = "pending",
                               ![request[q].row].raw = TRUE]
             ELSE rows
  /\ Done(q)
  /\ UNCHANGED <<token, deleted, registry, turn>>

\* closeFailedConfirm
CloseFailed(q) ==
  /\ Doing(q, "closing")
  /\ rows' = IF request[q].row \in Active
             THEN [rows EXCEPT ![request[q].row].status = "failed",
                               ![request[q].row].raw = FALSE]
             ELSE rows
  /\ Done(q)
  /\ UNCHANGED <<token, deleted, registry, turn>>

\* The result row follows the paused one; on a withdrawn branch nothing is added.
AnswerPaused(q) ==
  LET i == request[q].row
  IN  /\ Doing(q, "answering")
      /\ \/ /\ Writable(None, i) /\ Room
            /\ rows' = Insert(rows, NewRow("result", "sent", None, i, None, rows[i].calls))
         \/ ~Writable(None, i) /\ UNCHANGED rows
      /\ Done(q)
      /\ UNCHANGED <<token, deleted, registry, turn>>

\* The audit row of a dispatch, or the last write itself, throws: the tool may have run,
\* and the claimed row keeps the status the claim gave it.
WriteThrows(q) ==
  /\ Doing(q, "answering") \/ Doing(q, "reopening") \/ Doing(q, "closing")
  /\ Done(q)
  /\ UNCHANGED <<rows, token, deleted, registry, turn>>

-----------------------------------------------------------------------------
(* Time, crashes, the whole *)

\* 24 hours since a paused row was stored, and so since those before it; it matters
\* to the rows that are paused or may be again.
Lapse ==
  /\ \E i \in DOMAIN rows :
       /\ rows[i].kind = "action" /\ ~rows[i].old /\ rows[i].status \in {"pending", "sent"}
       /\ rows' = [j \in DOMAIN rows |->
                     IF j <= i /\ rows[j].kind = "action"
                     THEN [rows[j] EXCEPT !.old = TRUE] ELSE rows[j]]
  /\ UNCHANGED <<token, deleted, registry, turn, request>>

Crash ==
  /\ turn' = [s \in Streams |->
                IF At(s, "idle") THEN turn[s] ELSE Ended]
  /\ request' = [q \in Requests \cup {Sweeper} |-> Free]
  /\ registry' = None
  /\ UNCHANGED <<rows, token, deleted>>

Init ==
  /\ rows = <<>>
  /\ token = None /\ deleted = FALSE /\ registry = None
  /\ turn = [s \in Streams |-> NoTurn]
  /\ request = [q \in Requests \cup {Sweeper} |-> Free]

TurnStep(s) ==
  \/ BeginRun(s) \/ NoRun(s) \/ Register(s) \/ StoreQuestion(s)
  \/ StartCompaction(s) \/ Summarise(s) \/ SummaryFails(s) \/ HideOldRows(s)
  \/ Answer(s) \/ CallTools(s) \/ Pause(s) \/ DenyThenPause(s)
  \/ StoreResult(s) \/ PauseAfterDenied(s) \/ NextIteration(s)
  \/ Fails(s) \/ MarkStopped(s) \/ Finish(s)

UserStep(q) ==
  \/ Post(q) \/ EditResend(q) \/ Retry(q) \/ Delete(q) \/ Cancel(q) \/ FindPending(q)

RequestStep(q) ==
  \/ StorePost(q) \/ CancelTurn(q)
  \/ Claim(q) \/ ClaimLost(q) \/ RunTool(q) \/ DispatchEnds(q)
  \/ Reopen(q) \/ CloseFailed(q) \/ AnswerPaused(q) \/ WriteThrows(q)

Next ==
  \/ \E s \in Streams : OpenStream(s) \/ TurnStep(s) \/ Close(s)
  \/ \E q \in Requests : UserStep(q)
  \/ \E q \in Requests \cup {Sweeper} : RequestStep(q)
  \/ Sweep \/ Lapse \/ Crash

Spec == Init /\ [][Next]_vars

\* An await ends, the model's stream ends somehow, a tool's run has its timeout, and
\* time passes. The process may die again and again, but now and then it lives long
\* enough for the sweep, which starts with it and runs every hour, to go on. Users
\* owe nothing.
FairSpec ==
  /\ Spec
  /\ \A s \in Streams : WF_vars(TurnStep(s))
  /\ \A q \in Requests : WF_vars(RequestStep(q))
  /\ SF_vars(Sweep) /\ SF_vars(RequestStep(Sweeper))
  /\ WF_vars(Lapse)

-----------------------------------------------------------------------------
(* Properties *)

\* Type correctness; a request past the look-up names a stored row.
ConversationTypeOK ==
  /\ rows \in Seq(Row)
  /\ token \in Streams \cup {None} /\ registry \in Streams \cup {None}
  /\ deleted \in BOOLEAN
  /\ turn \in [Streams -> Turn]
  /\ request \in [Requests \cup {Sweeper} -> [pc : RequestPCs, row : Nat]]
  /\ \A s \in Streams : turn[s].last \in 0..Len(rows)
  /\ \A q \in Requests \cup {Sweeper} : request[q].row \in 0..Len(rows)

\* However many confirmations, declines, expiries, edits, deletes and refusals meet
\* on a paused action, its tool runs at most once, and an action that ran is
\* neither offered again nor recorded as declined or failed.
ActionRunsOnce ==
  \A i \in DOMAIN rows :
    /\ rows[i].ran <= 1
    /\ rows[i].ran = 1 => rows[i].status \in {"sent", "superseded"}

\* Arguments are stored as given exactly while their action waits for the user:
\* every one of the writes that end or resume the wait keeps to it (HARD-21).
RawOnlyWhilePaused ==
  \A i \in DOMAIN rows : rows[i].raw <=> rows[i].status = "pending"

\* A deleted conversation has nothing left to confirm, whatever was being confirmed
\* when it was deleted, and no turn or request adds an answer or a result to it.
DeletedStaysClosed ==
  [][deleted' => /\ Paused' = {}
                 /\ deleted => \A i \in DOMAIN rows' \ DOMAIN rows :
                                 rows'[i].kind = "question" /\ rows'[i].run = None]_vars

\* A cancel reaches the turn that is going on: one that is not aborted holds the
\* registry's entry, and the entry is never that of a turn that has ended.
LiveTurnIsReachable ==
  /\ \A s \in Streams : turn[s].pc \in Listed /\ ~turn[s].aborted => registry = s
  /\ registry # None => turn[registry].pc \in Listed

\* Once a newer turn has written, an older one writes nothing more: two turns of a
\* conversation never mix their rows.
RunsDoNotInterleave ==
  \A i, j, k \in DOMAIN rows :
    i < j /\ j < k /\ rows[i].run = rows[k].run /\ rows[i].run # None =>
      rows[j].run \in {None, rows[i].run}

\* Nothing on the active branch answers something withdrawn: edits and retries take
\* the rows that follow with them, also those of a turn or a request under way.
AnswerHangsOnActive ==
  \A i \in Active : rows[i].follows = 0 \/ rows[i].follows \in Active

\* What a compaction has taken out of the window has been summarised after it (an
\* edit of the question may have superseded the summary since), unless the rolling
\* window has moved past it.
HiddenIsSummarised ==
  \A i \in DOMAIN rows \ {j \in DOMAIN rows : rows[j].shown} :
    \/ \E j \in DOMAIN rows : i < j /\ rows[j].kind = "summary"
    \/ \E b \in DOMAIN rows : i < b /\ Cardinality({j \in DOMAIN rows : b <= j /\ rows[j].kind = "question"}) >= WindowTurns

\* Every turn ends, whatever happens to its conversation, and leaves the registry.
TurnsEnd ==
  \A s \in Streams : At(s, "begin") ~> At(s, "done") /\ registry # s

\* No action waits for ever, and with it its arguments as given: it is resolved for
\* good, by the sweep if by nobody else, though refused confirmations may have put
\* it back.
PausedIsSettled ==
  \A i \in 1..MaxRows : <>[](i \notin Paused)

\* The conversation keeps the promise of PausedAction for each of its paused rows.
ActionRows == {i \in DOMAIN rows : rows[i].kind = "action"}
Executed   == {i \in ActionRows : rows[i].ran > 0}
Approved   == {i \in ActionRows \ Executed :
                 \E q \in Requests :
                   /\ request[q].pc \in {"dispatching", "reopening", "closing"}
                   /\ request[q].row = i}

Action == INSTANCE PausedAction WITH
  proposed <- Paused,
  approved <- Approved,
  executed <- Executed,
  closed   <- ActionRows \ (Paused \cup Approved \cup Executed)

KeepsActionPromise == Action!Spec

=============================================================================

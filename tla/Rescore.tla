------------------------------ MODULE Rescore ------------------------------
(***************************************************************************)
(* Rescoring of an organisation: every completed scan without a brand      *)
(* score is to get one, in batches, behind a progress row that is both the *)
(* lock and the resume point (services/rescore/rescore-service.ts and the  *)
(* routes /brand-overview/rescore).                                        *)
(*                                                                         *)
(* The service exists with the SQLite adapter only, whose calls answer at  *)
(* once: a start is one step. The loop behind it is cut at every scan all  *)
(* the same: the process may stop there, another one may write the same    *)
(* file, and the repository interfaces promise no such thing.              *)
(***************************************************************************)
EXTENDS Naturals, Sequences, SequencesExt, FiniteSets

CONSTANTS
  Scans,      \* scans of the organisation that may ever complete
  None,       \* null: no row, no loop, no last scan
  BatchSize   \* scans judged between two writes of the row (BATCH_SIZE)

\* A row of rescore_progress.
Progress == [status : {"running", "completed", "failed"}, total : Nat, processed : Nat,
             scored : Nat, skipped : Nat, warned : Nat, last : Scans \cup {None}]

\* What the loop holds: the rest of its batch, and the counts it will write.
Loop == [pc : {"next", "batch"}, batch : Seq(Scans), progress : Progress]

ASSUME BatchAssumption == BatchSize \in Nat \ {0}
ASSUME NameAssumption ==
  None \notin Scans /\ None \notin Progress /\ None \notin Loop

VARIABLES
  unborn,      \* scans that have not completed yet
  listed,      \* completed scans, newest first
  scored,      \* scans with a row in brand_scores
  branded,     \* scans whose site has an active and complete guideline
  row,         \* the organisation's rescore_progress row
  loop,        \* processLoop: the batch it is in and its counts, or None
  candidates,  \* scans counted when the rescore started (history)
  warned,      \* scans this rescore found without a guideline (history)
  stranded     \* its loop was lost without a last write (history)

vars == <<unborn, listed, scored, branded, row, loop,
          candidates, warned, stranded>>
history == <<candidates, warned, stranded>>
scans   == <<unborn, listed, scored, branded>>

-----------------------------------------------------------------------------
Listed == ToSet(listed)

\* getCandidateCount, and the count a start takes.
Candidates == Listed \ scored

Running == row # None /\ row.status = "running"

\* findIndex is -1 for a scan that is not listed: the loop begins again.
StartIndex(last) ==
  IF last \in Listed THEN CHOOSE i \in DOMAIN listed : listed[i] = last ELSE 0

\* Mutant: the scan after the resume point is left out.
BatchPastNext(start) ==
  SubSeq(listed, start + 2,
         IF start + BatchSize < Len(listed) THEN start + BatchSize ELSE Len(listed))

\* completedScans.slice(startIndex, startIndex + BATCH_SIZE)
Batch(start) ==
  SubSeq(listed, start + 1,
         IF start + BatchSize < Len(listed) THEN start + BatchSize ELSE Len(listed))

Fresh(total) ==
  [status |-> "running", total |-> total, processed |-> 0,
   scored |-> 0, skipped |-> 0, warned |-> 0, last |-> None]

\* Mutant: a count is kept, the processed scans are not.
CountedUnprocessed(progress, s, count) ==
  [progress EXCEPT !.last = s, ![count] = @ + 1]

\* One more scan behind the loop, under one of the three counts.
Counted(progress, s, count) ==
  [progress EXCEPT !.processed = @ + 1, !.last = s, ![count] = @ + 1]

-----------------------------------------------------------------------------
(* The organisation's scans *)

\* A run of a scan completes; its age places it anywhere in the list, and the
\* run may have scored it.
CompleteScan(s) ==
  /\ s \in unborn
  /\ unborn' = unborn \ {s}
  /\ \E i \in 1..Len(listed) + 1 : listed' = InsertAt(listed, i, s)
  /\ scored' \in {scored, scored \cup {s}}
  /\ UNCHANGED <<branded, row, loop, history>>

\* The scores of a scan go with it (ON DELETE CASCADE).
DeleteScan(s) ==
  /\ \E i \in DOMAIN listed : listed[i] = s /\ listed' = RemoveAt(listed, i)
  /\ scored' = scored \ {s}
  /\ UNCHANGED <<unborn, branded, row, loop, history>>

\* retagScansForSite appends a score to a completed scan, for the guideline it read
\* when it began.
Retag(s) ==
  /\ s \in Listed
  /\ scored' = scored \cup {s}
  /\ UNCHANGED <<unborn, listed, branded, row, loop, history>>

\* The guideline of the scan's site is assigned, removed, edited or switched.
ChangeGuideline(s) ==
  /\ branded' = IF s \in branded THEN branded \ {s} ELSE branded \cup {s}
  /\ UNCHANGED <<unborn, listed, scored, row, loop, history>>

-----------------------------------------------------------------------------
(* The service *)

\* POST /brand-overview/rescore/start: a running row refuses, any other row is
\* removed, and with candidates a new one is stored and the loop started.
StartRescore ==
  /\ ~Running
  /\ IF Candidates = {}
       THEN row' = None /\ UNCHANGED <<loop, history>>
       ELSE /\ row' = Fresh(Cardinality(Candidates))
            /\ loop' = [pc |-> "next", batch |-> <<>>, progress |-> row']
            /\ candidates' = Candidates
            /\ warned' = {}
            /\ stranded' = FALSE
  /\ UNCHANGED scans

\* processNextBatch reads the row and lists the scans; the loop ends on a row
\* that is not running.
BeginBatch ==
  /\ loop # None /\ loop.pc = "next"
  /\ loop' = IF Running
               THEN [pc |-> "batch", batch |-> Batch(StartIndex(row.last)),
                     progress |-> row]
               ELSE None
  /\ UNCHANGED <<scans, row, history>>

InBatch == loop # None /\ loop.pc = "batch"

\* The last write of a batch; the loop goes on while the row it wrote runs.
WriteProgress(progress) ==
  /\ row' = progress
  /\ loop' = IF progress.status = "running"
               THEN [pc |-> "next", batch |-> <<>>, progress |-> progress]
               ELSE None

\* The scan at the head of the batch is counted.
Judge(count) ==
  loop' = [loop EXCEPT !.progress = Counted(@, Head(loop.batch), count),
                       !.batch = Tail(@)]

\* Mutant: a scan that was skipped is not a processed one.
SkipUnprocessed ==
  /\ InBatch /\ loop.batch # <<>> /\ Head(loop.batch) \in scored
  /\ loop' = [loop EXCEPT !.progress.last = Head(loop.batch),
                          !.progress.skipped = @ + 1, !.batch = Tail(@)]
  /\ UNCHANGED <<scans, row, history>>

SkipScored ==
  /\ InBatch /\ loop.batch # <<>> /\ Head(loop.batch) \in scored
  /\ Judge("skipped")
  /\ UNCHANGED <<scans, row, history>>

WarnUnbranded ==
  /\ InBatch /\ loop.batch # <<>> /\ Head(loop.batch) \notin scored \cup branded
  /\ Judge("warned")
  /\ warned' = warned \cup {Head(loop.batch)}
  /\ UNCHANGED <<scans, row, candidates, stranded>>

\* A score needs the row of its scan (the foreign key of brand_scores).
ScoreScan ==
  /\ InBatch /\ loop.batch # <<>>
  /\ Head(loop.batch) \in (branded \cap Listed) \ scored
  /\ Judge("scored")
  /\ scored' = scored \cup {Head(loop.batch)}
  /\ UNCHANGED <<unborn, listed, branded, row, history>>

\* Mutant: an error in a batch is left to the caller, which logs it.
FailBatchUncaught ==
  /\ InBatch
  /\ loop' = None
  /\ UNCHANGED <<scans, row, history>>

\* The catch writes the counts as far as they have come.
FailBatch ==
  /\ InBatch
  /\ WriteProgress([loop.progress EXCEPT !.status = "failed"])
  /\ UNCHANGED <<scans, history>>

\* A branded scan was deleted under the batch: the insert of its score throws.
RefuseScore ==
  /\ InBatch /\ loop.batch # <<>>
  /\ Head(loop.batch) \in branded \ (Listed \cup scored)
  /\ FailBatch

EndBatch ==
  /\ InBatch /\ loop.batch = <<>>
  /\ WriteProgress(IF loop.progress.processed >= loop.progress.total
                     THEN [loop.progress EXCEPT !.status = "completed"]
                     ELSE loop.progress)
  /\ UNCHANGED <<scans, history>>

\* The process stops, and nothing at startup looks at the row; or the read or the
\* write of the row itself fails, outside of the catch, and the exception is logged.
LoseLoop ==
  /\ loop # None
  /\ loop' = None
  /\ stranded' = TRUE
  /\ UNCHANGED <<scans, row, candidates, warned>>

-----------------------------------------------------------------------------
Init ==
  /\ unborn = Scans /\ listed = <<>> /\ scored = {} /\ branded = {}
  /\ row = None /\ loop = None
  /\ candidates = {} /\ warned = {} /\ stranded = FALSE

LoopStep ==
  BeginBatch \/ SkipScored \/ WarnUnbranded \/ ScoreScan \/ RefuseScore \/ EndBatch

Next ==
  \/ \E s \in Scans : CompleteScan(s) \/ DeleteScan(s) \/ Retag(s) \/ ChangeGuideline(s)
  \/ StartRescore \/ LoopStep \/ FailBatch \/ LoseLoop

Spec == Init /\ [][Next]_vars

\* The event loop comes back to a pending continuation: every loop goes on.
FairSpec == Spec /\ WF_vars(LoopStep)

-----------------------------------------------------------------------------
(* Properties *)

Tallied(progress) ==
  progress.processed = progress.scored + progress.skipped + progress.warned

\* Types; and what the progress page adds up: every scan behind the loop is in
\* exactly one of the three counts, in the row and in the loop.
RescoreTypeOK ==
  /\ unborn \subseteq Scans /\ listed \in Seq(Scans \ unborn)
  /\ scored \subseteq Listed /\ branded \subseteq Scans
  /\ candidates \subseteq Scans /\ warned \subseteq Scans
  /\ stranded \in BOOLEAN
  /\ row # None => row \in Progress /\ Tallied(row)
  /\ loop # None => loop \in Loop /\ Tallied(loop.progress)

\* The row is the lock: while a loop works the row says so, whatever is stored,
\* deleted or refused around it; and a row that says so has a loop, unless the
\* process stopped or the row itself could not be read or written. Such a row
\* refuses every later start, and nothing but a user of the database removes it.
RunningRowHasLoop ==
  /\ loop # None => Running
  /\ Running /\ ~stranded => loop # None

\* The row is the resume point: no candidate it has passed was left without a
\* score or a warning, though scans come and go in the list it is found in again.
PassedMeansJudged ==
  row # None =>
    \A i \in 1..StartIndex(row.last) :
      listed[i] \in candidates => listed[i] \in scored \cup warned

\* processLoop asks for batches while the row runs: it ends, unless one of the
\* scans it counted is deleted meanwhile (then the processed scans may never
\* reach the total, and it asks for ever).
RescoreEnds == loop # None ~> loop = None \/ ~(candidates \subseteq Listed)

\* rescore-service.ts:65: "Start a rescore for all completed scans in the org that
\* lack a brand score": a completed rescore leaves none of those it counted, and
\* still finds, without a score or a warning.
CompletedCoversCandidates ==
  row # None /\ row.status = "completed" =>
    candidates \cap Listed \subseteq scored \cup warned
=============================================================================

----------------------------- MODULE Schedules -----------------------------
(***************************************************************************)
(* What the dashboard does on a timer for its users: scheduled scans       *)
(* (scheduler.ts), e-mail reports (email/scheduler.ts) and digests         *)
(* (email/digest-scheduler.ts), beside the users who create, pause, delete *)
(* and send them by hand.                                                  *)
(*                                                                         *)
(* A tick lists the due rows of its kind and works through the list. Scans *)
(* are claimed before they start and ticks of scans do not overlap; a mail *)
(* is sent first and the row moved on afterwards, and ticks may overlap.   *)
(***************************************************************************)
EXTENDS Naturals, Sequences, SequencesExt, FiniteSets

CONSTANTS
  Ids,        \* schedules of any kind
  NoRow,      \* a schedule that does not exist yet
  Gone,       \* one that was deleted
  Never,      \* no time: null in lastRunAt and lastSentAt
  Idle,       \* no pass
  Period,     \* daily, weekly, monthly
  Overlap,    \* bound: passes of e-mails, and of digests, at one time
  MaxTime,    \* bound: last value of the clock
  MaxFaults   \* bound: storage errors, failed builds, stops, sends by hand

ASSUME IdsAssumption == IsFiniteSet(Ids)
ASSUME PeriodAssumption == Period \in Nat \ {0}
ASSUME BoundAssumption ==
  Overlap \in Nat \ {0} /\ MaxTime \in Nat /\ MaxFaults \in Nat

\* A row of scan_schedules, email_reports or digest_schedules.
Rows == [enabled : BOOLEAN, created : Nat, last : Nat \cup {Never}, next : Nat]

\* A pass: the schedules it has still to do, as they were listed, the clock its tick
\* read, how far it is with the first of them and when it began to build its digest.
Passes ==
  [todo  : Seq([id : Ids, last : Nat \cup {Never}, next : Nat, created : Nat]),
   now   : Nat,
   phase : {"next", "claimed", "sending", "sent"},
   end   : Nat]

ASSUME NameAssumption ==
  Idle \notin Passes /\ NoRow \notin Rows /\ Gone \notin Rows /\ NoRow # Gone

VARIABLES
  now,      \* the clock
  kind,     \* scan, email or digest (bound: one of them in a behaviour)
  row,      \* the schedules stored
  pass,     \* what the ticks and the sends by hand are doing
  faults,   \* faults so far
  sends,    \* the last two starts or mails of a schedule (history)
  excused,  \* e-mail reports of which an early mail has a cause (history)
  told      \* instants in the period or in the delivery of a digest (history)

vars == <<now, kind, row, pass, faults, sends, excused, told>>
history == <<sends, excused, told>>

-----------------------------------------------------------------------------
Kinds == {"scan", "email", "digest"}

\* Mutant: ticks of scans overlap like those of mails.
SlotsUnguarded == Kinds \X (1..Overlap)

\* The guard inFlight lets one pass of scans run; the mail ticks have none.
Slots == {<<"scan", 1>>} \cup {<<k, i>> : k \in {"email", "digest"}, i \in 1..Overlap}

Exists(s) == row[s] \notin {NoRow, Gone}
Due(s) == Exists(s) /\ row[s].enabled /\ row[s].next <= now

\* An UPDATE of a row that is gone changes nothing.
Written(s, last, next) ==
  IF Exists(s) THEN [row EXCEPT ![s].last = last, ![s].next = next] ELSE row

\* The schedule a pass is at, as it was when it was listed.
Item(p) == Head(pass[p].todo)
At(p, phase) == pass[p] # Idle /\ pass[p].phase = phase
Holders(s) ==
  {p \in Slots : pass[p] # Idle /\ \E i \in DOMAIN pass[p].todo : pass[p].todo[i].id = s}

Listing(s) == [id |-> s, last |-> row[s].last, next |-> row[s].next,
               created |-> row[s].created]

Move(p, phase) == pass' = [pass EXCEPT ![p].phase = phase]

\* On to the next of the list; the last one ends the pass.
Drop(p) ==
  pass' = [pass EXCEPT ![p] =
             IF Len(pass[p].todo) = 1 THEN Idle
             ELSE [pass[p] EXCEPT !.todo = Tail(pass[p].todo), !.phase = "next"]]

\* A start or a mail joins the one before it.
Sent(s, at) ==
  LET new == [at |-> at, cause |-> excused[s]] IN
  sends' = [sends EXCEPT ![s] = IF @ = <<>> THEN <<new>> ELSE <<Last(@), new>>]

Fault == faults < MaxFaults /\ faults' = faults + 1

-----------------------------------------------------------------------------
(* Users and time *)

\* Bound: only scans stand beside each other; their ticks must not overlap, and
\* schedules of other kinds share nothing.
Alone(s) == \A r \in Ids \ {s} : row[r] = NoRow \/ kind[s] = "scan"

Create(s) ==
  /\ row[s] = NoRow /\ Alone(s)
  /\ row' = [row EXCEPT ![s] = [enabled |-> TRUE, created |-> now, last |-> Never,
                                next |-> now + Period]]
  /\ UNCHANGED <<now, kind, pass, faults, history>>

Toggle(s) ==
  /\ Exists(s)
  /\ row' = [row EXCEPT ![s].enabled = ~@]
  /\ UNCHANGED <<now, kind, pass, faults, history>>

Delete(s) ==
  /\ Exists(s)
  /\ row' = [row EXCEPT ![s] = Gone]
  /\ UNCHANGED <<now, kind, pass, faults, history>>

Clock ==
  /\ now < MaxTime
  /\ now' = now + 1
  /\ UNCHANGED <<kind, row, pass, faults, history>>

\* A mail of a row another pass is at, and one sent by hand, may follow early.
Begin(p, todo, early) ==
  /\ pass[p] = Idle
  /\ pass' = [pass EXCEPT ![p] = [todo |-> todo, now |-> now, phase |-> "next", end |-> now]]
  /\ excused' = [s \in Ids |->
       \/ excused[s]
       \/ (early \/ Holders(s) # {}) /\ \E i \in DOMAIN todo : todo[i].id = s]
  /\ UNCHANGED <<now, kind, row, sends, told>>

\* A tick reads the clock once and lists what is due, in any order.
Tick(p) ==
  LET due == {s \in Ids : kind[s] = p[1] /\ Due(s)} IN
  /\ due # {}
  /\ \E order \in SetToSeqs(due) :
       Begin(p, [i \in DOMAIN order |-> Listing(order[i])], FALSE)
  /\ UNCHANGED faults

\* POST .../send-now runs the code of the tick on one row, due or not.
SendNow(p, s) ==
  /\ Exists(s) /\ kind[s] = p[1] /\ kind[s] # "scan"
  /\ Fault
  /\ Begin(p, <<Listing(s)>>, TRUE)

-----------------------------------------------------------------------------
(* Scans: runDueSchedules *)

\* The claim: last and next run count from the clock the tick read.
Claim(p) ==
  /\ p[1] = "scan" /\ At(p, "next")
  /\ row' = Written(Item(p).id, pass[p].now, pass[p].now + Period)
  /\ Move(p, "claimed")
  /\ UNCHANGED <<now, kind, faults, history>>

ClaimFails(p) ==
  /\ p[1] = "scan" /\ At(p, "next")
  /\ Fault
  /\ Drop(p)
  /\ UNCHANGED <<now, kind, row, history>>

\* startScheduledScan starts the scan, refuses its URL, or throws.
StartScan(p) ==
  /\ p[1] = "scan" /\ At(p, "claimed")
  /\ UNCHANGED sends \/ Sent(Item(p).id, pass[p].now)
  /\ Drop(p)
  /\ UNCHANGED <<now, kind, row, faults, excused, told>>

-----------------------------------------------------------------------------
(* E-mail reports: processEmailReport *)

\* No completed scan, no report of it, or nobody to send to: the row stays due.
SkipReport(p) ==
  /\ p[1] = "email" /\ At(p, "next")
  /\ Drop(p)
  /\ UNCHANGED <<now, kind, row, faults, history>>

SendMail(p) ==
  /\ p[1] = "email" /\ At(p, "next")
  /\ Sent(Item(p).id, now)
  /\ excused' = [excused EXCEPT ![Item(p).id] = Holders(Item(p).id) # {p}]
  /\ Move(p, "sent")
  /\ UNCHANGED <<now, kind, row, faults, told>>

\* Recipients are served one by one: the first may have the mail when a later one
\* is refused. The row stays due.
MailFails(p) ==
  /\ p[1] = "email" /\ At(p, "next")
  /\ UNCHANGED sends \/ Sent(Item(p).id, now)
  /\ excused' = [excused EXCEPT ![Item(p).id] = TRUE]
  /\ Drop(p)
  /\ UNCHANGED <<now, kind, row, faults, told>>

\* Mutant: the next mail counts from the time this one was due.
AdvanceReportFromDue(p) ==
  /\ p[1] = "email" /\ At(p, "sent")
  /\ row' = Written(Item(p).id, now, Item(p).next + Period)
  /\ Drop(p)
  /\ UNCHANGED <<now, kind, faults, history>>

AdvanceReport(p) ==
  /\ p[1] = "email" /\ At(p, "sent")
  /\ row' = Written(Item(p).id, now, now + Period)
  /\ Drop(p)
  /\ UNCHANGED <<now, kind, faults, history>>

-----------------------------------------------------------------------------
(* Digests: processDigest *)

\* The period ends when the work begins.
BuildDigest(p) ==
  /\ p[1] = "digest" /\ At(p, "next")
  /\ pass' = [pass EXCEPT ![p].phase = "sending", ![p].end = now]
  /\ UNCHANGED <<now, kind, row, faults, history>>

\* Mutant: a digest that could not be built moves its row on as well.
BuildFailsMovesOn(p) ==
  /\ p[1] = "digest" /\ At(p, "next")
  /\ Fault
  /\ row' = Written(Item(p).id, now, now + Period)
  /\ Drop(p)
  /\ UNCHANGED <<now, kind, history>>

BuildFails(p) ==
  /\ p[1] = "digest" /\ At(p, "next")
  /\ Fault
  /\ Drop(p)
  /\ UNCHANGED <<now, kind, row, history>>

PeriodStart(item) == IF item.last = Never THEN item.created ELSE item.last

\* Mutant: the first channel that fails ends the work.
DeliverOrThrow(p) ==
  /\ p[1] = "digest" /\ At(p, "sending")
  /\ \/ /\ told' = [told EXCEPT ![Item(p).id] = @ \cup PeriodStart(Item(p))..pass[p].end]
        /\ Move(p, "sent")
     \/ /\ Drop(p)
        /\ UNCHANGED told
  /\ UNCHANGED <<now, kind, row, faults, sends, excused>>

\* Every channel is tried, whichever of them fail.
Deliver(p) ==
  /\ p[1] = "digest" /\ At(p, "sending")
  /\ told' = [told EXCEPT ![Item(p).id] = @ \cup PeriodStart(Item(p))..pass[p].end]
  /\ Move(p, "sent")
  /\ UNCHANGED <<now, kind, row, faults, sends, excused>>

\* From the time it was due, unless that is in the future or long past.
NextDigest(scheduled) ==
  (IF scheduled <= now /\ now - scheduled <= Period THEN scheduled ELSE now) + Period

AdvanceDigest(p) ==
  /\ p[1] = "digest" /\ At(p, "sent")
  /\ row' = Written(Item(p).id, now, NextDigest(Item(p).next))
  /\ told' = [told EXCEPT ![Item(p).id] = @ \cup pass[p].end..now]
  /\ Drop(p)
  /\ UNCHANGED <<now, kind, faults, sends, excused>>

-----------------------------------------------------------------------------
(* Faults of both mails *)

\* The row is not written although the mail was sent.
AdvanceFails(p) ==
  /\ p[1] # "scan" /\ At(p, "sent")
  /\ Fault
  /\ excused' = [excused EXCEPT ![Item(p).id] = TRUE]
  /\ Drop(p)
  /\ UNCHANGED <<now, kind, row, sends, told>>

Crash ==
  /\ Fault
  /\ pass' = [p \in Slots |-> Idle]
  /\ excused' = [s \in Ids |-> excused[s] \/ Holders(s) # {}]
  /\ UNCHANGED <<now, kind, row, sends, told>>

-----------------------------------------------------------------------------
Init ==
  /\ now = 0
  /\ \E k \in Kinds : kind = [s \in Ids |-> k]
  /\ row = [s \in Ids |-> NoRow]
  /\ pass = [p \in Slots |-> Idle]
  /\ faults = 0
  /\ sends = [s \in Ids |-> <<>>]
  /\ excused = [s \in Ids |-> FALSE]
  /\ told = [s \in Ids |-> {}]

\* What a pass does next when nothing fails.
Work(p) ==
  \/ Claim(p) \/ StartScan(p)
  \/ SendMail(p) \/ AdvanceReport(p)
  \/ BuildDigest(p) \/ Deliver(p) \/ AdvanceDigest(p)

PassFails(p) ==
  ClaimFails(p) \/ SkipReport(p) \/ MailFails(p) \/ BuildFails(p) \/ AdvanceFails(p)

Next ==
  \/ \E s \in Ids : Create(s) \/ Toggle(s) \/ Delete(s)
  \/ Clock
  \/ \E p \in Slots : \/ Tick(p) \/ Work(p) \/ PassFails(p)
                      \/ \E s \in Ids : SendNow(p, s)
  \/ Crash

Spec == Init /\ [][Next]_vars

\* The interval timers fire, and what a pass waits for ends, well or badly.
FairSpec ==
  /\ Spec
  /\ \A p \in Slots : WF_vars(Tick(p)) /\ WF_vars(Work(p) \/ PassFails(p))

-----------------------------------------------------------------------------
(* Properties *)

\* A schedule starts at most one scan in a period, whatever ticks, stops, failures
\* and pauses come in between: scheduler.ts:43 "so a later pass over the same
\* instant does not find it due and start it twice".
StartsArePeriodApart ==
  \A s \in Ids : kind[s] = "scan" /\ Len(sends[s]) = 2 =>
    sends[s][2].at >= sends[s][1].at + Period

\* Two mails of a report are a period apart, unless ticks overlapped at it, it was
\* sent by hand, a recipient or the write behind a mail failed, or the process
\* stopped at it: the sends and rows of one tick after the other never repeat one.
EarlyMailHasCause ==
  \A s \in Ids : kind[s] = "email" /\ Len(sends[s]) = 2 =>
    sends[s][2].cause \/ sends[s][2].at >= sends[s][1].at + Period

\* Up to the last send of a digest every instant was in the period of one, or is
\* within the delivery of one (the period ends as the work begins, the next starts
\* when it has ended): failed builds, stops and overlapping ticks lose none.
GapsAreDeliveries ==
  \A s \in Ids : kind[s] = "digest" /\ Exists(s) /\ row[s].last # Never =>
    row[s].created..row[s].last \subseteq told[s]

\* A due scan or digest is moved on (or removed, or paused): no channel that fails
\* for ever, refused start or fault keeps it due. digest-scheduler.ts:12: "a
\* misconfigured channel CANNOT wedge the schedule".
DueIsMovedOn ==
  \A s \in Ids : kind[s] # "email" /\ Due(s) ~> ~Due(s)
=============================================================================

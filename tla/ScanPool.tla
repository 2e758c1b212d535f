------------------------------ MODULE ScanPool ------------------------------
(***************************************************************************)
(* What the scan pool promises, without rows, calls or the way a job ends: *)
(* jobs are numbered in the order they are submitted, started in that      *)
(* order, never more than MaxConcurrent at a time and never fewer than     *)
(* there is work for, and every one of them ends unless the process dies.  *)
(***************************************************************************)
EXTENDS Integers, FiniteSets

CONSTANTS MaxConcurrent,  \* size of the pool
          MaxSubmitted    \* jobs one process sees at most (for fairness only)

VARIABLES submitted,  \* jobs submitted so far
          started,    \* jobs started so far: the first ones submitted
          ended       \* jobs that have ended

poolVars == <<submitted, started, ended>>

Init == submitted = 0 /\ started = 0 /\ ended = {}

Working == (1..started) \ ended

\* A job submitted while there is room starts at once.
Submit ==
  /\ submitted' = submitted + 1
  /\ IF Cardinality(Working) < MaxConcurrent
     THEN started' = started + 1
     ELSE UNCHANGED started
  /\ UNCHANGED ended

\* A job ends and hands its place to the oldest one waiting.
End(j) ==
  /\ j \in Working
  /\ ended' = ended \cup {j}
  /\ IF started < submitted
     THEN started' = started + 1
     ELSE UNCHANGED started
  /\ UNCHANGED submitted

\* The process dies with all it holds.
Reset == submitted' = 0 /\ started' = 0 /\ ended' = {}

Next == Submit \/ Reset \/ \E j \in Working : End(j)

Spec == Init /\ [][Next]_poolVars

\* Every job that starts ends, unless the process dies first.
FairSpec == Spec /\ \A j \in 1..MaxSubmitted : WF_poolVars(End(j))

-----------------------------------------------------------------------------
\* Room is never left while a job waits, and never overdrawn.
Bounded == Cardinality(Working) <= MaxConcurrent
NoIdleRoom == started < submitted => Cardinality(Working) = MaxConcurrent
=============================================================================

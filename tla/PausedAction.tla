---------------------------- MODULE PausedAction ----------------------------
(***************************************************************************)
(* What the agent companion promises about the destructive tool calls it   *)
(* pauses: one is proposed once, and runs at most once, only between an    *)
(* approval and the end of it. An approval may come to nothing, and then   *)
(* the action is proposed again or closed for good.                        *)
(***************************************************************************)
EXTENDS Naturals

VARIABLES
  proposed,  \* actions waiting for the user
  approved,  \* actions whose approval is being carried out
  executed,  \* actions that have run
  closed     \* actions that will never run

vars == <<proposed, approved, executed, closed>>

Init == proposed = {} /\ approved = {} /\ executed = {} /\ closed = {}

Seen == proposed \cup approved \cup executed \cup closed

Propose ==
  /\ proposed \subseteq proposed'
  /\ \E a \in proposed' : a \notin Seen /\ proposed' = proposed \cup {a}
  /\ UNCHANGED <<approved, executed, closed>>

Approve ==
  /\ \E a \in proposed :
       /\ proposed' = proposed \ {a}
       /\ approved' = approved \cup {a}
  /\ UNCHANGED <<executed, closed>>

Return ==
  /\ \E a \in approved :
       /\ approved' = approved \ {a}
       /\ proposed' = proposed \cup {a}
  /\ UNCHANGED <<executed, closed>>

Execute ==
  /\ \E a \in approved :
       /\ approved' = approved \ {a}
       /\ executed' = executed \cup {a}
  /\ UNCHANGED <<proposed, closed>>

\* Declined, withdrawn with its question, deleted, expired, or approved in vain.
Close ==
  /\ \E lost \in SUBSET (proposed \cup approved) :
       /\ proposed' = proposed \ lost
       /\ approved' = approved \ lost
       /\ closed' = closed \cup lost
  /\ UNCHANGED executed

Next == Propose \/ Approve \/ Return \/ Execute \/ Close

Spec == Init /\ [][Next]_vars
=============================================================================

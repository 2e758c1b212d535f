---------------------------- MODULE AgentHistory ----------------------------
(***************************************************************************)
(* What the model is sent: the messages windowToChatMessages makes of the  *)
(* rows in the window of AgentConversation. A tool message carries no id;  *)
(* it answers the calls of the assistant message before it by position.    *)
(***************************************************************************)
EXTENDS AgentConversation

\* A message by its role and the number of calls it declares.
Message(role, declares) == [role |-> role, declares |-> declares]

\* The rows of the window without tool rows that have no result: a paused row stays
\* one when it is resolved, and is never sent.
Sent == {i \in Window : rows[i].kind # "action"}

\* toolRowCallIds, and the ids of a batch.
CallsOf(n) == {rows[n].calls[k] : k \in DOMAIN rows[n].calls}

\* Mutant: every call of a batch counts as answered.
AnsweredAssumed(n) == CallsOf(n)

\* The tool rows directly after the n-th row.
Following(n) ==
  {m \in Sent : n < m /\ \A k \in Sent : n < k /\ k <= m => rows[k].kind = "result"}

\* answeredCallIds: what they answer.
Answered(n) == UNION {CallsOf(m) : m \in Following(n)}

Declared(n) == CallsOf(n) \cap Answered(n)

\* One row: a result whose call was not declared last gets an assistant message of
\* its own; a batch declares the calls that are answered, or is left out.
Send(acc, n) ==
  CASE n \in Sent /\ rows[n].kind = "result" /\ CallsOf(n) \subseteq acc.covered ->
         [acc EXCEPT !.out = Append(@, Message("tool", 0))]
    [] n \in Sent /\ rows[n].kind = "result" /\ ~(CallsOf(n) \subseteq acc.covered) ->
         [out |-> acc.out \o <<Message("assistant", 1), Message("tool", 0)>>,
          covered |-> CallsOf(n)]
    [] n \in Sent /\ rows[n].kind = "batch" /\ Declared(n) # {} ->
         [out |-> Append(acc.out, Message("assistant", Cardinality(Declared(n)))),
          covered |-> Declared(n)]
    [] n \in Sent /\ rows[n].kind = "batch" /\ Declared(n) = {} ->
         [acc EXCEPT !.covered = {}]
    [] n \in Sent /\ rows[n].kind \notin {"result", "batch"} ->
         [out |-> Append(acc.out, Message(IF rows[n].kind = "question" THEN "user" ELSE "assistant", 0)),
          covered |-> {}]
    [] OTHER -> acc

\* The messages of the first n rows.
Made[n \in 0..Len(rows)] ==
  IF n = 0 THEN [out |-> <<>>, covered |-> {}] ELSE Send(Made[n - 1], n)

ChatMessages == Made[Len(rows)].out

-----------------------------------------------------------------------------
\* Every declared call has its tool message, n calls and then n tool messages; and
\* every tool message its call.
WellFormed(h) ==
  /\ \A n \in DOMAIN h : h[n].declares > 0 =>
       LET last == n + h[n].declares
       IN  /\ last <= Len(h)
           /\ \A k \in n + 1 .. last : h[k].role = "tool"
           /\ last < Len(h) => h[last + 1].role # "tool"
  /\ \A k \in DOMAIN h : h[k].role = "tool" =>
       \E n \in 1..k - 1 : k <= n + h[n].declares

\* The result of a confirmed, declined or expired action has come between a batch
\* and a result of that batch.
ResultInsideBatch ==
  \E i, j, k \in Window :
    /\ i < j /\ j < k
    /\ rows[i].kind = "batch"
    /\ rows[j].kind = "result" /\ rows[j].run = None
    /\ rows[k].kind = "result" /\ rows[k].run = rows[i].run

\* Withdrawn branches, replaced turns, hidden rows and stale paused rows never make
\* the history one a provider refuses (a call with no tool message, a tool message
\* with no call). Only a paused action resolved while a batch of another turn is
\* still running can: its result lands between that batch and its results.
HistoryIsWellFormed == WellFormed(ChatMessages) \/ ResultInsideBatch

=============================================================================

--------------------- MODULE AgentConversation_proofs ---------------------
(***************************************************************************)
(* Theorems about AgentConversation for any streams, requests and texts,   *)
(* any window and any number of rows, and its refinement of PausedAction.  *)
(***************************************************************************)
EXTENDS AgentConversation, TLAPS, SequenceTheorems, FiniteSetTheorems,
        WellFoundedInduction

-----------------------------------------------------------------------------
(* The newest row of a set, and what a write leaves of the others *)

\* A set of places in a sequence that is not empty has a last one.
LEMMA LatestIsLast ==
  ASSUME NEW n \in Nat, NEW S \in SUBSET (1..n), S # {}
  PROVE  Latest(S) \in S /\ \A j \in S : j <= Latest(S)
<1> DEFINE T == {n - i : i \in S}
<1>0. \A i \in S : i \in 1..n /\ n - i \in Nat
  OBVIOUS
<1>1. T \subseteq Nat /\ T # {}
  BY <1>0
<1>2. PICK m \in T : \A y \in T : ~ (<<y, m>> \in OpToRel(<, Nat))
  BY <1>1, NatLessThanWellFounded, WFMin
<1>3. \A y \in T : m <= y
  <2>1. SUFFICES ASSUME NEW y \in T, y < m
                 PROVE  FALSE
    BY <1>1, SMT
  <2>2. <<y, m>> \in OpToRel(<, Nat)
    BY <1>1, <2>1, SMT DEF OpToRel
  <2>3. QED
    BY <1>2, <2>2
<1>4. PICK i \in S : m = n - i
  BY <1>2
<1>5. \A j \in S : n - j \in T
  OBVIOUS
<1>6. \A j \in S : j <= i
  BY <1>3, <1>4, <1>5
<1>7. QED
  BY <1>6 DEF Latest

\* All of a row but its place in the window.
SameRow(a, b) ==
  /\ a.kind = b.kind /\ a.status = b.status /\ a.run = b.run /\ a.follows = b.follows
  /\ a.calls = b.calls /\ a.raw = b.raw /\ a.old = b.old /\ a.ran = b.ran

\* The writes on the columns of a stored row.
LEMMA RowMarked ==
  ASSUME NEW x \in Row
  PROVE  /\ [x EXCEPT !.shown = FALSE] \in Row /\ SameRow([x EXCEPT !.shown = FALSE], x)
         /\ [x EXCEPT !.old = TRUE] \in Row
<1>1. [x EXCEPT !.shown = FALSE] \in Row /\ [x EXCEPT !.old = TRUE] \in Row
  BY DEF Row
<1>2. SameRow([x EXCEPT !.shown = FALSE], x)
  BY DEF Row, SameRow
<1>3. QED
  BY <1>1, <1>2

LEMMA RowRuns ==
  ASSUME NEW x \in Row, NEW n \in Nat
  PROVE  [x EXCEPT !.ran = n] \in Row
  BY DEF Row

LEMMA RowMoves ==
  ASSUME NEW x \in Row, NEW st \in Statuses, NEW b \in BOOLEAN
  PROVE  /\ [x EXCEPT !.status = st] \in Row
         /\ [x EXCEPT !.status = st, !.raw = b] \in Row
<1>1. [x EXCEPT !.status = st] \in Row
  BY DEF Row
<1>2. [x EXCEPT !.status = st, !.raw = b] \in Row
  BY DEF Row
<1>3. QED
  BY <1>1, <1>2

LEMMA HideKeeps ==
  ASSUME NEW rs \in Seq(Row), NEW b
  PROVE  /\ HideBefore(rs, b) \in Seq(Row)
         /\ Len(HideBefore(rs, b)) = Len(rs)
         /\ \A i \in 1..Len(rs) : SameRow(HideBefore(rs, b)[i], rs[i])
<1> DEFINE h == HideBefore(rs, b)
<1>1. DOMAIN rs = 1..Len(rs) /\ Len(rs) \in Nat /\ \A i \in 1..Len(rs) : rs[i] \in Row
  BY ElementOfSeq, LenProperties
<1>2. h = [i \in 1..Len(rs) |-> h[i]]
  BY <1>1 DEF HideBefore
<1>3. \A i \in 1..Len(rs) : h[i] = rs[i] \/ h[i] = [rs[i] EXCEPT !.shown = FALSE]
  BY <1>1 DEF HideBefore
<1>4. \A i \in 1..Len(rs) : h[i] \in Row /\ SameRow(h[i], rs[i])
  <2>1. ASSUME NEW i \in 1..Len(rs)
        PROVE  h[i] \in Row /\ SameRow(h[i], rs[i])
    <3>1. CASE h[i] = rs[i]
      BY <1>1, <3>1 DEF SameRow
    <3>2. CASE h[i] = [rs[i] EXCEPT !.shown = FALSE]
      BY <1>1, <3>2, RowMarked
    <3>3. QED
      BY <1>3, <3>1, <3>2
  <2>2. QED
    BY <2>1
<1>5. h \in [1..Len(rs) -> Row]
  BY <1>2, <1>4
<1>6. h \in Seq(Row) /\ Len(h) = Len(rs)
  BY <1>1, <1>5, SeqDef
<1>7. QED
  BY <1>4, <1>6

LEMMA Inserted ==
  ASSUME NEW rs \in Seq(Row), NEW r \in Row
  PROVE  /\ Insert(rs, r) \in Seq(Row)
         /\ Len(Insert(rs, r)) = Len(rs) + 1
         /\ \A i \in 1..Len(rs) : SameRow(Insert(rs, r)[i], rs[i])
         /\ SameRow(Insert(rs, r)[Len(rs) + 1], r)
<1> DEFINE grown == Append(rs, r)
<1>1. /\ grown \in Seq(Row) /\ Len(rs) \in Nat /\ Len(grown) = Len(rs) + 1
      /\ \A i \in 1..Len(rs) : grown[i] = rs[i]
      /\ grown[Len(rs) + 1] = r
  BY LenProperties
<1>2. CASE Insert(rs, r) = grown
  BY <1>1, <1>2 DEF SameRow
<1>3. CASE \E b : Insert(rs, r) = HideBefore(grown, b)
  <2>1. PICK b : Insert(rs, r) = HideBefore(grown, b)
    BY <1>3
  <2>2. /\ HideBefore(grown, b) \in Seq(Row)
        /\ Len(HideBefore(grown, b)) = Len(grown)
        /\ \A i \in 1..Len(grown) : SameRow(HideBefore(grown, b)[i], grown[i])
    BY <1>1, HideKeeps
  <2>3. QED
    BY <1>1, <2>1, <2>2
<1>4. QED
  BY <1>2, <1>3 DEF Insert

LEMMA Superseded ==
  ASSUME NEW rs \in Seq(Row), NEW S
  PROVE  /\ Supersede(rs, S) \in Seq(Row)
         /\ Len(Supersede(rs, S)) = Len(rs)
         /\ \A i \in 1..Len(rs) :
              IF i \in S
              THEN Supersede(rs, S)[i] = [rs[i] EXCEPT !.status = "superseded", !.raw = FALSE]
              ELSE Supersede(rs, S)[i] = rs[i]
<1> DEFINE h == Supersede(rs, S)
<1>1. DOMAIN rs = 1..Len(rs) /\ Len(rs) \in Nat /\ \A i \in 1..Len(rs) : rs[i] \in Row
  BY ElementOfSeq, LenProperties
<1>2. h = [i \in 1..Len(rs) |-> h[i]]
  BY <1>1 DEF Supersede
<1>3. \A i \in 1..Len(rs) :
        IF i \in S THEN h[i] = [rs[i] EXCEPT !.status = "superseded", !.raw = FALSE]
        ELSE h[i] = rs[i]
  BY <1>1 DEF Supersede
<1>4. \A i \in 1..Len(rs) : h[i] \in Row
  BY <1>1, <1>3, RowMoves DEF Statuses
<1>5. h \in [1..Len(rs) -> Row]
  BY <1>2, <1>4
<1>6. h \in Seq(Row) /\ Len(h) = Len(rs)
  BY <1>1, <1>5, SeqDef
<1>7. QED
  BY <1>3, <1>6

-----------------------------------------------------------------------------
(* What a step does to the rows *)

\* Nothing but hiding; or one row more, at the end.
Quiet ==
  /\ rows' \in Seq(Row) /\ Len(rows') = Len(rows)
  /\ \A i \in 1..Len(rows) : SameRow(rows'[i], rows[i])

Grows(r) ==
  /\ rows' \in Seq(Row) /\ Len(rows') = Len(rows) + 1
  /\ \A i \in 1..Len(rows) : SameRow(rows'[i], rows[i])
  /\ SameRow(rows'[Len(rows) + 1], r)

\* One row written by its columns.
Writes(i, r) == i \in 1..Len(rows) /\ r \in Row /\ rows' = [rows EXCEPT ![i] = r]

LEMMA StoredRows ==
  ASSUME rows \in Seq(Row)
  PROVE  /\ Len(rows) \in Nat /\ DOMAIN rows = 1..Len(rows)
         /\ \A i \in 1..Len(rows) : rows[i] \in Row
  BY ElementOfSeq, LenProperties

LEMMA UnchangedIsQuiet ==
  ASSUME rows \in Seq(Row), UNCHANGED rows
  PROVE  Quiet
  BY DEF Quiet, SameRow

LEMMA InsertGrows ==
  ASSUME rows \in Seq(Row), NEW r \in Row, rows' = Insert(rows, r)
  PROVE  Grows(r)
  BY Inserted DEF Grows

LEMMA WritesTyped ==
  ASSUME rows \in Seq(Row), NEW i, NEW r, Writes(i, r)
  PROVE  /\ rows' \in Seq(Row) /\ Len(rows') = Len(rows)
         /\ rows'[i] = r
         /\ \A j \in 1..Len(rows) : j # i => rows'[j] = rows[j]
  BY ExceptSeq DEF Writes

-----------------------------------------------------------------------------
(* Typing *)

TurnOK(t, n) == t \in Turn /\ t.last \in 0..n
TurnsOK(n) == \A s \in Streams : TurnOK(turn[s], n)

LEMMA NewRowTyped ==
  ASSUME NEW kind \in Kinds, NEW status \in Statuses, NEW run \in Streams \cup {None},
         NEW follows \in Nat, NEW text \in Texts \cup {None}, NEW calls \in Seq(CallIds)
  PROVE  LET r == NewRow(kind, status, run, follows, text, calls)
         IN  /\ r \in Row
             /\ r.kind = kind /\ r.status = status /\ r.run = run /\ r.follows = follows
             /\ r.raw = (status = "pending") /\ r.old = FALSE /\ r.ran = 0
  BY DEF NewRow, Row

LEMMA CallsTyped ==
  ASSUME ConversationTypeOK, NEW s \in Streams
  PROVE  /\ \A k \in Nat : Call(s, k) \in CallIds /\ <<Call(s, k)>> \in Seq(CallIds)
         /\ \A n \in Nat : [k \in 1..n |-> Call(s, k)] \in Seq(CallIds)
<1>1. \A k \in Nat : Call(s, k) \in CallIds
  BY DEF ConversationTypeOK, Turn, Call, CallIds
<1>2. ASSUME NEW n \in Nat
      PROVE  [k \in 1..n |-> Call(s, k)] \in Seq(CallIds)
  <2>1. [k \in 1..n |-> Call(s, k)] \in [1..n -> CallIds]
    BY <1>1
  <2>2. QED
    BY <2>1, SeqDef
<1>3. \A k \in Nat : <<Call(s, k)>> \in Seq(CallIds)
  BY <1>1
<1>4. QED
  BY <1>1, <1>2, <1>3

\* A row that a turn writes: of its run, after a row that is stored, not withdrawn,
\* and paused exactly when it is an action.
TurnRow(s, r) ==
  /\ r \in Row
  /\ r.run = s /\ r.follows \in 0..Len(rows)
  /\ r.raw = (r.status = "pending") /\ r.old = FALSE /\ r.ran = 0
  /\ (r.status = "pending" <=> r.kind = "action") /\ r.status # "superseded"

LEMMA FollowTyped ==
  ASSUME ConversationTypeOK, NEW s \in Streams,
         NEW kind \in Kinds, NEW status \in Statuses, NEW calls \in Seq(CallIds),
         status = "pending" <=> kind = "action", status # "superseded"
  PROVE  /\ TurnRow(s, Follow(s, kind, status, calls))
         /\ Follow(s, kind, status, calls).follows = turn[s].last
         /\ Follow(s, kind, status, calls).kind = kind
         /\ Follow(s, kind, status, calls).status = status
<1> DEFINE r == NewRow(kind, status, s, turn[s].last, None, calls)
<1>1. turn[s].last \in 0..Len(rows) /\ turn[s].last \in Nat
  BY DEF ConversationTypeOK, Turn
<1>2. /\ r \in Row
      /\ r.kind = kind /\ r.status = status /\ r.run = s /\ r.follows = turn[s].last
      /\ r.raw = (status = "pending") /\ r.old = FALSE /\ r.ran = 0
  <2>1. s \in Streams \cup {None} /\ None \in Texts \cup {None}
    OBVIOUS
  <2>2. QED
    BY <1>1, <2>1 DEF NewRow, Row
<1>3. Follow(s, kind, status, calls) = r
  BY DEF Follow
<1> HIDE DEF r
<1>4. QED
  BY <1>1, <1>2, <1>3 DEF TurnRow

\* The types of turns when one of them takes a step and rows only grow.
LEMMA OneTurnTyped ==
  ASSUME ConversationTypeOK, NEW s \in Streams, NEW t \in Turn, NEW n \in Nat,
         Len(rows) <= n, t.last \in 0..n, turn' = [turn EXCEPT ![s] = t]
  PROVE  /\ turn' \in [Streams -> Turn]
         /\ \A q \in Streams : turn'[q].last \in 0..n
  BY DEF ConversationTypeOK, Turn

-----------------------------------------------------------------------------
(* What a step of a turn does *)

\* A step of a turn under way that stays one: it adds nothing, or a row of its own.
TurnWorks(s) ==
  /\ turn[s].pc \in Listed
  /\ \E t \in Turn :
       /\ turn' = [turn EXCEPT ![s] = t]
       /\ t.pc \in Listed /\ t.aborted = turn[s].aborted
       /\ \/ /\ Quiet /\ t.last \in 0..Len(rows) /\ t.pc # "stop"
          \/ \E r : /\ TurnRow(s, r) /\ Grows(r) /\ Writable(s, r.follows)
                    /\ t.last \in 0..Len(rows) + 1
                    /\ t.pc = "stop" => t.last = Len(rows) + 1 /\ r.kind = "answer"
  /\ UNCHANGED <<token, deleted, registry, request>>

LEMMA OwnTurn ==
  ASSUME ConversationTypeOK, NEW s \in Streams
  PROVE  /\ rows \in Seq(Row) /\ Len(rows) \in Nat
         /\ turn[s] \in Turn /\ turn[s].last \in 0..Len(rows) /\ turn[s].last \in Nat
         /\ turn[s].pc \in TurnPCs /\ turn[s].iter \in Nat /\ turn[s].left \in Seq(CallIds)
         /\ turn[s].aborted \in BOOLEAN /\ turn[s].text \in Texts \cup {None}
  BY StoredRows DEF ConversationTypeOK, Turn

LEMMA Stays ==
  ASSUME ConversationTypeOK, NEW s \in Streams, turn[s].pc \in Listed,
         NEW t \in Turn, turn' = [turn EXCEPT ![s] = t],
         t.pc \in Listed, t.pc # "stop", t.aborted = turn[s].aborted,
         t.last \in 0..Len(rows), Quiet,
         UNCHANGED <<token, deleted, registry, request>>
  PROVE  TurnWorks(s)
  BY DEF TurnWorks

LEMMA Wrote ==
  ASSUME ConversationTypeOK, NEW s \in Streams, turn[s].pc \in Listed,
         NEW r, TurnRow(s, r),
         NEW next \in Turn, next.pc \in Listed, next.aborted = turn[s].aborted,
         next.last \in 0..Len(rows) + 1,
         next.pc = "stop" => next.last = Len(rows) + 1 /\ r.kind = "answer",
         WriteRow(s, r, next),
         UNCHANGED <<token, deleted, registry, request>>
  PROVE  TurnWorks(s)
<1>1. CASE Writable(s, r.follows)
  <2>1. rows' = Insert(rows, r) /\ turn' = [turn EXCEPT ![s] = next]
    BY <1>1 DEF WriteRow
  <2>2. Grows(r)
    BY <2>1, OwnTurn, InsertGrows DEF TurnRow
  <2>3. QED
    BY <1>1, <2>1, <2>2 DEF TurnWorks
<1>2. CASE ~Writable(s, r.follows)
  <2> DEFINE t == [turn[s] EXCEPT !.pc = "end"]
  <2>1. UNCHANGED rows /\ turn' = [turn EXCEPT ![s].pc = "end"]
    BY <1>2 DEF WriteRow, Goto
  <2>2. /\ t \in Turn /\ t.last = turn[s].last /\ t.pc = "end"
        /\ t.aborted = turn[s].aborted
    BY OwnTurn DEF Turn, TurnPCs, Listed
  <2>3. turn' = [turn EXCEPT ![s] = t]
    BY <2>1
  <2> HIDE DEF t
  <2>4. Quiet
    BY <2>1, OwnTurn, UnchangedIsQuiet
  <2>5. QED
    BY <2>2, <2>3, <2>4, OwnTurn, Stays DEF Listed
<1>3. QED
  BY <1>1, <1>2

\* The names and the places that the rows and the turns below are made of.
LEMMA Names ==
  /\ {"question", "answer", "summary", "batch", "result", "action"} \subseteq Kinds
  /\ {"sent", "pending", "denied", "failed", "streaming", "stopped", "superseded"} \subseteq Statuses
  /\ Listed \subseteq TurnPCs /\ TurnPCs = Listed \cup {"idle", "begin", "register", "done"}
  /\ {"ask", "think", "compact", "flip", "call", "store", "final", "stop", "end"} = Listed
  /\ <<>> \in Seq(CallIds)
BY DEF Kinds, Statuses, Listed, TurnPCs

LEMMA WrittenPlace ==
  ASSUME ConversationTypeOK, NEW s \in Streams
  PROVE  turn[s] \in Turn /\ Written \in Nat /\ Written = Len(rows) + 1
  BY OwnTurn DEF Written

LEMMA StoreQuestionWorks ==
  ASSUME ConversationTypeOK, NEW s \in Streams, StoreQuestion(s)
  PROVE  TurnWorks(s)
<1>1. PICK r : r = NewRow("question", "sent", s, 0, turn[s].text, <<>>)
  OBVIOUS
<1>2. PICK t : t = [turn[s] EXCEPT !.pc = "think", !.iter = 1, !.last = Written]
  OBVIOUS
<1>3. turn[s].text \in Texts \cup {None} /\ 0 \in 0..Len(rows)
  BY OwnTurn
<1>4. /\ r \in Row /\ r.kind = "question" /\ r.status = "sent" /\ r.run = s /\ r.follows = 0
      /\ r.raw = FALSE /\ r.old = FALSE /\ r.ran = 0
  BY <1>1, <1>3, Names DEF NewRow, Row
<1>5. TurnRow(s, r)
  BY <1>3, <1>4 DEF TurnRow
<1>6. "think" \in Listed /\ "ask" \in Listed
  BY Names
<1>7. t \in Turn /\ t.pc = "think" /\ t.last = Len(rows) + 1 /\ t.aborted = turn[s].aborted
  BY <1>2, WrittenPlace, Names DEF Turn
<1>8. /\ WriteRow(s, r, t) /\ turn[s].pc = "ask"
      /\ UNCHANGED <<token, deleted, registry, request>>
  BY <1>1, <1>2 DEF StoreQuestion, At
<1>9. QED
  BY <1>5, <1>6, <1>7, <1>8, OwnTurn, Wrote

LEMMA SummariseWorks ==
  ASSUME ConversationTypeOK, NEW s \in Streams, Summarise(s)
  PROVE  TurnWorks(s)
<1>1. PICK r : r = Follow(s, "summary", "sent", <<>>)
  OBVIOUS
<1>2. PICK t : t = [turn[s] EXCEPT !.pc = "flip", !.last = Written]
  OBVIOUS
<1>3. TurnRow(s, r)
  BY <1>1, FollowTyped, Names
<1>4. "flip" \in Listed /\ "compact" \in Listed
  BY Names
<1>5. t \in Turn /\ t.pc = "flip" /\ t.last = Len(rows) + 1 /\ t.aborted = turn[s].aborted
  BY <1>2, WrittenPlace, Names DEF Turn
<1>6. /\ WriteRow(s, r, t) /\ turn[s].pc = "compact"
      /\ UNCHANGED <<token, deleted, registry, request>>
  BY <1>1, <1>2 DEF Summarise, At
<1>7. QED
  BY <1>3, <1>4, <1>5, <1>6, OwnTurn, Wrote

\* A row of a turn that ends it.
LEMMA LastRowWorks ==
  ASSUME ConversationTypeOK, NEW s \in Streams, turn[s].pc \in Listed,
         NEW r, TurnRow(s, r), WriteRow(s, r, [turn[s] EXCEPT !.pc = "end"]),
         UNCHANGED <<token, deleted, registry, request>>
  PROVE  TurnWorks(s)
<1>1. PICK t : t = [turn[s] EXCEPT !.pc = "end"]
  OBVIOUS
<1>2. t \in Turn /\ t.pc = "end" /\ t.last = turn[s].last /\ t.aborted = turn[s].aborted
  BY <1>1, OwnTurn, Names DEF Turn
<1>3. t.last \in 0..Len(rows) + 1 /\ t.pc \in Listed
  BY <1>2, OwnTurn, Names
<1>4. QED
  BY <1>1, <1>2, <1>3, Wrote

LEMMA AnswerWorks ==
  ASSUME ConversationTypeOK, NEW s \in Streams, Answer(s)
  PROVE  TurnWorks(s)
<1>1. TurnRow(s, Follow(s, "answer", "sent", <<>>))
  BY FollowTyped, Names
<1>2. turn[s].pc \in Listed
  BY DEF Answer, Calling, At, Listed
<1>3. QED
  BY <1>1, <1>2, LastRowWorks DEF Answer

LEMMA PauseWorks ==
  ASSUME ConversationTypeOK, NEW s \in Streams, Pause(s) \/ PauseAfterDenied(s)
  PROVE  TurnWorks(s)
<1>1. TurnRow(s, PausedRow(s))
  BY CallsTyped, FollowTyped, Names DEF PausedRow
<1>2. turn[s].pc \in Listed
  BY DEF Pause, PauseAfterDenied, BatchStored, Calling, At, Listed
<1>3. QED
  BY <1>1, <1>2, LastRowWorks DEF Pause, PauseAfterDenied

LEMMA FailsWorks ==
  ASSUME ConversationTypeOK, NEW s \in Streams, Fails(s)
  PROVE  TurnWorks(s)
<1>1. turn[s].pc \in Listed /\ UNCHANGED <<token, deleted, registry, request>>
  BY DEF Fails, Calling, At, Listed
<1>2. CASE turn[s].aborted
  <2>1. PICK r : r = Follow(s, "answer", "streaming", <<>>)
    OBVIOUS
  <2>2. PICK t : t = [turn[s] EXCEPT !.pc = "stop", !.last = Written]
    OBVIOUS
  <2>3. "answer" \in Kinds /\ "streaming" \in Statuses /\ <<>> \in Seq(CallIds) /\ "stop" \in Listed
    BY Names
  <2>4. TurnRow(s, r) /\ r.kind = "answer"
    BY <2>1, <2>3, FollowTyped DEF Follow, NewRow
  <2>5. t \in Turn /\ t.pc = "stop" /\ t.last = Len(rows) + 1 /\ t.aborted = turn[s].aborted
    BY <2>2, WrittenPlace, Names DEF Turn
  <2>6. WriteRow(s, r, t)
    BY <1>2, <2>1, <2>2 DEF Fails
  <2>7. t.last \in 0..Len(rows) + 1
    BY <2>5, OwnTurn
  <2>8. QED
    BY <1>1, <2>3, <2>4, <2>5, <2>6, <2>7, Wrote
<1>3. CASE ~turn[s].aborted
  <2>1. TurnRow(s, Follow(s, "answer", "failed", <<>>))
    BY FollowTyped, Names
  <2>2. WriteRow(s, Follow(s, "answer", "failed", <<>>), [turn[s] EXCEPT !.pc = "end"])
    BY <1>3 DEF Fails
  <2>3. QED
    BY <1>1, <2>1, <2>2, LastRowWorks
<1>4. QED
  BY <1>2, <1>3

LEMMA CallToolsWorks ==
  ASSUME ConversationTypeOK, NEW s \in Streams, CallTools(s)
  PROVE  TurnWorks(s)
<1>1. turn[s].pc \in Listed /\ UNCHANGED <<token, deleted, registry, request>>
  BY DEF CallTools, Calling, Listed
<1>2. PICK n \in 1..MaxBatch :
        WriteRow(s, Follow(s, "batch", "sent", [k \in 1..n |-> Call(s, k)]),
                 [turn[s] EXCEPT !.pc = "store", !.last = Written,
                                 !.left = [k \in 1..n |-> Call(s, k)]])
  BY DEF CallTools
<1>3. PICK c : c = [k \in 1..n |-> Call(s, k)]
  OBVIOUS
<1>4. PICK r : r = Follow(s, "batch", "sent", c)
  OBVIOUS
<1>5. PICK t : t = [turn[s] EXCEPT !.pc = "store", !.last = Written, !.left = c]
  OBVIOUS
<1>6. n \in Nat
  BY IterationAssumption
<1>7. c \in Seq(CallIds)
  BY <1>3, <1>6, CallsTyped
<1>8. WriteRow(s, r, t)
  BY <1>2, <1>3, <1>4, <1>5
<1>9. "store" \in Listed
  BY Names
<1>10. TurnRow(s, r)
  BY <1>4, <1>7, FollowTyped, Names
<1>11. t \in Turn /\ t.pc = "store" /\ t.last = Len(rows) + 1 /\ t.aborted = turn[s].aborted
  BY <1>5, <1>7, WrittenPlace, Names DEF Turn
<1>12. t.last \in 0..Len(rows) + 1
  BY <1>11, OwnTurn
<1>13. QED
  BY <1>1, <1>8, <1>9, <1>10, <1>11, <1>12, Wrote

LEMMA StoreResultWorks ==
  ASSUME ConversationTypeOK, NEW s \in Streams, StoreResult(s)
  PROVE  TurnWorks(s)
<1>1. /\ turn[s].pc = "store" /\ turn[s].left # <<>>
      /\ UNCHANGED <<token, deleted, registry, request>>
  BY DEF StoreResult, At
<1>2. /\ turn[s].left \in Seq(CallIds)
      /\ Head(turn[s].left) \in CallIds /\ Tail(turn[s].left) \in Seq(CallIds)
  BY <1>1, OwnTurn, HeadTailProperties
<1>3. PICK u : u = [turn[s] EXCEPT !.left = Tail(turn[s].left)]
  OBVIOUS
<1>4. u \in Turn /\ u.pc = "store" /\ u.last = turn[s].last /\ u.aborted = turn[s].aborted
  BY <1>1, <1>2, <1>3, WrittenPlace DEF Turn
<1>5. CASE /\ ~turn[s].refused /\ Writable(s, turn[s].last)
           /\ rows' = Insert(rows, Follow(s, "result", "sent", <<Head(turn[s].left)>>))
           /\ turn' = [turn EXCEPT ![s] = [u EXCEPT !.last = Written]]
  <2>1. PICK r : r = Follow(s, "result", "sent", <<Head(turn[s].left)>>)
    OBVIOUS
  <2>2. <<Head(turn[s].left)>> \in Seq(CallIds)
    BY <1>2
  <2>3. TurnRow(s, r)
    BY <2>1, <2>2, FollowTyped, Names
  <2>4. r.follows = turn[s].last
    BY <2>1 DEF Follow, NewRow
  <2>5. Grows(r)
    BY <1>5, <2>1, <2>3, OwnTurn, InsertGrows DEF TurnRow
  <2>6. PICK t : t = [u EXCEPT !.last = Written]
    OBVIOUS
  <2>7. t \in Turn /\ t.pc = "store" /\ t.last = Len(rows) + 1 /\ t.aborted = turn[s].aborted
    BY <1>4, <2>6, WrittenPlace DEF Turn
  <2>8. t.last \in 0..Len(rows) + 1
    BY <2>7, OwnTurn
  <2>9. turn' = [turn EXCEPT ![s] = t] /\ Writable(s, r.follows)
    BY <1>5, <2>4, <2>6
  <2>10. QED
    BY <1>1, <2>3, <2>5, <2>7, <2>8, <2>9, Names DEF TurnWorks
<1>6. CASE turn' = [turn EXCEPT ![s] = [u EXCEPT !.refused = TRUE]] /\ UNCHANGED rows
  <2>1. PICK t : t = [u EXCEPT !.refused = TRUE]
    OBVIOUS
  <2>2. t \in Turn /\ t.pc = "store" /\ t.last = turn[s].last /\ t.aborted = turn[s].aborted
    BY <1>4, <2>1, WrittenPlace DEF Turn
  <2>3. Quiet /\ turn' = [turn EXCEPT ![s] = t] /\ t.last \in 0..Len(rows)
    BY <1>6, <2>1, <2>2, OwnTurn, UnchangedIsQuiet
  <2>4. QED
    BY <1>1, <2>2, <2>3, Names, Stays
<1>7. QED
  BY <1>3, <1>5, <1>6 DEF StoreResult

LEMMA StartCompactionWorks ==
  ASSUME ConversationTypeOK, NEW s \in Streams, StartCompaction(s)
  PROVE  TurnWorks(s)
<1>1. PICK b \in Asked(Window) : turn' = [turn EXCEPT ![s].pc = "compact", ![s].cut = b]
  BY DEF StartCompaction
<1>2. /\ turn[s].pc = "think" /\ UNCHANGED rows
      /\ UNCHANGED <<token, deleted, registry, request>>
  BY DEF StartCompaction, At
<1>3. b \in Nat
  BY OwnTurn, StoredRows DEF Asked, Window, Active
<1>4. PICK t : t = [turn[s] EXCEPT !.pc = "compact", !.cut = b]
  OBVIOUS
<1>5. /\ t \in Turn /\ t.pc = "compact" /\ t.last = turn[s].last
      /\ t.aborted = turn[s].aborted
  BY <1>3, <1>4, WrittenPlace, Names DEF Turn
<1>6. Quiet /\ turn' = [turn EXCEPT ![s] = t] /\ t.last \in 0..Len(rows)
  BY <1>1, <1>2, <1>4, <1>5, OwnTurn, UnchangedIsQuiet DEF ConversationTypeOK
<1>7. QED
  BY <1>2, <1>5, <1>6, Names, Stays

LEMMA CompactionEndsWorks ==
  ASSUME ConversationTypeOK, NEW s \in Streams, SummaryFails(s) \/ HideOldRows(s)
  PROVE  TurnWorks(s)
<1>1. /\ turn[s].pc \in {"compact", "flip"}
      /\ turn' = [turn EXCEPT ![s].pc = "call", ![s].cut = 0]
      /\ rows' = rows \/ \E b : rows' = HideBefore(rows, b)
      /\ UNCHANGED <<token, deleted, registry, request>>
  BY DEF SummaryFails, HideOldRows, At
<1>2. Quiet
  BY <1>1, OwnTurn, UnchangedIsQuiet, HideKeeps DEF Quiet
<1>3. PICK t : t = [turn[s] EXCEPT !.pc = "call", !.cut = 0]
  OBVIOUS
<1>4. t \in Turn /\ t.pc = "call" /\ t.last = turn[s].last /\ t.aborted = turn[s].aborted
  BY <1>3, WrittenPlace, Names DEF Turn
<1>5. turn' = [turn EXCEPT ![s] = t] /\ t.last \in 0..Len(rows)
  BY <1>1, <1>3, <1>4, OwnTurn DEF ConversationTypeOK
<1>6. QED
  BY <1>1, <1>2, <1>4, <1>5, Names, Stays

LEMMA DenyThenPauseWorks ==
  ASSUME ConversationTypeOK, NEW s \in Streams, DenyThenPause(s)
  PROVE  TurnWorks(s)
<1>1. /\ turn[s].pc \in {"think", "call"} /\ UNCHANGED rows
      /\ turn' = [turn EXCEPT ![s].pc = "store", ![s].left = <<Call(s, 1)>>, ![s].pause = TRUE]
      /\ UNCHANGED <<token, deleted, registry, request>>
  BY DEF DenyThenPause, Calling
<1>2. PICK c : c = <<Call(s, 1)>>
  OBVIOUS
<1>3. c \in Seq(CallIds)
  BY <1>2, CallsTyped
<1>4. PICK t : t = [turn[s] EXCEPT !.pc = "store", !.left = c, !.pause = TRUE]
  OBVIOUS
<1>5. t \in Turn /\ t.pc = "store" /\ t.last = turn[s].last /\ t.aborted = turn[s].aborted
  BY <1>3, <1>4, WrittenPlace, Names DEF Turn
<1>6. turn' = [turn EXCEPT ![s] = t] /\ t.last \in 0..Len(rows) /\ Quiet
  BY <1>1, <1>2, <1>4, <1>5, OwnTurn, UnchangedIsQuiet DEF ConversationTypeOK
<1>7. QED
  BY <1>1, <1>5, <1>6, Names, Stays

LEMMA NextIterationWorks ==
  ASSUME ConversationTypeOK, NEW s \in Streams, NextIteration(s)
  PROVE  TurnWorks(s)
<1>1. /\ turn[s].pc = "store" /\ UNCHANGED rows
      /\ UNCHANGED <<token, deleted, registry, request>>
      /\ \/ \E pc \in {"end", "final"} : turn' = [turn EXCEPT ![s].pc = pc]
         \/ turn' = [turn EXCEPT ![s].pc = "think", ![s].iter = @ + 1]
  BY DEF NextIteration, BatchStored, At, Goto
<1>2. PICK t : /\ turn' = [turn EXCEPT ![s] = t]
               /\ \/ \E pc \in {"end", "final"} : t = [turn[s] EXCEPT !.pc = pc]
                  \/ t = [turn[s] EXCEPT !.pc = "think", !.iter = turn[s].iter + 1]
  BY <1>1, OwnTurn DEF ConversationTypeOK
<1>3. turn[s].iter + 1 \in Nat
  BY OwnTurn
<1>4. /\ t \in Turn /\ t.pc \in {"end", "final", "think"} /\ t.last = turn[s].last
      /\ t.aborted = turn[s].aborted
  <2>1. CASE \E pc \in {"end", "final"} : t = [turn[s] EXCEPT !.pc = pc]
    BY <2>1, WrittenPlace, Names DEF Turn
  <2>2. CASE t = [turn[s] EXCEPT !.pc = "think", !.iter = turn[s].iter + 1]
    BY <1>3, <2>2, WrittenPlace, Names DEF Turn
  <2>3. QED
    BY <1>2, <2>1, <2>2
<1>5. t.last \in 0..Len(rows) /\ Quiet
  BY <1>1, <1>4, OwnTurn, UnchangedIsQuiet
<1>6. QED
  BY <1>1, <1>2, <1>4, <1>5, Names, Stays

-----------------------------------------------------------------------------
(* Type correctness *)

Slots == Requests \cup {Sweeper}
RequestType == [pc : RequestPCs, row : Nat]

\* Rows of a step only grow, and so the places named by the others stay stored.
LongerRows == rows' \in Seq(Row) /\ Len(rows') \in Nat /\ Len(rows) <= Len(rows')

LEMMA LongerByEffect ==
  ASSUME ConversationTypeOK
  PROVE  /\ Quiet => LongerRows
         /\ \A r : Grows(r) => LongerRows
         /\ \A i, r : Writes(i, r) => LongerRows
         /\ UNCHANGED rows => LongerRows
  BY StoredRows, WritesTyped DEF ConversationTypeOK, LongerRows, Quiet, Grows

\* What keeps its turns and requests keeps their types.
LEMMA OthersTyped ==
  ASSUME ConversationTypeOK, LongerRows
  PROVE  /\ UNCHANGED turn => /\ turn' \in [Streams -> Turn]
                              /\ \A s \in Streams : turn'[s].last \in 0..Len(rows')
         /\ UNCHANGED request => /\ request' \in [Slots -> RequestType]
                                 /\ \A q \in Slots : request'[q].row \in 0..Len(rows')
  BY StoredRows DEF ConversationTypeOK, LongerRows, Slots, RequestType

LEMMA OneTurnMoves ==
  ASSUME ConversationTypeOK, LongerRows, NEW s \in Streams, NEW t \in Turn,
         t.last \in 0..Len(rows'), turn' = [turn EXCEPT ![s] = t]
  PROVE  /\ turn' \in [Streams -> Turn]
         /\ \A q \in Streams : turn'[q].last \in 0..Len(rows')
  BY OneTurnTyped DEF LongerRows

LEMMA OneRequestMoves ==
  ASSUME ConversationTypeOK, LongerRows, NEW q \in Slots, NEW x \in RequestType,
         x.row \in 0..Len(rows'), request' = [request EXCEPT ![q] = x]
  PROVE  /\ request' \in [Slots -> RequestType]
         /\ \A p \in Slots : request'[p].row \in 0..Len(rows')
  BY StoredRows DEF ConversationTypeOK, LongerRows, Slots, RequestType

\* The next place of a request, which keeps the row it names or is free again.
LEMMA RequestGoes ==
  ASSUME ConversationTypeOK, LongerRows, NEW q \in Slots,
         Done(q) \/ \E pc \in RequestPCs : Move(q, pc)
  PROVE  /\ request' \in [Slots -> RequestType]
         /\ \A p \in Slots : request'[p].row \in 0..Len(rows')
<1>1. request[q] \in RequestType /\ request[q].row \in 0..Len(rows) /\ Len(rows) \in Nat
  BY StoredRows DEF ConversationTypeOK, Slots, RequestType
<1>2. CASE Done(q)
  <2>1. Free \in RequestType /\ Free.row \in 0..Len(rows')
    BY DEF Free, RequestType, RequestPCs, LongerRows
  <2>2. QED
    BY <1>2, <2>1, OneRequestMoves DEF Done
<1>3. CASE \E pc \in RequestPCs : Move(q, pc)
  <2>1. PICK pc \in RequestPCs : request' = [request EXCEPT ![q].pc = pc]
    BY <1>3 DEF Move
  <2>2. PICK x : x = [request[q] EXCEPT !.pc = pc]
    OBVIOUS
  <2>3. x \in RequestType /\ x.row = request[q].row
    BY <1>1, <2>2 DEF RequestType
  <2>4. request' = [request EXCEPT ![q] = x]
    BY <2>1, <2>2 DEF ConversationTypeOK, Slots
  <2>5. x.row \in 0..Len(rows')
    BY <1>1, <2>3 DEF LongerRows
  <2>6. QED
    BY <2>3, <2>4, <2>5, OneRequestMoves
<1>4. QED
  BY <1>2, <1>3

LEMMA WorksTyped ==
  ASSUME ConversationTypeOK, NEW s \in Streams, TurnWorks(s)
  PROVE  ConversationTypeOK' /\ LongerRows
<1>1. PICK t \in Turn :
        /\ turn' = [turn EXCEPT ![s] = t]
        /\ \/ Quiet /\ t.last \in 0..Len(rows)
           \/ \E r : Grows(r) /\ t.last \in 0..Len(rows) + 1
  BY DEF TurnWorks
<1>2. LongerRows
  BY <1>1, LongerByEffect
<1>3. t.last \in 0..Len(rows')
  BY <1>1, OwnTurn DEF Quiet, Grows
<1>4. /\ turn' \in [Streams -> Turn]
      /\ \A q \in Streams : turn'[q].last \in 0..Len(rows')
  BY <1>1, <1>2, <1>3, OneTurnMoves
<1>5. UNCHANGED <<token, deleted, registry, request>>
  BY DEF TurnWorks
<1>6. QED
  BY <1>2, <1>4, <1>5, OthersTyped DEF ConversationTypeOK, LongerRows, Slots, RequestType

\* Aborting marks one turn and leaves where each of them is.
LEMMA AbortMarks ==
  ASSUME ConversationTypeOK, NEW s \in Streams \cup {None}
  PROVE  /\ Abort(turn, s) \in [Streams -> Turn]
         /\ \A q \in Streams : /\ Abort(turn, s)[q].pc = turn[q].pc
                               /\ Abort(turn, s)[q].last = turn[q].last
                               /\ Abort(turn, s)[q].iter = turn[q].iter
                               /\ Abort(turn, s)[q].left = turn[q].left
                               /\ q # s => Abort(turn, s)[q] = turn[q]
                               /\ q = s => Abort(turn, s)[q].aborted
<1>1. turn \in [Streams -> Turn]
  BY DEF ConversationTypeOK
<1>2. CASE s = None
  BY <1>1, <1>2, NameAssumption DEF Abort
<1>3. CASE s # None
  <2>1. s \in Streams /\ Abort(turn, s) = [turn EXCEPT ![s].aborted = TRUE]
    BY <1>3 DEF Abort
  <2>2. PICK t : t = [turn[s] EXCEPT !.aborted = TRUE]
    OBVIOUS
  <2>3. /\ t \in Turn /\ t.pc = turn[s].pc /\ t.last = turn[s].last /\ t.aborted
        /\ t.iter = turn[s].iter /\ t.left = turn[s].left
    BY <1>1, <2>1, <2>2 DEF Turn
  <2>4. Abort(turn, s) = [turn EXCEPT ![s] = t]
    BY <1>1, <2>1, <2>2
  <2>5. QED
    BY <1>1, <2>1, <2>3, <2>4
<1>4. QED
  BY <1>2, <1>3

LEMMA EndedTyped == Ended \in Turn /\ Ended.pc = "done" /\ Ended.last = 0
<1>1. NoTurn \in Turn
  BY Names DEF NoTurn, Turn
<1>2. QED
  BY <1>1, Names DEF Ended, NoTurn, Turn

\* A stream that opens, begins, is refused, is closed or has ended.
LEMMA BoundaryTyped ==
  ASSUME ConversationTypeOK, NEW s \in Streams,
         OpenStream(s) \/ BeginRun(s) \/ NoRun(s) \/ Finish(s) \/ Close(s)
  PROVE  ConversationTypeOK'
<1>1. /\ UNCHANGED <<rows, deleted, request>>
      /\ token' \in Streams \cup {None} /\ registry' \in Streams \cup {None}
  BY DEF ConversationTypeOK, OpenStream, BeginRun, NoRun, Finish, Close
<1>2. LongerRows
  BY <1>1, LongerByEffect
<1>3. turn' \in [Streams -> Turn] /\ \A q \in Streams : turn'[q].last \in 0..Len(rows')
  <2>1. CASE OpenStream(s)
    <3>1. PICK x : x = IF Asked(Window) = {} THEN None ELSE rows[Latest(Asked(Window))].text
      OBVIOUS
    <3>2. x \in Texts \cup {None}
      <4>1. CASE Asked(Window) = {}
        BY <3>1, <4>1
      <4>2. CASE Asked(Window) # {}
        <5>1. Asked(Window) \in SUBSET (1..Len(rows)) /\ Len(rows) \in Nat
          BY OwnTurn, StoredRows DEF Asked, Window, Active
        <5>2. Latest(Asked(Window)) \in 1..Len(rows)
          BY <4>2, <5>1, LatestIsLast
        <5>3. rows[Latest(Asked(Window))] \in Row
          BY <5>2, OwnTurn, StoredRows
        <5>4. QED
          BY <3>1, <4>2, <5>3 DEF Row
      <4>3. QED
        BY <4>1, <4>2
    <3>3. turn' = [turn EXCEPT ![s].pc = "begin", ![s].text = x]
      BY <2>1, <3>1 DEF OpenStream
    <3>4. PICK t : t = [turn[s] EXCEPT !.pc = "begin", !.text = x]
      OBVIOUS
    <3>5. t \in Turn /\ t.last = turn[s].last
      BY <3>2, <3>4, WrittenPlace DEF Turn, TurnPCs
    <3>6. turn' = [turn EXCEPT ![s] = t]
      BY <3>3, <3>4 DEF ConversationTypeOK
    <3>7. QED
      BY <1>1, <1>2, <3>5, <3>6, OwnTurn, OneTurnMoves
  <2>2. CASE BeginRun(s)
    <3>1. PICK t : t = [turn[s] EXCEPT !.pc = "register"]
      OBVIOUS
    <3>2. t \in Turn /\ t.last = turn[s].last
      BY <3>1, WrittenPlace DEF Turn, TurnPCs
    <3>3. turn' = [turn EXCEPT ![s] = t]
      BY <2>2, <3>1 DEF ConversationTypeOK, BeginRun, Goto
    <3>4. QED
      BY <1>1, <1>2, <3>2, <3>3, OwnTurn, OneTurnMoves
  <2>3. CASE NoRun(s) \/ Finish(s)
    <3>1. turn' = [turn EXCEPT ![s] = Ended]
      BY <2>3 DEF NoRun, Finish
    <3>2. Ended.last \in 0..Len(rows')
      BY <1>2, EndedTyped DEF LongerRows
    <3>3. QED
      BY <1>2, <3>1, <3>2, EndedTyped, OneTurnMoves
  <2>4. CASE Close(s)
    <3>1. turn' = Abort(turn, s)
      BY <2>4 DEF Close
    <3>2. QED
      BY <1>1, <3>1, AbortMarks DEF ConversationTypeOK
  <2>5. QED
    BY <2>1, <2>2, <2>3, <2>4
<1>4. QED
  BY <1>1, <1>2, <1>3, OthersTyped DEF ConversationTypeOK, LongerRows, Slots, RequestType

\* The place Register gives the turn, after the abort of the one before it.
LEMMA RegisterSets ==
  ASSUME ConversationTypeOK, NEW s \in Streams, Register(s)
  PROVE  /\ registry' = s /\ UNCHANGED <<rows, token, deleted, request>>
         /\ turn[s].pc = "register"
         /\ turn' \in [Streams -> Turn]
         /\ turn'[s].pc \in {"think", "ask"} /\ turn'[s].last \in 0..Len(rows)
         /\ \A q \in Streams \ {s} : turn'[q] = Abort(turn, registry)[q]
<1> DEFINE same == {i \in Asked(Window) : rows[i].text = turn[s].text}
<1>1. /\ registry' = s /\ UNCHANGED <<rows, token, deleted, request>> /\ turn[s].pc = "register"
  BY DEF Register, At
<1>2. PICK a : a = Abort(turn, registry)
  OBVIOUS
<1>3. a \in [Streams -> Turn] /\ a[s] \in Turn /\ a[s].last = turn[s].last
  BY <1>2, AbortMarks DEF ConversationTypeOK
<1>4. CASE same # {} /\ turn' = [a EXCEPT ![s].pc = "think", ![s].iter = 1, ![s].last = Latest(same)]
  <2>1. same \in SUBSET (1..Len(rows)) /\ Len(rows) \in Nat
    BY OwnTurn, StoredRows DEF Asked, Window, Active
  <2>2. PICK n : n = Latest(same)
    OBVIOUS
  <2>3. n \in 1..Len(rows) /\ n \in Nat
    <3> HIDE DEF same
    <3>1. Latest(same) \in same
      BY <1>4, <2>1, LatestIsLast
    <3>2. n \in 1..Len(rows)
      BY <2>1, <2>2, <3>1
    <3>3. QED
      BY <3>2
  <2>4. PICK t : t = [a[s] EXCEPT !.pc = "think", !.iter = 1, !.last = n]
    OBVIOUS
  <2>5. t \in Turn /\ t.pc = "think" /\ t.last = n
    BY <1>3, <2>3, <2>4, Names DEF Turn
  <2> HIDE DEF same
  <2>6. turn' = [a EXCEPT ![s] = t]
    BY <1>3, <1>4, <2>2, <2>4
  <2>7. QED
    BY <1>1, <1>2, <1>3, <2>1, <2>3, <2>5, <2>6
<1>5. CASE turn' = [a EXCEPT ![s].pc = "ask"]
  <2>1. PICK t : t = [a[s] EXCEPT !.pc = "ask"]
    OBVIOUS
  <2>2. t \in Turn /\ t.pc = "ask" /\ t.last = turn[s].last
    BY <1>3, <2>1, Names DEF Turn
  <2>3. turn' = [a EXCEPT ![s] = t]
    BY <1>3, <1>5, <2>1
  <2>4. QED
    BY <1>1, <1>2, <1>3, <2>2, <2>3, OwnTurn
<1>6. QED
  BY <1>2, <1>4, <1>5 DEF Register

LEMMA RegisterTyped ==
  ASSUME ConversationTypeOK, NEW s \in Streams, Register(s)
  PROVE  ConversationTypeOK'
<1>1. \A q \in Streams : turn'[q].last \in 0..Len(rows)
  BY RegisterSets, AbortMarks DEF ConversationTypeOK
<1>2. QED
  BY <1>1, RegisterSets DEF ConversationTypeOK

\* A write on the columns of one row.
LEMMA ColumnsWritten ==
  ASSUME ConversationTypeOK, NEW i \in 1..Len(rows), NEW st \in Statuses, NEW b \in BOOLEAN
  PROVE  /\ rows' = [rows EXCEPT ![i].status = st]
              => Writes(i, [rows[i] EXCEPT !.status = st])
         /\ rows' = [rows EXCEPT ![i].status = st, ![i].raw = b]
              => Writes(i, [rows[i] EXCEPT !.status = st, !.raw = b])
         /\ rows' = [rows EXCEPT ![i].ran = @ + 1]
              => Writes(i, [rows[i] EXCEPT !.ran = rows[i].ran + 1])
<1>1. rows \in Seq(Row) /\ DOMAIN rows = 1..Len(rows) /\ rows[i] \in Row
  BY StoredRows DEF ConversationTypeOK
<1>2. rows[i].ran + 1 \in Nat
  BY <1>1 DEF Row
<1>3. ASSUME rows' = [rows EXCEPT ![i].status = st]
      PROVE  Writes(i, [rows[i] EXCEPT !.status = st])
  <2>1. PICK r : r = [rows[i] EXCEPT !.status = st]
    OBVIOUS
  <2>2. r \in Row
    BY <1>1, <2>1, RowMoves
  <2>3. rows' = [rows EXCEPT ![i] = r]
    BY <1>1, <1>3, <2>1
  <2>4. QED
    BY <2>1, <2>2, <2>3 DEF Writes
<1>4. ASSUME rows' = [rows EXCEPT ![i].status = st, ![i].raw = b]
      PROVE  Writes(i, [rows[i] EXCEPT !.status = st, !.raw = b])
  <2>1. PICK r : r = [rows[i] EXCEPT !.status = st, !.raw = b]
    OBVIOUS
  <2>2. r \in Row
    BY <1>1, <2>1, RowMoves
  <2>3. rows' = [rows EXCEPT ![i] = r]
    BY <1>1, <1>4, <2>1
  <2>4. QED
    BY <2>1, <2>2, <2>3 DEF Writes
<1>5. ASSUME rows' = [rows EXCEPT ![i].ran = @ + 1]
      PROVE  Writes(i, [rows[i] EXCEPT !.ran = rows[i].ran + 1])
  <2>1. PICK r : r = [rows[i] EXCEPT !.ran = rows[i].ran + 1]
    OBVIOUS
  <2>2. r \in Row
    BY <1>1, <1>2, <2>1, RowRuns
  <2>3. rows' = [rows EXCEPT ![i] = r]
    BY <1>1, <1>5, <2>1
  <2>4. QED
    BY <2>1, <2>2, <2>3 DEF Writes
<1>6. QED
  BY <1>3, <1>4, <1>5

LEMMA MarkStoppedWrites ==
  ASSUME ConversationTypeOK, NEW s \in Streams, MarkStopped(s)
  PROVE  /\ \/ UNCHANGED rows
            \/ /\ turn[s].last \in Active
               /\ Writes(turn[s].last, [rows[turn[s].last] EXCEPT !.status = "stopped"])
         /\ \E t \in Turn : /\ turn' = [turn EXCEPT ![s] = t] /\ t.pc = "end"
                            /\ t.last = turn[s].last /\ t.aborted = turn[s].aborted
         /\ turn[s].pc = "stop" /\ UNCHANGED <<token, deleted, registry, request>>
<1>1. PICK t : t = [turn[s] EXCEPT !.pc = "end"]
  OBVIOUS
<1>2. t \in Turn /\ t.pc = "end" /\ t.last = turn[s].last /\ t.aborted = turn[s].aborted
  BY <1>1, WrittenPlace, Names DEF Turn
<1>3. turn' = [turn EXCEPT ![s] = t] /\ turn[s].pc = "stop"
  BY <1>1 DEF MarkStopped, Goto, At, ConversationTypeOK
<1>4. CASE turn[s].last \in Active
  <2>1. turn[s].last \in 1..Len(rows) /\ "stopped" \in Statuses
    BY <1>4, OwnTurn, StoredRows, Names DEF Active
  <2>2. rows' = [rows EXCEPT ![turn[s].last].status = "stopped"]
    BY <1>4 DEF MarkStopped
  <2>3. QED
    BY <1>2, <1>3, <1>4, <2>1, <2>2, ColumnsWritten DEF MarkStopped
<1>5. CASE turn[s].last \notin Active
  BY <1>2, <1>3, <1>5 DEF MarkStopped
<1>6. QED
  BY <1>4, <1>5

LEMMA MarkStoppedTyped ==
  ASSUME ConversationTypeOK, NEW s \in Streams, MarkStopped(s)
  PROVE  ConversationTypeOK' /\ LongerRows
<1>1. LongerRows
  BY MarkStoppedWrites, LongerByEffect
<1>2. PICK t \in Turn : turn' = [turn EXCEPT ![s] = t] /\ t.last = turn[s].last
  BY MarkStoppedWrites
<1>3. t.last \in 0..Len(rows')
  BY <1>1, <1>2, OwnTurn DEF LongerRows
<1>4. /\ turn' \in [Streams -> Turn]
      /\ \A q \in Streams : turn'[q].last \in 0..Len(rows')
  BY <1>1, <1>2, <1>3, OneTurnMoves
<1>5. UNCHANGED <<token, deleted, registry, request>>
  BY MarkStoppedWrites
<1>6. QED
  BY <1>1, <1>4, <1>5, OthersTyped DEF ConversationTypeOK, LongerRows, Slots, RequestType

-----------------------------------------------------------------------------
(* What any step does to the rows *)

\* A row whose arguments are stored as given is paused, and only actions are.
RowOK(r) == (r.raw <=> r.status = "pending") /\ (r.status = "pending" => r.kind = "action")

\* A stored row stays what it is; withdrawn rows stay withdrawn.
OldRow(a, b) ==
  /\ b.kind = a.kind /\ b.run = a.run /\ b.follows = a.follows /\ b.calls = a.calls
  /\ a.status = "superseded" => b.status = "superseded"
  /\ RowOK(a) => RowOK(b)

\* A new row is not withdrawn, and hangs on what is not.
Fresh(r) ==
  /\ RowOK(r) /\ r.status # "superseded" /\ r.ran = 0
  /\ r.kind = "action" => r.status = "pending"
  /\ r.follows \in 0..Len(rows)
  /\ r.follows # 0 => r.follows \in Active /\ r.follows \in Active'
  /\ r.run # None => /\ r.run \in Streams /\ token = r.run /\ ~deleted
                     /\ turn[r.run].pc \in Listed
  /\ deleted => r.kind = "question" /\ r.run = None

\* What is withdrawn is withdrawn with all that comes after it.
WithdrawsTheRest ==
  \A i \in Active \ Active' : \A j \in 1..Len(rows) : i < j => j \notin Active'

\* A new action is all that a step brings.
OnlyAdds == UNCHANGED request /\ \A i \in 1..Len(rows) : SameRow(rows'[i], rows[i])

Shape ==
  /\ LongerRows
  /\ \A i \in 1..Len(rows) : OldRow(rows[i], rows'[i])
  /\ \/ Len(rows') = Len(rows)
     \/ Len(rows') = Len(rows) + 1 /\ Fresh(rows'[Len(rows) + 1])
  /\ WithdrawsTheRest
  /\ \A i \in 1..Len(rows') :
       i \notin 1..Len(rows) /\ rows'[i].kind = "action" => OnlyAdds

LEMMA SameIsOld ==
  ASSUME NEW a, NEW b, SameRow(b, a)
  PROVE  OldRow(a, b)
  BY DEF SameRow, OldRow, RowOK

LEMMA ActiveAfter ==
  ASSUME ConversationTypeOK, LongerRows
  PROVE  /\ Active \subseteq 1..Len(rows)
         /\ \A i \in 1..Len(rows) : /\ i \in Active <=> rows[i].status # "superseded"
                                    /\ i \in Active' <=> rows'[i].status # "superseded"
<1>1. DOMAIN rows = 1..Len(rows) /\ Len(rows) \in Nat
  BY OwnTurn, StoredRows DEF ConversationTypeOK
<1>2. DOMAIN rows' = 1..Len(rows')
  BY LenProperties DEF LongerRows
<1>3. Active' = {i \in 1..Len(rows') : rows'[i].status # "superseded"}
  BY <1>2 DEF Active
<1>4. QED
  BY <1>1, <1>3 DEF Active, LongerRows

\* Only statuses that are not withdrawn change.
LEMMA KeepsShape ==
  ASSUME ConversationTypeOK, LongerRows, Len(rows') = Len(rows),
         \A i \in 1..Len(rows) :
           /\ OldRow(rows[i], rows'[i])
           /\ rows[i].status # "superseded" => rows'[i].status # "superseded"
  PROVE  Shape
<1>1. WithdrawsTheRest
  BY ActiveAfter DEF WithdrawsTheRest
<1>2. \A i \in 1..Len(rows') : i \in 1..Len(rows)
  OBVIOUS
<1>3. QED
  BY <1>1, <1>2 DEF Shape

LEMMA QuietShape ==
  ASSUME ConversationTypeOK, Quiet
  PROVE  Shape
<1>1. LongerRows /\ Len(rows') = Len(rows)
  BY LongerByEffect DEF Quiet
<1>2. \A i \in 1..Len(rows) : SameRow(rows'[i], rows[i])
  BY DEF Quiet
<1>3. QED
  BY <1>1, <1>2, KeepsShape, SameIsOld DEF SameRow

LEMMA GrowsShape ==
  ASSUME ConversationTypeOK, NEW r, Grows(r),
         RowOK(r), r.status # "superseded", r.ran = 0, r.follows \in 0..Len(rows),
         r.kind = "action" => r.status = "pending" /\ UNCHANGED request,
         r.follows # 0 => r.follows \in Active,
         r.run # None => /\ r.run \in Streams /\ token = r.run /\ ~deleted
                         /\ turn[r.run].pc \in Listed,
         deleted => r.kind = "question" /\ r.run = None
  PROVE  Shape
<1>1. LongerRows /\ Len(rows') = Len(rows) + 1
  BY LongerByEffect DEF Grows
<1>2. \A i \in 1..Len(rows) : SameRow(rows'[i], rows[i])
  BY DEF Grows
<1>3. Len(rows) \in Nat
  BY StoredRows DEF ConversationTypeOK
<1>4. \A i \in Active : i \in Active'
  BY <1>1, <1>2, ActiveAfter DEF SameRow
<1>5. SameRow(rows'[Len(rows) + 1], r)
  BY DEF Grows
<1>6. Fresh(rows'[Len(rows) + 1])
  BY <1>4, <1>5 DEF Fresh, SameRow, RowOK
<1>7. WithdrawsTheRest
  BY <1>4 DEF WithdrawsTheRest
<1>8. ASSUME NEW i \in 1..Len(rows'), i \notin 1..Len(rows), rows'[i].kind = "action"
      PROVE  OnlyAdds
  <2>1. i = Len(rows) + 1
    BY <1>1, <1>3, <1>8
  <2>2. r.kind = "action"
    BY <1>5, <1>8, <2>1 DEF SameRow
  <2>3. QED
    BY <1>2, <2>2 DEF OnlyAdds
<1>9. QED
  BY <1>1, <1>2, <1>6, <1>7, <1>8, SameIsOld DEF Shape

\* One row written so that it keeps what a row keeps.
LEMMA WriteShape ==
  ASSUME ConversationTypeOK, NEW i, NEW r, Writes(i, r),
         OldRow(rows[i], r), rows[i].status # "superseded" => r.status # "superseded"
  PROVE  Shape
<1>1. LongerRows
  BY LongerByEffect
<1>2. /\ Len(rows') = Len(rows) /\ rows'[i] = r /\ i \in 1..Len(rows)
      /\ \A j \in 1..Len(rows) : j # i => rows'[j] = rows[j]
  BY WritesTyped DEF ConversationTypeOK, Writes
<1>3. \A j \in 1..Len(rows) :
        /\ OldRow(rows[j], rows'[j])
        /\ rows[j].status # "superseded" => rows'[j].status # "superseded"
  BY <1>2, SameIsOld DEF SameRow
<1>4. QED
  BY <1>1, <1>2, <1>3, KeepsShape

LEMMA WorksShape ==
  ASSUME ConversationTypeOK, NEW s \in Streams, TurnWorks(s)
  PROVE  Shape
<1>1. CASE Quiet
  BY <1>1, QuietShape
<1>2. CASE \E r : TurnRow(s, r) /\ Grows(r) /\ Writable(s, r.follows)
  <2>1. PICK r : TurnRow(s, r) /\ Grows(r) /\ Writable(s, r.follows)
    BY <1>2
  <2>2. s # None
    BY NameAssumption
  <2>3. /\ RowOK(r) /\ r.ran = 0 /\ r.run = s /\ r.follows \in 0..Len(rows)
        /\ r.status # "superseded" /\ (r.kind = "action" => r.status = "pending")
    BY <2>1 DEF TurnRow, RowOK
  <2>4. token = s /\ ~deleted /\ (r.follows # 0 => r.follows \in Active)
    BY <2>1, <2>2 DEF Writable
  <2>5. QED
    BY <2>1, <2>3, <2>4, GrowsShape DEF TurnWorks
<1>3. QED
  BY <1>1, <1>2 DEF TurnWorks

\* Requests past the look-up hold a paused or once paused row; the stopped mark is
\* for a reply.
Held(q) == request[q].pc \in {"confirming", "declining", "expiring", "dispatching",
                              "answering", "reopening", "closing"}

HeldActions ==
  \A q \in Slots : Held(q) => /\ request[q].row \in 1..Len(rows)
                              /\ rows[request[q].row].kind = "action"

StopsReply ==
  \A s \in Streams : turn[s].pc = "stop" => /\ turn[s].last \in 1..Len(rows)
                                            /\ rows[turn[s].last].kind # "action"

RowsOK == \A i \in 1..Len(rows) : RowOK(rows[i])

Places == ConversationTypeOK /\ HeldActions /\ StopsReply /\ RowsOK

LEMMA MarkStoppedShape ==
  ASSUME Places, NEW s \in Streams, MarkStopped(s)
  PROVE  Shape
<1>1. CASE UNCHANGED rows
  BY <1>1, OwnTurn, UnchangedIsQuiet, QuietShape DEF Places
<1>2. CASE /\ turn[s].last \in Active
           /\ Writes(turn[s].last, [rows[turn[s].last] EXCEPT !.status = "stopped"])
  <2>1. PICK a, b : a = rows[turn[s].last] /\ b = [a EXCEPT !.status = "stopped"]
    OBVIOUS
  <2>2. turn[s].last \in 1..Len(rows) /\ a.kind # "action" /\ RowOK(a) /\ a \in Row
    BY <2>1, MarkStoppedWrites, StoredRows DEF Places, StopsReply, RowsOK, ConversationTypeOK
  <2>3. /\ b.kind = a.kind /\ b.run = a.run /\ b.follows = a.follows /\ b.raw = a.raw
        /\ b.calls = a.calls /\ b.status = "stopped"
    BY <2>1, <2>2 DEF Row
  <2>4. a.status # "superseded"
    BY <1>2, <2>1 DEF Active
  <2>5. OldRow(a, b)
    BY <2>2, <2>3, <2>4 DEF OldRow, RowOK
  <2>6. QED
    BY <1>2, <2>1, <2>3, <2>5, WriteShape DEF Places
<1>3. QED
  BY <1>1, <1>2, MarkStoppedWrites DEF Places

LEMMA HeldRow ==
  ASSUME Places, NEW q \in Slots, Held(q)
  PROVE  LET a == rows[request[q].row]
         IN  /\ request[q].row \in 1..Len(rows)
             /\ a \in Row /\ a.kind = "action" /\ RowOK(a)
  BY StoredRows DEF Places, HeldActions, RowsOK, ConversationTypeOK

\* A row of an action that leaves its status for one that is not withdrawn.
LEMMA ActionShape ==
  ASSUME Places, NEW q \in Slots, Held(q), request[q].row \in Active,
         NEW st \in Statuses \ {"superseded"}, NEW b, b = (st = "pending"),
         rows' = [rows EXCEPT ![request[q].row].status = st, ![request[q].row].raw = b]
  PROVE  Shape
<1>1. PICK i, a : i = request[q].row /\ a = rows[i]
  OBVIOUS
<1>2. i \in 1..Len(rows) /\ a \in Row /\ a.kind = "action" /\ a.status # "superseded"
  BY <1>1, HeldRow DEF Active
<1>3. b \in BOOLEAN /\ st \in Statuses
  OBVIOUS
<1>4. PICK r : r = [a EXCEPT !.status = st, !.raw = b]
  OBVIOUS
<1>5. /\ r.kind = a.kind /\ r.run = a.run /\ r.follows = a.follows /\ r.calls = a.calls
      /\ r.status = st /\ r.raw = b
  BY <1>2, <1>3, <1>4 DEF Row
<1>6. OldRow(a, r)
  BY <1>2, <1>5 DEF OldRow, RowOK
<1>7. Writes(i, r)
  BY <1>1, <1>2, <1>3, <1>4, ColumnsWritten DEF Places
<1>8. QED
  BY <1>1, <1>2, <1>5, <1>6, <1>7, WriteShape DEF Places

LEMMA PausedIsActive == Paused \subseteq Active
  BY DEF Paused, Active

LEMMA ClaimShape ==
  ASSUME Places, NEW q \in Slots, Claim(q)
  PROVE  Shape
<1>1. Verdict(q) \in {"sent", "denied"}
  BY DEF Verdict
<1>2. Verdict(q) \in Statuses \ {"superseded"} /\ FALSE = (Verdict(q) = "pending")
  BY <1>1, Names
<1>3. Held(q) /\ request[q].row \in Active
  BY PausedIsActive DEF Claim, Claiming, Held
<1>4. QED
  BY <1>2, <1>3, ActionShape DEF Claim

LEMMA ReopenShape ==
  ASSUME Places, NEW q \in Slots, Reopen(q)
  PROVE  Shape
<1>1. CASE UNCHANGED rows
  BY <1>1, UnchangedIsQuiet, QuietShape DEF Places, ConversationTypeOK
<1>2. CASE /\ rows[request[q].row].status = "sent"
           /\ rows' = [rows EXCEPT ![request[q].row].status = "pending",
                                   ![request[q].row].raw = TRUE]
  <2>1. Held(q)
    BY DEF Reopen, Doing, Held
  <2>2. request[q].row \in Active
    BY <1>2, <2>1, HeldRow, StoredRows DEF Active, Places, ConversationTypeOK
  <2>3. "pending" \in Statuses \ {"superseded"}
    BY Names
  <2>4. QED
    BY <1>2, <2>1, <2>2, <2>3, ActionShape
<1>3. QED
  BY <1>1, <1>2 DEF Reopen

LEMMA CloseFailedShape ==
  ASSUME Places, NEW q \in Slots, CloseFailed(q)
  PROVE  Shape
<1>1. CASE UNCHANGED rows
  BY <1>1, UnchangedIsQuiet, QuietShape DEF Places, ConversationTypeOK
<1>2. CASE /\ request[q].row \in Active
           /\ rows' = [rows EXCEPT ![request[q].row].status = "failed",
                                   ![request[q].row].raw = FALSE]
  <2>1. Held(q)
    BY DEF CloseFailed, Doing, Held
  <2>2. "failed" \in Statuses \ {"superseded"}
    BY Names
  <2>3. QED
    BY <1>2, <2>1, <2>2, ActionShape
<1>3. QED
  BY <1>1, <1>2 DEF CloseFailed

LEMMA RunToolShape ==
  ASSUME Places, NEW q \in Slots, RunTool(q)
  PROVE  Shape
<1>1. PICK i, a : i = request[q].row /\ a = rows[i]
  OBVIOUS
<1>2. i \in 1..Len(rows) /\ a \in Row
  BY <1>1, HeldRow DEF RunTool, Doing, Held
<1>3. PICK r : r = [a EXCEPT !.ran = a.ran + 1]
  OBVIOUS
<1>4. /\ r.kind = a.kind /\ r.run = a.run /\ r.follows = a.follows /\ r.calls = a.calls
      /\ r.status = a.status /\ r.raw = a.raw
  BY <1>2, <1>3 DEF Row
<1>5. "sent" \in Statuses
  BY Names
<1>6. Writes(i, r)
  BY <1>1, <1>2, <1>3, <1>5, ColumnsWritten DEF Places, RunTool
<1>7. OldRow(a, r)
  BY <1>4 DEF OldRow, RowOK
<1>8. QED
  BY <1>1, <1>4, <1>6, <1>7, WriteShape DEF Places

LEMMA QuestionRow ==
  ASSUME NEW t \in Texts
  PROVE  LET r == Question(t)
         IN  /\ r \in Row /\ r.kind = "question" /\ r.status = "sent" /\ r.run = None
             /\ r.follows = 0 /\ r.raw = FALSE /\ r.ran = 0
  BY Names DEF Question, NewRow, Row

LEMMA StorePostShape ==
  ASSUME Places, NEW q \in Slots, StorePost(q)
  PROVE  Shape
<1>1. PICK t \in Texts : rows' = Insert(rows, Question(t))
  BY DEF StorePost
<1>2. PICK r : r = Question(t)
  OBVIOUS
<1>3. /\ r \in Row /\ r.kind = "question" /\ r.status = "sent" /\ r.run = None
      /\ r.follows = 0 /\ r.raw = FALSE /\ r.ran = 0
  BY <1>2, QuestionRow
<1>4. Grows(r)
  BY <1>1, <1>2, <1>3, InsertGrows DEF Places, ConversationTypeOK
<1>5. 0 \in 0..Len(rows)
  BY StoredRows DEF Places, ConversationTypeOK
<1>6. QED
  BY <1>3, <1>4, <1>5, GrowsShape DEF Places, RowOK

LEMMA AnswerPausedShape ==
  ASSUME Places, NEW q \in Slots, AnswerPaused(q)
  PROVE  Shape
<1>1. CASE UNCHANGED rows
  BY <1>1, UnchangedIsQuiet, QuietShape DEF Places, ConversationTypeOK
<1>2. CASE /\ Writable(None, request[q].row)
           /\ rows' = Insert(rows, NewRow("result", "sent", None, request[q].row, None,
                                          rows[request[q].row].calls))
  <2>1. PICK i, c : i = request[q].row /\ c = rows[i].calls
    OBVIOUS
  <2>2. i \in 1..Len(rows) /\ c \in Seq(CallIds)
    BY <2>1, HeldRow DEF AnswerPaused, Doing, Held, Row
  <2>3. Len(rows) \in Nat /\ rows \in Seq(Row)
    BY StoredRows DEF Places, ConversationTypeOK
  <2>4. PICK r : r = NewRow("result", "sent", None, i, None, c)
    OBVIOUS
  <2>5. /\ r \in Row /\ r.kind = "result" /\ r.status = "sent" /\ r.run = None
        /\ r.follows = i /\ r.raw = FALSE /\ r.ran = 0
    <3>1. i \in Nat /\ None \in Texts \cup {None} /\ None \in Streams \cup {None}
      BY <2>2, <2>3
    <3>2. r \in Row
      BY <2>2, <2>4, <3>1, Names DEF NewRow, Row
    <3>3. QED
      BY <2>4, <3>2 DEF NewRow
  <2>6. Grows(r)
    BY <1>2, <2>1, <2>3, <2>4, <2>5, InsertGrows
  <2>7. i # 0 /\ i \in Active /\ ~deleted
    BY <1>2, <2>1, <2>2 DEF Writable
  <2>8. QED
    BY <2>2, <2>3, <2>5, <2>6, <2>7, GrowsShape DEF Places, RowOK
<1>3. QED
  BY <1>1, <1>2 DEF AnswerPaused

\* What a step other than a claim, a run, a reopen or a close does to a row: runs are
\* kept, and the status stays, or becomes withdrawn or declined, or is no action's.
Settled(a, b) ==
  /\ b.ran = a.ran
  /\ \/ b.status \in {a.status, "superseded"}
     \/ a.status = "pending" /\ b.status = "denied"
     \/ a.kind # "action" /\ b.status # "pending"

Mild == \A i \in 1..Len(rows) : Settled(rows[i], rows'[i])

LEMMA SameIsSettled ==
  /\ Quiet => Mild
  /\ \A r : Grows(r) => Mild
  BY DEF Mild, Settled, Quiet, Grows, SameRow

\* Withdrawing rows of a branch, each with those after it, and then perhaps asking
\* again.
LEMMA WithdrawShape ==
  ASSUME Places, ~deleted, NEW S, S \subseteq Active,
         \A i \in S : \A j \in Active : i < j => j \in S,
         NEW rs, rs = Supersede(rows, S),
         rows' = rs \/ \E t \in Texts : rows' = Insert(rs, Question(t))
  PROVE  Shape /\ Mild
<1>1. /\ rows \in Seq(Row) /\ Len(rows) \in Nat /\ DOMAIN rows = 1..Len(rows)
      /\ \A i \in 1..Len(rows) : rows[i] \in Row
  BY StoredRows DEF Places, ConversationTypeOK
<1>2. /\ rs \in Seq(Row) /\ Len(rs) = Len(rows)
      /\ \A i \in 1..Len(rows) :
           IF i \in S THEN rs[i] = [rows[i] EXCEPT !.status = "superseded", !.raw = FALSE]
           ELSE rs[i] = rows[i]
  BY <1>1, Superseded
<1>3. \A i \in 1..Len(rows) :
        /\ i \notin S => SameRow(rs[i], rows[i])
        /\ i \in S => /\ rs[i].kind = rows[i].kind /\ rs[i].run = rows[i].run
                      /\ rs[i].follows = rows[i].follows /\ rs[i].calls = rows[i].calls
                      /\ rs[i].status = "superseded" /\ ~rs[i].raw
                      /\ rs[i].ran = rows[i].ran
  <2>1. ASSUME NEW i \in 1..Len(rows), i \in S
        PROVE  /\ rs[i].kind = rows[i].kind /\ rs[i].run = rows[i].run
               /\ rs[i].follows = rows[i].follows /\ rs[i].calls = rows[i].calls
               /\ rs[i].status = "superseded" /\ ~rs[i].raw
               /\ rs[i].ran = rows[i].ran
    <3>1. PICK a : a = rows[i]
      OBVIOUS
    <3>2. a \in Row /\ rs[i] = [a EXCEPT !.status = "superseded", !.raw = FALSE]
      BY <1>1, <1>2, <2>1, <3>1
    <3>3. QED
      BY <3>1, <3>2 DEF Row
  <2>2. QED
    BY <1>2, <2>1 DEF SameRow
<1>4. /\ rows' \in Seq(Row)
      /\ \A i \in 1..Len(rows) : SameRow(rows'[i], rs[i])
      /\ \/ Len(rows') = Len(rows)
         \/ /\ Len(rows') = Len(rows) + 1
            /\ \E t \in Texts : SameRow(rows'[Len(rows) + 1], Question(t))
  <2>1. CASE rows' = rs
    <3>1. rs \in Seq(Row) /\ Len(rs) = Len(rows)
      BY <1>2
    <3>2. \A i \in 1..Len(rows) : SameRow(rows'[i], rs[i])
      BY <2>1 DEF SameRow
    <3>3. QED
      BY <2>1, <3>1, <3>2
  <2>2. CASE \E t \in Texts : rows' = Insert(rs, Question(t))
    <3>1. PICK t \in Texts : rows' = Insert(rs, Question(t))
      BY <2>2
    <3>2. Question(t) \in Row
      BY QuestionRow
    <3>3. QED
      BY <1>2, <3>1, <3>2, Inserted
  <2>3. QED
    BY <2>1, <2>2
<1>5. \A i \in 1..Len(rows) :
        /\ i \notin S => SameRow(rows'[i], rows[i])
        /\ i \in S => /\ rows'[i].kind = rows[i].kind /\ rows'[i].run = rows[i].run
                      /\ rows'[i].follows = rows[i].follows /\ rows'[i].calls = rows[i].calls
                      /\ rows'[i].status = "superseded" /\ ~rows'[i].raw
                      /\ rows'[i].ran = rows[i].ran
  BY <1>3, <1>4 DEF SameRow
<1>6. \A i \in 1..Len(rows) : OldRow(rows[i], rows'[i])
  BY <1>5, SameIsOld DEF OldRow, RowOK
<1>7. LongerRows
  BY <1>1, <1>4 DEF LongerRows
<1>8. \A i \in 1..Len(rows) : i \in Active' <=> i \in Active /\ i \notin S
  BY <1>5, <1>7, ActiveAfter DEF SameRow, Places
<1>9. WithdrawsTheRest
  BY <1>1, <1>8 DEF WithdrawsTheRest, Active
<1>10. ASSUME NEW t \in Texts, SameRow(rows'[Len(rows) + 1], Question(t))
       PROVE  Fresh(rows'[Len(rows) + 1])
  <2>1. SameRow(rows'[Len(rows) + 1], Question(t))
    BY <1>10
  <2>2. 0 \in 0..Len(rows)
    BY <1>1
  <2>3. QED
    BY <2>1, <2>2, QuestionRow DEF SameRow, Fresh, RowOK
<1>11. Mild
  BY <1>5 DEF Mild, Settled, SameRow
<1>12. ASSUME NEW i \in 1..Len(rows'), i \notin 1..Len(rows)
       PROVE  rows'[i].kind # "action"
  <2>1. i = Len(rows) + 1 /\ \E t \in Texts : SameRow(rows'[Len(rows) + 1], Question(t))
    BY <1>1, <1>4, <1>12
  <2>2. QED
    BY <2>1, QuestionRow DEF SameRow
<1>13. QED
  BY <1>4, <1>6, <1>7, <1>9, <1>10, <1>11, <1>12 DEF Shape

LEMMA EditResendShape ==
  ASSUME Places, NEW q \in Slots, EditResend(q)
  PROVE  Shape /\ Mild
<1>1. PICK S : S = {i \in Active : i >= Latest(Asked(Active))}
  OBVIOUS
<1>2. ~deleted /\ \E t \in Texts : rows' = Insert(Supersede(rows, S), Question(t))
  BY <1>1 DEF EditResend
<1>3. Active \subseteq 1..Len(rows) /\ Len(rows) \in Nat
  BY StoredRows DEF Places, ConversationTypeOK, Active
<1>4. Latest(Asked(Active)) \in 1..Len(rows)
  <2>1. Asked(Active) \in SUBSET (1..Len(rows)) /\ Asked(Active) # {}
    BY <1>3 DEF Asked, EditResend
  <2>2. QED
    BY <1>3, <2>1, LatestIsLast
<1>5. \A i \in S : \A j \in Active : i < j => j \in S
  BY <1>1, <1>3, <1>4
<1>6. QED
  BY <1>1, <1>2, <1>5, WithdrawShape

LEMMA RetryShape ==
  ASSUME Places, NEW q \in Slots, Retry(q)
  PROVE  Shape /\ Mild
<1>1. PICK i : i = Latest(Active)
  OBVIOUS
<1>2. ~deleted /\ rows' = Supersede(rows, {i})
  BY <1>1 DEF Retry
<1>3. Active \in SUBSET (1..Len(rows)) /\ Active # {} /\ Len(rows) \in Nat
  BY StoredRows DEF Places, ConversationTypeOK, Active, Retry
<1>4. i \in Active /\ \A j \in Active : j <= i
  BY <1>1, <1>3, LatestIsLast
<1>5. \A k \in {i} : \A j \in Active : k < j => j \in {i}
  BY <1>3, <1>4
<1>6. QED
  BY <1>2, <1>4, <1>5, WithdrawShape

\* A write on the columns of every row.
LEMMA EveryRowWritten ==
  ASSUME ConversationTypeOK,
         rows' = [i \in DOMAIN rows |-> rows'[i]],
         \A i \in 1..Len(rows) : rows'[i] \in Row
  PROVE  LongerRows /\ Len(rows') = Len(rows)
<1>1. Len(rows) \in Nat /\ DOMAIN rows = 1..Len(rows)
  BY StoredRows DEF ConversationTypeOK
<1>2. rows' \in [1..Len(rows) -> Row]
  BY <1>1
<1>3. rows' \in Seq(Row) /\ Len(rows') = Len(rows)
  BY <1>1, <1>2, SeqDef
<1>4. QED
  BY <1>1, <1>3 DEF LongerRows

LEMMA DeleteShape ==
  ASSUME Places, NEW q \in Slots, Delete(q)
  PROVE  /\ Shape
         /\ \A i \in 1..Len(rows) :
              IF rows[i].status = "pending"
              THEN rows'[i] = [rows[i] EXCEPT !.status = "denied", !.raw = FALSE]
              ELSE rows'[i] = rows[i]
<1>1. /\ rows \in Seq(Row) /\ Len(rows) \in Nat /\ DOMAIN rows = 1..Len(rows)
      /\ \A i \in 1..Len(rows) : rows[i] \in Row
  BY StoredRows DEF Places, ConversationTypeOK
<1>2. rows' = [i \in DOMAIN rows |->
                 IF rows[i].status = "pending"
                 THEN [rows[i] EXCEPT !.status = "denied", !.raw = FALSE] ELSE rows[i]]
  BY DEF Delete
<1>3. \A i \in 1..Len(rows) :
        IF rows[i].status = "pending"
        THEN rows'[i] = [rows[i] EXCEPT !.status = "denied", !.raw = FALSE]
        ELSE rows'[i] = rows[i]
  BY <1>1, <1>2
<1>4. ASSUME NEW i \in 1..Len(rows)
      PROVE  /\ rows'[i] \in Row /\ OldRow(rows[i], rows'[i])
             /\ rows[i].status # "superseded" => rows'[i].status # "superseded"
  <2>1. CASE rows[i].status # "pending"
    BY <1>1, <1>3, <2>1, SameIsOld DEF SameRow
  <2>2. CASE rows[i].status = "pending"
    <3>1. PICK a, b : a = rows[i] /\ b = [a EXCEPT !.status = "denied", !.raw = FALSE]
      OBVIOUS
    <3>2. a \in Row /\ rows'[i] = b /\ a.status = "pending"
      BY <1>1, <1>3, <2>2, <3>1
    <3>3. /\ b.kind = a.kind /\ b.run = a.run /\ b.follows = a.follows
          /\ b.calls = a.calls /\ b.status = "denied" /\ b.raw = FALSE
      BY <3>1, <3>2 DEF Row
    <3>4. b \in Row
      BY <3>1, <3>2, Names DEF Row
    <3>5. QED
      BY <3>1, <3>2, <3>3, <3>4 DEF OldRow, RowOK
  <2>3. QED
    BY <2>1, <2>2
<1>5. rows' = [i \in DOMAIN rows |-> rows'[i]]
  BY <1>2
<1>6. LongerRows /\ Len(rows') = Len(rows)
  BY <1>4, <1>5, EveryRowWritten DEF Places
<1>7. QED
  BY <1>3, <1>4, <1>6, KeepsShape DEF Places

LEMMA LapseShape ==
  ASSUME Places, Lapse
  PROVE  /\ Shape
         /\ \A i \in 1..Len(rows) : rows'[i].status = rows[i].status /\ rows'[i].ran = rows[i].ran
<1>1. /\ rows \in Seq(Row) /\ Len(rows) \in Nat /\ DOMAIN rows = 1..Len(rows)
      /\ \A i \in 1..Len(rows) : rows[i] \in Row
  BY StoredRows DEF Places, ConversationTypeOK
<1>2. PICK n \in DOMAIN rows :
        rows' = [j \in DOMAIN rows |->
                   IF j <= n /\ rows[j].kind = "action"
                   THEN [rows[j] EXCEPT !.old = TRUE] ELSE rows[j]]
  BY DEF Lapse
<1>3. ASSUME NEW i \in 1..Len(rows)
      PROVE  /\ rows'[i] \in Row /\ OldRow(rows[i], rows'[i])
             /\ rows'[i].status = rows[i].status /\ rows'[i].ran = rows[i].ran
  <2>1. PICK a, b : a = rows[i] /\ b = [a EXCEPT !.old = TRUE]
    OBVIOUS
  <2>2. a \in Row /\ rows'[i] \in {a, b}
    BY <1>1, <1>2, <2>1
  <2>3. /\ b.kind = a.kind /\ b.run = a.run /\ b.follows = a.follows /\ b.calls = a.calls
        /\ b.status = a.status /\ b.raw = a.raw /\ b.ran = a.ran
    BY <2>1, <2>2 DEF Row
  <2>4. b \in Row
    BY <2>1, <2>2, RowMarked
  <2>5. QED
    BY <2>1, <2>2, <2>3, <2>4 DEF OldRow, RowOK
<1>4. rows' = [i \in DOMAIN rows |-> rows'[i]]
  BY <1>2
<1>5. LongerRows /\ Len(rows') = Len(rows)
  BY <1>3, <1>4, EveryRowWritten DEF Places
<1>6. QED
  BY <1>3, <1>5, KeepsShape DEF Places

LEMMA TurnStepWorks ==
  ASSUME ConversationTypeOK, NEW s \in Streams, TurnStep(s)
  PROVE  \/ TurnWorks(s) \/ MarkStopped(s)
         \/ BeginRun(s) \/ NoRun(s) \/ Register(s) \/ Finish(s)
  BY StoreQuestionWorks, SummariseWorks, AnswerWorks, PauseWorks, FailsWorks,
     CallToolsWorks, StoreResultWorks, StartCompactionWorks, CompactionEndsWorks,
     DenyThenPauseWorks, NextIterationWorks DEF TurnStep

LEMMA IdleShape ==
  ASSUME Places, UNCHANGED rows
  PROVE  Shape
  BY UnchangedIsQuiet, QuietShape DEF Places, ConversationTypeOK

LEMMA StepShape ==
  ASSUME Places, [Next]_vars
  PROVE  Shape
<1>1. ASSUME NEW s \in Streams, TurnStep(s)
      PROVE  Shape
  <2>1. CASE BeginRun(s) \/ NoRun(s) \/ Register(s) \/ Finish(s)
    <3>1. UNCHANGED rows
      BY <2>1 DEF BeginRun, NoRun, Register, Finish
    <3>2. QED
      BY <3>1, IdleShape
  <2>2. QED
    BY <1>1, <2>1, TurnStepWorks, WorksShape, MarkStoppedShape DEF Places
<1>2. ASSUME NEW s \in Streams, OpenStream(s) \/ Close(s)
      PROVE  Shape
  BY <1>2, IdleShape DEF OpenStream, Close
<1>3. ASSUME NEW q \in Requests, UserStep(q)
      PROVE  Shape
  <2>1. q \in Slots
    BY DEF Slots
  <2>2. CASE EditResend(q) \/ Retry(q) \/ Delete(q)
    BY <2>1, <2>2, EditResendShape, RetryShape, DeleteShape
  <2>3. CASE Post(q) \/ Cancel(q) \/ FindPending(q)
    BY <2>3, IdleShape DEF Post, Cancel, FindPending
  <2>4. QED
    BY <1>3, <2>2, <2>3 DEF UserStep
<1>4. ASSUME NEW q \in Slots, RequestStep(q)
      PROVE  Shape
  <2>1. CASE CancelTurn(q) \/ ClaimLost(q) \/ WriteThrows(q) \/ DispatchEnds(q)
    BY <2>1, IdleShape DEF CancelTurn, ClaimLost, WriteThrows, DispatchEnds
  <2>2. QED
    BY <1>4, <2>1, StorePostShape, ClaimShape, RunToolShape, ReopenShape,
       CloseFailedShape, AnswerPausedShape DEF RequestStep
<1>5. CASE Sweep \/ Crash \/ UNCHANGED vars
  BY <1>5, IdleShape DEF Sweep, Crash, vars
<1>6. QED
  BY <1>1, <1>2, <1>3, <1>4, <1>5, LapseShape DEF Next, Slots

-----------------------------------------------------------------------------
(* The places are kept *)

\* A step after which each held row was held before, or is paused, and each mark
\* that is outstanding was so or is for the reply just stored.
LEMMA PlacesKept ==
  ASSUME Places, Shape, ConversationTypeOK',
         \A q \in Slots : Held(q)' => \/ Held(q) /\ request'[q].row = request[q].row
                                      \/ request'[q].row \in Paused,
         \A s \in Streams :
           turn'[s].pc = "stop" =>
             \/ turn[s].pc = "stop" /\ turn'[s].last = turn[s].last
             \/ /\ turn'[s].last = Len(rows) + 1 /\ Len(rows') = Len(rows) + 1
                /\ rows'[Len(rows) + 1].kind # "action"
  PROVE  Places'
<1>1. /\ Len(rows) \in Nat /\ DOMAIN rows = 1..Len(rows)
      /\ Len(rows') \in Nat /\ Len(rows) <= Len(rows')
  BY StoredRows DEF Places, ConversationTypeOK, Shape, LongerRows
<1>2. \A i \in 1..Len(rows) : i \in 1..Len(rows') /\ OldRow(rows[i], rows'[i])
  BY <1>1 DEF Shape
<1>3. RowsOK'
  <2>1. ASSUME NEW i \in 1..Len(rows')
        PROVE  RowOK(rows'[i])
    <3>1. CASE i \in 1..Len(rows)
      BY <1>2, <3>1 DEF Places, RowsOK, OldRow
    <3>2. CASE i \notin 1..Len(rows)
      BY <1>1, <3>2 DEF Shape, Fresh
    <3>3. QED
      BY <3>1, <3>2
  <2>2. QED
    BY <2>1 DEF RowsOK, RowOK
<1>4. HeldActions'
  <2>1. ASSUME NEW q \in Slots, Held(q)'
        PROVE  /\ request'[q].row \in 1..Len(rows')
               /\ rows'[request'[q].row].kind = "action"
    <3>1. CASE Held(q) /\ request'[q].row = request[q].row
      BY <1>2, <3>1, HeldRow DEF OldRow
    <3>2. CASE request'[q].row \in Paused
      BY <1>1, <1>2, <3>2 DEF Paused, OldRow, Places, RowsOK, RowOK
    <3>3. QED
      BY <2>1, <3>1, <3>2
  <2>2. QED
    BY <2>1 DEF HeldActions
<1>5. StopsReply'
  <2>1. ASSUME NEW s \in Streams, turn'[s].pc = "stop"
        PROVE  /\ turn'[s].last \in 1..Len(rows')
               /\ rows'[turn'[s].last].kind # "action"
    <3>1. CASE turn[s].pc = "stop" /\ turn'[s].last = turn[s].last
      BY <1>2, <3>1 DEF OldRow, Places, StopsReply
    <3>2. CASE /\ turn'[s].last = Len(rows) + 1 /\ Len(rows') = Len(rows) + 1
               /\ rows'[Len(rows) + 1].kind # "action"
      BY <1>1, <3>2
    <3>3. QED
      BY <2>1, <3>1, <3>2
  <2>2. QED
    BY <2>1 DEF StopsReply
<1>6. QED
  BY <1>3, <1>4, <1>5 DEF Places

\* A step of a turn, which touches no request.
LEMMA TurnStepPlaces ==
  ASSUME Places, NEW s \in Streams, TurnStep(s) \/ OpenStream(s) \/ Close(s)
  PROVE  Places'
<1>1. Shape
  BY StepShape DEF Next
<1>2. UNCHANGED request
  BY DEF TurnStep, BeginRun, NoRun, Register, StoreQuestion, StartCompaction, Summarise,
     SummaryFails, HideOldRows, Answer, CallTools, Pause, DenyThenPause, StoreResult,
     PauseAfterDenied, NextIteration, Fails, MarkStopped, Finish, OpenStream, Close
<1>3. \A q \in Slots : Held(q)' => Held(q) /\ request'[q].row = request[q].row
  BY <1>2 DEF Held
<1>4. CASE TurnWorks(s)
  <2>1. PICK t \in Turn :
          /\ turn' = [turn EXCEPT ![s] = t]
          /\ \/ t.pc # "stop"
             \/ \E r : Grows(r) /\ (t.pc = "stop" => t.last = Len(rows) + 1 /\ r.kind = "answer")
    BY <1>4 DEF TurnWorks
  <2>2. \A p \in Streams : turn'[p] = IF p = s THEN t ELSE turn[p]
    BY <2>1 DEF Places, ConversationTypeOK
  <2>3. t.pc = "stop" => /\ t.last = Len(rows) + 1 /\ Len(rows') = Len(rows) + 1
                         /\ rows'[Len(rows) + 1].kind # "action"
    BY <2>1 DEF Grows, SameRow
  <2>4. QED
    BY <1>1, <1>3, <1>4, <2>2, <2>3, WorksTyped, PlacesKept DEF Places
<1>5. CASE MarkStopped(s)
  <2>1. \A p \in Streams : turn'[p].pc = "stop" => turn[p].pc = "stop" /\ turn'[p].last = turn[p].last
    BY <1>5, MarkStoppedWrites DEF Places, ConversationTypeOK
  <2>2. QED
    BY <1>1, <1>3, <1>5, <2>1, MarkStoppedTyped, PlacesKept DEF Places
<1>6. CASE BeginRun(s) \/ NoRun(s) \/ Finish(s) \/ OpenStream(s) \/ Close(s)
  <2>1. ConversationTypeOK'
    BY <1>6, BoundaryTyped DEF Places
  <2>2. \A p \in Streams : turn'[p].pc = "stop" => turn[p].pc = "stop" /\ turn'[p].last = turn[p].last
    <3>1. CASE OpenStream(s)
      BY <3>1 DEF OpenStream, Places, ConversationTypeOK
    <3>2. CASE BeginRun(s)
      BY <3>2 DEF BeginRun, Goto, Places, ConversationTypeOK
    <3>3. CASE NoRun(s) \/ Finish(s)
      BY <3>3, EndedTyped DEF NoRun, Finish, Places, ConversationTypeOK
    <3>4. CASE Close(s)
      BY <3>4, AbortMarks DEF Close, Places
    <3>5. QED
      BY <1>6, <3>1, <3>2, <3>3, <3>4
  <2>3. QED
    BY <1>1, <1>3, <2>1, <2>2, PlacesKept
<1>7. CASE Register(s)
  <2>1. \A p \in Streams : turn'[p].pc = "stop" => turn[p].pc = "stop" /\ turn'[p].last = turn[p].last
    <3>1. ConversationTypeOK /\ registry \in Streams \cup {None}
      BY DEF Places, ConversationTypeOK
    <3>2. turn'[s].pc # "stop"
      BY <1>7, <3>1, RegisterSets
    <3>3. \A p \in Streams \ {s} : turn'[p] = Abort(turn, registry)[p]
      BY <1>7, <3>1, RegisterSets
    <3>4. QED
      BY <3>1, <3>2, <3>3, AbortMarks
  <2>2. QED
    BY <1>1, <1>3, <1>7, <2>1, RegisterTyped, PlacesKept DEF Places
<1>8. QED
  BY <1>4, <1>5, <1>6, <1>7, TurnStepWorks DEF Places

\* What a request of the user or the sweep leaves of the turns, and where it goes.
LEMMA RequestGoesOn ==
  ASSUME Places, Shape, NEW q \in Slots,
         token' \in Streams \cup {None}, registry' \in Streams \cup {None},
         deleted' \in BOOLEAN,
         UNCHANGED turn \/ turn' = Abort(turn, registry),
         \/ Done(q)
         \/ /\ \E pc \in RequestPCs : Move(q, pc)
            /\ Held(q)' => Held(q)
         \/ UNCHANGED request
  PROVE  Places'
<1>1. LongerRows /\ rows' \in Seq(Row)
  BY DEF Shape, LongerRows
<1>2. turn' \in [Streams -> Turn] /\ \A s \in Streams : turn'[s].last \in 0..Len(rows')
  <2>1. CASE UNCHANGED turn
    BY <1>1, <2>1, OthersTyped DEF Places
  <2>2. CASE turn' = Abort(turn, registry)
    BY <1>1, <2>2, AbortMarks, StoredRows DEF Places, ConversationTypeOK, LongerRows
  <2>3. QED
    BY <2>1, <2>2
<1>3. /\ request' \in [Slots -> RequestType]
      /\ \A p \in Slots : request'[p].row \in 0..Len(rows')
  BY <1>1, RequestGoes, OthersTyped DEF Places
<1>4. ConversationTypeOK'
  BY <1>1, <1>2, <1>3 DEF ConversationTypeOK, Slots, RequestType
<1>5. request \in [Slots -> RequestType]
  BY DEF Places, ConversationTypeOK, Slots, RequestType
<1>6. \A p \in Slots : Held(p)' => Held(p) /\ request'[p].row = request[p].row
  <2>1. CASE Done(q)
    BY <1>5, <2>1 DEF Done, Free, Held
  <2>2. CASE (\E pc \in RequestPCs : Move(q, pc)) /\ (Held(q)' => Held(q))
    <3>1. PICK pc \in RequestPCs : request' = [request EXCEPT ![q].pc = pc]
      BY <2>2 DEF Move
    <3>2. \A p \in Slots : request'[p].row = request[p].row
      BY <1>5, <3>1 DEF RequestType
    <3>3. \A p \in Slots : p # q => request'[p] = request[p]
      BY <1>5, <3>1
    <3>4. QED
      BY <2>2, <3>2, <3>3 DEF Held
  <2>3. CASE UNCHANGED request
    BY <2>3 DEF Held
  <2>4. QED
    BY <2>1, <2>2, <2>3
<1>7. \A s \in Streams :
        turn'[s].pc = "stop" => turn[s].pc = "stop" /\ turn'[s].last = turn[s].last
  BY AbortMarks DEF Places, ConversationTypeOK
<1>8. QED
  BY <1>4, <1>6, <1>7, PlacesKept

\* A request that looks a paused row up.
LEMMA RequestTakes ==
  ASSUME Places, UNCHANGED <<rows, token, deleted, registry, turn>>,
         NEW q \in Slots, NEW i \in Paused, NEW pc \in RequestPCs, Take(q, i, pc)
  PROVE  Places'
<1>1. Shape
  BY IdleShape
<1>2. i \in 1..Len(rows) /\ Len(rows) \in Nat
  BY StoredRows DEF Paused, Places, ConversationTypeOK
<1>3. PICK x : x = [pc |-> pc, row |-> i]
  OBVIOUS
<1>4. x \in RequestType /\ x.row = i /\ request' = [request EXCEPT ![q] = x]
  BY <1>2, <1>3 DEF RequestType, Take
<1>5. LongerRows
  BY <1>1 DEF Shape
<1>6. i \in 0..Len(rows')
  BY <1>2
<1>7. ConversationTypeOK'
  BY <1>4, <1>5, <1>6, OneRequestMoves, OthersTyped
     DEF ConversationTypeOK, LongerRows, Slots, RequestType, Places
<1>8. \A p \in Slots : Held(p)' => \/ Held(p) /\ request'[p].row = request[p].row
                                   \/ request'[p].row \in Paused
  BY <1>4 DEF Held, Places, ConversationTypeOK, Slots
<1>9. QED
  BY <1>1, <1>7, <1>8, PlacesKept

LEMMA UserStepPlaces ==
  ASSUME Places, NEW q \in Requests, UserStep(q)
  PROVE  Places'
<1>1. q \in Slots
  BY DEF Slots
<1>2. Shape
  BY StepShape DEF Next
<1>3. CASE FindPending(q)
  <2>1. PICK i \in Paused, pc \in {"confirming", "declining"} : Take(q, i, pc)
    BY <1>3 DEF FindPending
  <2>2. pc \in RequestPCs
    BY DEF RequestPCs
  <2>3. QED
    BY <1>1, <1>3, <2>1, <2>2, RequestTakes DEF FindPending
<1>4. CASE Post(q) \/ EditResend(q) \/ Retry(q) \/ Delete(q) \/ Cancel(q)
  <2>1. /\ \E pc \in {"posting", "cancelling"} : Move(q, pc)
        /\ UNCHANGED <<token, registry, turn>> /\ deleted' \in {deleted, TRUE}
    BY <1>4 DEF Post, EditResend, Retry, Delete, Cancel
  <2>2. \E pc \in RequestPCs : Move(q, pc)
    BY <2>1 DEF RequestPCs
  <2>3. ~Held(q)'
    BY <1>1, <2>1 DEF Move, Held, Places, ConversationTypeOK, Slots
  <2>4. /\ token' \in Streams \cup {None} /\ registry' \in Streams \cup {None}
        /\ deleted' \in BOOLEAN
    BY <2>1 DEF Places, ConversationTypeOK
  <2>5. QED
    BY <1>1, <1>2, <2>1, <2>2, <2>3, <2>4, RequestGoesOn
<1>5. QED
  BY <1>3, <1>4 DEF UserStep

LEMMA RequestStepPlaces ==
  ASSUME Places, NEW q \in Slots, RequestStep(q)
  PROVE  Places'
<1>1. Shape
  BY StepShape DEF Next, Slots
<1>2. token' = token /\ deleted' = deleted /\ registry' \in {registry, None}
  BY DEF RequestStep, StorePost, CancelTurn, Claim, ClaimLost, WriteThrows, RunTool, DispatchEnds,
     Reopen, CloseFailed, AnswerPaused
<1>3. UNCHANGED turn \/ turn' = Abort(turn, registry)
  BY DEF RequestStep, StorePost, CancelTurn, Claim, ClaimLost, WriteThrows, RunTool, DispatchEnds,
     Reopen, CloseFailed, AnswerPaused
<1>4. \/ Done(q)
      \/ /\ \E pc \in RequestPCs : Move(q, pc)
         /\ Held(q)
  <2>1. CASE \/ StorePost(q) \/ CancelTurn(q) \/ ClaimLost(q) \/ WriteThrows(q)
             \/ Reopen(q) \/ CloseFailed(q) \/ AnswerPaused(q)
    BY <2>1 DEF StorePost, CancelTurn, ClaimLost, WriteThrows, Reopen, CloseFailed, AnswerPaused
  <2>2. CASE Claim(q) \/ RunTool(q) \/ DispatchEnds(q)
    <3>1. Held(q)
      BY <2>2 DEF Claim, Claiming, RunTool, DispatchEnds, Doing, Held
    <3>2. \E pc \in {"dispatching", "answering", "reopening", "closing"} : Move(q, pc)
      BY <2>2 DEF Claim, RunTool, DispatchEnds
    <3>3. QED
      BY <3>1, <3>2 DEF RequestPCs
  <2>3. QED
    BY <2>1, <2>2 DEF RequestStep
<1>5. /\ token' \in Streams \cup {None} /\ registry' \in Streams \cup {None}
      /\ deleted' \in BOOLEAN
  BY <1>2 DEF Places, ConversationTypeOK
<1>6. QED
  BY <1>1, <1>3, <1>4, <1>5, RequestGoesOn

LEMMA CrashPlaces ==
  ASSUME Places, Crash
  PROVE  Places'
<1>1. Shape
  BY IdleShape DEF Crash
<1>2. /\ turn' = [s \in Streams |-> IF At(s, "idle") THEN turn[s] ELSE Ended]
      /\ request' = [q \in Slots |-> Free]
      /\ registry' = None /\ UNCHANGED <<rows, token, deleted>>
  BY DEF Crash, Slots
<1>3. Len(rows) \in Nat
  BY StoredRows DEF Places, ConversationTypeOK
<1>4. /\ turn' \in [Streams -> Turn]
      /\ \A s \in Streams : turn'[s].last \in 0..Len(rows) /\ turn'[s].pc # "stop"
  BY <1>2, <1>3, EndedTyped DEF Places, ConversationTypeOK, At
<1>5. Free \in RequestType /\ Free.row = 0 /\ Free.pc = "free"
  BY DEF Free, RequestType, RequestPCs
<1>6. /\ request' \in [Slots -> RequestType]
      /\ \A q \in Slots : request'[q].row \in 0..Len(rows) /\ request'[q].pc = "free"
  BY <1>2, <1>3, <1>5
<1>7. ConversationTypeOK'
  BY <1>2, <1>4, <1>6 DEF Places, ConversationTypeOK, Slots, RequestType
<1>8. \A q \in Slots : ~Held(q)'
  BY <1>6 DEF Held
<1>9. QED
  BY <1>1, <1>4, <1>7, <1>8, PlacesKept

LEMMA PlacesStep ==
  ASSUME Places, [Next]_vars
  PROVE  Places'
<1>1. CASE UNCHANGED vars
  BY <1>1 DEF vars, Places, ConversationTypeOK, HeldActions, Held, StopsReply, RowsOK
<1>2. CASE Lapse
  <2>1. Shape /\ UNCHANGED <<token, deleted, registry, turn, request>>
    BY <1>2, LapseShape DEF Lapse
  <2>2. Sweeper \in Slots
    BY DEF Slots
  <2>3. QED
    BY <2>1, <2>2, RequestGoesOn DEF Places, ConversationTypeOK
<1>3. CASE Sweep
  <2>1. PICK i \in Paused : Take(Sweeper, i, "expiring")
    BY <1>3 DEF Sweep
  <2>2. Sweeper \in Slots /\ "expiring" \in RequestPCs
    BY DEF Slots, RequestPCs
  <2>3. QED
    BY <1>3, <2>1, <2>2, RequestTakes DEF Sweep
<1>4. QED
  BY <1>1, <1>2, <1>3, TurnStepPlaces, UserStepPlaces, RequestStepPlaces, CrashPlaces
     DEF Next, Slots

LEMMA PlacesInit == Init => Places
<1> SUFFICES ASSUME Init PROVE Places
  OBVIOUS
<1>1. rows \in Seq(Row) /\ Len(rows) = 0 /\ rows = <<>>
  BY DEF Init
<1>2. NoTurn \in Turn /\ NoTurn.last = 0 /\ NoTurn.pc = "idle"
  BY Names DEF NoTurn, Turn
<1>3. Free \in RequestType /\ Free.row = 0 /\ Free.pc = "free"
  BY DEF Free, RequestType, RequestPCs
<1>4. /\ turn \in [Streams -> Turn]
      /\ \A s \in Streams : turn[s].last = 0 /\ turn[s].pc = "idle"
  BY <1>2 DEF Init
<1>5. /\ request \in [Slots -> RequestType]
      /\ \A q \in Slots : request[q].row = 0 /\ request[q].pc = "free"
  BY <1>3 DEF Init, Slots
<1>6. ConversationTypeOK
  <2>1. /\ \A s \in Streams : turn[s].last \in 0..Len(rows)
        /\ \A q \in Slots : request[q].row \in 0..Len(rows)
    BY <1>1, <1>4, <1>5
  <2>2. token \in Streams \cup {None} /\ registry \in Streams \cup {None} /\ deleted \in BOOLEAN
    BY DEF Init
  <2>3. QED
    BY <1>1, <1>4, <1>5, <2>1, <2>2 DEF ConversationTypeOK, Slots, RequestType
<1>7. QED
  BY <1>1, <1>4, <1>5, <1>6 DEF Places, HeldActions, Held, StopsReply, RowsOK

THEOREM PlacesAlways == Spec => []Places
<1>1. Places /\ [Next]_vars => Places'
  BY PlacesStep
<1>2. QED
  BY <1>1, PlacesInit, PTL DEF Spec

\* Rows, turns and requests keep their types, and every place a turn or a request
\* names is that of a stored row.
THEOREM ConversationIsTyped == Spec => []ConversationTypeOK
<1>1. Places => ConversationTypeOK
  BY DEF Places
<1>2. QED
  BY <1>1, PlacesAlways, PTL

\* Arguments are stored as given exactly while their action waits (HARD-21).
THEOREM ArgumentsAreRedacted == Spec => []RawOnlyWhilePaused
<1>1. Places => RawOnlyWhilePaused
  BY StoredRows DEF Places, RowsOK, RowOK, RawOnlyWhilePaused, ConversationTypeOK
<1>2. QED
  BY <1>1, PlacesAlways, PTL

-----------------------------------------------------------------------------
(* Nothing hangs on what is withdrawn *)

FollowsEarlier == \A i \in 1..Len(rows) : rows[i].follows \in 0..(i - 1)

Hangs == FollowsEarlier /\ AnswerHangsOnActive

\* A row that was not there is the last one, and is fresh.
LEMMA NewestRow ==
  ASSUME Places, Shape, NEW i \in 1..Len(rows'), i \notin 1..Len(rows)
  PROVE  i = Len(rows) + 1 /\ Fresh(rows'[i])
<1>1. \/ Len(rows') = Len(rows)
      \/ Len(rows') = Len(rows) + 1 /\ Fresh(rows'[Len(rows) + 1])
  BY DEF Shape
<1>2. PICK n, m : n = Len(rows) /\ m = Len(rows')
  OBVIOUS
<1>3. n \in Nat /\ m \in Nat /\ i \in 1..m /\ i \notin 1..n /\ (m = n \/ m = n + 1)
  BY <1>1, <1>2, StoredRows DEF Places, ConversationTypeOK, Shape, LongerRows
<1>4. i = n + 1 /\ m # n
  BY <1>3
<1>5. QED
  BY <1>1, <1>2, <1>4

LEMMA HangsStep ==
  ASSUME Places, Hangs, [Next]_vars
  PROVE  Hangs'
<1>1. Shape /\ LongerRows
  BY StepShape DEF Shape
<1>2. /\ Len(rows) \in Nat /\ Active \subseteq 1..Len(rows)
      /\ Len(rows') \in Nat /\ DOMAIN rows' = 1..Len(rows')
  BY <1>1, StoredRows, LenProperties DEF Places, ConversationTypeOK, Active, LongerRows
<1>3. Active' = {i \in 1..Len(rows') : rows'[i].status # "superseded"}
  BY <1>2 DEF Active
<1>4. \A i \in 1..Len(rows) : rows'[i].follows = rows[i].follows /\ (i \in Active' => i \in Active)
  BY <1>1, ActiveAfter DEF Shape, OldRow, Places
<1>5. ASSUME NEW i \in 1..Len(rows'), i \notin 1..Len(rows)
      PROVE  i = Len(rows) + 1 /\ Fresh(rows'[i])
  BY <1>1, <1>5, NewestRow
<1>6. FollowsEarlier'
  <2>1. ASSUME NEW i \in 1..Len(rows')
        PROVE  rows'[i].follows \in 0..(i - 1)
    <3>1. CASE i \in 1..Len(rows)
      BY <1>4, <3>1 DEF Hangs, FollowsEarlier
    <3>2. CASE i \notin 1..Len(rows)
      BY <1>2, <1>5, <3>2 DEF Fresh
    <3>3. QED
      BY <3>1, <3>2
  <2>2. QED
    BY <2>1 DEF FollowsEarlier
<1>7. AnswerHangsOnActive'
  <2>1. ASSUME NEW i \in Active', rows'[i].follows # 0
        PROVE  rows'[i].follows \in Active'
    <3>1. CASE i \in 1..Len(rows)
      <4>1. i \in Active /\ rows[i].follows \in Active /\ rows[i].follows < i
        BY <1>2, <1>4, <2>1, <3>1 DEF Hangs, AnswerHangsOnActive, FollowsEarlier
      <4>2. QED
        BY <1>1, <1>4, <2>1, <3>1, <4>1 DEF Shape, WithdrawsTheRest
    <3>2. CASE i \notin 1..Len(rows)
      BY <1>3, <1>5, <2>1, <3>2 DEF Fresh
    <3>3. QED
      BY <3>1, <3>2
  <2>2. QED
    BY <2>1 DEF AnswerHangsOnActive
<1>8. QED
  BY <1>6, <1>7 DEF Hangs

\* An answer on the active branch never hangs on something withdrawn.
THEOREM NothingHangsOnWithdrawn == Spec => []AnswerHangsOnActive
<1>1. Init => Hangs
  BY DEF Init, Hangs, FollowsEarlier, AnswerHangsOnActive, Active
<1>2. Places /\ Hangs /\ [Next]_vars => Hangs'
  BY HangsStep
<1>3. Hangs => AnswerHangsOnActive
  BY DEF Hangs
<1>4. QED
  BY <1>1, <1>2, <1>3, PlacesAlways, PTL DEF Spec

-----------------------------------------------------------------------------
(* Turns do not mix their rows *)

Begun(s) == turn[s].pc \notin {"idle", "begin"}

\* Who holds the token or has written has begun; after the token changes, what an
\* older turn wrote is behind everything the newer one writes.
Tokens ==
  /\ token # None => Begun(token)
  /\ \A i \in 1..Len(rows) : rows[i].run # None => Begun(rows[i].run)
  /\ \A i, j \in 1..Len(rows) :
       i < j /\ rows[i].run = token /\ token # None => rows[j].run \in {None, token}

Runs == Tokens /\ RunsDoNotInterleave

\* A turn that has begun does not become one that has not; the token changes hands
\* only when a turn begins.
LEMMA TokenMoves ==
  ASSUME Places, [Next]_vars
  PROVE  /\ \A s \in Streams : Begun(s) => turn'[s].pc \notin {"idle", "begin"}
         /\ \/ token' = token
            \/ \E s \in Streams : /\ ~Begun(s) /\ token' = s
                                  /\ turn'[s].pc \notin {"idle", "begin"}
                                  /\ UNCHANGED rows
<1>1. ConversationTypeOK /\ turn \in [Streams -> Turn]
      /\ registry \in Streams \cup {None}
  BY DEF Places, ConversationTypeOK
<1>2. ASSUME NEW s \in Streams, TurnWorks(s)
      PROVE  /\ token' = token
             /\ \A p \in Streams : Begun(p) => turn'[p].pc \notin {"idle", "begin"}
  <2>1. PICK t \in Turn : turn' = [turn EXCEPT ![s] = t] /\ t.pc \in Listed
    BY <1>2 DEF TurnWorks
  <2>2. t.pc \notin {"idle", "begin"}
    BY <2>1 DEF Listed
  <2>3. QED
    BY <1>1, <1>2, <2>1, <2>2 DEF TurnWorks, Begun
<1>3. ASSUME NEW s \in Streams, MarkStopped(s)
      PROVE  /\ token' = token
             /\ \A p \in Streams : Begun(p) => turn'[p].pc \notin {"idle", "begin"}
  BY <1>1, <1>3, MarkStoppedWrites DEF Begun
<1>4. ASSUME NEW s \in Streams, Register(s)
      PROVE  /\ token' = token
             /\ \A p \in Streams : Begun(p) => turn'[p].pc \notin {"idle", "begin"}
  <2>1. token' = token /\ turn'[s].pc \in {"think", "ask"}
    BY <1>1, <1>4, RegisterSets
  <2>2. \A p \in Streams \ {s} : turn'[p].pc = turn[p].pc
    BY <1>1, <1>4, RegisterSets, AbortMarks
  <2>3. QED
    BY <2>1, <2>2 DEF Begun
<1>5. ASSUME NEW s \in Streams, BeginRun(s)
      PROVE  /\ ~Begun(s) /\ token' = s /\ UNCHANGED rows
             /\ turn'[s].pc \notin {"idle", "begin"}
             /\ \A p \in Streams : Begun(p) => turn'[p].pc \notin {"idle", "begin"}
  BY <1>1, <1>5 DEF BeginRun, At, Goto, Begun
<1>6. ASSUME NEW s \in Streams, NoRun(s) \/ Finish(s)
      PROVE  /\ token' = token
             /\ \A p \in Streams : Begun(p) => turn'[p].pc \notin {"idle", "begin"}
  BY <1>1, <1>6, EndedTyped DEF NoRun, Finish, Begun
<1>7. ASSUME NEW s \in Streams, OpenStream(s)
      PROVE  /\ token' = token
             /\ \A p \in Streams : Begun(p) => turn'[p].pc \notin {"idle", "begin"}
  BY <1>1, <1>7 DEF OpenStream, At, Begun
<1>8. ASSUME NEW s \in Streams, Close(s)
      PROVE  /\ token' = token
             /\ \A p \in Streams : Begun(p) => turn'[p].pc \notin {"idle", "begin"}
  BY <1>1, <1>8, AbortMarks DEF Close, Begun
<1>9. ASSUME NEW q \in Slots, RequestStep(q) \/ (q \in Requests /\ UserStep(q))
      PROVE  /\ token' = token
             /\ \A p \in Streams : Begun(p) => turn'[p].pc \notin {"idle", "begin"}
  <2>1. token' = token /\ (UNCHANGED turn \/ turn' = Abort(turn, registry))
    BY <1>9 DEF RequestStep, StorePost, CancelTurn, Claim, ClaimLost, WriteThrows, RunTool, DispatchEnds,
       Reopen, CloseFailed, AnswerPaused, UserStep, Post, EditResend, Retry, Delete, Cancel,
       FindPending
  <2>2. QED
    BY <1>1, <2>1, AbortMarks DEF Begun
<1>10. ASSUME Crash
       PROVE  /\ token' = token
              /\ \A p \in Streams : Begun(p) => turn'[p].pc \notin {"idle", "begin"}
  BY <1>10, EndedTyped DEF Crash, At, Begun
<1>11. ASSUME Sweep \/ Lapse \/ UNCHANGED vars
       PROVE  /\ token' = token
              /\ \A p \in Streams : Begun(p) => turn'[p].pc \notin {"idle", "begin"}
  BY <1>11 DEF Sweep, Lapse, vars, Begun
<1>12. ASSUME NEW s \in Streams, TurnStep(s)
       PROVE  /\ \A p \in Streams : Begun(p) => turn'[p].pc \notin {"idle", "begin"}
              /\ \/ token' = token
                 \/ /\ ~Begun(s) /\ token' = s /\ UNCHANGED rows
                    /\ turn'[s].pc \notin {"idle", "begin"}
  BY <1>1, <1>2, <1>3, <1>4, <1>5, <1>6, <1>12, TurnStepWorks
<1>13. QED
  BY <1>7, <1>8, <1>9, <1>10, <1>11, <1>12 DEF Next, Slots

LEMMA RunsStep ==
  ASSUME Places, Runs, [Next]_vars
  PROVE  Runs'
<1>1. Shape /\ LongerRows
  BY StepShape DEF Shape
<1>2. /\ Len(rows) \in Nat /\ DOMAIN rows = 1..Len(rows)
      /\ Len(rows') \in Nat /\ DOMAIN rows' = 1..Len(rows')
      /\ \A i \in 1..Len(rows) : rows[i].run \in Streams \cup {None}
      /\ \A i \in 1..Len(rows') : rows'[i].run \in Streams \cup {None}
  <2>1. /\ Len(rows) \in Nat /\ DOMAIN rows = 1..Len(rows)
        /\ \A i \in 1..Len(rows) : rows[i] \in Row
    BY StoredRows DEF Places, ConversationTypeOK
  <2>2. /\ Len(rows') \in Nat /\ DOMAIN rows' = 1..Len(rows')
        /\ \A i \in 1..Len(rows') : rows'[i] \in Row
    BY <1>1, ElementOfSeq, LenProperties DEF LongerRows
  <2>3. QED
    BY <2>1, <2>2 DEF Row
<1>3. \A i \in 1..Len(rows) : rows'[i].run = rows[i].run
  BY <1>1 DEF Shape, OldRow
<1>4. \A i \in 1..Len(rows') : i \notin 1..Len(rows) =>
        i = Len(rows) + 1 /\ (rows'[i].run # None => rows'[i].run = token)
  BY <1>1, NewestRow DEF Fresh
<1>5. token \in Streams \cup {None} /\ token' \in Streams \cup {None}
  BY PlacesStep DEF Places, ConversationTypeOK
<1>6. token' # None => Begun(token)'
  BY <1>5, TokenMoves DEF Runs, Tokens, Begun
<1>7. ASSUME NEW i \in 1..Len(rows'), rows'[i].run # None
      PROVE  turn'[rows'[i].run].pc \notin {"idle", "begin"}
  <2>1. CASE i \in 1..Len(rows)
    BY <1>2, <1>3, <1>7, <2>1, TokenMoves DEF Runs, Tokens, Begun
  <2>2. CASE i \notin 1..Len(rows)
    BY <1>4, <1>5, <1>7, <2>2, TokenMoves DEF Runs, Tokens, Begun
  <2>3. QED
    BY <2>1, <2>2
<1>8. \A i, j \in 1..Len(rows') :
        i < j /\ rows'[i].run = token /\ token # None => rows'[j].run \in {None, token}
  <2>1. ASSUME NEW i \in 1..Len(rows'), NEW j \in 1..Len(rows'),
               i < j, rows'[i].run = token, token # None
        PROVE  rows'[j].run \in {None, token}
    <3>1. CASE j \in 1..Len(rows)
      <4>1. i \in 1..Len(rows)
        BY <1>2, <2>1, <3>1
      <4>2. QED
        BY <1>3, <2>1, <3>1, <4>1 DEF Runs, Tokens
    <3>2. CASE j \notin 1..Len(rows)
      BY <1>4, <3>2
    <3>3. QED
      BY <3>1, <3>2
  <2>2. QED
    BY <2>1
<1>9. \A i, j \in 1..Len(rows') :
        i < j /\ rows'[i].run = token' /\ token' # None => rows'[j].run \in {None, token'}
  <2>1. CASE token' = token
    BY <1>8, <2>1
  <2>2. CASE \E s \in Streams : ~Begun(s) /\ token' = s /\ UNCHANGED rows
    BY <1>2, <2>2, NameAssumption DEF Runs, Tokens
  <2>3. QED
    BY <2>1, <2>2, TokenMoves
<1>10. RunsDoNotInterleave'
  <2>1. ASSUME NEW i \in 1..Len(rows'), NEW j \in 1..Len(rows'), NEW k \in 1..Len(rows'),
               i < j, j < k, rows'[i].run = rows'[k].run, rows'[i].run # None
        PROVE  rows'[j].run \in {None, rows'[i].run}
    <3>1. CASE k \in 1..Len(rows)
      <4>1. i \in 1..Len(rows) /\ j \in 1..Len(rows)
        BY <1>2, <2>1, <3>1
      <4>2. QED
        BY <1>2, <1>3, <2>1, <3>1, <4>1 DEF Runs, RunsDoNotInterleave
    <3>2. CASE k \notin 1..Len(rows)
      <4>1. rows'[i].run = token /\ token # None
        BY <1>4, <2>1, <3>2
      <4>2. QED
        BY <1>8, <2>1, <4>1
    <3>3. QED
      BY <3>1, <3>2
  <2>2. QED
    BY <1>2, <2>1 DEF RunsDoNotInterleave
<1>11. QED
  BY <1>6, <1>7, <1>9, <1>10 DEF Runs, Tokens, Begun

\* Two turns of a conversation never mix their rows.
THEOREM TurnsDoNotMix == Spec => []RunsDoNotInterleave
<1>1. Init => Runs
  BY DEF Init, Runs, Tokens, RunsDoNotInterleave
<1>2. Places /\ Runs /\ [Next]_vars => Runs'
  BY RunsStep
<1>3. Runs => RunsDoNotInterleave
  BY DEF Runs
<1>4. QED
  BY <1>1, <1>2, <1>3, PlacesAlways, PTL DEF Spec

-----------------------------------------------------------------------------
(* A turn that is going on can be cancelled *)

\* A step that leaves the registry and every turn where it was, as far as cancelling
\* goes: under way or not, aborted or not.
LEMMA SameReach ==
  ASSUME LiveTurnIsReachable, UNCHANGED registry, registry \in Streams \cup {None},
         \A s \in Streams :
           \/ turn'[s].pc \in Listed <=> turn[s].pc \in Listed
           \/ turn'[s].pc \notin Listed /\ registry # s,
         \A s \in Streams : turn[s].aborted => turn'[s].aborted
  PROVE  LiveTurnIsReachable'
  BY DEF LiveTurnIsReachable

\* The registry lets go of the turn it holds and aborts it.
LEMMA AbortReach ==
  ASSUME Places, LiveTurnIsReachable, turn' = Abort(turn, registry), registry' = None
  PROVE  LiveTurnIsReachable'
<1>1. \A s \in Streams : turn'[s].pc = turn[s].pc /\ (s # registry => turn'[s] = turn[s])
                         /\ (s = registry => turn'[s].aborted)
  BY AbortMarks DEF Places, ConversationTypeOK
<1>2. QED
  BY <1>1 DEF LiveTurnIsReachable

LEMMA TurnStepReach ==
  ASSUME Places, LiveTurnIsReachable, NEW s \in Streams,
         TurnStep(s) \/ OpenStream(s) \/ Close(s)
  PROVE  LiveTurnIsReachable'
<1>1. /\ ConversationTypeOK /\ turn \in [Streams -> Turn]
      /\ registry \in Streams \cup {None} /\ None \notin Streams
  BY NameAssumption DEF Places, ConversationTypeOK
<1>2. CASE TurnWorks(s)
  <2>1. PICK t \in Turn : /\ turn' = [turn EXCEPT ![s] = t]
                          /\ t.pc \in Listed /\ t.aborted = turn[s].aborted
    BY <1>2 DEF TurnWorks
  <2>2. \A p \in Streams : turn'[p] = IF p = s THEN t ELSE turn[p]
    BY <1>1, <2>1
  <2>3. UNCHANGED registry /\ turn[s].pc \in Listed
    BY <1>2 DEF TurnWorks
  <2>4. QED
    BY <1>1, <2>1, <2>2, <2>3, SameReach
<1>3. CASE MarkStopped(s)
  <2>1. PICK t \in Turn : /\ turn' = [turn EXCEPT ![s] = t]
                          /\ t.pc = "end" /\ t.aborted = turn[s].aborted
    BY <1>1, <1>3, MarkStoppedWrites
  <2>2. \A p \in Streams : turn'[p] = IF p = s THEN t ELSE turn[p]
    BY <1>1, <2>1
  <2>3. UNCHANGED registry /\ turn[s].pc \in Listed /\ t.pc \in Listed
    BY <1>1, <1>3, <2>1, MarkStoppedWrites, Names
  <2>4. QED
    BY <1>1, <2>1, <2>2, <2>3, SameReach
<1>4. CASE BeginRun(s) \/ OpenStream(s)
  <2>1. \A p \in Streams : p # s => turn'[p] = turn[p]
    BY <1>1, <1>4 DEF BeginRun, OpenStream, Goto
  <2>2. /\ turn'[s].pc \in {"register", "begin"} /\ turn[s].pc \in {"begin", "idle"}
        /\ turn'[s].aborted = turn[s].aborted
    <3>1. PICK a : a = turn[s]
      OBVIOUS
    <3>2. a \in Turn /\ a.pc \in {"begin", "idle"}
      BY <1>1, <1>4, <3>1 DEF BeginRun, OpenStream, At
    <3>3. \/ turn'[s] = [a EXCEPT !.pc = "register"]
          \/ \E x : turn'[s] = [a EXCEPT !.pc = "begin", !.text = x]
      BY <1>1, <1>4, <3>1 DEF BeginRun, OpenStream, Goto
    <3>4. turn'[s].pc \in {"register", "begin"} /\ turn'[s].aborted = a.aborted
      BY <3>2, <3>3 DEF Turn
    <3>5. QED
      BY <3>1, <3>2, <3>4
  <2>3. turn'[s].pc \notin Listed /\ turn[s].pc \notin Listed
    BY <2>2 DEF Listed
  <2>4. UNCHANGED registry
    BY <1>4 DEF BeginRun, OpenStream
  <2>5. QED
    BY <1>1, <2>1, <2>2, <2>3, <2>4, SameReach
<1>5. CASE NoRun(s) \/ Finish(s)
  <2>1. /\ \A p \in Streams : p # s => turn'[p] = turn[p]
        /\ turn'[s].pc = "done" /\ turn'[s].pc \notin Listed
    BY <1>1, <1>5, EndedTyped DEF NoRun, Finish, Listed
  <2>2. registry' = IF registry = s THEN None ELSE registry
    <3>1. CASE NoRun(s)
      <4>1. turn[s].pc \notin Listed
        BY <3>1 DEF NoRun, At, Listed
      <4>2. registry # s
        BY <1>1, <4>1 DEF LiveTurnIsReachable
      <4>3. QED
        BY <3>1, <4>2 DEF NoRun
    <3>2. QED
      BY <1>5, <3>1 DEF Finish
  <2>3. QED
    BY <1>1, <2>1, <2>2 DEF LiveTurnIsReachable
<1>6. CASE Close(s)
  <2>1. UNCHANGED registry /\ turn' = Abort(turn, s)
    BY <1>6 DEF Close
  <2>2. QED
    BY <1>1, <2>1, AbortMarks, SameReach
<1>7. CASE Register(s)
  <2>1. registry' = s /\ turn'[s].pc \in Listed
    BY <1>1, <1>7, RegisterSets, Names
  <2>2. \A p \in Streams \ {s} :
          /\ turn'[p].pc = turn[p].pc
          /\ p # registry => turn'[p] = turn[p]
          /\ p = registry => turn'[p].aborted
    BY <1>1, <1>7, RegisterSets, AbortMarks
  <2>3. QED
    BY <1>1, <2>1, <2>2 DEF LiveTurnIsReachable
<1>8. QED
  BY <1>1, <1>2, <1>3, <1>4, <1>5, <1>6, <1>7, TurnStepWorks

\* A cancel reaches the turn that is going on.
THEOREM TurnIsReachable == Spec => []LiveTurnIsReachable
<1>1. Init => LiveTurnIsReachable
  BY DEF Init, NoTurn, Listed, LiveTurnIsReachable
<1>2. Places /\ LiveTurnIsReachable /\ [Next]_vars => LiveTurnIsReachable'
  <2> SUFFICES ASSUME Places, LiveTurnIsReachable, [Next]_vars
               PROVE  LiveTurnIsReachable'
    OBVIOUS
  <2>1. ASSUME NEW q \in Slots, RequestStep(q) \/ UserStep(q)
        PROVE  LiveTurnIsReachable'
    <3>1. CASE CancelTurn(q)
      BY <3>1, AbortReach DEF CancelTurn
    <3>2. CASE UNCHANGED <<registry, turn>>
      BY <3>2 DEF LiveTurnIsReachable
    <3>3. QED
      BY <2>1, <3>1, <3>2 DEF RequestStep, StorePost, Claim, ClaimLost, WriteThrows, RunTool, DispatchEnds,
         Reopen, CloseFailed, AnswerPaused, UserStep, Post, EditResend, Retry, Delete, Cancel,
         FindPending
  <2>2. CASE Crash
    <3>1. \A s \in Streams : turn'[s].pc \in {"idle", "done"}
      BY <2>2, EndedTyped DEF Crash, At
    <3>2. \A s \in Streams : turn'[s].pc \notin Listed
      BY <3>1 DEF Listed
    <3>3. QED
      BY <2>2, <3>2 DEF Crash, LiveTurnIsReachable
  <2>3. CASE Sweep \/ Lapse \/ UNCHANGED vars
    BY <2>3 DEF Sweep, Lapse, vars, LiveTurnIsReachable
  <2>4. QED
    BY <2>1, <2>2, <2>3, TurnStepReach DEF Next, Slots
<1>3. QED
  BY <1>1, <1>2, PlacesAlways, PTL DEF Spec

-----------------------------------------------------------------------------
(* A paused action runs at most once *)

\* The steps that answer or resume a pause.
Resolves(q) == Claim(q) \/ RunTool(q) \/ Reopen(q) \/ CloseFailed(q)

LEMMA MildStep ==
  ASSUME Places, [Next]_vars
  PROVE  Mild \/ \E q \in Slots : Resolves(q)
<1>1. UNCHANGED rows => Mild
  BY UnchangedIsQuiet, SameIsSettled DEF Places, ConversationTypeOK
<1>2. ASSUME NEW s \in Streams, TurnStep(s) \/ OpenStream(s) \/ Close(s)
      PROVE  Mild
  <2>1. CASE TurnWorks(s)
    BY <2>1, SameIsSettled DEF TurnWorks
  <2>2. CASE MarkStopped(s)
    <3>1. CASE UNCHANGED rows
      BY <1>1, <3>1
    <3>2. CASE Writes(turn[s].last, [rows[turn[s].last] EXCEPT !.status = "stopped"])
      <4>1. PICK n, a, b : n = turn[s].last /\ a = rows[n] /\ b = [a EXCEPT !.status = "stopped"]
        OBVIOUS
      <4>2. n \in 1..Len(rows) /\ a.kind # "action" /\ a \in Row
        BY <2>2, <4>1, MarkStoppedWrites, StoredRows DEF Places, StopsReply, ConversationTypeOK
      <4>3. b.status = "stopped" /\ b.ran = a.ran
        BY <4>1, <4>2 DEF Row
      <4>4. rows'[n] = b /\ \A j \in 1..Len(rows) : j # n => rows'[j] = rows[j]
        BY <3>2, <4>1, WritesTyped DEF Places, ConversationTypeOK
      <4>5. QED
        BY <4>1, <4>2, <4>3, <4>4 DEF Mild, Settled
    <3>3. QED
      BY <2>2, <3>1, <3>2, MarkStoppedWrites DEF Places
  <2>3. CASE BeginRun(s) \/ NoRun(s) \/ Register(s) \/ Finish(s) \/ OpenStream(s) \/ Close(s)
    BY <1>1, <2>3 DEF BeginRun, NoRun, Register, Finish, OpenStream, Close
  <2>4. QED
    BY <1>2, <2>1, <2>2, <2>3, TurnStepWorks DEF Places
<1>3. ASSUME NEW q \in Requests, UserStep(q)
      PROVE  Mild
  <2>1. q \in Slots
    BY DEF Slots
  <2>2. CASE EditResend(q) \/ Retry(q)
    BY <2>1, <2>2, EditResendShape, RetryShape
  <2>3. CASE Delete(q)
    <3>1. ASSUME NEW i \in 1..Len(rows)
          PROVE  Settled(rows[i], rows'[i])
      <4>1. PICK a, b : a = rows[i] /\ b = [a EXCEPT !.status = "denied", !.raw = FALSE]
        OBVIOUS
      <4>2. a \in Row
        BY <4>1, StoredRows DEF Places, ConversationTypeOK
      <4>3. b.status = "denied" /\ b.ran = a.ran
        BY <4>1, <4>2 DEF Row
      <4>4. rows'[i] = IF a.status = "pending" THEN b ELSE a
        BY <2>1, <2>3, <4>1, DeleteShape
      <4>5. QED
        BY <4>1, <4>3, <4>4 DEF Settled
    <3>2. QED
      BY <3>1 DEF Mild
  <2>4. CASE Post(q) \/ Cancel(q) \/ FindPending(q)
    BY <1>1, <2>4 DEF Post, Cancel, FindPending
  <2>5. QED
    BY <1>3, <2>2, <2>3, <2>4 DEF UserStep
<1>4. ASSUME NEW q \in Slots, RequestStep(q)
      PROVE  Mild \/ Resolves(q)
  <2>1. CASE CancelTurn(q) \/ ClaimLost(q) \/ WriteThrows(q) \/ DispatchEnds(q)
    BY <1>1, <2>1 DEF CancelTurn, ClaimLost, WriteThrows, DispatchEnds
  <2>2. CASE StorePost(q)
    <3>1. PICK t \in Texts : rows' = Insert(rows, Question(t))
      BY <2>2 DEF StorePost
    <3>2. Question(t) \in Row
      BY QuestionRow
    <3>3. QED
      BY <3>1, <3>2, InsertGrows, SameIsSettled DEF Places, ConversationTypeOK
  <2>3. CASE AnswerPaused(q)
    <3>1. CASE UNCHANGED rows
      BY <1>1, <3>1
    <3>2. PICK i, c : i = request[q].row /\ c = rows[i].calls
      OBVIOUS
    <3>3. i \in 1..Len(rows) /\ c \in Seq(CallIds)
      BY <2>3, <3>2, HeldRow DEF AnswerPaused, Doing, Held, Row
    <3>4. Len(rows) \in Nat /\ rows \in Seq(Row)
      BY StoredRows DEF Places, ConversationTypeOK
    <3>5. i \in Nat /\ None \in Texts \cup {None} /\ None \in Streams \cup {None}
      BY <3>3, <3>4
    <3>6. PICK r : r = NewRow("result", "sent", None, i, None, c)
      OBVIOUS
    <3>7. r \in Row
      BY <3>3, <3>5, <3>6, Names DEF NewRow, Row
    <3>8. CASE rows' = Insert(rows, r)
      BY <3>4, <3>7, <3>8, InsertGrows, SameIsSettled
    <3>9. QED
      BY <2>3, <3>1, <3>2, <3>6, <3>8 DEF AnswerPaused
  <2>4. QED
    BY <1>4, <2>1, <2>2, <2>3 DEF RequestStep, Resolves
<1>5. CASE Lapse
  BY <1>5, LapseShape DEF Mild, Settled
<1>6. CASE Sweep \/ Crash \/ UNCHANGED vars
  BY <1>1, <1>6 DEF Sweep, Crash, vars
<1>7. QED
  BY <1>2, <1>3, <1>4, <1>5, <1>6 DEF Next, Slots

\* Past the claim and before the end: at most one request is there with an action.
Spending(q) == request[q].pc \in {"dispatching", "reopening", "closing"}

Acts ==
  /\ ActionRunsOnce
  /\ \A i \in 1..Len(rows) : rows[i].ran > 0 => rows[i].kind = "action"
  /\ \A q \in Slots : Spending(q) => /\ rows[request[q].row].ran = 0
                                     /\ rows[request[q].row].status \in {"sent", "superseded"}
  /\ \A q, p \in Slots : Spending(q) /\ Spending(p) /\ request[q].row = request[p].row => q = p

\* The same and the result yet to be stored.
Past(q) == request[q].pc \in {"dispatching", "answering", "reopening", "closing"}

Keeps(q) ==
  Past(q) /\ request'[q].row = request[q].row /\ (Spending(q)' => Spending(q))

\* A request comes past the claim by its claim, and spends an action no later.
LEMMA PastMoves ==
  ASSUME Places, [Next]_vars
  PROVE  \A p \in Slots : Past(p)' => Keeps(p) \/ Claim(p)
<1>1. request \in [Slots -> RequestType]
  BY DEF Places, ConversationTypeOK, Slots, RequestType
<1>2. CASE UNCHANGED request
  BY <1>2 DEF Past, Keeps, Spending
<1>3. ASSUME NEW q \in Slots, Done(q)
      PROVE  \A p \in Slots : Past(p)' => Keeps(p)
  BY <1>1, <1>3 DEF Done, Free, Past, Keeps, Spending
<1>4. ASSUME NEW q \in Slots, NEW pc, Move(q, pc),
             pc \in {"dispatching", "answering", "reopening", "closing"} => Spending(q) \/ Claim(q)
      PROVE  \A p \in Slots : Past(p)' => Keeps(p) \/ Claim(p)
  <2>1. request' = [request EXCEPT ![q].pc = pc]
    BY <1>4 DEF Move
  <2>2. /\ \A p \in Slots : p # q => request'[p] = request[p]
        /\ request'[q].pc = pc /\ request'[q].row = request[q].row
    BY <1>1, <2>1 DEF RequestType
  <2>3. QED
    BY <1>4, <2>2 DEF Past, Keeps, Spending
<1>5. ASSUME NEW q \in Slots, NEW i, NEW pc \in {"confirming", "declining", "expiring"},
             Take(q, i, pc)
      PROVE  \A p \in Slots : Past(p)' => Keeps(p)
  BY <1>1, <1>5 DEF Take, Past, Keeps, Spending
<1>6. ASSUME NEW s \in Streams, TurnStep(s) \/ OpenStream(s) \/ Close(s)
      PROVE  UNCHANGED request
  BY <1>6 DEF TurnStep, BeginRun, NoRun, Register, StoreQuestion, StartCompaction, Summarise,
     SummaryFails, HideOldRows, Answer, CallTools, Pause, DenyThenPause, StoreResult,
     PauseAfterDenied, NextIteration, Fails, MarkStopped, Finish, OpenStream, Close
<1>7. ASSUME NEW q \in Slots, UserStep(q)
      PROVE  \A p \in Slots : Past(p)' => Keeps(p) \/ Claim(p)
  <2>1. CASE FindPending(q)
    BY <1>5, <2>1 DEF FindPending
  <2>2. CASE \E pc \in {"posting", "cancelling"} : Move(q, pc)
    BY <1>4, <2>2
  <2>3. QED
    BY <1>7, <2>1, <2>2 DEF UserStep, Post, EditResend, Retry, Delete, Cancel
<1>8. ASSUME NEW q \in Slots, RequestStep(q)
      PROVE  \A p \in Slots : Past(p)' => Keeps(p) \/ Claim(p)
  <2>1. CASE Done(q)
    BY <1>3, <2>1
  <2>2. CASE Claim(q)
    BY <1>4, <2>2 DEF Claim
  <2>3. CASE RunTool(q) \/ DispatchEnds(q)
    <3>1. Spending(q) /\ \E pc : Move(q, pc)
      BY <2>3 DEF RunTool, DispatchEnds, Doing, Spending
    <3>2. QED
      BY <1>4, <3>1
  <2>4. QED
    BY <1>8, <2>1, <2>2, <2>3 DEF RequestStep, StorePost, CancelTurn, ClaimLost, WriteThrows, Reopen,
       CloseFailed, AnswerPaused
<1>9. CASE Crash
  BY <1>9 DEF Crash, Free, Past, Slots
<1>10. CASE Sweep
  BY <1>5, <1>10 DEF Sweep, Slots
<1>11. CASE Lapse \/ UNCHANGED vars
  BY <1>2, <1>11 DEF Lapse, vars
<1>12. QED
  BY <1>2, <1>6, <1>7, <1>8, <1>9, <1>10, <1>11 DEF Next, Slots

LEMMA SpendingMoves ==
  ASSUME Places, [Next]_vars
  PROVE  \A p \in Slots : Spending(p)' => \/ Spending(p) /\ request'[p].row = request[p].row
                                          \/ Claim(p)
  BY PastMoves DEF Spending, Past, Keeps

\* What the four steps that are not mild write.
LEMMA ResolvesWrites ==
  ASSUME Places, NEW q \in Slots, Resolves(q)
  PROVE  LET i == request[q].row
             a == rows[i]
             b == rows'[i]
         IN  /\ i \in 1..Len(rows) /\ a.kind = "action" /\ a.ran \in Nat
             /\ Len(rows') = Len(rows)
             /\ \A j \in 1..Len(rows) : j # i => rows'[j] = rows[j]
             /\ \/ Claim(q) /\ a.status = "pending" /\ b.status \in {"sent", "denied"}
                   /\ b.ran = a.ran /\ (b.status = "denied" => ~Spending(q)')
                \/ Spending(q) /\ b.ran = a.ran + 1 /\ b.status = a.status /\ ~Spending(q)'
                \/ Spending(q) /\ ~Spending(q)' /\ b.ran = a.ran
                   /\ \/ b.status = a.status
                      \/ ~deleted /\ a.status = "sent" /\ b.status = "pending"
                      \/ b.status = "failed"
<1>1. PICK i, a : i = request[q].row /\ a = rows[i]
  OBVIOUS
<1>2. Held(q)
  BY DEF Resolves, Claim, Claiming, RunTool, Reopen, CloseFailed, Doing, Held
<1>3. i \in 1..Len(rows) /\ a \in Row /\ a.kind = "action" /\ a.ran \in Nat
  BY <1>1, <1>2, HeldRow DEF Row
<1>4. ConversationTypeOK /\ rows \in Seq(Row) /\ request \in [Slots -> RequestType]
  BY DEF Places, ConversationTypeOK, Slots, RequestType
<1>5. ASSUME NEW r, Writes(i, r)
      PROVE  /\ Len(rows') = Len(rows) /\ rows'[i] = r
             /\ \A j \in 1..Len(rows) : j # i => rows'[j] = rows[j]
  BY <1>4, <1>5, WritesTyped
<1>6. ASSUME NEW st \in Statuses, NEW b \in BOOLEAN,
             rows' = [rows EXCEPT ![i].status = st, ![i].raw = b]
      PROVE  /\ Len(rows') = Len(rows)
             /\ rows'[i].status = st /\ rows'[i].ran = a.ran
             /\ \A j \in 1..Len(rows) : j # i => rows'[j] = rows[j]
  <2>1. PICK r : r = [a EXCEPT !.status = st, !.raw = b]
    OBVIOUS
  <2>2. r.status = st /\ r.ran = a.ran
    BY <1>3, <2>1 DEF Row
  <2>3. Writes(i, r)
    BY <1>1, <1>3, <1>4, <1>6, <2>1, ColumnsWritten
  <2>4. QED
    BY <1>5, <2>2, <2>3
<1>7. \A pc : Move(q, pc) => request'[q].pc = pc
  BY <1>4 DEF Move, RequestType
<1>8. Done(q) => request'[q].pc = "free"
  BY <1>4 DEF Done, Free
<1>9. CASE Claim(q)
  <2>1. PICK v : v = Verdict(q)
    OBVIOUS
  <2>2. v \in {"sent", "denied"} /\ v \in Statuses
    BY <2>1, Names DEF Verdict
  <2>3. /\ rows' = [rows EXCEPT ![i].status = v, ![i].raw = FALSE]
        /\ Move(q, IF v = "sent" THEN "dispatching" ELSE "answering")
        /\ a.status = "pending"
    BY <1>1, <1>9, <2>1 DEF Claim, Paused
  <2>4. v = "denied" => ~Spending(q)'
    BY <1>7, <2>3 DEF Spending
  <2>5. QED
    BY <1>1, <1>3, <1>6, <1>9, <2>2, <2>3, <2>4
<1>10. CASE RunTool(q)
  <2>1. rows' = [rows EXCEPT ![i].ran = @ + 1] /\ Move(q, "answering") /\ Spending(q)
    BY <1>1, <1>10 DEF RunTool, Doing, Spending
  <2>2. PICK r : r = [a EXCEPT !.ran = a.ran + 1]
    OBVIOUS
  <2>3. r.status = a.status /\ r.ran = a.ran + 1
    BY <1>3, <2>2 DEF Row
  <2>4. Writes(i, r)
    <3>1. "sent" \in Statuses
      BY Names
    <3>2. QED
      BY <1>1, <1>3, <1>4, <2>1, <2>2, <3>1, ColumnsWritten
  <2>5. ~Spending(q)'
    BY <1>7, <2>1 DEF Spending
  <2>6. QED
    BY <1>1, <1>3, <1>5, <2>1, <2>3, <2>4, <2>5
<1>11. CASE Reopen(q) \/ CloseFailed(q)
  <2>1. Spending(q) /\ ~Spending(q)'
    BY <1>8, <1>11 DEF Reopen, CloseFailed, Doing, Spending
  <2>2. CASE UNCHANGED rows
    BY <1>1, <1>3, <2>1, <2>2
  <2>3. CASE /\ ~deleted /\ a.status = "sent"
             /\ rows' = [rows EXCEPT ![i].status = "pending", ![i].raw = TRUE]
    BY <1>1, <1>3, <1>6, <2>1, <2>3, Names
  <2>4. CASE rows' = [rows EXCEPT ![i].status = "failed", ![i].raw = FALSE]
    BY <1>1, <1>3, <1>6, <2>1, <2>4, Names
  <2>5. QED
    BY <1>1, <1>11, <2>2, <2>3, <2>4 DEF Reopen, CloseFailed
<1>12. QED
  BY <1>9, <1>10, <1>11 DEF Resolves

\* Rows that were not there have never run and are nobody's.
LEMMA ActsOnOldRows ==
  ASSUME Places, Acts, Shape, Places',
         \A i \in 1..Len(rows) :
           /\ rows'[i].ran <= 1
           /\ rows'[i].ran = 1 => rows'[i].status \in {"sent", "superseded"}
           /\ rows'[i].ran > 0 => rows[i].kind = "action",
         \A q \in Slots : Spending(q)' =>
           /\ request'[q].row \in 1..Len(rows)
           /\ rows'[request'[q].row].ran = 0
           /\ rows'[request'[q].row].status \in {"sent", "superseded"},
         \A q, p \in Slots : Spending(q)' /\ Spending(p)' /\ request'[q].row = request'[p].row => q = p
  PROVE  Acts'
<1>1. DOMAIN rows' = 1..Len(rows')
  BY StoredRows, LenProperties DEF Shape, LongerRows
<1>2. ASSUME NEW i \in 1..Len(rows'), i \notin 1..Len(rows)
      PROVE  rows'[i].ran = 0
  BY <1>2, NewestRow DEF Fresh
<1>3. \A i \in 1..Len(rows) : rows'[i].kind = rows[i].kind
  BY DEF Shape, OldRow
<1>4. ActionRunsOnce'
  BY <1>1, <1>2 DEF ActionRunsOnce
<1>5. \A i \in 1..Len(rows') : rows'[i].ran > 0 => rows'[i].kind = "action"
  BY <1>2, <1>3
<1>6. QED
  BY <1>4, <1>5 DEF Acts, Spending

LEMMA SpendingRow ==
  ASSUME Places, NEW q \in Slots, Spending(q)
  PROVE  request[q].row \in 1..Len(rows)
  BY HeldRow DEF Spending, Held

LEMMA ActsStep ==
  ASSUME Places, Acts, [Next]_vars
  PROVE  Acts'
<1>1. Shape /\ Places'
  BY StepShape, PlacesStep
<1>2. /\ DOMAIN rows = 1..Len(rows)
      /\ \A i \in 1..Len(rows) : rows[i].ran \in Nat
  BY StoredRows DEF Places, ConversationTypeOK, Row
<1>3. \A i \in 1..Len(rows) :
        /\ rows[i].ran <= 1
        /\ rows[i].ran = 1 => rows[i].status \in {"sent", "superseded"}
        /\ rows[i].ran > 0 => rows[i].kind = "action"
  BY <1>2 DEF Acts, ActionRunsOnce
<1>4. CASE Mild /\ ~\E q \in Slots : Claim(q)
  <2>1. \A q \in Slots : Spending(q)' => Spending(q) /\ request'[q].row = request[q].row
    BY <1>4, SpendingMoves
  <2>2. ASSUME NEW i \in 1..Len(rows)
        PROVE  /\ rows'[i].ran <= 1
               /\ rows'[i].ran = 1 => rows'[i].status \in {"sent", "superseded"}
               /\ rows'[i].ran > 0 => rows[i].kind = "action"
    <3>1. Settled(rows[i], rows'[i])
      BY <1>4 DEF Mild
    <3>2. QED
      BY <1>2, <1>3, <3>1 DEF Settled
  <2>3. ASSUME NEW q \in Slots, Spending(q)'
        PROVE  /\ request'[q].row \in 1..Len(rows)
               /\ rows'[request'[q].row].ran = 0
               /\ rows'[request'[q].row].status \in {"sent", "superseded"}
    <3>1. PICK i : i = request[q].row
      OBVIOUS
    <3>2. Spending(q) /\ request'[q].row = i /\ i \in 1..Len(rows)
      BY <2>1, <2>3, <3>1, SpendingRow
    <3>3. rows[i].ran = 0 /\ rows[i].status \in {"sent", "superseded"} /\ rows[i].kind = "action"
      BY <3>1, <3>2, HeldRow DEF Acts, Spending, Held
    <3>4. Settled(rows[i], rows'[i])
      BY <1>4, <3>2 DEF Mild
    <3>5. QED
      BY <3>2, <3>3, <3>4 DEF Settled
  <2>4. \A q, p \in Slots : Spending(q)' /\ Spending(p)' /\ request'[q].row = request'[p].row => q = p
    BY <2>1 DEF Acts
  <2>5. QED
    BY <1>1, <2>2, <2>3, <2>4, ActsOnOldRows
<1>5. ASSUME NEW q \in Slots, Resolves(q)
      PROVE  Acts'
  <2>1. PICK i, a, b : i = request[q].row /\ a = rows[i] /\ b = rows'[i]
    OBVIOUS
  <2>2. /\ i \in 1..Len(rows) /\ a.kind = "action" /\ a.ran \in Nat
        /\ \A j \in 1..Len(rows) : j # i => rows'[j] = rows[j]
        /\ \/ Claim(q) /\ a.status = "pending" /\ b.status \in {"sent", "denied"}
              /\ b.ran = a.ran /\ (b.status = "denied" => ~Spending(q)')
           \/ Spending(q) /\ b.ran = a.ran + 1 /\ b.status = a.status /\ ~Spending(q)'
           \/ Spending(q) /\ ~Spending(q)' /\ b.ran = a.ran
              /\ \/ b.status = a.status
                 \/ ~deleted /\ a.status = "sent" /\ b.status = "pending"
                 \/ b.status = "failed"
    BY <1>5, <2>1, ResolvesWrites
  <2>3. a.ran = 0
    <3>1. CASE a.status = "pending"
      BY <1>3, <2>1, <2>2, <3>1
    <3>2. CASE Spending(q)
      BY <2>1, <3>2 DEF Acts
    <3>3. QED
      BY <2>2, <3>1, <3>2
  <2>4. b.ran <= 1 /\ (b.ran = 1 => b.status \in {"sent", "superseded"})
    <3>1. Spending(q) => a.status \in {"sent", "superseded"}
      BY <2>1 DEF Acts
    <3>2. QED
      BY <2>2, <2>3, <3>1
  <2>5. \A p \in Slots : Claim(p) => p = q
    <3>1. ASSUME NEW p \in Slots, Claim(p), p # q
          PROVE  FALSE
      <4>1. request' = [request EXCEPT ![p].pc = request'[p].pc] /\ request'[p].pc # request[p].pc
        BY <3>1 DEF Claim, Claiming, Move, Places, ConversationTypeOK, Slots
      <4>2. request'[p] = request[p]
        BY <1>5, <3>1 DEF Resolves, Claim, RunTool, Reopen, CloseFailed, Move, Done, Places,
           ConversationTypeOK, Slots
      <4>3. QED
        BY <4>1, <4>2
    <3>2. QED
      BY <3>1
  <2>6. \A p \in Slots \ {q} : Spending(p)' => /\ Spending(p) /\ request'[p].row = request[p].row
                                               /\ request[p].row # i
    <3>1. ASSUME NEW p \in Slots \ {q}, Spending(p)'
          PROVE  request[p].row # i
      <4>1. Spending(p)
        BY <2>5, <3>1, SpendingMoves
      <4>2. a.status = "pending" => request[p].row # i
        BY <2>1, <4>1 DEF Acts
      <4>3. Spending(q) => request[p].row # i
        BY <2>1, <3>1, <4>1 DEF Acts
      <4>4. QED
        BY <2>2, <4>2, <4>3
    <3>2. QED
      BY <2>5, <3>1, SpendingMoves
  <2>7. Spending(q)' => /\ b.status = "sent" /\ b.ran = 0 /\ request'[q].row = i
    <3>1. ASSUME Claim(q)
          PROVE  request'[q].row = i
      BY <2>1, <3>1 DEF Claim, Move, Places, ConversationTypeOK, Slots
    <3>2. QED
      BY <2>2, <2>3, <3>1
  <2>8. ASSUME NEW j \in 1..Len(rows)
        PROVE  /\ rows'[j].ran <= 1
               /\ rows'[j].ran = 1 => rows'[j].status \in {"sent", "superseded"}
               /\ rows'[j].ran > 0 => rows[j].kind = "action"
    BY <1>3, <2>1, <2>2, <2>4
  <2>9. ASSUME NEW p \in Slots, Spending(p)'
        PROVE  /\ request'[p].row \in 1..Len(rows)
               /\ rows'[request'[p].row].ran = 0
               /\ rows'[request'[p].row].status \in {"sent", "superseded"}
    <3>1. CASE p = q
      BY <2>1, <2>2, <2>7, <2>9, <3>1
    <3>2. CASE p # q
      <4>1. Spending(p) /\ request'[p].row = request[p].row /\ request[p].row # i
        BY <2>6, <2>9, <3>2
      <4>2. request[p].row \in 1..Len(rows)
        BY <4>1, SpendingRow
      <4>3. rows'[request[p].row] = rows[request[p].row]
        BY <2>2, <4>1, <4>2
      <4>4. QED
        BY <4>1, <4>2, <4>3 DEF Acts
    <3>3. QED
      BY <3>1, <3>2
  <2>10. \A r, p \in Slots : Spending(r)' /\ Spending(p)' /\ request'[r].row = request'[p].row => r = p
    BY <2>6, <2>7 DEF Acts
  <2>11. QED
    BY <1>1, <2>8, <2>9, <2>10, ActsOnOldRows
<1>6. QED
  BY <1>4, <1>5, MildStep DEF Resolves

\* However many requests meet on a paused action, its tool runs at most once, and an
\* action that ran is not offered again, nor recorded as declined or failed.
THEOREM ActionsRunOnce == Spec => []ActionRunsOnce
<1>1. Init => Acts
  BY DEF Init, Acts, ActionRunsOnce, Spending, Free, Slots
<1>2. Places /\ Acts /\ [Next]_vars => Acts'
  BY ActsStep
<1>3. Acts => ActionRunsOnce
  BY DEF Acts
<1>4. QED
  BY <1>1, <1>2, <1>3, PlacesAlways, PTL DEF Spec

-----------------------------------------------------------------------------
(* A deleted conversation stays closed *)

Closed == deleted => \A i \in 1..Len(rows) : rows[i].status # "pending"

LEMMA ClosedStep ==
  ASSUME Places, Closed, [Next]_vars
  PROVE  Closed' /\ (deleted => deleted')
<1>1. Shape
  BY StepShape
<1>2. \/ deleted' = deleted
      \/ deleted' /\ \E q \in Slots : Delete(q)
  BY DEF Next, vars, TurnStep, BeginRun, NoRun, Register, StoreQuestion, StartCompaction,
     Summarise, SummaryFails, HideOldRows, Answer, CallTools, Pause, DenyThenPause, StoreResult,
     PauseAfterDenied, NextIteration, Fails, MarkStopped, Finish, OpenStream, Close,
     UserStep, Post, EditResend, Retry, Delete, Cancel, FindPending,
     RequestStep, StorePost, CancelTurn, Claim, ClaimLost, WriteThrows, RunTool, DispatchEnds, Reopen,
     CloseFailed, AnswerPaused, Sweep, Lapse, Crash, Slots
<1>3. CASE deleted' = deleted
  <2>1. ASSUME deleted, NEW i \in 1..Len(rows')
        PROVE  rows'[i].status # "pending"
    <3>1. CASE i \notin 1..Len(rows)
      BY <1>1, <2>1, <3>1, NewestRow DEF Fresh, RowOK
    <3>2. CASE i \in 1..Len(rows) /\ Mild
      BY <2>1, <3>2 DEF Closed, Mild, Settled
    <3>3. CASE i \in 1..Len(rows) /\ \E q \in Slots : Resolves(q)
      <4>1. PICK q \in Slots : Resolves(q)
        BY <3>3
      <4>2. \/ rows'[i].status = rows[i].status
            \/ rows'[i].status \in {"sent", "denied", "failed"}
        BY <2>1, <3>3, <4>1, ResolvesWrites
      <4>3. QED
        BY <2>1, <3>3, <4>2 DEF Closed
    <3>4. QED
      BY <3>1, <3>2, <3>3, MildStep
  <2>2. QED
    BY <1>3, <2>1 DEF Closed
<1>4. CASE deleted' /\ \E q \in Slots : Delete(q)
  <2>1. PICK q \in Slots : Delete(q)
    BY <1>4
  <2>2. ASSUME NEW i \in 1..Len(rows)
        PROVE  rows'[i].status # "pending"
    <3>1. PICK a, b : a = rows[i] /\ b = [a EXCEPT !.status = "denied", !.raw = FALSE]
      OBVIOUS
    <3>2. b.status = "denied"
      BY <3>1, StoredRows DEF Places, ConversationTypeOK, Row
    <3>3. rows'[i] = IF a.status = "pending" THEN b ELSE a
      BY <2>1, <3>1, DeleteShape
    <3>4. QED
      BY <3>2, <3>3
  <2>3. \A i \in 1..Len(rows') : i \notin 1..Len(rows) => rows'[i].status # "pending"
    <3>1. rows' = [i \in DOMAIN rows |-> rows'[i]]
      BY <2>1 DEF Delete
    <3>2. DOMAIN rows' = DOMAIN rows
      BY <3>1
    <3>3. QED
      BY <1>1, <3>2, StoredRows, LenProperties DEF Places, ConversationTypeOK, Shape, LongerRows
  <2>4. QED
    BY <1>4, <2>2, <2>3 DEF Closed
<1>5. QED
  BY <1>2, <1>3, <1>4

\* A deleted conversation has nothing left to confirm and gets no answer or result.
THEOREM DeletedIsClosed == Spec => DeletedStaysClosed
<1>1. Init => Closed
  BY DEF Init, Closed
<1>2. Places /\ Closed /\ [Next]_vars => Closed'
  BY ClosedStep
<1>3. Places /\ Closed /\ [Next]_vars =>
        [deleted' => /\ Paused' = {}
                     /\ deleted => \A i \in DOMAIN rows' \ DOMAIN rows :
                                     rows'[i].kind = "question" /\ rows'[i].run = None]_vars
  <2> SUFFICES ASSUME Places, Closed, [Next]_vars, deleted'
               PROVE  /\ Paused' = {}
                      /\ deleted => \A i \in DOMAIN rows' \ DOMAIN rows :
                                      rows'[i].kind = "question" /\ rows'[i].run = None
    OBVIOUS
  <2>1. Shape /\ Closed'
    BY StepShape, ClosedStep
  <2>2. DOMAIN rows = 1..Len(rows) /\ DOMAIN rows' = 1..Len(rows')
    BY <2>1, StoredRows, LenProperties DEF Places, ConversationTypeOK, Shape, LongerRows
  <2>3. Paused' = {}
    BY <2>1, <2>2 DEF Closed, Paused
  <2>4. QED
    BY <2>1, <2>2, <2>3, NewestRow DEF Fresh
<1>4. QED
  BY <1>1, <1>2, <1>3, PlacesAlways, PTL DEF Spec, DeletedStaysClosed

-----------------------------------------------------------------------------
(* What is hidden has been summarised *)

QuestionsFrom(rs, b) == {j \in DOMAIN rs : b <= j /\ rs[j].kind = "question"}

\* A row may be out of the window: a summary comes after it, or the window has moved on.
MayHide(rs, i) ==
  \/ \E j \in DOMAIN rs : i < j /\ rs[j].kind = "summary"
  \/ \E b \in DOMAIN rs : i < b /\ Cardinality(QuestionsFrom(rs, b)) >= WindowTurns

Accounted(rs) == \A i \in 1..Len(rs) : ~rs[i].shown => MayHide(rs, i)

\* The same rows by their kinds, and perhaps more.
Extends(rs, rt) ==
  /\ Len(rs) <= Len(rt)
  /\ \A i \in 1..Len(rs) : rt[i].kind = rs[i].kind

\* The rows only grow and keep their kinds, so what may hide a row stays.
LEMMA MayHideStays ==
  ASSUME NEW rs \in Seq(Row), NEW rt \in Seq(Row), Extends(rs, rt),
         NEW i \in 1..Len(rs), MayHide(rs, i)
  PROVE  MayHide(rt, i)
<1>1. /\ Len(rs) \in Nat /\ Len(rt) \in Nat
      /\ DOMAIN rs = 1..Len(rs) /\ DOMAIN rt = 1..Len(rt)
  BY LenProperties
<1>2. DOMAIN rs \subseteq DOMAIN rt /\ \A j \in DOMAIN rs : rt[j].kind = rs[j].kind
  BY <1>1 DEF Extends
<1>3. ASSUME NEW b \in DOMAIN rs, Cardinality(QuestionsFrom(rs, b)) >= WindowTurns
      PROVE  Cardinality(QuestionsFrom(rt, b)) >= WindowTurns
  <2>1. QuestionsFrom(rs, b) \subseteq QuestionsFrom(rt, b)
    BY <1>2 DEF QuestionsFrom
  <2>2. QuestionsFrom(rt, b) \subseteq 1..Len(rt)
    BY <1>1 DEF QuestionsFrom
  <2>3. IsFiniteSet(QuestionsFrom(rt, b))
    <3>1. IsFiniteSet(1..Len(rt))
      BY <1>1, FS_Interval
    <3>2. QED
      BY <2>2, <3>1, FS_Subset
  <2>4. /\ IsFiniteSet(QuestionsFrom(rs, b))
        /\ Cardinality(QuestionsFrom(rs, b)) <= Cardinality(QuestionsFrom(rt, b))
    BY <2>1, <2>3, FS_Subset
  <2>5. Cardinality(QuestionsFrom(rs, b)) \in Nat /\ Cardinality(QuestionsFrom(rt, b)) \in Nat
    BY <2>3, <2>4, FS_CardinalityType
  <2>6. QED
    BY <1>3, <2>4, <2>5, WindowAssumption
<1>4. QED
  BY <1>2, <1>3 DEF MayHide

\* Rows that keep their kind and do not leave the window.
LEMMA AccountedStays ==
  ASSUME NEW rs \in Seq(Row), NEW rt \in Seq(Row), Accounted(rs), Extends(rs, rt),
         \A i \in 1..Len(rt) :
           ~rt[i].shown => i \in 1..Len(rs) /\ (~rs[i].shown \/ MayHide(rs, i))
  PROVE  Accounted(rt)
  BY MayHideStays DEF Accounted

LEMMA HideAccounted ==
  ASSUME NEW rs \in Seq(Row), Accounted(rs), NEW b,
         \A i \in 1..Len(rs) : i < b => MayHide(rs, i)
  PROVE  Accounted(HideBefore(rs, b)) /\ Extends(rs, HideBefore(rs, b))
<1> DEFINE h == HideBefore(rs, b)
<1>1. Len(rs) \in Nat /\ DOMAIN rs = 1..Len(rs)
  BY LenProperties
<1>2. h \in Seq(Row) /\ Len(h) = Len(rs) /\ \A i \in 1..Len(rs) : SameRow(h[i], rs[i])
  BY HideKeeps
<1>3. \A i \in 1..Len(rs) : i < b \/ h[i] = rs[i]
  BY <1>1 DEF HideBefore
<1>4. Extends(rs, h)
  BY <1>1, <1>2 DEF Extends, SameRow
<1> HIDE DEF h
<1>5. \A i \in 1..Len(h) : ~h[i].shown => i \in 1..Len(rs) /\ (~rs[i].shown \/ MayHide(rs, i))
  BY <1>2, <1>3
<1>6. Accounted(h)
  BY <1>2, <1>4, <1>5, AccountedStays
<1>7. QED
  BY <1>4, <1>6 DEF h

\* Storing a row: what the rolling window leaves behind is behind WindowTurns questions.
LEMMA InsertAccounted ==
  ASSUME NEW rs \in Seq(Row), Accounted(rs), NEW r \in Row, r.shown
  PROVE  Accounted(Insert(rs, r)) /\ Extends(rs, Insert(rs, r))
<1>1. PICK grown : grown = Append(rs, r)
  OBVIOUS
<1>2. /\ grown \in Seq(Row) /\ Len(rs) \in Nat /\ Len(grown) = Len(rs) + 1
      /\ \A i \in 1..Len(rs) : grown[i] = rs[i]
      /\ grown[Len(rs) + 1] = r /\ DOMAIN grown = 1..Len(grown)
  BY <1>1, LenProperties
<1>3. Extends(rs, grown)
  BY <1>2 DEF Extends
<1>4. \A i \in 1..Len(grown) : ~grown[i].shown => i \in 1..Len(rs) /\ ~rs[i].shown
  BY <1>2
<1>5. Accounted(grown)
  BY <1>2, <1>3, <1>4, AccountedStays
<1>6. CASE Insert(rs, r) = grown
  BY <1>3, <1>5, <1>6
<1>7. CASE FirstOfWindow(grown) # {} /\ Insert(rs, r) = HideBefore(grown, Latest(FirstOfWindow(grown)))
  <2>1. PICK b : b = Latest(FirstOfWindow(grown))
    OBVIOUS
  <2>2. FirstOfWindow(grown) \in SUBSET (1..Len(grown)) /\ Len(grown) \in Nat
    BY <1>2 DEF FirstOfWindow
  <2>3. b \in FirstOfWindow(grown)
    BY <1>7, <2>1, <2>2, LatestIsLast
  <2>4. QuestionsFrom(grown, b) = {i \in DOMAIN grown : grown[i].kind = "question" /\ b <= i}
    BY DEF QuestionsFrom
  <2>5. b \in DOMAIN grown /\ Cardinality(QuestionsFrom(grown, b)) = WindowTurns
    BY <2>3, <2>4 DEF FirstOfWindow
  <2>6. \A i \in 1..Len(grown) : i < b => MayHide(grown, i)
    BY <2>5, WindowAssumption DEF MayHide
  <2>7. Accounted(HideBefore(grown, b)) /\ Extends(grown, HideBefore(grown, b))
    BY <1>2, <1>5, <2>6, HideAccounted
  <2>8. Extends(rs, HideBefore(grown, b))
    BY <1>2, <1>3, <2>7 DEF Extends
  <2>9. QED
    BY <1>7, <2>1, <2>7, <2>8
<1>8. QED
  BY <1>1, <1>6, <1>7 DEF Insert

\* The rows a step stores are in the window.
LEMMA NewRowShown ==
  \A kind, status, run, follows, text, calls :
    NewRow(kind, status, run, follows, text, calls).shown
  BY DEF NewRow

LEMMA FollowShown ==
  ASSUME ConversationTypeOK, NEW s \in Streams,
         NEW kind \in {"answer", "summary", "batch", "result", "action"},
         NEW status \in {"sent", "pending", "failed", "streaming"},
         NEW calls \in Seq(CallIds),
         status = "pending" <=> kind = "action"
  PROVE  Follow(s, kind, status, calls) \in Row /\ Follow(s, kind, status, calls).shown
<1>1. kind \in Kinds /\ status \in Statuses /\ status # "superseded"
  BY Names
<1>2. TurnRow(s, Follow(s, kind, status, calls))
  BY <1>1, FollowTyped
<1>3. QED
  BY <1>2, NewRowShown DEF TurnRow, Follow

Inserts == \E r \in Row : r.shown /\ rows' = Insert(rows, r)

LEMMA WriteRowInserts ==
  ASSUME NEW s, NEW r \in Row, NEW next, r.shown, WriteRow(s, r, next)
  PROVE  UNCHANGED rows \/ Inserts
  BY DEF WriteRow, Inserts

\* What the steps of a turn do to the rows.
LEMMA TurnStepInserts ==
  ASSUME ConversationTypeOK, NEW s \in Streams, TurnStep(s)
  PROVE  UNCHANGED rows \/ Inserts \/ HideOldRows(s) \/ MarkStopped(s)
<1>1. CASE StoreQuestion(s)
  <2>1. /\ "question" \in Kinds /\ "sent" \in Statuses /\ <<>> \in Seq(CallIds)
        /\ s \in Streams \cup {None} /\ 0 \in Nat /\ turn[s].text \in Texts \cup {None}
    BY Names, OwnTurn
  <2>2. PICK r : r = NewRow("question", "sent", s, 0, turn[s].text, <<>>)
    OBVIOUS
  <2>3. r \in Row /\ r.shown
    BY <2>1, <2>2, NewRowTyped, NewRowShown
  <2>4. QED
    BY <1>1, <2>2, <2>3, WriteRowInserts DEF StoreQuestion
<1>2. CASE Summarise(s)
  BY <1>2, FollowShown, Names, WriteRowInserts DEF Summarise
<1>3. CASE Answer(s) \/ Fails(s)
  BY <1>3, FollowShown, Names, WriteRowInserts DEF Answer, Fails
<1>4. CASE CallTools(s)
  <2>1. PICK n \in 1..MaxBatch :
          \E next : WriteRow(s, Follow(s, "batch", "sent", [k \in 1..n |-> Call(s, k)]), next)
    BY <1>4 DEF CallTools
  <2>2. PICK next : WriteRow(s, Follow(s, "batch", "sent", [k \in 1..n |-> Call(s, k)]), next)
    BY <2>1
  <2>3. [k \in 1..n |-> Call(s, k)] \in Seq(CallIds)
    BY CallsTyped, IterationAssumption
  <2>4. QED
    BY <2>2, <2>3, FollowShown, WriteRowInserts
<1>5. CASE Pause(s) \/ PauseAfterDenied(s)
  <2>1. <<Call(s, 0)>> \in Seq(CallIds)
    BY CallsTyped
  <2>2. PausedRow(s) \in Row /\ PausedRow(s).shown
    BY <2>1, FollowShown DEF PausedRow
  <2>3. QED
    BY <1>5, <2>2, WriteRowInserts DEF Pause, PauseAfterDenied
<1>6. CASE StoreResult(s)
  <2>1. turn[s].left \in Seq(CallIds) /\ turn[s].left # <<>>
    BY <1>6, OwnTurn DEF StoreResult
  <2>2. <<Head(turn[s].left)>> \in Seq(CallIds)
    BY <2>1
  <2>3. PICK r : r = Follow(s, "result", "sent", <<Head(turn[s].left)>>)
    OBVIOUS
  <2>4. r \in Row /\ r.shown
    BY <2>2, <2>3, FollowShown
  <2>5. rows' = rows \/ rows' = Insert(rows, r)
    BY <1>6, <2>3 DEF StoreResult
  <2>6. QED
    BY <2>4, <2>5 DEF Inserts
<1>7. CASE UNCHANGED rows
  BY <1>7
<1>8. QED
  BY <1>1, <1>2, <1>3, <1>4, <1>5, <1>6, <1>7 DEF TurnStep, BeginRun, NoRun, Register,
     StartCompaction, SummaryFails, DenyThenPause, NextIteration, Finish

\* A step that leaves every row in the window, or out of it.
KeepsShown ==
  /\ DOMAIN rows' = DOMAIN rows
  /\ \A i \in 1..Len(rows) : rows'[i].shown = rows[i].shown

LEMMA KeepsShownAccounted ==
  ASSUME ConversationTypeOK, Shape, Accounted(rows), KeepsShown
  PROVE  Accounted(rows')
<1>1. /\ rows \in Seq(Row) /\ rows' \in Seq(Row) /\ Len(rows) \in Nat /\ Len(rows') \in Nat
      /\ DOMAIN rows = 1..Len(rows) /\ DOMAIN rows' = 1..Len(rows')
  BY LenProperties DEF ConversationTypeOK, Shape, LongerRows
<1>2. Extends(rows, rows')
  BY DEF Shape, LongerRows, OldRow, Extends
<1>3. \A i \in 1..Len(rows') : ~rows'[i].shown => i \in 1..Len(rows) /\ ~rows[i].shown
  BY <1>1 DEF KeepsShown
<1>4. QED
  BY <1>1, <1>2, <1>3, AccountedStays

LEMMA ColumnsKeepShown ==
  ASSUME ConversationTypeOK, NEW k, NEW st, NEW b,
         \/ rows' = [rows EXCEPT ![k].status = st]
         \/ rows' = [rows EXCEPT ![k].status = st, ![k].raw = b]
         \/ rows' = [rows EXCEPT ![k].ran = @ + 1]
  PROVE  KeepsShown
<1>1. /\ rows \in Seq(Row) /\ DOMAIN rows = 1..Len(rows)
      /\ \A i \in 1..Len(rows) : rows[i] \in Row
  BY StoredRows DEF ConversationTypeOK
<1>2. DOMAIN rows' = DOMAIN rows
  OBVIOUS
<1>3. ASSUME NEW i \in 1..Len(rows)
      PROVE  rows'[i].shown = rows[i].shown
  <2>1. PICK a : a = rows[i] /\ a \in Row
    BY <1>1
  <2>2. \/ rows'[i] = a
        \/ rows'[i] = [a EXCEPT !.status = st]
        \/ rows'[i] = [a EXCEPT !.status = st, !.raw = b]
        \/ rows'[i] = [a EXCEPT !.ran = a.ran + 1]
    BY <1>1, <2>1
  <2>3. rows'[i].shown = a.shown
    BY <2>1, <2>2 DEF Row
  <2>4. QED
    BY <2>1, <2>3
<1>4. QED
  BY <1>2, <1>3 DEF KeepsShown

LEMMA SupersedeAccounted ==
  ASSUME NEW rs \in Seq(Row), NEW S, Accounted(rs)
  PROVE  Accounted(Supersede(rs, S))
<1> DEFINE h == Supersede(rs, S)
<1>1. Len(rs) \in Nat
  BY LenProperties
<1>2. h \in Seq(Row) /\ Len(h) = Len(rs)
  BY Superseded
<1>3. \A i \in 1..Len(rs) :
        IF i \in S THEN h[i] = [rs[i] EXCEPT !.status = "superseded", !.raw = FALSE]
        ELSE h[i] = rs[i]
  BY Superseded
<1> HIDE DEF h
<1>4. ASSUME NEW i \in 1..Len(rs)
      PROVE  h[i].kind = rs[i].kind /\ h[i].shown = rs[i].shown
  <2>1. PICK a : a = rs[i] /\ a \in Row
    BY ElementOfSeq
  <2>2. CASE i \in S
    <3>1. h[i] = [a EXCEPT !.status = "superseded", !.raw = FALSE]
      BY <1>3, <2>1, <2>2
    <3>2. QED
      BY <2>1, <3>1 DEF Row
  <2>3. CASE i \notin S
    BY <1>3, <2>3
  <2>4. QED
    BY <2>2, <2>3
<1>5. Len(rs) <= Len(h)
  BY <1>1, <1>2
<1>6. Extends(rs, h)
  BY <1>4, <1>5 DEF Extends
<1>7. \A i \in 1..Len(h) : ~h[i].shown => i \in 1..Len(rs) /\ ~rs[i].shown
  BY <1>2, <1>4
<1>8. Accounted(h)
  BY <1>2, <1>6, <1>7, AccountedStays
<1>9. QED
  BY <1>8 DEF h

-----------------------------------------------------------------------------
(* Compactions *)

\* A compaction cuts at a stored row, and hides only once its summary is stored, after
\* the cut.
CutsOK ==
  \A s \in Streams :
    /\ At(s, "compact") => turn[s].cut \in 1..Len(rows)
    /\ At(s, "flip") => \E j \in 1..Len(rows) : turn[s].cut <= j /\ rows[j].kind = "summary"

Summarised == CutsOK /\ Accounted(rows)

LEMMA AccountedStep ==
  ASSUME Places, Summarised, [Next]_vars
  PROVE  Accounted(rows')
<1>0. /\ ConversationTypeOK /\ Accounted(rows) /\ Shape
      /\ rows \in Seq(Row) /\ Len(rows) \in Nat /\ DOMAIN rows = 1..Len(rows)
      /\ \A i \in 1..Len(rows) : rows[i] \in Row
  BY StepShape, StoredRows DEF Places, Summarised, ConversationTypeOK
<1>1. CASE UNCHANGED rows
  BY <1>0, <1>1
<1>2. CASE Inserts
  BY <1>0, <1>2, InsertAccounted DEF Inserts
<1>3. CASE KeepsShown
  BY <1>0, <1>3, KeepsShownAccounted
<1>4. ASSUME NEW s \in Streams, HideOldRows(s)
      PROVE  Accounted(rows')
  <2>1. PICK b : b = turn[s].cut
    OBVIOUS
  <2>2. rows' = HideBefore(rows, b)
    BY <1>4, <2>1 DEF HideOldRows
  <2>3. PICK j \in 1..Len(rows) : b <= j /\ rows[j].kind = "summary"
    BY <1>4, <2>1 DEF HideOldRows, Summarised, CutsOK
  <2>4. b \in Nat
    BY <1>0, <2>1 DEF ConversationTypeOK, Turn
  <2>5. \A i \in 1..Len(rows) : i < b => MayHide(rows, i)
    BY <1>0, <2>3, <2>4 DEF MayHide
  <2>6. QED
    BY <1>0, <2>2, <2>5, HideAccounted
<1>5. ASSUME NEW s \in Streams, MarkStopped(s)
      PROVE  Accounted(rows')
  BY <1>0, <1>1, <1>3, <1>5, ColumnsKeepShown DEF MarkStopped
<1>6. ASSUME NEW s \in Streams, TurnStep(s)
      PROVE  Accounted(rows')
  BY <1>0, <1>1, <1>2, <1>4, <1>5, <1>6, TurnStepInserts
<1>7. ASSUME NEW q, StorePost(q)
      PROVE  Inserts
  BY <1>7, QuestionRow, NewRowShown DEF StorePost, Inserts, Question
<1>8. ASSUME NEW q \in Slots, AnswerPaused(q)
      PROVE  UNCHANGED rows \/ Inserts
  <2>1. CASE rows' # rows
    <3>1. PICK i, c : i = request[q].row /\ c = rows[i].calls
      OBVIOUS
    <3>2. i \in 1..Len(rows) /\ c \in Seq(CallIds)
      BY <1>8, <3>1, HeldRow DEF AnswerPaused, Doing, Held, Row
    <3>3. PICK r : r = NewRow("result", "sent", None, i, None, c)
      OBVIOUS
    <3>4. rows' = Insert(rows, r)
      BY <1>8, <2>1, <3>1, <3>3 DEF AnswerPaused
    <3>5. i \in Nat /\ None \in Texts \cup {None} /\ None \in Streams \cup {None}
      BY <1>0, <3>2
    <3>6. r \in Row /\ r.shown
      BY <3>2, <3>3, <3>5, Names, NewRowTyped, NewRowShown
    <3>7. QED
      BY <3>4, <3>6 DEF Inserts
  <2>2. QED
    BY <2>1
<1>9. ASSUME NEW q, Claim(q) \/ RunTool(q) \/ Reopen(q) \/ CloseFailed(q)
      PROVE  UNCHANGED rows \/ KeepsShown
  <2>1. \/ UNCHANGED rows
        \/ \E k, st, b : \/ rows' = [rows EXCEPT ![k].status = st, ![k].raw = b]
                         \/ rows' = [rows EXCEPT ![k].ran = @ + 1]
    BY <1>9 DEF Claim, RunTool, Reopen, CloseFailed
  <2>2. QED
    BY <1>0, <2>1, ColumnsKeepShown
<1>10. ASSUME NEW q \in Slots, RequestStep(q)
       PROVE  Accounted(rows')
  BY <1>1, <1>2, <1>3, <1>7, <1>8, <1>9, <1>10 DEF RequestStep, CancelTurn,
     ClaimLost, WriteThrows, DispatchEnds
<1>11. ASSUME NEW q, EditResend(q) \/ Retry(q)
       PROVE  Accounted(rows')
  <2>1. PICK S, rs : /\ rs = Supersede(rows, S)
                     /\ rows' = rs \/ \E t \in Texts : rows' = Insert(rs, Question(t))
    BY <1>11 DEF EditResend, Retry
  <2>2. rs \in Seq(Row) /\ Accounted(rs)
    BY <1>0, <2>1, Superseded, SupersedeAccounted
  <2>3. ASSUME NEW t \in Texts, rows' = Insert(rs, Question(t))
        PROVE  Accounted(rows')
    <3>1. Question(t) \in Row /\ Question(t).shown
      BY QuestionRow, NewRowShown DEF Question
    <3>2. QED
      BY <2>2, <2>3, <3>1, InsertAccounted
  <2>4. QED
    BY <2>1, <2>2, <2>3
<1>12. ASSUME NEW q \in Slots, Delete(q)
       PROVE  KeepsShown
  <2>1. ASSUME NEW i \in 1..Len(rows)
        PROVE  rows'[i].shown = rows[i].shown
    <3>1. PICK a : a = rows[i] /\ a \in Row
      BY <1>0
    <3>2. rows'[i] = a \/ rows'[i] = [a EXCEPT !.status = "denied", !.raw = FALSE]
      BY <1>0, <1>12, <3>1 DEF Delete
    <3>3. CASE rows'[i] = [a EXCEPT !.status = "denied", !.raw = FALSE]
      BY <3>1, <3>3 DEF Row
    <3>4. QED
      BY <3>1, <3>2, <3>3
  <2>2. DOMAIN rows' = DOMAIN rows
    BY <1>12 DEF Delete
  <2>3. QED
    BY <2>1, <2>2 DEF KeepsShown
<1>13. ASSUME NEW q \in Requests, UserStep(q)
       PROVE  Accounted(rows')
  BY <1>1, <1>3, <1>11, <1>12, <1>13 DEF UserStep, Post, Cancel, FindPending, Slots
<1>14. ASSUME Lapse
       PROVE  KeepsShown
  <2>1. PICK n \in DOMAIN rows :
          rows' = [j \in DOMAIN rows |->
                     IF j <= n /\ rows[j].kind = "action"
                     THEN [rows[j] EXCEPT !.old = TRUE] ELSE rows[j]]
    BY <1>14 DEF Lapse
  <2>2. ASSUME NEW i \in 1..Len(rows)
        PROVE  rows'[i].shown = rows[i].shown
    <3>1. PICK a : a = rows[i] /\ a \in Row
      BY <1>0
    <3>2. rows'[i] = a \/ rows'[i] = [a EXCEPT !.old = TRUE]
      BY <1>0, <2>1, <3>1
    <3>3. QED
      BY <3>1, <3>2 DEF Row
  <2>3. QED
    BY <2>1, <2>2 DEF KeepsShown
<1>15. CASE UNCHANGED vars
  BY <1>1, <1>15 DEF vars
<1>16. QED
  BY <1>1, <1>3, <1>6, <1>10, <1>13, <1>14, <1>15 DEF Next, OpenStream, Close, Sweep, Crash, Slots

\* Where a turn was, as far as a compaction goes; where it is when it has just cut; and
\* when its summary has just been stored.
SameCut(s)  == turn'[s].pc \in {"compact", "flip"} =>
                 turn'[s].pc = turn[s].pc /\ turn'[s].cut = turn[s].cut
JustCut(s)  == turn'[s].pc = "compact" /\ turn'[s].cut \in 1..Len(rows) /\ UNCHANGED rows
JustSummarised(s) ==
  /\ turn[s].pc = "compact" /\ turn'[s].pc = "flip" /\ turn'[s].cut = turn[s].cut
  /\ Len(rows') = Len(rows) + 1 /\ rows'[Len(rows) + 1].kind = "summary"

\* A turn that goes elsewhere than into a compaction.
LEMMA GoesOn ==
  ASSUME ConversationTypeOK, NEW s \in Streams, NEW t, t.pc \notin {"compact", "flip"},
         turn' = [turn EXCEPT ![s] = t]
  PROVE  \A p \in Streams : SameCut(p)
  BY DEF ConversationTypeOK, SameCut

LEMMA WriteRowGoesOn ==
  ASSUME ConversationTypeOK, NEW s \in Streams, NEW r, NEW next, WriteRow(s, r, next),
         next.pc \notin {"compact", "flip"}
  PROVE  \A p \in Streams : SameCut(p)
<1>1. CASE turn' = [turn EXCEPT ![s] = next]
  BY <1>1, GoesOn
<1>2. CASE turn' = [turn EXCEPT ![s].pc = "end"]
  BY <1>2 DEF ConversationTypeOK, Turn, SameCut
<1>3. QED
  BY <1>1, <1>2 DEF WriteRow, Goto

LEMMA PcMoved ==
  ASSUME ConversationTypeOK, NEW s \in Streams, NEW pc
  PROVE  [turn[s] EXCEPT !.pc = pc].pc = pc
  BY DEF ConversationTypeOK, Turn

LEMMA AbortSameCut ==
  ASSUME ConversationTypeOK, NEW s \in Streams \cup {None}
  PROVE  \A p \in Streams : /\ Abort(turn, s)[p].pc = turn[p].pc
                            /\ Abort(turn, s)[p].cut = turn[p].cut
<1>1. turn \in [Streams -> Turn]
  BY DEF ConversationTypeOK
<1>2. CASE s = None
  BY <1>2 DEF Abort
<1>3. CASE s # None
  <2>1. s \in Streams /\ Abort(turn, s) = [turn EXCEPT ![s].aborted = TRUE]
    BY <1>3 DEF Abort
  <2>2. QED
    BY <1>1, <2>1 DEF Turn
<1>4. QED
  BY <1>2, <1>3

LEMMA TurnStepCuts ==
  ASSUME ConversationTypeOK, NEW s \in Streams, TurnStep(s), NEW p \in Streams
  PROVE  SameCut(p) \/ JustCut(p) \/ JustSummarised(p)
<1>0. turn \in [Streams -> Turn] /\ turn[s] \in Turn /\ registry \in Streams \cup {None}
      /\ rows \in Seq(Row) /\ Len(rows) \in Nat /\ DOMAIN rows = 1..Len(rows)
  BY StoredRows DEF ConversationTypeOK
<1>1. CASE StartCompaction(s)
  <2>1. PICK b \in 1..Len(rows) : turn' = [turn EXCEPT ![s].pc = "compact", ![s].cut = b]
    BY <1>0, <1>1 DEF StartCompaction, Asked, Window, Active
  <2>2. turn'[s] = [turn[s] EXCEPT !.pc = "compact", !.cut = b]
    BY <1>0, <2>1
  <2>3. turn'[s].pc = "compact" /\ turn'[s].cut = b /\ (p # s => turn'[p] = turn[p])
    BY <1>0, <2>1, <2>2 DEF Turn
  <2>4. QED
    BY <1>1, <2>3 DEF StartCompaction, SameCut, JustCut
<1>2. CASE Summarise(s)
  <2>1. PICK r, next : /\ r = Follow(s, "summary", "sent", <<>>)
                       /\ next = [turn[s] EXCEPT !.pc = "flip", !.last = Written]
    OBVIOUS
  <2>2. r \in Row /\ r.kind = "summary"
    <3>1. r.kind = "summary"
      BY <2>1 DEF Follow, NewRow
    <3>2. QED
      BY <2>1, <3>1, FollowShown, Names
  <2>3. next.pc = "flip" /\ next.cut = turn[s].cut
    BY <1>0, <2>1 DEF Turn
  <2>4. CASE rows' = Insert(rows, r) /\ turn' = [turn EXCEPT ![s] = next]
    <3>1. Len(rows') = Len(rows) + 1 /\ rows'[Len(rows) + 1].kind = "summary"
      BY <1>0, <2>2, <2>4, Inserted DEF SameRow
    <3>2. QED
      BY <1>0, <1>2, <2>3, <2>4, <3>1 DEF Summarise, At, SameCut, JustSummarised
  <2>5. CASE turn' = [turn EXCEPT ![s].pc = "end"]
    BY <1>0, <2>5 DEF Turn, SameCut
  <2>6. QED
    BY <1>2, <2>1, <2>4, <2>5 DEF Summarise, WriteRow, Goto
<1>3. CASE Register(s)
  <2>1. turn'[s].pc \in {"think", "ask"} /\ \A q \in Streams \ {s} : turn'[q] = Abort(turn, registry)[q]
    BY <1>3, RegisterSets
  <2>2. QED
    BY <1>0, <2>1, AbortSameCut DEF SameCut
<1>4. CASE NoRun(s) \/ Finish(s)
  BY <1>4, EndedTyped, GoesOn DEF NoRun, Finish
<1>5. CASE MarkStopped(s) \/ BeginRun(s)
  BY <1>0, <1>5 DEF MarkStopped, BeginRun, Goto, Turn, SameCut
<1>6. CASE SummaryFails(s) \/ HideOldRows(s)
  BY <1>0, <1>6 DEF SummaryFails, HideOldRows, Turn, SameCut
<1>7. CASE StoreQuestion(s)
  <2>1. PICK next : next = [turn[s] EXCEPT !.pc = "think", !.iter = 1, !.last = Written]
    OBVIOUS
  <2>2. next.pc = "think"
    BY <1>0, <2>1 DEF Turn
  <2>3. QED
    BY <1>7, <2>1, <2>2, WriteRowGoesOn DEF StoreQuestion
<1>8. CASE Answer(s) \/ Pause(s) \/ PauseAfterDenied(s)
  <2>1. [turn[s] EXCEPT !.pc = "end"].pc = "end"
    BY PcMoved
  <2>2. QED
    BY <1>8, <2>1, WriteRowGoesOn DEF Answer, Pause, PauseAfterDenied
<1>9. CASE Fails(s)
  <2>1. PICK a, b : /\ a = [turn[s] EXCEPT !.pc = "stop", !.last = Written]
                    /\ b = [turn[s] EXCEPT !.pc = "end"]
    OBVIOUS
  <2>2. a.pc = "stop" /\ b.pc = "end"
    BY <1>0, <2>1 DEF Turn
  <2>3. QED
    BY <1>9, <2>1, <2>2, WriteRowGoesOn DEF Fails
<1>10. CASE CallTools(s)
  <2>1. PICK r, calls, next :
          /\ next = [turn[s] EXCEPT !.pc = "store", !.last = Written, !.left = calls]
          /\ WriteRow(s, r, next)
    BY <1>10 DEF CallTools
  <2>2. next.pc = "store"
    BY <1>0, <2>1 DEF Turn
  <2>3. QED
    BY <2>1, <2>2, WriteRowGoesOn
<1>11. CASE DenyThenPause(s)
  BY <1>0, <1>11 DEF DenyThenPause, Turn, SameCut
<1>12. CASE StoreResult(s)
  <2>1. turn[s].pc = "store" /\ \E left, last, refused :
          LET rest == [turn[s] EXCEPT !.left = left]
          IN  \/ turn' = [turn EXCEPT ![s] = [rest EXCEPT !.last = last]]
              \/ turn' = [turn EXCEPT ![s] = [rest EXCEPT !.refused = refused]]
    BY <1>12 DEF StoreResult, At
  <2>2. QED
    BY <1>0, <2>1 DEF Turn, SameCut
<1>13. CASE NextIteration(s)
  BY <1>0, <1>13 DEF NextIteration, Goto, Turn, SameCut
<1>14. QED
  BY <1>1, <1>2, <1>3, <1>4, <1>5, <1>6, <1>7, <1>8, <1>9, <1>10, <1>11, <1>12, <1>13 DEF TurnStep

LEMMA CutsStep ==
  ASSUME Places, CutsOK, [Next]_vars
  PROVE  CutsOK'
<1>0. /\ ConversationTypeOK /\ Shape /\ Len(rows) \in Nat /\ Len(rows') \in Nat
      /\ \A i \in 1..Len(rows) : i \in 1..Len(rows') /\ rows'[i].kind = rows[i].kind
  <2>1. ConversationTypeOK /\ Shape /\ Len(rows) \in Nat
    BY StepShape, StoredRows DEF Places, ConversationTypeOK
  <2>2. QED
    BY <2>1 DEF Shape, LongerRows, OldRow
<1>1. ASSUME NEW p \in Streams
      PROVE  SameCut(p) \/ JustCut(p) \/ JustSummarised(p)
  <2>1. ASSUME UNCHANGED turn \/ \E s \in Streams \cup {None} : turn' = Abort(turn, s)
        PROVE  SameCut(p)
    BY <1>0, <2>1, AbortSameCut DEF SameCut
  <2>2. ASSUME NEW s \in Streams, OpenStream(s)
        PROVE  SameCut(p)
    <3>1. turn \in [Streams -> Turn]
      BY <1>0 DEF ConversationTypeOK
    <3>2. QED
      BY <2>2, <3>1 DEF OpenStream, Turn, SameCut
  <2>3. ASSUME NEW s \in Streams, Close(s)
        PROVE  SameCut(p)
    BY <2>1, <2>3 DEF Close
  <2>4. ASSUME NEW q \in Slots, RequestStep(q) \/ UserStep(q)
        PROVE  SameCut(p)
    <3>1. registry \in Streams \cup {None}
      BY <1>0 DEF ConversationTypeOK
    <3>2. UNCHANGED turn \/ turn' = Abort(turn, registry)
      BY <2>4 DEF RequestStep, StorePost, CancelTurn, Claim, ClaimLost, WriteThrows, RunTool, DispatchEnds,
         Reopen, CloseFailed, AnswerPaused, UserStep, Post, EditResend, Retry, Delete, Cancel,
         FindPending
    <3>3. QED
      BY <2>1, <3>1, <3>2
  <2>5. ASSUME Crash
        PROVE  SameCut(p)
    BY <2>5, EndedTyped DEF Crash, SameCut
  <2>6. ASSUME Sweep \/ Lapse \/ UNCHANGED vars
        PROVE  SameCut(p)
    BY <2>1, <2>6 DEF Sweep, Lapse, vars
  <2>7. QED
    BY <1>0, <2>2, <2>3, <2>4, <2>5, <2>6, TurnStepCuts DEF Next, Slots
<1>2. ASSUME NEW p \in Streams
      PROVE  /\ turn'[p].pc = "compact" => turn'[p].cut \in 1..Len(rows')
             /\ turn'[p].pc = "flip" =>
                  \E j \in 1..Len(rows') : turn'[p].cut <= j /\ rows'[j].kind = "summary"
  <2>1. CASE SameCut(p)
    BY <1>0, <2>1 DEF SameCut, CutsOK, At
  <2>2. CASE JustCut(p)
    BY <2>2 DEF JustCut
  <2>3. CASE JustSummarised(p)
    BY <1>0, <2>3 DEF JustSummarised, CutsOK, At
  <2>4. QED
    BY <1>1, <2>1, <2>2, <2>3
<1>3. QED
  BY <1>2 DEF CutsOK, At

\* What a compaction has taken out of the window has been summarised after it, unless
\* the rolling window has moved past it.
THEOREM HiddenRowsAreSummarised == Spec => []HiddenIsSummarised
<1>1. Init => Summarised
  <2>1. \A s \in Streams : NoTurn.pc = "idle"
    BY DEF NoTurn
  <2>2. QED
    BY <2>1 DEF Init, Summarised, CutsOK, Accounted, At
<1>2. Places /\ Summarised /\ [Next]_vars => Summarised'
  BY CutsStep, AccountedStep DEF Summarised
<1>3. Places /\ Summarised => HiddenIsSummarised
  <2> SUFFICES ASSUME Places, Summarised
               PROVE  HiddenIsSummarised
    OBVIOUS
  <2>1. DOMAIN rows = 1..Len(rows)
    BY StoredRows DEF Places, ConversationTypeOK
  <2>2. QED
    BY <2>1 DEF Summarised, Accounted, MayHide, QuestionsFrom, HiddenIsSummarised
<1>4. QED
  BY <1>1, <1>2, <1>3, PlacesAlways, PTL DEF Spec

-----------------------------------------------------------------------------
(* The conversation implements PausedAction: whatever turns, requests, the sweep and
   crashes do, a paused call is proposed once, and runs at most once, only while an
   approval of it is being carried out. *)

-----------------------------------------------------------------------------
(* The sweep approves nothing *)

\* Approved is about the requests of the user; the sweep only declines.
SweepDeclines == request[Sweeper].pc \in {"free", "expiring", "answering"}

IInv == Places /\ Acts /\ SweepDeclines

LEMMA SweepDeclinesStep ==
  ASSUME Places, SweepDeclines, [Next]_vars
  PROVE  SweepDeclines'
<1>1. request \in [Slots -> RequestType] /\ Sweeper \in Slots /\ Sweeper \notin Requests
  BY NameAssumption DEF Places, ConversationTypeOK, Slots, RequestType
<1>2. CASE UNCHANGED request
  BY <1>2 DEF SweepDeclines
<1>3. ASSUME NEW s \in Streams, TurnStep(s) \/ OpenStream(s) \/ Close(s)
      PROVE  UNCHANGED request
  BY <1>3 DEF TurnStep, BeginRun, NoRun, Register, StoreQuestion, StartCompaction, Summarise,
     SummaryFails, HideOldRows, Answer, CallTools, Pause, DenyThenPause, StoreResult,
     PauseAfterDenied, NextIteration, Fails, MarkStopped, Finish, OpenStream, Close
<1>4. ASSUME NEW q \in Requests, UserStep(q) \/ RequestStep(q)
      PROVE  request'[Sweeper] = request[Sweeper]
  <2>1. \E v : request' = [request EXCEPT ![q] = v]
    BY <1>4 DEF UserStep, Post, EditResend, Retry, Delete, Cancel, FindPending, RequestStep,
       StorePost, CancelTurn, Claim, ClaimLost, WriteThrows, RunTool, DispatchEnds, Reopen, CloseFailed,
       AnswerPaused, Move, Done, Take
  <2>2. QED
    BY <1>1, <2>1
<1>5. CASE RequestStep(Sweeper)
  <2>1. CASE Claim(Sweeper)
    <3>1. Verdict(Sweeper) = "denied"
      BY <2>1 DEF Claim, SweepDeclines, Verdict, Doing
    <3>2. Move(Sweeper, "answering")
      BY <2>1, <3>1 DEF Claim
    <3>3. QED
      BY <1>1, <3>2 DEF Move, SweepDeclines, RequestType
  <2>2. CASE Done(Sweeper)
    BY <1>1, <2>2 DEF Done, Free, SweepDeclines
  <2>3. QED
    BY <1>5, <2>1, <2>2 DEF RequestStep, StorePost, CancelTurn, ClaimLost, WriteThrows, RunTool,
       DispatchEnds, Reopen, CloseFailed, AnswerPaused, SweepDeclines, Doing
<1>6. CASE Sweep
  BY <1>1, <1>6 DEF Sweep, Take, SweepDeclines
<1>7. CASE Crash
  BY <1>1, <1>7 DEF Crash, Free, SweepDeclines, Slots
<1>8. CASE Lapse \/ UNCHANGED vars
  BY <1>2, <1>8 DEF Lapse, vars
<1>9. QED
  BY <1>2, <1>3, <1>4, <1>5, <1>6, <1>7, <1>8 DEF Next, SweepDeclines

LEMMA IInvStep ==
  ASSUME IInv, [Next]_vars
  PROVE  IInv'
  BY PlacesStep, ActsStep, SweepDeclinesStep DEF IInv

-----------------------------------------------------------------------------
(* The four sets *)

Carried(i) == \E q \in Requests : Spending(q) /\ request[q].row = i

\* Which set a row is in, from its columns and the requests.
RowSets(i) ==
  /\ i \in ActionRows <=> i \in 1..Len(rows) /\ rows[i].kind = "action"
  /\ i \in Paused <=> i \in 1..Len(rows) /\ rows[i].status = "pending"
  /\ i \in Executed <=> i \in 1..Len(rows) /\ rows[i].ran > 0
  /\ i \in Approved <=> Carried(i)
  /\ i \in Paused => i \in ActionRows /\ i \notin Executed /\ i \notin Approved
  /\ i \in Executed => i \in ActionRows /\ i \notin Approved
  /\ i \in Approved => i \in ActionRows

LEMMA InSets ==
  ASSUME IInv, NEW i
  PROVE  RowSets(i)
<1>1. DOMAIN rows = 1..Len(rows) /\ \A j \in 1..Len(rows) : rows[j].ran \in Nat
  BY StoredRows DEF IInv, Places, ConversationTypeOK, Row
<1>2. \A j \in 1..Len(rows) : rows[j].ran > 0 => rows[j].kind = "action"
  BY DEF IInv, Acts
<1>3. \A j \in 1..Len(rows) : rows[j].status = "pending" => rows[j].kind = "action"
  BY DEF IInv, Places, RowsOK, RowOK
<1>4. \A j \in 1..Len(rows) : rows[j].ran > 0 => rows[j].status \in {"sent", "superseded"}
  BY <1>1 DEF IInv, Acts, ActionRunsOnce
<1>5. Carried(i) => /\ i \in 1..Len(rows) /\ rows[i].kind = "action" /\ rows[i].ran = 0
                    /\ rows[i].status \in {"sent", "superseded"}
  <2>1. ASSUME NEW q \in Requests, Spending(q), request[q].row = i
        PROVE  /\ i \in 1..Len(rows) /\ rows[i].kind = "action" /\ rows[i].ran = 0
               /\ rows[i].status \in {"sent", "superseded"}
    <3>1. q \in Slots /\ Held(q)
      BY <2>1 DEF Slots, Spending, Held
    <3>2. QED
      BY <2>1, <3>1, HeldRow DEF IInv, Acts
  <2>2. QED
    BY <2>1 DEF Carried
<1>6. i \in ActionRows <=> i \in 1..Len(rows) /\ rows[i].kind = "action"
  BY <1>1 DEF ActionRows
<1>7. i \in Paused <=> i \in 1..Len(rows) /\ rows[i].status = "pending"
  BY <1>1 DEF Paused
<1>8. i \in Executed <=> i \in 1..Len(rows) /\ rows[i].ran > 0
  BY <1>2, <1>6 DEF Executed
<1>9. i \in Approved <=> Carried(i)
  <2>1. i \in Approved <=> i \in ActionRows /\ i \notin Executed /\ Carried(i)
    BY DEF Approved, Carried, Spending
  <2>2. QED
    BY <1>5, <1>6, <1>8, <2>1
<1>10. QED
  BY <1>2, <1>3, <1>4, <1>5, <1>6, <1>7, <1>8, <1>9 DEF RowSets

SetsOK == \A i : RowSets(i)

LEMMA SetsAfter == IInv' => SetsOK'
<1>1. IInv => SetsOK
  BY InSets DEF SetsOK
<1>2. QED
  BY <1>1, PTL

\* Where a row of the new state is.
LEMMA InSetsAfter ==
  ASSUME IInv', NEW i
  PROVE  /\ i \in ActionRows' <=> i \in 1..Len(rows') /\ rows'[i].kind = "action"
         /\ i \in Paused' <=> i \in 1..Len(rows') /\ rows'[i].status = "pending"
         /\ i \in Executed' <=> i \in 1..Len(rows') /\ rows'[i].ran > 0
         /\ i \in Approved' <=> Carried(i)'
         /\ i \in Paused' => i \in ActionRows' /\ i \notin Executed' /\ i \notin Approved'
         /\ i \in Executed' => i \in ActionRows' /\ i \notin Approved'
         /\ i \in Approved' => i \in ActionRows'
  BY SetsAfter DEF SetsOK, RowSets

-----------------------------------------------------------------------------
(* The steps that resolve nothing *)

\* A step that approves and runs nothing, and brings no action, closes some or none.
LEMMA ClosesSome ==
  ASSUME IInv, IInv', ActionRows' = ActionRows, Executed' = Executed,
         Paused' \subseteq Paused, Approved' \subseteq Approved
  PROVE  Action!Close
<1>1. PICK lost : lost = (Paused \ Paused') \cup (Approved \ Approved')
  OBVIOUS
<1>2. \A i : i \notin Paused \/ i \notin Approved
  BY InSets DEF RowSets
<1>3. \A i : i \in Paused \cup Approved => i \in ActionRows /\ i \notin Executed
  BY InSets DEF RowSets
<1>4. /\ lost \in SUBSET (Paused \cup Approved)
      /\ Paused' = Paused \ lost /\ Approved' = Approved \ lost
  BY <1>1, <1>2
<1>5. ActionRows' \ (Paused' \cup Approved' \cup Executed')
        = (ActionRows \ (Paused \cup Approved \cup Executed)) \cup lost
  BY <1>1, <1>2, <1>3
<1>6. QED
  BY <1>4, <1>5 DEF Action!Close

\* A new action is a proposal.
LEMMA Proposes ==
  ASSUME IInv, IInv', [Next]_vars,
         NEW n \in 1..Len(rows'), n \notin 1..Len(rows), rows'[n].kind = "action"
  PROVE  Action!Propose
<1>1. Places /\ Shape /\ OnlyAdds
  BY StepShape DEF IInv, Shape
<1>2. n = Len(rows) + 1 /\ rows'[n].status = "pending" /\ rows'[n].ran = 0
  BY <1>1, NewestRow DEF Fresh
<1>3. \A i : i \in 1..Len(rows') <=> i \in 1..Len(rows) \/ i = n
  <2>1. \A i \in 1..Len(rows') : i \notin 1..Len(rows) => i = n
    BY <1>1, <1>2, NewestRow
  <2>2. 1..Len(rows) \subseteq 1..Len(rows')
    BY <1>1, StoredRows DEF Places, ConversationTypeOK, Shape, LongerRows
  <2>3. QED
    BY <2>1, <2>2
<1>4. \A i \in 1..Len(rows) : SameRow(rows'[i], rows[i])
  BY <1>1 DEF OnlyAdds
<1>5. Approved' = Approved
  <2>1. \A i : Carried(i)' <=> Carried(i)
    BY <1>1 DEF OnlyAdds, Carried, Spending
  <2>2. QED
    BY <2>1, InSets, InSetsAfter DEF RowSets
<1>6. Executed' = Executed /\ Paused' = Paused \cup {n} /\ ActionRows' = ActionRows \cup {n}
  <2>1. \A i : i \in Executed' <=> i \in Executed
    BY <1>2, <1>3, <1>4, InSets, InSetsAfter DEF RowSets, SameRow
  <2>2. \A i : i \in Paused' <=> i \in Paused \/ i = n
    BY <1>2, <1>3, <1>4, InSets, InSetsAfter DEF RowSets, SameRow
  <2>3. \A i : i \in ActionRows' <=> i \in ActionRows \/ i = n
    BY <1>3, <1>4, InSets, InSetsAfter DEF RowSets, SameRow
  <2>4. QED
    BY <2>1, <2>2, <2>3
<1>7. n \notin ActionRows /\ Paused \cup Approved \cup Executed \subseteq ActionRows
  BY InSets DEF RowSets
<1>8. ActionRows' \ (Paused' \cup Approved' \cup Executed')
        = ActionRows \ (Paused \cup Approved \cup Executed)
  BY <1>5, <1>6, <1>7
<1>9. n \in Paused' /\ Paused \subseteq Paused'
      /\ n \notin Paused \cup Approved \cup Executed
                   \cup (ActionRows \ (Paused \cup Approved \cup Executed))
  BY <1>6, <1>7
<1>10. QED
  BY <1>5, <1>6, <1>8, <1>9 DEF Action!Propose, Action!Seen

\* Any other step that is mild withdraws, declines or gives up some actions, or none.
LEMMA MildCloses ==
  ASSUME IInv, IInv', [Next]_vars, Mild, ~\E q \in Slots : Claim(q),
         ~\E n \in 1..Len(rows') : n \notin 1..Len(rows) /\ rows'[n].kind = "action"
  PROVE  Action!Close
<1>1. Shape /\ Places
  BY StepShape DEF IInv
<1>2. 1..Len(rows) \subseteq 1..Len(rows')
  BY <1>1, StoredRows DEF Places, ConversationTypeOK, Shape, LongerRows
<1>3. \A i \in 1..Len(rows) : rows'[i].kind = rows[i].kind /\ Settled(rows[i], rows'[i])
  BY <1>1 DEF Shape, OldRow, Mild
<1>4. \A i : i \in ActionRows' <=> i \in ActionRows
  BY <1>2, <1>3, InSets, InSetsAfter DEF RowSets
<1>5. \A i : i \in Executed' <=> i \in Executed
  <2>1. \A i : i \in Executed \cup Executed' => i \in 1..Len(rows)
    BY <1>4, InSets, InSetsAfter DEF RowSets
  <2>2. QED
    BY <1>2, <1>3, <2>1, InSets, InSetsAfter DEF RowSets, Settled
<1>6. \A i : i \in Paused' => i \in Paused
  BY <1>3, <1>4, InSets, InSetsAfter DEF RowSets, Settled
<1>7. \A i : i \in Approved' => i \in Approved
  <2>1. \A q \in Slots : Spending(q)' => Spending(q) /\ request'[q].row = request[q].row
    BY <1>1, SpendingMoves
  <2>2. \A i : Carried(i)' => Carried(i)
    BY <2>1 DEF Carried, Slots
  <2>3. QED
    BY <2>2, InSets, InSetsAfter DEF RowSets
<1>8. QED
  BY <1>4, <1>5, <1>6, <1>7, ClosesSome

-----------------------------------------------------------------------------
(* The steps that resolve a pause *)

\* What such a step does to the row and its request. Every other row stays, and so
\* does every other request.
LEMMA Resolution ==
  ASSUME IInv, IInv', [Next]_vars, NEW q \in Slots, Resolves(q),
         NEW i, i = request[q].row
  PROVE  /\ i \in ActionRows /\ ActionRows' = ActionRows
         /\ \A j : j # i => /\ j \in Paused' <=> j \in Paused
                            /\ j \in Executed' <=> j \in Executed
                            /\ j \in Approved' <=> j \in Approved
         /\ \/ i \in Paused /\ i \in Approved' /\ i \notin Paused' /\ i \notin Executed'
            \/ i \in Paused /\ i \notin Approved' /\ i \notin Paused' /\ i \notin Executed'
            \/ i \in Approved /\ i \in Executed' /\ i \notin Paused' /\ i \notin Approved'
            \/ i \in Approved /\ i \notin Executed' /\ i \notin Approved'
<1>1. Places /\ Acts /\ SweepDeclines /\ request \in [Slots -> RequestType]
  BY DEF IInv, Places, ConversationTypeOK, Slots, RequestType
<1>2. PICK a, b : a = rows[i] /\ b = rows'[i]
  OBVIOUS
<1>3. /\ i \in 1..Len(rows) /\ a.kind = "action" /\ a.ran \in Nat
      /\ Len(rows') = Len(rows)
      /\ \A j \in 1..Len(rows) : j # i => rows'[j] = rows[j]
      /\ \/ Claim(q) /\ a.status = "pending" /\ b.status \in {"sent", "denied"}
            /\ b.ran = a.ran /\ (b.status = "denied" => ~Spending(q)')
         \/ Spending(q) /\ b.ran = a.ran + 1 /\ b.status = a.status /\ ~Spending(q)'
         \/ Spending(q) /\ ~Spending(q)' /\ b.ran = a.ran
            /\ \/ b.status = a.status
               \/ ~deleted /\ a.status = "sent" /\ b.status = "pending"
               \/ b.status = "failed"
  BY <1>1, <1>2, ResolvesWrites
<1>4. Shape /\ b.kind = a.kind
  BY <1>1, <1>2, <1>3, StepShape DEF Shape, OldRow
<1>5. \A p \in Slots : p # q => request'[p] = request[p]
  BY <1>1 DEF Resolves, Claim, RunTool, Reopen, CloseFailed, Move, Done
<1>6. Claim(q) => request'[q].row = i
  BY <1>1 DEF Claim, Move, RequestType
<1>7. Spending(q)' => request'[q].row = i
  BY <1>1, <1>3, <1>6
<1>8. i \in ActionRows /\ ActionRows' = ActionRows
  <2>1. \A j : j \in ActionRows' <=> j \in ActionRows
    BY <1>2, <1>3, <1>4, InSets, InSetsAfter DEF RowSets
  <2>2. QED
    BY <1>2, <1>3, <2>1, InSets DEF RowSets
<1>9. ASSUME NEW j, j # i
      PROVE  /\ j \in Paused' <=> j \in Paused
             /\ j \in Executed' <=> j \in Executed
             /\ j \in Approved' <=> j \in Approved
  <2>1. Carried(j)' <=> Carried(j)
    BY <1>5, <1>7, <1>9 DEF Carried, Spending, Slots
  <2>2. QED
    BY <1>3, <1>9, <2>1, InSets, InSetsAfter DEF RowSets
<1>10. /\ i \in Paused' <=> b.status = "pending"
       /\ i \in Executed' <=> b.ran > 0
       /\ i \in Paused <=> a.status = "pending"
       /\ i \in Executed <=> a.ran > 0
  BY <1>2, <1>3, InSets, InSetsAfter DEF RowSets
<1>11. Spending(q) => i \in Approved
  <2>1. Spending(q) => q \in Requests
    BY <1>1 DEF Spending, SweepDeclines, Slots
  <2>2. QED
    BY <2>1, InSets DEF Carried, RowSets
<1>12. ~Spending(q)' => i \notin Approved' \/ i \in Paused
  <2>1. ASSUME NEW p \in Requests, ~Spending(q)', Spending(p)', request'[p].row = i
        PROVE  i \in Paused
    <3>1. p \in Slots /\ p # q /\ Spending(p) /\ request[p].row = i
      BY <1>5, <2>1 DEF Slots, Spending
    <3>2. ~Spending(q)
      BY <1>1, <3>1 DEF Acts
    <3>3. QED
      BY <1>3, <1>10, <3>2
  <2>2. QED
    BY <2>1, InSetsAfter DEF Carried
<1>13. CASE Claim(q)
  <2>1. i \in Paused /\ a.ran = 0 /\ ~Spending(q) /\ b.ran = 0
        /\ b.status \in {"sent", "denied"}
    <3>1. ~Spending(q)
      BY <1>13 DEF Claim, Claiming, Spending
    <3>2. i \in Paused /\ i \notin Executed
      BY <1>3, <1>10, <3>1, InSets DEF RowSets
    <3>3. QED
      BY <1>3, <1>10, <3>1, <3>2
  <2>2. i \notin Paused'
    BY <1>10, <2>1
  <2>3. i \notin Executed'
    BY <1>10, <2>1
  <2>4. QED
    BY <1>8, <1>9, <2>1, <2>2, <2>3
<1>14. CASE Spending(q)
  <2>1. i \in Approved /\ i \notin Paused /\ i \notin Executed
    BY <1>11, <1>14, InSets DEF RowSets
  <2>2. ~Claim(q)
    BY <1>14 DEF Claim, Claiming, Spending
  <2>3. i \notin Approved'
    BY <1>3, <1>12, <2>1, <2>2
  <2>4. a.ran = 0
    BY <1>3, <1>10, <2>1
  <2>5. CASE b.ran = a.ran + 1 /\ b.status = a.status
    <3>1. i \in Executed'
      BY <1>10, <2>4, <2>5
    <3>2. i \notin Paused'
      BY <1>10, <2>1, <2>5
    <3>3. QED
      BY <1>8, <1>9, <2>1, <2>3, <3>1, <3>2
  <2>6. CASE b.ran = a.ran
    <3>1. i \notin Executed'
      BY <1>10, <2>4, <2>6
    <3>2. QED
      BY <1>8, <1>9, <2>1, <2>3, <3>1
  <2>7. QED
    BY <1>3, <2>2, <2>5, <2>6
<1>15. QED
  BY <1>3, <1>8, <1>9, <1>13, <1>14

\* Which step of PausedAction it is follows from where the row goes.
LEMMA Resolved ==
  ASSUME IInv, IInv', [Next]_vars, NEW q \in Slots, Resolves(q)
  PROVE  Action!Next
<1>1. PICK i : i = request[q].row
  OBVIOUS
<1>2. /\ i \in ActionRows /\ ActionRows' = ActionRows
      /\ \A j : j # i => /\ j \in Paused' <=> j \in Paused
                         /\ j \in Executed' <=> j \in Executed
                         /\ j \in Approved' <=> j \in Approved
      /\ \/ i \in Paused /\ i \in Approved' /\ i \notin Paused' /\ i \notin Executed'
         \/ i \in Paused /\ i \notin Approved' /\ i \notin Paused' /\ i \notin Executed'
         \/ i \in Approved /\ i \in Executed' /\ i \notin Paused' /\ i \notin Approved'
         \/ i \in Approved /\ i \notin Executed' /\ i \notin Approved'
  BY <1>1, Resolution
<1>3. /\ \A j : j \in Paused => j \notin Executed /\ j \notin Approved
      /\ \A j : j \in Executed => j \notin Approved
  BY InSets DEF RowSets
<1>4. PICK C : C = ActionRows \ (Paused \cup Approved \cup Executed)
  OBVIOUS
<1>5. PICK D : D = ActionRows' \ (Paused' \cup Approved' \cup Executed')
  OBVIOUS
<1>6. \A j : j # i => (j \in D <=> j \in C)
  BY <1>2, <1>4, <1>5
<1>7. CASE i \in Paused /\ i \in Approved' /\ i \notin Paused' /\ i \notin Executed'
  <2>1. Paused' = Paused \ {i} /\ Approved' = Approved \cup {i} /\ Executed' = Executed
    BY <1>2, <1>3, <1>7
  <2>2. D = C
    BY <1>4, <1>5, <1>6, <1>7
  <2>3. Action!Approve
    BY <1>4, <1>5, <1>7, <2>1, <2>2 DEF Action!Approve
  <2>4. QED
    BY <2>3 DEF Action!Next
<1>8. CASE i \in Approved /\ i \in Executed' /\ i \notin Paused' /\ i \notin Approved'
  <2>1. Executed' = Executed \cup {i} /\ Approved' = Approved \ {i} /\ Paused' = Paused
    BY <1>2, <1>3, <1>8
  <2>2. D = C
    BY <1>4, <1>5, <1>6, <1>8
  <2>3. Action!Execute
    BY <1>4, <1>5, <1>8, <2>1, <2>2 DEF Action!Execute
  <2>4. QED
    BY <2>3 DEF Action!Next
<1>9. CASE i \in Approved /\ i \in Paused' /\ i \notin Executed' /\ i \notin Approved'
  <2>1. Paused' = Paused \cup {i} /\ Approved' = Approved \ {i} /\ Executed' = Executed
    BY <1>2, <1>3, <1>9
  <2>2. D = C
    BY <1>4, <1>5, <1>6, <1>9
  <2>3. Action!Return
    BY <1>4, <1>5, <1>9, <2>1, <2>2 DEF Action!Return
  <2>4. QED
    BY <2>3 DEF Action!Next
<1>10. CASE /\ i \in Paused \cup Approved
            /\ i \notin Paused' /\ i \notin Approved' /\ i \notin Executed'
  <2>1. Executed' = Executed
    BY <1>2, <1>3, <1>10
  <2>2. Paused' \subseteq Paused /\ Approved' \subseteq Approved
    BY <1>2, <1>10
  <2>3. Action!Close
    BY <1>2, <2>1, <2>2, ClosesSome
  <2>4. QED
    BY <2>3 DEF Action!Next
<1>11. QED
  BY <1>2, <1>7, <1>8, <1>9, <1>10

-----------------------------------------------------------------------------
(* The refinement *)

LEMMA ActionStep ==
  ASSUME IInv, IInv', [Next]_vars
  PROVE  Action!Next
<1>1. CASE \E n \in 1..Len(rows') : n \notin 1..Len(rows) /\ rows'[n].kind = "action"
  BY <1>1, Proposes DEF Action!Next
<1>2. CASE \E q \in Slots : Resolves(q)
  BY <1>2, Resolved
<1>3. CASE /\ Mild /\ ~\E q \in Slots : Claim(q)
           /\ ~\E n \in 1..Len(rows') : n \notin 1..Len(rows) /\ rows'[n].kind = "action"
  BY <1>3, MildCloses DEF Action!Next
<1>4. Mild \/ \E q \in Slots : Resolves(q)
  BY MildStep DEF IInv
<1>5. QED
  BY <1>1, <1>2, <1>3, <1>4 DEF Resolves

\* The conversation keeps the promise of PausedAction: an action is proposed once, and
\* runs at most once, only under an approval, whatever meets on it.
THEOREM PromiseIsKept == Spec => KeepsActionPromise
<1>1. Init => IInv /\ Action!Init
  <2> SUFFICES ASSUME Init
               PROVE  IInv /\ Action!Init
    OBVIOUS
  <2>1. rows = <<>> /\ \A q \in Slots : request[q] = Free
    BY DEF Init, Slots
  <2>2. SweepDeclines
    BY <2>1 DEF SweepDeclines, Free, Slots
  <2>3. Acts
    BY <2>1 DEF Acts, ActionRunsOnce, Spending, Free
  <2>4. ActionRows = {} /\ Paused = {}
    BY <2>1 DEF ActionRows, Paused
  <2>5. QED
    BY <2>2, <2>3, <2>4, PlacesInit DEF IInv, Executed, Approved, Action!Init
<1>2. IInv /\ [Next]_vars => IInv' /\ [Action!Next]_(Action!vars)
  BY IInvStep, ActionStep
<1>3. QED
  BY <1>1, <1>2, PTL DEF Spec, KeepsActionPromise, Action!Spec
=============================================================================

------------------------- MODULE AgentHistory_proofs -------------------------
(***************************************************************************)
(* A provider accepts every history of AgentHistory: first what the stored *)
(* rows of calls and results keep to, then what is made of them.           *)
(***************************************************************************)
EXTENDS AgentHistory, AgentConversation_proofs

-----------------------------------------------------------------------------
(* Which calls a row can hold *)

Ids(r)   == {r.calls[k] : k \in DOMAIN r.calls}
First(r) == r.calls[1]

\* The calls of an answer are numbered, those of a paused answer are 0.
BatchCalls(r) ==
  /\ r.run # None /\ 1 \in DOMAIN r.calls
  /\ \A k \in DOMAIN r.calls : r.calls[k] = <<r.run, First(r)[2], k>>

PauseCall(r) ==
  r.run # None /\ Len(r.calls) = 1 /\ First(r) = <<r.run, First(r)[2], 0>>

ResultCall(r) ==
  /\ Len(r.calls) = 1 /\ First(r) = <<r.run, First(r)[2], First(r)[3]>>
  /\ First(r)[3] \in Nat \ {0}

\* The result of a paused action is one of the row it follows.
Confirms(r) ==
  /\ r.follows \in 1..Len(rows) /\ rows[r.follows].kind = "action"
  /\ r.calls = rows[r.follows].calls

RowCalls(r) ==
  /\ r.kind = "batch" => BatchCalls(r)
  /\ r.kind = "action" => PauseCall(r)
  /\ r.kind = "result" => IF r.run = None THEN Confirms(r) ELSE ResultCall(r)

IsBatch(i)  == rows[i].kind = "batch"
IsResult(i) == rows[i].kind = "result"
IsAction(i) == rows[i].kind = "action"

\* No call is answered twice, and no turn pauses twice.
ResultsDiffer ==
  \A i, j \in 1..Len(rows) :
    IsResult(i) /\ IsResult(j) /\ rows[i].calls = rows[j].calls => i = j

PausesOnce ==
  \A i, j \in 1..Len(rows) :
    IsAction(i) /\ IsAction(j) /\ rows[i].run = rows[j].run => i = j

\* What a turn stores between an answer and a result of it are results of it.
ResultsInPlace ==
  \A b, k \in 1..Len(rows) :
    IsBatch(b) /\ IsResult(k) /\ First(rows[k]) \in Ids(rows[b]) =>
      /\ b < k /\ rows[k].run = rows[b].run
      /\ \A j \in 1..Len(rows) :
           b < j /\ j < k /\ rows[j].run = rows[b].run =>
             IsResult(j) /\ First(rows[j]) \in Ids(rows[b])

CallsAreKept ==
  /\ \A i \in 1..Len(rows) : RowCalls(rows[i])
  /\ ResultsDiffer /\ PausesOnce /\ ResultsInPlace

\* What a new row has to be for that.
Fits(r) ==
  /\ RowCalls(r)
  /\ r.kind = "batch" =>
       \A k \in 1..Len(rows) : IsResult(k) => First(rows[k]) \notin Ids(r)
  /\ r.kind = "action" =>
       \A i \in 1..Len(rows) : IsAction(i) => rows[i].run # r.run
  /\ r.kind = "result" =>
       /\ \A k \in 1..Len(rows) : IsResult(k) => rows[k].calls # r.calls
       /\ \A b \in 1..Len(rows) :
            IsBatch(b) /\ First(r) \in Ids(rows[b]) =>
              /\ r.run = rows[b].run
              /\ \A j \in 1..Len(rows) :
                   b < j /\ rows[j].run = rows[b].run =>
                     IsResult(j) /\ First(rows[j]) \in Ids(rows[b])

\* The columns that these are about.
SameCalls(a, b) ==
  a.kind = b.kind /\ a.run = b.run /\ a.follows = b.follows /\ a.calls = b.calls

LEMMA SameCallsSame ==
  ASSUME NEW a, NEW b, SameCalls(a, b)
  PROVE  /\ Ids(a) = Ids(b) /\ First(a) = First(b)
         /\ BatchCalls(a) <=> BatchCalls(b)
         /\ PauseCall(a) <=> PauseCall(b)
         /\ ResultCall(a) <=> ResultCall(b)
  BY DEF SameCalls, Ids, First, BatchCalls, PauseCall, ResultCall

\* Old rows keep their calls, and a new one comes last.
LEMMA OldCalls ==
  ASSUME Places, Shape
  PROVE  /\ Len(rows) \in Nat /\ Len(rows') \in Nat
         /\ Len(rows') = Len(rows) \/ Len(rows') = Len(rows) + 1
         /\ \A i \in 1..Len(rows) : i \in 1..Len(rows') /\ SameCalls(rows'[i], rows[i])
         /\ \A i \in 1..Len(rows') :
              i \notin 1..Len(rows) => i = Len(rows) + 1 /\ Len(rows') = Len(rows) + 1
<1>1. Len(rows) \in Nat
  BY StoredRows DEF Places, ConversationTypeOK
<1>2. Len(rows') = Len(rows) \/ Len(rows') = Len(rows) + 1
  BY DEF Shape
<1>3. \A i \in 1..Len(rows) : SameCalls(rows'[i], rows[i])
  BY DEF Shape, OldRow, SameCalls
<1>4. QED
  BY <1>1, <1>2, <1>3

LEMMA CallsKept ==
  ASSUME Places, Shape, CallsAreKept,
         Len(rows') = Len(rows) + 1 => Fits(rows'[Len(rows) + 1])
  PROVE  CallsAreKept'
<1> DEFINE n == Len(rows)
<1>1. /\ n \in Nat /\ Len(rows') \in Nat /\ (Len(rows') = n \/ Len(rows') = n + 1)
      /\ \A i \in 1..n : i \in 1..Len(rows') /\ SameCalls(rows'[i], rows[i])
      /\ \A i \in 1..Len(rows') : i \notin 1..n => i = n + 1 /\ Len(rows') = n + 1
  BY OldCalls
<1>2. \A i \in 1..n : /\ rows'[i].kind = rows[i].kind /\ rows'[i].run = rows[i].run
                      /\ rows'[i].follows = rows[i].follows /\ rows'[i].calls = rows[i].calls
                      /\ Ids(rows'[i]) = Ids(rows[i]) /\ First(rows'[i]) = First(rows[i])
  BY <1>1, SameCallsSame DEF SameCalls
<1>3. ASSUME NEW i \in 1..Len(rows')
      PROVE  \/ i \in 1..n
             \/ i = n + 1 /\ Fits(rows'[i])
  BY <1>1
<1>4. ASSUME NEW i \in 1..Len(rows')
      PROVE  RowCalls(rows[i])'
  <2>1. CASE i \in 1..n
    <3>1. RowCalls(rows[i]) /\ SameCalls(rows'[i], rows[i])
      BY <1>1, <2>1 DEF CallsAreKept
    <3>2. Confirms(rows[i]) => Confirms(rows[i])'
      BY <1>1, <1>2, <2>1 DEF Confirms
    <3>3. QED
      BY <1>2, <2>1, <3>1, <3>2, SameCallsSame DEF RowCalls, BatchCalls, PauseCall, ResultCall, First
  <2>2. CASE i = n + 1 /\ Fits(rows'[i])
    <3>1. RowCalls(rows'[i])
      BY <2>2 DEF Fits
    <3>2. Confirms(rows'[i]) => Confirms(rows[i])'
      BY <1>1, <1>2 DEF Confirms
    <3>3. QED
      BY <3>1, <3>2 DEF RowCalls, BatchCalls, PauseCall, ResultCall, First
  <2>3. QED
    BY <1>3, <2>1, <2>2
<1>5. ResultsDiffer'
  <2>1. ASSUME NEW i \in 1..Len(rows'), NEW j \in 1..Len(rows'), i # j,
               rows'[i].kind = "result", rows'[j].kind = "result"
        PROVE  rows'[i].calls # rows'[j].calls
    <3>1. CASE i \in 1..n /\ j \in 1..n
      BY <1>2, <2>1, <3>1 DEF CallsAreKept, ResultsDiffer, IsResult
    <3>2. CASE i \in 1..n /\ j = n + 1 /\ Fits(rows'[j])
      BY <1>2, <2>1, <3>2 DEF Fits, IsResult
    <3>3. CASE j \in 1..n /\ i = n + 1 /\ Fits(rows'[i])
      BY <1>2, <2>1, <3>3 DEF Fits, IsResult
    <3>4. QED
      BY <1>3, <2>1, <3>1, <3>2, <3>3
  <2>2. QED
    BY <2>1 DEF ResultsDiffer, IsResult
<1>6. PausesOnce'
  <2>1. ASSUME NEW i \in 1..Len(rows'), NEW j \in 1..Len(rows'), i # j,
               rows'[i].kind = "action", rows'[j].kind = "action"
        PROVE  rows'[i].run # rows'[j].run
    <3>1. CASE i \in 1..n /\ j \in 1..n
      BY <1>2, <2>1, <3>1 DEF CallsAreKept, PausesOnce, IsAction
    <3>2. CASE i \in 1..n /\ j = n + 1 /\ Fits(rows'[j])
      BY <1>2, <2>1, <3>2 DEF Fits, IsAction
    <3>3. CASE j \in 1..n /\ i = n + 1 /\ Fits(rows'[i])
      BY <1>2, <2>1, <3>3 DEF Fits, IsAction
    <3>4. QED
      BY <1>3, <2>1, <3>1, <3>2, <3>3
  <2>2. QED
    BY <2>1 DEF PausesOnce, IsAction
<1>7. ResultsInPlace'
  <2>1. ASSUME NEW b \in 1..Len(rows'), NEW k \in 1..Len(rows'),
               rows'[b].kind = "batch", rows'[k].kind = "result",
               First(rows'[k]) \in Ids(rows'[b])
        PROVE  /\ b < k /\ rows'[k].run = rows'[b].run
               /\ \A j \in 1..Len(rows') :
                    b < j /\ j < k /\ rows'[j].run = rows'[b].run =>
                      rows'[j].kind = "result" /\ First(rows'[j]) \in Ids(rows'[b])
    <3>1. CASE b \in 1..n /\ k \in 1..n
      <4>1. /\ b < k /\ rows[k].run = rows[b].run
            /\ \A j \in 1..n :
                 b < j /\ j < k /\ rows[j].run = rows[b].run =>
                   rows[j].kind = "result" /\ First(rows[j]) \in Ids(rows[b])
        BY <1>2, <2>1, <3>1 DEF CallsAreKept, ResultsInPlace, IsBatch, IsResult
      <4>2. \A j \in 1..Len(rows') : j < k => j \in 1..n
        BY <1>1, <3>1
      <4>3. QED
        BY <1>2, <3>1, <4>1, <4>2
    <3>2. CASE b \in 1..n /\ k = n + 1 /\ Fits(rows'[k])
      <4>1. /\ rows'[k].run = rows[b].run
            /\ \A j \in 1..n :
                 b < j /\ rows[j].run = rows[b].run =>
                   rows[j].kind = "result" /\ First(rows[j]) \in Ids(rows[b])
        BY <1>2, <2>1, <3>2 DEF Fits, IsBatch, IsResult
      <4>2. b < k /\ \A j \in 1..Len(rows') : j < k => j \in 1..n
        BY <1>1, <3>2
      <4>3. QED
        BY <1>2, <3>2, <4>1, <4>2
    <3>3. CASE b = n + 1 /\ k \in 1..n /\ Fits(rows'[b])
      BY <1>2, <2>1, <3>3 DEF Fits, IsResult
    <3>4. CASE b = n + 1 /\ k = n + 1
      BY <2>1, <3>4
    <3>5. QED
      BY <1>3, <3>1, <3>2, <3>3, <3>4
  <2>2. QED
    BY <2>1 DEF ResultsInPlace, IsBatch, IsResult, First, Ids
<1>8. QED
  BY <1>4, <1>5, <1>6, <1>7 DEF CallsAreKept

-----------------------------------------------------------------------------
(* The calls of a turn under way *)

Calls(r) == r.kind \in {"batch", "result"}

Fresher(s) == turn[s].pc \in {"idle", "begin", "register", "ask"}
Asks(s)    == turn[s].pc \in {"think", "compact", "flip", "call"}

\* The calls that are left are of this iteration and have no result; the batch they
\* are in, when it is stored, is followed by results of it.
StoresOf(rs, s, iter, left) ==
  /\ \A k \in DOMAIN left : left[k] = <<s, iter, left[k][3]>> /\ left[k][3] \in Nat \ {0}
  /\ \A k, m \in DOMAIN left : left[k] = left[m] => k = m
  /\ \A i \in 1..Len(rs) : rs[i].run = s /\ Calls(rs[i]) => First(rs[i])[2] <= iter
  /\ \A i \in 1..Len(rs) : rs[i].run = s /\ rs[i].kind = "result" =>
       \A k \in DOMAIN left : First(rs[i]) # left[k]
  /\ \A b \in 1..Len(rs) : rs[b].run = s /\ rs[b].kind = "batch" /\ First(rs[b])[2] = iter =>
       /\ \A k \in DOMAIN left : left[k] \in Ids(rs[b])
       /\ \A j \in 1..Len(rs) : b < j /\ rs[j].run = s =>
            rs[j].kind = "result" /\ First(rs[j]) \in Ids(rs[b])

Stores(s) == StoresOf(rows, s, turn[s].iter, turn[s].left)

\* A turn that pauses ends; the calls of a turn are of its iterations so far.
TurnCalls(s) ==
  /\ turn[s].pc \notin {"end", "done"} =>
       \A i \in 1..Len(rows) : IsAction(i) => rows[i].run # s
  /\ Fresher(s) => \A i \in 1..Len(rows) : rows[i].run = s => ~Calls(rows[i])
  /\ Asks(s) => \A i \in 1..Len(rows) : rows[i].run = s /\ Calls(rows[i]) =>
                  First(rows[i])[2] < turn[s].iter
  /\ turn[s].pc = "store" => Stores(s)

\* A turn that a step leaves where it is, and that adds no row.
SameTurn(s) ==
  /\ turn'[s].pc = turn[s].pc /\ turn'[s].iter = turn[s].iter /\ turn'[s].left = turn[s].left
  /\ \A i \in 1..Len(rows') : i \notin 1..Len(rows) => rows'[i].run # s

LEMMA OldColumns ==
  ASSUME Places, Shape
  PROVE  \A i \in 1..Len(rows) :
           /\ i \in 1..Len(rows')
           /\ rows'[i].kind = rows[i].kind /\ rows'[i].run = rows[i].run
           /\ rows'[i].follows = rows[i].follows /\ rows'[i].calls = rows[i].calls
           /\ Ids(rows'[i]) = Ids(rows[i]) /\ First(rows'[i]) = First(rows[i])
           /\ Calls(rows'[i]) <=> Calls(rows[i])
  BY OldCalls, SameCallsSame DEF SameCalls, Calls

LEMMA SameTurnCalls ==
  ASSUME Places, Shape, NEW s \in Streams, TurnCalls(s), SameTurn(s)
  PROVE  TurnCalls(s)'
<1>1. \A i \in 1..Len(rows') :
        /\ rows'[i].run = s => i \in 1..Len(rows)
        /\ i \in 1..Len(rows) =>
             /\ rows'[i].kind = rows[i].kind /\ rows'[i].run = rows[i].run
             /\ Ids(rows'[i]) = Ids(rows[i]) /\ First(rows'[i]) = First(rows[i])
             /\ Calls(rows'[i]) <=> Calls(rows[i])
  BY OldColumns DEF SameTurn
<1>2. turn[s].pc = "store" => Stores(s)'
  <2>1. SUFFICES ASSUME turn[s].pc = "store"
                 PROVE  Stores(s)'
    OBVIOUS
  <2>2. PICK iter, left : iter = turn[s].iter /\ left = turn[s].left
    OBVIOUS
  <2>3. StoresOf(rows, s, iter, left)
    BY <2>1, <2>2 DEF TurnCalls, Stores
  <2>4. \A i \in 1..Len(rows) : i \in 1..Len(rows')
    BY OldColumns
  <2>5. StoresOf(rows', s, iter, left)
    BY <1>1, <2>3, <2>4 DEF StoresOf
  <2>6. turn'[s].iter = iter /\ turn'[s].left = left
    BY <2>2 DEF SameTurn
  <2>7. QED
    BY <2>5, <2>6 DEF Stores
<1>3. QED
  BY <1>1, <1>2 DEF TurnCalls, SameTurn, Fresher, Asks, IsAction, First, Calls

\* A turn that has ended owes nothing.
LEMMA EndedCalls ==
  ASSUME NEW s, turn'[s].pc \in {"end", "done"}
  PROVE  TurnCalls(s)'
  BY DEF TurnCalls, Fresher, Asks

\* One that goes on without a call.
LEMMA PlainCalls ==
  ASSUME Places, Shape, NEW s \in Streams, TurnCalls(s),
         \A i \in 1..Len(rows') : i \notin 1..Len(rows) =>
           rows'[i].kind # "action" /\ ~Calls(rows'[i]),
         turn[s].pc \notin {"end", "done"},
         \/ Fresher(s) /\ turn'[s].pc \in {"begin", "register", "ask", "think"}
         \/ Asks(s) /\ turn'[s].pc \in {"compact", "flip", "call"} /\ turn'[s].iter = turn[s].iter
         \/ turn'[s].pc \in {"final", "stop"}
  PROVE  TurnCalls(s)'
<1>1. \A i \in 1..Len(rows') : i \in 1..Len(rows) =>
        /\ rows'[i].kind = rows[i].kind /\ rows'[i].run = rows[i].run
        /\ First(rows'[i]) = First(rows[i]) /\ (Calls(rows'[i]) <=> Calls(rows[i]))
  BY OldColumns
<1>2. \A i \in 1..Len(rows') : rows'[i].kind = "action" => rows'[i].run # s
  BY <1>1 DEF TurnCalls, IsAction
<1>3. CASE Fresher(s) /\ turn'[s].pc \in {"begin", "register", "ask", "think"}
  <2>1. \A i \in 1..Len(rows') : rows'[i].run = s => ~Calls(rows'[i])
    BY <1>1, <1>3 DEF TurnCalls
  <2>2. QED
    BY <1>2, <1>3, <2>1 DEF TurnCalls, Fresher, Asks, IsAction, First, Calls
<1>4. CASE Asks(s) /\ turn'[s].pc \in {"compact", "flip", "call"} /\ turn'[s].iter = turn[s].iter
  <2>1. \A i \in 1..Len(rows') : rows'[i].run = s /\ Calls(rows'[i]) => First(rows'[i])[2] < turn[s].iter
    BY <1>1, <1>4 DEF TurnCalls
  <2>2. QED
    BY <1>2, <1>4, <2>1 DEF TurnCalls, Fresher, Asks, IsAction, First, Calls
<1>5. CASE turn'[s].pc \in {"final", "stop"}
  BY <1>2, <1>5 DEF TurnCalls, Fresher, Asks, IsAction
<1>6. QED
  BY <1>3, <1>4, <1>5

-----------------------------------------------------------------------------
(* What the steps of a turn add *)

\* A call by its place in the ids.
LEMMA ResultIds ==
  ASSUME CallsAreKept, NEW i \in 1..Len(rows), IsResult(i)
  PROVE  /\ rows[i].run = None => First(rows[i])[3] = 0
         /\ rows[i].run # None => First(rows[i])[1] = rows[i].run /\ First(rows[i])[3] \in Nat \ {0}
<1>1. RowCalls(rows[i])
  BY DEF CallsAreKept
<1>2. CASE rows[i].run = None
  <2>1. PICK a : a = rows[rows[i].follows]
    OBVIOUS
  <2>2. a.kind = "action" /\ RowCalls(a) /\ rows[i].calls = a.calls
    BY <1>1, <1>2, <2>1 DEF RowCalls, IsResult, Confirms, CallsAreKept
  <2>3. First(a) = <<a.run, First(a)[2], 0>>
    BY <2>2 DEF RowCalls, PauseCall
  <2>4. First(rows[i]) = First(a)
    BY <2>2 DEF First
  <2>5. QED
    BY <1>2, <2>3, <2>4
<1>3. CASE rows[i].run # None
  <2>1. /\ First(rows[i]) = <<rows[i].run, First(rows[i])[2], First(rows[i])[3]>>
        /\ First(rows[i])[3] \in Nat \ {0}
    BY <1>1, <1>3 DEF RowCalls, IsResult, ResultCall
  <2>2. QED
    BY <1>3, <2>1
<1>4. QED
  BY <1>2, <1>3

LEMMA BatchIds ==
  ASSUME CallsAreKept, NEW b \in 1..Len(rows), IsBatch(b), NEW c \in Ids(rows[b])
  PROVE  c[1] = rows[b].run /\ c[2] = First(rows[b])[2] /\ c[3] \in DOMAIN rows[b].calls
<1>1. BatchCalls(rows[b])
  BY DEF CallsAreKept, RowCalls, IsBatch
<1>2. PICK k \in DOMAIN rows[b].calls : c = rows[b].calls[k]
  BY DEF Ids
<1>3. c = <<rows[b].run, First(rows[b])[2], k>>
  BY <1>1, <1>2 DEF BatchCalls
<1>4. QED
  BY <1>3

LEMMA FirstTyped ==
  ASSUME Places, CallsAreKept, NEW i \in 1..Len(rows), Calls(rows[i]), rows[i].run # None
  PROVE  First(rows[i])[2] \in Nat
<1>1. RowCalls(rows[i]) /\ rows[i].calls \in Seq(CallIds)
  BY StoredRows DEF CallsAreKept, Places, ConversationTypeOK, Row
<1>2. 1 \in DOMAIN rows[i].calls
  BY <1>1 DEF RowCalls, BatchCalls, ResultCall, Calls
<1>3. First(rows[i]) \in CallIds
  BY <1>1, <1>2, ElementOfSeq, LenProperties DEF First
<1>4. QED
  BY <1>3 DEF CallIds

\* A row that says nothing of calls fits anywhere.
LEMMA PlainFits ==
  ASSUME NEW r, r.kind \notin {"batch", "action", "result"}
  PROVE  Fits(r)
  BY DEF Fits, RowCalls

\* A write of a turn.
LEMMA TurnAdds ==
  ASSUME Places, NEW s \in Streams,
         NEW kind \in Kinds, NEW status \in Statuses, NEW calls \in Seq(CallIds),
         status = "pending" <=> kind = "action", status # "superseded",
         NEW next, WriteRow(s, Follow(s, kind, status, calls), next)
  PROVE  \/ UNCHANGED rows /\ turn'[s].pc = "end"
         \/ /\ Len(rows') = Len(rows) + 1
            /\ rows'[Len(rows) + 1].kind = kind /\ rows'[Len(rows) + 1].run = s
            /\ rows'[Len(rows) + 1].calls = calls
            /\ turn'[s] = next
<1>1. turn \in [Streams -> Turn] /\ ConversationTypeOK
  BY DEF Places, ConversationTypeOK
<1>2. CASE Writable(s, Follow(s, kind, status, calls).follows)
  <2>1. PICK r : r = Follow(s, kind, status, calls)
    OBVIOUS
  <2>2. TurnRow(s, r)
    BY <1>1, <2>1, FollowTyped
  <2>3. rows' = Insert(rows, r) /\ turn'[s] = next
    BY <1>1, <1>2, <2>1 DEF WriteRow
  <2>4. Grows(r)
    BY <1>1, <2>2, <2>3, OwnTurn, InsertGrows DEF TurnRow
  <2>5. r.kind = kind /\ r.run = s /\ r.calls = calls
    BY <2>1 DEF Follow, NewRow
  <2>6. QED
    BY <2>3, <2>4, <2>5 DEF Grows, SameRow
<1>3. CASE ~Writable(s, Follow(s, kind, status, calls).follows)
  BY <1>1, <1>3 DEF WriteRow, Goto, Turn
<1>4. QED
  BY <1>2, <1>3

\* What holds after a step of the turn itself.
GoesOnWith(s) ==
  TurnCalls(s)' /\ (Len(rows') = Len(rows) + 1 => Fits(rows'[Len(rows) + 1]))

LEMMA NoRowFits ==
  ASSUME Places, UNCHANGED rows
  PROVE  /\ Len(rows') # Len(rows) + 1
         /\ \A i \in 1..Len(rows') : i \in 1..Len(rows)
<1>1. Len(rows) \in Nat
  BY StoredRows DEF Places, ConversationTypeOK
<1>2. QED
  BY <1>1

LEMMA PausesCalls ==
  ASSUME Places, CallsAreKept, NEW s \in Streams, TurnCalls(s), Pause(s) \/ PauseAfterDenied(s)
  PROVE  GoesOnWith(s)
<1>1. PICK c : c = <<Call(s, 0)>>
  OBVIOUS
<1>2. c \in Seq(CallIds)
  BY <1>1, CallsTyped DEF Places
<1>3. WriteRow(s, Follow(s, "action", "pending", c), [turn[s] EXCEPT !.pc = "end"])
  BY <1>1 DEF Pause, PauseAfterDenied, PausedRow
<1>4. turn[s].pc \notin {"end", "done"}
  BY DEF Pause, PauseAfterDenied, Calling, BatchStored, At
<1>5. CASE UNCHANGED rows /\ turn'[s].pc = "end"
  BY <1>5, EndedCalls, NoRowFits DEF GoesOnWith
<1>6. CASE /\ Len(rows') = Len(rows) + 1
           /\ rows'[Len(rows) + 1].kind = "action" /\ rows'[Len(rows) + 1].run = s
           /\ rows'[Len(rows) + 1].calls = c
           /\ turn'[s] = [turn[s] EXCEPT !.pc = "end"]
  <2>1. turn'[s].pc = "end"
    BY <1>6, OwnTurn DEF Places, Turn
  <2>2. PICK r : r = rows'[Len(rows) + 1]
    OBVIOUS
  <2>3. r.kind = "action" /\ r.run = s /\ r.calls = c /\ s # None
    BY <1>6, <2>2, NameAssumption
  <2>4. PauseCall(r)
    BY <1>1, <2>3 DEF PauseCall, First, Call
  <2>5. \A i \in 1..Len(rows) : IsAction(i) => rows[i].run # r.run
    BY <1>4, <2>3 DEF TurnCalls
  <2>6. Fits(r)
    BY <2>3, <2>4, <2>5 DEF Fits, RowCalls
  <2>7. QED
    BY <2>1, <2>2, <2>6, EndedCalls DEF GoesOnWith
<1>7. QED
  BY <1>2, <1>3, <1>5, <1>6, TurnAdds, Names

LEMMA CallToolsCalls ==
  ASSUME Places, Shape, CallsAreKept, NEW s \in Streams, TurnCalls(s), CallTools(s)
  PROVE  GoesOnWith(s)
<1>1. PICK n, c :
        /\ n \in 1..MaxBatch
        /\ c = [k \in 1..n |-> Call(s, k)]
        /\ WriteRow(s, Follow(s, "batch", "sent", c),
                    [turn[s] EXCEPT !.pc = "store", !.last = Written, !.left = c])
  BY DEF CallTools
<1>2. n \in Nat /\ n >= 1
  BY <1>1, IterationAssumption
<1>3. c \in Seq(CallIds) /\ DOMAIN c = 1..n /\ 1 \in DOMAIN c
  BY <1>1, <1>2, CallsTyped DEF Places
<1>4. PICK iter : iter = turn[s].iter
  OBVIOUS
<1>5. \A k \in 1..n : c[k] = <<s, iter, k>>
  BY <1>1, <1>4 DEF Call
<1>6. /\ \A i \in 1..Len(rows) : rows[i].run = s /\ Calls(rows[i]) => First(rows[i])[2] < iter
      /\ \A i \in 1..Len(rows) : IsAction(i) => rows[i].run # s
      /\ iter \in Nat /\ Len(rows) \in Nat
  BY <1>4, OwnTurn DEF CallTools, Calling, TurnCalls, Asks, Places
<1>7. CASE UNCHANGED rows /\ turn'[s].pc = "end"
  BY <1>7, EndedCalls, NoRowFits DEF GoesOnWith
<1>8. CASE /\ Len(rows') = Len(rows) + 1
           /\ rows'[Len(rows) + 1].kind = "batch" /\ rows'[Len(rows) + 1].run = s
           /\ rows'[Len(rows) + 1].calls = c
           /\ turn'[s] = [turn[s] EXCEPT !.pc = "store", !.last = Written, !.left = c]
  <2>1. turn'[s].pc = "store" /\ turn'[s].left = c /\ turn'[s].iter = iter
    BY <1>4, <1>8, OwnTurn DEF Places, Turn
  <2>2. PICK r, m : r = rows'[Len(rows) + 1] /\ m = Len(rows) + 1
    OBVIOUS
  <2>3. r.kind = "batch" /\ r.run = s /\ r.calls = c /\ s # None
    BY <1>8, <2>2, NameAssumption
  <2>4. First(r) = <<s, iter, 1>>
    BY <1>2, <1>5, <2>3 DEF First
  <2>5. BatchCalls(r)
    BY <1>3, <1>5, <2>3, <2>4 DEF BatchCalls
  <2>6. \A i \in 1..Len(rows) : IsResult(i) => \A k \in 1..n : First(rows[i]) # c[k]
    <3>1. ASSUME NEW i \in 1..Len(rows), IsResult(i), NEW k \in 1..n, First(rows[i]) = <<s, iter, k>>
          PROVE  FALSE
      <4>1. rows[i].run # None
        BY <1>2, <3>1, ResultIds
      <4>2. rows[i].run = s
        BY <3>1, <4>1, ResultIds
      <4>3. First(rows[i])[2] < iter
        BY <1>6, <3>1, <4>2 DEF Calls, IsResult
      <4>4. QED
        BY <1>6, <3>1, <4>3
    <3>2. QED
      BY <1>5, <3>1
  <2>7. Fits(r)
    BY <1>3, <2>3, <2>5, <2>6 DEF Fits, RowCalls, Ids
  <2>8. \A i \in 1..Len(rows') :
          \/ i = m /\ rows'[i] = r
          \/ /\ i \in 1..Len(rows) /\ i < m
             /\ rows'[i].kind = rows[i].kind /\ rows'[i].run = rows[i].run
             /\ First(rows'[i]) = First(rows[i]) /\ (Calls(rows'[i]) <=> Calls(rows[i]))
    BY <1>6, <1>8, <2>2, OldColumns
  <2>9. /\ \A k \in 1..n : c[k] = <<s, iter, c[k][3]>> /\ c[k][3] \in Nat \ {0}
        /\ \A k, l \in 1..n : c[k] = c[l] => k = l
    BY <1>5
  <2>10. \A i \in 1..Len(rows') : rows'[i].run = s /\ Calls(rows'[i]) =>
           \/ i = m /\ First(rows'[i])[2] = iter
           \/ i \in 1..Len(rows) /\ First(rows'[i])[2] < iter
    BY <1>6, <2>4, <2>8
  <2>11. \A i \in 1..Len(rows') : rows'[i].run = s /\ rows'[i].kind = "result" =>
           \A k \in 1..n : First(rows'[i]) # c[k]
    BY <2>3, <2>6, <2>8 DEF IsResult
  <2>12. Ids(r) = {c[k] : k \in 1..n}
    BY <1>3, <2>3 DEF Ids
  <2>13. ASSUME NEW b \in 1..Len(rows'), rows'[b].run = s, rows'[b].kind = "batch",
                First(rows'[b])[2] = iter
         PROVE  /\ \A k \in 1..n : c[k] \in Ids(rows'[b])
                /\ \A j \in 1..Len(rows') : ~(b < j)
    <3>1. b = m
      BY <1>6, <2>10, <2>13 DEF Calls
    <3>2. QED
      BY <1>6, <1>8, <2>2, <2>12, <3>1
  <2>14. StoresOf(rows', s, iter, c)
    <3>1. \A i \in 1..Len(rows') : rows'[i].run = s /\ Calls(rows'[i]) => First(rows'[i])[2] <= iter
      <4>1. ASSUME NEW i \in 1..Len(rows'), rows'[i].run = s, Calls(rows'[i]),
                   i \in 1..Len(rows), First(rows'[i])[2] < iter
            PROVE  First(rows'[i])[2] <= iter
        <5>1. rows[i].run = s /\ Calls(rows[i]) /\ First(rows[i]) = First(rows'[i])
          BY <4>1, OldColumns
        <5>2. First(rows'[i])[2] \in Nat
          BY <4>1, <5>1, FirstTyped, NameAssumption
        <5>3. QED
          BY <1>6, <4>1, <5>2
      <4>2. QED
        BY <1>6, <2>10, <4>1
    <3>2. QED
      BY <1>3, <2>9, <2>11, <2>13, <3>1 DEF StoresOf
  <2>15. \A i \in 1..Len(rows') : rows'[i].kind = "action" => rows'[i].run # s
    BY <1>6, <2>3, <2>8 DEF IsAction
  <2>16. TurnCalls(s)'
    BY <2>1, <2>14, <2>15 DEF TurnCalls, Stores, Fresher, Asks, IsAction
  <2>17. QED
    BY <2>2, <2>7, <2>16 DEF GoesOnWith
<1>9. QED
  BY <1>1, <1>3, <1>7, <1>8, TurnAdds, Names

LEMMA DenyThenPauseCalls ==
  ASSUME Places, CallsAreKept, NEW s \in Streams, TurnCalls(s), DenyThenPause(s)
  PROVE  GoesOnWith(s)
<1>1. PICK iter, c : iter = turn[s].iter /\ c = <<Call(s, 1)>>
  OBVIOUS
<1>2. turn' = [turn EXCEPT ![s].pc = "store", ![s].left = c, ![s].pause = TRUE]
  BY <1>1 DEF DenyThenPause
<1>3. turn'[s].pc = "store" /\ turn'[s].left = c /\ turn'[s].iter = iter /\ iter \in Nat
  BY <1>1, <1>2, OwnTurn DEF Places, ConversationTypeOK, Turn
<1>4. /\ \A i \in 1..Len(rows) : rows[i].run = s /\ Calls(rows[i]) => First(rows[i])[2] < iter
      /\ \A i \in 1..Len(rows) : IsAction(i) => rows[i].run # s
      /\ UNCHANGED rows
  BY <1>1 DEF DenyThenPause, Calling, TurnCalls, Asks
<1>5. DOMAIN c = {1} /\ c[1] = <<s, iter, 1>>
  BY <1>1 DEF Call
<1>6. \A i \in 1..Len(rows) : rows[i].run = s /\ Calls(rows[i]) =>
        First(rows[i])[2] <= iter /\ First(rows[i])[2] # iter
  <2>1. ASSUME NEW i \in 1..Len(rows), rows[i].run = s, Calls(rows[i])
        PROVE  First(rows[i])[2] <= iter /\ First(rows[i])[2] # iter
    <3>1. First(rows[i])[2] < iter /\ First(rows[i])[2] \in Nat
      BY <1>4, <2>1, FirstTyped, NameAssumption
    <3>2. QED
      BY <1>3, <3>1
  <2>2. QED
    BY <2>1
<1>7. \A i \in 1..Len(rows) : rows[i].run = s /\ rows[i].kind = "result" => First(rows[i]) # c[1]
  BY <1>5, <1>6 DEF Calls
<1>8. StoresOf(rows, s, iter, c)
  BY <1>5, <1>6, <1>7 DEF StoresOf, Calls
<1>9. TurnCalls(s)'
  BY <1>3, <1>4, <1>8 DEF TurnCalls, Stores, Fresher, Asks, IsAction
<1>10. QED
  BY <1>4, <1>9, NoRowFits DEF GoesOnWith

LEMMA NextIterationCalls ==
  ASSUME Places, CallsAreKept, NEW s \in Streams, TurnCalls(s), NextIteration(s)
  PROVE  GoesOnWith(s)
<1>1. /\ turn[s].pc = "store" /\ UNCHANGED rows
      /\ \/ \E pc \in {"end", "final"} : turn' = [turn EXCEPT ![s].pc = pc]
         \/ turn' = [turn EXCEPT ![s].pc = "think", ![s].iter = @ + 1]
  BY DEF NextIteration, BatchStored, At, Goto
<1>2. PICK iter : iter = turn[s].iter
  OBVIOUS
<1>3. iter \in Nat /\ turn \in [Streams -> Turn] /\ turn[s] \in Turn
  BY <1>2, OwnTurn DEF Places, ConversationTypeOK
<1>4. /\ \A i \in 1..Len(rows) : rows[i].run = s /\ Calls(rows[i]) => First(rows[i])[2] <= iter
      /\ \A i \in 1..Len(rows) : IsAction(i) => rows[i].run # s
  BY <1>1, <1>2 DEF TurnCalls, Stores, StoresOf
<1>5. CASE turn'[s].pc \in {"end", "final"}
  BY <1>1, <1>4, <1>5, NoRowFits DEF GoesOnWith, TurnCalls, Fresher, Asks, IsAction
<1>6. CASE turn'[s].pc = "think" /\ turn'[s].iter = iter + 1
  <2>1. \A i \in 1..Len(rows) : rows[i].run = s /\ Calls(rows[i]) => First(rows[i])[2] < iter + 1
    <3>1. ASSUME NEW i \in 1..Len(rows), rows[i].run = s, Calls(rows[i])
          PROVE  First(rows[i])[2] < iter + 1
      <4>1. First(rows[i])[2] <= iter /\ First(rows[i])[2] \in Nat
        BY <1>4, <3>1, FirstTyped, NameAssumption
      <4>2. QED
        BY <1>3, <4>1
    <3>2. QED
      BY <3>1
  <2>2. TurnCalls(s)'
    BY <1>1, <1>4, <1>6, <2>1 DEF TurnCalls, Fresher, Asks, IsAction, Calls, First
  <2>3. QED
    BY <1>1, <2>2, NoRowFits DEF GoesOnWith
<1>7. QED
  BY <1>1, <1>2, <1>3, <1>5, <1>6 DEF Turn

\* The calls that are left when the first one is done.
LEMMA TailCalls ==
  ASSUME NEW left \in Seq(CallIds), left # <<>>
  PROVE  /\ Tail(left) \in Seq(CallIds) /\ Head(left) = left[1] /\ 1 \in DOMAIN left
         /\ left[1] \in CallIds
         /\ \A k \in DOMAIN Tail(left) :
              k \in Nat \ {0} /\ k + 1 \in DOMAIN left /\ Tail(left)[k] = left[k + 1]
<1>1. /\ Tail(left) \in Seq(CallIds) /\ Head(left) = left[1] /\ Len(left) \in Nat \ {0}
      /\ Len(Tail(left)) = Len(left) - 1
      /\ DOMAIN left = 1..Len(left) /\ DOMAIN Tail(left) = 1..Len(Tail(left))
  BY HeadTailProperties, LenProperties, EmptySeq
<1>2. \A k \in 1..Len(Tail(left)) : Tail(left)[k] = left[k + 1]
  BY <1>1
<1>3. left[1] \in CallIds
  BY <1>1, ElementOfSeq
<1>4. QED
  BY <1>1, <1>2, <1>3

LEMMA StoreResultCalls ==
  ASSUME Places, Shape, CallsAreKept, NEW s \in Streams, TurnCalls(s), StoreResult(s)
  PROVE  GoesOnWith(s)
<1>1. PICK iter, left : iter = turn[s].iter /\ left = turn[s].left
  OBVIOUS
<1>2. /\ turn[s].pc = "store" /\ left # <<>> /\ left \in Seq(CallIds) /\ iter \in Nat
      /\ Len(rows) \in Nat /\ turn \in [Streams -> Turn] /\ turn[s] \in Turn
  BY <1>1, OwnTurn DEF StoreResult, At, Places, ConversationTypeOK
<1>3. PICK c, rest : c = left[1] /\ rest = Tail(left)
  OBVIOUS
<1>4. /\ rest \in Seq(CallIds) /\ Head(left) = c /\ 1 \in DOMAIN left /\ c \in CallIds
      /\ \A k \in DOMAIN rest : k \in Nat \ {0} /\ k + 1 \in DOMAIN left /\ rest[k] = left[k + 1]
  BY <1>2, <1>3, TailCalls
<1>5. /\ StoresOf(rows, s, iter, left)
      /\ \A i \in 1..Len(rows) : IsAction(i) => rows[i].run # s
  BY <1>1, <1>2 DEF TurnCalls, Stores
<1>6. /\ \A k \in DOMAIN left : left[k] = <<s, iter, left[k][3]>> /\ left[k][3] \in Nat \ {0}
      /\ \A k, m \in DOMAIN left : left[k] = left[m] => k = m
      /\ \A i \in 1..Len(rows) : rows[i].run = s /\ Calls(rows[i]) => First(rows[i])[2] <= iter
      /\ \A i \in 1..Len(rows) : rows[i].run = s /\ rows[i].kind = "result" =>
           \A k \in DOMAIN left : First(rows[i]) # left[k]
      /\ \A b \in 1..Len(rows) : rows[b].run = s /\ rows[b].kind = "batch" /\ First(rows[b])[2] = iter =>
           /\ \A k \in DOMAIN left : left[k] \in Ids(rows[b])
           /\ \A j \in 1..Len(rows) : b < j /\ rows[j].run = s =>
                rows[j].kind = "result" /\ First(rows[j]) \in Ids(rows[b])
  BY <1>5 DEF StoresOf
<1>7. /\ \A k \in DOMAIN rest : rest[k] = <<s, iter, rest[k][3]>> /\ rest[k][3] \in Nat \ {0}
      /\ \A k \in DOMAIN rest : rest[k] # c
      /\ \A k, m \in DOMAIN rest : rest[k] = rest[m] => k = m
  <2>1. \A k \in DOMAIN rest : rest[k] = <<s, iter, rest[k][3]>> /\ rest[k][3] \in Nat \ {0}
    BY <1>4, <1>6
  <2>2. ASSUME NEW k \in DOMAIN rest
        PROVE  rest[k] # c
    <3>1. k + 1 \in DOMAIN left /\ k + 1 # 1 /\ rest[k] = left[k + 1]
      BY <1>4
    <3>2. QED
      BY <1>3, <1>4, <1>6, <3>1
  <2>3. ASSUME NEW k \in DOMAIN rest, NEW m \in DOMAIN rest, rest[k] = rest[m]
        PROVE  k = m
    <3>1. /\ k + 1 \in DOMAIN left /\ rest[k] = left[k + 1] /\ k \in Nat
          /\ m + 1 \in DOMAIN left /\ rest[m] = left[m + 1] /\ m \in Nat
      BY <1>4
    <3>2. k + 1 = m + 1
      BY <1>6, <2>3, <3>1
    <3>3. QED
      BY <3>1, <3>2
  <2>4. QED
    BY <2>1, <2>2, <2>3
<1>8. \A k \in DOMAIN rest : \E m \in DOMAIN left : rest[k] = left[m]
  BY <1>4
<1>9. CASE UNCHANGED rows /\ turn'[s].pc = "store" /\ turn'[s].left = rest /\ turn'[s].iter = iter
  <2>1. StoresOf(rows, s, iter, rest)
    BY <1>6, <1>7, <1>8 DEF StoresOf
  <2>2. TurnCalls(s)'
    BY <1>5, <1>9, <2>1 DEF TurnCalls, Stores, Fresher, Asks, IsAction
  <2>3. QED
    BY <1>9, <2>2, NoRowFits DEF GoesOnWith
<1>10. CASE /\ Len(rows') = Len(rows) + 1
            /\ rows'[Len(rows) + 1].kind = "result" /\ rows'[Len(rows) + 1].run = s
            /\ rows'[Len(rows) + 1].calls = <<c>>
            /\ turn'[s].pc = "store" /\ turn'[s].left = rest /\ turn'[s].iter = iter
  <2>1. PICK r, m : r = rows'[Len(rows) + 1] /\ m = Len(rows) + 1
    OBVIOUS
  <2>2. r.kind = "result" /\ r.run = s /\ r.calls = <<c>> /\ First(r) = c /\ s # None
    BY <1>10, <2>1, NameAssumption DEF First
  <2>3. c = <<s, iter, c[3]>> /\ c[3] \in Nat \ {0}
    BY <1>3, <1>4, <1>6
  <2>4. ResultCall(r)
    BY <2>2, <2>3 DEF ResultCall
  <2>5. \A k \in 1..Len(rows) : IsResult(k) => First(rows[k]) # c
    <3>1. ASSUME NEW k \in 1..Len(rows), IsResult(k), First(rows[k]) = c
          PROVE  FALSE
      <4>1. rows[k].run # None
        BY <2>3, <3>1, ResultIds
      <4>2. rows[k].run = s
        BY <2>3, <3>1, <4>1, ResultIds
      <4>3. QED
        BY <1>3, <1>4, <1>6, <3>1, <4>2 DEF IsResult
    <3>2. QED
      BY <3>1
  <2>6. \A b \in 1..Len(rows) : IsBatch(b) /\ c \in Ids(rows[b]) =>
          /\ rows[b].run = s /\ First(rows[b])[2] = iter
          /\ \A j \in 1..Len(rows) : b < j /\ rows[j].run = s =>
               IsResult(j) /\ First(rows[j]) \in Ids(rows[b])
    <3>1. ASSUME NEW b \in 1..Len(rows), IsBatch(b), c \in Ids(rows[b])
          PROVE  rows[b].run = s /\ First(rows[b])[2] = iter
      BY <2>3, <3>1, BatchIds
    <3>2. QED
      BY <1>6, <3>1 DEF IsBatch, IsResult
  <2>7. Fits(r)
    <3>1. \A k \in 1..Len(rows) : IsResult(k) => rows[k].calls # r.calls
      BY <2>2, <2>5 DEF First
    <3>2. QED
      BY <2>2, <2>4, <2>6, <3>1 DEF Fits, RowCalls
  <2>8. \A i \in 1..Len(rows') :
          \/ i = m /\ rows'[i] = r
          \/ /\ i \in 1..Len(rows) /\ i < m
             /\ rows'[i].kind = rows[i].kind /\ rows'[i].run = rows[i].run
             /\ Ids(rows'[i]) = Ids(rows[i])
             /\ First(rows'[i]) = First(rows[i]) /\ (Calls(rows'[i]) <=> Calls(rows[i]))
    BY <1>2, <1>10, <2>1, OldColumns
  <2>9. \A i \in 1..Len(rows') : rows'[i].run = s /\ Calls(rows'[i]) => First(rows'[i])[2] <= iter
    <3>1. c[2] = iter /\ iter <= iter
      BY <1>2, <2>3
    <3>2. QED
      BY <1>6, <2>2, <2>8, <3>1
  <2>10. \A i \in 1..Len(rows') : rows'[i].run = s /\ rows'[i].kind = "result" =>
           \A k \in DOMAIN rest : First(rows'[i]) # rest[k]
    BY <1>6, <1>7, <1>8, <2>2, <2>8
  <2>11. ASSUME NEW b \in 1..Len(rows'), rows'[b].run = s, rows'[b].kind = "batch",
                First(rows'[b])[2] = iter
         PROVE  /\ \A k \in DOMAIN rest : rest[k] \in Ids(rows'[b])
                /\ \A j \in 1..Len(rows') : b < j /\ rows'[j].run = s =>
                     rows'[j].kind = "result" /\ First(rows'[j]) \in Ids(rows'[b])
    <3>1. /\ b \in 1..Len(rows) /\ rows[b].kind = "batch" /\ rows[b].run = s
          /\ First(rows[b])[2] = iter /\ Ids(rows'[b]) = Ids(rows[b])
      BY <2>2, <2>8, <2>11
    <3>2. /\ \A k \in DOMAIN left : left[k] \in Ids(rows[b])
          /\ \A j \in 1..Len(rows) : b < j /\ rows[j].run = s =>
               rows[j].kind = "result" /\ First(rows[j]) \in Ids(rows[b])
      BY <1>6, <3>1
    <3>3. c \in Ids(rows[b])
      BY <1>3, <1>4, <3>2
    <3>4. QED
      BY <1>8, <2>2, <2>8, <3>1, <3>2, <3>3
  <2>12. StoresOf(rows', s, iter, rest)
    BY <1>7, <2>9, <2>10, <2>11 DEF StoresOf
  <2>13. \A i \in 1..Len(rows') : rows'[i].kind = "action" => rows'[i].run # s
    BY <1>5, <2>2, <2>8 DEF IsAction
  <2>14. TurnCalls(s)'
    BY <1>10, <2>12, <2>13 DEF TurnCalls, Stores, Fresher, Asks, IsAction
  <2>15. QED
    BY <2>1, <2>7, <2>14 DEF GoesOnWith
<1>11. PICK u : u = [turn[s] EXCEPT !.left = rest]
  OBVIOUS
<1>12. u \in Turn /\ u.pc = "store" /\ u.left = rest /\ u.iter = iter
  BY <1>1, <1>2, <1>4, <1>11 DEF Turn
<1>13. CASE turn' = [turn EXCEPT ![s] = [u EXCEPT !.refused = TRUE]] /\ UNCHANGED rows
  BY <1>2, <1>9, <1>12, <1>13 DEF Turn
<1>14. CASE /\ rows' = Insert(rows, Follow(s, "result", "sent", <<c>>))
            /\ turn' = [turn EXCEPT ![s] = [u EXCEPT !.last = Written]]
  <2>1. PICK r : r = Follow(s, "result", "sent", <<c>>)
    OBVIOUS
  <2>2. <<c>> \in Seq(CallIds) /\ ConversationTypeOK
    BY <1>4 DEF Places
  <2>3. TurnRow(s, r)
    BY <2>1, <2>2, FollowTyped, Names
  <2>4. Grows(r)
    BY <1>14, <2>1, <2>2, <2>3, OwnTurn, InsertGrows DEF TurnRow
  <2>5. r.kind = "result" /\ r.run = s /\ r.calls = <<c>>
    BY <2>1 DEF Follow, NewRow
  <2>6. turn'[s].pc = "store" /\ turn'[s].left = rest /\ turn'[s].iter = iter
    BY <1>2, <1>12, <1>14 DEF Turn
  <2>7. QED
    BY <1>10, <2>4, <2>5, <2>6 DEF Grows, SameRow
<1>15. QED
  BY <1>1, <1>3, <1>4, <1>11, <1>13, <1>14 DEF StoreResult

\* A step of a turn that adds nothing, or a row without calls.
LEMMA PlainGoesOn ==
  ASSUME Places, Shape, NEW s \in Streams, TurnCalls(s), turn[s].pc \notin {"end", "done"},
         \/ Len(rows') = Len(rows)
         \/ /\ Len(rows') = Len(rows) + 1
            /\ rows'[Len(rows) + 1].kind \in {"question", "answer", "summary"},
         \/ turn'[s].pc \in {"end", "done"}
         \/ Fresher(s) /\ turn'[s].pc \in {"begin", "register", "ask", "think"}
         \/ Asks(s) /\ turn'[s].pc \in {"compact", "flip", "call"} /\ turn'[s].iter = turn[s].iter
         \/ turn'[s].pc \in {"final", "stop"}
  PROVE  GoesOnWith(s)
<1>1. /\ Len(rows) \in Nat
      /\ \A i \in 1..Len(rows') : i \notin 1..Len(rows) => i = Len(rows) + 1 /\ Len(rows') = Len(rows) + 1
  BY OldCalls
<1>2. \A i \in 1..Len(rows') : i \notin 1..Len(rows) => rows'[i].kind # "action" /\ ~Calls(rows'[i])
  BY <1>1 DEF Calls
<1>3. Len(rows') = Len(rows) + 1 => Fits(rows'[Len(rows) + 1])
  BY <1>1, PlainFits
<1>4. QED
  BY <1>2, <1>3, EndedCalls, PlainCalls DEF GoesOnWith

LEMMA StoreQuestionCalls ==
  ASSUME Places, Shape, NEW s \in Streams, TurnCalls(s), StoreQuestion(s)
  PROVE  GoesOnWith(s)
<1>1. turn[s].pc = "ask" /\ turn \in [Streams -> Turn] /\ turn[s] \in Turn
  BY DEF StoreQuestion, At, Places, ConversationTypeOK
<1>2. PICK r, next : /\ r = NewRow("question", "sent", s, 0, turn[s].text, <<>>)
                     /\ next = [turn[s] EXCEPT !.pc = "think", !.iter = 1, !.last = Written]
                     /\ WriteRow(s, r, next)
  BY DEF StoreQuestion
<1>3. next.pc = "think"
  BY <1>1, <1>2 DEF Turn
<1>4. CASE UNCHANGED rows /\ turn' = [turn EXCEPT ![s].pc = "end"]
  <2>1. turn'[s].pc = "end" /\ Len(rows') = Len(rows)
    BY <1>1, <1>4 DEF Turn
  <2>2. QED
    BY <1>1, <2>1, PlainGoesOn
<1>5. CASE rows' = Insert(rows, r) /\ turn' = [turn EXCEPT ![s] = next]
  <2>1. turn[s].text \in Texts \cup {None}
    BY OwnTurn DEF Places
  <2>2. r \in Row /\ r.kind = "question"
    BY <1>2, <2>1, Names DEF NewRow, Row
  <2>3. Grows(r)
    BY <1>5, <2>2, InsertGrows DEF Places, ConversationTypeOK
  <2>4. Len(rows') = Len(rows) + 1 /\ rows'[Len(rows) + 1].kind = "question"
    BY <2>2, <2>3 DEF Grows, SameRow
  <2>5. turn'[s].pc = "think" /\ Fresher(s)
    BY <1>1, <1>3, <1>5 DEF Fresher
  <2>6. QED
    BY <1>1, <2>4, <2>5, PlainGoesOn
<1>6. QED
  BY <1>2, <1>4, <1>5 DEF WriteRow, Goto

LEMMA PlainRowCalls ==
  ASSUME Places, Shape, NEW s \in Streams, TurnCalls(s), turn[s].pc \notin {"end", "done"},
         NEW kind \in {"answer", "summary"}, NEW status \in {"sent", "failed", "streaming"}, NEW next,
         WriteRow(s, Follow(s, kind, status, <<>>), next),
         \/ next.pc \in {"end", "stop"}
         \/ Asks(s) /\ next.pc = "flip" /\ next.iter = turn[s].iter
  PROVE  GoesOnWith(s)
<1>1. \/ UNCHANGED rows /\ turn'[s].pc = "end"
      \/ /\ Len(rows') = Len(rows) + 1
         /\ rows'[Len(rows) + 1].kind = kind
         /\ turn'[s] = next
  <2>1. /\ kind \in Kinds /\ status \in Statuses /\ <<>> \in Seq(CallIds)
        /\ (status = "pending" <=> kind = "action") /\ status # "superseded"
    BY Names
  <2>2. QED
    BY <2>1, TurnAdds
<1>2. QED
  BY <1>1, PlainGoesOn

LEMMA SummariseCalls ==
  ASSUME Places, Shape, NEW s \in Streams, TurnCalls(s), Summarise(s)
  PROVE  GoesOnWith(s)
<1>1. turn[s].pc = "compact" /\ turn[s] \in Turn
  BY DEF Summarise, At, Places, ConversationTypeOK
<1>2. PICK next : /\ next = [turn[s] EXCEPT !.pc = "flip", !.last = Written]
                  /\ WriteRow(s, Follow(s, "summary", "sent", <<>>), next)
  BY DEF Summarise
<1>3. next.pc = "flip" /\ next.iter = turn[s].iter
  BY <1>1, <1>2 DEF Turn
<1>4. QED
  BY <1>1, <1>2, <1>3, PlainRowCalls DEF Asks

LEMMA AnswersCalls ==
  ASSUME Places, Shape, NEW s \in Streams, TurnCalls(s), Answer(s) \/ Fails(s)
  PROVE  GoesOnWith(s)
<1>1. turn[s].pc \in {"think", "call", "final"} /\ turn[s] \in Turn
  BY DEF Answer, Fails, Calling, At, Places, ConversationTypeOK
<1>2. PICK status, next :
        /\ status \in {"sent", "failed", "streaming"}
        /\ \/ next = [turn[s] EXCEPT !.pc = "end"]
           \/ next = [turn[s] EXCEPT !.pc = "stop", !.last = Written]
        /\ WriteRow(s, Follow(s, "answer", status, <<>>), next)
  BY DEF Answer, Fails
<1>3. next.pc \in {"end", "stop"}
  BY <1>1, <1>2 DEF Turn
<1>4. QED
  BY <1>1, <1>2, <1>3, PlainRowCalls

\* The steps that add nothing.
LEMMA QuietCalls ==
  ASSUME Places, Shape, NEW s \in Streams, TurnCalls(s),
         \/ BeginRun(s) \/ NoRun(s) \/ Register(s) \/ StartCompaction(s) \/ SummaryFails(s)
         \/ HideOldRows(s) \/ MarkStopped(s) \/ Finish(s) \/ OpenStream(s)
  PROVE  GoesOnWith(s)
<1>1. turn \in [Streams -> Turn] /\ turn[s] \in Turn /\ rows \in Seq(Row) /\ ConversationTypeOK
  BY DEF Places, ConversationTypeOK
<1>2. Len(rows') = Len(rows)
  <2>1. CASE HideOldRows(s)
    BY <1>1, <2>1, HideKeeps DEF HideOldRows
  <2>2. CASE MarkStopped(s)
    BY <1>1, <2>2, MarkStoppedWrites, WritesTyped
  <2>3. CASE ~HideOldRows(s) /\ ~MarkStopped(s)
    <3>1. UNCHANGED rows
      BY <2>3 DEF BeginRun, NoRun, Register, StartCompaction, SummaryFails, Finish, OpenStream
    <3>2. QED
      BY <3>1
  <2>4. QED
    BY <2>1, <2>2, <2>3
<1>3. CASE BeginRun(s)
  <2>1. turn[s].pc = "begin" /\ turn'[s].pc = "register"
    BY <1>1, <1>3 DEF BeginRun, At, Goto, Turn
  <2>2. QED
    BY <1>2, <2>1, PlainGoesOn DEF Fresher
<1>4. CASE NoRun(s) \/ Finish(s)
  <2>1. turn'[s].pc = "done"
    BY <1>1, <1>4, EndedTyped DEF NoRun, Finish
  <2>2. Len(rows') # Len(rows) + 1
    BY <1>2, OwnTurn DEF Places
  <2>3. QED
    BY <2>1, <2>2, EndedCalls DEF GoesOnWith
<1>5. CASE Register(s)
  <2>1. turn[s].pc = "register" /\ turn'[s].pc \in {"think", "ask"}
    BY <1>1, <1>5, RegisterSets DEF Register, At
  <2>2. QED
    BY <1>2, <2>1, PlainGoesOn DEF Fresher
<1>6. CASE StartCompaction(s) \/ SummaryFails(s) \/ HideOldRows(s)
  <2>1. turn[s].pc \in {"think", "compact", "flip"} /\ turn'[s].pc \in {"compact", "call"} /\ turn'[s].iter = turn[s].iter
    BY <1>1, <1>6 DEF StartCompaction, SummaryFails, HideOldRows, At, Turn
  <2>2. QED
    BY <1>2, <2>1, PlainGoesOn DEF Asks
<1>7. CASE MarkStopped(s)
  <2>1. turn[s].pc = "stop" /\ turn'[s].pc = "end"
    BY <1>1, <1>7 DEF MarkStopped, At, Goto, Turn
  <2>2. QED
    BY <1>2, <2>1, PlainGoesOn
<1>8. CASE OpenStream(s)
  <2>1. turn[s].pc = "idle" /\ turn'[s].pc = "begin"
    BY <1>1, <1>8 DEF OpenStream, At, Turn
  <2>2. QED
    BY <1>2, <2>1, PlainGoesOn DEF Fresher
<1>9. QED
  BY <1>3, <1>4, <1>5, <1>6, <1>7, <1>8

LEMMA TurnStepCalls ==
  ASSUME Places, CallsAreKept, [Next]_vars, NEW s \in Streams, TurnCalls(s), TurnStep(s)
  PROVE  GoesOnWith(s)
  BY StepShape, QuietCalls, StoreQuestionCalls, SummariseCalls, AnswersCalls, CallToolsCalls, PausesCalls,
     DenyThenPauseCalls, StoreResultCalls, NextIterationCalls DEF TurnStep

\* What a turn adds is its own, and the other turns stay where they are.
LEMMA OwnRows ==
  ASSUME Places, NEW s \in Streams, TurnStep(s) \/ OpenStream(s) \/ Close(s)
  PROVE  \A i \in 1..Len(rows') : i \notin 1..Len(rows) => i = Len(rows) + 1 /\ rows'[i].run = s
<1>1. Len(rows) \in Nat /\ ConversationTypeOK
  BY OwnTurn DEF Places
<1>2. CASE Len(rows') = Len(rows)
  BY <1>2
<1>3. CASE TurnWorks(s)
  <2>1. CASE \E r : TurnRow(s, r) /\ Grows(r)
    <3>1. Len(rows') = Len(rows) + 1 /\ rows'[Len(rows) + 1].run = s
      BY <2>1 DEF TurnRow, Grows, SameRow
    <3>2. QED
      BY <1>1, <3>1
  <2>2. QED
    BY <1>2, <1>3, <2>1 DEF TurnWorks, Quiet
<1>4. CASE MarkStopped(s)
  <2>1. Len(rows') = Len(rows)
    BY <1>1, <1>4, MarkStoppedWrites, WritesTyped DEF ConversationTypeOK
  <2>2. QED
    BY <1>2, <2>1
<1>5. CASE BeginRun(s) \/ NoRun(s) \/ Register(s) \/ Finish(s) \/ OpenStream(s) \/ Close(s)
  <2>1. UNCHANGED rows
    BY <1>5 DEF BeginRun, NoRun, Register, Finish, OpenStream, Close
  <2>2. QED
    BY <1>2, <2>1
<1>6. QED
  BY <1>1, <1>3, <1>4, <1>5, TurnStepWorks

LEMMA OtherTurns ==
  ASSUME Places, NEW s \in Streams, TurnStep(s) \/ OpenStream(s) \/ Close(s),
         NEW p \in Streams \ {s}
  PROVE  SameTurn(p)
<1>1. turn \in [Streams -> Turn] /\ ConversationTypeOK /\ registry \in Streams \cup {None}
  BY DEF Places, ConversationTypeOK
<1>2. CASE \E t : turn' = [turn EXCEPT ![s] = t]
  BY <1>1, <1>2, OwnRows DEF SameTurn
<1>3. CASE Register(s) \/ Close(s)
  <2>1. turn'[p].pc = turn[p].pc /\ turn'[p].iter = turn[p].iter /\ turn'[p].left = turn[p].left
    <3>1. CASE Register(s)
      <4>1. turn'[p] = Abort(turn, registry)[p]
        BY <1>1, <3>1, RegisterSets
      <4>2. QED
        BY <1>1, <4>1, AbortMarks
    <3>2. CASE Close(s)
      <4>1. turn' = Abort(turn, s)
        BY <3>2 DEF Close
      <4>2. QED
        BY <1>1, <4>1, AbortMarks
    <3>3. QED
      BY <1>3, <3>1, <3>2
  <2>2. QED
    BY <2>1, OwnRows DEF SameTurn
<1>4. CASE TurnWorks(s) \/ MarkStopped(s)
  BY <1>1, <1>2, <1>4, MarkStoppedWrites DEF TurnWorks
<1>5. CASE BeginRun(s) \/ NoRun(s) \/ Finish(s) \/ OpenStream(s)
  <2>1. turn'[p] = turn[p]
    BY <1>1, <1>5 DEF BeginRun, NoRun, Finish, OpenStream, Goto
  <2>2. QED
    BY <2>1, OwnRows DEF SameTurn
<1>6. QED
  BY <1>1, <1>3, <1>4, <1>5, TurnStepWorks

-----------------------------------------------------------------------------
(* What the requests add *)

\* A question of the user, or the result of the paused row that q holds.
UserAsks ==
  /\ Len(rows') = Len(rows) + 1
  /\ rows'[Len(rows) + 1].kind = "question" /\ rows'[Len(rows) + 1].run = None

Confirmed(q) ==
  LET r == rows'[Len(rows) + 1]
      i == request[q].row
  IN  /\ AnswerPaused(q) /\ Len(rows') = Len(rows) + 1
      /\ i \in 1..Len(rows) /\ IsAction(i)
      /\ r.kind = "result" /\ r.run = None /\ r.follows = i /\ r.calls = rows[i].calls

LEMMA QuestionAdded ==
  ASSUME NEW rs \in Seq(Row), Len(rs) = Len(rows), NEW t \in Texts, rows' = Insert(rs, Question(t))
  PROVE  UserAsks
<1>1. PICK r : r = Question(t)
  OBVIOUS
<1>2. r \in Row /\ r.kind = "question" /\ r.run = None
  BY <1>1, QuestionRow
<1>3. Len(rows') = Len(rows) + 1 /\ SameRow(rows'[Len(rows) + 1], r)
  BY <1>1, <1>2, Inserted
<1>4. QED
  BY <1>2, <1>3 DEF UserAsks, SameRow

LEMMA ResultAdded ==
  ASSUME Places, NEW q \in Slots, AnswerPaused(q)
  PROVE  UNCHANGED rows \/ Confirmed(q)
<1>1. PICK i, c : i = request[q].row /\ c = rows[i].calls
  OBVIOUS
<1>2. i \in 1..Len(rows) /\ c \in Seq(CallIds) /\ rows[i].kind = "action"
  BY <1>1, HeldRow DEF AnswerPaused, Doing, Held, Row
<1>3. Len(rows) \in Nat /\ rows \in Seq(Row)
  BY StoredRows DEF Places, ConversationTypeOK
<1>4. i \in Nat /\ None \in Texts \cup {None} /\ None \in Streams \cup {None}
  BY <1>2, <1>3
<1>5. PICK r : r = NewRow("result", "sent", None, i, None, c)
  OBVIOUS
<1>6. r \in Row /\ r.kind = "result" /\ r.run = None /\ r.follows = i /\ r.calls = c
  BY <1>2, <1>4, <1>5, Names DEF NewRow, Row
<1>7. CASE rows' = Insert(rows, r)
  <2>1. Grows(r)
    BY <1>3, <1>6, <1>7, InsertGrows
  <2>2. QED
    BY <1>1, <1>2, <1>6, <2>1 DEF Grows, SameRow, Confirmed, IsAction
<1>8. QED
  BY <1>1, <1>5, <1>7 DEF AnswerPaused

LEMMA RequestAdds ==
  ASSUME Places, Shape, NEW q \in Slots, RequestStep(q) \/ UserStep(q)
  PROVE  Len(rows') = Len(rows) \/ UserAsks \/ Confirmed(q)
<1>1. rows \in Seq(Row)
  BY DEF Places, ConversationTypeOK
<1>2. CASE Resolves(q)
  BY <1>2, ResolvesWrites
<1>3. CASE AnswerPaused(q)
  BY <1>3, ResultAdded
<1>4. CASE StorePost(q)
  BY <1>1, <1>4, QuestionAdded DEF StorePost
<1>5. CASE EditResend(q) \/ Retry(q)
  <2>1. \E S : \/ rows' = Supersede(rows, S)
               \/ \E t \in Texts : rows' = Insert(Supersede(rows, S), Question(t))
    BY <1>5 DEF EditResend, Retry
  <2>2. \A S : Supersede(rows, S) \in Seq(Row) /\ Len(Supersede(rows, S)) = Len(rows)
    BY <1>1, Superseded
  <2>3. QED
    BY <2>1, <2>2, QuestionAdded
<1>6. CASE Delete(q)
  <2>1. DOMAIN rows' = DOMAIN rows
    BY <1>6 DEF Delete
  <2>2. /\ Len(rows) \in Nat /\ Len(rows') \in Nat
        /\ DOMAIN rows = 1..Len(rows) /\ DOMAIN rows' = 1..Len(rows')
    BY <1>1, LenProperties DEF Shape, LongerRows
  <2>3. QED
    BY <2>1, <2>2
<1>7. CASE \/ CancelTurn(q) \/ ClaimLost(q) \/ WriteThrows(q) \/ DispatchEnds(q)
           \/ Post(q) \/ Cancel(q) \/ FindPending(q)
  <2>1. UNCHANGED rows
    BY <1>7 DEF CancelTurn, ClaimLost, WriteThrows, DispatchEnds, Post, Cancel, FindPending
  <2>2. QED
    BY <2>1
<1>8. QED
  BY <1>2, <1>3, <1>4, <1>5, <1>6, <1>7 DEF RequestStep, UserStep, Resolves

LEMMA LapseAdds ==
  ASSUME Places, Lapse
  PROVE  Len(rows') = Len(rows)
<1>1. Shape /\ DOMAIN rows' = DOMAIN rows
  BY LapseShape DEF Lapse
<1>2. /\ Len(rows) \in Nat /\ Len(rows') \in Nat
      /\ DOMAIN rows = 1..Len(rows) /\ DOMAIN rows' = 1..Len(rows')
  BY <1>1, StoredRows, LenProperties DEF Shape, LongerRows, Places, ConversationTypeOK
<1>3. QED
  BY <1>1, <1>2

\* No request moves a turn on, and no turn has what it adds.
LEMMA RequestTurns ==
  ASSUME Places, Shape, NEW q \in Slots, RequestStep(q) \/ UserStep(q), NEW p \in Streams
  PROVE  SameTurn(p)
<1>1. turn' = turn \/ turn' = Abort(turn, registry)
  BY DEF RequestStep, StorePost, CancelTurn, Claim, ClaimLost, WriteThrows, RunTool, DispatchEnds,
     Reopen, CloseFailed, AnswerPaused, UserStep, Post, EditResend, Retry, Delete, Cancel,
     FindPending
<1>2. turn'[p].pc = turn[p].pc /\ turn'[p].iter = turn[p].iter /\ turn'[p].left = turn[p].left
  BY <1>1, AbortMarks DEF Places, ConversationTypeOK
<1>3. /\ Len(rows) \in Nat
      /\ \A i \in 1..Len(rows') : i \notin 1..Len(rows) => i = Len(rows) + 1 /\ Len(rows') = Len(rows) + 1
  BY OldCalls
<1>4. Len(rows') = Len(rows) + 1 => rows'[Len(rows) + 1].run # p
  BY <1>3, RequestAdds, NameAssumption DEF UserAsks, Confirmed
<1>5. QED
  BY <1>2, <1>3, <1>4 DEF SameTurn

-----------------------------------------------------------------------------
(* An action is answered once *)

ActionsAnswered ==
  /\ \A q \in Slots : Past(q) => rows[request[q].row].status # "pending"
  /\ \A q, p \in Slots : Past(q) /\ Past(p) /\ request[q].row = request[p].row => q = p
  /\ \A k \in 1..Len(rows) : IsResult(k) /\ rows[k].run = None =>
       /\ rows[rows[k].follows].status # "pending"
       /\ \A q \in Slots : Past(q) => request[q].row # rows[k].follows

\* Only a reopen puts a stored row back.
LEMMA ReopensOnly ==
  ASSUME Places, [Next]_vars, NEW i \in 1..Len(rows),
         rows[i].status # "pending", rows'[i].status = "pending"
  PROVE  \E q \in Slots : Reopen(q) /\ request[q].row = i
<1>1. ~Mild
  BY DEF Mild, Settled
<1>2. PICK q \in Slots : Resolves(q)
  BY <1>1, MildStep
<1>3. PICK j : j = request[q].row
  OBVIOUS
<1>4. /\ j \in 1..Len(rows) /\ \A k \in 1..Len(rows) : k # j => rows'[k] = rows[k]
      /\ Claim(q) => rows'[j].status \in {"sent", "denied"}
  BY <1>2, <1>3, ResolvesWrites DEF Spending, Claim, Claiming
<1>5. i = j
  BY <1>4
<1>6. /\ rows \in Seq(Row) /\ rows[i] \in Row
      /\ ConversationTypeOK
  BY StoredRows DEF Places, ConversationTypeOK
<1>7. ~Claim(q)
  BY <1>4, <1>5
<1>8. ~RunTool(q)
  <2>1. SUFFICES ASSUME RunTool(q)
                 PROVE  FALSE
    OBVIOUS
  <2>2. PICK r : r = [rows[i] EXCEPT !.ran = rows[i].ran + 1]
    OBVIOUS
  <2>3. r.status = rows[i].status
    BY <1>6, <2>2 DEF Row
  <2>4. "sent" \in Statuses
    BY Names
  <2>5. Writes(i, r)
    BY <1>3, <1>5, <1>6, <2>1, <2>2, <2>4, ColumnsWritten DEF RunTool
  <2>6. QED
    BY <1>6, <2>3, <2>5, WritesTyped
<1>9. ~CloseFailed(q)
  <2>1. SUFFICES ASSUME CloseFailed(q), rows' # rows
                 PROVE  FALSE
    OBVIOUS
  <2>2. rows' = [rows EXCEPT ![i].status = "failed", ![i].raw = FALSE]
    BY <1>3, <1>5, <2>1 DEF CloseFailed
  <2>3. PICK r : r = [rows[i] EXCEPT !.status = "failed", !.raw = FALSE]
    OBVIOUS
  <2>4. r.status = "failed"
    BY <1>6, <2>3 DEF Row
  <2>5. "failed" \in Statuses
    BY Names
  <2>6. Writes(i, r)
    BY <1>6, <2>2, <2>3, <2>5, ColumnsWritten
  <2>7. QED
    BY <1>6, <2>4, <2>6, WritesTyped
<1>10. QED
  BY <1>2, <1>3, <1>5, <1>7, <1>8, <1>9 DEF Resolves

\* What a claim leaves, and that there is only one.
LEMMA ClaimsOne ==
  ASSUME Places, NEW q \in Slots, Claim(q)
  PROVE  /\ request[q].row \in 1..Len(rows)
         /\ rows[request[q].row].status = "pending" /\ rows'[request[q].row].status # "pending"
         /\ request'[q].row = request[q].row
         /\ \A p \in Slots : Claim(p) => p = q
<1>1. PICK i : i = request[q].row
  OBVIOUS
<1>2. /\ i \in 1..Len(rows) /\ rows[i].status = "pending" /\ rows'[i].status # "pending"
  BY <1>1, ResolvesWrites DEF Resolves, Spending, Claim, Claiming
<1>3. request \in [Slots -> RequestType]
  BY DEF Places, ConversationTypeOK, Slots, RequestType
<1>4. request'[q].row = i
  BY <1>1, <1>3 DEF Claim, Move, RequestType
<1>5. ASSUME NEW p \in Slots, Claim(p), p # q
      PROVE  FALSE
  <2>1. request'[p].pc # request[p].pc
    BY <1>3, <1>5 DEF Claim, Claiming, Move, RequestType
  <2>2. request'[p] = request[p]
    BY <1>3, <1>5 DEF Claim, Move
  <2>3. QED
    BY <2>1, <2>2
<1>6. QED
  BY <1>1, <1>2, <1>4, <1>5

LEMMA AnsweredStep ==
  ASSUME Places, CallsAreKept, ActionsAnswered, [Next]_vars,
         \A k \in 1..Len(rows') :
           k \notin 1..Len(rows) /\ rows'[k].kind = "result" /\ rows'[k].run = None =>
             k = Len(rows) + 1 /\ \E q \in Slots : Confirmed(q)
  PROVE  ActionsAnswered'
<1>1. Shape
  BY StepShape
<1>2. \A i \in 1..Len(rows) : rows'[i].kind = rows[i].kind /\ rows'[i].run = rows[i].run
                              /\ rows'[i].follows = rows[i].follows
  BY <1>1, OldColumns
<1>3. /\ \A q \in Slots : Past(q) => rows[request[q].row].status # "pending"
      /\ \A q, p \in Slots : Past(q) /\ Past(p) /\ request[q].row = request[p].row => q = p
      /\ \A k \in 1..Len(rows) : IsResult(k) /\ rows[k].run = None =>
           /\ rows[rows[k].follows].status # "pending"
           /\ \A q \in Slots : Past(q) => request[q].row # rows[k].follows
  BY DEF ActionsAnswered
<1>4. \A q \in Slots : Past(q) => request[q].row \in 1..Len(rows)
  BY HeldRow DEF Past, Held
<1>5. ASSUME NEW p \in Slots, Past(p)'
      PROVE  /\ request'[p].row = request[p].row /\ request[p].row \in 1..Len(rows)
             /\ Past(p) \/ Claim(p)
  BY <1>4, <1>5, PastMoves, ClaimsOne DEF Keeps
\* A row that is reopened is that of a request that is past it no more.
<1>6. ASSUME NEW i \in 1..Len(rows), rows[i].status # "pending", rows'[i].status = "pending"
      PROVE  \E q \in Slots : Past(q) /\ ~Past(q)' /\ request[q].row = i /\ ~AnswerPaused(q)
  <2>1. PICK q \in Slots : Reopen(q) /\ request[q].row = i
    BY <1>6, ReopensOnly
  <2>2. request' = [request EXCEPT ![q] = Free] /\ request[q].pc = "reopening"
    BY <2>1 DEF Reopen, Doing, Done
  <2>3. request'[q].pc = "free"
    BY <2>2 DEF Places, ConversationTypeOK, Slots, Free
  <2>4. QED
    BY <2>1, <2>2, <2>3 DEF Past, AnswerPaused, Doing
<1>7. ASSUME NEW p \in Slots, Past(p)'
      PROVE  rows'[request'[p].row].status # "pending"
  <2>1. CASE Claim(p)
    BY <2>1, ClaimsOne
  <2>2. CASE Past(p)
    BY <1>3, <1>5, <1>6, <1>7, <2>2
  <2>3. QED
    BY <1>5, <1>7, <2>1, <2>2
<1>8. ASSUME NEW p \in Slots, NEW q \in Slots, Past(p)', Past(q)', request'[p].row = request'[q].row
      PROVE  p = q
  <2>1. request[p].row = request[q].row
    BY <1>5, <1>8
  <2>2. CASE Past(p) /\ Past(q)
    BY <1>3, <2>1, <2>2
  <2>3. CASE Claim(p) /\ Claim(q)
    BY <2>3, ClaimsOne
  <2>4. CASE Claim(p) /\ Past(q)
    BY <1>3, <2>1, <2>4, ClaimsOne
  <2>5. CASE Past(p) /\ Claim(q)
    BY <1>3, <2>1, <2>5, ClaimsOne
  <2>6. QED
    BY <1>5, <1>8, <2>2, <2>3, <2>4, <2>5
\* What has an answer, or gets one, is not pending and nobody else is past it.
<1>9. ASSUME NEW f \in 1..Len(rows), rows[f].status # "pending",
             \A q \in Slots : Past(q) /\ request[q].row = f => AnswerPaused(q) /\ ~Past(q)'
      PROVE  /\ rows'[f].status # "pending"
             /\ \A p \in Slots : Past(p)' => request'[p].row # f
  <2>1. rows'[f].status # "pending"
    BY <1>6, <1>9
  <2>2. ASSUME NEW p \in Slots, Past(p)', request'[p].row = f
        PROVE  FALSE
    <3>1. request[p].row = f /\ ~Past(p)
      BY <1>5, <1>9, <2>2
    <3>2. Claim(p)
      BY <1>5, <2>2, <3>1
    <3>3. QED
      BY <1>9, <3>1, <3>2, ClaimsOne
  <2>3. QED
    BY <2>1, <2>2
<1>10. ASSUME NEW k \in 1..Len(rows'), rows'[k].kind = "result", rows'[k].run = None
       PROVE  /\ rows'[rows'[k].follows].status # "pending"
              /\ \A q \in Slots : Past(q)' => request'[q].row # rows'[k].follows
  <2>1. PICK f : f = rows'[k].follows
    OBVIOUS
  <2>2. CASE k \in 1..Len(rows)
    <3>1. IsResult(k) /\ rows[k].run = None /\ rows[k].follows = f
      BY <1>2, <1>10, <2>1, <2>2 DEF IsResult
    <3>2. f \in 1..Len(rows)
      BY <2>2, <3>1 DEF CallsAreKept, RowCalls, Confirms, IsResult
    <3>3. rows[f].status # "pending" /\ \A q \in Slots : Past(q) => request[q].row # f
      BY <1>3, <2>2, <3>1
    <3>4. QED
      BY <1>9, <2>1, <3>2, <3>3
  <2>3. CASE k \notin 1..Len(rows)
    <3>1. PICK q \in Slots : Confirmed(q)
      BY <1>10, <2>3
    <3>2. k = Len(rows) + 1
      BY <1>10, <2>3
    <3>3. f = request[q].row /\ f \in 1..Len(rows) /\ AnswerPaused(q)
      BY <2>1, <3>1, <3>2 DEF Confirmed
    <3>4. request' = [request EXCEPT ![q] = Free] /\ request[q].pc = "answering"
      BY <3>3 DEF AnswerPaused, Doing, Done
    <3>5. request'[q].pc = "free"
      BY <3>4 DEF Places, ConversationTypeOK, Slots, Free
    <3>6. Past(q) /\ ~Past(q)'
      BY <3>4, <3>5 DEF Past
    <3>7. \A p \in Slots : Past(p) /\ request[p].row = f => p = q
      BY <1>3, <3>3, <3>6
    <3>8. QED
      BY <1>3, <1>9, <2>1, <3>3, <3>6, <3>7
  <2>4. QED
    BY <2>2, <2>3
<1>11. QED
  BY <1>7, <1>8, <1>10 DEF ActionsAnswered, IsResult, Past

\* The result of an action fits: no other request has added one.
LEMMA ConfirmedFits ==
  ASSUME Places, CallsAreKept, ActionsAnswered, NEW q \in Slots, Confirmed(q)
  PROVE  Fits(rows'[Len(rows) + 1])
<1>1. PICK r, i : r = rows'[Len(rows) + 1] /\ i = request[q].row
  OBVIOUS
<1>2. /\ i \in 1..Len(rows) /\ IsAction(i) /\ Past(q)
      /\ r.kind = "result" /\ r.run = None /\ r.follows = i /\ r.calls = rows[i].calls
  BY <1>1 DEF Confirmed, AnswerPaused, Doing, Past
<1>3. RowCalls(r)
  BY <1>2 DEF RowCalls, Confirms, IsAction
<1>4. First(r) = <<rows[i].run, First(rows[i])[2], 0>>
  BY <1>2 DEF CallsAreKept, RowCalls, PauseCall, IsAction, First
<1>5. ASSUME NEW k \in 1..Len(rows), IsResult(k), rows[k].calls = r.calls
      PROVE  FALSE
  <2>1. First(rows[k]) = First(r)
    BY <1>5 DEF First
  <2>2. rows[k].run = None
    BY <1>4, <1>5, <2>1, ResultIds
  <2>3. PICK j : j = rows[k].follows
    OBVIOUS
  <2>4. j \in 1..Len(rows) /\ IsAction(j) /\ rows[k].calls = rows[j].calls
    BY <1>5, <2>2, <2>3 DEF CallsAreKept, RowCalls, Confirms, IsResult, IsAction
  <2>5. First(rows[j]) = <<rows[j].run, First(rows[j])[2], 0>>
    BY <2>4 DEF CallsAreKept, RowCalls, PauseCall, IsAction
  <2>6. First(rows[j]) = First(r)
    BY <1>5, <2>4 DEF First
  <2>7. rows[j].run = rows[i].run
    BY <1>4, <2>5, <2>6
  <2>8. j = i
    BY <1>2, <2>4, <2>7 DEF CallsAreKept, PausesOnce
  <2>9. QED
    BY <1>1, <1>2, <1>5, <2>2, <2>3, <2>8 DEF ActionsAnswered
<1>6. ASSUME NEW b \in 1..Len(rows), IsBatch(b), First(r) \in Ids(rows[b])
      PROVE  FALSE
  <2>1. 0 \in DOMAIN rows[b].calls
    BY <1>4, <1>6, BatchIds
  <2>2. rows[b].calls \in Seq(CallIds)
    BY StoredRows DEF Places, ConversationTypeOK, Row
  <2>3. QED
    BY <2>1, <2>2, LenProperties
<1>7. Fits(r)
  BY <1>2, <1>3, <1>5, <1>6 DEF Fits
<1>8. QED
  BY <1>1, <1>7

-----------------------------------------------------------------------------
(* Every call is answered once, in its place *)

HistoryRows ==
  /\ CallsAreKept
  /\ \A s \in Streams : TurnCalls(s)
  /\ ActionsAnswered

LEMMA HistoryInit == Init => HistoryRows
<1>1. SUFFICES ASSUME Init
               PROVE  HistoryRows
  OBVIOUS
<1>2. Len(rows) = 0
  BY <1>1 DEF Init
<1>3. \A i \in 1..Len(rows) : FALSE
  BY <1>2
<1>4. CallsAreKept
  BY <1>3 DEF CallsAreKept, ResultsDiffer, PausesOnce, ResultsInPlace
<1>5. \A s \in Streams : turn[s].pc = "idle"
  BY <1>1 DEF Init, NoTurn
<1>6. \A s \in Streams : TurnCalls(s)
  BY <1>3, <1>5 DEF TurnCalls, Fresher, Asks
<1>7. \A q \in Slots : ~Past(q)
  BY <1>1 DEF Init, Past, Free, Slots
<1>8. ActionsAnswered
  BY <1>3, <1>7 DEF ActionsAnswered
<1>9. QED
  BY <1>4, <1>6, <1>8 DEF HistoryRows

LEMMA HistoryStep ==
  ASSUME Places, HistoryRows, [Next]_vars
  PROVE  HistoryRows'
<1>1. CallsAreKept /\ ActionsAnswered /\ (\A s \in Streams : TurnCalls(s))
  BY DEF HistoryRows
<1>2. Shape /\ Len(rows) \in Nat
  BY StepShape, OldCalls
<1>3. CASE Len(rows') = Len(rows) /\ \A p \in Streams : SameTurn(p)
  <2>1. CallsAreKept'
    BY <1>1, <1>2, <1>3, CallsKept
  <2>2. \A p \in Streams : TurnCalls(p)'
    BY <1>1, <1>2, <1>3, SameTurnCalls
  <2>3. ActionsAnswered'
    BY <1>1, <1>3, AnsweredStep
  <2>4. QED
    BY <2>1, <2>2, <2>3 DEF HistoryRows
<1>4. ASSUME NEW s \in Streams, TurnStep(s) \/ OpenStream(s)
      PROVE  HistoryRows'
  <2>1. GoesOnWith(s)
    BY <1>1, <1>2, <1>4, TurnStepCalls, QuietCalls
  <2>2. CallsAreKept'
    BY <1>1, <1>2, <2>1, CallsKept DEF GoesOnWith
  <2>3. ASSUME NEW p \in Streams
        PROVE  TurnCalls(p)'
    <3>1. CASE p = s
      BY <2>1, <3>1 DEF GoesOnWith
    <3>2. CASE p # s
      BY <1>1, <1>2, <1>4, <3>2, OtherTurns, SameTurnCalls
    <3>3. QED
      BY <3>1, <3>2
  <2>4. \A k \in 1..Len(rows') : k \notin 1..Len(rows) => rows'[k].run # None
    BY <1>4, OwnRows, NameAssumption
  <2>5. ActionsAnswered'
    BY <1>1, <2>4, AnsweredStep
  <2>6. QED
    BY <2>2, <2>3, <2>5 DEF HistoryRows
<1>5. ASSUME NEW s \in Streams, Close(s)
      PROVE  HistoryRows'
  <2>1. turn' = Abort(turn, s) /\ UNCHANGED rows
    BY <1>5 DEF Close
  <2>2. SameTurn(s)
    BY <1>2, <2>1, AbortMarks DEF SameTurn, Places
  <2>3. \A p \in Streams : SameTurn(p)
    BY <1>5, <2>2, OtherTurns
  <2>4. QED
    BY <1>3, <2>1, <2>3
<1>6. ASSUME NEW q \in Slots, RequestStep(q) \/ UserStep(q)
      PROVE  HistoryRows'
  <2>1. \A p \in Streams : SameTurn(p)
    BY <1>2, <1>6, RequestTurns
  <2>2. \A p \in Streams : TurnCalls(p)'
    BY <1>1, <1>2, <2>1, SameTurnCalls
  <2>3. Len(rows') = Len(rows) \/ UserAsks \/ Confirmed(q)
    BY <1>2, <1>6, RequestAdds
  <2>4. Len(rows') = Len(rows) + 1 => Fits(rows'[Len(rows) + 1])
    BY <1>1, <1>2, <2>3, PlainFits, ConfirmedFits DEF UserAsks
  <2>5. CallsAreKept'
    BY <1>1, <1>2, <2>4, CallsKept
  <2>6. \A k \in 1..Len(rows') : k \notin 1..Len(rows) =>
          k = Len(rows) + 1 /\ (rows'[k].kind = "result" => Confirmed(q))
    BY <1>2, <2>3 DEF UserAsks, Confirmed
  <2>7. ActionsAnswered'
    BY <1>1, <2>6, AnsweredStep
  <2>8. QED
    BY <2>2, <2>5, <2>7 DEF HistoryRows
<1>7. CASE Sweep \/ Lapse \/ UNCHANGED vars
  <2>1. Len(rows') = Len(rows) /\ UNCHANGED turn
    BY <1>7, LapseAdds DEF Sweep, Lapse, vars
  <2>2. \A p \in Streams : SameTurn(p)
    BY <1>2, <2>1 DEF SameTurn
  <2>3. QED
    BY <1>3, <2>1, <2>2
<1>8. CASE Crash
  <2>1. UNCHANGED rows
    BY <1>8 DEF Crash
  <2>2. CallsAreKept' /\ ActionsAnswered'
    BY <1>1, <1>2, <2>1, CallsKept, AnsweredStep
  <2>3. ASSUME NEW p \in Streams
        PROVE  TurnCalls(p)'
    <3>1. CASE turn'[p] = turn[p]
      BY <1>1, <1>2, <2>1, <3>1, SameTurnCalls DEF SameTurn
    <3>2. CASE turn'[p] = Ended
      BY <3>2, EndedTyped, EndedCalls
    <3>3. QED
      BY <1>8, <3>1, <3>2 DEF Crash
  <2>4. QED
    BY <2>2, <2>3 DEF HistoryRows
<1>9. QED
  BY <1>4, <1>5, <1>6, <1>7, <1>8 DEF Next, Slots

\* No call has two results and no turn pauses twice, whatever requests, refusals and
\* crashes meet; a turn stores nothing but results of an answer between that answer
\* and a result of it.
THEOREM CallsAnsweredInPlace == Spec => [](ResultsDiffer /\ PausesOnce /\ ResultsInPlace)
<1>1. Places /\ HistoryRows /\ [Next]_vars => HistoryRows'
  BY HistoryStep
<1>2. HistoryRows => ResultsDiffer /\ PausesOnce /\ ResultsInPlace
  BY DEF HistoryRows, CallsAreKept
<1>3. QED
  BY <1>1, <1>2, HistoryInit, PlacesAlways, PTL DEF Spec

-----------------------------------------------------------------------------
(* The messages of the first rows *)

LEMMA LeastOf ==
  ASSUME NEW T \in SUBSET Nat, T # {}
  PROVE  \E m \in T : \A y \in T : m <= y
<1>1. PICK m \in T : \A y \in T : ~ (<<y, m>> \in OpToRel(<, Nat))
  BY NatLessThanWellFounded, WFMin
<1>2. ASSUME NEW y \in T
      PROVE  m <= y
  <2>1. m \in Nat /\ y \in Nat
    OBVIOUS
  <2>2. CASE y < m
    <3>1. <<y, m>> \in OpToRel(<, Nat)
      BY <2>1, <2>2, SMT DEF OpToRel
    <3>2. QED
      BY <1>1, <3>1
  <2>3. QED
    BY <2>1, <2>2
<1>3. QED
  BY <1>2

Nothing == [out |-> <<>>, covered |-> {}]

\* The definition of Made has a function that keeps to it.
LEMMA MadeSoFar ==
  ASSUME Len(rows) \in Nat
  PROVE  \A m \in 0..Len(rows) :
           \E f : f = [n \in 0..m |-> IF n = 0 THEN Nothing ELSE Send(f[n - 1], n)]
<1> DEFINE P(m) == \E f : f = [n \in 0..m |-> IF n = 0 THEN Nothing ELSE Send(f[n - 1], n)]
           T == {m \in 0..Len(rows) : ~P(m)}
<1>1. P(0)
  <2>1. PICK f : f = [n \in 0..0 |-> Nothing]
    OBVIOUS
  <2>2. f = [n \in 0..0 |-> IF n = 0 THEN Nothing ELSE Send(f[n - 1], n)]
    BY <2>1
  <2>3. QED
    BY <2>2
<1>2. ASSUME NEW m \in Nat, P(m)
      PROVE  P(m + 1)
  <2>1. PICK f : f = [n \in 0..m |-> IF n = 0 THEN Nothing ELSE Send(f[n - 1], n)]
    BY <1>2
  <2>2. PICK g : g = [n \in 0..m + 1 |-> IF n = m + 1 THEN Send(f[m], m + 1) ELSE f[n]]
    OBVIOUS
  <2>3. \A n \in 0..m : g[n] = f[n]
    BY <2>2
  <2>4. ASSUME NEW n \in 0..m + 1
        PROVE  g[n] = IF n = 0 THEN Nothing ELSE Send(g[n - 1], n)
    <3>1. CASE n = m + 1
      <4>1. g[n] = Send(f[m], m + 1) /\ n # 0 /\ n - 1 = m /\ g[m] = f[m]
        BY <2>2, <2>3, <3>1
      <4>2. QED
        BY <3>1, <4>1
    <3>2. CASE n = 0
      <4>1. f[0] = Nothing /\ g[0] = f[0]
        BY <2>1, <2>3
      <4>2. QED
        BY <3>2, <4>1
    <3>3. CASE n \in 1..m
      <4>1. f[n] = Send(f[n - 1], n) /\ g[n] = f[n] /\ g[n - 1] = f[n - 1] /\ n # 0
        BY <2>1, <2>3, <3>3
      <4>2. QED
        BY <4>1
    <3>4. QED
      BY <3>1, <3>2, <3>3
  <2>5. g = [n \in 0..m + 1 |-> g[n]]
    BY <2>2
  <2>6. g = [n \in 0..m + 1 |-> IF n = 0 THEN Nothing ELSE Send(g[n - 1], n)]
    BY <2>4, <2>5
  <2>7. QED
    BY <2>6
<1> HIDE DEF P
<1>3. ASSUME T # {}
      PROVE  FALSE
  <2>0. T \in SUBSET Nat
    OBVIOUS
  <2> HIDE DEF T
  <2>1. PICK m \in T : \A y \in T : m <= y
    BY <1>3, <2>0, LeastOf
  <2> USE DEF T
  <2>2. m \in 1..Len(rows) /\ m - 1 \in Nat /\ m - 1 \in 0..Len(rows)
    BY <1>1, <2>1
  <2>3. P(m - 1)
    BY <2>1, <2>2
  <2>4. P(m - 1 + 1)
    BY <1>2, <2>2, <2>3
  <2>5. m - 1 + 1 = m
    BY <2>2
  <2>6. QED
    BY <2>1, <2>4, <2>5
<1>4. \A m \in 0..Len(rows) : P(m)
  BY <1>3
<1>5. QED
  BY <1>4 DEF P

LEMMA MadeRows ==
  ASSUME Len(rows) \in Nat
  PROVE  /\ Made[0] = Nothing
         /\ \A n \in 1..Len(rows) : Made[n] = Send(Made[n - 1], n)
<1>1. \E f : f = [n \in 0..Len(rows) |-> IF n = 0 THEN Nothing ELSE Send(f[n - 1], n)]
  BY MadeSoFar
<1>2. Made = [n \in 0..Len(rows) |-> IF n = 0 THEN Nothing ELSE Send(Made[n - 1], n)]
  BY <1>1 DEF Made, Nothing
<1>3. QED
  BY <1>2

-----------------------------------------------------------------------------
(* Histories that are well formed so far *)

Messages == [role : {"user", "assistant", "tool"}, declares : Nat]

LastOf(h, n) == n + h[n].declares

\* A history to which p tool messages are yet to come.
Awaits(h, p) ==
  /\ \A n \in 1..Len(h) : h[n].declares > 0 =>
       /\ \A k \in 1..Len(h) : n < k /\ k <= LastOf(h, n) => h[k].role = "tool"
       /\ LastOf(h, n) < Len(h) => h[LastOf(h, n) + 1].role # "tool"
       /\ LastOf(h, n) >= Len(h) => LastOf(h, n) = Len(h) + p
  /\ \A k \in 1..Len(h) : h[k].role = "tool" => \E n \in 1..k - 1 : k <= LastOf(h, n)
  /\ p > 0 => \E n \in 1..Len(h) : h[n].declares > 0 /\ LastOf(h, n) = Len(h) + p

LEMMA MessageMade ==
  ASSUME NEW role \in {"user", "assistant", "tool"}, NEW d \in Nat
  PROVE  /\ Message(role, d) \in Messages
         /\ Message(role, d).role = role /\ Message(role, d).declares = d
  BY DEF Message, Messages

LEMMA Appended ==
  ASSUME NEW h \in Seq(Messages), NEW x \in Messages
  PROVE  /\ Append(h, x) \in Seq(Messages) /\ Len(Append(h, x)) = Len(h) + 1 /\ Len(h) \in Nat
         /\ \A n \in 1..Len(h) : /\ Append(h, x)[n] = h[n] /\ LastOf(Append(h, x), n) = LastOf(h, n)
                                 /\ h[n].declares \in Nat /\ LastOf(h, n) \in Nat
         /\ Append(h, x)[Len(h) + 1] = x
         /\ LastOf(Append(h, x), Len(h) + 1) = Len(h) + 1 + x.declares
<1>1. /\ Append(h, x) \in Seq(Messages) /\ Len(Append(h, x)) = Len(h) + 1 /\ Len(h) \in Nat
      /\ \A n \in 1..Len(h) : Append(h, x)[n] = h[n] /\ h[n] \in Messages
      /\ Append(h, x)[Len(h) + 1] = x
  BY LenProperties, ElementOfSeq
<1>2. QED
  BY <1>1 DEF LastOf, Messages

\* A tool message that is awaited.
LEMMA AppendTool ==
  ASSUME NEW h \in Seq(Messages), NEW p \in Nat, p > 0, Awaits(h, p),
         NEW x \in Messages, x.role = "tool", x.declares = 0
  PROVE  Append(h, x) \in Seq(Messages) /\ Awaits(Append(h, x), p - 1)
<1>1. PICK g, l : g = Append(h, x) /\ l = Len(h)
  OBVIOUS
<1>2. /\ g \in Seq(Messages) /\ Len(g) = l + 1 /\ l \in Nat
      /\ \A n \in 1..l : /\ g[n] = h[n] /\ LastOf(g, n) = LastOf(h, n)
                         /\ h[n].declares \in Nat /\ LastOf(h, n) \in Nat
      /\ g[l + 1] = x /\ LastOf(g, l + 1) = l + 1
  BY <1>1, Appended
<1>3. /\ \A n \in 1..l : h[n].declares > 0 =>
           /\ \A k \in 1..l : n < k /\ k <= LastOf(h, n) => h[k].role = "tool"
           /\ LastOf(h, n) < l => h[LastOf(h, n) + 1].role # "tool"
           /\ LastOf(h, n) >= l => LastOf(h, n) = l + p
      /\ \A k \in 1..l : h[k].role = "tool" => \E n \in 1..k - 1 : k <= LastOf(h, n)
  BY <1>1 DEF Awaits
<1>4. PICK a \in 1..l : h[a].declares > 0 /\ LastOf(h, a) = l + p
  BY <1>1 DEF Awaits
<1>5. ASSUME NEW n \in 1..l + 1, g[n].declares > 0
      PROVE  /\ \A k \in 1..l + 1 : n < k /\ k <= LastOf(g, n) => g[k].role = "tool"
             /\ LastOf(g, n) < l + 1 => g[LastOf(g, n) + 1].role # "tool"
             /\ LastOf(g, n) >= l + 1 => LastOf(g, n) = l + 1 + (p - 1)
  <2>1. n \in 1..l /\ h[n].declares > 0 /\ LastOf(g, n) = LastOf(h, n)
    BY <1>2, <1>5
  <2>2. PICK m : m = LastOf(h, n)
    OBVIOUS
  <2>3. m \in Nat /\ n <= m
    BY <1>2, <2>1, <2>2 DEF LastOf
  <2>4. ASSUME NEW k \in 1..l + 1, n < k, k <= m
        PROVE  g[k].role = "tool"
    <3>1. CASE k \in 1..l
      <4>1. h[k].role = "tool" /\ g[k] = h[k]
        BY <1>2, <1>3, <2>1, <2>2, <2>4, <3>1
      <4>2. QED
        BY <4>1
    <3>2. CASE k = l + 1
      BY <1>2, <3>2
    <3>3. QED
      BY <1>2, <3>1, <3>2
  <2>5. m < l + 1 => m < l /\ m + 1 \in 1..l
    BY <1>2, <1>3, <2>1, <2>2, <2>3
  <2>6. m < l + 1 => g[m + 1].role # "tool"
    BY <1>2, <1>3, <2>1, <2>2, <2>5
  <2>7. m >= l + 1 => m = l + 1 + (p - 1)
    BY <1>2, <1>3, <2>1, <2>2, <2>3
  <2>8. QED
    BY <2>1, <2>2, <2>4, <2>6, <2>7
<1>6. ASSUME NEW k \in 1..l + 1, g[k].role = "tool"
      PROVE  \E n \in 1..k - 1 : k <= LastOf(g, n)
  <2>1. CASE k \in 1..l
    <3>1. PICK n \in 1..k - 1 : k <= LastOf(h, n)
      BY <1>2, <1>3, <1>6, <2>1
    <3>2. n \in 1..l
      BY <1>2, <2>1
    <3>3. QED
      BY <1>2, <3>1, <3>2
  <2>2. CASE k = l + 1
    <3>1. a \in 1..k - 1 /\ k <= LastOf(g, a)
      BY <1>2, <1>4, <2>2
    <3>2. QED
      BY <3>1
  <2>3. QED
    BY <1>2, <2>1, <2>2
<1>7. p - 1 > 0 => \E n \in 1..l + 1 : g[n].declares > 0 /\ LastOf(g, n) = l + 1 + (p - 1)
  <2>1. a \in 1..l + 1 /\ g[a].declares > 0 /\ LastOf(g, a) = l + 1 + (p - 1)
    BY <1>2, <1>4
  <2>2. QED
    BY <2>1
<1>8. PICK q : q = p - 1
  OBVIOUS
<1>9. /\ \A n \in 1..Len(g) : g[n].declares > 0 =>
           /\ \A k \in 1..Len(g) : n < k /\ k <= LastOf(g, n) => g[k].role = "tool"
           /\ LastOf(g, n) < Len(g) => g[LastOf(g, n) + 1].role # "tool"
           /\ LastOf(g, n) >= Len(g) => LastOf(g, n) = Len(g) + q
      /\ q > 0 => \E n \in 1..Len(g) : g[n].declares > 0 /\ LastOf(g, n) = Len(g) + q
  <2>1. Len(g) = l + 1
    BY <1>2
  <2>2. QED
    BY <1>5, <1>7, <1>8, <2>1, Zenon
<1>10. \A k \in 1..Len(g) : g[k].role = "tool" => \E n \in 1..k - 1 : k <= LastOf(g, n)
  BY <1>2, <1>6, Zenon
<1>11. Awaits(g, q)
  BY <1>9, <1>10, Zenon DEF Awaits
<1>12. QED
  BY <1>1, <1>2, <1>8, <1>11

\* Any other message, when none is awaited.
LEMMA AppendOther ==
  ASSUME NEW h \in Seq(Messages), Awaits(h, 0), NEW x \in Messages, x.role # "tool"
  PROVE  Append(h, x) \in Seq(Messages) /\ Awaits(Append(h, x), x.declares)
<1>1. PICK g, l, d : g = Append(h, x) /\ l = Len(h) /\ d = x.declares
  OBVIOUS
<1>2. /\ g \in Seq(Messages) /\ Len(g) = l + 1 /\ l \in Nat /\ d \in Nat
      /\ \A n \in 1..l : /\ g[n] = h[n] /\ LastOf(g, n) = LastOf(h, n)
                         /\ h[n].declares \in Nat /\ LastOf(h, n) \in Nat
      /\ g[l + 1] = x /\ LastOf(g, l + 1) = l + 1 + d
  BY <1>1, Appended DEF Messages
<1>3. /\ \A n \in 1..l : h[n].declares > 0 =>
           /\ \A k \in 1..l : n < k /\ k <= LastOf(h, n) => h[k].role = "tool"
           /\ LastOf(h, n) < l => h[LastOf(h, n) + 1].role # "tool"
           /\ LastOf(h, n) >= l => LastOf(h, n) = l
      /\ \A k \in 1..l : h[k].role = "tool" => \E n \in 1..k - 1 : k <= LastOf(h, n)
  BY <1>1, <1>2 DEF Awaits
<1>4. ASSUME NEW n \in 1..l + 1, g[n].declares > 0
      PROVE  /\ \A k \in 1..l + 1 : n < k /\ k <= LastOf(g, n) => g[k].role = "tool"
             /\ LastOf(g, n) < l + 1 => g[LastOf(g, n) + 1].role # "tool"
             /\ LastOf(g, n) >= l + 1 => LastOf(g, n) = l + 1 + d
  <2>1. CASE n = l + 1
    BY <1>2, <2>1
  <2>2. CASE n \in 1..l
    <3>1. PICK m : m = LastOf(h, n)
      OBVIOUS
    <3>2. m \in Nat /\ n <= m /\ h[n].declares > 0 /\ m = LastOf(g, n)
      BY <1>2, <1>4, <2>2, <3>1 DEF LastOf
    <3>3. m <= l
      BY <1>2, <1>3, <2>2, <3>1, <3>2
    <3>4. \A k \in 1..l + 1 : n < k /\ k <= m => g[k].role = "tool"
      BY <1>2, <1>3, <2>2, <3>1, <3>2, <3>3
    <3>5. g[m + 1].role # "tool"
      <4>1. CASE m = l
        BY <1>1, <1>2, <4>1
      <4>2. CASE m < l
        <5>1. m + 1 \in 1..l
          BY <1>2, <3>2, <4>2
        <5>2. QED
          BY <1>2, <1>3, <2>2, <3>1, <3>2, <4>2, <5>1
      <4>3. QED
        BY <1>2, <3>2, <3>3, <4>1, <4>2
    <3>6. ~(m >= l + 1)
      BY <1>2, <3>2, <3>3
    <3>7. QED
      BY <3>2, <3>4, <3>5, <3>6
  <2>3. QED
    BY <1>2, <2>1, <2>2
<1>5. ASSUME NEW k \in 1..l + 1, g[k].role = "tool"
      PROVE  \E n \in 1..k - 1 : k <= LastOf(g, n)
  <2>1. k \in 1..l
    BY <1>2, <1>5
  <2>2. PICK n \in 1..k - 1 : k <= LastOf(h, n)
    BY <1>2, <1>3, <1>5, <2>1
  <2>3. n \in 1..l
    BY <1>2, <2>1
  <2>4. QED
    BY <1>2, <2>2, <2>3
<1>6. d > 0 => \E n \in 1..l + 1 : g[n].declares > 0 /\ LastOf(g, n) = l + 1 + d
  <2>1. l + 1 \in 1..l + 1 /\ g[l + 1].declares = d /\ LastOf(g, l + 1) = l + 1 + d
    BY <1>1, <1>2
  <2>2. QED
    BY <2>1
<1>7. QED
  BY <1>1, <1>2, <1>4, <1>5, <1>6 DEF Awaits

\* A history to which nothing is to come is one that is accepted.
LEMMA NothingAwaited ==
  ASSUME NEW h \in Seq(Messages), Awaits(h, 0)
  PROVE  WellFormed(h)
<1>1. /\ Len(h) \in Nat /\ DOMAIN h = 1..Len(h)
      /\ \A n \in 1..Len(h) : h[n].declares \in Nat /\ LastOf(h, n) \in Nat /\ n <= LastOf(h, n)
  <2>1. Len(h) \in Nat /\ DOMAIN h = 1..Len(h) /\ \A n \in 1..Len(h) : h[n] \in Messages
    BY LenProperties, ElementOfSeq
  <2>2. QED
    BY <2>1 DEF Messages, LastOf
<1>2. ASSUME NEW n \in 1..Len(h), h[n].declares > 0
      PROVE  /\ LastOf(h, n) <= Len(h)
             /\ \A k \in n + 1 .. LastOf(h, n) : h[k].role = "tool"
             /\ LastOf(h, n) < Len(h) => h[LastOf(h, n) + 1].role # "tool"
  <2>1. LastOf(h, n) <= Len(h)
    BY <1>1, <1>2 DEF Awaits
  <2>2. \A k \in n + 1 .. LastOf(h, n) : k \in 1..Len(h) /\ n < k /\ k <= LastOf(h, n)
    BY <1>1, <2>1
  <2>3. QED
    BY <1>2, <2>1, <2>2 DEF Awaits
<1>3. \A k \in 1..Len(h) : h[k].role = "tool" => \E n \in 1..k - 1 : k <= LastOf(h, n)
  BY DEF Awaits
<1>4. QED
  BY <1>1, <1>2, <1>3 DEF WellFormed, LastOf

-----------------------------------------------------------------------------
(* The tool messages that the first rows leave to come *)

\* The results directly after the n-th row whose calls have been declared.
Front(n, cov) ==
  {m \in Following(n) : \A k \in Following(n) : k <= m => First(rows[k]) \in cov}

LEMMA SentRows ==
  ASSUME Places
  PROVE  /\ Len(rows) \in Nat
         /\ \A m \in Sent : m \in 1..Len(rows) /\ m \in Window /\ ~IsAction(m)
  BY StoredRows DEF Places, ConversationTypeOK, Sent, Window, Active, IsAction

LEMMA FollowingRows ==
  ASSUME Places, NEW n \in 0..Len(rows)
  PROVE  /\ \A m \in Following(n) : m \in Sent /\ m \in 1..Len(rows) /\ n < m /\ IsResult(m)
         /\ \A m \in Sent : n < m /\ (\A k \in Sent : n < k /\ k <= m => IsResult(k))
                            => m \in Following(n)
         /\ \A m \in Following(n), k \in Sent : n < k /\ k <= m => IsResult(k)
  BY SentRows DEF Following, IsResult

LEMMA FrontIsFinite ==
  ASSUME Places, NEW n \in 0..Len(rows), NEW cov
  PROVE  IsFiniteSet(Front(n, cov)) /\ Cardinality(Front(n, cov)) \in Nat
<1>1. Front(n, cov) \in SUBSET (1..Len(rows))
  BY FollowingRows DEF Front
<1>2. IsFiniteSet(1..Len(rows))
  BY SentRows, FS_Interval
<1>3. QED
  BY <1>1, <1>2, FS_Subset, FS_CardinalityType

LEMMA OneCall ==
  ASSUME Places, CallsAreKept, NEW i \in 1..Len(rows), IsResult(i)
  PROVE  Len(rows[i].calls) = 1 /\ CallsOf(i) = {First(rows[i])}
<1>1. RowCalls(rows[i]) /\ rows[i].calls \in Seq(CallIds)
  BY StoredRows DEF CallsAreKept, Places, ConversationTypeOK, Row
<1>2. Len(rows[i].calls) = 1
  <2>1. CASE rows[i].run = None
    <3>1. Confirms(rows[i])
      BY <1>1, <2>1 DEF RowCalls, IsResult
    <3>2. PICK j \in 1..Len(rows) : rows[j].kind = "action" /\ rows[i].calls = rows[j].calls
      BY <3>1 DEF Confirms
    <3>3. QED
      BY <3>2 DEF CallsAreKept, RowCalls, PauseCall
  <2>2. CASE rows[i].run # None
    BY <1>1, <2>2 DEF RowCalls, IsResult, ResultCall
  <2>3. QED
    BY <2>1, <2>2
<1>3. DOMAIN rows[i].calls = {1}
  <2>1. DOMAIN rows[i].calls = 1..1
    BY <1>1, <1>2, LenProperties
  <2>2. QED
    BY <2>1
<1>4. QED
  BY <1>2, <1>3 DEF CallsOf, First

\* The calls that the results after a row answer are theirs.
LEMMA AnsweredByOne ==
  ASSUME Places, CallsAreKept, NEW n \in 0..Len(rows)
  PROVE  /\ \A c \in Answered(n) : \E m \in Following(n) : c = First(rows[m])
         /\ \A m \in Following(n) : First(rows[m]) \in Answered(n)
<1>1. \A m \in Following(n) : CallsOf(m) = {First(rows[m])}
  BY FollowingRows, OneCall
<1>2. QED
  BY <1>1 DEF Answered

LEMMA FirstDiffers ==
  ASSUME Places, CallsAreKept, NEW i \in 1..Len(rows), NEW j \in 1..Len(rows),
         IsResult(i), IsResult(j), First(rows[i]) = First(rows[j])
  PROVE  i = j
<1>1. /\ rows[i].calls \in Seq(CallIds) /\ rows[j].calls \in Seq(CallIds)
      /\ Len(rows[i].calls) = 1 /\ Len(rows[j].calls) = 1
  BY OneCall, StoredRows DEF Places, ConversationTypeOK, Row
<1>2. rows[i].calls = rows[j].calls
  BY <1>1, SeqEqual DEF First
<1>3. QED
  BY <1>2 DEF CallsAreKept, ResultsDiffer

\* Past a row that is not sent, and past one that is no result.
LEMMA FollowingUnsent ==
  ASSUME Places, NEW n \in Nat, n + 1 \in 1..Len(rows), n + 1 \notin Sent
  PROVE  Following(n) = Following(n + 1)
<1>1. \A k \in Sent : k \in Nat /\ (n < k <=> n + 1 < k)
  BY SentRows
<1>2. QED
  BY <1>1 DEF Following

LEMMA FollowingNone ==
  ASSUME Places, NEW n \in Nat, n + 1 \in 1..Len(rows), n + 1 \in Sent, ~IsResult(n + 1)
  PROVE  Following(n) = {}
<1>1. ASSUME NEW m \in Following(n)
      PROVE  FALSE
  <2>1. m \in Nat /\ n < m /\ n \in 0..Len(rows)
    BY FollowingRows, SentRows
  <2>2. IsResult(n + 1)
    BY <2>1, FollowingRows
  <2>3. QED
    BY <2>2
<1>2. QED
  BY <1>1

\* Past a result.
LEMMA FollowingResult ==
  ASSUME Places, NEW n \in Nat, n + 1 \in 1..Len(rows), n + 1 \in Sent, IsResult(n + 1)
  PROVE  /\ Following(n) = Following(n + 1) \cup {n + 1}
         /\ n + 1 \notin Following(n + 1)
<1>1. n \in 0..Len(rows) /\ n + 1 \in 0..Len(rows) /\ Len(rows) \in Nat
  BY SentRows
<1>2. n + 1 \in Following(n)
  <2>1. \A k \in Sent : n < k /\ k <= n + 1 => k = n + 1
    BY SentRows
  <2>2. QED
    BY <1>1, <2>1, FollowingRows
<1>3. ASSUME NEW m \in Following(n), m # n + 1
      PROVE  m \in Following(n + 1)
  <2>1. m \in Sent /\ m \in Nat /\ n < m /\ n + 1 < m
    BY <1>1, <1>3, FollowingRows
  <2>2. \A k \in Sent : n + 1 < k /\ k <= m => IsResult(k)
    BY <1>1, FollowingRows, SentRows
  <2>3. QED
    BY <1>1, <2>1, <2>2, FollowingRows
<1>4. ASSUME NEW m \in Following(n + 1)
      PROVE  m \in Following(n)
  <2>1. m \in Sent /\ m \in Nat /\ n + 1 < m
    BY <1>1, FollowingRows
  <2>2. \A k \in Sent : n < k /\ k <= m => IsResult(k)
    <3>1. \A k \in Sent : k \in Nat /\ (n < k => k = n + 1 \/ n + 1 < k)
      BY SentRows
    <3>2. QED
      BY <1>1, <3>1, FollowingRows
  <2>3. QED
    BY <1>1, <2>1, <2>2, FollowingRows
<1>5. n + 1 \notin Following(n + 1)
  BY <1>1, FollowingRows
<1>6. QED
  BY <1>2, <1>3, <1>4, <1>5

LEMMA FrontUnsent ==
  ASSUME Places, NEW n \in Nat, n + 1 \in 1..Len(rows), n + 1 \notin Sent, NEW cov
  PROVE  Front(n + 1, cov) = Front(n, cov)
  BY FollowingUnsent DEF Front

LEMMA FrontNone ==
  ASSUME Places, NEW n \in Nat, n + 1 \in 1..Len(rows), n + 1 \in Sent, ~IsResult(n + 1),
         NEW cov
  PROVE  Front(n, cov) = {}
  BY FollowingNone DEF Front

\* A result whose call was declared is the next of them.
LEMMA FrontResult ==
  ASSUME Places, NEW n \in Nat, n + 1 \in 1..Len(rows), n + 1 \in Sent, IsResult(n + 1),
         NEW cov, First(rows[n + 1]) \in cov
  PROVE  /\ n + 1 \in Front(n, cov)
         /\ Front(n + 1, cov) = Front(n, cov) \ {n + 1}
<1>1. /\ Following(n) = Following(n + 1) \cup {n + 1} /\ n + 1 \notin Following(n + 1)
  BY FollowingResult
<1>2. \A m \in Following(n + 1) : m \in Nat /\ n + 1 < m
  BY FollowingRows
<1>3. n + 1 \in Front(n, cov)
  <2>1. \A k \in Following(n) : k <= n + 1 => k = n + 1
    BY <1>1, <1>2
  <2>2. QED
    BY <1>1, <2>1 DEF Front
<1>4. \A m \in Following(n + 1) : m \in Front(n + 1, cov) <=> m \in Front(n, cov)
  BY <1>1 DEF Front
<1>5. QED
  BY <1>1, <1>3, <1>4 DEF Front

\* One whose call was not declared has none before it to come, and is the only one
\* with its call.
LEMMA FrontAlone ==
  ASSUME Places, CallsAreKept, NEW n \in Nat, n + 1 \in 1..Len(rows), n + 1 \in Sent,
         IsResult(n + 1), NEW cov
  PROVE  /\ First(rows[n + 1]) \notin cov => Front(n, cov) = {}
         /\ Front(n + 1, {First(rows[n + 1])}) = {}
<1>1. /\ Following(n) = Following(n + 1) \cup {n + 1}
      /\ \A m \in Following(n) : m \in Nat /\ n < m /\ n + 1 <= m
  BY FollowingResult, FollowingRows, SentRows
<1>2. First(rows[n + 1]) \notin cov => Front(n, cov) = {}
  BY <1>1 DEF Front
<1>3. ASSUME NEW m \in Front(n + 1, {First(rows[n + 1])})
      PROVE  FALSE
  <2>1. m \in Following(n + 1) /\ m \in 1..Len(rows) /\ n + 1 < m /\ IsResult(m)
    BY FollowingRows DEF Front
  <2>2. First(rows[m]) = First(rows[n + 1])
    BY <1>3, <2>1 DEF Front
  <2>3. QED
    BY <2>1, <2>2, FirstDiffers
<1>4. QED
  BY <1>2, <1>3

LEMMA FrontEmpty ==
  ASSUME Places, NEW n \in 0..Len(rows)
  PROVE  Front(n, {}) = {}
<1>1. ASSUME NEW m \in Front(n, {})
      PROVE  FALSE
  <2>1. m \in Following(n) /\ \A k \in Following(n) : k <= m => FALSE
    BY DEF Front
  <2>2. m <= m
    BY <2>1, FollowingRows
  <2>3. QED
    BY <2>1, <2>2
<1>2. QED
  BY <1>1

\* Every call that a batch declares is the call of one result directly after it.
LEMMA BatchFront ==
  ASSUME Places, CallsAreKept, RunsDoNotInterleave, ~ResultInsideBatch,
         NEW b \in 1..Len(rows), b \in Sent, IsBatch(b)
  PROVE  /\ IsFiniteSet(Declared(b))
         /\ Cardinality(Front(b, Declared(b))) = Cardinality(Declared(b))
<1> DEFINE F == Front(b, Declared(b))
           f == [m \in F |-> First(rows[m])]
<1>1. b \in 0..Len(rows) /\ b \in Window /\ rows[b].run # None
  BY SentRows DEF CallsAreKept, RowCalls, BatchCalls, IsBatch
<1>2. \A m \in F : m \in Following(b) /\ First(rows[m]) \in Declared(b)
                   /\ m \in 1..Len(rows) /\ IsResult(m)
  BY <1>1, FollowingRows DEF Front
<1>3. \A m, k \in F : First(rows[m]) = First(rows[k]) => m = k
  BY <1>2, FirstDiffers
<1>4. ASSUME NEW c \in Declared(b)
      PROVE  \E m \in F : c = First(rows[m])
  <2>1. PICK m \in Following(b) : c = First(rows[m])
    BY <1>1, <1>4, AnsweredByOne DEF Declared
  <2>2. m \in 1..Len(rows) /\ b < m /\ IsResult(m) /\ m \in Window
    BY <1>1, FollowingRows, SentRows
  <2>3. c \in Ids(rows[b])
    BY <1>4 DEF Declared, CallsOf, Ids
  <2>4. /\ rows[m].run = rows[b].run
        /\ \A j \in 1..Len(rows) :
             b < j /\ j < m /\ rows[j].run = rows[b].run =>
               IsResult(j) /\ First(rows[j]) \in Ids(rows[b])
    BY <2>1, <2>2, <2>3 DEF CallsAreKept, ResultsInPlace
  <2>5. ASSUME NEW k \in Following(b), k <= m
        PROVE  First(rows[k]) \in Declared(b)
    <3>1. k \in 1..Len(rows) /\ b < k /\ IsResult(k) /\ k \in Window
      BY <1>1, FollowingRows, SentRows
    <3>2. First(rows[k]) \in Ids(rows[b])
      <4>1. CASE k = m
        BY <2>1, <2>3, <4>1
      <4>2. CASE k < m
        <5>1. rows[k].run \in {None, rows[b].run}
          BY <1>1, <2>2, <2>4, <3>1, <4>2, StoredRows
             DEF RunsDoNotInterleave, Places, ConversationTypeOK
        <5>2. rows[k].run # None
          BY <1>1, <2>2, <2>4, <3>1, <4>2 DEF ResultInsideBatch, IsBatch, IsResult
        <5>3. QED
          BY <2>4, <3>1, <4>2, <5>1, <5>2
      <4>3. QED
        BY <2>2, <2>5, <3>1, <4>1, <4>2
    <3>3. First(rows[k]) \in Answered(b)
      BY <1>1, AnsweredByOne
    <3>4. QED
      BY <3>2, <3>3 DEF Declared, CallsOf, Ids
  <2>6. m \in F
    BY <2>5 DEF Front
  <2>7. QED
    BY <2>1, <2>6
<1>5. f \in Bijection(F, Declared(b))
  <2>1. f \in [F -> Declared(b)]
    BY <1>2
  <2>2. \A m, k \in F : f[m] = f[k] => m = k
    BY <1>3
  <2>3. \A c \in Declared(b) : \E m \in F : f[m] = c
    BY <1>4
  <2> HIDE DEF f, F
  <2>4. f \in Injection(F, Declared(b))
    BY <2>1, <2>2 DEF Injection, IsInjective
  <2>5. f \in Surjection(F, Declared(b))
    BY <2>1, <2>3 DEF Surjection
  <2>6. QED
    BY <2>4, <2>5 DEF Bijection
<1>6. ExistsBijection(F, Declared(b))
  BY <1>5 DEF ExistsBijection
<1>7. IsFiniteSet(F)
  BY <1>1, FrontIsFinite
<1> HIDE DEF F
<1>8. IsFiniteSet(Declared(b)) /\ Cardinality(Declared(b)) = Cardinality(F)
  BY <1>6, <1>7, FS_Bijection
<1>9. QED
  BY <1>8 DEF F

\* What Send makes of a row, by its kind.
Acc(h, cov) == [out |-> h, covered |-> cov]

LEMMA AccFields ==
  ASSUME NEW h, NEW cov
  PROVE  /\ Acc(h, cov).out = h /\ Acc(h, cov).covered = cov
         /\ \A g : [Acc(h, cov) EXCEPT !.out = g] = Acc(g, cov)
         /\ [Acc(h, cov) EXCEPT !.covered = {}] = Acc(h, {})
  BY DEF Acc

LEMMA SendUnsent ==
  ASSUME NEW h, NEW cov, NEW n, n \notin Sent
  PROVE  Send(Acc(h, cov), n) = Acc(h, cov)
  BY DEF Send

LEMMA SendAnswer ==
  ASSUME NEW h, NEW cov, NEW n, n \in Sent, IsResult(n), CallsOf(n) \subseteq cov
  PROVE  Send(Acc(h, cov), n) = Acc(Append(h, Message("tool", 0)), cov)
<1>1. PICK acc : acc = Acc(h, cov)
  OBVIOUS
<1>2. Send(acc, n) = [acc EXCEPT !.out = Append(@, Message("tool", 0))]
  BY <1>1, AccFields DEF Send, IsResult
<1>3. acc = [out |-> h, covered |-> cov]
  BY <1>1 DEF Acc
<1>4. [acc EXCEPT !.out = Append(@, Message("tool", 0))] = Acc(Append(h, Message("tool", 0)), cov)
  BY <1>3 DEF Acc
<1>5. QED
  BY <1>1, <1>2, <1>4

LEMMA SendPair ==
  ASSUME NEW h, NEW cov, NEW n, n \in Sent, IsResult(n), ~(CallsOf(n) \subseteq cov)
  PROVE  Send(Acc(h, cov), n) =
           Acc(h \o <<Message("assistant", 1), Message("tool", 0)>>, CallsOf(n))
<1>1. Send(Acc(h, cov), n) =
        [out |-> Acc(h, cov).out \o <<Message("assistant", 1), Message("tool", 0)>>,
         covered |-> CallsOf(n)]
  BY AccFields DEF Send, IsResult
<1>2. QED
  BY <1>1, AccFields DEF Acc

LEMMA SendBatch ==
  ASSUME NEW h, NEW cov, NEW n, n \in Sent, IsBatch(n)
  PROVE  Send(Acc(h, cov), n) =
           IF Declared(n) # {}
           THEN Acc(Append(h, Message("assistant", Cardinality(Declared(n)))), Declared(n))
           ELSE Acc(h, {})
<1>1. CASE Declared(n) # {}
  <2>1. Send(Acc(h, cov), n) =
          [out |-> Append(Acc(h, cov).out, Message("assistant", Cardinality(Declared(n)))),
           covered |-> Declared(n)]
    BY <1>1 DEF Send, IsBatch
  <2>2. QED
    BY <1>1, <2>1, AccFields DEF Acc
<1>2. CASE Declared(n) = {}
  BY <1>2, AccFields DEF Send, IsBatch
<1>3. QED
  BY <1>1, <1>2

LEMMA SendPlain ==
  ASSUME NEW h, NEW cov, NEW n, n \in Sent, ~IsResult(n), ~IsBatch(n)
  PROVE  \E role \in {"user", "assistant"} :
           Send(Acc(h, cov), n) = Acc(Append(h, Message(role, 0)), {})
<1>1. PICK role \in {"user", "assistant"} :
        role = IF rows[n].kind = "question" THEN "user" ELSE "assistant"
  OBVIOUS
<1>2. Send(Acc(h, cov), n) =
        [out |-> Append(Acc(h, cov).out, Message(role, 0)), covered |-> {}]
  BY <1>1 DEF Send, IsBatch, IsResult
<1>3. Send(Acc(h, cov), n) = Acc(Append(h, Message(role, 0)), {})
  BY <1>2, AccFields DEF Acc
<1>4. QED
  BY <1>3

LEMMA AppendTwo ==
  ASSUME NEW S, NEW h \in Seq(S), NEW a \in S, NEW b \in S
  PROVE  h \o <<a, b>> = Append(Append(h, a), b)
<1>1. /\ <<a, b>> \in Seq(S) /\ Len(<<a, b>>) = 2 /\ Len(h) \in Nat
      /\ <<a, b>>[1] = a /\ <<a, b>>[2] = b
  BY LenProperties
<1>2. PICK f : f = h \o <<a, b>>
  OBVIOUS
<1>3. /\ f \in Seq(S) /\ Len(f) = Len(h) + 2
      /\ \A i \in 1..Len(h) + 2 : f[i] = IF i <= Len(h) THEN h[i] ELSE <<a, b>>[i - Len(h)]
  BY <1>1, <1>2, ConcatProperties
<1>4. PICK e : e = Append(h, a)
  OBVIOUS
<1>5. /\ e \in Seq(S) /\ Len(e) = Len(h) + 1 /\ e[Len(h) + 1] = a
      /\ \A i \in 1..Len(h) : e[i] = h[i]
  BY <1>4, AppendProperties
<1>6. PICK g : g = Append(e, b)
  OBVIOUS
<1>7. /\ g \in Seq(S) /\ Len(g) = Len(h) + 2 /\ g[Len(h) + 2] = b
      /\ \A i \in 1..Len(h) + 1 : g[i] = e[i]
  BY <1>1, <1>5, <1>6, AppendProperties
<1>8. ASSUME NEW i \in 1..Len(f)
      PROVE  f[i] = g[i]
  <2>1. CASE i \in 1..Len(h)
    BY <1>1, <1>3, <1>5, <1>7, <2>1
  <2>2. CASE i = Len(h) + 1
    BY <1>1, <1>3, <1>5, <1>7, <2>2
  <2>3. CASE i = Len(h) + 2
    BY <1>1, <1>3, <1>7, <2>3
  <2>4. QED
    BY <1>1, <1>3, <2>1, <2>2, <2>3
<1>9. f = g
  BY <1>3, <1>7, <1>8, SeqEqual
<1>10. QED
  BY <1>2, <1>4, <1>6, <1>9

\* What is made of the first n rows awaits the tool messages of the results that
\* follow them and whose calls are declared.
AwaitsFront(acc, n) ==
  \E h \in Seq(Messages) : \E cov :
    acc = Acc(h, cov) /\ Awaits(h, Cardinality(Front(n, cov)))

LEMMA NoneToCome ==
  ASSUME NEW h \in Seq(Messages), NEW n, NEW cov, Front(n, cov) = {}
  PROVE  Awaits(h, Cardinality(Front(n, cov))) <=> Awaits(h, 0)
  BY FS_EmptySet

LEMMA SendStep ==
  ASSUME Places, CallsAreKept, RunsDoNotInterleave, ~ResultInsideBatch,
         NEW n \in Nat, n + 1 \in 1..Len(rows), NEW acc, AwaitsFront(acc, n)
  PROVE  AwaitsFront(Send(acc, n + 1), n + 1)
<1>1. PICK h \in Seq(Messages) : \E cov :
        acc = Acc(h, cov) /\ Awaits(h, Cardinality(Front(n, cov)))
  BY DEF AwaitsFront
<1>2. PICK cov :
        acc = Acc(h, cov) /\ Awaits(h, Cardinality(Front(n, cov)))
  BY <1>1
<1>3. n \in 0..Len(rows) /\ n + 1 \in 0..Len(rows)
  BY SentRows
<1>4. CASE n + 1 \notin Sent
  <2>1. Send(acc, n + 1) = Acc(h, cov)
    BY <1>2, <1>4, SendUnsent
  <2>2. Front(n + 1, cov) = Front(n, cov)
    BY <1>4, FrontUnsent
  <2>3. QED
    BY <1>2, <2>1, <2>2 DEF AwaitsFront
<1>5. CASE n + 1 \in Sent /\ IsResult(n + 1)
  <2>1. CallsOf(n + 1) = {First(rows[n + 1])}
    BY <1>5, OneCall
  <2>2. /\ Message("tool", 0) \in Messages /\ Message("tool", 0).role = "tool"
        /\ Message("tool", 0).declares = 0
        /\ Message("assistant", 1) \in Messages /\ Message("assistant", 1).role # "tool"
        /\ Message("assistant", 1).declares = 1
    BY MessageMade
  <2>3. CASE First(rows[n + 1]) \in cov
    <3>1. Send(acc, n + 1) = Acc(Append(h, Message("tool", 0)), cov)
      <4>1. CallsOf(n + 1) \subseteq cov
        BY <2>1, <2>3
      <4>2. QED
        BY <1>2, <1>5, <4>1, SendAnswer
    <3>2. n + 1 \in Front(n, cov) /\ Front(n + 1, cov) = Front(n, cov) \ {n + 1}
      BY <1>5, <2>3, FrontResult
    <3>3. /\ IsFiniteSet(Front(n, cov)) /\ Cardinality(Front(n, cov)) \in Nat
          /\ Cardinality(Front(n + 1, cov)) \in Nat
      BY <1>3, FrontIsFinite
    <3>4. Cardinality(Front(n + 1, cov)) = Cardinality(Front(n, cov)) - 1
      BY <3>2, <3>3, FS_RemoveElement
    <3>5. Cardinality(Front(n, cov)) > 0
      BY <3>3, <3>4
    <3>6. /\ Append(h, Message("tool", 0)) \in Seq(Messages)
          /\ Awaits(Append(h, Message("tool", 0)), Cardinality(Front(n, cov)) - 1)
      BY <1>2, <2>2, <3>3, <3>5, AppendTool
    <3>7. QED
      BY <3>1, <3>4, <3>6 DEF AwaitsFront
  <2>4. CASE First(rows[n + 1]) \notin cov
    <3> DEFINE a == Message("assistant", 1)
               t == Message("tool", 0)
    <3>1. Send(acc, n + 1) = Acc(h \o <<a, t>>, {First(rows[n + 1])})
      <4>1. ~(CallsOf(n + 1) \subseteq cov)
        BY <2>1, <2>4
      <4>2. QED
        BY <1>2, <1>5, <2>1, <4>1, SendPair
    <3>2. Front(n, cov) = {} /\ Front(n + 1, {First(rows[n + 1])}) = {}
      BY <1>5, <2>4, FrontAlone
    <3> HIDE DEF a, t
    <3>3. Append(h, a) \in Seq(Messages) /\ Awaits(Append(h, a), 1)
      BY <1>2, <2>2, <3>2, NoneToCome, AppendOther DEF a
    <3>4. PICK p : p = 1
      OBVIOUS
    <3>5. Append(Append(h, a), t) \in Seq(Messages) /\ Awaits(Append(Append(h, a), t), p - 1)
      <4>1. p \in Nat /\ p > 0 /\ Awaits(Append(h, a), p)
        BY <3>3, <3>4
      <4>2. t \in Messages /\ t.role = "tool" /\ t.declares = 0
        BY <2>2 DEF t
      <4>3. QED
        BY <3>3, <4>1, <4>2, AppendTool
    <3>6. h \o <<a, t>> = Append(Append(h, a), t)
      BY <2>2, AppendTwo DEF a, t
    <3>7. Awaits(h \o <<a, t>>, 0) /\ h \o <<a, t>> \in Seq(Messages)
      <4>1. p - 1 = 0
        BY <3>4
      <4>2. QED
        BY <3>5, <3>6, <4>1, Zenon
    <3>8. QED
      BY <3>1, <3>2, <3>7, NoneToCome DEF AwaitsFront
  <2>5. QED
    BY <2>3, <2>4
<1>6. CASE n + 1 \in Sent /\ ~IsResult(n + 1)
  <2>1. Front(n, cov) = {} /\ Awaits(h, 0)
    BY <1>2, <1>6, FrontNone, NoneToCome
  <2>2. CASE IsBatch(n + 1) /\ Declared(n + 1) # {}
    <3> DEFINE D == Declared(n + 1)
               x == Message("assistant", Cardinality(D))
    <3>1. Send(acc, n + 1) = Acc(Append(h, x), D)
      BY <1>2, <1>6, <2>2, SendBatch
    <3>2. Cardinality(Front(n + 1, D)) = Cardinality(D) /\ Cardinality(D) \in Nat
      BY <1>6, <2>2, BatchFront, FS_CardinalityType
    <3>3. x \in Messages /\ x.role # "tool" /\ x.declares = Cardinality(D)
      BY <3>2, MessageMade
    <3> HIDE DEF x, D
    <3>4. Append(h, x) \in Seq(Messages) /\ Awaits(Append(h, x), Cardinality(Front(n + 1, D)))
      BY <2>1, <3>2, <3>3, AppendOther
    <3>5. QED
      BY <3>1, <3>4 DEF AwaitsFront
  <2>3. CASE IsBatch(n + 1) /\ Declared(n + 1) = {}
    <3>1. Send(acc, n + 1) = Acc(h, {})
      BY <1>2, <1>6, <2>3, SendBatch
    <3>2. Awaits(h, Cardinality(Front(n + 1, {})))
      BY <1>3, <2>1, FrontEmpty, NoneToCome
    <3>3. QED
      BY <3>1, <3>2 DEF AwaitsFront
  <2>4. CASE ~IsBatch(n + 1)
    <3>1. PICK role \in {"user", "assistant"} :
            Send(acc, n + 1) = Acc(Append(h, Message(role, 0)), {})
      BY <1>2, <1>6, <2>4, SendPlain
    <3>2. /\ Message(role, 0) \in Messages /\ Message(role, 0).role # "tool"
          /\ Message(role, 0).declares = 0
      BY MessageMade
    <3>3. /\ Append(h, Message(role, 0)) \in Seq(Messages)
          /\ Awaits(Append(h, Message(role, 0)), 0)
      BY <2>1, <3>2, AppendOther
    <3>4. Awaits(Append(h, Message(role, 0)), Cardinality(Front(n + 1, {})))
      BY <1>3, <3>3, FrontEmpty, NoneToCome
    <3>5. QED
      BY <3>1, <3>3, <3>4 DEF AwaitsFront
  <2>5. QED
    BY <2>2, <2>3, <2>4
<1>7. QED
  BY <1>4, <1>5, <1>6

\* What is made of all rows awaits nothing: the last row has none after it.
LEMMA HistoryMade ==
  ASSUME Places, CallsAreKept, RunsDoNotInterleave, ~ResultInsideBatch
  PROVE  WellFormed(ChatMessages)
<1> DEFINE T == {n \in 0..Len(rows) : ~AwaitsFront(Made[n], n)}
<1>1. /\ Len(rows) \in Nat /\ Made[0] = Nothing
      /\ \A n \in 1..Len(rows) : Made[n] = Send(Made[n - 1], n)
  BY SentRows, MadeRows
<1>2. AwaitsFront(Made[0], 0)
  <2>1. Front(0, {}) = {}
    BY <1>1, FrontEmpty
  <2>2. <<>> \in Seq(Messages) /\ Len(<<>>) = 0
    OBVIOUS
  <2>3. Awaits(<<>>, 0)
    BY <2>2 DEF Awaits
  <2>4. Made[0] = Acc(<<>>, {})
    BY <1>1 DEF Nothing, Acc
  <2>5. QED
    BY <2>1, <2>2, <2>3, <2>4, NoneToCome DEF AwaitsFront
<1>3. ASSUME T # {}
      PROVE  FALSE
  <2>1. T \in SUBSET Nat
    OBVIOUS
  <2> HIDE DEF T
  <2>2. PICK m \in T : \A y \in T : m <= y
    BY <1>3, <2>1, LeastOf
  <2> USE DEF T
  <2>3. PICK n : n = m - 1
    OBVIOUS
  <2>4. m = n + 1 /\ n \in Nat /\ n + 1 \in 1..Len(rows) /\ n \in 0..Len(rows) /\ n \notin T
    BY <1>1, <1>2, <2>2, <2>3
  <2>5. AwaitsFront(Made[n], n)
    BY <2>4
  <2>6. AwaitsFront(Send(Made[n], n + 1), n + 1)
    BY <2>4, <2>5, SendStep
  <2>7. Made[n + 1] = Send(Made[n], n + 1)
    <3>1. n + 1 - 1 = n
      BY <2>4
    <3>2. QED
      BY <1>1, <2>4, <3>1
  <2>8. QED
    BY <2>2, <2>4, <2>6, <2>7
<1>4. PICK n : n = Len(rows)
  OBVIOUS
<1>5. AwaitsFront(Made[n], n)
  BY <1>1, <1>3, <1>4
<1>6. PICK h \in Seq(Messages) : \E cov :
        Made[n] = Acc(h, cov) /\ Awaits(h, Cardinality(Front(n, cov)))
  BY <1>5 DEF AwaitsFront
<1>7. PICK cov : Made[n] = Acc(h, cov) /\ Awaits(h, Cardinality(Front(n, cov)))
  BY <1>6
<1>8. Front(n, cov) = {}
  <2>1. \A m \in Following(n) : m \in 1..n /\ n < m
    BY <1>1, <1>4, FollowingRows
  <2>2. QED
    BY <1>1, <1>4, <2>1 DEF Front
<1>9. WellFormed(h)
  BY <1>7, <1>8, NoneToCome, NothingAwaited
<1>10. QED
  BY <1>4, <1>7, <1>9, AccFields DEF ChatMessages

\* Every history sent is one that a provider accepts, unless a paused action has been
\* resolved inside a batch of another turn.
THEOREM HistoryIsAccepted == Spec => []HistoryIsWellFormed
<1>1. Places /\ HistoryRows /\ [Next]_vars => HistoryRows'
  BY HistoryStep
<1>2. Places /\ HistoryRows /\ RunsDoNotInterleave => HistoryIsWellFormed
  BY HistoryMade DEF HistoryRows, HistoryIsWellFormed
<1>3. QED
  BY <1>1, <1>2, HistoryInit, PlacesAlways, TurnsDoNotMix, PTL DEF Spec

=============================================================================

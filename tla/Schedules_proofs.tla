-------------------------- MODULE Schedules_proofs --------------------------
(***************************************************************************)
(* Theorems about Schedules, for any finite set of schedules, any period,  *)
(* any number of overlapping passes and any bounds.                        *)
(***************************************************************************)
EXTENDS Schedules, TLAPS, SequenceTheorems, FiniteSetTheorems

-----------------------------------------------------------------------------
(* Types, and what a pass is *)

ItemType == [id : Ids, last : Nat \cup {Never}, next : Nat, created : Nat]
SendType == [at : Nat, cause : BOOLEAN]

Typed ==
  /\ now \in Nat
  /\ kind \in [Ids -> Kinds]
  /\ row \in [Ids -> Rows \cup {NoRow, Gone}]
  /\ pass \in [Slots -> Passes \cup {Idle}]
  /\ sends \in [Ids -> Seq(SendType)]
  /\ excused \in [Ids -> BOOLEAN]
  /\ told \in [Ids -> SUBSET Nat]

\* What a list says of a schedule stays true of its kind and of its creation, and no
\* schedule is in one list twice.
Listed(p, i) ==
  LET item == pass[p].todo[i] IN
  /\ kind[item.id] = p[1]
  /\ row[item.id] # NoRow
  /\ Exists(item.id) => row[item.id].created = item.created

PassOK(p) ==
  pass[p] # Idle =>
    /\ pass[p] \in Passes
    /\ 1 <= Len(pass[p].todo)
    /\ pass[p].now <= now /\ pass[p].end <= now
    /\ \A i \in 1..Len(pass[p].todo) : Listed(p, i)
    /\ \A i, j \in 1..Len(pass[p].todo) :
         i # j => pass[p].todo[i].id # pass[p].todo[j].id

Base == Typed /\ \A p \in Slots : PassOK(p)

-----------------------------------------------------------------------------
(* The ways a step changes the passes *)

Others(p) == \A r \in Slots : r # p => pass'[r] = pass[r]

Keeps(p) == pass'[p] = pass[p]

\* The pass goes on with the same list, or with the rest of it, or is over.
Moves(p) ==
  /\ pass[p] # Idle /\ pass'[p] # Idle
  /\ pass'[p] \in Passes
  /\ pass'[p].todo = pass[p].todo /\ pass'[p].now = pass[p].now
  /\ pass'[p].end \in {pass[p].end, now}
  /\ pass'[p].phase # "next"

Drops(p) ==
  \/ pass'[p] = Idle
  \/ /\ pass[p] # Idle
     /\ pass'[p] \in Passes /\ pass'[p] # Idle
     /\ 1 <= Len(pass'[p].todo) /\ Len(pass'[p].todo) = Len(pass[p].todo) - 1
     /\ \A i \in 1..Len(pass'[p].todo) : pass'[p].todo[i] = pass[p].todo[i + 1]
     /\ pass'[p].now = pass[p].now /\ pass'[p].end = pass[p].end
     /\ pass'[p].phase = "next"

\* A new list: each schedule of it exists, is of the slot's kind and stands once.
Begins(p) ==
  /\ pass[p] = Idle /\ pass'[p] # Idle
  /\ pass'[p] \in Passes
  /\ 1 <= Len(pass'[p].todo)
  /\ pass'[p].now = now /\ pass'[p].end = now /\ pass'[p].phase = "next"
  /\ \A i \in 1..Len(pass'[p].todo) :
       LET item == pass'[p].todo[i] IN
       /\ Exists(item.id) /\ kind[item.id] = p[1]
       /\ item = Listing(item.id)
  /\ \A i, j \in 1..Len(pass'[p].todo) :
       i # j => pass'[p].todo[i].id # pass'[p].todo[j].id

\* What is in a pass, without the fields of its items.
LEMMA PassFields ==
  ASSUME NEW x \in Passes
  PROVE  /\ x.todo \in Seq(ItemType) /\ Len(x.todo) \in Nat
         /\ x.now \in Nat /\ x.end \in Nat
         /\ x.phase \in {"next", "claimed", "sending", "sent"}
         /\ \A i \in 1..Len(x.todo) : x.todo[i] \in ItemType
<1>1. x.todo \in Seq(ItemType)
  BY DEF Passes, ItemType
<1>2. x.now \in Nat /\ x.end \in Nat /\ x.phase \in {"next", "claimed", "sending", "sent"}
  BY DEF Passes
<1>3. QED
  BY <1>1, <1>2

LEMMA OneLess == ASSUME NEW a \in Nat, 1 <= a, a # 1, NEW b, b = a - 1 PROVE 1 <= b
OBVIOUS

LEMMA DropDrops ==
  ASSUME Base, NEW p \in Slots, pass[p] # Idle, Drop(p)
  PROVE  Drops(p) /\ Others(p) /\ pass' \in [Slots -> Passes \cup {Idle}]
<1> DEFINE x == pass[p]
<1>1. /\ pass \in [Slots -> Passes \cup {Idle}] /\ x \in Passes
      /\ x.todo \in Seq(ItemType) /\ Len(x.todo) \in Nat /\ 1 <= Len(x.todo)
  <2>1. pass \in [Slots -> Passes \cup {Idle}] /\ x \in Passes /\ 1 <= Len(x.todo)
    BY DEF Base, Typed, PassOK
  <2>2. QED
    BY <2>1, PassFields
<1>2. CASE Len(x.todo) = 1
  <2>1. pass' = [pass EXCEPT ![p] = Idle]
    BY <1>1, <1>2 DEF Drop
  <2>2. QED
    BY <1>1, <2>1 DEF Drops, Others
<1>3. CASE Len(x.todo) # 1
  <2>1. pass' = [pass EXCEPT ![p] = [x EXCEPT !.todo = Tail(x.todo), !.phase = "next"]]
    BY <1>1, <1>3 DEF Drop
  <2>2. x.todo # <<>>
    BY <1>1
  <2>3. /\ Tail(x.todo) \in Seq(ItemType) /\ Len(Tail(x.todo)) = Len(x.todo) - 1
        /\ \A i \in 1..Len(Tail(x.todo)) : Tail(x.todo)[i] = x.todo[i + 1]
    BY <1>1, <2>2, HeadTailProperties
  <2>4. [x EXCEPT !.todo = Tail(x.todo), !.phase = "next"] \in Passes
    BY <1>1, <2>3 DEF Passes, ItemType
  <2>5. /\ pass'[p].todo = Tail(x.todo) /\ pass'[p].phase = "next"
        /\ pass'[p].now = x.now /\ pass'[p].end = x.end
    BY <1>1, <2>1 DEF Passes
  <2>6. pass'[p] \in Passes
    BY <1>1, <2>1, <2>4
  <2>7. Others(p) /\ pass' \in [Slots -> Passes \cup {Idle}]
    BY <1>1, <2>1, <2>4 DEF Others
  <2>8. pass'[p] # Idle
    BY <2>6, NameAssumption
  <2>9. /\ 1 <= Len(pass'[p].todo) /\ Len(pass'[p].todo) = Len(pass[p].todo) - 1
        /\ \A i \in 1..Len(pass'[p].todo) : pass'[p].todo[i] = pass[p].todo[i + 1]
    <3>1. Len(x.todo) # 1 /\ Len(Tail(x.todo)) = Len(x.todo) - 1
      BY <1>3, <2>3
    <3>2. 1 <= Len(Tail(x.todo))
      BY <1>1, <3>1, OneLess
    <3>3. \A i \in 1..Len(Tail(x.todo)) : Tail(x.todo)[i] = x.todo[i + 1]
      BY <2>3
    <3>4. pass'[p].todo = Tail(x.todo)
      BY <2>5
    <3>5. QED
      BY <3>1, <3>2, <3>3, <3>4
  <2>10. QED
    BY <2>5, <2>6, <2>7, <2>8, <2>9 DEF Drops
<1>4. QED
  BY <1>2, <1>3

LEMMA MoveMoves ==
  ASSUME Base, NEW p \in Slots, pass[p] # Idle, NEW phase \in {"claimed", "sending", "sent"}, Move(p, phase)
  PROVE  /\ Moves(p) /\ Others(p) /\ pass' \in [Slots -> Passes \cup {Idle}]
         /\ pass'[p].phase = phase /\ pass'[p].end = pass[p].end
<1>1. pass \in [Slots -> Passes \cup {Idle}] /\ pass[p] \in Passes
  BY DEF Base, Typed, PassOK
<1>2. [pass[p] EXCEPT !.phase = phase] \in Passes
  BY <1>1 DEF Passes
<1>3. pass'[p] = [pass[p] EXCEPT !.phase = phase]
  BY <1>1 DEF Move
<1>4. pass'[p] # Idle
  BY <1>2, <1>3, NameAssumption
<1>5. QED
  BY <1>1, <1>2, <1>3, <1>4 DEF Move, Moves, Others, Passes

LEMMA BuildMoves ==
  ASSUME Base, NEW p \in Slots, BuildDigest(p)
  PROVE  /\ Moves(p) /\ Others(p) /\ pass' \in [Slots -> Passes \cup {Idle}]
         /\ pass'[p].phase = "sending" /\ pass'[p].end = now
<1>1. pass[p] # Idle /\ now \in Nat
  BY DEF BuildDigest, At, Base, Typed
<1>2. pass \in [Slots -> Passes \cup {Idle}] /\ pass[p] \in Passes
  BY <1>1 DEF Base, Typed, PassOK
<1>3. [pass[p] EXCEPT !.phase = "sending", !.end = now] \in Passes
  BY <1>1, <1>2 DEF Passes
<1>4. /\ pass'[p] = [pass[p] EXCEPT !.phase = "sending", !.end = now]
      /\ Others(p) /\ pass' \in [Slots -> Passes \cup {Idle}]
  BY <1>2, <1>3 DEF BuildDigest, Others
<1>5. pass'[p] # Idle
  BY <1>3, <1>4, NameAssumption
<1>6. QED
  BY <1>1, <1>2, <1>3, <1>4, <1>5 DEF Moves, Passes

\* What a tick or a send by hand begins.
LEMMA BeginBegins ==
  ASSUME Base, NEW p \in Slots, NEW todo, NEW early \in BOOLEAN, Begin(p, todo, early),
         todo \in Seq(ItemType), 1 <= Len(todo),
         \A i \in 1..Len(todo) : /\ Exists(todo[i].id) /\ kind[todo[i].id] = p[1]
                                 /\ todo[i] = Listing(todo[i].id),
         \A i, j \in 1..Len(todo) : i # j => todo[i].id # todo[j].id
  PROVE  Begins(p) /\ Others(p) /\ pass' \in [Slots -> Passes \cup {Idle}] /\ pass'[p].todo = todo
<1> DEFINE new == [todo |-> todo, now |-> now, phase |-> "next", end |-> now]
<1>1. new \in Passes
  BY DEF Passes, ItemType, Base, Typed
<1>2. new # Idle
  BY <1>1, NameAssumption
<1>3. pass \in [Slots -> Passes \cup {Idle}] /\ pass[p] = Idle /\ pass' = [pass EXCEPT ![p] = new]
  BY DEF Begin, Base, Typed
<1>4. pass'[p] = new /\ Others(p) /\ pass' \in [Slots -> Passes \cup {Idle}]
  BY <1>1, <1>3 DEF Others
<1>5. /\ pass'[p].todo = todo /\ pass'[p].now = now /\ pass'[p].end = now
      /\ pass'[p].phase = "next" /\ pass'[p] \in Passes
  BY <1>1, <1>4
<1>6. QED
  BY <1>2, <1>3, <1>4, <1>5 DEF Begins

LEMMA ListingType ==
  ASSUME Typed, NEW s \in Ids, Exists(s)
  PROVE  Listing(s) \in ItemType /\ Listing(s).id = s
<1>1. row[s] \in Rows
  BY DEF Typed, Exists
<1>2. QED
  BY <1>1 DEF Listing, ItemType, Rows

LEMMA TickBegins ==
  ASSUME Base, NEW p \in Slots, Tick(p)
  PROVE  /\ Begins(p) /\ Others(p) /\ pass' \in [Slots -> Passes \cup {Idle}]
         /\ \A i \in 1..Len(pass'[p].todo) : Due(pass'[p].todo[i].id)
<1> DEFINE due == {s \in Ids : kind[s] = p[1] /\ Due(s)}
<1>1. PICK order \in SetToSeqs(due) :
        Begin(p, [i \in DOMAIN order |-> Listing(order[i])], FALSE)
  BY DEF Tick
<1> DEFINE n == Cardinality(due)
           todo == [i \in 1..n |-> Listing(order[i])]
<1>2. n \in Nat /\ 1 <= n
  <2>1. IsFiniteSet(due) /\ due # {}
    BY IdsAssumption, FS_Subset DEF Tick
  <2>2. n \in Nat /\ n # 0
    BY <2>1, FS_CardinalityType, FS_EmptySet
  <2>3. QED
    BY <2>2
<1>3. order \in [1..n -> due] /\ \A i, j \in 1..n : i # j => order[i] # order[j]
  BY DEF SetToSeqs
<1>4. Begin(p, todo, FALSE)
  BY <1>1, <1>3
<1>5. \A i \in 1..n : /\ order[i] \in Ids /\ Exists(order[i]) /\ Due(order[i])
                      /\ kind[order[i]] = p[1]
  BY <1>3 DEF Due
<1>6. \A i \in 1..n : Listing(order[i]) \in ItemType /\ Listing(order[i]).id = order[i]
  BY <1>5, ListingType DEF Base
<1>7. todo \in Seq(ItemType) /\ Len(todo) = n
  BY <1>2, <1>6
<1>8. \A i \in 1..n : todo[i] = Listing(order[i]) /\ todo[i].id = order[i]
  BY <1>6
<1> HIDE DEF todo, n, due
<1>9. \A i \in 1..Len(todo) : /\ Exists(todo[i].id) /\ kind[todo[i].id] = p[1]
                               /\ todo[i] = Listing(todo[i].id) /\ Due(todo[i].id)
  BY <1>5, <1>7, <1>8
<1>10. \A i, j \in 1..Len(todo) : i # j => todo[i].id # todo[j].id
  BY <1>3, <1>7, <1>8
<1>11. Begins(p) /\ Others(p) /\ pass' \in [Slots -> Passes \cup {Idle}] /\ pass'[p].todo = todo
  BY <1>2, <1>4, <1>7, <1>9, <1>10, BeginBegins
<1>12. QED
  BY <1>9, <1>11

LEMMA SendNowBegins ==
  ASSUME Base, NEW p \in Slots, NEW s \in Ids, SendNow(p, s)
  PROVE  /\ Begins(p) /\ Others(p) /\ pass' \in [Slots -> Passes \cup {Idle}]
         /\ pass'[p].todo = <<Listing(s)>>
<1> DEFINE todo == <<Listing(s)>>
<1>1. Exists(s) /\ kind[s] = p[1] /\ Begin(p, todo, TRUE)
  BY DEF SendNow
<1>2. Listing(s) \in ItemType /\ Listing(s).id = s
  BY <1>1, ListingType DEF Base
<1>3. todo \in Seq(ItemType) /\ Len(todo) = 1 /\ 1 <= Len(todo) /\ todo[1] = Listing(s)
  BY <1>2
<1>4. \A i \in 1..Len(todo) : /\ Exists(todo[i].id) /\ kind[todo[i].id] = p[1]
                               /\ todo[i] = Listing(todo[i].id)
  BY <1>1, <1>2, <1>3
<1>5. \A i, j \in 1..Len(todo) : i # j => todo[i].id # todo[j].id
  BY <1>3
<1> HIDE DEF todo
<1>6. Begins(p) /\ Others(p) /\ pass' \in [Slots -> Passes \cup {Idle}] /\ pass'[p].todo = todo
  BY <1>1, <1>3, <1>4, <1>5, BeginBegins
<1>7. QED
  BY <1>6 DEF todo

-----------------------------------------------------------------------------
(* What every step keeps *)

PassStep ==
  \/ \A p \in Slots : pass'[p] = Idle
  \/ \E p \in Slots : Others(p) /\ (Keeps(p) \/ Moves(p) \/ Drops(p) \/ Begins(p))

\* A schedule that was created stays created, and one that exists is the one it was.
Stays(s) ==
  row[s] # NoRow =>
    /\ row'[s] # NoRow
    /\ row'[s] # Gone => row[s] # Gone /\ row'[s].created = row[s].created

Along ==
  /\ now' \in Nat /\ now <= now' /\ kind' = kind
  /\ row' \in [Ids -> Rows \cup {NoRow, Gone}]
  /\ \A s \in Ids : Stays(s)
  /\ pass' \in [Slots -> Passes \cup {Idle}]
  /\ sends' \in [Ids -> Seq(SendType)]
  /\ excused' \in [Ids -> BOOLEAN]
  /\ told' \in [Ids -> SUBSET Nat]
  /\ PassStep

LEMMA SameRows ==
  ASSUME Typed, row' = row
  PROVE  /\ row' \in [Ids -> Rows \cup {NoRow, Gone}]
         /\ \A s \in Ids : Stays(s) /\ Exists(s)' = Exists(s)
BY DEF Typed, Stays, Exists

\* What an UPDATE of a row does.
LEMMA WrittenRows ==
  ASSUME Typed, NEW s \in Ids, NEW last \in Nat, NEW next \in Nat, row' = Written(s, last, next)
  PROVE  /\ row' \in [Ids -> Rows \cup {NoRow, Gone}]
         /\ \A r \in Ids : Stays(r) /\ Exists(r)' = Exists(r)
         /\ \A r \in Ids : r # s => row'[r] = row[r]
         /\ Exists(s) => /\ row'[s].last = last /\ row'[s].next = next
                        /\ row'[s].created = row[s].created
<1>1. CASE Exists(s)
  <2>1. row[s] \in Rows
    BY <1>1 DEF Typed, Exists
  <2>2. /\ row'[s] = [row[s] EXCEPT !.last = last, !.next = next]
        /\ row' \in [Ids -> Rows \cup {NoRow, Gone}]
        /\ \A r \in Ids : r # s => row'[r] = row[r]
    BY <1>1, <2>1 DEF Written, Typed, Rows
  <2>3. /\ row'[s] \in Rows /\ row'[s].last = last /\ row'[s].next = next
        /\ row'[s].created = row[s].created
    BY <2>1, <2>2 DEF Rows
  <2>4. Exists(s)'
    BY <2>3, NameAssumption DEF Exists
  <2>5. \A r \in Ids : Stays(r) /\ Exists(r)' = Exists(r)
    BY <1>1, <2>2, <2>3, <2>4, NameAssumption DEF Stays, Exists
  <2>6. QED
    BY <2>2, <2>3, <2>5
<1>2. CASE ~Exists(s)
  <2>1. row' = row
    BY <1>2 DEF Written
  <2>2. QED
    BY <1>2, <2>1, SameRows
<1>3. QED
  BY <1>1, <1>2

\* What a start or a mail leaves in the history.
LEMMA SentSends ==
  ASSUME Typed, NEW s \in Ids, NEW at \in Nat, Sent(s, at)
  PROVE  /\ sends' \in [Ids -> Seq(SendType)]
         /\ \A r \in Ids : r # s => sends'[r] = sends[r]
         /\ sends'[s] # <<>> /\ Last(sends'[s]).at = at
         /\ Len(sends'[s]) = 2 =>
              /\ sends[s] # <<>> /\ sends'[s][1] = Last(sends[s])
              /\ sends'[s][2] = [at |-> at, cause |-> excused[s]]
         /\ Len(sends'[s]) <= 2
<1> DEFINE new == [at |-> at, cause |-> excused[s]]
<1>1. new \in SendType /\ new.at = at
  BY DEF Typed, SendType
<1>2. sends[s] \in Seq(SendType)
  BY DEF Typed
<1> HIDE DEF new
<1>3. CASE sends[s] = <<>>
  <2>1. sends' = [sends EXCEPT ![s] = <<new>>]
    BY <1>3 DEF Sent, new
  <2>2. sends'[s] = <<new>> /\ <<new>> \in Seq(SendType) /\ \A r \in Ids : r # s => sends'[r] = sends[r]
    BY <1>1, <2>1 DEF Typed
  <2>3. sends' \in [Ids -> Seq(SendType)]
    BY <2>1, <2>2 DEF Typed
  <2>4. Len(<<new>>) = 1 /\ <<new>>[1] = new
    BY <1>1
  <2>5. QED
    BY <1>1, <2>2, <2>3, <2>4 DEF Last
<1>4. CASE sends[s] # <<>>
  <2> DEFINE two == <<Last(sends[s]), new>>
  <2>1. Last(sends[s]) \in SendType
    BY <1>2, <1>4 DEF Last
  <2>2. sends' = [sends EXCEPT ![s] = two]
    BY <1>4 DEF Sent, new
  <2>3. two \in Seq(SendType) /\ Len(two) = 2 /\ two[1] = Last(sends[s]) /\ two[2] = new
    BY <1>1, <2>1
  <2> HIDE DEF two
  <2>4. sends'[s] = two /\ \A r \in Ids : r # s => sends'[r] = sends[r]
    BY <2>2 DEF Typed
  <2>5. sends' \in [Ids -> Seq(SendType)]
    BY <2>2, <2>3 DEF Typed
  <2>6. Last(two) = new /\ two # <<>>
    <3>1. Last(two) = two[Len(two)]
      BY DEF Last
    <3>2. two # <<>>
      BY <2>3
    <3>3. two[Len(two)] = new
      BY <2>3
    <3>4. QED
      BY <3>1, <3>2, <3>3
  <2>7. /\ sends'[s] # <<>> /\ Last(sends'[s]).at = at /\ Len(sends'[s]) = 2
        /\ sends'[s][1] = Last(sends[s]) /\ sends'[s][2] = new
    BY <1>1, <2>3, <2>4, <2>6
  <2>8. QED
    BY <1>4, <2>4, <2>5, <2>7 DEF new
<1>5. QED
  BY <1>3, <1>4

\* The schedule a pass is at.
LEMMA ItemAt ==
  ASSUME Base, NEW p \in Slots, pass[p] # Idle
  PROVE  /\ pass[p] \in Passes
         /\ Item(p) \in ItemType /\ Item(p) = pass[p].todo[1] /\ 1 <= Len(pass[p].todo)
         /\ Listed(p, 1)
         /\ pass[p].now \in Nat /\ pass[p].end \in Nat
         /\ pass[p].now <= now /\ pass[p].end <= now
<1>1. pass[p] \in Passes /\ PassOK(p)
  BY DEF Base, PassOK
<1>2. /\ pass[p].todo \in Seq(ItemType) /\ Len(pass[p].todo) \in Nat
      /\ pass[p].now \in Nat /\ pass[p].end \in Nat
      /\ 1 <= Len(pass[p].todo)
  BY <1>1, PassFields DEF PassOK
<1>3. Item(p) = pass[p].todo[1] /\ 1 \in 1..Len(pass[p].todo)
  BY <1>2 DEF Item
<1>4. QED
  BY <1>1, <1>2, <1>3, PassFields DEF PassOK

LEMMA SlotOne == <<"scan", 1>> \in Slots
BY DEF Slots

LEMMA SamePasses ==
  ASSUME Typed, pass' = pass
  PROVE  PassStep /\ pass' \in [Slots -> Passes \cup {Idle}]
BY SlotOne DEF PassStep, Others, Keeps, Typed

LEMMA ClaimAlong == ASSUME Base, NEW p \in Slots, Claim(p) PROVE Along
<1>1. pass[p] # Idle
  BY DEF Claim, At
<1>2. Moves(p) /\ Others(p) /\ pass' \in [Slots -> Passes \cup {Idle}]
  BY <1>1, MoveMoves DEF Claim
<1>3. /\ Item(p).id \in Ids /\ pass[p].now \in Nat /\ pass[p].now + Period \in Nat
  BY <1>1, ItemAt, PeriodAssumption DEF ItemType
<1>4. row' = Written(Item(p).id, pass[p].now, pass[p].now + Period)
  BY DEF Claim
<1>5. row' \in [Ids -> Rows \cup {NoRow, Gone}] /\ \A s \in Ids : Stays(s)
  BY <1>3, <1>4, WrittenRows DEF Base
<1>6. now' = now /\ kind' = kind /\ sends' = sends /\ excused' = excused /\ told' = told
  BY DEF Claim, history
<1>7. QED
  BY <1>2, <1>5, <1>6 DEF Along, PassStep, Base, Typed

\* A pass goes on to its next schedule, the rows as they are, or one of them moved on.
LEMMA DropAlong ==
  ASSUME Base, NEW p \in Slots, pass[p] # Idle, Drop(p), now' = now, kind' = kind,
         \/ row' = row
         \/ \E next \in Nat : row' = Written(Item(p).id, now, next),
         sends' \in [Ids -> Seq(SendType)], excused' \in [Ids -> BOOLEAN],
         told' \in [Ids -> SUBSET Nat]
  PROVE  Along
<1>1. Drops(p) /\ Others(p) /\ pass' \in [Slots -> Passes \cup {Idle}]
  BY DropDrops
<1>2. now \in Nat /\ Item(p).id \in Ids
  BY ItemAt DEF Base, Typed, ItemType
<1>3. row' \in [Ids -> Rows \cup {NoRow, Gone}] /\ \A s \in Ids : Stays(s)
  BY <1>2, SameRows, WrittenRows DEF Base
<1>4. QED
  BY <1>1, <1>2, <1>3 DEF Along, PassStep

LEMMA UserAlong ==
  ASSUME Base, \/ \E s \in Ids : Create(s) \/ Toggle(s) \/ Delete(s)
               \/ Clock
               \/ UNCHANGED vars
  PROVE  Along
<1>1. PassStep /\ pass' \in [Slots -> Passes \cup {Idle}]
  BY SamePasses DEF Base, Create, Toggle, Delete, Clock, vars
<1>2. /\ sends' \in [Ids -> Seq(SendType)] /\ excused' \in [Ids -> BOOLEAN]
      /\ told' \in [Ids -> SUBSET Nat]
  BY DEF Base, Typed, Create, Toggle, Delete, Clock, vars, history
<1>3. now \in Nat /\ now' \in Nat /\ now <= now' /\ kind' = kind
  BY DEF Base, Typed, Create, Toggle, Delete, Clock, vars
<1>4. row' \in [Ids -> Rows \cup {NoRow, Gone}] /\ \A s \in Ids : Stays(s)
  <2>1. ASSUME NEW s \in Ids, Create(s)
        PROVE  row' \in [Ids -> Rows \cup {NoRow, Gone}] /\ \A r \in Ids : Stays(r)
    <3> DEFINE new == [enabled |-> TRUE, created |-> now, last |-> Never, next |-> now + Period]
    <3>1. new \in Rows /\ row[s] = NoRow /\ row' = [row EXCEPT ![s] = new]
      BY <1>3, <2>1, PeriodAssumption DEF Create, Rows
    <3>2. QED
      BY <3>1 DEF Base, Typed, Stays, Exists
  <2>2. ASSUME NEW s \in Ids, Toggle(s)
        PROVE  row' \in [Ids -> Rows \cup {NoRow, Gone}] /\ \A r \in Ids : Stays(r)
    <3>1. row[s] \in Rows
      BY <2>2 DEF Toggle, Exists, Base, Typed
    <3>2. row'[s] = [row[s] EXCEPT !.enabled = ~row[s].enabled]
      BY <2>2 DEF Toggle, Base, Typed
    <3>3. row'[s] \in Rows /\ row'[s].created = row[s].created
      BY <3>1, <3>2 DEF Rows
    <3>4. \A r \in Ids : r # s => row'[r] = row[r]
      BY <2>2 DEF Toggle, Base, Typed
    <3>5. row' \in [Ids -> Rows \cup {NoRow, Gone}]
      BY <2>2, <3>2, <3>3 DEF Toggle, Base, Typed
    <3>6. QED
      BY <2>2, <3>1, <3>3, <3>4, <3>5, NameAssumption DEF Toggle, Stays, Exists
  <2>3. ASSUME NEW s \in Ids, Delete(s)
        PROVE  row' \in [Ids -> Rows \cup {NoRow, Gone}] /\ \A r \in Ids : Stays(r)
    BY <2>3, NameAssumption DEF Delete, Base, Typed, Stays, Exists
  <2>4. CASE row' = row
    BY <2>4, SameRows DEF Base
  <2>5. QED
    BY <2>1, <2>2, <2>3, <2>4 DEF Clock, vars
<1>5. QED
  BY <1>1, <1>2, <1>3, <1>4 DEF Along

LEMMA BeginAlong ==
  ASSUME Base, NEW p \in Slots, Tick(p) \/ \E s \in Ids : SendNow(p, s)
  PROVE  Along
<1>1. Begins(p) /\ Others(p) /\ pass' \in [Slots -> Passes \cup {Idle}]
  BY TickBegins, SendNowBegins
<1>2. PICK todo, early : Begin(p, todo, early)
  <2>1. CASE Tick(p)
    BY <2>1 DEF Tick
  <2>2. CASE \E s \in Ids : SendNow(p, s)
    BY <2>2 DEF SendNow
  <2>3. QED
    BY <2>1, <2>2
<1>3. excused' \in [Ids -> BOOLEAN]
  <2>1. \A s \in Ids :
          (excused[s] \/ ((early \/ Holders(s) # {}) /\ \E i \in DOMAIN todo : todo[i].id = s)) \in BOOLEAN
    OBVIOUS
  <2>2. QED
    BY <1>2, <2>1 DEF Begin
<1>4. now' = now /\ kind' = kind /\ row' = row /\ sends' = sends /\ told' = told
  BY <1>2 DEF Begin
<1>5. row' \in [Ids -> Rows \cup {NoRow, Gone}] /\ \A s \in Ids : Stays(s)
  BY <1>4, SameRows DEF Base
<1>6. QED
  BY <1>1, <1>3, <1>4, <1>5 DEF Along, PassStep, Base, Typed

LEMMA CrashAlong == ASSUME Base, Crash PROVE Along
<1>1. pass' \in [Slots -> Passes \cup {Idle}] /\ PassStep
  BY DEF Crash, PassStep
<1>2. excused' \in [Ids -> BOOLEAN]
  <2>1. \A s \in Ids : (excused[s] \/ Holders(s) # {}) \in BOOLEAN
    OBVIOUS
  <2>2. QED
    BY <2>1 DEF Crash
<1>3. row' \in [Ids -> Rows \cup {NoRow, Gone}] /\ \A s \in Ids : Stays(s)
  BY SameRows DEF Crash, Base
<1>4. QED
  BY <1>1, <1>2, <1>3 DEF Along, Crash, Base, Typed

LEMMA NextDigestType == ASSUME NEW x \in Nat, now \in Nat PROVE NextDigest(x) \in Nat
BY PeriodAssumption DEF NextDigest

LEMMA WorkAlong == ASSUME Base, NEW p \in Slots, Work(p) \/ PassFails(p) PROVE Along
<1>0. /\ now \in Nat /\ kind \in [Ids -> Kinds] /\ sends \in [Ids -> Seq(SendType)]
      /\ excused \in [Ids -> BOOLEAN] /\ told \in [Ids -> SUBSET Nat]
  BY DEF Base, Typed
<1>1. CASE Claim(p)
  BY <1>1, ClaimAlong
<1>2. CASE ClaimFails(p) \/ SkipReport(p) \/ BuildFails(p)
  <2>1. /\ pass[p] # Idle /\ Drop(p) /\ now' = now /\ kind' = kind /\ row' = row
        /\ sends' = sends /\ excused' = excused /\ told' = told
    BY <1>2 DEF ClaimFails, SkipReport, BuildFails, At, history
  <2>2. QED
    BY <1>0, <2>1, DropAlong
<1>3. CASE StartScan(p)
  <2>1. /\ pass[p] # Idle /\ Drop(p) /\ now' = now /\ kind' = kind /\ row' = row
        /\ excused' = excused /\ told' = told
        /\ sends' = sends \/ Sent(Item(p).id, pass[p].now)
    BY <1>3 DEF StartScan, At
  <2>2. sends' \in [Ids -> Seq(SendType)]
    BY <1>0, <2>1, ItemAt, SentSends DEF Base, ItemType
  <2>3. QED
    BY <1>0, <2>1, <2>2, DropAlong
<1>4. CASE MailFails(p)
  <2>1. /\ pass[p] # Idle /\ Drop(p) /\ now' = now /\ kind' = kind /\ row' = row /\ told' = told
        /\ excused' = [excused EXCEPT ![Item(p).id] = TRUE]
        /\ sends' = sends \/ Sent(Item(p).id, now)
    BY <1>4 DEF MailFails, At
  <2>2. sends' \in [Ids -> Seq(SendType)]
    BY <1>0, <2>1, ItemAt, SentSends DEF Base, ItemType
  <2>3. excused' \in [Ids -> BOOLEAN]
    BY <1>0, <2>1
  <2>4. QED
    BY <1>0, <2>1, <2>2, <2>3, DropAlong
<1>5. CASE SendMail(p)
  <2>1. /\ pass[p] # Idle /\ Move(p, "sent") /\ now' = now /\ kind' = kind /\ row' = row /\ told' = told
        /\ excused' = [excused EXCEPT ![Item(p).id] = Holders(Item(p).id) # {p}]
        /\ Sent(Item(p).id, now)
    BY <1>5 DEF SendMail, At
  <2>2. sends' \in [Ids -> Seq(SendType)]
    BY <1>0, <2>1, ItemAt, SentSends DEF Base, ItemType
  <2>3. excused' \in [Ids -> BOOLEAN]
    BY <1>0, <2>1
  <2>4. Moves(p) /\ Others(p) /\ pass' \in [Slots -> Passes \cup {Idle}]
    BY <2>1, MoveMoves
  <2>5. QED
    BY <1>0, <2>1, <2>2, <2>3, <2>4, SameRows DEF Along, PassStep, Base
<1>6. CASE AdvanceReport(p)
  <2>1. /\ pass[p] # Idle /\ Drop(p) /\ now' = now /\ kind' = kind
        /\ row' = Written(Item(p).id, now, now + Period)
        /\ sends' = sends /\ excused' = excused /\ told' = told
    BY <1>6 DEF AdvanceReport, At, history
  <2>2. now + Period \in Nat
    BY <1>0, PeriodAssumption
  <2>3. QED
    BY <1>0, <2>1, <2>2, DropAlong
<1>7. CASE BuildDigest(p)
  <2>1. Moves(p) /\ Others(p) /\ pass' \in [Slots -> Passes \cup {Idle}]
    BY <1>7, BuildMoves
  <2>2. /\ now' = now /\ kind' = kind /\ row' = row
        /\ sends' = sends /\ excused' = excused /\ told' = told
    BY <1>7 DEF BuildDigest, history
  <2>3. QED
    BY <1>0, <2>1, <2>2, SameRows DEF Along, PassStep, Base
<1>8. CASE Deliver(p)
  <2>1. /\ pass[p] # Idle /\ Move(p, "sent")
        /\ now' = now /\ kind' = kind /\ row' = row /\ sends' = sends /\ excused' = excused
        /\ told' = [told EXCEPT ![Item(p).id] = told[Item(p).id] \cup PeriodStart(Item(p))..pass[p].end]
    BY <1>8 DEF Deliver, At
  <2>2. Moves(p) /\ Others(p) /\ pass' \in [Slots -> Passes \cup {Idle}]
    BY <2>1, MoveMoves
  <2>3. PeriodStart(Item(p)) \in Nat /\ pass[p].end \in Nat /\ Item(p).id \in Ids
    BY <2>1, ItemAt DEF PeriodStart, ItemType
  <2>4. PeriodStart(Item(p))..pass[p].end \subseteq Nat
    BY <2>3
  <2>5. told' \in [Ids -> SUBSET Nat]
    BY <1>0, <2>1, <2>3, <2>4
  <2>6. QED
    BY <1>0, <2>1, <2>2, <2>5, SameRows DEF Along, PassStep, Base
<1>9. CASE AdvanceDigest(p)
  <2>1. /\ pass[p] # Idle /\ Drop(p) /\ now' = now /\ kind' = kind
        /\ row' = Written(Item(p).id, now, NextDigest(Item(p).next))
        /\ sends' = sends /\ excused' = excused
        /\ told' = [told EXCEPT ![Item(p).id] = told[Item(p).id] \cup pass[p].end..now]
    BY <1>9 DEF AdvanceDigest, At
  <2>2. NextDigest(Item(p).next) \in Nat /\ pass[p].end \in Nat /\ Item(p).id \in Ids
    BY <1>0, <2>1, ItemAt, NextDigestType DEF ItemType
  <2>3. pass[p].end..now \subseteq Nat
    BY <1>0, <2>2
  <2>4. told' \in [Ids -> SUBSET Nat]
    BY <1>0, <2>1, <2>2, <2>3
  <2>5. QED
    BY <1>0, <2>1, <2>2, <2>4, DropAlong
<1>10. CASE AdvanceFails(p)
  <2>1. /\ pass[p] # Idle /\ Drop(p) /\ now' = now /\ kind' = kind /\ row' = row
        /\ sends' = sends /\ told' = told
        /\ excused' = [excused EXCEPT ![Item(p).id] = TRUE]
    BY <1>10 DEF AdvanceFails, At
  <2>2. excused' \in [Ids -> BOOLEAN]
    BY <1>0, <2>1
  <2>3. QED
    BY <1>0, <2>1, <2>2, DropAlong
<1>11. QED
  BY <1>1, <1>2, <1>3, <1>4, <1>5, <1>6, <1>7, <1>8, <1>9, <1>10 DEF Work, PassFails

LEMMA NextAlong == ASSUME Base, [Next]_vars PROVE Along
BY UserAlong, BeginAlong, CrashAlong, WorkAlong DEF Next

\* What was listed stays listed, wherever it stands in the list.
LEMMA ListedStays ==
  ASSUME Base, Along, NEW p \in Slots, pass[p] # Idle,
         NEW j \in 1..Len(pass[p].todo), NEW i, pass'[p].todo[i] = pass[p].todo[j]
  PROVE  Listed(p, i)'
<1> DEFINE item == pass[p].todo[j]
<1>1. item.id \in Ids /\ Listed(p, j)
  BY PassFields DEF Base, PassOK, ItemType
<1>2. Stays(item.id) /\ kind' = kind
  BY <1>1 DEF Along
<1>3. QED
  <2>1. row[item.id] # NoRow /\ kind[item.id] = p[1]
    BY <1>1 DEF Listed
  <2>2. row'[item.id] # NoRow /\ kind'[item.id] = p[1]
    BY <1>2, <2>1 DEF Stays
  <2>3. row'[item.id] \notin {NoRow, Gone} => row'[item.id].created = item.created
    BY <1>1, <1>2, <2>1 DEF Stays, Listed, Exists
  <2>4. pass'[p].todo[i] = item
    OBVIOUS
  <2> HIDE DEF item
  <2>5. QED
    BY <2>2, <2>3, <2>4 DEF Listed, Exists

\* The passes stay what they are, whatever the step.
LEMMA BaseStep == ASSUME Base, [Next]_vars PROVE Base'
<1>1. Along
  BY NextAlong
<1>2. Typed'
  BY <1>1 DEF Along, Typed, Base
<1>0. now \in Nat /\ now <= now'
  BY <1>1 DEF Along, Base, Typed
<1>3. ASSUME NEW p \in Slots, Keeps(p) \/ Moves(p), pass[p] # Idle, pass'[p] # Idle
      PROVE  PassOK(p)'
  <2>1. /\ pass'[p] \in Passes /\ pass'[p].todo = pass[p].todo
        /\ pass'[p].now = pass[p].now /\ pass'[p].end \in {pass[p].end, now}
    BY <1>3 DEF Keeps, Moves, Base, PassOK
  <2>2. pass'[p].now <= now' /\ pass'[p].end <= now'
    BY <1>0, <1>1, <1>3, <2>1, ItemAt DEF Along
  <2>3. \A i \in 1..Len(pass'[p].todo) : Listed(p, i)'
    BY <1>1, <1>3, <2>1, ListedStays
  <2>4. QED
    BY <1>3, <2>1, <2>2, <2>3 DEF PassOK, Base
<1>5. ASSUME NEW p \in Slots, Drops(p), pass'[p] # Idle
      PROVE  PassOK(p)'
  <2>1. /\ pass[p] # Idle /\ pass'[p] \in Passes
        /\ pass'[p].now = pass[p].now /\ pass'[p].end = pass[p].end
        /\ 1 <= Len(pass'[p].todo) /\ Len(pass'[p].todo) = Len(pass[p].todo) - 1
        /\ \A i \in 1..Len(pass'[p].todo) : pass'[p].todo[i] = pass[p].todo[i + 1]
    BY <1>5 DEF Drops
  <2>2. pass'[p].now <= now' /\ pass'[p].end <= now'
    BY <1>0, <1>1, <2>1, ItemAt DEF Along
  <2>3. Len(pass[p].todo) \in Nat /\ Len(pass'[p].todo) \in Nat
    BY <2>1, PassFields DEF Base, PassOK
  <2>4. \A i \in 1..Len(pass'[p].todo) : i + 1 \in 1..Len(pass[p].todo)
    BY <2>1, <2>3
  <2>5. \A i \in 1..Len(pass'[p].todo) : Listed(p, i)'
    BY <1>1, <2>1, <2>4, ListedStays
  <2>6. ASSUME NEW i \in 1..Len(pass'[p].todo), NEW j \in 1..Len(pass'[p].todo), i # j
        PROVE  pass'[p].todo[i].id # pass'[p].todo[j].id
    <3>1. i + 1 \in 1..Len(pass[p].todo) /\ j + 1 \in 1..Len(pass[p].todo) /\ i + 1 # j + 1
      BY <2>3, <2>4, <2>6
    <3>2. pass[p].todo[i + 1].id # pass[p].todo[j + 1].id
      BY <2>1, <3>1 DEF Base, PassOK
    <3>3. QED
      BY <2>1, <3>2
  <2>7. QED
    BY <2>1, <2>2, <2>5, <2>6 DEF PassOK
<1>6. ASSUME NEW p \in Slots, Begins(p)
      PROVE  PassOK(p)'
  <2>1. /\ pass'[p] \in Passes /\ 1 <= Len(pass'[p].todo)
        /\ pass'[p].now = now /\ pass'[p].end = now
        /\ \A i, j \in 1..Len(pass'[p].todo) : i # j => pass'[p].todo[i].id # pass'[p].todo[j].id
    BY <1>6 DEF Begins
  <2>2. ASSUME NEW i \in 1..Len(pass'[p].todo)
        PROVE  Listed(p, i)'
    <3> DEFINE item == pass'[p].todo[i]
    <3>1. item \in ItemType /\ item.id \in Ids
      BY <2>1, PassFields DEF ItemType
    <3>2. Exists(item.id) /\ kind[item.id] = p[1] /\ item = Listing(item.id)
      BY <1>6 DEF Begins
    <3>3. row[item.id] # NoRow /\ item.created = row[item.id].created
      BY <3>2 DEF Listing, Exists
    <3>4. Stays(item.id) /\ kind' = kind
      BY <1>1, <3>1 DEF Along
    <3>5. row'[item.id] # NoRow /\ kind'[item.id] = p[1]
      BY <3>2, <3>3, <3>4 DEF Stays
    <3>6. row'[item.id] \notin {NoRow, Gone} => row'[item.id].created = item.created
      BY <3>2, <3>3, <3>4 DEF Stays, Exists
    <3>7. QED
      BY <3>5, <3>6 DEF Listed, Exists
  <2>3. QED
    BY <1>0, <1>1, <2>1, <2>2 DEF PassOK, Along
<1>7. ASSUME NEW p \in Slots PROVE PassOK(p)'
  <2>1. pass'[p] = Idle \/ Keeps(p) \/ Moves(p) \/ Drops(p) \/ Begins(p)
    BY <1>1 DEF Along, PassStep, Others, Keeps
  <2>2. CASE pass'[p] = Idle
    BY <2>2 DEF PassOK
  <2>3. CASE Keeps(p) /\ pass[p] = Idle
    BY <2>2, <2>3 DEF Keeps
  <2>4. QED
    BY <1>3, <1>5, <1>6, <2>1, <2>2, <2>3 DEF Moves
<1>8. QED
  BY <1>2, <1>7 DEF Base

\* What is known of every pass holds for ever.
THEOREM BaseHolds == Spec => []Base
<1>1. Init => Base
  BY DEF Init, Base, Typed, PassOK
<1>2. Base /\ [Next]_vars => Base'
  BY BaseStep
<1>3. QED
  BY <1>1, <1>2, PTL DEF Spec

\* The work of a pass touches the schedule it is at, and no other pass.
LEMMA WorkTouches ==
  ASSUME Base, NEW p \in Slots, Work(p) \/ PassFails(p)
  PROVE  /\ pass[p] # Idle /\ Others(p) /\ Item(p).id \in Ids /\ kind[Item(p).id] = p[1]
         /\ \A r \in Ids : r # Item(p).id =>
              /\ row'[r] = row[r] /\ sends'[r] = sends[r]
              /\ excused'[r] = excused[r] /\ told'[r] = told[r]
<1>1. pass[p] # Idle
  BY DEF Work, PassFails, Claim, ClaimFails, StartScan, SkipReport, SendMail, MailFails, AdvanceReport,
         BuildDigest, BuildFails, Deliver, AdvanceDigest, AdvanceFails, At
<1>2. Item(p).id \in Ids /\ kind[Item(p).id] = p[1] /\ pass[p].now \in Nat /\ now \in Nat
      /\ Item(p).next \in Nat
  BY <1>1, ItemAt DEF ItemType, Listed, Base, Typed
<1>3. Others(p)
  <2>1. \/ Drop(p) \/ BuildDigest(p) \/ \E phase \in {"claimed", "sending", "sent"} : Move(p, phase)
    BY DEF Work, PassFails, Claim, ClaimFails, StartScan, SkipReport, SendMail, MailFails, AdvanceReport,
           BuildFails, Deliver, AdvanceDigest, AdvanceFails
  <2>2. QED
    BY <1>1, <2>1, DropDrops, MoveMoves, BuildMoves
<1>4. \A r \in Ids : r # Item(p).id => row'[r] = row[r]
  <2>1. \/ row' = row
        \/ \E last \in Nat, next \in Nat : row' = Written(Item(p).id, last, next)
    <3>1. pass[p].now + Period \in Nat /\ now + Period \in Nat /\ NextDigest(Item(p).next) \in Nat
      BY <1>2, NextDigestType, PeriodAssumption
    <3>2. QED
      BY <1>2, <3>1 DEF Work, PassFails, Claim, ClaimFails, StartScan, SkipReport, SendMail, MailFails,
         AdvanceReport, BuildDigest, BuildFails, Deliver, AdvanceDigest, AdvanceFails
  <2>2. QED
    BY <1>2, <2>1, WrittenRows DEF Base
<1>5. \A r \in Ids : r # Item(p).id => sends'[r] = sends[r]
  <2>1. sends' = sends \/ \E at \in Nat : Sent(Item(p).id, at)
    BY <1>2 DEF Work, PassFails, Claim, ClaimFails, StartScan, SkipReport, SendMail, MailFails, AdvanceReport,
       BuildDigest, BuildFails, Deliver, AdvanceDigest, AdvanceFails, history
  <2>2. QED
    BY <1>2, <2>1, SentSends DEF Base
<1>6. \A r \in Ids : r # Item(p).id => excused'[r] = excused[r]
  <2>1. excused' = excused \/ \E v : excused' = [excused EXCEPT ![Item(p).id] = v]
    BY DEF Work, PassFails, Claim, ClaimFails, StartScan, SkipReport, SendMail, MailFails, AdvanceReport,
       BuildDigest, BuildFails, Deliver, AdvanceDigest, AdvanceFails, history
  <2>2. QED
    BY <2>1 DEF Base, Typed
<1>7. \A r \in Ids : r # Item(p).id => told'[r] = told[r]
  <2>1. told' = told \/ \E v : told' = [told EXCEPT ![Item(p).id] = v]
    BY DEF Work, PassFails, Claim, ClaimFails, StartScan, SkipReport, SendMail, MailFails, AdvanceReport,
       BuildDigest, BuildFails, Deliver, AdvanceDigest, AdvanceFails, history
  <2>2. QED
    BY <2>1 DEF Base, Typed
<1>8. QED
  BY <1>1, <1>2, <1>3, <1>4, <1>5, <1>6, <1>7

\* What a step of users and time does to a row.
LEMMA UserTouches ==
  ASSUME Base, NEW s \in Ids,
         \/ \E r \in Ids : Create(r) \/ Toggle(r) \/ Delete(r)
         \/ Clock \/ UNCHANGED vars
  PROVE  \/ row'[s] = row[s]
         \/ row'[s] = Gone /\ row[s] # NoRow
         \/ row[s] = NoRow /\ row'[s] = [enabled |-> TRUE, created |-> now, last |-> Never,
                                         next |-> now + Period]
         \/ /\ Exists(s) /\ row'[s] \notin {NoRow, Gone}
            /\ row'[s].created = row[s].created /\ row'[s].last = row[s].last
            /\ row'[s].next = row[s].next
<1>1. ASSUME NEW r \in Ids, Toggle(r), r = s
      PROVE  /\ Exists(s) /\ row'[s] \notin {NoRow, Gone}
             /\ row'[s].created = row[s].created /\ row'[s].last = row[s].last
             /\ row'[s].next = row[s].next
  <2>1. row[s] \in Rows /\ Exists(s)
    BY <1>1 DEF Toggle, Exists, Base, Typed
  <2>2. row'[s] = [row[s] EXCEPT !.enabled = ~row[s].enabled]
    BY <1>1 DEF Toggle, Base, Typed
  <2>3. row'[s] \in Rows
    BY <2>1, <2>2 DEF Rows
  <2>4. QED
    BY <2>1, <2>2, <2>3, NameAssumption DEF Rows
<1>2. ASSUME NEW r \in Ids, Toggle(r), r # s PROVE row'[s] = row[s]
  BY <1>2 DEF Toggle, Base, Typed
<1>3. ASSUME NEW r \in Ids, Delete(r)
      PROVE  row'[s] = row[s] \/ (row'[s] = Gone /\ row[s] # NoRow)
  BY <1>3 DEF Delete, Exists, Base, Typed
<1>4. ASSUME NEW r \in Ids, Create(r)
      PROVE  \/ row'[s] = row[s]
             \/ row[s] = NoRow /\ row'[s] = [enabled |-> TRUE, created |-> now, last |-> Never,
                                            next |-> now + Period]
  BY <1>4 DEF Create, Base, Typed
<1>5. CASE Clock \/ UNCHANGED vars
  BY <1>5 DEF Clock, vars
<1>6. QED
  BY <1>1, <1>2, <1>3, <1>4, <1>5

-----------------------------------------------------------------------------
(* Scans *)

Spaced(s) ==
  kind[s] = "scan" =>
    /\ row[s] = NoRow => sends[s] = <<>>
    /\ Exists(s) /\ sends[s] # <<>> => row[s].next >= Last(sends[s]).at + Period
    /\ Len(sends[s]) = 2 => sends[s][2].at >= sends[s][1].at + Period

ListSpaced(p) ==
  p[1] = "scan" /\ pass[p] # Idle =>
    /\ \A i \in 1..Len(pass[p].todo) :
         sends[pass[p].todo[i].id] # <<>> =>
           pass[p].now >= Last(sends[pass[p].todo[i].id]).at + Period
    /\ pass[p].phase = "claimed" /\ row[pass[p].todo[1].id] # Gone =>
         row[pass[p].todo[1].id].next = pass[p].now + Period

Spacing == (\A s \in Ids : Spaced(s)) /\ (\A p \in Slots : ListSpaced(p))

LEMMA OneScanSlot ==
  ASSUME NEW p \in Slots, NEW q \in Slots, p[1] = "scan", q[1] = "scan" PROVE p = q
BY DEF Slots

\* A step that starts no scan and writes no run time of one.
QuietRows(s) ==
  /\ sends'[s] = sends[s]
  /\ \/ row'[s] = Gone /\ row[s] # NoRow
     \/ row[s] = NoRow
     \/ row[s] = Gone /\ row'[s] = Gone
     \/ row[s] # Gone /\ row'[s] \notin {NoRow, Gone} /\ row'[s].next = row[s].next

QuietPass(p) ==
  \/ pass'[p] = Idle
  \/ Keeps(p) \/ Drops(p)
  \/ Begins(p) /\ \A i \in 1..Len(pass'[p].todo) : Due(pass'[p].todo[i].id)

LEMMA QuietSpacing ==
  ASSUME Base, Spacing, Along,
         \A s \in Ids : kind[s] = "scan" => QuietRows(s),
         \A p \in Slots : p[1] = "scan" => QuietPass(p)
  PROVE  Spacing'
<1>0. kind' = kind /\ now \in Nat /\ now' \in Nat /\ now <= now'
  BY DEF Along, Base, Typed
<1>1. ASSUME NEW s \in Ids, kind[s] = "scan"
      PROVE  Spaced(s)'
  <2>1. QuietRows(s) /\ Spaced(s)
    BY <1>1 DEF Spacing
  <2>2. row'[s] = NoRow => row[s] = NoRow
    BY <2>1, NameAssumption DEF QuietRows
  <2>3. QED
    BY <1>0, <1>1, <2>1, <2>2 DEF QuietRows, Spaced, Exists
<1>2. ASSUME NEW p \in Slots, p[1] = "scan", pass'[p] # Idle
      PROVE  ListSpaced(p)'
  <2>0. QuietPass(p) /\ ListSpaced(p)
    BY <1>2 DEF Spacing
  <2>1. CASE Keeps(p)
    <3>1. /\ \A i \in 1..Len(pass[p].todo) : pass[p].todo[i].id \in Ids /\ kind[pass[p].todo[i].id] = "scan"
          /\ 1 \in 1..Len(pass[p].todo) /\ row[pass[p].todo[1].id] # NoRow
      BY <1>2, <2>1, ItemAt, PassFields DEF Keeps, Base, PassOK, Listed, ItemType
    <3>2. \A i \in 1..Len(pass[p].todo) : QuietRows(pass[p].todo[i].id)
      BY <3>1
    <3>3. QED
      BY <1>0, <1>2, <2>0, <2>1, <3>1, <3>2, NameAssumption DEF Keeps, ListSpaced, QuietRows
  <2>2. CASE Drops(p)
    <3>1. /\ pass[p] # Idle /\ pass'[p].now = pass[p].now /\ pass'[p].phase = "next"
          /\ pass'[p] \in Passes /\ Len(pass'[p].todo) = Len(pass[p].todo) - 1
          /\ \A i \in 1..Len(pass'[p].todo) : pass'[p].todo[i] = pass[p].todo[i + 1]
      BY <1>2, <2>2 DEF Drops
    <3>2. Len(pass[p].todo) \in Nat /\ Len(pass'[p].todo) \in Nat
      BY <3>1, PassFields DEF Base, PassOK
    <3>3. ASSUME NEW i \in 1..Len(pass'[p].todo)
          PROVE  sends'[pass'[p].todo[i].id] # <<>> =>
                   pass'[p].now >= Last(sends'[pass'[p].todo[i].id]).at + Period
      <4>1. i + 1 \in 1..Len(pass[p].todo)
        BY <3>1, <3>2
      <4>2. pass[p].todo[i + 1].id \in Ids /\ kind[pass[p].todo[i + 1].id] = "scan"
        BY <1>2, <3>1, <4>1, PassFields DEF Base, PassOK, Listed, ItemType
      <4>3. sends'[pass[p].todo[i + 1].id] = sends[pass[p].todo[i + 1].id]
        BY <4>2 DEF QuietRows
      <4>4. QED
        BY <1>2, <2>0, <3>1, <4>1, <4>3 DEF ListSpaced
    <3>4. QED
      BY <1>0, <3>1, <3>3 DEF ListSpaced
  <2>3. CASE Begins(p) /\ \A i \in 1..Len(pass'[p].todo) : Due(pass'[p].todo[i].id)
    <3>1. pass'[p].now = now /\ pass'[p].phase = "next" /\ pass'[p] \in Passes
      BY <2>3 DEF Begins
    <3>2. ASSUME NEW i \in 1..Len(pass'[p].todo)
          PROVE  sends'[pass'[p].todo[i].id] # <<>> =>
                   pass'[p].now >= Last(sends'[pass'[p].todo[i].id]).at + Period
      <4> DEFINE s == pass'[p].todo[i].id
      <4>1. s \in Ids /\ kind[s] = "scan" /\ Due(s)
        BY <1>2, <2>3, <3>1, PassFields DEF Begins, ItemType
      <4> HIDE DEF s
      <4>2. sends'[s] = sends[s] /\ Spaced(s)
        BY <4>1 DEF QuietRows, Spacing
      <4>3. row[s].next <= now /\ row[s].next \in Nat
        BY <4>1 DEF Due, Exists, Base, Typed, Rows
      <4>4. sends[s] # <<>> => Last(sends[s]).at + Period \in Nat
        <5>1. sends[s] # <<>> => Last(sends[s]) \in SendType
          BY <4>1 DEF Last, Base, Typed
        <5>2. QED
          BY <5>1, PeriodAssumption DEF SendType
      <4>5. sends[s] # <<>> => now >= Last(sends[s]).at + Period
        BY <1>0, <4>1, <4>2, <4>3, <4>4 DEF Due, Spaced
      <4>6. QED
        BY <3>1, <4>2, <4>5 DEF s
    <3>3. QED
      BY <1>0, <3>1, <3>2 DEF ListSpaced
  <2>4. QED
    BY <1>2, <2>0, <2>1, <2>2, <2>3 DEF QuietPass
<1>3. QED
  BY <1>0, <1>1, <1>2 DEF Spacing, Spaced, ListSpaced

LEMMA ClaimSpacing == ASSUME Base, Spacing, NEW p \in Slots, Claim(p) PROVE Spacing'
<1> DEFINE s == Item(p).id
<1>1. /\ pass[p] # Idle /\ p[1] = "scan" /\ Move(p, "claimed") /\ sends' = sends /\ kind' = kind
      /\ row' = Written(s, pass[p].now, pass[p].now + Period)
  BY DEF Claim, At, history
<1>2. /\ s \in Ids /\ kind[s] = "scan" /\ row[s] # NoRow
      /\ pass[p].now \in Nat /\ pass[p].now + Period \in Nat
      /\ 1 \in 1..Len(pass[p].todo) /\ s = pass[p].todo[1].id
  BY <1>1, ItemAt, PassFields, PeriodAssumption DEF Listed, ItemType
<1>3. /\ \A r \in Ids : r # s => row'[r] = row[r]
      /\ \A r \in Ids : Exists(r)' = Exists(r)
      /\ Exists(s) => row'[s].next = pass[p].now + Period
      /\ row'[s] # NoRow
  <2>1. \A r \in Ids : Stays(r)
    BY <1>1, <1>2, WrittenRows DEF Base
  <2>2. QED
    BY <1>1, <1>2, <2>1, WrittenRows DEF Base, Stays
<1>4. Moves(p) /\ Others(p) /\ pass'[p].phase = "claimed"
  BY <1>1, MoveMoves
<1>5. sends[s] # <<>> => pass[p].now >= Last(sends[s]).at + Period
  BY <1>1, <1>2 DEF Spacing, ListSpaced
<1> HIDE DEF s
<1>6. ASSUME NEW r \in Ids, kind[r] = "scan"
      PROVE  Spaced(r)'
  <2>1. CASE r = s
    <3>1. sends[s] # <<>> => Last(sends[s]).at \in Nat
      <4>1. sends[s] # <<>> => Last(sends[s]) \in SendType
        BY <1>2 DEF Last, Base, Typed
      <4>2. QED
        BY <4>1 DEF SendType
    <3>2. Exists(s) /\ sends[s] # <<>> => row'[s].next >= Last(sends[s]).at + Period
      BY <1>2, <1>3, <1>5, <3>1, PeriodAssumption
    <3>3. Spaced(s)
      BY <1>2 DEF Spacing
    <3>4. QED
      BY <1>1, <1>2, <1>3, <1>6, <2>1, <3>2, <3>3 DEF Spaced, Exists
  <2>2. CASE r # s
    BY <1>1, <1>3, <1>6, <2>2 DEF Spacing, Spaced, Exists
  <2>3. QED
    BY <2>1, <2>2
<1>7. ASSUME NEW q \in Slots, q[1] = "scan", pass'[q] # Idle
      PROVE  ListSpaced(q)'
  <2>1. q = p
    BY <1>1, <1>7, OneScanSlot
  <2>2. pass'[p].todo = pass[p].todo /\ pass'[p].now = pass[p].now
    BY <1>4 DEF Moves
  <2>3. row'[s] # Gone => row'[s].next = pass[p].now + Period
    BY <1>2, <1>3 DEF Exists
  <2>4. QED
    BY <1>1, <1>2, <2>1, <2>2, <2>3 DEF Spacing, ListSpaced
<1>8. QED
  BY <1>1, <1>6, <1>7 DEF Spacing, Spaced, ListSpaced

LEMMA StartSpacing ==
  ASSUME Base, Spacing, NEW p \in Slots, StartScan(p), Sent(Item(p).id, pass[p].now)
  PROVE  Spacing'
<1> DEFINE s == Item(p).id
<1>1. /\ pass[p] # Idle /\ p[1] = "scan" /\ pass[p].phase = "claimed" /\ Drop(p)
      /\ row' = row /\ kind' = kind
  BY DEF StartScan, At
<1>2. /\ s \in Ids /\ kind[s] = "scan" /\ row[s] # NoRow
      /\ pass[p].now \in Nat /\ pass[p].now + Period \in Nat
      /\ 1 \in 1..Len(pass[p].todo) /\ Len(pass[p].todo) \in Nat /\ s = pass[p].todo[1].id
  BY <1>1, ItemAt, PassFields, PeriodAssumption DEF Listed, ItemType
<1>3. /\ sends[s] # <<>> => pass[p].now >= Last(sends[s]).at + Period
      /\ row[s] # Gone => row[s].next = pass[p].now + Period
  BY <1>1, <1>2 DEF Spacing, ListSpaced
<1>4. /\ \A r \in Ids : r # s => sends'[r] = sends[r]
      /\ sends'[s] # <<>> /\ Last(sends'[s]).at = pass[p].now
      /\ Len(sends'[s]) = 2 => /\ sends[s] # <<>> /\ sends'[s][1] = Last(sends[s])
                              /\ sends'[s][2].at = pass[p].now
  <2>1. Sent(s, pass[p].now) /\ Typed
    BY DEF Base
  <2> HIDE DEF s
  <2>2. /\ \A r \in Ids : r # s => sends'[r] = sends[r]
        /\ sends'[s] # <<>> /\ Last(sends'[s]).at = pass[p].now
        /\ Len(sends'[s]) = 2 => /\ sends[s] # <<>> /\ sends'[s][1] = Last(sends[s])
                                /\ sends'[s][2] = [at |-> pass[p].now, cause |-> excused[s]]
    BY <1>2, <2>1, SentSends
  <2>3. QED
    BY <2>2
<1>5. Drops(p)
  BY <1>1, DropDrops
<1> HIDE DEF s
<1>6. ASSUME NEW r \in Ids, kind[r] = "scan"
      PROVE  Spaced(r)'
  <2>1. CASE r = s
    BY <1>1, <1>2, <1>3, <1>4, <2>1 DEF Spaced, Exists
  <2>2. CASE r # s
    BY <1>1, <1>4, <1>6, <2>2 DEF Spacing, Spaced, Exists
  <2>3. QED
    BY <2>1, <2>2
<1>7. ASSUME NEW q \in Slots, q[1] = "scan", pass'[q] # Idle
      PROVE  ListSpaced(q)'
  <2>1. q = p
    BY <1>1, <1>7, OneScanSlot
  <2>2. /\ pass'[p].now = pass[p].now /\ pass'[p].phase = "next" /\ pass'[p] \in Passes
        /\ Len(pass'[p].todo) = Len(pass[p].todo) - 1
        /\ \A i \in 1..Len(pass'[p].todo) : pass'[p].todo[i] = pass[p].todo[i + 1]
    BY <1>5, <1>7, <2>1 DEF Drops
  <2>3. ASSUME NEW i \in 1..Len(pass'[p].todo)
        PROVE  sends'[pass'[p].todo[i].id] # <<>> =>
                 pass'[p].now >= Last(sends'[pass'[p].todo[i].id]).at + Period
    <3>1. i + 1 \in 1..Len(pass[p].todo) /\ i + 1 # 1
      BY <1>2, <2>2, PassFields
    <3>2. pass[p].todo[i + 1].id # s
      BY <1>1, <1>2, <3>1 DEF Base, PassOK
    <3>3. pass[p].todo[i + 1].id \in Ids
      BY <1>1, <3>1, PassFields DEF Base, PassOK, ItemType
    <3>4. sends'[pass[p].todo[i + 1].id] = sends[pass[p].todo[i + 1].id]
      BY <1>4, <3>2, <3>3
    <3>5. QED
      BY <1>1, <2>2, <3>1, <3>4 DEF Spacing, ListSpaced
  <2>4. QED
    BY <1>1, <2>1, <2>2, <2>3 DEF ListSpaced
<1>8. QED
  BY <1>1, <1>6, <1>7 DEF Spacing, Spaced, ListSpaced

LEMMA SpacingStep == ASSUME Base, Spacing, [Next]_vars PROVE Spacing'
<1>0. Along
  BY NextAlong
<1>1. CASE \/ \E s \in Ids : Create(s) \/ Toggle(s) \/ Delete(s)
           \/ Clock \/ UNCHANGED vars
  <2>1. pass' = pass /\ sends' = sends
    BY <1>1 DEF Create, Toggle, Delete, Clock, vars, history
  <2>2. \A s \in Ids : QuietRows(s)
    BY <1>1, <2>1, UserTouches, NameAssumption DEF QuietRows, Exists
  <2>3. \A p \in Slots : QuietPass(p)
    BY <2>1 DEF QuietPass, Keeps
  <2>4. QED
    BY <1>0, <2>2, <2>3, QuietSpacing
<1>2. ASSUME NEW p \in Slots, Tick(p) \/ \E s \in Ids : SendNow(p, s)
      PROVE  Spacing'
  <2>1. row' = row /\ sends' = sends
    BY <1>2 DEF Tick, SendNow, Begin
  <2>2. \A s \in Ids : QuietRows(s)
    BY <2>1 DEF QuietRows
  <2>3. Others(p) /\ (p[1] = "scan" => QuietPass(p))
    <3>1. CASE Tick(p)
      BY <3>1, TickBegins DEF QuietPass
    <3>2. CASE \E s \in Ids : SendNow(p, s)
      BY <3>2, SendNowBegins DEF SendNow
    <3>3. QED
      BY <1>2, <3>1, <3>2
  <2>4. \A q \in Slots : q[1] = "scan" => QuietPass(q)
    BY <2>3 DEF Others, QuietPass, Keeps
  <2>5. QED
    BY <1>0, <2>2, <2>4, QuietSpacing
<1>3. CASE Crash
  <2>1. row' = row /\ sends' = sends /\ \A p \in Slots : pass'[p] = Idle
    BY <1>3 DEF Crash
  <2>2. QED
    BY <1>0, <2>1, QuietSpacing DEF QuietRows, QuietPass
<1>4. ASSUME NEW p \in Slots, Work(p) \/ PassFails(p)
      PROVE  Spacing'
  <2>1. CASE p[1] # "scan"
    <3>1. /\ Others(p) /\ kind[Item(p).id] # "scan"
          /\ \A r \in Ids : r # Item(p).id => row'[r] = row[r] /\ sends'[r] = sends[r]
      BY <1>4, <2>1, WorkTouches
    <3>2. \A s \in Ids : kind[s] = "scan" => QuietRows(s)
      BY <3>1 DEF QuietRows
    <3>3. \A q \in Slots : q[1] = "scan" => QuietPass(q)
      BY <2>1, <3>1 DEF Others, QuietPass, Keeps
    <3>4. QED
      BY <1>0, <3>2, <3>3, QuietSpacing
  <2>2. CASE p[1] = "scan"
    <3>1. Claim(p) \/ ClaimFails(p) \/ StartScan(p)
      BY <1>4, <2>2 DEF Work, PassFails, SkipReport, SendMail, MailFails, AdvanceReport, BuildDigest,
         BuildFails, Deliver, AdvanceDigest, AdvanceFails
    <3>2. CASE ClaimFails(p) \/ (StartScan(p) /\ sends' = sends)
      <4>1. pass[p] # Idle /\ Drop(p) /\ row' = row /\ sends' = sends
        BY <3>2 DEF ClaimFails, StartScan, At, history
      <4>2. Drops(p) /\ Others(p)
        BY <4>1, DropDrops
      <4>3. \A q \in Slots : QuietPass(q)
        BY <4>2 DEF Others, QuietPass, Keeps
      <4>4. QED
        BY <1>0, <4>1, <4>3, QuietSpacing DEF QuietRows
    <3>3. QED
      BY <3>1, <3>2, ClaimSpacing, StartSpacing DEF StartScan
  <2>3. QED
    BY <2>1, <2>2
<1>5. QED
  BY <1>1, <1>2, <1>3, <1>4 DEF Next

\* A schedule starts at most one scan in a period (scheduler.ts: the claim before the
\* start and the guard that lets one tick run at a time), for any number of schedules,
\* whatever is paused, deleted, refused or stopped in between.
THEOREM StartsApart == Spec => []StartsArePeriodApart
<1>1. Init => Spacing
  BY DEF Init, Spacing, Spaced, ListSpaced, Exists
<1>2. Base /\ Spacing /\ [Next]_vars => Spacing'
  BY SpacingStep
<1>3. Spacing => StartsArePeriodApart
  BY DEF Spacing, Spaced, StartsArePeriodApart
<1>4. QED
  BY <1>1, <1>2, <1>3, BaseHolds, PTL DEF Spec

-----------------------------------------------------------------------------
(* Digests *)

Covered(s) ==
  kind[s] = "digest" /\ Exists(s) /\ row[s].last # Never =>
    row[s].created..row[s].last \subseteq told[s]

ListCovered(p) ==
  p[1] = "digest" /\ pass[p] # Idle =>
    /\ \A i \in 1..Len(pass[p].todo) :
         pass[p].todo[i].last # Never =>
           pass[p].todo[i].created..pass[p].todo[i].last \subseteq told[pass[p].todo[i].id]
    /\ pass[p].phase = "sent" =>
         pass[p].todo[1].created..pass[p].end \subseteq told[pass[p].todo[1].id]

Coverage == (\A s \in Ids : Covered(s)) /\ (\A p \in Slots : ListCovered(p))

LEMMA Between ==
  ASSUME NEW a \in Nat, NEW b \in Nat, NEW c \in Nat, NEW T, NEW U,
         a..b \subseteq T, b..c \subseteq U, T \subseteq U
  PROVE  a..c \subseteq U
OBVIOUS

LEMMA ToldGrows == ASSUME Base, [Next]_vars PROVE \A s \in Ids : told[s] \subseteq told'[s]
<1>1. \/ told' = told
      \/ \E p \in Slots : \E S : told' = [told EXCEPT ![Item(p).id] = told[Item(p).id] \cup S]
  BY DEF Next, Create, Toggle, Delete, Clock, vars, history, Tick, SendNow, Begin, Crash, Work, PassFails,
         Claim, ClaimFails, StartScan, SkipReport, SendMail, MailFails, AdvanceReport, BuildDigest,
         BuildFails, Deliver, AdvanceDigest, AdvanceFails
<1>2. QED
  BY <1>1 DEF Base, Typed

LEMMA ListCoverage ==
  ASSUME Base, Coverage, Along, \A s \in Ids : told[s] \subseteq told'[s],
         NEW p \in Slots, p[1] = "digest", pass'[p] # Idle,
         \/ Keeps(p) \/ Drops(p) \/ Begins(p)
         \/ /\ Moves(p)
            /\ pass'[p].phase = "sent" =>
                 pass'[p].todo[1].created..pass'[p].end \subseteq told'[pass'[p].todo[1].id]
  PROVE  ListCovered(p)'
<1>1. ASSUME Keeps(p) \/ Moves(p)
      PROVE  \A i \in 1..Len(pass'[p].todo) :
               pass'[p].todo[i].last # Never =>
                 pass'[p].todo[i].created..pass'[p].todo[i].last \subseteq told'[pass'[p].todo[i].id]
  <2>1. pass[p] # Idle /\ pass'[p].todo = pass[p].todo
    BY <1>1 DEF Keeps, Moves
  <2>2. \A i \in 1..Len(pass[p].todo) : pass[p].todo[i].id \in Ids
    BY <2>1, PassFields DEF Base, PassOK, ItemType
  <2>3. QED
    BY <2>1, <2>2 DEF Coverage, ListCovered
<1>2. CASE Keeps(p)
  <2>1. pass[p] # Idle /\ pass'[p] = pass[p] /\ pass[p].todo[1].id \in Ids
    BY <1>2, ItemAt DEF Keeps, ItemType
  <2>2. QED
    BY <1>1, <1>2, <2>1 DEF Coverage, ListCovered
<1>3. CASE Moves(p)
  <2>1. Keeps(p) \/ (pass'[p].phase = "sent" =>
                 pass'[p].todo[1].created..pass'[p].end \subseteq told'[pass'[p].todo[1].id])
    BY <1>3, NameAssumption DEF Moves, Drops, Begins
  <2>2. QED
    BY <1>1, <1>2, <1>3, <2>1 DEF ListCovered
<1>4. CASE Drops(p)
  <2>1. /\ pass[p] # Idle /\ pass'[p] \in Passes /\ pass'[p].phase = "next"
        /\ Len(pass'[p].todo) = Len(pass[p].todo) - 1
        /\ \A i \in 1..Len(pass'[p].todo) : pass'[p].todo[i] = pass[p].todo[i + 1]
    BY <1>4 DEF Drops
  <2>2. Len(pass[p].todo) \in Nat /\ Len(pass'[p].todo) \in Nat
    BY <2>1, PassFields DEF Base, PassOK
  <2>3. ASSUME NEW i \in 1..Len(pass'[p].todo), pass'[p].todo[i].last # Never
        PROVE  pass'[p].todo[i].created..pass'[p].todo[i].last \subseteq told'[pass'[p].todo[i].id]
    <3>1. i + 1 \in 1..Len(pass[p].todo)
      BY <2>1, <2>2
    <3>2. pass[p].todo[i + 1].id \in Ids
      BY <2>1, <3>1, PassFields DEF Base, PassOK, ItemType
    <3>3. QED
      BY <2>1, <2>3, <3>1, <3>2 DEF Coverage, ListCovered
  <2>4. QED
    BY <2>1, <2>3 DEF ListCovered
<1>5. CASE Begins(p)
  <2>1. pass'[p] \in Passes /\ pass'[p].phase = "next"
    BY <1>5 DEF Begins
  <2>2. ASSUME NEW i \in 1..Len(pass'[p].todo), pass'[p].todo[i].last # Never
        PROVE  pass'[p].todo[i].created..pass'[p].todo[i].last \subseteq told'[pass'[p].todo[i].id]
    <3> DEFINE item == pass'[p].todo[i]
    <3>1. item.id \in Ids /\ Exists(item.id) /\ kind[item.id] = "digest" /\ item = Listing(item.id)
      BY <1>5, <2>1, PassFields DEF Begins, ItemType
    <3>2. item.created = row[item.id].created /\ item.last = row[item.id].last
      BY <3>1 DEF Listing
    <3>3. Covered(item.id)
      BY <3>1 DEF Coverage
    <3>4. item.created..item.last \subseteq told[item.id]
      BY <2>2, <3>1, <3>2, <3>3 DEF Covered
    <3>5. QED
      BY <3>1, <3>4
  <2>3. QED
    BY <2>1, <2>2 DEF ListCovered
<1>6. QED
  BY <1>2, <1>3, <1>4, <1>5

\* The two steps that tell: what was delivered joins what was told before.
LEMMA DeliverCovers ==
  ASSUME Base, Coverage, NEW p \in Slots, Deliver(p)
  PROVE  /\ Moves(p) /\ p[1] = "digest"
         /\ pass'[p].todo[1].created..pass'[p].end \subseteq told'[pass'[p].todo[1].id]
<1> DEFINE item == pass[p].todo[1]
<1>1. /\ pass[p] # Idle /\ p[1] = "digest" /\ Move(p, "sent")
      /\ told' = [told EXCEPT ![Item(p).id] = told[Item(p).id] \cup PeriodStart(Item(p))..pass[p].end]
  BY DEF Deliver, At
<1>2. Moves(p) /\ pass'[p].end = pass[p].end /\ pass'[p].todo = pass[p].todo
  BY <1>1, MoveMoves DEF Moves
<1>3. item \in ItemType /\ Item(p) = item /\ 1 \in 1..Len(pass[p].todo) /\ pass[p].end \in Nat
  BY <1>1, ItemAt, PassFields
<1>4. item.id \in Ids /\ item.created \in Nat /\ (item.last # Never => item.last \in Nat)
  BY <1>3 DEF ItemType
<1>5. told'[item.id] = told[item.id] \cup PeriodStart(item)..pass[p].end
  BY <1>1, <1>3, <1>4 DEF Base, Typed
<1>6. item.last # Never => item.created..item.last \subseteq told[item.id]
  BY <1>1, <1>3 DEF Coverage, ListCovered
<1> HIDE DEF item
<1>7. item.created..pass[p].end \subseteq told'[item.id]
  <2>1. CASE item.last = Never
    BY <1>5, <2>1 DEF PeriodStart
  <2>2. CASE item.last # Never
    <3>1. item.last..pass[p].end \subseteq told'[item.id]
      BY <1>5, <2>2 DEF PeriodStart
    <3>2. told[item.id] \subseteq told'[item.id]
      BY <1>5
    <3>3. QED
      BY <1>3, <1>4, <1>6, <2>2, <3>1, <3>2, Between
  <2>3. QED
    BY <2>1, <2>2
<1>8. QED
  BY <1>1, <1>2, <1>7 DEF item

LEMMA AdvanceCovers ==
  ASSUME Base, Coverage, NEW p \in Slots, AdvanceDigest(p), NEW s \in Ids, s = Item(p).id
  PROVE  Covered(s)'
<1> DEFINE item == pass[p].todo[1]
<1>1. /\ pass[p] # Idle /\ p[1] = "digest" /\ pass[p].phase = "sent" /\ kind' = kind
      /\ row' = Written(Item(p).id, now, NextDigest(Item(p).next))
      /\ told' = [told EXCEPT ![Item(p).id] = told[Item(p).id] \cup pass[p].end..now]
  BY DEF AdvanceDigest, At
<1>2. /\ item \in ItemType /\ Item(p) = item /\ 1 \in 1..Len(pass[p].todo) /\ pass[p].end \in Nat
      /\ Listed(p, 1) /\ now \in Nat
  BY <1>1, ItemAt, PassFields DEF Base, Typed
<1>3. item.id \in Ids /\ item.created \in Nat /\ item.next \in Nat
  BY <1>2 DEF ItemType
<1>4. NextDigest(item.next) \in Nat
  BY <1>2, <1>3, NextDigestType
<1>5. item.created..pass[p].end \subseteq told[item.id]
  BY <1>1 DEF Coverage, ListCovered
<1>6. Exists(item.id) => row[item.id].created = item.created
  BY <1>2 DEF Listed
<1> HIDE DEF item
<1>7. told'[item.id] = told[item.id] \cup pass[p].end..now
  BY <1>1, <1>2, <1>3 DEF Base, Typed
<1>8. item.created..now \subseteq told'[item.id]
  BY <1>2, <1>3, <1>5, <1>7, Between
<1>9. /\ Exists(s)' = Exists(s)
      /\ Exists(s) => row'[s].last = now /\ row'[s].created = row[s].created
  <2> DEFINE next == NextDigest(item.next)
  <2>1. row' = Written(s, now, next) /\ next \in Nat /\ Typed
    BY <1>1, <1>2, <1>3, <1>4 DEF Base
  <2> HIDE DEF next
  <2>2. QED
    BY <1>2, <2>1, WrittenRows
<1>10. s = item.id
  BY <1>2
<1>11. row'[s].created..now \subseteq told'[s] \/ ~Exists(s)
  BY <1>6, <1>8, <1>9, <1>10
<1>12. QED
  BY <1>9, <1>11 DEF Covered

LEMMA CoverageStep == ASSUME Base, Coverage, [Next]_vars PROVE Coverage'
<1>0. Along /\ (\A s \in Ids : told[s] \subseteq told'[s]) /\ kind' = kind
  BY NextAlong, ToldGrows DEF Along
<1>1. ASSUME NEW s \in Ids,
             \/ row'[s] \in {NoRow, Gone, row[s]}
             \/ row'[s].last = Never
             \/ Exists(s) /\ row'[s].created = row[s].created /\ row'[s].last = row[s].last
      PROVE  Covered(s)'
  BY <1>0, <1>1 DEF Coverage, Covered, Exists
<1>2. CASE \/ \E s \in Ids : Create(s) \/ Toggle(s) \/ Delete(s)
           \/ Clock \/ UNCHANGED vars
  <2>1. \A p \in Slots : Keeps(p)
    BY <1>2 DEF Create, Toggle, Delete, Clock, vars, Keeps
  <2>2. ASSUME NEW s \in Ids PROVE Covered(s)'
    <3>1. \/ row'[s] \in {NoRow, Gone, row[s]}
          \/ row'[s].last = Never
          \/ Exists(s) /\ row'[s].created = row[s].created /\ row'[s].last = row[s].last
      BY <1>2, UserTouches
    <3>2. QED
      BY <1>1, <3>1
  <2>3. \A p \in Slots : ListCovered(p)'
    BY <1>0, <2>1, ListCoverage DEF ListCovered
  <2>4. QED
    BY <2>2, <2>3 DEF Coverage
<1>3. ASSUME NEW p \in Slots, Tick(p) \/ \E s \in Ids : SendNow(p, s)
      PROVE  Coverage'
  <2>1. row' = row /\ Begins(p) /\ Others(p)
    BY <1>3, TickBegins, SendNowBegins DEF Tick, SendNow, Begin
  <2>2. \A s \in Ids : Covered(s)'
    BY <1>1, <2>1
  <2>3. \A q \in Slots : Keeps(q) \/ Begins(q)
    BY <2>1 DEF Others, Keeps
  <2>4. \A q \in Slots : ListCovered(q)'
    BY <1>0, <2>3, ListCoverage DEF ListCovered
  <2>5. QED
    BY <2>2, <2>4 DEF Coverage
<1>4. CASE Crash
  <2>1. row' = row /\ \A p \in Slots : pass'[p] = Idle
    BY <1>4 DEF Crash
  <2>2. QED
    BY <1>1, <2>1 DEF Coverage, ListCovered
<1>5. ASSUME NEW p \in Slots, Work(p) \/ PassFails(p)
      PROVE  Coverage'
  <2>1. /\ pass[p] # Idle /\ Others(p) /\ Item(p).id \in Ids /\ kind[Item(p).id] = p[1]
        /\ \A r \in Ids : r # Item(p).id => row'[r] = row[r]
    BY <1>5, WorkTouches
  <2>2. ASSUME NEW s \in Ids, s = Item(p).id PROVE Covered(s)'
    <3>1. CASE p[1] # "digest"
      BY <1>0, <2>1, <2>2, <3>1 DEF Covered
    <3>2. CASE AdvanceDigest(p)
      BY <2>2, <3>2, AdvanceCovers
    <3>3. CASE p[1] = "digest" /\ ~AdvanceDigest(p)
      <4>1. row' = row
        BY <1>5, <3>3 DEF Work, PassFails, Claim, ClaimFails, StartScan, SkipReport, SendMail, MailFails,
           AdvanceReport, BuildDigest, BuildFails, Deliver, AdvanceFails
      <4>2. QED
        BY <1>1, <2>1, <4>1
    <3>4. QED
      BY <3>1, <3>2, <3>3
  <2>3. ASSUME NEW s \in Ids PROVE Covered(s)'
    BY <1>1, <2>1, <2>2
  <2>4. ASSUME p[1] = "digest", pass'[p] # Idle PROVE ListCovered(p)'
    <3>1. CASE Deliver(p)
      BY <1>0, <2>4, <3>1, DeliverCovers, ListCoverage
    <3>2. CASE BuildDigest(p)
      BY <1>0, <2>4, <3>2, BuildMoves, ListCoverage
    <3>3. CASE ~Deliver(p) /\ ~BuildDigest(p)
      <4>1. Drop(p)
        BY <1>5, <2>4, <3>3 DEF Work, PassFails, Claim, ClaimFails, StartScan, SkipReport, SendMail, MailFails,
           AdvanceReport, BuildFails, AdvanceDigest, AdvanceFails
      <4>2. QED
        BY <1>0, <2>1, <2>4, <4>1, DropDrops, ListCoverage
    <3>4. QED
      BY <3>1, <3>2, <3>3
  <2>5. ASSUME NEW q \in Slots PROVE ListCovered(q)'
    <3>1. CASE q = p
      BY <2>4, <3>1 DEF ListCovered
    <3>2. CASE q # p
      <4>1. Keeps(q)
        BY <2>1, <3>2 DEF Others, Keeps
      <4>2. QED
        BY <1>0, <4>1, ListCoverage DEF ListCovered
    <3>3. QED
      BY <3>1, <3>2
  <2>6. QED
    BY <2>3, <2>5 DEF Coverage
<1>6. QED
  BY <1>2, <1>3, <1>4, <1>5 DEF Next

\* Up to its last send a digest leaves out no instant but those of a delivery
\* (digest-scheduler.ts: the period is taken from the row as it was listed, ends when
\* the work begins, and the row is moved on last), for any number of overlapping
\* passes, failed builds and stops.
THEOREM GapsStayDeliveries == Spec => []GapsAreDeliveries
<1>1. Init => Coverage
  BY DEF Init, Coverage, Covered, ListCovered, Exists
<1>2. Base /\ Coverage /\ [Next]_vars => Coverage'
  BY CoverageStep
<1>3. Coverage => GapsAreDeliveries
  BY DEF Coverage, Covered, GapsAreDeliveries
<1>4. QED
  BY <1>1, <1>2, <1>3, BaseHolds, PTL DEF Spec

-----------------------------------------------------------------------------
(* E-mail reports *)

\* The pass has sent the mail of the schedule and not yet moved its row on.
SentFor(p, s) == pass[p] # Idle /\ pass[p].todo[1].id = s /\ pass[p].phase = "sent"

Caused(s) ==
  kind[s] = "email" =>
    /\ row[s] = NoRow => sends[s] = <<>>
    /\ sends[s] # <<>> => Last(sends[s]).at <= now
    /\ Exists(s) /\ sends[s] # <<>> /\ ~excused[s] =>
         \/ row[s].next >= Last(sends[s]).at + Period
         \/ \E p \in Slots : SentFor(p, s)
    /\ Len(sends[s]) = 2 => sends[s][2].cause \/ sends[s][2].at >= sends[s][1].at + Period

\* A schedule a pass has still to send may be sent without a cause.
Sendable(p, i) ==
  (i # 1 \/ pass[p].phase # "sent") /\ ~excused[pass[p].todo[i].id]
    /\ sends[pass[p].todo[i].id] # <<>> =>
      now >= Last(sends[pass[p].todo[i].id]).at + Period

ListCaused(p) ==
  p[1] = "email" /\ pass[p] # Idle => \A i \in 1..Len(pass[p].todo) : Sendable(p, i)

Causes == (\A s \in Ids : Caused(s)) /\ (\A p \in Slots : ListCaused(p))

LEMMA LastSend == ASSUME Typed, NEW s \in Ids, sends[s] # <<>> PROVE Last(sends[s]).at \in Nat
<1>1. Last(sends[s]) \in SendType
  BY DEF Last, Typed
<1>2. QED
  BY <1>1 DEF SendType

\* A schedule, or a pass, that a step leaves alone.
LEMMA CausedStays ==
  ASSUME Base, Along, NEW s \in Ids, Caused(s), sends'[s] = sends[s],
         excused[s] => excused'[s],
         \/ row'[s] \in {Gone, row[s]} /\ (row'[s] = NoRow => row[s] = NoRow)
         \/ Exists(s) /\ row'[s] # NoRow /\ row'[s].next = row[s].next
         \/ row[s] = NoRow,
         \A p \in Slots : SentFor(p, s) => excused'[s] \/ Keeps(p)
  PROVE  Caused(s)'
<1>1. kind' = kind /\ now \in Nat /\ now' \in Nat /\ now <= now'
  BY DEF Along, Base, Typed
<1>2. sends[s] # <<>> => Last(sends[s]).at \in Nat
  BY LastSend DEF Base
<1>3. \A p \in Slots : SentFor(p, s) => excused'[s] \/ SentFor(p, s)'
  BY DEF SentFor, Keeps
<1>4. CASE kind[s] = "email" /\ row[s] = NoRow
  BY <1>1, <1>4 DEF Caused
<1>5. CASE kind[s] = "email" /\ row[s] # NoRow
  <2>1. row'[s] # NoRow /\ (sends'[s] # <<>> => Last(sends'[s]).at <= now')
    BY <1>1, <1>2, <1>5, NameAssumption DEF Caused
  <2>2. Exists(s)' => Exists(s) /\ row'[s].next = row[s].next
    BY <1>5 DEF Exists
  <2>3. QED
    BY <1>3, <1>5, <2>1, <2>2 DEF Caused
<1>6. QED
  BY <1>1, <1>4, <1>5 DEF Caused

LEMMA KeptListCaused ==
  ASSUME Base, Along, NEW p \in Slots, ListCaused(p), Keeps(p),
         \A i \in 1..Len(pass[p].todo) :
           LET s == pass[p].todo[i].id IN
           excused'[s] \/ (sends'[s] = sends[s] /\ excused'[s] = excused[s])
  PROVE  ListCaused(p)'
<1>1. now \in Nat /\ now' \in Nat /\ now <= now'
  BY DEF Along, Base, Typed
<1>2. ASSUME p[1] = "email", pass[p] # Idle, NEW i \in 1..Len(pass[p].todo)
      PROVE  Sendable(p, i)'
  <2> DEFINE s == pass[p].todo[i].id
  <2>1. s \in Ids /\ Sendable(p, i)
    BY <1>2, PassFields DEF Base, PassOK, ItemType, ListCaused
  <2>2. sends[s] # <<>> => Last(sends[s]).at \in Nat
    BY <2>1, LastSend DEF Base
  <2>3. excused'[s] \/ (sends'[s] = sends[s] /\ excused'[s] = excused[s])
    BY <1>2
  <2>4. (i # 1 \/ pass[p].phase # "sent") /\ ~excused[s] /\ sends[s] # <<>> =>
          now >= Last(sends[s]).at + Period
    BY <2>1 DEF Sendable
  <2>5. pass'[p] = pass[p]
    BY DEF Keeps
  <2> HIDE DEF s
  <2>6. (i # 1 \/ pass[p].phase # "sent") /\ ~excused'[s] /\ sends'[s] # <<>> =>
          now' >= Last(sends'[s]).at + Period
    BY <1>1, <2>2, <2>3, <2>4, PeriodAssumption
  <2>7. QED
    BY <2>5, <2>6 DEF s, Sendable
<1>3. QED
  BY <1>2 DEF ListCaused, Keeps

\* The rest of the list of a pass that has done with its head.
LEMMA DroppedListCaused ==
  ASSUME Base, Along, NEW p \in Slots, ListCaused(p), Drops(p),
         \A r \in Ids : r # pass[p].todo[1].id => sends'[r] = sends[r] /\ excused'[r] = excused[r]
  PROVE  ListCaused(p)'
<1>1. now \in Nat /\ now' \in Nat /\ now <= now'
  BY DEF Along, Base, Typed
<1>2. ASSUME p[1] = "email", pass'[p] # Idle, NEW i \in 1..Len(pass'[p].todo)
      PROVE  Sendable(p, i)'
  <2> DEFINE s == pass[p].todo[i + 1].id
  <2>1. /\ pass[p] # Idle /\ pass'[p] \in Passes
        /\ Len(pass'[p].todo) = Len(pass[p].todo) - 1
        /\ pass'[p].todo[i] = pass[p].todo[i + 1]
    BY <1>2 DEF Drops
  <2>2. Len(pass[p].todo) \in Nat /\ Len(pass'[p].todo) \in Nat
    BY <2>1, PassFields DEF Base, PassOK
  <2>3. i + 1 \in 1..Len(pass[p].todo) /\ 1 \in 1..Len(pass[p].todo) /\ i + 1 # 1
    BY <2>1, <2>2
  <2>4. s \in Ids /\ s # pass[p].todo[1].id /\ Sendable(p, i + 1)
    BY <1>2, <2>1, <2>3, PassFields DEF Base, PassOK, ItemType, ListCaused
  <2>5. sends'[s] = sends[s] /\ excused'[s] = excused[s]
    BY <2>4
  <2>6. sends[s] # <<>> => Last(sends[s]).at \in Nat
    BY <2>4, LastSend DEF Base
  <2>7. ~excused[s] /\ sends[s] # <<>> => now >= Last(sends[s]).at + Period
    BY <2>3, <2>4 DEF Sendable
  <2>8. pass'[p].todo[i].id = s
    BY <2>1
  <2> HIDE DEF s
  <2>9. ~excused'[s] /\ sends'[s] # <<>> => now' >= Last(sends'[s]).at + Period
    BY <1>1, <2>5, <2>6, <2>7, PeriodAssumption
  <2>10. QED
    BY <2>8, <2>9 DEF Sendable
<1>3. QED
  BY <1>2 DEF ListCaused

LEMMA BeginCauses ==
  ASSUME Base, Causes, NEW p \in Slots, Tick(p) \/ \E s \in Ids : SendNow(p, s)
  PROVE  Causes'
<1>1. Along /\ Begins(p) /\ Others(p) /\ pass[p] = Idle
  BY BeginAlong, TickBegins, SendNowBegins DEF Begins
<1>2. PICK todo, early :
        /\ Begin(p, todo, early) /\ pass'[p].todo = todo
        /\ early \/ \A i \in 1..Len(todo) : Due(todo[i].id)
  <2>1. CASE Tick(p)
    <3>1. PICK todo : Begin(p, todo, FALSE)
      BY <2>1 DEF Tick
    <3>2. pass'[p].todo = todo
      BY <1>1, <3>1 DEF Begin, Base, Typed
    <3>3. QED
      BY <2>1, <3>1, <3>2, TickBegins
  <2>2. CASE \E s \in Ids : SendNow(p, s)
    BY <2>2, SendNowBegins DEF SendNow
  <2>3. QED
    BY <2>1, <2>2
<1>3. /\ row' = row /\ sends' = sends /\ now' = now /\ kind' = kind
      /\ excused' = [s \in Ids |->
                      \/ excused[s]
                      \/ (early \/ Holders(s) # {}) /\ \E i \in DOMAIN todo : todo[i].id = s]
  BY <1>2 DEF Begin
<1>4. pass'[p] \in Passes /\ todo \in Seq(ItemType) /\ Len(todo) \in Nat /\ DOMAIN todo = 1..Len(todo)
  BY <1>1, <1>2, PassFields DEF Begins
<1>5. ASSUME NEW s \in Ids PROVE Caused(s)'
  <2>1. \A q \in Slots : SentFor(q, s) => Keeps(q)
    BY <1>1 DEF SentFor, Others, Keeps
  <2>2. excused[s] => excused'[s]
    BY <1>3
  <2>3. QED
    BY <1>1, <1>3, <2>1, <2>2, CausedStays DEF Causes
<1>6. ASSUME NEW q \in Slots, q # p PROVE ListCaused(q)'
  <2>1. Keeps(q) /\ ListCaused(q)
    BY <1>1, <1>6 DEF Others, Keeps, Causes
  <2>2. CASE pass[q] = Idle
    BY <2>1, <2>2 DEF ListCaused, Keeps
  <2>3. CASE pass[q] # Idle
    <3>1. ASSUME NEW i \in 1..Len(pass[q].todo)
          PROVE  LET s == pass[q].todo[i].id IN
                 excused'[s] \/ (sends'[s] = sends[s] /\ excused'[s] = excused[s])
      <4> DEFINE s == pass[q].todo[i].id
      <4>1. s \in Ids
        BY <2>3, PassFields DEF Base, PassOK, ItemType
      <4> HIDE DEF s
      <4>2. excused'[s] \/ (sends'[s] = sends[s] /\ excused'[s] = excused[s])
        BY <1>3, <4>1 DEF Base, Typed
      <4>3. QED
        BY <4>2 DEF s
    <3>2. QED
      BY <1>1, <2>1, <3>1, KeptListCaused
  <2>4. QED
    BY <2>2, <2>3
<1>7. ListCaused(p)'
  <2>1. ASSUME p[1] = "email", NEW i \in 1..Len(todo)
        PROVE  ~excused'[todo[i].id] /\ sends'[todo[i].id] # <<>> =>
                 now' >= Last(sends'[todo[i].id]).at + Period
    <3> DEFINE s == todo[i].id
    <3>1. s \in Ids /\ kind[s] = "email" /\ Exists(s)
      <4>1. todo[i] \in ItemType
        BY <1>4
      <4>2. i \in 1..Len(pass'[p].todo) /\ pass'[p].todo[i] = todo[i]
        BY <1>2
      <4>3. Exists(todo[i].id) /\ kind[todo[i].id] = p[1]
        BY <1>1, <4>2 DEF Begins
      <4>4. QED
        BY <2>1, <4>1, <4>3 DEF ItemType
    <3>2. ~excused'[s] => ~excused[s] /\ Holders(s) = {} /\ ~early
      BY <1>3, <1>4, <3>1
    <3>3. ~excused'[s] => Due(s)
      BY <1>2, <3>2
    <3>4. Holders(s) = {} => \A q \in Slots : ~SentFor(q, s)
      <4>1. ASSUME NEW q \in Slots, SentFor(q, s) PROVE q \in Holders(s)
        <5>1. pass[q] # Idle /\ 1 \in DOMAIN pass[q].todo /\ pass[q].todo[1].id = s
          BY <4>1, ItemAt, PassFields DEF SentFor
        <5>2. QED
          BY <5>1 DEF Holders
      <4>2. QED
        BY <4>1
    <3> HIDE DEF s
    <3>5. sends[s] # <<>> => Last(sends[s]).at \in Nat
      BY <3>1, LastSend DEF Base
    <3>6. row[s].next \in Nat /\ now \in Nat
      BY <3>1 DEF Exists, Base, Typed, Rows
    <3>7. ~excused'[s] /\ sends[s] # <<>> => row[s].next >= Last(sends[s]).at + Period
      BY <3>1, <3>2, <3>4 DEF Causes, Caused
    <3>8. ~excused'[s] /\ sends[s] # <<>> => now >= Last(sends[s]).at + Period
      BY <3>3, <3>5, <3>6, <3>7, PeriodAssumption DEF Due
    <3>9. QED
      BY <1>3, <3>8 DEF s
  <2>2. QED
    BY <1>2, <2>1 DEF ListCaused, Sendable
<1>8. QED
  BY <1>5, <1>6, <1>7 DEF Causes

\* What a pass of e-mails does to the schedule it is at.
LEMMA EmailHead ==
  ASSUME Base, Causes, NEW p \in Slots, p[1] = "email", Work(p) \/ PassFails(p),
         NEW s \in Ids, s = pass[p].todo[1].id
  PROVE  /\ Caused(s)'
         /\ \/ excused'[s]
            \/ sends'[s] = sends[s] /\ excused'[s] = excused[s]
            \/ Holders(s) = {p}
         /\ \/ Drops(p)
            \/ Moves(p) /\ pass'[p].phase = "sent"
         /\ Moves(p) => pass[p].phase = "next"
<1>1. /\ pass[p] # Idle /\ Item(p) = pass[p].todo[1] /\ kind[s] = "email" /\ row[s] # NoRow
      /\ now \in Nat /\ 1 \in 1..Len(pass[p].todo) /\ excused \in [Ids -> BOOLEAN]
  BY WorkTouches, ItemAt, PassFields DEF Listed, Base, Typed
<1>2. sends[s] # <<>> => Last(sends[s]).at \in Nat
  BY LastSend DEF Base
<1>3. Caused(s) /\ ListCaused(p)
  BY DEF Causes
<1>4. CASE SkipReport(p)
  <2>1. Drop(p) /\ pass[p].phase = "next" /\ UNCHANGED <<now, kind, row, sends, excused>>
    BY <1>4 DEF SkipReport, At, history
  <2>2. Along /\ Drops(p) /\ Others(p)
    BY <1>1, <1>4, <2>1, WorkAlong, DropDrops DEF PassFails
  <2>3. \A q \in Slots : SentFor(q, s) => Keeps(q)
    BY <2>1, <2>2 DEF SentFor, Others, Keeps
  <2>4. Caused(s)'
    BY <1>1, <1>3, <2>1, <2>2, <2>3, CausedStays
  <2>5. QED
    BY <2>1, <2>2, <2>4 DEF Drops, Moves
<1>5. ASSUME Sent(s, now), row' = row, now' = now, kind' = kind, pass[p].phase = "next",
             \/ excused'[s]
             \/ SentFor(p, s)'
      PROVE  Caused(s)'
  <2>1. /\ sends'[s] # <<>> /\ Last(sends'[s]).at = now
        /\ Len(sends'[s]) = 2 => /\ sends[s] # <<>> /\ sends'[s][1] = Last(sends[s])
                                /\ sends'[s][2] = [at |-> now, cause |-> excused[s]]
    BY <1>1, <1>5, SentSends DEF Base
  <2>2. ~excused[s] /\ sends[s] # <<>> => now >= Last(sends[s]).at + Period
    BY <1>1, <1>3, <1>5 DEF ListCaused, Sendable
  <2>3. Len(sends'[s]) = 2 =>
          sends'[s][2].cause \/ sends'[s][2].at >= sends'[s][1].at + Period
    BY <2>1, <2>2
  <2>4. QED
    BY <1>1, <1>5, <2>1, <2>3 DEF Caused
<1>6. CASE SendMail(p)
  <2>1. /\ Move(p, "sent") /\ pass[p].phase = "next" /\ Sent(s, now)
        /\ now' = now /\ kind' = kind /\ row' = row
        /\ excused' = [excused EXCEPT ![s] = Holders(s) # {p}]
    BY <1>1, <1>6 DEF SendMail, At
  <2>2. Moves(p) /\ pass'[p].phase = "sent"
    BY <1>1, <2>1, MoveMoves
  <2>3. SentFor(p, s)'
    BY <2>2 DEF SentFor, Moves
  <2>4. excused'[s] = (Holders(s) # {p})
    BY <1>1, <2>1
  <2>5. QED
    BY <1>5, <2>1, <2>2, <2>3, <2>4
<1>7. CASE MailFails(p)
  <2>1. /\ Drop(p) /\ pass[p].phase = "next" /\ (sends' = sends \/ Sent(s, now))
        /\ now' = now /\ kind' = kind /\ row' = row
        /\ excused' = [excused EXCEPT ![s] = TRUE]
    BY <1>1, <1>7 DEF MailFails, At
  <2>2. excused'[s]
    BY <1>1, <2>1
  <2>3. sends' = sends => Caused(s)'
    BY <1>3, <2>1, <2>2 DEF Caused, Exists
  <2>4. Drops(p)
    BY <1>1, <2>1, DropDrops
  <2>5. QED
    BY <1>5, <2>1, <2>2, <2>3, <2>4
<1>8. CASE AdvanceFails(p)
  <2>1. /\ Drop(p) /\ pass[p].phase = "sent"
        /\ now' = now /\ kind' = kind /\ row' = row /\ sends' = sends
        /\ excused' = [excused EXCEPT ![s] = TRUE]
    BY <1>1, <1>8 DEF AdvanceFails, At
  <2>2. excused'[s]
    BY <1>1, <2>1
  <2>3. Caused(s)'
    BY <1>3, <2>1, <2>2 DEF Caused, Exists
  <2>4. Drops(p) /\ Others(p)
    BY <1>1, <2>1, DropDrops
  <2>5. ~Moves(p)
    BY <2>1, <2>4 DEF Drops, Moves
  <2>6. QED
    BY <2>2, <2>3, <2>4, <2>5
<1>9. CASE AdvanceReport(p)
  <2>1. /\ Drop(p) /\ pass[p].phase = "sent"
        /\ now' = now /\ kind' = kind /\ sends' = sends /\ excused' = excused
        /\ row' = Written(s, now, now + Period)
    BY <1>1, <1>9 DEF AdvanceReport, At, history
  <2>2. now + Period \in Nat
    BY <1>1, PeriodAssumption
  <2>3. Exists(s)' = Exists(s) /\ (Exists(s) => row'[s].next = now + Period) /\ Stays(s)
    BY <1>1, <2>1, <2>2, WrittenRows DEF Base
  <2>4. Exists(s) /\ sends[s] # <<>> => row'[s].next >= Last(sends[s]).at + Period
    BY <1>1, <1>2, <1>3, <2>3, PeriodAssumption DEF Caused
  <2>5. Caused(s)'
    BY <1>1, <1>3, <2>1, <2>3, <2>4 DEF Caused, Stays
  <2>6. Drops(p)
    BY <1>1, <2>1, DropDrops
  <2>7. ~Moves(p)
    BY <2>1, <2>6 DEF Drops, Moves
  <2>8. QED
    BY <2>1, <2>5, <2>6, <2>7
<1>10. QED
  BY <1>4, <1>6, <1>7, <1>8, <1>9 DEF Work, PassFails, Claim, ClaimFails, StartScan, BuildDigest, BuildFails,
     Deliver, AdvanceDigest

LEMMA EmailCauses ==
  ASSUME Base, Causes, NEW p \in Slots, p[1] = "email", Work(p) \/ PassFails(p)
  PROVE  Causes'
<1>1. /\ Along /\ Others(p) /\ pass[p] # Idle
      /\ \A r \in Ids : r # pass[p].todo[1].id =>
           row'[r] = row[r] /\ sends'[r] = sends[r] /\ excused'[r] = excused[r]
  BY WorkAlong, WorkTouches, ItemAt
<1>2. PICK s \in Ids : s = pass[p].todo[1].id
  BY <1>1, ItemAt DEF ItemType
<1>3. /\ Caused(s)'
      /\ \/ excused'[s]
         \/ sends'[s] = sends[s] /\ excused'[s] = excused[s]
         \/ Holders(s) = {p}
      /\ Drops(p) \/ (Moves(p) /\ pass'[p].phase = "sent")
  BY <1>2, EmailHead
<1>4. ASSUME NEW r \in Ids, r # s PROVE Caused(r)'
  <2>1. row'[r] = row[r] /\ sends'[r] = sends[r] /\ excused'[r] = excused[r] /\ Caused(r)
    BY <1>1, <1>2, <1>4 DEF Causes
  <2>2. \A q \in Slots : SentFor(q, r) => Keeps(q)
    BY <1>1, <1>2, <1>4 DEF SentFor, Others, Keeps
  <2>3. QED
    BY <1>1, <2>1, <2>2, CausedStays
<1>5. ASSUME NEW q \in Slots, q # p PROVE ListCaused(q)'
  <2>1. Keeps(q) /\ ListCaused(q)
    BY <1>1, <1>5 DEF Others, Keeps, Causes
  <2>2. CASE pass[q] = Idle
    BY <2>1, <2>2 DEF ListCaused, Keeps
  <2>3. CASE pass[q] # Idle
    <3>1. ASSUME NEW i \in 1..Len(pass[q].todo), NEW r, r = pass[q].todo[i].id
          PROVE  excused'[r] \/ (sends'[r] = sends[r] /\ excused'[r] = excused[r])
      <4>1. r \in Ids /\ i \in DOMAIN pass[q].todo
        BY <2>3, <3>1, PassFields DEF Base, PassOK, ItemType
      <4>2. q \in Holders(r)
        BY <2>3, <3>1, <4>1 DEF Holders
      <4>3. QED
        BY <1>1, <1>2, <1>3, <1>5, <4>1, <4>2
    <3>2. QED
      BY <1>1, <2>1, <3>1, KeptListCaused
  <2>4. QED
    BY <2>2, <2>3
<1>6. ListCaused(p)'
  <2>1. CASE Drops(p)
    BY <1>1, <2>1, DroppedListCaused DEF Causes
  <2>2. CASE Moves(p) /\ pass'[p].phase = "sent" /\ ~Drops(p)
    <3>1. pass'[p].todo = pass[p].todo /\ pass[p].phase = "next"
      BY <1>2, <2>2, EmailHead DEF Moves
    <3>2. ASSUME NEW i \in 1..Len(pass[p].todo)
          PROVE  Sendable(p, i)'
      <4>1. CASE i = 1
        BY <2>2, <4>1 DEF Sendable
      <4>2. CASE i # 1
        <5> DEFINE r == pass[p].todo[i].id
        <5>1. r \in Ids /\ Sendable(p, i) /\ 1 \in 1..Len(pass[p].todo)
          BY <1>1, PassFields, ItemAt DEF Base, PassOK, ItemType, Causes, ListCaused
        <5>2. r # s
          BY <1>1, <1>2, <4>2, <5>1 DEF Base, PassOK
        <5>3. sends'[r] = sends[r] /\ excused'[r] = excused[r]
          BY <1>1, <1>2, <5>1, <5>2
        <5>4. now \in Nat /\ now' \in Nat /\ now <= now'
          BY <1>1 DEF Along, Base, Typed
        <5>5. sends[r] # <<>> => Last(sends[r]).at \in Nat
          BY <5>1, LastSend DEF Base
        <5>6. ~excused[r] /\ sends[r] # <<>> => now >= Last(sends[r]).at + Period
          BY <4>2, <5>1 DEF Sendable
        <5> HIDE DEF r
        <5>7. ~excused'[r] /\ sends'[r] # <<>> => now' >= Last(sends'[r]).at + Period
          BY <5>3, <5>4, <5>5, <5>6, PeriodAssumption
        <5>8. QED
          BY <3>1, <5>7 DEF r, Sendable
      <4>3. QED
        BY <4>1, <4>2
    <3>3. QED
      BY <3>1, <3>2 DEF ListCaused
  <2>3. QED
    BY <1>3, <2>1, <2>2
<1>7. QED
  BY <1>2, <1>3, <1>4, <1>5, <1>6 DEF Causes

LEMMA CausesStep == ASSUME Base, Causes, [Next]_vars PROVE Causes'
<1>0. Along /\ kind' = kind
  BY NextAlong DEF Along
<1>1. CASE \/ \E s \in Ids : Create(s) \/ Toggle(s) \/ Delete(s)
           \/ Clock \/ UNCHANGED vars
  <2>1. sends' = sends /\ excused' = excused /\ pass' = pass
    BY <1>1 DEF Create, Toggle, Delete, Clock, vars, history
  <2>2. ASSUME NEW s \in Ids PROVE Caused(s)'
    <3>1. \/ row'[s] \in {Gone, row[s]} /\ (row'[s] = NoRow => row[s] = NoRow)
          \/ Exists(s) /\ row'[s] # NoRow /\ row'[s].next = row[s].next
          \/ row[s] = NoRow
      BY <1>1, UserTouches, NameAssumption
    <3>2. \A p \in Slots : Keeps(p)
      BY <2>1 DEF Keeps
    <3>3. QED
      BY <1>0, <2>1, <3>1, <3>2, CausedStays DEF Causes
  <2>3. ASSUME NEW p \in Slots PROVE ListCaused(p)'
    <3>1. Keeps(p)
      BY <2>1 DEF Keeps
    <3>2. QED
      BY <1>0, <2>1, <3>1, KeptListCaused DEF Causes
  <2>4. QED
    BY <2>2, <2>3 DEF Causes
<1>2. CASE Crash
  <2>1. /\ row' = row /\ sends' = sends /\ \A p \in Slots : pass'[p] = Idle
        /\ \A s \in Ids : excused'[s] = (excused[s] \/ Holders(s) # {})
    BY <1>2 DEF Crash
  <2>2. ASSUME NEW s \in Ids PROVE Caused(s)'
    <3>1. ASSUME NEW q \in Slots, SentFor(q, s) PROVE excused'[s]
      <4>1. pass[q] # Idle /\ 1 \in DOMAIN pass[q].todo /\ pass[q].todo[1].id = s
        BY <3>1, ItemAt, PassFields DEF SentFor
      <4>2. q \in Holders(s)
        BY <4>1 DEF Holders
      <4>3. QED
        BY <2>1, <4>2
    <3>2. QED
      BY <1>0, <2>1, <3>1, CausedStays DEF Causes
  <2>3. QED
    BY <2>1, <2>2 DEF Causes, ListCaused
<1>3. ASSUME NEW p \in Slots, p[1] # "email", Work(p) \/ PassFails(p)
      PROVE  Causes'
  <2>1. /\ Others(p) /\ pass[p] # Idle /\ kind[Item(p).id] # "email" /\ Item(p) = pass[p].todo[1]
        /\ \A r \in Ids : r # Item(p).id => row'[r] = row[r] /\ sends'[r] = sends[r] /\ excused'[r] = excused[r]
    BY <1>3, WorkTouches, ItemAt
  <2>2. ASSUME NEW s \in Ids PROVE Caused(s)'
    <3>1. CASE kind[s] # "email"
      BY <1>0, <3>1 DEF Caused
    <3>2. CASE kind[s] = "email"
      <4>1. s # Item(p).id
        BY <2>1, <3>2
      <4>2. \A q \in Slots : SentFor(q, s) => Keeps(q)
        BY <2>1, <4>1 DEF SentFor, Others, Keeps
      <4>3. QED
        BY <1>0, <2>1, <4>1, <4>2, CausedStays DEF Causes
    <3>3. QED
      BY <3>1, <3>2
  <2>3. ASSUME NEW q \in Slots, q[1] = "email", pass'[q] # Idle PROVE ListCaused(q)'
    <3>1. Keeps(q) /\ pass[q] # Idle /\ ListCaused(q)
      BY <1>3, <2>1, <2>3 DEF Others, Keeps, Causes
    <3>2. ASSUME NEW i \in 1..Len(pass[q].todo), NEW r, r = pass[q].todo[i].id
          PROVE  excused'[r] \/ (sends'[r] = sends[r] /\ excused'[r] = excused[r])
      <4>1. r \in Ids /\ kind[r] = "email"
        BY <2>3, <3>1, <3>2, PassFields DEF Base, PassOK, ItemType, Listed
      <4>2. QED
        BY <2>1, <4>1
    <3>3. QED
      BY <1>0, <3>1, <3>2, KeptListCaused
  <2>4. QED
    BY <2>2, <2>3 DEF Causes, ListCaused
<1>4. QED
  BY <1>1, <1>2, <1>3, BeginCauses, EmailCauses DEF Next

\* A mail of a report that follows another too early has a cause (email/scheduler.ts:
\* an overlapping tick, a send by hand, a refused recipient, a failed write, a stop),
\* for any number of overlapping passes and reports.
THEOREM EarlyMailsHaveCauses == Spec => []EarlyMailHasCause
<1>1. Init => Causes
  BY DEF Init, Causes, Caused, ListCaused, Exists
<1>2. Base /\ Causes /\ [Next]_vars => Causes'
  BY CausesStep
<1>3. Causes => EarlyMailHasCause
  BY DEF Causes, Caused, EarlyMailHasCause
<1>4. QED
  BY <1>1, <1>2, <1>3, BaseHolds, PTL DEF Spec
=============================================================================

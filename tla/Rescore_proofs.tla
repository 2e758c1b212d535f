--------------------------- MODULE Rescore_proofs ---------------------------
(***************************************************************************)
(* Theorems about Rescore for every set of scans and every size of a       *)
(* batch: the counts of the progress row add up, the row is a lock, and    *)
(* nothing it has passed in the list was left unjudged.                    *)
(***************************************************************************)
EXTENDS Rescore, SequenceTheorems, FiniteSetTheorems, TLAPS

-----------------------------------------------------------------------------
(* The list of scans *)

AheadIn(l, x, y) ==
  \E i, j \in DOMAIN l : i < j /\ l[i] = x /\ l[j] = y

\* x is listed before y.
Ahead(x, y) == AheadIn(listed, x, y)

OnceIn(l) == \A i, j \in DOMAIN l : l[i] = l[j] => i = j

\* A scan is listed once.
ListedOnce == OnceIn(listed)

-----------------------------------------------------------------------------
(* The inductive invariant *)

\* While a loop works, it has the row: between two batches its counts are the ones
\* stored, within one the row still says running.
LoopHasRow ==
  loop # None =>
    /\ Running /\ loop.progress.status = "running"
    /\ loop.pc = "next" => loop.progress = row

\* A scan that has not completed was not counted, found or passed by a rescore.
UnbornUnknown ==
  /\ candidates \cap unborn = {}
  /\ row # None => row.last \notin unborn
  /\ loop # None =>
       /\ loop.progress.last \notin unborn
       /\ \A k \in DOMAIN loop.batch : loop.batch[k] \notin unborn

Judged(s) == s \in scored \cup warned

\* Every counted scan up to last, in the list, is judged.
Passed(last) ==
  last \in Listed =>
    \A s \in candidates : s = last \/ Ahead(s, last) => Judged(s)

\* Both resume points, the stored one and the one the loop will store.
PassedJudged ==
  /\ row # None => Passed(row.last)
  /\ loop # None => Passed(loop.progress.last)

\* What the list has before a scan of the batch is judged, or comes before it in the
\* batch too: the batch skips nothing, though the list has moved since it was cut.
BatchSkipsNothing ==
  loop # None =>
    \A k \in DOMAIN loop.batch : \A s \in candidates :
      Ahead(s, loop.batch[k]) => Judged(s) \/ \E m \in 1..k - 1 : loop.batch[m] = s

RescoreInv ==
  /\ RescoreTypeOK /\ RunningRowHasLoop /\ ListedOnce
  /\ LoopHasRow /\ UnbornUnknown /\ PassedJudged /\ BatchSkipsNothing

-----------------------------------------------------------------------------
(* What an insertion and a removal do to a list *)

LEMMA InsertAtElements ==
  ASSUME NEW S, NEW l \in Seq(S), NEW i \in 1..Len(l) + 1, NEW s \in S
  PROVE  /\ InsertAt(l, i, s) \in Seq(S)
         /\ Len(InsertAt(l, i, s)) = Len(l) + 1
         /\ DOMAIN InsertAt(l, i, s) = 1..Len(l) + 1
         /\ \A k \in 1..Len(l) + 1 :
              InsertAt(l, i, s)[k] = IF k < i THEN l[k] ELSE IF k = i THEN s ELSE l[k - 1]
<1> DEFINE front == SubSeq(l, 1, i - 1)
           back  == SubSeq(l, i, Len(l))
           fs    == front \o <<s>>
<1>1. Len(l) \in Nat /\ DOMAIN l = 1..Len(l) /\ \A k \in 1..Len(l) : l[k] \in S
  BY LenProperties, ElementOfSeq
<1>2. front \in Seq(S) /\ Len(front) = i - 1 /\ \A k \in 1..i - 1 : front[k] = l[k]
  <2>1. \A k \in 1..i - 1 : l[k] \in S
    BY <1>1
  <2>2. QED
    BY <1>1, <2>1, SubSeqProperties
<1>3. back \in Seq(S) /\ Len(back) = Len(l) - i + 1
      /\ \A k \in 1..Len(l) - i + 1 : back[k] = l[i + k - 1]
  <2>1. \A k \in i..Len(l) : l[k] \in S
    BY <1>1
  <2>2. QED
    BY <1>1, <2>1, SubSeqProperties
<1>4. <<s>> \in Seq(S) /\ Len(<<s>>) = 1 /\ <<s>>[1] = s
  OBVIOUS
<1>5. fs \in Seq(S) /\ Len(fs) = i /\ \A k \in 1..i : fs[k] = IF k < i THEN l[k] ELSE s
  BY <1>1, <1>2, <1>4, ConcatProperties
<1> HIDE DEF fs, back
<1>6. /\ fs \o back \in Seq(S) /\ Len(fs \o back) = Len(fs) + Len(back)
      /\ \A k \in 1..Len(fs) + Len(back) :
           (fs \o back)[k] = IF k <= Len(fs) THEN fs[k] ELSE back[k - Len(fs)]
  BY <1>3, <1>5, ConcatProperties
<1> DEFINE all == fs \o back
<1> HIDE DEF all
<1>7. /\ all \in Seq(S) /\ Len(all) = Len(l) + 1
      /\ \A k \in 1..Len(l) + 1 : all[k] = IF k <= i THEN fs[k] ELSE back[k - i]
  <2>1. Len(fs) = i /\ Len(fs) + Len(back) = Len(l) + 1
    BY <1>1, <1>3, <1>5
  <2>2. QED
    BY <1>6, <2>1 DEF all
<1>8. ASSUME NEW k \in 1..Len(l) + 1
      PROVE  all[k] = IF k < i THEN l[k] ELSE IF k = i THEN s ELSE l[k - 1]
  <2>1. CASE k <= i
    BY <1>1, <1>5, <1>7, <2>1
  <2>2. CASE k > i
    <3>1. k - i \in 1..Len(l) - i + 1 /\ i + (k - i) - 1 = k - 1
      BY <1>1, <2>2
    <3>2. QED
      BY <1>1, <1>3, <1>7, <2>2, <3>1
  <2>3. QED
    BY <1>1, <2>1, <2>2
<1>9. InsertAt(l, i, s) = all
  BY DEF InsertAt, fs, back, all
<1>10. DOMAIN all = 1..Len(l) + 1
  BY <1>7, LenProperties
<1>11. QED
  BY <1>7, <1>8, <1>9, <1>10

LEMMA RemoveAtElements ==
  ASSUME NEW S, NEW l \in Seq(S), NEW i \in 1..Len(l)
  PROVE  /\ RemoveAt(l, i) \in Seq(S)
         /\ Len(RemoveAt(l, i)) = Len(l) - 1
         /\ DOMAIN RemoveAt(l, i) = 1..Len(l) - 1
         /\ \A k \in 1..Len(l) - 1 :
              RemoveAt(l, i)[k] = IF k < i THEN l[k] ELSE l[k + 1]
<1> DEFINE front == SubSeq(l, 1, i - 1)
           back  == SubSeq(l, i + 1, Len(l))
<1>1. Len(l) \in Nat /\ DOMAIN l = 1..Len(l) /\ \A k \in 1..Len(l) : l[k] \in S
  BY LenProperties, ElementOfSeq
<1>2. front \in Seq(S) /\ Len(front) = i - 1 /\ \A k \in 1..i - 1 : front[k] = l[k]
  <2>1. \A k \in 1..i - 1 : l[k] \in S
    BY <1>1
  <2>2. QED
    BY <1>1, <2>1, SubSeqProperties
<1>3. back \in Seq(S) /\ Len(back) = Len(l) - i
      /\ \A k \in 1..Len(l) - i : back[k] = l[i + k]
  <2>1. \A k \in i + 1..Len(l) : l[k] \in S
    BY <1>1
  <2>2. /\ back \in Seq(S) /\ Len(back) = IF i + 1 <= Len(l) THEN Len(l) - (i + 1) + 1 ELSE 0
        /\ \A k \in 1..Len(l) - (i + 1) + 1 : back[k] = l[(i + 1) + k - 1]
    BY <1>1, <2>1, SubSeqProperties
  <2> HIDE DEF back
  <2>3. \A k \in 1..Len(l) - i : (i + 1) + k - 1 = i + k
    BY <1>1
  <2>4. QED
    BY <1>1, <2>2, <2>3
<1> HIDE DEF front, back
<1>4. /\ front \o back \in Seq(S) /\ Len(front \o back) = Len(front) + Len(back)
      /\ \A k \in 1..Len(front) + Len(back) :
           (front \o back)[k] = IF k <= Len(front) THEN front[k] ELSE back[k - Len(front)]
  BY <1>2, <1>3, ConcatProperties
<1> DEFINE all == front \o back
<1> HIDE DEF all
<1>5. /\ all \in Seq(S) /\ Len(all) = Len(l) - 1
      /\ \A k \in 1..Len(l) - 1 :
           all[k] = IF k <= i - 1 THEN front[k] ELSE back[k - (i - 1)]
  <2>1. Len(front) = i - 1 /\ Len(front) + Len(back) = Len(l) - 1
    BY <1>1, <1>2, <1>3
  <2>2. QED
    BY <1>4, <2>1 DEF all
<1>6. ASSUME NEW k \in 1..Len(l) - 1
      PROVE  all[k] = IF k < i THEN l[k] ELSE l[k + 1]
  <2>1. CASE k < i
    <3>1. k \in 1..i - 1 /\ k <= i - 1
      BY <1>1, <2>1
    <3>2. all[k] = front[k] /\ front[k] = l[k]
      BY <1>2, <1>5, <3>1
    <3>3. QED
      BY <2>1, <3>2
  <2>2. CASE k >= i
    <3>1. k - (i - 1) \in 1..Len(l) - i /\ i + (k - (i - 1)) = k + 1
      BY <1>1, <2>2
    <3>2. QED
      BY <1>1, <1>3, <1>5, <2>2, <3>1
  <2>3. QED
    BY <1>1, <2>1, <2>2
<1>7. RemoveAt(l, i) = all
  BY DEF RemoveAt, front, back, all
<1>8. DOMAIN all = 1..Len(l) - 1
  BY <1>5, LenProperties
<1>9. QED
  BY <1>5, <1>6, <1>7, <1>8

\* An insertion leaves the order of the others.
LEMMA InsertKeepsOrder ==
  ASSUME NEW S, NEW l \in Seq(S), NEW i \in 1..Len(l) + 1, NEW s \in S, s \notin ToSet(l)
  PROVE  /\ ToSet(InsertAt(l, i, s)) = ToSet(l) \cup {s}
         /\ OnceIn(l) => OnceIn(InsertAt(l, i, s))
         /\ \A x, y : x # s /\ y # s /\ AheadIn(InsertAt(l, i, s), x, y) => AheadIn(l, x, y)
<1> DEFINE g == InsertAt(l, i, s)
<1>1. /\ Len(l) \in Nat /\ DOMAIN l = 1..Len(l) /\ DOMAIN g = 1..Len(l) + 1
      /\ \A k \in 1..Len(l) + 1 : g[k] = IF k < i THEN l[k] ELSE IF k = i THEN s ELSE l[k - 1]
  BY InsertAtElements, LenProperties, SMTT(60)
<1> HIDE DEF g
<1> DEFINE was(k) == IF k < i THEN k ELSE k - 1
<1>2. \A k \in 1..Len(l) : l[k] # s
  BY <1>1 DEF ToSet
<1>3. \A k \in 1..Len(l) + 1 : k # i => was(k) \in 1..Len(l) /\ g[k] = l[was(k)] /\ g[k] # s
  BY <1>1, <1>2
<1>4. \A j, k \in 1..Len(l) + 1 : j # i /\ k # i =>
        /\ j < k => was(j) < was(k)
        /\ was(j) = was(k) => j = k
  BY <1>1
<1>5. g[i] = s
  BY <1>1
<1>6. ToSet(g) = ToSet(l) \cup {s}
  <2>1. ToSet(g) \subseteq ToSet(l) \cup {s}
    BY <1>1, <1>3, <1>5 DEF ToSet
  <2>2. \A k \in 1..Len(l) : \E j \in 1..Len(l) + 1 : g[j] = l[k]
    <3> TAKE k \in 1..Len(l)
    <3>1. CASE k < i
      BY <1>1, <3>1
    <3>2. CASE k >= i
      <4>1. k + 1 \in 1..Len(l) + 1 /\ g[k + 1] = l[k]
        BY <1>1, <3>2
      <4>2. QED
        BY <4>1
    <3>3. QED
      BY <1>1, <3>1, <3>2
  <2>3. ToSet(l) \subseteq ToSet(g)
    BY <1>1, <2>2 DEF ToSet
  <2>4. s \in ToSet(g)
    BY <1>1, <1>5 DEF ToSet
  <2>5. QED
    BY <2>1, <2>3, <2>4
<1> HIDE DEF was
<1>7. OnceIn(l) => OnceIn(g)
  BY <1>1, <1>3, <1>4, <1>5 DEF OnceIn
<1>8. ASSUME NEW x, NEW y, x # s, y # s, AheadIn(g, x, y)
      PROVE  AheadIn(l, x, y)
  <2>1. PICK j, k \in 1..Len(l) + 1 : j < k /\ g[j] = x /\ g[k] = y
    BY <1>1, <1>8 DEF AheadIn
  <2>2. j # i /\ k # i
    BY <1>5, <1>8, <2>1
  <2>3. /\ was(j) \in 1..Len(l) /\ was(k) \in 1..Len(l) /\ was(j) < was(k)
        /\ l[was(j)] = x /\ l[was(k)] = y
    BY <1>3, <1>4, <2>1, <2>2
  <2>4. QED
    BY <1>1, <2>3 DEF AheadIn
<1>9. QED
  BY <1>6, <1>7, <1>8 DEF g

\* So does a removal.
LEMMA RemoveKeepsOrder ==
  ASSUME NEW S, NEW l \in Seq(S), NEW i \in 1..Len(l), OnceIn(l)
  PROVE  /\ ToSet(RemoveAt(l, i)) \subseteq ToSet(l) \ {l[i]}
         /\ OnceIn(RemoveAt(l, i))
         /\ \A x, y : AheadIn(RemoveAt(l, i), x, y) => AheadIn(l, x, y)
<1> DEFINE g == RemoveAt(l, i)
           was(k) == IF k < i THEN k ELSE k + 1
<1>1. /\ Len(l) \in Nat /\ DOMAIN l = 1..Len(l) /\ DOMAIN g = 1..Len(l) - 1
      /\ \A k \in 1..Len(l) - 1 : g[k] = IF k < i THEN l[k] ELSE l[k + 1]
  BY RemoveAtElements, LenProperties
<1> HIDE DEF g
<1>2. \A k \in 1..Len(l) - 1 : was(k) \in 1..Len(l) /\ was(k) # i /\ g[k] = l[was(k)]
  BY <1>1
<1>3. \A j, k \in 1..Len(l) - 1 :
        /\ j < k => was(j) < was(k)
        /\ was(j) = was(k) => j = k
  BY <1>1
<1> HIDE DEF was
<1>4. ToSet(g) \subseteq ToSet(l) \ {l[i]}
  BY <1>1, <1>2 DEF ToSet, OnceIn
<1>5. OnceIn(g)
  BY <1>1, <1>2, <1>3 DEF OnceIn
<1>6. ASSUME NEW x, NEW y, AheadIn(g, x, y)
      PROVE  AheadIn(l, x, y)
  <2>1. PICK j, k \in 1..Len(l) - 1 : j < k /\ g[j] = x /\ g[k] = y
    BY <1>1, <1>6 DEF AheadIn
  <2>2. /\ was(j) \in 1..Len(l) /\ was(k) \in 1..Len(l) /\ was(j) < was(k)
        /\ l[was(j)] = x /\ l[was(k)] = y
    BY <1>2, <1>3, <2>1
  <2>3. QED
    BY <1>1, <2>2 DEF AheadIn
<1>7. QED
  BY <1>4, <1>5, <1>6 DEF g

-----------------------------------------------------------------------------
(* The scans change around the loop *)

\* What a completion, a delete, a retag or an edit of a guideline may do: the list
\* gains only scans nobody knew, keeps its order, and what stays in it stays scored.
ScansMove ==
  /\ UNCHANGED <<row, loop, candidates, warned, stranded>>
  /\ unborn' \subseteq unborn
  /\ listed' \in Seq(Scans \ unborn') /\ OnceIn(listed')
  /\ scored' \subseteq Listed' /\ branded' \subseteq Scans
  /\ Listed' \ unborn \subseteq Listed
  /\ Listed' \cap scored \subseteq scored'
  /\ \A x, y : x \notin unborn /\ y \notin unborn /\ AheadIn(listed', x, y) => Ahead(x, y)

LEMMA CompleteMoves ==
  ASSUME RescoreInv, NEW s \in Scans, CompleteScan(s)
  PROVE  ScansMove
<1>1. listed \in Seq(Scans \ unborn) /\ OnceIn(listed) /\ scored \subseteq Listed
      /\ branded \subseteq Scans /\ unborn \subseteq Scans
  BY DEF RescoreInv, RescoreTypeOK, ListedOnce
<1>2. PICK i \in 1..Len(listed) + 1 : listed' = InsertAt(listed, i, s)
  BY DEF CompleteScan
<1>3. s \in unborn /\ unborn' = unborn \ {s} /\ s \in Scans \ unborn'
      /\ Scans \ unborn \subseteq Scans \ unborn'
  BY DEF CompleteScan
<1>4. listed \in Seq(Scans \ unborn')
  BY <1>1, <1>3, SeqMonotonic
<1>5. s \notin ToSet(listed)
  BY <1>1, <1>3, LenProperties, ElementOfSeq DEF ToSet
<1>6. listed' \in Seq(Scans \ unborn')
  BY <1>2, <1>3, <1>4, InsertAtElements
<1>7. /\ ToSet(listed') = ToSet(listed) \cup {s} /\ OnceIn(listed')
      /\ \A x, y : x # s /\ y # s /\ AheadIn(listed', x, y) => AheadIn(listed, x, y)
  BY <1>1, <1>2, <1>3, <1>4, <1>5, InsertKeepsOrder
<1>8. QED
  BY <1>1, <1>3, <1>6, <1>7 DEF ScansMove, CompleteScan, history, Listed, Ahead

LEMMA DeleteMoves ==
  ASSUME RescoreInv, NEW s \in Scans, DeleteScan(s)
  PROVE  ScansMove
<1>1. listed \in Seq(Scans \ unborn) /\ OnceIn(listed) /\ scored \subseteq Listed
      /\ branded \subseteq Scans /\ unborn \subseteq Scans
  BY DEF RescoreInv, RescoreTypeOK, ListedOnce
<1>2. PICK i \in DOMAIN listed : listed[i] = s /\ listed' = RemoveAt(listed, i)
  BY DEF DeleteScan
<1>3. i \in 1..Len(listed)
  BY <1>1, <1>2, LenProperties
<1>4. /\ ToSet(listed') \subseteq ToSet(listed) \ {s} /\ OnceIn(listed')
      /\ \A x, y : AheadIn(listed', x, y) => AheadIn(listed, x, y)
  BY <1>1, <1>2, <1>3, RemoveKeepsOrder
<1>5. listed' \in Seq(Scans \ unborn)
  BY <1>1, <1>2, <1>3, RemoveAtElements
<1>6. ToSet(listed) \ {s} \subseteq ToSet(listed')
  <2>1. SUFFICES ASSUME NEW k \in 1..Len(listed), k # i
                 PROVE  listed[k] \in ToSet(listed')
    BY <1>1, <1>2, <1>3, LenProperties DEF ToSet
  <2>2. /\ Len(listed) \in Nat /\ DOMAIN listed' = 1..Len(listed) - 1
        /\ \A j \in 1..Len(listed) - 1 :
             listed'[j] = IF j < i THEN listed[j] ELSE listed[j + 1]
    BY <1>1, <1>2, <1>3, RemoveAtElements, LenProperties
  <2>3. CASE k < i
    <3>1. k \in DOMAIN listed' /\ listed'[k] = listed[k]
      BY <1>3, <2>2, <2>3
    <3>2. QED
      BY <3>1 DEF ToSet
  <2>4. CASE k > i
    <3>1. k - 1 \in 1..Len(listed) - 1 /\ ~(k - 1 < i) /\ (k - 1) + 1 = k
      BY <1>3, <2>2, <2>4
    <3>2. k - 1 \in DOMAIN listed' /\ listed'[k - 1] = listed[k]
      BY <2>2, <3>1
    <3>3. QED
      BY <3>2 DEF ToSet
  <2>5. QED
    BY <1>3, <2>1, <2>3, <2>4
<1>7. QED
  BY <1>1, <1>4, <1>5, <1>6 DEF ScansMove, DeleteScan, history, Listed, Ahead

LEMMA OtherMoves ==
  ASSUME RescoreInv, NEW s \in Scans, Retag(s) \/ ChangeGuideline(s)
  PROVE  ScansMove
  BY DEF RescoreInv, RescoreTypeOK, ListedOnce, ScansMove, Retag, ChangeGuideline, history,
         Listed, Ahead

LEMMA MovesKeep ==
  ASSUME RescoreInv, ScansMove
  PROVE  RescoreInv'
<1>1. RescoreTypeOK'
  BY DEF RescoreInv, ScansMove, RescoreTypeOK, Tallied
<1>2. RunningRowHasLoop' /\ LoopHasRow' /\ ListedOnce'
  BY DEF RescoreInv, ScansMove, RunningRowHasLoop, LoopHasRow, Running, ListedOnce
<1>3. UnbornUnknown'
  BY DEF RescoreInv, ScansMove, UnbornUnknown
<1>4. \A s \in Listed' : Judged(s) => Judged(s)'
  BY DEF ScansMove, Judged
<1>5. \A s, t : s \notin unborn /\ t \notin unborn /\ Ahead(s, t)' => Ahead(s, t)
  BY DEF ScansMove, Ahead
<1>6. \A s, t : Ahead(s, t)' => s \in Listed'
  BY DEF Ahead, AheadIn, Listed, ToSet
<1>7. candidates' = candidates /\ candidates \cap unborn = {}
  BY DEF RescoreInv, ScansMove, UnbornUnknown
<1>8. ASSUME NEW last, last \notin unborn, Passed(last)
      PROVE  Passed(last)'
  BY <1>4, <1>5, <1>6, <1>7, <1>8 DEF Passed, ScansMove
<1>9. PassedJudged'
  BY <1>8 DEF RescoreInv, ScansMove, UnbornUnknown, PassedJudged
<1>10. BatchSkipsNothing'
  BY <1>4, <1>5, <1>6, <1>7 DEF RescoreInv, ScansMove, UnbornUnknown, BatchSkipsNothing
<1>11. QED
  BY <1>1, <1>2, <1>3, <1>9, <1>10 DEF RescoreInv

-----------------------------------------------------------------------------
(* The service *)

LEMMA CandidatesCounted ==
  ASSUME RescoreInv
  PROVE  Candidates \subseteq Scans \ unborn /\ Cardinality(Candidates) \in Nat
<1>1. listed \in Seq(Scans \ unborn) /\ Len(listed) \in Nat /\ DOMAIN listed = 1..Len(listed)
  BY LenProperties DEF RescoreInv, RescoreTypeOK
<1>2. \A i \in DOMAIN listed : listed[i] \in Listed /\ listed[i] \in Scans \ unborn
  BY <1>1, ElementOfSeq DEF Listed, ToSet
<1>3. listed \in Surjection(1..Len(listed), Listed)
  <2>1. listed \in [1..Len(listed) -> Listed]
    BY <1>1, <1>2, LenProperties
  <2>2. QED
    BY <1>1, <2>1 DEF Surjection, Listed, ToSet
<1>4. IsFiniteSet(Listed)
  BY <1>1, <1>3, FS_Interval, FS_Surjection
<1>5. Candidates \subseteq Listed
  BY DEF Candidates
<1>6. IsFiniteSet(Candidates)
  BY <1>4, <1>5, FS_Subset
<1>7. QED
  BY <1>2, <1>5, <1>6, FS_CardinalityType DEF Listed, ToSet

LEMMA StartKeeps ==
  ASSUME RescoreInv, StartRescore
  PROVE  RescoreInv'
<1>1. loop = None
  BY DEF RescoreInv, LoopHasRow, StartRescore
<1>2. UNCHANGED <<unborn, listed, scored, branded>>
  BY DEF StartRescore, scans
<1>3. CASE Candidates = {}
  <2>1. row' = None /\ loop' = None /\ UNCHANGED <<candidates, warned, stranded>>
    BY <1>1, <1>3 DEF StartRescore, history
  <2>2. QED
    BY <1>2, <2>1 DEF RescoreInv, RescoreTypeOK, RunningRowHasLoop, Running, ListedOnce, LoopHasRow,
         UnbornUnknown, PassedJudged, BatchSkipsNothing, Listed
<1>4. CASE Candidates # {}
  <2> DEFINE fresh == Fresh(Cardinality(Candidates))
             begun == [pc |-> "next", batch |-> <<>>, progress |-> fresh]
  <2>1. /\ row' = fresh /\ loop' = begun /\ candidates' = Candidates /\ warned' = {}
        /\ stranded' = FALSE
    BY <1>4 DEF StartRescore
  <2>2. fresh \in Progress /\ Tallied(fresh) /\ fresh.status = "running" /\ fresh.last = None
    BY CandidatesCounted DEF Fresh, Progress, Tallied
  <2> HIDE DEF fresh
  <2>3. begun \in Loop /\ begun.pc = "next" /\ begun.progress = fresh /\ begun.batch = <<>>
        /\ DOMAIN begun.batch = {}
    BY <2>2 DEF Loop
  <2>4. fresh # None /\ begun # None
    BY <2>2, <2>3, NameAssumption
  <2> HIDE DEF begun
  <2>5. None \notin unborn /\ None \notin Listed
    BY NameAssumption, ElementOfSeq, LenProperties DEF RescoreInv, RescoreTypeOK, Listed, ToSet
  <2>6. RescoreTypeOK'
    BY <1>2, <2>1, <2>2, <2>3, CandidatesCounted DEF RescoreInv, RescoreTypeOK, Listed
  <2>7. RunningRowHasLoop' /\ LoopHasRow' /\ ListedOnce'
    BY <1>2, <2>1, <2>2, <2>3, <2>4 DEF RescoreInv, RunningRowHasLoop, LoopHasRow, Running, ListedOnce
  <2>8. UnbornUnknown'
    BY <1>2, <2>1, <2>2, <2>3, <2>5, CandidatesCounted DEF UnbornUnknown
  <2>9. PassedJudged' /\ BatchSkipsNothing'
    BY <1>2, <2>1, <2>2, <2>3, <2>5 DEF PassedJudged, Passed, BatchSkipsNothing, Listed
  <2>10. QED
    BY <2>6, <2>7, <2>8, <2>9 DEF RescoreInv
<1>5. QED
  BY <1>3, <1>4

\* Where the resume point stands in the list.
LEMMA StartIndexIs ==
  ASSUME RescoreInv, NEW last
  PROVE  /\ StartIndex(last) \in 0..Len(listed)
         /\ last \in Listed => StartIndex(last) \in 1..Len(listed) /\ listed[StartIndex(last)] = last
         /\ last \notin Listed => StartIndex(last) = 0
<1>1. Len(listed) \in Nat /\ DOMAIN listed = 1..Len(listed)
  BY LenProperties DEF RescoreInv, RescoreTypeOK
<1>2. CASE last \in Listed
  <2>1. \E i \in DOMAIN listed : listed[i] = last
    BY <1>2 DEF Listed, ToSet
  <2>2. QED
    BY <1>1, <1>2, <2>1 DEF StartIndex
<1>3. QED
  BY <1>1, <1>2 DEF StartIndex

\* What Passed says by places in the list.
LEMMA PassedByPlace ==
  ASSUME RescoreInv, NEW last, Passed(last), NEW i \in 1..StartIndex(last), listed[i] \in candidates
  PROVE  Judged(listed[i])
<1>1. Len(listed) \in Nat /\ DOMAIN listed = 1..Len(listed)
  BY LenProperties DEF RescoreInv, RescoreTypeOK
<1>2. last \in Listed /\ StartIndex(last) \in 1..Len(listed) /\ listed[StartIndex(last)] = last
  BY StartIndexIs
<1>3. i = StartIndex(last) \/ i < StartIndex(last)
  BY <1>2
<1>4. listed[i] = last \/ Ahead(listed[i], last)
  BY <1>1, <1>2, <1>3 DEF Ahead, AheadIn
<1>5. QED
  BY <1>2, <1>4 DEF Passed

\* A batch is the part of the list behind the resume point.
LEMMA BatchIs ==
  ASSUME RescoreInv, NEW start \in 0..Len(listed)
  PROVE  /\ Batch(start) \in Seq(Scans)
         /\ \A k \in DOMAIN Batch(start) :
              k \in Nat \ {0} /\ start + k \in DOMAIN listed /\ Batch(start)[k] = listed[start + k]
<1> DEFINE end == IF start + BatchSize < Len(listed) THEN start + BatchSize ELSE Len(listed)
<1>1. /\ Len(listed) \in Nat /\ DOMAIN listed = 1..Len(listed)
      /\ \A i \in 1..Len(listed) : listed[i] \in Scans
  BY LenProperties, ElementOfSeq DEF RescoreInv, RescoreTypeOK
<1>2. end \in start..Len(listed)
  BY <1>1, BatchAssumption
<1> HIDE DEF end
<1>3. \A i \in start + 1..end : listed[i] \in Scans
  BY <1>1, <1>2
<1>4. /\ SubSeq(listed, start + 1, end) \in Seq(Scans)
      /\ Len(SubSeq(listed, start + 1, end)) = IF start + 1 <= end THEN end - (start + 1) + 1 ELSE 0
      /\ \A i \in 1..end - (start + 1) + 1 :
           SubSeq(listed, start + 1, end)[i] = listed[(start + 1) + i - 1]
  BY <1>1, <1>2, <1>3, SubSeqProperties
<1> DEFINE cut == SubSeq(listed, start + 1, end)
<1> HIDE DEF cut
<1>5. cut \in Seq(Scans) /\ DOMAIN cut = 1..end - start
  BY <1>1, <1>2, <1>4, LenProperties DEF cut
<1>6. \A k \in 1..end - start : (start + 1) + k - 1 = start + k /\ start + k \in 1..Len(listed)
  BY <1>1, <1>2
<1>7. \A k \in 1..end - start : cut[k] = listed[start + k]
  BY <1>1, <1>2, <1>4, <1>6 DEF cut
<1>8. Batch(start) = cut
  BY DEF Batch, cut, end
<1>9. QED
  BY <1>1, <1>2, <1>5, <1>6, <1>7, <1>8

LEMMA BeginKeeps ==
  ASSUME RescoreInv, BeginBatch
  PROVE  RescoreInv'
<1> DEFINE start == StartIndex(row.last)
           begun == [pc |-> "batch", batch |-> Batch(start), progress |-> row]
<1>1. /\ Running /\ row # None /\ loop # None /\ row \in Progress /\ Tallied(row) /\ row.status = "running"
      /\ row.last \notin unborn /\ Passed(row.last)
  BY DEF BeginBatch, RescoreInv, RescoreTypeOK, LoopHasRow, Running, UnbornUnknown, PassedJudged
<1>2. loop' = begun /\ UNCHANGED <<unborn, listed, scored, branded, row, candidates, warned, stranded>>
  BY <1>1 DEF BeginBatch, scans, history
<1>3. start \in 0..Len(listed)
  BY StartIndexIs
<1>4. /\ Batch(start) \in Seq(Scans)
      /\ \A k \in DOMAIN Batch(start) :
           k \in Nat \ {0} /\ start + k \in DOMAIN listed /\ Batch(start)[k] = listed[start + k]
  BY <1>3, BatchIs
<1>5. begun \in Loop /\ begun.pc = "batch" /\ begun.batch = Batch(start) /\ begun.progress = row
  BY <1>1, <1>4 DEF Loop
<1>6. begun # None
  BY <1>5, NameAssumption
<1> HIDE DEF begun
<1>7. RescoreTypeOK'
  BY <1>1, <1>2, <1>5 DEF RescoreInv, RescoreTypeOK, Listed, Tallied
<1>8. RunningRowHasLoop' /\ LoopHasRow' /\ ListedOnce'
  BY <1>1, <1>2, <1>5, <1>6 DEF RescoreInv, RunningRowHasLoop, LoopHasRow, Running, ListedOnce
<1>9. \A i \in DOMAIN listed : listed[i] \notin unborn
  BY LenProperties, ElementOfSeq DEF RescoreInv, RescoreTypeOK
<1>10. UnbornUnknown'
  BY <1>1, <1>2, <1>4, <1>5, <1>9 DEF RescoreInv, UnbornUnknown
<1>11. PassedJudged'
  BY <1>1, <1>2, <1>5 DEF PassedJudged, Passed, Judged, Ahead, Listed
<1>12. ASSUME NEW k \in DOMAIN Batch(start), NEW s \in candidates, Ahead(s, Batch(start)[k])
       PROVE  Judged(s) \/ \E m \in 1..k - 1 : Batch(start)[m] = s
  <2>1. PICK i, j \in DOMAIN listed : i < j /\ listed[i] = s /\ listed[j] = listed[start + k]
    BY <1>4, <1>12 DEF Ahead, AheadIn
  <2>2. DOMAIN listed = 1..Len(listed) /\ Len(listed) \in Nat
    BY LenProperties DEF RescoreInv, RescoreTypeOK
  <2>3. j = start + k
    BY <1>4, <2>1 DEF RescoreInv, ListedOnce, OnceIn
  <2>4. CASE i <= start
    <3>1. i \in 1..start
      BY <1>3, <2>1, <2>2, <2>4
    <3>2. QED
      BY <1>1, <2>1, <3>1, PassedByPlace
  <2>5. CASE i > start
    <3>1. DOMAIN Batch(start) = 1..Len(Batch(start)) /\ Len(Batch(start)) \in Nat
      BY <1>4, LenProperties
    <3>2. i - start \in 1..k - 1 /\ i - start \in DOMAIN Batch(start) /\ start + (i - start) = i
      BY <1>3, <1>4, <2>1, <2>2, <2>3, <2>5, <3>1
    <3>3. Batch(start)[i - start] = s
      BY <1>4, <2>1, <3>2
    <3>4. QED
      BY <3>2, <3>3
  <2>6. QED
    BY <1>3, <2>1, <2>2, <2>4, <2>5
<1>13. BatchSkipsNothing'
  BY <1>2, <1>5, <1>12 DEF BatchSkipsNothing, Ahead, Judged
<1>14. QED
  BY <1>7, <1>8, <1>10, <1>11, <1>13 DEF RescoreInv

Counts == {"scored", "skipped", "warned"}

LEMMA CountedAdds ==
  ASSUME NEW p \in Progress, Tallied(p), NEW s \in Scans, NEW count \in Counts
  PROVE  /\ Counted(p, s, count) \in Progress /\ Tallied(Counted(p, s, count))
         /\ Counted(p, s, count).last = s /\ Counted(p, s, count).status = p.status
<1> DEFINE c == Counted(p, s, count)
<1>1. /\ c = [p EXCEPT !.processed = @ + 1, !.last = s, ![count] = @ + 1]
      /\ p.status \in {"running", "completed", "failed"} /\ p.total \in Nat
      /\ p.processed \in Nat /\ p.scored \in Nat /\ p.skipped \in Nat /\ p.warned \in Nat
      /\ DOMAIN p = {"status", "total", "processed", "scored", "skipped", "warned", "last"}
      /\ p = [status |-> p.status, total |-> p.total, processed |-> p.processed,
              scored |-> p.scored, skipped |-> p.skipped, warned |-> p.warned, last |-> p.last]
  BY DEF Counted, Progress
<1> HIDE DEF c
<1> DEFINE r(a, b, d) ==
             [status |-> p.status, total |-> p.total, processed |-> p.processed + 1,
              scored |-> a, skipped |-> b, warned |-> d, last |-> s]
<1>2. ASSUME NEW a \in Nat, NEW b \in Nat, NEW d \in Nat,
             a + b + d = p.scored + p.skipped + p.warned + 1
      PROVE  /\ r(a, b, d) \in Progress /\ Tallied(r(a, b, d))
             /\ r(a, b, d).last = s /\ r(a, b, d).status = p.status
  <2>1. r(a, b, d) \in Progress
    BY <1>1 DEF Progress
  <2>2. Tallied(r(a, b, d))
    BY <1>1, <1>2 DEF Tallied
  <2>3. QED
    BY <2>1, <2>2
<1>3. CASE count = "scored"
  <2>1. c = r(p.scored + 1, p.skipped, p.warned)
    BY <1>1, <1>3
  <2>2. /\ p.scored + 1 \in Nat /\ p.skipped \in Nat /\ p.warned \in Nat
        /\ (p.scored + 1) + p.skipped + p.warned = p.scored + p.skipped + p.warned + 1
    BY <1>1
  <2> HIDE DEF r
  <2>3. QED
    BY <1>2, <2>1, <2>2 DEF c
<1>4. CASE count = "skipped"
  <2>1. c = r(p.scored, p.skipped + 1, p.warned)
    BY <1>1, <1>4
  <2>2. /\ p.scored \in Nat /\ p.skipped + 1 \in Nat /\ p.warned \in Nat
        /\ p.scored + (p.skipped + 1) + p.warned = p.scored + p.skipped + p.warned + 1
    BY <1>1
  <2> HIDE DEF r
  <2>3. QED
    BY <1>2, <2>1, <2>2 DEF c
<1>5. CASE count = "warned"
  <2>1. c = r(p.scored, p.skipped, p.warned + 1)
    BY <1>1, <1>5
  <2>2. /\ p.scored \in Nat /\ p.skipped \in Nat /\ p.warned + 1 \in Nat
        /\ p.scored + p.skipped + (p.warned + 1) = p.scored + p.skipped + p.warned + 1
    BY <1>1
  <2> HIDE DEF r
  <2>3. QED
    BY <1>2, <2>1, <2>2 DEF c
<1>6. QED
  BY <1>3, <1>4, <1>5 DEF Counts

\* One scan of the batch is counted, and judged if it is still in the list.
LEMMA JudgeKeeps ==
  ASSUME RescoreInv, InBatch, loop.batch # <<>>, NEW count \in Counts, Judge(count),
         UNCHANGED <<unborn, listed, branded, row, candidates, stranded>>,
         scored \subseteq scored', scored' \subseteq Listed,
         warned \subseteq warned', warned' \subseteq Scans,
         Head(loop.batch) \in Listed => Head(loop.batch) \in scored' \cup warned'
  PROVE  RescoreInv'
<1>0. PICK s, rest, p, judged :
        /\ s = Head(loop.batch) /\ rest = Tail(loop.batch)
        /\ p = Counted(loop.progress, s, count)
        /\ judged = [loop EXCEPT !.progress = p, !.batch = rest]
  OBVIOUS
<1>1. loop # None /\ loop.pc = "batch" /\ loop \in Loop /\ Tallied(loop.progress)
      /\ loop.batch \in Seq(Scans) /\ loop.progress \in Progress /\ loop.progress.status = "running"
      /\ Running
  BY DEF RescoreInv, RescoreTypeOK, InBatch, Loop, LoopHasRow
<1>2. /\ s \in Scans /\ rest \in Seq(Scans) /\ s = loop.batch[1] /\ 1 \in DOMAIN loop.batch
      /\ \A k \in DOMAIN rest : k + 1 \in DOMAIN loop.batch /\ rest[k] = loop.batch[k + 1] /\ k \in Nat
  <2>1. /\ s \in Scans /\ rest \in Seq(Scans) /\ Len(rest) = Len(loop.batch) - 1
        /\ \A k \in 1..Len(rest) : rest[k] = loop.batch[k + 1]
    BY <1>0, <1>1, HeadTailProperties
  <2>2. DOMAIN loop.batch = 1..Len(loop.batch) /\ Len(loop.batch) \in Nat
        /\ DOMAIN rest = 1..Len(rest) /\ s = loop.batch[1]
    BY <1>0, <1>1, <2>1, LenProperties
  <2>3. Len(loop.batch) # 0
    BY <1>1, EmptySeq
  <2>4. QED
    BY <2>1, <2>2, <2>3
<1>3. /\ p \in Progress /\ Tallied(p) /\ p.last = s /\ p.status = "running"
  BY <1>0, <1>1, <1>2, CountedAdds
<1>4. loop' = judged
  BY <1>0 DEF Judge
<1>5. judged \in Loop /\ judged.pc = "batch" /\ judged.batch = rest /\ judged.progress = p
  BY <1>0, <1>1, <1>2, <1>3 DEF Loop
<1>6. judged # None
  BY <1>5, NameAssumption
<1>7. RescoreTypeOK'
  BY <1>3, <1>4, <1>5 DEF RescoreInv, RescoreTypeOK, Listed, Tallied
<1>8. RunningRowHasLoop' /\ LoopHasRow' /\ ListedOnce'
  BY <1>1, <1>3, <1>4, <1>5, <1>6 DEF RescoreInv, RunningRowHasLoop, LoopHasRow, Running, ListedOnce
<1>9. s \notin unborn /\ \A k \in DOMAIN rest : rest[k] \notin unborn
  BY <1>1, <1>2 DEF RescoreInv, UnbornUnknown
<1>10. UnbornUnknown'
  BY <1>3, <1>4, <1>5, <1>9 DEF RescoreInv, UnbornUnknown
<1>11. /\ \A x : Judged(x) => Judged(x)'
       /\ \A x, y : Ahead(x, y)' <=> Ahead(x, y)
       /\ Listed' = Listed /\ (s \in Listed => Judged(s)')
  BY <1>0 DEF Judged, Ahead, Listed
<1>12. ASSUME NEW x \in candidates, Ahead(x, s)
       PROVE  Judged(x)
  BY <1>1, <1>2, <1>12 DEF RescoreInv, BatchSkipsNothing
<1>13. Passed(s)'
  BY <1>11, <1>12 DEF Passed
<1>14. row # None => Passed(row.last)'
  BY <1>11 DEF RescoreInv, PassedJudged, Passed
<1>15. PassedJudged'
  BY <1>3, <1>4, <1>5, <1>13, <1>14 DEF PassedJudged
<1>16. ASSUME NEW k \in DOMAIN rest, NEW x \in candidates, Ahead(x, rest[k])
       PROVE  Judged(x)' \/ \E m \in 1..k - 1 : rest[m] = x
  <2>1. Judged(x) \/ \E m \in 1..(k + 1) - 1 : loop.batch[m] = x
    BY <1>1, <1>2, <1>16 DEF RescoreInv, BatchSkipsNothing
  <2>2. ASSUME NEW m \in 1..(k + 1) - 1, loop.batch[m] = x
        PROVE  Judged(x)' \/ \E n \in 1..k - 1 : rest[n] = x
    <3>1. CASE m = 1
      <4>1. x = s /\ x \in Listed
        BY <1>2, <1>16, <2>2, <3>1 DEF Ahead, AheadIn, Listed, ToSet
      <4>2. QED
        BY <1>11, <4>1
    <3>2. CASE m # 1
      <4>1. DOMAIN rest = 1..Len(rest) /\ Len(rest) \in Nat
        BY <1>2, LenProperties
      <4>2. m - 1 \in 1..k - 1 /\ m - 1 \in DOMAIN rest /\ (m - 1) + 1 = m
        BY <1>2, <3>2, <4>1
      <4>3. rest[m - 1] = x
        BY <1>2, <2>2, <4>2
      <4>4. QED
        BY <4>2, <4>3
    <3>3. QED
      BY <3>1, <3>2
  <2>3. QED
    BY <1>11, <2>1, <2>2
<1>17. BatchSkipsNothing'
  BY <1>4, <1>5, <1>11, <1>16 DEF BatchSkipsNothing
<1>18. QED
  BY <1>7, <1>8, <1>10, <1>15, <1>17 DEF RescoreInv

LEMMA JudgingKeeps ==
  ASSUME RescoreInv, SkipScored \/ WarnUnbranded \/ ScoreScan
  PROVE  RescoreInv'
<1>1. scored \subseteq Listed /\ warned \subseteq Scans
  BY DEF RescoreInv, RescoreTypeOK
<1>2. CASE SkipScored
  <2>1. /\ InBatch /\ loop.batch # <<>> /\ Judge("skipped") /\ "skipped" \in Counts
        /\ UNCHANGED <<unborn, listed, branded, row, candidates, stranded>>
        /\ scored' = scored /\ warned' = warned /\ Head(loop.batch) \in scored
    BY <1>2 DEF SkipScored, scans, history, Counts
  <2>2. Head(loop.batch) \in scored'
    BY <2>1
  <2>3. QED
    BY <1>1, <2>1, <2>2, JudgeKeeps
<1>3. CASE WarnUnbranded
  <2>1. /\ InBatch /\ loop.batch # <<>> /\ Judge("warned") /\ "warned" \in Counts
        /\ UNCHANGED <<unborn, listed, branded, row, candidates, stranded>>
        /\ scored' = scored /\ warned' = warned \cup {Head(loop.batch)}
    BY <1>3 DEF WarnUnbranded, scans, Counts
  <2>2. Head(loop.batch) \in Scans
    BY <2>1, HeadTailProperties DEF RescoreInv, RescoreTypeOK, InBatch, Loop
  <2>3. Head(loop.batch) \in warned'
    BY <2>1
  <2>4. QED
    BY <1>1, <2>1, <2>2, <2>3, JudgeKeeps
<1>4. CASE ScoreScan
  <2>1. /\ InBatch /\ loop.batch # <<>> /\ Judge("scored") /\ "scored" \in Counts
        /\ UNCHANGED <<unborn, listed, branded, row, candidates, stranded>>
        /\ warned' = warned /\ scored' = scored \cup {Head(loop.batch)} /\ Head(loop.batch) \in Listed
    BY <1>4 DEF ScoreScan, history, Counts
  <2>2. Head(loop.batch) \in scored'
    BY <2>1
  <2>3. QED
    BY <1>1, <2>1, <2>2, JudgeKeeps
<1>5. QED
  BY <1>2, <1>3, <1>4

\* The last write of a batch stores its counts, whatever its outcome.
LEMMA WriteKeeps ==
  ASSUME RescoreInv, InBatch, NEW st \in {"running", "completed", "failed"},
         WriteProgress([loop.progress EXCEPT !.status = st]), UNCHANGED <<scans, history>>
  PROVE  RescoreInv'
<1> DEFINE p == [loop.progress EXCEPT !.status = st]
           next == [pc |-> "next", batch |-> <<>>, progress |-> p]
<1>1. loop # None /\ loop \in Loop /\ Tallied(loop.progress) /\ loop.progress \in Progress
      /\ loop.progress.last \notin unborn /\ Passed(loop.progress.last)
  BY DEF RescoreInv, RescoreTypeOK, InBatch, Loop, UnbornUnknown, PassedJudged
<1>2. p \in Progress /\ Tallied(p) /\ p.last = loop.progress.last /\ p.status = st /\ p # None
  BY <1>1, NameAssumption DEF Progress, Tallied
<1>3. row' = p /\ loop' = (IF p.status = "running" THEN next ELSE None)
  BY DEF WriteProgress, p, next
<1>4. UNCHANGED <<unborn, listed, scored, branded, candidates, warned, stranded>>
  BY DEF scans, history
<1> HIDE DEF p
<1>5. /\ next \in Loop /\ next.pc = "next" /\ next.progress = p /\ next.batch = <<>>
      /\ DOMAIN next.batch = {} /\ next # None
  <2>1. next \in Loop /\ next.pc = "next" /\ next.progress = p /\ next.batch = <<>>
    BY <1>2 DEF Loop
  <2> HIDE DEF next
  <2>2. QED
    BY <2>1, NameAssumption
<1> HIDE DEF next
<1>6. RescoreTypeOK'
  BY <1>2, <1>3, <1>4, <1>5 DEF RescoreInv, RescoreTypeOK, Listed, Tallied
<1>7. RunningRowHasLoop' /\ LoopHasRow' /\ ListedOnce'
  BY <1>2, <1>3, <1>4, <1>5 DEF RescoreInv, RunningRowHasLoop, LoopHasRow, Running, ListedOnce
<1>8. UnbornUnknown'
  BY <1>1, <1>2, <1>3, <1>4, <1>5 DEF RescoreInv, UnbornUnknown
<1>9. PassedJudged'
  BY <1>1, <1>2, <1>3, <1>4, <1>5 DEF PassedJudged, Passed, Judged, Ahead, Listed
<1>10. BatchSkipsNothing'
  BY <1>3, <1>5 DEF BatchSkipsNothing
<1>11. QED
  BY <1>6, <1>7, <1>8, <1>9, <1>10 DEF RescoreInv

LEMMA EndKeeps ==
  ASSUME RescoreInv, EndBatch \/ FailBatch \/ RefuseScore
  PROVE  RescoreInv'
<1>1. CASE EndBatch
  <2>1. loop.progress \in Progress /\ loop.progress.status = "running" /\ InBatch
    BY <1>1 DEF RescoreInv, RescoreTypeOK, LoopHasRow, EndBatch, InBatch, Loop
  <2>2. loop.progress = [loop.progress EXCEPT !.status = "running"]
    BY <2>1 DEF Progress
  <2>3. \E st \in {"running", "completed", "failed"} :
           WriteProgress([loop.progress EXCEPT !.status = st])
    <3>1. CASE loop.progress.processed >= loop.progress.total
      BY <1>1, <3>1 DEF EndBatch
    <3>2. CASE ~(loop.progress.processed >= loop.progress.total)
      <4>1. WriteProgress(loop.progress)
        BY <1>1, <3>2 DEF EndBatch
      <4>2. QED
        BY <2>2, <4>1 DEF WriteProgress
    <3>3. QED
      BY <3>1, <3>2
  <2>4. QED
    BY <1>1, <2>1, <2>3, WriteKeeps DEF EndBatch
<1>2. CASE FailBatch
  BY <1>2, WriteKeeps DEF FailBatch
<1>3. QED
  BY <1>1, <1>2 DEF RefuseScore

LEMMA LoseKeeps ==
  ASSUME RescoreInv, LoseLoop
  PROVE  RescoreInv'
  BY DEF RescoreInv, LoseLoop, scans, RescoreTypeOK, RunningRowHasLoop, Running, ListedOnce, LoopHasRow,
         UnbornUnknown, PassedJudged, Passed, Judged, Ahead, BatchSkipsNothing, Listed, Tallied

-----------------------------------------------------------------------------
(* The theorems *)

LEMMA NextKeeps == RescoreInv /\ [Next]_vars => RescoreInv'
<1> SUFFICES ASSUME RescoreInv, [Next]_vars
             PROVE  RescoreInv'
  OBVIOUS
<1>1. ASSUME NEW s \in Scans, CompleteScan(s) \/ DeleteScan(s) \/ Retag(s) \/ ChangeGuideline(s)
      PROVE  RescoreInv'
  BY <1>1, CompleteMoves, DeleteMoves, OtherMoves, MovesKeep
<1>2. CASE LoopStep
  BY <1>2, BeginKeeps, JudgingKeeps, EndKeeps DEF LoopStep
<1>3. CASE UNCHANGED vars
  <2>1. ScansMove
    BY <1>3 DEF vars, ScansMove, RescoreInv, RescoreTypeOK, ListedOnce, Listed, Ahead
  <2>2. QED
    BY <2>1, MovesKeep
<1>4. QED
  BY <1>1, <1>2, <1>3, StartKeeps, EndKeeps, LoseKeeps DEF Next

\* The inductive invariant of the rescore: the lock, the resume points and what the
\* batch has still to do, through any changes of the list between two scans.
THEOREM RescoreHolds == Spec => []RescoreInv
<1>1. Init => RescoreInv
  <2> SUFFICES ASSUME Init
               PROVE  RescoreInv
    OBVIOUS
  <2>1. listed \in Seq(Scans \ unborn) /\ DOMAIN listed = {}
    BY DEF Init
  <2>2. QED
    BY <2>1 DEF Init, RescoreInv, RescoreTypeOK, RunningRowHasLoop, Running, ListedOnce, OnceIn, LoopHasRow,
         UnbornUnknown, PassedJudged, BatchSkipsNothing
<1>2. QED
  BY <1>1, NextKeeps, PTL DEF Spec

\* Types, and the counts of the progress page: every scan behind the loop is in
\* exactly one of the three counts, in the row and in the loop.
THEOREM CountsAddUp == Spec => []RescoreTypeOK
<1>1. RescoreInv => RescoreTypeOK
  BY DEF RescoreInv
<1>2. QED
  BY <1>1, RescoreHolds, PTL

\* The row is the lock: a working loop has a running row, and a running row has a
\* loop unless it was lost without a last write.
THEOREM RowIsTheLock == Spec => []RunningRowHasLoop
<1>1. RescoreInv => RunningRowHasLoop
  BY DEF RescoreInv
<1>2. QED
  BY <1>1, RescoreHolds, PTL

\* The row is the resume point: no scan it counted stands before it in the list
\* without a score or a warning.
THEOREM NothingPassedUnjudged == Spec => []PassedMeansJudged
<1>1. ASSUME RescoreInv, row # None
      PROVE  \A i \in 1..StartIndex(row.last) :
               listed[i] \in candidates => listed[i] \in scored \cup warned
  <2>1. Passed(row.last)
    BY <1>1 DEF RescoreInv, PassedJudged
  <2>2. QED
    BY <1>1, <2>1, PassedByPlace DEF Judged
<1>2. RescoreInv => PassedMeansJudged
  BY <1>1 DEF PassedMeansJudged
<1>3. QED
  BY <1>2, RescoreHolds, PTL

=============================================================================

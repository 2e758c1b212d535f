-------------------------- MODULE OAuthKeys_proofs --------------------------
(***************************************************************************)
(* Theorems about OAuthKeys for all lifetimes and any number of keys.      *)
(***************************************************************************)
EXTENDS OAuthKeys, TLAPS

(* The inductive invariant. *)

\* The newest key of all is active, a rotation in progress is to retire an earlier one,
\* and a process that is up has a table with keys.
Rotating ==
  /\ keys # <<>> => Len(keys) \in Active
  /\ job.pc = "retiring" => job.key \in Active /\ job.key # Len(keys)
  /\ signer # 0 => keys # <<>>

\* Keys that are gone have been retired for longer than the overlap; tokens that are
\* kept have not outlived their time.
Timely ==
  /\ \A k \in Kids : ~Published(k) => keys[k].retired + Grace < now
  /\ \A x \in tokens : now <= x.minted + AccessTTL

\* No token is from the future, and none names a key younger than the signer's.
InOrder ==
  /\ \A x \in tokens : x.minted <= now
  /\ signer # 0 => \A x \in tokens : x.key <= signer
  /\ SigningMovesOn

IInv == KeysTypeOK /\ Rotating /\ Timely /\ InOrder

LEMMA InvInit == Init => IInv
<1> SUFFICES ASSUME Init PROVE IInv
  OBVIOUS
<1>1. Kids = {}
  BY DEF Init, Kids
<1>2. QED
  BY <1>1 DEF Init, IInv, KeysTypeOK, Rotating, Timely, InOrder, SigningMovesOn, Idle, Job

LEMMA EmptyTable ==
  ASSUME NEW S, NEW s \in Seq(S)
  PROVE  s = <<>> <=> DOMAIN s = {}
  OBVIOUS

\* What insertKey does to the table.
LEMMA InsertTyped ==
  ASSUME IInv, Insert
  PROVE  /\ keys' \in Seq(KeyRow) /\ Kids' = Kids \cup {Len(keys) + 1}
         /\ Len(keys') = Len(keys) + 1 /\ Len(keys) + 1 \notin Kids
         /\ \A k \in Kids : keys'[k] = keys[k]
         /\ keys'[Len(keys) + 1] = [created |-> now, retired |-> Never, removed |-> Never]
         /\ Active' = Active \cup {Len(keys) + 1}
<1> DEFINE n == Len(keys) + 1
           row == [created |-> now, retired |-> Never, removed |-> Never]
<1>1. keys \in Seq(KeyRow) /\ row \in KeyRow
  BY DEF IInv, KeysTypeOK, KeyRow
<1>2. keys' = Append(keys, row)
  BY DEF Insert
<1>3. keys' \in Seq(KeyRow) /\ Kids' = Kids \cup {n} /\ n \notin Kids /\ Len(keys') = n
      /\ keys'[n] = row /\ \A k \in Kids : keys'[k] = keys[k]
  BY <1>1, <1>2 DEF Kids
<1>4. Active' = Active \cup {n}
  BY <1>3 DEF Active
<1>5. QED
  BY <1>3, <1>4

\* Steps that leave the tokens and the signer alone leave their order as it is.
LEMMA SameOrder == IInv /\ UNCHANGED <<now, signer, tokens>> => InOrder'
  BY DEF IInv, InOrder, SigningMovesOn

\* Steps that leave the keys alone.
LEMMA SameKeys ==
  ASSUME IInv, UNCHANGED keys,
         \/ LoadSigner \/ Crash \/ MintAccessToken \/ Tick
         \/ RetireFails \/ SweepEnds \/ UNCHANGED vars
  PROVE  IInv'
<1>1. Kids' = Kids /\ Active' = Active /\ keys' = keys
  BY DEF Kids, Active
<1>3. KeysTypeOK'
  <2>1. now' \in Nat /\ signer' \in Kids \cup {0}
    BY DEF IInv, KeysTypeOK, LoadSigner, Crash, MintAccessToken, Tick, RetireFails,
           SweepEnds, vars
  <2>2. job' \in Job /\ job'.key \in Kids \cup {0}
    BY DEF IInv, KeysTypeOK, LoadSigner, Crash, MintAccessToken, Tick, RetireFails,
           SweepEnds, vars, Idle, Job
  <2>3. tokens' \subseteq Token /\ \A x \in tokens' : x.key \in Kids
    <3>1. CASE MintAccessToken
      <4>1. signer \in Kids /\ signer \in Nat \ {0} /\ now \in Nat
        BY <3>1 DEF MintAccessToken, IInv, KeysTypeOK, Kids
      <4>2. [key |-> signer, minted |-> now] \in Token
        BY <4>1 DEF Token
      <4>3. QED
        BY <3>1, <4>1, <4>2 DEF MintAccessToken, IInv, KeysTypeOK
    <3>2. CASE tokens' \subseteq tokens
      BY <3>2 DEF IInv, KeysTypeOK
    <3>3. QED
      BY <3>1, <3>2 DEF LoadSigner, Crash, Tick, RetireFails, SweepEnds, vars
  <2>4. QED
    BY <1>1, <2>1, <2>2, <2>3 DEF IInv, KeysTypeOK
<1>4. Rotating'
  <2>1. CASE LoadSigner
    BY <1>1, <2>1 DEF IInv, Rotating, LoadSigner, Kids
  <2>2. QED
    BY <1>1, <2>1 DEF IInv, Rotating, Crash, MintAccessToken, Tick, RetireFails,
                      SweepEnds, vars, Idle
<1>5. InOrder'
  <2>1. CASE MintAccessToken
    <3>1. /\ tokens' = tokens \cup {[key |-> signer, minted |-> now]}
          /\ UNCHANGED <<now, signer>> /\ signer # 0 /\ signer \in Nat /\ now \in Nat
      BY <2>1 DEF MintAccessToken, IInv, KeysTypeOK, Kids
    <3>2. \A x \in tokens : x.key <= signer /\ x.minted <= now /\ x \in Token
      BY <3>1 DEF IInv, InOrder, KeysTypeOK
    <3>3. (\A x \in tokens : x.minted <= now)' /\ (\A x \in tokens : x.key <= signer)'
      BY <3>1, <3>2
    <3>4. SigningMovesOn'
      BY <3>1, <3>2 DEF IInv, InOrder, SigningMovesOn, Token
    <3>5. QED
      BY <3>3, <3>4 DEF InOrder
  <2>2. CASE LoadSigner
    <3>1. PICK k \in Kids : Newest(k) /\ signer' = k
      BY <2>2 DEF LoadSigner
    <3>2. keys \in Seq(KeyRow) /\ Kids = 1..Len(keys) /\ Len(keys) \in Nat
      BY DEF IInv, KeysTypeOK, Kids
    <3>3. k = Len(keys)
      BY <3>1, <3>2 DEF IInv, Rotating, Newest
    <3>4. \A x \in tokens : x.key <= k
      BY <3>2, <3>3 DEF IInv, KeysTypeOK
    <3>5. QED
      BY <2>2, <3>1, <3>4 DEF LoadSigner, IInv, InOrder, SigningMovesOn
  <2>3. CASE Tick
    BY <2>3 DEF Tick, IInv, InOrder, SigningMovesOn, KeysTypeOK, Token
  <2>4. CASE Crash
    BY <2>4 DEF Crash, IInv, InOrder, SigningMovesOn
  <2>5. CASE UNCHANGED <<now, signer, tokens>>
    BY <2>5, SameOrder
  <2>6. QED
    BY <2>1, <2>2, <2>3, <2>4, <2>5 DEF RetireFails, SweepEnds, vars
<1>6. Timely'
  <2>1. CASE Tick
    <3>1. now \in Nat /\ now' = now + 1
      BY <2>1 DEF Tick, IInv, KeysTypeOK
    <3>2. \A k \in Kids : ~Published(k) => keys[k].retired + Grace \in Int
      <4>1. \A k \in Kids : keys[k] \in KeyRow
        BY DEF IInv, KeysTypeOK, Kids
      <4>2. QED
        BY <4>1, PeriodAssumption DEF KeyRow, Never
    <3>3. \A x \in tokens' : now' <= x.minted + AccessTTL
      BY <2>1, PeriodAssumption DEF Tick, Expired, IInv, KeysTypeOK, Token
    <3>4. \A k \in Kids' : ~Published(k)' => keys'[k].retired + Grace < now'
      BY <1>1, <3>1, <3>2 DEF IInv, Timely, Published
    <3>5. QED
      BY <3>3, <3>4 DEF Timely
  <2>2. CASE MintAccessToken
    BY <1>1, <2>2, PeriodAssumption DEF MintAccessToken, IInv, Timely, KeysTypeOK, Published
  <2>3. CASE UNCHANGED <<now, tokens>>
    BY <1>1, <2>3 DEF IInv, Timely, Published
  <2>4. QED
    BY <2>1, <2>2, <2>3 DEF LoadSigner, Crash, RetireFails, SweepEnds, vars
<1>7. QED
  BY <1>3, <1>4, <1>5, <1>6 DEF IInv

LEMMA BootstrapKeeps == IInv /\ Bootstrap => IInv'
<1> SUFFICES ASSUME IInv, Bootstrap PROVE IInv'
  OBVIOUS
<1>1. /\ keys' \in Seq(KeyRow) /\ Kids' = Kids \cup {Len(keys) + 1}
      /\ Len(keys') = Len(keys) + 1
      /\ \A k \in Kids : keys'[k] = keys[k]
      /\ keys'[Len(keys) + 1] = [created |-> now, retired |-> Never, removed |-> Never]
      /\ Active' = Active \cup {Len(keys) + 1}
  BY InsertTyped DEF Bootstrap
<1>2. UNCHANGED <<now, signer, job, tokens>> /\ signer = 0 /\ Active = {}
  BY DEF Bootstrap
<1>3. KeysTypeOK'
  BY <1>1, <1>2 DEF IInv, KeysTypeOK
<1>4. Rotating'
  BY <1>1, <1>2 DEF IInv, Rotating
<1>5. Timely'
  BY <1>1, <1>2 DEF IInv, Timely, Published
<1>6. InOrder'
  BY <1>2, SameOrder
<1>7. QED
  BY <1>3, <1>4, <1>5, <1>6 DEF IInv

LEMMA RotationKeeps == IInv /\ BeginRotation => IInv'
<1> SUFFICES ASSUME IInv, BeginRotation PROVE IInv'
  OBVIOUS
<1> DEFINE n == Len(keys) + 1
<1>1. PICK k \in Kids : Newest(k) /\ RotateFrom(k)
                        /\ (job.pc = "idle" \/ job.pc = "aging")
  BY DEF BeginRotation
<1>2. /\ keys' \in Seq(KeyRow) /\ Kids' = Kids \cup {n} /\ Len(keys') = n
      /\ n \notin Kids
      /\ \A j \in Kids : keys'[j] = keys[j]
      /\ keys'[n] = [created |-> now, retired |-> Never, removed |-> Never]
      /\ Active' = Active \cup {n}
  BY <1>1, InsertTyped DEF RotateFrom
<1>3. /\ UNCHANGED <<now, signer, tokens>>
      /\ job' = [pc |-> "retiring", key |-> k] /\ k \in Active /\ k \in Nat
  BY <1>1 DEF BeginRotation, RotateFrom, Newest, Kids, IInv, KeysTypeOK
<1>4. KeysTypeOK'
  BY <1>1, <1>2, <1>3 DEF IInv, KeysTypeOK, Job
<1>5. Rotating'
  <2>1. n \in Active' /\ k \in Active' /\ n # k
    BY <1>1, <1>2, <1>3
  <2>2. keys' # <<>>
    BY <1>2 DEF Kids
  <2>3. QED
    BY <1>2, <1>3, <2>1, <2>2 DEF Rotating
<1>6. Timely'
  BY <1>2, <1>3 DEF IInv, Timely, Published
<1>7. InOrder'
  BY <1>3, SameOrder
<1>8. QED
  BY <1>4, <1>5, <1>6, <1>7 DEF IInv

LEMMA RetireKeeps == IInv /\ Retire => IInv'
<1> SUFFICES ASSUME IInv, Retire PROVE IInv'
  OBVIOUS
<1> DEFINE k == job.key
<1>1. /\ k \in Active /\ k # Len(keys)
      /\ keys' = [keys EXCEPT ![k] = [keys[k] EXCEPT !.retired = now]]
      /\ job' = Idle /\ UNCHANGED <<now, signer, tokens>>
      /\ keys \in Seq(KeyRow) /\ now \in Nat /\ now # Never
  BY DEF Retire, IInv, Rotating, KeysTypeOK, Never
<1>2. keys[k] \in KeyRow /\ k \in Kids
  BY <1>1 DEF Active, Kids
<1>3. [keys[k] EXCEPT !.retired = now] \in KeyRow
      /\ [keys[k] EXCEPT !.retired = now].retired = now
      /\ [keys[k] EXCEPT !.retired = now].removed = keys[k].removed
  BY <1>1, <1>2 DEF KeyRow
<1>4. keys' \in Seq(KeyRow) /\ Kids' = Kids /\ Len(keys') = Len(keys)
      /\ keys'[k] = [keys[k] EXCEPT !.retired = now]
      /\ \A j \in Kids \ {k} : keys'[j] = keys[j]
  BY <1>1, <1>2, <1>3 DEF Kids
<1>5. Active' = Active \ {k}
  BY <1>1, <1>3, <1>4 DEF Active
<1>6. keys[k].removed = Never
  BY <1>1, <1>2 DEF IInv, KeysTypeOK, Active
<1>7. KeysTypeOK'
  BY <1>1, <1>3, <1>4, <1>6 DEF IInv, KeysTypeOK, Idle, Job
<1>8. Rotating'
  BY <1>1, <1>2, <1>4, <1>5 DEF IInv, Rotating, Idle, Kids
<1>9. Timely'
  BY <1>1, <1>3, <1>4, <1>6 DEF IInv, Timely, Published
<1>10. InOrder'
  BY <1>1, SameOrder
<1>11. QED
  BY <1>7, <1>8, <1>9, <1>10 DEF IInv

LEMMA SweepKeeps == IInv /\ Sweep => IInv'
<1> SUFFICES ASSUME IInv, Sweep PROVE IInv'
  OBVIOUS
<1>1. PICK gone \in SUBSET Removable :
        keys' = [k \in Kids |-> IF k \in gone THEN [keys[k] EXCEPT !.removed = now]
                                              ELSE keys[k]]
  BY DEF Sweep
<1>2. keys \in Seq(KeyRow) /\ now \in Nat /\ Kids = 1..Len(keys) /\ Len(keys) \in Nat
  BY DEF IInv, KeysTypeOK, Kids
<1>3. \A k \in Kids : [keys[k] EXCEPT !.removed = now] \in KeyRow
  <2>1. \A k \in Kids : keys[k] \in KeyRow
    BY <1>2
  <2>2. QED
    BY <1>2, <2>1 DEF KeyRow
<1>4. keys' \in [1..Len(keys) -> KeyRow]
  BY <1>1, <1>2, <1>3
<1>5. keys' \in Seq(KeyRow) /\ Kids' = Kids /\ Len(keys') = Len(keys)
  BY <1>2, <1>4 DEF Kids
<1>6. \A k \in Kids : /\ keys'[k].retired = keys[k].retired
                      /\ keys'[k].removed = IF k \in gone THEN now ELSE keys[k].removed
  <2>1. \A k \in Kids : keys[k] \in KeyRow
    BY <1>2
  <2>2. QED
    BY <1>1, <2>1 DEF KeyRow
<1>7. \A k \in gone : keys[k].retired # Never /\ keys[k].retired + Grace < now
  BY DEF Removable, Active
<1>8. Active' = Active
  BY <1>5, <1>6 DEF Active
<1>9. /\ UNCHANGED <<now, signer, tokens>>
      /\ job' \in {Idle, [pc |-> "aging", key |-> 0]} /\ job = Idle
  BY DEF Sweep
<1>10. KeysTypeOK'
  BY <1>5, <1>6, <1>7, <1>9 DEF IInv, KeysTypeOK, Idle, Job
<1>11. Rotating'
  <2>1. keys # <<>> <=> Kids # {}
    BY <1>2, EmptyTable DEF Kids
  <2>2. keys' # <<>> <=> Kids' # {}
    BY <1>5, EmptyTable DEF Kids
  <2>3. QED
    BY <1>5, <1>8, <1>9, <2>1, <2>2 DEF IInv, Rotating, Idle
<1>12. Timely'
  BY <1>5, <1>6, <1>7, <1>9 DEF IInv, Timely, Published
<1>13. InOrder'
  BY <1>9, SameOrder
<1>14. QED
  BY <1>10, <1>11, <1>12, <1>13 DEF IInv

LEMMA InvNext == IInv /\ [Next]_vars => IInv'
<1> SUFFICES ASSUME IInv, [Next]_vars PROVE IInv'
  OBVIOUS
<1>1. CASE \/ LoadSigner \/ Crash \/ MintAccessToken \/ Tick
           \/ RetireFails \/ SweepEnds \/ UNCHANGED vars
  <2>1. UNCHANGED keys
    BY <1>1 DEF LoadSigner, Crash, MintAccessToken, Tick, RetireFails, SweepEnds, vars
  <2>2. QED
    BY <1>1, <2>1, SameKeys
<1>2. QED
  BY <1>1, BootstrapKeeps, RotationKeeps, RetireKeeps, SweepKeeps DEF Next

LEMMA Invariant == Spec => []IInv
  BY InvInit, InvNext, PTL DEF Spec

-----------------------------------------------------------------------------
(* Theorems *)

\* Type correctness, and keys go from active to retired to removed.
THEOREM KeysTyped == Spec => []KeysTypeOK
<1>1. IInv => KeysTypeOK
  BY DEF IInv
<1>2. QED
  BY <1>1, Invariant, PTL

\* However often rotations are interrupted, a key to sign with remains.
THEOREM KeyRemains == Spec => []ActiveKeyRemains
<1>1. IInv => ActiveKeyRemains
  BY DEF IInv, Rotating, ActiveKeyRemains
<1>2. QED
  BY <1>1, Invariant, PTL

\* No token names an older key than one signed before it: keys that interrupted rotations
\* left active are out of use as soon as the process has started anew.
THEOREM SigningMovesAlong == Spec => []SigningMovesOn
<1>1. IInv => SigningMovesOn
  BY DEF IInv, InOrder
<1>2. QED
  BY <1>1, Invariant, PTL

\* No later rotation picks up a key that an interrupted one left active: once left over
\* it stays so, active behind the newest, and is published for ever.
THEOREM LeftOverStays ==
  Spec => [][\A k \in Kids : LeftOver(k) => LeftOver(k)' /\ Published(k)']_vars
<1>1. ASSUME IInv, IInv', [Next]_vars, NEW k \in Kids, LeftOver(k)
      PROVE  LeftOver(k)' /\ Published(k)'
  <2>1. keys \in Seq(KeyRow) /\ Kids = 1..Len(keys) /\ Len(keys) \in Nat
        /\ Active \subseteq Kids
    BY <1>1 DEF IInv, KeysTypeOK, Kids, Active
  <2>2. k < Len(keys) /\ Len(keys) \in Active /\ k \in Active
    <3>1. keys # <<>>
      BY <2>1
    <3>2. QED
      BY <1>1, <2>1, <3>1 DEF IInv, Rotating, LeftOver, Newest
  <2>3. /\ Kids \subseteq Kids' /\ Len(keys) <= Len(keys') /\ k \in Active'
        /\ ~(job.pc = "retiring" /\ job.key = k)'
    <3>1. CASE BeginRotation
      <4>1. PICK j \in Kids : Newest(j) /\ RotateFrom(j)
        BY <3>1 DEF BeginRotation
      <4>2. Kids' = Kids \cup {Len(keys) + 1} /\ Len(keys') = Len(keys) + 1
            /\ Active' = Active \cup {Len(keys) + 1}
        BY <1>1, <4>1, InsertTyped DEF RotateFrom
      <4>3. job'.key = j /\ j # k
        BY <1>1, <4>1 DEF RotateFrom, LeftOver
      <4>4. QED
        BY <2>1, <2>2, <4>2, <4>3
    <3>2. CASE Bootstrap
      BY <2>2, <3>2 DEF Bootstrap
    <3>3. CASE Retire
      <4>1. keys' = [keys EXCEPT ![job.key].retired = now] /\ job' = Idle /\ job.key # k
        BY <1>1, <3>3 DEF Retire, LeftOver
      <4>2. Kids' = Kids /\ Len(keys') = Len(keys) /\ keys'[k] = keys[k]
        BY <1>1, <2>1, <4>1 DEF Kids
      <4>3. QED
        BY <2>1, <2>2, <4>1, <4>2 DEF Active, Idle
    <3>4. CASE Sweep
      <4>1. PICK gone \in SUBSET Removable :
              keys' = [j \in Kids |-> IF j \in gone THEN [keys[j] EXCEPT !.removed = now]
                                                    ELSE keys[j]]
        BY <3>4 DEF Sweep
      <4>2. Kids' = Kids /\ keys'[k] = keys[k]
        BY <2>2, <4>1 DEF Kids, Removable
      <4>3. Len(keys') = Len(keys)
        BY <1>1, <2>1, <4>2 DEF IInv, KeysTypeOK, Kids
      <4>4. job'.pc # "retiring"
        BY <3>4 DEF Sweep, Idle
      <4>5. QED
        BY <2>1, <2>2, <4>2, <4>3, <4>4 DEF Active
    <3>5. CASE \/ LoadSigner \/ Crash \/ MintAccessToken \/ Tick
               \/ RetireFails \/ SweepEnds \/ UNCHANGED vars
      <4>1. keys' = keys /\ (job' = job \/ job' = Idle)
        BY <3>5 DEF LoadSigner, Crash, MintAccessToken, Tick, RetireFails, SweepEnds, vars
      <4>2. QED
        BY <1>1, <2>1, <2>2, <4>1 DEF Active, Kids, LeftOver, Idle
    <3>6. QED
      BY <1>1, <3>1, <3>2, <3>3, <3>4, <3>5 DEF Next
  <2>4. Len(keys') \in Nat /\ Len(keys') \in Active'
    <3>1. keys' \in Seq(KeyRow) /\ keys' # <<>>
      BY <1>1, <2>1, <2>3 DEF IInv, KeysTypeOK, Kids
    <3>2. QED
      BY <1>1, <3>1 DEF IInv, Rotating
  <2>5. ~Newest(k)'
    BY <2>1, <2>2, <2>3, <2>4 DEF Newest
  <2>6. Published(k)'
    BY <1>1, <2>3 DEF IInv, KeysTypeOK, Published, Active
  <2>7. QED
    BY <2>3, <2>5, <2>6 DEF LeftOver
<1>2. IInv /\ IInv' /\ [Next]_vars
      => [\A k \in Kids : LeftOver(k) => LeftOver(k)' /\ Published(k)']_vars
  BY <1>1
<1>3. QED
  BY <1>2, Invariant, PTL DEF Spec

\* A token signed in time is verifiable for as long as it lives: the overlap is the
\* longest a running signer may hold a retired key plus the lifetime of a token.
THEOREM KeysOutliveTokens == Spec => []KeyOutlivesToken
<1>1. ASSUME IInv
      PROVE  KeyOutlivesToken
  <2> SUFFICES ASSUME NEW x \in tokens, ~Published(x.key)
               PROVE  /\ keys[x.key].retired # Never
                      /\ ~(x.minted <= keys[x.key].retired + (Grace - AccessTTL))
    BY DEF KeyOutlivesToken
  <2>1. x \in Token /\ x.key \in Kids /\ keys[x.key] \in KeyRow /\ now \in Nat
    BY <1>1 DEF IInv, KeysTypeOK, Kids
  <2>2. keys[x.key].retired # Never
    BY <1>1, <2>1 DEF IInv, KeysTypeOK, Published
  <2>3. keys[x.key].retired + Grace < now /\ now <= x.minted + AccessTTL
    BY <1>1, <2>1 DEF IInv, Timely
  <2>4. keys[x.key].retired \in Nat /\ x.minted \in Nat
    BY <2>1, <2>2 DEF KeyRow, Token
  <2>5. QED
    BY <2>1, <2>2, <2>3, <2>4, PeriodAssumption
<1>2. QED
  BY <1>1, Invariant, PTL
=============================================================================

----------------------------- MODULE OAuthKeys -----------------------------
(***************************************************************************)
(* The signing keys of the authorization server: bootstrap at start,       *)
(* rotation, nightly housekeeping, and the signer, which reads its key     *)
(* once per start of the process.                                          *)
(*                                                                         *)
(* The statements of a rotation follow each other with nothing of the      *)
(* program in between (SQLite answers at once), but each is stored on its  *)
(* own: the process may die, or the next statement fail, after any of them.*)
(***************************************************************************)
EXTENDS Integers, Sequences, FiniteSets

CONSTANTS
  AccessTTL,  \* lifetime of an access token (ACCESS_TOKEN_TTL_SECONDS)
  Grace,      \* time from retirement to removal (REFRESH_ABSOLUTE_GRACE_MS)
  MaxAge,     \* age at which housekeeping rotates (OAUTH_KEY_MAX_AGE_DAYS)
  MaxKeys,    \* bound: keys ever inserted
  MaxTime     \* bound: last value of the clock

ASSUME PeriodAssumption ==
  /\ AccessTTL \in Nat /\ Grace \in Nat /\ MaxAge \in Nat
ASSUME KeyLimitAssumption == MaxKeys \in Nat /\ MaxTime \in Nat

VARIABLES
  now,         \* the clock
  keys,        \* oauth_signing_keys in order of creation; a key is its place here
  signer,      \* the key the running process signs with, 0 when it is down
  job,         \* how far the rotation or sweep in progress has come
  tokens       \* access tokens that have not expired

vars == <<now, keys, signer, job, tokens>>

-----------------------------------------------------------------------------
Never == -1   \* NULL in retired_at or removed_at
KeyRow == [created : Nat, retired : Nat \cup {Never}, removed : Nat \cup {Never}]
Token  == [key : Nat \ {0}, minted : Nat]

Idle == [pc |-> "idle", key |-> 0]
Job  == [pc : {"idle", "aging", "retiring"}, key : Nat]

Kids   == DOMAIN keys
Active == {k \in Kids : keys[k].retired = Never}
Published(k) == keys[k].removed = Never

\* listActiveKeys()[0]: there is one when there is an active key at all.
Newest(k) == k \in Active /\ \A j \in Active : j <= k

\* Housekeeping rotates such a key.
TooOld(k) == keys[k].created + MaxAge < now

Expired(x) == x.minted + AccessTTL <= now

\* insertKey
Insert ==
  /\ Len(keys) < MaxKeys
  /\ keys' = Append(keys, [created |-> now, retired |-> Never, removed |-> Never])

-----------------------------------------------------------------------------
(* Start and stop *)

\* ensureInitialSigningKey
Bootstrap ==
  /\ signer = 0 /\ Active = {}
  /\ Insert
  /\ UNCHANGED <<now, signer, job, tokens>>

\* Mutant of LoadSigner: active keys in no order, the first of them taken.
LoadAnyActive ==
  /\ signer = 0
  /\ signer' \in Active
  /\ UNCHANGED <<now, keys, job, tokens>>

\* createDashboardSigner: the key is read here and nowhere else.
LoadSigner ==
  /\ signer = 0
  /\ \E k \in Kids : Newest(k) /\ signer' = k
  /\ UNCHANGED <<now, keys, job, tokens>>

\* The process dies or is restarted, perhaps in the middle of a rotation.
Crash ==
  /\ signer # 0
  /\ signer' = 0 /\ job' = Idle
  /\ UNCHANGED <<now, keys, tokens>>

-----------------------------------------------------------------------------
(* Tokens *)

\* mintAccessToken: the token names the key the signer was built with.
MintAccessToken ==
  /\ signer # 0
  /\ tokens' = tokens \cup {[key |-> signer, minted |-> now]}
  /\ UNCHANGED <<now, keys, signer, job>>

\* Time passes; tokens that expire need no key any more.
Tick ==
  /\ now < MaxTime
  /\ now' = now + 1
  /\ tokens' = {x \in tokens : ~Expired(x)'}
  /\ UNCHANGED <<keys, signer, job>>

-----------------------------------------------------------------------------
(* Rotation and housekeeping *)

\* Mutant of RotateFrom: the newest key is retired before the next one is stored.
RetireFirst(k) ==
  /\ keys' = [keys EXCEPT ![k].retired = now]
  /\ job' = [pc |-> "retiring", key |-> k]

\* performKeyRotation up to its first write: the next key is stored; k, the newest of
\* the earlier ones, is to be retired.
RotateFrom(k) ==
  /\ Insert
  /\ job' = [pc |-> "retiring", key |-> k]

\* An administrator asks for a rotation, or a sweep finds the newest active key too old.
BeginRotation ==
  /\ signer # 0
  /\ \E k \in Kids : /\ Newest(k)
                     /\ job.pc = "idle" \/ (job.pc = "aging" /\ TooOld(k))
                     /\ RotateFrom(k)
  /\ UNCHANGED <<now, signer, tokens>>

Retire ==
  /\ job.pc = "retiring"
  /\ keys' = [keys EXCEPT ![job.key].retired = now]
  /\ job' = Idle
  /\ UNCHANGED <<now, signer, tokens>>

\* The statement throws: the route answers 500 or the sweep logs it.
RetireFails ==
  /\ job.pc = "retiring"
  /\ job' = Idle
  /\ UNCHANGED <<now, keys, signer, tokens>>

\* Mutant: keys are removed as soon as they are retired.
RemovableAtOnce ==
  {k \in Kids \ Active : keys[k].retired < now /\ Published(k)}

\* listRemovable(now - Grace)
Removable ==
  {k \in Kids \ Active : keys[k].retired + Grace < now /\ Published(k)}

\* Keys go in order of retirement; when a statement throws the sweep ends there, else it
\* comes to the age of the newest key.
Sweep ==
  /\ signer # 0 /\ job = Idle
  /\ \E gone \in SUBSET Removable :
       /\ \A k \in gone, j \in Removable \ gone : keys[k].retired <= keys[j].retired
       /\ keys' = [k \in Kids |-> IF k \in gone THEN [keys[k] EXCEPT !.removed = now]
                                                ELSE keys[k]]
       /\ \/ gone = Removable /\ job' = [pc |-> "aging", key |-> 0]
          \/ gone # Removable /\ job' = Idle
  /\ UNCHANGED <<now, signer, tokens>>

\* The newest key is young enough.
SweepEnds ==
  /\ job.pc = "aging" /\ \A k \in Kids : Newest(k) => ~TooOld(k)
  /\ job' = Idle
  /\ UNCHANGED <<now, keys, signer, tokens>>

-----------------------------------------------------------------------------
Init ==
  /\ now = 0 /\ keys = <<>> /\ signer = 0 /\ job = Idle
  /\ tokens = {}

Next ==
  \/ Bootstrap \/ LoadSigner \/ Crash
  \/ MintAccessToken \/ Tick
  \/ BeginRotation \/ Retire \/ RetireFails
  \/ Sweep \/ SweepEnds

Spec == Init /\ [][Next]_vars

-----------------------------------------------------------------------------
(* Properties *)

\* Type invariant; a key is removed only after it was retired.
KeysTypeOK ==
  /\ now \in Nat
  /\ keys \in Seq(KeyRow)
  /\ \A k \in Kids : keys[k].removed # Never => keys[k].retired # Never
  /\ signer \in Kids \cup {0}
  /\ job \in Job /\ job.key \in Kids \cup {0}
  /\ tokens \subseteq Token /\ \A x \in tokens : x.key \in Kids

\* Wherever a rotation is interrupted, the table keeps a key to sign with.
ActiveKeyRemains == keys # <<>> => Active # {}

\* A key that an interrupted rotation left active signs nothing once a process has
\* signed with a newer one: whatever was interrupted, each process signs with a key no
\* older than those before it.
SigningMovesOn ==
  \A x, y \in tokens : x.minted < y.minted => x.key <= y.key

\* An active key behind the newest, which no rotation in progress is about to retire.
LeftOver(k) ==
  k \in Active /\ ~Newest(k) /\ ~(job.pc = "retiring" /\ job.key = k)

\* The comment on performKeyRotation: of two active keys it retires the newest, and "a
\* subsequent rotation will pick it up", the older one. So no second rotation ends with
\* that one still active.
LeftOverIsPickedUp ==
  \A k \in Kids : LeftOver(k) => Cardinality({j \in Kids \ Active : j > k}) <= 1

\* An unexpired token can be verified if it was signed before its key was retired, or by
\* a signer that held the retired key for no longer than the overlap leaves room for.
KeyOutlivesToken ==
  \A x \in tokens :
    \/ keys[x.key].retired = Never
    \/ x.minted <= keys[x.key].retired + (Grace - AccessTTL)
    => Published(x.key)
=============================================================================

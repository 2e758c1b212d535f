---------------------------- MODULE OAuthTokens ----------------------------
(***************************************************************************)
(* The token endpoint: authorization codes, refresh chains and the         *)
(* requests that redeem and rotate them.                                   *)
(*                                                                         *)
(* One action is what the handler does between two awaits.  Verifying a    *)
(* secret, asking the MCP rule and signing a token are real waits, so two  *)
(* requests with the same code or the same refresh token do overlap.       *)
(***************************************************************************)
EXTENDS Integers, Sequences, FiniteSets

CONSTANTS
  Clients,      \* registered OAuth clients
  Users,        \* users who consent
  Codes,        \* authorization codes
  Slots,        \* slots for requests to the endpoint
  CodeTTL,      \* lifetime of a code (60 s)
  ChainTTL,     \* lifetime of a refresh chain (REFRESH_ABSOLUTE_TTL_MS)
  MaxRequests,  \* bound: requests begun in a behaviour
  MaxTime       \* bound: last value of the clock

ASSUME LifetimeAssumption == CodeTTL \in Nat /\ ChainTTL \in Nat
ASSUME CodeAssumption == 0 \notin Codes
ASSUME LimitAssumption == MaxRequests \in Nat /\ MaxTime \in Nat

VARIABLES
  now,      \* the clock
  code,     \* oauth_authorization_codes
  rows,     \* every refresh token ever stored, in order; a token is its place here
  status,   \* whether its row is live, rotated or gone from oauth_refresh_tokens
  revoked,  \* clients with revoked_at set
  served,   \* users the MCP rule would serve now
  request,  \* the requests in progress
  held,     \* tokens an answer has brought to a client
  ended,    \* chains ended by reuse detection (history)
  begun     \* requests begun so far

vars == <<now, code, rows, status, revoked, served, request, held, ended, begun>>

-----------------------------------------------------------------------------
(* Rows *)

CodeRow == [status : {"issued", "gone"}, client : Clients, user : Users, expires : Nat]
NoCode  == [status |-> "absent"]

\* chain and parent are tokens; a root has parent 0 and is its own chain.
TokenRow == [chain : Nat \ {0}, parent : Nat, client : Clients, user : Users,
             code : Codes, expires : Nat]

Tokens == DOMAIN rows

ChainOf(t) == {u \in Tokens : rows[u].chain = rows[t].chain}

Expired(t) == rows[t].expires < now

\* A statement on a set of stored rows; rows that are gone stay gone.
Remove(ts) == status' = [t \in Tokens |-> IF t \in ts THEN "gone" ELSE status[t]]

-----------------------------------------------------------------------------
(* Requests *)

Pcs     == {"verifying", "asking", "minting", "rotating", "answering"}
Request == [client : Clients, pc : Pcs, code : Codes \cup {0}, token : Nat,
            passed : BOOLEAN]
NoRequest == [pc |-> "idle"]

At(r, pc) == request[r].pc = pc
Goto(r, pc) == request' = [request EXCEPT ![r].pc = pc]
Close(r) == request' = [request EXCEPT ![r] = NoRequest]

ByCode(r) == request[r].code \in Codes

\* A client the endpoint knows and has not revoked presents a code or a refresh
\* token; its secret is verified next.  Any client may present any of them.
Present(r, c, k, t) ==
  /\ request[r] = NoRequest
  /\ c \notin revoked
  /\ begun < MaxRequests
  /\ begun' = begun + 1
  /\ request' = [request EXCEPT ![r] =
       [client |-> c, pc |-> "verifying", code |-> k, token |-> t, passed |-> FALSE]]
  /\ UNCHANGED <<now, code, rows, status, revoked, served, held, ended>>

PresentCode(r, c, k)  == code[k] # NoCode /\ Present(r, c, k, 0)
PresentToken(r, c, t) == t \in held /\ Present(r, c, 0, t)

-----------------------------------------------------------------------------
(* The authorization-code grant *)

\* The user consents (or had consented) and the browser is redirected with a code.
Consent(c, u, k) ==
  /\ c \notin revoked
  /\ code[k] = NoCode
  /\ code' = [code EXCEPT ![k] = [status |-> "issued", client |-> c, user |-> u,
                                  expires |-> now + CodeTTL]]
  /\ UNCHANGED <<now, rows, status, revoked, served, request, held, ended, begun>>

\* Mutant of Redeem: the code is looked up and checked but not consumed here.
RedeemWithoutConsume(r) ==
  /\ At(r, "verifying") /\ ByCode(r)
  /\ LET k == request[r].code
         usable == /\ code[k].status = "issued" /\ ~(code[k].expires < now)
                   /\ code[k].client = request[r].client
     IN  \/ usable /\ Goto(r, "asking")
         \/ Close(r)
  /\ UNCHANGED <<now, code, rows, status, revoked, served, held, ended, begun>>

\* findAndConsume: the code is deleted whatever follows; the request goes on with a
\* code that was stored, is not expired, was issued to this client, and comes with
\* the redirect URI and the verifier it was asked for with (or it does not, and the
\* request is refused).
Redeem(r) ==
  /\ At(r, "verifying") /\ ByCode(r)
  /\ LET k == request[r].code
         usable == /\ code[k].status = "issued" /\ ~(code[k].expires < now)
                   /\ code[k].client = request[r].client
     IN  /\ code' = [code EXCEPT ![k].status = "gone"]
         /\ \/ usable /\ Goto(r, "asking")
            \/ Close(r)
  /\ UNCHANGED <<now, rows, status, revoked, served, held, ended, begun>>

\* Mutant of Mint: the answer does not carry the token that was stored.
MintUnnamed(r) ==
  /\ At(r, "minting")
  /\ LET t == Len(rows) + 1
         k == request[r].code
     IN  /\ rows' = Append(rows, [chain |-> t, parent |-> 0, client |-> request[r].client,
                                  user |-> code[k].user, code |-> k,
                                  expires |-> now + ChainTTL])
         /\ status' = Append(status, "live")
         /\ Goto(r, "answering")
  /\ UNCHANGED <<now, code, revoked, served, held, ended, begun>>

\* The access token is signed, then the root of a new chain is stored.
Mint(r) ==
  /\ At(r, "minting")
  /\ LET t == Len(rows) + 1
         k == request[r].code
     IN  /\ rows' = Append(rows, [chain |-> t, parent |-> 0, client |-> request[r].client,
                                  user |-> code[k].user, code |-> k,
                                  expires |-> now + ChainTTL])
         /\ status' = Append(status, "live")
         /\ request' = [request EXCEPT ![r].pc = "answering", ![r].token = t]
  /\ UNCHANGED <<now, code, revoked, served, held, ended, begun>>

-----------------------------------------------------------------------------
(* The refresh grant *)

\* Mutant of Lookup: a token of another client is not told apart.
LookupAnyClient(r) ==
  /\ At(r, "verifying") /\ ~ByCode(r)
  /\ LET t == request[r].token
     IN  Goto(r, IF status[t] = "live" /\ ~Expired(t) THEN "asking" ELSE "rotating")
  /\ UNCHANGED <<now, code, rows, status, revoked, served, held, ended, begun>>

\* findByTokenHash: a token of another client is refused before anything is
\* written; a live one goes to the MCP rule first; all others go to rotate.
Lookup(r) ==
  /\ At(r, "verifying") /\ ~ByCode(r)
  /\ LET t == request[r].token
         foreign == status[t] # "gone" /\ rows[t].client # request[r].client
     IN  \/ foreign /\ Close(r)
         \/ ~foreign /\ Goto(r, IF status[t] = "live" /\ ~Expired(t)
                                THEN "asking" ELSE "rotating")
  /\ UNCHANGED <<now, code, rows, status, revoked, served, held, ended, begun>>

\* resolveMcpCaller, for either grant: a user the rule refuses gets nothing.
Ask(r) ==
  /\ At(r, "asking")
  /\ LET user == IF ByCode(r) THEN code[request[r].code].user ELSE rows[request[r].token].user
     IN  IF user \in served
         THEN request' = [request EXCEPT ![r].pc = IF ByCode(r) THEN "minting" ELSE "rotating",
                                         ![r].passed = TRUE]
         ELSE Close(r)
  /\ UNCHANGED <<now, code, rows, status, revoked, served, held, ended, begun>>

\* The child inherits chain, owner and expiry of the token it replaces.
Child(t, expires) == [rows[t] EXCEPT !.parent = t, !.expires = expires]

\* Mutant of Replace: the parent is not marked.
ReplaceKeepsParent(r, t, expires) ==
  /\ rows' = Append(rows, Child(t, expires))
  /\ status' = Append(status, "live")
  /\ request' = [request EXCEPT ![r].pc = "answering", ![r].token = Len(rows) + 1]

\* The child of t is stored, t is marked rotated, and the answer will carry the child.
Replace(r, t, expires) ==
  /\ rows' = Append(rows, Child(t, expires))
  /\ status' = Append([status EXCEPT ![t] = "rotated"], "live")
  /\ request' = [request EXCEPT ![r].pc = "answering", ![r].token = Len(rows) + 1]

\* rotate, one transaction: an expired token ends its chain; a rotated one is a reuse,
\* which removes reused; a live one is replaced by a child that expires at expires.
RotateWith(r, reused, expires) ==
  LET t == request[r].token
  IN  \/ /\ status[t] = "gone"
         /\ Close(r)
         /\ UNCHANGED <<rows, status, ended>>
      \/ /\ status[t] # "gone" /\ Expired(t)
         /\ Remove(ChainOf(t)) /\ Close(r)
         /\ UNCHANGED <<rows, ended>>
      \/ /\ status[t] = "rotated" /\ ~Expired(t)
         /\ Remove(reused) /\ Close(r)
         /\ ended' = ended \cup {rows[t].chain}
         /\ UNCHANGED rows
      \/ /\ status[t] = "live" /\ ~Expired(t)
         /\ Replace(r, t, expires)
         /\ UNCHANGED ended

\* Mutants of Rotate: the child lives as long as a new chain; reuse removes the
\* presented token alone.
RotateSliding(r) ==
  /\ At(r, "rotating")
  /\ RotateWith(r, ChainOf(request[r].token), now + ChainTTL)
  /\ UNCHANGED <<now, code, revoked, served, held, begun>>

RotateRemovesOne(r) ==
  /\ At(r, "rotating")
  /\ RotateWith(r, {request[r].token}, rows[request[r].token].expires)
  /\ UNCHANGED <<now, code, revoked, served, held, begun>>

\* Reuse removes the whole chain, and a child expires when its parent does.
Rotate(r) ==
  /\ At(r, "rotating")
  /\ RotateWith(r, ChainOf(request[r].token), rows[request[r].token].expires)
  /\ UNCHANGED <<now, code, revoked, served, held, begun>>

-----------------------------------------------------------------------------
\* The answer reaches the client, or is lost on the way.
Answer(r) ==
  /\ At(r, "answering")
  /\ held' \in {held, held \cup {request[r].token}}
  /\ Close(r)
  /\ UNCHANGED <<now, code, rows, status, revoked, served, ended, begun>>

-----------------------------------------------------------------------------
(* What happens beside the requests *)

Tick ==
  /\ now < MaxTime
  /\ now' = now + 1
  /\ UNCHANGED <<code, rows, status, revoked, served, request, held, ended, begun>>

\* cleanupExpired, from the nightly housekeeping.
CleanupExpired ==
  /\ Remove({t \in Tokens : Expired(t)})
  /\ UNCHANGED <<now, code, rows, revoked, served, request, held, ended, begun>>

\* Mutant of Revoke: the refresh tokens of the client are left alone.
RevokeClientOnly(c) ==
  /\ revoked' = revoked \cup {c}
  /\ UNCHANGED <<now, code, rows, status, served, request, held, ended, begun>>

\* An administrator revokes a client: its live tokens are marked rotated with it.
Revoke(c) ==
  /\ revoked' = revoked \cup {c}
  /\ status' = [t \in Tokens |->
       IF rows[t].client = c /\ status[t] = "live" THEN "rotated" ELSE status[t]]
  /\ UNCHANGED <<now, code, rows, served, request, held, ended, begun>>

\* A user loses or regains what the MCP rule asks for.
ChangeAccess(u) ==
  /\ served' = IF u \in served THEN served \ {u} ELSE served \cup {u}
  /\ UNCHANGED <<now, code, rows, status, revoked, request, held, ended, begun>>

\* The process dies with the requests in progress; the tables stay.
Crash ==
  /\ \E r \in Slots : request[r] # NoRequest
  /\ request' = [r \in Slots |-> NoRequest]
  /\ UNCHANGED <<now, code, rows, status, revoked, served, held, ended, begun>>

-----------------------------------------------------------------------------
Init ==
  /\ now = 0
  /\ code = [k \in Codes |-> NoCode]
  /\ rows = <<>> /\ status = <<>>
  /\ revoked = {} /\ served = Users
  /\ request = [r \in Slots |-> NoRequest]
  /\ held = {} /\ ended = {}
  /\ begun = 0

Handle(r) == Redeem(r) \/ Ask(r) \/ Mint(r) \/ Lookup(r) \/ Rotate(r) \/ Answer(r)

Next ==
  \/ \E r \in Slots, c \in Clients :
       \/ \E k \in Codes : PresentCode(r, c, k)
       \/ \E t \in Tokens : PresentToken(r, c, t)
  \/ \E r \in Slots : Handle(r)
  \/ \E c \in Clients, u \in Users, k \in Codes : Consent(c, u, k)
  \/ \E c \in Clients : Revoke(c)
  \/ \E u \in Users : ChangeAccess(u)
  \/ Tick \/ CleanupExpired \/ Crash

Spec == Init /\ [][Next]_vars

-----------------------------------------------------------------------------
(* Properties *)

\* Type invariant.
TokensTypeOK ==
  /\ now \in Nat
  /\ code \in [Codes -> CodeRow \cup {NoCode}]
  /\ rows \in Seq(TokenRow)
  /\ status \in Seq({"live", "rotated", "gone"}) /\ Len(status) = Len(rows)
  /\ revoked \subseteq Clients /\ served \subseteq Users
  /\ request \in [Slots -> Request \cup {NoRequest}]
  /\ held \subseteq Tokens /\ ended \subseteq Tokens
  /\ begun \in Nat

\* However many requests present the tokens of a chain at once, at most its newest
\* token can still be exchanged.
OneUsablePerChain ==
  \A t, u \in Tokens :
    t < u /\ rows[t].chain = rows[u].chain => status[t] # "live"

\* While a chain has a usable token, every token it replaced is still stored, marked
\* rotated: presenting any of them is noticed, however long ago it was replaced and
\* whatever the nightly clean-up has removed.
ReplayIsNoticed ==
  \A t, u \in Tokens :
    t < u /\ rows[t].chain = rows[u].chain /\ status[u] = "live" => status[t] = "rotated"

\* A chain that reuse detection has ended has no stored token again, not even the one
\* a request that was under way when it ended is about to answer with.
EndedChainStaysEnded ==
  \A t \in Tokens : rows[t].chain \in ended => status[t] = "gone"

\* A code becomes at most one chain, however many requests redeem it at once and
\* wherever one of them fails.
CodeYieldsOneChain ==
  \A t, u \in Tokens :
    rows[t].parent = 0 /\ rows[u].parent = 0 /\ rows[t].code = rows[u].code => t = u

\* A usable token stops being usable only when it expires, when its client is revoked,
\* or by a request of its own client that presents it after the user has passed the
\* MCP rule or presents another token of its chain: no request of another client and
\* no refused refresh costs an owner the chain.
OnlyOwnerMovesChain ==
  [][\A t \in Tokens :
       status[t] = "live" /\ status'[t] # "live" =>
         \/ Expired(t)
         \/ rows[t].client \in revoked'
         \/ \E r \in Slots :
              /\ At(r, "rotating") /\ request[r].client = rows[t].client
              /\ request[r].token \in ChainOf(t)
              /\ request[r].token = t => request[r].passed]_vars

\* No token of a revoked client is exchanged for another, not even by a request that
\* was past the client check when the client was revoked.
RevokedChainsDoNotGrow ==
  [][\A t \in DOMAIN rows' \ DOMAIN rows :
       rows'[t].parent # 0 => rows'[t].client \notin revoked]_vars
=============================================================================

------------------------ MODULE OAuthTokens_proofs ------------------------
(***************************************************************************)
(* Theorems about OAuthTokens for all clients, users, codes and slots, all *)
(* lifetimes, and any number of requests.                                  *)
(***************************************************************************)
EXTENDS OAuthTokens, TLAPS

(***************************************************************************)
(* The inductive invariant.                                                *)
(*                                                                         *)
(* Kin is what makes a chain one thing: its tokens agree on owner and      *)
(* expiry, so that the statements that remove rows, by chain or by expiry, *)
(* remove all of a chain or nothing of it.                                 *)
(***************************************************************************)

\* A chain is named after its root, which came first.
Rooted == \A t \in Tokens : rows[t].chain <= t

Kin ==
  \A t, u \in Tokens :
    rows[t].chain = rows[u].chain =>
      /\ rows[t].client = rows[u].client
      /\ rows[t].expires = rows[u].expires
      /\ status[t] = "gone" <=> status[u] = "gone"

\* What a request presents exists, and only a grant's own steps are taken for it.
Presenting(r) ==
  /\ request[r].pc # "idle" /\ ByCode(r) => code[request[r].code] # NoCode
  /\ request[r].pc # "idle" /\ ~ByCode(r) => request[r].token \in Tokens
  /\ At(r, "answering") => request[r].token \in Tokens
  /\ At(r, "minting") => ByCode(r)
  /\ At(r, "rotating") => ~ByCode(r)

Presents == \A r \in Slots : Presenting(r)

\* A code in use by a redemption is consumed, has one redemption, and no chain yet.
Redeeming(r) == request[r].pc \in {"asking", "minting"} /\ ByCode(r)

CodesSpent ==
  /\ \A r \in Slots : Redeeming(r) => code[request[r].code].status = "gone"
  /\ \A t \in Tokens : code[rows[t].code].status = "gone"
  /\ \A r, q \in Slots :
       Redeeming(r) /\ Redeeming(q) /\ request[r].code = request[q].code => r = q
  /\ \A r \in Slots, t \in Tokens :
       Redeeming(r) /\ rows[t].parent = 0 => rows[t].code # request[r].code

Spent == CodesSpent /\ CodeYieldsOneChain

\* A refresh request past the look-up has a token of its own client, or one that is
\* gone; it is at rotate unasked only with a token that cannot be exchanged; and
\* nothing it could exchange is left once its client is revoked.
Refreshing(r) == request[r].pc \in {"verifying", "asking", "rotating"} /\ ~ByCode(r)

Owning(r) ==
  LET t == request[r].token
  IN  /\ Refreshing(r) /\ request[r].pc # "verifying" =>
           status[t] = "gone" \/ rows[t].client = request[r].client
      /\ At(r, "rotating") => request[r].passed \/ status[t] # "live" \/ Expired(t)
      /\ /\ Refreshing(r) /\ request[r].client \in revoked
         /\ rows[t].client = request[r].client
         => status[t] # "live"

Owned == \A r \in Slots : Owning(r)

Chains == /\ Rooted /\ Kin
          /\ OneUsablePerChain /\ ReplayIsNoticed /\ EndedChainStaysEnded

IInv == /\ TokensTypeOK /\ Presents
        /\ Chains
        /\ Spent
        /\ Owned

-----------------------------------------------------------------------------
(* Typing *)

Tables == [Slots -> Request \cup {NoRequest}]

\* A slot whose pc is not idle holds a request.
LEMMA BusyIsRequest ==
  ASSUME NEW r \in Slots, request \in Tables, request[r].pc # "idle"
  PROVE  /\ request[r] \in Request
         /\ request[r].pc \in Pcs
         /\ request[r].client \in Clients
         /\ request[r].code \in Codes \cup {0}
         /\ request[r].token \in Nat
  BY DEF Tables, NoRequest, Request

\* Going to another step, or writing the whole slot, touches that slot alone.
LEMMA GotoTyped ==
  ASSUME NEW r \in Slots, NEW pc \in Pcs,
         request \in Tables, request[r].pc # "idle", Goto(r, pc)
  PROVE  /\ request' \in Tables
         /\ request'[r] = [request[r] EXCEPT !.pc = pc]
         /\ \A q \in Slots \ {r} : request'[q] = request[q]
<1>1. request[r] \in Request
  BY BusyIsRequest
<1>2. [request[r] EXCEPT !.pc = pc] \in Request
  BY <1>1 DEF Request
<1>3. QED
  BY <1>2 DEF Goto, Tables

LEMMA CloseTyped ==
  ASSUME NEW r \in Slots, request \in Tables, Close(r)
  PROVE  /\ request' \in Tables
         /\ request'[r].pc = "idle"
         /\ \A q \in Slots \ {r} : request'[q] = request[q]
  BY DEF Close, Tables, NoRequest

LEMMA WriteTyped ==
  ASSUME NEW r \in Slots, NEW x \in Request,
         request \in Tables, request' = [request EXCEPT ![r] = x]
  PROVE  /\ request' \in Tables
         /\ request'[r] = x
         /\ \A q \in Slots \ {r} : request'[q] = request[q]
  BY DEF Tables

\* What a statement on stored rows, and storing one row more, leave behind.
Statuses == {"live", "rotated", "gone"}

LEMMA RemoveTyped ==
  ASSUME NEW ts, rows \in Seq(TokenRow), status \in Seq(Statuses),
         Len(status) = Len(rows), Remove(ts)
  PROVE  /\ status' \in Seq(Statuses) /\ Len(status') = Len(rows)
         /\ \A t \in Tokens : status'[t] = IF t \in ts THEN "gone" ELSE status[t]
<1>1. Tokens = 1..Len(rows) /\ Len(rows) \in Nat
  BY DEF Tokens
<1>2. status' \in [1..Len(rows) -> Statuses]
  BY <1>1 DEF Remove, Statuses
<1>3. QED
  BY <1>1, <1>2 DEF Remove

LEMMA AppendTyped ==
  ASSUME NEW S, NEW s \in Seq(S), NEW x \in S
  PROVE  /\ Append(s, x) \in Seq(S)
         /\ Len(Append(s, x)) = Len(s) + 1
         /\ Append(s, x)[Len(s) + 1] = x
         /\ \A t \in 1..Len(s) : Append(s, x)[t] = s[t]
  OBVIOUS

LEMMA ChildTyped ==
  ASSUME NEW t \in Tokens, NEW expires \in Nat, rows \in Seq(TokenRow)
  PROVE  /\ Child(t, expires) \in TokenRow
         /\ Child(t, expires).parent = t
         /\ Child(t, expires).expires = expires
         /\ Child(t, expires).chain = rows[t].chain
         /\ Child(t, expires).client = rows[t].client
         /\ Child(t, expires).code = rows[t].code
<1>1. rows[t] \in TokenRow /\ t \in Nat
  BY DEF Tokens
<1>2. QED
  BY <1>1 DEF Child, TokenRow

\* Codes do not become absent and rows are not taken away, so what a request presents
\* goes on existing.
Kept ==
  /\ Tokens \subseteq Tokens'
  /\ \A k \in Codes : code[k] # NoCode => code'[k] # NoCode

LEMMA StillPresenting ==
  ASSUME NEW r \in Slots, Presenting(r), Kept, request'[r] = request[r]
  PROVE  Presenting(r)'
  BY DEF Presenting, Kept, ByCode, At

\* A request that closes presents nothing.
LEMMA IdlePresenting ==
  ASSUME NEW r \in Slots, request'[r].pc = "idle"
  PROVE  Presenting(r)'
  BY DEF Presenting, At

\* It is enough to look at the request that takes the step.
LEMMA OnePresenting ==
  ASSUME NEW r \in Slots, Presents, Kept, Presenting(r)',
         \A q \in Slots \ {r} : request'[q] = request[q]
  PROVE  Presents'
  BY StillPresenting DEF Presents

LEMMA TypingInit == Init => TokensTypeOK /\ Presents
<1> SUFFICES ASSUME Init PROVE TokensTypeOK /\ Presents
  OBVIOUS
<1>1. TokensTypeOK
  BY DEF Init, TokensTypeOK, Tokens
<1>2. Presents
  BY DEF Init, Presents, Presenting, At, NoRequest
<1>3. QED
  BY <1>1, <1>2

LEMMA PresentTyped ==
  ASSUME TokensTypeOK, Presents,
         NEW r \in Slots, NEW c \in Clients, NEW k \in Codes \cup {0}, NEW t \in Nat,
         k \in Codes => code[k] # NoCode, k \notin Codes => t \in Tokens,
         Present(r, c, k, t)
  PROVE  TokensTypeOK' /\ Presents'
<1> DEFINE x == [client |-> c, pc |-> "verifying", code |-> k, token |-> t,
                 passed |-> FALSE]
<1>1. x \in Request
  BY DEF Request, Pcs
<1>2. /\ request' \in Tables
      /\ request'[r] = x
      /\ \A q \in Slots \ {r} : request'[q] = request[q]
  BY <1>1, WriteTyped DEF Present, TokensTypeOK, Tables
<1>3. TokensTypeOK'
  BY <1>2 DEF TokensTypeOK, Tables, Tokens, Present
<1>4. Kept
  BY DEF Kept, Present, Tokens
<1>5. Presenting(r)'
  BY <1>2 DEF Presenting, ByCode, At, Present, Tokens
<1>6. QED
  BY <1>2, <1>3, <1>4, <1>5, OnePresenting

LEMMA RedeemTyped ==
  ASSUME TokensTypeOK, Presents, NEW r \in Slots, Redeem(r)
  PROVE  TokensTypeOK' /\ Presents'
<1> DEFINE k == request[r].code
<1>1. request \in Tables /\ request[r].pc = "verifying" /\ k \in Codes
  BY DEF Redeem, TokensTypeOK, Tables, At, ByCode
<1>2. code[k] \in CodeRow
  BY <1>1 DEF Presents, Presenting, TokensTypeOK, ByCode
<1>3. code' \in [Codes -> CodeRow \cup {NoCode}] /\ Kept
  <2>1. code' = [code EXCEPT ![k] = [code[k] EXCEPT !.status = "gone"]]
    BY DEF Redeem
  <2>2. [code[k] EXCEPT !.status = "gone"] \in CodeRow
    BY <1>2 DEF CodeRow
  <2>3. CodeRow \cap {NoCode} = {}
    BY DEF CodeRow, NoCode
  <2>4. code' \in [Codes -> CodeRow \cup {NoCode}]
    BY <2>1, <2>2 DEF TokensTypeOK
  <2>5. \A h \in Codes : code[h] # NoCode => code'[h] # NoCode
    BY <2>1, <2>2, <2>3 DEF TokensTypeOK
  <2>6. QED
    BY <2>4, <2>5 DEF Kept, Redeem, Tokens
<1>4. CASE Goto(r, "asking")
  <2>1. /\ request' \in Tables /\ request'[r] = [request[r] EXCEPT !.pc = "asking"]
        /\ \A q \in Slots \ {r} : request'[q] = request[q]
    BY <1>1, <1>4, GotoTyped DEF Pcs
  <2>2. request[r] \in Request
    BY <1>1, BusyIsRequest
  <2>3. Presenting(r)'
    BY <1>1, <1>2, <1>3, <2>1, <2>2 DEF Presenting, Presents, ByCode, At, Kept, Request
  <2>4. TokensTypeOK'
    BY <1>3, <2>1 DEF Redeem, TokensTypeOK, Tokens, Tables
  <2>5. QED
    BY <1>3, <2>1, <2>3, <2>4, OnePresenting
<1>5. CASE Close(r)
  <2>1. /\ request' \in Tables /\ request'[r].pc = "idle"
        /\ \A q \in Slots \ {r} : request'[q] = request[q]
    BY <1>1, <1>5, CloseTyped
  <2>2. Presenting(r)'
    BY <2>1, IdlePresenting
  <2>3. TokensTypeOK'
    BY <1>3, <2>1 DEF Redeem, TokensTypeOK, Tokens, Tables
  <2>4. QED
    BY <1>3, <2>1, <2>2, <2>3, OnePresenting
<1>6. QED
  BY <1>4, <1>5 DEF Redeem

\* The row Mint stores.
Root(r) ==
  [chain |-> Len(rows) + 1, parent |-> 0, client |-> request[r].client,
   user |-> code[request[r].code].user, code |-> request[r].code,
   expires |-> now + ChainTTL]

LEMMA RootTyped ==
  ASSUME TokensTypeOK, Presents, NEW r \in Slots, At(r, "minting")
  PROVE  Root(r) \in TokenRow /\ request[r] \in Request /\ request[r].code \in Codes
<1>1. request[r] \in Request
  BY BusyIsRequest DEF TokensTypeOK, Tables, At
<1>2. request[r].code \in Codes /\ code[request[r].code] \in CodeRow
  BY DEF Presents, Presenting, TokensTypeOK, ByCode, At
<1>3. QED
  BY <1>1, <1>2, LifetimeAssumption DEF Root, TokenRow, CodeRow, Request, TokensTypeOK

LEMMA AnsweringTyped ==
  ASSUME NEW x \in Request, NEW t \in Nat
  PROVE  /\ [x EXCEPT !.pc = "answering", !.token = t] \in Request
         /\ [x EXCEPT !.pc = "answering", !.token = t].pc = "answering"
         /\ [x EXCEPT !.pc = "answering", !.token = t].token = t
         /\ [x EXCEPT !.pc = "answering", !.token = t].code = x.code
         /\ [x EXCEPT !.pc = "answering", !.token = t].client = x.client
  BY DEF Request, Pcs

LEMMA MintTyped ==
  ASSUME TokensTypeOK, Presents, NEW r \in Slots, Mint(r)
  PROVE  TokensTypeOK' /\ Presents'
<1> DEFINE t == Len(rows) + 1
           x == [request[r] EXCEPT !.pc = "answering", !.token = t]
<1>1. At(r, "minting") /\ rows' = Append(rows, Root(r)) /\ status' = Append(status, "live")
  BY DEF Mint, Root
<1>2. Root(r) \in TokenRow /\ request[r] \in Request /\ request[r].code \in Codes
  BY <1>1, RootTyped
<1>3. rows' \in Seq(TokenRow) /\ Len(rows') = Len(rows) + 1
      /\ status' \in Seq(Statuses) /\ Len(status') = Len(rows')
      /\ Tokens = 1..Len(rows) /\ Tokens' = 1..Len(rows')
  BY <1>1, <1>2 DEF TokensTypeOK, Statuses, Tokens
<1>4. x \in Request /\ x.pc = "answering" /\ x.token = t
  <2>1. t \in Nat
    BY DEF TokensTypeOK
  <2>2. QED
    BY <1>2, <2>1, AnsweringTyped
<1>5. /\ request' \in Tables /\ request'[r] = x
      /\ \A q \in Slots \ {r} : request'[q] = request[q]
  BY <1>4, WriteTyped DEF Mint, TokensTypeOK, Tables
<1>6. Kept
  BY <1>3 DEF Kept, Mint, TokensTypeOK
<1>7. t \in Tokens'
  BY <1>3
<1>8. Presenting(r)'
  <2>1. x.code = request[r].code
    BY <1>2 DEF Request
  <2>2. code'[x.code] # NoCode
    BY <1>1, <1>2, <1>6, <2>1 DEF Kept, Presents, Presenting, ByCode, At
  <2>3. QED
    BY <1>4, <1>5, <1>7, <2>2, Zenon DEF Presenting, ByCode, At
<1>9. TokensTypeOK'
  BY <1>3, <1>5 DEF Mint, TokensTypeOK, Tables, Statuses
<1>10. QED
  BY <1>5, <1>6, <1>8, <1>9, OnePresenting

LEMMA LookupTyped ==
  ASSUME TokensTypeOK, Presents, NEW r \in Slots, Lookup(r)
  PROVE  TokensTypeOK' /\ Presents'
<1>1. /\ request \in Tables /\ request[r].pc = "verifying" /\ ~ByCode(r)
      /\ request[r] \in Request /\ request[r].token \in Tokens
  BY BusyIsRequest DEF Lookup, TokensTypeOK, Tables, At, Presents, Presenting
<1>2. Kept /\ Tokens' = Tokens
  BY DEF Kept, Lookup, Tokens
<1>3. /\ request' \in Tables /\ Presenting(r)'
      /\ \A q \in Slots \ {r} : request'[q] = request[q]
  <2>1. CASE Close(r)
    BY <1>1, <2>1, CloseTyped, IdlePresenting
  <2>2. CASE \E pc \in {"asking", "rotating"} : Goto(r, pc)
    <3>1. PICK pc \in {"asking", "rotating"} : Goto(r, pc)
      BY <2>2
    <3>2. /\ request' \in Tables /\ request'[r] = [request[r] EXCEPT !.pc = pc]
          /\ \A q \in Slots \ {r} : request'[q] = request[q]
      BY <1>1, <3>1, GotoTyped DEF Pcs
    <3>3. Presenting(r)'
      BY <1>1, <1>2, <3>2 DEF Presenting, ByCode, At, Request
    <3>4. QED
      BY <3>2, <3>3
  <2>3. QED
    BY <2>1, <2>2 DEF Lookup
<1>4. TokensTypeOK'
  BY <1>3 DEF Lookup, TokensTypeOK, Tables, Tokens
<1>5. QED
  BY <1>2, <1>3, <1>4, OnePresenting

LEMMA AskTyped ==
  ASSUME TokensTypeOK, Presents, NEW r \in Slots, Ask(r)
  PROVE  TokensTypeOK' /\ Presents'
<1>1. /\ request \in Tables /\ request[r].pc = "asking" /\ request[r] \in Request
      /\ Presenting(r)
  BY BusyIsRequest DEF Ask, TokensTypeOK, Tables, At, Presents
<1>2. Kept /\ Tokens' = Tokens /\ code' = code
  BY DEF Kept, Ask, Tokens
<1>3. /\ request' \in Tables /\ Presenting(r)'
      /\ \A q \in Slots \ {r} : request'[q] = request[q]
  <2>1. CASE Close(r)
    BY <1>1, <2>1, CloseTyped, IdlePresenting
  <2>2. CASE ~Close(r)
    <3> DEFINE x == [request[r] EXCEPT !.pc = IF ByCode(r) THEN "minting" ELSE "rotating",
                                       !.passed = TRUE]
    <3>1. x \in Request
      BY <1>1 DEF Request, Pcs
    <3>2. request' = [request EXCEPT ![r] = x]
      BY <2>2 DEF Ask
    <3>3. /\ request' \in Tables /\ request'[r] = x
          /\ \A q \in Slots \ {r} : request'[q] = request[q]
      BY <1>1, <3>1, <3>2, WriteTyped
    <3>4. Presenting(r)'
      BY <1>1, <1>2, <3>3 DEF Presenting, ByCode, At, Request
    <3>5. QED
      BY <3>3, <3>4
  <2>3. QED
    BY <2>1, <2>2
<1>4. TokensTypeOK'
  BY <1>3 DEF Ask, TokensTypeOK, Tables, Tokens
<1>5. QED
  BY <1>2, <1>3, <1>4, OnePresenting

\* What a request at rotate presents, as the lemmas below use it.
LEMMA AtRotate ==
  ASSUME TokensTypeOK, Presents, NEW r \in Slots, At(r, "rotating")
  PROVE  /\ request[r] \in Request /\ ~ByCode(r)
         /\ request[r].token \in Tokens /\ rows[request[r].token] \in TokenRow
         /\ status[request[r].token] \in Statuses
<1>1. request[r] \in Request /\ ~ByCode(r) /\ request[r].token \in Tokens
  BY BusyIsRequest DEF TokensTypeOK, Tables, At, Presents, Presenting
<1>2. QED
  BY <1>1 DEF TokensTypeOK, Tokens, Statuses

\* rotate either removes the chain of what it was given, or puts a child after it.
LEMMA RotateCases ==
  ASSUME NEW r \in Slots, Rotate(r), NEW t, t = request[r].token
  PROVE  \/ UNCHANGED <<rows, status, ended>> /\ Close(r)
         \/ /\ UNCHANGED <<rows, ended>> /\ Close(r)
            /\ Remove(ChainOf(t)) /\ Expired(t)
         \/ /\ UNCHANGED rows /\ Close(r)
            /\ Remove(ChainOf(t)) /\ status[t] = "rotated"
            /\ ended' = ended \cup {rows[t].chain}
         \/ /\ Replace(r, t, rows[t].expires) /\ UNCHANGED ended
            /\ status[t] = "live" /\ ~Expired(t)
  BY Zenon DEF Rotate, RotateWith

\* The three variables a replacement writes.
LEMMA ReplaceTyped ==
  ASSUME TokensTypeOK, Presents, NEW r \in Slots, At(r, "rotating"),
         NEW t \in Tokens, request[r].token = t, Replace(r, t, rows[t].expires)
  PROVE  /\ rows' \in Seq(TokenRow) /\ status' \in Seq(Statuses)
         /\ Len(rows') = Len(rows) + 1 /\ Len(status') = Len(rows')
         /\ rows'[Len(rows) + 1] = Child(t, rows[t].expires)
         /\ status'[Len(rows) + 1] = "live"
         /\ \A u \in Tokens : /\ rows'[u] = rows[u]
                              /\ status'[u] = IF u = t THEN "rotated" ELSE status[u]
         /\ request' \in Tables
         /\ request'[r].pc = "answering" /\ request'[r].token = Len(rows) + 1
         /\ ~ByCode(r)'
         /\ \A q \in Slots \ {r} : request'[q] = request[q]
<1>1. Tokens = 1..Len(rows) /\ Len(rows) \in Nat /\ rows \in Seq(TokenRow)
  BY DEF TokensTypeOK, Tokens
<1>2. rows[t].expires \in Nat
  <2>1. rows[t] \in TokenRow
    BY <1>1
  <2>2. QED
    BY <2>1 DEF TokenRow
<1>3. Child(t, rows[t].expires) \in TokenRow
  BY <1>1, <1>2, ChildTyped
<1>4. [status EXCEPT ![t] = "rotated"] \in Seq(Statuses)
      /\ Len([status EXCEPT ![t] = "rotated"]) = Len(rows)
      /\ \A u \in Tokens :
           [status EXCEPT ![t] = "rotated"][u] = IF u = t THEN "rotated" ELSE status[u]
  <2>1. status \in Seq(Statuses) /\ Len(status) = Len(rows) /\ "rotated" \in Statuses
    BY DEF TokensTypeOK, Statuses
  <2>2. t \in 1..Len(status)
    BY <1>1, <2>1
  <2>3. QED
    BY <1>1, <2>1, <2>2
<1>5. "live" \in Statuses
  BY DEF Statuses
<1> DEFINE marked == [status EXCEPT ![t] = "rotated"]
<1>6. /\ status' \in Seq(Statuses) /\ Len(status') = Len(rows) + 1
      /\ status'[Len(rows) + 1] = "live"
      /\ \A u \in Tokens : status'[u] = IF u = t THEN "rotated" ELSE status[u]
  <2>1. status' = Append(marked, "live")
    BY DEF Replace
  <2>2. /\ Append(marked, "live") \in Seq(Statuses)
        /\ Len(Append(marked, "live")) = Len(marked) + 1
        /\ Append(marked, "live")[Len(marked) + 1] = "live"
        /\ \A u \in 1..Len(marked) : Append(marked, "live")[u] = marked[u]
    BY <1>4, <1>5, AppendTyped
  <2>3. QED
    BY <1>1, <1>4, <2>1, <2>2
<1>7. /\ rows' \in Seq(TokenRow) /\ Len(rows') = Len(rows) + 1
      /\ rows'[Len(rows) + 1] = Child(t, rows[t].expires)
      /\ \A u \in Tokens : rows'[u] = rows[u]
  BY <1>1, <1>3, AppendTyped DEF Replace
<1> DEFINE x == [request[r] EXCEPT !.pc = "answering", !.token = Len(rows) + 1]
<1>8. x \in Request /\ x.pc = "answering" /\ x.token = Len(rows) + 1
      /\ x.code = request[r].code
  <2>1. Len(rows) + 1 \in Nat /\ request[r] \in Request
    BY <1>1, AtRotate
  <2>2. QED
    BY <2>1, AnsweringTyped
<1>9. /\ request' \in Tables /\ request'[r] = x
      /\ \A q \in Slots \ {r} : request'[q] = request[q]
  BY <1>8, WriteTyped DEF Replace, TokensTypeOK, Tables
<1>10. ~ByCode(r)'
  BY <1>8, <1>9, AtRotate DEF ByCode
<1>11. QED
  BY <1>6, <1>7, <1>8, <1>9, <1>10

LEMMA RotateTyped ==
  ASSUME TokensTypeOK, Presents, Rooted, NEW r \in Slots, Rotate(r)
  PROVE  TokensTypeOK' /\ Presents'
<1> DEFINE t == request[r].token
<1>1. At(r, "rotating") /\ UNCHANGED <<now, code, revoked, served, held, begun>>
  BY DEF Rotate
<1>2. /\ t \in Tokens /\ rows[t] \in TokenRow
      /\ Tokens = 1..Len(rows) /\ Len(rows) \in Nat
  BY <1>1, AtRotate DEF TokensTypeOK, Tokens
<1>3. CASE UNCHANGED rows /\ Close(r)
  <2>1. status' \in Seq(Statuses) /\ Len(status') = Len(rows)
    <3>1. CASE UNCHANGED status
      BY <3>1 DEF TokensTypeOK, Statuses
    <3>2. CASE Remove(ChainOf(t))
      BY <3>2, RemoveTyped DEF TokensTypeOK, Statuses
    <3>3. CASE Replace(r, t, rows[t].expires)
      <4>1. Len(rows') = Len(rows) + 1
        BY <1>1, <1>2, <3>3, ReplaceTyped
      <4>2. QED
        BY <1>2, <1>3, <4>1
    <3>4. QED
      BY <3>1, <3>2, <3>3, RotateCases
  <2>2. ended' \subseteq Tokens
    <3>1. rows[t].chain \in Tokens
      BY <1>2 DEF Rooted, TokenRow
    <3>2. ended' = ended \/ ended' = ended \cup {rows[t].chain}
      BY RotateCases
    <3>3. QED
      BY <3>1, <3>2 DEF TokensTypeOK
  <2>3. request' \in Tables /\ request'[r].pc = "idle"
        /\ \A q \in Slots \ {r} : request'[q] = request[q]
    BY <1>3, CloseTyped DEF TokensTypeOK, Tables
  <2>4. Presents'
    <3>1. Kept
      BY <1>1, <1>3 DEF Kept, Tokens
    <3>2. Presenting(r)'
      BY <2>3, IdlePresenting
    <3>3. QED
      BY <2>3, <3>1, <3>2, OnePresenting
  <2>5. TokensTypeOK'
    BY <1>1, <1>3, <2>1, <2>2, <2>3 DEF TokensTypeOK, Tables, Tokens, Statuses
  <2>6. QED
    BY <2>4, <2>5
<1>4. CASE Replace(r, t, rows[t].expires) /\ UNCHANGED ended
  <2>1. /\ rows' \in Seq(TokenRow) /\ status' \in Seq(Statuses)
        /\ Len(rows') = Len(rows) + 1 /\ Len(status') = Len(rows')
        /\ request' \in Tables
        /\ request'[r].pc = "answering" /\ request'[r].token = Len(rows) + 1
        /\ ~ByCode(r)'
        /\ \A q \in Slots \ {r} : request'[q] = request[q]
    BY <1>1, <1>2, <1>4, ReplaceTyped
  <2>2. Tokens' = 1..Len(rows') /\ Tokens \subseteq Tokens'
    BY <1>2, <2>1 DEF Tokens
  <2>3. Presents'
    <3>1. Kept
      BY <1>1, <2>2 DEF Kept
    <3>2. Presenting(r)'
      BY <1>2, <2>1, <2>2 DEF Presenting, At
    <3>3. QED
      BY <2>1, <3>1, <3>2, OnePresenting
  <2>4. TokensTypeOK'
    BY <1>1, <1>4, <2>1, <2>2 DEF TokensTypeOK, Tables, Statuses
  <2>5. QED
    BY <2>3, <2>4
<1>5. QED
  BY <1>3, <1>4, RotateCases

LEMMA AnswerTyped ==
  ASSUME TokensTypeOK, Presents, NEW r \in Slots, Answer(r)
  PROVE  TokensTypeOK' /\ Presents'
<1>1. request[r].token \in Tokens
  BY DEF Answer, Presents, Presenting
<1>2. request' \in Tables /\ request'[r].pc = "idle"
      /\ \A q \in Slots \ {r} : request'[q] = request[q]
  BY CloseTyped DEF Answer, TokensTypeOK, Tables
<1>3. Kept
  BY DEF Kept, Answer, Tokens
<1>4. Presents'
  BY <1>2, <1>3, IdlePresenting, OnePresenting
<1>5. held' \subseteq Tokens
  BY <1>1 DEF Answer, TokensTypeOK
<1>6. TokensTypeOK'
  BY <1>2, <1>5 DEF Answer, TokensTypeOK, Tables, Tokens
<1>7. QED
  BY <1>4, <1>6

\* The steps beside the requests leave every request alone, or end them all.
LEMMA BesideTyped ==
  ASSUME TokensTypeOK, Presents,
         \/ Tick \/ CleanupExpired \/ Crash \/ UNCHANGED vars
         \/ \E c \in Clients : Revoke(c)
         \/ \E u \in Users : ChangeAccess(u)
         \/ \E c \in Clients, u \in Users, k \in Codes : Consent(c, u, k)
  PROVE  TokensTypeOK' /\ Presents'
<1>1. CASE Crash
  <2>1. request' \in Tables /\ \A r \in Slots : request'[r].pc = "idle"
    BY <1>1 DEF Crash, Tables, NoRequest
  <2>2. Presents'
    BY <2>1, IdlePresenting DEF Presents
  <2>3. TokensTypeOK'
    BY <1>1, <2>1 DEF Crash, TokensTypeOK, Tables, Tokens
  <2>4. QED
    BY <2>2, <2>3
<1>2. CASE Tick
  <2>1. TokensTypeOK'
    BY <1>2 DEF Tick, TokensTypeOK, Tokens
  <2>2. Presents'
    BY <1>2 DEF Tick, Presents, Presenting, ByCode, At, Tokens
  <2>3. QED
    BY <2>1, <2>2
<1>3. CASE CleanupExpired
  <2>1. status' \in Seq(Statuses) /\ Len(status') = Len(rows)
    BY <1>3, RemoveTyped DEF CleanupExpired, TokensTypeOK, Statuses
  <2>2. TokensTypeOK'
    BY <1>3, <2>1 DEF CleanupExpired, TokensTypeOK, Tokens, Statuses
  <2>3. Presents'
    BY <1>3 DEF CleanupExpired, Presents, Presenting, ByCode, At, Tokens
  <2>4. QED
    BY <2>2, <2>3
<1>4. CASE UNCHANGED vars
  BY <1>4 DEF vars, TokensTypeOK, Presents, Presenting, ByCode, At, Tokens
<1>5. ASSUME NEW c \in Clients, Revoke(c)
      PROVE  TokensTypeOK' /\ Presents'
  <2>1. Tokens = 1..Len(rows) /\ Len(rows) \in Nat
    BY DEF Tokens, TokensTypeOK
  <2>2. status' \in [1..Len(rows) -> Statuses]
    BY <1>5, <2>1 DEF Revoke, TokensTypeOK, Statuses
  <2>3. status' \in Seq(Statuses) /\ Len(status') = Len(rows)
    BY <2>1, <2>2
  <2>4. TokensTypeOK'
    BY <1>5, <2>3 DEF Revoke, TokensTypeOK, Tokens, Statuses
  <2>5. Presents'
    BY <1>5 DEF Revoke, Presents, Presenting, ByCode, At, Tokens
  <2>6. QED
    BY <2>4, <2>5
<1>6. ASSUME NEW u \in Users, ChangeAccess(u)
      PROVE  TokensTypeOK' /\ Presents'
  <2>1. TokensTypeOK'
    BY <1>6 DEF ChangeAccess, TokensTypeOK, Tokens
  <2>2. Presents'
    BY <1>6 DEF ChangeAccess, Presents, Presenting, ByCode, At, Tokens
  <2>3. QED
    BY <2>1, <2>2
<1>7. ASSUME NEW c \in Clients, NEW u \in Users, NEW k \in Codes, Consent(c, u, k)
      PROVE  TokensTypeOK' /\ Presents'
  <2> DEFINE row == [status |-> "issued", client |-> c, user |-> u,
                     expires |-> now + CodeTTL]
  <2>1. row \in CodeRow /\ row # NoCode
    BY LifetimeAssumption DEF CodeRow, NoCode, TokensTypeOK
  <2>2. code' = [code EXCEPT ![k] = row]
    BY <1>7 DEF Consent
  <2>3. TokensTypeOK'
    BY <1>7, <2>1, <2>2 DEF Consent, TokensTypeOK, Tokens
  <2>4. Kept
    BY <1>7, <2>1, <2>2 DEF Kept, Consent, TokensTypeOK, Tokens
  <2>5. Presents'
    BY <1>7, <2>4, StillPresenting DEF Consent, Presents
  <2>6. QED
    BY <2>3, <2>5
<1>8. QED
  BY <1>1, <1>2, <1>3, <1>4, <1>5, <1>6, <1>7

-----------------------------------------------------------------------------
(* Chains *)

LEMMA ChainsInit == Init => Chains
  BY DEF Init, Chains, Rooted, Kin, OneUsablePerChain, ReplayIsNoticed,
         EndedChainStaysEnded, Tokens

LEMMA ChainsSame ==
  ASSUME Chains, UNCHANGED <<rows, status, ended>>
  PROVE  Chains'
  BY DEF Chains, Rooted, Kin, OneUsablePerChain, ReplayIsNoticed,
         EndedChainStaysEnded, Tokens

\* Removing whole chains, and ending some of those that are removed.
LEMMA ChainsRemove ==
  ASSUME TokensTypeOK, Chains, NEW ts, NEW es,
         \A t, u \in Tokens : rows[t].chain = rows[u].chain => (t \in ts <=> u \in ts),
         \A t \in Tokens : rows[t].chain \in es => t \in ts,
         Remove(ts), UNCHANGED rows, ended' = ended \cup es
  PROVE  Chains'
<1>1. Tokens' = Tokens
  BY DEF Tokens
<1>2. \A t \in Tokens : status'[t] = IF t \in ts THEN "gone" ELSE status[t]
  BY RemoveTyped DEF TokensTypeOK, Statuses
<1>3. Rooted'
  BY <1>1 DEF Chains, Rooted
<1>4. Kin'
  BY <1>1, <1>2 DEF Chains, Kin
<1>5. OneUsablePerChain'
  BY <1>1, <1>2 DEF Chains, OneUsablePerChain
<1>6. ReplayIsNoticed'
  BY <1>1, <1>2 DEF Chains, ReplayIsNoticed
<1>7. EndedChainStaysEnded'
  BY <1>1, <1>2 DEF Chains, EndedChainStaysEnded
<1>8. QED
  BY <1>3, <1>4, <1>5, <1>6, <1>7 DEF Chains

\* A root is alone in its chain, and no chain of its name has ever ended.
LEMMA ChainsMint ==
  ASSUME TokensTypeOK, Presents, Chains, NEW r \in Slots, Mint(r)
  PROVE  Chains'
<1> DEFINE n == Len(rows) + 1
<1>1. Tokens = 1..Len(rows) /\ Len(rows) \in Nat /\ Len(status) = Len(rows)
  BY DEF TokensTypeOK, Tokens
<1>2. At(r, "minting") /\ rows' = Append(rows, Root(r)) /\ status' = Append(status, "live")
      /\ ended' = ended
  BY DEF Mint, Root
<1>3. Root(r) \in TokenRow
  BY <1>2, RootTyped
<1>4. /\ Tokens' = 1..n
      /\ rows'[n] = Root(r) /\ status'[n] = "live"
      /\ \A t \in Tokens : rows'[t] = rows[t] /\ status'[t] = status[t]
  BY <1>1, <1>2, <1>3 DEF TokensTypeOK, Tokens
<1>5. rows'[n].chain = n
  BY <1>4 DEF Root
<1>6. \A t \in Tokens : rows'[t].chain # n /\ rows[t].chain \in Nat /\ t \in Nat
  <2>1. \A t \in Tokens : rows[t] \in TokenRow /\ t \in Nat
    BY <1>1 DEF TokensTypeOK
  <2>2. \A t \in Tokens : rows[t].chain \in Nat
    BY <2>1 DEF TokenRow
  <2>3. QED
    BY <1>1, <1>4, <2>1, <2>2 DEF Chains, Rooted
<1>7. \A t \in Tokens' : t = n \/ t \in Tokens
  BY <1>1, <1>4
<1>8. n \notin ended
  BY <1>1 DEF TokensTypeOK
<1>9. Rooted'
  BY <1>1, <1>4, <1>5, <1>7 DEF Chains, Rooted
<1>10. Kin'
  BY <1>4, <1>5, <1>6, <1>7 DEF Chains, Kin
<1>11. OneUsablePerChain'
  BY <1>4, <1>5, <1>6, <1>7 DEF Chains, OneUsablePerChain
<1>12. ReplayIsNoticed'
  BY <1>4, <1>5, <1>6, <1>7 DEF Chains, ReplayIsNoticed
<1>13. EndedChainStaysEnded'
  BY <1>2, <1>4, <1>5, <1>7, <1>8 DEF Chains, EndedChainStaysEnded
<1>14. QED
  BY <1>9, <1>10, <1>11, <1>12, <1>13 DEF Chains

\* The token replaced is live, so it is the newest of its chain, every earlier one is
\* marked, and the chain has not ended; the child comes after all of them.
LEMMA ChainsReplace ==
  ASSUME TokensTypeOK, Presents, Chains, NEW r \in Slots, At(r, "rotating"),
         NEW t \in Tokens, request[r].token = t, status[t] = "live",
         Replace(r, t, rows[t].expires), UNCHANGED ended
  PROVE  Chains'
<1> DEFINE n == Len(rows) + 1
           child == Child(t, rows[t].expires)
<1>1. Tokens = 1..Len(rows) /\ Len(rows) \in Nat
  BY DEF TokensTypeOK, Tokens
<1>2. /\ Len(rows') = n
      /\ rows'[n] = child /\ status'[n] = "live"
      /\ \A u \in Tokens : /\ rows'[u] = rows[u]
                           /\ status'[u] = IF u = t THEN "rotated" ELSE status[u]
  BY ReplaceTyped
<1>3. Tokens' = 1..n
  BY <1>2, ReplaceTyped DEF Tokens
<1>4. /\ child.chain = rows[t].chain /\ child.client = rows[t].client
      /\ child.expires = rows[t].expires
  <2>1. rows[t] \in TokenRow
    BY <1>1 DEF TokensTypeOK
  <2>2. QED
    BY <2>1 DEF Child, TokenRow
<1>5. \A u \in Tokens' : u = n \/ u \in Tokens
  BY <1>1, <1>3
<1>6. \A u \in Tokens :
        rows[u].chain = rows[t].chain =>
          /\ u <= t
          /\ status[u] # "gone"
          /\ u # t => status[u] = "rotated"
  BY <1>1 DEF Chains, Kin, OneUsablePerChain, ReplayIsNoticed
<1>7. rows[t].chain \notin ended
  BY DEF Chains, EndedChainStaysEnded
<1>8. Rooted'
  <2>1. rows[t].chain <= t /\ rows[t].chain \in Nat
    <3>1. rows[t] \in TokenRow
      BY <1>1 DEF TokensTypeOK
    <3>2. QED
      BY <3>1 DEF TokenRow, Chains, Rooted
  <2>2. rows[t].chain <= n
    BY <1>1, <2>1
  <2>3. QED
    BY <1>2, <1>4, <1>5, <2>2 DEF Chains, Rooted
<1>9. Kin'
  BY <1>2, <1>4, <1>5, <1>6 DEF Chains, Kin
<1>10. OneUsablePerChain'
  BY <1>1, <1>2, <1>4, <1>5, <1>6 DEF Chains, OneUsablePerChain
<1>11. ReplayIsNoticed'
  BY <1>1, <1>2, <1>4, <1>5, <1>6 DEF Chains, ReplayIsNoticed
<1>12. EndedChainStaysEnded'
  BY <1>2, <1>4, <1>5, <1>7 DEF Chains, EndedChainStaysEnded
<1>13. QED
  BY <1>8, <1>9, <1>10, <1>11, <1>12 DEF Chains

LEMMA ChainsRotate ==
  ASSUME TokensTypeOK, Presents, Chains, NEW r \in Slots, Rotate(r)
  PROVE  Chains'
<1> DEFINE t == request[r].token
<1>1. At(r, "rotating") /\ t \in Tokens
  BY AtRotate DEF Rotate
<1>2. CASE UNCHANGED <<rows, status, ended>>
  BY <1>2, ChainsSame
<1>3. ASSUME NEW es, es = {} \/ es = {rows[t].chain},
             UNCHANGED rows, Remove(ChainOf(t)), ended' = ended \cup es
      PROVE  Chains'
  <2>1. \A u, v \in Tokens : rows[u].chain = rows[v].chain =>
          (u \in ChainOf(t) <=> v \in ChainOf(t))
    BY DEF ChainOf
  <2>2. \A u \in Tokens : rows[u].chain \in es => u \in ChainOf(t)
    BY <1>3 DEF ChainOf
  <2>3. QED
    BY <1>3, <2>1, <2>2, ChainsRemove
<1>4. CASE /\ Replace(r, t, rows[t].expires) /\ UNCHANGED ended
           /\ status[t] = "live"
  BY <1>1, <1>4, ChainsReplace
<1>5. CASE UNCHANGED <<rows, ended>> /\ Remove(ChainOf(t))
  <2> DEFINE es == {}
  <2>1. (es = {} \/ es = {rows[t].chain}) /\ ended' = ended \cup es
    BY <1>5
  <2> HIDE DEF es
  <2>2. QED
    BY <1>3, <1>5, <2>1
<1>6. QED
  BY <1>2, <1>3, <1>4, <1>5, RotateCases

LEMMA ChainsRevoke ==
  ASSUME TokensTypeOK, Chains, NEW c \in Clients, Revoke(c)
  PROVE  Chains'
<1>1. Tokens' = Tokens /\ UNCHANGED <<rows, ended>>
  BY DEF Revoke, Tokens
<1>2. \A t \in Tokens :
        status'[t] = IF rows[t].client = c /\ status[t] = "live"
                     THEN "rotated" ELSE status[t]
  BY DEF Revoke
<1>3. Kin'
  BY <1>1, <1>2 DEF Chains, Kin
<1>4. OneUsablePerChain'
  BY <1>1, <1>2 DEF Chains, OneUsablePerChain
<1>5. ReplayIsNoticed'
  BY <1>1, <1>2 DEF Chains, ReplayIsNoticed
<1>6. EndedChainStaysEnded'
  BY <1>1, <1>2 DEF Chains, EndedChainStaysEnded
<1>7. QED
  BY <1>1, <1>3, <1>4, <1>5, <1>6 DEF Chains, Rooted

LEMMA ChainsCleanup ==
  ASSUME TokensTypeOK, Chains, CleanupExpired
  PROVE  Chains'
<1> DEFINE ts == {t \in Tokens : Expired(t)}
           es == {}
<1>1. \A t, u \in Tokens : rows[t].chain = rows[u].chain => (t \in ts <=> u \in ts)
  BY DEF Chains, Kin, Expired
<1>2. Remove(ts) /\ UNCHANGED rows /\ ended' = ended \cup es
      /\ \A t \in Tokens : rows[t].chain \in es => t \in ts
  BY DEF CleanupExpired
<1> HIDE DEF ts, es
<1>3. QED
  BY <1>1, <1>2, ChainsRemove

-----------------------------------------------------------------------------
(* Codes *)

LEMMA SpentInit == Init => Spent
  BY DEF Init, Spent, CodesSpent, CodeYieldsOneChain, Redeeming, NoRequest, Tokens

\* A step that starts no redemption and stores no root: a new row is a child, with the
\* code of a row that was there.
Quiet ==
  /\ \A k \in Codes : code[k].status = "gone" => code'[k].status = "gone"
  /\ \A r \in Slots : Redeeming(r)' =>
       Redeeming(r) /\ request'[r].code = request[r].code
  /\ \A t \in Tokens' : \E u \in Tokens :
       /\ rows'[t].code = rows[u].code
       /\ rows'[t].parent = 0 => t = u /\ rows[u].parent = 0

LEMMA SpentQuiet ==
  ASSUME TokensTypeOK, Spent, Quiet
  PROVE  Spent'
<1>1. \A u \in Tokens : rows[u].code \in Codes
  <2>1. \A u \in Tokens : rows[u] \in TokenRow
    BY DEF TokensTypeOK, Tokens
  <2>2. QED
    BY <2>1 DEF TokenRow
<1>2. \A r \in Slots : Redeeming(r) => request[r].code \in Codes
  BY DEF Redeeming, ByCode
<1>3. \A r \in Slots : Redeeming(r)' => code'[request'[r].code].status = "gone"
  BY <1>2 DEF Quiet, Spent, CodesSpent
<1>4. \A t \in Tokens' : code'[rows'[t].code].status = "gone"
  BY <1>1 DEF Quiet, Spent, CodesSpent
<1>5. \A r, q \in Slots :
        Redeeming(r)' /\ Redeeming(q)' /\ request'[r].code = request'[q].code => r = q
  BY DEF Quiet, Spent, CodesSpent
<1>6. \A r \in Slots, t \in Tokens' :
        Redeeming(r)' /\ rows'[t].parent = 0 => rows'[t].code # request'[r].code
  BY DEF Quiet, Spent, CodesSpent
<1>7. CodesSpent'
  BY <1>3, <1>4, <1>5, <1>6, Zenon DEF CodesSpent
<1>8. CodeYieldsOneChain'
  <2>1. ASSUME NEW t \in Tokens', NEW u \in Tokens',
               rows'[t].parent = 0, rows'[u].parent = 0, rows'[t].code = rows'[u].code
        PROVE  t = u
    BY <2>1 DEF Quiet, Spent, CodeYieldsOneChain
  <2>2. QED
    BY <2>1, Zenon DEF CodeYieldsOneChain
<1>9. QED
  BY <1>7, <1>8 DEF Spent

\* The code was issued until now, so nobody else redeems it and it has no chain.
LEMMA SpentRedeem ==
  ASSUME TokensTypeOK, Presents, Spent, NEW r \in Slots, Redeem(r)
  PROVE  Spent'
<1> DEFINE k == request[r].code
<1>1. request \in Tables /\ request[r].pc = "verifying" /\ k \in Codes
  BY DEF Redeem, TokensTypeOK, Tables, At, ByCode
<1>2. code[k] \in CodeRow
  BY <1>1 DEF Presents, Presenting, TokensTypeOK, ByCode
<1>3. code'[k].status = "gone" /\ \A h \in Codes \ {k} : code'[h] = code[h]
  <2>1. code' = [code EXCEPT ![k] = [code[k] EXCEPT !.status = "gone"]]
    BY DEF Redeem
  <2>2. [code[k] EXCEPT !.status = "gone"].status = "gone"
    BY <1>2 DEF CodeRow
  <2>3. QED
    BY <1>1, <2>1, <2>2 DEF TokensTypeOK
<1>4. UNCHANGED rows /\ Tokens' = Tokens
  BY DEF Redeem, Tokens
<1>5. \A h \in Codes : code[h].status = "gone" => code'[h].status = "gone"
  BY <1>1, <1>3
<1>6. CASE Close(r)
  <2>1. request'[r].pc = "idle" /\ \A q \in Slots \ {r} : request'[q] = request[q]
    BY <1>1, <1>6, CloseTyped
  <2>2. \A q \in Slots : Redeeming(q)' => Redeeming(q) /\ request'[q].code = request[q].code
    BY <2>1 DEF Redeeming, ByCode
  <2>3. QED
    BY <1>4, <1>5, <2>2, SpentQuiet DEF Quiet
<1>7. CASE Goto(r, "asking") /\ code[k].status = "issued"
  <2>1. /\ request'[r] = [request[r] EXCEPT !.pc = "asking"]
        /\ \A q \in Slots \ {r} : request'[q] = request[q]
    BY <1>1, <1>7, GotoTyped DEF Pcs
  <2>2. request'[r].code = k
    BY <1>1, <2>1, BusyIsRequest DEF Request
  <2>3. \A q \in Slots \ {r} :
          Redeeming(q)' => Redeeming(q) /\ request'[q].code = request[q].code
    BY <2>1 DEF Redeeming, ByCode
  <2>4. \A q \in Slots : Redeeming(q) => request[q].code # k
    BY <1>7 DEF Spent, CodesSpent
  <2>5. \A t \in Tokens : rows[t].code # k
    BY <1>7 DEF Spent, CodesSpent
  <2>6. \A q \in Slots : Redeeming(q) => request[q].code \in Codes
    BY DEF Redeeming, ByCode
  <2>7. \A t \in Tokens : rows[t].code \in Codes
    <3>1. \A t \in Tokens : rows[t] \in TokenRow
      BY DEF TokensTypeOK, Tokens
    <3>2. QED
      BY <3>1 DEF TokenRow
  <2>8. \A q \in Slots : Redeeming(q)' => code'[request'[q].code].status = "gone"
    BY <1>3, <1>5, <2>2, <2>3, <2>6 DEF Spent, CodesSpent
  <2>9. \A t \in Tokens' : code'[rows'[t].code].status = "gone"
    BY <1>4, <1>5, <2>7 DEF Spent, CodesSpent
  <2>10. \A q, p \in Slots :
           Redeeming(q)' /\ Redeeming(p)' /\ request'[q].code = request'[p].code => q = p
    BY <2>2, <2>3, <2>4 DEF Spent, CodesSpent
  <2>11. \A q \in Slots, t \in Tokens' :
           Redeeming(q)' /\ rows'[t].parent = 0 => rows'[t].code # request'[q].code
    BY <1>4, <2>2, <2>3, <2>5 DEF Spent, CodesSpent
  <2>12. CodesSpent'
    BY <2>8, <2>9, <2>10, <2>11, Zenon DEF CodesSpent
  <2>13. CodeYieldsOneChain'
    BY <1>4 DEF Spent, CodeYieldsOneChain
  <2>14. QED
    BY <2>12, <2>13 DEF Spent
<1>8. QED
  BY <1>6, <1>7 DEF Redeem

\* The redemption ends where its chain begins.
LEMMA SpentMint ==
  ASSUME TokensTypeOK, Presents, Spent, NEW r \in Slots, Mint(r)
  PROVE  Spent'
<1> DEFINE n == Len(rows) + 1
           k == request[r].code
           x == [request[r] EXCEPT !.pc = "answering", !.token = n]
<1>1. At(r, "minting") /\ rows' = Append(rows, Root(r)) /\ UNCHANGED code
      /\ request' = [request EXCEPT ![r] = x]
  BY DEF Mint, Root
<1>2. Root(r) \in TokenRow /\ request[r] \in Request /\ k \in Codes
  BY <1>1, RootTyped
<1>3. /\ \A t \in Tokens' : t = n \/ t \in Tokens
      /\ rows'[n] = Root(r) /\ Root(r).code = k
      /\ \A t \in Tokens : rows'[t] = rows[t]
  BY <1>1, <1>2 DEF TokensTypeOK, Tokens, Root
<1>4. request'[r].pc = "answering" /\ \A q \in Slots \ {r} : request'[q] = request[q]
  <2>1. n \in Nat
    BY DEF TokensTypeOK
  <2>2. x \in Request /\ x.pc = "answering"
    BY <1>2, <2>1, AnsweringTyped
  <2>3. QED
    BY <1>1, <2>2, WriteTyped DEF TokensTypeOK, Tables
<1>5. Redeeming(r) /\ code[k].status = "gone"
  BY <1>1, <1>2 DEF Redeeming, At, ByCode, Spent, CodesSpent
<1>6. \A t \in Tokens : rows[t].parent = 0 => rows[t].code # k
  BY <1>5 DEF Spent, CodesSpent
<1>7. \A q \in Slots : Redeeming(q)' =>
        q # r /\ Redeeming(q) /\ request'[q].code = request[q].code /\ request[q].code # k
  BY <1>4, <1>5 DEF Redeeming, ByCode, Spent, CodesSpent
<1>8. \A q \in Slots : Redeeming(q)' => code'[request'[q].code].status = "gone"
  BY <1>1, <1>7 DEF Spent, CodesSpent
<1>9. \A t \in Tokens' : code'[rows'[t].code].status = "gone"
  BY <1>1, <1>3, <1>5 DEF Spent, CodesSpent
<1>10. \A q, p \in Slots :
         Redeeming(q)' /\ Redeeming(p)' /\ request'[q].code = request'[p].code => q = p
  BY <1>7 DEF Spent, CodesSpent
<1>11. \A q \in Slots, t \in Tokens' :
         Redeeming(q)' /\ rows'[t].parent = 0 => rows'[t].code # request'[q].code
  BY <1>3, <1>7 DEF Spent, CodesSpent
<1>12. CodesSpent'
  BY <1>8, <1>9, <1>10, <1>11, Zenon DEF CodesSpent
<1>13. CodeYieldsOneChain'
  <2>1. ASSUME NEW t \in Tokens', NEW u \in Tokens',
               rows'[t].parent = 0, rows'[u].parent = 0, rows'[t].code = rows'[u].code
        PROVE  t = u
    BY <1>3, <1>6, <2>1 DEF Spent, CodeYieldsOneChain
  <2>2. QED
    BY <2>1, Zenon DEF CodeYieldsOneChain
<1>14. QED
  BY <1>12, <1>13 DEF Spent

LEMMA SpentAsk ==
  ASSUME TokensTypeOK, Presents, Spent, NEW r \in Slots, Ask(r)
  PROVE  Spent'
<1>1. request \in Tables /\ request[r].pc = "asking" /\ request[r] \in Request
      /\ UNCHANGED <<code, rows>> /\ Tokens' = Tokens
  BY BusyIsRequest DEF Ask, TokensTypeOK, Tables, At, Tokens
<1>2. \A q \in Slots : Redeeming(q)' => Redeeming(q) /\ request'[q].code = request[q].code
  <2>1. CASE Close(r)
    BY <1>1, <2>1, CloseTyped DEF Redeeming, ByCode
  <2>2. CASE ~Close(r)
    <3> DEFINE x == [request[r] EXCEPT !.pc = IF ByCode(r) THEN "minting" ELSE "rotating",
                                       !.passed = TRUE]
    <3>1. x \in Request /\ x.code = request[r].code
      BY <1>1 DEF Request, Pcs
    <3>2. request' = [request EXCEPT ![r] = x]
      BY <2>2 DEF Ask
    <3>3. request'[r] = x /\ \A q \in Slots \ {r} : request'[q] = request[q]
      BY <1>1, <3>1, <3>2, WriteTyped
    <3>4. QED
      BY <1>1, <3>1, <3>3 DEF Redeeming, ByCode
  <2>3. QED
    BY <2>1, <2>2
<1>3. Quiet
  BY <1>1, <1>2 DEF Quiet
<1>4. QED
  BY <1>3, SpentQuiet

\* Steps of the refresh grant, of answers and of new requests redeem nothing.
LEMMA SpentIdle ==
  ASSUME TokensTypeOK, Spent, NEW r \in Slots, UNCHANGED <<code, rows>>,
         ~Redeeming(r)', \A q \in Slots \ {r} : request'[q] = request[q]
  PROVE  Spent'
<1>1. \A q \in Slots : Redeeming(q)' => Redeeming(q) /\ request'[q].code = request[q].code
  BY DEF Redeeming, ByCode
<1>2. Quiet
  BY <1>1 DEF Quiet, Tokens
<1>3. QED
  BY <1>2, SpentQuiet

LEMMA SpentRotate ==
  ASSUME TokensTypeOK, Presents, Spent, NEW r \in Slots, Rotate(r)
  PROVE  Spent'
<1> DEFINE t == request[r].token
<1>1. At(r, "rotating") /\ UNCHANGED code /\ request \in Tables /\ t \in Tokens
  BY AtRotate DEF Rotate, TokensTypeOK, Tables
<1>2. CASE UNCHANGED rows /\ Close(r)
  <2>1. request'[r].pc = "idle" /\ \A q \in Slots \ {r} : request'[q] = request[q]
    BY <1>1, <1>2, CloseTyped
  <2>2. ~Redeeming(r)'
    BY <2>1 DEF Redeeming
  <2>3. QED
    BY <1>1, <1>2, <2>1, <2>2, SpentIdle
<1>3. CASE Replace(r, t, rows[t].expires)
  <2> DEFINE n == Len(rows) + 1
             child == Child(t, rows[t].expires)
  <2>1. /\ Len(rows') = n /\ rows' \in Seq(TokenRow)
        /\ rows'[n] = child
        /\ \A u \in Tokens : rows'[u] = rows[u]
        /\ request'[r].pc = "answering"
        /\ \A q \in Slots \ {r} : request'[q] = request[q]
    BY <1>1, <1>3, ReplaceTyped
  <2>2. Tokens = 1..Len(rows) /\ Tokens' = 1..n /\ rows[t] \in TokenRow /\ t \in Nat
        /\ t # 0
    BY <1>1, <2>1 DEF TokensTypeOK, Tokens
  <2>3. child.code = rows[t].code /\ child.parent # 0
    BY <2>2 DEF Child, TokenRow
  <2>4. \A q \in Slots : Redeeming(q)' => Redeeming(q) /\ request'[q].code = request[q].code
    BY <2>1 DEF Redeeming, ByCode
  <2>5. \A u \in Tokens' : \E v \in Tokens :
          /\ rows'[u].code = rows[v].code
          /\ rows'[u].parent = 0 => u = v /\ rows[v].parent = 0
    <3>1. ASSUME NEW u \in Tokens', u \in Tokens
          PROVE  \E v \in Tokens :
                   /\ rows'[u].code = rows[v].code
                   /\ rows'[u].parent = 0 => u = v /\ rows[v].parent = 0
      BY <2>1, <3>1
    <3>2. /\ t \in Tokens
          /\ rows'[n].code = rows[t].code
          /\ rows'[n].parent = 0 => n = t /\ rows[t].parent = 0
      BY <1>1, <2>1, <2>3
    <3>3. \A u \in Tokens' : u \in Tokens \/ u = n
      BY <2>2 DEF TokensTypeOK
    <3>4. QED
      BY <3>1, <3>2, <3>3
  <2>6. Quiet
    BY <1>1, <2>4, <2>5 DEF Quiet
  <2>7. QED
    BY <2>6, SpentQuiet
<1>4. QED
  BY <1>2, <1>3, RotateCases

LEMMA SpentLookup ==
  ASSUME TokensTypeOK, Presents, Spent, NEW r \in Slots, Lookup(r) \/ Answer(r)
  PROVE  Spent'
<1>1. request \in Tables /\ request[r].pc # "idle" /\ UNCHANGED <<code, rows>>
  BY DEF Lookup, Answer, TokensTypeOK, Tables, At
<1>2. CASE Close(r)
  <2>1. request'[r].pc = "idle" /\ \A q \in Slots \ {r} : request'[q] = request[q]
    BY <1>1, <1>2, CloseTyped
  <2>2. QED
    BY <1>1, <2>1, SpentIdle DEF Redeeming
<1>3. CASE ~ByCode(r) /\ \E pc \in {"asking", "rotating"} : Goto(r, pc)
  <2>1. PICK pc \in {"asking", "rotating"} : Goto(r, pc)
    BY <1>3
  <2>2. /\ request'[r] = [request[r] EXCEPT !.pc = pc]
        /\ \A q \in Slots \ {r} : request'[q] = request[q]
    BY <1>1, <2>1, GotoTyped DEF Pcs
  <2>3. ~ByCode(r)'
    BY <1>1, <1>3, <2>2, BusyIsRequest DEF ByCode, Request
  <2>4. QED
    BY <1>1, <2>2, <2>3, SpentIdle DEF Redeeming
<1>4. QED
  BY <1>2, <1>3 DEF Lookup, Answer

LEMMA SpentPresent ==
  ASSUME TokensTypeOK, Spent, NEW r \in Slots, NEW c \in Clients,
         NEW k \in Codes \cup {0}, NEW t \in Nat, Present(r, c, k, t)
  PROVE  Spent'
<1> DEFINE x == [client |-> c, pc |-> "verifying", code |-> k, token |-> t,
                 passed |-> FALSE]
<1>1. x \in Request
  BY DEF Request, Pcs
<1>2. request'[r] = x /\ \A q \in Slots \ {r} : request'[q] = request[q]
  BY <1>1, WriteTyped DEF Present, TokensTypeOK, Tables
<1>3. ~Redeeming(r)' /\ UNCHANGED <<code, rows>>
  BY <1>2 DEF Redeeming, Present
<1>4. QED
  BY <1>2, <1>3, SpentIdle

LEMMA SpentBeside ==
  ASSUME TokensTypeOK, Spent,
         \/ Tick \/ CleanupExpired \/ Crash \/ UNCHANGED vars
         \/ \E c \in Clients : Revoke(c)
         \/ \E u \in Users : ChangeAccess(u)
         \/ \E c \in Clients, u \in Users, k \in Codes : Consent(c, u, k)
  PROVE  Spent'
<1>1. UNCHANGED rows
  BY DEF Tick, CleanupExpired, Crash, vars, Revoke, ChangeAccess, Consent
<1>2. \A k \in Codes : code[k].status = "gone" => code'[k].status = "gone"
  <2>1. CASE UNCHANGED code
    BY <2>1
  <2>2. ASSUME NEW c \in Clients, NEW u \in Users, NEW h \in Codes, Consent(c, u, h)
        PROVE  \A k \in Codes : code[k].status = "gone" => code'[k].status = "gone"
    <3>1. code[h].status = "absent"
      BY <2>2 DEF Consent, NoCode
    <3>2. \A k \in Codes \ {h} : code'[k] = code[k]
      BY <2>2 DEF Consent, TokensTypeOK
    <3>3. QED
      BY <3>1, <3>2
  <2>3. QED
    BY <2>1, <2>2 DEF Tick, CleanupExpired, Crash, vars, Revoke, ChangeAccess
<1>3. \A q \in Slots : Redeeming(q)' => Redeeming(q) /\ request'[q].code = request[q].code
  <2>1. CASE UNCHANGED request
    BY <2>1 DEF Redeeming, ByCode
  <2>2. CASE Crash
    BY <2>2 DEF Crash, Redeeming, NoRequest
  <2>3. QED
    BY <2>1, <2>2 DEF Tick, CleanupExpired, vars, Revoke, ChangeAccess, Consent
<1>4. Quiet
  BY <1>1, <1>2, <1>3 DEF Quiet, Tokens
<1>5. QED
  BY <1>4, SpentQuiet

-----------------------------------------------------------------------------
(* Owners *)

LEMMA OwnedInit == Init => Owned
  BY DEF Init, Owned, Owning, Refreshing, At, NoRequest

\* What no step undoes: rows keep what they say, a token that cannot be exchanged never
\* can again, and a revocation leaves its client nothing to exchange.
Settled ==
  /\ \A t \in Tokens :
       /\ rows'[t].client = rows[t].client
       /\ status[t] = "gone" => status'[t] = "gone"
       /\ status[t] # "live" => status'[t] # "live"
       /\ Expired(t) => Expired(t)'
  /\ \A c \in revoked' :
       c \in revoked \/ \A t \in Tokens : rows[t].client = c => status'[t] # "live"

LEMMA StillOwning ==
  ASSUME NEW r \in Slots, Presenting(r), Owning(r), Settled, request'[r] = request[r]
  PROVE  Owning(r)'
<1> DEFINE t == request[r].token
<1>1. CASE ~Refreshing(r)
  <2>1. ~Refreshing(r)' /\ ~At(r, "rotating")'
    BY <1>1 DEF Refreshing, ByCode, At, Presenting
  <2>2. QED
    BY <2>1 DEF Owning
<1>2. CASE Refreshing(r)
  <2>1. t \in Tokens
    BY <1>2 DEF Presenting, Refreshing
  <2>2. /\ rows'[t].client = rows[t].client
        /\ status[t] = "gone" => status'[t] = "gone"
        /\ status[t] # "live" => status'[t] # "live"
        /\ Expired(t) => Expired(t)'
        /\ request[r].client \in revoked' =>
             \/ request[r].client \in revoked
             \/ rows[t].client = request[r].client => status'[t] # "live"
    BY <2>1 DEF Settled
  <2>3. QED
    BY <1>2, <2>2 DEF Owning, Refreshing, ByCode, At
<1>3. QED
  BY <1>1, <1>2

LEMMA OneOwning ==
  ASSUME NEW r \in Slots, Presents, Owned, Settled, Owning(r)',
         \A q \in Slots \ {r} : request'[q] = request[q]
  PROVE  Owned'
  BY StillOwning DEF Presents, Owned

LEMMA IdleOwning ==
  ASSUME NEW r \in Slots, ~Refreshing(r)', ~At(r, "rotating")'
  PROVE  Owning(r)'
  BY DEF Owning

\* Steps that leave rows, statuses, the clock and the revocations alone.
LEMMA SettledSame ==
  ASSUME UNCHANGED <<rows, status, now, revoked>>
  PROVE  Settled
  BY DEF Settled, Expired

LEMMA SettledMint ==
  ASSUME TokensTypeOK, Presents, NEW r \in Slots, Mint(r)
  PROVE  Settled
<1>1. Root(r) \in TokenRow /\ rows' = Append(rows, Root(r)) /\ status' = Append(status, "live")
  BY RootTyped DEF Mint, Root
<1>2. \A t \in Tokens : rows'[t] = rows[t] /\ status'[t] = status[t]
  BY <1>1 DEF TokensTypeOK, Tokens
<1>3. UNCHANGED <<now, revoked>>
  BY DEF Mint
<1>4. QED
  BY <1>2, <1>3 DEF Settled, Expired

LEMMA SettledRotate ==
  ASSUME TokensTypeOK, Presents, NEW r \in Slots, Rotate(r)
  PROVE  Settled
<1> DEFINE t == request[r].token
<1>1. At(r, "rotating") /\ t \in Tokens /\ UNCHANGED <<now, revoked>>
  BY AtRotate DEF Rotate
<1>2. CASE UNCHANGED <<rows, status>>
  BY <1>1, <1>2, SettledSame
<1>3. CASE UNCHANGED rows /\ Remove(ChainOf(t))
  <2>1. \A u \in Tokens : status'[u] = IF u \in ChainOf(t) THEN "gone" ELSE status[u]
    BY <1>3, RemoveTyped DEF TokensTypeOK, Statuses
  <2>2. QED
    BY <1>1, <1>3, <2>1 DEF Settled, Expired
<1>4. CASE Replace(r, t, rows[t].expires) /\ status[t] = "live"
  <2>1. \A u \in Tokens : /\ rows'[u] = rows[u]
                          /\ status'[u] = IF u = t THEN "rotated" ELSE status[u]
    BY <1>1, <1>4, ReplaceTyped
  <2>2. QED
    BY <1>1, <1>4, <2>1 DEF Settled, Expired
<1>5. QED
  BY <1>2, <1>3, <1>4, RotateCases

LEMMA OwnedRotate ==
  ASSUME TokensTypeOK, Presents, Owned, NEW r \in Slots, Rotate(r)
  PROVE  Owned'
<1> DEFINE t == request[r].token
<1>1. At(r, "rotating") /\ t \in Tokens /\ Settled /\ request \in Tables
  BY AtRotate, SettledRotate DEF Rotate, TokensTypeOK, Tables
<1>2. CASE Close(r)
  BY <1>1, <1>2, CloseTyped, IdleOwning, OneOwning DEF Refreshing, At
<1>3. CASE Replace(r, t, rows[t].expires)
  <2>1. request'[r].pc = "answering" /\ \A q \in Slots \ {r} : request'[q] = request[q]
    BY <1>1, <1>3, ReplaceTyped
  <2>2. QED
    BY <1>1, <2>1, IdleOwning, OneOwning DEF Refreshing, At
<1>4. QED
  BY <1>2, <1>3, RotateCases

LEMMA OwnedMint ==
  ASSUME TokensTypeOK, Presents, Owned, NEW r \in Slots, Mint(r)
  PROVE  Owned'
<1> DEFINE n == Len(rows) + 1
           x == [request[r] EXCEPT !.pc = "answering", !.token = n]
<1>1. request[r] \in Request /\ n \in Nat
  BY RootTyped DEF Mint, TokensTypeOK
<1>2. x \in Request /\ x.pc = "answering"
  BY <1>1, AnsweringTyped
<1>3. request'[r] = x /\ \A q \in Slots \ {r} : request'[q] = request[q]
  BY <1>2, WriteTyped DEF Mint, TokensTypeOK, Tables
<1>4. Owning(r)'
  BY <1>2, <1>3, IdleOwning DEF Refreshing, At
<1>5. QED
  BY <1>3, <1>4, SettledMint, OneOwning

\* A token that is live at the look-up and foreign is refused there.
LEMMA OwnedLookup ==
  ASSUME TokensTypeOK, Presents, Owned, NEW r \in Slots, Lookup(r)
  PROVE  Owned'
<1> DEFINE t == request[r].token
<1>1. /\ request \in Tables /\ request[r].pc = "verifying" /\ ~ByCode(r)
      /\ request[r] \in Request /\ t \in Tokens
  BY BusyIsRequest DEF Lookup, TokensTypeOK, Tables, At, Presents, Presenting
<1>2. UNCHANGED <<rows, status, now, revoked>> /\ Settled
  BY SettledSame DEF Lookup
<1>3. CASE Close(r)
  BY <1>1, <1>2, <1>3, CloseTyped, IdleOwning, OneOwning DEF Refreshing, At
<1>4. CASE /\ status[t] = "gone" \/ rows[t].client = request[r].client
           /\ Goto(r, IF status[t] = "live" /\ ~Expired(t) THEN "asking" ELSE "rotating")
  <2> DEFINE pc == IF status[t] = "live" /\ ~Expired(t) THEN "asking" ELSE "rotating"
  <2>0. pc \in Pcs
    BY DEF Pcs
  <2>1. /\ request'[r] = [request[r] EXCEPT !.pc = pc]
        /\ \A q \in Slots \ {r} : request'[q] = request[q]
    BY <1>1, <1>4, <2>0, GotoTyped
  <2>2. request'[r].token = t /\ request'[r].client = request[r].client
        /\ request'[r].pc = pc /\ request'[r].code = request[r].code
    BY <1>1, <2>1 DEF Request
  <2>3. Refreshing(r) /\ Owning(r)
    BY <1>1 DEF Refreshing, Owned
  <2>4. Owning(r)'
    BY <1>2, <1>4, <2>2, <2>3 DEF Owning, Refreshing, At, Expired
  <2>5. QED
    BY <1>2, <2>1, <2>4, OneOwning
<1>5. QED
  BY <1>3, <1>4 DEF Lookup

LEMMA OwnedAsk ==
  ASSUME TokensTypeOK, Presents, Owned, NEW r \in Slots, Ask(r)
  PROVE  Owned'
<1>1. /\ request \in Tables /\ request[r].pc = "asking" /\ request[r] \in Request
      /\ Presenting(r) /\ Owning(r)
  BY BusyIsRequest DEF Ask, TokensTypeOK, Tables, At, Presents, Owned
<1>2. UNCHANGED <<rows, status, now, revoked>> /\ Settled
  BY SettledSame DEF Ask
<1>3. CASE Close(r)
  BY <1>1, <1>2, <1>3, CloseTyped, IdleOwning, OneOwning DEF Refreshing, At
<1>4. CASE ~Close(r)
  <2> DEFINE x == [request[r] EXCEPT !.pc = IF ByCode(r) THEN "minting" ELSE "rotating",
                                     !.passed = TRUE]
  <2>1. /\ x \in Request /\ x.code = request[r].code /\ x.token = request[r].token
        /\ x.client = request[r].client /\ x.passed
        /\ x.pc = IF ByCode(r) THEN "minting" ELSE "rotating"
    BY <1>1 DEF Request, Pcs
  <2>2. request' = [request EXCEPT ![r] = x]
    BY <1>4 DEF Ask
  <2>3. request'[r] = x /\ \A q \in Slots \ {r} : request'[q] = request[q]
    BY <1>1, <2>1, <2>2, WriteTyped
  <2>4. Owning(r)'
    <3>1. CASE ByCode(r)
      <4> HIDE DEF x
      <4>1. request'[r].pc = "minting"
        BY <2>1, <2>3, <3>1
      <4>2. QED
        BY <4>1, IdleOwning DEF Refreshing, At
    <3>2. CASE ~ByCode(r)
      <4> DEFINE t == request[r].token
      <4>1. Refreshing(r) /\ request[r].pc # "verifying"
        BY <1>1, <3>2 DEF Refreshing
      <4>2. /\ status[t] = "gone" \/ rows[t].client = request[r].client
            /\ /\ request[r].client \in revoked
               /\ rows[t].client = request[r].client
               => status[t] # "live"
        BY <1>1, <4>1, Zenon DEF Owning
      <4> HIDE DEF x
      <4>3. /\ request'[r].token = t /\ request'[r].client = request[r].client
            /\ request'[r].passed
        BY <2>1, <2>3
      <4>4. /\ status'[t] = "gone" \/ rows'[t].client = request[r].client
            /\ /\ request[r].client \in revoked'
               /\ rows'[t].client = request[r].client
               => status'[t] # "live"
        BY <1>2, <4>2
      <4>5. QED
        BY <4>3, <4>4, Zenon DEF Owning
    <3>3. QED
      BY <3>1, <3>2
  <2>5. QED
    BY <1>2, <2>3, <2>4, OneOwning
<1>5. QED
  BY <1>3, <1>4

LEMMA OwnedRedeem ==
  ASSUME TokensTypeOK, Presents, Owned, NEW r \in Slots, Redeem(r)
  PROVE  Owned'
<1>1. /\ request \in Tables /\ request[r].pc = "verifying" /\ ByCode(r)
      /\ request[r] \in Request
  BY BusyIsRequest DEF Redeem, TokensTypeOK, Tables, At
<1>2. Settled
  BY SettledSame DEF Redeem
<1>3. CASE Close(r)
  BY <1>1, <1>2, <1>3, CloseTyped, IdleOwning, OneOwning DEF Refreshing, At
<1>4. CASE Goto(r, "asking")
  <2>1. /\ request'[r] = [request[r] EXCEPT !.pc = "asking"]
        /\ \A q \in Slots \ {r} : request'[q] = request[q]
    BY <1>1, <1>4, GotoTyped DEF Pcs
  <2>2. ByCode(r)' /\ request'[r].pc = "asking"
    BY <1>1, <2>1 DEF ByCode, Request
  <2>3. Owning(r)'
    BY <2>2, IdleOwning DEF Refreshing, At
  <2>4. QED
    BY <1>2, <2>1, <2>3, OneOwning
<1>5. QED
  BY <1>3, <1>4 DEF Redeem

LEMMA OwnedAnswer ==
  ASSUME TokensTypeOK, Presents, Owned, NEW r \in Slots, Answer(r)
  PROVE  Owned'
<1>1. request'[r].pc = "idle" /\ \A q \in Slots \ {r} : request'[q] = request[q]
  BY CloseTyped DEF Answer, TokensTypeOK, Tables
<1>2. Settled
  BY SettledSame DEF Answer
<1>3. QED
  BY <1>1, <1>2, IdleOwning, OneOwning DEF Refreshing, At

\* A revoked client is refused where its request begins.
LEMMA OwnedPresent ==
  ASSUME TokensTypeOK, Presents, Owned, NEW r \in Slots, NEW c \in Clients,
         NEW k \in Codes \cup {0}, NEW t \in Nat, Present(r, c, k, t)
  PROVE  Owned'
<1> DEFINE x == [client |-> c, pc |-> "verifying", code |-> k, token |-> t,
                 passed |-> FALSE]
<1>1. x \in Request
  BY DEF Request, Pcs
<1>2. request'[r] = x /\ \A q \in Slots \ {r} : request'[q] = request[q]
  BY <1>1, WriteTyped DEF Present, TokensTypeOK, Tables
<1>3. Settled /\ c \notin revoked'
  BY SettledSame DEF Present
<1>4. Owning(r)'
  BY <1>2, <1>3 DEF Owning, At
<1>5. QED
  BY <1>2, <1>3, <1>4, OneOwning

LEMMA SettledBeside ==
  ASSUME TokensTypeOK,
         \/ Tick \/ CleanupExpired \/ Crash \/ UNCHANGED vars
         \/ \E c \in Clients : Revoke(c)
         \/ \E u \in Users : ChangeAccess(u)
         \/ \E c \in Clients, u \in Users, k \in Codes : Consent(c, u, k)
  PROVE  Settled
<1>1. CASE UNCHANGED <<rows, status, now, revoked>>
  BY <1>1, SettledSame
<1>2. CASE Tick
  <2>1. \A t \in Tokens : rows[t].expires \in Nat
    <3>1. \A t \in Tokens : rows[t] \in TokenRow
      BY DEF TokensTypeOK, Tokens
    <3>2. QED
      BY <3>1 DEF TokenRow
  <2>2. now \in Nat /\ now' = now + 1 /\ UNCHANGED <<rows, status, revoked>>
    BY <1>2 DEF Tick, TokensTypeOK
  <2>3. QED
    BY <2>1, <2>2 DEF Settled, Expired
<1>3. CASE CleanupExpired
  <2>1. \A t \in Tokens : status'[t] \in {"gone", status[t]}
    BY <1>3, RemoveTyped DEF CleanupExpired, TokensTypeOK, Statuses
  <2>2. QED
    BY <1>3, <2>1 DEF CleanupExpired, Settled, Expired
<1>4. ASSUME NEW c \in Clients, Revoke(c)
      PROVE  Settled
  <2>1. \A t \in Tokens :
          status'[t] = IF rows[t].client = c /\ status[t] = "live"
                       THEN "rotated" ELSE status[t]
    BY <1>4 DEF Revoke
  <2>2. revoked' = revoked \cup {c} /\ UNCHANGED <<rows, now>>
    BY <1>4 DEF Revoke
  <2>3. QED
    BY <2>1, <2>2 DEF Settled, Expired
<1>5. QED
  BY <1>1, <1>2, <1>3, <1>4 DEF Crash, vars, ChangeAccess, Consent

LEMMA OwnedBeside ==
  ASSUME TokensTypeOK, Presents, Owned,
         \/ Tick \/ CleanupExpired \/ Crash \/ UNCHANGED vars
         \/ \E c \in Clients : Revoke(c)
         \/ \E u \in Users : ChangeAccess(u)
         \/ \E c \in Clients, u \in Users, k \in Codes : Consent(c, u, k)
  PROVE  Owned'
<1>1. Settled
  BY SettledBeside
<1>2. CASE UNCHANGED request
  BY <1>1, <1>2, StillOwning DEF Presents, Owned
<1>3. CASE Crash
  BY <1>3, IdleOwning DEF Crash, Owned, Refreshing, At, NoRequest
<1>4. QED
  BY <1>2, <1>3 DEF Tick, CleanupExpired, vars, Revoke, ChangeAccess, Consent

-----------------------------------------------------------------------------
(* The invariant *)

LEMMA InvInit == Init => IInv
  BY TypingInit, ChainsInit, SpentInit, OwnedInit DEF IInv

Beside ==
  \/ Tick \/ CleanupExpired \/ Crash \/ UNCHANGED vars
  \/ \E c \in Clients : Revoke(c)
  \/ \E u \in Users : ChangeAccess(u)
  \/ \E c \in Clients, u \in Users, k \in Codes : Consent(c, u, k)

LEMMA NextCases ==
  ASSUME TokensTypeOK, [Next]_vars
  PROVE  \/ \E r \in Slots, c \in Clients, k \in Codes \cup {0}, t \in Nat :
              /\ k \in Codes => code[k] # NoCode
              /\ k \notin Codes => t \in Tokens
              /\ Present(r, c, k, t)
         \/ \E r \in Slots : Handle(r)
         \/ Beside
<1>1. ASSUME NEW r \in Slots, NEW c \in Clients, NEW k \in Codes, PresentCode(r, c, k)
      PROVE  \E h \in Codes \cup {0}, t \in Nat :
               /\ h \in Codes => code[h] # NoCode
               /\ h \notin Codes => t \in Tokens
               /\ Present(r, c, h, t)
  BY <1>1 DEF PresentCode
<1>2. ASSUME NEW r \in Slots, NEW c \in Clients, NEW t \in Tokens, PresentToken(r, c, t)
      PROVE  \E h \in Codes \cup {0}, u \in Nat :
               /\ h \in Codes => code[h] # NoCode
               /\ h \notin Codes => u \in Tokens
               /\ Present(r, c, h, u)
  <2>1. t \in Nat
    BY DEF TokensTypeOK, Tokens
  <2>2. QED
    BY <1>2, <2>1, CodeAssumption DEF PresentToken
<1>3. QED
  BY <1>1, <1>2 DEF Next, Beside

LEMMA InvNext == IInv /\ [Next]_vars => IInv'
<1> SUFFICES ASSUME IInv, [Next]_vars PROVE IInv'
  OBVIOUS
<1> USE DEF IInv
<1>0. TokensTypeOK /\ Presents /\ Rooted /\ Chains /\ Spent /\ Owned
  BY DEF Chains
<1>1. ASSUME NEW r \in Slots, NEW c \in Clients, NEW k \in Codes \cup {0}, NEW t \in Nat,
             k \in Codes => code[k] # NoCode, k \notin Codes => t \in Tokens,
             Present(r, c, k, t)
      PROVE  IInv'
  <2>1. TokensTypeOK' /\ Presents'
    BY <1>0, <1>1, PresentTyped
  <2>2. Chains'
    BY <1>0, <1>1, ChainsSame DEF Present
  <2>3. Spent' /\ Owned'
    BY <1>0, <1>1, SpentPresent, OwnedPresent
  <2>4. QED
    BY <2>1, <2>2, <2>3
<1>2. ASSUME NEW r \in Slots, Redeem(r)
      PROVE  IInv'
  <2>1. Chains'
    BY <1>0, <1>2, ChainsSame DEF Redeem
  <2>2. QED
    BY <1>0, <1>2, <2>1, RedeemTyped, SpentRedeem, OwnedRedeem
<1>3. ASSUME NEW r \in Slots, Ask(r)
      PROVE  IInv'
  <2>1. Chains'
    BY <1>0, <1>3, ChainsSame DEF Ask
  <2>2. QED
    BY <1>0, <1>3, <2>1, AskTyped, SpentAsk, OwnedAsk
<1>4. ASSUME NEW r \in Slots, Mint(r)
      PROVE  IInv'
  BY <1>0, <1>4, MintTyped, ChainsMint, SpentMint, OwnedMint
<1>5. ASSUME NEW r \in Slots, Lookup(r)
      PROVE  IInv'
  <2>1. Chains'
    BY <1>0, <1>5, ChainsSame DEF Lookup
  <2>2. QED
    BY <1>0, <1>5, <2>1, LookupTyped, SpentLookup, OwnedLookup
<1>6. ASSUME NEW r \in Slots, Rotate(r)
      PROVE  IInv'
  BY <1>0, <1>6, RotateTyped, ChainsRotate, SpentRotate, OwnedRotate
<1>7. ASSUME NEW r \in Slots, Answer(r)
      PROVE  IInv'
  <2>1. Chains'
    BY <1>0, <1>7, ChainsSame DEF Answer
  <2>2. QED
    BY <1>0, <1>7, <2>1, AnswerTyped, SpentLookup, OwnedAnswer
<1>8. CASE Beside
  <2>1. TokensTypeOK' /\ Presents' /\ Spent' /\ Owned'
    BY <1>0, <1>8, BesideTyped, SpentBeside, OwnedBeside DEF Beside
  <2>2. Chains'
    <3>1. CASE UNCHANGED <<rows, status, ended>>
      BY <1>0, <3>1, ChainsSame
    <3>2. CASE CleanupExpired \/ \E c \in Clients : Revoke(c)
      BY <1>0, <3>2, ChainsCleanup, ChainsRevoke
    <3>3. QED
      BY <1>8, <3>1, <3>2 DEF Beside, Tick, Crash, vars, ChangeAccess, Consent
  <2>3. QED
    BY <2>1, <2>2
<1>9. QED
  <2> HIDE DEF IInv
  <2>1. TokensTypeOK
    BY <1>0
  <2>2. QED
    BY <1>1, <1>2, <1>3, <1>4, <1>5, <1>6, <1>7, <1>8, <2>1, NextCases DEF Handle

LEMMA Invariant == Spec => []IInv
  BY InvInit, InvNext, PTL DEF Spec

-----------------------------------------------------------------------------
(* Theorems *)

\* Type correctness: rows, requests and histories keep their shape.
THEOREM TypesHold == Spec => []TokensTypeOK
<1>1. IInv => TokensTypeOK
  BY DEF IInv
<1>2. QED
  BY <1>1, Invariant, PTL

\* At most the newest token of a chain can be exchanged, for any number of requests
\* that present its tokens at once.
THEOREM OneUsable == Spec => []OneUsablePerChain
<1>1. IInv => OneUsablePerChain
  BY DEF IInv, Chains
<1>2. QED
  BY <1>1, Invariant, PTL

\* While a chain lives, every token it replaced is stored as rotated, so that a replay
\* of any of them is noticed: neither clean-up, nor revocation, nor a reuse on another
\* chain removes one.
THEOREM ReplaysNoticed == Spec => []ReplayIsNoticed
<1>1. IInv => ReplayIsNoticed
  BY DEF IInv, Chains
<1>2. QED
  BY <1>1, Invariant, PTL

\* A chain that reuse detection ended never has a stored token again.
THEOREM EndedStaysEnded == Spec => []EndedChainStaysEnded
<1>1. IInv => EndedChainStaysEnded
  BY DEF IInv, Chains
<1>2. QED
  BY <1>1, Invariant, PTL

\* A code becomes at most one chain, for any number of requests that redeem it.
THEOREM OneChainPerCode == Spec => []CodeYieldsOneChain
<1>1. IInv => CodeYieldsOneChain
  BY DEF IInv, Spent
<1>2. QED
  BY <1>1, Invariant, PTL

\* A token that a request at rotate stops from being usable belongs to the request's own
\* client; the request has passed the MCP rule, or presents another token of the chain.
LEMMA RotateByOwner ==
  ASSUME IInv, NEW r \in Slots, Rotate(r), NEW t \in Tokens,
         status[t] = "live", status'[t] # "live", ~Expired(t)
  PROVE  /\ At(r, "rotating") /\ request[r].client = rows[t].client
         /\ request[r].token \in ChainOf(t)
         /\ request[r].token = t => request[r].passed
<1> DEFINE u == request[r].token
<1>1. At(r, "rotating") /\ TokensTypeOK /\ Presents /\ Owning(r)
  BY DEF Rotate, IInv, Owned
<1>2. u \in Tokens /\ ~ByCode(r)
  BY <1>1, AtRotate
<1>3. Refreshing(r) /\ request[r].pc # "verifying"
  BY <1>1, <1>2 DEF Refreshing, At
<1>4. status[u] = "gone" \/ rows[u].client = request[r].client
  BY <1>3, <1>1, Zenon DEF Owning
<1>5. u \in ChainOf(t)
  <2>1. CASE UNCHANGED status
    BY <2>1
  <2>2. CASE Remove(ChainOf(u))
    <3>1. t \in ChainOf(u)
      BY <1>1, <2>2, RemoveTyped DEF TokensTypeOK, Statuses
    <3>2. QED
      BY <1>2, <3>1 DEF ChainOf
  <2>3. CASE Replace(r, u, rows[u].expires)
    <3>1. status'[t] = IF t = u THEN "rotated" ELSE status[t]
      BY <1>1, <1>2, <2>3, ReplaceTyped
    <3>2. QED
      BY <3>1 DEF ChainOf
  <2>4. QED
    BY <2>1, <2>2, <2>3, RotateCases
<1>6. rows[u].client = rows[t].client /\ status[u] # "gone"
  BY <1>2, <1>5 DEF IInv, Chains, Kin, ChainOf
<1>7. request[r].client = rows[t].client
  BY <1>4, <1>6
<1>8. u = t => request[r].passed
  BY <1>1, Zenon DEF Owning
<1>9. QED
  BY <1>1, <1>5, <1>7, <1>8

\* No request of another client, and no refresh the MCP rule refused, costs an owner a
\* usable token.
THEOREM OwnersMove == Spec => OnlyOwnerMovesChain
<1> DEFINE A == \A t \in Tokens :
                  status[t] = "live" /\ status'[t] # "live" =>
                    \/ Expired(t)
                    \/ rows[t].client \in revoked'
                    \/ \E r \in Slots :
                         /\ At(r, "rotating") /\ request[r].client = rows[t].client
                         /\ request[r].token \in ChainOf(t)
                         /\ request[r].token = t => request[r].passed
<1>1. ASSUME IInv, [Next]_vars
      PROVE  A
  <2> SUFFICES ASSUME NEW t \in Tokens, status[t] = "live", status'[t] # "live",
                      ~Expired(t), rows[t].client \notin revoked'
               PROVE  \E r \in Slots :
                        /\ At(r, "rotating") /\ request[r].client = rows[t].client
                        /\ request[r].token \in ChainOf(t)
                        /\ request[r].token = t => request[r].passed
    OBVIOUS
  <2>1. TokensTypeOK /\ Presents
    BY <1>1 DEF IInv
  <2>2. ASSUME NEW r \in Slots, Rotate(r)
        PROVE  \E q \in Slots :
                 /\ At(q, "rotating") /\ request[q].client = rows[t].client
                 /\ request[q].token \in ChainOf(t)
                 /\ request[q].token = t => request[q].passed
    BY <1>1, <2>2, RotateByOwner
  <2>3. ASSUME NEW r \in Slots, Mint(r)
        PROVE  FALSE
    <3>1. status' = Append(status, "live") /\ t \in 1..Len(status)
      BY <2>1, <2>3 DEF Mint, TokensTypeOK, Tokens
    <3>2. status'[t] = status[t]
      BY <2>1, <3>1 DEF TokensTypeOK
    <3>3. QED
      BY <3>2
  <2>4. ASSUME UNCHANGED status
        PROVE  FALSE
    BY <2>4
  <2>5. ASSUME CleanupExpired
        PROVE  FALSE
    BY <2>1, <2>5, RemoveTyped DEF CleanupExpired, TokensTypeOK, Statuses
  <2>6. ASSUME NEW c \in Clients, Revoke(c)
        PROVE  FALSE
    BY <2>6 DEF Revoke
  <2>7. QED
    BY <1>1, <2>1, <2>2, <2>3, <2>4, <2>5, <2>6, NextCases
    DEF Handle, Beside, Present, Redeem, Ask, Lookup, Answer,
        Tick, Crash, vars, ChangeAccess, Consent
<1>2. QED
  BY <1>1, Invariant, PTL DEF Spec, OnlyOwnerMovesChain

\* A revoked client's tokens are never exchanged again, not even by a request that was
\* past the client check.
THEOREM RevokedStop == Spec => RevokedChainsDoNotGrow
<1> DEFINE A == \A t \in DOMAIN rows' \ DOMAIN rows :
                  rows'[t].parent # 0 => rows'[t].client \notin revoked
<1>1. ASSUME IInv, [Next]_vars
      PROVE  A
  <2> SUFFICES ASSUME NEW t \in DOMAIN rows' \ DOMAIN rows, rows'[t].parent # 0
               PROVE  rows'[t].client \notin revoked
    OBVIOUS
  <2>1. TokensTypeOK /\ Presents /\ Owned
    BY <1>1 DEF IInv
  <2>2. ASSUME NEW r \in Slots, Rotate(r)
        PROVE  rows'[t].client \notin revoked
    <3> DEFINE u == request[r].token
    <3>1. At(r, "rotating") /\ u \in Tokens /\ ~ByCode(r)
      BY <2>1, <2>2, AtRotate DEF Rotate
    <3>2. Replace(r, u, rows[u].expires) /\ status[u] = "live"
      BY <2>2, RotateCases
    <3>3. /\ Len(rows') = Len(rows) + 1 /\ rows' \in Seq(TokenRow)
          /\ rows'[Len(rows) + 1] = Child(u, rows[u].expires)
      BY <2>1, <3>1, <3>2, ReplaceTyped
    <3>4. t = Len(rows) + 1
      BY <2>1, <3>3 DEF TokensTypeOK
    <3>5. rows'[t].client = rows[u].client
      <4>1. rows[u] \in TokenRow
        BY <2>1, <3>1, AtRotate
      <4>2. QED
        BY <3>3, <3>4, <4>1 DEF Child, TokenRow
    <3>6. Refreshing(r) /\ request[r].pc # "verifying" /\ Owning(r)
      BY <2>1, <3>1 DEF Refreshing, At, Owned
    <3>7. rows[u].client = request[r].client
      BY <3>2, <3>6, Zenon DEF Owning
    <3>8. request[r].client \notin revoked
      BY <3>2, <3>6, <3>7, Zenon DEF Owning
    <3>9. QED
      BY <3>5, <3>7, <3>8
  <2>3. ASSUME NEW r \in Slots, Mint(r)
        PROVE  FALSE
    <3>1. rows' = Append(rows, Root(r)) /\ Root(r) \in TokenRow
      BY <2>1, <2>3, RootTyped DEF Mint, Root
    <3>2. t = Len(rows) + 1 /\ rows'[t] = Root(r)
      BY <2>1, <3>1 DEF TokensTypeOK
    <3>3. QED
      BY <3>2 DEF Root
  <2>4. ASSUME UNCHANGED rows
        PROVE  FALSE
    BY <2>4
  <2>5. QED
    BY <1>1, <2>1, <2>2, <2>3, <2>4, NextCases
    DEF Handle, Beside, Present, Redeem, Ask, Lookup, Answer,
        Tick, CleanupExpired, Revoke, Crash, vars, ChangeAccess, Consent
<1>2. QED
  BY <1>1, Invariant, PTL DEF Spec, RevokedChainsDoNotGrow
=============================================================================

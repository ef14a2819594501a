--------------------------- MODULE TokenCacheProofs ---------------------------
(***************************************************************************)
(* Any number of threads, requests, registries and credentials: a call     *)
(* uses only tokens that fit it, and repeats with a new one.               *)
(***************************************************************************)
EXTENDS TokenCache, TLAPS

\* What may stand in an Authorization header of a token request.
Credential == {Sent(r) : r \in Requests}

Token ==
  [serial : Nat, exp : Nat, dies : Nat, registry : DOMAIN Docker, push : BOOLEAN,
   by : Credential]

\* The locals of a call under way.
LocalsOf ==
  [req : Requests, rejected : Nat \cup {NoToken}, asked : Nat, tries : Nat,
   token : Token \cup {NoToken}]

Places == {"idle", "lookup", "fetch", "store", "operate", "clear"}

\* The token is one r could have been given.
Fits(token, r) ==
  token.registry = r.registry /\ token.push = r.push /\ token.by = Sent(r)

\* An entry fits every request that looks under its key.
CacheFits ==
  \A r \in Requests : cache[Key(r)] # NoToken =>
    cache[Key(r)] \in Token /\ Fits(cache[Key(r)], r)

\* A call was allowed, was rejected in the past if at all, and runs with a token
\* that fits it and is newer than its rejection.
CallFits(l, place, issued) ==
  /\ l \in LocalsOf /\ ~Forbidden(l.req)
  /\ l.rejected # NoToken => l.rejected <= issued
  /\ place \in {"store", "operate"} =>
       /\ l.token \in Token /\ Fits(l.token, l.req)
       /\ l.rejected # NoToken => l.token.serial > l.rejected

TypeOK ==
  /\ now \in Nat /\ serial \in Nat
  /\ DOMAIN cache = {Key(r) : r \in Requests}
  /\ pc \in [Threads -> Places] /\ local \in [Threads -> LocalsOf \cup {NoToken}]

\* The inductive invariant of both theorems.
IInv ==
  /\ TypeOK
  /\ CacheFits
  /\ \A t \in Threads : pc[t] # "idle" => CallFits(local[t], pc[t], serial)

-----------------------------------------------------------------------------

\* What a request resolves to, its key and what fits it depend on the saved
\* login only, which no step changes.
LEMMA Stable ==
  ASSUME saved' = saved
  PROVE  /\ Token' = Token /\ LocalsOf' = LocalsOf
         /\ \A r : Key(r)' = Key(r) /\ Sent(r)' = Sent(r) /\ (Forbidden(r)' <=> Forbidden(r))
         /\ \A x, r : Fits(x, r)' <=> Fits(x, r)
<1>1. \A r : Key(r)' = Key(r) /\ Sent(r)' = Sent(r) /\ (Forbidden(r)' <=> Forbidden(r))
  BY DEF Key, Sent, Resolve, Forbidden
<1>2. Token' = Token
  BY <1>1 DEF Token, Credential
<1>3. LocalsOf' = LocalsOf
  BY <1>2 DEF LocalsOf
<1>4. \A x, r : Fits(x, r)' <=> Fits(x, r)
  BY <1>1 DEF Fits
<1>5. QED
  BY <1>1, <1>2, <1>3, <1>4

\* _token_cache_key keeps apart what a token must be kept apart by.
LEMMA SameKey ==
  \A r, q \in Requests : Key(r) = Key(q) =>
    r.push = q.push /\ r.registry = q.registry /\ Sent(r) = Sent(q)
<1> SUFFICES ASSUME NEW r \in Requests, NEW q \in Requests, Key(r) = Key(q)
             PROVE  r.push = q.push /\ r.registry = q.registry /\ Sent(r) = Sent(q)
  OBVIOUS
<1>1. r.push = q.push /\ Resolve(r) = Resolve(q) /\ r.registry = q.registry
  BY DEF Key
<1>2. QED
  BY <1>1 DEF Sent

\* A step of one thread keeps the invariant if it keeps the cache's part and
\* the thread's own.
LEMMA GoInv ==
  ASSUME IInv, saved' = saved, now' = now, serial' \in Nat, serial' >= serial,
         DOMAIN cache' = DOMAIN cache, CacheFits'
  PROVE  \A t \in Threads, place \in Places, l \in LocalsOf \cup {NoToken} :
           /\ Go(t, place, l)
           /\ place # "idle" => CallFits(l, place, serial')
           => IInv'
<1> SUFFICES ASSUME NEW t \in Threads, NEW place \in Places,
                    NEW l \in LocalsOf \cup {NoToken}, Go(t, place, l),
                    place # "idle" => CallFits(l, place, serial')
             PROVE  IInv'
  OBVIOUS
<1>1. pc' \in [Threads -> Places] /\ local' \in [Threads -> LocalsOf \cup {NoToken}]
  BY DEF IInv, TypeOK, Go
<1>2. TypeOK'
  <2>1. LocalsOf' = LocalsOf /\ \A r : Key(r)' = Key(r)
    BY Stable
  <2>2. QED
    BY <1>1, <2>1 DEF IInv, TypeOK
<1>3. ASSUME NEW u \in Threads, pc'[u] # "idle" PROVE CallFits(local'[u], pc'[u], serial')
  <2>1. CASE u = t
    BY <2>1, <1>3 DEF Go, IInv, TypeOK
  <2>2. CASE u # t
    <3>1. pc'[u] = pc[u] /\ local'[u] = local[u]
      BY <2>2 DEF Go, IInv, TypeOK
    <3>2. CallFits(local[u], pc[u], serial)
      BY <1>3, <3>1 DEF IInv
    <3>3. local[u].rejected # NoToken => local[u].rejected \in Nat
      BY <3>2 DEF CallFits, LocalsOf
    <3>4. local[u].rejected # NoToken => local[u].rejected <= serial'
      BY <3>2, <3>3 DEF CallFits, IInv, TypeOK
    <3>5. QED
      BY <3>1, <3>2, <3>4 DEF CallFits
  <2>3. QED
    BY <2>1, <2>2
<1>4. (\A u \in Threads : pc[u] # "idle" => CallFits(local[u], pc[u], serial))'
  <2>1. /\ Token' = Token /\ LocalsOf' = LocalsOf
        /\ \A r : Forbidden(r)' <=> Forbidden(r)
        /\ \A x, r : Fits(x, r)' <=> Fits(x, r)
    BY Stable
  <2>2. QED
    BY <1>3, <2>1 DEF CallFits
<1>5. QED
  BY <1>2, <1>4 DEF IInv

\* An untouched cache stays right.
LEMMA SameCache ==
  ASSUME CacheFits, UNCHANGED <<saved, cache>>
  PROVE  CacheFits'
<1>1. /\ Token' = Token /\ \A r : Key(r)' = Key(r)
      /\ \A x, r : Fits(x, r)' <=> Fits(x, r)
  BY Stable
<1>2. QED
  BY <1>1 DEF CacheFits

\* The steps of a thread that leave the cache and the registry alone.
LEMMA QuietInv ==
  ASSUME IInv, NEW t \in Threads, NEW place \in Places, UNCHANGED <<registry, cache>>
  PROVE  \A l \in LocalsOf \cup {NoToken} :
           /\ Go(t, place, l)
           /\ place # "idle" => CallFits(l, place, serial)
           => IInv'
<1>1. saved' = saved /\ now' = now /\ serial' = serial /\ cache' = cache
  BY DEF registry
<1>2. CacheFits'
  BY <1>1, SameCache DEF IInv
<1>3. serial \in Nat
  BY DEF IInv, TypeOK
<1>4. serial' \in Nat /\ serial' >= serial
  BY <1>1, <1>3
<1>5. QED
  BY <1>1, <1>2, <1>4, GoInv

\* A call that returns or raises.
LEMMA ReturnInv ==
  ASSUME IInv, NEW t \in Threads, Return(t), UNCHANGED <<registry, cache>>
  PROVE  IInv'
BY QuietInv DEF Return, Places

\* get_oci_bearer_token lets only allowed requests in.
LEMMA CallInv ==
  ASSUME IInv, NEW t \in Threads, NEW r \in Requests, Call(t, r)
  PROVE  IInv'
<1> DEFINE l == [Locals(r) EXCEPT !.asked = now]
<1>1. l \in LocalsOf /\ l.req = r /\ l.rejected = NoToken
  BY DEF Locals, LocalsOf, IInv, TypeOK
<1>2. CallFits(l, "lookup", serial)
  BY <1>1 DEF CallFits, Call
<1>3. QED
  BY <1>1, <1>2, QuietInv DEF Call, Places

\* A token handed on is used for the same request.
LEMMA CallWithInv ==
  ASSUME IInv, NEW t \in Threads, NEW u \in Threads, CallWith(t, u)
  PROVE  IInv'
<1> DEFINE l == [Locals(local[u].req) EXCEPT !.token = local[u].token]
<1>1. CallFits(local[u], "operate", serial)
  BY DEF CallWith, IInv
<1>2. /\ l \in LocalsOf /\ l.rejected = NoToken
      /\ l.req = local[u].req /\ l.token = local[u].token
  BY <1>1 DEF CallFits, Locals, LocalsOf
<1>3. CallFits(l, "operate", serial)
  BY <1>1, <1>2 DEF CallFits
<1>4. QED
  BY <1>2, <1>3, QuietInv DEF CallWith, Places

\* A hit fits the request, and only a call that was not rejected gets one.
LEMMA LookupInv ==
  ASSUME IInv, NEW t \in Threads, Lookup(t)
  PROVE  IInv'
<1> DEFINE l == local[t]
<1> DEFINE hit == cache[Key(l.req)]
<1>1. CallFits(l, "lookup", serial)
  BY DEF Lookup, IInv
<1>2. CASE UseCache(t) /\ hit # NoToken /\ hit.exp > l.asked + Leeway
  <2> DEFINE m == [l EXCEPT !.token = hit, !.asked = 0]
  <2>1. l.req \in Requests /\ l \in LocalsOf
    BY <1>1 DEF CallFits, LocalsOf
  <2>2. hit \in Token /\ Fits(hit, l.req)
    BY <1>2, <2>1 DEF IInv, CacheFits
  <2>3. m \in LocalsOf /\ m.req = l.req /\ m.rejected = l.rejected /\ m.token = hit
    BY <2>1, <2>2 DEF LocalsOf
  <2>4. l.rejected = NoToken
    BY <1>2 DEF UseCache
  <2>5. CallFits(m, "operate", serial)
    BY <1>1, <2>2, <2>3, <2>4 DEF CallFits
  <2>6. Go(t, "operate", m)
    BY <1>2 DEF Lookup
  <2>7. QED
    BY <2>3, <2>5, <2>6, QuietInv DEF Lookup, Places
<1>3. CASE ~(UseCache(t) /\ hit # NoToken /\ hit.exp > l.asked + Leeway)
  <2> DEFINE m == [l EXCEPT !.asked = 0]
  <2>1. m \in LocalsOf /\ m.req = l.req /\ m.rejected = l.rejected
    BY <1>1 DEF CallFits, LocalsOf
  <2>2. CallFits(m, "fetch", serial)
    BY <1>1, <2>1 DEF CallFits
  <2>3. Go(t, "fetch", m)
    BY <1>3 DEF Lookup
  <2>4. QED
    BY <2>1, <2>2, <2>3, QuietInv DEF Lookup, Places
<1>4. QED
  BY <1>2, <1>3

\* A token issued now fits the request that asked for it, and is newer than
\* any rejection so far.
LEMMA FetchOkInv ==
  ASSUME IInv, NEW t \in Threads, FetchOk(t)
  PROVE  IInv'
<1> USE TokenAssumption
<1> DEFINE l == local[t]
<1>1. CallFits(l, "fetch", serial) /\ l \in LocalsOf
  BY DEF FetchOk, IInv, CallFits
<1>2. PICK exp \in {0, now + Lifetime} :
        Go(t, "store", [l EXCEPT !.token = Issued(l.req, exp), !.tries = 0])
  BY DEF FetchOk
<1> DEFINE m == [l EXCEPT !.token = Issued(l.req, exp), !.tries = 0]
<1>3. l.req \in Requests /\ l.req.registry \in DOMAIN Docker /\ l.req.push \in BOOLEAN
  BY <1>1 DEF LocalsOf, Request
<1>4. serial \in Nat /\ now \in Nat /\ Lifetime \in Nat /\ exp \in Nat
  BY <1>2 DEF IInv, TypeOK
<1>5. /\ Issued(l.req, exp) \in Token /\ Fits(Issued(l.req, exp), l.req)
      /\ Issued(l.req, exp).serial = serial + 1
  BY <1>3, <1>4 DEF Issued, Token, Credential, Fits
<1>6. /\ m \in LocalsOf /\ m.req = l.req /\ m.rejected = l.rejected
      /\ m.token = Issued(l.req, exp)
  BY <1>1, <1>5 DEF LocalsOf
<1>7. l.rejected # NoToken => l.rejected \in Nat /\ l.rejected <= serial
  BY <1>1 DEF CallFits, LocalsOf
<1>8. serial' = serial + 1 /\ saved' = saved /\ now' = now /\ cache' = cache
  BY DEF FetchOk
<1>9. CallFits(m, "store", serial')
  BY <1>1, <1>4, <1>5, <1>6, <1>7, <1>8 DEF CallFits
<1>10. CacheFits'
  BY <1>8, SameCache DEF IInv
<1>11. serial' \in Nat /\ serial' >= serial
  BY <1>4, <1>8
<1>12. QED
  BY <1>2, <1>6, <1>8, <1>9, <1>10, <1>11, GoInv DEF Places

\* A failed attempt of request_with_retry.
LEMMA FetchTransientInv ==
  ASSUME IInv, NEW t \in Threads, FetchTransient(t)
  PROVE  IInv'
<1> DEFINE l == local[t]
<1> DEFINE m == [l EXCEPT !.tries = @ + 1]
<1>1. CallFits(l, "fetch", serial)
  BY DEF FetchTransient, IInv
<1>2. m \in LocalsOf /\ m.req = l.req /\ m.rejected = l.rejected
  BY <1>1 DEF CallFits, LocalsOf
<1>3. CallFits(m, "fetch", serial)
  BY <1>1, <1>2 DEF CallFits
<1>4. CASE Go(t, "fetch", m)
  BY <1>2, <1>3, <1>4, QuietInv DEF FetchTransient, Places
<1>5. CASE Return(t)
  BY <1>5, ReturnInv DEF FetchTransient
<1>6. QED
  BY <1>4, <1>5 DEF FetchTransient

\* What is stored under a key fits every request with that key.
LEMMA StoreInv ==
  ASSUME IInv, NEW t \in Threads, Store(t)
  PROVE  IInv'
<1> DEFINE l == local[t]
<1>1. CallFits(l, "store", serial) /\ l \in LocalsOf /\ l.req \in Requests
  BY DEF Store, IInv, CallFits, LocalsOf
<1>2. l.token \in Token /\ Fits(l.token, l.req)
  BY <1>1 DEF CallFits
<1>3. saved' = saved /\ now' = now /\ serial' = serial
  BY DEF Store, registry
<1>4. /\ Token' = Token /\ \A r : Key(r)' = Key(r)
      /\ \A x, r : Fits(x, r)' <=> Fits(x, r)
  BY <1>3, Stable
<1>5. DOMAIN cache' = DOMAIN cache
  BY DEF Store
<1>6. ASSUME NEW r \in Requests, cache'[Key(r)] # NoToken
      PROVE  cache'[Key(r)] \in Token /\ Fits(cache'[Key(r)], r)
  <2>1. Key(r) \in DOMAIN cache
    BY DEF IInv, TypeOK
  <2>2. CASE cache'[Key(r)] = cache[Key(r)]
    BY <1>6, <2>2 DEF IInv, CacheFits
  <2>3. CASE cache'[Key(r)] # cache[Key(r)]
    <3>1. Key(r) = Key(l.req) /\ cache'[Key(r)] = l.token
      BY <2>1, <2>3 DEF Store
    <3>2. r.push = l.req.push /\ r.registry = l.req.registry /\ Sent(r) = Sent(l.req)
      BY <1>1, <3>1, SameKey
    <3>3. QED
      BY <1>2, <3>1, <3>2 DEF Fits
  <2>4. QED
    BY <2>2, <2>3
<1>7. CacheFits'
  BY <1>4, <1>6 DEF CacheFits
<1>8. CallFits(l, "operate", serial')
  BY <1>1, <1>3 DEF CallFits
<1>9. serial' \in Nat /\ serial' >= serial
  BY <1>3 DEF IInv, TypeOK
<1>10. Go(t, "operate", l)
  BY DEF Store
<1>11. QED
  BY <1>1, <1>3, <1>5, <1>7, <1>8, <1>9, <1>10, GoInv DEF Places

\* The rejection is of a token issued before it.
LEMMA UnauthorizedInv ==
  ASSUME IInv, NEW t \in Threads, Unauthorized(t)
  PROVE  IInv'
<1> DEFINE l == local[t]
<1> DEFINE m == [l EXCEPT !.rejected = serial, !.token = NoToken]
<1>1. CallFits(l, "operate", serial) /\ serial \in Nat
  BY DEF Unauthorized, IInv, TypeOK
<1>2. m \in LocalsOf /\ m.req = l.req /\ m.rejected = serial
  BY <1>1 DEF CallFits, LocalsOf
<1>3. CallFits(m, "clear", serial)
  BY <1>1, <1>2 DEF CallFits
<1>4. CASE Go(t, "clear", m)
  BY <1>2, <1>3, <1>4, QuietInv DEF Unauthorized, Places
<1>5. CASE Return(t)
  BY <1>5, ReturnInv DEF Unauthorized
<1>6. QED
  BY <1>4, <1>5 DEF Unauthorized

\* clear_oci_token_cache leaves nothing that could be wrong.
LEMMA ClearInv ==
  ASSUME IInv, NEW t \in Threads, Clear(t)
  PROVE  IInv'
<1> DEFINE l == local[t]
<1> DEFINE m == [l EXCEPT !.asked = now]
<1>1. CallFits(l, "clear", serial) /\ serial \in Nat /\ now \in Nat
  BY DEF Clear, IInv, TypeOK
<1>2. m \in LocalsOf /\ m.req = l.req /\ m.rejected = l.rejected
  BY <1>1 DEF CallFits, LocalsOf
<1>3. saved' = saved /\ now' = now /\ serial' = serial
  BY DEF Clear, registry
<1>4. DOMAIN cache' = DOMAIN cache /\ \A k \in DOMAIN cache : cache'[k] = NoToken
  BY DEF Clear
<1>5. CacheFits'
  <2>1. \A r : Key(r)' = Key(r)
    BY <1>3, Stable
  <2>2. \A r \in Requests : cache'[Key(r)] = NoToken
    BY <1>4 DEF IInv, TypeOK
  <2>3. QED
    BY <2>1, <2>2 DEF CacheFits
<1>6. CallFits(m, "lookup", serial')
  BY <1>1, <1>2, <1>3 DEF CallFits
<1>7. serial' \in Nat /\ serial' >= serial /\ Go(t, "lookup", m)
  BY <1>1, <1>3 DEF Clear
<1>8. QED
  BY <1>2, <1>3, <1>4, <1>5, <1>6, <1>7, GoInv DEF Places

\* The clock and the registry's restarts touch nothing a call relies on.
LEMMA WorldInv ==
  ASSUME IInv, UNCHANGED <<serial, saved, cache, pc, local>>, now' \in Nat
  PROVE  IInv'
<1>1. /\ Token' = Token /\ LocalsOf' = LocalsOf
      /\ \A r : Key(r)' = Key(r) /\ (Forbidden(r)' <=> Forbidden(r))
      /\ \A x, r : Fits(x, r)' <=> Fits(x, r)
  BY Stable
<1>2. TypeOK'
  BY <1>1 DEF IInv, TypeOK
<1>3. CacheFits'
  BY SameCache DEF IInv
<1>4. (\A u \in Threads : pc[u] # "idle" => CallFits(local[u], pc[u], serial))'
  BY <1>1 DEF IInv, CallFits
<1>5. QED
  BY <1>2, <1>3, <1>4 DEF IInv

\* It holds with an empty cache and no calls.
LEMMA InitInv == Init => IInv
<1> SUFFICES ASSUME Init PROVE IInv
  OBVIOUS
<1>1. TypeOK
  BY DEF Init, TypeOK, Places
<1>2. CacheFits
  BY DEF Init, CacheFits
<1>3. \A t \in Threads : pc[t] = "idle"
  BY DEF Init
<1>4. QED
  BY <1>1, <1>2, <1>3 DEF IInv

\* Every step keeps it, one case per action.
LEMMA StepInv == IInv /\ [Next]_vars => IInv'
<1> SUFFICES ASSUME IInv, [Next]_vars PROVE IInv'
  OBVIOUS
<1>1. CASE Tick
  BY <1>1, WorldInv DEF Tick, IInv, TypeOK
<1>2. CASE Restart
  BY <1>2, WorldInv DEF Restart, IInv, TypeOK
<1>3. ASSUME NEW t \in Threads, NEW r \in Requests, Call(t, r) PROVE IInv'
  BY <1>3, CallInv
<1>4. ASSUME NEW t \in Threads, NEW u \in Threads, CallWith(t, u) PROVE IInv'
  BY <1>4, CallWithInv
<1>5. ASSUME NEW t \in Threads, Step(t) PROVE IInv'
  <2>1. CASE FetchRefused(t)
    BY <2>1, ReturnInv DEF FetchRefused
  <2>2. CASE Operate(t)
    BY <2>2, ReturnInv DEF Operate
  <2>3. QED
    BY <1>5, <2>1, <2>2, LookupInv, FetchOkInv, FetchTransientInv, StoreInv,
       UnauthorizedInv, ClearInv DEF Step
<1>6. CASE UNCHANGED vars
  BY <1>6, WorldInv DEF vars, registry, IInv, TypeOK
<1>7. QED
  BY <1>1, <1>2, <1>3, <1>4, <1>5, <1>6 DEF Next

\* So it always holds.
LEMMA Invariant == Spec => []IInv
BY InitInv, StepInv, PTL DEF Spec

-----------------------------------------------------------------------------

(***************************************************************************)
(* However many threads share the cache, and whatever registries and       *)
(* credentials they name, a call of get_oci_bearer_token never hands out a *)
(* token of another registry, access or credential, and the saved login    *)
(* goes to the default registry only.                                      *)
(***************************************************************************)
THEOREM TokensFit == Spec => []TokenFits
<1>1. IInv => TokenFits
  <2> SUFFICES ASSUME IInv, NEW t \in Threads, pc[t] \in {"store", "operate"}
               PROVE  LET r == local[t].req  token == local[t].token
                      IN /\ token.registry = r.registry /\ token.push = r.push
                         /\ token.by = Sent(r)
                         /\ r.token = NoCredential /\ r.registry # Default =>
                              token.by = Docker[r.registry]
    BY DEF TokenFits
  <2>1. ~Forbidden(local[t].req) /\ Fits(local[t].token, local[t].req)
    BY DEF IInv, CallFits
  <2>2. QED
    BY <2>1 DEF Fits, Forbidden, Sent, Resolve
<1>2. QED
  BY <1>1, Invariant, PTL

(***************************************************************************)
(* However the threads interleave, what call_with_oci_token_refresh        *)
(* repeats an operation with was issued after the 401.                     *)
(***************************************************************************)
THEOREM RetriesAreFresh == Spec => []RetryIsFresh
<1>1. IInv => RetryIsFresh
  BY DEF IInv, CallFits, RetryIsFresh
<1>2. QED
  BY <1>1, Invariant, PTL
=============================================================================

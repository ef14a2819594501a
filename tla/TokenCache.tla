------------------------------ MODULE TokenCache ------------------------------
(***************************************************************************)
(* The bearer tokens of registry operations: get_oci_bearer_token with its *)
(* process-wide cache, and call_with_oci_token_refresh around it           *)
(* (hippius_hub/auth.py), by threads that share the cache.  Looking a      *)
(* token up, fetching it and storing it are separate steps; a 401 clears   *)
(* the whole cache and repeats the operation once, with a new token.       *)
(*                                                                         *)
(* The registry (external) accepts a token until it expires, or until a    *)
(* restart makes every token issued so far void.                           *)
(***************************************************************************)
EXTENDS Naturals

CONSTANTS
  Threads,
  Requests,     \* what is asked for: see Request
  Default,      \* the default registry
  Logins,       \* the credentials `login` may have saved
  Docker,       \* the docker config: registry -> credential or NoCredential
  NoCredential,
  NoToken,
  Lifetime,     \* of a token
  Leeway,       \* _OCI_TOKEN_LEEWAY_SECONDS
  Attempts,     \* of request_with_retry
  MaxTime,      \* bound: the clock
  MaxRestarts,  \* bound: restarts of the registry
  MaxCalls      \* bound: calls

\* token is the caller's argument: NoCredential (None or True) or a value of its
\* own, False (anonymous) included.
Request == [registry : DOMAIN Docker, push : BOOLEAN, token : {r.token : r \in Requests}]

ASSUME TokenAssumption ==
  /\ Requests \subseteq Request /\ Default \in DOMAIN Docker
  /\ {Lifetime, Leeway, MaxTime, MaxRestarts, MaxCalls} \subseteq Nat
  /\ Attempts \in Nat \ {0} /\ NoToken \notin Nat

VARIABLES
  now, serial,  \* the time; tokens issued so far
  void,         \* tokens up to this serial are void
  restarts,
  saved,        \* the credential of `login`, or NoCredential
  cache,        \* _OCI_TOKEN_CACHE, NoToken where there is no entry
  pc,           \* "idle", "lookup", "fetch", "store", "operate" or "clear"
  local,        \* the locals of a thread's call: see Locals
  calls         \* calls made so far

registry == <<now, serial, void, restarts, saved>>
vars == <<registry, cache, pc, local, calls>>

(***************************************************************************)
(* A call's arguments; the serial at which the registry rejected its first *)
(* token; the time at which it looked into the cache; the attempts of its  *)
(* fetch; the token it got.                                                *)
(***************************************************************************)
Locals(r) == [req |-> r, rejected |-> NoToken, asked |-> 0, tries |-> 0, token |-> NoToken]

-----------------------------------------------------------------------------
(* Credentials and keys.                                                   *)

\* resolve_token_value
Resolve(r) == IF r.token = NoCredential THEN saved ELSE r.token

\* Mutant: tokens of every registry share an entry.
KeyAnyOrigin(r) == <<r.push, Resolve(r)>>

\* _token_cache_key; the credential is hashed, which keeps different ones apart.
Key(r) == <<r.push, Resolve(r), r.registry>>

\* _forbid_offorigin_ambient_credentials
Forbidden(r) == r.token = NoCredential /\ r.registry # Default /\ saved # NoCredential

\* The credential in the Authorization header of the token request: the
\* docker config is asked when the caller has none and did not opt out.
Sent(r) == IF Resolve(r) = NoCredential THEN Docker[r.registry] ELSE Resolve(r)

-----------------------------------------------------------------------------
(* The registry.                                                           *)

\* A token the registry issues; exp is 0 when the token says nothing of it.
Issued(r, exp) ==
  [serial |-> serial + 1, exp |-> exp, dies |-> now + Lifetime,
   registry |-> r.registry, push |-> r.push, by |-> Sent(r)]

Accepted(t) == t.serial > void /\ now < t.dies

Tick ==
  /\ now < MaxTime
  /\ now' = now + 1
  /\ UNCHANGED <<serial, void, restarts, saved, cache, pc, local, calls>>

Restart ==
  /\ restarts < MaxRestarts
  /\ void' = serial /\ restarts' = restarts + 1
  /\ UNCHANGED <<now, serial, saved, cache, pc, local, calls>>

-----------------------------------------------------------------------------

Init ==
  /\ now = 0 /\ serial = 0 /\ void = 0 /\ restarts = 0
  /\ saved \in Logins \cup {NoCredential}
  /\ cache = [k \in {Key(r) : r \in Requests} |-> NoToken]
  /\ pc = [t \in Threads |-> "idle"] /\ local = [t \in Threads |-> NoToken]
  /\ calls = 0

Go(t, place, l) == pc' = [pc EXCEPT ![t] = place] /\ local' = [local EXCEPT ![t] = l]

\* Mutant: the refresh goes through the cache, which was just cleared.
UseCacheAlways(t) == TRUE

\* use_cache: a call that was rejected bypasses the cache.
UseCache(t) == local[t].rejected = NoToken

\* With a result, or with an exception.
Return(t) == Go(t, "idle", NoToken)

\* call_with_oci_token_refresh without a token: the clock is read before the
\* lock.  A forbidden request raises and changes nothing.
Call(t, r) ==
  /\ pc[t] = "idle" /\ calls < MaxCalls /\ ~Forbidden(r)
  /\ calls' = calls + 1
  /\ Go(t, "lookup", [Locals(r) EXCEPT !.asked = now])
  /\ UNCHANGED <<registry, cache>>

\* The same with the token of a thread that is in the middle of its operation
\* (snapshot_download hands its own to the files' downloads).
CallWith(t, u) ==
  /\ pc[t] = "idle" /\ calls < MaxCalls /\ pc[u] = "operate"
  /\ calls' = calls + 1
  /\ Go(t, "operate", [Locals(local[u].req) EXCEPT !.token = local[u].token])
  /\ UNCHANGED <<registry, cache>>

\* The lookup, under the lock; what it found is judged by the earlier time.
Lookup(t) ==
  /\ pc[t] = "lookup"
  /\ LET l == local[t]
         hit == cache[Key(l.req)]
     IN IF UseCache(t) /\ hit # NoToken /\ hit.exp > l.asked + Leeway
        THEN Go(t, "operate", [l EXCEPT !.token = hit, !.asked = 0])
        ELSE Go(t, "fetch", [l EXCEPT !.asked = 0])
  /\ UNCHANGED <<registry, cache, calls>>

FetchOk(t) ==
  /\ pc[t] = "fetch"
  /\ \E exp \in {0, now + Lifetime} :
       Go(t, "store", [local[t] EXCEPT !.token = Issued(local[t].req, exp), !.tries = 0])
  /\ serial' = serial + 1
  /\ UNCHANGED <<now, void, restarts, saved, cache, calls>>

\* Mutant: transient failures are retried without a budget.
FetchTransientAlways(t) ==
  /\ pc[t] = "fetch"
  /\ Go(t, "fetch", [local[t] EXCEPT !.tries = (@ + 1) % Attempts])
  /\ UNCHANGED <<registry, cache, calls>>

\* request_with_retry: a transport error, 408, 429 or 5xx is tried again.
FetchTransient(t) ==
  /\ pc[t] = "fetch"
  /\ IF local[t].tries + 1 < Attempts
     THEN Go(t, "fetch", [local[t] EXCEPT !.tries = @ + 1]) ELSE Return(t)
  /\ UNCHANGED <<registry, cache, calls>>

\* Any other status is the answer.
FetchRefused(t) ==
  /\ pc[t] = "fetch"
  /\ Return(t)
  /\ UNCHANGED <<registry, cache, calls>>

\* The store, under the lock, whatever was cleared since the fetch.
Store(t) ==
  /\ pc[t] = "store"
  /\ cache' = IF UseCache(t) /\ local[t].token.exp # 0
              THEN [cache EXCEPT ![Key(local[t].req)] = local[t].token] ELSE cache
  /\ Go(t, "operate", local[t])
  /\ UNCHANGED <<registry, calls>>

\* The registry takes the token: the operation ends, well or not.
Operate(t) ==
  /\ pc[t] = "operate" /\ Accepted(local[t].token)
  /\ Return(t)
  /\ UNCHANGED <<registry, cache, calls>>

\* A first 401 clears the cache and refreshes, a second one is the answer.
Unauthorized(t) ==
  /\ pc[t] = "operate" /\ ~Accepted(local[t].token)
  /\ IF local[t].rejected = NoToken
     THEN Go(t, "clear", [local[t] EXCEPT !.rejected = serial, !.token = NoToken])
     ELSE Return(t)
  /\ UNCHANGED <<registry, cache, calls>>

\* clear_oci_token_cache, and get_oci_bearer_token again with use_cache=False
\* (a request that was not forbidden is not now).
Clear(t) ==
  /\ pc[t] = "clear"
  /\ cache' = [k \in DOMAIN cache |-> NoToken]
  /\ Go(t, "lookup", [local[t] EXCEPT !.asked = now])
  /\ UNCHANGED <<registry, calls>>

Step(t) ==
  \/ Lookup(t) \/ FetchOk(t) \/ FetchTransient(t) \/ FetchRefused(t) \/ Store(t)
  \/ Operate(t) \/ Unauthorized(t) \/ Clear(t)

Next ==
  \/ Tick \/ Restart
  \/ \E t \in Threads :
       Step(t) \/ (\E r \in Requests : Call(t, r)) \/ (\E u \in Threads : CallWith(t, u))

\* The threads run, and every request is answered or fails (DEFAULT_HTTP_TIMEOUT).
Spec == Init /\ [][Next]_vars /\ \A t \in Threads : WF_vars(Step(t))

-----------------------------------------------------------------------------
(* Properties.                                                             *)

(***************************************************************************)
(* A call uses only a token of the registry it talks to, for the access it *)
(* asked for, issued on the credential its own arguments name, whatever    *)
(* other threads have cached; and the saved login goes to the default      *)
(* registry only (_token_cache_key, INPUT-1).                              *)
(***************************************************************************)
TokenFits ==
  \A t \in Threads : pc[t] \in {"store", "operate"} =>
    LET r == local[t].req  token == local[t].token
    IN /\ token.registry = r.registry /\ token.push = r.push /\ token.by = Sent(r)
       /\ r.token = NoCredential /\ r.registry # Default => token.by = Docker[r.registry]

(***************************************************************************)
(* The repeated operation runs with a token issued after the rejection,    *)
(* although threads that fetched earlier may have put the rejected one     *)
(* back since the cache was cleared: a second 401 is about that new token  *)
(* (call_with_oci_token_refresh).                                          *)
(***************************************************************************)
RetryIsFresh ==
  \A t \in Threads : pc[t] \in {"store", "operate"} /\ local[t].rejected # NoToken =>
    local[t].token.serial > local[t].rejected

(***************************************************************************)
(* Every call returns: the retries of the fetch and the refresh are        *)
(* bounded together, also when the token service only fails transiently.   *)
(***************************************************************************)
CallsEnd == \A t \in Threads : (pc[t] # "idle") ~> (pc[t] = "idle")
=============================================================================

----------------------------- MODULE BlobSession -----------------------------
(***************************************************************************)
(* One resumable blob upload (src/uploader/blob.rs): upload_blob_async     *)
(* opens a session, sends the file in PATCHes, asks the registry how far   *)
(* it got after a broken one, closes the session with the digest, and      *)
(* starts over with a fresh session when the old one is of no use.         *)
(*                                                                         *)
(* The registry is external.  It keeps a prefix of the file per session,   *)
(* answers 416 to a PATCH that does not start at its end, and may carry    *)
(* out a request long after the client has given up on it.                 *)
(***************************************************************************)
EXTENDS Naturals

CONSTANTS
  MaxSize,      \* bound: the largest blob
  ChunkSize,    \* upload_chunk_size().max(min_chunk)
  MaxRetries    \* UPLOAD_MAX_RETRIES

ASSUME BlobAssumption ==
  /\ MaxSize \in Nat /\ ChunkSize \in Nat \ {0} /\ MaxRetries \in Nat

VARIABLES
  size,         \* the file's size
  supports,     \* does the registry support PATCH?
  expires,      \* may it expire an open session?
  pc,           \* "post", "patch", "status", "close", "mono", "ok", "error"
  retries,      \* upload_blob_async's retries
  offset,       \* chunked_patch_upload's offset
  stall,        \* and its stall
  attempt,      \* close_chunked_upload's attempt
  session,      \* "none", "open" or "gone": the client's session at the registry
  committed,    \* bytes the registry holds in it
  late,         \* PATCHes the client gave up on, as [from, to]
  closing,      \* is there a close the client gave up on?
  landed,       \* does the registry have the blob?
  refused,      \* did the registry refuse a request for good (400, 403)?
  faults        \* transient faults so far, counted up to MaxRetries + 1

client == <<pc, retries, offset, stall, attempt>>
registry == <<session, committed, late, closing, landed>>
vars == <<size, supports, expires, client, registry, refused, faults>>

Ended == pc \in {"ok", "error"}

-----------------------------------------------------------------------------

Fault == faults' = IF faults > MaxRetries THEN faults ELSE faults + 1

\* min(offset + chunk_size, size)
EndOf(off) == IF off + ChunkSize < size THEN off + ChunkSize ELSE size

\* while offset < size
AfterPatch(off) == IF off < size THEN "patch" ELSE "close"

\* Mutant: "0-0" is one byte, as "0-5" is six.
CommittedAsSent(n) == IF n = 0 THEN 1 ELSE n

\* The Range header gives the last byte; 0-0 stands for an empty session, so
\* that a session of one byte reads as empty.
CommittedBytes(n) == IF n = 1 THEN 0 ELSE n

\* A retryable error of the attempt: upload_blob_async tries again with a fresh
\* session, or gives up.  What the old session may still do is left out: a blob it
\* stores late is not what a later attempt's success stands on.
Outer ==
  /\ retries' = retries + 1
  /\ pc' = IF retries' > MaxRetries THEN "error" ELSE "post"
  /\ offset' = 0 /\ stall' = 0 /\ attempt' = 0
  /\ session' = "none" /\ committed' = 0 /\ late' = {} /\ closing' = FALSE
  /\ UNCHANGED <<size, supports, expires, landed, refused>>

Init ==
  /\ size \in 0..MaxSize /\ supports \in BOOLEAN /\ expires \in BOOLEAN
  /\ pc = "post" /\ retries = 0 /\ offset = 0 /\ stall = 0 /\ attempt = 0
  /\ session = "none" /\ committed = 0 /\ late = {} /\ closing = FALSE
  /\ landed = FALSE /\ refused = FALSE /\ faults = 0

PostOk ==
  /\ pc = "post"
  /\ session' = "open"
  /\ pc' = AfterPatch(0)
  /\ UNCHANGED <<size, supports, expires, retries, offset, stall, attempt, committed, late,
                 closing, landed, refused, faults>>

\* The init POST, or reading the file, fails: retryable.
AttemptFails == pc \in {"post", "patch"} /\ Fault /\ Outer

\* 400, 403 and the like are returned as they are.
Refuse ==
  /\ pc \in {"post", "patch", "close", "mono"}
  /\ pc' = "error" /\ refused' = TRUE
  /\ UNCHANGED <<size, supports, expires, retries, offset, stall, attempt, registry, faults>>

-----------------------------------------------------------------------------
(* chunked_patch_upload                                                    *)

PatchOk ==
  /\ pc = "patch" /\ supports /\ session = "open" /\ offset = committed
  /\ offset' = EndOf(offset) /\ committed' = offset' /\ stall' = 0
  /\ pc' = AfterPatch(offset')
  /\ UNCHANGED <<size, supports, expires, retries, attempt, session, late, closing, landed,
                 refused, faults>>

\* 416: the chunk does not start where the registry is.
PatchOutOfOrder ==
  /\ pc = "patch" /\ supports /\ session = "open" /\ offset # committed
  /\ pc' = "status"
  /\ UNCHANGED <<size, supports, expires, retries, offset, stall, attempt, registry,
                 refused, faults>>

\* A transport error, a stall or a retryable status: the client gives up on the
\* PATCH, the registry perhaps not.
PatchBroken ==
  /\ pc = "patch"
  /\ late' = IF supports /\ session = "open"
             THEN late \cup {[from |-> offset, to |-> EndOf(offset)]} ELSE late
  /\ pc' = "status"
  /\ Fault
  /\ UNCHANGED <<size, supports, expires, retries, offset, stall, attempt, session,
                 committed, closing, landed, refused>>

\* 404 is neither 416 nor retryable: it is returned as a permanent error.
PatchGone ==
  /\ pc = "patch" /\ session = "gone"
  /\ pc' = "error"
  /\ UNCHANGED <<size, supports, expires, retries, offset, stall, attempt, registry,
                 refused, faults>>

\* 405 or 501 on the first chunk: one PUT of the whole file instead.
PatchUnsupported ==
  /\ pc = "patch" /\ ~supports /\ session = "open" /\ offset = 0
  /\ pc' = "mono"
  /\ UNCHANGED <<size, supports, expires, retries, offset, stall, attempt, registry,
                 refused, faults>>

\* Mutant: re-sending the same chunk is not counted.
NoProgressUncounted ==
  /\ pc' = "patch"
  /\ UNCHANGED <<size, supports, expires, retries, offset, stall, attempt, registry, refused>>

\* The status shows nothing new: send the chunk again, up to the stall budget.
NoProgress ==
  \/ stall >= MaxRetries /\ Outer
  \/ /\ stall < MaxRetries
     /\ stall' = stall + 1
     /\ pc' = "patch"
     /\ UNCHANGED <<size, supports, expires, retries, offset, attempt, registry, refused>>

\* The registry is further: go on from there.
StatusProgress ==
  /\ pc = "status" /\ session = "open" /\ CommittedBytes(committed) > offset
  /\ offset' = CommittedBytes(committed) /\ stall' = 0
  /\ pc' = AfterPatch(offset')
  /\ UNCHANGED <<size, supports, expires, retries, attempt, registry, refused, faults>>

StatusSame ==
  /\ pc = "status" /\ session = "open" /\ CommittedBytes(committed) <= offset
  /\ NoProgress
  /\ UNCHANGED faults

StatusFails == pc = "status" /\ Fault /\ NoProgress

\* The session is gone: force_retryable.
StatusGone == pc = "status" /\ session = "gone" /\ Outer /\ UNCHANGED faults

-----------------------------------------------------------------------------
(* close_chunked_upload and put_streaming                                  *)

\* The registry stores the blob and drops the session.
Land == landed' = TRUE /\ session' = "gone"

\* The digest holds when every byte is there.
CloseOk ==
  /\ pc = "close" /\ session = "open" /\ committed = size
  /\ Land
  /\ pc' = "ok"
  /\ UNCHANGED <<size, supports, expires, retries, offset, stall, attempt, committed, late,
                 closing, refused, faults>>

\* A retryable failure: close again, up to the budget.
CloseBroken ==
  /\ pc = "close" /\ Fault
  /\ \/ attempt >= MaxRetries /\ Outer
     \/ /\ attempt < MaxRetries
        /\ attempt' = attempt + 1
        /\ closing' = (session = "open")
        /\ UNCHANGED <<size, supports, expires, pc, retries, offset, stall, session,
                       committed, late, landed, refused>>

\* Mutant: a session that is gone was closed by an earlier attempt.
CloseGoneOk ==
  /\ pc = "close" /\ session = "gone"
  /\ pc' = "ok"
  /\ UNCHANGED <<size, supports, expires, retries, offset, stall, attempt, registry,
                 refused, faults>>

\* Mutant: the 404 of a close is permanent, as any 404.
CloseGoneRaw ==
  /\ pc = "close" /\ session = "gone"
  /\ pc' = "error"
  /\ UNCHANGED <<size, supports, expires, retries, offset, stall, attempt, registry,
                 refused, faults>>

\* 404: expired, or closed by an attempt whose reply was lost.
CloseGone == pc = "close" /\ session = "gone" /\ Outer /\ UNCHANGED faults

MonoOk ==
  /\ pc = "mono" /\ session = "open"
  /\ Land
  /\ pc' = "ok"
  /\ UNCHANGED <<size, supports, expires, retries, offset, stall, attempt, committed, late,
                 closing, refused, faults>>

\* put_streaming returns the 404 of an expired session as it is.
MonoGone ==
  /\ pc = "mono" /\ session = "gone"
  /\ pc' = "error"
  /\ UNCHANGED <<size, supports, expires, retries, offset, stall, attempt, registry,
                 refused, faults>>

\* A failure, a stall or a lost reply: the next attempt opens a fresh session.
MonoBroken == pc = "mono" /\ Fault /\ Outer

-----------------------------------------------------------------------------
(* The registry, on its own time                                           *)

\* A late PATCH commits some of its bytes, or is refused.
LatePatch(r) ==
  /\ session = "open"
  /\ \/ /\ r.from = committed
        /\ \E end \in (r.from + 1)..r.to :
             /\ committed' = end
             /\ late' = (late \ {r}) \cup {x \in {[r EXCEPT !.from = end]} : end < r.to}
     \/ r.from # committed /\ late' = late \ {r} /\ UNCHANGED committed
  /\ UNCHANGED <<size, supports, expires, client, session, closing, landed, refused, faults>>

LateClose ==
  /\ closing /\ session = "open"
  /\ Land
  /\ closing' = FALSE
  /\ UNCHANGED <<size, supports, expires, client, committed, late, refused, faults>>

SessionExpires ==
  /\ expires /\ session = "open" /\ ~Ended
  /\ session' = "gone"
  /\ Fault
  /\ UNCHANGED <<size, supports, expires, client, committed, late, closing, landed, refused>>

-----------------------------------------------------------------------------

Upload ==
  \/ PostOk \/ AttemptFails \/ Refuse
  \/ PatchOk \/ PatchOutOfOrder \/ PatchBroken \/ PatchGone \/ PatchUnsupported
  \/ StatusProgress \/ StatusSame \/ StatusFails \/ StatusGone
  \/ CloseOk \/ CloseBroken \/ CloseGone
  \/ MonoOk \/ MonoGone \/ MonoBroken

Registry == (\E r \in late : LatePatch(r)) \/ LateClose \/ SessionExpires

Next == Upload \/ Registry \/ (Ended /\ UNCHANGED vars)

\* The POST and the status GET have a timeout and the bodies are watched, so that
\* these requests end.  The closing PUT has neither: keepalive ends it when the
\* peer is dead, but a live registry may leave it unanswered for ever.
Bounded == Upload /\ pc # "close"

Spec == Init /\ [][Next]_vars /\ WF_vars(Bounded)

-----------------------------------------------------------------------------
(* Properties.                                                             *)

\* The type invariant; the counters stay within their budgets.
TypeOK ==
  /\ size \in Nat /\ supports \in BOOLEAN /\ expires \in BOOLEAN
  /\ pc \in {"post", "patch", "status", "close", "mono", "ok", "error"}
  /\ retries \in 0..(MaxRetries + 1) /\ offset \in Nat
  /\ retries > MaxRetries => pc = "error"
  /\ stall \in 0..MaxRetries /\ attempt \in 0..MaxRetries
  /\ session \in {"none", "open", "gone"} /\ committed \in Nat
  /\ late \subseteq [from : Nat, to : Nat]
  /\ closing \in BOOLEAN /\ landed \in BOOLEAN /\ refused \in BOOLEAN
  /\ faults \in 0..(MaxRetries + 1)

(***************************************************************************)
(* Resuming is safe: the client never believes more bytes to be in the     *)
(* session than the registry holds, whatever was lost, late or read from   *)
(* the ambiguous 0-0, so that no byte is skipped and a close is only sent  *)
(* to a session that has them all (chunked_patch_upload, committed_bytes). *)
(***************************************************************************)
ResumeSafe ==
  session = "open" =>
    /\ offset <= committed /\ committed <= size
    /\ pc = "close" => committed = size

(***************************************************************************)
(* What upload_blob_async reports as uploaded is stored: in particular the *)
(* 404 of a close is not taken for the success of an earlier one.          *)
(***************************************************************************)
Acknowledged == pc = "ok" => landed

(***************************************************************************)
(* The retry budget holds: when the registry refuses nothing for good and  *)
(* keeps its sessions, the upload survives any MaxRetries transient        *)
(* faults, wherever they hit and however many stalls, 416s and 404s they   *)
(* lead to (upload_blob_async).                                            *)
(***************************************************************************)
Survives == pc = "error" /\ ~expires => refused \/ faults > MaxRetries

(***************************************************************************)
(* An upload ends, or waits for ever for the answer to a closing PUT: the  *)
(* stall, attempt and retry budgets leave no loop, and no other request    *)
(* holds it up (upload_blob_async, close_chunked_upload).                  *)
(***************************************************************************)
Ends == <>Ended \/ <>[](pc = "close")
=============================================================================

--------------------------- MODULE RangeDownload ---------------------------
(***************************************************************************)
(* One plain-blob download (src/chunked_downloader/): the blob is cut into *)
(* Range requests that run concurrently, each writing its own region of a  *)
(* pre-allocated file and retrying by itself, while the incremental hasher *)
(* follows behind.  Byte k of the blob is the number k, so that a byte in  *)
(* the wrong place shows; a hole and a corrupted byte have values of their *)
(* own.                                                                    *)
(*                                                                         *)
(* A write is asynchronous: bytes go through a buffer and are on disk only *)
(* after the flush, and a task that gives up may leave one buffered write  *)
(* with the operating system that still lands later.                       *)
(***************************************************************************)
EXTENDS IncrementalHash, FiniteSets

CONSTANTS
  Cases,          \* the downloads to try: size and chunk_size, may the server
                  \* send wrong bytes, may an abandoned write land late?
  MaxInflight,    \* MAX_INFLIGHT_CHUNKS: this download's window
  Permits,        \* the permits of global_range_gate
  MaxRetries      \* MAX_RETRIES of one piece

ASSUME RangeAssumption ==
  /\ Cases \subseteq [size : Nat, chunk : Nat, corrupting : BOOLEAN, straggling : BOOLEAN]
  /\ MaxInflight \in Nat \ {0} /\ Permits \in Nat \ {0} /\ MaxRetries \in Nat

VARIABLES
  verify,     \* verify_hash
  case,       \* the case
  phase,      \* "size", "prepare", "fanout", "digest", "done" or "failed"
  next,       \* the next piece to spawn
  task,       \* per piece, its task
  others,     \* permits held by other downloads of the process
  stray,      \* abandoned writes still to land: [at, bytes]
  result      \* the digest returned

rangeVars == <<verify, case, phase, next, task, others, stray, result>>
vars == <<total, disk, hashVars, rangeVars>>

Hole == -1
Wrong == -2
NoDigest == <<Wrong>>
Blob(n) == [k \in 1..n |-> k - 1]

-----------------------------------------------------------------------------
(* plan.rs.                                                                *)

NumChunks(n) == IF n = 0 \/ case.chunk = 0 THEN 0 ELSE (n + case.chunk - 1) \div case.chunk

\* The inclusive bounds of piece i.
First(i) == i * case.chunk
Last(i) == IF First(i) + case.chunk <= total THEN First(i) + case.chunk - 1 ELSE total - 1
Expected(i) == Last(i) - First(i) + 1

Pieces == 0..(NumChunks(total) - 1)

\* Mutant: any 206 is written.
AcceptableAny(i, status, from) == TRUE

\* require_acceptable_status and require_content_range_matches: a 206 for the
\* range asked for, or a 200 when that range is the whole blob.
Acceptable(i, status, from) ==
  \/ status = 206 /\ from = First(i)
  \/ status = 200 /\ First(i) = 0 /\ Last(i) = total - 1

-----------------------------------------------------------------------------
(* Tasks.  `at` is where the body's next byte comes from, `left` how many  *)
(* bytes the body still has, `got` how many were taken, `buf` those not    *)
(* yet on disk.                                                            *)

Idle == [st |-> "idle", at |-> 0, left |-> 0, got |-> 0, buf |-> <<>>, retries |-> 0]

InState(s) == {i \in Pieces : task[i].st = s}
Live == InState("gate") \cup InState("send") \cup InState("body") \cup InState("backoff")
Holding == Live \ InState("gate")

Byte(k) == {k} \cup IF case.corrupting THEN {Wrong} ELSE {}

Put(file, at, bytes) ==
  [k \in DOMAIN file |-> IF k \in (at + 1)..(at + Len(bytes)) THEN bytes[k - at] ELSE file[k]]

\* What a dropped buffer may leave behind: a write handed to the system.
Abandoned(i) ==
  {{}} \cup (IF case.straggling /\ task[i].buf # <<>>
             THEN {{[at |-> First(i) + task[i].got - Len(task[i].buf), bytes |-> task[i].buf]}} ELSE {})

\* spawn_chunk: the task first waits for a permit of the global gate.
Spawned(i) == [Idle EXCEPT !.st = "gate"]

Acquire(i) ==
  /\ task[i].st = "gate"
  /\ Cardinality(Holding) + others < Permits
  /\ task' = [task EXCEPT ![i].st = "send"]
  /\ UNCHANGED <<total, disk, hashVars, verify, case, phase, next, others, stray, result>>

\* Mutant: the retries are counted one too many.
RetryOrFailSooner(i, t) ==
  [t EXCEPT !.st = IF t.retries + 1 >= MaxRetries THEN "error" ELSE "backoff", !.retries = @ + 1]

\* download_chunk_with_retry after a retryable error of an attempt.
RetryOrFail(i, t) ==
  [t EXCEPT !.st = IF t.retries + 1 > MaxRetries THEN "error" ELSE "backoff", !.retries = @ + 1]

\* A retryable failure: transport, stall, 408, 429, 5xx.  Whatever was buffered
\* is dropped, or lands late.
AttemptFails(i) ==
  /\ task[i].st \in {"send", "body"}
  /\ task' = [task EXCEPT ![i] = RetryOrFail(i, [@ EXCEPT !.at = 0, !.left = 0, !.got = 0, !.buf = <<>>])]
  /\ \E w \in Abandoned(i) : stray' = stray \cup w
  /\ UNCHANGED <<total, disk, hashVars, verify, case, phase, next, others, result>>

\* The answer's head: a body of n bytes that starts at `from`.  A 206 for
\* another range is retried, a 200 that ignores the range is permanent.
Answer(i, status, from, n) ==
  /\ task[i].st = "send"
  /\ task' = [task EXCEPT ![i] =
       IF Acceptable(i, status, from) THEN [@ EXCEPT !.st = "body", !.at = from, !.left = n]
       ELSE IF status = 206 THEN RetryOrFail(i, @) ELSE [@ EXCEPT !.st = "refused"]]
  /\ UNCHANGED <<total, disk, hashVars, verify, case, phase, next, others, stray, result>>

\* Any other 4xx.
Refused(i) ==
  /\ task[i].st = "send"
  /\ task' = [task EXCEPT ![i].st = "refused"]
  /\ UNCHANGED <<total, disk, hashVars, verify, case, phase, next, others, stray, result>>

Backoff(i) ==
  /\ task[i].st = "backoff"
  /\ task' = [task EXCEPT ![i].st = "send"]
  /\ UNCHANGED <<total, disk, hashVars, verify, case, phase, next, others, stray, result>>

\* Is the next byte of the body still owed to the range?
Owed(i) == task[i].left > 0 /\ task[i].got < Expected(i)

\* One byte of the body, into the BufWriter.
Take(i) ==
  /\ task[i].st = "body" /\ Owed(i)
  /\ \E b \in Byte(task[i].at) :
       task' = [task EXCEPT ![i].at = @ + 1, ![i].left = @ - 1, ![i].got = @ + 1, ![i].buf = Append(@, b)]
  /\ UNCHANGED <<total, disk, hashVars, verify, case, phase, next, others, stray, result>>

\* A full buffer reaches the file before the flush.
Spill(i) ==
  /\ task[i].st = "body" /\ task[i].buf # <<>>
  /\ disk' = Put(disk, First(i) + task[i].got - Len(task[i].buf), task[i].buf)
  /\ task' = [task EXCEPT ![i].buf = <<>>]
  /\ UNCHANGED <<total, hashVars, verify, case, phase, next, others, stray, result>>

\* Mutant: the task returns without the flush, which then happens on drop.
FlushLater(i) ==
  /\ UNCHANGED disk
  /\ stray' = stray \cup {[at |-> First(i) + task[i].got - Len(task[i].buf), bytes |-> task[i].buf]}

\* buf_writer.flush().await
Flush(i) ==
  /\ disk' = Put(disk, First(i) + task[i].got - Len(task[i].buf), task[i].buf)
  /\ UNCHANGED stray

\* Neither more nor less than the range came.
Whole(i) == task[i].left = 0 /\ task[i].got = Expected(i)

\* The body ended, or ran past the range: flush, then the length checks.
BodyEnds(i) ==
  /\ task[i].st = "body" /\ ~Owed(i)
  /\ Flush(i)
  /\ task' = [task EXCEPT ![i] =
       LET t == [@ EXCEPT !.at = 0, !.left = 0, !.got = 0, !.buf = <<>>]
       IN IF Whole(i) THEN [t EXCEPT !.st = "ok"] ELSE RetryOrFail(i, t)]
  /\ UNCHANGED <<total, hashVars, verify, case, phase, next, others, result>>

-----------------------------------------------------------------------------
(* download and run_chunk_fanout.                                          *)

\* The size is known from the manifest, or a HEAD tells it.
Sized ==
  /\ phase = "size"
  /\ phase' = IF total = 0 THEN "done" ELSE IF case.chunk = 0 THEN "failed" ELSE "prepare"
  /\ result' = IF total = 0 THEN <<>> ELSE result
  /\ UNCHANGED <<total, disk, hashVars, verify, case, next, task, others, stray>>

\* A HEAD without Content-Length, or a destination that cannot be created.
StartFails ==
  /\ phase \in {"size", "prepare"}
  /\ phase' = "failed"
  /\ UNCHANGED <<total, disk, hashVars, verify, case, next, task, others, stray, result>>

\* prepare_destination, the hasher, and the first window of tasks.
Prepare ==
  /\ phase = "prepare"
  /\ disk' = [k \in 1..total |-> Hole]
  /\ SpawnHasher(verify)
  /\ phase' = "fanout"
  /\ next' = IF NumChunks(total) < MaxInflight THEN NumChunks(total) ELSE MaxInflight
  /\ task' = [i \in Pieces |-> IF i < next' THEN Spawned(i) ELSE Idle]
  /\ UNCHANGED <<total, verify, case, others, stray, result>>

\* A finished piece is joined: its extent goes to the hasher, and the next piece
\* takes its place in the window.
Join(i) ==
  /\ phase = "fanout" /\ task[i].st = "ok"
  /\ Send(<<[at |-> First(i), size |-> Expected(i)]>>)
  /\ next' = IF next < NumChunks(total) THEN next + 1 ELSE next
  /\ task' = [j \in Pieces |-> IF j = i THEN [task[i] EXCEPT !.st = "joined"]
                               ELSE IF j = next THEN Spawned(j) ELSE task[j]]
  /\ UNCHANGED <<total, disk, sending, pending, watermark, folded, hasher,
                 verify, case, phase, others, stray, result>>

\* Mutant: a second sender outlives the fan-out.
DropSenderNever == UNCHANGED sending

\* drop(hash_tx), or the stack frame that owns it is gone.
DropSender == sending' = FALSE

\* A failed piece ends the download: dropping the JoinSet aborts the others,
\* and the sender goes with the stack frame.
JoinFails(i) ==
  /\ phase = "fanout" /\ task[i].st \in {"error", "refused"}
  /\ phase' = "failed"
  /\ DropSender
  /\ \E left \in SUBSET UNION UNION {Abandoned(j) : j \in Live} : stray' = stray \cup left
  /\ task' = [j \in Pieces |-> IF j \in Live THEN [Idle EXCEPT !.st = "aborted"] ELSE task[j]]
  /\ UNCHANGED <<total, disk, signals, pending, watermark, folded, hasher,
                 verify, case, next, others, result>>

\* Every piece is in: drop(hash_tx).
FanoutEnds ==
  /\ phase = "fanout" /\ InState("joined") = Pieces
  /\ DropSender
  /\ phase' = IF verify THEN "digest" ELSE "done"
  /\ UNCHANGED <<total, disk, signals, pending, watermark, folded, hasher,
                 verify, case, next, task, others, stray, result>>

\* resolve_verified_digest: the hasher's digest, or a read of the whole file.
Resolve ==
  /\ phase = "digest" /\ ~Hashing
  /\ result' = IF hasher = "digest" THEN folded ELSE disk
  /\ phase' = "done"
  /\ UNCHANGED <<total, disk, hashVars, verify, case, next, task, others, stray>>

RereadFails ==
  /\ phase = "digest" /\ hasher = "none"
  /\ phase' = "failed"
  /\ UNCHANGED <<total, disk, hashVars, verify, case, next, task, others, stray, result>>

-----------------------------------------------------------------------------
(* The surroundings: other downloads at the gate, and late writes.         *)

OthersTake ==
  /\ phase = "fanout" /\ others + Cardinality(Holding) < Permits
  /\ others' = others + 1
  /\ UNCHANGED <<total, disk, hashVars, verify, case, phase, next, task, stray, result>>

OthersReturn ==
  /\ others > 0
  /\ others' = others - 1
  /\ UNCHANGED <<total, disk, hashVars, verify, case, phase, next, task, stray, result>>

Land(w) ==
  /\ w \in stray
  /\ disk' = Put(disk, w.at, w.bytes)
  /\ stray' = stray \ {w}
  /\ UNCHANGED <<total, hashVars, verify, case, phase, next, task, others, result>>

-----------------------------------------------------------------------------

Init ==
  /\ case \in Cases /\ total = case.size /\ verify \in BOOLEAN
  /\ disk = <<>>
  /\ HashInit
  /\ phase = "size" /\ next = 0
  /\ task = [i \in Pieces |-> Idle]
  /\ others = 0 /\ stray = {}
  /\ result = NoDigest

TaskStep(i) ==
  \/ AttemptFails(i) \/ Refused(i) \/ Backoff(i) \/ Take(i) \/ Spill(i) \/ BodyEnds(i)
  \/ \E j \in Pieces, n \in 0..(Expected(i) + 1) : Answer(i, 206, First(j), n)
  \/ \E n \in 0..(Expected(i) + 1) : Answer(i, 200, 0, n)

MainStep ==
  \/ Sized \/ StartFails \/ Prepare \/ FanoutEnds \/ Resolve \/ RereadFails
  \/ \E i \in Pieces : Join(i) \/ JoinFails(i)

Over == phase \in {"done", "failed"} /\ ~Hashing /\ UNCHANGED vars

Working == phase = "fanout" /\ \E i \in Pieces : TaskStep(i)
Admission == phase = "fanout" /\ \E i \in Pieces : Acquire(i)
Hashes == HashStep /\ UNCHANGED rangeVars

Next ==
  \/ MainStep \/ Working \/ Admission \/ Hashes
  \/ OthersTake \/ OthersReturn
  \/ \E w \in stray : Land(w)
  \/ Over

\* Every request has a timeout and every read an idle limit; the semaphore
\* serves its waiters in order, and other downloads return their permits.
Fairness ==
  /\ WF_vars(MainStep) /\ WF_vars(Working) /\ WF_vars(Hashes)
  /\ SF_vars(Admission) /\ WF_vars(OthersReturn)

Spec == Init /\ [][Next]_vars /\ Fairness

-----------------------------------------------------------------------------
(* Properties.                                                             *)

(***************************************************************************)
(* The digest returned is the digest of the file, then and from then on,   *)
(* whichever route it came by (incremental_hash, resolve_verified_digest): *)
(* the file that Python renames into the cache under that digest has it.   *)
(***************************************************************************)
DigestOfDisk == phase = "done" /\ verify => result = disk

(***************************************************************************)
(* From a server that sends the right bytes, with verification off too,    *)
(* success means the whole blob, each byte in its place: no hole from a    *)
(* short body, no byte of another piece from a long or misplaced one, no   *)
(* harm from a late write (try_download_chunk_to_offset).                  *)
(***************************************************************************)
CompleteUnverified == phase = "done" /\ ~case.corrupting => disk = Blob(total)

(***************************************************************************)
(* A download whose file could be created fails only when the server       *)
(* refused a piece, one piece failed more than MAX_RETRIES times (the      *)
(* pieces' retries do not add up), or, with all pieces written, the hasher *)
(* gave up and the file could not be read again.                           *)
(***************************************************************************)
FailsForCause ==
  phase = "failed" /\ disk # <<>> =>
    \/ hasher = "none" /\ InState("joined") = Pieces
    \/ \E i \in Pieces : task[i].st = "refused"
    \/ \E i \in Pieces : task[i].st = "error" /\ task[i].retries > MaxRetries

(***************************************************************************)
(* Every download returns, and its hasher thread with it, also when the    *)
(* download fails while extents are still missing.                         *)
(***************************************************************************)
Ends == <>(phase \in {"done", "failed"} /\ ~Hashing)
=============================================================================

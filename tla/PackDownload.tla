---------------------------- MODULE PackDownload ----------------------------
(***************************************************************************)
(* One chunked-v2 download: _pull_packs (hippius_hub/file_download.py)     *)
(* turns the pointer blob into a plan, and PackAssembler                   *)
(* (src/chunk_fetcher/) fetches the packs concurrently, verifies each      *)
(* chunk it carves out, writes it to its place in the file, and compares   *)
(* the whole-file digest at the end.  A digest is the bytes it stands for. *)
(***************************************************************************)
EXTENDS IncrementalHash, FiniteSets

CONSTANTS
  Packs,          \* [pack digest -> its bytes]
  Layers,         \* the packs the manifest lists, with their sizes
  Pointers,       \* the pointer documents the registry may answer with
  File,           \* the whole file, as its digest in the manifest
  MaxConcurrent,  \* max_concurrent: permits of this download
  Permits,        \* the permits of global_pack_gate
  MaxRetries,     \* MAX_RETRIES of one pack
  Corrupting      \* may the server send wrong bytes?

ASSUME PackAssumption ==
  /\ MaxConcurrent \in Nat \ {0} /\ Permits \in Nat \ {0} /\ MaxRetries \in Nat
  /\ Corrupting \in BOOLEAN
  /\ \A chunks \in Pointers :
       /\ Len(chunks) \in Nat \ {0} /\ DOMAIN chunks = 1..Len(chunks)
       \* the binding takes unsigned integers
       /\ \A i \in DOMAIN chunks : {chunks[i].off, chunks[i].size} \subseteq Nat

VARIABLES
  phase,      \* "plan", "start", "fetch", "digest", "done" or "failed"
  refs,       \* the chunks of the pointer blob, in file order
  task,       \* per pack, its task
  others      \* permits held by other downloads of the process

packVars == <<phase, refs, task, others>>
vars == <<total, disk, hashVars, packVars>>

Hole == -1
Wrong == -2

-----------------------------------------------------------------------------
(* _pull_packs: the plan.                                                  *)

Used == {refs[i].pack : i \in DOMAIN refs}

\* file_offset after the first i chunks.
FileOffsets(chunks) ==
  LET sum[i \in 0..Len(chunks)] == IF i = 0 THEN 0 ELSE sum[i - 1] + chunks[i].size
  IN sum

\* The i-th chunk with its place in the file.
Target(i) ==
  [off |-> refs[i].off, size |-> refs[i].size, want |-> refs[i].want,
   at |-> FileOffsets(refs)[i - 1]]

\* by_pack: the chunks of a pack, in file order.
Targets(p) ==
  LET group[i \in 0..Len(refs)] ==
        IF i = 0 THEN <<>>
        ELSE IF refs[i].pack = p THEN Append(group[i - 1], Target(i)) ELSE group[i - 1]
  IN group[Len(refs)]

NoTask == [st |-> "wait", body |-> <<>>, next |-> 1, retries |-> 0]

\* The pointer blob is fetched and parsed.
ReadPointer ==
  /\ phase = "plan"
  /\ refs' \in Pointers
  /\ total' = FileOffsets(refs')[Len(refs')]
  /\ phase' = IF \A i \in DOMAIN refs' : refs'[i].pack \in DOMAIN Layers THEN "start" ELSE "failed"
  /\ UNCHANGED <<disk, hashVars, task, others>>

\* The pointer cannot be fetched, or the destination cannot be created.
StartFails ==
  /\ phase \in {"plan", "start"}
  /\ phase' = "failed"
  /\ UNCHANGED <<total, disk, hashVars, refs, task, others>>

\* The head of assemble: the plan always lies within the file, so
\* validate_pack_plan accepts it; every pack gets a task, each with a sender.
Start ==
  /\ phase = "start"
  /\ disk' = [k \in 1..total |-> Hole]
  /\ SpawnHasher(TRUE)
  /\ task' = [p \in Used |-> NoTask]
  /\ phase' = "fetch"
  /\ UNCHANGED <<total, refs, others>>

-----------------------------------------------------------------------------
(* Pack tasks.                                                             *)

InState(S) == {p \in DOMAIN task : task[p].st \in S}
Running == {"wait", "gate", "get", "backoff", "scatter", "signal"}
Set(p, t) == task' = [task EXCEPT ![p] = t]

\* Mutant: the download keeps its own sender until it returns.
SendersKept(after) == UNCHANGED sending

\* The senders of the tasks that have not returned keep the channel open.
Senders(after) == sending' = (sending /\ \E p \in DOMAIN after : after[p].st \in Running)

\* The download's own semaphore, then the global one.
Acquire(p) ==
  /\ task[p].st = "wait"
  /\ Cardinality(InState(Running \ {"wait"})) < MaxConcurrent
  /\ Set(p, [task[p] EXCEPT !.st = "gate"])
  /\ UNCHANGED <<total, disk, hashVars, phase, refs, others>>

AcquireGlobal(p) ==
  /\ task[p].st = "gate"
  /\ Cardinality(InState(Running \ {"wait", "gate"})) + others < Permits
  /\ Set(p, [task[p] EXCEPT !.st = "get"])
  /\ UNCHANGED <<total, disk, hashVars, phase, refs, others>>

\* fetch_pack_with_retry after an error of an attempt.
AfterError(p, retryable) ==
  [NoTask EXCEPT !.st = IF retryable /\ task[p].retries < MaxRetries THEN "backoff" ELSE "error",
                 !.retries = task[p].retries + 1]

Backoff(p) ==
  /\ task[p].st = "backoff"
  /\ Set(p, [task[p] EXCEPT !.st = "get"])
  /\ UNCHANGED <<total, disk, hashVars, phase, refs, others>>

\* A transport error, a stall, a body too short or too long, a 4xx or a 5xx; or
\* the destination cannot be opened or written.
AttemptFails(p, retryable) ==
  /\ task[p].st = "get" \/ (task[p].st = "scatter" /\ retryable)
  /\ Set(p, AfterError(p, retryable))
  /\ Senders(task')
  /\ UNCHANGED <<total, disk, signals, pending, watermark, folded, hasher, phase, refs, others>>

Served(p) ==
  {Packs[p]} \cup IF Corrupting THEN {[k \in DOMAIN Packs[p] |-> Wrong]} ELSE {}

\* The body has the size the manifest says.
Fetched(p) ==
  /\ task[p].st = "get"
  /\ \E bytes \in {b \in Served(p) : Len(b) = Layers[p]} :
       Set(p, [task[p] EXCEPT !.st = "scatter", !.body = bytes, !.next = 1])
  /\ UNCHANGED <<total, disk, hashVars, phase, refs, others>>

\* The chunk lies within the pack and has its digest.
Verified(p, t) ==
  /\ t.off + t.size <= Len(task[p].body)
  /\ SubSeq(task[p].body, t.off + 1, t.off + t.size) = t.want

WriteAt(file, at, bytes) ==
  [k \in DOMAIN file |-> IF k \in (at + 1)..(at + Len(bytes)) THEN bytes[k - at] ELSE file[k]]

\* verify_and_scatter, one chunk: it runs on the blocking pool, and so goes on
\* when its task has been aborted.
Scatter(p) ==
  /\ task[p].st \in {"scatter", "orphan"} /\ task[p].next <= Len(Targets(p))
  /\ LET t == Targets(p)[task[p].next]
         gone == task[p].st = "orphan"
     IN IF Verified(p, t)
        THEN /\ disk' = WriteAt(disk, t.at, SubSeq(task[p].body, t.off + 1, t.off + t.size))
             /\ Set(p, [task[p] EXCEPT !.next = @ + 1])
        ELSE /\ Set(p, IF gone THEN [NoTask EXCEPT !.st = "aborted"] ELSE AfterError(p, FALSE))
             /\ UNCHANGED disk
  /\ Senders(task')
  /\ UNCHANGED <<total, signals, pending, watermark, folded, hasher, phase, refs, others>>

\* The last chunk is written and flushed.
ScatterEnds(p) ==
  /\ task[p].st \in {"scatter", "orphan"} /\ task[p].next > Len(Targets(p))
  /\ Set(p, [NoTask EXCEPT !.st = IF task[p].st = "orphan" THEN "aborted" ELSE "signal",
                           !.retries = task[p].retries])
  /\ UNCHANGED <<total, disk, hashVars, phase, refs, others>>

\* The extents of the whole pack are signalled, and the task returns.
Signal(p) ==
  /\ task[p].st = "signal"
  /\ Send([i \in DOMAIN Targets(p) |-> [at |-> Targets(p)[i].at, size |-> Targets(p)[i].size]])
  /\ Set(p, [NoTask EXCEPT !.st = "ok"])
  /\ Senders(task')
  /\ UNCHANGED <<total, disk, pending, watermark, folded, hasher, phase, refs, others>>

-----------------------------------------------------------------------------
(* The tail of assemble.                                                   *)

\* A task that is aborted: its blocking scatter, if any, is orphaned.
Aborted(p) ==
  IF task[p].st = "scatter" THEN [task[p] EXCEPT !.st = "orphan"]
  ELSE IF task[p].st \in Running THEN [NoTask EXCEPT !.st = "aborted"] ELSE task[p]

\* The first failed task ends the download and aborts the others (AbortOnDrop).
JoinFails ==
  /\ phase = "fetch" /\ InState({"error"}) # {}
  /\ phase' = "failed"
  /\ task' = [p \in DOMAIN task |-> Aborted(p)]
  /\ sending' = FALSE
  /\ UNCHANGED <<total, disk, signals, pending, watermark, folded, hasher, refs, others>>

JoinAll ==
  /\ phase = "fetch" /\ InState({"ok"}) = DOMAIN task
  /\ phase' = "digest"
  /\ UNCHANGED <<total, disk, hashVars, refs, task, others>>

\* Mutant: the digest of the pieces is enough when the fast path gave none.
MatchesTrusting(got) == hasher = "none" \/ got = File

\* got == expected_file
Matches(got) == got = File

\* verify_file_digest: the hasher's digest, or a read of the whole file.
Resolve ==
  /\ phase = "digest" /\ ~Hashing
  /\ phase' = IF Matches(IF hasher = "digest" THEN folded ELSE disk) THEN "done" ELSE "failed"
  /\ UNCHANGED <<total, disk, hashVars, refs, task, others>>

RereadFails ==
  /\ phase = "digest" /\ hasher = "none"
  /\ phase' = "failed"
  /\ UNCHANGED <<total, disk, hashVars, refs, task, others>>

OthersTake ==
  /\ phase = "fetch" /\ others + Cardinality(InState(Running \ {"wait", "gate"})) < Permits
  /\ others' = others + 1
  /\ UNCHANGED <<total, disk, hashVars, phase, refs, task>>

OthersReturn ==
  /\ others > 0
  /\ others' = others - 1
  /\ UNCHANGED <<total, disk, hashVars, phase, refs, task>>

-----------------------------------------------------------------------------

Init ==
  /\ total = 0 /\ disk = <<>>
  /\ HashInit
  /\ phase = "plan" /\ refs = <<>>
  /\ task = [p \in {} |-> NoTask]
  /\ others = 0

Ready(p) == p \in DOMAIN task /\ phase = "fetch"

TaskStep(p) ==
  \/ Ready(p) /\ (Backoff(p) \/ Fetched(p) \/ Signal(p) \/ \E r \in BOOLEAN : AttemptFails(p, r))
  \/ p \in DOMAIN task /\ (Scatter(p) \/ ScatterEnds(p))

MainStep == ReadPointer \/ StartFails \/ Start \/ JoinFails \/ JoinAll \/ Resolve \/ RereadFails

Over == phase \in {"done", "failed"} /\ ~Hashing /\ InState({"orphan"}) = {} /\ UNCHANGED vars

Next ==
  \/ MainStep
  \/ \E p \in DOMAIN task : TaskStep(p) \/ (Ready(p) /\ (Acquire(p) \/ AcquireGlobal(p)))
  \/ HashStep /\ UNCHANGED packVars
  \/ OthersTake \/ OthersReturn
  \/ Over

\* Requests time out, semaphores serve in order, other downloads finish.
Fairness ==
  /\ WF_vars(MainStep) /\ WF_vars(HashStep /\ UNCHANGED packVars) /\ WF_vars(OthersReturn)
  /\ \A p \in DOMAIN Packs :
       /\ WF_vars(TaskStep(p))
       /\ SF_vars(Ready(p) /\ Acquire(p)) /\ SF_vars(Ready(p) /\ AcquireGlobal(p))

Spec == Init /\ [][Next]_vars /\ Fairness

-----------------------------------------------------------------------------
(* Properties.                                                             *)

(***************************************************************************)
(* A chunked download that returns has assembled the file, whatever the    *)
(* registry served: corrupt packs, a pointer with its chunks in the wrong  *)
(* order, retries over half-written packs (verify_file_digest).            *)
(***************************************************************************)
OnlyTheFile == phase = "done" => disk = File

(***************************************************************************)
(* Every download returns, its hasher and its orphaned writes end too.     *)
(***************************************************************************)
Ends == <>(phase \in {"done", "failed"} /\ ~Hashing /\ InState({"orphan"}) = {})
=============================================================================

------------------------------- MODULE Packing -------------------------------
(***************************************************************************)
(* One chunked-v2 upload: PackAccumulator (hippius_hub/_packing.py) fed    *)
(* with the chunks of a file in file order, and the thread pool of         *)
(* _upload_file_chunked_v2 (hippius_hub/file_upload.py) that uploads each  *)
(* pack while later chunks still arrive, in whatever order the network     *)
(* finishes them.                                                          *)
(*                                                                         *)
(* A chunk is a model value of a known size; a file and a pack are byte    *)
(* sequences.  A blob is named by its content, so a digest is the bytes.   *)
(***************************************************************************)
EXTENDS Naturals, Sequences, FiniteSets, SequencesExt

CONSTANTS
  Chunks,       \* chunk digests
  Size,         \* [Chunks -> Nat \ {0}]
  Inputs,       \* the files to upload, as sequences of chunks
  Index,        \* dedup index: some chunks -> [pack : bytes, at : offset]
  PackSize,     \* resolve_pack_size()
  PoolSize      \* resolve_upload_workers()

ASSUME PackingAssumption ==
  /\ Size \in [Chunks -> Nat \ {0}]
  /\ PackSize \in Nat \ {0} /\ PoolSize \in Nat \ {0}
  /\ DOMAIN Index \subseteq Chunks
  /\ Inputs \subseteq Seq(Chunks)

VARIABLES
  file,       \* the file, as its chunks
  fed,        \* how many chunks the accumulator was fed
  planned,    \* _planned
  newPacks,   \* _new_packs: sequences of ranges [off, size]
  cur,        \* _cur_ranges, the open pack
  curOffset,  \* _cur_offset
  seen,       \* _seen: the PlannedChunk of each first occurrence
  jobs,       \* futures, in submission order: [ranges, state]
  phase,      \* "feed", "collect", "unwind", "failed" or "done"
  pointer     \* the pointer blob's chunk list, <<>> until written

plan == <<planned, newPacks, cur, curOffset, seen>>
vars == <<file, fed, plan, jobs, phase, pointer>>

Bytes(c) == [i \in 1..Size[c] |-> <<c, i>>]

\* The dedup index is truthful: it is read from the pointers of earlier uploads.
ASSUME IndexAssumption ==
  \A c \in DOMAIN Index :
    /\ Index[c].at \in Nat /\ Index[c].at + Size[c] <= Len(Index[c].pack)
    /\ SubSeq(Index[c].pack, Index[c].at + 1, Index[c].at + Size[c]) = Bytes(c)

BytesOf(chunks) == FlattenSeq([i \in DOMAIN chunks |-> Bytes(chunks[i])])

\* The native stream's offset of the k-th chunk.
Offset(k) == Len(BytesOf(SubSeq(file, 1, k - 1)))

\* read_ranges: the file's bytes at the ranges, in pack order.
PackBytes(ranges) ==
  FlattenSeq([i \in DOMAIN ranges |->
    SubSeq(BytesOf(file), ranges[i].off + 1, ranges[i].off + ranges[i].size)])

-----------------------------------------------------------------------------
(* PackAccumulator.  A PlannedChunk names a pack (reused) or an index into *)
(* the new packs; packs are numbered from 1.                               *)

Reused(c) == [chunk |-> c, size |-> Size[c], at |-> Index[c].at, pack |-> Index[c].pack, new |-> 0]
Fresh(c) == [chunk |-> c, size |-> Size[c], at |-> curOffset, pack |-> <<>>, new |-> Len(newPacks) + 1]

Queued(ranges) == [ranges |-> ranges, state |-> "queued"]

\* The open pack is closed once it has reached the pack size.
CloseNow(ranges, size) == size >= PackSize

\* feed() of the next chunk, and the submission of the pack it completes.
Feed ==
  /\ phase = "feed" /\ fed < Len(file)
  /\ fed' = fed + 1
  /\ LET c == file[fed + 1]
         ranges == Append(cur, [off |-> Offset(fed + 1), size |-> Size[c]])
     IN \/ /\ c \in DOMAIN Index
           /\ planned' = Append(planned, Reused(c))
           /\ UNCHANGED <<newPacks, cur, curOffset, seen, jobs>>
        \/ /\ c \notin DOMAIN Index /\ c \in DOMAIN seen
           /\ planned' = Append(planned, seen[c])
           /\ UNCHANGED <<newPacks, cur, curOffset, seen, jobs>>
        \/ /\ c \notin DOMAIN Index /\ c \notin DOMAIN seen
           /\ planned' = Append(planned, Fresh(c))
           /\ seen' = [d \in DOMAIN seen \cup {c} |-> IF d = c THEN Fresh(c) ELSE seen[d]]
           /\ IF CloseNow(ranges, curOffset + Size[c])
              THEN /\ newPacks' = Append(newPacks, ranges)
                   /\ jobs' = Append(jobs, Queued(ranges))
                   /\ cur' = <<>> /\ curOffset' = 0
              ELSE /\ cur' = ranges /\ curOffset' = curOffset + Size[c]
                   /\ UNCHANGED <<newPacks, jobs>>
  /\ UNCHANGED <<file, phase, pointer>>

\* plan.new_packs[len(futures):]
Rest(packs) == SubSeq(packs, Len(jobs) + 1, Len(packs))

\* The end of the stream: finish() closes a partial pack, which is submitted.
Finish ==
  /\ phase = "feed" /\ fed = Len(file)
  /\ newPacks' = IF cur = <<>> THEN newPacks ELSE Append(newPacks, cur)
  /\ jobs' = jobs \o [i \in DOMAIN Rest(newPacks') |-> Queued(Rest(newPacks')[i])]
  /\ cur' = <<>> /\ curOffset' = 0
  /\ phase' = "collect"
  /\ UNCHANGED <<file, fed, planned, seen, pointer>>

-----------------------------------------------------------------------------
(* The pool: futures run in any order, a pack's digest is its bytes.       *)

InState(s) == {j \in DOMAIN jobs : jobs[j].state = s}
SetJob(j, s) == jobs' = [jobs EXCEPT ![j].state = s]

\* The pool's queue is first in, first out.
StartUpload(j) ==
  /\ j \in InState("queued") /\ \A i \in InState("queued") : j <= i
  /\ Cardinality(InState("running")) < PoolSize
  /\ SetJob(j, "running")
  /\ UNCHANGED <<file, fed, plan, phase, pointer>>

EndUpload(j) ==
  /\ j \in InState("running")
  /\ SetJob(j, "done") \/ SetJob(j, "failed")
  /\ UNCHANGED <<file, fed, plan, phase, pointer>>

-----------------------------------------------------------------------------

\* resolve_pointer_chunks with the digests f.result() gave, in submission order.
Resolve(digests) ==
  [i \in DOMAIN planned |->
     [planned[i] EXCEPT !.pack = IF planned[i].new = 0 THEN @ ELSE digests[planned[i].new]]]

\* Mutant: as_completed would hand out the digests in another order.
DigestsReversed == Reverse([j \in DOMAIN jobs |-> PackBytes(jobs[j].ranges)])

\* new_pack_digests = [f.result() for f in futures]
Digests == [j \in DOMAIN jobs |-> PackBytes(jobs[j].ranges)]

\* Every pack is in: the pointer blob is written and the layers returned.
Publish ==
  /\ phase = "collect" /\ InState("done") = DOMAIN jobs
  /\ pointer' = Resolve(Digests)
  /\ phase' = "done"
  /\ UNCHANGED <<file, fed, plan, jobs>>

\* The upload of the pointer blob fails, after the pool has been left.
PointerFails ==
  /\ phase = "collect" /\ InState("done") = DOMAIN jobs
  /\ phase' = "failed"
  /\ UNCHANGED <<file, fed, plan, jobs, pointer>>

\* for f in futures: f.cancel()
CancelQueued ==
  jobs' = [j \in DOMAIN jobs |->
             IF j \in InState("queued") THEN [jobs[j] EXCEPT !.state = "cancelled"] ELSE jobs[j]]

\* A poisoned stream, an error of its finish(), or Ctrl-C, while the chunks arrive
\* or the results are awaited: what has not started is cancelled.
StreamFails ==
  /\ phase \in {"feed", "collect"}
  /\ CancelQueued
  /\ phase' = "unwind"
  /\ UNCHANGED <<file, fed, plan, pointer>>

\* Mutant: the failed pack is queued again, without a bound.
UploadFailsRetry ==
  /\ phase = "collect"
  /\ \E j \in InState("failed") :
       /\ \A i \in 1..(j - 1) : jobs[i].state = "done"
       /\ SetJob(j, "queued")
  /\ UNCHANGED <<file, fed, plan, phase, pointer>>

\* The first failed result in submission order is raised.
UploadFails ==
  /\ phase = "collect"
  /\ \E j \in InState("failed") : \A i \in 1..(j - 1) : jobs[i].state = "done"
  /\ CancelQueued
  /\ phase' = "unwind"
  /\ UNCHANGED <<file, fed, plan, pointer>>

\* Mutant: the pool is shut down with wait=False.
JoinedEarly ==
  /\ phase = "unwind"
  /\ phase' = "failed"
  /\ UNCHANGED <<file, fed, plan, jobs, pointer>>

\* Leaving the with-block joins the uploads that are running.
Joined ==
  /\ phase = "unwind" /\ InState("running") = {} /\ InState("queued") = {}
  /\ phase' = "failed"
  /\ UNCHANGED <<file, fed, plan, jobs, pointer>>

Over == phase \in {"done", "failed"} /\ UNCHANGED vars

Init ==
  /\ file \in Inputs
  /\ fed = 0
  /\ planned = <<>> /\ newPacks = <<>> /\ cur = <<>> /\ curOffset = 0
  /\ seen = [c \in {} |-> {}]
  /\ jobs = <<>>
  /\ phase = "feed"
  /\ pointer = <<>>

Next ==
  \/ Feed \/ Finish \/ Publish \/ PointerFails \/ StreamFails \/ UploadFails \/ Joined \/ Over
  \/ \E j \in DOMAIN jobs : StartUpload(j) \/ EndUpload(j)

\* The stream ends, and every pack upload returns (its retries are bounded and
\* its sends watched): module BlobSession and the watchdog.
Fairness ==
  /\ WF_vars(Feed \/ Finish) /\ WF_vars(Publish \/ PointerFails \/ UploadFails \/ Joined)
  /\ WF_vars(\E j \in DOMAIN jobs : StartUpload(j) \/ EndUpload(j))

Spec == Init /\ [][Next]_vars /\ Fairness

-----------------------------------------------------------------------------
(* Properties.                                                             *)

(***************************************************************************)
(* The pointer reads back as the file: every chunk lies inside the pack    *)
(* the pointer names, and slicing the chunks out at their offsets and      *)
(* writing the slices one after the other gives the file's bytes, whatever *)
(* was reused, repeated in the file or uploaded out of order               *)
(* (resolve_pointer_chunks).                                               *)
(***************************************************************************)
ReadsBack ==
  phase = "done" =>
    /\ \A i \in DOMAIN pointer : pointer[i].at + pointer[i].size <= Len(pointer[i].pack)
    /\ FlattenSeq([i \in DOMAIN pointer |->
         SubSeq(pointer[i].pack, pointer[i].at + 1, pointer[i].at + pointer[i].size)])
         = BytesOf(file)

(***************************************************************************)
(* An error leaves no upload behind: once the exception leaves             *)
(* _upload_file_chunked_v2 nothing runs or will run, and no pointer was    *)
(* written.                                                                *)
(***************************************************************************)
NothingLeftBehind ==
  /\ phase = "failed" => InState("running") = {} /\ InState("queued") = {} /\ pointer = <<>>
  /\ pointer # <<>> => InState("done") = DOMAIN jobs

\* Every chunked upload ends, with a pointer or an error.
Ends == <>(phase \in {"done", "failed"})
=============================================================================

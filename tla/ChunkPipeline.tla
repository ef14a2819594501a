---------------------------- MODULE ChunkPipeline ----------------------------
(***************************************************************************)
(* The chunk stream of an upload: run_chunk_pipeline (src/uploader/cdc.rs) *)
(* with its producer, hash workers and collector, and its two consumers:   *)
(* the thread of ChunkStreamCore (src/uploader/stream.rs) that forwards    *)
(* their output to whoever pulls the stream, who may abandon it at any     *)
(* time; and chunk_and_hash_reader, which gathers it on the calling        *)
(* thread.  Module NativeCalls has the Python threads that call either.    *)
(*                                                                         *)
(* A chunk is its index in the file, its digest that index.  Channels are  *)
(* sequences; an end of one is dropped when the thread that owns it exits. *)
(***************************************************************************)
EXTENDS Naturals, Sequences

CONSTANTS
  Workers,      \* hash workers
  MaxChunks,    \* bound: chunks of a file
  QueueDepth,   \* HASH_QUEUE_DEPTH
  BatchSize,    \* CHUNK_BATCH
  OutDepth,     \* BATCH_QUEUE_DEPTH, of the output and of the forward channel
  Averages      \* average chunk sizes a caller may ask for

ASSUME PipelineAssumption ==
  /\ Workers # {} /\ Workers \cap {"producer", "collector", "forwarder", "stream"} = {}
  /\ MaxChunks \in Nat
  /\ {QueueDepth, BatchSize, OutDepth} \subseteq Nat \ {0}
  /\ Averages \subseteq Nat

VARIABLES
  n,            \* chunks of the file
  bad,          \* the chunk at which reading fails, 0 for none
  hang,         \* the chunk at which reading never returns, 0 for none
  avg,          \* the average chunk size asked for
  sink,         \* who consumes: "none" yet, "stream", "gather", or "dropped"
  exited,       \* threads that have returned
  fed, held,    \* the producer's fed, and the chunk it is sending (0: none)
  ctrl,         \* ctrl channel: "none", "finished" or "failed"
  work,         \* work channel
  job,          \* the chunk a worker hashes (0: none)
  done,         \* done channel
  pending, next, batch, \* the collector's locals
  out,          \* output channel
  msg,          \* what the forwarder is sending, <<>> for nothing
  fwd,          \* forward channel
  state,        \* of the stream: see States
  got           \* chunks handed to the consumer

chans == <<ctrl, work, done, out, fwd>>
collector == <<pending, next, batch>>
source == <<n, bad, hang, avg>>
pipeline == <<source, sink, exited, fed, held, chans, job, collector, msg, state, got>>

Threads == Workers \cup {"producer", "collector", "forwarder", "stream"}

Running(t) == t \notin exited
Exit(t) == exited' = exited \cup {t}

(***************************************************************************)
(* StreamState: live; the terminal message taken and the thread not yet    *)
(* joined; Finished; Failed.  "broken" stands for the errors of a stream   *)
(* that closes without a terminal message.                                 *)
(***************************************************************************)
States == {"none", "streaming", "reaping", "failing", "broken", "finished", "failed"}

\* cdc_bounds: the (min, avg, max) sizes of FastCDC, or none.
CdcMinAvg == 256
CdcMaxAvg == 4 * 1024 * 1024
CdcBounds(a) ==
  IF a \in CdcMinAvg..CdcMaxAvg THEN <<a \div 4, a, a * 4>> ELSE <<>>

Batch(b) == [kind |-> "batch", chunks |-> b]
Done == [kind |-> "done", chunks |-> <<>>]
Fail(why) == [kind |-> why, chunks |-> <<>>]

PipelineInit ==
  /\ n \in 0..MaxChunks /\ bad \in 0..n /\ hang \in 0..(n + 1) /\ (bad = 0 \/ hang = 0)
  /\ avg \in Averages
  /\ sink = "none" /\ state = "none" /\ exited = Threads
  /\ fed = 0 /\ held = 0
  /\ ctrl = "none" /\ work = <<>> /\ done = <<>> /\ out = <<>> /\ fwd = <<>>
  /\ job = [w \in Workers |-> 0]
  /\ pending = {} /\ next = 1 /\ batch = <<>>
  /\ msg = <<>> /\ got = <<>>

\* ChunkStreamCore::spawn and chunk_and_hash_reader: the threads start.
Start(how) ==
  /\ sink = "none"
  /\ sink' = how /\ state' = "streaming" /\ exited' = {}
  /\ UNCHANGED <<source, fed, held, chans, job, collector, msg, got>>

\* The file cannot be opened, or the average chunk size is refused.
Refused == bad = 1 \/ CdcBounds(avg) = <<>>

-----------------------------------------------------------------------------
(* produce_chunks                                                          *)

\* The workers share one receiver with the scope, which holds it while it consumes.
WorkDropped == \A w \in Workers \cup {"forwarder"} : ~Running(w)

\* CDC cuts the next chunk, which counts as fed before it is sent.
Cut ==
  /\ Running("producer") /\ ctrl = "none" /\ held = 0 /\ CdcBounds(avg) # <<>>
  /\ fed < n /\ fed + 1 \notin {bad, hang}
  /\ fed' = fed + 1 /\ held' = fed'
  /\ UNCHANGED <<source, sink, exited, chans, job, collector, msg, state, got>>

SendJob ==
  /\ held # 0
  /\ \/ ~WorkDropped /\ Len(work) < QueueDepth /\ work' = Append(work, held) /\ UNCHANGED ctrl
     \/ WorkDropped /\ ctrl' = "finished" /\ UNCHANGED work
  /\ held' = 0
  /\ UNCHANGED <<source, sink, exited, fed, done, out, fwd, job, collector, msg, state, got>>

\* The end of the file, or a read error: the status is queued ...
End ==
  /\ Running("producer") /\ ctrl = "none" /\ held = 0 /\ CdcBounds(avg) # <<>>
  /\ fed + 1 # hang /\ (fed = n \/ fed + 1 = bad)
  /\ ctrl' = IF fed + 1 = bad THEN "failed" ELSE "finished"
  /\ UNCHANGED <<source, sink, exited, fed, held, work, done, out, fwd, job, collector, msg, state, got>>

\* Mutant: the producer may return before it has queued its status.
ProducerExitsEarly ==
  /\ Running("producer") /\ held = 0 /\ (fed = n \/ fed + 1 = bad \/ ctrl # "none")
  /\ Exit("producer")
  /\ UNCHANGED <<source, sink, fed, held, chans, job, collector, msg, state, got>>

\* ... before the work sender is dropped.
ProducerExits ==
  /\ Running("producer") /\ ctrl # "none"
  /\ Exit("producer")
  /\ UNCHANGED <<source, sink, fed, held, chans, job, collector, msg, state, got>>

-----------------------------------------------------------------------------
(* hash_worker                                                             *)

Take(w) ==
  /\ Running(w) /\ job[w] = 0
  /\ \/ /\ work # <<>>
        /\ job' = [job EXCEPT ![w] = Head(work)] /\ work' = Tail(work)
        /\ UNCHANGED exited
     \/ /\ work = <<>> /\ ~Running("producer")
        /\ Exit(w)
        /\ UNCHANGED <<job, work>>
  /\ UNCHANGED <<source, sink, fed, held, ctrl, done, out, fwd, collector, msg, state, got>>

\* The digest goes to the collector; without one the worker returns.
Hashed(w) ==
  /\ Running(w) /\ job[w] # 0
  /\ job' = [job EXCEPT ![w] = 0]
  /\ \/ Running("collector") /\ done' = Append(done, job[w]) /\ UNCHANGED exited
     \/ ~Running("collector") /\ Exit(w) /\ UNCHANGED done
  /\ UNCHANGED <<source, sink, fed, held, ctrl, work, out, fwd, collector, msg, state, got>>

-----------------------------------------------------------------------------
(* collect_batches                                                         *)

\* A send to the output channel blocks while it is full, and fails once the
\* forwarder has dropped the receiver: the collector then returns.
Emit(m) ==
  \/ Running("forwarder") /\ Len(out) < OutDepth /\ out' = Append(out, m)
  \/ ~Running("forwarder") /\ UNCHANGED out

Collect ==
  /\ Running("collector") /\ next \notin pending /\ Len(batch) < BatchSize /\ done # <<>>
  /\ pending' = pending \cup {Head(done)} /\ done' = Tail(done)
  /\ UNCHANGED <<source, sink, exited, fed, held, ctrl, work, out, fwd, job, next, batch, msg, state, got>>

\* Mutant: digests are batched in the order they come in.
PushAny ==
  /\ Running("collector") /\ Len(batch) < BatchSize
  /\ \E k \in pending : pending' = pending \ {k} /\ batch' = Append(batch, k)
  /\ next' = next + 1
  /\ UNCHANGED <<source, sink, exited, fed, held, chans, job, msg, state, got>>

Push ==
  /\ Running("collector") /\ next \in pending /\ Len(batch) < BatchSize
  /\ pending' = pending \ {next} /\ batch' = Append(batch, next) /\ next' = next + 1
  /\ UNCHANGED <<source, sink, exited, fed, held, chans, job, msg, state, got>>

Flush ==
  /\ Running("collector") /\ Len(batch) >= BatchSize
  /\ Emit(Batch(batch))
  /\ batch' = <<>>
  /\ IF Running("forwarder") THEN UNCHANGED exited ELSE Exit("collector")
  /\ UNCHANGED <<source, sink, fed, held, ctrl, work, done, fwd, job, pending, next, msg, state, got>>

\* The done channel is empty and every worker has returned.
DoneClosed == done = <<>> /\ \A w \in Workers : ~Running(w)

\* What the loop leaves behind, and the producer's status.
Drained ==
  /\ Running("collector") /\ next \notin pending /\ Len(batch) < BatchSize /\ DoneClosed
  /\ ctrl # "none" \/ ~Running("producer")

\* The terminal message; a gap or a missing status would be an internal error.
Terminal ==
  IF ctrl = "none" \/ (ctrl = "finished" /\ next <= fed) THEN Fail("internal")
  ELSE IF ctrl = "failed" THEN Fail("io") ELSE Done

\* The last, partial batch of a complete stream goes first.
FlushLast ==
  /\ Drained /\ batch # <<>> /\ Terminal = Done
  /\ Emit(Batch(batch))
  /\ batch' = <<>>
  /\ IF Running("forwarder") THEN UNCHANGED exited ELSE Exit("collector")
  /\ UNCHANGED <<source, sink, fed, held, ctrl, work, done, fwd, job, pending, next, msg, state, got>>

CollectorEnds ==
  /\ Drained /\ (batch = <<>> \/ Terminal # Done)
  /\ Emit(Terminal)
  /\ Exit("collector")
  /\ UNCHANGED <<source, sink, fed, held, ctrl, work, done, fwd, job, collector, msg, state, got>>

-----------------------------------------------------------------------------
(* The consumers: the forwarding closure of ChunkStreamCore::spawn, or the *)
(* gathering one of chunk_and_hash_reader ("forwarder" both).              *)

\* The stream dropped its receiver when it left "streaming".
Listening == state = "streaming"

\* Next message of the output channel, or its end.
Receive ==
  /\ Running("forwarder") /\ msg = <<>>
  /\ \/ /\ out # <<>>
        /\ msg' = <<Head(out)>> /\ out' = Tail(out)
        /\ UNCHANGED <<exited, state>>
     \/ /\ out = <<>> /\ ~Running("collector")
        /\ Exit("forwarder")
        /\ state' = IF sink = "gather" THEN "broken" ELSE state
        /\ UNCHANGED <<msg, out>>
  /\ UNCHANGED <<source, sink, fed, held, ctrl, work, done, fwd, job, collector, got>>

\* Mutant: the closure goes on draining after the consumer is gone.
ForwardDraining ==
  /\ sink # "gather" /\ Running("forwarder") /\ msg # <<>> /\ Listening /\ Len(fwd) < OutDepth
  /\ fwd' = Append(fwd, msg[1])
  /\ msg' = <<>>
  /\ UNCHANGED <<source, sink, exited, fed, held, ctrl, work, done, out, job, collector, state, got>>

\* It forwards the message; a failed send ends it, and drops the output receiver.
Forward ==
  /\ sink # "gather" /\ Running("forwarder") /\ msg # <<>>
  /\ \/ Listening /\ Len(fwd) < OutDepth /\ fwd' = Append(fwd, msg[1]) /\ UNCHANGED exited
     \/ ~Listening /\ Exit("forwarder") /\ UNCHANGED fwd
  /\ msg' = <<>>
  /\ UNCHANGED <<source, sink, fed, held, ctrl, work, done, out, job, collector, state, got>>

AfterMsg(m) ==
  CASE m.kind = "batch" -> "streaming" [] m.kind = "done" -> "reaping" [] OTHER -> "failing"

\* chunk_and_hash_reader concatenates the batches; a terminal message ends it.
Gather ==
  /\ sink = "gather" /\ Running("forwarder") /\ msg # <<>>
  /\ got' = got \o msg[1].chunks
  /\ state' = AfterMsg(msg[1])
  /\ msg' = <<>>
  /\ IF Listening' THEN UNCHANGED exited ELSE Exit("forwarder")
  /\ UNCHANGED <<source, sink, fed, held, chans, job, collector>>

\* The scope joins its threads, then the stream's thread (the caller) returns.
ScopeEnds ==
  /\ Running("stream") /\ exited = Threads \ {"stream"}
  /\ Exit("stream")
  /\ UNCHANGED <<source, sink, fed, held, chans, job, collector, msg, state, got>>

\* No pipeline is started: the error is the only message of the stream.
OpenFails ==
  /\ exited = {} /\ fed = 0 /\ out = <<>> /\ Refused /\ ctrl = "none"
  /\ exited' = Threads
  /\ IF sink = "gather" THEN state' = "failing" /\ UNCHANGED fwd
     ELSE /\ fwd' = IF Listening THEN <<Fail("io")>> ELSE fwd
          /\ UNCHANGED state
  /\ UNCHANGED <<source, sink, fed, held, ctrl, work, done, out, job, collector, msg, got>>

-----------------------------------------------------------------------------
(* The methods of ChunkStreamCore.                                         *)

Disconnected == fwd = <<>> /\ ~Running("stream")

\* next_msg on a live stream: a batch; or a terminal message, or none although
\* the thread is gone, which drops the receiver before the thread is joined.
NextMsg ==
  /\ Listening /\ (fwd # <<>> \/ Disconnected)
  /\ fwd' = IF Disconnected THEN fwd ELSE Tail(fwd)
  /\ got' = IF Disconnected THEN got ELSE got \o Head(fwd).chunks
  /\ state' = IF Disconnected THEN "broken" ELSE AfterMsg(Head(fwd))
  /\ UNCHANGED <<source, sink, exited, fed, held, ctrl, work, done, out, job, collector, msg>>

\* teardown joins the thread.
Joined ==
  /\ state \in {"reaping", "failing", "broken"} /\ ~Running("stream")
  /\ state' = IF state = "reaping" THEN "finished" ELSE "failed"
  /\ UNCHANGED <<source, sink, exited, fed, held, chans, job, collector, msg, got>>

\* abort: a live stream fails, without waiting for its threads.
Abort ==
  /\ state' = IF Listening THEN "failed" ELSE state
  /\ UNCHANGED <<source, sink, exited, fed, held, chans, job, collector, msg, got>>

\* The stream object is dropped.
Drop ==
  /\ sink = "stream"
  /\ sink' = "dropped"
  /\ state' = IF Listening THEN "failed" ELSE state
  /\ UNCHANGED <<source, exited, fed, held, chans, job, collector, msg, got>>

-----------------------------------------------------------------------------

Producer == Cut \/ SendJob \/ End \/ ProducerExits
Worker(w) == Take(w) \/ Hashed(w)
Collector == Collect \/ Push \/ Flush \/ FlushLast \/ CollectorEnds
Consumer == Receive \/ Forward \/ Gather \/ ScopeEnds \/ OpenFails

PipelineNext == Producer \/ Collector \/ Consumer \/ \E w \in Workers : Worker(w)

-----------------------------------------------------------------------------
(* Properties.                                                             *)

(***************************************************************************)
(* The consumer gets the file's chunks in file order, without gap or       *)
(* repetition, whatever order the workers finish in and whichever threads  *)
(* pull, and all of them before the end of the stream (collect_batches).   *)
(***************************************************************************)
StreamsFile ==
  /\ got = [i \in 1..Len(got) |-> i]
  /\ state \in {"reaping", "finished"} => Len(got) = n /\ bad = 0 /\ CdcBounds(avg) # <<>>

(***************************************************************************)
(* The branches marked unreachable are: the collector always finds the     *)
(* producer's status and never a gap, also while the pipeline unwinds; the *)
(* stream never closes without a terminal message; and only a refused or   *)
(* unreadable file makes it fail.                                          *)
(***************************************************************************)
FailsForCause ==
  /\ state # "broken"
  /\ state = "failing" => Refused \/ bad # 0
  /\ \A m \in {out[i] : i \in DOMAIN out} \cup {fwd[i] : i \in DOMAIN fwd} \cup {msg[i] : i \in DOMAIN msg} :
       m.kind \in {"batch", "done"} \/ (m.kind = "io" /\ (Refused \/ bad # 0))

(***************************************************************************)
(* No path blocks forever: once the stream has ended, failed or been       *)
(* abandoned, at any point and with any channel full, every thread returns *)
(* (a read that never returns keeps the producer, and those that wait for  *)
(* it).                                                                    *)
(***************************************************************************)
Unwinds ==
  (hang = 0 /\ state \notin {"none", "streaming"}) ~> (exited = Threads)
=============================================================================

-------------------------- MODULE NativeCallsProofs --------------------------
(***************************************************************************)
(* The chunk stream under the Python threads that share it, for any number *)
(* of workers, chunks and threads and any depth of the channels: the file  *)
(* in order, and failures only for a cause.                                *)
(***************************************************************************)
EXTENDS NativeCalls, TLAPS

Elems(s) == {s[i] : i \in DOMAIN s}
Message == [kind : {"batch", "done", "io", "internal"}, chunks : Seq(Nat)]
Msgs == Elems(fwd) \cup Elems(msg) \cup Elems(out)

Valid == CdcBounds(avg) # <<>>
Cause == Refused \/ bad # 0

TypeOK ==
  /\ n \in Nat /\ bad \in 0..n
  /\ sink \in {"none", "stream", "gather", "dropped"} /\ state \in States
  /\ exited \subseteq Threads
  /\ fed \in 0..n /\ held \in 0..fed /\ ctrl \in {"none", "finished", "failed"}
  /\ work \in Seq(Nat) /\ job \in [Workers -> Nat] /\ done \in Seq(Nat)
  /\ pending \subseteq 1..fed /\ next \in 1..(fed + 1) /\ batch \in Seq(Nat)
  /\ out \in Seq(Message) /\ msg \in Seq(Message) /\ fwd \in Seq(Message) /\ got \in Seq(Nat)
  /\ Len(msg) <= 1

\* Only a live stream object has calls.
Calls ==
  /\ at \in [Callers -> Places]
  /\ \A t \in Callers : at[t] \in StreamCalls => sink = "stream"

\* Before the threads start nothing has happened.
Unstarted ==
  /\ state = "none" <=> sink = "none"
  /\ sink = "none" =>
       /\ exited = Threads /\ fed = 0 /\ held = 0 /\ ctrl = "none" /\ work = <<>> /\ done = <<>>
       /\ job = [w \in Workers |-> 0] /\ next = 1
       /\ batch = <<>> /\ out = <<>> /\ msg = <<>> /\ fwd = <<>> /\ got = <<>>

\* What is cut is a valid file's, up to what cannot be read; the status is the
\* last thing the producer says, and the end of the file if anyone listens.
Feeding ==
  /\ bad # 0 => fed < bad
  /\ fed # 0 \/ ctrl # "none" => Valid
  /\ ctrl # "none" => held = 0
  /\ ctrl = "failed" => bad # 0
  /\ ctrl = "finished" /\ Running("forwarder") => fed = n
  /\ ~Running("producer") /\ Running("collector") => ctrl # "none"

\* A worker returns when there is no more work, or nobody to work for.
Hashing ==
  /\ Elems(work) \cup Elems(done) \subseteq 1..fed
  /\ \A w \in Workers : job[w] \in 0..fed /\ (~Running(w) => job[w] = 0)
  /\ \A w \in Workers : Running("collector") /\ ~Running(w) => work = <<>> /\ ~Running("producer")

\* Where a chunk that is not batched yet can be.
Somewhere(k) ==
  k = held \/ k \in Elems(work) \/ (\E w \in Workers : job[w] = k) \/ k \in Elems(done) \/ k \in pending

Covered == Running("collector") /\ Running("forwarder") => \A k \in next..fed : Somewhere(k)

\* The batch under construction ends before 'next'.
Batching ==
  /\ Len(batch) <= next - 1
  /\ \A i \in 1..Len(batch) : batch[i] = next - 1 - Len(batch) + i

\* Message m continues a stream of which k chunks are out, 'all' in the end.
Continues(m, k, all) ==
  /\ m.kind = "batch" =>
       m.chunks # <<>> /\ \A i \in 1..Len(m.chunks) : m.chunks[i] = k + i
  /\ m.kind = "done" => k = all
  /\ m.kind # "batch" => m.chunks = <<>>

LastOf(m) == m.chunks[Len(m.chunks)]
EndOf(s, k) == IF s = <<>> THEN k ELSE LastOf(s[Len(s)])
Continuous(s, k, all) ==
  \A i \in DOMAIN s : Continues(s[i], IF i = 1 THEN k ELSE LastOf(s[i - 1]), all)

\* The channels hold the next chunks, without gap, up to the batch.
Forwarded == EndOf(fwd, Len(got))
Handed == EndOf(msg, Forwarded)

Streaming ==
  state \in {"none", "streaming"} =>
    /\ Continuous(fwd, Len(got), n) /\ Continuous(msg, Forwarded, n) /\ Continuous(out, Handed, n)
    /\ Running("collector") => EndOf(out, Handed) = next - 1 - Len(batch)

\* The collector's last message is terminal; as long as someone listens it is
\* on its way, and the forwarder returns only when it has passed it on.
Terminating ==
  /\ \A m \in Msgs : m.kind # "batch" => ~Running("collector")
  /\ Listening /\ ~Running("collector") => \E m \in Msgs : m.kind # "batch"
  /\ Listening /\ ~Running("forwarder") => msg = <<>> /\ out = <<>> /\ ~Running("collector")
  /\ ~Running("stream") => ~Running("forwarder")
  /\ sink = "gather" => fwd = <<>> /\ (Running("forwarder") => Listening)

\* What the messages say has a cause.
Caused(m) ==
  \/ m.kind = "batch" /\ fed # 0
  \/ m.kind = "done" /\ bad = 0 /\ Valid
  \/ m.kind = "io" /\ Cause

Causes ==
  /\ state # "broken" /\ (state = "failing" => Cause)
  /\ \A m \in Msgs : Caused(m)

StreamInv ==
  /\ TypeOK /\ Unstarted /\ Feeding /\ Hashing /\ Covered /\ Batching
  /\ Streaming /\ Terminating /\ Causes /\ StreamsFile

\* A step of the pipeline's threads, or of a call, as the pipeline sees it.
StreamStep ==
  \/ PipelineNext
  \/ Start("stream") \/ Start("gather")
  \/ sink = "stream" /\ (NextMsg \/ Abort)
  \/ Joined \/ Drop
  \/ UNCHANGED pipeline

-----------------------------------------------------------------------------
(* Sequences.                                                              *)

LEMMA EmptySeq ==
  ASSUME NEW S, NEW s \in Seq(S)
  PROVE  s = <<>> <=> Len(s) = 0
OBVIOUS

LEMMA BuiltSeq ==
  ASSUME NEW S
  PROVE  /\ <<>> \in Seq(S) /\ Len(<<>>) = 0
         /\ \A x \in S : <<x>> \in Seq(S) /\ Len(<<x>>) = 1
         /\ \A s \in Seq(S), x \in S : Append(s, x) \in Seq(S)
<1>1. \A x \in S : <<x>> \in Seq(S) /\ Len(<<x>>) = 1
  OBVIOUS
<1>2. \A s \in Seq(S), x \in S : Append(s, x) \in Seq(S)
  OBVIOUS
<1>3. QED
  BY <1>1, <1>2

LEMMA MessageSeq ==
  /\ <<>> \in Seq(Message) /\ Len(<<>>) <= 1
  /\ \A m \in Message : <<m>> \in Seq(Message) /\ Len(<<m>>) <= 1
  /\ \A s \in Seq(Message), m \in Message : Append(s, m) \in Seq(Message)
BY BuiltSeq

LEMMA ElemsNil == Elems(<<>>) = {}
BY DEF Elems

LEMMA ElemsAppend ==
  ASSUME NEW S, NEW s \in Seq(S), NEW x \in S
  PROVE  Elems(Append(s, x)) = Elems(s) \cup {x}
<1>1. DOMAIN Append(s, x) = 1..(Len(s) + 1) /\ DOMAIN s = 1..Len(s) /\ Len(s) \in Nat
  OBVIOUS
<1>2. \A i \in 1..(Len(s) + 1) : Append(s, x)[i] = IF i = Len(s) + 1 THEN x ELSE s[i]
  OBVIOUS
<1>3. QED
  BY <1>1, <1>2 DEF Elems

LEMMA ElemsAppendNat ==
  ASSUME NEW s \in Seq(Nat), NEW x \in Nat
  PROVE  Elems(Append(s, x)) = Elems(s) \cup {x}
<1>1. DOMAIN Append(s, x) = 1..(Len(s) + 1) /\ DOMAIN s = 1..Len(s) /\ Len(s) \in Nat
  OBVIOUS
<1>2. \A i \in 1..(Len(s) + 1) : Append(s, x)[i] = IF i = Len(s) + 1 THEN x ELSE s[i]
  OBVIOUS
<1>3. QED
  BY <1>1, <1>2 DEF Elems

LEMMA ElemsTail ==
  ASSUME NEW S, NEW s \in Seq(S), s # <<>>
  PROVE  Elems(s) = {Head(s)} \cup Elems(Tail(s)) /\ Head(s) \in S /\ Tail(s) \in Seq(S)
<1>1. Len(s) \in Nat \ {0} /\ DOMAIN s = 1..Len(s) /\ DOMAIN Tail(s) = 1..(Len(s) - 1)
  OBVIOUS
<1>2. Head(s) = s[1] /\ \A i \in 1..(Len(s) - 1) : Tail(s)[i] = s[i + 1]
  OBVIOUS
<1>3. ASSUME NEW i \in 1..Len(s), i # 1 PROVE s[i] \in Elems(Tail(s))
  <2>1. i - 1 \in 1..(Len(s) - 1) /\ Tail(s)[i - 1] = s[i]
    BY <1>1, <1>2, <1>3
  <2>2. QED
    BY <1>1, <2>1 DEF Elems
<1>4. ASSUME NEW i \in 1..(Len(s) - 1) PROVE Tail(s)[i] \in Elems(s)
  BY <1>1, <1>2 DEF Elems
<1>5. Head(s) \in S /\ Tail(s) \in Seq(S)
  OBVIOUS
<1>6. QED
  BY <1>1, <1>2, <1>3, <1>4, <1>5 DEF Elems

LEMMA ElemsOne ==
  ASSUME NEW x
  PROVE  Elems(<<x>>) = {x}
BY DEF Elems

\* A message joins a channel.
LEMMA ContinuousAppend ==
  ASSUME NEW s \in Seq(Message), NEW k, NEW m \in Message, NEW all,
         Continuous(s, k, all), Continues(m, EndOf(s, k), all)
  PROVE  Continuous(Append(s, m), k, all) /\ EndOf(Append(s, m), k) = LastOf(m)
<1>1. DOMAIN Append(s, m) = 1..(Len(s) + 1) /\ DOMAIN s = 1..Len(s) /\ Len(s) \in Nat
  OBVIOUS
<1>2. \A i \in 1..(Len(s) + 1) : Append(s, m)[i] = IF i = Len(s) + 1 THEN m ELSE s[i]
  OBVIOUS
<1>3. Append(s, m) # <<>> /\ Len(Append(s, m)) = Len(s) + 1
  <2>1. Append(s, m) \in Seq(Message) /\ Len(Append(s, m)) = Len(s) + 1
    OBVIOUS
  <2>2. Len(<<>>) = 0
    OBVIOUS
  <2>3. QED
    BY <1>1, <2>1, <2>2
<1>4. s = <<>> <=> Len(s) = 0
  OBVIOUS
<1>5. Continuous(Append(s, m), k, all)
  <2> SUFFICES ASSUME NEW i \in 1..(Len(s) + 1)
               PROVE  Continues(Append(s, m)[i], IF i = 1 THEN k ELSE LastOf(Append(s, m)[i - 1]), all)
    BY <1>1 DEF Continuous
  <2>1. CASE i = Len(s) + 1
    <3>1. (IF i = 1 THEN k ELSE LastOf(Append(s, m)[i - 1])) = EndOf(s, k)
      <4>1. CASE Len(s) = 0
        BY <1>1, <1>4, <2>1, <4>1 DEF EndOf
      <4>2. CASE Len(s) # 0
        <5>1. i # 1 /\ i - 1 = Len(s) /\ i - 1 \in 1..(Len(s) + 1) /\ i - 1 # Len(s) + 1
          <6>1. Len(s) \in Nat
            OBVIOUS
          <6>2. QED
            BY <2>1, <4>2, <6>1
        <5>2. Append(s, m)[i - 1] = s[Len(s)]
          BY <1>2, <5>1
        <5>3. QED
          BY <1>4, <4>2, <5>1, <5>2 DEF EndOf
      <4>3. QED
        BY <4>1, <4>2
    <3>2. QED
      BY <1>2, <2>1, <3>1
  <2>2. CASE i # Len(s) + 1
    <3>1. i \in DOMAIN s /\ Append(s, m)[i] = s[i] /\ (i # 1 => Append(s, m)[i - 1] = s[i - 1])
      BY <1>1, <1>2, <2>2
    <3>2. QED
      BY <3>1 DEF Continuous
  <2>3. QED
    BY <2>1, <2>2
<1>6. EndOf(Append(s, m), k) = LastOf(m)
  BY <1>1, <1>2, <1>3 DEF EndOf
<1>7. QED
  BY <1>5, <1>6

\* The first message leaves a channel.
LEMMA ContinuousTail ==
  ASSUME NEW s \in Seq(Message), NEW k, NEW all, s # <<>>, Continuous(s, k, all)
  PROVE  /\ Continues(Head(s), k, all)
         /\ Continuous(Tail(s), LastOf(Head(s)), all)
         /\ EndOf(Tail(s), LastOf(Head(s))) = EndOf(s, k)
<1>1. Len(s) \in Nat \ {0} /\ DOMAIN s = 1..Len(s) /\ DOMAIN Tail(s) = 1..(Len(s) - 1)
  OBVIOUS
<1>2. Head(s) = s[1] /\ \A i \in 1..(Len(s) - 1) : Tail(s)[i] = s[i + 1]
  OBVIOUS
<1>3. Len(Tail(s)) = Len(s) - 1 /\ (Tail(s) = <<>> <=> Len(s) = 1)
  <2>1. Tail(s) \in Seq(Message) /\ Len(Tail(s)) = Len(s) - 1
    OBVIOUS
  <2>2. Tail(s) = <<>> <=> Len(Tail(s)) = 0
    BY <2>1, EmptySeq
  <2>3. QED
    BY <1>1, <2>1, <2>2
<1>4. Continues(Head(s), k, all)
  <2>1. 1 \in DOMAIN s
    BY <1>1
  <2>2. QED
    BY <1>2, <2>1 DEF Continuous
<1>5. Continuous(Tail(s), LastOf(Head(s)), all)
  <2> SUFFICES ASSUME NEW i \in 1..(Len(s) - 1)
               PROVE  Continues(Tail(s)[i], IF i = 1 THEN LastOf(Head(s)) ELSE LastOf(Tail(s)[i - 1]), all)
    BY <1>1 DEF Continuous
  <2>1. i + 1 \in DOMAIN s /\ i + 1 # 1 /\ (i + 1) - 1 = i
    BY <1>1
  <2>2. Continues(s[i + 1], LastOf(s[i]), all)
    BY <2>1 DEF Continuous
  <2>3. Tail(s)[i] = s[i + 1] /\ (IF i = 1 THEN Head(s) ELSE Tail(s)[i - 1]) = s[i]
    BY <1>1, <1>2
  <2>4. QED
    BY <2>2, <2>3
<1>6. EndOf(Tail(s), LastOf(Head(s))) = EndOf(s, k)
  BY <1>1, <1>2, <1>3 DEF EndOf
<1>7. QED
  BY <1>4, <1>5, <1>6

\* A channel with one message.
LEMMA ContinuousOne ==
  ASSUME NEW m, NEW k, NEW all
  PROVE  /\ Continuous(<<m>>, k, all) <=> Continues(m, k, all)
         /\ EndOf(<<m>>, k) = LastOf(m)
         /\ Continuous(<<>>, k, all) /\ EndOf(<<>>, k) = k
BY DEF Continuous, EndOf

-----------------------------------------------------------------------------
(* The calls of the Python threads.                                        *)

LEMMA CallsNext ==
  ASSUME Calls, [Next]_vars
  PROVE  StreamStep /\ Calls'
<1> USE DEF Calls, Places, StreamCalls, Go, callVars
<1>1. CASE PipelineNext /\ UNCHANGED callVars
  <2>1. sink' = sink
    BY <1>1 DEF PipelineNext, Producer, Collector, Consumer, Worker, Cut, SendJob, End, ProducerExits,
       Take, Hashed, Collect, Push, Flush, FlushLast, CollectorEnds, Receive, Forward, Gather,
       ScopeEnds, OpenFails
  <2>2. QED
    BY <1>1, <2>1 DEF StreamStep
<1>2. CASE CtrlC \/ RaisedInPython \/ UNCHANGED vars
  BY <1>2 DEF CtrlC, RaisedInPython, vars, pipeline, StreamStep
<1>3. ASSUME NEW t \in Callers,
             TakeGil(t) \/ YieldGil(t) \/ CallNext(t) \/ CallFinish(t) \/ LockStream(t) \/ Finish(t)
               \/ BlockOn(t) \/ BlockOnEnds(t) \/ Transfer(t) \/ PartEnds(t) \/ TransferEnds(t)
               \/ TimerFires(t) \/ Check(t)
      PROVE  StreamStep /\ Calls'
  <2>1. UNCHANGED pipeline
    BY <1>3 DEF TakeGil, YieldGil, CallNext, CallFinish, LockStream, Finish, BlockOn,
       BlockOnEnds, Transfer, PartEnds, TransferEnds, TimerFires, Check
  <2>2. Calls'
    BY <1>3 DEF TakeGil, YieldGil, CallNext, CallFinish, LockStream, Finish, BlockOn,
       BlockOnEnds, Transfer, PartEnds, TransferEnds, TimerFires, Check, pipeline
  <2>3. QED
    BY <2>1, <2>2 DEF StreamStep
<1>4. ASSUME NEW t \in Callers, OpenStream(t) \/ ChunkAndHash(t) \/ ChunkAndHashEnds(t) \/ DropStream(t)
      PROVE  StreamStep /\ Calls'
  <2>1. CASE OpenStream(t)
    BY <2>1 DEF OpenStream, Start, StreamStep
  <2>2. CASE ChunkAndHash(t)
    BY <2>2 DEF ChunkAndHash, Start, StreamStep
  <2>3. CASE ChunkAndHashEnds(t)
    BY <2>3 DEF ChunkAndHashEnds, Joined, StreamStep
  <2>4. CASE DropStream(t)
    BY <2>4 DEF DropStream, Drop, StreamStep
  <2>5. QED
    BY <1>4, <2>1, <2>2, <2>3, <2>4
<1>5. ASSUME NEW t \in Callers, NextBatch(t) \/ PollStream(t) PROVE StreamStep /\ Calls'
  <2>1. sink = "stream"
    BY <1>5 DEF NextBatch, PollStream
  <2>2. StreamStep
    BY <1>5, <2>1 DEF NextBatch, PollStream, StreamStep
  <2>3. sink' = sink
    BY <1>5 DEF NextBatch, PollStream, NextMsg, Joined, Abort, pipeline
  <2>4. at' \in [Callers -> Places]
    BY <1>5 DEF NextBatch, PollStream
  <2>5. QED
    BY <2>1, <2>2, <2>3, <2>4
<1>6. QED
  BY <1>1, <1>2, <1>3, <1>4, <1>5 DEF Next, Python, Returning, Polling, Locking

-----------------------------------------------------------------------------
(* Types.                                                                  *)

LEMMA MessagesType ==
  /\ \A b \in Seq(Nat) : Batch(b) \in Message
  /\ Done \in Message /\ Fail("io") \in Message /\ Terminal \in Message
BY DEF Batch, Done, Fail, Terminal, Message

LEMMA EmitType ==
  ASSUME out \in Seq(Message), NEW m \in Message, Emit(m)
  PROVE  out' \in Seq(Message)
BY DEF Emit

LEMMA ProducerType ==
  ASSUME TypeOK, Producer
  PROVE  TypeOK'
<1> USE DEF TypeOK, Producer, Exit, Threads, source, chans, collector
<1>1. CASE Cut
  BY <1>1 DEF Cut
<1>2. CASE SendJob
  <2>1. work' \in Seq(Nat)
    <3>1. held \in Nat /\ (work' = Append(work, held) \/ work' = work)
      BY <1>2 DEF SendJob
    <3>2. QED
      BY <3>1, BuiltSeq
  <2>2. QED
    BY <1>2, <2>1 DEF SendJob
<1>3. CASE End
  BY <1>3 DEF End
<1>4. CASE ProducerExits
  BY <1>4 DEF ProducerExits
<1>5. QED
  BY <1>1, <1>2, <1>3, <1>4

LEMMA WorkerType ==
  ASSUME TypeOK, NEW w \in Workers, Worker(w)
  PROVE  TypeOK'
<1> USE DEF TypeOK, Worker, Exit, Threads, source, chans, collector
<1>1. CASE Take(w)
  <2>1. work # <<>> => Head(work) \in Nat /\ Tail(work) \in Seq(Nat)
    BY ElemsTail
  <2>2. work' \in Seq(Nat) /\ job' \in [Workers -> Nat]
    BY <1>1, <2>1 DEF Take
  <2>3. exited' \subseteq Threads
    BY <1>1 DEF Take
  <2>4. UNCHANGED <<source, sink, fed, held, ctrl, done, out, fwd, collector, msg, state, got>>
    BY <1>1 DEF Take
  <2>5. QED
    BY <2>2, <2>3, <2>4
<1>2. CASE Hashed(w)
  <2>1. job[w] \in Nat /\ (done' = Append(done, job[w]) \/ done' = done)
    BY <1>2 DEF Hashed
  <2>2. done' \in Seq(Nat) /\ job' \in [Workers -> Nat] /\ exited' \subseteq Threads
    <3>1. done' \in Seq(Nat)
      BY <2>1, BuiltSeq
    <3>2. QED
      BY <1>2, <3>1 DEF Hashed
  <2>3. UNCHANGED <<source, sink, fed, held, ctrl, work, out, fwd, collector, msg, state, got>>
    BY <1>2 DEF Hashed
  <2>4. QED
    BY <2>2, <2>3
<1>3. QED
  BY <1>1, <1>2

LEMMA CollectorType ==
  ASSUME TypeOK, Hashing, Collector
  PROVE  TypeOK'
<1> USE DEF TypeOK, Collector, Exit, Threads, source, chans, collector
<1>1. CASE Collect
  <2>1. done # <<>> => Head(done) \in 1..fed /\ Tail(done) \in Seq(Nat)
    BY ElemsTail DEF Hashing
  <2>2. pending' \subseteq 1..fed /\ done' \in Seq(Nat)
    BY <1>1, <2>1 DEF Collect
  <2>3. UNCHANGED <<source, sink, exited, fed, held, ctrl, work, out, fwd, job, next, batch, msg, state, got>>
    BY <1>1 DEF Collect
  <2>4. QED
    BY <2>2, <2>3
<1>2. CASE Push
  <2>1. next \in 1..fed /\ batch' \in Seq(Nat)
    BY <1>2 DEF Push
  <2>2. pending' \subseteq 1..fed /\ next' \in 1..(fed + 1)
    BY <1>2, <2>1 DEF Push
  <2>3. QED
    BY <1>2, <2>1, <2>2 DEF Push
<1>3. CASE Flush
  BY <1>3, EmitType, MessagesType DEF Flush
<1>4. CASE FlushLast
  BY <1>4, EmitType, MessagesType DEF FlushLast
<1>5. CASE CollectorEnds
  BY <1>5, EmitType, MessagesType DEF CollectorEnds
<1>6. QED
  BY <1>1, <1>2, <1>3, <1>4, <1>5

LEMMA ConsumerType ==
  ASSUME TypeOK, Consumer
  PROVE  TypeOK'
<1> USE DEF TypeOK, Consumer, Exit, Threads, source, chans, collector
<1>1. CASE Receive
  <2>1. out # <<>> => Head(out) \in Message /\ Tail(out) \in Seq(Message)
    BY ElemsTail
  <2>2. msg' \in Seq(Message) /\ Len(msg') <= 1 /\ out' \in Seq(Message)
    <3>1. \/ out # <<>> /\ msg' = <<Head(out)>> /\ out' = Tail(out)
          \/ UNCHANGED <<msg, out>>
      BY <1>1 DEF Receive
    <3>2. QED
      BY <2>1, <3>1, MessageSeq
  <2>3. state' \in States /\ exited' \subseteq Threads
    BY <1>1 DEF Receive, States
  <2>4. QED
    BY <1>1, <2>2, <2>3 DEF Receive
<1>2. CASE Forward
  <2>1. msg[1] \in Message
    BY <1>2, EmptySeq DEF Forward
  <2>2. fwd' \in Seq(Message) /\ msg' \in Seq(Message) /\ Len(msg') <= 1
    <3>1. (fwd' = Append(fwd, msg[1]) \/ fwd' = fwd) /\ msg' = <<>>
      BY <1>2 DEF Forward
    <3>2. QED
      BY <2>1, <3>1, MessageSeq
  <2>3. QED
    BY <1>2, <2>2 DEF Forward
<1>3. CASE Gather
  <2>1. msg[1] \in Message
    BY <1>3, EmptySeq DEF Gather
  <2>2. msg[1].chunks \in Seq(Nat)
    BY <2>1 DEF Message
  <2>3. got' \in Seq(Nat) /\ msg' \in Seq(Message) /\ Len(msg') <= 1
    BY <1>3, <2>2 DEF Gather
  <2>4. state' \in States /\ exited' \subseteq Threads
    BY <1>3 DEF Gather, AfterMsg, States
  <2>5. QED
    BY <1>3, <2>3, <2>4 DEF Gather
<1>4. CASE ScopeEnds
  BY <1>4 DEF ScopeEnds
<1>5. CASE OpenFails
  <2>1. fwd' \in Seq(Message)
    BY <1>5, MessagesType, BuiltSeq DEF OpenFails
  <2>2. state' \in States
    BY <1>5 DEF OpenFails, States
  <2>3. QED
    BY <1>5, <2>1, <2>2 DEF OpenFails
<1>6. QED
  BY <1>1, <1>2, <1>3, <1>4, <1>5

LEMMA StreamType ==
  ASSUME TypeOK, Hashing, StreamStep
  PROVE  TypeOK'
<1> USE DEF TypeOK, source, chans, collector
<1>1. CASE Start("stream") \/ Start("gather")
  BY <1>1 DEF Start, States
<1>2. CASE NextMsg
  <2>1. fwd # <<>> => Head(fwd) \in Message /\ Tail(fwd) \in Seq(Message)
    BY ElemsTail
  <2>2. fwd # <<>> => Head(fwd).chunks \in Seq(Nat)
    BY <2>1 DEF Message
  <2>3. got' \in Seq(Nat) /\ fwd' \in Seq(Message)
    BY <1>2, <2>1, <2>2 DEF NextMsg, Disconnected
  <2>4. state' \in States
    BY <1>2 DEF NextMsg, AfterMsg, States
  <2>5. QED
    BY <1>2, <2>3, <2>4 DEF NextMsg
<1>3. CASE Abort \/ Joined \/ Drop
  BY <1>3 DEF Abort, Joined, Drop, States
<1>4. CASE UNCHANGED pipeline
  BY <1>4 DEF pipeline
<1>5. CASE PipelineNext
  BY <1>5, ProducerType, WorkerType, CollectorType, ConsumerType DEF PipelineNext
<1>6. QED
  BY <1>1, <1>2, <1>3, <1>4, <1>5 DEF StreamStep

-----------------------------------------------------------------------------
(* The producer and the workers.                                           *)

\* Nothing happens before the threads start.
LEMMA UnstartedNext ==
  ASSUME TypeOK, Unstarted, StreamStep
  PROVE  Unstarted'
<1> USE DEF TypeOK, Unstarted, Threads, source, chans, collector
<1>1. CASE PipelineNext
  <2>1. sink' = sink
    BY <1>1 DEF PipelineNext, Producer, Collector, Consumer, Worker, Cut, SendJob, End, ProducerExits,
       Take, Hashed, Collect, Push, Flush, FlushLast, CollectorEnds, Receive, Forward, Gather,
       ScopeEnds, OpenFails
  <2>2. sink # "none"
    BY <1>1 DEF PipelineNext, Producer, Collector, Consumer, Worker, Cut, SendJob, End, ProducerExits,
       Take, Hashed, Collect, Push, Flush, FlushLast, Drained, CollectorEnds, Receive, Forward, Gather,
       ScopeEnds, OpenFails, Running
  <2>3. state' # "none"
    BY <1>1, <2>2 DEF PipelineNext, Producer, Collector, Consumer, Worker, Cut, SendJob, End,
       ProducerExits, Take, Hashed, Collect, Push, Flush, FlushLast, CollectorEnds, Receive, Forward,
       Gather, AfterMsg, ScopeEnds, OpenFails
  <2>4. QED
    BY <2>1, <2>2, <2>3
<1>2. CASE Start("stream") \/ Start("gather")
  BY <1>2 DEF Start
<1>3. CASE sink = "stream" /\ (NextMsg \/ Abort)
  BY <1>3 DEF NextMsg, AfterMsg, Abort
<1>4. CASE Joined \/ Drop
  BY <1>4 DEF Joined, Drop
<1>5. CASE UNCHANGED pipeline
  BY <1>5 DEF pipeline
<1>6. QED
  BY <1>1, <1>2, <1>3, <1>4, <1>5 DEF StreamStep

LEMMA FeedingNext ==
  ASSUME TypeOK, Unstarted, Feeding, StreamStep
  PROVE  Feeding'
<1> USE DEF TypeOK, Feeding, Running, Valid, Threads, source, chans, collector, Exit
<1>1. CASE Cut
  BY <1>1 DEF Cut
<1>2. CASE SendJob
  BY <1>2 DEF SendJob, WorkDropped, Running
<1>3. CASE End
  BY <1>3 DEF End
<1>4. CASE ProducerExits
  BY <1>4 DEF ProducerExits
<1>5. CASE Collector \/ Receive \/ Forward \/ Gather \/ ScopeEnds \/ \E w \in Workers : Worker(w)
  <2>1. UNCHANGED <<source, fed, held, ctrl>>
    BY <1>5 DEF Collector, Worker, Take, Hashed, Collect, Push, Flush, FlushLast, CollectorEnds,
       Receive, Forward, Gather, ScopeEnds
  <2>2. exited \subseteq exited' /\ ("producer" \in exited' => "producer" \in exited)
    BY <1>5, PipelineAssumption DEF Collector, Worker, Take, Hashed, Collect, Push, Flush, FlushLast,
       CollectorEnds, Receive, Forward, Gather, ScopeEnds
  <2>3. QED
    BY <2>1, <2>2
<1>6. CASE OpenFails
  BY <1>6 DEF OpenFails
<1>7. CASE Start("stream") \/ Start("gather")
  BY <1>7 DEF Start, Unstarted
<1>8. CASE NextMsg \/ Abort \/ Joined \/ Drop \/ UNCHANGED pipeline
  BY <1>8 DEF NextMsg, Abort, Joined, Drop, pipeline
<1>9. QED
  BY <1>1, <1>2, <1>3, <1>4, <1>5, <1>6, <1>7, <1>8 DEF StreamStep, PipelineNext, Producer, Consumer

LEMMA HashingNext ==
  ASSUME TypeOK, Unstarted, Feeding, Hashing, StreamStep
  PROVE  Hashing'
<1> USE DEF TypeOK, Hashing, Running, Threads, source, chans, collector, Exit
<1>1. CASE Cut
  BY <1>1 DEF Cut
<1>2. CASE SendJob
  <2>1. UNCHANGED <<fed, exited, done, job>> /\ held \in 1..fed /\ held \in Nat
    BY <1>2 DEF SendJob
  <2>2. Elems(work') \subseteq 1..fed
    <3>1. work' = Append(work, held) \/ work' = work
      BY <1>2 DEF SendJob
    <3>2. Elems(Append(work, held)) = Elems(work) \cup {held}
      BY <2>1, ElemsAppendNat
    <3>3. QED
      BY <2>1, <3>1, <3>2
  <2>3. \A w \in Workers : Running("collector") /\ ~Running(w) => work' = <<>>
    BY <1>2 DEF SendJob, Feeding
  <2>4. QED
    BY <2>1, <2>2, <2>3
<1>3. ASSUME NEW w \in Workers, Take(w) PROVE Hashing'
  <2>1. UNCHANGED <<fed, done>>
    BY <1>3 DEF Take
  <2>2. CASE work # <<>> /\ job' = [job EXCEPT ![w] = Head(work)] /\ work' = Tail(work) /\ UNCHANGED exited
    <3>1. Head(work) \in 1..fed /\ Elems(work') \subseteq 1..fed
      BY <2>2, ElemsTail
    <3>2. QED
      BY <1>3, <2>1, <2>2, <3>1 DEF Take
  <2>3. CASE work = <<>> /\ ~Running("producer") /\ exited' = exited \cup {w} /\ UNCHANGED <<job, work>>
    BY <1>3, <2>1, <2>3 DEF Take
  <2>4. QED
    BY <1>3, <2>2, <2>3 DEF Take
<1>4. ASSUME NEW w \in Workers, Hashed(w) PROVE Hashing'
  <2>1. UNCHANGED <<fed, work>> /\ job' = [job EXCEPT ![w] = 0] /\ job[w] \in 1..fed /\ job[w] \in Nat
    BY <1>4 DEF Hashed
  <2>2. Elems(done') \subseteq 1..fed
    <3>1. done' = Append(done, job[w]) \/ done' = done
      BY <1>4 DEF Hashed
    <3>2. Elems(Append(done, job[w])) = Elems(done) \cup {job[w]}
      BY <2>1, ElemsAppendNat
    <3>3. QED
      BY <2>1, <3>1, <3>2
  <2>3. exited' = exited \/ (~Running("collector") /\ exited' = exited \cup {w})
    BY <1>4 DEF Hashed
  <2>4. QED
    BY <2>1, <2>2, <2>3
<1>5. CASE Collect
  <2>1. done # <<>> /\ done' = Tail(done) /\ UNCHANGED <<fed, work, job, exited>>
    BY <1>5 DEF Collect
  <2>2. Elems(done') \subseteq 1..fed
    BY <2>1, ElemsTail
  <2>3. QED
    BY <2>1, <2>2
<1>6. CASE End \/ ProducerExits \/ Push \/ Flush \/ FlushLast \/ CollectorEnds \/ Receive \/ Forward
             \/ Gather \/ ScopeEnds
  <2>1. UNCHANGED <<fed, work, job, done>>
    BY <1>6 DEF End, ProducerExits, Push, Flush, FlushLast, CollectorEnds, Receive, Forward, Gather,
       ScopeEnds
  <2>2. exited \subseteq exited' /\ \A w \in Workers : w \in exited' => w \in exited
    BY <1>6, PipelineAssumption DEF End, ProducerExits, Push, Flush, FlushLast, CollectorEnds, Receive,
       Forward, Gather, ScopeEnds
  <2>3. QED
    BY <2>1, <2>2
<1>7. CASE OpenFails
  BY <1>7 DEF OpenFails
<1>8. CASE Start("stream") \/ Start("gather")
  BY <1>8 DEF Start, Unstarted
<1>9. CASE NextMsg \/ Abort \/ Joined \/ Drop \/ UNCHANGED pipeline
  BY <1>9 DEF NextMsg, Abort, Joined, Drop, pipeline
<1>10. QED
  BY <1>1, <1>2, <1>3, <1>4, <1>5, <1>6, <1>7, <1>8, <1>9
  DEF StreamStep, PipelineNext, Producer, Consumer, Collector, Worker

\* No chunk is lost on its way to the collector while anyone consumes.
LEMMA CoveredNext ==
  ASSUME TypeOK, Unstarted, Feeding, Hashing, Covered, StreamStep
  PROVE  Covered'
<1> SUFFICES ASSUME Running("collector")', Running("forwarder")', NEW k \in next'..fed' PROVE Somewhere(k)'
  BY DEF Covered
<1> USE DEF TypeOK, Running, Threads, source, chans, collector, Exit
<1>1. CASE Start("stream") \/ Start("gather")
  BY <1>1 DEF Start, Unstarted
<1>2. CASE Cut
  BY <1>2 DEF Cut, Covered, Somewhere
<1>3. CASE SendJob
  <2>1. Somewhere(k) /\ UNCHANGED <<fed, done, job, pending>>
    BY <1>3 DEF SendJob, Covered
  <2>2. work' = Append(work, held) /\ held \in Nat
    BY <1>3 DEF SendJob, WorkDropped
  <2>3. Elems(work') = Elems(work) \cup {held}
    BY <2>2, ElemsAppendNat
  <2>4. QED
    BY <2>1, <2>3 DEF Somewhere
<1>4. ASSUME NEW w \in Workers, Take(w) PROVE Somewhere(k)'
  <2>1. Somewhere(k) /\ UNCHANGED <<held, done, pending>>
    BY <1>4, PipelineAssumption DEF Take, Covered
  <2>2. CASE work # <<>> /\ job' = [job EXCEPT ![w] = Head(work)] /\ work' = Tail(work)
    <3>1. Elems(work) = {Head(work)} \cup Elems(work')
      BY <2>2, ElemsTail
    <3>2. job[w] = 0 /\ k # 0 /\ job'[w] = Head(work) /\ \A v \in Workers \ {w} : job'[v] = job[v]
      BY <1>4, <2>2 DEF Take
    <3>3. QED
      BY <2>1, <3>1, <3>2 DEF Somewhere
  <2>3. CASE UNCHANGED <<job, work>>
    BY <2>1, <2>3 DEF Somewhere
  <2>4. QED
    BY <1>4, <2>2, <2>3 DEF Take
<1>5. ASSUME NEW w \in Workers, Hashed(w) PROVE Somewhere(k)'
  <2>1. Somewhere(k) /\ UNCHANGED <<held, work, pending>>
    BY <1>5, PipelineAssumption DEF Hashed, Covered
  <2>2. done' = Append(done, job[w]) /\ job[w] \in Nat
    BY <1>5 DEF Hashed
  <2>3. Elems(done') = Elems(done) \cup {job[w]}
    BY <2>2, ElemsAppendNat
  <2>4. \A v \in Workers \ {w} : job'[v] = job[v]
    BY <1>5 DEF Hashed
  <2>5. QED
    BY <2>1, <2>3, <2>4 DEF Somewhere
<1>6. CASE Collect
  <2>1. Somewhere(k) /\ UNCHANGED <<held, work, job>>
    BY <1>6 DEF Collect, Covered
  <2>2. done # <<>> /\ done' = Tail(done) /\ pending' = pending \cup {Head(done)}
    BY <1>6 DEF Collect
  <2>3. Elems(done) = {Head(done)} \cup Elems(done')
    BY <2>2, ElemsTail
  <2>4. QED
    BY <2>1, <2>2, <2>3 DEF Somewhere
<1>7. CASE Push
  <2>1. k # next /\ Somewhere(k)
    BY <1>7 DEF Push, Covered
  <2>2. QED
    BY <1>7, <2>1 DEF Push, Somewhere
<1>8. CASE End \/ ProducerExits \/ Flush \/ FlushLast \/ CollectorEnds \/ Receive \/ Forward \/ Gather
             \/ ScopeEnds \/ NextMsg \/ Abort \/ Joined \/ Drop \/ UNCHANGED pipeline
  <2>1. UNCHANGED <<fed, held, work, job, done, pending, next>>
    BY <1>8 DEF End, ProducerExits, Flush, FlushLast, CollectorEnds, Receive, Forward, Gather,
       ScopeEnds, NextMsg, Abort, Joined, Drop, pipeline
  <2>2. exited \subseteq exited'
    BY <1>8 DEF End, ProducerExits, Flush, FlushLast, CollectorEnds, Receive, Forward, Gather,
       ScopeEnds, NextMsg, Abort, Joined, Drop, pipeline
  <2>3. QED
    BY <2>1, <2>2 DEF Covered, Somewhere
<1>9. CASE OpenFails
  BY <1>9 DEF OpenFails
<1>10. QED
  BY <1>1, <1>2, <1>3, <1>4, <1>5, <1>6, <1>7, <1>8, <1>9
  DEF StreamStep, PipelineNext, Producer, Consumer, Collector, Worker

LEMMA BatchingNext ==
  ASSUME TypeOK, Unstarted, Batching, StreamStep
  PROVE  Batching'
<1> USE DEF TypeOK, Batching, source, chans, collector
<1>1. CASE Push
  <2>1. batch' = Append(batch, next) /\ next' = next + 1 /\ next \in Nat /\ Len(batch) \in Nat
    BY <1>1 DEF Push
  <2>2. Len(batch') = Len(batch) + 1
    BY <2>1
  <2>3. \A i \in 1..Len(batch') : batch'[i] = IF i = Len(batch) + 1 THEN next ELSE batch[i]
    BY <2>1
  <2>4. QED
    BY <2>1, <2>2, <2>3
<1>2. CASE Flush \/ FlushLast
  BY <1>2 DEF Flush, FlushLast
<1>3. CASE Producer \/ (\E w \in Workers : Worker(w)) \/ Collect \/ CollectorEnds \/ Consumer
             \/ Start("stream") \/ Start("gather") \/ NextMsg \/ Abort \/ Joined \/ Drop \/ UNCHANGED pipeline
  <2>1. UNCHANGED <<next, batch>>
    BY <1>3 DEF Producer, Cut, SendJob, End, ProducerExits, Worker, Take, Hashed, Collect, CollectorEnds,
       Consumer, Receive, Forward, Gather, ScopeEnds, OpenFails, Start, NextMsg, Abort, Joined, Drop,
       pipeline
  <2>2. QED
    BY <2>1
<1>4. QED
  BY <1>1, <1>2, <1>3 DEF StreamStep, PipelineNext, Collector

\* The collector that has drained its channel has every chunk, and the status.
LEMMA TerminalSound ==
  ASSUME TypeOK, Feeding, Hashing, Covered, Drained, Running("forwarder")
  PROVE  \/ Terminal = Done /\ ctrl = "finished" /\ next = n + 1 /\ bad = 0 /\ Valid
         \/ Terminal = Fail("io") /\ bad # 0
<1> USE DEF TypeOK, Drained, DoneClosed, Running
<1>1. PICK w \in Workers : ~Running(w)
  BY PipelineAssumption
<1>2. ctrl # "none" /\ held = 0 /\ work = <<>>
  BY <1>1 DEF Feeding, Hashing
<1>3. next > fed
  <2>1. ~Somewhere(next)
    <3>1. Elems(work) = {} /\ Elems(done) = {}
      BY <1>2, ElemsNil
    <3>2. \A v \in Workers : job[v] = 0
      BY DEF Hashing
    <3>3. QED
      BY <1>2, <3>1, <3>2 DEF Somewhere
  <2>2. QED
    BY <2>1 DEF Covered
<1>4. CASE ctrl = "failed"
  BY <1>4 DEF Terminal, Feeding
<1>5. CASE ctrl = "finished"
  <2>1. fed = n /\ bad = 0 /\ Valid
    BY <1>5 DEF Feeding
  <2>2. next = n + 1
    BY <1>3, <2>1
  <2>3. Terminal = Done
    BY <1>3, <1>5 DEF Terminal
  <2>4. QED
    BY <1>5, <2>1, <2>2, <2>3
<1>6. QED
  BY <1>2, <1>4, <1>5

-----------------------------------------------------------------------------
(* The messages.                                                           *)

LEMMA SourceFixed ==
  ASSUME StreamStep
  PROVE  UNCHANGED source
BY DEF StreamStep, pipeline, source, PipelineNext, Producer, Collector, Consumer, Worker, Cut, SendJob,
   End, ProducerExits, Take, Hashed, Collect, Push, Flush, FlushLast, CollectorEnds, Receive, Forward,
   Gather, ScopeEnds, OpenFails, Start, NextMsg, Abort, Joined, Drop

LEMMA OneMsg ==
  ASSUME TypeOK, msg # <<>>
  PROVE  msg = <<msg[1]>> /\ msg[1] \in Message /\ Elems(msg) = {msg[1]}
<1>1. Len(msg) = 1 /\ msg \in Seq(Message)
  <2>1. msg \in Seq(Message) /\ Len(msg) <= 1
    BY DEF TypeOK
  <2>2. Len(msg) \in Nat
    BY <2>1
  <2>3. Len(msg) # 0
    BY <2>1, EmptySeq
  <2>4. ASSUME NEW k \in Nat, k <= 1, k # 0 PROVE k = 1
    BY <2>4
  <2>5. QED
    BY <2>1, <2>2, <2>3, <2>4
<1>2. msg[1] \in Message /\ msg = <<msg[1]>>
  BY <1>1
<1>3. QED
  BY <1>2, ElemsOne

LEMMA MsgsEmit ==
  ASSUME TypeOK, NEW m \in Message, Emit(m), UNCHANGED <<fwd, msg>>
  PROVE  Msgs' = IF Running("forwarder") THEN Msgs \cup {m} ELSE Msgs
<1>1. CASE Running("forwarder")
  <2>1. out' = Append(out, m)
    BY <1>1 DEF Emit
  <2>2. Elems(out') = Elems(out) \cup {m}
    BY <2>1, ElemsAppend DEF TypeOK
  <2>3. QED
    BY <1>1, <2>2 DEF Msgs
<1>2. CASE ~Running("forwarder")
  BY <1>2 DEF Emit, Msgs
<1>3. QED
  BY <1>1, <1>2

LEMMA MsgsReceive ==
  ASSUME TypeOK, Receive
  PROVE  Msgs' = Msgs
<1>1. CASE out # <<>> /\ msg' = <<Head(out)>> /\ out' = Tail(out)
  <2>1. Elems(out) = {Head(out)} \cup Elems(out')
    BY <1>1, ElemsTail DEF TypeOK
  <2>2. Elems(msg) = {} /\ Elems(msg') = {Head(out)} /\ fwd' = fwd
    BY <1>1, ElemsNil, ElemsOne DEF Receive
  <2>3. QED
    BY <2>1, <2>2 DEF Msgs
<1>2. CASE UNCHANGED <<msg, out>>
  BY <1>2 DEF Receive, Msgs
<1>3. QED
  BY <1>1, <1>2 DEF Receive

LEMMA MsgsForward ==
  ASSUME TypeOK, Forward
  PROVE  Msgs' \subseteq Msgs /\ (Listening => Msgs' = Msgs)
<1>1. Elems(msg) = {msg[1]} /\ msg[1] \in Message /\ Elems(msg') = {} /\ out' = out
  BY OneMsg, ElemsNil DEF Forward
<1>2. Elems(Append(fwd, msg[1])) = Elems(fwd) \cup {msg[1]}
  BY <1>1, ElemsAppend DEF TypeOK
<1>3. IF Listening THEN fwd' = Append(fwd, msg[1]) ELSE fwd' = fwd
  BY DEF Forward
<1>4. QED
  BY <1>1, <1>2, <1>3 DEF Msgs

LEMMA MsgsGather ==
  ASSUME TypeOK, Gather
  PROVE  Msgs = Msgs' \cup {msg[1]}
<1>1. Elems(msg) = {msg[1]} /\ Elems(msg') = {} /\ UNCHANGED <<fwd, out>>
  BY OneMsg, ElemsNil DEF Gather, chans
<1>2. QED
  BY <1>1 DEF Msgs

LEMMA MsgsNext ==
  ASSUME TypeOK, NextMsg, fwd # <<>>
  PROVE  Msgs = Msgs' \cup {Head(fwd)}
<1>1. fwd' = Tail(fwd) /\ UNCHANGED <<msg, out>>
  BY DEF NextMsg, Disconnected
<1>2. Elems(fwd) = {Head(fwd)} \cup Elems(fwd')
  BY <1>1, ElemsTail DEF TypeOK
<1>3. QED
  BY <1>1, <1>2 DEF Msgs

\* The steps that touch no message.
Apart ==
  \/ Producer \/ (\E w \in Workers : Worker(w)) \/ Collect \/ Push \/ ScopeEnds
  \/ Start("stream") \/ Start("gather") \/ (sink = "stream" /\ Abort) \/ Joined \/ Drop
  \/ UNCHANGED pipeline

LEMMA MsgsApart ==
  ASSUME Apart
  PROVE  Msgs' = Msgs /\ UNCHANGED <<fwd, msg, out, got>>
<1>1. UNCHANGED <<fwd, msg, out, got>>
  BY DEF Apart, pipeline, chans, Producer, Worker, Cut, SendJob, End, ProducerExits, Take, Hashed,
     Collect, Push, ScopeEnds, Start, Abort, Joined, Drop
<1>2. QED
  BY <1>1 DEF Msgs

LEMMA StepKinds ==
  ASSUME StreamStep
  PROVE  \/ Apart \/ Flush \/ FlushLast \/ CollectorEnds \/ Receive \/ Forward \/ Gather \/ OpenFails
         \/ sink = "stream" /\ NextMsg
BY DEF StreamStep, PipelineNext, Collector, Consumer, Apart

\* A collector that never batched anything has sent nothing.
LEMMA Quiet ==
  ASSUME StreamInv, OpenFails
  PROVE  fwd = <<>> /\ msg = <<>> /\ out = <<>>
<1>1. Running("collector") /\ fed = 0
  BY DEF OpenFails, Running
<1>2. Msgs = {}
  BY <1>1 DEF StreamInv, Terminating, Causes, Caused
<1>3. ASSUME NEW s \in Seq(Message), Elems(s) = {} PROVE s = <<>>
  <2>1. Len(s) \in Nat /\ DOMAIN s = 1..Len(s)
    OBVIOUS
  <2>2. Len(s) = 0
    BY <1>3, <2>1 DEF Elems
  <2>3. QED
    BY <2>2, EmptySeq
<1>4. QED
  BY <1>2, <1>3 DEF Msgs, StreamInv, TypeOK

\* The forwarder, and so the stream, ends after a terminal message only.
LEMMA NeverBroken ==
  ASSUME StreamInv, StreamStep
  PROVE  /\ sink = "gather" /\ Receive => out # <<>>
         /\ NextMsg => fwd # <<>>
<1> USE DEF StreamInv, Terminating, Running
<1>1. ASSUME sink = "gather", Receive, out = <<>> PROVE FALSE
  <2>1. Listening /\ ~Running("collector") /\ msg = <<>> /\ fwd = <<>>
    BY <1>1 DEF Receive
  <2>2. Msgs = {}
    BY <1>1, <2>1, ElemsNil DEF Msgs
  <2>3. QED
    BY <2>1, <2>2
<1>2. ASSUME NextMsg, fwd = <<>> PROVE FALSE
  <2>1. Listening /\ ~Running("forwarder")
    BY <1>2 DEF NextMsg, Disconnected
  <2>2. Msgs = {}
    BY <1>2, <2>1, ElemsNil DEF Msgs
  <2>3. QED
    BY <2>1, <2>2
<1>3. QED
  BY <1>1, <1>2

\* What a message adds to the chunks a consumer has.
LEMMA GotGrows ==
  ASSUME NEW g \in Seq(Nat), NEW m \in Message, NEW all,
         g = [i \in 1..Len(g) |-> i], Continues(m, Len(g), all)
  PROVE  /\ g \o m.chunks = [i \in 1..Len(g \o m.chunks) |-> i]
         /\ m.kind = "batch" => Len(g \o m.chunks) = LastOf(m)
         /\ m.kind # "batch" => Len(g \o m.chunks) = Len(g)
<1> DEFINE c == m.chunks
<1>1. c \in Seq(Nat) /\ (c = <<>> <=> Len(c) = 0)
  <2>1. c \in Seq(Nat)
    BY DEF Message
  <2>2. QED
    BY <2>1, EmptySeq
<1>2. Len(g) \in Nat /\ Len(c) \in Nat
  BY <1>1
<1>3. g \o c \in Seq(Nat) /\ Len(g \o c) = Len(g) + Len(c)
  BY <1>1
<1>4. \A i \in 1..(Len(g) + Len(c)) : (g \o c)[i] = IF i <= Len(g) THEN g[i] ELSE c[i - Len(g)]
  BY <1>1
<1>5. \A i \in 1..Len(c) : c[i] = Len(g) + i
  <2>1. CASE m.kind = "batch"
    BY <2>1 DEF Continues
  <2>2. CASE m.kind # "batch"
    <3>1. Len(c) = 0
      BY <2>2, <1>1 DEF Continues
    <3>2. QED
      BY <3>1
  <2>3. QED
    BY <2>1, <2>2
<1>6. \A i \in 1..Len(g) : g[i] = i
  OBVIOUS
<1>7. \A i \in 1..(Len(g) + Len(c)) : (g \o c)[i] = i
  BY <1>2, <1>4, <1>5, <1>6
<1>8. g \o c = [i \in 1..Len(g \o c) |-> i]
  <2> HIDE DEF c
  <2>1. ASSUME NEW f \in Seq(Nat) PROVE f = [i \in 1..Len(f) |-> f[i]]
    OBVIOUS
  <2>2. QED
    BY <1>3, <1>7, <2>1
<1>9. m.kind = "batch" => Len(g \o c) = LastOf(m)
  <2> SUFFICES ASSUME m.kind = "batch" PROVE Len(g) + Len(c) = c[Len(c)]
    BY <1>3 DEF LastOf
  <2>1. Len(c) # 0
    BY <1>1 DEF Continues
  <2>2. Len(c) \in 1..Len(c)
    BY <1>2, <2>1
  <2> HIDE DEF c
  <2>3. QED
    BY <1>5, <2>2
<1>10. m.kind # "batch" => Len(g \o c) = Len(g)
  <2>1. m.kind # "batch" => Len(c) = 0
    BY <1>1 DEF Continues
  <2> HIDE DEF c
  <2>2. ASSUME NEW k \in Nat PROVE k + 0 = k
    OBVIOUS
  <2>3. Len(c) = 0 => Len(g \o c) = Len(g)
    BY <1>2, <1>3, <2>2
  <2>4. QED
    BY <2>1, <2>3
<1>11. QED
  BY <1>8, <1>9, <1>10

-----------------------------------------------------------------------------
(* Order.                                                                  *)

\* A stream that has ended, failed or been abandoned does not come back.
LEMMA ListeningBefore ==
  ASSUME StreamInv, StreamStep, state' \in {"none", "streaming"}
  PROVE  state \in {"none", "streaming"}
<1> USE DEF StreamInv, Unstarted, TypeOK, source, chans, collector
<1>1. CASE Gather
  BY <1>1 DEF Gather, Terminating, Listening
<1>2. CASE NextMsg
  BY <1>2 DEF NextMsg, Listening
<1>3. CASE OpenFails \/ Receive
  BY <1>3 DEF OpenFails, Receive
<1>4. CASE Start("stream") \/ Start("gather")
  BY <1>4 DEF Start
<1>5. CASE Abort \/ Joined \/ Drop
  BY <1>5 DEF Abort, Joined, Drop, Listening
<1>6. CASE Producer \/ (\E w \in Workers : Worker(w)) \/ Collector \/ Forward \/ ScopeEnds \/ UNCHANGED pipeline
  BY <1>6 DEF Producer, Worker, Cut, SendJob, End, ProducerExits, Take, Hashed, Collector, Collect, Push,
     Flush, FlushLast, CollectorEnds, Forward, ScopeEnds, pipeline
<1>7. QED
  BY <1>1, <1>2, <1>3, <1>4, <1>5, <1>6 DEF StreamStep, PipelineNext, Consumer

\* What the collector's batch says of it.
LEMMA BatchContinues ==
  ASSUME TypeOK, Batching, batch # <<>>
  PROVE  /\ Batch(batch) \in Message /\ next - 1 - Len(batch) \in Nat
         /\ Continues(Batch(batch), next - 1 - Len(batch), n)
         /\ LastOf(Batch(batch)) = next - 1
<1>1. batch \in Seq(Nat) /\ next \in Nat
  BY DEF TypeOK
<1>2. Len(batch) \in Nat
  BY <1>1
<1>3. Len(batch) # 0
  BY <1>1, EmptySeq
<1>4. Batch(batch).kind = "batch" /\ Batch(batch).chunks = batch
  BY DEF Batch
<1>5. Continues(Batch(batch), next - 1 - Len(batch), n)
  BY <1>4 DEF Continues, Batching
<1>6. LastOf(Batch(batch)) = next - 1
  <2>1. Len(batch) \in 1..Len(batch)
    BY <1>2, <1>3
  <2>2. batch[Len(batch)] = next - 1 - Len(batch) + Len(batch)
    BY <2>1 DEF Batching
  <2>3. QED
    BY <1>1, <1>2, <1>4, <2>2 DEF LastOf
<1>7. next - 1 - Len(batch) \in Nat
  BY <1>1, <1>2 DEF Batching
<1>8. QED
  BY <1>1, <1>5, <1>6, <1>7, MessagesType

LEMMA StreamingApart ==
  ASSUME StreamInv, Apart, StreamStep
  PROVE  Streaming'
<1> SUFFICES ASSUME state' \in {"none", "streaming"} PROVE Streaming'
  BY DEF Streaming
<1>1. state \in {"none", "streaming"}
  BY ListeningBefore
<1>2. UNCHANGED <<fwd, msg, out, got, n>>
  BY MsgsApart, SourceFixed DEF source
<1>3. Continuous(fwd, Len(got), n)' /\ Continuous(msg, Forwarded, n)' /\ Continuous(out, Handed, n)'
  BY <1>1, <1>2 DEF StreamInv, Streaming, Forwarded, Handed
<1>4. ASSUME Running("collector")' PROVE EndOf(out, Handed) = next' - 1 - Len(batch')
  <2>1. CASE Start("stream") \/ Start("gather")
    <3>1. fwd = <<>> /\ msg = <<>> /\ out = <<>> /\ got = <<>> /\ next' = 1 /\ batch' = <<>>
      BY <2>1 DEF StreamInv, Unstarted, Start, collector
    <3>2. EndOf(out, Handed) = 0
      BY <3>1 DEF EndOf, Handed, Forwarded
    <3>3. QED
      BY <3>1, <3>2
  <2>2. CASE Push
    <3>1. EndOf(out, Handed) = next - 1 - Len(batch)
      BY <1>1, <2>2 DEF Push, StreamInv, Streaming
    <3>2. batch' = Append(batch, next) /\ next' = next + 1 /\ next \in Nat /\ batch \in Seq(Nat)
      BY <2>2 DEF Push, StreamInv, TypeOK
    <3>3. Len(batch') = Len(batch) + 1 /\ Len(batch) \in Nat
      BY <3>2
    <3>4. QED
      BY <3>1, <3>2, <3>3
  <2>3. CASE Producer \/ (\E w \in Workers : Worker(w)) \/ Collect \/ ScopeEnds \/ Abort \/ Joined \/ Drop
               \/ UNCHANGED pipeline
    <3>1. UNCHANGED <<next, batch>> /\ exited \subseteq exited'
      BY <2>3 DEF Producer, Worker, Cut, SendJob, End, ProducerExits, Take, Hashed, Collect, ScopeEnds,
         Abort, Joined, Drop, pipeline, collector, Exit
    <3>2. QED
      BY <1>1, <1>4, <3>1 DEF Running, StreamInv, Streaming
  <2>4. QED
    BY <2>1, <2>2, <2>3 DEF Apart
<1>5. QED
  BY <1>2, <1>3, <1>4 DEF Streaming, Forwarded, Handed

\* A message the collector sends continues what is in the channels.
LEMMA StreamingEmit ==
  ASSUME StreamInv, StreamStep, state \in {"none", "streaming"}, Running("forwarder"),
         NEW m \in Message, Emit(m), UNCHANGED <<fwd, msg, got>>, Continues(m, EndOf(out, Handed), n),
         Running("collector")' => LastOf(m) = next' - 1 - Len(batch')
  PROVE  Streaming'
<1>1. out' = Append(out, m) /\ n' = n /\ out \in Seq(Message)
  BY SourceFixed DEF Emit, source, StreamInv, TypeOK
<1>2. Continuous(out, Handed, n)
  BY DEF StreamInv, Streaming
<1>3. Continuous(out', Handed, n) /\ EndOf(out', Handed) = LastOf(m)
  BY <1>1, <1>2, ContinuousAppend
<1>4. QED
  BY <1>1, <1>3 DEF StreamInv, Streaming, Forwarded, Handed

\* Nobody listens once the forwarder is gone and the collector is not.
LEMMA Deaf ==
  ASSUME StreamInv, Running("collector"), ~Running("forwarder")
  PROVE  state \notin {"none", "streaming"}
<1>1. state # "none"
  BY DEF StreamInv, Unstarted, Running, Threads
<1>2. QED
  BY <1>1 DEF StreamInv, Terminating, Listening

LEMMA StreamingCollector ==
  ASSUME StreamInv, StreamStep, Flush \/ FlushLast \/ CollectorEnds
  PROVE  Streaming'
<1> SUFFICES ASSUME state' \in {"none", "streaming"} PROVE Streaming'
  BY DEF Streaming
<1>1. state \in {"none", "streaming"}
  BY ListeningBefore
<1>2. Running("collector") /\ UNCHANGED <<fwd, msg, got>>
  BY DEF Flush, FlushLast, CollectorEnds, Drained
<1>3. Running("forwarder")
  BY <1>1, <1>2, Deaf
<1>4. EndOf(out, Handed) = next - 1 - Len(batch)
  BY <1>1, <1>2 DEF StreamInv, Streaming
<1>5. next \in Nat /\ batch \in Seq(Nat) /\ n \in Nat
  BY DEF StreamInv, TypeOK
<1>6. CASE Flush \/ FlushLast
  <2>1. batch # <<>>
    <3>1. Flush => Len(batch) # 0
      <4>1. BatchSize \in Nat \ {0} /\ Len(batch) \in Nat
        BY <1>5, PipelineAssumption
      <4>2. QED
        BY <4>1 DEF Flush
    <3>2. QED
      BY <1>5, <1>6, <3>1, EmptySeq DEF FlushLast
  <2>2. /\ Batch(batch) \in Message /\ Continues(Batch(batch), EndOf(out, Handed), n)
        /\ LastOf(Batch(batch)) = next - 1
    BY <1>4, <2>1, BatchContinues DEF StreamInv
  <2>3. batch' = <<>> /\ next' = next /\ Emit(Batch(batch))
    BY <1>6 DEF Flush, FlushLast
  <2>4. LastOf(Batch(batch)) = next' - 1 - Len(batch')
    BY <1>5, <2>2, <2>3
  <2>5. QED
    BY <1>1, <1>2, <1>3, <2>2, <2>3, <2>4, StreamingEmit
<1>7. CASE CollectorEnds
  <2>1. Terminal \in Message /\ Emit(Terminal) /\ ~Running("collector")'
    BY <1>7, MessagesType DEF CollectorEnds, Exit, Running
  <2>2. \/ Terminal = Done /\ next = n + 1
        \/ Terminal = Fail("io")
    BY <1>3, <1>7, TerminalSound DEF CollectorEnds, StreamInv
  <2>3. Continues(Terminal, EndOf(out, Handed), n)
    <3>1. CASE Terminal = Done /\ next = n + 1
      <4>1. Len(batch) = 0
        BY <1>7, <3>1 DEF CollectorEnds
      <4>2. EndOf(out, Handed) = n
        BY <1>4, <1>5, <3>1, <4>1
      <4>3. QED
        BY <3>1, <4>2 DEF Continues, Done
    <3>2. CASE Terminal = Fail("io")
      BY <3>2 DEF Continues, Fail
    <3>3. QED
      BY <2>2, <3>1, <3>2
  <2>4. QED
    BY <1>1, <1>2, <1>3, <2>1, <2>3, StreamingEmit
<1>8. QED
  BY <1>6, <1>7

LEMMA StreamingConsumer ==
  ASSUME StreamInv, StreamStep, Receive \/ Forward
  PROVE  Streaming'
<1> SUFFICES ASSUME state' \in {"none", "streaming"} PROVE Streaming'
  BY DEF Streaming
<1>1. state \in {"none", "streaming"}
  BY ListeningBefore
<1>2. /\ Continuous(fwd, Len(got), n) /\ Continuous(msg, Forwarded, n) /\ Continuous(out, Handed, n)
      /\ Running("collector") => EndOf(out, Handed) = next - 1 - Len(batch)
  BY <1>1 DEF StreamInv, Streaming
<1>3. /\ n' = n /\ UNCHANGED <<next, batch, got>> /\ (Running("collector")' => Running("collector"))
      /\ out \in Seq(Message) /\ msg \in Seq(Message) /\ fwd \in Seq(Message)
  BY SourceFixed DEF Receive, Forward, source, collector, Running, Exit, StreamInv, TypeOK
<1>4. CASE Receive
  <2>1. fwd' = fwd /\ msg = <<>> /\ Forwarded' = Forwarded /\ Handed = Forwarded
    BY <1>3, <1>4 DEF Receive, Forwarded, Handed, EndOf
  <2>2. CASE out # <<>> /\ msg' = <<Head(out)>> /\ out' = Tail(out)
    <3>1. /\ Continues(Head(out), Handed, n) /\ Continuous(out', LastOf(Head(out)), n)
          /\ EndOf(out', LastOf(Head(out))) = EndOf(out, Handed)
      BY <1>2, <1>3, <2>2, ContinuousTail
    <3>2. Continuous(msg', Forwarded, n) /\ EndOf(msg', Forwarded) = LastOf(Head(out))
      BY <2>1, <2>2, <3>1, ContinuousOne
    <3>3. Handed' = LastOf(Head(out))
      BY <2>1, <3>2 DEF Handed
    <3>4. QED
      BY <1>2, <1>3, <2>1, <3>1, <3>2, <3>3 DEF Streaming
  <2>3. CASE UNCHANGED <<msg, out>>
    BY <1>2, <1>3, <2>1, <2>3 DEF Streaming, Handed
  <2>4. QED
    BY <1>4, <2>2, <2>3 DEF Receive
<1>5. CASE Forward
  <2>1. Listening
    BY <1>1, <1>5 DEF Forward, Listening, StreamInv, Unstarted, Running, Threads
  <2>2. msg' = <<>> /\ out' = out /\ fwd' = Append(fwd, msg[1]) /\ msg # <<>>
    BY <1>5, <2>1 DEF Forward
  <2>3. msg = <<msg[1]>> /\ msg[1] \in Message
    BY <2>2, OneMsg DEF StreamInv
  <2>4. Continues(msg[1], Forwarded, n) /\ Handed = LastOf(msg[1])
    BY <1>2, <2>3, ContinuousOne DEF Handed
  <2>5. Continuous(fwd', Len(got), n) /\ EndOf(fwd', Len(got)) = LastOf(msg[1])
    BY <1>2, <1>3, <2>2, <2>3, <2>4, ContinuousAppend DEF Forwarded
  <2>6. Forwarded' = Handed /\ Handed' = Handed /\ Continuous(msg', Forwarded', n)
    BY <1>3, <2>2, <2>4, <2>5, ContinuousOne DEF Forwarded, Handed
  <2>7. QED
    BY <1>2, <1>3, <2>2, <2>5, <2>6 DEF Streaming
<1>6. QED
  BY <1>4, <1>5

LEMMA StreamingTaken ==
  ASSUME StreamInv, StreamStep, Gather \/ NextMsg \/ OpenFails
  PROVE  Streaming'
<1> SUFFICES ASSUME state' \in {"none", "streaming"} PROVE Streaming'
  BY DEF Streaming
<1>1. state \in {"none", "streaming"}
  BY ListeningBefore
<1>2. /\ Continuous(fwd, Len(got), n) /\ Continuous(msg, Forwarded, n) /\ Continuous(out, Handed, n)
      /\ Running("collector") => EndOf(out, Handed) = next - 1 - Len(batch)
  BY <1>1 DEF StreamInv, Streaming
<1>3. /\ n' = n /\ UNCHANGED <<next, batch, out>> /\ (Running("collector")' => Running("collector"))
      /\ got \in Seq(Nat) /\ got = [i \in 1..Len(got) |-> i] /\ fwd \in Seq(Message)
  BY SourceFixed DEF Gather, NextMsg, OpenFails, source, chans, collector, Running, Exit, Threads,
     StreamInv, TypeOK, StreamsFile
<1>4. CASE Gather
  <2>1. fwd = <<>> /\ fwd' = <<>> /\ msg' = <<>> /\ got' = got \o msg[1].chunks /\ msg # <<>>
    BY <1>4 DEF Gather, chans, StreamInv, Terminating
  <2>2. msg[1] \in Message /\ msg = <<msg[1]>> /\ msg[1].kind = "batch"
    <3>1. msg[1] \in Message /\ msg = <<msg[1]>>
      BY <2>1, OneMsg DEF StreamInv
    <3>2. msg[1].kind = "batch"
      BY <1>4 DEF Gather, AfterMsg
    <3>3. QED
      BY <3>1, <3>2
  <2>3. Forwarded = Len(got) /\ Handed = LastOf(msg[1])
    BY <2>1, <2>2, ContinuousOne DEF Forwarded, Handed
  <2>4. Continues(msg[1], Len(got), n)
    BY <1>2, <2>2, <2>3, ContinuousOne
  <2>5. Len(got') = LastOf(msg[1])
    BY <1>3, <2>1, <2>2, <2>4, GotGrows
  <2>6. Handed' = Handed /\ Forwarded' = Handed
    BY <2>1, <2>3, <2>5, ContinuousOne DEF Forwarded, Handed
  <2>7. QED
    BY <1>2, <1>3, <2>1, <2>6, ContinuousOne DEF Streaming
<1>5. CASE NextMsg
  <2>1. fwd # <<>>
    BY <1>5, NeverBroken
  <2>2. fwd' = Tail(fwd) /\ msg' = msg /\ got' = got \o Head(fwd).chunks /\ Head(fwd).kind = "batch"
    BY <1>5, <2>1 DEF NextMsg, Disconnected, AfterMsg
  <2>3. /\ Continues(Head(fwd), Len(got), n) /\ Continuous(fwd', LastOf(Head(fwd)), n)
        /\ EndOf(fwd', LastOf(Head(fwd))) = Forwarded
    BY <1>2, <1>3, <2>1, <2>2, ContinuousTail DEF Forwarded
  <2>4. Head(fwd) \in Message
    BY <1>3, <2>1, ElemsTail
  <2>5. Len(got') = LastOf(Head(fwd))
    BY <1>3, <2>2, <2>3, <2>4, GotGrows
  <2>6. Forwarded' = Forwarded /\ Handed' = Handed
    BY <2>2, <2>3, <2>5 DEF Forwarded, Handed
  <2>7. QED
    BY <1>2, <1>3, <2>2, <2>3, <2>5, <2>6 DEF Streaming
<1>6. CASE OpenFails
  <2>1. fwd = <<>> /\ msg' = <<>> /\ out' = <<>> /\ ~Running("collector")'
    BY <1>3, <1>6, Quiet DEF OpenFails, Running, Threads
  <2>2. fwd' = <<>> \/ fwd' = <<Fail("io")>>
    BY <1>6, <2>1 DEF OpenFails
  <2>3. Continues(Fail("io"), Len(got'), n)
    BY DEF Continues, Fail
  <2>4. Continuous(fwd', Len(got'), n)
    BY <2>2, <2>3, ContinuousOne
  <2>5. QED
    BY <1>3, <2>1, <2>4, ContinuousOne DEF Streaming
<1>7. QED
  BY <1>4, <1>5, <1>6

\* The channels hold the chunks in order, whoever sends and whoever pulls.
LEMMA StreamingNext ==
  ASSUME StreamInv, StreamStep
  PROVE  Streaming'
BY StepKinds, StreamingApart, StreamingCollector, StreamingConsumer, StreamingTaken

-----------------------------------------------------------------------------
(* Endings.                                                                *)

LEMMA TerminatingApart ==
  ASSUME StreamInv, Apart
  PROVE  Terminating'
<1>1. Msgs' = Msgs /\ UNCHANGED <<fwd, msg, out>>
  BY MsgsApart
<1>2. CASE Start("stream") \/ Start("gather")
  <2>1. exited' = {} /\ Msgs = {} /\ fwd = <<>> /\ state' = "streaming"
    BY <1>2, ElemsNil DEF Start, StreamInv, Unstarted, Msgs
  <2>2. QED
    BY <1>1, <2>1 DEF Terminating, Running, Listening
<1>3. CASE Producer \/ (\E w \in Workers : Worker(w)) \/ Collect \/ Push \/ ScopeEnds \/ UNCHANGED pipeline
  <2>1. UNCHANGED <<sink, state>>
    BY <1>3 DEF Producer, Worker, Cut, SendJob, End, ProducerExits, Take, Hashed, Collect, Push,
       ScopeEnds, pipeline
  <2>2. \A t \in {"collector", "forwarder"} : t \in exited' <=> t \in exited
    BY <1>3, PipelineAssumption DEF Producer, Worker, Cut, SendJob, End, ProducerExits, Take, Hashed,
       Collect, Push, ScopeEnds, pipeline, Exit
  <2>3. "stream" \in exited' => "stream" \in exited \/ "forwarder" \in exited
    BY <1>3, PipelineAssumption DEF Producer, Worker, Cut, SendJob, End, ProducerExits, Take, Hashed,
       Collect, Push, ScopeEnds, pipeline, Exit, Threads
  <2>4. QED
    BY <1>1, <2>1, <2>2, <2>3 DEF StreamInv, Terminating, Running, Listening
<1>4. CASE (sink = "stream" /\ Abort) \/ Joined \/ Drop
  <2>1. exited' = exited /\ (Listening' => Listening)
    BY <1>4 DEF Abort, Joined, Drop, Listening
  <2>2. sink' = "gather" => sink = "gather" /\ (Listening' \/ ~Listening)
    BY <1>4 DEF Abort, Joined, Drop, Listening
  <2>3. QED
    BY <1>1, <2>1, <2>2 DEF StreamInv, Terminating, Running
<1>5. QED
  BY <1>2, <1>3, <1>4 DEF Apart

LEMMA TerminatingCollector ==
  ASSUME StreamInv, Flush \/ FlushLast \/ CollectorEnds
  PROVE  Terminating'
<1>1. Running("collector") /\ UNCHANGED <<fwd, msg, sink, state>>
  BY DEF Flush, FlushLast, CollectorEnds, Drained
<1>2. \A t \in {"forwarder", "stream"} : t \in exited' <=> t \in exited
  BY DEF Flush, FlushLast, CollectorEnds, Exit
<1>3. CASE ~Running("forwarder")
  <2>1. ~Listening
    BY <1>1, <1>3, Deaf DEF Listening
  <2>2. ~Running("collector")' /\ out' = out
    BY <1>3 DEF Flush, FlushLast, CollectorEnds, Exit, Running, Emit
  <2>3. QED
    BY <1>1, <1>2, <2>1, <2>2 DEF StreamInv, Terminating, Running, Listening
<1>4. CASE Running("forwarder") /\ (Flush \/ FlushLast)
  <2>1. exited' = exited /\ Emit(Batch(batch)) /\ Batch(batch) \in Message
    BY <1>4, MessagesType DEF Flush, FlushLast, StreamInv, TypeOK
  <2>2. Msgs' = Msgs \cup {Batch(batch)}
    BY <1>1, <1>4, <2>1, MsgsEmit DEF StreamInv
  <2>3. QED
    BY <1>1, <1>4, <2>1, <2>2 DEF StreamInv, Terminating, Running, Listening, Batch
<1>5. CASE Running("forwarder") /\ CollectorEnds
  <2>1. ~Running("collector")' /\ Emit(Terminal) /\ Terminal \in Message
    BY <1>5, MessagesType DEF CollectorEnds, Exit, Running
  <2>2. Msgs' = Msgs \cup {Terminal}
    BY <1>1, <1>5, <2>1, MsgsEmit DEF StreamInv
  <2>3. Terminal.kind # "batch"
    BY DEF Terminal, Done, Fail
  <2>4. QED
    BY <1>1, <1>2, <1>5, <2>1, <2>2, <2>3 DEF StreamInv, Terminating, Running, Listening
<1>6. QED
  BY <1>3, <1>4, <1>5

LEMMA TerminatingConsumer ==
  ASSUME StreamInv, Receive \/ Forward \/ Gather \/ OpenFails
  PROVE  Terminating'
<1> USE DEF Running, Listening, Terminating, StreamInv
<1>1. CASE Receive
  <2>1. Msgs' = Msgs /\ UNCHANGED <<sink, fwd>>
    BY <1>1, MsgsReceive DEF Receive
  <2>2. CASE UNCHANGED <<exited, state>>
    BY <1>1, <2>1, <2>2 DEF Receive
  <2>3. CASE out = <<>> /\ ~Running("collector") /\ exited' = exited \cup {"forwarder"} /\ UNCHANGED <<msg, out>>
             /\ state' = IF sink = "gather" THEN "broken" ELSE state
    BY <1>1, <2>1, <2>3 DEF Receive
  <2>4. QED
    BY <1>1, <2>2, <2>3 DEF Receive, Exit
<1>2. CASE Forward
  <2>1. Msgs' \subseteq Msgs /\ (Listening => Msgs' = Msgs) /\ UNCHANGED <<sink, state>> /\ sink # "gather"
    BY <1>2, MsgsForward DEF Forward
  <2>2. exited' = exited \/ (exited' = exited \cup {"forwarder"} /\ ~Listening)
    BY <1>2 DEF Forward, Exit
  <2>3. Running("forwarder")
    BY <1>2 DEF Forward
  <2>4. QED
    BY <2>1, <2>2, <2>3
<1>3. CASE Gather
  <2>1. Msgs = Msgs' \cup {msg[1]} /\ UNCHANGED <<sink, fwd>> /\ Running("forwarder") /\ sink = "gather"
    BY <1>3, MsgsGather DEF Gather, chans
  <2>2. Listening' => exited' = exited /\ msg[1].kind = "batch"
    BY <1>3 DEF Gather, AfterMsg
  <2>3. ~Listening' => exited' = exited \cup {"forwarder"}
    BY <1>3 DEF Gather, Exit
  <2>4. Listening
    BY <2>1
  <2>5. QED
    BY <2>1, <2>2, <2>3, <2>4
<1>4. CASE OpenFails
  <2>1. fwd = <<>> /\ msg' = <<>> /\ out' = <<>>
    BY <1>4, Quiet DEF OpenFails
  <2>2. exited' = Threads /\ sink' = sink
    BY <1>4 DEF OpenFails
  <2>3. CASE Listening'
    <3>1. sink # "gather" /\ fwd' = <<Fail("io")>>
      BY <1>4, <2>3 DEF OpenFails
    <3>2. Fail("io") \in Msgs' /\ Fail("io").kind # "batch"
      BY <3>1, ElemsOne DEF Msgs, Fail
    <3>3. QED
      BY <2>1, <2>2, <3>1, <3>2 DEF Threads
  <2>4. CASE ~Listening'
    <3>1. sink = "gather" => fwd' = <<>>
      BY <1>4, <2>1 DEF OpenFails
    <3>2. QED
      BY <2>2, <2>4, <3>1 DEF Threads
  <2>5. QED
    BY <2>3, <2>4
<1>5. QED
  BY <1>1, <1>2, <1>3, <1>4

LEMMA TerminatingNext ==
  ASSUME StreamInv, StreamStep
  PROVE  Terminating'
<1>1. CASE sink = "stream" /\ NextMsg
  <2>1. fwd # <<>>
    BY <1>1, NeverBroken
  <2>2. Msgs = Msgs' \cup {Head(fwd)} /\ UNCHANGED <<msg, out, exited, sink>>
    BY <1>1, <2>1, MsgsNext DEF NextMsg, StreamInv
  <2>3. Listening /\ (Listening' => Head(fwd).kind = "batch")
    BY <1>1, <2>1 DEF NextMsg, Disconnected, AfterMsg, Listening
  <2>4. QED
    BY <1>1, <2>2, <2>3 DEF StreamInv, Terminating, Running
<1>2. QED
  BY <1>1, StepKinds, TerminatingApart, TerminatingCollector, TerminatingConsumer

-----------------------------------------------------------------------------
(* Causes, and the file.                                                   *)

LEMMA CausesNext ==
  ASSUME StreamInv, StreamStep
  PROVE  Causes'
<1>1. UNCHANGED source /\ (Cause' <=> Cause) /\ (Valid' <=> Valid) /\ bad' = bad
  BY SourceFixed DEF source, Cause, Valid, Refused
<1>2. fed # 0 => fed' # 0
  BY DEF StreamInv, TypeOK, StreamStep, pipeline, PipelineNext, Producer, Collector, Consumer, Worker,
     Cut, SendJob, End, ProducerExits, Take, Hashed, Collect, Push, Flush, FlushLast, CollectorEnds,
     Receive, Forward, Gather, ScopeEnds, OpenFails, Start, NextMsg, Abort, Joined, Drop
<1>3. state' # "broken" /\ (state' = "failing" => Cause) /\ (\A m \in Msgs' : m \in Msgs \/ Caused(m)) => Causes'
  BY <1>1, <1>2 DEF StreamInv, Causes, Caused
<1>4. state # "broken" /\ (state = "failing" => Cause)
  BY DEF StreamInv, Causes
<1>5. CASE Apart
  <2>1. Msgs' = Msgs
    BY <1>5, MsgsApart
  <2>2. state' = state \/ state' \in {"streaming", "failed", "finished"}
    BY <1>5 DEF Apart, pipeline, Producer, Worker, Cut, SendJob, End, ProducerExits, Take, Hashed,
     Collect, Push, ScopeEnds, Start, Abort, Joined, Drop
  <2>3. QED
    BY <1>4, <2>1, <2>2, <1>3
<1>6. CASE Flush \/ FlushLast
  <2>1. Emit(Batch(batch)) /\ UNCHANGED <<fwd, msg, state>> /\ Batch(batch) \in Message
    BY <1>6, MessagesType DEF Flush, FlushLast, StreamInv, TypeOK
  <2>2. Msgs' \subseteq Msgs \cup {Batch(batch)}
    BY <2>1, MsgsEmit DEF StreamInv
  <2>3. fed # 0
    <3>1. batch \in Seq(Nat) /\ next \in 1..(fed + 1) /\ fed \in Nat /\ Len(batch) <= next - 1
      BY DEF StreamInv, TypeOK, Batching
    <3>2. Len(batch) \in Nat /\ BatchSize \in Nat \ {0}
      BY <3>1, PipelineAssumption
    <3>3. Len(batch) # 0
      <4>1. FlushLast => Len(batch) # 0
        BY <3>1, EmptySeq DEF FlushLast
      <4>2. QED
        BY <1>6, <3>2, <4>1 DEF Flush
    <3>4. QED
      BY <3>1, <3>2, <3>3
  <2>4. QED
    BY <1>3, <1>4, <2>1, <2>2, <2>3 DEF Batch, Caused
<1>7. CASE CollectorEnds
  <2>1. Emit(Terminal) /\ UNCHANGED <<fwd, msg, state>> /\ Terminal \in Message
    BY <1>7, MessagesType DEF CollectorEnds
  <2>2. CASE ~Running("forwarder")
    <3>1. Msgs' = Msgs
      BY <2>1, <2>2, MsgsEmit DEF StreamInv
    <3>2. QED
      BY <1>3, <1>4, <2>1, <3>1
  <2>3. CASE Running("forwarder")
    <3>1. Msgs' = Msgs \cup {Terminal}
      BY <2>1, <2>3, MsgsEmit DEF StreamInv
    <3>2. Caused(Terminal)
      BY <1>7, <2>3, TerminalSound DEF CollectorEnds, StreamInv, Done, Fail, Cause, Caused
    <3>3. QED
      BY <1>3, <1>4, <2>1, <3>1, <3>2
  <2>4. QED
    BY <2>2, <2>3
<1>8. CASE Receive
  <2>1. Msgs' = Msgs
    BY <1>8, MsgsReceive DEF StreamInv
  <2>2. state' = state
    BY <1>8, NeverBroken DEF Receive
  <2>3. QED
    BY <1>3, <1>4, <2>1, <2>2
<1>9. CASE Forward
  <2>1. Msgs' \subseteq Msgs /\ state' = state
    BY <1>9, MsgsForward DEF Forward, StreamInv
  <2>2. QED
    BY <1>3, <1>4, <2>1
<1>10. CASE Gather
  <2>1. Msgs = Msgs' \cup {msg[1]} /\ state' = AfterMsg(msg[1])
    BY <1>10, MsgsGather DEF Gather, StreamInv
  <2>2. state' # "broken" /\ (state' = "failing" => Cause)
    BY <2>1 DEF AfterMsg, StreamInv, Causes, Caused
  <2>3. QED
    BY <1>3, <2>1, <2>2
<1>11. CASE OpenFails
  <2>1. fwd = <<>> /\ UNCHANGED <<msg, out>> /\ (fwd' = <<>> \/ fwd' = <<Fail("io")>>)
    BY <1>11, Quiet DEF OpenFails
  <2>2. Msgs' \subseteq Msgs \cup {Fail("io")}
    BY <2>1, ElemsNil, ElemsOne DEF Msgs
  <2>3. Cause /\ (state' = "failing" \/ state' = state)
    BY <1>11 DEF OpenFails, Cause
  <2>4. QED
    BY <1>3, <1>4, <2>2, <2>3 DEF Fail, Caused
<1>12. CASE sink = "stream" /\ NextMsg
  <2>1. fwd # <<>>
    BY <1>12, NeverBroken
  <2>2. Msgs = Msgs' \cup {Head(fwd)} /\ state' = AfterMsg(Head(fwd))
    BY <1>12, <2>1, MsgsNext DEF NextMsg, Disconnected, StreamInv
  <2>3. state' # "broken" /\ (state' = "failing" => Cause)
    BY <2>2 DEF AfterMsg, StreamInv, Causes, Caused
  <2>4. QED
    BY <1>3, <2>2, <2>3
<1>13. QED
  BY StepKinds, <1>5, <1>6, <1>7, <1>8, <1>9, <1>10, <1>11, <1>12

\* A consumer takes message m, the next one of the stream.
LEMMA TakesNext ==
  ASSUME StreamInv, StreamStep, NEW m \in Msgs, m \in Message, Continues(m, Len(got), n),
         got' = got \o m.chunks, state' = AfterMsg(m)
  PROVE  StreamsFile'
<1>1. UNCHANGED <<n, bad, avg>>
  BY SourceFixed DEF source
<1>2. got \in Seq(Nat) /\ got = [i \in 1..Len(got) |-> i]
  BY DEF StreamInv, TypeOK, StreamsFile
<1>3. got' = [i \in 1..Len(got') |-> i] /\ (m.kind # "batch" => Len(got') = Len(got))
  BY <1>2, GotGrows
<1>4. state' \in {"reaping", "finished"} => Len(got') = n /\ bad = 0 /\ Valid
  <2> SUFFICES ASSUME state' \in {"reaping", "finished"} PROVE Len(got') = n /\ bad = 0 /\ Valid
    OBVIOUS
  <2>1. m.kind = "done"
    BY DEF AfterMsg
  <2>2. Len(got) = n /\ bad = 0 /\ Valid
    BY <2>1 DEF Continues, StreamInv, Causes, Caused
  <2>3. QED
    BY <1>3, <2>1, <2>2
<1>5. QED
  BY <1>1, <1>3, <1>4 DEF StreamsFile, Valid

LEMMA StreamsFileNext ==
  ASSUME StreamInv, StreamStep
  PROVE  StreamsFile'
<1>1. CASE Gather
  <2>1. msg # <<>> /\ fwd = <<>> /\ Listening
    BY <1>1 DEF Gather, StreamInv, Terminating
  <2>2. msg = <<msg[1]>> /\ msg[1] \in Message /\ msg[1] \in Msgs
    BY <2>1, OneMsg DEF Msgs, StreamInv
  <2>3. Continuous(msg, Forwarded, n) /\ Forwarded = Len(got)
    BY <2>1 DEF StreamInv, Streaming, Listening, Forwarded, EndOf
  <2>4. Continues(msg[1], Len(got), n)
    BY <2>2, <2>3, ContinuousOne
  <2>5. got' = got \o msg[1].chunks /\ state' = AfterMsg(msg[1])
    BY <1>1 DEF Gather
  <2>6. QED
    BY <2>2, <2>4, <2>5, TakesNext
<1>2. CASE NextMsg
  <2>1. fwd # <<>> /\ Listening /\ fwd \in Seq(Message)
    BY <1>2, NeverBroken DEF NextMsg, StreamInv, TypeOK
  <2>2. Head(fwd) \in Message /\ Head(fwd) \in Msgs
    BY <2>1, ElemsTail DEF Msgs
  <2>3. Continuous(fwd, Len(got), n)
    BY <2>1 DEF StreamInv, Streaming, Listening
  <2>4. Continues(Head(fwd), Len(got), n)
    BY <2>1, <2>3, ContinuousTail
  <2>5. got' = got \o Head(fwd).chunks /\ state' = AfterMsg(Head(fwd))
    BY <1>2, <2>1 DEF NextMsg, Disconnected
  <2>6. QED
    BY <2>2, <2>4, <2>5, TakesNext
<1>3. CASE ~Gather /\ ~NextMsg
  <2>1. UNCHANGED <<got, n, bad, avg>>
    BY <1>3, SourceFixed DEF source, StreamStep, pipeline, PipelineNext, Producer, Collector, Consumer,
       Worker, Cut, SendJob, End, ProducerExits, Take, Hashed, Collect, Push, Flush, FlushLast,
       CollectorEnds, Receive, Forward, ScopeEnds, OpenFails, Start, Abort, Joined, Drop
  <2>2. state' \in {"reaping", "finished"} => state \in {"reaping", "finished"}
    BY <1>3 DEF StreamStep, pipeline, PipelineNext, Producer, Collector, Consumer,
       Worker, Cut, SendJob, End, ProducerExits, Take, Hashed, Collect, Push, Flush, FlushLast,
       CollectorEnds, Receive, Forward, ScopeEnds, OpenFails, Start, Abort, Joined, Drop
  <2>3. QED
    BY <2>1, <2>2 DEF StreamInv, StreamsFile
<1>4. QED
  BY <1>1, <1>2, <1>3

-----------------------------------------------------------------------------
(* The theorems.                                                           *)

LEMMA StreamInvInit ==
  ASSUME Init
  PROVE  StreamInv /\ Calls
<1> USE DEF Init, PipelineInit
<1>1. /\ n \in Nat /\ bad \in 0..n /\ fed = 0 /\ next = 1 /\ pending = {}
      /\ work = <<>> /\ done = <<>> /\ batch = <<>> /\ out = <<>> /\ fwd = <<>> /\ msg = <<>> /\ got = <<>>
  BY PipelineAssumption
<1>2. TypeOK
  <2>1. <<>> \in Seq(Nat) /\ <<>> \in Seq(Message) /\ Len(<<>>) <= 1
    BY MessageSeq
  <2>2. job \in [Workers -> Nat]
    OBVIOUS
  <2>3. QED
    BY <1>1, <2>1, <2>2 DEF TypeOK, States
<1>3. Unstarted /\ Covered
  BY DEF Unstarted, Covered, Running, Threads
<1>4. Feeding
  BY <1>1 DEF Feeding, Running, Threads
<1>5. Hashing
  BY <1>1, ElemsNil DEF Hashing, Running, Threads
<1>6. Batching
  BY <1>1 DEF Batching
<1>7. Msgs = {}
  BY <1>1, ElemsNil DEF Msgs
<1>8. Streaming
  BY <1>1 DEF Streaming, Continuous, Running, Threads
<1>9. Terminating /\ Causes
  BY <1>7 DEF Terminating, Causes, Listening, Running, Threads
<1>10. StreamsFile
  BY <1>1 DEF StreamsFile
<1>11. Calls
  BY DEF Calls, Places, StreamCalls
<1>12. QED
  BY <1>2, <1>3, <1>4, <1>5, <1>6, <1>8, <1>9, <1>10, <1>11 DEF StreamInv

LEMMA StreamInvNext ==
  ASSUME StreamInv, Calls, [Next]_vars
  PROVE  StreamInv' /\ Calls'
<1>1. StreamStep /\ Calls'
  BY CallsNext
<1>2. TypeOK' /\ Unstarted' /\ Feeding' /\ Hashing' /\ Covered' /\ Batching'
  BY <1>1, StreamType, UnstartedNext, FeedingNext, HashingNext, CoveredNext, BatchingNext DEF StreamInv
<1>3. Streaming' /\ Terminating' /\ Causes' /\ StreamsFile'
  BY <1>1, StreamingNext, TerminatingNext, CausesNext, StreamsFileNext
<1>4. QED
  BY <1>1, <1>2, <1>3 DEF StreamInv

LEMMA StreamInvariant == Spec => [](StreamInv /\ Calls)
<1>1. Init => StreamInv /\ Calls
  BY StreamInvInit
<1>2. StreamInv /\ Calls /\ [Next]_vars => (StreamInv /\ Calls)'
  BY StreamInvNext
<1>3. QED
  BY <1>1, <1>2, PTL DEF Spec

(***************************************************************************)
(* Whatever order the workers finish in, however deep the channels are and *)
(* whichever Python threads pull, interrupt or drop the stream: a consumer *)
(* gets the file's chunks in file order, and all of them before the stream *)
(* ends well (run_chunk_pipeline, ChunkStreamCore).                        *)
(***************************************************************************)
THEOREM FileStreams == Spec => []StreamsFile
<1>1. StreamInv => StreamsFile
  BY DEF StreamInv
<1>2. QED
  BY <1>1, StreamInvariant, PTL

(***************************************************************************)
(* The branches collect_batches and ChunkStreamCore mark as unreachable    *)
(* are: no gap, no missing status, no stream that closes without a         *)
(* terminal message; a stream fails only over a file that is refused or    *)
(* cannot be read.                                                         *)
(***************************************************************************)
THEOREM FailuresHaveCause == Spec => []FailsForCause
<1>1. StreamInv => FailsForCause
  BY DEF StreamInv, FailsForCause, Causes, Caused, Cause, Msgs, Elems
<1>2. QED
  BY <1>1, StreamInvariant, PTL
=============================================================================

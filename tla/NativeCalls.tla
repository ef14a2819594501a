----------------------------- MODULE NativeCalls -----------------------------
(***************************************************************************)
(* The native entry points of src/lib.rs, called by Python threads: every  *)
(* call gives up the GIL for its work (py.detach) and takes it back to     *)
(* return.  The methods of a shared ChunkStream take its mutex, which is   *)
(* only ever waited for without the GIL: the thread that holds it, blocked *)
(* on an empty stream, needs the GIL every so often to see whether Ctrl-C  *)
(* was pressed.  A transfer polls for Ctrl-C in the same way               *)
(* (run_interruptible); only the main thread sees one.                     *)
(***************************************************************************)
EXTENDS ChunkPipeline

CONSTANTS
  Main,          \* the interpreter's main thread
  Others,        \* other Python threads
  MaxParts,      \* tasks a download runs at a time
  MaxTransfers,  \* bound: transfers called
  MaxSignals,    \* bound: presses of Ctrl-C
  NoThread       \* nobody holds the mutex

Callers == {Main} \cup Others

ASSUME CallersAssumption ==
  /\ Main \notin Others /\ NoThread \notin Callers
  /\ MaxParts \in Nat \ {0} /\ MaxTransfers \in Nat /\ MaxSignals \in Nat

VARIABLES
  at,         \* where each Python thread is: see Places
  lock,       \* holder of the stream's mutex
  parts,      \* pieces of a thread's transfer that are running
  transfers,  \* transfers called so far
  sig,        \* is a Ctrl-C pending?
  sigs        \* presses of Ctrl-C so far

callVars == <<at, lock, parts, transfers, sig, sigs>>
vars == <<pipeline, callVars>>

\* "ready" wants the GIL, "running" has it, "ended" has returned; the others are
\* inside py.detach.
StreamCalls == {"lock", "recv", "poll", "finish"}
Places ==
  {"ready", "running", "ended", "gather", "transfer", "check", "blocking"} \cup StreamCalls

\* Mutant: the mutex is waited for with the GIL held.
GilFreeUnlocked == \A t \in Callers : at[t] \notin {"running", "lock", "finish"}

\* Every call works, and waits for the mutex, without the GIL (py.detach).
GilFree == \A t \in Callers : at[t] # "running"

Go(t, place) == at' = [at EXCEPT ![t] = place]

\* Transfers may have run before the file is looked at, and threads ended.
Init ==
  /\ PipelineInit
  /\ at \in [Callers -> {"ready", "ended"}] /\ lock = NoThread
  /\ parts = [t \in Callers |-> 0] /\ transfers \in 0..MaxTransfers
  /\ sig = FALSE /\ sigs = 0

-----------------------------------------------------------------------------
(* The interpreter (external): one thread at a time runs Python code.      *)

TakeGil(t) ==
  /\ at[t] = "ready" /\ GilFree
  /\ Go(t, "running")
  /\ UNCHANGED <<pipeline, lock, parts, transfers, sig, sigs>>

YieldGil(t) ==
  /\ at[t] = "running"
  /\ Go(t, "ready")
  /\ UNCHANGED <<pipeline, lock, parts, transfers, sig, sigs>>

CtrlC ==
  /\ sigs < MaxSignals
  /\ sig' = TRUE /\ sigs' = sigs + 1
  /\ UNCHANGED <<pipeline, at, lock, parts, transfers>>

\* Python code of the main thread is interrupted.
RaisedInPython ==
  /\ at[Main] = "running" /\ sig
  /\ sig' = FALSE
  /\ UNCHANGED <<pipeline, at, lock, parts, transfers, sigs>>

\* check_signals acts on the main thread only.
Interrupts(t) == t = Main /\ sig

-----------------------------------------------------------------------------
(* ChunkStream.                                                            *)

\* chunk_stream_native: does not block, and keeps the GIL.
OpenStream(t) ==
  /\ at[t] = "running"
  /\ Start("stream")
  /\ UNCHANGED callVars

CallNext(t) ==
  /\ at[t] = "running" /\ sink = "stream"
  /\ Go(t, "lock")
  /\ UNCHANGED <<pipeline, lock, parts, transfers, sig, sigs>>

LockStream(t) ==
  /\ at[t] = "lock" /\ lock = NoThread
  /\ lock' = t
  /\ Go(t, "recv")
  /\ UNCHANGED <<pipeline, parts, transfers, sig, sigs>>

\* One round of next_batch: a batch, the end of the stream or an error return;
\* a terminal message first joins the stream's thread; an empty channel is
\* waited for SIGNAL_POLL_INTERVAL at a time.
NextBatch(t) ==
  /\ at[t] = "recv"
  /\ \/ NextMsg /\ Listening' /\ Go(t, "ready") /\ lock' = NoThread
     \/ NextMsg /\ ~Listening' /\ UNCHANGED <<at, lock>>
     \/ Joined /\ Go(t, "ready") /\ lock' = NoThread
     \/ /\ state \in {"finished", "failed"}
        /\ Go(t, "ready") /\ lock' = NoThread /\ UNCHANGED pipeline
     \/ /\ Listening /\ fwd = <<>> /\ ~Disconnected
        /\ Go(t, "poll") /\ UNCHANGED <<lock, pipeline>>
  /\ UNCHANGED <<parts, transfers, sig, sigs>>

\* poll_ctrl_c, with the mutex held: an interrupt aborts the stream.
PollStream(t) ==
  /\ at[t] = "poll" /\ GilFree
  /\ IF Interrupts(t)
     THEN sig' = FALSE /\ Abort /\ lock' = NoThread /\ Go(t, "ready")
     ELSE Go(t, "recv") /\ UNCHANGED <<sig, pipeline, lock>>
  /\ UNCHANGED <<parts, transfers, sigs>>

CallFinish(t) ==
  /\ at[t] = "running" /\ sink = "stream"
  /\ Go(t, "finish")
  /\ UNCHANGED <<pipeline, lock, parts, transfers, sig, sigs>>

\* finish reads the state under the mutex: the digest of a finished stream.
Finish(t) ==
  /\ at[t] = "finish" /\ lock = NoThread
  /\ Go(t, "ready")
  /\ UNCHANGED <<pipeline, lock, parts, transfers, sig, sigs>>

\* The last reference goes: no method is running.
DropStream(t) ==
  /\ at[t] = "running" /\ \A u \in Callers : at[u] \notin StreamCalls
  /\ Drop
  /\ UNCHANGED callVars

-----------------------------------------------------------------------------
(* Calls that run to their end: chunk_and_hash_native on the calling       *)
(* thread, hash_file_native and diagnose_blob_native (BlockOn) on the      *)
(* runtime, without a poll for Ctrl-C.                                     *)

ChunkAndHash(t) ==
  /\ at[t] = "running"
  /\ Start("gather")
  /\ Go(t, "gather")
  /\ UNCHANGED <<lock, parts, transfers, sig, sigs>>

ChunkAndHashEnds(t) ==
  /\ at[t] = "gather" /\ Joined
  /\ Go(t, "ready")
  /\ UNCHANGED <<lock, parts, transfers, sig, sigs>>

BlockOn(t) ==
  /\ at[t] = "running"
  /\ Go(t, "blocking")
  /\ UNCHANGED <<pipeline, lock, parts, transfers, sig, sigs>>

BlockOnEnds(t) ==
  /\ at[t] = "blocking"
  /\ Go(t, "ready")
  /\ UNCHANGED <<pipeline, lock, parts, transfers, sig, sigs>>

-----------------------------------------------------------------------------
(* Transfers: run_interruptible.  A download spawns tasks on the runtime,  *)
(* an upload is one future.                                                *)

Transfer(t) ==
  /\ at[t] = "running" /\ transfers < MaxTransfers
  /\ Go(t, "transfer")
  /\ \E k \in 1..MaxParts : parts' = [parts EXCEPT ![t] = k]
  /\ transfers' = transfers + 1
  /\ UNCHANGED <<pipeline, lock, sig, sigs>>

PartEnds(t) ==
  /\ parts[t] > 0
  /\ parts' = [parts EXCEPT ![t] = @ - 1]
  /\ UNCHANGED <<pipeline, at, lock, transfers, sig, sigs>>

\* The work is polled first: a transfer that is done returns.
TransferEnds(t) ==
  /\ at[t] = "transfer" /\ parts[t] = 0
  /\ Go(t, "ready")
  /\ UNCHANGED <<pipeline, lock, parts, transfers, sig, sigs>>

TimerFires(t) ==
  /\ at[t] = "transfer" /\ parts[t] > 0
  /\ Go(t, "check")
  /\ UNCHANGED <<pipeline, lock, parts, transfers, sig, sigs>>

\* Mutant: the tasks of an interrupted transfer are left running.
CheckLeavesTasks(t) ==
  /\ at[t] = "check" /\ GilFree
  /\ IF Interrupts(t)
     THEN sig' = FALSE /\ Go(t, "ready")
     ELSE Go(t, "transfer") /\ UNCHANGED sig
  /\ UNCHANGED <<pipeline, lock, parts, transfers, sigs>>

\* poll_ctrl_c: an interrupt drops the future, and its tasks with it.
Check(t) ==
  /\ at[t] = "check" /\ GilFree
  /\ IF Interrupts(t)
     THEN sig' = FALSE /\ parts' = [parts EXCEPT ![t] = 0] /\ Go(t, "ready")
     ELSE Go(t, "transfer") /\ UNCHANGED <<sig, parts>>
  /\ UNCHANGED <<pipeline, lock, transfers, sigs>>

-----------------------------------------------------------------------------

Python(t) ==
  \/ YieldGil(t) \/ OpenStream(t) \/ CallNext(t) \/ CallFinish(t) \/ DropStream(t)
  \/ ChunkAndHash(t) \/ BlockOn(t) \/ Transfer(t)

Returning(t) == ChunkAndHashEnds(t) \/ NextBatch(t) \/ TransferEnds(t) \/ TimerFires(t)
Polling(t) == PollStream(t) \/ Check(t)
Locking(t) == LockStream(t) \/ Finish(t)

Next ==
  \/ PipelineNext /\ UNCHANGED callVars
  \/ CtrlC \/ RaisedInPython
  \/ \E t \in Callers :
       \/ TakeGil(t) \/ Python(t) \/ Returning(t) \/ Polling(t) \/ Locking(t)
       \/ BlockOnEnds(t) \/ PartEnds(t)

\* The threads of the pipeline run; a Python thread gives up the GIL, and gets
\* it, or the mutex, if it is free again and again; a channel or a timer that
\* is due is served.  Nothing says that a transfer or a read ever ends.
Fairness ==
  /\ WF_vars(Producer /\ UNCHANGED callVars) /\ WF_vars(Collector /\ UNCHANGED callVars)
  /\ WF_vars(Consumer /\ UNCHANGED callVars)
  /\ \A w \in Workers : WF_vars(Worker(w) /\ UNCHANGED callVars)
  /\ \A t \in Callers :
       /\ WF_vars(Python(t)) /\ WF_vars(Returning(t))
       /\ SF_vars(TakeGil(t)) /\ SF_vars(Polling(t)) /\ SF_vars(Locking(t))

Spec == Init /\ [][Next]_vars /\ Fairness

-----------------------------------------------------------------------------
(* Properties.                                                             *)

(***************************************************************************)
(* The GIL, the stream's mutex and the join of its thread never wait for   *)
(* each other in a circle: every stream call of every thread returns,      *)
(* however the threads share the stream, if the file can be read or the    *)
(* stream has ended, failed or been interrupted (ChunkStream, teardown).   *)
(***************************************************************************)
StreamCallsReturn ==
  \A t \in Callers :
    (at[t] \in StreamCalls \cup {"gather"} /\ (hang = 0 \/ state \in {"finished", "failed"}))
      ~> (at[t] = "ready")

(***************************************************************************)
(* Ctrl-C ends what the main thread waits for, also when neither the       *)
(* transfer nor the read it waits for ever returns (run_interruptible, the *)
(* loop of next_batch): it gets back to Python, and what it was waiting    *)
(* for is given up: no task is left running, no thread will be waited for. *)
(***************************************************************************)
InterruptEnds ==
  (sig /\ at[Main] \in {"recv", "poll", "transfer", "check"})
    ~> (at[Main] = "ready" /\ parts[Main] = 0)
=============================================================================

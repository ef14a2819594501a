------------------------------ MODULE Watchdog ------------------------------
(***************************************************************************)
(* send_streaming_watchdogged (src/uploader/watchdog.rs), which every pack *)
(* PUT, whole-file PUT and PATCH goes through.  The connection pulls the   *)
(* body frame by frame and stamps a clock; the watchdog wakes up at        *)
(* intervals, reads the clock, then a "body is sent" flag without a lock,  *)
(* and gives up on a body nobody takes or on an answer that never comes.   *)
(*                                                                         *)
(* Time is discrete.  A timer fires when it is due or up to Lag later.     *)
(***************************************************************************)
EXTENDS Integers

CONSTANTS
  Frames,        \* the body's frames: 0..Frames are tried
  WriteStall,    \* write_stall
  ResponseWait,  \* response_wait
  Check,         \* WRITE_STALL_CHECK
  Lag            \* bound: how late a wake-up may be, its check included

ASSUME WatchdogAssumption ==
  /\ Frames \in Nat /\ WriteStall \in Nat \ {0} /\ ResponseWait \in Nat \ {0}
  /\ Check \in Nat \ {0} /\ Lag \in Nat

VARIABLES
  now,       \* elapsed_ms(base)
  left,      \* frames not yet pulled
  last,      \* last_ms
  done,      \* the flag DoneOnEof sets
  drained,   \* when it did
  armed,     \* when the running sleep was started
  look,      \* a check under way: the time and the flag it has read; or Asleep
  doneAt,    \* done_at: Never, or when a check first saw the flag
  st         \* "sending", "answered", "failed" or "stalled"

watchVars == <<now, left, last, done, drained, armed, look, doneAt, st>>

Never == -1
Unread == "unread"
Asleep == [at |-> Never, flag |-> Unread]
Sending == st = "sending"

WatchInit ==
  /\ now = 0 /\ left \in 0..Frames
  /\ last = 0 /\ done = FALSE /\ drained = Never
  /\ armed = 0 /\ look = Asleep /\ doneAt = Never
  /\ st = "sending"

-----------------------------------------------------------------------------
(* The body, pulled by the connection's task.                              *)

\* A frame is pulled and stamped: lm.store(elapsed_ms(base)).
Pull ==
  /\ Sending /\ left > 0
  /\ left' = left - 1
  /\ last' = now
  /\ UNCHANGED <<now, done, drained, armed, look, doneAt, st>>

\* DoneOnEof: the end of the stream is polled, and not stamped.
Eof ==
  /\ Sending /\ left = 0 /\ ~done
  /\ done' = TRUE
  /\ drained' = now
  /\ UNCHANGED <<now, left, last, armed, look, doneAt, st>>

-----------------------------------------------------------------------------
(* The select loop.                                                        *)

\* The send future is ready: an answer (before the body's end, too).
Answered ==
  /\ Sending /\ look = Asleep
  /\ st' = "answered"
  /\ UNCHANGED <<now, left, last, done, drained, armed, look, doneAt>>

\* ... or a transport error, or a frame that could not be read.
SendFails ==
  /\ Sending /\ look = Asleep
  /\ st' = "failed"
  /\ UNCHANGED <<now, left, last, done, drained, armed, look, doneAt>>

\* The sleep is over: now = elapsed_ms(base).
WakeUp ==
  /\ Sending /\ look = Asleep /\ now >= armed + Check
  /\ look' = [look EXCEPT !.at = now]
  /\ UNCHANGED <<now, left, last, done, drained, armed, doneAt, st>>

\* done.load: the body may have ended since the clock was read.
LoadDone ==
  /\ Sending /\ look # Asleep /\ look.flag = Unread
  /\ look' = [look EXCEPT !.flag = IF done THEN "set" ELSE "unset"]
  /\ UNCHANGED <<now, left, last, done, drained, armed, doneAt, st>>

\* *done_at.get_or_insert(now)
SinceDone == IF doneAt = Never THEN look.at ELSE doneAt

\* Mutant: a stream that has ended is watched by nobody.
IdleUnlessDone == look.flag = "unset" /\ look.at - last >= WriteStall

\* Mutant: the answer is given the time of a frame.
IdleOneLimit == look.at - last >= WriteStall

\* Is this check's phase over its limit?
Idle ==
  IF look.flag = "set" THEN look.at - SinceDone >= ResponseWait
  ELSE look.at - last >= WriteStall

\* The rest of a check: last_ms.load, then give up or sleep again.
Decide ==
  /\ Sending /\ look.flag # Unread
  /\ doneAt' = IF look.flag = "set" THEN SinceDone ELSE doneAt
  /\ st' = IF Idle THEN "stalled" ELSE st
  /\ armed' = now
  /\ look' = Asleep
  /\ UNCHANGED <<now, left, last, done, drained>>

-----------------------------------------------------------------------------

Tick ==
  /\ Sending /\ now < armed + Check + Lag
  /\ now' = now + 1
  /\ UNCHANGED <<left, last, done, drained, armed, look, doneAt, st>>

Over == ~Sending /\ UNCHANGED watchVars

WatchNext ==
  Pull \/ Eof \/ Answered \/ SendFails \/ WakeUp \/ LoadDone \/ Decide \/ Tick \/ Over

WatchSpec == WatchInit /\ [][WatchNext]_watchVars

-----------------------------------------------------------------------------
(* Properties.                                                             *)

\* The type invariant; stamps lie in the past.
WatchTypes ==
  /\ now \in Nat /\ left \in 0..Frames
  /\ last \in 0..now /\ done \in BOOLEAN /\ drained \in -1..now
  /\ armed \in 0..now /\ look \in [at : -1..now, flag : {Unread, "unset", "set"}]
  /\ doneAt \in -1..now
  /\ st \in {"sending", "answered", "failed", "stalled"}

(***************************************************************************)
(* The watchdog cuts no body that makes progress and no answer that is     *)
(* still in time: when it gives up, the body has been out for ResponseWait *)
(* less the length of one check (done_at is the time read before the flag, *)
(* and the body may end between the two reads), or no frame has been taken *)
(* for WriteStall and, if the body is out at all, it ended after the flag  *)
(* was loaded, in the check that gave up (send_streaming_watchdogged).     *)
(***************************************************************************)
CutsOnlyStalled ==
  st = "stalled" =>
    \/ done /\ now - drained >= ResponseWait - Lag
    \/ now - last >= WriteStall /\ (done => now - drained <= Lag)

(***************************************************************************)
(* No transfer hangs on a peer that keeps the connection open: a body      *)
(* nobody takes and an answer that never comes are given up within a fixed *)
(* time of the last frame, and of the body's end.                          *)
(***************************************************************************)
HangBounded ==
  Sending =>
    /\ ~done => now - last < WriteStall + Check + 2 * Lag
    /\ done => now - drained < ResponseWait + 2 * Check + 4 * Lag
=============================================================================

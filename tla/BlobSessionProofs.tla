-------------------------- MODULE BlobSessionProofs --------------------------
(***************************************************************************)
(* Proofs about BlobSession, for any blob size, chunk size and retry       *)
(* budget: resuming never skips a byte, and an upload survives as many     *)
(* transient faults as it has retries.  And about Watchdog, which guards   *)
(* the body of each of its requests.                                       *)
(***************************************************************************)
EXTENDS BlobSession, Watchdog, TLAPS

\* Where client and registry stand: ResumeSafe's inductive strengthening.  A close
\* is sent at the end of the file, an open session is never behind the client,
\* and a late PATCH stays within the file.
Positions ==
  /\ offset <= size
  /\ session = "open" => offset <= committed /\ committed <= size
  /\ session = "none" => offset = 0 /\ committed = 0
  /\ pc = "post" => session = "none" /\ late = {}
  /\ pc = "close" => offset = size
  /\ pc \in {"patch", "status"} => offset < size
  /\ pc = "ok" => session = "gone"
  /\ \A r \in late : r.to <= size

\* Has the running attempt met a fault that it may still have to pay for?
Troubled ==
  \/ pc = "status" \/ stall > 0 \/ attempt > 0 \/ late # {} \/ closing
  \/ session = "gone" \/ (session = "open" /\ offset # committed)

\* Each retry is paid for by a fault, and so is the trouble an attempt is in.
\* Without expiry, only a close ends a session.
Paid ==
  \/ expires
  \/ refused
  \/ faults > MaxRetries
  \/ /\ pc # "error"
     /\ retries <= faults
     /\ pc # "ok" /\ Troubled => retries < faults
     /\ closing \/ session = "gone" => pc \in {"close", "ok"}
     /\ session = "none" => pc = "post" /\ late = {} /\ ~closing /\ stall = 0 /\ attempt = 0

-----------------------------------------------------------------------------

\* The initial values have their types.
LEMMA InitType == Init => TypeOK
<1> SUFFICES ASSUME Init PROVE TypeOK
  OBVIOUS
<1>1. late \subseteq [from : Nat, to : Nat]
  BY DEF Init
<1>2. size \in Nat /\ supports \in BOOLEAN /\ expires \in BOOLEAN
  BY BlobAssumption DEF Init
<1>3. retries > MaxRetries => pc = "error"
  BY BlobAssumption DEF Init
<1>4. closing \in BOOLEAN /\ landed \in BOOLEAN /\ refused \in BOOLEAN
  BY DEF Init
<1>5. retries \in 0..(MaxRetries + 1) /\ stall \in 0..MaxRetries /\ attempt \in 0..MaxRetries
      /\ faults \in 0..(MaxRetries + 1)
  BY BlobAssumption DEF Init
<1>6. pc = "post" /\ session = "none" /\ offset \in Nat /\ committed \in Nat
  BY DEF Init
<1>7. QED
  BY <1>1, <1>2, <1>3, <1>4, <1>5, <1>6 DEF TypeOK

\* A retryable error of an attempt keeps the types while retries are left.
LEMMA OuterType ==
  ASSUME TypeOK, Outer, faults' \in 0..(MaxRetries + 1), pc # "error"
  PROVE TypeOK'
<1>1. late' \subseteq [from : Nat, to : Nat]
  BY DEF Outer
<1>2. retries' \in 0..(MaxRetries + 1) /\ (retries' > MaxRetries => pc' = "error")
  BY BlobAssumption DEF Outer, TypeOK
<1>3. pc' \in {"post", "error"} /\ session' = "none"
  BY DEF Outer
<1>4. offset' \in Nat /\ committed' \in Nat /\ stall' \in 0..MaxRetries /\ attempt' \in 0..MaxRetries
  BY BlobAssumption DEF Outer
<1>5. closing' \in BOOLEAN
  BY DEF Outer
<1>6. size' \in Nat /\ supports' \in BOOLEAN /\ expires' \in BOOLEAN /\ landed' \in BOOLEAN /\ refused' \in BOOLEAN
  BY DEF Outer, TypeOK
<1>7. QED
  BY <1>1, <1>2, <1>3, <1>4, <1>5, <1>6 DEF TypeOK

\* The type invariant is inductive.
LEMMA TypeStep == TypeOK /\ [Next]_vars => TypeOK'
<1> SUFFICES ASSUME TypeOK, [Next]_vars PROVE TypeOK'
  OBVIOUS
<1> USE BlobAssumption
<1>1. CASE PostOk
  BY <1>1 DEF TypeOK, PostOk, AfterPatch
<1>2. CASE AttemptFails
  <2>1. faults' \in 0..(MaxRetries + 1)
    BY <1>2 DEF AttemptFails, Fault, TypeOK
  <2>2. QED
    BY <1>2, <2>1, OuterType DEF AttemptFails
<1>3. CASE Refuse
  BY <1>3 DEF TypeOK, Refuse, registry
<1>4. CASE PatchOk
  BY <1>4 DEF TypeOK, PatchOk, EndOf, AfterPatch
<1>5. CASE PatchOutOfOrder
  BY <1>5 DEF TypeOK, PatchOutOfOrder, registry
<1>6. CASE PatchBroken
  BY <1>6 DEF TypeOK, PatchBroken, EndOf, Fault
<1>7. CASE PatchGone
  BY <1>7 DEF TypeOK, PatchGone, registry
<1>8. CASE PatchUnsupported
  BY <1>8 DEF TypeOK, PatchUnsupported, registry
<1>9. CASE StatusProgress
  BY <1>9 DEF TypeOK, StatusProgress, CommittedBytes, AfterPatch, registry
<1>10. CASE StatusSame
  <2>1. faults' \in 0..(MaxRetries + 1) /\ pc # "error"
    BY <1>10 DEF StatusSame, TypeOK
  <2>2. CASE Outer
    BY <2>1, <2>2, OuterType
  <2>3. QED
    BY <1>10, <2>1, <2>2 DEF StatusSame, NoProgress, TypeOK, registry
<1>11. CASE StatusFails
  <2>1. faults' \in 0..(MaxRetries + 1) /\ pc # "error"
    BY <1>11 DEF StatusFails, Fault, TypeOK
  <2>2. CASE Outer
    BY <2>1, <2>2, OuterType
  <2>3. QED
    BY <1>11, <2>1, <2>2 DEF StatusFails, NoProgress, TypeOK, registry
<1>12. CASE StatusGone
  <2>1. faults' \in 0..(MaxRetries + 1)
    BY <1>12 DEF StatusGone, TypeOK
  <2>2. QED
    BY <1>12, <2>1, OuterType DEF StatusGone
<1>13. CASE CloseOk
  BY <1>13 DEF TypeOK, CloseOk, Land
<1>14. CASE CloseBroken
  <2>1. faults' \in 0..(MaxRetries + 1) /\ pc # "error"
    BY <1>14 DEF CloseBroken, Fault, TypeOK
  <2>2. CASE Outer
    BY <2>1, <2>2, OuterType
  <2>3. CASE ~Outer
    <3>1. closing' \in BOOLEAN
      BY <1>14, <2>3 DEF CloseBroken
    <3>2. attempt' \in 0..MaxRetries
      BY <1>14, <2>3 DEF CloseBroken, TypeOK
    <3>3. UNCHANGED <<size, supports, expires, pc, retries, offset, stall, session, committed, late, landed, refused>>
      BY <1>14, <2>3 DEF CloseBroken
    <3>4. QED
      BY <2>1, <3>1, <3>2, <3>3 DEF TypeOK
  <2>4. QED
    BY <2>2, <2>3
<1>15. CASE CloseGone
  <2>1. faults' \in 0..(MaxRetries + 1)
    BY <1>15 DEF CloseGone, TypeOK
  <2>2. QED
    BY <1>15, <2>1, OuterType DEF CloseGone
<1>16. CASE MonoOk
  BY <1>16 DEF TypeOK, MonoOk, Land
<1>17. CASE MonoGone
  BY <1>17 DEF TypeOK, MonoGone, registry
<1>18. CASE MonoBroken
  <2>1. faults' \in 0..(MaxRetries + 1)
    BY <1>18 DEF MonoBroken, Fault, TypeOK
  <2>2. QED
    BY <1>18, <2>1, OuterType DEF MonoBroken
<1>19. CASE LateClose
  BY <1>19 DEF TypeOK, LateClose, Land, client
<1>20. CASE SessionExpires
  BY <1>20 DEF TypeOK, SessionExpires, Fault, client
<1>21. CASE UNCHANGED vars
  BY <1>21 DEF TypeOK, vars, client, registry
<1>22. ASSUME NEW r \in late, LatePatch(r)
      PROVE TypeOK'
  BY <1>22 DEF TypeOK, LatePatch, client
<1>23. QED
  BY <1>1, <1>2, <1>3, <1>4, <1>5, <1>6, <1>7, <1>8, <1>9, <1>10, <1>11, <1>12, <1>13, <1>14, <1>15, <1>16, <1>17, <1>18, <1>19, <1>20, <1>21, <1>22 DEF Next, Upload, Registry

\* Positions is inductive.
LEMMA PositionsStep == TypeOK /\ Positions /\ [Next]_vars => Positions'
<1> SUFFICES ASSUME TypeOK, Positions, [Next]_vars PROVE Positions'
  OBVIOUS
<1> USE BlobAssumption
<1>1. CASE PostOk
  BY <1>1 DEF TypeOK, Positions, PostOk, AfterPatch
<1>2. CASE AttemptFails
  BY <1>2 DEF TypeOK, Positions, AttemptFails, Outer, Fault
<1>3. CASE Refuse
  BY <1>3 DEF TypeOK, Positions, Refuse, registry
<1>4. CASE PatchOk
  BY <1>4 DEF TypeOK, Positions, PatchOk, EndOf, AfterPatch
<1>5. CASE PatchOutOfOrder
  BY <1>5 DEF TypeOK, Positions, PatchOutOfOrder, registry
<1>6. CASE PatchBroken
  BY <1>6 DEF TypeOK, Positions, PatchBroken, EndOf, Fault
<1>7. CASE PatchGone
  BY <1>7 DEF TypeOK, Positions, PatchGone, registry
<1>8. CASE PatchUnsupported
  BY <1>8 DEF TypeOK, Positions, PatchUnsupported, registry
<1>9. CASE StatusProgress
  BY <1>9 DEF TypeOK, Positions, StatusProgress, CommittedBytes, AfterPatch, registry
<1>10. CASE StatusSame
  BY <1>10 DEF TypeOK, Positions, StatusSame, NoProgress, Outer, registry
<1>11. CASE StatusFails
  BY <1>11 DEF TypeOK, Positions, StatusFails, NoProgress, Outer, registry, Fault
<1>12. CASE StatusGone
  BY <1>12 DEF TypeOK, Positions, StatusGone, Outer
<1>13. CASE CloseOk
  BY <1>13 DEF TypeOK, Positions, CloseOk, Land
<1>14. CASE CloseBroken
  BY <1>14 DEF TypeOK, Positions, CloseBroken, Outer, Fault
<1>15. CASE CloseGone
  BY <1>15 DEF TypeOK, Positions, CloseGone, Outer
<1>16. CASE MonoOk
  BY <1>16 DEF TypeOK, Positions, MonoOk, Land
<1>17. CASE MonoGone
  BY <1>17 DEF TypeOK, Positions, MonoGone, registry
<1>18. CASE MonoBroken
  BY <1>18 DEF TypeOK, Positions, MonoBroken, Outer, Fault
<1>19. CASE LateClose
  BY <1>19 DEF TypeOK, Positions, LateClose, Land, client
<1>20. CASE SessionExpires
  BY <1>20 DEF TypeOK, Positions, SessionExpires, Fault, client
<1>21. CASE UNCHANGED vars
  BY <1>21 DEF TypeOK, Positions, vars, client, registry
<1>22. ASSUME NEW r \in late, LatePatch(r)
      PROVE Positions'
  BY <1>22 DEF TypeOK, Positions, LatePatch, client
<1>23. QED
  BY <1>1, <1>2, <1>3, <1>4, <1>5, <1>6, <1>7, <1>8, <1>9, <1>10, <1>11, <1>12, <1>13, <1>14, <1>15, <1>16, <1>17, <1>18, <1>19, <1>20, <1>21, <1>22 DEF Next, Upload, Registry

\* Paid is inductive.
LEMMA PaidStep == TypeOK /\ Positions /\ Paid /\ [Next]_vars => Paid'
<1> SUFFICES ASSUME TypeOK, Positions, Paid, [Next]_vars PROVE Paid'
  OBVIOUS
<1> USE BlobAssumption
<1>1. CASE PostOk
  BY <1>1 DEF TypeOK, Positions, Paid, Troubled, PostOk, AfterPatch
<1>2. CASE AttemptFails
  BY <1>2 DEF TypeOK, Positions, Paid, Troubled, AttemptFails, Outer, Fault
<1>3. CASE Refuse
  BY <1>3 DEF TypeOK, Positions, Paid, Troubled, Refuse, registry
<1>4. CASE PatchOk
  BY <1>4 DEF TypeOK, Positions, Paid, Troubled, PatchOk, EndOf, AfterPatch
<1>5. CASE PatchOutOfOrder
  BY <1>5 DEF TypeOK, Positions, Paid, Troubled, PatchOutOfOrder, registry
<1>6. CASE PatchBroken
  BY <1>6 DEF TypeOK, Positions, Paid, Troubled, PatchBroken, EndOf, Fault
<1>7. CASE PatchGone
  BY <1>7 DEF TypeOK, Positions, Paid, Troubled, PatchGone, registry
<1>8. CASE PatchUnsupported
  BY <1>8 DEF TypeOK, Positions, Paid, Troubled, PatchUnsupported, registry
<1>9. CASE StatusProgress
  BY <1>9 DEF TypeOK, Positions, Paid, Troubled, StatusProgress, CommittedBytes, AfterPatch, registry
<1>10. CASE StatusSame
  BY <1>10 DEF TypeOK, Positions, Paid, Troubled, StatusSame, NoProgress, Outer, registry
<1>11. CASE StatusFails
  BY <1>11 DEF TypeOK, Positions, Paid, Troubled, StatusFails, NoProgress, Outer, registry, Fault
<1>12. CASE StatusGone
  BY <1>12 DEF TypeOK, Positions, Paid, Troubled, StatusGone, Outer
<1>13. CASE CloseOk
  BY <1>13 DEF TypeOK, Positions, Paid, Troubled, CloseOk, Land
<1>14. CASE CloseBroken
  BY <1>14 DEF TypeOK, Positions, Paid, Troubled, CloseBroken, Outer, Fault
<1>15. CASE CloseGone
  BY <1>15 DEF TypeOK, Positions, Paid, Troubled, CloseGone, Outer
<1>16. CASE MonoOk
  BY <1>16 DEF TypeOK, Positions, Paid, Troubled, MonoOk, Land
<1>17. CASE MonoGone
  BY <1>17 DEF TypeOK, Positions, Paid, Troubled, MonoGone, registry
<1>18. CASE MonoBroken
  BY <1>18 DEF TypeOK, Positions, Paid, Troubled, MonoBroken, Outer, Fault
<1>19. CASE LateClose
  BY <1>19 DEF TypeOK, Positions, Paid, Troubled, LateClose, Land, client
<1>20. CASE SessionExpires
  BY <1>20 DEF TypeOK, Positions, Paid, Troubled, SessionExpires, Fault, client
<1>21. CASE UNCHANGED vars
  BY <1>21 DEF TypeOK, Positions, Paid, Troubled, vars, client, registry
<1>22. ASSUME NEW r \in late, LatePatch(r)
      PROVE Paid'
  BY <1>22 DEF TypeOK, Positions, Paid, Troubled, LatePatch, client
<1>23. QED
  BY <1>1, <1>2, <1>3, <1>4, <1>5, <1>6, <1>7, <1>8, <1>9, <1>10, <1>11, <1>12, <1>13, <1>14, <1>15, <1>16, <1>17, <1>18, <1>19, <1>20, <1>21, <1>22 DEF Next, Upload, Registry

-----------------------------------------------------------------------------

\* Every value stays in its range, the counters in their budgets.
THEOREM TypeCorrect == Spec => []TypeOK
BY InitType, TypeStep, PTL DEF Spec

\* chunked_patch_upload never skips a byte and closes complete sessions only, for
\* every size, chunk size and budget, with sessions that expire and late requests.
THEOREM NoByteSkipped == Spec => []ResumeSafe
<1>1. Init => Positions
  BY BlobAssumption DEF Init, Positions
<1>2. TypeOK /\ Positions => ResumeSafe
  BY DEF TypeOK, Positions, ResumeSafe
<1>3. QED
  BY <1>1, <1>2, InitType, TypeStep, PositionsStep, PTL DEF Spec

\* While sessions do not expire, only a refusal or more than MaxRetries faults
\* fail an upload.
THEOREM RetriesSuffice == Spec => []Survives
<1>1. Init => Positions /\ Paid
  BY BlobAssumption DEF Init, Positions, Paid, Troubled
<1>2. TypeOK /\ Paid => Survives
  BY DEF TypeOK, Paid, Survives
<1>3. TypeOK /\ Positions /\ Paid /\ [Next]_vars => Paid'
  BY PaidStep
<1>4. QED
  BY <1>1, <1>2, <1>3, InitType, TypeStep, PositionsStep, PTL DEF Spec

\* upload_blob_async reports success only for a blob the registry has stored.
THEOREM SuccessMeansStored == Spec => []Acknowledged
<1>1. Init => Acknowledged
  BY DEF Init, Acknowledged
<1>2. TypeOK /\ Acknowledged /\ [Next]_vars => Acknowledged'
  <2> SUFFICES ASSUME TypeOK, Acknowledged, [Next]_vars PROVE Acknowledged'
    OBVIOUS
  <2> USE DEF Acknowledged
  <2>1. CASE CloseOk
    BY <2>1 DEF CloseOk, Land
  <2>2. CASE MonoOk
    BY <2>2 DEF MonoOk, Land
  <2>3. CASE Registry
    BY <2>3 DEF Registry, LatePatch, LateClose, SessionExpires, Land, client
  <2>4. CASE UNCHANGED vars
    BY <2>4 DEF vars, client, registry
  <2>5. CASE Upload /\ ~CloseOk /\ ~MonoOk
    BY <2>5 DEF Upload, PostOk, AttemptFails, Refuse, PatchOk, PatchOutOfOrder, PatchBroken, PatchGone,
       PatchUnsupported, StatusProgress, StatusSame, StatusFails, StatusGone, CloseBroken,
       CloseGone, MonoGone, MonoBroken, NoProgress, Outer, AfterPatch, registry
  <2>6. QED
    BY <2>1, <2>2, <2>3, <2>4, <2>5 DEF Next
<1>3. QED
  BY <1>1, <1>2, InitType, TypeStep, PTL DEF Spec

-----------------------------------------------------------------------------
(***************************************************************************)
(* The watchdog of a request's body (Watchdog), under every PATCH and PUT  *)
(* of an upload.  Its state is its own.  Its two promises hold for any     *)
(* limits, any check interval and any bound on the scheduler's lag: it     *)
(* cuts only what has stalled, and what has stalled is cut in time.        *)
(***************************************************************************)

\* A check under way began when its sleep was due, and nobody is later than Lag.
Timely ==
  /\ now <= armed + Check + Lag
  /\ look # Asleep => look.at >= armed + Check

\* What a check saw holds: the flag is never reset, and done_at is before the
\* body's end by no more than the length of the check that found it.
Seen ==
  /\ look = Asleep => look.flag = Unread
  /\ done => drained >= 0
  /\ look.flag = "set" => done /\ drained <= look.at + Lag /\ look.at >= 0
  /\ look.flag = "unset" => look.at >= 0
  /\ doneAt # Never => done /\ drained <= doneAt + Lag /\ look.flag # "unset"

\* The running sleep began before its phase had run out.
InTime ==
  /\ ~done => armed < last + WriteStall + Lag
  /\ done /\ doneAt = Never =>
       /\ armed <= drained + Lag
       /\ look.flag = "unset" => look.at <= drained
  /\ doneAt # Never =>
       /\ doneAt <= drained + Check + 2 * Lag
       /\ armed < doneAt + ResponseWait + Lag

\* The inductive invariant of both promises.
WatchdogInv ==
  /\ WatchTypes /\ CutsOnlyStalled
  /\ Sending => Timely /\ Seen /\ InTime
-----------------------------------------------------------------------------

\* It holds when the send starts.
LEMMA WatchdogInitially == WatchInit => WatchdogInv
<1> SUFFICES ASSUME WatchInit PROVE WatchdogInv
  OBVIOUS
<1> USE WatchdogAssumption
<1>1. look \in [at : -1..now, flag : {Unread, "unset", "set"}] /\ look.flag = Unread /\ look = Asleep
  BY DEF WatchInit, Asleep, Never, Unread
<1>2. WatchTypes
  <2>1. done \in BOOLEAN /\ st \in {"sending", "answered", "failed", "stalled"}
    BY DEF WatchInit
  <2>2. now \in Nat /\ left \in 0..Frames /\ last \in 0..now /\ armed \in 0..now
    BY DEF WatchInit
  <2>3. drained \in -1..now /\ doneAt \in -1..now
    BY DEF WatchInit, Never
  <2>4. QED
    BY <1>1, <2>1, <2>2, <2>3 DEF WatchTypes
<1>3. CutsOnlyStalled
  BY DEF WatchInit, CutsOnlyStalled
<1>4. Timely /\ Seen /\ InTime
  BY <1>1 DEF WatchInit, Timely, Seen, InTime, Never, Unread
<1>5. QED
  BY <1>2, <1>3, <1>4 DEF WatchdogInv

\* A check's decision: it gives up only on a stall, or sleeps again in time.
LEMMA WatchdogDecide == WatchdogInv /\ Decide => WatchdogInv'
<1> SUFFICES ASSUME WatchdogInv, Decide PROVE WatchdogInv'
  OBVIOUS
<1> USE WatchdogAssumption
<1> USE DEF Never, Sending, Unread
<1>1. WatchTypes /\ Timely /\ Seen /\ InTime
  BY DEF WatchdogInv, Decide
<1>2. look.at \in 0..now /\ look.flag \in {"unset", "set"} /\ now <= look.at + Lag
  BY <1>1 DEF Decide, WatchTypes, Timely, Seen, Asleep
<1>3. look' = Asleep /\ armed' = now /\ UNCHANGED <<now, left, last, done, drained>>
  BY DEF Decide
<1>4. CASE look.flag = "set"
  <2>1. done /\ drained >= 0 /\ drained <= look.at + Lag
    BY <1>1, <1>4 DEF Seen
  <2>2. SinceDone \in 0..now /\ drained <= SinceDone + Lag /\ SinceDone <= drained + Check + 2 * Lag
    BY <1>1, <1>2, <1>4, <2>1 DEF SinceDone, WatchTypes, Seen, InTime, Timely, Asleep, Decide
  <2>3. doneAt' = SinceDone
    BY <1>4 DEF Decide
  <2>4. CASE Idle
    <3>1. st' = "stalled" /\ now - drained >= ResponseWait - Lag
      BY <1>1, <1>2, <1>4, <2>1, <2>2, <2>4 DEF Idle, Decide, WatchTypes
    <3>2. QED
      BY <1>1, <1>3, <2>1, <2>2, <2>3, <3>1 DEF WatchdogInv, WatchTypes, CutsOnlyStalled, Asleep
  <2>5. CASE ~Idle
    <3>1. st' = st /\ look.at - SinceDone < ResponseWait
      BY <1>1, <1>2, <1>4, <2>2, <2>5 DEF Idle, Decide, WatchTypes
    <3>2. armed' < doneAt' + ResponseWait + Lag
      BY <1>1, <1>2, <1>3, <2>2, <2>3, <3>1 DEF WatchTypes
    <3>3. QED
      BY <1>1, <1>2, <1>3, <2>1, <2>2, <2>3, <3>1, <3>2
         DEF WatchdogInv, WatchTypes, CutsOnlyStalled, Asleep, Timely, Seen, InTime, Decide
  <2>6. QED
    BY <2>4, <2>5
<1>5. CASE look.flag = "unset"
  <2>1. doneAt' = doneAt
    BY <1>5 DEF Decide
  <2>2. CASE Idle
    <3>1. st' = "stalled" /\ now - last >= WriteStall
      BY <1>1, <1>2, <1>5, <2>2 DEF Idle, Decide, WatchTypes
    <3>2. done => now - drained <= Lag
      BY <1>1, <1>2, <1>5 DEF Decide, WatchTypes, Seen, InTime
    <3>3. QED
      BY <1>1, <1>3, <2>1, <3>1, <3>2 DEF WatchdogInv, WatchTypes, CutsOnlyStalled, Asleep
  <2>3. CASE ~Idle
    <3>1. st' = st /\ look.at - last < WriteStall
      BY <1>1, <1>2, <1>5, <2>3 DEF Idle, Decide, WatchTypes
    <3>2. armed' < last + WriteStall + Lag
      BY <1>1, <1>2, <1>3, <3>1 DEF WatchTypes
    <3>3. doneAt = Never /\ done => armed' <= drained + Lag
      BY <1>1, <1>2, <1>3, <1>5 DEF WatchTypes, InTime, Asleep, Decide
    <3>4. doneAt = Never
      BY <1>1, <1>5 DEF Seen, Decide
    <3>5. QED
      BY <1>1, <1>2, <1>3, <2>1, <3>1, <3>2, <3>3, <3>4
         DEF WatchdogInv, WatchTypes, CutsOnlyStalled, Asleep, Timely, Seen, InTime, Decide
  <2>4. QED
    BY <2>2, <2>3
<1>6. QED
  BY <1>2, <1>4, <1>5

\* Every step keeps the invariant.
LEMMA WatchdogStep == WatchdogInv /\ [WatchNext]_watchVars => WatchdogInv'
<1> SUFFICES ASSUME WatchdogInv, [WatchNext]_watchVars PROVE WatchdogInv'
  OBVIOUS
<1> USE WatchdogAssumption
<1> USE DEF WatchdogInv, WatchTypes, CutsOnlyStalled, Sending, Timely, Seen, InTime, Asleep, Never, Unread
<1>1. CASE Pull
  BY <1>1 DEF Pull
<1>2. CASE Eof
  BY <1>2 DEF Eof
<1>3. CASE Answered
  BY <1>3 DEF Answered
<1>4. CASE SendFails
  BY <1>4 DEF SendFails
<1>5. CASE WakeUp
  BY <1>5 DEF WakeUp
<1>6. CASE LoadDone
  BY <1>6 DEF LoadDone
<1>7. CASE Decide
  BY <1>7, WatchdogDecide
<1>8. CASE Tick
  BY <1>8 DEF Tick
<1>9. CASE UNCHANGED watchVars
  BY <1>9 DEF watchVars
<1>10. QED
  BY <1>1, <1>2, <1>3, <1>4, <1>5, <1>6, <1>7, <1>8, <1>9 DEF WatchNext, Over

\* A sleep that began in time ends in time.
LEMMA WatchdogBounds == WatchdogInv => HangBounded
BY WatchdogAssumption DEF WatchdogInv, WatchTypes, Sending, Timely, Seen, InTime, HangBounded, Never

-----------------------------------------------------------------------------

\* send_streaming_watchdogged never cuts a body that makes progress or an answer
\* that is in time (up to the length of one check), for any limits, interval and lag.
THEOREM OnlyStalledCut == WatchSpec => []CutsOnlyStalled
<1>1. WatchdogInv => CutsOnlyStalled
  BY DEF WatchdogInv
<1>2. QED
  BY <1>1, WatchdogInitially, WatchdogStep, PTL DEF WatchSpec

\* ... and leaves nothing hanging: within WriteStall + Check + 2 Lag of the last
\* frame, or ResponseWait + 2 Check + 4 Lag of the body's end, the send is over.
THEOREM NothingHangs == WatchSpec => []HangBounded
BY WatchdogInitially, WatchdogStep, WatchdogBounds, PTL DEF WatchSpec
==============================================================================

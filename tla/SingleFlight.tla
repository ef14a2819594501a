---------------------------- MODULE SingleFlight ----------------------------
(***************************************************************************)
(* put_pack_single_flight (src/uploader/pack.rs): threads that upload the  *)
(* same pack at the same time share one slot of a map, whose lock lets one *)
(* of them send the body while the others wait for its result.  Leaving    *)
(* the call releases the lock and then drops the map's entry, in that      *)
(* order and as two steps (guard, then SlotLease).                         *)
(*                                                                         *)
(* One repository and one pack: other keys have slots of their own.  The   *)
(* registry is external and may lose the pack while no call is under way.  *)
(***************************************************************************)
EXTENDS Naturals, FiniteSets

CONSTANTS
  Threads,      \* uploading threads
  MaxCalls,     \* bound: calls altogether; call n creates slot n if it creates one
  MaxRetries,   \* UPLOAD_MAX_RETRIES
  MaxFaults,    \* bound: failing requests
  MaxLosses     \* bound: losses of the pack

ASSUME FlightAssumption ==
  {MaxCalls, MaxRetries, MaxFaults, MaxLosses} \subseteq Nat

VARIABLES
  pc,           \* "idle", "lock", "head", "put", "unlock" or "drop", by thread
  mine,         \* the slot a thread's call uses, 0 for none
  result,       \* "ok" or "error", of the call a thread is leaving
  retries,
  calls,        \* calls so far
  entry,        \* the slot in the map, 0 for none
  landed,       \* slots whose flag the leader has set
  completed,    \* is the pack in completed_packs?
  stored,       \* does the registry have it?
  bodies,       \* bodies sent since it was last lost
  faults, losses

flightVars == <<pc, mine, result, retries, calls, entry, landed, completed, stored, bodies, faults, losses>>

Held(s) == \E t \in Threads : mine[t] = s /\ pc[t] \in {"head", "put", "unlock"}

Go(t, where) == pc' = [pc EXCEPT ![t] = where]

\* The call is over, with this result: what is left is to leave it.
Return(t, r) == Go(t, "unlock") /\ result' = [result EXCEPT ![t] = r]

Fault == faults < MaxFaults /\ faults' = faults + 1

FlightInit ==
  /\ pc = [t \in Threads |-> "idle"] /\ mine = [t \in Threads |-> 0]
  /\ result = [t \in Threads |-> "error"] /\ retries = [t \in Threads |-> 0]
  /\ calls = 0 /\ entry = 0 /\ landed = {} /\ completed = FALSE
  /\ stored = FALSE /\ bodies = 0 /\ faults = 0 /\ losses = 0

\* slot_for: the entry of the map, or a new one.
SlotFor(t) ==
  /\ pc[t] = "idle" /\ calls < MaxCalls
  /\ calls' = calls + 1
  /\ entry' = IF entry = 0 THEN calls' ELSE entry
  /\ mine' = [mine EXCEPT ![t] = entry']
  /\ retries' = [retries EXCEPT ![t] = 0]
  /\ Go(t, "lock")
  /\ UNCHANGED <<result, landed, completed, stored, bodies, faults, losses>>

\* Mutant: a pack that this process has uploaded is there.
LockTrusting(t) ==
  /\ pc[t] = "lock" /\ ~Held(mine[t])
  /\ \/ (mine[t] \in landed \/ completed) /\ Return(t, "ok")
     \/ mine[t] \notin landed /\ ~completed /\ Go(t, "put") /\ UNCHANGED result
  /\ UNCHANGED <<mine, retries, calls, entry, landed, completed, stored, bodies, faults, losses>>

\* The lock is taken: the leader's result, or one's own upload, which asks the
\* registry first when this process has uploaded the pack before.
Lock(t) ==
  /\ pc[t] = "lock" /\ ~Held(mine[t])
  /\ \/ mine[t] \in landed /\ Return(t, "ok")
     \/ mine[t] \notin landed /\ completed /\ Go(t, "head") /\ UNCHANGED result
     \/ mine[t] \notin landed /\ ~completed /\ Go(t, "put") /\ UNCHANGED result
  /\ UNCHANGED <<mine, retries, calls, entry, landed, completed, stored, bodies, faults, losses>>

HeadPack(t) ==
  /\ pc[t] = "head"
  /\ \/ stored /\ Return(t, "ok") /\ landed' = landed \cup {mine[t]}
     \/ ~stored /\ Go(t, "put") /\ UNCHANGED <<result, landed>>
  /\ UNCHANGED <<mine, retries, calls, entry, completed, stored, bodies, faults, losses>>

\* present_or_unknown: a retryable failure means unknown, any other is returned.
HeadFails(t) ==
  /\ pc[t] = "head" /\ Fault
  /\ (Go(t, "put") /\ UNCHANGED result) \/ Return(t, "error")
  /\ UNCHANGED <<mine, retries, calls, entry, landed, completed, stored, bodies, losses>>

\* Mutant: the process does not note the upload.
PutOkUnmarked(t) ==
  /\ pc[t] = "put"
  /\ stored' = TRUE /\ bodies' = bodies + 1
  /\ landed' = landed \cup {mine[t]}
  /\ Return(t, "ok")
  /\ UNCHANGED <<mine, retries, calls, entry, completed, faults, losses>>

\* try_pack_upload_once: a session, the body, and the pack is there.
PutOk(t) ==
  /\ pc[t] = "put"
  /\ stored' = TRUE /\ bodies' = bodies + 1
  /\ landed' = landed \cup {mine[t]} /\ completed' = TRUE
  /\ Return(t, "ok")
  /\ UNCHANGED <<mine, retries, calls, entry, faults, losses>>

\* A retryable failure, before or after the registry stored the pack.
PutBroken(t) ==
  /\ pc[t] = "put" /\ Fault
  /\ stored' \in {stored, TRUE} /\ bodies' = bodies + 1
  /\ retries' = [retries EXCEPT ![t] = @ + 1]
  /\ IF retries'[t] > MaxRetries THEN Return(t, "error") ELSE UNCHANGED <<pc, result>>
  /\ UNCHANGED <<mine, calls, entry, landed, completed, losses>>

PutRefused(t) ==
  /\ pc[t] = "put" /\ Fault
  /\ Return(t, "error")
  /\ UNCHANGED <<mine, retries, calls, entry, landed, completed, stored, bodies, losses>>

\* The guard goes first, then the lease.
Unlock(t) ==
  /\ pc[t] = "unlock"
  /\ Go(t, "drop")
  /\ UNCHANGED <<mine, result, retries, calls, entry, landed, completed, stored, bodies, faults,
                 losses>>

\* Mutant: an upload that failed keeps its entry for the next try.
DropSlotOnSuccess(t) ==
  /\ pc[t] = "drop"
  /\ entry' = IF result[t] = "ok" THEN 0 ELSE entry
  /\ mine' = [mine EXCEPT ![t] = 0]
  /\ Go(t, "idle")
  /\ UNCHANGED <<result, retries, calls, landed, completed, stored, bodies, faults, losses>>

\* drop_slot: whatever entry the map has for the pack now.
DropSlot(t) ==
  /\ pc[t] = "drop"
  /\ entry' = 0
  /\ mine' = [mine EXCEPT ![t] = 0]
  /\ Go(t, "idle")
  /\ UNCHANGED <<result, retries, calls, landed, completed, stored, bodies, faults, losses>>

\* The registry loses the pack between uploads.
Lose ==
  /\ stored /\ losses < MaxLosses /\ \A t \in Threads : pc[t] = "idle"
  /\ losses' = losses + 1
  /\ stored' = FALSE /\ bodies' = 0
  /\ UNCHANGED <<pc, mine, result, retries, calls, entry, landed, completed, faults>>

Call(t) ==
  \/ Lock(t) \/ HeadPack(t) \/ HeadFails(t) \/ PutOk(t) \/ PutBroken(t) \/ PutRefused(t)
  \/ Unlock(t) \/ DropSlot(t)

Idle == \A t \in Threads : pc[t] = "idle"

FlightNext ==
  \/ \E t \in Threads : SlotFor(t) \/ Call(t)
  \/ Lose
  \/ Idle /\ UNCHANGED flightVars

\* Requests end (each has a timeout or is watched) and the lock is fair.
FlightSpec == FlightInit /\ [][FlightNext]_flightVars /\ \A t \in Threads : WF_flightVars(Call(t))

-----------------------------------------------------------------------------
(* Properties.                                                             *)

(***************************************************************************)
(* A call that reports success leaves the pack in the registry, also when  *)
(* the registry lost what an earlier call uploaded: neither the completed  *)
(* set nor a slot of an earlier round answers for a pack that is gone.     *)
(* The re-upload after a MANIFEST_BLOB_UNKNOWN rests on it.                *)
(***************************************************************************)
OkMeansStored == \A t \in Threads : pc[t] \in {"unlock", "drop"} /\ result[t] = "ok" => stored

(***************************************************************************)
(* While nothing fails, the body is sent once, however many threads upload *)
(* the pack, at once or one after the other: a thread that comes between   *)
(* the leader's unlock and the drop of the entry sees the flag, a later    *)
(* one asks the registry.                                                  *)
(***************************************************************************)
OneBody == faults = 0 => bodies <= 1

(***************************************************************************)
(* Every call returns: no thread waits for a lock for good; and the slot   *)
(* map does not grow: no entry outlives the calls that use it, on any way  *)
(* out of a call (SlotLease).                                              *)
(***************************************************************************)
CallsReturn ==
  /\ \A t \in Threads : [](pc[t] # "idle" => <>(pc[t] = "idle"))
  /\ [](Idle => entry = 0)
=============================================================================

--------------------------- MODULE IncrementalHash ---------------------------
(***************************************************************************)
(* The background hasher of src/incremental_hash.rs, shared by the two     *)
(* download paths (RangeDownload, PackDownload): a thread that folds the   *)
(* whole-file digest from the destination file while the download is still *)
(* writing it.  A completed unit of work signals the extents it wrote;     *)
(* extents that arrive early wait in the reorder buffer.  The digest of a  *)
(* file is its sequence of bytes; a read returns one byte, the finest      *)
(* interleaving with the writers.                                          *)
(***************************************************************************)
EXTENDS Integers, Sequences

VARIABLES
  total,      \* total_size
  disk,       \* the bytes of the destination file
  signals,    \* the channel: each message is a list of extents [at, size]
  sending,    \* is some sender of the channel alive?
  pending,    \* extents that wait for the watermark, by start offset
  watermark,  \* end of the contiguous region that is complete
  folded,     \* the bytes fed to the hasher
  hasher      \* "off", "open", "recv", "fold", "none" or "digest"

hashVars == <<signals, sending, pending, watermark, folded, hasher>>

NoExtents == [o \in {} |-> 0]

HashInit ==
  /\ signals = <<>> /\ sending = FALSE
  /\ pending = NoExtents /\ watermark = 0
  /\ folded = <<>> /\ hasher = "off"

\* spawn_incremental_hasher.
SpawnHasher(verify) ==
  /\ hasher' = IF verify THEN "open" ELSE "off"
  /\ sending' = verify
  /\ UNCHANGED <<signals, pending, watermark, folded>>

\* tx.send; a hasher that has returned has dropped the receiver.
Send(extents) ==
  signals' = IF hasher \in {"open", "recv", "fold"} THEN Append(signals, extents) ELSE signals

OpenDest ==
  /\ hasher = "open"
  /\ hasher' \in {"recv", "none"}
  /\ UNCHANGED <<total, disk, signals, sending, pending, watermark, folded>>

\* HashMap::insert of each extent in turn: the last one of a start stays.
Insert(map, extents) ==
  LET Of(o) == {i \in DOMAIN extents : extents[i].at = o}
      last(o) == extents[CHOOSE i \in Of(o) : \A j \in Of(o) : j <= i].size
  IN [o \in DOMAIN map \cup {extents[i].at : i \in DOMAIN extents} |->
        IF Of(o) = {} THEN map[o] ELSE last(o)]

\* rx.recv
Receive ==
  /\ hasher = "recv" /\ signals # <<>>
  /\ signals' = Tail(signals)
  /\ pending' = Insert(pending, Head(signals))
  /\ hasher' = "fold"
  /\ UNCHANGED <<total, disk, sending, watermark, folded>>

\* Does the extent at o start where the contiguous region ends?
Contiguous(o) == o = watermark

\* pending.remove(&watermark): the contiguous region grows by one extent.
Advance ==
  /\ hasher = "fold"
  /\ \E o \in DOMAIN pending :
       /\ Contiguous(o)
       /\ watermark' = o + pending[o]
       /\ pending' = [p \in DOMAIN pending \ {o} |-> pending[p]]
  /\ UNCHANGED <<total, disk, signals, sending, folded, hasher>>

\* The span up to the watermark is read from the file and hashed; a file that
\* ends before it makes the hasher give up.
Fold ==
  /\ hasher = "fold" /\ ~ \E o \in DOMAIN pending : Contiguous(o)
  /\ IF Len(folded) >= watermark
     THEN hasher' = "recv" /\ UNCHANGED folded
     ELSE IF Len(folded) < Len(disk)
     THEN folded' = Append(folded, disk[Len(folded) + 1]) /\ UNCHANGED hasher
     ELSE hasher' = "none" /\ UNCHANGED folded
  /\ UNCHANGED <<total, disk, signals, sending, pending, watermark>>

ReadFails ==
  /\ hasher = "fold" /\ Len(folded) < watermark
  /\ hasher' = "none"
  /\ UNCHANGED <<total, disk, signals, sending, pending, watermark, folded>>

\* Was exactly [0, total_size) folded, and every extent used?
Covered == Len(folded) = total /\ DOMAIN pending = {}

\* The channel is closed and drained.
CloseHash ==
  /\ hasher = "recv" /\ signals = <<>> /\ ~sending
  /\ hasher' = IF Covered THEN "digest" ELSE "none"
  /\ UNCHANGED <<total, disk, signals, sending, pending, watermark, folded>>

HashStep == OpenDest \/ Receive \/ Advance \/ Fold \/ ReadFails \/ CloseHash

Hashing == hasher \in {"open", "recv", "fold"}
=============================================================================

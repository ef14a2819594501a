---------------------------- MODULE DownloadCache ----------------------------
(***************************************************************************)
(* The download cache of hippius_hub/file_download.py: concurrent          *)
(* hf_hub_download calls, in one process or several, that share a cache    *)
(* directory (or a user's local_dir), and one snapshot_download            *)
(* (hippius_hub/_snapshot_download.py) that fans some of them out over a   *)
(* thread pool.  Each call downloads into a temporary file of its own, and *)
(* moves it to the blob named by its digest, then makes the snapshot entry *)
(* under a name of its own and moves it into place; any of these steps may *)
(* fail, processes may die at any step, and the tag may move.              *)
(*                                                                         *)
(* Contents are digests; an incomplete or corrupted content is none.       *)
(* RangeDownload and PackDownload show what the native calls promise.      *)
(***************************************************************************)
EXTENDS Naturals, FiniteSets

CONSTANTS
  Calls,        \* hf_hub_download calls
  Title,        \* [Calls -> titles]
  Proc,         \* [Calls -> processes]
  Local,        \* calls with local_dir
  Forced,       \* calls with force_download
  Verifying,    \* calls whose download is verified
  Snapshot,     \* calls made by the snapshot_download
  Manifests,    \* what the tag may name: functions from titles to digests
  Workers,      \* max_workers of the snapshot's pool
  Corrupting,   \* may the registry send wrong bytes?
  MaxMoves,     \* bound: moves of the tag
  MaxCrashes,   \* bound: crashes
  None          \* no such file

Titles == {Title[c] : c \in Calls}
Digests == (UNION {{m[t] : t \in Titles} : m \in Manifests}) \ {None}
Partial == "partial"
Wrong == "wrong"

Content == Digests \cup {None, Partial, Wrong}

\* A snapshot entry: a link to a blob, or (hard link, copy) a file.
Entry == [link : Digests \cup {None}, content : Content]

ASSUME CacheAssumption ==
  /\ Local \subseteq Calls /\ Forced \subseteq Calls /\ Verifying \subseteq Calls
  /\ Snapshot \subseteq Calls
  /\ Workers \in Nat \ {0} /\ MaxMoves \in Nat /\ MaxCrashes \in Nat
  /\ Corrupting \in BOOLEAN
  /\ {Partial, Wrong, None} \cap Digests = {}
  /\ None \notin Entry /\ None \notin {Partial, Wrong}

VARIABLES
  tag,        \* the manifest the revision names
  blobs,      \* the blobs directory: digest -> content or None
  dest,       \* snapshot entries: [link, content], or None
  local,      \* files in local_dir: content or None
  entry,      \* the entry each call has under a temporary name, or None
  temp,       \* the temporary file of each call
  want,       \* the digest each call resolved
  pc,         \* where each call is
  again,      \* calls that have refreshed their token
  pool,       \* the snapshot: "off", "fetch", "fan", "raise", "ok" or "failed"
  shared,     \* the manifest the snapshot resolved
  moves, crashes

vars == <<tag, blobs, dest, local, entry, temp, want, pc, again, pool, shared, moves, crashes>>
bounds == <<moves, crashes>>

Ended == {"done", "hit", "failed", "cancelled", "dead"}
Idle == {"idle", "queued"} \cup Ended

\* Where _create_symlink makes the temporary entry, and where it has it.
Making == {"symlink", "hardlink", "copy", "copying"}
Made == {"symlinked", "hardlinked", "copied"}

\* What a reader finds behind a snapshot entry.
ContentOf(e) == IF e.link = None THEN e.content ELSE blobs[e.link]

\* os.path.exists follows the link.
Exists(c) ==
  IF c \in Local THEN local[Title[c]] # None
  ELSE dest[Title[c]] # None /\ ContentOf(dest[Title[c]]) # None

-----------------------------------------------------------------------------
(* hf_hub_download.                                                        *)

\* The cache check: an existing file is returned as it is.
Check(c) ==
  /\ pc[c] = "start"
  /\ pc' = [pc EXCEPT ![c] = IF c \notin Forced /\ Exists(c) THEN "hit" ELSE "resolve"]
  /\ UNCHANGED <<tag, blobs, dest, local, entry, temp, want, again, pool, shared, bounds>>

\* Mutant: every file of a snapshot resolves the manifest anew.
SourceLatest(c) == tag

\* _resolve_manifest: the snapshot's, or the one the tag names now.
Source(c) == IF c \in Snapshot THEN shared ELSE tag

\* Resolve the file; mkstemp.
Resolve(c) ==
  /\ pc[c] = "resolve"
  /\ IF Source(c)[Title[c]] = None
     THEN pc' = [pc EXCEPT ![c] = "failed"] /\ UNCHANGED <<want, temp>>
     ELSE /\ want' = [want EXCEPT ![c] = Source(c)[Title[c]]]
          /\ temp' = [temp EXCEPT ![c] = Partial]
          /\ pc' = [pc EXCEPT ![c] = "fetch"]
  /\ UNCHANGED <<tag, blobs, dest, local, entry, again, pool, shared, bounds>>

\* Mutant: the digest that was computed is not compared.
MatchesAny(c, got) == TRUE

\* _assert_download_matches_digest, or the assembler's own comparison.
Matches(c, got) == c \notin Verifying \/ got = want[c]

\* Any error of the native call, or a mismatch: the temporary file goes; a 401
\* runs the whole of _download once more.
Abandon(c) ==
  /\ temp' = [temp EXCEPT ![c] = None]
  /\ \/ pc' = [pc EXCEPT ![c] = "failed"] /\ UNCHANGED again
     \/ /\ c \notin again
        /\ again' = again \cup {c}
        /\ pc' = [pc EXCEPT ![c] = "resolve"]
  /\ UNCHANGED <<tag, blobs, dest, local, entry, want, pool, shared, bounds>>

FetchFails(c) == pc[c] = "fetch" /\ Abandon(c)

Mismatch(c) ==
  /\ pc[c] = "fetch" /\ Corrupting /\ ~Matches(c, Wrong)
  /\ temp' = [temp EXCEPT ![c] = None]
  /\ pc' = [pc EXCEPT ![c] = "failed"]
  /\ UNCHANGED <<tag, blobs, dest, local, entry, want, again, pool, shared, bounds>>

\* The download is complete and accepted.
Fetched(c) ==
  /\ pc[c] = "fetch"
  /\ \E got \in {want[c]} \cup (IF Corrupting THEN {Wrong} ELSE {}) :
       Matches(c, got) /\ temp' = [temp EXCEPT ![c] = got]
  /\ pc' = [pc EXCEPT ![c] = IF c \in Local THEN "replace" ELSE "place"]
  /\ UNCHANGED <<tag, blobs, dest, local, entry, want, again, pool, shared, bounds>>

\* os.path.exists(blob_path)
CheckBlob(c) ==
  /\ pc[c] = "place"
  /\ pc' = [pc EXCEPT ![c] = IF blobs[want[c]] = None THEN "rename" ELSE "discard"]
  /\ UNCHANGED <<tag, blobs, dest, local, entry, temp, want, again, pool, shared, bounds>>

\* os.rename replaces a blob that another call has put there meanwhile.
Rename(c) ==
  /\ pc[c] = "rename"
  /\ blobs' = [blobs EXCEPT ![want[c]] = temp[c]]
  /\ temp' = [temp EXCEPT ![c] = None]
  /\ pc' = [pc EXCEPT ![c] = "symlink"]
  /\ UNCHANGED <<tag, dest, local, entry, want, again, pool, shared, bounds>>

Discard(c) ==
  /\ pc[c] = "discard"
  /\ temp' = [temp EXCEPT ![c] = None]
  /\ pc' = [pc EXCEPT ![c] = "symlink"]
  /\ UNCHANGED <<tag, blobs, dest, local, entry, want, again, pool, shared, bounds>>

\* os.symlink, under a temporary name.
SymLink(c) ==
  /\ pc[c] = "symlink"
  /\ entry' = [entry EXCEPT ![c] = [link |-> want[c], content |-> None]]
  /\ pc' = [pc EXCEPT ![c] = "symlinked"]
  /\ UNCHANGED <<tag, blobs, dest, local, temp, want, again, pool, shared, bounds>>

\* os.link: another name for the file the blob is now.
HardLink(c) ==
  /\ pc[c] = "hardlink"
  /\ entry' = [entry EXCEPT ![c] = [link |-> None, content |-> blobs[want[c]]]]
  /\ pc' = [pc EXCEPT ![c] = "hardlinked"]
  /\ UNCHANGED <<tag, blobs, dest, local, temp, want, again, pool, shared, bounds>>

\* shutil.copy2, which takes its time ...
CopyStarts(c) ==
  /\ pc[c] = "copy"
  /\ entry' = [entry EXCEPT ![c] = [link |-> None, content |-> Partial]]
  /\ pc' = [pc EXCEPT ![c] = "copying"]
  /\ UNCHANGED <<tag, blobs, dest, local, temp, want, again, pool, shared, bounds>>

\* ... and is complete.
CopyEnds(c) ==
  /\ pc[c] = "copying"
  /\ entry' = [entry EXCEPT ![c] = [link |-> None, content |-> blobs[want[c]]]]
  /\ pc' = [pc EXCEPT ![c] = "copied"]
  /\ UNCHANGED <<tag, blobs, dest, local, temp, want, again, pool, shared, bounds>>

\* An OSError of a link or of its os.replace: the temporary entry goes, and the
\* next kind is tried.
FallBack(c) ==
  /\ pc[c] \in {"symlink", "symlinked", "hardlink", "hardlinked"}
  /\ entry' = [entry EXCEPT ![c] = None]
  /\ pc' = [pc EXCEPT ![c] = IF @ \in {"symlink", "symlinked"} THEN "hardlink" ELSE "copy"]
  /\ UNCHANGED <<tag, blobs, dest, local, temp, want, again, pool, shared, bounds>>

\* An OSError that nothing catches, of the rename, the remove or the replace of
\* the downloaded file, of makedirs or the copy, or of the unlink in FallBack:
\* the temporary file or entry is left behind.
PlaceFails(c) ==
  /\ pc[c] \in {"rename", "discard", "replace", "symlink", "copy", "copying"} \cup Made
  /\ pc' = [pc EXCEPT ![c] = "failed"]
  /\ UNCHANGED <<tag, blobs, dest, local, entry, temp, want, again, pool, shared, bounds>>

\* Mutant: an existing entry is removed before the new one is put there.
SwapAfterRemove(c) ==
  /\ pc[c] \in Made
  /\ IF dest[Title[c]] # None
     THEN dest' = [dest EXCEPT ![Title[c]] = None] /\ UNCHANGED <<entry, pc>>
     ELSE /\ dest' = [dest EXCEPT ![Title[c]] = entry[c]]
          /\ entry' = [entry EXCEPT ![c] = None]
          /\ pc' = [pc EXCEPT ![c] = "done"]
  /\ UNCHANGED <<tag, blobs, local, temp, want, again, pool, shared, bounds>>

\* os.replace(tmp_dst, dst), one step for every reader.
Swap(c) ==
  /\ pc[c] \in Made
  /\ dest' = [dest EXCEPT ![Title[c]] = entry[c]]
  /\ entry' = [entry EXCEPT ![c] = None]
  /\ pc' = [pc EXCEPT ![c] = "done"]
  /\ UNCHANGED <<tag, blobs, local, temp, want, again, pool, shared, bounds>>

\* local_dir: os.replace of the temporary sibling.
Replace(c) ==
  /\ pc[c] = "replace"
  /\ local' = [local EXCEPT ![Title[c]] = temp[c]]
  /\ temp' = [temp EXCEPT ![c] = None]
  /\ pc' = [pc EXCEPT ![c] = "done"]
  /\ UNCHANGED <<tag, blobs, dest, entry, want, again, pool, shared, bounds>>

-----------------------------------------------------------------------------
(* snapshot_download: the manifest is read once, the files go to a pool.   *)

Begin(c) ==
  /\ c \notin Snapshot /\ pc[c] = "idle"
  /\ pc' = [pc EXCEPT ![c] = "start"]
  /\ UNCHANGED <<tag, blobs, dest, local, entry, temp, want, again, pool, shared, bounds>>

SnapshotStarts ==
  /\ pool = "fetch"
  /\ shared' = tag
  /\ pool' = "fan"
  /\ pc' = [c \in Calls |-> IF c \in Snapshot /\ tag[Title[c]] # None THEN "queued" ELSE pc[c]]
  /\ UNCHANGED <<tag, blobs, dest, local, entry, temp, want, again, bounds>>

Submitted == {c \in Snapshot : pc[c] # "idle"}
Busy == {c \in Snapshot : pc[c] \notin Idle}

TakeUp(c) ==
  /\ c \in Snapshot /\ pc[c] = "queued" /\ Cardinality(Busy) < Workers
  /\ pc' = [pc EXCEPT ![c] = "start"]
  /\ UNCHANGED <<tag, blobs, dest, local, entry, temp, want, again, pool, shared, bounds>>

SnapshotDone ==
  /\ pool = "fan" /\ \A c \in Submitted : pc[c] \in {"done", "hit"}
  /\ pool' = "ok"
  /\ UNCHANGED <<tag, blobs, dest, local, entry, temp, want, pc, again, shared, bounds>>

\* The first failure cancels what has not started.
SnapshotFails ==
  /\ pool = "fan" /\ \E c \in Submitted : pc[c] = "failed"
  /\ pool' = "raise"
  /\ pc' = [c \in Calls |-> IF c \in Snapshot /\ pc[c] = "queued" THEN "cancelled" ELSE pc[c]]
  /\ UNCHANGED <<tag, blobs, dest, local, entry, temp, want, again, shared, bounds>>

\* Leaving the with-block joins the running downloads.
SnapshotRaises ==
  /\ pool = "raise" /\ Busy = {}
  /\ pool' = "failed"
  /\ UNCHANGED <<tag, blobs, dest, local, entry, temp, want, pc, again, shared, bounds>>

-----------------------------------------------------------------------------
(* The surroundings: another writer moves the tag, a process dies.         *)

TagMoves ==
  /\ moves < MaxMoves
  /\ \E m \in Manifests \ {tag} : tag' = m
  /\ moves' = moves + 1
  /\ UNCHANGED <<blobs, dest, local, entry, temp, want, pc, again, pool, shared, crashes>>

Crash(p) ==
  /\ crashes < MaxCrashes
  /\ \E c \in Calls : Proc[c] = p /\ pc[c] \notin Ended
  /\ crashes' = crashes + 1
  /\ pc' = [c \in Calls |-> IF Proc[c] = p /\ pc[c] \notin Ended THEN "dead" ELSE pc[c]]
  /\ pool' = IF (\E c \in Snapshot : Proc[c] = p) /\ pool \notin {"off", "ok", "failed"}
             THEN "failed" ELSE pool
  /\ UNCHANGED <<tag, blobs, dest, local, entry, temp, want, again, shared, moves>>

Init ==
  /\ tag \in Manifests
  /\ blobs = [d \in Digests |-> None]
  /\ dest = [t \in Titles |-> None] /\ local = [t \in Titles |-> None]
  /\ entry = [c \in Calls |-> None]
  /\ temp = [c \in Calls |-> None] /\ want = [c \in Calls |-> None]
  /\ pc = [c \in Calls |-> "idle"] /\ again = {}
  /\ pool = IF Snapshot = {} THEN "off" ELSE "fetch"
  /\ shared = tag
  /\ moves = 0 /\ crashes = 0

CallStep(c) ==
  \/ Check(c) \/ Resolve(c) \/ FetchFails(c) \/ Mismatch(c) \/ Fetched(c)
  \/ CheckBlob(c) \/ Rename(c) \/ Discard(c) \/ Replace(c) \/ PlaceFails(c)
  \/ SymLink(c) \/ HardLink(c) \/ CopyStarts(c) \/ CopyEnds(c) \/ FallBack(c) \/ Swap(c)

SnapshotStep == SnapshotStarts \/ SnapshotDone \/ SnapshotFails \/ SnapshotRaises

AllEnded ==
  /\ \A c \in Calls : pc[c] \in Ended \/ (c \in Snapshot /\ pc[c] = "idle")
  /\ pool \in {"off", "ok", "failed"}
  /\ UNCHANGED vars

Next ==
  \/ \E c \in Calls : Begin(c) \/ TakeUp(c) \/ CallStep(c)
  \/ SnapshotStep \/ TagMoves \/ AllEnded
  \/ \E p \in {Proc[c] : c \in Calls} : Crash(p)

Spec == Init /\ [][Next]_vars

-----------------------------------------------------------------------------
(* Properties.                                                             *)

(***************************************************************************)
(* A reader of the cache or of local_dir finds nothing or a whole file     *)
(* that one of the revision's manifests names under that title, at any     *)
(* moment: never a partial or corrupted one, whoever downloads, links,     *)
(* copies, fails or dies (_download_to_cache, _create_symlink).            *)
(***************************************************************************)
ReadersSeeWhole ==
  \A t \in Titles :
    /\ dest[t] # None => \E m \in Manifests : ContentOf(dest[t]) = m[t]
    /\ local[t] # None => \E m \in Manifests : local[t] = m[t]

(***************************************************************************)
(* The path a call has returned stays readable, what its link leads to     *)
(* included, whichever other calls replace the entry or the blob, fall     *)
(* back, fail half-way or die meanwhile (the race that _create_symlink     *)
(* describes: a reader never meets an absent entry).                       *)
(***************************************************************************)
ReturnedPathsStay == \A c \in Calls : pc[c] \in {"done", "hit"} => Exists(c)

(***************************************************************************)
(* A snapshot that starts from an empty cache and returns holds the files  *)
(* of one manifest (those no other call writes), even when the tag moved   *)
(* or a token expired on the way (snapshot_download shares its manifest).  *)
(***************************************************************************)
SnapshotConsistent ==
  pool = "ok" => \A c \in Snapshot :
    shared[Title[c]] # None /\ (\A d \in Calls \ Snapshot : Title[d] # Title[c]) =>
      dest[Title[c]] # None /\ ContentOf(dest[Title[c]]) = shared[Title[c]]
=============================================================================

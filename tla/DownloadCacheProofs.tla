------------------------- MODULE DownloadCacheProofs -------------------------
(***************************************************************************)
(* The download cache for any calls, processes, manifests, moves of the    *)
(* tag, failures and crashes: readers see whole files, the paths handed    *)
(* out stay readable, and a snapshot is of one manifest.                   *)
(***************************************************************************)
EXTENDS DownloadCache, TLAPS

\* The registry sends right bytes, or every download is verified.
Trusted == Corrupting => Verifying = Calls

\* The snapshot goes to the cache, not to a local_dir.
ToCache == Snapshot \cap Local = {}

Places ==
  {"idle", "queued", "start", "resolve", "fetch", "place", "rename", "discard", "replace"}
    \cup Making \cup Made \cup Ended

\* What the revision's manifests name under a title.
Named(t) == {m[t] : m \in Manifests} \ {None}

\* A blob is whole, and under its own digest.
BlobsWhole == blobs \in [Digests -> Digests \cup {None}] /\ \A d \in Digests : blobs[d] \in {None, d}

\* An entry of a title, with what it links to in place.
Whole(e, t) ==
  \/ e.link # None /\ e.link \in Named(t) /\ blobs[e.link] = e.link /\ e.content = None
  \/ e.link = None /\ e.content \in Named(t)

\* The snapshot entry of a digest: a link to its blob, or its content.
EntryOf(e, d) ==
  \/ e.link = d /\ e.content = None
  \/ e.link = None /\ e.content = d

TypeOK ==
  /\ tag \in Manifests /\ shared \in Manifests
  /\ pc \in [Calls -> Places]
  /\ dest \in [Titles -> Entry \cup {None}]
  /\ local \in [Titles -> Digests \cup {None}]
  /\ entry \in [Calls -> Entry \cup {None}]
  /\ DOMAIN temp = Calls /\ DOMAIN want = Calls
  /\ pool \in {"off", "fetch", "fan", "raise", "ok", "failed"}

\* A call that has resolved its file wants what the revision named; what it has
\* downloaded is that; what it links to is in place; the entry it has made is whole.
Fetching(c) ==
  /\ pc[c] \in {"fetch", "place", "rename", "discard", "replace"} \cup Making \cup Made =>
       want[c] \in Named(Title[c])
  /\ pc[c] \in {"place", "rename", "discard", "replace"} => temp[c] = want[c]
  /\ pc[c] \in {"discard"} \cup Making \cup Made => blobs[want[c]] = want[c]
  /\ pc[c] \in Made => entry[c] # None /\ EntryOf(entry[c], want[c])

EntriesWhole ==
  \A t \in Titles :
    /\ dest[t] # None => Whole(dest[t], t)
    /\ local[t] # None => local[t] \in Named(t)

\* The inductive invariant of ReadersSeeWhole.
WholeInv ==
  /\ TypeOK /\ BlobsWhole /\ EntriesWhole
  /\ \A c \in Calls : Fetching(c)

\* No call outside the snapshot writes the title.
Only(t) == \A d \in Calls \ Snapshot : Title[d] # t

\* A snapshot's call works from its manifest, and leaves an entry behind.
Sharing(c) ==
  /\ pool # "off" /\ (pool = "fetch" => pc[c] = "idle")
  /\ pool \in {"fan", "raise"} /\ shared[Title[c]] # None => pc[c] # "idle"
  /\ pool = "ok" /\ shared[Title[c]] # None => pc[c] \in {"done", "hit"}
  /\ pc[c] \in {"fetch", "place", "rename", "discard"} \cup Making \cup Made =>
       want[c] = shared[Title[c]]
  /\ pc[c] # "replace"
  /\ pc[c] \in {"done", "hit"} => dest[Title[c]] # None

\* The entry of a title that only the snapshot writes is of its manifest.
OfManifest(t) ==
  Only(t) /\ dest[t] # None =>
    pool \notin {"off", "fetch"} /\ ContentOf(dest[t]) = shared[t]

\* The inductive invariant of SnapshotConsistent.
SnapshotInv ==
  /\ WholeInv
  /\ \A c \in Snapshot : Sharing(c)
  /\ \A t \in Titles : OfManifest(t)

Typed ==
  /\ tag \in Manifests /\ shared \in Manifests
  /\ pc \in [Calls -> Places]
  /\ blobs \in [Digests -> Content] /\ temp \in [Calls -> Content]
  /\ want \in [Calls -> Digests \cup {None}]
  /\ dest \in [Titles -> Entry \cup {None}] /\ entry \in [Calls -> Entry \cup {None}]
  /\ local \in [Titles -> Content]

\* Something is behind an entry.
Readable(e) == e # None /\ ContentOf(e) # None

\* Before a call has a path to return: its file is there until it is a blob, then
\* the blob is, and the entry it has made leads somewhere.
Holding(c) ==
  /\ pc[c] \in {"fetch", "place", "rename", "discard", "replace"} \cup Making \cup Made =>
       want[c] \in Digests
  /\ pc[c] = "replace" => c \in Local
  /\ pc[c] \in {"place", "rename", "discard"} \cup Making \cup Made => c \notin Local
  /\ pc[c] \in {"place", "rename", "discard", "replace"} => temp[c] # None
  /\ pc[c] \in {"discard"} \cup Making \cup Made => blobs[want[c]] # None
  /\ pc[c] \in Made => Readable(entry[c])

\* The inductive invariant of ReturnedPathsStay.
StayInv ==
  /\ Typed /\ ReturnedPathsStay
  /\ \A c \in Calls : Holding(c)

-----------------------------------------------------------------------------
(* Every step keeps the files whole.                                       *)

\* What the revision named is a digest.
LEMMA NamedDigests ==
  ASSUME NEW t \in Titles
  PROVE  Named(t) \subseteq Digests /\ None \notin Named(t)
<1>1. ASSUME NEW m \in Manifests, m[t] # None PROVE m[t] \in Digests
  <2>1. m[t] \in {m[u] : u \in Titles}
    OBVIOUS
  <2>2. {m[u] : u \in Titles} \in {{n[u] : u \in Titles} : n \in Manifests}
    OBVIOUS
  <2>3. QED
    BY <1>1, <2>1, <2>2 DEF Digests
<1>2. QED
  BY <1>1 DEF Named

LEMMA TitleOf ==
  ASSUME NEW c \in Calls
  PROVE  Title[c] \in Titles
BY DEF Titles

\* A step that touches no file of the cache or of local_dir.
LEMMA FilesKept ==
  ASSUME WholeInv, UNCHANGED <<blobs, dest, local>>
  PROVE  BlobsWhole' /\ EntriesWhole'
BY DEF WholeInv, BlobsWhole, EntriesWhole, Whole

\* A call starts.
LEMMA BeginWhole ==
  ASSUME Trusted, WholeInv, NEW c \in Calls, Begin(c)
  PROVE  WholeInv'
<1> USE DEF Begin
<1>1. TypeOK'
  BY DEF WholeInv, TypeOK, Places, Making, Made, Ended
<1>2. BlobsWhole' /\ EntriesWhole'
  BY FilesKept DEF WholeInv
<1>3. (\A u \in Calls : Fetching(u))'
  BY DEF WholeInv, TypeOK, Fetching, Making, Made, Ended
<1>4. QED
  BY <1>1, <1>2, <1>3 DEF WholeInv

\* A worker of the pool takes up a call.
LEMMA TakeUpWhole ==
  ASSUME Trusted, WholeInv, NEW c \in Calls, TakeUp(c)
  PROVE  WholeInv'
<1> USE DEF TakeUp
<1>1. TypeOK'
  BY DEF WholeInv, TypeOK, Places, Making, Made, Ended
<1>2. BlobsWhole' /\ EntriesWhole'
  BY FilesKept DEF WholeInv
<1>3. (\A u \in Calls : Fetching(u))'
  BY DEF WholeInv, TypeOK, Fetching, Making, Made, Ended
<1>4. QED
  BY <1>1, <1>2, <1>3 DEF WholeInv

\* The cache check.
LEMMA CheckWhole ==
  ASSUME Trusted, WholeInv, NEW c \in Calls, Check(c)
  PROVE  WholeInv'
<1> USE DEF Check
<1>1. TypeOK'
  BY DEF WholeInv, TypeOK, Places, Making, Made, Ended
<1>2. BlobsWhole' /\ EntriesWhole'
  BY FilesKept DEF WholeInv
<1>3. (\A u \in Calls : Fetching(u))'
  BY DEF WholeInv, TypeOK, Fetching, Making, Made, Ended
<1>4. QED
  BY <1>1, <1>2, <1>3 DEF WholeInv

\* Another call's blob is there: this call's file goes.
LEMMA DiscardWhole ==
  ASSUME Trusted, WholeInv, NEW c \in Calls, Discard(c)
  PROVE  WholeInv'
<1> USE DEF Discard
<1>1. TypeOK'
  BY DEF WholeInv, TypeOK, Places, Making, Made, Ended
<1>2. BlobsWhole' /\ EntriesWhole'
  BY FilesKept DEF WholeInv
<1>3. (\A u \in Calls : Fetching(u))'
  BY DEF WholeInv, TypeOK, Fetching, Making, Made, Ended
<1>4. QED
  BY <1>1, <1>2, <1>3 DEF WholeInv

\* The blob is there, whole, or not.
LEMMA CheckBlobWhole ==
  ASSUME Trusted, WholeInv, NEW c \in Calls, CheckBlob(c)
  PROVE  WholeInv'
<1> USE DEF CheckBlob
<1>1. TypeOK'
  BY DEF WholeInv, TypeOK, Places, Making, Made, Ended
<1>2. BlobsWhole' /\ EntriesWhole'
  BY FilesKept DEF WholeInv
<1>3. (\A u \in Calls : Fetching(u))'
  <2>1. want[c] \in Digests
    BY TitleOf, NamedDigests DEF WholeInv, Fetching, Making, Made
  <2>2. blobs[want[c]] \in {None, want[c]}
    BY <2>1 DEF WholeInv, BlobsWhole
  <2>3. QED
    BY <2>2 DEF WholeInv, TypeOK, Fetching, Making, Made, Ended
<1>4. QED
  BY <1>1, <1>2, <1>3 DEF WholeInv

\* The file of the snapshot's manifest, or of the tag's.
LEMMA ResolveWhole ==
  ASSUME Trusted, WholeInv, NEW c \in Calls, Resolve(c)
  PROVE  WholeInv'
<1> USE DEF Resolve
<1>1. TypeOK'
  BY DEF WholeInv, TypeOK, Places, Making, Made, Ended
<1>2. BlobsWhole' /\ EntriesWhole'
  BY FilesKept DEF WholeInv
<1>3. (\A u \in Calls : Fetching(u))'
  <2>1. Source(c) \in Manifests
    BY DEF Source, WholeInv, TypeOK
  <2>2. Source(c)[Title[c]] # None => Source(c)[Title[c]] \in Named(Title[c])
    BY <2>1 DEF Named
  <2>3. QED
    BY <2>2 DEF WholeInv, TypeOK, Fetching, Making, Made, Ended
<1>4. QED
  BY <1>1, <1>2, <1>3 DEF WholeInv

\* The download is given up, or begun again.
LEMMA FetchFailsWhole ==
  ASSUME Trusted, WholeInv, NEW c \in Calls, FetchFails(c)
  PROVE  WholeInv'
<1> USE DEF FetchFails, Abandon
<1>1. TypeOK'
  BY DEF WholeInv, TypeOK, Places, Making, Made, Ended
<1>2. BlobsWhole' /\ EntriesWhole'
  BY FilesKept DEF WholeInv
<1>3. (\A u \in Calls : Fetching(u))'
  BY DEF WholeInv, TypeOK, Fetching, Making, Made, Ended
<1>4. QED
  BY <1>1, <1>2, <1>3 DEF WholeInv

\* The digest tells: the file goes.
LEMMA MismatchWhole ==
  ASSUME Trusted, WholeInv, NEW c \in Calls, Mismatch(c)
  PROVE  WholeInv'
<1> USE DEF Mismatch
<1>1. TypeOK'
  BY DEF WholeInv, TypeOK, Places, Making, Made, Ended
<1>2. BlobsWhole' /\ EntriesWhole'
  BY FilesKept DEF WholeInv
<1>3. (\A u \in Calls : Fetching(u))'
  BY DEF WholeInv, TypeOK, Fetching, Making, Made, Ended
<1>4. QED
  BY <1>1, <1>2, <1>3 DEF WholeInv

\* What is accepted is what was wanted.
LEMMA FetchedWhole ==
  ASSUME Trusted, WholeInv, NEW c \in Calls, Fetched(c)
  PROVE  WholeInv'
<1> USE DEF Fetched
<1>1. TypeOK'
  BY DEF WholeInv, TypeOK, Places, Making, Made, Ended
<1>2. BlobsWhole' /\ EntriesWhole'
  BY FilesKept DEF WholeInv
<1>3. (\A u \in Calls : Fetching(u))'
  <2>1. temp' = [temp EXCEPT ![c] = want[c]]
    <3>1. PICK got \in {want[c]} \cup (IF Corrupting THEN {Wrong} ELSE {}) :
            Matches(c, got) /\ temp' = [temp EXCEPT ![c] = got]
      OBVIOUS
    <3>2. CASE Corrupting
      BY <3>1, <3>2 DEF Trusted, Matches
    <3>3. CASE ~Corrupting
      BY <3>1, <3>3
    <3>4. QED
      BY <3>2, <3>3
  <2>2. QED
    BY <2>1 DEF WholeInv, TypeOK, Fetching, Making, Made, Ended
<1>4. QED
  BY <1>1, <1>2, <1>3 DEF WholeInv

\* The snapshot's calls are queued.
LEMMA SnapshotStartsWhole ==
  ASSUME Trusted, WholeInv, SnapshotStarts
  PROVE  WholeInv'
<1> USE DEF SnapshotStarts
<1>1. TypeOK'
  BY DEF WholeInv, TypeOK, Places, Making, Made, Ended
<1>2. BlobsWhole' /\ EntriesWhole'
  BY FilesKept DEF WholeInv
<1>3. (\A u \in Calls : Fetching(u))'
  BY DEF WholeInv, TypeOK, Fetching, Making, Made, Ended
<1>4. QED
  BY <1>1, <1>2, <1>3 DEF WholeInv

\* The snapshot has returned.
LEMMA SnapshotDoneWhole ==
  ASSUME Trusted, WholeInv, SnapshotDone
  PROVE  WholeInv'
<1> USE DEF SnapshotDone
<1>1. TypeOK'
  BY DEF WholeInv, TypeOK, Places, Making, Made, Ended
<1>2. BlobsWhole' /\ EntriesWhole'
  BY FilesKept DEF WholeInv
<1>3. (\A u \in Calls : Fetching(u))'
  BY DEF WholeInv, TypeOK, Fetching, Making, Made, Ended
<1>4. QED
  BY <1>1, <1>2, <1>3 DEF WholeInv

\* What has not started is cancelled.
LEMMA SnapshotFailsWhole ==
  ASSUME Trusted, WholeInv, SnapshotFails
  PROVE  WholeInv'
<1> USE DEF SnapshotFails
<1>1. TypeOK'
  BY DEF WholeInv, TypeOK, Places, Making, Made, Ended
<1>2. BlobsWhole' /\ EntriesWhole'
  BY FilesKept DEF WholeInv
<1>3. (\A u \in Calls : Fetching(u))'
  BY DEF WholeInv, TypeOK, Fetching, Making, Made, Ended
<1>4. QED
  BY <1>1, <1>2, <1>3 DEF WholeInv

\* The snapshot has raised.
LEMMA SnapshotRaisesWhole ==
  ASSUME Trusted, WholeInv, SnapshotRaises
  PROVE  WholeInv'
<1> USE DEF SnapshotRaises
<1>1. TypeOK'
  BY DEF WholeInv, TypeOK, Places, Making, Made, Ended
<1>2. BlobsWhole' /\ EntriesWhole'
  BY FilesKept DEF WholeInv
<1>3. (\A u \in Calls : Fetching(u))'
  BY DEF WholeInv, TypeOK, Fetching, Making, Made, Ended
<1>4. QED
  BY <1>1, <1>2, <1>3 DEF WholeInv

\* Whatever the tag names next.
LEMMA TagMovesWhole ==
  ASSUME Trusted, WholeInv, TagMoves
  PROVE  WholeInv'
<1> USE DEF TagMoves
<1>1. TypeOK'
  BY DEF WholeInv, TypeOK, Places, Making, Made, Ended
<1>2. BlobsWhole' /\ EntriesWhole'
  BY FilesKept DEF WholeInv
<1>3. (\A u \in Calls : Fetching(u))'
  BY DEF WholeInv, TypeOK, Fetching, Making, Made, Ended
<1>4. QED
  BY <1>1, <1>2, <1>3 DEF WholeInv

\* A process dies: its files stay as they are.
LEMMA CrashWhole ==
  ASSUME Trusted, WholeInv, NEW p, Crash(p)
  PROVE  WholeInv'
<1> USE DEF Crash
<1>1. TypeOK'
  BY DEF WholeInv, TypeOK, Places, Making, Made, Ended
<1>2. BlobsWhole' /\ EntriesWhole'
  BY FilesKept DEF WholeInv
<1>3. (\A u \in Calls : Fetching(u))'
  BY DEF WholeInv, TypeOK, Fetching, Making, Made, Ended
<1>4. QED
  BY <1>1, <1>2, <1>3 DEF WholeInv

\* A blob appears, or is replaced by the same content.
LEMMA RenameWhole ==
  ASSUME Trusted, WholeInv, NEW c \in Calls, Rename(c)
  PROVE  WholeInv'
<1> USE DEF Rename
<1>1. want[c] \in Digests /\ temp[c] = want[c]
  BY TitleOf, NamedDigests DEF WholeInv, Fetching, Making, Made
<1>2. TypeOK'
  BY DEF WholeInv, TypeOK, Places, Making, Made, Ended
<1>3. BlobsWhole'
  BY <1>1 DEF WholeInv, BlobsWhole
<1>4. \A d \in Digests : blobs[d] = d => blobs'[d] = d
  BY <1>1 DEF WholeInv, BlobsWhole
<1>5. blobs'[want[c]] = want[c]
  BY <1>1 DEF WholeInv, BlobsWhole
<1>6. EntriesWhole'
  BY <1>4, NamedDigests DEF WholeInv, EntriesWhole, Whole
<1>7. (\A u \in Calls : Fetching(u))'
  <2> SUFFICES ASSUME NEW u \in Calls PROVE Fetching(u)'
    OBVIOUS
  <2>1. pc[u] \in {"discard"} \cup Making \cup Made => want[u] \in Digests
    BY TitleOf, NamedDigests DEF WholeInv, Fetching, Making, Made
  <2>2. QED
    BY <1>1, <1>4, <1>5, <2>1 DEF WholeInv, TypeOK, Fetching, Making, Made, Ended
<1>8. QED
  BY <1>2, <1>3, <1>6, <1>7 DEF WholeInv

\* The entry of a digest in place is whole, and is an entry.
LEMMA EntryWhole ==
  ASSUME WholeInv, NEW c \in Calls, pc[c] \in {"discard"} \cup Making \cup Made,
         NEW e, e = [link |-> want[c], content |-> None] \/ e = [link |-> None, content |-> want[c]]
  PROVE  /\ Title[c] \in Titles /\ want[c] \in Named(Title[c]) /\ want[c] \in Digests
         /\ blobs[want[c]] = want[c]
         /\ e \in Entry /\ e # None /\ EntryOf(e, want[c])
<1>1. Title[c] \in Titles /\ want[c] \in Named(Title[c]) /\ blobs[want[c]] = want[c]
  BY TitleOf DEF WholeInv, Fetching, Making, Made
<1>2. want[c] \in Digests
  BY <1>1, NamedDigests
<1>3. e \in Entry /\ EntryOf(e, want[c])
  BY <1>2 DEF Entry, Content, EntryOf
<1>4. QED
  BY <1>1, <1>2, <1>3, CacheAssumption

\* A call gets another temporary entry, or none, and goes on with _create_symlink or
\* ends: nothing a reader sees changes.
LEMMA EntryMade ==
  ASSUME WholeInv, NEW c \in Calls, NEW e \in Entry \cup {None},
         NEW q \in Making \cup Made \cup {"failed"},
         entry' = [entry EXCEPT ![c] = e], pc' = [pc EXCEPT ![c] = q],
         UNCHANGED <<tag, blobs, dest, local, temp, want, pool, shared>>,
         q # "failed" => pc[c] \in Making \cup Made,
         q \in Made => e # None /\ EntryOf(e, want[c])
  PROVE  WholeInv'
<1>1. BlobsWhole' /\ EntriesWhole'
  BY FilesKept
<1>2. TypeOK'
  BY DEF WholeInv, TypeOK, Places, Ended
<1>3. ASSUME NEW u \in Calls PROVE Fetching(u)'
  <2>1. CASE u = c
    <3>1. pc'[u] = q /\ entry'[u] = e
      BY <2>1 DEF WholeInv, TypeOK
    <3>2. q # "failed" => want[u] \in Named(Title[u]) /\ blobs[want[u]] = want[u]
      BY <2>1 DEF WholeInv, Fetching
    <3>3. q \notin {"fetch", "place", "rename", "discard", "replace"} /\ "failed" \notin Making \cup Made
      BY DEF Making, Made
    <3>4. QED
      BY <2>1, <3>1, <3>2, <3>3 DEF Fetching
  <2>2. CASE u # c
    BY <2>2 DEF WholeInv, TypeOK, Fetching
  <2>3. QED
    BY <2>1, <2>2
<1>4. QED
  BY <1>1, <1>2, <1>3 DEF WholeInv

\* A step of _create_symlink before the replace.
LEMMA MakeWhole ==
  ASSUME WholeInv, NEW c \in Calls,
         SymLink(c) \/ HardLink(c) \/ CopyStarts(c) \/ CopyEnds(c) \/ FallBack(c) \/ PlaceFails(c)
  PROVE  WholeInv'
<1>1. pc[c] \in Making => blobs[want[c]] = want[c]
  BY DEF WholeInv, Fetching
<1>2. CASE SymLink(c)
  <2> DEFINE e == [link |-> want[c], content |-> None]
  <2>1. pc[c] \in Making /\ "symlinked" \in Made
    BY <1>2 DEF SymLink, Making, Made
  <2>2. e \in Entry /\ e # None /\ EntryOf(e, want[c])
    BY <2>1, EntryWhole
  <2> HIDE DEF e
  <2>3. entry' = [entry EXCEPT ![c] = e]
    BY <1>2 DEF SymLink, e
  <2>4. QED
    BY <1>2, <2>1, <2>2, <2>3, EntryMade DEF SymLink
<1>3. CASE HardLink(c) \/ CopyEnds(c)
  <2> DEFINE e == [link |-> None, content |-> want[c]]
  <2>1. pc[c] \in Making /\ "hardlinked" \in Made /\ "copied" \in Made
    BY <1>3 DEF HardLink, CopyEnds, Making, Made
  <2>2. e \in Entry /\ e # None /\ EntryOf(e, want[c])
    BY <2>1, EntryWhole
  <2>3. entry' = [entry EXCEPT ![c] = e]
    BY <1>1, <1>3, <2>1 DEF HardLink, CopyEnds
  <2> HIDE DEF e
  <2>4. CASE HardLink(c)
    BY <2>1, <2>2, <2>3, <2>4, EntryMade DEF HardLink
  <2>5. CASE CopyEnds(c)
    BY <2>1, <2>2, <2>3, <2>5, EntryMade DEF CopyEnds
  <2>6. QED
    BY <1>3, <2>4, <2>5
<1>4. CASE CopyStarts(c)
  <2> DEFINE e == [link |-> None, content |-> Partial]
  <2>1. e \in Entry
    BY DEF Entry, Content
  <2>2. entry' = [entry EXCEPT ![c] = e]
    BY <1>4 DEF CopyStarts
  <2> HIDE DEF e
  <2>3. pc[c] \in Making /\ "copying" \in Making /\ "copying" \notin Made
    BY <1>4 DEF CopyStarts, Making, Made
  <2>4. QED
    BY <1>4, <2>1, <2>2, <2>3, EntryMade DEF CopyStarts
<1>5. CASE FallBack(c)
  <2>1. pc[c] \in Making \cup Made /\ {"hardlink", "copy"} \subseteq Making \ Made
    BY <1>5 DEF FallBack, Making, Made
  <2>2. \E q \in {"hardlink", "copy"} : pc' = [pc EXCEPT ![c] = q]
    BY <1>5 DEF FallBack
  <2>3. QED
    BY <1>5, <2>1, <2>2, EntryMade DEF FallBack
<1>6. CASE PlaceFails(c)
  <2>1. entry' = [entry EXCEPT ![c] = entry[c]] /\ entry[c] \in Entry \cup {None}
    BY <1>6 DEF PlaceFails, WholeInv, TypeOK
  <2>2. "failed" \notin Made
    BY DEF Made
  <2>3. QED
    BY <1>6, <2>1, <2>2, EntryMade DEF PlaceFails
<1>7. QED
  BY <1>2, <1>3, <1>4, <1>5, <1>6

\* The replace puts a whole entry into place.
LEMMA SwapWhole ==
  ASSUME WholeInv, NEW c \in Calls, Swap(c)
  PROVE  WholeInv'
<1> USE DEF Swap
<1>1. Title[c] \in Titles /\ want[c] \in Named(Title[c]) /\ blobs[want[c]] = want[c]
  BY TitleOf DEF WholeInv, Fetching, Made
<1>2. entry[c] \in Entry /\ EntryOf(entry[c], want[c])
  BY DEF WholeInv, TypeOK, Fetching
<1>3. want[c] \in Digests /\ want[c] # None
  BY <1>1, NamedDigests
<1>4. Whole(entry[c], Title[c])
  BY <1>1, <1>2, <1>3 DEF EntryOf, Whole
<1>5. TypeOK'
  BY <1>1, <1>2 DEF WholeInv, TypeOK, Places, Making, Made, Ended
<1>6. BlobsWhole'
  BY DEF WholeInv, BlobsWhole
<1>7. EntriesWhole'
  BY <1>1, <1>2, <1>4 DEF WholeInv, TypeOK, EntriesWhole, Whole
<1>8. (\A u \in Calls : Fetching(u))'
  BY DEF WholeInv, TypeOK, Fetching, Making, Made, Ended
<1>9. QED
  BY <1>5, <1>6, <1>7, <1>8 DEF WholeInv

\* The file of local_dir is replaced by a whole one.
LEMMA ReplaceWhole ==
  ASSUME Trusted, WholeInv, NEW c \in Calls, Replace(c)
  PROVE  WholeInv'
<1> USE DEF Replace
<1>1. Title[c] \in Titles /\ temp[c] \in Named(Title[c]) /\ temp[c] \in Digests
  BY TitleOf, NamedDigests DEF WholeInv, Fetching, Making, Made
<1>2. TypeOK'
  BY <1>1 DEF WholeInv, TypeOK, Places, Making, Made, Ended
<1>3. BlobsWhole'
  BY DEF WholeInv, BlobsWhole
<1>4. EntriesWhole'
  BY <1>1 DEF WholeInv, TypeOK, EntriesWhole, Whole
<1>5. (\A u \in Calls : Fetching(u))'
  BY DEF WholeInv, TypeOK, Fetching, Making, Made, Ended
<1>6. QED
  BY <1>2, <1>3, <1>4, <1>5 DEF WholeInv

LEMMA WholeInit ==
  ASSUME Init
  PROVE  WholeInv
<1>1. TypeOK
  BY DEF Init, TypeOK, Places
<1>2. BlobsWhole /\ EntriesWhole
  BY DEF Init, BlobsWhole, EntriesWhole
<1>3. \A c \in Calls : Fetching(c)
  BY DEF Init, Fetching, Making, Made
<1>4. QED
  BY <1>1, <1>2, <1>3 DEF WholeInv

LEMMA WholeNext ==
  ASSUME Trusted, WholeInv, [Next]_vars
  PROVE  WholeInv'
<1>1. ASSUME NEW c \in Calls, Begin(c) \/ TakeUp(c) \/ CallStep(c) PROVE WholeInv'
  BY <1>1, BeginWhole, TakeUpWhole, CheckWhole, ResolveWhole, FetchFailsWhole, MismatchWhole,
     FetchedWhole, CheckBlobWhole, RenameWhole, DiscardWhole, ReplaceWhole, MakeWhole, SwapWhole
  DEF CallStep
<1>2. CASE SnapshotStep
  BY <1>2, SnapshotStartsWhole, SnapshotDoneWhole, SnapshotFailsWhole, SnapshotRaisesWhole
  DEF SnapshotStep
<1>3. CASE UNCHANGED vars
  <2>1. BlobsWhole' /\ EntriesWhole'
    BY <1>3, FilesKept DEF vars
  <2>2. QED
    BY <1>3, <2>1 DEF vars, bounds, WholeInv, TypeOK, Fetching, Making, Made, Ended
<1>4. QED
  BY <1>1, <1>2, <1>3, TagMovesWhole, CrashWhole DEF Next, AllEnded

(***************************************************************************)
(* Readers of the cache and of local_dir see whole files that a manifest   *)
(* of the revision names, for any calls, tag moves, failures and crashes   *)
(* (hf_hub_download), provided that the registry sends right bytes or all  *)
(* calls verify them.                                                      *)
(***************************************************************************)
THEOREM CacheIsWhole ==
  ASSUME Trusted
  PROVE  Spec => []ReadersSeeWhole
<1>1. ASSUME WholeInv PROVE ReadersSeeWhole
  <2> SUFFICES ASSUME NEW t \in Titles
               PROVE  /\ dest[t] # None => ContentOf(dest[t]) \in Named(t)
                      /\ local[t] # None => local[t] \in Named(t)
    BY DEF ReadersSeeWhole, Named
  <2>1. QED
    BY <1>1 DEF WholeInv, EntriesWhole, Whole, ContentOf
<1>2. WholeInv /\ [Next]_vars => WholeInv'
  BY WholeNext
<1>3. QED
  BY <1>1, <1>2, WholeInit, PTL DEF Spec

-----------------------------------------------------------------------------
(* The paths handed out stay.                                              *)

LEMMA TypedNext ==
  ASSUME Typed, \A c \in Calls : Holding(c), [Next]_vars
  PROVE  Typed'
<1> USE DEF Typed, Places, Making, Made, Ended, bounds
<1>1. ASSUME NEW c \in Calls, Begin(c) \/ TakeUp(c) \/ CallStep(c) PROVE Typed'
  <2>1. CASE Begin(c) \/ TakeUp(c) \/ Check(c)
    BY <2>1 DEF Begin, TakeUp, Check
  <2>2. CASE Resolve(c)
    <3>1. Source(c)[Title[c]] \in Digests \cup {None}
      BY TitleOf, NamedDigests DEF Source, Named
    <3>2. QED
      BY <2>2, <3>1 DEF Resolve, Content
  <2>3. CASE FetchFails(c) \/ Mismatch(c)
    BY <2>3 DEF FetchFails, Abandon, Mismatch, Content
  <2>4. CASE Fetched(c)
    BY <2>4 DEF Fetched, Content
  <2>5. CASE CheckBlob(c) \/ Discard(c) \/ PlaceFails(c)
    BY <2>5 DEF CheckBlob, Discard, PlaceFails, Content
  <2>6. CASE Rename(c)
    BY <2>6 DEF Rename, Content
  <2>7. CASE Replace(c)
    BY <2>7 DEF Replace, Content
  <2>8. CASE SymLink(c) \/ HardLink(c) \/ CopyStarts(c) \/ CopyEnds(c)
    <3>1. want[c] \in Digests /\ blobs[want[c]] \in Content
      BY <2>8 DEF SymLink, HardLink, CopyStarts, CopyEnds, Holding
    <3>2. \A d \in Digests \cup {None}, x \in Content : [link |-> d, content |-> x] \in Entry
      BY DEF Entry
    <3>3. None \in Content /\ Partial \in Content
      BY DEF Content
    <3> DEFINE e1 == [link |-> want[c], content |-> None]
               e2 == [link |-> None, content |-> blobs[want[c]]]
               e3 == [link |-> None, content |-> Partial]
    <3>4. e1 \in Entry /\ e2 \in Entry /\ e3 \in Entry
      BY <3>1, <3>2, <3>3
    <3>5. \E e \in {e1, e2, e3} : entry' = [entry EXCEPT ![c] = e]
      BY <2>8 DEF SymLink, HardLink, CopyStarts, CopyEnds
    <3> HIDE DEF e1, e2, e3
    <3>6. entry' \in [Calls -> Entry \cup {None}]
      BY <3>4, <3>5
    <3>7. pc' \in [Calls -> Places]
      BY <2>8 DEF SymLink, HardLink, CopyStarts, CopyEnds
    <3>8. UNCHANGED <<tag, blobs, dest, local, temp, want, shared>>
      BY <2>8 DEF SymLink, HardLink, CopyStarts, CopyEnds
    <3>9. QED
      BY <3>6, <3>7, <3>8
  <2>9. CASE FallBack(c) \/ Swap(c)
    BY <2>9 DEF FallBack, Swap
  <2>10. QED
    BY <1>1, <2>1, <2>2, <2>3, <2>4, <2>5, <2>6, <2>7, <2>8, <2>9 DEF CallStep
<1>2. CASE SnapshotStep
  BY <1>2 DEF SnapshotStep, SnapshotStarts, SnapshotDone, SnapshotFails, SnapshotRaises
<1>3. CASE TagMoves
  BY <1>3 DEF TagMoves
<1>4. ASSUME NEW p, Crash(p) PROVE Typed'
  BY <1>4 DEF Crash
<1>5. CASE UNCHANGED vars
  BY <1>5 DEF vars
<1>6. QED
  BY <1>1, <1>2, <1>3, <1>4, <1>5 DEF Next, AllEnded

\* What one call does to the files: it touches none, or renames its whole file to
\* the blob, replaces the user's file by it, or puts a readable entry into place.
LEMMA CallFiles ==
  ASSUME StayInv, NEW c \in Calls, Begin(c) \/ TakeUp(c) \/ CallStep(c)
  PROVE  \/ UNCHANGED <<blobs, dest, local>>
         \/ Rename(c) /\ temp[c] # None /\ want[c] \in Digests
         \/ Replace(c) /\ temp[c] # None
         \/ Swap(c) /\ Readable(entry[c])
<1>1. Rename(c) => temp[c] # None /\ want[c] \in Digests
  BY DEF Rename, StayInv, Holding
<1>2. Replace(c) => temp[c] # None
  BY DEF Replace, StayInv, Holding
<1>3. Swap(c) => Readable(entry[c])
  BY DEF Swap, StayInv, Holding
<1>4. QED
  BY <1>1, <1>2, <1>3 DEF Begin, TakeUp, CallStep, Check, Resolve, FetchFails, Abandon, Mismatch,
     Fetched, CheckBlob, Discard, PlaceFails, SymLink, HardLink, CopyStarts, CopyEnds, FallBack

\* The other steps touch no file.
LEMMA OtherFiles ==
  ASSUME SnapshotStep \/ TagMoves \/ (\E p : Crash(p)) \/ UNCHANGED vars
  PROVE  UNCHANGED <<blobs, dest, local, entry>>
BY DEF SnapshotStep, SnapshotStarts, SnapshotDone, SnapshotFails, SnapshotRaises, TagMoves, Crash, vars

\* No blob goes.
LEMMA BlobsStay ==
  ASSUME StayInv, [Next]_vars
  PROVE  \A d \in Digests : blobs[d] # None => blobs'[d] # None
<1>1. ASSUME NEW c \in Calls, Begin(c) \/ TakeUp(c) \/ CallStep(c)
      PROVE  \A d \in Digests : blobs[d] # None => blobs'[d] # None
  BY <1>1, CallFiles DEF Rename, Replace, Swap, StayInv, Typed
<1>2. QED
  BY <1>1, OtherFiles DEF Next, AllEnded

\* So that what leads somewhere goes on doing so.
LEMMA ReadableStays ==
  ASSUME StayInv, [Next]_vars
  PROVE  \A e \in Entry : Readable(e) => Readable(e)'
BY BlobsStay DEF Readable, ContentOf, Entry

\* An entry leads somewhere for ever, and no file of the user goes.
LEMMA EntriesStay ==
  ASSUME StayInv, [Next]_vars, NEW t \in Titles
  PROVE  /\ Readable(dest[t]) => Readable(dest[t])'
         /\ local[t] # None => local'[t] # None
<1>1. dest[t] \in Entry \cup {None} /\ \A c \in Calls : entry[c] \in Entry \cup {None}
  BY DEF StayInv, Typed
<1>2. ASSUME UNCHANGED <<dest, local>>
      PROVE  /\ Readable(dest[t]) => Readable(dest[t])'
             /\ local[t] # None => local'[t] # None
  <2>1. Readable(dest[t]) => dest[t] \in Entry
    BY <1>1 DEF Readable
  <2>2. QED
    BY <1>2, <2>1, ReadableStays DEF Readable, ContentOf
<1>3. ASSUME NEW c \in Calls, Begin(c) \/ TakeUp(c) \/ CallStep(c)
      PROVE  /\ Readable(dest[t]) => Readable(dest[t])'
             /\ local[t] # None => local'[t] # None
  <2>1. CASE Rename(c) \/ UNCHANGED <<blobs, dest, local>>
    BY <1>2, <2>1 DEF Rename
  <2>2. CASE Replace(c) /\ temp[c] # None
    <3>1. UNCHANGED <<blobs, dest>>
      BY <2>2 DEF Replace
    <3>2. local[t] # None => local'[t] # None
      BY <2>2 DEF Replace, StayInv, Typed
    <3>3. QED
      BY <3>1, <3>2 DEF Readable, ContentOf
  <2>3. CASE Swap(c) /\ Readable(entry[c])
    <3>1. UNCHANGED <<blobs, local>> /\ dest' = [dest EXCEPT ![Title[c]] = entry[c]]
      BY <2>3 DEF Swap
    <3>2. CASE t = Title[c]
      <4>1. dest'[t] = entry[c]
        BY <3>1, <3>2 DEF StayInv, Typed
      <4>2. QED
        BY <2>3, <3>1, <4>1 DEF Readable, ContentOf
    <3>3. CASE t # Title[c]
      <4>1. dest'[t] = dest[t]
        BY <3>1, <3>3 DEF StayInv, Typed
      <4>2. QED
        BY <3>1, <4>1 DEF Readable, ContentOf
    <3>4. QED
      BY <3>2, <3>3
  <2>4. QED
    BY <1>3, <2>1, <2>2, <2>3, CallFiles
<1>4. QED
  BY <1>2, <1>3, OtherFiles DEF Next, AllEnded

\* A call that takes no step, or one that ends it, goes on holding what it holds.
LEMMA HoldingKept ==
  ASSUME StayInv, [Next]_vars, NEW u \in Calls,
         \/ pc'[u] = pc[u] /\ want'[u] = want[u] /\ temp'[u] = temp[u] /\ entry'[u] = entry[u]
         \/ pc'[u] \in Idle \cup {"start", "resolve"}
  PROVE  Holding(u)'
<1>1. CASE pc'[u] \in Idle \cup {"start", "resolve"}
  BY <1>1 DEF Holding, Idle, Ended, Making, Made
<1>2. CASE pc'[u] = pc[u] /\ want'[u] = want[u] /\ temp'[u] = temp[u] /\ entry'[u] = entry[u]
  <2>1. Holding(u) /\ entry[u] \in Entry \cup {None}
    BY DEF StayInv, Typed
  <2>2. pc'[u] \in Made => Readable(entry[u])'
    <3>1. SUFFICES ASSUME pc[u] \in Made PROVE Readable(entry[u])'
      BY <1>2
    <3>2. Readable(entry[u]) /\ entry[u] \in Entry
      BY <2>1, <3>1 DEF Holding, Readable
    <3>3. QED
      BY <1>2, <3>2, ReadableStays DEF Readable, ContentOf
  <2>3. pc'[u] \in {"discard"} \cup Making \cup Made => blobs'[want'[u]] # None
    BY <1>2, <2>1, BlobsStay DEF Holding
  <2>4. QED
    BY <1>2, <2>1, <2>2, <2>3 DEF Holding
<1>3. QED
  BY <1>1, <1>2

\* The call that steps holds what its next step needs.
LEMMA HoldingStep ==
  ASSUME StayInv, [Next]_vars, NEW c \in Calls, Begin(c) \/ TakeUp(c) \/ CallStep(c)
  PROVE  Holding(c)'
<1> USE DEF StayInv, Typed, Making, Made
<1>0. Holding(c) /\ Title[c] \in Titles
  BY TitleOf
<1>1. CASE pc'[c] \in Idle \cup {"start", "resolve"}
  BY <1>1, HoldingKept
<1>2. CASE Begin(c) \/ TakeUp(c) \/ Check(c) \/ FetchFails(c) \/ Mismatch(c) \/ Replace(c)
             \/ PlaceFails(c) \/ Swap(c)
  <2>1. pc'[c] \in Idle \cup {"start", "resolve"}
    BY <1>2 DEF Begin, TakeUp, Check, FetchFails, Abandon, Mismatch, Replace, PlaceFails, Swap, Idle, Ended
  <2>2. QED
    BY <1>1, <2>1
<1>3. CASE Resolve(c)
  <2>1. Source(c)[Title[c]] # None => Source(c)[Title[c]] \in Digests
    BY TitleOf, NamedDigests DEF Source, Named
  <2>2. pc'[c] = "failed" \/ (pc'[c] = "fetch" /\ want'[c] \in Digests)
    BY <1>3, <2>1 DEF Resolve
  <2>3. QED
    BY <1>1, <2>2 DEF Holding, Idle, Ended
<1>4. CASE Fetched(c)
  <2>1. \A x \in {want[c], Wrong} : x # None
    <3>1. want[c] \in Digests /\ None \notin Digests
      BY <1>0, <1>4, CacheAssumption DEF Fetched, Holding
    <3>2. QED
      BY <3>1, CacheAssumption
  <2>2. temp'[c] # None /\ want'[c] \in Digests
    BY <1>0, <1>4, <2>1 DEF Fetched, Holding
  <2>3. pc'[c] = IF c \in Local THEN "replace" ELSE "place"
    BY <1>4 DEF Fetched
  <2>4. QED
    BY <2>2, <2>3 DEF Holding
<1>5. CASE CheckBlob(c)
  BY <1>0, <1>5 DEF CheckBlob, Holding
<1>6. CASE Rename(c) \/ Discard(c)
  BY <1>0, <1>6 DEF Rename, Discard, Holding
<1>7. CASE SymLink(c)
  BY <1>0, <1>7, CacheAssumption DEF SymLink, Holding, Readable, ContentOf, Entry, Content, Digests
<1>8. CASE HardLink(c)
  BY <1>0, <1>8, CacheAssumption DEF HardLink, Holding, Readable, ContentOf, Entry, Content
<1>9. CASE CopyStarts(c)
  BY <1>0, <1>9 DEF CopyStarts, Holding
<1>10. CASE CopyEnds(c)
  BY <1>0, <1>10, CacheAssumption DEF CopyEnds, Holding, Readable, ContentOf, Entry, Content
<1>11. CASE FallBack(c)
  BY <1>0, <1>11 DEF FallBack, Holding
<1>12. QED
  BY <1>2, <1>3, <1>4, <1>5, <1>6, <1>7, <1>8, <1>9, <1>10, <1>11 DEF CallStep

\* A step of one call leaves the others where they are.
LEMMA CallAlone ==
  ASSUME StayInv, NEW c \in Calls, Begin(c) \/ TakeUp(c) \/ CallStep(c), NEW u \in Calls \ {c}
  PROVE  pc'[u] = pc[u] /\ want'[u] = want[u] /\ temp'[u] = temp[u] /\ entry'[u] = entry[u]
BY DEF StayInv, Typed, Begin, TakeUp, CallStep, Check, Resolve, FetchFails, Abandon, Mismatch, Fetched,
   CheckBlob, Discard, PlaceFails, SymLink, HardLink, CopyStarts, CopyEnds, FallBack, Rename,
   Replace, Swap

\* The steps of the pool and of the surroundings end calls, or leave them.
LEMMA OthersAlone ==
  ASSUME StayInv, SnapshotStep \/ TagMoves \/ (\E p : Crash(p)) \/ UNCHANGED vars, NEW u \in Calls
  PROVE  /\ want'[u] = want[u] /\ temp'[u] = temp[u] /\ entry'[u] = entry[u]
         /\ pc'[u] = pc[u] \/ pc'[u] \in {"queued", "cancelled", "dead"}
BY DEF StayInv, Typed, SnapshotStep, SnapshotStarts, SnapshotDone, SnapshotFails, SnapshotRaises,
   TagMoves, Crash, vars

LEMMA StayNext ==
  ASSUME StayInv, [Next]_vars
  PROVE  StayInv'
<1>1. Typed'
  BY TypedNext DEF StayInv
<1>2. ASSUME NEW u \in Calls PROVE Holding(u)'
  <2>1. ASSUME NEW c \in Calls, Begin(c) \/ TakeUp(c) \/ CallStep(c) PROVE Holding(u)'
    <3>1. CASE u = c
      BY <2>1, <3>1, HoldingStep
    <3>2. CASE u # c
      BY <2>1, <3>2, CallAlone, HoldingKept
    <3>3. QED
      BY <3>1, <3>2
  <2>2. CASE SnapshotStep \/ TagMoves \/ (\E p : Crash(p)) \/ UNCHANGED vars
    BY <2>2, OthersAlone, HoldingKept DEF Idle, Ended
  <2>3. QED
    BY <2>1, <2>2 DEF Next, AllEnded
<1>3. ASSUME NEW u \in Calls, pc'[u] \in {"done", "hit"} PROVE Exists(u)'
  <2>0. Title[u] \in Titles
    BY TitleOf
  <2>1. Exists(u) <=> IF u \in Local THEN local[Title[u]] # None ELSE Readable(dest[Title[u]])
    BY DEF Exists, Readable
  <2>2. Exists(u)' <=> IF u \in Local THEN local'[Title[u]] # None ELSE Readable(dest[Title[u]])'
    BY DEF Exists, Readable
  <2>3. Exists(u) => Exists(u)'
    BY <2>0, <2>1, <2>2, EntriesStay
  <2>4. CASE pc[u] \in {"done", "hit"}
    BY <2>3, <2>4 DEF StayInv, ReturnedPathsStay
  <2>5. CASE pc[u] \notin {"done", "hit"}
    <3>1. Check(u) \/ Swap(u) \/ Replace(u)
      <4>1. ASSUME NEW c \in Calls, Begin(c) \/ TakeUp(c) \/ CallStep(c)
            PROVE  Check(u) \/ Swap(u) \/ Replace(u)
        <5>1. u = c
          BY <1>3, <2>5, <4>1, CallAlone
        <5>2. QED
          BY <1>3, <4>1, <5>1 DEF StayInv, Typed, Begin, TakeUp, CallStep, Resolve, FetchFails, Abandon,
             Mismatch, Fetched, CheckBlob, Discard, PlaceFails, SymLink, HardLink, CopyStarts,
             CopyEnds, FallBack, Rename
      <4>2. QED
        BY <1>3, <2>5, <4>1, OthersAlone DEF Next, AllEnded
    <3>2. CASE Check(u)
      <4>1. Exists(u)
        BY <1>3, <3>2 DEF Check, StayInv, Typed
      <4>2. QED
        BY <2>3, <4>1
    <3>3. CASE Swap(u)
      <4>1. u \notin Local /\ Readable(entry[u])
        BY <3>3 DEF Swap, StayInv, Holding
      <4>2. dest'[Title[u]] = entry[u] /\ blobs' = blobs
        BY <2>0, <3>3 DEF Swap, StayInv, Typed
      <4>3. QED
        BY <2>2, <4>1, <4>2 DEF Readable, ContentOf
    <3>4. CASE Replace(u)
      <4>1. u \in Local /\ temp[u] # None
        BY <3>4 DEF Replace, StayInv, Holding
      <4>2. local'[Title[u]] = temp[u]
        BY <2>0, <3>4 DEF Replace, StayInv, Typed
      <4>3. QED
        BY <2>2, <4>1, <4>2
    <3>5. QED
      BY <3>1, <3>2, <3>3, <3>4
  <2>6. QED
    BY <2>4, <2>5
<1>4. QED
  BY <1>1, <1>2, <1>3 DEF StayInv, ReturnedPathsStay

(***************************************************************************)
(* A path that a call has returned stays readable, whatever the registry   *)
(* sends and whoever replaces, falls back, fails or dies (the race that    *)
(* _create_symlink describes).                                             *)
(***************************************************************************)
THEOREM PathsStay == Spec => []ReturnedPathsStay
<1>1. ASSUME Init PROVE StayInv
  <2>1. Typed
    BY <1>1 DEF Init, Typed, Places, Content
  <2>2. ReturnedPathsStay /\ \A c \in Calls : Holding(c)
    BY <1>1 DEF Init, ReturnedPathsStay, Holding, Making, Made
  <2>3. QED
    BY <2>1, <2>2 DEF StayInv
<1>2. StayInv /\ [Next]_vars => StayInv'
  BY StayNext
<1>3. StayInv => ReturnedPathsStay
  BY DEF StayInv
<1>4. QED
  BY <1>1, <1>2, <1>3, PTL DEF Spec

-----------------------------------------------------------------------------
(* A snapshot is of one manifest.                                          *)

\* A step that leaves the entries' contents and the manifest, past the start.
LEMMA EntriesKept ==
  ASSUME SnapshotInv, UNCHANGED <<blobs, dest, shared>>,
         pool \notin {"off", "fetch"} => pool' \notin {"off", "fetch"}
  PROVE  (\A t \in Titles : OfManifest(t))'
BY DEF SnapshotInv, OfManifest, ContentOf

\* A step of one call that writes neither a blob nor an entry.
LEMMA CallSharing ==
  ASSUME ToCache, SnapshotInv, NEW c \in Calls,
         Begin(c) \/ TakeUp(c) \/ Check(c) \/ Resolve(c) \/ FetchFails(c) \/ Mismatch(c)
           \/ Fetched(c) \/ CheckBlob(c) \/ Discard(c) \/ Replace(c) \/ PlaceFails(c)
           \/ SymLink(c) \/ HardLink(c) \/ CopyStarts(c) \/ CopyEnds(c) \/ FallBack(c)
  PROVE  (\A u \in Snapshot : Sharing(u))' /\ (\A t \in Titles : OfManifest(t))'
<1> USE DEF SnapshotInv, WholeInv, TypeOK
<1>1. UNCHANGED <<blobs, dest, shared, pool>>
  BY DEF Begin, TakeUp, Check, Resolve, FetchFails, Abandon, Mismatch, Fetched, CheckBlob,
     Discard, Replace, PlaceFails, SymLink, HardLink, CopyStarts, CopyEnds, FallBack
<1>2. (\A t \in Titles : OfManifest(t))'
  BY <1>1, EntriesKept
<1>3. \A u \in Snapshot : u \in Calls /\ u \notin Local
  BY CacheAssumption DEF ToCache
<1>4. ASSUME NEW u \in Snapshot PROVE Sharing(u)'
  <2> USE DEF Sharing, Making, Made
  <2>1. CASE Begin(c) \/ TakeUp(c)
    BY <1>1, <1>3, <2>1 DEF Begin, TakeUp
  <2>2. CASE Check(c)
    BY <1>1, <1>3, <2>2 DEF Check, Exists
  <2>3. CASE Resolve(c)
    BY <1>1, <1>3, <2>3 DEF Resolve, Source
  <2>4. CASE FetchFails(c) \/ Mismatch(c)
    BY <1>1, <1>3, <2>4 DEF FetchFails, Abandon, Mismatch
  <2>5. CASE Fetched(c) \/ CheckBlob(c) \/ Discard(c)
    BY <1>1, <1>3, <2>5 DEF Fetched, CheckBlob, Discard
  <2>6. CASE Replace(c)
    BY <1>1, <1>3, <2>6 DEF Replace
  <2>7. CASE PlaceFails(c) \/ FallBack(c)
    BY <1>1, <1>3, <2>7 DEF PlaceFails, FallBack
  <2>8. CASE SymLink(c) \/ HardLink(c) \/ CopyStarts(c) \/ CopyEnds(c)
    BY <1>1, <1>3, <2>8 DEF SymLink, HardLink, CopyStarts, CopyEnds
  <2>9. QED
    BY <2>1, <2>2, <2>3, <2>4, <2>5, <2>6, <2>7, <2>8
<1>5. QED
  BY <1>2, <1>4

\* A blob that an entry links to is replaced by the same content.
LEMMA RenameSharing ==
  ASSUME SnapshotInv, NEW c \in Calls, Rename(c)
  PROVE  (\A u \in Snapshot : Sharing(u))' /\ (\A t \in Titles : OfManifest(t))'
<1> USE DEF SnapshotInv, WholeInv, TypeOK, Rename
<1>1. want[c] \in Digests /\ temp[c] = want[c]
  BY TitleOf, NamedDigests DEF Fetching, Making, Made
<1>2. \A d \in Digests : blobs[d] = d => blobs'[d] = d
  BY <1>1 DEF BlobsWhole
<1>3. ASSUME NEW t \in Titles, dest[t] # None PROVE ContentOf(dest[t])' = ContentOf(dest[t])
  BY <1>2, <1>3, NamedDigests DEF EntriesWhole, Whole, ContentOf
<1>4. (\A t \in Titles : OfManifest(t))'
  BY <1>3 DEF OfManifest
<1>5. (\A u \in Snapshot : Sharing(u))'
  BY CacheAssumption DEF Sharing, Making, Made
<1>6. QED
  BY <1>4, <1>5

\* The entry has the content that the snapshot's manifest names.
LEMMA SwapSharing ==
  ASSUME SnapshotInv, NEW c \in Calls, Swap(c)
  PROVE  (\A u \in Snapshot : Sharing(u))' /\ (\A t \in Titles : OfManifest(t))'
<1> USE DEF SnapshotInv, WholeInv, TypeOK, Swap
<1>1. Title[c] \in Titles /\ want[c] \in Digests /\ want[c] # None /\ blobs[want[c]] = want[c]
  BY TitleOf, NamedDigests DEF Fetching, Made
<1>2. dest' = [dest EXCEPT ![Title[c]] = entry[c]] /\ UNCHANGED blobs
  OBVIOUS
<1>3. entry[c] # None /\ EntryOf(entry[c], want[c])
  BY DEF Fetching
<1>4. (IF entry[c].link = None THEN entry[c].content ELSE blobs[entry[c].link]) = want[c]
  BY <1>1, <1>3 DEF EntryOf
<1>5. (\A t \in Titles : OfManifest(t))'
  <2> SUFFICES ASSUME NEW t \in Titles PROVE OfManifest(t)'
    OBVIOUS
  <2>1. CASE t = Title[c]
    <3>1. dest'[t] = entry[c]
      BY <1>1, <1>2, <2>1
    <3>2. Only(t) => c \in Snapshot
      BY <2>1 DEF Only
    <3>3. c \in Snapshot => want[c] = shared[t] /\ pool \notin {"off", "fetch"}
      BY <2>1 DEF Sharing, Made
    <3>4. ContentOf(dest[t])' = want[c]
      BY <1>2, <1>4, <3>1 DEF ContentOf
    <3>5. QED
      BY <3>2, <3>3, <3>4 DEF OfManifest, Only
  <2>2. CASE t # Title[c]
    BY <1>1, <1>2, <2>2 DEF OfManifest, ContentOf, Only
  <2>3. QED
    BY <2>1, <2>2
<1>6. (\A u \in Snapshot : Sharing(u))'
  <2> SUFFICES ASSUME NEW u \in Snapshot PROVE Sharing(u)'
    OBVIOUS
  <2>1. u \in Calls /\ Title[u] \in Titles
    BY CacheAssumption, TitleOf
  <2>2. dest[Title[u]] # None \/ u = c => dest'[Title[u]] # None
    BY <1>1, <1>2, <1>3, <2>1
  <2>3. QED
    BY <2>1, <2>2 DEF Sharing, Making, Made
<1>7. QED
  BY <1>5, <1>6

\* The manifest is fixed before any file is; it is kept until the end.
LEMMA PoolSharing ==
  ASSUME SnapshotInv, SnapshotStep
  PROVE  (\A u \in Snapshot : Sharing(u))' /\ (\A t \in Titles : OfManifest(t))'
<1> USE CacheAssumption DEF SnapshotInv, WholeInv, TypeOK
<1>1. CASE SnapshotStarts
  <2>1. (\A t \in Titles : OfManifest(t))'
    BY <1>1 DEF SnapshotStarts, OfManifest, Only
  <2>2. (\A u \in Snapshot : Sharing(u))'
    BY <1>1 DEF SnapshotStarts, Sharing, Making, Made
  <2>3. QED
    BY <2>1, <2>2
<1>2. CASE SnapshotDone
  <2>1. (\A u \in Snapshot : Sharing(u))'
    BY <1>2 DEF SnapshotDone, Submitted, Sharing, Making, Made
  <2>2. QED
    BY <1>2, <2>1, EntriesKept DEF SnapshotDone
<1>3. CASE SnapshotFails
  <2>1. (\A u \in Snapshot : Sharing(u))'
    BY <1>3 DEF SnapshotFails, Sharing, Making, Made
  <2>2. QED
    BY <1>3, <2>1, EntriesKept DEF SnapshotFails
<1>4. CASE SnapshotRaises
  <2>1. (\A u \in Snapshot : Sharing(u))'
    BY <1>4 DEF SnapshotRaises, Sharing
  <2>2. QED
    BY <1>4, <2>1, EntriesKept DEF SnapshotRaises
<1>5. QED
  BY <1>1, <1>2, <1>3, <1>4 DEF SnapshotStep

\* The snapshot dies with its process.
LEMMA CrashSharing ==
  ASSUME SnapshotInv, NEW p, Crash(p)
  PROVE  (\A u \in Snapshot : Sharing(u))' /\ (\A t \in Titles : OfManifest(t))'
<1>1. (\A t \in Titles : OfManifest(t))'
  BY EntriesKept DEF Crash
<1>2. (\A u \in Snapshot : Sharing(u))'
  BY CacheAssumption DEF Crash, SnapshotInv, WholeInv, TypeOK, Sharing, Ended, Making, Made
<1>3. QED
  BY <1>1, <1>2

LEMMA SnapshotNext ==
  ASSUME Trusted, ToCache, SnapshotInv, [Next]_vars
  PROVE  SnapshotInv'
<1>1. WholeInv'
  BY WholeNext DEF SnapshotInv
<1>2. ASSUME NEW c \in Calls, Begin(c) \/ TakeUp(c) \/ CallStep(c)
      PROVE  (\A u \in Snapshot : Sharing(u))' /\ (\A t \in Titles : OfManifest(t))'
  BY <1>2, CallSharing, RenameSharing, SwapSharing DEF CallStep
<1>3. CASE TagMoves \/ UNCHANGED vars
  <2>1. UNCHANGED <<blobs, dest, shared, pool, pc, want>>
    BY <1>3 DEF TagMoves, vars
  <2>2. (\A u \in Snapshot : Sharing(u))'
    BY <2>1 DEF SnapshotInv, Sharing
  <2>3. QED
    BY <1>1, <2>1, <2>2, EntriesKept DEF SnapshotInv
<1>4. QED
  BY <1>1, <1>2, <1>3, PoolSharing, CrashSharing DEF Next, AllEnded, SnapshotInv

(***************************************************************************)
(* A snapshot into the cache that returns holds the files of one manifest, *)
(* those no other call writes, for any calls, tag moves and crashes, on    *)
(* the hypothesis of CacheIsWhole (snapshot_download).                     *)
(***************************************************************************)
THEOREM SnapshotIsConsistent ==
  ASSUME Trusted, ToCache
  PROVE  Spec => []SnapshotConsistent
<1>1. Init => SnapshotInv
  BY WholeInit, CacheAssumption DEF Init, SnapshotInv, Sharing, OfManifest, Making, Made
<1>2. SnapshotInv /\ [Next]_vars => SnapshotInv'
  BY SnapshotNext
<1>3. SnapshotInv => SnapshotConsistent
  BY TitleOf, CacheAssumption DEF SnapshotInv, Sharing, OfManifest, Only, SnapshotConsistent
<1>4. QED
  BY <1>1, <1>2, <1>3, PTL DEF Spec
=============================================================================

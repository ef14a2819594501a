--------------------------- MODULE ManifestCommit ---------------------------
(***************************************************************************)
(* The commit protocol of hippius_hub/file_upload.py: several uploaders    *)
(* (upload_file and upload_folder calls, in one process or in many) write  *)
(* to one revision, an OCI tag of the registry.                            *)
(*                                                                         *)
(* An uploader reads the tag's manifest, uploads the blobs of its files    *)
(* (reusing the packs of the manifest it read), confirms the empty config  *)
(* blob, merges its layers into the manifest it read and PUTs the result   *)
(* under If-Match.  The PUT is retried on transient answers; a blob the    *)
(* registry says it does not have makes the uploader start over, without   *)
(* reusing that blob, a bounded number of times; a 401 makes it start over *)
(* once with a fresh token.                                                *)
(*                                                                         *)
(* A manifest is a digest and, per title, the group of layers of that file *)
(* (module Layers relates the layer list of the code to this map).  Packs  *)
(* and files are content addressed: a blob's name is its content.  The new *)
(* chunks of one file share one pack; module Packing has the pack sizes.   *)
(***************************************************************************)
EXTENDS Naturals, FiniteSets

CONSTANTS
  Writers,        \* concurrent uploads of the revision
  Titles,         \* file names within the repository
  Contents,       \* file contents
  Chunks,         \* chunk digests
  Procs,          \* operating-system processes the uploads run in
  ProcOf,         \* [Writers -> Procs]
  Kind,           \* [Writers -> {"file", "folder"}]: the API call
  Files,          \* [Writers -> [Titles -> Contents or NoFile]]
  Deletes,        \* [Writers -> SUBSET Titles]: titles delete_patterns match
  ChunksOf,       \* the CDC chunks of a content; {} below the threshold
  InitFiles,      \* the files of the manifest the tag holds at first
  TagExists,      \* does the tag exist at first?
  DigestHeader,   \* does the registry send Docker-Content-Digest?
  Validates,      \* does the registry always check the blobs a manifest names?
  PutRetries,     \* MANIFEST_PUT_MAX_RETRIES
  HealRetries,    \* blob_reupload_max_retries()
  MaxLosses,      \* bound: blobs the registry may lose
  Expiring,       \* bound: uploads whose token may expire
  NoFile,         \* no file under this title
  NoManifest      \* the tag does not exist (404)

-----------------------------------------------------------------------------
(* Data: blobs, layer groups, manifests.                                   *)

NoDigest == 0

Pack(chunks) == <<"pack", chunks>>
Packs == {Pack(S) : S \in SUBSET Chunks}
ConfigBlob == <<"config">>

\* One file's layers: its content, the pack of each chunk (as the pointer blob
\* records it) and the pack layers listed after the pointer.
Groups == [content : Contents,
           where : UNION {[S -> Packs] : S \in SUBSET Chunks},
           packs : SUBSET Packs]
FileMaps == [Titles -> Groups \cup {NoFile}]
Manifests == [digest : Nat \ {NoDigest}, files : FileMaps]

\* The titled blob of a group: the plain content, or the pointer document.
TitledBlob(g) == <<"file", g.content, g.where>>
PacksIn(where) == {where[c] : c \in DOMAIN where}

ASSUME JobAssumption ==
  /\ ProcOf \in [Writers -> Procs]
  /\ Kind \in [Writers -> {"file", "folder"}]
  /\ Files \in [Writers -> [Titles -> Contents \cup {NoFile}]]
  /\ Deletes \in [Writers -> SUBSET Titles]
  /\ ChunksOf \in [Contents -> SUBSET Chunks]
  /\ InitFiles \in FileMaps

ASSUME SentinelAssumption ==
  NoFile \notin Contents /\ NoFile \notin Groups /\ NoManifest \notin Manifests

ASSUME FlagAssumption ==
  TagExists \in BOOLEAN /\ DigestHeader \in BOOLEAN /\ Validates \in BOOLEAN

ASSUME BoundAssumption ==
  PutRetries \in Nat /\ HealRetries \in Nat /\ MaxLosses \in Nat

VARIABLES
  tag,        \* the manifest the revision names, or NoManifest
  visible,    \* blobs the registry serves and accepts in a manifest
  lagging,    \* blobs accepted (2xx) whose commit is not visible yet
  losses,     \* how many blobs were lost so far
  late,       \* manifest PUTs whose client gave up on the answer
  cached,     \* processes whose _config_blob_present has this repository
  stray,      \* config threads whose upload gave up before joining them
  clock,      \* digests handed out: every assembled manifest is time-stamped
  pc,         \* where each upload is
  prior,      \* the manifest its dedup index is built from
  base,       \* the manifest its layers are merged into
  todo,       \* titles still to be uploaded
  new,        \* the layer groups built so far (new_layers)
  sent,       \* packs put in this run, with the file they were put for
  cfg,        \* progress of _ensure_config_blob_uploaded
  excl,       \* exclude_packs
  man,        \* the assembled manifest
  ifm,        \* its If-Match digest, NoDigest for none
  att,        \* PUTs of this manifest that failed
  heal,       \* re-runs after a lost blob
  refreshed   \* has this run already refreshed its token?

registry == <<tag, visible, lagging, losses, late>>
procVars == <<cached, stray>>
runVars == <<prior, base, todo, new, sent, cfg>>
putVars == <<man, ifm, att>>
retryVars == <<excl, heal, refreshed>>
vars == <<registry, procVars, clock, pc, runVars, putVars, retryVars>>

Active == {"fetch", "upload", "finalize", "put"}
Ended == {"done", "conflict", "failed"}

-----------------------------------------------------------------------------

Present(files) == {t \in Titles : files[t] # NoFile}
Chunked(files) == {t \in Present(files) : DOMAIN files[t].where # {}}

\* Everything a manifest names: the config blob, the titled blobs, the packs.
References(files) ==
  {ConfigBlob} \cup UNION {{TitledBlob(files[t])} \cup files[t].packs : t \in Present(files)}

OwnTitles(w) == {t \in Titles : Files[w][t] # NoFile}
EmptyFiles == [t \in Titles |-> NoFile]
FilesOf(m) == IF m = NoManifest THEN EmptyFiles ELSE m.files

\* Does some file of the upload take the chunked-v2 path?
Large(w) == \E t \in OwnTitles(w) : ChunksOf[Files[w][t]] # {}

(***************************************************************************)
(* _merge_layers at file-group granularity: a group whose title is         *)
(* replaced or deleted goes, every other group stays whole.                *)
(***************************************************************************)
MergeLayers(existing, added, deleted) ==
  [t \in Titles |->
     IF added[t] # NoFile THEN added[t]
     ELSE IF t \in deleted THEN NoFile ELSE existing[t]]

\* Mutant: the digest read is never sent back as If-Match.
PrevDigestDropped(m) == NoDigest

\* _prev_digest_or_warn: no If-Match for a tag that did not exist, nor when
\* the registry did not say which digest it served.
PrevDigest(m) ==
  IF m = NoManifest \/ ~DigestHeader THEN NoDigest ELSE m.digest

(***************************************************************************)
(* _build_dedup_index and its use in feed(): the packs of the manifest     *)
(* read that already hold a chunk, the lost ones left out.                 *)
(***************************************************************************)
Holders(m, lost, c) ==
  {FilesOf(m)[t].where[c] :
     t \in {u \in Chunked(FilesOf(m)) : c \in DOMAIN FilesOf(m)[u].where}} \ lost

\* pack_sizes: the packs a new pointer may reference without a KeyError.
KnownPacks(m, lost) ==
  UNION {FilesOf(m)[t].packs : t \in Present(FilesOf(m))} \ lost

NewChunks(m, lost, chunks) == {c \in chunks : Holders(m, lost, c) = {}}

\* The ways the chunks of a file can be located: a reused chunk in a pack
\* that holds it, the new ones together in a fresh pack.
Locations(m, lost, chunks) ==
  LET fresh == Pack(NewChunks(m, lost, chunks))
      all == {fresh} \cup UNION {Holders(m, lost, c) : c \in chunks}
  IN {loc \in [chunks -> all] : \A c \in chunks :
        IF c \in NewChunks(m, lost, chunks) THEN loc[c] = fresh
        ELSE loc[c] \in Holders(m, lost, c)}

-----------------------------------------------------------------------------
(* The registry (external): a blob PUT answered 2xx is accepted, and       *)
(* visible to HEAD, GET and manifest validation only after a while.        *)

Accept(blobs) ==
  lagging' = lagging \cup (blobs \ visible) /\ UNCHANGED <<visible, losses>>

Missing(m) == References(m.files) \ visible

Accepts(m) == Missing(m) = {} \/ ~Validates

IfMatchHolds(d) == d = NoDigest \/ (tag # NoManifest /\ tag.digest = d)

PointersServed(m) ==
  \A t \in Chunked(FilesOf(m)) : TitledBlob(FilesOf(m)[t]) \in visible

Settle(b) ==
  /\ b \in lagging
  /\ lagging' = lagging \ {b}
  /\ visible' = visible \cup {b}
  /\ UNCHANGED <<tag, losses, late, procVars, clock, pc, runVars, putVars, retryVars>>

\* A garbage-collected blob, or a 2xx commit that never landed.
Lose(b) ==
  /\ b \in visible \cup lagging
  /\ losses < MaxLosses
  /\ visible' = visible \ {b}
  /\ lagging' = lagging \ {b}
  /\ losses' = losses + 1
  /\ UNCHANGED <<tag, late, procVars, clock, pc, runVars, putVars, retryVars>>

\* A PUT the client no longer waits for reaches the registry after all.
Deliver(r) ==
  /\ r \in late
  /\ late' = late \ {r}
  /\ tag' = IF IfMatchHolds(r.ifm) /\ Accepts(r.man) THEN r.man ELSE tag
  /\ UNCHANGED <<visible, lagging, losses, procVars, clock, pc, runVars, putVars, retryVars>>

-----------------------------------------------------------------------------

Init ==
  /\ tag = IF TagExists THEN [digest |-> 1, files |-> InitFiles] ELSE NoManifest
  /\ visible = IF TagExists THEN References(InitFiles) ELSE {}
  /\ lagging = {}
  /\ losses = 0
  /\ late = {}
  /\ cached = {}
  /\ stray = {}
  /\ clock = 1
  /\ pc = [w \in Writers |-> "fetch"]
  /\ prior = [w \in Writers |-> NoManifest]
  /\ base = [w \in Writers |-> NoManifest]
  /\ todo = [w \in Writers |-> {}]
  /\ new = [w \in Writers |-> EmptyFiles]
  /\ sent = [w \in Writers |-> {}]
  /\ cfg = [w \in Writers |-> "idle"]
  /\ excl = [w \in Writers |-> {}]
  /\ man = [w \in Writers |-> NoManifest]
  /\ ifm = [w \in Writers |-> NoDigest]
  /\ att = [w \in Writers |-> 0]
  /\ heal = [w \in Writers |-> 0]
  /\ refreshed = [w \in Writers |-> FALSE]

\* The head of _op: fetch_manifest and the dedup index.  upload_file keeps the
\* manifest for the merge and starts the config thread; upload_folder reads
\* only when it has a large file.  A pointer that is not served ends the upload
\* (Fail): _fetch_blob raises.
Fetch(w) ==
  /\ pc[w] = "fetch"
  /\ Large(w) => PointersServed(tag)
  /\ pc' = [pc EXCEPT ![w] = "upload"]
  /\ prior' = [prior EXCEPT ![w] = IF Large(w) THEN tag ELSE NoManifest]
  /\ base' = [base EXCEPT ![w] = IF Kind[w] = "file" THEN tag ELSE NoManifest]
  /\ todo' = [todo EXCEPT ![w] = OwnTitles(w)]
  /\ cfg' = [cfg EXCEPT ![w] = IF Kind[w] = "file" THEN "checking" ELSE "idle"]
  /\ UNCHANGED <<registry, procVars, clock, new, sent, putVars, retryVars>>

\* A run that returns or raises: its locals are gone, and a config thread it
\* has not joined goes on by itself.
Unwind(w) ==
  /\ stray' = IF Kind[w] = "file" /\ cfg[w] \in {"checking", "confirmed"}
              THEN stray \cup {[proc |-> ProcOf[w], at |-> cfg[w]]} ELSE stray
  /\ prior' = [prior EXCEPT ![w] = NoManifest]
  /\ base' = [base EXCEPT ![w] = NoManifest]
  /\ todo' = [todo EXCEPT ![w] = {}]
  /\ new' = [new EXCEPT ![w] = EmptyFiles]
  /\ sent' = [sent EXCEPT ![w] = {}]
  /\ cfg' = [cfg EXCEPT ![w] = "idle"]
  /\ man' = [man EXCEPT ![w] = NoManifest]
  /\ ifm' = [ifm EXCEPT ![w] = NoDigest]
  /\ att' = [att EXCEPT ![w] = 0]

\* The call itself returns or raises.
End(w, how) ==
  /\ pc' = [pc EXCEPT ![w] = how]
  /\ excl' = [excl EXCEPT ![w] = {}]
  /\ heal' = [heal EXCEPT ![w] = 0]
  /\ refreshed' = [refreshed EXCEPT ![w] = FALSE]
  /\ Unwind(w)

\* Mutant: the digests the registry named are collected and not passed on.
ExcludedForgotten(w) == {}

\* _op(exclude_packs): the digests the failed runs reported as unknown.
Excluded(w) == excl[w]

FreshOf(w, t) == NewChunks(prior[w], Excluded(w), ChunksOf[Files[w][t]])

\* pack_upload_native for the pack of a file's new chunks.
UploadPack(w, t) ==
  /\ pc[w] = "upload" /\ t \in todo[w]
  /\ FreshOf(w, t) # {}
  /\ <<t, Pack(FreshOf(w, t))>> \notin sent[w]
  /\ Accept({Pack(FreshOf(w, t))})
  /\ sent' = [sent EXCEPT ![w] = @ \cup {<<t, Pack(FreshOf(w, t))>>}]
  /\ UNCHANGED <<tag, late, procVars, clock, pc, prior, base, todo, new, cfg, putVars, retryVars>>

\* Mutant: only the new pack is listed, not the reused ones.
FileLayersNewOnly(w, t) ==
  {[content |-> Files[w][t], where |-> loc, packs |-> PacksIn(loc) \cap {Pack(FreshOf(w, t))}] :
     loc \in Locations(prior[w], Excluded(w), ChunksOf[Files[w][t]])}

\* The layers of a file: every chunk where the plan put it, every pack it uses.
FileLayers(w, t) ==
  {[content |-> Files[w][t], where |-> loc, packs |-> PacksIn(loc)] :
     loc \in Locations(prior[w], Excluded(w), ChunksOf[Files[w][t]])}

\* Mutant: the pointer is written without waiting for the packs.
UploadFileEarly(w, t) ==
  /\ pc[w] = "upload" /\ t \in todo[w]
  /\ \E g \in FileLayers(w, t) :
       /\ Accept({TitledBlob(g)})
       /\ new' = [new EXCEPT ![w][t] = g]
       /\ todo' = [todo EXCEPT ![w] = @ \ {t}]
       /\ UNCHANGED <<pc, stray, prior, base, sent, cfg, putVars, retryVars>>
  /\ UNCHANGED <<tag, late, cached, clock>>

\* The tail of _upload_file_layers: once its packs are in, the pointer blob (a
\* small file: the plain blob), and the file's layers.  A pack of unknown size
\* raises MalformedManifestError.
UploadFile(w, t) ==
  /\ pc[w] = "upload" /\ t \in todo[w]
  /\ FreshOf(w, t) # {} => <<t, Pack(FreshOf(w, t))>> \in sent[w]
  /\ \E g \in FileLayers(w, t) :
       /\ Accept({TitledBlob(g)})
       /\ IF g.packs \subseteq KnownPacks(prior[w], Excluded(w)) \cup {Pack(FreshOf(w, t))}
          THEN /\ new' = [new EXCEPT ![w][t] = g]
               /\ todo' = [todo EXCEPT ![w] = @ \ {t}]
               /\ UNCHANGED <<pc, stray, prior, base, sent, cfg, putVars, retryVars>>
          ELSE End(w, "failed")
  /\ UNCHANGED <<tag, late, cached, clock>>

\* The head of _finalize_upload_manifest: upload_folder reads the manifest again.
Finalize(w) ==
  /\ pc[w] = "upload" /\ Kind[w] = "folder" /\ todo[w] = {}
  /\ pc' = [pc EXCEPT ![w] = "finalize"]
  /\ base' = [base EXCEPT ![w] = tag]
  /\ cfg' = [cfg EXCEPT ![w] = "checking"]
  /\ UNCHANGED <<registry, procVars, clock, prior, todo, new, sent, putVars, retryVars>>

-----------------------------------------------------------------------------
(* _ensure_config_blob_uploaded: skipped when the process has confirmed    *)
(* the blob before; the confirmation is recorded in a step of its own,     *)
(* under the lock but after the requests.                                  *)

ConfigCached(w) ==
  /\ cfg[w] = "checking" /\ ProcOf[w] \in cached
  /\ cfg' = [cfg EXCEPT ![w] = "present"]
  /\ UNCHANGED <<registry, procVars, clock, pc, prior, base, todo, new, sent, putVars, retryVars>>

ConfigPut(w) ==
  /\ cfg[w] = "checking" /\ ProcOf[w] \notin cached
  /\ Accept({ConfigBlob})
  /\ cfg' = [cfg EXCEPT ![w] = "confirmed"]
  /\ UNCHANGED <<tag, late, procVars, clock, pc, prior, base, todo, new, sent, putVars, retryVars>>

ConfigRecord(w) ==
  /\ cfg[w] = "confirmed"
  /\ cached' = cached \cup {ProcOf[w]}
  /\ cfg' = [cfg EXCEPT ![w] = "present"]
  /\ UNCHANGED <<registry, stray, clock, pc, prior, base, todo, new, sent, putVars, retryVars>>

StrayPut(s) ==
  /\ s \in stray /\ s.at = "checking" /\ s.proc \notin cached
  /\ Accept({ConfigBlob})
  /\ stray' = (stray \ {s}) \cup {[s EXCEPT !.at = "confirmed"]}
  /\ UNCHANGED <<tag, late, cached, clock, pc, runVars, putVars, retryVars>>

StrayRecord(s) ==
  /\ s \in stray /\ s.at = "confirmed"
  /\ cached' = cached \cup {s.proc}
  /\ stray' = stray \ {s}
  /\ UNCHANGED <<registry, clock, pc, runVars, putVars, retryVars>>

-----------------------------------------------------------------------------
(* _assemble_manifest and _put_manifest.                                   *)

AssembleWith(w, guard) ==
  /\ pc[w] = IF Kind[w] = "file" THEN "upload" ELSE "finalize"
  /\ todo[w] = {}
  /\ clock' = clock + 1
  /\ man' = [man EXCEPT ![w] =
               [digest |-> clock + 1, files |-> MergeLayers(FilesOf(base[w]), new[w], Deletes[w])]]
  /\ ifm' = [ifm EXCEPT ![w] = guard]
  /\ att' = [att EXCEPT ![w] = 0]
  /\ pc' = [pc EXCEPT ![w] = "put"]
  /\ UNCHANGED <<registry, procVars, runVars, retryVars>>

\* Mutant: the digest is read when the PUT is made, after the merge.
AssembleFreshGuard(w) == cfg[w] = "present" /\ AssembleWith(w, PrevDigest(tag))

\* The merge, the join of the config thread and _assemble_manifest.
Assemble(w) == cfg[w] = "present" /\ AssembleWith(w, PrevDigest(base[w]))

PutOk(w) ==
  /\ pc[w] = "put" /\ IfMatchHolds(ifm[w]) /\ Accepts(man[w])
  /\ tag' = man[w]
  /\ End(w, "done")
  /\ UNCHANGED <<visible, lagging, losses, late, cached, clock>>

\* 412 -> ConcurrentManifestUpdateError.
PutConflict(w) ==
  /\ pc[w] = "put" /\ ~IfMatchHolds(ifm[w])
  /\ End(w, "conflict")
  /\ UNCHANGED <<registry, cached, clock>>

\* A transport error or a 408/429/5xx: the registry may or may not get to the
\* request (Deliver).
PutTimeout(w) ==
  /\ pc[w] = "put"
  /\ late' = late \cup {[by |-> w, ifm |-> ifm[w], man |-> man[w]]}
  /\ IF att[w] < PutRetries
     THEN att' = [att EXCEPT ![w] = @ + 1] /\ UNCHANGED <<pc, runVars, man, ifm, stray, retryVars>>
     ELSE End(w, "failed")
  /\ UNCHANGED <<tag, visible, lagging, losses, cached, clock>>

\* 400 MANIFEST_BLOB_UNKNOWN within the retry budget.
PutUnknown(w) ==
  /\ pc[w] = "put" /\ Missing(man[w]) # {} /\ att[w] < PutRetries
  /\ att' = [att EXCEPT ![w] = @ + 1]
  /\ UNCHANGED <<registry, procVars, clock, pc, runVars, man, ifm, retryVars>>

\* ... and beyond it: the config cache entry goes, and
\* _commit_with_blob_reupload runs the upload again without the packs the
\* registry named (a body may name none), or gives up.
PutLost(w) ==
  /\ pc[w] = "put" /\ Missing(man[w]) # {} /\ att[w] = PutRetries
  /\ cached' = cached \ {ProcOf[w]}
  /\ IF heal[w] < HealRetries
     THEN /\ \E named \in {Missing(man[w]), {}} : excl' = [excl EXCEPT ![w] = @ \cup named]
          /\ heal' = [heal EXCEPT ![w] = @ + 1]
          /\ refreshed' = [refreshed EXCEPT ![w] = FALSE]
          /\ pc' = [pc EXCEPT ![w] = "fetch"]
          /\ Unwind(w)
     ELSE End(w, "failed")
  /\ UNCHANGED <<registry, clock>>

\* Mutant: every 401 refreshes the token and runs _op again.
TokenExpiredAlways(w) ==
  /\ pc[w] \in Active /\ w \in Expiring
  /\ pc' = [pc EXCEPT ![w] = "fetch"]
  /\ Unwind(w)
  /\ UNCHANGED <<registry, cached, clock, retryVars>>

\* call_with_oci_token_refresh: a 401 from any request runs _op once more.
TokenExpired(w) ==
  /\ pc[w] \in Active /\ w \in Expiring
  /\ IF refreshed[w]
     THEN End(w, "failed")
     ELSE /\ pc' = [pc EXCEPT ![w] = "fetch"]
          /\ refreshed' = [refreshed EXCEPT ![w] = TRUE]
          /\ Unwind(w)
          /\ UNCHANGED <<excl, heal>>
  /\ UNCHANGED <<registry, cached, clock>>

\* Any other error of any request, a manifest over the size limit, or Ctrl-C.
Fail(w) ==
  /\ pc[w] \in Active
  /\ End(w, "failed")
  /\ UNCHANGED <<registry, cached, clock>>

-----------------------------------------------------------------------------

Step(w) ==
  \/ Fetch(w)
  \/ \E t \in Titles : UploadPack(w, t) \/ UploadFile(w, t)
  \/ Finalize(w)
  \/ ConfigCached(w) \/ ConfigPut(w) \/ ConfigRecord(w)
  \/ Assemble(w)
  \/ PutOk(w) \/ PutConflict(w) \/ PutTimeout(w) \/ PutUnknown(w) \/ PutLost(w)
  \/ TokenExpired(w) \/ Fail(w)

Environment ==
  \/ \E b \in lagging : Settle(b)
  \/ \E b \in visible \cup lagging : Lose(b)
  \/ \E r \in late : Deliver(r)
  \/ \E s \in stray : StrayPut(s) \/ StrayRecord(s)

AllEnded == (\A w \in Writers : pc[w] \in Ended) /\ UNCHANGED vars

Next == (\E w \in Writers : Step(w)) \/ Environment \/ AllEnded

Spec == Init /\ [][Next]_vars

\* Every call an upload makes returns (HTTP timeouts, bounded retries), so an
\* upload that can take a step takes one; the registry owes nothing.
FairSpec == Spec /\ \A w \in Writers : WF_vars(Step(w))

-----------------------------------------------------------------------------
(* Properties.                                                             *)

Stages == {"checking", "confirmed"}
Requests == [by : Writers, ifm : Nat, man : Manifests]

(***************************************************************************)
(* Every variable of the model stays within its type: the shapes of the    *)
(* manifests, layer groups and counters file_upload.py keeps.              *)
(***************************************************************************)
TypeOK ==
  /\ tag \in Manifests \cup {NoManifest}
  /\ late \subseteq Requests
  /\ losses \in 0..MaxLosses
  /\ cached \subseteq Procs
  /\ stray \subseteq [proc : Procs, at : Stages]
  /\ clock \in Nat \ {0}
  /\ pc \in [Writers -> Active \cup Ended]
  /\ prior \in [Writers -> Manifests \cup {NoManifest}]
  /\ base \in [Writers -> Manifests \cup {NoManifest}]
  /\ todo \in [Writers -> SUBSET Titles] /\ \A w \in Writers : todo[w] \subseteq OwnTitles(w)
  /\ new \in [Writers -> FileMaps]
  /\ sent \in [Writers -> SUBSET (Titles \X Packs)]
  /\ cfg \in [Writers -> Stages \cup {"idle", "present"}]
  /\ man \in [Writers -> Manifests \cup {NoManifest}]
  /\ \A w \in Writers : pc[w] = "put" => man[w] # NoManifest
  /\ ifm \in [Writers -> Nat]
  /\ att \in [Writers -> 0..PutRetries]
  /\ heal \in [Writers -> 0..HealRetries]
  /\ refreshed \in [Writers -> BOOLEAN]

ContentOf(files) ==
  [t \in Titles |-> IF files[t] = NoFile THEN NoFile ELSE files[t].content]

Outcome(p) == IF p = "done" THEN "ok" ELSE IF p \in Active THEN "pending" ELSE "error"

TagContent == ContentOf(FilesOf(tag))
Outcomes == [w \in Writers |-> Outcome(pc[w])]

Rev == INSTANCE Revision WITH content <- TagContent, outcome <- Outcomes

(***************************************************************************)
(* The commit protocol implements Revision: whatever is retried, timed     *)
(* out, delivered late or re-run, the tag only ever changes by one         *)
(* upload's whole edit of the files it had, an upload that returned made   *)
(* its edit in that very step, and none of its PUTs takes effect after.    *)
(***************************************************************************)
Atomic == Rev!Spec

\* A PUT of m under digest d fits the tag T: either T has moved past d, for
\* good, or it still names the manifest the edit was merged into.
Fits(T, now, w, d, m) ==
  /\ d # NoDigest /\ d <= T.digest
  /\ d < m.digest /\ m.digest <= now
  /\ d = T.digest => ContentOf(m.files) = Rev!Apply(w, ContentOf(T.files))

\* What an upload has built and read so far belongs together.
RunConsistent(w) ==
  /\ \A t \in Titles : new[w][t] # NoFile => new[w][t].content = Files[w][t]
  /\ pc[w] \in {"upload", "finalize"} =>
       \A t \in OwnTitles(w) : t \in todo[w] \/ new[w][t] # NoFile
  /\ base[w] # NoManifest =>
       base[w].digest <= tag.digest /\ (base[w].digest = tag.digest => base[w] = tag)
  /\ (pc[w] = "finalize" \/ (pc[w] = "upload" /\ Kind[w] = "file")) => base[w] # NoManifest
  /\ pc[w] = "put" => Fits(tag, clock, w, ifm[w], man[w])

(***************************************************************************)
(* Why Atomic holds, as an inductive invariant: every PUT that was or will *)
(* be sent, those the client stopped waiting for included, is either dead  *)
(* (the tag has left the digest in its If-Match and never returns to it)   *)
(* or an exact edit of what the tag names now; and all of an upload's PUTs *)
(* are dead once it has returned.                                          *)
(***************************************************************************)
Guarded ==
  /\ tag # NoManifest /\ tag.digest <= clock
  /\ \A w \in Writers : RunConsistent(w)
  /\ \A r \in late :
       Fits(tag, clock, r.by, r.ifm, r.man) /\ (pc[r.by] = "done" => r.ifm < tag.digest)

(***************************************************************************)
(* No lost update: a file whose upload returned stays in the revision as   *)
(* long as no other upload writes or deletes that title (the If-Match of   *)
(* upload_file and upload_folder).                                         *)
(***************************************************************************)
AckedFilesStay ==
  \A w \in Writers : pc[w] = "done" =>
    \A t \in OwnTitles(w) :
      (\A v \in Writers \ {w} : t \notin OwnTitles(v) \cup Deletes[v])
        => TagContent[t] = Files[w][t]

Closed(files) ==
  \A t \in Present(files) :
    /\ DOMAIN files[t].where = ChunksOf[files[t].content]
    /\ PacksIn(files[t].where) \subseteq files[t].packs
    /\ \A c \in DOMAIN files[t].where : c \in files[t].where[c][2]

(***************************************************************************)
(* Every file a manifest names can be put together from that manifest: its *)
(* pointer locates all its chunks, each in a pack that holds it, and each  *)
(* such pack is listed as a layer of the file, so that garbage collection  *)
(* keeps it (_upload_file_chunked_v2) and the next upload knows its size.  *)
(***************************************************************************)
GroupsClosed ==
  /\ Closed(FilesOf(tag))
  /\ \A w \in Writers : Closed(new[w]) /\ Closed(FilesOf(man[w]))

(***************************************************************************)
(* An upload that runs again after a lost pack does not reference that     *)
(* pack for its own files unless this run has put it again                 *)
(* (_build_dedup_index with exclude_packs): otherwise the re-run would     *)
(* fail the same way.                                                      *)
(***************************************************************************)
ExclusionHeals ==
  \A w \in Writers : pc[w] = "put" =>
    \A t \in OwnTitles(w) : \A p \in new[w][t].packs \cap excl[w] : <<t, p>> \in sent[w]

Accepted == visible \cup lagging

(***************************************************************************)
(* Without losses nothing dangles, even in a registry that does not        *)
(* validate: every blob the tag names was accepted before the tag named it *)
(* (the config thread is joined, the pointers and packs are in), and a     *)
(* pointer blob is never in the registry before the packs it locates       *)
(* chunks in (_upload_file_chunked_v2 writes it last), so that a crash     *)
(* leaves only unreferenced packs.                                         *)
(***************************************************************************)
NothingDangles ==
  losses = 0 =>
    /\ tag # NoManifest => References(tag.files) \subseteq Accepted
    /\ \A b \in Accepted : b[1] = "file" => PacksIn(b[3]) \subseteq Accepted

(***************************************************************************)
(* Every upload ends: the PUT retries, the blob re-uploads and the token   *)
(* refresh are bounded together, whatever the registry answers.            *)
(***************************************************************************)
Termination == <>(\A w \in Writers : pc[w] \in Ended)
=============================================================================

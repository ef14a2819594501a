------------------------ MODULE ManifestCommitProofs ------------------------
(***************************************************************************)
(* Proofs about ManifestCommit, for any uploads, files, chunks and bounds: *)
(* the type invariant, the inductive invariant Guarded and, from it, that  *)
(* the commit protocol implements Revision; then that the manifests are    *)
(* self-contained, that a re-run avoids the lost packs, and that nothing   *)
(* dangles.                                                                *)
(***************************************************************************)
EXTENDS ManifestCommit, TLAPS

-----------------------------------------------------------------------------
(* The operators a manifest is built with keep its type.                   *)

\* EmptyFiles, the layers of a missing manifest, is a map of files.
LEMMA EmptyFilesType == EmptyFiles \in FileMaps
BY DEF EmptyFiles, FileMaps

\* FilesOf returns a map of files, whether or not the manifest exists.
LEMMA FilesOfType ==
  ASSUME NEW m \in Manifests \cup {NoManifest}
  PROVE FilesOf(m) \in FileMaps
BY EmptyFilesType DEF FilesOf, Manifests

\* _merge_layers of two maps of files is a map of files.
LEMMA MergeLayersType ==
  ASSUME NEW existing \in FileMaps, NEW added \in FileMaps, NEW deleted
  PROVE MergeLayers(existing, added, deleted) \in FileMaps
BY DEF MergeLayers, FileMaps

\* The dedup index only ever names packs.
LEMMA HoldersType ==
  ASSUME NEW m \in Manifests \cup {NoManifest}, NEW lost, NEW c
  PROVE Holders(m, lost, c) \subseteq Packs
<1>1. FilesOf(m) \in FileMaps
  BY FilesOfType
<1>2. ASSUME NEW t \in Chunked(FilesOf(m)), c \in DOMAIN FilesOf(m)[t].where
      PROVE FilesOf(m)[t].where[c] \in Packs
  <2>1. FilesOf(m)[t] \in Groups
    BY <1>1, <1>2 DEF Chunked, Present, FileMaps
  <2>2. FilesOf(m)[t].where \in UNION {[S -> Packs] : S \in SUBSET Chunks}
    BY <2>1 DEF Groups
  <2>3. PICK S \in SUBSET Chunks : FilesOf(m)[t].where \in [S -> Packs]
    BY <2>2
  <2>4. QED
    BY <1>2, <2>3
<1>3. QED
  BY <1>2 DEF Holders

\* The layers built for a file are a layer group of that file's content.
LEMMA FileLayersType ==
  ASSUME NEW w \in Writers, NEW t \in OwnTitles(w), NEW g \in FileLayers(w, t),
         prior[w] \in Manifests \cup {NoManifest}
  PROVE g \in Groups /\ g.content = Files[w][t]
<1> DEFINE chunks == ChunksOf[Files[w][t]]
           fresh == Pack(NewChunks(prior[w], Excluded(w), chunks))
           all == {fresh} \cup UNION {Holders(prior[w], Excluded(w), c) : c \in chunks}
<1>1. Files[w][t] \in Contents /\ chunks \in SUBSET Chunks
  BY JobAssumption, SentinelAssumption DEF OwnTitles
<1>2. fresh \in Packs
  BY <1>1 DEF NewChunks, Packs
<1>3. all \subseteq Packs
  BY <1>2, HoldersType
<1>4. PICK loc \in Locations(prior[w], Excluded(w), chunks) :
        g = [content |-> Files[w][t], where |-> loc, packs |-> PacksIn(loc)]
  BY DEF FileLayers
<1>5. loc \in [chunks -> all]
  BY <1>4 DEF Locations
<1>6. loc \in [chunks -> Packs]
  BY <1>3, <1>5
<1>7. PacksIn(loc) \subseteq Packs
  BY <1>6 DEF PacksIn
<1>8. loc \in UNION {[S -> Packs] : S \in SUBSET Chunks}
  BY <1>1, <1>6
<1>9. QED
  BY <1>1, <1>4, <1>7, <1>8 DEF Groups

-----------------------------------------------------------------------------
(* Type correctness.                                                       *)

\* A run that ends leaves variables of the right type.
LEMMA UnwindType ==
  ASSUME TypeOK, NEW w \in Writers, Unwind(w)
  PROVE /\ stray' \subseteq [proc : Procs, at : Stages]
        /\ prior' \in [Writers -> Manifests \cup {NoManifest}]
        /\ base' \in [Writers -> Manifests \cup {NoManifest}]
        /\ todo' \in [Writers -> SUBSET Titles]
        /\ \A v \in Writers : todo'[v] \subseteq OwnTitles(v)
        /\ new' \in [Writers -> FileMaps]
        /\ sent' \in [Writers -> SUBSET (Titles \X Packs)]
        /\ cfg' \in [Writers -> Stages \cup {"idle", "present"}]
        /\ man' \in [Writers -> Manifests \cup {NoManifest}]
        /\ ifm' \in [Writers -> Nat]
        /\ att' \in [Writers -> 0..PutRetries]
<1>1. stray' \subseteq [proc : Procs, at : Stages]
  <2>1. CASE cfg[w] \in Stages
    <3>1. [proc |-> ProcOf[w], at |-> cfg[w]] \in [proc : Procs, at : Stages]
      BY <2>1, JobAssumption
    <3>2. QED
      BY <3>1 DEF TypeOK, Unwind
  <2>2. CASE cfg[w] \notin Stages
    BY <2>2 DEF TypeOK, Unwind, Stages
  <2>3. QED
    BY <2>1, <2>2
<1>2. new' \in [Writers -> FileMaps]
  BY EmptyFilesType DEF TypeOK, Unwind
<1>3. QED
  BY <1>1, <1>2, BoundAssumption DEF TypeOK, Unwind, NoDigest, Stages

\* A call that returns or raises leaves variables of the right type.
LEMMA EndType ==
  ASSUME TypeOK, NEW w \in Writers, NEW how \in Ended, End(w, how),
         tag' \in Manifests \cup {NoManifest}, late' \subseteq Requests,
         losses' \in 0..MaxLosses, cached' \subseteq Procs, clock' \in Nat \ {0}
  PROVE TypeOK'
<1>1. Unwind(w) /\ pc' = [pc EXCEPT ![w] = how]
  BY DEF End
<1>2. /\ pc' \in [Writers -> Active \cup Ended]
      /\ \A v \in Writers : pc'[v] = "put" => man'[v] # NoManifest
  BY <1>1 DEF TypeOK, Unwind, Ended
<1>3. /\ heal' \in [Writers -> 0..HealRetries]
      /\ refreshed' \in [Writers -> BOOLEAN]
  BY BoundAssumption DEF TypeOK, End
<1>4. QED
  BY <1>1, <1>2, <1>3, UnwindType DEF TypeOK

\* The initial state is well typed.
LEMMA InitType == Init => TypeOK
<1> SUFFICES ASSUME Init PROVE TypeOK
  OBVIOUS
<1>1. tag \in Manifests \cup {NoManifest}
  BY JobAssumption DEF Init, Manifests, NoDigest
<1>2. new \in [Writers -> FileMaps]
  BY EmptyFilesType DEF Init
<1>3. QED
  BY <1>1, <1>2, BoundAssumption DEF Init, TypeOK, Requests, Active, Stages, NoDigest

\* Every step of an upload keeps the types.
LEMMA StepType ==
  ASSUME TypeOK, NEW w \in Writers, Step(w)
  PROVE TypeOK'
<1> USE DEF vars, registry, procVars, runVars, putVars, retryVars
<1>1. CASE Fetch(w)
  BY <1>1 DEF Fetch, TypeOK, Active, Stages, OwnTitles
<1>2. ASSUME NEW t \in Titles, UploadPack(w, t) PROVE TypeOK'
  <2>1. Pack(FreshOf(w, t)) \in Packs
    <3>1. t \in OwnTitles(w)
      BY <1>2 DEF UploadPack, TypeOK
    <3>2. ChunksOf[Files[w][t]] \subseteq Chunks
      BY <3>1, JobAssumption, SentinelAssumption DEF OwnTitles
    <3>3. QED
      BY <3>2 DEF FreshOf, NewChunks, Packs
  <2>2. sent' \in [Writers -> SUBSET (Titles \X Packs)]
    BY <1>2, <2>1 DEF UploadPack, TypeOK
  <2>3. QED
    BY <1>2, <2>2 DEF UploadPack, Accept, TypeOK
<1>3. ASSUME NEW t \in Titles, UploadFile(w, t) PROVE TypeOK'
  <2>1. t \in OwnTitles(w)
    BY <1>3 DEF UploadFile, TypeOK
  <2>2. PICK g \in FileLayers(w, t) :
          \/ /\ new' = [new EXCEPT ![w][t] = g]
             /\ todo' = [todo EXCEPT ![w] = @ \ {t}]
             /\ UNCHANGED <<pc, stray, prior, base, sent, cfg, putVars, retryVars>>
          \/ End(w, "failed")
    BY <1>3 DEF UploadFile
  <2>3. UNCHANGED <<tag, late, cached, clock, losses>>
    BY <1>3 DEF UploadFile, Accept
  <2>4. g \in Groups
    BY <2>1, FileLayersType DEF TypeOK
  <2>5. CASE End(w, "failed")
    BY <2>3, <2>5, EndType DEF TypeOK, Ended
  <2>6. CASE /\ new' = [new EXCEPT ![w][t] = g]
             /\ todo' = [todo EXCEPT ![w] = @ \ {t}]
             /\ UNCHANGED <<pc, stray, prior, base, sent, cfg, putVars, retryVars>>
    <3>1. new' \in [Writers -> FileMaps]
      BY <2>4, <2>6 DEF TypeOK, FileMaps
    <3>2. QED
      BY <2>3, <2>6, <3>1 DEF TypeOK
  <2>7. QED
    BY <2>2, <2>5, <2>6
<1>4. CASE Finalize(w)
  BY <1>4 DEF Finalize, TypeOK, Active, Stages
<1>5. CASE ConfigCached(w)
  BY <1>5 DEF ConfigCached, TypeOK
<1>6. CASE ConfigPut(w)
  BY <1>6 DEF ConfigPut, Accept, TypeOK, Stages
<1>7. CASE ConfigRecord(w)
  BY <1>7, JobAssumption DEF ConfigRecord, TypeOK
<1>8. CASE Assemble(w)
  <2>1. MergeLayers(FilesOf(base[w]), new[w], Deletes[w]) \in FileMaps
    BY FilesOfType, MergeLayersType DEF TypeOK
  <2>2. man' \in [Writers -> Manifests \cup {NoManifest}]
    BY <1>8, <2>1 DEF Assemble, AssembleWith, TypeOK, Manifests, NoDigest
  <2>3. PrevDigest(base[w]) \in Nat
    BY DEF PrevDigest, TypeOK, Manifests, NoDigest
  <2>4. \A v \in Writers : pc'[v] = "put" => man'[v] # NoManifest
    <3>1. [digest |-> clock + 1,
           files |-> MergeLayers(FilesOf(base[w]), new[w], Deletes[w])] \in Manifests
      BY <2>1 DEF TypeOK, Manifests, NoDigest
    <3>2. QED
      BY <1>8, <3>1, SentinelAssumption DEF Assemble, AssembleWith, TypeOK
  <2>5. /\ clock' \in Nat \ {0}
        /\ att' \in [Writers -> 0..PutRetries]
        /\ pc' \in [Writers -> Active \cup Ended]
        /\ ifm' \in [Writers -> Nat]
    BY <1>8, <2>3, BoundAssumption DEF Assemble, AssembleWith, TypeOK, Active
  <2>6. QED
    BY <1>8, <2>2, <2>4, <2>5 DEF Assemble, AssembleWith, TypeOK
<1>9. CASE PutOk(w)
  <2>1. End(w, "done") /\ tag' = man[w] /\ UNCHANGED <<losses, late, cached, clock>>
    BY <1>9 DEF PutOk
  <2>2. QED
    BY <2>1, EndType DEF TypeOK, Ended
<1>10. CASE PutConflict(w)
  BY <1>10, EndType DEF PutConflict, TypeOK, Ended
<1>11. CASE PutTimeout(w)
  <2>1. late' \subseteq Requests
    BY <1>11 DEF PutTimeout, TypeOK, Requests
  <2>2. CASE att[w] < PutRetries
    <3>1. att' \in [Writers -> 0..PutRetries]
      BY <1>11, <2>2, BoundAssumption DEF PutTimeout, TypeOK
    <3>2. QED
      BY <1>11, <2>1, <2>2, <3>1 DEF PutTimeout, TypeOK
  <2>3. CASE ~(att[w] < PutRetries)
    BY <1>11, <2>1, <2>3, EndType DEF PutTimeout, TypeOK, Ended
  <2>4. QED
    BY <2>2, <2>3
<1>12. CASE PutUnknown(w)
  BY <1>12, BoundAssumption DEF PutUnknown, TypeOK
<1>13. CASE PutLost(w)
  <2>1. cached' \subseteq Procs
    BY <1>13 DEF PutLost, TypeOK
  <2>2. CASE heal[w] < HealRetries
    <3>1. Unwind(w)
      BY <1>13, <2>2 DEF PutLost
    <3>2. /\ pc' \in [Writers -> Active \cup Ended]
          /\ \A v \in Writers : pc'[v] = "put" => man'[v] # NoManifest
      BY <1>13, <2>2, <3>1 DEF PutLost, Unwind, TypeOK, Active
    <3>3. /\ heal' \in [Writers -> 0..HealRetries]
          /\ refreshed' \in [Writers -> BOOLEAN]
      <4>1. heal' = [heal EXCEPT ![w] = heal[w] + 1]
        BY <1>13, <2>2 DEF PutLost
      <4>2. heal[w] \in 0..HealRetries
        BY DEF TypeOK
      <4>3. heal[w] + 1 \in 0..HealRetries
        BY <2>2, <4>2, BoundAssumption
      <4>4. heal' \in [Writers -> 0..HealRetries]
        BY <4>1, <4>3 DEF TypeOK
      <4>5. refreshed' = [refreshed EXCEPT ![w] = FALSE]
        BY <1>13, <2>2 DEF PutLost
      <4>6. QED
        BY <4>4, <4>5 DEF TypeOK
    <3>4. QED
      BY <1>13, <2>1, <3>1, <3>2, <3>3, UnwindType DEF PutLost, TypeOK
  <2>3. CASE ~(heal[w] < HealRetries)
    BY <1>13, <2>1, <2>3, EndType DEF PutLost, TypeOK, Ended
  <2>4. QED
    BY <2>2, <2>3
<1>14. CASE TokenExpired(w)
  <2>1. CASE refreshed[w]
    BY <1>14, <2>1, EndType DEF TokenExpired, TypeOK, Ended
  <2>2. CASE ~refreshed[w]
    <3>1. Unwind(w)
      BY <1>14, <2>2 DEF TokenExpired
    <3>2. /\ pc' \in [Writers -> Active \cup Ended]
          /\ \A v \in Writers : pc'[v] = "put" => man'[v] # NoManifest
          /\ refreshed' \in [Writers -> BOOLEAN]
      BY <1>14, <2>2, <3>1 DEF TokenExpired, Unwind, TypeOK, Active
    <3>3. QED
      BY <1>14, <2>2, <3>1, <3>2, UnwindType DEF TokenExpired, TypeOK
  <2>3. QED
    BY <2>1, <2>2
<1>15. CASE Fail(w)
  BY <1>15, EndType DEF Fail, TypeOK, Ended
<1>16. QED
  BY <1>1, <1>2, <1>3, <1>4, <1>5, <1>6, <1>7, <1>8, <1>9, <1>10, <1>11, <1>12,
     <1>13, <1>14, <1>15 DEF Step

\* Every step of the registry and of the stray config threads keeps the types.
LEMMA EnvironmentType ==
  ASSUME TypeOK, Environment
  PROVE TypeOK'
<1> USE DEF registry, procVars, runVars, putVars, retryVars
<1>1. ASSUME NEW b \in lagging, Settle(b) PROVE TypeOK'
  BY <1>1 DEF Settle, TypeOK
<1>2. ASSUME NEW b \in visible \cup lagging, Lose(b) PROVE TypeOK'
  <2>1. losses' \in 0..MaxLosses
    BY <1>2, BoundAssumption DEF Lose, TypeOK
  <2>2. QED
    BY <1>2, <2>1 DEF Lose, TypeOK
<1>3. ASSUME NEW r \in late, Deliver(r) PROVE TypeOK'
  <2>1. r.man \in Manifests
    BY DEF TypeOK, Requests
  <2>2. QED
    BY <1>3, <2>1 DEF Deliver, TypeOK
<1>4. ASSUME NEW s \in stray, StrayPut(s) PROVE TypeOK'
  <2>1. s \in [proc : Procs, at : Stages]
    BY DEF TypeOK
  <2>2. [s EXCEPT !.at = "confirmed"] \in [proc : Procs, at : Stages]
    BY <2>1 DEF Stages
  <2>3. QED
    BY <1>4, <2>2 DEF StrayPut, Accept, TypeOK
<1>5. ASSUME NEW s \in stray, StrayRecord(s) PROVE TypeOK'
  BY <1>5 DEF StrayRecord, TypeOK
<1>6. QED
  BY <1>1, <1>2, <1>3, <1>4, <1>5 DEF Environment

\* Every step of the system, or none, keeps the types.
LEMMA NextType == TypeOK /\ [Next]_vars => TypeOK'
<1> SUFFICES ASSUME TypeOK, [Next]_vars PROVE TypeOK'
  OBVIOUS
<1>1. ASSUME NEW w \in Writers, Step(w) PROVE TypeOK'
  BY <1>1, StepType
<1>2. CASE Environment
  BY <1>2, EnvironmentType
<1>3. CASE UNCHANGED vars
  BY <1>3 DEF vars, registry, procVars, runVars, putVars, retryVars, TypeOK
<1>4. QED
  BY <1>1, <1>2, <1>3 DEF Next, AllEnded

(***************************************************************************)
(* Type correctness: every variable of the commit protocol keeps its type, *)
(* the manifests it assembles and the tag included, for any number of      *)
(* uploads, files and retries.                                             *)
(***************************************************************************)
THEOREM TypeCorrect == Spec => []TypeOK
<1>1. QED
  BY InitType, NextType, PTL DEF Spec

-----------------------------------------------------------------------------
(* The inductive invariant.                                                *)

\* The tag stays, or moves to a manifest of a later digest.
TagAdvances ==
  /\ tag' # NoManifest
  /\ tag' = tag \/ tag.digest < tag'.digest
  /\ clock <= clock'

\* A PUT that fits a tag fits every later tag: it is dead there.
LEMMA FitsLater ==
  ASSUME NEW T \in Manifests, NEW U \in Manifests, NEW now \in Nat, NEW then \in Nat,
         NEW v, NEW d \in Nat, NEW m \in Manifests,
         Fits(T, now, v, d, m), now <= then, U = T \/ T.digest < U.digest
  PROVE Fits(U, then, v, d, m)
BY DEF Fits, Manifests, NoDigest

\* An upload whose own variables stay put stays consistent while the tag moves.
LEMMA BystanderConsistent ==
  ASSUME TypeOK, TypeOK', Guarded, TagAdvances, NEW v \in Writers,
         new'[v] = new[v], todo'[v] = todo[v], base'[v] = base[v], pc'[v] = pc[v],
         man'[v] = man[v], ifm'[v] = ifm[v]
  PROVE RunConsistent(v)'
<1>1. RunConsistent(v) /\ tag \in Manifests /\ tag' \in Manifests
  BY DEF Guarded, TypeOK, TagAdvances
<1>2. base'[v] # NoManifest =>
        base'[v].digest <= tag'.digest /\ (base'[v].digest = tag'.digest => base'[v] = tag')
  <2>1. SUFFICES ASSUME base[v] # NoManifest
                 PROVE base[v].digest <= tag'.digest /\ (base[v].digest = tag'.digest => base[v] = tag')
    OBVIOUS
  <2>2. base[v] \in Manifests
    BY <2>1 DEF TypeOK
  <2>3. base[v].digest \in Nat /\ tag.digest \in Nat /\ tag'.digest \in Nat
    BY <1>1, <2>2 DEF Manifests
  <2>4. base[v].digest <= tag.digest /\ (base[v].digest = tag.digest => base[v] = tag)
    BY <1>1, <2>1 DEF RunConsistent
  <2>5. QED
    BY <2>3, <2>4 DEF TagAdvances
<1>3. pc'[v] = "put" => Fits(tag', clock', v, ifm'[v], man'[v])
  <2>1. SUFFICES ASSUME pc[v] = "put" PROVE Fits(tag', clock', v, ifm[v], man[v])
    OBVIOUS
  <2>2. man[v] \in Manifests /\ ifm[v] \in Nat /\ clock \in Nat /\ clock' \in Nat
    BY <2>1 DEF TypeOK
  <2>3. Fits(tag, clock, v, ifm[v], man[v])
    BY <1>1, <2>1 DEF RunConsistent
  <2>4. QED
    BY <1>1, <2>2, <2>3, FitsLater DEF TagAdvances
<1>4. QED
  BY <1>1, <1>2, <1>3 DEF RunConsistent

\* So do the PUTs that are still on their way.
LEMMA LateFits ==
  ASSUME TypeOK, TypeOK', Guarded, TagAdvances, NEW r \in late,
         pc'[r.by] = "done" => pc[r.by] = "done" \/ tag.digest < tag'.digest
  PROVE Fits(tag', clock', r.by, r.ifm, r.man) /\ (pc'[r.by] = "done" => r.ifm < tag'.digest)
<1>1. r.man \in Manifests /\ r.ifm \in Nat /\ clock \in Nat /\ clock' \in Nat
  BY DEF TypeOK, Requests
<1>2. tag \in Manifests /\ tag' \in Manifests
  BY DEF TypeOK, Guarded, TagAdvances
<1>3. Fits(tag, clock, r.by, r.ifm, r.man)
  BY DEF Guarded
<1>4. Fits(tag', clock', r.by, r.ifm, r.man)
  BY <1>1, <1>2, <1>3, FitsLater DEF TagAdvances
<1>5. r.ifm <= tag.digest /\ (pc[r.by] = "done" => r.ifm < tag.digest)
  BY <1>3 DEF Fits, Guarded
<1>6. tag.digest \in Nat /\ tag'.digest \in Nat
  BY <1>2 DEF Manifests
<1>7. QED
  BY <1>1, <1>4, <1>5, <1>6 DEF TagAdvances

\* A run that has ended, or is about to start over, is consistent.
LEMMA UnwindConsistent ==
  ASSUME TypeOK, TypeOK', NEW w \in Writers, Unwind(w), tag' # NoManifest,
         pc'[w] \notin {"upload", "finalize", "put"}
  PROVE RunConsistent(w)'
<1>1. new'[w] = EmptyFiles /\ base'[w] = NoManifest
  BY DEF Unwind, TypeOK
<1>2. QED
  BY <1>1 DEF RunConsistent, EmptyFiles

\* The edit of an upload, merged into a manifest, is the abstract edit.
LEMMA MergeIsEdit ==
  ASSUME NEW w \in Writers, NEW existing \in FileMaps, NEW added \in FileMaps,
         \A t \in Titles : added[t] # NoFile => added[t].content = Files[w][t],
         \A t \in OwnTitles(w) : added[t] # NoFile
  PROVE ContentOf(MergeLayers(existing, added, Deletes[w])) = Rev!Apply(w, ContentOf(existing))
<1>1. ASSUME NEW t \in Titles
      PROVE ContentOf(MergeLayers(existing, added, Deletes[w]))[t] = Rev!Apply(w, ContentOf(existing))[t]
  <2>1. CASE added[t] # NoFile
    <3>1. added[t] \in Groups
      BY <2>1 DEF FileMaps
    <3>2. Files[w][t] # NoFile
      BY <2>1, <3>1, SentinelAssumption DEF Groups
    <3>3. QED
      BY <2>1, <3>2 DEF ContentOf, MergeLayers, Rev!Apply
  <2>2. CASE added[t] = NoFile
    <3>1. Files[w][t] = NoFile
      BY <2>2 DEF OwnTitles
    <3>2. QED
      BY <2>2, <3>1 DEF ContentOf, MergeLayers, Rev!Apply
  <2>3. QED
    BY <2>1, <2>2
<1>2. QED
  BY <1>1 DEF ContentOf, Rev!Apply

\* What every step must show: its own upload stays consistent, the rest follows.
LEMMA GuardedByParts ==
  ASSUME TypeOK, TypeOK', Guarded, TagAdvances, NEW w \in Writers,
         tag'.digest <= clock', RunConsistent(w)', late' = late,
         \A v \in Writers \ {w} :
           /\ new'[v] = new[v] /\ todo'[v] = todo[v] /\ base'[v] = base[v]
           /\ pc'[v] = pc[v] /\ man'[v] = man[v] /\ ifm'[v] = ifm[v],
         pc'[w] = "done" => pc[w] = "done" \/ tag.digest < tag'.digest
  PROVE Guarded'
<1>1. \A v \in Writers : RunConsistent(v)'
  BY BystanderConsistent
<1>2. \A r \in late : Fits(tag', clock', r.by, r.ifm, r.man) /\ (pc'[r.by] = "done" => r.ifm < tag'.digest)
  <2>1. \A r \in late : r.by \in Writers
    BY DEF TypeOK, Requests
  <2>2. QED
    BY <2>1, LateFits
<1>3. QED
  BY <1>1, <1>2 DEF Guarded, TagAdvances

\* A call that returns or raises without a PUT keeps the invariant.
LEMMA GuardedEnd ==
  ASSUME TypeOK, TypeOK', Guarded, NEW w \in Writers, End(w, "failed") \/ End(w, "conflict"),
         UNCHANGED <<tag, late, clock>>
  PROVE Guarded'
<1>1. Unwind(w) /\ pc'[w] \in {"failed", "conflict"}
  BY DEF End, TypeOK
<1>2. tag.digest \in Nat /\ clock \in Nat /\ TagAdvances
  BY DEF TypeOK, Guarded, TagAdvances, Manifests
<1>3. RunConsistent(w)'
  BY <1>1, <1>2, UnwindConsistent DEF TagAdvances
<1>4. \A v \in Writers \ {w} :
           /\ new'[v] = new[v] /\ todo'[v] = todo[v] /\ base'[v] = base[v]
           /\ pc'[v] = pc[v] /\ man'[v] = man[v] /\ ifm'[v] = ifm[v]
  BY DEF End, Unwind, TypeOK
<1>5. QED
  BY <1>1, <1>2, <1>3, <1>4, GuardedByParts DEF Guarded

\* A run that starts over keeps the invariant.
LEMMA GuardedRestart ==
  ASSUME TypeOK, TypeOK', Guarded, NEW w \in Writers, Unwind(w), pc' = [pc EXCEPT ![w] = "fetch"],
         UNCHANGED <<tag, late, clock>>
  PROVE Guarded'
<1>1. pc'[w] = "fetch"
  BY DEF TypeOK
<1>2. tag.digest \in Nat /\ clock \in Nat /\ TagAdvances
  BY DEF TypeOK, Guarded, TagAdvances, Manifests
<1>3. RunConsistent(w)'
  BY <1>1, <1>2, UnwindConsistent DEF TagAdvances
<1>4. \A v \in Writers \ {w} :
           /\ new'[v] = new[v] /\ todo'[v] = todo[v] /\ base'[v] = base[v]
           /\ pc'[v] = pc[v] /\ man'[v] = man[v] /\ ifm'[v] = ifm[v]
  BY DEF Unwind, TypeOK
<1>5. QED
  BY <1>1, <1>2, <1>3, <1>4, GuardedByParts DEF Guarded

\* A step that leaves alone everything the invariant mentions keeps it.
LEMMA GuardedUntouched ==
  ASSUME Guarded, UNCHANGED <<tag, late, clock, pc, new, todo, base, man, ifm>>
  PROVE Guarded'
BY DEF Guarded, RunConsistent

\* Every step of an upload keeps the invariant.
LEMMA StepGuarded ==
  ASSUME DigestHeader, TypeOK, TypeOK', Guarded, NEW w \in Writers, Step(w)
  PROVE Guarded'
<1> USE DEF registry, procVars, runVars, putVars, retryVars
<1>0. tag \in Manifests /\ tag.digest \in Nat /\ clock \in Nat /\ tag.digest <= clock /\ tag # NoManifest
  BY DEF TypeOK, Guarded, Manifests
<1>1. CASE Fetch(w)
  <2>1. TagAdvances /\ UNCHANGED <<tag, late, clock, new, man, ifm>>
    BY <1>0, <1>1 DEF Fetch, TagAdvances
  <2>2. pc'[w] = "upload" /\ todo'[w] = OwnTitles(w) /\ base'[w] \in {tag, NoManifest}
        /\ (Kind[w] = "file" => base'[w] = tag)
    BY <1>1 DEF Fetch, TypeOK
  <2>3. \A t \in Titles : new[w][t] # NoFile => new[w][t].content = Files[w][t]
    BY DEF Guarded, RunConsistent
  <2>4. RunConsistent(w)'
    BY <1>0, <2>1, <2>2, <2>3 DEF RunConsistent
  <2>5. \A v \in Writers \ {w} : todo'[v] = todo[v] /\ base'[v] = base[v] /\ pc'[v] = pc[v]
    BY <1>1 DEF Fetch, TypeOK
  <2>6. QED
    BY <1>0, <2>1, <2>2, <2>4, <2>5, GuardedByParts
<1>2. ASSUME NEW t \in Titles, UploadPack(w, t) PROVE Guarded'
  BY <1>2, GuardedUntouched DEF UploadPack
<1>3. ASSUME NEW t \in Titles, UploadFile(w, t) PROVE Guarded'
  <2>1. t \in OwnTitles(w) /\ pc[w] = "upload"
    BY <1>3 DEF UploadFile, TypeOK
  <2>2. PICK g \in FileLayers(w, t) :
          \/ /\ new' = [new EXCEPT ![w][t] = g]
             /\ todo' = [todo EXCEPT ![w] = @ \ {t}]
             /\ UNCHANGED <<pc, stray, prior, base, sent, cfg, putVars, retryVars>>
          \/ End(w, "failed")
    BY <1>3 DEF UploadFile
  <2>3. UNCHANGED <<tag, late, cached, clock>>
    BY <1>3 DEF UploadFile
  <2>4. CASE End(w, "failed")
    BY <2>3, <2>4, GuardedEnd
  <2>5. CASE /\ new' = [new EXCEPT ![w][t] = g]
             /\ todo' = [todo EXCEPT ![w] = @ \ {t}]
             /\ UNCHANGED <<pc, stray, prior, base, sent, cfg, putVars, retryVars>>
    <3>1. g \in Groups /\ g.content = Files[w][t]
      BY <2>1, FileLayersType DEF TypeOK
    <3>2. g # NoFile
      BY <3>1, SentinelAssumption
    <3>3. /\ \A u \in Titles : new'[w][u] = IF u = t THEN g ELSE new[w][u]
          /\ todo'[w] = todo[w] \ {t}
      BY <2>5 DEF TypeOK, FileMaps
    <3>4. RunConsistent(w)
      BY DEF Guarded
    <3>5. /\ \A u \in Titles : new'[w][u] # NoFile => new'[w][u].content = Files[w][u]
          /\ \A u \in OwnTitles(w) : u \in todo'[w] \/ new'[w][u] # NoFile
      BY <2>1, <3>1, <3>2, <3>3, <3>4 DEF RunConsistent, OwnTitles
    <3>6. RunConsistent(w)'
      BY <2>1, <2>3, <2>5, <3>4, <3>5 DEF RunConsistent
    <3>7. \A v \in Writers \ {w} : new'[v] = new[v] /\ todo'[v] = todo[v]
      BY <2>5 DEF TypeOK
    <3>8. TagAdvances
      BY <1>0, <2>3 DEF TagAdvances
    <3>9. QED
      BY <1>0, <2>3, <2>5, <3>6, <3>7, <3>8, GuardedByParts
  <2>6. QED
    BY <2>2, <2>4, <2>5
<1>4. CASE Finalize(w)
  <2>1. TagAdvances /\ UNCHANGED <<tag, late, clock, new, todo, man, ifm>>
    BY <1>0, <1>4 DEF Finalize, TagAdvances
  <2>2. pc[w] = "upload" /\ pc'[w] = "finalize" /\ base'[w] = tag
    BY <1>4 DEF Finalize, TypeOK
  <2>3. RunConsistent(w)'
    BY <1>0, <2>1, <2>2 DEF Guarded, RunConsistent
  <2>4. \A v \in Writers \ {w} : base'[v] = base[v] /\ pc'[v] = pc[v]
    BY <1>4 DEF Finalize, TypeOK
  <2>5. QED
    BY <1>0, <2>1, <2>2, <2>3, <2>4, GuardedByParts
<1>5. CASE ConfigCached(w)
  BY <1>5, GuardedUntouched DEF ConfigCached
<1>6. CASE ConfigPut(w)
  BY <1>6, GuardedUntouched DEF ConfigPut
<1>7. CASE ConfigRecord(w)
  BY <1>7, GuardedUntouched DEF ConfigRecord
<1>8. CASE Assemble(w)
  <2> DEFINE m == [digest |-> clock + 1,
                   files |-> MergeLayers(FilesOf(base[w]), new[w], Deletes[w])]
  <2>1. /\ pc[w] = IF Kind[w] = "file" THEN "upload" ELSE "finalize"
        /\ todo[w] = {} /\ clock' = clock + 1
        /\ man' = [man EXCEPT ![w] = m] /\ ifm' = [ifm EXCEPT ![w] = PrevDigest(base[w])]
        /\ pc' = [pc EXCEPT ![w] = "put"]
        /\ UNCHANGED <<tag, late, new, todo, base>>
    BY <1>8 DEF Assemble, AssembleWith
  <2>2. RunConsistent(w)
    BY DEF Guarded
  <2>3. base[w] # NoManifest /\ base[w] \in Manifests
    BY <2>1, <2>2 DEF RunConsistent, TypeOK
  <2>4. base[w].digest \in Nat \ {0} /\ base[w].files \in FileMaps /\ FilesOf(base[w]) = base[w].files
    BY <2>3 DEF Manifests, FilesOf, NoDigest
  <2>5. PrevDigest(base[w]) = base[w].digest
    BY <2>3 DEF PrevDigest
  <2>6. ContentOf(m.files) = Rev!Apply(w, ContentOf(base[w].files))
    <3>1. \A t \in OwnTitles(w) : new[w][t] # NoFile
      BY <2>1, <2>2 DEF RunConsistent
    <3>2. \A t \in Titles : new[w][t] # NoFile => new[w][t].content = Files[w][t]
      BY <2>2 DEF RunConsistent
    <3>3. new[w] \in FileMaps
      BY DEF TypeOK
    <3>4. QED
      BY <2>4, <3>1, <3>2, <3>3, MergeIsEdit
  <2>7. base[w].digest <= tag.digest /\ (base[w].digest = tag.digest => base[w] = tag)
    BY <2>2, <2>3 DEF RunConsistent
  <2>8. Fits(tag, clock + 1, w, base[w].digest, m)
    BY <1>0, <2>4, <2>6, <2>7 DEF Fits, NoDigest
  <2>9. pc'[w] = "put" /\ man'[w] = m /\ ifm'[w] = base[w].digest
    BY <2>1, <2>5 DEF TypeOK
  <2>10. RunConsistent(w)'
    BY <2>1, <2>2, <2>8, <2>9 DEF RunConsistent
  <2>11. TagAdvances /\ tag'.digest <= clock'
    BY <1>0, <2>1 DEF TagAdvances
  <2>12. \A v \in Writers \ {w} : pc'[v] = pc[v] /\ man'[v] = man[v] /\ ifm'[v] = ifm[v]
    BY <2>1 DEF TypeOK
  <2>13. QED
    BY <2>1, <2>9, <2>10, <2>11, <2>12, GuardedByParts
<1>9. CASE PutOk(w)
  <2>1. /\ pc[w] = "put" /\ IfMatchHolds(ifm[w]) /\ tag' = man[w] /\ End(w, "done")
        /\ UNCHANGED <<late, clock>>
    BY <1>9 DEF PutOk
  <2>2. man[w] \in Manifests /\ ifm[w] \in Nat
    BY <2>1 DEF TypeOK
  <2>3. Fits(tag, clock, w, ifm[w], man[w])
    BY <2>1 DEF Guarded, RunConsistent
  <2>4. ifm[w] = tag.digest
    BY <2>1, <2>3 DEF Fits, IfMatchHolds
  <2>5. tag.digest < tag'.digest /\ tag'.digest <= clock'
    BY <2>1, <2>3, <2>4 DEF Fits
  <2>6. TagAdvances
    BY <1>0, <2>1, <2>2, <2>5, SentinelAssumption DEF TagAdvances
  <2>7. Unwind(w) /\ pc'[w] = "done"
    BY <2>1 DEF End, TypeOK
  <2>8. RunConsistent(w)'
    BY <2>6, <2>7, UnwindConsistent DEF TagAdvances
  <2>9. \A v \in Writers \ {w} :
           /\ new'[v] = new[v] /\ todo'[v] = todo[v] /\ base'[v] = base[v]
           /\ pc'[v] = pc[v] /\ man'[v] = man[v] /\ ifm'[v] = ifm[v]
    BY <2>1 DEF End, Unwind, TypeOK
  <2>10. QED
    BY <2>1, <2>5, <2>6, <2>8, <2>9, GuardedByParts
<1>10. CASE PutConflict(w)
  BY <1>10, GuardedEnd DEF PutConflict
<1>11. CASE PutTimeout(w)
  <2> DEFINE r == [by |-> w, ifm |-> ifm[w], man |-> man[w]]
  <2>1. pc[w] = "put" /\ late' = late \cup {r} /\ UNCHANGED <<tag, clock>>
    BY <1>11 DEF PutTimeout
  <2>2. Fits(tag, clock, w, ifm[w], man[w])
    BY <2>1 DEF Guarded, RunConsistent
  <2>3. CASE att[w] < PutRetries
    <3>1. UNCHANGED <<pc, new, todo, base, man, ifm>>
      BY <1>11, <2>3 DEF PutTimeout
    <3>2. QED
      BY <2>1, <2>2, <3>1 DEF Guarded, RunConsistent
  <2>4. CASE ~(att[w] < PutRetries)
    <3>1. End(w, "failed")
      BY <1>11, <2>4 DEF PutTimeout
    <3>2. pc' = [pc EXCEPT ![w] = "failed"] /\ Unwind(w)
      BY <3>1 DEF End
    <3>3. TagAdvances
      BY <1>0, <2>1 DEF TagAdvances
    <3>4. RunConsistent(w)'
      BY <3>2, <3>3, UnwindConsistent DEF TagAdvances, TypeOK
    <3>5. \A v \in Writers \ {w} :
           /\ new'[v] = new[v] /\ todo'[v] = todo[v] /\ base'[v] = base[v]
           /\ pc'[v] = pc[v] /\ man'[v] = man[v] /\ ifm'[v] = ifm[v]
      BY <3>2 DEF Unwind, TypeOK
    <3>6. \A v \in Writers : RunConsistent(v)'
      BY <3>3, <3>4, <3>5, BystanderConsistent
    <3>7. \A q \in late' : Fits(tag', clock', q.by, q.ifm, q.man) /\ (pc'[q.by] = "done" => q.ifm < tag'.digest)
      BY <2>1, <2>2, <3>2 DEF Guarded, TypeOK
    <3>8. QED
      BY <2>1, <3>6, <3>7 DEF Guarded
  <2>5. QED
    BY <2>3, <2>4
<1>12. CASE PutUnknown(w)
  BY <1>12, GuardedUntouched DEF PutUnknown
<1>13. CASE PutLost(w)
  BY <1>13, GuardedEnd, GuardedRestart DEF PutLost
<1>14. CASE TokenExpired(w)
  BY <1>14, GuardedEnd, GuardedRestart DEF TokenExpired
<1>15. CASE Fail(w)
  BY <1>15, GuardedEnd DEF Fail
<1>16. QED
  BY <1>1, <1>2, <1>3, <1>4, <1>5, <1>6, <1>7, <1>8, <1>9, <1>10, <1>11, <1>12,
     <1>13, <1>14, <1>15 DEF Step

\* A late PUT that takes effect is the live one: the tag moves past its digest.
LEMMA DeliverGuarded ==
  ASSUME TypeOK, TypeOK', Guarded, NEW r \in late, Deliver(r)
  PROVE Guarded'
<1> USE DEF registry, procVars, runVars, putVars, retryVars
<1>1. r.man \in Manifests /\ r.ifm \in Nat /\ tag \in Manifests /\ tag.digest \in Nat /\ clock \in Nat
  BY DEF TypeOK, Requests, Guarded, Manifests
<1>2. Fits(tag, clock, r.by, r.ifm, r.man)
  BY DEF Guarded
<1>3. late' \subseteq late /\ UNCHANGED <<clock, pc, new, todo, base, man, ifm>>
  BY DEF Deliver
<1>4. CASE tag' = tag
  BY <1>3, <1>4 DEF Guarded, RunConsistent
<1>5. CASE tag' # tag
  <2>1. IfMatchHolds(r.ifm) /\ tag' = r.man
    BY <1>5 DEF Deliver
  <2>2. tag.digest < tag'.digest /\ tag'.digest <= clock'
    BY <1>2, <1>3, <2>1 DEF Fits, IfMatchHolds
  <2>3. TagAdvances
    BY <1>1, <1>3, <2>1, <2>2, SentinelAssumption DEF TagAdvances
  <2>4. \A v \in Writers : RunConsistent(v)'
    BY <1>3, <2>3, BystanderConsistent
  <2>5. \A q \in late' : Fits(tag', clock', q.by, q.ifm, q.man) /\ (pc'[q.by] = "done" => q.ifm < tag'.digest)
    BY <1>3, <2>3, LateFits
  <2>6. QED
    BY <2>2, <2>3, <2>4, <2>5 DEF Guarded, TagAdvances
<1>6. QED
  BY <1>4, <1>5

\* Every step of the registry keeps the invariant.
LEMMA EnvironmentGuarded ==
  ASSUME TypeOK, TypeOK', Guarded, Environment
  PROVE Guarded'
<1> USE DEF registry, procVars, runVars, putVars, retryVars
<1>1. ASSUME NEW b \in lagging, Settle(b) PROVE Guarded'
  BY <1>1, GuardedUntouched DEF Settle
<1>2. ASSUME NEW b \in visible \cup lagging, Lose(b) PROVE Guarded'
  BY <1>2, GuardedUntouched DEF Lose
<1>3. ASSUME NEW r \in late, Deliver(r) PROVE Guarded'
  BY <1>3, DeliverGuarded
<1>4. ASSUME NEW s \in stray, StrayPut(s) \/ StrayRecord(s) PROVE Guarded'
  BY <1>4, GuardedUntouched DEF StrayPut, StrayRecord
<1>5. QED
  BY <1>1, <1>2, <1>3, <1>4 DEF Environment

\* The invariant holds at first, if the revision exists.
LEMMA InitGuarded == TagExists /\ Init => Guarded
<1> SUFFICES ASSUME TagExists, Init PROVE Guarded
  OBVIOUS
<1>1. tag \in Manifests /\ tag.digest = 1
  BY JobAssumption DEF Init, Manifests, NoDigest
<1>2. tag # NoManifest
  BY <1>1, SentinelAssumption
<1>3. \A w \in Writers : RunConsistent(w)
  BY DEF Init, RunConsistent, EmptyFiles
<1>4. QED
  BY <1>1, <1>2, <1>3 DEF Init, Guarded

(***************************************************************************)
(* When the revision exists and the registry names the digest it serves,   *)
(* every manifest PUT an upload ever sent is dead or an exact edit of what *)
(* the tag names now, for any number of uploads, retries, late deliveries, *)
(* lost blobs and token refreshes.                                         *)
(***************************************************************************)
THEOREM AlwaysGuarded ==
  ASSUME TagExists, DigestHeader
  PROVE Spec => []Guarded
<1>1. TypeOK /\ TypeOK' /\ Guarded /\ [Next]_vars => Guarded'
  <2> SUFFICES ASSUME TypeOK, TypeOK', Guarded, [Next]_vars PROVE Guarded'
    OBVIOUS
  <2>1. ASSUME NEW w \in Writers, Step(w) PROVE Guarded'
    BY <2>1, StepGuarded
  <2>2. CASE Environment
    BY <2>2, EnvironmentGuarded
  <2>3. CASE UNCHANGED vars
    BY <2>3, GuardedUntouched DEF vars, registry, runVars, putVars
  <2>4. QED
    BY <2>1, <2>2, <2>3 DEF Next, AllEnded
<1>2. Init => Guarded
  BY InitGuarded
<1>3. QED
  BY <1>1, <1>2, TypeCorrect, PTL DEF Spec

-----------------------------------------------------------------------------
(* Refinement.                                                             *)

\* An upload that returns or raises changes its own outcome and no other.
LEMMA OutcomesExcept ==
  ASSUME TypeOK, NEW w \in Writers, NEW how, pc' = [pc EXCEPT ![w] = how]
  PROVE Outcomes' = [Outcomes EXCEPT ![w] = Outcome(how)]
<1>1. \A v \in Writers : pc'[v] = IF v = w THEN how ELSE pc[v]
  BY DEF TypeOK
<1>2. /\ Outcomes' = [v \in Writers |-> Outcome(pc'[v])]
      /\ Outcomes = [v \in Writers |-> Outcome(pc[v])]
  BY DEF Outcomes
<1>3. \A v \in Writers : Outcome(pc'[v]) = IF v = w THEN Outcome(how) ELSE Outcome(pc[v])
  BY <1>1
<1>4. QED
  BY <1>2, <1>3

\* A step that moves an upload within its run changes no outcome.
LEMMA OutcomesWithin ==
  ASSUME TypeOK, NEW w \in Writers, pc[w] \in Active, NEW where \in Active,
         pc' = [pc EXCEPT ![w] = where]
  PROVE Outcomes' = Outcomes
<1>1. \A v \in Writers : Outcome(pc'[v]) = Outcome(pc[v])
  BY DEF TypeOK, Outcome, Active
<1>2. QED
  BY <1>1 DEF Outcomes

\* An upload that raises without a PUT gives up.
LEMMA EndGivesUp ==
  ASSUME TypeOK, NEW w \in Writers, pc[w] \in Active,
         End(w, "failed") \/ End(w, "conflict"), tag' = tag
  PROVE Rev!GiveUp(w)
<1>1. PICK how \in {"failed", "conflict"} : pc' = [pc EXCEPT ![w] = how]
  BY DEF End
<1>2. Outcome(how) = "error" /\ Outcome(pc[w]) = "pending"
  BY <1>1 DEF Outcome, Active
<1>3. Outcomes' = [Outcomes EXCEPT ![w] = "error"]
  BY <1>1, <1>2, OutcomesExcept
<1>4. Outcomes[w] = "pending" /\ TagContent' = TagContent
  BY <1>2 DEF Outcomes, TagContent
<1>5. QED
  BY <1>3, <1>4 DEF Rev!GiveUp

\* Every step of an upload is an abstract step or a stutter.
LEMMA StepRefines ==
  ASSUME TypeOK, Guarded, NEW w \in Writers, Step(w)
  PROVE Rev!GiveUp(w) \/ Rev!Commit(w) \/ UNCHANGED <<TagContent, Outcomes>>
<1> USE DEF registry, procVars, runVars, putVars, retryVars
<1>0. tag \in Manifests /\ tag.digest \in Nat /\ FilesOf(tag) = tag.files /\ tag # NoManifest
  BY DEF TypeOK, Guarded, Manifests, FilesOf
<1>1. CASE UNCHANGED <<tag, pc>>
  BY <1>1 DEF TagContent, Outcomes
<1>2. ASSUME pc[w] \in Active, NEW where \in Active, pc' = [pc EXCEPT ![w] = where], tag' = tag
      PROVE UNCHANGED <<TagContent, Outcomes>>
  BY <1>2, OutcomesWithin DEF TagContent
<1>3. CASE Fetch(w) \/ Finalize(w) \/ Assemble(w)
  BY <1>2, <1>3 DEF Fetch, Finalize, Assemble, AssembleWith, Active
<1>4. ASSUME NEW t \in Titles, UploadPack(w, t) \/ UploadFile(w, t)
      PROVE Rev!GiveUp(w) \/ Rev!Commit(w) \/ UNCHANGED <<TagContent, Outcomes>>
  <2>1. pc[w] \in Active /\ tag' = tag
    BY <1>4 DEF UploadPack, UploadFile, Active
  <2>2. pc' = pc \/ End(w, "failed")
    BY <1>4 DEF UploadPack, UploadFile
  <2>3. QED
    BY <1>1, <2>1, <2>2, EndGivesUp
<1>5. CASE ConfigCached(w) \/ ConfigPut(w) \/ ConfigRecord(w) \/ PutUnknown(w)
  BY <1>1, <1>5 DEF ConfigCached, ConfigPut, ConfigRecord, PutUnknown
<1>6. CASE PutOk(w)
  <2>1. /\ pc[w] = "put" /\ IfMatchHolds(ifm[w]) /\ tag' = man[w]
        /\ pc' = [pc EXCEPT ![w] = "done"]
    BY <1>6 DEF PutOk, End
  <2>2. Fits(tag, clock, w, ifm[w], man[w]) /\ man[w] \in Manifests /\ man[w] # NoManifest
    BY <2>1 DEF Guarded, RunConsistent, TypeOK
  <2>3. ifm[w] = tag.digest
    BY <2>1, <2>2 DEF Fits, IfMatchHolds
  <2>4. TagContent' = Rev!Apply(w, TagContent)
    BY <1>0, <2>1, <2>2, <2>3 DEF Fits, TagContent, FilesOf
  <2>5. Outcomes' = [Outcomes EXCEPT ![w] = "ok"]
    <3>1. Outcome("done") = "ok"
      BY DEF Outcome
    <3>2. QED
      BY <2>1, <3>1, OutcomesExcept
  <2>6. Outcomes[w] = "pending"
    BY <2>1 DEF Outcomes, Outcome, Active
  <2>7. QED
    BY <2>4, <2>5, <2>6 DEF Rev!Commit
<1>7. CASE PutConflict(w)
  BY <1>7, EndGivesUp DEF PutConflict, Active
<1>8. CASE PutTimeout(w)
  BY <1>1, <1>8, EndGivesUp DEF PutTimeout, Active
<1>9. CASE PutLost(w)
  <2>1. pc[w] \in Active /\ tag' = tag /\ "fetch" \in Active
    BY <1>9 DEF PutLost, Active
  <2>2. pc' = [pc EXCEPT ![w] = "fetch"] \/ End(w, "failed")
    BY <1>9 DEF PutLost
  <2>3. QED
    BY <1>2, <2>1, <2>2, EndGivesUp
<1>10. CASE TokenExpired(w)
  <2>1. pc[w] \in Active /\ tag' = tag /\ "fetch" \in Active
    BY <1>10 DEF TokenExpired, Active
  <2>2. pc' = [pc EXCEPT ![w] = "fetch"] \/ End(w, "failed")
    BY <1>10 DEF TokenExpired
  <2>3. QED
    BY <1>2, <2>1, <2>2, EndGivesUp
<1>11. CASE Fail(w)
  BY <1>11, EndGivesUp DEF Fail
<1>12. QED
  BY <1>3, <1>4, <1>5, <1>6, <1>7, <1>8, <1>9, <1>10, <1>11 DEF Step

\* A late PUT is a commit of an upload that has not returned, or nothing.
LEMMA DeliverRefines ==
  ASSUME TypeOK, Guarded, NEW r \in late, Deliver(r)
  PROVE Rev!Commit(r.by) \/ UNCHANGED <<TagContent, Outcomes>>
<1>0. /\ tag \in Manifests /\ tag.digest \in Nat /\ FilesOf(tag) = tag.files /\ tag # NoManifest
      /\ r.man \in Manifests /\ r.ifm \in Nat /\ r.by \in Writers /\ r.man # NoManifest
  BY SentinelAssumption DEF TypeOK, Guarded, Manifests, FilesOf, Requests
<1>1. pc' = pc
  BY DEF Deliver
<1>2. CASE tag' = tag
  BY <1>1, <1>2 DEF TagContent, Outcomes
<1>3. CASE tag' # tag
  <2>1. IfMatchHolds(r.ifm) /\ tag' = r.man
    BY <1>3 DEF Deliver
  <2>2. Fits(tag, clock, r.by, r.ifm, r.man) /\ (pc[r.by] = "done" => r.ifm < tag.digest)
    BY DEF Guarded
  <2>3. r.ifm = tag.digest
    BY <2>1, <2>2 DEF Fits, IfMatchHolds
  <2>4. TagContent' = Rev!Apply(r.by, TagContent)
    BY <1>0, <2>1, <2>2, <2>3 DEF Fits, TagContent, FilesOf
  <2>5. pc[r.by] # "done"
    BY <1>0, <2>2, <2>3
  <2>6. Outcomes[r.by] # "ok" /\ Outcomes' = Outcomes
    BY <1>0, <1>1, <2>5 DEF Outcomes, Outcome
  <2>7. QED
    BY <2>4, <2>6 DEF Rev!Commit
<1>4. QED
  BY <1>2, <1>3

\* Every step of the system is an abstract step or a stutter.
LEMMA NextRefines ==
  TypeOK /\ Guarded /\ [Next]_vars => [Rev!Next]_<<TagContent, Outcomes>>
<1> SUFFICES ASSUME TypeOK, Guarded, [Next]_vars
             PROVE Rev!Next \/ UNCHANGED <<TagContent, Outcomes>>
  OBVIOUS
<1>1. ASSUME NEW w \in Writers, Step(w) PROVE Rev!Next \/ UNCHANGED <<TagContent, Outcomes>>
  BY <1>1, StepRefines DEF Rev!Next
<1>2. ASSUME NEW r \in late, Deliver(r) PROVE Rev!Next \/ UNCHANGED <<TagContent, Outcomes>>
  <2>1. r.by \in Writers
    BY DEF TypeOK, Requests
  <2>2. QED
    BY <1>2, <2>1, DeliverRefines DEF Rev!Next
<1>3. CASE UNCHANGED <<tag, pc>>
  BY <1>3 DEF TagContent, Outcomes
<1>4. CASE Environment
  BY <1>2, <1>3, <1>4 DEF Environment, Settle, Lose, StrayPut, StrayRecord, registry
<1>5. CASE UNCHANGED vars
  BY <1>3, <1>5 DEF vars, registry
<1>6. QED
  BY <1>1, <1>4, <1>5 DEF Next, AllEnded

(***************************************************************************)
(* The commit protocol implements Revision when the revision exists and    *)
(* the registry names the digest it serves: no retry, timeout, late PUT,   *)
(* re-upload or token refresh makes an upload do anything but its one      *)
(* atomic edit, and none after it returned.                                *)
(***************************************************************************)
THEOREM CommitsAreAtomic ==
  ASSUME TagExists, DigestHeader
  PROVE Spec => Atomic
<1>1. Init => Rev!Init
  <2> SUFFICES ASSUME Init PROVE Rev!Init
    OBVIOUS
  <2>1. TagContent \in [Titles -> Contents \cup {NoFile}]
    <3>1. FilesOf(tag) \in FileMaps
      BY InitType, FilesOfType DEF TypeOK
    <3>2. QED
      BY <3>1 DEF TagContent, ContentOf, FileMaps, Groups
  <2>2. Outcomes = [w \in Writers |-> "pending"]
    BY DEF Init, Outcomes, Outcome, Active
  <2>3. QED
    BY <2>1, <2>2 DEF Rev!Init
<1>2. QED
  BY <1>1, NextRefines, TypeCorrect, AlwaysGuarded, PTL DEF Spec, Atomic, Rev!Spec

\* An abstract step keeps the acknowledged files in place.
LEMMA AckedStep ==
  ASSUME TypeOK, TypeOK', AckedFilesStay, [Rev!Next]_<<TagContent, Outcomes>>
  PROVE AckedFilesStay'
<1>1. /\ \A w \in Writers : (Outcomes[w] = "ok") <=> (pc[w] = "done")
      /\ \A w \in Writers : (Outcomes'[w] = "ok") <=> (pc'[w] = "done")
  BY DEF Outcomes, Outcome
<1>2. SUFFICES ASSUME NEW w \in Writers, pc'[w] = "done", NEW t \in OwnTitles(w),
                      \A v \in Writers \ {w} : t \notin OwnTitles(v) \cup Deletes[v]
               PROVE TagContent'[t] = Files[w][t]
  BY DEF AckedFilesStay
<1>3. t \in Titles /\ Files[w][t] # NoFile
  BY DEF OwnTitles
<1>4. CASE UNCHANGED <<TagContent, Outcomes>>
  BY <1>1, <1>2, <1>4 DEF AckedFilesStay
<1>5. ASSUME NEW v \in Writers, Rev!Commit(v) PROVE TagContent'[t] = Files[w][t]
  <2>1. TagContent' = Rev!Apply(v, TagContent)
    BY <1>5 DEF Rev!Commit
  <2>2. CASE v = w
    BY <1>3, <2>1, <2>2 DEF Rev!Apply
  <2>3. CASE v # w
    <3>1. Outcomes'[w] = Outcomes[w]
      BY <1>5, <2>3 DEF Rev!Commit, Outcomes
    <3>2. TagContent[t] = Files[w][t]
      BY <1>1, <1>2, <3>1 DEF AckedFilesStay
    <3>3. Files[v][t] = NoFile /\ t \notin Deletes[v]
      BY <1>2, <1>3, <2>3 DEF OwnTitles
    <3>4. QED
      BY <1>3, <2>1, <3>2, <3>3 DEF Rev!Apply
  <2>4. QED
    BY <2>2, <2>3
<1>6. ASSUME NEW v \in Writers, Rev!GiveUp(v) PROVE TagContent'[t] = Files[w][t]
  <2>1. TagContent' = TagContent /\ Outcomes' = [Outcomes EXCEPT ![v] = "error"]
    BY <1>6 DEF Rev!GiveUp
  <2>2. Outcomes'[w] = "ok" => Outcomes[w] = "ok"
    BY <2>1 DEF Outcomes
  <2>3. QED
    BY <1>1, <1>2, <2>1, <2>2 DEF AckedFilesStay
<1>7. QED
  BY <1>4, <1>5, <1>6 DEF Rev!Next

(***************************************************************************)
(* No lost update, for any number of uploads: once upload_file or          *)
(* upload_folder has returned, its files stay in the revision until some   *)
(* other upload writes or deletes those titles.                            *)
(***************************************************************************)
THEOREM NoLostUpdate ==
  ASSUME TagExists, DigestHeader
  PROVE Spec => []AckedFilesStay
<1>1. Init => AckedFilesStay
  BY DEF Init, AckedFilesStay
<1>2. TypeOK /\ TypeOK' /\ Guarded /\ AckedFilesStay /\ [Next]_vars => AckedFilesStay'
  BY NextRefines, AckedStep
<1>3. QED
  BY <1>1, <1>2, TypeCorrect, AlwaysGuarded, PTL DEF Spec

-----------------------------------------------------------------------------
(* Every manifest can be put together from its own layers.                 *)

\* The manifest the tag holds at first was written by such an upload too.
InitClosed == TagExists => Closed(InitFiles)

GroupClosed(g) ==
  /\ DOMAIN g.where = ChunksOf[g.content]
  /\ PacksIn(g.where) \subseteq g.packs
  /\ \A c \in DOMAIN g.where : c \in g.where[c][2]

RunClosed(w) ==
  /\ Closed(FilesOf(prior[w])) /\ Closed(FilesOf(base[w]))
  /\ Closed(new[w]) /\ Closed(FilesOf(man[w]))

\* The inductive invariant of GroupsClosed: whatever an upload has read, built
\* or left on its way is closed.
AllClosed ==
  /\ Closed(FilesOf(tag))
  /\ \A w \in Writers : RunClosed(w)
  /\ \A r \in late : Closed(FilesOf(r.man))

LEMMA ClosedGroups ==
  ASSUME NEW files
  PROVE  Closed(files) <=> \A t \in Titles : files[t] # NoFile => GroupClosed(files[t])
BY DEF Closed, GroupClosed, Present

LEMMA EmptyClosed == Closed(EmptyFiles) /\ Closed(FilesOf(NoManifest))
BY DEF Closed, Present, EmptyFiles, FilesOf

LEMMA MergeClosed ==
  ASSUME NEW existing, NEW added, NEW deleted, Closed(existing), Closed(added)
  PROVE  Closed(MergeLayers(existing, added, deleted))
BY ClosedGroups DEF MergeLayers

\* What feed() reuses is a pack that holds the chunk, among the file's packs.
LEMMA HoldersClosed ==
  ASSUME NEW m, Closed(FilesOf(m)), NEW lost, NEW c, NEW p \in Holders(m, lost, c)
  PROVE  /\ c \in p[2] /\ p \notin lost
         /\ \E t \in Present(FilesOf(m)) : p \in FilesOf(m)[t].packs
<1>1. PICK t \in Chunked(FilesOf(m)) :
        c \in DOMAIN FilesOf(m)[t].where /\ p = FilesOf(m)[t].where[c] /\ p \notin lost
  BY DEF Holders
<1>2. t \in Present(FilesOf(m))
  BY DEF Chunked
<1>3. p \in PacksIn(FilesOf(m)[t].where)
  BY <1>1 DEF PacksIn
<1>4. QED
  BY <1>1, <1>2, <1>3 DEF Closed

\* The layers of a file: the new chunks in the fresh pack, the others reused.
LEMMA FileLayersClosed ==
  ASSUME NEW w \in Writers, NEW t, NEW g \in FileLayers(w, t), Closed(FilesOf(prior[w]))
  PROVE  /\ GroupClosed(g) /\ g.packs = PacksIn(g.where)
         /\ \A p \in g.packs :
              \/ p = Pack(FreshOf(w, t)) /\ FreshOf(w, t) # {}
              \/ p \notin Excluded(w) /\ \E u \in Present(FilesOf(prior[w])) :
                                            p \in FilesOf(prior[w])[u].packs
<1> DEFINE chunks == ChunksOf[Files[w][t]]
<1>1. PICK loc \in Locations(prior[w], Excluded(w), chunks) :
        g = [content |-> Files[w][t], where |-> loc, packs |-> PacksIn(loc)]
  BY DEF FileLayers
<1>2. DOMAIN loc = chunks
  BY DEF Locations
<1>3. ASSUME NEW c \in chunks
      PROVE  \/ c \in FreshOf(w, t) /\ loc[c] = Pack(FreshOf(w, t))
             \/ loc[c] \in Holders(prior[w], Excluded(w), c)
  BY DEF Locations, FreshOf
<1>4. ASSUME NEW c \in chunks PROVE c \in loc[c][2]
  <2>1. CASE c \in FreshOf(w, t) /\ loc[c] = Pack(FreshOf(w, t))
    BY <2>1 DEF Pack
  <2>2. CASE loc[c] \in Holders(prior[w], Excluded(w), c)
    BY <2>2, HoldersClosed
  <2>3. QED
    BY <1>3, <2>1, <2>2
<1>5. GroupClosed(g) /\ g.packs = PacksIn(g.where)
  BY <1>1, <1>2, <1>4 DEF GroupClosed
<1>6. ASSUME NEW p \in g.packs
      PROVE  \/ p = Pack(FreshOf(w, t)) /\ FreshOf(w, t) # {}
             \/ p \notin Excluded(w) /\ \E u \in Present(FilesOf(prior[w])) :
                                           p \in FilesOf(prior[w])[u].packs
  <2>1. PICK c \in chunks : p = loc[c]
    BY <1>1, <1>2 DEF PacksIn
  <2>2. QED
    BY <1>3, <2>1, HoldersClosed
<1>7. QED
  BY <1>5, <1>6

\* A run that ends leaves nothing behind.
LEMMA UnwindClosed ==
  ASSUME TypeOK, AllClosed, NEW w \in Writers, Unwind(w)
  PROVE  (\A v \in Writers : RunClosed(v))'
BY EmptyClosed DEF TypeOK, AllClosed, RunClosed, Unwind

LEMMA StepClosed ==
  ASSUME TypeOK, AllClosed, NEW w \in Writers, Step(w)
  PROVE  AllClosed'
<1> USE DEF registry, procVars, runVars, putVars, retryVars
<1>1. CASE Fetch(w)
  BY <1>1, EmptyClosed DEF Fetch, TypeOK, AllClosed, RunClosed
<1>2. ASSUME NEW t \in Titles, UploadPack(w, t) PROVE AllClosed'
  BY <1>2 DEF UploadPack, AllClosed, RunClosed
<1>3. ASSUME NEW t \in Titles, UploadFile(w, t) PROVE AllClosed'
  <2>1. UNCHANGED <<tag, late>>
    BY <1>3 DEF UploadFile
  <2>2. PICK g \in FileLayers(w, t) :
          \/ new' = [new EXCEPT ![w][t] = g] /\ UNCHANGED <<prior, base, man>>
          \/ End(w, "failed")
    BY <1>3 DEF UploadFile
  <2>3. CASE End(w, "failed")
    BY <2>1, <2>3, UnwindClosed DEF End, AllClosed
  <2>4. CASE new' = [new EXCEPT ![w][t] = g] /\ UNCHANGED <<prior, base, man>>
    <3>1. GroupClosed(g)
      BY FileLayersClosed DEF AllClosed, RunClosed
    <3>2. Closed(new[w]) /\ new[w] \in FileMaps
      BY DEF AllClosed, RunClosed, TypeOK
    <3>3. Closed(new'[w])
      BY <2>4, <3>1, <3>2, ClosedGroups DEF TypeOK, FileMaps
    <3>4. QED
      BY <2>1, <2>4, <3>3 DEF AllClosed, RunClosed, TypeOK
  <2>5. QED
    BY <2>2, <2>3, <2>4
<1>4. CASE Finalize(w)
  BY <1>4 DEF Finalize, TypeOK, AllClosed, RunClosed
<1>5. CASE ConfigCached(w) \/ ConfigPut(w) \/ ConfigRecord(w)
  BY <1>5 DEF ConfigCached, ConfigPut, ConfigRecord, AllClosed, RunClosed
<1>6. CASE Assemble(w)
  <2> DEFINE merged == MergeLayers(FilesOf(base[w]), new[w], Deletes[w])
             m == [digest |-> clock + 1, files |-> merged]
  <2>1. Closed(merged)
    BY MergeClosed DEF AllClosed, RunClosed
  <2>2. Closed(FilesOf(m))
    BY <2>1, EmptyClosed DEF FilesOf
  <2>3. man' = [man EXCEPT ![w] = m] /\ UNCHANGED <<tag, late, prior, base, new>>
    BY <1>6 DEF Assemble, AssembleWith
  <2>4. QED
    BY <2>2, <2>3 DEF AllClosed, RunClosed, TypeOK
<1>7. CASE PutOk(w)
  BY <1>7, UnwindClosed DEF PutOk, End, AllClosed, RunClosed
<1>8. CASE PutTimeout(w)
  <2>1. tag' = tag /\ late' = late \cup {[by |-> w, ifm |-> ifm[w], man |-> man[w]]}
    BY <1>8 DEF PutTimeout
  <2>2. \A r \in late' : Closed(FilesOf(r.man))
    BY <2>1 DEF AllClosed, RunClosed
  <2>3. (\A v \in Writers : RunClosed(v))'
    BY <1>8, UnwindClosed DEF PutTimeout, End, AllClosed, RunClosed
  <2>4. QED
    BY <2>1, <2>2, <2>3 DEF AllClosed
<1>9. CASE PutUnknown(w)
  BY <1>9 DEF PutUnknown, AllClosed, RunClosed
<1>10. CASE PutConflict(w) \/ PutLost(w) \/ TokenExpired(w) \/ Fail(w)
  BY <1>10, UnwindClosed DEF PutConflict, PutLost, TokenExpired, Fail, End, AllClosed
<1>11. QED
  BY <1>1, <1>2, <1>3, <1>4, <1>5, <1>6, <1>7, <1>8, <1>9, <1>10 DEF Step

LEMMA NextClosed ==
  ASSUME TypeOK, AllClosed, [Next]_vars
  PROVE  AllClosed'
<1> USE DEF registry, procVars, runVars, putVars, retryVars
<1>1. CASE Environment
  <2>1. ASSUME NEW r \in late, Deliver(r) PROVE AllClosed'
    BY <2>1 DEF Deliver, AllClosed, RunClosed
  <2>2. CASE \/ \E b : Settle(b) \/ Lose(b)
             \/ \E s : StrayPut(s) \/ StrayRecord(s)
    BY <2>2 DEF Settle, Lose, StrayPut, StrayRecord, AllClosed, RunClosed
  <2>3. QED
    BY <1>1, <2>1, <2>2 DEF Environment
<1>2. CASE UNCHANGED vars
  BY <1>2 DEF vars, AllClosed, RunClosed
<1>3. QED
  BY <1>1, <1>2, StepClosed DEF Next, AllEnded

LEMMA InitAllClosed ==
  ASSUME InitClosed, Init
  PROVE  AllClosed
<1>1. Closed(FilesOf(tag))
  BY EmptyClosed DEF Init, InitClosed, FilesOf
<1>2. QED
  BY <1>1, EmptyClosed DEF Init, AllClosed, RunClosed

(***************************************************************************)
(* Every file of the revision, and of every manifest an upload builds, can *)
(* be put together from that manifest, for any uploads, retries and losses *)
(* (_upload_file_chunked_v2, _merge_layers), if this held at first.        *)
(***************************************************************************)
THEOREM ManifestsAreClosed ==
  ASSUME InitClosed
  PROVE  Spec => []GroupsClosed
<1>1. Init => AllClosed
  BY InitAllClosed
<1>2. TypeOK /\ AllClosed /\ [Next]_vars => AllClosed'
  BY NextClosed
<1>3. AllClosed => GroupsClosed
  BY DEF AllClosed, RunClosed, GroupsClosed
<1>4. QED
  BY <1>1, <1>2, <1>3, TypeCorrect, PTL DEF Spec

-----------------------------------------------------------------------------
(* A re-run avoids the packs the registry named as lost.                   *)

\* The files an upload has finished avoid them, or put them again; a file is
\* still to do, or finished.
RunHeals(w) ==
  /\ \A t \in Titles : new[w][t] # NoFile =>
       \A p \in new[w][t].packs \cap excl[w] : <<t, p>> \in sent[w]
  /\ pc[w] \in {"upload", "finalize", "put"} =>
       \A t \in OwnTitles(w) : t \in todo[w] \/ new[w][t] # NoFile
  /\ pc[w] = "put" => todo[w] = {}

\* The inductive invariant of ExclusionHeals.
Heals == DOMAIN excl = Writers /\ \A w \in Writers : RunHeals(w)

\* The pack of a chunk is the fresh one, or one that the index still offers.
LEMMA FileLayersAvoid ==
  ASSUME NEW w \in Writers, NEW t, NEW g \in FileLayers(w, t), NEW p \in g.packs
  PROVE  p \in Excluded(w) => p = Pack(FreshOf(w, t)) /\ FreshOf(w, t) # {}
<1> DEFINE chunks == ChunksOf[Files[w][t]]
<1>1. PICK loc \in Locations(prior[w], Excluded(w), chunks) :
        g = [content |-> Files[w][t], where |-> loc, packs |-> PacksIn(loc)]
  BY DEF FileLayers
<1>2. PICK c \in chunks : p = loc[c]
  BY <1>1 DEF Locations, PacksIn
<1>3. \/ c \in FreshOf(w, t) /\ loc[c] = Pack(FreshOf(w, t))
      \/ loc[c] \in Holders(prior[w], Excluded(w), c)
  BY DEF Locations, FreshOf
<1>4. QED
  BY <1>2, <1>3 DEF Holders

\* A run that ends, or is about to start over, has finished no file.
LEMMA UnwindHeals ==
  ASSUME TypeOK, Heals, NEW w \in Writers, Unwind(w), DOMAIN excl' = Writers,
         \A v \in Writers \ {w} : pc'[v] = pc[v] /\ excl'[v] = excl[v],
         pc'[w] \notin {"upload", "finalize", "put"}
  PROVE  Heals'
<1>1. RunHeals(w)'
  <2>1. new'[w] = EmptyFiles
    BY DEF Unwind, TypeOK
  <2>2. QED
    BY <2>1 DEF RunHeals, EmptyFiles
<1>2. ASSUME NEW v \in Writers \ {w} PROVE RunHeals(v)'
  BY DEF Heals, RunHeals, Unwind, TypeOK
<1>3. QED
  BY <1>1, <1>2 DEF Heals

LEMMA EndHeals ==
  ASSUME TypeOK, Heals, NEW w \in Writers, NEW how \in Ended, End(w, how)
  PROVE  Heals'
<1>1. pc'[w] = how /\ how \notin {"upload", "finalize", "put"}
  BY DEF End, TypeOK, Ended
<1>2. DOMAIN excl' = Writers
  BY DEF End, Heals
<1>3. \A v \in Writers \ {w} : pc'[v] = pc[v] /\ excl'[v] = excl[v]
  BY DEF End, Heals, TypeOK
<1>4. QED
  BY <1>1, <1>2, <1>3, UnwindHeals DEF End

LEMMA StepHeals ==
  ASSUME TypeOK, Heals, NEW w \in Writers, Step(w)
  PROVE  Heals'
<1> USE DEF registry, procVars, runVars, putVars, retryVars
<1>1. CASE Fetch(w)
  BY <1>1 DEF Fetch, TypeOK, Heals, RunHeals
<1>2. ASSUME NEW t \in Titles, UploadPack(w, t) PROVE Heals'
  BY <1>2 DEF UploadPack, TypeOK, Heals, RunHeals
<1>3. ASSUME NEW t \in Titles, UploadFile(w, t) PROVE Heals'
  <2>1. PICK g \in FileLayers(w, t) :
          \/ /\ new' = [new EXCEPT ![w][t] = g]
             /\ todo' = [todo EXCEPT ![w] = @ \ {t}]
             /\ UNCHANGED <<pc, sent, excl>>
          \/ End(w, "failed")
    BY <1>3 DEF UploadFile
  <2>2. CASE End(w, "failed")
    BY <2>2, EndHeals DEF Ended
  <2>3. CASE /\ new' = [new EXCEPT ![w][t] = g]
             /\ todo' = [todo EXCEPT ![w] = @ \ {t}]
             /\ UNCHANGED <<pc, sent, excl>>
    <3>1. \A p \in g.packs \cap excl[w] : <<t, p>> \in sent[w]
      BY <1>3, FileLayersAvoid DEF UploadFile, Excluded
    <3>2. /\ new'[w][t] = g
          /\ \A u \in Titles \ {t} : new'[w][u] = new[w][u]
          /\ \A v \in Writers \ {w} : new'[v] = new[v]
      BY <2>3 DEF TypeOK, FileMaps
    <3>3. g # NoFile
      <4>1. t \in OwnTitles(w)
        BY <1>3 DEF UploadFile, TypeOK
      <4>2. QED
        BY <4>1, FileLayersType, SentinelAssumption DEF TypeOK
    <3>4. RunHeals(w)'
      <4>1. todo'[w] = todo[w] \ {t} /\ pc[w] = "upload"
        BY <1>3, <2>3 DEF TypeOK, UploadFile
      <4>2. QED
        BY <2>3, <3>1, <3>2, <3>3, <4>1 DEF Heals, RunHeals
    <3>5. ASSUME NEW v \in Writers \ {w} PROVE RunHeals(v)'
      BY <2>3, <3>2 DEF Heals, RunHeals, TypeOK
    <3>6. QED
      BY <2>3, <3>4, <3>5 DEF Heals
  <2>4. QED
    BY <2>1, <2>2, <2>3
<1>4. CASE Finalize(w)
  BY <1>4 DEF Finalize, TypeOK, Heals, RunHeals
<1>5. CASE ConfigCached(w) \/ ConfigPut(w) \/ ConfigRecord(w) \/ PutUnknown(w)
  BY <1>5 DEF ConfigCached, ConfigPut, ConfigRecord, PutUnknown, Heals, RunHeals
<1>6. CASE Assemble(w)
  BY <1>6 DEF Assemble, AssembleWith, TypeOK, Heals, RunHeals
<1>7. CASE PutOk(w) \/ PutConflict(w) \/ Fail(w)
  BY <1>7, EndHeals DEF PutOk, PutConflict, Fail, Ended
<1>8. CASE PutTimeout(w)
  <2>1. CASE att[w] < PutRetries
    BY <1>8, <2>1 DEF PutTimeout, Heals, RunHeals
  <2>2. QED
    BY <1>8, <2>1, EndHeals DEF PutTimeout, Ended
<1>9. CASE PutLost(w)
  <2>1. CASE heal[w] < HealRetries
    <3>1. PICK named \in {Missing(man[w]), {}} : excl' = [excl EXCEPT ![w] = @ \cup named]
      BY <1>9, <2>1 DEF PutLost
    <3>2. DOMAIN excl' = Writers /\ \A v \in Writers \ {w} : excl'[v] = excl[v]
      BY <3>1 DEF Heals
    <3>3. pc'[w] = "fetch" /\ \A v \in Writers \ {w} : pc'[v] = pc[v]
      BY <1>9, <2>1 DEF PutLost, TypeOK
    <3>4. QED
      BY <1>9, <2>1, <3>2, <3>3, UnwindHeals DEF PutLost
  <2>2. QED
    BY <1>9, <2>1, EndHeals DEF PutLost, Ended
<1>10. CASE TokenExpired(w)
  <2>1. CASE refreshed[w]
    BY <1>10, <2>1, EndHeals DEF TokenExpired, Ended
  <2>2. CASE ~refreshed[w]
    <3>1. pc'[w] = "fetch" /\ \A v \in Writers \ {w} : pc'[v] = pc[v]
      BY <1>10, <2>2 DEF TokenExpired, TypeOK
    <3>2. QED
      BY <1>10, <2>2, <3>1, UnwindHeals DEF TokenExpired, Heals
  <2>3. QED
    BY <2>1, <2>2
<1>11. QED
  BY <1>1, <1>2, <1>3, <1>4, <1>5, <1>6, <1>7, <1>8, <1>9, <1>10 DEF Step

(***************************************************************************)
(* An upload that runs again does not build on a pack the registry named   *)
(* as lost, for any uploads and losses: its own files reference such a     *)
(* pack only when this run has put it (exclude_packs).                     *)
(***************************************************************************)
THEOREM RerunsHeal == Spec => []ExclusionHeals
<1>1. Init => Heals
  BY DEF Init, Heals, RunHeals, EmptyFiles
<1>2. TypeOK /\ Heals /\ [Next]_vars => Heals'
  <2> SUFFICES ASSUME TypeOK, Heals, [Next]_vars PROVE Heals'
    OBVIOUS
  <2>1. CASE Environment \/ UNCHANGED vars
    BY <2>1 DEF Environment, Settle, Lose, Deliver, StrayPut, StrayRecord, vars, registry,
       procVars, runVars, putVars, retryVars, Heals, RunHeals
  <2>2. QED
    BY <2>1, StepHeals DEF Next, AllEnded
<1>3. Heals => ExclusionHeals
  <2> SUFFICES ASSUME Heals, NEW w \in Writers, pc[w] = "put", NEW t \in OwnTitles(w),
                      NEW p \in new[w][t].packs \cap excl[w]
               PROVE  <<t, p>> \in sent[w]
    BY DEF ExclusionHeals
  <2>1. t \in Titles /\ new[w][t] # NoFile
    BY DEF Heals, RunHeals, OwnTitles
  <2>2. QED
    BY <2>1 DEF Heals, RunHeals
<1>4. QED
  BY <1>1, <1>2, <1>3, TypeCorrect, PTL DEF Spec

-----------------------------------------------------------------------------
(* While nothing is lost, nothing dangles.                                 *)

\* The layers of these files are among the blobs.
AllIn(files, blobs) ==
  \A t \in Titles : files[t] # NoFile =>
    TitledBlob(files[t]) \in blobs /\ files[t].packs \subseteq blobs

RunIn(w) ==
  /\ AllIn(FilesOf(prior[w]), Accepted) /\ AllIn(FilesOf(base[w]), Accepted)
  /\ AllIn(new[w], Accepted) /\ AllIn(FilesOf(man[w]), Accepted)
  /\ \A s \in sent[w] : s[2] \in Accepted

\* Somebody has confirmed the config blob, or relied on it.
Confirmed ==
  \/ tag # NoManifest \/ cached # {} \/ late # {}
  \/ \E w \in Writers : cfg[w] \in {"confirmed", "present"} \/ man[w] # NoManifest
  \/ \E s \in stray : s.at = "confirmed"

PointersLast == \A b \in Accepted : b[1] = "file" => PacksIn(b[3]) \subseteq Accepted

\* The inductive invariant of NothingDangles, in every state before a loss.
BlobsIn ==
  /\ AllIn(FilesOf(tag), Accepted)
  /\ \A w \in Writers : RunIn(w)
  /\ \A r \in late : AllIn(FilesOf(r.man), Accepted)
  /\ Confirmed => ConfigBlob \in Accepted
  /\ PointersLast

LEMMA EmptyIn ==
  ASSUME NEW blobs
  PROVE  AllIn(EmptyFiles, blobs) /\ AllIn(FilesOf(NoManifest), blobs)
BY DEF AllIn, EmptyFiles, FilesOf

LEMMA MergeIn ==
  ASSUME NEW existing, NEW added, NEW deleted, NEW blobs,
         AllIn(existing, blobs), AllIn(added, blobs)
  PROVE  AllIn(MergeLayers(existing, added, deleted), blobs)
BY DEF AllIn, MergeLayers

LEMMA GrowIn ==
  ASSUME NEW files, NEW blobs, NEW more, AllIn(files, blobs), blobs \subseteq more
  PROVE  AllIn(files, more)
BY DEF AllIn

\* What a manifest names: the config blob and the layers.
LEMMA ReferencesIn ==
  ASSUME NEW files, NEW blobs
  PROVE  References(files) \subseteq blobs <=> ConfigBlob \in blobs /\ AllIn(files, blobs)
BY DEF References, AllIn, Present

LEMMA AcceptGrows ==
  ASSUME NEW blobs, Accept(blobs)
  PROVE  Accepted' = Accepted \cup blobs
BY DEF Accept, Accepted

\* A run that ends leaves nothing but, perhaps, its config thread.
LEMMA UnwindIn ==
  ASSUME TypeOK, BlobsIn, NEW w \in Writers, Unwind(w), Accepted \subseteq Accepted'
  PROVE  (\A v \in Writers : RunIn(v))'
<1>1. \A f : AllIn(f, Accepted) => AllIn(f, Accepted')
  BY GrowIn
<1>2. AllIn(EmptyFiles, Accepted') /\ AllIn(FilesOf(NoManifest), Accepted')
  BY EmptyIn
<1>3. QED
  BY <1>1, <1>2 DEF TypeOK, BlobsIn, RunIn, Unwind

LEMMA UnwindConfirmed ==
  ASSUME TypeOK, NEW w \in Writers, Unwind(w), cached' \subseteq cached,
         tag' # NoManifest \/ late' # {} => Confirmed
  PROVE  Confirmed' => Confirmed
BY DEF TypeOK, Unwind, Confirmed

\* The call returns or raises, its PUT having reached the registry or not.
LEMMA EndIn ==
  ASSUME TypeOK, BlobsIn, NEW w \in Writers, Unwind(w), cached' \subseteq cached,
         UNCHANGED <<visible, lagging>>,
         \/ tag' = tag /\ late' = late
         \/ pc[w] = "put" /\ tag' = man[w] /\ late' = late
         \/ pc[w] = "put" /\ tag' = tag
            /\ late' = late \cup {[by |-> w, ifm |-> ifm[w], man |-> man[w]]}
  PROVE  BlobsIn'
<1>1. Accepted' = Accepted
  BY DEF Accepted
<1>2. (\A v \in Writers : RunIn(v))'
  BY <1>1, UnwindIn
<1>3. pc[w] = "put" => Confirmed
  BY DEF TypeOK, Confirmed
<1>4. Confirmed' => Confirmed
  <2>1. tag' # NoManifest \/ late' # {} => Confirmed
    BY <1>3 DEF Confirmed
  <2>2. QED
    BY <2>1, UnwindConfirmed
<1>5. AllIn(FilesOf(tag'), Accepted) /\ \A r \in late' : AllIn(FilesOf(r.man), Accepted)
  BY DEF BlobsIn, RunIn
<1>6. QED
  BY <1>1, <1>2, <1>4, <1>5 DEF BlobsIn, PointersLast

\* The packs of a file's layers are in before its pointer.
LEMMA LayersIn ==
  ASSUME TypeOK, AllClosed, BlobsIn, NEW w \in Writers, NEW t \in Titles,
         NEW g \in FileLayers(w, t), FreshOf(w, t) # {} => <<t, Pack(FreshOf(w, t))>> \in sent[w]
  PROVE  g.packs \subseteq Accepted /\ PacksIn(g.where) \subseteq Accepted
<1>1. RunIn(w) /\ RunClosed(w)
  BY DEF BlobsIn, AllClosed
<1>2. FreshOf(w, t) # {} => Pack(FreshOf(w, t)) \in Accepted
  BY <1>1 DEF RunIn
<1>3. \A u \in Present(FilesOf(prior[w])) : FilesOf(prior[w])[u].packs \subseteq Accepted
  BY <1>1 DEF RunIn, AllIn, Present
<1>4. QED
  BY <1>1, <1>2, <1>3, FileLayersClosed DEF RunClosed

LEMMA StepIn ==
  ASSUME TypeOK, AllClosed, BlobsIn, NEW w \in Writers, Step(w)
  PROVE  BlobsIn'
<1> USE DEF registry, procVars, runVars, putVars, retryVars
<1>1. CASE Fetch(w)
  <2>1. Accepted' = Accepted
    BY <1>1 DEF Fetch, Accepted
  <2>2. (\A v \in Writers : RunIn(v))'
    BY <1>1, <2>1, EmptyIn DEF Fetch, TypeOK, BlobsIn, RunIn
  <2>3. Confirmed' => Confirmed
    BY <1>1 DEF Fetch, TypeOK, Confirmed
  <2>4. QED
    BY <1>1, <2>1, <2>2, <2>3 DEF Fetch, BlobsIn, PointersLast
<1>2. ASSUME NEW t \in Titles, UploadPack(w, t) PROVE BlobsIn'
  <2> DEFINE p == Pack(FreshOf(w, t))
  <2>1. Accepted' = Accepted \cup {p}
    BY <1>2, AcceptGrows DEF UploadPack
  <2>2. \A f : AllIn(f, Accepted) => AllIn(f, Accepted')
    BY <2>1, GrowIn
  <2>3. (\A v \in Writers : RunIn(v))'
    <3>1. sent' = [sent EXCEPT ![w] = @ \cup {<<t, p>>}] /\ UNCHANGED <<prior, base, new, man>>
      BY <1>2 DEF UploadPack
    <3> HIDE DEF p
    <3>2. ASSUME NEW v \in Writers, NEW s \in sent'[v] PROVE s \in sent[v] \/ s[2] = p
      BY <3>1, <3>2 DEF TypeOK
    <3>3. QED
      BY <2>1, <2>2, <3>1, <3>2 DEF BlobsIn, RunIn
  <2>4. Confirmed' => Confirmed
    BY <1>2 DEF UploadPack, Confirmed
  <2>5. PointersLast'
    BY <2>1 DEF BlobsIn, PointersLast, Pack
  <2>6. QED
    BY <1>2, <2>1, <2>2, <2>3, <2>4, <2>5 DEF UploadPack, BlobsIn
<1>3. ASSUME NEW t \in Titles, UploadFile(w, t) PROVE BlobsIn'
  <2>1. PICK g \in FileLayers(w, t) :
          /\ Accept({TitledBlob(g)})
          /\ \/ /\ new' = [new EXCEPT ![w][t] = g]
                /\ UNCHANGED <<stray, prior, base, sent, cfg, man>>
             \/ End(w, "failed")
    BY <1>3 DEF UploadFile
  <2>2. UNCHANGED <<tag, late, cached>>
    BY <1>3 DEF UploadFile
  <2>3. Accepted' = Accepted \cup {TitledBlob(g)}
    BY <2>1, AcceptGrows
  <2>4. \A f : AllIn(f, Accepted) => AllIn(f, Accepted')
    BY <2>3, GrowIn
  <2>5. g.packs \subseteq Accepted /\ PacksIn(g.where) \subseteq Accepted
    BY <1>3, LayersIn DEF UploadFile
  <2>6. PointersLast'
    BY <2>3, <2>5 DEF BlobsIn, PointersLast, TitledBlob
  <2>7. (\A v \in Writers : RunIn(v))' /\ (Confirmed' => Confirmed)
    <3>1. CASE End(w, "failed")
      <4>1. Unwind(w)
        BY <3>1 DEF End
      <4>2. tag' # NoManifest \/ late' # {} => Confirmed
        BY <2>2 DEF Confirmed
      <4>3. QED
        BY <2>2, <2>3, <4>1, <4>2, UnwindIn, UnwindConfirmed
    <3>2. CASE /\ new' = [new EXCEPT ![w][t] = g]
               /\ UNCHANGED <<stray, prior, base, sent, cfg, man>>
      <4>1. new[w] \in FileMaps /\ AllIn(new[w], Accepted')
        BY <2>4 DEF TypeOK, BlobsIn, RunIn
      <4>2. AllIn(new'[w], Accepted')
        BY <2>3, <2>5, <3>2, <4>1 DEF AllIn, TypeOK, FileMaps
      <4>3. (\A v \in Writers : RunIn(v))'
        BY <2>3, <2>4, <3>2, <4>2 DEF TypeOK, BlobsIn, RunIn
      <4>4. Confirmed' => Confirmed
        BY <2>2, <3>2 DEF Confirmed
      <4>5. QED
        BY <4>3, <4>4
    <3>3. QED
      BY <2>1, <3>1, <3>2
  <2>8. QED
    BY <2>2, <2>3, <2>4, <2>6, <2>7 DEF BlobsIn
<1>4. CASE Finalize(w)
  <2>1. Accepted' = Accepted
    BY <1>4 DEF Finalize, Accepted
  <2>2. (\A v \in Writers : RunIn(v))'
    BY <1>4, <2>1 DEF Finalize, TypeOK, BlobsIn, RunIn
  <2>3. Confirmed' => Confirmed
    BY <1>4 DEF Finalize, TypeOK, Confirmed
  <2>4. QED
    BY <1>4, <2>1, <2>2, <2>3 DEF Finalize, BlobsIn, PointersLast
<1>5. CASE ConfigCached(w) \/ ConfigRecord(w)
  <2>1. Accepted' = Accepted
    BY <1>5 DEF ConfigCached, ConfigRecord, Accepted
  <2>2. (\A v \in Writers : RunIn(v))'
    BY <1>5, <2>1 DEF ConfigCached, ConfigRecord, BlobsIn, RunIn
  <2>3. Confirmed
    BY <1>5 DEF ConfigCached, ConfigRecord, Confirmed
  <2>4. QED
    BY <1>5, <2>1, <2>2, <2>3 DEF ConfigCached, ConfigRecord, BlobsIn, PointersLast
<1>6. CASE ConfigPut(w)
  <2>1. Accepted' = Accepted \cup {ConfigBlob}
    BY <1>6, AcceptGrows DEF ConfigPut
  <2>2. \A f : AllIn(f, Accepted) => AllIn(f, Accepted')
    BY <2>1, GrowIn
  <2>3. (\A v \in Writers : RunIn(v))'
    BY <1>6, <2>1, <2>2 DEF ConfigPut, BlobsIn, RunIn
  <2>4. PointersLast'
    BY <2>1 DEF BlobsIn, PointersLast, ConfigBlob
  <2>5. QED
    BY <1>6, <2>1, <2>2, <2>3, <2>4 DEF ConfigPut, BlobsIn
<1>7. CASE Assemble(w)
  <2> DEFINE merged == MergeLayers(FilesOf(base[w]), new[w], Deletes[w])
             m == [digest |-> clock + 1, files |-> merged]
  <2>1. Accepted' = Accepted
    BY <1>7 DEF Assemble, AssembleWith, Accepted
  <2>2. AllIn(FilesOf(m), Accepted)
    <3>1. AllIn(merged, Accepted)
      BY MergeIn DEF BlobsIn, RunIn
    <3>2. QED
      BY <3>1, EmptyIn DEF FilesOf
  <2>3. man' = [man EXCEPT ![w] = m] /\ UNCHANGED <<registry, procVars, runVars>>
    BY <1>7 DEF Assemble, AssembleWith
  <2>4. (\A v \in Writers : RunIn(v))'
    BY <2>1, <2>2, <2>3 DEF BlobsIn, RunIn, TypeOK
  <2>5. Confirmed
    BY <1>7 DEF Assemble, Confirmed
  <2>6. QED
    BY <2>1, <2>3, <2>4, <2>5 DEF BlobsIn, PointersLast
<1>8. CASE PutOk(w)
  BY <1>8, EndIn DEF PutOk, End
<1>9. CASE PutTimeout(w)
  <2>1. CASE att[w] < PutRetries
    <3>1. /\ pc[w] = "put" /\ late' = late \cup {[by |-> w, ifm |-> ifm[w], man |-> man[w]]}
          /\ UNCHANGED <<tag, visible, lagging, cached, runVars, man, stray>>
      BY <1>9, <2>1 DEF PutTimeout
    <3>2. Accepted' = Accepted
      BY <3>1 DEF Accepted
    <3>3. Confirmed
      BY <3>1 DEF TypeOK, Confirmed
    <3>4. (\A v \in Writers : RunIn(v))'
      BY <3>1, <3>2 DEF BlobsIn, RunIn
    <3>5. \A r \in late' : AllIn(FilesOf(r.man), Accepted)
      BY <3>1 DEF BlobsIn, RunIn
    <3>6. QED
      BY <3>1, <3>2, <3>3, <3>4, <3>5 DEF BlobsIn, PointersLast
  <2>2. CASE ~(att[w] < PutRetries)
    BY <1>9, <2>2, EndIn DEF PutTimeout, End
  <2>3. QED
    BY <2>1, <2>2
<1>10. CASE PutUnknown(w)
  <2>1. Accepted' = Accepted /\ (Confirmed' => Confirmed)
    BY <1>10 DEF PutUnknown, Accepted, Confirmed
  <2>2. QED
    BY <1>10, <2>1 DEF PutUnknown, BlobsIn, RunIn, PointersLast
<1>11. CASE PutConflict(w) \/ PutLost(w) \/ TokenExpired(w) \/ Fail(w)
  <2>1. Unwind(w) /\ cached' \subseteq cached /\ UNCHANGED registry
    BY <1>11 DEF PutConflict, PutLost, TokenExpired, Fail, End
  <2>2. QED
    BY <2>1, EndIn
<1>12. QED
  BY <1>1, <1>2, <1>3, <1>4, <1>5, <1>6, <1>7, <1>8, <1>9, <1>10, <1>11 DEF Step

\* The registry and the stray config threads.
LEMMA EnvironmentIn ==
  ASSUME TypeOK, BlobsIn, Environment, losses = 0, losses' = 0
  PROVE  BlobsIn'
<1> USE DEF registry, procVars, runVars, putVars, retryVars
<1>1. ASSUME NEW b \in lagging, Settle(b) PROVE BlobsIn'
  <2>1. Accepted' = Accepted
    BY <1>1 DEF Settle, Accepted
  <2>2. Confirmed' => Confirmed
    BY <1>1 DEF Settle, Confirmed
  <2>3. QED
    BY <1>1, <2>1, <2>2 DEF Settle, BlobsIn, RunIn, PointersLast
<1>2. ASSUME NEW b, Lose(b) PROVE FALSE
  BY <1>2 DEF Lose
<1>3. ASSUME NEW r \in late, Deliver(r) PROVE BlobsIn'
  <2>1. Accepted' = Accepted
    BY <1>3 DEF Deliver, Accepted
  <2>2. Confirmed
    BY DEF Confirmed
  <2>3. QED
    BY <1>3, <2>1, <2>2 DEF Deliver, BlobsIn, RunIn, PointersLast
<1>4. ASSUME NEW s \in stray, StrayPut(s) PROVE BlobsIn'
  <2>1. Accepted' = Accepted \cup {ConfigBlob}
    BY <1>4, AcceptGrows DEF StrayPut
  <2>2. \A f : AllIn(f, Accepted) => AllIn(f, Accepted')
    BY <2>1, GrowIn
  <2>3. (\A v \in Writers : RunIn(v))'
    BY <1>4, <2>1, <2>2 DEF StrayPut, BlobsIn, RunIn
  <2>4. PointersLast'
    BY <2>1 DEF BlobsIn, PointersLast, ConfigBlob
  <2>5. QED
    BY <1>4, <2>1, <2>2, <2>3, <2>4 DEF StrayPut, BlobsIn
<1>5. ASSUME NEW s \in stray, StrayRecord(s) PROVE BlobsIn'
  <2>1. Accepted' = Accepted
    BY <1>5 DEF StrayRecord, Accepted
  <2>2. Confirmed
    BY <1>5 DEF StrayRecord, Confirmed
  <2>3. QED
    BY <1>5, <2>1, <2>2 DEF StrayRecord, BlobsIn, RunIn, PointersLast
<1>6. QED
  BY <1>1, <1>2, <1>3, <1>4, <1>5 DEF Environment

LEMMA InitIn ==
  ASSUME InitClosed, Init
  PROVE  BlobsIn
<1>1. CASE TagExists
  <2>1. Accepted = References(InitFiles) /\ tag = [digest |-> 1, files |-> InitFiles]
    BY <1>1 DEF Init, Accepted
  <2>2. ConfigBlob \in Accepted /\ AllIn(InitFiles, Accepted)
    BY <2>1, ReferencesIn
  <2>3. AllIn(FilesOf(tag), Accepted)
    BY <2>1, <2>2, EmptyIn DEF FilesOf
  <2>4. PointersLast
    <3> SUFFICES ASSUME NEW b \in Accepted, b[1] = "file" PROVE PacksIn(b[3]) \subseteq Accepted
      BY DEF PointersLast
    <3>1. b # ConfigBlob /\ b \notin Packs
      BY DEF ConfigBlob, Packs, Pack
    <3>2. PICK t \in Present(InitFiles) : b = TitledBlob(InitFiles[t]) \/ b \in InitFiles[t].packs
      BY <2>1, <3>1 DEF References
    <3>3. InitFiles[t].packs \subseteq Packs
      BY JobAssumption DEF Present, FileMaps, Groups
    <3>4. b[3] = InitFiles[t].where
      BY <3>1, <3>2, <3>3 DEF TitledBlob
    <3>5. PacksIn(InitFiles[t].where) \subseteq InitFiles[t].packs
      BY <1>1 DEF InitClosed, Closed
    <3>6. QED
      BY <2>2, <3>4, <3>5 DEF AllIn, Present
  <2>5. \A w \in Writers : RunIn(w)
    BY EmptyIn DEF Init, RunIn
  <2>6. QED
    BY <2>2, <2>3, <2>4, <2>5 DEF BlobsIn, Init
<1>2. CASE ~TagExists
  BY <1>2, EmptyIn DEF Init, BlobsIn, RunIn, Accepted, Confirmed, PointersLast
<1>3. QED
  BY <1>1, <1>2

(***************************************************************************)
(* While the registry loses nothing, every blob that the tag names was     *)
(* accepted, and every pointer blob's packs before it, for any uploads,    *)
(* crashes of runs and late PUTs, validated or not, if every file of the   *)
(* first manifest could be put together (_upload_file_chunked_v2,          *)
(* _ensure_config_blob_uploaded, _put_manifest).                           *)
(***************************************************************************)
THEOREM TagNeverDangles ==
  ASSUME InitClosed
  PROVE  Spec => []NothingDangles
<1> DEFINE Inv == AllClosed /\ (losses = 0 => BlobsIn)
<1>1. Init => Inv
  BY InitAllClosed, InitIn
<1>2. TypeOK /\ Inv /\ [Next]_vars => Inv'
  <2> SUFFICES ASSUME TypeOK, Inv, [Next]_vars PROVE Inv'
    OBVIOUS
  <2>1. AllClosed'
    BY NextClosed
  <2>2. ASSUME losses' = 0 PROVE BlobsIn'
    <3>1. losses = 0
      <4>1. losses \in Nat
        BY BoundAssumption DEF TypeOK
      <4>2. ASSUME NEW w \in Writers, Step(w) PROVE losses' = losses
        BY <4>2 DEF Step, Fetch, UploadPack, UploadFile, Accept, Finalize, ConfigCached, ConfigPut,
           ConfigRecord, Assemble, AssembleWith, PutOk, PutConflict, PutTimeout, PutUnknown, PutLost,
           TokenExpired, Fail, registry
      <4>3. Environment => losses' = losses \/ losses' = losses + 1
        BY DEF Environment, Settle, Lose, Deliver, StrayPut, Accept, StrayRecord, registry
      <4>4. AllEnded \/ UNCHANGED vars => losses' = losses
        BY DEF AllEnded, vars, registry
      <4>5. QED
        BY <2>2, <4>1, <4>2, <4>3, <4>4 DEF Next
    <3>2. BlobsIn
      BY <3>1
    <3>3. CASE UNCHANGED vars
      <4>1. UNCHANGED <<tag, visible, lagging, late, cached, stray, prior, base, new, sent, cfg, man>>
        BY <3>3 DEF vars, registry, procVars, runVars, putVars
      <4>2. Accepted' = Accepted /\ (Confirmed' => Confirmed)
        BY <4>1 DEF Accepted, Confirmed
      <4>3. QED
        BY <3>2, <4>1, <4>2 DEF BlobsIn, RunIn, PointersLast
    <3>4. QED
      BY <2>2, <3>1, <3>2, <3>3, StepIn, EnvironmentIn DEF Next, AllEnded
  <2>3. QED
    BY <2>1, <2>2
<1>3. Inv => NothingDangles
  <2> SUFFICES ASSUME Inv, losses = 0
               PROVE  /\ tag # NoManifest => References(tag.files) \subseteq Accepted
                      /\ PointersLast
    BY DEF NothingDangles, PointersLast
  <2>1. tag # NoManifest => ConfigBlob \in Accepted /\ AllIn(tag.files, Accepted)
    BY DEF BlobsIn, Confirmed, FilesOf
  <2>2. QED
    BY <2>1, ReferencesIn DEF BlobsIn
<1>4. QED
  BY <1>1, <1>2, <1>3, TypeCorrect, PTL DEF Spec
=============================================================================

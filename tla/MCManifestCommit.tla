-------------------------- MODULE MCManifestCommit --------------------------
(***************************************************************************)
(* Instances of ManifestCommit.  Title "a" holds a chunked file of chunks  *)
(* x and y in one pack, "b" a small file.  A folder upload replaces "a" by *)
(* a content that shares chunk x (so it reuses the pack), and deletes "b"; *)
(* a file upload writes the new title "c".                                 *)
(***************************************************************************)
EXTENDS ManifestCommit

CONSTANTS w1, w2, x, y, z, v0, v1, s0, s1

MCWriters == {w1, w2}
MCTitles == {"a", "b", "c"}
MCContents == {v0, v1, s0, s1}
MCChunks == {x, y, z}
MCProcs == {"p"}
MCProcOf == [w \in MCWriters |-> "p"]
MCKind == [w \in MCWriters |-> IF w = w1 THEN "folder" ELSE "file"]
MCChunksOf == [c \in MCContents |->
  CASE c = v0 -> {x, y} [] c = v1 -> {x, z} [] OTHER -> {}]

Job(files) == [t \in MCTitles |-> IF t \in DOMAIN files THEN files[t] ELSE NoFile]
MCFiles == [w \in MCWriters |-> IF w = w1 THEN Job([a |-> v1]) ELSE Job([c |-> s1])]
MCDeletes == [w \in MCWriters |-> IF w = w1 THEN {"b"} ELSE {}]
MCInitFiles == Job(
  [a |-> [content |-> v0, where |-> [c \in {x, y} |-> Pack({x, y})], packs |-> {Pack({x, y})}],
   b |-> [content |-> s0, where |-> [c \in {} |-> Pack({})], packs |-> {}]])

\* Two instances in one, for size: either the two uploads race and no blob is
\* lost, or the folder upload is alone, one blob is lost and its token expires.
VARIABLE scene

Scene ==
  \/ /\ scene = "race"
     /\ losses' = 0 /\ refreshed'[w1] = FALSE /\ \A w \in MCWriters : heal'[w] = 0
  \/ /\ scene = "loss"
     /\ pc'[w2] \in {"fetch", "failed"} /\ late' = {}

SceneInit == Init /\ scene \in {"race", "loss"}

SceneSpec ==
  /\ SceneInit
  /\ [][Next /\ Scene /\ UNCHANGED scene]_<<vars, scene>>
  /\ \A w \in Writers : WF_vars(Step(w))

\* Two uploads of chunked files of the same chunks, to different titles.
TwinKind == [w \in MCWriters |-> "file"]
TwinFiles == [w \in MCWriters |-> IF w = w1 THEN Job([a |-> v1]) ELSE Job([c |-> v1])]
NoDeletes == [w \in MCWriters |-> {}]

L == INSTANCE Layers WITH NoTitle <- NoFile

(***************************************************************************)
(* The map MergeLayers edits stands for the layer list of the code.  In    *)
(* whatever order the manifest an upload read lists its files, and with or *)
(* without another tool's layer in front, _merge_layers gives a list that  *)
(* holds exactly the files of the assembled manifest: no pack is taken     *)
(* from another file or left behind, no title is listed twice; and the     *)
(* artifact is typed as chunked exactly when one of its files is.          *)
(***************************************************************************)
ListFollowsMap ==
  \A w \in Writers : pc[w] = "put" =>
    L!Follows(FilesOf(base[w]), new[w], Deletes[w], man[w].files)
=============================================================================

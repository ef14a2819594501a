------------------------------- MODULE Layers -------------------------------
(***************************************************************************)
(* The layer list of a manifest.  A file is one titled plain layer, or a   *)
(* titled pointer layer followed by its untitled pack layers; an untitled  *)
(* layer belongs to the titled layer before it.  Commits edit the list     *)
(* with _merge_layers (hippius_hub/file_upload.py), readers see it through *)
(* group_files (hippius_hub/_oci.py); ManifestCommit works on the map from *)
(* titles to groups instead, and this module shows that the list follows   *)
(* that map.                                                               *)
(***************************************************************************)
EXTENDS Naturals, Sequences, FiniteSets, SequencesExt

CONSTANTS
  NoTitle,      \* an untitled layer
  NoFile        \* no file under a title

\* _build_layer: one layer, named by its blob.
Layer(t, kind, blob) == [title |-> t, kind |-> kind, blob |-> blob]

\* _upload_file_layers: a small file is one plain layer, a chunked one a pointer
\* followed by the packs it uses.
FileLayers(t, g) ==
  LET packs == SetToSeq(g.packs)
  IN IF DOMAIN g.where = {} THEN <<Layer(t, "plain", g.content)>>
     ELSE <<Layer(t, "pointer", g.content)>>
            \o [i \in DOMAIN packs |-> Layer(NoTitle, "pack", packs[i])]

\* Mutant: every layer is a group of its own.
AttachNever(groups, l) == Append(groups, [title |-> l.title, layers |-> <<l>>])

\* One round of _partition_groups: a titled layer starts a group, an untitled
\* one joins the last (or starts the first).
Attach(groups, l) ==
  IF l.title # NoTitle \/ groups = <<>>
  THEN Append(groups, [title |-> l.title, layers |-> <<l>>])
  ELSE [groups EXCEPT ![Len(groups)].layers = Append(@, l)]

PartitionGroups(list) == FoldLeft(Attach, <<>>, list)

TitlesOf(list) == {list[i].title : i \in DOMAIN list} \ {NoTitle}

\* Does _merge_layers keep this group of the existing list?
Keep(g, added, deleted) == g.title = NoTitle \/ g.title \notin deleted \cup TitlesOf(added)

MergeLayers(existing, added, deleted) ==
  LET kept == SelectSeq(PartitionGroups(existing), LAMBDA g : Keep(g, added, deleted))
  IN FlattenSeq([i \in DOMAIN kept |-> kept[i].layers]) \o added

\* _assemble_manifest: is any layer a pointer?
ChunkedArtifact(list) == \E i \in DOMAIN list : list[i].kind = "pointer"

\* group_files: the titled layers, each as a file.
GroupFiles(list) == SelectSeq(list, LAMBDA l : l.title # NoTitle)

-----------------------------------------------------------------------------

\* The layer lists that hold exactly these files, in any order.
Lists(files) ==
  LET there == {t \in DOMAIN files : files[t] # NoFile}
  IN {FlattenSeq([i \in DOMAIN order |-> FileLayers(order[i], files[order[i]])]) :
        order \in SetToSeqs(there)}

\* A manifest another tool wrote may begin with an untitled layer.
Foreign == Layer(NoTitle, "foreign", NoFile)
Leads == {<<>>, <<Foreign>>}

\* Does editing any list of the files 'before' give a list of the files 'after',
\* shown to readers once each and typed as chunked when one of them is?
Follows(before, added, deleted, after) ==
  \A lead \in Leads : \A list \in Lists(before) : \A more \in Lists(added) :
    LET merged == MergeLayers(lead \o list, more, deleted)
    IN /\ merged \in {lead \o l : l \in Lists(after)}
       /\ Len(GroupFiles(merged)) = Cardinality({t \in DOMAIN after : after[t] # NoFile})
       /\ ChunkedArtifact(merged) =
            \E t \in DOMAIN after : after[t] # NoFile /\ DOMAIN after[t].where # {}
=============================================================================

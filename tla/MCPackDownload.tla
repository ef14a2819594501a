--------------------------- MODULE MCPackDownload ---------------------------
(* A file of three chunks in two packs, one of which also holds a chunk of  *)
(* another file.  The registry may answer with a pointer whose chunks are   *)
(* swapped, that has an empty chunk, that points past its pack, that names  *)
(* a wrong digest, or a pack the manifest does not list.                    *)
EXTENDS PackDownload

CONSTANTS p1, p2, p3

MCPacks == [p \in {p1, p2, p3} |->
  CASE p = p1 -> <<1, 2, 3>> [] p = p2 -> <<4, 9>> [] OTHER -> <<7>>]
MCLayers == [p \in {p1, p2} |-> Len(MCPacks[p])]

Ref(p, off, bytes) == [pack |-> p, off |-> off, size |-> Len(bytes), want |-> bytes]
MCPointer == <<Ref(p1, 0, <<1, 2>>), Ref(p2, 0, <<4>>), Ref(p1, 2, <<3>>)>>
MCFile == <<1, 2, 4, 3>>
Swapped == <<MCPointer[2], MCPointer[1], MCPointer[3]>>
WithEmpty == <<Ref(p2, 1, <<>>), Ref(p1, 0, <<1, 2>>), Ref(p2, 0, <<4>>), Ref(p1, 2, <<3>>)>>
PastEnd == <<MCPointer[1], Ref(p2, 1, <<9, 9>>)>>
Misnamed == <<MCPointer[1], Ref(p2, 0, <<5>>)>>
Unlisted == <<MCPointer[1], Ref(p3, 0, <<7>>)>>
MCPointers == {MCPointer, Swapped, WithEmpty, PastEnd, Misnamed, Unlisted}
=============================================================================

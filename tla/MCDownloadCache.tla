-------------------------- MODULE MCDownloadCache --------------------------
(* Process "p" downloads a snapshot of the files "a" and "b" with a pool of *)
(* two; process "q" downloads "a" into the same cache, forced, and "c" into *)
(* a local directory.  The revision moves between two manifests: the file   *)
(* "b" of one has the content of "a" of the other, and "c" is in one only.  *)
EXTENDS DownloadCache

MCCalls == {1, 2, 3, 4}
MCTitle == [c \in MCCalls |-> CASE c = 2 -> "b" [] c = 4 -> "c" [] OTHER -> "a"]
MCProc == [c \in MCCalls |-> IF c \in {1, 2} THEN "p" ELSE "q"]
MCManifests ==
  {[a |-> "d1", b |-> "d2", c |-> None], [a |-> "d3", b |-> "d1", c |-> "d1"]}

\* The locals and leftovers of a call that has ended are read by nobody: states
\* that differ in them only are the same to every step and property.
Frame(c) ==
  IF pc[c] \in Ended THEN <<pc[c]>> ELSE <<pc[c], want[c], temp[c], entry[c], c \in again>>
View == <<tag, blobs, dest, local, [c \in Calls |-> Frame(c)], pool, shared, bounds>>
=============================================================================

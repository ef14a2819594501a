-------------------------- MODULE MCRangeDownload --------------------------
(* An empty blob, a chunk size of zero, a single piece, a last partial      *)
(* piece, and more pieces than the window holds, from a server that         *)
(* corrupts bytes, and with writes that land late.                          *)
EXTENDS RangeDownload

Honest(size, chunk) ==
  [size |-> size, chunk |-> chunk, corrupting |-> FALSE, straggling |-> FALSE]
MCCases ==
  {Honest(0, 2), Honest(2, 0), Honest(3, 1), [Honest(3, 2) EXCEPT !.straggling = TRUE],
   [Honest(2, 2) EXCEPT !.corrupting = TRUE], [Honest(3, 2) EXCEPT !.corrupting = TRUE]}
=============================================================================

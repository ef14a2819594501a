---------------------------- MODULE MCNativeCalls ----------------------------
(* Two hash workers, channels of one and batches of two: they all fill up,  *)
(* and the last batch is empty, partial or full.  One press of Ctrl-C.      *)
EXTENDS NativeCalls

CONSTANTS w1, w2, other

MCWorkers == {w1, w2}
MCOthers == {other}
MCAverages == {CdcMinAvg, CdcMinAvg - 1}

Alone == at[other] = "ended"
NoTransfers == transfers = MaxTransfers

(* Three scenes: one thread and a file of up to three chunks; two threads   *)
(* that share the stream of a small file, whose reads may never return; and *)
(* transfers next to a stream that never gets a byte.                       *)
Scene ==
  \/ hang = 0 /\ Alone /\ NoTransfers
  \/ n <= 1 /\ bad = 0 /\ ~Alone /\ NoTransfers
  \/ n = 0 /\ hang = 1 /\ transfers = 0

SceneInit == Init /\ Scene /\ at[Main] = "ready"

SceneSpec == SceneInit /\ [][Next]_vars /\ Fairness
=============================================================================

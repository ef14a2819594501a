--------------------------- MODULE MCSingleFlight ---------------------------
(* Three threads and four calls: a leader, a waiter and a newcomer, and     *)
(* calls after a loss.                                        *)
EXTENDS SingleFlight

CONSTANTS t1, t2, t3

MCThreads == {t1, t2, t3}
=============================================================================

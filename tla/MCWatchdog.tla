----------------------------- MODULE MCWatchdog -----------------------------
(* Bodies of up to three frames.  A wake-up is late by up to one unit, the  *)
(* limits are a few checks long, and the answer may take longer than a      *)
(* frame.                                                                   *)
EXTENDS Watchdog
=============================================================================

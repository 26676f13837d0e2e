----------------------------- MODULE MCWatchdog -----------------------------
(* Instances of Watchdog for TLC: limits of two or three ticks.              *)
EXTENDS Watchdog
=============================================================================

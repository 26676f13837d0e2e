---------------------------- MODULE MCBlockFence ----------------------------
(* Instance of BlockFence for TLC; no symmetry, for the run checks liveness.   *)
EXTENDS BlockFence
=============================================================================

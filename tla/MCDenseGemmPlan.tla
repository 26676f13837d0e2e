-------------------------- MODULE MCDenseGemmPlan --------------------------
(* Weights of the served models and of the shapes the planner has rules of  *)
(* its own for, on a part with 48 SMs and on one with 188.                  *)
EXTENDS DenseGemmPlan

Weight(kind, n, k, hint, sms) ==
  [kind |-> kind, n |-> n, k |-> k, l |-> 1, hint |-> hint, sms |-> sms, turbo |-> TRUE,
   tile |-> NoTile, tiled |-> FALSE, reuse |-> FALSE, alpha |-> FALSE, entry |-> "dense",
   freezes |-> TRUE]
WoA(tile, sms) ==
  [Weight("mxfp8", 1024, 4096, 0, sms) EXCEPT !.l = 4, !.tile = tile, !.tiled = TRUE,
                                              !.reuse = TRUE]

(* Weights whose plan, without a hint, is to serve every batch size of a    *)
(* regime, and hinted ones.                                                 *)
Frozen ==
  { Weight("mxfp8", 4096, 4096, 0, 188), Weight("mxfp8", 8192, 6144, 0, 188),
    Weight("mxfp8", 1024, 4096, 0, 48), Weight("mxfp8", 16384, 1024, 0, 48),
    Weight("mxfp8", 4096, 4096, 4, 48), Weight("mxfp8", 4096, 4096, 2048, 48),
    Weight("mxfp8", 4100, 4096, 2048, 48), Weight("mxfp8", 16384, 1024, 4096, 188),
    Weight("mxfp8", 2048, 8192, 2048, 188), Weight("mxfp8", 4096, 1024, 1536, 48),
    Weight("block_fp8", 4096, 7168, 0, 48), Weight("block_fp8", 4096, 7168, 0, 188),
    Weight("block_fp8", 4096, 10240, 2048, 48), Weight("mxfp6", 16384, 1024, 64, 48),
    WoA(<<32, 64>>, 188), WoA(<<64, 64>>, 48) }

Others ==
  { Weight("nvfp4", 4096, 7168, 0, 48), Weight("nvfp4", 4096, 4096, 0, 188),
    Weight("nvfp4", 512, 4096, 0, 48), Weight("nvfp4", 1024, 2048, 0, 188),
    Weight("nvfp4", 16384, 2048, 0, 48), Weight("mxfp6", 4096, 2048, 0, 48),
    Weight("mxfp8", 40, 4096, 0, 188), Weight("mxfp8", 4096, 9216, 8, 188),
    Weight("mxfp8", 4096, 4096, 0, 48),
    [Weight("plain_fp8", 8192, 4096, 0, 188) EXCEPT !.turbo = FALSE],
    Weight("plain_fp8", 4096, 4096, 8, 188),
    [Weight("mxfp8", 4096, 4096, 0, 48) EXCEPT !.entry = "fused"],
    [Weight("mxfp8", 4096, 4096, 0, 188) EXCEPT !.entry = "fused", !.tiled = TRUE,
                                                !.reuse = TRUE],
    [Weight("mxfp8", 1024, 4096, 0, 48) EXCEPT !.entry = "grouped", !.l = 4] }

MCWeights == Frozen \union {[w EXCEPT !.freezes = FALSE] : w \in Others}

(* What the theorem about OutputComplete needs holds for them. *)
ASSUME HypothesesHold == FourWayIsAtomic /\ SingleTilesUncapped
=============================================================================

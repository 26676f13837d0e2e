--------------------------- MODULE MCGemmPipeline ---------------------------
(* Specialisations that the launch classes build, each with a ring, a       *)
(* number of k tiles and an epilogue that make its own hazards happen.      *)
EXTENDS GemmPipeline

Kernel(flags, stages, kTiles, tiles, store, subtiles, epiStages) ==
  [flags |-> flags, stages |-> stages, kTiles |-> kTiles, kBlocks |-> 2, tiles |-> tiles,
   single |-> tiles = 1, store |-> store, subtiles |-> subtiles, epiStages |-> epiStages]

MCConfigs ==
  { Kernel({}, 2, 3, 2, "tma", 1, 1),
    Kernel({}, 2, 2, 2, "swap", 1, 1),
    Kernel({"a16"}, 2, 2, 1, "slice", 2, 1),
    Kernel({"block_fp8"}, 2, 2, 2, "tma", 1, 1),
    Kernel({"cpasync"}, 2, 2, 2, "tma", 1, 1),
    Kernel({"manual_bk64_sf"}, 2, 3, 1, "tma", 1, 1),
    Kernel({"fused_quant_a"}, 2, 2, 2, "m1", 1, 1),
    Kernel({"fused_quant_a", "b_tile_major"}, 2, 3, 2, "m1", 1, 1),
    Kernel({"fused_quant_a", "b_tile_major", "direct_sfb_representative"}, 2, 2, 2, "tma", 1, 1),
    Kernel({"b_tile_major", "direct_sfb_representative", "direct_sfa_prefix"}, 2, 2, 2, "quantize", 1, 1),
    Kernel({"b_tile_major", "direct_sfb_representative", "direct_m1_wo_a_inputs"}, 2, 2, 2, "m1", 1, 1),
    Kernel({"use_m1_non_tma_a", "use_m1_non_tma_sfa"}, 2, 2, 2, "m1", 1, 1),
    Kernel({"use_m1_non_tma_a", "use_m1_non_tma_sfa", "a_bf16_fused", "b_packed"}, 3, 2, 2, "m1", 1, 1),
    Kernel({"use_m1_non_tma_a", "use_m1_non_tma_sfa", "a_bf16_fused", "b_packed"}, 4, 3, 2, "m1", 1, 1),
    Kernel({"b_packed"}, 2, 1, 1, "tma", 2, 1),
    Kernel({"block_fp8"}, 2, 1, 2, "tma", 4, 2) }
=============================================================================

---------------------------- MODULE DenseGemmPlan ----------------------------
(***************************************************************************)
(* The host side of the dense GEMM (dense_gemm.py 118-572, 4418-4922,      *)
(* 6094-6597, 7054-8583): for each batch size m a weight meets in serving, *)
(* the tile, the depth of a k tile, the split of K and the launch grid are *)
(* chosen, the kernel of that choice is looked up or compiled, the grid is *)
(* launched and, when K was split into partials, these are reduced.        *)
(*                                                                         *)
(* A server compiles while it warms up and then freezes kernel resolution: *)
(* from there on a missing kernel is an error.                             *)
(***************************************************************************)
EXTENDS Integers, Sequences, FiniteSets, FiniteSetsExt

CONSTANTS
  Weights,        \* what is multiplied with: records kind, n, k, l, hint (expected_m, 0 for
                  \*   none), sms, turbo (B12X_DENSE_SPLITK_TURBO), tile (the caller's, or
                  \*   NoTile), tiled (tile-major RHS), reuse (sfb_k_replicated), alpha
                  \*   (a caller's alpha), entry (dense, fused, grouped), freezes
  Warmed,         \* batch sizes served before the freeze
  Served          \* batch sizes served after it

NoTile == <<0, 0>>

ASSUME WeightsAssumption ==
  \A w \in Weights :
    /\ w.kind \in {"mxfp8", "plain_fp8", "block_fp8", "nvfp4", "mxfp6"}
    /\ w.entry \in {"dense", "fused", "grouped"}
    /\ {w.n, w.k, w.l, w.sms} \subseteq Nat \ {0} /\ w.hint \in Nat
    /\ w.tile # NoTile => w.tile \in (Nat \ {0}) \X (Nat \ {0})
ASSUME BatchesAssumption == Warmed \subseteq Nat \ {0} /\ Served \subseteq Nat \ {0}

SmemCapacity == 101376      \* bytes of shared memory of an sm_120 SM

VARIABLES
  weight,         \* the weight of this server
  frozen,         \* kernel resolution is frozen
  kernels,        \* keys of the compiled kernels
  call            \* the call under way: pc, m, plan, kernel, partials, out

vars == <<weight, frozen, kernels, call>>

-----------------------------------------------------------------------------
(* Rules are tried in order. *)
FirstOf(rules) ==
  LET i == CHOOSE j \in DOMAIN rules : rules[j][1] /\ \A h \in 1..(j - 1) : ~rules[h][1]
  IN rules[i][2]

CeilDiv(a, b) == (a + b - 1) \div b
HalfSms(w) == Max({1, w.sms \div 2})
LowSm(w) == w.sms <= 64
Hinted(w) == w.hint # 0
PlanM(w, m) == IF Hinted(w) THEN w.hint ELSE m

IsMxfp8(w) == w.kind \in {"mxfp8", "plain_fp8", "block_fp8"}
MediumPrefill(w, m) == PlanM(w, m) \in 1536..2048
FourSlicesDivide(w) == w.k % 512 = 0

BlockFp8Slices(w, m) ==
  IF ~LowSm(w) THEN IF m \in 2..6 /\ w.k >= 4096 /\ w.k % 256 = 0 THEN 2 ELSE 1
  ELSE FirstOf(<<
    <<m > 6 \/ CeilDiv(w.n, 64) < (2 * w.sms + 2) \div 3 \/ w.k < 4096, 1>>,
    <<FourSlicesDivide(w), 4>>,
    <<w.k <= 4352 /\ w.k % 256 = 0, 2>>,
    <<TRUE, 1>> >>)

-----------------------------------------------------------------------------
(* The default tile: rows and columns of C that one CTA computes. *)

HighSmBk64(w) ==
  /\ w.hint >= 2048 /\ ~LowSm(w)
  /\ \/ w.n >= 4096 /\ w.k <= 1536
     \/ w.n = 4096 /\ w.k \in 4096..6144
     \/ w.n >= 8192 /\ w.k <= 6144

QB(w) == <<w.n, w.k>> = <<16384, 1024>>

HintedWideTile(w) ==
  FirstOf(<<
    <<w.hint >= 2048 /\ QB(w) /\ LowSm(w), <<64, 128>> >>,
    <<HighSmBk64(w), <<128, 128>> >>,
    <<w.hint >= 2048 /\ ~LowSm(w) /\ w.k >= 2048 /\ w.n <= 8192, <<128, 64>> >>,
    <<w.hint >= 2048 /\ w.n >= 16384 /\ w.k <= 1024, <<128, 128>> >>,
    <<w.hint = 1, <<16, 64>> >>,
    <<w.hint <= 16 /\ QB(w) /\ LowSm(w), <<16, 64>> >>,
    <<w.hint <= 8 \/ (w.hint <= 16 /\ QB(w)), <<16, 128>> >>,
    <<w.hint <= 128, <<32, 128>> >>,
    <<TRUE, <<64, 128>> >> >>)

Mxfp8Tile(w, m) ==
  FirstOf(<<
    <<w.hint >= 2048 /\ <<w.n, w.k>> = <<4096, 4096>>, <<128, 128>> >>,
    <<w.n > 1536 /\ Hinted(w), HintedWideTile(w)>>,
    <<w.n > 1536 /\ m = 1, <<16, 64>> >>,
    <<w.n > 1536 /\ m <= 8, <<16, 128>> >>,
    <<w.n > 1536, <<64, 128>> >>,
    <<PlanM(w, m) = 1, <<16, 64>> >>,
    <<w.hint >= 2048 /\ ~LowSm(w) /\ w.k >= 2048, <<128, 64>> >>,
    <<w.hint > 128, <<64, 128>> >>,
    <<TRUE, <<64, 64>> >> >>)

Fp6Tile(w, m) ==
  IF w.n > 1536 /\ PlanM(w, m) <= 16 THEN <<16, 64>> ELSE <<128, 128>>

Fp4Tile(w, m) ==
  LET p == PlanM(w, m)
      starved(x) == CeilDiv(x, 128) * CeilDiv(w.n, 128) < HalfSms(w)
  IN FirstOf(<<
    <<~LowSm(w) /\ p <= 128 /\ w.k >= 4096 /\ (w.n <= 4096 \/ (p >= 64 /\ w.n <= 6144)),
      <<64, 64>> >>,
    <<p = 1 /\ w.n <= 512 /\ w.k >= 4096, <<64, 32>> >>,
    <<p = 1 /\ w.n <= 1024, <<64, 64>> >>,
    <<p = 1, <<64, 128>> >>,
    <<p \in 48..64 /\ w.n >= 4096 /\ w.k >= 5120 /\ LowSm(w), <<64, 32>> >>,
    <<~LowSm(w) /\ p \in 1024..2048 /\ starved(p), <<64, 128>> >>,
    <<w.n > 1536 /\ m <= 64 /\ CeilDiv(w.n, 128) >= 2 * w.sms, <<64, 64>> >>,
    <<w.n > 1536 /\ m <= 64, <<64, 128>> >>,
    <<w.n > 1536 /\ m <= 256 /\ starved(m), <<64, 128>> >>,
    <<m <= 128 /\ starved(m) /\ CeilDiv(m, 128) * CeilDiv(w.n, 64) < HalfSms(w), <<64, 64>> >>,
    <<m <= 128 /\ starved(m), <<128, 64>> >>,
    <<TRUE, <<128, 128>> >> >>)

SelectedTile(w, m) ==
  CASE w.kind = "mxfp6" -> Fp6Tile(w, m)
    [] IsMxfp8(w) -> Mxfp8Tile(w, m)
    [] w.kind = "nvfp4" -> Fp4Tile(w, m)

(* What the block-FP8 and the low-SM MXFP8 plans make of it. *)
BlockFp8Tile(w, m, tile) ==
  LET p == PlanM(w, m)
      tiles == CeilDiv(p, 64) * CeilDiv(w.n, 128)
  IN FirstOf(<<
    <<BlockFp8Slices(w, p) > 1, <<32, 64>> >>,
    <<~LowSm(w) /\ p >= 2048, <<64, 128>> >>,
    <<~LowSm(w) /\ p \in 96..128 /\ (w.sms + 1) \div 2 <= tiles /\ tiles <= w.sms,
      <<64, 128>> >>,
    <<LowSm(w) /\ p \in 96..128 /\ w.k >= 8192 /\ CeilDiv(w.n, 128) < w.sms, <<128, 128>> >>,
    <<LowSm(w) /\ w.hint >= 2048 /\ w.k >= 10240, <<128, 128>> >>,
    <<TRUE, tile>> >>)

ShortKTile(w, m, tile) ==
  LET p == PlanM(w, m) IN FirstOf(<<
    <<p <= 6, <<16, 64>> >>,
    <<MediumPrefill(w, m) /\ CeilDiv(w.n, 128) <= 2 * w.sms, <<128, 128>> >>,
    <<p > 128, <<64, 128>> >>,
    <<TRUE, tile>> >>)

LowSmMxfp8Tile(w, m, tile) ==
  LET p == PlanM(w, m) IN FirstOf(<<
    <<w.k <= 1024 /\ w.n >= 4096, ShortKTile(w, m, tile)>>,
    <<p <= 6 /\ FourSlicesDivide(w) /\ w.k \in 4096..6144 /\ CeilDiv(w.n, 64) >= w.sms,
      <<32, 64>> >>,
    <<MediumPrefill(w, m) /\ w.n >= 4096 /\ w.k >= 2048, <<128, 128>> >>,
    <<p \in 512..3072 /\ w.n \in 1537..4095, <<128, 64>> >>,
    <<TRUE, tile>> >>)

DeepKTile(w, tile) ==
  IF ~Hinted(w) \/ w.k < 8192 \/ CeilDiv(w.n, 128) >= w.sms THEN tile
  ELSE FirstOf(<<
    <<w.hint <= 8, <<16, 64>> >>,
    <<w.hint >= 2048, IF LowSm(w) THEN <<128, 128>> ELSE <<128, 64>> >>,
    <<TRUE, tile>> >>)

PlannedTile(w, m) ==
  LET tile == SelectedTile(w, m)
  IN CASE w.kind = "block_fp8" -> BlockFp8Tile(w, m, tile)
       [] IsMxfp8(w) /\ w.kind # "block_fp8" ->
            DeepKTile(w, IF LowSm(w) THEN LowSmMxfp8Tile(w, m, tile) ELSE tile)
       [] OTHER -> tile

(* C rows that TMA cannot store are stored by the swapped epilogue. *)
UnalignedRows(w, m) == (m > 1 \/ w.l > 1) /\ (2 * w.n) % 16 # 0
SwapsStorage(w, m) ==
  /\ w.kind \in {"mxfp8", "plain_fp8"} /\ w.entry = "dense" /\ w.tile = NoTile
  /\ w.l = 1 /\ (w.n < 64 \/ UnalignedRows(w, m))

(* A caller's narrow tile is swapped only where the default plan would swap. *)
TileAndSwap(w, m) ==
  LET tile == PlannedTile(w, m)
      narrow(t) == w.kind = "nvfp4" /\ t[2] < 64
  IN FirstOf(<<
    <<w.tile # NoTile, [tile |-> w.tile, swap |-> narrow(w.tile) /\ narrow(Fp4Tile(w, m))]>>,
    <<SwapsStorage(w, m) /\ (w.n < 64 \/ (w.n <= 256 /\ tile = <<64, 64>>)),
      [tile |-> <<64, 32>>, swap |-> TRUE]>>,
    <<SwapsStorage(w, m), [tile |-> <<tile[2], tile[1]>>, swap |-> TRUE]>>,
    <<TRUE, [tile |-> tile, swap |-> narrow(tile)]>> >>)

-----------------------------------------------------------------------------
(* The depth of a k tile. *)

Mxfp8TileK(w, m) ==
  FirstOf(<<
    <<HighSmBk64(w), 64>>,
    <<Hinted(w) /\ w.k <= 1024 /\ w.n >= 4096 /\ LowSm(w),
      IF MediumPrefill(w, m) /\ CeilDiv(w.n, 128) <= 2 * w.sms THEN 64 ELSE 128>>,
    <<MediumPrefill(w, m) /\ w.n >= 4096 /\ w.k >= 2048 /\ LowSm(w), 64>>,
    <<w.hint >= 2048 /\ QB(w) /\ LowSm(w), 128>>,
    <<w.hint >= 2048 /\ ((w.n >= 16384 /\ w.k <= 1024) \/ <<w.n, w.k>> = <<4096, 4096>>), 64>>,
    <<TRUE, 128>> >>)

Fp4TileK(w, m, tile) ==
  LET p == PlanM(w, m)
      enough == CASE LowSm(w) -> HalfSms(w)
                  [] ~LowSm(w) /\ p >= 48 -> (w.sms + 2) \div 3
                  [] OTHER -> w.sms + 1
  IN IF /\ p <= 128 /\ w.k >= 4096 /\ w.k % 256 = 0
        /\ tile[2] <= 64 \/ CeilDiv(w.n, tile[2]) >= enough
     THEN 256 ELSE 128

(* Mutant: swapped storage keeps the depth of the unswapped plan. *)
UnswappedTileK(w, m, ts) ==
  IF w.kind \in {"mxfp8", "plain_fp8"} THEN Mxfp8TileK(w, m) ELSE 128

TileK(w, m, ts) ==
  CASE w.kind = "nvfp4" -> Fp4TileK(w, m, ts.tile)
    [] w.kind \in {"mxfp8", "plain_fp8"} /\ w.entry = "dense" /\ ~ts.swap -> Mxfp8TileK(w, m)
    [] OTHER -> 128

-----------------------------------------------------------------------------
(* The policy: how the grid walks the tiles, and how K is split. *)

Tiles(w, m, tile) == CeilDiv(m, tile[1]) * CeilDiv(w.n, tile[2]) * w.l
Generic(w) == w.kind = "mxfp8"           \* generalize_mxfp8_split_k
EightBit(w) == w.kind # "nvfp4"          \* MX-FP6 comes in 8-bit containers

OneTilePerCta(w, m, tile) == Tiles(w, m, tile) <= w.sms
SingleTile(w, m, tile) == OneTilePerCta(w, m, tile) /\ m < 16 /\ m <= tile[1] /\ w.l = 1
Direct(w, m, tile) == OneTilePerCta(w, m, tile) /\ m = 1 /\ w.l = 1

SplitCandidate(w, m, tile) ==
  /\ SingleTile(w, m, tile) /\ EightBit(w) /\ m <= 8
  /\ w.n >= 4096 /\ w.k >= 4096 /\ w.k % 256 = 0

(* Mutant: the regime hint decides on the split, not the live batch size. *)
HintedFourWay(w, m, tile) ==
  /\ Generic(w) /\ LowSm(w) /\ PlanM(w, m) <= 6 /\ w.n >= 64 * w.sms
  /\ w.k \in 4096..6144 /\ FourSlicesDivide(w) /\ w.l = 1 /\ tile = <<32, 64>>

LowSmFourWay(w, m, tile) ==
  /\ Generic(w) /\ LowSm(w) /\ m <= 6 /\ w.n >= 64 * w.sms
  /\ w.k \in 4096..6144 /\ FourSlicesDivide(w) /\ w.l = 1 /\ tile = <<32, 64>>

HighSmSlices(w, m, tile) ==
  LET t == Tiles(w, m, tile)
  IN FirstOf(<<
    <<(m = 8 \/ w.k >= 5120) /\ FourSlicesDivide(w) /\ t * 6 >= w.sms /\ t * 4 <= w.sms, 4>>,
    <<t * 4 >= w.sms, 2>>,
    <<TRUE, 1>> >>)

PolicySlices(w, m, tile) ==
  FirstOf(<<
    <<w.kind = "block_fp8" /\ tile = <<32, 64>> /\ BlockFp8Slices(w, m) > 1,
      BlockFp8Slices(w, m)>>,
    <<LowSmFourWay(w, m, tile), 4>>,
    <<~SplitCandidate(w, m, tile) \/ w.kind = "block_fp8" \/ (Generic(w) /\ LowSm(w)), 1>>,
    <<Generic(w), HighSmSlices(w, m, tile)>>,
    <<m = 8 /\ <<w.n, w.k>> = <<4096, 4096>> /\ tile = <<16, 128>>, 4>>,
    <<TRUE, 2>> >>)

(* Mutant: without a hint, the live batch size decides. *)
LiveUnroll(w, m, tile, tileK) ==
  EightBit(w) /\ w.l = 1 /\ PlanM(w, m) >= (IF LowSm(w) THEN 4096 ELSE 8192)

LargeMUnroll(w, m, tile, tileK) ==
  /\ EightBit(w) /\ w.l = 1
  /\ FirstOf(<<
       <<w.kind = "block_fp8" /\ LowSm(w) /\ tile = <<128, 128>> /\ w.hint >= 2048
           /\ w.k >= 10240, FALSE>>,
       <<Generic(w) /\ LowSm(w) /\ tile = <<128, 128>> /\ tileK = 64
           /\ w.hint \in 1536..2048 /\ w.n >= 4096 /\ w.k >= 2048, TRUE>>,
       <<Generic(w) /\ LowSm(w) /\ tile = <<128, 128>> /\ tileK = 64
           /\ w.hint >= 4096 /\ w.k >= 4096, FALSE>>,
       <<Hinted(w), w.hint >= (IF LowSm(w) THEN 4096 ELSE 8192)>>,
       <<TRUE, ~SingleTile(w, m, tile) /\ ~(EightBit(w) /\ m = 1)>> >>)

(* Swapped and MX-FP6 kernels are not split; MX-FP6 is not unrolled.  A policy *)
(* rebuilt for that is never atomic, any other one is if turbo is on.          *)
FinalPlan(w, m, ts, depth, asked, unroll) ==
  LET rebuilt == \/ ts.swap /\ asked # 1
                 \/ w.kind = "mxfp6" /\ (asked # 1 \/ unroll)
  IN [tile |-> ts.tile, swap |-> ts.swap, tileK |-> depth,
      single |-> SingleTile(w, m, ts.tile), direct |-> Direct(w, m, ts.tile),
      m1 |-> EightBit(w) /\ m = 1, slices |-> IF rebuilt THEN 1 ELSE asked,
      atomic |-> w.turbo /\ ~rebuilt, unroll |-> w.kind # "mxfp6" /\ unroll]

Plan(w, m) ==
  LET ts == TileAndSwap(w, m)
      depth == TileK(w, m, ts)
  IN FinalPlan(w, m, ts, depth, PolicySlices(w, m, ts.tile), LargeMUnroll(w, m, ts.tile, depth))

-----------------------------------------------------------------------------
(* What the entry points and the launch refuse. *)

CanImplement(w, p) ==
  LET mma == IF p.swap THEN <<p.tile[2], p.tile[1]>> ELSE p.tile
  IN /\ w.k % 128 = 0
     /\ w.kind = "block_fp8" => w.n % 128 = 0 /\ w.l = 1 /\ ~p.swap
     /\ p.swap => w.l = 1 /\ w.kind # "block_fp8"
     /\ IF w.kind = "nvfp4"
        THEN /\ p.tile[1] % 64 = 0 /\ p.tile[2] % 16 = 0 /\ p.tile[2] <= 128
             /\ p.tile[2] >= 64 \/ p.swap
        ELSE \/ mma \in {<<16, 64>>, <<16, 128>>, <<32, 64>>, <<32, 128>>}
             \/ mma[1] % 64 = 0 /\ mma[2] % 64 = 0

TiledRhsOk(w, p) ==
  LET shape == <<w.n, w.k, w.l>>
  IN /\ IsMxfp8(w) /\ ~p.swap
     /\ \/ w.entry = "fused" /\ shape = <<4096, 4096, 1>> /\ p.tile \in {<<16, 64>>, <<16, 128>>}
        \/ /\ w.entry = "dense" /\ shape = <<1024, 4096, 4>>
           /\ p.tile \in {<<16, 64>>, <<32, 64>>, <<64, 64>>}
        \/ /\ w.entry = "dense" /\ shape = <<4096, 4096, 1>>
           /\ p.tile \in {<<16, 128>>, <<32, 64>>, <<32, 128>>}

FusedOk(w, m, p) == m <= 8 /\ w.k % 128 = 0 /\ ~p.swap
GroupedOk(w, m, p) == FusedOk(w, m, p) /\ p.slices = 1

Accepts(w, m, p) ==
  /\ CanImplement(w, p)
  /\ w.tiled => TiledRhsOk(w, p)
  /\ IsMxfp8(w) /\ p.tileK = 64 => p.tile[1] = 128 /\ ~p.swap
  /\ w.kind = "mxfp6" => ~p.swap
  /\ w.l > 1 => ~p.swap
  /\ UnalignedRows(w, m) /\ w.entry = "dense" => p.swap
  /\ w.entry = "fused" => FusedOk(w, m, p)
  /\ w.entry = "grouped" => GroupedOk(w, m, p)

-----------------------------------------------------------------------------
(* The launch: resident CTAs per SM, active CTAs, and the compile key. *)

(* Mutant: two CTAs per SM whatever the rows of the tile. *)
TwiceForShortK(w, p) ==
  IF EightBit(w) /\ p.tileK = 128 /\ w.k <= 1024 /\ ~p.swap
     /\ CeilDiv(w.n, p.tile[2]) * w.l >= 2 * w.sms
  THEN 2 ELSE 1

Occupancy(w, p) ==
  LET columns == CeilDiv(w.n, p.tile[2]) * w.l
      c16 == p.slices = 1 \/ p.atomic
  IN IF /\ w.entry = "dense" /\ EightBit(w) /\ c16 /\ p.tileK = 128 /\ ~p.swap /\ ~w.tiled
        /\ \/ w.kind = "mxfp6" /\ p.tile = <<16, 64>> /\ columns > w.sms
           \/ p.tile[1] = 16 /\ w.k <= 1024 /\ columns >= 2 * w.sms
     THEN 2 ELSE 1

TileMajorLimit(w, p, active) ==
  IF CeilDiv(w.n, p.tile[2]) * w.l = 64 THEN Min({active, 40}) ELSE active

Active(w, p) ==
  LET active == w.sms * Occupancy(w, p)
      capped == /\ p.tile = <<32, 64>> /\ p.tileK = 128 /\ w.tiled
                /\ w.reuse /\ ~p.swap /\ ~w.alpha
  IN IF capped THEN TileMajorLimit(w, p, active) ELSE active

DirectSfaLive16(w, m, p) ==
  /\ m = 16 /\ IsMxfp8(w) /\ p.tileK = 128 /\ p.tile = <<32, 64>> /\ ~p.swap
  /\ w.tiled /\ w.reuse /\ ~w.alpha
  /\ <<w.n, w.k, w.l>> \in {<<1024, 4096, 4>>, <<4096, 4096, 1>>}
DirectM1Inputs(w, m, p) ==
  /\ m = 1 /\ <<w.n, w.k, w.l>> = <<1024, 4096, 4>> /\ IsMxfp8(w) /\ p.tileK = 128
  /\ p.tile = <<16, 64>> /\ ~p.swap /\ w.tiled /\ w.reuse

CompileKey(w, m, p) ==
  [entry |-> w.entry, wide |-> w.entry # "dense" /\ m = 1, plan |-> p,
   planes |-> IF p.slices > 1 /\ ~p.atomic THEN p.slices ELSE w.l,
   active |-> Active(w, p), occupancy |-> Occupancy(w, p),
   live16 |-> w.entry = "dense" /\ DirectSfaLive16(w, m, p),
   m1Inputs |-> w.entry = "dense" /\ DirectM1Inputs(w, m, p)]
-----------------------------------------------------------------------------
(* Shared memory of a CTA: stages of A, B and their scales, and the         *)
(* buffers of the epilogue.                                                 *)

Bytes(w, elements) == IF w.kind = "nvfp4" THEN elements \div 2 ELSE elements
ScaleTileBytes(w, rows, depth) ==
  CASE w.kind = "block_fp8" -> 4
    [] w.kind = "nvfp4" -> (Max({128, rows}) * depth) \div 16
    [] OTHER -> (Max({128, rows}) * depth) \div 32

StageBytes(w, p) ==
  Bytes(w, (p.tile[1] + p.tile[2]) * p.tileK)
    + ScaleTileBytes(w, p.tile[1], p.tileK) + ScaleTileBytes(w, p.tile[2], p.tileK)

EpilogueBytes(p, epi) == epi[1] * epi[2] * (IF p.slices > 1 /\ ~p.atomic THEN 4 ELSE 2)
EpilogueStages(p, epi, limit) ==
  LET most == Min({(p.tile[2] \div epi[2]) * (p.tile[1] \div epi[1]), 4})
  IN IF limit = 0 THEN most ELSE Min({most, limit})

CtaCapacity(w, p) == (SmemCapacity - Occupancy(w, p) * 1024) \div Occupancy(w, p)

(* _compute_stages: at least one stage, however little is left. *)
AbStages(w, p, epi, limit) ==
  LET raw == (CtaCapacity(w, p) - 1024 - EpilogueBytes(p, epi) * EpilogueStages(p, epi, limit))
               \div StageBytes(w, p)
      deepest == FirstOf(<<
        <<w.kind = "mxfp6" /\ Occupancy(w, p) >= 2 /\ p.tile[1] <= 16, 3>>,
        <<w.kind = "mxfp6" \/ (p.tile[1] \in {16, 64} /\ p.tile[2] = 128), 5>>,
        <<TRUE, 4>> >>)
  IN Max({1, Min({raw, deepest})})

(* _choose_epilogue: MX-FP6 halves the epilogue tile when that deepens the  *)
(* mainloop, unless results go straight from registers to C.                *)
Epilogue(w, p) ==
  LET whole == [tile |-> p.tile, limit |-> 0]
      half == [tile |-> <<p.tile[1] \div 2, p.tile[2] \div 2>>, limit |-> 2]
      atomRows == IF p.tile[1] = 16 THEN 16 ELSE IF p.tile[1] = 32 THEN 32 ELSE 64
      legal == half.tile[1] % atomRows = 0 /\ half.tile[1] > 0 /\ half.tile[2] % 16 = 0
  IN IF /\ w.kind = "mxfp6" /\ ~p.m1 /\ legal
        /\ AbStages(w, p, half.tile, half.limit) > AbStages(w, p, p.tile, 0)
     THEN half ELSE whole

-----------------------------------------------------------------------------
(* The grid.  CTA z of a slice starts with tile z and, unless it computes a *)
(* single one, goes on by the size of the grid.                             *)

KTiles(w, p) == w.k \div p.tileK
SliceKTiles(w, p, s) ==
  LET per == KTiles(w, p) \div p.slices IN (s * per)..((s + 1) * per - 1)

Grid(w, m, p) ==
  IF p.slices > 1 THEN [y |-> p.slices, z |-> CeilDiv(w.n, p.tile[2])]
  ELSE [y |-> 1, z |-> Min({Tiles(w, m, p.tile), Active(w, p)})]

Owner(g, p, t) == IF p.single \/ p.direct THEN t ELSE t % (g.y * g.z)

AllTilesComputed(w, m, p) ==
  LET g == Grid(w, m, p) IN \A t \in 0..(Tiles(w, m, p.tile) - 1) : Owner(g, p, t) < g.z

-----------------------------------------------------------------------------
NoCall == [pc |-> "idle", m |-> 0, plan |-> <<>>, key |-> <<>>, partials |-> {}, out |-> {}]

Init ==
  /\ weight \in Weights
  /\ frozen = FALSE /\ kernels = {}
  /\ call = NoCall

(* A batch of m rows reaches the weight. *)
Serve ==
  /\ call.pc = "idle"
  /\ \E m \in IF frozen \/ ~weight.freezes THEN Served ELSE Warmed :
       /\ weight.entry # "dense" => m <= 8
       /\ call' = [NoCall EXCEPT !.pc = "plan", !.m = m]
  /\ UNCHANGED <<weight, frozen, kernels>>

MakePlan ==
  /\ call.pc = "plan"
  /\ LET p == Plan(weight, call.m)
     IN call' = [call EXCEPT !.plan = p, !.key = CompileKey(weight, call.m, p),
                             !.pc = IF Accepts(weight, call.m, p) THEN "resolve"
                                    ELSE "rejected"]
  /\ UNCHANGED <<weight, frozen, kernels>>

Resolve ==
  /\ call.pc = "resolve"
  /\ \/ /\ call.key \in kernels
        /\ call' = [call EXCEPT !.pc = "launch"] /\ UNCHANGED kernels
     \/ /\ call.key \notin kernels /\ ~frozen
        /\ kernels' = kernels \union {call.key}
        /\ call' = [call EXCEPT !.pc = "launch"]
     \/ /\ call.key \notin kernels /\ frozen
        /\ call' = [call EXCEPT !.pc = "unresolved"] /\ UNCHANGED kernels
  /\ UNCHANGED <<weight, frozen>>

(* C is a sum over K: out is the k tiles added into all of it.  Partials    *)
(* go to planes of their own.                                               *)
Launch ==
  /\ call.pc = "launch"
  /\ LET p == call.plan
         slices == IF AllTilesComputed(weight, call.m, p) THEN 0..(p.slices - 1) ELSE {}
     IN call' = IF p.slices > 1 /\ ~p.atomic
                THEN [call EXCEPT !.pc = "reduce", !.partials = slices]
                ELSE [call EXCEPT !.pc = "done",
                                  !.out = UNION {SliceKTiles(weight, p, s) : s \in slices}]
  /\ UNCHANGED <<weight, frozen, kernels>>

(* _reduce_split_k2_bf16 adds planes 0 and 1. *)
Reduce ==
  /\ call.pc = "reduce"
  /\ call' = [call EXCEPT !.pc = "done",
                !.out = UNION {SliceKTiles(weight, call.plan, s)
                                 : s \in call.partials \intersect {0, 1}}]
  /\ UNCHANGED <<weight, frozen, kernels>>

Return ==
  /\ call.pc \in {"done", "rejected"}
  /\ call' = NoCall
  /\ UNCHANGED <<weight, frozen, kernels>>

Freeze ==
  /\ call.pc = "idle" /\ weight.freezes /\ ~frozen
  /\ \A m \in Warmed : (weight.entry = "dense" \/ m <= 8) =>
       LET p == Plan(weight, m)
       IN Accepts(weight, m, p) => CompileKey(weight, m, p) \in kernels
  /\ frozen' = TRUE
  /\ UNCHANGED <<weight, kernels, call>>

Next == Serve \/ MakePlan \/ Resolve \/ Launch \/ Reduce \/ Return \/ Freeze
Spec == Init /\ [][Next]_vars

-----------------------------------------------------------------------------
(* What the planner promises, to a server that                              *)
(*   - adds the partials of a split into four atomically (the default of    *)
(*     B12X_DENSE_SPLITK_TURBO): the reduction of partials adds two;        *)
(*   - on 64 SMs or more gives no tile-major B the tile <<32, 64>>, for     *)
(*     which the grid is capped at 40 CTAs, while each computes one tile.   *)

FourWayIsAtomic ==
  \A w \in Weights, m \in Warmed \union Served : Plan(w, m).slices = 4 => Plan(w, m).atomic
SingleTilesUncapped ==
  \A w \in Weights :
    w.entry = "dense" /\ w.tiled /\ w.reuse /\ ~w.alpha /\ w.l = 1 /\ w.sms >= 64 =>
      \A m \in Warmed \union Served : m < 16 => TileAndSwap(w, m).tile # <<32, 64>>

(* Every tile of C is computed, over all of K and every slice of it once,   *)
(* whatever tile, split, grid cap and reduction were chosen.                *)
OutputComplete == call.pc = "done" => call.out = 0..(KTiles(weight, call.plan) - 1)

(* Kernels compiled while warming up serve every later batch size of their  *)
(* regime: none needs a compile that the freeze forbids.                    *)
NeverRecompiles == call.pc # "unresolved"

(* The planner chooses nothing that the checks after it, or the kernel,     *)
(* refuse: the deep k tile against the rows of the tile, the swapped        *)
(* storage, the tiles the MMA has.  Rows of C that cannot be stored are     *)
(* the caller's fault unless swapped storage exists for them.               *)
NotRefused ==
  weight.tile = NoTile /\ ~weight.tiled /\ ((2 * weight.n) % 16 = 0 \/ weight.kind = "mxfp8")
    => call.pc # "rejected"

(* The stages a kernel was given fit into the shared memory of a CTA: the   *)
(* floor of one stage never hides that there is room for none.              *)
StagesFit ==
  call.pc \in {"launch", "reduce", "done"} =>
    LET e == Epilogue(weight, call.plan)
    IN 1024 + EpilogueBytes(call.plan, e.tile) * EpilogueStages(call.plan, e.tile, e.limit)
            + AbStages(weight, call.plan, e.tile, e.limit) * StageBytes(weight, call.plan)
         <= CtaCapacity(weight, call.plan)

(* A plan can be built and launched: no check refuses it, and its stages    *)
(* fit, at the occupancy it was given.                                      *)
PlansBuild == NotRefused /\ StagesFit
=============================================================================

----------------------- MODULE DenseGemmPlan_proofs -----------------------
(***************************************************************************)
(* Proofs about DenseGemmPlan: whatever shape, part, tile and split a plan *)
(* has, the tiles of C are dealt to the CTAs completely and K is summed    *)
(* over all of its k tiles.                                                *)
(***************************************************************************)
EXTENDS DenseGemmPlan, SequenceLemmas

Positive == Nat \ {0}
Shapes == Positive \X Positive
WeightOk(w) ==
  /\ w.kind \in {"mxfp8", "plain_fp8", "block_fp8", "nvfp4", "mxfp6"}
  /\ w.entry \in {"dense", "fused", "grouped"}
  /\ w.n \in Positive /\ w.k \in Positive /\ w.l \in Positive /\ w.sms \in Positive
  /\ w.hint \in Nat
  /\ w.tile # NoTile => w.tile \in Shapes

-----------------------------------------------------------------------------
(* Rules. *)

(* The rules have an outcome: that of the first one whose condition holds.  *)
LEMMA FirstFires ==
  ASSUME NEW n \in Nat \ {0}, NEW rules, DOMAIN rules = 1..n, rules[n][1]
  PROVE  \E i \in 1..n : /\ rules[i][1] /\ \A h \in 1..(i - 1) : ~rules[h][1]
                         /\ FirstOf(rules) = rules[i][2]
<1> DEFINE T == {i \in 1..n : rules[i][1]}
<1>1. \E x \in T : \A y \in T : x <= y
  <2>1. n \in T
    OBVIOUS
  <2>2. T \in SUBSET Nat /\ T # {}
    BY <2>1
  <2> HIDE DEF T
  <2>3. QED
    BY <2>2, LeastNatural
<1>2. \E i \in 1..n : rules[i][1] /\ \A h \in 1..(i - 1) : ~rules[h][1]
  <2>1. PICK x \in T : \A y \in T : x <= y
    BY <1>1
  <2>2. \A h \in 1..(x - 1) : h \notin T
    BY <2>1
  <2>3. QED
    BY <2>1, <2>2
<1>3. QED
  BY <1>2 DEF FirstOf

(* It is in every set that holds all outcomes.                              *)
LEMMA FirstIn ==
  ASSUME NEW S, NEW n \in Nat \ {0}, NEW rules, DOMAIN rules = 1..n, rules[n][1],
         \A i \in 1..n : rules[i][2] \in S
  PROVE  FirstOf(rules) \in S
BY FirstFires

-----------------------------------------------------------------------------
(* Tiles and depths. *)

(* Whatever rule gives a tile, it has rows and columns: MXFP8 with a hint,  *)
LEMMA HintedShape ==
  ASSUME NEW w
  PROVE  HintedWideTile(w) \in Shapes
<1> DEFINE rules == <<
      <<w.hint >= 2048 /\ QB(w) /\ LowSm(w), <<64, 128>> >>,
      <<HighSmBk64(w), <<128, 128>> >>,
      <<w.hint >= 2048 /\ ~LowSm(w) /\ w.k >= 2048 /\ w.n <= 8192, <<128, 64>> >>,
      <<w.hint >= 2048 /\ w.n >= 16384 /\ w.k <= 1024, <<128, 128>> >>,
      <<w.hint = 1, <<16, 64>> >>,
      <<w.hint <= 16 /\ QB(w) /\ LowSm(w), <<16, 64>> >>,
      <<w.hint <= 8 \/ (w.hint <= 16 /\ QB(w)), <<16, 128>> >>,
      <<w.hint <= 128, <<32, 128>> >>,
      <<TRUE, <<64, 128>> >> >>
<1>1. DOMAIN rules = 1..9 /\ rules[9][1]
  OBVIOUS
<1>2. \A i \in 1..9 : rules[i][2] \in Shapes
  BY DEF Shapes, Positive
<1>3. 9 \in Nat \ {0}
  OBVIOUS
<1> HIDE DEF rules
<1>4. FirstOf(rules) \in Shapes
  BY <1>1, <1>2, <1>3, FirstIn, Zenon
<1>5. QED
  BY <1>4 DEF HintedWideTile, rules

(* MXFP8,                                                                   *)
LEMMA Mxfp8Shape ==
  ASSUME NEW w, NEW m
  PROVE  Mxfp8Tile(w, m) \in Shapes
<1> DEFINE rules == <<
      <<w.hint >= 2048 /\ <<w.n, w.k>> = <<4096, 4096>>, <<128, 128>> >>,
      <<w.n > 1536 /\ Hinted(w), HintedWideTile(w)>>,
      <<w.n > 1536 /\ m = 1, <<16, 64>> >>,
      <<w.n > 1536 /\ m <= 8, <<16, 128>> >>,
      <<w.n > 1536, <<64, 128>> >>,
      <<PlanM(w, m) = 1, <<16, 64>> >>,
      <<w.hint >= 2048 /\ ~LowSm(w) /\ w.k >= 2048, <<128, 64>> >>,
      <<w.hint > 128, <<64, 128>> >>,
      <<TRUE, <<64, 64>> >> >>
<1>1. DOMAIN rules = 1..9 /\ rules[9][1]
  OBVIOUS
<1>2. \A i \in 1..9 : rules[i][2] \in Shapes
  BY HintedShape DEF Shapes, Positive
<1>3. 9 \in Nat \ {0}
  OBVIOUS
<1> HIDE DEF rules
<1>4. FirstOf(rules) \in Shapes
  BY <1>1, <1>2, <1>3, FirstIn, Zenon
<1>5. QED
  BY <1>4 DEF Mxfp8Tile, rules

(* NVFP4,                                                                   *)
LEMMA Fp4Shape ==
  ASSUME NEW w, NEW m
  PROVE  Fp4Tile(w, m) \in Shapes
<1> DEFINE p == PlanM(w, m)
           starved(x) == CeilDiv(x, 128) * CeilDiv(w.n, 128) < HalfSms(w)
           rules == <<
      <<~LowSm(w) /\ p <= 128 /\ w.k >= 4096 /\ (w.n <= 4096 \/ (p >= 64 /\ w.n <= 6144)),
        <<64, 64>> >>,
      <<p = 1 /\ w.n <= 512 /\ w.k >= 4096, <<64, 32>> >>,
      <<p = 1 /\ w.n <= 1024, <<64, 64>> >>,
      <<p = 1, <<64, 128>> >>,
      <<p \in 48..64 /\ w.n >= 4096 /\ w.k >= 5120 /\ LowSm(w), <<64, 32>> >>,
      <<~LowSm(w) /\ p \in 1024..2048 /\ starved(p), <<64, 128>> >>,
      <<w.n > 1536 /\ m <= 64 /\ CeilDiv(w.n, 128) >= 2 * w.sms, <<64, 64>> >>,
      <<w.n > 1536 /\ m <= 64, <<64, 128>> >>,
      <<w.n > 1536 /\ m <= 256 /\ starved(m), <<64, 128>> >>,
      <<m <= 128 /\ starved(m) /\ CeilDiv(m, 128) * CeilDiv(w.n, 64) < HalfSms(w), <<64, 64>> >>,
      <<m <= 128 /\ starved(m), <<128, 64>> >>,
      <<TRUE, <<128, 128>> >> >>
<1>1. DOMAIN rules = 1..12 /\ rules[12][1]
  OBVIOUS
<1>2. \A i \in 1..12 : rules[i][2] \in Shapes
  BY DEF Shapes, Positive
<1>3. 12 \in Nat \ {0}
  OBVIOUS
<1> HIDE DEF rules
<1>4. FirstOf(rules) \in Shapes
  BY <1>1, <1>2, <1>3, FirstIn, Zenon
<1>5. QED
  BY <1>4 DEF Fp4Tile, rules

(* block FP8,                                                               *)
LEMMA BlockFp8Shape ==
  ASSUME NEW w, NEW m, NEW tile \in Shapes
  PROVE  BlockFp8Tile(w, m, tile) \in Shapes
<1> DEFINE p == PlanM(w, m)
           tiles == CeilDiv(p, 64) * CeilDiv(w.n, 128)
           rules == <<
      <<BlockFp8Slices(w, p) > 1, <<32, 64>> >>,
      <<~LowSm(w) /\ p >= 2048, <<64, 128>> >>,
      <<~LowSm(w) /\ p \in 96..128 /\ (w.sms + 1) \div 2 <= tiles /\ tiles <= w.sms,
        <<64, 128>> >>,
      <<LowSm(w) /\ p \in 96..128 /\ w.k >= 8192 /\ CeilDiv(w.n, 128) < w.sms, <<128, 128>> >>,
      <<LowSm(w) /\ w.hint >= 2048 /\ w.k >= 10240, <<128, 128>> >>,
      <<TRUE, tile>> >>
<1>1. DOMAIN rules = 1..6 /\ rules[6][1]
  OBVIOUS
<1>2. \A i \in 1..6 : rules[i][2] \in Shapes
  BY DEF Shapes, Positive
<1>3. 6 \in Nat \ {0}
  OBVIOUS
<1> HIDE DEF rules
<1>4. FirstOf(rules) \in Shapes
  BY <1>1, <1>2, <1>3, FirstIn, Zenon
<1>5. QED
  BY <1>4 DEF BlockFp8Tile, rules

(* MXFP8 on few SMs with a short K                                          *)
LEMMA ShortKShape ==
  ASSUME NEW w, NEW m, NEW tile \in Shapes
  PROVE  ShortKTile(w, m, tile) \in Shapes
<1> DEFINE p == PlanM(w, m)
           rules == <<
      <<p <= 6, <<16, 64>> >>,
      <<MediumPrefill(w, m) /\ CeilDiv(w.n, 128) <= 2 * w.sms, <<128, 128>> >>,
      <<p > 128, <<64, 128>> >>,
      <<TRUE, tile>> >>
<1>1. DOMAIN rules = 1..4 /\ rules[4][1]
  OBVIOUS
<1>2. \A i \in 1..4 : rules[i][2] \in Shapes
  BY DEF Shapes, Positive
<1>3. 4 \in Nat \ {0}
  OBVIOUS
<1> HIDE DEF rules
<1>4. FirstOf(rules) \in Shapes
  BY <1>1, <1>2, <1>3, FirstIn, Zenon
<1>5. QED
  BY <1>4 DEF ShortKTile, rules

(* and with any K.                                                          *)
LEMMA LowSmShape ==
  ASSUME NEW w, NEW m, NEW tile \in Shapes
  PROVE  LowSmMxfp8Tile(w, m, tile) \in Shapes
<1> DEFINE short == ShortKTile(w, m, tile)
           p == PlanM(w, m)
           rules == <<
      <<w.k <= 1024 /\ w.n >= 4096, short>>,
      <<p <= 6 /\ FourSlicesDivide(w) /\ w.k \in 4096..6144 /\ CeilDiv(w.n, 64) >= w.sms,
        <<32, 64>> >>,
      <<MediumPrefill(w, m) /\ w.n >= 4096 /\ w.k >= 2048, <<128, 128>> >>,
      <<p \in 512..3072 /\ w.n \in 1537..4095, <<128, 64>> >>,
      <<TRUE, tile>> >>
<1>0. short \in Shapes
  BY ShortKShape
<1> HIDE DEF short, p
<1>1. DOMAIN rules = 1..5 /\ rules[5][1]
  OBVIOUS
<1>2. \A i \in 1..5 : rules[i][2] \in Shapes
  <2>1. /\ rules[1][2] = short /\ rules[2][2] = <<32, 64>> /\ rules[3][2] = <<128, 128>>
        /\ rules[4][2] = <<128, 64>> /\ rules[5][2] = tile
    OBVIOUS
  <2> HIDE DEF rules
  <2>2. {<<32, 64>>, <<128, 128>>, <<128, 64>>} \subseteq Shapes
    BY DEF Shapes, Positive
  <2>3. QED
    BY <1>0, <2>1, <2>2
<1>3. 5 \in Nat \ {0}
  OBVIOUS
<1> HIDE DEF rules
<1>4. FirstOf(rules) \in Shapes
  BY <1>1, <1>2, <1>3, FirstIn, Zenon
<1>5. QED
  BY <1>4 DEF LowSmMxfp8Tile, rules, short, p

(* An MXFP8 k tile is 64 or 128 deep.                                       *)
LEMMA Depth ==
  ASSUME NEW w, NEW m
  PROVE  Mxfp8TileK(w, m) \in {64, 128}
<1> DEFINE S == {64, 128}
           rules == <<
      <<HighSmBk64(w), 64>>,
      <<Hinted(w) /\ w.k <= 1024 /\ w.n >= 4096 /\ LowSm(w),
        IF MediumPrefill(w, m) /\ CeilDiv(w.n, 128) <= 2 * w.sms THEN 64 ELSE 128>>,
      <<MediumPrefill(w, m) /\ w.n >= 4096 /\ w.k >= 2048 /\ LowSm(w), 64>>,
      <<w.hint >= 2048 /\ QB(w) /\ LowSm(w), 128>>,
      <<w.hint >= 2048 /\ ((w.n >= 16384 /\ w.k <= 1024) \/ <<w.n, w.k>> = <<4096, 4096>>), 64>>,
      <<TRUE, 128>> >>
<1>1. DOMAIN rules = 1..6 /\ rules[6][1]
  OBVIOUS
<1>2. \A i \in 1..6 : rules[i][2] \in S
  OBVIOUS
<1>3. 6 \in Nat \ {0}
  OBVIOUS
<1> HIDE DEF rules, S
<1>4. FirstOf(rules) \in S
  BY <1>1, <1>2, <1>3, FirstIn, Zenon
<1>5. QED
  BY <1>4 DEF Mxfp8TileK, rules, S

(* A deep K on few columns.                                                  *)
LEMMA DeepKShape ==
  ASSUME NEW w, NEW tile \in Shapes
  PROVE  DeepKTile(w, tile) \in Shapes
<1> DEFINE rules == <<
      <<w.hint <= 8, <<16, 64>> >>,
      <<w.hint >= 2048, IF LowSm(w) THEN <<128, 128>> ELSE <<128, 64>> >>,
      <<TRUE, tile>> >>
<1>1. DOMAIN rules = 1..3 /\ rules[3][1]
  OBVIOUS
<1>2. \A i \in 1..3 : rules[i][2] \in Shapes
  BY DEF Shapes, Positive
<1>3. 3 \in Nat \ {0}
  OBVIOUS
<1> HIDE DEF rules
<1>4. FirstOf(rules) \in Shapes
  BY <1>1, <1>2, <1>3, FirstIn, Zenon
<1>5. FirstOf(<<
      <<w.hint <= 8, <<16, 64>> >>,
      <<w.hint >= 2048, IF LowSm(w) THEN <<128, 128>> ELSE <<128, 64>> >>,
      <<TRUE, tile>> >>) \in Shapes
  BY <1>4 DEF rules
<1>6. QED
  BY <1>5 DEF DeepKTile

(* The tile of a weight of any kind, before storage is swapped,              *)
LEMMA PlannedShape ==
  ASSUME NEW w, WeightOk(w), NEW m
  PROVE  PlannedTile(w, m) \in Shapes
<1>1. Fp6Tile(w, m) \in Shapes
  BY DEF Fp6Tile, Shapes, Positive
<1>2. SelectedTile(w, m) \in Shapes
  BY <1>1, Mxfp8Shape, Fp4Shape DEF SelectedTile, WeightOk, IsMxfp8
<1> DEFINE tile == SelectedTile(w, m)
           low == IF LowSm(w) THEN LowSmMxfp8Tile(w, m, tile) ELSE tile
<1>3. low \in Shapes
  BY <1>2, LowSmShape
<1> HIDE DEF low
<1>4. DeepKTile(w, low) \in Shapes /\ BlockFp8Tile(w, m, tile) \in Shapes
  BY <1>2, <1>3, DeepKShape, BlockFp8Shape
<1>5. QED
  BY <1>2, <1>4, Zenon DEF PlannedTile, low

(* and after.                                                                *)
LEMMA TileShape ==
  ASSUME NEW w, WeightOk(w), NEW m
  PROVE  TileAndSwap(w, m).tile \in Shapes
<1> DEFINE tile == PlannedTile(w, m)
           narrow(t) == w.kind = "nvfp4" /\ t[2] < 64
           rules == <<
      <<w.tile # NoTile, [tile |-> w.tile, swap |-> narrow(w.tile) /\ narrow(Fp4Tile(w, m))]>>,
      <<SwapsStorage(w, m) /\ (w.n < 64 \/ (w.n <= 256 /\ tile = <<64, 64>>)),
        [tile |-> <<64, 32>>, swap |-> TRUE]>>,
      <<SwapsStorage(w, m), [tile |-> <<tile[2], tile[1]>>, swap |-> TRUE]>>,
      <<TRUE, [tile |-> tile, swap |-> narrow(tile)]>> >>
<1>1. DOMAIN rules = 1..4 /\ rules[4][1]
  OBVIOUS
<1>2. tile \in Shapes
  BY PlannedShape
<1>3. rules[1][1] => rules[1][2].tile \in Shapes
  BY DEF WeightOk
<1>4. /\ rules[2][2].tile \in Shapes /\ rules[3][2].tile \in Shapes
      /\ rules[4][2].tile \in Shapes
  <2> HIDE DEF tile
  <2>1. <<tile[2], tile[1]>> \in Shapes /\ <<64, 32>> \in Shapes
    BY <1>2 DEF Shapes, Positive
  <2>2. QED
    BY <1>2, <2>1
<1>5. 4 \in Nat \ {0}
  OBVIOUS
<1> HIDE DEF rules, tile
<1>6. PICK i \in 1..4 : rules[i][1] /\ FirstOf(rules) = rules[i][2]
  BY <1>1, <1>5, FirstFires, Zenon
<1>7. rules[i][2].tile \in Shapes
  BY <1>3, <1>4, <1>6
<1>8. QED
  BY <1>6, <1>7, Zenon DEF TileAndSwap, rules, tile

-----------------------------------------------------------------------------
(* Splits. *)

(* How block FP8 splits K.                                                   *)
LEMMA BlockFp8Split ==
  ASSUME NEW w, WeightOk(w), NEW m \in Positive
  PROVE  /\ BlockFp8Slices(w, m) \in {1, 2, 4}
         /\ BlockFp8Slices(w, m) # 1 => m <= 6 /\ w.k % 256 = 0
         /\ BlockFp8Slices(w, m) = 4 => w.k % 512 = 0
<1> DEFINE whole == m > 6 \/ CeilDiv(w.n, 64) < (2 * w.sms + 2) \div 3 \/ w.k < 4096
           halves == w.k <= 4352 /\ w.k % 256 = 0
           rules == <<
      <<whole, 1>>,
      <<FourSlicesDivide(w), 4>>,
      <<halves, 2>>,
      <<TRUE, 1>> >>
<1>1. DOMAIN rules = 1..4 /\ rules[4][1]
  OBVIOUS
<1>2. /\ rules[1][2] = 1 /\ rules[2][2] = 4 /\ rules[3][2] = 2 /\ rules[4][2] = 1
      /\ ~rules[1][1] => m <= 6
      /\ rules[2][1] => w.k % 512 = 0
      /\ rules[3][1] => w.k % 256 = 0
  <2>1. rules[1][2] = 1 /\ rules[2][2] = 4 /\ rules[3][2] = 2 /\ rules[4][2] = 1
    OBVIOUS
  <2>2. ~whole /\ m \in Nat => m <= 6
    <3> HIDE DEF rules
    <3>1. QED
      OBVIOUS
  <2>3. rules[2][1] => w.k % 512 = 0
    BY DEF FourSlicesDivide
  <2>2a. halves => w.k % 256 = 0
    <3> HIDE DEF rules
    <3>1. QED
      OBVIOUS
  <2> HIDE DEF whole, halves
  <2>4. rules[1][1] = whole /\ rules[3][1] = halves
    OBVIOUS
  <2> HIDE DEF rules
  <2>5. ~rules[1][1] => m <= 6
    BY <2>2, <2>4 DEF Positive
  <2>6. rules[3][1] => w.k % 256 = 0
    BY <2>2a, <2>4
  <2>7. QED
    BY <2>1, <2>3, <2>5, <2>6
<1>3. 4 \in Nat \ {0}
  OBVIOUS
<1> HIDE DEF rules, whole, halves
<1>4. PICK i \in 1..4 : /\ rules[i][1] /\ \A h \in 1..(i - 1) : ~rules[h][1]
                        /\ FirstOf(rules) = rules[i][2]
  BY <1>1, <1>3, FirstFires, Zenon
<1>5. w.k % 512 = 0 => w.k % 256 = 0
  BY DEF WeightOk, Positive
<1>6. CASE LowSm(w)
  <2>0. BlockFp8Slices(w, m) = FirstOf(rules)
    BY <1>6 DEF BlockFp8Slices, rules, whole, halves
  <2>1. BlockFp8Slices(w, m) = rules[i][2]
    BY <1>4, <2>0, Zenon
  <2>2. i > 1 => ~rules[1][1]
    BY <1>4
  <2>3. i = 1 \/ i = 2 \/ i = 3 \/ i = 4
    OBVIOUS
  <2>4. QED
    BY <1>2, <1>4, <1>5, <2>1, <2>2, <2>3
<1>7. CASE ~LowSm(w)
  BY <1>7 DEF BlockFp8Slices, Positive
<1>8. QED
  BY <1>6, <1>7

(* How MXFP8 does on many SMs.                                               *)
LEMMA HighSmSplit ==
  ASSUME NEW w, NEW m, NEW tile
  PROVE  /\ HighSmSlices(w, m, tile) \in {1, 2, 4}
         /\ HighSmSlices(w, m, tile) = 4 => w.k % 512 = 0
<1> DEFINE t == Tiles(w, m, tile)
           rules == <<
      <<(m = 8 \/ w.k >= 5120) /\ FourSlicesDivide(w) /\ t * 6 >= w.sms /\ t * 4 <= w.sms, 4>>,
      <<t * 4 >= w.sms, 2>>,
      <<TRUE, 1>> >>
<1>1. DOMAIN rules = 1..3 /\ rules[3][1]
  OBVIOUS
<1>2. /\ rules[1][2] = 4 /\ rules[2][2] = 2 /\ rules[3][2] = 1
      /\ rules[1][1] => w.k % 512 = 0
  <2> HIDE DEF t
  <2>1. QED
    BY DEF FourSlicesDivide
<1>3. 3 \in Nat \ {0}
  OBVIOUS
<1> HIDE DEF rules, t
<1>4. PICK i \in 1..3 : rules[i][1] /\ FirstOf(rules) = rules[i][2]
  BY <1>1, <1>3, FirstFires, Zenon
<1>5. HighSmSlices(w, m, tile) = rules[i][2]
  <2>1. HighSmSlices(w, m, tile) = FirstOf(rules)
    BY Zenon DEF HighSmSlices, rules, t
  <2>2. QED
    BY <1>4, <2>1, Zenon
<1>6. i = 1 \/ i = 2 \/ i = 3
  OBVIOUS
<1>7. QED
  BY <1>2, <1>4, <1>5, <1>6

(* A split has one row of tiles, and its slices divide K into whole k tiles. *)
LEMMA PolicySplit ==
  ASSUME NEW w, WeightOk(w), NEW m \in Positive, NEW tile \in Shapes
  PROVE  /\ PolicySlices(w, m, tile) \in {1, 2, 4}
         /\ PolicySlices(w, m, tile) # 1 =>
              /\ w.kind # "nvfp4" /\ w.k % 256 = 0
              /\ m <= tile[1] /\ (w.l = 1 \/ w.kind = "block_fp8")
         /\ PolicySlices(w, m, tile) = 4 => w.k % 512 = 0
<1> DEFINE square == m = 8 /\ <<w.n, w.k>> = <<4096, 4096>> /\ tile = <<16, 128>>
           rules == <<
      <<w.kind = "block_fp8" /\ tile = <<32, 64>> /\ BlockFp8Slices(w, m) > 1,
        BlockFp8Slices(w, m)>>,
      <<LowSmFourWay(w, m, tile), 4>>,
      <<~SplitCandidate(w, m, tile) \/ w.kind = "block_fp8" \/ (Generic(w) /\ LowSm(w)), 1>>,
      <<Generic(w), HighSmSlices(w, m, tile)>>,
      <<square, 4>>,
      <<TRUE, 2>> >>
<1>1. DOMAIN rules = 1..6 /\ rules[6][1]
  OBVIOUS
<1>2. /\ rules[1][2] = BlockFp8Slices(w, m) /\ rules[2][2] = 4 /\ rules[3][2] = 1
      /\ rules[4][2] = HighSmSlices(w, m, tile) /\ rules[5][2] = 4 /\ rules[6][2] = 2
  OBVIOUS
<1>3. /\ rules[1][1] => w.kind = "block_fp8" /\ tile = <<32, 64>>
      /\ rules[2][1] => LowSmFourWay(w, m, tile)
      /\ ~rules[3][1] => SplitCandidate(w, m, tile)
      /\ rules[5][1] => w.k = 4096
  <2>1. rules[1][1] => w.kind = "block_fp8" /\ tile = <<32, 64>>
    OBVIOUS
  <2>2. rules[2][1] => LowSmFourWay(w, m, tile)
    OBVIOUS
  <2>3. ~rules[3][1] => SplitCandidate(w, m, tile)
    OBVIOUS
  <2>4. rules[5][1] => w.k = 4096
    <3>1. square => w.k = 4096
      <4> HIDE DEF rules
      <4>1. QED
        OBVIOUS
    <3> HIDE DEF square
    <3>2. rules[5][1] = square
      OBVIOUS
    <3>3. QED
      BY <3>1, <3>2
  <2>5. QED
    BY <2>1, <2>2, <2>3, <2>4
<1>4. 6 \in Nat \ {0}
  OBVIOUS
<1> HIDE DEF rules, square
<1>5. PICK i \in 1..6 : /\ rules[i][1] /\ \A h \in 1..(i - 1) : ~rules[h][1]
                        /\ FirstOf(rules) = rules[i][2]
  BY <1>1, <1>4, FirstFires, Zenon
<1>6. PolicySlices(w, m, tile) = rules[i][2]
  <2>1. PolicySlices(w, m, tile) = FirstOf(rules)
    BY Zenon DEF PolicySlices, rules, square
  <2>2. QED
    BY <1>5, <2>1, Zenon
<1>7. w.k % 512 = 0 => w.k % 256 = 0
  BY DEF WeightOk, Positive
<1>8. SplitCandidate(w, m, tile) =>
        w.kind # "nvfp4" /\ w.k % 256 = 0 /\ m <= tile[1] /\ w.l = 1
  BY DEF SplitCandidate, SingleTile, EightBit
<1>9. CASE i = 1
  <2>1. tile[1] = 32 /\ w.kind = "block_fp8"
    BY <1>3, <1>5, <1>9
  <2>2. QED
    BY <1>2, <1>6, <1>9, <2>1, BlockFp8Split DEF Positive
<1>10. CASE i = 2
  <2>1. LowSmFourWay(w, m, tile)
    BY <1>3, <1>5, <1>10
  <2>2. w.kind = "mxfp8" /\ m <= 6 /\ w.k % 512 = 0 /\ w.l = 1 /\ tile[1] = 32
    BY <2>1 DEF LowSmFourWay, Generic, FourSlicesDivide
  <2>3. QED
    BY <1>2, <1>6, <1>7, <1>10, <2>2 DEF Positive
<1>11. CASE i = 3
  BY <1>2, <1>6, <1>11
<1>12. CASE i \in 4..6
  <2>1. SplitCandidate(w, m, tile)
    BY <1>3, <1>5, <1>12
  <2>2. QED
    BY <1>2, <1>3, <1>5, <1>6, <1>8, <1>12, <2>1, HighSmSplit
<1>13. QED
  BY <1>9, <1>10, <1>11, <1>12

(* What a plan is made of.                                                   *)
LEMMA PlanFields ==
  ASSUME NEW w, NEW m
  PROVE  LET p == Plan(w, m) tile == TileAndSwap(w, m).tile
         IN /\ p.tile = tile
            /\ p.single = SingleTile(w, m, tile) /\ p.direct = Direct(w, m, tile)
            /\ p.slices = 1 \/ (p.slices = PolicySlices(w, m, tile) /\ ~p.swap)
            /\ p.tileK = TileK(w, m, TileAndSwap(w, m))
<1> DEFINE p == Plan(w, m)
           ts == TileAndSwap(w, m)
<1>1. p.tile = ts.tile /\ p.swap = ts.swap
  BY DEF Plan, FinalPlan
<1>2. p.single = SingleTile(w, m, ts.tile)
  BY DEF Plan, FinalPlan
<1>3. p.direct = Direct(w, m, ts.tile)
  BY DEF Plan, FinalPlan
<1>4. p.tileK = TileK(w, m, ts)
  BY DEF Plan, FinalPlan
<1>5. \/ p.slices = 1
      \/ p.slices = PolicySlices(w, m, ts.tile) /\ ~(ts.swap /\ PolicySlices(w, m, ts.tile) # 1)
  BY DEF Plan, FinalPlan
<1> HIDE DEF p, ts
<1>7. p.slices = 1 \/ (p.slices = PolicySlices(w, m, ts.tile) /\ ~p.swap)
  BY <1>1, <1>5
<1>9. QED
  BY <1>1, <1>2, <1>3, <1>4, <1>7, Zenon DEF p, ts

(* The depth of a k tile of any kind; 256 only in NVFP4.                     *)
LEMMA AnyDepth ==
  ASSUME NEW w, NEW m, NEW ts
  PROVE  /\ TileK(w, m, ts) \in {64, 128, 256}
         /\ w.kind # "nvfp4" => TileK(w, m, ts) \in {64, 128}
<1>1. Fp4TileK(w, m, ts.tile) \in {128, 256}
  BY DEF Fp4TileK
<1>2. CASE w.kind = "nvfp4"
  BY <1>1, <1>2 DEF TileK
<1>3. CASE w.kind # "nvfp4"
  BY <1>3, Depth DEF TileK
<1>4. QED
  BY <1>2, <1>3

(* A split has two or four slices of whole k tiles, and one row of output    *)
(* tiles.                                                                    *)
LEMMA PlanSplit ==
  ASSUME NEW w, WeightOk(w), NEW m \in Positive, Accepts(w, m, Plan(w, m))
  PROVE  LET p == Plan(w, m)
         IN /\ p.tile \in Shapes /\ p.slices \in {1, 2, 4}
            /\ KTiles(w, p) \in Nat /\ KTiles(w, p) % p.slices = 0
            /\ p.slices # 1 => m <= p.tile[1] /\ w.l = 1
<1> DEFINE p == Plan(w, m)
<1>1. p.tile \in Shapes
  BY PlanFields, TileShape
<1>2. p.slices = 1 \/ p.slices = PolicySlices(w, m, p.tile)
  BY PlanFields
<1>3. p.tileK \in {64, 128, 256} /\ (w.kind # "nvfp4" => p.tileK \in {64, 128})
  <2>1. p.tileK = TileK(w, m, TileAndSwap(w, m))
    BY PlanFields
  <2> HIDE DEF p
  <2>2. /\ TileK(w, m, TileAndSwap(w, m)) \in {64, 128, 256}
        /\ w.kind # "nvfp4" => TileK(w, m, TileAndSwap(w, m)) \in {64, 128}
    BY AnyDepth
  <2>3. QED
    BY <2>1, <2>2
<1>5. w.kind = "block_fp8" => w.l = 1
  BY DEF Accepts, CanImplement
<1> HIDE DEF p
<1>6. /\ p.slices \in {1, 2, 4}
      /\ p.slices # 1 => /\ w.kind # "nvfp4" /\ w.k % 256 = 0
                         /\ m <= p.tile[1] /\ w.l = 1
      /\ p.slices = 4 => w.k % 512 = 0
  BY <1>1, <1>2, <1>5, PolicySplit
<1>7. w.k \in Nat
  BY DEF WeightOk, Positive
<1>8. KTiles(w, p) \in Nat
  BY <1>3, <1>7 DEF KTiles
<1>9. KTiles(w, p) % p.slices = 0
  <2>1. CASE p.slices = 1
    BY <1>8, <2>1
  <2>2. CASE p.slices = 2
    <3>1. w.k % 256 = 0 /\ p.tileK \in {64, 128}
      BY <1>3, <1>6, <2>2
    <3>2. QED
      BY <1>7, <2>2, <3>1 DEF KTiles
  <2>3. CASE p.slices = 4
    <3>1. w.k % 512 = 0 /\ p.tileK \in {64, 128}
      BY <1>3, <1>6, <2>3
    <3>2. QED
      BY <1>7, <2>3, <3>1 DEF KTiles
  <2>4. QED
    BY <1>6, <2>1, <2>2, <2>3
<1>10. QED
  BY <1>1, <1>6, <1>8, <1>9, Zenon DEF p

(* Slices of equal size make up all of K.                                    *)
LEMMA SlicesCoverK ==
  ASSUME NEW w, NEW p, p.slices \in {1, 2, 4}, KTiles(w, p) \in Nat,
         KTiles(w, p) % p.slices = 0
  PROVE  UNION {SliceKTiles(w, p, s) : s \in 0..(p.slices - 1)} = 0..(KTiles(w, p) - 1)
<1> DEFINE n == KTiles(w, p)
           per == n \div p.slices
<1>1. CASE p.slices = 1
  <2>1. SliceKTiles(w, p, 0) = 0..(n - 1) /\ 0..(p.slices - 1) = {0}
    BY <1>1 DEF SliceKTiles
  <2>2. QED
    BY <2>1, Zenon
<1>2. CASE p.slices = 2
  <2>1. n = 2 * per /\ per \in Nat
    BY <1>2
  <2> HIDE DEF n, per
  <2>2. /\ SliceKTiles(w, p, 0) = 0..(per - 1)
        /\ SliceKTiles(w, p, 1) = per..(2 * per - 1)
    BY <2>1 DEF SliceKTiles, n, per
  <2>3. UNION {SliceKTiles(w, p, s) : s \in 0..1} = 0..(per - 1) \union per..(2 * per - 1)
    <3>1. 0..1 = {0, 1}
      OBVIOUS
    <3>2. QED
      BY <2>2, <3>1
  <2>4. QED
    BY <1>2, <2>1, <2>3 DEF n
<1>3. CASE p.slices = 4
  <2>1. n = 4 * per /\ per \in Nat
    BY <1>3
  <2> HIDE DEF n, per
  <2>2. /\ SliceKTiles(w, p, 0) = 0..(per - 1)
        /\ SliceKTiles(w, p, 1) = per..(2 * per - 1)
        /\ SliceKTiles(w, p, 2) = (2 * per)..(3 * per - 1)
        /\ SliceKTiles(w, p, 3) = (3 * per)..(4 * per - 1)
    BY <2>1 DEF SliceKTiles, n, per
  <2>3. UNION {SliceKTiles(w, p, s) : s \in 0..3} =
          0..(per - 1) \union per..(2 * per - 1) \union (2 * per)..(3 * per - 1)
            \union (3 * per)..(4 * per - 1)
    <3>1. 0..3 = {0, 1, 2, 3}
      OBVIOUS
    <3>2. UNION {SliceKTiles(w, p, s) : s \in {0, 1, 2, 3}} =
            SliceKTiles(w, p, 0) \union SliceKTiles(w, p, 1)
              \union SliceKTiles(w, p, 2) \union SliceKTiles(w, p, 3)
      BY Zenon
    <3>3. QED
      BY <2>2, <3>1, <3>2, Zenon
  <2>4. QED
    BY <1>3, <2>1, <2>3 DEF n
<1>4. QED
  BY <1>1, <1>2, <1>3

-----------------------------------------------------------------------------
(* The grid. *)

(* Rounding up, products and minima.                                         *)
LEMMA CeilDivFacts ==
  ASSUME NEW a \in Positive, NEW b \in Positive
  PROVE  CeilDiv(a, b) \in Positive /\ (a <= b => CeilDiv(a, b) = 1)
<1> DEFINE x == a + b - 1
<1>1. a \in Nat /\ b \in Nat \ {0} /\ a >= 1 /\ x \in Nat /\ x >= b
  BY DEF Positive
<1>2. x \div b \in Nat /\ x % b \in 0..(b - 1) /\ x = b * (x \div b) + (x % b)
  BY <1>1, DivMod
<1>3. b * 0 = 0 /\ b * 1 = b
  BY <1>1
<1>4. x \div b # 0
  BY <1>1, <1>2, <1>3
<1>5. a <= b => x \div b = 1
  <2>1. SUFFICES ASSUME a <= b PROVE x \div b = 1
    OBVIOUS
  <2>2. x - b \in 0..(b - 1) /\ x = b * 1 + (x - b)
    BY <1>1, <1>3, <2>1
  <2> HIDE DEF x
  <2>3. 1 \in Nat
    OBVIOUS
  <2>4. QED
    BY <1>1, <2>2, <2>3, DivUnique
<1>6. QED
  BY <1>2, <1>4, <1>5 DEF CeilDiv, Positive

LEMMA ProductPositive ==
  ASSUME NEW a \in Positive, NEW b \in Positive
  PROVE  a * b \in Positive /\ a <= a * b /\ b <= a * b
BY SMT DEF Positive

LEMMA MinOfTwo ==
  ASSUME NEW a \in Int, NEW b \in Int
  PROVE  Min({a, b}) \in {a, b} /\ Min({a, b}) <= a /\ Min({a, b}) <= b
<1>1. \E x \in {a, b} : \A y \in {a, b} : x <= y
  OBVIOUS
<1>2. QED
  BY <1>1 DEF Min

LEMMA SmallRemainder ==
  ASSUME NEW t \in Nat, NEW b \in Positive
  PROVE  t % b \in 0..(b - 1) /\ (t < b => t % b = t)
<1>1. b \in Nat \ {0} /\ b * 0 = 0
  BY DEF Positive
<1>2. t % b \in 0..(b - 1)
  BY <1>1, DivMod
<1>3. t < b => t % b = t
  <2>1. SUFFICES ASSUME t < b PROVE t % b = t
    OBVIOUS
  <2>2. 0 \in Nat /\ t \in 0..(b - 1) /\ t = b * 0 + t
    BY <1>1, <2>1
  <2>3. QED
    BY <1>1, <2>2, DivUnique
<1>4. QED
  BY <1>2, <1>3

(* The CTAs that may be active at once: all SMs have one, except under the   *)
(* cap of a tile-major B.                                                    *)
LEMMA ActiveCtas ==
  ASSUME NEW w, WeightOk(w), NEW p, p.tile \in Shapes
  PROVE  /\ Active(w, p) \in Positive
         /\ \/ Active(w, p) >= w.sms
            \/ /\ w.tiled /\ w.reuse /\ ~w.alpha /\ p.tile = <<32, 64>>
               /\ CeilDiv(w.n, 64) * w.l = 64
<1> DEFINE active == w.sms * Occupancy(w, p)
           capped == /\ p.tile = <<32, 64>> /\ p.tileK = 128 /\ w.tiled
                     /\ w.reuse /\ ~p.swap /\ ~w.alpha
           limit == TileMajorLimit(w, p, active)
<1>1. Active(w, p) = IF capped THEN limit ELSE active
  BY DEF Active
<1>2. Occupancy(w, p) \in {1, 2}
  BY DEF Occupancy
<1>3. w.sms \in Nat /\ w.sms >= 1
  BY DEF WeightOk, Positive
<1>4. active \in Nat /\ active >= w.sms
  BY <1>2, <1>3
<1> DEFINE sixtyFour == CeilDiv(w.n, p.tile[2]) * w.l = 64
<1>5. limit = IF sixtyFour THEN Min({active, 40}) ELSE active
  BY DEF TileMajorLimit
<1> HIDE DEF active, limit
<1>6. Min({active, 40}) \in {active, 40}
  BY <1>4, MinOfTwo
<1>7. capped /\ sixtyFour =>
        /\ w.tiled /\ w.reuse /\ ~w.alpha /\ p.tile = <<32, 64>>
        /\ CeilDiv(w.n, 64) * w.l = 64
  OBVIOUS
<1> HIDE DEF capped, sixtyFour
<1>8. CASE capped /\ sixtyFour
  <2>1. Active(w, p) \in {active, 40}
    BY <1>1, <1>5, <1>6, <1>8
  <2>2. Active(w, p) \in Positive
    BY <1>3, <1>4, <2>1 DEF Positive
  <2>3. QED
    BY <1>7, <1>8, <2>2, Zenon
<1>9. CASE ~(capped /\ sixtyFour)
  <2>1. Active(w, p) = active
    BY <1>1, <1>5, <1>9
  <2>2. QED
    BY <1>3, <1>4, <2>1 DEF Positive
<1>10. QED
  BY <1>8, <1>9

(* Every tile of C is some CTA's.                                            *)
LEMMA GridCovers ==
  ASSUME NEW w, WeightOk(w), NEW m \in Positive, Accepts(w, m, Plan(w, m)),
         w.entry = "dense" /\ w.tiled /\ w.reuse /\ ~w.alpha /\ w.l = 1 /\ w.sms >= 64
           /\ m < 16 => TileAndSwap(w, m).tile # <<32, 64>>
  PROVE  AllTilesComputed(w, m, Plan(w, m))
<1> DEFINE p == Plan(w, m)
           g == Grid(w, m, p)
           rows == CeilDiv(m, p.tile[1])
           columns == CeilDiv(w.n, p.tile[2])
           tiles == Tiles(w, m, p.tile)
<1>1. /\ p.tile \in Shapes /\ p.slices \in {1, 2, 4}
      /\ p.slices # 1 => m <= p.tile[1] /\ w.l = 1
  BY PlanSplit
<1>2. p.tile = TileAndSwap(w, m).tile
  BY PlanFields
<1>3. /\ p.single = SingleTile(w, m, p.tile) /\ p.direct = Direct(w, m, p.tile)
  BY PlanFields
<1>4. w.tiled /\ p.tile = <<32, 64>> => w.entry = "dense"
  BY DEF Accepts, TiledRhsOk
<1> HIDE DEF p
<1>5. /\ p.tile[1] \in Positive /\ p.tile[2] \in Positive
      /\ w.n \in Positive /\ w.l \in Positive /\ w.sms \in Positive
  BY <1>1 DEF Shapes, WeightOk
<1>6. /\ rows \in Positive /\ columns \in Positive
      /\ m <= p.tile[1] => rows = 1
  BY <1>5, CeilDivFacts
<1>7. tiles = (rows * columns) * w.l
  BY DEF Tiles
<1>8. tiles \in Positive
  <2> HIDE DEF rows, columns, tiles
  <2>1. QED
    BY <1>5, <1>6, <1>7, ProductPositive
<1>9. g.z \in Positive /\ g.y \in {1, 2, 4}
      /\ (p.slices # 1 => tiles = g.z)
      /\ (p.slices = 1 => g.y = 1 /\ g.z = Min({tiles, Active(w, p)}))
  <2>1. CASE p.slices # 1
    <3>1. g = [y |-> p.slices, z |-> columns]
      BY <1>1, <2>1 DEF Grid
    <3>2. tiles = columns
      <4>1. rows = 1 /\ w.l = 1
        BY <1>1, <1>6, <2>1
      <4> HIDE DEF rows, columns, tiles
      <4>2. QED
        BY <1>6, <1>7, <4>1 DEF Positive
    <3>3. QED
      BY <1>1, <1>6, <2>1, <3>1, <3>2
  <2>2. CASE p.slices = 1
    <3>1. g = [y |-> 1, z |-> Min({tiles, Active(w, p)})]
      BY <2>2 DEF Grid
    <3> HIDE DEF tiles, g
    <3>2. Active(w, p) \in Positive
      BY <1>1, ActiveCtas
    <3>3. Min({tiles, Active(w, p)}) \in Positive
      <4>1. tiles \in Int /\ Active(w, p) \in Int
        BY <1>8, <3>2 DEF Positive
      <4>2. Min({tiles, Active(w, p)}) \in {tiles, Active(w, p)}
        BY <4>1, MinOfTwo
      <4>3. QED
        BY <1>8, <3>2, <4>2
    <3>4. QED
      BY <2>2, <3>1, <3>3
  <2>3. QED
    BY <2>1, <2>2
<1>10. p.slices = 1 /\ (p.single \/ p.direct) => g.z = tiles
  <2>1. SUFFICES ASSUME p.slices = 1, p.single \/ p.direct PROVE g.z = tiles
    OBVIOUS
  <2>2. tiles <= w.sms /\ w.l = 1 /\ m < 16
    <3>1. SingleTile(w, m, p.tile) \/ Direct(w, m, p.tile)
      BY <1>3, <2>1, Zenon
    <3>2. OneTilePerCta(w, m, p.tile) /\ w.l = 1 /\ m < 16
      BY <3>1 DEF SingleTile, Direct
    <3>3. QED
      BY <3>2 DEF OneTilePerCta
  <2>3. Active(w, p) \in Positive
    BY <1>1, ActiveCtas
  <2>4. Active(w, p) >= w.sms
    <3>1. SUFFICES ASSUME w.tiled, w.reuse, ~w.alpha, p.tile = <<32, 64>>,
                          CeilDiv(w.n, 64) * w.l = 64
                   PROVE  FALSE
      BY <1>1, ActiveCtas
    <3>2. columns = CeilDiv(w.n, 64) /\ m <= p.tile[1]
      BY <2>2, <3>1 DEF Positive
    <3>3. rows = 1
      BY <1>6, <3>2
    <3>4. CeilDiv(w.n, 64) = 64
      <4>1. CeilDiv(w.n, 64) \in Positive
        BY <1>6, <3>2
      <4>2. QED
        BY <2>2, <3>1, <4>1 DEF Positive
    <3> HIDE DEF rows, columns, tiles
    <3>5. tiles = 64
      BY <1>7, <2>2, <3>2, <3>3, <3>4
    <3>6. w.sms >= 64
      BY <1>5, <2>2, <3>5 DEF Positive
    <3>7. QED
      BY <1>2, <1>4, <2>2, <3>1, <3>6
  <2>5. tiles <= Active(w, p)
    <3> HIDE DEF tiles
    <3>1. QED
      BY <1>5, <1>8, <2>2, <2>3, <2>4 DEF Positive
  <2> HIDE DEF tiles, g
  <2>6. Min({tiles, Active(w, p)}) = tiles
    <3>1. tiles \in Int /\ Active(w, p) \in Int
      BY <1>8, <2>3 DEF Positive
    <3>2. /\ Min({tiles, Active(w, p)}) \in {tiles, Active(w, p)}
          /\ Min({tiles, Active(w, p)}) <= tiles
      BY <3>1, MinOfTwo
    <3>3. QED
      BY <2>5, <3>1, <3>2
  <2>7. QED
    BY <1>9, <2>1, <2>6
<1>11. ASSUME NEW t \in 0..(tiles - 1)
       PROVE  Owner(g, p, t) < g.z
  <2> HIDE DEF tiles, g
  <2>1. t \in Nat /\ t < tiles
    BY <1>8, <1>11 DEF Positive
  <2>2. g.y * g.z \in Positive /\ g.z <= g.y * g.z /\ (g.y = 1 => g.y * g.z = g.z)
    BY <1>9 DEF Positive
  <2>3. CASE p.single \/ p.direct
    <3>1. Owner(g, p, t) = t
      BY <2>3 DEF Owner
    <3>2. g.z = tiles
      BY <1>9, <1>10, <2>3
    <3>3. QED
      BY <2>1, <3>1, <3>2
  <2>4. CASE ~(p.single \/ p.direct)
    <3>1. Owner(g, p, t) = t % (g.y * g.z)
      BY <2>4 DEF Owner
    <3>2. /\ t % (g.y * g.z) \in 0..(g.y * g.z - 1)
          /\ t < g.y * g.z => t % (g.y * g.z) = t
      BY <2>1, <2>2, SmallRemainder
    <3>3. CASE p.slices = 1
      <4>1. g.y * g.z = g.z
        BY <1>9, <2>2, <3>3
      <4>2. QED
        BY <1>9, <3>1, <3>2, <4>1 DEF Positive
    <3>4. CASE p.slices # 1
      BY <1>9, <2>1, <2>2, <3>1, <3>2, <3>4 DEF Positive
    <3>5. QED
      BY <3>3, <3>4
  <2>5. QED
    BY <2>3, <2>4
<1>12. QED
  BY <1>11 DEF AllTilesComputed, p

-----------------------------------------------------------------------------
(* The call. *)

(* A call that passed the checks follows its plan; until the reduction the   *)
(* partials of all slices are there, and C is complete when it is done.      *)
Planned == {"resolve", "launch", "reduce", "done", "unresolved"}
CallInv ==
  /\ weight \in Weights
  /\ DOMAIN call = {"pc", "m", "plan", "key", "partials", "out"}
  /\ call.pc # "idle" => call.m \in Warmed \union Served
  /\ call.pc \in Planned =>
       call.plan = Plan(weight, call.m) /\ Accepts(weight, call.m, call.plan)
  /\ call.pc = "reduce" =>
       /\ call.plan.slices > 1 /\ ~call.plan.atomic
       /\ call.partials = 0..(call.plan.slices - 1)
  /\ OutputComplete

(* A planned call has a plan whose grid and slices are complete.             *)
LEMMA PlanComplete ==
  ASSUME FourWayIsAtomic, SingleTilesUncapped, NEW w \in Weights,
         NEW m \in Warmed \union Served, Accepts(w, m, Plan(w, m))
  PROVE  LET p == Plan(w, m)
         IN /\ AllTilesComputed(w, m, p) /\ p.slices \in {1, 2, 4}
            /\ p.slices # 1 /\ ~p.atomic => p.slices = 2
            /\ UNION {SliceKTiles(w, p, s) : s \in 0..(p.slices - 1)} = 0..(KTiles(w, p) - 1)
<1>1. WeightOk(w)
  <2>1. {w.n, w.k, w.l, w.sms} \subseteq Nat \ {0}
    BY WeightsAssumption
  <2>2. QED
    BY <2>1, WeightsAssumption DEF WeightOk, Positive, Shapes
<1>2. m \in Positive
  BY BatchesAssumption DEF Positive
<1>3. AllTilesComputed(w, m, Plan(w, m))
  BY <1>1, <1>2, GridCovers DEF SingleTilesUncapped
<1> DEFINE p == Plan(w, m)
<1>4. /\ p.slices \in {1, 2, 4} /\ KTiles(w, p) \in Nat /\ KTiles(w, p) % p.slices = 0
  BY <1>1, <1>2, PlanSplit
<1> HIDE DEF p
<1>5. UNION {SliceKTiles(w, p, s) : s \in 0..(p.slices - 1)} = 0..(KTiles(w, p) - 1)
  BY <1>4, SlicesCoverK
<1>6. p.slices # 1 /\ ~p.atomic => p.slices = 2
  <2>1. p.slices = 4 => p.atomic
    BY DEF FourWayIsAtomic, p
  <2>2. QED
    BY <1>4, <2>1
<1>7. QED
  BY <1>3, <1>4, <1>5, <1>6, Zenon DEF p

LEMMA CallInit == Init => CallInv
BY DEF Init, NoCall, CallInv, Planned, OutputComplete

LEMMA CallStep ==
  ASSUME FourWayIsAtomic, SingleTilesUncapped, CallInv, [Next]_vars
  PROVE  CallInv'
<1> USE DEF CallInv, Planned
<1>1. CASE Serve
  <2>1. weight' = weight
    BY <1>1 DEF Serve
  <2>2. /\ call'.pc = "plan" /\ call'.m \in Warmed \union Served
        /\ DOMAIN call' = {"pc", "m", "plan", "key", "partials", "out"}
    BY <1>1 DEF Serve, NoCall
  <2>3. QED
    BY <2>1, <2>2 DEF OutputComplete
<1>2. CASE MakePlan
  <2> DEFINE p == Plan(weight, call.m)
             ok == Accepts(weight, call.m, p)
  <2>1. /\ weight' = weight /\ call.pc = "plan"
        /\ call' = [call EXCEPT !.plan = p, !.key = CompileKey(weight, call.m, p),
                                !.pc = IF ok THEN "resolve" ELSE "rejected"]
    BY <1>2 DEF MakePlan
  <2> HIDE DEF p, ok
  <2>2. /\ call'.pc \in {"resolve", "rejected"} /\ (call'.pc = "resolve" => ok)
        /\ call'.m = call.m /\ call'.plan = p
    BY <2>1
  <2>3. QED
    BY <2>1, <2>2 DEF OutputComplete, p, ok
<1>3. CASE Resolve
  <2>1. /\ weight' = weight /\ call.pc = "resolve" /\ call'.pc \in {"launch", "unresolved"}
        /\ call'.m = call.m /\ call'.plan = call.plan /\ DOMAIN call' = DOMAIN call
    <3>1. call' = [call EXCEPT !.pc = "launch"] \/ call' = [call EXCEPT !.pc = "unresolved"]
      BY <1>3 DEF Resolve
    <3>2. weight' = weight /\ call.pc = "resolve"
      BY <1>3 DEF Resolve
    <3>3. QED
      BY <3>1, <3>2
  <2>2. QED
    BY <2>1 DEF OutputComplete
<1>4. CASE Launch
  <2> DEFINE p == call.plan
             slices == IF AllTilesComputed(weight, call.m, p) THEN 0..(p.slices - 1) ELSE {}
  <2>1. /\ weight' = weight /\ call.pc = "launch"
        /\ call' = IF p.slices > 1 /\ ~p.atomic
                   THEN [call EXCEPT !.pc = "reduce", !.partials = slices]
                   ELSE [call EXCEPT !.pc = "done",
                                     !.out = UNION {SliceKTiles(weight, p, s) : s \in slices}]
    BY <1>4 DEF Launch
  <2>2. /\ AllTilesComputed(weight, call.m, p) /\ p.slices \in {1, 2, 4}
        /\ UNION {SliceKTiles(weight, p, s) : s \in 0..(p.slices - 1)} =
             0..(KTiles(weight, p) - 1)
    BY <2>1, PlanComplete
  <2>3. slices = 0..(p.slices - 1)
    BY <2>2
  <2> HIDE DEF slices
  <2>4. CASE p.slices > 1 /\ ~p.atomic
    <3>1. /\ call'.pc = "reduce" /\ call'.m = call.m /\ call'.plan = call.plan
          /\ call'.partials = slices
      BY <2>1, <2>4
    <3>2. QED
      BY <2>1, <2>3, <2>4, <3>1 DEF OutputComplete
  <2>5. CASE ~(p.slices > 1 /\ ~p.atomic)
    <3>1. /\ call'.pc = "done" /\ call'.m = call.m /\ call'.plan = call.plan
          /\ call'.out = UNION {SliceKTiles(weight, p, s) : s \in slices}
      BY <2>1, <2>5
    <3>2. QED
      BY <2>1, <2>2, <2>3, <3>1 DEF OutputComplete
  <2>6. QED
    BY <2>4, <2>5
<1>5. CASE Reduce
  <2> DEFINE p == call.plan
  <2>1. /\ weight' = weight /\ call.pc = "reduce"
        /\ call' = [call EXCEPT !.pc = "done",
                      !.out = UNION {SliceKTiles(weight, p, s)
                                       : s \in call.partials \intersect {0, 1}}]
    BY <1>5 DEF Reduce
  <2>2. /\ p.slices \in {1, 2, 4} /\ (p.slices # 1 /\ ~p.atomic => p.slices = 2)
        /\ UNION {SliceKTiles(weight, p, s) : s \in 0..(p.slices - 1)} =
             0..(KTiles(weight, p) - 1)
    BY <2>1, PlanComplete
  <2>3. p.slices > 1 /\ ~p.atomic /\ call.partials = 0..(p.slices - 1)
    BY <2>1
  <2>4. p.slices = 2
    BY <2>2, <2>3
  <2>5. call.partials \intersect {0, 1} = 0..(p.slices - 1)
    BY <2>3, <2>4
  <2>6. /\ call'.pc = "done" /\ call'.m = call.m /\ call'.plan = call.plan
        /\ call'.out = UNION {SliceKTiles(weight, p, s) : s \in 0..(p.slices - 1)}
    BY <2>1, <2>5
  <2>7. QED
    BY <2>1, <2>2, <2>6 DEF OutputComplete
<1>6. CASE Return
  BY <1>6 DEF Return, NoCall, OutputComplete
<1>7. CASE Freeze
  BY <1>7 DEF Freeze, OutputComplete
<1>8. CASE UNCHANGED vars
  BY <1>8 DEF vars, OutputComplete
<1>9. QED
  BY <1>1, <1>2, <1>3, <1>4, <1>5, <1>6, <1>7, <1>8 DEF Next

(* Whatever tile, split, depth, grid cap and reduction the planner and the   *)
(* launch choose for a weight and a batch size, on a part with any number of *)
(* SMs, every tile of C is computed and is the sum over every k tile.        *)
THEOREM OutputIsComplete ==
  FourWayIsAtomic /\ SingleTilesUncapped => (Spec => []OutputComplete)
<1> SUFFICES ASSUME FourWayIsAtomic, SingleTilesUncapped PROVE Spec => []OutputComplete
  OBVIOUS
<1>1. CallInv /\ [Next]_vars => CallInv'
  BY CallStep
<1>2. CallInv => OutputComplete
  BY DEF CallInv
<1>3. QED
  BY CallInit, <1>1, <1>2, PTL DEF Spec

=============================================================================

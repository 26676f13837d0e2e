---------------------------- MODULE GemmPipeline ----------------------------
(***************************************************************************)
(* One CTA of the dense GEMM kernel (dense_gemm.py 709-983, 1645-4414).  A *)
(* load warp fills a ring of shared-memory stages, the MMA warps multiply  *)
(* out of them, and the epilogue stages each result in shared memory, from *)
(* where it goes to C.  A stage is guarded by a full and an empty barrier; *)
(* the full one completes when the bytes promised at producer_acquire have *)
(* landed, and knows nothing of what the load warp writes itself.          *)
(*                                                                         *)
(* Data is the pair <<work tile, k tile>> it belongs to.  An operand tile  *)
(* is copied whole; B, which the MMA warps may expand in place, is kept as *)
(* the rows that each of them owns.                                        *)
(***************************************************************************)
EXTENDS Integers, FiniteSets, Sequences, SequencesExt, FiniteSetsExt

CONSTANTS
  Warps,          \* number of MMA warps
  Configs         \* the specialisations of the kernel to try: records
                  \*   flags, stages, kTiles, kBlocks, tiles (of this CTA), single
                  \*   (single_work_tile_per_cta), store, subtiles, epiStages

Warp == 0..(Warps - 1)
None == <<0, 0>>

VARIABLES
  cfg,            \* the specialisation
  data,           \* data[s]: what stage s holds
  full, empty,    \* the barriers of the stages
  flying,         \* asynchronous copies under way
  prod,           \* the load warp
  warp,           \* warp[w]: an MMA warp
  sC,             \* sC[b][w]: w's part of epilogue buffer b
  stores,         \* TMA stores that have not read sC yet
  out             \* out[j][e][w]: what C got of subtile e of tile j: "no", "right", "wrong"

vars == <<cfg, data, full, empty, flying, prod, warp, sC, stores, out>>
Has(f) == f \in cfg.flags

-----------------------------------------------------------------------------
(* What the load warp does for one k tile: a sequence of operations, each   *)
(* on some parts of the stage.  by is "tma" (any copy that counts on the    *)
(* full barrier) or "warp" (stores of its own, done when it goes on).       *)

Tma(part, bytes) == <<[by |-> "tma", parts |-> {part}, bytes |-> bytes]>>
Own(parts) == <<[by |-> "warp", parts |-> parts, bytes |-> 0]>>
When(c, ops) == IF c THEN ops ELSE <<>>

(* Bytes of the parts of a 32 x 64 x 128 tile in 8-bit elements; B is three *)
(* quarters of that when packed, A twice of it in 16-bit elements.          *)
ABytes == IF Has("a16") THEN 8192 ELSE 4096
BBytes == IF Has("b_packed") THEN 6144 ELSE 8192
ScaleBytes == 512

(* The load warp quantises BF16 rows into A and its scales, to FP8 or, for  *)
(* a single row, to FP6.                                                    *)
FusedQuant == Own({"a", "sfa"})
Fp6FusedQuant == Own({"a", "sfa"})
CpAsync == Own({"a", "b", "sfa", "sfb"})
RowOfA == Own({"a"})
DirectRowOfA == Tma("a", 128)
LoadA ==
  CASE Has("cpasync") -> CpAsync
    [] Has("fused_quant_a") -> FusedQuant
    [] Has("a_bf16_fused") -> Fp6FusedQuant
    [] Has("use_m1_non_tma_a") /\ ~Has("a_bf16_fused") -> RowOfA
    [] Has("direct_m1_wo_a_inputs") -> DirectRowOfA
    [] OTHER -> Tma("a", ABytes)

ScalesByHand == Own({"sfa", "sfb"})
PrefixOfSFA == Tma("sfa", 256)
RowOfSFA == Own({"sfa"})
LoadSFA ==
  CASE Has("a16") -> Tma("sfb", ScaleBytes)
    [] Has("cpasync") \/ Has("block_fp8") \/ Has("fused_quant_a") \/ Has("a_bf16_fused") -> <<>>
    [] Has("manual_bk64_sf") -> ScalesByHand
    [] Has("direct_sfa_prefix") -> PrefixOfSFA
    [] Has("use_m1_non_tma_sfa") /\ ~Has("a_bf16_fused") -> RowOfSFA
    [] OTHER -> Tma("sfa", ScaleBytes)

OneSFB == Tma("sfb", 16)
EarlyB == Has("fused_quant_a") /\ Has("b_tile_major")
LoadB == When(~Has("cpasync"), Tma("b", BBytes))
LoadSFB ==
  When(~(Has("cpasync") \/ Has("block_fp8") \/ Has("a16") \/ Has("manual_bk64_sf")
         \/ Has("direct_sfb_representative")),
       Tma("sfb", ScaleBytes))

(* Mutant: the scales of an early B go with it, before A is written. *)
ScalesEarly ==
  When(EarlyB, LoadB \o LoadSFB) \o LoadA \o LoadSFA
    \o When(Has("direct_sfb_representative"), OneSFB)
    \o When(~EarlyB, LoadB \o LoadSFB)

Operations ==
  When(EarlyB, LoadB) \o LoadA \o LoadSFA
    \o When(Has("direct_sfb_representative"), OneSFB)
    \o When(~EarlyB, LoadB) \o LoadSFB

(* tma_copy_bytes: what producer_acquire promises the full barrier, first   *)
(* with the scales in whole tiles.                                          *)
WholeTileBytes ==
  LET a == IF Has("use_m1_non_tma_a") THEN 0 ELSE ABytes
  IN CASE Has("a16") -> ABytes + BBytes + ScaleBytes
       [] Has("block_fp8") -> ABytes + BBytes
       [] Has("fused_quant_a") -> BBytes + ScaleBytes
       [] Has("manual_bk64_sf") -> BBytes + a
       [] Has("use_m1_non_tma_sfa") -> BBytes + ScaleBytes + a
       [] OTHER -> BBytes + 2 * ScaleBytes
                     + (IF Has("direct_m1_wo_a_inputs") THEN 128 ELSE ABytes)
SfbAdjustment == IF Has("direct_sfb_representative") THEN 16 - ScaleBytes ELSE 0
(* Mutant: the prefix of SFA is counted as the whole tile. *)
PrefixForgotten == WholeTileBytes + SfbAdjustment
TmaCopyBytes ==
  WholeTileBytes + SfbAdjustment
    + (IF Has("direct_sfa_prefix") THEN 256 - ScaleBytes ELSE 0)

(* Block-FP8 reads its scales from global memory, A16 has none for A.      *)
ScalesUsed ==
  CASE Has("block_fp8") -> {}
    [] Has("a16") -> {"sfb"}
    [] OTHER -> {"sfa", "sfb"}

(* At least four stages and packed B: the next stage is expanded a whole    *)
(* k tile ahead.                                                            *)
ExpandAhead == Has("b_packed") /\ cfg.stages >= 4
(* Mutant: a persistent CTA reuses sC too. *)
ManySubtiles == cfg.epiStages # 1 \/ cfg.subtiles # 1
HasMultiEpiStore == ~(cfg.single /\ cfg.epiStages = 1 /\ cfg.subtiles = 1)

-----------------------------------------------------------------------------
(* Barriers and pipeline states.  A pipeline state is the number of uses so *)
(* far: its index is that number modulo the stages, its phase bit flips     *)
(* with every turn of the ring.                                             *)

Index(u) == u % cfg.stages
Phase(u) == (u \div cfg.stages) % 2
FullFor(u) == full[Index(u)].phase # Phase(u)
EmptyFor(u) == empty[Index(u)].phase = Phase(u)

Settle(b) ==
  IF b.arrived /\ b.tx = 0 THEN [phase |-> 1 - b.phase, arrived |-> FALSE, tx |-> 0] ELSE b

Release(s) ==
  IF empty[s].count + 1 = Warps
  THEN [empty EXCEPT ![s] = [phase |-> 1 - @.phase, count |-> 0]]
  ELSE [empty EXCEPT ![s].count = @ + 1]

EmptyStage == [a |-> None, sfa |-> None, sfb |-> None,
               rows |-> [w \in Warp |-> None], packed |-> None]

(* Stage d after part p of it was written with the data of t.  The packed   *)
(* tile lies in the bottom of the rows it will be expanded to.              *)
Put(d, p, t) ==
  CASE p = "b" /\ Has("b_packed") ->
         [d EXCEPT !.packed = t, !.rows = [w \in Warp |-> None]]
    [] p = "b" /\ ~Has("b_packed") -> [d EXCEPT !.rows = [w \in Warp |-> t]]
    [] OTHER -> [d EXCEPT ![p] = t]

NewWarp == [pc |-> "tile", tile |-> 1, k |-> 0, kb |-> 0, use |-> 0, look |-> 0,
            reg |-> [b \in 0..(cfg.kBlocks - 1) |-> None], sf |-> None,
            hold |-> None, into |-> 0, then |-> "first", acc |-> 0, sub |-> 0]

Init ==
  /\ cfg \in Configs
  /\ data = [s \in 0..(cfg.stages - 1) |-> EmptyStage]
  /\ full = [s \in 0..(cfg.stages - 1) |-> [phase |-> 0, arrived |-> FALSE, tx |-> 0]]
  /\ empty = [s \in 0..(cfg.stages - 1) |-> [phase |-> 0, count |-> 0]]
  /\ flying = {}
  /\ prod = [pc |-> "acquire", tile |-> 1, k |-> 0, use |-> 0, ops |-> <<>>]
  /\ warp = [w \in Warp |-> NewWarp]
  /\ sC = [b \in 0..(cfg.epiStages - 1) |-> [w \in Warp |-> <<0, 0, FALSE>>]]
  /\ stores = {}
  /\ out = [j \in 1..cfg.tiles |-> [e \in 0..(cfg.subtiles - 1) |-> [w \in Warp |-> "no"]]]
-----------------------------------------------------------------------------
(* The load warp. *)

ProducerAcquire ==
  /\ prod.pc = "acquire" /\ EmptyFor(prod.use)
  /\ full' = IF Has("cpasync") THEN full
             ELSE [full EXCEPT ![Index(prod.use)] =
                     Settle([@ EXCEPT !.arrived = TRUE, !.tx = @ + TmaCopyBytes])]
  /\ prod' = [prod EXCEPT !.pc = "copy", !.ops = Operations]
  /\ UNCHANGED <<cfg, data, empty, flying, warp, sC, stores, out>>

(* After its last operation the stage is committed (TMA: nothing to do,     *)
(* cpasync: the warp arrives) and the producer goes on to the next k tile.  *)
NextLoad ==
  LET more == prod.k + 1 < cfg.kTiles \/ prod.tile < cfg.tiles
  IN [prod EXCEPT !.pc = IF more THEN "acquire" ELSE "tail",
                  !.tile = IF prod.k + 1 < cfg.kTiles THEN @ ELSE @ + 1,
                  !.k = (@ + 1) % cfg.kTiles, !.use = @ + 1, !.ops = <<>>]

ProducerCopy ==
  LET op == Head(prod.ops)
      s == Index(prod.use)
      t == <<prod.tile, prod.k>>
      last == Len(prod.ops) = 1
  IN /\ prod.pc = "copy"
     /\ \/ /\ op.by = "tma"
           /\ flying' = flying \union {[stage |-> s, part |-> p, bytes |-> op.bytes, tag |-> t]
                                         : p \in op.parts}
           /\ UNCHANGED data
        \/ /\ op.by = "warp"
           /\ data' = [data EXCEPT ![s] = FoldSet(LAMBDA p, d : Put(d, p, t), @, op.parts)]
           /\ UNCHANGED flying
     /\ prod' = IF last THEN NextLoad ELSE [prod EXCEPT !.ops = Tail(@)]
     /\ full' = IF last /\ Has("cpasync")
                THEN [full EXCEPT ![s] = Settle([@ EXCEPT !.arrived = TRUE])] ELSE full
     /\ UNCHANGED <<cfg, empty, warp, sC, stores, out>>

(* producer_tail: wait until the MMA warps have released every stage. *)
ProducerTail ==
  /\ prod.pc = "tail" /\ \A i \in 0..(cfg.stages - 1) : EmptyFor(prod.use + i)
  /\ prod' = [prod EXCEPT !.pc = "done"]
  /\ UNCHANGED <<cfg, data, full, empty, flying, warp, sC, stores, out>>

(* Copies of a stage land in any order; the full barrier counts bytes. *)
CopyLands ==
  \E c \in flying :
    /\ flying' = flying \ {c}
    /\ data' = [data EXCEPT ![c.stage] = Put(@, c.part, c.tag)]
    /\ full' = [full EXCEPT ![c.stage] = Settle([@ EXCEPT !.tx = @ - c.bytes])]
    /\ UNCHANGED <<cfg, empty, prod, warp, sC, stores, out>>

-----------------------------------------------------------------------------
(* The MMA warps: mainloop. *)

Goto(w, pc) == [warp EXCEPT ![w].pc = pc]
LastBlock(w) == warp[w].kb = cfg.kBlocks - 1
LastTile(w) == warp[w].k = cfg.kTiles - 1

(* What a load of both operands, and of the scales, gives: data of one k    *)
(* tile, or nothing usable.                                                 *)
Operands(s) ==
  IF \A x \in Warp : data[s].rows[x] = data[s].a THEN data[s].a ELSE None
Scales(s) ==
  LET seen == {data[s][p] : p \in ScalesUsed}
  IN IF Cardinality(seen) = 1 THEN CHOOSE t \in seen : TRUE ELSE None

(* The warp's record after it loaded k block kb of its stage, and with      *)
(* block 0 the scales of the whole stage.                                   *)
Loaded(me, kb) ==
  [me EXCEPT !.reg[kb] = Operands(Index(me.use)),
             !.sf = IF kb = 0 THEN Scales(Index(me.use)) ELSE @]

(* acc counts the k blocks multiplied in order; -1 once anything else than  *)
(* the next block of the work tile was.                                     *)
Product(me) ==
  LET want == <<me.tile, me.acc \div cfg.kBlocks>>
  IN IF /\ me.acc >= 0 /\ me.reg[me.kb] = want /\ me.kb = me.acc % cfg.kBlocks
        /\ ScalesUsed # {} => me.sf = want
     THEN me.acc + 1 ELSE -1

BeginTile(w) ==
  /\ warp[w].pc = "tile" /\ warp[w].tile <= cfg.tiles /\ FullFor(warp[w].use)
  /\ warp' = [warp EXCEPT ![w].pc = IF Has("b_packed") THEN "expand" ELSE "first",
                          ![w].into = Index(warp[w].use), ![w].then = "prologueBar",
                          ![w].k = 0, ![w].kb = 0, ![w].acc = 0, ![w].sub = 0]
  /\ UNCHANGED <<cfg, data, full, empty, flying, prod, sC, stores, out>>

(* _expand_packed_b_stage_smem: every warp reads its packed rows, they meet *)
(* at a barrier, and every warp writes its expanded rows over them.         *)
ExpandRead(w) ==
  /\ warp[w].pc = "expand"
  /\ warp' = [warp EXCEPT ![w].pc = "expandBar", ![w].hold = data[warp[w].into].packed]
  /\ UNCHANGED <<cfg, data, full, empty, flying, prod, sC, stores, out>>

ExpandWrite(w) ==
  /\ warp[w].pc = "write"
  /\ data' = [data EXCEPT ![warp[w].into].rows[w] = warp[w].hold,
                          ![warp[w].into].packed = None]
  /\ warp' = Goto(w, warp[w].then)
  /\ UNCHANGED <<cfg, full, empty, flying, prod, sC, stores, out>>

FirstLoad(w) ==
  /\ warp[w].pc = "first"
  /\ warp' = [warp EXCEPT ![w] = [Loaded(@, 0) EXCEPT !.pc = "step"]]
  /\ UNCHANGED <<cfg, data, full, empty, flying, prod, sC, stores, out>>

(* Block 0 of a k tile that has a successor: expand the successor's stage. *)
LooksAhead(w) == ExpandAhead /\ ~LastTile(w) /\ warp[w].kb = 0
LookAhead(w) ==
  /\ warp[w].pc = "step" /\ LooksAhead(w) /\ FullFor(warp[w].look)
  /\ warp' = [warp EXCEPT ![w].pc = "expand", ![w].into = Index(warp[w].look),
                          ![w].then = "turn", ![w].look = @ + 1]
  /\ UNCHANGED <<cfg, data, full, empty, flying, prod, sC, stores, out>>

AtBlock(w) == warp[w].pc = "turn" \/ (warp[w].pc = "step" /\ ~LooksAhead(w))

(* A block that is not the last of its stage: multiply, load the next. *)
MultiplyBlock(w) ==
  /\ AtBlock(w) /\ ~LastBlock(w)
  /\ warp' = [warp EXCEPT ![w] = [Loaded(@, @.kb + 1) EXCEPT !.acc = Product(warp[w]),
                                                            !.kb = @ + 1, !.pc = "step"]]
  /\ UNCHANGED <<cfg, data, full, empty, flying, prod, sC, stores, out>>

(* The last block is in registers: the stage is released before it is       *)
(* multiplied.                                                              *)
ReleaseStage(w) ==
  /\ AtBlock(w) /\ LastBlock(w)
  /\ empty' = Release(Index(warp[w].use))
  /\ warp' = [warp EXCEPT ![w].use = @ + 1, ![w].pc = IF LastTile(w) THEN "last" ELSE "await"]
  /\ UNCHANGED <<cfg, data, full, flying, prod, sC, stores, out>>

AwaitStage(w) ==
  /\ warp[w].pc = "await" /\ FullFor(warp[w].use)
  /\ warp' = [warp EXCEPT ![w].pc = IF Has("b_packed") /\ ~ExpandAhead THEN "expand"
                                    ELSE "boundary",
                          ![w].into = Index(warp[w].use), ![w].then = "boundary",
                          ![w].k = @ + 1]
  /\ UNCHANGED <<cfg, data, full, empty, flying, prod, sC, stores, out>>

(* Multiply the last block; its registers are free for block 0 of the next  *)
(* stage, which packed operands load only after a barrier.                  *)
MultiplyBoundary(w) ==
  /\ warp[w].pc = "boundary"
  /\ LET done == [warp[w] EXCEPT !.acc = Product(warp[w])]
     IN warp' = [warp EXCEPT ![w] =
                   IF Has("b_packed") THEN [done EXCEPT !.pc = "boundaryBar"]
                   ELSE [Loaded(done, 0) EXCEPT !.kb = 0, !.pc = "step"]]
  /\ UNCHANGED <<cfg, data, full, empty, flying, prod, sC, stores, out>>

LoadAfterBarrier(w) ==
  /\ warp[w].pc = "load"
  /\ warp' = [warp EXCEPT ![w] = [Loaded(@, 0) EXCEPT !.kb = 0, !.pc = "step"]]
  /\ UNCHANGED <<cfg, data, full, empty, flying, prod, sC, stores, out>>

MultiplyLast(w) ==
  /\ warp[w].pc = "last"
  /\ warp' = [warp EXCEPT ![w].acc = Product(warp[w]), ![w].pc = "epilogue"]
  /\ UNCHANGED <<cfg, data, full, empty, flying, prod, sC, stores, out>>
-----------------------------------------------------------------------------
(* Epilogue. *)

Good(w) == warp[w].acc = cfg.kTiles * cfg.kBlocks
Buffer(w) == warp[w].sub % cfg.epiStages
Part(w) == <<warp[w].tile, warp[w].sub, Good(w)>>
PartGood(p, j, e) == p = <<j, e, TRUE>>
Verdict(good) == IF good THEN "right" ELSE "wrong"

AfterSubtile(me) ==
  IF me.sub + 1 < cfg.subtiles THEN [me EXCEPT !.sub = @ + 1, !.pc = "epilogue"]
  ELSE [me EXCEPT !.pc = "drain"]

(* Swapped operands, or a slice of K: results go from registers to C, the   *)
(* whole tile at once or subtile by subtile.                                *)
StoreSwapped(w) ==
  /\ warp[w].pc = "epilogue" /\ cfg.store = "swap"
  /\ out' = [out EXCEPT ![warp[w].tile] =
               [e \in DOMAIN @ |-> [@[e] EXCEPT ![w] = Verdict(Good(w))]]]
  /\ warp' = [warp EXCEPT ![w].pc = "drain"]
  /\ UNCHANGED <<cfg, data, full, empty, flying, prod, sC, stores>>

StoreSlice(w) ==
  /\ warp[w].pc = "epilogue" /\ cfg.store = "slice"
  /\ out' = [out EXCEPT ![warp[w].tile][warp[w].sub][w] = Verdict(Good(w))]
  /\ warp' = [warp EXCEPT ![w] = AfterSubtile(@)]
  /\ UNCHANGED <<cfg, data, full, empty, flying, prod, sC, stores>>

BeginSubtile(w) ==
  /\ warp[w].pc = "epilogue" /\ cfg.store \notin {"swap", "slice"}
  /\ warp' = Goto(w, IF HasMultiEpiStore THEN "reuseBar" ELSE "stage")
  /\ UNCHANGED <<cfg, data, full, empty, flying, prod, sC, stores, out>>

StageSubtile(w) ==
  /\ warp[w].pc = "stage"
  /\ sC' = [sC EXCEPT ![Buffer(w)][w] = Part(w)]
  /\ warp' = Goto(w, "stagedBar")
  /\ UNCHANGED <<cfg, data, full, empty, flying, prod, stores, out>>

(* A TMA store is issued by warp 0 and reads the buffer some time later. *)
StoreTma(w) ==
  /\ warp[w].pc = "store" /\ cfg.store = "tma"
  /\ IF w = 0
     THEN /\ stores' = stores \union {[tile |-> warp[w].tile, sub |-> warp[w].sub,
                                       buf |-> Buffer(w)]}
          /\ warp' = [warp EXCEPT ![w] = IF HasMultiEpiStore THEN [@ EXCEPT !.pc = "acquire"]
                                         ELSE AfterSubtile(@)]
     ELSE warp' = [warp EXCEPT ![w] = AfterSubtile(@)] /\ UNCHANGED stores
  /\ UNCHANGED <<cfg, data, full, empty, flying, prod, sC, out>>

(* producer_acquire of the store pipeline: all but the last epiStages - 1   *)
(* stores have read their buffers.                                          *)
AcquireStore(w) ==
  /\ warp[w].pc = "acquire"
  /\ \A s \in stores : s.tile = warp[w].tile /\ s.sub > warp[w].sub - (cfg.epiStages - 1)
  /\ warp' = [warp EXCEPT ![w] = AfterSubtile(@)]
  /\ UNCHANGED <<cfg, data, full, empty, flying, prod, sC, stores, out>>

(* All threads read C's row out of the buffer.                              *)
BufferVerdict(me) ==
  Verdict(\A x \in Warp : PartGood(sC[me.sub % cfg.epiStages][x], me.tile, me.sub))
StoreRow(w) ==
  /\ warp[w].pc = "store" /\ cfg.store = "m1"
  /\ out' = [out EXCEPT ![warp[w].tile][warp[w].sub][w] = BufferVerdict(warp[w])]
  /\ warp' = [warp EXCEPT ![w] = AfterSubtile(@)]
  /\ UNCHANGED <<cfg, data, full, empty, flying, prod, sC, stores>>

(* They quantise it into C.  The work tile advances here, and a CTA that    *)
(* goes on meets at a barrier first.                                        *)
StoreQuantized(w) ==
  /\ warp[w].pc = "store" /\ cfg.store = "quantize"
  /\ out' = [out EXCEPT ![warp[w].tile][warp[w].sub][w] = BufferVerdict(warp[w])]
  /\ warp' = [warp EXCEPT ![w] = IF @.tile < cfg.tiles THEN [@ EXCEPT !.pc = "quantBar"]
                                 ELSE AfterSubtile(@)]
  /\ UNCHANGED <<cfg, data, full, empty, flying, prod, sC, stores>>

(* Next work tile; the TMA stores of the last one are drained first. *)
EndTile(w) ==
  /\ warp[w].pc = "drain"
  /\ (HasMultiEpiStore /\ cfg.store = "tma" /\ w = 0) => stores = {}
  /\ warp' = [warp EXCEPT ![w].pc = "tile", ![w].tile = @ + 1]
  /\ UNCHANGED <<cfg, data, full, empty, flying, prod, sC, stores, out>>

StoreReads ==
  \E s \in stores :
    /\ stores' = stores \ {s}
    /\ out' = [out EXCEPT ![s.tile][s.sub] =
                 [w \in Warp |-> Verdict(PartGood(sC[s.buf][w], s.tile, s.sub))]]
    /\ UNCHANGED <<cfg, data, full, empty, flying, prod, warp, sC>>

-----------------------------------------------------------------------------
(* Named barriers: whatever point each warp is at, the barrier opens when   *)
(* all of them are at one of its points.                                    *)

MmaPoints == {"expandBar", "prologueBar", "boundaryBar"}
EpiloguePoints == {"reuseBar", "stagedBar", "quantBar"}

Passed(me) ==
  CASE me.pc = "expandBar" -> [me EXCEPT !.pc = "write"]
    [] me.pc = "prologueBar" ->
         [me EXCEPT !.pc = "first", !.look = IF ExpandAhead THEN @ + 1 ELSE @]
    [] me.pc = "boundaryBar" -> [me EXCEPT !.pc = "load"]
    [] me.pc = "reuseBar" -> [me EXCEPT !.pc = "stage"]
    [] me.pc = "stagedBar" -> [me EXCEPT !.pc = "store"]
    [] me.pc = "quantBar" -> AfterSubtile(me)

BarrierOpens ==
  /\ \E points \in {MmaPoints, EpiloguePoints} : \A w \in Warp : warp[w].pc \in points
  /\ warp' = [w \in Warp |-> Passed(warp[w])]
  /\ UNCHANGED <<cfg, data, full, empty, flying, prod, sC, stores, out>>

MmaWarp(w) ==
  \/ BeginTile(w) \/ ExpandRead(w) \/ ExpandWrite(w) \/ FirstLoad(w) \/ LookAhead(w)
  \/ MultiplyBlock(w) \/ ReleaseStage(w) \/ AwaitStage(w) \/ MultiplyBoundary(w)
  \/ LoadAfterBarrier(w) \/ MultiplyLast(w) \/ StoreSwapped(w) \/ StoreSlice(w)
  \/ BeginSubtile(w) \/ StageSubtile(w) \/ StoreTma(w) \/ AcquireStore(w) \/ StoreRow(w)
  \/ StoreQuantized(w) \/ EndTile(w)

Next ==
  \/ ProducerAcquire \/ ProducerCopy \/ ProducerTail \/ CopyLands
  \/ \E w \in Warp : MmaWarp(w)
  \/ BarrierOpens \/ StoreReads

Spec == Init /\ [][Next]_vars
(* Nothing here waits for anything but another step of the CTA: that some   *)
(* step happens while one can is all the fairness the hardware needs.       *)
FairSpec == Spec /\ WF_vars(Next)

-----------------------------------------------------------------------------
(* What the kernel promises. *)

(* A full barrier speaks for all of its stage: from the wait on it until    *)
(* its release, an MMA warp finds every operand and scale part of its k     *)
(* tile in the stage, those the load warp wrote itself included, and no     *)
(* copy of a later tile lands on them (packed B may be between the phases   *)
(* of its expansion).                                                       *)
Holding == {"expand", "expandBar", "write", "prologueBar", "first", "step", "turn",
            "boundary", "boundaryBar", "load"}
Whole(s, t) ==
  /\ data[s].a = t /\ \A p \in ScalesUsed : data[s][p] = t
  /\ \A x \in Warp :
       \/ data[s].rows[x] = t \/ data[s].packed = t
       \/ warp[x].pc \in {"expandBar", "write"} /\ warp[x].into = s /\ warp[x].hold = t
FullMeansLoaded ==
  \A w \in Warp :
    warp[w].pc \in Holding => Whole(Index(warp[w].use), <<warp[w].tile, warp[w].k>>)

(* What reaches C is the sum over exactly the k blocks of its work tile,    *)
(* each once and in order, whatever the ring, the expansion in place and    *)
(* the reuse of the epilogue buffers did meanwhile.                         *)
OutputRight ==
  \A j \in DOMAIN out : \A e \in DOMAIN out[j] : \A w \in Warp : out[j][e][w] # "wrong"

(* Every work tile is stored and the CTA ends: no barrier waits for bytes   *)
(* or warps that do not come.                                               *)
EveryTileStored ==
  <>(/\ prod.pc = "done"
     /\ \A w \in Warp : warp[w].tile > cfg.tiles
     /\ \A j \in DOMAIN out : \A e \in DOMAIN out[j] : \A w \in Warp : out[j][e][w] = "right")
=============================================================================

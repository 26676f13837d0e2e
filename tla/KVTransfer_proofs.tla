------------------------- MODULE KVTransfer_proofs -------------------------
(***************************************************************************)
(* Proofs about KVTransfer for every set of requests, every pool and every *)
(* offer of the connector: the types, the stages of a load and of a send,  *)
(* and that nobody else touches the blocks a load still writes; then, if   *)
(* the connector loads asynchronously only, what the blocks hold: the      *)
(* prefix cache keeps its promises, and no token comes from KV that is not *)
(* in place.                                                               *)
(***************************************************************************)
EXTENDS KVTransfer, SequenceLemmas, FiniteSetTheorems

(* The sets the variables range over.                                         *)
Statuses == {"new", "waiting", "remote", "preempted", "running", "finished", "gone"}
Report == [invalid : SUBSET Block, received : SUBSET Req, sent : SUBSET Req]
Planned == [req : Req, tab : Seq(Block), from : Nat, n : Nat, sync : SUBSET Block]
Executed == [good : BOOLEAN, req : Req, n : Nat, sync : SUBSET Block]
Steps == [entries : Seq(Planned \union Executed), budget : Nat, passed : Seq(Req),
          stop : BOOLEAN, preempted : BOOLEAN, kv : Report]

RequestTypes ==
  /\ offer \in [Req -> Offers]
  /\ status \in [Req -> Statuses]
  /\ computed \in [Req -> Nat] /\ \A r \in Req : computed[r] <= Len0[r]
  /\ table \in [Req -> Seq(Block)]
QueueTypes ==
  /\ skipped \in Seq(Req) /\ waiting \in Seq(Req) /\ running \in Seq(Req)
  /\ IsInjective(running)
BlockTypes ==
  /\ cache \in [Index -> Block \union {NoBlock}]
  /\ loading \in [Req -> SUBSET Block]
EngineTypes ==
  /\ report \in Report /\ step \in Steps
  /\ sending \subseteq Req /\ finishedRecv \subseteq Req
  /\ failedRecv \subseteq Req /\ prefilling \subseteq Req
  /\ pc \in {"schedule", "flight", "output"}
Types == RequestTypes /\ QueueTypes /\ BlockTypes /\ EngineTypes

(* What is running, and what a step in the making holds: the running requests *)
(* up to some index, with no more tokens than they are computed to.           *)
RunningOk == \A r \in ToSet(running) : status[r] = "running"
StepInOrder ==
  pc = "schedule" =>
    \A i, j \in DOMAIN running : i < j /\ running[j] \in InStep => running[i] \in InStep
EntriesOk ==
  \A k \in DOMAIN step.entries :
    LET e == step.entries[k] IN
      /\ status[e.req] \in {"running", "finished", "gone"}
      /\ status[e.req] = "running" => e.n <= computed[e.req]
ReportLater == pc # "output" => step.kv = NoReport

(* The stages of a load (under way, reported by the worker, in the output of *)
(* the step, over) and of a send; a request is in one of them at most, and   *)
(* one that waits for its load, or holds blocks past its end, is in one.     *)
Loading(r) == loading[r] # {}
Reported(r) == r \in report.received
InOutput(r) == r \in step.kv.received
Sent(r) == r \in sending \/ r \in report.sent \/ r \in step.kv.sent
StageOf(r) ==
  /\ Loading(r) => ~Reported(r) /\ ~InOutput(r) /\ r \notin finishedRecv
  /\ Reported(r) => ~InOutput(r) /\ r \notin finishedRecv
  /\ InOutput(r) => r \notin finishedRecv
  /\ Loading(r) \/ Reported(r) \/ InOutput(r) => status[r] \in {"remote", "finished"} /\ ~Sent(r)
  /\ r \in finishedRecv => status[r] = "remote"
  /\ Sent(r) => status[r] = "finished"
  /\ r \in sending => r \notin report.sent /\ r \notin step.kv.sent
  /\ r \in report.sent => r \notin step.kv.sent
  /\ status[r] = "remote" => Loading(r) \/ Reported(r) \/ InOutput(r) \/ r \in finishedRecv
  /\ status[r] = "finished" => Loading(r) \/ Reported(r) \/ InOutput(r) \/ Sent(r)
StagesOk == \A r \in Req : StageOf(r)
RoomOk == \A r \in Req : status[r] = "remote" => Blocks(computed[r]) <= Len(table[r])

(* LoadTargetsHeld, block by block.                                           *)
Alone ==
  \A r \in Req : \A b \in loading[r] :
    /\ b \in ToSet(table[r]) /\ b \notin Range(cache)
    /\ \A q \in Req \ {r} : b \notin ToSet(table[q])

(* The inductive invariant.                                                   *)
KVInv ==
  /\ Types /\ RunningOk /\ StepInOrder /\ EntriesOk /\ ReportLater
  /\ StagesOk /\ RoomOk /\ Alone

-----------------------------------------------------------------------------
(* Blocks and tokens.                                                        *)
LEMMA DivMono ==
  ASSUME NEW n \in Nat \ {0}, NEW a \in Nat, NEW b \in Nat, a <= b
  PROVE  a \div n <= b \div n
<1>1. /\ a \div n \in Nat /\ a % n \in 0 .. n - 1 /\ a = n * (a \div n) + (a % n)
      /\ b \div n \in Nat /\ b % n \in 0 .. n - 1 /\ b = n * (b \div n) + (b % n)
  BY DivMod
<1>2. n * (a \div n) \in Int /\ n * (b \div n) \in Int
      /\ (b \div n < a \div n => n * (b \div n) + n <= n * (a \div n))
  BY <1>1, MulMono
<1>3. QED
  BY <1>1, <1>2

(* The blocks of t tokens, of which t \div BlockSize are full.                *)
LEMMA BlocksFacts ==
  ASSUME NEW t \in Nat
  PROVE  /\ Blocks(t) \in Nat /\ t \div BlockSize \in Nat
         /\ t \div BlockSize <= Blocks(t)
         /\ \A u \in Nat : u <= t => Blocks(u) <= Blocks(t)
<1>1. BlockSize \in Nat \ {0}
  BY KVAssumption
<1>2. ASSUME NEW u \in Nat
      PROVE  /\ u + BlockSize - 1 \in Nat /\ u <= u + BlockSize - 1
             /\ Blocks(u) = (u + BlockSize - 1) \div BlockSize
  BY <1>1 DEF Blocks, CDiv
<1>3. Blocks(t) \in Nat /\ t \div BlockSize \in Nat
  BY <1>1, <1>2, DivMod
<1>4. t \div BlockSize <= Blocks(t)
  BY <1>1, <1>2, DivMono
<1>5. ASSUME NEW u \in Nat, u <= t PROVE Blocks(u) <= Blocks(t)
  <2>1. u + BlockSize - 1 <= t + BlockSize - 1
    BY <1>1, <1>5
  <2>2. QED
    BY <1>1, <1>2, <2>1, DivMono
<1>6. QED
  BY <1>3, <1>4, <1>5

(* A bounded, non-empty set of naturals has a greatest element.               *)
LEMMA MaxIn ==
  ASSUME NEW m \in Nat, NEW S \in SUBSET (0..m), S # {}
  PROVE  Max(S) \in S /\ \A x \in S : x <= Max(S)
<1> DEFINE T == {k \in Nat : \A x \in S : x <= k}
<1>1. T \in SUBSET Nat /\ m \in T
  OBVIOUS
<1>2. PICK k \in T : \A y \in T : k <= y
  <2> HIDE DEF T
  <2>1. \E k \in T : \A y \in T : k <= y
    BY <1>1, LeastNatural
  <2>2. QED
    BY <2>1
<1>3. k \in S
  <2>1. SUFFICES ASSUME k \notin S PROVE FALSE
    OBVIOUS
  <2>2. \A x \in S : x \in Nat /\ x <= k - 1
    BY <1>2, <2>1
  <2>3. k - 1 \in Nat
    <3>1. PICK x \in S : TRUE
      OBVIOUS
    <3>2. x \in Nat /\ x <= k - 1 /\ k \in Nat
      BY <1>2, <2>2
    <3>3. QED
      BY <3>2
  <2>4. k - 1 \in T
    BY <2>2, <2>3
  <2>5. k <= k - 1
    BY <1>2, <2>4
  <2>6. QED
    BY <1>2, <2>5
<1>4. \E x \in S : \A y \in S : x >= y
  BY <1>2, <1>3
<1>5. Max(S) \in S /\ \A y \in S : Max(S) >= y
  BY <1>4 DEF Max
<1>6. QED
  BY <1>5

(* The longest prompt bounds the blocks of every other.                       *)
LEMMA IndexFacts ==
  ASSUME NEW r \in Req, NEW i \in Nat, i < Blocks(Len0[r])
  PROVE  i \in Index
<1> DEFINE S == {Len0[q] : q \in Req}
<1>1. S # {} /\ S \in SUBSET Nat
  BY KVAssumption
<1>2. PICK m \in Nat : S \in SUBSET (0..m)
  <2>1. PICK n \in Nat : ExistsBijection(1..n, Req)
    BY KVAssumption, FS_NatBijection
  <2>2. PICK f \in [1..n -> Req] : \A q \in Req : \E j \in 1..n : f[j] = q
    BY <2>1 DEF ExistsBijection, Bijection, Surjection
  <2>3. n # 0
    BY <2>2, KVAssumption
  <2> DEFINE g == [j \in 1..n |-> Len0[f[j]]]
  <2>4. g \in [1..n -> Nat] /\ \A x \in S : \E j \in 1..n : g[j] = x
    <3>1. \A q \in Req : Len0[q] \in Nat
      BY KVAssumption
    <3>2. g \in [1..n -> Nat]
      BY <2>2, <3>1
    <3>3. ASSUME NEW x \in S PROVE \E j \in 1..n : g[j] = x
      <4>1. PICK q \in Req : x = Len0[q]
        OBVIOUS
      <4>2. PICK j \in 1..n : f[j] = q
        BY <2>2
      <4>3. QED
        BY <4>1, <4>2
    <3>4. QED
      BY <3>2, <3>3
  <2> HIDE DEF g, S
  <2>5. PICK k \in 1..n : \A j \in 1..n : g[j] <= g[k]
    BY <2>1, <2>3, <2>4, GreatestNatural
  <2>6. g[k] \in Nat /\ \A x \in S : x \in 0..g[k]
    BY <1>1, <2>4, <2>5
  <2>7. QED
    BY <2>6
<1>3. Max(S) \in S /\ Len0[r] <= Max(S)
  <2>1. Len0[r] \in S
    OBVIOUS
  <2> HIDE DEF S
  <2>2. QED
    BY <1>1, <1>2, <2>1, MaxIn
<1>4. Max(S) \in Nat /\ Len0[r] \in Nat
  BY <1>1, <1>3, KVAssumption
<1>5. Blocks(Len0[r]) <= Blocks(Max(S)) /\ Blocks(Max(S)) \in Nat /\ Blocks(Len0[r]) \in Nat
  BY <1>3, <1>4, BlocksFacts
<1>6. Index = 0..(Blocks(Max(S)) - 1)
  BY DEF Index
<1> HIDE DEF S
<1>7. QED
  BY <1>5, <1>6

(* The blocks taken from the free ones, as a sequence.                        *)
LEMMA TakesFacts ==
  ASSUME NEW free \in SUBSET Block, NEW n \in Nat, NEW new \in Takes(n, free)
  PROVE  /\ new \subseteq free
         /\ SetToSeq(new) \in Seq(Block) /\ ToSet(SetToSeq(new)) = new
         /\ Len(SetToSeq(new)) = n /\ IsInjective(SetToSeq(new))
<1>1. new \in SUBSET free /\ Cardinality(new) = n
  BY DEF Takes, kSubset
<1>2. IsFiniteSet(new)
  <2>1. IsFiniteSet(Block)
    BY KVAssumption, FS_Interval DEF Block
  <2>2. QED
    BY <1>1, <2>1, FS_Subset
<1>3. PICK f \in [1..n -> new] : IsInjective(f) /\ \A x \in new : \E j \in 1..n : f[j] = x
  <2>1. ExistsBijection(1..n, new)
    BY <1>1, <1>2, FS_CardinalityType
  <2>2. PICK f \in [1..n -> new] : /\ \A x, y \in 1..n : x # y => f[x] # f[y]
                                   /\ \A x \in new : \E j \in 1..n : f[j] = x
    BY <2>1 DEF ExistsBijection, Bijection, Injection, Surjection, IsInjective
  <2>3. IsInjective(f)
    BY <2>2 DEF IsInjective
  <2>4. QED
    BY <2>2, <2>3
<1> DEFINE s == SetToSeq(new)
<1>4. s \in [1..n -> new] /\ IsInjective(s)
  BY <1>1, <1>3 DEF SetToSeq
<1>5. s \in Seq(Block) /\ Len(s) = n
  <2>1. s \in Seq(new)
    BY <1>4
  <2>2. QED
    BY <1>1, <1>4, <2>1
<1>6. \A x \in new : \E j \in 1..n : s[j] = x
  <2> HIDE DEF s
  <2>1. s \in Surjection(1..n, new)
    <3>1. s \in Injection(1..n, new)
      BY <1>4 DEF Injection, IsInjective
    <3>2. IsFiniteSet(1..n) /\ Cardinality(1..n) = n
      BY FS_Interval
    <3>3. QED
      BY <1>1, <1>2, <3>1, <3>2, FS_Injection
  <2>2. QED
    BY <2>1 DEF Surjection
<1>7. ToSet(s) = new
  <2> HIDE DEF s
  <2> QED
    BY <1>4, <1>6 DEF ToSet
<1>8. QED
  BY <1>1, <1>4, <1>5, <1>7

(* allocate_slots: a table with room for t tokens.                            *)
LEMMA AllocateFacts ==
  ASSUME NEW base \in Seq(Block), NEW t \in Nat, NEW free \in SUBSET Block,
         NEW new \in Takes(Missing(base, t), free)
  PROVE  /\ new \subseteq free /\ base \o SetToSeq(new) \in Seq(Block)
         /\ ToSet(base \o SetToSeq(new)) = ToSet(base) \union new
         /\ Blocks(t) <= Len(base \o SetToSeq(new))
         /\ SetToSeq(new) \in Seq(Block) /\ ToSet(SetToSeq(new)) = new
         /\ Len(SetToSeq(new)) = Missing(base, t) /\ IsInjective(SetToSeq(new))
<1>1. Missing(base, t) \in Nat /\ Len(base) \in Nat /\ Blocks(t) \in Nat
      /\ Blocks(t) <= Len(base) + Missing(base, t)
  <2>1. Len(base) \in Nat /\ Blocks(t) \in Nat
    BY BlocksFacts, LenProperties
  <2>2. QED
    BY <2>1 DEF Missing
<1>2. /\ new \subseteq free
      /\ SetToSeq(new) \in Seq(Block) /\ ToSet(SetToSeq(new)) = new
      /\ Len(SetToSeq(new)) = Missing(base, t) /\ IsInjective(SetToSeq(new))
  BY <1>1, TakesFacts
<1> DEFINE s == SetToSeq(new)
<1>3. s \in Seq(Block) /\ Len(s) = Missing(base, t)
  BY <1>2
<1> HIDE DEF s
<1>4. base \o s \in Seq(Block) /\ Len(base \o s) = Len(base) + Len(s)
  BY <1>3
<1>5. ToSet(base \o s) = ToSet(base) \union ToSet(s)
  BY <1>3, ConcatFacts
<1>6. QED
  BY <1>1, <1>2, <1>3, <1>4, <1>5 DEF s

(* What caching and evicting do to the cache.                                 *)
CacheType == [Index -> Block \union {NoBlock}]
LEMMA CachedFacts ==
  ASSUME NEW c \in CacheType, NEW tab \in Seq(Block), NEW t \in Nat, t \div BlockSize <= Len(tab)
  PROVE  /\ Cached(c, tab, t) \in CacheType
         /\ Range(Cached(c, tab, t)) \subseteq Range(c) \union ToSet(tab)
<1>1. \A i \in Index : i \in Nat
  BY DEF Index
<1>2. t \div BlockSize \in Nat /\ Len(tab) \in Nat /\ DOMAIN tab = 1..Len(tab)
  BY BlocksFacts
<1>3. ASSUME NEW i \in Index, i < t \div BlockSize
      PROVE  tab[i + 1] \in Block /\ tab[i + 1] \in ToSet(tab)
  <2>1. i + 1 \in 1..Len(tab)
    BY <1>1, <1>2, <1>3
  <2>2. QED
    BY <1>2, <2>1 DEF ToSet
<1> DEFINE d == Cached(c, tab, t)
<1>4. d = [i \in Index |-> IF c[i] = NoBlock /\ i < t \div BlockSize THEN tab[i + 1] ELSE c[i]]
  BY DEF Cached
<1> HIDE DEF d
<1>5. d \in CacheType
  BY <1>3, <1>4 DEF CacheType
<1>6. \A i \in Index : d[i] = c[i] \/ d[i] \in ToSet(tab)
  BY <1>3, <1>4
<1>7. DOMAIN c = Index /\ DOMAIN d = Index
  BY <1>5 DEF CacheType
<1>8. Range(d) \subseteq Range(c) \union ToSet(tab)
  BY <1>6, <1>7 DEF Range
<1>9. QED
  BY <1>5, <1>8 DEF d

LEMMA EvictedFacts ==
  ASSUME NEW c \in CacheType, NEW bs \in SUBSET Block
  PROVE  /\ Evicted(c, bs) \in CacheType
         /\ Range(Evicted(c, bs)) \subseteq (Range(c) \ bs) \union {NoBlock}
<1> DEFINE d == Evicted(c, bs)
<1>1. d = [i \in Index |-> IF c[i] \in bs THEN NoBlock ELSE c[i]]
  BY DEF Evicted
<1> HIDE DEF d
<1>2. d \in CacheType
  BY <1>1 DEF CacheType
<1>3. DOMAIN c = Index /\ DOMAIN d = Index
  BY <1>2 DEF CacheType
<1>4. Range(d) \subseteq (Range(c) \ bs) \union {NoBlock}
  BY <1>1, <1>3 DEF Range
<1>5. QED
  BY <1>2, <1>4 DEF d

(* The longest cached prefix leaves at least a token to compute.              *)
LEMMA LocalHitFacts ==
  ASSUME Types, NEW r \in Req
  PROVE  /\ LocalHit(r) \in Nat /\ LocalHit(r) * BlockSize \in 0..(Len0[r] - 1)
         /\ HitBlocks(LocalHit(r)) \in Seq(Block) /\ Len(HitBlocks(LocalHit(r))) = LocalHit(r)
         /\ ToSet(HitBlocks(LocalHit(r))) \subseteq Range(cache)
<1>1. /\ cache \in [Index -> Block \union {NoBlock}]
      /\ BlockSize \in Nat \ {0} /\ Len0[r] \in Nat \ {0} /\ Len0[r] - 1 \in Nat
  BY KVAssumption DEF Types, BlockTypes
<1> DEFINE m == (Len0[r] - 1) \div BlockSize
           S == {h \in 0..m : \A i \in 0..(h - 1) : cache[i] # NoBlock}
           h == LocalHit(r)
<1>2. m \in Nat /\ m <= Blocks(Len0[r] - 1)
  BY <1>1, BlocksFacts
<1>3. S \in SUBSET (0..m) /\ 0 \in S
  BY <1>2
<1>4. h \in S
  <2>1. h = Max(S)
    BY DEF LocalHit
  <2> HIDE DEF S, m, h
  <2>2. QED
    BY <1>2, <1>3, <2>1, MaxIn
<1>5. h \in Nat /\ h <= m /\ \A i \in 0..(h - 1) : cache[i] # NoBlock
  BY <1>2, <1>4
<1>6. h * BlockSize \in 0..(Len0[r] - 1)
  <2>1. Len0[r] - 1 = BlockSize * m + ((Len0[r] - 1) % BlockSize)
        /\ (Len0[r] - 1) % BlockSize \in Nat
    <3> DEFINE a == Len0[r] - 1
    <3>1. a \in Nat
      BY <1>1
    <3> HIDE DEF a
    <3>2. a = BlockSize * (a \div BlockSize) + (a % BlockSize) /\ a % BlockSize \in 0 .. BlockSize - 1
      BY <1>1, <3>1, DivMod
    <3>3. a % BlockSize \in Nat
      BY <1>1, <3>2
    <3>4. QED
      BY <3>2, <3>3 DEF a
  <2> HIDE DEF m, h, S
  <2>2. BlockSize * h <= BlockSize * m /\ BlockSize * h = h * BlockSize /\ 0 <= BlockSize * h
        /\ BlockSize * h \in Int /\ BlockSize * m \in Int
    <3>1. h < m \/ h = m
      BY <1>2, <1>5
    <3>2. BlockSize * 0 = 0
      BY <1>1
    <3>3. 0 < h \/ 0 = h
      BY <1>5
    <3>4. /\ (h < m => BlockSize * h + BlockSize <= BlockSize * m)
          /\ BlockSize * h \in Int /\ BlockSize * h = h * BlockSize
          /\ BlockSize * m \in Int
          /\ (0 < h => BlockSize * 0 + BlockSize <= BlockSize * h)
      BY <1>1, <1>2, <1>5, MulMono
    <3>5. QED
      BY <1>1, <3>1, <3>2, <3>3, <3>4
  <2>3. QED
    BY <1>1, <2>1, <2>2
<1>7. \A i \in 1..h : i - 1 \in Index /\ cache[i - 1] \in Block
  <2>1. Blocks(Len0[r] - 1) <= Blocks(Len0[r]) /\ Blocks(Len0[r]) \in Nat
        /\ Blocks(Len0[r] - 1) \in Nat
    BY <1>1, BlocksFacts
  <2>2. ASSUME NEW i \in 1..h PROVE i - 1 \in Index /\ cache[i - 1] # NoBlock
    <3> HIDE DEF h, m, S
    <3>1. i - 1 \in Nat /\ i - 1 < Blocks(Len0[r]) /\ i - 1 \in 0..(h - 1)
      BY <1>2, <1>5, <2>1
    <3>2. QED
      BY <1>5, <3>1, IndexFacts
  <2>3. QED
    BY <1>1, <2>2
<1> DEFINE s == HitBlocks(h)
<1>8. s = [i \in 1..h |-> cache[i - 1]]
  BY DEF HitBlocks
<1> HIDE DEF s
<1>9. s \in Seq(Block) /\ Len(s) = h
  <2> HIDE DEF h
  <2> QED
    BY <1>5, <1>7, <1>8
<1>10. ToSet(s) \subseteq Range(cache)
  <2> HIDE DEF h
  <2>1. DOMAIN s = 1..h /\ DOMAIN cache = Index
    BY <1>1, <1>8
  <2>2. QED
    BY <1>7, <1>8, <2>1 DEF ToSet, Range
<1>11. QED
  BY <1>5, <1>6, <1>9, <1>10 DEF s

-----------------------------------------------------------------------------
(* The choices of the scheduler.                                             *)
LEMMA MaxOfTwo ==
  ASSUME NEW a \in Int, NEW b \in Int
  PROVE  Max({a, b}) \in {a, b} /\ Max({a, b}) >= a /\ Max({a, b}) >= b
<1>1. \E x \in {a, b} : \A y \in {a, b} : x >= y
  <2>1. CASE a >= b
    BY <2>1
  <2>2. CASE b >= a
    BY <2>2
  <2>3. QED
    BY <2>1, <2>2
<1>2. Max({a, b}) \in {a, b} /\ \A y \in {a, b} : Max({a, b}) >= y
  BY <1>1 DEF Max
<1>3. QED
  BY <1>2

LEMMA ChunkFacts ==
  ASSUME Types, NEW r \in Req, NEW from \in Nat, from <= Len0[r]
  PROVE  /\ Chunk(r, from) \in Nat
         /\ from + Chunk(r, from) \in Nat /\ from + Chunk(r, from) <= Len0[r]
         /\ Chunk(r, from) <= step.budget
<1>1. step.budget \in Nat /\ ChunkLimit \in Nat /\ Len0[r] \in Nat
  BY KVAssumption DEF Types, EngineTypes, Steps
<1> DEFINE a == Len0[r] - from
           b == step.budget
           S == {a, ChunkLimit, b}
<1>2. a \in Nat /\ b \in Nat /\ ChunkLimit \in Nat
  BY <1>1
<1>3. Chunk(r, from) \in S /\ \A y \in S : Chunk(r, from) <= y
  <2>1. Chunk(r, from) = Min(S)
    BY DEF Chunk
  <2>2. PICK x \in S : \A y \in S : x <= y
    <3>1. S \in SUBSET Nat /\ S # {}
      BY <1>2
    <3> HIDE DEF S
    <3>2. \E x \in S : \A y \in S : x <= y
      BY <3>1, LeastNatural
    <3>3. QED
      BY <3>2
  <2> HIDE DEF S
  <2>3. QED
    BY <2>1, <2>2 DEF Min
<1>4. a = Len0[r] - from
  OBVIOUS
<1> HIDE DEF a
<1>5. QED
  BY <1>1, <1>2, <1>3, <1>4

(* Where a request starts, and with which blocks; a request that is to load   *)
(* starts behind the cached prefix.                                          *)
LEMMA StartFacts ==
  ASSUME Types, NEW r \in Req
  PROVE  /\ Start(r) \in Nat /\ Start(r) <= Len0[r]
         /\ Base(r) \in Seq(Block)
         /\ ToSet(Base(r)) \subseteq Range(cache) \union ToSet(table[r])
         /\ Local(r) \in Nat /\ External(r) \in Nat
         /\ External(r) > 0 =>
              /\ Start(r) > Local(r) /\ computed[r] = 0
              /\ Local(r) = LocalHit(r) * BlockSize
              /\ Base(r) = HitBlocks(LocalHit(r))
<1>1. /\ offer[r].tokens \in Nat /\ Len0[r] \in Nat \ {0}
      /\ computed[r] \in Nat /\ computed[r] <= Len0[r]
      /\ table[r] \in Seq(Block)
  BY KVAssumption DEF Types, RequestTypes
<1>2. /\ LocalHit(r) \in Nat /\ LocalHit(r) * BlockSize \in 0..(Len0[r] - 1)
      /\ HitBlocks(LocalHit(r)) \in Seq(Block)
      /\ ToSet(HitBlocks(LocalHit(r))) \subseteq Range(cache)
  BY LocalHitFacts
<1>3. Local(r) \in 0..(Len0[r] - 1)
  BY <1>1, <1>2 DEF Local
<1>4. External(r) \in Nat /\ Local(r) + External(r) <= Len0[r]
  <2> DEFINE most == IF offer[r].kind = "sync" THEN Len0[r] - 1 ELSE Len0[r]
             d == Lesser(offer[r].tokens, most) - Local(r)
  <2>1. most \in Nat /\ Len0[r] - 1 <= most /\ most <= Len0[r]
    BY <1>1
  <2>2. d \in Int /\ d <= most - Local(r)
    <3> HIDE DEF most
    <3> QED
      BY <1>1, <1>3, <2>1 DEF Lesser
  <2>3. External(r) = 0 \/ External(r) = Max({0, d})
    BY DEF External
  <2> HIDE DEF d, most
  <2>4. Max({0, d}) \in {0, d} /\ Max({0, d}) >= 0
    <3>1. \A a, b \in Int : Max({a, b}) \in {a, b} /\ Max({a, b}) >= a
      BY MaxOfTwo
    <3>2. 0 \in Int
      OBVIOUS
    <3>3. QED
      BY <2>2, <3>1, <3>2
  <2>5. QED
    BY <1>1, <1>3, <2>1, <2>2, <2>3, <2>4
<1>5. External(r) > 0 => computed[r] = 0
  <2>1. computed[r] > 0 => External(r) = 0
    BY DEF External
  <2>2. QED
    BY <1>1, <1>4, <2>1
<1>6. CASE computed[r] = 0
  <2>1. /\ Start(r) = Local(r) + External(r) /\ Local(r) = LocalHit(r) * BlockSize
        /\ Base(r) = HitBlocks(LocalHit(r))
    BY <1>6 DEF Start, Local, Base
  <2>2. Start(r) \in Nat /\ Start(r) <= Len0[r] /\ (External(r) > 0 => Start(r) > Local(r))
    BY <1>3, <1>4, <2>1
  <2>3. QED
    BY <1>2, <1>3, <1>4, <1>6, <2>1, <2>2
<1>7. CASE computed[r] # 0
  <2>1. Start(r) = computed[r] /\ Base(r) = table[r]
    BY <1>7 DEF Start, Base
  <2>2. QED
    BY <1>1, <1>3, <1>4, <1>5, <1>7, <2>1
<1>8. QED
  BY <1>6, <1>7

(* The next running request of a step: those before it are in the step.       *)
LEMMA NextRunningFacts ==
  ASSUME Types
  PROVE  /\ NextRunning \in 0..Len(running)
         /\ NextRunning # 0 =>
              /\ NextRunning \in 1..Len(running) /\ running[NextRunning] \in Req
              /\ running[NextRunning] \in ToSet(running)
              /\ running[NextRunning] \notin InStep
              /\ \A j \in 1..Len(running) : j < NextRunning => running[j] \in InStep
         /\ NextRunning = 0 => \A j \in 1..Len(running) : running[j] \in InStep
<1>1. Len(running) \in Nat /\ DOMAIN running = 1..Len(running)
      /\ \A i \in 1..Len(running) : running[i] \in Req
  BY LenProperties, ElementOfSeq DEF Types, QueueTypes
<1> DEFINE I == {i \in 1..Len(running) : running[i] \notin InStep}
<1>2. NextRunning = IF I # {} THEN Min(I) ELSE 0
  BY DEF NextRunning, SelectInSeq
<1>3. CASE I = {}
  BY <1>1, <1>2, <1>3
<1>4. CASE I # {}
  <2>1. I \in SUBSET Nat
    BY <1>1
  <2>2. NextRunning \in I /\ \A j \in I : NextRunning <= j
    <3> HIDE DEF I
    <3>1. \E x \in I : \A y \in I : x <= y
      BY <1>4, <2>1, LeastNatural
    <3>2. Min(I) \in I /\ \A y \in I : Min(I) <= y
      BY <3>1 DEF Min
    <3>3. QED
      BY <1>2, <1>4, <3>2
  <2>3. NextRunning \in 1..Len(running) /\ NextRunning # 0
    BY <1>1, <2>2
  <2>4. \A j \in 1..Len(running) : j < NextRunning => running[j] \in InStep
    BY <1>1, <2>2, <2>3
  <2>5. running[NextRunning] \in ToSet(running)
    BY <1>1, <2>3 DEF ToSet
  <2>6. QED
    BY <1>1, <2>2, <2>3, <2>4, <2>5
<1>5. QED
  BY <1>3, <1>4

(* The parts of a step.                                                      *)
LEMMA StepFields ==
  ASSUME NEW s \in Steps
  PROVE  /\ s.entries \in Seq(Planned \union Executed) /\ s.budget \in Nat
         /\ s.passed \in Seq(Req) /\ s.kv \in Report
         /\ Len(s.entries) \in Nat /\ DOMAIN s.entries = 1..Len(s.entries)
         /\ \A k \in DOMAIN s.entries : /\ s.entries[k] \in Planned \union Executed
                                        /\ s.entries[k].req \in Req /\ s.entries[k].n \in Nat
         /\ s.kv.received \subseteq Req /\ s.kv.sent \subseteq Req /\ s.kv.invalid \subseteq Block
<1>1. /\ s.entries \in Seq(Planned \union Executed) /\ s.budget \in Nat
      /\ s.passed \in Seq(Req) /\ s.kv \in Report
  BY DEF Steps
<1>2. Len(s.entries) \in Nat /\ DOMAIN s.entries = 1..Len(s.entries)
      /\ \A k \in 1..Len(s.entries) : s.entries[k] \in Planned \union Executed
  <2> DEFINE q == s.entries
             T == Planned \union Executed
  <2>1. q \in Seq(T)
    BY <1>1
  <2> HIDE DEF q, T
  <2>2. Len(q) \in Nat /\ DOMAIN q = 1..Len(q) /\ \A k \in 1..Len(q) : q[k] \in T
    BY <2>1, LenProperties, ElementOfSeq
  <2>3. QED
    BY <2>2 DEF q, T
<1>3. \A e \in Planned \union Executed : e.req \in Req /\ e.n \in Nat
  BY DEF Planned, Executed
<1>4. s.kv.received \subseteq Req /\ s.kv.sent \subseteq Req /\ s.kv.invalid \subseteq Block
  BY <1>1 DEF Report
<1>5. QED
  BY <1>1, <1>2, <1>3, <1>4

(* An entry more in the step.                                                 *)
LEMMA ScheduledFacts ==
  ASSUME NEW s \in Steps, NEW r \in Req, NEW tab \in Seq(Block), NEW from \in Nat,
         NEW n \in Nat, NEW sync \in SUBSET Block, n <= s.budget,
         NEW t, t = Scheduled(s, Entry(r, tab, from, n, sync))
  PROVE  /\ t \in Steps /\ t.kv = s.kv
         /\ \A k \in DOMAIN t.entries :
              \/ k \in DOMAIN s.entries /\ t.entries[k] = s.entries[k]
              \/ t.entries[k].req = r /\ t.entries[k].n = n
         /\ \A k \in DOMAIN s.entries : k \in DOMAIN t.entries /\ t.entries[k] = s.entries[k]
         /\ \E k \in DOMAIN t.entries : t.entries[k].req = r
<1> DEFINE e == Entry(r, tab, from, n, sync)
           T == Planned \union Executed
           q == s.entries
           u == Append(q, e)
<1>1. e \in T /\ e.req = r /\ e.n = n
  BY DEF Entry, Planned
<1>2. q \in Seq(T) /\ s.budget - n \in Nat
  BY StepFields
<1>3. t = [s EXCEPT !.entries = u, !.budget = s.budget - n]
  BY <1>1 DEF Scheduled
<1> HIDE DEF T, q, e
<1>4. /\ u \in Seq(T) /\ Len(u) = Len(q) + 1 /\ Len(q) \in Nat
      /\ DOMAIN q = 1..Len(q) /\ DOMAIN u = 1..Len(u)
      /\ \A k \in 1..Len(q) : u[k] = q[k]
      /\ u[Len(q) + 1] = e
  BY <1>1, <1>2, AppendProperties, LenProperties
<1> HIDE DEF u
<1>5. t \in Steps /\ t.kv = s.kv /\ t.entries = u
  BY <1>2, <1>3, <1>4 DEF Steps, T
<1>6. \A k \in DOMAIN u : (k \in DOMAIN q /\ u[k] = q[k]) \/ (k = Len(q) + 1 /\ u[k] = e)
  BY <1>4
<1>7. \A k \in DOMAIN q : k \in DOMAIN u /\ u[k] = q[k]
  BY <1>4
<1>8. Len(q) + 1 \in DOMAIN u /\ u[Len(q) + 1] = e
  BY <1>4
<1>9. QED
  BY <1>1, <1>5, <1>6, <1>7, <1>8 DEF e, q

(* What an entry more does to the requests of the step.                       *)
LEMMA EntryAdded ==
  ASSUME KVInv, NEW r \in Req, NEW tab \in Seq(Block), NEW from \in Nat,
         NEW n \in Nat, NEW sync \in SUBSET Block, n <= step.budget,
         step' = Scheduled(step, Entry(r, tab, from, n, sync)),
         computed' \in [Req -> Nat], n <= computed'[r],
         \A q \in Req : computed[q] <= computed'[q],
         status'[r] = "running", \A q \in Req \ {r} : status'[q] = status[q],
         status[r] \in {"running", "waiting", "preempted"}, r \notin InStep
  PROVE  /\ step' \in Steps /\ step'.kv = step.kv /\ EntriesOk'
         /\ \A q \in Req : q \in InStep' <=> q \in InStep \/ q = r
<1>1. step \in Steps /\ computed \in [Req -> Nat] /\ EntriesOk
  BY DEF KVInv, Types, EngineTypes, RequestTypes
<1>2. /\ step' \in Steps /\ step'.kv = step.kv
      /\ \A k \in DOMAIN step'.entries :
           \/ k \in DOMAIN step.entries /\ step'.entries[k] = step.entries[k]
           \/ step'.entries[k].req = r /\ step'.entries[k].n = n
      /\ \A k \in DOMAIN step.entries :
           k \in DOMAIN step'.entries /\ step'.entries[k] = step.entries[k]
      /\ \E k \in DOMAIN step'.entries : step'.entries[k].req = r
  <2>1. ASSUME NEW u, u = Scheduled(step, Entry(r, tab, from, n, sync))
        PROVE  /\ u \in Steps /\ u.kv = step.kv
               /\ \A k \in DOMAIN u.entries :
                    \/ k \in DOMAIN step.entries /\ u.entries[k] = step.entries[k]
                    \/ u.entries[k].req = r /\ u.entries[k].n = n
               /\ \A k \in DOMAIN step.entries :
                    k \in DOMAIN u.entries /\ u.entries[k] = step.entries[k]
               /\ \E k \in DOMAIN u.entries : u.entries[k].req = r
    <3>1. step \in Steps
      BY <1>1
    <3>2. QED
      BY <2>1, <3>1, ScheduledFacts
  <2>2. QED
    BY <2>1
<1>3. \A q \in Req : q \in InStep' <=> q \in InStep \/ q = r
  BY <1>2 DEF InStep
<1>4. EntriesOk'
  <2>1. SUFFICES ASSUME NEW k \in DOMAIN step'.entries
                 PROVE  LET e == step'.entries[k] IN
                          /\ status'[e.req] \in {"running", "finished", "gone"}
                          /\ status'[e.req] = "running" => e.n <= computed'[e.req]
    BY DEF EntriesOk
  <2>2. CASE k \in DOMAIN step.entries /\ step'.entries[k] = step.entries[k]
    <3> DEFINE q == step.entries[k].req
               m == step.entries[k].n
    <3>1. q \in Req /\ m \in Nat
      BY <1>1, <2>2, StepFields
    <3>2. /\ status[q] \in {"running", "finished", "gone"}
          /\ status[q] = "running" => m <= computed[q]
      BY <1>1, <2>2 DEF EntriesOk
    <3>3. computed[q] \in Nat /\ computed'[q] \in Nat
      BY <1>1, <3>1
    <3>4. q \in InStep
      BY <2>2 DEF InStep
    <3> HIDE DEF q, m
    <3>5. CASE q # r
      <4>1. status'[q] = status[q] /\ computed[q] <= computed'[q]
        BY <3>1, <3>5
      <4>2. /\ status'[q] \in {"running", "finished", "gone"}
            /\ status'[q] = "running" => m <= computed'[q]
        BY <3>1, <3>2, <3>3, <4>1
      <4>3. QED
        BY <2>2, <4>2 DEF q, m
    <3>6. CASE q = r
      <4>1. FALSE
        BY <3>2, <3>4, <3>6
      <4>2. QED
        BY <4>1
    <3>7. QED
      BY <3>5, <3>6
  <2>3. CASE step'.entries[k].req = r /\ step'.entries[k].n = n
    BY <2>3
  <2>4. QED
    BY <1>2, <2>2, <2>3
<1>5. QED
  BY <1>2, <1>3, <1>4

-----------------------------------------------------------------------------
(* What does not touch a load's blocks: its own table stays, the other tables *)
(* take free or cached blocks only, and the cache takes none of a request     *)
(* that loads.                                                               *)
LEMMA LoadsUndisturbed ==
  ASSUME Types, Alone,
         \A r \in Req : loading'[r] = loading[r] \/ loading'[r] = {},
         \A r \in Req : loading'[r] # {} => table'[r] = table[r],
         \A q \in Req : ToSet(table'[q]) \subseteq ToSet(table[q]) \union Free \union Range(cache),
         \A b \in Range(cache') : \/ b \in Range(cache) \union Free \union {NoBlock}
                                  \/ \E q \in Req : loading[q] = {} /\ b \in ToSet(table[q])
  PROVE  Alone'
<1>1. SUFFICES ASSUME NEW r \in Req, NEW b \in loading'[r]
               PROVE  /\ b \in ToSet(table'[r]) /\ b \notin Range(cache')
                      /\ \A q \in Req \ {r} : b \notin ToSet(table'[q])
  BY DEF Alone
<1>2. loading'[r] = loading[r] /\ b \in loading[r] /\ table'[r] = table[r]
  BY <1>1
<1>3. /\ b \in ToSet(table[r]) /\ b \notin Range(cache)
      /\ \A q \in Req \ {r} : b \notin ToSet(table[q])
  BY <1>2 DEF Alone
<1>4. b \in Block /\ b # NoBlock
  BY <1>2 DEF Types, BlockTypes, Block, NoBlock
<1>5. b \notin Free
  BY <1>3 DEF Free, Held
<1>6. \A q \in Req : loading[q] = {} => q # r
  BY <1>2
<1>7. b \notin Range(cache')
  BY <1>3, <1>4, <1>5, <1>6
<1>8. \A q \in Req \ {r} : b \notin ToSet(table'[q])
  BY <1>3, <1>5
<1>9. QED
  BY <1>2, <1>3, <1>7, <1>8

(* Stages that stay as they are.                                              *)
LEMMA StagesSame ==
  ASSUME StagesOk, loading' = loading,
         report'.received = report.received, report'.sent = report.sent,
         step'.kv.received = step.kv.received, step'.kv.sent = step.kv.sent,
         finishedRecv' = finishedRecv, sending' = sending,
         \A r \in Req : \/ status'[r] = status[r]
                        \/ /\ status[r] \notin {"remote", "finished"}
                           /\ status'[r] \notin {"remote", "finished"}
  PROVE  StagesOk'
<1>1. SUFFICES ASSUME NEW r \in Req PROVE StageOf(r)'
  BY DEF StagesOk
<1>2. StageOf(r)
  BY DEF StagesOk
<1>3. /\ Loading(r)' <=> Loading(r)
      /\ Reported(r)' <=> Reported(r)
      /\ InOutput(r)' <=> InOutput(r)
      /\ Sent(r)' <=> Sent(r)
  BY DEF Loading, Reported, InOutput, Sent
<1>4. QED
  BY <1>2, <1>3 DEF StageOf

LEMMA RunningLoadsNothing ==
  ASSUME KVInv, NEW r \in Req, status[r] \notin {"remote", "finished"}
  PROVE  loading[r] = {}
BY DEF KVInv, StagesOk, StageOf, Loading

-----------------------------------------------------------------------------
(* Scheduling a running request.                                              *)
LEMMA ScheduleRunningKV == KVInv /\ ScheduleRunning => KVInv'
<1> SUFFICES ASSUME KVInv, ScheduleRunning PROVE KVInv'
  OBVIOUS
<1> DEFINE r == running[NextRunning]
           n == Chunk(r, computed[r])
<1>1. /\ Types /\ RunningOk /\ StepInOrder /\ EntriesOk /\ ReportLater
      /\ StagesOk /\ RoomOk /\ Alone
  BY DEF KVInv
<1>2. /\ NextRunning \in 1..Len(running) /\ r \in Req /\ r \in ToSet(running)
      /\ r \notin InStep
      /\ \A j \in 1..Len(running) : j < NextRunning => running[j] \in InStep
  BY <1>1, NextRunningFacts DEF ScheduleRunning, RunningLoop
<1> HIDE DEF r
<1>3. status[r] = "running" /\ loading[r] = {}
  BY <1>1, <1>2, RunningLoadsNothing DEF RunningOk
<1>4. /\ computed \in [Req -> Nat] /\ \A q \in Req : computed[q] <= Len0[q]
      /\ table \in [Req -> Seq(Block)] /\ cache \in CacheType /\ step \in Steps
      /\ Free \in SUBSET Block
  BY <1>1 DEF Types, RequestTypes, BlockTypes, EngineTypes, CacheType, Free
<1>5. /\ n \in Nat /\ computed[r] + n \in Nat /\ computed[r] + n <= Len0[r] /\ n <= step.budget
  BY <1>1, <1>2, <1>4, ChunkFacts
<1> HIDE DEF n
<1>6. PICK new \in Takes(Missing(table[r], computed[r] + n), Free) :
        LET tab == table[r] \o SetToSeq(new) IN
          /\ table' = [table EXCEPT ![r] = tab]
          /\ cache' = Cached(Evicted(cache, new), tab, computed[r] + n)
          /\ step' = Scheduled(step, Entry(r, tab, computed[r], n, {}))
  BY DEF ScheduleRunning, r, n
<1> DEFINE tab == table[r] \o SetToSeq(new)
<1>7. /\ table' = [table EXCEPT ![r] = tab]
      /\ cache' = Cached(Evicted(cache, new), tab, computed[r] + n)
      /\ step' = Scheduled(step, Entry(r, tab, computed[r], n, {}))
      /\ computed' = [computed EXCEPT ![r] = @ + n]
      /\ UNCHANGED <<policy, offer, loads, status, preempted, prefilling, skipped, waiting,
                     running, kvs, pc, out>>
  BY <1>6 DEF ScheduleRunning, r, n
<1>8. /\ new \subseteq Free /\ tab \in Seq(Block) /\ ToSet(tab) = ToSet(table[r]) \union new
      /\ Blocks(computed[r] + n) <= Len(tab) /\ Len(tab) \in Nat
  <2>1. table[r] \in Seq(Block)
    BY <1>2, <1>4
  <2>2. /\ new \subseteq Free /\ tab \in Seq(Block) /\ ToSet(tab) = ToSet(table[r]) \union new
        /\ Blocks(computed[r] + n) <= Len(tab)
    <3> DEFINE base == table[r]
               to == computed[r] + n
    <3>1. base \in Seq(Block) /\ to \in Nat /\ Free \in SUBSET Block
          /\ new \in Takes(Missing(base, to), Free)
      BY <1>4, <1>5, <1>6, <2>1
    <3>2. tab = base \o SetToSeq(new)
      OBVIOUS
    <3> HIDE DEF base, to, tab
    <3>3. /\ new \subseteq Free /\ base \o SetToSeq(new) \in Seq(Block)
          /\ ToSet(base \o SetToSeq(new)) = ToSet(base) \union new
          /\ Blocks(to) <= Len(base \o SetToSeq(new))
      BY <3>1, AllocateFacts
    <3>4. QED
      BY <3>2, <3>3 DEF base, to
  <2>3. QED
    BY <2>2, LenProperties
<1> HIDE DEF tab
<1>9. (computed[r] + n) \div BlockSize <= Len(tab)
  <2> DEFINE to == computed[r] + n
  <2>1. to \in Nat /\ Blocks(to) <= Len(tab) /\ Len(tab) \in Nat
    BY <1>5, <1>8
  <2> HIDE DEF to
  <2>2. to \div BlockSize \in Nat /\ Blocks(to) \in Nat /\ to \div BlockSize <= Blocks(to)
    BY <2>1, BlocksFacts
  <2>3. to \div BlockSize <= Len(tab)
    BY <2>1, <2>2
  <2>4. QED
    BY <2>3 DEF to
<1>10. /\ cache' \in CacheType
       /\ Range(cache') \subseteq (Range(cache) \ new) \union {NoBlock} \union ToSet(tab)
  <2>1. new \in SUBSET Block
    BY <1>4, <1>8
  <2>2. /\ Evicted(cache, new) \in CacheType
        /\ Range(Evicted(cache, new)) \subseteq (Range(cache) \ new) \union {NoBlock}
    BY <1>4, <2>1, EvictedFacts
  <2>3. QED
    BY <1>5, <1>7, <1>8, <1>9, <2>2, CachedFacts
<1>12. UNCHANGED <<offer, status, prefilling, skipped, waiting, running, pc>>
       /\ loading' = loading /\ sending' = sending /\ report' = report
       /\ finishedRecv' = finishedRecv /\ failedRecv' = failedRecv
  BY <1>7 DEF kvs
<1>13. /\ computed' \in [Req -> Nat]
       /\ \A q \in Req : computed'[q] <= Len0[q] /\ computed[q] <= computed'[q]
       /\ n <= computed'[r]
  BY <1>2, <1>4, <1>5, <1>7
<1>11. /\ step' \in Steps /\ step'.kv = step.kv /\ EntriesOk'
       /\ \A q \in Req : q \in InStep' <=> q \in InStep \/ q = r
  <2>1. computed[r] \in Nat /\ {} \in SUBSET Block
    BY <1>2, <1>4
  <2> DEFINE from == computed[r]
             none == {}
  <2>2. step' = Scheduled(step, Entry(r, tab, from, n, none))
    BY <1>7
  <2>3. from \in Nat /\ none \in SUBSET Block
    BY <2>1
  <2>4. status'[r] = "running" /\ \A q \in Req \ {r} : status'[q] = status[q]
    BY <1>3, <1>12
  <2> HIDE DEF from, none
  <2>5. QED
    BY <1>2, <1>3, <1>5, <1>8, <1>13, <2>2, <2>3, <2>4, EntryAdded
<1>14. table' \in [Req -> Seq(Block)]
  BY <1>4, <1>7, <1>8
<1>15. Types'
  BY <1>1, <1>10, <1>11, <1>12, <1>13, <1>14
  DEF Types, RequestTypes, QueueTypes, BlockTypes, EngineTypes, CacheType
<1>16. RunningOk'
  BY <1>1, <1>12 DEF RunningOk
<1>17. StepInOrder'
  <2>1. Len(running) \in Nat /\ DOMAIN running = 1..Len(running)
    BY <1>1, LenProperties DEF Types, QueueTypes
  <2>2. \A i, j \in DOMAIN running : i < j /\ running[j] \in InStep => running[i] \in InStep
    BY <1>1 DEF StepInOrder, ScheduleRunning, RunningLoop
  <2>3. \A j \in DOMAIN running : running[j] = r => j = NextRunning
    BY <1>1, <1>2, <2>1 DEF Types, QueueTypes, IsInjective, r
  <2>4. \A j \in DOMAIN running : running[j] \in Req
    BY <1>1, <2>1, ElementOfSeq DEF Types, QueueTypes
  <2>5. ASSUME NEW i \in DOMAIN running, NEW j \in DOMAIN running, i < j,
               running[j] \in InStep'
        PROVE  running[i] \in InStep'
    <3>1. CASE running[j] \in InStep
      BY <1>11, <2>2, <2>4, <2>5, <3>1
    <3>2. CASE running[j] = r
      BY <1>2, <1>11, <2>1, <2>3, <2>4, <2>5, <3>2
    <3>3. QED
      BY <1>11, <2>4, <2>5, <3>1, <3>2
  <2>6. QED
    BY <1>12, <2>5 DEF StepInOrder
<1>19. ReportLater'
  BY <1>1, <1>11, <1>12 DEF ReportLater
<1>20. StagesOk'
  BY <1>1, <1>11, <1>12, StagesSame
<1>21. RoomOk'
  <2>1. \A q \in Req : status'[q] = "remote" =>
          status[q] = "remote" /\ computed'[q] = computed[q] /\ table'[q] = table[q]
    BY <1>3, <1>4, <1>7, <1>12
  <2>2. QED
    BY <1>1, <2>1 DEF RoomOk
<1>22. Alone'
  <2>1. \A q \in Req : loading[q] # {} => table'[q] = table[q]
    BY <1>3, <1>4, <1>7
  <2>2. \A q \in Req : ToSet(table'[q]) \subseteq ToSet(table[q]) \union Free
    BY <1>4, <1>7, <1>8
  <2>3. \A b \in Range(cache') : \/ b \in Range(cache) \union Free \union {NoBlock}
                                 \/ b \in ToSet(table[r])
    BY <1>8, <1>10
  <2>4. QED
    BY <1>1, <1>2, <1>3, <1>12, <2>1, <2>2, <2>3, LoadsUndisturbed
<1>23. QED
  BY <1>11, <1>15, <1>16, <1>17, <1>19, <1>20, <1>21, <1>22 DEF KVInv

-----------------------------------------------------------------------------
(* What other actions leave of the step.                                      *)
LEMMA EntriesKept ==
  ASSUME Types, EntriesOk, step'.entries = step.entries,
         \A q \in Req : q \in InStep =>
           \/ status'[q] = status[q] /\ computed'[q] = computed[q]
           \/ status'[q] \in {"finished", "gone"}
  PROVE  EntriesOk' /\ InStep' = InStep
<1>1. step \in Steps
  BY DEF Types, EngineTypes
<1>2. SUFFICES ASSUME NEW k \in DOMAIN step.entries
               PROVE  LET e == step.entries[k] IN
                        /\ status'[e.req] \in {"running", "finished", "gone"}
                        /\ status'[e.req] = "running" => e.n <= computed'[e.req]
  BY DEF EntriesOk, InStep
<1> DEFINE q == step.entries[k].req
           m == step.entries[k].n
<1>3. q \in Req /\ q \in InStep
  BY <1>1, StepFields DEF InStep
<1>4. /\ status[q] \in {"running", "finished", "gone"}
      /\ status[q] = "running" => m <= computed[q]
  BY <1>2 DEF EntriesOk
<1> HIDE DEF q, m
<1>5. /\ status'[q] \in {"running", "finished", "gone"}
      /\ status'[q] = "running" => m <= computed'[q]
  BY <1>3, <1>4
<1>6. QED
  BY <1>5 DEF q, m

(* A request that is neither running nor over is in no step.                  *)
LEMMA NotInStep ==
  ASSUME Types, EntriesOk, NEW r \in Req, status[r] \notin {"running", "finished", "gone"}
  PROVE  r \notin InStep
BY DEF EntriesOk, InStep

LEMMA FrontFacts ==
  ASSUME NEW S, NEW s \in Seq(S), s # <<>>
  PROVE  /\ Front(s) \in Seq(S) /\ Len(Front(s)) = Len(s) - 1 /\ Len(s) \in Nat \ {0}
         /\ \A i \in 1..(Len(s) - 1) : Front(s)[i] = s[i]
         /\ DOMAIN Front(s) = 1..(Len(s) - 1) /\ DOMAIN s = 1..Len(s)
         /\ Last(s) = s[Len(s)] /\ Last(s) \in S /\ Last(s) \in ToSet(s)
<1>1. Len(s) \in Nat \ {0} /\ DOMAIN s = 1..Len(s) /\ \A i \in 1..Len(s) : s[i] \in S
  BY LenProperties, EmptySeq, ElementOfSeq
<1>2. Last(s) = s[Len(s)] /\ Last(s) \in S /\ Last(s) \in ToSet(s)
  BY <1>1 DEF Last, ToSet
<1> DEFINE f == SubSeq(s, 1, Len(s) - 1)
<1>3. /\ f \in Seq(S) /\ Len(f) = IF 1 <= Len(s) - 1 THEN Len(s) - 1 - 1 + 1 ELSE 0
      /\ \A i \in 1..(Len(s) - 1 - 1 + 1) : f[i] = s[1 + i - 1]
  <2>1. \A i \in 1..(Len(s) - 1) : s[i] \in S
    BY <1>1
  <2>2. QED
    BY <2>1, <1>1, SubSeqProperties
<1>4. Front(s) = f
  BY DEF Front
<1> HIDE DEF f
<1> DEFINE m == Len(s)
<1>5. Len(f) = Len(s) - 1 /\ \A i \in 1..(Len(s) - 1) : f[i] = s[i]
  <2>1. m \in Nat \ {0}
    BY <1>1
  <2>2. /\ Len(f) = IF 1 <= m - 1 THEN m - 1 - 1 + 1 ELSE 0
        /\ \A i \in 1..(m - 1 - 1 + 1) : f[i] = s[1 + i - 1]
    BY <1>3
  <2> HIDE DEF m
  <2>3. Len(f) = m - 1
    BY <2>1, <2>2
  <2>4. ASSUME NEW i \in 1..(m - 1) PROVE f[i] = s[i]
    <3>1. i \in 1..(m - 1 - 1 + 1) /\ 1 + i - 1 = i
      BY <2>1
    <3>2. QED
      BY <2>2, <3>1
  <2>5. QED
    BY <2>3, <2>4 DEF m
<1>6. DOMAIN f = 1..(Len(s) - 1)
  BY <1>3, <1>5, LenProperties
<1>7. QED
  BY <1>1, <1>2, <1>3, <1>4, <1>5, <1>6

-----------------------------------------------------------------------------
(* Preempting the last running request.                                       *)
(* The last running request, when one is left to schedule.                    *)
LEMMA LastRunning ==
  ASSUME KVInv, RunningLoop
  PROVE  /\ running # <<>> /\ Last(running) \in Req /\ Last(running) \in ToSet(running)
         /\ Last(running) \notin InStep
         /\ status[Last(running)] = "running" /\ loading[Last(running)] = {}
<1> DEFINE v == Last(running)
<1>1. Types /\ RunningOk /\ StepInOrder
  BY DEF KVInv
<1>2. /\ NextRunning \in 1..Len(running) /\ running[NextRunning] \notin InStep
      /\ pc = "schedule"
  BY <1>1, NextRunningFacts DEF RunningLoop
<1>3. running \in Seq(Req) /\ running # <<>>
  BY <1>1, <1>2, EmptySeq DEF Types, QueueTypes
<1>4. /\ Len(running) \in Nat \ {0} /\ DOMAIN running = 1..Len(running)
      /\ v = running[Len(running)] /\ v \in Req /\ v \in ToSet(running)
  BY <1>3, FrontFacts
<1> HIDE DEF v
<1>5. v \notin InStep
  <2>1. \A i, j \in DOMAIN running : i < j /\ running[j] \in InStep => running[i] \in InStep
    BY <1>1, <1>2 DEF StepInOrder
  <2>2. QED
    BY <1>2, <1>4, <2>1
<1>6. status[v] = "running" /\ loading[v] = {}
  BY <1>1, <1>4, RunningLoadsNothing DEF RunningOk
<1>7. QED
  BY <1>3, <1>4, <1>5, <1>6 DEF v

LEMMA PreemptForRoomKV == KVInv /\ PreemptForRoom => KVInv'
<1> SUFFICES ASSUME KVInv, PreemptForRoom PROVE KVInv'
  OBVIOUS
<1> DEFINE v == Last(running)
<1>1. /\ Types /\ RunningOk /\ StepInOrder /\ EntriesOk /\ ReportLater
      /\ StagesOk /\ RoomOk /\ Alone
  BY DEF KVInv
<1>2. /\ status' = [status EXCEPT ![v] = "preempted"]
      /\ table' = [table EXCEPT ![v] = <<>>] /\ computed' = [computed EXCEPT ![v] = 0]
      /\ running' = Front(running) /\ waiting' = <<v>> \o waiting
      /\ prefilling' = prefilling \ {v}
      /\ \E b \in BOOLEAN : step' = [step EXCEPT !.preempted = TRUE, !.stop = b]
      /\ UNCHANGED <<policy, offer, loads, skipped, cache, data, kvs, pc, out>>
  BY DEF PreemptForRoom
<1>3. /\ NextRunning \in 1..Len(running) /\ running[NextRunning] \notin InStep
      /\ pc = "schedule"
  BY <1>1, NextRunningFacts DEF PreemptForRoom, RunningLoop
<1>4. /\ running \in Seq(Req) /\ running # <<>> /\ waiting \in Seq(Req) /\ step \in Steps
      /\ status \in [Req -> Statuses] /\ computed \in [Req -> Nat] /\ table \in [Req -> Seq(Block)]
      /\ \A q \in Req : computed[q] <= Len0[q]
      /\ IsInjective(running)
  BY <1>1, <1>3, EmptySeq DEF Types, QueueTypes, EngineTypes, RequestTypes
<1>5. /\ Front(running) \in Seq(Req) /\ Len(running) \in Nat \ {0}
      /\ \A i \in 1..(Len(running) - 1) : Front(running)[i] = running[i]
      /\ DOMAIN Front(running) = 1..(Len(running) - 1) /\ DOMAIN running = 1..Len(running)
      /\ v = running[Len(running)] /\ v \in Req /\ v \in ToSet(running)
  BY <1>4, FrontFacts
<1>6. v \notin InStep /\ status[v] = "running" /\ loading[v] = {}
  BY LastRunning DEF PreemptForRoom
<1>7. status[v] = "running" /\ loading[v] = {}
  BY <1>6
<1> HIDE DEF v
<1>8. /\ step' \in Steps /\ step'.entries = step.entries /\ step'.kv = step.kv
  BY <1>2, <1>4 DEF Steps
<1>9. EntriesOk' /\ InStep' = InStep
  <2>1. \A q \in Req : q \in InStep => status'[q] = status[q] /\ computed'[q] = computed[q]
    BY <1>2, <1>4, <1>6
  <2>2. QED
    BY <1>1, <1>8, <2>1, EntriesKept
<1>10. Types'
  <2>1. waiting' \in Seq(Req)
    <3>1. <<v>> \in Seq(Req)
      BY <1>5
    <3>2. QED
      BY <1>2, <1>4, <3>1
  <2>2. running' \in Seq(Req) /\ IsInjective(running')
    BY <1>2, <1>4, <1>5 DEF IsInjective
  <2>3. /\ status' \in [Req -> Statuses] /\ computed' \in [Req -> Nat]
        /\ \A q \in Req : computed'[q] <= Len0[q]
    <3>1. "preempted" \in Statuses
      BY DEF Statuses
    <3>2. status' \in [Req -> Statuses]
      BY <1>2, <1>4, <3>1
    <3>3. computed' \in [Req -> Nat]
      BY <1>2, <1>4
    <3>4. \A q \in Req : Len0[q] \in Nat /\ 0 <= Len0[q]
      BY KVAssumption
    <3>5. \A q \in Req : computed'[q] = 0 \/ computed'[q] = computed[q]
      BY <1>2, <1>4
    <3>6. \A q \in Req : computed'[q] <= Len0[q]
      BY <1>4, <3>4, <3>5
    <3>7. QED
      BY <3>2, <3>3, <3>6
  <2>4. table' \in [Req -> Seq(Block)]
    BY <1>2, <1>4, EmptySeq
  <2>5. QED
    BY <1>1, <1>2, <1>8, <2>1, <2>2, <2>3, <2>4
    DEF Types, RequestTypes, QueueTypes, BlockTypes, EngineTypes, kvs
<1>11. RunningOk'
  <2>1. SUFFICES ASSUME NEW r \in ToSet(running') PROVE status'[r] = "running"
    BY DEF RunningOk
  <2>2. PICK i \in 1..(Len(running) - 1) : r = running[i]
    BY <1>2, <1>5, <2>1 DEF ToSet
  <2>3. i \in DOMAIN running /\ i # Len(running) /\ Len(running) \in DOMAIN running
    <3> DEFINE m == Len(running)
    <3>1. m \in Nat \ {0} /\ i \in 1..(m - 1)
      BY <1>5, <2>2
    <3> HIDE DEF m
    <3>2. i \in 1..m /\ i # m /\ m \in 1..m
      BY <3>1
    <3>3. QED
      BY <1>5, <3>2 DEF m
  <2>4. r \in ToSet(running) /\ r # v
    BY <1>4, <1>5, <2>2, <2>3 DEF ToSet, IsInjective
  <2>5. r \in Req /\ status[r] = "running"
    BY <1>1, <1>4, <1>5, <2>2, <2>3, <2>4, ElementOfSeq DEF RunningOk
  <2>6. QED
    BY <1>2, <1>4, <2>4, <2>5
<1>12. StepInOrder'
  <2>1. \A i, j \in DOMAIN running : i < j /\ running[j] \in InStep => running[i] \in InStep
    BY <1>1, <1>3 DEF StepInOrder
  <2>2. \A i \in DOMAIN running' : i \in DOMAIN running /\ running'[i] = running[i]
    BY <1>2, <1>5
  <2>3. QED
    BY <1>9, <2>1, <2>2 DEF StepInOrder
<1>13. ReportLater'
  BY <1>1, <1>2, <1>8 DEF ReportLater
<1>14. StagesOk'
  <2>1. \A r \in Req : \/ status'[r] = status[r]
                       \/ /\ status[r] \notin {"remote", "finished"}
                          /\ status'[r] \notin {"remote", "finished"}
    BY <1>2, <1>4, <1>7
  <2>2. QED
    BY <1>1, <1>2, <1>8, <2>1, StagesSame DEF kvs
<1>15. RoomOk'
  <2>1. \A q \in Req : status'[q] = "remote" =>
          status[q] = "remote" /\ computed'[q] = computed[q] /\ table'[q] = table[q]
    BY <1>2, <1>4
  <2>2. QED
    BY <1>1, <2>1 DEF RoomOk
<1>16. Alone'
  <2>1. \A q \in Req : loading[q] # {} => table'[q] = table[q]
    BY <1>2, <1>4, <1>7
  <2>2. ToSet(<<>>) = {}
    BY DEF ToSet
  <2>3. \A q \in Req : ToSet(table'[q]) \subseteq ToSet(table[q])
    BY <1>2, <1>4, <2>2
  <2>4. loading' = loading /\ cache' = cache
    BY <1>2 DEF kvs
  <2>5. QED
    BY <1>1, <2>1, <2>3, <2>4, LoadsUndisturbed
<1>17. QED
  BY <1>9, <1>10, <1>11, <1>12, <1>13, <1>14, <1>15, <1>16 DEF KVInv

-----------------------------------------------------------------------------
(* The candidate of the waiting loop.                                         *)
LEMMA CandidateFacts ==
  ASSUME Types, WaitingLoop
  PROVE  /\ Candidate \in Req
         /\ Popped => skipped' \in Seq(Req) /\ waiting' \in Seq(Req)
<1>1. skipped \in Seq(Req) /\ waiting \in Seq(Req) /\ (skipped # <<>> \/ waiting # <<>>)
  BY DEF Types, QueueTypes, WaitingLoop
<1>2. \A s \in Seq(Req) : s # <<>> => Head(s) \in Req /\ Tail(s) \in Seq(Req)
  BY TailFacts
<1>3. QED
  BY <1>1, <1>2 DEF Candidate, Popped

(* A request skipped in this step.                                            *)
LEMMA PassedFacts ==
  ASSUME NEW s \in Steps, NEW r \in Req, NEW t, t = [s EXCEPT !.passed = <<r>> \o @]
  PROVE  t \in Steps /\ t.entries = s.entries /\ t.kv = s.kv
<1>1. s.passed \in Seq(Req)
  BY StepFields
<1>2. <<r>> \o s.passed \in Seq(Req)
  BY <1>1, ConsFacts
<1>3. QED
  BY <1>2 DEF Steps

(* Actions that move no block and no request from one status to another.      *)
LEMMA QuietKV ==
  ASSUME KVInv,
         UNCHANGED <<offer, status, computed, table, running, cache, loading, sending,
                     finishedRecv, failedRecv>>,
         skipped' \in Seq(Req), waiting' \in Seq(Req), prefilling' \subseteq Req,
         report' \in Report, report'.received = report.received, report'.sent = report.sent,
         step' \in Steps, step'.entries = step.entries, step'.kv = step.kv,
         pc' = pc \/ (pc' = "flight" /\ pc = "schedule")
  PROVE  KVInv'
<1>1. /\ Types /\ RunningOk /\ StepInOrder /\ EntriesOk /\ ReportLater
      /\ StagesOk /\ RoomOk /\ Alone
  BY DEF KVInv
<1>2. Types'
  BY <1>1 DEF Types, RequestTypes, QueueTypes, BlockTypes, EngineTypes
<1>3. EntriesOk' /\ InStep' = InStep
  BY <1>1, EntriesKept
<1>4. RunningOk' /\ StepInOrder' /\ ReportLater' /\ RoomOk'
  BY <1>1, <1>3 DEF RunningOk, StepInOrder, ReportLater, RoomOk
<1>5. StagesOk'
  BY <1>1, StagesSame
<1>6. Alone'
  BY <1>1 DEF Alone
<1>7. QED
  BY <1>2, <1>3, <1>4, <1>5, <1>6 DEF KVInv

LEMMA PassLoadingKV == KVInv /\ PassLoading => KVInv'
<1> SUFFICES ASSUME KVInv, PassLoading PROVE KVInv'
  OBVIOUS
<1> DEFINE r == Candidate
<1>1. Types /\ step \in Steps /\ report \in Report /\ prefilling \subseteq Req
  BY DEF KVInv, Types, EngineTypes
<1>2. r \in Req /\ skipped' \in Seq(Req) /\ waiting' \in Seq(Req)
  BY <1>1, CandidateFacts DEF PassLoading
<1>3. /\ step' = [step EXCEPT !.passed = <<r>> \o @]
      /\ UNCHANGED <<offer, status, computed, prefilling, table, running, cache, kvs, pc>>
  BY DEF PassLoading
<1> HIDE DEF r
<1>4. step' \in Steps /\ step'.entries = step.entries /\ step'.kv = step.kv
  <2>1. ASSUME NEW t, t = [step EXCEPT !.passed = <<r>> \o @]
        PROVE  t \in Steps /\ t.entries = step.entries /\ t.kv = step.kv
    BY <1>1, <1>2, <2>1, PassedFacts
  <2>2. QED
    BY <1>3, <2>1
<1>5. QED
  BY <1>1, <1>2, <1>3, <1>4, QuietKV DEF kvs

LEMMA NoRoomKV == KVInv /\ NoRoom => KVInv'
<1> SUFFICES ASSUME KVInv, NoRoom PROVE KVInv'
  OBVIOUS
<1>1. step \in Steps /\ report \in Report /\ prefilling \subseteq Req
      /\ skipped \in Seq(Req) /\ waiting \in Seq(Req)
  BY DEF KVInv, Types, EngineTypes, QueueTypes
<1>2. /\ step' = [step EXCEPT !.stop = TRUE]
      /\ UNCHANGED <<offer, status, computed, prefilling, table, skipped, waiting, running, cache,
                     kvs, pc>>
  BY DEF NoRoom
<1>3. step' \in Steps /\ step'.entries = step.entries /\ step'.kv = step.kv
  BY <1>1, <1>2 DEF Steps
<1>4. QED
  BY <1>1, <1>2, <1>3, QuietKV DEF kvs

LEMMA DispatchKV == KVInv /\ Dispatch => KVInv'
<1> SUFFICES ASSUME KVInv, Dispatch PROVE KVInv'
  OBVIOUS
<1>1. step \in Steps /\ report \in Report /\ prefilling \subseteq Req
      /\ skipped \in Seq(Req) /\ waiting \in Seq(Req)
  BY DEF KVInv, Types, EngineTypes, QueueTypes
<1>2. /\ pc = "schedule" /\ pc' = "flight"
      /\ skipped' = step.passed \o skipped
      /\ step' = [step EXCEPT !.passed = <<>>]
      /\ prefilling' \subseteq prefilling
      /\ UNCHANGED <<offer, status, computed, table, waiting, running, cache, kvs>>
  BY DEF Dispatch
<1>3. skipped' \in Seq(Req)
  <2>1. step.passed \in Seq(Req)
    BY <1>1, StepFields
  <2>2. QED
    BY <1>1, <1>2, <2>1
<1>4. step' \in Steps /\ step'.entries = step.entries /\ step'.kv = step.kv
  <2>1. <<>> \in Seq(Req)
    BY EmptySeq
  <2>2. QED
    BY <1>1, <1>2, <2>1 DEF Steps
<1>5. QED
  BY <1>1, <1>2, <1>3, <1>4, QuietKV DEF kvs

-----------------------------------------------------------------------------
(* The connector's own steps.                                                 *)
LEMMA LoadFailsKV == ASSUME NEW r \in Req PROVE KVInv /\ LoadFails(r) => KVInv'
<1> SUFFICES ASSUME KVInv, LoadFails(r) PROVE KVInv'
  OBVIOUS
<1>1. step \in Steps /\ report \in Report /\ prefilling \subseteq Req
      /\ skipped \in Seq(Req) /\ waiting \in Seq(Req) /\ loading \in [Req -> SUBSET Block]
  BY DEF KVInv, Types, EngineTypes, QueueTypes, BlockTypes
<1>2. PICK b \in loading[r] : report' = [report EXCEPT !.invalid = @ \union {b}]
  BY DEF LoadFails
<1>3. UNCHANGED <<offer, status, computed, prefilling, table, skipped, waiting, running, cache,
                  loading, sending, finishedRecv, failedRecv, pc, step>>
  BY DEF LoadFails
<1>4. b \in Block
  BY <1>1, <1>2
<1>5. report' \in Report /\ report'.received = report.received /\ report'.sent = report.sent
  BY <1>1, <1>2, <1>4 DEF Report
<1>6. QED
  BY <1>1, <1>3, <1>5, QuietKV

(* A load that ends is reported, and no longer needs its blocks for itself.   *)
LEMMA LoadEndsKV == ASSUME NEW r \in Req PROVE KVInv /\ LoadEnds(r) => KVInv'
<1> SUFFICES ASSUME KVInv, LoadEnds(r) PROVE KVInv'
  OBVIOUS
<1>1. /\ Types /\ RunningOk /\ StepInOrder /\ EntriesOk /\ ReportLater
      /\ StagesOk /\ RoomOk /\ Alone
  BY DEF KVInv
<1>2. /\ loading[r] # {} /\ loading' = [loading EXCEPT ![r] = {}]
      /\ report' = [report EXCEPT !.received = @ \union {r}]
      /\ UNCHANGED <<offer, status, computed, prefilling, table, skipped, waiting, running, cache,
                     sending, finishedRecv, failedRecv, pc, step>>
  BY DEF LoadEnds
<1>3. loading \in [Req -> SUBSET Block] /\ report \in Report
  BY <1>1 DEF Types, BlockTypes, EngineTypes
<1>4. /\ report' \in Report /\ report'.received = report.received \union {r}
      /\ report'.sent = report.sent /\ loading' \in [Req -> SUBSET Block]
  <2>1. report' \in Report /\ report'.received = report.received \union {r}
        /\ report'.sent = report.sent
    BY <1>2, <1>3 DEF Report
  <2>2. loading' \in [Req -> SUBSET Block]
    BY <1>2, <1>3
  <2>3. QED
    BY <2>1, <2>2
<1>5. Types'
  BY <1>1, <1>2, <1>4 DEF Types, RequestTypes, QueueTypes, BlockTypes, EngineTypes
<1>6. EntriesOk' /\ InStep' = InStep
  BY <1>1, <1>2, EntriesKept
<1>7. RunningOk' /\ StepInOrder' /\ ReportLater' /\ RoomOk'
  BY <1>1, <1>2, <1>6 DEF RunningOk, StepInOrder, ReportLater, RoomOk
<1>8. StagesOk'
  <2>1. SUFFICES ASSUME NEW q \in Req PROVE StageOf(q)'
    BY DEF StagesOk
  <2>2. StageOf(q) /\ StageOf(r)
    BY <1>1 DEF StagesOk
  <2>3. /\ Loading(q)' <=> Loading(q) /\ q # r
        /\ Reported(q)' <=> Reported(q) \/ q = r
        /\ InOutput(q)' <=> InOutput(q)
        /\ Sent(q)' <=> Sent(q)
    BY <1>2, <1>3, <1>4 DEF Loading, Reported, InOutput, Sent
  <2>4. Loading(r)
    BY <1>2 DEF Loading
  <2>5. QED
    BY <1>2, <1>4, <2>2, <2>3, <2>4 DEF StageOf
<1>9. Alone'
  <2>1. \A q \in Req : loading'[q] = loading[q] \/ loading'[q] = {}
    BY <1>2, <1>3
  <2>2. QED
    BY <1>1, <1>2, <2>1, LoadsUndisturbed
<1>10. QED
  BY <1>5, <1>6, <1>7, <1>8, <1>9 DEF KVInv

LEMMA SendEndsKV == ASSUME NEW r \in Req PROVE KVInv /\ SendEnds(r) => KVInv'
<1> SUFFICES ASSUME KVInv, SendEnds(r) PROVE KVInv'
  OBVIOUS
<1>1. /\ Types /\ RunningOk /\ StepInOrder /\ EntriesOk /\ ReportLater
      /\ StagesOk /\ RoomOk /\ Alone
  BY DEF KVInv
<1>2. /\ r \in sending /\ sending' = sending \ {r}
      /\ report' = [report EXCEPT !.sent = @ \union {r}]
      /\ UNCHANGED <<offer, status, computed, prefilling, table, skipped, waiting, running, cache,
                     loading, finishedRecv, failedRecv, pc, step>>
  BY DEF SendEnds
<1>3. report \in Report
  BY <1>1 DEF Types, EngineTypes
<1>4. /\ report' \in Report /\ report'.sent = report.sent \union {r}
      /\ report'.received = report.received
  BY <1>2, <1>3 DEF Report
<1>5. Types'
  BY <1>1, <1>2, <1>4 DEF Types, RequestTypes, QueueTypes, BlockTypes, EngineTypes
<1>6. EntriesOk' /\ InStep' = InStep
  BY <1>1, <1>2, EntriesKept
<1>7. RunningOk' /\ StepInOrder' /\ ReportLater' /\ RoomOk' /\ Alone'
  BY <1>1, <1>2, <1>6 DEF RunningOk, StepInOrder, ReportLater, RoomOk, Alone
<1>8. StagesOk'
  <2>1. SUFFICES ASSUME NEW q \in Req PROVE StageOf(q)'
    BY DEF StagesOk
  <2>2. StageOf(q) /\ StageOf(r)
    BY <1>1 DEF StagesOk
  <2>3. /\ Loading(q)' <=> Loading(q)
        /\ Reported(q)' <=> Reported(q)
        /\ InOutput(q)' <=> InOutput(q)
        /\ Sent(q)' <=> Sent(q)
    BY <1>2, <1>3, <1>4 DEF Loading, Reported, InOutput, Sent
  <2>4. QED
    BY <1>2, <1>4, <2>2, <2>3 DEF StageOf
<1>9. QED
  BY <1>5, <1>6, <1>7, <1>8 DEF KVInv

(* The step's requests stay in their places when it is computed.              *)
LEMMA ExecuteKV == KVInv /\ Execute => KVInv'
<1> SUFFICES ASSUME KVInv, Execute PROVE KVInv'
  OBVIOUS
<1>1. /\ Types /\ RunningOk /\ StepInOrder /\ EntriesOk /\ ReportLater
      /\ StagesOk /\ RoomOk /\ Alone
  BY DEF KVInv
<1>2. /\ pc = "flight" /\ pc' = "output" /\ report' = NoReport
      /\ UNCHANGED <<offer, status, computed, prefilling, table, skipped, waiting, running, cache,
                     loading, sending, finishedRecv, failedRecv>>
  BY DEF Execute
<1>3. PICK bad \in SUBSET UNION {step.entries[k].sync : k \in DOMAIN step.entries} : \E good :
        step' = [step EXCEPT !.kv = [report EXCEPT !.invalid = @ \union bad],
                             !.entries = [k \in DOMAIN @ |->
                                [good |-> @[k].req \in good, req |-> @[k].req,
                                 n |-> @[k].n, sync |-> @[k].sync]]]
  BY DEF Execute
<1>15. PICK good :
        step' = [step EXCEPT !.kv = [report EXCEPT !.invalid = @ \union bad],
                             !.entries = [k \in DOMAIN @ |->
                                [good |-> @[k].req \in good, req |-> @[k].req,
                                 n |-> @[k].n, sync |-> @[k].sync]]]
  BY <1>3
<1> DEFINE q == step.entries
           u == [k \in DOMAIN q |-> [good |-> q[k].req \in good, req |-> q[k].req,
                                     n |-> q[k].n, sync |-> q[k].sync]]
           kv == [report EXCEPT !.invalid = @ \union bad]
<1>4. step \in Steps /\ report \in Report
  BY <1>1 DEF Types, EngineTypes
<1>5. step' = [step EXCEPT !.kv = kv, !.entries = u]
  BY <1>15
<1>6. /\ q \in Seq(Planned \union Executed) /\ Len(q) \in Nat /\ DOMAIN q = 1..Len(q)
      /\ \A k \in DOMAIN q : /\ q[k] \in Planned \union Executed
                             /\ q[k].req \in Req /\ q[k].n \in Nat /\ q[k].sync \in SUBSET Block
  <2>1. \A e \in Planned \union Executed : e.sync \in SUBSET Block
    BY DEF Planned, Executed
  <2>2. QED
    BY <1>4, <2>1, StepFields
<1>7. kv \in Report /\ kv.received = report.received /\ kv.sent = report.sent
  <2>1. bad \in SUBSET Block
    <3>1. \A k \in DOMAIN step.entries : step.entries[k].sync \in SUBSET Block
      BY <1>6
    <3>2. QED
      BY <1>3, <3>1
  <2> HIDE DEF q, u
  <2>2. QED
    BY <1>4, <2>1 DEF Report
<1>8. /\ u \in Seq(Planned \union Executed) /\ DOMAIN u = DOMAIN q
      /\ \A k \in DOMAIN q : u[k].req = q[k].req /\ u[k].n = q[k].n
  <2>1. \A k \in DOMAIN q : u[k] \in Executed
    BY <1>6 DEF Executed
  <2>2. DOMAIN u = 1..Len(q) /\ u = [k \in 1..Len(q) |-> u[k]]
    BY <1>6
  <2> DEFINE T == Planned \union Executed
  <2>3. \A k \in 1..Len(q) : u[k] \in T
    BY <1>6, <2>1
  <2>4. u \in Seq(T)
    <3> HIDE DEF u, T, q
    <3>1. u \in [1..Len(q) -> T]
      BY <2>2, <2>3
    <3>2. QED
      BY <1>6, <3>1
  <2>5. QED
    BY <2>4
<1> HIDE DEF q, u, kv
<1>9. /\ step' \in Steps /\ step'.entries = u /\ step'.kv = kv
  BY <1>4, <1>5, <1>7, <1>8 DEF Steps
<1>10. Types'
  <2>1. report' \in Report
    BY <1>2 DEF NoReport, Report
  <2>2. QED
    BY <1>1, <1>2, <1>9, <2>1 DEF Types, RequestTypes, QueueTypes, BlockTypes, EngineTypes
<1>11. EntriesOk'
  <2>1. SUFFICES ASSUME NEW k \in DOMAIN q
                 PROVE  LET e == u[k] IN
                          /\ status[e.req] \in {"running", "finished", "gone"}
                          /\ status[e.req] = "running" => e.n <= computed[e.req]
    BY <1>2, <1>8, <1>9 DEF EntriesOk
  <2>2. LET e == q[k] IN
          /\ status[e.req] \in {"running", "finished", "gone"}
          /\ status[e.req] = "running" => e.n <= computed[e.req]
    BY <1>1, <2>1 DEF EntriesOk, q
  <2>3. QED
    BY <1>8, <2>1, <2>2
<1>12. RunningOk' /\ StepInOrder' /\ ReportLater' /\ RoomOk' /\ Alone'
  BY <1>1, <1>2 DEF RunningOk, StepInOrder, ReportLater, RoomOk, Alone
<1>13. StagesOk'
  <2>1. SUFFICES ASSUME NEW r \in Req PROVE StageOf(r)'
    BY DEF StagesOk
  <2>2. StageOf(r)
    BY <1>1 DEF StagesOk
  <2>3. step.kv.received = {} /\ step.kv.sent = {}
    BY <1>1, <1>2 DEF ReportLater, NoReport
  <2>4. report'.received = {} /\ report'.sent = {}
    BY <1>2 DEF NoReport
  <2>5. /\ Loading(r)' <=> Loading(r)
        /\ ~Reported(r)' /\ ~InOutput(r)
        /\ InOutput(r)' <=> Reported(r)
        /\ Sent(r)' <=> Sent(r)
    BY <1>2, <1>7, <1>9, <2>3, <2>4 DEF Loading, Reported, InOutput, Sent
  <2>6. /\ r \notin report'.sent /\ r \notin step.kv.sent
        /\ r \in step'.kv.sent <=> r \in report.sent
    BY <1>7, <1>9, <2>3, <2>4
  <2>7. QED
    BY <1>2, <2>2, <2>5, <2>6 DEF StageOf
<1>14. QED
  BY <1>10, <1>11, <1>12, <1>13 DEF KVInv

-----------------------------------------------------------------------------
(* A load that is over: its request can be scheduled, or takes new blocks.    *)
LEMMA PromoteKV == KVInv /\ Promote => KVInv'
<1> SUFFICES ASSUME KVInv, Promote PROVE KVInv'
  OBVIOUS
<1> DEFINE r == Candidate
<1>1. /\ Types /\ RunningOk /\ StepInOrder /\ EntriesOk /\ ReportLater
      /\ StagesOk /\ RoomOk /\ Alone
  BY DEF KVInv
<1>2. r \in Req
  BY <1>1, CandidateFacts DEF Promote
<1>3. /\ status[r] = "remote" /\ r \in finishedRecv
      /\ computed' = [computed EXCEPT ![r] = AfterLoad(r).computed]
      /\ table' = [table EXCEPT ![r] = AfterLoad(r).table]
      /\ cache' = AfterLoad(r).cache
      /\ failedRecv' = failedRecv \ {r} /\ finishedRecv' = finishedRecv \ {r}
      /\ status' = [status EXCEPT ![r] = IF r \in preempted THEN "preempted" ELSE "waiting"]
      /\ UNCHANGED <<offer, prefilling, skipped, waiting, running, loading, sending, report, pc,
                     step>>
  BY DEF Promote
<1> HIDE DEF r
<1>4. /\ computed \in [Req -> Nat] /\ \A q \in Req : computed[q] <= Len0[q]
      /\ table \in [Req -> Seq(Block)] /\ cache \in CacheType /\ step \in Steps
      /\ status \in [Req -> Statuses]
      /\ finishedRecv \subseteq Req /\ failedRecv \subseteq Req
      /\ loading \in [Req -> SUBSET Block]
  BY <1>1 DEF Types, RequestTypes, BlockTypes, EngineTypes, CacheType
<1>5. /\ ~Loading(r) /\ ~Reported(r) /\ ~InOutput(r) /\ ~Sent(r)
  BY <1>1, <1>2, <1>3 DEF StagesOk, StageOf
<1>6. computed[r] \in Nat /\ table[r] \in Seq(Block) /\ computed[r] <= Len0[r]
      /\ Len0[r] \in Nat \ {0}
      /\ computed[r] \div BlockSize <= Len(table[r])
  <2>1. computed[r] \in Nat /\ table[r] \in Seq(Block) /\ Blocks(computed[r]) <= Len(table[r])
    BY <1>1, <1>2, <1>3, <1>4 DEF RoomOk
  <2>2. Len(table[r]) \in Nat
    BY <2>1, LenProperties
  <2>3. /\ Blocks(computed[r]) \in Nat /\ computed[r] \div BlockSize \in Nat
        /\ computed[r] \div BlockSize <= Blocks(computed[r])
    BY <2>1, BlocksFacts
  <2>4. computed[r] \div BlockSize <= Len(table[r])
    <3> DEFINE d == computed[r] \div BlockSize
    <3>1. d \in Nat /\ d <= Blocks(computed[r])
      BY <2>3
    <3> HIDE DEF d
    <3>2. d <= Len(table[r])
      BY <2>1, <2>2, <2>3, <3>1
    <3>3. QED
      BY <3>2 DEF d
  <2>5. computed[r] <= Len0[r] /\ Len0[r] \in Nat \ {0}
    BY <1>2, <1>4, KVAssumption
  <2>6. QED
    BY <2>1, <2>4, <2>5
<1> DEFINE c == Cached(cache, table[r], computed[r])
<1>7. c \in CacheType /\ Range(c) \subseteq Range(cache) \union ToSet(table[r])
  BY <1>4, <1>6, CachedFacts
<1>8. /\ AfterLoad(r).computed \in {computed[r], Len0[r] - 1}
      /\ AfterLoad(r).table \in {table[r], <<>>}
      /\ AfterLoad(r).cache \in {cache, c}
  BY DEF AfterLoad
<1> HIDE DEF c
<1>9. computed' \in [Req -> Nat] /\ \A q \in Req : computed'[q] <= Len0[q]
  <2>1. AfterLoad(r).computed \in Nat /\ AfterLoad(r).computed <= Len0[r]
    BY <1>6, <1>8
  <2>2. QED
    BY <1>3, <1>4, <2>1
<1>10. table' \in [Req -> Seq(Block)]
  <2>1. AfterLoad(r).table \in Seq(Block)
    BY <1>6, <1>8, EmptySeq
  <2>2. QED
    BY <1>3, <1>4, <2>1
<1>11. cache' \in CacheType /\ Range(cache') \subseteq Range(cache) \union ToSet(table[r])
  BY <1>3, <1>4, <1>7, <1>8
<1>12. /\ status' \in [Req -> Statuses]
       /\ status'[r] \in {"preempted", "waiting"}
       /\ \A q \in Req : q # r => status'[q] = status[q] /\ computed'[q] = computed[q]
                                  /\ table'[q] = table[q]
  <2>1. {"preempted", "waiting"} \subseteq Statuses
    BY DEF Statuses
  <2>2. QED
    BY <1>2, <1>3, <1>4, <2>1
<1>13. Types'
  BY <1>1, <1>3, <1>9, <1>10, <1>11, <1>12
  DEF Types, RequestTypes, QueueTypes, BlockTypes, EngineTypes, CacheType
<1>14. r \notin InStep
  BY <1>1, <1>2, <1>3, NotInStep
<1>15. EntriesOk' /\ InStep' = InStep
  <2>1. \A q \in Req : q \in InStep => status'[q] = status[q] /\ computed'[q] = computed[q]
    BY <1>12, <1>14
  <2>2. QED
    BY <1>1, <1>3, <2>1, EntriesKept
<1>16. RunningOk'
  <2>1. \A q \in ToSet(running) : q \in Req
    BY <1>1, LenProperties, ElementOfSeq DEF Types, QueueTypes, ToSet
  <2>2. r \notin ToSet(running)
    BY <1>1, <1>3 DEF RunningOk
  <2>3. QED
    BY <1>1, <1>3, <1>12, <2>1, <2>2 DEF RunningOk
<1>17. StepInOrder' /\ ReportLater'
  BY <1>1, <1>3, <1>15 DEF StepInOrder, ReportLater
<1>18. StagesOk'
  <2>1. SUFFICES ASSUME NEW q \in Req PROVE StageOf(q)'
    BY DEF StagesOk
  <2>2. StageOf(q)
    BY <1>1 DEF StagesOk
  <2>3. /\ Loading(q)' <=> Loading(q)
        /\ Reported(q)' <=> Reported(q)
        /\ InOutput(q)' <=> InOutput(q)
        /\ Sent(q)' <=> Sent(q)
    BY <1>3 DEF Loading, Reported, InOutput, Sent
  <2>4. CASE q = r
    BY <1>3, <1>5, <1>12, <2>3, <2>4 DEF StageOf, Sent
  <2>5. CASE q # r
    BY <1>3, <1>12, <2>2, <2>3, <2>5 DEF StageOf
  <2>6. QED
    BY <2>4, <2>5
<1>19. RoomOk'
  <2>1. \A q \in Req : status'[q] = "remote" =>
          status[q] = "remote" /\ computed'[q] = computed[q] /\ table'[q] = table[q]
    BY <1>12
  <2>2. QED
    BY <1>1, <2>1 DEF RoomOk
<1>20. Alone'
  <2>1. loading[r] = {}
    BY <1>5 DEF Loading
  <2>2. \A q \in Req : loading'[q] # {} => table'[q] = table[q]
    BY <1>3, <1>12, <2>1
  <2>3. \A q \in Req : ToSet(table'[q]) \subseteq ToSet(table[q])
    <3>1. ToSet(<<>>) = {}
      BY DEF ToSet
    <3>2. table'[r] \in {table[r], <<>>}
      BY <1>2, <1>3, <1>4, <1>8
    <3>3. QED
      BY <1>12, <3>1, <3>2
  <2>4. QED
    BY <1>1, <1>2, <1>3, <1>11, <2>1, <2>2, <2>3, LoadsUndisturbed
<1>21. QED
  BY <1>13, <1>15, <1>16, <1>17, <1>18, <1>19, <1>20 DEF KVInv

-----------------------------------------------------------------------------
(* A request that comes in.                                                   *)
LEMMA AddRequestKV == ASSUME NEW r \in Req PROVE KVInv /\ AddRequest(r) => KVInv'
<1> SUFFICES ASSUME KVInv, AddRequest(r) PROVE KVInv'
  OBVIOUS
<1>1. /\ Types /\ RunningOk /\ StepInOrder /\ EntriesOk /\ ReportLater
      /\ StagesOk /\ RoomOk /\ Alone
  BY DEF KVInv
<1>2. /\ status[r] = "new" /\ status' = [status EXCEPT ![r] = "waiting"]
      /\ waiting' = Append(waiting, r)
      /\ UNCHANGED <<offer, computed, prefilling, table, skipped, running, cache, loading, sending,
                     report, finishedRecv, failedRecv, pc, step>>
  BY DEF AddRequest, kvs
<1>3. status \in [Req -> Statuses] /\ waiting \in Seq(Req)
  BY <1>1 DEF Types, RequestTypes, QueueTypes
<1>4. /\ status' \in [Req -> Statuses] /\ status'[r] = "waiting"
      /\ \A q \in Req : q # r => status'[q] = status[q]
  BY <1>2, <1>3 DEF Statuses
<1>5. waiting' \in Seq(Req)
  BY <1>2, <1>3, AppendProperties
<1>6. Types'
  BY <1>1, <1>2, <1>4, <1>5 DEF Types, RequestTypes, QueueTypes, BlockTypes, EngineTypes
<1>7. r \notin InStep
  BY <1>1, <1>2, NotInStep
<1>8. EntriesOk' /\ InStep' = InStep
  <2>1. \A q \in Req : q \in InStep => status'[q] = status[q] /\ computed'[q] = computed[q]
    BY <1>2, <1>4, <1>7
  <2>2. QED
    BY <1>1, <1>2, <2>1, EntriesKept
<1>9. RunningOk'
  <2>1. \A q \in ToSet(running) : q \in Req
    BY <1>1, LenProperties, ElementOfSeq DEF Types, QueueTypes, ToSet
  <2>2. r \notin ToSet(running)
    BY <1>1, <1>2 DEF RunningOk
  <2>3. QED
    BY <1>1, <1>2, <1>4, <2>1, <2>2 DEF RunningOk
<1>10. StepInOrder' /\ ReportLater' /\ Alone'
  BY <1>1, <1>2, <1>8 DEF StepInOrder, ReportLater, Alone
<1>11. StagesOk'
  <2>1. \A q \in Req : \/ status'[q] = status[q]
                       \/ /\ status[q] \notin {"remote", "finished"}
                          /\ status'[q] \notin {"remote", "finished"}
    BY <1>2, <1>4
  <2>2. QED
    BY <1>1, <1>2, <2>1, StagesSame
<1>12. RoomOk'
  <2>1. \A q \in Req : status'[q] = "remote" => status[q] = "remote"
    BY <1>4
  <2>2. QED
    BY <1>1, <1>2, <2>1 DEF RoomOk
<1>13. QED
  BY <1>6, <1>8, <1>9, <1>10, <1>11, <1>12 DEF KVInv

-----------------------------------------------------------------------------
(* Tokens beyond h full blocks need a block more than h.                      *)
LEMMA BlocksBeyond ==
  ASSUME NEW t \in Nat, NEW h \in Nat, h * BlockSize < t
  PROVE  h < Blocks(t) /\ (h * BlockSize) \div BlockSize = h
<1>1. BlockSize \in Nat \ {0}
  BY KVAssumption
<1> DEFINE n == BlockSize
           p == n * h
           a == t + n - 1
<1>2. p \in Nat /\ p = h * n /\ n * (h + 1) = p + n
  BY <1>1
<1>3. p < t
  BY <1>2
<1>4. Blocks(t) = a \div n
  BY DEF Blocks, CDiv
<1>5. h * BlockSize = p
  BY <1>2
<1> DEFINE g == h + 1
           b == n * g
<1>6. b = p + n /\ g \in Nat /\ g > h
  BY <1>2
<1>7. n \in Nat \ {0} /\ a = t + n - 1
  BY <1>1
<1>8. p \div n = h
  <2>1. 0 \in 0 .. n - 1 /\ p = n * h + 0
    BY <1>1, <1>2
  <2> HIDE DEF p, n
  <2>2. QED
    BY <1>7, <1>2, <2>1, DivUnique
<1>9. b \div n = g
  <2>1. 0 \in 0 .. n - 1 /\ b = n * g + 0 /\ b \in Nat /\ g \in Nat /\ n \in Nat \ {0}
    BY <1>1, <1>2, <1>6
  <2> HIDE DEF b, g, n, p, a
  <2>2. QED
    BY <2>1, DivUnique
<1> HIDE DEF a, b, g, n, p
<1>10. a \in Nat /\ b \in Nat /\ b <= a
  BY <1>2, <1>3, <1>6, <1>7
<1>11. g <= a \div n
  BY <1>7, <1>9, <1>10, DivMono
<1>12. a \div n \in Nat
  BY <1>7, <1>10, DivMod
<1>13. h < a \div n
  <2> DEFINE d == a \div n
  <2>1. g <= d /\ d \in Nat
    BY <1>11, <1>12
  <2> HIDE DEF d
  <2>2. h < d
    BY <1>6, <2>1
  <2>3. QED
    BY <2>2 DEF d
<1>14. QED
  BY <1>4, <1>5, <1>8, <1>13 DEF n

(* The blocks a load writes: those behind the cached prefix, all of them new. *)
LEMMA TargetsNew ==
  ASSUME NEW base \in Seq(Block), NEW h, h = Len(base), NEW t \in Nat, h * BlockSize < t,
         NEW s \in Seq(Block), Len(s) = Missing(base, t)
  PROVE  /\ Covering(base \o s, h * BlockSize, t) \subseteq ToSet(s)
         /\ Covering(base \o s, h * BlockSize, t) # {}
<1>1. h \in Nat /\ Len(s) \in Nat /\ DOMAIN s = 1..Len(s)
  BY LenProperties
<1>2. h < Blocks(t) /\ (h * BlockSize) \div BlockSize = h /\ Blocks(t) \in Nat
  BY <1>1, BlocksBeyond, BlocksFacts
<1>3. Len(s) = Blocks(t) - h
  BY <1>1, <1>2 DEF Missing
<1> DEFINE u == base \o s
<1>4. Covering(u, h * BlockSize, t) = {u[i + 1] : i \in h..(Blocks(t) - 1)}
  BY <1>2 DEF Covering
<1>5. /\ Len(u) = h + Len(s)
      /\ \A i \in 1..(h + Len(s)) : u[i] = IF i <= h THEN base[i] ELSE s[i - h]
  BY ConcatProperties
<1> HIDE DEF u
<1>6. ASSUME NEW i \in h..(Blocks(t) - 1) PROVE u[i + 1] \in ToSet(s)
  <2> DEFINE j == i + 1
  <2>1. j \in 1..(h + Len(s)) /\ ~(j <= h) /\ j - h \in 1..Len(s)
    BY <1>1, <1>2, <1>3
  <2>2. u[j] = s[j - h]
    BY <1>5, <2>1
  <2>3. s[j - h] \in ToSet(s)
    BY <1>1, <2>1 DEF ToSet
  <2>4. QED
    BY <2>2, <2>3
<1>7. h \in h..(Blocks(t) - 1)
  BY <1>1, <1>2
<1>8. QED
  BY <1>4, <1>6, <1>7 DEF u

(* The blocks of a table with room for t tokens.                              *)
LEMMA CoveringType ==
  ASSUME NEW tab \in Seq(Block), NEW from \in Nat, NEW t \in Nat, Blocks(t) <= Len(tab)
  PROVE  Covering(tab, from, t) \in SUBSET Block
<1>1. from \div BlockSize \in Nat /\ Blocks(t) \in Nat /\ Len(tab) \in Nat
  BY BlocksFacts, LenProperties
<1> DEFINE a == from \div BlockSize
<1>2. a \in Nat
  BY <1>1
<1>3. Covering(tab, from, t) = {tab[i + 1] : i \in a..(Blocks(t) - 1)}
  BY DEF Covering
<1> HIDE DEF a
<1>4. ASSUME NEW i \in a..(Blocks(t) - 1) PROVE tab[i + 1] \in Block
  <2>1. i + 1 \in 1..Len(tab)
    BY <1>1, <1>2
  <2>2. QED
    BY <2>1, ElementOfSeq
<1>5. QED
  BY <1>3, <1>4

-----------------------------------------------------------------------------
(* Admitting a load: it writes new blocks only.                               *)
LEMMA AdmitLoadKV == KVInv /\ AdmitLoad => KVInv'
<1> SUFFICES ASSUME KVInv, AdmitLoad PROVE KVInv'
  OBVIOUS
<1> DEFINE r == Candidate
           t == Start(r)
           base == Base(r)
<1>1. /\ Types /\ RunningOk /\ StepInOrder /\ EntriesOk /\ ReportLater
      /\ StagesOk /\ RoomOk /\ Alone
  BY DEF KVInv
<1>2. r \in Req /\ skipped' \in Seq(Req) /\ waiting' \in Seq(Req)
  BY <1>1, CandidateFacts DEF AdmitLoad
<1>3. PICK new \in Takes(Missing(base, t), Free \ ToSet(base)) :
        LET tab == base \o SetToSeq(new) IN
          /\ table' = [table EXCEPT ![r] = tab]
          /\ cache' = Evicted(cache, new)
          /\ loading' = [loading EXCEPT ![r] = Covering(tab, Local(r), t)]
  BY DEF AdmitLoad
<1>4. /\ status[r] \in {"waiting", "preempted"} /\ External(r) > 0
      /\ computed' = [computed EXCEPT ![r] = t]
      /\ status' = [status EXCEPT ![r] = "remote"]
      /\ prefilling' = prefilling \union {r}
      /\ step' = [step EXCEPT !.passed = <<r>> \o @]
      /\ UNCHANGED <<offer, running, sending, report, finishedRecv, failedRecv, pc>>
  BY DEF AdmitLoad, Ready, Async
<1> DEFINE s == SetToSeq(new)
           tab == base \o s
<1>5. /\ table' = [table EXCEPT ![r] = tab]
      /\ loading' = [loading EXCEPT ![r] = Covering(tab, Local(r), t)]
      /\ cache' = Evicted(cache, new)
  BY <1>3
<1>6. /\ t \in Nat /\ t <= Len0[r] /\ base \in Seq(Block) /\ ToSet(base) \subseteq Range(cache)
      /\ Local(r) = Len(base) * BlockSize /\ Local(r) < t
  <2>1. /\ t \in Nat /\ t <= Len0[r] /\ base \in Seq(Block) /\ Local(r) \in Nat
        /\ t > Local(r) /\ Local(r) = LocalHit(r) * BlockSize /\ base = HitBlocks(LocalHit(r))
    BY <1>1, <1>2, <1>4, StartFacts
  <2>2. Len(base) = LocalHit(r) /\ ToSet(base) \subseteq Range(cache)
    BY <1>1, <1>2, <2>1, LocalHitFacts
  <2>3. QED
    BY <2>1, <2>2
<1> HIDE DEF r, t, base
<1>7. /\ computed \in [Req -> Nat] /\ \A q \in Req : computed[q] <= Len0[q]
      /\ table \in [Req -> Seq(Block)] /\ cache \in CacheType /\ step \in Steps
      /\ status \in [Req -> Statuses] /\ loading \in [Req -> SUBSET Block]
      /\ prefilling \subseteq Req
      /\ Free \in SUBSET Block
  BY <1>1 DEF Types, RequestTypes, BlockTypes, EngineTypes, CacheType, Free
<1>8. /\ new \subseteq Free /\ new \intersect ToSet(base) = {} /\ new \in SUBSET Block
      /\ tab \in Seq(Block) /\ ToSet(tab) = ToSet(base) \union new
      /\ Blocks(t) <= Len(tab)
      /\ s \in Seq(Block) /\ ToSet(s) = new /\ Len(s) = Missing(base, t)
  <2> DEFINE free == Free \ ToSet(base)
  <2>1. free \in SUBSET Block /\ free \subseteq Free /\ free \intersect ToSet(base) = {}
    BY <1>7
  <2>2. new \in Takes(Missing(base, t), free)
    BY <1>3
  <2> HIDE DEF free
  <2>3. /\ new \subseteq free /\ tab \in Seq(Block) /\ ToSet(tab) = ToSet(base) \union new
        /\ Blocks(t) <= Len(tab)
        /\ s \in Seq(Block) /\ ToSet(s) = new /\ Len(s) = Missing(base, t)
    BY <1>6, <2>1, <2>2, AllocateFacts
  <2>4. QED
    BY <2>1, <2>3
<1> DEFINE target == Covering(tab, Local(r), t)
<1>9. target \subseteq new /\ target # {}
  <2> DEFINE h == Len(base)
  <2>1. /\ h = Len(base) /\ h * BlockSize < t /\ Local(r) = h * BlockSize
    BY <1>6
  <2> HIDE DEF h, s
  <2>2. /\ Covering(base \o s, h * BlockSize, t) \subseteq ToSet(s)
        /\ Covering(base \o s, h * BlockSize, t) # {}
    BY <1>6, <1>8, <2>1, TargetsNew
  <2>3. target = Covering(base \o s, h * BlockSize, t)
    BY <2>1
  <2>4. QED
    BY <1>8, <2>2, <2>3
<1> HIDE DEF s, tab
<1>10. /\ loading'[r] = target /\ table'[r] = tab /\ status'[r] = "remote" /\ computed'[r] = t
       /\ \A q \in Req : q # r => /\ loading'[q] = loading[q] /\ table'[q] = table[q]
                                  /\ status'[q] = status[q] /\ computed'[q] = computed[q]
  BY <1>2, <1>4, <1>5, <1>7
<1> HIDE DEF target
<1>11. cache' \in CacheType /\ Range(cache') \subseteq (Range(cache) \ new) \union {NoBlock}
  BY <1>5, <1>7, <1>8, EvictedFacts
<1>12. step' \in Steps /\ step'.entries = step.entries /\ step'.kv = step.kv
  <2>1. ASSUME NEW u, u = [step EXCEPT !.passed = <<r>> \o @]
        PROVE  u \in Steps /\ u.entries = step.entries /\ u.kv = step.kv
    BY <1>2, <1>7, <2>1, PassedFacts
  <2>2. QED
    BY <1>4, <2>1
<1>13. Types'
  <2>1. status' \in [Req -> Statuses]
    BY <1>4, <1>7 DEF Statuses
  <2>2. computed' \in [Req -> Nat] /\ \A q \in Req : computed'[q] <= Len0[q]
    BY <1>4, <1>6, <1>7
  <2>3. table' \in [Req -> Seq(Block)]
    BY <1>5, <1>7, <1>8
  <2>4. loading' \in [Req -> SUBSET Block]
    <3>1. target \in SUBSET Block
      BY <1>8, <1>9
    <3>2. QED
      BY <1>5, <1>7, <3>1 DEF target
  <2>5. QED
    BY <1>1, <1>2, <1>4, <1>11, <1>12, <2>1, <2>2, <2>3, <2>4
    DEF Types, RequestTypes, QueueTypes, BlockTypes, EngineTypes, CacheType
<1>14. r \notin InStep
  BY <1>1, <1>2, <1>4, NotInStep
<1>15. EntriesOk' /\ InStep' = InStep
  <2>1. \A q \in Req : q \in InStep => status'[q] = status[q] /\ computed'[q] = computed[q]
    BY <1>10, <1>14
  <2>2. QED
    BY <1>1, <1>12, <2>1, EntriesKept
<1>16. RunningOk'
  <2>1. \A q \in ToSet(running) : q \in Req
    BY <1>1, LenProperties, ElementOfSeq DEF Types, QueueTypes, ToSet
  <2>2. r \notin ToSet(running)
    BY <1>1, <1>4 DEF RunningOk
  <2>3. QED
    BY <1>1, <1>4, <1>10, <2>1, <2>2 DEF RunningOk
<1>17. StepInOrder' /\ ReportLater'
  BY <1>1, <1>4, <1>12, <1>15 DEF StepInOrder, ReportLater
<1>18. StagesOk'
  <2>1. SUFFICES ASSUME NEW q \in Req PROVE StageOf(q)'
    BY DEF StagesOk
  <2>2. StageOf(q)
    BY <1>1 DEF StagesOk
  <2>3. /\ Reported(q)' <=> Reported(q)
        /\ InOutput(q)' <=> InOutput(q)
        /\ Sent(q)' <=> Sent(q)
    BY <1>4, <1>12 DEF Reported, InOutput, Sent
  <2>4. CASE q = r
    <3>1. Loading(q)'
      BY <1>9, <1>10, <2>4 DEF Loading
    <3>2. ~Reported(q) /\ ~InOutput(q) /\ ~Sent(q) /\ q \notin finishedRecv
      BY <1>4, <2>2, <2>4 DEF StageOf
    <3>3. QED
      BY <1>4, <1>10, <2>3, <2>4, <3>1, <3>2 DEF StageOf, Sent
  <2>5. CASE q # r
    <3>1. (Loading(q)' <=> Loading(q)) /\ status'[q] = status[q]
      BY <1>10, <2>5 DEF Loading
    <3>2. QED
      BY <1>4, <1>12, <2>2, <2>3, <3>1 DEF StageOf
  <2>6. QED
    BY <2>4, <2>5
<1>19. RoomOk'
  BY <1>1, <1>8, <1>10 DEF RoomOk
<1>20. Alone'
  <2>1. SUFFICES ASSUME NEW q \in Req, NEW b \in loading'[q]
                 PROVE  /\ b \in ToSet(table'[q]) /\ b \notin Range(cache')
                        /\ \A p \in Req \ {q} : b \notin ToSet(table'[p])
    BY DEF Alone
  <2>2. CASE q = r
    <3>1. b \in new /\ b \in ToSet(tab) /\ b \in Block
      BY <1>8, <1>9, <1>10, <2>1, <2>2
    <3>2. b \notin Range(cache')
      BY <1>11, <3>1 DEF Block, NoBlock
    <3>3. \A p \in Req : b \notin ToSet(table[p])
      BY <1>8, <3>1 DEF Free, Held
    <3>4. QED
      BY <1>10, <2>2, <3>1, <3>2, <3>3
  <2>3. CASE q # r
    <3>1. b \in loading[q] /\ b \in Block
      BY <1>7, <1>10, <2>1, <2>3
    <3>2. /\ b \in ToSet(table[q]) /\ b \notin Range(cache)
          /\ \A p \in Req \ {q} : b \notin ToSet(table[p])
      BY <1>1, <3>1 DEF Alone
    <3>3. b \notin new
      BY <1>8, <3>2 DEF Free, Held
    <3>4. b \notin Range(cache')
      BY <1>11, <3>1, <3>2 DEF Block, NoBlock
    <3>5. b \notin ToSet(tab)
      BY <1>6, <1>8, <3>2, <3>3
    <3>6. QED
      BY <1>10, <2>3, <3>2, <3>4, <3>5
  <2>4. QED
    BY <2>2, <2>3
<1>21. QED
  BY <1>13, <1>15, <1>16, <1>17, <1>18, <1>19, <1>20 DEF KVInv

-----------------------------------------------------------------------------
(* Admitting a request into the step: it joins the running ones as the last.  *)
LEMMA AdmitRunKV == KVInv /\ AdmitRun => KVInv'
<1> SUFFICES ASSUME KVInv, AdmitRun PROVE KVInv'
  OBVIOUS
<1> DEFINE r == Candidate
           t == Start(r)
           n == Chunk(r, t)
           base == Base(r)
<1>1. /\ Types /\ RunningOk /\ StepInOrder /\ EntriesOk /\ ReportLater
      /\ StagesOk /\ RoomOk /\ Alone
  BY DEF KVInv
<1>2. r \in Req /\ skipped' \in Seq(Req) /\ waiting' \in Seq(Req)
  BY <1>1, CandidateFacts DEF AdmitRun
<1>3. PICK new \in Takes(Missing(base, t + n), Free \ ToSet(base)) :
        LET tab == base \o SetToSeq(new)
            sync == IF External(r) > 0 THEN Covering(tab, Local(r), t) ELSE {}
        IN /\ table' = [table EXCEPT ![r] = tab]
           /\ cache' = Cached(Evicted(cache, new), tab, t + n)
           /\ step' = Scheduled(step, Entry(r, tab, t, n, sync))
  BY DEF AdmitRun
<1>4. /\ status[r] \in {"waiting", "preempted"} /\ NextRunning = 0 /\ pc = "schedule"
      /\ computed' = [computed EXCEPT ![r] = t + n]
      /\ status' = [status EXCEPT ![r] = "running"]
      /\ prefilling' \subseteq prefilling \union {r}
      /\ running' = Append(running, r)
      /\ UNCHANGED <<offer, kvs, pc>>
  BY DEF AdmitRun, Ready, WaitingLoop
<1>5. /\ t \in Nat /\ t <= Len0[r] /\ base \in Seq(Block)
      /\ ToSet(base) \subseteq Range(cache) \union ToSet(table[r])
      /\ Local(r) \in Nat
  BY <1>1, <1>2, StartFacts
<1> HIDE DEF r
<1> DEFINE from == Local(r)
<1>6. from \in Nat
  BY <1>5
<1>7. n \in Nat /\ t + n \in Nat /\ t + n <= Len0[r] /\ n <= step.budget
  <2> HIDE DEF t
  <2> QED
    BY <1>1, <1>2, <1>5, ChunkFacts
<1> DEFINE s == SetToSeq(new)
           tab == base \o s
           sync == IF External(r) > 0 THEN Covering(tab, from, t) ELSE {}
           to == t + n
<1>8. /\ table' = [table EXCEPT ![r] = tab]
      /\ cache' = Cached(Evicted(cache, new), tab, to)
      /\ step' = Scheduled(step, Entry(r, tab, t, n, sync))
      /\ computed' = [computed EXCEPT ![r] = to]
      /\ new \in Takes(Missing(base, to), Free \ ToSet(base))
  BY <1>3, <1>4
<1>9. to = t + n /\ to \in Nat /\ to <= Len0[r] /\ n <= to /\ t <= to
  <2>1. to = t + n
    OBVIOUS
  <2> HIDE DEF t, n, to
  <2>2. QED
    BY <1>5, <1>7, <2>1
<1> HIDE DEF t, n, base, from, to
<1>10. /\ computed \in [Req -> Nat] /\ \A q \in Req : computed[q] <= Len0[q]
       /\ table \in [Req -> Seq(Block)] /\ cache \in CacheType /\ step \in Steps
       /\ status \in [Req -> Statuses] /\ running \in Seq(Req) /\ IsInjective(running)
       /\ prefilling \subseteq Req
       /\ Free \in SUBSET Block
  BY <1>1 DEF Types, RequestTypes, QueueTypes, BlockTypes, EngineTypes, CacheType, Free
<1>11. /\ new \subseteq Free /\ new \in SUBSET Block
       /\ tab \in Seq(Block) /\ ToSet(tab) = ToSet(base) \union new
       /\ Blocks(to) <= Len(tab) /\ Len(tab) \in Nat
  <2> DEFINE free == Free \ ToSet(base)
  <2>1. free \in SUBSET Block /\ free \subseteq Free
    BY <1>10
  <2>2. new \in Takes(Missing(base, to), free)
    BY <1>8
  <2> HIDE DEF free
  <2>3. /\ new \subseteq free /\ tab \in Seq(Block) /\ ToSet(tab) = ToSet(base) \union new
        /\ Blocks(to) <= Len(tab)
    BY <1>5, <1>9, <2>1, <2>2, AllocateFacts
  <2>4. QED
    BY <2>1, <2>3, LenProperties
<1> HIDE DEF s, tab
<1>12. sync \in SUBSET Block
  <2>1. Blocks(t) <= Blocks(to) /\ Blocks(t) \in Nat /\ Blocks(to) \in Nat
    BY <1>5, <1>9, BlocksFacts
  <2>2. Blocks(t) <= Len(tab)
    BY <1>11, <2>1
  <2>3. Covering(tab, from, t) \in SUBSET Block
    BY <1>5, <1>6, <1>11, <2>2, CoveringType
  <2>4. QED
    BY <2>3
<1> HIDE DEF sync
<1>13. to \div BlockSize <= Len(tab)
  <2> DEFINE d == to \div BlockSize
             m == Blocks(to)
  <2>1. d \in Nat /\ m \in Nat /\ d <= m /\ m <= Len(tab) /\ Len(tab) \in Nat
    BY <1>9, <1>11, BlocksFacts
  <2> HIDE DEF d, m
  <2>2. d <= Len(tab)
    BY <2>1
  <2>3. QED
    BY <2>2 DEF d
<1>14. /\ cache' \in CacheType
       /\ Range(cache') \subseteq Range(cache) \union {NoBlock} \union ToSet(tab)
  <2>1. /\ Evicted(cache, new) \in CacheType
        /\ Range(Evicted(cache, new)) \subseteq (Range(cache) \ new) \union {NoBlock}
    BY <1>10, <1>11, EvictedFacts
  <2>2. QED
    BY <1>8, <1>9, <1>11, <1>13, <2>1, CachedFacts
<1>15. /\ computed' \in [Req -> Nat] /\ computed'[r] = to
       /\ table'[r] = tab /\ status'[r] = "running"
       /\ \A q \in Req : q # r => /\ table'[q] = table[q] /\ status'[q] = status[q]
                                  /\ computed'[q] = computed[q]
  BY <1>2, <1>4, <1>8, <1>9, <1>10
<1>16. r \notin InStep
  BY <1>1, <1>2, <1>4, NotInStep
<1>17. loading[r] = {}
  BY <1>2, <1>4, RunningLoadsNothing
<1>18. /\ step' \in Steps /\ step'.kv = step.kv /\ EntriesOk'
       /\ \A q \in Req : q \in InStep' <=> q \in InStep \/ q = r
  <2>1. computed[r] \in Nat /\ computed[r] <= t
    <3>1. Start(r) = IF computed[r] = 0 THEN Local(r) + External(r) ELSE computed[r]
      BY DEF Start
    <3>2. computed[r] \in Nat
      BY <1>2, <1>10
    <3>3. QED
      BY <1>5, <3>1, <3>2 DEF t
  <2>2. \A q \in Req : computed[q] <= computed'[q]
    <3>1. \A q \in Req : computed[q] \in Nat /\ computed[q] <= computed[q]
      BY <1>10
    <3>2. computed[r] <= to
      BY <1>5, <1>9, <2>1
    <3>3. QED
      BY <1>15, <3>1, <3>2
  <2>3. \A q \in Req \ {r} : status'[q] = status[q]
    BY <1>15
  <2>4. n <= computed'[r]
    BY <1>9, <1>15
  <2>5. n \in Nat /\ n <= step.budget
    BY <1>7
  <2>6. status[r] \in {"running", "waiting", "preempted"}
    BY <1>4
  <2>7. QED
    BY <1>2, <1>5, <1>8, <1>11, <1>12, <1>15, <1>16, <2>2, <2>3, <2>4, <2>5, <2>6, EntryAdded
<1>19. r \notin ToSet(running) /\ \A q \in ToSet(running) : q \in Req
  <2>1. r \notin ToSet(running)
    BY <1>1, <1>4 DEF RunningOk
  <2>2. \A q \in ToSet(running) : q \in Req
    BY <1>10, LenProperties, ElementOfSeq DEF ToSet
  <2>3. QED
    BY <2>1, <2>2
<1>20. /\ running' \in Seq(Req) /\ ToSet(running') = ToSet(running) \union {r}
       /\ IsInjective(running')
  BY <1>2, <1>4, <1>10, <1>19, AppendFacts
<1>21. Types'
  <2>1. status' \in [Req -> Statuses]
    BY <1>4, <1>10 DEF Statuses
  <2>2. \A q \in Req : computed'[q] <= Len0[q]
    BY <1>9, <1>10, <1>15
  <2>3. table' \in [Req -> Seq(Block)]
    BY <1>8, <1>10, <1>11
  <2>4. prefilling' \subseteq Req
    BY <1>2, <1>4, <1>10
  <2>5. QED
    BY <1>1, <1>2, <1>4, <1>14, <1>15, <1>18, <1>20, <2>1, <2>2, <2>3, <2>4
    DEF Types, RequestTypes, QueueTypes, BlockTypes, EngineTypes, CacheType, kvs
<1>22. RunningOk'
  BY <1>1, <1>15, <1>19, <1>20 DEF RunningOk
<1>23. StepInOrder'
  <2>1. \A j \in 1..Len(running) : running[j] \in InStep
    BY <1>1, <1>4, NextRunningFacts
  <2>2. \A q \in ToSet(running) : q \in InStep
    <3>1. DOMAIN running = 1..Len(running)
      BY <1>10, LenProperties
    <3>2. QED
      BY <2>1, <3>1 DEF ToSet
  <2>3. \A q \in ToSet(running') : q \in InStep'
    BY <1>2, <1>18, <1>19, <1>20, <2>2
  <2>4. \A i \in DOMAIN running' : running'[i] \in ToSet(running')
    BY DEF ToSet
  <2>5. QED
    BY <2>3, <2>4 DEF StepInOrder
<1>24. ReportLater'
  BY <1>1, <1>4, <1>18 DEF ReportLater
<1>25. StagesOk'
  <2>1. \A q \in Req : \/ status'[q] = status[q]
                       \/ /\ status[q] \notin {"remote", "finished"}
                          /\ status'[q] \notin {"remote", "finished"}
    BY <1>4, <1>15
  <2>2. /\ loading' = loading /\ report' = report /\ finishedRecv' = finishedRecv
        /\ sending' = sending
    BY <1>4 DEF kvs
  <2>3. QED
    BY <1>1, <1>18, <2>1, <2>2, StagesSame
<1>26. RoomOk'
  <2>1. \A q \in Req : status'[q] = "remote" =>
          status[q] = "remote" /\ computed'[q] = computed[q] /\ table'[q] = table[q]
    BY <1>15
  <2>2. QED
    BY <1>1, <2>1 DEF RoomOk
<1>27. Alone'
  <2>1. loading' = loading
    BY <1>4 DEF kvs
  <2>2. \A q \in Req : loading[q] # {} => table'[q] = table[q]
    BY <1>15, <1>17
  <2>3. ToSet(tab) \subseteq ToSet(table[r]) \union Free \union Range(cache)
    BY <1>5, <1>11 DEF base
  <2>4. \A q \in Req : ToSet(table'[q]) \subseteq ToSet(table[q]) \union Free \union Range(cache)
    BY <1>15, <2>3
  <2>5. \A b \in Range(cache') : \/ b \in Range(cache) \union Free \union {NoBlock}
                                 \/ b \in ToSet(table[r])
    BY <1>14, <2>3
  <2>6. QED
    BY <1>1, <1>2, <1>17, <2>1, <2>2, <2>4, <2>5, LoadsUndisturbed
<1>28. QED
  BY <1>18, <1>21, <1>22, <1>23, <1>24, <1>25, <1>26, <1>27 DEF KVInv

-----------------------------------------------------------------------------
(* What an end does to the requests it concerns.                              *)
RequestRec == [status : [Req -> Statuses], table : [Req -> Seq(Block)], recv : SUBSET Req,
               failed : SUBSET Req, prefilling : SUBSET Req]
HeldOn(s, r, send) == (s.status[r] = "remote" /\ r \notin s.recv) \/ r \in send

(* t is what s becomes when the requests rs end.                              *)
Ended(s, rs, send, t) ==
  /\ t \in RequestRec /\ t.recv = s.recv \ rs
  /\ \A r \in Req \ rs : t.status[r] = s.status[r] /\ t.table[r] = s.table[r]
  /\ \A r \in rs : /\ HeldOn(s, r, send) => t.status[r] = "finished" /\ t.table[r] = s.table[r]
                   /\ ~HeldOn(s, r, send) => t.status[r] = "gone" /\ t.table[r] = <<>>
(* t is what s becomes with the report kv.                                    *)
Freed(s, kv, r) == r \in kv.received \union kv.sent /\ s.status[r] = "finished"
Delivered(s, kv, t) ==
  /\ t \in RequestRec
  /\ \A r \in Req : r \in t.recv <=> r \in s.recv \/ (r \in kv.received /\ s.status[r] = "remote")
  /\ \A r \in Req :
       /\ Freed(s, kv, r) => t.status[r] = "gone" /\ t.table[r] = <<>>
       /\ ~Freed(s, kv, r) => t.status[r] = s.status[r] /\ t.table[r] = s.table[r]

LEMMA FinishFacts ==
  ASSUME NEW s \in RequestRec, NEW rs \in SUBSET Req, NEW send
  PROVE  Ended(s, rs, send, Finish(s, rs, send))
<1>0. PICK t : t = Finish(s, rs, send)
  OBVIOUS
<1> DEFINE keep == {r \in rs : (s.status[r] = "remote" /\ r \notin s.recv) \/ r \in send}
           st == [r \in Req |-> CASE r \in keep -> "finished"
                                  [] r \in rs \ keep -> "gone"
                                  [] OTHER -> s.status[r]]
           tb == [r \in Req |-> IF r \in rs \ keep THEN <<>> ELSE s.table[r]]
<1>1. t = [s EXCEPT !.status = st, !.table = tb, !.recv = @ \ rs, !.failed = @ \ rs,
                    !.prefilling = @ \ rs]
  BY <1>0 DEF Finish
<1>2. \A r \in rs : r \in keep <=> HeldOn(s, r, send)
  BY DEF HeldOn
<1>3. s.status \in [Req -> Statuses] /\ s.table \in [Req -> Seq(Block)] /\ s.recv \subseteq Req
  BY DEF RequestRec
<1> HIDE DEF keep
<1>4. st \in [Req -> Statuses]
  BY <1>3 DEF Statuses
<1>5. tb \in [Req -> Seq(Block)]
  BY <1>3, EmptySeq
<1>6. /\ \A r \in Req \ rs : (r \notin keep => st[r] = s.status[r]) /\ tb[r] = s.table[r]
      /\ \A r \in rs : r \in keep => st[r] = "finished" /\ tb[r] = s.table[r]
      /\ \A r \in rs : r \notin keep => st[r] = "gone" /\ tb[r] = <<>>
  OBVIOUS
<1>7. \A r \in Req \ rs : r \notin keep
  BY DEF keep
<1> HIDE DEF st, tb
<1>8. t \in RequestRec /\ t.status = st /\ t.table = tb /\ t.recv = s.recv \ rs
  BY <1>1, <1>4, <1>5 DEF RequestRec
<1>9. Ended(s, rs, send, t)
  BY <1>2, <1>6, <1>7, <1>8 DEF Ended
<1>10. QED
  BY <1>0, <1>9

(* What the report of a load's or a send's end does.                          *)
LEMMA CompletedFacts ==
  ASSUME NEW s \in RequestRec, NEW kv \in Report
  PROVE  Delivered(s, kv, Completed(s, kv))
<1>0. PICK t : t = Completed(s, kv)
  OBVIOUS
<1> DEFINE freed == {r \in kv.received \union kv.sent : s.status[r] = "finished"}
           st == [r \in Req |-> IF r \in freed THEN "gone" ELSE s.status[r]]
           tb == [r \in Req |-> IF r \in freed THEN <<>> ELSE s.table[r]]
           rv == s.recv \union {r \in kv.received : s.status[r] = "remote"}
<1>1. t = [s EXCEPT !.recv = rv, !.status = st, !.table = tb]
  BY <1>0 DEF Completed
<1>2. /\ s.status \in [Req -> Statuses] /\ s.table \in [Req -> Seq(Block)] /\ s.recv \subseteq Req
      /\ kv.received \subseteq Req /\ kv.sent \subseteq Req
  BY DEF RequestRec, Report
<1>3. \A r \in Req : r \in freed <=> Freed(s, kv, r)
  BY DEF Freed
<1> HIDE DEF freed
<1>4. st \in [Req -> Statuses]
  BY <1>2 DEF Statuses
<1>5. tb \in [Req -> Seq(Block)]
  BY <1>2, EmptySeq
<1>6. rv \subseteq Req
  BY <1>2
<1>7. \A r \in Req : /\ r \in freed => st[r] = "gone" /\ tb[r] = <<>>
                     /\ r \notin freed => st[r] = s.status[r] /\ tb[r] = s.table[r]
  OBVIOUS
<1>8. \A r \in Req : r \in rv <=> r \in s.recv \/ (r \in kv.received /\ s.status[r] = "remote")
  OBVIOUS
<1> HIDE DEF st, tb, rv
<1>9. t \in RequestRec /\ t.status = st /\ t.table = tb /\ t.recv = rv
  BY <1>1, <1>4, <1>5, <1>6 DEF RequestRec
<1>10. Delivered(s, kv, t)
  BY <1>3, <1>7, <1>8, <1>9 DEF Delivered
<1>11. QED
  BY <1>0, <1>10

(* The queues without the requests that are over.                             *)
LEMMA RemovedFacts ==
  ASSUME Types, NEW rs, Removed(rs)
  PROVE  /\ skipped' \in Seq(Req) /\ waiting' \in Seq(Req) /\ running' \in Seq(Req)
         /\ IsInjective(running') /\ ToSet(running') = ToSet(running) \intersect (Req \ rs)
         /\ ToSet(running') \subseteq Req
<1>1. skipped \in Seq(Req) /\ waiting \in Seq(Req) /\ running \in Seq(Req) /\ IsInjective(running)
  BY DEF Types, QueueTypes
<1> DEFINE S == Req \ rs
<1>2. running' = Keep(running, S) /\ skipped' = Keep(skipped, S) /\ waiting' = Keep(waiting, S)
  BY DEF Removed
<1>3. S \subseteq Req
  OBVIOUS
<1> HIDE DEF S
<1>4. /\ Keep(running, S) \in Seq(Req) /\ ToSet(Keep(running, S)) = ToSet(running) \cap S
      /\ IsInjective(Keep(running, S))
      /\ Keep(skipped, S) \in Seq(Req) /\ Keep(waiting, S) \in Seq(Req)
  BY <1>1, KeepFacts
<1>5. QED
  BY <1>2, <1>3, <1>4 DEF S

(* An abort: the blocks of a load under way stay with the request.            *)
(* What an abort leaves of a request: a load that is not over keeps it.       *)
LEMMA AbortFacts ==
  ASSUME Types, NEW r \in Req, AbortRequest(r)
  PROVE  /\ status' \in [Req -> Statuses] /\ table' \in [Req -> Seq(Block)]
         /\ finishedRecv' \subseteq Req /\ failedRecv' \subseteq Req /\ prefilling' \subseteq Req
         /\ \A q \in Req : q # r => status'[q] = status[q] /\ table'[q] = table[q]
         /\ IF status[r] = "remote" /\ r \notin finishedRecv
            THEN status'[r] = "finished" /\ table'[r] = table[r]
            ELSE status'[r] = "gone" /\ table'[r] = <<>>
         /\ finishedRecv' = finishedRecv \ {r}
<1> DEFINE s == Requests(failedRecv)
<1>1. Types
  OBVIOUS
<1>2. Becomes(Finish(s, {r}, {}))
  BY DEF AbortRequest
<1>3. s \in RequestRec /\ s.status = status /\ s.table = table /\ s.recv = finishedRecv
  BY <1>1 DEF Requests, RequestRec, Types, RequestTypes, EngineTypes
<1> HIDE DEF s
<1>4. PICK t : t = Finish(s, {r}, {})
  OBVIOUS
<1> DEFINE held == status[r] = "remote" /\ r \notin finishedRecv
<1>5. /\ t \in RequestRec /\ t.recv = finishedRecv \ {r}
      /\ \A q \in Req \ {r} : t.status[q] = status[q] /\ t.table[q] = table[q]
      /\ held => t.status[r] = "finished" /\ t.table[r] = table[r]
      /\ ~held => t.status[r] = "gone" /\ t.table[r] = <<>>
  <2> DEFINE none == {}
             rs == {r}
  <2>1. t = Finish(s, rs, none) /\ rs \in SUBSET Req /\ r \in rs
    BY <1>4
  <2>2. HeldOn(s, r, none) <=> held
    BY <1>3 DEF HeldOn
  <2> HIDE DEF none, rs, held
  <2>3. Ended(s, rs, none, Finish(s, rs, none))
    BY <1>3, <2>1, FinishFacts
  <2>4. Ended(s, rs, none, t)
    BY <2>1, <2>3
  <2>5. QED
    BY <1>3, <2>1, <2>2, <2>4 DEF rs, Ended
<1>6. /\ status' = t.status /\ table' = t.table /\ finishedRecv' = t.recv
      /\ failedRecv' = t.failed /\ prefilling' = t.prefilling
  BY <1>2, <1>4 DEF Becomes
<1> HIDE DEF held
<1>7. /\ status' \in [Req -> Statuses] /\ table' \in [Req -> Seq(Block)]
      /\ finishedRecv' \subseteq Req /\ failedRecv' \subseteq Req /\ prefilling' \subseteq Req
  BY <1>5, <1>6 DEF RequestRec
<1>8. /\ \A q \in Req : q # r => status'[q] = status[q] /\ table'[q] = table[q]
      /\ held => status'[r] = "finished" /\ table'[r] = table[r]
      /\ ~held => status'[r] = "gone" /\ table'[r] = <<>>
      /\ finishedRecv' = finishedRecv \ {r}
  BY <1>5, <1>6
<1>9. QED
  BY <1>7, <1>8 DEF held

LEMMA AbortRequestKV == ASSUME NEW r \in Req PROVE KVInv /\ AbortRequest(r) => KVInv'
<1> SUFFICES ASSUME KVInv, AbortRequest(r) PROVE KVInv'
  OBVIOUS
<1>1. /\ Types /\ RunningOk /\ StepInOrder /\ EntriesOk /\ ReportLater
      /\ StagesOk /\ RoomOk /\ Alone
  BY DEF KVInv
<1>2. /\ status[r] \in {"waiting", "preempted", "remote", "running"}
      /\ pc # "schedule" \/ step = NewStep
      /\ Removed({r})
      /\ UNCHANGED <<offer, computed, cache, loading, sending, report, pc, step>>
  BY DEF AbortRequest, Between
<1> DEFINE held == status[r] = "remote" /\ r \notin finishedRecv
<1>7. /\ status' \in [Req -> Statuses] /\ table' \in [Req -> Seq(Block)]
      /\ finishedRecv' \subseteq Req /\ failedRecv' \subseteq Req /\ prefilling' \subseteq Req
      /\ \A q \in Req : q # r => status'[q] = status[q] /\ table'[q] = table[q]
      /\ IF held THEN status'[r] = "finished" /\ table'[r] = table[r]
         ELSE status'[r] = "gone" /\ table'[r] = <<>>
      /\ finishedRecv' = finishedRecv \ {r}
  BY <1>1, AbortFacts
<1> HIDE DEF held
<1>8. /\ \A q \in Req : q # r => status'[q] = status[q] /\ table'[q] = table[q]
      /\ held => status'[r] = "finished" /\ table'[r] = table[r]
      /\ ~held => status'[r] = "gone" /\ table'[r] = <<>>
      /\ finishedRecv' = finishedRecv \ {r}
  BY <1>7
<1>9. /\ skipped' \in Seq(Req) /\ waiting' \in Seq(Req) /\ running' \in Seq(Req)
      /\ IsInjective(running') /\ ToSet(running') = ToSet(running) \intersect (Req \ {r})
      /\ ToSet(running') \subseteq Req
  BY <1>1, <1>2, RemovedFacts
<1>10. Types'
  BY <1>1, <1>2, <1>7, <1>9 DEF Types, RequestTypes, QueueTypes, BlockTypes, EngineTypes
<1>11. EntriesOk' /\ InStep' = InStep
  <2>1. \A q \in Req : q \in InStep =>
          \/ status'[q] = status[q] /\ computed'[q] = computed[q]
          \/ status'[q] \in {"finished", "gone"}
    BY <1>2, <1>8
  <2>2. QED
    BY <1>1, <1>2, <2>1, EntriesKept
<1>12. RunningOk'
  BY <1>1, <1>8, <1>9 DEF RunningOk
<1>13. StepInOrder'
  <2>1. CASE pc # "schedule"
    BY <1>2, <2>1 DEF StepInOrder
  <2>2. CASE step = NewStep
    <3>1. InStep = {}
      BY <2>2 DEF InStep, NewStep
    <3>2. QED
      BY <1>11, <3>1 DEF StepInOrder
  <2>3. QED
    BY <1>2, <2>1, <2>2
<1>14. ReportLater'
  BY <1>1, <1>2 DEF ReportLater
<1>15. StagesOk'
  <2>1. SUFFICES ASSUME NEW q \in Req PROVE StageOf(q)'
    BY DEF StagesOk
  <2>2. StageOf(q)
    BY <1>1 DEF StagesOk
  <2>3. /\ Loading(q)' <=> Loading(q)
        /\ Reported(q)' <=> Reported(q)
        /\ InOutput(q)' <=> InOutput(q)
        /\ Sent(q)' <=> Sent(q)
    BY <1>2 DEF Loading, Reported, InOutput, Sent
  <2>4. CASE q = r
    <3>1. ~Sent(q) /\ (held => Loading(q) \/ Reported(q) \/ InOutput(q))
          /\ (~held => ~Loading(q) /\ ~Reported(q) /\ ~InOutput(q))
      BY <1>2, <2>2, <2>4 DEF StageOf, held
    <3>2. QED
      BY <1>2, <1>8, <2>2, <2>3, <2>4, <3>1 DEF StageOf, Sent
  <2>5. CASE q # r
    BY <1>2, <1>8, <2>2, <2>3, <2>5 DEF StageOf
  <2>6. QED
    BY <2>4, <2>5
<1>16. RoomOk'
  <2>1. \A q \in Req : status'[q] = "remote" => status[q] = "remote" /\ table'[q] = table[q]
    BY <1>8
  <2>2. QED
    BY <1>1, <1>2, <2>1 DEF RoomOk
<1>17. Alone'
  <2>1. loading[r] # {} /\ status[r] = "remote" => held
    BY <1>1 DEF StagesOk, StageOf, Loading, held
  <2>2. loading[r] # {} => status[r] = "remote"
    BY <1>1, <1>2 DEF StagesOk, StageOf, Loading
  <2>3. \A q \in Req : loading'[q] # {} => table'[q] = table[q]
    BY <1>2, <1>8, <2>1, <2>2
  <2>4. \A q \in Req : ToSet(table'[q]) \subseteq ToSet(table[q])
    <3>1. ToSet(<<>>) = {}
      BY DEF ToSet
    <3>2. QED
      BY <1>8, <3>1
  <2>5. QED
    BY <1>1, <1>2, <2>3, <2>4, LoadsUndisturbed
<1>18. QED
  BY <1>10, <1>11, <1>12, <1>13, <1>14, <1>15, <1>16, <1>17 DEF KVInv

-----------------------------------------------------------------------------
(* The scan of the requests for blocks that failed to load: it only takes     *)
(* computed tokens back, of requests that run or wait for their load.         *)
Scannable == {q \in Req : status[q] \in {"remote", "running"}}
Counted == {c \in [Req -> Nat] : \A q \in Req : c[q] <= computed[q]}
Accs == [affected : SUBSET Scannable, marked : SUBSET Block, computed : Counted,
         evict : SUBSET Block]

(* The m-th block starts below t tokens if they have more than m blocks.      *)
LEMMA BlockStarts ==
  ASSUME NEW t \in Nat, NEW m \in Nat, m < Blocks(t)
  PROVE  m * BlockSize \in Nat /\ m * BlockSize <= t
<1> DEFINE n == BlockSize
           a == t + n - 1
           d == a \div n
           p == n * m
           e == n * d
<1>1. n \in Nat \ {0} /\ a \in Nat /\ a = t + n - 1
  BY KVAssumption
<1>2. Blocks(t) = d
  BY DEF Blocks, CDiv
<1> HIDE DEF a
<1>3. d \in Nat /\ a % n \in Nat /\ a = e + (a % n)
  <2>1. a \div n \in Nat /\ a % n \in 0 .. n - 1 /\ a = n * (a \div n) + (a % n)
    BY <1>1, DivMod
  <2>2. a % n \in Nat
    BY <1>1, <2>1
  <2>3. QED
    BY <2>1, <2>2
<1>4. m < d
  BY <1>2
<1> HIDE DEF d
<1>5. n * m + n <= n * d /\ n * m \in Int /\ n * m = m * n /\ n * d \in Int
  BY <1>1, <1>3, <1>4, MulMono
<1>6. p + n <= e /\ p \in Int /\ e \in Int /\ m * BlockSize = p
  BY <1>5
<1>7. p \in Nat
  BY <1>1
<1> DEFINE rem == a % n
<1>8. rem \in Nat /\ a = e + rem
  BY <1>3
<1> HIDE DEF p, e, n, rem
<1>9. p <= t
  BY <1>1, <1>6, <1>7, <1>8
<1>10. QED
  BY <1>6, <1>7, <1>9

LEMMA TokensFacts ==
  ASSUME Types, EntriesOk, NEW r \in Scannable
  PROVE  Tokens(r) \in Nat /\ Tokens(r) <= computed[r] /\ computed[r] \in Nat
<1> DEFINE mine == {k \in DOMAIN step.entries : step.entries[k].req = r}
           k == CHOOSE k \in mine : TRUE
<1>1. step \in Steps /\ computed[r] \in Nat /\ status[r] \in {"remote", "running"}
  BY DEF Types, RequestTypes, EngineTypes, Scannable
<1>2. CASE mine = {}
  <2>1. Tokens(r) = 0
    BY <1>2 DEF Tokens
  <2>2. QED
    BY <1>1, <2>1
<1>3. CASE mine # {}
  <2>1. k \in mine
    BY <1>3
  <2>2. Tokens(r) = step.entries[k].n
    BY <1>3 DEF Tokens
  <2> HIDE DEF k
  <2>3. k \in DOMAIN step.entries /\ step.entries[k].req = r
    BY <2>1
  <2>4. step.entries[k].n \in Nat
    BY <1>1, <2>3, StepFields
  <2>5. /\ status[r] \in {"running", "finished", "gone"}
        /\ status[r] = "running" => step.entries[k].n <= computed[r]
    BY <2>3 DEF EntriesOk
  <2>6. status[r] = "running"
    BY <1>1, <2>5
  <2>7. QED
    BY <1>1, <2>2, <2>4, <2>5, <2>6
<1>4. QED
  BY <1>2, <1>3

LEMMA ScanFacts ==
  ASSUME Types, EntriesOk, NEW acc \in Accs, NEW r \in Scannable
  PROVE  Scan(acc, r) \in Accs
<1> DEFINE had == computed[r] - Tokens(r)
           tab == table[r]
           hits == {i \in 0..(Blocks(had) - 1) : i < Len(tab) /\ tab[i + 1] \in step.kv.invalid}
           own == {i \in hits : tab[i + 1] \notin acc.marked}
           least == Min(own)
           from == IF own = {} THEN had ELSE least * BlockSize
           more == IF own = {} THEN {} ELSE {tab[i] : i \in (least + 1)..Len(tab)}
           again == {tab[i + 1] : i \in own}
<1>1. /\ acc.affected \in SUBSET Scannable /\ acc.marked \in SUBSET Block
      /\ acc.computed \in [Req -> Nat] /\ \A q \in Req : acc.computed[q] <= computed[q]
      /\ acc.evict \in SUBSET Block /\ r \in Req
  BY DEF Accs, Counted, Scannable
<1>2. had \in Nat /\ had <= computed[r] /\ computed[r] \in Nat
  <2>1. Tokens(r) \in Nat /\ Tokens(r) <= computed[r] /\ computed[r] \in Nat
    BY TokensFacts
  <2>2. QED
    BY <2>1
<1>3. tab \in Seq(Block) /\ Len(tab) \in Nat /\ \A i \in 1..Len(tab) : tab[i] \in Block
  <2>1. tab \in Seq(Block)
    BY <1>1 DEF Types, RequestTypes
  <2>2. QED
    BY <2>1, LenProperties, ElementOfSeq
<1> HIDE DEF tab, had
<1>4. Blocks(had) \in Nat
  BY <1>2, BlocksFacts
<1>5. \A i \in own : i \in Nat /\ i < Blocks(had) /\ i < Len(tab)
  BY <1>4
<1>6. Scan(acc, r) = IF hits = {} THEN acc
                     ELSE [acc EXCEPT !.affected = @ \union {r}, !.marked = @ \union again,
                                      !.computed[r] = from, !.evict = @ \union more]
  BY DEF Scan, tab, had
<1> HIDE DEF own, hits
<1>7. again \in SUBSET Block
  <2>1. \A i \in own : i + 1 \in 1..Len(tab)
    BY <1>3, <1>5
  <2>2. QED
    BY <1>3, <2>1
<1>8. from \in Nat /\ from <= computed[r] /\ more \in SUBSET Block
  <2>1. CASE own = {}
    BY <1>2, <2>1
  <2>2. CASE own # {}
    <3>1. own \in SUBSET Nat
      BY <1>5
    <3>2. \E x \in own : \A y \in own : x <= y
      BY <2>2, <3>1, LeastNatural
    <3>3. least \in own
      BY <3>2 DEF Min
    <3> HIDE DEF least
    <3>4. least \in Nat /\ least < Blocks(had)
      BY <1>5, <3>3
    <3>5. least * BlockSize \in Nat /\ least * BlockSize <= had
      BY <1>2, <3>4, BlockStarts
    <3>6. from = least * BlockSize /\ more = {tab[i] : i \in (least + 1)..Len(tab)}
      BY <2>2
    <3>7. from \in Nat /\ from <= computed[r]
      <4> HIDE DEF from
      <4> DEFINE p == least * BlockSize
      <4>1. p \in Nat /\ p <= had /\ from = p
        BY <3>5, <3>6
      <4> HIDE DEF p
      <4>2. QED
        BY <1>2, <4>1
    <3>8. \A i \in (least + 1)..Len(tab) : i \in 1..Len(tab)
      BY <1>3, <3>4
    <3>9. QED
      BY <1>3, <3>6, <3>7, <3>8
  <2>3. QED
    BY <2>1, <2>2
<1> HIDE DEF again, from, more
<1>9. [acc.computed EXCEPT ![r] = from] \in Counted
  <2> DEFINE c == [acc.computed EXCEPT ![r] = from]
  <2>1. c \in [Req -> Nat] /\ \A q \in Req : (c[q] = from /\ q = r) \/ c[q] = acc.computed[q]
    BY <1>1, <1>8
  <2> HIDE DEF c
  <2>2. \A q \in Req : c[q] <= computed[q]
    BY <1>1, <1>8, <2>1
  <2>3. c \in Counted
    BY <2>1, <2>2 DEF Counted
  <2>4. QED
    BY <2>3 DEF c
<1>10. CASE hits # {}
  <2> DEFINE c == [acc.computed EXCEPT ![r] = from]
             a == acc.affected \union {r}
             m == acc.marked \union again
             e == acc.evict \union more
  <2>1. Scan(acc, r) = [acc EXCEPT !.affected = a, !.marked = m, !.computed = c, !.evict = e]
    BY <1>6, <1>10
  <2>2. a \in SUBSET Scannable /\ m \in SUBSET Block /\ c \in Counted /\ e \in SUBSET Block
    BY <1>1, <1>7, <1>8, <1>9
  <2> HIDE DEF a, m, c, e
  <2>3. QED
    BY <2>1, <2>2 DEF Accs
<1>11. CASE hits = {}
  BY <1>6, <1>11
<1>12. QED
  BY <1>10, <1>11

(* A scan, request by request.                                                *)
ScansBy(rs, c, h) ==
  /\ \A i \in 0..Len(rs) : h[i] \in Accs
  /\ h[0] = [affected |-> {}, marked |-> {}, computed |-> c, evict |-> {}]
  /\ \A i \in 1..Len(rs) : rs[i] \in Scannable /\ h[i] = Scan(h[i - 1], rs[i])
  /\ Scanned(rs, c) = h[Len(rs)]
LEMMA ScannedBy ==
  ASSUME Types, EntriesOk, NEW rs \in Seq(Scannable), NEW c \in Counted
  PROVE  \E h : ScansBy(rs, c, h)
<1> DEFINE n == Len(rs)
           first == [affected |-> {}, marked |-> {}, computed |-> c, evict |-> {}]
           G == [i \in 1..n |-> [a \in Accs |-> Scan(a, rs[i])]]
           Rec(f) == f = [i \in 0..n |-> IF i = 0 THEN first ELSE Scan(f[i - 1], rs[i])]
           f == CHOOSE g : Rec(g)
<1>1. n \in Nat /\ \A i \in 1..n : rs[i] \in Scannable
  BY LenProperties, ElementOfSeq
<1>2. first \in Accs
  BY DEF Accs
<1>3. \A i \in 1..n : \A a \in Accs : Scan(a, rs[i]) \in Accs
  BY <1>1, ScanFacts
<1> HIDE DEF n, first
<1>4. G \in [1..n -> [Accs -> Accs]]
  BY <1>3
<1>5. \A i \in 1..n : \A a \in Accs : G[i][a] = Scan(a, rs[i])
  OBVIOUS
<1> HIDE DEF G
<1>6. PICK F \in [0..n -> Accs] : F[0] = first /\ \A i \in 1..n : F[i] = G[i][F[i - 1]]
  <2>1. Solvable(Accs, n, first, G)
    BY <1>1, <1>2, <1>4, RecurrenceSolved
  <2>2. QED
    BY <2>1 DEF Solvable
<1>7. Rec(F)
  <2>1. \A i \in 0..n : F[i] = IF i = 0 THEN first ELSE Scan(F[i - 1], rs[i])
    <3>1. \A i \in 1..n : i - 1 \in 0..n
      BY <1>1
    <3>2. \A i \in 1..n : F[i] = Scan(F[i - 1], rs[i])
      BY <1>5, <1>6, <3>1
    <3>3. \A i \in 0..n : i = 0 \/ i \in 1..n
      BY <1>1
    <3>4. \A i \in 1..n : i # 0
      BY <1>1
    <3>5. QED
      BY <1>6, <3>2, <3>3, <3>4
  <2>2. F = [i \in 0..n |-> F[i]]
    OBVIOUS
  <2>3. QED
    BY <2>1, <2>2
<1>8. Rec(f)
  <2> HIDE DEF Rec
  <2> QED
    BY <1>7
<1>9. Scanned(rs, c) = f[n]
  BY DEF Scanned, n, first
<1> DEFINE h == f
<1>10. Rec(h)
  BY <1>8
<1> HIDE DEF h, f
<1>11. h[0] = first /\ \A i \in 1..n : h[i] = Scan(h[i - 1], rs[i])
  <2>1. 0 \in 0..n /\ \A i \in 1..n : i \in 0..n /\ i # 0
    BY <1>1
  <2>2. QED
    BY <1>10, <2>1
<1> HIDE DEF Rec
<1>12. \A i \in 0..n : h[i] \in Accs
  <2> SUFFICES ASSUME NEW k \in 0..n PROVE h[k] \in Accs
    OBVIOUS
  <2>1. k \in Nat /\ \A i \in 1..k : i \in 1..n
    BY <1>1
  <2>2. \A i \in 1..k : h[i - 1] \in Accs => h[i] \in Accs
    BY <1>3, <1>11, <2>1
  <2>3. QED
    BY <1>2, <1>11, <2>1, <2>2, RecurrenceStays
<1>13. Scanned(rs, c) = h[n]
  BY <1>9 DEF h
<1>14. ScansBy(rs, c, h)
  BY <1>1, <1>11, <1>12, <1>13 DEF ScansBy, n, first
<1>15. QED
  BY <1>14

LEMMA ScannedFacts ==
  ASSUME Types, EntriesOk, NEW rs \in Seq(Scannable), NEW c \in Counted
  PROVE  Scanned(rs, c) \in Accs
<1>1. PICK h : ScansBy(rs, c, h)
  BY ScannedBy
<1>2. Len(rs) \in 0..Len(rs)
  BY LenProperties
<1>3. QED
  BY <1>1, <1>2 DEF ScansBy

(* The two scans of a step's output.                                          *)
LEMMA ScansFacts ==
  ASSUME Types, EntriesOk, RunningOk
  PROVE  AsyncScan \in Accs /\ SyncScan \in Accs
<1> DEFINE S == Scannable
<1>1. \A s \in Seq(Req) : ToSet(s) \subseteq S => s \in Seq(S)
  <2> SUFFICES ASSUME NEW s \in Seq(Req), ToSet(s) \subseteq S PROVE s \in Seq(S)
    OBVIOUS
  <2> HIDE DEF S
  <2>1. Len(s) \in Nat /\ DOMAIN s = 1..Len(s) /\ s \in [1..Len(s) -> Req]
    BY LenProperties
  <2>2. \A i \in 1..Len(s) : s[i] \in S
    BY <2>1 DEF ToSet
  <2>3. s \in [1..Len(s) -> S]
    BY <2>1, <2>2
  <2>4. QED
    BY <2>1, <2>3
<1>2. skipped \in Seq(Req) /\ running \in Seq(Req) /\ computed \in [Req -> Nat]
  BY DEF Types, QueueTypes, RequestTypes
<1> DEFINE remote == {r \in Req : status[r] = "remote"}
           kept == Keep(skipped, remote)
<1>3. kept \in Seq(S)
  <2> HIDE DEF remote
  <2>1. kept \in Seq(Req) /\ ToSet(kept) = ToSet(skipped) \cap remote
    BY <1>2, KeepFacts
  <2>2. remote \subseteq S
    BY DEF remote, Scannable
  <2> HIDE DEF kept, S
  <2>3. QED
    BY <1>1, <2>1, <2>2
<1>4. running \in Seq(S)
  <2>1. \A r \in ToSet(running) : r \in Req /\ status[r] = "running"
    BY <1>2, LenProperties, ElementOfSeq DEF RunningOk, ToSet
  <2>2. ToSet(running) \subseteq S
    BY <2>1 DEF Scannable
  <2> HIDE DEF S
  <2>3. QED
    BY <1>1, <1>2, <2>2
<1>5. computed \in Counted
  <2>1. \A q \in Req : computed[q] <= computed[q]
    BY <1>2
  <2>2. QED
    BY <1>2, <2>1 DEF Counted
<1>6. AsyncScan \in Accs
  <2>1. AsyncScan = Scanned(kept, computed)
    BY DEF AsyncScan
  <2> HIDE DEF kept
  <2>2. QED
    BY <1>3, <1>5, <2>1, ScannedFacts
<1>7. AsyncScan.computed \in Counted
  BY <1>6 DEF Accs
<1>8. SyncScan \in Accs
  <2>1. SyncScan = Scanned(running, AsyncScan.computed)
    BY DEF SyncScan
  <2>2. QED
    BY <1>4, <1>7, <2>1, ScannedFacts
<1>9. QED
  BY <1>6, <1>8

-----------------------------------------------------------------------------
(* What the output of a step makes of each request: those that get their      *)
(* token end, those whose load failed end with an error, those whose load or  *)
(* send is reported go on or go.                                              *)
BecomesGone(r) == status'[r] = "gone" /\ table'[r] = <<>> /\ r \notin finishedRecv'
StaysFinished(r) == status'[r] = "finished" /\ table'[r] = table[r] /\ r \notin finishedRecv'
StaysAs(r) ==
  /\ status'[r] = status[r] /\ table'[r] = table[r]
  /\ r \in finishedRecv' <=> r \in finishedRecv \/ (InOutput(r) /\ status[r] = "remote")
OutputOf(r, send) ==
  /\ r \in Ending => IF r \in send THEN StaysFinished(r) ELSE BecomesGone(r)
  /\ r \in Errors =>
       IF status[r] = "remote" /\ r \notin finishedRecv /\ ~InOutput(r)
       THEN StaysFinished(r) ELSE BecomesGone(r)
  /\ r \notin Ending \union Errors =>
       IF status[r] = "finished" /\ r \in step.kv.received \union step.kv.sent
       THEN BecomesGone(r) ELSE StaysAs(r)

LEMMA EndingFacts ==
  ASSUME KVInv
  PROVE  /\ Ending \subseteq Req /\ Errors \subseteq Req /\ Ending \intersect Errors = {}
         /\ \A r \in Ending : status[r] = "running"
         /\ \A r \in Errors : status[r] \in {"remote", "running"}
         /\ SyncScan.computed \in Counted /\ SyncScan.evict \in SUBSET Block
         /\ AsyncScan.affected \in SUBSET Req
<1>1. AsyncScan \in Accs /\ SyncScan \in Accs
  BY ScansFacts DEF KVInv
<1>2. /\ AsyncScan.affected \in SUBSET Scannable /\ SyncScan.affected \in SUBSET Scannable
      /\ SyncScan.computed \in Counted /\ SyncScan.evict \in SUBSET Block
  BY <1>1 DEF Accs
<1>3. Failed \subseteq Scannable /\ Errors \subseteq Failed
  BY <1>2 DEF Failed, Errors
<1>4. \A r \in Ending : r \in Req /\ r \notin Failed /\ status[r] = "running"
  BY DEF Ending
<1>5. QED
  BY <1>2, <1>3, <1>4 DEF Scannable

LEMMA UpdatedFacts ==
  ASSUME KVInv, NEW send \in SUBSET Ending, Becomes(Updated(send))
  PROVE  /\ status' \in [Req -> Statuses] /\ table' \in [Req -> Seq(Block)]
         /\ finishedRecv' \subseteq Req /\ failedRecv' \subseteq Req /\ prefilling' \subseteq Req
         /\ \A r \in Req : OutputOf(r, send)
<1>1. Types /\ StagesOk /\ step \in Steps /\ step.kv \in Report
  BY StepFields DEF KVInv, Types, EngineTypes
<1>2. /\ Ending \in SUBSET Req /\ Errors \in SUBSET Req /\ Ending \intersect Errors = {}
      /\ \A r \in Ending : status[r] = "running"
      /\ \A r \in Errors : status[r] \in {"remote", "running"}
      /\ AsyncScan.affected \in SUBSET Req
  BY EndingFacts
<1> DEFINE failing == failedRecv \union (IF policy = "fail" THEN {} ELSE AsyncScan.affected)
           s == Requests(failing)
           s1 == Finish(s, Ending, send)
           none == {}
           s2 == Finish(s1, Errors, none)
           kv == step.kv
           t == Completed(s2, kv)
<1>3. Updated(send) = t
  BY DEF Updated
<1>4. s \in RequestRec /\ s.status = status /\ s.table = table /\ s.recv = finishedRecv
  <2>1. failing \subseteq Req
    BY <1>1, <1>2 DEF Types, EngineTypes
  <2> HIDE DEF failing
  <2>2. QED
    BY <1>1, <2>1 DEF Requests, RequestRec, Types, RequestTypes, EngineTypes
<1> HIDE DEF s, kv, none
<1>5. Ended(s, Ending, send, s1)
  BY <1>2, <1>4, FinishFacts
<1> HIDE DEF s1
<1>6. s1 \in RequestRec
  BY <1>5 DEF Ended
<1>7. Ended(s1, Errors, none, s2)
  BY <1>2, <1>6, FinishFacts
<1> HIDE DEF s2
<1>8. s2 \in RequestRec /\ kv \in Report
  BY <1>1, <1>7 DEF Ended, kv
<1>9. Delivered(s2, kv, t)
  BY <1>8, CompletedFacts
<1> HIDE DEF t
<1>10. /\ t \in RequestRec /\ status' = t.status /\ table' = t.table /\ finishedRecv' = t.recv
       /\ failedRecv' = t.failed /\ prefilling' = t.prefilling
  BY <1>3, <1>9 DEF Becomes, Delivered
<1>11. ASSUME NEW r \in Req PROVE OutputOf(r, send)
  <2>1. /\ r \in finishedRecv' <=> r \in s2.recv \/ (r \in kv.received /\ s2.status[r] = "remote")
        /\ Freed(s2, kv, r) => status'[r] = "gone" /\ table'[r] = <<>>
        /\ ~Freed(s2, kv, r) => status'[r] = s2.status[r] /\ table'[r] = s2.table[r]
    BY <1>9, <1>10, <1>11 DEF Delivered
  <2>2. s1.recv = finishedRecv \ Ending /\ s2.recv = (finishedRecv \ Ending) \ Errors
    BY <1>4, <1>5, <1>7 DEF Ended
  <2>3. StageOf(r)
    BY <1>1, <1>11 DEF StagesOk
  <2>4. InOutput(r) <=> r \in kv.received
    BY DEF InOutput, kv
  <2>5. r \in kv.sent => Sent(r)
    BY DEF Sent, kv
  <2>6. CASE r \in Ending
    <3>1. r \notin Errors /\ status[r] = "running"
      BY <1>2, <2>6
    <3>2. s2.status[r] = s1.status[r] /\ s2.table[r] = s1.table[r]
      BY <1>7, <1>11, <3>1 DEF Ended
    <3>3. HeldOn(s, r, send) <=> r \in send
      BY <1>4, <3>1 DEF HeldOn
    <3>4. IF r \in send THEN s1.status[r] = "finished" /\ s1.table[r] = table[r]
          ELSE s1.status[r] = "gone" /\ s1.table[r] = <<>>
      BY <1>4, <1>5, <2>6, <3>3 DEF Ended
    <3>5. r \notin kv.received /\ r \notin kv.sent
      BY <2>3, <2>4, <2>5, <3>1 DEF StageOf
    <3>6. ~Freed(s2, kv, r)
      BY <3>5 DEF Freed
    <3>7. IF r \in send THEN StaysFinished(r) ELSE BecomesGone(r)
      BY <2>1, <2>2, <2>6, <3>2, <3>4, <3>5, <3>6 DEF StaysFinished, BecomesGone
    <3>8. QED
      BY <2>6, <3>1, <3>7 DEF OutputOf
  <2>7. CASE r \in Errors
    <3>1. r \notin Ending /\ status[r] \in {"remote", "running"}
      BY <1>2, <2>7
    <3>2. s1.status[r] = status[r] /\ s1.table[r] = table[r]
      BY <1>4, <1>5, <1>11, <3>1 DEF Ended
    <3>3. HeldOn(s1, r, none) <=> status[r] = "remote" /\ r \notin finishedRecv
      BY <2>2, <3>1, <3>2 DEF HeldOn, none
    <3>4. IF HeldOn(s1, r, none) THEN s2.status[r] = "finished" /\ s2.table[r] = table[r]
          ELSE s2.status[r] = "gone" /\ s2.table[r] = <<>>
      BY <1>7, <2>7, <3>2 DEF Ended
    <3>5. r \notin kv.sent
      BY <2>3, <2>5, <3>1 DEF StageOf
    <3>6. Freed(s2, kv, r) <=> r \in kv.received /\ HeldOn(s1, r, none)
      BY <3>4, <3>5 DEF Freed
    <3>7. IF status[r] = "remote" /\ r \notin finishedRecv /\ ~InOutput(r)
          THEN StaysFinished(r) ELSE BecomesGone(r)
      BY <2>1, <2>2, <2>4, <2>7, <3>3, <3>4, <3>6 DEF StaysFinished, BecomesGone
    <3>8. QED
      BY <2>7, <3>1, <3>7 DEF OutputOf
  <2>8. CASE r \notin Ending \union Errors
    <3>1. s1.status[r] = status[r] /\ s1.table[r] = table[r]
      BY <1>4, <1>5, <1>11, <2>8 DEF Ended
    <3>2. s2.status[r] = status[r] /\ s2.table[r] = table[r]
      BY <1>7, <1>11, <2>8, <3>1 DEF Ended
    <3>3. Freed(s2, kv, r) <=> status[r] = "finished" /\ r \in kv.received \union kv.sent
      BY <3>2 DEF Freed
    <3>4. r \in s2.recv <=> r \in finishedRecv
      BY <2>2, <2>8
    <3>5. status[r] = "finished" => r \notin finishedRecv
      BY <2>3 DEF StageOf
    <3>6. IF status[r] = "finished" /\ r \in kv.received \union kv.sent
          THEN BecomesGone(r) ELSE StaysAs(r)
      BY <2>1, <2>4, <3>2, <3>3, <3>4, <3>5 DEF BecomesGone, StaysAs
    <3>7. QED
      BY <2>8, <3>6 DEF OutputOf, kv
  <2>9. QED
    BY <2>6, <2>7, <2>8
<1>12. QED
  BY <1>10, <1>11 DEF RequestRec

(* The output of a step.                                                      *)
LEMMA UpdateKV == KVInv /\ Update => KVInv'
<1> SUFFICES ASSUME KVInv, Update PROVE KVInv'
  OBVIOUS
<1>1. /\ Types /\ RunningOk /\ StepInOrder /\ EntriesOk /\ ReportLater
      /\ StagesOk /\ RoomOk /\ Alone
  BY DEF KVInv
<1>2. PICK send \in SUBSET Ending : Becomes(Updated(send)) /\ sending' = sending \union send
  BY DEF Update
<1>3. /\ computed' = SyncScan.computed
      /\ cache' = IF policy = "fail" THEN Evicted(cache, SyncScan.evict) ELSE cache
      /\ Removed(Ending \union Errors)
      /\ pc' = "schedule" /\ step' = NewStep
      /\ UNCHANGED <<offer, loading, report>>
  BY DEF Update
<1>4. /\ status' \in [Req -> Statuses] /\ table' \in [Req -> Seq(Block)]
      /\ finishedRecv' \subseteq Req /\ failedRecv' \subseteq Req /\ prefilling' \subseteq Req
      /\ \A r \in Req : OutputOf(r, send)
  BY <1>2, UpdatedFacts
<1>5. /\ Ending \subseteq Req /\ Errors \subseteq Req /\ Ending \intersect Errors = {}
      /\ \A r \in Ending : status[r] = "running"
      /\ \A r \in Errors : status[r] \in {"remote", "running"}
      /\ SyncScan.computed \in Counted /\ SyncScan.evict \in SUBSET Block
  BY EndingFacts
<1>6. computed' \in [Req -> Nat] /\ \A r \in Req : computed'[r] <= computed[r]
  BY <1>3, <1>5 DEF Counted
<1>7. /\ computed \in [Req -> Nat] /\ \A r \in Req : computed[r] <= Len0[r] /\ Len0[r] \in Nat
      /\ table \in [Req -> Seq(Block)] /\ cache \in CacheType
  BY <1>1, KVAssumption DEF Types, RequestTypes, BlockTypes, CacheType
<1>8. /\ skipped' \in Seq(Req) /\ waiting' \in Seq(Req) /\ running' \in Seq(Req)
      /\ IsInjective(running')
      /\ ToSet(running') = ToSet(running) \intersect (Req \ (Ending \union Errors))
      /\ ToSet(running') \subseteq Req
  <2> DEFINE rs == Ending \union Errors
  <2>1. Removed(rs)
    BY <1>3
  <2> HIDE DEF rs
  <2>2. /\ skipped' \in Seq(Req) /\ waiting' \in Seq(Req) /\ running' \in Seq(Req)
        /\ IsInjective(running') /\ ToSet(running') = ToSet(running) \intersect (Req \ rs)
        /\ ToSet(running') \subseteq Req
    BY <1>1, <2>1, RemovedFacts
  <2>3. QED
    BY <2>2 DEF rs
<1>9. /\ cache' \in CacheType /\ Range(cache') \subseteq Range(cache) \union {NoBlock}
  BY <1>3, <1>5, <1>7, EvictedFacts
<1>10. /\ NewStep \in Steps /\ NewStep.entries = <<>>
       /\ NewStep.kv = NoReport /\ NoReport.received = {} /\ NoReport.sent = {}
  <2>1. NoReport \in Report
    BY DEF NoReport, Report
  <2>2. <<>> \in Seq(Planned \union Executed) /\ <<>> \in Seq(Req)
    BY EmptySeq
  <2>3. TokenBudget \in Nat
    BY KVAssumption
  <2>4. QED
    BY <2>1, <2>2, <2>3 DEF NewStep, Steps, NoReport
<1>11. Types'
  <2>1. \A r \in Req : computed'[r] <= Len0[r]
    <3> SUFFICES ASSUME NEW r \in Req PROVE computed'[r] <= Len0[r]
      OBVIOUS
    <3>1. computed'[r] \in Nat /\ computed[r] \in Nat /\ Len0[r] \in Nat
          /\ computed'[r] <= computed[r] /\ computed[r] <= Len0[r]
      BY <1>6, <1>7
    <3>2. QED
      BY <3>1
  <2>2. sending' \subseteq Req
    BY <1>1, <1>2, <1>5 DEF Types, EngineTypes
  <2>3. QED
    BY <1>1, <1>3, <1>4, <1>6, <1>8, <1>9, <1>10, <2>1, <2>2
    DEF Types, RequestTypes, QueueTypes, BlockTypes, EngineTypes, CacheType
<1>12. EntriesOk' /\ StepInOrder' /\ ReportLater'
  <2>1. DOMAIN step'.entries = {} /\ step'.kv = NoReport
    BY <1>3, <1>10
  <2>2. InStep' = {}
    BY <2>1 DEF InStep
  <2>3. QED
    BY <2>1, <2>2 DEF EntriesOk, StepInOrder, ReportLater
<1>13. RunningOk'
  <2>1. SUFFICES ASSUME NEW r \in ToSet(running') PROVE status'[r] = "running"
    BY DEF RunningOk
  <2>2. r \in Req /\ r \notin Ending \union Errors /\ status[r] = "running"
    BY <1>1, <1>8, <2>1 DEF RunningOk
  <2>3. StaysAs(r)
    BY <1>4, <2>2 DEF OutputOf
  <2>4. QED
    BY <2>2, <2>3 DEF StaysAs
<1>14. StagesOk'
  <2>1. SUFFICES ASSUME NEW r \in Req PROVE StageOf(r)'
    BY DEF StagesOk
  <2>2. StageOf(r) /\ OutputOf(r, send)
    BY <1>1, <1>4, <2>1 DEF StagesOk
  <2>3. /\ Loading(r)' <=> Loading(r)
        /\ Reported(r)' <=> Reported(r)
        /\ ~InOutput(r)'
        /\ Sent(r)' <=> r \in sending \union send \/ r \in report.sent
        /\ r \in sending' <=> r \in sending \/ r \in send
        /\ report' = report /\ r \notin step'.kv.sent
    BY <1>2, <1>3, <1>10 DEF Loading, Reported, InOutput, Sent
  <2>4. CASE r \in Ending
    <3>1. status[r] = "running"
      BY <1>5, <2>4
    <3>2. ~Loading(r) /\ ~Reported(r) /\ ~InOutput(r) /\ ~Sent(r)
      BY <2>2, <3>1 DEF StageOf
    <3>3. CASE r \in send
      BY <2>2, <2>3, <2>4, <3>2, <3>3 DEF StageOf, OutputOf, StaysFinished, Sent
    <3>4. CASE r \notin send
      BY <2>2, <2>3, <2>4, <3>2, <3>4 DEF StageOf, OutputOf, BecomesGone, Sent
    <3>5. QED
      BY <3>3, <3>4
  <2>5. CASE r \in Errors
    <3>1. r \notin send /\ status[r] \in {"remote", "running"}
      BY <1>5, <2>5
    <3>2. ~Sent(r)
      BY <2>2, <3>1 DEF StageOf
    <3>3. CASE status[r] = "remote" /\ r \notin finishedRecv /\ ~InOutput(r)
      <4>1. StaysFinished(r)
        BY <2>2, <2>5, <3>3 DEF OutputOf
      <4>2. Loading(r) \/ Reported(r)
        BY <2>2, <3>3 DEF StageOf
      <4>3. QED
        BY <2>2, <2>3, <3>1, <3>2, <4>1, <4>2 DEF StageOf, StaysFinished, Sent
    <3>4. CASE ~(status[r] = "remote" /\ r \notin finishedRecv /\ ~InOutput(r))
      <4>1. BecomesGone(r)
        BY <2>2, <2>5, <3>4 DEF OutputOf
      <4>2. ~Loading(r) /\ ~Reported(r)
        BY <2>2, <3>1, <3>4 DEF StageOf
      <4>3. QED
        BY <2>3, <3>1, <3>2, <4>1, <4>2 DEF StageOf, BecomesGone, Sent
    <3>5. QED
      BY <3>3, <3>4
  <2>6. CASE r \notin Ending \union Errors
    <3>1. r \notin send
      BY <2>6
    <3>2. CASE status[r] = "finished" /\ r \in step.kv.received \union step.kv.sent
      <4>1. BecomesGone(r)
        BY <2>2, <2>6, <3>2 DEF OutputOf
      <4>2. InOutput(r) \/ r \in step.kv.sent
        BY <3>2 DEF InOutput
      <4>3. ~Loading(r) /\ ~Reported(r) /\ r \notin sending /\ r \notin report.sent
        BY <2>2, <4>2 DEF StageOf, Sent
      <4>4. QED
        BY <2>3, <3>1, <4>1, <4>3 DEF StageOf, BecomesGone
    <3>3. CASE ~(status[r] = "finished" /\ r \in step.kv.received \union step.kv.sent)
      <4>1. StaysAs(r)
        BY <2>2, <2>6, <3>3 DEF OutputOf
      <4>2. status[r] = "finished" => ~InOutput(r) /\ r \notin step.kv.sent
        BY <3>3 DEF InOutput
      <4>3. QED
        BY <2>2, <2>3, <3>1, <4>1, <4>2 DEF StageOf, StaysAs, Sent
    <3>4. QED
      BY <3>2, <3>3
  <2>7. QED
    BY <2>4, <2>5, <2>6
<1>15. RoomOk'
  <2>1. SUFFICES ASSUME NEW r \in Req, status'[r] = "remote"
                 PROVE  Blocks(computed'[r]) <= Len(table'[r])
    BY DEF RoomOk
  <2>2. StaysAs(r)
    BY <1>4, <2>1 DEF OutputOf, StaysFinished, BecomesGone
  <2>3. status[r] = "remote" /\ table'[r] = table[r]
    BY <2>1, <2>2 DEF StaysAs
  <2>4. Blocks(computed[r]) <= Len(table[r])
    BY <1>1, <2>1, <2>3 DEF RoomOk
  <2>5. /\ computed'[r] \in Nat /\ computed[r] \in Nat /\ computed'[r] <= computed[r]
        /\ table[r] \in Seq(Block)
    BY <1>6, <1>7, <2>1
  <2>6. /\ Blocks(computed'[r]) <= Blocks(computed[r])
        /\ Blocks(computed'[r]) \in Nat /\ Blocks(computed[r]) \in Nat
    BY <2>5, BlocksFacts
  <2>7. Len(table[r]) \in Nat
    BY <2>5, LenProperties
  <2>8. QED
    BY <2>3, <2>4, <2>6, <2>7
<1>16. Alone'
  <2>1. \A r \in Req : loading'[r] # {} => table'[r] = table[r]
    <3> SUFFICES ASSUME NEW r \in Req, loading[r] # {} PROVE table'[r] = table[r]
      BY <1>3
    <3>1. StageOf(r) /\ OutputOf(r, send)
      BY <1>1, <1>4 DEF StagesOk
    <3>2. /\ status[r] \in {"remote", "finished"} /\ r \notin finishedRecv
          /\ ~InOutput(r) /\ r \notin step.kv.sent
      BY <3>1 DEF StageOf, Loading, Sent
    <3>3. r \notin Ending
      BY <1>5, <3>2
    <3>4. r \in Errors => StaysFinished(r)
      BY <1>5, <3>1, <3>2 DEF OutputOf
    <3>5. r \notin Errors => StaysAs(r)
      BY <3>1, <3>2, <3>3 DEF OutputOf, InOutput
    <3>6. QED
      BY <3>4, <3>5 DEF StaysFinished, StaysAs
  <2>2. \A r \in Req : ToSet(table'[r]) \subseteq ToSet(table[r])
    <3>1. \A r \in Req : table'[r] = table[r] \/ table'[r] = <<>>
      BY <1>4 DEF OutputOf, StaysFinished, BecomesGone, StaysAs
    <3>2. ToSet(<<>>) = {}
      BY DEF ToSet
    <3>3. QED
      BY <3>1, <3>2
  <2>3. QED
    BY <1>1, <1>3, <1>9, <2>1, <2>2, LoadsUndisturbed
<1>17. QED
  BY <1>11, <1>12, <1>13, <1>14, <1>15, <1>16 DEF KVInv

-----------------------------------------------------------------------------
LEMMA InitKV == Init => KVInv
<1> SUFFICES ASSUME Init PROVE KVInv
  OBVIOUS
<1>1. /\ offer \in [Req -> Offers]
      /\ status = [r \in Req |-> "new"] /\ computed = [r \in Req |-> 0]
      /\ table = [r \in Req |-> <<>>] /\ cache = [i \in Index |-> NoBlock]
      /\ loading = [r \in Req |-> {}]
      /\ skipped = <<>> /\ waiting = <<>> /\ running = <<>>
      /\ prefilling = {} /\ sending = {} /\ finishedRecv = {} /\ failedRecv = {}
      /\ report = NoReport /\ pc = "schedule" /\ step = NewStep
  BY DEF Init
<1>2. /\ NewStep \in Steps /\ NewStep.entries = <<>> /\ NoReport \in Report
      /\ NewStep.kv = NoReport /\ NoReport.received = {} /\ NoReport.sent = {}
  <2>1. NoReport \in Report
    BY DEF NoReport, Report
  <2>2. <<>> \in Seq(Planned \union Executed) /\ <<>> \in Seq(Req)
    BY EmptySeq
  <2>3. TokenBudget \in Nat
    BY KVAssumption
  <2>4. QED
    BY <2>1, <2>2, <2>3 DEF NewStep, Steps, NoReport
<1>3. <<>> \in Seq(Req) /\ <<>> \in Seq(Block) /\ DOMAIN <<>> = {}
  BY EmptySeq
<1>4. \A r \in Req : Len0[r] \in Nat /\ 0 <= Len0[r]
  BY KVAssumption
<1>5. Types
  <2>1. RequestTypes
    <3>1. status \in [Req -> Statuses]
      BY <1>1 DEF Statuses
    <3>2. computed \in [Req -> Nat] /\ \A r \in Req : computed[r] <= Len0[r]
      BY <1>1, <1>4
    <3>3. table \in [Req -> Seq(Block)]
      BY <1>1, <1>3
    <3>4. QED
      BY <1>1, <3>1, <3>2, <3>3 DEF RequestTypes
  <2>2. QueueTypes
    BY <1>1, <1>3 DEF QueueTypes, IsInjective
  <2>3. BlockTypes
    BY <1>1 DEF BlockTypes
  <2>4. EngineTypes
    BY <1>1, <1>2 DEF EngineTypes
  <2>5. QED
    BY <2>1, <2>2, <2>3, <2>4 DEF Types
<1>6. RunningOk /\ StepInOrder /\ EntriesOk /\ ReportLater
  BY <1>1, <1>2, <1>3 DEF RunningOk, StepInOrder, EntriesOk, ReportLater, ToSet
<1>7. StagesOk /\ RoomOk /\ Alone
  <2>1. ASSUME NEW r \in Req PROVE StageOf(r)
    BY <1>1, <1>2, <2>1 DEF StageOf, Loading, Reported, InOutput, Sent
  <2>2. RoomOk /\ Alone
    BY <1>1 DEF RoomOk, Alone
  <2>3. QED
    BY <2>1, <2>2 DEF StagesOk
<1>8. QED
  BY <1>5, <1>6, <1>7 DEF KVInv

LEMMA StutterKV == KVInv /\ UNCHANGED vars => KVInv'
BY DEF KVInv, Types, RequestTypes, QueueTypes, BlockTypes, EngineTypes, RunningOk, StepInOrder,
       InStep, EntriesOk, ReportLater, StagesOk, StageOf, Loading, Reported, InOutput, Sent, RoomOk,
       Alone, vars

LEMMA NextKV == KVInv /\ [Next]_vars => KVInv'
<1> SUFFICES ASSUME KVInv, [Next]_vars PROVE KVInv'
  OBVIOUS
<1>1. CASE EngineLoop
  BY <1>1, ScheduleRunningKV, PreemptForRoomKV, PassLoadingKV, PromoteKV, AdmitLoadKV, AdmitRunKV,
     NoRoomKV, DispatchKV, ExecuteKV, UpdateKV DEF EngineLoop
<1>2. ASSUME NEW r \in Req, LoadFails(r) \/ LoadEnds(r) \/ SendEnds(r) PROVE KVInv'
  BY <1>2, LoadFailsKV, LoadEndsKV, SendEndsKV
<1>3. ASSUME NEW r \in Req, AddRequest(r) \/ AbortRequest(r) PROVE KVInv'
  BY <1>3, AddRequestKV, AbortRequestKV
<1>4. CASE UNCHANGED vars
  BY <1>4, StutterKV
<1>5. QED
  BY <1>1, <1>2, <1>3, <1>4 DEF Next

(* The inductive invariant: the stages of loads and sends, and that the       *)
(* blocks of a load are its request's alone, whatever is scheduled,           *)
(* preempted, aborted or fails while it goes on.                              *)
THEOREM KVInvariant == Spec => []KVInv
<1>1. Init => KVInv
  BY InitKV
<1>2. KVInv /\ [Next]_vars => KVInv'
  BY NextKV
<1>3. QED
  BY <1>1, <1>2, PTL DEF Spec

LEMMA TargetsFromStages == KVInv => LoadTargetsHeld
<1> SUFFICES ASSUME KVInv, NEW r \in Req
             PROVE /\ loading[r] \subseteq ToSet(table[r])
                   /\ loading[r] \intersect
                        (Range(cache) \union UNION {ToSet(table[q]) : q \in Req \ {r}}) = {}
                   /\ status[r] = "finished" =>
                        \/ loading[r] # {} \/ r \in sending
                        \/ r \in report.received \union report.sent
                        \/ r \in step.kv.received \union step.kv.sent
  BY DEF LoadTargetsHeld
<1>1. \A b \in loading[r] : /\ b \in ToSet(table[r]) /\ b \notin Range(cache)
                            /\ \A q \in Req \ {r} : b \notin ToSet(table[q])
  BY DEF KVInv, Alone
<1>2. StageOf(r)
  BY DEF KVInv, StagesOk
<1>3. QED
  BY <1>1, <1>2 DEF StageOf, Loading, Reported, InOutput, Sent

(* Blocks that a load under way writes are held for its request alone and are *)
(* in no cache, also after an abort; finished requests hold blocks only while *)
(* a load, a send or the report of its end is to come (_free_request,         *)
(* _update_from_kv_xfer_finished).                                            *)
THEOREM LoadTargetsAlwaysHeld == Spec => []LoadTargetsHeld
<1>1. KVInv => LoadTargetsHeld
  BY TargetsFromStages
<1>2. QED
  BY <1>1, KVInvariant, PTL

-----------------------------------------------------------------------------
(***************************************************************************)
(* What the blocks hold, when every offer of the connector is asynchronous. *)
(***************************************************************************)
AsyncLoads == \A o \in Offers : o.kind = "async"

(* Block b lies at index i of a table, of the cache, or of the table an      *)
(* entry of the step in flight was given; a block has one index everywhere.  *)
PosOf(p) == p \div BlockSize
Holds(tab, b, i) == i + 1 \in DOMAIN tab /\ tab[i + 1] = b
InCache(b, i) == i \in Index /\ cache[i] = b
InEntry(b, i) == pc = "flight" /\ \E k \in DOMAIN step.entries : Holds(step.entries[k].tab, b, i)
Here(b, i) == (\E r \in Req : Holds(table[r], b, i)) \/ InCache(b, i) \/ InEntry(b, i)
Placed == \A b \in Block : \A i, j \in Nat : Here(b, i) /\ Here(b, j) => i = j

(* A position is promised if it is in the block, or if the step writes it.   *)
Writes(e, b, p) == p \in e.from..(e.from + e.n - 1) /\ Holds(e.tab, b, PosOf(p))
InData(b, p) == p \in data[b]
InWork(b, p) == pc # "output" /\ \E k \in DOMAIN step.entries : Writes(step.entries[k], b, p)
Promised(b, p) == InData(b, p) \/ InWork(b, p)

Begun(r) == Loading(r) \/ Reported(r) \/ InOutput(r)
Arrives(r, b) == b \in loading[r] \ lost[r]
FailureKnown(b) == b \in report.invalid \union step.kv.invalid
Contexted == {"new", "waiting", "preempted", "running"}

DataTypes == data \in [Block -> SUBSET Nat] /\ lost \in [Req -> SUBSET Block]
CachePromised == \A b \in Block, p \in Nat : InCache(b, PosOf(p)) => Promised(b, p)
ContextOf(r) ==
  \A b \in Block, p \in Nat : p < computed[r] /\ Holds(table[r], b, PosOf(p)) => Promised(b, p)
ContextPromised == \A r \in Req : status[r] \in Contexted => ContextOf(r)
LoadOf(r) ==
  \A b \in Block, p \in Nat : p < computed[r] /\ Holds(table[r], b, PosOf(p)) =>
    Promised(b, p) \/ Arrives(r, b) \/ FailureKnown(b)
LoadPromised == \A r \in Req : status[r] = "remote" => LoadOf(r)
RoomKept == \A r \in Req : status[r] \in Contexted => Blocks(computed[r]) <= Len(table[r])

(* The entries of a step: while it is scheduled they have the tables of      *)
(* their requests, what each computes from is in the blocks or written by an *)
(* earlier one, and no load writes their blocks.                             *)
EntryTable(k) ==
  LET e == step.entries[k] IN e.tab = table[e.req] /\ status[e.req] = "running"
StepTables == pc = "schedule" => \A k \in DOMAIN step.entries : EntryTable(k)
Earlier(k, b, p) == \E j \in 1..(k - 1) : Writes(step.entries[j], b, p)
EntryPromised(k) ==
  LET e == step.entries[k] IN
    /\ e \in Planned /\ e.sync = {} /\ Blocks(e.from + e.n) <= Len(e.tab)
    /\ \A b \in Block, p \in Nat : p < e.from /\ Holds(e.tab, b, PosOf(p)) =>
         InData(b, p) \/ Earlier(k, b, p)
StepPromised == pc # "output" => \A k \in DOMAIN step.entries : EntryPromised(k)
StepApart ==
  pc = "flight" => \A k \in DOMAIN step.entries, r \in Req :
                     \A b \in loading[r] : b \notin ToSet(step.entries[k].tab)
StepGood == pc = "output" => \A k \in DOMAIN step.entries : step.entries[k].good

(* A block whose failure is still to be scanned for is of a load that is not *)
(* over for the scheduler, and its request's alone.                          *)
LostKnown ==
  /\ \A b \in report.invalid : \E q \in Req : (Loading(q) \/ Reported(q)) /\ b \in lost[q]
  /\ \A b \in step.kv.invalid : \E q \in Req : Begun(q) /\ b \in lost[q]
LostAlone ==
  \A r \in Req : Begun(r) => \A b \in lost[r] :
    /\ b \notin Range(cache) /\ b \in ToSet(table[r])
    /\ \A q \in Req \ {r} : b \notin ToSet(table[q])

DataInv ==
  /\ DataTypes /\ Placed /\ CachePromised /\ ContextPromised /\ LoadPromised /\ RoomKept
  /\ StepTables /\ StepPromised /\ StepApart /\ StepGood /\ LostKnown /\ LostAlone

-----------------------------------------------------------------------------
(* Positions and the blocks they lie in.                                     *)
LEMMA PosFacts ==
  ASSUME NEW p \in Nat
  PROVE  /\ PosOf(p) \in Nat
         /\ \A t \in Nat : p < t => PosOf(p) < Blocks(t)
         /\ \A t \in Nat : PosOf(p) < t \div BlockSize => p < t
         /\ \A i \in Nat : p \in Positions(i) <=> PosOf(p) = i
<1>1. BlockSize \in Nat \ {0}
  BY KVAssumption
<1> DEFINE n == BlockSize
           h == PosOf(p)
           m == p % n
<1>2. h \in Nat /\ m \in 0 .. n - 1 /\ p = n * h + m
  BY <1>1, DivMod DEF PosOf
<1>3. n \in Nat \ {0} /\ n * h \in Nat /\ n * h = h * n
  BY <1>1, <1>2
<1>4. ASSUME NEW t \in Nat, p < t PROVE h < Blocks(t)
  <2> DEFINE x == h * n
  <2>1. x \in Nat /\ x <= p
    <3> DEFINE y == n * h
    <3>1. y \in Nat /\ x = y /\ p = y + m
      BY <1>2, <1>3
    <3> HIDE DEF x, y, h, m, n
    <3>2. QED
      BY <1>2, <1>3, <3>1
  <2> HIDE DEF x
  <2>2. x < t
    BY <1>4, <2>1
  <2>3. h * BlockSize < t
    BY <2>2 DEF x
  <2> HIDE DEF h
  <2>4. QED
    BY <1>2, <1>4, <2>3, BlocksBeyond
<1>5. ASSUME NEW t \in Nat, h < t \div n PROVE p < t
  <2>1. SUFFICES ASSUME t <= p PROVE FALSE
    BY <1>5
  <2>2. t \div n <= p \div n /\ t \div n \in Nat
    BY <1>1, <2>1, DivMono, DivMod
  <2>3. QED
    BY <1>2, <1>5, <2>2 DEF PosOf
<1>6. ASSUME NEW i \in Nat PROVE p \in Positions(i) <=> h = i
  <2>1. Positions(i) = (i * n)..(i * n + n - 1)
    BY DEF Positions
  <2>2. ASSUME h = i PROVE p \in Positions(i)
    <3> DEFINE x == i * n
    <3>1. x = n * h
      BY <1>3, <2>2
    <3>2. x \in Nat /\ p = x + m
      BY <1>2, <1>3, <3>1
    <3> HIDE DEF x, h, m, n
    <3>3. p \in x..(x + n - 1)
      BY <1>2, <1>3, <3>2
    <3>4. QED
      BY <2>1, <3>3 DEF x
  <2>3. ASSUME p \in Positions(i) PROVE h = i
    <3> DEFINE x == n * i
               d == p - x
    <3>1. x \in Nat /\ i * n = x
      BY <1>1
    <3>2. p \in x..(x + n - 1)
      BY <2>1, <2>3, <3>1
    <3>3. d \in 0 .. n - 1 /\ p = x + d
      <4> HIDE DEF x, n
      <4> QED
        BY <1>3, <3>1, <3>2
    <3> HIDE DEF d
    <3>4. p = n * i + d
      BY <3>3
    <3> HIDE DEF n, h
    <3>5. p \div n = i
      BY <1>3, <3>3, <3>4, DivUnique
    <3>6. QED
      BY <3>5 DEF h, PosOf, n
  <2>4. QED
    BY <2>2, <2>3
<1>7. QED
  BY <1>2, <1>4, <1>5, <1>6

(* The slots of a table.                                                      *)
LEMMA HoldsFacts ==
  ASSUME NEW tab \in Seq(Block), NEW i \in Nat
  PROVE  /\ \A b : Holds(tab, b, i) => b \in ToSet(tab) /\ b \in Block /\ i < Len(tab)
         /\ i < Len(tab) => Holds(tab, tab[i + 1], i) /\ tab[i + 1] \in Block
<1>1. Len(tab) \in Nat /\ DOMAIN tab = 1..Len(tab) /\ \A j \in 1..Len(tab) : tab[j] \in Block
  BY LenProperties, ElementOfSeq
<1>2. i < Len(tab) <=> i + 1 \in 1..Len(tab)
  BY <1>1
<1>3. QED
  BY <1>1, <1>2 DEF Holds, ToSet

LEMMA NothingHolds == \A b, i : ~Holds(<<>>, b, i)
BY DEF Holds

(* The slots of a table that new blocks were added to.                       *)
LEMMA HoldsMore ==
  ASSUME NEW base \in Seq(Block), NEW s \in Seq(Block), NEW i \in Nat, NEW b
  PROVE  /\ Holds(base, b, i) => Holds(base \o s, b, i)
         /\ Holds(base \o s, b, i) =>
              \/ Holds(base, b, i)
              \/ i >= Len(base) /\ i - Len(base) \in Nat /\ Holds(s, b, i - Len(base))
<1>1. /\ Len(base) \in Nat /\ Len(s) \in Nat
      /\ DOMAIN base = 1..Len(base) /\ DOMAIN s = 1..Len(s)
  BY LenProperties
<1> DEFINE u == base \o s
<1>2. /\ Len(u) = Len(base) + Len(s) /\ u \in Seq(Block)
      /\ \A j \in 1..(Len(base) + Len(s)) :
           u[j] = IF j <= Len(base) THEN base[j] ELSE s[j - Len(base)]
  BY ConcatProperties
<1>3. DOMAIN u = 1..(Len(base) + Len(s))
  BY <1>2, LenProperties
<1> HIDE DEF u
<1> DEFINE n == Len(base)
           m == Len(s)
<1>4. n \in Nat /\ m \in Nat
  BY <1>1
<1>5. i + 1 \in 1..n => i + 1 \in 1..(n + m) /\ i + 1 <= n
  BY <1>4
<1>6. i + 1 \in 1..(n + m) /\ ~(i + 1 <= n) =>
        i >= n /\ i - n \in Nat /\ (i + 1) - n = (i - n) + 1 /\ (i - n) + 1 \in 1..m
  BY <1>4
<1>7. i + 1 \in 1..(n + m) /\ i + 1 <= n => i + 1 \in 1..n
  BY <1>4
<1>8. ASSUME Holds(base, b, i) PROVE Holds(u, b, i)
  <2>1. i + 1 \in 1..n /\ base[i + 1] = b
    BY <1>1, <1>8 DEF Holds
  <2>2. u[i + 1] = base[i + 1]
    BY <1>2, <1>5, <2>1
  <2>3. QED
    BY <1>3, <1>5, <2>1, <2>2 DEF Holds
<1>9. ASSUME Holds(u, b, i)
      PROVE  Holds(base, b, i) \/ (i >= n /\ i - n \in Nat /\ Holds(s, b, i - n))
  <2>1. i + 1 \in 1..(n + m) /\ u[i + 1] = b
    BY <1>3, <1>9 DEF Holds
  <2>2. CASE i + 1 <= n
    <3>1. u[i + 1] = base[i + 1]
      BY <1>2, <2>1, <2>2
    <3>2. QED
      BY <1>1, <1>7, <2>1, <2>2, <3>1 DEF Holds
  <2>3. CASE ~(i + 1 <= n)
    <3>1. u[i + 1] = s[(i + 1) - n]
      BY <1>2, <2>1, <2>3
    <3>2. s[(i - n) + 1] = b
      BY <1>6, <2>1, <2>3, <3>1
    <3>3. QED
      BY <1>1, <1>6, <2>1, <2>3, <3>2 DEF Holds
  <2>4. QED
    BY <2>2, <2>3
<1>10. QED
  BY <1>8, <1>9 DEF u

(* Where the blocks of a cache stand.                                        *)
LEMMA RangeFacts ==
  ASSUME NEW c \in CacheType, NEW b
  PROVE  b \in Range(c) <=> \E i \in Index : c[i] = b
BY DEF Range, CacheType

(* A block of the cached prefix stands in the cache at its index.             *)
LEMMA HitHolds ==
  ASSUME Types, NEW r \in Req, NEW b, NEW i \in Nat, Holds(HitBlocks(LocalHit(r)), b, i)
  PROVE  InCache(b, i)
<1> DEFINE h == LocalHit(r)
           s == HitBlocks(h)
<1>1. h \in Nat /\ h * BlockSize \in 0..(Len0[r] - 1) /\ Len0[r] \in Nat \ {0}
      /\ BlockSize \in Nat \ {0}
  BY LocalHitFacts, KVAssumption
<1>2. DOMAIN s = 1..h /\ \A j \in 1..h : s[j] = cache[j - 1]
  BY DEF HitBlocks
<1>3. i + 1 \in 1..h /\ s[i + 1] = b
  <2>1. i + 1 \in DOMAIN s /\ s[i + 1] = b
    BY DEF Holds
  <2> HIDE DEF s
  <2>2. QED
    BY <1>2, <2>1
<1> HIDE DEF s
<1>4. h < Blocks(Len0[r])
  <2> DEFINE x == h * BlockSize
  <2>1. x < Len0[r]
    <3>1. x \in 0..(Len0[r] - 1)
      BY <1>1
    <3> HIDE DEF x
    <3>2. QED
      BY <1>1, <3>1
  <2>2. h * BlockSize < Len0[r]
    BY <2>1
  <2> HIDE DEF h, x
  <2>3. QED
    BY <1>1, <2>2, BlocksBeyond
<1> HIDE DEF h
<1>5. cache[(i + 1) - 1] = b /\ (i + 1) - 1 = i /\ i < h
  BY <1>1, <1>2, <1>3
<1>6. i < Blocks(Len0[r])
  <2>1. Blocks(Len0[r]) \in Nat
    BY <1>1, BlocksFacts
  <2>2. QED
    BY <1>1, <1>4, <1>5, <2>1
<1>7. i \in Index
  BY <1>6, IndexFacts
<1>8. QED
  BY <1>5, <1>7 DEF InCache

(* The blocks of h full blocks of tokens.                                     *)
LEMMA FullBlocks ==
  ASSUME NEW h \in Nat
  PROVE  h * BlockSize \in Nat /\ Blocks(h * BlockSize) = h
<1>1. BlockSize \in Nat \ {0}
  BY KVAssumption
<1> DEFINE n == BlockSize
           x == n * h
           m == n - 1
<1>2. x \in Nat /\ h * BlockSize = x /\ m \in 0 .. n - 1 /\ n \in Nat \ {0}
  BY <1>1
<1>3. Blocks(x) = (x + n - 1) \div n
  BY DEF Blocks, CDiv
<1>4. x + n - 1 = n * h + m
  <2>1. x = n * h /\ m = n - 1 /\ n \in Nat
    BY <1>2
  <2> DEFINE y == n * h
  <2>2. x = y /\ y \in Nat
    BY <1>2
  <2> HIDE DEF x, n, m, y
  <2>3. x + n - 1 = y + m
    BY <2>1, <2>2
  <2>4. QED
    BY <2>3 DEF y
<1>5. x + n - 1 \in Nat
  <2> HIDE DEF x
  <2> QED
    BY <1>2
<1> HIDE DEF x, m, n
<1>6. (x + n - 1) \div n = h
  BY <1>2, <1>4, <1>5, DivUnique
<1>7. QED
  BY <1>2, <1>3, <1>6

(* The blocks a request is admitted with hold what they are taken for: they   *)
(* have their place, and the KV of the first t tokens is in them.             *)
Sound(base, t) ==
  /\ \A b \in Block, i \in Nat : Holds(base, b, i) => Here(b, i)
  /\ \A b \in Block, p \in Nat : p < t /\ Holds(base, b, PosOf(p)) => Promised(b, p)
  /\ Blocks(t) <= Len(base)

LEMMA HitSound ==
  ASSUME KVInv, DataInv, NEW r \in Req
  PROVE  /\ Sound(HitBlocks(LocalHit(r)), LocalHit(r) * BlockSize)
         /\ Len(HitBlocks(LocalHit(r))) = LocalHit(r) /\ LocalHit(r) \in Nat
         /\ Blocks(LocalHit(r) * BlockSize) = LocalHit(r)
<1> DEFINE h == LocalHit(r)
           s == HitBlocks(h)
<1>1. Types /\ CachePromised
  BY DEF KVInv, DataInv
<1>2. h \in Nat /\ Len(s) = h /\ Blocks(h * BlockSize) = h
  <2>1. h \in Nat /\ Len(s) = h
    BY <1>1, LocalHitFacts
  <2> HIDE DEF h, s
  <2>2. QED
    BY <2>1, FullBlocks
<1>3. \A b \in Block, i \in Nat : Holds(s, b, i) => InCache(b, i)
  BY <1>1, HitHolds
<1> HIDE DEF s, h
<1>4. \A b \in Block, i \in Nat : Holds(s, b, i) => Here(b, i)
  BY <1>3 DEF Here
<1>5. ASSUME NEW b \in Block, NEW p \in Nat, Holds(s, b, PosOf(p)) PROVE Promised(b, p)
  <2>1. PosOf(p) \in Nat
    BY PosFacts
  <2>2. InCache(b, PosOf(p))
    BY <1>3, <1>5, <2>1
  <2>3. QED
    BY <1>1, <2>2 DEF CachePromised
<1>6. Blocks(h * BlockSize) <= Len(s)
  BY <1>2
<1>7. Sound(s, h * BlockSize)
  BY <1>4, <1>5, <1>6 DEF Sound
<1>8. QED
  BY <1>2, <1>7 DEF s, h

(* A request's own table, when none of its KV is still to come.               *)
LEMMA OwnSound ==
  ASSUME KVInv, DataInv, NEW r \in Req, status[r] \in Contexted
  PROVE  Sound(table[r], computed[r])
<1>1. ContextOf(r) /\ Blocks(computed[r]) <= Len(table[r])
  BY DEF DataInv, ContextPromised, RoomKept
<1>2. QED
  BY <1>1 DEF Sound, ContextOf, Here

(* The start of a request that runs, and of one that loads.                   *)
LEMMA RunStart ==
  ASSUME AsyncLoads, KVInv, DataInv, NEW r \in Req, Ready(r), ~Async(r)
  PROVE  Sound(Base(r), Start(r)) /\ External(r) = 0
<1>1. Types
  BY DEF KVInv
<1>2. External(r) = 0
  <2>1. offer[r].kind = "async"
    BY <1>1 DEF Types, RequestTypes, AsyncLoads
  <2>2. ~(External(r) > 0) /\ External(r) \in Nat
    BY <1>1, <2>1, StartFacts DEF Async
  <2> HIDE DEF External
  <2>3. QED
    BY <2>2
<1>3. CASE computed[r] = 0
  <2>1. Base(r) = HitBlocks(LocalHit(r)) /\ Start(r) = LocalHit(r) * BlockSize + 0
    BY <1>2, <1>3 DEF Base, Start, Local
  <2>2. LocalHit(r) * BlockSize \in Nat
    <3>1. LocalHit(r) \in Nat
      BY <1>1, LocalHitFacts
    <3>2. QED
      BY <3>1, FullBlocks
  <2>3. Start(r) = LocalHit(r) * BlockSize
    BY <2>1, <2>2
  <2>4. QED
    BY <1>2, <2>1, <2>3, HitSound
<1>4. CASE computed[r] # 0
  <2>1. Base(r) = table[r] /\ Start(r) = computed[r]
    BY <1>4 DEF Base, Start
  <2>2. status[r] \in Contexted
    BY DEF Ready, Contexted
  <2>3. QED
    BY <1>2, <2>1, <2>2, OwnSound
<1>5. QED
  BY <1>3, <1>4

LEMMA LoadStart ==
  ASSUME KVInv, DataInv, NEW r \in Req, Async(r)
  PROVE  /\ Sound(Base(r), Local(r)) /\ Local(r) = Len(Base(r)) * BlockSize
         /\ Blocks(Local(r)) = Len(Base(r)) /\ Len(Base(r)) \in Nat
<1>1. /\ Local(r) = LocalHit(r) * BlockSize /\ Base(r) = HitBlocks(LocalHit(r))
  <2>1. Types /\ External(r) > 0
    BY DEF KVInv, Async
  <2>2. QED
    BY <2>1, StartFacts
<1>2. QED
  BY <1>1, HitSound

-----------------------------------------------------------------------------
(* allocate_slots for request r: its table becomes `base` and new blocks s,   *)
(* which are free, lose what was in them and leave the cache; the step in     *)
(* the making keeps its entries, and the other requests are not touched.      *)
GrowsTable(r, base, s) ==
  /\ status[r] \in {"running", "waiting", "preempted"} /\ r \notin InStep
  /\ base \in Seq(Block) /\ s \in Seq(Block) /\ IsInjective(s)
  /\ ToSet(s) \subseteq Free /\ ToSet(s) \intersect ToSet(base) = {}
  /\ ToSet(base) \subseteq Range(cache) \union ToSet(table[r])
  /\ \A b \in Block, i \in Nat : Holds(base, b, i) => Here(b, i)
  /\ table' = [table EXCEPT ![r] = base \o s]
  /\ data' = [b \in Block |-> IF b \in ToSet(s) THEN {} ELSE data[b]]
GrowsCache(tab, new) ==
  \A b \in Block, i \in Nat : InCache(b, i)' => (InCache(b, i) /\ b \notin new) \/ Holds(tab, b, i)
GrowsElse(r) ==
  /\ pc = "schedule" /\ pc' = "schedule"
  /\ report' = report /\ step'.kv = step.kv
  /\ \A q \in Req \ {r} : /\ status'[q] = status[q] /\ computed'[q] = computed[q]
                          /\ loading'[q] = loading[q] /\ lost'[q] = lost[q]
  /\ lost' \in [Req -> SUBSET Block] /\ (loading'[r] # {} => lost'[r] = {})
  /\ \A k \in DOMAIN step.entries : k \in DOMAIN step'.entries /\ step'.entries[k] = step.entries[k]
Grows(r, base, s) ==
  GrowsTable(r, base, s) /\ GrowsCache(base \o s, ToSet(s)) /\ GrowsElse(r)

(* New blocks are in no table and stand nowhere in a step in the making.      *)
LEMMA FreeFacts ==
  ASSUME Types, NEW b \in Free
  PROVE  b \in Block /\ \A q \in Req : b \notin ToSet(table[q])
BY DEF Free, Held

LEMMA TableSlots ==
  ASSUME Types, NEW q \in Req, NEW b, NEW i \in Nat, Holds(table[q], b, i)
  PROVE  b \in ToSet(table[q]) /\ b \in Block
<1>1. table[q] \in Seq(Block)
  BY DEF Types, RequestTypes
<1>2. QED
  BY <1>1, HoldsFacts

(* Where a block stands after the step: a new one behind `base` only, the     *)
(* others where they stood.                                                   *)
LEMMA GrowsHere ==
  ASSUME KVInv, NEW r \in Req, NEW base, NEW s, Grows(r, base, s),
         NEW b \in Block, NEW i \in Nat, Here(b, i)'
  PROVE  IF b \in ToSet(s) THEN i >= Len(base) /\ i - Len(base) \in Nat /\ Holds(s, b, i - Len(base))
         ELSE Here(b, i)
<1>1. /\ Types /\ base \in Seq(Block) /\ s \in Seq(Block) /\ table \in [Req -> Seq(Block)]
      /\ ToSet(s) \subseteq Free /\ ToSet(s) \intersect ToSet(base) = {}
      /\ table' = [table EXCEPT ![r] = base \o s] /\ pc' = "schedule"
      /\ (Holds(base, b, i) => Here(b, i))
      /\ (InCache(b, i)' => (InCache(b, i) /\ b \notin ToSet(s)) \/ Holds(base \o s, b, i))
  BY DEF KVInv, Types, RequestTypes, Grows, GrowsTable, GrowsCache, GrowsElse
<1>2. ~InEntry(b, i)'
  BY <1>1 DEF InEntry
<1>3. ASSUME Holds(base \o s, b, i)
      PROVE  \/ Holds(base, b, i)
             \/ i >= Len(base) /\ i - Len(base) \in Nat /\ Holds(s, b, i - Len(base))
  BY <1>1, <1>3, HoldsMore
<1>4. ASSUME Holds(base, b, i) PROVE Here(b, i) /\ b \notin ToSet(s)
  <2>1. b \in ToSet(base)
    BY <1>1, <1>4, HoldsFacts
  <2>2. QED
    BY <1>1, <1>4, <2>1
<1>5. ASSUME i >= Len(base), i - Len(base) \in Nat, Holds(s, b, i - Len(base)) PROVE b \in ToSet(s)
  <2> DEFINE j == i - Len(base)
  <2>1. j \in Nat /\ Holds(s, b, j)
    BY <1>5
  <2> HIDE DEF j
  <2>2. QED
    BY <1>1, <2>1, HoldsFacts
<1>6. CASE Holds(base \o s, b, i)
  BY <1>3, <1>4, <1>5, <1>6
<1>7. CASE \E q \in Req : q # r /\ Holds(table[q], b, i)
  <2>1. PICK q \in Req : q # r /\ Holds(table[q], b, i)
    BY <1>7
  <2>2. b \in ToSet(table[q])
    BY <1>1, <2>1, TableSlots
  <2>3. b \notin ToSet(s)
    BY <1>1, <2>2, FreeFacts
  <2>4. Here(b, i)
    BY <2>1 DEF Here
  <2>5. QED
    BY <2>3, <2>4
<1>8. CASE InCache(b, i) /\ b \notin ToSet(s)
  BY <1>8 DEF Here
<1>9. (\E q \in Req : Holds(table'[q], b, i)) \/ InCache(b, i)'
  BY <1>2 DEF Here
<1>10. (\E q \in Req : Holds(table'[q], b, i))
         => Holds(base \o s, b, i) \/ \E q \in Req : q # r /\ Holds(table[q], b, i)
  <2> SUFFICES ASSUME NEW q \in Req, Holds(table'[q], b, i)
               PROVE  Holds(base \o s, b, i) \/ \E x \in Req : x # r /\ Holds(table[x], b, i)
    OBVIOUS
  <2>1. CASE q = r
    <3>1. table'[q] = base \o s
      BY <1>1, <2>1
    <3>2. QED
      BY <3>1
  <2>2. CASE q # r
    <3>1. table'[q] = table[q]
      BY <1>1, <2>2
    <3>2. QED
      BY <2>2, <3>1
  <2>3. QED
    BY <2>1, <2>2
<1>11. QED
  BY <1>1, <1>6, <1>7, <1>8, <1>9, <1>10

LEMMA GrowsPlaced ==
  ASSUME KVInv, Placed, NEW r \in Req, NEW base, NEW s, Grows(r, base, s)
  PROVE  Placed'
<1>1. SUFFICES ASSUME NEW b \in Block, NEW i \in Nat, NEW j \in Nat, Here(b, i)', Here(b, j)'
               PROVE  i = j
  BY DEF Placed
<1>2. CASE b \notin ToSet(s)
  <2>1. Here(b, i) /\ Here(b, j)
    BY <1>1, <1>2, GrowsHere
  <2>2. QED
    BY <2>1 DEF Placed
<1>3. CASE b \in ToSet(s)
  <2> DEFINE n == Len(base)
  <2>1. i - n \in Nat /\ Holds(s, b, i - n) /\ j - n \in Nat /\ Holds(s, b, j - n)
    BY <1>1, <1>3, GrowsHere
  <2>2. IsInjective(s) /\ n \in Nat
    BY LenProperties DEF Grows, GrowsTable
  <2>3. (i - n) + 1 = (j - n) + 1
    BY <2>1, <2>2 DEF Holds, IsInjective
  <2> HIDE DEF n
  <2>4. QED
    BY <2>2, <2>3
<1>4. QED
  BY <1>2, <1>3

(* What is promised of the other blocks stays promised.                       *)
LEMMA GrowsPromised ==
  ASSUME NEW r \in Req, NEW base, NEW s, Grows(r, base, s),
         NEW b \in Block, b \notin ToSet(s), NEW p
  PROVE  /\ InData(b, p) => InData(b, p)'
         /\ Promised(b, p) => Promised(b, p)'
<1>1. InData(b, p) => InData(b, p)'
  BY DEF InData, Grows, GrowsTable
<1>2. InWork(b, p) => InWork(b, p)'
  BY DEF InWork, Grows, GrowsElse
<1>3. QED
  BY <1>1, <1>2 DEF Promised

LEMMA GrowsStages ==
  ASSUME KVInv, NEW r \in Req, NEW base, NEW s, Grows(r, base, s)
  PROVE  /\ ~Loading(r) /\ ~Reported(r) /\ ~InOutput(r)
         /\ \A q \in Req \ {r} : /\ Loading(q)' <=> Loading(q)
                                 /\ Reported(q)' <=> Reported(q)
                                 /\ InOutput(q)' <=> InOutput(q)
                                 /\ table'[q] = table[q] /\ ToSet(table'[q]) = ToSet(table[q])
         /\ table'[r] = base \o s
         /\ Reported(r)' <=> Reported(r)
         /\ InOutput(r)' <=> InOutput(r)
<1>1. StageOf(r) /\ table \in [Req -> Seq(Block)]
  BY DEF KVInv, StagesOk, Types, RequestTypes
<1>2. QED
  BY <1>1 DEF StageOf, Grows, GrowsTable, GrowsElse, Loading, Reported, InOutput

LEMMA GrowsLost ==
  ASSUME KVInv, LostKnown, LostAlone, NEW r \in Req, NEW base, NEW s, Grows(r, base, s),
         cache' \in CacheType
  PROVE  LostKnown' /\ LostAlone'
<1>1. /\ ~Loading(r) /\ ~Reported(r) /\ ~InOutput(r)
      /\ \A q \in Req \ {r} : /\ Loading(q)' <=> Loading(q)
                              /\ Reported(q)' <=> Reported(q)
                              /\ InOutput(q)' <=> InOutput(q)
                              /\ table'[q] = table[q] /\ ToSet(table'[q]) = ToSet(table[q])
      /\ table'[r] = base \o s
      /\ Reported(r)' <=> Reported(r)
      /\ InOutput(r)' <=> InOutput(r)
  BY GrowsStages
<1>2. /\ report' = report /\ step'.kv = step.kv
      /\ \A q \in Req \ {r} : lost'[q] = lost[q]
      /\ (loading'[r] # {} => lost'[r] = {})
      /\ GrowsCache(base \o s, ToSet(s))
  BY DEF Grows, GrowsElse
<1>3. LostKnown'
  <2>1. ASSUME NEW b \in report'.invalid
        PROVE  \E q \in Req : (Loading(q)' \/ Reported(q)') /\ b \in lost'[q]
    <3>1. PICK q \in Req : (Loading(q) \/ Reported(q)) /\ b \in lost[q]
      BY <1>2, <2>1 DEF LostKnown
    <3>2. q # r
      BY <1>1, <3>1
    <3>3. QED
      BY <1>1, <1>2, <3>1, <3>2
  <2>2. ASSUME NEW b \in step'.kv.invalid PROVE \E q \in Req : Begun(q)' /\ b \in lost'[q]
    <3>1. PICK q \in Req : Begun(q) /\ b \in lost[q]
      BY <1>2, <2>2 DEF LostKnown
    <3>2. q # r
      BY <1>1, <3>1 DEF Begun
    <3>3. Begun(q)'
      BY <1>1, <3>1, <3>2 DEF Begun
    <3>4. QED
      BY <1>2, <3>1, <3>2, <3>3
  <2>3. QED
    BY <2>1, <2>2 DEF LostKnown
<1>4. LostAlone'
  <2>1. SUFFICES ASSUME NEW q \in Req, Begun(q)', NEW b \in lost'[q]
                 PROVE  /\ b \notin Range(cache') /\ b \in ToSet(table'[q])
                        /\ \A x \in Req \ {q} : b \notin ToSet(table'[x])
    BY DEF LostAlone
  <2>2. q # r
    <3>1. Begun(r)' => Loading(r)'
      BY <1>1 DEF Begun
    <3>2. Loading(r)' => lost'[r] = {}
      BY <1>2 DEF Loading
    <3>3. QED
      BY <2>1, <3>1, <3>2
  <2>3. Begun(q) /\ b \in lost[q]
    BY <1>1, <1>2, <2>1, <2>2 DEF Begun
  <2>4. /\ b \notin Range(cache) /\ b \in ToSet(table[q])
        /\ \A x \in Req \ {q} : b \notin ToSet(table[x])
    BY <2>3 DEF LostAlone
  <2>5. Types /\ table \in [Req -> Seq(Block)] /\ cache \in CacheType
    BY DEF KVInv, Types, RequestTypes, BlockTypes, CacheType
  <2>6. b \in Block
    <3>1. table[q] \in Seq(Block)
      BY <2>5
    <3>2. QED
      BY <2>4, <3>1, ElementOfSeq DEF ToSet
  <2>7. b \notin ToSet(s) /\ b \notin ToSet(base)
    <3>1. ToSet(s) \subseteq Free /\ ToSet(base) \subseteq Range(cache) \union ToSet(table[r])
      BY DEF Grows, GrowsTable
    <3>2. b \notin Free
      BY <2>4, <2>5, FreeFacts
    <3>3. QED
      BY <2>2, <2>4, <3>1, <3>2
  <2>8. b \notin ToSet(base \o s)
    <3>1. base \in Seq(Block) /\ s \in Seq(Block)
      BY DEF Grows, GrowsTable
    <3>2. QED
      BY <2>7, <3>1, ConcatFacts
  <2>9. b \notin Range(cache')
    <3>1. SUFFICES ASSUME NEW i \in Index, cache'[i] = b PROVE FALSE
      BY RangeFacts
    <3>2. i \in Nat
      BY DEF Index
    <3>3. InCache(b, i)'
      BY <3>1 DEF InCache
    <3>4. InCache(b, i) \/ Holds(base \o s, b, i)
      BY <1>2, <2>6, <3>2, <3>3 DEF GrowsCache
    <3>5. ~InCache(b, i)
      BY <2>4, <2>5, RangeFacts DEF InCache
    <3>6. base \o s \in Seq(Block)
      BY ConcatProperties DEF Grows, GrowsTable
    <3>7. QED
      BY <2>8, <3>2, <3>4, <3>5, <3>6, HoldsFacts
  <2>10. QED
    BY <1>1, <2>2, <2>4, <2>8, <2>9
<1>5. QED
  BY <1>3, <1>4

(* The other requests keep the KV they count on.                              *)
LEMMA GrowsOthers ==
  ASSUME KVInv, DataInv, NEW r \in Req, NEW base, NEW s, Grows(r, base, s),
         NEW q \in Req, q # r
  PROVE  /\ status'[q] \in Contexted => ContextOf(q)' /\ Blocks(computed'[q]) <= Len(table'[q])
         /\ status'[q] = "remote" => LoadOf(q)'
<1>1. /\ status'[q] = status[q] /\ computed'[q] = computed[q] /\ table'[q] = table[q]
      /\ loading'[q] = loading[q] /\ lost'[q] = lost[q]
      /\ report' = report /\ step'.kv = step.kv
  BY GrowsStages DEF Grows, GrowsElse
<1>2. ASSUME NEW b \in Block, NEW p \in Nat, Holds(table'[q], b, PosOf(p)), Promised(b, p)
      PROVE  Promised(b, p)'
  <2>1. Types /\ ToSet(s) \subseteq Free /\ PosOf(p) \in Nat
    BY PosFacts DEF KVInv, Grows, GrowsTable
  <2>2. b \in ToSet(table[q])
    BY <1>1, <1>2, <2>1, TableSlots
  <2>3. b \notin ToSet(s)
    BY <2>1, <2>2, FreeFacts
  <2>4. QED
    BY <1>2, <2>3, GrowsPromised
<1>3. ASSUME status'[q] \in Contexted PROVE ContextOf(q)' /\ Blocks(computed'[q]) <= Len(table'[q])
  <2>1. ContextOf(q) /\ Blocks(computed[q]) <= Len(table[q])
    BY <1>1, <1>3 DEF DataInv, ContextPromised, RoomKept
  <2>2. QED
    BY <1>1, <1>2, <2>1 DEF ContextOf
<1>4. ASSUME status'[q] = "remote" PROVE LoadOf(q)'
  <2>1. LoadOf(q)
    BY <1>1, <1>4 DEF DataInv, LoadPromised
  <2>2. \A b : /\ Arrives(q, b)' <=> Arrives(q, b)
               /\ FailureKnown(b)' <=> FailureKnown(b)
    BY <1>1 DEF Arrives, FailureKnown
  <2>3. QED
    BY <1>1, <1>2, <2>1, <2>2 DEF LoadOf
<1>5. QED
  BY <1>3, <1>4

(* The entries the step has keep what they compute from.                      *)
LEMMA GrowsEntries ==
  ASSUME KVInv, DataInv, NEW r \in Req, NEW base, NEW s, Grows(r, base, s),
         NEW k \in DOMAIN step.entries
  PROVE  /\ k \in DOMAIN step'.entries /\ step'.entries[k] = step.entries[k]
         /\ EntryTable(k)' /\ EntryPromised(k)'
<1> DEFINE e == step.entries[k]
<1>1. /\ pc = "schedule" /\ k \in DOMAIN step'.entries /\ step'.entries[k] = e
      /\ \A j \in DOMAIN step.entries :
           j \in DOMAIN step'.entries /\ step'.entries[j] = step.entries[j]
      /\ step \in Steps /\ Types /\ r \notin InStep
  BY DEF Grows, GrowsElse, GrowsTable, KVInv, Types, EngineTypes
<1>2. EntryTable(k) /\ EntryPromised(k)
  BY <1>1 DEF DataInv, StepTables, StepPromised
<1>3. e.req \in Req /\ e.req # r /\ DOMAIN step.entries = 1..Len(step.entries)
      /\ Len(step.entries) \in Nat
  BY <1>1, StepFields DEF InStep
<1>4. e.tab = table[e.req] /\ status[e.req] = "running"
  BY <1>2 DEF EntryTable
<1>5. table'[e.req] = table[e.req] /\ status'[e.req] = status[e.req]
  BY <1>3, GrowsStages DEF Grows, GrowsElse
<1>6. EntryTable(k)'
  BY <1>1, <1>4, <1>5 DEF EntryTable
<1>7. EntryPromised(k)'
  <2>1. ASSUME NEW b \in Block, NEW p \in Nat, p < e.from, Holds(e.tab, b, PosOf(p))
        PROVE  InData(b, p)' \/ Earlier(k, b, p)'
    <3>1. InData(b, p) \/ Earlier(k, b, p)
      BY <1>2, <2>1 DEF EntryPromised
    <3>2. ToSet(s) \subseteq Free /\ PosOf(p) \in Nat
      BY PosFacts DEF Grows, GrowsTable
    <3>3. b \in ToSet(table[e.req])
      BY <1>1, <1>3, <1>4, <2>1, <3>2, TableSlots
    <3>4. b \notin ToSet(s)
      BY <1>1, <1>3, <3>2, <3>3, FreeFacts
    <3>5. InData(b, p) => InData(b, p)'
      BY <3>4, GrowsPromised
    <3>6. ASSUME Earlier(k, b, p) PROVE Earlier(k, b, p)'
      <4>1. PICK j \in 1..(k - 1) : Writes(step.entries[j], b, p)
        BY <3>6 DEF Earlier
      <4>2. j \in DOMAIN step.entries
        BY <1>3, <4>1
      <4>3. step'.entries[j] = step.entries[j]
        BY <1>1, <4>2
      <4>4. QED
        BY <4>1, <4>3 DEF Earlier
    <3>7. QED
      BY <3>1, <3>5, <3>6
  <2>2. e \in Planned /\ e.sync = {} /\ Blocks(e.from + e.n) <= Len(e.tab)
    BY <1>2 DEF EntryPromised
  <2> HIDE DEF e
  <2>3. QED
    BY <1>1, <2>1, <2>2 DEF EntryPromised
<1>8. QED
  BY <1>1, <1>6, <1>7

(* What evicting new blocks, and caching a table's full blocks, leave cached. *)
LEMMA EvictedSlots ==
  ASSUME NEW c \in CacheType, NEW new, NEW i \in Index, NEW b \in Block, Evicted(c, new)[i] = b
  PROVE  c[i] = b /\ b \notin new
<1>1. Evicted(c, new)[i] = IF c[i] \in new THEN NoBlock ELSE c[i]
  BY DEF Evicted
<1>2. NoBlock \notin Block
  BY DEF NoBlock, Block
<1>3. QED
  BY <1>1, <1>2

LEMMA CachedSlots ==
  ASSUME NEW c \in CacheType, NEW tab \in Seq(Block), NEW t \in Nat, t \div BlockSize <= Len(tab),
         NEW i \in Index, NEW b \in Block, Cached(c, tab, t)[i] = b
  PROVE  c[i] = b \/ (Holds(tab, b, i) /\ i < t \div BlockSize)
<1>1. Cached(c, tab, t)[i] = IF c[i] = NoBlock /\ i < t \div BlockSize THEN tab[i + 1] ELSE c[i]
  BY DEF Cached
<1>2. i \in Nat /\ t \div BlockSize \in Nat /\ Len(tab) \in Nat /\ DOMAIN tab = 1..Len(tab)
  BY BlocksFacts, LenProperties DEF Index
<1>3. i < t \div BlockSize => i + 1 \in DOMAIN tab
  BY <1>2
<1>4. QED
  BY <1>1, <1>3 DEF Holds

(* The entry that a step gets.                                                *)
LEMMA EntryAppended ==
  ASSUME step \in Steps, NEW e, step' = Scheduled(step, e)
  PROVE  LET m == Len(step.entries) IN
           /\ m \in Nat /\ DOMAIN step.entries = 1..m
           /\ DOMAIN step'.entries = 1..(m + 1) /\ step'.entries[m + 1] = e
           /\ \A k \in 1..m : k \in DOMAIN step'.entries /\ step'.entries[k] = step.entries[k]
           /\ step'.kv = step.kv
<1> DEFINE s == step.entries
           m == Len(s)
<1>1. s \in Seq(Planned \union Executed) /\ m \in Nat /\ DOMAIN s = 1..m
  BY StepFields
<1>2. step'.entries = Append(s, e) /\ step'.kv = step.kv
  BY DEF Scheduled, Steps
<1> HIDE DEF s
<1>3. s \in Seq((Planned \union Executed) \union {e})
  BY <1>1
<1>4. /\ Len(Append(s, e)) = m + 1 /\ Append(s, e)[m + 1] = e
      /\ \A k \in 1..m : Append(s, e)[k] = s[k]
      /\ DOMAIN Append(s, e) = 1..(m + 1)
  BY <1>3, AppendProperties
<1> HIDE DEF m
<1>5. \A k \in 1..m : k \in 1..(m + 1)
  BY <1>1 DEF m
<1>6. QED
  BY <1>1, <1>2, <1>4, <1>5 DEF s, m

(* Request r runs, and the step gets an entry for it: n tokens behind the t   *)
(* that are in the blocks or that the step writes before.                     *)
Runs(r, base, s, t, n) ==
  /\ Grows(r, base, s) /\ Sound(base, t) /\ t \in Nat /\ n \in Nat
  /\ Blocks(t + n) <= Len(base \o s)
  /\ step' = Scheduled(step, Entry(r, base \o s, t, n, {}))
  /\ computed'[r] = t + n /\ status'[r] = "running" /\ loading'[r] = {}
  /\ cache' = Cached(Evicted(cache, ToSet(s)), base \o s, t + n)

LEMMA RunsFacts ==
  ASSUME KVInv, NEW r \in Req, NEW base, NEW s, NEW t, NEW n, Runs(r, base, s, t, n)
  PROVE  /\ base \in Seq(Block) /\ s \in Seq(Block) /\ base \o s \in Seq(Block)
         /\ t \in Nat /\ n \in Nat /\ t + n \in Nat
         /\ Blocks(t) <= Len(base) /\ Blocks(t) \in Nat /\ Len(base) \in Nat
         /\ ToSet(s) \subseteq Block /\ ToSet(s) \intersect ToSet(base) = {}
         /\ cache \in CacheType /\ cache' \in CacheType
         /\ (t + n) \div BlockSize <= Len(base \o s)
         /\ step \in Steps
<1>1. /\ base \in Seq(Block) /\ s \in Seq(Block) /\ base \o s \in Seq(Block)
      /\ t \in Nat /\ n \in Nat /\ Blocks(t) <= Len(base)
      /\ ToSet(s) \subseteq Free /\ ToSet(s) \intersect ToSet(base) = {}
      /\ Blocks(t + n) <= Len(base \o s)
  BY ConcatProperties DEF Runs, Grows, GrowsTable, Sound
<1>2. /\ t + n \in Nat /\ Blocks(t) \in Nat /\ Len(base) \in Nat
      /\ ToSet(s) \subseteq Block
      /\ cache \in CacheType /\ step \in Steps
  <2>1. t + n \in Nat /\ Blocks(t) \in Nat /\ Len(base) \in Nat
    BY <1>1, BlocksFacts, LenProperties
  <2>2. ToSet(s) \subseteq Block
    BY <1>1 DEF Free
  <2>3. cache \in CacheType /\ step \in Steps
    BY DEF KVInv, Types, BlockTypes, EngineTypes, CacheType
  <2>4. QED
    BY <2>1, <2>2, <2>3
<1>3. (t + n) \div BlockSize <= Len(base \o s)
  <2> DEFINE u == t + n
             l == Len(base \o s)
  <2>1. u \in Nat /\ l \in Nat /\ Blocks(u) <= l
    BY <1>1, <1>2, LenProperties
  <2> HIDE DEF u, l
  <2>2. u \div BlockSize \in Nat /\ Blocks(u) \in Nat /\ u \div BlockSize <= Blocks(u)
    BY <2>1, BlocksFacts
  <2>3. u \div BlockSize <= l
    BY <2>1, <2>2
  <2>4. QED
    BY <2>3 DEF u, l
<1>4. cache' \in CacheType
  <2>1. Evicted(cache, ToSet(s)) \in CacheType
    BY <1>2, EvictedFacts
  <2>2. cache' = Cached(Evicted(cache, ToSet(s)), base \o s, t + n)
    BY DEF Runs
  <2>3. QED
    BY <1>1, <1>2, <1>3, <2>1, <2>2, CachedFacts
<1>5. QED
  BY <1>1, <1>2, <1>3, <1>4

(* The KV of its tokens is in its blocks, or its entry writes it.             *)
LEMMA RunsContext ==
  ASSUME KVInv, NEW r \in Req, NEW base, NEW s, NEW t, NEW n, Runs(r, base, s, t, n),
         NEW b \in Block, NEW p \in Nat, p < t + n, Holds(base \o s, b, PosOf(p))
  PROVE  Promised(b, p)'
<1>1. /\ base \in Seq(Block) /\ s \in Seq(Block) /\ t \in Nat /\ n \in Nat /\ t + n \in Nat
      /\ Blocks(t) <= Len(base) /\ Blocks(t) \in Nat /\ Len(base) \in Nat
      /\ ToSet(s) \intersect ToSet(base) = {} /\ step \in Steps
  BY RunsFacts
<1>2. Grows(r, base, s) /\ Sound(base, t) /\ pc' = "schedule"
  BY DEF Runs, Grows, GrowsElse
<1>3. PosOf(p) \in Nat
  BY PosFacts
<1>4. CASE p < t
  <2>1. PosOf(p) < Blocks(t)
    BY <1>1, <1>4, PosFacts
  <2>2. ~(PosOf(p) >= Len(base))
    BY <1>1, <1>3, <2>1
  <2>3. Holds(base, b, PosOf(p))
    BY <1>1, <1>3, <2>2, HoldsMore
  <2>4. Promised(b, p)
    BY <1>2, <1>4, <2>3 DEF Sound
  <2>5. b \notin ToSet(s)
    BY <1>1, <1>3, <2>3, HoldsFacts
  <2>6. QED
    BY <1>2, <2>4, <2>5, GrowsPromised
<1>5. CASE ~(p < t)
  <2> DEFINE e == Entry(r, base \o s, t, n, {})
             m == Len(step.entries)
  <2>1. step' = Scheduled(step, e)
    BY DEF Runs
  <2>2. e.tab = base \o s /\ e.from = t /\ e.n = n
    BY DEF Entry
  <2> HIDE DEF e
  <2>3. m \in Nat /\ DOMAIN step'.entries = 1..(m + 1) /\ step'.entries[m + 1] = e
    BY <1>1, <2>1, EntryAppended
  <2>4. p \in t..(t + n - 1)
    BY <1>1, <1>5
  <2>5. Writes(e, b, p)
    BY <2>2, <2>4 DEF Writes
  <2> HIDE DEF m
  <2>6. m + 1 \in DOMAIN step'.entries
    BY <2>3
  <2>7. Writes(step'.entries[m + 1], b, p)
    BY <2>3, <2>5
  <2>8. \E k \in DOMAIN step'.entries : Writes(step'.entries[k], b, p)
    BY <2>6, <2>7
  <2>9. InWork(b, p)'
    BY <1>2, <2>8 DEF InWork
  <2>10. QED
    BY <2>9 DEF Promised
<1>6. QED
  BY <1>4, <1>5

LEMMA RunsCache ==
  ASSUME KVInv, DataInv, NEW r \in Req, NEW base, NEW s, NEW t, NEW n, Runs(r, base, s, t, n)
  PROVE  CachePromised'
<1>1. /\ base \o s \in Seq(Block) /\ t + n \in Nat /\ ToSet(s) \subseteq Block
      /\ cache \in CacheType /\ (t + n) \div BlockSize <= Len(base \o s)
  BY RunsFacts
<1>2. Grows(r, base, s) /\ cache' = Cached(Evicted(cache, ToSet(s)), base \o s, t + n)
  BY DEF Runs
<1>3. SUFFICES ASSUME NEW b \in Block, NEW p \in Nat, InCache(b, PosOf(p))' PROVE Promised(b, p)'
  BY DEF CachePromised
<1> DEFINE i == PosOf(p)
<1>4. i \in Index /\ cache'[i] = b
  BY <1>3 DEF InCache
<1>5. Evicted(cache, ToSet(s)) \in CacheType
  BY <1>1, EvictedFacts
<1>6. \/ Evicted(cache, ToSet(s))[i] = b
      \/ Holds(base \o s, b, i) /\ i < (t + n) \div BlockSize
  <2> HIDE DEF i
  <2> QED
    BY <1>1, <1>2, <1>4, <1>5, CachedSlots
<1>7. CASE Evicted(cache, ToSet(s))[i] = b
  <2>1. cache[i] = b /\ b \notin ToSet(s)
    BY <1>1, <1>4, <1>7, EvictedSlots
  <2>2. InCache(b, PosOf(p))
    BY <1>4, <2>1 DEF InCache
  <2>3. Promised(b, p)
    BY <2>2 DEF DataInv, CachePromised
  <2>4. QED
    BY <1>2, <2>1, <2>3, GrowsPromised
<1>8. CASE Holds(base \o s, b, i) /\ i < (t + n) \div BlockSize
  <2>1. p < t + n
    BY <1>1, <1>8, PosFacts
  <2>2. QED
    BY <1>8, <2>1, RunsContext
<1>9. QED
  BY <1>6, <1>7, <1>8

(* The entry added is promised what it computes from.                         *)
LEMMA RunsEntry ==
  ASSUME KVInv, DataInv, NEW r \in Req, NEW base, NEW s, NEW t, NEW n, Runs(r, base, s, t, n)
  PROVE  StepTables' /\ StepPromised'
<1>1. /\ base \in Seq(Block) /\ s \in Seq(Block) /\ base \o s \in Seq(Block)
      /\ t \in Nat /\ n \in Nat /\ t + n \in Nat
      /\ Blocks(t) <= Len(base) /\ Blocks(t) \in Nat /\ Len(base) \in Nat
      /\ ToSet(s) \intersect ToSet(base) = {} /\ step \in Steps
  BY RunsFacts
<1>2. /\ Grows(r, base, s) /\ Sound(base, t) /\ pc = "schedule" /\ pc' = "schedule"
      /\ Blocks(t + n) <= Len(base \o s) /\ status'[r] = "running"
  BY DEF Runs, Grows, GrowsElse
<1> DEFINE e == Entry(r, base \o s, t, n, {})
<1>m. PICK m : m = Len(step.entries)
  OBVIOUS
<1>3. step' = Scheduled(step, e)
  BY DEF Runs
<1>4. e.tab = base \o s /\ e.from = t /\ e.n = n /\ e.req = r /\ e.sync = {} /\ e \in Planned
  <2>1. e = [req |-> r, tab |-> base \o s, from |-> t, n |-> n, sync |-> {}]
    BY DEF Entry
  <2> HIDE DEF e
  <2>2. {} \in SUBSET Block
    OBVIOUS
  <2>3. QED
    BY <1>1, <2>1, <2>2 DEF Planned
<1> HIDE DEF e
<1>5. /\ m \in Nat /\ DOMAIN step.entries = 1..m
      /\ DOMAIN step'.entries = 1..(m + 1) /\ step'.entries[m + 1] = e
      /\ \A k \in 1..m : k \in DOMAIN step'.entries /\ step'.entries[k] = step.entries[k]
  BY <1>1, <1>3, <1>m, EntryAppended
<1>6. table'[r] = base \o s
  BY <1>2, GrowsStages
<1>7. EntryTable(m + 1)'
  BY <1>2, <1>4, <1>5, <1>6 DEF EntryTable
<1>8. EntryPromised(m + 1)'
  <2>1. ASSUME NEW b \in Block, NEW p \in Nat, p < t, Holds(base \o s, b, PosOf(p))
        PROVE  InData(b, p)' \/ Earlier(m + 1, b, p)'
    <3>1. PosOf(p) \in Nat /\ PosOf(p) < Blocks(t)
      BY <1>1, <2>1, PosFacts
    <3>2. ~(PosOf(p) >= Len(base))
      BY <1>1, <3>1
    <3>3. Holds(base, b, PosOf(p))
      BY <1>1, <2>1, <3>1, <3>2, HoldsMore
    <3>4. Promised(b, p) /\ b \notin ToSet(s)
      BY <1>1, <1>2, <2>1, <3>1, <3>3, HoldsFacts DEF Sound
    <3>5. InData(b, p) => InData(b, p)'
      BY <1>2, <3>4, GrowsPromised
    <3>6. ASSUME InWork(b, p) PROVE Earlier(m + 1, b, p)'
      <4>1. PICK k \in 1..m : Writes(step.entries[k], b, p)
        BY <1>5, <3>6 DEF InWork
      <4>2. k \in 1..((m + 1) - 1)
        BY <1>5
      <4>3. Writes(step'.entries[k], b, p)
        BY <1>5, <4>1
      <4>4. QED
        BY <4>2, <4>3 DEF Earlier
    <3>7. QED
      BY <3>4, <3>5, <3>6 DEF Promised
  <2>2. QED
    BY <1>2, <1>4, <1>5, <2>1 DEF EntryPromised
<1>9. ASSUME NEW k \in DOMAIN step'.entries PROVE EntryTable(k)' /\ EntryPromised(k)'
  <2>1. k \in 1..m \/ k = m + 1
    BY <1>5
  <2>2. k \in 1..m => k \in DOMAIN step.entries
    BY <1>5
  <2>3. QED
    BY <1>2, <1>7, <1>8, <2>1, <2>2, GrowsEntries
<1>10. QED
  BY <1>9 DEF StepTables, StepPromised

LEMMA RunsData ==
  ASSUME KVInv, DataInv, NEW r \in Req, NEW base, NEW s, NEW t, NEW n, Runs(r, base, s, t, n)
  PROVE  DataInv'
<1>1. /\ Grows(r, base, s) /\ computed'[r] = t + n /\ status'[r] = "running"
      /\ pc' = "schedule" /\ Blocks(t + n) <= Len(base \o s) /\ table'[r] = base \o s
  BY GrowsStages DEF Runs, Grows, GrowsElse
<1>2. cache' \in CacheType
  BY RunsFacts
<1>3. DataTypes'
  <2>1. data' = [b \in Block |-> IF b \in ToSet(s) THEN {} ELSE data[b]]
        /\ lost' \in [Req -> SUBSET Block] /\ data \in [Block -> SUBSET Nat]
    BY <1>1 DEF Grows, GrowsTable, GrowsElse, DataInv, DataTypes
  <2>2. QED
    BY <2>1 DEF DataTypes
<1>4. Placed'
  BY <1>1, GrowsPlaced DEF DataInv
<1>5. CachePromised' /\ StepTables' /\ StepPromised'
  BY RunsCache, RunsEntry
<1>6. LostKnown' /\ LostAlone'
  BY <1>1, <1>2, GrowsLost DEF DataInv
<1>7. ContextOf(r)'
  BY <1>1, RunsContext DEF ContextOf
<1>8. ContextPromised'
  BY <1>1, <1>7, GrowsOthers DEF ContextPromised
<1>9. RoomKept'
  <2>1. SUFFICES ASSUME NEW q \in Req, status'[q] \in Contexted
                 PROVE  Blocks(computed'[q]) <= Len(table'[q])
    BY DEF RoomKept
  <2>2. CASE q = r
    BY <1>1, <2>2
  <2>3. CASE q # r
    BY <1>1, <2>1, <2>3, GrowsOthers
  <2>4. QED
    BY <2>2, <2>3
<1>10. LoadPromised'
  <2>1. SUFFICES ASSUME NEW q \in Req, status'[q] = "remote" PROVE LoadOf(q)'
    BY DEF LoadPromised
  <2>2. q # r
    BY <1>1, <2>1
  <2>3. QED
    BY <1>1, <2>1, <2>2, GrowsOthers
<1>11. StepApart' /\ StepGood'
  BY <1>1 DEF StepApart, StepGood
<1>12. QED
  BY <1>3, <1>4, <1>5, <1>6, <1>8, <1>9, <1>10, <1>11 DEF DataInv

(* Request r gets the blocks `new`, of those in `free`, for `to` tokens.        *)
Allocates(r, base, to, free, new) ==
  /\ status[r] \in {"running", "waiting", "preempted"} /\ r \notin InStep
  /\ base \in Seq(Block) /\ ToSet(base) \subseteq Range(cache) \union ToSet(table[r])
  /\ \E t : Sound(base, t)
  /\ to \in Nat /\ free \subseteq Free /\ free \intersect ToSet(base) = {}
  /\ new \in Takes(Missing(base, to), free)
  /\ table' = [table EXCEPT ![r] = base \o SetToSeq(new)]
  /\ data' = [b \in Block |-> IF b \in new THEN {} ELSE data[b]]
Allocated(r, base, to, new) ==
  /\ GrowsTable(r, base, SetToSeq(new)) /\ ToSet(SetToSeq(new)) = new
  /\ base \o SetToSeq(new) \in Seq(Block) /\ Blocks(to) <= Len(base \o SetToSeq(new))
  /\ SetToSeq(new) \in Seq(Block) /\ Len(SetToSeq(new)) = Missing(base, to)
  /\ new \in SUBSET Block

(* Taking blocks makes a table grow.                                          *)
LEMMA TakesGrow ==
  ASSUME NEW r, NEW base, NEW to, NEW free, NEW new, Allocates(r, base, to, free, new)
  PROVE  Allocated(r, base, to, new)
<1>0. /\ status[r] \in {"running", "waiting", "preempted"} /\ r \notin InStep
      /\ base \in Seq(Block) /\ ToSet(base) \subseteq Range(cache) \union ToSet(table[r])
      /\ to \in Nat /\ free \subseteq Free /\ free \intersect ToSet(base) = {}
      /\ new \in Takes(Missing(base, to), free)
      /\ table' = [table EXCEPT ![r] = base \o SetToSeq(new)]
      /\ data' = [b \in Block |-> IF b \in new THEN {} ELSE data[b]]
  BY DEF Allocates
<1>1. free \in SUBSET Block
  BY <1>0 DEF Free
<1>2. /\ new \subseteq free /\ base \o SetToSeq(new) \in Seq(Block)
      /\ ToSet(base \o SetToSeq(new)) = ToSet(base) \union new
      /\ Blocks(to) <= Len(base \o SetToSeq(new))
      /\ SetToSeq(new) \in Seq(Block) /\ ToSet(SetToSeq(new)) = new
      /\ Len(SetToSeq(new)) = Missing(base, to) /\ IsInjective(SetToSeq(new))
  BY <1>0, <1>1, AllocateFacts
<1>3. \A b \in Block, i \in Nat : Holds(base, b, i) => Here(b, i)
  BY DEF Allocates, Sound
<1> DEFINE s == SetToSeq(new)
<1>4. /\ s \in Seq(Block) /\ ToSet(s) = new /\ IsInjective(s)
      /\ table' = [table EXCEPT ![r] = base \o s]
  BY <1>0, <1>2
<1> HIDE DEF s
<1>5. GrowsTable(r, base, s)
  BY <1>0, <1>2, <1>3, <1>4 DEF GrowsTable
<1>6. QED
  BY <1>0, <1>1, <1>2, <1>5 DEF s, Allocated

LEMMA RunCacheGrows ==
  ASSUME cache \in CacheType, NEW new \in SUBSET Block, NEW tab \in Seq(Block), NEW to \in Nat,
         Blocks(to) <= Len(tab), cache' = Cached(Evicted(cache, new), tab, to)
  PROVE  GrowsCache(tab, new)
<1>1. SUFFICES ASSUME NEW b \in Block, NEW i \in Index, cache'[i] = b
               PROVE  (cache[i] = b /\ b \notin new) \/ Holds(tab, b, i)
  BY DEF GrowsCache, InCache
<1>2. to \div BlockSize <= Len(tab)
  <2>1. to \div BlockSize \in Nat /\ Blocks(to) \in Nat /\ to \div BlockSize <= Blocks(to)
        /\ Len(tab) \in Nat
    BY BlocksFacts, LenProperties
  <2>2. QED
    BY <2>1
<1>3. Evicted(cache, new) \in CacheType
  BY EvictedFacts
<1>4. Evicted(cache, new)[i] = b \/ Holds(tab, b, i)
  BY <1>1, <1>2, <1>3, CachedSlots
<1>5. QED
  BY <1>4, EvictedSlots

LEMMA ScheduleRunningData == KVInv /\ DataInv /\ ScheduleRunning => DataInv'
<1> SUFFICES ASSUME KVInv, DataInv, ScheduleRunning PROVE DataInv'
  OBVIOUS
<1>1. /\ Types /\ RunningOk /\ step \in Steps /\ cache \in CacheType
      /\ lost \in [Req -> SUBSET Block]
  BY DEF KVInv, Types, BlockTypes, EngineTypes, CacheType, DataInv, DataTypes
<1>2. PICK r \in Req : r = running[NextRunning]
  <2>1. running[NextRunning] \in Req
    BY <1>1, NextRunningFacts DEF ScheduleRunning, RunningLoop
  <2>2. QED
    BY <2>1
<1>3. r \in ToSet(running) /\ r \notin InStep /\ status[r] = "running"
  BY <1>1, <1>2, NextRunningFacts DEF ScheduleRunning, RunningLoop, RunningOk
<1>4. PICK t : t = computed[r]
  OBVIOUS
<1>5. PICK n : n = Chunk(r, t)
  OBVIOUS
<1>6. PICK base : base = table[r]
  OBVIOUS
<1>7. t \in Nat /\ n \in Nat /\ t + n \in Nat /\ base \in Seq(Block)
  <2>1. t \in Nat /\ t <= Len0[r] /\ base \in Seq(Block)
    BY <1>1, <1>4, <1>6 DEF Types, RequestTypes
  <2>2. QED
    BY <1>1, <1>5, <2>1, ChunkFacts
<1>8. PICK new \in Takes(Missing(base, t + n), Free) :
        /\ table' = [table EXCEPT ![r] = base \o SetToSeq(new)]
        /\ data' = [b \in Block |-> IF b \in new THEN {} ELSE data[b]]
        /\ cache' = Cached(Evicted(cache, new), base \o SetToSeq(new), t + n)
        /\ step' = Scheduled(step, Entry(r, base \o SetToSeq(new), t, n, {}))
  BY <1>2, <1>4, <1>5, <1>6 DEF ScheduleRunning
<1>9. /\ computed' = [computed EXCEPT ![r] = t + n]
      /\ UNCHANGED <<status, kvs, pc>> /\ pc = "schedule"
  BY <1>2, <1>4, <1>5 DEF ScheduleRunning, RunningLoop
<1>10. Sound(base, t)
  BY <1>3, <1>4, <1>6, OwnSound DEF Contexted
<1> DEFINE to == t + n
           free == Free
<1>11. /\ to \in Nat /\ free \subseteq Free /\ free \intersect ToSet(base) = {}
       /\ new \in Takes(Missing(base, to), free)
       /\ ToSet(base) \subseteq Range(cache) \union ToSet(table[r])
       /\ status[r] \in {"running", "waiting", "preempted"}
  BY <1>3, <1>6, <1>7, <1>8 DEF Free, Held
<1>12. PICK s : s = SetToSeq(new)
  OBVIOUS
<1> HIDE DEF to, free
<1>13. /\ GrowsTable(r, base, s) /\ ToSet(s) = new
       /\ base \o s \in Seq(Block) /\ Blocks(to) <= Len(base \o s) /\ new \in SUBSET Block
  <2>1. PICK f : f = free
    OBVIOUS
  <2>2. PICK u : u = to
    OBVIOUS
  <2>3. /\ u \in Nat /\ f \subseteq Free /\ f \intersect ToSet(base) = {}
        /\ new \in Takes(Missing(base, u), f)
    BY <1>11, <2>1, <2>2
  <2>4. Allocates(r, base, u, f, new)
    BY <1>3, <1>7, <1>8, <1>10, <1>11, <2>3 DEF Allocates
  <2>5. Allocated(r, base, u, new)
    BY <2>4, TakesGrow
  <2>6. QED
    BY <1>12, <2>2, <2>5 DEF Allocated
<1>14. GrowsCache(base \o s, ToSet(s))
  BY <1>1, <1>8, <1>11, <1>12, <1>13, RunCacheGrows DEF to
<1>15. GrowsElse(r) /\ computed'[r] = t + n /\ loading'[r] = {}
  <2>1. loading[r] = {}
    BY <1>3, RunningLoadsNothing
  <2>2. step'.kv = step.kv /\ \A k \in DOMAIN step.entries :
          k \in DOMAIN step'.entries /\ step'.entries[k] = step.entries[k]
    BY <1>1, <1>8, EntryAppended
  <2>3. computed \in [Req -> Nat]
    BY <1>1 DEF Types, RequestTypes
  <2>4. QED
    BY <1>1, <1>9, <2>1, <2>2, <2>3 DEF GrowsElse, kvs
<1>16. Runs(r, base, s, t, n)
  <2>1. /\ step' = Scheduled(step, Entry(r, base \o s, t, n, {}))
        /\ cache' = Cached(Evicted(cache, ToSet(s)), base \o s, t + n)
    BY <1>8, <1>12, <1>13
  <2>2. Grows(r, base, s)
    BY <1>13, <1>14, <1>15 DEF Grows
  <2>3. Blocks(t + n) <= Len(base \o s)
    BY <1>13 DEF to
  <2>4. status'[r] = "running"
    BY <1>3, <1>9
  <2>5. QED
    BY <1>7, <1>10, <1>15, <2>1, <2>2, <2>3, <2>4 DEF Runs
<1>17. QED
  BY <1>16, RunsData

LEMMA AdmitRunData == AsyncLoads /\ KVInv /\ DataInv /\ AdmitRun => DataInv'
<1> SUFFICES ASSUME AsyncLoads, KVInv, DataInv, AdmitRun PROVE DataInv'
  OBVIOUS
<1>1. /\ Types /\ EntriesOk /\ step \in Steps /\ cache \in CacheType
      /\ lost \in [Req -> SUBSET Block]
  BY DEF KVInv, Types, BlockTypes, EngineTypes, CacheType, DataInv, DataTypes
<1>2. PICK r \in Req : r = Candidate
  BY <1>1, CandidateFacts DEF AdmitRun
<1>3. Ready(r) /\ ~Async(r) /\ status[r] \in {"waiting", "preempted"} /\ r \notin InStep
  BY <1>1, <1>2, NotInStep DEF AdmitRun, Ready
<1>4. PICK t : t = Start(r)
  OBVIOUS
<1>5. PICK n : n = Chunk(r, t)
  OBVIOUS
<1>6. PICK base : base = Base(r)
  OBVIOUS
<1>7. /\ t \in Nat /\ n \in Nat /\ t + n \in Nat /\ base \in Seq(Block)
      /\ ToSet(base) \subseteq Range(cache) \union ToSet(table[r])
  <2>1. /\ t \in Nat /\ t <= Len0[r] /\ base \in Seq(Block)
        /\ ToSet(base) \subseteq Range(cache) \union ToSet(table[r])
    BY <1>1, <1>4, <1>6, StartFacts
  <2>2. QED
    BY <1>1, <1>5, <2>1, ChunkFacts
<1>8. Sound(base, t) /\ ~(External(r) > 0)
  <2>1. Sound(base, t) /\ External(r) = 0
    BY <1>3, <1>4, <1>6, RunStart
  <2> HIDE DEF External
  <2>2. QED
    BY <2>1
<1>9. PICK new \in Takes(Missing(base, t + n), Free \ ToSet(base)) :
        /\ table' = [table EXCEPT ![r] = base \o SetToSeq(new)]
        /\ data' = [b \in Block |-> IF b \in new THEN {} ELSE data[b]]
        /\ cache' = Cached(Evicted(cache, new), base \o SetToSeq(new), t + n)
        /\ step' = Scheduled(step, Entry(r, base \o SetToSeq(new), t, n, {}))
  BY <1>2, <1>4, <1>5, <1>6, <1>8 DEF AdmitRun
<1>10. /\ computed' = [computed EXCEPT ![r] = t + n]
       /\ status' = [status EXCEPT ![r] = "running"]
       /\ UNCHANGED <<kvs, pc>> /\ pc = "schedule"
  BY <1>2, <1>4, <1>5 DEF AdmitRun, WaitingLoop
<1> DEFINE to == t + n
           free == Free \ ToSet(base)
<1>11. /\ to \in Nat /\ free \subseteq Free /\ free \intersect ToSet(base) = {}
       /\ new \in Takes(Missing(base, to), free)
       /\ status[r] \in {"running", "waiting", "preempted"}
  BY <1>3, <1>7, <1>9
<1>12. PICK s : s = SetToSeq(new)
  OBVIOUS
<1> HIDE DEF to, free
<1>13. /\ GrowsTable(r, base, s) /\ ToSet(s) = new
       /\ base \o s \in Seq(Block) /\ Blocks(to) <= Len(base \o s) /\ new \in SUBSET Block
  <2>1. PICK f : f = free
    OBVIOUS
  <2>2. PICK u : u = to
    OBVIOUS
  <2>3. /\ u \in Nat /\ f \subseteq Free /\ f \intersect ToSet(base) = {}
        /\ new \in Takes(Missing(base, u), f)
    BY <1>11, <2>1, <2>2
  <2>4. Allocates(r, base, u, f, new)
    BY <1>3, <1>7, <1>9, <1>8, <1>11, <2>3 DEF Allocates
  <2>5. Allocated(r, base, u, new)
    BY <2>4, TakesGrow
  <2>6. QED
    BY <1>12, <2>2, <2>5 DEF Allocated
<1>14. GrowsCache(base \o s, ToSet(s))
  BY <1>1, <1>9, <1>11, <1>12, <1>13, RunCacheGrows DEF to
<1>15. GrowsElse(r) /\ computed'[r] = t + n /\ loading'[r] = {} /\ status'[r] = "running"
  <2>1. loading[r] = {}
    BY <1>3, RunningLoadsNothing
  <2>2. step'.kv = step.kv /\ \A k \in DOMAIN step.entries :
          k \in DOMAIN step'.entries /\ step'.entries[k] = step.entries[k]
    BY <1>1, <1>9, EntryAppended
  <2>3. computed \in [Req -> Nat] /\ status \in [Req -> Statuses]
    BY <1>1 DEF Types, RequestTypes
  <2>4. QED
    BY <1>1, <1>10, <2>1, <2>2, <2>3 DEF GrowsElse, kvs
<1>16. Runs(r, base, s, t, n)
  <2>1. /\ step' = Scheduled(step, Entry(r, base \o s, t, n, {}))
        /\ cache' = Cached(Evicted(cache, ToSet(s)), base \o s, t + n)
    BY <1>9, <1>12, <1>13
  <2>2. Grows(r, base, s)
    BY <1>13, <1>14, <1>15 DEF Grows
  <2>3. Blocks(t + n) <= Len(base \o s)
    BY <1>13 DEF to
  <2>4. status'[r] = "running"
    BY <1>15
  <2>5. QED
    BY <1>7, <1>8, <1>15, <2>1, <2>2, <2>3, <2>4 DEF Runs
<1>17. QED
  BY <1>16, RunsData

(* The blocks behind the cached prefix are those the load is to write.        *)
LEMMA LoadCovers ==
  ASSUME NEW base \in Seq(Block), NEW s \in Seq(Block), NEW t \in Nat,
         Len(base) * BlockSize < t,
         NEW b \in Block, NEW p \in Nat, p < t, Holds(base \o s, b, PosOf(p))
  PROVE  \/ p < Len(base) * BlockSize /\ Holds(base, b, PosOf(p)) /\ b \in ToSet(base)
         \/ b \in Covering(base \o s, Len(base) * BlockSize, t)
<1> DEFINE h == Len(base)
           i == PosOf(p)
           from == h * BlockSize
<1>1. h \in Nat /\ i \in Nat /\ i < Blocks(t) /\ Blocks(t) \in Nat /\ from \in Nat
  <2>1. h \in Nat
    BY LenProperties
  <2>2. from \in Nat
    <3> HIDE DEF h
    <3> QED
      BY <2>1, FullBlocks
  <2>3. QED
    BY <2>1, <2>2, PosFacts, BlocksFacts
<1>2. from \div BlockSize = h
  <2>1. h * BlockSize < t
    OBVIOUS
  <2> HIDE DEF h
  <2>2. QED
    BY <1>1, <2>1, BlocksBeyond
<1>3. CASE Holds(base, b, i)
  <2>1. b \in ToSet(base) /\ i < h
    BY <1>1, <1>3, HoldsFacts
  <2>2. i < from \div BlockSize
    BY <1>2, <2>1
  <2> HIDE DEF from
  <2>3. p < from
    BY <1>1, <2>2, PosFacts
  <2>4. QED
    BY <1>3, <2>1, <2>3 DEF from
<1>4. CASE ~Holds(base, b, i)
  <2>1. i >= h
    BY <1>1, <1>4, HoldsMore
  <2>2. i \in (from \div BlockSize)..(Blocks(t) - 1)
    BY <1>1, <1>2, <2>1
  <2>3. (base \o s)[i + 1] = b
    BY DEF Holds
  <2> HIDE DEF from, i
  <2>4. b \in Covering(base \o s, from, t)
    BY <2>2, <2>3 DEF Covering
  <2>5. QED
    BY <2>4 DEF from
<1>5. QED
  BY <1>3, <1>4

LEMMA AdmitLoadData == KVInv /\ DataInv /\ AdmitLoad => DataInv'
<1> SUFFICES ASSUME KVInv, DataInv, AdmitLoad PROVE DataInv'
  OBVIOUS
<1>1. /\ Types /\ EntriesOk /\ step \in Steps /\ cache \in CacheType
      /\ lost \in [Req -> SUBSET Block] /\ data \in [Block -> SUBSET Nat]
      /\ computed \in [Req -> Nat] /\ status \in [Req -> Statuses]
      /\ loading \in [Req -> SUBSET Block]
  BY DEF KVInv, Types, RequestTypes, BlockTypes, EngineTypes, CacheType, DataInv, DataTypes
<1>2. PICK r \in Req : r = Candidate
  BY <1>1, CandidateFacts DEF AdmitLoad
<1>3. /\ Async(r) /\ External(r) > 0 /\ status[r] \in {"waiting", "preempted"} /\ r \notin InStep
  BY <1>1, <1>2, NotInStep DEF AdmitLoad, Ready, Async
<1>4. PICK t : t = Start(r)
  OBVIOUS
<1>5. PICK base : base = Base(r)
  OBVIOUS
<1>6. PICK from : from = Local(r)
  OBVIOUS
<1>7. /\ t \in Nat /\ base \in Seq(Block) /\ from \in Nat /\ from < t
      /\ ToSet(base) \subseteq Range(cache) \union ToSet(table[r])
  BY <1>1, <1>3, <1>4, <1>5, <1>6, StartFacts
<1>8. Sound(base, from) /\ from = Len(base) * BlockSize
  BY <1>3, <1>5, <1>6, LoadStart
<1>9. PICK new \in Takes(Missing(base, t), Free \ ToSet(base)) :
        /\ table' = [table EXCEPT ![r] = base \o SetToSeq(new)]
        /\ data' = [b \in Block |-> IF b \in new THEN {} ELSE data[b]]
        /\ cache' = Evicted(cache, new)
        /\ loading' = [loading EXCEPT ![r] = Covering(base \o SetToSeq(new), from, t)]
  BY <1>2, <1>4, <1>5, <1>6 DEF AdmitLoad
<1>10. /\ computed' = [computed EXCEPT ![r] = t]
       /\ status' = [status EXCEPT ![r] = "remote"]
       /\ lost' = [lost EXCEPT ![r] = {}]
       /\ step' = [step EXCEPT !.passed = <<r>> \o @]
       /\ UNCHANGED <<report, pc>> /\ pc = "schedule"
  BY <1>2, <1>4 DEF AdmitLoad, WaitingLoop
<1>11. PICK free : free = Free \ ToSet(base)
  OBVIOUS
<1>12. Allocates(r, base, t, free, new)
  BY <1>3, <1>7, <1>8, <1>9, <1>11 DEF Allocates
<1>13. Allocated(r, base, t, new)
  BY <1>12, TakesGrow
<1>14. PICK s : s = SetToSeq(new)
  OBVIOUS
<1>15. /\ GrowsTable(r, base, s) /\ ToSet(s) = new /\ s \in Seq(Block)
       /\ base \o s \in Seq(Block) /\ Blocks(t) <= Len(base \o s) /\ new \in SUBSET Block
  BY <1>13, <1>14 DEF Allocated
<1>16. GrowsCache(base \o s, ToSet(s))
  <2>1. ASSUME NEW b \in Block, NEW i \in Index, cache'[i] = b
        PROVE  cache[i] = b /\ b \notin new
    <3>1. Evicted(cache, new)[i] = b
      BY <1>9, <2>1
    <3>2. QED
      BY <1>1, <3>1, EvictedSlots
  <2>2. QED
    BY <1>15, <2>1 DEF GrowsCache, InCache
<1>17. step'.entries = step.entries /\ step'.kv = step.kv
  BY <1>1, <1>10, PassedFacts
<1>18. lost' \in [Req -> SUBSET Block] /\ lost'[r] = {}
  <2>1. {} \in SUBSET Block
    OBVIOUS
  <2>2. QED
    BY <1>1, <1>10, <2>1
<1>19. GrowsElse(r) /\ status'[r] = "remote" /\ computed'[r] = t
       /\ loading'[r] = Covering(base \o s, from, t)
  BY <1>1, <1>9, <1>10, <1>14, <1>17, <1>18 DEF GrowsElse
<1>20. Grows(r, base, s)
  BY <1>15, <1>16, <1>19 DEF Grows
<1>21. LoadOf(r)'
  <2>1. SUFFICES ASSUME NEW b \in Block, NEW p \in Nat, p < t, Holds(base \o s, b, PosOf(p))
                 PROVE  Promised(b, p)' \/ Arrives(r, b)'
    <3>1. table'[r] = base \o s
      BY <1>20, GrowsStages
    <3>2. QED
      BY <1>19, <3>1 DEF LoadOf
  <2>2. \/ p < from /\ Holds(base, b, PosOf(p)) /\ b \in ToSet(base)
        \/ b \in Covering(base \o s, from, t)
    BY <1>7, <1>8, <1>15, <2>1, LoadCovers
  <2>3. CASE p < from /\ Holds(base, b, PosOf(p)) /\ b \in ToSet(base)
    <3>1. Promised(b, p)
      BY <1>8, <2>3 DEF Sound
    <3>2. b \notin ToSet(s)
      BY <1>15, <2>3 DEF GrowsTable
    <3>3. QED
      BY <1>20, <3>1, <3>2, GrowsPromised
  <2>4. CASE b \in Covering(base \o s, from, t)
    BY <1>18, <1>19, <2>4 DEF Arrives
  <2>5. QED
    BY <2>2, <2>3, <2>4
<1>22. DataTypes'
  BY <1>1, <1>9, <1>18 DEF DataTypes
<1>23. Placed'
  BY <1>20, GrowsPlaced DEF DataInv
<1>24. CachePromised'
  <2>1. SUFFICES ASSUME NEW b \in Block, NEW p \in Nat, PosOf(p) \in Index, cache'[PosOf(p)] = b
                 PROVE  Promised(b, p)'
    BY DEF CachePromised, InCache
  <2>2. cache[PosOf(p)] = b /\ b \notin ToSet(s)
    <3>1. Evicted(cache, new)[PosOf(p)] = b
      BY <1>9, <2>1
    <3>2. cache[PosOf(p)] = b /\ b \notin new
      BY <1>1, <2>1, <3>1, EvictedSlots
    <3>3. QED
      BY <1>15, <3>2
  <2>3. Promised(b, p)
    BY <2>1, <2>2 DEF DataInv, CachePromised, InCache
  <2>4. QED
    BY <1>20, <2>2, <2>3, GrowsPromised
<1>25. StepTables' /\ StepPromised'
  <2>1. \A k \in DOMAIN step'.entries : EntryTable(k)' /\ EntryPromised(k)'
    BY <1>17, <1>20, GrowsEntries
  <2>2. QED
    BY <2>1 DEF StepTables, StepPromised
<1>26. LostKnown' /\ LostAlone'
  <2>1. cache' \in CacheType
    BY <1>1, <1>9, <1>15, EvictedFacts
  <2>2. QED
    BY <1>20, <2>1, GrowsLost DEF DataInv
<1>27. ContextPromised' /\ RoomKept'
  <2>1. ASSUME NEW q \in Req, status'[q] \in Contexted
        PROVE  ContextOf(q)' /\ Blocks(computed'[q]) <= Len(table'[q])
    <3>1. q # r
      BY <1>19, <2>1 DEF Contexted
    <3>2. QED
      BY <1>20, <2>1, <3>1, GrowsOthers
  <2>2. QED
    BY <2>1 DEF ContextPromised, RoomKept
<1>28. LoadPromised'
  BY <1>20, <1>21, GrowsOthers DEF LoadPromised
<1>29. StepApart' /\ StepGood'
  BY <1>10 DEF StepApart, StepGood
<1>30. QED
  BY <1>22, <1>23, <1>24, <1>25, <1>26, <1>27, <1>28, <1>29 DEF DataInv

-----------------------------------------------------------------------------
(* Steps that only take blocks away from requests that nobody loads for and   *)
(* that are not in the step.                                                  *)
ShrinksOf(q) ==
  /\ \/ table'[q] = table[q]
     \/ table'[q] = <<>> /\ ~Begun(q) /\ (pc' = "schedule" => q \notin InStep)
  /\ status'[q] \in Contexted =>
       \/ computed'[q] = 0
       \/ status[q] \in Contexted /\ computed'[q] = computed[q] /\ table'[q] = table[q]
  /\ status'[q] = "remote" =>
       status[q] = "remote" /\ computed'[q] = computed[q] /\ table'[q] = table[q]
  /\ pc' = "schedule" /\ q \in InStep => status'[q] = status[q]
Shrinks ==
  /\ UNCHANGED <<cache, data, loading, lost>>
  /\ report'.invalid = report.invalid /\ report'.received = report.received
  /\ step'.entries = step.entries /\ step'.kv = step.kv
  /\ pc' = pc \/ (pc = "schedule" /\ pc' = "flight")
  /\ \A q \in Req : ShrinksOf(q)

(* The blocks of an entry in the making are its request's.                    *)
LEMMA EntryHere ==
  ASSUME KVInv, DataInv, pc # "output", NEW k \in DOMAIN step.entries, NEW b, NEW i,
         Holds(step.entries[k].tab, b, i)
  PROVE  Here(b, i)
<1>1. CASE pc = "schedule"
  <2>1. EntryTable(k)
    BY <1>1 DEF DataInv, StepTables
  <2>2. step.entries[k].req \in Req
    BY StepFields DEF KVInv, Types, EngineTypes
  <2>3. QED
    BY <2>1, <2>2 DEF EntryTable, Here
<1>2. CASE pc = "flight"
  BY <1>2 DEF Here, InEntry
<1>3. pc \in {"schedule", "flight", "output"}
  BY DEF KVInv, Types, EngineTypes
<1>4. QED
  BY <1>1, <1>2, <1>3

LEMMA ShrinksHere ==
  ASSUME KVInv, DataInv, Shrinks, NEW b, NEW i, Here(b, i)'
  PROVE  Here(b, i)
<1>1. /\ cache' = cache /\ step'.entries = step.entries
      /\ pc' = pc \/ (pc = "schedule" /\ pc' = "flight")
      /\ \A q \in Req : table'[q] = table[q] \/ table'[q] = <<>>
  BY DEF Shrinks, ShrinksOf
<1>2. CASE \E q \in Req : Holds(table'[q], b, i)
  BY <1>1, <1>2, NothingHolds DEF Here
<1>3. CASE InCache(b, i)'
  BY <1>1, <1>3 DEF Here, InCache
<1>4. CASE InEntry(b, i)'
  <2>1. PICK k \in DOMAIN step.entries : Holds(step.entries[k].tab, b, i)
    BY <1>1, <1>4 DEF InEntry
  <2>2. pc # "output"
    BY <1>1, <1>4 DEF InEntry
  <2>3. QED
    BY <2>1, <2>2, EntryHere
<1>5. QED
  BY <1>2, <1>3, <1>4 DEF Here

(* No load writes the blocks of a step that leaves.                           *)
LEMMA ApartWhenMade ==
  ASSUME KVInv, DataInv, pc # "output", NEW k \in DOMAIN step.entries, NEW r \in Req,
         NEW b \in loading[r]
  PROVE  b \notin ToSet(step.entries[k].tab)
<1>1. CASE pc = "schedule"
  <2> DEFINE q == step.entries[k].req
  <2>1. step.entries[k].tab = table[q] /\ status[q] = "running" /\ q \in Req
    BY <1>1, StepFields DEF DataInv, StepTables, EntryTable, KVInv, Types, EngineTypes
  <2>2. status[r] \in {"remote", "finished"}
    BY DEF KVInv, StagesOk, StageOf, Loading
  <2>3. QED
    BY <2>1, <2>2 DEF KVInv, Alone
<1>2. CASE pc = "flight"
  BY <1>2 DEF DataInv, StepApart
<1>3. pc \in {"schedule", "flight", "output"}
  BY DEF KVInv, Types, EngineTypes
<1>4. QED
  BY <1>1, <1>2, <1>3

LEMMA ShrinksData ==
  ASSUME KVInv, DataInv, Shrinks
  PROVE  DataInv'
<1>1. /\ cache' = cache /\ data' = data /\ loading' = loading /\ lost' = lost
      /\ report'.invalid = report.invalid /\ report'.received = report.received
      /\ step'.entries = step.entries /\ step'.kv = step.kv
      /\ pc' = pc \/ (pc = "schedule" /\ pc' = "flight")
      /\ \A q \in Req : ShrinksOf(q)
  BY DEF Shrinks
<1>2. Types /\ step \in Steps /\ \A k \in DOMAIN step.entries : step.entries[k].req \in Req
  BY StepFields DEF KVInv, Types, EngineTypes
<1>3. \A b, p : Promised(b, p) => Promised(b, p)'
  BY <1>1 DEF Promised, InData, InWork
<1>4. DataTypes'
  BY <1>1 DEF DataInv, DataTypes
<1>5. Placed'
  BY ShrinksHere DEF DataInv, Placed
<1>6. CachePromised'
  BY <1>1, <1>3 DEF DataInv, CachePromised, InCache
<1>7. Blocks(0) = 0
  <2>1. 0 * BlockSize = 0
    BY KVAssumption
  <2>2. QED
    BY <2>1, FullBlocks
<1>8. ContextPromised' /\ RoomKept'
  <2>1. ASSUME NEW q \in Req, status'[q] \in Contexted
        PROVE  ContextOf(q)' /\ Blocks(computed'[q]) <= Len(table'[q])
    <3>1. ShrinksOf(q)
      BY <1>1
    <3>2. CASE computed'[q] = 0
      <4>1. ~\E p \in Nat : p < 0
        OBVIOUS
      <4>2. Len(table'[q]) \in Nat
        <5>1. table[q] \in Seq(Block) /\ <<>> \in Seq(Block)
          BY <1>2, EmptySeq DEF Types, RequestTypes
        <5>2. table'[q] \in Seq(Block)
          BY <3>1, <5>1 DEF ShrinksOf
        <5>3. QED
          BY <5>2, LenProperties
      <4>3. ContextOf(q)'
        BY <3>2, <4>1 DEF ContextOf
      <4>4. QED
        BY <1>7, <3>2, <4>2, <4>3
    <3>3. CASE status[q] \in Contexted /\ computed'[q] = computed[q] /\ table'[q] = table[q]
      <4>1. ContextOf(q) /\ Blocks(computed[q]) <= Len(table[q])
        BY <3>3 DEF DataInv, ContextPromised, RoomKept
      <4>2. QED
        BY <1>3, <3>3, <4>1 DEF ContextOf
    <3>4. QED
      BY <2>1, <3>1, <3>2, <3>3 DEF ShrinksOf
  <2>2. QED
    BY <2>1 DEF ContextPromised, RoomKept
<1>9. LoadPromised'
  <2>1. SUFFICES ASSUME NEW q \in Req, status'[q] = "remote" PROVE LoadOf(q)'
    BY DEF LoadPromised
  <2>2. status[q] = "remote" /\ computed'[q] = computed[q] /\ table'[q] = table[q]
    BY <1>1, <2>1 DEF ShrinksOf
  <2>3. LoadOf(q)
    BY <2>2 DEF DataInv, LoadPromised
  <2>4. \A b : /\ Arrives(q, b)' <=> Arrives(q, b)
               /\ FailureKnown(b)' <=> FailureKnown(b)
    BY <1>1 DEF Arrives, FailureKnown
  <2>5. QED
    BY <1>3, <2>2, <2>3, <2>4 DEF LoadOf
<1>10. StepTables'
  <2>1. SUFFICES ASSUME pc' = "schedule", NEW k \in DOMAIN step.entries PROVE EntryTable(k)'
    BY <1>1 DEF StepTables
  <2>2. EntryTable(k)
    BY <1>1, <2>1 DEF DataInv, StepTables
  <2>3. step.entries[k].req \in InStep /\ ShrinksOf(step.entries[k].req)
    BY <1>1, <1>2 DEF InStep
  <2>4. QED
    BY <1>1, <2>1, <2>2, <2>3 DEF EntryTable, ShrinksOf
<1>11. StepPromised'
  <2>1. SUFFICES ASSUME pc' # "output", NEW k \in DOMAIN step.entries PROVE EntryPromised(k)'
    BY <1>1 DEF StepPromised
  <2>2. EntryPromised(k)
    BY <1>1, <2>1 DEF DataInv, StepPromised
  <2>3. \A b, p : /\ InData(b, p)' <=> InData(b, p)
                  /\ Earlier(k, b, p)' <=> Earlier(k, b, p)
    BY <1>1 DEF InData, Earlier
  <2>4. QED
    BY <1>1, <2>2, <2>3 DEF EntryPromised
<1>12. StepApart'
  BY <1>1, ApartWhenMade DEF StepApart
<1>13. StepGood'
  BY <1>1 DEF DataInv, StepGood
<1>14. \A q \in Req : /\ Loading(q)' <=> Loading(q)
                      /\ Reported(q)' <=> Reported(q)
                      /\ Begun(q)' <=> Begun(q)
  BY <1>1 DEF Loading, Reported, InOutput, Begun
<1>15. LostKnown'
  BY <1>1, <1>14 DEF DataInv, LostKnown
<1>16. LostAlone'
  <2>1. \A q \in Req : ToSet(table'[q]) \subseteq ToSet(table[q])
    <3>1. ToSet(<<>>) = {}
      BY DEF ToSet
    <3>2. QED
      BY <1>1, <3>1 DEF ShrinksOf
  <2>2. \A q \in Req : Begun(q) => table'[q] = table[q]
    BY <1>1 DEF ShrinksOf
  <2>3. QED
    BY <1>1, <1>14, <2>1, <2>2 DEF DataInv, LostAlone
<1>17. QED
  BY <1>4, <1>5, <1>6, <1>8, <1>9, <1>10, <1>11, <1>12, <1>13, <1>15, <1>16 DEF DataInv

(* Nothing but the queues and the step's own bookkeeping changes.             *)
LEMMA QuietData ==
  ASSUME KVInv, DataInv, UNCHANGED <<cache, data, loading, lost, table, status, computed>>,
         report'.invalid = report.invalid, report'.received = report.received,
         step'.entries = step.entries, step'.kv = step.kv,
         pc' = pc \/ (pc = "schedule" /\ pc' = "flight")
  PROVE  DataInv'
<1>1. \A q \in Req : ShrinksOf(q)
  BY DEF ShrinksOf
<1>2. Shrinks
  BY <1>1 DEF Shrinks
<1>3. QED
  BY <1>2, ShrinksData

LEMMA PassLoadingData == KVInv /\ DataInv /\ PassLoading => DataInv'
<1> SUFFICES ASSUME KVInv, DataInv, PassLoading PROVE DataInv'
  OBVIOUS
<1>1. Types /\ step \in Steps
  BY DEF KVInv, Types, EngineTypes
<1>2. PICK r \in Req : r = Candidate
  BY <1>1, CandidateFacts DEF PassLoading
<1>3. step' = [step EXCEPT !.passed = <<r>> \o @]
      /\ UNCHANGED <<cache, data, loading, lost, table, status, computed, report, pc>>
  BY <1>2 DEF PassLoading, kvs
<1>4. step'.entries = step.entries /\ step'.kv = step.kv
  BY <1>1, <1>3, PassedFacts
<1>5. QED
  BY <1>3, <1>4, QuietData

LEMMA NoRoomData == KVInv /\ DataInv /\ NoRoom => DataInv'
<1> SUFFICES ASSUME KVInv, DataInv, NoRoom PROVE DataInv'
  OBVIOUS
<1>1. step \in Steps
  BY DEF KVInv, Types, EngineTypes
<1>2. step' = [step EXCEPT !.stop = TRUE]
      /\ UNCHANGED <<cache, data, loading, lost, table, status, computed, report, pc>>
  BY DEF NoRoom, kvs
<1>3. step'.entries = step.entries /\ step'.kv = step.kv
  BY <1>1, <1>2 DEF Steps
<1>4. QED
  BY <1>2, <1>3, QuietData

LEMMA DispatchData == KVInv /\ DataInv /\ Dispatch => DataInv'
<1> SUFFICES ASSUME KVInv, DataInv, Dispatch PROVE DataInv'
  OBVIOUS
<1>1. step \in Steps
  BY DEF KVInv, Types, EngineTypes
<1>2. step' = [step EXCEPT !.passed = <<>>] /\ pc = "schedule" /\ pc' = "flight"
      /\ UNCHANGED <<cache, data, loading, lost, table, status, computed, report>>
  BY DEF Dispatch, kvs
<1>3. step'.entries = step.entries /\ step'.kv = step.kv
  BY <1>1, <1>2 DEF Steps
<1>4. QED
  BY <1>2, <1>3, QuietData

LEMMA SendEndsData == ASSUME NEW r \in Req PROVE KVInv /\ DataInv /\ SendEnds(r) => DataInv'
<1> SUFFICES ASSUME KVInv, DataInv, SendEnds(r) PROVE DataInv'
  OBVIOUS
<1>1. /\ report' = [report EXCEPT !.sent = @ \union {r}]
      /\ UNCHANGED <<cache, data, loading, lost, table, status, computed, pc, step>>
  BY DEF SendEnds
<1>2. report'.invalid = report.invalid /\ report'.received = report.received
  BY <1>1 DEF KVInv, Types, EngineTypes, Report
<1>3. QED
  BY <1>1, <1>2, QuietData

LEMMA PreemptForRoomData == KVInv /\ DataInv /\ PreemptForRoom => DataInv'
<1> SUFFICES ASSUME KVInv, DataInv, PreemptForRoom PROVE DataInv'
  OBVIOUS
<1>1. Types /\ StagesOk /\ step \in Steps
  BY DEF KVInv, Types, EngineTypes
<1>2. PICK v : v = Last(running)
  OBVIOUS
<1>3. v \in Req /\ v \notin InStep /\ status[v] = "running"
  BY <1>2, LastRunning DEF PreemptForRoom
<1>4. /\ status' = [status EXCEPT ![v] = "preempted"]
      /\ table' = [table EXCEPT ![v] = <<>>] /\ computed' = [computed EXCEPT ![v] = 0]
      /\ \E b \in BOOLEAN : step' = [step EXCEPT !.preempted = TRUE, !.stop = b]
      /\ UNCHANGED <<cache, data, loading, lost, report, pc>>
  BY <1>2 DEF PreemptForRoom, kvs
<1>5. step'.entries = step.entries /\ step'.kv = step.kv
  BY <1>1, <1>4 DEF Steps
<1>6. ASSUME NEW q \in Req PROVE ShrinksOf(q)
  <2>1. /\ status \in [Req -> Statuses] /\ table \in [Req -> Seq(Block)] /\ computed \in [Req -> Nat]
    BY <1>1 DEF Types, RequestTypes
  <2>2. CASE q = v
    <3>1. ~Begun(q)
      BY <1>1, <1>3, <2>2 DEF StagesOk, StageOf, Begun
    <3>2. table'[q] = <<>> /\ computed'[q] = 0 /\ status'[q] = "preempted"
      BY <1>3, <1>4, <2>1, <2>2
    <3>3. QED
      BY <1>3, <2>2, <3>1, <3>2 DEF ShrinksOf
  <2>3. CASE q # v
    <3>1. table'[q] = table[q] /\ computed'[q] = computed[q] /\ status'[q] = status[q]
      BY <1>3, <1>4, <2>1, <2>3
    <3>2. QED
      BY <3>1 DEF ShrinksOf
  <2>4. QED
    BY <2>2, <2>3
<1>7. Shrinks
  BY <1>4, <1>5, <1>6 DEF Shrinks
<1>8. QED
  BY <1>7, ShrinksData

LEMMA AddRequestData == ASSUME NEW r \in Req PROVE KVInv /\ DataInv /\ AddRequest(r) => DataInv'
<1> SUFFICES ASSUME KVInv, DataInv, AddRequest(r) PROVE DataInv'
  OBVIOUS
<1>1. Types /\ EntriesOk /\ status \in [Req -> Statuses]
  BY DEF KVInv, Types, RequestTypes
<1>2. /\ status[r] = "new" /\ status' = [status EXCEPT ![r] = "waiting"]
      /\ UNCHANGED <<cache, data, loading, lost, table, computed, report, pc, step>>
  BY DEF AddRequest, kvs
<1>3. r \notin InStep
  BY <1>1, <1>2, NotInStep
<1>4. ASSUME NEW q \in Req PROVE ShrinksOf(q)
  <2>1. CASE q = r
    BY <1>1, <1>2, <1>3, <2>1 DEF ShrinksOf, Contexted
  <2>2. CASE q # r
    BY <1>1, <1>2, <2>2 DEF ShrinksOf
  <2>3. QED
    BY <2>1, <2>2
<1>5. Shrinks
  BY <1>2, <1>4 DEF Shrinks
<1>6. QED
  BY <1>5, ShrinksData

LEMMA AbortRequestData ==
  ASSUME NEW r \in Req PROVE KVInv /\ DataInv /\ AbortRequest(r) => DataInv'
<1> SUFFICES ASSUME KVInv, DataInv, AbortRequest(r) PROVE DataInv'
  OBVIOUS
<1>1. Types /\ StagesOk
  BY DEF KVInv
<1>2. /\ status[r] \in {"waiting", "preempted", "remote", "running"}
      /\ pc # "schedule" \/ step = NewStep
      /\ UNCHANGED <<computed, cache, data, loading, lost, report, pc, step>>
  BY DEF AbortRequest, Between
<1>3. /\ \A q \in Req : q # r => status'[q] = status[q] /\ table'[q] = table[q]
      /\ IF status[r] = "remote" /\ r \notin finishedRecv
         THEN status'[r] = "finished" /\ table'[r] = table[r]
         ELSE status'[r] = "gone" /\ table'[r] = <<>>
  BY <1>1, AbortFacts
<1>4. pc' = "schedule" => InStep = {}
  BY <1>2 DEF InStep, NewStep
<1>5. ASSUME NEW q \in Req PROVE ShrinksOf(q)
  <2>1. CASE q = r
    <3>1. StageOf(r)
      BY <1>1 DEF StagesOk
    <3>2. (status[r] = "remote" /\ r \notin finishedRecv) \/ ~Begun(r)
      BY <1>2, <3>1 DEF StageOf, Begun
    <3>3. QED
      BY <1>2, <1>3, <1>4, <2>1, <3>2 DEF ShrinksOf, Contexted
  <2>2. CASE q # r
    BY <1>2, <1>3, <2>2 DEF ShrinksOf
  <2>3. QED
    BY <2>1, <2>2
<1>6. Shrinks
  BY <1>2, <1>5 DEF Shrinks
<1>7. QED
  BY <1>6, ShrinksData

(* One block of a load fails: its failure is in the report from now on.       *)
LEMMA LoadFailsData == ASSUME NEW r \in Req PROVE KVInv /\ DataInv /\ LoadFails(r) => DataInv'
<1> SUFFICES ASSUME KVInv, DataInv, LoadFails(r) PROVE DataInv'
  OBVIOUS
<1>1. PICK a \in loading[r] \ lost[r] :
        /\ lost' = [lost EXCEPT ![r] = @ \union {a}]
        /\ report' = [report EXCEPT !.invalid = @ \union {a}]
  BY DEF LoadFails
<1>2. UNCHANGED <<status, computed, table, cache, data, loading, pc, step>>
  BY DEF LoadFails
<1>3. /\ lost \in [Req -> SUBSET Block] /\ loading \in [Req -> SUBSET Block] /\ report \in Report
  BY DEF DataInv, DataTypes, KVInv, Types, BlockTypes, EngineTypes
<1>4. /\ report'.invalid = report.invalid \union {a} /\ report'.received = report.received
      /\ a \in Block /\ lost'[r] = lost[r] \union {a}
      /\ \A q \in Req : q # r => lost'[q] = lost[q]
      /\ \A q \in Req : lost[q] \subseteq lost'[q]
      /\ lost' \in [Req -> SUBSET Block]
  BY <1>1, <1>3 DEF Report
<1>5. \A b, p : Promised(b, p)' <=> Promised(b, p)
  BY <1>2 DEF Promised, InData, InWork
<1>6. DataTypes' /\ Placed' /\ CachePromised' /\ ContextPromised' /\ RoomKept'
  <2>1. DataTypes'
    BY <1>2, <1>4 DEF DataInv, DataTypes
  <2>2. Placed'
    BY <1>2 DEF DataInv, Placed, Here, InCache, InEntry
  <2>3. CachePromised'
    BY <1>2, <1>5 DEF DataInv, CachePromised, InCache
  <2>4. ContextPromised' /\ RoomKept'
    BY <1>2, <1>5 DEF DataInv, ContextPromised, ContextOf, RoomKept
  <2>5. QED
    BY <2>1, <2>2, <2>3, <2>4
<1>7. LoadPromised'
  <2>1. SUFFICES ASSUME NEW q \in Req, status[q] = "remote" PROVE LoadOf(q)'
    BY <1>2 DEF LoadPromised
  <2>2. LoadOf(q)
    BY <2>1 DEF DataInv, LoadPromised
  <2>3. \A b : /\ FailureKnown(b) \/ b = a => FailureKnown(b)'
               /\ Arrives(q, b) => Arrives(q, b)' \/ b = a
    BY <1>2, <1>4 DEF Arrives, FailureKnown
  <2>4. QED
    BY <1>2, <1>5, <2>2, <2>3 DEF LoadOf
<1>8. StepTables' /\ StepApart' /\ StepGood'
  BY <1>2 DEF DataInv, StepTables, EntryTable, StepApart, StepGood
<1>9. StepPromised'
  <2>1. SUFFICES ASSUME pc # "output", NEW k \in DOMAIN step.entries PROVE EntryPromised(k)'
    BY <1>2 DEF StepPromised
  <2>2. EntryPromised(k)
    BY <2>1 DEF DataInv, StepPromised
  <2>3. \A b, p : /\ InData(b, p)' <=> InData(b, p)
                  /\ Earlier(k, b, p)' <=> Earlier(k, b, p)
    BY <1>2 DEF InData, Earlier
  <2>4. QED
    BY <1>2, <2>2, <2>3 DEF EntryPromised
<1>10. \A q \in Req : /\ Loading(q)' <=> Loading(q)
                      /\ Reported(q)' <=> Reported(q)
                      /\ Begun(q)' <=> Begun(q)
  BY <1>2, <1>4 DEF Loading, Reported, InOutput, Begun
<1>11. Loading(r)
  BY <1>1 DEF Loading
<1>12. LostKnown'
  <2>1. ASSUME NEW b \in report'.invalid
        PROVE  \E q \in Req : (Loading(q)' \/ Reported(q)') /\ b \in lost'[q]
    <3>1. CASE b = a
      BY <1>4, <1>10, <1>11, <3>1
    <3>2. CASE b \in report.invalid
      <4>1. PICK q \in Req : (Loading(q) \/ Reported(q)) /\ b \in lost[q]
        BY <3>2 DEF DataInv, LostKnown
      <4>2. QED
        BY <1>4, <1>10, <4>1
    <3>3. QED
      BY <1>4, <2>1, <3>1, <3>2
  <2>2. ASSUME NEW b \in step'.kv.invalid PROVE \E q \in Req : Begun(q)' /\ b \in lost'[q]
    <3>1. PICK q \in Req : Begun(q) /\ b \in lost[q]
      BY <1>2, <2>2 DEF DataInv, LostKnown
    <3>2. QED
      BY <1>4, <1>10, <3>1
  <2>3. QED
    BY <2>1, <2>2 DEF LostKnown
<1>13. LostAlone'
  <2>1. SUFFICES ASSUME NEW q \in Req, Begun(q), NEW b \in lost'[q]
                 PROVE  /\ b \notin Range(cache) /\ b \in ToSet(table[q])
                        /\ \A x \in Req \ {q} : b \notin ToSet(table[x])
    BY <1>2, <1>10 DEF LostAlone
  <2>2. CASE b \in lost[q]
    BY <2>1, <2>2 DEF DataInv, LostAlone
  <2>3. CASE b = a /\ q = r
    BY <1>1, <2>3 DEF KVInv, Alone
  <2>4. QED
    BY <1>4, <2>1, <2>2, <2>3
<1>14. QED
  BY <1>6, <1>7, <1>8, <1>9, <1>12, <1>13 DEF DataInv

(* The index at which a block is found in a table.                            *)
LEMMA IndexInFacts ==
  ASSUME NEW tab \in Seq(Block), NEW b \in ToSet(tab)
  PROVE  IndexIn(tab, b) \in Nat /\ Holds(tab, b, IndexIn(tab, b))
<1>1. Len(tab) \in Nat /\ DOMAIN tab = 1..Len(tab)
  BY LenProperties
<1> DEFINE I == {i \in 1..Len(tab) : tab[i] = b}
           m == SelectInSeq(tab, LAMBDA x : x = b)
<1>2. m = IF I # {} THEN Min(I) ELSE 0
  BY DEF SelectInSeq
<1>3. I # {} /\ I \in SUBSET Nat
  BY <1>1 DEF ToSet
<1> HIDE DEF m
<1>4. m \in I
  <2> HIDE DEF I
  <2>1. \E x \in I : \A y \in I : x <= y
    BY <1>3, LeastNatural
  <2>2. Min(I) \in I
    BY <2>1 DEF Min
  <2>3. QED
    BY <1>2, <1>3, <2>2
<1>5. m \in 1..Len(tab) /\ tab[m] = b
  BY <1>4
<1>6. IndexIn(tab, b) = m - 1
  BY DEF IndexIn, m
<1>7. m - 1 \in Nat /\ (m - 1) + 1 = m
  BY <1>1, <1>5
<1>8. QED
  BY <1>1, <1>5, <1>6, <1>7 DEF Holds

(* A load is over: its blocks that did not fail have the right KV, and the    *)
(* blocks of all others are as they were.                                     *)
LEMMA LoadEndsData == ASSUME NEW r \in Req PROVE KVInv /\ DataInv /\ LoadEnds(r) => DataInv'
<1> SUFFICES ASSUME KVInv, DataInv, LoadEnds(r) PROVE DataInv'
  OBVIOUS
<1>1. /\ loading[r] # {} /\ data' = Written(data, table[r], loading[r] \ lost[r])
      /\ loading' = [loading EXCEPT ![r] = {}]
      /\ report' = [report EXCEPT !.received = @ \union {r}]
      /\ UNCHANGED <<status, computed, table, cache, lost, pc, step>>
  BY DEF LoadEnds
<1>2. /\ Types /\ Alone /\ Placed /\ data \in [Block -> SUBSET Nat]
      /\ lost \in [Req -> SUBSET Block] /\ loading \in [Req -> SUBSET Block] /\ report \in Report
      /\ table[r] \in Seq(Block) /\ status[r] \in {"remote", "finished"}
      /\ cache \in CacheType
  BY <1>1 DEF DataInv, DataTypes, KVInv, Types, RequestTypes, BlockTypes, EngineTypes,
              StagesOk, StageOf, Loading, CacheType
<1>3. PICK bs \in SUBSET Block : bs = loading[r] \ lost[r]
  BY <1>2
<1>4. \A b \in Block : data'[b] = IF b \in bs THEN Positions(IndexIn(table[r], b)) ELSE data[b]
  BY <1>1, <1>3 DEF Written
<1>5. /\ report'.invalid = report.invalid /\ report'.received = report.received \union {r}
      /\ loading'[r] = {} /\ \A q \in Req : q # r => loading'[q] = loading[q]
  BY <1>1, <1>2 DEF Report
<1>6. \A b \in bs : /\ b \in ToSet(table[r]) /\ b \notin Range(cache)
                    /\ \A q \in Req \ {r} : b \notin ToSet(table[q])
  BY <1>2, <1>3 DEF Alone
<1>7. \A b \in bs : IndexIn(table[r], b) \in Nat /\ Holds(table[r], b, IndexIn(table[r], b))
  BY <1>2, <1>6, IndexInFacts
<1>8. DataTypes'
  <2>1. \A b \in bs : Positions(IndexIn(table[r], b)) \in SUBSET Nat
    <3> SUFFICES ASSUME NEW b \in bs PROVE Positions(IndexIn(table[r], b)) \in SUBSET Nat
      OBVIOUS
    <3>1. PICK i \in Nat : i = IndexIn(table[r], b)
      BY <1>7
    <3>2. i * BlockSize \in Nat
      BY FullBlocks
    <3>3. Positions(i) \in SUBSET Nat
      <4> DEFINE x == i * BlockSize
      <4>1. x \in Nat /\ BlockSize \in Nat
        BY <3>2, KVAssumption
      <4> HIDE DEF x
      <4>2. x..(x + BlockSize - 1) \in SUBSET Nat
        BY <4>1
      <4>3. QED
        BY <4>2 DEF Positions, x
    <3>4. QED
      BY <3>1, <3>3
  <2>2. data' = [b \in Block |-> IF b \in bs THEN Positions(IndexIn(table[r], b)) ELSE data[b]]
    BY <1>1, <1>3 DEF Written
  <2>3. data' \in [Block -> SUBSET Nat]
    BY <1>2, <2>1, <2>2
  <2>4. QED
    BY <1>1, <1>2, <2>3 DEF DataTypes
<1>9. \A b \in Block : b \notin bs => \A p :
        /\ InData(b, p) => InData(b, p)'
        /\ Promised(b, p) => Promised(b, p)'
  BY <1>1, <1>4 DEF Promised, InData, InWork
<1>10. Placed'
  BY <1>1 DEF DataInv, Placed, Here, InCache, InEntry
<1>11. CachePromised'
  <2>1. SUFFICES ASSUME NEW b \in Block, NEW p \in Nat, InCache(b, PosOf(p)) PROVE Promised(b, p)'
    BY <1>1 DEF CachePromised, InCache
  <2>2. b \notin bs
    BY <1>2, <1>6, <2>1, RangeFacts DEF InCache
  <2>3. QED
    BY <1>9, <2>1, <2>2 DEF DataInv, CachePromised
<1>12. \A q \in Req : q # r => \A b \in Block, i \in Nat : Holds(table[q], b, i) => b \notin bs
  BY <1>2, <1>6, TableSlots
<1>13. ContextPromised' /\ RoomKept'
  <2>1. ASSUME NEW q \in Req, status[q] \in Contexted PROVE ContextOf(q)'
    <3>1. q # r
      BY <1>2, <2>1 DEF Contexted
    <3>2. ContextOf(q)
      BY <2>1 DEF DataInv, ContextPromised
    <3>3. \A p \in Nat : PosOf(p) \in Nat
      BY PosFacts
    <3>4. QED
      BY <1>1, <1>9, <1>12, <3>1, <3>2, <3>3 DEF ContextOf
  <2>2. QED
    BY <1>1, <2>1 DEF DataInv, ContextPromised, RoomKept
<1>14. LoadPromised'
  <2>1. SUFFICES ASSUME NEW q \in Req, status[q] = "remote" PROVE LoadOf(q)'
    BY <1>1 DEF LoadPromised
  <2>2. LoadOf(q) /\ \A p \in Nat : PosOf(p) \in Nat
    BY <2>1, PosFacts DEF DataInv, LoadPromised
  <2>3. \A b : FailureKnown(b)' <=> FailureKnown(b)
    BY <1>1, <1>5 DEF FailureKnown
  <2>4. CASE q # r
    <3>1. \A b : Arrives(q, b)' <=> Arrives(q, b)
      BY <1>1, <1>5, <2>4 DEF Arrives
    <3>2. QED
      BY <1>1, <1>9, <1>12, <2>2, <2>3, <2>4, <3>1 DEF LoadOf
  <2>5. CASE q = r
    <3>1. SUFFICES ASSUME NEW b \in Block, NEW p \in Nat, p < computed[r],
                          Holds(table[r], b, PosOf(p))
                   PROVE  Promised(b, p)' \/ FailureKnown(b)'
      BY <1>1, <2>5 DEF LoadOf
    <3>2. CASE b \in bs
      <4>1. PICK i \in Nat : i = IndexIn(table[r], b) /\ Holds(table[r], b, i)
        BY <1>7, <3>2
      <4>2. i = PosOf(p)
        BY <1>2, <2>2, <3>1, <4>1 DEF Placed, Here
      <4>3. p \in Positions(i)
        BY <4>2, PosFacts
      <4>4. QED
        BY <1>4, <3>2, <4>1, <4>3 DEF Promised, InData
    <3>3. CASE b \notin bs
      <4>1. Promised(b, p) \/ FailureKnown(b)
        BY <1>3, <2>2, <2>5, <3>1, <3>3 DEF LoadOf, Arrives
      <4>2. QED
        BY <1>9, <2>3, <3>3, <4>1
    <3>4. QED
      BY <3>2, <3>3
  <2>6. QED
    BY <2>4, <2>5
<1>15. StepTables' /\ StepGood'
  BY <1>1 DEF DataInv, StepTables, EntryTable, StepGood
<1>16. StepApart'
  <2>1. \A q \in Req : loading'[q] \subseteq loading[q]
    BY <1>5
  <2>2. QED
    BY <1>1, <2>1 DEF DataInv, StepApart
<1>17. StepPromised'
  <2>1. SUFFICES ASSUME pc # "output", NEW k \in DOMAIN step.entries PROVE EntryPromised(k)'
    BY <1>1 DEF StepPromised
  <2>2. EntryPromised(k)
    BY <2>1 DEF DataInv, StepPromised
  <2>3. \A b, p : Earlier(k, b, p)' <=> Earlier(k, b, p)
    BY <1>1 DEF Earlier
  <2>4. \A b \in Block, i \in Nat : Holds(step.entries[k].tab, b, i) => b \notin bs
    <3>1. step.entries[k].tab \in Seq(Block)
      BY <2>2 DEF EntryPromised, Planned
    <3>2. \A b \in bs : b \notin ToSet(step.entries[k].tab)
      BY <1>3, <2>1, ApartWhenMade
    <3>3. QED
      BY <3>1, <3>2, HoldsFacts
  <2>5. \A p \in Nat : PosOf(p) \in Nat
    BY PosFacts
  <2>6. QED
    BY <1>1, <1>9, <2>2, <2>3, <2>4, <2>5 DEF EntryPromised
<1>18. \A q \in Req : /\ Loading(q) \/ Reported(q) => Loading(q)' \/ Reported(q)'
                      /\ Begun(q)' <=> Begun(q)
  BY <1>1, <1>5 DEF Loading, Reported, InOutput, Begun
<1>19. LostKnown'
  <2>1. ASSUME NEW b \in report'.invalid
        PROVE  \E q \in Req : (Loading(q)' \/ Reported(q)') /\ b \in lost'[q]
    <3>1. PICK q \in Req : (Loading(q) \/ Reported(q)) /\ b \in lost[q]
      BY <1>5, <2>1 DEF DataInv, LostKnown
    <3>2. QED
      BY <1>1, <1>18, <3>1
  <2>2. ASSUME NEW b \in step'.kv.invalid PROVE \E q \in Req : Begun(q)' /\ b \in lost'[q]
    <3>1. PICK q \in Req : Begun(q) /\ b \in lost[q]
      BY <1>1, <2>2 DEF DataInv, LostKnown
    <3>2. QED
      BY <1>1, <1>18, <3>1
  <2>3. QED
    BY <2>1, <2>2 DEF LostKnown
<1>20. LostAlone'
  BY <1>1, <1>18 DEF DataInv, LostAlone
<1>21. QED
  BY <1>8, <1>10, <1>11, <1>13, <1>14, <1>15, <1>16, <1>17, <1>19, <1>20 DEF DataInv

(* A request whose load is over counts on no block that failed.               *)
LEMMA PromoteData == KVInv /\ DataInv /\ Promote => DataInv'
<1> SUFFICES ASSUME KVInv, DataInv, Promote PROVE DataInv'
  OBVIOUS
<1>1. /\ Types /\ StagesOk /\ RoomOk /\ EntriesOk /\ cache \in CacheType
      /\ computed \in [Req -> Nat] /\ table \in [Req -> Seq(Block)] /\ status \in [Req -> Statuses]
      /\ loading \in [Req -> SUBSET Block]
  BY DEF KVInv, Types, RequestTypes, BlockTypes, CacheType
<1>2. PICK r \in Req : r = Candidate
  BY <1>1, CandidateFacts DEF Promote
<1>3. PICK a : a = AfterLoad(r)
  OBVIOUS
<1>4. /\ status[r] = "remote" /\ r \in finishedRecv
      /\ computed' = [computed EXCEPT ![r] = a.computed]
      /\ table' = [table EXCEPT ![r] = a.table]
      /\ cache' = a.cache
      /\ status' = [status EXCEPT ![r] = IF r \in preempted THEN "preempted" ELSE "waiting"]
      /\ UNCHANGED <<data, loading, lost, report, pc, step>>
      /\ pc = "schedule"
  BY <1>2, <1>3 DEF Promote, WaitingLoop
<1>5. ~Loading(r) /\ ~Reported(r) /\ ~InOutput(r) /\ ~Begun(r) /\ r \notin InStep
  <2>1. StageOf(r)
    BY <1>1 DEF StagesOk
  <2>2. QED
    BY <1>1, <1>4, <2>1, NotInStep DEF StageOf, Begun
<1>6. computed[r] \in Nat /\ table[r] \in Seq(Block) /\ Blocks(computed[r]) <= Len(table[r])
  BY <1>1, <1>4 DEF RoomOk
<1>7. \/ a.computed \in Nat /\ a.computed <= computed[r] /\ a.table = table[r]
         /\ a.cache = Cached(cache, table[r], computed[r])
      \/ a.computed = 0 /\ a.table = <<>> /\ a.cache = cache
  <2>1. Len0[r] \in Nat \ {0}
    BY KVAssumption
  <2>2. CASE r \in failedRecv
    <3>1. CASE computed[r] > 0
      BY <1>3, <1>6, <2>2, <3>1 DEF AfterLoad
    <3>2. CASE ~(computed[r] > 0)
      BY <1>3, <1>6, <2>2, <3>2 DEF AfterLoad
    <3>3. QED
      BY <3>1, <3>2
  <2>3. CASE r \notin failedRecv
    BY <1>3, <1>6, <2>1, <2>3 DEF AfterLoad
  <2>4. QED
    BY <2>2, <2>3
<1>8. /\ computed'[r] = a.computed /\ table'[r] = a.table /\ status'[r] # "remote"
      /\ \A q \in Req : q # r => /\ computed'[q] = computed[q] /\ table'[q] = table[q]
                                 /\ status'[q] = status[q]
  BY <1>1, <1>4
<1>9. /\ computed'[r] \in Nat /\ computed'[r] <= computed[r]
      /\ table'[r] = table[r] \/ (table'[r] = <<>> /\ computed'[r] = 0)
      /\ cache' = cache \/ cache' = Cached(cache, table[r], computed[r])
  BY <1>4, <1>6, <1>7, <1>8
<1>10. \A b, p : /\ Promised(b, p)' <=> Promised(b, p)
                 /\ InData(b, p)' <=> InData(b, p)
  BY <1>4 DEF Promised, InData, InWork
<1>11. ASSUME NEW b \in Block, NEW p \in Nat, p < computed[r], Holds(table[r], b, PosOf(p))
       PROVE  Promised(b, p)
  <2>1. Promised(b, p) \/ Arrives(r, b) \/ FailureKnown(b)
    BY <1>4, <1>11 DEF DataInv, LoadPromised, LoadOf
  <2>2. ~Arrives(r, b)
    BY <1>5 DEF Arrives, Loading
  <2>3. ASSUME FailureKnown(b) PROVE FALSE
    <3>1. PICK q \in Req : Begun(q) /\ b \in lost[q]
      BY <2>3 DEF FailureKnown, DataInv, LostKnown, Begun
    <3>2. q # r
      BY <1>5, <3>1
    <3>3. b \notin ToSet(table[r])
      BY <3>1, <3>2 DEF DataInv, LostAlone
    <3>4. PosOf(p) \in Nat
      BY PosFacts
    <3>5. QED
      BY <1>6, <1>11, <3>3, <3>4, HoldsFacts
  <2>4. QED
    BY <2>1, <2>2, <2>3
<1>12. computed[r] \div BlockSize <= Len(table[r])
  <2> DEFINE t == computed[r]
  <2>1. t \in Nat /\ Blocks(t) <= Len(table[r]) /\ Len(table[r]) \in Nat
    BY <1>6, LenProperties
  <2> HIDE DEF t
  <2>2. t \div BlockSize \in Nat /\ Blocks(t) \in Nat /\ t \div BlockSize <= Blocks(t)
    BY <2>1, BlocksFacts
  <2>3. t \div BlockSize <= Len(table[r])
    BY <2>1, <2>2
  <2>4. QED
    BY <2>3 DEF t
<1>13. ASSUME NEW b \in Block, NEW i, InCache(b, i)'
       PROVE  InCache(b, i) \/ (Holds(table[r], b, i) /\ i < computed[r] \div BlockSize)
  <2>1. i \in Index /\ cache'[i] = b
    BY <1>13 DEF InCache
  <2>2. CASE cache' = cache
    BY <2>1, <2>2 DEF InCache
  <2>3. CASE cache' = Cached(cache, table[r], computed[r])
    <3>1. Cached(cache, table[r], computed[r])[i] = b
      BY <2>1, <2>3
    <3>2. cache[i] = b \/ (Holds(table[r], b, i) /\ i < computed[r] \div BlockSize)
      BY <1>1, <1>6, <1>12, <2>1, <3>1, CachedSlots
    <3>3. QED
      BY <2>1, <3>2 DEF InCache
  <2>4. QED
    BY <1>9, <2>2, <2>3
<1>14. DataTypes'
  BY <1>4 DEF DataInv, DataTypes
<1>15. Placed'
  <2>1. ASSUME NEW b \in Block, NEW i, Here(b, i)' PROVE Here(b, i)
    <3>1. ~InEntry(b, i)'
      BY <1>4 DEF InEntry
    <3>2. CASE InCache(b, i)'
      BY <1>13, <3>2 DEF Here
    <3>3. CASE \E q \in Req : Holds(table'[q], b, i)
      BY <1>8, <1>9, <3>3, NothingHolds DEF Here
    <3>4. QED
      BY <2>1, <3>1, <3>2, <3>3 DEF Here
  <2>2. QED
    BY <2>1 DEF DataInv, Placed
<1>16. CachePromised'
  <2>1. SUFFICES ASSUME NEW b \in Block, NEW p \in Nat, InCache(b, PosOf(p))' PROVE Promised(b, p)
    BY <1>10 DEF CachePromised
  <2>2. CASE InCache(b, PosOf(p))
    BY <2>2 DEF DataInv, CachePromised
  <2>3. CASE Holds(table[r], b, PosOf(p)) /\ PosOf(p) < computed[r] \div BlockSize
    <3>1. p < computed[r]
      BY <1>6, <2>3, PosFacts
    <3>2. QED
      BY <1>11, <2>3, <3>1
  <2>4. QED
    BY <1>13, <2>1, <2>2, <2>3
<1>17. ContextPromised' /\ RoomKept'
  <2>1. ASSUME NEW q \in Req, status'[q] \in Contexted
        PROVE  ContextOf(q)' /\ Blocks(computed'[q]) <= Len(table'[q])
    <3>1. CASE q # r
      <4>1. ContextOf(q) /\ Blocks(computed[q]) <= Len(table[q])
        BY <1>8, <2>1, <3>1 DEF DataInv, ContextPromised, RoomKept
      <4>2. QED
        BY <1>8, <1>10, <3>1, <4>1 DEF ContextOf
    <3>2. CASE q = r
      <4>1. ContextOf(r)'
        <5>1. SUFFICES ASSUME NEW b \in Block, NEW p \in Nat, p < computed'[r],
                              Holds(table'[r], b, PosOf(p))
                       PROVE  Promised(b, p)
          BY <1>10 DEF ContextOf
        <5>2. p < computed[r]
          BY <1>6, <1>9, <5>1
        <5>3. Holds(table[r], b, PosOf(p))
          BY <1>9, <5>1, NothingHolds
        <5>4. QED
          BY <1>11, <5>2, <5>3
      <4>2. Blocks(computed'[r]) <= Len(table'[r])
        <5>1. CASE table'[r] = table[r]
          <6>1. Blocks(computed'[r]) <= Blocks(computed[r])
                /\ Blocks(computed'[r]) \in Nat /\ Blocks(computed[r]) \in Nat
            BY <1>6, <1>9, BlocksFacts
          <6>2. Len(table[r]) \in Nat
            BY <1>6, LenProperties
          <6>3. QED
            BY <1>6, <5>1, <6>1, <6>2
        <5>2. CASE table'[r] = <<>> /\ computed'[r] = 0
          <6>1. 0 * BlockSize = 0
            BY KVAssumption
          <6>2. Blocks(0) = 0
            BY <6>1, FullBlocks
          <6>3. QED
            BY <5>2, <6>2
        <5>3. QED
          BY <1>9, <5>1, <5>2
      <4>3. QED
        BY <3>2, <4>1, <4>2
    <3>3. QED
      BY <3>1, <3>2
  <2>2. QED
    BY <2>1 DEF ContextPromised, RoomKept
<1>18. LoadPromised'
  <2>1. SUFFICES ASSUME NEW q \in Req, status'[q] = "remote" PROVE LoadOf(q)'
    BY DEF LoadPromised
  <2>2. q # r /\ LoadOf(q)
    BY <1>8, <2>1 DEF DataInv, LoadPromised
  <2>3. \A b : /\ Arrives(q, b)' <=> Arrives(q, b)
               /\ FailureKnown(b)' <=> FailureKnown(b)
    BY <1>4 DEF Arrives, FailureKnown
  <2>4. QED
    BY <1>8, <1>10, <2>2, <2>3 DEF LoadOf
<1>19. StepTables'
  <2>1. SUFFICES ASSUME NEW k \in DOMAIN step.entries PROVE EntryTable(k)'
    BY <1>4 DEF StepTables
  <2>2. EntryTable(k) /\ step.entries[k].req \in Req /\ step.entries[k].req # r
    BY <1>1, <1>4, <1>5, StepFields DEF DataInv, StepTables, InStep, Types, EngineTypes
  <2>3. QED
    BY <1>4, <1>8, <2>2 DEF EntryTable
<1>20. StepPromised'
  <2>1. SUFFICES ASSUME NEW k \in DOMAIN step.entries PROVE EntryPromised(k)'
    BY <1>4 DEF StepPromised
  <2>2. EntryPromised(k)
    BY <1>4, <2>1 DEF DataInv, StepPromised
  <2>3. \A b, p : Earlier(k, b, p)' <=> Earlier(k, b, p)
    BY <1>4 DEF Earlier
  <2>4. QED
    BY <1>4, <1>10, <2>2, <2>3 DEF EntryPromised
<1>21. StepApart' /\ StepGood'
  BY <1>4 DEF StepApart, StepGood
<1>22. \A q \in Req : /\ Loading(q)' <=> Loading(q)
                      /\ Reported(q)' <=> Reported(q)
                      /\ Begun(q)' <=> Begun(q)
  BY <1>4 DEF Loading, Reported, InOutput, Begun
<1>23. LostKnown'
  BY <1>4, <1>22 DEF DataInv, LostKnown
<1>24. LostAlone'
  <2>1. SUFFICES ASSUME NEW q \in Req, Begun(q), NEW b \in lost[q]
                 PROVE  /\ b \notin Range(cache') /\ b \in ToSet(table'[q])
                        /\ \A x \in Req \ {q} : b \notin ToSet(table'[x])
    BY <1>4, <1>22 DEF LostAlone
  <2>2. /\ b \notin Range(cache) /\ b \in ToSet(table[q]) /\ q # r
        /\ \A x \in Req \ {q} : b \notin ToSet(table[x])
    BY <1>5, <2>1 DEF DataInv, LostAlone
  <2>3. Range(cache') \subseteq Range(cache) \union ToSet(table[r])
    BY <1>1, <1>6, <1>9, <1>12, CachedFacts
  <2>4. ToSet(<<>>) = {}
    BY DEF ToSet
  <2>5. QED
    BY <1>8, <1>9, <2>2, <2>3, <2>4
<1>25. QED
  BY <1>14, <1>15, <1>16, <1>17, <1>18, <1>19, <1>20, <1>21, <1>23, <1>24 DEF DataInv

-----------------------------------------------------------------------------
(* What is true of the first of a recurrence's values, and of each if it is   *)
(* true of the one before, is true of the last.                               *)
LEMMA Counting ==
  ASSUME NEW n \in Nat, NEW S \in SUBSET (0..n), 0 \in S,
         \A i \in 1..n : i - 1 \in S => i \in S
  PROVE  n \in S
<1> DEFINE h == [i \in 0..n |-> i]
<1>1. h[0] = 0 /\ h[n] = n /\ \A i \in 1..n : h[i] = i /\ h[i - 1] = i - 1
  OBVIOUS
<1> HIDE DEF h
<1>2. h[0] \in S /\ \A i \in 1..n : h[i - 1] \in S => h[i] \in S
  BY <1>1
<1>3. h[n] \in S
  BY <1>2, RecurrenceStays
<1>4. QED
  BY <1>1, <1>3

(* What the forward pass has written and found right so far.                  *)
Works == [data : [Block -> SUBSET Nat], good : SUBSET Req]
ChunkOf(e) == e.from..(e.from + e.n - 1)
OwnOf(e) == Covering(e.tab, e.from, e.from + e.n)

LEMMA ComputeFacts ==
  ASSUME NEW w \in Works, NEW e \in Planned
  PROVE  /\ Compute(w, e) \in Works
         /\ Good(w.data, e.tab, e.from) =>
              /\ Compute(w, e).good = w.good \union {e.req}
              /\ \A b \in Block : b \in OwnOf(e) =>
                   Compute(w, e).data[b] =
                     (w.data[b] \ ChunkOf(e)) \union
                       (ChunkOf(e) \intersect Positions(IndexIn(e.tab, b)))
         /\ \A b \in Block : b \notin OwnOf(e) => Compute(w, e).data[b] = w.data[b]
<1> DEFINE ok == Good(w.data, e.tab, e.from)
           chunk == ChunkOf(e)
           own == OwnOf(e)
           Now(b) == IF ok THEN chunk \intersect Positions(IndexIn(e.tab, b)) ELSE {}
           d == [b \in Block |-> IF b \in own THEN (w.data[b] \ chunk) \union Now(b)
                                 ELSE w.data[b]]
           g == IF ok THEN w.good \union {e.req} ELSE w.good
<1>1. Compute(w, e) = [data |-> d, good |-> g]
  BY DEF Compute, ChunkOf, OwnOf
<1>2. w.data \in [Block -> SUBSET Nat] /\ w.good \in SUBSET Req /\ e.req \in Req
      /\ e.from \in Nat /\ e.n \in Nat
  BY DEF Works, Planned
<1>3. chunk \in SUBSET Nat
  BY <1>2 DEF ChunkOf
<1> HIDE DEF ok, chunk, own
<1>4. \A b \in Block : Now(b) \in SUBSET Nat
  BY <1>3
<1>5. ok => \A b : Now(b) = chunk \intersect Positions(IndexIn(e.tab, b))
  OBVIOUS
<1> HIDE DEF Now
<1>6. d \in [Block -> SUBSET Nat] /\ g \in SUBSET Req
  BY <1>2, <1>4
<1>7. /\ \A b \in Block : b \in own => d[b] = (w.data[b] \ chunk) \union Now(b)
      /\ \A b \in Block : b \notin own => d[b] = w.data[b]
      /\ ok => g = w.good \union {e.req}
  OBVIOUS
<1> HIDE DEF d, g
<1>8. Compute(w, e) \in Works /\ Compute(w, e).data = d /\ Compute(w, e).good = g
  BY <1>1, <1>6 DEF Works
<1>9. QED
  BY <1>5, <1>7, <1>8 DEF ok, chunk, own

(* The forward pass, entry by entry.                                          *)
Passes(before, h) ==
  LET n == Len(step.entries) IN
    /\ h[0] = [data |-> before, good |-> {}]
    /\ \A i \in 0..n : h[i] \in Works
    /\ \A i \in 1..n : h[i] = Compute(h[i - 1], step.entries[i])
    /\ Forward(before) = h[n]
LEMMA ForwardPasses ==
  ASSUME step \in Steps, \A k \in DOMAIN step.entries : step.entries[k] \in Planned,
         NEW before \in [Block -> SUBSET Nat]
  PROVE  \E h : Passes(before, h)
<1> DEFINE n == Len(step.entries)
           first == [data |-> before, good |-> {}]
           G == [i \in 1..n |-> [w \in Works |-> Compute(w, step.entries[i])]]
           Rec(f) == f = [i \in 0..n |-> IF i = 0 THEN first
                                         ELSE Compute(f[i - 1], step.entries[i])]
           f == CHOOSE g : Rec(g)
<1>1. n \in Nat /\ \A i \in 1..n : step.entries[i] \in Planned
  BY StepFields
<1>2. first \in Works
  BY DEF Works
<1>3. \A i \in 1..n : \A w \in Works : Compute(w, step.entries[i]) \in Works
  BY <1>1, ComputeFacts
<1>4. Forward(before) = f[n]
  BY DEF Forward
<1> DEFINE whole == Forward(before)
<1>5. whole = f[n]
  BY <1>4
<1>6. PICK m \in Nat : m = n
  BY <1>1
<1> HIDE DEF n, first, whole
<1>7. G \in [1..n -> [Works -> Works]]
  BY <1>3
<1>8. \A i \in 1..n : \A w \in Works : G[i][w] = Compute(w, step.entries[i])
  OBVIOUS
<1> HIDE DEF G
<1>9. PICK F \in [0..n -> Works] : F[0] = first /\ \A i \in 1..n : F[i] = G[i][F[i - 1]]
  <2>1. Solvable(Works, n, first, G)
    BY <1>1, <1>2, <1>7, RecurrenceSolved
  <2>2. QED
    BY <2>1 DEF Solvable
<1>10. Rec(F)
  <2>1. \A i \in 0..n : F[i] = IF i = 0 THEN first ELSE Compute(F[i - 1], step.entries[i])
    <3>1. \A i \in 1..n : i - 1 \in 0..n
      BY <1>1
    <3>2. \A i \in 1..n : F[i] = Compute(F[i - 1], step.entries[i])
      BY <1>8, <1>9, <3>1
    <3>3. \A i \in 0..n : i = 0 \/ i \in 1..n
      BY <1>1
    <3>4. \A i \in 1..n : i # 0
      BY <1>1
    <3>5. QED
      BY <1>9, <3>2, <3>3, <3>4
  <2>2. F = [i \in 0..n |-> F[i]]
    OBVIOUS
  <2>3. QED
    BY <2>1, <2>2
<1>11. Rec(f)
  <2> HIDE DEF Rec
  <2> QED
    BY <1>10
<1> DEFINE h == f
<1>12. Rec(h) /\ whole = h[n]
  BY <1>5, <1>11
<1> HIDE DEF h, f
<1>13. h[0] = first /\ \A i \in 1..n : h[i] = Compute(h[i - 1], step.entries[i])
  <2>1. 0 \in 0..n /\ \A i \in 1..n : i \in 0..n /\ i # 0
    BY <1>1
  <2>2. QED
    BY <1>12, <2>1
<1> HIDE DEF Rec
<1>14. \A i \in 0..n : h[i] \in Works
  <2> SUFFICES ASSUME NEW k \in 0..n PROVE h[k] \in Works
    OBVIOUS
  <2>1. k \in Nat /\ \A i \in 1..k : i \in 1..n
    BY <1>1
  <2>2. \A i \in 1..k : h[i - 1] \in Works => h[i] \in Works
    BY <1>3, <1>13, <2>1
  <2>3. QED
    BY <1>2, <1>13, <2>1, <2>2, RecurrenceStays
<1>15. Passes(before, h)
  BY <1>12, <1>13, <1>14 DEF Passes, n, first, whole
<1>16. QED
  BY <1>15

(* A step that loads nothing itself.                                          *)
LEMMA LoadedNothing ==
  ASSUME step \in Steps, data \in [Block -> SUBSET Nat],
         \A k \in DOMAIN step.entries : step.entries[k].sync = {}, NEW bad
  PROVE  Loaded(bad) = data
<1> DEFINE n == Len(step.entries)
           W(d, i) == Written(d, step.entries[i].tab, step.entries[i].sync \ bad)
           G == [i \in 1..n |-> [d \in {data} |-> W(d, i)]]
           Rec(f) == f = [i \in 0..n |-> IF i = 0 THEN data
                                         ELSE Written(f[i - 1], step.entries[i].tab,
                                                      step.entries[i].sync \ bad)]
           f == CHOOSE g : Rec(g)
<1>1. n \in Nat /\ DOMAIN step.entries = 1..n
  BY StepFields
<1>2. \A i \in 1..n : W(data, i) = data
  <2> SUFFICES ASSUME NEW i \in 1..n PROVE W(data, i) = data
    OBVIOUS
  <2>1. step.entries[i].sync \ bad = {}
    BY <1>1
  <2>2. W(data, i) = [b \in Block |-> data[b]]
    BY <2>1 DEF Written
  <2>3. QED
    BY <2>2
<1>3. Loaded(bad) = f[n]
  BY DEF Loaded
<1> DEFINE whole == Loaded(bad)
<1>4. whole = f[n]
  BY <1>3
<1> HIDE DEF n, whole
<1>5. G \in [1..n -> [{data} -> {data}]]
  BY <1>2
<1>6. \A i \in 1..n : G[i][data] = W(data, i)
  OBVIOUS
<1> HIDE DEF G
<1>7. PICK F \in [0..n -> {data}] : F[0] = data /\ \A i \in 1..n : F[i] = G[i][F[i - 1]]
  <2> DEFINE V == {data}
  <2>1. G \in [1..n -> [V -> V]] /\ data \in V
    BY <1>5
  <2> HIDE DEF V
  <2>2. Solvable(V, n, data, G)
    BY <1>1, <2>1, RecurrenceSolved
  <2>3. QED
    BY <2>2 DEF Solvable, V
<1>8. Rec(F)
  <2>1. \A i \in 0..n : F[i] = data
    OBVIOUS
  <2>2. \A i \in 1..n : F[i] = W(F[i - 1], i)
    <3>1. \A i \in 1..n : i - 1 \in 0..n /\ i \in 0..n
      BY <1>1
    <3>2. QED
      BY <1>2, <2>1, <3>1
  <2>3. \A i \in 0..n : i # 0 => i \in 1..n
    BY <1>1
  <2>4. F = [i \in 0..n |-> F[i]]
    OBVIOUS
  <2>5. QED
    BY <1>7, <2>2, <2>3, <2>4
<1>9. Rec(f)
  <2> HIDE DEF Rec
  <2> QED
    BY <1>8
<1> DEFINE h == f
<1>10. Rec(h) /\ whole = h[n]
  BY <1>4, <1>9
<1> HIDE DEF h, f
<1>11. h[0] = data /\ \A i \in 1..n : h[i] = W(h[i - 1], i)
  <2>1. 0 \in 0..n /\ \A i \in 1..n : i \in 0..n /\ i # 0
    BY <1>1
  <2>2. QED
    BY <1>10, <2>1
<1> HIDE DEF Rec, W
<1>12. \A i \in 1..n : h[i - 1] \in {data} => h[i] \in {data}
  BY <1>2, <1>11
<1>13. h[n] \in {data}
  <2> DEFINE V == {data}
  <2>1. h[0] \in V /\ \A i \in 1..n : h[i - 1] \in V => h[i] \in V
    BY <1>11, <1>12
  <2> HIDE DEF V
  <2>2. h[n] \in V
    BY <1>1, <2>1, RecurrenceStays
  <2>3. QED
    BY <2>2 DEF V
<1>14. QED
  BY <1>10, <1>13 DEF whole

(* An entry computes from a context that is in place, and writes its chunk.   *)
Written1(i, w) ==
  /\ \A j \in 1..i : step.entries[j].req \in w.good
  /\ \A b \in Block, p \in Nat :
       Here(b, PosOf(p)) /\ (InData(b, p) \/ Earlier(i + 1, b, p)) => p \in w.data[b]

LEMMA EntryComputes ==
  ASSUME KVInv, DataInv, pc = "flight", NEW i \in DOMAIN step.entries,
         NEW w \in Works, Written1(i - 1, w)
  PROVE  Written1(i, Compute(w, step.entries[i]))
<1>1. /\ Len(step.entries) \in Nat /\ DOMAIN step.entries = 1..Len(step.entries)
      /\ step.entries[i].req \in Req
  BY StepFields DEF KVInv, Types, EngineTypes
<1>2. i \in Nat /\ (i - 1) + 1 = i
  BY <1>1
<1>3. PICK e \in Planned : e = step.entries[i]
  BY DEF DataInv, StepPromised, EntryPromised
<1>4. /\ e.sync = {} /\ Blocks(e.from + e.n) <= Len(e.tab)
      /\ \A b \in Block, p \in Nat : p < e.from /\ Holds(e.tab, b, PosOf(p)) =>
           InData(b, p) \/ Earlier(i, b, p)
  BY <1>3 DEF DataInv, StepPromised, EntryPromised
<1>5. e.tab \in Seq(Block) /\ e.from \in Nat /\ e.n \in Nat /\ e.req \in Req
  BY DEF Planned
<1>6. \A b, x : Holds(e.tab, b, x) => Here(b, x)
  BY <1>3 DEF Here, InEntry
<1>7. /\ \A j \in 1..(i - 1) : step.entries[j].req \in w.good
      /\ \A b \in Block, p \in Nat :
           Here(b, PosOf(p)) /\ (InData(b, p) \/ Earlier(i, b, p)) => p \in w.data[b]
  BY <1>2 DEF Written1
<1>8. PICK m \in Nat : m = e.from + e.n
  BY <1>5
<1>9. PICK c \in Nat : c = Len(e.tab)
  BY <1>5, LenProperties
<1>10. \A p \in Nat : p < m => PosOf(p) \in Nat /\ PosOf(p) < c
  <2> SUFFICES ASSUME NEW p \in Nat, p < m PROVE PosOf(p) \in Nat /\ PosOf(p) < c
    OBVIOUS
  <2>1. PosOf(p) \in Nat /\ PosOf(p) < Blocks(m)
    BY PosFacts
  <2>2. Blocks(m) \in Nat /\ Blocks(m) <= c
    BY <1>4, <1>8, <1>9, BlocksFacts
  <2>3. QED
    BY <2>1, <2>2
<1>11. Good(w.data, e.tab, e.from)
  <2>1. SUFFICES ASSUME NEW p \in 0..(e.from - 1)
                 PROVE  p \in w.data[e.tab[PosOf(p) + 1]]
    BY DEF Good, PosOf
  <2>2. p \in Nat /\ p < e.from /\ p < m
    BY <1>5, <1>8, <2>1
  <2>3. PosOf(p) \in Nat /\ PosOf(p) < c
    BY <1>10, <2>2
  <2> DEFINE b == e.tab[PosOf(p) + 1]
  <2>4. Holds(e.tab, b, PosOf(p)) /\ b \in Block
    BY <1>5, <1>9, <2>3, HoldsFacts
  <2>5. InData(b, p) \/ Earlier(i, b, p)
    BY <1>4, <2>2, <2>4
  <2>6. QED
    BY <1>6, <1>7, <2>2, <2>4, <2>5
<1>12. PICK w2 \in Works : w2 = Compute(w, e)
  BY ComputeFacts
<1>13. /\ w2.good = w.good \union {e.req}
       /\ \A b \in Block : b \in OwnOf(e) =>
            w2.data[b] = (w.data[b] \ ChunkOf(e)) \union
                           (ChunkOf(e) \intersect Positions(IndexIn(e.tab, b)))
       /\ \A b \in Block : b \notin OwnOf(e) => w2.data[b] = w.data[b]
  BY <1>11, <1>12, ComputeFacts
<1>14. \A j \in 1..i : step.entries[j].req \in w2.good
  <2>1. \A j \in 1..i : j = i \/ j \in 1..(i - 1)
    BY <1>2
  <2>2. QED
    BY <1>3, <1>7, <1>13, <2>1
<1>15. ChunkOf(e) = e.from..(m - 1)
  <2>1. e.from + e.n - 1 = m - 1
    BY <1>5, <1>8
  <2>2. QED
    BY <2>1 DEF ChunkOf
<1>16. ASSUME NEW b \in OwnOf(e) PROVE b \in ToSet(e.tab)
  <2>1. PICK x \in (e.from \div BlockSize)..(Blocks(m) - 1) : b = e.tab[x + 1]
    BY <1>8, <1>16 DEF OwnOf, Covering
  <2>2. e.from \div BlockSize \in Nat /\ Blocks(m) \in Nat /\ Blocks(m) <= c
    BY <1>4, <1>5, <1>8, <1>9, BlocksFacts
  <2>3. x \in Nat /\ x < c
    BY <2>1, <2>2
  <2>4. QED
    BY <1>5, <1>9, <2>1, <2>3, HoldsFacts
<1>17. ASSUME NEW b, NEW p \in Nat, Writes(e, b, p) PROVE b \in OwnOf(e)
  <2>1. p \in e.from..(m - 1) /\ Holds(e.tab, b, PosOf(p))
    BY <1>15, <1>17 DEF Writes, ChunkOf
  <2>2. e.from <= p /\ p < m
    BY <1>5, <2>1
  <2>3. e.from \div BlockSize <= p \div BlockSize
    BY <1>5, <2>2, KVAssumption, DivMono
  <2>4. PosOf(p) \in Nat /\ PosOf(p) < Blocks(m) /\ Blocks(m) \in Nat
        /\ e.from \div BlockSize \in Nat
    BY <1>5, <2>2, PosFacts, BlocksFacts
  <2>5. PosOf(p) \in (e.from \div BlockSize)..(Blocks(m) - 1)
    BY <2>3, <2>4 DEF PosOf
  <2>6. b = e.tab[PosOf(p) + 1]
    BY <2>1 DEF Holds
  <2>7. QED
    BY <1>8, <2>5, <2>6 DEF OwnOf, Covering
<1>18. ASSUME NEW b \in Block, NEW p \in Nat, Here(b, PosOf(p)),
              InData(b, p) \/ Earlier(i + 1, b, p)
       PROVE  p \in w2.data[b]
  <2>1. InData(b, p) \/ Earlier(i, b, p) \/ Writes(e, b, p)
    <3>1. \A j \in 1..((i + 1) - 1) : j = i \/ j \in 1..(i - 1)
      BY <1>2
    <3>2. QED
      BY <1>3, <1>18, <3>1 DEF Earlier
  <2>2. CASE b \in OwnOf(e)
    <3>1. w2.data[b] = (w.data[b] \ ChunkOf(e)) \union
                         (ChunkOf(e) \intersect Positions(IndexIn(e.tab, b)))
      BY <1>13, <2>2
    <3>2. CASE p \in ChunkOf(e)
      <4>1. PICK x \in Nat : x = IndexIn(e.tab, b) /\ Holds(e.tab, b, x)
        BY <1>5, <1>16, <2>2, IndexInFacts
      <4>2. Here(b, x) /\ PosOf(p) \in Nat
        BY <1>6, <4>1, PosFacts
      <4>3. PosOf(p) = x
        BY <1>18, <4>2 DEF DataInv, Placed
      <4>4. p \in Positions(x)
        BY <4>3, PosFacts
      <4>5. QED
        BY <3>1, <3>2, <4>1, <4>4
    <3>3. CASE p \notin ChunkOf(e)
      <4>1. ~Writes(e, b, p)
        BY <3>3 DEF Writes, ChunkOf
      <4>2. p \in w.data[b]
        BY <1>7, <1>18, <2>1, <4>1
      <4>3. QED
        BY <3>1, <3>3, <4>2
    <3>4. QED
      BY <3>2, <3>3
  <2>3. CASE b \notin OwnOf(e)
    <3>1. ~Writes(e, b, p)
      BY <1>17, <2>3
    <3>2. p \in w.data[b]
      BY <1>7, <1>18, <2>1, <3>1
    <3>3. QED
      BY <1>13, <2>3, <3>2
  <2>4. QED
    BY <2>2, <2>3
<1>19. Written1(i, w2)
  BY <1>14, <1>18 DEF Written1
<1>20. QED
  BY <1>3, <1>12, <1>19

(* The forward pass of a step: every request computes from what is in place,  *)
(* and what was promised is in the blocks.                                    *)
LEMMA ForwardFacts ==
  ASSUME KVInv, DataInv, pc = "flight"
  PROVE  /\ Forward(data) \in Works
         /\ \A k \in DOMAIN step.entries : step.entries[k].req \in Forward(data).good
         /\ \A b \in Block, p \in Nat : Here(b, PosOf(p)) /\ Promised(b, p) =>
              p \in Forward(data).data[b]
<1>1. /\ step \in Steps /\ data \in [Block -> SUBSET Nat]
      /\ \A k \in DOMAIN step.entries : step.entries[k] \in Planned
  BY DEF KVInv, Types, EngineTypes, DataInv, DataTypes, StepPromised, EntryPromised
<1>2. PICK h : Passes(data, h)
  BY <1>1, ForwardPasses
<1>3. PICK n \in Nat : n = Len(step.entries) /\ DOMAIN step.entries = 1..n
  BY <1>1, StepFields
<1>4. /\ h[0] = [data |-> data, good |-> {}]
      /\ \A i \in 0..n : h[i] \in Works
      /\ \A i \in 1..n : h[i] = Compute(h[i - 1], step.entries[i])
      /\ Forward(data) = h[n]
  BY <1>2, <1>3 DEF Passes
<1> DEFINE S == {i \in 0..n : Written1(i, h[i])}
<1>5. 0 \in S
  <2>1. \A b, p : ~Earlier(0 + 1, b, p)
    BY DEF Earlier
  <2>2. h[0].data = data
    BY <1>4
  <2>3. Written1(0, h[0])
    BY <2>1, <2>2 DEF Written1, InData
  <2>4. QED
    BY <2>3
<1>6. ASSUME NEW i \in 1..n, i - 1 \in S PROVE i \in S
  <2>1. h[i - 1] \in Works /\ Written1(i - 1, h[i - 1]) /\ i \in 0..n
    BY <1>4, <1>6
  <2>2. Written1(i, Compute(h[i - 1], step.entries[i]))
    BY <1>3, <2>1, EntryComputes
  <2>3. QED
    BY <1>4, <2>1, <2>2
<1>7. n \in S
  <2>1. S \in SUBSET (0..n)
    OBVIOUS
  <2> HIDE DEF S
  <2>2. QED
    BY <1>5, <1>6, <2>1, Counting
<1>8. Written1(n, h[n]) /\ h[n] \in Works
  BY <1>4, <1>7
<1>9. \A b, p : InWork(b, p) => Earlier(n + 1, b, p)
  <2>1. (n + 1) - 1 = n
    OBVIOUS
  <2>2. QED
    BY <1>3, <2>1 DEF InWork, Earlier
<1>10. QED
  BY <1>3, <1>4, <1>8, <1>9 DEF Written1, Promised

(* The step runs: what it promised is in the blocks now.                      *)
LEMMA ExecuteData == KVInv /\ DataInv /\ Execute => DataInv'
<1> SUFFICES ASSUME KVInv, DataInv, Execute PROVE DataInv'
  OBVIOUS
<1>1. /\ pc = "flight" /\ pc' = "output" /\ report' = NoReport
      /\ UNCHANGED <<status, computed, table, cache, loading, lost>>
  BY DEF Execute
<1>2. /\ step \in Steps /\ report \in Report /\ data \in [Block -> SUBSET Nat]
      /\ step.kv = NoReport
  BY <1>1 DEF KVInv, Types, EngineTypes, DataInv, DataTypes, ReportLater
<1>3. \A k \in DOMAIN step.entries : step.entries[k] \in Planned /\ step.entries[k].sync = {}
  BY <1>1 DEF DataInv, StepPromised, EntryPromised
<1>4. PICK w : w = Forward(data)
  OBVIOUS
<1>5. /\ w \in Works
      /\ \A k \in DOMAIN step.entries : step.entries[k].req \in w.good
      /\ \A b \in Block, p \in Nat : Here(b, PosOf(p)) /\ Promised(b, p) => p \in w.data[b]
  BY <1>1, <1>4, ForwardFacts
<1>6. /\ data' = w.data
      /\ \E none : /\ none = {}
                   /\ step' = [step EXCEPT !.kv = [report EXCEPT !.invalid = @ \union none],
                                           !.entries = [k \in DOMAIN @ |->
                                              [good |-> @[k].req \in w.good, req |-> @[k].req,
                                               n |-> @[k].n, sync |-> @[k].sync]]]
  <2>1. PICK bad \in SUBSET UNION {step.entries[k].sync : k \in DOMAIN step.entries} :
          LET v == Forward(Loaded(bad)) IN
          /\ data' = v.data
          /\ step' = [step EXCEPT !.kv = [report EXCEPT !.invalid = @ \union bad],
                                  !.entries = [k \in DOMAIN @ |->
                                     [good |-> @[k].req \in v.good, req |-> @[k].req,
                                      n |-> @[k].n, sync |-> @[k].sync]]]
    BY DEF Execute
  <2>2. bad = {}
    BY <1>3, <2>1
  <2>3. Loaded(bad) = data
    BY <1>2, <1>3, LoadedNothing
  <2>4. Forward(Loaded(bad)) = w
    BY <1>4, <2>3
  <2>5. QED
    BY <2>1, <2>2, <2>4
<1> DEFINE q == step.entries
           u == [k \in DOMAIN q |-> [good |-> q[k].req \in w.good, req |-> q[k].req,
                                     n |-> q[k].n, sync |-> q[k].sync]]
<1>7. PICK none : /\ none = {}
                  /\ step' = [step EXCEPT !.kv = [report EXCEPT !.invalid = @ \union none],
                                          !.entries = u]
  BY <1>6
<1>8. DOMAIN u = DOMAIN q /\ \A k \in DOMAIN q : u[k].good
  BY <1>5
<1> DEFINE kv == [report EXCEPT !.invalid = @ \union none]
<1>9. kv.invalid = report.invalid /\ kv.received = report.received
  BY <1>2, <1>7 DEF Report
<1> HIDE DEF q, u, kv
<1>10. step'.entries = u /\ step'.kv = kv
  <2>1. step' = [step EXCEPT !.kv = kv, !.entries = u]
    BY <1>7 DEF kv
  <2>2. QED
    BY <1>2, <2>1 DEF Steps
<1>11. /\ report'.invalid = {} /\ report'.received = {}
       /\ step.kv.invalid = {} /\ step.kv.received = {}
       /\ step'.kv.invalid = report.invalid /\ step'.kv.received = report.received
  BY <1>1, <1>2, <1>9, <1>10 DEF NoReport
<1>12. \A b \in Block, p \in Nat : Here(b, PosOf(p)) /\ Promised(b, p) => Promised(b, p)'
  BY <1>5, <1>6 DEF Promised, InData
<1>13. \A b, i : (\E r \in Req : Holds(table[r], b, i)) \/ InCache(b, i) => Here(b, i)
  BY DEF Here
<1>14. DataTypes'
  <2>1. data' \in [Block -> SUBSET Nat]
    BY <1>5, <1>6 DEF Works
  <2>2. QED
    BY <1>1, <2>1 DEF DataInv, DataTypes
<1>15. Placed'
  <2>1. \A b, i : Here(b, i)' => Here(b, i)
    BY <1>1 DEF Here, InCache, InEntry
  <2>2. QED
    BY <2>1 DEF DataInv, Placed
<1>16. CachePromised'
  <2>1. \A b, i : InCache(b, i)' <=> InCache(b, i)
    BY <1>1 DEF InCache
  <2>2. QED
    BY <1>12, <1>13, <2>1 DEF DataInv, CachePromised
<1>17. ContextPromised' /\ RoomKept'
  <2>1. ASSUME NEW r \in Req, status[r] \in Contexted PROVE ContextOf(r)'
    <3>1. ContextOf(r)
      BY <2>1 DEF DataInv, ContextPromised
    <3>2. QED
      BY <1>1, <1>12, <1>13, <2>1, <3>1 DEF ContextOf
  <2>2. QED
    BY <1>1, <2>1 DEF DataInv, ContextPromised, RoomKept
<1>18. LoadPromised'
  <2>1. SUFFICES ASSUME NEW r \in Req, status[r] = "remote" PROVE LoadOf(r)'
    BY <1>1 DEF LoadPromised
  <2>2. LoadOf(r)
    BY <2>1 DEF DataInv, LoadPromised
  <2>3. \A b : /\ Arrives(r, b)' <=> Arrives(r, b)
               /\ FailureKnown(b)' <=> FailureKnown(b)
    BY <1>1, <1>11 DEF Arrives, FailureKnown
  <2>4. QED
    BY <1>1, <1>12, <1>13, <2>1, <2>2, <2>3 DEF LoadOf
<1>19. StepTables' /\ StepPromised' /\ StepApart'
  BY <1>1 DEF StepTables, StepPromised, StepApart
<1>20. StepGood'
  BY <1>8, <1>10 DEF StepGood
<1>21. \A r \in Req : /\ Loading(r) \/ Reported(r) => Begun(r)'
                      /\ Begun(r)' => Begun(r)
  BY <1>1, <1>11 DEF Begun, Loading, Reported, InOutput
<1>22. LostKnown'
  <2>1. ASSUME NEW b \in step'.kv.invalid PROVE \E r \in Req : Begun(r)' /\ b \in lost'[r]
    <3>1. PICK r \in Req : (Loading(r) \/ Reported(r)) /\ b \in lost[r]
      BY <1>11, <2>1 DEF DataInv, LostKnown
    <3>2. QED
      BY <1>1, <1>21, <3>1
  <2>2. QED
    BY <1>11, <2>1 DEF LostKnown
<1>23. LostAlone'
  BY <1>1, <1>21 DEF DataInv, LostAlone
<1>24. QED
  BY <1>14, <1>15, <1>16, <1>17, <1>18, <1>19, <1>20, <1>22, <1>23 DEF DataInv

-----------------------------------------------------------------------------
(***************************************************************************)
(* The queues of the requests that wait: a request is in one place of one  *)
(* of them, and one that loads is among the skipped.                       *)
(***************************************************************************)
Waits == {"waiting", "preempted", "remote"}
QueuesOnce ==
  /\ IsInjective(skipped) /\ IsInjective(waiting) /\ IsInjective(step.passed)
  /\ \A r \in Req : r \in ToSet(waiting) => r \notin ToSet(skipped)
  /\ \A r \in Req : r \in ToSet(step.passed) => r \notin ToSet(skipped) /\ r \notin ToSet(waiting)
QueuedOf(r) ==
  /\ r \in ToSet(waiting) => status[r] \in {"waiting", "preempted"}
  /\ r \in ToSet(skipped) \/ r \in ToSet(step.passed) => status[r] \in Waits
  /\ status[r] = "remote" => r \in ToSet(skipped) \/ r \in ToSet(step.passed)
QueuesKept ==
  /\ QueuesOnce /\ \A r \in Req : QueuedOf(r)
  /\ pc # "schedule" => step.passed = <<>>

LEMMA QueueTyped ==
  ASSUME KVInv
  PROVE  /\ skipped \in Seq(Req) /\ waiting \in Seq(Req) /\ step \in Steps
         /\ step.passed \in Seq(Req) /\ status \in [Req -> Statuses]
         /\ IsInjective(<<>>) /\ ToSet(<<>>) = {}
BY StepFields DEF KVInv, Types, QueueTypes, RequestTypes, EngineTypes, IsInjective, ToSet

LEMMA PassedKept ==
  ASSUME NEW s \in Steps, NEW e
  PROVE  Scheduled(s, e).passed = s.passed
BY DEF Scheduled, Steps

(* Nothing moves from one queue to another.                                   *)
LEMMA QuietQueues ==
  ASSUME QueuesKept, UNCHANGED <<skipped, waiting, status>>, step'.passed = step.passed,
         pc' = "schedule" \/ pc # "schedule"
  PROVE  QueuesKept'
BY DEF QueuesKept, QueuesOnce, QueuedOf

LEMMA ScheduleRunningQueues == KVInv /\ QueuesKept /\ ScheduleRunning => QueuesKept'
<1> SUFFICES ASSUME KVInv, QueuesKept, ScheduleRunning PROVE QueuesKept'
  OBVIOUS
<1>1. \E e : step' = Scheduled(step, e)
  BY DEF ScheduleRunning
<1>2. step'.passed = step.passed
  BY <1>1, QueueTyped, PassedKept
<1>3. UNCHANGED <<skipped, waiting, status>> /\ pc' = "schedule"
  BY DEF ScheduleRunning, RunningLoop
<1>4. QED
  BY <1>2, <1>3, QuietQueues

(* A preempted request goes to the front of the waiting ones.                 *)
LEMMA PreemptForRoomQueues == KVInv /\ QueuesKept /\ PreemptForRoom => QueuesKept'
<1> SUFFICES ASSUME KVInv, QueuesKept, PreemptForRoom PROVE QueuesKept'
  OBVIOUS
<1>1. PICK v \in Req : v = Last(running) /\ status[v] = "running"
  BY LastRunning DEF PreemptForRoom
<1>2. /\ status' = [status EXCEPT ![v] = "preempted"] /\ waiting' = <<v>> \o waiting
      /\ \E b \in BOOLEAN : step' = [step EXCEPT !.preempted = TRUE, !.stop = b]
      /\ UNCHANGED <<skipped, pc>> /\ pc = "schedule"
  BY <1>1 DEF PreemptForRoom, RunningLoop
<1>3. step'.passed = step.passed
  BY <1>2, QueueTyped DEF Steps
<1>4. v \notin ToSet(waiting) /\ v \notin ToSet(skipped) /\ v \notin ToSet(step.passed)
  BY <1>1 DEF QueuesKept, QueuedOf, Waits
<1>5. IsInjective(waiting') /\ ToSet(waiting') = ToSet(waiting) \union {v}
  BY <1>2, <1>4, QueueTyped, ConsFacts DEF QueuesKept, QueuesOnce
<1>6. status'[v] = "preempted" /\ \A r \in Req : r # v => status'[r] = status[r]
  BY <1>2, QueueTyped
<1>7. QueuesOnce'
  BY <1>2, <1>3, <1>4, <1>5 DEF QueuesKept, QueuesOnce
<1>8. \A r \in Req : QueuedOf(r)'
  BY <1>2, <1>3, <1>4, <1>5, <1>6 DEF QueuesKept, QueuedOf, Waits
<1>9. QED
  BY <1>2, <1>7, <1>8 DEF QueuesKept

(* The head of a queue is taken out of it.                                    *)
LEMMA PoppedFacts ==
  ASSUME KVInv, QueuesKept, WaitingLoop, Popped
  PROVE  /\ IsInjective(skipped') /\ IsInjective(waiting')
         /\ Candidate \notin ToSet(skipped') /\ Candidate \notin ToSet(waiting')
         /\ Candidate \notin ToSet(step.passed)
         /\ \A q : q # Candidate => /\ q \in ToSet(skipped') <=> q \in ToSet(skipped)
                                    /\ q \in ToSet(waiting') <=> q \in ToSet(waiting)
         /\ Candidate \in Req /\ Candidate \in ToSet(skipped) \union ToSet(waiting)
<1>1. /\ skipped \in Seq(Req) /\ waiting \in Seq(Req) /\ IsInjective(skipped) /\ IsInjective(waiting)
      /\ \A r \in Req : r \in ToSet(waiting) => r \notin ToSet(skipped)
      /\ \A r \in Req : r \in ToSet(step.passed) => r \notin ToSet(skipped) /\ r \notin ToSet(waiting)
  BY QueueTyped DEF QueuesKept, QueuesOnce
<1>2. \A s \in Seq(Req) : s # <<>> /\ IsInjective(s) =>
        /\ Head(s) \in Req /\ Head(s) \in ToSet(s) /\ IsInjective(Tail(s))
        /\ Head(s) \notin ToSet(Tail(s)) /\ ToSet(s) = ToSet(Tail(s)) \union {Head(s)}
  BY TailFacts
<1>3. CASE skipped # <<>>
  <2>1. Candidate = Head(skipped) /\ skipped' = Tail(skipped) /\ waiting' = waiting
    BY <1>3 DEF Candidate, Popped
  <2>2. QED
    BY <1>1, <1>2, <1>3, <2>1
<1>4. CASE skipped = <<>>
  <2>1. Candidate = Head(waiting) /\ waiting' = Tail(waiting) /\ skipped' = skipped
        /\ waiting # <<>>
    BY <1>4 DEF Candidate, Popped, WaitingLoop
  <2>2. QED
    BY <1>1, <1>2, <2>1
<1>5. QED
  BY <1>3, <1>4

(* The head goes from its queue to the skipped ones of the step.              *)
LEMMA PassedQueues ==
  ASSUME KVInv, QueuesKept, WaitingLoop, Popped, pc' = "schedule",
         step' = [step EXCEPT !.passed = <<Candidate>> \o @],
         status'[Candidate] = "remote",
         \A q \in Req : q # Candidate => status'[q] = status[q]
  PROVE  QueuesKept'
<1> DEFINE r == Candidate
<1>1. /\ IsInjective(skipped') /\ IsInjective(waiting')
      /\ r \notin ToSet(skipped') /\ r \notin ToSet(waiting') /\ r \notin ToSet(step.passed)
      /\ \A q : q # r => /\ q \in ToSet(skipped') <=> q \in ToSet(skipped)
                         /\ q \in ToSet(waiting') <=> q \in ToSet(waiting)
      /\ r \in Req
  BY PoppedFacts
<1> DEFINE c == <<r>> \o step.passed
<1>2. step'.passed = c
  BY QueueTyped DEF Steps
<1>3. status'[r] = "remote" /\ \A q \in Req : q # r => status'[q] = status[q]
  OBVIOUS
<1>4. PICK v : v = r
  OBVIOUS
<1> HIDE DEF r
<1>5. ToSet(c) = ToSet(step.passed) \union {v} /\ IsInjective(c)
  <2>1. IsInjective(step.passed) /\ step.passed \in Seq(Req)
    BY QueueTyped DEF QueuesKept, QueuesOnce
  <2>2. QED
    BY <1>1, <1>4, <2>1, ConsFacts
<1> HIDE DEF c
<1>6. QueuesOnce'
  <2>1. \A q \in Req : q \in ToSet(waiting') => q \notin ToSet(skipped')
    BY <1>1 DEF QueuesKept, QueuesOnce
  <2>2. \A q \in Req : q \in ToSet(c) => q \notin ToSet(skipped') /\ q \notin ToSet(waiting')
    BY <1>1, <1>4, <1>5 DEF QueuesKept, QueuesOnce
  <2>3. QED
    BY <1>1, <1>2, <1>5, <2>1, <2>2 DEF QueuesOnce
<1>7. ASSUME NEW q \in Req PROVE QueuedOf(q)'
  <2>1. CASE q = v
    BY <1>1, <1>2, <1>3, <1>4, <1>5, <2>1 DEF QueuedOf, Waits
  <2>2. CASE q # v
    BY <1>1, <1>2, <1>3, <1>4, <1>5, <2>2 DEF QueuesKept, QueuedOf
  <2>3. QED
    BY <2>1, <2>2
<1>8. QED
  BY <1>6, <1>7 DEF QueuesKept

LEMMA PassLoadingQueues == KVInv /\ QueuesKept /\ PassLoading => QueuesKept'
<1> SUFFICES ASSUME KVInv, QueuesKept, PassLoading PROVE QueuesKept'
  OBVIOUS
<1>1. /\ WaitingLoop /\ Popped /\ status[Candidate] = "remote"
      /\ step' = [step EXCEPT !.passed = <<Candidate>> \o @]
      /\ UNCHANGED <<status, pc>> /\ pc = "schedule"
  BY DEF PassLoading, WaitingLoop
<1>2. PICK v : v = Candidate
  OBVIOUS
<1>3. status'[Candidate] = "remote"
  BY <1>1
<1>4. QED
  BY <1>1, <1>3, PassedQueues

LEMMA AdmitLoadQueues == KVInv /\ QueuesKept /\ AdmitLoad => QueuesKept'
<1> SUFFICES ASSUME KVInv, QueuesKept, AdmitLoad PROVE QueuesKept'
  OBVIOUS
<1>1. /\ WaitingLoop /\ Popped /\ status' = [status EXCEPT ![Candidate] = "remote"]
      /\ step' = [step EXCEPT !.passed = <<Candidate>> \o @]
      /\ UNCHANGED pc /\ pc = "schedule"
  BY DEF AdmitLoad, WaitingLoop
<1>2. Candidate \in Req
  BY <1>1, CandidateFacts DEF KVInv
<1>3. /\ status'[Candidate] = "remote"
      /\ \A q \in Req : q # Candidate => status'[q] = status[q]
  BY <1>1, <1>2, QueueTyped
<1>4. QED
  BY <1>1, <1>3, PassedQueues

LEMMA AdmitRunQueues == KVInv /\ QueuesKept /\ AdmitRun => QueuesKept'
<1> SUFFICES ASSUME KVInv, QueuesKept, AdmitRun PROVE QueuesKept'
  OBVIOUS
<1>1. /\ WaitingLoop /\ Popped /\ status' = [status EXCEPT ![Candidate] = "running"]
      /\ \E e : step' = Scheduled(step, e)
      /\ pc' = "schedule"
  BY DEF AdmitRun, WaitingLoop
<1>2. PICK r : r = Candidate
  OBVIOUS
<1>3. /\ IsInjective(skipped') /\ IsInjective(waiting')
      /\ r \notin ToSet(skipped') /\ r \notin ToSet(waiting') /\ r \notin ToSet(step.passed)
      /\ \A q : q # r => /\ q \in ToSet(skipped') <=> q \in ToSet(skipped)
                         /\ q \in ToSet(waiting') <=> q \in ToSet(waiting)
      /\ r \in Req
  BY <1>1, <1>2, PoppedFacts
<1>4. step'.passed = step.passed
  BY <1>1, QueueTyped, PassedKept
<1>5. status'[r] = "running" /\ \A q \in Req : q # r => status'[q] = status[q]
  BY <1>1, <1>2, <1>3, QueueTyped
<1>6. QueuesOnce'
  BY <1>3, <1>4 DEF QueuesKept, QueuesOnce
<1>7. \A q \in Req : QueuedOf(q)'
  BY <1>3, <1>4, <1>5 DEF QueuesKept, QueuedOf
<1>8. QED
  BY <1>1, <1>6, <1>7 DEF QueuesKept

LEMMA PromoteQueues == KVInv /\ QueuesKept /\ Promote => QueuesKept'
<1> SUFFICES ASSUME KVInv, QueuesKept, Promote PROVE QueuesKept'
  OBVIOUS
<1>1. PICK r \in Req : r = Candidate
  BY CandidateFacts DEF KVInv, Promote
<1>2. /\ status[r] = "remote"
      /\ status' = [status EXCEPT ![r] = IF r \in preempted THEN "preempted" ELSE "waiting"]
      /\ UNCHANGED <<skipped, waiting, pc, step>>
  BY <1>1 DEF Promote
<1>3. status'[r] \in {"waiting", "preempted"} /\ \A q \in Req : q # r => status'[q] = status[q]
  BY <1>2, QueueTyped
<1>4. \A q \in Req : QueuedOf(q)'
  BY <1>2, <1>3 DEF QueuesKept, QueuedOf, Waits
<1>5. QED
  BY <1>2, <1>4 DEF QueuesKept, QueuesOnce

(* The skipped requests go back to their queue.                               *)
LEMMA DispatchQueues == KVInv /\ QueuesKept /\ Dispatch => QueuesKept'
<1> SUFFICES ASSUME KVInv, QueuesKept, Dispatch PROVE QueuesKept'
  OBVIOUS
<1>1. /\ skipped' = step.passed \o skipped /\ step' = [step EXCEPT !.passed = <<>>]
      /\ UNCHANGED <<status, waiting>>
  BY DEF Dispatch
<1>2. step'.passed = <<>>
  BY <1>1, QueueTyped DEF Steps
<1>3. /\ ToSet(skipped') = ToSet(step.passed) \union ToSet(skipped)
      /\ IsInjective(skipped')
  <2> DEFINE p == step.passed
  <2>1. /\ p \in Seq(Req) /\ skipped \in Seq(Req) /\ IsInjective(p) /\ IsInjective(skipped)
    BY QueueTyped DEF QueuesKept, QueuesOnce
  <2>2. ToSet(p) \subseteq Req
    BY <2>1 DEF ToSet
  <2>3. ToSet(p) \intersect ToSet(skipped) = {}
    BY <2>2 DEF QueuesKept, QueuesOnce
  <2> HIDE DEF p
  <2>4. ToSet(p \o skipped) = ToSet(p) \union ToSet(skipped) /\ IsInjective(p \o skipped)
    BY <2>1, <2>3, ConcatFacts
  <2>5. QED
    BY <1>1, <2>4 DEF p
<1>4. QueuesOnce'
  BY <1>1, <1>2, <1>3, QueueTyped DEF QueuesKept, QueuesOnce
<1>5. \A q \in Req : QueuedOf(q)'
  BY <1>1, <1>2, <1>3, QueueTyped DEF QueuesKept, QueuedOf
<1>6. QED
  BY <1>2, <1>4, <1>5 DEF QueuesKept

LEMMA NoRoomQueues == KVInv /\ QueuesKept /\ NoRoom => QueuesKept'
<1> SUFFICES ASSUME KVInv, QueuesKept, NoRoom PROVE QueuesKept'
  OBVIOUS
<1>1. /\ step' = [step EXCEPT !.stop = TRUE] /\ pc' = "schedule"
      /\ UNCHANGED <<skipped, waiting, status>>
  BY DEF NoRoom, WaitingLoop
<1>2. step'.passed = step.passed
  BY <1>1, QueueTyped DEF Steps
<1>3. QED
  BY <1>1, <1>2, QuietQueues

LEMMA ExecuteQueues == KVInv /\ QueuesKept /\ Execute => QueuesKept'
<1> SUFFICES ASSUME KVInv, QueuesKept, Execute PROVE QueuesKept'
  OBVIOUS
<1>1. /\ \E kv, u : step' = [step EXCEPT !.kv = kv, !.entries = u]
      /\ UNCHANGED <<skipped, waiting, status>> /\ pc = "flight"
  BY DEF Execute
<1>2. step'.passed = step.passed
  BY <1>1, QueueTyped DEF Steps
<1>3. QED
  BY <1>1, <1>2, QuietQueues

LEMMA WorkerQueues ==
  ASSUME NEW r \in Req
  PROVE  KVInv /\ QueuesKept /\ (LoadFails(r) \/ LoadEnds(r) \/ SendEnds(r)) => QueuesKept'
<1> SUFFICES ASSUME KVInv, QueuesKept, LoadFails(r) \/ LoadEnds(r) \/ SendEnds(r)
             PROVE  QueuesKept'
  OBVIOUS
<1>1. UNCHANGED <<skipped, waiting, status, step, pc>>
  BY DEF LoadFails, LoadEnds, SendEnds
<1>2. QED
  BY <1>1, QuietQueues

LEMMA AddRequestQueues ==
  ASSUME NEW r \in Req PROVE KVInv /\ QueuesKept /\ AddRequest(r) => QueuesKept'
<1> SUFFICES ASSUME KVInv, QueuesKept, AddRequest(r) PROVE QueuesKept'
  OBVIOUS
<1>1. /\ status[r] = "new" /\ status' = [status EXCEPT ![r] = "waiting"]
      /\ waiting' = Append(waiting, r) /\ UNCHANGED <<skipped, pc, step>>
  BY DEF AddRequest
<1>2. r \notin ToSet(waiting) /\ r \notin ToSet(skipped) /\ r \notin ToSet(step.passed)
  BY <1>1 DEF QueuesKept, QueuedOf, Waits
<1>3. IsInjective(waiting') /\ ToSet(waiting') = ToSet(waiting) \union {r}
  BY <1>1, <1>2, QueueTyped, AppendFacts DEF QueuesKept, QueuesOnce
<1>4. status'[r] = "waiting" /\ \A q \in Req : q # r => status'[q] = status[q]
  BY <1>1, QueueTyped
<1>5. QueuesOnce'
  BY <1>1, <1>2, <1>3 DEF QueuesKept, QueuesOnce
<1>6. \A q \in Req : QueuedOf(q)'
  BY <1>1, <1>2, <1>3, <1>4 DEF QueuesKept, QueuedOf
<1>7. QED
  BY <1>1, <1>5, <1>6 DEF QueuesKept

(* The queues without the requests that are over.                             *)
LEMMA RemovedQueues ==
  ASSUME KVInv, QueuesKept, NEW rs, Removed(rs)
  PROVE  /\ IsInjective(skipped') /\ IsInjective(waiting')
         /\ ToSet(skipped') = ToSet(skipped) \intersect (Req \ rs)
         /\ ToSet(waiting') = ToSet(waiting) \intersect (Req \ rs)
<1> DEFINE S == Req \ rs
<1>1. skipped' = Keep(skipped, S) /\ waiting' = Keep(waiting, S)
  BY DEF Removed
<1>2. skipped \in Seq(Req) /\ waiting \in Seq(Req) /\ IsInjective(skipped) /\ IsInjective(waiting)
  BY QueueTyped DEF QueuesKept, QueuesOnce
<1> HIDE DEF S
<1>3. QED
  BY <1>1, <1>2, KeepFacts DEF S

LEMMA AbortRequestQueues ==
  ASSUME NEW r \in Req PROVE KVInv /\ QueuesKept /\ AbortRequest(r) => QueuesKept'
<1> SUFFICES ASSUME KVInv, QueuesKept, AbortRequest(r) PROVE QueuesKept'
  OBVIOUS
<1>1. /\ Removed({r}) /\ UNCHANGED <<pc, step>> /\ (pc # "schedule" \/ step = NewStep)
  BY DEF AbortRequest, Between
<1>2. step.passed = <<>>
  BY <1>1 DEF QueuesKept, NewStep
<1>3. /\ \A q \in Req : q # r => status'[q] = status[q]
      /\ status'[r] \in {"finished", "gone"}
  <2>1. Types
    BY DEF KVInv
  <2>2. QED
    BY <2>1, AbortFacts
<1>4. /\ IsInjective(skipped') /\ IsInjective(waiting')
      /\ ToSet(skipped') = ToSet(skipped) \intersect (Req \ {r})
      /\ ToSet(waiting') = ToSet(waiting) \intersect (Req \ {r})
  <2>1. PICK rs : rs = {r}
    OBVIOUS
  <2>2. Removed(rs)
    BY <1>1, <2>1
  <2>3. QED
    BY <2>1, <2>2, RemovedQueues
<1>5. QueuesOnce'
  BY <1>1, <1>2, <1>4 DEF QueuesKept, QueuesOnce
<1>6. \A q \in Req : QueuedOf(q)'
  BY <1>1, <1>2, <1>3, <1>4, QueueTyped DEF QueuesKept, QueuedOf
<1>7. QED
  BY <1>1, <1>5, <1>6 DEF QueuesKept

LEMMA UpdateQueues == KVInv /\ QueuesKept /\ Update => QueuesKept'
<1> SUFFICES ASSUME KVInv, QueuesKept, Update PROVE QueuesKept'
  OBVIOUS
<1>1. PICK send \in SUBSET Ending : Becomes(Updated(send))
  BY DEF Update
<1>2. /\ Removed(Ending \union Errors) /\ step' = NewStep /\ pc = "output" /\ pc' = "schedule"
  BY DEF Update
<1>3. PICK rs : rs = Ending \union Errors
  OBVIOUS
<1>4. \A q \in Req : OutputOf(q, send)
  BY <1>1, UpdatedFacts
<1>5. /\ IsInjective(skipped') /\ IsInjective(waiting')
      /\ ToSet(skipped') = ToSet(skipped) \intersect (Req \ rs)
      /\ ToSet(waiting') = ToSet(waiting) \intersect (Req \ rs)
  BY <1>2, <1>3, RemovedQueues
<1>6. step.passed = <<>> /\ step'.passed = <<>>
  BY <1>2 DEF QueuesKept, NewStep
<1>7. \A q \in Req : /\ q \notin rs /\ status[q] \in Waits => status'[q] = status[q]
                     /\ status'[q] = "remote" => q \notin rs /\ status[q] = "remote"
  BY <1>3, <1>4 DEF OutputOf, StaysAs, StaysFinished, BecomesGone, Waits
<1>8. QueuesOnce'
  BY <1>5, <1>6, QueueTyped DEF QueuesKept, QueuesOnce
<1>9. \A q \in Req : QueuedOf(q)'
  BY <1>5, <1>6, <1>7, QueueTyped DEF QueuesKept, QueuedOf, Waits
<1>10. QED
  BY <1>2, <1>8, <1>9 DEF QueuesKept

LEMMA QueuesFirst == Init => QueuesKept
BY DEF Init, QueuesKept, QueuesOnce, QueuedOf, NewStep, IsInjective, ToSet

LEMMA NextQueues == KVInv /\ QueuesKept /\ [Next]_vars => QueuesKept'
<1> SUFFICES ASSUME KVInv, QueuesKept, [Next]_vars PROVE QueuesKept'
  OBVIOUS
<1>1. CASE EngineLoop
  BY <1>1, ScheduleRunningQueues, PreemptForRoomQueues, PassLoadingQueues, PromoteQueues,
     AdmitLoadQueues, AdmitRunQueues, NoRoomQueues, DispatchQueues, ExecuteQueues, UpdateQueues
     DEF EngineLoop
<1>2. ASSUME NEW r \in Req, LoadFails(r) \/ LoadEnds(r) \/ SendEnds(r) PROVE QueuesKept'
  BY <1>2, WorkerQueues
<1>3. ASSUME NEW r \in Req, AddRequest(r) \/ AbortRequest(r) PROVE QueuesKept'
  BY <1>3, AddRequestQueues, AbortRequestQueues
<1>4. CASE UNCHANGED vars
  <2>1. UNCHANGED <<skipped, waiting, status, step, pc>>
    BY <1>4 DEF vars
  <2>2. QED
    BY <2>1, QuietQueues
<1>5. QED
  BY <1>1, <1>2, <1>3, <1>4 DEF Next

LEMMA TimesMono ==
  ASSUME NEW n \in Nat \ {0}, NEW x \in Nat, NEW y \in Nat, x <= y
  PROVE  x * n <= y * n
<1>1. x = y \/ x < y
  OBVIOUS
<1>2. x < y => n * x + n <= n * y
  BY MulMono
<1>3. n * x \in Int /\ n * x = x * n /\ n * y \in Int /\ n * y = y * n
  BY MulMono
<1> DEFINE a == n * x
           b == n * y
<1>4. x * n = a /\ y * n = b /\ a \in Int /\ b \in Int /\ (x < y => a + n <= b) /\ (x = y => a = b)
  BY <1>2, <1>3
<1> HIDE DEF a, b
<1>5. QED
  BY <1>1, <1>4

(* What the scan of one request changes: its own computed tokens, cut at its   *)
(* first block that failed and that no other request recomputes.              *)
LEMMA ScanCuts ==
  ASSUME Types, EntriesOk, NEW acc \in Accs, NEW r \in Scannable
  PROVE  /\ \A q \in Req : q # r => Scan(acc, r).computed[q] = acc.computed[q]
         /\ \A x \in Scan(acc, r).marked : x \in acc.marked \/ x \in ToSet(table[r])
         /\ \A b \in step.kv.invalid, i \in Nat :
              b \notin acc.marked /\ Holds(table[r], b, i) /\ i < Blocks(computed[r] - Tokens(r)) =>
                Scan(acc, r).computed[r] <= i * BlockSize
<1> DEFINE had == computed[r] - Tokens(r)
           tab == table[r]
           hits == {i \in 0..(Blocks(had) - 1) : i < Len(tab) /\ tab[i + 1] \in step.kv.invalid}
           own == {i \in hits : tab[i + 1] \notin acc.marked}
           least == Min(own)
           from == IF own = {} THEN had ELSE least * BlockSize
           more == IF own = {} THEN {} ELSE {tab[i] : i \in (least + 1)..Len(tab)}
           again == {tab[i + 1] : i \in own}
<1>1. /\ acc.computed \in [Req -> Nat] /\ r \in Req
      /\ acc \in [affected : SUBSET Scannable, marked : SUBSET Block, computed : Counted,
                  evict : SUBSET Block]
  BY DEF Accs, Counted, Scannable
<1>2. had \in Nat
  <2>1. Tokens(r) \in Nat /\ Tokens(r) <= computed[r] /\ computed[r] \in Nat
    BY TokensFacts
  <2>2. QED
    BY <2>1
<1>3. tab \in Seq(Block) /\ Len(tab) \in Nat /\ DOMAIN tab = 1..Len(tab)
  <2>1. tab \in Seq(Block)
    BY <1>1 DEF Types, RequestTypes
  <2>2. QED
    BY <2>1, LenProperties
<1> HIDE DEF tab, had
<1>4. Blocks(had) \in Nat
  BY <1>2, BlocksFacts
<1>5. \A i \in own : i \in Nat /\ i < Len(tab)
  BY <1>4
<1>6. Scan(acc, r) = IF hits = {} THEN acc
                     ELSE [acc EXCEPT !.affected = @ \union {r}, !.marked = @ \union again,
                                      !.computed[r] = from, !.evict = @ \union more]
  BY DEF Scan, tab, had
<1>7. own \in SUBSET hits
  OBVIOUS
<1>8. \A b \in step.kv.invalid, i \in Nat :
        b \notin acc.marked /\ Holds(tab, b, i) /\ i < Blocks(had) => i \in own
  <2> SUFFICES ASSUME NEW b \in step.kv.invalid, NEW i \in Nat, b \notin acc.marked,
                      Holds(tab, b, i), i < Blocks(had)
               PROVE  i \in own
    OBVIOUS
  <2>1. i < Len(tab) /\ tab[i + 1] = b
    BY <1>3, HoldsFacts DEF Holds
  <2>2. i \in 0..(Blocks(had) - 1)
    BY <1>4
  <2>3. QED
    BY <2>1, <2>2
<1>9. \A i \in own : i + 1 \in 1..Len(tab)
  BY <1>3, <1>5
<1> HIDE DEF own, hits
<1>10. again \subseteq ToSet(tab)
  BY <1>3, <1>9 DEF ToSet
<1>11. own # {} => least \in own /\ \A i \in own : least <= i
  <2> SUFFICES ASSUME own # {} PROVE least \in own /\ \A i \in own : least <= i
    OBVIOUS
  <2>1. own \in SUBSET Nat
    BY <1>5
  <2>2. \E x \in own : \A y \in own : x <= y
    BY <2>1, LeastNatural
  <2>3. QED
    BY <2>2 DEF Min
<1>12. own # {} => from = least * BlockSize
  OBVIOUS
<1> HIDE DEF least, from, more, again
<1>13. CASE hits # {}
  <2>1. /\ \A q \in Req : q # r => Scan(acc, r).computed[q] = acc.computed[q]
        /\ Scan(acc, r).computed[r] = from
        /\ Scan(acc, r).marked = acc.marked \union again
    <3> DEFINE a == acc.affected \union {r}
               m == acc.marked \union again
               e == acc.evict \union more
    <3>1. Scan(acc, r) = [acc EXCEPT !.affected = a, !.marked = m,
                                     !.computed = [acc.computed EXCEPT ![r] = from], !.evict = e]
      BY <1>6, <1>13
    <3> DEFINE c == [acc.computed EXCEPT ![r] = from]
    <3>2. c[r] = from /\ \A q \in Req : q # r => c[q] = acc.computed[q]
      BY <1>1
    <3> HIDE DEF a, m, e, c
    <3>3. Scan(acc, r).computed = c /\ Scan(acc, r).marked = m
      BY <1>1, <3>1 DEF c
    <3>4. QED
      BY <3>2, <3>3 DEF m
  <2>2. ASSUME NEW b \in step.kv.invalid, NEW i \in Nat, b \notin acc.marked,
               Holds(tab, b, i), i < Blocks(had)
        PROVE  from <= i * BlockSize
    <3>1. i \in own
      BY <1>8, <2>2
    <3>2. least <= i /\ least \in Nat /\ from = least * BlockSize
      BY <1>5, <1>11, <1>12, <3>1
    <3>3. \A x, y \in Nat : x <= y => x * BlockSize <= y * BlockSize
      BY KVAssumption, TimesMono
    <3>4. QED
      BY <3>2, <3>3
  <2>3. QED
    BY <1>10, <2>1, <2>2 DEF tab, had
<1>14. CASE hits = {}
  <2>1. Scan(acc, r) = acc
    BY <1>6, <1>14
  <2>2. \A b \in step.kv.invalid, i \in Nat :
          ~(b \notin acc.marked /\ Holds(tab, b, i) /\ i < Blocks(had))
    BY <1>7, <1>8, <1>14
  <2>3. QED
    BY <2>1, <2>2 DEF tab, had
<1>15. QED
  BY <1>13, <1>14

(* A request that is not scanned keeps its computed tokens.                   *)
LEMMA ScannedElse ==
  ASSUME Types, EntriesOk, NEW rs \in Seq(Scannable), NEW c \in Counted,
         NEW q \in Req, q \notin ToSet(rs)
  PROVE  Scanned(rs, c).computed[q] = c[q]
<1>1. PICK h : ScansBy(rs, c, h)
  BY ScannedBy
<1>2. PICK n \in Nat : n = Len(rs) /\ DOMAIN rs = 1..n
  BY LenProperties
<1>3. /\ \A i \in 0..n : h[i] \in Accs
      /\ h[0].computed = c
      /\ \A i \in 1..n : rs[i] \in Scannable /\ h[i] = Scan(h[i - 1], rs[i])
      /\ Scanned(rs, c) = h[n]
  BY <1>1, <1>2 DEF ScansBy
<1> DEFINE S == {i \in 0..n : h[i].computed[q] = c[q]}
<1>4. 0 \in S
  BY <1>3
<1>5. ASSUME NEW i \in 1..n, i - 1 \in S PROVE i \in S
  <2>1. rs[i] # q /\ i - 1 \in 0..n /\ i \in 0..n
    BY <1>2 DEF ToSet
  <2>2. Scan(h[i - 1], rs[i]).computed[q] = h[i - 1].computed[q]
    BY <1>3, <2>1, ScanCuts
  <2>3. QED
    BY <1>3, <1>5, <2>1, <2>2
<1>6. n \in S
  <2>1. S \in SUBSET (0..n)
    OBVIOUS
  <2> HIDE DEF S
  <2>2. QED
    BY <1>4, <1>5, <2>1, Counting
<1>7. QED
  BY <1>3, <1>6

(* A block that failed and that only q has cuts q's computed tokens.          *)
LEMMA ScannedCut ==
  ASSUME Types, EntriesOk, NEW rs \in Seq(Scannable), IsInjective(rs), NEW c \in Counted,
         NEW q \in ToSet(rs), NEW b \in step.kv.invalid, NEW x \in Nat,
         Holds(table[q], b, x), x < Blocks(computed[q] - Tokens(q)),
         \A r \in Req : r # q => b \notin ToSet(table[r])
  PROVE  Scanned(rs, c).computed[q] <= x * BlockSize
<1>1. PICK h : ScansBy(rs, c, h)
  BY ScannedBy
<1>2. PICK n \in Nat : n = Len(rs) /\ DOMAIN rs = 1..n
  BY LenProperties
<1>3. /\ \A i \in 0..n : h[i] \in Accs
      /\ h[0].marked = {}
      /\ \A i \in 1..n : rs[i] \in Scannable /\ h[i] = Scan(h[i - 1], rs[i])
      /\ Scanned(rs, c) = h[n]
  BY <1>1, <1>2 DEF ScansBy
<1>4. PICK m \in 1..n : rs[m] = q
  BY <1>2 DEF ToSet
<1>5. \A i \in 1..n : rs[i] = q => i = m
  BY <1>2, <1>4 DEF IsInjective
<1>6. \A r \in Scannable : r \in Req
  BY DEF Scannable
<1> DEFINE S == {i \in 0..n : /\ i < m => b \notin h[i].marked
                              /\ i >= m => h[i].computed[q] <= x * BlockSize}
<1>7. 0 \in S
  BY <1>3
<1>8. ASSUME NEW i \in 1..n, i - 1 \in S PROVE i \in S
  <2>1. h[i - 1] \in Accs /\ i \in 0..n /\ rs[i] \in Scannable /\ rs[i] \in Req
    BY <1>3, <1>6, <1>8
  <2>2. /\ \A r \in Req : r # rs[i] => h[i].computed[r] = h[i - 1].computed[r]
        /\ \A y \in h[i].marked : y \in h[i - 1].marked \/ y \in ToSet(table[rs[i]])
        /\ b \notin h[i - 1].marked /\ Holds(table[rs[i]], b, x)
             /\ x < Blocks(computed[rs[i]] - Tokens(rs[i])) =>
             h[i].computed[rs[i]] <= x * BlockSize
    <3>1. h[i] = Scan(h[i - 1], rs[i])
      BY <1>3
    <3>2. QED
      BY <2>1, <3>1, ScanCuts
  <2>3. CASE i < m
    <3>1. i - 1 < m /\ ~(i >= m) /\ rs[i] # q
      BY <1>5, <2>3
    <3>2. b \notin h[i - 1].marked
      BY <1>8, <3>1
    <3>3. b \notin h[i].marked
      BY <2>1, <2>2, <3>1, <3>2
    <3>4. QED
      BY <2>1, <3>1, <3>3
  <2>4. CASE i = m
    <3>1. i - 1 < m /\ ~(i < m)
      BY <2>4
    <3>2. b \notin h[i - 1].marked
      BY <1>8, <3>1
    <3>3. h[i].computed[q] <= x * BlockSize
      BY <1>4, <2>2, <2>4, <3>2
    <3>4. QED
      BY <2>1, <3>1, <3>3
  <2>5. CASE i > m
    <3>1. i - 1 >= m /\ ~(i < m) /\ rs[i] # q
      BY <1>5, <2>5
    <3>2. h[i - 1].computed[q] <= x * BlockSize
      BY <1>8, <3>1
    <3>3. q \in Req
      BY <1>3, <1>4, <1>6
    <3>4. h[i].computed[q] <= x * BlockSize
      BY <2>2, <3>1, <3>2, <3>3
    <3>5. QED
      BY <2>1, <3>1, <3>4
  <2>6. QED
    BY <2>3, <2>4, <2>5
<1>9. n \in S
  <2>1. S \in SUBSET (0..n)
    OBVIOUS
  <2> HIDE DEF S
  <2>2. QED
    BY <1>7, <1>8, <2>1, Counting
<1>10. QED
  BY <1>3, <1>4, <1>9

(* A request whose load is under way or over is cut at each of its failures.  *)
LEMMA LostCut ==
  ASSUME KVInv, DataInv, QueuesKept, pc = "output", NEW q \in Req, status[q] = "remote",
         NEW b \in step.kv.invalid, NEW p \in Nat, p < computed[q], Holds(table[q], b, PosOf(p))
  PROVE  SyncScan.computed[q] <= p
<1>1. /\ Types /\ EntriesOk /\ RunningOk /\ computed \in [Req -> Nat] /\ table \in [Req -> Seq(Block)]
      /\ skipped \in Seq(Req) /\ running \in Seq(Req)
  BY DEF KVInv, Types, RequestTypes, QueueTypes
<1>2. PosOf(p) \in Nat /\ PosOf(p) < Blocks(computed[q])
  BY <1>1, PosFacts
<1>3. \A r \in Req : r # q => b \notin ToSet(table[r])
  <2>1. b \in ToSet(table[q])
    BY <1>1, <1>2, TableSlots
  <2>2. PICK r \in Req : Begun(r) /\ b \in lost[r]
    BY DEF DataInv, LostKnown
  <2>3. \A y \in Req \ {r} : b \notin ToSet(table[y])
    BY <2>2 DEF DataInv, LostAlone
  <2>4. QED
    BY <2>1, <2>3
<1>4. Tokens(q) = 0
  <2>1. \A k \in DOMAIN step.entries : step.entries[k].req # q
    BY <1>1 DEF EntriesOk
  <2>2. {k \in DOMAIN step.entries : step.entries[k].req = q} = {}
    BY <2>1
  <2>3. QED
    BY <2>2 DEF Tokens
<1>5. computed[q] - Tokens(q) = computed[q]
  BY <1>1, <1>4
<1> DEFINE remote == {r \in Req : status[r] = "remote"}
           rs == Keep(skipped, remote)
<1>6. rs \in Seq(Req) /\ ToSet(rs) = ToSet(skipped) \intersect remote /\ IsInjective(rs)
  <2> HIDE DEF remote
  <2>1. IsInjective(skipped)
    BY DEF QueuesKept, QueuesOnce
  <2>2. QED
    BY <1>1, <2>1, KeepFacts
<1>7. q \in ToSet(rs)
  <2>1. step.passed = <<>> /\ QueuedOf(q)
    BY DEF QueuesKept
  <2>2. q \in ToSet(skipped)
    BY <2>1 DEF QueuedOf, ToSet
  <2>3. QED
    BY <1>6, <2>2
<1>8. AsyncScan = Scanned(rs, computed) /\ SyncScan = Scanned(running, AsyncScan.computed)
  BY DEF AsyncScan, SyncScan
<1>9. \A s \in Seq(Req) : ToSet(s) \subseteq Scannable => s \in Seq(Scannable)
  <2> SUFFICES ASSUME NEW s \in Seq(Req), ToSet(s) \subseteq Scannable PROVE s \in Seq(Scannable)
    OBVIOUS
  <2> DEFINE S == Scannable
  <2> HIDE DEF S
  <2>1. Len(s) \in Nat /\ DOMAIN s = 1..Len(s) /\ s \in [1..Len(s) -> Req]
    BY LenProperties
  <2>2. \A i \in 1..Len(s) : s[i] \in S
    BY <2>1 DEF ToSet, S
  <2>3. s \in [1..Len(s) -> S]
    BY <2>1, <2>2
  <2>4. s \in Seq(S)
    BY <2>1, <2>3
  <2>5. QED
    BY <2>4 DEF S
<1>10. remote \subseteq Scannable
  BY DEF Scannable
<1> HIDE DEF rs, remote
<1>11. rs \in Seq(Scannable)
  <2>1. ToSet(rs) \subseteq Scannable
    BY <1>6, <1>10
  <2>2. QED
    BY <1>6, <1>9, <2>1
<1>12. running \in Seq(Scannable) /\ q \notin ToSet(running)
  <2>1. \A r \in ToSet(running) : r \in Req /\ status[r] = "running"
    BY <1>1, LenProperties, ElementOfSeq DEF RunningOk, ToSet
  <2>2. ToSet(running) \subseteq Scannable
    BY <2>1 DEF Scannable
  <2>3. QED
    BY <1>1, <1>9, <2>1, <2>2
<1>13. computed \in Counted
  <2>1. \A r \in Req : computed[r] <= computed[r]
    BY <1>1
  <2>2. QED
    BY <1>1, <2>1 DEF Counted
<1>14. AsyncScan \in Accs /\ AsyncScan.computed \in Counted
  BY <1>1, ScansFacts DEF Accs
<1>15. AsyncScan.computed[q] <= PosOf(p) * BlockSize
  BY <1>1, <1>2, <1>3, <1>5, <1>6, <1>7, <1>8, <1>11, <1>13, ScannedCut
<1>16. SyncScan.computed[q] = AsyncScan.computed[q]
  BY <1>1, <1>8, <1>12, <1>14, ScannedElse
<1>17. PosOf(p) * BlockSize \in Nat /\ PosOf(p) * BlockSize <= p
  <2>1. BlockSize \in Nat \ {0} /\ PosOf(p) = p \div BlockSize
    BY KVAssumption DEF PosOf
  <2> DEFINE y == BlockSize * (p \div BlockSize)
  <2>2. y \in Int /\ y = (p \div BlockSize) * BlockSize /\ p = y + (p % BlockSize)
        /\ p % BlockSize \in Nat
    BY <2>1, DivMod, MulMono
  <2>3. PosOf(p) * BlockSize = y /\ PosOf(p) * BlockSize \in Nat
    BY <1>2, <2>1, <2>2, FullBlocks
  <2> DEFINE z == PosOf(p) * BlockSize
             g == p % BlockSize
  <2>4. z = y /\ z \in Nat /\ p = y + g /\ g \in Nat
    BY <2>2, <2>3
  <2> HIDE DEF y, z, g
  <2>5. z \in Nat /\ z <= p
    BY <2>4
  <2>6. QED
    BY <2>5 DEF z
<1>18. AsyncScan.computed[q] \in Nat
  BY <1>14 DEF Counted
<1> DEFINE z == PosOf(p) * BlockSize
<1>19. z \in Nat /\ z <= p /\ AsyncScan.computed[q] <= z
  BY <1>15, <1>17
<1> HIDE DEF z
<1>20. QED
  BY <1>16, <1>18, <1>19

-----------------------------------------------------------------------------
(* The output of a step: computed tokens are cut at the failures, the blocks  *)
(* behind them leave the cache, and requests that are over their tables.      *)
LEMMA UpdateData == KVInv /\ DataInv /\ QueuesKept /\ Update => DataInv'
<1> SUFFICES ASSUME KVInv, DataInv, QueuesKept, Update PROVE DataInv'
  OBVIOUS
<1>1. Types /\ StagesOk
  BY DEF KVInv
<1>2. PICK send \in SUBSET Ending : Becomes(Updated(send))
  BY DEF Update
<1>3. /\ pc = "output" /\ computed' = SyncScan.computed
      /\ cache' = IF policy = "fail" THEN Evicted(cache, SyncScan.evict) ELSE cache
      /\ pc' = "schedule" /\ step' = NewStep
      /\ UNCHANGED <<data, loading, lost, report>>
  BY DEF Update
<1>4. \A r \in Req : OutputOf(r, send)
  BY <1>2, UpdatedFacts
<1>5. /\ \A r \in Ending : status[r] = "running"
      /\ \A r \in Errors : status[r] \in {"remote", "running"}
      /\ SyncScan.computed \in Counted /\ SyncScan.evict \in SUBSET Block
  BY EndingFacts
<1>6. computed' \in [Req -> Nat] /\ \A r \in Req : computed'[r] <= computed[r]
  BY <1>3, <1>5 DEF Counted
<1>7. computed \in [Req -> Nat] /\ table \in [Req -> Seq(Block)] /\ cache \in CacheType
  BY <1>1 DEF Types, RequestTypes, BlockTypes, CacheType
<1>8. DOMAIN step'.entries = {} /\ step'.kv.invalid = {} /\ step'.kv.received = {}
  BY <1>3 DEF NewStep, NoReport
<1>9. \A b, p : Promised(b, p) => Promised(b, p)'
  BY <1>3 DEF Promised, InData, InWork
<1>10. \A r \in Req : table'[r] = table[r] \/ table'[r] = <<>>
  BY <1>4 DEF OutputOf, StaysFinished, BecomesGone, StaysAs
<1>11. \A r \in Req : \A b, i : Holds(table'[r], b, i) => Holds(table[r], b, i)
  BY <1>10, NothingHolds
<1>12. \A b \in Block : \A i : InCache(b, i)' => InCache(b, i)
  <2>1. SUFFICES ASSUME NEW b \in Block, NEW i \in Index, cache'[i] = b PROVE cache[i] = b
    BY DEF InCache
  <2>2. CASE cache' = cache
    BY <2>1, <2>2
  <2>3. CASE cache' = Evicted(cache, SyncScan.evict)
    <3>1. cache \in CacheType /\ Evicted(cache, SyncScan.evict)[i] = b
      BY <1>7, <2>1, <2>3
    <3>2. QED
      BY <3>1, EvictedSlots
  <2>4. QED
    BY <1>3, <2>2, <2>3
<1>13. \A b \in Block : \A i : Here(b, i)' => Here(b, i)
  <2>1. \A b, i : ~InEntry(b, i)'
    BY <1>3 DEF InEntry
  <2>2. QED
    BY <1>11, <1>12, <2>1 DEF Here
<1>14. \A r \in Req : status'[r] \in Contexted \union {"remote"} =>
         status'[r] = status[r] /\ table'[r] = table[r]
  BY <1>4 DEF OutputOf, StaysFinished, BecomesGone, StaysAs, Contexted
<1>15. DataTypes' /\ Placed' /\ CachePromised'
  <2>1. DataTypes'
    BY <1>3 DEF DataInv, DataTypes
  <2>2. Placed'
    BY <1>13 DEF DataInv, Placed
  <2>3. ASSUME NEW b \in Block, NEW p \in Nat, InCache(b, PosOf(p))' PROVE Promised(b, p)'
    <3>1. InCache(b, PosOf(p))
      BY <1>12, <2>3
    <3>2. QED
      BY <1>9, <3>1 DEF DataInv, CachePromised
  <2>4. QED
    BY <2>1, <2>2, <2>3 DEF CachePromised
<1>16. \A r \in Req, p \in Nat : p < computed'[r] => p < computed[r]
  <2> SUFFICES ASSUME NEW r \in Req, NEW p \in Nat, p < computed'[r] PROVE p < computed[r]
    OBVIOUS
  <2>1. computed'[r] \in Nat /\ computed[r] \in Nat /\ computed'[r] <= computed[r]
    BY <1>6, <1>7
  <2>2. QED
    BY <2>1
<1>17. ContextPromised'
  <2>1. SUFFICES ASSUME NEW r \in Req, status'[r] \in Contexted, NEW b \in Block, NEW p \in Nat,
                        p < computed'[r], Holds(table'[r], b, PosOf(p))
                 PROVE  Promised(b, p)'
    BY DEF ContextPromised, ContextOf
  <2>2. status[r] \in Contexted
    BY <1>14, <2>1
  <2>3. ContextOf(r)
    BY <2>2 DEF DataInv, ContextPromised
  <2>4. Promised(b, p)
    BY <1>11, <1>16, <2>1, <2>3 DEF ContextOf
  <2>5. QED
    BY <1>9, <2>4
<1>18. LoadPromised'
  <2>1. SUFFICES ASSUME NEW r \in Req, status'[r] = "remote", NEW b \in Block, NEW p \in Nat,
                        p < computed'[r], Holds(table'[r], b, PosOf(p))
                 PROVE  Promised(b, p)' \/ Arrives(r, b)' \/ FailureKnown(b)'
    BY DEF LoadPromised, LoadOf
  <2>2. status[r] = "remote" /\ p < computed[r] /\ Holds(table[r], b, PosOf(p))
    BY <1>11, <1>14, <1>16, <2>1
  <2>3. LoadOf(r)
    BY <2>2 DEF DataInv, LoadPromised
  <2>4. Promised(b, p) \/ Arrives(r, b) \/ FailureKnown(b)
    BY <2>2, <2>3 DEF LoadOf
  <2>5. b \notin step.kv.invalid
    <3>1. SUFFICES ASSUME b \in step.kv.invalid PROVE FALSE
      OBVIOUS
    <3>2. SyncScan.computed[r] <= p
      BY <1>3, <2>2, <3>1, LostCut
    <3>3. computed'[r] <= p /\ computed'[r] \in Nat
      BY <1>3, <1>6, <3>2
    <3>4. QED
      BY <2>1, <3>3
  <2>6. Arrives(r, b) => Arrives(r, b)'
    BY <1>3 DEF Arrives
  <2>7. FailureKnown(b) => FailureKnown(b)'
    BY <1>3, <2>5 DEF FailureKnown
  <2>8. QED
    BY <1>9, <2>4, <2>6, <2>7
<1>19. RoomKept'
  <2>1. SUFFICES ASSUME NEW r \in Req, status'[r] \in Contexted
                 PROVE  Blocks(computed'[r]) <= Len(table'[r])
    BY DEF RoomKept
  <2>2. status[r] \in Contexted /\ table'[r] = table[r]
    BY <1>14, <2>1
  <2>3. Blocks(computed[r]) <= Len(table[r])
    BY <2>2 DEF DataInv, RoomKept
  <2>4. /\ computed'[r] \in Nat /\ computed[r] \in Nat /\ computed'[r] <= computed[r]
        /\ table[r] \in Seq(Block)
    BY <1>6, <1>7
  <2>5. /\ Blocks(computed'[r]) <= Blocks(computed[r])
        /\ Blocks(computed'[r]) \in Nat /\ Blocks(computed[r]) \in Nat
    BY <2>4, BlocksFacts
  <2>6. Len(table[r]) \in Nat
    BY <2>4, LenProperties
  <2>7. QED
    BY <2>2, <2>3, <2>5, <2>6
<1>20. StepTables' /\ StepPromised' /\ StepApart' /\ StepGood'
  BY <1>3, <1>8 DEF StepTables, StepPromised, StepApart, StepGood
<1>21. LostKnown'
  <2>1. \A b \in report.invalid : \E q \in Req : (Loading(q) \/ Reported(q)) /\ b \in lost[q]
    BY DEF DataInv, LostKnown
  <2>2. QED
    BY <1>3, <1>8, <2>1 DEF LostKnown, Loading, Reported
<1>22. LostAlone'
  <2>1. SUFFICES ASSUME NEW r \in Req, Begun(r)', NEW b \in lost[r]
                 PROVE  /\ b \notin Range(cache') /\ b \in ToSet(table'[r])
                        /\ \A q \in Req \ {r} : b \notin ToSet(table'[q])
    BY <1>3 DEF LostAlone
  <2>2. Loading(r) \/ Reported(r)
    BY <1>3, <1>8, <2>1 DEF Begun, Loading, Reported, InOutput
  <2>3. /\ b \notin Range(cache) /\ b \in ToSet(table[r])
        /\ \A q \in Req \ {r} : b \notin ToSet(table[q])
    BY <2>1, <2>2 DEF DataInv, LostAlone, Begun
  <2>4. table'[r] = table[r]
    <3>1. StageOf(r) /\ OutputOf(r, send)
      BY <1>1, <1>4 DEF StagesOk
    <3>2. /\ status[r] \in {"remote", "finished"} /\ r \notin finishedRecv
          /\ ~InOutput(r) /\ r \notin step.kv.sent
      BY <2>2, <3>1 DEF StageOf, Sent
    <3>3. r \notin Ending
      BY <1>5, <3>2
    <3>4. r \in Errors => StaysFinished(r)
      BY <1>5, <3>1, <3>2 DEF OutputOf
    <3>5. r \notin Errors => StaysAs(r)
      BY <3>1, <3>2, <3>3 DEF OutputOf, InOutput
    <3>6. QED
      BY <3>4, <3>5 DEF StaysFinished, StaysAs
  <2>5. \A q \in Req : ToSet(table'[q]) \subseteq ToSet(table[q])
    <3>1. ToSet(<<>>) = {}
      BY DEF ToSet
    <3>2. QED
      BY <1>10, <3>1
  <2>6. b \notin Range(cache')
    <3>1. Range(cache') \subseteq Range(cache) \union {NoBlock}
      BY <1>3, <1>5, <1>7, EvictedFacts
    <3>2. b \in Block
      BY <1>7, <2>3, LenProperties, ElementOfSeq DEF ToSet
    <3>3. b # NoBlock
      BY <3>2 DEF NoBlock, Block
    <3>4. QED
      BY <2>3, <3>1, <3>3
  <2>7. QED
    BY <2>3, <2>4, <2>5, <2>6
<1>23. QED
  BY <1>15, <1>17, <1>18, <1>19, <1>20, <1>21, <1>22 DEF DataInv

LEMMA InitData == Init => DataInv
<1> SUFFICES ASSUME Init PROVE DataInv
  OBVIOUS
<1>1. /\ status = [r \in Req |-> "new"] /\ computed = [r \in Req |-> 0]
      /\ table = [r \in Req |-> <<>>] /\ cache = [i \in Index |-> NoBlock]
      /\ data = [b \in Block |-> {}]
      /\ loading = [r \in Req |-> {}] /\ lost = [r \in Req |-> {}]
      /\ report = NoReport /\ pc = "schedule" /\ step = NewStep
  BY DEF Init
<1>2. /\ DOMAIN step.entries = {} /\ step.kv.invalid = {} /\ step.kv.received = {}
      /\ report.invalid = {} /\ report.received = {}
  BY <1>1 DEF NewStep, NoReport
<1>3. \A b \in Block : \A i : ~Here(b, i)
  <2>1. \A r \in Req : table[r] = <<>>
    BY <1>1
  <2>2. \A b \in Block : \A i : ~InCache(b, i)
    BY <1>1 DEF InCache, NoBlock, Block
  <2>3. \A b, i : ~InEntry(b, i)
    BY <1>1 DEF InEntry
  <2>4. QED
    BY <2>1, <2>2, <2>3, NothingHolds DEF Here
<1>4. DataTypes
  BY <1>1 DEF DataTypes
<1>5. Placed /\ CachePromised
  BY <1>3 DEF Placed, CachePromised, Here
<1>6. ContextPromised /\ LoadPromised
  BY <1>1, NothingHolds DEF ContextPromised, ContextOf, LoadPromised, LoadOf
<1>7. RoomKept
  <2>1. \A r \in Req : computed[r] = 0 /\ Len(table[r]) = 0
    BY <1>1
  <2>2. Blocks(0) = 0
    <3>1. 0 * BlockSize = 0
      BY KVAssumption
    <3>2. Blocks(0 * BlockSize) = 0
      BY FullBlocks
    <3>3. QED
      BY <3>1, <3>2
  <2>3. QED
    BY <2>1, <2>2 DEF RoomKept
<1>8. StepTables /\ StepPromised /\ StepApart /\ StepGood
  BY <1>2 DEF StepTables, StepPromised, StepApart, StepGood
<1>9. LostKnown
  BY <1>2 DEF LostKnown
<1>10. LostAlone
  BY <1>1, <1>2 DEF LostAlone, Begun, Loading, Reported, InOutput
<1>11. QED
  BY <1>4, <1>5, <1>6, <1>7, <1>8, <1>9, <1>10 DEF DataInv

LEMMA StutterData == KVInv /\ DataInv /\ UNCHANGED vars => DataInv'
<1> SUFFICES ASSUME KVInv, DataInv, UNCHANGED vars PROVE DataInv'
  OBVIOUS
<1>1. UNCHANGED <<cache, data, loading, lost, table, status, computed, report, step, pc>>
  BY DEF vars
<1>2. QED
  BY <1>1, QuietData

LEMMA NextData ==
  ASSUME AsyncLoads
  PROVE  KVInv /\ QueuesKept /\ DataInv /\ [Next]_vars => DataInv'
<1> SUFFICES ASSUME KVInv, QueuesKept, DataInv, [Next]_vars PROVE DataInv'
  OBVIOUS
<1>1. CASE EngineLoop
  BY <1>1, ScheduleRunningData, PreemptForRoomData, PassLoadingData, PromoteData, AdmitLoadData,
     AdmitRunData, NoRoomData, DispatchData, ExecuteData, UpdateData DEF EngineLoop
<1>2. ASSUME NEW r \in Req, LoadFails(r) \/ LoadEnds(r) \/ SendEnds(r) PROVE DataInv'
  BY <1>2, LoadFailsData, LoadEndsData, SendEndsData
<1>3. ASSUME NEW r \in Req, AddRequest(r) \/ AbortRequest(r) PROVE DataInv'
  BY <1>3, AddRequestData, AbortRequestData
<1>4. CASE UNCHANGED vars
  BY <1>4, StutterData
<1>5. QED
  BY <1>1, <1>2, <1>3, <1>4 DEF Next

(* The inductive invariant with the data.                                     *)
GoodInv == KVInv /\ QueuesKept /\ DataInv

(* With loads that are asynchronous only: whatever is loaded, fails, is       *)
(* shared, preempted or aborted, and under either policy, KV that is cached,  *)
(* or that counts as computed, is in its block or on its way.                 *)
THEOREM DataInvariant ==
  ASSUME AsyncLoads
  PROVE  Spec => []GoodInv
<1>1. Init => GoodInv
  BY InitKV, QueuesFirst, InitData DEF GoodInv
<1>2. GoodInv /\ [Next]_vars => GoodInv'
  BY NextKV, NextQueues, NextData DEF GoodInv
<1>3. QED
  BY <1>1, <1>2, PTL DEF Spec

LEMMA CacheFromData == GoodInv => CacheGood
<1> SUFFICES ASSUME GoodInv, pc = "schedule", step = NewStep,
                    NEW i \in Index, cache[i] # NoBlock, NEW p \in Positions(i)
             PROVE  p \in data[cache[i]]
  BY DEF CacheGood
<1>1. Types /\ CachePromised
  BY DEF GoodInv, KVInv, DataInv
<1>2. cache[i] \in Block /\ i \in Nat
  <2>1. cache \in [Index -> Block \union {NoBlock}]
    BY <1>1 DEF Types, BlockTypes
  <2>2. cache[i] \in Block
    BY <2>1
  <2>3. i \in Nat
    BY DEF Index
  <2>4. QED
    BY <2>2, <2>3
<1>3. p \in Nat
  <2>1. BlockSize \in Nat \ {0}
    BY KVAssumption
  <2>2. i * BlockSize \in Nat
    BY <1>2, FullBlocks
  <2> DEFINE x == i * BlockSize
  <2>3. p \in x..(x + BlockSize - 1) /\ x \in Nat
    BY <2>2 DEF Positions
  <2> HIDE DEF x
  <2>4. QED
    BY <2>1, <2>3
<1>4. PosOf(p) = i
  BY <1>2, <1>3, PosFacts
<1>5. InCache(cache[i], PosOf(p))
  BY <1>4 DEF InCache
<1>6. Promised(cache[i], p)
  BY <1>1, <1>2, <1>3, <1>5 DEF CachePromised
<1>7. ~InWork(cache[i], p)
  BY DEF InWork, NewStep
<1>8. QED
  BY <1>6, <1>7 DEF Promised, InData

(* Between steps every block of the prefix cache holds what its hash          *)
(* promises.                                                                  *)
THEOREM CacheAlwaysGood ==
  ASSUME AsyncLoads
  PROVE  Spec => []CacheGood
<1>1. GoodInv => CacheGood
  BY CacheFromData
<1>2. QED
  BY <1>1, DataInvariant, PTL

LEMMA OutputFirst == Init => OutputGood
BY DEF Init, OutputGood

LEMMA NextOutput == GoodInv /\ OutputGood /\ [Next]_vars => OutputGood'
<1> SUFFICES ASSUME GoodInv, OutputGood, [Next]_vars PROVE OutputGood'
  OBVIOUS
<1>1. CASE Update
  <2>1. \A r \in Ending : \E k \in DOMAIN step.entries :
          step.entries[k].req = r /\ step.entries[k].good
    <3>1. pc = "output"
      BY <1>1 DEF Update
    <3>2. \A k \in DOMAIN step.entries : step.entries[k].good
      BY <3>1 DEF GoodInv, DataInv, StepGood
    <3>3. QED
      BY <3>2 DEF Ending, InBatch
  <2>2. \A r \in Req : out'[r] \in {"good", "error", out[r]}
    <3>1. out' = [r \in Req |->
            CASE r \in Ending -> IF \E k \in DOMAIN step.entries :
                                       step.entries[k].req = r /\ step.entries[k].good
                                 THEN "good" ELSE "bad"
              [] r \in Errors -> "error"
              [] OTHER -> out[r]]
      BY <1>1 DEF Update
    <3>2. QED
      BY <2>1, <3>1
  <2>3. QED
    BY <2>2 DEF OutputGood
<1>2. CASE \E r \in Req : AbortRequest(r)
  <2>1. PICK r \in Req : out' = [out EXCEPT ![r] = "aborted"]
    BY <1>2 DEF AbortRequest
  <2>2. QED
    BY <2>1 DEF OutputGood
<1>3. CASE UNCHANGED out
  BY <1>3 DEF OutputGood
<1>4. Update \/ (\E r \in Req : AbortRequest(r)) \/ UNCHANGED out
  <2>1. CASE EngineLoop
    BY <2>1 DEF EngineLoop, ScheduleRunning, PreemptForRoom, PassLoading, Promote, AdmitLoad,
                AdmitRun, NoRoom, Dispatch, Execute
  <2>2. ASSUME NEW r \in Req, LoadFails(r) \/ LoadEnds(r) \/ SendEnds(r) PROVE UNCHANGED out
    BY <2>2 DEF LoadFails, LoadEnds, SendEnds
  <2>3. ASSUME NEW r \in Req, AddRequest(r) PROVE UNCHANGED out
    BY <2>3 DEF AddRequest
  <2>4. CASE UNCHANGED vars
    BY <2>4 DEF vars
  <2>5. QED
    BY <2>1, <2>2, <2>3, <2>4 DEF Next
<1>5. QED
  BY <1>1, <1>2, <1>3, <1>4

(* No client ever gets a token computed from KV that was not in place.        *)
THEOREM OutputAlwaysGood ==
  ASSUME AsyncLoads
  PROVE  Spec => []OutputGood
<1>1. Init => OutputGood
  BY OutputFirst
<1>2. GoodInv /\ OutputGood /\ [Next]_vars => OutputGood'
  BY NextOutput
<1>3. QED
  BY <1>1, <1>2, DataInvariant, PTL DEF Spec
=============================================================================

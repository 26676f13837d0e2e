--------------------------- MODULE KPoolTail_proofs ---------------------------
(***************************************************************************)
(* With a ring that holds one pool and all drafts but one, every completed      *)
(* pool is made of its tokens' latest keys, for every pool size, number of      *)
(* drafts, ring and length.  The one-pool ring of glm_kpool.py is wide enough   *)
(* for one draft, the ring r28.3-a computes for any number.                     *)
(*                                                                         *)
(* PoolsFaithful alone is not inductive: what a completed pool is made of       *)
(* comes from the ring.  KeysInRing adds what the ring holds at every row of    *)
(* a step: the latest keys from the start of the pool in progress up to the     *)
(* row.  The first row of a step is of a token that stays, so the pool in       *)
(* progress is then that of the position behind it; from its start up to the    *)
(* last row there are at most Pool + drafts - 1 consecutive positions, which    *)
(* is why WideRing keeps them apart.                                          *)
(***************************************************************************)
EXTENDS KPoolTail, SequenceLemmas

(* The rings the theorems are about: a slot for each of a pool's keys and for      *)
(* each draft but one.                                                        *)
WideRing == \A k \in Kernels : k.ring >= Pool + k.drafts - 1

KeysInRing ==
  \A p \in PoolStart(Certain) .. row - 1 : tail[PhysicalSlot(p)] = Latest(p)
StepSize == last <= computed + NumSpec + 1
IInv == TypeOK /\ PoolsFaithful /\ KeysInRing /\ StepSize

-----------------------------------------------------------------------------
(* The ring of a kernel holds a pool.                                         *)
LEMMA RingType ==
  ASSUME kernel \in Kernels
  PROVE  Ring \in Nat \ {0} /\ NumSpec \in Nat /\ Ring >= Pool
<1>1. kernel \in [ring : Nat, drafts : Nat] /\ kernel.ring >= Pool /\ Pool \in Nat \ {0}
  BY KPoolAssumption
<1> QED BY <1>1 DEF Ring, NumSpec

(* Positions less than a ring apart have slots of their own.                   *)
LEMMA SlotsDiffer ==
  ASSUME kernel \in Kernels, NEW p \in Nat, NEW q \in Nat, p < q, q - p < Ring
  PROVE  /\ PhysicalSlot(p) \in Slots /\ PhysicalSlot(q) \in Slots
         /\ PhysicalSlot(p) # PhysicalSlot(q)
<1>0. Ring \in Nat \ {0}
  BY RingType
<1>1. /\ p = Ring * (p \div Ring) + (p % Ring) /\ p \div Ring \in Nat /\ p % Ring \in 0 .. Ring - 1
      /\ q = Ring * (q \div Ring) + (q % Ring) /\ q \div Ring \in Nat /\ q % Ring \in 0 .. Ring - 1
  BY <1>0, DivMod
<1>2. Ring * (p \div Ring) \in Int /\ Ring * (q \div Ring) \in Int
  BY <1>0, <1>1, MulMono
<1>3. p \div Ring < q \div Ring => Ring * (p \div Ring) + Ring <= Ring * (q \div Ring)
  BY <1>0, <1>1, MulMono
<1>4. q \div Ring < p \div Ring => Ring * (q \div Ring) + Ring <= Ring * (p \div Ring)
  BY <1>0, <1>1, MulMono
<1>5. p % Ring # q % Ring
  <2> SUFFICES ASSUME p % Ring = q % Ring PROVE FALSE
    OBVIOUS
  <2>1. CASE p \div Ring = q \div Ring
    BY <2>1, <1>0, <1>1
  <2>2. CASE p \div Ring < q \div Ring
    BY <2>2, <1>0, <1>1, <1>2, <1>3
  <2>3. CASE q \div Ring < p \div Ring
    BY <2>3, <1>0, <1>1, <1>2, <1>4
  <2> QED BY <1>1, <2>1, <2>2, <2>3
<1> QED BY <1>0, <1>1, <1>5 DEF PhysicalSlot, Slots

(* The pool of a position: where it starts, and that starts are ordered.        *)
LEMMA PoolStartIs ==
  ASSUME NEW p \in Nat
  PROVE  /\ PoolStart(p) \in Nat /\ PoolStart(p) <= p /\ p < PoolStart(p) + Pool
         /\ p \div Pool \in Nat
         /\ PoolStart(p) = (p \div Pool) * Pool
<1>0. Pool \in Nat \ {0}
  BY KPoolAssumption
<1>1. p = Pool * (p \div Pool) + (p % Pool) /\ p \div Pool \in Nat /\ p % Pool \in 0 .. Pool - 1
  BY <1>0, DivMod
<1>2. Pool * (p \div Pool) = (p \div Pool) * Pool /\ Pool * (p \div Pool) \in Int
  BY <1>0, <1>1, MulMono
<1> QED BY <1>0, <1>1, <1>2 DEF PoolStart

(* The last position of pool b.                                               *)
LEMMA LastOfPool ==
  ASSUME NEW b \in Nat, NEW p \in Nat, p = Pool * b + (Pool - 1)
  PROVE  p \div Pool = b /\ p % Pool = Pool - 1
<1>1. Pool \in Nat \ {0} /\ Pool - 1 \in 0 .. Pool - 1
  BY KPoolAssumption
<1> QED BY <1>1, DivUnique

(* A pool that ends behind p starts no earlier than the pool of p.              *)
LEMMA PoolStartLeast ==
  ASSUME NEW p \in Nat, NEW b \in Nat, p < b * Pool + Pool
  PROVE  PoolStart(p) <= b * Pool
<1>0. Pool \in Nat \ {0}
  BY KPoolAssumption
<1>1. PoolStart(p) = (p \div Pool) * Pool /\ PoolStart(p) <= p /\ p \div Pool \in Nat
  BY PoolStartIs
<1>2. b * Pool \in Int /\ b * Pool = Pool * b /\ (p \div Pool) * Pool = Pool * (p \div Pool)
      /\ Pool * (p \div Pool) \in Int
  BY <1>0, <1>1, MulMono
<1>3. ~ (b < p \div Pool)
  BY <1>0, <1>1, <1>2, MulMono
<1>4. CASE b = p \div Pool
  BY <1>4, <1>1, <1>2
<1>5. CASE p \div Pool < b
  BY <1>5, <1>0, <1>1, <1>2, MulMono
<1> QED BY <1>1, <1>3, <1>4, <1>5

(* A later position is in the same pool or a later one.                       *)
LEMMA PoolStartMono ==
  ASSUME NEW p \in Nat, NEW q \in Nat, p <= q
  PROVE  PoolStart(p) <= PoolStart(q)
<1>1. q < PoolStart(q) + Pool /\ PoolStart(q) = (q \div Pool) * Pool /\ q \div Pool \in Nat
  BY PoolStartIs
<1>2. p < (q \div Pool) * Pool + Pool
  BY <1>1, KPoolAssumption, PoolStartIs
<1> QED BY <1>1, <1>2, PoolStartLeast

-----------------------------------------------------------------------------
(* What TypeOK says of the counters.                                          *)
LEMMA Counters ==
  ASSUME TypeOK
  PROVE  /\ {Pool, Ring, MaxLen, MaxPasses} \subseteq Nat \ {0} /\ NumSpec \in Nat
         /\ kernel \in Kernels
         /\ computed \in Nat /\ row \in Nat /\ last \in Nat
         /\ computed <= row /\ row <= last /\ last <= MaxLen
  BY KPoolAssumption, RingType DEF TypeOK

(* A step keeps the kernel, and with it the slots and the ring's size.           *)
LEMMA SameKernel ==
  ASSUME UNCHANGED kernel
  PROVE  /\ Ring' = Ring /\ NumSpec' = NumSpec /\ Slots' = Slots
         /\ \A p : PhysicalSlot(p)' = PhysicalSlot(p)
  BY DEF Ring, NumSpec, Slots, PhysicalSlot

(* Between steps everything computed is certain, in a step one more token.        *)
LEMMA CertainIs ==
  ASSUME TypeOK
  PROVE  /\ Certain \in Nat /\ computed <= Certain /\ Certain <= row
         /\ row = computed => Certain = computed
         /\ row > computed => Certain = computed + 1
  BY Counters DEF Certain

(* A position has a slot in the ring.                                         *)
LEMMA SlotType ==
  ASSUME kernel \in Kernels, NEW p \in Nat
  PROVE  PhysicalSlot(p) \in Slots
  BY RingType, DivMod DEF PhysicalSlot, Slots

(* The positions of pool b: those from b * Pool, Pool of them.                  *)
LEMMA PoolPositions ==
  ASSUME NEW b \in Nat, NEW i \in Lanes
  PROVE  /\ b * Pool \in Nat /\ (b + 1) * Pool = b * Pool + Pool
         /\ b * Pool + i \in Nat /\ b * Pool + i < b * Pool + Pool
<1>1. Pool \in Nat \ {0}
  BY KPoolAssumption
<1>2. b * Pool \in Nat /\ (b + 1) * Pool = b * Pool + Pool
  BY <1>1
<1> QED BY <1>1, <1>2 DEF Lanes

(* The invariant holds of the empty cache: no pool is complete.                 *)
LEMMA InitIInv == Init => IInv
<1> SUFFICES ASSUME Init PROVE IInv
  OBVIOUS
<1>0. {Pool, Ring, MaxLen} \subseteq Nat \ {0} /\ NumSpec \in Nat /\ kernel \in Kernels
  BY KPoolAssumption, RingType DEF Init
<1>1. TypeOK
  BY <1>0 DEF Init, TypeOK, NoKey, Keys, Key
<1>2. PoolsFaithful
  <2> SUFFICES ASSUME NEW b \in PoolIds, (b + 1) * Pool <= row PROVE FALSE
    BY DEF PoolsFaithful
  <2>1. b \in Nat
    BY DEF PoolIds
  <2>2. 0 \in Lanes
    BY <1>0 DEF Lanes
  <2>3. b * Pool \in Nat /\ (b + 1) * Pool = b * Pool + Pool
    BY <2>1, <2>2, PoolPositions
  <2> QED BY <1>0, <2>3 DEF Init
<1>3. KeysInRing
  <2>1. PoolStart(0) = 0
    BY PoolStartIs
  <2>2. Certain = 0
    BY DEF Certain, Init
  <2> QED BY <2>1, <2>2 DEF KeysInRing, Init
<1> QED BY <1>0, <1>1, <1>2, <1>3 DEF IInv, StepSize, Init

-----------------------------------------------------------------------------
(* Starting a step changes nothing but its end.                                *)
LEMMA BeginDecodeStep ==
  ASSUME IInv, NEW n \in 1 .. MaxLen, BeginDecode(n)
  PROVE  IInv'
<1>0. /\ computed \in Nat /\ row = computed /\ NumSpec \in Nat /\ MaxLen \in Nat
      /\ n \in 1 .. NumSpec + 1 /\ computed + n <= MaxLen /\ last' = computed + n
      /\ UNCHANGED <<kernel, computed, row, pass, tail, pools>>
  BY Counters DEF IInv, BeginDecode, Idle
<1>1. TypeOK'
  BY <1>0, SameKernel DEF IInv, TypeOK
<1>2. PoolsFaithful'
  BY <1>0 DEF IInv, PoolsFaithful, Latest
<1>3. KeysInRing'
  BY <1>0, SameKernel DEF IInv, KeysInRing, Latest, Certain
<1> QED BY <1>0, <1>1, <1>2, <1>3, SameKernel DEF IInv, StepSize

(* Rejected positions are no longer looked at.                                 *)
LEMMA VerifyStep ==
  ASSUME IInv, NEW n \in 1 .. MaxLen, Verify(n)
  PROVE  IInv'
<1>0. /\ computed \in Nat /\ row \in Nat /\ row = last /\ last <= MaxLen /\ MaxLen \in Nat
      /\ NumSpec \in Nat /\ Pool \in Nat \ {0} /\ row > computed
      /\ n \in 1 .. last - computed
      /\ computed' = computed + n /\ row' = computed + n /\ last' = computed + n
      /\ UNCHANGED <<kernel, pass, tail, pools>>
  BY Counters DEF IInv, Verify, Kept
<1>1. TypeOK'
  BY <1>0, SameKernel DEF IInv, TypeOK
<1>2. PoolsFaithful'
  <2> SUFFICES ASSUME NEW b \in PoolIds, (b + 1) * Pool <= row'
               PROVE  \A i \in Lanes : pools[b][i] = Latest(b * Pool + i)
    BY <1>0 DEF PoolsFaithful, Latest
  <2>1. (b + 1) * Pool \in Int
    BY <1>0 DEF PoolIds
  <2>2. (b + 1) * Pool <= row
    BY <1>0, <2>1
  <2> QED BY <2>2 DEF IInv, PoolsFaithful
<1>3. KeysInRing'
  <2>0. computed + n \in Nat /\ Certain \in Nat /\ Certain <= computed + n
    BY <1>0, CertainIs DEF IInv
  <2>1. PoolStart(Certain) <= PoolStart(computed + n) /\ PoolStart(Certain) \in Nat
        /\ PoolStart(computed + n) \in Nat
    BY <2>0, PoolStartMono, PoolStartIs
  <2>2. PoolStart(computed + n) .. computed + n - 1 \subseteq PoolStart(Certain) .. row - 1
    BY <1>0, <2>1
  <2>3. \A p \in PoolStart(computed + n) .. computed + n - 1 : tail[PhysicalSlot(p)] = Latest(p)
    BY <2>2 DEF IInv, KeysInRing
  <2>4. \A p : Latest(p)' = Latest(p) /\ PhysicalSlot(p)' = PhysicalSlot(p)
    BY <1>0, SameKernel DEF Latest
  <2>5. Certain' = computed + n
    BY <1>0 DEF Certain
  <2> QED BY <1>0, <2>3, <2>4, <2>5 DEF KeysInRing, PoolStart
<1> QED BY <1>0, <1>1, <1>2, <1>3, SameKernel DEF IInv, StepSize

-----------------------------------------------------------------------------
(* A row: its key may only take the slot of a position nobody reads again.      *)
LEMMA DecodeRowStep ==
  ASSUME IInv, WideRing, DecodeRow
  PROVE  IInv'
<1> DEFINE key == Key(row, pass[row] + 1)
           S   == PoolStart(Certain)
           S2  == PoolStart(computed + 1)
<1>0. /\ computed \in Nat /\ row \in Nat /\ last \in Nat /\ MaxLen \in Nat /\ NumSpec \in Nat
      /\ Pool \in Nat \ {0} /\ Ring \in Nat /\ Ring >= Pool + NumSpec - 1
      /\ kernel \in Kernels /\ computed <= row /\ row < last /\ last <= MaxLen /\ last <= computed + NumSpec + 1
      /\ row \in Positions
  BY Counters DEF IInv, DecodeRow, WideRing, Ring, NumSpec, StepSize, Positions
<1>9. /\ Certain \in Nat /\ Certain <= row /\ Certain <= computed + 1 /\ computed + 1 \in Nat
      /\ S \in Nat /\ S2 \in Nat /\ S <= S2 /\ S2 <= computed + 1 /\ computed + 1 < S2 + Pool
  <2>1. /\ Certain \in Nat /\ Certain <= row /\ Certain <= computed + 1 /\ computed + 1 \in Nat
    BY <1>0, CertainIs DEF IInv
  <2> QED BY <2>1, PoolStartIs, PoolStartMono
<1>1. /\ pass \in [Positions -> Nat] /\ tail \in [Slots -> Keys]
      /\ pools \in [PoolIds -> [Lanes -> Keys]]
  BY DEF IInv, TypeOK
<1>2. /\ pass' = [pass EXCEPT ![row] = @ + 1]
      /\ tail' = [tail EXCEPT ![PhysicalSlot(row)] = key]
      /\ pools' = IF row % Pool = Pool - 1
                    THEN [pools EXCEPT ![row \div Pool] =
                            [i \in Lanes |-> IF i = Pool - 1 THEN key
                               ELSE tail[PhysicalSlot(PoolStart(row) + i)]]]
                    ELSE pools
      /\ row' = row + 1 /\ computed' = computed /\ last' = last /\ kernel' = kernel
  BY DEF DecodeRow
<1>10. Certain' = computed + 1 /\ Slots' = Slots /\ \A p : PhysicalSlot(p)' = PhysicalSlot(p)
  BY <1>0, <1>2, SameKernel DEF Certain
<1>3. key \in Keys /\ key = Key(row, pass'[row])
  <2>1. pass[row] \in Nat /\ pass'[row] = pass[row] + 1
    BY <1>0, <1>1, <1>2
  <2> QED BY <1>0, <2>1 DEF Keys, Key
<1>4. \A p \in Nat : p < row => Latest(p)' = Latest(p)
  BY <1>0, <1>1, <1>2 DEF Latest, Positions
<1>5. TypeOK'
  <2>1. pass' \in [Positions -> Nat]
    BY <1>0, <1>1, <1>2
  <2>2. tail' \in [Slots -> Keys]
    BY <1>1, <1>2, <1>3
  <2>3. [i \in Lanes |-> IF i = Pool - 1 THEN key
           ELSE tail[PhysicalSlot(PoolStart(row) + i)]] \in [Lanes -> Keys]
    <3> SUFFICES ASSUME NEW i \in Lanes PROVE tail[PhysicalSlot(PoolStart(row) + i)] \in Keys
      BY <1>3
    <3>1. PoolStart(row) \in Nat /\ i \in Nat
      BY <1>0, PoolStartIs DEF Lanes
    <3>2. PoolStart(row) + i \in Nat
      BY <3>1
    <3> QED BY <3>2, <1>0, <1>1, SlotType
  <2>4. pools' \in [PoolIds -> [Lanes -> Keys]]
    BY <1>1, <1>2, <2>3
  <2> QED BY <1>0, <1>2, <1>10, <2>1, <2>2, <2>4 DEF TypeOK
<1>6. KeysInRing'
  <2> SUFFICES ASSUME NEW p \in S2 .. row PROVE tail'[PhysicalSlot(p)] = Latest(p)'
    <3>1. PoolStart(Certain)' = S2
      BY <1>10 DEF PoolStart
    <3>2. row' - 1 = row
      BY <1>0, <1>2
    <3> QED BY <3>1, <3>2, <1>10 DEF KeysInRing
  <2>1. CASE p = row
    <3>1. PhysicalSlot(row) \in Slots
      BY <1>0, SlotType
    <3>2. tail'[PhysicalSlot(row)] = Key(row, pass'[row])
      BY <3>1, <1>1, <1>2, <1>3
    <3> QED BY <2>1, <3>2 DEF Latest
  <2>2. CASE p < row
    <3>1. p \in Nat /\ row - p < Ring /\ p \in S .. row - 1
      BY <2>2, <1>0, <1>9
    <3>2. PhysicalSlot(p) # PhysicalSlot(row) /\ PhysicalSlot(p) \in Slots
      BY <2>2, <3>1, <1>0, SlotsDiffer
    <3>3. tail'[PhysicalSlot(p)] = tail[PhysicalSlot(p)]
      BY <3>2, <1>1, <1>2
    <3> QED BY <2>2, <3>1, <3>3, <1>4 DEF IInv, KeysInRing
  <2> QED BY <1>0, <1>9, <2>1, <2>2
<1>7. PoolsFaithful'
  <2> SUFFICES ASSUME NEW b \in PoolIds, (b + 1) * Pool <= row + 1, NEW i \in Lanes
               PROVE  pools'[b][i] = Latest(b * Pool + i)'
    BY <1>2 DEF PoolsFaithful
  <2>0. /\ b \in Nat /\ b * Pool \in Nat /\ (b + 1) * Pool = b * Pool + Pool
        /\ b * Pool + i \in Nat /\ b * Pool + i < b * Pool + Pool /\ i \in 0 .. Pool - 1
    BY PoolPositions DEF PoolIds, Lanes
  <2>1. CASE (b + 1) * Pool <= row
    <3>1. pools'[b] = pools[b]
      <4>1. CASE row % Pool = Pool - 1 /\ row \div Pool = b
        <5>0. row = Pool * (row \div Pool) + (row % Pool)
          BY <1>0, DivMod
        <5>1. row = Pool * b + (Pool - 1)
          BY <4>1, <5>0
        <5>2. Pool * b = b * Pool
          BY <1>0, <2>0, MulMono
        <5> QED BY <5>1, <5>2, <2>0, <2>1, <1>0
      <4>2. CASE row % Pool = Pool - 1 /\ row \div Pool # b
        BY <4>2, <1>1, <1>2
      <4>3. CASE row % Pool # Pool - 1
        BY <4>3, <1>2
      <4> QED BY <4>1, <4>2, <4>3
    <3>2. pools[b][i] = Latest(b * Pool + i)
      BY <2>1 DEF IInv, PoolsFaithful
    <3>3. b * Pool + i < row
      BY <2>0, <2>1, <1>0
    <3> QED BY <3>1, <3>2, <3>3, <2>0, <1>4
  <2>2. CASE (b + 1) * Pool = row + 1
    <3>1. row = Pool * b + (Pool - 1) /\ Pool - 1 \in 0 .. Pool - 1
      BY <2>0, <2>2, <1>0, MulMono
    <3>2. row \div Pool = b /\ row % Pool = Pool - 1
      BY <3>1, <2>0, <1>0, LastOfPool
    <3>3. PoolStart(row) = b * Pool
      BY <3>2, <1>0, PoolStartIs
    <3>4. pools'[b][i] = IF i = Pool - 1 THEN key ELSE tail[PhysicalSlot(b * Pool + i)]
      BY <3>2, <3>3, <1>1, <1>2
    <3>5. CASE i = Pool - 1
      <4>1. b * Pool + i = row
        BY <3>5, <2>0, <2>2, <1>0
      <4> QED BY <3>4, <3>5, <4>1, <1>3 DEF Latest
    <3>6. CASE i # Pool - 1
      <4>1. b * Pool + i < row
        BY <3>6, <2>0, <2>2, <1>0
      <4>2. S <= b * Pool
        BY <3>3, <1>0, <1>9, PoolStartMono
      <4>3. b * Pool + i \in S .. row - 1
        BY <4>1, <4>2, <2>0, <1>0, <1>9
      <4>4. tail[PhysicalSlot(b * Pool + i)] = Latest(b * Pool + i)
        BY <4>3 DEF IInv, KeysInRing
      <4> QED BY <3>4, <3>6, <4>1, <4>4, <2>0, <1>4
    <3> QED BY <3>5, <3>6
  <2>3. (b + 1) * Pool <= row \/ (b + 1) * Pool = row + 1
    BY <2>0, <1>0
  <2> QED BY <2>1, <2>2, <2>3
<1> QED BY <1>0, <1>2, <1>5, <1>6, <1>7, SameKernel DEF IInv, StepSize

(* A request that goes on from whole pools reads nothing of its new tail block.  *)
LEMMA ResumeStep ==
  ASSUME IInv, NEW b \in PoolIds, Resume(b)
  PROVE  IInv'
<1>0. /\ computed \in Nat /\ row = computed /\ MaxLen \in Nat /\ computed <= MaxLen
      /\ Pool \in Nat \ {0} /\ NumSpec \in Nat /\ b \in Nat
      /\ b * Pool <= computed
      /\ computed' = b * Pool /\ row' = b * Pool /\ last' = b * Pool
      /\ tail' = [s \in Slots |-> NoKey] /\ UNCHANGED <<kernel, pass, pools>>
  BY Counters DEF IInv, Resume, Idle, PoolIds
<1>1. b * Pool \in Nat
  BY <1>0
<1>2. TypeOK'
  BY <1>0, <1>1, SameKernel DEF IInv, TypeOK, NoKey, Key, Keys
<1>3. PoolsFaithful'
  <2> SUFFICES ASSUME NEW c \in PoolIds, (c + 1) * Pool <= b * Pool
               PROVE  \A i \in Lanes : pools[c][i] = Latest(c * Pool + i)
    BY <1>0 DEF PoolsFaithful, Latest
  <2>1. (c + 1) * Pool \in Int
    BY <1>0 DEF PoolIds
  <2>2. (c + 1) * Pool <= row
    BY <1>0, <1>1, <2>1
  <2> QED BY <2>2 DEF IInv, PoolsFaithful
<1>4. KeysInRing'
  <2>0. b * Pool < b * Pool + Pool /\ Pool * b = b * Pool
    BY <1>0, <1>1
  <2>1. (b * Pool) \div Pool = b
    BY <1>0, <1>1, <2>0, DivUnique
  <2>2. PoolStart(b * Pool) = b * Pool
    BY <1>0, <1>1, <2>1, PoolStartIs
  <2>3. Certain' = b * Pool
    BY <1>0, <1>1 DEF Certain
  <2>4. PoolStart(Certain)' = b * Pool
    BY <2>2, <2>3 DEF PoolStart
  <2> QED BY <1>0, <1>1, <2>4 DEF KeysInRing
<1> QED BY <1>0, <1>1, <1>2, <1>3, <1>4, SameKernel DEF IInv, StepSize

-----------------------------------------------------------------------------
(* What the ring holds once a chunk is seeded: the chunk's own last keys, each in  *)
(* its slot, and the earlier keys of the pool that the chunk leaves in progress.   *)
LEMMA SeededHolds ==
  ASSUME kernel \in Kernels, NEW start \in Nat, NEW end \in Nat, start < end,
         NEW passed, NEW p \in Nat, p < end, p >= end - Pool
  PROVE  Seeded(start, end, passed)[PhysicalSlot(p)] =
           IF p >= start THEN Key(p, passed[p]) ELSE tail[PhysicalSlot(p)]
<1>0. Pool \in Nat \ {0} /\ Ring \in Nat /\ Ring >= Pool
  BY KPoolAssumption, RingType
<1> DEFINE P == {q \in LastPool(start, end) : PhysicalSlot(q) = PhysicalSlot(p)}
<1>1. Seeded(start, end, passed)[PhysicalSlot(p)] =
        IF P = {} THEN tail[PhysicalSlot(p)]
                  ELSE LET q == CHOOSE q \in P : TRUE IN Key(q, passed[q])
  BY SlotType DEF Seeded
<1>2. ASSUME NEW q \in P PROVE q = p
  <2>1. q \in Nat /\ q < end /\ q >= end - Pool /\ PhysicalSlot(q) = PhysicalSlot(p)
    BY <1>2 DEF LastPool
  <2>2. q - p < Ring /\ p - q < Ring
    BY <2>1, <1>0
  <2>3. ~ (p < q)
    BY <2>1, <2>2, SlotsDiffer
  <2>4. ~ (q < p)
    BY <2>1, <2>2, SlotsDiffer
  <2> QED BY <2>1, <2>3, <2>4
<1>3. CASE p >= start
  <2>1. p \in P
    BY <1>3 DEF LastPool
  <2>2. (CHOOSE q \in P : TRUE) \in P
    BY <2>1
  <2>3. (CHOOSE q \in P : TRUE) = p
    BY <2>2, <1>2
  <2> QED BY <1>1, <1>3, <2>1, <2>3
<1>4. CASE ~ (p >= start)
  <2>1. P = {}
    BY <1>2, <1>4 DEF LastPool
  <2> QED BY <1>1, <1>4, <2>1
<1> QED BY <1>3, <1>4

(* A chunk of the prompt.                                                    *)
LEMMA PrefillStep ==
  ASSUME IInv, NEW n \in 1 .. MaxLen, Prefill(n)
  PROVE  IInv'
<1> DEFINE end    == computed + n
           passed == [p \in Positions |->
                        IF p \in computed .. end - 1 THEN pass[p] + 1 ELSE pass[p]]
<1>0. /\ computed \in Nat /\ row = computed /\ MaxLen \in Nat /\ NumSpec \in Nat
      /\ Pool \in Nat \ {0} /\ kernel \in Kernels
      /\ n \in Nat /\ n >= 1 /\ end \in Nat /\ computed < end /\ end <= MaxLen
  BY Counters DEF IInv, Prefill, Idle
<1>1. /\ pass \in [Positions -> Nat] /\ tail \in [Slots -> Keys]
      /\ pools \in [PoolIds -> [Lanes -> Keys]]
  BY DEF IInv, TypeOK
<1>2. /\ pass' = passed
      /\ pools' = [b \in PoolIds |->
                     IF computed <= b * Pool + Pool - 1 /\ b * Pool + Pool <= end
                       THEN PoolOfChunk(b, computed, passed) ELSE pools[b]]
      /\ tail' = Seeded(computed, end, passed)
      /\ computed' = end /\ row' = end /\ last' = end /\ kernel' = kernel
  BY DEF Prefill
<1> HIDE DEF end
<1>9. /\ Certain = computed /\ Certain' = end /\ Slots' = Slots
      /\ \A p : PhysicalSlot(p)' = PhysicalSlot(p)
  BY <1>0, <1>2, SameKernel DEF Certain
<1>3. passed \in [Positions -> Nat]
  BY <1>1
<1>4. \A p \in Nat : p < computed => passed[p] = pass[p]
  BY <1>0, <1>1 DEF Positions
<1>5. \A p \in Nat : p < end => Key(p, passed[p]) \in Keys
  BY <1>0, <1>3 DEF Key, Keys, Positions
<1> HIDE DEF passed
<1>6. TypeOK'
  <2>1. Seeded(computed, end, passed) \in [Slots -> Keys]
    <3> SUFFICES ASSUME NEW s \in Slots
                 PROVE  Seeded(computed, end, passed)[s] \in Keys
      BY DEF Seeded
    <3> DEFINE P == {p \in LastPool(computed, end) : PhysicalSlot(p) = s}
    <3>1. Seeded(computed, end, passed)[s] =
            IF P = {} THEN tail[s]
                      ELSE LET p == CHOOSE p \in P : TRUE IN Key(p, passed[p])
      BY DEF Seeded
    <3>2. CASE P = {}
      BY <3>1, <3>2, <1>1
    <3>3. CASE P # {}
      <4>1. (CHOOSE p \in P : TRUE) \in P
        BY <3>3
      <4>2. (CHOOSE p \in P : TRUE) \in Nat /\ (CHOOSE p \in P : TRUE) < end
        BY <4>1, <1>0 DEF LastPool
      <4> QED BY <3>1, <3>3, <4>2, <1>5
    <3> QED BY <3>2, <3>3
  <2>2. pools' \in [PoolIds -> [Lanes -> Keys]]
    <3>1. ASSUME NEW b \in PoolIds, b * Pool + Pool <= end
          PROVE  PoolOfChunk(b, computed, passed) \in [Lanes -> Keys]
      <4> SUFFICES ASSUME NEW i \in Lanes
                   PROVE  (IF b * Pool + i >= computed THEN Key(b * Pool + i, passed[b * Pool + i])
                             ELSE tail[PhysicalSlot(b * Pool + i)]) \in Keys
        BY DEF PoolOfChunk
      <4>1. b * Pool + i \in Nat /\ b * Pool + i < b * Pool + Pool /\ b * Pool \in Nat
        BY PoolPositions DEF PoolIds
      <4>2. b * Pool + i < end
        BY <3>1, <4>1, <1>0
      <4>3. tail[PhysicalSlot(b * Pool + i)] \in Keys
        BY <4>1, <1>0, <1>1, SlotType
      <4> QED BY <4>1, <4>2, <4>3, <1>5
    <3> QED BY <3>1, <1>1, <1>2
  <2> QED BY <1>0, <1>2, <1>3, <1>9, <2>1, <2>2 DEF TypeOK
<1>7. KeysInRing'
  <2> SUFFICES ASSUME NEW p \in PoolStart(end) .. end - 1
               PROVE  tail'[PhysicalSlot(p)] = Key(p, passed[p])
    BY <1>2, <1>9 DEF KeysInRing, Latest, PoolStart
  <2>1. PoolStart(end) \in Nat /\ end < PoolStart(end) + Pool /\ PoolStart(end) <= end
    BY <1>0, PoolStartIs
  <2>2. p \in Nat /\ p < end /\ p >= end - Pool
    BY <2>1, <1>0
  <2>3. tail'[PhysicalSlot(p)] =
          IF p >= computed THEN Key(p, passed[p]) ELSE tail[PhysicalSlot(p)]
    BY <2>2, <1>0, <1>2, SeededHolds
  <2>4. CASE p >= computed
    BY <2>3, <2>4
  <2>5. CASE p < computed
    <3>0. computed <= end
      BY <1>0
    <3>1. PoolStart(computed) <= PoolStart(end) /\ PoolStart(computed) \in Nat
      BY <3>0, <1>0, PoolStartMono, PoolStartIs
    <3>2. p \in PoolStart(computed) .. row - 1
      BY <2>1, <2>2, <2>5, <3>1, <1>0
    <3>3. tail[PhysicalSlot(p)] = Key(p, pass[p])
      BY <3>2, <1>9 DEF IInv, KeysInRing, Latest
    <3> QED BY <2>2, <2>3, <2>5, <3>3, <1>0, <1>4
  <2> QED BY <2>2, <2>4, <2>5, <1>0
<1>8. PoolsFaithful'
  <2> SUFFICES ASSUME NEW b \in PoolIds, (b + 1) * Pool <= end, NEW i \in Lanes
               PROVE  pools'[b][i] = Key(b * Pool + i, passed[b * Pool + i])
    BY <1>2 DEF PoolsFaithful, Latest
  <2> DEFINE p == b * Pool + i
  <2>0. /\ b \in Nat /\ b * Pool \in Nat /\ (b + 1) * Pool = b * Pool + Pool
        /\ p \in Nat /\ p < b * Pool + Pool /\ b * Pool <= p
    BY PoolPositions DEF PoolIds, Lanes
  <2> HIDE DEF p
  <2>1. CASE computed <= b * Pool + Pool - 1
    <3>1. pools'[b] = PoolOfChunk(b, computed, passed)
      BY <2>0, <2>1, <1>2
    <3>2. pools'[b][i] = IF p >= computed THEN Key(p, passed[p]) ELSE tail[PhysicalSlot(p)]
      BY <3>1 DEF PoolOfChunk, p
    <3>3. CASE p >= computed
      BY <3>2, <3>3 DEF p
    <3>4. CASE p < computed
      <4>0. computed < b * Pool + Pool
        BY <2>0, <2>1, <1>0
      <4>1. PoolStart(computed) <= b * Pool /\ PoolStart(computed) \in Nat
        BY <4>0, <2>0, <1>0, PoolStartLeast, PoolStartIs
      <4>2. p \in PoolStart(computed) .. row - 1
        BY <4>1, <3>4, <2>0, <1>0
      <4>3. tail[PhysicalSlot(p)] = Key(p, pass[p])
        BY <4>2, <1>9 DEF IInv, KeysInRing, Latest
      <4> QED BY <3>2, <3>4, <4>3, <2>0, <1>0, <1>4 DEF p
    <3> QED BY <3>3, <3>4, <2>0, <1>0
  <2>2. CASE ~ (computed <= b * Pool + Pool - 1)
    <3>1. pools'[b] = pools[b]
      BY <2>2, <1>1, <1>2
    <3>2. (b + 1) * Pool <= row /\ p < computed
      BY <2>0, <2>2, <1>0
    <3>3. pools[b][i] = Key(p, pass[p])
      BY <3>2 DEF IInv, PoolsFaithful, Latest, p
    <3> QED BY <3>1, <3>2, <3>3, <2>0, <1>4 DEF p
  <2> QED BY <2>1, <2>2
<1> QED BY <1>0, <1>2, <1>6, <1>7, <1>8, SameKernel DEF IInv, StepSize

-----------------------------------------------------------------------------
(* The invariant is inductive, if the ring is wide enough.                       *)
THEOREM Inductive == WideRing => (Spec => []IInv)
<1> SUFFICES ASSUME WideRing PROVE Spec => []IInv
  OBVIOUS
<1>1. Init => IInv
  BY InitIInv
<1>2. IInv /\ [Next]_vars => IInv'
  <2> SUFFICES ASSUME IInv, [Next]_vars PROVE IInv'
    OBVIOUS
  <2>1. ASSUME NEW n \in 1 .. MaxLen, BeginDecode(n) PROVE IInv'
    BY <2>1, BeginDecodeStep
  <2>2. ASSUME NEW n \in 1 .. MaxLen, Verify(n) PROVE IInv'
    BY <2>2, VerifyStep
  <2>3. ASSUME NEW n \in 1 .. MaxLen, Prefill(n) PROVE IInv'
    BY <2>3, PrefillStep
  <2>4. CASE DecodeRow
    BY <2>4, DecodeRowStep
  <2>5. ASSUME NEW b \in PoolIds, Resume(b) PROVE IInv'
    BY <2>5, ResumeStep
  <2>6. CASE UNCHANGED vars
    BY <2>6 DEF vars, IInv, TypeOK, PoolsFaithful, KeysInRing, StepSize, Latest,
                Certain, Slots, Ring, NumSpec, PhysicalSlot
  <2> QED BY <2>1, <2>2, <2>3, <2>4, <2>5, <2>6 DEF Next
<1> QED BY <1>1, <1>2, PTL DEF Spec

(* Every completed pool is made of its tokens' latest keys: no rejected draft, no  *)
(* other request's key, in any pool of the index cache.                         *)
THEOREM PoolsAreFaithful == WideRing => (Spec => []PoolsFaithful)
<1>1. IInv => PoolsFaithful
  BY DEF IInv
<1> QED BY <1>1, Inductive, PTL

(* The committed keys of the pool in progress survive the drafts behind them.     *)
THEOREM CommittedKeysAreKept == WideRing => (Spec => []CommittedKeysKept)
<1>1. IInv => CommittedKeysKept
  <2> SUFFICES ASSUME IInv PROVE CommittedKeysKept
    OBVIOUS
  <2>1. Certain \in Nat /\ row \in Nat /\ Certain <= row /\ PoolStart(Certain) \in Nat
    BY Counters, CertainIs, PoolStartIs DEF IInv
  <2>2. PoolStart(Certain) .. Certain - 1 \subseteq PoolStart(Certain) .. row - 1
    BY <2>1
  <2> QED BY <2>2 DEF IInv, KeysInRing, CommittedKeysKept
<1> QED BY <1>1, Inductive, PTL

(* Every variable keeps its type.                                              *)
THEOREM TypeCorrect == WideRing => (Spec => []TypeOK)
<1>1. IInv => TypeOK
  BY DEF IInv
<1> QED BY <1>1, Inductive, PTL
=============================================================================

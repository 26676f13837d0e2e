------------------------------ MODULE KPoolTail ------------------------------
(***************************************************************************)
(* The index keys of GLM-5.3 are compressed in pools of Pool consecutive      *)
(* tokens.  Keys of the pool still in progress wait in a ring, the request's   *)
(* tail block, until the pool's last token completes it and the pool is        *)
(* written to the index cache.                                              *)
(*                                                                         *)
(* Two kernels do this, by the same steps over rings of different sizes:      *)
(* glm_kpool.py keeps one pool (position % POOL_SIZE), and kpool_compress.py     *)
(* as r28.3-a patches it keeps whole pools that also hold the drafts            *)
(* (position % RING).  The kernel a server runs is fixed when it starts; the     *)
(* module covers every kernel in Kernels.                                    *)
(*                                                                         *)
(* The key of a draft token is stored before the draft is accepted.  A key    *)
(* is the position it belongs to and the number of the pass over that          *)
(* position that computed it: the right key is that of the last pass.  Each    *)
(* request has its own tail block, so one request is the whole system.        *)
(***************************************************************************)
EXTENDS Integers

CONSTANTS
  Pool,      (* _POOL_SIZE, index_kpool                                       *)
  Kernels,   (* the kernels covered: slots of the tail block, and the drafts   *)
             (* of a step (num_speculative_tokens) it is run with              *)
  MaxLen,    (* max_model_len                                                *)
  MaxPasses  (* bound of the model: passes over one position                  *)

ASSUME KPoolAssumption ==
  /\ {Pool, MaxLen, MaxPasses} \subseteq Nat \ {0}
  /\ Kernels \subseteq [ring : Nat, drafts : Nat]
  /\ \A k \in Kernels : k.ring >= Pool   (* assert ring >= pool_size          *)

VARIABLES
  kernel,    (* the kernel of this server: it never changes                  *)
  computed,  (* num_computed_tokens: prefilled or accepted                   *)
  row,       (* position of the next row of the step                         *)
  last,      (* the step's rows end before this position                     *)
  pass,      (* pass[p]: number of the last pass over position p              *)
  tail,      (* the ring: the key each slot holds                            *)
  pools      (* the index cache: the keys each pool was made of               *)

vars == <<kernel, computed, row, last, pass, tail, pools>>

-----------------------------------------------------------------------------
Ring    == kernel.ring
NumSpec == kernel.drafts

Positions == 0 .. MaxLen - 1
PoolIds   == 0 .. MaxLen \div Pool
Slots     == 0 .. Ring - 1
Lanes     == 0 .. Pool - 1
Key(p, n) == [pos |-> p, pass |-> n]
NoKey     == Key(-1, 0)   (* what another request, or none, left behind       *)
Keys      == [pos : Positions \union {-1}, pass : Nat]

(* The key that position p has now, and the first position of the pool of p.    *)
Latest(p)    == Key(p, pass[p])
PoolStart(p) == p - (p % Pool)

PhysicalInPool(p) == p % Pool
PhysicalSlot(p) == p % Ring

(* The positions of a chunk whose keys are put into the ring: its last pool's.    *)
LastPool(start, end) == {p \in start .. end - 1 : p >= end - Pool}

Init ==
  /\ kernel \in Kernels
  /\ computed = 0 /\ row = 0 /\ last = 0
  /\ pass = [p \in Positions |-> 0]
  /\ tail = [s \in Slots |-> NoKey]
  /\ pools = [b \in PoolIds |-> [i \in Lanes |-> NoKey]]

Idle == row = last /\ last = computed

(* The positions before this one stay: the first row of a step is of a sampled    *)
(* token, so only the rows behind it may be rejected.                          *)
Certain == IF row > computed THEN computed + 1 ELSE computed

-----------------------------------------------------------------------------
(* A decode or verify step: the last sampled token and the drafts behind it.    *)
BeginDecode(n) ==
  /\ Idle /\ n \in 1 .. NumSpec + 1 /\ computed + n <= MaxLen
  /\ \A p \in computed .. computed + n - 1 : pass[p] < MaxPasses
  /\ last' = computed + n
  /\ UNCHANGED <<kernel, computed, row, pass, tail, pools>>

(* One row of _decode_update_kernel, which takes them in order: a completed     *)
(* pool is read from the ring and the row's own key, then the key is stored.    *)
DecodeRow ==
  /\ row < last
  /\ LET key == Key(row, pass[row] + 1) IN
     /\ pass' = [pass EXCEPT ![row] = @ + 1]
     /\ pools' = IF row % Pool = Pool - 1
                   THEN [pools EXCEPT ![row \div Pool] =
                           [i \in Lanes |-> IF i = Pool - 1 THEN key
                              ELSE tail[PhysicalSlot(PoolStart(row) + i)]]]
                   ELSE pools
     /\ tail' = [tail EXCEPT ![PhysicalSlot(row)] = key]
  /\ row' = row + 1
  /\ UNCHANGED <<kernel, computed, last>>

(* Rejection sampling: the first row's token counts, and a prefix of the        *)
(* drafts; the positions behind it will be computed again.                    *)
KeptOneMore(n) == n \in 1 .. last - computed + 1
Kept(n) == n \in 1 .. last - computed
Verify(n) ==
  /\ row = last /\ last > computed /\ Kept(n)
  /\ computed' = computed + n /\ row' = computed + n /\ last' = computed + n
  /\ UNCHANGED <<kernel, pass, tail, pools>>

(* A chunk of the prompt.  _prefill_pool_kernel takes the keys of a completed   *)
(* pool from the chunk, or from the ring when they precede it, ...            *)
PoolOfChunk(b, start, passed) ==
  [i \in Lanes |-> LET p == b * Pool + i IN
     IF p >= start THEN Key(p, passed[p]) ELSE tail[PhysicalSlot(p)]]
SeededByOrdinal(start, end, passed) ==
  [s \in Slots |->
     LET P == {p \in LastPool(start, end) : PhysicalSlot(p - start) = s}
     IN  IF P = {} THEN tail[s] ELSE LET p == CHOOSE p \in P : TRUE IN Key(p, passed[p])]
(* ... and _prefill_tail_kernel stores the last keys of the chunk.             *)
Seeded(start, end, passed) ==
  [s \in Slots |->
     LET P == {p \in LastPool(start, end) : PhysicalSlot(p) = s}
     IN  IF P = {} THEN tail[s] ELSE LET p == CHOOSE p \in P : TRUE IN Key(p, passed[p])]

Prefill(n) ==
  /\ Idle /\ n >= 1 /\ computed + n <= MaxLen
  /\ \A p \in computed .. computed + n - 1 : pass[p] < MaxPasses
  /\ LET end    == computed + n
         passed == [p \in Positions |-> IF p \in computed .. end - 1 THEN pass[p] + 1 ELSE pass[p]]
     IN  /\ pass' = passed
         /\ pools' = [b \in PoolIds |->
                        IF computed <= b * Pool + Pool - 1 /\ b * Pool + Pool <= end
                          THEN PoolOfChunk(b, computed, passed) ELSE pools[b]]
         /\ tail' = Seeded(computed, end, passed)
         /\ computed' = end /\ row' = end /\ last' = end
  /\ UNCHANGED kernel

(* The request is preempted or another one takes up its cached blocks: it goes   *)
(* on from a whole number of pools, with a tail block that was someone else's.  *)
Resume(b) ==
  /\ Idle /\ b \in PoolIds /\ b * Pool <= computed
  /\ computed' = b * Pool /\ row' = b * Pool /\ last' = b * Pool
  /\ tail' = [s \in Slots |-> NoKey]
  /\ UNCHANGED <<kernel, pass, pools>>

Next ==
  \/ \E n \in 1 .. MaxLen : BeginDecode(n) \/ Verify(n) \/ Prefill(n)
  \/ DecodeRow
  \/ \E b \in PoolIds : Resume(b)

Spec == Init /\ [][Next]_vars

-----------------------------------------------------------------------------
(* get_kv_cache_spec after r28.3-a: the least power of two of pools that holds   *)
(* one pool and the drafts.                                                  *)
Cdiv(a, b) == (a + b - 1) \div b
NextPowerOf2(n) == CHOOSE k \in {2 ^ e : e \in 0 .. n} :
                     k >= n /\ \A e \in 0 .. n : 2 ^ e >= n => k <= 2 ^ e
TailRing(pool, spec) == pool * NextPowerOf2(Cdiv(pool + spec, pool))

-----------------------------------------------------------------------------
TypeOK ==
  /\ kernel \in Kernels
  /\ computed \in 0 .. MaxLen /\ last \in computed .. MaxLen /\ row \in computed .. last
  /\ pass \in [Positions -> Nat] /\ tail \in [Slots -> Keys]
  /\ pools \in [PoolIds -> [Lanes -> Keys]]

(* Every pool whose last token has been computed is made of the keys its tokens  *)
(* have now ("write every newly completed FP8 C4 pool"): no key of a rejected    *)
(* draft, of another pool or of another request is in it.                      *)
PoolsFaithful ==
  \A b \in PoolIds : (b + 1) * Pool <= row =>
    \A i \in Lanes : pools[b][i] = Latest(b * Pool + i)

(* A draft's row never overwrites a key of the pool in progress that stays: if     *)
(* the draft is rejected, the row that completes this pool still reads it.       *)
CommittedKeysKept ==
  \A p \in PoolStart(Certain) .. Certain - 1 : tail[PhysicalSlot(p)] = Latest(p)
=============================================================================

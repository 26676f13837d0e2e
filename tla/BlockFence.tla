----------------------------- MODULE BlockFence -----------------------------
(***************************************************************************)
(* The deferred return of KV-cache blocks in the scheduler (scheduler.py,  *)
(* `defer_block_free = True`): a request that is preempted, aborted or     *)
(* reset may still have a model step in flight that writes its blocks, so  *)
(* its blocks go through the FIFO `deferred_frees`, fenced by the sequence *)
(* number of the last non-empty step, and return to the pool only when     *)
(* that step's output has been processed.                                  *)
(*                                                                         *)
(* This is the abstract specification of the block side of SchedulerCore,  *)
(* which is shown to implement it.  Which request gets which block, and    *)
(* how many, is left open here.                                            *)
(***************************************************************************)
EXTENDS Integers, Sequences

CONSTANTS
  Requests,   (* request ids                                                *)
  Blocks,     (* physical KV-cache blocks                                   *)
  Depth,      (* max_concurrent_batches: steps in flight at once            *)
  MaxSteps,   (* bound of the model: non-empty steps scheduled in all,       *)
  MaxDeferred (* and entries of deferred_frees; 0 for no bound               *)

ASSUME DepthAssumption == Depth \in Nat \ {0}
ASSUME BoundsAssumption == MaxSteps \in Nat /\ MaxDeferred \in Nat

VARIABLES
  blocks,       (* request -> the blocks its block table holds              *)
  deferred,     (* deferred_frees: FIFO of [fence, blocks]                  *)
  lastSeq,      (* request -> last_sched_seq                                *)
  schedSeq,     (* sched_step_seq                                           *)
  processedSeq, (* processed_step_seq                                       *)
  flight        (* FIFO of the steps in flight: request -> blocks it writes *)

vars == <<blocks, deferred, lastSeq, schedSeq, processedSeq, flight>>

-----------------------------------------------------------------------------
Below(n, bound) == bound = 0 \/ n < bound

(* Blocks with a reference: a block table's or a deferred entry's.          *)
Held == {b \in Blocks : \/ \E r \in Requests : b \in blocks[r]
                        \/ \E i \in DOMAIN deferred : b \in deferred[i].blocks}

(* The block pool's free blocks: what a later allocation, or a KV transfer   *)
(* that no GPU stream orders after the steps in flight, may fill.            *)
Free == Blocks \ Held

(* The blocks some step in flight may still write.                          *)
InFlightWrites ==
  {b \in Blocks : \E j \in DOMAIN flight, r \in Requests : b \in flight[j][r]}

(* deferred_frees after `_drain_deferred_frees` popped its first k entries.  *)
StrictFence(k, processed) ==
  /\ \A i \in 1..k : deferred[i].fence < processed
  /\ k < Len(deferred) => deferred[k + 1].fence >= processed
NeverDrained(k, processed) == k = 0
DrainedBy(k, processed) ==
  /\ \A i \in 1..k : deferred[i].fence <= processed
  /\ k < Len(deferred) => deferred[k + 1].fence > processed

-----------------------------------------------------------------------------
Init ==
  /\ blocks = [r \in Requests |-> {}]
  /\ deferred = <<>>
  /\ lastSeq = [r \in Requests |-> 0]
  /\ schedSeq = 0
  /\ processedSeq = 0
  /\ flight = <<>>

(* allocate_slots: prefix-cache hits are blocks something already holds, the *)
(* rest is taken from the free pool.                                         *)
Allocate(r, hit, fresh) ==
  /\ hit \subseteq Held
  /\ fresh \subseteq Free
  /\ blocks' = [blocks EXCEPT ![r] = @ \union hit \union fresh]
  /\ UNCHANGED <<deferred, lastSeq, schedSeq, processedSeq, flight>>

(* The fence test of `_free_request_blocks`.                                 *)
FreesOneEarly(r) == lastSeq[r] <= processedSeq + 1
MayFreeNow(r) == lastSeq[r] <= processedSeq

(* _free_request_blocks: at once when the request's last step is processed,  *)
(* otherwise behind the last non-empty step.                                 *)
FreeRequestBlocks(r) ==
  /\ Below(Len(deferred), MaxDeferred)
  /\ blocks' = [blocks EXCEPT ![r] = {}]
  /\ deferred' = IF MayFreeNow(r) \/ blocks[r] = {}
                   THEN deferred
                   ELSE Append(deferred, [fence |-> schedSeq, blocks |-> blocks[r]])
  /\ UNCHANGED <<lastSeq, schedSeq, processedSeq, flight>>

(* The tail of a schedule() that scheduled the requests R # {}: the sources   *)
(* of copy-on-write block copies, `cow`, are retained behind the step that    *)
(* runs the copy, the sequence number advances, every scheduled request       *)
(* records it, and the step is in flight.                                     *)
ScheduleStep(R, cow) ==
  /\ R # {}
  /\ Len(flight) < Depth
  /\ Below(schedSeq, MaxSteps)
  /\ cow \subseteq Held
  /\ Below(Len(deferred), MaxDeferred)
  /\ deferred' = IF cow = {} THEN deferred
                 ELSE Append(deferred, [fence |-> schedSeq + 1, blocks |-> cow])
  /\ schedSeq' = schedSeq + 1
  /\ lastSeq' = [r \in Requests |-> IF r \in R THEN schedSeq + 1 ELSE lastSeq[r]]
  /\ flight' = Append(flight, [r \in Requests |-> IF r \in R THEN blocks[r] ELSE {}])
  /\ UNCHANGED <<blocks, processedSeq>>

(* A schedule() that scheduled no token does not advance the sequence number;  *)
(* the copies it prepared run with the first step that does.                 *)
RetainCopies(cow) ==
  /\ cow # {} /\ cow \subseteq Held
  /\ Below(Len(deferred), MaxDeferred)
  /\ deferred' = Append(deferred, [fence |-> schedSeq + 1, blocks |-> cow])
  /\ UNCHANGED <<blocks, lastSeq, schedSeq, processedSeq, flight>>

(* The head of update_from_output: the oldest step in flight has finished,   *)
(* processed_step_seq advances and `_drain_deferred_frees` pops the entries   *)
(* at the front whose fence it reached, stopping at the first pending one.    *)
StepNotCounted ==
  /\ flight # <<>>
  /\ flight' = Tail(flight)
  /\ UNCHANGED <<blocks, deferred, lastSeq, schedSeq, processedSeq>>
ProcessStep ==
  /\ flight # <<>>
  /\ flight' = Tail(flight)
  /\ processedSeq' = processedSeq + 1
  /\ \E k \in 0..Len(deferred) :
       /\ DrainedBy(k, processedSeq + 1)
       /\ deferred' = SubSeq(deferred, k + 1, Len(deferred))
  /\ UNCHANGED <<blocks, lastSeq, schedSeq>>

Next ==
  \/ \E r \in Requests, hit, fresh \in SUBSET Blocks : Allocate(r, hit, fresh)
  \/ \E r \in Requests : FreeRequestBlocks(r)
  \/ \E R \in SUBSET Requests, cow \in SUBSET Blocks : ScheduleStep(R, cow)
  \/ \E cow \in SUBSET Blocks : RetainCopies(cow)
  \/ ProcessStep

Spec == Init /\ [][Next]_vars

(* A step in flight always completes.                                       *)
FairSpec == Spec /\ WF_vars(ProcessStep)

-----------------------------------------------------------------------------
DeferredEntry == [fence : Nat, blocks : SUBSET Blocks]

(* Every variable has its type, and the two sequence numbers differ by the   *)
(* number of steps in flight.                                                *)
TypeOK ==
  /\ blocks \in [Requests -> SUBSET Blocks]
  /\ deferred \in Seq(DeferredEntry)
  /\ lastSeq \in [Requests -> Nat]
  /\ schedSeq \in Nat
  /\ processedSeq \in Nat
  /\ flight \in Seq([Requests -> SUBSET Blocks])
  /\ schedSeq = processedSeq + Len(flight)

(* No block is in the free pool while a step in flight may write it,         *)
(* whatever the order of preemptions, aborts, resets, allocations and        *)
(* outputs (the reason given at Scheduler.__init__ for defer_block_free).    *)
NoFreeWrite == Free \cap InFlightWrites = {}

(* Once the pipeline is empty, no block stays in deferred_frees but behind     *)
(* copies retained for a step still to come: with fences that are only nearly  *)
(* monotonic, "any satisfied entry behind [a pending one] is merely freed      *)
(* later", never stranded.                                                    *)
BehindCopies == flight = <<>> /\ deferred # <<>> /\ deferred[1].fence = schedSeq + 1
NothingStranded == flight = <<>> => deferred = <<>> \/ BehindCopies

(* Every deferred entry is freed some day, if the engine does not stop while   *)
(* it waits behind such copies: a request's blocks may be late but are never   *)
(* lost.                                                                      *)
DeferredDrain == \A n \in 0..MaxSteps :
  (\E i \in DOMAIN deferred : deferred[i].fence <= n)
    ~> (BehindCopies \/ \A i \in DOMAIN deferred : deferred[i].fence > n)
=============================================================================

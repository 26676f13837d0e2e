----------------------------- MODULE MCKPoolTail -----------------------------
(* Instances of KPoolTail for TLC: the one-pool ring of glm_kpool.py without      *)
(* drafts and with one, and the ring r28.3-a computes for three.  That ring       *)
(* holds a pool and the drafts, and it is a whole number of pools.              *)
EXTENDS KPoolTail

MCKernels ==
  {[ring |-> Pool, drafts |-> d] : d \in 0 .. 1} \union {[ring |-> TailRing(Pool, 3), drafts |-> 3]}

(* The kernels of this instance are ones the proofs cover.                     *)
ASSUME WideRingAssumption == \A k \in MCKernels : k.ring >= Pool + k.drafts - 1

ASSUME TailRingAssumption ==
  \A pool \in 1 .. 16, spec \in 0 .. 16 :
    TailRing(pool, spec) >= pool + spec /\ TailRing(pool, spec) % pool = 0
=============================================================================

---------------------------- MODULE MCKVTransfer ----------------------------
(* Two requests over one text of two and a half blocks.                     *)
EXTENDS KVTransfer, TLC

CONSTANTS r1, r2

MCLen == r1 :> 5 @@ r2 :> 4

Offer(k, t) == [kind |-> k, tokens |-> t]
MCOffers == {Offer("async", 4), Offer("sync", 4), Offer("async", 0)}

(* A prompt of a block and a half, of which the step loads the block, and a  *)
(* longer one that shares it.                                               *)
MCLenShared == r1 :> 3 @@ r2 :> 5
MCOffersShared == {Offer("sync", 2), Offer("async", 0)}
=============================================================================

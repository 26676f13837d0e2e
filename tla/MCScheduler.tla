---------------------------- MODULE MCScheduler ----------------------------
(* Instances of SchedulerCore for TLC.                                       *)
EXTENDS SchedulerCore, TLC

CONSTANTS r1, r2, r3, b1, b2, b3, b4, b5

TwoPrompts   == r1 :> 3 @@ r2 :> 1
TwoMaxTokens == r1 :> 3 @@ r2 :> 2
TwoRanks     == r1 :> 1 @@ r2 :> 0

ThreePrompts   == r1 :> 1 @@ r2 :> 1 @@ r3 :> 3
ThreeMaxTokens == r1 :> 3 @@ r2 :> 3 @@ r3 :> 3
ThreeRanks     == r1 :> 2 @@ r2 :> 0 @@ r3 :> 1

AnyBlock == Permutations(Blocks)
=============================================================================

------------------------- MODULE MCStreamingSession -------------------------
(* Instances of StreamingSession for TLC.                                    *)
EXTENDS StreamingSession, TLC

AnySession == Permutations(Sessions)
=============================================================================

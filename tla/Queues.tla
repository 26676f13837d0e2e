------------------------------- MODULE Queues -------------------------------
(***************************************************************************)
(* Taking requests out of a queue (remove_requests of request_queue.py and   *)
(* remove_all of vllm.v1.core.sched.utils, which the scheduler calls).        *)
(***************************************************************************)
EXTENDS Integers, Sequences

(* The elements of q that are in S, in their order: SelectSeq, as a recursive     *)
(* function.                                                                 *)
Keep(q, S) ==
  LET kept[i \in 0..Len(q)] == IF i = 0 THEN <<>>
                               ELSE IF q[i] \in S THEN Append(kept[i - 1], q[i])
                               ELSE kept[i - 1]
  IN  kept[Len(q)]
=============================================================================

-------------------------- MODULE StreamingSession --------------------------
(***************************************************************************)
(* Resumable requests (streaming input) in scheduler.py: a session is one    *)
(* request whose prompt arrives in chunks.  When the model stops, the        *)
(* session takes the next chunk from its streaming_queue or waits for one    *)
(* (WAITING_FOR_STREAMING_REQ, STREAMWAIT here) in the skipped queue, where   *)
(* add_request finds it.                                                    *)
(*                                                                         *)
(* Budgets and blocks are those of SchedulerCore; here schedule() preempts,   *)
(* schedules and admits as many requests as it happens to have room for.     *)
(***************************************************************************)
EXTENDS Integers, FiniteSets, SequencesExt, Queues

CONSTANTS
  Sessions,
  Depth,        (* max_concurrent_batches                                    *)
  MaxNumSeqs,   (* max_num_running_reqs                                      *)
  MaxChunks,    (* bound of the model: chunks a client sends                 *)
  MaxPreempt    (* bound of the model: preemptions of a session              *)

ASSUME StreamingAssumption ==
  /\ IsFiniteSet(Sessions)
  /\ {Depth, MaxNumSeqs, MaxChunks} \subseteq Nat \ {0} /\ MaxPreempt \in Nat

VARIABLES
  status,    (* NEW, WAITING, RUNNING, PREEMPTED, STREAMWAIT or FINISHED      *)
  waiting, skipped, running,
  counter,   (* num_waiting_for_streaming_input                              *)
  updates,   (* streaming_queue: chunk numbers, and 0 for the end sentinel    *)
  sent,      (* chunks the client has sent                                   *)
  ended,     (* the client has sent the sentinel                             *)
  prompt,    (* the chunks in prompt_token_ids                               *)
  context,   (* the chunks in _all_token_ids                                 *)
  computed,  (* num_computed_tokens > 0                                      *)
  inflight,  (* steps of the session in flight                               *)
  stale,     (* those that predate its last preemption                       *)
  preempted, (* num_preemptions                                              *)
  flight,    (* FIFO of the steps in flight: sets of sessions                *)
  cur        (* what is left of the step update_from_output processes        *)

queues == <<waiting, skipped, running>>
client == <<sent, ended>>
text   == <<prompt, context>>
steps  == <<inflight, stale>>
vars == <<status, queues, counter, updates, client, text, computed, steps, preempted,
          flight, cur>>

-----------------------------------------------------------------------------
(* A queue without r.                                                        *)
Without(q, r) == Keep(q, Sessions \ {r})
Live(r) == status[r] \notin {"NEW", "FINISHED"}

Init ==
  /\ status = [r \in Sessions |-> "NEW"]
  /\ waiting = <<>> /\ skipped = <<>> /\ running = <<>> /\ counter = 0
  /\ updates = [r \in Sessions |-> <<>>]
  /\ sent = [r \in Sessions |-> 0] /\ ended = [r \in Sessions |-> FALSE]
  /\ prompt = [r \in Sessions |-> <<>>] /\ context = [r \in Sessions |-> <<>>]
  /\ computed = [r \in Sessions |-> FALSE]
  /\ inflight = [r \in Sessions |-> 0] /\ stale = [r \in Sessions |-> 0]
  /\ preempted = [r \in Sessions |-> 0]
  /\ flight = <<>> /\ cur = {}

(* _update_request_as_session: _all_token_ids is cut at num_computed_tokens,     *)
(* so what was not computed is dropped, and both lists get the new chunk.       *)
UpdateSession(r, chunk) ==
  /\ context' = [context EXCEPT ![r] = Append(IF computed[r] THEN @ ELSE <<>>, chunk)]
  /\ prompt' = [prompt EXCEPT ![r] = Append(@, chunk)]
  /\ status' = [status EXCEPT ![r] = "WAITING"]

(* The counter once r leaves STREAMWAIT, if that is where it was.               *)
CountKept(r) == counter
CountWithout(r) ==
  IF status[r] = "STREAMWAIT" THEN counter - 1 ELSE counter

(* _free_request, and removal from the queues.                               *)
Finish(r) ==
  /\ status' = [status EXCEPT ![r] = "FINISHED"]
  /\ waiting' = Without(waiting, r) /\ skipped' = Without(skipped, r)
  /\ running' = Without(running, r)
  /\ UNCHANGED text

-----------------------------------------------------------------------------
(* add_request                                                              *)
ClientOf(r) == cur = {} /\ status[r] # "FINISHED" /\ ~ended[r]

FirstChunk(r) ==
  /\ ClientOf(r) /\ status[r] = "NEW"
  /\ sent' = [sent EXCEPT ![r] = 1]
  /\ status' = [status EXCEPT ![r] = "WAITING"]
  /\ waiting' = Append(waiting, r)
  /\ prompt' = [prompt EXCEPT ![r] = <<1>>] /\ context' = [context EXCEPT ![r] = <<1>>]
  /\ UNCHANGED <<skipped, running, counter, updates, ended, computed, steps, preempted,
                 flight, cur>>

(* The next chunk of a waiting session.                                      *)
CommenceChunk(r) ==
  /\ ClientOf(r) /\ status[r] = "STREAMWAIT" /\ sent[r] < MaxChunks
  /\ sent' = [sent EXCEPT ![r] = @ + 1]
  /\ UpdateSession(r, sent[r] + 1)
  /\ counter' = CountWithout(r)
  /\ UNCHANGED <<queues, updates, ended, computed, steps, preempted, flight, cur>>

(* The next chunk, or the sentinel, while the session is busy.                *)
QueueUpdate(r) ==
  /\ ClientOf(r) /\ status[r] \in {"WAITING", "RUNNING", "PREEMPTED"}
  /\ \/ /\ sent[r] < MaxChunks
        /\ sent' = [sent EXCEPT ![r] = @ + 1]
        /\ updates' = [updates EXCEPT ![r] = Append(@, sent[r] + 1)]
        /\ UNCHANGED ended
     \/ /\ ended' = [ended EXCEPT ![r] = TRUE]
        /\ updates' = [updates EXCEPT ![r] = Append(@, 0)]
        /\ UNCHANGED sent
  /\ UNCHANGED <<status, queues, counter, text, computed, steps, preempted, flight, cur>>

(* The sentinel for a waiting session: finish_requests.                       *)
EndSession(r) ==
  /\ ClientOf(r) /\ status[r] = "STREAMWAIT"
  /\ ended' = [ended EXCEPT ![r] = TRUE]
  /\ counter' = CountWithout(r)
  /\ Finish(r)
  /\ UNCHANGED <<updates, sent, computed, steps, preempted, flight, cur>>

(* finish_requests for a client that went away.                              *)
Abort(r) ==
  /\ ClientOf(r) /\ Live(r)
  /\ ended' = [ended EXCEPT ![r] = TRUE]
  /\ counter' = CountWithout(r)
  /\ Finish(r)
  /\ UNCHANGED <<updates, sent, computed, steps, preempted, flight, cur>>

-----------------------------------------------------------------------------
(* schedule()                                                               *)
InFlight(R) == /\ inflight' = [r \in Sessions |-> inflight[r] + (IF r \in R THEN 1 ELSE 0)]
               /\ flight' = IF R = {} THEN flight ELSE Append(flight, R)

MaySchedule == cur = {} /\ Len(flight) < Depth

(* The last k running requests are preempted, some of the others scheduled.    *)
SchedulePreempting(k, R) ==
  /\ MaySchedule /\ k \in 1..Len(running)
  /\ LET stay == SubSeq(running, 1, Len(running) - k)
         out  == ToSet(SubSeq(running, Len(running) - k + 1, Len(running)))
     IN  /\ R \subseteq ToSet(stay)
         /\ \A r \in out : preempted[r] < MaxPreempt
         /\ running' = stay
         /\ waiting' = SubSeq(running, Len(running) - k + 1, Len(running)) \o waiting
         /\ status' = [r \in Sessions |-> IF r \in out THEN "PREEMPTED" ELSE status[r]]
         /\ computed' = [r \in Sessions |-> computed[r] /\ r \notin out]
         /\ stale' = [r \in Sessions |-> IF r \in out THEN inflight[r] ELSE stale[r]]
         /\ preempted' = [r \in Sessions |-> preempted[r] + (IF r \in out THEN 1 ELSE 0)]
  /\ InFlight(R)
  /\ UNCHANGED <<skipped, counter, updates, client, text, cur>>

(* What the waiting loop may admit, in its order.                            *)
Admissible ==
  Keep(skipped \o waiting,
       {r \in Sessions : status[r] \in {"WAITING", "PREEMPTED"} /\ stale[r] = 0})

(* "Paused streaming sessions are not in `running` but still hold a            *)
(* model-runner request slot."                                               *)
AllSeats == MaxNumSeqs - Len(running)
Seats == MaxNumSeqs - Len(running) - counter

Schedule(R, m) ==
  /\ MaySchedule /\ R \subseteq ToSet(running)
  /\ m <= Len(Admissible) /\ (m > 0 => m <= Seats)
  /\ LET new == SubSeq(Admissible, 1, m) IN
     /\ running' = running \o new
     /\ waiting' = Keep(waiting, Sessions \ ToSet(new))
     /\ skipped' = Keep(skipped, Sessions \ ToSet(new))
     /\ status' = [r \in Sessions |-> IF r \in ToSet(new) THEN "RUNNING" ELSE status[r]]
     /\ computed' = [r \in Sessions |-> computed[r] \/ r \in ToSet(new)]
     /\ InFlight(R \union ToSet(new))
  /\ UNCHANGED <<counter, updates, client, text, stale, preempted, cur>>

-----------------------------------------------------------------------------
(* update_from_output()                                                     *)
BeginOutput ==
  /\ cur = {} /\ flight # <<>>
  /\ cur' = Head(flight) /\ flight' = Tail(flight)
  /\ UNCHANGED <<status, queues, counter, updates, client, text, computed, steps, preempted>>

Drain(r) ==
  /\ r \in cur /\ cur' = cur \ {r}
  /\ inflight' = [inflight EXCEPT ![r] = @ - 1]
  /\ stale' = [stale EXCEPT ![r] = IF @ > 0 THEN @ - 1 ELSE 0]

(* A prefill chunk or a token that does not stop; or the session is finished.  *)
Output(r) ==
  /\ Drain(r)
  /\ UNCHANGED <<status, queues, counter, updates, client, text, computed, preempted, flight>>

RemovedEverywhere(r, w, s) ==
  running' = Without(running, r) /\ waiting' = Without(w, r) /\ skipped' = Without(s, r)
(* The removal at the end of update_from_output, by the status before the stop. *)
RemovedFrom(r, w, s) ==
  IF status[r] = "RUNNING"
    THEN running' = Without(running, r) /\ waiting' = w /\ skipped' = s
    ELSE running' = running /\ waiting' = Without(w, r) /\ skipped' = Without(s, r)

(* _handle_stopped_request                                                  *)
StopAndWait(r) ==
  /\ Drain(r) /\ Live(r) /\ updates[r] = <<>>
  /\ status' = [status EXCEPT ![r] = "STREAMWAIT"]
  /\ counter' = counter + 1
  /\ RemovedFrom(r, waiting, Append(skipped, r))
  /\ UNCHANGED <<updates, client, text, computed, preempted, flight>>

TakeNewest(r) == /\ UpdateSession(r, Last(updates[r]))
                 /\ updates' = [updates EXCEPT ![r] = Front(@)]
TakeNext(r) == /\ UpdateSession(r, Head(updates[r]))
               /\ updates' = [updates EXCEPT ![r] = Tail(@)]

StopAndContinue(r) ==
  /\ Drain(r) /\ Live(r) /\ updates[r] # <<>> /\ Head(updates[r]) # 0
  /\ TakeNext(r)
  /\ counter' = CountWithout(r)
  /\ RemovedFrom(r, Append(waiting, r), skipped)
  /\ UNCHANGED <<client, computed, preempted, flight>>

StopAndFinish(r) ==
  /\ Drain(r) /\ Live(r) /\ updates[r] # <<>> /\ Head(updates[r]) = 0
  /\ updates' = [updates EXCEPT ![r] = Tail(@)]
  /\ Finish(r)
  /\ UNCHANGED <<counter, client, computed, preempted, flight>>

-----------------------------------------------------------------------------
Stop(r) == StopAndWait(r) \/ StopAndContinue(r) \/ StopAndFinish(r)
Next ==
  \/ \E r \in Sessions : FirstChunk(r) \/ CommenceChunk(r) \/ QueueUpdate(r)
                          \/ EndSession(r) \/ Abort(r) \/ Output(r) \/ Stop(r)
  \/ \E k \in 1..Cardinality(Sessions), R \in SUBSET Sessions : SchedulePreempting(k, R)
  \/ \E m \in 0..Cardinality(Sessions), R \in SUBSET Sessions : Schedule(R, m)
  \/ BeginOutput

Spec == Init /\ [][Next]_vars

(* The engine loop runs, room that comes back again and again is used, and the   *)
(* model stops some time.                                                    *)
FairSpec ==
  /\ Spec
  /\ WF_vars(BeginOutput) /\ WF_vars(\E r \in cur : Output(r) \/ Stop(r))
  /\ SF_vars(\E m \in 1..Cardinality(Sessions), R \in SUBSET Sessions : Schedule(R, m))
  /\ \A r \in Sessions : /\ SF_vars(Stop(r))
                         /\ SF_vars(r \in ToSet(running) /\ Schedule(ToSet(running), 0))

-----------------------------------------------------------------------------
(* Every variable has its type; the counter is a count.                       *)
TypeOK ==
  /\ status \in [Sessions -> {"NEW", "WAITING", "RUNNING", "PREEMPTED", "STREAMWAIT",
                              "FINISHED"}]
  /\ {waiting, skipped, running} \subseteq Seq(Sessions) /\ counter \in Nat
  /\ {updates, prompt, context} \subseteq [Sessions -> Seq(0..MaxChunks)]
  /\ sent \in [Sessions -> 0..MaxChunks] /\ ended \in [Sessions -> BOOLEAN]
  /\ computed \in [Sessions -> BOOLEAN]
  /\ {inflight, stale, preempted} \subseteq [Sessions -> Nat]
  /\ flight \in Seq(SUBSET Sessions) /\ cur \subseteq Sessions

(* A live session is in exactly one queue, once, so the chunk add_request         *)
(* "commences" is scheduled some time.                                       *)
SessionQueued ==
  \A r \in Sessions : Live(r) =>
    Len(Keep(waiting \o skipped \o running, {r})) = 1

(* get_num_unfinished_requests, which keeps the engine loop awake, counts exactly  *)
(* the sessions that have something to compute; and running and paused sessions   *)
(* together never take more seats than the model runner has.                    *)
NumUnfinished == Len(waiting) + Len(skipped) - counter + Len(running)
EngineSeesWork ==
  /\ NumUnfinished = Cardinality({r \in Sessions : status[r] \in {"WAITING", "RUNNING", "PREEMPTED"}})
  /\ Len(running) + counter <= MaxNumSeqs

(* A session keeps its whole text: every chunk it has taken, in the order sent,     *)
(* is in the prompt and in the tokens to compute ("Discards the last sampled       *)
(* output token from the prior input chunk", and nothing else).                  *)
ContextKept ==
  \A r \in Sessions : /\ context[r] = prompt[r]
                      /\ prompt[r] = [i \in 1..Len(prompt[r]) |-> i]

(* Once every client that began a session has ended it, all of them finish, unless *)
(* another session begins meanwhile: none is left out of the queues, and none is   *)
(* kept from its seat for ever by a session that waits for its next chunk.         *)
AllEnded == \A r \in Sessions : status[r] = "NEW" \/ ended[r]
SessionEnds == AllEnded ~> (AllEnded => \A r \in Sessions : ~Live(r))
=============================================================================

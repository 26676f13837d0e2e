---------------------------- MODULE SchedulerCore ----------------------------
(***************************************************************************)
(* The request scheduler of the engine core (scheduler.py) under            *)
(* asynchronous scheduling: schedule() may run again before the output of   *)
(* the steps it scheduled earlier is back, so a request can be preempted,   *)
(* reset or aborted with tokens in flight.                                  *)
(*                                                                         *)
(* schedule(), update_from_output() and reset_prefix_cache() run on one     *)
(* thread and do not interleave; each is a sequence of steps here, one per  *)
(* iteration of its loops, under the program counter `pc`.  Between them    *)
(* (pc = "idle") requests arrive and are aborted and the scheduler is       *)
(* paused.  No KV connector, LoRA, encoder input, grammar or streaming      *)
(* session is configured; those are modelled in modules of their own.       *)
(***************************************************************************)
EXTENDS Integers, FiniteSets, SequencesExt

CONSTANTS
  Requests,        (* request ids                                            *)
  Prompt,          (* request -> num_prompt_tokens                           *)
  MaxTokens,       (* request -> max_tokens of its sampling parameters       *)
  Rank,            (* request -> rank of (priority, arrival_time)            *)
  Priority,        (* policy: TRUE for PRIORITY, FALSE for FCFS              *)
  Blocks,          (* KV-cache blocks                                        *)
  BlockSize,       (* tokens per block                                       *)
  Depth,           (* max_concurrent_batches                                 *)
  MaxNumSeqs,      (* max_num_running_reqs                                   *)
  TokenBudget,     (* max_num_scheduled_tokens                               *)
  InputBudget,     (* max_num_batched_tokens                                 *)
  DraftSlots,      (* max_num_new_slots_for_drafting                         *)
  Threshold,       (* long_prefill_token_threshold, 0 when off               *)
  MaxModelLen,     (* max_model_len                                          *)
  NumSpec,         (* num_spec_tokens                                        *)
  PrefillLookahead,(* num_prefill_lookahead                                  *)
  CacheHits,       (* prefix-cache hit lengths the model explores            *)
  ReserveFullISL,  (* scheduler_reserve_full_isl                             *)
  DeferFree,       (* defer_block_free                                       *)
  DropOnPreempt,   (* requires_kv_delivery                                   *)
  PauseStates,     (* pause states an operator may select                    *)
  MaxResets        (* bound of the model: reset_prefix_cache calls           *)

ASSUME SizesAssumption ==
  /\ BlockSize \in Nat \ {0} /\ Depth \in Nat \ {0} /\ MaxNumSeqs \in Nat \ {0}
  /\ TokenBudget \in Nat \ {0} /\ InputBudget \in Nat /\ DraftSlots \in Nat
  /\ Threshold \in Nat /\ MaxModelLen \in Nat /\ NumSpec \in Nat
  /\ PrefillLookahead \in Nat /\ MaxResets \in Nat
ASSUME RequestsAssumption ==
  /\ Prompt \in [Requests -> Nat \ {0}] /\ MaxTokens \in [Requests -> Nat \ {0}]
  /\ Rank \in [Requests -> Nat] /\ IsInjective(Rank)
ASSUME SwitchesAssumption ==
  /\ {Priority, ReserveFullISL, DeferFree, DropOnPreempt} \subseteq BOOLEAN
  /\ PauseStates \subseteq {"UNPAUSED", "PAUSED_NEW", "PAUSED_ALL"}
ASSUME CacheAssumption == IsFiniteSet(Blocks) /\ CacheHits \subseteq Nat

VARIABLES
  (* per request *)
  status,       (* NEW (not added yet), WAITING, RUNNING, PREEMPTED, FINISHED *)
  log,          (* positions of the output tokens appended and delivered      *)
  computed,     (* num_computed_tokens                                        *)
  inflight,     (* num_in_flight_tokens                                       *)
  stale,        (* num_stale_output_tokens                                    *)
  drop,         (* drop_stale_output                                          *)
  placeholders, (* num_output_placeholders                                    *)
  spec,         (* len(spec_token_ids)                                        *)
  chunk,        (* is_prefill_chunk                                           *)
  (* queues *)
  waiting, skipped, running,
  finished,     (* finished_req_ids                                           *)
  pause,        (* _pause_state                                               *)
  (* blocks *)
  blocks, deferred, lastSeq, schedSeq, processedSeq,
  (* engine *)
  flight,       (* FIFO of the step outputs not processed yet                 *)
  next,         (* worker: the position request r samples next                *)
  pc,           (* idle, running, waiting, finish, update or reset            *)
  step,         (* local variables of schedule()                              *)
  cur,          (* what is left of the output update_from_output processes    *)
  resets, resetFailed

tokenVars == <<log, computed, inflight, stale, drop, placeholders, spec, chunk>>
queueVars == <<waiting, skipped, running>>
blockVars == <<blocks, deferred, lastSeq, schedSeq, processedSeq>>
ctlVars   == <<pause, resets, resetFailed>>
vars == <<status, tokenVars, queueVars, finished, blockVars, flight, next, pc,
          step, cur, ctlVars>>

-----------------------------------------------------------------------------
Least(a, b) == IF a <= b THEN a ELSE b
AtLeastZero(a) == IF a < 0 THEN 0 ELSE a

(* The sum of a sequence of numbers, as a recursive function.                 *)
SumOf(s) ==
  LET sum[i \in 0..Len(s)] == IF i = 0 THEN 0 ELSE sum[i - 1] + s[i]
  IN  sum[Len(s)]

Alive(r) == status[r] \in {"WAITING", "RUNNING", "PREEMPTED"}
NumTokens(r) == Prompt[r] + Len(log[r])

NoRequest == [r \in Requests |-> 0]
NoStep == [budget |-> 0, input |-> 0, idx |-> 1, order |-> <<>>, n |-> NoRequest,
           drafts |-> NoRequest, ranRunning |-> FALSE, ranPrefill |-> FALSE,
           preempted |-> FALSE, stop |-> FALSE, skip |-> <<>>]
NoOutput == [order |-> <<>>, n |-> NoRequest, drafts |-> NoRequest, pos |-> NoRequest,
             writes |-> [r \in Requests |-> {}]]

Init ==
  /\ status = [r \in Requests |-> "NEW"]
  /\ log = [r \in Requests |-> <<>>]
  /\ computed = NoRequest /\ inflight = NoRequest /\ stale = NoRequest
  /\ placeholders = NoRequest /\ spec = NoRequest
  /\ drop = [r \in Requests |-> FALSE] /\ chunk = [r \in Requests |-> FALSE]
  /\ waiting = <<>> /\ skipped = <<>> /\ running = <<>>
  /\ finished = {} /\ pause = "UNPAUSED"
  /\ blocks = [r \in Requests |-> {}] /\ deferred = <<>>
  /\ lastSeq = NoRequest /\ schedSeq = 0 /\ processedSeq = 0
  /\ flight = <<>> /\ next = NoRequest
  /\ pc = "idle" /\ step = NoStep /\ cur = NoOutput
  /\ resets = 0 /\ resetFailed = FALSE

-----------------------------------------------------------------------------
(* Block pool *)

Free == Blocks \ ((UNION {blocks[r] : r \in Requests})
                  \union (UNION {deferred[i].blocks : i \in DOMAIN deferred}))

BlocksFor(tokens) == (tokens + BlockSize - 1) \div BlockSize

(* allocate_slots: how many more blocks hold r's first `upto` tokens and the  *)
(* speculative lookahead.                                                    *)
NeededFloor(r, upto) ==
  AtLeastZero(Least(upto + NumSpec, MaxModelLen) \div BlockSize - Cardinality(blocks[r]))
Needed(r, upto) ==
  AtLeastZero(BlocksFor(Least(upto + NumSpec, MaxModelLen)) - Cardinality(blocks[r]))

Fits(r, upto) == Needed(r, upto) <= Cardinality(Free)

Allocate(r, upto) ==
  \E S \in kSubset(Needed(r, upto), Free) : blocks' = [blocks EXCEPT ![r] = @ \union S]

(* _free_request_blocks *)
FreeAtOnce(r) ==
  /\ blocks' = [blocks EXCEPT ![r] = {}]
  /\ UNCHANGED <<deferred, lastSeq, schedSeq, processedSeq>>
DeferAlways(r) ==
  /\ blocks' = [blocks EXCEPT ![r] = {}]
  /\ deferred' = IF ~DeferFree \/ blocks[r] = {} THEN deferred
                   ELSE Append(deferred, [fence |-> schedSeq, blocks |-> blocks[r]])
  /\ UNCHANGED <<lastSeq, schedSeq, processedSeq>>
FreeRequestBlocks(r) ==
  /\ blocks' = [blocks EXCEPT ![r] = {}]
  /\ deferred' = IF ~DeferFree \/ lastSeq[r] <= processedSeq \/ blocks[r] = {}
                   THEN deferred
                   ELSE Append(deferred, [fence |-> schedSeq, blocks |-> blocks[r]])
  /\ UNCHANGED <<lastSeq, schedSeq, processedSeq>>

(* _drain_deferred_frees, after processed_step_seq reached `processed`.       *)
Drained(processed) ==
  LET k == CHOOSE k \in 0..Len(deferred) :
             /\ \A i \in 1..k : deferred[i].fence <= processed
             /\ k < Len(deferred) => deferred[k + 1].fence > processed
  IN  SubSeq(deferred, k + 1, Len(deferred))

-----------------------------------------------------------------------------
(* Request queues: FCFS is a deque, PRIORITY a heap ordered by Rank.         *)

Peek(q) == IF Priority
             THEN CHOOSE r \in ToSet(q) : \A o \in ToSet(q) : Rank[r] <= Rank[o]
             ELSE Head(q)
Without(q, r) == RemoveFirst(q, r)

(* _select_waiting_queue_for_scheduling *)
FromSkipped ==
  IF ~Priority THEN skipped # <<>>
  ELSE skipped # <<>> /\ (waiting = <<>> \/ Rank[Peek(skipped)] <= Rank[Peek(waiting)])
Candidate == IF FromSkipped THEN Peek(skipped) ELSE Peek(waiting)

-----------------------------------------------------------------------------
(* Arrival, abort and pause                                                  *)

AddRequest(r) ==
  /\ pc = "idle" /\ status[r] = "NEW"
  /\ status' = [status EXCEPT ![r] = "WAITING"]
  /\ waiting' = Append(waiting, r)
  /\ UNCHANGED <<tokenVars, skipped, running, finished, blockVars, flight, next, pc,
                 step, cur, ctlVars>>

(* _free_request of a finished request, and its removal from the queues. Its  *)
(* Request object is gone, so its counters are reset to one canonical value.  *)
Finish(r) ==
  /\ status' = [status EXCEPT ![r] = "FINISHED"]
  /\ running' = Without(running, r)
  /\ waiting' = Without(waiting, r)
  /\ skipped' = Without(skipped, r)
  /\ finished' = finished \union {r}
  /\ FreeRequestBlocks(r)
  /\ computed' = [computed EXCEPT ![r] = 0]
  /\ inflight' = [inflight EXCEPT ![r] = 0]
  /\ stale' = [stale EXCEPT ![r] = 0]
  /\ drop' = [drop EXCEPT ![r] = FALSE]
  /\ placeholders' = [placeholders EXCEPT ![r] = 0]
  /\ spec' = [spec EXCEPT ![r] = 0]
  /\ chunk' = [chunk EXCEPT ![r] = FALSE]

(* finish_requests for a client that went away                               *)
AbortRequest(r) ==
  /\ pc = "idle" /\ Alive(r)
  /\ Finish(r)
  /\ UNCHANGED <<log, flight, next, pc, step, cur, ctlVars>>

SetPauseState(p) ==
  /\ pc = "idle" /\ pause' = p
  /\ UNCHANGED <<status, tokenVars, queueVars, finished, blockVars, flight, next, pc,
                 step, cur, resets, resetFailed>>

(* get_num_unfinished_requests and has_requests                              *)
NumUnfinished ==
  CASE pause = "PAUSED_ALL" -> 0
    [] pause = "PAUSED_NEW" -> Len(running)
    [] OTHER -> Len(waiting) + Len(skipped) + Len(running)
HasRequests == NumUnfinished > 0 \/ finished # {}

-----------------------------------------------------------------------------
(* Preemption                                                                *)

(* drop_stale_output after a preemption: output already to be dropped stays so.  *)
DropForgotten(v, dropOutput) == dropOutput
DropAfter(v, dropOutput) == dropOutput \/ (drop[v] /\ stale[v] > 0)

(* _preempt_request of v, which the caller took out of `running`: v goes back *)
(* to the head of the waiting queue, and all of its output in flight is stale, *)
(* to be delivered or, when `dropOutput`, dropped as it returns.              *)
Preempt(v, dropOutput) ==
  /\ FreeRequestBlocks(v)
  /\ status' = [status EXCEPT ![v] = "PREEMPTED"]
  /\ computed' = [computed EXCEPT ![v] = 0]
  /\ spec' = [spec EXCEPT ![v] = 0]
  /\ drop' = [drop EXCEPT ![v] = DropAfter(v, dropOutput)]
  /\ stale' = [stale EXCEPT ![v] = inflight[v]]
  /\ placeholders' = [placeholders EXCEPT ![v] = 0]
  /\ waiting' = <<v>> \o waiting
  /\ running' = Without(running, v)
  /\ UNCHANGED <<log, inflight, chunk, skipped>>

(* reset_prefix_cache(reset_running_requests=True): pop and preempt the       *)
(* running requests from the back, then reset the pool, which succeeds only    *)
(* when no block is referenced any more and raises RuntimeError otherwise.     *)
BeginReset ==
  /\ pc = "idle" /\ resets < MaxResets
  /\ pc' = "reset" /\ resets' = resets + 1
  /\ UNCHANGED <<status, tokenVars, queueVars, finished, blockVars, flight, next,
                 step, cur, pause, resetFailed>>

ResetOne ==
  /\ pc = "reset" /\ running # <<>>
  /\ Preempt(Last(running), TRUE)
  /\ UNCHANGED <<finished, flight, next, pc, step, cur, ctlVars>>

EndReset ==
  /\ pc = "reset" /\ running = <<>>
  /\ pc' = "idle"
  /\ resetFailed' = (Free # Blocks)
  /\ UNCHANGED <<status, tokenVars, queueVars, finished, blockVars, flight, next,
                 step, cur, pause, resets>>

-----------------------------------------------------------------------------
(* schedule()                                                                *)

BeginSchedule ==
  /\ pc = "idle" /\ Len(flight) < Depth /\ HasRequests
  /\ pc' = "running"
  /\ step' = [NoStep EXCEPT !.budget = IF pause = "PAUSED_ALL" THEN 0 ELSE TokenBudget,
                            !.input = InputBudget]
  /\ UNCHANGED <<status, tokenVars, queueVars, finished, blockVars, flight, next, cur,
                 ctlVars>>

(* _reserve_prefill_lookahead *)
NoReserve(r, from, n) == n
ReservePrefillLookahead(r, from, n) ==
  LET remaining == NumTokens(r) - from - n
  IN  AtLeastZero(IF 0 < remaining /\ remaining < PrefillLookahead
                    THEN n - (PrefillLookahead - remaining) ELSE n)

Capped(n) == IF 0 < Threshold /\ Threshold < n THEN Threshold ELSE n
RequestBudget == Least(step.budget, step.input - DraftSlots)

(* The tokens the running loop gives r.                                      *)
NumNewTokens(r) ==
  LET wanted == NumTokens(r) + spec[r] + placeholders[r] - computed[r]
      n == Least(Least(Capped(wanted), RequestBudget), MaxModelLen - computed[r] - 1)
  IN  ReservePrefillLookahead(r, computed[r], n)

(* The step in flight already reaches max_tokens even if every draft of the   *)
(* steps in flight is rejected.                                              *)
NoFurtherStep(r) ==
  /\ placeholders[r] > 0
  /\ computed[r] + 2 - placeholders[r] >= Prompt[r] + MaxTokens[r]

MayContinue == step.budget > 0 /\ step.input > DraftSlots /\ ~step.stop
InRunningLoop == pc = "running" /\ MayContinue /\ step.idx <= Len(running)
Current == running[step.idx]

SkipRunning ==
  /\ InRunningLoop
  /\ NoFurtherStep(Current) \/ NumNewTokens(Current) = 0
  /\ step' = [step EXCEPT !.idx = @ + 1]
  /\ UNCHANGED <<status, tokenVars, queueVars, finished, blockVars, flight, next, pc,
                 cur, ctlVars>>

Schedulable(r) == ~NoFurtherStep(r) /\ NumNewTokens(r) # 0

(* Schedule tokens n of r with `drafts` of them speculative.                 *)
Scheduled(r, n, drafts) ==
  [step EXCEPT !.order = Append(@, r), !.n[r] = n, !.drafts[r] = drafts,
               !.budget = @ - n, !.input = @ - n - DraftSlots]

ScheduleRunning ==
  /\ InRunningLoop /\ Schedulable(Current)
  /\ LET r == Current
         n == NumNewTokens(r)
         drafts == AtLeastZero(Least(spec[r],
                     n + computed[r] - NumTokens(r) - placeholders[r]))
     IN  /\ Fits(r, computed[r] + n)
         /\ Allocate(r, computed[r] + n)
         /\ step' = [Scheduled(r, n, drafts) EXCEPT !.idx = @ + 1, !.ranRunning = TRUE,
                                                    !.ranPrefill = @ \/ chunk[r]]
         /\ spec' = [spec EXCEPT ![r] = 0]
  /\ UNCHANGED <<status, log, computed, inflight, stale, drop, placeholders, chunk,
                 queueVars, finished, deferred, lastSeq, schedSeq, processedSeq, flight,
                 next, pc, cur, ctlVars>>

Victim == IF Priority
            THEN CHOOSE r \in ToSet(running) : \A o \in ToSet(running) : Rank[r] >= Rank[o]
            ELSE Last(running)

(* What this schedule() gave v is taken back.                                *)
NotTakenBack(v) == [step EXCEPT !.order = Without(@, v), !.n[v] = 0, !.drafts[v] = 0]
TakenBack(v) ==
  [step EXCEPT !.order = Without(@, v), !.n[v] = 0, !.drafts[v] = 0,
               !.budget = @ + step.n[v],
               !.input = IF step.n[v] > 0 THEN @ + step.n[v] + DraftSlots ELSE @,
               !.ranRunning = \E o \in ToSet(step.order) : o # v]

(* No room for the current request: preempt the lowest-priority running one,  *)
(* taking back what this schedule() had given it, and try again unless it is   *)
(* the current request itself.                                               *)
PreemptForRoom ==
  /\ InRunningLoop /\ Schedulable(Current)
  /\ ~Fits(Current, computed[Current] + NumNewTokens(Current))
  /\ LET v == Victim
         at == CHOOSE i \in DOMAIN running : running[i] = v
     IN  /\ Preempt(v, DropOnPreempt)
         /\ step' = [TakenBack(v) EXCEPT !.preempted = TRUE,
                                         !.stop = (v = Current),
                                         !.idx = IF at < @ THEN @ - 1 ELSE @]
  /\ UNCHANGED <<finished, flight, next, pc, cur, ctlVars>>

EndRunningLoop ==
  /\ pc = "running" /\ ~InRunningLoop
  /\ pc' = IF ~step.preempted /\ pause = "UNPAUSED" THEN "waiting" ELSE "finish"
  /\ step' = [step EXCEPT !.stop = FALSE]
  /\ UNCHANGED <<status, tokenVars, queueVars, finished, blockVars, flight, next, cur,
                 ctlVars>>

InWaitingLoop ==
  /\ pc = "waiting" /\ MayContinue
  /\ waiting \o skipped # <<>>
  /\ Len(running) < MaxNumSeqs

PopCandidate ==
  /\ waiting' = IF FromSkipped THEN waiting ELSE Without(waiting, Candidate)
  /\ skipped' = IF FromSkipped THEN Without(skipped, Candidate) ELSE skipped

ResumesAtOnce(r) == FALSE
Undelivered(r) == stale[r] > 0 /\ ~drop[r]

(* Stale output still to be delivered: resuming now could sample a position   *)
(* that output delivers later.                                               *)
SkipUndelivered ==
  /\ InWaitingLoop /\ Undelivered(Candidate)
  /\ PopCandidate
  /\ step' = [step EXCEPT !.skip = Append(@, Candidate)]
  /\ UNCHANGED <<status, tokenVars, running, finished, blockVars, flight, next, pc, cur,
                 ctlVars>>

(* A request with one token to compute is padded to a full speculative step   *)
(* when only decodes run.                                                    *)
Padded(r, hit) ==
  /\ NumSpec > 0 /\ NumTokens(r) - hit = 1
  /\ step.ranRunning /\ ~step.ranPrefill

AdmittedTokens(r, hit) ==
  IF Padded(r, hit)
    THEN IF 1 + NumSpec > RequestBudget \/ hit + 1 + NumSpec > MaxModelLen THEN 0
         ELSE ReservePrefillLookahead(r, hit, Least(Capped(1 + NumSpec), RequestBudget))
    ELSE ReservePrefillLookahead(r, hit, Least(Capped(NumTokens(r) - hit), RequestBudget))

AdmissionFits(r, upto) ==
  /\ Fits(r, upto)
  /\ ReserveFullISL => BlocksFor(NumTokens(r)) <= Cardinality(Free)

(* The block-aligned prefix of r the cache may hold: an allocated token fewer  *)
(* than the request has.                                                     *)
HitLengths(r) == {0} \union {h \in CacheHits : h < NumTokens(r)}

Admit ==
  /\ InWaitingLoop /\ ~Undelivered(Candidate)
  /\ LET r == Candidate IN
     \E hit \in HitLengths(r) :
       LET n == AdmittedTokens(r, hit) IN
       /\ n > 0
       /\ AdmissionFits(r, hit + n)
       /\ Allocate(r, hit + n)
       /\ computed' = [computed EXCEPT ![r] = hit]
       /\ step' = Scheduled(r, n, IF Padded(r, hit) THEN NumSpec ELSE 0)
       /\ status' = [status EXCEPT ![r] = "RUNNING"]
       /\ running' = Append(running, r)
  /\ PopCandidate
  /\ UNCHANGED <<log, inflight, stale, drop, placeholders, spec, chunk, finished,
                 deferred, lastSeq, schedSeq, processedSeq, flight, next, pc, cur,
                 ctlVars>>

(* The candidate gets no tokens or no blocks: stop admitting.                *)
StopAdmitting ==
  /\ InWaitingLoop /\ ~Undelivered(Candidate)
  /\ \E hit \in HitLengths(Candidate) :
       LET n == AdmittedTokens(Candidate, hit) IN
       n = 0 \/ ~AdmissionFits(Candidate, hit + n)
  /\ step' = [step EXCEPT !.stop = TRUE]
  /\ UNCHANGED <<status, tokenVars, queueVars, finished, blockVars, flight, next, pc,
                 cur, ctlVars>>

(* skipped_waiting.prepend_requests(step_skipped_waiting)                     *)
SkippedLost == skipped
Requeued == step.skip \o skipped

EndWaitingLoop ==
  /\ pc = "waiting" /\ ~InWaitingLoop
  /\ pc' = "finish"
  /\ skipped' = Requeued
  /\ step' = [step EXCEPT !.skip = <<>>]
  /\ UNCHANGED <<status, tokenVars, waiting, running, finished, blockVars, flight, next,
                 cur, ctlVars>>

(* The end of schedule() and _update_after_schedule: counters advance as if    *)
(* every scheduled token will stand, a request past its prefill gets output     *)
(* placeholders for its sampled token and drafts and fresh draft placeholders   *)
(* (AsyncScheduler), and the step goes to the workers.  A request without       *)
(* placeholders samples the position after its last known token, one with       *)
(* placeholders the position after its previous step's (pos 0).                 *)
EndSchedule ==
  /\ pc = "finish"
  /\ LET Ran(r) == step.n[r] > 0
         nonEmpty == step.order # <<>>
         done == [r \in Requests |-> computed[r] + step.n[r]]
         stillPrefill == [r \in Requests |->
           IF Ran(r) THEN done[r] < NumTokens(r) + placeholders[r] ELSE chunk[r]]
         samples == {r \in Requests : Ran(r) /\ ~stillPrefill[r]}
         seq == IF DeferFree /\ nonEmpty THEN schedSeq + 1 ELSE schedSeq
         output == [order |-> step.order, n |-> step.n, drafts |-> step.drafts,
                    pos |-> [r \in Requests |->
                              IF r \in samples
                                THEN IF placeholders[r] = 0 THEN NumTokens(r) ELSE 0
                                ELSE -1],
                    writes |-> [r \in Requests |-> IF Ran(r) THEN blocks[r] ELSE {}]]
     IN  /\ computed' = done
         /\ inflight' = [r \in Requests |-> inflight[r] + step.n[r]]
         /\ chunk' = stillPrefill
         /\ placeholders' = [r \in Requests |->
              IF r \in samples THEN placeholders[r] + 1 + step.drafts[r]
              ELSE placeholders[r]]
         /\ spec' = [r \in Requests |-> IF r \in samples THEN NumSpec ELSE spec[r]]
         /\ schedSeq' = seq
         /\ lastSeq' = [r \in Requests |-> IF DeferFree /\ Ran(r) THEN seq ELSE lastSeq[r]]
         /\ flight' = IF nonEmpty THEN Append(flight, output) ELSE flight
  /\ finished' = {}
  /\ pc' = "idle" /\ step' = NoStep
  /\ UNCHANGED <<status, log, stale, drop, queueVars, blocks, deferred, processedSeq,
                 next, cur, ctlVars>>

-----------------------------------------------------------------------------
(* update_from_output()                                                      *)

BeginUpdate ==
  /\ pc = "idle" /\ flight # <<>>
  /\ pc' = "update"
  /\ cur' = Head(flight) /\ flight' = Tail(flight)
  /\ processedSeq' = IF DeferFree THEN processedSeq + 1 ELSE processedSeq
  /\ deferred' = IF DeferFree THEN Drained(processedSeq + 1) ELSE deferred
  /\ UNCHANGED <<status, tokenVars, queueVars, finished, blocks, lastSeq, schedSeq, next,
                 step, ctlVars>>

InUpdateLoop == pc = "update" /\ cur.order # <<>>
Returned == Head(cur.order)
Samples(r) == cur.pos[r] >= 0
SampledFrom(r) == IF cur.pos[r] = 0 THEN next[r] ELSE cur.pos[r]
RestOfOutput == cur' = [cur EXCEPT !.order = Tail(@)]

(* The worker sampled `g` tokens for r, so its next step continues after them. *)
WorkerAdvances(r, g) == next' = [next EXCEPT ![r] = SampledFrom(r) + g]

(* The request finished, or was aborted, while the step ran.                  *)
OutputOfFinished ==
  /\ InUpdateLoop /\ ~Alive(Returned)
  /\ RestOfOutput
  /\ UNCHANGED <<status, tokenVars, queueVars, finished, blockVars, flight, next, pc,
                 step, ctlVars>>

(* Every branch drains the output's share of the in-flight and stale counts.  *)
IsStale(r) == stale[r] > 0
StaleKept(r) ==
  /\ inflight' = [inflight EXCEPT ![r] = @ - cur.n[r]]
  /\ UNCHANGED stale
DrainCounts(r) ==
  /\ inflight' = [inflight EXCEPT ![r] = @ - cur.n[r]]
  /\ stale' = [stale EXCEPT ![r] = IF IsStale(r) THEN @ - cur.n[r] ELSE @]

Discards(r) == ~Samples(r) \/ (IsStale(r) /\ drop[r])

(* A prefill chunk samples nothing, and output of a request that was resumed   *)
(* in the same step as its reset is dropped.                                  *)
OutputWithoutTokens ==
  /\ InUpdateLoop /\ Alive(Returned) /\ Discards(Returned)
  /\ DrainCounts(Returned)
  /\ RestOfOutput
  /\ \/ ~Samples(Returned) /\ UNCHANGED next
     \/ /\ Samples(Returned)
        /\ \E g \in 1..(1 + cur.drafts[Returned]) : WorkerAdvances(Returned, g)
  /\ UNCHANGED <<status, log, computed, drop, placeholders, spec, chunk, queueVars,
                 finished, blockVars, flight, pc, step, ctlVars>>

(* check_stop after `d` more tokens: a length limit                          *)
PastLimit(r, d) ==
  Len(log[r]) + d > MaxTokens[r] \/ NumTokens(r) + d > MaxModelLen
AtLimit(r, d) ==
  Len(log[r]) + d >= MaxTokens[r] \/ NumTokens(r) + d >= MaxModelLen

Appended(r, d) ==
  log' = [log EXCEPT ![r] = @ \o [i \in 1..d |-> SampledFrom(r) + i - 1]]

(* What rejected drafts and delivered tokens take back from the counters: not   *)
(* for stale output, whose counters the preemption has reset.                  *)
RolledBackAlways(r, rejected) == computed[r] - rejected
RolledBack(r, rejected) ==
  IF IsStale(r) \/ computed[r] = 0 THEN computed[r] ELSE computed[r] - rejected
RejectedKept(r, rejected, d) ==
  IF IsStale(r) THEN placeholders[r] ELSE placeholders[r] - d
PlaceholdersAfter(r, rejected, d) ==
  IF IsStale(r) THEN placeholders[r]
  ELSE (IF placeholders[r] > 0 THEN placeholders[r] - rejected ELSE 0) - d

(* g tokens sampled, all of them appended, no stop condition met.            *)
DeliverTokens ==
  /\ InUpdateLoop /\ Alive(Returned) /\ ~Discards(Returned)
  /\ LET r == Returned IN
     \E g \in 1..(1 + cur.drafts[r]) :
       /\ \A d \in 1..g : ~AtLimit(r, d)
       /\ Appended(r, g)
       /\ WorkerAdvances(r, g)
       /\ computed' = [computed EXCEPT ![r] = RolledBack(r, 1 + cur.drafts[r] - g)]
       /\ placeholders' =
            [placeholders EXCEPT ![r] = PlaceholdersAfter(r, 1 + cur.drafts[r] - g, g)]
       /\ DrainCounts(r)
  /\ RestOfOutput
  /\ UNCHANGED <<status, drop, spec, chunk, queueVars, finished, blockVars, flight, pc,
                 step, ctlVars>>

(* Stopped by a length limit or a stop token at the d-th of the g tokens; the   *)
(* rest is trimmed and the request is finished and freed.                     *)
DeliverAndStop ==
  /\ InUpdateLoop /\ Alive(Returned) /\ ~Discards(Returned)
  /\ LET r == Returned IN
     \E g \in 1..(1 + cur.drafts[r]) : \E d \in 1..g :
       /\ \A e \in 1..(d - 1) : ~AtLimit(r, e)
       /\ Appended(r, d)
       /\ WorkerAdvances(r, g)
       /\ Finish(r)
  /\ RestOfOutput
  /\ UNCHANGED <<flight, pc, step, ctlVars>>

EndUpdate ==
  /\ pc = "update" /\ cur.order = <<>>
  /\ pc' = "idle" /\ cur' = NoOutput
  /\ UNCHANGED <<status, tokenVars, queueVars, finished, blockVars, flight, next, step,
                 ctlVars>>

-----------------------------------------------------------------------------
ScheduleAction ==
  \/ SkipRunning \/ ScheduleRunning \/ PreemptForRoom \/ EndRunningLoop
  \/ SkipUndelivered \/ Admit \/ StopAdmitting \/ EndWaitingLoop \/ EndSchedule
UpdateAction ==
  \/ OutputOfFinished \/ OutputWithoutTokens \/ DeliverTokens \/ DeliverAndStop
  \/ EndUpdate
ResetAction == ResetOne \/ EndReset

Next ==
  \/ \E r \in Requests : AddRequest(r) \/ AbortRequest(r)
  \/ \E p \in PauseStates : SetPauseState(p)
  \/ BeginReset \/ ResetAction
  \/ BeginSchedule \/ ScheduleAction
  \/ BeginUpdate \/ UpdateAction

Spec == Init /\ [][Next]_vars

(* The engine core's loop schedules whenever it may and waits for the oldest step *)
(* in flight when the batch queue is full or nothing was scheduled, so calls of    *)
(* schedule() that schedule nothing do not keep update_from_output out for ever.  *)
FairSpec ==
  /\ Spec
  /\ WF_vars(BeginSchedule) /\ WF_vars(ScheduleAction) /\ WF_vars(ResetAction)
  /\ SF_vars(BeginUpdate) /\ WF_vars(UpdateAction)

-----------------------------------------------------------------------------
StepOutput == [order : Seq(Requests), n : [Requests -> Nat], drafts : [Requests -> Nat],
               pos : [Requests -> Int], writes : [Requests -> SUBSET Blocks]]

(* Every variable has its type; in particular no counter of a request is ever    *)
(* negative (the assertion on num_stale_output_tokens, and the counters that     *)
(* rejected drafts roll back).                                               *)
TypeOK ==
  /\ status \in [Requests -> {"NEW", "WAITING", "RUNNING", "PREEMPTED", "FINISHED"}]
  /\ log \in [Requests -> Seq(Nat)]
  /\ {computed, inflight, stale, placeholders, spec, lastSeq, next}
       \subseteq [Requests -> Nat]
  /\ {drop, chunk} \subseteq [Requests -> BOOLEAN]
  /\ {waiting, skipped, running} \subseteq Seq(Requests)
  /\ finished \subseteq Requests
  /\ pause \in {"UNPAUSED", "PAUSED_NEW", "PAUSED_ALL"}
  /\ blocks \in [Requests -> SUBSET Blocks]
  /\ deferred \in Seq([fence : Nat, blocks : SUBSET Blocks])
  /\ {schedSeq, processedSeq, resets} \subseteq Nat
  /\ flight \in Seq(StepOutput) /\ cur \in StepOutput
  /\ pc \in {"idle", "running", "waiting", "finish", "update", "reset"}
  /\ step.budget \in Int /\ step.input \in Int /\ step.order \in Seq(Requests)
  /\ resetFailed \in BOOLEAN

(* The client receives the tokens of a request in order and no more of them than  *)
(* max_tokens: no position of the output is lost, repeated or sampled from a      *)
(* context that was rolled back, whatever was preempted, reset or rejected while  *)
(* steps were in flight.                                                        *)
OutputInOrder ==
  \A r \in Requests :
    /\ \A i \in DOMAIN log[r] : log[r][i] = Prompt[r] + i - 1
    /\ Len(log[r]) <= MaxTokens[r]

(* The tokens of r in the steps whose output is not processed yet.               *)
InFlight(r) ==
  SumOf([i \in DOMAIN flight |-> flight[i].n[r]])
    + (IF Contains(cur.order, r) THEN cur.n[r] ELSE 0)

(* num_in_flight_tokens counts exactly the request's tokens in flight, and the   *)
(* stale share, which the next outputs drain first, never exceeds them: a        *)
(* request is never stuck behind stale output that does not come.  Within the    *)
(* step in the making, the token budget and the input budget shared with the     *)
(* drafter count exactly its tokens: what a preemption in mid-step gives back is  *)
(* what the victim had taken.                                                   *)
RequestCounters ==
  \A r \in Requests : Alive(r) =>
    /\ inflight[r] = InFlight(r)
    /\ stale[r] <= inflight[r]
StepBudgets ==
  pc \in {"running", "waiting", "finish"} =>
    LET total == SumOf([i \in DOMAIN step.order |-> step.n[step.order[i]]])
    IN  /\ step.budget >= 0 /\ step.input >= 0
        /\ total + step.budget = (IF pause = "PAUSED_ALL" THEN 0 ELSE TokenBudget)
        /\ total + Len(step.order) * DraftSlots + step.input = InputBudget
InFlightAccounting == RequestCounters /\ StepBudgets

(* Every live request is in exactly the queue its status says, once: no loop      *)
(* that pops, skips, requeues or preempts loses or duplicates one.               *)
QueuesMatchStatus ==
  LET held == IF pc = "waiting" THEN step.skip ELSE <<>>
      pending == waiting \o skipped \o held
  IN  /\ IsInjective(pending) /\ IsInjective(running)
      /\ ToSet(pending) = {r \in Requests : status[r] \in {"WAITING", "PREEMPTED"}}
      /\ ToSet(running) = {r \in Requests : status[r] = "RUNNING"}

(* Past its prefill a running request has computed everything but its last       *)
(* token, counting the placeholders of the output in flight: the optimistic       *)
(* advance at scheduling and the roll-backs at output cancel exactly.  In its      *)
(* prefill it has left the drafter's lookahead to compute in one chunk             *)
(* (_reserve_prefill_lookahead).                                                *)
CaughtUp ==
  pc = "idle" => \A r \in Requests : status[r] = "RUNNING" =>
    IF chunk[r] THEN NumTokens(r) - computed[r] >= PrefillLookahead
    ELSE computed[r] = NumTokens(r) + placeholders[r] - 1

(* Only running requests hold blocks, enough of them for every token they have   *)
(* computed or in flight and for the drafts the step writes after them, and no   *)
(* two hold the same block; no position is outside the model's context.         *)
BlocksCoverTokens ==
  /\ \A r \in Requests : computed[r] <= MaxModelLen
  /\ \A r \in Requests :
       IF status[r] # "RUNNING" THEN blocks[r] = {}
       ELSE Least(computed[r] + NumSpec, MaxModelLen) <= Cardinality(blocks[r]) * BlockSize
  /\ \A q, r \in Requests : q # r => blocks[q] \cap blocks[r] = {}

(* A request that is not aborted finishes, through every preemption: no request  *)
(* waits for ever on blocks, stale output or a seat.                             *)
EveryRequestFinishes ==
  \A r \in Requests : status[r] = "WAITING" ~> status[r] = "FINISHED"

(* reset_prefix_cache(reset_running_requests=True) may fail, for blocks that wait   *)
(* for steps in flight are still referenced, but never when no step is in flight:   *)
(* then every block went back to the pool.                                      *)
ResetFailsOnlyInFlight ==
  [][pc = "reset" /\ pc' = "idle" /\ flight = <<>> => ~resetFailed']_vars

(* The block side of the scheduler implements the deferred-free protocol.         *)
Fence == INSTANCE BlockFence WITH
  MaxSteps <- 0, MaxDeferred <- 0,
  flight <- [i \in DOMAIN flight |-> flight[i].writes]
FenceSpec == Fence!Spec
=============================================================================

# Verification of the GLM-5.3 two-node deployment

The repository runs GLM-5.3-Flash (NVFP4) on two DGX Spark machines: shell
scripts start, stop and watch two containers, and an overlay replaces parts of
vLLM in the image (request scheduler, C4 index-key pool, parser, chat serving,
MoE and GEMM kernels).  Its defaults are asynchronous scheduling, chunked
prefill, prefix caching, three multi-token-prediction drafts (MTP3), tensor
parallelism over the two nodes, and no KV connector.

This directory holds TLA+ models of the parts of it that are state machines,
their TLC configurations, and proofs checked by TLAPS.  Source paths below are
relative to `src/`; of `image/r26.2-quality/overlay/vllm/`, `scheduler.py` is
`v1/core/sched/scheduler.py`, `glm_kpool.py` is
`models/glm5next/nvidia/ops/glm_kpool.py` and `parser_engine.py` is
`parser/engine/parser_engine.py`; of `image/r26.3-minimal/overlay/`, `serving.py` is
`vllm/entrypoints/openai/chat_completion/serving.py` and `dense_gemm.py` is
`b12x/_lib/dense_gemm.py`.
`PROJECT.json` maps each definition to the lines it models.

    tlc -workers 2 -config MCKPoolTail.cfg MCKPoolTail
    tlapm KPoolTail_proofs.tla

## 1. Inventory

### Modelled

| component | state it keeps | operations | what is hard | what makes it correct |
|---|---|---|---|---|
| Request scheduler (`scheduler.py`) | per request: status, tokens, `num_computed_tokens`, placeholders, in-flight and stale counts, drafts; queues `waiting`, `skipped_waiting`, `running`; pause state; blocks | `add_request`, `finish_requests`, `set_pause_state`, `schedule`, `update_from_output`, `reset_prefix_cache` | `schedule()` runs again before earlier output is back: requests are preempted, reset and aborted with tokens in flight, and drafts are counted before they are accepted | output in order and once; counters exactly cancel; every live request in its queue once; blocks cover tokens; budgets; every request finishes |
| Deferred block free (`scheduler.py`, `defer_block_free`) | `deferred_frees`, `sched_step_seq`, `processed_step_seq`, `last_sched_seq` | free, drain, fence copy-on-write sources | a step in flight may still write blocks that a preemption returns | no block in the free pool is written by a step in flight; no deferred block is lost |
| Streaming-input sessions (`scheduler.py`) | status, `streaming_queue`, `num_waiting_for_streaming_input`, prompt and all-token lists, queues | first chunk, next chunk, sentinel, abort, stop | chunks come while the session runs, is preempted or stops; four places adjust the counter | a live session is queued once; the counter is exact; seats are respected; no chunk is lost; a session that is ended finishes |
| C4 key-pool tail (`glm_kpool.py`; `kpool_compress.py` as `image/r28.3-a-pr58454` patches it) | the tail ring of keys, the pools of the index cache | decode rows, prefill pools and seeding, rejection, resumption | draft keys are stored before the drafts are accepted | a completed pool is made of the last keys of its own tokens |
| Watchdog and scripts (`watchdog.sh`, `start.sh`, `stop.sh`) | marker, state file, lock, the containers of two nodes | check, start, stop, enable, disable | two scripts interleave at every command; ssh fails; containers crash and hang; background children inherit the lock | restarts spaced, never of a serving head; a stop holds; an outage ends |
| KV transfer (`scheduler.py` 3446-3819 and the connector's branches of `schedule()`) | per request: table of blocks, `num_computed_tokens`, the load under way; `skipped_waiting`, `_inflight_prefills`, `finished_recving_kv_req_ids`, `failed_recving_kv_req_ids`; the prefix cache | admit a load, promote, run with a load in the step, invalid blocks, completion of loads and sends, preempt, abort, finish | a load outlives the request, the step and the block table it was begun for; blocks are shared; a failure comes back a step late | no token from KV that never came; no such block in the cache; no block given away under a load; no deadlock on reserved blocks |
| Output parser engine (`parser_engine.py`) | tool-call slots, held-back content and reasoning, what was streamed of each call's arguments | `parse_delta`, `parse` | a delta may end anywhere, the output may be cut off anywhere, and what was sent cannot be taken back | deltas add up to the whole parse; arguments are JSON |
| Chat completion serving (`serving.py`) | per choice: tokens so far, whether tools were streamed, finish reason sent | an engine output, an error, the end of the stream | two code paths, streamed and whole, for one reply | same text, calls and finish reason either way |
| Dense GEMM kernel (`dense_gemm.py` 709-983, 1645-4414) | ring of shared-memory stages, full and empty barriers, epilogue buffers, TMA stores under way | load warp: acquire, copy, commit, tail; MMA warps: wait, expand, multiply, release; epilogue | asynchronous copies, parts of a stage that the barrier does not count, expansion in place, buffers reused | a full stage is loaded; every output is the product of its own tiles; no barrier waits for ever |
| Dense GEMM plans (`dense_gemm.py` 118-572, 4418-4964, 6094-8583) | compiled kernels, whether resolution is frozen, the call | serve a batch, plan, resolve, launch, reduce, freeze | some twenty rules on m, n, k and the SM count, each in its own function | the plan covers C and K exactly; it can be built; warm-up compiled it |

How they interact.  The engine loop calls `schedule()`, puts the step in a queue
of at most `max_concurrent_batches`, and hands the oldest output to
`update_from_output()`; the API server's calls come between.  The scheduler
allocates and frees the blocks that the worker's step writes (`SchedulerCore`
keeps the writes of each step in `flight`, and `BlockFence` is the abstract
specification of that side).  Streaming sessions are scheduled requests; they are
modelled apart, with the room that budgets and blocks leave nondeterministic.  The
key pool sees the scheduler's decisions as decode rows, prefill chunks,
rejections and resumptions, in any order the scheduler may produce.  The chat
server hands each engine output to the parser of its choice and sends on what the
parser gives; `ChatStream` composes the two (it extends `OutputParser`).  The
linear layers call `dense_gemm`, whose plan (`DenseGemmPlan`) decides which
specialisation of the kernel (`GemmPipeline`) runs.  The scripts
see the engine only as a container that boots, serves, hangs or is gone.

### Not modelled

| component | reason |
|---|---|
| Prefill fairness and compute share (`scheduler.py` 659-829, 889-930, 1889-2013) | off by default (`FAIRNESS_ENGINE` is empty in `.env.example:94`); the two controllers are in vLLM's `compute_fairness`, not in this repository, and decide which requests a pass may schedule; hazard left open: deferred prefills may starve |
| Encoder (2229-2388), LoRA, grammar (2407-2429), Mamba split (521-617) | not used by the text deployment |
| KV transfer: two steps in flight with a connector, partial-tail hits with copy-on-write, lookups that the connector defers | left out of `KVTransfer` to keep its instance small; the connector's own side is nondeterministic |
| C4 index helpers (`glm_kpool.py` 580-942) | index arithmetic without state |
| `kpool_compress.py`: the pooling of a prefill chunk | only the patch of that file is in the repository; the kernel is taken to pool a chunk as `glm_kpool.py` does |
| C4 quantisation (`glm_kpool.py` 1-151), B12X MoE, MTP layers | floating-point kernels |
| `parser_engine.py`: lexer, `finish()`, argument converters of the tool formats | modelled as the events they give; the classes are elsewhere in vLLM |
| `serving.py`: request validation, usage, logprobs, echo, client disconnects | data conversion; no state that the rest reads |
| `dense_gemm.py`: layouts, fragments, arithmetic, pointer setup, auto-tuning | code generation; the models keep which tile a value belongs to |
| Chat message parsing (`chat_utils.py`) | conversion of messages |
| Shared experts on a second stream, display-backed KV memory | two stream waits and a sequence of driver calls at startup, which end the process when they fail |
| `sync-repo.sh`, `status.sh`, `tail-log.sh`, image recipes, validators | I/O and build-time text patches; the patch whose result is behaviour (r28.3-a) is in `KPoolTail` |

## 2. Modules

| module | role |
|---|---|
| `BlockFence` | the deferred free as an abstract specification; `BlockFence_proofs` proves it |
| `SchedulerCore` | the scheduler; `Fence == INSTANCE BlockFence` is its refinement mapping, `FenceSpec` the property |
| `SequenceLemmas` | facts about division, queues, sums and ledgers that the proofs cite |
| `Scheduler_proofs` | proofs about `SchedulerCore`: its queues, and on top of them tokens, blocks and fences |
| `Queues` | taking requests out of a queue, which the next two share |
| `StreamingSession` | sessions; `StreamingSession_proofs` proves them for one step in flight |
| `KPoolTail` | the tail ring, of both kernels that have one; `KPoolTail_proofs` proves it |
| `Watchdog` | the scripts; `Watchdog_proofs` proves their safety |
| `KVTransfer` | the scheduler with a KV connector; `KVTransfer_proofs` proves its safety, that of the data for a connector that loads asynchronously |
| `OutputParser` | the parser engine as operators on a record |
| `ChatStream` | streamed chat completion, on top of `OutputParser` |
| `GemmPipeline` | one CTA of the GEMM kernel |
| `DenseGemmPlan` | the host side of the GEMM; `DenseGemmPlan_proofs` proves that its plans are complete |
| `MC*` | instances for TLC |

### SchedulerCore

`schedule()`, `update_from_output()` and `reset_prefix_cache()` run on one thread
and do not interleave, but each is a loop over requests with a dozen exits.  A
loop is a sequence of actions under `pc`, one for each iteration:

* `BeginSchedule`, then `SkipRunning`, `ScheduleRunning` or `PreemptForRoom` per
  iteration of the running loop, `EndRunningLoop`, then `PopCandidate`,
  `SkipUndelivered`, `Admit` or `StopAdmitting` in the waiting loop,
  `EndWaitingLoop` (which requeues the skipped) and `EndSchedule`, which holds
  `_update_after_schedule` and puts the step in `flight`.
* `BeginUpdate` advances `processed_step_seq` and drains; then one of
  `OutputOfFinished`, `OutputWithoutTokens`, `DeliverTokens`, `DeliverAndStop` per
  request; `EndUpdate`.
* `BeginReset`, `ResetOne` per running request, `EndReset`.
* `AddRequest`, `AbortRequest`, `SetPauseState` between the calls.

`log[r]` is the output as the client sees it: for each delivered token the
position it was sampled at.  `next` is the worker's side: the position the next
sampled token of a request belongs to.  A token sampled from the wrong context
therefore shows as a wrong number in `log`, and that is what `OutputInOrder`
looks at.  `drafts` are a count, and the worker accepts any number of them.

Simplifications that the properties cannot tell apart: a stopped request leaves
its queue at its own iteration rather than in one pass at the loop's end (nothing
in the loop reads the queues); the counters of a finished request return to
their initial values; a step that schedules nothing is not put in flight; a prefix hit is a
number of tokens, and its blocks are taken from the free ones (sharing of blocks
is in `BlockFence`).  `Rank` is injective, for it stands for (priority, arrival
time, id).

### StreamingSession

A session's tokens are its chunks: `prompt` is `prompt_token_ids`, `context` is
`_all_token_ids`.  Preemption, scheduling of any subset of the running sessions
and admission of any prefix of the admissible ones are nondeterministic, in place of
the budgets and blocks of `SchedulerCore`.

### KPoolTail

Two kernels keep a tail ring.  `glm_kpool.py` (r26.2) puts position `p` into slot
`p % POOL_SIZE`, a ring of one pool; `kpool_compress.py` as the r28.3-a patch leaves it
puts it into slot `p % RING`, where `RING` is a whole number of pools.  In the
patch (`upstream-pr58454-nvidia.patch` 49-175) the steps stay as they are and the slots change,
so one module describes both: `kernel` is the ring and the number of drafts of a
server, any member of the constant `Kernels`, chosen in `Init` and never changed.
The map gives `PhysicalSlot`, `Ring` and `LastPool` at the patch, which shows both
versions of the slot, and `DecodeRow`, `PoolOfChunk`, `Seeded` and `Prefill` at `glm_kpool.py`.

A key is a position and the number of the pass over that position that computed
it: after a rejection the position is computed again, and the right key is that
of the last pass.  `DecodeRow` is one row of the decode kernel, in row order; a
pool that a row completes is read from the ring.  `Prefill` writes the pools of a
chunk and seeds the ring; `Resume` is a request that goes on from whole pools
with the tail block of somebody else.  `Certain` is how far the positions are settled:
the first row of a step belongs to a sampled token and stays, the rows of the
drafts behind it may be rejected.  Each request has a tail block of its own, so
one request is the whole system.

### Watchdog

Each script is a process that may be interrupted between any two commands that
touch shared state.  Times are ages in cron ticks, saturated at the limit they are
compared with.  The state file, the marker and the lock are as in the scripts: the
lock is held by the check and, because `start.sh` leaves `docker logs -f | tee` in
the background with descriptor 9 open, by the log follower until its container is
gone.  A probe and its judgement happen in one tick (`curl --max-time 5`).  A boot
completes within `BootTicks <= Grace`, which is what the startup grace is for.
`stop.sh`'s end of the log follower is part of the head going down.  Modes `head`,
`worker` and `--no-sync`, and `watchdog.sh status`, are left out.

### KVTransfer

All prompts are prefixes of one text, so requests share cached blocks; `data[b]` is
the set of positions whose right KV is in block `b`, and a token computed from
a context that is not in place is worthless.  This is what `OutputGood` and `CacheGood`
look at: a client gets "bad" when its token was computed from worthless KV.
`schedule()` is again a sequence of actions (`ScheduleRunning`,
`PreemptForRoom`, `PassLoading`, `Promote`, `AdmitLoad`, `AdmitRun`, `NoRoom`,
`Dispatch`); `Execute` is the worker with its connector, and `Update` is
`update_from_output` with `_handle_invalid_blocks` and
`_update_from_kv_xfer_finished`.  Loads fail block by block, end at any time after their
start, and are reported by the next step.  A prompt ends with its first
output token, since decoding has no part in transfers.

### OutputParser and ChatStream

The parser's fields are a record and its methods operators on it.  Text is a
sequence of atoms, each told from all others, of which a blank is a kind; the body
of a call is made of keys, characters and ends of parameters; JSON is a sequence
of tokens, so that "parses" and "is a prefix of" are what they are in the code.
`ChatStream` feeds a parser any cut of a script and keeps what a client has put
together (`client`); `WholeReply` computes the reply without streaming, and `whole` records it when a choice ends.

### GemmPipeline

Data is the pair (work tile, k tile) it belongs to.  `Operations` is the list of
things the load warp does for one k tile in its specialisation, each either a
bulk copy (asynchronous, counted on the full barrier) or stores of its own;
`TmaCopyBytes` is what it promises the barrier.  The MMA warps interleave with it
and with each other; the expansion of packed B in place is a read phase and a
write phase with barriers between, over the rows that each warp owns.  The flags are those of
`DenseGemmKernel.__init__`; each member of `MCConfigs` is a combination that
a launch class builds.

### DenseGemmPlan

The rules are operators with the names of their functions, in the order of the code.
A call is planned, resolved against the compiled kernels, launched
and reduced; `out` is the set of k tiles that were added into all of C.
`CompileKey` is what kernels are looked up by.  `SmemCapacity` is the 99 KiB of
an sm_120 CTA.

## 3. Runs

| run | instance | checks |
|---|---|---|
| `block_fence` | 2 requests, 2 blocks, 2 steps in flight, 3 steps, 2 deferred entries | `TypeOK`, `NoFreeWrite`, `NothingStranded`, `DeferredDrain` |
| `scheduler_core` | PRIORITY, 3 requests, 4 blocks of 2 tokens, 2 seats, 1 draft, lookahead 2, prefix hits, all pause states | `TypeOK`, `OutputInOrder`, `InFlightAccounting`, `QueuesMatchStatus`, `CaughtUp`, `BlocksCoverTokens` |
| `scheduler_live` | FCFS, `defer_block_free`, 2 requests, 3 blocks, 3 steps in flight, one reset, fair engine loop | `OutputInOrder`, `EveryRequestFinishes`, `FenceSpec`, `ResetFailsOnlyInFlight` |
| `streaming` | 2 sessions, 1 seat, 3 chunks, two preemptions each, 1 step in flight, fair | `SessionQueued`, `EngineSeesWork`, `ContextKept`, `SessionEnds` |
| `streaming_lost` | 2 steps in flight | violation of `SessionQueued` (section 6) |
| `kpool_tail` | pool 4; `glm_kpool.py` (ring 4) with 0 and 1 drafts, r28.3-a (ring 8) with 3; 12 positions, 2 passes over each | `TypeOK`, `PoolsFaithful`, `CommittedKeysKept` |
| `watchdog` | 2 failures, grace 3, cooldown 4, boot 2 ticks; 3 outages (crashes and hangs), failing ssh, 3 operator commands, fair | `QuietStopHolds`, `RestartsAreSpaced`, `RestartsOnlyTheFailed`, `RecoversFromOutage` |
| `chat_stream` | 1 choice, 4 scripts of 8 to 15 events, cut and truncated anywhere, every parser setting and `tool_choice` | `ReplyAddsUp`, `CallsAddUp`, `ArgumentsParse`, `FinishReasonsAgree` |
| `kv_transfer` | 2 requests of 5 and 4 tokens in 4 blocks of 2, chunks of 1, offers of 4 tokens or none, 2 loads each, both policies, fair | `OutputGood`, `CacheGood`, `LoadTargetsHeld`, `EveryRequestEnds` |
| `kv_downstream` | 2 requests of 3 and 5 tokens in 4 blocks of 2, chunks of 2, a load of one block within the step, policy "fail" | violation of `CacheGood` (section 6) |
| `gemm_pipeline` | 16 specialisations, 2 MMA warps, 1-3 k tiles of 2 blocks, 1-2 work tiles, 2-4 stages, fair | `FullMeansLoaded`, `OutputRight`, `EveryTileStored` |
| `gemm_plan` | 30 weights, 48 and 188 SMs, 20 batch sizes around the thresholds | `OutputComplete`, `NeverRecompiles`, `PlansBuild` |

Some properties are conjunctions of named parts, so that one run asks one
question: `InFlightAccounting` is `RequestCounters` and `StepBudgets`; `OutputInOrder` also
says that no request outputs more than `max_tokens`; `CaughtUp` that a prefill
chunk ends outside the lookahead window; `BlocksCoverTokens` that computed tokens
stay in the model length; `EngineSeesWork` that seats are respected; `PlansBuild` is `NotRefused` and
`StagesFit`.  `TypeOK` of `StreamingSession` and `Watchdog` is proved; that of `KVTransfer` holds on
its instance too, and `Types` in `KVInv` is the part of it that is proved.  In `Fence`, the instance of `BlockFence` in
`SchedulerCore`, the bounds on steps and deferred entries are 0, which stands for no bound.

Why the bounds are enough.  The blocks are fewer than the seated requests need
at their longest, so preemption happens in every run of the scheduler; two steps in flight are
what asynchronous scheduling has, and the third is where a second preemption meets
the undrained share of the first, in `scheduler_live` ("an undrained drop-mode
share stays dropped" only matters from there).  Prompts of one and three tokens with a
budget of four give prefills in one chunk and in several, one draft gives
acceptance and rejection, and `MaxTokens` of two or three lets requests finish
within a step and across steps.  Each property has a mutant, a plausible slip in the
code, that its run's bounds are large enough to find.  In `kpool_tail` twelve
positions are three pools, so both rings wrap, and two passes give
each position a rejected key and its redo; the proof covers every other value.  In
`watchdog` the limits keep their order (boot <= grace < cooldown), and three
operator commands and three outages let a stop, a start and a check overlap.  In
`kv_transfer` the two prompts want five blocks of four, share two, and a load may fail on one block, on
all or on none and be tried again, so waiting loads, running prefills and the retry
compete.  `Cases` leaves two situations out of that instance: a load within the step
under policy "recompute" and the abort of a request that has such a load (section
6).  With these prompts no request fills a block behind one that another request loads in the same step,
which is the case of `kv_downstream`.  `gemm_pipeline` takes rings no longer than the k tiles of two work tiles,
so that every stage is reused; two warps are enough for one to lag behind
the other.  `chat_stream` needs one choice, because choices share nothing but the end of the
stream; its cuts include every single event and the whole output at once.
`gemm_plan` takes a batch size on each side of every threshold of the rules.

The blocks of `scheduler_core` are
symmetric: nothing chooses among them but nondeterminism.  Runs with liveness use
no symmetry.  Deadlock is not an error in runs whose bounded work ends (all
requests finished, all steps used, the stream ended, all tiles stored);
`Watchdog`, `KVTransfer` and `DenseGemmPlan` never stop and are checked for it.

## 4. Fairness

* `SchedulerCore!FairSpec`: the engine loop keeps calling `schedule()` when it may and a loop that was
  entered goes on (weak fairness).  `update_from_output` has strong fairness, because the loop waits for
  the oldest step when its queue is full or nothing was scheduled: empty
  calls of `schedule()` cannot keep it out.  Nothing is assumed of arrivals, aborts, resets,
  or of how many drafts are accepted.
* `BlockFence!FairSpec`: a step in flight completes.
* `StreamingSession!FairSpec`: outputs are processed; a running session is
  scheduled and room for a waiting one is used if it is there again and
  again (the fairness of `SchedulerCore`'s loops); the model stops some time, as
  `max_tokens` forces it to.  Clients need not send or end anything:
  `SessionEnds` speaks of the time when all sessions have been ended, for a
  session that waits for its next chunk holds its seat as long as its client likes.
* `Watchdog!FairSpec`: cron fires, a check that runs goes on, a boot with its
  worker completes, and a start of the worker that is retried for ever succeeds
  some time.  Nothing is assumed of the operator; `RecoversFromOutage` speaks of the
  time when the operator leaves the deployment alone with the watchdog enabled.
* `KVTransfer!FairSpec`: the engine loop takes steps for ever, and a load or send
  that was started ends.  Nothing is assumed of what loads give, nor of clients.
* `GemmPipeline!FairSpec`: something goes on while anything can (resident warps are
  scheduled, copies under way land).  That is enough: the model has no cycle.

## 5. Proofs

For every value of the constants, under the assumptions that the modules name
(`FenceAssumption`, `SchedulerAssumption` and so on: numbers are numbers, ranks are injective, sets of requests
and blocks are finite).  A theorem that needs more says so in an `ASSUME`.

| module | property of a run | hypothesis |
|---|---|---|
| `BlockFence_proofs` | `TypeOK`, `NoFreeWrite`, `NothingStranded` | |
| `Scheduler_proofs` | `QueuesMatchStatus`; `StepBudgets` | |
| | `OutputInOrder`, `InFlightAccounting` | |
| | `CaughtUp`, `TypeOK` | `PadsWhole` |
| | `BlocksCoverTokens` | `PromptsFit` |
| | `ResetFailsOnlyInFlight` | |
| | `FenceSpec` | `defer_block_free` |
| `KPoolTail_proofs` | `TypeOK`, `PoolsFaithful`, `CommittedKeysKept` | `WideRing` |
| `Watchdog_proofs` | `QuietStopHolds`, `RestartsAreSpaced` | |
| | `RestartsOnlyTheFailed` | `BootTicks < Grace` |
| `StreamingSession_proofs` | `SessionQueued`, `EngineSeesWork`, `ContextKept` | `Depth = 1` |
| `KVTransfer_proofs` | `LoadTargetsHeld` | |
| | `CacheGood`, `OutputGood` | `AsyncLoads` |
| `DenseGemmPlan_proofs` | `OutputComplete` | `FourWayIsAtomic`, `SingleTilesUncapped` |

### BlockFence

`BlockFence_proofs` (assumes only that `Depth` is a positive number and the bounds
are numbers; any requests and blocks):

* `TypeCorrect`: types, and `sched_step_seq - processed_step_seq` is the number of
  steps in flight.
* `FreeBlocksAreQuiet`: `NoFreeWrite`.
* `NothingLeftBehind`: `NothingStranded`.

`NoFreeWrite` is not inductive, since it says nothing about who holds a block that is written.
`WritesGuarded` adds it: every block that step `j` in flight writes is held by
the request that wrote it, whose `last_sched_seq` is that of step `j` or
later, or by a deferred entry fenced there or later.  `FencesInWindow` says the head
of the FIFO is always pending and that no fence is beyond the next step; the
drain then never passes an entry that a step in flight needs, and what it leaves
when nothing is in flight can only be copies fenced at the step to come.  There is one lemma
per action (`AllocateKeeps`, `FreeKeeps`, `ScheduleKeeps`, `RetainKeeps`,
`ProcessKeeps`).

### KPoolTail

`KPoolTail_proofs` (any pool size, set of kernels, length and number of passes,
under `WideRing`, i.e. `ring >= Pool + drafts - 1` for each of the kernels):

* `PoolsAreFaithful`, `CommittedKeysAreKept`, `TypeCorrect`.

`WideRing` holds of `glm_kpool.py` with at most one draft and of r28.3-a with any number.
It does not hold of `glm_kpool.py` with two drafts or more, and there the properties
fail (section 6).

`PoolsFaithful` is not inductive, because a completed pool is made of what the
ring holds.  `KeysInRing` says that the ring holds the latest keys from the start of the pool
in progress up to the current row, where the pool in progress is that of `Certain`, and
`StepSize` that a step has at most `drafts + 1` rows.  Before the last row is stored these are at most
`Pool + drafts - 2` consecutive positions, its own is one more, and positions less than a
ring apart have slots of their own (`SlotsDiffer`).  The hypothesis is tight: for pool 4 and 3
drafts TLC finds no error with a ring of 6 and a counterexample with a ring of 5; for
2 drafts the same with 5 and 4.  That the ring r28.3-a computes satisfies it
(`TailRing(pool, spec) >= pool + spec`) rests on facts about powers of two, and
the prover has none; TLC evaluates it for pools of 1 to 16 and 0 to 16 drafts
(`TailRingAssumption`), and `WideRing` for the kernels of the run (`WideRingAssumption`).

### SchedulerCore

The proofs follow the layers of the state; each layer's invariant is inductive on top
of the one below, so that none has to be repeated.

1. *Queues* (`QueueInv`).  Types; no request twice in `waiting`, `skipped`, `step.skip` or
   `running`; which status goes with which queue; and what the step in the making holds.
   `QueuesMatchStatus` alone is not inductive: a request popped and skipped in the waiting loop is in no
   queue until `EndWaitingLoop`, and `step.skip` says where it is.  `StepAhead` says that the requests from `step.idx` on
   have nothing scheduled yet, which is why a preemption gives back the tokens of requests
   before the index only.  `StepBudgetsHold` adds that the sum of the
   scheduled tokens and the budget left is the whole budget.
2. *Tokens in flight* (`OutputInv`).  A ledger per request over the outputs in flight, oldest first: the tokens of all of
   them add up to `num_in_flight_tokens`; those that count add up to the
   rest beside the stale share; each output that samples starts where the one before
   ends, at most as far as its drafts are accepted; the placeholders are what is
   awaited.  A preemption makes all of it stale, an output takes the oldest entry
   away, and `DeliverTokens` shifts what follows by the drafts it
   rejects.  These steps are lemmas of `SequenceLemmas` on numbers and sequences (`LedgerOf`), used once
   per action.  `OutputInOrder` follows from the oldest entry.
3. *Progress* (`ProgressInv`, `SignInv`).  A decode is one token behind what it knows, counting the
   awaited ones; a prefill ends outside the lookahead; and so no counter goes below zero, the
   last part of `TypeOK`.  This needs `PadsWhole`: `long_prefill_token_threshold` is 0, as by default, or
   larger than the number of drafts.
4. *Blocks* (`BlockInv`).  Tables are disjoint and have room for what is computed, scheduled and
   drafted.  `BlocksCoverTokens` bounds computed tokens by the model length as well, which holds if
   no prompt is longer (`PromptsFit`); the front end rejects one that is.
5. *Fences* (`FenceInv`) and the refinement.  `FollowsTheFence` proves `Spec => FenceSpec` with a lemma per action:
   what `SchedulerCore` does is an allocation, a free, a schedule, a retention, a
   processed output or nothing to `BlockFence`.  `NoFreeBlockIsWritten` carries `NoFreeWrite` over to the
   scheduler.  Without `defer_block_free` the scheduler returns blocks at once, and the
   refinement is not meant to hold.

### Watchdog

`WatchdogInv`: types; the state file agrees with the last automatic restart; a head that serves although the
probe did not see it completed its boot between the probe and the judgement
(`JustBooted`); and while a stop that raced with no check runs, the marker is set and no check is under
way, until the operator starts or enables again (`StopKept`).  `QuietStopHolds` alone forgets the stop while it runs; `RestartsAreSpaced`
speaks of a step and needs the age in the state file to be the true one.
`RestartsOnlyTheFailed` needs that a boot takes less than the grace.  For
`BootTicks = Grace` TLC has a counterexample: the head completes its boot after the failed probe, in the
tick in which the grace ends, and the check restarts it.  In the deployment the
grace is the longer of the two.

### StreamingSession

`SessionInv`: each queue holds the sessions of its statuses, once (`QueuesOk`); the counter is the number of
paused sessions, and with the running ones they have seats (`SeatsOk`); the sessions of the one step are
running, unless their client ended them (`OneStep`); prompt and context are the
chunks taken, in order, and `streaming_queue` is the chunks not yet taken, in order, with the
sentinel behind them (`TextOk`).  `OneStep` is what `_handle_stopped_request` relies on when it
removes a session by the status it had before the stop, and where `Depth = 1` is needed: `streaming_lost` is the
counterexample for two steps.  `TextOk` is needed because `ContextKept` alone does not say which chunk comes
next; that a running session is `computed` is why taking a chunk does not cut its context.

### KVTransfer

`KVInvariant` (`KVInv`), from which `LoadTargetsAlwaysHeld` follows for any requests, prompts, blocks,
offers, limits and both policies.  `LoadTargetsHeld` is not inductive: it does not say why nothing
frees, caches or hands out the blocks of a load before it ends.

* `StagesOk`: a load is under way, reported by the worker, in the output of the step, or over
  (`finishedRecv`), in one of these at most, and as long as it is in one of the first three its request is
  `remote` or `finished`.  A send likewise, of a finished request that loads nothing.  So a
  report frees blocks once, and never those of a request that has started a new load.
* `RoomOk`: a waiting request has the blocks its load was for, so that a promotion
  caches blocks of its own table.
* `StepInOrder`: a step in the making holds a prefix of the running list, so a preemption, which
  takes the last of the list, never takes a request that is in the step unless the list ends there.
* `EntriesOk`: a request of the step is computed at least to the tokens of the step, so that what
  `_update_requests_with_invalid_blocks` subtracts is not more than there is.
* `Alone`: `LoadTargetsHeld` block by block.

There is a lemma per action.  The scan of the invalid blocks is a loop over requests that changes what the next
iteration reads; `ScanFacts` says what one iteration keeps (`Accs`), `ScannedFacts` the loop, and `UpdatedFacts` what is
left of each request when `update_from_output` is through with it: gone, kept
for its load or send, or as it was.

`CacheAlwaysGood` and `OutputAlwaysGood` speak of what is in the blocks.  They have one hypothesis,
`AsyncLoads`: the connector loads while a request waits, and never within the step that uses the blocks.  Such
connectors exist (what `get_num_new_matched_tokens` returns says which load it is), and without the
hypothesis the claim is false: `kv_downstream` is a load within the step.  Nothing else is
assumed, so that loads fail on any blocks under both policies and requests are preempted, aborted and
retried as they like, with any sharing of blocks.

`CacheGood` speaks of a moment between steps.  While a step is scheduled its tokens are cached before
they are computed, and a request counts as computed what it has not got yet.  The inductive invariant
(`GoodInv`: `KVInv`, `QueuesKept`, `DataInv`) says that all this is *promised*:

* `Promised(b, p)`: the KV of position `p` is in block `b`, or an entry of the step writes it.  So it is for
  every block of the cache (`CachePromised`), for the computed tokens of every request that is scheduled or waits
  to be (`ContextPromised`), and for what an entry computes from, where *earlier* entries count only (`StepPromised`): the
  worker goes through the step in order.
* `LoadPromised`: the tokens of a load are promised, or still to arrive, or their failure is reported and not
  yet scanned for.  A promotion, which caches them, therefore needs that every reported failure was scanned for
  before: a report of failures never comes later than that of the load's end (`LostKnown`).
* `LostAlone`: blocks that failed are their request's alone, so the scan does not find them marked by
  another one and cuts `num_computed_tokens` at the first of them (`LostCut`).  Here the argument breaks for loads within the step.
* `Placed`: a block stands at one index of the text in all tables, in the cache and in the step in flight, so one
  request does not overwrite what another one computed.
* `StepApart`: no load writes the blocks of a step in flight, although an abort may have freed them.
* `QueuesKept`: a request that loads is in `skipped_waiting`, once, where the scan looks for it.

The worker's pass is a recursion over the step (`Loaded`, `Forward`); `Passes` and `ForwardFacts` give its intermediate
states, and `ExecuteData` that what was promised is in the blocks after it.

### DenseGemmPlan

`OutputIsComplete` holds for every weight, batch size, caller's tile and number of SMs, which no
instance of TLC can cover.  The invariant of the call (`CallInv`) is simple: a call that passed the checks
follows its plan.  The work is in the plan (`PlanComplete`):

* `FirstFires`: a table of rules has the outcome of the first rule whose condition holds, and the rules
  before it did not apply.  The lemmas on tiles (`TileShape`), depths and splits go through the tables with it.
* `PolicySplit`, `PlanSplit`: whatever rule splits K, there is one row of output tiles and the slices are
  whole k tiles (`SlicesCoverK`).  The depth of the k tile and the split are chosen apart from each other; that they fit
  rests on the conditions of each split rule and on the FP4 depth of 256, which is never split.
* `GridCovers`: each tile of C is some CTA's.  A CTA that computes one tile needs a grid of
  all tiles.  The choice of one tile per CTA compares with the number of SMs, the grid with that
  number after the tile-major cap, and `ActiveCtas` says where the two differ.

The two hypotheses came out of the proof: each excludes a state in which the code does compute too little
(section 6).  TLC evaluates them for the weights of `gemm_plan` (`HypothesesHold`).

### Recursive definitions

`SumOf`, `Keep`, `Scanned`, `Loaded`, `Forward` and the sums of `SequenceLemmas` are recursive functions.  The
induction theorems of the library are of no use here (they take an operator), and the proofs about
them take the least index at which the claim fails (`LeastNatural`).

### Only model-checked

* All liveness: `DeferredDrain`, `EveryRequestFinishes`, `SessionEnds`, `RecoversFromOutage`,
  `EveryRequestEnds`, `EveryTileStored`.  Liveness under fairness and ENABLED are out of the prover's reach.
* `OutputGood` and `CacheGood` of `KVTransfer` with loads within the step: `kv_transfer` checks them
  for the situations that `Cases` does not leave out.
* The safety of `GemmPipeline`; section 7.
* `OutputParser` and `ChatStream`, which are folds over sequences of events and tokens: what they say
  of every script is induction over nested data.
* `NeverRecompiles` and `PlansBuild` of `DenseGemmPlan`: they hold of the weights that occur, and the claim
  for all weights is false (section 6; a caller's tile can be refused).

## 6. What the models show of the code

With a run each:

* `streaming_lost`: with two steps in flight, a session whose stop comes back
  after it was preempted is appended to a waiting queue by
  `_handle_stopped_request` and then removed from both as a preempted request that stopped
  (`scheduler.py` 2702, 2792-2795).  It stays in `self.requests` but in no queue, and
  its next chunk never runs.
* `kv_downstream`: a load within the step fails on a block that a second request of the same step shares. Under
  policy "fail" both requests fail, and `_update_requests_with_invalid_blocks` is to evict "invalid blocks and
  downstream dependent blocks" (3675-3676).  But the second request finds the block marked by the first
  (3707-3714) and evicts nothing, so a block it filled in that step, from a context that never arrived,
  stays in the prefix cache.  When the shared block is computed and cached again, the next request that hits both
  gets a wrong token: with two more prompts of 5 tokens TLC finds `OutputGood` violated after 14 steps.

Seen while modelling, without a run of their own:

* With two steps in flight `ContextKept` fails too: `_update_request_as_session` cuts
  `_all_token_ids` at `num_computed_tokens` (2142), which a preemption may have set to
  0, so the whole context of the session is lost.  It, and failures of
  `EngineSeesWork` that follow from `streaming_lost`, need asynchronous scheduling;
  `streaming` shows that with one step in flight none occurs.
* `dense_gemm.py`: without a hint, `_select_mxfp8_tile_k` and the low-SM branches of
  `_select_default_dense_gemm_plan` follow the live batch size (7308-7314, 7411-7466), against the
  comments at 7150-7154 and 7323-7325, which want plans that do not depend on it.  An mxfp8 weight of 4096 by
  4096 on 48 SMs needs a kernel at m = 1536 that no warm-up with small batches has
  compiled: `NeverRecompiles` fails for that weight.  `gemm_plan` lets such weights compile at any time and freezes the
  others.
* After one automatic restart the log follower that `start.sh:91` leaves in the background
  holds `.watchdog.lock` through descriptor 9, so every later check exits at once and a
  hang is never noticed.  A crash ends the follower.  `StrandedByLock` is that state, and
  `RecoversFromOutage` says that it is the only way not to recover.
* KV transfer, a request that reserves against itself: when an asynchronous load fails on all of
  its blocks, `_update_waiting_for_remote_kv` frees them (3536-3541) but leaves the
  request in `_inflight_prefills`.  If the connector offers the load again, the request's
  whole need is among the reserved blocks (1477), although the comment at 1473-1476
  speaks of the other reservations; in a pool smaller than twice its prompt it is never
  admitted, and with it the queue behind it.  `HeldByOwnLoad` is that state, and
  `EveryRequestEnds` excepts it.
* KV transfer, outside the instance's `Cases`: under policy "recompute" the blocks of a load within the step
  are in the prefix cache until they are recomputed (by design, 3783-3787); and when a
  request with such a load is aborted before its output returns, its failed blocks are
  evicted by nobody, for `_update_requests_with_invalid_blocks` looks at live requests only.
* Without `scheduler_reserve_full_isl`, loads and prefills may hold all blocks and
  wait for each other: `ReserveFull = FALSE` violates `EveryRequestEnds`.
* `serving.py` 646-653 skips an output without text and tokens before it looks at the finish
  reason (752-756): a request that fails before its first token ends its stream with
  [DONE], without finish reason or error.
* Streaming and whole reply differ where the parser cannot take back what it sent: text
  after a tool call (kept by the stream in part, dropped by the whole parse), the order of
  text between two calls, and `tool_choice="required"` that ends without a call
  ("tool_calls" in the whole reply, "stop" in the stream).  `ReplyAddsUp` and
  `HasCall` name these conditions.
* `dense_gemm.py`: with `B12X_DENSE_SPLITK_TURBO=0` a split into four partials is
  reduced by a function that adds two (462-468, 8550-8554); a tile-major B of 4096 by 4096 with
  a tile of (32, 64), 64 SMs or more and 9 <= m < 16 takes one work tile per CTA while the
  grid is capped at 40 CTAs, so 24 of its tiles are never computed (417-424, 4910-4922).
  `FourWayIsAtomic` and `SingleTilesUncapped` exclude these.
* `stop.sh:16` promises that the watchdog does not undo an intentional stop.  A
  check tests the marker once, and the `start.sh` it runs removes it: a stop
  that comes while a check restarts the deployment is undone.  `QuietStopHolds` is what
  does hold.
* `reset_prefix_cache` says (3288-3290) that preempting everything makes sure the reset
  succeeds.  With `defer_block_free` and a step in flight the blocks are still
  referenced and it raises; `ResetFailsOnlyInFlight` is what does hold.
* The one-pool ring of `glm_kpool.py` lets the drafts behind a rejected
  pool-completing draft overwrite keys that its redo reads, the fault that
  `image/r28.3-a-pr58454/README.md` describes.  With `MCKernels` set to a ring of 4 (and `WideRingAssumption` dropped) and
  2 or 3 drafts (3 is the default of `MTP_TOKENS`, `compose.head.yaml:116`) TLC finds `CommittedKeysKept` and
  `PoolsFaithful` violated: a prompt of 2 tokens, a step whose rows 2, 3 and 4 complete the first pool and put key 4 where
  key 0 is, then both drafts rejected and position 3 computed again.  `WideRing` excludes it; `kpool_tail` runs that
  kernel where it is right, and the mutant `PhysicalInPool` is its slot under the wider ring's number of drafts.
* `scheduler.py` pads a decode that it admits to `1 + num_spec_tokens` (1374) and only then caps it at
  `long_prefill_token_threshold` (1383-1385), but gives it all its drafts (1592).  With a threshold of at most
  the number of drafts, placeholders and drafts are counted that were not scheduled: with
  `Threshold = 1` TLC finds `CaughtUp` violated by the instance of `scheduler_core`.
  `PadsWhole` excludes it; the default is 0, which is off.
* `start.sh:142`: `wait_ready; rc=$?` under `set -e` ends the script before
  `report_boot`, so its failure branches are never reached.

## 7. Plan

The model is extended as far as the components above allow; what is left is to prove
more, most important first:

* `FullMeansLoaded` of `GemmPipeline` for a specialisation given as constants;
* `CacheGood` of `KVTransfer` with loads within the step, for the situations in which it holds;
* the rest of `TypeOK` of `KVTransfer`.

The runs are at their number: each asks one question of one component, and a
question more would take the place of one of these.

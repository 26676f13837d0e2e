----------------------------- MODULE KVTransfer -----------------------------
(***************************************************************************)
(* The scheduler with a KV connector (scheduler.py 3446-3819 and the       *)
(* connector's branches of schedule() and update_from_output()): prompt    *)
(* KV that somebody else computed is loaded into a request's blocks,       *)
(* asynchronously while the request waits or within the step that uses it; *)
(* loads fail block by block; requests are aborted and preempted while     *)
(* loads go on; and finished requests keep their blocks while they are     *)
(* sent.                                                                   *)
(*                                                                         *)
(* All prompts are prefixes of one text, so that requests share cached     *)
(* blocks: cache[i] is the block that the prefix cache holds for the i-th  *)
(* block of the text.  data[b] is the set of positions whose right KV is   *)
(* in block b.  A request ends with its first output token.                *)
(***************************************************************************)
EXTENDS Integers, FiniteSets, Sequences, SequencesExt, FiniteSetsExt, Queues

CONSTANTS
  Req,            \* request identifiers
  NumBlocks,      \* size of the block pool
  BlockSize,      \* tokens of a block
  Len0,           \* Len0[r]: tokens of r's prompt
  Offers,         \* what the connector may offer for a prompt: [kind, tokens]
  Policies,       \* kv_load_failure_policy: "fail", "recompute"
  ReserveFull,    \* scheduler_reserve_full_isl: a prompt is admitted if all of it fits
  TokenBudget,    \* max_num_scheduled_tokens
  ChunkLimit,     \* long_prefill_token_threshold
  MaxLoads,       \* bound: loads tried for one request
  Cases           \* which cases of loads within the step the instance tries: "recompute"
                  \* (under that policy), "abort" (of the request that loads)

ASSUME KVAssumption ==
  /\ IsFiniteSet(Req) /\ Req # {}
  /\ {BlockSize, TokenBudget, ChunkLimit} \subseteq Nat \ {0} /\ NumBlocks \in Nat
  /\ Len0 \in [Req -> Nat \ {0}] /\ MaxLoads \in Nat
  /\ Offers \subseteq [kind : {"sync", "async"}, tokens : Nat]

Block == 1..NumBlocks
NoBlock == 0
CDiv(a, b) == (a + b - 1) \div b
Blocks(t) == CDiv(t, BlockSize)
Index == 0..(Blocks(Max({Len0[r] : r \in Req})) - 1)
Positions(i) == (i * BlockSize)..(i * BlockSize + BlockSize - 1)

VARIABLES
  policy,         \* the failure policy of this deployment
  offer,          \* offer[r]: what the connector has for r
  loads,          \* loads[r]: loads started for r
  status,         \* status[r]
  computed,       \* num_computed_tokens
  preempted,      \* the requests with num_preemptions > 0
  prefilling,     \* _inflight_prefills: loads and prefills under way
  table,          \* table[r]: the blocks of r
  skipped, waiting, running,   \* the queues
  cache, data,    \* the prefix cache, and what the blocks hold
  loading,        \* loading[r]: the blocks an asynchronous load still writes
  lost,           \* lost[r]: the blocks of r's load that failed
  sending,        \* the finished requests whose blocks are being sent
  report,         \* what the worker's connector has to report
  finishedRecv,   \* finished_recving_kv_req_ids
  failedRecv,     \* failed_recving_kv_req_ids
  pc,             \* "schedule", "flight", "output"
  step,           \* the step: its requests in order, their tokens, ...
  out             \* out[r]: what the client got

vars == <<policy, offer, loads, status, computed, preempted, prefilling, table, skipped, waiting,
          running, cache, data, loading, lost, sending, report, finishedRecv, failedRecv, pc, step, out>>

kvs == <<loading, lost, sending, report, finishedRecv, failedRecv>>

NoReport == [invalid |-> {}, received |-> {}, sent |-> {}]

(* A step in the making.  entries are [req, tab, from, n, sync], in order:  *)
(* the step keeps the block table it was given; sync are the blocks that    *)
(* it loads itself.  passed is step_skipped.                                *)
NewStep == [entries |-> <<>>, budget |-> TokenBudget, passed |-> <<>>,
            stop |-> FALSE, preempted |-> FALSE, kv |-> NoReport]

Init ==
  /\ policy \in Policies
  /\ offer \in [Req -> {o \in Offers : policy = "recompute" /\ o.kind = "sync"
                                        => "recompute" \in Cases}]
  /\ loads = [r \in Req |-> 0]
  /\ status = [r \in Req |-> "new"]
  /\ computed = [r \in Req |-> 0]
  /\ preempted = {} /\ prefilling = {}
  /\ table = [r \in Req |-> <<>>]
  /\ skipped = <<>> /\ waiting = <<>> /\ running = <<>>
  /\ cache = [i \in Index |-> NoBlock]
  /\ data = [b \in Block |-> {}]
  /\ loading = [r \in Req |-> {}]
  /\ lost = [r \in Req |-> {}]
  /\ sending = {}
  /\ report = NoReport
  /\ finishedRecv = {} /\ failedRecv = {}
  /\ pc = "schedule" /\ step = NewStep
  /\ out = [r \in Req |-> "none"]

-----------------------------------------------------------------------------
(* Blocks. *)

Held == UNION {ToSet(table[r]) : r \in Req}
Free == Block \ Held

(* The longest cached prefix; the last token is always computed. *)
LocalHit(r) ==
  Max({h \in 0..((Len0[r] - 1) \div BlockSize) : \A i \in 0..(h - 1) : cache[i] # NoBlock})
HitBlocks(h) == [i \in 1..h |-> cache[i - 1]]

(* cache_blocks: the full blocks of the first t tokens enter the cache. *)
Cached(c, tab, t) ==
  [i \in Index |-> IF c[i] = NoBlock /\ i < t \div BlockSize THEN tab[i + 1] ELSE c[i]]
Evicted(c, bs) == [i \in Index |-> IF c[i] \in bs THEN NoBlock ELSE c[i]]

(* allocate_slots: r's table becomes `base` and blocks for t tokens, taken  *)
(* from the free ones, which leave the cache.  `reserved` stay free.        *)
Missing(base, t) == IF Blocks(t) > Len(base) THEN Blocks(t) - Len(base) ELSE 0
Fits(base, t, reserved) == Cardinality(Free \ ToSet(base)) >= Missing(base, t) + reserved

(* The n blocks that may be taken from a set of free ones: any of the       *)
(* cached; those not cached are alike, and the first are taken.             *)
Takes(n, free) ==
  LET plain == free \ {cache[i] : i \in Index}
  IN {new \in kSubset(n, free) :
        \A b \in new \intersect plain, c \in plain \ new : b < c}

(* _request_remaining_blocks, _inflight_prefill_reserved_blocks: what the   *)
(* requests that load or have loaded, and prefills under way, still need.   *)
Remaining(r) == Missing(table[r], Len0[r])
NothingReserved == 0   \* mutant
Reserved == FoldSet(LAMBDA r, n : n + Remaining(r), 0, prefilling)

-----------------------------------------------------------------------------
(* schedule(): the running loop. *)

InStep == {step.entries[k].req : k \in DOMAIN step.entries}
Entry(r, tab, from, n, sync) ==
  [req |-> r, tab |-> tab, from |-> from, n |-> n, sync |-> sync]
Scheduled(s, e) == [s EXCEPT !.entries = Append(@, e), !.budget = @ - e.n]
Lesser(a, b) == IF a < b THEN a ELSE b
Chunk(r, from) == Min({Len0[r] - from, ChunkLimit, step.budget})

NextRunning == SelectInSeq(running, LAMBDA r : r \notin InStep)
RunningLoop == pc = "schedule" /\ NextRunning # 0 /\ step.budget > 0 /\ ~step.stop

ScheduleRunning ==
  /\ RunningLoop
  /\ LET r == running[NextRunning]
         n == Chunk(r, computed[r])
     IN /\ Fits(table[r], computed[r] + n, 0)
        /\ \E new \in Takes(Missing(table[r], computed[r] + n), Free) :
             LET tab == table[r] \o SetToSeq(new) IN
             /\ table' = [table EXCEPT ![r] = tab]
             /\ data' = [b \in Block |-> IF b \in new THEN {} ELSE data[b]]
             /\ cache' = Cached(Evicted(cache, new), tab, computed[r] + n)
             /\ step' = Scheduled(step, Entry(r, tab, computed[r], n, {}))
        /\ computed' = [computed EXCEPT ![r] = @ + n]
  /\ UNCHANGED <<policy, offer, loads, status, preempted, prefilling, skipped, waiting, running,
                 kvs, pc, out>>

(* _preempt_request of the last running request, for want of blocks *)
PreemptForRoom ==
  /\ RunningLoop
  /\ LET r == running[NextRunning]
         n == Chunk(r, computed[r])
         v == Last(running)
     IN /\ ~Fits(table[r], computed[r] + n, 0)
        /\ status' = [status EXCEPT ![v] = "preempted"]
        /\ preempted' = preempted \union {v} /\ prefilling' = prefilling \ {v}
        /\ table' = [table EXCEPT ![v] = <<>>]
        /\ computed' = [computed EXCEPT ![v] = 0]
        /\ running' = Front(running)
        /\ waiting' = <<v>> \o waiting
        /\ step' = [step EXCEPT !.preempted = TRUE, !.stop = (v = r)]
  /\ UNCHANGED <<policy, offer, loads, skipped, cache, data, kvs, pc, out>>

-----------------------------------------------------------------------------
(* schedule(): the waiting loop, skipped_waiting first. *)

WaitingLoop ==
  /\ pc = "schedule" /\ NextRunning = 0 /\ step.budget > 0
  /\ ~step.stop /\ ~step.preempted
  /\ skipped # <<>> \/ waiting # <<>>
Candidate == IF skipped # <<>> THEN Head(skipped) ELSE Head(waiting)
Popped ==
  IF skipped # <<>> THEN skipped' = Tail(skipped) /\ UNCHANGED waiting
  ELSE waiting' = Tail(waiting) /\ UNCHANGED skipped

(* The load is not finished: the request is skipped. *)
PassLoading ==
  /\ WaitingLoop
  /\ LET r == Candidate IN
       /\ status[r] = "remote" /\ r \notin finishedRecv
       /\ Popped
       /\ step' = [step EXCEPT !.passed = <<r>> \o @]
  /\ UNCHANGED <<policy, offer, loads, status, computed, preempted, prefilling, table, running,
                 cache, data, kvs, pc, out>>

(* Mutant: the blocks of a load that failed are cached with the others.      *)
CachedAnyway(r) ==
  [computed |-> Lesser(computed[r], Len0[r] - 1), table |-> table[r],
   cache |-> Cached(cache, table[r], Len0[r])]

(* _update_waiting_for_remote_kv: what is cached once the load is over, the *)
(* tokens that count as computed, and the blocks that are kept.             *)
AfterLoad(r) ==
  IF r \in failedRecv
  THEN [computed |-> computed[r],
        table |-> IF computed[r] > 0 THEN table[r] ELSE <<>>,
        cache |-> IF computed[r] > 0 THEN Cached(cache, table[r], computed[r]) ELSE cache]
  ELSE [computed |-> IF computed[r] = Len0[r] THEN Len0[r] - 1 ELSE computed[r],
        table |-> table[r],
        cache |-> Cached(cache, table[r], computed[r])]

(* _try_promote_blocked_waiting_request; the request stays at the head. *)
Promote ==
  /\ WaitingLoop
  /\ LET r == Candidate
         a == AfterLoad(r)
     IN /\ status[r] = "remote" /\ r \in finishedRecv
        /\ computed' = [computed EXCEPT ![r] = a.computed]
        /\ table' = [table EXCEPT ![r] = a.table]
        /\ cache' = a.cache
        /\ failedRecv' = failedRecv \ {r} /\ finishedRecv' = finishedRecv \ {r}
        /\ status' = [status EXCEPT ![r] = IF r \in preempted THEN "preempted" ELSE "waiting"]
  /\ UNCHANGED <<policy, offer, loads, preempted, prefilling, skipped, waiting, running, data,
                 loading, lost, sending, report, pc, step, out>>

(* What a lookup finds for a request without computed tokens: cached blocks *)
(* and, through get_num_new_matched_tokens, more tokens outside.            *)
Local(r) == IF computed[r] = 0 THEN LocalHit(r) * BlockSize ELSE 0
External(r) ==
  IF computed[r] > 0 \/ loads[r] >= MaxLoads THEN 0
  ELSE LET most == IF offer[r].kind = "sync" THEN Len0[r] - 1 ELSE Len0[r]
       IN Max({0, Lesser(offer[r].tokens, most) - Local(r)})
Async(r) == External(r) > 0 /\ offer[r].kind = "async"
Base(r) == IF computed[r] = 0 THEN HitBlocks(LocalHit(r)) ELSE table[r]
Start(r) == IF computed[r] = 0 THEN Local(r) + External(r) ELSE computed[r]

(* The blocks that hold the tokens from..to-1 *)
Covering(tab, from, to) == {tab[i + 1] : i \in (from \div BlockSize)..(Blocks(to) - 1)}

(* A request is admitted with blocks for t tokens. *)
Admits(r, t, reserved) ==
  Fits(Base(r), IF ReserveFull THEN Len0[r] ELSE t, reserved)

Ready(r) == status[r] \in {"waiting", "preempted"}

(* An asynchronous load is admitted only if the rest of the prefills under  *)
(* way can still be placed: it holds its blocks and cannot be preempted.    *)
AdmitLoad ==
  /\ WaitingLoop
  /\ LET r == Candidate
         t == Start(r)
     IN /\ Ready(r) /\ Async(r)
        /\ Admits(r, t, Reserved)
        /\ \E new \in Takes(Missing(Base(r), t), Free \ ToSet(Base(r))) :
             LET tab == Base(r) \o SetToSeq(new) IN
             /\ table' = [table EXCEPT ![r] = tab]
             /\ data' = [b \in Block |-> IF b \in new THEN {} ELSE data[b]]
             /\ cache' = Evicted(cache, new)
             /\ loading' = [loading EXCEPT ![r] = Covering(tab, Local(r), t)]
        /\ computed' = [computed EXCEPT ![r] = t]
        /\ status' = [status EXCEPT ![r] = "remote"]
        /\ prefilling' = prefilling \union {r}
        /\ loads' = [loads EXCEPT ![r] = @ + 1]
        /\ lost' = [lost EXCEPT ![r] = {}]
        /\ Popped
        /\ step' = [step EXCEPT !.passed = <<r>> \o @]
  /\ UNCHANGED <<policy, offer, preempted, running, sending, report, finishedRecv, failedRecv, pc,
                 out>>

AdmitRun ==
  /\ WaitingLoop
  /\ LET r == Candidate
         t == Start(r)
         n == Chunk(r, t)
     IN /\ Ready(r) /\ ~Async(r)
        /\ Admits(r, t + n, 0)
        /\ \E new \in Takes(Missing(Base(r), t + n), Free \ ToSet(Base(r))) :
             LET tab == Base(r) \o SetToSeq(new)
                 sync == IF External(r) > 0 THEN Covering(tab, Local(r), t) ELSE {}
             IN /\ table' = [table EXCEPT ![r] = tab]
                /\ data' = [b \in Block |-> IF b \in new THEN {} ELSE data[b]]
                /\ cache' = Cached(Evicted(cache, new), tab, t + n)
                /\ step' = Scheduled(step, Entry(r, tab, t, n, sync))
        /\ computed' = [computed EXCEPT ![r] = t + n]
        /\ status' = [status EXCEPT ![r] = "running"]
        /\ prefilling' = IF t + n < Len0[r] THEN prefilling \union {r} ELSE prefilling
        /\ loads' = [loads EXCEPT ![r] = IF External(r) > 0 THEN @ + 1 ELSE @]
        /\ running' = Append(running, r)
        /\ Popped
  /\ UNCHANGED <<policy, offer, preempted, kvs, pc, out>>

(* allocate_slots returns None: the loop ends. *)
NoRoom ==
  /\ WaitingLoop
  /\ LET r == Candidate
         t == Start(r)
         n == Chunk(r, t)
     IN /\ Ready(r)
        /\ ~(IF Async(r) THEN Admits(r, t, Reserved) ELSE Admits(r, t + n, 0))
  /\ step' = [step EXCEPT !.stop = TRUE]
  /\ UNCHANGED <<policy, offer, loads, status, computed, preempted, prefilling, table, skipped,
                 waiting, running, cache, data, kvs, pc, out>>

(* The step leaves; the skipped requests go back to the front of their      *)
(* queue.  A step without tokens goes out too, to ask after the loads.      *)
Dispatch ==
  /\ pc = "schedule" /\ ~RunningLoop /\ ~WaitingLoop
  /\ pc' = "flight"
  /\ skipped' = step.passed \o skipped
  /\ step' = [step EXCEPT !.passed = <<>>]
  /\ prefilling' = prefilling \ {r \in InStep : computed[r] = Len0[r]}
  /\ UNCHANGED <<policy, offer, loads, status, computed, preempted, table, waiting, running, cache,
                 data, kvs, out>>

-----------------------------------------------------------------------------
(* The worker and its connector. *)

(* One block of an asynchronous load fails, or the load is over. *)
LoadFails(r) ==
  /\ \E b \in loading[r] \ lost[r] :
       /\ lost' = [lost EXCEPT ![r] = @ \union {b}]
       /\ report' = [report EXCEPT !.invalid = @ \union {b}]
  /\ UNCHANGED <<policy, offer, loads, status, computed, preempted, prefilling, table, skipped,
                 waiting, running, cache, data, loading, sending, finishedRecv, failedRecv, pc,
                 step, out>>

IndexIn(tab, b) == SelectInSeq(tab, LAMBDA x : x = b) - 1
Written(d, tab, bs) == [b \in Block |-> IF b \in bs THEN Positions(IndexIn(tab, b)) ELSE d[b]]

LoadEnds(r) ==
  /\ loading[r] # {}
  /\ data' = Written(data, table[r], loading[r] \ lost[r])
  /\ loading' = [loading EXCEPT ![r] = {}]
  /\ report' = [report EXCEPT !.received = @ \union {r}]
  /\ UNCHANGED <<policy, offer, loads, status, computed, preempted, prefilling, table, skipped,
                 waiting, running, cache, lost, sending, finishedRecv, failedRecv, pc, step, out>>

SendEnds(r) ==
  /\ r \in sending
  /\ sending' = sending \ {r}
  /\ report' = [report EXCEPT !.sent = @ \union {r}]
  /\ UNCHANGED <<policy, offer, loads, status, computed, preempted, prefilling, table, skipped,
                 waiting, running, cache, data, loading, lost, finishedRecv, failedRecv, pc, step,
                 out>>

(* The KV of r's first t tokens is in place. *)
Good(d, tab, t) == \A p \in 0..(t - 1) : p \in d[tab[p \div BlockSize + 1]]

(* The step computes its requests in order, with the block tables it has.  *)
(* Tokens computed from a context that is not in place are worthless.       *)
Compute(w, e) ==
  LET ok == Good(w.data, e.tab, e.from)
      chunk == e.from..(e.from + e.n - 1)
      own == Covering(e.tab, e.from, e.from + e.n)
      Now(b) == IF ok THEN chunk \intersect Positions(IndexIn(e.tab, b)) ELSE {}
  IN [data |-> [b \in Block |-> IF b \in own THEN (w.data[b] \ chunk) \union Now(b)
                                ELSE w.data[b]],
      good |-> IF ok THEN w.good \union {e.req} ELSE w.good]

(* The forward pass: first the loads of the step itself, of which the       *)
(* blocks in bad fail, then the computation, request by request.            *)
Loaded(bad) ==
  LET d[k \in 0..Len(step.entries)] ==
        IF k = 0 THEN data
        ELSE Written(d[k - 1], step.entries[k].tab, step.entries[k].sync \ bad)
  IN d[Len(step.entries)]
Forward(before) ==
  LET w[k \in 0..Len(step.entries)] ==
        IF k = 0 THEN [data |-> before, good |-> {}] ELSE Compute(w[k - 1], step.entries[k])
  IN w[Len(step.entries)]

Execute ==
  /\ pc = "flight"
  /\ \E bad \in SUBSET UNION {step.entries[k].sync : k \in DOMAIN step.entries} :
       LET w == Forward(Loaded(bad)) IN
       /\ data' = w.data
       /\ step' = [step EXCEPT !.kv = [report EXCEPT !.invalid = @ \union bad],
                               !.entries = [k \in DOMAIN @ |->
                                  [good |-> @[k].req \in w.good, req |-> @[k].req,
                                   n |-> @[k].n, sync |-> @[k].sync]]]
  /\ report' = NoReport
  /\ pc' = "output"
  /\ UNCHANGED <<policy, offer, loads, status, computed, preempted, prefilling, table, skipped,
                 waiting, running, cache, loading, lost, sending, finishedRecv, failedRecv, out>>

-----------------------------------------------------------------------------
(* update_from_output() *)

(* num_scheduled_tokens.get(r, 0)                                           *)
Tokens(r) ==
  LET mine == {k \in DOMAIN step.entries : step.entries[k].req = r}
  IN IF mine = {} THEN 0 ELSE step.entries[CHOOSE k \in mine : TRUE].n

(* Mutant: a request whose failed blocks another one recomputes counts as    *)
(* unaffected.                                                              *)
ScanFirstOnly(acc, r) ==
  LET had == computed[r] - Tokens(r)
      hits == {i \in 0..(Blocks(had) - 1) :
                 /\ i < Len(table[r])
                 /\ table[r][i + 1] \in step.kv.invalid \ acc.marked}
  IN IF hits = {} THEN acc
     ELSE [acc EXCEPT
             !.affected = @ \union {r},
             !.marked = @ \union {table[r][i + 1] : i \in hits},
             !.computed[r] = Min(hits) * BlockSize,
             !.evict = @ \union {table[r][i] : i \in (Min(hits) + 1)..Len(table[r])}]

(* _update_requests_with_invalid_blocks for one request of the batch: the   *)
(* first block that fails and is not recomputed by an earlier request cuts  *)
(* the request's computed tokens.                                           *)
Scan(acc, r) ==
  LET had == computed[r] - Tokens(r)
      hits == {i \in 0..(Blocks(had) - 1) : i < Len(table[r]) /\ table[r][i + 1] \in step.kv.invalid}
      own == {i \in hits : table[r][i + 1] \notin acc.marked}
  IN IF hits = {} THEN acc
     ELSE [acc EXCEPT
             !.affected = @ \union {r},
             !.marked = @ \union {table[r][i + 1] : i \in own},
             !.computed[r] = IF own = {} THEN had ELSE Min(own) * BlockSize,
             !.evict = @ \union (IF own = {} THEN {}
                                 ELSE {table[r][i] : i \in (Min(own) + 1)..Len(table[r])})]

Scanned(rs, c) ==
  LET scan[i \in 0..Len(rs)] ==
        IF i = 0 THEN [affected |-> {}, marked |-> {}, computed |-> c, evict |-> {}]
        ELSE Scan(scan[i - 1], rs[i])
  IN scan[Len(rs)]

(* Mutant: blocks are freed under a load. *)
FinishFrees(s, rs, send) ==
  LET keep == rs \intersect send
  IN [s EXCEPT
        !.status = [r \in Req |-> CASE r \in keep -> "finished"
                                    [] r \in rs \ keep -> "gone"
                                    [] OTHER -> s.status[r]],
        !.table = [r \in Req |-> IF r \in rs \ keep THEN <<>> ELSE s.table[r]],
        !.recv = @ \ rs, !.failed = @ \ rs, !.prefilling = @ \ rs]

(* finish_requests and _free_request: the blocks of a request that still    *)
(* loads, or that the connector sends, stay; the request stays with them.   *)
Finish(s, rs, send) ==
  LET keep == {r \in rs : \/ s.status[r] = "remote" /\ r \notin s.recv
                          \/ r \in send}
  IN [s EXCEPT
        !.status = [r \in Req |-> CASE r \in keep -> "finished"
                                    [] r \in rs \ keep -> "gone"
                                    [] OTHER -> s.status[r]],
        !.table = [r \in Req |-> IF r \in rs \ keep THEN <<>> ELSE s.table[r]],
        !.recv = @ \ rs, !.failed = @ \ rs, !.prefilling = @ \ rs]

(* _update_from_kv_xfer_finished *)
Completed(s, kv) ==
  LET freed == {r \in kv.received \union kv.sent : s.status[r] = "finished"}
  IN [s EXCEPT
        !.recv = @ \union {r \in kv.received : s.status[r] = "remote"},
        !.status = [r \in Req |-> IF r \in freed THEN "gone" ELSE s.status[r]],
        !.table = [r \in Req |-> IF r \in freed THEN <<>> ELSE s.table[r]]]

(* _handle_invalid_blocks: the asynchronous loads first, then the batch.    *)
AsyncScan == Scanned(Keep(skipped, {r \in Req : status[r] = "remote"}), computed)
SyncScan == Scanned(running, AsyncScan.computed)
Failed == AsyncScan.affected \union SyncScan.affected

(* The requests that get their token in this step, and those that fail.     *)
InBatch(r) == \E k \in DOMAIN step.entries : step.entries[k].req = r
Ending == {r \in Req : /\ InBatch(r) /\ r \notin Failed /\ status[r] = "running"
                       /\ SyncScan.computed[r] = Len0[r]}
Errors == IF policy = "fail" THEN Failed ELSE {}

Requests(failed) ==
  [status |-> status, table |-> table, recv |-> finishedRecv, failed |-> failed,
   prefilling |-> prefilling]
Updated(send) ==
  LET s == Requests(failedRecv \union (IF policy = "fail" THEN {} ELSE AsyncScan.affected))
  IN Completed(Finish(Finish(s, Ending, send), Errors, {}), step.kv)

Becomes(s) ==
  /\ status' = s.status /\ table' = s.table
  /\ finishedRecv' = s.recv /\ failedRecv' = s.failed
  /\ prefilling' = s.prefilling
Removed(rs) ==
  /\ running' = Keep(running, Req \ rs) /\ skipped' = Keep(skipped, Req \ rs)
  /\ waiting' = Keep(waiting, Req \ rs)

Update ==
  /\ pc = "output"
  /\ \E send \in SUBSET Ending : Becomes(Updated(send)) /\ sending' = sending \union send
  /\ computed' = SyncScan.computed
  /\ cache' = IF policy = "fail" THEN Evicted(cache, SyncScan.evict) ELSE cache
  /\ out' = [r \in Req |->
        CASE r \in Ending -> IF \E k \in DOMAIN step.entries :
                                   step.entries[k].req = r /\ step.entries[k].good
                             THEN "good" ELSE "bad"
          [] r \in Errors -> "error"
          [] OTHER -> out[r]]
  /\ Removed(Ending \union Errors)
  /\ pc' = "schedule" /\ step' = NewStep
  /\ UNCHANGED <<policy, offer, loads, preempted, data, loading, lost, report>>

-----------------------------------------------------------------------------
(* Calls of the API server, which come between those of the engine. *)

Between == pc # "schedule" \/ step = NewStep

AddRequest(r) ==
  /\ Between /\ status[r] = "new"
  /\ status' = [status EXCEPT ![r] = "waiting"]
  /\ waiting' = Append(waiting, r)
  /\ UNCHANGED <<policy, offer, loads, computed, preempted, prefilling, table, skipped, running,
                 cache, data, kvs, pc, step, out>>

AbortRequest(r) ==
  /\ Between /\ status[r] \in {"waiting", "preempted", "remote", "running"}
  /\ \A k \in DOMAIN step.entries :
       step.entries[k].req = r /\ step.entries[k].sync # {} => "abort" \in Cases
  /\ Becomes(Finish(Requests(failedRecv), {r}, {}))
  /\ out' = [out EXCEPT ![r] = "aborted"]
  /\ Removed({r})
  /\ UNCHANGED <<policy, offer, loads, computed, preempted, cache, data, loading, lost, sending,
                 report, pc, step>>

-----------------------------------------------------------------------------
EngineLoop ==
  \/ ScheduleRunning \/ PreemptForRoom
  \/ PassLoading \/ Promote \/ AdmitLoad \/ AdmitRun \/ NoRoom
  \/ Dispatch \/ Execute \/ Update

Next ==
  \/ EngineLoop
  \/ \E r \in Req : LoadFails(r) \/ LoadEnds(r) \/ SendEnds(r)
  \/ \E r \in Req : AddRequest(r) \/ AbortRequest(r)

Spec == Init /\ [][Next]_vars

(* The engine loop goes on (some action of it can always be taken); a load  *)
(* or a send that was started ends.                                         *)
FairSpec ==
  /\ Spec
  /\ []<><<EngineLoop>>_vars
  /\ \A r \in Req : WF_vars(LoadEnds(r)) /\ WF_vars(SendEnds(r))

-----------------------------------------------------------------------------
TypeOK ==
  /\ policy \in Policies /\ offer \in [Req -> Offers]
  /\ loads \in [Req -> 0..MaxLoads]
  /\ status \in [Req -> {"new", "waiting", "remote", "preempted", "running", "finished", "gone"}]
  /\ preempted \subseteq Req /\ prefilling \subseteq Req
  /\ \A r \in Req : /\ computed[r] \in 0..Len0[r]
                     /\ table[r] \in Seq(Block) /\ IsInjective(table[r])
                     /\ Len(table[r]) <= Blocks(Len0[r])
  /\ cache \in [Index -> Block \union {NoBlock}]
  /\ loading \in [Req -> SUBSET Block] /\ lost \in [Req -> SUBSET Block]
  /\ pc \in {"schedule", "flight", "output"}
  /\ IsInjective(running \o waiting \o skipped \o step.passed)

(* A client never gets a token computed from KV that was not there: however *)
(* loads fail, in whichever step and for whichever of the requests that     *)
(* share the blocks, the requests concerned are failed or recompute.        *)
OutputGood == \A r \in Req : out[r] # "bad"

(* Between steps, every block of the prefix cache holds what its hash       *)
(* promises: blocks of a load are cached only once they have arrived, and   *)
(* those that failed leave the cache.                                       *)
CacheGood ==
  pc = "schedule" /\ step = NewStep =>
    \A i \in Index : cache[i] # NoBlock => Positions(i) \subseteq data[cache[i]]

(* Blocks that a load under way writes are held for it alone and in no      *)
(* cache, also when its request was aborted; finished requests hold blocks  *)
(* only while a load, a send or the report of its end is to come.           *)
LoadTargetsHeld ==
  \A r \in Req :
    /\ loading[r] \subseteq ToSet(table[r])
    /\ loading[r] \intersect (Range(cache) \union UNION {ToSet(table[q]) : q \in Req \ {r}}) = {}
    /\ status[r] = "finished" =>
         \/ loading[r] # {} \/ r \in sending
         \/ r \in report.received \union report.sent
         \/ r \in step.kv.received \union step.kv.sent

(* A load that failed on all of its blocks leaves its request among the     *)
(* prefills under way, and what it reserves counts against its own retry:   *)
(* the comment at scheduler.py:1475 speaks of the other reservations only.  *)
HeldByOwnLoad ==
  \E r \in prefilling :
    /\ Ready(r) /\ Async(r)
    /\ ~Admits(r, Start(r), Reserved) /\ Admits(r, Start(r), Reserved - Remaining(r))

(* Loads hold blocks and cannot be preempted, and still the engine does not *)
(* block: every request that came in gets its token, its error or its       *)
(* abort, unless a retry waits for the reservation of its own failed load.  *)
EveryRequestEnds ==
  \/ <>[]HeldByOwnLoad
  \/ \A r \in Req : status[r] = "waiting" ~> out[r] # "none"
=============================================================================

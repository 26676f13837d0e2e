-------------------------- MODULE Scheduler_proofs --------------------------
(***************************************************************************)
(* Proofs about SchedulerCore for every set of requests and blocks and     *)
(* every size: the types, the queues and the budgets of a step; the tokens *)
(* in flight and the order in which the sampled ones are delivered; how    *)
(* far each request has come; the signs of the counters; and the block     *)
(* tables, with the implementation of the protocol of BlockFence.          *)
(***************************************************************************)
EXTENDS SchedulerCore, SequenceLemmas, FiniteSetTheorems

(* The sets the variables range over.                                         *)
Statuses == {"NEW", "WAITING", "RUNNING", "PREEMPTED", "FINISHED"}
Counters == [Requests -> Int]
DeferredEntry == [fence : Nat, blocks : SUBSET Blocks]
StepLocals ==
  [budget : Int, input : Int, idx : Nat \ {0}, order : Seq(Requests), n : [Requests -> Nat],
   drafts : [Requests -> Nat], ranRunning : BOOLEAN, ranPrefill : BOOLEAN,
   preempted : BOOLEAN, stop : BOOLEAN, skip : Seq(Requests)]

(* The types of the variables, but for the signs of the counters.            *)
RequestTypes ==
  /\ status \in [Requests -> Statuses]
  /\ log \in [Requests -> Seq(Int)]
  /\ computed \in Counters /\ inflight \in Counters /\ stale \in Counters
  /\ placeholders \in Counters /\ spec \in [Requests -> Nat]
  /\ drop \in [Requests -> BOOLEAN] /\ chunk \in [Requests -> BOOLEAN]
QueueTypes ==
  /\ waiting \in Seq(Requests) /\ skipped \in Seq(Requests) /\ running \in Seq(Requests)
  /\ finished \in SUBSET Requests
  /\ pause \in {"UNPAUSED", "PAUSED_NEW", "PAUSED_ALL"}
BlockTypes ==
  /\ blocks \in [Requests -> SUBSET Blocks]
  /\ deferred \in Seq(DeferredEntry)
  /\ lastSeq \in [Requests -> Nat] /\ schedSeq \in Nat /\ processedSeq \in Nat
EngineTypes ==
  /\ flight \in Seq(StepOutput) /\ cur \in StepOutput
  /\ next \in Counters
  /\ pc \in {"idle", "running", "waiting", "finish", "update", "reset"}
  /\ step \in StepLocals
  /\ resets \in Nat /\ resetFailed \in BOOLEAN
Types == RequestTypes /\ QueueTypes /\ BlockTypes /\ EngineTypes

(* The requests that wait, one queue per status, none twice.                  *)
Pending == ToSet(waiting) \union ToSet(skipped) \union ToSet(step.skip)
QueuesDistinct ==
  /\ IsInjective(waiting) /\ IsInjective(skipped) /\ IsInjective(step.skip)
  /\ IsInjective(running)
  /\ ToSet(waiting) \cap ToSet(skipped) = {}
  /\ ToSet(waiting) \cap ToSet(step.skip) = {}
  /\ ToSet(skipped) \cap ToSet(step.skip) = {}
QueuesByStatus ==
  \A r \in Requests :
    /\ r \in Pending <=> status[r] \in {"WAITING", "PREEMPTED"}
    /\ r \in ToSet(running) <=> status[r] = "RUNNING"
SkipsOnlyInWaiting == pc # "waiting" => step.skip = <<>>

(* What the step in the making holds                                         *)
StepDistinct ==
  /\ IsInjective(step.order)
  /\ \A r \in Requests : r \in ToSet(step.order) <=> step.n[r] > 0
  /\ \A r \in Requests : step.n[r] > 0 => status[r] = "RUNNING"
StepAhead ==
  /\ pc = "running" => \A i \in 1..Len(running) : i >= step.idx => step.n[running[i]] = 0
  /\ pc \notin {"running", "waiting", "finish"} => step.n = NoRequest

(* The inductive invariant.                                                   *)
QueueInv ==
  /\ Types /\ QueuesDistinct /\ QueuesByStatus /\ SkipsOnlyInWaiting
  /\ StepDistinct /\ StepAhead

-----------------------------------------------------------------------------
(* A request of least rank, or of greatest, exists in every non-empty queue.  *)
LEMMA PeekInQueue ==
  ASSUME NEW q \in Seq(Requests), q # <<>>
  PROVE  /\ Peek(q) \in ToSet(q) /\ Peek(q) \in Requests
         /\ Priority => \A o \in ToSet(q) : Rank[Peek(q)] <= Rank[o]
<1>1. Len(q) \in Nat \ {0} /\ DOMAIN q = 1..Len(q) /\ \A i \in 1..Len(q) : q[i] \in Requests
  BY LenProperties, EmptySeq, ElementOfSeq
<1>2. ToSet(q) \subseteq Requests /\ q[1] \in ToSet(q)
  BY <1>1 DEF ToSet
<1>3. CASE Priority
  <2> DEFINE T == {Rank[o] : o \in ToSet(q)}
  <2>1. T \in SUBSET Nat /\ T # {}
    BY <1>2, RequestsAssumption
  <2>2. PICK x \in T : \A y \in T : x <= y
    <3> HIDE DEF T
    <3> QED
      BY <2>1, LeastNatural
  <2>3. \E r \in ToSet(q) : \A o \in ToSet(q) : Rank[r] <= Rank[o]
    BY <2>2
  <2>4. QED
    BY <2>3, <1>2, <1>3 DEF Peek
<1>4. CASE ~Priority
  BY <1>1, <1>2, <1>4 DEF Peek
<1>5. QED
  BY <1>3, <1>4

(* The request preempted for room is a running one, whichever policy chooses  *)
(* it (scheduler.py, max(self.running, key=...) or self.running.pop()).        *)
LEMMA VictimIsRunning ==
  ASSUME running \in Seq(Requests), running # <<>>
  PROVE  /\ Victim \in ToSet(running) /\ Victim \in Requests
         /\ Last(running) \in ToSet(running) /\ Last(running) \in Requests
<1>1. /\ Len(running) \in Nat \ {0} /\ DOMAIN running = 1..Len(running)
      /\ \A i \in 1..Len(running) : running[i] \in Requests
  BY LenProperties, EmptySeq, ElementOfSeq
<1>2. /\ ToSet(running) \subseteq Requests
      /\ Last(running) \in ToSet(running)
  BY <1>1 DEF ToSet, Last
<1>3. CASE Priority
  <2> DEFINE f == [i \in 1..Len(running) |-> Rank[running[i]]]
  <2>1. f \in [1..Len(running) -> Nat]
    BY <1>1, RequestsAssumption
  <2>2. PICK m \in 1..Len(running) : \A i \in 1..Len(running) : f[i] <= f[m]
    <3> HIDE DEF f
    <3> QED
      BY <1>1, <2>1, GreatestNatural
  <2>3. \A i \in 1..Len(running) : Rank[running[m]] >= Rank[running[i]]
    BY <2>1, <2>2
  <2>4. \E r \in ToSet(running) : \A o \in ToSet(running) : Rank[r] >= Rank[o]
    BY <1>1, <2>3 DEF ToSet
  <2>5. QED
    BY <2>4, <1>2, <1>3 DEF Victim
<1>4. CASE ~Priority
  BY <1>2, <1>4 DEF Victim
<1>5. QED
  BY <1>2, <1>3, <1>4

(* What the waiting loop may pop.                                            *)
LEMMA CandidateFacts ==
  ASSUME Types, waiting \o skipped # <<>>
  PROVE  /\ Candidate \in Requests
         /\ FromSkipped => Candidate \in ToSet(skipped)
         /\ ~FromSkipped => Candidate \in ToSet(waiting)
<1>1. waiting \in Seq(Requests) /\ skipped \in Seq(Requests)
  BY DEF Types, QueueTypes
<1>2. waiting # <<>> \/ skipped # <<>>
  BY <1>1
<1>3. CASE FromSkipped
  <2>1. skipped # <<>>
    BY <1>3 DEF FromSkipped
  <2>2. QED
    BY <1>1, <1>3, <2>1, PeekInQueue DEF Candidate
<1>4. CASE ~FromSkipped
  <2>1. waiting # <<>>
    BY <1>2, <1>4 DEF FromSkipped
  <2>2. QED
    BY <1>1, <1>4, <2>1, PeekInQueue DEF Candidate
<1>5. QED
  BY <1>3, <1>4

(* The numbers of tokens.                                                    *)
LEMMA TokensAreNumbers ==
  ASSUME Types, NEW r \in Requests
  PROVE  /\ NumTokens(r) \in Int
         /\ NumNewTokens(r) \in Nat
         /\ RequestBudget \in Int
         /\ \A hit \in HitLengths(r) : hit \in Nat /\ AdmittedTokens(r, hit) \in Nat
<1> USE SizesAssumption, RequestsAssumption, CacheAssumption
<1>1. Prompt[r] \in Nat /\ Len(log[r]) \in Nat
  BY LenProperties DEF Types, RequestTypes
<1>2. NumTokens(r) \in Int
  BY <1>1 DEF NumTokens
<1>3. RequestBudget \in Int
  BY DEF RequestBudget, Least, Types, EngineTypes, StepLocals
<1>4. \A from, n \in Int : ReservePrefillLookahead(r, from, n) \in Nat
  BY <1>2 DEF ReservePrefillLookahead, AtLeastZero
<1>5. /\ \A n \in Int : Capped(n) \in Int
      /\ \A a, b \in Int : Least(a, b) \in Int
  BY DEF Capped, Least
<1>6. NumNewTokens(r) \in Nat
  <2>1. computed[r] \in Int /\ spec[r] \in Int /\ placeholders[r] \in Int
    BY DEF Types, RequestTypes, Counters
  <2>2. NumTokens(r) + spec[r] + placeholders[r] - computed[r] \in Int /\ MaxModelLen - computed[r] - 1 \in Int
    BY <2>1, <1>2
  <2>3. Least(Least(Capped(NumTokens(r) + spec[r] + placeholders[r] - computed[r]), RequestBudget),
              MaxModelLen - computed[r] - 1) \in Int
    BY <2>2, <1>3, <1>5
  <2>4. ReservePrefillLookahead(r, computed[r],
          Least(Least(Capped(NumTokens(r) + spec[r] + placeholders[r] - computed[r]),
                      RequestBudget),
                MaxModelLen - computed[r] - 1)) \in Nat
    BY <2>1, <2>3, <1>4
  <2>5. QED
    BY <2>4 DEF NumNewTokens
<1>7. ASSUME NEW hit \in HitLengths(r)
      PROVE  hit \in Nat /\ AdmittedTokens(r, hit) \in Nat
  <2>1. hit \in Nat
    BY DEF HitLengths
  <2>1a. 1 + NumSpec \in Int /\ NumTokens(r) - hit \in Int
    BY <2>1, <1>2
  <2>1b. Capped(1 + NumSpec) \in Int /\ Capped(NumTokens(r) - hit) \in Int
    BY <2>1a, <1>5
  <2>2. /\ Least(Capped(1 + NumSpec), RequestBudget) \in Int
        /\ Least(Capped(NumTokens(r) - hit), RequestBudget) \in Int
    BY <2>1b, <1>3, <1>5
  <2>3. /\ ReservePrefillLookahead(r, hit, Least(Capped(1 + NumSpec), RequestBudget)) \in Nat
        /\ ReservePrefillLookahead(r, hit, Least(Capped(NumTokens(r) - hit), RequestBudget)) \in Nat
    BY <2>1, <2>2, <1>4
  <2>4. QED
    BY <2>1, <2>3 DEF AdmittedTokens
<1>8. QED
  BY <1>2, <1>3, <1>6, <1>7

(* Removing a request leaves a queue of requests.                             *)
LEMMA WithoutType ==
  ASSUME NEW q \in Seq(Requests), NEW r \in Requests
  PROVE  Without(q, r) \in Seq(Requests)
  BY RemoveFirstIndex, RemoveAtFacts DEF Without

(* _free_request_blocks keeps the types of the block pool's variables.        *)
LEMMA FreeTypes ==
  ASSUME Types, NEW r \in Requests, FreeRequestBlocks(r)
  PROVE  BlockTypes'
<1> DEFINE e == [fence |-> schedSeq, blocks |-> blocks[r]]
<1>1. e \in DeferredEntry
  BY DEF Types, BlockTypes, DeferredEntry
<1>2. deferred' = deferred \/ deferred' = Append(deferred, e)
  BY DEF FreeRequestBlocks
<1> HIDE DEF e
<1>3. deferred' \in Seq(DeferredEntry)
  BY SMTT(30), <1>1, <1>2 DEF Types, BlockTypes
<1>4. QED
  BY <1>3 DEF Types, BlockTypes, FreeRequestBlocks

(* Finishing or aborting a request keeps the types.                           *)
LEMMA FinishTypes ==
  ASSUME Types, NEW r \in Requests, Finish(r)
  PROVE  /\ status' \in [Requests -> Statuses]
         /\ computed' \in Counters /\ inflight' \in Counters /\ stale' \in Counters
         /\ placeholders' \in Counters /\ spec' \in [Requests -> Nat]
         /\ drop' \in [Requests -> BOOLEAN] /\ chunk' \in [Requests -> BOOLEAN]
         /\ waiting' \in Seq(Requests) /\ skipped' \in Seq(Requests)
         /\ running' \in Seq(Requests) /\ finished' \in SUBSET Requests
         /\ BlockTypes'
<1>1. BlockTypes'
  BY FreeTypes DEF Finish
<1>2. waiting' \in Seq(Requests) /\ skipped' \in Seq(Requests) /\ running' \in Seq(Requests)
  BY WithoutType DEF Finish, Types, QueueTypes
<1>3. QED
  BY <1>1, <1>2 DEF Finish, Types, RequestTypes, QueueTypes, Counters, Statuses

(* _preempt_request keeps the types.                                          *)
LEMMA PreemptTypes ==
  ASSUME Types, NEW v \in Requests, NEW b \in BOOLEAN, Preempt(v, b)
  PROVE  /\ RequestTypes' /\ BlockTypes'
         /\ waiting' \in Seq(Requests) /\ skipped' \in Seq(Requests)
         /\ running' \in Seq(Requests)
<1>1. BlockTypes'
  BY FreeTypes DEF Preempt
<1>2. waiting' \in Seq(Requests) /\ skipped' \in Seq(Requests) /\ running' \in Seq(Requests)
  BY WithoutType, ConsFacts DEF Preempt, Types, QueueTypes
<1>3. DropAfter(v, b) \in BOOLEAN
  BY DEF DropAfter
<1>4. RequestTypes'
  BY <1>3 DEF Preempt, Types, RequestTypes, Counters, Statuses
<1>5. QED
  BY <1>1, <1>2, <1>4

(* Scheduling a request keeps the type of schedule()'s locals.                *)
LEMMA ScheduledTypes ==
  ASSUME Types, NEW r \in Requests, NEW n \in Nat, NEW d \in Nat
  PROVE  Scheduled(r, n, d) \in StepLocals
<1>1. Append(step.order, r) \in Seq(Requests)
  BY AppendProperties DEF Types, EngineTypes, StepLocals
<1>2. /\ step \in StepLocals /\ step.budget \in Int /\ step.input \in Int
      /\ step.n \in [Requests -> Nat] /\ step.drafts \in [Requests -> Nat]
  BY DEF Types, EngineTypes, StepLocals
<1>3. /\ step.budget - n \in Int /\ step.input - n - DraftSlots \in Int
      /\ [step.n EXCEPT ![r] = n] \in [Requests -> Nat]
      /\ [step.drafts EXCEPT ![r] = d] \in [Requests -> Nat]
  BY <1>2, SizesAssumption
<1>4. Scheduled(r, n, d) =
        [step EXCEPT !.order = Append(step.order, r), !.n = [step.n EXCEPT ![r] = n],
                     !.drafts = [step.drafts EXCEPT ![r] = d], !.budget = step.budget - n,
                     !.input = step.input - n - DraftSlots]
  BY <1>2 DEF Scheduled, StepLocals
<1> DEFINE o == Append(step.order, r)
           m == [step.n EXCEPT ![r] = n]
           e == [step.drafts EXCEPT ![r] = d]
           b == step.budget - n
           i == step.input - n - DraftSlots
<1>5. /\ o \in Seq(Requests) /\ m \in [Requests -> Nat] /\ e \in [Requests -> Nat]
      /\ b \in Int /\ i \in Int
      /\ Scheduled(r, n, d) = [step EXCEPT !.order = o, !.n = m, !.drafts = e,
                                           !.budget = b, !.input = i]
  BY <1>1, <1>3, <1>4
<1> HIDE DEF o, m, e, b, i
<1>6. QED
  BY ZenonT(30), <1>2, <1>5 DEF StepLocals

(* The request the loop over the running requests is at is one of them.       *)
LEMMA CurrentFacts ==
  ASSUME Types, InRunningLoop
  PROVE  Current \in Requests /\ step.idx \in 1..Len(running) /\ running # <<>>
<1>1. step.idx \in Nat \ {0} /\ running \in Seq(Requests)
  BY DEF Types, EngineTypes, StepLocals, QueueTypes
<1>2. step.idx \in 1..Len(running)
  BY <1>1, LenProperties DEF InRunningLoop
<1>3. QED
  BY <1>1, <1>2, ElementOfSeq, EmptySeq DEF Current

(* Arrivals, aborts, pauses and resets.                                       *)
LEMMA OutsideTypes ==
  ASSUME Types,
         \/ \E r \in Requests : AddRequest(r) \/ AbortRequest(r)
         \/ \E p \in PauseStates : SetPauseState(p)
         \/ BeginReset \/ ResetAction
  PROVE  Types'
<1> USE DEF Types, tokenVars, queueVars, blockVars, ctlVars
<1>1. ASSUME NEW r \in Requests, AddRequest(r) PROVE Types'
  <2>1. waiting' \in Seq(Requests)
    BY <1>1, AppendProperties DEF AddRequest, QueueTypes
  <2>2. QED
    BY <1>1, <2>1 DEF AddRequest, RequestTypes, QueueTypes, BlockTypes, EngineTypes, Statuses
<1>2. ASSUME NEW r \in Requests, AbortRequest(r) PROVE Types'
  BY <1>2, FinishTypes DEF AbortRequest, RequestTypes, QueueTypes, EngineTypes
<1>3. ASSUME NEW p \in PauseStates, SetPauseState(p) PROVE Types'
  BY <1>3, SwitchesAssumption DEF SetPauseState, RequestTypes, QueueTypes, BlockTypes, EngineTypes
<1>4. CASE BeginReset
  BY <1>4 DEF BeginReset, RequestTypes, QueueTypes, BlockTypes, EngineTypes
<1>5. CASE ResetOne
  <2>1. Last(running) \in Requests
    BY <1>5, VictimIsRunning DEF ResetOne, QueueTypes
  <2>2. QED
    BY <1>5, <2>1, PreemptTypes DEF ResetOne, QueueTypes, EngineTypes
<1>6. CASE EndReset
  BY <1>6 DEF EndReset, RequestTypes, QueueTypes, BlockTypes, EngineTypes
<1>7. QED
  BY <1>1, <1>2, <1>3, <1>4, <1>5, <1>6 DEF ResetAction

(* allocate_slots gives blocks to block tables.                               *)
LEMMA AllocateTypes ==
  ASSUME Types, NEW r \in Requests, NEW upto, Allocate(r, upto)
  PROVE  blocks' \in [Requests -> SUBSET Blocks]
<1>1. PICK S \in kSubset(Needed(r, upto), Free) : blocks' = [blocks EXCEPT ![r] = @ \union S]
  BY DEF Allocate
<1>2. S \in SUBSET Blocks
  BY <1>1 DEF kSubset, Free
<1>3. QED
  BY <1>1, <1>2 DEF Types, BlockTypes

(* A step with one of its fields replaced.                                   *)
LEMMA StepWith ==
  ASSUME NEW s \in StepLocals
  PROVE  /\ \A i \in Nat \ {0} : [s EXCEPT !.idx = i] \in StepLocals
         /\ \A b \in BOOLEAN : /\ [s EXCEPT !.stop = b] \in StepLocals
                              /\ [s EXCEPT !.preempted = b] \in StepLocals
                              /\ [s EXCEPT !.ranRunning = b] \in StepLocals
                              /\ [s EXCEPT !.ranPrefill = b] \in StepLocals
         /\ \A q \in Seq(Requests) : [s EXCEPT !.skip = q] \in StepLocals
  BY DEF StepLocals

(* The types of schedule()'s locals, one by one.                              *)
LEMMA StepFieldTypes ==
  ASSUME Types
  PROVE  /\ step \in StepLocals
         /\ step.budget \in Int /\ step.input \in Int /\ step.idx \in Nat \ {0}
         /\ step.order \in Seq(Requests) /\ step.skip \in Seq(Requests)
         /\ step.n \in [Requests -> Nat] /\ step.drafts \in [Requests -> Nat]
         /\ step.ranRunning \in BOOLEAN /\ step.ranPrefill \in BOOLEAN
         /\ step.preempted \in BOOLEAN /\ step.stop \in BOOLEAN
  BY DEF Types, EngineTypes, StepLocals

(* Taking a preempted request's tokens back keeps the type of the locals.     *)
LEMMA TakenBackTypes ==
  ASSUME Types, NEW v \in Requests
  PROVE  TakenBack(v) \in StepLocals
<1> DEFINE o == Without(step.order, v)
           m == [step.n EXCEPT ![v] = 0]
           d == [step.drafts EXCEPT ![v] = 0]
           b == step.budget + step.n[v]
           i == IF step.n[v] > 0 THEN step.input + step.n[v] + DraftSlots ELSE step.input
           p == \E q \in ToSet(step.order) : q # v
<1>1. /\ step \in StepLocals
      /\ o \in Seq(Requests) /\ m \in [Requests -> Nat] /\ d \in [Requests -> Nat]
      /\ b \in Int /\ i \in Int /\ p \in BOOLEAN
  <2>1. step \in StepLocals /\ o \in Seq(Requests)
    BY StepFieldTypes, WithoutType
  <2>2. step.n[v] \in Nat /\ step.budget \in Int /\ step.input \in Int
    BY StepFieldTypes
  <2>3. b \in Int /\ i \in Int
    BY <2>2, SizesAssumption
  <2>4. m \in [Requests -> Nat] /\ d \in [Requests -> Nat]
    BY StepFieldTypes
  <2>5. QED
    BY <2>1, <2>3, <2>4
<1>2. TakenBack(v) = [step EXCEPT !.order = o, !.n = m, !.drafts = d, !.budget = b,
                                  !.input = i, !.ranRunning = p]
  BY <1>1 DEF TakenBack, StepLocals
<1> HIDE DEF o, m, d, b, i, p
<1>3. QED
  BY ZenonT(30), <1>1, <1>2 DEF StepLocals

(* The number of draft tokens scheduled with a running request is a natural.  *)
LEMMA DraftsAreNumbers ==
  ASSUME Types, NEW r \in Requests
  PROVE  AtLeastZero(Least(spec[r], NumNewTokens(r) + computed[r] - NumTokens(r)
                                      - placeholders[r])) \in Nat
  BY TokensAreNumbers DEF AtLeastZero, Least, Types, RequestTypes, Counters

(* The running loop.                                                         *)
LEMMA RunningTypes ==
  ASSUME Types, SkipRunning \/ ScheduleRunning \/ PreemptForRoom \/ EndRunningLoop
  PROVE  Types'
<1> USE DEF tokenVars, queueVars, blockVars, ctlVars
<1>1. CASE SkipRunning
  <2>1. step' \in StepLocals
    <3>1. step \in StepLocals /\ step.idx + 1 \in Nat \ {0}
      BY StepFieldTypes
    <3>2. step' = [step EXCEPT !.idx = step.idx + 1]
      BY <1>1 DEF SkipRunning
    <3>3. QED
      BY <3>1, <3>2, StepWith
  <2>2. QED
    BY <1>1, <2>1
      DEF SkipRunning, Types, RequestTypes, QueueTypes, BlockTypes, EngineTypes
<1>2. CASE ScheduleRunning
  <2> DEFINE r == Current
             n == NumNewTokens(r)
             d == AtLeastZero(Least(spec[r], n + computed[r] - NumTokens(r) - placeholders[r]))
  <2>1. r \in Requests
    BY <1>2, CurrentFacts DEF ScheduleRunning
  <2>2. n \in Nat /\ d \in Nat
    BY <2>1, TokensAreNumbers, DraftsAreNumbers
  <2>3. /\ Allocate(r, computed[r] + n)
        /\ step' = [Scheduled(r, n, d) EXCEPT !.idx = @ + 1, !.ranRunning = TRUE,
                                              !.ranPrefill = @ \/ chunk[r]]
        /\ spec' = [spec EXCEPT ![r] = 0]
        /\ UNCHANGED <<status, log, computed, inflight, stale, drop, placeholders, chunk,
                 queueVars, finished, deferred, lastSeq, schedSeq, processedSeq, flight,
                 next, pc, cur, ctlVars>>
    BY <1>2 DEF ScheduleRunning
  <2>4. Scheduled(r, n, d) \in StepLocals
    BY <2>1, <2>2, ScheduledTypes
  <2> HIDE DEF r, n, d
  <2>5. step' \in StepLocals
    <3> DEFINE s == Scheduled(r, n, d)
               s1 == [s EXCEPT !.idx = s.idx + 1]
               s2 == [s1 EXCEPT !.ranRunning = TRUE]
    <3>1. chunk[r] \in BOOLEAN
      BY <2>1 DEF Types, RequestTypes
    <3>2. s \in StepLocals /\ s.idx + 1 \in Nat \ {0} /\ (s.ranPrefill \/ chunk[r]) \in BOOLEAN
      BY <2>4 DEF StepLocals
    <3>3. step' = [s EXCEPT !.idx = s.idx + 1, !.ranRunning = TRUE,
                            !.ranPrefill = s.ranPrefill \/ chunk[r]]
      BY <2>3
    <3> HIDE DEF s
    <3>4. s1 \in StepLocals
      BY <3>2, StepWith
    <3>5. s2 \in StepLocals
      <4> HIDE DEF s1
      <4> QED
        BY <3>4, StepWith
    <3>6. [s2 EXCEPT !.ranPrefill = s.ranPrefill \/ chunk[r]] \in StepLocals
      <4> HIDE DEF s2
      <4> QED
        BY <3>2, <3>5, StepWith
    <3>7. QED
      BY <3>2, <3>3, <3>6 DEF StepLocals
  <2>6. blocks' \in [Requests -> SUBSET Blocks]
    BY <2>1, <2>3, AllocateTypes
  <2>7. QED
    BY <2>1, <2>3, <2>5, <2>6
      DEF Types, RequestTypes, QueueTypes, BlockTypes, EngineTypes, Counters
<1>3. CASE PreemptForRoom
  <2> DEFINE v == Victim
             at == CHOOSE i \in DOMAIN running : running[i] = v
  <2>1. v \in Requests /\ v \in ToSet(running)
    BY <1>3, CurrentFacts, VictimIsRunning DEF PreemptForRoom, Types, QueueTypes
  <2>2. /\ Preempt(v, DropOnPreempt)
        /\ step' = [TakenBack(v) EXCEPT !.preempted = TRUE, !.stop = (v = Current),
                                         !.idx = IF at < @ THEN @ - 1 ELSE @]
        /\ UNCHANGED <<finished, flight, next, pc, cur, ctlVars>>
    BY <1>3 DEF PreemptForRoom
  <2>3. at \in Nat \ {0}
    <3>1. \E i \in DOMAIN running : running[i] = v
      BY <2>1 DEF ToSet
    <3>2. at \in DOMAIN running
      BY <3>1
    <3>3. running \in Seq(Requests)
      BY DEF Types, QueueTypes
    <3> HIDE DEF at
    <3>4. QED
      BY <3>2, <3>3, LenProperties
  <2> HIDE DEF v, at
  <2>4. step' \in StepLocals
    <3> DEFINE s == TakenBack(v)
               k == IF at < s.idx THEN s.idx - 1 ELSE s.idx
               s1 == [s EXCEPT !.preempted = TRUE]
               s2 == [s1 EXCEPT !.stop = (v = Current)]
    <3>1. s \in StepLocals
      BY <2>1, TakenBackTypes
    <3>2. step' = [s EXCEPT !.preempted = TRUE, !.stop = (v = Current), !.idx = k]
      BY <2>2
    <3>3. k \in Nat \ {0} /\ (v = Current) \in BOOLEAN
      <4>1. s.idx \in Nat \ {0}
        BY <3>1 DEF StepLocals
      <4> HIDE DEF s
      <4>2. QED
        BY <2>3, <4>1
    <3> HIDE DEF s, k
    <3>4. s1 \in StepLocals
      BY <3>1, StepWith
    <3>5. s2 \in StepLocals
      <4> HIDE DEF s1
      <4> QED
        BY <3>3, <3>4, StepWith
    <3>6. [s2 EXCEPT !.idx = k] \in StepLocals
      <4> HIDE DEF s2
      <4> QED
        BY <3>3, <3>5, StepWith
    <3>7. QED
      BY <3>1, <3>2, <3>6 DEF StepLocals
  <2>5. QED
    BY <2>1, <2>2, <2>4, PreemptTypes, SwitchesAssumption
      DEF Types, QueueTypes, EngineTypes
<1>4. CASE EndRunningLoop
  <2>1. step' \in StepLocals
    BY <1>4, StepFieldTypes, StepWith DEF EndRunningLoop
  <2>2. QED
    BY <1>4, <2>1
      DEF EndRunningLoop, Types, RequestTypes, QueueTypes, BlockTypes, EngineTypes
<1>5. QED
  BY <1>1, <1>2, <1>3, <1>4

(* The waiting loop.                                                         *)
LEMMA PopTypes ==
  ASSUME Types, waiting \o skipped # <<>>, PopCandidate
  PROVE  waiting' \in Seq(Requests) /\ skipped' \in Seq(Requests)
  BY CandidateFacts, WithoutType DEF PopCandidate, Types, QueueTypes

(* The steps of the loop over the waiting queues keep the types.              *)
LEMMA WaitingTypes ==
  ASSUME Types, SkipUndelivered \/ Admit \/ StopAdmitting \/ EndWaitingLoop
  PROVE  Types'
<1> USE DEF tokenVars, queueVars, blockVars, ctlVars
<1>1. CASE SkipUndelivered
  <2>1. Candidate \in Requests
    BY <1>1, CandidateFacts DEF SkipUndelivered, InWaitingLoop
  <2>2. step' \in StepLocals
    <3>1. Append(step.skip, Candidate) \in Seq(Requests)
      BY <2>1, StepFieldTypes, AppendProperties
    <3>2. step' = [step EXCEPT !.skip = Append(step.skip, Candidate)]
      BY <1>1 DEF SkipUndelivered
    <3>3. QED
      BY <3>1, <3>2, StepFieldTypes, StepWith
  <2>3. waiting' \in Seq(Requests) /\ skipped' \in Seq(Requests)
    BY <1>1, PopTypes DEF SkipUndelivered, InWaitingLoop
  <2>4. QED
    BY <1>1, <2>2, <2>3
      DEF SkipUndelivered, Types, RequestTypes, QueueTypes, BlockTypes, EngineTypes
<1>2. CASE Admit
  <2> DEFINE r == Candidate
  <2>1. r \in Requests /\ waiting' \in Seq(Requests) /\ skipped' \in Seq(Requests)
    BY <1>2, CandidateFacts, PopTypes DEF Admit, InWaitingLoop
  <2>2. PICK hit \in HitLengths(r) :
          /\ Allocate(r, hit + AdmittedTokens(r, hit))
          /\ computed' = [computed EXCEPT ![r] = hit]
          /\ step' = Scheduled(r, AdmittedTokens(r, hit), IF Padded(r, hit) THEN NumSpec ELSE 0)
          /\ status' = [status EXCEPT ![r] = "RUNNING"]
          /\ running' = Append(running, r)
    BY <1>2 DEF Admit
  <2> HIDE DEF r
  <2>3. hit \in Nat /\ AdmittedTokens(r, hit) \in Nat
    BY <2>1, TokensAreNumbers
  <2>4. step' \in StepLocals
    BY <2>1, <2>2, <2>3, ScheduledTypes, SizesAssumption
  <2>5. running' \in Seq(Requests) /\ blocks' \in [Requests -> SUBSET Blocks]
    BY <2>1, <2>2, AllocateTypes, AppendProperties DEF Types, QueueTypes
  <2>6. RequestTypes'
    <3>1. status' \in [Requests -> Statuses]
      BY <2>1, <2>2 DEF Types, RequestTypes, Statuses
    <3>2. computed' \in Counters
      BY <2>1, <2>2, <2>3 DEF Types, RequestTypes, Counters
    <3>3. QED
      BY <1>2, <3>1, <3>2 DEF Admit, Types, RequestTypes
  <2>7. QED
    BY <1>2, <2>1, <2>4, <2>5, <2>6 DEF Admit, Types, QueueTypes, BlockTypes, EngineTypes
<1>3. CASE StopAdmitting
  <2>1. step' \in StepLocals
    <3>1. step \in StepLocals /\ TRUE \in BOOLEAN /\ <<>> \in Seq(Requests)
      BY StepFieldTypes
    <3>2. step' = [step EXCEPT !.stop = TRUE]
      BY <1>3 DEF StopAdmitting
    <3>3. QED
      BY <3>1, <3>2, StepWith
  <2>2. QED
    BY <1>3, <2>1
      DEF StopAdmitting, Types, RequestTypes, QueueTypes, BlockTypes, EngineTypes
<1>4. CASE EndWaitingLoop
  <2>1. step' \in StepLocals
    <3>1. step \in StepLocals /\ TRUE \in BOOLEAN /\ <<>> \in Seq(Requests)
      BY StepFieldTypes
    <3>2. step' = [step EXCEPT !.skip = <<>>]
      BY <1>4 DEF EndWaitingLoop
    <3>3. QED
      BY <3>1, <3>2, StepWith
  <2>2. skipped' \in Seq(Requests)
    BY <1>4, StepFieldTypes, ConcatProperties DEF EndWaitingLoop, Requeued, Types, QueueTypes
  <2>3. QED
    BY <1>4, <2>1, <2>2
      DEF EndWaitingLoop, Types, RequestTypes, QueueTypes, BlockTypes, EngineTypes
<1>5. QED
  BY <1>1, <1>2, <1>3, <1>4

(* The end of schedule().                                                    *)
LEMMA EndScheduleTypes ==
  ASSUME Types, EndSchedule
  PROVE  Types'
<1> DEFINE Ran(r) == step.n[r] > 0
           nonEmpty == step.order # <<>>
           done == [r \in Requests |-> computed[r] + step.n[r]]
           stillPrefill == [r \in Requests |->
             IF Ran(r) THEN done[r] < NumTokens(r) + placeholders[r] ELSE chunk[r]]
           samples == {r \in Requests : Ran(r) /\ ~stillPrefill[r]}
           seq == IF DeferFree /\ nonEmpty THEN schedSeq + 1 ELSE schedSeq
           at == [r \in Requests |->
                    IF r \in samples
                      THEN IF placeholders[r] = 0 THEN NumTokens(r) ELSE 0
                      ELSE -1]
           writes == [r \in Requests |-> IF Ran(r) THEN blocks[r] ELSE {}]
           output == [order |-> step.order, n |-> step.n, drafts |-> step.drafts,
                      pos |-> at, writes |-> writes]
<1>1. /\ computed' = done
      /\ inflight' = [r \in Requests |-> inflight[r] + step.n[r]]
      /\ chunk' = stillPrefill
      /\ placeholders' = [r \in Requests |->
           IF r \in samples THEN placeholders[r] + 1 + step.drafts[r]
           ELSE placeholders[r]]
      /\ spec' = [r \in Requests |-> IF r \in samples THEN NumSpec ELSE spec[r]]
      /\ schedSeq' = seq
      /\ lastSeq' = [r \in Requests |-> IF DeferFree /\ Ran(r) THEN seq ELSE lastSeq[r]]
      /\ flight' = IF nonEmpty THEN Append(flight, output) ELSE flight
      /\ finished' = {}
      /\ pc' = "idle" /\ step' = NoStep
      /\ UNCHANGED <<status, log, stale, drop, queueVars, blocks, deferred, processedSeq,
                     next, cur, ctlVars>>
  BY DEF EndSchedule
<1>2. /\ step.order \in Seq(Requests)
      /\ step.n \in [Requests -> Nat] /\ step.drafts \in [Requests -> Nat]
  BY StepFieldTypes
<1>3. /\ computed \in [Requests -> Int] /\ inflight \in [Requests -> Int]
      /\ placeholders \in [Requests -> Int] /\ spec \in [Requests -> Nat]
      /\ chunk \in [Requests -> BOOLEAN] /\ blocks \in [Requests -> SUBSET Blocks]
      /\ lastSeq \in [Requests -> Nat] /\ schedSeq \in Nat
  BY DEF Types, RequestTypes, BlockTypes, Counters
<1>4. \A r \in Requests : NumTokens(r) \in Int
  BY TokensAreNumbers
<1>5. done \in [Requests -> Int] /\ inflight' \in [Requests -> Int]
  <2>1. \A r \in Requests : computed[r] + step.n[r] \in Int /\ inflight[r] + step.n[r] \in Int
    BY <1>2, <1>3
  <2>2. QED
    BY <1>1, <2>1
<1>6. stillPrefill \in [Requests -> BOOLEAN]
  <2>1. \A r \in Requests :
          (IF Ran(r) THEN done[r] < NumTokens(r) + placeholders[r] ELSE chunk[r]) \in BOOLEAN
    <3> HIDE DEF done
    <3>1. TAKE r \in Requests
    <3>2. CASE Ran(r)
      <4>1. (done[r] < NumTokens(r) + placeholders[r]) \in BOOLEAN
        OBVIOUS
      <4> HIDE DEF Ran
      <4>2. QED
        BY <3>2, <4>1
    <3>3. CASE ~Ran(r)
      <4>1. chunk[r] \in BOOLEAN
        BY <1>3
      <4> HIDE DEF Ran
      <4>2. QED
        BY <3>3, <4>1
    <3>4. QED
      BY <3>2, <3>3
  <2>2. QED
    BY <2>1
<1> HIDE DEF stillPrefill
<1>7. samples \in SUBSET Requests
  OBVIOUS
<1> HIDE DEF samples
<1>8. placeholders' \in [Requests -> Int] /\ spec' \in [Requests -> Nat]
  <2>1. \A r \in Requests : /\ placeholders[r] + 1 + step.drafts[r] \in Int
                            /\ placeholders[r] \in Int
    BY <1>2, <1>3
  <2>2. QED
    BY <1>1, <1>3, <2>1, SizesAssumption
<1>9. at \in [Requests -> Int] /\ writes \in [Requests -> SUBSET Blocks]
  BY <1>3, <1>4
<1>10. seq \in Nat /\ lastSeq' \in [Requests -> Nat]
  BY <1>1, <1>3
<1> HIDE DEF at, writes, seq, done
<1>11. output \in StepOutput
  BY <1>2, <1>9 DEF StepOutput
<1> HIDE DEF output
<1>12. flight' \in Seq(StepOutput)
  BY <1>1, <1>11, AppendProperties DEF Types, EngineTypes
<1>13. NoStep \in StepLocals
  BY DEF NoStep, NoRequest, StepLocals
<1>14. RequestTypes'
  BY <1>1, <1>5, <1>6, <1>8 DEF Types, RequestTypes, Counters
<1>15. QueueTypes' /\ BlockTypes'
  BY <1>1, <1>10 DEF Types, QueueTypes, BlockTypes, queueVars, ctlVars
<1>16. EngineTypes'
  BY <1>1, <1>12, <1>13 DEF Types, EngineTypes, ctlVars
<1>17. QED
  BY <1>14, <1>15, <1>16 DEF Types

(* Output processing.                                                        *)
LEMMA DrainedFacts ==
  ASSUME Types, NEW p \in Nat
  PROVE  \E k \in 0..Len(deferred) :
           /\ Drained(p) = SubSeq(deferred, k + 1, Len(deferred))
           /\ \A i \in 1..k : deferred[i].fence <= p
           /\ k < Len(deferred) => deferred[k + 1].fence > p
<1> DEFINE n == Len(deferred)
           K(k) == /\ \A i \in 1..k : deferred[i].fence <= p
                   /\ k < n => deferred[k + 1].fence > p
           T == {k \in 0..n : k < n => deferred[k + 1].fence > p}
<1>1. n \in Nat /\ \A i \in 1..n : deferred[i].fence \in Nat
  <2>1. deferred \in Seq(DeferredEntry)
    BY DEF Types, BlockTypes
  <2>2. n \in Nat /\ \A i \in 1..n : deferred[i] \in DeferredEntry
    BY <2>1, LenProperties, ElementOfSeq
  <2>3. QED
    BY <2>2 DEF DeferredEntry
<1>2. \E k \in T : \A y \in T : k <= y
  <2>1. T \in SUBSET Nat /\ T # {}
    <3>1. n \in T
      BY <1>1
    <3>2. QED
      BY <1>1, <3>1
  <2> HIDE DEF T
  <2>2. QED
    BY <2>1, LeastNatural
<1>3. PICK k \in T : \A y \in T : k <= y
  BY <1>2
<1>4. \A i \in 1..k : deferred[i].fence <= p
  <2>1. SUFFICES ASSUME NEW i \in 1..k, deferred[i].fence > p PROVE FALSE
    BY <1>1
  <2>2. i - 1 \in 0..n /\ (i - 1) + 1 = i /\ i - 1 < k
    BY <1>1
  <2>3. i - 1 \in T
    BY <2>1, <2>2
  <2>4. k <= i - 1
    BY <1>3, <2>3
  <2>5. QED
    BY <1>1, <2>2, <2>4
<1>5. \E j \in 0..n : K(j)
  BY <1>3, <1>4
<1>6. DEFINE c == CHOOSE j \in 0..n : K(j)
<1>7. c \in 0..n /\ K(c)
  BY <1>5
<1>8. Drained(p) = SubSeq(deferred, c + 1, n)
  BY DEF Drained
<1> HIDE DEF c
<1>9. QED
  BY <1>7, <1>8

(* The request update_from_output() is at, and its fields of the output.      *)
LEMMA ReturnedFacts ==
  ASSUME Types, InUpdateLoop
  PROVE  /\ Returned \in Requests /\ cur.n[Returned] \in Nat
         /\ cur.drafts[Returned] \in Nat /\ cur.pos[Returned] \in Int
         /\ SampledFrom(Returned) \in Int
         /\ Tail(cur.order) \in Seq(Requests)
         /\ [cur EXCEPT !.order = Tail(cur.order)] \in StepOutput
<1>1. /\ cur \in StepOutput /\ cur.order \in Seq(Requests) /\ cur.order # <<>>
      /\ cur.n \in [Requests -> Nat] /\ cur.drafts \in [Requests -> Nat]
      /\ cur.pos \in [Requests -> Int] /\ next \in [Requests -> Int]
  BY DEF Types, EngineTypes, StepOutput, InUpdateLoop, Counters
<1>2. Returned \in Requests /\ Tail(cur.order) \in Seq(Requests)
  BY <1>1, HeadTailProperties DEF Returned
<1>3. [cur EXCEPT !.order = Tail(cur.order)] \in StepOutput
  BY <1>1, <1>2 DEF StepOutput
<1>4. SampledFrom(Returned) \in Int
  BY <1>1, <1>2 DEF SampledFrom
<1>5. QED
  BY <1>1, <1>2, <1>3, <1>4

(* Appending sampled tokens keeps the type of the logs.                       *)
LEMMA AppendedType ==
  ASSUME Types, InUpdateLoop, NEW d \in Nat, Appended(Returned, d)
  PROVE  log' \in [Requests -> Seq(Int)]
<1> DEFINE r == Returned
           more == [i \in 1..d |-> SampledFrom(r) + i - 1]
<1>1. r \in Requests /\ SampledFrom(r) \in Int
  BY ReturnedFacts
<1>2. more \in Seq(Int)
  BY <1>1
<1>3. log' = [log EXCEPT ![r] = log[r] \o more]
  BY DEF Appended
<1> HIDE DEF more, r
<1>4. log \in [Requests -> Seq(Int)] /\ log[r] \in Seq(Int)
  BY <1>1 DEF Types, RequestTypes
<1>5. log[r] \o more \in Seq(Int)
  BY <1>2, <1>4, ConcatProperties
<1>6. QED
  BY <1>3, <1>4, <1>5

(* The steps of update_from_output() keep the types.                          *)
LEMMA UpdateTypes ==
  ASSUME Types, BeginUpdate \/ UpdateAction
  PROVE  Types'
<1> USE DEF tokenVars, queueVars, blockVars, ctlVars
<1>1. CASE BeginUpdate
  <2>1. flight \in Seq(StepOutput) /\ flight # <<>>
    BY <1>1 DEF BeginUpdate, Types, EngineTypes
  <2>2. cur' \in StepOutput /\ flight' \in Seq(StepOutput)
    BY <1>1, <2>1, HeadTailProperties DEF BeginUpdate
  <2>3. processedSeq' \in Nat /\ deferred' \in Seq(DeferredEntry)
    <3>1. processedSeq + 1 \in Nat /\ processedSeq \in Nat /\ deferred \in Seq(DeferredEntry)
      BY DEF Types, BlockTypes
    <3>2. \E k \in 0..Len(deferred) :
            Drained(processedSeq + 1) = SubSeq(deferred, k + 1, Len(deferred))
      BY <3>1, DrainedFacts
    <3>3. Drained(processedSeq + 1) \in Seq(DeferredEntry)
      <4>1. PICK k \in 0..Len(deferred) :
              Drained(processedSeq + 1) = SubSeq(deferred, k + 1, Len(deferred))
        BY <3>2
      <4>2. /\ k + 1 \in Int /\ Len(deferred) \in Int
            /\ \A i \in (k + 1)..Len(deferred) : deferred[i] \in DeferredEntry
        BY <3>1, LenProperties, ElementOfSeq
      <4>3. QED
        BY <4>1, <4>2, SubSeqProperties
    <3>4. QED
      BY <1>1, <3>1, <3>3 DEF BeginUpdate
  <2>4. QED
    BY <1>1, <2>2, <2>3
      DEF BeginUpdate, Types, RequestTypes, QueueTypes, BlockTypes, EngineTypes
<1>2. CASE OutputOfFinished
  <2>1. cur' \in StepOutput
    BY <1>2, ReturnedFacts DEF OutputOfFinished, RestOfOutput
  <2>2. QED
    BY <1>2, <2>1
      DEF OutputOfFinished, Types, RequestTypes, QueueTypes, BlockTypes, EngineTypes
<1>3. CASE OutputWithoutTokens
  <2> DEFINE r == Returned
  <2>1. /\ cur' \in StepOutput /\ r \in Requests /\ cur.n[r] \in Nat
        /\ SampledFrom(r) \in Int /\ cur.drafts[r] \in Nat
    BY <1>3, ReturnedFacts DEF OutputWithoutTokens, RestOfOutput
  <2>2. inflight' \in Counters /\ stale' \in Counters
    BY <1>3, <2>1 DEF OutputWithoutTokens, DrainCounts, Types, RequestTypes, Counters
  <2>3. next' \in Counters
    BY <1>3, <2>1 DEF OutputWithoutTokens, WorkerAdvances, Types, EngineTypes, Counters
  <2>4. QED
    BY <1>3, <2>1, <2>2, <2>3
      DEF OutputWithoutTokens, Types, RequestTypes, QueueTypes, BlockTypes, EngineTypes
<1>4. CASE DeliverTokens
  <2> DEFINE r == Returned
  <2>1. /\ cur' \in StepOutput /\ r \in Requests /\ cur.n[r] \in Nat
        /\ SampledFrom(r) \in Int /\ cur.drafts[r] \in Nat
    BY <1>4, ReturnedFacts DEF DeliverTokens, RestOfOutput
  <2>2. PICK g \in 1..(1 + cur.drafts[r]) :
         /\ Appended(r, g) /\ WorkerAdvances(r, g)
         /\ computed' = [computed EXCEPT ![r] = RolledBack(r, 1 + cur.drafts[r] - g)]
         /\ placeholders' =
              [placeholders EXCEPT ![r] = PlaceholdersAfter(r, 1 + cur.drafts[r] - g, g)]
         /\ DrainCounts(r)
    BY <1>4 DEF DeliverTokens
  <2>3. g \in Nat /\ InUpdateLoop /\ 1 + cur.drafts[r] - g \in Int
    BY <1>4, <2>1 DEF DeliverTokens
  <2>4. log' \in [Requests -> Seq(Int)]
    BY <2>2, <2>3, AppendedType
  <2> HIDE DEF r
  <2>5. inflight' \in Counters /\ stale' \in Counters
    <3>1. inflight[r] \in Int /\ stale[r] \in Int
      BY <2>1 DEF Types, RequestTypes, Counters
    <3>2. inflight[r] - cur.n[r] \in Int /\ stale[r] - cur.n[r] \in Int
      BY <2>1, <3>1
    <3>3. QED
      BY <2>2, <3>1, <3>2 DEF DrainCounts, Types, RequestTypes, Counters
  <2>6. next' \in Counters
    BY <2>1, <2>2 DEF WorkerAdvances, Types, EngineTypes, Counters
  <2>7. computed' \in Counters /\ placeholders' \in Counters
    <3>1. computed[r] \in Int /\ placeholders[r] \in Int
      BY <2>1 DEF Types, RequestTypes, Counters
    <3>2. /\ RolledBack(r, 1 + cur.drafts[r] - g) \in Int
          /\ PlaceholdersAfter(r, 1 + cur.drafts[r] - g, g) \in Int
      BY <2>3, <3>1 DEF RolledBack, PlaceholdersAfter
    <3>3. QED
      BY <2>2, <3>2 DEF Types, RequestTypes, Counters
  <2>8. QED
    BY <1>4, <2>1, <2>4, <2>5, <2>6, <2>7
      DEF DeliverTokens, Types, RequestTypes, QueueTypes, BlockTypes, EngineTypes
<1>5. CASE DeliverAndStop
  <2> DEFINE r == Returned
  <2>1. /\ cur' \in StepOutput /\ r \in Requests
        /\ SampledFrom(r) \in Int /\ cur.drafts[r] \in Nat
    BY <1>5, ReturnedFacts DEF DeliverAndStop, RestOfOutput
  <2>2a. PICK g \in 1..(1 + cur.drafts[r]) :
           \E d \in 1..g : Appended(r, d) /\ WorkerAdvances(r, g) /\ Finish(r)
    BY <1>5 DEF DeliverAndStop
  <2>2. PICK d \in 1..g : Appended(r, d) /\ WorkerAdvances(r, g) /\ Finish(r)
    BY <2>2a
  <2>3. g \in Nat /\ d \in Nat /\ InUpdateLoop
    BY <1>5, <2>1 DEF DeliverAndStop
  <2>4. log' \in [Requests -> Seq(Int)]
    BY <2>2, <2>3, AppendedType
  <2> HIDE DEF r
  <2>5. next' \in Counters
    BY <2>1, <2>2, <2>3 DEF WorkerAdvances, Types, EngineTypes, Counters
  <2>6. QED
    BY <1>5, <2>1, <2>2, <2>4, <2>5, FinishTypes
      DEF DeliverAndStop, Types, RequestTypes, QueueTypes, EngineTypes
<1>6. CASE EndUpdate
  <2>1. NoOutput \in StepOutput
    BY DEF NoOutput, NoRequest, StepOutput
  <2>2. QED
    BY <1>6, <2>1 DEF EndUpdate, Types, RequestTypes, QueueTypes, BlockTypes, EngineTypes
<1>7. QED
  BY <1>1, <1>2, <1>3, <1>4, <1>5, <1>6 DEF UpdateAction

(* The types hold initially.                                                  *)
LEMMA InitTypes == Init => Types
<1>1. NoStep \in StepLocals /\ NoOutput \in StepOutput
  BY DEF NoStep, NoOutput, NoRequest, StepLocals, StepOutput
<1>2. NoRequest \in [Requests -> Nat] /\ NoRequest \in Counters
  BY DEF NoRequest, Counters
<1>3. Init => RequestTypes
  BY <1>2 DEF Init, RequestTypes, Statuses
<1>4. Init => QueueTypes /\ BlockTypes
  BY <1>2 DEF Init, QueueTypes, BlockTypes
<1>5. Init => EngineTypes
  <2>1. Init => step \in StepLocals /\ cur \in StepOutput /\ flight \in Seq(StepOutput)
    BY <1>1 DEF Init
  <2>2. Init => next \in Counters /\ resets \in Nat /\ pc = "idle"
    BY <1>2 DEF Init
  <2>3. Init => resetFailed \in BOOLEAN
    BY DEF Init
  <2>4. QED
    BY <2>1, <2>2, <2>3 DEF EngineTypes
<1>6. QED
  BY <1>3, <1>4, <1>5 DEF Types

(* Every step keeps the types.                                                *)
LEMMA NextTypes == Types /\ [Next]_vars => Types'
<1> SUFFICES ASSUME Types, [Next]_vars PROVE Types'
  OBVIOUS
<1>1. CASE UNCHANGED vars
  BY <1>1 DEF vars, tokenVars, queueVars, blockVars, ctlVars, Types, RequestTypes,
              QueueTypes, BlockTypes, EngineTypes
<1>2. CASE BeginSchedule
  <2>1. step' \in StepLocals
    <3>1. (IF pause = "PAUSED_ALL" THEN 0 ELSE TokenBudget) \in Int /\ InputBudget \in Int
      BY SizesAssumption
    <3>2. NoStep \in StepLocals
      BY DEF NoStep, NoRequest, StepLocals
    <3>3. QED
      BY <1>2, <3>1, <3>2 DEF BeginSchedule, StepLocals
  <2>2. QED
    BY <1>2, <2>1 DEF BeginSchedule, tokenVars, queueVars, blockVars, ctlVars, Types,
                      RequestTypes, QueueTypes, BlockTypes, EngineTypes
<1>3. QED
  BY <1>1, <1>2, OutsideTypes, RunningTypes, WaitingTypes, EndScheduleTypes, UpdateTypes
    DEF Next, ScheduleAction

-----------------------------------------------------------------------------
(* What QueueInv says, piece by piece.                                       *)
LEMMA QueueFacts ==
  ASSUME QueueInv
  PROVE  /\ Types
         /\ waiting \in Seq(Requests) /\ skipped \in Seq(Requests)
         /\ running \in Seq(Requests) /\ step.skip \in Seq(Requests)
         /\ status \in [Requests -> Statuses]
         /\ step.order \in Seq(Requests) /\ step.n \in [Requests -> Nat]
         /\ step.idx \in Nat \ {0}
<1>1. Types
  BY DEF QueueInv
<1>2. QED
  BY <1>1, StepFieldTypes DEF Types, QueueTypes, RequestTypes

(* An empty queue holds nothing.                                              *)
LEMMA EmptySets == ToSet(<<>>) = {} /\ IsInjective(<<>>)
  BY DEF ToSet, IsInjective

(* Outside schedule() no request has tokens in the step and none is set       *)
(* aside.                                                                     *)
LEMMA NothingTaken ==
  ASSUME QueueInv, pc \notin {"running", "waiting", "finish"}
  PROVE  /\ \A r \in Requests : step.n[r] = 0
         /\ step.skip = <<>>
  BY DEF QueueInv, StepAhead, SkipsOnlyInWaiting, NoRequest

(* Steps that move no request between the queues.                             *)
LEMMA QueuesUnchanged ==
  ASSUME QueueInv, UNCHANGED <<status, queueVars>>, step'.skip = step.skip
  PROVE  QueuesDistinct' /\ QueuesByStatus'
  BY DEF QueueInv, QueuesDistinct, QueuesByStatus, Pending, queueVars

(* Finishing a request keeps the queues apart and true to the statuses.       *)
LEMMA FinishQueues ==
  ASSUME QueueInv, NEW r \in Requests, Alive(r), Finish(r), UNCHANGED step,
         pc \notin {"running", "waiting", "finish"}
  PROVE  QueuesDistinct' /\ QueuesByStatus' /\ StepDistinct'
<1>1. /\ waiting \in Seq(Requests) /\ skipped \in Seq(Requests)
      /\ running \in Seq(Requests) /\ status \in [Requests -> Statuses]
      /\ step.skip = <<>> /\ ToSet(step.skip) = {}
      /\ \A q \in Requests : step.n[q] = 0
  BY QueueFacts, NothingTaken, EmptySets
<1>2. QueuesDistinct /\ QueuesByStatus /\ StepDistinct
  BY DEF QueueInv
<1>3. /\ waiting' = RemoveFirst(waiting, r) /\ skipped' = RemoveFirst(skipped, r)
      /\ running' = RemoveFirst(running, r)
      /\ status' = [status EXCEPT ![r] = "FINISHED"]
  BY DEF Finish, Without
<1>4. /\ IsInjective(waiting') /\ ToSet(waiting') = ToSet(waiting) \ {r}
      /\ IsInjective(skipped') /\ ToSet(skipped') = ToSet(skipped) \ {r}
      /\ IsInjective(running') /\ ToSet(running') = ToSet(running) \ {r}
  BY <1>1, <1>2, <1>3, RemoveFirstFacts DEF QueuesDistinct
<1>5. QueuesDistinct'
  BY <1>1, <1>2, <1>4 DEF QueuesDistinct
<1>6. QueuesByStatus'
  BY <1>1, <1>2, <1>3, <1>4 DEF QueuesByStatus, Pending
<1>7. StepDistinct'
  BY <1>1, <1>2 DEF StepDistinct
<1>8. QED
  BY <1>5, <1>6, <1>7

(* So does preempting one.                                                    *)
LEMMA PreemptQueues ==
  ASSUME QueueInv, NEW v \in ToSet(running), NEW b \in BOOLEAN, Preempt(v, b),
         step'.skip = step.skip
  PROVE  QueuesDistinct' /\ QueuesByStatus'
<1>1. /\ waiting \in Seq(Requests) /\ running \in Seq(Requests)
      /\ status \in [Requests -> Statuses]
  BY QueueFacts
<1>2. QueuesDistinct /\ QueuesByStatus
  BY DEF QueueInv
<1>3. v \in Requests
  BY <1>1, LenProperties, ElementOfSeq DEF ToSet
<1>4. /\ waiting' = <<v>> \o waiting /\ running' = RemoveFirst(running, v)
      /\ skipped' = skipped /\ status' = [status EXCEPT ![v] = "PREEMPTED"]
  BY DEF Preempt, Without
<1>5. v \notin ToSet(waiting) /\ v \notin ToSet(skipped) /\ v \notin ToSet(step.skip)
  BY <1>2, <1>3 DEF QueuesByStatus, Pending
<1>6. /\ IsInjective(waiting') /\ ToSet(waiting') = ToSet(waiting) \union {v}
      /\ IsInjective(running') /\ ToSet(running') = ToSet(running) \ {v}
  BY <1>1, <1>2, <1>3, <1>4, <1>5, RemoveFirstFacts, ConsFacts DEF QueuesDistinct
<1>7. QueuesDistinct'
  BY <1>2, <1>4, <1>5, <1>6 DEF QueuesDistinct
<1>8. QueuesByStatus'
  BY <1>1, <1>2, <1>3, <1>4, <1>6 DEF QueuesByStatus, Pending
<1>9. QED
  BY <1>7, <1>8

(* The candidate leaves the queue it was peeked in and no other request does. *)
LEMMA PopQueues ==
  ASSUME QueueInv, waiting \o skipped # <<>>, PopCandidate
  PROVE  /\ Candidate \in Requests
         /\ status[Candidate] \in {"WAITING", "PREEMPTED"}
         /\ Candidate \notin ToSet(running) /\ Candidate \notin ToSet(step.skip)
         /\ IsInjective(waiting') /\ IsInjective(skipped')
         /\ ToSet(waiting') \cap ToSet(skipped') = {}
         /\ ToSet(waiting') \subseteq ToSet(waiting)
         /\ ToSet(skipped') \subseteq ToSet(skipped)
         /\ ToSet(waiting') \union ToSet(skipped')
              = (ToSet(waiting) \union ToSet(skipped)) \ {Candidate}
<1>1. /\ waiting \in Seq(Requests) /\ skipped \in Seq(Requests) /\ Types
      /\ QueuesDistinct /\ QueuesByStatus
  BY QueueFacts DEF QueueInv
<1>2. /\ Candidate \in Requests
      /\ FromSkipped => Candidate \in ToSet(skipped)
      /\ ~FromSkipped => Candidate \in ToSet(waiting)
  BY <1>1, CandidateFacts
<1> DEFINE c == Candidate
<1>3. /\ c \in ToSet(waiting) \union ToSet(skipped)
      /\ status[c] \in {"WAITING", "PREEMPTED"} /\ c \notin ToSet(running)
      /\ c \notin ToSet(step.skip)
  BY <1>1, <1>2 DEF QueuesByStatus, QueuesDistinct, Pending
<1>4. /\ waiting' = IF FromSkipped THEN waiting ELSE RemoveFirst(waiting, c)
      /\ skipped' = IF FromSkipped THEN RemoveFirst(skipped, c) ELSE skipped
  BY DEF PopCandidate, Without
<1> HIDE DEF c
<1>5. c \in Requests
  BY <1>2 DEF c
<1>6. /\ IsInjective(RemoveFirst(waiting, c)) /\ IsInjective(RemoveFirst(skipped, c))
      /\ ToSet(RemoveFirst(waiting, c)) = ToSet(waiting) \ {c}
      /\ ToSet(RemoveFirst(skipped, c)) = ToSet(skipped) \ {c}
  <2>1. IsInjective(waiting) /\ IsInjective(skipped)
    BY <1>1 DEF QueuesDistinct
  <2>2. QED
    BY <1>1, <1>5, <2>1, RemoveFirstFacts
<1>7. FromSkipped => c \notin ToSet(waiting)
  BY <1>1, <1>2 DEF c, QueuesDistinct
<1>8. ~FromSkipped => c \notin ToSet(skipped)
  BY <1>1, <1>2 DEF c, QueuesDistinct
<1>9. /\ IsInjective(waiting') /\ IsInjective(skipped')
      /\ ToSet(waiting') \cap ToSet(skipped') = {}
      /\ ToSet(waiting') \subseteq ToSet(waiting)
      /\ ToSet(skipped') \subseteq ToSet(skipped)
      /\ ToSet(waiting') \union ToSet(skipped')
              = (ToSet(waiting) \union ToSet(skipped)) \ {c}
  BY <1>1, <1>4, <1>6, <1>7, <1>8 DEF QueuesDistinct
<1>10. QED
  BY <1>3, <1>5, <1>9 DEF c

(* r joins the step in the making.                                           *)
LEMMA ScheduledDistinct ==
  ASSUME QueueInv, NEW r \in Requests, step.n[r] = 0, NEW n \in Nat \ {0},
         step'.order = Append(step.order, r), step'.n = [step.n EXCEPT ![r] = n],
         status' = [status EXCEPT ![r] = "RUNNING"]
  PROVE  StepDistinct'
<1>1. /\ step.order \in Seq(Requests) /\ step.n \in [Requests -> Nat]
      /\ status \in [Requests -> Statuses] /\ StepDistinct
  BY QueueFacts DEF QueueInv
<1>2. r \notin ToSet(step.order)
  BY <1>1 DEF StepDistinct
<1>3. IsInjective(step'.order) /\ ToSet(step'.order) = ToSet(step.order) \union {r}
  BY <1>1, <1>2, AppendFacts DEF StepDistinct
<1>4. \A q \in Requests : q \in ToSet(step'.order) <=> step'.n[q] > 0
  BY <1>1, <1>3 DEF StepDistinct
<1>5. \A q \in Requests : step'.n[q] > 0 => status'[q] = "RUNNING"
  BY <1>1 DEF StepDistinct
<1>6. QED
  BY <1>3, <1>4, <1>5 DEF StepDistinct

-----------------------------------------------------------------------------
(* Arrivals, aborts, pauses and resets keep the queues apart and true to the  *)
(* statuses.                                                                  *)
LEMMA OutsideQueues ==
  ASSUME QueueInv,
         \/ \E r \in Requests : AddRequest(r) \/ AbortRequest(r)
         \/ \E p \in PauseStates : SetPauseState(p)
         \/ BeginReset \/ ResetAction
  PROVE  QueueInv'
<1>1. Types'
  BY OutsideTypes, QueueFacts
<1>2. /\ QueuesDistinct /\ QueuesByStatus /\ SkipsOnlyInWaiting /\ StepDistinct /\ StepAhead
      /\ step.n \in [Requests -> Nat] /\ status \in [Requests -> Statuses]
      /\ waiting \in Seq(Requests) /\ running \in Seq(Requests)
  BY QueueFacts DEF QueueInv
<1>3. ASSUME NEW r \in Requests, AddRequest(r) PROVE QueueInv'
  <2>1. /\ waiting' = Append(waiting, r) /\ status' = [status EXCEPT ![r] = "WAITING"]
        /\ UNCHANGED <<skipped, running, pc, step>> /\ status[r] = "NEW" /\ pc = "idle"
    BY <1>3 DEF AddRequest
  <2>2. /\ r \notin ToSet(waiting) /\ r \notin ToSet(skipped) /\ r \notin ToSet(step.skip)
        /\ r \notin ToSet(running)
    BY <1>2, <2>1 DEF QueuesByStatus, Pending
  <2>3. IsInjective(waiting') /\ ToSet(waiting') = ToSet(waiting) \union {r}
    BY <1>2, <2>1, <2>2, AppendFacts DEF QueuesDistinct
  <2>4. QueuesDistinct'
    BY <1>2, <2>1, <2>2, <2>3 DEF QueuesDistinct
  <2>5. QueuesByStatus'
    BY <1>2, <2>1, <2>3 DEF QueuesByStatus, Pending
  <2>6. step.n[r] = 0 /\ \A q \in Requests : step.n[q] = 0
    BY <2>1, NothingTaken
  <2>7. StepDistinct' /\ StepAhead' /\ SkipsOnlyInWaiting'
    BY <1>2, <2>1, <2>6 DEF StepDistinct, StepAhead, SkipsOnlyInWaiting
  <2>8. QED
    BY <1>1, <2>4, <2>5, <2>7 DEF QueueInv
<1>4. ASSUME NEW r \in Requests, AbortRequest(r) PROVE QueueInv'
  <2>1. Finish(r) /\ Alive(r) /\ UNCHANGED <<pc, step>> /\ pc = "idle"
    BY <1>4 DEF AbortRequest
  <2>2. QueuesDistinct' /\ QueuesByStatus' /\ StepDistinct'
    BY <2>1, FinishQueues
  <2>3. StepAhead' /\ SkipsOnlyInWaiting'
    BY <1>2, <2>1 DEF StepAhead, SkipsOnlyInWaiting
  <2>4. QED
    BY <1>1, <2>2, <2>3 DEF QueueInv
<1>5. ASSUME \/ \E p \in PauseStates : SetPauseState(p)
             \/ BeginReset \/ EndReset
      PROVE  QueueInv'
  <2>1. /\ UNCHANGED <<status, queueVars, step>>
        /\ {pc, pc'} \cap {"running", "waiting", "finish"} = {}
    BY <1>5 DEF SetPauseState, BeginReset, EndReset
  <2>2. QueuesDistinct' /\ QueuesByStatus'
    BY <2>1, QueuesUnchanged
  <2>3. StepDistinct' /\ StepAhead' /\ SkipsOnlyInWaiting'
    BY <1>2, <2>1 DEF StepDistinct, StepAhead, SkipsOnlyInWaiting
  <2>4. QED
    BY <1>1, <2>2, <2>3 DEF QueueInv
<1>6. CASE ResetOne
  <2>1. /\ Preempt(Last(running), TRUE) /\ UNCHANGED <<pc, step>> /\ pc = "reset"
        /\ Last(running) \in ToSet(running) /\ Last(running) \in Requests
    BY <1>2, <1>6, VictimIsRunning DEF ResetOne
  <2>2. QueuesDistinct' /\ QueuesByStatus'
    BY <2>1, PreemptQueues
  <2>3. \A q \in Requests : step.n[q] = 0
    BY <2>1, NothingTaken
  <2>4. StepDistinct' /\ StepAhead' /\ SkipsOnlyInWaiting'
    BY <1>2, <2>1, <2>3 DEF StepDistinct, StepAhead, SkipsOnlyInWaiting
  <2>5. QED
    BY <1>1, <2>2, <2>4 DEF QueueInv
<1>7. QED
  BY <1>3, <1>4, <1>5, <1>6 DEF ResetAction

(* The running loop: SkipRunning and EndRunningLoop move nothing.             *)
LEMMA RunningQueues ==
  ASSUME QueueInv, SkipRunning \/ ScheduleRunning \/ EndRunningLoop
  PROVE  QueueInv'
<1>1. Types'
  BY RunningTypes, QueueFacts
<1>2. /\ QueuesDistinct /\ QueuesByStatus /\ SkipsOnlyInWaiting /\ StepDistinct /\ StepAhead
      /\ step \in StepLocals /\ step.n \in [Requests -> Nat]
      /\ status \in [Requests -> Statuses] /\ step.idx \in Nat \ {0}
      /\ running \in Seq(Requests)
  BY QueueFacts, StepFieldTypes DEF QueueInv
<1>3. CASE SkipRunning
  <2>1. /\ UNCHANGED <<status, queueVars, pc>> /\ pc = "running"
        /\ step'.n = step.n /\ step'.order = step.order /\ step'.skip = step.skip
        /\ step'.idx = step.idx + 1
    BY <1>2, <1>3 DEF SkipRunning, InRunningLoop, StepLocals
  <2>2. QueuesDistinct' /\ QueuesByStatus'
    BY <2>1, QueuesUnchanged
  <2>3. StepDistinct' /\ SkipsOnlyInWaiting'
    BY <1>2, <2>1 DEF StepDistinct, SkipsOnlyInWaiting
  <2>4. StepAhead'
    BY <1>2, <2>1, LenProperties DEF StepAhead, queueVars
  <2>5. QED
    BY <1>1, <2>2, <2>3, <2>4 DEF QueueInv
<1>4. CASE EndRunningLoop
  <2>1. /\ UNCHANGED <<status, queueVars>> /\ pc = "running" /\ pc' \in {"waiting", "finish"}
        /\ step'.n = step.n /\ step'.order = step.order /\ step'.skip = step.skip
    BY <1>2, <1>4 DEF EndRunningLoop, StepLocals
  <2>2. QueuesDistinct' /\ QueuesByStatus'
    BY <2>1, QueuesUnchanged
  <2>3. StepDistinct' /\ SkipsOnlyInWaiting' /\ StepAhead'
    BY <1>2, <2>1 DEF StepDistinct, SkipsOnlyInWaiting, StepAhead
  <2>4. QED
    BY <1>1, <2>2, <2>3 DEF QueueInv
<1>5. CASE ScheduleRunning
  <2> DEFINE r == Current
             n == NumNewTokens(r)
  <2>1. /\ r \in Requests /\ step.idx \in 1..Len(running) /\ pc = "running"
        /\ r = running[step.idx]
    BY <1>5, CurrentFacts, QueueFacts DEF ScheduleRunning, InRunningLoop, Current
  <2>2. n \in Nat \ {0}
    BY <1>5, <2>1, TokensAreNumbers, QueueFacts DEF ScheduleRunning, Schedulable
  <2>3. /\ UNCHANGED <<status, queueVars, pc>>
        /\ step'.order = Append(step.order, r) /\ step'.n = [step.n EXCEPT ![r] = n]
        /\ step'.skip = step.skip /\ step'.idx = step.idx + 1
    BY <1>2, <1>5 DEF ScheduleRunning, Scheduled, StepLocals
  <2> HIDE DEF r, n
  <2>4. QueuesDistinct' /\ QueuesByStatus'
    BY <2>3, QueuesUnchanged
  <2>5. step.n[r] = 0
    BY <1>2, <2>1 DEF StepAhead
  <2>6. status[r] = "RUNNING"
    <3>1. r \in ToSet(running)
      BY <1>2, <2>1, LenProperties DEF ToSet
    <3>2. QED
      BY <1>2, <2>1, <3>1 DEF QueuesByStatus
  <2>7. StepDistinct'
    <3>1. status' = [status EXCEPT ![r] = "RUNNING"]
      BY <1>2, <2>3, <2>6
    <3>2. QED
      BY <2>1, <2>2, <2>3, <2>5, <3>1, ScheduledDistinct
  <2>8. StepAhead'
    <3>1. /\ \A i, j \in 1..Len(running) : running[i] = running[j] => i = j
          /\ Len(running) \in Nat /\ \A i \in 1..Len(running) : running[i] \in Requests
      BY <1>2, LenProperties, ElementOfSeq DEF QueuesDistinct, IsInjective
    <3>2. ASSUME NEW i \in 1..Len(running), i >= step.idx + 1
          PROVE  step'.n[running[i]] = 0
      BY <1>2, <2>1, <2>3, <3>1, <3>2 DEF StepAhead
    <3>3. QED
      BY <2>1, <2>3, <3>2 DEF StepAhead, queueVars
  <2>9. QED
    BY <1>1, <1>2, <2>1, <2>3, <2>4, <2>7, <2>8 DEF QueueInv, SkipsOnlyInWaiting
<1>6. QED
  BY <1>3, <1>4, <1>5

(* Preemption inside the running loop.                                       *)
LEMMA PreemptForRoomQueues ==
  ASSUME QueueInv, PreemptForRoom
  PROVE  QueueInv'
<1> DEFINE v == Victim
           at == CHOOSE i \in DOMAIN running : running[i] = v
<1>1. Types'
  BY RunningTypes, QueueFacts
<1>2. /\ QueuesDistinct /\ QueuesByStatus /\ SkipsOnlyInWaiting /\ StepDistinct /\ StepAhead
      /\ Types /\ step.n \in [Requests -> Nat] /\ step.order \in Seq(Requests)
      /\ status \in [Requests -> Statuses] /\ step.idx \in Nat \ {0}
      /\ running \in Seq(Requests)
  BY QueueFacts DEF QueueInv
<1>3. v \in Requests /\ v \in ToSet(running) /\ pc = "running"
  BY <1>2, CurrentFacts, VictimIsRunning DEF PreemptForRoom, InRunningLoop
<1>4. /\ Preempt(v, DropOnPreempt) /\ pc' = pc
      /\ step' = [TakenBack(v) EXCEPT !.preempted = TRUE, !.stop = (v = Current),
                                      !.idx = IF at < @ THEN @ - 1 ELSE @]
  BY DEF PreemptForRoom
<1>5. /\ step'.order = RemoveFirst(step.order, v) /\ step'.n = [step.n EXCEPT ![v] = 0]
      /\ step'.skip = step.skip /\ step'.idx = IF at < step.idx THEN step.idx - 1 ELSE step.idx
  <2>1. step \in StepLocals
    BY <1>2, StepFieldTypes
  <2> HIDE DEF v, at
  <2>2. QED
    BY <1>4, <2>1 DEF TakenBack, Without, StepLocals
<1>6. at \in 1..Len(running) /\ running[at] = v
  <2>1. \E i \in DOMAIN running : running[i] = v
    BY <1>3 DEF ToSet
  <2>2. QED
    BY <1>2, <2>1, LenProperties
<1> HIDE DEF v, at
<1>7. QueuesDistinct' /\ QueuesByStatus'
  BY <1>3, <1>4, <1>5, PreemptQueues, SwitchesAssumption
<1>8. status' = [status EXCEPT ![v] = "PREEMPTED"] /\ running' = RemoveFirst(running, v)
  BY <1>4 DEF Preempt, Without
<1>9. StepDistinct'
  <2>1. IsInjective(step'.order) /\ ToSet(step'.order) = ToSet(step.order) \ {v}
    BY <1>2, <1>3, <1>5, RemoveFirstFacts DEF StepDistinct
  <2>2. \A r \in Requests : r \in ToSet(step'.order) <=> step'.n[r] > 0
    BY <1>2, <1>3, <1>5, <2>1 DEF StepDistinct
  <2>3. \A r \in Requests : step'.n[r] > 0 => status'[r] = "RUNNING"
    BY <1>2, <1>3, <1>5, <1>8 DEF StepDistinct
  <2>4. QED
    BY <2>1, <2>2, <2>3 DEF StepDistinct
<1>10. StepAhead'
  <2>1. /\ \A i, j \in 1..Len(running) : running[i] = running[j] => i = j
        /\ Len(running) \in Nat /\ \A i \in 1..Len(running) : running[i] \in Requests
    BY <1>2, LenProperties, ElementOfSeq DEF QueuesDistinct, IsInjective
  <2>2. running' = RemoveAt(running, at)
    <3>1. \/ RemoveFirst(running, v) = running /\ \A i \in 1..Len(running) : running[i] # v
          \/ \E i \in 1..Len(running) :
               running[i] = v /\ RemoveFirst(running, v) = RemoveAt(running, i)
      BY <1>2, <1>3, RemoveFirstIndex
    <3>2. PICK i \in 1..Len(running) :
            running[i] = v /\ RemoveFirst(running, v) = RemoveAt(running, i)
      BY <1>6, <3>1
    <3>3. i = at
      BY <1>6, <2>1, <3>2
    <3>4. QED
      BY <1>8, <3>2, <3>3
  <2>3. /\ Len(running') = Len(running) - 1
        /\ \A j \in 1..(Len(running) - 1) :
              running'[j] = IF j < at THEN running[j] ELSE running[j + 1]
    BY <1>2, <1>6, <2>2, RemoveAtFacts
  <2>4. \A i \in 1..Len(running) : i >= step.idx => step.n[running[i]] = 0
    BY <1>2, <1>3 DEF StepAhead
  <2>5. ASSUME NEW i \in 1..Len(running'), i >= step'.idx
        PROVE  step'.n[running'[i]] = 0
    <3>1. i \in 1..(Len(running) - 1) /\ i \in 1..Len(running) /\ i + 1 \in 1..Len(running)
      BY <2>1, <2>3
    <3>2. CASE i < at
      <4>1. running'[i] = running[i] /\ i >= step.idx
        BY <1>2, <1>5, <1>6, <2>3, <2>5, <3>1, <3>2
      <4>2. QED
        BY <1>2, <1>5, <2>1, <2>4, <3>1, <4>1
    <3>3. CASE i >= at
      <4>1. running'[i] = running[i + 1] /\ i + 1 >= step.idx
        BY <1>2, <1>5, <1>6, <2>1, <2>3, <2>5, <3>1, <3>3
      <4>2. QED
        BY <1>2, <1>5, <2>1, <2>4, <3>1, <4>1
    <3>4. QED
      BY <1>6, <2>1, <3>2, <3>3
  <2>6. QED
    BY <1>3, <1>4, <2>5 DEF StepAhead
<1>11. QED
  BY <1>1, <1>2, <1>3, <1>4, <1>5, <1>7, <1>9, <1>10 DEF QueueInv, SkipsOnlyInWaiting

(* The waiting loop.                                                         *)
LEMMA WaitingQueues ==
  ASSUME QueueInv, SkipUndelivered \/ Admit \/ StopAdmitting \/ EndWaitingLoop
  PROVE  QueueInv'
<1>1. Types'
  BY WaitingTypes, QueueFacts
<1>2. /\ QueuesDistinct /\ QueuesByStatus /\ SkipsOnlyInWaiting /\ StepDistinct /\ StepAhead
      /\ Types /\ step \in StepLocals /\ step.n \in [Requests -> Nat]
      /\ step.skip \in Seq(Requests) /\ skipped \in Seq(Requests)
      /\ status \in [Requests -> Statuses] /\ running \in Seq(Requests)
  BY QueueFacts, StepFieldTypes DEF QueueInv
<1> DEFINE c == Candidate
<1>3. CASE SkipUndelivered
  <2>1. /\ PopCandidate /\ waiting \o skipped # <<>> /\ pc = "waiting"
        /\ step' = [step EXCEPT !.skip = Append(@, c)]
        /\ UNCHANGED <<status, running, pc>>
    BY <1>3 DEF SkipUndelivered, InWaitingLoop
  <2>2. /\ step'.skip = Append(step.skip, c) /\ step'.n = step.n /\ step'.order = step.order
    BY <1>2, <2>1 DEF StepLocals
  <2>3. /\ c \in Requests /\ status[c] \in {"WAITING", "PREEMPTED"}
        /\ c \notin ToSet(running) /\ c \notin ToSet(step.skip)
        /\ IsInjective(waiting') /\ IsInjective(skipped')
        /\ ToSet(waiting') \cap ToSet(skipped') = {}
        /\ ToSet(waiting') \subseteq ToSet(waiting)
        /\ ToSet(skipped') \subseteq ToSet(skipped)
        /\ ToSet(waiting') \union ToSet(skipped')
             = (ToSet(waiting) \union ToSet(skipped)) \ {c}
    BY <2>1, PopQueues
  <2> HIDE DEF c
  <2>4. IsInjective(step'.skip) /\ ToSet(step'.skip) = ToSet(step.skip) \union {c}
    BY <1>2, <2>2, <2>3, AppendFacts DEF QueuesDistinct
  <2>5. QueuesDistinct'
    <3>1. /\ ToSet(waiting') \cap ToSet(step'.skip) = {}
          /\ ToSet(skipped') \cap ToSet(step'.skip) = {}
      BY <1>2, <2>3, <2>4 DEF QueuesDistinct
    <3>2. QED
      BY <1>2, <2>1, <2>3, <2>4, <3>1 DEF QueuesDistinct
  <2>6. QueuesByStatus'
    <3>1. \A r \in Requests : r \in ToSet(waiting) \union ToSet(skipped) \union ToSet(step.skip)
                        <=> r \in ToSet(waiting') \union ToSet(skipped') \union ToSet(step'.skip)
      <4>1. c \in ToSet(waiting) \union ToSet(skipped) \union ToSet(step.skip)
        BY <1>2, <2>3 DEF QueuesByStatus, Pending
      <4>2. QED
        BY <2>3, <2>4, <4>1
    <3>2. QED
      BY <1>2, <2>1, <3>1 DEF QueuesByStatus, Pending
  <2>7. StepDistinct' /\ StepAhead' /\ SkipsOnlyInWaiting'
    BY <1>2, <2>1, <2>2 DEF StepDistinct, StepAhead, SkipsOnlyInWaiting
  <2>8. QED
    BY <1>1, <2>5, <2>6, <2>7 DEF QueueInv
<1>4. CASE Admit
  <2>1. /\ PopCandidate /\ waiting \o skipped # <<>> /\ pc = "waiting"
        /\ UNCHANGED pc
        /\ running' = Append(running, c) /\ status' = [status EXCEPT ![c] = "RUNNING"]
    BY <1>4 DEF Admit, InWaitingLoop
  <2>2. \E hit \in HitLengths(c) :
          /\ AdmittedTokens(c, hit) > 0
          /\ step' = Scheduled(c, AdmittedTokens(c, hit), IF Padded(c, hit) THEN NumSpec ELSE 0)
    BY <1>4 DEF Admit
  <2>3. /\ c \in Requests /\ status[c] \in {"WAITING", "PREEMPTED"}
        /\ c \notin ToSet(running) /\ c \notin ToSet(step.skip)
        /\ IsInjective(waiting') /\ IsInjective(skipped')
        /\ ToSet(waiting') \cap ToSet(skipped') = {}
        /\ ToSet(waiting') \subseteq ToSet(waiting)
        /\ ToSet(skipped') \subseteq ToSet(skipped)
        /\ ToSet(waiting') \union ToSet(skipped')
             = (ToSet(waiting) \union ToSet(skipped)) \ {c}
    BY <2>1, PopQueues
  <2> HIDE DEF c
  <2>4. PICK n \in Nat \ {0} : /\ step'.order = Append(step.order, c)
                               /\ step'.n = [step.n EXCEPT ![c] = n]
                               /\ step'.skip = step.skip
    <3>1. PICK hit \in HitLengths(c) :
          /\ AdmittedTokens(c, hit) > 0
          /\ step' = Scheduled(c, AdmittedTokens(c, hit), IF Padded(c, hit) THEN NumSpec ELSE 0)
      BY <2>2
    <3>2. AdmittedTokens(c, hit) \in Nat \ {0}
      BY <1>2, <2>3, <3>1, TokensAreNumbers
    <3>3. QED
      BY <1>2, <3>1, <3>2 DEF Scheduled, StepLocals
  <2>5. IsInjective(running') /\ ToSet(running') = ToSet(running) \union {c}
    BY <1>2, <2>1, <2>3, AppendFacts DEF QueuesDistinct
  <2>6. QueuesDistinct'
    BY <1>2, <2>3, <2>4, <2>5 DEF QueuesDistinct
  <2>7. QueuesByStatus'
    BY <1>2, <2>1, <2>3, <2>4, <2>5 DEF QueuesByStatus, Pending
  <2>8. step.n[c] = 0
    BY <1>2, <2>3 DEF StepDistinct
  <2>9. StepDistinct'
    BY <2>1, <2>3, <2>4, <2>8, ScheduledDistinct
  <2>10. StepAhead' /\ SkipsOnlyInWaiting'
    BY <2>1 DEF StepAhead, SkipsOnlyInWaiting
  <2>11. QED
    BY <1>1, <2>6, <2>7, <2>9, <2>10 DEF QueueInv
<1>5. CASE StopAdmitting
  <2>1. /\ UNCHANGED <<status, queueVars, pc>> /\ pc = "waiting"
        /\ step'.n = step.n /\ step'.order = step.order /\ step'.skip = step.skip
    BY <1>2, <1>5 DEF StopAdmitting, InWaitingLoop, StepLocals
  <2>2. QueuesDistinct' /\ QueuesByStatus'
    BY <2>1, QueuesUnchanged
  <2>3. StepDistinct' /\ StepAhead' /\ SkipsOnlyInWaiting'
    BY <1>2, <2>1 DEF StepDistinct, StepAhead, SkipsOnlyInWaiting
  <2>4. QED
    BY <1>1, <2>2, <2>3 DEF QueueInv
<1>6. CASE EndWaitingLoop
  <2>1. /\ UNCHANGED <<status, waiting, running>> /\ pc = "waiting" /\ pc' = "finish"
        /\ skipped' = step.skip \o skipped
        /\ step'.n = step.n /\ step'.order = step.order /\ step'.skip = <<>>
    BY <1>2, <1>6 DEF EndWaitingLoop, Requeued, StepLocals
  <2>2. ToSet(step'.skip) = {} /\ IsInjective(step'.skip)
    BY <2>1, EmptySets
  <2>3. /\ ToSet(skipped') = ToSet(step.skip) \union ToSet(skipped)
        /\ IsInjective(skipped')
    BY <1>2, <2>1, ConcatFacts DEF QueuesDistinct
  <2>4. QueuesDistinct'
    BY <1>2, <2>1, <2>2, <2>3 DEF QueuesDistinct
  <2>5. QueuesByStatus'
    BY <1>2, <2>1, <2>2, <2>3 DEF QueuesByStatus, Pending
  <2>6. StepDistinct' /\ StepAhead' /\ SkipsOnlyInWaiting'
    BY <1>2, <2>1 DEF StepDistinct, StepAhead, SkipsOnlyInWaiting
  <2>7. QED
    BY <1>1, <2>4, <2>5, <2>6 DEF QueueInv
<1>7. QED
  BY <1>3, <1>4, <1>5, <1>6

(* The start and the end of schedule(), and update_from_output().            *)
LEMMA EngineQueues ==
  ASSUME QueueInv, BeginSchedule \/ EndSchedule \/ BeginUpdate \/ UpdateAction
  PROVE  QueueInv'
<1>1. Types'
  <2>1. Types' \/ ~BeginSchedule
    BY NextTypes, QueueFacts DEF Next
  <2>2. QED
    BY <2>1, EndScheduleTypes, UpdateTypes, QueueFacts
<1>2. /\ QueuesDistinct /\ QueuesByStatus /\ SkipsOnlyInWaiting /\ StepDistinct /\ StepAhead
      /\ Types /\ step \in StepLocals
  BY QueueFacts, StepFieldTypes DEF QueueInv
<1>3. CASE BeginSchedule \/ EndSchedule
  <2>1. /\ UNCHANGED <<status, queueVars>>
        /\ step'.order = <<>> /\ step'.n = NoRequest /\ step'.skip = <<>>
        /\ pc \in {"idle", "finish"} /\ pc' \in {"running", "idle"}
    <3>1. NoStep.order = <<>> /\ NoStep.n = NoRequest /\ NoStep.skip = <<>>
      BY DEF NoStep
    <3>2. NoStep \in StepLocals
      BY DEF NoStep, NoRequest, StepLocals
    <3>3. CASE BeginSchedule
      <4>1. step'.order = NoStep.order /\ step'.n = NoStep.n /\ step'.skip = NoStep.skip
        BY <3>2, <3>3 DEF BeginSchedule, StepLocals
      <4>2. QED
        BY <3>1, <3>3, <4>1 DEF BeginSchedule
    <3>4. CASE EndSchedule
      BY <3>1, <3>4 DEF EndSchedule
    <3>5. QED
      BY <1>3, <3>3, <3>4
  <2>2. step.skip = <<>>
    BY <1>2, <2>1 DEF SkipsOnlyInWaiting
  <2>3. QueuesDistinct' /\ QueuesByStatus'
    BY <2>1, <2>2, QueuesUnchanged
  <2>4. running' \in Seq(Requests)
    BY <1>1 DEF Types, QueueTypes
  <2>5. StepAhead' /\ SkipsOnlyInWaiting'
    <3>1. \A i \in 1..Len(running') : running'[i] \in Requests
      BY <2>4, ElementOfSeq
    <3>2. QED
      BY <2>1, <3>1 DEF StepAhead, SkipsOnlyInWaiting, NoRequest
  <2>6. StepDistinct'
    BY <2>1, EmptySets DEF StepDistinct, NoRequest
  <2>7. QED
    BY <1>1, <2>3, <2>5, <2>6 DEF QueueInv
<1>4. CASE BeginUpdate \/ OutputOfFinished \/ OutputWithoutTokens \/ DeliverTokens \/ EndUpdate
  <2>1. /\ UNCHANGED <<status, queueVars, step>>
        /\ pc \in {"idle", "update"} /\ pc' \in {"idle", "update"}
    BY <1>4 DEF BeginUpdate, OutputOfFinished, OutputWithoutTokens, DeliverTokens, EndUpdate,
                InUpdateLoop
  <2>2. QueuesDistinct' /\ QueuesByStatus'
    BY <2>1, QueuesUnchanged
  <2>3. StepDistinct' /\ StepAhead' /\ SkipsOnlyInWaiting'
    BY <1>2, <2>1 DEF StepDistinct, StepAhead, SkipsOnlyInWaiting
  <2>4. QED
    BY <1>1, <2>2, <2>3 DEF QueueInv
<1>5. CASE DeliverAndStop
  <2>1. /\ Finish(Returned) /\ Alive(Returned) /\ UNCHANGED <<pc, step>> /\ pc = "update"
        /\ Returned \in Requests
    BY <1>2, <1>5, ReturnedFacts DEF DeliverAndStop, InUpdateLoop
  <2>2. QueuesDistinct' /\ QueuesByStatus' /\ StepDistinct'
    BY <2>1, FinishQueues
  <2>3. StepAhead' /\ SkipsOnlyInWaiting'
    BY <1>2, <2>1 DEF StepAhead, SkipsOnlyInWaiting
  <2>4. QED
    BY <1>1, <2>2, <2>3 DEF QueueInv
<1>6. QED
  BY <1>3, <1>4, <1>5 DEF UpdateAction

(* The queues are as they should be when the scheduler is made.               *)
THEOREM QueuesInitially == Init => QueueInv
<1> SUFFICES ASSUME Init PROVE QueueInv
  OBVIOUS
<1>1. Types
  BY InitTypes
<1>2. /\ waiting = <<>> /\ skipped = <<>> /\ running = <<>> /\ step = NoStep
      /\ \A r \in Requests : status[r] = "NEW"
      /\ pc = "idle"
  BY DEF Init
<1>3. step.skip = <<>> /\ step.order = <<>> /\ step.n = NoRequest
  BY <1>2 DEF NoStep
<1>4. QueuesDistinct /\ QueuesByStatus
  BY <1>2, <1>3, EmptySets DEF QueuesDistinct, QueuesByStatus, Pending
<1>5. StepDistinct /\ StepAhead /\ SkipsOnlyInWaiting
  BY <1>2, <1>3, EmptySets DEF StepDistinct, StepAhead, SkipsOnlyInWaiting, NoRequest
<1>6. QED
  BY <1>1, <1>4, <1>5 DEF QueueInv

(* No step of the scheduler loses a request, queues one twice, or leaves it   *)
(* in a queue its status does not name.                                       *)
THEOREM QueuesStep == QueueInv /\ [Next]_vars => QueueInv'
<1> SUFFICES ASSUME QueueInv, [Next]_vars PROVE QueueInv'
  OBVIOUS
<1>1. CASE UNCHANGED vars
  <2>1. Types'
    BY NextTypes, QueueFacts
  <2>2. QED
    BY <1>1, <2>1 DEF vars, queueVars, QueueInv, QueuesDistinct, QueuesByStatus, Pending,
                SkipsOnlyInWaiting, StepDistinct, StepAhead
<1>2. QED
  BY <1>1, OutsideQueues, RunningQueues, PreemptForRoomQueues, WaitingQueues, EngineQueues
    DEF Next, ScheduleAction

(* The inductive invariant of the queues holds of every behaviour: types,     *)
(* queues that repeat nothing and follow the statuses, and a step that names  *)
(* each request it has tokens of once.                                        *)
THEOREM QueueInvariant == Spec => []QueueInv
<1>1. QED
  BY QueuesInitially, QueuesStep, PTL DEF Spec

(* A waiting or preempted request is in exactly one waiting queue, or set     *)
(* aside for the rest of schedule(), a running one in running, and no other   *)
(* in any, whatever the interleaving of schedule(), outputs, aborts and       *)
(* resets.                                                                    *)
THEOREM QueuesAlwaysMatchStatus == Spec => []QueuesMatchStatus
<1>1. QueueInv => QueuesMatchStatus
  <2> SUFFICES ASSUME QueueInv PROVE QueuesMatchStatus
    OBVIOUS
  <2> DEFINE held == IF pc = "waiting" THEN step.skip ELSE <<>>
             pending == waiting \o skipped \o held
  <2>1. /\ waiting \in Seq(Requests) /\ skipped \in Seq(Requests)
        /\ running \in Seq(Requests) /\ step.skip \in Seq(Requests)
        /\ QueuesDistinct /\ QueuesByStatus
    BY QueueFacts DEF QueueInv
  <2>2. held = step.skip
    BY DEF QueueInv, SkipsOnlyInWaiting
  <2>3. /\ waiting \o skipped \in Seq(Requests) /\ IsInjective(waiting \o skipped)
        /\ ToSet(waiting \o skipped) = ToSet(waiting) \union ToSet(skipped)
    BY <2>1, ConcatFacts DEF QueuesDistinct
  <2>4. /\ IsInjective(pending) /\ ToSet(pending) = Pending
    <3> DEFINE ws == waiting \o skipped
    <3> HIDE DEF ws, held
    <3>1. ToSet(ws) \cap ToSet(step.skip) = {} /\ IsInjective(step.skip)
      BY <2>1, <2>3 DEF QueuesDistinct, ws
    <3>2. ws \in Seq(Requests) /\ IsInjective(ws)
      BY <2>3 DEF ws
    <3>3. IsInjective(ws \o step.skip) /\ ToSet(ws \o step.skip) = ToSet(ws) \union ToSet(step.skip)
      BY <2>1, <3>1, <3>2, ConcatFacts
    <3>4. QED
      BY <2>2, <2>3, <3>3 DEF ws, Pending
  <2>5. ToSet(pending) \subseteq Requests /\ ToSet(running) \subseteq Requests
    <3>1. ASSUME NEW q \in Seq(Requests) PROVE ToSet(q) \subseteq Requests
      BY LenProperties, ElementOfSeq DEF ToSet
    <3> HIDE DEF pending
    <3>2. QED
      BY <2>1, <2>4, <3>1 DEF Pending
  <2>6. /\ ToSet(pending) = {r \in Requests : status[r] \in {"WAITING", "PREEMPTED"}}
        /\ ToSet(running) = {r \in Requests : status[r] = "RUNNING"}
    <3> HIDE DEF pending
    <3> QED
      BY <2>1, <2>4, <2>5 DEF QueuesByStatus
  <2>7. QED
    BY <2>1, <2>4, <2>6 DEF QueuesMatchStatus, QueuesDistinct
<1>2. QED
  BY <1>1, QueueInvariant, PTL

-----------------------------------------------------------------------------
(* A sequence of integers has partial sums.                                   *)
LEMMA PartialSums ==
  ASSUME NEW s \in Seq(Int), NEW n \in 0..Len(s)
  PROVE  \E F \in [0..n -> Int] : F[0] = 0 /\ \A i \in 1..n : F[i] = F[i - 1] + s[i]
<1> DEFINE Good(m) == \E F \in [0..m -> Int] :
                        F[0] = 0 /\ \A i \in 1..m : F[i] = F[i - 1] + s[i]
           T == {m \in 0..n : ~Good(m)}
<1>1. Len(s) \in Nat /\ n \in Nat /\ \A i \in 1..n : s[i] \in Int
  BY LenProperties, ElementOfSeq
<1>2. SUFFICES ASSUME T # {} PROVE FALSE
  <2>1. n \in 0..n
    BY <1>1
  <2>2. QED
    BY <2>1
<1>3. PICK m \in T : \A y \in T : m <= y
  <2>1. T \in SUBSET Nat
    BY <1>1
  <2>2. \E m \in T : \A y \in T : m <= y
    <3> HIDE DEF T
    <3> QED
      BY <1>2, <2>1, LeastNatural
  <2>3. QED
    BY <2>2
<1>4. m # 0
  <2>1. Good(0)
    <3> DEFINE Z == [i \in 0..0 |-> 0]
    <3>1. Z \in [0..0 -> Int] /\ Z[0] = 0
      OBVIOUS
    <3> HIDE DEF Z
    <3>2. \A i \in 1..0 : Z[i] = Z[i - 1] + s[i]
      OBVIOUS
    <3>3. QED
      BY <3>1, <3>2
  <2> HIDE DEF Good
  <2>2. QED
    BY <1>3, <2>1
<1>5. m - 1 \in 0..n /\ m \in 1..n /\ m - 1 < m
  BY <1>1, <1>3, <1>4
<1>6. Good(m - 1)
  <2> HIDE DEF Good
  <2> QED
    BY <1>1, <1>3, <1>5
<1>7. PICK F \in [0..(m - 1) -> Int] : F[0] = 0 /\ \A i \in 1..(m - 1) : F[i] = F[i - 1] + s[i]
  BY <1>6
<1> DEFINE E == [i \in 0..m |-> IF i = m THEN F[m - 1] + s[m] ELSE F[i]]
<1>8. E \in [0..m -> Int]
  <2>1. F[m - 1] + s[m] \in Int
    BY <1>1, <1>5
  <2>2. \A i \in 0..m : i # m => F[i] \in Int
    BY <1>5
  <2>3. \A i \in 0..m : (IF i = m THEN F[m - 1] + s[m] ELSE F[i]) \in Int
    BY <2>1, <2>2
  <2>4. QED
    BY <2>3
<1>9. E[0] = 0 /\ \A i \in 1..m : E[i] = E[i - 1] + s[i]
  BY SMTT(30), <1>5, <1>7
<1>10. Good(m)
  <2> HIDE DEF E
  <2> QED
    BY <1>8, <1>9
<1>11. QED
  <2> HIDE DEF Good
  <2> QED
    BY <1>3, <1>10

(* Any function with the recurrence of SumOf gives its value.                *)
LEMMA SumIs ==
  ASSUME NEW s \in Seq(Int), NEW F \in [0..Len(s) -> Int], F[0] = 0,
         \A i \in 1..Len(s) : F[i] = F[i - 1] + s[i]
  PROVE  SumOf(s) = F[Len(s)]
<1> DEFINE n == Len(s)
           Rec(f) == f = [i \in 0..n |-> IF i = 0 THEN 0 ELSE f[i - 1] + s[i]]
           f == CHOOSE g : Rec(g)
<1>1. n \in Nat
  BY LenProperties
<1>2. Rec(F)
  <2>1. \A i \in 0..n : F[i] = IF i = 0 THEN 0 ELSE F[i - 1] + s[i]
    BY <1>1
  <2>2. F = [i \in 0..n |-> F[i]]
    OBVIOUS
  <2>3. QED
    BY <2>1, <2>2
<1>3. Rec(f)
  <2> HIDE DEF Rec
  <2> QED
    BY <1>2
<1>4. SumOf(s) = f[n]
  BY DEF SumOf
<1>5. f[0] = 0 /\ \A i \in 1..n : f[i] = f[i - 1] + s[i]
  <2> HIDE DEF f
  <2> DEFINE h == f
  <2> HIDE DEF h
  <2>1. h = [i \in 0..n |-> IF i = 0 THEN 0 ELSE h[i - 1] + s[i]]
    BY <1>3 DEF h
  <2>2. h[0] = 0 /\ \A i \in 1..n : h[i] = h[i - 1] + s[i]
    BY <1>1, <2>1
  <2>3. QED
    BY <2>2 DEF h
<1> HIDE DEF f
<1> DEFINE T == {i \in 0..n : f[i] # F[i]}
<1>6. SUFFICES ASSUME T # {} PROVE FALSE
  BY <1>1, <1>4
<1>7. PICK m \in T : \A y \in T : m <= y
  <2>1. T \in SUBSET Nat
    BY <1>1
  <2>2. \E m \in T : \A y \in T : m <= y
    <3> HIDE DEF T
    <3> QED
      BY <1>6, <2>1, LeastNatural
  <2>3. QED
    BY <2>2
<1>8. m # 0
  BY <1>5, <1>7
<1>9. m \in 1..n /\ m - 1 \in 0..n /\ m - 1 < m
  BY <1>1, <1>7, <1>8
<1>10. f[m - 1] = F[m - 1]
  BY <1>7, <1>9
<1>11. QED
  BY <1>5, <1>7, <1>9, <1>10

(* A sequence's sum is the last of its partial sums.                          *)
LEMMA SumExists ==
  ASSUME NEW s \in Seq(Int)
  PROVE  \E F \in [0..Len(s) -> Int] :
           /\ F[0] = 0 /\ \A i \in 1..Len(s) : F[i] = F[i - 1] + s[i]
           /\ SumOf(s) = F[Len(s)]
<1>1. Len(s) \in 0..Len(s)
  BY LenProperties
<1>2. PICK F \in [0..Len(s) -> Int] : F[0] = 0 /\ \A i \in 1..Len(s) : F[i] = F[i - 1] + s[i]
  BY <1>1, PartialSums
<1>3. QED
  BY <1>2, SumIs

(* How the sum changes when an element is appended or removed.                *)
LEMMA SumFacts ==
  ASSUME NEW s \in Seq(Int)
  PROVE  /\ SumOf(s) \in Int
         /\ s = <<>> => SumOf(s) = 0
         /\ \A e \in Int : SumOf(Append(s, e)) = SumOf(s) + e
         /\ \A i \in 1..Len(s) : SumOf(RemoveAt(s, i)) = SumOf(s) - s[i]
<1>1. PICK F \in [0..Len(s) -> Int] :
        /\ F[0] = 0 /\ \A i \in 1..Len(s) : F[i] = F[i - 1] + s[i]
        /\ SumOf(s) = F[Len(s)]
  BY SumExists
<1>2. Len(s) \in Nat /\ \A i \in 1..Len(s) : s[i] \in Int
  BY LenProperties, ElementOfSeq
<1>3. SumOf(s) \in Int /\ (s = <<>> => SumOf(s) = 0)
  BY <1>1, <1>2
<1>4. ASSUME NEW e \in Int PROVE SumOf(Append(s, e)) = SumOf(s) + e
  <2> DEFINE n == Len(s)
             t == Append(s, e)
             E == [i \in 0..(n + 1) |-> IF i = n + 1 THEN F[n] + e ELSE F[i]]
  <2>1. /\ t \in Seq(Int) /\ Len(t) = n + 1 /\ t[n + 1] = e
        /\ \A i \in 1..n : t[i] = s[i]
    BY AppendProperties
  <2> HIDE DEF t
  <2>2. E \in [0..(n + 1) -> Int]
    <3>1. F[n] + e \in Int /\ \A i \in 0..(n + 1) : i # n + 1 => F[i] \in Int
      BY <1>2
    <3>2. QED
      BY <3>1
  <2>3. E[0] = 0 /\ E[n + 1] = F[n] + e /\ \A i \in 1..(n + 1) : E[i] = E[i - 1] + t[i]
    BY <1>1, <1>2, <2>1
  <2> HIDE DEF E
  <2>4. SumOf(t) = E[n + 1]
    BY <2>1, <2>2, <2>3, SumIs
  <2>5. QED
    BY <1>1, <2>3, <2>4 DEF t
<1>5. ASSUME NEW i \in 1..Len(s) PROVE SumOf(RemoveAt(s, i)) = SumOf(s) - s[i]
  <2> DEFINE n == Len(s)
             t == RemoveAt(s, i)
             E == [j \in 0..(n - 1) |-> IF j < i THEN F[j] ELSE F[j + 1] - s[i]]
  <2>1. /\ t \in Seq(Int) /\ Len(t) = n - 1
        /\ \A j \in 1..(n - 1) : t[j] = IF j < i THEN s[j] ELSE s[j + 1]
    BY RemoveAtFacts
  <2> HIDE DEF t
  <2>0. \A j \in 0..n : F[j] \in Int
    BY <1>1
  <2>2. E \in [0..(n - 1) -> Int]
    <3>1. ASSUME NEW j \in 0..(n - 1) PROVE F[j] \in Int /\ F[j + 1] - s[i] \in Int
      <4>1. j \in 0..n /\ j + 1 \in 0..n /\ s[i] \in Int
        BY <1>2
      <4>2. F[j] \in Int /\ F[j + 1] \in Int
        BY <2>0, <4>1
      <4>3. QED
        BY <4>1, <4>2
    <3>2. QED
      BY <3>1
  <2>3. E[0] = 0
    BY <1>1, <1>2
  <2>4. ASSUME NEW j \in 1..(n - 1) PROVE E[j] = E[j - 1] + t[j]
    <3>1. /\ j \in 1..n /\ j + 1 \in 1..n /\ j - 1 \in 0..(n - 1) /\ j \in 0..(n - 1) /\ i \in Int
          /\ (j + 1) - 1 = j /\ (j - 1) + 1 = j
      BY <1>2
    <3>2. F[j] = F[j - 1] + s[j] /\ F[j + 1] = F[j] + s[j + 1]
      BY <1>1, <3>1
    <3>3. /\ F[j] \in Int /\ F[j - 1] \in Int /\ F[j + 1] \in Int
          /\ s[j] \in Int /\ s[j + 1] \in Int /\ s[i] \in Int
      <4>1. j \in 0..n /\ j - 1 \in 0..n /\ j + 1 \in 0..n
        BY <1>2, <3>1
      <4>2. QED
        BY <1>2, <2>0, <3>1, <4>1
    <3>4. CASE j < i
      BY <2>1, <3>1, <3>2, <3>4
    <3>5. CASE j = i
      <4>1. E[j] = F[j + 1] - s[i] /\ E[j - 1] = F[j - 1] /\ t[j] = s[j + 1]
        BY <2>1, <3>1, <3>5
      <4>2. \A a, b, c \in Int : ((a + b) + c) - b = a + c
        OBVIOUS
      <4>3. F[j + 1] = (F[j - 1] + s[j]) + s[j + 1] /\ s[i] = s[j]
        BY <3>2, <3>5
      <4> HIDE DEF E
      <4>4. F[j + 1] - s[i] = F[j - 1] + s[j + 1]
        BY SMTT(30), <3>3, <4>2, <4>3
      <4>5. QED
        BY <4>1, <4>4
    <3>6. CASE j > i
      <4>1. E[j] = F[j + 1] - s[i] /\ E[j - 1] = F[j] - s[i] /\ t[j] = s[j + 1]
        BY SMTT(30), <2>1, <3>1, <3>6
      <4>2. \A a, b, c \in Int : (a + b) - c = (a - c) + b
        OBVIOUS
      <4> HIDE DEF E
      <4>3. F[j + 1] - s[i] = (F[j] - s[i]) + s[j + 1]
        BY SMTT(30), <3>2, <3>3, <4>2
      <4>4. QED
        BY <4>1, <4>3
    <3>7. QED
      BY <3>1, <3>4, <3>5, <3>6
  <2>5. SumOf(t) = E[n - 1]
    <3> HIDE DEF E
    <3> QED
      BY <2>1, <2>2, <2>3, <2>4, SumIs
  <2>6. E[n - 1] = F[n] - s[i]
    <3>1. CASE i = n
      <4>1. E[n - 1] = F[n - 1] /\ F[n] = F[n - 1] + s[n]
        BY <1>1, <1>2, <3>1
      <4>2. QED
        BY <1>2, <3>1, <4>1
    <3>2. CASE i # n
      BY <1>2, <3>2
    <3>3. QED
      BY <3>1, <3>2
  <2>7. QED
    BY <1>1, <2>5, <2>6 DEF t
<1>6. QED
  BY <1>3, <1>4, <1>5

-----------------------------------------------------------------------------
(* The tokens of the step, in its order, and the budget schedule() starts with. *)
StepTokens == [i \in DOMAIN step.order |-> step.n[step.order[i]]]
Full == IF pause = "PAUSED_ALL" THEN 0 ELSE TokenBudget

(* What schedule() grants a running or a waiting request fits both budgets    *)
(* that are left.                                                             *)
LEMMA NewTokensInBudget ==
  ASSUME Types, NEW r \in Requests
  PROVE  /\ NumNewTokens(r) > 0 =>
              NumNewTokens(r) <= step.budget /\ NumNewTokens(r) + DraftSlots <= step.input
         /\ \A hit \in HitLengths(r) : AdmittedTokens(r, hit) > 0 =>
              /\ AdmittedTokens(r, hit) <= step.budget
              /\ AdmittedTokens(r, hit) + DraftSlots <= step.input
<1>1. /\ step.budget \in Int /\ step.input \in Int /\ DraftSlots \in Int /\ PrefillLookahead \in Nat
      /\ NumTokens(r) \in Int /\ MaxModelLen \in Int /\ NumSpec \in Nat /\ Threshold \in Nat
  BY StepFieldTypes, TokensAreNumbers, SizesAssumption
<1>2. /\ RequestBudget \in Int
      /\ RequestBudget <= step.budget /\ RequestBudget + DraftSlots <= step.input
  BY <1>1 DEF RequestBudget, Least
<1>3. ASSUME NEW from \in Int, NEW n \in Int, ReservePrefillLookahead(r, from, n) > 0
      PROVE  ReservePrefillLookahead(r, from, n) <= n
  BY <1>1, <1>3 DEF ReservePrefillLookahead, AtLeastZero
<1>4. \A a, b \in Int : Least(a, b) \in Int /\ Least(a, b) <= a /\ Least(a, b) <= b
  BY DEF Least
<1>5. \A n \in Int : Capped(n) \in Int
  BY <1>1 DEF Capped
<1>6. NumNewTokens(r) > 0 => NumNewTokens(r) <= RequestBudget
  <2> DEFINE w == NumTokens(r) + spec[r] + placeholders[r] - computed[r]
             a == Least(Capped(w), RequestBudget)
             n == Least(a, MaxModelLen - computed[r] - 1)
  <2>1. computed[r] \in Int /\ spec[r] \in Int /\ placeholders[r] \in Int
    BY DEF Types, RequestTypes, Counters
  <2>2. w \in Int /\ MaxModelLen - computed[r] - 1 \in Int
    BY <1>1, <2>1
  <2>3. a \in Int /\ a <= RequestBudget
    <3> HIDE DEF w
    <3> QED
      BY <1>2, <1>4, <1>5, <2>2
  <2>4. n \in Int /\ n <= a
    <3> HIDE DEF a
    <3> QED
      BY <1>4, <2>2, <2>3
  <2>5. NumNewTokens(r) = ReservePrefillLookahead(r, computed[r], n)
    BY DEF NumNewTokens
  <2> HIDE DEF n, a
  <2>6. NumNewTokens(r) \in Nat
    BY TokensAreNumbers
  <2>7. QED
    BY <1>2, <1>3, <2>1, <2>3, <2>4, <2>5, <2>6
<1>7. ASSUME NEW hit \in HitLengths(r), AdmittedTokens(r, hit) > 0
      PROVE  AdmittedTokens(r, hit) <= RequestBudget
  <2> DEFINE a == Least(Capped(1 + NumSpec), RequestBudget)
             b == Least(Capped(NumTokens(r) - hit), RequestBudget)
  <2>1. hit \in Int
    BY TokensAreNumbers
  <2>2. a \in Int /\ a <= RequestBudget
    <3>1. 1 + NumSpec \in Int
      BY <1>1
    <3>2. QED
      BY <1>2, <1>4, <1>5, <3>1
  <2>3. b \in Int /\ b <= RequestBudget
    <3>1. NumTokens(r) - hit \in Int
      BY <1>1, <2>1
    <3>2. QED
      BY <1>2, <1>4, <1>5, <3>1
  <2>4. \/ AdmittedTokens(r, hit) = 0
        \/ AdmittedTokens(r, hit) = ReservePrefillLookahead(r, hit, a)
        \/ AdmittedTokens(r, hit) = ReservePrefillLookahead(r, hit, b)
    BY DEF AdmittedTokens
  <2> HIDE DEF a, b
  <2>5. AdmittedTokens(r, hit) \in Nat
    BY TokensAreNumbers
  <2>6. QED
    BY <1>2, <1>3, <1>7, <2>1, <2>2, <2>3, <2>4, <2>5
<1>8. \A hit \in HitLengths(r) : AdmittedTokens(r, hit) \in Nat
  BY TokensAreNumbers
<1>9. NumNewTokens(r) \in Nat
  BY TokensAreNumbers
<1>10. QED
  BY <1>1, <1>2, <1>6, <1>7, <1>8, <1>9

(* The types of the step's tokens, one by one.                                *)
TokensTyped ==
  /\ StepTokens \in Seq(Int) /\ Len(StepTokens) = Len(step.order)
  /\ Len(step.order) \in Nat /\ DOMAIN step.order = 1..Len(step.order)
  /\ \A i \in 1..Len(step.order) :
       step.order[i] \in Requests /\ StepTokens[i] = step.n[step.order[i]]

(* The token counts of the step, in its order, are a sequence of integers.    *)
LEMMA StepTokensType == Types => TokensTyped
<1> SUFFICES ASSUME Types PROVE TokensTyped
  OBVIOUS
<1>1. step.order \in Seq(Requests) /\ step.n \in [Requests -> Nat]
  BY StepFieldTypes
<1>2. /\ Len(step.order) \in Nat /\ DOMAIN step.order = 1..Len(step.order)
      /\ \A i \in 1..Len(step.order) : step.order[i] \in Requests
  BY <1>1, LenProperties, ElementOfSeq
<1>3. \A i \in 1..Len(step.order) : step.n[step.order[i]] \in Int
  BY <1>1, <1>2
<1>4. QED
  BY <1>2, <1>3 DEF StepTokens, TokensTyped

(* Scheduling n tokens of r adds them to the sum.                            *)
LEMMA SumOfScheduled ==
  ASSUME QueueInv, NEW r \in Requests, NEW n \in Nat, step.n[r] = 0, Types',
         step'.order = Append(step.order, r), step'.n = [step.n EXCEPT ![r] = n]
  PROVE  SumOf(StepTokens') = SumOf(StepTokens) + n
<1> DEFINE L == Len(step.order)
           s == StepTokens
           t == StepTokens'
<1>1. /\ s \in Seq(Int) /\ Len(s) = L /\ L \in Nat /\ DOMAIN step.order = 1..L
      /\ \A i \in 1..L : step.order[i] \in Requests /\ s[i] = step.n[step.order[i]]
  BY StepTokensType, QueueFacts DEF TokensTyped
<1>2. step.order \in Seq(Requests) /\ step.n \in [Requests -> Nat] /\ step.n \in [Requests -> Int]
  BY QueueFacts
<1>3. /\ step'.order \in Seq(Requests) /\ Len(step'.order) = L + 1
      /\ step'.order[L + 1] = r /\ \A i \in 1..L : step'.order[i] = step.order[i]
  BY <1>2, AppendProperties
<1>4. t = [i \in DOMAIN step'.order |-> step'.n[step'.order[i]]]
  BY DEF StepTokens
<1>5. DOMAIN step'.order = 1..(L + 1)
  BY <1>2, <1>3, AppendProperties, LenProperties
<1>6. \A i \in 1..L : step.order[i] # r
  <2>1. r \notin ToSet(step.order)
    BY <1>2 DEF QueueInv, StepDistinct
  <2>2. QED
    BY <1>1, <2>1 DEF ToSet
<1>7. /\ t[L + 1] = n
      /\ \A i \in 1..L : t[i] = s[i]
  <2>1. \A i \in 1..L : i \in 1..(L + 1) /\ step.order[i] \in Requests
    BY <1>1
  <2>2. L + 1 \in 1..(L + 1)
    BY <1>1
  <2>3. t[L + 1] = n
    BY <1>2, <1>3, <1>4, <1>5, <2>2
  <2>4. ASSUME NEW i \in 1..L PROVE t[i] = s[i]
    BY <1>1, <1>2, <1>3, <1>4, <1>5, <1>6, <2>1
  <2>5. QED
    BY <2>3, <2>4
<1>8. t \in [1..(L + 1) -> Int]
  <2>1. \A i \in 1..(L + 1) : t[i] \in Int
    <3>1. \A i \in 1..(L + 1) : i \in 1..L \/ i = L + 1
      BY <1>1
    <3>2. \A i \in 1..L : s[i] \in Int
      BY <1>1, ElementOfSeq
    <3> HIDE DEF s, t
    <3>3. QED
      BY <1>7, <3>1, <3>2
  <2>2. QED
    BY <1>4, <1>5, <2>1
<1> HIDE DEF s, t
<1>9. t \in Seq(Int) /\ Len(t) = L + 1
  <2>1. Types' => TokensTyped'
    BY StepTokensType, PTL
  <2>2. QED
    BY <1>3, <2>1 DEF TokensTyped, t
<1>10. t = Append(s, n)
  <2>1. /\ Append(s, n) \in Seq(Int) /\ Len(Append(s, n)) = L + 1
        /\ Append(s, n)[L + 1] = n /\ \A i \in 1..L : Append(s, n)[i] = s[i]
    BY <1>1, AppendProperties
  <2>2. \A i \in 1..(L + 1) : t[i] = Append(s, n)[i]
    BY <1>1, <1>7, <2>1
  <2>3. QED
    BY <1>9, <2>1, <2>2, SeqEqual
<1>11. QED
  BY <1>1, <1>10, SumFacts DEF s, t

(* Taking v out gives its tokens back.                                       *)
LEMMA SumOfTakenBack ==
  ASSUME QueueInv, NEW v \in Requests, Types',
         step'.order = RemoveFirst(step.order, v), step'.n = [step.n EXCEPT ![v] = 0]
  PROVE  /\ SumOf(StepTokens') = SumOf(StepTokens) - step.n[v]
         /\ Len(step'.order) = IF step.n[v] > 0 THEN Len(step.order) - 1 ELSE Len(step.order)
<1> DEFINE L == Len(step.order)
           s == StepTokens
           t == StepTokens'
<1>1. /\ s \in Seq(Int) /\ Len(s) = L /\ L \in Nat /\ DOMAIN step.order = 1..L
      /\ \A i \in 1..L : step.order[i] \in Requests /\ s[i] = step.n[step.order[i]]
  BY StepTokensType, QueueFacts DEF TokensTyped
<1>2. step.order \in Seq(Requests) /\ step.n \in [Requests -> Nat] /\ StepDistinct
  BY QueueFacts DEF QueueInv
<1>3. /\ t \in Seq(Int) /\ Len(t) = Len(step'.order)
      /\ \A i \in 1..Len(step'.order) : t[i] = step'.n[step'.order[i]]
  <2>1. Types' => TokensTyped'
    BY StepTokensType, PTL
  <2>2. QED
    BY <2>1 DEF TokensTyped
<1>4. CASE \A i \in 1..L : step.order[i] # v
  <2>1. step.n[v] = 0
    <3>1. v \notin ToSet(step.order)
      BY <1>1, <1>4 DEF ToSet
    <3>2. QED
      BY <1>2, <3>1 DEF StepDistinct
  <2>2. step'.order = step.order
    BY SMTT(30), <1>2, <1>4, RemoveFirstIndex
  <2>3. step'.n = step.n
    BY <1>2, <2>1
  <2>4. StepTokens' = StepTokens
    BY <2>2, <2>3 DEF StepTokens
  <2>5. QED
    BY <1>1, <2>1, <2>2, <2>4, SumFacts
<1>5. CASE \E i \in 1..L : step.order[i] = v
  <2>1. PICK k \in 1..L : step.order[k] = v /\ step'.order = RemoveAt(step.order, k)
    BY <1>2, <1>5, RemoveFirstIndex
  <2>2. step.n[v] > 0
    <3>1. v \in ToSet(step.order)
      BY <1>1, <2>1 DEF ToSet
    <3>2. QED
      BY <1>2, <3>1 DEF StepDistinct
  <2>3. /\ Len(step'.order) = L - 1
        /\ \A j \in 1..(L - 1) :
              step'.order[j] = IF j < k THEN step.order[j] ELSE step.order[j + 1]
    <3> DEFINE o == step.order
    <3>1. o \in Seq(Requests) /\ k \in 1..Len(o) /\ step'.order = RemoveAt(o, k)
      BY <1>2, <2>1
    <3> HIDE DEF o
    <3>2. /\ Len(RemoveAt(o, k)) = Len(o) - 1
          /\ \A j \in 1..(Len(o) - 1) : RemoveAt(o, k)[j] = IF j < k THEN o[j] ELSE o[j + 1]
      BY <3>1, RemoveAtFacts
    <3>3. QED
      BY <3>1, <3>2 DEF o
  <2>4. \A i \in 1..L : i # k => step.order[i] # v
    BY <1>1, <1>2, <2>1 DEF StepDistinct, IsInjective
  <2>5. /\ RemoveAt(s, k) \in Seq(Int) /\ Len(RemoveAt(s, k)) = L - 1
        /\ \A j \in 1..(L - 1) : RemoveAt(s, k)[j] = IF j < k THEN s[j] ELSE s[j + 1]
    <3> HIDE DEF s
    <3> QED
      BY <1>1, RemoveAtFacts
  <2>6. ASSUME NEW j \in 1..(L - 1) PROVE t[j] = RemoveAt(s, k)[j]
    <3>1. j \in 1..L /\ j + 1 \in 1..L /\ k \in Int
      BY <1>1
    <3>2. t[j] = step'.n[step'.order[j]]
      BY <1>3, <2>3
    <3>3. CASE j < k
      <4>1. step'.order[j] = step.order[j] /\ step.order[j] # v /\ step.order[j] \in Requests
        BY <1>1, <2>3, <2>4, <3>1, <3>3
      <4>2. t[j] = s[j]
        <5>1. step'.n[step.order[j]] = step.n[step.order[j]]
          BY <1>2, <4>1
        <5> HIDE DEF s, t
        <5>2. QED
          BY <1>1, <3>1, <3>2, <4>1, <5>1
      <4>3. QED
        BY <2>5, <3>3, <4>2
    <3>4. CASE ~(j < k)
      <4>1. /\ step'.order[j] = step.order[j + 1] /\ step.order[j + 1] # v
            /\ step.order[j + 1] \in Requests
        BY <1>1, <2>3, <2>4, <3>1, <3>4
      <4>2. t[j] = s[j + 1]
        <5>1. step'.n[step.order[j + 1]] = step.n[step.order[j + 1]]
          BY <1>2, <4>1
        <5> HIDE DEF s, t
        <5>2. QED
          BY <1>1, <3>1, <3>2, <4>1, <5>1
      <4>3. QED
        BY <2>5, <3>4, <4>2
    <3>5. QED
      BY <3>3, <3>4
  <2> HIDE DEF s, t
  <2>7. t = RemoveAt(s, k)
    BY <1>1, <1>3, <2>3, <2>5, <2>6, SeqEqual
  <2>8. SumOf(t) = SumOf(s) - s[k]
    BY <1>1, <2>7, SumFacts
  <2>9. s[k] = step.n[v]
    BY <1>1, <2>1
  <2>10. QED
    BY <2>2, <2>3, <2>8, <2>9 DEF s, t
<1>6. QED
  BY <1>4, <1>5

(* What is left of the budgets is what the step did not take.                *)
Budgets ==
  /\ step.budget >= 0 /\ step.input >= 0
  /\ SumOf(StepTokens) + step.budget = Full
  /\ SumOf(StepTokens) + Len(step.order) * DraftSlots + step.input = InputBudget
InStep == pc \in {"running", "waiting", "finish"}

(* StepBudgets, by its parts.                                                 *)
LEMMA StepBudgetsAre == StepBudgets <=> (InStep => Budgets)
  BY DEF StepBudgets, Budgets, Full, StepTokens, InStep

(* The draft slots of one more, or one fewer, request.                        *)
LEMMA MoreSlots ==
  ASSUME NEW a \in Nat, NEW b \in Nat
  PROVE  /\ a * b \in Int /\ (a + 1) * b = a * b + b /\ (a - 1) * b = a * b - b
  OBVIOUS

(* Steps that change neither the tokens given nor the budgets.               *)
LEMMA BudgetsUnchanged ==
  ASSUME Budgets, UNCHANGED pause, step'.order = step.order, step'.n = step.n,
         step'.budget = step.budget, step'.input = step.input
  PROVE  Budgets'
<1>1. StepTokens' = StepTokens
  BY DEF StepTokens
<1>2. QED
  BY <1>1 DEF Budgets, Full

(* Granting a request tokens takes them, and its draft slots, from both       *)
(* budgets.                                                                   *)
LEMMA ScheduledBudgets ==
  ASSUME QueueInv, Types', Budgets, UNCHANGED pause, NEW r \in Requests, step.n[r] = 0,
         NEW n \in Nat, n <= step.budget, n + DraftSlots <= step.input,
         step'.order = Append(step.order, r), step'.n = [step.n EXCEPT ![r] = n],
         step'.budget = step.budget - n, step'.input = step.input - n - DraftSlots
  PROVE  Budgets'
<1>1. SumOf(StepTokens') = SumOf(StepTokens) + n
  BY SumOfScheduled
<1>2. /\ StepTokens \in Seq(Int) /\ Len(step.order) \in Nat /\ step.order \in Seq(Requests)
      /\ step.budget \in Int /\ step.input \in Int
  BY StepTokensType, QueueFacts, StepFieldTypes DEF TokensTyped
<1>3. SumOf(StepTokens) \in Int
  BY <1>2, SumFacts
<1>4. Len(step'.order) = Len(step.order) + 1
  BY <1>2, AppendProperties
<1>5. /\ Len(step'.order) * DraftSlots = Len(step.order) * DraftSlots + DraftSlots
      /\ Len(step.order) * DraftSlots \in Int /\ DraftSlots \in Nat /\ InputBudget \in Int
      /\ Full \in Int
  BY <1>2, <1>4, MoreSlots, SizesAssumption DEF Full
<1>6. Full' = Full
  BY DEF Full
<1> DEFINE p == Len(step.order) * DraftSlots
           q == Len(step'.order) * DraftSlots
           a == SumOf(StepTokens)
           b == SumOf(StepTokens')
<1>7. /\ a + step.budget = Full /\ a + p + step.input = InputBudget
      /\ b = a + n /\ q = p + DraftSlots /\ a \in Int /\ p \in Int
      /\ step.budget \in Int /\ step.input \in Int /\ DraftSlots \in Nat
      /\ InputBudget \in Int /\ Full \in Int /\ n \in Int
      /\ step'.budget = step.budget - n /\ step'.input = step.input - n - DraftSlots
  BY <1>1, <1>2, <1>3, <1>5 DEF Budgets
<1> HIDE DEF p, q, a, b
<1>8. b + step'.budget = Full
  BY <1>7
<1>8a. b + q + step'.input = InputBudget
  <2>1. \A x, y, z, m, d \in Int : (x + m) + (y + d) + (z - m - d) = x + y + z
    OBVIOUS
  <2>2. b + q + step'.input = (a + n) + (p + DraftSlots) + (step.input - n - DraftSlots)
    BY <1>7
  <2>3. QED
    BY <1>7, <2>1, <2>2
<1>9. step'.budget >= 0 /\ step'.input >= 0
  BY SMTT(30), <1>7
<1>10. QED
  BY <1>6, <1>8, <1>8a, <1>9 DEF Budgets, b, q

(* Preempting a request already scheduled gives back what it took.            *)
LEMMA TakenBackBudgets ==
  ASSUME QueueInv, Types', Budgets, UNCHANGED pause, NEW v \in Requests,
         step'.order = RemoveFirst(step.order, v), step'.n = [step.n EXCEPT ![v] = 0],
         step'.budget = step.budget + step.n[v],
         step'.input = IF step.n[v] > 0 THEN step.input + step.n[v] + DraftSlots
                       ELSE step.input
  PROVE  Budgets'
<1>1. /\ SumOf(StepTokens') = SumOf(StepTokens) - step.n[v]
      /\ Len(step'.order) = IF step.n[v] > 0 THEN Len(step.order) - 1 ELSE Len(step.order)
  BY SumOfTakenBack
<1>2. /\ StepTokens \in Seq(Int) /\ Len(step.order) \in Nat /\ step.n[v] \in Nat
      /\ step.budget \in Int /\ step.input \in Int
  BY StepTokensType, QueueFacts, StepFieldTypes DEF TokensTyped
<1>3. SumOf(StepTokens) \in Int
  BY <1>2, SumFacts
<1>4. /\ (Len(step.order) - 1) * DraftSlots = Len(step.order) * DraftSlots - DraftSlots
      /\ Len(step.order) * DraftSlots \in Int /\ DraftSlots \in Nat /\ InputBudget \in Int
      /\ Full \in Int
  <2>1. DraftSlots \in Nat /\ InputBudget \in Int /\ Full \in Int
    BY SizesAssumption DEF Full
  <2>2. QED
    BY <1>2, <2>1, MoreSlots
<1>5. Full' = Full
  BY DEF Full
<1>6. CASE step.n[v] > 0
  <2>1. Len(step'.order) * DraftSlots = Len(step.order) * DraftSlots - DraftSlots
    BY <1>1, <1>4, <1>6
  <2> DEFINE p == Len(step.order) * DraftSlots
             q == Len(step'.order) * DraftSlots
             a == SumOf(StepTokens)
             b == SumOf(StepTokens')
             m == step.n[v]
  <2>2. /\ a + step.budget = Full /\ a + p + step.input = InputBudget
        /\ b = a - m /\ q = p - DraftSlots /\ a \in Int /\ p \in Int
        /\ m \in Nat /\ step.budget >= 0 /\ step.input >= 0
        /\ step'.budget = step.budget + m /\ step'.input = step.input + m + DraftSlots
        /\ step.budget \in Int /\ step.input \in Int /\ DraftSlots \in Nat
        /\ InputBudget \in Int /\ Full \in Int
    BY <1>1, <1>2, <1>3, <1>4, <1>6, <2>1 DEF Budgets
  <2> HIDE DEF p, q, a, b, m
  <2>3. b + step'.budget = Full /\ b + q + step'.input = InputBudget
    BY <2>2
  <2>4. step'.budget >= 0 /\ step'.input >= 0
    BY <2>2
  <2>5. QED
    BY <1>5, <2>3, <2>4 DEF Budgets, b, q
<1>7. CASE step.n[v] = 0
  <2>1. Len(step'.order) * DraftSlots = Len(step.order) * DraftSlots
    BY <1>1, <1>7
  <2>2. QED
    BY <1>1, <1>2, <1>3, <1>4, <1>5, <1>7, <2>1 DEF Budgets
<1>8. QED
  BY <1>2, <1>6, <1>7

(* Every step keeps both budgets balanced.                                    *)
LEMMA BudgetsStep ==
  ASSUME QueueInv, QueueInv', StepBudgets, [Next]_vars
  PROVE  StepBudgets'
<1>1. Types /\ Types' /\ step \in StepLocals /\ (InStep => Budgets)
  BY QueueFacts, StepFieldTypes, StepBudgetsAre DEF QueueInv
<1>2. SUFFICES ASSUME InStep' PROVE Budgets'
  <2>1. StepBudgets' <=> (InStep' => Budgets')
    BY StepBudgetsAre, PTL
  <2>2. QED
    BY <2>1
<1>3. ASSUME \/ UNCHANGED vars \/ SkipRunning \/ EndRunningLoop \/ SkipUndelivered
             \/ StopAdmitting \/ EndWaitingLoop
      PROVE  Budgets'
  <2>1. /\ UNCHANGED pause /\ step'.order = step.order /\ step'.n = step.n
        /\ step'.budget = step.budget /\ step'.input = step.input
    BY <1>1, <1>3 DEF vars, ctlVars, SkipRunning, EndRunningLoop, SkipUndelivered,
         StopAdmitting, EndWaitingLoop, StepLocals
  <2>2. Budgets
    BY <1>1, <1>2, <1>3 DEF InStep, vars, SkipRunning, EndRunningLoop, SkipUndelivered,
         StopAdmitting, EndWaitingLoop, InRunningLoop, InWaitingLoop
  <2>3. QED
    BY <2>1, <2>2, BudgetsUnchanged
<1>4. CASE ScheduleRunning
  <2> DEFINE r == Current
             n == NumNewTokens(r)
  <2>1. r \in Requests /\ step.idx \in 1..Len(running) /\ pc = "running"
        /\ r = running[step.idx]
    BY <1>1, <1>4, CurrentFacts DEF ScheduleRunning, InRunningLoop, Current
  <2>2. n \in Nat /\ n <= step.budget /\ n + DraftSlots <= step.input
    <3>1. n \in Nat /\ n > 0
      <4>1. n \in Nat
        BY <1>1, <2>1, TokensAreNumbers
      <4>2. n # 0
        BY <1>4 DEF ScheduleRunning, Schedulable
      <4> HIDE DEF n
      <4>3. QED
        BY <4>1, <4>2
    <3>2. QED
      BY <1>1, <2>1, <3>1, NewTokensInBudget
  <2>3. /\ UNCHANGED pause
        /\ step'.order = Append(step.order, r) /\ step'.n = [step.n EXCEPT ![r] = n]
        /\ step'.budget = step.budget - n /\ step'.input = step.input - n - DraftSlots
    BY <1>1, <1>4 DEF ScheduleRunning, Scheduled, StepLocals, ctlVars
  <2> HIDE DEF r, n
  <2>4. step.n[r] = 0
    BY <1>1, <2>1 DEF QueueInv, StepAhead, StepLocals
  <2>5. QED
    BY <1>1, <2>1, <2>2, <2>3, <2>4, ScheduledBudgets DEF InStep
<1>5. CASE Admit
  <2> DEFINE r == Candidate
  <2>1. PICK hit \in HitLengths(r) :
          /\ AdmittedTokens(r, hit) > 0
          /\ step' = Scheduled(r, AdmittedTokens(r, hit), IF Padded(r, hit) THEN NumSpec ELSE 0)
    BY <1>5 DEF Admit
  <2> DEFINE n == AdmittedTokens(r, hit)
  <2>2. /\ r \in Requests /\ status[r] \in {"WAITING", "PREEMPTED"}
        /\ pc = "waiting"
    BY <1>5, PopQueues DEF Admit, InWaitingLoop
  <2>3. n \in Nat /\ n <= step.budget /\ n + DraftSlots <= step.input
    BY <1>1, <2>1, <2>2, TokensAreNumbers, NewTokensInBudget
  <2>4. /\ UNCHANGED pause
        /\ step'.order = Append(step.order, r) /\ step'.n = [step.n EXCEPT ![r] = n]
        /\ step'.budget = step.budget - n /\ step'.input = step.input - n - DraftSlots
    BY <1>1, <1>5, <2>1 DEF Admit, Scheduled, StepLocals, ctlVars
  <2> HIDE DEF r, n
  <2>5. step.n[r] = 0
    <3>1. step.n[r] \in Nat
      BY <1>1, <2>2 DEF StepLocals
    <3>2. QED
      BY <2>2, <3>1 DEF QueueInv, StepDistinct
  <2>6. QED
    BY <1>1, <2>2, <2>3, <2>4, <2>5, ScheduledBudgets DEF InStep
<1>6. CASE PreemptForRoom
  <2> DEFINE v == Victim
             at == CHOOSE i \in DOMAIN running : running[i] = v
  <2>1. v \in Requests /\ pc = "running"
    BY <1>1, <1>6, CurrentFacts, VictimIsRunning
      DEF PreemptForRoom, InRunningLoop, Types, QueueTypes
  <2>2. /\ UNCHANGED pause
        /\ step' = [TakenBack(v) EXCEPT !.preempted = TRUE, !.stop = (v = Current),
                                        !.idx = IF at < @ THEN @ - 1 ELSE @]
    BY <1>6 DEF PreemptForRoom, ctlVars
  <2> HIDE DEF v, at
  <2>3. /\ step'.order = RemoveFirst(step.order, v) /\ step'.n = [step.n EXCEPT ![v] = 0]
        /\ step'.budget = step.budget + step.n[v]
        /\ step'.input = IF step.n[v] > 0 THEN step.input + step.n[v] + DraftSlots
                         ELSE step.input
    BY <1>1, <2>2 DEF TakenBack, Without, StepLocals
  <2>4. QED
    BY <1>1, <2>1, <2>2, <2>3, TakenBackBudgets DEF InStep
<1>7. CASE BeginSchedule
  <2>1. /\ step' = [NoStep EXCEPT !.budget = IF pause = "PAUSED_ALL" THEN 0 ELSE TokenBudget,
                                  !.input = InputBudget]
        /\ UNCHANGED pause
    BY <1>7 DEF BeginSchedule, ctlVars
  <2>2. NoStep \in StepLocals /\ NoStep.order = <<>>
    BY DEF NoStep, NoRequest, StepLocals
  <2>3. step'.order = <<>> /\ step'.budget = Full /\ step'.input = InputBudget
    BY <2>1, <2>2 DEF StepLocals, Full
  <2>4. StepTokens' \in Seq(Int) /\ Len(StepTokens') = 0
    <3>1. Types' => TokensTyped'
      BY StepTokensType, PTL
    <3>2. QED
      BY <1>1, <2>3, <3>1 DEF TokensTyped
  <2>5. SumOf(StepTokens') = 0
    <3> DEFINE s == StepTokens'
    <3>1. s \in Seq(Int) /\ s = <<>>
      BY <2>4, EmptySeq
    <3> HIDE DEF s
    <3>2. SumOf(s) = 0
      BY <3>1, SumFacts
    <3>3. QED
      BY <3>2 DEF s
  <2>6. Full' = Full /\ Full \in Nat /\ InputBudget \in Nat /\ DraftSlots \in Nat
    BY <2>1, SizesAssumption DEF Full
  <2>7. QED
    BY <2>3, <2>5, <2>6 DEF Budgets
<1>8. ASSUME \/ \E r \in Requests : AddRequest(r) \/ AbortRequest(r)
             \/ \E p \in PauseStates : SetPauseState(p)
             \/ BeginReset \/ ResetAction \/ EndSchedule \/ BeginUpdate \/ UpdateAction
      PROVE  FALSE
  BY <1>2, <1>8 DEF InStep, AddRequest, AbortRequest, SetPauseState, BeginReset,
       ResetAction, ResetOne, EndReset, EndSchedule, BeginUpdate, UpdateAction,
       OutputOfFinished, OutputWithoutTokens, DeliverTokens, DeliverAndStop, EndUpdate,
       InUpdateLoop
<1>9. QED
  BY <1>3, <1>4, <1>5, <1>6, <1>7, <1>8 DEF Next, ScheduleAction

(* At every point of schedule(), the tokens scheduled and the tokens left add *)
(* up to the token budget, and with each scheduled request's draft slots to   *)
(* the input budget, and neither is overdrawn, requests preempted in mid-loop *)
(* included.                                                                  *)
THEOREM StepBudgetsHold == Spec => []StepBudgets
<1>1. Init => StepBudgets
  BY StepBudgetsAre DEF Init, InStep
<1>2. QueueInv /\ QueueInv' /\ StepBudgets /\ [Next]_vars => StepBudgets'
  BY BudgetsStep
<1>3. QED
  BY <1>1, <1>2, QueueInvariant, PTL DEF Spec

-----------------------------------------------------------------------------
(* Tokens and blocks.  The proofs about tokens keep a ledger (SequenceLemmas) *)
(* per request.                                                              *)

(* The outputs of r that are still to come, oldest first: output 0 is the one  *)
(* being processed, output i the i-th in flight.                             *)
TokensIn(r) ==
  [i \in 0..Len(flight) |->
     IF i = 0 THEN IF r \in ToSet(cur.order) THEN cur.n[r] ELSE 0
     ELSE flight[i].n[r]]
SampledIn(r) ==
  [i \in 0..Len(flight) |->
     IF i = 0 THEN IF r \in ToSet(cur.order) /\ cur.pos[r] >= 0 THEN 1 + cur.drafts[r] ELSE 0
     ELSE IF flight[i].pos[r] >= 0 THEN 1 + flight[i].drafts[r] ELSE 0]
PositionsIn(r) ==
  [i \in 0..Len(flight) |->
     IF i = 0 THEN IF r \in ToSet(cur.order) THEN cur.pos[r] ELSE 0 ELSE flight[i].pos[r]]

(* Every token of r in flight is accounted for.                               *)
Ledger(r) ==
  LedgerOf(Len(flight), TokensIn(r), SampledIn(r), PositionsIn(r), NumTokens(r),
           status[r], inflight[r], stale[r], drop[r], placeholders[r], next[r])

(* An output in flight holds, once each, the requests it has tokens of, and     *)
(* samples for no other.                                                     *)
OutputShape(o) ==
  /\ IsInjective(o.order)
  /\ \A r \in Requests : r \in ToSet(o.order) <=> o.n[r] > 0
  /\ \A r \in Requests : o.n[r] = 0 => o.pos[r] < 0
OutputShapes ==
  /\ \A i \in 1..Len(flight) : OutputShape(flight[i])
  /\ IsInjective(cur.order) /\ \A r \in ToSet(cur.order) : cur.n[r] > 0
  /\ pc # "update" => cur.order = <<>>

(* A log of at most m tokens that follows a prompt of p.                        *)
LogOf(p, m, s) == Len(s) <= m /\ \A i \in 1..Len(s) : s[i] = p + i - 1

(* What holds of each request, and the inductive invariant.                     *)
RequestOk(r) ==
  /\ LogOf(Prompt[r], MaxTokens[r], log[r])
  /\ status[r] = "NEW" =>
       /\ inflight[r] = 0 /\ stale[r] = 0 /\ placeholders[r] = 0 /\ log[r] = <<>>
       /\ \A i \in 0..Len(flight) : TokensIn(r)[i] = 0 /\ SampledIn(r)[i] = 0
  /\ Alive(r) => Ledger(r) /\ Len(log[r]) < MaxTokens[r]

OutputInv == QueueInv /\ OutputShapes /\ \A r \in Requests : RequestOk(r)

-----------------------------------------------------------------------------
(* The fields of the outputs in flight and of the one being processed.        *)
LEMMA OutputFacts ==
  ASSUME Types
  PROVE  /\ flight \in Seq(StepOutput) /\ Len(flight) \in Nat
         /\ cur \in StepOutput /\ cur.order \in Seq(Requests)
         /\ cur.n \in [Requests -> Nat] /\ cur.drafts \in [Requests -> Nat]
         /\ cur.pos \in [Requests -> Int]
         /\ \A i \in 1..Len(flight) :
              /\ flight[i] \in StepOutput /\ flight[i].order \in Seq(Requests)
              /\ flight[i].n \in [Requests -> Nat] /\ flight[i].drafts \in [Requests -> Nat]
              /\ flight[i].pos \in [Requests -> Int]
<1>1. flight \in Seq(StepOutput) /\ cur \in StepOutput
  BY DEF Types, EngineTypes
<1>2. Len(flight) \in Nat /\ \A i \in 1..Len(flight) : flight[i] \in StepOutput
  BY <1>1, LenProperties, ElementOfSeq
<1>3. \A o \in StepOutput : /\ o.order \in Seq(Requests) /\ o.n \in [Requests -> Nat]
                           /\ o.drafts \in [Requests -> Nat] /\ o.pos \in [Requests -> Int]
  BY DEF StepOutput
<1>4. QED
  BY <1>1, <1>2, <1>3

(* The outputs of a request to come are sequences of numbers.                 *)
LEMMA InTypes ==
  ASSUME Types, NEW r \in Requests
  PROVE  /\ TokensIn(r) \in [0..Len(flight) -> Nat]
         /\ SampledIn(r) \in [0..Len(flight) -> Nat]
         /\ PositionsIn(r) \in [0..Len(flight) -> Int]
<1>1. cur.n[r] \in Nat /\ cur.pos[r] \in Int /\ 1 + cur.drafts[r] \in Nat
  BY OutputFacts
<1>2. \A i \in 0..Len(flight) : i # 0 =>
        flight[i].n[r] \in Nat /\ flight[i].pos[r] \in Int /\ 1 + flight[i].drafts[r] \in Nat
  <2>1. \A i \in 0..Len(flight) : i # 0 => i \in 1..Len(flight)
    BY OutputFacts
  <2>2. \A i \in 1..Len(flight) :
          flight[i].n[r] \in Nat /\ flight[i].pos[r] \in Int /\ 1 + flight[i].drafts[r] \in Nat
    BY OutputFacts
  <2>3. QED
    BY <2>1, <2>2
<1>3. TokensIn(r) \in [0..Len(flight) -> Nat]
  BY <1>1, <1>2 DEF TokensIn
<1>4. SampledIn(r) \in [0..Len(flight) -> Nat]
  BY <1>1, <1>2 DEF SampledIn
<1>5. PositionsIn(r) \in [0..Len(flight) -> Int]
  BY <1>1, <1>2 DEF PositionsIn
<1>6. QED
  BY <1>3, <1>4, <1>5

(* The outputs of a request to come, one by one.                              *)
LEMMA InValues ==
  ASSUME Types, NEW r \in Requests
  PROVE  /\ TokensIn(r)[0] = IF r \in ToSet(cur.order) THEN cur.n[r] ELSE 0
         /\ SampledIn(r)[0] = IF r \in ToSet(cur.order) /\ cur.pos[r] >= 0
                                THEN 1 + cur.drafts[r] ELSE 0
         /\ PositionsIn(r)[0] = IF r \in ToSet(cur.order) THEN cur.pos[r] ELSE 0
         /\ \A i \in 1..Len(flight) :
              /\ TokensIn(r)[i] = flight[i].n[r]
              /\ SampledIn(r)[i] = IF flight[i].pos[r] >= 0 THEN 1 + flight[i].drafts[r] ELSE 0
              /\ PositionsIn(r)[i] = flight[i].pos[r]
<1>1. 0 \in 0..Len(flight) /\ \A i \in 1..Len(flight) : i \in 0..Len(flight) /\ i # 0
  BY OutputFacts
<1>2. QED
  BY <1>1 DEF TokensIn, SampledIn, PositionsIn

(* An output samples only for requests it gave tokens to.                     *)
LEMMA SampledAreFed ==
  ASSUME Types, OutputShapes, NEW r \in Requests
  PROVE  Fed(Len(flight), TokensIn(r), SampledIn(r))
<1>1. TokensIn(r)[0] = 0 => SampledIn(r)[0] = 0
  BY InValues, OutputFacts DEF OutputShapes
<1>2. \A i \in 1..Len(flight) : flight[i].n[r] = 0 => ~(flight[i].pos[r] >= 0)
  <2>1. \A i \in 1..Len(flight) : flight[i].n[r] = 0 => flight[i].pos[r] < 0
    BY DEF OutputShapes, OutputShape
  <2>2. \A i \in 1..Len(flight) : flight[i].pos[r] \in Int
    BY OutputFacts
  <2>3. QED
    BY <2>1, <2>2
<1>3. \A i \in 1..Len(flight) : TokensIn(r)[i] = 0 => SampledIn(r)[i] = 0
  BY <1>2, InValues
<1>4. \A i \in 0..Len(flight) : i = 0 \/ i \in 1..Len(flight)
  BY OutputFacts
<1>5. QED
  BY <1>1, <1>3, <1>4 DEF Fed

(* A request the step leaves alone.                                           *)
Untouched(r) ==
  /\ status'[r] = status[r] /\ log'[r] = log[r] /\ inflight'[r] = inflight[r]
  /\ stale'[r] = stale[r] /\ drop'[r] = drop[r] /\ placeholders'[r] = placeholders[r]
  /\ next'[r] = next[r]
SameOutputs(r) ==
  /\ Len(flight') = Len(flight) /\ TokensIn(r)' = TokensIn(r)
  /\ SampledIn(r)' = SampledIn(r) /\ PositionsIn(r)' = PositionsIn(r)

(* A request keeps its ledger when neither it nor its outputs change.         *)
LEMMA Frame ==
  ASSUME NEW r \in Requests, RequestOk(r), Untouched(r), SameOutputs(r)
  PROVE  RequestOk(r)'
<1>1. NumTokens(r)' = NumTokens(r) /\ (Alive(r)' <=> Alive(r))
  BY DEF Untouched, NumTokens, Alive
<1>2. Ledger(r) => Ledger(r)'
  BY <1>1 DEF Untouched, SameOutputs, Ledger
<1>3. QED
  BY <1>1, <1>2 DEF RequestOk, Untouched, SameOutputs

(* Steps that touch neither outputs nor what they count.                        *)
LEMMA QuietSteps ==
  ASSUME OutputInv, UNCHANGED <<status, log, inflight, stale, drop, placeholders, next,
                                flight, cur>>,
         pc' = "update" <=> pc = "update"
  PROVE  OutputShapes' /\ \A r \in Requests : RequestOk(r)'
<1>1. OutputShapes'
  BY DEF OutputInv, OutputShapes, OutputShape
<1>2. ASSUME NEW r \in Requests PROVE RequestOk(r)'
  <2>1. Untouched(r)
    BY DEF Untouched
  <2>2. SameOutputs(r)
    BY DEF SameOutputs, TokensIn, SampledIn, PositionsIn
  <2>3. QED
    BY <2>1, <2>2, Frame DEF OutputInv
<1>3. QED
  BY <1>1, <1>2

(* Steps that leave the outputs alone and touch one request.                    *)
LEMMA OneRequest ==
  ASSUME OutputInv, UNCHANGED <<flight, cur>>, pc' = "update" <=> pc = "update",
         NEW q \in Requests, RequestOk(q)',
         \A r \in Requests : r # q => Untouched(r)
  PROVE  OutputShapes' /\ \A r \in Requests : RequestOk(r)'
<1>1. OutputShapes'
  BY DEF OutputInv, OutputShapes, OutputShape
<1>2. ASSUME NEW r \in Requests, r # q PROVE RequestOk(r)'
  <2>1. Untouched(r)
    BY <1>2
  <2>2. SameOutputs(r)
    BY DEF SameOutputs, TokensIn, SampledIn, PositionsIn
  <2>3. QED
    BY <2>1, <2>2, Frame DEF OutputInv
<1>3. QED
  BY <1>1, <1>2

(* A request's outputs stay when no output changes.                           *)
LEMMA SameOutputsWhen ==
  ASSUME UNCHANGED <<flight, cur>>, NEW r
  PROVE  SameOutputs(r)
  BY DEF SameOutputs, TokensIn, SampledIn, PositionsIn

(* Arrivals, aborts, pauses and the ends of a reset keep every ledger.        *)
LEMMA OutsideOutput ==
  ASSUME OutputInv,
         \/ \E r \in Requests : AddRequest(r) \/ AbortRequest(r)
         \/ \E p \in PauseStates : SetPauseState(p)
         \/ BeginReset \/ EndReset
  PROVE  OutputShapes' /\ \A r \in Requests : RequestOk(r)'
<1>0. /\ Types /\ status \in [Requests -> Statuses] /\ log \in [Requests -> Seq(Int)]
      /\ inflight \in Counters /\ stale \in Counters /\ placeholders \in Counters
      /\ drop \in [Requests -> BOOLEAN] /\ next \in Counters
  BY QueueFacts DEF OutputInv, Types, RequestTypes, EngineTypes
<1>1. ASSUME NEW q \in Requests, AddRequest(q)
      PROVE  OutputShapes' /\ \A r \in Requests : RequestOk(r)'
  <2>1. /\ UNCHANGED <<flight, cur, log, inflight, stale, drop, placeholders, next, pc>>
        /\ status' = [status EXCEPT ![q] = "WAITING"] /\ status[q] = "NEW"
    BY <1>1 DEF AddRequest, tokenVars
  <2>2. \A r \in Requests : r # q => Untouched(r)
    BY <1>0, <2>1 DEF Untouched
  <2>3. RequestOk(q)
    BY DEF OutputInv
  <2>4. /\ inflight[q] = 0 /\ stale[q] = 0 /\ placeholders[q] = 0 /\ log[q] = <<>>
        /\ \A i \in 0..Len(flight) : TokensIn(q)[i] = 0 /\ SampledIn(q)[i] = 0
        /\ LogOf(Prompt[q], MaxTokens[q], log[q])
    BY <2>1, <2>3 DEF RequestOk
  <2>5. status'[q] = "WAITING"
    BY <1>0, <2>1
  <2>6. Len(flight) \in Nat
    BY <1>0, OutputFacts
  <2>7. LedgerOf(Len(flight), TokensIn(q), SampledIn(q), PositionsIn(q), NumTokens(q),
                 "WAITING", 0, 0, drop[q], 0, next[q])
    BY <2>4, <2>6, LedgerStart
  <2>8. Ledger(q)'
    <3>1. SameOutputs(q) /\ NumTokens(q)' = NumTokens(q)
      BY <2>1, SameOutputsWhen DEF NumTokens
    <3>2. QED
      BY <2>1, <2>4, <2>5, <2>7, <3>1 DEF Ledger, SameOutputs
  <2>9. Len(log[q]) < MaxTokens[q]
    BY <2>4, RequestsAssumption
  <2>10. RequestOk(q)'
    BY <2>1, <2>4, <2>5, <2>8, <2>9 DEF RequestOk
  <2>11. QED
    BY <2>1, <2>2, <2>10, OneRequest
<1>2. ASSUME NEW q \in Requests, AbortRequest(q)
      PROVE  OutputShapes' /\ \A r \in Requests : RequestOk(r)'
  <2>1. UNCHANGED <<flight, cur, log, next, pc>> /\ Finish(q)
    BY <1>2 DEF AbortRequest
  <2>2. \A r \in Requests : r # q => Untouched(r)
    BY <1>0, <2>1 DEF Untouched, Finish, Counters
  <2>3. status'[q] = "FINISHED"
    BY <1>0, <2>1 DEF Finish
  <2>4. RequestOk(q)'
    BY <2>1, <2>3 DEF OutputInv, RequestOk, Alive
  <2>5. QED
    BY <2>1, <2>2, <2>4, OneRequest
<1>3. CASE (\E p \in PauseStates : SetPauseState(p)) \/ BeginReset \/ EndReset
  BY <1>3, QuietSteps DEF SetPauseState, BeginReset, EndReset, tokenVars
<1>4. QED
  BY <1>1, <1>2, <1>3

(* Preempting a request keeps its ledger: what is in flight becomes stale.    *)
LEMMA PreemptOutput ==
  ASSUME OutputInv, NEW v \in ToSet(running), NEW b \in BOOLEAN, Preempt(v, b),
         UNCHANGED <<flight, cur, next, pc>>
  PROVE  OutputShapes' /\ \A r \in Requests : RequestOk(r)'
<1>0. /\ Types /\ status \in [Requests -> Statuses] /\ running \in Seq(Requests)
      /\ inflight \in Counters /\ stale \in Counters /\ placeholders \in Counters
      /\ drop \in [Requests -> BOOLEAN]
  BY QueueFacts DEF OutputInv, Types, RequestTypes, EngineTypes
<1>1. v \in Requests /\ status[v] = "RUNNING"
  <2>1. v \in Requests
    BY <1>0, ElementOfSeq DEF ToSet
  <2>2. QED
    BY <2>1 DEF OutputInv, QueueInv, QueuesByStatus
<1>2. /\ status' = [status EXCEPT ![v] = "PREEMPTED"]
      /\ drop' = [drop EXCEPT ![v] = DropAfter(v, b)]
      /\ stale' = [stale EXCEPT ![v] = inflight[v]]
      /\ placeholders' = [placeholders EXCEPT ![v] = 0]
      /\ UNCHANGED <<log, inflight>>
  BY DEF Preempt
<1>3. \A r \in Requests : r # v => Untouched(r)
  BY <1>0, <1>2 DEF Untouched, Counters
<1>4. RequestOk(v) /\ Alive(v)
  BY <1>1 DEF OutputInv, Alive
<1>5. /\ Ledger(v) /\ Len(log[v]) < MaxTokens[v]
      /\ LogOf(Prompt[v], MaxTokens[v], log[v])
  BY <1>4 DEF RequestOk
<1>6. /\ status'[v] = "PREEMPTED" /\ drop'[v] = DropAfter(v, b) /\ stale'[v] = inflight[v]
      /\ placeholders'[v] = 0
  BY <1>0, <1>1, <1>2 DEF Counters
<1>7. drop[v] /\ stale[v] > 0 => drop'[v]
  BY <1>6 DEF DropAfter
<1>8. /\ Len(flight) \in Nat /\ TokensIn(v) \in [0..Len(flight) -> Nat]
      /\ SampledIn(v) \in [0..Len(flight) -> Nat]
      /\ Fed(Len(flight), TokensIn(v), SampledIn(v))
  BY <1>0, <1>1, InTypes, OutputFacts, SampledAreFed DEF OutputInv
<1>9. LedgerOf(Len(flight), TokensIn(v), SampledIn(v), PositionsIn(v), NumTokens(v),
               "RUNNING", inflight[v], stale[v], drop[v], placeholders[v], next[v])
  BY <1>1, <1>5 DEF Ledger
<1>10. LedgerOf(Len(flight), TokensIn(v), SampledIn(v), PositionsIn(v), NumTokens(v),
                "PREEMPTED", inflight[v], inflight[v], drop'[v], 0, next[v])
  BY <1>7, <1>8, <1>9, LedgerPreempt
<1>11. Ledger(v)'
  <2>1. SameOutputs(v) /\ NumTokens(v)' = NumTokens(v)
    BY <1>2, SameOutputsWhen DEF NumTokens
  <2>2. QED
    BY <1>2, <1>6, <1>10, <2>1 DEF Ledger, SameOutputs
<1>12. RequestOk(v)'
  BY <1>2, <1>5, <1>6, <1>11 DEF RequestOk
<1>13. QED
  BY <1>1, <1>3, <1>12, OneRequest

(* The steps of schedule() that neither preempt nor admit keep every ledger.  *)
LEMMA LoopOutput ==
  ASSUME OutputInv,
         \/ BeginSchedule \/ SkipRunning \/ ScheduleRunning \/ EndRunningLoop
         \/ SkipUndelivered \/ StopAdmitting \/ EndWaitingLoop
  PROVE  OutputShapes' /\ \A r \in Requests : RequestOk(r)'
<1>1. UNCHANGED <<status, log, inflight, stale, drop, placeholders, next, flight, cur>>
  BY DEF BeginSchedule, SkipRunning, ScheduleRunning, EndRunningLoop, SkipUndelivered,
         StopAdmitting, EndWaitingLoop, tokenVars
<1>2. pc # "update" /\ pc' # "update"
  BY DEF BeginSchedule, SkipRunning, ScheduleRunning, EndRunningLoop, SkipUndelivered,
         StopAdmitting, EndWaitingLoop, InRunningLoop, InWaitingLoop
<1>3. QED
  BY <1>1, <1>2, QuietSteps

(* Both callers of _preempt_request keep every ledger.                        *)
LEMMA PreemptStepsOutput ==
  ASSUME OutputInv, PreemptForRoom \/ ResetOne
  PROVE  OutputShapes' /\ \A r \in Requests : RequestOk(r)'
<1>0. Types /\ running \in Seq(Requests)
  BY QueueFacts DEF OutputInv
<1>1. CASE PreemptForRoom
  <2>1. running # <<>>
    BY <1>0, <1>1, CurrentFacts DEF PreemptForRoom
  <2>2. Victim \in ToSet(running)
    BY <1>0, <2>1, VictimIsRunning
  <2>3. Preempt(Victim, DropOnPreempt) /\ UNCHANGED <<flight, cur, next, pc>>
    BY <1>1 DEF PreemptForRoom
  <2>4. DropOnPreempt \in BOOLEAN
    BY SwitchesAssumption
  <2>5. QED
    BY <2>2, <2>3, <2>4, PreemptOutput
<1>2. CASE ResetOne
  <2>1. Last(running) \in ToSet(running)
    BY <1>0, <1>2, VictimIsRunning DEF ResetOne
  <2>2. Preempt(Last(running), TRUE) /\ UNCHANGED <<flight, cur, next, pc>>
    BY <1>2 DEF ResetOne
  <2>3. QED
    BY <2>1, <2>2, PreemptOutput
<1>3. QED
  BY <1>1, <1>2

(* Admitting a request keeps its ledger: it has no stale output, or they will *)
(* be dropped.                                                                *)
LEMMA AdmitOutput ==
  ASSUME OutputInv, Admit
  PROVE  OutputShapes' /\ \A r \in Requests : RequestOk(r)'
<1>0. /\ Types /\ QueueInv /\ status \in [Requests -> Statuses]
      /\ stale \in Counters /\ drop \in [Requests -> BOOLEAN]
  BY QueueFacts DEF OutputInv, Types, RequestTypes
<1>a. Candidate \in Requests /\ status[Candidate] \in {"WAITING", "PREEMPTED"}
  BY <1>0, PopQueues DEF Admit, InWaitingLoop
<1>b. PICK v \in Requests : v = Candidate
  BY <1>a
<1>1. status[v] \in {"WAITING", "PREEMPTED"}
  BY <1>a, <1>b
<1>2. /\ UNCHANGED <<flight, cur, log, inflight, stale, drop, placeholders, next, pc>>
      /\ status' = [status EXCEPT ![v] = "RUNNING"]
  BY <1>b DEF Admit
<1>3. ~(stale[v] > 0 /\ ~drop[v])
  BY <1>b DEF Admit, Undelivered
<1>4. \A r \in Requests : r # v => Untouched(r)
  BY <1>0, <1>1, <1>2 DEF Untouched
<1>5. /\ Ledger(v) /\ Len(log[v]) < MaxTokens[v]
      /\ LogOf(Prompt[v], MaxTokens[v], log[v])
  BY <1>1 DEF OutputInv, RequestOk, Alive
<1>6. LedgerOf(Len(flight), TokensIn(v), SampledIn(v), PositionsIn(v), NumTokens(v),
               status[v], inflight[v], stale[v], drop[v], placeholders[v], next[v])
  BY <1>5 DEF Ledger
<1>7. stale[v] \in Nat
  BY <1>6 DEF LedgerOf, LedgerWith, Counts
<1>8. stale[v] = 0 \/ drop[v]
  BY <1>3, <1>7
<1>9. Len(flight) \in Nat
  BY <1>0, OutputFacts
<1>10. LedgerOf(Len(flight), TokensIn(v), SampledIn(v), PositionsIn(v), NumTokens(v),
                "RUNNING", inflight[v], stale[v], drop[v], placeholders[v], next[v])
  BY <1>1, <1>6, <1>8, <1>9, LedgerAdmit
<1>11. status'[v] = "RUNNING"
  BY <1>0, <1>1, <1>2
<1>12. Ledger(v)'
  <2>1. SameOutputs(v) /\ NumTokens(v)' = NumTokens(v)
    BY <1>2, SameOutputsWhen DEF NumTokens
  <2>2. QED
    BY <1>2, <1>10, <1>11, <2>1 DEF Ledger, SameOutputs
<1>13. RequestOk(v)'
  BY <1>2, <1>5, <1>11, <1>12 DEF RequestOk
<1>14. QED
  BY <1>1, <1>2, <1>4, <1>13, OneRequest

-----------------------------------------------------------------------------
(* What the end of schedule() does, request by request.                         *)
Effect(o, samples) ==
  /\ flight' = IF step.order # <<>> THEN Append(flight, o) ELSE flight
  /\ o.order = step.order /\ o.n = step.n /\ o.drafts = step.drafts
  /\ \A r \in Requests :
       /\ r \in samples <=> /\ step.n[r] > 0
                            /\ ~(computed[r] + step.n[r] < NumTokens(r) + placeholders[r])
       /\ o.pos[r] = IF r \in samples THEN IF placeholders[r] = 0 THEN NumTokens(r) ELSE 0
                     ELSE -1
       /\ inflight'[r] = inflight[r] + step.n[r]
       /\ computed'[r] = computed[r] + step.n[r]
       /\ placeholders'[r] = IF r \in samples THEN placeholders[r] + 1 + step.drafts[r]
                             ELSE placeholders[r]
       /\ spec'[r] = IF r \in samples THEN NumSpec ELSE spec[r]
       /\ step.n[r] > 0 => (chunk'[r] <=> r \notin samples)
       /\ ~(step.n[r] > 0) => chunk'[r] = chunk[r]
  /\ pc = "finish" /\ pc' = "idle" /\ step' = NoStep
  /\ UNCHANGED <<status, log, stale, drop, next, cur, blocks, running>>

(* The end of schedule() has the effect just defined.                         *)
LEMMA EndScheduleEffect ==
  ASSUME Types, EndSchedule
  PROVE  \E o \in StepOutput, samples \in SUBSET Requests : Effect(o, samples)
<1> DEFINE Ran(r) == step.n[r] > 0
           nonEmpty == step.order # <<>>
           done == [r \in Requests |-> computed[r] + step.n[r]]
           stillPrefill == [r \in Requests |->
             IF Ran(r) THEN done[r] < NumTokens(r) + placeholders[r] ELSE chunk[r]]
           samples == {r \in Requests : Ran(r) /\ ~stillPrefill[r]}
           at == [r \in Requests |->
                    IF r \in samples
                      THEN IF placeholders[r] = 0 THEN NumTokens(r) ELSE 0
                      ELSE -1]
           writes == [r \in Requests |-> IF Ran(r) THEN blocks[r] ELSE {}]
           output == [order |-> step.order, n |-> step.n, drafts |-> step.drafts,
                      pos |-> at, writes |-> writes]
<1>1. /\ computed' = done
      /\ inflight' = [r \in Requests |-> inflight[r] + step.n[r]]
      /\ chunk' = stillPrefill
      /\ placeholders' = [r \in Requests |->
           IF r \in samples THEN placeholders[r] + 1 + step.drafts[r]
           ELSE placeholders[r]]
      /\ spec' = [r \in Requests |-> IF r \in samples THEN NumSpec ELSE spec[r]]
      /\ flight' = IF nonEmpty THEN Append(flight, output) ELSE flight
      /\ pc = "finish" /\ pc' = "idle" /\ step' = NoStep
      /\ UNCHANGED <<status, log, stale, drop, next, cur, blocks, running>>
  BY DEF EndSchedule, queueVars
<1>2. \A r \in Requests : done[r] = computed[r] + step.n[r]
  OBVIOUS
<1>3. \A r \in Requests :
        /\ Ran(r) => (stillPrefill[r] <=> computed[r] + step.n[r] < NumTokens(r) + placeholders[r])
        /\ ~Ran(r) => stillPrefill[r] = chunk[r]
  <2> TAKE r \in Requests
  <2> DEFINE below == done[r] < NumTokens(r) + placeholders[r]
  <2>1. stillPrefill[r] = IF Ran(r) THEN below ELSE chunk[r]
    OBVIOUS
  <2>2. below <=> computed[r] + step.n[r] < NumTokens(r) + placeholders[r]
    BY <1>2
  <2> HIDE DEF stillPrefill, Ran, below
  <2>3. QED
    BY <2>1, <2>2, Zenon
<1> HIDE DEF stillPrefill, done
<1>4. \A r \in Requests :
        /\ r \in samples <=> /\ Ran(r)
                             /\ ~(computed[r] + step.n[r] < NumTokens(r) + placeholders[r])
        /\ Ran(r) => (stillPrefill[r] <=> r \notin samples)
  BY <1>3
<1>5. samples \in SUBSET Requests
  OBVIOUS
<1>6. output \in StepOutput
  <2>1. /\ step.order \in Seq(Requests)
        /\ step.n \in [Requests -> Nat] /\ step.drafts \in [Requests -> Nat]
    BY StepFieldTypes
  <2>2. blocks \in [Requests -> SUBSET Blocks]
    BY DEF Types, BlockTypes
  <2>3. \A r \in Requests : NumTokens(r) \in Int
    BY TokensAreNumbers
  <2> HIDE DEF samples
  <2>4. at \in [Requests -> Int] /\ writes \in [Requests -> SUBSET Blocks]
    BY <2>2, <2>3
  <2> HIDE DEF at, writes
  <2>5. QED
    BY <2>1, <2>4 DEF StepOutput
<1>7. /\ output.order = step.order /\ output.n = step.n /\ output.drafts = step.drafts
      /\ output.pos = at
  OBVIOUS
<1> HIDE DEF output
<1>8. \A r \in Requests :
        output.pos[r] = IF r \in samples THEN IF placeholders[r] = 0 THEN NumTokens(r) ELSE 0
                        ELSE -1
  BY <1>7
<1> HIDE DEF samples, at
<1>9. \A r \in Requests :
       /\ inflight'[r] = inflight[r] + step.n[r]
       /\ computed'[r] = computed[r] + step.n[r]
       /\ placeholders'[r] = IF r \in samples THEN placeholders[r] + 1 + step.drafts[r]
                             ELSE placeholders[r]
       /\ spec'[r] = IF r \in samples THEN NumSpec ELSE spec[r]
  BY <1>1, <1>2
<1>10. \A r \in Requests :
       /\ Ran(r) => (chunk'[r] <=> r \notin samples)
       /\ ~Ran(r) => chunk'[r] = chunk[r]
  <2>1. chunk' = stillPrefill
    BY <1>1
  <2> HIDE DEF Ran
  <2>2. QED
    BY <1>3, <1>4, <2>1
<1>11. Effect(output, samples)
  BY <1>1, <1>4, <1>7, <1>8, <1>9, <1>10 DEF Effect
<1>12. QED
  BY <1>5, <1>6, <1>11

(* InTypes and InValues as state formulas, for use in the next state.            *)
OutputsTyped ==
  \A r \in Requests : /\ TokensIn(r) \in [0..Len(flight) -> Nat]
                      /\ SampledIn(r) \in [0..Len(flight) -> Nat]
                      /\ PositionsIn(r) \in [0..Len(flight) -> Int]
OutputValues ==
  \A r \in Requests :
    /\ TokensIn(r)[0] = IF r \in ToSet(cur.order) THEN cur.n[r] ELSE 0
    /\ SampledIn(r)[0] = IF r \in ToSet(cur.order) /\ cur.pos[r] >= 0
                           THEN 1 + cur.drafts[r] ELSE 0
    /\ PositionsIn(r)[0] = IF r \in ToSet(cur.order) THEN cur.pos[r] ELSE 0
    /\ \A i \in 1..Len(flight) :
         /\ TokensIn(r)[i] = flight[i].n[r]
         /\ SampledIn(r)[i] = IF flight[i].pos[r] >= 0 THEN 1 + flight[i].drafts[r] ELSE 0
         /\ PositionsIn(r)[i] = flight[i].pos[r]

(* InTypes, in the next state.                                                *)
LEMMA InNextTypes ==
  Types' => \A r \in Requests :
              /\ TokensIn(r)' \in [0..Len(flight') -> Nat]
              /\ SampledIn(r)' \in [0..Len(flight') -> Nat]
              /\ PositionsIn(r)' \in [0..Len(flight') -> Int]
<1>1. Types => OutputsTyped
  BY InTypes DEF OutputsTyped
<1>2. Types' => OutputsTyped'
  BY <1>1, PTL
<1>3. QED
  BY <1>2 DEF OutputsTyped

(* InValues, in the next state.                                               *)
LEMMA InNextValues ==
  Types' => \A r \in Requests :
    /\ TokensIn(r)'[0] = IF r \in ToSet(cur'.order) THEN cur'.n[r] ELSE 0
    /\ SampledIn(r)'[0] = IF r \in ToSet(cur'.order) /\ cur'.pos[r] >= 0
                           THEN 1 + cur'.drafts[r] ELSE 0
    /\ PositionsIn(r)'[0] = IF r \in ToSet(cur'.order) THEN cur'.pos[r] ELSE 0
    /\ \A i \in 1..Len(flight') :
         /\ TokensIn(r)'[i] = flight'[i].n[r]
         /\ SampledIn(r)'[i] = IF flight'[i].pos[r] >= 0 THEN 1 + flight'[i].drafts[r] ELSE 0
         /\ PositionsIn(r)'[i] = flight'[i].pos[r]
<1>1. Types => OutputValues
  BY InValues DEF OutputValues
<1>2. Types' => OutputValues'
  BY <1>1, PTL
<1>3. (ToSet(cur.order))' = ToSet(cur'.order)
  BY DEF ToSet
<1>4. QED
  BY <1>2, <1>3 DEF OutputValues

(* The output the end of schedule() puts in flight names each request once.   *)
LEMMA EndScheduleShapes ==
  ASSUME OutputInv, NEW o \in StepOutput, NEW samples \in SUBSET Requests, Effect(o, samples)
  PROVE  /\ OutputShapes'
         /\ \A r \in Requests : step.n[r] \in Nat /\ (r \in samples => step.n[r] > 0)
         /\ step.order = <<>> => \A r \in Requests : step.n[r] = 0
         /\ \A r \in Requests : status[r] # "RUNNING" => step.n[r] = 0
<1>1. /\ Types /\ StepDistinct /\ step.order \in Seq(Requests) /\ step.n \in [Requests -> Nat]
      /\ flight \in Seq(StepOutput) /\ Len(flight) \in Nat
  BY QueueFacts, OutputFacts DEF OutputInv, QueueInv
<1>2. \A r \in Requests : step.n[r] \in Nat /\ (r \in samples => step.n[r] > 0)
  BY <1>1 DEF Effect
<1>3. step.order = <<>> => \A r \in Requests : step.n[r] = 0
  BY <1>1, <1>2, EmptySets DEF StepDistinct
<1>4. \A r \in Requests : status[r] # "RUNNING" => step.n[r] = 0
  BY <1>1, <1>2 DEF StepDistinct
<1>5. OutputShape(o)
  <2>1. \A r \in Requests : o.n[r] = 0 => o.pos[r] < 0
    <3> TAKE r \in Requests
    <3>1. HAVE o.n[r] = 0
    <3>2. r \notin samples
      BY <1>2, <3>1 DEF Effect
    <3>3. o.pos[r] = -1
      BY <3>2 DEF Effect
    <3>4. QED
      BY <3>3
  <2>2. QED
    BY <1>1, <2>1 DEF OutputShape, Effect, StepDistinct
<1>6. \A i \in 1..Len(flight') : OutputShape(flight'[i])
  <2>1. CASE step.order # <<>>
    <3>1. flight' = Append(flight, o)
      BY <2>1 DEF Effect
    <3>2. /\ Len(flight') = Len(flight) + 1 /\ flight'[Len(flight) + 1] = o
          /\ \A i \in 1..Len(flight) : flight'[i] = flight[i]
      BY <1>1, <3>1, AppendProperties
    <3>3. \A i \in 1..Len(flight') : i \in 1..Len(flight) \/ i = Len(flight) + 1
      BY <1>1, <3>2
    <3>4. QED
      BY <1>5, <3>2, <3>3 DEF OutputInv, OutputShapes
  <2>2. CASE step.order = <<>>
    BY <2>2 DEF Effect, OutputInv, OutputShapes
  <2>3. QED
    BY <2>1, <2>2
<1>7. cur' = cur /\ cur.order = <<>> /\ pc = "finish"
  BY DEF Effect, OutputInv, OutputShapes
<1>8. OutputShapes'
  <2>1. IsInjective(cur'.order) /\ (\A r \in ToSet(cur'.order) : cur'.n[r] > 0)
    BY <1>7, EmptySets
  <2>2. (\A i \in 1..Len(flight) : OutputShape(flight[i]))'
    BY <1>6 DEF OutputShape
  <2>3. QED
    BY <1>7, <2>1, <2>2 DEF OutputShapes
<1>9. QED
  BY <1>2, <1>3, <1>4, <1>8

(* The end of schedule() enters the new output in every ledger.               *)
LEMMA EndScheduleOutput ==
  ASSUME OutputInv, EndSchedule
  PROVE  OutputShapes' /\ \A r \in Requests : RequestOk(r)'
<1>0. /\ Types /\ inflight \in [Requests -> Int] /\ placeholders \in [Requests -> Int]
      /\ step.drafts \in [Requests -> Nat] /\ flight \in Seq(StepOutput)
      /\ Len(flight) \in Nat
  BY QueueFacts, StepFieldTypes, OutputFacts DEF OutputInv, Types, RequestTypes, Counters
<1>1. PICK o \in StepOutput, samples \in SUBSET Requests : Effect(o, samples)
  BY <1>0, EndScheduleEffect
<1>2. /\ OutputShapes'
      /\ \A r \in Requests : step.n[r] \in Nat /\ (r \in samples => step.n[r] > 0)
      /\ step.order = <<>> => \A r \in Requests : step.n[r] = 0
      /\ \A r \in Requests : status[r] # "RUNNING" => step.n[r] = 0
  BY <1>1, EndScheduleShapes
<1>3. Types'
  BY <1>0, EndScheduleTypes
<1>4. ASSUME step.order = <<>>, NEW r \in Requests PROVE RequestOk(r)'
  <2>1. UNCHANGED <<flight, cur>>
    BY <1>1, <1>4 DEF Effect
  <2>2. step.n[r] = 0 /\ r \notin samples /\ inflight[r] \in Int
    BY <1>0, <1>2, <1>4
  <2>3. inflight'[r] = inflight[r] + 0 /\ placeholders'[r] = placeholders[r]
    BY <1>1, <2>2 DEF Effect
  <2>4. Untouched(r)
    <3>1. inflight[r] + 0 = inflight[r]
      BY <2>2
    <3>2. QED
      BY <1>1, <2>3, <3>1 DEF Untouched, Effect
  <2>5. QED
    BY <2>1, <2>4, SameOutputsWhen, Frame DEF OutputInv
<1>5. ASSUME step.order # <<>>, NEW r \in Requests PROVE RequestOk(r)'
  <2> DEFINE L == Len(flight)
             N == TokensIn(r)'
             A == SampledIn(r)'
             P == PositionsIn(r)'
  <2>1. flight' = Append(flight, o) /\ UNCHANGED <<cur, status, log, stale, drop, next>>
    BY <1>1, <1>5 DEF Effect
  <2>2. /\ Len(flight') = L + 1 /\ flight'[L + 1] = o
        /\ \A i \in 1..L : flight'[i] = flight[i]
    BY <1>0, <2>1, AppendProperties
  <2>3. /\ N \in [0..(L + 1) -> Nat] /\ A \in [0..(L + 1) -> Nat] /\ P \in [0..(L + 1) -> Int]
    BY <1>3, <2>2, InNextTypes
  <2>4. /\ TokensIn(r) \in [0..L -> Nat] /\ SampledIn(r) \in [0..L -> Nat]
        /\ PositionsIn(r) \in [0..L -> Int]
    BY <1>0, InTypes
  <2>5. L + 1 \in 1..(L + 1) /\ \A i \in 1..L : i \in 1..(L + 1)
    BY <1>0
  <2>6. /\ N[L + 1] = o.n[r] /\ P[L + 1] = o.pos[r]
        /\ A[L + 1] = IF o.pos[r] >= 0 THEN 1 + o.drafts[r] ELSE 0
    BY <1>3, <2>2, <2>5, InNextValues
  <2>7. Prolongs(L, TokensIn(r), SampledIn(r), PositionsIn(r), N, A, P)
    <3>1. N[0] = TokensIn(r)[0] /\ A[0] = SampledIn(r)[0] /\ P[0] = PositionsIn(r)[0]
      BY <1>0, <1>3, <2>1, InValues, InNextValues
    <3>2. \A i \in 1..L : N[i] = TokensIn(r)[i] /\ A[i] = SampledIn(r)[i]
                          /\ P[i] = PositionsIn(r)[i]
      BY SMTT(30), <1>0, <1>3, <2>2, <2>5, InValues, InNextValues
    <3>3. \A i \in 0..L : i = 0 \/ i \in 1..L
      BY <1>0
    <3> HIDE DEF L, N, A, P
    <3>4. QED
      BY <3>1, <3>2, <3>3 DEF Prolongs
  <2> DEFINE n == step.n[r]
             d == step.drafts[r]
  <2>8. n \in Nat /\ d \in Nat /\ inflight[r] \in Int /\ placeholders[r] \in Int
    BY <1>0, <1>2
  <2>9. /\ r \in samples => n > 0
        /\ r \in samples => /\ P[L + 1] = IF placeholders[r] = 0 THEN NumTokens(r) ELSE 0
                            /\ placeholders'[r] = placeholders[r] + 1 + d
        /\ r \notin samples => P[L + 1] = -1 /\ placeholders'[r] = placeholders[r]
        /\ N[L + 1] = n /\ inflight'[r] = inflight[r] + n /\ o.drafts[r] = d
    BY <1>1, <1>2, <2>6 DEF Effect
  <2>10. NumTokens(r) \in Nat
    BY <1>0, LenProperties, RequestsAssumption DEF NumTokens, Types, RequestTypes
  <2>11. /\ r \in samples => A[L + 1] = 1 + d
         /\ r \notin samples => A[L + 1] = 0
    <3>1. o.pos[r] = P[L + 1]
      BY <2>6
    <3>2. r \in samples => o.pos[r] >= 0
      BY <2>9, <2>10, <3>1
    <3>3. r \notin samples => ~(o.pos[r] >= 0)
      BY <2>9, <3>1
    <3> HIDE DEF L, N, A, P
    <3>4. QED
      BY <2>6, <2>9, <3>2, <3>3
  <2>12. Continues(A[L + 1], P[L + 1], placeholders[r], NumTokens(r))
    <3> HIDE DEF L, N, A, P
    <3>1. QED
      BY <2>9, <2>11 DEF Continues
  <2>13. placeholders'[r] = placeholders[r] + A[L + 1] /\ inflight'[r] = inflight[r] + N[L + 1]
    <3> HIDE DEF L, N, A, P, n, d
    <3>1. placeholders[r] + 0 = placeholders[r]
          /\ placeholders[r] + 1 + d = placeholders[r] + (1 + d)
      BY <2>8
    <3>2. QED
      BY <2>9, <2>11, <3>1
  <2>14. status[r] # "RUNNING" => N[L + 1] = 0 /\ A[L + 1] = 0
    <3> HIDE DEF L, N, A, P
    <3>1. QED
      BY <1>2, <2>9, <2>11
  <2> HIDE DEF n, d
  <2>15. Ledger(r) => Ledger(r)'
    <3>1. NumTokens(r)' = NumTokens(r)
      BY <2>1 DEF NumTokens
    <3>2. ASSUME Ledger(r)
          PROVE  LedgerOf(L + 1, N, A, P, NumTokens(r), status[r], inflight[r] + N[L + 1],
                          stale[r], drop[r], placeholders[r] + A[L + 1], next[r])
      <4>1. LedgerOf(L, TokensIn(r), SampledIn(r), PositionsIn(r), NumTokens(r), status[r],
                     inflight[r], stale[r], drop[r], placeholders[r], next[r])
        BY <3>2 DEF Ledger
      <4>2. L \in Nat
        BY <1>0
      <4> HIDE DEF L, N, A, P
      <4>3. QED
        BY <2>3, <2>4, <2>7, <2>12, <2>14, <4>1, <4>2, LedgerGrow
    <3>3. QED
      BY <2>1, <2>2, <2>13, <3>1, <3>2 DEF Ledger
  <2>16. status[r] = "NEW" =>
           /\ inflight'[r] = inflight[r] /\ placeholders'[r] = placeholders[r]
           /\ (\A i \in 0..L : TokensIn(r)[i] = 0 /\ SampledIn(r)[i] = 0) =>
                 \A i \in 0..(L + 1) : N[i] = 0 /\ A[i] = 0
    <3>1. HAVE status[r] = "NEW"
    <3>2. N[L + 1] = 0 /\ A[L + 1] = 0
      BY <2>14, <3>1
    <3>3. inflight[r] + 0 = inflight[r] /\ placeholders[r] + 0 = placeholders[r]
      BY <2>8
    <3>4. \A i \in 0..(L + 1) : i \in 0..L \/ i = L + 1
      BY <1>0
    <3> HIDE DEF L, N, A, P
    <3>5. QED
      BY <2>7, <2>13, <3>2, <3>3, <3>4 DEF Prolongs
  <2>17. RequestOk(r)
    BY DEF OutputInv
  <2>18. QED
    BY <2>1, <2>2, <2>15, <2>16, <2>17 DEF RequestOk, Alive
<1>6. QED
  BY <1>2, <1>4, <1>5
-----------------------------------------------------------------------------
(* update_from_output() *)

(* Taking the oldest output off the queue shifts every ledger.                *)
LEMMA BeginUpdateOutput ==
  ASSUME OutputInv, BeginUpdate
  PROVE  OutputShapes' /\ \A r \in Requests : RequestOk(r)'
<1>0. Types /\ flight \in Seq(StepOutput) /\ cur.order = <<>>
  BY QueueFacts, OutputFacts DEF OutputInv, OutputShapes, BeginUpdate
<1>1. /\ cur' = Head(flight) /\ flight' = Tail(flight) /\ flight # <<>> /\ pc' = "update"
      /\ UNCHANGED <<status, log, inflight, stale, drop, placeholders, next>>
  BY DEF BeginUpdate, tokenVars
<1> DEFINE L == Len(flight)
<1>2. /\ L \in Nat \ {0} /\ Len(flight') = L - 1 /\ cur' = flight[1]
      /\ \A i \in 1..(L - 1) : flight'[i] = flight[i + 1]
  BY <1>0, <1>1, TailFacts
<1>3. Types'
  BY <1>0, UpdateTypes
<1>4. 1 \in 1..L /\ \A i \in 1..(L - 1) : i + 1 \in 1..L
  BY <1>2
<1>5. \A i \in 1..L : OutputShape(flight[i])
  BY DEF OutputInv, OutputShapes
<1>6. OutputShapes'
  <2>1. (\A i \in 1..Len(flight) : OutputShape(flight[i]))'
    BY SMTT(30), <1>2, <1>4, <1>5 DEF OutputShape
  <2>2. IsInjective(cur'.order) /\ \A r \in ToSet(cur'.order) : cur'.n[r] > 0
    <3>1. \A r \in ToSet(flight[1].order) : r \in Requests
      BY <1>0, <1>4, OutputFacts, ElementOfSeq DEF ToSet
    <3>2. QED
      BY <1>2, <1>4, <1>5, <3>1 DEF OutputShape
  <2>3. QED
    BY <1>1, <2>1, <2>2 DEF OutputShapes
<1>7. ASSUME NEW r \in Requests PROVE RequestOk(r)'
  <2> DEFINE N == TokensIn(r)'
             A == SampledIn(r)'
             P == PositionsIn(r)'
  <2>1. /\ N \in [0..(L - 1) -> Nat] /\ A \in [0..(L - 1) -> Nat]
    BY <1>2, <1>3, InNextTypes
  <2>2. TokensIn(r) \in [0..L -> Nat] /\ SampledIn(r) \in [0..L -> Nat]
    BY <1>0, InTypes
  <2>3. OutputShape(flight[1])
    BY <1>4, <1>5
  <2>4. /\ TokensIn(r)[0] = 0 /\ SampledIn(r)[0] = 0
    BY <1>0, InValues, EmptySets
  <2>5. /\ N[0] = IF r \in ToSet(flight[1].order) THEN flight[1].n[r] ELSE 0
        /\ A[0] = IF r \in ToSet(flight[1].order) /\ flight[1].pos[r] >= 0
                     THEN 1 + flight[1].drafts[r] ELSE 0
        /\ P[0] = IF r \in ToSet(flight[1].order) THEN flight[1].pos[r] ELSE 0
    BY <1>2, <1>3, InNextValues
  <2>6. /\ TokensIn(r)[1] = flight[1].n[r]
        /\ SampledIn(r)[1] = IF flight[1].pos[r] >= 0 THEN 1 + flight[1].drafts[r] ELSE 0
        /\ PositionsIn(r)[1] = flight[1].pos[r]
    BY <1>0, <1>4, InValues
  <2>7. flight[1].n[r] \in Nat /\ flight[1].pos[r] \in Int
    BY <1>0, <1>4, OutputFacts
  <2>8. r \notin ToSet(flight[1].order) => flight[1].n[r] = 0 /\ ~(flight[1].pos[r] >= 0)
    BY <2>3, <2>7 DEF OutputShape
  <2>9. N[0] = TokensIn(r)[1] /\ A[0] = SampledIn(r)[1] /\ (A[0] > 0 => P[0] = PositionsIn(r)[1])
    <3> HIDE DEF N, A, P
    <3>1. QED
      BY <2>5, <2>6, <2>8
  <2>10. \A i \in 1..(L - 1) : /\ N[i] = TokensIn(r)[i + 1] /\ A[i] = SampledIn(r)[i + 1]
                             /\ P[i] = PositionsIn(r)[i + 1]
    <3> TAKE i \in 1..(L - 1)
    <3>1. i + 1 \in 1..Len(flight) /\ i \in 1..Len(flight') /\ flight'[i] = flight[i + 1]
      BY <1>2, <1>4
    <3>2. /\ TokensIn(r)[i + 1] = flight[i + 1].n[r]
          /\ SampledIn(r)[i + 1] = IF flight[i + 1].pos[r] >= 0
                                     THEN 1 + flight[i + 1].drafts[r] ELSE 0
          /\ PositionsIn(r)[i + 1] = flight[i + 1].pos[r]
      BY <1>0, <3>1, InValues
    <3>3. /\ N[i] = flight'[i].n[r]
          /\ A[i] = IF flight'[i].pos[r] >= 0 THEN 1 + flight'[i].drafts[r] ELSE 0
          /\ P[i] = flight'[i].pos[r]
      BY <1>3, <3>1, InNextValues
    <3>4. QED
      BY <3>1, <3>2, <3>3
  <2>11. Shifted(L, TokensIn(r), SampledIn(r), PositionsIn(r), N, A, P)
    <3>1. \A i \in 0..(L - 1) : i \in 1..(L - 1) \/ (i = 0 /\ i + 1 = 1)
      BY <1>2
    <3> HIDE DEF N, A, P
    <3>2. QED
      BY <2>4, <2>9, <2>10, <3>1 DEF Shifted
  <2>12. Ledger(r) => Ledger(r)'
    <3>1. NumTokens(r)' = NumTokens(r)
      BY <1>1 DEF NumTokens
    <3>2. ASSUME Ledger(r)
          PROVE  LedgerOf(L - 1, N, A, P, NumTokens(r), status[r], inflight[r], stale[r],
                          drop[r], placeholders[r], next[r])
      <4>1. LedgerOf(L, TokensIn(r), SampledIn(r), PositionsIn(r), NumTokens(r), status[r],
                     inflight[r], stale[r], drop[r], placeholders[r], next[r])
        BY <3>2 DEF Ledger
      <4> HIDE DEF L, N, A, P
      <4>2. QED
        BY <1>2, <2>1, <2>2, <2>11, <4>1, LedgerShift
    <3>3. QED
      BY <1>1, <1>2, <3>1, <3>2 DEF Ledger
  <2>13. (\A i \in 0..L : TokensIn(r)[i] = 0 /\ SampledIn(r)[i] = 0) =>
           \A i \in 0..(L - 1) : N[i] = 0 /\ A[i] = 0
    <3>1. \A i \in 0..(L - 1) : i + 1 \in 0..L
      BY <1>2
    <3> HIDE DEF L, N, A, P
    <3>2. QED
      BY <2>11, <3>1 DEF Shifted
  <2>14. RequestOk(r)
    BY DEF OutputInv
  <2>15. QED
    BY <1>1, <1>2, <2>12, <2>13, <2>14 DEF RequestOk, Alive
<1>8. QED
  BY <1>6, <1>7

(* One request's part of the output is done.                                   *)
LEMMA PopOutput ==
  ASSUME OutputInv, Types', InUpdateLoop, RestOfOutput, UNCHANGED <<flight, pc>>,
         NEW q \in Requests, q = Returned
  PROVE  /\ OutputShapes'
         /\ Len(flight') = Len(flight)
         /\ DrainOf(Len(flight), TokensIn(q), SampledIn(q), PositionsIn(q),
                    TokensIn(q)', SampledIn(q)', PositionsIn(q)')
         /\ TokensIn(q)[0] = cur.n[q] /\ PositionsIn(q)[0] = cur.pos[q]
         /\ SampledIn(q)[0] = IF Samples(q) THEN 1 + cur.drafts[q] ELSE 0
         /\ \A r \in Requests : r # q => SameOutputs(r)
<1>0. /\ Types /\ cur \in StepOutput /\ cur.order \in Seq(Requests) /\ cur.order # <<>>
      /\ Len(flight) \in Nat /\ IsInjective(cur.order)
      /\ \A r \in ToSet(cur.order) : cur.n[r] > 0
  BY QueueFacts, OutputFacts DEF OutputInv, OutputShapes, InUpdateLoop
<1>1. /\ cur'.order = Tail(cur.order) /\ cur'.n = cur.n /\ cur'.drafts = cur.drafts
      /\ cur'.pos = cur.pos
  BY <1>0 DEF RestOfOutput, StepOutput
<1>2. /\ IsInjective(cur'.order) /\ q \notin ToSet(cur'.order) /\ q \in ToSet(cur.order)
      /\ ToSet(cur.order) = ToSet(cur'.order) \union {q}
  BY <1>0, <1>1, TailFacts DEF Returned
<1>3. OutputShapes'
  <2>1. IsInjective(cur'.order) /\ \A r \in ToSet(cur'.order) : cur'.n[r] > 0
    BY <1>0, <1>1, <1>2
  <2>2. (\A i \in 1..Len(flight) : OutputShape(flight[i]))'
    BY DEF OutputInv, OutputShapes, OutputShape
  <2>3. pc' = "update"
    BY DEF InUpdateLoop
  <2>4. QED
    BY <2>1, <2>2, <2>3 DEF OutputShapes
<1>4. ASSUME NEW r \in Requests, r # q PROVE SameOutputs(r)
  <2>1. r \in ToSet(cur'.order) <=> r \in ToSet(cur.order)
    BY <1>2, <1>4
  <2>2. (r \in ToSet(cur.order))' <=> r \in ToSet(cur'.order)
    BY DEF ToSet
  <2>3. QED
    BY <1>1, <2>1, <2>2 DEF SameOutputs, TokensIn, SampledIn, PositionsIn
<1> DEFINE L == Len(flight)
           N == TokensIn(q)'
           A == SampledIn(q)'
           P == PositionsIn(q)'
<1>5. /\ N \in [0..L -> Nat] /\ A \in [0..L -> Nat]
      /\ TokensIn(q) \in [0..L -> Nat] /\ SampledIn(q) \in [0..L -> Nat]
  BY <1>0, InTypes, InNextTypes
<1>6. N[0] = 0 /\ A[0] = 0
  BY <1>2, InNextValues
<1>7. \A i \in 1..L : N[i] = TokensIn(q)[i] /\ A[i] = SampledIn(q)[i] /\ P[i] = PositionsIn(q)[i]
  BY <1>0, InValues, InNextValues
<1>8. TokensIn(q)[0] = cur.n[q] /\ PositionsIn(q)[0] = cur.pos[q] /\ cur.n[q] > 0
  BY <1>0, <1>2, InValues
<1>9. SampledIn(q)[0] = IF Samples(q) THEN 1 + cur.drafts[q] ELSE 0
  BY <1>0, <1>2, InValues DEF Samples
<1>10. DrainOf(L, TokensIn(q), SampledIn(q), PositionsIn(q), N, A, P)
  <2> HIDE DEF N, A, P, L
  <2>1. L \in Nat
    BY <1>0 DEF L
  <2>2. QED
    BY <1>5, <1>6, <1>7, <1>8, <2>1 DEF DrainOf, Drains
<1>11. QED
  BY <1>3, <1>4, <1>8, <1>9, <1>10

(* A step that handles one request's part of an output keeps the others'      *)
(* ledgers.                                                                   *)
LEMMA OneOutput ==
  ASSUME OutputInv, NEW q \in Requests, RequestOk(q)',
         \A r \in Requests : r # q => Untouched(r) /\ SameOutputs(r)
  PROVE  \A r \in Requests : RequestOk(r)'
  BY Frame DEF OutputInv

(* The tokens at d positions from T on.                                        *)
TokensFrom(T, d) == [i \in 1..d |-> T + i - 1]

(* A log that is in order stays so when tokens are appended at its end.       *)
LEMMA LogGrows ==
  ASSUME NEW p \in Nat, NEW m \in Nat, NEW s \in Seq(Int), LogOf(p, m, s), NEW d \in Nat,
         Len(s) + d <= m, NEW T, T = p + Len(s)
  PROVE  /\ LogOf(p, m, s \o TokensFrom(T, d))
         /\ Len(s \o TokensFrom(T, d)) = Len(s) + d
<1> DEFINE e == [i \in 1..d |-> T + i - 1]
           l == s \o e
<1>1. Len(s) \in Nat /\ T \in Int
  BY LenProperties
<1>2. e \in Seq(Int) /\ Len(e) = d /\ \A i \in 1..d : e[i] = T + i - 1
  BY <1>1
<1> HIDE DEF e
<1>3. /\ Len(l) = Len(s) + d
      /\ \A i \in 1..(Len(s) + d) : l[i] = IF i <= Len(s) THEN s[i] ELSE e[i - Len(s)]
  BY <1>2, ConcatProperties
<1> HIDE DEF l
<1>4. ASSUME NEW i \in 1..(Len(s) + d) PROVE l[i] = p + i - 1
  <2>1. CASE i <= Len(s)
    <3>1. i \in 1..Len(s)
      BY <1>1, <2>1
    <3>2. QED
      BY <1>3, <2>1, <3>1 DEF LogOf
  <2>2. CASE ~(i <= Len(s))
    <3>1. i - Len(s) \in 1..d
      BY <1>1, <2>2
    <3>2. e[i - Len(s)] = T + (i - Len(s)) - 1
      BY <1>2, <3>1
    <3>3. T + (i - Len(s)) - 1 = p + i - 1
      BY <1>1
    <3>4. QED
      BY <1>3, <2>2, <3>2, <3>3
  <2>3. QED
    BY <2>1, <2>2
<1>5. QED
  BY <1>3, <1>4 DEF LogOf, TokensFrom, l, e

(* The output of a finished request is dropped.                               *)
LEMMA OutputOfFinishedOutput ==
  ASSUME OutputInv, OutputOfFinished
  PROVE  OutputShapes' /\ \A r \in Requests : RequestOk(r)'
<1>0. Types /\ Types' /\ Returned \in Requests
  <2>1. Types
    BY QueueFacts DEF OutputInv
  <2>2. QED
    BY <2>1, UpdateTypes, ReturnedFacts DEF UpdateAction, OutputOfFinished
<1>1. PICK q \in Requests : q = Returned
  BY <1>0
<1>2. /\ InUpdateLoop /\ RestOfOutput /\ ~Alive(q)
      /\ UNCHANGED <<flight, pc, status, log, inflight, stale, drop, placeholders, next>>
  BY <1>1 DEF OutputOfFinished, tokenVars
<1>3. /\ OutputShapes' /\ Len(flight') = Len(flight)
      /\ DrainOf(Len(flight), TokensIn(q), SampledIn(q), PositionsIn(q),
                 TokensIn(q)', SampledIn(q)', PositionsIn(q)')
      /\ \A r \in Requests : r # q => SameOutputs(r)
  BY <1>0, <1>1, <1>2, PopOutput
<1>4. \A r \in Requests : Untouched(r)
  BY <1>2 DEF Untouched
<1>5. RequestOk(q) /\ Len(flight) \in Nat
  BY <1>0, OutputFacts DEF OutputInv
<1>6. status[q] # "NEW"
  <2>1. TokensIn(q)[0] > 0 /\ 0 \in 0..Len(flight)
    BY <1>3, <1>5 DEF DrainOf
  <2>2. TokensIn(q)[0] # 0
    BY <2>1
  <2>3. QED
    BY <1>5, <2>1, <2>2 DEF RequestOk
<1>7. RequestOk(q)'
  BY <1>2, <1>5, <1>6 DEF RequestOk, Alive
<1>8. QED
  BY <1>3, <1>4, <1>7, OneOutput

(* An output without a token for the request, or a discarded one, is taken    *)
(* out of its ledger.                                                         *)
LEMMA OutputWithoutTokensOutput ==
  ASSUME OutputInv, OutputWithoutTokens
  PROVE  OutputShapes' /\ \A r \in Requests : RequestOk(r)'
<1>0. /\ Types /\ Types' /\ Returned \in Requests /\ cur.drafts[Returned] \in Nat
      /\ inflight \in Counters /\ stale \in Counters /\ next \in Counters
  <2>1. Types
    BY QueueFacts DEF OutputInv
  <2>2. QED
    BY <2>1, UpdateTypes, ReturnedFacts
       DEF UpdateAction, OutputWithoutTokens, Types, RequestTypes, EngineTypes
<1>1. PICK q \in Requests : q = Returned
  BY <1>0
<1>2. /\ InUpdateLoop /\ RestOfOutput /\ Alive(q)
      /\ ~Samples(q) \/ (stale[q] > 0 /\ drop[q])
      /\ inflight' = [inflight EXCEPT ![q] = inflight[q] - cur.n[q]]
      /\ stale' = [stale EXCEPT ![q] = IF stale[q] > 0 THEN stale[q] - cur.n[q] ELSE stale[q]]
      /\ UNCHANGED <<flight, pc, status, log, drop, placeholders>>
  BY <1>1 DEF OutputWithoutTokens, DrainCounts, Discards, IsStale
<1>3. /\ OutputShapes' /\ Len(flight') = Len(flight)
      /\ DrainOf(Len(flight), TokensIn(q), SampledIn(q), PositionsIn(q),
                 TokensIn(q)', SampledIn(q)', PositionsIn(q)')
      /\ TokensIn(q)[0] = cur.n[q]
      /\ SampledIn(q)[0] = IF Samples(q) THEN 1 + cur.drafts[q] ELSE 0
      /\ \A r \in Requests : r # q => SameOutputs(r)
  BY <1>0, <1>1, <1>2, PopOutput
<1>4. (~Samples(q) => next' = next) /\ \A r \in Requests : r # q => next'[r] = next[r]
  <2>1. \/ ~Samples(q) /\ next' = next
        \/ Samples(q) /\ \E x : next' = [next EXCEPT ![q] = x]
    BY <1>1 DEF OutputWithoutTokens, WorkerAdvances
  <2>2. next \in [Requests -> Int]
    BY <1>0 DEF Counters
  <2>3. QED
    BY <2>1, <2>2
<1>5. \A r \in Requests : r # q => Untouched(r)
  BY <1>0, <1>2, <1>4 DEF Untouched, Counters
<1>6. /\ Ledger(q) /\ Len(log[q]) < MaxTokens[q]
      /\ LogOf(Prompt[q], MaxTokens[q], log[q])
  BY <1>2 DEF OutputInv, RequestOk
<1>7. /\ inflight'[q] = inflight[q] - TokensIn(q)[0]
      /\ stale'[q] = IF stale[q] > 0 THEN stale[q] - TokensIn(q)[0] ELSE stale[q]
  BY <1>0, <1>2, <1>3 DEF Counters
<1>8. /\ SampledIn(q)[0] = 0 \/ (stale[q] > 0 /\ drop[q])
      /\ SampledIn(q)[0] = 0 => next'[q] = next[q]
  <2>1. Samples(q) => SampledIn(q)[0] # 0
    BY <1>0, <1>1, <1>3
  <2>2. ~Samples(q) => SampledIn(q)[0] = 0
    BY <1>3
  <2>3. QED
    BY <1>2, <1>4, <2>1, <2>2
<1>9. LedgerOf(Len(flight), TokensIn(q), SampledIn(q), PositionsIn(q), NumTokens(q),
               status[q], inflight[q], stale[q], drop[q], placeholders[q], next[q])
  BY <1>6 DEF Ledger
<1>10. LedgerOf(Len(flight), TokensIn(q)', SampledIn(q)', PositionsIn(q)', NumTokens(q),
               status[q], inflight'[q], stale'[q], drop[q], placeholders[q], next'[q])
  <2>1. DrainOf(Len(flight), TokensIn(q), SampledIn(q), PositionsIn(q),
                TokensIn(q)', SampledIn(q)', PositionsIn(q)')
    BY <1>3
  <2> HIDE <1>2, <1>3
  <2> DEFINE N == TokensIn(q)
             A == SampledIn(q)
             P == PositionsIn(q)
             N2 == TokensIn(q)'
             A2 == SampledIn(q)'
             P2 == PositionsIn(q)'
             T == NumTokens(q)
             st == status[q]
             inf == inflight[q]
             sta == stale[q]
             dr == drop[q]
             ph == placeholders[q]
             nx == next[q]
             inf2 == inflight'[q]
             sta2 == stale'[q]
             nx2 == next'[q]
             L == Len(flight)
  <2>2. /\ A[0] = 0 \/ (sta > 0 /\ dr)
        /\ A[0] = 0 => nx2 = nx
        /\ inf2 = inf - N[0] /\ sta2 = IF sta > 0 THEN sta - N[0] ELSE sta
    BY <1>7, <1>8
  <2>3. DrainOf(L, N, A, P, N2, A2, P2) /\ LedgerOf(L, N, A, P, T, st, inf, sta, dr, ph, nx)
    BY <1>9, <2>1
  <2> HIDE DEF N, A, P, N2, A2, P2, T, st, inf, sta, dr, ph, nx, inf2, sta2, nx2, L
  <2>4. LedgerOf(L, N2, A2, P2, T, st, inf2, sta2, dr, ph, nx2)
    BY <2>2, <2>3, LedgerDiscard
  <2>5. QED
    BY <2>4 DEF N2, A2, P2, T, st, dr, ph, inf2, sta2, nx2, L
<1>11. Ledger(q)'
  <2>1. NumTokens(q)' = NumTokens(q)
    BY <1>2 DEF NumTokens
  <2>2. QED
    BY <1>2, <1>3, <1>7, <1>10, <2>1 DEF Ledger
<1>12. RequestOk(q)'
  BY <1>2, <1>6, <1>11 DEF RequestOk, Alive
<1>13. QED
  BY <1>3, <1>5, <1>12, OneOutput

(* What the oldest output says of a request whose tokens are delivered: it was    *)
(* sampled after the tokens delivered before.                                   *)
LEMMA SampledInOrder ==
  ASSUME OutputInv, Types', InUpdateLoop, RestOfOutput, UNCHANGED <<flight, pc>>,
         NEW q \in Requests, q = Returned, Alive(q), ~Discards(q)
  PROVE  /\ SampledFrom(q) = NumTokens(q) /\ NumTokens(q) \in Nat
         /\ cur.drafts[q] \in Nat /\ cur.n[q] \in Nat
         /\ stale[q] \in Nat /\ placeholders[q] \in Nat
         /\ stale[q] = 0 => 1 + cur.drafts[q] <= placeholders[q]
         /\ LogOf(Prompt[q], MaxTokens[q], log[q]) /\ Len(log[q]) < MaxTokens[q]
         /\ \A t : LedgerOf(Len(flight), TokensIn(q)', SampledIn(q)', PositionsIn(q)', t,
                            status[q], inflight[q] - cur.n[q],
                            IF stale[q] > 0 THEN stale[q] - cur.n[q] ELSE stale[q], drop[q],
                            IF stale[q] > 0 THEN placeholders[q]
                            ELSE placeholders[q] - (1 + cur.drafts[q]), t)
<1>0. /\ Types /\ cur.drafts[q] \in Nat /\ cur.pos[q] \in Int /\ cur.n[q] \in Nat
  BY QueueFacts, OutputFacts DEF OutputInv
<1>1. /\ DrainOf(Len(flight), TokensIn(q), SampledIn(q), PositionsIn(q),
                 TokensIn(q)', SampledIn(q)', PositionsIn(q)')
      /\ TokensIn(q)[0] = cur.n[q] /\ PositionsIn(q)[0] = cur.pos[q]
      /\ SampledIn(q)[0] = 1 + cur.drafts[q]
  BY PopOutput DEF Discards
<1>2. /\ Ledger(q) /\ Len(log[q]) < MaxTokens[q]
      /\ LogOf(Prompt[q], MaxTokens[q], log[q])
  BY DEF OutputInv, RequestOk
<1>3. SampledIn(q)[0] > 0 /\ ~(stale[q] > 0 /\ drop[q])
  BY <1>0, <1>1 DEF Discards, IsStale
<1>4. LedgerOf(Len(flight), TokensIn(q), SampledIn(q), PositionsIn(q), NumTokens(q),
               status[q], inflight[q], stale[q], drop[q], placeholders[q], next[q])
  BY <1>2 DEF Ledger
<1>5. /\ PositionsIn(q)[0] = NumTokens(q)
           \/ (PositionsIn(q)[0] = 0 /\ next[q] = NumTokens(q))
      /\ stale[q] \in Nat /\ placeholders[q] \in Nat
      /\ stale[q] = 0 => SampledIn(q)[0] <= placeholders[q]
      /\ \A t : LedgerOf(Len(flight), TokensIn(q)', SampledIn(q)', PositionsIn(q)', t,
                         status[q], inflight[q] - TokensIn(q)[0],
                         IF stale[q] > 0 THEN stale[q] - TokensIn(q)[0] ELSE stale[q], drop[q],
                         IF stale[q] > 0 THEN placeholders[q]
                         ELSE placeholders[q] - SampledIn(q)[0], t)
  <2> DEFINE L == Len(flight)
             N == TokensIn(q)
             A == SampledIn(q)
             P == PositionsIn(q)
             N2 == TokensIn(q)'
             A2 == SampledIn(q)'
             P2 == PositionsIn(q)'
             T == NumTokens(q)
             st == status[q]
             inf == inflight[q]
             sta == stale[q]
             dr == drop[q]
             ph == placeholders[q]
             nx == next[q]
  <2>1. /\ DrainOf(L, N, A, P, N2, A2, P2) /\ A[0] > 0 /\ ~(sta > 0 /\ dr)
        /\ LedgerOf(L, N, A, P, T, st, inf, sta, dr, ph, nx)
    BY <1>1, <1>3, <1>4
  <2> HIDE DEF L, N, A, P, N2, A2, P2, T, st, inf, sta, dr, ph, nx
  <2>2. ASSUME NEW t
        PROVE  /\ P[0] = T \/ (P[0] = 0 /\ nx = T)
               /\ sta \in Nat /\ ph \in Nat
               /\ sta = 0 => A[0] <= ph
               /\ LedgerOf(L, N2, A2, P2, t, st, inf - N[0],
                           IF sta > 0 THEN sta - N[0] ELSE sta,
                           dr, IF sta > 0 THEN ph ELSE ph - A[0], t)
    BY <2>1, LedgerDeliver
  <2>3. QED
    BY <2>2 DEF L, N, A, P, N2, A2, P2, T, st, inf, sta, dr, ph, nx
<1>6. NumTokens(q) \in Nat /\ NumTokens(q) # 0
  BY <1>0, LenProperties, RequestsAssumption DEF NumTokens, Types, RequestTypes
<1>7. SampledFrom(q) = NumTokens(q)
  BY <1>1, <1>5, <1>6 DEF SampledFrom
<1>8. QED
  BY <1>0, <1>1, <1>2, <1>5, <1>6, <1>7
(* Tokens that are delivered continue the log and leave the ledger.           *)
LEMMA DeliverTokensOutput ==
  ASSUME OutputInv, DeliverTokens
  PROVE  OutputShapes' /\ \A r \in Requests : RequestOk(r)'
<1>0. /\ Types /\ Types' /\ Returned \in Requests
      /\ inflight \in Counters /\ stale \in Counters /\ next \in Counters
      /\ placeholders \in Counters /\ log \in [Requests -> Seq(Int)]
  <2>1. Types
    BY QueueFacts DEF OutputInv
  <2>2. QED
    BY <2>1, UpdateTypes, ReturnedFacts
       DEF UpdateAction, DeliverTokens, Types, RequestTypes, EngineTypes
<1>1. PICK q \in Requests : q = Returned
  BY <1>0
<1>2. /\ InUpdateLoop /\ RestOfOutput /\ Alive(q) /\ ~Discards(q)
      /\ UNCHANGED <<flight, pc, status, drop>>
      /\ inflight' = [inflight EXCEPT ![q] = inflight[q] - cur.n[q]]
      /\ stale' = [stale EXCEPT ![q] = IF stale[q] > 0 THEN stale[q] - cur.n[q] ELSE stale[q]]
  BY <1>1 DEF DeliverTokens, DrainCounts, IsStale
<1>3. PICK g \in 1..(1 + cur.drafts[q]) :
        /\ \A d \in 1..g : ~AtLimit(q, d)
        /\ log' = [log EXCEPT ![q] = log[q] \o [i \in 1..g |-> SampledFrom(q) + i - 1]]
        /\ next' = [next EXCEPT ![q] = SampledFrom(q) + g]
        /\ placeholders' =
             [placeholders EXCEPT ![q] = PlaceholdersAfter(q, 1 + cur.drafts[q] - g, g)]
  <2>1. \E g \in 1..(1 + cur.drafts[Returned]) :
          /\ \A d \in 1..g : ~AtLimit(Returned, d)
          /\ Appended(Returned, g) /\ WorkerAdvances(Returned, g)
          /\ placeholders' =
               [placeholders EXCEPT ![Returned] =
                  PlaceholdersAfter(Returned, 1 + cur.drafts[Returned] - g, g)]
    BY DEF DeliverTokens
  <2>2. PICK g \in 1..(1 + cur.drafts[Returned]) :
          /\ \A d \in 1..g : ~AtLimit(Returned, d)
          /\ Appended(Returned, g) /\ WorkerAdvances(Returned, g)
          /\ placeholders' =
               [placeholders EXCEPT ![Returned] =
                  PlaceholdersAfter(Returned, 1 + cur.drafts[Returned] - g, g)]
    BY <2>1
  <2>3. QED
    BY <1>1, <2>2 DEF Appended, WorkerAdvances
<1>4. /\ OutputShapes' /\ Len(flight') = Len(flight)
      /\ \A r \in Requests : r # q => SameOutputs(r)
  BY <1>0, <1>1, <1>2, PopOutput
<1>5. \A r \in Requests : r # q => Untouched(r)
  BY <1>0, <1>2, <1>3 DEF Untouched, Counters
<1>6. /\ SampledFrom(q) = NumTokens(q) /\ NumTokens(q) \in Nat
      /\ cur.drafts[q] \in Nat /\ cur.n[q] \in Nat
      /\ stale[q] \in Nat /\ placeholders[q] \in Nat
      /\ stale[q] = 0 => 1 + cur.drafts[q] <= placeholders[q]
      /\ LogOf(Prompt[q], MaxTokens[q], log[q]) /\ Len(log[q]) < MaxTokens[q]
      /\ \A t : LedgerOf(Len(flight), TokensIn(q)', SampledIn(q)', PositionsIn(q)', t,
                         status[q], inflight[q] - cur.n[q],
                         IF stale[q] > 0 THEN stale[q] - cur.n[q] ELSE stale[q], drop[q],
                         IF stale[q] > 0 THEN placeholders[q]
                         ELSE placeholders[q] - (1 + cur.drafts[q]), t)
  BY <1>0, <1>1, <1>2, SampledInOrder
<1> DEFINE T == NumTokens(q)
           s == log[q]
           p == Prompt[q]
           m == MaxTokens[q]
<1>7. /\ g \in Nat /\ g \in 1..g /\ g <= 1 + cur.drafts[q]
      /\ s \in Seq(Int) /\ Len(s) \in Nat /\ p \in Nat /\ m \in Nat /\ T = p + Len(s)
  BY SMTT(30), <1>0, <1>6, LenProperties, RequestsAssumption DEF NumTokens
<1>8. Len(s) + g < m
  BY <1>3, <1>7 DEF AtLimit
<1>9. log'[q] = s \o TokensFrom(T, g)
  BY <1>0, <1>3, <1>6 DEF TokensFrom
<1>10. LogOf(p, m, log'[q]) /\ Len(log'[q]) = Len(s) + g
  <2> HIDE DEF T, s, p, m
  <2>1. LogOf(p, m, s) /\ Len(s) + g <= m
    BY <1>6, <1>7, <1>8 DEF p, m, s
  <2>2. QED
    BY <1>7, <1>9, <2>1, LogGrows
<1>11. Len(log'[q]) < m
  BY <1>8, <1>10
<1>12. NumTokens(q)' = T + g /\ next'[q] = T + g
  <2>1. NumTokens(q)' = p + Len(log'[q])
    BY DEF NumTokens
  <2>2. next'[q] = T + g
    BY <1>0, <1>3, <1>6 DEF Counters
  <2>3. p + (Len(s) + g) = (p + Len(s)) + g
    BY <1>7
  <2>4. QED
    BY <1>7, <1>10, <2>1, <2>2, <2>3
<1>13. placeholders'[q] = IF stale[q] > 0 THEN placeholders[q]
                          ELSE placeholders[q] - (1 + cur.drafts[q])
  <2> DEFINE ph == placeholders[q]
             d == cur.drafts[q]
             sta == stale[q]
  <2>1. placeholders'[q] = PlaceholdersAfter(q, 1 + d - g, g)
    BY <1>0, <1>3 DEF Counters
  <2>2. placeholders'[q] = IF sta > 0 THEN ph
                           ELSE (IF ph > 0 THEN ph - (1 + d - g) ELSE 0) - g
    BY <2>1 DEF PlaceholdersAfter, IsStale
  <2>3. /\ ph \in Nat /\ d \in Nat /\ sta \in Nat /\ (sta = 0 => 1 + d <= ph)
    BY <1>6
  <2> HIDE DEF ph, d, sta
  <2>4. sta = 0 => ph > 0 /\ (ph - (1 + d - g)) - g = ph - (1 + d)
    BY <1>7, <2>3
  <2>5. placeholders'[q] = IF sta > 0 THEN ph ELSE ph - (1 + d)
    BY <2>2, <2>3, <2>4
  <2>6. QED
    BY <2>5 DEF ph, d, sta
<1>14. Ledger(q)'
  <2>1. LedgerOf(Len(flight), TokensIn(q)', SampledIn(q)', PositionsIn(q)', T + g,
                 status[q], inflight[q] - cur.n[q],
                 IF stale[q] > 0 THEN stale[q] - cur.n[q] ELSE stale[q], drop[q],
                 IF stale[q] > 0 THEN placeholders[q]
                 ELSE placeholders[q] - (1 + cur.drafts[q]), T + g)
    BY <1>6
  <2>2. /\ inflight'[q] = inflight[q] - cur.n[q]
        /\ stale'[q] = IF stale[q] > 0 THEN stale[q] - cur.n[q] ELSE stale[q]
    BY <1>0, <1>2 DEF Counters
  <2> HIDE DEF T
  <2>3. QED
    BY <1>2, <1>4, <1>12, <1>13, <2>1, <2>2 DEF Ledger
<1>15. RequestOk(q)'
  BY <1>2, <1>10, <1>11, <1>14 DEF RequestOk, Alive
<1>16. QED
  BY <1>4, <1>5, <1>15, OneOutput

(* So do the last tokens of a request.                                        *)
LEMMA DeliverAndStopOutput ==
  ASSUME OutputInv, DeliverAndStop
  PROVE  OutputShapes' /\ \A r \in Requests : RequestOk(r)'
<1>0. /\ Types /\ Types' /\ Returned \in Requests /\ status \in [Requests -> Statuses]
      /\ inflight \in Counters /\ stale \in Counters /\ next \in Counters
      /\ placeholders \in Counters /\ log \in [Requests -> Seq(Int)]
      /\ drop \in [Requests -> BOOLEAN]
  <2>1. Types
    BY QueueFacts DEF OutputInv
  <2>2. QED
    BY <2>1, UpdateTypes, ReturnedFacts
       DEF UpdateAction, DeliverAndStop, Types, RequestTypes, EngineTypes
<1>1. PICK q \in Requests : q = Returned
  BY <1>0
<1>2. /\ InUpdateLoop /\ RestOfOutput /\ Alive(q) /\ ~Discards(q)
      /\ UNCHANGED <<flight, pc>> /\ Finish(q)
  BY <1>1 DEF DeliverAndStop
<1>3. PICK g \in 1..(1 + cur.drafts[q]) : \E d \in 1..g :
        /\ \A e \in 1..(d - 1) : ~AtLimit(q, e)
        /\ log' = [log EXCEPT ![q] = log[q] \o [i \in 1..d |-> SampledFrom(q) + i - 1]]
        /\ next' = [next EXCEPT ![q] = SampledFrom(q) + g]
  BY <1>1 DEF DeliverAndStop, Appended, WorkerAdvances
<1>3b. PICK d \in 1..g :
        /\ \A e \in 1..(d - 1) : ~AtLimit(q, e)
        /\ log' = [log EXCEPT ![q] = log[q] \o [i \in 1..d |-> SampledFrom(q) + i - 1]]
        /\ next' = [next EXCEPT ![q] = SampledFrom(q) + g]
  BY <1>3
<1>4. /\ OutputShapes' /\ Len(flight') = Len(flight)
      /\ \A r \in Requests : r # q => SameOutputs(r)
  BY <1>0, <1>1, <1>2, PopOutput
<1>5. \A r \in Requests : r # q => Untouched(r)
  BY <1>0, <1>2, <1>3b DEF Untouched, Counters, Finish
<1>6. /\ SampledFrom(q) = NumTokens(q)
      /\ LogOf(Prompt[q], MaxTokens[q], log[q]) /\ Len(log[q]) < MaxTokens[q]
  BY <1>0, <1>1, <1>2, SampledInOrder
<1> DEFINE T == NumTokens(q)
           s == log[q]
           p == Prompt[q]
           m == MaxTokens[q]
<1>7. /\ d \in Nat \ {0} /\ s \in Seq(Int) /\ Len(s) \in Nat /\ p \in Nat /\ m \in Nat
      /\ T = p + Len(s)
  BY <1>0, LenProperties, RequestsAssumption DEF NumTokens
<1>8. Len(s) + d <= m
  <2>1. CASE d = 1
    BY <1>6, <1>7, <2>1
  <2>2. CASE d # 1
    <3>1. d - 1 \in 1..(d - 1)
      BY <1>7, <2>2
    <3>2. ~(Len(s) + (d - 1) >= m)
      BY <1>3b, <3>1 DEF AtLimit
    <3>3. QED
      BY <1>7, <3>2
  <2>3. QED
    BY <2>1, <2>2
<1>9. log'[q] = s \o TokensFrom(T, d)
  BY <1>0, <1>3b, <1>6 DEF TokensFrom
<1>10. LogOf(p, m, log'[q])
  <2> HIDE DEF T, s, p, m
  <2>1. LogOf(p, m, s)
    BY <1>6 DEF p, m, s
  <2>2. /\ p \in Nat /\ m \in Nat /\ s \in Seq(Int) /\ d \in Nat
        /\ Len(s) + d <= m /\ T = p + Len(s)
    BY <1>6, <1>7, <1>8
  <2>3. LogOf(p, m, s \o TokensFrom(T, d))
    BY <2>1, <2>2, LogGrows
  <2>4. QED
    BY <1>9, <2>3
<1>11. status'[q] = "FINISHED"
  BY <1>0, <1>2 DEF Finish
<1>12. RequestOk(q)'
  BY <1>10, <1>11 DEF RequestOk, Alive
<1>13. QED
  BY <1>4, <1>5, <1>12, OneOutput

(* An output that is done is empty.                                           *)
LEMMA EndUpdateOutput ==
  ASSUME OutputInv, EndUpdate
  PROVE  OutputShapes' /\ \A r \in Requests : RequestOk(r)'
<1>1. /\ cur.order = <<>> /\ cur' = NoOutput /\ pc' = "idle"
      /\ UNCHANGED <<flight, status, log, inflight, stale, drop, placeholders, next>>
  BY DEF EndUpdate, tokenVars
<1>2. cur'.order = <<>> /\ NoOutput.order = <<>>
  BY <1>1 DEF NoOutput
<1>3. OutputShapes'
  <2>1. (\A i \in 1..Len(flight) : OutputShape(flight[i]))'
    BY <1>1 DEF OutputInv, OutputShapes, OutputShape
  <2>2. IsInjective(cur'.order) /\ \A r \in ToSet(cur'.order) : cur'.n[r] > 0
    BY <1>2, EmptySets
  <2>3. QED
    BY <1>1, <1>2, <2>1, <2>2 DEF OutputShapes
<1>4. ASSUME NEW r \in Requests PROVE RequestOk(r)'
  <2>1. Untouched(r)
    BY <1>1 DEF Untouched
  <2>2. r \notin ToSet(cur.order) /\ r \notin ToSet(cur'.order)
    BY <1>1, <1>2, EmptySets
  <2>3. (r \in ToSet(cur.order))' <=> r \in ToSet(cur'.order)
    BY DEF ToSet
  <2>4. SameOutputs(r)
    BY <1>1, <2>2, <2>3 DEF SameOutputs, TokensIn, SampledIn, PositionsIn
  <2>5. QED
    BY <2>1, <2>4, Frame DEF OutputInv
<1>5. QED
  BY <1>3, <1>4

-----------------------------------------------------------------------------
(* Every ledger is empty when the scheduler is made.                          *)
LEMMA OutputInitially == Init => OutputInv
<1> SUFFICES ASSUME Init PROVE OutputInv
  OBVIOUS
<1>1. QueueInv /\ Types
  BY QueuesInitially, QueueFacts
<1>2. /\ flight = <<>> /\ cur = NoOutput /\ Len(flight) = 0
      /\ \A r \in Requests : /\ status[r] = "NEW" /\ log[r] = <<>> /\ inflight[r] = 0
                             /\ stale[r] = 0 /\ placeholders[r] = 0
  BY DEF Init, NoRequest
<1>3. cur.order = <<>>
  BY <1>2 DEF NoOutput
<1>4. OutputShapes
  <2>1. \A i \in 1..Len(flight) : FALSE
    BY <1>2
  <2>2. QED
    BY <1>3, <2>1, EmptySets DEF OutputShapes
<1>5. ASSUME NEW r \in Requests PROVE RequestOk(r)
  <2>1. TokensIn(r)[0] = 0 /\ SampledIn(r)[0] = 0
    BY <1>1, <1>3, InValues, EmptySets
  <2>2. \A i \in 0..Len(flight) : i = 0
    BY <1>2
  <2>3. LogOf(Prompt[r], MaxTokens[r], log[r])
    <3>1. Len(log[r]) = 0 /\ \A i \in 1..0 : FALSE
      BY <1>2
    <3>2. QED
      BY <3>1, RequestsAssumption DEF LogOf
  <2>4. QED
    BY <1>2, <2>1, <2>2, <2>3 DEF RequestOk, Alive
<1>6. QED
  BY <1>1, <1>4, <1>5 DEF OutputInv

(* Every step keeps every ledger.                                             *)
LEMMA OutputStep == OutputInv /\ [Next]_vars => OutputInv'
<1> SUFFICES ASSUME OutputInv, [Next]_vars PROVE OutputShapes' /\ \A r \in Requests : RequestOk(r)'
  BY QueuesStep DEF OutputInv
<1>1. CASE UNCHANGED vars
  BY <1>1, QuietSteps DEF vars, tokenVars
<1>2. CASE \/ \E r \in Requests : AddRequest(r) \/ AbortRequest(r)
           \/ \E p \in PauseStates : SetPauseState(p)
           \/ BeginReset \/ EndReset
  BY <1>2, OutsideOutput
<1>3. CASE \/ BeginSchedule \/ SkipRunning \/ ScheduleRunning \/ EndRunningLoop
           \/ SkipUndelivered \/ StopAdmitting \/ EndWaitingLoop
  BY <1>3, LoopOutput
<1>4. CASE PreemptForRoom \/ ResetOne
  BY <1>4, PreemptStepsOutput
<1>5. CASE Admit \/ EndSchedule
  BY <1>5, AdmitOutput, EndScheduleOutput
<1>6. CASE BeginUpdate \/ UpdateAction
  BY <1>6, BeginUpdateOutput, OutputOfFinishedOutput, OutputWithoutTokensOutput,
     DeliverTokensOutput, DeliverAndStopOutput, EndUpdateOutput DEF UpdateAction
<1>7. QED
  BY <1>1, <1>2, <1>3, <1>4, <1>5, <1>6 DEF Next, ScheduleAction, ResetAction

(* The inductive invariant of the outputs: every live request's counters are  *)
(* the sums of its ledger over the outputs in flight, and the positions       *)
(* sampled there chain up from the end of its log.                            *)
THEOREM OutputInvariant == Spec => []OutputInv
<1>1. QED
  BY OutputInitially, OutputStep, PTL DEF Spec

(* Every request's log holds the positions after its prompt, each once, in    *)
(* order and at most max_tokens of them, although steps are scheduled before  *)
(* the outputs of earlier ones are back and preempted requests leave outputs  *)
(* in flight that must be dropped (update_from_output()).                     *)
THEOREM OutputAlwaysInOrder == Spec => []OutputInOrder
<1>1. OutputInv => OutputInOrder
  <2> SUFFICES ASSUME OutputInv, NEW r \in Requests
               PROVE  /\ \A i \in DOMAIN log[r] : log[r][i] = Prompt[r] + i - 1
                      /\ Len(log[r]) <= MaxTokens[r]
    BY DEF OutputInOrder
  <2>1. LogOf(Prompt[r], MaxTokens[r], log[r])
    BY DEF OutputInv, RequestOk
  <2>2. log[r] \in Seq(Int)
    BY QueueFacts DEF OutputInv, Types, RequestTypes
  <2>3. DOMAIN log[r] = 1..Len(log[r])
    BY <2>2, LenProperties
  <2>4. QED
    BY <2>1, <2>3 DEF LogOf
<1>2. QED
  BY <1>1, OutputInvariant, PTL
(* The in-flight and stale counters are the sums of the ledger.               *)
LEMMA CountedInFlight ==
  ASSUME Types, NEW r \in Requests, Ledger(r)
  PROVE  inflight[r] = InFlight(r) /\ stale[r] <= inflight[r]
<1> DEFINE L == Len(flight)
           s == [i \in DOMAIN flight |-> flight[i].n[r]]
<1>1. L \in Nat /\ DOMAIN flight = 1..L /\ \A i \in 1..L : flight[i].n[r] \in Nat
  BY OutputFacts, LenProperties
<1>2. s \in Seq(Int) /\ Len(s) = L /\ \A i \in 1..L : s[i] = flight[i].n[r]
  BY <1>1
<1>3. PICK F \in [0..(L + 1) -> Nat], G \in [0..(L + 1) -> Nat], k \in 0..(L + 1) :
        LedgerWith(F, G, k, L, TokensIn(r), SampledIn(r), PositionsIn(r), NumTokens(r), status[r],
                   inflight[r], stale[r], drop[r], placeholders[r], next[r])
  BY DEF Ledger, LedgerOf
<1>4. /\ F[0] = 0 /\ \A i \in 0..L : F[i + 1] = F[i] + TokensIn(r)[i]
      /\ \A i, j \in 0..(L + 1) : i <= j => F[i] <= F[j]
      /\ inflight[r] = F[L + 1] /\ stale[r] = F[k]
  BY <1>3 DEF LedgerWith, Counts
<1>5. stale[r] <= inflight[r]
  <2>1. k <= L + 1 /\ L + 1 \in 0..(L + 1)
    BY <1>1
  <2>2. QED
    BY <1>4, <2>1
<1>6. /\ TokensIn(r)[0] = IF r \in ToSet(cur.order) THEN cur.n[r] ELSE 0
      /\ \A i \in 1..L : TokensIn(r)[i] = s[i]
  BY <1>2, InValues
<1>7. TokensIn(r) \in [0..L -> Nat] /\ 0 \in 0..L /\ 0 \in 0..(L + 1)
  BY <1>1, InTypes
<1> DEFINE n == TokensIn(r)[0]
           E == [i \in 0..L |-> F[i + 1] - n]
<1>8. n \in Nat /\ F[1] = n
  <2>1. F[0 + 1] = F[0] + TokensIn(r)[0] /\ TokensIn(r)[0] \in Nat
    BY <1>4, <1>7
  <2>2. QED
    BY <1>4, <2>1
<1> HIDE DEF s, n
<1>9. /\ \A i \in 0..L : i + 1 \in 0..(L + 1)
      /\ \A i \in 1..L : i \in 0..L /\ i - 1 \in 0..L /\ (i - 1) + 1 = i /\ i \in 0..(L + 1)
      /\ L \in 0..L
  BY <1>1
<1>10. E \in [0..L -> Int] /\ \A i \in 0..L : E[i] = F[i + 1] - n
  <2>1. \A i \in 0..L : F[i + 1] - n \in Int
    BY <1>8, <1>9
  <2>2. QED
    BY <2>1
<1> HIDE DEF E
<1>11. E[0] = 0
  <2>1. E[0] = F[0 + 1] - n /\ 0 + 1 = 1
    BY <1>7, <1>10
  <2>2. n - n = 0
    BY <1>8
  <2>3. QED
    BY <1>8, <2>1, <2>2
<1>12. ASSUME NEW i \in 1..L PROVE E[i] = E[i - 1] + s[i]
  <2>1. E[i] = F[i + 1] - n /\ E[i - 1] = F[i] - n
    BY <1>9, <1>10
  <2>2. F[i + 1] = F[i] + s[i]
    BY <1>4, <1>6, <1>9
  <2>3. F[i] \in Nat /\ s[i] \in Nat
    BY <1>1, <1>2, <1>9
  <2> DEFINE x == F[i]
             y == s[i]
  <2>4. x \in Int /\ y \in Int /\ n \in Int
    BY <1>8, <2>3
  <2> HIDE DEF x, y
  <2>5. (x + y) - n = (x - n) + y
    BY <2>4, Arithmetic
  <2>6. E[i] = (x + y) - n /\ E[i - 1] = x - n /\ s[i] = y
    BY <2>1, <2>2 DEF x, y
  <2>7. QED
    BY <2>5, <2>6
<1>13. SumOf(s) = E[L]
  BY <1>2, <1>10, <1>11, <1>12, SumIs
<1>14. SumOf(s) + n = inflight[r]
  <2>1. E[L] = F[L + 1] - n /\ F[L + 1] \in Nat
    BY <1>9, <1>10
  <2> DEFINE x == F[L + 1]
  <2>2. x \in Nat
    BY <2>1
  <2> HIDE DEF x
  <2>3. (x - n) + n = x
    BY <1>8, <2>2
  <2>4. QED
    BY <1>4, <1>13, <2>1, <2>3 DEF x
<1>15. Contains(cur.order, r) <=> r \in ToSet(cur.order)
  <2>1. cur.order \in Seq(Requests)
    BY OutputFacts
  <2>2. DOMAIN cur.order = 1..Len(cur.order)
    BY <2>1, LenProperties
  <2>3. QED
    BY <2>2 DEF Contains, ToSet
<1>16. n = IF Contains(cur.order, r) THEN cur.n[r] ELSE 0
  BY <1>6, <1>15 DEF n
<1>17. InFlight(r) = SumOf(s) + n
  BY <1>16 DEF InFlight, s
<1>18. QED
  BY <1>5, <1>14, <1>17

(* num_inflight_tokens is the number of tokens of the request in the steps in *)
(* flight and the output being processed, and the stale ones are part of      *)
(* them.                                                                      *)
THEOREM InFlightAlwaysAccounted == Spec => []InFlightAccounting
<1>1. OutputInv /\ StepBudgets => InFlightAccounting
  <2>1. OutputInv => RequestCounters
    BY CountedInFlight, QueueFacts DEF OutputInv, RequestOk, RequestCounters
  <2>2. QED
    BY <2>1 DEF InFlightAccounting
<1>2. QED
  BY <1>1, OutputInvariant, StepBudgetsHold, PTL

-----------------------------------------------------------------------------
(* long_prefill_token_threshold is off, or longer than a request's drafts, so    *)
(* that it never cuts a padded decode.                                        *)
PadsWhole == Threshold = 0 \/ Threshold > NumSpec

(* A decode knows one token more than it computed, counting the awaited ones; a   *)
(* prefill has one token to go at least, and the lookahead.                   *)
InDecode(r) == computed[r] = NumTokens(r) + placeholders[r] - 1
InPrefill(r) ==
  /\ placeholders[r] = 0 /\ spec[r] = 0 /\ NumTokens(r) - computed[r] >= 1
  /\ NumTokens(r) - computed[r] >= PrefillLookahead
(* Where a grant may end: all known tokens and the drafts, or short of the prompt.*)
Reaches(T, ph, upto, d) ==
  \/ upto = T + ph + d
  \/ ph = 0 /\ d = 0 /\ T - upto >= 1 /\ T - upto >= PrefillLookahead
Planned(r) ==
  Reaches(NumTokens(r), placeholders[r], computed[r] + step.n[r], step.drafts[r])

(* The invariant, request by request.                                         *)
Progress(r) ==
  /\ computed[r] >= 0
  /\ step.n[r] > 0 => spec[r] = 0 /\ Planned(r)
  /\ status[r] # "RUNNING" => computed[r] = 0 /\ spec[r] = 0
  /\ status[r] = "RUNNING" /\ step.n[r] = 0 /\ chunk[r] => InPrefill(r)
  /\ status[r] = "RUNNING" /\ step.n[r] = 0 /\ ~chunk[r] => InDecode(r)
Signs(r) ==
  /\ ~Alive(r) => inflight[r] = 0 /\ stale[r] = 0 /\ placeholders[r] = 0
  /\ next[r] >= 0

ProgressInv == \A r \in Requests : Progress(r)
SignInv == \A r \in Requests : Signs(r)

-----------------------------------------------------------------------------
(* _reserve_prefill_lookahead, on its numbers.                                *)
Reserved(T, from, n) ==
  LET remaining == T - from - n
  IN  AtLeastZero(IF 0 < remaining /\ remaining < PrefillLookahead
                    THEN n - (PrefillLookahead - remaining) ELSE n)

(* _reserve_prefill_lookahead never grants more, and leaves either the whole  *)
(* prefill done or the lookahead still to do.                                 *)
LEMMA ReserveFacts ==
  ASSUME NEW T \in Int, NEW from \in Int, NEW n \in Int, Reserved(T, from, n) > 0
  PROVE  /\ n > 0 /\ Reserved(T, from, n) <= n
         /\ T - from - n <= 0 => Reserved(T, from, n) = n
         /\ n <= T - from => Reaches(T, 0, from + Reserved(T, from, n), 0)
<1>1. PrefillLookahead \in Nat
  BY SizesAssumption
<1>2. QED
  BY <1>1 DEF Reserved, AtLeastZero, Reaches

(* The lesser of two integers.                                                *)
LEMMA LeastFacts ==
  \A a, b \in Int : Least(a, b) \in Int /\ Least(a, b) <= a /\ Least(a, b) <= b
  BY DEF Least

(* The long-prefill threshold takes tokens away; it leaves a padded decode    *)
(* whole when it is zero or longer than the drafts.                           *)
LEMMA CappedFacts ==
  ASSUME NEW n \in Int
  PROVE  /\ Capped(n) \in Int /\ Capped(n) <= n
         /\ PadsWhole /\ n = 1 + NumSpec => Capped(n) = n
  BY SizesAssumption DEF Capped, PadsWhole

(* The numbers of a decode step: n tokens, all but one of them drafts.         *)
LEMMA DecodeNumbers ==
  ASSUME NEW T \in Nat, NEW ph \in Nat, NEW c \in Int, NEW s \in Nat, NEW m \in Int,
         c = T + ph - 1, m <= T + s + ph - c, Reserved(T, c, m) > 0
  PROVE  Reaches(T, ph, c + Reserved(T, c, m),
                 AtLeastZero(Least(s, Reserved(T, c, m) + c - T - ph)))
<1>1. m > 0
  BY ReserveFacts
<1>2. T - c - m <= 0
  BY <1>1
<1>3. Reserved(T, c, m) = m
  BY <1>2, ReserveFacts
<1>4. m + c - T - ph = m - 1 /\ m - 1 <= s /\ m - 1 >= 0
  BY <1>1
<1>5. AtLeastZero(Least(s, m + c - T - ph)) = m - 1
  BY <1>4 DEF AtLeastZero, Least
<1>6. c + m = T + ph + (m - 1)
  OBVIOUS
<1>7. QED
  BY <1>3, <1>5, <1>6 DEF Reaches

(* The numbers of a prefill step: no draft.                                    *)
LEMMA PrefillNumbers ==
  ASSUME NEW T \in Nat, NEW c \in Int, NEW m \in Int, m <= T - c, Reserved(T, c, m) > 0
  PROVE  /\ Reaches(T, 0, c + Reserved(T, c, m), 0)
         /\ AtLeastZero(Least(0, Reserved(T, c, m) + c - T - 0)) = 0
<1>1. /\ Reaches(T, 0, c + Reserved(T, c, m), 0) /\ Reserved(T, c, m) <= m
  BY ReserveFacts
<1>2. PrefillLookahead \in Nat
  BY SizesAssumption
<1>3. Reserved(T, c, m) \in Int
  BY <1>2 DEF Reserved, AtLeastZero
<1> DEFINE n == Reserved(T, c, m)
<1>4. n \in Int /\ n <= m
  BY <1>1, <1>3
<1> HIDE DEF n
<1>5. n + c - T - 0 <= 0 /\ n + c - T - 0 \in Int
  BY <1>4
<1>6. AtLeastZero(Least(0, n + c - T - 0)) = 0
  BY <1>5 DEF AtLeastZero, Least
<1>7. QED
  BY <1>1, <1>6 DEF n

-----------------------------------------------------------------------------
(* The numbers of a request.                                                  *)
LEMMA ProgressTypes ==
  ASSUME OutputInv, NEW r \in Requests
  PROVE  /\ Types /\ NumTokens(r) \in Nat \ {0} /\ computed[r] \in Int /\ spec[r] \in Nat
         /\ placeholders[r] \in Int /\ step.n[r] \in Nat /\ step.drafts[r] \in Nat
         /\ chunk[r] \in BOOLEAN /\ status[r] \in Statuses
         /\ Alive(r) => placeholders[r] \in Nat /\ inflight[r] \in Nat /\ stale[r] \in Nat
<1>1. Types
  BY QueueFacts DEF OutputInv
<1>2. Prompt[r] \in Nat \ {0} /\ Len(log[r]) \in Nat
  BY <1>1, LenProperties, RequestsAssumption DEF Types, RequestTypes
<1>3. NumTokens(r) \in Nat \ {0}
  BY <1>2 DEF NumTokens
<1>4. ASSUME Alive(r)
      PROVE  placeholders[r] \in Nat /\ inflight[r] \in Nat /\ stale[r] \in Nat
  <2>1. Ledger(r) /\ Len(flight) \in Nat
    BY <1>1, <1>4, OutputFacts DEF OutputInv, RequestOk
  <2> DEFINE L == Len(flight)
  <2>2. PICK F \in [0..(L + 1) -> Nat], G \in [0..(L + 1) -> Nat], k \in 0..(L + 1) :
          LedgerWith(F, G, k, L, TokensIn(r), SampledIn(r), PositionsIn(r), NumTokens(r),
                     status[r], inflight[r], stale[r], drop[r], placeholders[r], next[r])
    BY <2>1 DEF Ledger, LedgerOf
  <2>3. inflight[r] = F[L + 1] /\ stale[r] = F[k]
    BY <2>2 DEF LedgerWith, Counts
  <2>4. placeholders[r] = 0 \/ placeholders[r] = G[L + 1]
    BY <2>2 DEF LedgerWith, Holders
  <2>5. L + 1 \in 0..(L + 1)
    BY <2>1
  <2>6. QED
    BY <2>3, <2>4, <2>5
<1>5. QED
  BY <1>1, <1>3, <1>4, StepFieldTypes DEF Types, RequestTypes, Counters

(* What Progress(r) reads.                                                    *)
Kept(r) ==
  /\ status'[r] = status[r] /\ log'[r] = log[r] /\ computed'[r] = computed[r]
  /\ spec'[r] = spec[r] /\ chunk'[r] = chunk[r] /\ placeholders'[r] = placeholders[r]
  /\ step'.n[r] = step.n[r] /\ step'.drafts[r] = step.drafts[r]

(* Progress(r) is kept when nothing it reads changes.                         *)
LEMMA KeptProgress ==
  ASSUME NEW r \in Requests, Progress(r), Kept(r)
  PROVE  Progress(r)'
<1>1. NumTokens(r)' = NumTokens(r)
  BY DEF Kept, NumTokens
<1>2. (Planned(r)' <=> Planned(r)) /\ (InPrefill(r)' <=> InPrefill(r)) /\ (InDecode(r)' <=> InDecode(r))
  BY <1>1 DEF Kept, Planned, InPrefill, InDecode
<1>3. QED
  BY <1>2 DEF Progress, Kept

(* The tokens the running loop gives: at most those wanted, and the context's.  *)
LEMMA NewTokensAre ==
  ASSUME Types, NEW r \in Requests
  PROVE  \E m \in Int :
           /\ NumNewTokens(r) = Reserved(NumTokens(r), computed[r], m)
           /\ m <= NumTokens(r) + spec[r] + placeholders[r] - computed[r]
           /\ m <= MaxModelLen - computed[r] - 1
<1> DEFINE T == NumTokens(r)
           ph == placeholders[r]
           c == computed[r]
           s == spec[r]
           w == T + s + ph - c
           b == MaxModelLen - c - 1
           a == Least(Capped(w), RequestBudget)
           m == Least(a, b)
<1>1. /\ T \in Int /\ c \in Int /\ s \in Int /\ ph \in Int
      /\ MaxModelLen \in Int /\ RequestBudget \in Int
  BY TokensAreNumbers, SizesAssumption DEF Types, RequestTypes, Counters
<1>2. w \in Int /\ b \in Int
  BY <1>1
<1>3. NumNewTokens(r) = Reserved(T, c, m)
  BY DEF NumNewTokens, ReservePrefillLookahead, Reserved
<1>4. m \in Int /\ m <= w /\ m <= b
  <2> HIDE DEF w, b
  <2>1. Capped(w) \in Int /\ Capped(w) <= w
    BY <1>2, CappedFacts
  <2>2. a \in Int /\ a <= Capped(w)
    BY <1>1, <2>1, LeastFacts
  <2> HIDE DEF a
  <2>3. m \in Int /\ m <= a /\ m <= b
    BY <1>2, <2>2, LeastFacts
  <2> HIDE DEF m
  <2>4. QED
    BY <1>2, <2>1, <2>2, <2>3
<1>5. QED
  BY <1>3, <1>4

(* The request the running loop looks at.                                     *)
LEMMA CurrentRuns ==
  ASSUME QueueInv, InRunningLoop
  PROVE  /\ Current \in Requests /\ pc = "running" /\ step.n[Current] = 0
         /\ status[Current] = "RUNNING"
<1>0. Types /\ running \in Seq(Requests)
  BY QueueFacts
<1>1. /\ Current \in Requests /\ step.idx \in 1..Len(running) /\ pc = "running"
      /\ Current = running[step.idx]
  BY <1>0, CurrentFacts DEF InRunningLoop, Current
<1>2. step.n[Current] = 0
  <2>1. step.idx >= step.idx
    BY StepFieldTypes, <1>0
  <2>2. QED
    BY <1>0, <1>1, <2>1 DEF QueueInv, StepAhead
<1>3. Current \in ToSet(running)
  BY <1>0, <1>1, LenProperties DEF ToSet
<1>4. QED
  BY <1>0, <1>1, <1>2, <1>3 DEF QueueInv, QueuesByStatus

(* A running request is scheduled up to its known tokens and drafts, or up to *)
(* a prefill chunk.                                                           *)
LEMMA ScheduleRunningProgress ==
  ASSUME OutputInv, ProgressInv, ScheduleRunning
  PROVE  ProgressInv'
<1>0. /\ Types /\ step \in StepLocals /\ step.n \in [Requests -> Nat]
      /\ step.drafts \in [Requests -> Nat] /\ spec \in [Requests -> Nat]
      /\ running \in Seq(Requests) /\ QueueInv
  BY QueueFacts, StepFieldTypes DEF OutputInv, Types, RequestTypes
<1>1. /\ Current \in Requests /\ pc = "running" /\ step.n[Current] = 0
      /\ status[Current] = "RUNNING"
  BY <1>0, CurrentRuns DEF ScheduleRunning
<1>2. PICK r \in Requests : r = Current
  BY <1>1
<1> DEFINE n == NumNewTokens(r)
           T == NumTokens(r)
           ph == placeholders[r]
           c == computed[r]
           s == spec[r]
           d == AtLeastZero(Least(s, n + c - T - ph))
<1>3. n \in Nat /\ n > 0 /\ d \in Nat
  BY <1>0, <1>2, TokensAreNumbers, DraftsAreNumbers DEF ScheduleRunning, Schedulable
<1>4. /\ T \in Nat \ {0} /\ c \in Int /\ s \in Nat /\ ph \in Nat
      /\ chunk[r] \in BOOLEAN
  BY <1>1, <1>2, ProgressTypes DEF Alive
<1>5. /\ step'.n = [step.n EXCEPT ![r] = n] /\ step'.drafts = [step.drafts EXCEPT ![r] = d]
      /\ spec' = [spec EXCEPT ![r] = 0]
      /\ UNCHANGED <<status, log, computed, placeholders, chunk>>
  <2>1. /\ step' = [Scheduled(r, n, d) EXCEPT !.idx = @ + 1, !.ranRunning = TRUE,
                                              !.ranPrefill = @ \/ chunk[r]]
        /\ spec' = [spec EXCEPT ![r] = 0]
        /\ UNCHANGED <<status, log, computed, placeholders, chunk>>
    BY <1>2 DEF ScheduleRunning
  <2> HIDE DEF n, d
  <2>2. QED
    BY <1>0, <2>1 DEF Scheduled, StepLocals
<1>6. \E m \in Int : n = Reserved(T, c, m) /\ m <= T + s + ph - c
  BY <1>0, NewTokensAre
<1>7. PICK m \in Int : n = Reserved(T, c, m) /\ m <= T + s + ph - c
  BY <1>6
<1>8. Reaches(T, ph, c + n, d)
  <2>1. CASE chunk[r]
    <3>1. ph = 0 /\ s = 0
      BY <1>1, <1>2, <2>1 DEF ProgressInv, Progress, InPrefill
    <3> HIDE DEF n, T, c, s, ph
    <3>2. m <= T - c
      BY <1>4, <1>7, <3>1
    <3>3. Reaches(T, 0, c + n, 0) /\ d = 0
      BY <1>3, <1>4, <1>7, <3>1, <3>2, PrefillNumbers
    <3>4. QED
      BY <3>1, <3>3
  <2>2. CASE ~chunk[r]
    <3>1. c = T + ph - 1
      BY <1>1, <1>2, <2>2 DEF ProgressInv, Progress, InDecode
    <3> HIDE DEF n, T, c, s, ph
    <3>2. QED
      BY <1>3, <1>4, <1>7, <3>1, DecodeNumbers
  <2>3. QED
    BY <2>1, <2>2
<1>9. step'.n[r] = n /\ step'.drafts[r] = d /\ spec'[r] = 0 /\ NumTokens(r)' = T
  <2> HIDE DEF n, d
  <2>1. QED
    BY <1>0, <1>5 DEF NumTokens
<1>10. Progress(r)'
  <2>1. Planned(r)'
    BY <1>5, <1>8, <1>9 DEF Planned
  <2>2. computed'[r] >= 0
    BY <1>5 DEF ProgressInv, Progress
  <2>3. step'.n[r] # 0 /\ status'[r] = "RUNNING"
    BY <1>1, <1>2, <1>3, <1>5, <1>9
  <2>4. QED
    BY <1>9, <2>1, <2>2, <2>3 DEF Progress
<1>11. \A q \in Requests : q # r => Kept(q)
  <2> HIDE DEF n, d
  <2>1. QED
    BY <1>0, <1>5 DEF Kept
<1>12. QED
  BY <1>10, <1>11, KeptProgress DEF ProgressInv

(* An admitted request is scheduled up to its prompt, padded, or up to a      *)
(* prefill chunk.                                                             *)
LEMMA AdmitProgress ==
  ASSUME OutputInv, ProgressInv, PadsWhole, Admit
  PROVE  ProgressInv'
<1>0. /\ Types /\ step \in StepLocals /\ step.n \in [Requests -> Nat]
      /\ step.drafts \in [Requests -> Nat] /\ computed \in Counters /\ QueueInv
      /\ status \in [Requests -> Statuses]
  BY QueueFacts, StepFieldTypes DEF OutputInv, Types, RequestTypes
<1>a. Candidate \in Requests /\ status[Candidate] \in {"WAITING", "PREEMPTED"}
  BY <1>0, PopQueues DEF Admit, InWaitingLoop
<1>1. PICK r \in Requests : r = Candidate
  BY <1>a
<1>2. status[r] \in {"WAITING", "PREEMPTED"}
  BY <1>a, <1>1
<1>3. PICK hit \in HitLengths(r) :
        /\ AdmittedTokens(r, hit) > 0
        /\ computed' = [computed EXCEPT ![r] = hit]
        /\ step' = Scheduled(r, AdmittedTokens(r, hit), IF Padded(r, hit) THEN NumSpec ELSE 0)
        /\ status' = [status EXCEPT ![r] = "RUNNING"]
        /\ UNCHANGED <<log, spec, chunk, placeholders>>
  BY <1>1 DEF Admit
<1> DEFINE T == NumTokens(r)
           n == AdmittedTokens(r, hit)
           d == IF Padded(r, hit) THEN NumSpec ELSE 0
<1>4. /\ T \in Nat \ {0} /\ hit \in Nat /\ n \in Nat /\ NumSpec \in Nat /\ d \in Nat
      /\ RequestBudget \in Int
  BY <1>0, TokensAreNumbers, ProgressTypes, SizesAssumption
<1>5. placeholders[r] = 0 /\ spec[r] = 0
  <2>1. spec[r] = 0
    BY <1>2 DEF ProgressInv, Progress
  <2>2. Ledger(r)
    BY <1>2 DEF OutputInv, RequestOk, Alive
  <2>3. QED
    BY <1>2, <2>1, <2>2 DEF Ledger, LedgerOf, LedgerWith
<1>6. /\ step'.n = [step.n EXCEPT ![r] = n] /\ step'.drafts = [step.drafts EXCEPT ![r] = d]
  <2>1. step' = Scheduled(r, n, d)
    BY <1>3
  <2> HIDE DEF n, d
  <2>2. QED
    BY <1>0, <2>1 DEF Scheduled, StepLocals
<1>7. Reaches(T, 0, hit + n, d)
  <2>1. CASE Padded(r, hit)
    <3>1. T - hit = 1 /\ d = NumSpec
      BY <2>1 DEF Padded
    <3>2. /\ 1 + NumSpec <= RequestBudget
          /\ n = Reserved(T, hit, Least(Capped(1 + NumSpec), RequestBudget))
      BY <1>3, <1>4, <2>1 DEF AdmittedTokens, ReservePrefillLookahead, Reserved
    <3>3. Least(Capped(1 + NumSpec), RequestBudget) = 1 + NumSpec
      <4>1. Capped(1 + NumSpec) = 1 + NumSpec
        BY <1>4, CappedFacts
      <4>2. QED
        BY <1>4, <3>2, <4>1 DEF Least
    <3> HIDE DEF n, T, d
    <3>4. Reserved(T, hit, 1 + NumSpec) > 0 /\ T - hit - (1 + NumSpec) <= 0
      BY <1>3, <1>4, <3>1, <3>2, <3>3 DEF n
    <3>5. n = 1 + NumSpec
      BY <1>4, <3>2, <3>3, <3>4, ReserveFacts
    <3>6. hit + n = T + 0 + d
      BY <1>4, <3>1, <3>5
    <3>7. QED
      BY <3>6 DEF Reaches
  <2>2. CASE ~Padded(r, hit)
    <3> DEFINE m == Least(Capped(T - hit), RequestBudget)
    <3>1. d = 0 /\ n = Reserved(T, hit, m) /\ n > 0
      BY <1>3, <2>2 DEF AdmittedTokens, ReservePrefillLookahead, Reserved
    <3> HIDE DEF n, T, d
    <3>2. m \in Int /\ m <= T - hit
      <4>1. T - hit \in Int
        BY <1>4
      <4> DEFINE x == T - hit
      <4>2. x \in Int
        BY <4>1
      <4> HIDE DEF x
      <4>a. Capped(x) \in Int /\ Capped(x) <= x
        BY <4>2, CappedFacts
      <4>b. /\ Least(Capped(x), RequestBudget) \in Int
            /\ Least(Capped(x), RequestBudget) <= Capped(x)
        BY <1>4, <4>a, LeastFacts
      <4>3. Least(Capped(x), RequestBudget) \in Int /\ Least(Capped(x), RequestBudget) <= x
        BY <4>2, <4>a, <4>b
      <4>4. QED
        BY <4>3 DEF x
    <3> HIDE DEF m
    <3>3. T \in Nat /\ hit \in Int
      BY <1>4
    <3>4. Reaches(T, 0, hit + n, 0)
      BY <3>1, <3>2, <3>3, PrefillNumbers
    <3>5. QED
      BY <3>1, <3>4
  <2>3. QED
    BY <2>1, <2>2
<1>8. /\ step'.n[r] = n /\ step'.drafts[r] = d /\ computed'[r] = hit /\ NumTokens(r)' = T
      /\ status'[r] = "RUNNING"
  <2> HIDE DEF n, d
  <2>1. QED
    BY <1>0, <1>3, <1>6 DEF NumTokens, Counters
<1>9. Progress(r)'
  <2>1. Planned(r)'
    BY <1>3, <1>5, <1>7, <1>8 DEF Planned
  <2>2. computed'[r] >= 0 /\ step'.n[r] # 0 /\ spec'[r] = 0
    BY <1>3, <1>4, <1>5, <1>8
  <2>3. QED
    BY <1>8, <2>1, <2>2 DEF Progress
<1>10. \A q \in Requests : q # r => Kept(q)
  <2> HIDE DEF n, d
  <2>1. QED
    BY <1>0, <1>3, <1>6 DEF Kept, Counters
<1>11. QED
  BY <1>9, <1>10, KeptProgress DEF ProgressInv

(* The end of schedule() makes prefills of the requests that stay behind, and *)
(* decodes of the others.                                                     *)
LEMMA EndScheduleProgress ==
  ASSUME OutputInv, ProgressInv, EndSchedule
  PROVE  ProgressInv'
<1>0. Types
  BY QueueFacts DEF OutputInv
<1>1. PICK o \in StepOutput, samples \in SUBSET Requests : Effect(o, samples)
  BY <1>0, EndScheduleEffect
<1>2. SUFFICES ASSUME NEW r \in Requests PROVE Progress(r)'
  BY DEF ProgressInv
<1> DEFINE T == NumTokens(r)
           n == step.n[r]
           d == step.drafts[r]
           ph == placeholders[r]
           c == computed[r]
<1>3. /\ T \in Nat \ {0} /\ c \in Int /\ ph \in Int /\ n \in Nat /\ d \in Nat
      /\ status[r] = "RUNNING" => ph \in Nat
  BY ProgressTypes DEF Alive
<1>4. /\ r \in samples <=> n > 0 /\ ~(c + n < T + ph)
      /\ computed'[r] = c + n
      /\ placeholders'[r] = IF r \in samples THEN ph + 1 + d ELSE ph
      /\ spec'[r] = IF r \in samples THEN NumSpec ELSE spec[r]
      /\ n > 0 => (chunk'[r] <=> r \notin samples)
      /\ ~(n > 0) => chunk'[r] = chunk[r]
      /\ step'.n[r] = 0 /\ step'.drafts[r] = 0
      /\ status'[r] = status[r] /\ NumTokens(r)' = T
  BY <1>1 DEF Effect, NoStep, NoRequest, NumTokens
<1>5. /\ c >= 0
      /\ n > 0 => spec[r] = 0 /\ Reaches(T, ph, c + n, d) /\ status[r] = "RUNNING"
  BY DEF ProgressInv, Progress, Planned, OutputInv, QueueInv, StepDistinct
<1>6. CASE ~(n > 0)
  <2>1. n = 0 /\ c + n = c
    BY <1>3, <1>6
  <2>2. /\ computed'[r] = c /\ placeholders'[r] = ph /\ spec'[r] = spec[r]
        /\ chunk'[r] = chunk[r]
    BY <1>4, <1>6, <2>1
  <2>3. /\ status[r] # "RUNNING" => c = 0 /\ spec[r] = 0
        /\ status[r] = "RUNNING" /\ chunk[r] => InPrefill(r)
        /\ status[r] = "RUNNING" /\ ~chunk[r] => InDecode(r)
    BY <2>1 DEF ProgressInv, Progress
  <2>4. (InPrefill(r)' <=> InPrefill(r)) /\ (InDecode(r)' <=> InDecode(r))
    BY <1>4, <2>2 DEF InPrefill, InDecode
  <2>5. QED
    BY <1>4, <1>5, <2>2, <2>3, <2>4 DEF Progress
<1>7. CASE n > 0 /\ r \in samples
  <2>1. ~(c + n < T + ph) /\ ph \in Nat
    BY <1>3, <1>4, <1>5, <1>7
  <2>2. c + n = T + ph + d
    <3>1. ~(ph = 0 /\ d = 0 /\ T - (c + n) >= 1)
      BY <1>3, <2>1
    <3>2. QED
      BY <1>5, <1>7, <3>1 DEF Reaches
  <2>3. computed'[r] = NumTokens(r)' + placeholders'[r] - 1 /\ computed'[r] >= 0
    <3>1. computed'[r] = c + n /\ placeholders'[r] = ph + 1 + d /\ NumTokens(r)' = T
      BY <1>4, <1>7
    <3>2. c + n = T + (ph + 1 + d) - 1 /\ c + n >= 0
      <4> HIDE DEF T, n, d, ph, c
      <4>1. QED
        BY <1>3, <2>1, <2>2
    <3>3. QED
      BY <3>1, <3>2
  <2>4. InDecode(r)'
    BY <2>3 DEF InDecode
  <2>5. ~chunk'[r]
    BY <1>4, <1>7
  <2>6. QED
    BY <1>4, <1>5, <1>7, <2>3, <2>4, <2>5 DEF Progress
<1>8. CASE n > 0 /\ r \notin samples
  <2>1. c + n < T + ph /\ ph \in Nat
    BY <1>3, <1>4, <1>5, <1>8
  <2>2. ph = 0 /\ T - (c + n) >= 1 /\ T - (c + n) >= PrefillLookahead
    <3>1. c + n # T + ph + d
      BY <1>3, <2>1
    <3>2. QED
      BY <1>5, <1>8, <3>1 DEF Reaches
  <2>3. computed'[r] = c + n /\ placeholders'[r] = 0 /\ spec'[r] = 0 /\ chunk'[r]
    BY <1>4, <1>5, <1>8, <2>2
  <2>4. InPrefill(r)'
    BY <1>4, <2>2, <2>3 DEF InPrefill
  <2>5. computed'[r] >= 0
    BY <1>3, <1>5, <2>3
  <2>6. QED
    BY <1>4, <1>5, <1>8, <2>3, <2>4, <2>5 DEF Progress
<1>9. QED
  BY <1>6, <1>7, <1>8

(* Steps after which one request runs no more.                                 *)
LEMMA OneStops ==
  ASSUME ProgressInv, NEW q \in Requests, \A r \in Requests : r # q => Kept(r),
         status'[q] # "RUNNING", computed'[q] = 0, spec'[q] = 0,
         ~(step'.n[q] > 0)
  PROVE  ProgressInv'
<1>1. Progress(q)'
  BY DEF Progress
<1>2. QED
  BY <1>1, KeptProgress DEF ProgressInv

(* A preempted request starts anew.                                           *)
LEMMA PreemptProgress ==
  ASSUME OutputInv, ProgressInv, PreemptForRoom \/ ResetOne
  PROVE  ProgressInv'
<1>0. /\ Types /\ step \in StepLocals /\ step.n \in [Requests -> Nat]
      /\ step.drafts \in [Requests -> Nat] /\ running \in Seq(Requests) /\ QueueInv
      /\ status \in [Requests -> Statuses] /\ computed \in Counters
      /\ spec \in [Requests -> Nat] /\ placeholders \in Counters
  BY QueueFacts, StepFieldTypes DEF OutputInv, Types, RequestTypes
<1>1. ASSUME NEW v \in Requests, NEW b, Preempt(v, b)
      PROVE  /\ status'[v] = "PREEMPTED" /\ computed'[v] = 0 /\ spec'[v] = 0
             /\ \A r \in Requests : r # v =>
                  /\ status'[r] = status[r] /\ log'[r] = log[r] /\ computed'[r] = computed[r]
                  /\ spec'[r] = spec[r] /\ chunk'[r] = chunk[r]
                  /\ placeholders'[r] = placeholders[r]
  BY <1>0, <1>1 DEF Preempt, Counters
<1>2. CASE PreemptForRoom
  <2>1. Victim \in Requests
    BY <1>0, <1>2, CurrentFacts, VictimIsRunning DEF PreemptForRoom
  <2>2. PICK v \in Requests : v = Victim
    BY <2>1
  <2> DEFINE at == CHOOSE i \in DOMAIN running : running[i] = v
  <2>3. /\ Preempt(v, DropOnPreempt)
        /\ step' = [TakenBack(v) EXCEPT !.preempted = TRUE, !.stop = (v = Current),
                                        !.idx = IF at < @ THEN @ - 1 ELSE @]
    BY <1>2, <2>2 DEF PreemptForRoom
  <2> HIDE DEF at
  <2>4. step'.n = [step.n EXCEPT ![v] = 0] /\ step'.drafts = [step.drafts EXCEPT ![v] = 0]
    BY <1>0, <2>3 DEF TakenBack, StepLocals
  <2>5. \A r \in Requests : r # v => Kept(r)
    BY <1>0, <1>1, <2>3, <2>4 DEF Kept
  <2>6. ~(step'.n[v] > 0)
    BY <1>0, <2>4
  <2>7. QED
    BY <1>1, <2>3, <2>5, <2>6, OneStops
<1>3. CASE ResetOne
  <2>1. Last(running) \in Requests
    BY <1>0, <1>3, VictimIsRunning DEF ResetOne
  <2>2. PICK v \in Requests : v = Last(running)
    BY <2>1
  <2>3. Preempt(v, TRUE) /\ step' = step /\ step.n = NoRequest
    BY <1>0, <1>3, <2>2 DEF ResetOne, QueueInv, StepAhead
  <2>4. \A r \in Requests : r # v => Kept(r)
    BY <1>1, <2>3 DEF Kept
  <2>5. ~(step'.n[v] > 0)
    BY <2>3 DEF NoRequest
  <2>6. QED
    BY <1>1, <2>3, <2>4, <2>5, OneStops
<1>4. QED
  BY <1>2, <1>3

(* A finished request has nothing computed.                                   *)
LEMMA FinishProgress ==
  ASSUME OutputInv, ProgressInv, NEW q \in Requests, Finish(q), UNCHANGED step,
         pc \in {"idle", "update"}, \A r \in Requests : r # q => log'[r] = log[r]
  PROVE  ProgressInv' 
<1>0. /\ status \in [Requests -> Statuses] /\ computed \in Counters /\ QueueInv
      /\ spec \in [Requests -> Nat] /\ placeholders \in Counters
      /\ chunk \in [Requests -> BOOLEAN]
  BY QueueFacts DEF OutputInv, Types, RequestTypes
<1>1. \A r \in Requests : r # q => Kept(r)
  BY <1>0 DEF Kept, Finish, Counters
<1>2. status'[q] = "FINISHED" /\ computed'[q] = 0 /\ spec'[q] = 0
  BY <1>0 DEF Finish, Counters
<1>3. ~(step'.n[q] > 0)
  BY <1>0 DEF QueueInv, StepAhead, NoRequest
<1>4. QED
  BY <1>1, <1>2, <1>3, OneStops

(* Rejected drafts are taken back from what is computed, and from the         *)
(* placeholders.                                                              *)
LEMMA DeliverProgress ==
  ASSUME OutputInv, ProgressInv, DeliverTokens
  PROVE  ProgressInv'
<1>0. /\ Types /\ Types' /\ Returned \in Requests /\ QueueInv
      /\ computed \in Counters /\ placeholders \in Counters /\ log \in [Requests -> Seq(Int)]
  <2>1. Types
    BY QueueFacts DEF OutputInv
  <2>2. QED
    BY <2>1, UpdateTypes, ReturnedFacts
       DEF UpdateAction, DeliverTokens, Types, RequestTypes, OutputInv
<1>1. PICK q \in Requests : q = Returned
  BY <1>0
<1>2. /\ InUpdateLoop /\ RestOfOutput /\ Alive(q) /\ ~Discards(q) /\ pc = "update"
      /\ UNCHANGED <<flight, pc, status, spec, chunk, step>>
  BY <1>1 DEF DeliverTokens, InUpdateLoop
<1>3. PICK g \in 1..(1 + cur.drafts[q]) :
        /\ log' = [log EXCEPT ![q] = log[q] \o [i \in 1..g |-> SampledFrom(q) + i - 1]]
        /\ computed' = [computed EXCEPT ![q] = RolledBack(q, 1 + cur.drafts[q] - g)]
        /\ placeholders' =
             [placeholders EXCEPT ![q] = PlaceholdersAfter(q, 1 + cur.drafts[q] - g, g)]
  <2>1. \E g \in 1..(1 + cur.drafts[Returned]) :
          /\ Appended(Returned, g)
          /\ computed' = [computed EXCEPT ![Returned] =
                            RolledBack(Returned, 1 + cur.drafts[Returned] - g)]
          /\ placeholders' =
               [placeholders EXCEPT ![Returned] =
                  PlaceholdersAfter(Returned, 1 + cur.drafts[Returned] - g, g)]
    BY DEF DeliverTokens
  <2>2. PICK g \in 1..(1 + cur.drafts[Returned]) :
          /\ Appended(Returned, g)
          /\ computed' = [computed EXCEPT ![Returned] =
                            RolledBack(Returned, 1 + cur.drafts[Returned] - g)]
          /\ placeholders' =
               [placeholders EXCEPT ![Returned] =
                  PlaceholdersAfter(Returned, 1 + cur.drafts[Returned] - g, g)]
    BY <2>1
  <2>3. QED
    BY <1>1, <2>2 DEF Appended
<1>4. \A r \in Requests : r # q => Kept(r)
  BY <1>0, <1>2, <1>3 DEF Kept, Counters
<1> DEFINE T == NumTokens(q)
           d == cur.drafts[q]
           c == computed[q]
           ph == placeholders[q]
           sta == stale[q]
<1>5. /\ SampledFrom(q) = T /\ T \in Nat /\ d \in Nat /\ sta \in Nat /\ ph \in Nat
      /\ sta = 0 => 1 + d <= ph
  BY <1>0, <1>1, <1>2, SampledInOrder
<1>6. c \in Int /\ g \in Nat /\ g >= 1 /\ g <= 1 + d /\ T # 0 /\ chunk[q] \in BOOLEAN
  <2>1. g \in Nat /\ g >= 1 /\ g <= 1 + d
    BY <1>5
  <2>2. QED
    BY <2>1, ProgressTypes
<1>7. NumTokens(q)' = T + g
  <2>1. Prompt[q] \in Nat /\ log[q] \in Seq(Int) /\ Len(log[q]) \in Nat
    BY <1>0, LenProperties, RequestsAssumption
  <2> DEFINE new == [i \in 1..g |-> T + i - 1]
  <2>2. new \in Seq(Int) /\ Len(new) = g
    BY <1>5, <1>6
  <2>3. log'[q] = log[q] \o new
    BY <1>0, <1>3, <1>5
  <2> HIDE DEF new, T
  <2>4. Len(log'[q]) = Len(log[q]) + g
    BY <2>1, <2>2, <2>3, ConcatProperties
  <2>5. NumTokens(q)' = Prompt[q] + (Len(log[q]) + g) /\ T = Prompt[q] + Len(log[q])
    BY <2>4 DEF NumTokens, T
  <2>6. QED
    BY <1>6, <2>1, <2>5
<1>8. /\ computed'[q] = IF sta > 0 \/ c = 0 THEN c ELSE c - (1 + d - g)
      /\ placeholders'[q] = IF sta > 0 THEN ph
                            ELSE (IF ph > 0 THEN ph - (1 + d - g) ELSE 0) - g
  <2>1. /\ computed'[q] = RolledBack(q, 1 + d - g)
        /\ placeholders'[q] = PlaceholdersAfter(q, 1 + d - g, g)
    BY <1>0, <1>3 DEF Counters
  <2>2. QED
    BY <2>1 DEF RolledBack, PlaceholdersAfter, IsStale
<1>9. step.n[q] = 0 /\ step'.n[q] = 0
  BY <1>0, <1>2 DEF QueueInv, StepAhead, NoRequest
<1>10. CASE status[q] # "RUNNING"
  <2>1. c = 0 /\ spec[q] = 0
    BY <1>10 DEF ProgressInv, Progress
  <2>2. computed'[q] = 0 /\ spec'[q] = 0 /\ status'[q] # "RUNNING"
    BY <1>2, <1>8, <1>10, <2>1
  <2>3. Progress(q)'
    BY <1>9, <2>2 DEF Progress
  <2>4. QED
    BY <1>4, <2>3, KeptProgress DEF ProgressInv
<1>11. CASE status[q] = "RUNNING"
  <2>1. sta = 0
    <3>1. Ledger(q)
      BY <1>2 DEF OutputInv, RequestOk
    <3>2. sta = 0 \/ drop[q]
      BY <1>11, <3>1 DEF Ledger, LedgerOf, LedgerWith
    <3>3. QED
      BY <1>2, <1>5, <3>2 DEF Discards, IsStale
  <2>2. 1 + d <= ph
    BY <1>5, <2>1
  <2>3. ~chunk[q]
    <3>1. ph # 0
      BY <1>5, <2>2
    <3>2. QED
      BY <1>9, <1>11, <3>1 DEF ProgressInv, Progress, InPrefill
  <2>4. c = T + ph - 1
    BY <1>9, <1>11, <2>3 DEF ProgressInv, Progress, InDecode
  <2>5. computed'[q] = c - (1 + d - g) /\ placeholders'[q] = (ph - (1 + d - g)) - g
    <3> HIDE DEF T, d, c, ph, sta
    <3>1. ~(sta > 0) /\ ph > 0 /\ c # 0
      BY <1>5, <1>6, <2>1, <2>2, <2>4
    <3>2. QED
      BY <1>8, <3>1
  <2>6. computed'[q] = NumTokens(q)' + placeholders'[q] - 1 /\ computed'[q] >= 0
    <3> HIDE DEF T, d, c, ph, sta
    <3>1. c - (1 + d - g) = (T + g) + ((ph - (1 + d - g)) - g) - 1
      BY <1>5, <1>6, <2>4
    <3>2. c - (1 + d - g) >= 0
      BY <1>5, <1>6, <2>2, <2>4
    <3>3. QED
      BY <1>7, <2>5, <3>1, <3>2
  <2>7. Progress(q)'
    BY <1>2, <1>9, <1>11, <2>3, <2>6 DEF Progress, InDecode
  <2>8. QED
    BY <1>4, <2>7, KeptProgress DEF ProgressInv
<1>12. QED
  BY <1>10, <1>11

(* Steps that leave a request's numbers alone keep its progress.              *)
LEMMA ProgressQuiet ==
  ASSUME ProgressInv, UNCHANGED <<status, log, computed, spec, chunk, placeholders>>,
         step'.n = step.n, step'.drafts = step.drafts
  PROVE  ProgressInv'
<1>1. \A r \in Requests : Kept(r)
  BY DEF Kept
<1>2. QED
  BY <1>1, KeptProgress DEF ProgressInv

(* Every step keeps every request's progress.                                 *)
LEMMA ProgressStep ==
  ASSUME OutputInv, ProgressInv, PadsWhole, [Next]_vars
  PROVE  ProgressInv'
<1>0. /\ Types /\ step \in StepLocals /\ status \in [Requests -> Statuses] /\ QueueInv
      /\ log \in [Requests -> Seq(Int)]
  BY QueueFacts, StepFieldTypes DEF OutputInv, Types, RequestTypes
<1>1. CASE \/ UNCHANGED vars \/ BeginReset \/ EndReset
           \/ \E p \in PauseStates : SetPauseState(p)
           \/ BeginUpdate \/ OutputOfFinished \/ OutputWithoutTokens \/ EndUpdate
  <2>1. UNCHANGED <<status, log, computed, spec, chunk, placeholders, step>>
    BY <1>1 DEF vars, tokenVars, BeginReset, EndReset, SetPauseState, BeginUpdate,
                OutputOfFinished, OutputWithoutTokens, EndUpdate
  <2>2. QED
    BY <2>1, ProgressQuiet
<1>2. CASE SkipRunning \/ EndRunningLoop \/ SkipUndelivered \/ StopAdmitting \/ EndWaitingLoop
  <2>1. /\ UNCHANGED <<status, log, computed, spec, chunk, placeholders>>
        /\ step'.n = step.n /\ step'.drafts = step.drafts
    BY <1>0, <1>2 DEF tokenVars, SkipRunning, EndRunningLoop, SkipUndelivered,
                      StopAdmitting, EndWaitingLoop, StepLocals
  <2>2. QED
    BY <2>1, ProgressQuiet
<1>3. CASE BeginSchedule
  <2>1. /\ UNCHANGED <<status, log, computed, spec, chunk, placeholders>>
        /\ step'.n = NoRequest /\ step'.drafts = NoRequest /\ pc = "idle"
    BY <1>3 DEF BeginSchedule, tokenVars, NoStep
  <2>2. step.n = NoRequest
    BY <1>0, <2>1 DEF QueueInv, StepAhead
  <2>3. ASSUME NEW r \in Requests PROVE Progress(r)'
    <3>1. step.n[r] = 0 /\ step'.n[r] = 0 /\ ~(0 > 0)
      BY <2>1, <2>2 DEF NoRequest
    <3>2. NumTokens(r)' = NumTokens(r)
      BY <2>1 DEF NumTokens
    <3>3. (InPrefill(r)' <=> InPrefill(r)) /\ (InDecode(r)' <=> InDecode(r))
      BY <2>1, <3>2 DEF InPrefill, InDecode
    <3>4. Progress(r)
      BY DEF ProgressInv
    <3>5. QED
      BY <2>1, <3>1, <3>3, <3>4 DEF Progress
  <2>4. QED
    BY <2>3 DEF ProgressInv
<1>4. ASSUME NEW q \in Requests, AddRequest(q) PROVE ProgressInv'
  <2>1. /\ UNCHANGED <<log, computed, spec, chunk, placeholders, step>>
        /\ status' = [status EXCEPT ![q] = "WAITING"] /\ status[q] = "NEW" /\ pc = "idle"
    BY <1>4 DEF AddRequest, tokenVars
  <2>2. \A r \in Requests : r # q => Kept(r)
    BY <1>0, <2>1 DEF Kept
  <2>3. status'[q] = "WAITING" /\ computed'[q] = 0 /\ spec'[q] = 0
    BY <1>0, <2>1 DEF ProgressInv, Progress
  <2>4. ~(step'.n[q] > 0)
    BY <1>0, <2>1 DEF QueueInv, StepAhead, NoRequest
  <2>5. QED
    BY <2>2, <2>3, <2>4, OneStops
<1>5. ASSUME NEW q \in Requests, AbortRequest(q) PROVE ProgressInv'
  BY <1>5, FinishProgress DEF AbortRequest
<1>6. CASE DeliverAndStop
  <2>1. Returned \in Requests
    BY <1>0, <1>6, ReturnedFacts DEF DeliverAndStop
  <2>2. PICK q \in Requests : q = Returned
    BY <2>1
  <2>3. /\ Finish(q) /\ step' = step /\ pc = "update"
        /\ \E d \in Nat : Appended(q, d)
    BY <1>6, <2>2 DEF DeliverAndStop, InUpdateLoop
  <2>4. \A r \in Requests : r # q => log'[r] = log[r]
    BY <1>0, <2>3 DEF Appended
  <2>5. QED
    BY <2>3, <2>4, FinishProgress
<1>7. QED
  BY <1>1, <1>2, <1>3, <1>4, <1>5, <1>6, ScheduleRunningProgress, AdmitProgress,
     EndScheduleProgress, PreemptProgress, DeliverProgress
     DEF Next, ScheduleAction, UpdateAction, ResetAction

(* No request has made progress when the scheduler is made.                   *)
LEMMA ProgressInitially == Init => ProgressInv
<1> SUFFICES ASSUME Init, NEW r \in Requests PROVE Progress(r)
  BY DEF ProgressInv
<1>1. /\ status[r] = "NEW" /\ computed[r] = 0 /\ spec[r] = 0 /\ step.n[r] = 0
  BY DEF Init, NoRequest, NoStep
<1>2. QED
  BY <1>1 DEF Progress

(* The inductive invariant of the token counts: a running request that is not *)
(* in the step is a prefill with the lookahead still to do, or a decode       *)
(* exactly one token behind what is known of it.                              *)
THEOREM ProgressInvariant == ASSUME PadsWhole PROVE Spec => []ProgressInv
<1>1. OutputInv /\ ProgressInv /\ [Next]_vars => ProgressInv'
  BY ProgressStep
<1>2. QED
  BY <1>1, ProgressInitially, OutputInvariant, PTL DEF Spec

(* CaughtUp                                                                   *)
THEOREM AlwaysCaughtUp == ASSUME PadsWhole PROVE Spec => []CaughtUp
<1>1. OutputInv /\ ProgressInv => CaughtUp
  <2> SUFFICES ASSUME OutputInv, ProgressInv, pc = "idle", NEW r \in Requests,
                      status[r] = "RUNNING"
               PROVE  IF chunk[r] THEN NumTokens(r) - computed[r] >= PrefillLookahead
                      ELSE computed[r] = NumTokens(r) + placeholders[r] - 1
    BY DEF CaughtUp
  <2>1. step.n[r] = 0
    BY DEF OutputInv, QueueInv, StepAhead, NoRequest
  <2>2. QED
    BY <2>1 DEF ProgressInv, Progress, InPrefill, InDecode
<1>2. QED
  BY <1>1, ProgressInvariant, OutputInvariant, PTL

-----------------------------------------------------------------------------
(* The signs of the counters.                                                 *)
SameSigns(r) ==
  /\ Alive(r)' <=> Alive(r)
  /\ inflight'[r] = inflight[r] /\ stale'[r] = stale[r] /\ placeholders'[r] = placeholders[r]
  /\ next'[r] = next[r]

(* The worker's next position is never negative.                              *)
LEMMA SampledNotNegative ==
  ASSUME OutputInv, SignInv, NEW q \in Requests, Samples(q), NEW g \in Nat,
         WorkerAdvances(q, g)
  PROVE  \A r \in Requests : next'[r] >= 0
<1>1. /\ next \in Counters /\ cur.pos[q] \in Int
      /\ \A r \in Requests : next[r] \in Int /\ next[r] >= 0
  BY QueueFacts, OutputFacts DEF OutputInv, Types, EngineTypes, Counters, SignInv, Signs
<1>2. next' = [next EXCEPT ![q] = SampledFrom(q) + g]
  BY DEF WorkerAdvances
<1>3. SampledFrom(q) \in Int /\ SampledFrom(q) >= 0
  BY <1>1 DEF SampledFrom, Samples
<1>4. SampledFrom(q) + g >= 0
  BY <1>3
<1>5. QED
  BY <1>1, <1>2, <1>4 DEF Counters

(* Every step keeps the signs of the counters.                                *)
LEMMA SignStep ==
  ASSUME OutputInv, OutputInv', SignInv, [Next]_vars
  PROVE  SignInv'
<1>0. /\ Types /\ status \in [Requests -> Statuses] /\ QueueInv
      /\ inflight \in Counters /\ stale \in Counters /\ placeholders \in Counters
      /\ running \in Seq(Requests)
  BY QueueFacts DEF OutputInv, Types, RequestTypes
<1>1. CASE \/ UNCHANGED vars \/ BeginReset \/ EndReset
           \/ \E p \in PauseStates : SetPauseState(p)
           \/ BeginUpdate \/ OutputOfFinished \/ EndUpdate \/ BeginSchedule
           \/ SkipRunning \/ ScheduleRunning \/ EndRunningLoop \/ SkipUndelivered
           \/ StopAdmitting \/ EndWaitingLoop
  <2>1. UNCHANGED <<status, inflight, stale, placeholders, next>>
    BY <1>1 DEF vars, tokenVars, BeginReset, EndReset, SetPauseState, BeginUpdate,
                OutputOfFinished, EndUpdate, BeginSchedule, SkipRunning, ScheduleRunning,
                EndRunningLoop, SkipUndelivered, StopAdmitting, EndWaitingLoop
  <2>2. QED
    BY <2>1 DEF SignInv, Signs, Alive
<1>2. ASSUME NEW q \in Requests, AddRequest(q) PROVE SignInv'
  <2>1. /\ UNCHANGED <<inflight, stale, placeholders, next>>
        /\ status' = [status EXCEPT ![q] = "WAITING"]
    BY <1>2 DEF AddRequest, tokenVars
  <2>2. QED
    BY <1>0, <2>1 DEF SignInv, Signs, Alive
<1>3. ASSUME NEW q \in Requests, Finish(q), \A r \in Requests : next'[r] >= 0
      PROVE  SignInv'
  <2>1. /\ inflight'[q] = 0 /\ stale'[q] = 0 /\ placeholders'[q] = 0
        /\ \A r \in Requests : r # q =>
             /\ inflight'[r] = inflight[r] /\ stale'[r] = stale[r]
             /\ placeholders'[r] = placeholders[r] /\ status'[r] = status[r]
    BY <1>0, <1>3 DEF Finish, Counters
  <2>2. QED
    BY <1>3, <2>1 DEF SignInv, Signs, Alive
<1>4. ASSUME NEW q \in Requests, AbortRequest(q) PROVE SignInv'
  <2>1. Finish(q) /\ next' = next
    BY <1>4 DEF AbortRequest
  <2>2. QED
    BY <1>3, <2>1 DEF SignInv, Signs
<1>5. CASE DeliverAndStop
  <2>1. Returned \in Requests
    BY <1>0, <1>5, ReturnedFacts DEF DeliverAndStop
  <2>2. PICK q \in Requests : q = Returned
    BY <2>1
  <2>3. Finish(q) /\ Samples(q) /\ \E g \in 1..(1 + cur.drafts[q]) : WorkerAdvances(q, g)
    BY <1>5, <2>2 DEF DeliverAndStop, Discards
  <2>4. \A r \in Requests : next'[r] >= 0
    <3>1. cur.drafts[q] \in Nat
      BY <1>0, OutputFacts
    <3>2. PICK g \in 1..(1 + cur.drafts[q]) : WorkerAdvances(q, g)
      BY <2>3
    <3>3. g \in Nat
      BY <3>1
    <3>4. QED
      BY <2>3, <3>2, <3>3, SampledNotNegative
  <2>5. QED
    BY <1>3, <2>3, <2>4
<1>6. CASE OutputWithoutTokens \/ DeliverTokens
  <2>1. Returned \in Requests
    BY <1>0, <1>6, ReturnedFacts DEF DeliverTokens, OutputWithoutTokens
  <2>2. PICK q \in Requests : q = Returned
    BY <2>1
  <2>3. /\ Alive(q) /\ status' = status /\ DrainCounts(q)
        /\ \E x : placeholders' = [placeholders EXCEPT ![q] = x]
    <3>1. CASE OutputWithoutTokens
      <4>1. placeholders' = [placeholders EXCEPT ![q] = placeholders[q]]
        BY <1>0, <3>1 DEF OutputWithoutTokens, Counters
      <4>2. QED
        BY <2>2, <3>1, <4>1 DEF OutputWithoutTokens
    <3>2. CASE DeliverTokens
      BY <2>2, <3>2 DEF DeliverTokens
    <3>3. QED
      BY <1>6, <3>1, <3>2
  <2>4. \A r \in Requests : next'[r] >= 0
    <3>1. cur.drafts[q] \in Nat
      BY <1>0, OutputFacts
    <3>2. next' = next \/ (Samples(q) /\ \E g \in 1..(1 + cur.drafts[q]) : WorkerAdvances(q, g))
      BY <1>6, <2>2 DEF DeliverTokens, OutputWithoutTokens, Discards
    <3>3. CASE next' = next
      BY <3>3 DEF SignInv, Signs
    <3>4. ASSUME Samples(q), NEW g \in 1..(1 + cur.drafts[q]), WorkerAdvances(q, g)
          PROVE  \A r \in Requests : next'[r] >= 0
      <4>1. g \in Nat
        BY <3>1
      <4>2. QED
        BY <3>4, <4>1, SampledNotNegative
    <3>5. QED
      BY <3>2, <3>3, <3>4
  <2>5. \A r \in Requests : r # q =>
          /\ inflight'[r] = inflight[r] /\ stale'[r] = stale[r]
          /\ placeholders'[r] = placeholders[r]
    BY <1>0, <2>3 DEF DrainCounts, Counters
  <2>6. QED
    BY <2>3, <2>4, <2>5 DEF SignInv, Signs, Alive
<1>7. CASE PreemptForRoom \/ ResetOne
  <2>1. \E v \in ToSet(running) : \E b : Preempt(v, b) /\ next' = next
    <3>1. CASE PreemptForRoom
      <4>1. Victim \in ToSet(running)
        BY <1>0, <3>1, CurrentFacts, VictimIsRunning DEF PreemptForRoom
      <4>2. Preempt(Victim, DropOnPreempt) /\ next' = next
        BY <3>1 DEF PreemptForRoom
      <4>3. QED
        BY <4>1, <4>2
    <3>2. CASE ResetOne
      <4>1. Last(running) \in ToSet(running)
        BY <1>0, <3>2, VictimIsRunning DEF ResetOne
      <4>2. Preempt(Last(running), TRUE) /\ next' = next
        BY <3>2 DEF ResetOne
      <4>3. QED
        BY <4>1, <4>2
    <3>3. QED
      BY <1>7, <3>1, <3>2
  <2>v. PICK v \in ToSet(running) : \E b : Preempt(v, b) /\ next' = next
    BY <2>1
  <2>2. PICK b : v \in ToSet(running) /\ Preempt(v, b) /\ next' = next
    BY <2>v
  <2>3. v \in Requests
    BY <1>0, ElementOfSeq DEF ToSet
  <2>4. status'[v] = "PREEMPTED"
    BY <1>0, <2>2, <2>3 DEF Preempt
  <2>5. \A r \in Requests : r # v =>
          /\ inflight'[r] = inflight[r] /\ stale'[r] = stale[r]
          /\ placeholders'[r] = placeholders[r] /\ status'[r] = status[r]
    BY <1>0, <2>2, <2>3 DEF Preempt, Counters
  <2>6. QED
    BY <2>2, <2>4, <2>5 DEF SignInv, Signs, Alive
<1>8. CASE Admit
  <2>1. Candidate \in Requests
    BY <1>0, <1>8, PopQueues DEF Admit, InWaitingLoop
  <2>2. PICK q \in Requests : q = Candidate
    BY <2>1
  <2>3. /\ UNCHANGED <<inflight, stale, placeholders, next>>
        /\ status' = [status EXCEPT ![q] = "RUNNING"]
    BY <1>8, <2>2 DEF Admit
  <2>4. QED
    BY <1>0, <2>3 DEF SignInv, Signs, Alive
<1>9. CASE EndSchedule
  <2>1. PICK o \in StepOutput, samples \in SUBSET Requests : Effect(o, samples)
    BY <1>0, <1>9, EndScheduleEffect
  <2>2. SUFFICES ASSUME NEW r \in Requests PROVE Signs(r)'
    BY DEF SignInv
  <2>3. status' = status /\ next' = next /\ stale' = stale
    BY <2>1 DEF Effect
  <2>4. ASSUME ~Alive(r)
        PROVE  inflight'[r] = 0 /\ placeholders'[r] = 0
    <3>1. ~(step.n[r] > 0)
      BY <1>0, <2>4 DEF Alive, QueueInv, StepDistinct
    <3>2. step.n[r] = 0
      BY <1>0, <3>1, StepFieldTypes
    <3>3. inflight[r] = 0 /\ placeholders[r] = 0
      BY <2>4 DEF SignInv, Signs
    <3>4. inflight'[r] = inflight[r] + step.n[r] /\ placeholders'[r] = placeholders[r]
      BY <2>1, <3>1 DEF Effect
    <3>5. QED
      BY <3>2, <3>3, <3>4
  <2>5. QED
    BY <2>3, <2>4 DEF SignInv, Signs, Alive
<1>10. QED
  BY <1>1, <1>2, <1>4, <1>5, <1>6, <1>7, <1>8, <1>9
     DEF Next, ScheduleAction, UpdateAction, ResetAction

(* The counters start at zero.                                                *)
LEMMA SignInitially == Init => SignInv
  BY DEF Init, SignInv, Signs, Alive, NoRequest

(* A request that is not alive has nothing in flight, stale or awaited.       *)
THEOREM SignInvariant == Spec => []SignInv
<1>1. OutputInv /\ OutputInv' /\ SignInv /\ [Next]_vars => SignInv'
  BY SignStep
<1>2. QED
  BY <1>1, SignInitially, OutputInvariant, PTL DEF Spec

(* The invariants together give every variable its type.                      *)
LEMMA TypesAre ==
  ASSUME OutputInv, ProgressInv, SignInv
  PROVE  TypeOK
<1>0. /\ Types /\ step \in StepLocals
      /\ RequestTypes /\ QueueTypes /\ BlockTypes /\ EngineTypes
  BY QueueFacts, StepFieldTypes DEF OutputInv, Types
<1>1. ASSUME NEW r \in Requests
      PROVE  /\ computed[r] \in Nat /\ inflight[r] \in Nat /\ stale[r] \in Nat
             /\ placeholders[r] \in Nat /\ next[r] \in Nat
  <2>1. computed[r] \in Int /\ computed[r] >= 0 /\ next[r] \in Int /\ next[r] >= 0
    BY <1>0 DEF RequestTypes, EngineTypes, Counters, ProgressInv, Progress, SignInv, Signs
  <2>2. inflight[r] \in Nat /\ stale[r] \in Nat /\ placeholders[r] \in Nat
    BY ProgressTypes DEF SignInv, Signs
  <2>3. QED
    BY <2>1, <2>2
<1>2. {computed, inflight, stale, placeholders, spec, lastSeq, next} \subseteq [Requests -> Nat]
  <2>1. /\ computed \in [Requests -> Nat] /\ inflight \in [Requests -> Nat]
        /\ stale \in [Requests -> Nat] /\ placeholders \in [Requests -> Nat]
        /\ next \in [Requests -> Nat]
    BY <1>0, <1>1 DEF RequestTypes, EngineTypes, Counters
  <2>2. spec \in [Requests -> Nat] /\ lastSeq \in [Requests -> Nat]
    BY <1>0 DEF RequestTypes, BlockTypes
  <2>3. QED
    BY <2>1, <2>2
<1>3. log \in [Requests -> Seq(Nat)]
  <2>1. ASSUME NEW r \in Requests PROVE log[r] \in Seq(Nat)
    <3>1. log[r] \in Seq(Int) /\ Len(log[r]) \in Nat /\ Prompt[r] \in Nat
      BY <1>0, LenProperties, RequestsAssumption DEF RequestTypes
    <3>2. \A i \in 1..Len(log[r]) : log[r][i] = Prompt[r] + i - 1
      BY DEF OutputInv, RequestOk, LogOf
    <3>3. \A i \in 1..Len(log[r]) : log[r][i] \in Nat
      BY <3>1, <3>2
    <3>4. log[r] = [i \in 1..Len(log[r]) |-> log[r][i]]
      BY <3>1, LenProperties
    <3>5. QED
      BY <3>1, <3>3, <3>4, IsASeq
  <2>2. QED
    BY <1>0, <2>1 DEF RequestTypes
<1>4. status \in [Requests -> {"NEW", "WAITING", "RUNNING", "PREEMPTED", "FINISHED"}]
  BY <1>0 DEF RequestTypes, Statuses
<1>5. {drop, chunk} \subseteq [Requests -> BOOLEAN]
  BY <1>0 DEF RequestTypes
<1>6. /\ {waiting, skipped, running} \subseteq Seq(Requests)
      /\ finished \subseteq Requests /\ pause \in {"UNPAUSED", "PAUSED_NEW", "PAUSED_ALL"}
  BY <1>0 DEF QueueTypes
<1>7. /\ blocks \in [Requests -> SUBSET Blocks]
      /\ deferred \in Seq([fence : Nat, blocks : SUBSET Blocks])
      /\ {schedSeq, processedSeq, resets} \subseteq Nat
  BY <1>0 DEF BlockTypes, EngineTypes, DeferredEntry
<1>8. /\ flight \in Seq(StepOutput) /\ cur \in StepOutput
      /\ pc \in {"idle", "running", "waiting", "finish", "update", "reset"}
      /\ step.budget \in Int /\ step.input \in Int /\ step.order \in Seq(Requests)
      /\ resetFailed \in BOOLEAN
  BY <1>0 DEF EngineTypes, StepLocals
<1>9. QED
  BY <1>2, <1>3, <1>4, <1>5, <1>6, <1>7, <1>8 DEF TypeOK

(* Every variable has its type; above all no counter of tokens is ever        *)
(* negative, however many drafts are rejected and outputs dropped.            *)
THEOREM TypeCorrect == ASSUME PadsWhole PROVE Spec => []TypeOK
<1>1. OutputInv /\ ProgressInv /\ SignInv => TypeOK
  BY TypesAre
<1>2. QED
  BY <1>1, OutputInvariant, ProgressInvariant, SignInvariant, PTL

-----------------------------------------------------------------------------
(* Block tables. *)

(* No prompt is longer than max_model_len: the front end rejects one that is.    *)
PromptsFit == \A r \in Requests : Prompt[r] <= MaxModelLen

(* The inductive invariant: room for what is computed, scheduled and drafted.   *)
Room(x, S) == x <= Cardinality(S) * BlockSize
BlocksOk(r) ==
  /\ PromptsFit => computed[r] + step.n[r] <= MaxModelLen
  /\ PromptsFit /\ Alive(r) => NumTokens(r) <= MaxModelLen
  /\ status[r] # "RUNNING" => blocks[r] = {}
  /\ status[r] = "RUNNING" =>
       Room(Least(computed[r] + step.n[r] + NumSpec, MaxModelLen), blocks[r])
BlocksApart == \A q, r \in Requests : q # r => blocks[q] \cap blocks[r] = {}
BlockInv == BlocksApart /\ \A r \in Requests : BlocksOk(r)

-----------------------------------------------------------------------------
(* Rounding up to whole blocks leaves room for all tokens.                    *)
LEMMA RoundUp ==
  ASSUME NEW x \in Int, NEW n \in Nat \ {0}, NEW k \in Nat,
         (x + n - 1) \div n <= k
  PROVE  x <= k * n
<1> DEFINE q == (x + n - 1) \div n
           y == (x + n - 1) % n
<1>1. q \in Int /\ y \in 0..(n - 1) /\ x + n - 1 = n * q + y
  BY SMT
<1> HIDE DEF q, y
<1>2. n * q \in Int /\ n * k \in Int /\ n * k = k * n
  BY <1>1
<1>3. n * q <= n * k
  <2>1. q <= k
    BY DEF q
  <2>2. n * (k - q) >= 0
    BY <1>1, <2>1, SMT
  <2>3. n * (k - q) = n * k - n * q
    BY <1>1
  <2>4. QED
    BY <1>2, <2>2, <2>3
<1>4. QED
  BY <1>1, <1>2, <1>3

(* A union of disjoint finite sets.                                           *)
LEMMA UnionSize ==
  ASSUME NEW A, NEW B, IsFiniteSet(A), IsFiniteSet(B), A \cap B = {}
  PROVE  /\ IsFiniteSet(A \union B) /\ Cardinality(A) \in Nat /\ Cardinality(B) \in Nat
         /\ Cardinality(A \union B) = Cardinality(A) + Cardinality(B)
<1>1. Cardinality(A) \in Nat /\ Cardinality(B) \in Nat
  BY FS_CardinalityType
<1>2. Cardinality(A \cap B) = 0
  BY FS_EmptySet
<1>3. /\ IsFiniteSet(A \union B)
      /\ Cardinality(A \union B) = Cardinality(A) + Cardinality(B) - Cardinality(A \cap B)
  BY FS_Union
<1>4. QED
  BY <1>1, <1>2, <1>3

(* allocate_slots: what it allocates is enough, and nobody else's.             *)
LEMMA AllocateFacts ==
  ASSUME Types, NEW r \in Requests, NEW upto \in Int, Allocate(r, upto), BlocksApart
  PROVE  /\ Room(Least(upto + NumSpec, MaxModelLen), blocks'[r])
         /\ \A q \in Requests : q # r => blocks'[q] = blocks[q]
         /\ BlocksApart'
<1> DEFINE x == Least(upto + NumSpec, MaxModelLen)
           need == Needed(r, upto)
           B == blocks[r]
<1>1. PICK S \in kSubset(need, Free) : blocks' = [blocks EXCEPT ![r] = B \union S]
  BY DEF Allocate
<1>2. /\ blocks \in [Requests -> SUBSET Blocks] /\ IsFiniteSet(Blocks)
      /\ BlockSize \in Nat \ {0} /\ NumSpec \in Nat /\ MaxModelLen \in Nat
  BY CacheAssumption, SizesAssumption DEF Types, BlockTypes
<1>3. S \subseteq Free /\ Cardinality(S) = need
  BY <1>1 DEF kSubset
<1>4. /\ S \subseteq Blocks /\ \A q \in Requests : S \cap blocks[q] = {}
  BY <1>3 DEF Free
<1>5. /\ IsFiniteSet(S) /\ IsFiniteSet(B) /\ Cardinality(S) \in Nat /\ Cardinality(B) \in Nat
      /\ Cardinality(B \union S) = Cardinality(B) + Cardinality(S)
  <2>1. IsFiniteSet(S) /\ IsFiniteSet(B)
    <3>1. S \in SUBSET Blocks /\ B \in SUBSET Blocks
      BY <1>2, <1>4
    <3>2. QED
      BY <1>2, <3>1, FS_Subset
  <2>2. B \cap S = {}
    BY <1>4
  <2>3. QED
    BY <2>1, <2>2, UnionSize
<1>6. x \in Int
  BY <1>2, LeastFacts
<1>7. Room(x, B \union S)
  <2> DEFINE q == (x + BlockSize - 1) \div BlockSize
             k == Cardinality(B)
             j == Cardinality(S)
  <2>1. j = AtLeastZero(q - k)
    BY <1>3 DEF Needed, BlocksFor
  <2>2. q \in Int
    <3> HIDE DEF x
    <3>1. QED
      BY <1>2, <1>6
  <2>3. j \in Nat /\ k \in Nat /\ Cardinality(B \union S) = k + j
    BY <1>5
  <2> HIDE DEF q, k, j, x
  <2>4. q <= k + j /\ k + j \in Nat
    BY <2>1, <2>2, <2>3 DEF AtLeastZero
  <2>5. x <= (k + j) * BlockSize
    BY <1>2, <1>6, <2>4, RoundUp DEF q
  <2>6. QED
    BY <2>3, <2>5 DEF Room
<1> HIDE DEF x, need
<1>8. blocks'[r] = B \union S /\ \A q \in Requests : q # r => blocks'[q] = blocks[q]
  BY <1>1, <1>2
<1>9. BlocksApart'
  BY <1>4, <1>8 DEF BlocksApart
<1>10. QED
  BY <1>7, <1>8, <1>9 DEF x

-----------------------------------------------------------------------------
(* A request that is given no block and no more tokens.                        *)
Shrinks(r) ==
  /\ status'[r] = status[r] /\ blocks'[r] = blocks[r]
  /\ computed'[r] + step'.n[r] <= computed[r] + step.n[r]
  /\ PromptsFit /\ Alive(r) => NumTokens(r)' <= MaxModelLen
(* A request that runs no more.                                               *)
Stops(r) ==
  /\ status'[r] # "RUNNING" /\ blocks'[r] = {} /\ computed'[r] = 0 /\ step'.n[r] = 0
  /\ PromptsFit /\ Alive(r)' => NumTokens(r)' <= MaxModelLen

(* A request that needs no more keeps room enough.                            *)
LEMMA ShrinksOk ==
  ASSUME Types, Types', NEW r \in Requests, BlocksOk(r), Shrinks(r)
  PROVE  BlocksOk(r)'
<1> DEFINE a == computed[r] + step.n[r]
           b == computed'[r] + step'.n[r]
           x == Cardinality(blocks[r]) * BlockSize
<1>1. a \in Int /\ b \in Int /\ b <= a /\ NumSpec \in Nat /\ MaxModelLen \in Nat
  <2>1. /\ computed[r] \in Int /\ step.n[r] \in Nat /\ computed'[r] \in Int
        /\ step'.n[r] \in Nat
    BY DEF Types, RequestTypes, EngineTypes, StepLocals, Counters
  <2>2. QED
    BY <2>1, SizesAssumption DEF Shrinks
<1>2. Cardinality(blocks[r]) \in Nat
  <2>1. blocks[r] \in SUBSET Blocks /\ IsFiniteSet(Blocks)
    BY CacheAssumption DEF Types, BlockTypes
  <2>2. QED
    BY <2>1, FS_Subset, FS_CardinalityType
<1>3. x \in Int
  BY <1>2, SizesAssumption
<1>4. PromptsFit => a <= MaxModelLen
  BY DEF BlocksOk
<1>5. status[r] = "RUNNING" => Least(a + NumSpec, MaxModelLen) <= x
  BY DEF BlocksOk, Room
<1>6. /\ status'[r] = status[r] /\ blocks'[r] = blocks[r] /\ (Alive(r)' <=> Alive(r))
      /\ PromptsFit /\ Alive(r) => NumTokens(r)' <= MaxModelLen
  BY DEF Shrinks, Alive
<1> HIDE DEF a, b, x
<1>7. PromptsFit => b <= MaxModelLen
  BY <1>1, <1>4
<1>8. status[r] = "RUNNING" => Least(b + NumSpec, MaxModelLen) <= x
  BY <1>1, <1>3, <1>5 DEF Least
<1>9. QED
  BY <1>6, <1>7, <1>8 DEF BlocksOk, Room, b, x

(* A request that stops needs no block.                                       *)
LEMMA StopsOk ==
  ASSUME NEW r \in Requests, Stops(r)
  PROVE  BlocksOk(r)'
  BY SizesAssumption DEF Stops, BlocksOk

(* Steps that allocate nothing.                                               *)
LEMMA NoneAllocated ==
  ASSUME Types, Types', BlockInv, \A r \in Requests : Shrinks(r) \/ Stops(r)
  PROVE  BlockInv'
<1>1. \A r \in Requests : blocks'[r] \subseteq blocks[r]
  BY DEF Shrinks, Stops
<1>2. BlocksApart'
  BY <1>1 DEF BlockInv, BlocksApart
<1>3. \A r \in Requests : BlocksOk(r)'
  BY ShrinksOk, StopsOk DEF BlockInv
<1>4. QED
  BY <1>2, <1>3 DEF BlockInv

(* Steps that give one request tokens and the blocks for them.                 *)
LEMMA OneAllocated ==
  ASSUME Types, Types', BlockInv, NEW r \in Requests, NEW upto \in Int, Allocate(r, upto),
         \A q \in Requests : q # r /\ blocks'[q] = blocks[q] => Shrinks(q),
         status'[r] = "RUNNING", computed'[r] + step'.n[r] = upto,
         PromptsFit => upto <= MaxModelLen /\ NumTokens(r)' <= MaxModelLen
  PROVE  BlockInv'
<1>1. /\ Room(Least(upto + NumSpec, MaxModelLen), blocks'[r])
      /\ \A q \in Requests : q # r => blocks'[q] = blocks[q]
      /\ BlocksApart'
  BY AllocateFacts DEF BlockInv
<1>2. BlocksOk(r)'
  BY <1>1 DEF BlocksOk
<1>3. \A q \in Requests : q # r => BlocksOk(q)'
  BY <1>1, ShrinksOk DEF BlockInv
<1>4. QED
  BY <1>1, <1>2, <1>3 DEF BlockInv

-----------------------------------------------------------------------------
(* A running request gets room for what it is scheduled.                      *)
LEMMA ScheduleRunningBlocks ==
  ASSUME OutputInv, BlockInv, ScheduleRunning
  PROVE  BlockInv'
<1>0. /\ Types /\ Types' /\ step \in StepLocals /\ step.n \in [Requests -> Nat]
      /\ running \in Seq(Requests) /\ QueueInv
  BY QueueFacts, StepFieldTypes, RunningTypes DEF OutputInv
<1>1. /\ Current \in Requests /\ pc = "running" /\ step.n[Current] = 0
      /\ status[Current] = "RUNNING"
  BY <1>0, CurrentRuns DEF ScheduleRunning
<1>2. PICK r \in Requests : r = Current
  BY <1>1
<1> DEFINE n == NumNewTokens(r)
           c == computed[r]
<1>3. /\ Allocate(r, c + n) /\ step'.n = [step.n EXCEPT ![r] = n]
      /\ UNCHANGED <<status, log, computed>> /\ n > 0 /\ n \in Nat
  <2>1. /\ step' = [Scheduled(r, n, AtLeastZero(Least(spec[r],
                       n + computed[r] - NumTokens(r) - placeholders[r])))
                     EXCEPT !.idx = @ + 1, !.ranRunning = TRUE, !.ranPrefill = @ \/ chunk[r]]
        /\ Allocate(r, c + n) /\ UNCHANGED <<status, log, computed>> /\ n # 0
    BY <1>2 DEF ScheduleRunning, Schedulable
  <2>2. n \in Nat
    BY <1>0, TokensAreNumbers
  <2> HIDE DEF n
  <2>3. QED
    BY <1>0, <2>1, <2>2 DEF Scheduled, StepLocals
<1>4. c + n <= MaxModelLen /\ c + n \in Int
  <2>1. PICK m \in Int : n = Reserved(NumTokens(r), c, m) /\ m <= MaxModelLen - c - 1
    BY <1>0, NewTokensAre
  <2>2. NumTokens(r) \in Int /\ c \in Int /\ MaxModelLen \in Int
    BY ProgressTypes, SizesAssumption
  <2> HIDE DEF c, n
  <2>3. n <= m
    BY <1>3, <2>1, <2>2, ReserveFacts
  <2>4. QED
    BY <1>3, <2>1, <2>2, <2>3
<1>5. /\ status'[r] = "RUNNING" /\ step'.n[r] = n /\ computed'[r] = c
      /\ NumTokens(r)' = NumTokens(r)
      /\ \A q \in Requests : q # r => step'.n[q] = step.n[q]
  <2> HIDE DEF n
  <2>1. QED
    BY <1>0, <1>1, <1>2, <1>3 DEF NumTokens
<1>6. PromptsFit => NumTokens(r)' <= MaxModelLen
  BY <1>1, <1>2, <1>5 DEF BlockInv, BlocksOk, Alive
<1>7. ASSUME NEW q \in Requests, q # r, blocks'[q] = blocks[q] PROVE Shrinks(q)
  <2>1. computed'[q] + step'.n[q] = computed[q] + step.n[q]
    BY <1>3, <1>5, <1>7
  <2>2. computed[q] + step.n[q] \in Int
    BY <1>7, ProgressTypes
  <2>3. NumTokens(q)' = NumTokens(q) /\ (PromptsFit /\ Alive(q) => NumTokens(q) <= MaxModelLen)
    BY <1>3 DEF NumTokens, BlockInv, BlocksOk
  <2>4. QED
    BY <1>3, <1>7, <2>1, <2>2, <2>3 DEF Shrinks
<1> HIDE DEF n, c
<1>8. QED
  BY <1>0, <1>3, <1>4, <1>5, <1>6, <1>7, OneAllocated

(* So does an admitted one.                                                   *)
LEMMA AdmitBlocks ==
  ASSUME OutputInv, BlockInv, Admit
  PROVE  BlockInv'
<1>0. /\ Types /\ Types' /\ step \in StepLocals /\ step.n \in [Requests -> Nat]
      /\ computed \in Counters /\ QueueInv /\ status \in [Requests -> Statuses]
  BY QueueFacts, StepFieldTypes, WaitingTypes DEF OutputInv, Types, RequestTypes
<1>a. Candidate \in Requests /\ status[Candidate] \in {"WAITING", "PREEMPTED"}
  BY <1>0, PopQueues DEF Admit, InWaitingLoop
<1>1. PICK r \in Requests : r = Candidate
  BY <1>a
<1>2. PICK hit \in HitLengths(r) :
        /\ AdmittedTokens(r, hit) > 0
        /\ Allocate(r, hit + AdmittedTokens(r, hit))
        /\ computed' = [computed EXCEPT ![r] = hit]
        /\ step' = Scheduled(r, AdmittedTokens(r, hit), IF Padded(r, hit) THEN NumSpec ELSE 0)
        /\ status' = [status EXCEPT ![r] = "RUNNING"]
        /\ log' = log
  BY <1>1 DEF Admit
<1> DEFINE T == NumTokens(r)
           n == AdmittedTokens(r, hit)
<1>3. /\ T \in Nat /\ hit \in Nat /\ n \in Nat /\ n > 0 /\ NumSpec \in Nat
      /\ RequestBudget \in Int /\ MaxModelLen \in Nat
  BY <1>0, <1>2, TokensAreNumbers, ProgressTypes, SizesAssumption
<1>4. PromptsFit => T <= MaxModelLen
  BY <1>a, <1>1 DEF BlockInv, BlocksOk, Alive
<1>5. PromptsFit => hit + n <= MaxModelLen
  <2>1. CASE Padded(r, hit)
    <3> DEFINE m == Least(Capped(1 + NumSpec), RequestBudget)
    <3>1. hit + 1 + NumSpec <= MaxModelLen /\ n = Reserved(T, hit, m)
      BY <1>3, <2>1 DEF AdmittedTokens, ReservePrefillLookahead, Reserved
    <3>2. m \in Int /\ m <= 1 + NumSpec
      <4>1. 1 + NumSpec \in Int
        BY <1>3
      <4>2. Capped(1 + NumSpec) \in Int /\ Capped(1 + NumSpec) <= 1 + NumSpec
        BY <4>1, CappedFacts
      <4>3. m \in Int /\ m <= Capped(1 + NumSpec)
        BY <1>3, <4>2, LeastFacts
      <4> HIDE DEF m
      <4>4. QED
        BY <4>1, <4>2, <4>3
    <3> HIDE DEF m, n, T
    <3>3. n <= m
      BY <1>3, <3>1, <3>2, ReserveFacts
    <3>4. QED
      BY <1>3, <3>1, <3>2, <3>3
  <2>2. CASE ~Padded(r, hit)
    <3> DEFINE x == T - hit
               m == Least(Capped(x), RequestBudget)
    <3>1. n = Reserved(T, hit, m)
      BY <2>2 DEF AdmittedTokens, ReservePrefillLookahead, Reserved
    <3>2. x \in Int
      BY <1>3
    <3>3. m \in Int /\ m <= x
      <4> HIDE DEF x
      <4>1. Capped(x) \in Int /\ Capped(x) <= x
        BY <3>2, CappedFacts
      <4>2. m \in Int /\ m <= Capped(x)
        BY <1>3, <4>1, LeastFacts
      <4> HIDE DEF m
      <4>3. QED
        BY <3>2, <4>1, <4>2
    <3> HIDE DEF m, n, T
    <3>4. n <= m
      BY <1>3, <3>1, <3>3, ReserveFacts
    <3>5. QED
      BY <1>3, <1>4, <3>2, <3>3, <3>4
  <2>3. QED
    BY <2>1, <2>2
<1>6. step'.n = [step.n EXCEPT ![r] = n]
  <2>1. step' = Scheduled(r, n, IF Padded(r, hit) THEN NumSpec ELSE 0)
    BY <1>2
  <2> HIDE DEF n
  <2>2. QED
    BY <1>0, <2>1 DEF Scheduled, StepLocals
<1>7. /\ status'[r] = "RUNNING" /\ step'.n[r] = n /\ computed'[r] = hit /\ NumTokens(r)' = T
      /\ \A q \in Requests : q # r => /\ step'.n[q] = step.n[q] /\ status'[q] = status[q]
                                      /\ computed'[q] = computed[q]
  <2> HIDE DEF n
  <2>1. QED
    BY <1>0, <1>2, <1>6 DEF NumTokens, Counters
<1>8. ASSUME NEW q \in Requests, q # r, blocks'[q] = blocks[q] PROVE Shrinks(q)
  <2>1. computed'[q] + step'.n[q] = computed[q] + step.n[q]
    BY <1>7, <1>8
  <2>2. computed[q] + step.n[q] \in Int
    BY <1>8, ProgressTypes
  <2>3. NumTokens(q)' = NumTokens(q) /\ (PromptsFit /\ Alive(q) => NumTokens(q) <= MaxModelLen)
    BY <1>2 DEF NumTokens, BlockInv, BlocksOk
  <2>4. QED
    BY <1>7, <1>8, <2>1, <2>2, <2>3 DEF Shrinks
<1>9. Allocate(r, hit + n) /\ hit + n \in Int /\ computed'[r] + step'.n[r] = hit + n
  BY <1>2, <1>3, <1>7
<1> HIDE DEF n, T
<1>10. QED
  BY <1>0, <1>4, <1>5, <1>7, <1>8, <1>9, OneAllocated

(* The end of schedule() only turns scheduled tokens into computed ones.      *)
LEMMA EndScheduleBlocks ==
  ASSUME OutputInv, OutputInv', BlockInv, EndSchedule
  PROVE  BlockInv'
<1>0. Types /\ Types'
  BY QueueFacts DEF OutputInv, QueueInv
<1>1. PICK o \in StepOutput, samples \in SUBSET Requests : Effect(o, samples)
  BY <1>0, EndScheduleEffect
<1>2. ASSUME NEW r \in Requests PROVE Shrinks(r)
  <2>1. /\ status'[r] = status[r] /\ blocks'[r] = blocks[r] /\ NumTokens(r)' = NumTokens(r)
        /\ computed'[r] = computed[r] + step.n[r] /\ step'.n[r] = 0
    BY <1>1 DEF Effect, NumTokens, NoStep, NoRequest
  <2>2. computed[r] \in Int /\ step.n[r] \in Nat
    BY ProgressTypes
  <2>3. computed'[r] + step'.n[r] <= computed[r] + step.n[r]
    BY <2>1, <2>2
  <2>4. PromptsFit /\ Alive(r) => NumTokens(r) <= MaxModelLen
    BY DEF BlockInv, BlocksOk
  <2>5. QED
    BY <2>1, <2>3, <2>4 DEF Shrinks
<1>3. QED
  BY <1>0, <1>2, NoneAllocated

(* A preempted request has no block left.                                     *)
LEMMA PreemptBlocks ==
  ASSUME OutputInv, OutputInv', BlockInv, PreemptForRoom \/ ResetOne
  PROVE  BlockInv'
<1>0. /\ Types /\ Types' /\ step \in StepLocals /\ step.n \in [Requests -> Nat]
      /\ running \in Seq(Requests) /\ QueueInv
      /\ status \in [Requests -> Statuses] /\ computed \in Counters
      /\ blocks \in [Requests -> SUBSET Blocks]
  BY QueueFacts, StepFieldTypes DEF OutputInv, QueueInv, Types, RequestTypes, BlockTypes
<1>1. \E v \in ToSet(running) : \E b : Preempt(v, b) /\ step'.n = [step.n EXCEPT ![v] = 0]
  <2>1. CASE PreemptForRoom
    <3>1. Victim \in ToSet(running)
      BY <1>0, <2>1, CurrentFacts, VictimIsRunning DEF PreemptForRoom
    <3>2. PICK v \in ToSet(running) : v = Victim
      BY <3>1
    <3> DEFINE at == CHOOSE i \in DOMAIN running : running[i] = v
    <3>3. /\ Preempt(v, DropOnPreempt)
          /\ step' = [TakenBack(v) EXCEPT !.preempted = TRUE, !.stop = (v = Current),
                                          !.idx = IF at < @ THEN @ - 1 ELSE @]
      BY <2>1, <3>2 DEF PreemptForRoom
    <3> HIDE DEF at
    <3>4. step'.n = [step.n EXCEPT ![v] = 0]
      BY <1>0, <3>3 DEF TakenBack, StepLocals
    <3>5. QED
      BY <3>3, <3>4
  <2>2. CASE ResetOne
    <3>1. Last(running) \in ToSet(running)
      BY <1>0, <2>2, VictimIsRunning DEF ResetOne
    <3>2. Preempt(Last(running), TRUE) /\ step' = step /\ step.n = NoRequest
      BY <1>0, <2>2 DEF ResetOne, QueueInv, StepAhead
    <3>3. step'.n = [step.n EXCEPT ![Last(running)] = 0]
      BY <3>2 DEF NoRequest
    <3>4. QED
      BY <3>1, <3>2, <3>3
  <2>3. QED
    BY <2>1, <2>2
<1>v. PICK v \in ToSet(running) :
        \E b : Preempt(v, b) /\ step'.n = [step.n EXCEPT ![v] = 0]
  BY <1>1
<1>2. PICK b : /\ v \in ToSet(running) /\ Preempt(v, b)
               /\ step'.n = [step.n EXCEPT ![v] = 0]
  BY <1>v
<1>3. v \in Requests /\ status[v] = "RUNNING"
  <2>1. v \in Requests
    BY <1>0, ElementOfSeq DEF ToSet
  <2>2. QED
    BY <1>0, <2>1 DEF QueueInv, QueuesByStatus
<1>4. /\ status'[v] = "PREEMPTED" /\ computed'[v] = 0 /\ blocks'[v] = {} /\ step'.n[v] = 0
      /\ log' = log
      /\ \A r \in Requests : r # v =>
           /\ status'[r] = status[r] /\ computed'[r] = computed[r] /\ blocks'[r] = blocks[r]
           /\ step'.n[r] = step.n[r]
  BY <1>0, <1>2, <1>3 DEF Preempt, FreeRequestBlocks, Counters
<1>5. \A r \in Requests : PromptsFit /\ Alive(r) => NumTokens(r)' <= MaxModelLen
  BY <1>4 DEF BlockInv, BlocksOk, NumTokens
<1>6. Stops(v)
  BY <1>3, <1>4, <1>5 DEF Stops, Alive
<1>7. ASSUME NEW r \in Requests, r # v PROVE Shrinks(r)
  <2>1. computed[r] + step.n[r] \in Int
    BY ProgressTypes
  <2>2. QED
    BY <1>4, <1>5, <1>7, <2>1 DEF Shrinks
<1>8. QED
  BY <1>0, <1>6, <1>7, NoneAllocated

(* Nor has a finished one.                                                    *)
LEMMA FinishBlocks ==
  ASSUME OutputInv, OutputInv', BlockInv, NEW q \in Requests, Finish(q), UNCHANGED step,
         pc \in {"idle", "update"}, \A r \in Requests : r # q => log'[r] = log[r]
  PROVE  BlockInv'
<1>0. /\ Types /\ Types' /\ QueueInv
      /\ status \in [Requests -> Statuses] /\ computed \in Counters
      /\ blocks \in [Requests -> SUBSET Blocks]
  BY QueueFacts DEF OutputInv, QueueInv, Types, RequestTypes, BlockTypes
<1>1. /\ status'[q] = "FINISHED" /\ computed'[q] = 0 /\ blocks'[q] = {}
      /\ \A r \in Requests : r # q =>
           /\ status'[r] = status[r] /\ computed'[r] = computed[r] /\ blocks'[r] = blocks[r]
  BY <1>0 DEF Finish, FreeRequestBlocks, Counters
<1>2. step' = step /\ step.n[q] = 0
  BY <1>0 DEF QueueInv, StepAhead, NoRequest
<1>3. Stops(q)
  BY <1>1, <1>2 DEF Stops, Alive
<1>4. ASSUME NEW r \in Requests, r # q PROVE Shrinks(r)
  <2>1. computed[r] + step.n[r] \in Int
    BY ProgressTypes
  <2>2. PromptsFit /\ Alive(r) => NumTokens(r)' <= MaxModelLen
    BY <1>4 DEF BlockInv, BlocksOk, NumTokens
  <2>3. QED
    BY <1>1, <1>2, <1>4, <2>1, <2>2 DEF Shrinks
<1>5. QED
  BY <1>0, <1>3, <1>4, NoneAllocated

(* Taking drafts back needs no block.                                         *)
LEMMA DeliverBlocks ==
  ASSUME OutputInv, OutputInv', BlockInv, DeliverTokens
  PROVE  BlockInv'
<1>0. /\ Types /\ Types' /\ Returned \in Requests /\ QueueInv
      /\ computed \in Counters /\ log \in [Requests -> Seq(Int)]
  <2>1. Types /\ Types'
    BY QueueFacts DEF OutputInv, QueueInv
  <2>2. QED
    BY <2>1, ReturnedFacts DEF DeliverTokens, Types, RequestTypes, OutputInv
<1>1. PICK q \in Requests : q = Returned
  BY <1>0
<1>2. PICK g \in 1..(1 + cur.drafts[q]) :
        /\ \A d \in 1..g : ~AtLimit(q, d)
        /\ log' = [log EXCEPT ![q] = log[q] \o [i \in 1..g |-> SampledFrom(q) + i - 1]]
        /\ computed' = [computed EXCEPT ![q] = RolledBack(q, 1 + cur.drafts[q] - g)]
        /\ UNCHANGED <<status, blocks, step>>
  BY <1>1 DEF DeliverTokens, Appended, blockVars
<1>3. /\ cur.drafts[q] \in Nat /\ SampledFrom(q) \in Int
  BY <1>0, <1>1, ReturnedFacts DEF DeliverTokens
<1>4. ASSUME NEW r \in Requests PROVE Shrinks(r)
  <2>1. computed[r] \in Int /\ step.n[r] \in Nat
    BY ProgressTypes
  <2>2. CASE r # q
    <3>1. computed'[r] = computed[r] /\ NumTokens(r)' = NumTokens(r)
      BY <1>0, <1>2, <2>2 DEF Counters, NumTokens
    <3>2. computed'[r] + step'.n[r] <= computed[r] + step.n[r]
      BY <1>2, <2>1, <3>1
    <3>3. QED
      BY <1>2, <3>1, <3>2 DEF Shrinks, BlockInv, BlocksOk
  <2>3. CASE r = q
    <3> DEFINE back == 1 + cur.drafts[q] - g
    <3>1. back \in Nat /\ g \in 1..g /\ g \in Nat
      BY <1>3
    <3>2. computed'[q] = RolledBack(q, back)
      BY <1>0, <1>2 DEF Counters
    <3> HIDE DEF back
    <3>3. computed'[q] \in Int /\ computed'[q] <= computed[q]
      BY <2>1, <2>3, <3>1, <3>2 DEF RolledBack
    <3>4. computed'[q] + step'.n[q] <= computed[q] + step.n[q]
      BY <1>2, <2>1, <2>3, <3>3
    <3>5. NumTokens(q)' <= MaxModelLen
      <4> DEFINE new == [i \in 1..g |-> SampledFrom(q) + i - 1]
                 a == Len(log[q])
      <4>1. new \in Seq(Int) /\ Len(new) = g
        BY <1>3, <3>1
      <4>2. log'[q] = log[q] \o new /\ log[q] \in Seq(Int)
        BY <1>0, <1>2
      <4> HIDE DEF new
      <4>3. Len(log'[q]) = a + g /\ a \in Nat
        BY <4>1, <4>2, ConcatProperties, LenProperties
      <4>4. ~((Prompt[q] + a) + g >= MaxModelLen)
        BY <1>2, <3>1 DEF AtLimit, NumTokens
      <4>5. Prompt[q] \in Nat /\ MaxModelLen \in Nat
        BY RequestsAssumption, SizesAssumption
      <4>6. NumTokens(q)' = Prompt[q] + (a + g)
        BY <4>3 DEF NumTokens
      <4> HIDE DEF a
      <4>7. QED
        BY <3>1, <4>3, <4>4, <4>5, <4>6
    <3>6. QED
      BY <1>2, <2>3, <3>4, <3>5 DEF Shrinks
  <2>4. QED
    BY <2>2, <2>3
<1>5. QED
  BY <1>0, <1>4, NoneAllocated

(* Nor do the steps that leave a request's numbers alone.                     *)
LEMMA QuietBlocks ==
  ASSUME OutputInv, OutputInv', BlockInv, UNCHANGED <<status, log, computed, blocks>>,
         step'.n = step.n
  PROVE  BlockInv'
<1>1. Types /\ Types'
  BY DEF OutputInv, QueueInv
<1>2. ASSUME NEW r \in Requests PROVE Shrinks(r)
  <2>1. computed[r] + step.n[r] \in Int
    BY ProgressTypes
  <2>2. QED
    BY <2>1 DEF Shrinks, BlockInv, BlocksOk, NumTokens
<1>3. QED
  BY <1>1, <1>2, NoneAllocated

(* Every step keeps the block tables apart and large enough.                  *)
LEMMA BlocksStep ==
  ASSUME OutputInv, OutputInv', BlockInv, [Next]_vars
  PROVE  BlockInv'
<1>0. /\ Types /\ Types' /\ step \in StepLocals /\ status \in [Requests -> Statuses]
      /\ QueueInv /\ log \in [Requests -> Seq(Int)]
  BY QueueFacts, StepFieldTypes DEF OutputInv, QueueInv, Types, RequestTypes
<1>1. CASE \/ UNCHANGED vars \/ BeginReset \/ EndReset
           \/ \E p \in PauseStates : SetPauseState(p)
           \/ BeginUpdate \/ OutputOfFinished \/ OutputWithoutTokens \/ EndUpdate
  <2>1. UNCHANGED <<status, log, computed, blocks, step>>
    BY <1>1 DEF vars, tokenVars, blockVars, BeginReset, EndReset, SetPauseState, BeginUpdate,
                OutputOfFinished, OutputWithoutTokens, EndUpdate
  <2>2. QED
    BY <2>1, QuietBlocks
<1>2. CASE SkipRunning \/ EndRunningLoop \/ SkipUndelivered \/ StopAdmitting \/ EndWaitingLoop
  <2>1. UNCHANGED <<status, log, computed, blocks>> /\ step'.n = step.n
    BY <1>0, <1>2 DEF tokenVars, blockVars, SkipRunning, EndRunningLoop, SkipUndelivered,
                      StopAdmitting, EndWaitingLoop, StepLocals
  <2>2. QED
    BY <2>1, QuietBlocks
<1>3. CASE BeginSchedule
  <2>1. /\ UNCHANGED <<status, log, computed, blocks>> /\ step'.n = NoRequest /\ pc = "idle"
    BY <1>3 DEF BeginSchedule, tokenVars, blockVars, NoStep
  <2>2. step.n = NoRequest
    BY <1>0, <2>1 DEF QueueInv, StepAhead
  <2>3. QED
    BY <2>1, <2>2, QuietBlocks
<1>4. ASSUME NEW q \in Requests, AddRequest(q) PROVE BlockInv'
  <2>1. /\ UNCHANGED <<log, computed, blocks, step>>
        /\ status' = [status EXCEPT ![q] = "WAITING"] /\ status[q] = "NEW"
    BY <1>4 DEF AddRequest, tokenVars, blockVars
  <2>2. PromptsFit => NumTokens(q) <= MaxModelLen
    <3>1. log[q] = <<>>
      BY <2>1 DEF OutputInv, RequestOk
    <3>2. Len(log[q]) = 0 /\ Prompt[q] \in Nat
      BY <3>1, RequestsAssumption
    <3>3. QED
      BY <3>2 DEF NumTokens, PromptsFit
  <2>3. ASSUME NEW r \in Requests PROVE BlocksOk(r)'
    <3>1. NumTokens(r)' = NumTokens(r)
      BY <2>1 DEF NumTokens
    <3>2. CASE r = q
      BY <1>0, <2>1, <2>2, <3>1, <3>2 DEF BlockInv, BlocksOk
    <3>3. CASE r # q
      BY <1>0, <2>1, <3>1, <3>3 DEF BlockInv, BlocksOk, Alive
    <3>4. QED
      BY <3>2, <3>3
  <2>4. QED
    BY <2>1, <2>3 DEF BlockInv, BlocksApart
<1>5. ASSUME NEW q \in Requests, AbortRequest(q) PROVE BlockInv'
  BY <1>5, FinishBlocks DEF AbortRequest
<1>6. CASE DeliverAndStop
  <2>1. Returned \in Requests
    BY <1>0, <1>6, ReturnedFacts DEF DeliverAndStop
  <2>2. PICK q \in Requests : q = Returned
    BY <2>1
  <2>3. /\ Finish(q) /\ step' = step /\ pc = "update"
        /\ \E d \in Nat : Appended(q, d)
    BY <1>6, <2>2 DEF DeliverAndStop, InUpdateLoop
  <2>4. \A r \in Requests : r # q => log'[r] = log[r]
    BY <1>0, <2>3 DEF Appended
  <2>5. QED
    BY <2>3, <2>4, FinishBlocks
<1>7. QED
  BY <1>1, <1>2, <1>3, <1>4, <1>5, <1>6, ScheduleRunningBlocks, AdmitBlocks,
     EndScheduleBlocks, PreemptBlocks, DeliverBlocks
     DEF Next, ScheduleAction, UpdateAction, ResetAction

(* No request holds a block when the scheduler is made.                       *)
LEMMA BlocksInitially == Init => BlockInv
<1> SUFFICES ASSUME Init PROVE BlockInv
  OBVIOUS
<1>1. BlocksApart
  BY DEF Init, BlocksApart
<1>2. ASSUME NEW r \in Requests PROVE BlocksOk(r)
  <2>1. /\ status[r] = "NEW" /\ computed[r] = 0 /\ step.n[r] = 0 /\ blocks[r] = {}
    BY DEF Init, NoRequest, NoStep
  <2>2. QED
    BY <2>1, SizesAssumption DEF BlocksOk, Alive
<1>3. QED
  BY <1>1, <1>2 DEF BlockInv

(* The inductive invariant of the block tables: no block is in two of them,   *)
(* and a running request's has room for what is computed, scheduled and       *)
(* drafted, up to max_model_len.                                              *)
THEOREM BlockInvariant == Spec => []BlockInv
<1>1. OutputInv /\ OutputInv' /\ BlockInv /\ [Next]_vars => BlockInv'
  BY BlocksStep
<1>2. QED
  BY <1>1, BlocksInitially, OutputInvariant, PTL DEF Spec

(* Every running request's block table covers all its computed tokens when a  *)
(* step is put in flight, so that no kernel writes past it (allocate_slots    *)
(* and its callers in schedule()).                                            *)
THEOREM BlocksAlwaysCover == ASSUME PromptsFit PROVE Spec => []BlocksCoverTokens
<1>1. OutputInv /\ BlockInv => BlocksCoverTokens
  <2> SUFFICES ASSUME OutputInv, BlockInv, NEW r \in Requests
               PROVE  /\ computed[r] <= MaxModelLen
                      /\ IF status[r] # "RUNNING" THEN blocks[r] = {}
                         ELSE Least(computed[r] + NumSpec, MaxModelLen)
                                <= Cardinality(blocks[r]) * BlockSize
    BY DEF BlocksCoverTokens, BlockInv, BlocksApart
  <2>1. /\ computed[r] \in Int /\ step.n[r] \in Nat /\ NumSpec \in Nat /\ MaxModelLen \in Nat
    BY ProgressTypes, SizesAssumption
  <2>2. computed[r] + step.n[r] <= MaxModelLen
    BY DEF BlockInv, BlocksOk
  <2>3. Cardinality(blocks[r]) * BlockSize \in Int
    <3>1. blocks[r] \in SUBSET Blocks /\ IsFiniteSet(Blocks)
      BY CacheAssumption DEF OutputInv, QueueInv, Types, BlockTypes
    <3>2. Cardinality(blocks[r]) \in Nat
      BY <3>1, FS_Subset, FS_CardinalityType
    <3>3. QED
      BY <3>2, SizesAssumption
  <2>4. status[r] = "RUNNING" =>
          Least(computed[r] + step.n[r] + NumSpec, MaxModelLen) <= Cardinality(blocks[r]) * BlockSize
    BY DEF BlockInv, BlocksOk, Room
  <2>5. status[r] = "RUNNING" =>
          Least(computed[r] + NumSpec, MaxModelLen) <= Cardinality(blocks[r]) * BlockSize
    <3> DEFINE x == Cardinality(blocks[r]) * BlockSize
    <3> HIDE DEF x
    <3>1. x \in Int /\ (status[r] = "RUNNING" =>
            Least(computed[r] + step.n[r] + NumSpec, MaxModelLen) <= x)
      BY <2>3, <2>4 DEF x
    <3>2. status[r] = "RUNNING" => Least(computed[r] + NumSpec, MaxModelLen) <= x
      BY <2>1, <3>1 DEF Least
    <3>3. QED
      BY <3>2 DEF x
  <2>6. QED
    BY <2>1, <2>2, <2>5 DEF BlockInv, BlocksOk
<1>2. QED
  BY <1>1, BlockInvariant, OutputInvariant, PTL

-----------------------------------------------------------------------------
(* The inductive invariant of the fences.                                     *)
FenceInv ==
  /\ \A i \in 1..Len(deferred) : deferred[i].fence <= schedSeq
  /\ deferred # <<>> => deferred[1].fence > processedSeq
  /\ \A r \in Requests : lastSeq[r] <= schedSeq
  /\ ~DeferFree => deferred = <<>>
  /\ DeferFree => schedSeq = processedSeq + Len(flight)
  /\ pc \in {"running", "waiting", "finish"} => Len(flight) < Depth

-----------------------------------------------------------------------------
(* The variables of the deferred free.                                        *)
LEMMA FenceTypes ==
  ASSUME Types
  PROVE  /\ blocks \in [Requests -> SUBSET Blocks] /\ deferred \in Seq(DeferredEntry)
         /\ lastSeq \in [Requests -> Nat] /\ schedSeq \in Nat /\ processedSeq \in Nat
         /\ flight \in Seq(StepOutput) /\ Len(flight) \in Nat /\ Len(deferred) \in Nat
         /\ \A i \in 1..Len(deferred) : deferred[i].fence \in Nat
         /\ deferred # <<>> <=> Len(deferred) >= 1
         /\ step \in StepLocals
<1>1. /\ blocks \in [Requests -> SUBSET Blocks] /\ deferred \in Seq(DeferredEntry)
      /\ lastSeq \in [Requests -> Nat] /\ schedSeq \in Nat /\ processedSeq \in Nat
      /\ flight \in Seq(StepOutput) /\ step \in StepLocals
  BY DEF Types, BlockTypes, EngineTypes
<1>2. Len(flight) \in Nat /\ Len(deferred) \in Nat
  BY <1>1, LenProperties
<1>3. \A i \in 1..Len(deferred) : deferred[i].fence \in Nat
  <2>1. \A i \in 1..Len(deferred) : deferred[i] \in DeferredEntry
    BY <1>1, ElementOfSeq
  <2>2. QED
    BY <2>1 DEF DeferredEntry
<1>4. deferred # <<>> <=> Len(deferred) >= 1
  BY <1>1, <1>2, EmptySeq
<1>5. QED
  BY <1>1, <1>2, <1>3, <1>4

(* _free_request_blocks appends at the current fence, which is still pending. *)
LEMMA FreeFence ==
  ASSUME Types, FenceInv, NEW r \in Requests, FreeRequestBlocks(r), UNCHANGED <<flight, pc>>
  PROVE  FenceInv'
<1> DEFINE e == [fence |-> schedSeq, blocks |-> blocks[r]]
<1>0. /\ deferred \in Seq(DeferredEntry) /\ lastSeq \in [Requests -> Nat]
      /\ schedSeq \in Nat /\ processedSeq \in Nat /\ Len(deferred) \in Nat
      /\ \A i \in 1..Len(deferred) : deferred[i].fence \in Nat
      /\ deferred # <<>> <=> Len(deferred) >= 1
  BY FenceTypes
<1>1. /\ UNCHANGED <<lastSeq, schedSeq, processedSeq, flight, pc>>
      /\ \/ deferred' = deferred
         \/ DeferFree /\ lastSeq[r] > processedSeq /\ deferred' = Append(deferred, e)
  BY <1>0 DEF FreeRequestBlocks
<1>2. CASE deferred' = deferred
  BY <1>1, <1>2 DEF FenceInv
<1>3. CASE DeferFree /\ lastSeq[r] > processedSeq /\ deferred' = Append(deferred, e)
  <2>1. e \in DeferredEntry /\ e.fence = schedSeq
    BY <1>0, FenceTypes DEF DeferredEntry
  <2> HIDE DEF e
  <2>2. /\ Len(deferred') = Len(deferred) + 1 /\ deferred'[Len(deferred) + 1] = e
        /\ \A i \in 1..Len(deferred) : deferred'[i] = deferred[i]
    BY <1>0, <1>3, <2>1, AppendProperties
  <2>3. schedSeq > processedSeq
    BY <1>0, <1>3 DEF FenceInv
  <2>4. \A i \in 1..Len(deferred') : deferred'[i].fence <= schedSeq'
    BY SMTT(30), <1>0, <1>1, <2>1, <2>2 DEF FenceInv
  <2>5. deferred'[1].fence > processedSeq'
    <3>1. CASE deferred = <<>>
      BY <1>0, <1>1, <2>1, <2>2, <2>3, <3>1
    <3>2. CASE deferred # <<>>
      BY <1>0, <1>1, <2>2, <3>2 DEF FenceInv
    <3>3. QED
      BY <3>1, <3>2
  <2>6. QED
    BY <1>1, <1>3, <2>4, <2>5 DEF FenceInv
<1>4. QED
  BY <1>1, <1>2, <1>3

(* Steps that leave the protocol's variables alone.                           *)
LEMMA QuietFence ==
  ASSUME Types, FenceInv,
         UNCHANGED <<deferred, lastSeq, schedSeq, processedSeq, flight>>,
         \/ pc' \notin {"running", "waiting", "finish"}
         \/ pc \in {"running", "waiting", "finish"}
         \/ Len(flight) < Depth
  PROVE  FenceInv'
  BY DEF FenceInv

(* The end of schedule() advances the sequence number with the steps in       *)
(* flight.                                                                    *)
LEMMA EndScheduleFence ==
  ASSUME Types, Types', FenceInv, EndSchedule
  PROVE  FenceInv'
<1>0. /\ lastSeq \in [Requests -> Nat] /\ schedSeq \in Nat /\ processedSeq \in Nat
      /\ flight \in Seq(StepOutput) /\ Len(flight) \in Nat
      /\ \A i \in 1..Len(deferred) : deferred[i].fence \in Nat
  BY FenceTypes
<1>1. /\ UNCHANGED <<deferred, processedSeq>> /\ pc' = "idle"
      /\ schedSeq' = IF DeferFree /\ step.order # <<>> THEN schedSeq + 1 ELSE schedSeq
      /\ \E f : lastSeq' = [r \in Requests |-> IF f[r] THEN schedSeq' ELSE lastSeq[r]]
      /\ \E o : flight' = IF step.order # <<>> THEN Append(flight, o) ELSE flight
  <2>1. \E f : lastSeq' = [r \in Requests |-> IF f[r] THEN schedSeq' ELSE lastSeq[r]]
    <3> DEFINE f == [r \in Requests |-> DeferFree /\ step.n[r] > 0]
    <3>1. lastSeq' = [r \in Requests |-> IF DeferFree /\ step.n[r] > 0 THEN schedSeq'
                                         ELSE lastSeq[r]]
      BY DEF EndSchedule
    <3>2. lastSeq' = [r \in Requests |-> IF f[r] THEN schedSeq' ELSE lastSeq[r]]
      BY <3>1
    <3> HIDE DEF f
    <3>3. QED
      BY <3>2
  <2>2. QED
    BY <2>1 DEF EndSchedule
<1>2. schedSeq' \in Nat /\ schedSeq' >= schedSeq
  BY <1>0, <1>1
<1>3. \A r \in Requests : lastSeq'[r] <= schedSeq'
  <2>1. \A r \in Requests : lastSeq[r] \in Nat /\ lastSeq[r] <= schedSeq
    BY <1>0 DEF FenceInv
  <2>2. \A r \in Requests : lastSeq'[r] = schedSeq' \/ lastSeq'[r] = lastSeq[r]
    BY <1>1
  <2>3. QED
    BY <1>0, <1>2, <2>1, <2>2
<1>4. \A i \in 1..Len(deferred') : deferred'[i].fence <= schedSeq'
  BY <1>0, <1>1, <1>2 DEF FenceInv
<1>5. DeferFree => schedSeq' = processedSeq' + Len(flight')
  <2>1. CASE step.order # <<>>
    <3>1. PICK o : flight' = Append(flight, o)
      BY <1>1, <2>1
    <3>2. Len(flight') = Len(flight) + 1
      BY <1>0, <3>1
    <3>3. QED
      BY <1>0, <1>1, <2>1, <3>2 DEF FenceInv
  <2>2. CASE step.order = <<>>
    BY <1>1, <2>2 DEF FenceInv
  <2>3. QED
    BY <2>1, <2>2
<1>6. QED
  BY <1>1, <1>3, <1>4, <1>5 DEF FenceInv

(* Processing an output advances the other one and drains what it reached.    *)
LEMMA BeginUpdateFence ==
  ASSUME Types, FenceInv, BeginUpdate
  PROVE  FenceInv'
<1>0. /\ deferred \in Seq(DeferredEntry) /\ schedSeq \in Nat /\ processedSeq \in Nat
      /\ flight \in Seq(StepOutput) /\ Len(flight) \in Nat /\ Len(deferred) \in Nat
      /\ \A i \in 1..Len(deferred) : deferred[i].fence \in Nat
      /\ deferred # <<>> <=> Len(deferred) >= 1
  BY FenceTypes
<1>1. /\ UNCHANGED <<lastSeq, schedSeq>> /\ pc' = "update"
      /\ flight # <<>> /\ flight' = Tail(flight)
      /\ processedSeq' = IF DeferFree THEN processedSeq + 1 ELSE processedSeq
      /\ deferred' = IF DeferFree THEN Drained(processedSeq + 1) ELSE deferred
  BY DEF BeginUpdate
<1>2. Len(flight') = Len(flight) - 1
  BY <1>0, <1>1
<1>3. CASE ~DeferFree
  BY <1>1, <1>3 DEF FenceInv
<1>4. CASE DeferFree
  <2>a. processedSeq + 1 \in Nat
    BY <1>0
  <2>b. \E k \in 0..Len(deferred) :
          /\ Drained(processedSeq + 1) = SubSeq(deferred, k + 1, Len(deferred))
          /\ k < Len(deferred) => deferred[k + 1].fence > processedSeq + 1
    BY <2>a, DrainedFacts
  <2>1. PICK k \in 0..Len(deferred) :
          /\ deferred' = SubSeq(deferred, k + 1, Len(deferred))
          /\ k < Len(deferred) => deferred[k + 1].fence > processedSeq + 1
    BY <1>1, <1>4, <2>b
  <2>2. /\ Len(deferred') = Len(deferred) - k
        /\ \A i \in 1..(Len(deferred) - k) : deferred'[i] = deferred[k + i]
    <3>1. CASE k = Len(deferred)
      <4>1. deferred' = <<>>
        BY <1>0, <2>1, <3>1
      <4>2. QED
        BY <1>0, <3>1, <4>1
    <3>2. CASE k < Len(deferred)
      BY <1>0, <2>1, <3>2
    <3>3. QED
      BY <1>0, <3>1, <3>2
  <2>3. \A i \in 1..(Len(deferred) - k) : k + i \in 1..Len(deferred)
    BY <1>0
  <2>4. \A i \in 1..Len(deferred') : deferred'[i].fence <= schedSeq'
    BY <1>1, <2>2, <2>3 DEF FenceInv
  <2>5. deferred' # <<>> => deferred'[1].fence > processedSeq'
    <3>1. SUFFICES ASSUME deferred' # <<>> PROVE deferred'[1].fence > processedSeq'
      OBVIOUS
    <3>2. k < Len(deferred)
      <4>1. k = Len(deferred) => deferred' = <<>>
        BY <1>0, <2>1
      <4>2. QED
        BY <1>0, <3>1, <4>1
    <3>3. 1 \in 1..(Len(deferred) - k)
      BY <1>0, <3>2
    <3>4. QED
      BY <1>1, <1>4, <2>1, <2>2, <3>2, <3>3
  <2>6. DeferFree => schedSeq' = processedSeq' + Len(flight')
    BY <1>0, <1>1, <1>2, <1>4 DEF FenceInv
  <2>7. QED
    BY <1>1, <1>4, <2>4, <2>5, <2>6 DEF FenceInv
<1>5. QED
  BY <1>3, <1>4

(* Every step keeps the fences in the window of the steps in flight.          *)
LEMMA FenceStep ==
  ASSUME QueueInv, QueueInv', FenceInv, [Next]_vars
  PROVE  FenceInv'
<1>0. Types /\ Types' /\ running \in Seq(Requests)
  BY QueueFacts DEF QueueInv
<1>1. CASE \/ UNCHANGED vars \/ BeginReset \/ EndReset
           \/ \E p \in PauseStates : SetPauseState(p)
           \/ \E r \in Requests : AddRequest(r)
           \/ OutputOfFinished \/ OutputWithoutTokens \/ DeliverTokens \/ EndUpdate
  <2>1. /\ UNCHANGED <<deferred, lastSeq, schedSeq, processedSeq, flight>>
        /\ pc' = pc \/ pc' \notin {"running", "waiting", "finish"}
    BY <1>1 DEF vars, tokenVars, blockVars, BeginReset, EndReset, SetPauseState, AddRequest,
                OutputOfFinished, OutputWithoutTokens, DeliverTokens, EndUpdate
  <2>2. QED
    BY <1>0, <2>1, QuietFence
<1>2. CASE \/ SkipRunning \/ ScheduleRunning \/ EndRunningLoop \/ SkipUndelivered
           \/ Admit \/ StopAdmitting \/ EndWaitingLoop
  <2>1. /\ UNCHANGED <<deferred, lastSeq, schedSeq, processedSeq, flight>>
        /\ pc \in {"running", "waiting", "finish"}
    BY <1>2 DEF blockVars, SkipRunning, ScheduleRunning, EndRunningLoop, SkipUndelivered,
                Admit, StopAdmitting, EndWaitingLoop, InRunningLoop, InWaitingLoop
  <2>2. QED
    BY <1>0, <2>1, QuietFence
<1>3. CASE BeginSchedule
  <2>1. /\ UNCHANGED <<deferred, lastSeq, schedSeq, processedSeq, flight>>
        /\ Len(flight) < Depth
    BY <1>3 DEF BeginSchedule, blockVars
  <2>2. QED
    BY <1>0, <2>1, QuietFence
<1>4. ASSUME NEW r \in Requests, AbortRequest(r) PROVE FenceInv'
  BY <1>0, <1>4, FreeFence DEF AbortRequest, Finish
<1>5. CASE DeliverAndStop
  <2>1. Returned \in Requests
    BY <1>0, <1>5, ReturnedFacts DEF DeliverAndStop
  <2>2. FreeRequestBlocks(Returned) /\ UNCHANGED <<flight, pc>>
    BY <1>5 DEF DeliverAndStop, Finish
  <2>3. QED
    BY <1>0, <2>1, <2>2, FreeFence
<1>6. CASE PreemptForRoom
  <2>1. Victim \in Requests
    BY <1>0, <1>6, CurrentFacts, VictimIsRunning DEF PreemptForRoom
  <2>2. FreeRequestBlocks(Victim) /\ UNCHANGED <<flight, pc>>
    BY <1>6 DEF PreemptForRoom, Preempt
  <2>3. QED
    BY <1>0, <2>1, <2>2, FreeFence
<1>7. CASE ResetOne
  <2>1. Last(running) \in Requests
    BY <1>0, <1>7, VictimIsRunning DEF ResetOne
  <2>2. FreeRequestBlocks(Last(running)) /\ UNCHANGED <<flight, pc>>
    BY <1>7 DEF ResetOne, Preempt
  <2>3. QED
    BY <1>0, <2>1, <2>2, FreeFence
<1>8. QED
  BY <1>0, <1>1, <1>2, <1>3, <1>4, <1>5, <1>6, <1>7, EndScheduleFence, BeginUpdateFence
     DEF Next, ScheduleAction, UpdateAction, ResetAction

(* No fence is pending when the scheduler is made.                            *)
LEMMA FenceInitially == Init => FenceInv
<1> SUFFICES ASSUME Init PROVE FenceInv
  OBVIOUS
<1>1. /\ deferred = <<>> /\ Len(deferred) = 0 /\ flight = <<>> /\ Len(flight) = 0
      /\ schedSeq = 0 /\ processedSeq = 0 /\ pc = "idle"
      /\ \A r \in Requests : lastSeq[r] = 0
  BY DEF Init, NoRequest
<1>2. QED
  BY <1>1 DEF FenceInv

(* The inductive invariant of the fences: the two sequence numbers differ by  *)
(* the steps in flight, no fence is later than the last step, and the head of *)
(* deferred_frees is still pending.                                           *)
THEOREM FenceInvariant == Spec => []FenceInv
<1>1. QueueInv /\ QueueInv' /\ FenceInv /\ [Next]_vars => FenceInv'
  BY FenceStep
<1>2. QED
  BY <1>1, FenceInitially, QueueInvariant, PTL DEF Spec

(* The end of a reset with nothing in flight succeeds.                        *)
LEMMA ResetStep ==
  ASSUME QueueInv, BlockInv, FenceInv, [Next]_vars, pc = "reset", pc' = "idle", flight = <<>>
  PROVE  ~resetFailed'
<1>0. /\ Types /\ running \in Seq(Requests) /\ Len(deferred) \in Nat
      /\ deferred # <<>> <=> Len(deferred) >= 1
      /\ schedSeq \in Nat /\ processedSeq \in Nat
      /\ \A i \in 1..Len(deferred) : deferred[i].fence \in Nat
  BY QueueFacts, FenceTypes
<1>1. EndReset
  <2>1. Next
    BY DEF vars
  <2>2. pc # "idle" /\ pc # "running" /\ pc # "waiting" /\ pc # "finish" /\ pc # "update"
    OBVIOUS
  <2>3. ~ResetOne
    BY DEF ResetOne
  <2>4. QED
    BY <2>1, <2>2, <2>3
       DEF Next, ScheduleAction, UpdateAction, ResetAction, AddRequest, AbortRequest,
           SetPauseState, BeginReset, BeginSchedule, BeginUpdate, SkipRunning,
           ScheduleRunning, PreemptForRoom, EndRunningLoop, SkipUndelivered, Admit,
           StopAdmitting, EndWaitingLoop, EndSchedule, OutputOfFinished,
           OutputWithoutTokens, DeliverTokens, DeliverAndStop, EndUpdate, InRunningLoop,
           InWaitingLoop, InUpdateLoop
<1>2. resetFailed' = (Free # Blocks) /\ running = <<>>
  BY <1>1 DEF EndReset
<1>3. \A r \in Requests : blocks[r] = {}
  <2>1. ToSet(running) = {}
    BY <1>2, EmptySets
  <2>2. \A r \in Requests : status[r] # "RUNNING"
    BY <2>1 DEF QueueInv, QueuesByStatus
  <2>3. QED
    BY <2>2 DEF BlockInv, BlocksOk
<1>4. deferred = <<>>
  <2>1. SUFFICES ASSUME deferred # <<>> PROVE FALSE
    OBVIOUS
  <2>2. DeferFree
    BY <2>1 DEF FenceInv
  <2>3. Len(flight) = 0
    OBVIOUS
  <2>4. 1 \in 1..Len(deferred)
    BY <1>0, <2>1
  <2>5. /\ schedSeq = processedSeq + 0 /\ deferred[1].fence > processedSeq
        /\ deferred[1].fence <= schedSeq
    BY <2>1, <2>2, <2>3, <2>4 DEF FenceInv
  <2>6. QED
    BY <1>0, <2>4, <2>5
<1>5. Free = Blocks
  <2>1. DOMAIN deferred = {}
    BY <1>4
  <2>2. UNION {blocks[r] : r \in Requests} = {}
    BY <1>3
  <2>3. UNION {deferred[i].blocks : i \in DOMAIN deferred} = {}
    BY <2>1
  <2>4. QED
    BY <2>2, <2>3 DEF Free
<1>6. QED
  BY <1>2, <1>5

(* reset_prefix_cache(reset_running_requests=True) never fails when no step   *)
(* is in flight: every block went back to the pool.                           *)
THEOREM ResetNeverFailsIdle == Spec => ResetFailsOnlyInFlight
<1>1. QueueInv /\ BlockInv /\ FenceInv /\ [Next]_vars
        => [pc = "reset" /\ pc' = "idle" /\ flight = <<>> => ~resetFailed']_vars
  BY ResetStep
<1>2. QED
  BY <1>1, QueueInvariant, BlockInvariant, FenceInvariant, PTL DEF Spec, ResetFailsOnlyInFlight

-----------------------------------------------------------------------------
(* The step outputs, as the deferred-free protocol sees them.                  *)
Writes == [i \in DOMAIN flight |-> flight[i].writes]

(* The variables of the protocol, as the scheduler has them.                  *)
LEMMA FenceVariables ==
  Fence!vars = <<blocks, deferred, lastSeq, schedSeq, processedSeq, Writes>>
  BY DEF Fence!vars, Writes

(* The step outputs, as the protocol sees them.                               *)
LEMMA WritesFacts ==
  ASSUME Types
  PROVE  /\ Writes \in Seq([Requests -> SUBSET Blocks]) /\ Len(Writes) = Len(flight)
         /\ DOMAIN flight = 1..Len(flight) /\ Len(flight) \in Nat
         /\ \A i \in 1..Len(flight) : Writes[i] = flight[i].writes
<1>1. flight \in Seq(StepOutput) /\ Len(flight) \in Nat /\ DOMAIN flight = 1..Len(flight)
  BY FenceTypes, LenProperties
<1>2. \A i \in 1..Len(flight) : flight[i].writes \in [Requests -> SUBSET Blocks]
  <2>1. \A i \in 1..Len(flight) : flight[i] \in StepOutput
    BY <1>1, ElementOfSeq
  <2>2. QED
    BY <2>1 DEF StepOutput
<1>3. QED
  BY <1>1, <1>2 DEF Writes

(* What has a reference.                                                      *)
LEMMA FreeIsFree ==
  Fence!Free = Free
<1> DEFINE B == UNION {blocks[r] : r \in Requests}
           D == UNION {deferred[i].blocks : i \in DOMAIN deferred}
<1>1. \A b : b \in B <=> \E r \in Requests : b \in blocks[r]
  OBVIOUS
<1>2. \A b : b \in D <=> \E i \in DOMAIN deferred : b \in deferred[i].blocks
  OBVIOUS
<1>3. Free = Blocks \ (B \union D)
  BY DEF Free
<1> HIDE DEF B, D
<1>4. \A b \in Blocks : b \in Fence!Held <=> b \in B \/ b \in D
  BY <1>1, <1>2 DEF Fence!Held
<1>5. Fence!Free = Blocks \ Fence!Held
  BY DEF Fence!Free
<1>6. \A b : b \in Fence!Free <=> b \in Free
  BY <1>3, <1>4, <1>5
<1>7. QED
  BY <1>6

(* Freeing a request's blocks is the protocol's free.                         *)
LEMMA FreeRefines ==
  ASSUME Types, NEW r \in Requests, FreeRequestBlocks(r), UNCHANGED flight, DeferFree
  PROVE  Fence!Next
<1>1. Writes' = Writes
  BY DEF Writes
<1>2. lastSeq[r] \in Nat /\ processedSeq \in Nat
  BY FenceTypes
<1>3. Fence!FreeRequestBlocks(r)
  BY <1>1, <1>2 DEF FreeRequestBlocks, Fence!FreeRequestBlocks, Fence!MayFreeNow,
                    Fence!Below, Writes
<1>4. QED
  BY <1>3 DEF Fence!Next

(* Allocating is the protocol's allocation.                                   *)
LEMMA AllocateRefines ==
  ASSUME Types, NEW r \in Requests, NEW upto, Allocate(r, upto),
         UNCHANGED <<deferred, lastSeq, schedSeq, processedSeq, flight>>
  PROVE  Fence!Next
<1>1. PICK S \in kSubset(Needed(r, upto), Free) : blocks' = [blocks EXCEPT ![r] = @ \union S]
  BY DEF Allocate
<1>2. S \subseteq Free /\ S \in SUBSET Blocks
  BY <1>1 DEF kSubset, Free
<1>3. blocks' = [blocks EXCEPT ![r] = @ \union {} \union S]
  BY <1>1, FenceTypes
<1>4. Fence!Allocate(r, {}, S)
  BY <1>2, <1>3, FreeIsFree DEF Fence!Allocate
<1>5. {} \in SUBSET Blocks
  OBVIOUS
<1>6. QED
  BY <1>2, <1>4, <1>5 DEF Fence!Next

(* The end of schedule() is the protocol's step, or nothing.                  *)
LEMMA EndScheduleRefines ==
  ASSUME QueueInv, FenceInv, EndSchedule, DeferFree
  PROVE  Fence!Next \/ UNCHANGED Fence!vars
<1>0. /\ Types /\ flight \in Seq(StepOutput) /\ Len(flight) \in Nat
      /\ step.order \in Seq(Requests) /\ step.n \in [Requests -> Nat] /\ StepDistinct
      /\ lastSeq \in [Requests -> Nat]
  BY QueueFacts, FenceTypes, StepFieldTypes DEF QueueInv
<1> DEFINE R == {r \in Requests : step.n[r] > 0}
           w == [r \in Requests |-> IF r \in R THEN blocks[r] ELSE {}]
<1>1. /\ UNCHANGED <<deferred, processedSeq, blocks>> /\ pc = "finish"
      /\ schedSeq' = IF step.order # <<>> THEN schedSeq + 1 ELSE schedSeq
      /\ lastSeq' = [r \in Requests |-> IF step.n[r] > 0 THEN schedSeq' ELSE lastSeq[r]]
      /\ \E o : /\ flight' = IF step.order # <<>> THEN Append(flight, o) ELSE flight
                /\ o.writes = [r \in Requests |-> IF step.n[r] > 0 THEN blocks[r] ELSE {}]
  <2>1. UNCHANGED <<deferred, processedSeq, blocks>> /\ pc = "finish"
    BY DEF EndSchedule
  <2>2. schedSeq' = IF step.order # <<>> THEN schedSeq + 1 ELSE schedSeq
    BY DEF EndSchedule
  <2>3. lastSeq' = [r \in Requests |-> IF step.n[r] > 0 THEN schedSeq' ELSE lastSeq[r]]
    BY DEF EndSchedule
  <2>4. \E pos : flight' = IF step.order # <<>>
                             THEN Append(flight,
                                    [order |-> step.order, n |-> step.n,
                                     drafts |-> step.drafts, pos |-> pos,
                                     writes |-> [r \in Requests |->
                                       IF step.n[r] > 0 THEN blocks[r] ELSE {}]])
                             ELSE flight
    BY Zenon DEF EndSchedule
  <2>5. PICK pos : flight' = IF step.order # <<>>
                               THEN Append(flight,
                                      [order |-> step.order, n |-> step.n,
                                       drafts |-> step.drafts, pos |-> pos,
                                       writes |-> [r \in Requests |->
                                         IF step.n[r] > 0 THEN blocks[r] ELSE {}]])
                               ELSE flight
    BY <2>4
  <2> DEFINE v == [r \in Requests |-> IF step.n[r] > 0 THEN blocks[r] ELSE {}]
             o == [order |-> step.order, n |-> step.n, drafts |-> step.drafts,
                   pos |-> pos, writes |-> v]
  <2>6. flight' = IF step.order # <<>> THEN Append(flight, o) ELSE flight
    BY <2>5
  <2>7. o.writes = v
    OBVIOUS
  <2> HIDE DEF o
  <2>8. QED
    BY <2>1, <2>2, <2>3, <2>6, <2>7
<1>2. CASE step.order # <<>>
  <2>1. PICK o : flight' = Append(flight, o) /\ o.writes = w
    <3>1. w = [r \in Requests |-> IF step.n[r] > 0 THEN blocks[r] ELSE {}]
      OBVIOUS
    <3> HIDE DEF w
    <3>2. QED
      BY <1>1, <1>2, <3>1
  <2>2. R # {} /\ R \in SUBSET Requests
    <3>1. step.order[1] \in ToSet(step.order) /\ step.order[1] \in Requests
      BY <1>0, <1>2, LenProperties, EmptySeq DEF ToSet
    <3>2. step.n[step.order[1]] > 0
      BY <1>0, <3>1 DEF StepDistinct
    <3>3. QED
      BY <3>1, <3>2
  <2>3. Writes' = Append(Writes, w)
    <3>1. /\ Len(flight') = Len(flight) + 1 /\ flight'[Len(flight) + 1] = o
          /\ \A i \in 1..Len(flight) : flight'[i] = flight[i]
          /\ DOMAIN flight' = 1..(Len(flight) + 1)
      BY <1>0, <2>1
    <3>2. Writes \in Seq([Requests -> SUBSET Blocks]) /\ Len(Writes) = Len(flight)
      BY <1>0, WritesFacts
    <3>3. \A i \in 1..Len(flight) : Writes[i] = flight[i].writes
      BY <1>0, WritesFacts
    <3>4. Writes' = [i \in 1..(Len(flight) + 1) |-> flight'[i].writes]
      BY <3>1 DEF Writes
    <3> HIDE DEF w
    <3>5. w \in [Requests -> SUBSET Blocks]
      BY <1>0, FenceTypes DEF w
    <3>6. /\ Append(Writes, w) \in Seq([Requests -> SUBSET Blocks])
          /\ Len(Append(Writes, w)) = Len(flight) + 1
          /\ Append(Writes, w)[Len(flight) + 1] = w
          /\ \A i \in 1..Len(flight) : Append(Writes, w)[i] = Writes[i]
      BY <3>2, <3>5, AppendProperties
    <3>7. \A i \in 1..(Len(flight) + 1) : flight'[i].writes = Append(Writes, w)[i]
      BY <1>0, <2>1, <3>1, <3>3, <3>6
    <3>8. DOMAIN Append(Writes, w) = 1..(Len(flight) + 1)
      BY <3>6, LenProperties
    <3>9. Append(Writes, w) = [i \in 1..(Len(flight) + 1) |-> Append(Writes, w)[i]]
      BY <3>6, <3>8, LenProperties
    <3>10. QED
      BY <3>4, <3>7, <3>9
  <2>4. Len(Writes) < Depth
    BY <1>0, <1>1, WritesFacts DEF FenceInv
  <2>5. lastSeq' = [r \in Requests |-> IF r \in R THEN schedSeq + 1 ELSE lastSeq[r]]
    BY <1>1, <1>2
  <2>6. Fence!ScheduleStep(R, {})
    <3> HIDE DEF R
    <3>1. Writes = [i \in DOMAIN flight |-> flight[i].writes]
      BY DEF Writes
    <3>2. QED
      BY <1>1, <1>2, <2>2, <2>3, <2>4, <2>5, <3>1 DEF Fence!ScheduleStep, Fence!Below, Writes
  <2>7. {} \in SUBSET Blocks
    OBVIOUS
  <2> HIDE DEF R, w
  <2>8. QED
    BY <2>2, <2>6, <2>7 DEF Fence!Next
<1>3. CASE step.order = <<>>
  <2>1. \A r \in Requests : ~(step.n[r] > 0)
    BY <1>0, <1>3, EmptySets DEF StepDistinct
  <2>2. lastSeq' = lastSeq
    BY <1>0, <1>1, <2>1
  <2>3. UNCHANGED <<flight, schedSeq>>
    BY <1>1, <1>3
  <2>4. Writes' = Writes
    BY <2>3 DEF Writes
  <2>5. QED
    BY <1>1, <2>2, <2>3, <2>4, FenceVariables DEF Fence!vars, Writes
<1>4. QED
  BY <1>2, <1>3

(* Taking an output in is the protocol's.                                     *)
LEMMA BeginUpdateRefines ==
  ASSUME Types, BeginUpdate, DeferFree
  PROVE  Fence!Next
<1>0. /\ flight \in Seq(StepOutput) /\ Len(flight) \in Nat /\ Len(deferred) \in Nat
      /\ processedSeq \in Nat /\ processedSeq + 1 \in Nat
  BY FenceTypes
<1>1. /\ UNCHANGED <<blocks, lastSeq, schedSeq>> /\ flight # <<>> /\ flight' = Tail(flight)
      /\ processedSeq' = processedSeq + 1 /\ deferred' = Drained(processedSeq + 1)
  BY DEF BeginUpdate
<1>2. \E k \in 0..Len(deferred) :
        /\ Drained(processedSeq + 1) = SubSeq(deferred, k + 1, Len(deferred))
        /\ \A i \in 1..k : deferred[i].fence <= processedSeq + 1
        /\ k < Len(deferred) => deferred[k + 1].fence > processedSeq + 1
  BY <1>0, DrainedFacts
<1>3. Writes # <<>> /\ Writes' = Tail(Writes)
  <2>1. /\ Writes \in Seq([Requests -> SUBSET Blocks]) /\ Len(Writes) = Len(flight)
        /\ \A i \in 1..Len(flight) : Writes[i] = flight[i].writes
    BY WritesFacts
  <2>2. Len(flight) >= 1
    BY <1>0, <1>1, EmptySeq
  <2>3. Writes # <<>>
    BY <2>1, <2>2, EmptySeq
  <2>4. /\ DOMAIN flight' = 1..(Len(flight) - 1)
        /\ \A i \in 1..(Len(flight) - 1) : flight'[i] = flight[i + 1]
    BY <1>0, <1>1, <2>2
  <2>5. Writes' = [i \in 1..(Len(flight) - 1) |-> flight'[i].writes]
    BY <2>4 DEF Writes
  <2>6. Tail(Writes) = [i \in 1..(Len(flight) - 1) |-> Writes[i + 1]]
    <3>1. /\ Tail(Writes) \in Seq([Requests -> SUBSET Blocks])
          /\ Len(Tail(Writes)) = Len(flight) - 1
          /\ \A i \in 1..(Len(flight) - 1) : Tail(Writes)[i] = Writes[i + 1]
      BY <2>1, <2>3, TailFacts
    <3>2. Tail(Writes) = [i \in 1..(Len(flight) - 1) |-> Tail(Writes)[i]]
      BY <3>1, LenProperties
    <3>3. QED
      BY <3>1, <3>2
  <2>7. \A i \in 1..(Len(flight) - 1) : flight'[i].writes = Writes[i + 1]
    <3>1. \A i \in 1..(Len(flight) - 1) : i + 1 \in 1..Len(flight)
      BY <1>0
    <3>2. QED
      BY <2>1, <2>4, <3>1
  <2>8. QED
    BY <2>3, <2>5, <2>6, <2>7
<1>4. Fence!ProcessStep
  BY <1>1, <1>2, <1>3 DEF Fence!ProcessStep, Fence!DrainedBy, Writes
<1>5. QED
  BY <1>4 DEF Fence!Next

(* Every step of the scheduler is a step of the protocol, or none of its.     *)
LEMMA FenceRefined ==
  ASSUME QueueInv, FenceInv, DeferFree, [Next]_vars
  PROVE  [Fence!Next]_(Fence!vars)
<1>0. Types /\ running \in Seq(Requests)
  BY QueueFacts
<1>1. ASSUME UNCHANGED <<blocks, deferred, lastSeq, schedSeq, processedSeq, flight>>
      PROVE  [Fence!Next]_(Fence!vars)
  BY <1>1 DEF Fence!vars
<1>2. CASE \/ UNCHANGED vars \/ BeginReset \/ EndReset
           \/ \E p \in PauseStates : SetPauseState(p)
           \/ \E r \in Requests : AddRequest(r)
           \/ OutputOfFinished \/ OutputWithoutTokens \/ DeliverTokens \/ EndUpdate
           \/ BeginSchedule \/ SkipRunning \/ EndRunningLoop \/ SkipUndelivered
           \/ StopAdmitting \/ EndWaitingLoop
  <2>1. UNCHANGED <<blocks, deferred, lastSeq, schedSeq, processedSeq, flight>>
    BY <1>2 DEF vars, tokenVars, blockVars, BeginReset, EndReset, SetPauseState, AddRequest,
                OutputOfFinished, OutputWithoutTokens, DeliverTokens, EndUpdate,
                BeginSchedule, SkipRunning, EndRunningLoop, SkipUndelivered, StopAdmitting,
                EndWaitingLoop
  <2>2. QED
    BY <1>1, <2>1
<1>3. CASE ScheduleRunning
  <2>1. Current \in Requests
    BY <1>0, <1>3, CurrentFacts DEF ScheduleRunning
  <2>2. /\ \E upto : Allocate(Current, upto)
        /\ UNCHANGED <<deferred, lastSeq, schedSeq, processedSeq, flight>>
    BY <1>3 DEF ScheduleRunning
  <2>3. QED
    BY <1>0, <2>1, <2>2, AllocateRefines
<1>4. CASE Admit
  <2>1. Candidate \in Requests
    BY <1>0, <1>4, CandidateFacts DEF Admit, InWaitingLoop
  <2>2. /\ \E upto : Allocate(Candidate, upto)
        /\ UNCHANGED <<deferred, lastSeq, schedSeq, processedSeq, flight>>
    BY <1>4 DEF Admit
  <2>3. QED
    BY <1>0, <2>1, <2>2, AllocateRefines
<1>5. CASE \/ \E r \in Requests : AbortRequest(r)
           \/ DeliverAndStop \/ PreemptForRoom \/ ResetOne
  <2>1. \E r \in Requests : FreeRequestBlocks(r) /\ UNCHANGED flight
    <3>1. CASE \E r \in Requests : AbortRequest(r)
      BY <3>1 DEF AbortRequest, Finish
    <3>2. CASE DeliverAndStop
      BY <1>0, <3>2, ReturnedFacts DEF DeliverAndStop, Finish
    <3>3. CASE PreemptForRoom
      <4>1. Victim \in Requests
        BY <1>0, <3>3, CurrentFacts, VictimIsRunning DEF PreemptForRoom
      <4>2. QED
        BY <3>3, <4>1 DEF PreemptForRoom, Preempt
    <3>4. CASE ResetOne
      <4>1. Last(running) \in Requests
        BY <1>0, <3>4, VictimIsRunning DEF ResetOne
      <4>2. QED
        BY <3>4, <4>1 DEF ResetOne, Preempt
    <3>5. QED
      BY <1>5, <3>1, <3>2, <3>3, <3>4
  <2>2. QED
    BY <1>0, <2>1, FreeRefines
<1>6. CASE EndSchedule
  BY <1>6, EndScheduleRefines
<1>7. CASE BeginUpdate
  BY <1>0, <1>7, BeginUpdateRefines
<1>8. QED
  BY <1>2, <1>3, <1>4, <1>5, <1>6, <1>7
     DEF Next, ScheduleAction, UpdateAction, ResetAction

(* The scheduler starts as the protocol does.                                 *)
LEMMA FenceInit == Init => Fence!Init
  BY DEF Init, Fence!Init, NoRequest

(* The scheduler implements the protocol of the deferred free, whatever it    *)
(* allocates, preempts, aborts and resets.                                    *)
THEOREM FollowsTheFence == ASSUME DeferFree PROVE Spec => FenceSpec
<1>1. QueueInv /\ FenceInv /\ [Next]_vars => [Fence!Next]_(Fence!vars)
  BY FenceRefined
<1>2. QED
  BY <1>1, FenceInit, QueueInvariant, FenceInvariant, PTL DEF Spec, FenceSpec, Fence!Spec

-----------------------------------------------------------------------------
(* What is proved of the protocol holds of the scheduler that implements it.    *)
FenceProofs == INSTANCE BlockFence_proofs WITH
  MaxSteps <- 0, MaxDeferred <- 0,
  flight <- [i \in DOMAIN flight |-> flight[i].writes]

(* The assumptions of the protocol's module hold.                              *)
LEMMA FenceAssumptions == FenceProofs!DepthAssumption /\ FenceProofs!BoundsAssumption
  BY SizesAssumption DEF FenceProofs!DepthAssumption, FenceProofs!BoundsAssumption

(* The two instances of the protocol are one: action by action ...              *)
LEMMA SameAllocate ==
  ASSUME NEW r, NEW hit, NEW fresh, Fence!Allocate(r, hit, fresh)
  PROVE  FenceProofs!Allocate(r, hit, fresh)
  BY DEF Fence!Allocate, FenceProofs!Allocate, Fence!Free, Fence!Held,
         FenceProofs!Free, FenceProofs!Held

(* ... freeing a request's blocks,                                             *)
LEMMA SameFree ==
  ASSUME NEW r, Fence!FreeRequestBlocks(r)
  PROVE  FenceProofs!FreeRequestBlocks(r)
  BY DEF Fence!FreeRequestBlocks, FenceProofs!FreeRequestBlocks, Fence!MayFreeNow,
         FenceProofs!MayFreeNow, Fence!Below, FenceProofs!Below

(* ... scheduling a step,                                                      *)
LEMMA SameSchedule ==
  ASSUME NEW R, NEW cow, Fence!ScheduleStep(R, cow)
  PROVE  FenceProofs!ScheduleStep(R, cow)
  BY DEF Fence!ScheduleStep, FenceProofs!ScheduleStep, Fence!Held, FenceProofs!Held,
         Fence!Below, FenceProofs!Below

(* ... retaining copies,                                                       *)
LEMMA SameRetain ==
  ASSUME NEW cow, Fence!RetainCopies(cow)
  PROVE  FenceProofs!RetainCopies(cow)
  BY DEF Fence!RetainCopies, FenceProofs!RetainCopies, Fence!Held, FenceProofs!Held,
         Fence!Below, FenceProofs!Below

(* ... processing a step,                                                      *)
LEMMA SameProcess ==
  ASSUME Fence!ProcessStep
  PROVE  FenceProofs!ProcessStep
  BY DEF Fence!ProcessStep, FenceProofs!ProcessStep, Fence!DrainedBy, FenceProofs!DrainedBy

(* ... and as specifications.                                                  *)
LEMMA SameFence == Fence!Spec => FenceProofs!Spec
<1>1. Fence!Init => FenceProofs!Init
  BY DEF Fence!Init, FenceProofs!Init
<1>2. [Fence!Next]_(Fence!vars) => [FenceProofs!Next]_(FenceProofs!vars)
  <2>1. Fence!vars = FenceProofs!vars /\ Fence!vars' = FenceProofs!vars'
    BY DEF Fence!vars, FenceProofs!vars
  <2>2. Fence!Next => FenceProofs!Next
    BY SameAllocate, SameFree, SameSchedule, SameRetain, SameProcess
       DEF Fence!Next, FenceProofs!Next
  <2>3. QED
    BY <2>1, <2>2
<1>3. QED
  BY <1>1, <1>2, PTL DEF Fence!Spec, FenceProofs!Spec

(* In the scheduler itself, no free block is one that a step in flight may      *)
(* still write: the reason given for defer_block_free in Scheduler.__init__.     *)
THEOREM NoFreeBlockIsWritten == ASSUME DeferFree PROVE Spec => []Fence!NoFreeWrite
<1>1. FenceProofs!DepthAssumption /\ FenceProofs!BoundsAssumption
        => (FenceProofs!Spec => []FenceProofs!NoFreeWrite)
  BY FenceProofs!FreeBlocksAreQuiet
<1>2. FenceProofs!Spec => []FenceProofs!NoFreeWrite
  BY <1>1, FenceAssumptions
<1>3. FenceProofs!NoFreeWrite => Fence!NoFreeWrite
  BY DEF Fence!NoFreeWrite, FenceProofs!NoFreeWrite, Fence!Free, Fence!Held,
         FenceProofs!Free, FenceProofs!Held, Fence!InFlightWrites,
         FenceProofs!InFlightWrites
<1>4. QED
  BY <1>2, <1>3, SameFence, FollowsTheFence, PTL DEF FenceSpec

=============================================================================

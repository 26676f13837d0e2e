----------------------- MODULE StreamingSession_proofs -----------------------
(***************************************************************************)
(* Proofs about StreamingSession with one step in flight: sessions are in    *)
(* their queues, the counter of the waiting ones is exact, and no chunk of   *)
(* text is lost or reordered.                                               *)
(***************************************************************************)
EXTENDS StreamingSession, SequenceLemmas, FiniteSetTheorems

(* The requests of a kind.                                                    *)
Paused == {r \in Sessions : status[r] = "STREAMWAIT"}
Queueing == {"WAITING", "PREEMPTED", "STREAMWAIT"}

(* Each queue holds the sessions of its statuses, once.                        *)
QueuesOk ==
  /\ IsInjective(waiting) /\ IsInjective(skipped) /\ IsInjective(running)
  /\ ToSet(waiting) \cap ToSet(skipped) = {}
  /\ \A r \in Sessions :
       /\ r \in ToSet(running) <=> status[r] = "RUNNING"
       /\ r \in ToSet(waiting) \union ToSet(skipped) <=> status[r] \in Queueing

(* A paused session is counted, and keeps the seat it had.                      *)
SeatsOk ==
  /\ counter = Cardinality(Paused)
  /\ Len(running) + counter <= MaxNumSeqs

(* The one step: what it holds is running, unless its client ended it.          *)
InStep(r) == r \in cur \/ (flight # <<>> /\ r \in flight[1])
OneStep ==
  /\ Len(flight) <= 1 /\ (cur # {} => flight = <<>>)
  /\ \A r \in Sessions : /\ InStep(r) => status[r] \in {"RUNNING", "FINISHED"}
                         /\ inflight[r] = IF InStep(r) THEN 1 ELSE 0

(* The text of a session, from its status st and whether it is computed: in the     *)
(* prompt and the context the chunks taken, in order; in its streaming_queue u      *)
(* those that wait, in order, up to the last one sent, and behind them the          *)
(* sentinel, if the client sent it.                                             *)
PendingOf(p, u, n, e) ==
  /\ Len(p) <= n
  /\ Len(u) = n - Len(p) + (IF e THEN 1 ELSE 0)
  /\ \A i \in 1..Len(u) : u[i] = IF i <= n - Len(p) THEN Len(p) + i ELSE 0
TextOf(st, done, p, c, u, n, e) ==
  /\ c = p /\ \A i \in 1..Len(p) : p[i] = i
  /\ st \in {"NEW", "STREAMWAIT"} => u = <<>>
  /\ st \notin {"NEW", "FINISHED"} => PendingOf(p, u, n, e)
  /\ st \in {"RUNNING", "STREAMWAIT"} => done
TextOk ==
  \A r \in Sessions : TextOf(status[r], computed[r], prompt[r], context[r], updates[r],
                             sent[r], ended[r])

(* The inductive invariant.                                                   *)
SessionInv == TypeOK /\ QueuesOk /\ SeatsOk /\ OneStep /\ TextOk

-----------------------------------------------------------------------------
(* A queue that repeats nothing is as long as it has elements.                  *)
LEMMA LengthFacts ==
  ASSUME NEW T, NEW q \in Seq(T), IsInjective(q)
  PROVE  IsFiniteSet(ToSet(q)) /\ Cardinality(ToSet(q)) = Len(q)
<1>1. Len(q) \in Nat /\ DOMAIN q = 1..Len(q) /\ q \in [1..Len(q) -> T]
  BY LenProperties
<1>2. ToSet(q) = {q[i] : i \in 1..Len(q)}
  BY <1>1 DEF ToSet
<1>3. q \in Bijection(1..Len(q), ToSet(q))
  <2>1. q \in [1..Len(q) -> ToSet(q)]
    BY <1>1, <1>2
  <2>2. \A i, j \in 1..Len(q) : q[i] = q[j] => i = j
    BY <1>1 DEF IsInjective
  <2>3. \A e \in ToSet(q) : \E i \in 1..Len(q) : q[i] = e
    BY <1>2
  <2>4. q \in Injection(1..Len(q), ToSet(q))
    BY <1>1, <2>1, <2>2 DEF Injection, IsInjective
  <2>5. q \in Surjection(1..Len(q), ToSet(q))
    BY <2>1, <2>3 DEF Surjection
  <2>6. QED
    BY <2>4, <2>5 DEF Bijection
<1>4. IsFiniteSet(1..Len(q)) /\ Cardinality(1..Len(q)) = Len(q)
  BY <1>1, FS_Interval
<1>5. ExistsBijection(1..Len(q), ToSet(q))
  BY <1>3 DEF ExistsBijection
<1>6. QED
  BY <1>4, <1>5, FS_Bijection

(* The two parts of a queue.                                                   *)
LEMMA SplitFacts ==
  ASSUME NEW T, NEW q \in Seq(T), NEW k \in 0..Len(q)
  PROVE  /\ SubSeq(q, 1, k) \in Seq(T) /\ SubSeq(q, k + 1, Len(q)) \in Seq(T)
         /\ ToSet(q) = ToSet(SubSeq(q, 1, k)) \union ToSet(SubSeq(q, k + 1, Len(q)))
         /\ IsInjective(q) =>
              /\ IsInjective(SubSeq(q, 1, k)) /\ IsInjective(SubSeq(q, k + 1, Len(q)))
              /\ ToSet(SubSeq(q, 1, k)) \cap ToSet(SubSeq(q, k + 1, Len(q))) = {}
<1> DEFINE a == SubSeq(q, 1, k)
           b == SubSeq(q, k + 1, Len(q))
<1>1. Len(q) \in Nat /\ k \in Nat /\ k <= Len(q)
  BY LenProperties
<1>2. a \in Seq(T)
  <2>1. \A i \in 1..k : q[i] \in T
    BY <1>1, ElementOfSeq
  <2>2. QED
    BY <1>1, <2>1, SubSeqProperties
<1>3. b \in Seq(T)
  <2>1. \A i \in (k + 1)..Len(q) : q[i] \in T
    BY <1>1, ElementOfSeq
  <2>2. QED
    BY <1>1, <2>1, SubSeqProperties
<1>4. q = a \o b
  <2>1. 1 \in 1..(Len(q) + 1) /\ k \in (1 - 1)..Len(q) /\ Len(q) \in k..Len(q)
    BY <1>1
  <2>a. SubSeq(q, 1, k) \o SubSeq(q, k + 1, Len(q)) = SubSeq(q, 1, Len(q))
    BY <2>1, ConcatAdjacentSubSeq
  <2>2. QED
    BY <2>a, SubSeqFull
<1> HIDE DEF a, b
<1>5. /\ ToSet(a \o b) = ToSet(a) \union ToSet(b)
      /\ IsInjective(a \o b) <=>
           IsInjective(a) /\ IsInjective(b) /\ ToSet(a) \cap ToSet(b) = {}
  BY <1>2, <1>3, ConcatFacts
<1>6. QED
  BY <1>2, <1>3, <1>4, <1>5 DEF a, b

(* Taking a session out of a queue.                                            *)
LEMMA WithoutFacts ==
  ASSUME NEW q \in Seq(Sessions), NEW r
  PROVE  /\ Without(q, r) \in Seq(Sessions)
         /\ ToSet(Without(q, r)) = ToSet(q) \ {r}
         /\ IsInjective(q) => IsInjective(Without(q, r))
<1>1. ToSet(q) \subseteq Sessions
  BY LenProperties, ElementOfSeq DEF ToSet
<1>2. QED
  BY <1>1, KeepFacts DEF Without

-----------------------------------------------------------------------------
(* The types, one variable at a time.                                          *)
Statuses == {"NEW", "WAITING", "RUNNING", "PREEMPTED", "STREAMWAIT", "FINISHED"}
Texts == [Sessions -> Seq(0..MaxChunks)]
QueueTypes ==
  /\ status \in [Sessions -> Statuses]
  /\ waiting \in Seq(Sessions) /\ skipped \in Seq(Sessions) /\ running \in Seq(Sessions)
StepTypes ==
  /\ flight \in Seq(SUBSET Sessions) /\ cur \subseteq Sessions
  /\ inflight \in [Sessions -> Nat] /\ stale \in [Sessions -> Nat]
  /\ preempted \in [Sessions -> Nat]
TextTypes ==
  /\ updates \in Texts /\ prompt \in Texts /\ context \in Texts
  /\ sent \in [Sessions -> 0..MaxChunks]
  /\ ended \in [Sessions -> BOOLEAN] /\ computed \in [Sessions -> BOOLEAN]

(* The constants, one by one.                                                  *)
LEMMA ConstantFacts ==
  /\ IsFiniteSet(Sessions) /\ Depth \in Nat \ {0} /\ MaxNumSeqs \in Nat \ {0}
  /\ MaxChunks \in Nat \ {0} /\ MaxPreempt \in Nat
<1>1. QED
  BY StreamingAssumption

(* The types together are TypeOK.                                               *)
LEMMA TypesAre ==
  TypeOK <=> QueueTypes /\ StepTypes /\ TextTypes /\ counter \in Nat
<1>1. QED
  BY DEF TypeOK, QueueTypes, StepTypes, TextTypes, Statuses, Texts

(* The queue is empty.                                                         *)
LEMMA NothingQueued == ToSet(<<>>) = {} /\ IsInjective(<<>>)
<1>1. QED
  BY DEF ToSet, IsInjective

-----------------------------------------------------------------------------
(* The queues.                                                                 *)
QueueInv == QueueTypes /\ QueuesOk

(* A finished session leaves its queue.                                        *)
LEMMA FinishQueues ==
  ASSUME QueueInv, NEW r \in Sessions, Finish(r)
  PROVE  QueueInv'
<1>1. /\ status' = [status EXCEPT ![r] = "FINISHED"] /\ status \in [Sessions -> Statuses]
      /\ waiting' = Without(waiting, r) /\ skipped' = Without(skipped, r)
      /\ running' = Without(running, r)
  BY DEF Finish, QueueInv, QueueTypes
<1>2. QueueTypes'
  BY <1>1, WithoutFacts DEF QueueInv, QueueTypes, Statuses
<1>3. /\ ToSet(waiting') = ToSet(waiting) \ {r} /\ ToSet(skipped') = ToSet(skipped) \ {r}
      /\ ToSet(running') = ToSet(running) \ {r}
      /\ IsInjective(waiting') /\ IsInjective(skipped') /\ IsInjective(running')
  BY <1>1, WithoutFacts DEF QueueInv, QueueTypes, QueuesOk
<1>4. QED
  BY <1>1, <1>2, <1>3 DEF QueueInv, QueuesOk, Queueing

(* A chunk for a waiting session leaves it in its queue; a first chunk queues it.   *)
LEMMA ChunkQueues ==
  ASSUME QueueInv, NEW r \in Sessions, FirstChunk(r) \/ CommenceChunk(r)
  PROVE  QueueInv'
<1>0. status \in [Sessions -> Statuses]
  BY DEF QueueInv, QueueTypes
<1>1. CASE FirstChunk(r)
  <2>1. /\ waiting' = Append(waiting, r) /\ skipped' = skipped /\ running' = running
        /\ status[r] = "NEW" /\ status' = [status EXCEPT ![r] = "WAITING"]
    BY <1>1 DEF FirstChunk
  <2>2. r \notin ToSet(waiting) /\ r \notin ToSet(skipped)
    BY <2>1 DEF QueueInv, QueuesOk, Queueing
  <2>3. /\ waiting' \in Seq(Sessions) /\ ToSet(waiting') = ToSet(waiting) \union {r}
        /\ IsInjective(waiting')
    BY <2>1, <2>2, AppendFacts DEF QueueInv, QueueTypes, QueuesOk
  <2>4. QueueTypes'
    BY <1>0, <2>1, <2>3 DEF QueueInv, QueueTypes, Statuses
  <2>5. QED
    BY <1>0, <2>1, <2>2, <2>3, <2>4 DEF QueueInv, QueuesOk, Queueing
<1>2. CASE CommenceChunk(r)
  <2>1. /\ UNCHANGED <<waiting, skipped, running>> /\ status[r] = "STREAMWAIT"
        /\ status' = [status EXCEPT ![r] = "WAITING"]
    BY <1>2 DEF CommenceChunk, UpdateSession, queues
  <2>2. QED
    BY <1>0, <2>1 DEF QueueInv, QueueTypes, Statuses, QueuesOk, Queueing
<1>3. QED
  BY <1>1, <1>2

(* Preempted sessions go from the end of the running ones to the front of the       *)
(* waiting ones.                                                               *)
LEMMA PreemptQueues ==
  ASSUME QueueInv, NEW k, NEW R, SchedulePreempting(k, R)
  PROVE  QueueInv'
<1> DEFINE m == Len(running) - k
           stay == SubSeq(running, 1, m)
           out == SubSeq(running, m + 1, Len(running))
<1>0. /\ status \in [Sessions -> Statuses] /\ running \in Seq(Sessions) /\ Len(running) \in Nat
      /\ waiting \in Seq(Sessions) /\ skipped \in Seq(Sessions)
  BY LenProperties DEF QueueInv, QueueTypes
<1>1. /\ k \in 1..Len(running) /\ running' = stay /\ waiting' = out \o waiting
      /\ skipped' = skipped
      /\ status' = [r \in Sessions |-> IF r \in ToSet(out) THEN "PREEMPTED" ELSE status[r]]
  BY DEF SchedulePreempting
<1>2. m \in 0..Len(running)
  BY <1>0, <1>1
<1>3. /\ stay \in Seq(Sessions) /\ out \in Seq(Sessions)
      /\ ToSet(running) = ToSet(stay) \union ToSet(out)
      /\ IsInjective(stay) /\ IsInjective(out) /\ ToSet(stay) \cap ToSet(out) = {}
  BY <1>0, <1>2, SplitFacts DEF QueueInv, QueuesOk
<1> HIDE DEF stay, out
<1>4. ToSet(running) \subseteq Sessions
  BY <1>0, LenProperties, ElementOfSeq DEF ToSet
<1>5. ToSet(out) \cap ToSet(waiting) = {} /\ ToSet(out) \cap ToSet(skipped) = {}
  BY <1>3, <1>4 DEF QueueInv, QueuesOk, Queueing
<1>6. /\ waiting' \in Seq(Sessions) /\ ToSet(waiting') = ToSet(out) \union ToSet(waiting)
      /\ IsInjective(waiting')
  BY <1>0, <1>1, <1>3, <1>5, ConcatFacts DEF QueueInv, QueuesOk
<1>7. QueueTypes'
  BY <1>0, <1>1, <1>3, <1>6 DEF QueueTypes, Statuses
<1>8. \A r \in Sessions : /\ r \in ToSet(out) => status[r] = "RUNNING" /\ status'[r] = "PREEMPTED"
                          /\ r \notin ToSet(out) => status'[r] = status[r]
  BY <1>1, <1>3 DEF QueueInv, QueuesOk
<1>9. /\ IsInjective(waiting') /\ IsInjective(skipped') /\ IsInjective(running')
      /\ ToSet(waiting') \cap ToSet(skipped') = {}
  BY <1>1, <1>3, <1>5, <1>6 DEF QueueInv, QueuesOk
<1>10. ASSUME NEW r \in Sessions
       PROVE  /\ r \in ToSet(running') <=> status'[r] = "RUNNING"
              /\ r \in ToSet(waiting') \union ToSet(skipped') <=> status'[r] \in Queueing
  BY <1>1, <1>3, <1>6, <1>8 DEF QueueInv, QueuesOk, Queueing
<1>11. QED
  BY <1>7, <1>9, <1>10 DEF QueueInv, QueuesOk

(* What the waiting loop admits: sessions that wait, each once.                  *)
LEMMA AdmittedFacts ==
  ASSUME QueueInv, NEW m \in Nat, m <= Len(Admissible)
  PROVE  /\ SubSeq(Admissible, 1, m) \in Seq(Sessions)
         /\ IsInjective(SubSeq(Admissible, 1, m))
         /\ ToSet(SubSeq(Admissible, 1, m)) \subseteq ToSet(waiting) \union ToSet(skipped)
         /\ \A r \in ToSet(SubSeq(Admissible, 1, m)) :
              r \in Sessions /\ status[r] \in {"WAITING", "PREEMPTED"}
         /\ Len(SubSeq(Admissible, 1, m)) = m
<1> DEFINE S == {r \in Sessions : status[r] \in {"WAITING", "PREEMPTED"} /\ stale[r] = 0}
           q == skipped \o waiting
<1>1. waiting \in Seq(Sessions) /\ skipped \in Seq(Sessions)
  BY DEF QueueInv, QueueTypes
<1>2. /\ q \in Seq(Sessions) /\ ToSet(q) = ToSet(skipped) \union ToSet(waiting)
      /\ IsInjective(q)
  BY <1>1, ConcatFacts DEF QueueInv, QueuesOk
<1>3. Admissible = Keep(q, S)
  BY DEF Admissible
<1>4. \A r \in S : r \in Sessions /\ status[r] \in {"WAITING", "PREEMPTED"}
  OBVIOUS
<1> HIDE DEF S, q
<1>5. /\ Admissible \in Seq(Sessions) /\ ToSet(Admissible) = ToSet(q) \cap S
      /\ IsInjective(Admissible)
  BY <1>2, <1>3, KeepFacts
<1>6. m \in 0..Len(Admissible) /\ Len(Admissible) \in Nat
  BY <1>5, LenProperties
<1>7. /\ SubSeq(Admissible, 1, m) \in Seq(Sessions) /\ IsInjective(SubSeq(Admissible, 1, m))
      /\ ToSet(SubSeq(Admissible, 1, m)) \subseteq ToSet(Admissible)
  BY <1>5, <1>6, SplitFacts
<1>8. Len(SubSeq(Admissible, 1, m)) = m
  <2>1. \A i \in 1..m : Admissible[i] \in Sessions
    BY <1>5, <1>6, ElementOfSeq
  <2>2. Len(SubSeq(Admissible, 1, m)) = IF 1 <= m THEN m - 1 + 1 ELSE 0
    BY <1>6, <2>1, SubSeqProperties
  <2>3. QED
    BY <2>2
<1>9. QED
  BY <1>2, <1>4, <1>5, <1>7, <1>8

(* Admitted sessions go from their queue to the end of the running ones.          *)
LEMMA AdmitQueues ==
  ASSUME QueueInv, NEW m \in Nat, NEW R, Schedule(R, m)
  PROVE  QueueInv'
<1> DEFINE new == SubSeq(Admissible, 1, m)
<1>0. /\ status \in [Sessions -> Statuses] /\ running \in Seq(Sessions)
      /\ waiting \in Seq(Sessions) /\ skipped \in Seq(Sessions)
  BY DEF QueueInv, QueueTypes
<1>1. /\ running' = running \o new
      /\ waiting' = Keep(waiting, Sessions \ ToSet(new))
      /\ skipped' = Keep(skipped, Sessions \ ToSet(new))
      /\ status' = [r \in Sessions |-> IF r \in ToSet(new) THEN "RUNNING" ELSE status[r]]
  BY DEF Schedule
<1>2. /\ new \in Seq(Sessions) /\ IsInjective(new)
      /\ \A r \in ToSet(new) : r \in Sessions /\ status[r] \in {"WAITING", "PREEMPTED"}
  BY AdmittedFacts DEF Schedule
<1> HIDE DEF new
<1>3. /\ ToSet(waiting) \subseteq Sessions /\ ToSet(skipped) \subseteq Sessions
  BY <1>0, LenProperties, ElementOfSeq DEF ToSet
<1>4. /\ waiting' \in Seq(Sessions) /\ ToSet(waiting') = ToSet(waiting) \ ToSet(new)
      /\ IsInjective(waiting')
  BY <1>0, <1>1, <1>3, KeepFacts DEF QueueInv, QueuesOk
<1>5. /\ skipped' \in Seq(Sessions) /\ ToSet(skipped') = ToSet(skipped) \ ToSet(new)
      /\ IsInjective(skipped')
  BY <1>0, <1>1, <1>3, KeepFacts DEF QueueInv, QueuesOk
<1>6. ToSet(running) \cap ToSet(new) = {}
  BY <1>2 DEF QueueInv, QueuesOk
<1>7. /\ running' \in Seq(Sessions) /\ ToSet(running') = ToSet(running) \union ToSet(new)
      /\ IsInjective(running')
  BY <1>0, <1>1, <1>2, <1>6, ConcatFacts DEF QueueInv, QueuesOk
<1>8. QueueTypes'
  BY <1>0, <1>1, <1>4, <1>5, <1>7 DEF QueueTypes, Statuses
<1>9. ASSUME NEW r \in Sessions
      PROVE  /\ r \in ToSet(running') <=> status'[r] = "RUNNING"
             /\ r \in ToSet(waiting') \union ToSet(skipped') <=> status'[r] \in Queueing
  BY <1>1, <1>4, <1>5, <1>7 DEF QueueInv, QueuesOk, Queueing
<1>10. QED
  BY <1>4, <1>5, <1>7, <1>8, <1>9 DEF QueueInv, QueuesOk

(* A session whose stop comes back runs, if there is one step in flight.          *)
LEMMA StoppedIsRunning ==
  ASSUME OneStep, NEW r \in Sessions, Drain(r), Live(r)
  PROVE  status[r] = "RUNNING"
<1>1. QED
  BY DEF OneStep, InStep, Drain, Live

(* A stopped session moves from the running ones to the end of another queue.     *)
LEMMA StopQueues ==
  ASSUME QueueInv, OneStep, NEW r \in Sessions, StopAndWait(r) \/ StopAndContinue(r)
  PROVE  QueueInv'
<1>0. /\ status \in [Sessions -> Statuses] /\ running \in Seq(Sessions)
      /\ waiting \in Seq(Sessions) /\ skipped \in Seq(Sessions)
  BY DEF QueueInv, QueueTypes
<1>1. status[r] = "RUNNING"
  BY StoppedIsRunning DEF StopAndWait, StopAndContinue
<1>2. r \notin ToSet(waiting) /\ r \notin ToSet(skipped)
  BY <1>1 DEF QueueInv, QueuesOk, Queueing
<1>3. /\ Without(running, r) \in Seq(Sessions) /\ IsInjective(Without(running, r))
      /\ ToSet(Without(running, r)) = ToSet(running) \ {r}
  BY <1>0, WithoutFacts DEF QueueInv, QueuesOk
<1>4. CASE StopAndWait(r)
  <2>1. /\ status' = [status EXCEPT ![r] = "STREAMWAIT"]
        /\ running' = Without(running, r) /\ waiting' = waiting /\ skipped' = Append(skipped, r)
    BY <1>1, <1>4 DEF StopAndWait, RemovedFrom
  <2>2. /\ skipped' \in Seq(Sessions) /\ ToSet(skipped') = ToSet(skipped) \union {r}
        /\ IsInjective(skipped')
    BY <1>0, <1>2, <2>1, AppendFacts DEF QueueInv, QueuesOk
  <2>3. QueueTypes'
    BY <1>0, <1>3, <2>1, <2>2 DEF QueueTypes, Statuses
  <2>4. QED
    BY <1>0, <1>2, <1>3, <2>1, <2>2, <2>3 DEF QueueInv, QueuesOk, Queueing
<1>5. CASE StopAndContinue(r)
  <2>1. /\ status' = [status EXCEPT ![r] = "WAITING"]
        /\ running' = Without(running, r) /\ waiting' = Append(waiting, r) /\ skipped' = skipped
    BY <1>1, <1>5 DEF StopAndContinue, RemovedFrom, TakeNext, UpdateSession
  <2>2. /\ waiting' \in Seq(Sessions) /\ ToSet(waiting') = ToSet(waiting) \union {r}
        /\ IsInjective(waiting')
    BY <1>0, <1>2, <2>1, AppendFacts DEF QueueInv, QueuesOk
  <2>3. QueueTypes'
    BY <1>0, <1>3, <2>1, <2>2 DEF QueueTypes, Statuses
  <2>4. QED
    BY <1>0, <1>2, <1>3, <2>1, <2>2, <2>3 DEF QueueInv, QueuesOk, Queueing
<1>6. QED
  BY <1>4, <1>5

(* Every step keeps the queues.                                                *)
LEMMA QueuesStep ==
  ASSUME QueueInv, OneStep, [Next]_vars
  PROVE  QueueInv'
<1>1. ASSUME UNCHANGED <<status, waiting, skipped, running>>
      PROVE  QueueInv'
  BY <1>1 DEF QueueInv, QueueTypes, QueuesOk
<1>2. CASE UNCHANGED vars
  BY <1>1, <1>2 DEF vars, queues
<1>3. ASSUME NEW r \in Sessions,
             FirstChunk(r) \/ CommenceChunk(r) \/ QueueUpdate(r) \/ EndSession(r) \/ Abort(r)
               \/ Output(r) \/ Stop(r)
      PROVE  QueueInv'
  <2>1. CASE FirstChunk(r) \/ CommenceChunk(r)
    BY <2>1, ChunkQueues
  <2>2. CASE QueueUpdate(r) \/ Output(r)
    BY <1>1, <2>2 DEF QueueUpdate, Output, queues
  <2>3. CASE EndSession(r) \/ Abort(r) \/ StopAndFinish(r)
    BY <2>3, FinishQueues DEF EndSession, Abort, StopAndFinish
  <2>4. CASE StopAndWait(r) \/ StopAndContinue(r)
    BY <2>4, StopQueues
  <2>5. QED
    BY <1>3, <2>1, <2>2, <2>3, <2>4 DEF Stop
<1>4. CASE \E k \in 1..Cardinality(Sessions), R \in SUBSET Sessions : SchedulePreempting(k, R)
  BY <1>4, PreemptQueues
<1>5. CASE \E m \in 0..Cardinality(Sessions), R \in SUBSET Sessions : Schedule(R, m)
  <2>1. PICK m \in 0..Cardinality(Sessions), R \in SUBSET Sessions : Schedule(R, m)
    BY <1>5
  <2>2. m \in Nat
    BY ConstantFacts, FS_CardinalityType
  <2>3. QED
    BY <2>1, <2>2, AdmitQueues
<1>6. CASE BeginOutput
  BY <1>1, <1>6 DEF BeginOutput, queues
<1>7. QED
  BY <1>2, <1>3, <1>4, <1>5, <1>6 DEF Next

-----------------------------------------------------------------------------
(* The seats: running and paused sessions as sets.                              *)
LEMMA SeatFacts ==
  ASSUME QueueInv
  PROVE  /\ IsFiniteSet(Paused) /\ Cardinality(Paused) \in Nat
         /\ IsFiniteSet(ToSet(running)) /\ Cardinality(ToSet(running)) = Len(running)
         /\ Len(running) \in Nat
<1>1. Paused \in SUBSET Sessions
  BY DEF Paused
<1>2. IsFiniteSet(Paused) /\ Cardinality(Paused) \in Nat
  BY <1>1, ConstantFacts, FS_Subset, FS_CardinalityType
<1>3. running \in Seq(Sessions) /\ IsInjective(running)
  BY DEF QueueInv, QueueTypes, QueuesOk
<1>4. QED
  BY <1>2, <1>3, LengthFacts, LenProperties

(* Fewer sessions run, and the same are paused, or one fewer.                    *)
LEMMA SeatsFreed ==
  ASSUME QueueInv, QueueInv', SeatsOk, ToSet(running') \subseteq ToSet(running),
         \/ Paused' = Paused /\ counter' = counter
         \/ \E r \in Paused : Paused' = Paused \ {r} /\ counter' = counter - 1
  PROVE  SeatsOk'
<1>1. /\ IsFiniteSet(Paused) /\ Cardinality(Paused) \in Nat
      /\ IsFiniteSet(ToSet(running)) /\ Cardinality(ToSet(running)) = Len(running)
      /\ Len(running) \in Nat
  BY SeatFacts
<1>2. /\ Cardinality(ToSet(running')) = Len(running') /\ Len(running') \in Nat
  <2>1. running' \in Seq(Sessions) /\ IsInjective(running')
    BY DEF QueueInv, QueueTypes, QueuesOk
  <2>2. QED
    BY <2>1, LengthFacts, LenProperties
<1>3. Len(running') <= Len(running)
  <2>1. Cardinality(ToSet(running')) <= Cardinality(ToSet(running))
    BY <1>1, FS_Subset
  <2>2. QED
    BY <1>1, <1>2, <2>1
<1>4. counter' = Cardinality(Paused') /\ counter' \in Nat /\ counter' <= counter
      /\ counter \in Nat /\ Len(running) + counter <= MaxNumSeqs
  <2>1. counter = Cardinality(Paused) /\ Len(running) + counter <= MaxNumSeqs
    BY DEF SeatsOk
  <2>2. CASE Paused' = Paused /\ counter' = counter
    BY <1>1, <2>1, <2>2
  <2>3. CASE \E r \in Paused : Paused' = Paused \ {r} /\ counter' = counter - 1
    <3>1. PICK r \in Paused : Paused' = Paused \ {r} /\ counter' = counter - 1
      BY <2>3
    <3>2. IsFiniteSet(Paused \ {r}) /\ Cardinality(Paused \ {r}) = Cardinality(Paused) - 1
      BY <1>1, <3>1, FS_RemoveElement
    <3>3. Cardinality(Paused \ {r}) \in Nat
      BY <3>2, FS_CardinalityType
    <3>4. QED
      BY <1>1, <2>1, <3>1, <3>2, <3>3
  <2>4. QED
    BY <2>2, <2>3
<1>5. QED
  BY <1>1, <1>2, <1>3, <1>4, ConstantFacts DEF SeatsOk

(* Admission takes no more seats than are free.                                 *)
LEMMA AdmitSeats ==
  ASSUME QueueInv, QueueInv', SeatsOk, NEW m \in Nat, NEW R, Schedule(R, m)
  PROVE  SeatsOk'
<1> DEFINE new == SubSeq(Admissible, 1, m)
<1>1. /\ running' = running \o new /\ counter' = counter /\ (m > 0 => m <= Seats)
      /\ status' = [r \in Sessions |-> IF r \in ToSet(new) THEN "RUNNING" ELSE status[r]]
  BY DEF Schedule
<1>2. /\ new \in Seq(Sessions) /\ Len(new) = m
      /\ \A r \in ToSet(new) : status[r] # "STREAMWAIT"
  BY AdmittedFacts DEF Schedule
<1> HIDE DEF new
<1>3. running \in Seq(Sessions)
  BY DEF QueueInv, QueueTypes
<1>4. Len(running') = Len(running) + m /\ Len(running) \in Nat
  BY <1>1, <1>2, <1>3, ConcatProperties, LenProperties
<1>5. Paused' = Paused
  BY <1>1, <1>2 DEF Paused
<1>6. counter = Cardinality(Paused) /\ Cardinality(Paused) \in Nat
      /\ Len(running) + counter <= MaxNumSeqs
  BY SeatFacts DEF SeatsOk
<1>7. counter' = Cardinality(Paused')
  BY <1>1, <1>5, <1>6
<1>8. Len(running') + counter' <= MaxNumSeqs
  BY <1>1, <1>4, <1>6, ConstantFacts DEF Seats
<1>9. QED
  BY <1>7, <1>8 DEF SeatsOk

(* A session that pauses keeps its seat.                                       *)
LEMMA PauseSeats ==
  ASSUME QueueInv, QueueInv', SeatsOk, OneStep, NEW r \in Sessions, StopAndWait(r)
  PROVE  SeatsOk'
<1>1. status[r] = "RUNNING"
  BY StoppedIsRunning DEF StopAndWait
<1>2. /\ running' = Without(running, r) /\ counter' = counter + 1
      /\ status' = [status EXCEPT ![r] = "STREAMWAIT"]
  BY <1>1 DEF StopAndWait, RemovedFrom
<1>3. status \in [Sessions -> Statuses] /\ running \in Seq(Sessions)
  BY DEF QueueInv, QueueTypes
<1>4. Paused' = Paused \union {r} /\ r \notin Paused
  BY <1>1, <1>2, <1>3 DEF Paused
<1>5. /\ IsFiniteSet(Paused) /\ Cardinality(Paused) \in Nat
      /\ IsFiniteSet(ToSet(running)) /\ Cardinality(ToSet(running)) = Len(running)
      /\ Len(running) \in Nat
  BY SeatFacts
<1>6. Cardinality(Paused \union {r}) = Cardinality(Paused) + 1
  BY <1>4, <1>5, FS_AddElement
<1>7. r \in ToSet(running) /\ ToSet(running') = ToSet(running) \ {r}
  BY <1>1, <1>2, <1>3, WithoutFacts DEF QueueInv, QueuesOk
<1>8. Cardinality(ToSet(running) \ {r}) = Cardinality(ToSet(running)) - 1
  BY <1>5, <1>7, FS_RemoveElement
<1>9. Cardinality(ToSet(running')) = Len(running')
  <2>1. running' \in Seq(Sessions) /\ IsInjective(running')
    BY DEF QueueInv, QueueTypes, QueuesOk
  <2>2. QED
    BY <2>1, LengthFacts
<1>10. Len(running') = Len(running) - 1
  BY <1>5, <1>7, <1>8, <1>9
<1>11. counter = Cardinality(Paused) /\ Len(running) + counter <= MaxNumSeqs
  BY DEF SeatsOk
<1>12. counter' = Cardinality(Paused') /\ Len(running') + counter' <= MaxNumSeqs
  BY <1>2, <1>4, <1>5, <1>6, <1>10, <1>11, ConstantFacts
<1>13. QED
  BY <1>12 DEF SeatsOk

(* Every step keeps the seats.                                                 *)
LEMMA SeatsStep ==
  ASSUME QueueInv, QueueInv', OneStep, SeatsOk, [Next]_vars
  PROVE  SeatsOk'
<1>0. status \in [Sessions -> Statuses] /\ running \in Seq(Sessions)
  BY DEF QueueInv, QueueTypes
<1>1. ASSUME UNCHANGED <<status, running, counter>>
      PROVE  SeatsOk'
  BY <1>1 DEF SeatsOk, Paused
<1>2. CASE UNCHANGED vars
  BY <1>1, <1>2 DEF vars, queues
<1>3. ASSUME NEW r \in Sessions,
             FirstChunk(r) \/ CommenceChunk(r) \/ QueueUpdate(r) \/ EndSession(r) \/ Abort(r)
               \/ Output(r) \/ Stop(r)
      PROVE  SeatsOk'
  <2>1. CASE FirstChunk(r)
    <3>1. /\ running' = running /\ counter' = counter /\ status[r] = "NEW"
          /\ status' = [status EXCEPT ![r] = "WAITING"]
      BY <2>1 DEF FirstChunk
    <3>2. Paused' = Paused
      BY <1>0, <3>1 DEF Paused
    <3>3. QED
      BY <3>1, <3>2, SeatsFreed
  <2>2. CASE CommenceChunk(r)
    <3>1. /\ running' = running /\ counter' = counter - 1 /\ status[r] = "STREAMWAIT"
          /\ status' = [status EXCEPT ![r] = "WAITING"]
      BY <2>2 DEF CommenceChunk, UpdateSession, CountWithout, queues
    <3>2. r \in Paused /\ Paused' = Paused \ {r}
      BY <1>0, <3>1 DEF Paused
    <3>3. QED
      BY <3>1, <3>2, SeatsFreed
  <2>3. CASE QueueUpdate(r) \/ Output(r)
    BY <1>1, <2>3 DEF QueueUpdate, Output, queues
  <2>4. CASE EndSession(r) \/ Abort(r)
    <3>1. /\ running' = Without(running, r) /\ counter' = CountWithout(r)
          /\ status' = [status EXCEPT ![r] = "FINISHED"]
      BY <2>4 DEF EndSession, Abort, Finish
    <3>2. ToSet(running') \subseteq ToSet(running)
      BY <1>0, <3>1, WithoutFacts
    <3>3. CASE status[r] = "STREAMWAIT"
      <4>1. r \in Paused /\ Paused' = Paused \ {r} /\ counter' = counter - 1
        BY <1>0, <3>1, <3>3 DEF Paused, CountWithout
      <4>2. QED
        BY <3>2, <4>1, SeatsFreed
    <3>4. CASE status[r] # "STREAMWAIT"
      <4>1. Paused' = Paused /\ counter' = counter
        BY <1>0, <3>1, <3>4 DEF Paused, CountWithout
      <4>2. QED
        BY <3>2, <4>1, SeatsFreed
    <3>5. QED
      BY <3>3, <3>4
  <2>5. CASE StopAndWait(r)
    BY <2>5, PauseSeats
  <2>6. CASE StopAndContinue(r) \/ StopAndFinish(r)
    <3>1. status[r] = "RUNNING"
      BY <2>6, StoppedIsRunning DEF StopAndContinue, StopAndFinish
    <3>2. /\ running' = Without(running, r) /\ counter' = counter
          /\ \/ status' = [status EXCEPT ![r] = "WAITING"]
             \/ status' = [status EXCEPT ![r] = "FINISHED"]
      BY <2>6, <3>1 DEF StopAndContinue, StopAndFinish, Finish, TakeNext, UpdateSession,
                        RemovedFrom, CountWithout
    <3>3. Paused' = Paused
      BY <1>0, <3>1, <3>2 DEF Paused
    <3>4. ToSet(running') \subseteq ToSet(running)
      BY <1>0, <3>2, WithoutFacts
    <3>5. QED
      BY <3>2, <3>3, <3>4, SeatsFreed
  <2>7. QED
    BY <1>3, <2>1, <2>2, <2>3, <2>4, <2>5, <2>6 DEF Stop
<1>4. CASE \E k \in 1..Cardinality(Sessions), R \in SUBSET Sessions : SchedulePreempting(k, R)
  <2>1. PICK k, R : SchedulePreempting(k, R)
    BY <1>4
  <2> DEFINE m == Len(running) - k
             out == SubSeq(running, m + 1, Len(running))
  <2>2. /\ k \in 1..Len(running) /\ running' = SubSeq(running, 1, m) /\ counter' = counter
        /\ status' = [r \in Sessions |-> IF r \in ToSet(out) THEN "PREEMPTED" ELSE status[r]]
    BY <2>1 DEF SchedulePreempting
  <2>3. m \in 0..Len(running)
    BY <1>0, <2>2, LenProperties
  <2>4. ToSet(running') \subseteq ToSet(running) /\ ToSet(out) \subseteq ToSet(running)
    BY <1>0, <2>2, <2>3, SplitFacts
  <2> HIDE DEF out
  <2>5. \A r \in Sessions : r \in ToSet(out) => status[r] = "RUNNING"
    BY <2>4 DEF QueueInv, QueuesOk
  <2>6. Paused' = Paused
    BY <2>2, <2>5 DEF Paused
  <2>7. QED
    BY <2>2, <2>4, <2>6, SeatsFreed
<1>5. CASE \E m \in 0..Cardinality(Sessions), R \in SUBSET Sessions : Schedule(R, m)
  <2>1. PICK m \in 0..Cardinality(Sessions), R \in SUBSET Sessions : Schedule(R, m)
    BY <1>5
  <2>2. m \in Nat
    BY ConstantFacts, FS_CardinalityType
  <2>3. QED
    BY <2>1, <2>2, AdmitSeats
<1>6. CASE BeginOutput
  BY <1>1, <1>6 DEF BeginOutput, queues
<1>7. QED
  BY <1>2, <1>3, <1>4, <1>5, <1>6 DEF Next

-----------------------------------------------------------------------------
(* The step in flight.                                                         *)
StepInv == StepTypes /\ OneStep

(* A step is dispatched when none is in flight.                                 *)
LEMMA DispatchStep ==
  ASSUME Depth = 1, StepInv, MaySchedule, NEW R \in SUBSET Sessions, InFlight(R), cur' = cur,
         \A r \in R : status'[r] = "RUNNING",
         stale' \in [Sessions -> Nat], preempted' \in [Sessions -> Nat]
  PROVE  StepInv'
<1>1. /\ flight \in Seq(SUBSET Sessions) /\ inflight \in [Sessions -> Nat]
      /\ cur = {} /\ Len(flight) < 1 /\ Len(flight) \in Nat
  BY LenProperties DEF StepInv, StepTypes, MaySchedule
<1>2. flight = <<>>
  BY <1>1, EmptySeq
<1>3. \A r \in Sessions : ~InStep(r) /\ inflight[r] = 0
  BY <1>1, <1>2 DEF StepInv, OneStep, InStep
<1>4. inflight' = [r \in Sessions |-> inflight[r] + (IF r \in R THEN 1 ELSE 0)]
  BY DEF InFlight
<1>5. /\ flight' \in Seq(SUBSET Sessions) /\ Len(flight') <= 1
      /\ \A r \in Sessions : InStep(r)' <=> r \in R
  <2>1. CASE R = {}
    BY <1>1, <1>2, <2>1 DEF InFlight, InStep
  <2>2. CASE R # {}
    <3>1. flight' = Append(flight, R)
      BY <2>2 DEF InFlight
    <3>2. /\ flight' \in Seq(SUBSET Sessions) /\ Len(flight') = Len(flight) + 1
          /\ flight'[Len(flight) + 1] = R
      BY <1>1, <3>1, AppendProperties
    <3>3. Len(flight) = 0
      BY <1>1
    <3> DEFINE f == flight'
    <3>a. f \in Seq(SUBSET Sessions) /\ Len(f) = 1 /\ f[1] = R
      BY <3>2, <3>3
    <3>b. f # <<>>
      <4>1. Len(<<>>) = 0
        BY EmptySeq
      <4> HIDE DEF f
      <4>2. QED
        BY <3>a, <4>1
    <3>4. f \in Seq(SUBSET Sessions) /\ Len(f) <= 1 /\ f[1] = R /\ f # <<>>
      <4> HIDE DEF f
      <4> QED
        BY <3>a, <3>b
    <3>5. ASSUME NEW r \in Sessions PROVE InStep(r)' <=> r \in R
      <4> DEFINE first == f[1]
      <4>1. InStep(r)' <=> r \in cur' \/ (f # <<>> /\ r \in first)
        BY DEF InStep
      <4>2. f # <<>> /\ first = R
        BY <3>4
      <4> HIDE DEF f, first
      <4>3. QED
        BY <1>1, <4>1, <4>2
    <3>6. QED
      BY <3>4, <3>5
  <2>3. QED
    BY <2>1, <2>2
<1>6. \A r \in Sessions : inflight'[r] = IF InStep(r)' THEN 1 ELSE 0
  BY <1>3, <1>4, <1>5
<1>7. inflight' \in [Sessions -> Nat]
  BY <1>1, <1>4
<1>8. StepTypes'
  BY <1>1, <1>5, <1>7 DEF StepTypes
<1>9. QED
  BY <1>1, <1>5, <1>6, <1>8 DEF StepInv, OneStep

(* The output of one session is processed.                                      *)
LEMMA DrainStep ==
  ASSUME StepInv, NEW r \in Sessions, Drain(r), flight' = flight, preempted' = preempted,
         \A q \in Sessions : q # r => status'[q] = status[q]
  PROVE  StepInv'
<1>1. /\ r \in cur /\ cur' = cur \ {r} /\ flight = <<>>
      /\ inflight' = [inflight EXCEPT ![r] = @ - 1]
      /\ inflight \in [Sessions -> Nat] /\ stale \in [Sessions -> Nat] /\ cur \subseteq Sessions
  BY DEF Drain, StepInv, OneStep, StepTypes
<1>2. \A q \in Sessions : InStep(q)' <=> InStep(q) /\ q # r
  BY <1>1 DEF InStep
<1>3. InStep(r)
  BY <1>1 DEF InStep
<1>4. \A q \in Sessions : inflight'[q] = IF InStep(q)' THEN 1 ELSE 0
  BY <1>1, <1>2, <1>3 DEF StepInv, OneStep
<1>5. inflight' \in [Sessions -> Nat]
  <2>1. inflight[r] = 1
    BY <1>3 DEF StepInv, OneStep
  <2>2. QED
    BY <1>1, <2>1
<1>6. stale' \in [Sessions -> Nat]
  <2>1. stale' = [stale EXCEPT ![r] = IF stale[r] > 0 THEN stale[r] - 1 ELSE 0]
    BY DEF Drain
  <2>2. (IF stale[r] > 0 THEN stale[r] - 1 ELSE 0) \in Nat
    BY <1>1
  <2>3. QED
    BY <1>1, <2>1, <2>2
<1>7. StepTypes'
  BY <1>1, <1>5, <1>6 DEF StepTypes, StepInv
<1>8. \A q \in Sessions : InStep(q)' => status'[q] \in {"RUNNING", "FINISHED"}
  BY <1>2 DEF StepInv, OneStep
<1>9. Len(flight') <= 1 /\ (cur' # {} => flight' = <<>>)
  BY <1>1 DEF StepInv, OneStep
<1>10. QED
  BY <1>4, <1>7, <1>8, <1>9 DEF StepInv, OneStep

(* Every step keeps at most one step in flight, of running sessions.             *)
LEMMA StepsStep ==
  ASSUME Depth = 1, QueueInv, QueueInv', StepInv, [Next]_vars
  PROVE  StepInv'
<1>0. status \in [Sessions -> Statuses] /\ running \in Seq(Sessions)
  BY DEF QueueInv, QueueTypes
<1>1. ASSUME UNCHANGED <<flight, cur, inflight, stale, preempted>>,
             \A q \in Sessions : InStep(q) => status'[q] \in {"RUNNING", "FINISHED"}
      PROVE  StepInv'
  BY <1>1 DEF StepInv, StepTypes, OneStep, InStep
<1>2. CASE UNCHANGED vars
  <2>1. UNCHANGED <<status, flight, cur, inflight, stale, preempted>>
    BY <1>2 DEF vars, steps
  <2>2. QED
    BY <1>1, <2>1 DEF StepInv, OneStep
<1>3. ASSUME NEW r \in Sessions,
             FirstChunk(r) \/ CommenceChunk(r) \/ QueueUpdate(r) \/ EndSession(r) \/ Abort(r)
               \/ Output(r) \/ Stop(r)
      PROVE  StepInv'
  <2>1. CASE FirstChunk(r) \/ CommenceChunk(r)
    <3>1. /\ UNCHANGED <<flight, cur, inflight, stale, preempted>>
          /\ status' = [status EXCEPT ![r] = "WAITING"]
          /\ status[r] \notin {"RUNNING", "FINISHED"}
      BY <2>1 DEF FirstChunk, CommenceChunk, UpdateSession, steps
    <3>2. \A q \in Sessions : InStep(q) => status'[q] \in {"RUNNING", "FINISHED"}
      BY <1>0, <3>1 DEF StepInv, OneStep
    <3>3. QED
      BY <1>1, <3>1, <3>2
  <2>2. CASE QueueUpdate(r)
    <3>1. UNCHANGED <<status, flight, cur, inflight, stale, preempted>>
      BY <2>2 DEF QueueUpdate, steps
    <3>2. QED
      BY <1>1, <3>1 DEF StepInv, OneStep
  <2>3. CASE EndSession(r) \/ Abort(r)
    <3>1. /\ UNCHANGED <<flight, cur, inflight, stale, preempted>>
          /\ status' = [status EXCEPT ![r] = "FINISHED"]
      BY <2>3 DEF EndSession, Abort, Finish, steps
    <3>2. \A q \in Sessions : InStep(q) => status'[q] \in {"RUNNING", "FINISHED"}
      BY <1>0, <3>1 DEF StepInv, OneStep
    <3>3. QED
      BY <1>1, <3>1, <3>2
  <2>4. CASE Output(r) \/ Stop(r)
    <3>1. /\ Drain(r) /\ flight' = flight /\ preempted' = preempted
          /\ \/ status' = status
             \/ status' = [status EXCEPT ![r] = "STREAMWAIT"]
             \/ status' = [status EXCEPT ![r] = "WAITING"]
             \/ status' = [status EXCEPT ![r] = "FINISHED"]
      <4>1. CASE Output(r)
        BY <4>1 DEF Output
      <4>2. CASE StopAndWait(r)
        BY <4>2 DEF StopAndWait
      <4>3. CASE StopAndContinue(r)
        BY <4>3 DEF StopAndContinue, TakeNext, UpdateSession
      <4>4. CASE StopAndFinish(r)
        BY <4>4 DEF StopAndFinish, Finish
      <4>5. QED
        BY <2>4, <4>1, <4>2, <4>3, <4>4 DEF Stop
    <3>2. \A q \in Sessions : q # r => status'[q] = status[q]
      BY <1>0, <3>1
    <3>3. QED
      BY <3>1, <3>2, DrainStep
  <2>5. QED
    BY <1>3, <2>1, <2>2, <2>3, <2>4
<1>4. ASSUME NEW k, NEW R \in SUBSET Sessions, SchedulePreempting(k, R)
      PROVE  StepInv'
  <2>1. /\ MaySchedule /\ InFlight(R) /\ cur' = cur /\ running' = SubSeq(running, 1, Len(running) - k)
        /\ R \subseteq ToSet(SubSeq(running, 1, Len(running) - k))
    BY <1>4 DEF SchedulePreempting
  <2>2. \A r \in R : status'[r] = "RUNNING"
    BY <2>1 DEF QueueInv, QueuesOk
  <2>3. stale' \in [Sessions -> Nat] /\ preempted' \in [Sessions -> Nat]
    BY <1>4 DEF SchedulePreempting, StepInv, StepTypes
  <2>4. QED
    BY <2>1, <2>2, <2>3, DispatchStep
<1>5. ASSUME NEW m \in Nat, NEW R \in SUBSET Sessions, Schedule(R, m)
      PROVE  StepInv'
  <2> DEFINE new == SubSeq(Admissible, 1, m)
             all == R \union ToSet(new)
  <2>1. /\ MaySchedule /\ InFlight(all) /\ cur' = cur /\ R \subseteq ToSet(running)
        /\ stale' = stale /\ preempted' = preempted
        /\ status' = [r \in Sessions |-> IF r \in ToSet(new) THEN "RUNNING" ELSE status[r]]
    BY <1>5 DEF Schedule
  <2>2. \A r \in ToSet(new) : r \in Sessions
    BY <1>5, AdmittedFacts DEF Schedule
  <2> HIDE DEF new
  <2>3. \A r \in all : status'[r] = "RUNNING"
    BY <1>0, <2>1, <2>2 DEF QueueInv, QueuesOk
  <2>4. all \in SUBSET Sessions
    BY <2>2
  <2>5. stale' \in [Sessions -> Nat] /\ preempted' \in [Sessions -> Nat]
    BY <2>1 DEF StepInv, StepTypes
  <2> HIDE DEF all
  <2>6. QED
    BY <2>1, <2>3, <2>4, <2>5, DispatchStep
<1>6. CASE BeginOutput
  <2>1. /\ cur = {} /\ flight # <<>> /\ cur' = Head(flight) /\ flight' = Tail(flight)
        /\ UNCHANGED <<status, inflight, stale, preempted>>
    BY <1>6 DEF BeginOutput, steps
  <2>2. /\ Tail(flight) \in Seq(SUBSET Sessions) /\ Head(flight) \in SUBSET Sessions
        /\ Head(flight) = flight[1] /\ Len(flight) \in Nat \ {0}
        /\ Len(Tail(flight)) = Len(flight) - 1
    BY <2>1, TailFacts DEF StepInv, StepTypes
  <2>3. Len(flight') = 0
    BY <2>1, <2>2 DEF StepInv, OneStep
  <2>4. flight' = <<>>
    BY <2>1, <2>2, <2>3, EmptySeq
  <2>5. \A r \in Sessions : InStep(r)' <=> InStep(r)
    BY <2>1, <2>2, <2>4 DEF InStep
  <2>6. StepTypes'
    BY <2>1, <2>2 DEF StepInv, StepTypes
  <2>7. QED
    BY <2>1, <2>3, <2>4, <2>5, <2>6 DEF StepInv, OneStep
<1>7. QED
  <2>1. \A m \in 0..Cardinality(Sessions) : m \in Nat
    BY ConstantFacts, FS_CardinalityType
  <2>2. QED
    BY <1>2, <1>3, <1>4, <1>5, <1>6, <2>1 DEF Next

-----------------------------------------------------------------------------
(* The text.                                                                   *)
TextInv == TextTypes /\ TextOk

(* The next chunk is taken.                                                    *)
LEMMA TakenChunk ==
  ASSUME NEW M \in Nat, NEW p \in Seq(0..M), NEW c \in 0..M, c = Len(p) + 1,
         \A i \in 1..Len(p) : p[i] = i
  PROVE  /\ Append(p, c) \in Seq(0..M) /\ Len(Append(p, c)) = Len(p) + 1
         /\ \A i \in 1..Len(Append(p, c)) : Append(p, c)[i] = i
<1> DEFINE t == Append(p, c)
<1>1. /\ t \in Seq(0..M) /\ Len(t) = Len(p) + 1 /\ \A i \in 1..Len(p) : t[i] = p[i]
      /\ t[Len(p) + 1] = c
  BY AppendProperties
<1>2. Len(p) \in Nat
  BY LenProperties
<1> HIDE DEF t
<1>3. \A i \in 1..Len(t) : i \in 1..Len(p) \/ i = Len(p) + 1
  BY <1>1, <1>2
<1>4. \A i \in 1..Len(t) : t[i] = i
  BY <1>1, <1>3
<1>5. QED
  BY <1>1, <1>4 DEF t

(* One more update waits: the next chunk, or the sentinel.                       *)
LEMMA QueuedChunk ==
  ASSUME NEW M \in Nat, NEW p \in Seq(0..M), NEW u \in Seq(0..M), NEW n \in 0..M,
         NEW x \in 0..M, PendingOf(p, u, n, FALSE)
  PROVE  /\ Append(u, x) \in Seq(0..M)
         /\ x = n + 1 => PendingOf(p, Append(u, x), n + 1, FALSE)
         /\ x = 0 => PendingOf(p, Append(u, x), n, TRUE)
<1> DEFINE t == Append(u, x)
           k == Len(u)
           l == Len(p)
<1>1. k \in Nat /\ l \in Nat
  BY LenProperties
<1>2. /\ t \in Seq(0..M) /\ Len(t) = k + 1 /\ \A i \in 1..k : t[i] = u[i]
      /\ t[k + 1] = x
  BY AppendProperties
<1>3. l <= n /\ k = n - l /\ \A i \in 1..k : u[i] = IF i <= n - l THEN l + i ELSE 0
  BY <1>1 DEF PendingOf
<1> HIDE DEF t, k, l
<1>4. \A i \in 1..(k + 1) : i \in 1..k \/ i = k + 1
  BY <1>1
<1>5. ASSUME x = n + 1, NEW i \in 1..(k + 1)
      PROVE  t[i] = IF i <= n + 1 - l THEN l + i ELSE 0
  BY <1>1, <1>2, <1>3, <1>4, <1>5
<1>6. ASSUME x = 0, NEW i \in 1..(k + 1)
      PROVE  t[i] = IF i <= n - l THEN l + i ELSE 0
  BY <1>1, <1>2, <1>3, <1>4, <1>6
<1>7. k + 1 = n + 1 - l + 0 /\ k + 1 = n - l + 1 /\ l <= n + 1
  BY <1>1, <1>3
<1>8. x = n + 1 => PendingOf(p, t, n + 1, FALSE)
  BY <1>2, <1>5, <1>7 DEF PendingOf, l
<1>9. x = 0 => PendingOf(p, t, n, TRUE)
  BY <1>2, <1>3, <1>6, <1>7 DEF PendingOf, l
<1>10. QED
  BY <1>2, <1>8, <1>9 DEF t

(* The first of the updates is taken: a chunk is the next one.                    *)
LEMMA TakenUpdate ==
  ASSUME NEW M \in Nat, NEW p \in Seq(0..M), NEW u \in Seq(0..M), NEW n \in 0..M,
         NEW e \in BOOLEAN, PendingOf(p, u, n, e), u # <<>>
  PROVE  /\ Head(u) \in 0..M /\ Tail(u) \in Seq(0..M)
         /\ Head(u) # 0 =>
              /\ Head(u) = Len(p) + 1
              /\ \A q \in Seq(0..M) :
                   Len(q) = Len(p) + 1 => PendingOf(q, Tail(u), n, e)
<1> DEFINE t == Tail(u)
           k == Len(u)
           l == Len(p)
           s == IF e THEN 1 ELSE 0
<1>1. k \in Nat \ {0} /\ l \in Nat /\ s \in Nat
  BY LenProperties, EmptySeq
<1>2. /\ t \in Seq(0..M) /\ Head(u) \in 0..M /\ Head(u) = u[1] /\ Len(t) = k - 1
      /\ \A i \in 1..(k - 1) : t[i] = u[i + 1]
  BY TailFacts
<1>3. l <= n /\ k = n - l + s /\ \A i \in 1..k : u[i] = IF i <= n - l THEN l + i ELSE 0
  BY DEF PendingOf
<1> HIDE DEF t, k, l, s
<1>4. ASSUME Head(u) # 0
      PROVE  Head(u) = l + 1 /\ 1 <= n - l
  BY <1>1, <1>2, <1>3, <1>4
<1>5. ASSUME Head(u) # 0, NEW q \in Seq(0..M), Len(q) = l + 1
      PROVE  PendingOf(q, t, n, e)
  <2>1. l + 1 <= n /\ k - 1 = n - (l + 1) + s
    BY <1>1, <1>3, <1>4, <1>5
  <2>2. ASSUME NEW i \in 1..(k - 1)
        PROVE  t[i] = IF i <= n - (l + 1) THEN l + 1 + i ELSE 0
    <3>1. i + 1 \in 1..k /\ t[i] = u[i + 1]
      BY <1>1, <1>2
    <3>2. u[i + 1] = IF i + 1 <= n - l THEN l + (i + 1) ELSE 0
      BY <1>3, <3>1
    <3>3. QED
      BY <1>1, <3>1, <3>2
  <2>3. QED
    BY <1>2, <1>5, <2>1, <2>2 DEF PendingOf, s
<1>6. QED
  BY <1>2, <1>4, <1>5 DEF t, l

(* A session that has taken everything takes the next chunk at once.              *)
LEMMA NothingWaits ==
  ASSUME NEW M \in Nat, NEW p \in Seq(0..M), NEW n \in 0..M, NEW e \in BOOLEAN,
         PendingOf(p, <<>>, n, e)
  PROVE  /\ n = Len(p)
         /\ \A q \in Seq(0..M) : Len(q) = Len(p) + 1 => PendingOf(q, <<>>, n + 1, e)
<1> DEFINE l == Len(p)
           s == IF e THEN 1 ELSE 0
<1>1. l \in Nat /\ s \in {0, 1} /\ Len(<<>>) = 0
  BY LenProperties, EmptySeq
<1>2. l <= n /\ 0 = n - l + s
  BY <1>1 DEF PendingOf
<1> HIDE DEF l, s
<1>3. n = l /\ s = 0
  BY <1>1, <1>2
<1>4. ASSUME NEW q \in Seq(0..M), Len(q) = l + 1
      PROVE  PendingOf(q, <<>>, n + 1, e)
  <2>1. Len(q) <= n + 1 /\ 0 = n + 1 - Len(q) + s
    BY <1>1, <1>3, <1>4
  <2>2. \A i \in 1..0 : FALSE
    OBVIOUS
  <2>3. QED
    BY <1>1, <2>1, <2>2 DEF PendingOf, s
<1>5. QED
  BY <1>3, <1>4 DEF l

(* A step that touches the text of one session keeps the others'.                 *)
LEMMA OneText ==
  ASSUME TextInv, NEW r \in Sessions,
         \A q \in Sessions : q # r =>
           /\ status'[q] = status[q] /\ computed'[q] = computed[q] /\ prompt'[q] = prompt[q]
           /\ context'[q] = context[q] /\ updates'[q] = updates[q] /\ sent'[q] = sent[q]
           /\ ended'[q] = ended[q],
         TextOf(status'[r], computed'[r], prompt'[r], context'[r], updates'[r], sent'[r],
                ended'[r])
  PROVE  TextOk'
<1>1. ASSUME NEW q \in Sessions
      PROVE  TextOf(status'[q], computed'[q], prompt'[q], context'[q], updates'[q],
                    sent'[q], ended'[q])
  <2>1. CASE q = r
    BY <2>1
  <2>2. CASE q # r
    <3>1. TextOf(status[q], computed[q], prompt[q], context[q], updates[q], sent[q], ended[q])
      BY DEF TextInv, TextOk
    <3>2. QED
      BY <2>2, <3>1
  <2>3. QED
    BY <2>1, <2>2
<1>2. QED
  BY <1>1 DEF TextOk

(* What the text of a session r is.                                             *)
LEMMA TextFacts ==
  ASSUME TextInv, NEW r \in Sessions
  PROVE  /\ prompt[r] \in Seq(0..MaxChunks) /\ updates[r] \in Seq(0..MaxChunks)
         /\ sent[r] \in 0..MaxChunks /\ ended[r] \in BOOLEAN
         /\ context[r] = prompt[r] /\ \A i \in 1..Len(prompt[r]) : prompt[r][i] = i
         /\ status[r] \in {"NEW", "STREAMWAIT"} => updates[r] = <<>>
         /\ status[r] \notin {"NEW", "FINISHED"} =>
              PendingOf(prompt[r], updates[r], sent[r], ended[r])
         /\ status[r] \in {"RUNNING", "STREAMWAIT"} => computed[r]
<1>1. TextOf(status[r], computed[r], prompt[r], context[r], updates[r], sent[r], ended[r])
  BY DEF TextInv, TextOk
<1>2. /\ prompt[r] \in Seq(0..MaxChunks) /\ updates[r] \in Seq(0..MaxChunks)
      /\ sent[r] \in 0..MaxChunks /\ ended[r] \in BOOLEAN
  BY DEF TextInv, TextTypes, Texts
<1>3. QED
  BY <1>1, <1>2 DEF TextOf

(* A session takes the next chunk: both texts grow by it.                         *)
LEMMA SessionUpdated ==
  ASSUME TextInv, NEW r \in Sessions, NEW c \in 0..MaxChunks, c = Len(prompt[r]) + 1,
         computed[r], UpdateSession(r, c)
  PROVE  /\ prompt' \in Texts /\ context' \in Texts
         /\ \A q \in Sessions : q # r => prompt'[q] = prompt[q] /\ context'[q] = context[q]
         /\ prompt'[r] \in Seq(0..MaxChunks) /\ Len(prompt'[r]) = Len(prompt[r]) + 1
         /\ context'[r] = prompt'[r] /\ \A i \in 1..Len(prompt'[r]) : prompt'[r][i] = i
<1> DEFINE p == prompt[r]
           t == Append(p, c)
<1>1. /\ p \in Seq(0..MaxChunks) /\ context[r] = p /\ \A i \in 1..Len(p) : p[i] = i
      /\ prompt \in Texts /\ context \in Texts
  BY TextFacts DEF TextInv, TextTypes
<1>2. prompt' = [prompt EXCEPT ![r] = t] /\ context' = [context EXCEPT ![r] = t]
  BY <1>1 DEF UpdateSession
<1>3. /\ t \in Seq(0..MaxChunks) /\ Len(t) = Len(p) + 1 /\ \A i \in 1..Len(t) : t[i] = i
  <2>1. c = Len(p) + 1 /\ MaxChunks \in Nat
    BY ConstantFacts
  <2> HIDE DEF p
  <2>2. QED
    BY <1>1, <2>1, TakenChunk
<1> HIDE DEF t
<1>4. /\ prompt' \in Texts /\ context' \in Texts /\ prompt'[r] = t /\ context'[r] = t
      /\ \A q \in Sessions : q # r => prompt'[q] = prompt[q] /\ context'[q] = context[q]
  BY <1>1, <1>2, <1>3 DEF Texts
<1>5. QED
  BY <1>3, <1>4

(* add_request: the first chunk of a session.                                   *)
LEMMA FirstText ==
  ASSUME TextInv, QueueTypes, NEW r \in Sessions, FirstChunk(r)
  PROVE  TextInv'
<1>1. /\ status[r] = "NEW" /\ ~ended[r] /\ sent' = [sent EXCEPT ![r] = 1]
      /\ status' = [status EXCEPT ![r] = "WAITING"]
      /\ prompt' = [prompt EXCEPT ![r] = <<1>>] /\ context' = [context EXCEPT ![r] = <<1>>]
      /\ UNCHANGED <<updates, ended, computed>>
  BY DEF FirstChunk, ClientOf
<1>2. status \in [Sessions -> Statuses] /\ TextTypes
  BY DEF QueueTypes, TextInv
<1>3. updates[r] = <<>>
  BY <1>1, TextFacts
<1>4. 1 \in 0..MaxChunks
  BY ConstantFacts
<1> DEFINE t == <<1>>
<1>5. t \in Seq(0..MaxChunks) /\ Len(t) = 1 /\ t[1] = 1
  BY <1>4
<1>6. PendingOf(t, <<>>, 1, ended[r])
  <2>1. Len(<<>>) = 0 /\ ~ended[r] /\ \A i \in 1..0 : FALSE
    BY <1>1, EmptySeq
  <2> HIDE DEF t
  <2>2. Len(t) <= 1 /\ Len(<<>>) = 1 - Len(t) + 0
    BY <1>5, <2>1
  <2>3. QED
    BY <2>1, <2>2 DEF PendingOf
<1> HIDE DEF t
<1>7. /\ status'[r] = "WAITING" /\ prompt'[r] = t /\ context'[r] = t /\ sent'[r] = 1
      /\ prompt' \in Texts /\ context' \in Texts /\ sent' \in [Sessions -> 0..MaxChunks]
      /\ \A q \in Sessions : q # r => /\ status'[q] = status[q] /\ prompt'[q] = prompt[q]
                                      /\ context'[q] = context[q] /\ sent'[q] = sent[q]
  BY <1>1, <1>2, <1>4, <1>5 DEF TextTypes, Texts, t
<1>8. TextTypes'
  <2>1. updates' \in Texts /\ ended' \in [Sessions -> BOOLEAN] /\ computed' \in [Sessions -> BOOLEAN]
    BY <1>1, <1>2 DEF TextTypes
  <2>2. QED
    BY <1>7, <2>1 DEF TextTypes
<1>9. \A i \in 1..Len(t) : t[i] = i
  BY <1>5
<1>10. TextOf("WAITING", computed[r], t, t, <<>>, 1, ended[r])
  BY <1>6, <1>9 DEF TextOf
<1>11. TextOf(status'[r], computed'[r], prompt'[r], context'[r], updates'[r], sent'[r], ended'[r])
  BY <1>1, <1>3, <1>7, <1>10
<1>12. TextOk'
  BY <1>1, <1>7, <1>11, OneText
<1>13. QED
  BY <1>8, <1>12 DEF TextInv

(* add_request: the next chunk of a session that waits for it.                   *)
LEMMA CommenceText ==
  ASSUME TextInv, QueueTypes, NEW r \in Sessions, CommenceChunk(r)
  PROVE  TextInv'
<1>1. /\ status[r] = "STREAMWAIT" /\ sent[r] < MaxChunks /\ UpdateSession(r, sent[r] + 1)
      /\ sent' = [sent EXCEPT ![r] = sent[r] + 1]
      /\ status' = [status EXCEPT ![r] = "WAITING"] /\ UNCHANGED <<updates, ended, computed>>
  BY DEF CommenceChunk, UpdateSession
<1>2. status \in [Sessions -> Statuses] /\ TextTypes
  BY DEF QueueTypes, TextInv
<1>3. /\ updates[r] = <<>> /\ computed[r] /\ PendingOf(prompt[r], <<>>, sent[r], ended[r])
      /\ prompt[r] \in Seq(0..MaxChunks) /\ sent[r] \in 0..MaxChunks /\ ended[r] \in BOOLEAN
  <2>1. PendingOf(prompt[r], updates[r], sent[r], ended[r])
    BY <1>1, TextFacts
  <2>2. QED
    BY <1>1, <2>1, TextFacts
<1>4. /\ sent[r] = Len(prompt[r])
      /\ \A q \in Seq(0..MaxChunks) : Len(q) = Len(prompt[r]) + 1
                                        => PendingOf(q, <<>>, sent[r] + 1, ended[r])
  BY <1>3, ConstantFacts, NothingWaits
<1> DEFINE c == sent[r] + 1
<1>5. c \in 0..MaxChunks /\ c = Len(prompt[r]) + 1
  BY <1>1, <1>3, <1>4, ConstantFacts
<1>a. UpdateSession(r, c)
  BY <1>1
<1> HIDE DEF c
<1>6. /\ prompt' \in Texts /\ context' \in Texts
      /\ \A q \in Sessions : q # r => prompt'[q] = prompt[q] /\ context'[q] = context[q]
      /\ prompt'[r] \in Seq(0..MaxChunks) /\ Len(prompt'[r]) = Len(prompt[r]) + 1
      /\ context'[r] = prompt'[r] /\ \A i \in 1..Len(prompt'[r]) : prompt'[r][i] = i
  BY <1>a, <1>3, <1>5, SessionUpdated
<1>7. PendingOf(prompt'[r], <<>>, c, ended[r])
  BY <1>4, <1>6 DEF c
<1>8. TextOf("WAITING", computed[r], prompt'[r], context'[r], <<>>, c, ended[r])
  BY <1>6, <1>7 DEF TextOf
<1>9. /\ status'[r] = "WAITING" /\ sent'[r] = c /\ sent' \in [Sessions -> 0..MaxChunks]
      /\ \A q \in Sessions : q # r => status'[q] = status[q] /\ sent'[q] = sent[q]
  BY <1>1, <1>2, <1>5 DEF TextTypes, c
<1>10. TextTypes'
  <2>1. updates' \in Texts /\ ended' \in [Sessions -> BOOLEAN] /\ computed' \in [Sessions -> BOOLEAN]
    BY <1>1, <1>2 DEF TextTypes
  <2>2. QED
    BY <1>6, <1>9, <2>1 DEF TextTypes
<1>11. TextOf(status'[r], computed'[r], prompt'[r], context'[r], updates'[r], sent'[r], ended'[r])
  BY <1>1, <1>3, <1>8, <1>9
<1>12. TextOk'
  BY <1>1, <1>6, <1>9, <1>11, OneText
<1>13. QED
  BY <1>10, <1>12 DEF TextInv

(* add_request: an update that waits for the model to stop.                       *)
LEMMA QueueText ==
  ASSUME TextInv, NEW r \in Sessions, QueueUpdate(r)
  PROVE  TextInv'
<1>1. /\ status[r] \in {"WAITING", "RUNNING", "PREEMPTED"} /\ ~ended[r] /\ TextTypes
      /\ UNCHANGED <<status, computed, prompt, context>>
  BY DEF QueueUpdate, ClientOf, TextInv, text
<1>2. /\ prompt[r] \in Seq(0..MaxChunks) /\ updates[r] \in Seq(0..MaxChunks)
      /\ sent[r] \in 0..MaxChunks /\ ended[r] = FALSE
      /\ context[r] = prompt[r] /\ \A i \in 1..Len(prompt[r]) : prompt[r][i] = i
      /\ status[r] = "RUNNING" => computed[r]
  BY <1>1, TextFacts
<1>3. PendingOf(prompt[r], updates[r], sent[r], FALSE)
  <2>1. PendingOf(prompt[r], updates[r], sent[r], ended[r])
    BY <1>1, TextFacts
  <2>2. QED
    BY <1>2, <2>1
<1>4. ASSUME sent[r] < MaxChunks, sent' = [sent EXCEPT ![r] = @ + 1],
             updates' = [updates EXCEPT ![r] = Append(@, sent[r] + 1)], ended' = ended
      PROVE  TextInv'
  <2> DEFINE x == sent[r] + 1
             u == Append(updates[r], x)
  <2>1. x \in 0..MaxChunks /\ 0 <= MaxChunks /\ MaxChunks \in Nat
    BY <1>2, <1>4, ConstantFacts
  <2>2. u \in Seq(0..MaxChunks) /\ PendingOf(prompt[r], u, sent[r] + 1, FALSE)
    <3>1. x = sent[r] + 1
      OBVIOUS
    <3> HIDE DEF x
    <3>2. QED
      BY <1>2, <1>3, <2>1, <3>1, QueuedChunk
  <2>3. updates' = [updates EXCEPT ![r] = u] /\ sent' = [sent EXCEPT ![r] = x]
    BY <1>4
  <2>a. PendingOf(prompt[r], u, x, FALSE)
    BY <2>2
  <2> HIDE DEF u, x
  <2>4. /\ updates' \in Texts /\ updates'[r] = u /\ sent'[r] = x
        /\ sent' \in [Sessions -> 0..MaxChunks]
        /\ \A q \in Sessions : q # r => updates'[q] = updates[q] /\ sent'[q] = sent[q]
    BY <1>1, <2>1, <2>2, <2>3 DEF TextTypes, Texts
  <2>5. TextOf(status[r], computed[r], prompt[r], context[r], u, x, FALSE)
    BY <1>1, <1>2, <2>a DEF TextOf
  <2>6. TextOf(status'[r], computed'[r], prompt'[r], context'[r], updates'[r], sent'[r], ended'[r])
    BY <1>1, <1>2, <1>4, <2>4, <2>5
  <2>7. TextOk'
    BY <1>1, <1>4, <2>4, <2>6, OneText
  <2>8. TextTypes'
    BY <1>1, <1>4, <2>4 DEF TextTypes
  <2>9. QED
    BY <2>7, <2>8 DEF TextInv
<1>5. ASSUME sent' = sent, updates' = [updates EXCEPT ![r] = Append(@, 0)],
             ended' = [ended EXCEPT ![r] = TRUE]
      PROVE  TextInv'
  <2> DEFINE u == Append(updates[r], 0)
  <2>1. 0 \in 0..MaxChunks /\ MaxChunks \in Nat
    BY ConstantFacts
  <2>2. u \in Seq(0..MaxChunks) /\ PendingOf(prompt[r], u, sent[r], TRUE)
    BY <1>2, <1>3, <2>1, QueuedChunk
  <2>3. updates' = [updates EXCEPT ![r] = u]
    BY <1>5
  <2> HIDE DEF u
  <2>4. /\ updates' \in Texts /\ updates'[r] = u
        /\ \A q \in Sessions : q # r => updates'[q] = updates[q]
    BY <1>1, <2>2, <2>3 DEF TextTypes, Texts
  <2>5. /\ ended' \in [Sessions -> BOOLEAN] /\ ended'[r] = TRUE
        /\ \A q \in Sessions : q # r => ended'[q] = ended[q]
    BY <1>1, <1>5 DEF TextTypes
  <2>6. TextOf(status[r], computed[r], prompt[r], context[r], u, sent[r], TRUE)
    BY <1>1, <1>2, <2>2 DEF TextOf
  <2>7. TextOf(status'[r], computed'[r], prompt'[r], context'[r], updates'[r], sent'[r], ended'[r])
    BY <1>1, <1>5, <2>4, <2>5, <2>6
  <2>8. TextOk'
    BY <1>1, <1>5, <2>4, <2>5, <2>7, OneText
  <2>9. TextTypes'
    BY <1>1, <1>5, <2>4, <2>5 DEF TextTypes
  <2>10. QED
    BY <2>8, <2>9 DEF TextInv
<1>6. QED
  BY <1>4, <1>5 DEF QueueUpdate

(* A finished session keeps its text, whatever becomes of its updates.            *)
LEMMA FinishText ==
  ASSUME TextInv, QueueTypes, NEW r \in Sessions, Finish(r), computed' = computed,
         sent' = sent, updates' \in Texts, ended' \in [Sessions -> BOOLEAN],
         \A q \in Sessions : q # r => updates'[q] = updates[q] /\ ended'[q] = ended[q]
  PROVE  TextInv'
<1>1. /\ status' = [status EXCEPT ![r] = "FINISHED"] /\ prompt' = prompt /\ context' = context
      /\ status \in [Sessions -> Statuses] /\ TextTypes
  BY DEF Finish, text, QueueTypes, TextInv
<1>2. /\ status'[r] = "FINISHED" /\ \A q \in Sessions : q # r => status'[q] = status[q]
  BY <1>1
<1>3. context[r] = prompt[r] /\ \A i \in 1..Len(prompt[r]) : prompt[r][i] = i
  BY TextFacts
<1>4. TextOf("FINISHED", computed'[r], prompt[r], context[r], updates'[r], sent'[r], ended'[r])
  BY <1>3 DEF TextOf
<1>5. TextOf(status'[r], computed'[r], prompt'[r], context'[r], updates'[r], sent'[r], ended'[r])
  BY <1>1, <1>2, <1>4
<1>6. TextOk'
  BY <1>1, <1>2, <1>5, OneText
<1>7. TextTypes'
  BY <1>1 DEF TextTypes
<1>8. QED
  BY <1>6, <1>7 DEF TextInv

(* _handle_stopped_request.                                                     *)
LEMMA StopText ==
  ASSUME TextInv, QueueInv, OneStep, NEW r \in Sessions, Stop(r)
  PROVE  TextInv'
<1>0. TextTypes /\ status \in [Sessions -> Statuses] /\ QueueTypes
  BY DEF TextInv, QueueInv, QueueTypes
<1>1. CASE StopAndWait(r)
  <2>1. /\ Drain(r) /\ Live(r) /\ updates[r] = <<>>
        /\ status' = [status EXCEPT ![r] = "STREAMWAIT"]
        /\ UNCHANGED <<updates, sent, ended, prompt, context, computed>>
    BY <1>1 DEF StopAndWait, client, text
  <2>2. status[r] = "RUNNING"
    BY <2>1, StoppedIsRunning
  <2>3. /\ context[r] = prompt[r] /\ \A i \in 1..Len(prompt[r]) : prompt[r][i] = i
        /\ PendingOf(prompt[r], updates[r], sent[r], ended[r]) /\ computed[r]
    BY <2>2, TextFacts
  <2>4. TextOf("STREAMWAIT", computed[r], prompt[r], context[r], updates[r], sent[r], ended[r])
    BY <2>1, <2>3 DEF TextOf
  <2>5. status'[r] = "STREAMWAIT" /\ \A q \in Sessions : q # r => status'[q] = status[q]
    BY <1>0, <2>1
  <2>6. TextOf(status'[r], computed'[r], prompt'[r], context'[r], updates'[r], sent'[r], ended'[r])
    BY <2>1, <2>4, <2>5
  <2>7. TextOk'
    BY <2>1, <2>5, <2>6, OneText
  <2>8. TextTypes'
    BY <1>0, <2>1 DEF TextTypes
  <2>9. QED
    BY <2>7, <2>8 DEF TextInv
<1>2. CASE StopAndContinue(r)
  <2>1. /\ Drain(r) /\ Live(r) /\ updates[r] # <<>> /\ Head(updates[r]) # 0
        /\ UpdateSession(r, Head(updates[r]))
        /\ updates' = [updates EXCEPT ![r] = Tail(updates[r])]
        /\ status' = [status EXCEPT ![r] = "WAITING"] /\ UNCHANGED <<sent, ended, computed>>
    BY <1>2 DEF StopAndContinue, TakeNext, UpdateSession, client
  <2>2. status[r] = "RUNNING"
    BY <2>1, StoppedIsRunning
  <2>3. /\ PendingOf(prompt[r], updates[r], sent[r], ended[r]) /\ computed[r]
        /\ prompt[r] \in Seq(0..MaxChunks) /\ updates[r] \in Seq(0..MaxChunks)
        /\ sent[r] \in 0..MaxChunks /\ ended[r] \in BOOLEAN
    BY <2>2, TextFacts
  <2> DEFINE c == Head(updates[r])
             u == Tail(updates[r])
  <2>4. /\ c \in 0..MaxChunks /\ u \in Seq(0..MaxChunks) /\ c = Len(prompt[r]) + 1
        /\ \A q \in Seq(0..MaxChunks) : Len(q) = Len(prompt[r]) + 1
                                          => PendingOf(q, u, sent[r], ended[r])
    <3> DEFINE p == prompt[r]
               v == updates[r]
               n == sent[r]
               e == ended[r]
    <3>1. /\ p \in Seq(0..MaxChunks) /\ v \in Seq(0..MaxChunks) /\ n \in 0..MaxChunks
          /\ e \in BOOLEAN /\ PendingOf(p, v, n, e) /\ v # <<>> /\ Head(v) # 0
          /\ MaxChunks \in Nat
      BY <2>1, <2>3, ConstantFacts
    <3> HIDE DEF p, v, n, e
    <3>2. /\ Head(v) \in 0..MaxChunks /\ Tail(v) \in Seq(0..MaxChunks)
          /\ Head(v) = Len(p) + 1
          /\ \A q \in Seq(0..MaxChunks) :
               Len(q) = Len(p) + 1 => PendingOf(q, Tail(v), n, e)
      BY <3>1, TakenUpdate
    <3>3. QED
      BY <3>2 DEF p, v, n, e
  <2>a. UpdateSession(r, c) /\ updates' = [updates EXCEPT ![r] = u]
    BY <2>1
  <2> HIDE DEF c, u
  <2>5. /\ prompt' \in Texts /\ context' \in Texts
        /\ \A q \in Sessions : q # r => prompt'[q] = prompt[q] /\ context'[q] = context[q]
        /\ prompt'[r] \in Seq(0..MaxChunks) /\ Len(prompt'[r]) = Len(prompt[r]) + 1
        /\ context'[r] = prompt'[r] /\ \A i \in 1..Len(prompt'[r]) : prompt'[r][i] = i
    BY <2>a, <2>3, <2>4, SessionUpdated
  <2>6. PendingOf(prompt'[r], u, sent[r], ended[r])
    BY <2>4, <2>5
  <2>7. TextOf("WAITING", computed[r], prompt'[r], context'[r], u, sent[r], ended[r])
    BY <2>5, <2>6 DEF TextOf
  <2>8. /\ status'[r] = "WAITING" /\ updates'[r] = u /\ updates' \in Texts
        /\ \A q \in Sessions : q # r => status'[q] = status[q] /\ updates'[q] = updates[q]
    BY <1>0, <2>1, <2>a, <2>4 DEF TextTypes, Texts
  <2>9. TextOf(status'[r], computed'[r], prompt'[r], context'[r], updates'[r], sent'[r], ended'[r])
    BY <2>1, <2>7, <2>8
  <2>10. TextOk'
    BY <2>1, <2>5, <2>8, <2>9, OneText
  <2>11. TextTypes'
    <3>1. /\ sent' \in [Sessions -> 0..MaxChunks] /\ ended' \in [Sessions -> BOOLEAN]
          /\ computed' \in [Sessions -> BOOLEAN]
      BY <1>0, <2>1 DEF TextTypes
    <3>2. QED
      BY <2>5, <2>8, <3>1 DEF TextTypes
  <2>12. QED
    BY <2>10, <2>11 DEF TextInv
<1>3. CASE StopAndFinish(r)
  <2>1. /\ Finish(r) /\ updates[r] # <<>> /\ updates' = [updates EXCEPT ![r] = Tail(updates[r])]
        /\ UNCHANGED <<sent, ended, computed>>
    BY <1>3 DEF StopAndFinish, client
  <2>2. Tail(updates[r]) \in Seq(0..MaxChunks)
    BY <2>1, TextFacts, TailFacts
  <2>3. updates' \in Texts /\ \A q \in Sessions : q # r => updates'[q] = updates[q]
    BY <1>0, <2>1, <2>2 DEF TextTypes, Texts
  <2>4. ended' \in [Sessions -> BOOLEAN] /\ \A q \in Sessions : q # r => ended'[q] = ended[q]
    BY <1>0, <2>1 DEF TextTypes
  <2>5. QED
    BY <1>0, <2>1, <2>3, <2>4, FinishText
<1>4. QED
  BY <1>1, <1>2, <1>3 DEF Stop

(* schedule() preempts the last sessions: nothing of theirs is computed any more.   *)
LEMMA PreemptText ==
  ASSUME TextInv, QueueInv, NEW k, NEW R, SchedulePreempting(k, R)
  PROVE  TextInv'
<1> DEFINE m == Len(running) - k
           out == ToSet(SubSeq(running, m + 1, Len(running)))
<1>1. /\ k \in 1..Len(running)
      /\ status' = [r \in Sessions |-> IF r \in out THEN "PREEMPTED" ELSE status[r]]
      /\ computed' = [r \in Sessions |-> computed[r] /\ r \notin out]
      /\ UNCHANGED <<updates, sent, ended, prompt, context>>
  BY DEF SchedulePreempting, client, text
<1>2. running \in Seq(Sessions) /\ status \in [Sessions -> Statuses] /\ TextTypes
  BY DEF QueueInv, QueueTypes, TextInv
<1>3. m \in 0..Len(running)
  BY <1>1, <1>2, LenProperties
<1>4. out \subseteq ToSet(running)
  BY <1>2, <1>3, SplitFacts
<1> HIDE DEF out
<1>5. ASSUME NEW r \in Sessions
      PROVE  TextOf(status'[r], computed'[r], prompt[r], context[r], updates[r], sent[r], ended[r])
  <2>1. TextOf(status[r], computed[r], prompt[r], context[r], updates[r], sent[r], ended[r])
    BY DEF TextInv, TextOk
  <2>2. CASE r \in out
    <3>1. status[r] = "RUNNING" /\ status'[r] = "PREEMPTED"
      BY <1>1, <1>4, <2>2 DEF QueueInv, QueuesOk
    <3>2. /\ context[r] = prompt[r] /\ \A i \in 1..Len(prompt[r]) : prompt[r][i] = i
          /\ PendingOf(prompt[r], updates[r], sent[r], ended[r])
      BY <3>1, TextFacts
    <3>3. TextOf("PREEMPTED", computed'[r], prompt[r], context[r], updates[r], sent[r], ended[r])
      BY <3>2 DEF TextOf
    <3>4. QED
      BY <3>1, <3>3
  <2>3. CASE r \notin out
    <3>1. status'[r] = status[r] /\ computed[r] \in BOOLEAN
      BY <1>1, <1>2, <2>3 DEF TextTypes
    <3>2. computed'[r] = (computed[r] /\ TRUE)
      BY <1>1, <2>3
    <3>3. computed'[r] = computed[r]
      BY <3>1, <3>2
    <3>4. QED
      BY <2>1, <3>1, <3>3
  <2>4. QED
    BY <2>2, <2>3
<1>6. TextOk'
  BY <1>1, <1>5 DEF TextOk
<1>7. computed' \in [Sessions -> BOOLEAN]
  BY <1>1
<1>8. TextTypes'
  BY <1>1, <1>2, <1>7 DEF TextTypes
<1>9. QED
  BY <1>6, <1>8 DEF TextInv

(* schedule() admits sessions: all they have is computed.                         *)
LEMMA AdmitText ==
  ASSUME TextInv, QueueInv, NEW m \in Nat, NEW R, Schedule(R, m)
  PROVE  TextInv'
<1> DEFINE new == SubSeq(Admissible, 1, m)
<1>1. /\ m <= Len(Admissible)
      /\ status' = [r \in Sessions |-> IF r \in ToSet(new) THEN "RUNNING" ELSE status[r]]
      /\ computed' = [r \in Sessions |-> computed[r] \/ r \in ToSet(new)]
      /\ UNCHANGED <<updates, sent, ended, prompt, context>>
  BY DEF Schedule, client, text
<1>2. status \in [Sessions -> Statuses] /\ TextTypes
  BY DEF QueueInv, QueueTypes, TextInv
<1>3. \A r \in ToSet(new) : r \in Sessions /\ status[r] \in {"WAITING", "PREEMPTED"}
  BY <1>1, AdmittedFacts
<1> HIDE DEF new
<1>4. ASSUME NEW r \in Sessions
      PROVE  TextOf(status'[r], computed'[r], prompt[r], context[r], updates[r], sent[r], ended[r])
  <2>1. TextOf(status[r], computed[r], prompt[r], context[r], updates[r], sent[r], ended[r])
    BY DEF TextInv, TextOk
  <2>2. CASE r \in ToSet(new)
    <3>1. status[r] \in {"WAITING", "PREEMPTED"} /\ status'[r] = "RUNNING"
      BY <1>1, <1>3, <2>2
    <3>2. /\ context[r] = prompt[r] /\ \A i \in 1..Len(prompt[r]) : prompt[r][i] = i
          /\ PendingOf(prompt[r], updates[r], sent[r], ended[r])
      BY <3>1, TextFacts
    <3>3. computed'[r]
      BY <1>1, <2>2
    <3>4. TextOf("RUNNING", computed'[r], prompt[r], context[r], updates[r], sent[r], ended[r])
      BY <3>2, <3>3 DEF TextOf
    <3>5. QED
      BY <3>1, <3>4
  <2>3. CASE r \notin ToSet(new)
    <3>1. status'[r] = status[r] /\ computed[r] \in BOOLEAN
      BY <1>1, <1>2, <2>3 DEF TextTypes
    <3>2. computed'[r] = (computed[r] \/ FALSE)
      BY <1>1, <2>3
    <3>3. computed'[r] = computed[r]
      BY <3>1, <3>2
    <3>4. QED
      BY <2>1, <3>1, <3>3
  <2>4. QED
    BY <2>2, <2>3
<1>5. TextOk'
  BY <1>1, <1>4 DEF TextOk
<1>6. computed' \in [Sessions -> BOOLEAN]
  BY <1>1
<1>7. TextTypes'
  BY <1>1, <1>2, <1>6 DEF TextTypes
<1>8. QED
  BY <1>5, <1>7 DEF TextInv

(* Every step keeps every session's text.                                       *)
LEMMA TextStep ==
  ASSUME TextInv, QueueInv, OneStep, [Next]_vars
  PROVE  TextInv'
<1>0. QueueTypes
  BY DEF QueueInv
<1>1. ASSUME UNCHANGED <<status, updates, sent, ended, prompt, context, computed>>
      PROVE  TextInv'
  BY <1>1 DEF TextInv, TextTypes, TextOk
<1>2. CASE UNCHANGED vars
  BY <1>1, <1>2 DEF vars, client, text
<1>3. ASSUME NEW r \in Sessions,
             FirstChunk(r) \/ CommenceChunk(r) \/ QueueUpdate(r) \/ EndSession(r) \/ Abort(r)
               \/ Output(r) \/ Stop(r)
      PROVE  TextInv'
  <2>1. CASE FirstChunk(r)
    BY <1>0, <2>1, FirstText
  <2>2. CASE CommenceChunk(r)
    BY <1>0, <2>2, CommenceText
  <2>3. CASE QueueUpdate(r)
    BY <2>3, QueueText
  <2>4. CASE EndSession(r) \/ Abort(r)
    <3>1. /\ Finish(r) /\ ended' = [ended EXCEPT ![r] = TRUE]
          /\ UNCHANGED <<updates, sent, computed>>
      BY <2>4 DEF EndSession, Abort
    <3>2. TextTypes
      BY DEF TextInv
    <3>3. /\ ended' \in [Sessions -> BOOLEAN]
          /\ \A q \in Sessions : q # r => ended'[q] = ended[q]
      BY <3>1, <3>2 DEF TextTypes
    <3>4. updates' \in Texts /\ \A q \in Sessions : updates'[q] = updates[q]
      BY <3>1, <3>2 DEF TextTypes
    <3>5. QED
      BY <1>0, <3>1, <3>3, <3>4, FinishText
  <2>5. CASE Output(r)
    BY <1>1, <2>5 DEF Output, client, text
  <2>6. CASE Stop(r)
    BY <2>6, StopText
  <2>7. QED
    BY <1>3, <2>1, <2>2, <2>3, <2>4, <2>5, <2>6
<1>4. CASE \E k \in 1..Cardinality(Sessions), R \in SUBSET Sessions : SchedulePreempting(k, R)
  BY <1>4, PreemptText
<1>5. CASE \E m \in 0..Cardinality(Sessions), R \in SUBSET Sessions : Schedule(R, m)
  <2>1. PICK m \in 0..Cardinality(Sessions), R \in SUBSET Sessions : Schedule(R, m)
    BY <1>5
  <2>2. m \in Nat
    BY ConstantFacts, FS_CardinalityType
  <2>3. QED
    BY <2>1, <2>2, AdmitText
<1>6. CASE BeginOutput
  BY <1>1, <1>6 DEF BeginOutput, client, text
<1>7. QED
  BY <1>2, <1>3, <1>4, <1>5, <1>6 DEF Next

-----------------------------------------------------------------------------
(* The invariant, in the parts its steps need.                                  *)
LEMMA SessionParts ==
  SessionInv <=> QueueInv /\ StepInv /\ TextInv /\ SeatsOk
<1>1. QueueTypes => (SeatsOk => counter \in Nat)
  <2>1. IsFiniteSet(Paused)
    BY ConstantFacts, FS_Subset DEF Paused
  <2>2. QED
    BY <2>1, FS_CardinalityType DEF SeatsOk
<1>2. QED
  BY <1>1, TypesAre DEF SessionInv, QueueInv, StepInv, TextInv

(* Initially there are no sessions.                                             *)
LEMMA SessionsInit == Init => SessionInv
<1> SUFFICES ASSUME Init PROVE QueueInv /\ StepInv /\ TextInv /\ SeatsOk
  BY SessionParts
<1>1. /\ <<>> \in Seq(Sessions) /\ <<>> \in Seq(0..MaxChunks) /\ <<>> \in Seq(SUBSET Sessions)
      /\ Len(<<>>) = 0 /\ 0 \in 0..MaxChunks
  BY EmptySeq, ConstantFacts
<1>2. QueueInv
  <2>1. QueueTypes
    BY <1>1 DEF Init, QueueTypes, Statuses
  <2>2. /\ waiting = <<>> /\ skipped = <<>> /\ running = <<>>
        /\ \A r \in Sessions : status[r] = "NEW"
    BY DEF Init
  <2>3. QueuesOk
    BY <2>2, NothingQueued DEF QueuesOk, Queueing
  <2>4. QED
    BY <2>1, <2>3 DEF QueueInv
<1>3. StepInv
  <2>1. /\ flight = <<>> /\ cur = {} /\ \A r \in Sessions : inflight[r] = 0
    BY DEF Init
  <2>2. \A r \in Sessions : ~InStep(r)
    BY <2>1 DEF InStep
  <2>3. OneStep
    BY <1>1, <2>1, <2>2 DEF OneStep
  <2>4. StepTypes
    BY <1>1 DEF Init, StepTypes
  <2>5. QED
    BY <2>3, <2>4 DEF StepInv
<1>4. TextInv
  <2>1. TextTypes
    BY <1>1 DEF Init, TextTypes, Texts
  <2>2. ASSUME NEW r \in Sessions
        PROVE  /\ status[r] = "NEW" /\ prompt[r] = <<>> /\ context[r] = <<>> /\ updates[r] = <<>>
    BY DEF Init
  <2>3. ASSUME NEW d, NEW n, NEW e
        PROVE  TextOf("NEW", d, <<>>, <<>>, <<>>, n, e)
    <3>1. \A i \in 1..Len(<<>>) : FALSE
      BY <1>1
    <3>2. QED
      BY <3>1 DEF TextOf
  <2>4. TextOk
    BY <2>2, <2>3 DEF TextOk
  <2>5. QED
    BY <2>1, <2>4 DEF TextInv
<1>5. SeatsOk
  <2>1. Paused = {}
    BY DEF Init, Paused
  <2>2. Len(running) = 0 /\ counter = 0
    BY <1>1 DEF Init
  <2>3. QED
    BY <2>1, <2>2, FS_EmptySet, ConstantFacts DEF SeatsOk
<1>6. QED
  BY <1>2, <1>3, <1>4, <1>5

(* With one step in flight every session is in the queue of its status, once, its    *)
(* seat is counted while it waits for its next chunk, and its text is complete and   *)
(* in order: whatever the sessions, the seats and the chunks.                     *)
THEOREM SessionInvariant ==
  ASSUME Depth = 1
  PROVE  Spec => []SessionInv
<1>1. SessionInv /\ [Next]_vars => SessionInv'
  <2> SUFFICES ASSUME SessionInv, [Next]_vars PROVE SessionInv'
    OBVIOUS
  <2>1. QueueInv /\ StepInv /\ TextInv /\ SeatsOk /\ OneStep
    BY SessionParts DEF StepInv
  <2>2. QueueInv'
    BY <2>1, QueuesStep
  <2>3. StepInv'
    BY <2>1, <2>2, StepsStep
  <2>4. TextInv'
    BY <2>1, TextStep
  <2>5. SeatsOk'
    BY <2>1, <2>2, SeatsStep
  <2>6. (SessionInv <=> QueueInv /\ StepInv /\ TextInv /\ SeatsOk)'
    BY SessionParts, PTL
  <2>7. QED
    BY <2>2, <2>3, <2>4, <2>5, <2>6
<1>2. QED
  BY <1>1, SessionsInit, PTL DEF Spec

(* With one step in flight every variable keeps its type; that the counter of the    *)
(* waiting sessions never goes below zero is part of it.                           *)
THEOREM TypeCorrect ==
  ASSUME Depth = 1
  PROVE  Spec => []TypeOK
<1>1. SessionInv => TypeOK
  BY DEF SessionInv
<1>2. QED
  BY <1>1, SessionInvariant, PTL

(* The three queues together hold each live session once.                          *)
LEMMA QueuedTogether ==
  ASSUME QueueInv
  PROVE  /\ waiting \o skipped \o running \in Seq(Sessions)
         /\ IsInjective(waiting \o skipped \o running)
         /\ \A r \in Sessions : r \in ToSet(waiting \o skipped \o running) <=> Live(r)
         /\ Len(waiting \o skipped \o running) = Len(waiting) + Len(skipped) + Len(running)
         /\ ToSet(waiting \o skipped \o running) \subseteq Sessions
<1>0. /\ waiting \in Seq(Sessions) /\ skipped \in Seq(Sessions) /\ running \in Seq(Sessions)
      /\ status \in [Sessions -> Statuses]
  BY DEF QueueInv, QueueTypes
<1> DEFINE w == waiting \o skipped
<1>1. /\ w \in Seq(Sessions) /\ ToSet(w) = ToSet(waiting) \union ToSet(skipped)
      /\ IsInjective(w) /\ Len(w) = Len(waiting) + Len(skipped)
  BY <1>0, ConcatFacts, ConcatProperties DEF QueueInv, QueuesOk
<1> HIDE DEF w
<1>2. ToSet(w) \cap ToSet(running) = {}
  <2>1. ASSUME NEW r, r \in ToSet(w), r \in ToSet(running) PROVE FALSE
    <3>1. r \in Sessions
      BY <1>0, <2>1, LenProperties, ElementOfSeq DEF ToSet
    <3>2. QED
      BY <1>1, <2>1, <3>1 DEF QueueInv, QueuesOk, Queueing
  <2>2. QED
    BY <2>1
<1> DEFINE q == w \o running
<1>3. /\ q \in Seq(Sessions) /\ IsInjective(q) /\ ToSet(q) = ToSet(w) \union ToSet(running)
      /\ Len(q) = Len(w) + Len(running)
  <2>1. IsInjective(running)
    BY DEF QueueInv, QueuesOk
  <2>2. Len(w \o running) = Len(w) + Len(running)
    BY <1>0, <1>1, ConcatProperties
  <2>3. /\ w \o running \in Seq(Sessions)
        /\ ToSet(w \o running) = ToSet(w) \union ToSet(running)
        /\ IsInjective(w \o running)
    BY <1>0, <1>1, <1>2, <2>1, ConcatFacts
  <2>4. QED
    BY <2>2, <2>3
<1> HIDE DEF q
<1>4. \A r \in Sessions : r \in ToSet(q) <=> Live(r)
  BY <1>0, <1>1, <1>3 DEF QueueInv, QueuesOk, Queueing, Live, Statuses
<1>5. ToSet(q) \subseteq Sessions
  BY <1>3, LenProperties, ElementOfSeq DEF ToSet
<1>6. QED
  BY <1>1, <1>3, <1>4, <1>5 DEF q, w

(* With one step in flight a live session is always in exactly one of the            *)
(* scheduler's queues, once, through stops, preemptions and aborts.                *)
THEOREM SessionsAlwaysQueued ==
  ASSUME Depth = 1
  PROVE  Spec => []SessionQueued
<1>1. SessionInv => SessionQueued
  <2> SUFFICES ASSUME QueueInv, NEW r \in Sessions, Live(r)
               PROVE  Len(Keep(waiting \o skipped \o running, {r})) = 1
    BY SessionParts DEF SessionQueued
  <2> DEFINE q == waiting \o skipped \o running
             one == Keep(q, {r})
  <2>1. q \in Seq(Sessions) /\ IsInjective(q) /\ r \in ToSet(q)
    BY QueuedTogether
  <2> HIDE DEF q
  <2>2. one \in Seq(Sessions) /\ IsInjective(one) /\ ToSet(one) = {r}
    BY <2>1, KeepFacts
  <2> HIDE DEF one
  <2>3. Cardinality({r}) = Len(one)
    BY <2>2, LengthFacts
  <2>4. QED
    BY <2>3, FS_Singleton DEF one, q
<1>2. QED
  BY <1>1, SessionInvariant, PTL

(* With one step in flight the number that keeps the engine loop awake is that of     *)
(* the sessions with something to compute, and running and waiting sessions never   *)
(* take more seats than there are.                                              *)
THEOREM EngineAlwaysSeesWork ==
  ASSUME Depth = 1
  PROVE  Spec => []EngineSeesWork
<1>1. SessionInv => EngineSeesWork
  <2> SUFFICES ASSUME QueueInv, SeatsOk PROVE EngineSeesWork
    BY SessionParts
  <2> DEFINE q == waiting \o skipped \o running
             busy == {r \in Sessions : status[r] \in {"WAITING", "RUNNING", "PREEMPTED"}}
  <2>1. /\ q \in Seq(Sessions) /\ IsInjective(q) /\ ToSet(q) \subseteq Sessions
        /\ \A r \in Sessions : r \in ToSet(q) <=> Live(r)
        /\ Len(q) = Len(waiting) + Len(skipped) + Len(running)
    BY QueuedTogether
  <2>2. Len(waiting) \in Nat /\ Len(skipped) \in Nat /\ Len(running) \in Nat
    BY LenProperties DEF QueueInv, QueueTypes
  <2> HIDE DEF q
  <2>3. ToSet(q) = busy \union Paused /\ busy \cap Paused = {}
    BY <2>1 DEF Paused, Live, QueueInv, QueueTypes, Statuses
  <2>4. IsFiniteSet(busy) /\ IsFiniteSet(Paused)
    BY ConstantFacts, FS_Subset DEF Paused
  <2>5. Cardinality(ToSet(q)) = Len(q)
    BY <2>1, LengthFacts
  <2> DEFINE b == Cardinality(busy)
             p == Cardinality(Paused)
  <2>6. Cardinality(busy \union Paused) = b + p - Cardinality(busy \cap Paused)
    BY <2>4, FS_Union
  <2>7. b \in Nat /\ p \in Nat /\ Cardinality({}) = 0
    BY <2>4, FS_CardinalityType, FS_EmptySet
  <2>8. Len(q) = b + p
    <3>1. Cardinality(ToSet(q)) = b + p - Cardinality({})
      <4> HIDE DEF b, p, busy
      <4> QED
        BY <2>3, <2>6
    <3> HIDE DEF b, p
    <3>2. QED
      BY <2>5, <2>7, <3>1
  <2>9. counter = p /\ Len(running) + counter <= MaxNumSeqs
    BY DEF SeatsOk
  <2>10. NumUnfinished = b
    <3> HIDE DEF b, p
    <3> QED
      BY <2>1, <2>2, <2>7, <2>8, <2>9 DEF NumUnfinished
  <2>11. QED
    BY <2>9, <2>10 DEF EngineSeesWork
<1>2. QED
  BY <1>1, SessionInvariant, PTL

(* With one step in flight a session keeps its whole text: the chunks it has taken,   *)
(* in the order they were sent, in its prompt and in the tokens to compute.        *)
THEOREM ContextAlwaysKept ==
  ASSUME Depth = 1
  PROVE  Spec => []ContextKept
<1>1. SessionInv => ContextKept
  <2> SUFFICES ASSUME TextInv, NEW r \in Sessions
               PROVE  context[r] = prompt[r] /\ prompt[r] = [i \in 1..Len(prompt[r]) |-> i]
    BY SessionParts DEF ContextKept
  <2> DEFINE p == prompt[r]
  <2>1. p \in Seq(0..MaxChunks) /\ context[r] = p /\ \A i \in 1..Len(p) : p[i] = i
    BY TextFacts
  <2> HIDE DEF p
  <2>2. p = [i \in 1..Len(p) |-> p[i]]
    BY <2>1, LenProperties
  <2>3. p = [i \in 1..Len(p) |-> i]
    BY <2>1, <2>2
  <2>4. QED
    BY <2>1, <2>3 DEF p
<1>2. QED
  BY <1>1, SessionInvariant, PTL
=============================================================================

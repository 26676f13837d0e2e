-------------------------- MODULE BlockFence_proofs --------------------------
(***************************************************************************)
(* Proofs about BlockFence for every set of requests and blocks, every      *)
(* pipeline depth and every bound.                                          *)
(***************************************************************************)
EXTENDS BlockFence, SequenceTheorems, TLAPS

(* Every block a step in flight may write is still held for that step: by   *)
(* the request that wrote it, whose last step is that one or a later one,   *)
(* or by a deferred entry fenced at that step or later.                     *)
WriterOrFence(r, b, seq) ==
  \/ b \in blocks[r] /\ lastSeq[r] >= seq
  \/ \E i \in DOMAIN deferred : b \in deferred[i].blocks /\ deferred[i].fence >= seq

WritesGuarded ==
  \A j \in DOMAIN flight : \A r \in Requests : \A b \in flight[j][r] :
    WriterOrFence(r, b, processedSeq + j)

(* The head of the FIFO is always pending, no fence is later than the next   *)
(* step, and the last step of a request is not in the future.               *)
FencesInWindow ==
  /\ deferred # <<>> => deferred[1].fence > processedSeq
  /\ \A i \in DOMAIN deferred : deferred[i].fence <= schedSeq + 1
  /\ \A r \in Requests : lastSeq[r] <= schedSeq

IInv == TypeOK /\ WritesGuarded /\ FencesInWindow

-----------------------------------------------------------------------------
(* What a drain leaves: a suffix of the queue, and everything it drops was   *)
(* fenced at or before the processed step.                                   *)
LEMMA DrainSuffix ==
  ASSUME deferred \in Seq(DeferredEntry), NEW k \in 0..Len(deferred)
  PROVE  LET rest == SubSeq(deferred, k + 1, Len(deferred)) IN
         /\ rest \in Seq(DeferredEntry)
         /\ Len(rest) = Len(deferred) - k
         /\ \A i \in 1..Len(rest) : rest[i] = deferred[k + i]
<1> DEFINE rest == SubSeq(deferred, k + 1, Len(deferred))
<1>1. k + 1 \in 1..Len(deferred) + 1
  OBVIOUS
<1>2. CASE k = Len(deferred)
  BY <1>2
<1>3. CASE k < Len(deferred)
  BY <1>3
<1>4. QED
  BY <1>2, <1>3

(* The two queues as sequences.                                             *)
LEMMA QueueFacts ==
  ASSUME TypeOK
  PROVE  /\ Len(deferred) \in Nat /\ DOMAIN deferred = 1..Len(deferred)
         /\ \A i \in 1..Len(deferred) : deferred[i] \in DeferredEntry
         /\ \A i \in 1..Len(deferred) : deferred[i].fence \in Nat
         /\ deferred # <<>> => 1 \in 1..Len(deferred)
         /\ Len(flight) \in Nat /\ DOMAIN flight = 1..Len(flight)
         /\ flight # <<>> => 1 \in 1..Len(flight)
         /\ flight = <<>> => Len(flight) = 0
<1>1. /\ Len(deferred) \in Nat /\ DOMAIN deferred = 1..Len(deferred)
      /\ \A i \in 1..Len(deferred) : deferred[i] \in DeferredEntry
  BY DEF TypeOK
<1>2. \A i \in 1..Len(deferred) : deferred[i].fence \in Nat
  BY <1>1 DEF DeferredEntry
<1>3. deferred # <<>> => 1 \in 1..Len(deferred)
  BY EmptySeq, <1>1 DEF TypeOK
<1>4. Len(flight) \in Nat /\ DOMAIN flight = 1..Len(flight)
  BY DEF TypeOK
<1>5. flight # <<>> => 1 \in 1..Len(flight)
  BY EmptySeq, <1>4 DEF TypeOK
<1>6. QED
  BY <1>1, <1>2, <1>3, <1>4, <1>5

(* Appending an entry to the deferred queue.                                *)
LEMMA DeferFacts ==
  ASSUME TypeOK, NEW e \in DeferredEntry, deferred' = Append(deferred, e)
  PROVE  /\ Len(deferred') = Len(deferred) + 1
         /\ DOMAIN deferred' = 1..(Len(deferred) + 1)
         /\ \A i \in 1..Len(deferred) : deferred'[i] = deferred[i]
         /\ deferred'[Len(deferred) + 1] = e
         /\ deferred' \in Seq(DeferredEntry)
  BY DEF TypeOK

(* Nothing is allocated, deferred or in flight at the start.                  *)
LEMMA InitIInv == Init => IInv
<1> SUFFICES ASSUME Init PROVE IInv
  OBVIOUS
<1>1. TypeOK
  BY DEF Init, TypeOK, DeferredEntry
<1>2. WritesGuarded
  BY DEF Init, WritesGuarded
<1>3. FencesInWindow
  BY DEF Init, FencesInWindow
<1>4. QED
  BY <1>1, <1>2, <1>3 DEF IInv

(* Taking blocks changes nothing a step in flight relies on.                *)
LEMMA AllocateKeeps ==
  ASSUME IInv, NEW r \in Requests, NEW hit \in SUBSET Blocks, NEW fresh \in SUBSET Blocks,
         Allocate(r, hit, fresh)
  PROVE  IInv'
<1> USE DEF IInv, Allocate
<1>1. TypeOK'
  BY DEF TypeOK
<1>2. WritesGuarded'
  BY DEF WritesGuarded, WriterOrFence, TypeOK
<1>3. FencesInWindow'
  BY DEF FencesInWindow
<1>4. QED
  BY <1>1, <1>2, <1>3

(* A request gives its blocks up either after its last step was processed,   *)
(* when no step in flight writes them on its behalf, or to an entry fenced   *)
(* behind every step in flight.                                              *)
LEMMA FreeKeeps ==
  ASSUME IInv, NEW r \in Requests, FreeRequestBlocks(r)
  PROVE  IInv'
<1> USE DEF IInv, FreeRequestBlocks
<1> DEFINE e == [fence |-> schedSeq, blocks |-> blocks[r]]
<1>0. e \in DeferredEntry
  BY DEF TypeOK, DeferredEntry
<1>1. TypeOK'
  BY <1>0 DEF TypeOK
<1>2. ASSUME NEW j \in DOMAIN flight, NEW q \in Requests, NEW b \in flight[j][q]
      PROVE  WriterOrFence(q, b, processedSeq + j)'
  <2>1. WriterOrFence(q, b, processedSeq + j)
    BY <1>2 DEF WritesGuarded
  <2>2. j \in 1..Len(flight) /\ processedSeq + j <= schedSeq /\ processedSeq \in Nat
    BY DEF TypeOK
  <2>3. CASE \E i \in DOMAIN deferred :
               b \in deferred[i].blocks /\ deferred[i].fence >= processedSeq + j
    <3>1. PICK i \in DOMAIN deferred :
               b \in deferred[i].blocks /\ deferred[i].fence >= processedSeq + j
      BY <2>3
    <3>2. i \in DOMAIN deferred' /\ deferred'[i] = deferred[i]
      BY <1>0 DEF TypeOK
    <3>3. QED
      BY <3>1, <3>2 DEF WriterOrFence
  <2>4. CASE b \in blocks[q] /\ lastSeq[q] >= processedSeq + j
    <3>1. CASE q # r
      BY <2>4, <3>1 DEF WriterOrFence, TypeOK
    <3>2. CASE q = r
      <4>1. ~MayFreeNow(r) /\ blocks[r] # {}
        BY <2>2, <2>4, <3>2 DEF MayFreeNow, TypeOK
      <4>2. deferred' = Append(deferred, e)
        BY <4>1
      <4>3. Len(deferred) + 1 \in DOMAIN deferred' /\ deferred'[Len(deferred) + 1] = e
        BY <4>2, <1>0 DEF TypeOK
      <4>4. e.fence = schedSeq /\ e.blocks = blocks[r]
        OBVIOUS
      <4>5. QED
        BY <4>3, <4>4, <2>2, <2>4, <3>2 DEF WriterOrFence
    <3>3. QED
      BY <3>1, <3>2
  <2>5. QED
    BY <2>1, <2>3, <2>4 DEF WriterOrFence
<1>3. WritesGuarded'
  BY <1>2 DEF WritesGuarded
<1>4. FencesInWindow'
  <2>1. CASE deferred' = deferred
    BY <2>1 DEF FencesInWindow
  <2>2. CASE deferred' = Append(deferred, e) /\ ~MayFreeNow(r)
    <3>1. schedSeq > processedSeq /\ e.fence = schedSeq /\ schedSeq \in Nat
      BY <2>2 DEF FencesInWindow, TypeOK, MayFreeNow
    <3> HIDE DEF e
    <3>2. /\ DOMAIN deferred' = 1..(Len(deferred) + 1)
          /\ \A i \in 1..Len(deferred) : deferred'[i] = deferred[i]
          /\ deferred'[Len(deferred) + 1] = e
      BY <2>2, <1>0, DeferFacts
    <3>3. /\ Len(deferred) \in Nat
          /\ \A i \in 1..Len(deferred) : deferred[i].fence <= schedSeq + 1 /\ deferred[i].fence \in Nat
      BY QueueFacts DEF FencesInWindow
    <3>4. \A i \in DOMAIN deferred' : deferred'[i].fence <= schedSeq + 1
      <4>1. \A i \in 1..(Len(deferred) + 1) : i \in 1..Len(deferred) \/ i = Len(deferred) + 1
        BY <3>3
      <4>2. QED
        BY <4>1, <3>1, <3>2, <3>3
    <3>5. deferred'[1].fence > processedSeq
      <4>1. CASE deferred = <<>>
        BY <4>1, <3>1, <3>2
      <4>2. CASE deferred # <<>>
        BY <4>2, <3>2, QueueFacts DEF FencesInWindow
      <4>3. QED
        BY <4>1, <4>2
    <3>6. QED
      BY <3>4, <3>5 DEF FencesInWindow
  <2>3. QED
    BY <2>1, <2>2
<1>5. QED
  BY <1>1, <1>3, <1>4

(* A new step writes blocks its requests hold, and they record its number;   *)
(* older steps keep their guard.                                             *)
LEMMA ScheduleKeeps ==
  ASSUME IInv, NEW R \in SUBSET Requests, NEW cow \in SUBSET Blocks,
         ScheduleStep(R, cow)
  PROVE  IInv'
<1> USE DEF IInv, ScheduleStep
<1> DEFINE e == [fence |-> schedSeq + 1, blocks |-> cow]
           w == [r \in Requests |-> IF r \in R THEN blocks[r] ELSE {}]
<1>0. /\ e \in DeferredEntry /\ w \in [Requests -> SUBSET Blocks]
      /\ flight' = Append(flight, w)
  BY DEF TypeOK, DeferredEntry
<1>1. TypeOK'
  BY <1>0 DEF TypeOK
<1>2. ASSUME NEW i \in DOMAIN deferred
      PROVE  i \in DOMAIN deferred' /\ deferred'[i] = deferred[i]
  BY <1>0 DEF TypeOK
<1>3. ASSUME NEW j \in DOMAIN flight', NEW q \in Requests, NEW b \in flight'[j][q]
      PROVE  WriterOrFence(q, b, processedSeq + j)'
  <2>1. CASE j \in DOMAIN flight
    <3>1. flight'[j] = flight[j]
      BY <2>1, <1>0 DEF TypeOK
    <3>2. WriterOrFence(q, b, processedSeq + j)
      BY <2>1, <3>1, <1>3 DEF WritesGuarded
    <3>3. CASE b \in blocks[q] /\ lastSeq[q] >= processedSeq + j
      <4>1. j \in 1..Len(flight)
        BY <2>1 DEF TypeOK
      <4>2. lastSeq'[q] >= processedSeq + j
        BY <3>3, <4>1 DEF TypeOK
      <4>3. QED
        BY <3>3, <4>2 DEF WriterOrFence
    <3>4. CASE \E i \in DOMAIN deferred :
                 b \in deferred[i].blocks /\ deferred[i].fence >= processedSeq + j
      BY <3>4, <1>2 DEF WriterOrFence
    <3>5. QED
      BY <3>2, <3>3, <3>4 DEF WriterOrFence
  <2>2. CASE j = Len(flight) + 1
    <3>1. flight'[j] = w
      BY <2>2, <1>0 DEF TypeOK
    <3>2. b \in blocks[q] /\ q \in R
      BY <3>1, <1>3
    <3>3. lastSeq'[q] = schedSeq + 1 /\ schedSeq + 1 = processedSeq + j
      BY <3>2, <2>2 DEF TypeOK
    <3>4. QED
      BY <3>2, <3>3 DEF WriterOrFence, TypeOK
  <2>3. QED
    BY <2>1, <2>2, <1>0 DEF TypeOK
<1>4. WritesGuarded'
  BY <1>3 DEF WritesGuarded
<1>5. FencesInWindow'
  <2>1. \A q \in Requests : lastSeq'[q] <= schedSeq'
    BY DEF FencesInWindow, TypeOK
  <2>2. CASE deferred' = deferred
    <3>1. /\ DOMAIN deferred = 1..Len(deferred) /\ schedSeq \in Nat /\ schedSeq' = schedSeq + 1
          /\ \A i \in 1..Len(deferred) : deferred[i].fence \in Nat
      BY QueueFacts DEF TypeOK
    <3>2. \A i \in DOMAIN deferred' : deferred'[i].fence <= schedSeq' + 1
      <4>1. \A i \in 1..Len(deferred) : deferred[i].fence <= schedSeq + 1
        BY <3>1 DEF FencesInWindow
      <4>2. ASSUME NEW n \in Nat, n <= schedSeq + 1 PROVE n <= schedSeq' + 1
        BY <3>1, <4>2
      <4>3. DOMAIN deferred' = 1..Len(deferred)
        BY <2>2, <3>1
      <4>4. \A i \in 1..Len(deferred) : deferred'[i].fence = deferred[i].fence
        BY <2>2
      <4>5. QED
        BY <3>1, <4>1, <4>2, <4>3, <4>4
    <3>3. deferred' # <<>> => deferred'[1].fence > processedSeq'
      BY <2>2 DEF FencesInWindow
    <3>4. QED
      BY <2>1, <3>2, <3>3 DEF FencesInWindow
  <2>3. CASE deferred' = Append(deferred, e)
    <3>1. schedSeq + 1 > processedSeq /\ e.fence = schedSeq + 1 /\ schedSeq \in Nat
      BY QueueFacts DEF TypeOK
    <3> HIDE DEF e
    <3>2. /\ DOMAIN deferred' = 1..(Len(deferred) + 1)
          /\ \A i \in 1..Len(deferred) : deferred'[i] = deferred[i]
          /\ deferred'[Len(deferred) + 1] = e
      BY <2>3, <1>0, DeferFacts
    <3>3. /\ Len(deferred) \in Nat
          /\ \A i \in 1..Len(deferred) : deferred[i].fence <= schedSeq + 1 /\ deferred[i].fence \in Nat
          /\ schedSeq' = schedSeq + 1
      BY QueueFacts DEF FencesInWindow
    <3>4. \A i \in DOMAIN deferred' : deferred'[i].fence <= schedSeq' + 1
      <4>1. \A i \in 1..(Len(deferred) + 1) : i \in 1..Len(deferred) \/ i = Len(deferred) + 1
        BY <3>3
      <4>2. QED
        BY <4>1, <3>1, <3>2, <3>3
    <3>5. deferred'[1].fence > processedSeq
      <4>1. CASE deferred = <<>>
        BY <4>1, <3>1, <3>2
      <4>2. CASE deferred # <<>>
        BY <4>2, <3>2, QueueFacts DEF FencesInWindow
      <4>3. QED
        BY <4>1, <4>2
    <3>6. QED
      BY <2>1, <3>4, <3>5 DEF FencesInWindow
  <2>4. QED
    BY <2>2, <2>3
<1>6. QED
  BY <1>1, <1>4, <1>5

(* Copies retained for the next step change no other entry.                  *)
LEMMA RetainKeeps ==
  ASSUME IInv, NEW cow \in SUBSET Blocks, RetainCopies(cow)
  PROVE  IInv'
<1> DEFINE e == [fence |-> schedSeq + 1, blocks |-> cow]
<1>0. /\ TypeOK /\ WritesGuarded /\ FencesInWindow
      /\ e \in DeferredEntry /\ e.fence = schedSeq + 1
      /\ processedSeq \in Nat /\ schedSeq \in Nat /\ schedSeq >= processedSeq
      /\ deferred' = Append(deferred, e) /\ blocks' = blocks /\ lastSeq' = lastSeq
      /\ schedSeq' = schedSeq /\ processedSeq' = processedSeq /\ flight' = flight
  BY QueueFacts DEF IInv, RetainCopies, TypeOK, DeferredEntry
<1> HIDE DEF e
<1>1. /\ DOMAIN deferred' = 1..(Len(deferred) + 1) /\ Len(deferred) \in Nat
      /\ \A i \in 1..Len(deferred) : deferred'[i] = deferred[i]
      /\ deferred'[Len(deferred) + 1] = e
      /\ deferred' \in Seq(DeferredEntry)
  BY <1>0, DeferFacts, QueueFacts
<1>2. TypeOK'
  BY <1>0, <1>1 DEF TypeOK
<1>3. WritesGuarded'
  <2> SUFFICES ASSUME NEW j \in DOMAIN flight, NEW q \in Requests, NEW b \in flight[j][q]
               PROVE  WriterOrFence(q, b, processedSeq + j)'
    BY <1>0 DEF WritesGuarded
  <2>1. WriterOrFence(q, b, processedSeq + j)
    BY <1>0 DEF WritesGuarded
  <2>2. DOMAIN deferred \subseteq DOMAIN deferred'
    BY <1>0, <1>1, QueueFacts
  <2>3. QED
    BY <1>0, <1>1, <2>1, <2>2, QueueFacts DEF WriterOrFence
<1>4. FencesInWindow'
  <2>1. \A i \in 1..(Len(deferred) + 1) : i \in 1..Len(deferred) \/ i = Len(deferred) + 1
    BY <1>1
  <2>2. \A i \in DOMAIN deferred' : deferred'[i].fence <= schedSeq' + 1
    BY <1>0, <1>1, <2>1, QueueFacts DEF FencesInWindow
  <2>3. deferred'[1].fence > processedSeq'
    <3>1. CASE deferred = <<>>
      BY <3>1, <1>0, <1>1
    <3>2. CASE deferred # <<>>
      BY <3>2, <1>0, <1>1, QueueFacts DEF FencesInWindow
    <3>3. QED
      BY <3>1, <3>2
  <2>4. QED
    BY <1>0, <2>2, <2>3 DEF FencesInWindow
<1>5. QED
  BY <1>2, <1>3, <1>4 DEF IInv

(* The drain after the oldest step drops only entries fenced at or before    *)
(* that step; later steps keep their guard.                                  *)
LEMMA ProcessKeeps ==
  ASSUME IInv, ProcessStep
  PROVE  IInv'
<1>0. /\ TypeOK /\ WritesGuarded /\ FencesInWindow
      /\ processedSeq \in Nat /\ schedSeq \in Nat /\ Len(deferred) \in Nat
      /\ processedSeq' = processedSeq + 1 /\ schedSeq' = schedSeq
      /\ blocks' = blocks /\ lastSeq' = lastSeq /\ flight' = Tail(flight) /\ flight # <<>>
  BY QueueFacts DEF IInv, TypeOK, ProcessStep
<1>1. PICK k \in 0..Len(deferred) :
        /\ DrainedBy(k, processedSeq + 1)
        /\ deferred' = SubSeq(deferred, k + 1, Len(deferred))
  BY DEF ProcessStep
<1>2. /\ deferred' \in Seq(DeferredEntry)
      /\ Len(deferred') = Len(deferred) - k
      /\ \A i \in 1..Len(deferred') : deferred'[i] = deferred[k + i]
  BY <1>0, <1>1, DrainSuffix DEF TypeOK
<1>3. /\ flight' \in Seq([Requests -> SUBSET Blocks])
      /\ Len(flight') = Len(flight) - 1
      /\ \A j \in 1..Len(flight') : flight'[j] = flight[j + 1]
  BY <1>0 DEF TypeOK
<1>4. TypeOK'
  BY <1>0, <1>2, <1>3 DEF TypeOK
<1>5. ASSUME NEW j \in DOMAIN flight', NEW q \in Requests, NEW b \in flight'[j][q]
      PROVE  WriterOrFence(q, b, processedSeq + j)'
  <2>1. j + 1 \in DOMAIN flight /\ b \in flight[j + 1][q] /\ j \in Nat \ {0}
    BY <1>0, <1>3, <1>5 DEF TypeOK
  <2>2. WriterOrFence(q, b, processedSeq + (j + 1))
    BY <1>0, <2>1 DEF WritesGuarded
  <2>3. processedSeq' + j = processedSeq + (j + 1)
    BY <1>0, <2>1
  <2>4. CASE \E i \in DOMAIN deferred :
               b \in deferred[i].blocks /\ deferred[i].fence >= processedSeq + (j + 1)
    <3>1. PICK i \in DOMAIN deferred :
               b \in deferred[i].blocks /\ deferred[i].fence >= processedSeq + (j + 1)
      BY <2>4
    <3>2. i \in 1..Len(deferred) /\ deferred[i].fence \in Nat
      BY <1>0, QueueFacts
    <3>3. ~(i \in 1..k)
      <4>1. deferred[i].fence > processedSeq + 1
        BY <1>0, <2>1, <3>1, <3>2
      <4>2. QED
        BY <1>0, <4>1, <3>2, <1>1 DEF DrainedBy
    <3>4. i - k \in 1..Len(deferred') /\ k + (i - k) = i
      BY <1>2, <3>2, <3>3
    <3>5. deferred'[i - k] = deferred[i]
      BY <1>2, <3>4
    <3>6. i - k \in DOMAIN deferred'
      BY <1>2, <3>4
    <3>7. QED
      BY <2>3, <3>1, <3>5, <3>6 DEF WriterOrFence
  <2>5. CASE b \in blocks[q] /\ lastSeq[q] >= processedSeq + (j + 1)
    BY <1>0, <2>3, <2>5 DEF WriterOrFence
  <2>6. QED
    BY <2>2, <2>4, <2>5 DEF WriterOrFence
<1>6. WritesGuarded'
  BY <1>5 DEF WritesGuarded
<1>7. FencesInWindow'
  <2>1. DOMAIN deferred' = 1..Len(deferred') /\ Len(deferred') \in Nat
    BY <1>2
  <2>2. \A i \in DOMAIN deferred' : deferred'[i].fence <= schedSeq' + 1
    <3>1. ASSUME NEW i \in 1..Len(deferred')
          PROVE  k + i \in 1..Len(deferred) /\ deferred'[i] = deferred[k + i]
      BY <1>0, <1>2
    <3>2. QED
      BY <1>0, <2>1, <3>1, QueueFacts DEF FencesInWindow
  <2>3. ASSUME deferred' # <<>> PROVE deferred'[1].fence > processedSeq'
    <3>1. 1 \in 1..Len(deferred')
      BY <2>3, <2>1, <1>2, EmptySeq
    <3>2. k < Len(deferred) /\ deferred'[1] = deferred[k + 1]
      <4>1. k \in Nat /\ Len(deferred) \in Nat /\ Len(deferred') = Len(deferred) - k
        BY <1>0, <1>2
      <4>2. QED
        BY <3>1, <4>1, <1>2
    <3>3. QED
      BY <1>0, <3>2, <1>1 DEF DrainedBy
  <2>4. QED
    BY <1>0, <2>2, <2>3 DEF FencesInWindow
<1>8. QED
  BY <1>4, <1>6, <1>7 DEF IInv

-----------------------------------------------------------------------------
(* The strengthened invariant holds of every behaviour; the theorems below are
   its consequences.                                                        *)
THEOREM Inductive == Spec => []IInv
<1>1. ASSUME IInv, Next PROVE IInv'
  BY <1>1, AllocateKeeps, FreeKeeps, ScheduleKeeps, RetainKeeps, ProcessKeeps DEF Next
<1>2. IInv /\ UNCHANGED vars => IInv'
  BY DEF IInv, TypeOK, WritesGuarded, WriterOrFence, FencesInWindow, vars
<1>3. QED
  BY InitIInv, <1>1, <1>2, PTL DEF Spec

(* Type correctness.                                                        *)
THEOREM TypeCorrect == Spec => []TypeOK
<1>1. IInv => TypeOK
  BY DEF IInv
<1>2. QED
  BY <1>1, Inductive, PTL

(* A block a step in flight may still write is never in the free pool.      *)
THEOREM FreeBlocksAreQuiet == Spec => []NoFreeWrite
<1>1. ASSUME IInv PROVE NoFreeWrite
  <2> SUFFICES ASSUME NEW b \in Blocks, b \in InFlightWrites
               PROVE  b \in Held
    BY DEF NoFreeWrite, Free
  <2>1. PICK j \in DOMAIN flight, r \in Requests : b \in flight[j][r]
    BY DEF InFlightWrites
  <2>2. WriterOrFence(r, b, processedSeq + j)
    BY <1>1, <2>1 DEF IInv, WritesGuarded
  <2>3. QED
    BY <2>2 DEF WriterOrFence, Held
<1>2. QED
  BY <1>1, Inductive, PTL

(* When nothing is in flight, no block is left waiting for the fence of a    *)
(* step that has been.                                                       *)
THEOREM NothingLeftBehind == Spec => []NothingStranded
<1>1. ASSUME IInv PROVE NothingStranded
  <2> SUFFICES ASSUME flight = <<>>, deferred # <<>> PROVE deferred[1].fence = schedSeq + 1
    BY DEF NothingStranded, BehindCopies
  <2>1. schedSeq = processedSeq /\ 1 \in DOMAIN deferred /\ deferred[1].fence \in Nat
    BY <1>1, QueueFacts DEF IInv, TypeOK
  <2>2. QED
    BY <1>1, <2>1 DEF IInv, FencesInWindow, TypeOK
<1>2. QED
  BY <1>1, Inductive, PTL
=============================================================================

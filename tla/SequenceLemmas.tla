--------------------------- MODULE SequenceLemmas ---------------------------
(***************************************************************************)
(* Facts the proofs keep needing: division with remainder; least           *)
(* elements; what removing, appending, concatenating and keeping do to the *)
(* elements of a queue; what a recurrence yields; and the ledger of a      *)
(* request, which splits its outputs still to come into those dispatched   *)
(* before its last preemption, whose tokens are stale, and those after it, *)
(* whose samples follow its log.                                           *)
(***************************************************************************)
EXTENDS Queues, SequencesExt, SequenceTheorems, WellFoundedInduction, TLAPS

(* Division with remainder.                                                 *)
LEMMA DivMod ==
  ASSUME NEW a \in Nat, NEW n \in Nat \ {0}
  PROVE  /\ a \div n \in Nat /\ a % n \in 0 .. n - 1
         /\ a = n * (a \div n) + (a % n)
  BY SMT

(* Multiples of n are at least n apart.                                     *)
LEMMA MulMono ==
  ASSUME NEW n \in Nat \ {0}, NEW i \in Int, NEW j \in Int
  PROVE  /\ i < j => n * i + n <= n * j
         /\ n * i \in Int /\ n * i = i * n
  BY SMT

(* Quotient and remainder are unique.                                       *)
LEMMA DivUnique ==
  ASSUME NEW n \in Nat \ {0}, NEW q \in Nat, NEW r \in 0 .. n - 1,
         NEW a \in Nat, a = n * q + r
  PROVE  a \div n = q /\ a % n = r
<1>1. a = n * (a \div n) + (a % n) /\ a \div n \in Nat /\ a % n \in 0 .. n - 1
  BY DivMod
<1>2. n * (a \div n) \in Int /\ n * q \in Int
  BY <1>1, MulMono
<1>3. ~ (a \div n < q)
  BY <1>1, <1>2, MulMono
<1>4. ~ (q < a \div n)
  BY <1>1, <1>2, MulMono
<1> QED BY <1>1, <1>2, <1>3, <1>4

(* Every non-empty set of naturals has a least element.                      *)
LEMMA LeastNatural ==
  ASSUME NEW T \in SUBSET Nat, T # {}
  PROVE  \E x \in T : \A y \in T : x <= y
<1> DEFINE R == {ss \in Nat \X Nat : ss[1] < ss[2]}
<1>1. IsWellFoundedOn(R, Nat)
  BY NatLessThanWellFounded DEF OpToRel
<1>2. \A S : \A U \in SUBSET S : \A Q :
        IsWellFoundedOn(Q, S) /\ U # {} => \E x \in U : \A y \in U : ~(<<y, x>> \in Q)
  BY WFMin
<1>3. PICK x \in T : \A y \in T : ~(<<y, x>> \in R)
  <2> HIDE DEF R
  <2> QED
    BY <1>1, <1>2
<1>4. ASSUME NEW y \in T
      PROVE  x <= y
  <2>1. ~(<<y, x>> \in R)
    BY <1>3
  <2>2. x \in Nat /\ y \in Nat
    BY <1>3
  <2>3. <<y, x>> \in Nat \X Nat /\ <<y, x>>[1] = y /\ <<y, x>>[2] = x
    BY <2>2
  <2>4. ~(y < x)
    BY <2>1, <2>3
  <2>5. QED
    BY <2>2, <2>4
<1>5. QED
  BY <1>3, <1>4

(* Finitely many naturals have a greatest one.                               *)
LEMMA GreatestNatural ==
  ASSUME NEW n \in Nat \ {0}, NEW f \in [1..n -> Nat]
  PROVE  \E m \in 1..n : \A i \in 1..n : f[i] <= f[m]
<1> DEFINE T == {k \in 1..n : ~ \E m \in 1..k : \A i \in 1..k : f[i] <= f[m]}
<1>0. n \in 1..n
  OBVIOUS
<1>1. SUFFICES ASSUME T # {} PROVE FALSE
  BY <1>0
<1>2. \E k \in T : \A y \in T : k <= y
  <2>1. T \in SUBSET Nat
    OBVIOUS
  <2> HIDE DEF T
  <2>2. QED
    BY <1>1, <2>1, LeastNatural
<1>2a. PICK k \in T : \A y \in T : k <= y
  BY <1>2
<1>3. k # 1
  <2>1. \A i \in 1..1 : i = 1 /\ f[i] <= f[1]
    OBVIOUS
  <2>2. 1 \in 1..1
    OBVIOUS
  <2>3. QED
    BY <1>2a, <2>1, <2>2
<1>4. k - 1 \in 1..n /\ k - 1 \notin T
  <2>1. k \in 1..n /\ k \in Nat /\ k - 1 < k
    BY <1>2a
  <2>2. k - 1 \in 1..n
    BY <2>1, <1>3
  <2>3. ASSUME k - 1 \in T PROVE FALSE
    <3>1. k <= k - 1
      BY <2>3, <1>2a
    <3>2. QED
      BY <3>1, <2>1
  <2>4. QED
    BY <2>2, <2>3
<1>5. PICK m \in 1..(k - 1) : \A i \in 1..(k - 1) : f[i] <= f[m]
  BY <1>4
<1>6. CASE f[k] <= f[m]
  <2>1. m \in 1..k /\ \A i \in 1..k : f[i] <= f[m]
    BY <1>2a, <1>5, <1>6
  <2>2. QED
    BY <2>1, <1>2a
<1>7. CASE f[m] < f[k]
  <2>1. k \in 1..k /\ \A i \in 1..k : f[i] <= f[k]
    BY <1>2a, <1>5, <1>7
  <2>2. QED
    BY <2>1, <1>2a
<1>8. f[k] \in Nat /\ f[m] \in Nat
  BY <1>2a, <1>5
<1>9. QED
  BY <1>6, <1>7, <1>8

(* Removing the element at one index.                                        *)
LEMMA RemoveAtFacts ==
  ASSUME NEW S, NEW s \in Seq(S), NEW i \in 1..Len(s)
  PROVE  /\ RemoveAt(s, i) \in Seq(S)
         /\ Len(RemoveAt(s, i)) = Len(s) - 1
         /\ \A j \in 1..(Len(s) - 1) :
              RemoveAt(s, i)[j] = IF j < i THEN s[j] ELSE s[j + 1]
<1> DEFINE a == SubSeq(s, 1, i - 1)
           b == SubSeq(s, i + 1, Len(s))
<1>0. Len(s) \in Nat /\ i \in Nat /\ \A j \in 1..Len(s) : s[j] \in S
  BY LenProperties, ElementOfSeq
<1>1. /\ a \in Seq(S) /\ Len(a) = i - 1
      /\ \A j \in 1..(i - 1) : a[j] = s[j]
  <2>1. \A j \in 1..(i - 1) : s[j] \in S
    BY <1>0
  <2>2. /\ a \in Seq(S) /\ Len(a) = IF 1 <= i - 1 THEN i - 1 - 1 + 1 ELSE 0
        /\ \A j \in 1..(i - 1 - 1 + 1) : a[j] = s[1 + j - 1]
    BY <2>1, <1>0, SubSeqProperties
  <2>3. QED
    BY <2>2, <1>0
<1>2. /\ b \in Seq(S) /\ Len(b) = Len(s) - i
      /\ \A j \in 1..(Len(s) - i) : b[j] = s[i + j]
  <2>1. \A j \in (i + 1)..Len(s) : s[j] \in S
    BY <1>0
  <2>2. /\ b \in Seq(S) /\ Len(b) = IF i + 1 <= Len(s) THEN Len(s) - (i + 1) + 1 ELSE 0
        /\ \A j \in 1..(Len(s) - (i + 1) + 1) : b[j] = s[i + 1 + j - 1]
    BY <2>1, <1>0, SubSeqProperties
  <2>3. QED
    BY <2>2, <1>0
<1> HIDE DEF a, b
<1>3. /\ a \o b \in Seq(S) /\ Len(a \o b) = Len(a) + Len(b)
      /\ \A j \in 1..(Len(a) + Len(b)) : (a \o b)[j] = IF j <= Len(a) THEN a[j] ELSE b[j - Len(a)]
  BY <1>1, <1>2, ConcatProperties
<1>4. RemoveAt(s, i) = a \o b
  BY DEF RemoveAt, a, b
<1>5. ASSUME NEW j \in 1..(Len(s) - 1)
      PROVE  (a \o b)[j] = IF j < i THEN s[j] ELSE s[j + 1]
  <2>1. CASE j < i
    <3>1. j \in 1..(i - 1) /\ j <= Len(a) /\ j \in 1..(Len(a) + Len(b))
      BY <2>1, <1>0, <1>1, <1>2
    <3>2. QED
      BY <3>1, <2>1, <1>1, <1>3
  <2>2. CASE ~(j < i)
    <3>1. j - (i - 1) \in 1..(Len(s) - i) /\ ~(j <= Len(a)) /\ j \in 1..(Len(a) + Len(b))
      BY <2>2, <1>0, <1>1, <1>2
    <3>2. (a \o b)[j] = b[j - (i - 1)]
      BY <3>1, <1>1, <1>3
    <3>3. b[j - (i - 1)] = s[i + (j - (i - 1))] /\ i + (j - (i - 1)) = j + 1
      BY <3>1, <1>0, <1>2
    <3>4. QED
      BY <3>2, <3>3, <2>2
  <2>3. QED
    BY <2>1, <2>2
<1>6. Len(a \o b) = Len(s) - 1
  BY <1>0, <1>1, <1>2, <1>3
<1>7. QED
  BY <1>3, <1>4, <1>5, <1>6

(* Removing the first occurrence of an element: nothing else moves.          *)
LEMMA RemoveFirstIndex ==
  ASSUME NEW S, NEW s \in Seq(S), NEW e \in S
  PROVE  \/ RemoveFirst(s, e) = s /\ \A i \in 1..Len(s) : s[i] # e
         \/ \E i \in 1..Len(s) : s[i] = e /\ RemoveFirst(s, e) = RemoveAt(s, i)
<1> DEFINE I == {i \in 1..Len(s) : s[i] = e}
<1>1. CASE I = {}
  BY <1>1 DEF RemoveFirst
<1>2. CASE I # {}
  <2>0. I \in SUBSET Nat
    BY LenProperties
  <2>1. PICK x \in I : \A y \in I : x <= y
    <3> HIDE DEF I
    <3> QED
      BY <1>2, <2>0, LeastNatural
  <2>2. Min(I) \in I
    BY <2>1 DEF Min
  <2>3. RemoveFirst(s, e) = RemoveAt(s, Min(I))
    BY <1>2 DEF RemoveFirst, SelectInSeq
  <2>4. QED
    BY <2>2, <2>3
<1>3. QED
  BY <1>1, <1>2

(* In a sequence without repetition, the element is gone and nothing else.   *)
LEMMA RemoveFirstFacts ==
  ASSUME NEW S, NEW s \in Seq(S), NEW e \in S, IsInjective(s)
  PROVE  /\ RemoveFirst(s, e) \in Seq(S)
         /\ IsInjective(RemoveFirst(s, e))
         /\ ToSet(RemoveFirst(s, e)) = ToSet(s) \ {e}
         /\ e \notin ToSet(s) => RemoveFirst(s, e) = s
<1>0. Len(s) \in Nat /\ DOMAIN s = 1..Len(s)
  BY LenProperties
<1>1. CASE RemoveFirst(s, e) = s /\ \A i \in 1..Len(s) : s[i] # e
  BY <1>0, <1>1 DEF ToSet
<1>2. CASE \E i \in 1..Len(s) : s[i] = e /\ RemoveFirst(s, e) = RemoveAt(s, i)
  <2>1. PICK i \in 1..Len(s) : s[i] = e /\ RemoveFirst(s, e) = RemoveAt(s, i)
    BY <1>2
  <2> DEFINE t == RemoveFirst(s, e)
  <2>2. /\ t \in Seq(S) /\ Len(t) = Len(s) - 1
        /\ \A j \in 1..(Len(s) - 1) : t[j] = IF j < i THEN s[j] ELSE s[j + 1]
    BY <2>1, RemoveAtFacts
  <2> HIDE DEF t
  <2>3. DOMAIN t = 1..(Len(s) - 1)
    BY <2>2, LenProperties
  <2>4. IsInjective(t)
    <3> SUFFICES ASSUME NEW j \in 1..(Len(s) - 1), NEW k \in 1..(Len(s) - 1), t[j] = t[k]
                 PROVE  j = k
      BY <2>3 DEF IsInjective
    <3>1. \A x, y \in 1..Len(s) : s[x] = s[y] => x = y
      BY <1>0 DEF IsInjective
    <3>2. \A x \in 1..(Len(s) - 1) : x \in 1..Len(s) /\ x + 1 \in 1..Len(s)
      BY <1>0
    <3>3. QED
      BY <2>2, <3>1, <3>2, <1>0
  <2>5. \A x \in ToSet(t) : x \in ToSet(s) /\ x # e
    <3> SUFFICES ASSUME NEW j \in 1..(Len(s) - 1)
                 PROVE  t[j] \in ToSet(s) /\ t[j] # e
      BY <2>3 DEF ToSet
    <3>1. j \in 1..Len(s) /\ j + 1 \in 1..Len(s) /\ j # j + 1
      BY <1>0
    <3>2. \A x \in 1..Len(s) : s[x] = e => x = i
      BY <2>1, <1>0 DEF IsInjective
    <3>3. CASE j < i
      BY <3>1, <3>2, <3>3, <2>2, <1>0 DEF ToSet
    <3>4. CASE ~(j < i)
      <4>1. t[j] = s[j + 1] /\ j + 1 # i
        BY <3>4, <2>2, <1>0
      <4>2. QED
        BY <4>1, <3>1, <3>2, <1>0 DEF ToSet
    <3>5. QED
      BY <3>3, <3>4
  <2>6. \A x \in ToSet(s) : x # e => x \in ToSet(t)
    <3> SUFFICES ASSUME NEW j \in 1..Len(s), s[j] # e
                 PROVE  s[j] \in ToSet(t)
      BY <1>0 DEF ToSet
    <3>1. CASE j < i
      <4>1. j \in 1..(Len(s) - 1)
        BY <3>1, <1>0
      <4>2. QED
        BY <4>1, <3>1, <2>2, <2>3 DEF ToSet
    <3>2. CASE j > i
      <4>1. j - 1 \in 1..(Len(s) - 1) /\ ~(j - 1 < i) /\ (j - 1) + 1 = j
        BY <3>2, <1>0
      <4>2. t[j - 1] = s[j]
        BY <4>1, <2>2
      <4>3. QED
        BY <4>1, <4>2, <2>3 DEF ToSet
    <3>3. j # i
      BY <2>1
    <3>4. QED
      BY <3>1, <3>2, <3>3, <1>0
  <2>7. e \in ToSet(s)
    BY <2>1, <1>0 DEF ToSet
  <2>8. QED
    BY <2>2, <2>4, <2>5, <2>6, <2>7 DEF t
<1>3. QED
  BY <1>1, <1>2, RemoveFirstIndex

(* Putting a new element at an end of a sequence without repetition.         *)
LEMMA AppendFacts ==
  ASSUME NEW S, NEW s \in Seq(S), NEW e \in S
  PROVE  /\ Append(s, e) \in Seq(S)
         /\ ToSet(Append(s, e)) = ToSet(s) \union {e}
         /\ IsInjective(s) /\ e \notin ToSet(s) => IsInjective(Append(s, e))
<1> DEFINE t == Append(s, e)
<1>0. Len(s) \in Nat /\ DOMAIN s = 1..Len(s)
  BY LenProperties
<1>1. /\ t \in Seq(S) /\ Len(t) = Len(s) + 1
      /\ \A i \in 1..Len(s) : t[i] = s[i]
      /\ t[Len(s) + 1] = e
  BY AppendProperties
<1> HIDE DEF t
<1>2. DOMAIN t = 1..(Len(s) + 1)
  BY <1>1, LenProperties
<1>3. \A i \in 1..(Len(s) + 1) : i \in 1..Len(s) \/ i = Len(s) + 1
  BY <1>0
<1>3a. Len(s) + 1 \in 1..(Len(s) + 1) /\ \A i \in 1..Len(s) : i \in 1..(Len(s) + 1)
  BY <1>0
<1>4. ToSet(t) = ToSet(s) \union {e}
  BY <1>0, <1>1, <1>2, <1>3, <1>3a DEF ToSet
<1>5. IsInjective(s) /\ e \notin ToSet(s) => IsInjective(t)
  BY <1>0, <1>1, <1>2, <1>3 DEF ToSet, IsInjective
<1>6. QED
  BY <1>1, <1>4, <1>5 DEF t

(* The elements of a concatenation, and when it repeats none.                 *)
LEMMA ConcatFacts ==
  ASSUME NEW S, NEW s \in Seq(S), NEW t \in Seq(S)
  PROVE  /\ s \o t \in Seq(S)
         /\ ToSet(s \o t) = ToSet(s) \union ToSet(t)
         /\ IsInjective(s \o t) <=>
              IsInjective(s) /\ IsInjective(t) /\ ToSet(s) \cap ToSet(t) = {}
<1> DEFINE u == s \o t
<1>0. Len(s) \in Nat /\ DOMAIN s = 1..Len(s) /\ Len(t) \in Nat /\ DOMAIN t = 1..Len(t)
  BY LenProperties
<1>1. /\ u \in Seq(S) /\ Len(u) = Len(s) + Len(t)
      /\ \A i \in 1..(Len(s) + Len(t)) : u[i] = IF i <= Len(s) THEN s[i] ELSE t[i - Len(s)]
  BY ConcatProperties
<1> HIDE DEF u
<1>2. DOMAIN u = 1..(Len(s) + Len(t))
  BY <1>1, LenProperties
<1>3. /\ \A i \in 1..Len(s) : i \in 1..(Len(s) + Len(t)) /\ u[i] = s[i]
      /\ \A i \in 1..Len(t) : Len(s) + i \in 1..(Len(s) + Len(t)) /\ u[Len(s) + i] = t[i]
  <2>1. \A i \in 1..Len(s) : i \in 1..(Len(s) + Len(t)) /\ i <= Len(s)
    BY <1>0
  <2>2. \A i \in 1..Len(t) : Len(s) + i \in 1..(Len(s) + Len(t)) /\ ~(Len(s) + i <= Len(s))
                             /\ (Len(s) + i) - Len(s) = i
    BY <1>0
  <2>3. QED
    BY <2>1, <2>2, <1>1
<1>4. \A i \in 1..(Len(s) + Len(t)) :
        \/ i \in 1..Len(s)
        \/ \E j \in 1..Len(t) : i = Len(s) + j
  <2> SUFFICES ASSUME NEW i \in 1..(Len(s) + Len(t)), i \notin 1..Len(s)
               PROVE  \E j \in 1..Len(t) : i = Len(s) + j
    OBVIOUS
  <2>1. i - Len(s) \in 1..Len(t) /\ i = Len(s) + (i - Len(s))
    BY <1>0
  <2>2. QED
    BY <2>1
<1>5. ToSet(u) = ToSet(s) \union ToSet(t)
  <2>1. \A x \in ToSet(u) : x \in ToSet(s) \/ x \in ToSet(t)
    <3> SUFFICES ASSUME NEW i \in 1..(Len(s) + Len(t))
                 PROVE  u[i] \in ToSet(s) \/ u[i] \in ToSet(t)
      BY <1>2 DEF ToSet
    <3>1. CASE i \in 1..Len(s)
      BY <3>1, <1>0, <1>3 DEF ToSet
    <3>2. CASE \E j \in 1..Len(t) : i = Len(s) + j
      BY <3>2, <1>0, <1>3 DEF ToSet
    <3>3. QED
      BY <3>1, <3>2, <1>4
  <2>2. \A x \in ToSet(s) : x \in ToSet(u)
    BY <1>0, <1>2, <1>3 DEF ToSet
  <2>3. \A x \in ToSet(t) : x \in ToSet(u)
    BY <1>0, <1>2, <1>3 DEF ToSet
  <2>4. QED
    BY <2>1, <2>2, <2>3
<1>6. ASSUME IsInjective(u)
      PROVE  IsInjective(s) /\ IsInjective(t) /\ ToSet(s) \cap ToSet(t) = {}
  <2>1. IsInjective(s)
    BY <1>0, <1>2, <1>3, <1>6 DEF IsInjective
  <2>2. IsInjective(t)
    <3> SUFFICES ASSUME NEW i \in 1..Len(t), NEW j \in 1..Len(t), t[i] = t[j] PROVE i = j
      BY <1>0 DEF IsInjective
    <3>1. Len(s) + i = Len(s) + j
      BY <1>2, <1>3, <1>6 DEF IsInjective
    <3>2. QED
      BY <3>1, <1>0
  <2>3. ToSet(s) \cap ToSet(t) = {}
    <3> SUFFICES ASSUME NEW i \in 1..Len(s), NEW j \in 1..Len(t), s[i] = t[j] PROVE FALSE
      BY <1>0 DEF ToSet
    <3>1. i = Len(s) + j
      BY <1>2, <1>3, <1>6 DEF IsInjective
    <3>2. QED
      BY <3>1, <1>0
  <2>4. QED
    BY <2>1, <2>2, <2>3
<1>7. ASSUME IsInjective(s), IsInjective(t), ToSet(s) \cap ToSet(t) = {}
      PROVE  IsInjective(u)
  <2> SUFFICES ASSUME NEW i \in 1..(Len(s) + Len(t)), NEW j \in 1..(Len(s) + Len(t)), u[i] = u[j]
               PROVE  i = j
    BY <1>2 DEF IsInjective
  <2>1. CASE i \in 1..Len(s) /\ j \in 1..Len(s)
    BY <2>1, <1>0, <1>3, <1>7 DEF IsInjective
  <2>2. CASE i \notin 1..Len(s) /\ j \notin 1..Len(s)
    <3>1. PICK k \in 1..Len(t), l \in 1..Len(t) : i = Len(s) + k /\ j = Len(s) + l
      BY <2>2, <1>4
    <3>2. t[k] = t[l]
      BY <3>1, <1>3
    <3>3. QED
      BY <3>1, <3>2, <1>0, <1>7 DEF IsInjective
  <2>3. ASSUME NEW x \in 1..Len(s), NEW y \in 1..(Len(s) + Len(t)), y \notin 1..Len(s), u[x] = u[y]
        PROVE  FALSE
    <3>1. PICK k \in 1..Len(t) : y = Len(s) + k
      BY <2>3, <1>4
    <3>2. s[x] = t[k]
      BY <3>1, <2>3, <1>3
    <3>3. s[x] \in ToSet(s) /\ t[k] \in ToSet(t)
      BY <1>0 DEF ToSet
    <3>4. QED
      BY <3>2, <3>3, <1>7
  <2>4. QED
    BY <2>1, <2>2, <2>3
<1>8. QED
  BY <1>1, <1>5, <1>6, <1>7 DEF u

(* The elements of a sequence with one more in front, as a preempted request  *)
(* is put back in front of the waiting queue.                                 *)
LEMMA ConsFacts ==
  ASSUME NEW S, NEW s \in Seq(S), NEW e \in S
  PROVE  /\ <<e>> \o s \in Seq(S)
         /\ ToSet(<<e>> \o s) = ToSet(s) \union {e}
         /\ IsInjective(s) /\ e \notin ToSet(s) => IsInjective(<<e>> \o s)
<1>1. <<e>> \in Seq(S) /\ ToSet(<<e>>) = {e} /\ IsInjective(<<e>>)
  BY DEF ToSet, IsInjective
<1> DEFINE c == <<e>>
<1> HIDE DEF c
<1>2. c \in Seq(S) /\ ToSet(c) = {e} /\ IsInjective(c)
  BY <1>1 DEF c
<1>3. /\ c \o s \in Seq(S)
      /\ ToSet(c \o s) = ToSet(c) \union ToSet(s)
      /\ IsInjective(c \o s) <=>
           IsInjective(c) /\ IsInjective(s) /\ ToSet(c) \cap ToSet(s) = {}
  BY <1>2, ConcatFacts
<1>4. QED
  BY <1>2, <1>3 DEF c
(* Taking the first element out of a sequence.                                 *)
LEMMA TailFacts ==
  ASSUME NEW S, NEW s \in Seq(S), s # <<>>
  PROVE  /\ Tail(s) \in Seq(S) /\ Head(s) \in S /\ Head(s) \in ToSet(s) /\ Head(s) = s[1]
         /\ Len(s) \in Nat \ {0} /\ Len(Tail(s)) = Len(s) - 1
         /\ \A i \in 1..(Len(s) - 1) : Tail(s)[i] = s[i + 1]
         /\ ToSet(s) = ToSet(Tail(s)) \union {Head(s)}
         /\ IsInjective(s) => IsInjective(Tail(s)) /\ Head(s) \notin ToSet(Tail(s))
<1> DEFINE t == Tail(s)
           n == Len(s)
<1>1. n \in Nat \ {0} /\ DOMAIN s = 1..n
  BY LenProperties, EmptySeq
<1>2. t \in Seq(S) /\ Head(s) \in S /\ Len(t) = n - 1
  BY HeadTailProperties
<1>3. \A i \in 1..(n - 1) : t[i] = s[i + 1]
  BY HeadTailProperties
<1>4. DOMAIN t = 1..(n - 1)
  BY <1>2, LenProperties
<1>5. Head(s) = s[1]
  OBVIOUS
<1> HIDE DEF t, n
<1>6. 1 \in 1..n /\ \A i \in 1..(n - 1) : i + 1 \in 1..n /\ i + 1 # 1
  BY <1>1
<1>7. \A i \in 1..n : i = 1 \/ (i - 1 \in 1..(n - 1) /\ (i - 1) + 1 = i)
  BY <1>1
<1>8. ToSet(s) = ToSet(t) \union {Head(s)} /\ Head(s) \in ToSet(s)
  <2>1. ToSet(s) = {s[i] : i \in 1..n} /\ ToSet(t) = {t[i] : i \in 1..(n - 1)}
    BY <1>1, <1>4 DEF ToSet
  <2>2. QED
    BY <1>3, <1>5, <1>6, <1>7, <2>1
<1>9. IsInjective(s) => IsInjective(t) /\ Head(s) \notin ToSet(t)
  <2>1. HAVE IsInjective(s)
  <2>2. \A i, j \in 1..n : s[i] = s[j] => i = j
    BY <1>1, <2>1 DEF IsInjective
  <2>3. ASSUME NEW i \in 1..(n - 1), NEW j \in 1..(n - 1), t[i] = t[j] PROVE i = j
    <3>1. i + 1 = j + 1
      BY <1>3, <1>6, <2>2, <2>3
    <3>2. QED
      BY <3>1
  <2>4. \A i \in 1..(n - 1) : t[i] # Head(s)
    BY <1>3, <1>5, <1>6, <2>2
  <2>5. QED
    BY <1>4, <2>3, <2>4 DEF IsInjective, ToSet
<1>10. QED
  BY <1>1, <1>2, <1>3, <1>5, <1>8, <1>9 DEF t, n

-----------------------------------------------------------------------------
(* Keep: its partial results exist, and any function with its recurrence gives    *)
(* its value.                                                                *)
KeepRec(q, S, n, F) ==
  /\ F[0] = <<>>
  /\ \A i \in 1..n : F[i] = IF q[i] \in S THEN Append(F[i - 1], q[i]) ELSE F[i - 1]

(* Results of Keep's recurrence exist up to any length: else there is a least one    *)
(* without.                                                                  *)
LEMMA KeepPartial ==
  ASSUME NEW T, NEW q \in Seq(T), NEW S, NEW n \in 0..Len(q)
  PROVE  \E F \in [0..n -> Seq(T)] : KeepRec(q, S, n, F)
<1> DEFINE Good(m) == \E F \in [0..m -> Seq(T)] : KeepRec(q, S, m, F)
           B == {m \in 0..n : ~Good(m)}
<1>1. Len(q) \in Nat /\ n \in Nat /\ \A i \in 1..n : q[i] \in T
  BY LenProperties, ElementOfSeq
<1>2. SUFFICES ASSUME B # {} PROVE FALSE
  <2>1. n \in 0..n
    BY <1>1
  <2>2. QED
    BY <2>1
<1>3. PICK m \in B : \A y \in B : m <= y
  <2>1. B \in SUBSET Nat
    BY <1>1
  <2>2. \E m \in B : \A y \in B : m <= y
    <3> HIDE DEF B
    <3> QED
      BY <1>2, <2>1, LeastNatural
  <2>3. QED
    BY <2>2
<1>4. m # 0
  <2>1. Good(0)
    <3> DEFINE Z == [i \in 0..0 |-> <<>>]
    <3>1. Z \in [0..0 -> Seq(T)] /\ Z[0] = <<>>
      BY EmptySeq
    <3> HIDE DEF Z
    <3>2. KeepRec(q, S, 0, Z)
      BY <3>1 DEF KeepRec
    <3>3. QED
      BY <3>1, <3>2
  <2> HIDE DEF Good
  <2>2. QED
    BY <1>3, <2>1
<1>5. m - 1 \in 0..n /\ m \in 1..n /\ m - 1 < m
  BY <1>1, <1>3, <1>4
<1>6. Good(m - 1)
  <2> HIDE DEF Good
  <2> QED
    BY <1>1, <1>3, <1>5
<1>7. PICK F \in [0..(m - 1) -> Seq(T)] : KeepRec(q, S, m - 1, F)
  BY <1>6
<1> DEFINE last == IF q[m] \in S THEN Append(F[m - 1], q[m]) ELSE F[m - 1]
<1>8. last \in Seq(T)
  <2>1. F[m - 1] \in Seq(T) /\ q[m] \in T
    BY <1>1, <1>5
  <2>2. Append(F[m - 1], q[m]) \in Seq(T)
    BY <2>1, AppendProperties
  <2>3. QED
    BY <2>1, <2>2
<1> DEFINE E == [i \in 0..m |-> IF i = m THEN last ELSE F[i]]
<1>9. E \in [0..m -> Seq(T)]
  <2>1. \A i \in 0..m : i # m => i \in 0..(m - 1)
    BY <1>5
  <2> HIDE DEF last
  <2>2. QED
    BY <1>8, <2>1
<1>10. KeepRec(q, S, m, E)
  <2>1. E[m] = last /\ \A i \in 0..(m - 1) : E[i] = F[i]
    BY <1>5
  <2> HIDE DEF E
  <2>2. \A i \in 1..m : i = m \/ (i \in 1..(m - 1) /\ i - 1 \in 0..(m - 1) /\ i \in 0..(m - 1))
    BY <1>5
  <2>3. E[m - 1] = F[m - 1] /\ E[0] = F[0]
    BY <1>5, <2>1
  <2>4. QED
    BY <1>7, <2>1, <2>2, <2>3 DEF KeepRec
<1>11. QED
  <2>1. Good(m)
    <3> HIDE DEF E
    <3> QED
      BY <1>9, <1>10
  <2> HIDE DEF Good
  <2>2. QED
    BY <1>3, <2>1

(* Whatever satisfies the recurrence to the end of the queue ends in Keep.          *)
LEMMA KeepIs ==
  ASSUME NEW T, NEW q \in Seq(T), NEW S, NEW F \in [0..Len(q) -> Seq(T)],
         KeepRec(q, S, Len(q), F)
  PROVE  Keep(q, S) = F[Len(q)]
<1> DEFINE n == Len(q)
           Rec(f) == f = [i \in 0..n |-> IF i = 0 THEN <<>>
                                         ELSE IF q[i] \in S THEN Append(f[i - 1], q[i])
                                         ELSE f[i - 1]]
           f == CHOOSE g : Rec(g)
<1>1. n \in Nat
  BY LenProperties
<1>2. Rec(F)
  <2>1. \A i \in 0..n : F[i] = IF i = 0 THEN <<>>
                               ELSE IF q[i] \in S THEN Append(F[i - 1], q[i]) ELSE F[i - 1]
    <3>1. \A i \in 0..n : i # 0 => i \in 1..n
      BY <1>1
    <3>2. F[0] = <<>> /\ \A i \in 1..n : F[i] = IF q[i] \in S THEN Append(F[i - 1], q[i]) ELSE F[i - 1]
      BY DEF KeepRec
    <3> HIDE DEF n
    <3>3. QED
      BY <3>1, <3>2
  <2>2. F = [i \in 0..n |-> F[i]]
    OBVIOUS
  <2>3. QED
    BY <2>1, <2>2
<1>3. Rec(f)
  <2> HIDE DEF Rec
  <2> QED
    BY <1>2
<1>4. Keep(q, S) = f[n]
  BY DEF Keep
<1>5. KeepRec(q, S, n, f)
  <2> HIDE DEF f
  <2> DEFINE h == f
  <2> HIDE DEF h
  <2>1. h = [i \in 0..n |-> IF i = 0 THEN <<>>
                            ELSE IF q[i] \in S THEN Append(h[i - 1], q[i]) ELSE h[i - 1]]
    BY <1>3 DEF h
  <2>2. 0 \in 0..n /\ \A i \in 1..n : i \in 0..n /\ i # 0
    BY <1>1
  <2>3. h[0] = <<>>
    <3> HIDE DEF n
    <3> QED
      BY <2>1, <2>2
  <2>4. \A i \in 1..n : h[i] = IF q[i] \in S THEN Append(h[i - 1], q[i]) ELSE h[i - 1]
    <3> HIDE DEF n
    <3> QED
      BY <2>1, <2>2
  <2>5. QED
    BY <2>3, <2>4 DEF h, KeepRec
<1> HIDE DEF f
<1> DEFINE B == {i \in 0..n : f[i] # F[i]}
<1>6. SUFFICES ASSUME B # {} PROVE FALSE
  BY <1>1, <1>4
<1>7. PICK m \in B : \A y \in B : m <= y
  <2>1. B \in SUBSET Nat
    BY <1>1
  <2>2. \E m \in B : \A y \in B : m <= y
    <3> HIDE DEF B
    <3> QED
      BY <1>6, <2>1, LeastNatural
  <2>3. QED
    BY <2>2
<1>8. m # 0
  BY <1>5, <1>7 DEF KeepRec
<1>9. m \in 1..n /\ m - 1 \in 0..n /\ m - 1 < m
  BY <1>1, <1>7, <1>8
<1>10. f[m - 1] = F[m - 1]
  BY <1>7, <1>9
<1>11. QED
  BY <1>5, <1>7, <1>9, <1>10 DEF KeepRec

(* What Keep keeps, and that it repeats nothing.                               *)
LEMMA KeepFacts ==
  ASSUME NEW T, NEW q \in Seq(T), NEW S
  PROVE  /\ Keep(q, S) \in Seq(T)
         /\ ToSet(Keep(q, S)) = ToSet(q) \cap S
         /\ IsInjective(q) => IsInjective(Keep(q, S))
<1>0. Len(q) \in Nat /\ DOMAIN q = 1..Len(q) /\ \A i \in 1..Len(q) : q[i] \in T
  BY LenProperties, ElementOfSeq
<1>1. PICK F \in [0..Len(q) -> Seq(T)] : KeepRec(q, S, Len(q), F)
  <2>1. Len(q) \in 0..Len(q)
    BY <1>0
  <2>2. QED
    BY <2>1, KeepPartial
<1>2. Keep(q, S) = F[Len(q)]
  BY <1>1, KeepIs
<1> DEFINE Good(m) == /\ ToSet(F[m]) = {q[i] : i \in 1..m} \cap S
                      /\ IsInjective(q) => IsInjective(F[m])
           B == {m \in 0..Len(q) : ~Good(m)}
<1>3. B = {}
  <2>1. SUFFICES ASSUME B # {} PROVE FALSE
    OBVIOUS
  <2>2. PICK m \in B : \A y \in B : m <= y
    <3>1. B \in SUBSET Nat
      BY <1>0
    <3>2. \E m \in B : \A y \in B : m <= y
      <4> HIDE DEF B
      <4> QED
        BY <2>1, <3>1, LeastNatural
    <3>3. QED
      BY <3>2
  <2>3. m # 0
    <3>1. F[0] = <<>>
      BY <1>1 DEF KeepRec
    <3>2. ToSet(<<>>) = {} /\ IsInjective(<<>>)
      BY DEF ToSet, IsInjective
    <3>3. Good(0)
      BY <3>1, <3>2
    <3> HIDE DEF Good
    <3>4. QED
      BY <2>2, <3>3
  <2>4. m \in 1..Len(q) /\ m - 1 \in 0..Len(q) /\ m - 1 < m
    BY <1>0, <2>2, <2>3
  <2>5. Good(m - 1)
    <3> HIDE DEF Good
    <3> QED
      BY <1>0, <2>2, <2>4
  <2>6. F[m - 1] \in Seq(T) /\ q[m] \in T
    BY <1>0, <2>4
  <2>7. F[m] = IF q[m] \in S THEN Append(F[m - 1], q[m]) ELSE F[m - 1]
    BY <1>1, <2>4 DEF KeepRec
  <2>8. {q[i] : i \in 1..m} = {q[i] : i \in 1..(m - 1)} \union {q[m]}
    <3>1. \A i \in 1..m : i \in 1..(m - 1) \/ i = m
      BY <2>4
    <3>2. m \in 1..m /\ \A i \in 1..(m - 1) : i \in 1..m
      BY <2>4
    <3>3. QED
      BY <3>1, <3>2
  <2>9. IsInjective(q) => q[m] \notin {q[i] : i \in 1..(m - 1)}
    <3>1. \A i \in 1..(m - 1) : i \in 1..Len(q) /\ i # m
      BY <1>0, <2>4
    <3>2. QED
      BY <1>0, <2>4, <3>1 DEF IsInjective
  <2>10. Good(m)
    <3> DEFINE a == F[m - 1]
               e == q[m]
               P == {q[i] : i \in 1..(m - 1)}
    <3>1. a \in Seq(T) /\ e \in T /\ ToSet(a) = P \cap S
          /\ (IsInjective(q) => IsInjective(a) /\ e \notin P)
      BY <2>5, <2>6, <2>9
    <3>2. F[m] = (IF e \in S THEN Append(a, e) ELSE a) /\ {q[i] : i \in 1..m} = P \union {e}
      BY <2>7, <2>8
    <3> HIDE DEF a, e, P
    <3>3. /\ ToSet(Append(a, e)) = ToSet(a) \union {e}
          /\ IsInjective(a) /\ e \notin ToSet(a) => IsInjective(Append(a, e))
      BY <3>1, AppendFacts
    <3>4. ToSet(F[m]) = (P \union {e}) \cap S
      BY <3>1, <3>2, <3>3
    <3>5. IsInjective(q) => IsInjective(F[m])
      BY <3>1, <3>2, <3>3
    <3>6. QED
      BY <3>2, <3>4, <3>5
  <2>11. QED
    <3> HIDE DEF Good
    <3> QED
      BY <2>2, <2>10
<1>4. Good(Len(q))
  <2> HIDE DEF Good
  <2> QED
    BY <1>0, <1>3
<1>5. ToSet(q) = {q[i] : i \in 1..Len(q)}
  BY <1>0 DEF ToSet
<1>6. F[Len(q)] \in Seq(T)
  BY <1>0
<1>7. QED
  BY <1>2, <1>4, <1>5, <1>6

(* A recurrence whose steps stay in a set has a solution.                       *)
Solvable(V, n, first, G) ==
  \E F \in [0..n -> V] : F[0] = first /\ \A i \in 1..n : F[i] = G[i][F[i - 1]]
LEMMA RecurrenceSolved ==
  ASSUME NEW V, NEW n \in Nat, NEW first \in V, NEW G \in [1..n -> [V -> V]]
  PROVE  Solvable(V, n, first, G)
<1> USE DEF Solvable
<1> DEFINE Good(m) == \E F \in [0..m -> V] :
                        F[0] = first /\ \A i \in 1..m : F[i] = G[i][F[i - 1]]
           B == {m \in 0..n : ~Good(m)}
<1>1. SUFFICES ASSUME B # {} PROVE FALSE
  <2>1. n \in 0..n
    OBVIOUS
  <2>2. QED
    BY <2>1
<1>2. PICK m \in B : \A y \in B : m <= y
  <2>1. B \in SUBSET Nat
    OBVIOUS
  <2>2. \E m \in B : \A y \in B : m <= y
    <3> HIDE DEF B
    <3> QED
      BY <1>1, <2>1, LeastNatural
  <2>3. QED
    BY <2>2
<1>3. m # 0
  <2>1. Good(0)
    <3> DEFINE Z == [i \in 0..0 |-> first]
    <3>1. Z \in [0..0 -> V] /\ Z[0] = first /\ \A i \in 1..0 : FALSE
      OBVIOUS
    <3> HIDE DEF Z
    <3>2. QED
      BY <3>1
  <2> HIDE DEF Good
  <2>2. QED
    BY <1>2, <2>1
<1>4. m \in Nat /\ m - 1 \in 0..n /\ m \in 1..n /\ m - 1 < m
  BY <1>2, <1>3
<1>5. Good(m - 1)
  <2> HIDE DEF Good
  <2> QED
    BY <1>2, <1>4
<1>6. PICK F \in [0..(m - 1) -> V] :
        F[0] = first /\ \A i \in 1..(m - 1) : F[i] = G[i][F[i - 1]]
  BY <1>5
<1> DEFINE last == G[m][F[m - 1]]
<1>7. last \in V
  <2>1. F[m - 1] \in V
    BY <1>4
  <2>2. QED
    BY <1>4, <2>1
<1> HIDE DEF last
<1> DEFINE E == [i \in 0..m |-> IF i = m THEN last ELSE F[i]]
<1>8. E \in [0..m -> V]
  <2>1. \A i \in 0..m : i # m => i \in 0..(m - 1)
    BY <1>4
  <2>2. QED
    BY <1>7, <2>1
<1>9. E[m] = last /\ \A i \in 0..(m - 1) : E[i] = F[i]
  BY <1>4
<1> HIDE DEF E
<1>10. E[0] = first /\ \A i \in 1..m : E[i] = G[i][E[i - 1]]
  <2>1. \A i \in 1..m : i = m \/ (i \in 1..(m - 1) /\ i - 1 \in 0..(m - 1) /\ i \in 0..(m - 1))
    BY <1>4
  <2>2. E[m - 1] = F[m - 1] /\ E[0] = F[0]
    BY <1>4, <1>9
  <2>3. QED
    BY <1>6, <1>9, <2>1, <2>2 DEF last
<1>11. Good(m)
  BY <1>8, <1>10
<1>12. QED
  <2> HIDE DEF Good
  <2> QED
    BY <1>2, <1>11

(* What its steps preserve holds to its end.                                   *)
LEMMA RecurrenceStays ==
  ASSUME NEW V, NEW n \in Nat, NEW h, h[0] \in V,
         \A i \in 1..n : h[i - 1] \in V => h[i] \in V
  PROVE  h[n] \in V
<1> DEFINE B == {m \in 0..n : h[m] \notin V}
<1>1. SUFFICES ASSUME B # {} PROVE FALSE
  <2>1. n \in 0..n
    OBVIOUS
  <2>2. QED
    BY <2>1
<1>2. PICK m \in B : \A y \in B : m <= y
  <2>1. B \in SUBSET Nat
    OBVIOUS
  <2>2. \E m \in B : \A y \in B : m <= y
    <3> HIDE DEF B
    <3> QED
      BY <1>1, <2>1, LeastNatural
  <2>3. QED
    BY <2>2
<1>3. m # 0
  BY <1>2
<1>4. m \in 1..n /\ m - 1 \in 0..n /\ m - 1 < m
  BY <1>2, <1>3
<1>5. h[m - 1] \in V
  BY <1>2, <1>4
<1>6. QED
  BY <1>2, <1>4, <1>5

-----------------------------------------------------------------------------
(* The ledger of a request: L outputs in flight after the one being processed;  *)
(* output i has N[i] tokens of the request and samples A[i] from position P[i]   *)
(* (0: from where the worker's last sample ended, nx).  T is the number of        *)
(* known tokens; st, inf, sta, dr and ph are its status, in-flight, stale, drop  *)
(* and placeholder fields.  From output m on, the samples are a chain: the first  *)
(* starts at T, or where the worker is, and every later one where the worker is. *)
ChainFrom(m, L, A, P, T, nx) ==
  \A i \in m..L : A[i] > 0 =>
    /\ (\A j \in m..(i - 1) : A[j] = 0) =>
         \/ P[i] = T
         \/ P[i] = 0 /\ nx = T /\ \A j \in 0..(i - 1) : A[j] = 0
    /\ (\E j \in m..(i - 1) : A[j] > 0) => P[i] = 0

(* F counts tokens: all are in flight, those of the outputs before k stale.    *)
Counts(F, k, L, N, inf, sta) ==
  /\ F[0] = 0 /\ \A i \in 0..L : F[i + 1] = F[i] + N[i]
  /\ \A i, j \in 0..(L + 1) : i <= j => F[i] <= F[j]
  /\ inf = F[L + 1] /\ sta = F[k]
(* G counts samples: those of the outputs from k on hold a placeholder.        *)
Holders(G, k, L, A, ph) ==
  /\ G[k] = 0 /\ \A i \in k..L : G[i + 1] = G[i] + A[i]
  /\ \A i, j \in k..(L + 1) : i <= j => G[i] <= G[j]
  /\ ph = G[L + 1]
LedgerWith(F, G, k, L, N, A, P, T, st, inf, sta, dr, ph, nx) ==
  /\ Counts(F, k, L, N, inf, sta)
  /\ st = "RUNNING" => /\ sta = 0 \/ dr
                       /\ Holders(G, k, L, A, ph)
                       /\ ChainFrom(k, L, A, P, T, nx)
  /\ st # "RUNNING" => /\ ph = 0 /\ sta = inf
                       /\ ~dr => ChainFrom(0, L, A, P, T, nx)

LedgerOf(L, N, A, P, T, st, inf, sta, dr, ph, nx) ==
  \E F \in [0..(L + 1) -> Nat], G \in [0..(L + 1) -> Nat], k \in 0..(L + 1) :
    LedgerWith(F, G, k, L, N, A, P, T, st, inf, sta, dr, ph, nx)

(* The arithmetic of the ledgers, stated once.                                *)
LEMMA Arithmetic ==
  /\ \A x, y \in Nat : x + y \in Nat /\ x <= x + y
  /\ \A x, y, z \in Nat : x <= y => x <= y + z
  /\ \A x \in Int : x - x = 0 /\ 0 + 0 = 0
  /\ \A x, y \in Nat : x <= y => y - x \in Nat
  /\ \A x, y, z \in Int : (x + y) - z = (x - z) + y
  /\ \A x, y, z \in Nat : z = x + y /\ 0 <= x /\ z <= 0 => x = 0 /\ y = 0
  OBVIOUS

(* A request with nothing in flight.                                         *)
LEMMA LedgerStart ==
  ASSUME NEW L \in Nat, NEW N, NEW A, NEW P, NEW T, NEW st, st # "RUNNING", NEW dr, NEW nx,
         \A i \in 0..L : N[i] = 0 /\ A[i] = 0
  PROVE  LedgerOf(L, N, A, P, T, st, 0, 0, dr, 0, nx)
<1> DEFINE F == [i \in 0..(L + 1) |-> 0]
<1>1. F \in [0..(L + 1) -> Nat] /\ 0 \in 0..(L + 1) /\ \A i \in 0..(L + 1) : F[i] = 0
  OBVIOUS
<1> HIDE DEF F
<1>2. \A i \in 0..L : i \in 0..(L + 1) /\ i + 1 \in 0..(L + 1)
  OBVIOUS
<1>3. Counts(F, 0, L, N, 0, 0)
  BY <1>1, <1>2 DEF Counts
<1>4. ChainFrom(0, L, A, P, T, nx)
  BY DEF ChainFrom
<1>5. LedgerWith(F, F, 0, L, N, A, P, T, st, 0, 0, dr, 0, nx)
  BY <1>3, <1>4 DEF LedgerWith
<1>6. QED
  BY <1>1, <1>5 DEF LedgerOf

(* The ledger has one output more, and what its samples start from.              *)
Prolongs(L, N, A, P, N2, A2, P2) ==
  \A i \in 0..L : N2[i] = N[i] /\ A2[i] = A[i] /\ P2[i] = P[i]
Continues(a, p, ph, T) == a > 0 => p = IF ph = 0 THEN T ELSE 0

(* A request joins, or does not join, one more output at the end.             *)
LEMMA LedgerGrow ==
  ASSUME NEW L \in Nat, NEW N \in [0..L -> Nat], NEW A \in [0..L -> Nat], NEW P \in [0..L -> Int],
         NEW N2 \in [0..(L + 1) -> Nat], NEW A2 \in [0..(L + 1) -> Nat],
         NEW P2 \in [0..(L + 1) -> Int],
         Prolongs(L, N, A, P, N2, A2, P2),
         NEW T, NEW st, NEW inf, NEW sta, NEW dr, NEW ph, NEW nx,
         LedgerOf(L, N, A, P, T, st, inf, sta, dr, ph, nx),
         st # "RUNNING" => N2[L + 1] = 0 /\ A2[L + 1] = 0,
         Continues(A2[L + 1], P2[L + 1], ph, T)
  PROVE  LedgerOf(L + 1, N2, A2, P2, T, st, inf + N2[L + 1], sta, dr, ph + A2[L + 1], nx)
<1>1. PICK F \in [0..(L + 1) -> Nat], G \in [0..(L + 1) -> Nat], k \in 0..(L + 1) :
        LedgerWith(F, G, k, L, N, A, P, T, st, inf, sta, dr, ph, nx)
  BY DEF LedgerOf
<1> DEFINE n == N2[L + 1]
           a == A2[L + 1]
           E == [i \in 0..(L + 2) |-> IF i = L + 2 THEN F[L + 1] + n ELSE F[i]]
           H == [i \in 0..(L + 2) |-> IF i = L + 2 THEN G[L + 1] + a ELSE G[i]]
<1>p. \A i \in 0..L : N2[i] = N[i] /\ A2[i] = A[i] /\ P2[i] = P[i]
  BY DEF Prolongs
<1>2. n \in Nat /\ a \in Nat /\ F[L + 1] \in Nat /\ G[L + 1] \in Nat
  OBVIOUS
<1>3. /\ E \in [0..(L + 2) -> Nat] /\ H \in [0..(L + 2) -> Nat] /\ k \in 0..(L + 2)
      /\ E[L + 2] = F[L + 1] + n /\ H[L + 2] = G[L + 1] + a
      /\ \A i \in 0..(L + 1) : E[i] = F[i] /\ H[i] = G[i]
  <2>1. \A i \in 0..(L + 2) : i # L + 2 => i \in 0..(L + 1)
    OBVIOUS
  <2>2. \A i \in 0..(L + 1) : i # L + 2 /\ i \in 0..(L + 2)
    OBVIOUS
  <2>3. L + 2 \in 0..(L + 2) /\ k \in 0..(L + 2)
    OBVIOUS
  <2> HIDE DEF n, a
  <2>4. \A i \in 0..(L + 1) : F[i] \in Nat /\ G[i] \in Nat
    OBVIOUS
  <2>5. F[L + 1] + n \in Nat /\ G[L + 1] + a \in Nat
    BY <1>2, Arithmetic
  <2>6. E \in [0..(L + 2) -> Nat] /\ H \in [0..(L + 2) -> Nat]
    BY <2>1, <2>4, <2>5
  <2>7. E[L + 2] = F[L + 1] + n /\ H[L + 2] = G[L + 1] + a
    BY <2>3
  <2>8. \A i \in 0..(L + 1) : E[i] = F[i] /\ H[i] = G[i]
    BY <2>2
  <2>9. QED
    BY <2>3, <2>6, <2>7, <2>8
<1> HIDE DEF E, H, n, a
<1>4. Counts(F, k, L, N, inf, sta)
  BY <1>1 DEF LedgerWith
<1>5. Counts(E, k, L + 1, N2, inf + n, sta)
  <2>1. E[0] = 0
    BY <1>3, <1>4 DEF Counts
  <2>2. ASSUME NEW i \in 0..(L + 1) PROVE E[i + 1] = E[i] + N2[i]
    <3>1. CASE i = L + 1
      <4>1. i + 1 = L + 2 /\ i \in 0..(L + 1)
        BY <3>1
      <4>2. QED
        BY <1>3, <3>1, <4>1 DEF n
    <3>2. CASE i # L + 1
      <4>1. i \in 0..L /\ i + 1 \in 0..(L + 1)
        BY <3>2
      <4>2. F[i + 1] = F[i] + N[i]
        BY <1>4, <4>1 DEF Counts
      <4>3. QED
        BY <1>p, <1>3, <4>1, <4>2
    <3>3. QED
      BY <3>1, <3>2
  <2>3. ASSUME NEW i \in 0..((L + 1) + 1), NEW j \in 0..((L + 1) + 1), i <= j
        PROVE  E[i] <= E[j]
    <3>1. CASE j = L + 2 /\ i # L + 2
      <4>1. i \in 0..(L + 1) /\ i <= L + 1 /\ L + 1 \in 0..(L + 1)
        BY <3>1
      <4>2. F[i] <= F[L + 1] /\ F[i] \in Nat
        BY <1>4, <4>1 DEF Counts
      <4>3. E[i] = F[i] /\ E[j] = F[L + 1] + n
        BY <1>3, <3>1, <4>1
      <4>4. F[i] <= F[L + 1] + n
        BY <1>2, <4>2, Arithmetic
      <4>5. QED
        BY <4>3, <4>4
    <3>2. CASE j = L + 2 /\ i = L + 2
      <4>1. E[L + 2] \in Nat
        BY <1>2, <1>3, Arithmetic
      <4>2. E[L + 2] <= E[L + 2]
        <5> DEFINE x == E[L + 2]
        <5>1. x \in Nat
          BY <4>1
        <5> HIDE DEF x
        <5>2. x <= x
          BY <5>1
        <5>3. QED
          BY <5>2 DEF x
      <4>3. QED
        BY <3>2, <4>2
    <3>3. CASE j # L + 2
      <4>1. i \in 0..(L + 1) /\ j \in 0..(L + 1)
        BY <2>3, <3>3
      <4>2. F[i] <= F[j]
        BY <1>4, <2>3, <4>1 DEF Counts
      <4>3. QED
        BY <1>3, <4>1, <4>2
    <3>4. QED
      BY <3>1, <3>2, <3>3
  <2>4. inf + n = E[(L + 1) + 1]
    BY <1>3, <1>4 DEF Counts
  <2>5. sta = E[k]
    BY <1>3, <1>4 DEF Counts
  <2>6. QED
    BY <2>1, <2>2, <2>3, <2>4, <2>5 DEF Counts
<1>6. ASSUME NEW m \in 0..(L + 1), ChainFrom(m, L, A, P, T, nx),
             a > 0 => \/ P2[L + 1] = T /\ \A j \in m..L : A[j] = 0
                      \/ P2[L + 1] = 0 /\ \E j \in m..L : A[j] > 0
      PROVE  ChainFrom(m, L + 1, A2, P2, T, nx)
  <2> SUFFICES ASSUME NEW i \in m..(L + 1), A2[i] > 0
               PROVE  /\ (\A j \in m..(i - 1) : A2[j] = 0) =>
                           \/ P2[i] = T
                           \/ P2[i] = 0 /\ nx = T /\ \A j \in 0..(i - 1) : A2[j] = 0
                      /\ (\E j \in m..(i - 1) : A2[j] > 0) => P2[i] = 0
    BY DEF ChainFrom
  <2>1. \A j \in 0..(i - 1) : j \in 0..L
    OBVIOUS
  <2>2. \A j \in m..(i - 1) : j \in 0..L
    OBVIOUS
  <2>3. CASE i = L + 1
    <3>1. i - 1 = L
      BY <2>3
    <3>2. \A j \in m..L : A2[j] = A[j] /\ A[j] \in Nat
      BY <1>p, <2>2, <3>1
    <3>3. \/ P2[L + 1] = T /\ \A j \in m..L : A[j] = 0
          \/ P2[L + 1] = 0 /\ \E j \in m..L : A[j] > 0
      BY <1>6, <2>3 DEF a
    <3>4. (\A j \in m..L : A2[j] = 0) => P2[L + 1] = T
      <4>1. (\A j \in m..L : A2[j] = 0) => ~(\E j \in m..L : A[j] > 0)
        BY <3>2
      <4>2. QED
        BY <3>3, <4>1
    <3>5. (\E j \in m..L : A2[j] > 0) => P2[L + 1] = 0
      <4>1. (\E j \in m..L : A2[j] > 0) => ~(\A j \in m..L : A[j] = 0)
        BY <3>2
      <4>2. QED
        BY <3>3, <4>1
    <3>6. QED
      BY <2>3, <3>1, <3>4, <3>5
  <2>4. CASE i # L + 1
    <3>1. i \in m..L /\ i \in 0..L
      BY <2>4
    <3>2. A2[i] = A[i] /\ P2[i] = P[i]
      BY <1>p, <3>1
    <3>3. /\ (\A j \in m..(i - 1) : A[j] = 0) =>
                 \/ P[i] = T
                 \/ P[i] = 0 /\ nx = T /\ \A j \in 0..(i - 1) : A[j] = 0
          /\ (\E j \in m..(i - 1) : A[j] > 0) => P[i] = 0
      BY <1>6, <3>1, <3>2 DEF ChainFrom
    <3>4. \A j \in 0..L : A2[j] = A[j]
      BY <1>p
    <3>5. QED
      BY <2>1, <2>2, <3>2, <3>3, <3>4
  <2>5. QED
    BY <2>3, <2>4
<1>7. CASE st = "RUNNING"
  <2>1. (sta = 0 \/ dr) /\ Holders(G, k, L, A, ph) /\ ChainFrom(k, L, A, P, T, nx)
    BY <1>1, <1>7 DEF LedgerWith
  <2>2. /\ G[k] = 0 /\ \A i \in k..L : G[i + 1] = G[i] + A[i]
        /\ \A i, j \in k..(L + 1) : i <= j => G[i] <= G[j]
        /\ ph = G[L + 1]
    BY <2>1 DEF Holders
  <2>3. Holders(H, k, L + 1, A2, ph + a)
    <3>1. H[k] = 0 /\ ph + a = H[(L + 1) + 1]
      BY <1>3, <2>2
    <3>2. ASSUME NEW i \in k..(L + 1) PROVE H[i + 1] = H[i] + A2[i]
      <4>1. CASE i = L + 1
        <5>1. i + 1 = L + 2 /\ i \in 0..(L + 1)
          BY <4>1
        <5>2. QED
          BY <1>3, <4>1, <5>1 DEF a
      <4>2. CASE i # L + 1
        <5>1. i \in 0..L /\ i + 1 \in 0..(L + 1) /\ i \in k..L /\ i \in 0..(L + 1)
          BY <4>2
        <5>2. QED
          BY <1>p, <1>3, <2>2, <5>1
      <4>3. QED
        BY <4>1, <4>2
    <3>3. ASSUME NEW i \in k..((L + 1) + 1), NEW j \in k..((L + 1) + 1), i <= j
          PROVE  H[i] <= H[j]
      <4>1. CASE j = L + 2 /\ i # L + 2
        <5>1. i \in k..(L + 1) /\ i <= L + 1 /\ L + 1 \in k..(L + 1) /\ i \in 0..(L + 1)
          BY <4>1
        <5>2. G[i] <= G[L + 1] /\ G[i] \in Nat
          BY <2>2, <5>1
        <5>3. H[i] = G[i] /\ H[j] = G[L + 1] + a
          BY <1>3, <4>1, <5>1
        <5>4. G[i] <= G[L + 1] + a
          BY <1>2, <5>2, Arithmetic
        <5>5. QED
          BY <5>3, <5>4
      <4>2. CASE j = L + 2 /\ i = L + 2
        <5>1. H[L + 2] \in Nat
          BY <1>2, <1>3, Arithmetic
        <5>2. H[L + 2] <= H[L + 2]
          <6> DEFINE x == H[L + 2]
          <6>1. x \in Nat
            BY <5>1
          <6> HIDE DEF x
          <6>2. x <= x
            BY <6>1
          <6>3. QED
            BY <6>2 DEF x
        <5>3. QED
          BY <4>2, <5>2
      <4>3. CASE j # L + 2
        <5>1. i \in k..(L + 1) /\ j \in k..(L + 1) /\ i \in 0..(L + 1) /\ j \in 0..(L + 1)
          BY <3>3, <4>3
        <5>2. G[i] <= G[j]
          BY <2>2, <3>3, <5>1
        <5>3. QED
          BY <1>3, <5>1, <5>2
      <4>4. QED
        BY <4>1, <4>2, <4>3
    <3>4. QED
      BY <3>1, <3>2, <3>3 DEF Holders
  <2>4. a > 0 => \/ P2[L + 1] = T /\ \A j \in k..L : A[j] = 0
                 \/ P2[L + 1] = 0 /\ \E j \in k..L : A[j] > 0
    <3>1. CASE ph = 0
      <4>1. ASSUME NEW j \in k..L PROVE A[j] = 0
        <5>1. /\ j \in k..(L + 1) /\ j + 1 \in k..(L + 1) /\ L + 1 \in k..(L + 1) /\ k \in k..(L + 1)
              /\ j \in 0..L /\ j \in 0..(L + 1) /\ j + 1 \in 0..(L + 1) /\ k <= j /\ j + 1 <= L + 1
          OBVIOUS
        <5>2. G[k] <= G[j] /\ G[j + 1] <= G[L + 1] /\ G[j + 1] = G[j] + A[j]
          BY <2>2, <5>1
        <5>3. G[j] \in Nat /\ A[j] \in Nat /\ G[j + 1] \in Nat
          BY <5>1
        <5>4. G[k] = 0 /\ G[L + 1] = 0
          BY <2>2, <3>1
        <5> DEFINE x == G[j]
                   y == A[j]
                   z == G[j + 1]
        <5>5. x \in Nat /\ y \in Nat /\ z \in Nat /\ 0 <= x /\ z <= 0 /\ z = x + y
          BY <5>2, <5>3, <5>4
        <5> HIDE DEF x, y, z
        <5>6. y = 0
          BY <5>5
        <5>7. QED
          BY <5>6 DEF y
      <4>2. QED
        BY <3>1, <4>1 DEF a, Continues
    <3>2. CASE ph # 0
      <4> DEFINE S == {i \in k..(L + 1) : G[i] # 0}
      <4>1. S \in SUBSET Nat /\ L + 1 \in S
        BY <2>2, <3>2
      <4>2. PICK i \in S : \A y \in S : i <= y
        <5> HIDE DEF S
        <5>1. \E i \in S : \A y \in S : i <= y
          BY <4>1, LeastNatural
        <5>2. QED
          BY <5>1
      <4>3. i # k /\ i \in k..(L + 1)
        BY <2>2, <4>2
      <4>4. i - 1 \in k..L /\ i - 1 \notin S /\ (i - 1) + 1 = i
        BY <4>2, <4>3
      <4>5. G[i - 1] = 0 /\ G[i] # 0 /\ G[i] = G[i - 1] + A[i - 1]
        BY <2>2, <4>2, <4>4
      <4>6. A[i - 1] \in Nat
        BY <4>4
      <4>7. A[i - 1] > 0
        <5> DEFINE x == A[i - 1]
        <5>1. x \in Nat /\ 0 + x # 0
          BY <4>5, <4>6
        <5> HIDE DEF x
        <5>2. x > 0
          BY <5>1
        <5>3. QED
          BY <5>2 DEF x
      <4>8. QED
        BY <3>2, <4>4, <4>7 DEF a, Continues
    <3>3. QED
      BY <3>1, <3>2
  <2>5. ChainFrom(k, L + 1, A2, P2, T, nx)
    BY <1>6, <2>1, <2>4
  <2>6. LedgerWith(E, H, k, L + 1, N2, A2, P2, T, st, inf + n, sta, dr, ph + a, nx)
    BY <1>5, <1>7, <2>1, <2>3, <2>5 DEF LedgerWith
  <2>7. (L + 1) + 1 = L + 2
    OBVIOUS
  <2>8. LedgerOf(L + 1, N2, A2, P2, T, st, inf + n, sta, dr, ph + a, nx)
    BY <1>3, <2>6, <2>7 DEF LedgerOf
  <2>9. QED
    BY <2>8 DEF n, a
<1>8. CASE st # "RUNNING"
  <2>1. n = 0 /\ a = 0 /\ ph = 0 /\ sta = inf
    BY <1>1, <1>8 DEF LedgerWith, n, a
  <2>2. ~dr => ChainFrom(0, L + 1, A2, P2, T, nx)
    BY <1>1, <1>6, <1>8, <2>1 DEF LedgerWith
  <2>3. inf + n = inf /\ ph + a = 0
    <3>1. inf \in Nat
      BY <1>2, <1>4 DEF Counts
    <3>2. QED
      BY <2>1, <3>1
  <2>4. LedgerWith(E, H, k, L + 1, N2, A2, P2, T, st, inf + n, sta, dr, ph + a, nx)
    BY <1>5, <1>8, <2>1, <2>2, <2>3 DEF LedgerWith
  <2>5. (L + 1) + 1 = L + 2
    OBVIOUS
  <2>6. LedgerOf(L + 1, N2, A2, P2, T, st, inf + n, sta, dr, ph + a, nx)
    BY <1>3, <2>4, <2>5 DEF LedgerOf
  <2>7. QED
    BY <2>6 DEF n, a
<1>9. QED
  BY <1>7, <1>8

(* A request whose part of the oldest output is done starts on the next one.   *)
Shifted(L, N, A, P, N2, A2, P2) ==
  /\ N[0] = 0 /\ A[0] = 0
  /\ \A i \in 0..(L - 1) :
       N2[i] = N[i + 1] /\ A2[i] = A[i + 1] /\ (A2[i] > 0 => P2[i] = P[i + 1])

(* The chain of sample positions seen from one output later.                  *)
LEMMA ChainShift ==
  ASSUME NEW L \in Nat \ {0}, NEW A \in [0..L -> Nat], NEW P, NEW N, NEW N2,
         NEW A2 \in [0..(L - 1) -> Nat], NEW P2, Shifted(L, N, A, P, N2, A2, P2),
         NEW T, NEW nx, NEW m \in 0..(L + 1), ChainFrom(m, L, A, P, T, nx),
         NEW q \in 0..L, q = IF m = 0 THEN 0 ELSE m - 1
  PROVE  ChainFrom(q, L - 1, A2, P2, T, nx)
<1> SUFFICES ASSUME NEW i \in q..(L - 1), A2[i] > 0
             PROVE  /\ (\A j \in q..(i - 1) : A2[j] = 0) =>
                         \/ P2[i] = T
                         \/ P2[i] = 0 /\ nx = T /\ \A j \in 0..(i - 1) : A2[j] = 0
                    /\ (\E j \in q..(i - 1) : A2[j] > 0) => P2[i] = 0
  BY DEF ChainFrom
<1>1. i \in 0..(L - 1) /\ i + 1 \in m..L /\ (i + 1) - 1 = i
  OBVIOUS
<1>2. A[i + 1] > 0 /\ P2[i] = P[i + 1] /\ A[0] = 0
  BY <1>1 DEF Shifted
<1>3. /\ (\A j \in m..i : A[j] = 0) =>
           \/ P[i + 1] = T
           \/ P[i + 1] = 0 /\ nx = T /\ \A j \in 0..i : A[j] = 0
      /\ (\E j \in m..i : A[j] > 0) => P[i + 1] = 0
  BY <1>1, <1>2 DEF ChainFrom
<1>4. \A j \in 0..(i - 1) : A2[j] = A[j + 1] /\ j + 1 \in 0..i /\ j \in 0..(L - 1)
  BY DEF Shifted
<1>5. \A j \in 0..i : j = 0 \/ (j - 1 \in 0..(i - 1) /\ (j - 1) + 1 = j)
  OBVIOUS
<1>6. \A j \in m..i : j = 0 \/ (j - 1 \in q..(i - 1) /\ (j - 1) + 1 = j /\ j - 1 \in 0..(i - 1))
  OBVIOUS
<1>7. \A j \in q..(i - 1) : j + 1 \in m..i /\ j \in 0..(i - 1)
  OBVIOUS
<1>8. (\A j \in q..(i - 1) : A2[j] = 0) => \A j \in m..i : A[j] = 0
  BY <1>2, <1>4, <1>6
<1>9. (\A j \in 0..i : A[j] = 0) => \A j \in 0..(i - 1) : A2[j] = 0
  BY <1>4
<1>10. (\E j \in q..(i - 1) : A2[j] > 0) => \E j \in m..i : A[j] > 0
  BY <1>4, <1>7
<1>11. QED
  BY <1>2, <1>3, <1>8, <1>9, <1>10

(* The ledger seen from one output later.                                     *)
LEMMA LedgerShift ==
  ASSUME NEW L \in Nat \ {0}, NEW N \in [0..L -> Nat], NEW A \in [0..L -> Nat], NEW P,
         NEW N2 \in [0..(L - 1) -> Nat], NEW A2 \in [0..(L - 1) -> Nat], NEW P2,
         Shifted(L, N, A, P, N2, A2, P2),
         NEW T, NEW st, NEW inf, NEW sta, NEW dr, NEW ph, NEW nx,
         LedgerOf(L, N, A, P, T, st, inf, sta, dr, ph, nx)
  PROVE  LedgerOf(L - 1, N2, A2, P2, T, st, inf, sta, dr, ph, nx)
<1>1. PICK F \in [0..(L + 1) -> Nat], G \in [0..(L + 1) -> Nat], k \in 0..(L + 1) :
        LedgerWith(F, G, k, L, N, A, P, T, st, inf, sta, dr, ph, nx)
  BY DEF LedgerOf
<1> DEFINE E == [i \in 0..L |-> F[i + 1]]
           H == [i \in 0..L |-> G[i + 1]]
           q == IF k = 0 THEN 0 ELSE k - 1
<1>2. /\ E \in [0..L -> Nat] /\ H \in [0..L -> Nat]
      /\ \A i \in 0..L : E[i] = F[i + 1] /\ H[i] = G[i + 1]
  <2>1. \A i \in 0..L : i + 1 \in 0..(L + 1)
    OBVIOUS
  <2>2. QED
    BY <2>1
<1>3. /\ q \in 0..L /\ (k = 0 => q = 0) /\ (k # 0 => q + 1 = k)
      /\ q = IF k = 0 THEN 0 ELSE k - 1
  OBVIOUS
<1> HIDE DEF E, H, q
<1>4. Counts(F, k, L, N, inf, sta)
  BY <1>1 DEF LedgerWith
<1>5. F[0] = 0 /\ F[1] = 0
  <2>1. F[0 + 1] = F[0] + N[0]
    BY <1>4 DEF Counts
  <2>2. F[0] = 0 /\ N[0] = 0
    BY <1>4 DEF Counts, Shifted
  <2>3. QED
    BY <2>1, <2>2
<1>6. Counts(E, q, L - 1, N2, inf, sta)
  <2>1. E[0] = 0
    BY <1>2, <1>5
  <2>2. ASSUME NEW i \in 0..(L - 1) PROVE E[i + 1] = E[i] + N2[i]
    <3>1. i \in 0..L /\ i + 1 \in 0..L
      OBVIOUS
    <3>2. F[(i + 1) + 1] = F[i + 1] + N[i + 1] /\ N2[i] = N[i + 1]
      BY <1>4, <3>1 DEF Counts, Shifted
    <3>3. QED
      BY <1>2, <3>1, <3>2
  <2>3. ASSUME NEW i \in 0..((L - 1) + 1), NEW j \in 0..((L - 1) + 1), i <= j
        PROVE  E[i] <= E[j]
    <3>1. /\ i \in 0..L /\ j \in 0..L /\ i + 1 \in 0..(L + 1) /\ j + 1 \in 0..(L + 1)
          /\ i + 1 <= j + 1
      BY <2>3
    <3>2. F[i + 1] <= F[j + 1]
      BY <1>4, <3>1 DEF Counts
    <3>3. QED
      BY <1>2, <3>1, <3>2
  <2>4. inf = E[(L - 1) + 1]
    <3>1. (L - 1) + 1 = L /\ L \in 0..L
      OBVIOUS
    <3>2. QED
      BY <1>2, <1>4, <3>1 DEF Counts
  <2>5. sta = E[q]
    <3>1. CASE k = 0
      BY <1>2, <1>3, <1>4, <1>5, <3>1 DEF Counts
    <3>2. CASE k # 0
      BY <1>2, <1>3, <1>4, <3>2 DEF Counts
    <3>3. QED
      BY <3>1, <3>2
  <2>6. QED
    BY <2>1, <2>2, <2>3, <2>4, <2>5 DEF Counts
<1>7. ASSUME Holders(G, k, L, A, ph) PROVE Holders(H, q, L - 1, A2, ph)
  <2>1. H[q] = 0
    <3>1. CASE k = 0
      <4>1. G[0 + 1] = G[0] + A[0] /\ G[0] = 0 /\ A[0] = 0
        BY <1>7, <3>1 DEF Holders, Shifted
      <4>2. QED
        BY <1>2, <1>3, <3>1, <4>1
    <3>2. CASE k # 0
      BY <1>2, <1>3, <1>7, <3>2 DEF Holders
    <3>3. QED
      BY <3>1, <3>2
  <2>2. ASSUME NEW i \in q..(L - 1) PROVE H[i + 1] = H[i] + A2[i]
    <3>1. i \in 0..L /\ i + 1 \in 0..L /\ i + 1 \in k..L /\ i \in 0..(L - 1)
      <4>1. i \in 0..L /\ i + 1 \in 0..L /\ i \in 0..(L - 1)
        <5>1. q \in Nat /\ i \in Int /\ q <= i /\ i <= L - 1
          <6>1. q \in 0..L
            BY <1>3
          <6>2. QED
            BY <6>1
        <5>2. QED
          BY <5>1
      <4>2. CASE k = 0
        BY <1>3, <4>1, <4>2
      <4>3. CASE k # 0
        BY <1>3, <4>1, <4>3
      <4>4. QED
        BY <4>2, <4>3
    <3>2. G[(i + 1) + 1] = G[i + 1] + A[i + 1] /\ A2[i] = A[i + 1]
      BY <1>7, <3>1 DEF Holders, Shifted
    <3>3. QED
      BY <1>2, <3>1, <3>2
  <2>3. ASSUME NEW i \in q..((L - 1) + 1), NEW j \in q..((L - 1) + 1), i <= j
        PROVE  H[i] <= H[j]
    <3>1. /\ i \in 0..L /\ j \in 0..L /\ i + 1 \in k..(L + 1) /\ j + 1 \in k..(L + 1)
          /\ i + 1 <= j + 1
      <4>1. CASE k = 0
        BY <1>3, <2>3, <4>1
      <4>2. CASE k # 0
        BY <1>3, <2>3, <4>2
      <4>3. QED
        BY <4>1, <4>2
    <3>2. G[i + 1] <= G[j + 1]
      BY <1>7, <3>1 DEF Holders
    <3>3. QED
      BY <1>2, <3>1, <3>2
  <2>4. ph = H[(L - 1) + 1]
    <3>1. (L - 1) + 1 = L /\ L \in 0..L
      OBVIOUS
    <3>2. QED
      BY <1>2, <1>7, <3>1 DEF Holders
  <2>5. QED
    BY <2>1, <2>2, <2>3, <2>4 DEF Holders
<1>8. ASSUME ChainFrom(k, L, A, P, T, nx) PROVE ChainFrom(q, L - 1, A2, P2, T, nx)
  BY <1>3, <1>8, ChainShift
<1>9. ASSUME ChainFrom(0, L, A, P, T, nx) PROVE ChainFrom(0, L - 1, A2, P2, T, nx)
  <2>1. 0 \in 0..(L + 1) /\ 0 \in 0..L
    OBVIOUS
  <2>2. QED
    BY <1>9, <2>1, ChainShift
<1>10. LedgerWith(E, H, q, L - 1, N2, A2, P2, T, st, inf, sta, dr, ph, nx)
  BY <1>1, <1>6, <1>7, <1>8, <1>9 DEF LedgerWith
<1>11. (L - 1) + 1 = L
  OBVIOUS
<1>12. QED
  BY <1>2, <1>3, <1>10, <1>11 DEF LedgerOf

(* A request that is not running resumes: what is in flight stays stale.       *)
LEMMA LedgerAdmit ==
  ASSUME NEW L \in Nat, NEW N, NEW A, NEW P, NEW T, NEW st, st # "RUNNING",
         NEW inf, NEW sta, NEW dr, NEW ph, NEW nx, sta = 0 \/ dr,
         LedgerOf(L, N, A, P, T, st, inf, sta, dr, ph, nx)
  PROVE  LedgerOf(L, N, A, P, T, "RUNNING", inf, sta, dr, ph, nx)
<1>1. PICK F \in [0..(L + 1) -> Nat], G \in [0..(L + 1) -> Nat], k \in 0..(L + 1) :
        LedgerWith(F, G, k, L, N, A, P, T, st, inf, sta, dr, ph, nx)
  BY DEF LedgerOf
<1> DEFINE H == [i \in 0..(L + 1) |-> 0]
           q == L + 1
<1>2. H \in [0..(L + 1) -> Nat] /\ q \in 0..(L + 1) /\ \A i \in 0..(L + 1) : H[i] = 0
  OBVIOUS
<1>3. (\A i \in q..L : FALSE) /\ \A i \in q..(L + 1) : i \in 0..(L + 1)
  OBVIOUS
<1>4. L + 1 = q
  OBVIOUS
<1> HIDE DEF H, q
<1>5. ph = 0 /\ sta = inf /\ Counts(F, k, L, N, inf, sta)
  BY <1>1 DEF LedgerWith
<1>6. Counts(F, q, L, N, inf, sta)
  BY <1>4, <1>5 DEF Counts
<1>7. Holders(H, q, L, A, ph)
  <2>1. \A i, j \in q..(L + 1) : H[i] <= H[j]
    BY <1>2, <1>3
  <2>2. QED
    BY <1>2, <1>3, <1>4, <1>5, <2>1 DEF Holders
<1>8. ChainFrom(q, L, A, P, T, nx)
  BY <1>3 DEF ChainFrom
<1>9. LedgerWith(F, H, q, L, N, A, P, T, "RUNNING", inf, sta, dr, ph, nx)
  BY <1>6, <1>7, <1>8 DEF LedgerWith
<1>10. QED
  BY <1>2, <1>9 DEF LedgerOf

(* An output that gives a request no tokens does not sample for it.            *)
Fed(L, N, A) == \A i \in 0..L : N[i] = 0 => A[i] = 0

(* A running request is preempted: all that is in flight becomes stale.        *)
LEMMA LedgerPreempt ==
  ASSUME NEW L \in Nat, NEW N \in [0..L -> Nat], NEW A \in [0..L -> Nat], NEW P, NEW T,
         NEW st, st # "RUNNING", Fed(L, N, A),
         NEW inf, NEW sta, NEW dr, NEW dr2, NEW ph, NEW nx, dr /\ sta > 0 => dr2,
         LedgerOf(L, N, A, P, T, "RUNNING", inf, sta, dr, ph, nx)
  PROVE  LedgerOf(L, N, A, P, T, st, inf, inf, dr2, 0, nx)
<1>1. PICK F \in [0..(L + 1) -> Nat], G \in [0..(L + 1) -> Nat], k \in 0..(L + 1) :
        LedgerWith(F, G, k, L, N, A, P, T, "RUNNING", inf, sta, dr, ph, nx)
  BY DEF LedgerOf
<1>2. /\ Counts(F, k, L, N, inf, sta) /\ (sta = 0 \/ dr)
      /\ ChainFrom(k, L, A, P, T, nx)
  BY <1>1 DEF LedgerWith
<1> DEFINE q == L + 1
<1>3. Counts(F, q, L, N, inf, inf) /\ q \in 0..(L + 1)
  BY <1>2 DEF Counts
<1>4. ASSUME ~dr2 PROVE ChainFrom(0, L, A, P, T, nx)
  <2>1. sta \in Nat /\ F[k] = sta
    BY <1>2 DEF Counts
  <2>2. F[k] = 0
    BY <1>2, <1>4, <2>1
  <2>3. ASSUME NEW j \in 0..(k - 1) PROVE A[j] = 0
    <3>1. /\ j \in 0..L /\ j \in 0..(L + 1) /\ j + 1 \in 0..(L + 1)
          /\ j + 1 <= k
      OBVIOUS
    <3>2. F[j + 1] = F[j] + N[j] /\ F[j + 1] <= F[k]
      BY <1>2, <3>1 DEF Counts
    <3>3. F[j] \in Nat /\ F[j + 1] \in Nat /\ N[j] \in Nat
      BY <3>1
    <3> DEFINE x == F[j]
               y == N[j]
               z == F[j + 1]
    <3>4. x \in Nat /\ y \in Nat /\ z \in Nat /\ z = x + y /\ z <= 0
      BY <2>2, <3>2, <3>3
    <3> HIDE DEF x, y, z
    <3>5. y = 0
      BY <3>4
    <3>6. N[j] = 0
      BY <3>5 DEF y
    <3>7. QED
      BY <3>1, <3>6 DEF Fed
  <2>4. SUFFICES ASSUME NEW i \in 0..L, A[i] > 0
                 PROVE  /\ (\A j \in 0..(i - 1) : A[j] = 0) =>
                             \/ P[i] = T
                             \/ P[i] = 0 /\ nx = T /\ \A j \in 0..(i - 1) : A[j] = 0
                        /\ (\E j \in 0..(i - 1) : A[j] > 0) => P[i] = 0
    BY DEF ChainFrom
  <2>5. i \in k..L
    <3>1. ~(i \in 0..(k - 1))
      BY <2>3, <2>4
    <3>2. QED
      BY <3>1
  <2>6. /\ (\A j \in k..(i - 1) : A[j] = 0) =>
             \/ P[i] = T
             \/ P[i] = 0 /\ nx = T /\ \A j \in 0..(i - 1) : A[j] = 0
        /\ (\E j \in k..(i - 1) : A[j] > 0) => P[i] = 0
    BY <1>2, <2>4, <2>5 DEF ChainFrom
  <2>7. \A j \in 0..(i - 1) : j \in k..(i - 1) \/ j \in 0..(k - 1)
    OBVIOUS
  <2>8. \A j \in k..(i - 1) : j \in 0..(i - 1)
    OBVIOUS
  <2>9. (\E j \in 0..(i - 1) : A[j] > 0) => \E j \in k..(i - 1) : A[j] > 0
    <3>1. \A j \in 0..(k - 1) : ~(A[j] > 0)
      BY <2>3
    <3>2. QED
      BY <2>7, <3>1
  <2>10. QED
    BY <2>6, <2>8, <2>9
<1> HIDE DEF q
<1>5. LedgerWith(F, G, q, L, N, A, P, T, st, inf, inf, dr2, 0, nx)
  BY <1>3, <1>4 DEF LedgerWith
<1>6. QED
  BY <1>3, <1>5 DEF LedgerOf
(* The part of the oldest output is done: what is left of it is nothing.        *)
Drains(L, N, A, P, N2, A2, P2) ==
  /\ N2[0] = 0 /\ A2[0] = 0
  /\ \A i \in 1..L : N2[i] = N[i] /\ A2[i] = A[i] /\ P2[i] = P[i]

DrainOf(L, N, A, P, N2, A2, P2) ==
  /\ L \in Nat /\ {N, N2, A, A2} \subseteq [0..L -> Nat]
  /\ N[0] > 0 /\ Drains(L, N, A, P, N2, A2, P2)
CountsOf(F, k, L, N, inf, sta) ==
  F \in [0..(L + 1) -> Nat] /\ k \in 0..(L + 1) /\ Counts(F, k, L, N, inf, sta)

(* The token counts after a request's part of the oldest output is done.      *)
LEMMA CountsDrain ==
  ASSUME NEW L, NEW N, NEW A, NEW P, NEW N2, NEW A2, NEW P2,
         DrainOf(L, N, A, P, N2, A2, P2),
         NEW F, NEW k, NEW inf, NEW sta, CountsOf(F, k, L, N, inf, sta)
  PROVE  /\ sta \in Nat /\ (sta = 0 <=> k = 0)
         /\ \E E : CountsOf(E, k, L, N2, inf - N[0], IF sta > 0 THEN sta - N[0] ELSE sta)
<1>0. /\ L \in Nat /\ N \in [0..L -> Nat] /\ N2 \in [0..L -> Nat] /\ A \in [0..L -> Nat]
      /\ A2 \in [0..L -> Nat] /\ N[0] > 0 /\ Drains(L, N, A, P, N2, A2, P2)
      /\ F \in [0..(L + 1) -> Nat] /\ k \in 0..(L + 1) /\ Counts(F, k, L, N, inf, sta)
  BY DEF DrainOf, CountsOf
<1> USE <1>0
<1> DEFINE n == N[0]
           E == [i \in 0..(L + 1) |-> IF i = 0 THEN 0 ELSE F[i] - n]
<1>1. /\ 0 \in 0..L /\ 0 \in 0..(L + 1) /\ 1 \in 0..(L + 1) /\ L + 1 \in 1..(L + 1)
      /\ \A i \in 1..(L + 1) : i \in 0..(L + 1) /\ 1 <= i /\ i # 0
      /\ \A i \in 0..(L + 1) : i = 0 \/ i \in 1..(L + 1)
  OBVIOUS
<1>2. n \in Nat /\ n > 0 /\ \A i \in 0..(L + 1) : F[i] \in Nat
  OBVIOUS
<1>3. F[1] = n
  <2>1. F[0] = 0 /\ F[0 + 1] = F[0] + N[0]
    BY <1>1 DEF Counts
  <2>2. QED
    BY <1>2, <2>1
<1> HIDE DEF n
<1>4. \A i \in 1..(L + 1) : n <= F[i]
  BY <1>1, <1>3 DEF Counts
<1>5. \A i \in 1..(L + 1) : F[i] - n \in Nat
  BY SMTT(30), <1>1, <1>2, <1>4
<1>6. E[0] = 0 /\ \A i \in 1..(L + 1) : E[i] = F[i] - n
  BY <1>1
<1>7. E \in [0..(L + 1) -> Nat]
  BY <1>1, <1>5
<1> HIDE DEF E
<1>8. sta \in Nat /\ inf \in Nat /\ sta = F[k] /\ inf = F[L + 1] /\ F[0] = 0
  BY <1>1, <1>2 DEF Counts
<1>9. sta = 0 <=> k = 0
  <2>1. CASE k = 0
    BY <1>8, <2>1
  <2>2. CASE k # 0
    <3>1. n <= sta
      BY <1>1, <1>4, <1>8, <2>2
    <3>2. QED
      BY <1>2, <1>8, <2>2, <3>1
  <2>3. QED
    BY <2>1, <2>2
<1>10. Counts(E, k, L, N2, inf - n, IF sta > 0 THEN sta - n ELSE sta)
  <2>1. ASSUME NEW i \in 0..L PROVE E[i + 1] = E[i] + N2[i]
    <3>1. i + 1 \in 1..(L + 1) /\ i \in 0..(L + 1)
      OBVIOUS
    <3>2. CASE i = 0
      <4>1. E[1] = F[1] - n /\ N2[0] = 0
        BY <1>1, <1>6 DEF Drains
      <4>2. E[1] = 0 /\ E[0] + N2[0] = 0
        <5>1. n - n = 0 /\ 0 + 0 = 0
          BY <1>2
        <5>2. QED
          BY <1>3, <1>6, <4>1, <5>1
      <4>3. QED
        BY SMTT(30), <3>2, <4>2
    <3>3. CASE i # 0
      <4>1. i \in 1..L /\ i \in 1..(L + 1)
        BY <3>3
      <4>2. F[i + 1] = F[i] + N[i] /\ N2[i] = N[i]
        BY <4>1 DEF Counts, Drains
      <4>3. E[i + 1] = F[i + 1] - n /\ E[i] = F[i] - n
        BY <1>6, <3>1, <4>1
      <4>4. F[i] \in Nat /\ N[i] \in Nat /\ F[i + 1] \in Nat
        BY SMTT(30), <1>2, <3>1
      <4> DEFINE x == F[i]
                 y == N[i]
      <4>5a. x \in Int /\ y \in Int /\ n \in Int
        BY <1>2, <4>4
      <4> HIDE DEF x, y
      <4>5. (x + y) - n = (x - n) + y
        BY <4>5a, Arithmetic
      <4>6. E[i + 1] = (x + y) - n /\ E[i] = x - n /\ N2[i] = y
        BY <4>2, <4>3 DEF x, y
      <4>7. QED
        BY <4>5, <4>6
    <3>4. QED
      BY <3>2, <3>3
  <2>2. ASSUME NEW i \in 0..(L + 1), NEW j \in 0..(L + 1), i <= j PROVE E[i] <= E[j]
    <3>1. CASE i = 0
      <4>1. E[j] \in Nat
        BY <1>7
      <4>2. QED
        BY SMTT(30), <1>6, <3>1, <4>1
    <3>2. CASE i # 0
      <4>1. i \in 1..(L + 1) /\ j \in 1..(L + 1)
        BY <2>2, <3>2
      <4>2. F[i] <= F[j]
        BY <2>2 DEF Counts
      <4>3. E[i] = F[i] - n /\ E[j] = F[j] - n
        BY <1>6, <4>1
      <4> DEFINE x == F[i]
                 y == F[j]
      <4>4. x \in Nat /\ y \in Nat /\ x <= y
        BY <1>2, <4>2
      <4> HIDE DEF x, y
      <4>5. x - n <= y - n
        BY <1>2, <4>4
      <4>6. QED
        BY <4>3, <4>5 DEF x, y
    <3>3. QED
      BY <3>1, <3>2
  <2>3. inf - n = E[L + 1]
    BY <1>1, <1>6, <1>8
  <2>4. (IF sta > 0 THEN sta - n ELSE sta) = E[k]
    <3>1. CASE k = 0
      BY <1>6, <1>8, <1>9, <3>1
    <3>2. CASE k # 0
      <4>1. k \in 1..(L + 1) /\ sta > 0
        BY <1>8, <1>9, <3>2
      <4>2. QED
        BY <1>6, <1>8, <4>1
    <3>3. QED
      BY <3>1, <3>2
  <2>5. QED
    BY <1>6, <2>1, <2>2, <2>3, <2>4 DEF Counts
<1>11. QED
  <2>1. \E D : CountsOf(D, k, L, N2, inf - n, IF sta > 0 THEN sta - n ELSE sta)
    BY <1>7, <1>10 DEF CountsOf
  <2>2. QED
    BY <1>8, <1>9, <2>1 DEF n

ChainOf(m, L, A, P, T, nx) == m \in 0..(L + 1) /\ ChainFrom(m, L, A, P, T, nx)

(* The chain of sample positions after it.                                    *)
LEMMA ChainDrain ==
  ASSUME NEW L, NEW N, NEW A, NEW P, NEW N2, NEW A2, NEW P2,
         DrainOf(L, N, A, P, N2, A2, P2),
         NEW T, NEW nx, NEW m, ChainOf(m, L, A, P, T, nx)
  PROVE  /\ \A nx2 : (A[0] = 0 \/ m > 0) /\ (A[0] = 0 => nx2 = nx) =>
                      ChainFrom(m, L, A2, P2, T, nx2)
         /\ m = 0 /\ A[0] > 0 =>
              /\ P[0] = T \/ (P[0] = 0 /\ nx = T)
              /\ \A t : ChainFrom(0, L, A2, P2, t, t)
<1>0. /\ L \in Nat /\ A \in [0..L -> Nat] /\ A2 \in [0..L -> Nat]
      /\ Drains(L, N, A, P, N2, A2, P2)
      /\ m \in 0..(L + 1) /\ ChainFrom(m, L, A, P, T, nx)
  BY DEF DrainOf, ChainOf
<1> USE <1>0
<1>1. ASSUME NEW nx2, A[0] = 0 \/ m > 0, A[0] = 0 => nx2 = nx
      PROVE  ChainFrom(m, L, A2, P2, T, nx2)
  <2> SUFFICES ASSUME NEW i \in m..L, A2[i] > 0
               PROVE  /\ (\A j \in m..(i - 1) : A2[j] = 0) =>
                           \/ P2[i] = T
                           \/ P2[i] = 0 /\ nx2 = T /\ \A j \in 0..(i - 1) : A2[j] = 0
                      /\ (\E j \in m..(i - 1) : A2[j] > 0) => P2[i] = 0
    BY DEF ChainFrom
  <2>1. i # 0 /\ A2[0] = 0
    BY DEF Drains
  <2>2. i \in 1..L /\ 0 \in 0..(i - 1)
    BY <2>1
  <2>3. A[i] > 0 /\ P2[i] = P[i]
    BY <2>2 DEF Drains
  <2>4. /\ (\A j \in m..(i - 1) : A[j] = 0) =>
             \/ P[i] = T
             \/ P[i] = 0 /\ nx = T /\ \A j \in 0..(i - 1) : A[j] = 0
        /\ (\E j \in m..(i - 1) : A[j] > 0) => P[i] = 0
    BY <2>3 DEF ChainFrom
  <2>5. \A j \in m..(i - 1) : A2[j] = A[j]
    <3> TAKE j \in m..(i - 1)
    <3>1. CASE j = 0
      BY <1>1, <2>1, <3>1
    <3>2. CASE j # 0
      <4>1. j \in 1..L
        BY <3>2
      <4>2. QED
        BY <4>1 DEF Drains
    <3>3. QED
      BY <3>1, <3>2
  <2>6. \A j \in 0..(i - 1) : j = 0 \/ j \in 1..L
    OBVIOUS
  <2>7. (\A j \in 0..(i - 1) : A[j] = 0) =>
          A[0] = 0 /\ \A j \in 0..(i - 1) : A2[j] = 0
    BY <2>1, <2>2, <2>6 DEF Drains
  <2>8. QED
    BY <1>1, <2>3, <2>4, <2>5, <2>7
<1>2. ASSUME m = 0, A[0] > 0
      PROVE  /\ P[0] = T \/ (P[0] = 0 /\ nx = T)
             /\ \A t : ChainFrom(0, L, A2, P2, t, t)
  <2>1. 0 \in 0..L /\ ~(\E j \in 0..(0 - 1) : TRUE)
    OBVIOUS
  <2>2. P[0] = T \/ (P[0] = 0 /\ nx = T)
    BY <1>2, <2>1 DEF ChainFrom
  <2>3. ASSUME NEW t PROVE ChainFrom(0, L, A2, P2, t, t)
    <3>1. ASSUME NEW i \in 0..L, A2[i] > 0 PROVE P2[i] = 0
      <4>1. i # 0
        BY <3>1 DEF Drains
      <4>2. i \in 1..L /\ 0 \in 0..(i - 1)
        BY <4>1
      <4>3. A[i] > 0 /\ P2[i] = P[i]
        BY <3>1, <4>2 DEF Drains
      <4>4. QED
        BY <1>2, <4>2, <4>3 DEF ChainFrom
    <3>2. ASSUME NEW i \in 0..L PROVE \A j \in 0..(i - 1) : A2[j] \in Nat
      OBVIOUS
    <3>3. QED
      BY <3>1 DEF ChainFrom
  <2>4. QED
    BY <2>2, <2>3
<1>3. QED
  BY <1>1, <1>2

(* The oldest output brings a request nothing: no token sampled, or dropped.    *)
LEMMA LedgerDiscard ==
  ASSUME NEW L, NEW N, NEW A, NEW P, NEW N2, NEW A2, NEW P2,
         DrainOf(L, N, A, P, N2, A2, P2),
         NEW T, NEW st, NEW inf, NEW sta, NEW dr, NEW ph, NEW nx, NEW nx2,
         A[0] = 0 \/ (sta > 0 /\ dr), A[0] = 0 => nx2 = nx,
         LedgerOf(L, N, A, P, T, st, inf, sta, dr, ph, nx),
         NEW inf2, inf2 = inf - N[0],
         NEW sta2, sta2 = IF sta > 0 THEN sta - N[0] ELSE sta
  PROVE  LedgerOf(L, N2, A2, P2, T, st, inf2, sta2, dr, ph, nx2)
<1>a. /\ L \in Nat /\ N \in [0..L -> Nat] /\ N[0] > 0 /\ A \in [0..L -> Nat]
      /\ N2 \in [0..L -> Nat] /\ A2 \in [0..L -> Nat] /\ Drains(L, N, A, P, N2, A2, P2)
  BY DEF DrainOf
<1>b. \A F, k : CountsOf(F, k, L, N, inf, sta) => sta \in Nat /\ (sta = 0 <=> k = 0)
  BY CountsDrain
<1>c. \A F, k : CountsOf(F, k, L, N, inf, sta) =>
        \E E : CountsOf(E, k, L, N2, inf - N[0], IF sta > 0 THEN sta - N[0] ELSE sta)
  BY CountsDrain
<1>d. \A m : ChainOf(m, L, A, P, T, nx) =>
        /\ \A y : (A[0] = 0 \/ m > 0) /\ (A[0] = 0 => y = nx) => ChainFrom(m, L, A2, P2, T, y)
        /\ m = 0 /\ A[0] > 0 =>
             /\ P[0] = T \/ (P[0] = 0 /\ nx = T)
             /\ \A u : ChainFrom(0, L, A2, P2, u, u)
  BY ChainDrain
<1>1. PICK F \in [0..(L + 1) -> Nat], G \in [0..(L + 1) -> Nat], k \in 0..(L + 1) :
        LedgerWith(F, G, k, L, N, A, P, T, st, inf, sta, dr, ph, nx)
  BY DEF LedgerOf
<1>2. Counts(F, k, L, N, inf, sta)
  BY <1>1 DEF LedgerWith
<1>2b. CountsOf(F, k, L, N, inf, sta)
  BY <1>2 DEF CountsOf
<1>3. sta \in Nat /\ (sta = 0 <=> k = 0)
  BY <1>2b, <1>b
<1>4. PICK E : CountsOf(E, k, L, N2, inf2, sta2)
  BY <1>2b, <1>c
<1>4b. E \in [0..(L + 1) -> Nat] /\ Counts(E, k, L, N2, inf2, sta2)
  BY <1>4 DEF CountsOf
<1> USE <1>a
<1>5. sta = 0 => sta2 = 0
  BY <1>3
<1>5b. sta = inf => sta2 = inf2
  <2>1. inf \in Nat /\ N[0] <= inf
    <3>1. 0 \in 0..L /\ 1 \in 0..(L + 1) /\ L + 1 \in 0..(L + 1) /\ 1 <= L + 1
      OBVIOUS
    <3>2. F[0] = 0 /\ F[0 + 1] = F[0] + N[0] /\ F[1] <= F[L + 1] /\ inf = F[L + 1]
      BY <1>2, <3>1 DEF Counts
    <3>3. N[0] \in Nat /\ F[L + 1] \in Nat
      BY <3>1
    <3>4. QED
      BY <3>2, <3>3
  <2>2. N[0] \in Nat
    OBVIOUS
  <2>3. QED
    BY <2>1, <2>2
<1>6. CASE st = "RUNNING"
  <2>1. (sta = 0 \/ dr) /\ Holders(G, k, L, A, ph) /\ ChainFrom(k, L, A, P, T, nx)
    BY <1>1, <1>6 DEF LedgerWith
  <2>2. A[0] = 0 \/ k > 0
    BY <1>3
  <2>3. ChainFrom(k, L, A2, P2, T, nx2)
    <3>1. ChainOf(k, L, A, P, T, nx)
      BY <2>1 DEF ChainOf
    <3>2. QED
      BY <1>d, <2>1, <2>2, <3>1
  <2>4. Holders(G, k, L, A2, ph)
    <3>1. \A i \in k..L : A2[i] = A[i]
      <4> TAKE i \in k..L
      <4>1. CASE i = 0
        BY <2>2, <4>1 DEF Drains
      <4>2. CASE i # 0
        <5>1. i \in 1..L
          BY <4>2
        <5>2. QED
          BY <5>1 DEF Drains
      <4>3. QED
        BY <4>1, <4>2
    <3>2. QED
      BY <2>1, <3>1 DEF Holders
  <2>5. LedgerWith(E, G, k, L, N2, A2, P2, T, st, inf2, sta2, dr, ph, nx2)
    BY <1>4b, <1>5, <1>6, <2>1, <2>3, <2>4 DEF LedgerWith
  <2>6. LedgerOf(L, N2, A2, P2, T, st, inf2, sta2, dr, ph, nx2)
    BY <1>4b, <2>5 DEF LedgerOf
  <2>7. QED
    BY <2>6
<1>7. CASE st # "RUNNING"
  <2>1. ph = 0 /\ sta = inf /\ (~dr => ChainFrom(0, L, A, P, T, nx))
    BY <1>1, <1>7 DEF LedgerWith
  <2>2. ~dr => ChainFrom(0, L, A2, P2, T, nx2)
    <3>1. ASSUME ~dr PROVE ChainFrom(0, L, A2, P2, T, nx2)
      <4>1. A[0] = 0 /\ ChainFrom(0, L, A, P, T, nx) /\ nx2 = nx /\ 0 \in 0..(L + 1)
        BY <2>1, <3>1
      <4>2. QED
        BY <1>d, <4>1 DEF ChainOf
    <3>2. QED
      BY <3>1
  <2>3. LedgerWith(E, G, k, L, N2, A2, P2, T, st, inf2, sta2, dr, ph, nx2)
    BY <1>4b, <1>5b, <1>7, <2>1, <2>2 DEF LedgerWith
  <2>4. LedgerOf(L, N2, A2, P2, T, st, inf2, sta2, dr, ph, nx2)
    BY <1>4b, <2>3 DEF LedgerOf
  <2>5. QED
    BY <2>4
<1>8. QED
  BY <1>6, <1>7

(* The oldest output delivers g tokens of a request.                           *)
LEMMA LedgerDeliver ==
  ASSUME NEW L, NEW N, NEW A, NEW P, NEW N2, NEW A2, NEW P2,
         DrainOf(L, N, A, P, N2, A2, P2),
         NEW T, NEW t, NEW st, NEW inf, NEW sta, NEW dr, NEW ph, NEW nx,
         A[0] > 0, ~(sta > 0 /\ dr),
         LedgerOf(L, N, A, P, T, st, inf, sta, dr, ph, nx)
  PROVE  /\ P[0] = T \/ (P[0] = 0 /\ nx = T)
         /\ sta \in Nat /\ ph \in Nat
         /\ sta = 0 => A[0] <= ph
         /\ LedgerOf(L, N2, A2, P2, t, st, inf - N[0], IF sta > 0 THEN sta - N[0] ELSE sta,
                     dr, IF sta > 0 THEN ph ELSE ph - A[0], t)
<1>a. /\ L \in Nat /\ N \in [0..L -> Nat] /\ N[0] > 0 /\ A \in [0..L -> Nat]
      /\ N2 \in [0..L -> Nat] /\ A2 \in [0..L -> Nat] /\ Drains(L, N, A, P, N2, A2, P2)
  BY DEF DrainOf
<1>b. \A F, k : CountsOf(F, k, L, N, inf, sta) => sta \in Nat /\ (sta = 0 <=> k = 0)
  BY CountsDrain
<1>c. \A F, k : CountsOf(F, k, L, N, inf, sta) =>
        \E E : CountsOf(E, k, L, N2, inf - N[0], IF sta > 0 THEN sta - N[0] ELSE sta)
  BY CountsDrain
<1>d. \A m : ChainOf(m, L, A, P, T, nx) =>
        /\ \A y : (A[0] = 0 \/ m > 0) /\ (A[0] = 0 => y = nx) => ChainFrom(m, L, A2, P2, T, y)
        /\ m = 0 /\ A[0] > 0 =>
             /\ P[0] = T \/ (P[0] = 0 /\ nx = T)
             /\ \A u : ChainFrom(0, L, A2, P2, u, u)
  BY ChainDrain
<1>1. PICK F \in [0..(L + 1) -> Nat], G \in [0..(L + 1) -> Nat], k \in 0..(L + 1) :
        LedgerWith(F, G, k, L, N, A, P, T, st, inf, sta, dr, ph, nx)
  BY DEF LedgerOf
<1> DEFINE inf2 == inf - N[0]
           sta2 == IF sta > 0 THEN sta - N[0] ELSE sta
           ph2 == IF sta > 0 THEN ph ELSE ph - A[0]
<1>2. Counts(F, k, L, N, inf, sta)
  BY <1>1 DEF LedgerWith
<1>2b. CountsOf(F, k, L, N, inf, sta)
  BY <1>2 DEF CountsOf
<1>3. sta \in Nat /\ (sta = 0 <=> k = 0)
  BY <1>2b, <1>b
<1>4. PICK E : CountsOf(E, k, L, N2, inf2, sta2)
  BY <1>2b, <1>c
<1>4b. E \in [0..(L + 1) -> Nat] /\ Counts(E, k, L, N2, inf2, sta2)
  BY <1>4 DEF CountsOf
<1> USE <1>a
<1>5. sta = 0 => sta2 = 0
  BY <1>3
<1>6. inf \in Nat /\ N[0] <= inf /\ N[0] \in Nat
  <2>1. 0 \in 0..L /\ 1 \in 0..(L + 1) /\ L + 1 \in 0..(L + 1) /\ 1 <= L + 1
    OBVIOUS
  <2>2. F[0] = 0 /\ F[0 + 1] = F[0] + N[0] /\ F[1] <= F[L + 1] /\ inf = F[L + 1]
    BY <1>2, <2>1 DEF Counts
  <2>3. N[0] \in Nat /\ F[L + 1] \in Nat
    BY <2>1
  <2>4. QED
    BY <2>2, <2>3
<1>7. sta = inf => sta2 = inf2
  BY <1>6
<1>8. sta = 0 => ph2 = ph - A[0]
  OBVIOUS
<1>8b. sta > 0 => ph2 = ph
  OBVIOUS
<1> HIDE DEF inf2, sta2, ph2
<1>9. CASE st = "RUNNING"
  <2>1. (sta = 0 \/ dr) /\ Holders(G, k, L, A, ph) /\ ChainFrom(k, L, A, P, T, nx)
    BY <1>1, <1>9 DEF LedgerWith
  <2>2. sta = 0 /\ k = 0
    BY <1>3, <2>1
  <2>3. /\ P[0] = T \/ (P[0] = 0 /\ nx = T)
        /\ ChainFrom(0, L, A2, P2, t, t)
    <3>1. ChainOf(k, L, A, P, T, nx)
      BY <2>1 DEF ChainOf
    <3>2. QED
      BY <1>d, <2>1, <2>2, <3>1
  <2> DEFINE a == A[0]
             H == [i \in 0..(L + 1) |-> IF i = 0 THEN 0 ELSE G[i] - a]
  <2>4. /\ 0 \in 0..L /\ 0 \in 0..(L + 1) /\ 1 \in 0..(L + 1) /\ L + 1 \in 1..(L + 1)
        /\ \A i \in 1..(L + 1) : i \in 0..(L + 1) /\ 1 <= i /\ i # 0
        /\ \A i \in 0..(L + 1) : i = 0 \/ i \in 1..(L + 1)
    BY SMTT(30)
  <2>5. a \in Nat /\ \A i \in 0..(L + 1) : G[i] \in Nat
    BY SMTT(30)
  <2>6. /\ G[0] = 0 /\ \A i \in 0..L : G[i + 1] = G[i] + A[i]
        /\ \A i, j \in 0..(L + 1) : i <= j => G[i] <= G[j]
        /\ ph = G[L + 1]
    BY <2>1, <2>2 DEF Holders
  <2>7. G[1] = a
    <3>1. G[0 + 1] = G[0] + A[0]
      BY <2>4, <2>6
    <3>2. QED
      BY <2>5, <2>6, <3>1
  <2> HIDE DEF a
  <2>8. \A i \in 1..(L + 1) : a <= G[i]
    BY <2>4, <2>6, <2>7
  <2>9. \A i \in 1..(L + 1) : G[i] - a \in Nat
    BY <2>4, <2>5, <2>8, Arithmetic
  <2>10. H[0] = 0 /\ \A i \in 1..(L + 1) : H[i] = G[i] - a
    BY <2>4
  <2>11. H \in [0..(L + 1) -> Nat]
    BY <2>4, <2>9
  <2>12. ph \in Nat /\ a <= ph
    BY <2>4, <2>5, <2>6, <2>8
  <2> HIDE DEF H
  <2>13. Holders(H, 0, L, A2, ph2)
    <3>1. ASSUME NEW i \in 0..L PROVE H[i + 1] = H[i] + A2[i]
      <4>1. i + 1 \in 1..(L + 1) /\ i \in 0..(L + 1)
        OBVIOUS
      <4>2. CASE i = 0
        <5>1. H[1] = G[1] - a /\ A2[0] = 0
          BY <2>4, <2>10 DEF Drains
        <5>2. H[i + 1] = 0 /\ H[i] + A2[i] = 0
          <6>1. a - a = 0 /\ 0 + 0 = 0
            BY <2>5
          <6>2. i + 1 = 1 /\ H[1] = 0
            BY <2>7, <4>2, <5>1, <6>1
          <6>3. H[i] = 0 /\ A2[i] = 0
            BY <2>10, <4>2, <5>1
          <6>4. QED
            BY <6>1, <6>2, <6>3
        <5>3. QED
          BY <5>2
      <4>3. CASE i # 0
        <5>1. i \in 1..L /\ i \in 1..(L + 1)
          BY <4>3
        <5>2. G[i + 1] = G[i] + A[i] /\ A2[i] = A[i]
          BY <2>6, <5>1 DEF Drains
        <5>3. H[i + 1] = G[i + 1] - a /\ H[i] = G[i] - a
          BY <2>10, <4>1, <5>1
        <5>4. G[i] \in Nat /\ A[i] \in Nat
          BY <2>5, <4>1
        <5> DEFINE x == G[i]
                   y == A[i]
        <5>5a. x \in Int /\ y \in Int /\ a \in Int
          BY <2>5, <5>4
        <5> HIDE DEF x, y
        <5>5. (x + y) - a = (x - a) + y
          BY <5>5a, Arithmetic
        <5>6. H[i + 1] = (x + y) - a /\ H[i] = x - a /\ A2[i] = y
          BY <5>2, <5>3 DEF x, y
        <5>7. QED
          BY <5>5, <5>6
      <4>4. QED
        BY <4>2, <4>3
    <3>2. ASSUME NEW i \in 0..(L + 1), NEW j \in 0..(L + 1), i <= j PROVE H[i] <= H[j]
      <4>1. CASE i = 0
        <5>1. H[j] \in Nat /\ 0 <= H[j]
          BY SMTT(30), <2>11
        <5>2. H[i] = 0
          BY <2>10, <4>1
        <5>3. QED
          BY <5>1, <5>2
      <4>2. CASE i # 0
        <5>1. i \in 1..(L + 1) /\ j \in 1..(L + 1)
          BY <3>2, <4>2
        <5>2. G[i] <= G[j]
          BY <2>6, <3>2
        <5>3. H[i] = G[i] - a /\ H[j] = G[j] - a
          BY <2>10, <5>1
        <5> DEFINE x == G[i]
                   y == G[j]
        <5>4. x \in Nat /\ y \in Nat /\ x <= y
          BY <2>5, <5>2
        <5> HIDE DEF x, y
        <5>5. x - a <= y - a
          BY <2>5, <5>4
        <5>6. QED
          BY <5>3, <5>5 DEF x, y
      <4>3. QED
        BY <4>1, <4>2
    <3>3. ph2 = H[L + 1]
      BY <1>8, <2>2, <2>4, <2>6, <2>10 DEF a
    <3>4. QED
      BY <2>10, <3>1, <3>2, <3>3 DEF Holders
  <2>14. LedgerWith(E, H, 0, L, N2, A2, P2, t, st, inf2, sta2, dr, ph2, t)
    BY <1>4b, <1>5, <1>9, <2>2, <2>3, <2>13 DEF LedgerWith
  <2>15. LedgerOf(L, N2, A2, P2, t, st, inf2, sta2, dr, ph2, t)
    BY <1>4b, <2>4, <2>11, <2>14 DEF LedgerOf
  <2>16. QED
    BY <1>3, <2>3, <2>12, <2>15 DEF inf2, sta2, ph2, a
<1>10. CASE st # "RUNNING"
  <2>1. ph = 0 /\ sta = inf /\ (~dr => ChainFrom(0, L, A, P, T, nx))
    BY <1>1, <1>10 DEF LedgerWith
  <2>2. sta > 0 /\ ~dr
    BY SMTT(30), <1>3, <1>6, <2>1
  <2>3. /\ P[0] = T \/ (P[0] = 0 /\ nx = T)
        /\ ChainFrom(0, L, A2, P2, t, t)
    <3>1. 0 \in 0..(L + 1) /\ ChainFrom(0, L, A, P, T, nx)
      BY <2>1, <2>2
    <3>2. QED
      BY <1>d, <2>2, <3>1 DEF ChainOf
  <2>4. LedgerWith(E, G, k, L, N2, A2, P2, t, st, inf2, sta2, dr, ph2, t)
    BY <1>4b, <1>7, <1>8b, <1>10, <2>1, <2>2, <2>3 DEF LedgerWith
  <2>5. LedgerOf(L, N2, A2, P2, t, st, inf2, sta2, dr, ph2, t)
    BY <1>4b, <2>4 DEF LedgerOf
  <2>6. QED
    BY <1>3, <2>1, <2>2, <2>3, <2>5 DEF inf2, sta2, ph2
<1>11. QED
  BY <1>9, <1>10
=============================================================================

------------------------ MODULE PriorityQueueProofs ------------------------
(***************************************************************************)
(* Theorems about PriorityQueue: no wake-up is lost, for any number of     *)
(* workers and jobs; whatever their IDs, a job keeps its place until one   *)
(* call clears it, and the job with the best claim is handed out first.    *)
(***************************************************************************)
EXTENDS PriorityQueue, FiniteSetTheorems, WellFoundedInduction, TLAPS

(* The operators on sequences and on sets of numbers.                      *)
LEMMA SubSeqFacts ==
    ASSUME NEW S, NEW s \in Seq(S), NEW m \in 1 .. Len(s) + 1, NEW n \in 0 .. Len(s), m <= n + 1
    PROVE  /\ SubSeq(s, m, n) \in Seq(S) /\ Len(SubSeq(s, m, n)) = n - m + 1
           /\ \A k \in 1 .. n - m + 1 : SubSeq(s, m, n)[k] = s[m + k - 1]
  OBVIOUS

LEMMA ConcatFacts ==
    ASSUME NEW S, NEW s \in Seq(S), NEW t \in Seq(S)
    PROVE  /\ s \o t \in Seq(S) /\ Len(s \o t) = Len(s) + Len(t)
           /\ \A k \in 1 .. Len(s) + Len(t) :
                 (s \o t)[k] = IF k <= Len(s) THEN s[k] ELSE t[k - Len(s)]
  OBVIOUS

LEMMA RemoveAtFacts ==
    ASSUME NEW S, NEW s \in Seq(S), NEW i \in 1 .. Len(s)
    PROVE  /\ RemoveAt(s, i) \in Seq(S) /\ Len(RemoveAt(s, i)) = Len(s) - 1
           /\ \A k \in 1 .. Len(s) - 1 :
                 RemoveAt(s, i)[k] = IF k < i THEN s[k] ELSE s[k + 1]
  <1> DEFINE a == SubSeq(s, 1, i - 1)
             b == SubSeq(s, i + 1, Len(s))
  <1>1. /\ a \in Seq(S) /\ Len(a) = i - 1 /\ \A k \in 1 .. i - 1 : a[k] = s[k]
    BY SubSeqFacts
  <1>2. /\ b \in Seq(S) /\ Len(b) = Len(s) - i
        /\ \A k \in 1 .. Len(s) - i : b[k] = s[i + k]
    BY SubSeqFacts
  <1> HIDE DEF a, b
  <1>3. RemoveAt(s, i) = a \o b
    BY DEF RemoveAt, a, b
  <1>0. Len(s) \in Nat
    OBVIOUS
  <1>4. /\ a \o b \in Seq(S) /\ Len(a \o b) = Len(a) + Len(b)
        /\ \A k \in 1 .. Len(a) + Len(b) : (a \o b)[k] = IF k <= Len(a) THEN a[k] ELSE b[k - Len(a)]
    BY <1>1, <1>2, ConcatFacts
  <1>5. ASSUME NEW k \in 1 .. Len(s) - 1 PROVE (a \o b)[k] = IF k < i THEN s[k] ELSE s[k + 1]
    <2>1. CASE k < i BY <1>1, <1>4, <2>1
    <2>2. CASE k >= i
      <3>1. /\ k - Len(a) \in 1 .. Len(s) - i /\ ~(k <= Len(a)) /\ k \in 1 .. Len(a) + Len(b)
            /\ i + (k - Len(a)) = k + 1
        BY <1>0, <1>1, <1>2, <2>2
      <3>2. (a \o b)[k] = b[k - Len(a)]
        BY <1>4, <3>1
      <3>3. b[k - Len(a)] = s[k + 1]
        BY <1>2, <3>1
      <3>4. ~(k < i)
        BY <1>0, <2>2
      <3> QED BY <3>2, <3>3, <3>4, Zenon
    <2>3. k < i \/ k >= i
      BY <1>0
    <2> QED BY <2>1, <2>2, <2>3, Zenon
  <1> QED BY <1>0, <1>1, <1>2, <1>3, <1>4, <1>5

Less == {ss \in Nat \X Nat : ss[1] < ss[2]}

LEMMA LeastExists == ASSUME NEW I \in SUBSET Nat, I # {}
    PROVE \E x \in I : \A y \in I : x <= y
  <1>1. Less = OpToRel(<, Nat)
    BY Zenon DEF OpToRel, Less
  <1>2. IsWellFoundedOn(Less, Nat)
    BY Zenon, <1>1, NatLessThanWellFounded
  <1>3. PICK x \in I : \A y \in I : ~(<<y, x>> \in Less)
    BY <1>2, WFMin
  <1>4. ASSUME NEW y \in I PROVE x <= y
    <2>1. x \in Nat /\ y \in Nat /\ ~(<<y, x>> \in Less)
      BY <1>3
    <2> QED BY <2>1 DEF Less
  <1> QED BY <1>4

LEMMA MinIsLeast ==
    ASSUME NEW I \in SUBSET Nat, I # {}
    PROVE  Min(I) \in I /\ \A k \in I : Min(I) <= k
  BY LeastExists DEF Min

Distinct(s) == \A i, k \in 1 .. Len(s) : s[i] = s[k] => i = k

(* A sequence without one of its elements.                                 *)
LEMMA RemoveAtSet ==
    ASSUME NEW S, NEW s \in Seq(S), NEW at \in 1 .. Len(s), Distinct(s)
    PROVE  /\ ToSet(RemoveAt(s, at)) = ToSet(s) \ {s[at]} /\ Distinct(RemoveAt(s, at))
  <1> DEFINE n == Len(s)
             t == RemoveAt(s, at)
  <1>1. /\ n \in Nat /\ t \in Seq(S) /\ Len(t) = n - 1
        /\ \A k \in 1 .. n - 1 : t[k] = IF k < at THEN s[k] ELSE s[k + 1]
    BY RemoveAtFacts
  <1>2. at \in 1 .. n
    OBVIOUS
  <1>3. \A k \in 1 .. n : k # at => s[k] # s[at]
    BY DEF Distinct
  <1>4. \A i, k \in 1 .. n : s[i] = s[k] => i = k
    BY DEF Distinct
  <1>5. ToSet(s) = {s[k] : k \in 1 .. n} /\ ToSet(t) = {t[k] : k \in 1 .. n - 1}
    BY <1>1 DEF ToSet
  <1> HIDE DEF n, t
  <1>6. ASSUME NEW x \in ToSet(t) PROVE x \in ToSet(s) \ {s[at]}
    <2>1. PICK k \in 1 .. n - 1 : x = t[k]
      BY <1>5, <1>6
    <2> DEFINE a == IF k < at THEN k ELSE k + 1
    <2>2. a \in 1 .. n /\ a # at /\ x = s[a]
      BY <1>1, <1>2, <2>1
    <2> HIDE DEF a
    <2> QED BY <1>3, <1>5, <2>2
  <1>7. ASSUME NEW x \in ToSet(s) \ {s[at]} PROVE x \in ToSet(t)
    <2>1. PICK k \in 1 .. n : x = s[k] /\ k # at
      BY <1>5, <1>7
    <2> DEFINE a == IF k < at THEN k ELSE k - 1
    <2>2. a \in 1 .. n - 1 /\ x = t[a]
      BY <1>1, <1>2, <2>1
    <2> HIDE DEF a
    <2> QED BY <1>5, <2>2
  <1>8. ASSUME NEW i \in 1 .. n - 1, NEW k \in 1 .. n - 1, t[i] = t[k] PROVE i = k
    <2> DEFINE a == IF i < at THEN i ELSE i + 1
               b == IF k < at THEN k ELSE k + 1
    <2>1. a \in 1 .. n /\ b \in 1 .. n /\ s[a] = s[b]
      BY <1>1, <1>2, <1>8
    <2>2. a = b
      BY <1>4, <2>1
    <2> QED BY <1>1, <1>2, <2>2
  <1>9. Distinct(t)
    BY <1>1, <1>8 DEF Distinct
  <1> QED BY <1>6, <1>7, <1>9 DEF t

(* remove takes out the first job with the ID.                             *)
LEMMA RemoveIdIs ==
    ASSUME NEW q \in Seq(Jobs), NEW id, \E j \in ToSet(q) : IdOf[j] = id
    PROVE  /\ FirstWith(q, id) \in 1 .. Len(q) /\ IdOf[q[FirstWith(q, id)]] = id
           /\ RemoveId(q, id) = RemoveAt(q, FirstWith(q, id))
  <1> DEFINE I == {i \in 1 .. Len(q) : IdOf[q[i]] = id}
             at == FirstWith(q, id)
  <1>1. I # {} /\ I \in SUBSET Nat
    BY DEF ToSet
  <1>2. at = Min(I)
    BY <1>1 DEF FirstWith, SelectInSeq
  <1>3. at \in I
    BY <1>1, <1>2, MinIsLeast
  <1>4. at # 0
    BY <1>3
  <1>5. RemoveId(q, id) = RemoveAt(q, at)
    BY <1>4 DEF RemoveId
  <1> QED BY <1>3, <1>5
-----------------------------------------------------------------------------
(* What Dequeue, Peek and Cancel take out.                                 *)
LEMMA QueueTypes ==
    ASSUME TypeOK
    PROVE  /\ \A p \in Levels : queues[p] \in Seq(Jobs) /\ Len(queues[p]) \in Nat
           /\ Depth \in Nat /\ (Depth = 0 <=> \A p \in Levels : queues[p] = <<>>)
  <1>1. \A p \in Levels : queues[p] \in Seq(Jobs)
    BY DEF TypeOK
  <1>2. \A p \in Levels : Len(queues[p]) \in Nat /\ (Len(queues[p]) = 0 <=> queues[p] = <<>>)
    BY <1>1
  <1>3. 0 \in Levels /\ 1 \in Levels /\ 2 \in Levels /\ 3 \in Levels
        /\ \A p \in Levels : p = 0 \/ p = 1 \/ p = 2 \/ p = 3
    BY DEF Levels
  <1>4. Depth \in Nat /\ (Depth = 0 <=> \A p \in Levels : Len(queues[p]) = 0)
    <2>1. Depth \in Nat /\ (Depth = 0 <=> /\ Len(queues[0]) = 0 /\ Len(queues[1]) = 0
                                          /\ Len(queues[2]) = 0 /\ Len(queues[3]) = 0)
      <3> DEFINE L(q) == Len(queues[q])
      <3>1. L(0) \in Nat /\ L(1) \in Nat /\ L(2) \in Nat /\ L(3) \in Nat
        BY <1>2, <1>3
      <3>2. Depth = L(0) + L(1) + L(2) + L(3)
        BY DEF Depth
      <3> HIDE DEF L
      <3>3. Depth \in Nat /\ (Depth = 0 <=> L(0) = 0 /\ L(1) = 0 /\ L(2) = 0 /\ L(3) = 0)
        <4>1. \A a, b, c, d \in Nat : a + b + c + d = 0 => a = 0 /\ b = 0 /\ c = 0 /\ d = 0
          OBVIOUS
        <4>2. Depth \in Nat
          BY <3>1, <3>2
        <4>3. Depth = 0 => L(0) = 0 /\ L(1) = 0 /\ L(2) = 0 /\ L(3) = 0
          BY <3>1, <3>2, <4>1
        <4>4. L(0) = 0 /\ L(1) = 0 /\ L(2) = 0 /\ L(3) = 0 => Depth = 0
          BY <3>2
        <4> QED BY <4>2, <4>3, <4>4
      <3> QED BY <3>3 DEF L
    <2> QED BY <1>3, <2>1
  <1> QED BY <1>1, <1>2, <1>4

LEMMA DepthMoves ==
    ASSUME TypeOK, NEW p \in Levels, NEW d \in Int,
           \A q \in Levels : Len(queues'[q]) = IF q = p THEN Len(queues[q]) + d ELSE Len(queues[q])
    PROVE  Depth' = Depth + d
  <1>0. /\ 0 \in Levels /\ 1 \in Levels /\ 2 \in Levels /\ 3 \in Levels
        /\ p = 0 \/ p = 1 \/ p = 2 \/ p = 3
    BY DEF Levels
  <1> DEFINE L(q) == Len(queues[q])
             M(q) == Len(queues'[q])
  <1>1. L(0) \in Nat /\ L(1) \in Nat /\ L(2) \in Nat /\ L(3) \in Nat
    BY <1>0, QueueTypes
  <1>2. \A q \in Levels : M(q) = IF q = p THEN L(q) + d ELSE L(q)
    OBVIOUS
  <1>3. Depth = L(0) + L(1) + L(2) + L(3) /\ Depth' = M(0) + M(1) + M(2) + M(3)
    BY DEF Depth
  <1> HIDE DEF L, M
  <1>4. CASE p = 0
    <2>1. M(0) = L(0) + d /\ M(1) = L(1) /\ M(2) = L(2) /\ M(3) = L(3)
      BY <1>0, <1>2, <1>4
    <2> QED BY <1>1, <1>3, <2>1
  <1>5. CASE p = 1
    <2>1. M(0) = L(0) /\ M(1) = L(1) + d /\ M(2) = L(2) /\ M(3) = L(3)
      BY <1>0, <1>2, <1>5
    <2> QED BY <1>1, <1>3, <2>1
  <1>6. CASE p = 2
    <2>1. M(0) = L(0) /\ M(1) = L(1) /\ M(2) = L(2) + d /\ M(3) = L(3)
      BY <1>0, <1>2, <1>6
    <2> QED BY <1>1, <1>3, <2>1
  <1>7. CASE p = 3
    <2>1. M(0) = L(0) /\ M(1) = L(1) /\ M(2) = L(2) /\ M(3) = L(3) + d
      BY <1>0, <1>2, <1>7
    <2> QED BY <1>1, <1>3, <2>1
  <1> QED BY <1>0, <1>4, <1>5, <1>6, <1>7

LEMMA RemovalDepth ==
    ASSUME TypeOK, NEW p \in Levels, NEW at \in 1 .. Len(queues[p]),
           queues' = [queues EXCEPT ![p] = RemoveAt(queues[p], at)]
    PROVE  queues' \in [Levels -> Seq(Jobs)] /\ Depth' = Depth - 1
  <1>1. queues \in [Levels -> Seq(Jobs)] /\ queues[p] \in Seq(Jobs)
        /\ \A q \in Levels : Len(queues[q]) \in Nat
    BY QueueTypes DEF TypeOK
  <1>2. RemoveAt(queues[p], at) \in Seq(Jobs) /\ Len(RemoveAt(queues[p], at)) = Len(queues[p]) - 1
    BY <1>1, RemoveAtFacts
  <1> DEFINE t == RemoveAt(queues[p], at)
  <1>3. t \in Seq(Jobs) /\ Len(t) = Len(queues[p]) - 1 /\ queues' = [queues EXCEPT ![p] = t]
    BY <1>2
  <1> HIDE DEF t
  <1>4. \A q \in Levels : queues'[q] = IF q = p THEN t ELSE queues[q]
    BY <1>1, <1>3
  <1>5. \A q \in Levels : Len(queues'[q]) = IF q = p THEN Len(queues[q]) - 1 ELSE Len(queues[q])
    BY <1>3, <1>4
  <1>6. \A q \in Levels : Len(queues'[q]) = IF q = p THEN Len(queues[q]) + (-1) ELSE Len(queues[q])
    BY <1>1, <1>5
  <1>7. Depth' = Depth + (-1)
    BY <1>6, DepthMoves
  <1>8. Depth' = Depth - 1
    BY <1>7, QueueTypes
  <1> QED BY <1>1, <1>3, <1>8

(* findUrgentDeadlineJob: the first urgent job of a level.                 *)
LEMMA UrgentAtFacts ==
    ASSUME TypeOK, NEW p \in Levels
    PROVE  /\ UrgentAt(p) # 0 =>
                 UrgentAt(p) \in 1 .. Len(queues[p]) /\ deadline[queues[p][UrgentAt(p)]] = "near"
           /\ \A b \in 1 .. Len(queues[p]) : deadline[queues[p][b]] = "near" =>
                 UrgentAt(p) # 0 /\ UrgentAt(p) <= b
  <1> DEFINE I == {i \in 1 .. Len(queues[p]) : deadline[queues[p][i]] = "near"}
  <1>1. UrgentAt(p) = IF I # {} THEN Min(I) ELSE 0
    BY DEF UrgentAt, SelectInSeq
  <1>2. CASE I = {}
    BY <1>1, <1>2
  <1>3. CASE I # {}
    <2>1. I \in SUBSET Nat
      OBVIOUS
    <2>2. UrgentAt(p) \in I /\ \A k \in I : UrgentAt(p) <= k
      BY <1>1, <1>3, <2>1, MinIsLeast
    <2>3. UrgentAt(p) # 0
      BY <2>2
    <2> QED BY <2>2, <2>3
  <1> QED BY <1>2, <1>3

LEMMA UrgentFacts ==
    ASSUME TypeOK, UrgentLevels # {}
    PROVE  /\ UrgentLevel \in Levels /\ UrgentAt(UrgentLevel) \in 1 .. Len(queues[UrgentLevel])
           /\ UrgentJob \in ToSet(queues[UrgentLevel]) /\ deadline[UrgentJob] = "near"
           /\ \A p \in Levels : \A b \in 1 .. Len(queues[p]) : deadline[queues[p][b]] = "near" =>
                 UrgentLevel < p \/ (p = UrgentLevel /\ UrgentAt(UrgentLevel) <= b)
  <1>1. UrgentLevels \in SUBSET Nat
    BY DEF UrgentLevels, Levels
  <1>2. UrgentLevel \in UrgentLevels /\ \A k \in UrgentLevels : UrgentLevel <= k
    BY <1>1, MinIsLeast DEF UrgentLevel
  <1>3. UrgentLevel \in Levels /\ UrgentAt(UrgentLevel) # 0
    BY <1>2 DEF UrgentLevels
  <1>4. /\ UrgentAt(UrgentLevel) \in 1 .. Len(queues[UrgentLevel])
        /\ deadline[queues[UrgentLevel][UrgentAt(UrgentLevel)]] = "near"
    BY <1>3, UrgentAtFacts
  <1>5. UrgentJob \in ToSet(queues[UrgentLevel]) /\ deadline[UrgentJob] = "near"
    <2>1. queues[UrgentLevel] \in Seq(Jobs)
      BY <1>3, QueueTypes
    <2> QED BY <1>4, <2>1 DEF UrgentJob, ToSet
  <1>6. ASSUME NEW p \in Levels, NEW b \in 1 .. Len(queues[p]), deadline[queues[p][b]] = "near"
        PROVE  UrgentLevel < p \/ (p = UrgentLevel /\ UrgentAt(UrgentLevel) <= b)
    <2>1. UrgentAt(p) # 0 /\ UrgentAt(p) <= b
      BY <1>6, UrgentAtFacts
    <2>2. UrgentLevel <= p
      BY <1>2, <2>1 DEF UrgentLevels
    <2>3. CASE p = UrgentLevel
      BY <2>1, <2>3
    <2>4. CASE p # UrgentLevel
      BY <1>3, <2>2, <2>4 DEF Levels
    <2> QED BY <2>3, <2>4
  <1> QED BY <1>3, <1>4, <1>5, <1>6

LEMMA WithoutUrgentIs ==
    ASSUME TypeOK, UrgentLevels # {}
    PROVE  \E at \in 1 .. Len(queues[UrgentLevel]) :
              /\ WithoutUrgent = [queues EXCEPT ![UrgentLevel] = RemoveAt(queues[UrgentLevel], at)]
              /\ UrgentGone = queues[UrgentLevel][at] /\ IdOf[UrgentGone] = IdOf[UrgentJob]
  <1> DEFINE q == queues[UrgentLevel]
             id == IdOf[UrgentJob]
             at == FirstWith(q, id)
  <1>1. UrgentLevel \in Levels /\ q \in Seq(Jobs) /\ UrgentJob \in ToSet(q)
    BY UrgentFacts, QueueTypes
  <1>2. \E j \in ToSet(q) : IdOf[j] = id
    BY <1>1
  <1>3. UrgentGone = q[at]
    BY DEF UrgentGone
  <1>4. WithoutUrgent = [queues EXCEPT ![UrgentLevel] = RemoveId(q, id)]
    BY <1>1 DEF WithoutUrgent, TypeOK
  <1> HIDE DEF q, id
  <1>5. at \in 1 .. Len(q) /\ IdOf[q[at]] = id /\ RemoveId(q, id) = RemoveAt(q, at)
    BY <1>1, <1>2, RemoveIdIs
  <1> HIDE DEF at
  <1> QED BY <1>3, <1>4, <1>5 DEF q, id

(* With no urgent job: the front of the first level that has one.          *)
LEMMA FrontFacts ==
    ASSUME TypeOK, Depth > 0
    PROVE  /\ FrontLevel \in Levels /\ queues[FrontLevel] # <<>>
           /\ Head(queues[FrontLevel]) = queues[FrontLevel][1] /\ 1 \in 1 .. Len(queues[FrontLevel])
           /\ Tail(queues[FrontLevel]) = RemoveAt(queues[FrontLevel], 1)
           /\ \A p \in Levels : queues[p] # <<>> => FrontLevel <= p
  <1> DEFINE F == {p \in Levels : queues[p] # <<>>}
  <1>1. F # {} /\ F \in SUBSET Nat
    BY QueueTypes DEF Levels
  <1>2. FrontLevel \in F /\ \A p \in F : FrontLevel <= p
    BY <1>1, MinIsLeast DEF FrontLevel
  <1>3. FrontLevel \in Levels /\ queues[FrontLevel] # <<>> /\ queues[FrontLevel] \in Seq(Jobs)
    BY <1>2, QueueTypes
  <1>4. ASSUME NEW q \in Seq(Jobs), q # <<>>
        PROVE  Head(q) = q[1] /\ 1 \in 1 .. Len(q) /\ Tail(q) = RemoveAt(q, 1)
    <2>1. Len(q) \in Nat /\ Len(q) # 0
      BY <1>4
    <2>2. SubSeq(q, 1, 0) = <<>> /\ Tail(q) = SubSeq(q, 2, Len(q)) /\ Head(q) = q[1]
      BY <1>4, <2>1
    <2>3. SubSeq(q, 2, Len(q)) \in Seq(Jobs)
      BY <2>1, SubSeqFacts
    <2>4. RemoveAt(q, 1) = SubSeq(q, 2, Len(q))
      BY <2>2, <2>3 DEF RemoveAt
    <2> QED BY <2>1, <2>2, <2>4, SMTT(30)
  <1> QED BY <1>2, <1>3, <1>4

LEMMA TakeIs ==
    ASSUME TypeOK, Depth > 0
    PROVE  \E p \in Levels : \E at \in 1 .. Len(queues[p]) :
              /\ Rest = [queues EXCEPT ![p] = RemoveAt(queues[p], at)]
              /\ Chosen \in ToSet(queues[p])
              /\ Gone = queues[p][at] /\ IdOf[Gone] = IdOf[Chosen]
  <1>1. CASE UrgentLevels # {}
    <2>1. Chosen = UrgentJob /\ Rest = WithoutUrgent /\ Gone = UrgentGone
      BY <1>1 DEF Chosen, Rest, Gone
    <2> QED BY <1>1, <2>1, UrgentFacts, WithoutUrgentIs
  <1>2. CASE UrgentLevels = {}
    <2> DEFINE q == queues[FrontLevel]
    <2>1. /\ FrontLevel \in Levels /\ Head(q) = q[1] /\ 1 \in 1 .. Len(q)
          /\ Tail(q) = RemoveAt(q, 1) /\ q \in Seq(Jobs)
      BY FrontFacts, QueueTypes
    <2>2. /\ Chosen = q[1] /\ Gone = Chosen
          /\ Rest = [queues EXCEPT ![FrontLevel] = RemoveAt(q, 1)]
      BY <1>2, <2>1 DEF Chosen, Gone, Rest, TypeOK
    <2>3. Chosen \in ToSet(q)
      BY <2>1, <2>2 DEF ToSet
    <2> QED BY <2>1, <2>2, <2>3
  <1> QED BY <1>1, <1>2
-----------------------------------------------------------------------------
(* Wake-ups.  NoLostWakeup alone is not kept by a worker that Close woke   *)
(* and that returns nil: who still waits then waits on an empty queue, to  *)
(* which nothing comes any more.                                           *)
WakeInv ==
    /\ TypeOK /\ NoLostWakeup
    /\ closed /\ In("waiting") # {} => Depth = 0

LEMMA InFacts ==
    ASSUME NEW pc
    PROVE  IsFiniteSet(In(pc)) /\ Cardinality(In(pc)) \in Nat /\ In(pc) \subseteq Workers
  BY WorkersAssumption, FS_Subset, FS_CardinalityType DEF In

LEMMA WakeInvInit == Init => WakeInv
  <1> SUFFICES ASSUME Init PROVE WakeInv
    OBVIOUS
  <1>1. TypeOK
    <2>1. <<>> \in Seq(Jobs) /\ 0 \in Levels
      BY DEF Levels
    <2> QED BY <2>1 DEF Init, TypeOK
  <1>2. In("waiting") = {}
    BY DEF Init, In
  <1> QED BY <1>1, <1>2 DEF WakeInv, NoLostWakeup

LEMMA LensAddUp ==
    ASSUME NEW Q \in [Levels -> Seq(Jobs)]
    PROVE  Len(Q[0]) + Len(Q[1]) + Len(Q[2]) + Len(Q[3]) \in Nat
  <1>1. 0 \in Levels /\ 1 \in Levels /\ 2 \in Levels /\ 3 \in Levels
    BY DEF Levels
  <1>2. \A p \in Levels : Len(Q[p]) \in Nat
    OBVIOUS
  <1>3. Len(Q[0]) \in Nat /\ Len(Q[1]) \in Nat /\ Len(Q[2]) \in Nat /\ Len(Q[3]) \in Nat
    BY <1>1, <1>2
  <1>4. \A a, b, c, d \in Nat : a + b + c + d \in Nat
    OBVIOUS
  <1> QED BY <1>3, <1>4

(* The queue gets shorter while nobody's place changes.                    *)
LEMMA ShorterQueue ==
    ASSUME WakeInv, TypeOK', Depth' <= Depth, UNCHANGED <<closed, wpc>>
    PROVE  WakeInv'
  <1>1. Depth \in Nat /\ Depth' \in Nat
    <2>1. queues' \in [Levels -> Seq(Jobs)]
      BY DEF TypeOK
    <2>2. Depth' \in Nat
      BY <2>1, LensAddUp DEF Depth
    <2> QED BY <2>2, QueueTypes DEF WakeInv
  <1>2. In("waiting")' = In("waiting") /\ In("woken")' = In("woken")
        /\ Cardinality(In("woken")) \in Nat
    BY InFacts DEF In
  <1>3. NoLostWakeup'
    BY <1>1, <1>2 DEF WakeInv, NoLostWakeup
  <1> QED BY <1>1, <1>2, <1>3 DEF WakeInv

LEMMA WakeInvNext == WakeInv /\ [Next]_vars => WakeInv'
  <1> SUFFICES ASSUME WakeInv, [Next]_vars PROVE WakeInv'
    OBVIOUS
  <1>0. TypeOK /\ Depth \in Nat /\ queues \in [Levels -> Seq(Jobs)]
    BY QueueTypes DEF WakeInv, TypeOK
  <1> DEFINE k == Cardinality(In("woken"))
  <1>1. ASSUME NEW j \in Jobs, Enqueue(j) PROVE WakeInv'
    <2>1. PICK p \in Requested, d \in {"far", "near"} :
             /\ queues' = [queues EXCEPT ![InRange(p)] = Append(@, j)]
             /\ level' = [level EXCEPT ![j] = InRange(p)]
             /\ deadline' = [deadline EXCEPT ![j] = d]
      BY <1>1 DEF Enqueue
    <2>2. /\ ~closed /\ state' = [state EXCEPT ![j] = "queued"] /\ Signal
          /\ UNCHANGED <<closed, wjob, wgone>>
      BY <1>1 DEF Enqueue
    <2>3. InRange(p) \in Levels
      BY RequestedAssumption DEF InRange, Levels, PriorityNormal
    <2>4. queues' \in [Levels -> Seq(Jobs)] /\ Depth' = Depth + 1
      <3> DEFINE l == InRange(p)
                 t == Append(queues[l], j)
      <3>1. t \in Seq(Jobs) /\ Len(t) = Len(queues[l]) + 1
        BY <1>0, <2>3
      <3>2. queues' = [queues EXCEPT ![l] = t]
        BY <1>0, <2>1
      <3> HIDE DEF l, t
      <3>3. \A q \in Levels : Len(queues'[q]) = IF q = l THEN Len(queues[q]) + 1 ELSE Len(queues[q])
        BY <1>0, <3>1, <3>2
      <3>4. l \in Levels
        BY <2>3 DEF l
      <3> QED BY <1>0, <3>1, <3>2, <3>3, <3>4, DepthMoves
    <2>5. CASE In("waiting") = {}
      <3>1. wpc' = wpc
        BY <2>2, <2>5 DEF Signal
      <3>2. TypeOK'
        BY <1>0, <2>1, <2>2, <2>3, <2>4, <3>1 DEF TypeOK
      <3>3. In("waiting")' = {}
        BY <2>5, <3>1 DEF In
      <3> QED BY <3>2, <3>3 DEF WakeInv, NoLostWakeup
    <2>6. CASE In("waiting") # {}
      <3>1. PICK w \in In("waiting") : wpc' = [wpc EXCEPT ![w] = "woken"]
        BY <2>2, <2>6 DEF Signal
      <3>2. w \in Workers /\ wpc[w] = "waiting" /\ w \notin In("woken")
        BY <3>1 DEF In
      <3>3. TypeOK'
        BY <1>0, <2>1, <2>2, <2>3, <2>4, <3>1, <3>2 DEF TypeOK
      <3>4. In("woken")' = In("woken") \cup {w}
        BY <1>0, <3>1, <3>2 DEF In, TypeOK
      <3>5. Cardinality(In("woken")') = k + 1
        BY <3>2, <3>4, InFacts, FS_AddElement
      <3>6. Depth' <= Cardinality(In("woken")')
        BY <1>0, <2>4, <2>6, <3>5, InFacts DEF WakeInv, NoLostWakeup
      <3> QED BY <2>2, <3>3, <3>6 DEF WakeInv, NoLostWakeup
    <2> QED BY <2>5, <2>6
  <1>2. ASSUME NEW j \in Jobs, EnqueueClosed(j) \/ DeadlineNears(j) PROVE WakeInv'
    <2>1. UNCHANGED <<queues, closed, level, wpc, wjob, wgone>>
      BY <1>2 DEF EnqueueClosed, DeadlineNears
    <2>2. TypeOK' /\ Depth' = Depth
      BY <1>0, <1>2, <2>1 DEF EnqueueClosed, DeadlineNears, TypeOK, Depth
    <2> QED BY <1>0, <2>1, <2>2, ShorterQueue
  <1>3. ASSUME NEW w \in Workers, DequeueTake(w) PROVE WakeInv'
    <2>1. /\ Depth > 0 /\ Looking(w) /\ queues' = Rest
          /\ wjob' = [wjob EXCEPT ![w] = Chosen] /\ wgone' = [wgone EXCEPT ![w] = Gone]
          /\ state' = [state EXCEPT ![Gone] = "taken"]
          /\ wpc' = [wpc EXCEPT ![w] = "busy"] /\ UNCHANGED <<closed, deadline, level>>
      BY <1>3 DEF DequeueTake
    <2>2. PICK p \in Levels : \E at \in 1 .. Len(queues[p]) :
              /\ Rest = [queues EXCEPT ![p] = RemoveAt(queues[p], at)]
              /\ Chosen \in ToSet(queues[p]) /\ Gone = queues[p][at]
      BY <1>0, <2>1, TakeIs
    <2>3. PICK at \in 1 .. Len(queues[p]) :
             Rest = [queues EXCEPT ![p] = RemoveAt(queues[p], at)] /\ Gone = queues[p][at]
      BY <2>2
    <2>4. queues' \in [Levels -> Seq(Jobs)] /\ Depth' = Depth - 1
      BY <1>0, <2>1, <2>3, RemovalDepth
    <2>5. Chosen \in Jobs /\ Gone \in Jobs
      BY <1>0, <2>2, <2>3 DEF ToSet
    <2>6. TypeOK'
      BY <1>0, <2>1, <2>4, <2>5 DEF TypeOK
    <2>7. In("waiting")' = In("waiting") /\ In("woken")' = In("woken") \ {w}
      BY <1>0, <2>1 DEF In, TypeOK, Looking
    <2>8. CASE In("waiting") = {}
      BY <2>6, <2>7, <2>8 DEF WakeInv, NoLostWakeup
    <2>9. CASE In("waiting") # {}
      <3>1. Cardinality(In("woken")') >= k - 1 /\ k \in Nat /\ Cardinality(In("woken")') \in Nat
        <4>1. IsFiniteSet(In("woken")) /\ k \in Nat
          BY InFacts
        <4>2. Cardinality(In("woken") \ {w}) = IF w \in In("woken") THEN k - 1 ELSE k
          BY <4>1, FS_RemoveElement
        <4>3. IsFiniteSet(In("woken") \ {w})
          BY <4>1, FS_Subset
        <4>4. Cardinality(In("woken") \ {w}) \in Nat
          BY <4>3, FS_CardinalityType
        <4> HIDE DEF k
        <4>5. Cardinality(In("woken") \ {w}) >= k - 1
          BY <4>1, <4>2
        <4>6. Cardinality(In("woken")') = Cardinality(In("woken") \ {w})
          BY <2>7
        <4> QED BY <4>1, <4>4, <4>5, <4>6
      <3>2. Depth <= k /\ ~closed
        BY <1>0, <2>1, <2>9 DEF WakeInv, NoLostWakeup
      <3>3. Depth' <= Cardinality(In("woken")')
        BY <1>0, <2>4, <3>1, <3>2
      <3> QED BY <2>1, <2>6, <3>2, <3>3 DEF WakeInv, NoLostWakeup
    <2> QED BY <2>8, <2>9
  <1>4. ASSUME NEW w \in Workers, DequeueWait(w) PROVE WakeInv'
    <2>1. Depth = 0 /\ wpc' = [wpc EXCEPT ![w] = "waiting"]
          /\ UNCHANGED <<queues, closed, deadline, state, level, wjob, wgone>>
      BY <1>4 DEF DequeueWait
    <2>2. TypeOK' /\ Depth' = 0
      BY <1>0, <2>1 DEF TypeOK, Depth
    <2>3. Cardinality(In("woken")') \in Nat
      <3>1. In("woken")' \subseteq Workers
        BY DEF In
      <3> QED BY <3>1, WorkersAssumption, FS_Subset, FS_CardinalityType
    <2> QED BY <2>2, <2>3 DEF WakeInv, NoLostWakeup
  <1>5. ASSUME NEW w \in Workers, DequeueNil(w) PROVE WakeInv'
    <2>1. wpc[w] = "woken" /\ closed /\ wpc' = [wpc EXCEPT ![w] = "stopped"]
          /\ UNCHANGED <<queues, closed, deadline, state, level, wjob, wgone>>
      BY <1>5 DEF DequeueNil
    <2>2. TypeOK' /\ Depth' = Depth
      BY <1>0, <2>1 DEF TypeOK, Depth
    <2>3. In("waiting")' = In("waiting")
      BY <1>0, <2>1 DEF In, TypeOK
    <2>4. Cardinality(In("woken")') \in Nat
      <3>1. In("woken")' \subseteq Workers
        BY DEF In
      <3> QED BY <3>1, WorkersAssumption, FS_Subset, FS_CardinalityType
    <2>5. In("waiting")' # {} => Depth' = 0
      BY <2>1, <2>2, <2>3 DEF WakeInv
    <2> QED BY <2>2, <2>4, <2>5 DEF WakeInv, NoLostWakeup
  <1>6. ASSUME NEW w \in Workers, WorkerDone(w) PROVE WakeInv'
    <2>1. wpc[w] = "busy" /\ wpc' = [wpc EXCEPT ![w] = "calling"]
          /\ wjob' = [wjob EXCEPT ![w] = None] /\ wgone' = [wgone EXCEPT ![w] = None]
          /\ UNCHANGED <<queues, closed, deadline, state, level>>
      BY <1>6 DEF WorkerDone
    <2>2. TypeOK' /\ Depth' = Depth
      BY <1>0, <2>1 DEF TypeOK, Depth
    <2>3. In("waiting")' = In("waiting") /\ In("woken")' = In("woken")
      BY <1>0, <2>1 DEF In, TypeOK
    <2> QED BY <2>1, <2>2, <2>3 DEF WakeInv, NoLostWakeup
  <1>7. ASSUME NEW id \in Ids, Cancel(id) PROVE WakeInv'
    <2>1. PICK p \in Levels :
             /\ id \in {IdOf[j] : j \in ToSet(queues[p])}
             /\ queues' = [queues EXCEPT ![p] = RemoveId(@, id)]
             /\ state' = [state EXCEPT ![queues[p][FirstWith(queues[p], id)]] = "cancelled"]
      BY <1>7 DEF Cancel
    <2> DEFINE at == FirstWith(queues[p], id)
    <2>2. at \in 1 .. Len(queues[p]) /\ RemoveId(queues[p], id) = RemoveAt(queues[p], at)
      <3>1. queues[p] \in Seq(Jobs) /\ \E j \in ToSet(queues[p]) : IdOf[j] = id
        BY <1>0, <2>1
      <3> QED BY <3>1, RemoveIdIs
    <2>3. queues' = [queues EXCEPT ![p] = RemoveAt(queues[p], at)]
      BY <1>0, <2>1, <2>2
    <2> HIDE DEF at
    <2>4. queues' \in [Levels -> Seq(Jobs)] /\ Depth' = Depth - 1
      BY <1>0, <2>2, <2>3, RemovalDepth
    <2>5. UNCHANGED <<closed, deadline, level, wpc, wjob, wgone>>
      BY <1>7 DEF Cancel
    <2>6. TypeOK'
      BY <1>0, <2>1, <2>4, <2>5 DEF TypeOK
    <2>7. Depth' <= Depth
      BY <1>0, <2>4
    <2> QED BY <2>5, <2>6, <2>7, ShorterQueue
  <1>8. CASE Peek
    <2>1. /\ UrgentLevels # {} /\ queues' = WithoutUrgent
          /\ state' = [state EXCEPT ![UrgentGone] = "peeked"]
          /\ UNCHANGED <<closed, deadline, level, wpc, wjob, wgone>>
      BY <1>8 DEF Peek
    <2>2. PICK at \in 1 .. Len(queues[UrgentLevel]) :
             WithoutUrgent = [queues EXCEPT ![UrgentLevel] = RemoveAt(queues[UrgentLevel], at)]
      BY <1>0, <2>1, WithoutUrgentIs
    <2>3. UrgentLevel \in Levels
      BY <1>0, <2>1, UrgentFacts
    <2>4. queues' \in [Levels -> Seq(Jobs)] /\ Depth' = Depth - 1
      BY <1>0, <2>1, <2>2, <2>3, RemovalDepth
    <2>5. TypeOK'
      BY <1>0, <2>1, <2>4 DEF TypeOK
    <2>6. Depth' <= Depth
      BY <1>0, <2>4
    <2> QED BY <2>1, <2>5, <2>6, ShorterQueue
  <1>9. CASE Close
    <2>1. /\ closed' = TRUE /\ UNCHANGED <<queues, deadline, state, level, wjob, wgone>>
          /\ wpc' = [w \in Workers |-> IF wpc[w] = "waiting" THEN "woken" ELSE wpc[w]]
      BY <1>9 DEF Close
    <2>2. TypeOK'
      BY <1>0, <2>1 DEF TypeOK
    <2>3. In("waiting")' = {}
      BY <1>0, <2>1 DEF In, TypeOK
    <2> QED BY <2>2, <2>3 DEF WakeInv, NoLostWakeup
  <1>10. CASE UNCHANGED vars
    <2>1. UNCHANGED <<closed, wpc>> /\ TypeOK' /\ Depth' = Depth
      BY <1>0, <1>10 DEF vars, TypeOK, Depth
    <2> QED BY <1>0, <2>1, ShorterQueue
  <1> QED BY <1>1, <1>2, <1>3, <1>4, <1>5, <1>6, <1>7, <1>8, <1>9, <1>10 DEF Next, WorkerStep

(* NoLostWakeup (priority_queue.go:141-142, 152-173), for any number of    *)
(* workers and jobs and whatever their IDs.                                *)
THEOREM WakeUpsReach == Spec => []NoLostWakeup
  <1>1. WakeInv => NoLostWakeup
    BY DEF WakeInv
  <1> QED BY <1>1, WakeInvInit, WakeInvNext, PTL DEF Spec
-----------------------------------------------------------------------------
(* No queue holds a job twice, and that is what makes the removal of one   *)
(* the end of it.                                                          *)
QueuedInv ==
    /\ Queued = {j \in Jobs : state[j] = "queued"}
    /\ \A p \in Levels : Distinct(queues[p]) /\ \A j \in ToSet(queues[p]) : level[j] = p
    /\ IsFiniteSet(Queued) /\ Depth = Cardinality(Queued)

BusyInv ==
    /\ \A w \in In("busy") :
          wgone[w] \in Jobs /\ state[wgone[w]] = "taken" /\ IdOf[wjob[w]] = IdOf[wgone[w]]
    /\ \A v, w \in In("busy") : wgone[v] = wgone[w] => v = w

ConservedInv == WakeInv /\ QueuedInv /\ BusyInv

LEMMA QueuedIs ==
    ASSUME NEW j
    PROVE  j \in Queued <=> \E p \in Levels : j \in ToSet(queues[p])
  BY DEF Queued

LEMMA ConservedInit == Init => ConservedInv
  <1> SUFFICES ASSUME Init PROVE QueuedInv /\ BusyInv
    BY WakeInvInit DEF ConservedInv
  <1>1. \A p \in Levels : queues[p] = <<>> /\ ToSet(queues[p]) = {} /\ Len(queues[p]) = 0
    BY DEF Init, ToSet
  <1>2. Queued = {} /\ Queued = {j \in Jobs : state[j] = "queued"}
    BY <1>1 DEF Init, Queued
  <1>3. IsFiniteSet(Queued) /\ Cardinality(Queued) = 0
    BY <1>2, FS_EmptySet
  <1>4. Depth = 0
    BY <1>1, WakeInvInit, QueueTypes DEF WakeInv
  <1>5. \A p \in Levels : Distinct(queues[p])
    BY <1>1 DEF Distinct
  <1>6. In("busy") = {}
    BY DEF Init, In
  <1> QED BY <1>1, <1>2, <1>3, <1>4, <1>5, <1>6 DEF QueuedInv, BusyInv

LEMMA AppendSet ==
    ASSUME NEW S, NEW s \in Seq(S), NEW e \in S, e \notin ToSet(s), Distinct(s)
    PROVE  ToSet(Append(s, e)) = ToSet(s) \cup {e} /\ Distinct(Append(s, e))
  <1> DEFINE n == Len(s)
             t == Append(s, e)
  <1>1. /\ n \in Nat /\ t \in Seq(S) /\ Len(t) = n + 1 /\ t[n + 1] = e
        /\ \A i \in 1 .. n : t[i] = s[i]
    OBVIOUS
  <1>2. ToSet(s) = {s[i] : i \in 1 .. n} /\ ToSet(t) = {t[i] : i \in 1 .. n + 1}
    BY <1>1 DEF ToSet
  <1>3. \A i \in 1 .. n : s[i] # e
    BY <1>2
  <1>4. \A i, k \in 1 .. n : s[i] = s[k] => i = k
    BY DEF Distinct
  <1> HIDE DEF n, t
  <1>5. ToSet(t) = ToSet(s) \cup {e}
    <2>1. \A i \in 1 .. n + 1 : i \in 1 .. n \/ i = n + 1
      BY <1>1
    <2>2. \A i \in 1 .. n : i \in 1 .. n + 1
      BY <1>1
    <2>3. n + 1 \in 1 .. n + 1
      BY <1>1
    <2> QED BY <1>1, <1>2, <2>1, <2>2, <2>3
  <1>6. \A i, k \in 1 .. n + 1 : t[i] = t[k] => i = k
    BY <1>1, <1>3, <1>4
  <1> QED BY <1>1, <1>5, <1>6 DEF Distinct, t

(* A queued job goes.                                                      *)
LEMMA QueuedGoes ==
    ASSUME TypeOK, QueuedInv, NEW p \in Levels, NEW at \in 1 .. Len(queues[p]),
           NEW s \in {"taken", "peeked", "cancelled"},
           queues' = [queues EXCEPT ![p] = RemoveAt(queues[p], at)],
           state' = [state EXCEPT ![queues[p][at]] = s], level' = level
    PROVE  /\ QueuedInv' /\ state[queues[p][at]] = "queued" /\ queues[p][at] \in Jobs
           /\ level[queues[p][at]] = p
           /\ \A q \in Levels : ToSet(queues'[q]) = ToSet(queues[q]) \ {queues[p][at]}
  <1> DEFINE j == queues[p][at]
             t == RemoveAt(queues[p], at)
  <1>1. queues \in [Levels -> Seq(Jobs)] /\ queues[p] \in Seq(Jobs)
    BY DEF TypeOK
  <1>2. Distinct(queues[p])
    BY DEF QueuedInv
  <1>3. ToSet(t) = ToSet(queues[p]) \ {j} /\ Distinct(t)
    BY <1>1, <1>2, RemoveAtSet
  <1>4. j \in Jobs /\ j \in ToSet(queues[p]) /\ j \in Queued
    BY <1>1 DEF ToSet, Queued
  <1>5. state[j] = "queued" /\ level[j] = p
    BY <1>4 DEF QueuedInv
  <1>6. \A q \in Levels : q # p => j \notin ToSet(queues[q])
    BY <1>5 DEF QueuedInv
  <1>7. Depth' = Depth - 1
    BY RemovalDepth
  <1> HIDE DEF t
  <1>8. \A q \in Levels : queues'[q] = IF q = p THEN t ELSE queues[q]
    BY <1>1 DEF t
  <1> HIDE DEF j
  <1>9. \A q \in Levels : ToSet(queues'[q]) = ToSet(queues[q]) \ {j}
    BY <1>3, <1>6, <1>8
  <1>10. Queued' = Queued \ {j}
    <2>1. \A x : x \in Queued <=> \E q \in Levels : x \in ToSet(queues[q])
      BY DEF Queued
    <2>2. \A x : x \in Queued' <=> \E q \in Levels : x \in ToSet(queues'[q])
      BY DEF Queued
    <2> QED BY <1>9, <2>1, <2>2
  <1>11. Queued' = {k \in Jobs : state'[k] = "queued"}
    <2>1. \A k \in Jobs : state'[k] = IF k = j THEN s ELSE state[k]
      BY DEF TypeOK, j
    <2> QED BY <1>10, <2>1 DEF QueuedInv
  <1>12. \A q \in Levels : Distinct(queues'[q]) /\ \A k \in ToSet(queues'[q]) : level'[k] = q
    BY <1>3, <1>8, <1>9 DEF QueuedInv
  <1>13. IsFiniteSet(Queued') /\ Depth' = Cardinality(Queued')
    <2>1. IsFiniteSet(Queued) /\ Depth = Cardinality(Queued)
      BY DEF QueuedInv
    <2>2. IsFiniteSet(Queued \ {j}) /\ Cardinality(Queued \ {j}) = Depth - 1
      BY <1>4, <2>1, FS_RemoveElement, FS_Subset
    <2> QED BY <1>7, <1>10, <2>2
  <1> QED BY <1>4, <1>5, <1>9, <1>11, <1>12, <1>13 DEF QueuedInv, j

(* Busy workers keep their jobs when a queued one changes hands or not.    *)
LEMMA BusyKept ==
    ASSUME TypeOK, BusyInv, UNCHANGED <<wjob, wgone, wpc>>,
           \A j \in Jobs : state[j] = "taken" => state'[j] = "taken"
    PROVE  BusyInv'
  <1>1. In("busy")' = In("busy")
    BY DEF In
  <1> QED BY <1>1 DEF BusyInv

LEMMA ConservedNext == ConservedInv /\ [Next]_vars => ConservedInv'
  <1> SUFFICES ASSUME ConservedInv, [Next]_vars PROVE QueuedInv' /\ BusyInv'
    BY WakeInvNext DEF ConservedInv
  <1>0. TypeOK /\ QueuedInv /\ BusyInv /\ queues \in [Levels -> Seq(Jobs)] /\ Depth \in Nat
    <2>1. TypeOK /\ QueuedInv /\ BusyInv
      BY DEF ConservedInv, WakeInv
    <2> QED BY <2>1, QueueTypes DEF TypeOK
  <1>1. ASSUME NEW j \in Jobs, Enqueue(j) PROVE QueuedInv' /\ BusyInv'
    <2>1. PICK p \in Requested :
             /\ queues' = [queues EXCEPT ![InRange(p)] = Append(@, j)]
             /\ level' = [level EXCEPT ![j] = InRange(p)]
      BY <1>1 DEF Enqueue
    <2>2. /\ state[j] = "new" /\ state' = [state EXCEPT ![j] = "queued"]
          /\ Signal /\ UNCHANGED <<wjob, wgone>>
      BY <1>1 DEF Enqueue
    <2> DEFINE l == InRange(p)
               t == Append(queues[l], j)
    <2>3. l \in Levels
      BY RequestedAssumption DEF InRange, Levels, PriorityNormal
    <2>4. /\ t \in Seq(Jobs) /\ Len(t) = Len(queues[l]) + 1 /\ t[Len(t)] = j
          /\ \A i \in 1 .. Len(queues[l]) : t[i] = queues[l][i]
      BY <1>0, <2>3
    <2>5. j \notin Queued
      BY <1>0, <2>2 DEF QueuedInv
    <2>6. \A q \in Levels : j \notin ToSet(queues[q])
      BY <2>5, QueuedIs
    <2> HIDE DEF l, t
    <2>7. \A q \in Levels : queues'[q] = IF q = l THEN t ELSE queues[q]
      BY <1>0, <2>1, <2>3 DEF l, t
    <2>8. ToSet(t) = ToSet(queues[l]) \cup {j} /\ Distinct(t)
      <3>1. queues[l] \in Seq(Jobs) /\ Distinct(queues[l]) /\ j \notin ToSet(queues[l])
        BY <1>0, <2>3, <2>6 DEF QueuedInv
      <3> QED BY <3>1, AppendSet DEF t
    <2>9. Depth' = Depth + 1
      <3>1. \A q \in Levels : Len(queues'[q]) = IF q = l THEN Len(queues[q]) + 1 ELSE Len(queues[q])
        BY <2>4, <2>7
      <3> QED BY <1>0, <2>3, <3>1, DepthMoves
    <2>10. \A q \in Levels : ToSet(queues'[q]) = IF q = l THEN ToSet(queues[q]) \cup {j} ELSE ToSet(queues[q])
      BY <2>7, <2>8
    <2>11. Queued' = Queued \cup {j}
      BY <2>3, <2>10 DEF Queued
    <2>12. Queued' = {k \in Jobs : state'[k] = "queued"}
      <3>1. \A k \in Jobs : state'[k] = IF k = j THEN "queued" ELSE state[k]
        BY <1>0, <2>2 DEF TypeOK
      <3> QED BY <1>0, <2>11, <3>1 DEF QueuedInv
    <2>13. \A q \in Levels : Distinct(queues'[q]) /\ \A k \in ToSet(queues'[q]) : level'[k] = q
      <3> SUFFICES ASSUME NEW q \in Levels
                   PROVE  Distinct(queues'[q]) /\ \A k \in ToSet(queues'[q]) : level'[k] = q
        OBVIOUS
      <3>1. Distinct(queues'[q])
        BY <1>0, <2>7, <2>8 DEF QueuedInv
      <3>2. \A k \in ToSet(queues[q]) : k \in Jobs /\ k # j /\ level[k] = q
        BY <1>0, <2>6 DEF QueuedInv, ToSet
      <3>3. level \in [Jobs -> Levels] /\ level' = [level EXCEPT ![j] = l]
        BY <1>0, <2>1 DEF TypeOK, l
      <3>4. \A k \in ToSet(queues[q]) : level'[k] = q
        BY <3>2, <3>3
      <3>5. level'[j] = l
        BY <3>3
      <3> QED BY <2>10, <3>1, <3>4, <3>5
    <2>14. IsFiniteSet(Queued') /\ Depth' = Cardinality(Queued')
      <3>1. IsFiniteSet(Queued) /\ Depth = Cardinality(Queued)
        BY <1>0 DEF QueuedInv
      <3>2. IsFiniteSet(Queued \cup {j}) /\ Cardinality(Queued \cup {j}) = Cardinality(Queued) + 1
        BY <2>5, <3>1, FS_AddElement
      <3> QED BY <2>9, <2>11, <3>1, <3>2
    <2>15. In("busy")' = In("busy")
      <3>1. CASE wpc' = wpc
        BY <3>1 DEF In
      <3>2. CASE \E w \in In("waiting") : wpc' = [wpc EXCEPT ![w] = "woken"]
        BY <1>0, <3>2 DEF In, TypeOK
      <3> QED BY <2>2, <3>1, <3>2 DEF Signal
    <2>16. BusyInv'
      BY <1>0, <2>2, <2>15 DEF BusyInv, TypeOK
    <2> QED BY <2>12, <2>13, <2>14, <2>16 DEF QueuedInv
  <1>2. ASSUME NEW j \in Jobs, EnqueueClosed(j) PROVE QueuedInv' /\ BusyInv'
    <2>1. /\ state[j] = "new" /\ state' = [state EXCEPT ![j] = "refused"]
          /\ UNCHANGED <<queues, level, wpc, wjob, wgone>>
      BY <1>2 DEF EnqueueClosed
    <2>2. \A k \in Jobs : state'[k] = IF k = j THEN "refused" ELSE state[k]
      BY <1>0, <2>1 DEF TypeOK
    <2>3. Queued' = Queued /\ Depth' = Depth
      BY <2>1 DEF Queued, Depth
    <2>4. QueuedInv'
      BY <1>0, <2>1, <2>2, <2>3 DEF QueuedInv
    <2> QED BY <1>0, <2>1, <2>2, <2>4, BusyKept
  <1>3. ASSUME UNCHANGED <<queues, level, state, wpc, wjob, wgone>> PROVE QueuedInv' /\ BusyInv'
    <2>1. Queued' = Queued /\ Depth' = Depth /\ In("busy")' = In("busy")
      BY <1>3 DEF Queued, Depth, In
    <2> QED BY <1>0, <1>3, <2>1 DEF QueuedInv, BusyInv
  <1>4. ASSUME NEW w \in Workers, DequeueTake(w) PROVE QueuedInv' /\ BusyInv'
    <2>1. /\ Depth > 0 /\ Looking(w) /\ queues' = Rest
          /\ wjob' = [wjob EXCEPT ![w] = Chosen] /\ wgone' = [wgone EXCEPT ![w] = Gone]
          /\ state' = [state EXCEPT ![Gone] = "taken"]
          /\ wpc' = [wpc EXCEPT ![w] = "busy"] /\ level' = level
      BY <1>4 DEF DequeueTake
    <2>a. PICK p \in Levels : \E at \in 1 .. Len(queues[p]) :
              /\ Rest = [queues EXCEPT ![p] = RemoveAt(queues[p], at)]
              /\ Gone = queues[p][at] /\ IdOf[Gone] = IdOf[Chosen]
      BY <1>0, <2>1, TakeIs
    <2>2. PICK at \in 1 .. Len(queues[p]) :
              /\ Rest = [queues EXCEPT ![p] = RemoveAt(queues[p], at)]
              /\ Gone = queues[p][at] /\ IdOf[Gone] = IdOf[Chosen]
      BY <2>a
    <2>3. QueuedInv' /\ state[Gone] = "queued" /\ Gone \in Jobs
      BY <1>0, <2>1, <2>2, QueuedGoes
    <2>4. In("busy")' = In("busy") \cup {w} /\ w \notin In("busy")
      BY <1>0, <2>1 DEF In, TypeOK, Looking
    <2>5. /\ wjob'[w] = Chosen /\ wgone'[w] = Gone
          /\ \A v \in In("busy") : wjob'[v] = wjob[v] /\ wgone'[v] = wgone[v]
      BY <1>0, <2>1, <2>4 DEF TypeOK
    <2>6. \A v \in In("busy") : wgone[v] \in Jobs /\ wgone[v] # Gone /\ state[wgone[v]] = "taken"
      BY <1>0, <2>3 DEF BusyInv
    <2>7. \A k \in Jobs : state'[k] = IF k = Gone THEN "taken" ELSE state[k]
      BY <1>0, <2>1 DEF TypeOK
    <2>8. BusyInv'
      <3>1. \A v \in In("busy") \cup {w} :
               wgone'[v] \in Jobs /\ state'[wgone'[v]] = "taken" /\ IdOf[wjob'[v]] = IdOf[wgone'[v]]
        BY <1>0, <2>2, <2>3, <2>5, <2>6, <2>7 DEF BusyInv
      <3>2. \A v, u \in In("busy") \cup {w} : wgone'[v] = wgone'[u] => v = u
        BY <1>0, <2>5, <2>6 DEF BusyInv
      <3> QED BY <2>4, <3>1, <3>2 DEF BusyInv
    <2> QED BY <2>3, <2>8
  <1>5. ASSUME NEW w \in Workers, DequeueWait(w) \/ DequeueNil(w) \/ WorkerDone(w)
        PROVE  QueuedInv' /\ BusyInv'
    <2>1. UNCHANGED <<queues, state, level>>
      BY <1>5 DEF DequeueWait, DequeueNil, WorkerDone
    <2>2. QueuedInv'
      <3>1. Queued' = Queued /\ Depth' = Depth
        BY <2>1 DEF Queued, Depth
      <3> QED BY <1>0, <2>1, <3>1 DEF QueuedInv
    <2>3. /\ In("busy")' \subseteq In("busy")
          /\ \A v \in In("busy")' : wjob'[v] = wjob[v] /\ wgone'[v] = wgone[v]
      BY <1>0, <1>5 DEF DequeueWait, DequeueNil, WorkerDone, In, TypeOK
    <2>4. BusyInv'
      BY <1>0, <2>1, <2>3 DEF BusyInv
    <2> QED BY <2>2, <2>4
  <1>6. ASSUME NEW id \in Ids, Cancel(id) PROVE QueuedInv' /\ BusyInv'
    <2>1. PICK p \in Levels :
             /\ id \in {IdOf[j] : j \in ToSet(queues[p])}
             /\ queues' = [queues EXCEPT ![p] = RemoveId(@, id)]
             /\ state' = [state EXCEPT ![queues[p][FirstWith(queues[p], id)]] = "cancelled"]
      BY <1>6 DEF Cancel
    <2> DEFINE at == FirstWith(queues[p], id)
    <2>2. at \in 1 .. Len(queues[p]) /\ RemoveId(queues[p], id) = RemoveAt(queues[p], at)
      <3>1. queues[p] \in Seq(Jobs) /\ \E j \in ToSet(queues[p]) : IdOf[j] = id
        BY <1>0, <2>1
      <3> QED BY <3>1, RemoveIdIs
    <2>3. queues' = [queues EXCEPT ![p] = RemoveAt(queues[p], at)]
          /\ state' = [state EXCEPT ![queues[p][at]] = "cancelled"]
      BY <1>0, <2>1, <2>2
    <2> HIDE DEF at
    <2>4. UNCHANGED <<level, wpc, wjob, wgone>>
      BY <1>6 DEF Cancel
    <2>5. QueuedInv' /\ state[queues[p][at]] = "queued" /\ queues[p][at] \in Jobs
      BY <1>0, <2>2, <2>3, <2>4, QueuedGoes
    <2>6. \A k \in Jobs : state[k] = "taken" => state'[k] = "taken"
      BY <1>0, <2>3, <2>5 DEF TypeOK
    <2> QED BY <1>0, <2>4, <2>5, <2>6, BusyKept
  <1>7. CASE Peek
    <2>1. /\ UrgentLevels # {} /\ queues' = WithoutUrgent
          /\ state' = [state EXCEPT ![UrgentGone] = "peeked"] /\ UNCHANGED <<level, wpc, wjob, wgone>>
      BY <1>7 DEF Peek
    <2>2. PICK at \in 1 .. Len(queues[UrgentLevel]) :
             /\ WithoutUrgent = [queues EXCEPT ![UrgentLevel] = RemoveAt(queues[UrgentLevel], at)]
             /\ UrgentGone = queues[UrgentLevel][at]
      BY <1>0, <2>1, WithoutUrgentIs
    <2>3. UrgentLevel \in Levels
      BY <1>0, <2>1, UrgentFacts
    <2>4. QueuedInv' /\ state[UrgentGone] = "queued" /\ UrgentGone \in Jobs
      BY <1>0, <2>1, <2>2, <2>3, QueuedGoes
    <2>5. \A k \in Jobs : state[k] = "taken" => state'[k] = "taken"
      BY <1>0, <2>1, <2>4 DEF TypeOK
    <2> QED BY <1>0, <2>1, <2>4, <2>5, BusyKept
  <1>8. CASE Close
    <2>1. /\ UNCHANGED <<queues, state, level, wjob, wgone>>
          /\ wpc' = [w \in Workers |-> IF wpc[w] = "waiting" THEN "woken" ELSE wpc[w]]
      BY <1>8 DEF Close
    <2>2. Queued' = Queued /\ Depth' = Depth /\ In("busy")' = In("busy")
      BY <2>1 DEF Queued, Depth, In
    <2> QED BY <1>0, <2>1, <2>2 DEF QueuedInv, BusyInv
  <1> QED
    BY <1>1, <1>2, <1>3, <1>4, <1>5, <1>6, <1>7, <1>8 DEF Next, WorkerStep, DeadlineNears, vars

LEMMA ConservedHolds == Spec => []ConservedInv
  BY ConservedInit, ConservedNext, PTL DEF Spec

(* JobsConserved (priority_queue.go:99-109, 138, 161, 178-207), whatever   *)
(* the IDs: an accepted job keeps its one place until one call clears it,  *)
(* and a worker gets the ID whose place its call cleared.                  *)
THEOREM JobsStay == Spec => []JobsConserved
  <1>1. ConservedInv => JobsConserved
    BY DEF ConservedInv, WakeInv, QueuedInv, BusyInv, JobsConserved
  <1> QED BY <1>1, ConservedHolds, PTL

(* What Dequeue leaves behind has no better claim than what it returns.    *)
LEMMA TakesBest ==
    ASSUME ConservedInv, NEW w \in Workers, DequeueTake(w),
           NEW k \in (UNION {ToSet(queues'[p]) : p \in Levels}) \ {wjob'[w]}
    PROVE  LET j == wjob'[w]
               urgent(i) == deadline[i] = "near"
           IN  /\ urgent(k) => urgent(j)
               /\ (urgent(k) <=> urgent(j)) =>
                     \/ level[j] < level[k]
                     \/ /\ level[j] = level[k]
                        /\ \E a, b \in 1 .. Len(queues[level[j]]) :
                              a < b /\ queues[level[j]][a] = j /\ queues[level[j]][b] = k
  <1>0. TypeOK /\ QueuedInv
    BY DEF ConservedInv, WakeInv
  <1>1. /\ Depth > 0 /\ queues' = Rest /\ wjob' = [wjob EXCEPT ![w] = Chosen]
        /\ state' = [state EXCEPT ![Gone] = "taken"] /\ level' = level
    BY DEF DequeueTake
  <1>2. PICK p \in Levels : \E at \in 1 .. Len(queues[p]) :
            /\ Rest = [queues EXCEPT ![p] = RemoveAt(queues[p], at)]
            /\ Gone = queues[p][at]
    BY <1>0, <1>1, TakeIs
  <1>3. PICK at \in 1 .. Len(queues[p]) :
            /\ Rest = [queues EXCEPT ![p] = RemoveAt(queues[p], at)]
            /\ Gone = queues[p][at]
    BY <1>2
  <1>4. \A q \in Levels : ToSet(queues'[q]) \subseteq ToSet(queues[q])
    <2>1. /\ queues' = [queues EXCEPT ![p] = RemoveAt(queues[p], at)]
          /\ state' = [state EXCEPT ![queues[p][at]] = "taken"] /\ level' = level
      BY <1>1, <1>3
    <2>2. \A q \in Levels : ToSet(queues'[q]) = ToSet(queues[q]) \ {queues[p][at]}
      BY ONLY <1>0, <2>1, QueuedGoes, p \in Levels, at \in 1 .. Len(queues[p])
    <2> QED BY <1>3, <2>2
  <1>a. wjob'[w] = Chosen
    BY <1>0, <1>1 DEF TypeOK
  <1>5. PICK q \in Levels : k \in ToSet(queues[q]) /\ k # Chosen
    BY <1>4, <1>a
  <1>6. level[k] = q /\ q \in Nat
    BY <1>0, <1>5 DEF QueuedInv, Levels
  <1>7. PICK b \in 1 .. Len(queues[q]) : queues[q][b] = k
    <2>1. queues[q] \in Seq(Jobs)
      BY <1>0, QueueTypes
    <2> QED BY <1>5, <2>1 DEF ToSet
  <1>8. wjob'[w] = Chosen
    BY <1>0, <1>1 DEF TypeOK
  <1>9. CASE UrgentLevels # {}
    <2>1. Chosen = queues[UrgentLevel][UrgentAt(UrgentLevel)] /\ deadline[Chosen] = "near"
          /\ Chosen \in ToSet(queues[UrgentLevel])
      BY <1>0, <1>9, UrgentFacts DEF Chosen, UrgentJob
    <2>2. /\ UrgentLevel \in Levels /\ UrgentAt(UrgentLevel) \in 1 .. Len(queues[UrgentLevel])
          /\ UrgentLevel \in Nat /\ level[Chosen] = UrgentLevel
      BY <1>0, <1>9, <2>1, UrgentFacts DEF QueuedInv, Levels
    <2>3. ASSUME deadline[k] = "near"
          PROVE  \/ UrgentLevel < q
                 \/ q = UrgentLevel /\ UrgentAt(UrgentLevel) < b
      <3>1. UrgentLevel < q \/ (q = UrgentLevel /\ UrgentAt(UrgentLevel) <= b)
        BY <1>0, <1>7, <1>9, <2>3, UrgentFacts
      <3>2. q = UrgentLevel => b # UrgentAt(UrgentLevel)
        BY <1>5, <1>7, <2>1
      <3> QED BY <2>2, <3>1, <3>2
    <2> QED BY <1>6, <1>7, <1>8, <2>1, <2>2, <2>3
  <1>10. CASE UrgentLevels = {}
    <2> DEFINE f == queues[FrontLevel]
    <2>1. /\ FrontLevel \in Levels /\ Head(f) = f[1] /\ 1 \in 1 .. Len(f) /\ f \in Seq(Jobs)
          /\ \A l \in Levels : queues[l] # <<>> => FrontLevel <= l
      BY <1>0, <1>1, FrontFacts, QueueTypes
    <2>2. Chosen = f[1]
      BY <1>10, <2>1 DEF Chosen
    <2>3. Chosen \in ToSet(f) /\ level[Chosen] = FrontLevel /\ FrontLevel \in Nat
      BY <1>0, <2>1, <2>2 DEF QueuedInv, ToSet, Levels
    <2>4. deadline[k] # "near"
      BY <1>0, <1>7, <1>10, UrgentAtFacts DEF UrgentLevels
    <2>5. queues[q] # <<>>
      BY <1>7
    <2>6. FrontLevel <= q
      BY <2>1, <2>5
    <2>7. CASE FrontLevel = q
      <3>1. b # 1
        BY <1>5, <1>7, <2>2, <2>7
      <3>2. 1 < b
        BY <3>1
      <3> QED BY <1>6, <1>7, <1>8, <2>1, <2>2, <2>3, <2>4, <2>7, <3>2
    <2>8. CASE FrontLevel # q
      <3>1. FrontLevel < q
        BY <1>6, <2>3, <2>6, <2>8
      <3> QED BY <1>6, <1>8, <2>3, <2>4, <3>1
    <2> QED BY <2>7, <2>8
  <1> QED BY <1>9, <1>10

(* BestClaimFirst (priority_queue.go:153-165), whatever the IDs.           *)
THEOREM BestIsFirst == Spec => BestClaimFirst
  <1>1. ConservedInv =>
           [\A w \in Workers : DequeueTake(w) =>
              LET j == wjob'[w]
                  urgent(k) == deadline[k] = "near"
              IN  \A k \in (UNION {ToSet(queues'[p]) : p \in Levels}) \ {j} :
                     /\ urgent(k) => urgent(j)
                     /\ (urgent(k) <=> urgent(j)) =>
                           \/ level[j] < level[k]
                           \/ /\ level[j] = level[k]
                              /\ \E a, b \in 1 .. Len(queues[level[j]]) :
                                    a < b /\ queues[level[j]][a] = j /\ queues[level[j]][b] = k]_vars
    BY TakesBest
  <1> QED BY <1>1, ConservedHolds, PTL DEF BestClaimFirst
=============================================================================

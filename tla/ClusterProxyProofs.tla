------------------------- MODULE ClusterProxyProofs -------------------------
(***************************************************************************)
(* Theorems about ClusterProxy: the order and the contents of the queue    *)
(* under enqueues and cancellations that race with the handlers, what is   *)
(* shown of a request while it is served, and what the history keeps of it *)
(* afterwards, for any number of requests and any sizes.                   *)
(***************************************************************************)
EXTENDS ClusterProxy, FiniteSetTheorems, WellFoundedInduction, TLAPS

(* The operators on sequences.                                             *)
LEMMA SubSeqFacts ==
    ASSUME NEW S, NEW s \in Seq(S), NEW m \in 1 .. Len(s) + 1, NEW n \in 0 .. Len(s), m <= n + 1
    PROVE  /\ SubSeq(s, m, n) \in Seq(S) /\ Len(SubSeq(s, m, n)) = n - m + 1
           /\ \A k \in 1 .. n - m + 1 : SubSeq(s, m, n)[k] = s[m + k - 1]
  OBVIOUS

LEMMA ConcatFacts ==
    ASSUME NEW S, NEW s \in Seq(S), NEW t \in Seq(S)
    PROVE  /\ s \o t \in Seq(S) /\ Len(s \o t) = Len(s) + Len(t)
           /\ \A k \in 1 .. Len(s) + Len(t) :
                 (s \o t)[k] = IF k <= Len(s) THEN s[k] ELSE t[k - Len(s)]
  OBVIOUS

LEMMA InsertAtFacts ==
    ASSUME NEW S, NEW s \in Seq(S), NEW e \in S, NEW i \in 1 .. Len(s) + 1
    PROVE  /\ InsertAt(s, i, e) \in Seq(S) /\ Len(InsertAt(s, i, e)) = Len(s) + 1
           /\ \A k \in 1 .. Len(s) + 1 :
                 InsertAt(s, i, e)[k] = IF k < i THEN s[k] ELSE IF k = i THEN e ELSE s[k - 1]
  <1> DEFINE a == SubSeq(s, 1, i - 1)
             b == SubSeq(s, i, Len(s))
  <1>1. /\ a \in Seq(S) /\ Len(a) = i - 1 /\ \A k \in 1 .. i - 1 : a[k] = s[k]
    BY SubSeqFacts
  <1>2. /\ b \in Seq(S) /\ Len(b) = Len(s) - i + 1
        /\ \A k \in 1 .. Len(s) - i + 1 : b[k] = s[i + k - 1]
    BY SubSeqFacts
  <1> HIDE DEF a, b
  <1>3. InsertAt(s, i, e) = (a \o <<e>>) \o b
    BY DEF InsertAt, a, b
  <1>4. /\ a \o <<e>> \in Seq(S) /\ Len(a \o <<e>>) = i
        /\ \A k \in 1 .. i : (a \o <<e>>)[k] = IF k < i THEN s[k] ELSE e
    BY <1>1
  <1> QED BY <1>2, <1>3, <1>4, ConcatFacts

LEMMA RemoveAtFacts ==
    ASSUME NEW S, NEW s \in Seq(S), NEW i \in 1 .. Len(s)
    PROVE  /\ RemoveAt(s, i) \in Seq(S) /\ Len(RemoveAt(s, i)) = Len(s) - 1
           /\ \A k \in 1 .. Len(s) - 1 :
                 RemoveAt(s, i)[k] = IF k < i THEN s[k] ELSE s[k + 1]
  <1> DEFINE a == SubSeq(s, 1, i - 1)
             b == SubSeq(s, i + 1, Len(s))
  <1>1. /\ a \in Seq(S) /\ Len(a) = i - 1 /\ \A k \in 1 .. i - 1 : a[k] = s[k]
    BY SubSeqFacts
  <1>2. /\ b \in Seq(S) /\ Len(b) = Len(s) - i
        /\ \A k \in 1 .. Len(s) - i : b[k] = s[i + k]
    BY SubSeqFacts
  <1> HIDE DEF a, b
  <1>3. RemoveAt(s, i) = a \o b
    BY DEF RemoveAt, a, b
  <1>0. Len(s) \in Nat
    OBVIOUS
  <1>4. /\ a \o b \in Seq(S) /\ Len(a \o b) = Len(a) + Len(b)
        /\ \A k \in 1 .. Len(a) + Len(b) : (a \o b)[k] = IF k <= Len(a) THEN a[k] ELSE b[k - Len(a)]
    BY <1>1, <1>2, ConcatFacts
  <1>5. ASSUME NEW k \in 1 .. Len(s) - 1 PROVE (a \o b)[k] = IF k < i THEN s[k] ELSE s[k + 1]
    <2>1. CASE k < i BY <1>1, <1>4, <2>1
    <2>2. CASE k >= i
      <3>1. /\ k - Len(a) \in 1 .. Len(s) - i /\ ~(k <= Len(a)) /\ k \in 1 .. Len(a) + Len(b)
            /\ i + (k - Len(a)) = k + 1
        BY <1>0, <1>1, <1>2, <2>2
      <3>2. (a \o b)[k] = b[k - Len(a)]
        BY <1>4, <3>1
      <3>3. b[k - Len(a)] = s[k + 1]
        BY <1>2, <3>1
      <3>4. ~(k < i)
        BY <1>0, <2>2
      <3> QED BY <3>2, <3>3, <3>4, Zenon
    <2>3. k < i \/ k >= i
      BY <1>0
    <2> QED BY <2>1, <2>2, <2>3, Zenon
  <1> QED BY <1>0, <1>1, <1>2, <1>3, <1>4, <1>5

Less == {ss \in Nat \X Nat : ss[1] < ss[2]}

LEMMA LeastExists == ASSUME NEW I \in SUBSET Nat, I # {}
    PROVE \E x \in I : \A y \in I : x <= y
  <1>1. Less = OpToRel(<, Nat)
    BY Zenon DEF OpToRel, Less
  <1>2. IsWellFoundedOn(Less, Nat)
    BY Zenon, <1>1, NatLessThanWellFounded
  <1>3. PICK x \in I : \A y \in I : ~(<<y, x>> \in Less)
    BY <1>2, WFMin
  <1>4. ASSUME NEW y \in I PROVE x <= y
    <2>1. x \in Nat /\ y \in Nat /\ ~(<<y, x>> \in Less)
      BY <1>3
    <2> QED BY <2>1 DEF Less
  <1> QED BY <1>4

LEMMA RemoveFirstIs ==
    ASSUME NEW S, NEW s \in Seq(S), NEW e \in ToSet(s)
    PROVE  \E i \in 1 .. Len(s) : s[i] = e /\ RemoveFirst(s, e) = RemoveAt(s, i)
  <1> DEFINE I == {i \in 1 .. Len(s) : s[i] = e}
  <1>1. I # {} /\ I \in SUBSET Nat BY DEF ToSet
  <1>2. SelectInSeq(s, LAMBDA v : v = e) = Min(I)
    BY <1>1 DEF SelectInSeq
  <1>3. RemoveFirst(s, e) = RemoveAt(s, Min(I))
    BY <1>1, <1>2 DEF RemoveFirst
  <1>4. Min(I) \in I BY <1>1, LeastExists DEF Min
  <1> QED BY <1>3, <1>4

(* Reading a queue off its set: no element twice.                          *)
Distinct(s) == \A i, k \in 1 .. Len(s) : s[i] = s[k] => i = k

LEMMA DistinctCounts ==
    ASSUME NEW S, NEW s \in Seq(S), Distinct(s)
    PROVE  IsFiniteSet(ToSet(s)) /\ Cardinality(ToSet(s)) = Len(s)
  <1>1. s \in [1 .. Len(s) -> ToSet(s)] /\ ToSet(s) = {s[i] : i \in 1 .. Len(s)} /\ Len(s) \in Nat
    BY DEF ToSet
  <1>2. s \in Bijection(1 .. Len(s), ToSet(s))
    BY <1>1 DEF Distinct, Bijection, Injection, Surjection, IsInjective
  <1>3. ExistsBijection(1 .. Len(s), ToSet(s))
    BY <1>2 DEF ExistsBijection
  <1>4. IsFiniteSet(1 .. Len(s)) /\ Cardinality(1 .. Len(s)) = Len(s)
    <2> SUFFICES ASSUME NEW n \in Nat PROVE IsFiniteSet(1 .. n) /\ Cardinality(1 .. n) = n
      BY <1>1
    <2> QED BY FS_Interval
  <1> QED BY <1>3, <1>4, FS_Bijection
-----------------------------------------------------------------------------
(* The inductive invariant.  The queue: a request that Cancel is about to  *)
(* take out is still in it, and the request that comes next is newer than  *)
(* all before it.                                                          *)
QueueInv ==
    /\ QueueOrdered
    /\ ToSet(items) = Accepted \ cancelled /\ cancelled \subseteq Accepted
    /\ cancelling # None => cancelling \in ToSet(items)
    /\ \A r \in Accepted : createdAt[r] <= Cardinality(Accepted)

(* What the client was told and what the status says of it, once the       *)
(* handler has written both.                                               *)
Told(r) ==
    /\ status[r] \in {"complete", "failed"}
    /\ reply[r] \in {"no nodes", "upstream error"} => status[r] = "failed"
    /\ reply[r] \in Responses \ {"empty stream"} => status[r] = "complete" \/ r \in cancelled

(* One request, along its handler.                                         *)
Stage(r) ==
    /\ createdAt[r] = 0 => pc[r] \in {"idle", "done"}
    /\ pc[r] = "idle" => createdAt[r] = 0
    /\ pc[r] \in {"selected", "marked", "calling"} => node[r] \in Nodes
    /\ pc[r] \in {"marked", "calling"} => status[r] = "running" \/ r \in cancelled
    /\ pc[r] = "calling" => r \in active
    /\ pc[r] \in {"returning", "leaving"} => Told(r)
    /\ pc[r] = "done" /\ createdAt[r] > 0 => Told(r)

Over == {r \in Accepted : pc[r] = "done"}

HistoryInv ==
    /\ Distinct(ended) /\ ToSet(ended) = Over
    /\ Len(requests) = IF Len(ended) < MaxHistory THEN Len(ended) ELSE MaxHistory
    /\ \A k \in 1 .. Len(requests) : requests[k] = ended[Len(ended) - Len(requests) + k]

ProxyInv == TypeOK /\ QueueInv /\ HistoryInv /\ \A r \in Reqs : Stage(r)

LEMMA Types ==
    ASSUME TypeOK
    PROVE  /\ items \in Seq(Reqs) /\ requests \in Seq(Reqs)
           /\ \A r \in Reqs : priority[r] \in Int /\ createdAt[r] \in Nat
           /\ Accepted \subseteq Reqs /\ IsFiniteSet(Accepted) /\ Cardinality(Accepted) \in Nat
  <1>1. IsFiniteSet(Accepted) /\ Accepted \subseteq Reqs
    BY ReqsAssumption, FS_Subset DEF Accepted
  <1>2. Cardinality(Accepted) \in Nat /\ Cardinality(Reqs) \in Nat
    BY <1>1, ReqsAssumption, FS_CardinalityType
  <1>3. ASSUME NEW r \in Reqs PROVE priority[r] \in Int /\ createdAt[r] \in Nat
    <2>1. priority[r] \in Priorities \cup {0} /\ createdAt[r] \in 0 .. Cardinality(Reqs)
      BY DEF TypeOK
    <2>2. \A m \in Nat : \A k \in 0 .. m : k \in Nat
      OBVIOUS
    <2>3. createdAt[r] \in Nat
      BY <1>2, <2>1, <2>2
    <2>4. Priorities \cup {0} \subseteq Int
      BY PriorityAssumption
    <2> QED BY <2>1, <2>3, <2>4
  <1> QED BY <1>1, <1>2, <1>3 DEF TypeOK

LEMMA ProxyInvInit == Init => ProxyInv
  <1> SUFFICES ASSUME Init PROVE ProxyInv
    OBVIOUS
  <1>1. Accepted = {} /\ Over = {} /\ ToSet(items) = {} /\ ToSet(ended) = {}
        /\ Len(items) = 0 /\ Len(requests) = 0 /\ Len(ended) = 0
    BY DEF Init, Accepted, Over, ToSet
  <1>3. Cardinality(Reqs) \in Nat
    BY ReqsAssumption, FS_CardinalityType
  <1>4. TypeOK
    <2>1. items \in Seq(Reqs) /\ requests \in Seq(Reqs) /\ ended \in Seq(Reqs) /\ maxSize \in MaxSizes
          /\ Len(items) <= maxSize /\ Len(requests) <= MaxHistory
      BY <1>1, SizeAssumption DEF Init
    <2>2. createdAt \in [Reqs -> 0 .. Cardinality(Reqs)]
      BY <1>3 DEF Init
    <2> QED BY <2>1, <2>2 DEF Init, TypeOK
  <1>5. QueueInv
    BY <1>1 DEF Init, QueueInv, QueueOrdered
  <1>6. HistoryInv
    BY <1>1, SizeAssumption DEF HistoryInv, Distinct
  <1>7. \A r \in Reqs : Stage(r)
    BY DEF Init, Stage
  <1> QED BY <1>4, <1>5, <1>6, <1>7 DEF ProxyInv
-----------------------------------------------------------------------------
(* The queue.  Enqueue's position has no lower priority before it and only *)
(* lower ones after it, because the queue is in order.                     *)
LEMMA InsertIdxFacts ==
    ASSUME TypeOK, QueueOrdered, NEW p \in Int
    PROVE  /\ InsertIdx(p) \in 1 .. Len(items) + 1
           /\ \A k \in 1 .. Len(items) :
                 /\ k < InsertIdx(p) => priority[items[k]] >= p
                 /\ k >= InsertIdx(p) => priority[items[k]] < p
  <1> DEFINE lower == {i \in 1 .. Len(items) : priority[items[i]] < p}
  <1>1. items \in Seq(Reqs) /\ Len(items) \in Nat
        /\ \A k \in 1 .. Len(items) : items[k] \in Reqs /\ priority[items[k]] \in Int
    BY Types
  <1>2. CASE lower = {}
    <2>1. InsertIdx(p) = Len(items) + 1
      BY <1>2 DEF InsertIdx
    <2> QED BY <1>1, <1>2, <2>1
  <1>3. CASE lower # {}
    <2>1. InsertIdx(p) = CHOOSE i \in lower : \A k \in lower : i <= k
      BY <1>3 DEF InsertIdx
    <2>2. lower \in SUBSET Nat
      OBVIOUS
    <2>3. InsertIdx(p) \in lower /\ \A k \in lower : InsertIdx(p) <= k
      BY <1>3, <2>1, <2>2, LeastExists
    <2> DEFINE at == InsertIdx(p)
    <2> HIDE DEF at
    <2>4. at \in 1 .. Len(items) /\ priority[items[at]] < p
      BY <2>3 DEF at
    <2>5. ASSUME NEW k \in 1 .. Len(items), k < at PROVE priority[items[k]] >= p
      BY <1>1, <2>3, <2>4, <2>5 DEF at
    <2>6. ASSUME NEW k \in 1 .. Len(items), k >= at PROVE priority[items[k]] < p
      <3>1. CASE k = at
        BY <2>4, <3>1
      <3>2. CASE k # at
        <4>1. priority[items[at]] >= priority[items[k]]
          BY <1>1, <2>4, <2>6, <3>2 DEF QueueOrdered
        <4> QED BY <1>1, <2>4, <4>1
      <3> QED BY <3>1, <3>2
    <2> QED BY <1>1, <2>4, <2>5, <2>6 DEF at
  <1> QED BY <1>2, <1>3

LEMMA OrderedDistinct ==
    ASSUME TypeOK, QueueOrdered
    PROVE  Distinct(items)
  <1> SUFFICES ASSUME NEW i \in 1 .. Len(items), NEW k \in 1 .. Len(items),
                      items[i] = items[k], i < k
               PROVE  FALSE
    <2>1. Len(items) \in Nat
      BY Types
    <2> QED BY <2>1 DEF Distinct
  <1>1. items[k] \in Reqs /\ priority[items[k]] \in Int /\ createdAt[items[k]] \in Int
    BY Types
  <1> QED BY <1>1 DEF QueueOrdered

(* The new request, newer than all others, goes between them.              *)
LEMMA EnqueueQueue ==
    ASSUME ProxyInv, NEW r \in Reqs, Enqueue(r)
    PROVE  QueueInv' /\ TypeOK'
  <1> USE PriorityAssumption
  <1>0. TypeOK /\ QueueInv /\ Stage(r)
    BY DEF ProxyInv
  <1>1. PICK p \in Priorities : /\ items' = InsertAt(items, InsertIdx(p), r)
                                /\ priority' = [priority EXCEPT ![r] = p]
    BY DEF Enqueue
  <1>2. /\ createdAt' = [createdAt EXCEPT ![r] = Cardinality(Accepted) + 1]
        /\ status' = [status EXCEPT ![r] = "pending"] /\ pc' = [pc EXCEPT ![r] = "select"]
        /\ UNCHANGED <<maxSize, requests, active, node, reply, cancelling, cancelled, ended>>
        /\ Len(items) < maxSize /\ pc[r] = "idle" /\ cancelling = None
    BY DEF Enqueue, cancelVars
  <1> DEFINE at == InsertIdx(p)
             n == Len(items)
             c == Cardinality(Accepted)
  <1>3. /\ items \in Seq(Reqs) /\ n \in Nat /\ c \in Nat
        /\ \A q \in Reqs : priority[q] \in Int /\ createdAt[q] \in Nat
    BY <1>0, Types
  <1>4. /\ at \in 1 .. n + 1
        /\ \A k \in 1 .. n : /\ k < at => priority[items[k]] >= p
                             /\ k >= at => priority[items[k]] < p
    BY <1>0, InsertIdxFacts DEF QueueInv
  <1> HIDE DEF at
  <1>5. /\ items' \in Seq(Reqs) /\ Len(items') = n + 1
        /\ \A k \in 1 .. n + 1 :
              items'[k] = IF k < at THEN items[k] ELSE IF k = at THEN r ELSE items[k - 1]
    <2>1. items' = InsertAt(items, at, r)
      BY <1>1 DEF at
    <2>2. /\ InsertAt(items, at, r) \in Seq(Reqs) /\ Len(InsertAt(items, at, r)) = n + 1
          /\ \A k \in 1 .. n + 1 : InsertAt(items, at, r)[k] =
                IF k < at THEN items[k] ELSE IF k = at THEN r ELSE items[k - 1]
      <3>1. items \in Seq(Reqs) /\ at \in 1 .. Len(items) + 1
        BY <1>3, <1>4
      <3>2. InsertAt(items, at, r) \in Seq(Reqs) /\ Len(InsertAt(items, at, r)) = n + 1
        BY <3>1, InsertAtFacts
      <3>3. ASSUME NEW k \in 1 .. n + 1
            PROVE  InsertAt(items, at, r)[k] =
                      IF k < at THEN items[k] ELSE IF k = at THEN r ELSE items[k - 1]
        BY <3>1, InsertAtFacts
      <3> QED BY <3>2, <3>3
    <2> QED BY <2>1, <2>2
  <1>6. r \notin Accepted /\ createdAt[r] = 0 /\ r \notin ToSet(items)
    BY <1>0, <1>2 DEF Stage, Accepted, QueueInv
  <1>7. Accepted' = Accepted \cup {r}
    <2>1. \A q \in Reqs : createdAt'[q] = IF q = r THEN c + 1 ELSE createdAt[q]
      BY <1>0, <1>2 DEF TypeOK
    <2> HIDE DEF c
    <2>2. \A q \in Reqs : createdAt'[q] > 0 <=> (q = r \/ createdAt[q] > 0)
      BY <1>3, <2>1
    <2> QED BY <2>2 DEF Accepted
  <1>8. IsFiniteSet(Accepted) /\ Cardinality(Accepted') = c + 1
    BY <1>0, <1>6, <1>7, Types, FS_AddElement
  <1>9. c + 1 <= Cardinality(Reqs) /\ Cardinality(Reqs) \in Nat
    <2>1. Accepted' \subseteq Reqs
      BY <1>7 DEF Accepted
    <2> QED BY <1>8, <2>1, ReqsAssumption, FS_Subset, FS_CardinalityType
  <1>10. \A k \in 1 .. n : /\ items[k] \in Reqs /\ items[k] # r /\ items[k] \in Accepted
                          /\ createdAt[items[k]] <= c
    BY <1>0, <1>3, <1>6 DEF QueueInv, ToSet
  <1>11. \A k \in 1 .. n : /\ priority'[items[k]] = priority[items[k]]
                          /\ createdAt'[items[k]] = createdAt[items[k]]
    BY <1>0, <1>1, <1>2, <1>10 DEF TypeOK
  <1>12. priority'[r] = p /\ createdAt'[r] = c + 1
    BY <1>0, <1>1, <1>2 DEF TypeOK
  <1> HIDE DEF c, n
  <1>13. QueueOrdered'
    <2> SUFFICES ASSUME NEW i \in 1 .. n + 1, NEW k \in 1 .. n + 1, i < k
                 PROVE  \/ priority'[items'[i]] > priority'[items'[k]]
                        \/ /\ priority'[items'[i]] = priority'[items'[k]]
                           /\ createdAt'[items'[i]] < createdAt'[items'[k]]
      BY <1>5 DEF QueueOrdered
    <2>1. CASE i = at
      <3>1. k - 1 \in 1 .. n /\ k - 1 >= at /\ items'[k] = items[k - 1] /\ items'[i] = r
        BY <1>3, <1>4, <1>5, <2>1
      <3>2. priority[items[k - 1]] < p /\ priority'[items'[k]] = priority[items[k - 1]]
        BY <1>4, <1>11, <3>1
      <3> QED BY <1>3, <1>10, <1>12, <3>1, <3>2
    <2>2. CASE k = at
      <3>1. i \in 1 .. n /\ i < at /\ items'[i] = items[i] /\ items'[k] = r
        BY <1>3, <1>4, <1>5, <2>2
      <3>2. /\ priority[items[i]] >= p /\ priority'[items'[i]] = priority[items[i]]
            /\ createdAt'[items'[i]] = createdAt[items[i]] /\ createdAt[items[i]] <= c
        BY <1>4, <1>10, <1>11, <3>1
      <3> QED BY <1>3, <1>10, <1>12, <3>1, <3>2
    <2>3. CASE i # at /\ k # at
      <3> DEFINE a == IF i < at THEN i ELSE i - 1
                 b == IF k < at THEN k ELSE k - 1
      <3>1. a \in 1 .. n /\ b \in 1 .. n /\ a < b /\ items'[i] = items[a] /\ items'[k] = items[b]
        BY <1>3, <1>4, <1>5, <2>3
      <3> HIDE DEF a, b
      <3>2. \/ priority[items[a]] > priority[items[b]]
            \/ /\ priority[items[a]] = priority[items[b]]
               /\ createdAt[items[a]] < createdAt[items[b]]
        BY <1>0, <3>1 DEF QueueInv, QueueOrdered, n
      <3> QED BY <1>11, <3>1, <3>2
    <2> QED BY <2>1, <2>2, <2>3
  <1>14. ToSet(items') = ToSet(items) \cup {r}
    <2>1. ASSUME NEW x \in ToSet(items') PROVE x \in ToSet(items) \cup {r}
      <3>1. PICK k \in 1 .. n + 1 : x = items'[k]
        BY <1>5, <2>1 DEF ToSet
      <3>2. CASE k < at
        BY <1>3, <1>4, <1>5, <3>1, <3>2, SMTT(30) DEF ToSet, n
      <3>3. CASE k = at
        BY <1>5, <3>1, <3>3, <1>4
      <3>4. CASE k > at
        <4>1. k - 1 \in 1 .. n /\ items'[k] = items[k - 1]
          BY <1>3, <1>4, <1>5, <3>4
        <4> QED BY <1>3, <3>1, <4>1 DEF ToSet, n
      <3> QED BY <1>4, <3>2, <3>3, <3>4
    <2>2. r \in ToSet(items')
      BY <1>3, <1>4, <1>5 DEF ToSet
    <2>3. ASSUME NEW x \in ToSet(items) PROVE x \in ToSet(items')
      <3>1. PICK k \in 1 .. n : x = items[k]
        BY <1>3, <2>3 DEF ToSet, n
      <3>2. CASE k < at
        <4>1. k \in 1 .. n + 1 /\ items'[k] = items[k]
          BY <1>3, <1>5, <3>2
        <4> QED BY <1>5, <3>1, <4>1 DEF ToSet
      <3>3. CASE k >= at
        <4>1. k + 1 \in 1 .. n + 1 /\ items'[k + 1] = items[k]
          BY <1>3, <1>4, <1>5, <3>3
        <4> QED BY <1>5, <3>1, <4>1 DEF ToSet
      <3> QED BY <1>3, <1>4, <3>2, <3>3
    <2> QED BY <2>1, <2>2, <2>3
  <1>15. QueueInv'
    <2>1. ToSet(items') = Accepted' \ cancelled' /\ cancelled' \subseteq Accepted'
      BY <1>0, <1>2, <1>6, <1>7, <1>14 DEF QueueInv
    <2>2. \A q \in Accepted' : createdAt'[q] <= Cardinality(Accepted')
      <3> SUFFICES ASSUME NEW q \in Accepted' PROVE createdAt'[q] <= c + 1
        BY <1>8 DEF c
      <3>1. CASE q = r
        BY <1>3, <1>12, <3>1
      <3>2. CASE q # r
        <4>1. q \in Accepted /\ q \in Reqs /\ createdAt'[q] = createdAt[q] /\ createdAt[q] <= c
          BY <1>0, <1>2, <1>7, <3>2 DEF QueueInv, Accepted, TypeOK, c
        <4> QED BY <1>3, <4>1
      <3> QED BY <3>1, <3>2
    <2> QED BY <1>2, <1>13, <2>1, <2>2 DEF QueueInv
  <1>16. TypeOK'
    <2>1. maxSize \in Nat /\ Len(items') <= maxSize
      <3>1. maxSize \in Nat
        BY <1>0, SizeAssumption DEF TypeOK
      <3> QED BY <1>2, <1>3, <1>5, <3>1 DEF n
    <2>2. createdAt' \in [Reqs -> 0 .. Cardinality(Reqs)]
      <3>1. c + 1 \in 0 .. Cardinality(Reqs)
        BY <1>3, <1>9
      <3> QED BY <1>0, <1>2, <3>1 DEF TypeOK, c
    <2> QED BY <1>0, <1>1, <1>2, <1>5, <2>1, <2>2 DEF TypeOK
  <1> QED BY <1>15, <1>16

(* The cancelled request goes, and the order of the others stays.          *)
LEMMA CancelQueue ==
    ASSUME ProxyInv, CancelRemoves
    PROVE  QueueInv' /\ TypeOK'
  <1>0. TypeOK /\ QueueInv
    BY DEF ProxyInv
  <1>1. /\ cancelling # None /\ items' = RemoveFirst(items, cancelling)
        /\ status' = [status EXCEPT ![cancelling] = "failed"]
        /\ cancelled' = cancelled \cup {cancelling} /\ cancelling' = None
        /\ UNCHANGED <<maxSize, requests, active, priority, createdAt, node, pc, reply, ended>>
    BY DEF CancelRemoves
  <1> DEFINE n == Len(items)
  <1>2. cancelling \in ToSet(items) /\ items \in Seq(Reqs) /\ n \in Nat
    BY <1>0, <1>1, Types DEF QueueInv
  <1>3. PICK at \in 1 .. n : items[at] = cancelling /\ items' = RemoveAt(items, at)
    <2>1. \E i \in 1 .. Len(items) : /\ items[i] = cancelling
                                     /\ RemoveFirst(items, cancelling) = RemoveAt(items, i)
      BY <1>2, RemoveFirstIs
    <2> QED BY <1>1, <2>1
  <1>4. /\ items' \in Seq(Reqs) /\ Len(items') = n - 1
        /\ \A k \in 1 .. n - 1 : items'[k] = IF k < at THEN items[k] ELSE items[k + 1]
    BY <1>2, <1>3, RemoveAtFacts
  <1>5. Distinct(items)
    BY <1>0, OrderedDistinct DEF QueueInv
  <1>6. \A k \in 1 .. n : k # at => items[k] # cancelling
    BY <1>3, <1>5 DEF Distinct
  <1> HIDE DEF n
  <1>7. QueueOrdered'
    <2> SUFFICES ASSUME NEW i \in 1 .. n - 1, NEW k \in 1 .. n - 1, i < k
                 PROVE  \/ priority[items'[i]] > priority[items'[k]]
                        \/ /\ priority[items'[i]] = priority[items'[k]]
                           /\ createdAt[items'[i]] < createdAt[items'[k]]
      BY <1>1, <1>4 DEF QueueOrdered
    <2> DEFINE a == IF i < at THEN i ELSE i + 1
               b == IF k < at THEN k ELSE k + 1
    <2>1. a \in 1 .. n /\ b \in 1 .. n /\ a < b /\ items'[i] = items[a] /\ items'[k] = items[b]
      BY <1>2, <1>4
    <2> HIDE DEF a, b
    <2> QED BY <1>0, <2>1 DEF QueueInv, QueueOrdered, n
  <1>8. ToSet(items') = ToSet(items) \ {cancelling}
    <2>1. ASSUME NEW x \in ToSet(items') PROVE x \in ToSet(items) \ {cancelling}
      <3>1. PICK k \in 1 .. n - 1 : x = items'[k]
        BY <1>4, <2>1 DEF ToSet
      <3> DEFINE a == IF k < at THEN k ELSE k + 1
      <3>2. a \in 1 .. n /\ a # at /\ x = items[a]
        BY <1>2, <1>4, <3>1
      <3> HIDE DEF a
      <3> QED BY <1>2, <1>6, <3>2 DEF ToSet, n
    <2>2. ASSUME NEW x \in ToSet(items) \ {cancelling} PROVE x \in ToSet(items')
      <3>1. PICK k \in 1 .. n : x = items[k]
        BY <1>2, <2>2 DEF ToSet, n
      <3> DEFINE a == IF k < at THEN k ELSE k - 1
      <3>2. k # at
        BY <1>3, <2>2, <3>1
      <3>3. a \in 1 .. n - 1 /\ x = items'[a]
        BY <1>2, <1>4, <3>1, <3>2
      <3> HIDE DEF a
      <3> QED BY <1>4, <3>3 DEF ToSet
    <2> QED BY <2>1, <2>2
  <1>9. Accepted' = Accepted /\ cancelling \in Accepted
    BY <1>0, <1>1, <1>2 DEF Accepted, QueueInv
  <1>10. QueueInv'
    BY <1>0, <1>1, <1>7, <1>8, <1>9 DEF QueueInv
  <1>11. TypeOK'
    <2>1. maxSize \in Nat /\ n <= maxSize
      BY <1>0, SizeAssumption DEF TypeOK, n
    <2>2. Len(items') <= maxSize'
      BY <1>1, <1>2, <1>4, <2>1
    <2>3. cancelling \in Reqs
      BY <1>9 DEF Accepted
    <2> QED BY <1>0, <1>1, <1>4, <2>2, <2>3 DEF TypeOK
  <1> QED BY <1>10, <1>11
-----------------------------------------------------------------------------
(* The history.  One more at the end, and the oldest goes when it is full. *)
LEMMA AddFacts ==
    ASSUME TypeOK, NEW r \in Reqs
    PROVE  LET after == Add(requests, r)
               n == Len(requests)
           IN  /\ after \in Seq(Reqs)
               /\ n < MaxHistory => /\ Len(after) = n + 1 /\ after[n + 1] = r
                                    /\ \A k \in 1 .. n : after[k] = requests[k]
               /\ n = MaxHistory => /\ Len(after) = n /\ (n > 0 => after[n] = r)
                                    /\ \A k \in 1 .. n : k < n => after[k] = requests[k + 1]
  <1> DEFINE longer == Append(requests, r)
             n == Len(requests)
             after == Add(requests, r)
  <1>1. requests \in Seq(Reqs) /\ n \in Nat /\ n <= MaxHistory /\ MaxHistory \in Nat
    <2>1. Len(requests) <= MaxHistory /\ requests \in Seq(Reqs)
      BY DEF TypeOK
    <2> QED BY <2>1, SizeAssumption
  <1>2. /\ longer \in Seq(Reqs) /\ Len(longer) = n + 1 /\ longer[n + 1] = r
        /\ \A k \in 1 .. n : longer[k] = requests[k]
    BY <1>1
  <1> HIDE DEF longer, n
  <1>6. CASE n < MaxHistory
    <2>1. after = longer
      BY <1>1, <1>2, <1>6 DEF Add, longer
    <2> QED BY <1>1, <1>2, <1>6, <2>1 DEF n
  <1>7. CASE n = MaxHistory
    <2>1. after = SubSeq(longer, 2, n + 1)
      <3>1. Len(longer) > MaxHistory /\ Len(longer) - MaxHistory + 1 = 2
        BY <1>1, <1>2, <1>7
      <3> QED BY <1>2, <3>1 DEF Add, longer
    <2> HIDE DEF after
    <2>2. /\ after \in Seq(Reqs) /\ Len(after) = n /\ \A k \in 1 .. n : after[k] = longer[k + 1]
      <3>1. 2 \in 1 .. Len(longer) + 1 /\ n + 1 \in 0 .. Len(longer) /\ 2 <= n + 1 + 1
        BY <1>1, <1>2
      <3>2. /\ SubSeq(longer, 2, n + 1) \in Seq(Reqs) /\ Len(SubSeq(longer, 2, n + 1)) = (n + 1) - 2 + 1
            /\ \A k \in 1 .. (n + 1) - 2 + 1 : SubSeq(longer, 2, n + 1)[k] = longer[2 + k - 1]
        BY <1>2, <3>1, SubSeqFacts
      <3> QED BY <1>1, <2>1, <3>2
    <2>3. n > 0 => after[n] = r
      BY <1>1, <1>2, <2>2
    <2>4. ASSUME NEW k \in 1 .. n, k < n PROVE after[k] = requests[k + 1]
      BY <1>1, <1>2, <2>2, <2>4
    <2> QED BY <1>1, <1>7, <2>2, <2>3, <2>4 DEF n, after
  <1>8. n < MaxHistory \/ n = MaxHistory
    BY <1>1
  <1> QED BY <1>6, <1>7, <1>8 DEF after, n

(* A handler ends: its request joins the ones that are over.               *)
LEMMA RecordHistory ==
    ASSUME ProxyInv, NEW r \in Accepted, pc[r] # "done",
           pc' = [pc EXCEPT ![r] = "done"], requests' = Add(requests, r),
           ended' = Append(ended, r), createdAt' = createdAt
    PROVE  /\ HistoryInv' /\ requests' \in Seq(Reqs) /\ Len(requests') <= MaxHistory
           /\ ended' \in Seq(Reqs)
  <1> DEFINE n == Len(requests)
             a == Len(ended)
             m == Len(requests')
  <1>0. TypeOK /\ HistoryInv /\ r \in Reqs /\ MaxHistory \in Nat
    BY SizeAssumption DEF ProxyInv, Accepted
  <1>1. /\ requests \in Seq(Reqs) /\ n \in Nat /\ n <= MaxHistory
        /\ ended \in Seq(Reqs) /\ a \in Nat
    <2>1. requests \in Seq(Reqs) /\ Len(requests) <= MaxHistory /\ ended \in Seq(Reqs)
      BY <1>0 DEF TypeOK
    <2> QED BY <2>1
  <1>2. Over' = Over \cup {r} /\ r \notin Over
    BY <1>0 DEF Over, Accepted, TypeOK
  <1>3. /\ ended' \in Seq(Reqs) /\ Len(ended') = a + 1 /\ ended'[a + 1] = r
        /\ \A k \in 1 .. a : ended'[k] = ended[k]
    BY <1>0, <1>1
  <1>4. \A k \in 1 .. a : ended[k] \in Over /\ ended[k] # r
    BY <1>0, <1>1, <1>2 DEF HistoryInv, ToSet
  <1>5. Distinct(ended')
    BY <1>0, <1>1, <1>3, <1>4 DEF HistoryInv, Distinct
  <1>6. ToSet(ended') = Over'
    <2>1. ToSet(ended) = {ended[k] : k \in 1 .. a} /\ ToSet(ended) = Over
      BY <1>0 DEF ToSet, HistoryInv
    <2>2. ToSet(ended') = {ended'[k] : k \in 1 .. a + 1}
      BY <1>3 DEF ToSet
    <2>3. \A k \in 1 .. a + 1 : k \in 1 .. a \/ k = a + 1
      BY <1>1
    <2>4. \A k \in 1 .. a : k \in 1 .. a + 1
      BY <1>1
    <2>5. a + 1 \in 1 .. a + 1
      BY <1>1
    <2>6. ASSUME NEW q \in Over' PROVE q \in ToSet(ended')
      BY <1>2, <1>3, <2>1, <2>2, <2>4, <2>5
    <2>7. ASSUME NEW k \in 1 .. a + 1 PROVE ended'[k] \in Over'
      BY <1>2, <1>3, <1>4, <2>3
    <2> QED BY <2>2, <2>6, <2>7
  <1>7. /\ n = IF a < MaxHistory THEN a ELSE MaxHistory
        /\ \A k \in 1 .. n : requests[k] = ended[a - n + k]
    BY <1>0 DEF HistoryInv
  <1>8. /\ requests' \in Seq(Reqs) /\ m \in Nat
        /\ n < MaxHistory => /\ m = n + 1 /\ requests'[n + 1] = r
                             /\ \A k \in 1 .. n : requests'[k] = requests[k]
        /\ n = MaxHistory => /\ m = n /\ (n > 0 => requests'[n] = r)
                             /\ \A k \in 1 .. n : k < n => requests'[k] = requests[k + 1]
    BY <1>0, AddFacts
  <1> HIDE DEF n, a, m
  <1>12. /\ MaxHistory \in Nat /\ n \in Nat /\ a \in Nat /\ m \in Nat /\ n <= MaxHistory
         /\ n = (IF a < MaxHistory THEN a ELSE MaxHistory)
         /\ n < MaxHistory => m = n + 1
         /\ n = MaxHistory => m = n
    BY <1>0, <1>1, <1>7, <1>8, Zenon
  <1>9. m = (IF a + 1 < MaxHistory THEN a + 1 ELSE MaxHistory) /\ m <= MaxHistory
    BY <1>12
  <1>10. ASSUME NEW k \in 1 .. m PROVE requests'[k] = ended'[(a + 1) - m + k]
    <2>1. CASE n < MaxHistory
      <3>1. a = n /\ m = n + 1 /\ (a + 1) - m + k = k
        BY <1>12, <2>1
      <3>2. CASE k = n + 1
        BY <1>1, <1>3, <1>8, <2>1, <3>1, <3>2
      <3>3. CASE k \in 1 .. n
        <4>1. requests[k] = ended[k]
          <5>1. a - n + k = k
            BY <1>1, <3>1
          <5> QED BY <1>7, <3>3, <5>1
        <4> QED BY <1>3, <1>8, <2>1, <3>1, <3>3, <4>1
      <3>4. k = n + 1 \/ k \in 1 .. n
        BY <1>12, <3>1
      <3> QED BY <3>2, <3>3, <3>4
    <2>2. CASE n = MaxHistory
      <3>1. m = n /\ a >= n /\ (a + 1) - m + k = a - n + (k + 1)
        BY <1>12, <2>2
      <3>2. CASE k = n
        <4>1. (a + 1) - m + k = a + 1 /\ n > 0
          BY <1>1, <3>1, <3>2
        <4> QED BY <1>3, <1>8, <2>2, <3>2, <4>1
      <3>3. CASE k < n
        <4>1. k + 1 \in 1 .. n /\ a - n + (k + 1) \in 1 .. a /\ k \in 1 .. n
          BY <1>1, <3>1, <3>3
        <4>2. requests'[k] = requests[k + 1]
          BY <1>8, <2>2, <3>3, <4>1
        <4>3. requests[k + 1] = ended[a - n + (k + 1)]
          BY <1>7, <4>1
        <4>4. ended'[a - n + (k + 1)] = ended[a - n + (k + 1)]
          BY <1>3, <4>1
        <4> QED BY <3>1, <4>2, <4>3, <4>4
      <3>4. k = n \/ k < n
        BY <1>12, <3>1
      <3> QED BY <3>2, <3>3, <3>4
    <2> QED BY <1>12, <2>1, <2>2
  <1>11. HistoryInv'
    BY <1>3, <1>5, <1>6, <1>9, <1>10 DEF HistoryInv, m, a
  <1> QED BY <1>3, <1>8, <1>9, <1>11 DEF m

(* What the history holds has ended.                                       *)
LEMMA RecordedIsOver ==
    ASSUME TypeOK, HistoryInv
    PROVE  ToSet(requests) \subseteq Over
  <1> DEFINE n == Len(requests)
             a == Len(ended)
  <1>1. requests \in Seq(Reqs) /\ n \in Nat /\ ended \in Seq(Reqs) /\ a \in Nat /\ MaxHistory \in Nat
    <2>1. requests \in Seq(Reqs) /\ ended \in Seq(Reqs)
      BY DEF TypeOK
    <2> QED BY <2>1, SizeAssumption
  <1>2. /\ n = IF a < MaxHistory THEN a ELSE MaxHistory
        /\ \A k \in 1 .. n : requests[k] = ended[a - n + k]
        /\ ToSet(ended) = Over
    BY DEF HistoryInv
  <1> HIDE DEF n, a
  <1>3. ASSUME NEW k \in 1 .. n PROVE requests[k] \in Over
    <2>1. a - n + k \in 1 .. a
      BY <1>1, <1>2
    <2> QED BY <1>2, <2>1 DEF ToSet, a
  <1> QED BY <1>3 DEF ToSet, n
-----------------------------------------------------------------------------
(* The requests.  A request keeps its stage while others are served and    *)
(* cancelled.                                                              *)
Untouched(q) ==
    /\ createdAt'[q] = createdAt[q] /\ pc'[q] = pc[q] /\ node'[q] = node[q]
    /\ status'[q] = status[q] /\ reply'[q] = reply[q]
    /\ q \in active => q \in active'
    /\ q \in cancelled <=> q \in cancelled'

LEMMA StageKept ==
    ASSUME NEW q \in Reqs, Stage(q), Untouched(q)
    PROVE  Stage(q)'
  BY DEF Stage, Told, Untouched

(* A step of one handler that neither ends an accepted request nor touches *)
(* the queue.                                                              *)
LEMMA HandlerStep ==
    ASSUME ProxyInv, NEW r \in Reqs, TypeOK', Stage(r)',
           UNCHANGED <<items, priority, createdAt, requests, cancelling, cancelled, ended>>,
           createdAt[r] = 0 \/ (pc[r] # "done" /\ pc'[r] # "done"),
           \A q \in Reqs \ {r} : Untouched(q)
    PROVE  ProxyInv'
  <1>1. TypeOK /\ QueueInv /\ HistoryInv /\ \A q \in Reqs : Stage(q)
    BY DEF ProxyInv
  <1>2. Accepted' = Accepted
    BY DEF Accepted
  <1>3. QueueInv'
    BY <1>1, <1>2 DEF QueueInv, QueueOrdered
  <1>4. Over' = Over
    <2>1. \A q \in Accepted : q \in Reqs /\ createdAt[q] # 0
      BY <1>1, Types DEF Accepted
    <2>2. \A q \in Accepted : pc'[q] = "done" <=> pc[q] = "done"
      BY <2>1 DEF Untouched
    <2> QED BY <1>2, <2>2 DEF Over
  <1>5. HistoryInv'
    BY <1>1, <1>4 DEF HistoryInv
  <1>6. \A q \in Reqs : Stage(q)'
    BY <1>1, StageKept
  <1> QED BY <1>3, <1>5, <1>6 DEF ProxyInv

(* The handler ends with its request in the history.                       *)
LEMMA EndingStep ==
    ASSUME ProxyInv, NEW r \in Reqs, createdAt[r] > 0, pc[r] # "done",
           pc' = [pc EXCEPT ![r] = "done"], requests' = Add(requests, r),
           ended' = Append(ended, r),
           UNCHANGED <<queueVars, active, node, cancelVars>>, Told(r)',
           \/ UNCHANGED <<status, reply>>
           \/ /\ status' = [status EXCEPT ![r] = "failed"]
              /\ reply' = [reply EXCEPT ![r] = "no nodes"]
    PROVE  ProxyInv'
  <1>1. TypeOK /\ QueueInv /\ HistoryInv /\ \A q \in Reqs : Stage(q)
    BY DEF ProxyInv
  <1>2. /\ UNCHANGED <<items, maxSize, priority, createdAt, cancelling, cancelled, active, node>>
        /\ Accepted' = Accepted /\ r \in Accepted
    BY DEF queueVars, cancelVars, Accepted
  <1>3. QueueInv'
    BY <1>1, <1>2, ZenonT(40) DEF QueueInv, QueueOrdered
  <1>4. /\ HistoryInv' /\ requests' \in Seq(Reqs) /\ Len(requests') <= MaxHistory
        /\ ended' \in Seq(Reqs)
    BY <1>2, RecordHistory
  <1>5. TypeOK'
    BY <1>1, <1>2, <1>4 DEF TypeOK
  <1>6. \A q \in Reqs \ {r} : Untouched(q)
    BY <1>1, <1>2 DEF Untouched, TypeOK
  <1>7. pc'[r] = "done" /\ createdAt'[r] > 0
    BY <1>1, <1>2 DEF TypeOK
  <1>8. createdAt[r] \in Nat
    BY <1>1, Types
  <1>9. Stage(r)'
    BY <1>2, <1>7, <1>8 DEF Stage
  <1>10. \A q \in Reqs : Stage(q)'
    BY <1>1, <1>6, <1>9, StageKept
  <1> QED BY <1>3, <1>4, <1>5, <1>10 DEF ProxyInv

LEMMA PositiveNat == \A k \in Nat : k > 0 <=> k # 0
  OBVIOUS

LEMMA ProxyInvNext == ProxyInv /\ [Next]_vars => ProxyInv'
  <1> SUFFICES ASSUME ProxyInv, [Next]_vars PROVE ProxyInv'
    OBVIOUS
  <1>0. TypeOK /\ QueueInv /\ HistoryInv /\ \A q \in Reqs : Stage(q)
    BY DEF ProxyInv
  <1> DEFINE Quiet == UNCHANGED <<items, maxSize, priority, createdAt, requests, cancelling, cancelled, ended>>
  <1>1. ASSUME NEW r \in Reqs, BadRequest(r) \/ EnqueueFull(r) PROVE ProxyInv'
    <2>1. /\ pc[r] = "idle" /\ pc' = [pc EXCEPT ![r] = "done"]
          /\ Quiet /\ UNCHANGED <<active, status, node>>
      BY <1>1 DEF BadRequest, EnqueueFull, queueVars, cancelVars
    <2>0. ~(createdAt[r] > 0)
      BY <1>0, <2>1 DEF Stage
    <2>2. PICK x \in {"bad request", "queue full"} : reply' = [reply EXCEPT ![r] = x]
      BY <1>1 DEF BadRequest, EnqueueFull
    <2>3. TypeOK'
      BY <1>0, <2>1, <2>2 DEF TypeOK
    <2>4. createdAt[r] = 0 /\ \A q \in Reqs \ {r} : Untouched(q)
      BY <1>0, <2>1, <2>2 DEF Stage, Untouched, TypeOK
    <2>5. pc'[r] = "done" /\ createdAt'[r] = 0
      BY <1>0, <2>1, <2>4 DEF TypeOK
    <2>6. Stage(r)'
      <3>1. ~(createdAt'[r] > 0)
        BY <2>0, <2>1
      <3> QED BY <2>5, <3>1 DEF Stage
    <2> QED BY <2>1, <2>3, <2>4, <2>6, HandlerStep
  <1>2. ASSUME NEW r \in Reqs, Enqueue(r) PROVE ProxyInv'
    <2>1. QueueInv' /\ TypeOK'
      BY <1>2, EnqueueQueue
    <2>2. /\ pc[r] = "idle" /\ pc' = [pc EXCEPT ![r] = "select"]
          /\ createdAt' = [createdAt EXCEPT ![r] = Cardinality(Accepted) + 1]
          /\ status' = [status EXCEPT ![r] = "pending"]
          /\ UNCHANGED <<requests, active, node, reply, cancelling, cancelled, ended>>
      BY <1>2 DEF Enqueue, cancelVars
    <2>3. \A q \in Reqs \ {r} : Untouched(q)
      BY <1>0, <2>2 DEF Untouched, TypeOK
    <2>4. pc'[r] = "select" /\ createdAt'[r] = Cardinality(Accepted) + 1 /\ Cardinality(Accepted) \in Nat
      BY <1>0, <2>2, Types DEF TypeOK
    <2>5. Stage(r)'
      BY <2>4 DEF Stage
    <2>6. \A q \in Reqs : Stage(q)'
      BY <1>0, <2>3, <2>5, StageKept
    <2>7. Over' = Over
      <3>1. \A q \in Reqs \ {r} : createdAt'[q] = createdAt[q] /\ pc'[q] = pc[q]
        BY <2>3 DEF Untouched
      <3> QED BY <2>2, <2>4, <3>1 DEF Over, Accepted
    <2>8. HistoryInv'
      BY <1>0, <2>2, <2>7 DEF HistoryInv
    <2> QED BY <2>1, <2>6, <2>8 DEF ProxyInv
  <1>3. ASSUME NEW r \in Reqs, NoNode(r) PROVE ProxyInv'
    <2>1. /\ pc[r] = "select" /\ status' = [status EXCEPT ![r] = "failed"]
          /\ reply' = [reply EXCEPT ![r] = "no nodes"]
          /\ pc' = [pc EXCEPT ![r] = "done"] /\ requests' = Add(requests, r)
          /\ ended' = Append(ended, r)
          /\ UNCHANGED <<queueVars, active, node, cancelVars>>
      BY <1>3 DEF NoNode
    <2>2. createdAt[r] # 0 /\ createdAt[r] \in Nat
      BY <1>0, <2>1, Types DEF Stage
    <2>3. Told(r)'
      BY <1>0, <2>1 DEF Told, TypeOK, Responses
    <2>4. createdAt[r] > 0 /\ pc[r] # "done"
      BY <2>1, <2>2, PositiveNat
    <2> QED BY <2>1, <2>3, <2>4, EndingStep
  <1>4. ASSUME NEW r \in Reqs, SelectNode(r) PROVE ProxyInv'
    <2>1. PICK n \in Nodes : node' = [node EXCEPT ![r] = n]
      BY <1>4 DEF SelectNode
    <2>2. /\ pc[r] = "select" /\ pc' = [pc EXCEPT ![r] = "selected"]
          /\ Quiet /\ UNCHANGED <<active, status, reply>>
      BY <1>4 DEF SelectNode, queueVars, cancelVars
    <2>3. TypeOK'
      BY <1>0, <2>1, <2>2 DEF TypeOK
    <2>4. pc'[r] = "selected" /\ node'[r] \in Nodes /\ \A q \in Reqs \ {r} : Untouched(q)
      BY <1>0, <2>1, <2>2 DEF Untouched, TypeOK
    <2>5. Stage(r)'
      BY <1>0, <2>2, <2>4 DEF Stage
    <2> QED BY <2>2, <2>3, <2>4, <2>5, HandlerStep
  <1>5. ASSUME NEW r \in Reqs, MarkRunning(r) PROVE ProxyInv'
    <2>1. /\ pc[r] = "selected" /\ status' = [status EXCEPT ![r] = "running"]
          /\ pc' = [pc EXCEPT ![r] = "marked"] /\ Quiet /\ UNCHANGED <<active, node, reply>>
      BY <1>5 DEF MarkRunning, queueVars, cancelVars
    <2>2. TypeOK'
      BY <1>0, <2>1 DEF TypeOK
    <2>3. pc'[r] = "marked" /\ status'[r] = "running" /\ \A q \in Reqs \ {r} : Untouched(q)
      BY <1>0, <2>1 DEF Untouched, TypeOK
    <2>4. Stage(r)'
      BY <1>0, <2>1, <2>3 DEF Stage
    <2> QED BY <2>1, <2>2, <2>3, <2>4, HandlerStep
  <1>6. ASSUME NEW r \in Reqs, Activate(r) PROVE ProxyInv'
    <2>1. /\ pc[r] = "marked" /\ active' = active \cup {r}
          /\ pc' = [pc EXCEPT ![r] = "calling"] /\ Quiet /\ UNCHANGED <<status, node, reply>>
      BY <1>6 DEF Activate, queueVars, cancelVars
    <2>2. TypeOK'
      BY <1>0, <2>1 DEF TypeOK
    <2>3. pc'[r] = "calling" /\ \A q \in Reqs \ {r} : Untouched(q)
      BY <1>0, <2>1 DEF Untouched, TypeOK
    <2>4. Stage(r)'
      BY <1>0, <2>1, <2>3 DEF Stage
    <2> QED BY <2>1, <2>2, <2>3, <2>4, HandlerStep
  <1>7. ASSUME NEW r \in Reqs, CallCompletes(r) \/ CallFails(r) PROVE ProxyInv'
    <2>1. /\ pc[r] = "calling" /\ pc' = [pc EXCEPT ![r] = "returning"]
          /\ Quiet /\ UNCHANGED <<active, node>>
      BY <1>7 DEF CallCompletes, CallFails, queueVars, cancelVars
    <2>2. \E st \in {"complete", "failed"}, x \in Responses \cup {"upstream error"} :
             /\ status' = [status EXCEPT ![r] = st] /\ reply' = [reply EXCEPT ![r] = x]
             /\ x = "upstream error" => st = "failed"
             /\ x \in Responses \ {"empty stream"} => st = "complete"
      <3>1. CASE CallCompletes(r)
        <4>1. PICK x \in Responses : reply' = [reply EXCEPT ![r] = x]
          BY <3>1 DEF CallCompletes
        <4>2. status' = [status EXCEPT ![r] = "complete"]
          BY <3>1 DEF CallCompletes
        <4> QED BY <4>1, <4>2 DEF Responses
      <3>2. CASE CallFails(r)
        <4>1. PICK x \in {"upstream error", "empty stream"} : reply' = [reply EXCEPT ![r] = x]
          BY <3>2 DEF CallFails
        <4>2. status' = [status EXCEPT ![r] = "failed"]
          BY <3>2 DEF CallFails
        <4> QED BY <4>1, <4>2 DEF Responses
      <3> QED BY <1>7, <3>1, <3>2
    <2>3. PICK st \in {"complete", "failed"}, x \in Responses \cup {"upstream error"} :
             /\ status' = [status EXCEPT ![r] = st] /\ reply' = [reply EXCEPT ![r] = x]
             /\ x = "upstream error" => st = "failed"
             /\ x \in Responses \ {"empty stream"} => st = "complete"
      BY <2>2
    <2>4. TypeOK'
      BY <1>0, <2>1, <2>3 DEF TypeOK
    <2>5. /\ pc'[r] = "returning" /\ status'[r] = st /\ reply'[r] = x
          /\ \A q \in Reqs \ {r} : Untouched(q)
      BY <1>0, <2>1, <2>3 DEF Untouched, TypeOK
    <2>6. Stage(r)'
      BY <1>0, <2>1, <2>3, <2>5 DEF Stage, Told, Responses
    <2> QED BY <2>1, <2>4, <2>5, <2>6, HandlerStep
  <1>8. ASSUME NEW r \in Reqs, Deactivate(r) PROVE ProxyInv'
    <2>1. /\ pc[r] = "returning" /\ active' = active \ {r}
          /\ pc' = [pc EXCEPT ![r] = "leaving"] /\ Quiet /\ UNCHANGED <<status, node, reply>>
      BY <1>8 DEF Deactivate, queueVars, cancelVars
    <2>2. TypeOK'
      BY <1>0, <2>1 DEF TypeOK
    <2>3. pc'[r] = "leaving" /\ \A q \in Reqs \ {r} : Untouched(q)
      BY <1>0, <2>1 DEF Untouched, TypeOK
    <2>4. Stage(r)'
      BY <1>0, <2>1, <2>3 DEF Stage, Told
    <2> QED BY <2>1, <2>2, <2>3, <2>4, HandlerStep
  <1>9. ASSUME NEW r \in Reqs, Record(r) PROVE ProxyInv'
    <2>1. /\ pc[r] = "leaving" /\ pc' = [pc EXCEPT ![r] = "done"] /\ requests' = Add(requests, r)
          /\ ended' = Append(ended, r)
          /\ UNCHANGED <<queueVars, active, node, cancelVars, status, reply>>
      BY <1>9 DEF Record
    <2>2. createdAt[r] # 0 /\ createdAt[r] \in Nat /\ Told(r)
      BY <1>0, <2>1, Types DEF Stage
    <2>3. Told(r)'
      BY <2>1, <2>2 DEF Told, cancelVars
    <2>4. createdAt[r] > 0 /\ pc[r] # "done"
      BY <2>1, <2>2, PositiveNat
    <2> QED BY <2>1, <2>3, <2>4, EndingStep
  <1>10. ASSUME NEW r \in Reqs, CancelFinds(r) PROVE ProxyInv'
    <2>1. /\ cancelling = None /\ r \in ToSet(items) /\ cancelling' = r
          /\ UNCHANGED <<items, maxSize, priority, createdAt, requests, active, status, node,
                         pc, reply, cancelled, ended>>
      BY <1>10 DEF CancelFinds, queueVars
    <2>2. TypeOK'
      BY <1>0, <2>1 DEF TypeOK
    <2>3. Accepted' = Accepted /\ Over' = Over /\ \A q \in Reqs : Untouched(q)
      BY <2>1 DEF Accepted, Over, Untouched
    <2>4. QueueInv'
      BY <1>0, <2>1, <2>3 DEF QueueInv, QueueOrdered
    <2>5. HistoryInv'
      BY <1>0, <2>1, <2>3 DEF HistoryInv
    <2> QED BY <1>0, <2>2, <2>3, <2>4, <2>5, StageKept DEF ProxyInv
  <1>11. CASE CancelRemoves
    <2>1. QueueInv' /\ TypeOK'
      BY <1>11, CancelQueue
    <2>2. /\ cancelling # None
          /\ status' = [status EXCEPT ![cancelling] = "failed"]
          /\ cancelled' = cancelled \cup {cancelling}
          /\ UNCHANGED <<requests, active, createdAt, node, pc, reply, ended>>
      BY <1>11 DEF CancelRemoves
    <2>3. Over' = Over
      BY <2>2 DEF Over, Accepted
    <2>4. HistoryInv'
      BY <1>0, <2>2, <2>3 DEF HistoryInv
    <2>5. ASSUME NEW q \in Reqs PROVE Stage(q)'
      <3>1. CASE q = cancelling
        <4>1. status'[q] = "failed" /\ q \in cancelled'
          BY <1>0, <2>2, <3>1 DEF TypeOK
        <4> QED BY <1>0, <2>2, <4>1 DEF Stage, Told
      <3>2. CASE q # cancelling
        <4>1. Untouched(q)
          BY <1>0, <2>2, <3>2 DEF Untouched, TypeOK
        <4> QED BY <1>0, <4>1, StageKept
      <3> QED BY <3>1, <3>2
    <2> QED BY <2>1, <2>4, <2>5 DEF ProxyInv
  <1>12. CASE UNCHANGED vars
    <2>1. UNCHANGED <<items, maxSize, priority, createdAt, requests, active, status, node, pc,
                      reply, cancelling, cancelled, ended>>
      BY <1>12 DEF vars, queueVars, cancelVars
    <2>2. TypeOK' /\ Accepted' = Accepted /\ Over' = Over /\ \A q \in Reqs : Untouched(q)
      BY <1>0, <2>1 DEF TypeOK, Accepted, Over, Untouched
    <2>3. QueueInv' /\ HistoryInv'
      BY <1>0, <2>1, <2>2 DEF QueueInv, QueueOrdered, HistoryInv
    <2> QED BY <1>0, <2>2, <2>3, StageKept DEF ProxyInv
  <1> QED
    BY <1>1, <1>2, <1>3, <1>4, <1>5, <1>6, <1>7, <1>8, <1>9, <1>10, <1>11, <1>12
       DEF Next, Arrive, Serve

LEMMA ProxyInvHolds == Spec => []ProxyInv
  BY ProxyInvInit, ProxyInvNext, PTL DEF Spec

(* QueueOrdered (queue.go:64-73, 119-121): the order of priorities and, in *)
(* one, of arrival, for any priorities and any queue size.                 *)
THEOREM QueueKeepsOrder == Spec => []QueueOrdered
  <1>1. ProxyInv => QueueOrdered
    BY DEF ProxyInv, QueueInv
  <1> QED BY <1>1, ProxyInvHolds, PTL

(* QueueContents (proxy.go:87-99, queue.go:116-127): every accepted        *)
(* request is in the queue once until its cancellation, however it raced.  *)
THEOREM QueueHolds == Spec => []QueueContents
  <1>1. ProxyInv => QueueContents
    <2> SUFFICES ASSUME ProxyInv PROVE QueueContents
      OBVIOUS
    <2>1. Distinct(items) /\ items \in Seq(Reqs)
      BY OrderedDistinct, Types DEF ProxyInv, QueueInv
    <2>2. Cardinality(ToSet(items)) = Len(items)
      BY <2>1, DistinctCounts
    <2> QED BY <2>2 DEF ProxyInv, QueueInv, QueueContents
  <1> QED BY <1>1, ProxyInvHolds, PTL

(* CallsAreVisible (proxy.go:111-118, queue.go:119-122).                   *)
THEOREM CallsShown == Spec => []CallsAreVisible
  <1>1. ProxyInv => CallsAreVisible
    BY DEF ProxyInv, Stage, CallsAreVisible
  <1> QED BY <1>1, ProxyInvHolds, PTL

(* HistoryExact (proxy.go:106, 126; queue.go:154-161): the history is the  *)
(* tail of the order in which the handlers ended, for any size limit; with *)
(* the types.                                                              *)
THEOREM HistoryKept == Spec => []HistoryExact
  <1>1. ProxyInv => HistoryExact
    BY DEF ProxyInv, HistoryInv, Distinct, Over, HistoryExact
  <1> QED BY <1>1, ProxyInvHolds, PTL

(* HistoryTellsOutcome (proxy.go:103-107, 134-158, 185-229; queue.go:122): *)
(* failed where no node responded, complete where one did, whatever it     *)
(* said, but for cancellations and empty streams.                          *)
THEOREM HistoryIsTrue == Spec => []HistoryTellsOutcome
  <1>1. ProxyInv => HistoryTellsOutcome
    <2> SUFFICES ASSUME ProxyInv, NEW r \in ToSet(requests) PROVE Told(r)
      BY DEF HistoryTellsOutcome, Told
    <2>1. r \in Reqs /\ createdAt[r] > 0 /\ pc[r] = "done"
      BY RecordedIsOver DEF ProxyInv, Over, Accepted
    <2> QED BY <2>1 DEF ProxyInv, Stage
  <1> QED BY <1>1, ProxyInvHolds, PTL
=============================================================================

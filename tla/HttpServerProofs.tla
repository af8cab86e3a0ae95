-------------------------- MODULE HttpServerProofs --------------------------
(***************************************************************************)
(* The rate limiter's bounds, the completeness and order of the audit      *)
(* trail, the flusher's wake-ups and the places of active clients, for any *)
(* number of addresses, requests, clients, failures and restarts, any rate *)
(* and window, and any sizes.                                              *)
(***************************************************************************)
EXTENDS HttpServer, FiniteSetTheorems, TLAPS

-----------------------------------------------------------------------------
(* The rate limiter.                                                       *)

(* The admissions of one address, in the order of time and not in the      *)
(* future.                                                                 *)
Ordered(s, t) ==
    /\ \A i, j \in 1..Len(s) : i <= j => s[i] <= s[j]
    /\ \A i \in 1..Len(s) : s[i] <= t

(* Admissions that are a rate apart were not in one bucket with the last:  *)
(* those before position k - Effective + 1 are more than a window old at t.  *)
OldBefore(s, k, t) ==
    \A i \in 1..Len(s) : i <= k - Effective => s[i] + Window < t

(* A bucket holds the last count admissions; the first of them opened it.  *)
Holds(b, s) ==
    /\ b.count \in 1..Effective /\ b.count <= Len(s)
    /\ LET f == Len(s) - b.count + 1 IN
          b.resetAt = s[f] + Window /\ OldBefore(s, f, s[f])

(* Without a bucket the next admission may open one at once.               *)
BucketInv(b, s, t) ==
    IF b = None THEN OldBefore(s, Len(s) + 1, t) ELSE Holds(b, s)

Apart(s) ==
    \A i, j \in 1..Len(s) : j - i >= 2 * Effective - 1 => s[j] - s[i] > Window

LimiterInv ==
    /\ LimiterTypeOK
    /\ \A a \in Addrs :
          /\ Ordered(admitted[a], now)
          /\ BucketInv(buckets[a], admitted[a], now)
          /\ Apart(admitted[a])

-----------------------------------------------------------------------------
(* A rate of zero counts as one.                                           *)
LEMMA EffectivePositive == Effective \in Nat /\ Effective >= 1 /\ Effective >= Rate
BY RateAssumption DEF Effective

LEMMA LaterStill ==
    ASSUME NEW x \in Nat, NEW y \in Nat, NEW t \in Nat, NEW w \in Nat,
           \/ x + w < y /\ y <= t
           \/ x <= y /\ y + w < t
    PROVE  x + w < t /\ t - x > w
OBVIOUS

(* A bucket is opened at t when the old one is over or there is none.      *)
LEMMA OpenBucket ==
    ASSUME NEW s \in Seq(Nat), NEW t \in Nat, Ordered(s, t), Apart(s),
           OldBefore(s, Len(s) + 1, t)
    PROVE  LET s2 == Append(s, t) IN
           /\ Ordered(s2, t) /\ Apart(s2)
           /\ Holds([count |-> 1, resetAt |-> t + Window], s2)
<1> DEFINE s2 == Append(s, t)
<1>1. /\ s2 \in Seq(Nat) /\ Len(s2) = Len(s) + 1 /\ Len(s) \in Nat
      /\ s2[Len(s) + 1] = t
      /\ \A i \in 1..Len(s) : s2[i] = s[i] /\ s[i] \in Nat
  OBVIOUS
<1>2. Ordered(s2, t)
  BY <1>1 DEF Ordered
<1>3. OldBefore(s2, Len(s) + 1, t)
  BY <1>1, EffectivePositive DEF OldBefore
<1>4. Apart(s2)
  <2> SUFFICES ASSUME NEW i \in 1..Len(s2), NEW j \in 1..Len(s2), j - i >= 2 * Effective - 1
               PROVE  s2[j] - s2[i] > Window
    BY DEF Apart
  <2>1. i \in Nat /\ j \in Nat /\ i < j /\ i \in 1..Len(s) /\ s2[i] = s[i] /\ s[i] \in Nat
    BY <1>1, EffectivePositive
  <2>2. CASE j \in 1..Len(s)
    BY <1>1, <2>1, <2>2 DEF Apart
  <2>3. CASE j = Len(s) + 1
    <3>1. i <= Len(s) + 1 - Effective
      BY <1>1, <2>1, <2>3, EffectivePositive
    <3>2. s[i] + Window < t
      BY <1>1, <2>1, <3>1, EffectivePositive DEF OldBefore
    <3>3. s2[j] = t /\ s2[i] = s[i] /\ s[i] \in Nat
      BY <1>1, <2>1, <2>3
    <3> HIDE DEF s2
    <3> QED
      BY <3>2, <3>3, WindowAssumption
  <2> QED
    BY <1>1, <2>2, <2>3
<1>5. Holds([count |-> 1, resetAt |-> t + Window], s2)
  BY <1>1, <1>3, EffectivePositive DEF Holds
<1> QED
  BY <1>2, <1>4, <1>5

(* A bucket that is not full takes one more.                               *)
LEMMA FillBucket ==
    ASSUME NEW s \in Seq(Nat), NEW t \in Nat, Ordered(s, t), Apart(s),
           NEW b \in [count : Nat, resetAt : Nat], Holds(b, s), b.count < Rate
    PROVE  LET s2 == Append(s, t) IN
           /\ Ordered(s2, t) /\ Apart(s2)
           /\ Holds([count |-> b.count + 1, resetAt |-> b.resetAt], s2)
<1> DEFINE s2 == Append(s, t)
           f == Len(s) - b.count + 1
<1>1. /\ s2 \in Seq(Nat) /\ Len(s2) = Len(s) + 1 /\ Len(s) \in Nat
      /\ s2[Len(s) + 1] = t
      /\ \A i \in 1..Len(s) : s2[i] = s[i] /\ s[i] \in Nat
  OBVIOUS
<1>2. Ordered(s2, t)
  BY <1>1 DEF Ordered
<1>3. /\ b.count \in Nat /\ b.count >= 1 /\ b.count < Effective /\ f \in 1..Len(s)
      /\ b.resetAt = s[f] + Window /\ OldBefore(s, f, s[f]) /\ s[f] <= t
  BY <1>1, EffectivePositive, RateAssumption DEF Holds, Ordered
<1>4. Len(s2) - (b.count + 1) + 1 = f
  BY <1>1, <1>3
<1>5. OldBefore(s2, f, s2[f])
  <2> SUFFICES ASSUME NEW i \in 1..Len(s2), i <= f - Effective
               PROVE  s2[i] + Window < s2[f]
    BY DEF OldBefore
  <2>1. i \in 1..Len(s)
    BY <1>1, <1>3, EffectivePositive
  <2> QED
    BY <1>1, <1>3, <2>1 DEF OldBefore
<1>6. Holds([count |-> b.count + 1, resetAt |-> b.resetAt], s2)
  <2> DEFINE c == [count |-> b.count + 1, resetAt |-> b.resetAt]
  <2>1. c.count = b.count + 1 /\ c.resetAt = b.resetAt
    OBVIOUS
  <2>2. c.count \in 1..Effective /\ c.count <= Len(s2) /\ s2[f] = s[f]
    BY <1>1, <1>3, <2>1, EffectivePositive
  <2>3. Len(s2) - c.count + 1 = f
    BY <1>4, <2>1
  <2> HIDE DEF c, s2, f
  <2> QED
    BY <1>3, <1>5, <2>1, <2>2, <2>3 DEF Holds
<1>7. Apart(s2)
  <2> SUFFICES ASSUME NEW i \in 1..Len(s2), NEW j \in 1..Len(s2), j - i >= 2 * Effective - 1
               PROVE  s2[j] - s2[i] > Window
    BY DEF Apart
  <2>1. i \in Nat /\ j \in Nat /\ i < j /\ i \in 1..Len(s) /\ s2[i] = s[i] /\ s[i] \in Nat
    BY <1>1, EffectivePositive
  <2>2. CASE j \in 1..Len(s)
    BY <1>1, <2>1, <2>2 DEF Apart
  <2>3. CASE j = Len(s) + 1
    <3>1. i <= f - Effective
      BY <1>1, <1>3, <2>1, <2>3, EffectivePositive
    <3>2. s[i] + Window < s[f] /\ s[f] <= t /\ s[f] \in Nat
      BY <1>1, <1>3, <2>1, <3>1 DEF OldBefore
    <3>3. s2[j] = t /\ s2[i] = s[i] /\ s[i] \in Nat
      BY <1>1, <2>1, <2>3
    <3> HIDE DEF s2, f
    <3>4. t - s[i] > Window
      BY <3>2, <3>3, WindowAssumption, LaterStill
    <3> QED
      BY <3>3, <3>4
  <2> QED
    BY <1>1, <2>2, <2>3
<1> QED
  BY <1>2, <1>6, <1>7

(* Once a bucket is over, the next admission may open another.             *)
LEMMA OverBucket ==
    ASSUME NEW s \in Seq(Nat), NEW t \in Nat, Ordered(s, t),
           NEW b \in [count : Nat, resetAt : Nat], Holds(b, s), t > b.resetAt
    PROVE  OldBefore(s, Len(s) + 1, t)
<1> DEFINE f == Len(s) - b.count + 1
<1>1. /\ Len(s) \in Nat /\ b.count \in Nat /\ b.count >= 1 /\ b.count <= Effective
      /\ f \in 1..Len(s) /\ b.resetAt = s[f] + Window
      /\ \A i \in 1..Len(s) : s[i] \in Nat
  BY EffectivePositive DEF Holds
<1> SUFFICES ASSUME NEW i \in 1..Len(s), i <= Len(s) + 1 - Effective
             PROVE  s[i] + Window < t
  BY <1>1, EffectivePositive DEF OldBefore
<1>2. i <= f
  BY <1>1, EffectivePositive
<1>3. s[i] <= s[f]
  BY <1>1, <1>2 DEF Ordered
<1>4. s[f] + Window < t /\ s[i] \in Nat /\ s[f] \in Nat
  BY <1>1
<1> HIDE DEF f
<1> QED
  BY <1>3, <1>4, WindowAssumption, LaterStill

-----------------------------------------------------------------------------
(* The invariant holds at the start and is kept by every step.             *)
LEMMA LimiterInvInit == LimiterInit => LimiterInv
BY DEF LimiterInit, LimiterInv, LimiterTypeOK, Buckets, Ordered, BucketInv, OldBefore, Apart

LEMMA LimiterInvNext == LimiterInv /\ [LimiterNext]_limiterVars => LimiterInv'
<1> SUFFICES ASSUME LimiterInv, [LimiterNext]_limiterVars PROVE LimiterInv'
  OBVIOUS
<1>0. /\ now \in Nat /\ buckets \in [Addrs -> Buckets] /\ admitted \in [Addrs -> Seq(Nat)]
      /\ \A a \in Addrs : /\ Ordered(admitted[a], now) /\ Apart(admitted[a])
                          /\ BucketInv(buckets[a], admitted[a], now)
  BY DEF LimiterInv, LimiterTypeOK
<1>1. ASSUME NEW a \in Addrs, Allow(a) PROVE LimiterInv'
  <2> DEFINE s == admitted[a]
             s2 == Append(s, now)
             b2 == buckets'[a]
  <2>1. s \in Seq(Nat) /\ s2 \in Seq(Nat) /\ buckets[a] \in Buckets /\ now' = now
    BY <1>0, <1>1 DEF Allow
  <2>2. /\ admitted' = [admitted EXCEPT ![a] = s2]
        /\ admitted' \in [Addrs -> Seq(Nat)] /\ admitted'[a] = s2
        /\ \A x \in Addrs \ {a} : admitted'[x] = admitted[x]
    BY <1>0, <1>1, <2>1 DEF Allow
  <2>3. /\ Ordered(s2, now) /\ Apart(s2) /\ Holds(b2, s2)
        /\ b2 \in [count : Nat, resetAt : Nat]
        /\ buckets' = [buckets EXCEPT ![a] = b2]
    <3>1. CASE ~Current(a)
      <4>1. buckets' = [buckets EXCEPT ![a] = [count |-> 1, resetAt |-> now + Window]]
        BY <1>1, <3>1 DEF Allow
      <4>2. b2 = [count |-> 1, resetAt |-> now + Window]
        BY <1>0, <4>1
      <4>3. OldBefore(s, Len(s) + 1, now)
        <5>1. CASE buckets[a] = None
          BY <1>0, <5>1 DEF BucketInv
        <5>2. CASE buckets[a] # None
          <6>1. buckets[a] \in [count : Nat, resetAt : Nat] /\ Holds(buckets[a], s)
            BY <1>0, <2>1, <5>2 DEF Buckets, BucketInv
          <6>2. now > buckets[a].resetAt
            BY <3>1, <5>2 DEF Current, Over
          <6> QED
            BY <1>0, <2>1, <6>1, <6>2, OverBucket
        <5> QED
          BY <5>1, <5>2
      <4>4. Ordered(s2, now) /\ Apart(s2) /\ Holds([count |-> 1, resetAt |-> now + Window], s2)
        BY <1>0, <2>1, <4>3, OpenBucket
      <4> HIDE DEF s2
      <4> QED
        BY <1>0, <4>1, <4>2, <4>4, WindowAssumption
    <3>2. CASE Current(a)
      <4> DEFINE b == buckets[a]
      <4>1. /\ b.count < Rate /\ b # None
            /\ buckets' = [buckets EXCEPT ![a].count = @ + 1]
        BY <1>1, <3>2 DEF Allow, Current
      <4>2. b \in [count : Nat, resetAt : Nat] /\ Holds(b, s)
        BY <1>0, <2>1, <4>1 DEF Buckets, BucketInv
      <4>3. b2 = [count |-> b.count + 1, resetAt |-> b.resetAt]
        BY <1>0, <4>1, <4>2
      <4>4. /\ Ordered(s2, now) /\ Apart(s2)
            /\ Holds([count |-> b.count + 1, resetAt |-> b.resetAt], s2)
        BY <1>0, <2>1, <4>1, <4>2, FillBucket
      <4> HIDE DEF s2
      <4> QED
        BY <1>0, <4>1, <4>2, <4>3, <4>4
    <3> QED
      BY <3>1, <3>2
  <2>4. b2 # None /\ buckets' \in [Addrs -> Buckets]
    BY <1>0, <2>3, NoneAssumption DEF Buckets
  <2>5. ASSUME NEW x \in Addrs
        PROVE  /\ Ordered(admitted'[x], now') /\ BucketInv(buckets'[x], admitted'[x], now')
               /\ Apart(admitted'[x])
    <3>1. CASE x = a
      BY <2>1, <2>2, <2>3, <2>4, <3>1 DEF BucketInv
    <3>2. CASE x # a
      <4>1. buckets'[x] = buckets[x] /\ admitted'[x] = admitted[x]
        BY <1>0, <2>2, <2>3, <3>2
      <4> QED
        BY <1>0, <2>1, <4>1
    <3> QED
      BY <3>1, <3>2
  <2> QED
    BY <1>0, <2>1, <2>2, <2>4, <2>5 DEF LimiterInv, LimiterTypeOK
<1>2. CASE Cleanup
  <2>1. /\ now' = now /\ admitted' = admitted
        /\ buckets' = [a \in Addrs |-> IF Current(a) THEN buckets[a] ELSE None]
    BY <1>2 DEF Cleanup
  <2>2. buckets' \in [Addrs -> Buckets]
    BY <1>0, <2>1 DEF Buckets
  <2>3. ASSUME NEW x \in Addrs PROVE BucketInv(buckets'[x], admitted[x], now)
    <3>1. CASE Current(x) \/ buckets[x] = None
      <4>1. buckets'[x] = buckets[x]
        BY <2>1, <3>1
      <4> QED
        BY <1>0, <4>1
    <3>2. CASE ~Current(x) /\ buckets[x] # None
      <4>1. buckets[x] \in [count : Nat, resetAt : Nat] /\ Holds(buckets[x], admitted[x])
        BY <1>0, <3>2 DEF Buckets, BucketInv
      <4>2. now > buckets[x].resetAt /\ buckets'[x] = None
        BY <2>1, <3>2 DEF Current, Over
      <4>3. OldBefore(admitted[x], Len(admitted[x]) + 1, now)
        BY <1>0, <4>1, <4>2, OverBucket
      <4> QED
        BY <4>2, <4>3 DEF BucketInv
    <3> QED
      BY <3>1, <3>2
  <2> QED
    BY <1>0, <2>1, <2>2, <2>3 DEF LimiterInv, LimiterTypeOK
<1>3. CASE Tick
  <2>1. now' = now + 1 /\ now' \in Nat /\ buckets' = buckets /\ admitted' = admitted
    BY <1>0, <1>3 DEF Tick
  <2>2. ASSUME NEW x \in Addrs
        PROVE  Ordered(admitted[x], now') /\ BucketInv(buckets[x], admitted[x], now')
    <3>1. \A i \in 1..Len(admitted[x]) : admitted[x][i] \in Nat
      BY <1>0
    <3>2. Ordered(admitted[x], now')
      BY <1>0, <2>1, <3>1 DEF Ordered
    <3>3. ASSUME OldBefore(admitted[x], Len(admitted[x]) + 1, now)
          PROVE  OldBefore(admitted[x], Len(admitted[x]) + 1, now')
      BY <1>0, <2>1, <3>1, <3>3, WindowAssumption DEF OldBefore
    <3> QED
      BY <1>0, <3>2, <3>3 DEF BucketInv
  <2> QED
    BY <1>0, <2>1, <2>2 DEF LimiterInv, LimiterTypeOK
<1>4. CASE Forget
  BY <1>0, <1>4 DEF Forget, LimiterInv, LimiterTypeOK, Buckets, Ordered, BucketInv, OldBefore,
                    Apart
<1>5. CASE UNCHANGED limiterVars
  BY <1>5 DEF limiterVars, LimiterInv, LimiterTypeOK
<1> QED
  BY <1>1, <1>2, <1>3, <1>4, <1>5 DEF LimiterNext

(* Whatever the rate and the window, no stretch of time as long as the     *)
(* window sees more than twice the rate less one request let in, with the  *)
(* cleanup loop running at any time (auth.go Allow, cleanup).              *)
THEOREM RateIsBounded == LimiterSpec => []RateBounded
<1>1. LimiterInv => RateBounded
  BY DEF LimiterInv, RateBounded, Apart
<1> QED
  BY <1>1, LimiterInvInit, LimiterInvNext, PTL DEF LimiterSpec

(* Whoever is turned away was let in as often as the rate allows within    *)
(* the window before (auth.go Allow).                                      *)
THEOREM RefusalIsJustified == LimiterSpec => []RefusedOnlyOverRate
<1>1. ASSUME LimiterInv, NEW a \in Addrs, Refuses(a)
      PROVE  /\ Len(admitted[a]) >= Effective
             /\ now - admitted[a][Len(admitted[a]) - Effective + 1] <= Window
  <2> DEFINE s == admitted[a]
             b == buckets[a]
             f == Len(s) - b.count + 1
  <2>1. /\ now \in Nat /\ s \in Seq(Nat) /\ b # None /\ b \in [count : Nat, resetAt : Nat]
        /\ Ordered(s, now) /\ Holds(b, s)
    BY <1>1 DEF LimiterInv, LimiterTypeOK, Refuses, Current, Buckets, BucketInv
  <2>2. b.count >= Rate /\ now <= b.resetAt
    BY <1>1, <2>1 DEF Refuses, Current, Over
  <2>3. /\ b.count \in 1..Effective /\ b.count <= Len(s) /\ Len(s) \in Nat
        /\ b.resetAt = s[f] + Window
    BY <2>1 DEF Holds
  <2>4. b.count = Effective
    BY <2>2, <2>3, RateAssumption DEF Effective
  <2>5. f \in 1..Len(s) /\ s[f] \in Nat /\ f = Len(s) - Effective + 1
    BY <2>1, <2>3, <2>4, EffectivePositive
  <2> QED
    BY <2>1, <2>2, <2>3, <2>4, <2>5, WindowAssumption, SMTT(30)
<1>2. LimiterInv => RefusedOnlyOverRate
  BY <1>1 DEF RefusedOnlyOverRate
<1> QED
  BY <1>2, LimiterInvInit, LimiterInvNext, PTL DEF LimiterSpec

(* The server uses the limiter only through its operations: what is proved *)
(* of LimiterSpec holds of the server (main.go, auth.go).                  *)
THEOREM ServerLimits == Spec => LimiterSpec
<1>1. Init => LimiterInit
  BY DEF Init
<1>2. [Next]_vars => [LimiterNext]_limiterVars
  BY DEF Next, vars, Request, Admit, AdmitUncounted, TurnAway, LogRequest, LogSignal, Handle,
     LogResponse, Unaudited, FlusherStep, CleanupStep, HeartbeatCheckStep, TimePasses, Restart,
     LimiterNext
<1> QED
  BY <1>1, <1>2, PTL DEF Spec, LimiterSpec

-----------------------------------------------------------------------------
(* The audit trail.  An event is in it only if its request has come so     *)
(* far, and a request that has come so far has its event in it, or among   *)
(* those that are gone.                                                    *)
Past(e, p) ==
    IF e.type = "request" THEN p[e.of] \notin {"new", "refused", "arrived"}
                          ELSE p[e.of] \in {"answered", "done", "dead"}

Due(e, p) == Past(e, p) /\ p[e.of] # "dead"

TrailOK(T, g, p) ==
    /\ \A i, j \in 1..Len(T) : T[i] = T[j] => i = j
    /\ \A i \in 1..Len(T) : Past(T[i], p)
    /\ \A e \in Events : Due(e, p) => e \in g \/ \E i \in 1..Len(T) : T[i] = e
    /\ \A j \in 1..Len(T) : T[j].type = "response" =>
          \/ \E i \in 1..(j - 1) : T[i] = Event(T[j].of, "request")
          \/ Event(T[j].of, "request") \in g

PcTypeOK ==
    pc \in [Requests -> {"new", "refused", "arrived", "logged", "handle", "respond",
                         "answered", "done", "dead"}]

TrailInv == AuditTypeOK /\ PcTypeOK /\ TrailOK(Trail, gone, pc)

(* Requests go on and events stay past; none becomes due without a step of *)
(* its own.                                                                *)
LEMMA TrailKept ==
    ASSUME NEW T \in Seq(Events), NEW g, NEW p, NEW q, TrailOK(T, g, p),
           \A e \in Events : (Past(e, p) => Past(e, q)) /\ (Due(e, q) => Due(e, p))
    PROVE  TrailOK(T, g, q)
<1>1. \A i \in 1..Len(T) : T[i] \in Events
  OBVIOUS
<1> QED
  BY <1>1 DEF TrailOK

(* LogEvent appends an event that was not there; the response after the    *)
(* request.                                                                *)
LEMMA TrailGrows ==
    ASSUME NEW T \in Seq(Events), NEW g, NEW p, NEW q, TrailOK(T, g, p),
           NEW e \in Events, ~Past(e, p), Past(e, q),
           \A x \in Events : (Past(x, p) => Past(x, q)) /\ (Due(x, q) => Due(x, p) \/ x = e),
           e.type = "response" => Due(Event(e.of, "request"), p)
    PROVE  TrailOK(Append(T, e), g, q)
<1> DEFINE R == Append(T, e)
<1>1. /\ Len(R) = Len(T) + 1 /\ Len(T) \in Nat /\ R[Len(T) + 1] = e
      /\ \A i \in 1..Len(T) : R[i] = T[i] /\ T[i] \in Events
  OBVIOUS
<1> HIDE DEF R
<1>2. \A i \in 1..Len(T) : T[i] # e
  BY DEF TrailOK
<1>3. \A i, j \in 1..Len(R) : R[i] = R[j] => i = j
  BY <1>1, <1>2 DEF TrailOK
<1>4. \A i \in 1..Len(R) : Past(R[i], q)
  BY <1>1 DEF TrailOK
<1>5. \A x \in Events : Due(x, q) => x \in g \/ \E i \in 1..Len(R) : R[i] = x
  <2> SUFFICES ASSUME NEW x \in Events, Due(x, q), x \notin g
               PROVE  \E i \in 1..Len(R) : R[i] = x
    OBVIOUS
  <2>1. CASE x = e
    BY <1>1, <2>1
  <2>2. CASE x # e
    <3>1. PICK i \in 1..Len(T) : T[i] = x
      BY <2>2 DEF TrailOK
    <3> QED
      BY <1>1, <3>1
  <2> QED
    BY <2>1, <2>2
<1>6. ASSUME NEW j \in 1..Len(R), R[j].type = "response", Event(R[j].of, "request") \notin g
      PROVE  \E i \in 1..(j - 1) : R[i] = Event(R[j].of, "request")
  <2>1. CASE j \in 1..Len(T)
    <3>1. PICK i \in 1..(j - 1) : T[i] = Event(T[j].of, "request")
      BY <1>1, <1>6, <2>1 DEF TrailOK
    <3> QED
      BY <1>1, <2>1, <3>1
  <2>2. CASE j = Len(T) + 1
    <3>1. Event(e.of, "request") \in Events
      BY DEF Events, Event
    <3>2. PICK i \in 1..Len(T) : T[i] = Event(e.of, "request")
      BY <1>1, <1>6, <2>2, <3>1 DEF TrailOK
    <3> QED
      BY <1>1, <2>2, <3>2
  <2> QED
    BY <1>1, <2>1, <2>2
<1>7. TrailOK(R, g, q)
  BY <1>3, <1>4, <1>5, <1>6 DEF TrailOK
<1> QED
  BY <1>7 DEF R

(* An event whose insert failed leaves the trail and is gone.              *)
LEMMA TrailLosesOne ==
    ASSUME NEW T \in Seq(Events), NEW g, NEW p, TrailOK(T, g, p),
           NEW k \in 1..Len(T), NEW R \in Seq(Events), Len(R) = Len(T) - 1,
           \A i \in 1..(k - 1) : R[i] = T[i],
           \A i \in k..Len(R) : R[i] = T[i + 1]
    PROVE  TrailOK(R, g \cup {T[k]}, p)
<1> DEFINE at(i) == IF i < k THEN i ELSE i + 1
           back(i) == IF i < k THEN i ELSE i - 1
<1>1. \A i \in 1..Len(R) : at(i) \in 1..Len(T) /\ at(i) # k /\ R[i] = T[at(i)]
  OBVIOUS
<1>2. \A i, j \in 1..Len(R) : (at(i) = at(j) => i = j) /\ (i < j <=> at(i) < at(j))
  OBVIOUS
<1>3. \A i \in 1..Len(T) : i # k => back(i) \in 1..Len(R) /\ at(back(i)) = i
  OBVIOUS
<1> HIDE DEF at, back
<1>4. \A i, j \in 1..Len(R) : R[i] = R[j] => i = j
  BY <1>1, <1>2 DEF TrailOK
<1>5. \A i \in 1..Len(R) : Past(R[i], p)
  BY <1>1 DEF TrailOK
<1>6. ASSUME NEW e \in Events, Due(e, p), e \notin g \cup {T[k]}
      PROVE  \E i \in 1..Len(R) : R[i] = e
  <2>1. PICK i \in 1..Len(T) : T[i] = e
    BY <1>6 DEF TrailOK
  <2>2. i # k
    BY <1>6, <2>1
  <2> QED
    BY <1>1, <1>3, <2>1, <2>2
<1>7. ASSUME NEW j \in 1..Len(R), R[j].type = "response",
             Event(R[j].of, "request") \notin g \cup {T[k]}
      PROVE  \E i \in 1..(j - 1) : R[i] = Event(R[j].of, "request")
  <2>1. PICK i \in 1..(at(j) - 1) : T[i] = Event(T[at(j)].of, "request")
    BY <1>1, <1>7 DEF TrailOK
  <2>2. i \in 1..Len(T) /\ i # k /\ i < at(j)
    BY <1>1, <1>7, <2>1
  <2>3. back(i) \in 1..Len(R) /\ at(back(i)) = i /\ back(i) < j
    BY <1>2, <1>3, <2>2
  <2>4. R[back(i)] = Event(R[j].of, "request")
    BY <1>1, <2>1, <2>3
  <2>5. back(i) \in 1..(j - 1)
    BY <2>3
  <2> QED
    BY <2>4, <2>5
<1> QED
  BY <1>4, <1>5, <1>6, <1>7 DEF TrailOK

(* A restart leaves the rows; what was on its way is gone.                 *)
LEMMA TrailIsCut ==
    ASSUME NEW T \in Seq(Events), NEW g, NEW h, NEW p, NEW q, TrailOK(T, g, p),
           NEW R \in Seq(Events), Len(R) <= Len(T),
           \A i \in 1..Len(R) : R[i] = T[i],
           \A i \in 1..Len(T) : i > Len(R) => T[i] \in h,
           \A e \in Events : (Past(e, p) => Past(e, q)) /\ (Due(e, q) => Due(e, p))
    PROVE  TrailOK(R, g \cup h, q)
<1>1. /\ Len(R) \in Nat /\ Len(T) \in Nat /\ \A i \in 1..Len(R) : i \in 1..Len(T)
      /\ \A i \in 1..Len(T) : T[i] \in Events
  OBVIOUS
<1>2. \A i, j \in 1..Len(R) : R[i] = R[j] => i = j
  BY <1>1 DEF TrailOK
<1>3. \A i \in 1..Len(R) : Past(R[i], q)
  BY <1>1 DEF TrailOK
<1>4. ASSUME NEW e \in Events, Due(e, q), e \notin g \cup h
      PROVE  \E i \in 1..Len(R) : R[i] = e
  <2>1. PICK i \in 1..Len(T) : T[i] = e
    BY <1>4 DEF TrailOK
  <2>2. i \in 1..Len(R)
    BY <1>1, <1>4, <2>1
  <2> QED
    BY <2>1, <2>2
<1>5. ASSUME NEW j \in 1..Len(R), R[j].type = "response",
             Event(R[j].of, "request") \notin g \cup h
      PROVE  \E i \in 1..(j - 1) : R[i] = Event(R[j].of, "request")
  <2>1. PICK i \in 1..(j - 1) : T[i] = Event(T[j].of, "request")
    BY <1>1, <1>5 DEF TrailOK
  <2> QED
    BY <1>1, <2>1
<1> QED
  BY <1>2, <1>3, <1>4, <1>5 DEF TrailOK

-----------------------------------------------------------------------------
(* What the steps of handlers and flusher do to the trail.                 *)
LEMMA TrailType == AuditTypeOK => Trail \in Seq(Events)
BY DEF AuditTypeOK, Trail

LEMMA HeadMoves ==
    ASSUME NEW S, NEW s \in Seq(S), NEW b \in Seq(S), b # <<>>
    PROVE  Append(s, Head(b)) \o Tail(b) = s \o b
OBVIOUS

LEMMA AppendToTrail ==
    ASSUME AuditTypeOK, NEW e \in Events, AppendEvent(e)
    PROVE  AuditTypeOK' /\ Trail' = Append(Trail, e) /\ gone' = gone
<1>1. AuditTypeOK'
  BY DEF AuditTypeOK, AppendEvent
<1>2. Trail' = Append(Trail, e)
  BY DEF AuditTypeOK, AppendEvent, Trail
<1> QED
  BY <1>1, <1>2 DEF AppendEvent

(* The rest of a batch, when its head is done with.                        *)
LEMMA RestOfBatch ==
    ASSUME AuditTypeOK, fpc = "insert", Rest
    PROVE  /\ batch \in Seq(Events) /\ batch # <<>> /\ batch' \in Seq(Events)
           /\ Head(batch) \in Events /\ fpc' \in {"select", "flush", "insert"}
           /\ fpc' = "insert" <=> batch' # <<>>
<1>1. batch \in Seq(Events) /\ batch # <<>> /\ batch' = Tail(batch)
      /\ fpc' = IF Len(batch) = 1 THEN "select" ELSE "insert"
  BY DEF AuditTypeOK, Rest
<1>2. Tail(batch) = <<>> <=> Len(batch) = 1
  <2>1. Len(batch) >= 1 /\ Len(batch) \in Nat /\ Tail(batch) \in Seq(Events)
        /\ Len(Tail(batch)) = Len(batch) - 1
    BY <1>1
  <2>2. Tail(batch) = <<>> <=> Len(Tail(batch)) = 0
    BY <2>1
  <2> QED
    BY <2>1, <2>2
<1> QED
  BY <1>1, <1>2

LEMMA FlusherKeepsTrail ==
    ASSUME TrailInv, Flusher, UNCHANGED pc PROVE TrailInv'
<1>0. /\ AuditTypeOK /\ TrailOK(Trail, gone, pc) /\ Trail \in Seq(Events) /\ PcTypeOK'
  BY TrailType DEF TrailInv, PcTypeOK
<1>1. CASE Woken \/ FlushTicker
  <2>1. AuditTypeOK' /\ Trail' = Trail /\ gone' = gone
    BY <1>0, <1>1 DEF Woken, FlushTicker, AuditTypeOK, Trail
  <2> QED
    BY <1>0, <2>1 DEF TrailInv
<1>2. CASE Take
  <2>1. AuditTypeOK'
    BY <1>0, <1>2 DEF Take, AuditTypeOK
  <2>2. batch = <<>>
    BY <1>0, <1>2 DEF Take, AuditTypeOK
  <2>3. Trail' = Trail
    <3>1. CASE buffer = <<>>
      BY <1>0, <1>2, <3>1 DEF Take, AuditTypeOK, Trail
    <3>2. CASE buffer # <<>>
      <4>1. batch' = buffer /\ buffer' = <<>> /\ stored' = stored
        BY <1>2, <3>2 DEF Take
      <4> QED
        BY <1>0, <2>2, <4>1 DEF AuditTypeOK, Trail
    <3> QED
      BY <3>1, <3>2
  <2> QED
    BY <1>0, <1>2, <2>1, <2>3 DEF TrailInv, Take
<1>3. CASE Insert
  <2>1. /\ batch \in Seq(Events) /\ batch # <<>> /\ batch' \in Seq(Events)
        /\ Head(batch) \in Events /\ fpc' \in {"select", "flush", "insert"}
        /\ fpc' = "insert" <=> batch' # <<>>
    BY <1>0, <1>3, RestOfBatch DEF Insert
  <2>2. AuditTypeOK'
    BY <1>0, <1>3, <2>1 DEF Insert, Rest, AuditTypeOK
  <2>3. Trail' = Trail
    <3>1. stored \in Seq(Events) /\ buffer' = buffer
          /\ stored' = Append(stored, Head(batch)) /\ batch' = Tail(batch)
      BY <1>0, <1>3 DEF Insert, Rest, AuditTypeOK
    <3>2. Append(stored, Head(batch)) \o Tail(batch) = stored \o batch
      BY <2>1, <3>1, HeadMoves
    <3> QED
      BY <3>1, <3>2 DEF Trail
  <2> QED
    BY <1>0, <1>3, <2>2, <2>3 DEF TrailInv, Insert
<1>4. CASE InsertFails
  <2>1. /\ batch \in Seq(Events) /\ batch # <<>> /\ batch' \in Seq(Events)
        /\ Head(batch) \in Events /\ fpc' \in {"select", "flush", "insert"}
        /\ fpc' = "insert" <=> batch' # <<>>
    BY <1>0, <1>4, RestOfBatch DEF InsertFails
  <2>2. AuditTypeOK'
    BY <1>0, <1>4, <2>1 DEF InsertFails, Rest, AuditTypeOK
  <2>3. /\ stored' = stored /\ buffer' = buffer /\ batch' = Tail(batch)
        /\ gone' = gone \cup {Head(batch)}
    BY <1>4 DEF InsertFails, Rest
  <2>4. /\ Len(stored) + 1 \in 1..Len(Trail) /\ Trail[Len(stored) + 1] = Head(batch)
        /\ Len(Trail') = Len(Trail) - 1 /\ Trail' \in Seq(Events)
        /\ \A i \in 1..Len(stored) : Trail'[i] = Trail[i]
        /\ \A i \in (Len(stored) + 1)..Len(Trail') : Trail'[i] = Trail[i + 1]
    BY <1>0, <2>1, <2>3 DEF AuditTypeOK, Trail
  <2>5. (Len(stored) + 1) - 1 = Len(stored)
    BY <1>0 DEF AuditTypeOK
  <2>6. TrailOK(Trail', gone \cup {Trail[Len(stored) + 1]}, pc)
    BY <1>0, <2>4, <2>5, TrailLosesOne
  <2> QED
    BY <1>0, <2>2, <2>3, <2>4, <2>6 DEF TrailInv
<1> QED
  BY <1>1, <1>2, <1>3, <1>4 DEF Flusher

(* A step of one request.                                                  *)
LEMMA GotoChanges ==
    ASSUME PcTypeOK, NEW r \in Requests,
           NEW l \in {"new", "refused", "arrived", "logged", "handle", "respond",
                      "answered", "done", "dead"}, Goto(r, l)
    PROVE  PcTypeOK' /\ pc'[r] = l /\ \A x \in Requests \ {r} : pc'[x] = pc[x]
BY DEF PcTypeOK, Goto

LEMMA RequestKeepsTrail ==
    ASSUME TrailInv, NEW r \in Requests, Request(r) PROVE TrailInv'
<1>0. AuditTypeOK /\ TrailOK(Trail, gone, pc) /\ Trail \in Seq(Events) /\ PcTypeOK
  BY TrailType DEF TrailInv
<1> DEFINE Advances(from, to) ==
              /\ pc[r] = from /\ PcTypeOK' /\ pc'[r] = to
              /\ \A x \in Requests \ {r} : pc'[x] = pc[x]
<1>1. ASSUME UNCHANGED auditVars,
             \/ Advances("new", "arrived") \/ Advances("new", "refused")
             \/ Advances("handle", "respond")
      PROVE  TrailInv'
  <2>1. \A e \in Events : (Past(e, pc) => Past(e, pc')) /\ (Due(e, pc') => Due(e, pc))
    BY <1>1 DEF Past, Due, Events
  <2>2. AuditTypeOK' /\ Trail' = Trail /\ gone' = gone
    BY <1>0, <1>1 DEF auditVars, AuditTypeOK, Trail
  <2> QED
    BY <1>0, <1>1, <2>1, <2>2, TrailKept DEF TrailInv
<1>2. CASE Admit(r) \/ AdmitUncounted(r) \/ TurnAway(r) \/ Handle(r)
  <2>1. \/ pc[r] = "new" /\ (Goto(r, "arrived") \/ Goto(r, "refused"))
        \/ pc[r] = "handle" /\ Goto(r, "respond")
    BY <1>2 DEF Admit, AdmitUncounted, TurnAway, Handle
  <2>2. UNCHANGED auditVars
    BY <1>2 DEF Admit, AdmitUncounted, TurnAway, Handle
  <2> QED
    BY <1>0, <1>1, <2>1, <2>2, GotoChanges
<1>3. CASE LogRequest(r)
  <2> DEFINE e == Event(r, "request")
  <2>1. e \in Events /\ e.of = r /\ e.type = "request"
    BY DEF Event, Events
  <2>2. Advances("arrived", "logged")
    BY <1>0, <1>3, GotoChanges DEF LogRequest
  <2>3. AuditTypeOK' /\ Trail' = Append(Trail, e) /\ gone' = gone
    BY <1>0, <1>3, <2>1, AppendToTrail DEF LogRequest
  <2>4. \A x \in Events : /\ x.of \in Requests /\ x.type \in {"request", "response"}
                          /\ x.of = r /\ x.type = "request" => x = e
    BY DEF Events, Event
  <2> HIDE DEF e
  <2>5. /\ ~Past(e, pc) /\ Past(e, pc')
        /\ \A x \in Events : (Past(x, pc) => Past(x, pc')) /\ (Due(x, pc') => Due(x, pc) \/ x = e)
    BY <2>1, <2>2, <2>4 DEF Past, Due
  <2>6. TrailOK(Append(Trail, e), gone, pc')
    BY <1>0, <2>1, <2>5, TrailGrows
  <2> QED
    BY <2>2, <2>3, <2>6 DEF TrailInv
<1>4. CASE LogSignal(r)
  <2>1. Advances("logged", "handle") \/ Advances("answered", "done")
    BY <1>0, <1>4, GotoChanges DEF LogSignal
  <2>2. \A e \in Events : (Past(e, pc) => Past(e, pc')) /\ (Due(e, pc') => Due(e, pc))
    BY <2>1 DEF Past, Due, Events
  <2>3. AuditTypeOK' /\ Trail' = Trail /\ gone' = gone
    BY <1>0, <1>4 DEF LogSignal, Signal, AuditTypeOK, Trail
  <2> QED
    BY <1>0, <2>1, <2>2, <2>3, TrailKept DEF TrailInv
<1>5. CASE LogResponse(r)
  <2> DEFINE e == Event(r, "response")
  <2>1. e \in Events /\ e.of = r /\ e.type = "response"
    BY DEF Event, Events
  <2>2. Advances("respond", "answered")
    BY <1>0, <1>5, GotoChanges DEF LogResponse
  <2>3. AuditTypeOK' /\ Trail' = Append(Trail, e) /\ gone' = gone
    BY <1>0, <1>5, <2>1, AppendToTrail DEF LogResponse
  <2>4. \A x \in Events : /\ x.of \in Requests /\ x.type \in {"request", "response"}
                          /\ x.of = r /\ x.type = "response" => x = e
    BY DEF Events, Event
  <2>5. Due(Event(r, "request"), pc)
    BY <2>2 DEF Due, Past, Event
  <2> HIDE DEF e
  <2>6. /\ ~Past(e, pc) /\ Past(e, pc')
        /\ \A x \in Events : (Past(x, pc) => Past(x, pc')) /\ (Due(x, pc') => Due(x, pc) \/ x = e)
    BY <2>1, <2>2, <2>4 DEF Past, Due
  <2>7. TrailOK(Append(Trail, e), gone, pc')
    BY <1>0, <2>1, <2>5, <2>6, TrailGrows
  <2> QED
    BY <2>2, <2>3, <2>7 DEF TrailInv
<1> QED
  BY <1>2, <1>3, <1>4, <1>5 DEF Request

(* The process ends: requests in progress are dead, their events gone.     *)
LEMMA RestartKeepsTrail ==
    ASSUME TrailInv, Restart PROVE TrailInv'
<1>0. AuditTypeOK /\ TrailOK(Trail, gone, pc) /\ Trail \in Seq(Events) /\ PcTypeOK
  BY TrailType DEF TrailInv
<1>1. /\ gone' = gone \cup ToSet(batch) \cup ToSet(buffer)
      /\ buffer' = <<>> /\ batch' = <<>> /\ stored' = stored /\ flushCh' = 0 /\ fpc' = "select"
      /\ pc' = [r \in Requests |->
                  IF pc[r] \in {"new", "done", "refused"} THEN pc[r] ELSE "dead"]
  BY DEF Restart, AuditLost
<1>2. PcTypeOK'
  BY <1>0, <1>1 DEF PcTypeOK
<1>3. ToSet(batch) \subseteq Events /\ ToSet(buffer) \subseteq Events
  BY <1>0 DEF AuditTypeOK, ToSet
<1>4. AuditTypeOK'
  BY <1>0, <1>1, <1>3 DEF AuditTypeOK
<1>5. \A e \in Events : (Past(e, pc) => Past(e, pc')) /\ (Due(e, pc') => Due(e, pc))
  <2>1. \A r \in Requests : \/ pc'[r] = pc[r]
                            \/ pc'[r] = "dead" /\ pc[r] \notin {"new", "refused", "done"}
    BY <1>0, <1>1 DEF PcTypeOK
  <2> QED
    BY <2>1 DEF Past, Due, Events
<1>6. Trail' = stored /\ stored \in Seq(Events)
  BY <1>0, <1>1 DEF AuditTypeOK, Trail
<1>7. /\ Len(stored) <= Len(Trail) /\ \A i \in 1..Len(stored) : stored[i] = Trail[i]
      /\ \A i \in 1..Len(Trail) : i > Len(stored) => Trail[i] \in ToSet(batch) \cup ToSet(buffer)
  BY <1>0 DEF AuditTypeOK, Trail, ToSet
<1>8. TrailOK(stored, gone \cup (ToSet(batch) \cup ToSet(buffer)), pc')
  BY <1>0, <1>5, <1>6, <1>7, TrailIsCut
<1>9. gone' = gone \cup (ToSet(batch) \cup ToSet(buffer))
  BY <1>1
<1> QED
  BY <1>2, <1>4, <1>6, <1>8, <1>9 DEF TrailInv

LEMMA TrailInvInit == Init => TrailInv
<1> SUFFICES ASSUME Init PROVE TrailInv
  OBVIOUS
<1>1. AuditTypeOK /\ Trail = <<>> /\ PcTypeOK
  BY DEF Init, AuditInit, AuditTypeOK, Trail, PcTypeOK
<1>2. \A e \in Events : ~Due(e, pc)
  BY DEF Init, Due, Past, Events
<1> QED
  BY <1>1, <1>2 DEF TrailInv, TrailOK

LEMMA TrailInvNext == TrailInv /\ [Next]_vars => TrailInv'
<1> SUFFICES ASSUME TrailInv, [Next]_vars PROVE TrailInv'
  OBVIOUS
<1>1. ASSUME NEW r \in Requests, Request(r) PROVE TrailInv'
  BY <1>1, RequestKeepsTrail
<1>2. CASE FlusherStep
  BY <1>2, FlusherKeepsTrail DEF FlusherStep
<1>3. CASE Restart
  BY <1>3, RestartKeepsTrail
<1>4. CASE UNCHANGED <<auditVars, pc>>
  BY <1>4 DEF auditVars, TrailInv, AuditTypeOK, PcTypeOK, Trail
<1>5. CASE \/ \E a \in Addrs : Unaudited(a)
           \/ CleanupStep \/ HeartbeatCheckStep \/ TimePasses
  BY <1>4, <1>5 DEF Unaudited, CleanupStep, HeartbeatCheckStep, TimePasses
<1> QED
  BY <1>1, <1>2, <1>3, <1>4, <1>5 DEF Next, vars

(* RequestComesFirst (audit.go:108-125, 299-333), wherever the flusher     *)
(* cuts the buffer, whatever inserts fail and however often the process    *)
(* dies.                                                                   *)
THEOREM AuditOrder == Spec => []RequestComesFirst
<1>1. TrailInv => RequestComesFirst
  BY DEF TrailInv, TrailOK, RequestComesFirst
<1> QED
  BY <1>1, TrailInvInit, TrailInvNext, PTL DEF Spec

(* NothingSlipsThrough (audit.go:116-118, 299-333): every event a request  *)
(* logged is in the trail exactly once or its loss is accounted for.       *)
THEOREM AuditComplete == Spec => []NothingSlipsThrough
<1>1. ASSUME TrailInv PROVE NothingSlipsThrough
  <2>1. TrailOK(Trail, gone, pc) /\ Trail \in Seq(Events)
    BY <1>1, TrailType DEF TrailInv
  <2>2. IsInjective(Trail)
    BY <2>1 DEF TrailOK, IsInjective
  <2>3. ASSUME NEW r \in Requests, NEW e \in Logged(r) PROVE e \in ToSet(Trail) \cup gone
    <3>1. e \in Events /\ Due(e, pc)
      BY DEF Logged, Due, Past, Events
    <3> QED
      BY <2>1, <3>1 DEF TrailOK, ToSet
  <2> QED
    BY <2>2, <2>3 DEF NothingSlipsThrough
<1> QED
  BY <1>1, TrailInvInit, TrailInvNext, PTL DEF Spec

-----------------------------------------------------------------------------
(* The wake-ups.  While the flusher inserts, a batch behind it may grow:   *)
(* its wake-up is in the channel or on the way before the flusher sleeps.  *)
WakeUpInv ==
    (buffer # <<>> /\ fpc # "flush") =>
        flushCh = 1 \/ \E r \in Requests : pc[r] \in {"logged", "answered"}

LEMMA WakeUpInvNext == TrailInv /\ WakeUpInv /\ [Next]_vars => WakeUpInv'
<1> SUFFICES ASSUME TrailInv, WakeUpInv, [Next]_vars PROVE WakeUpInv'
  OBVIOUS
<1>0. PcTypeOK
  BY DEF TrailInv
<1>1. ASSUME NEW r \in Requests,
             Admit(r) \/ AdmitUncounted(r) \/ TurnAway(r) \/ Handle(r)
      PROVE  WakeUpInv'
  <2>1. \/ pc[r] = "new" /\ (Goto(r, "arrived") \/ Goto(r, "refused"))
        \/ pc[r] = "handle" /\ Goto(r, "respond")
    BY <1>1 DEF Admit, AdmitUncounted, TurnAway, Handle
  <2>2. UNCHANGED auditVars
    BY <1>1 DEF Admit, AdmitUncounted, TurnAway, Handle
  <2>3. pc[r] \notin {"logged", "answered"} /\ \A x \in Requests \ {r} : pc'[x] = pc[x]
    BY <1>0, <2>1, GotoChanges
  <2> QED
    BY <2>2, <2>3 DEF WakeUpInv, auditVars
<1>2. ASSUME NEW r \in Requests, LogRequest(r) \/ LogResponse(r) PROVE WakeUpInv'
  <2>1. pc'[r] \in {"logged", "answered"}
    BY <1>0, <1>2 DEF LogRequest, LogResponse, Goto, PcTypeOK
  <2> QED
    BY <2>1 DEF WakeUpInv
<1>3. ASSUME NEW r \in Requests, LogSignal(r) PROVE WakeUpInv'
  BY <1>3 DEF LogSignal, Signal, WakeUpInv
<1>4. CASE FlusherStep
  BY <1>4 DEF FlusherStep, Flusher, Woken, FlushTicker, Take, Insert, InsertFails, Rest, WakeUpInv
<1>5. CASE Restart
  BY <1>5 DEF Restart, AuditLost, WakeUpInv
<1>6. CASE UNCHANGED <<auditVars, pc>>
  BY <1>6 DEF auditVars, WakeUpInv
<1>7. CASE \/ \E a \in Addrs : Unaudited(a)
           \/ CleanupStep \/ HeartbeatCheckStep \/ TimePasses
  BY <1>6, <1>7 DEF Unaudited, CleanupStep, HeartbeatCheckStep, TimePasses
<1> QED
  BY <1>1, <1>2, <1>3, <1>4, <1>5, <1>6, <1>7 DEF Next, Request, vars

(* FlushIsComing (audit.go:108-125, 282-297): the channel has room for one *)
(* wake-up and the others are dropped, yet none is missed.                 *)
THEOREM WakeUpsSuffice == Spec => []FlushIsComing
<1>1. Init => WakeUpInv
  BY DEF Init, AuditInit, WakeUpInv
<1>2. WakeUpInv => FlushIsComing
  BY DEF WakeUpInv, FlushIsComing
<1> QED
  BY <1>1, <1>2, TrailInvInit, TrailInvNext, WakeUpInvNext, PTL DEF Spec

-----------------------------------------------------------------------------
(* The clients.  What the table has of a client that was heard of lately   *)
(* is the time it was heard of, so no round of the check removes it.       *)
ClientInv ==
    /\ ClientTypeOK /\ now \in Nat
    /\ IsFiniteSet(Known)
    /\ \A c \in Clients : (heard[c] # Absent /\ now - heard[c] <= StaleAfter) =>
          clients[c] = heard[c]

LEMMA ClientInvInit == Init => ClientInv
<1> SUFFICES ASSUME Init PROVE ClientInv
  OBVIOUS
<1>1. Known = {}
  BY DEF Init, ClientInit, Known
<1>2. IsFiniteSet(Known) /\ Cardinality(Known) = 0
  BY <1>1, FS_EmptySet
<1> QED
  BY <1>2, ClientAssumption DEF Init, ClientInit, LimiterInit, ClientInv, ClientTypeOK

(* The table may only shrink, or a client with room in it be refreshed.    *)
LEMMA FewerClients ==
    ASSUME ClientInv, Known' \subseteq Known
    PROVE  IsFiniteSet(Known') /\ Cardinality(Known') <= MaxClients
<1>1. IsFiniteSet(Known) /\ Cardinality(Known) <= MaxClients
  BY DEF ClientInv, ClientTypeOK
<1>2. /\ IsFiniteSet(Known') /\ Cardinality(Known') <= Cardinality(Known)
      /\ Cardinality(Known) \in Nat /\ Cardinality(Known') \in Nat
  BY <1>1, FS_Subset, FS_CardinalityType
<1> QED
  BY <1>1, <1>2, ClientAssumption

LEMMA OneMoreClient ==
    ASSUME ClientInv, NEW c \in Clients, HasRoom(c), Known' \subseteq Known \cup {c}
    PROVE  IsFiniteSet(Known') /\ Cardinality(Known') <= MaxClients
<1>1. IsFiniteSet(Known) /\ Cardinality(Known) <= MaxClients /\ Cardinality(Known) \in Nat
  BY FS_CardinalityType DEF ClientInv, ClientTypeOK
<1>2. /\ IsFiniteSet(Known \cup {c})
      /\ Cardinality(Known \cup {c}) =
            IF c \in Known THEN Cardinality(Known) ELSE Cardinality(Known) + 1
  BY <1>1, FS_AddElement
<1>3. Cardinality(Known \cup {c}) <= MaxClients /\ Cardinality(Known \cup {c}) \in Nat
  BY <1>1, <1>2, ClientAssumption DEF HasRoom
<1>4. /\ IsFiniteSet(Known') /\ Cardinality(Known') <= Cardinality(Known \cup {c})
      /\ Cardinality(Known') \in Nat
  BY <1>2, FS_Subset, FS_CardinalityType
<1> QED
  BY <1>3, <1>4, ClientAssumption

LEMMA ClientInvNext == ClientInv /\ [Next]_vars => ClientInv'
<1> SUFFICES ASSUME ClientInv, [Next]_vars PROVE ClientInv'
  OBVIOUS
<1> USE ClientAssumption, AbsentAssumption
<1>0. /\ now \in Nat
      /\ clients \in [Clients -> Nat \cup {Absent}] /\ heard \in [Clients -> Nat \cup {Absent}]
      /\ \A c \in Clients : (heard[c] # Absent /\ now - heard[c] <= StaleAfter) =>
            clients[c] = heard[c]
  BY DEF ClientInv, ClientTypeOK
<1>1. ASSUME UNCHANGED clientVars, now' = now PROVE ClientInv'
  BY <1>1 DEF clientVars, ClientInv, ClientTypeOK, Known
<1>2. ASSUME NEW c \in Clients, Register(c, now), now' = now PROVE ClientInv'
  <2>1. /\ clients' = [clients EXCEPT ![c] = now] /\ heard' = [heard EXCEPT ![c] = now]
        /\ HasRoom(c)
    BY <1>2 DEF Register
  <2>2. Known' \subseteq Known \cup {c}
    BY <1>0, <2>1 DEF Known
  <2>3. IsFiniteSet(Known') /\ Cardinality(Known') <= MaxClients
    BY <2>1, <2>2, OneMoreClient
  <2>4. \A x \in Clients : (heard'[x] # Absent /\ now - heard'[x] <= StaleAfter) =>
            clients'[x] = heard'[x]
    BY <1>0, <2>1
  <2> QED
    BY <1>0, <1>2, <2>1, <2>3, <2>4 DEF ClientInv, ClientTypeOK
<1>3. ASSUME NEW c \in Clients, Heartbeat(c, now), now' = now PROVE ClientInv'
  <2>1. /\ \/ clients[c] = Absent /\ clients' = clients
           \/ clients[c] # Absent /\ clients' = [clients EXCEPT ![c] = now]
        /\ \/ heard[c] # Absent /\ now - heard[c] <= StaleAfter /\ heard' = [heard EXCEPT ![c] = now]
           \/ heard' = [heard EXCEPT ![c] = Absent]
    BY <1>0, <1>3 DEF Heartbeat
  <2>2. Known' \subseteq Known
    BY <1>0, <2>1 DEF Known
  <2>3. IsFiniteSet(Known') /\ Cardinality(Known') <= MaxClients
    BY <2>2, FewerClients
  <2>4. \A x \in Clients : (heard'[x] # Absent /\ now - heard'[x] <= StaleAfter) =>
            clients'[x] = heard'[x]
    BY <1>0, <2>1
  <2>5. clients' \in [Clients -> Nat \cup {Absent}] /\ heard' \in [Clients -> Nat \cup {Absent}]
    BY <1>0, <2>1
  <2> QED
    BY <1>0, <1>3, <2>3, <2>4, <2>5 DEF ClientInv, ClientTypeOK
<1>4. ASSUME NEW c \in Clients, Unregister(c), now' = now PROVE ClientInv'
  <2>1. clients' = [clients EXCEPT ![c] = Absent] /\ heard' = [heard EXCEPT ![c] = Absent]
    BY <1>4 DEF Unregister
  <2>2. Known' \subseteq Known
    BY <1>0, <2>1 DEF Known
  <2>3. IsFiniteSet(Known') /\ Cardinality(Known') <= MaxClients
    BY <2>2, FewerClients
  <2>4. \A x \in Clients : (heard'[x] # Absent /\ now - heard'[x] <= StaleAfter) =>
            clients'[x] = heard'[x]
    BY <1>0, <2>1
  <2> QED
    BY <1>0, <1>4, <2>1, <2>3, <2>4 DEF ClientInv, ClientTypeOK
<1>5. ASSUME HeartbeatCheck(now), now' = now PROVE ClientInv'
  <2>1. /\ clients' = [c \in Clients |-> IF Stale(c, now) THEN Absent ELSE clients[c]]
        /\ heard' = heard
    BY <1>5 DEF HeartbeatCheck
  <2>2. Known' \subseteq Known
    BY <1>0, <2>1 DEF Known
  <2>3. IsFiniteSet(Known') /\ Cardinality(Known') <= MaxClients
    BY <2>2, FewerClients
  <2>4. ASSUME NEW x \in Clients, heard[x] # Absent, now - heard[x] <= StaleAfter
        PROVE  clients'[x] = heard[x]
    <3>1. clients[x] = heard[x] /\ clients[x] \in Nat
      BY <1>0, <2>4
    <3>2. ~Stale(x, now)
      BY <1>0, <2>4, <3>1 DEF Stale
    <3> QED
      BY <2>1, <3>1, <3>2
  <2>5. clients' \in [Clients -> Nat \cup {Absent}]
    BY <1>0, <2>1
  <2> QED
    BY <1>0, <1>5, <2>1, <2>3, <2>4, <2>5 DEF ClientInv, ClientTypeOK
<1>6. ASSUME UNCHANGED clientVars, now' = now + 1 PROVE ClientInv'
  <2>1. Known' = Known /\ now' \in Nat
    BY <1>0, <1>6 DEF Known, clientVars
  <2>2. ASSUME NEW x \in Clients, heard[x] # Absent, now + 1 - heard[x] <= StaleAfter
        PROVE  clients[x] = heard[x]
    <3>1. heard[x] \in Nat
      BY <1>0, <2>2
    <3>2. now - heard[x] <= StaleAfter
      BY <1>0, <2>2, <3>1
    <3> QED
      BY <1>0, <2>2, <3>2
  <2> QED
    BY <1>6, <2>1, <2>2 DEF ClientInv, ClientTypeOK, clientVars
<1>7. CASE Restart
  <2>1. /\ clients' = [c \in Clients |-> Absent] /\ heard' = [c \in Clients |-> Absent]
        /\ now' = now
    BY <1>7 DEF Restart, Forget
  <2>2. Known' \subseteq Known
    BY <2>1 DEF Known
  <2>3. IsFiniteSet(Known') /\ Cardinality(Known') <= MaxClients
    BY <2>2, FewerClients
  <2> QED
    BY <1>0, <2>1, <2>3 DEF ClientInv, ClientTypeOK
<1>8. ASSUME NEW r \in Requests, Handle(r) PROVE ClientInv'
  <2>1. now' = now
    BY <1>8 DEF Handle, limiterVars
  <2> QED
    BY <1>1, <1>2, <1>3, <1>4, <1>8, <2>1 DEF Handle, RegisterFails
<1>9. ASSUME NEW r \in Requests, \/ Admit(r) \/ AdmitUncounted(r) \/ TurnAway(r)
                                 \/ LogRequest(r) \/ LogSignal(r) \/ LogResponse(r)
      PROVE  ClientInv'
  <2>1. UNCHANGED clientVars /\ now' = now
    BY <1>9 DEF Admit, AdmitUncounted, TurnAway, LogRequest, LogSignal, LogResponse,
       limiterVars, Allow
  <2> QED
    BY <1>1, <2>1
<1>10. CASE \/ \E a \in Addrs : Unaudited(a)
            \/ FlusherStep \/ CleanupStep \/ UNCHANGED vars
  <2>1. UNCHANGED clientVars /\ now' = now
    BY <1>10 DEF Unaudited, FlusherStep, CleanupStep, Cleanup, limiterVars, Allow, vars
  <2> QED
    BY <1>1, <2>1
<1>11. CASE HeartbeatCheckStep
  BY <1>5, <1>11 DEF HeartbeatCheckStep, limiterVars
<1>12. CASE TimePasses
  BY <1>6, <1>12 DEF TimePasses, Tick
<1> QED
  BY <1>7, <1>8, <1>9, <1>10, <1>11, <1>12 DEF Next, Request

(* ActiveClientsStay (handlers.go:67-106, 259-273, 394-395): no other      *)
(* client and no round of the check costs a client its place that has      *)
(* registered and been heard of in every stale time since, and the         *)
(* server's whole state keeps its types.                                   *)
THEOREM ClientsKeepPlaces == Spec => []ActiveClientsStay
<1>1. LimiterInv /\ TrailInv /\ ClientInv => ActiveClientsStay
  <2> SUFFICES ASSUME LimiterInv, TrailInv, ClientInv PROVE ActiveClientsStay
    OBVIOUS
  <2>1. TypeOK
    BY DEF LimiterInv, TrailInv, ClientInv, TypeOK, PcTypeOK
  <2>2. ASSUME NEW c \in Clients, heard[c] # Absent, now - heard[c] <= StaleAfter
        PROVE  HasRoom(c) /\ c \in Known
    BY <2>2 DEF ClientInv, HasRoom, Known
  <2> QED
    BY <2>1, <2>2 DEF ActiveClientsStay
<1>2. Spec => []LimiterInv
  BY ServerLimits, LimiterInvInit, LimiterInvNext, PTL DEF LimiterSpec
<1> QED
  BY <1>1, <1>2, TrailInvInit, TrailInvNext, ClientInvInit, ClientInvNext, PTL DEF Spec
=============================================================================

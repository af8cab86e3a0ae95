------------------------ MODULE CircuitBreakerProofs ------------------------
(***************************************************************************)
(* The counters of a circuit breaker mean what CountersMatchHistory says,  *)
(* for any number of callers, any thresholds and any timeout.              *)
(***************************************************************************)
EXTENDS CircuitBreaker, TLAPS

(* The per-object part of the inductive invariant, as a predicate of one   *)
(* breaker's fields and its two ghost counters.                            *)
Sound(b, s, p) ==
    /\ b.state = "closed" =>
          b.failures = s /\ s < FailureThreshold /\ b.successes = 0
    /\ b.state = "half-open" => b.successes = p /\ p < SuccessThreshold
    /\ b.state # "closed" => b.failures = FailureThreshold

IInv == TypeOK /\ RefsHeld /\ CountersMatchHistory

(* A new breaker satisfies Sound with empty history.                       *)
LEMMA NewIsSound ==
    NewCircuitBreaker \in Breaker /\ \A p \in 0 .. SuccessThreshold : Sound(NewCircuitBreaker, 0, p)
  BY ThresholdAssumption DEF NewCircuitBreaker, Breaker, Ages, Sound

(* The fields of a breaker after transitionTo (circuit_breaker.go:167-177). *)
LEMMA TransitionFields ==
    ASSUME NEW b \in Breaker, NEW s \in {"closed", "open", "half-open"}
    PROVE  /\ transitionTo(b, s) \in Breaker
           /\ transitionTo(b, s).state = s
           /\ transitionTo(b, s).failures = IF s = "closed" THEN 0 ELSE b.failures
           /\ transitionTo(b, s).successes = IF s = "open" THEN b.successes ELSE 0
  <1>1. transitionTo(b, s) \in Breaker
    <2> DEFINE f == IF s = "closed" THEN 0 ELSE b.failures
               u == IF s \in {"closed", "half-open"} THEN 0 ELSE b.successes
    <2>1. f \in 0 .. FailureThreshold /\ u \in 0 .. SuccessThreshold
      BY ThresholdAssumption DEF Breaker
    <2>2. transitionTo(b, s) =
             [b EXCEPT !.state = s, !.failures = f, !.successes = u]
      BY DEF transitionTo
    <2> HIDE DEF f, u
    <2> QED BY <2>1, <2>2 DEF Breaker
  <1>2. transitionTo(b, s).state = s
    BY DEF transitionTo, Breaker
  <1>3. transitionTo(b, s).failures = IF s = "closed" THEN 0 ELSE b.failures
    BY DEF transitionTo, Breaker
  <1>4. transitionTo(b, s).successes = IF s = "open" THEN b.successes ELSE 0
    BY DEF transitionTo, Breaker
  <1> QED BY <1>1, <1>2, <1>3, <1>4

(* Allow keeps a breaker sound when the probe count restarts with a new    *)
(* half-open period (circuit_breaker.go:74-93).                            *)
LEMMA AllowIsSound ==
    ASSUME NEW b \in Breaker, NEW s \in 0 .. FailureThreshold,
           NEW p \in 0 .. SuccessThreshold, Sound(b, s, p), Allows(b)
    PROVE  /\ AfterAllow(b) \in Breaker
           /\ Sound(AfterAllow(b), s, IF b.state = "open" THEN 0 ELSE p)
  <1>1. CASE b.state = "open"
    <2>1. AfterAllow(b) = transitionTo(b, "half-open")
      BY <1>1 DEF AfterAllow, Allows
    <2> QED BY <1>1, <2>1, TransitionFields, ThresholdAssumption DEF Sound
  <1>2. CASE b.state # "open"
    BY <1>2 DEF AfterAllow
  <1> QED BY <1>1, <1>2

(* RecordSuccess keeps a breaker sound (circuit_breaker.go:96-111).        *)
LEMMA SuccessIsSound ==
    ASSUME NEW b \in Breaker, NEW s \in 0 .. FailureThreshold,
           NEW p \in 0 .. SuccessThreshold, Sound(b, s, p)
    PROVE  /\ AfterSuccess(b) \in Breaker
           /\ Sound(AfterSuccess(b), 0, IF p < SuccessThreshold THEN p + 1 ELSE p)
  <1> USE ThresholdAssumption
  <1>1. CASE b.state = "closed"
    BY <1>1 DEF AfterSuccess, Breaker, Ages, Sound
  <1>2. CASE b.state = "open"
    BY <1>2 DEF AfterSuccess, Breaker, Ages, Sound
  <1>3. CASE b.state = "half-open"
    <2> DEFINE counted == [b EXCEPT !.successes = @ + 1]
    <2>1. /\ b.successes = p /\ p < SuccessThreshold /\ b.failures = FailureThreshold
          /\ counted \in Breaker
          /\ counted.successes = p + 1 /\ counted.state = "half-open"
          /\ counted.failures = FailureThreshold
      BY <1>3 DEF Breaker, Sound
    <2>2. AfterSuccess(b) = IF counted.successes >= SuccessThreshold
                            THEN transitionTo(counted, "closed") ELSE counted
      BY <1>3 DEF AfterSuccess
    <2> HIDE DEF counted
    <2>3. CASE counted.successes >= SuccessThreshold
      <3>1. AfterSuccess(b) = transitionTo(counted, "closed")
        BY <2>2, <2>3
      <3> QED BY <2>1, <3>1, TransitionFields DEF Sound
    <2>4. CASE ~(counted.successes >= SuccessThreshold)
      <3>1. AfterSuccess(b) = counted
        BY <2>2, <2>4
      <3> QED BY <2>1, <2>4, <3>1 DEF Sound
    <2> QED BY <2>3, <2>4
  <1> QED BY <1>1, <1>2, <1>3 DEF Breaker

(* RecordFailure keeps a breaker sound (circuit_breaker.go:114-132).       *)
LEMMA FailureIsSound ==
    ASSUME NEW b \in Breaker, NEW s \in 0 .. FailureThreshold,
           NEW p \in 0 .. SuccessThreshold, Sound(b, s, p)
    PROVE  /\ AfterFailure(b) \in Breaker
           /\ Sound(AfterFailure(b), Saturate(s), 0)
  <1> USE ThresholdAssumption
  <1> DEFINE counted == [b EXCEPT !.failures = Saturate(@), !.since = 0]
  <1>1. /\ counted \in Breaker
        /\ counted.state = b.state
        /\ counted.failures = Saturate(b.failures)
        /\ counted.successes = b.successes
    <2>1. Saturate(b.failures) \in 0 .. FailureThreshold /\ 0 \in Ages
      BY DEF Breaker, Saturate, Ages
    <2> QED BY <2>1 DEF Breaker
  <1>2. AfterFailure(b) =
           CASE b.state = "closed" /\ counted.failures >= FailureThreshold ->
                   transitionTo(counted, "open")
             [] b.state = "half-open" -> transitionTo(counted, "open")
             [] OTHER -> counted
    BY DEF AfterFailure
  <1> HIDE DEF counted
  <1>3. CASE b.state = "closed" /\ counted.failures >= FailureThreshold
    <2>1. AfterFailure(b) = transitionTo(counted, "open")
      BY <1>2, <1>3
    <2>2. counted.failures = FailureThreshold
      BY <1>1, <1>3 DEF Breaker
    <2> QED BY <1>1, <2>1, <2>2, TransitionFields DEF Sound
  <1>4. CASE b.state = "closed" /\ ~(counted.failures >= FailureThreshold)
    <2>1. AfterFailure(b) = counted
      BY <1>2, <1>4
    <2> QED BY <1>1, <1>4, <2>1 DEF Sound, Breaker
  <1>5. CASE b.state = "half-open"
    <2>1. AfterFailure(b) = transitionTo(counted, "open")
      BY <1>2, <1>5
    <2>2. counted.failures = FailureThreshold
      BY <1>1, <1>5 DEF Sound, Saturate
    <2> QED BY <1>1, <2>1, <2>2, TransitionFields DEF Sound
  <1>6. CASE b.state = "open"
    <2>1. AfterFailure(b) = counted
      BY <1>2, <1>6
    <2>2. counted.failures = FailureThreshold
      BY <1>1, <1>6 DEF Sound, Saturate
    <2> QED BY <1>1, <1>6, <2>1, <2>2 DEF Sound
  <1> QED BY <1>3, <1>4, <1>5, <1>6 DEF Breaker

-----------------------------------------------------------------------------
(* The invariant in terms of Sound.                                        *)
LEMMA CountersAreSound ==
    CountersMatchHistory <=> \A o \in Objects : Sound(cb[o], streak[o], probes[o])
  BY DEF CountersMatchHistory, Sound

(* A step that replaces one object's fields by sound ones, and leaves the  *)
(* others alone, keeps all of them sound.                                  *)
LEMMA OneObjectChanges ==
    ASSUME TypeOK, CountersMatchHistory,
           NEW o \in Objects, NEW b \in Breaker,
           NEW s \in 0 .. FailureThreshold, NEW p \in 0 .. SuccessThreshold,
           cb' = [cb EXCEPT ![o] = b],
           streak' = [streak EXCEPT ![o] = s],
           probes' = [probes EXCEPT ![o] = p],
           Sound(b, s, p)
    PROVE  /\ CountersMatchHistory'
           /\ cb' \in [Objects -> Breaker]
           /\ streak' \in [Objects -> 0 .. FailureThreshold]
           /\ probes' \in [Objects -> 0 .. SuccessThreshold]
  BY DEF TypeOK, CountersMatchHistory, Sound

(* The three parts of the invariant hold initially.                        *)
LEMMA InitEstablishesIInv == Init => IInv
  <1> SUFFICES ASSUME Init PROVE IInv
    OBVIOUS
  <1>1. TypeOK
    BY NewIsSound, ThresholdAssumption DEF Init, TypeOK
  <1>2. RefsHeld
    BY NoneAssumption DEF Init, RefsHeld
  <1>3. CountersMatchHistory
    BY NewIsSound, ThresholdAssumption, CountersAreSound DEF Init
  <1> QED BY <1>1, <1>2, <1>3 DEF IInv

(* Every step of every caller, of the operator and of the clock keeps the  *)
(* invariant.                                                              *)
LEMMA NextPreservesIInv == IInv /\ [Next]_vars => IInv'
  <1> SUFFICES ASSUME IInv, [Next]_vars PROVE IInv'
    OBVIOUS
  <1> USE ThresholdAssumption, NoneAssumption DEF IInv
  <1>0. /\ TypeOK /\ CountersMatchHistory
        /\ 0 \in 0 .. FailureThreshold /\ 0 \in 0 .. SuccessThreshold
    OBVIOUS
  <1>1. ASSUME NEW c \in Callers, GetHit(c) PROVE IInv'
    BY <1>1 DEF GetHit, TypeOK, RefsHeld, CountersMatchHistory
  <1>2. ASSUME NEW c \in Callers, GetMiss(c) PROVE IInv'
    BY <1>2 DEF GetMiss, TypeOK, RefsHeld, CountersMatchHistory
  <1>3. ASSUME NEW c \in Callers, GetCreate(c) PROVE IInv'
    <2>1. PICK o \in Objects \ Held :
             /\ table' = o
             /\ cb' = [cb EXCEPT ![o] = NewCircuitBreaker]
             /\ streak' = [streak EXCEPT ![o] = 0]
             /\ probes' = [probes EXCEPT ![o] = 0]
             /\ ref' = [ref EXCEPT ![c] = o]
      BY <1>3 DEF GetCreate
    <2>2. /\ CountersMatchHistory'
          /\ cb' \in [Objects -> Breaker]
          /\ streak' \in [Objects -> 0 .. FailureThreshold]
          /\ probes' \in [Objects -> 0 .. SuccessThreshold]
      BY <1>0, <2>1, NewIsSound, OneObjectChanges
    <2>3. RefsHeld'
      BY <1>3, <2>1 DEF GetCreate, RefsHeld, TypeOK
    <2>4. TypeOK'
      BY <1>3, <2>1, <2>2 DEF GetCreate, TypeOK
    <2> QED BY <2>2, <2>3, <2>4
  <1>4. ASSUME NEW c \in Callers, AllowYes(c) PROVE IInv'
    <2>1. ref[c] \in Objects /\ cb[ref[c]] \in Breaker
      BY <1>4 DEF AllowYes, RefsHeld, TypeOK
    <2> DEFINE o == ref[c]
               p == IF cb[o].state = "open" THEN 0 ELSE probes[o]
    <2>2. /\ AfterAllow(cb[o]) \in Breaker
          /\ Sound(AfterAllow(cb[o]), streak[o], p)
          /\ p \in 0 .. SuccessThreshold /\ streak[o] \in 0 .. FailureThreshold
      BY <1>4, <2>1, AllowIsSound, CountersAreSound DEF AllowYes, TypeOK
    <2>3. /\ cb' = [cb EXCEPT ![o] = AfterAllow(cb[o])]
          /\ streak' = [streak EXCEPT ![o] = streak[o]]
          /\ probes' = [probes EXCEPT ![o] = p]
      BY <1>4, <2>1 DEF AllowYes, TypeOK
    <2>4. /\ CountersMatchHistory'
          /\ cb' \in [Objects -> Breaker]
          /\ streak' \in [Objects -> 0 .. FailureThreshold]
          /\ probes' \in [Objects -> 0 .. SuccessThreshold]
      <3> HIDE DEF p
      <3> QED BY <1>0, <2>1, <2>2, <2>3, OneObjectChanges
    <2>5. RefsHeld'
      BY <1>4 DEF AllowYes, RefsHeld, TypeOK
    <2>6. TypeOK'
      BY <1>4, <2>4 DEF AllowYes, TypeOK
    <2> QED BY <2>4, <2>5, <2>6
  <1>5. ASSUME NEW c \in Callers, AllowNo(c) PROVE IInv'
    BY <1>5 DEF AllowNo, TypeOK, RefsHeld, CountersMatchHistory
  <1>6. ASSUME NEW c \in Callers, RecordSuccess(c) PROVE IInv'
    <2>1. ref[c] \in Objects /\ cb[ref[c]] \in Breaker
      BY <1>6 DEF RecordSuccess, RefsHeld, TypeOK
    <2> DEFINE o == ref[c]
               p == IF probes[o] < SuccessThreshold THEN probes[o] + 1 ELSE probes[o]
    <2>2. /\ AfterSuccess(cb[o]) \in Breaker
          /\ Sound(AfterSuccess(cb[o]), 0, p)
          /\ p \in 0 .. SuccessThreshold
      BY <2>1, SuccessIsSound, CountersAreSound DEF TypeOK
    <2>3. /\ cb' = [cb EXCEPT ![o] = AfterSuccess(cb[o])]
          /\ streak' = [streak EXCEPT ![o] = 0]
          /\ probes' = [probes EXCEPT ![o] = p]
      BY <1>6, <2>1 DEF RecordSuccess, TypeOK
    <2>4. /\ CountersMatchHistory'
          /\ cb' \in [Objects -> Breaker]
          /\ streak' \in [Objects -> 0 .. FailureThreshold]
          /\ probes' \in [Objects -> 0 .. SuccessThreshold]
      <3> HIDE DEF p
      <3> QED BY <1>0, <2>1, <2>2, <2>3, OneObjectChanges
    <2>5. RefsHeld'
      BY <1>6 DEF RecordSuccess, RefsHeld, TypeOK
    <2>6. TypeOK'
      BY <1>6, <2>4 DEF RecordSuccess, TypeOK
    <2> QED BY <2>4, <2>5, <2>6
  <1>7. ASSUME NEW c \in Callers, RecordFailure(c) PROVE IInv'
    <2>1. ref[c] \in Objects /\ cb[ref[c]] \in Breaker
      BY <1>7 DEF RecordFailure, RefsHeld, TypeOK
    <2> DEFINE o == ref[c]
    <2>2. /\ AfterFailure(cb[o]) \in Breaker
          /\ Sound(AfterFailure(cb[o]), Saturate(streak[o]), 0)
      BY <2>1, FailureIsSound, CountersAreSound DEF TypeOK
    <2>3. Saturate(streak[o]) \in 0 .. FailureThreshold
      BY <2>1 DEF TypeOK, Saturate
    <2>4. /\ cb' = [cb EXCEPT ![o] = AfterFailure(cb[o])]
          /\ streak' = [streak EXCEPT ![o] = Saturate(streak[o])]
          /\ probes' = [probes EXCEPT ![o] = 0]
      BY <1>7, <2>1 DEF RecordFailure, TypeOK
    <2>5. /\ CountersMatchHistory'
          /\ cb' \in [Objects -> Breaker]
          /\ streak' \in [Objects -> 0 .. FailureThreshold]
          /\ probes' \in [Objects -> 0 .. SuccessThreshold]
      BY <1>0, <2>1, <2>2, <2>3, <2>4, OneObjectChanges
    <2>6. RefsHeld'
      BY <1>7 DEF RecordFailure, RefsHeld, TypeOK
    <2>7. TypeOK'
      BY <1>7, <2>5 DEF RecordFailure, TypeOK
    <2> QED BY <2>5, <2>6, <2>7
  <1>8. ASSUME Reset PROVE IInv'
    <2>1. table \in Objects /\ cb[table] \in Breaker /\ probes[table] \in 0 .. SuccessThreshold
      BY <1>8 DEF Reset, TypeOK
    <2>2. /\ transitionTo(cb[table], "closed") \in Breaker
          /\ Sound(transitionTo(cb[table], "closed"), 0, probes[table])
      BY <2>1, TransitionFields DEF Sound
    <2>3. /\ cb' = [cb EXCEPT ![table] = transitionTo(cb[table], "closed")]
          /\ streak' = [streak EXCEPT ![table] = 0]
          /\ probes' = [probes EXCEPT ![table] = probes[table]]
      BY <1>8, <2>1 DEF Reset, TypeOK
    <2>4. /\ CountersMatchHistory'
          /\ cb' \in [Objects -> Breaker]
          /\ streak' \in [Objects -> 0 .. FailureThreshold]
          /\ probes' \in [Objects -> 0 .. SuccessThreshold]
      BY <1>0, <2>1, <2>2, <2>3, OneObjectChanges
    <2>5. RefsHeld' /\ TypeOK'
      BY <1>8, <2>4 DEF Reset, RefsHeld, TypeOK
    <2> QED BY <2>4, <2>5
  <1>9. ASSUME Remove PROVE IInv'
    BY <1>9 DEF Remove, TypeOK, RefsHeld, CountersMatchHistory
  <1>10. ASSUME Tick PROVE IInv'
    <2>1. ASSUME NEW o \in Objects
          PROVE  /\ cb'[o] \in Breaker
                 /\ cb'[o].state = cb[o].state
                 /\ cb'[o].failures = cb[o].failures
                 /\ cb'[o].successes = cb[o].successes
      <3>1. cb'[o] = [cb[o] EXCEPT !.since = Older(cb[o].since)]
        BY <1>10 DEF Tick
      <3>2. Older(cb[o].since) \in Ages
        BY DEF TypeOK, Breaker, Ages, Older
      <3>3. cb[o] \in Breaker
        BY DEF TypeOK
      <3>4. \A x \in Ages : [cb[o] EXCEPT !.since = x] \in Breaker
        BY <3>3 DEF Breaker
      <3> QED BY <3>1, <3>2, <3>3, <3>4 DEF Breaker
    <2>2. cb' \in [Objects -> Breaker]
      BY <1>10, <2>1 DEF Tick
    <2>3. CountersMatchHistory'
      BY <1>10, <2>1 DEF Tick, CountersMatchHistory
    <2>4. RefsHeld' /\ TypeOK'
      BY <1>10, <2>2 DEF Tick, RefsHeld, TypeOK
    <2> QED BY <2>3, <2>4
  <1>11. CASE UNCHANGED vars
    BY <1>11 DEF vars, TypeOK, RefsHeld, CountersMatchHistory
  <1> QED
    BY <1>1, <1>2, <1>3, <1>4, <1>5, <1>6, <1>7, <1>8, <1>9, <1>10, <1>11
       DEF Next, Execute

(* CountersMatchHistory (circuit_breaker.go:96-132, 167-177) holds for any *)
(* number of callers and objects and any thresholds and timeout.           *)
THEOREM BreakerCounters == Spec => []CountersMatchHistory
  <1>1. IInv => CountersMatchHistory
    BY DEF IInv
  <1> QED BY <1>1, InitEstablishesIInv, NextPreservesIInv, PTL DEF Spec

(* Type correctness of the breaker, its manager and its callers.           *)
THEOREM BreakerTypes == Spec => []TypeOK
  <1>1. IInv => TypeOK
    BY DEF IInv
  <1> QED BY <1>1, InitEstablishesIInv, NextPreservesIInv, PTL DEF Spec
-----------------------------------------------------------------------------
(* What one step may do to the state of a breaker.                         *)
Trips(o) == cb[o].state = "closed" /\ cb'[o].state = "open"
Closes(o) == cb[o].state # "closed" /\ cb'[o].state = "closed"

(* The clock, and the steps that leave the breakers alone, neither trip    *)
(* nor close one.                                                          *)
LEMMA OthersKeepStates ==
    ASSUME IInv,
           \/ \E c \in Callers : GetHit(c) \/ GetMiss(c) \/ AllowNo(c)
           \/ Remove \/ Tick \/ UNCHANGED vars,
           NEW o \in Objects
    PROVE  cb'[o].state = cb[o].state
  <1>1. CASE Tick
    <2>1. cb'[o] = [cb[o] EXCEPT !.since = Older(cb[o].since)]
      BY <1>1 DEF Tick
    <2> QED BY <2>1 DEF IInv, TypeOK, Breaker
  <1>2. CASE ~Tick
    BY <1>2 DEF GetHit, GetMiss, AllowNo, Remove, vars
  <1> QED BY <1>1, <1>2

(* The state after Allow and after a recorded outcome.                     *)
LEMMA StateAfterMethods ==
    ASSUME NEW b \in Breaker, NEW s \in 0 .. FailureThreshold,
           NEW p \in 0 .. SuccessThreshold, Sound(b, s, p)
    PROVE  /\ AfterAllow(b).state # b.state =>
                 b.state = "open" /\ AfterAllow(b).state = "half-open"
           /\ AfterSuccess(b).state # b.state =>
                 b.state = "half-open" /\ AfterSuccess(b).state = "closed"
                 /\ p + 1 = SuccessThreshold
           /\ AfterFailure(b).state # b.state =>
                 AfterFailure(b).state = "open"
                 /\ (b.state = "closed" => Saturate(s) = FailureThreshold)
  <1> USE ThresholdAssumption
  <1>1. AfterAllow(b).state # b.state =>
           b.state = "open" /\ AfterAllow(b).state = "half-open"
    BY TransitionFields DEF AfterAllow
  <1>2. AfterSuccess(b).state # b.state =>
           b.state = "half-open" /\ AfterSuccess(b).state = "closed"
           /\ p + 1 = SuccessThreshold
    <2>1. CASE b.state = "half-open"
      <3> DEFINE counted == [b EXCEPT !.successes = @ + 1]
      <3>1. /\ b.successes = p /\ p < SuccessThreshold
            /\ counted \in Breaker /\ counted.successes = p + 1
            /\ counted.state = "half-open"
        BY <2>1 DEF Breaker, Sound
      <3>2. AfterSuccess(b) = IF counted.successes >= SuccessThreshold
                              THEN transitionTo(counted, "closed") ELSE counted
        BY <2>1 DEF AfterSuccess
      <3> HIDE DEF counted
      <3>3. CASE counted.successes >= SuccessThreshold
        BY <2>1, <3>1, <3>2, <3>3, TransitionFields
      <3>4. CASE ~(counted.successes >= SuccessThreshold)
        BY <2>1, <3>1, <3>2, <3>4
      <3> QED BY <3>3, <3>4
    <2>2. CASE b.state \in {"closed", "open"}
      BY <2>2 DEF AfterSuccess, Breaker
    <2> QED BY <2>1, <2>2 DEF Breaker
  <1>3. AfterFailure(b).state # b.state =>
           AfterFailure(b).state = "open"
           /\ (b.state = "closed" => Saturate(s) = FailureThreshold)
    <2> DEFINE counted == [b EXCEPT !.failures = Saturate(@), !.since = 0]
    <2>1. Saturate(b.failures) \in 0 .. FailureThreshold /\ 0 \in Ages
      BY DEF Breaker, Saturate, Ages
    <2>2. /\ counted \in Breaker /\ counted.state = b.state
          /\ counted.failures = Saturate(b.failures)
      BY <2>1 DEF Breaker
    <2>3. AfterFailure(b) =
             CASE b.state = "closed" /\ counted.failures >= FailureThreshold ->
                     transitionTo(counted, "open")
               [] b.state = "half-open" -> transitionTo(counted, "open")
               [] OTHER -> counted
      BY DEF AfterFailure
    <2> HIDE DEF counted
    <2>4. CASE b.state = "closed" /\ counted.failures >= FailureThreshold
      <3>1. AfterFailure(b).state = "open"
        BY <2>2, <2>3, <2>4, TransitionFields
      <3>2. Saturate(s) = FailureThreshold
        BY <2>1, <2>2, <2>4 DEF Sound
      <3> QED BY <3>1, <3>2
    <2>5. CASE b.state = "half-open"
      BY <2>2, <2>3, <2>5, TransitionFields
    <2>6. CASE /\ ~(b.state = "closed" /\ counted.failures >= FailureThreshold)
               /\ b.state # "half-open"
      BY <2>2, <2>3, <2>6
    <2> QED BY <2>4, <2>5, <2>6
  <1> QED BY <1>1, <1>2, <1>3

(* A step that trips a breaker is a recorded failure that completes a run  *)
(* of FailureThreshold; one that closes it is a success that completes the *)
(* probes, an operator's Reset, or the allocation of a new breaker.        *)
LEMMA StepsThatMove ==
    ASSUME IInv, [Next]_vars, NEW o \in Objects
    PROVE  /\ Trips(o) => streak'[o] = FailureThreshold
           /\ Closes(o) => \/ cb[o].state = "half-open" /\ probes'[o] = SuccessThreshold
                           \/ Reset
                           \/ o \notin Held \cup {table}
  <1> USE ThresholdAssumption, NoneAssumption DEF IInv, Trips, Closes
  <1> DEFINE Goal ==
         /\ Trips(o) => streak'[o] = FailureThreshold
         /\ Closes(o) => \/ cb[o].state = "half-open" /\ probes'[o] = SuccessThreshold
                         \/ Reset
                         \/ o \notin Held \cup {table}
  <1>0. /\ cb[o] \in Breaker /\ streak[o] \in 0 .. FailureThreshold
        /\ probes[o] \in 0 .. SuccessThreshold /\ Sound(cb[o], streak[o], probes[o])
    BY CountersAreSound DEF TypeOK
  <1>1. CASE \/ \E c \in Callers : GetHit(c) \/ GetMiss(c) \/ AllowNo(c)
             \/ Remove \/ Tick \/ UNCHANGED vars
    <2>1. cb'[o].state = cb[o].state
      BY <1>1, OthersKeepStates
    <2> QED BY <2>1
  <1>2. ASSUME NEW c \in Callers, GetCreate(c) PROVE Goal
    <2>1. PICK n \in Objects \ Held :
             table' = n /\ cb' = [cb EXCEPT ![n] = NewCircuitBreaker]
      BY <1>2 DEF GetCreate
    <2>2. CASE o = n
      <3>1. cb'[o] = NewCircuitBreaker /\ o \notin Held /\ table = None
        BY <1>2, <2>1, <2>2 DEF TypeOK, GetCreate
      <3> QED BY <3>1 DEF NewCircuitBreaker
    <2>3. CASE o # n
      BY <2>1, <2>3 DEF TypeOK
    <2> QED BY <2>2, <2>3
  <1>3. ASSUME NEW c \in Callers, AllowYes(c) PROVE Goal
    <2>1. cb'[o] = cb[o] \/ cb'[o] = AfterAllow(cb[o])
      BY <1>3 DEF AllowYes, TypeOK
    <2> QED BY <1>0, <2>1, StateAfterMethods
  <1>4. ASSUME NEW c \in Callers, RecordSuccess(c) PROVE Goal
    <2>1. CASE o = ref[c]
      <3>1. /\ cb'[o] = AfterSuccess(cb[o])
            /\ probes'[o] = IF probes[o] < SuccessThreshold THEN probes[o] + 1 ELSE probes[o]
        BY <1>4, <2>1 DEF RecordSuccess, TypeOK
      <3> QED BY <1>0, <3>1, StateAfterMethods
    <2>2. CASE o # ref[c]
      BY <1>4, <2>2 DEF RecordSuccess, TypeOK
    <2> QED BY <2>1, <2>2
  <1>5. ASSUME NEW c \in Callers, RecordFailure(c) PROVE Goal
    <2>1. CASE o = ref[c]
      <3>1. cb'[o] = AfterFailure(cb[o]) /\ streak'[o] = Saturate(streak[o])
        BY <1>5, <2>1 DEF RecordFailure, TypeOK
      <3> QED BY <1>0, <3>1, StateAfterMethods
    <2>2. CASE o # ref[c]
      BY <1>5, <2>2 DEF RecordFailure, TypeOK
    <2> QED BY <2>1, <2>2
  <1>6. ASSUME Reset PROVE Goal
    <2>1. cb'[o] = cb[o] \/ cb'[o] = transitionTo(cb[o], "closed")
      BY <1>6 DEF Reset, TypeOK
    <2> QED BY <1>0, <1>6, <2>1, TransitionFields
  <1> QED
    BY <1>1, <1>2, <1>3, <1>4, <1>5, <1>6 DEF Next, Execute

(* TripsOnlyOnStreak (circuit_breaker.go:114-132), whatever the number of  *)
(* callers that record outcomes late.                                      *)
THEOREM BreakerTrips == Spec => TripsOnlyOnStreak
  <1>1. IInv /\ [Next]_vars =>
           [\A o \in Objects : cb[o].state = "closed" /\ cb'[o].state = "open"
               => streak'[o] = FailureThreshold]_vars
    BY StepsThatMove DEF Trips
  <1> QED BY <1>1, InitEstablishesIInv, NextPreservesIInv, PTL DEF Spec, TripsOnlyOnStreak

(* ClosesOnlyAfterProbes (circuit_breaker.go:81-111): no success left over *)
(* from an earlier half-open period, or recorded by a caller admitted in   *)
(* one, counts towards closing.                                            *)
THEOREM BreakerCloses == Spec => ClosesOnlyAfterProbes
  <1>1. IInv /\ [Next]_vars =>
           [\A o \in Objects : cb[o].state # "closed" /\ cb'[o].state = "closed"
               => \/ cb[o].state = "half-open" /\ probes'[o] = SuccessThreshold
                  \/ Reset \/ o \notin Held \cup {table}]_vars
    BY StepsThatMove DEF Closes
  <1> QED BY <1>1, InitEstablishesIInv, NextPreservesIInv, PTL DEF Spec, ClosesOnlyAfterProbes
=============================================================================

--------------------------- MODULE CircuitBreaker ---------------------------
(***************************************************************************)
(* hive-server-go/circuit_breaker.go: the entry of one endpoint in a       *)
(* CircuitBreakerManager and the goroutines that run Execute against it.   *)
(*                                                                         *)
(* Execute is not atomic: it looks the breaker up, asks Allow, runs the    *)
(* protected function and records its outcome in four separate critical    *)
(* sections, on a pointer that Remove may meanwhile have taken out of the  *)
(* table.  Breaker objects therefore have an identity here, and an object  *)
(* nobody points to any more is free to be allocated again.                *)
(*                                                                         *)
(* Time is the age of lastFailure and of lastStateChange, counted up to    *)
(* Timeout + 1: all ages beyond Timeout are alike to Allow.  The failure   *)
(* count saturates at FailureThreshold, the largest value told apart.      *)
(***************************************************************************)
EXTENDS Integers, FiniteSets

CONSTANTS
    Callers,            \* goroutines calling Execute
    Objects,            \* the heap: breaker objects
    None,               \* the nil pointer
    FailureThreshold,   \* CircuitBreakerConfig.FailureThreshold
    SuccessThreshold,   \* CircuitBreakerConfig.SuccessThreshold
    Timeout             \* CircuitBreakerConfig.Timeout, in clock ticks

ASSUME ThresholdAssumption ==
    /\ FailureThreshold \in Nat \ {0}
    /\ SuccessThreshold \in Nat \ {0}
    /\ Timeout \in Nat

ASSUME NoneAssumption == None \notin Objects

VARIABLES
    table,      \* breakers[name]: an object or None
    cb,         \* the breaker objects
    pc,         \* where each caller is in Execute
    ref,        \* the breaker pointer each caller holds
    streak,     \* ghost: failures recorded on an object since the last success
    probes      \* ghost: successes recorded on an object since it went half-open

vars == <<table, cb, pc, ref, streak, probes>>

Ages == 0 .. Timeout + 1
Older(age) == IF age <= Timeout THEN age + 1 ELSE age

Breaker == [state     : {"closed", "open", "half-open"},
            failures  : 0 .. FailureThreshold,
            successes : 0 .. SuccessThreshold,
            since     : Ages]       \* age of lastFailure

NewCircuitBreaker ==
    [state |-> "closed", failures |-> 0, successes |-> 0,
     since |-> Timeout + 1]

Held == {ref[c] : c \in Callers}

-----------------------------------------------------------------------------
(* The bodies of the breaker's methods, as functions of its fields.        *)

(* A mutation: going half-open does not clear the successes.               *)
transitionKeepsSuccesses(b, s) ==
    [b EXCEPT !.state     = s,
              !.failures  = IF s = "closed" THEN 0 ELSE @,
              !.successes = IF s = "closed" THEN 0 ELSE @]

transitionTo(b, s) ==
    [b EXCEPT !.state     = s,
              !.failures  = IF s = "closed" THEN 0 ELSE @,
              !.successes = IF s \in {"closed", "half-open"} THEN 0 ELSE @]

TimeoutElapsed(b) == b.since > Timeout

Allows(b) == b.state # "open" \/ TimeoutElapsed(b)

(* A mutation: Allow sets the state itself, past transitionTo.             *)
AllowSetsStateOnly(b) ==
    IF b.state = "open" /\ TimeoutElapsed(b) THEN [b EXCEPT !.state = "half-open"] ELSE b

AfterAllow(b) ==
    IF b.state = "open" /\ TimeoutElapsed(b) THEN transitionTo(b, "half-open") ELSE b

(* A mutation: a success does not reset the failures.                      *)
SuccessWithoutReset(b) ==
    IF b.state = "half-open"
    THEN LET counted == [b EXCEPT !.successes = @ + 1]
         IN  IF counted.successes >= SuccessThreshold
             THEN transitionTo(counted, "closed") ELSE counted
    ELSE b

AfterSuccess(b) ==
    CASE b.state = "half-open" ->
            LET counted == [b EXCEPT !.successes = @ + 1]
            IN  IF counted.successes >= SuccessThreshold
                THEN transitionTo(counted, "closed") ELSE counted
      [] b.state = "closed" -> [b EXCEPT !.failures = 0]
      [] b.state = "open"   -> b

Saturate(n) == IF n < FailureThreshold THEN n + 1 ELSE n

AfterFailure(b) ==
    LET counted == [b EXCEPT !.failures = Saturate(@), !.since = 0]
    IN  CASE b.state = "closed" /\ counted.failures >= FailureThreshold ->
                transitionTo(counted, "open")
          [] b.state = "half-open" -> transitionTo(counted, "open")
          [] OTHER -> counted

-----------------------------------------------------------------------------
Init ==
    /\ table = None
    /\ cb = [o \in Objects |-> NewCircuitBreaker]
    /\ pc = [c \in Callers |-> "idle"]
    /\ ref = [c \in Callers |-> None]
    /\ streak = [o \in Objects |-> 0]
    /\ probes = [o \in Objects |-> 0]

(* Get finds the entry: under the read lock on the first try, under the    *)
(* write lock on the second, when another caller created it in between.    *)
GetHit(c) ==
    /\ pc[c] \in {"idle", "missed"}
    /\ table # None
    /\ pc' = [pc EXCEPT ![c] = "allow"]
    /\ ref' = [ref EXCEPT ![c] = table]
    /\ UNCHANGED <<table, cb, streak, probes>>

GetMiss(c) ==
    /\ pc[c] = "idle"
    /\ table = None
    /\ pc' = [pc EXCEPT ![c] = "missed"]
    /\ UNCHANGED <<table, cb, ref, streak, probes>>

(* The double check under the write lock also misses: a new breaker.       *)
GetCreate(c) ==
    /\ pc[c] = "missed"
    /\ table = None
    /\ \E o \in Objects \ Held :
          /\ table' = o
          /\ cb' = [cb EXCEPT ![o] = NewCircuitBreaker]
          /\ streak' = [streak EXCEPT ![o] = 0]
          /\ probes' = [probes EXCEPT ![o] = 0]
          /\ ref' = [ref EXCEPT ![c] = o]
    /\ pc' = [pc EXCEPT ![c] = "allow"]

AllowYes(c) ==
    /\ pc[c] = "allow"
    /\ Allows(cb[ref[c]])
    /\ cb' = [cb EXCEPT ![ref[c]] = AfterAllow(@)]
    /\ probes' = IF cb[ref[c]].state = "open"
                 THEN [probes EXCEPT ![ref[c]] = 0] ELSE probes
    /\ pc' = [pc EXCEPT ![c] = "running"]
    /\ UNCHANGED <<table, ref, streak>>

(* A mutation: a rejected call counts as a failure just now.               *)
RejectionRefreshes(c) ==
    /\ pc[c] = "allow"
    /\ ~Allows(cb[ref[c]])
    /\ cb' = [cb EXCEPT ![ref[c]].since = 0]
    /\ pc' = [pc EXCEPT ![c] = "idle"]
    /\ ref' = [ref EXCEPT ![c] = None]
    /\ UNCHANGED <<table, streak, probes>>

(* ErrCircuitOpen *)
AllowNo(c) ==
    /\ pc[c] = "allow"
    /\ ~Allows(cb[ref[c]])
    /\ pc' = [pc EXCEPT ![c] = "idle"]
    /\ ref' = [ref EXCEPT ![c] = None]
    /\ UNCHANGED <<table, cb, streak, probes>>

RecordSuccess(c) ==
    /\ pc[c] = "running"
    /\ cb' = [cb EXCEPT ![ref[c]] = AfterSuccess(@)]
    /\ streak' = [streak EXCEPT ![ref[c]] = 0]
    /\ probes' = [probes EXCEPT ![ref[c]] = IF @ < SuccessThreshold THEN @ + 1 ELSE @]
    /\ pc' = [pc EXCEPT ![c] = "idle"]
    /\ ref' = [ref EXCEPT ![c] = None]
    /\ UNCHANGED table

RecordFailure(c) ==
    /\ pc[c] = "running"
    /\ cb' = [cb EXCEPT ![ref[c]] = AfterFailure(@)]
    /\ streak' = [streak EXCEPT ![ref[c]] = Saturate(@)]
    /\ probes' = [probes EXCEPT ![ref[c]] = 0]
    /\ pc' = [pc EXCEPT ![c] = "idle"]
    /\ ref' = [ref EXCEPT ![c] = None]
    /\ UNCHANGED table

Reset ==
    /\ table # None
    /\ cb' = [cb EXCEPT ![table] = transitionTo(@, "closed")]
    /\ streak' = [streak EXCEPT ![table] = 0]
    /\ UNCHANGED <<table, pc, ref, probes>>

Remove ==
    /\ table # None
    /\ table' = None
    /\ UNCHANGED <<cb, pc, ref, streak, probes>>

Tick ==
    /\ \E o \in Objects : cb[o].since <= Timeout
    /\ cb' = [o \in Objects |-> [cb[o] EXCEPT !.since = Older(@)]]
    /\ UNCHANGED <<table, pc, ref, streak, probes>>

Execute(c) ==
    \/ GetHit(c) \/ GetMiss(c) \/ GetCreate(c)
    \/ AllowYes(c) \/ AllowNo(c)
    \/ RecordSuccess(c) \/ RecordFailure(c)

Next == (\E c \in Callers : Execute(c)) \/ Reset \/ Remove \/ Tick

Spec == Init /\ [][Next]_vars

(* The clock runs, protected functions return (the HTTP clients they wrap  *)
(* have timeouts), and callers keep coming.                                *)
FairSpec == Spec /\ WF_vars(Tick) /\ \A c \in Callers : WF_vars(Execute(c))
-----------------------------------------------------------------------------
TypeOK ==
    /\ table \in Objects \cup {None}
    /\ cb \in [Objects -> Breaker]
    /\ pc \in [Callers -> {"idle", "missed", "allow", "running"}]
    /\ ref \in [Callers -> Objects \cup {None}]
    /\ streak \in [Objects -> 0 .. FailureThreshold]
    /\ probes \in [Objects -> 0 .. SuccessThreshold]

(* A caller holds a breaker exactly while it is inside Allow or the call.  *)
RefsHeld == \A c \in Callers : (pc[c] \in {"allow", "running"}) <=> (ref[c] \in Objects)

(* What the counters mean in each state, whatever the callers in flight    *)
(* were admitted in: a closed breaker counts the current run of failures   *)
(* and has not reached the threshold, a half-open one counts exactly the   *)
(* successes since it went half-open, and a breaker that is not closed has *)
(* reached the failure threshold (circuit_breaker.go:96-132, 167-177).     *)
(* Every recorded failure counts, however close to the one before:         *)
(* Interval, the "Minimum interval between failure counts" of line 35, is  *)
(* set and never read.                                                     *)
CountersMatchHistory ==
    \A o \in Objects :
        /\ cb[o].state = "closed" =>
              /\ cb[o].failures = streak[o] /\ streak[o] < FailureThreshold
              /\ cb[o].successes = 0
        /\ cb[o].state = "half-open" =>
              cb[o].successes = probes[o] /\ probes[o] < SuccessThreshold
        /\ cb[o].state # "closed" => cb[o].failures = FailureThreshold

(* The breaker trips out of the closed state only on FailureThreshold      *)
(* failures recorded with no success between them.                         *)
TripsOnlyOnStreak ==
    [][\A o \in Objects : cb[o].state = "closed" /\ cb'[o].state = "open"
            => streak'[o] = FailureThreshold]_vars

(* Apart from Reset and reallocation, a breaker closes only from half-open *)
(* and only after SuccessThreshold successes recorded since it went        *)
(* half-open, never on successes left over from an earlier probe period.   *)
ClosesOnlyAfterProbes ==
    [][\A o \in Objects : cb[o].state # "closed" /\ cb'[o].state = "closed"
            => \/ cb[o].state = "half-open" /\ probes'[o] = SuccessThreshold
               \/ Reset \/ o \notin Held \cup {table}]_vars

(* An open circuit does not stay open for ever: calls admitted before it   *)
(* opened may still push lastFailure forward, but only finitely many, so a *)
(* later Allow finds the timeout elapsed (circuit_breaker.go:81-87, 119).  *)
OpenIsTemporary ==
    \A o \in Objects :
        (table = o /\ cb[o].state = "open") ~> (table # o \/ cb[o].state # "open")
=============================================================================

--------------------------- MODULE RegistryTiming ---------------------------
(***************************************************************************)
(* The registry with its clocks: agents that have registered and stay up,  *)
(* with a ticker that fires every Interval ticks (cmd/agent/main.go:118,   *)
(* 3 s), and a hive that stays up.  A tick is a second.                    *)
(*                                                                         *)
(* Neither the questions an agent asks before a heartbeat (getOllamaModels *)
(* and others) nor its posts have a timeout, so that time passes without   *)
(* bound in each of them, and any number of exchanges may be lost.  The    *)
(* ticker keeps one tick while the agent is busy.  A failed heartbeat and  *)
(* the registration that follows are one exchange.                         *)
(***************************************************************************)
EXTENDS NodeRegistry

CONSTANT Interval   \* the agent's ticker

ASSUME IntervalAssumption == Interval \in 1 .. HeartbeatTimeout

VARIABLES
    phase,      \* ticks since the ticker last fired
    due,        \* there is a tick in its channel
    stage,      \* "waiting" for a tick, "gathering" figures, or "exchange"
    delay,      \* ghost: since the node was last heard, the ticks its agent
                \* was busy, and Interval for every lost exchange
    late        \* ghost: delay has used up the timeout since the node
                \* last registered

clockVars == <<phase, due, stage>>
timedVars == <<vars, clockVars, delay, late>>

Later(d, k) == IF d + k < HeartbeatTimeout THEN d + k ELSE HeartbeatTimeout
Overdrawn(d) == d + Interval >= HeartbeatTimeout

(* Every agent's first registration has gone through some ticks ago.       *)
TimedInit ==
    /\ hive = "up"
    /\ phase \in [Nodes -> 0 .. Interval - 1]
    /\ nodes = [n \in Nodes |-> [status |-> "online", age |-> phase[n]]]
    /\ hb = [n \in Nodes |-> "none"]
    /\ sweep = {} /\ sweeping = FALSE /\ condemned = None
    /\ agent = [n \in Nodes |-> "loop"]
    /\ tries = [n \in Nodes |-> 0]
    /\ due = [n \in Nodes |-> FALSE]
    /\ stage = [n \in Nodes |-> "waiting"]
    /\ delay = [n \in Nodes |-> 0]
    /\ late = [n \in Nodes |-> Overdrawn(0)]

TimedFire(n) ==
    /\ stage[n] = "waiting" /\ due[n]
    /\ due' = [due EXCEPT ![n] = FALSE]
    /\ stage' = [stage EXCEPT ![n] = "gathering"]
    /\ UNCHANGED <<vars, phase, delay, late>>

(* The heartbeat is sent, or cannot be.                                    *)
TimedBeat(n) ==
    /\ stage[n] = "gathering"
    /\ Beat(n) \/ BeatFails(n)
    /\ stage' = [stage EXCEPT ![n] = "exchange"]
    /\ UNCHANGED <<phase, due, delay, late>>

TimedAnswer(n) ==
    /\ Handle(n)
    /\ delay' = IF hb[n] = "found" THEN [delay EXCEPT ![n] = 0] ELSE delay
    /\ UNCHANGED <<clockVars, late>>

(* The post fails while the hive is still handling the heartbeat.          *)
TimedGiveUp(n) ==
    /\ agent[n] = "beating" /\ BeatFails(n)
    /\ UNCHANGED <<clockVars, delay, late>>

TimedReregister(n) ==
    /\ \/ /\ Reregister(n)
          /\ delay' = [delay EXCEPT ![n] = 0]
          /\ late' = [late EXCEPT ![n] = Overdrawn(0)]
       \/ /\ ReregisterFails(n)
          /\ delay' = [delay EXCEPT ![n] = Later(@, Interval)]
          /\ late' = [late EXCEPT ![n] = @ \/ Overdrawn(Later(delay[n], Interval))]
    /\ UNCHANGED clockVars

(* The answer, or the failure, reaches the agent.                          *)
TimedReturn(n) ==
    /\ stage[n] = "exchange" /\ agent[n] = "loop"
    /\ stage' = [stage EXCEPT ![n] = "waiting"]
    /\ UNCHANGED <<vars, phase, due, delay, late>>

TimedSweep == CheckStale /\ UNCHANGED <<clockVars, delay, late>>

(* Time passes anywhere but in an agent that has a tick to take.           *)
TimedTick ==
    /\ \A n \in Nodes : ~(stage[n] = "waiting" /\ due[n])
    /\ nodes' = Aged
    /\ phase' = [n \in Nodes |-> IF phase[n] + 1 < Interval THEN phase[n] + 1 ELSE 0]
    /\ due' = [n \in Nodes |-> due[n] \/ phase[n] + 1 = Interval]
    /\ delay' = [n \in Nodes |->
          IF stage[n] = "waiting" THEN delay[n] ELSE Later(delay[n], 1)]
    /\ late' = [n \in Nodes |-> late[n] \/ Overdrawn(delay'[n])]
    /\ UNCHANGED <<hive, hb, sweep, sweeping, condemned, agentVars, stage>>

TimedNext ==
    \/ \E n \in Nodes : TimedFire(n) \/ TimedBeat(n) \/ TimedAnswer(n) \/ TimedGiveUp(n)
                        \/ TimedReregister(n) \/ TimedReturn(n)
    \/ TimedSweep \/ TimedTick

TimedSpec == TimedInit /\ [][TimedNext]_timedVars
-----------------------------------------------------------------------------
(* A live node leaves the rotation only when the exchanges that were lost  *)
(* in a row, at Interval each, and the time its agent spent in exchanges   *)
(* leave less than one Interval of the timeout: neither IsHealthy nor      *)
(* CheckStale lets go of it sooner, however sweeps, late handlers and      *)
(* registrations interleave.  With 3 s and 10 s, two prompt losses in a    *)
(* row are survived, and so are 6 s of waiting without a loss.  Once out,  *)
(* it may stay out until it registers again (node.go:94-98,                *)
(* manager.go:107-123, config.go:28, cmd/agent/main.go:118-134).           *)
StaysInRotation == \A n \in Nodes : ~late[n] => IsHealthy(n)
=============================================================================

---------------------------- MODULE NodeRegistry ----------------------------
(***************************************************************************)
(* internal/cluster/manager.go (the hive's table of nodes, its HTTP        *)
(* handlers and the CheckStale loop) and cmd/agent/main.go (the agent on   *)
(* each node that registers and sends heartbeats), over a network that     *)
(* loses requests and answers, with hive and agents crashing.              *)
(*                                                                         *)
(* A heartbeat handler looks its node up under m.mu and updates it later   *)
(* under node.mu only: by then the entry may be gone, or replaced by a new *)
(* object, and the pointer it holds is detached.  CheckStale holds m.mu    *)
(* for its whole pass but not node.mu, so a heartbeat can be applied       *)
(* between its test and its write.  LastHeartbeat is an age, counted up to *)
(* HeartbeatTimeout + 1.  Load and model lists are payload: no guard of    *)
(* the registry reads them.  At most one heartbeat per node is in a        *)
(* handler at a time.                                                      *)
(***************************************************************************)
EXTENDS HiveNodes, Integers

CONSTANTS
    HeartbeatTimeout,   \* in clock ticks
    MaxTries            \* registration attempts of a starting agent (5)

ASSUME TimeoutAssumption == HeartbeatTimeout \in Nat \ {0} /\ MaxTries \in Nat \ {0}

VARIABLES
    hive,       \* "up" or "down"
    nodes,      \* Manager.nodes: an entry per node, or Absent
    hb,         \* the heartbeat handler of each node
    sweep,      \* entries CheckStale has yet to visit
    sweeping,   \* CheckStale holds m.mu
    condemned,  \* the entry CheckStale found stale and is about to mark
    agent,      \* where each agent is
    tries       \* registrations a starting agent has tried

hiveVars == <<hive, nodes, hb, sweep, sweeping, condemned>>
agentVars == <<agent, tries>>
vars == <<hiveVars, agentVars>>

Absent == [status |-> "absent", age |-> 0]
Fresh == [status |-> "online", age |-> 0]
Ages == 0 .. HeartbeatTimeout + 1
Older(age) == IF age <= HeartbeatTimeout THEN age + 1 ELSE age

Registered(n) == nodes[n] # Absent

(* IsHealthy; GetHealthyNodes returns these.                               *)
IsHealthy(n) == nodes[n].status = "online" /\ nodes[n].age < HeartbeatTimeout

Init ==
    /\ hive = "up"
    /\ nodes = [n \in Nodes |-> Absent]
    /\ hb = [n \in Nodes |-> "none"]
    /\ sweep = {} /\ sweeping = FALSE /\ condemned = None
    /\ agent = [n \in Nodes |-> "boot"]
    /\ tries = [n \in Nodes |-> 0]

-----------------------------------------------------------------------------
(* The hive.  m.mu can be taken unless CheckStale holds it.                *)
Serving == hive = "up" /\ ~sweeping

(* A mutation: an existing entry keeps its LastHeartbeat.                  *)
RegisterKeepsAge(n) ==
    /\ Serving
    /\ nodes' = [nodes EXCEPT ![n] = [Fresh EXCEPT !.age = nodes[n].age]]
    /\ UNCHANGED <<hive, hb, sweep, sweeping, condemned>>

(* RegisterNode: an existing entry is kept and refreshed, so a handler     *)
(* that holds it still does; a new one is another object.                  *)
RegisterNode(n) ==
    /\ Serving
    /\ nodes' = [nodes EXCEPT ![n] = Fresh]
    /\ UNCHANGED <<hive, hb, sweep, sweeping, condemned>>

(* A mutation: the entry is deleted without m.mu.                          *)
DeregisterUnlocked(n) ==
    /\ hive = "up"
    /\ Registered(n)
    /\ nodes' = [nodes EXCEPT ![n] = Absent]
    /\ hb' = [hb EXCEPT ![n] = IF @ = "found" THEN "detached" ELSE @]
    /\ UNCHANGED <<hive, sweep, sweeping, condemned, agentVars>>

DeregisterNode(n) ==
    /\ Serving
    /\ Registered(n)
    /\ nodes' = [nodes EXCEPT ![n] = Absent]
    /\ hb' = [hb EXCEPT ![n] = IF @ = "found" THEN "detached" ELSE @]
    /\ UNCHANGED <<hive, sweep, sweeping, condemned, agentVars>>

(* HandleHeartbeat: an unknown node is answered "ok" like any other.       *)
HeartbeatLookup(n) ==
    /\ Serving
    /\ hb[n] = "arrived"
    /\ hb' = [hb EXCEPT ![n] = IF Registered(n) THEN "found" ELSE "unknown"]
    /\ UNCHANGED <<hive, nodes, sweep, sweeping, condemned, agentVars>>

(* A mutation: a heartbeat puts its node back online.                      *)
HeartbeatRevives(n) ==
    /\ hive = "up"
    /\ hb[n] \in {"found", "detached", "unknown"}
    /\ nodes' = IF hb[n] # "unknown" THEN [nodes EXCEPT ![n] = Fresh] ELSE nodes
    /\ hb' = [hb EXCEPT ![n] = "none"]
    /\ \E seen \in {"loop", "failed"} :
          agent' = [agent EXCEPT ![n] = IF @ = "beating" THEN seen ELSE @]
    /\ UNCHANGED <<hive, sweep, sweeping, condemned, tries>>

(* UpdateLoad does not touch Status.  The answer reaches the agent, unless *)
(* it has given up or crashed by now, or the answer is lost.               *)
HeartbeatApply(n) ==
    /\ hive = "up"
    /\ hb[n] \in {"found", "detached", "unknown"}
    /\ nodes' = IF hb[n] = "found" THEN [nodes EXCEPT ![n].age = 0] ELSE nodes
    /\ hb' = [hb EXCEPT ![n] = "none"]
    /\ \E seen \in {"loop", "failed"} :
          agent' = [agent EXCEPT ![n] = IF @ = "beating" THEN seen ELSE @]
    /\ UNCHANGED <<hive, sweep, sweeping, condemned, tries>>

(* CheckStale: one pass over the table.                                    *)
SweepStart ==
    /\ Serving
    /\ sweeping' = TRUE
    /\ sweep' = {n \in Nodes : Registered(n)}
    /\ UNCHANGED <<hive, nodes, hb, condemned, agentVars>>

Stale(n) == nodes[n].status = "online" /\ nodes[n].age > HeartbeatTimeout

SweepTest(n) ==
    /\ n \in sweep /\ condemned = None
    /\ sweep' = sweep \ {n}
    /\ condemned' = IF Stale(n) THEN n ELSE None
    /\ UNCHANGED <<hive, nodes, hb, sweeping, agentVars>>

(* A mutation: the stale node is logged and not marked.                    *)
SweepOnlyLogs ==
    /\ condemned # None
    /\ condemned' = None
    /\ UNCHANGED <<hive, nodes, hb, sweep, sweeping, agentVars>>

SweepMark ==
    /\ condemned # None
    /\ nodes' = [nodes EXCEPT ![condemned].status = "offline"]
    /\ condemned' = None
    /\ UNCHANGED <<hive, hb, sweep, sweeping, agentVars>>

SweepEnd ==
    /\ sweeping /\ sweep = {} /\ condemned = None
    /\ sweeping' = FALSE
    /\ UNCHANGED <<hive, nodes, hb, sweep, condemned, agentVars>>

(* The table is only in memory.                                            *)
HiveCrash ==
    /\ hive = "up"
    /\ hive' = "down"
    /\ nodes' = [n \in Nodes |-> Absent]
    /\ hb' = [n \in Nodes |-> "none"]
    /\ sweep' = {} /\ sweeping' = FALSE /\ condemned' = None
    /\ UNCHANGED agentVars

HiveStart ==
    /\ hive = "down"
    /\ hive' = "up"
    /\ UNCHANGED <<nodes, hb, sweep, sweeping, condemned, agentVars>>

-----------------------------------------------------------------------------
(* The agent.  Starting, it registers until an answer arrives, MaxTries    *)
(* times at most, and goes on to its loop in any case.                     *)
Retry(n) ==
    /\ tries' = [tries EXCEPT ![n] = IF @ + 1 < MaxTries THEN @ + 1 ELSE 0]
    /\ agent' = [agent EXCEPT ![n] = IF tries[n] + 1 < MaxTries THEN "boot" ELSE "loop"]

BootRegister(n) ==
    /\ agent[n] = "boot"
    /\ RegisterNode(n)
    /\ \/ agent' = [agent EXCEPT ![n] = "loop"] /\ tries' = [tries EXCEPT ![n] = 0]
       \/ Retry(n)      \* the answer is lost

BootFails(n) ==
    /\ agent[n] = "boot"
    /\ Retry(n)
    /\ UNCHANGED hiveVars

(* A tick of the agent: the heartbeat reaches the hive, or the post fails. *)
Beat(n) ==
    /\ agent[n] = "loop"
    /\ hive = "up" /\ hb[n] = "none"
    /\ agent' = [agent EXCEPT ![n] = "beating"]
    /\ hb' = [hb EXCEPT ![n] = "arrived"]
    /\ UNCHANGED <<hive, nodes, sweep, sweeping, condemned, tries>>

BeatFails(n) ==
    /\ agent[n] \in {"loop", "beating"}
    /\ agent' = [agent EXCEPT ![n] = "failed"]
    /\ UNCHANGED <<hiveVars, tries>>

(* After a failed heartbeat, one registration whose outcome is ignored.    *)
Reregister(n) ==
    /\ agent[n] = "failed"
    /\ RegisterNode(n)
    /\ agent' = [agent EXCEPT ![n] = "loop"]
    /\ UNCHANGED tries

ReregisterFails(n) ==
    /\ agent[n] = "failed"
    /\ agent' = [agent EXCEPT ![n] = "loop"]
    /\ UNCHANGED <<hiveVars, tries>>

AgentCrash(n) ==
    /\ agent[n] # "down"
    /\ agent' = [agent EXCEPT ![n] = "down"]
    /\ tries' = [tries EXCEPT ![n] = 0]
    /\ UNCHANGED hiveVars

AgentStart(n) ==
    /\ agent[n] = "down"
    /\ agent' = [agent EXCEPT ![n] = "boot"]
    /\ UNCHANGED <<hiveVars, tries>>

-----------------------------------------------------------------------------
Aged == [n \in Nodes |->
    IF Registered(n) THEN [nodes[n] EXCEPT !.age = Older(@)] ELSE Absent]

Tick ==
    /\ \E n \in Nodes : Registered(n) /\ nodes[n].age <= HeartbeatTimeout
    /\ nodes' = Aged
    /\ UNCHANGED <<hive, hb, sweep, sweeping, condemned, agentVars>>

Handle(n) == HeartbeatLookup(n) \/ HeartbeatApply(n)
CheckStale == SweepStart \/ (\E n \in Nodes : SweepTest(n)) \/ SweepMark \/ SweepEnd
AgentStep(n) ==
    \/ BootRegister(n) \/ BootFails(n) \/ Beat(n) \/ BeatFails(n)
    \/ Reregister(n) \/ ReregisterFails(n)

Next ==
    \/ \E n \in Nodes : AgentStep(n) \/ Handle(n) \/ DeregisterNode(n)
                        \/ AgentCrash(n) \/ AgentStart(n)
    \/ CheckStale \/ HiveCrash \/ HiveStart \/ Tick

Spec == Init /\ [][Next]_vars

(* The clock runs and CheckStale is scheduled.  A handler gets m.mu in the *)
(* end though CheckStale keeps taking it: Go's RWMutex starves nobody.     *)
(* Agents may stop at any point.                                           *)
FairSpec ==
    /\ Spec
    /\ WF_vars(Tick) /\ WF_vars(CheckStale)
    /\ \A n \in Nodes : SF_vars(Handle(n))
-----------------------------------------------------------------------------
TypeOK ==
    /\ hive \in {"up", "down"}
    /\ nodes \in [Nodes -> [status : {"absent", "online", "offline"}, age : Ages]]
    /\ hb \in [Nodes -> {"none", "arrived", "found", "detached", "unknown"}]
    /\ sweep \subseteq Nodes /\ sweeping \in BOOLEAN /\ condemned \in Nodes \cup {None}
    /\ agent \in [Nodes -> {"boot", "loop", "beating", "failed", "down"}]
    /\ tries \in [Nodes -> 0 .. MaxTries - 1]

(* What CheckStale works on stays valid for the whole pass: everything it  *)
(* has yet to visit or is about to mark is still in the table, and a       *)
(* pointer a handler believes current is (manager.go:107-123, 54-61).  And *)
(* the state has its types.                                                *)
PointersValid ==
    /\ TypeOK
    /\ \A n \in sweep \cup ({condemned} \ {None}) : Registered(n)
    /\ \A n \in Nodes : hb[n] = "found" => Registered(n)

(* A node comes into the rotation (IsHealthy) by registering, or by a      *)
(* heartbeat while its entry, though over age, is still marked online.  No *)
(* heartbeat, however late, brings back a node that was deregistered or    *)
(* marked offline, or one a restarted hive does not know, and no pass of   *)
(* CheckStale brings back anything (manager.go:51-65, 107-123).            *)
OnlyNewsRevives ==
    [][\A n \in Nodes : ~IsHealthy(n) /\ IsHealthy(n)' =>
          \/ agent[n] \in {"boot", "failed"} /\ nodes'[n] = Fresh
          \/ nodes[n].status = "online" /\ hb[n] = "found" /\ nodes'[n] = Fresh]_vars

(* An agent that is gone for good leaves the rotation for good, and its    *)
(* entry does not stay online: not for a heartbeat still in a handler, nor *)
(* for a pass of CheckStale that just missed it (manager.go:107-123).      *)
SilentNodesLeave ==
    \A n \in Nodes : <>[](agent[n] = "down") => <>[](nodes[n].status # "online")
=============================================================================

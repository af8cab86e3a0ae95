------------------------- MODULE NodeRegistryProofs -------------------------
(***************************************************************************)
(* The hive's table of nodes, for any number of agents, any timeout and    *)
(* any number of registration tries: what CheckStale and the heartbeat     *)
(* handlers hold on to is valid, and only news of its own revives a node.  *)
(* With the agents' clocks: how many lost exchanges and how much waiting a *)
(* live node survives.  Last, the balancer that selects among the nodes,   *)
(* for any slots and scores.                                               *)
(***************************************************************************)
EXTENDS RegistryTiming, Balancer, FiniteSetTheorems, TLAPS

Entries == [status : {"absent", "online", "offline"}, age : Ages]

(* An entry is absent as a whole, and CheckStale works on entries only     *)
(* while it holds m.mu, in a hive that is up.                              *)
TableInv ==
    /\ PointersValid
    /\ \A n \in Nodes : nodes[n].status = "absent" => nodes[n] = Absent
    /\ sweeping \/ (sweep = {} /\ condemned = None)
    /\ hive = "down" => ~sweeping

LEMMA EntryTypes ==
    /\ Absent \in Entries /\ Fresh \in Entries /\ Fresh # Absent
    /\ Fresh.status = "online" /\ Fresh.age = 0 /\ Absent.status = "absent"
    /\ \A e \in Entries :
          /\ [e EXCEPT !.age = 0] \in Entries /\ [e EXCEPT !.age = 0].status = e.status
          /\ [e EXCEPT !.status = "offline"] \in Entries
          /\ [e EXCEPT !.status = "offline"].status = "offline"
          /\ [e EXCEPT !.age = Older(e.age)] \in Entries
          /\ [e EXCEPT !.age = Older(e.age)].status = e.status
  <1> USE TimeoutAssumption
  <1>1. Absent \in Entries /\ Fresh \in Entries /\ Fresh # Absent
        /\ Fresh.status = "online" /\ Fresh.age = 0 /\ Absent.status = "absent"
    BY DEF Absent, Fresh, Entries, Ages
  <1>2. ASSUME NEW e \in Entries
        PROVE  /\ [e EXCEPT !.age = 0] \in Entries /\ [e EXCEPT !.age = 0].status = e.status
               /\ [e EXCEPT !.status = "offline"] \in Entries
               /\ [e EXCEPT !.status = "offline"].status = "offline"
               /\ [e EXCEPT !.age = Older(e.age)] \in Entries
               /\ [e EXCEPT !.age = Older(e.age)].status = e.status
    <2>1. 0 \in Ages /\ Older(e.age) \in Ages
      BY DEF Older, Ages, Entries
    <2>2. \A a \in Ages : [e EXCEPT !.age = a] \in Entries /\ [e EXCEPT !.age = a].status = e.status
      BY DEF Entries
    <2>3. [e EXCEPT !.status = "offline"] \in Entries
          /\ [e EXCEPT !.status = "offline"].status = "offline"
      BY DEF Entries
    <2> QED BY <2>1, <2>2, <2>3
  <1> QED BY <1>1, <1>2

LEMMA TableInvInit == Init => TableInv
  <1> SUFFICES ASSUME Init PROVE TableInv
    OBVIOUS
  <1>1. nodes \in [Nodes -> Entries] /\ tries \in [Nodes -> 0 .. MaxTries - 1]
    BY TimeoutAssumption, EntryTypes DEF Init
  <1>2. TypeOK
    BY <1>1 DEF Init, TypeOK, Entries
  <1>3. PointersValid
    BY <1>2 DEF Init, PointersValid
  <1> QED BY <1>3 DEF Init, TableInv

(* What every step of an agent does to its own variables.                  *)
LEMMA RetryTypes ==
    ASSUME TypeOK, NEW n \in Nodes, Retry(n)
    PROVE  /\ tries' \in [Nodes -> 0 .. MaxTries - 1]
           /\ agent' \in [Nodes -> {"boot", "loop", "beating", "failed", "down"}]
  <1>1. tries[n] \in 0 .. MaxTries - 1
    BY DEF TypeOK
  <1>2. (IF tries[n] + 1 < MaxTries THEN tries[n] + 1 ELSE 0) \in 0 .. MaxTries - 1
    BY <1>1, TimeoutAssumption
  <1>3. tries' = [tries EXCEPT ![n] = IF tries[n] + 1 < MaxTries THEN tries[n] + 1 ELSE 0]
    BY DEF Retry
  <1> QED BY <1>2, <1>3 DEF Retry, TypeOK

(* A registration puts a fresh entry into the table.                       *)
LEMMA RegisterKeeps ==
    ASSUME TableInv, NEW n \in Nodes, RegisterNode(n),
           tries' \in [Nodes -> 0 .. MaxTries - 1],
           agent' \in [Nodes -> {"boot", "loop", "beating", "failed", "down"}]
    PROVE  TableInv'
  <1>1. /\ nodes' = [nodes EXCEPT ![n] = Fresh] /\ ~sweeping /\ sweep = {} /\ condemned = None
        /\ UNCHANGED <<hive, hb, sweep, sweeping, condemned>>
    BY DEF TableInv, RegisterNode, Serving
  <1>2. /\ nodes' \in [Nodes -> Entries]
        /\ nodes'[n] = Fresh /\ \A x \in Nodes \ {n} : nodes'[x] = nodes[x]
    BY <1>1, EntryTypes DEF TableInv, PointersValid, TypeOK, Entries
  <1>3. TypeOK'
    BY <1>1, <1>2 DEF TableInv, PointersValid, TypeOK, Entries
  <1>4. PointersValid'
    BY <1>1, <1>2, <1>3, EntryTypes DEF TableInv, PointersValid, Registered
  <1> QED BY <1>1, <1>2, <1>4, EntryTypes DEF TableInv

LEMMA TableInvNext == TableInv /\ [Next]_vars => TableInv'
  <1> SUFFICES ASSUME TableInv, [Next]_vars PROVE TableInv'
    OBVIOUS
  <1>0. /\ TypeOK /\ PointersValid /\ nodes \in [Nodes -> Entries]
        /\ \A n \in Nodes : nodes[n].status = "absent" => nodes[n] = Absent
    BY DEF TableInv, PointersValid, TypeOK, Entries
  <1>1. ASSUME NEW n \in Nodes, BootRegister(n) PROVE TableInv'
    <2>1. /\ tries' \in [Nodes -> 0 .. MaxTries - 1]
          /\ agent' \in [Nodes -> {"boot", "loop", "beating", "failed", "down"}]
      <3>1. CASE Retry(n)
        BY <1>0, <3>1, RetryTypes
      <3>2. CASE agent' = [agent EXCEPT ![n] = "loop"] /\ tries' = [tries EXCEPT ![n] = 0]
        BY <1>0, <3>2, TimeoutAssumption DEF TypeOK
      <3> QED BY <1>1, <3>1, <3>2 DEF BootRegister
    <2> QED BY <1>1, <2>1, RegisterKeeps DEF BootRegister
  <1>2. ASSUME NEW n \in Nodes, Reregister(n) PROVE TableInv'
    <2>1. /\ tries' \in [Nodes -> 0 .. MaxTries - 1]
          /\ agent' \in [Nodes -> {"boot", "loop", "beating", "failed", "down"}]
      BY <1>0, <1>2 DEF Reregister, TypeOK
    <2> QED BY <1>2, <2>1, RegisterKeeps DEF Reregister
  <1>3. ASSUME UNCHANGED hiveVars,
               tries' \in [Nodes -> 0 .. MaxTries - 1],
               agent' \in [Nodes -> {"boot", "loop", "beating", "failed", "down"}]
        PROVE  TableInv'
    BY <1>3 DEF hiveVars, TableInv, PointersValid, TypeOK, Registered
  <1>4. ASSUME NEW n \in Nodes,
               \/ BootFails(n) \/ BeatFails(n) \/ ReregisterFails(n)
               \/ AgentCrash(n) \/ AgentStart(n)
        PROVE  TableInv'
    <2>1. /\ tries' \in [Nodes -> 0 .. MaxTries - 1]
          /\ agent' \in [Nodes -> {"boot", "loop", "beating", "failed", "down"}]
      BY <1>0, <1>4, RetryTypes, TimeoutAssumption
         DEF BootFails, BeatFails, ReregisterFails, AgentCrash, AgentStart, TypeOK
    <2>2. UNCHANGED hiveVars
      BY <1>4 DEF BootFails, BeatFails, ReregisterFails, AgentCrash, AgentStart
    <2> QED BY <1>3, <2>1, <2>2
  <1>5. ASSUME NEW n \in Nodes, Beat(n) PROVE TableInv'
    BY <1>5 DEF Beat, TableInv, PointersValid, TypeOK, Registered
  <1>6. ASSUME NEW n \in Nodes, DeregisterNode(n) PROVE TableInv'
    <2>1. /\ nodes' = [nodes EXCEPT ![n] = Absent]
          /\ hb' = [hb EXCEPT ![n] = IF @ = "found" THEN "detached" ELSE @]
          /\ UNCHANGED <<hive, sweep, sweeping, condemned, agentVars>>
          /\ ~sweeping /\ sweep = {} /\ condemned = None
      BY <1>6 DEF DeregisterNode, Serving, TableInv
    <2>2. /\ nodes' \in [Nodes -> Entries] /\ nodes'[n] = Absent
          /\ \A x \in Nodes \ {n} : nodes'[x] = nodes[x] /\ hb'[x] = hb[x]
          /\ hb'[n] # "found"
          /\ hb' \in [Nodes -> {"none", "arrived", "found", "detached", "unknown"}]
      BY <1>0, <2>1, EntryTypes DEF TypeOK
    <2> QED BY <1>0, <2>1, <2>2 DEF TableInv, PointersValid, TypeOK, Registered, Entries, agentVars
  <1>7. ASSUME NEW n \in Nodes, HeartbeatLookup(n) PROVE TableInv'
    BY <1>0, <1>7 DEF HeartbeatLookup, TableInv, PointersValid, TypeOK, Registered, agentVars
  <1>8. ASSUME NEW n \in Nodes, HeartbeatApply(n) PROVE TableInv'
    <2>1. /\ nodes' = IF hb[n] = "found" THEN [nodes EXCEPT ![n].age = 0] ELSE nodes
          /\ hb' = [hb EXCEPT ![n] = "none"]
          /\ UNCHANGED <<hive, sweep, sweeping, condemned, tries>>
          /\ agent' \in [Nodes -> {"boot", "loop", "beating", "failed", "down"}]
      BY <1>0, <1>8 DEF HeartbeatApply, TypeOK
    <2>2. /\ nodes' \in [Nodes -> Entries]
          /\ \A x \in Nodes : /\ nodes'[x].status = nodes[x].status
                              /\ x # n => nodes'[x] = nodes[x]
      BY <1>0, <2>1, EntryTypes
    <2>3. hb[n] = "found" => nodes[n].status # "absent"
      BY <1>0 DEF PointersValid, Registered
    <2>4. \A x \in Nodes : /\ Registered(x) <=> nodes[x].status # "absent"
                           /\ Registered(x)' <=> Registered(x)
                           /\ nodes'[x].status = "absent" => nodes'[x] = Absent
      BY <1>0, <2>1, <2>2, <2>3, EntryTypes DEF Registered
    <2>5. TypeOK'
      BY <1>0, <2>1, <2>2 DEF TypeOK, Entries
    <2>6. \A x \in Nodes : hb'[x] = "found" => hb[x] = "found"
      BY <1>0, <2>1 DEF TypeOK
    <2>7. PointersValid'
      BY <1>0, <2>1, <2>4, <2>5, <2>6 DEF PointersValid, TypeOK
    <2> QED BY <2>1, <2>4, <2>7 DEF TableInv
  <1>9. CASE SweepStart
    BY <1>0, <1>9 DEF SweepStart, Serving, TableInv, PointersValid, TypeOK, Registered, agentVars
  <1>10. ASSUME NEW n \in Nodes, SweepTest(n) PROVE TableInv'
    BY <1>0, <1>10 DEF SweepTest, TableInv, PointersValid, TypeOK, Registered, agentVars
  <1>11. CASE SweepMark
    <2>1. /\ condemned \in Nodes /\ Registered(condemned) /\ sweeping
          /\ nodes' = [nodes EXCEPT ![condemned].status = "offline"] /\ condemned' = None
          /\ UNCHANGED <<hive, hb, sweep, sweeping, agentVars>>
      BY <1>0, <1>11 DEF SweepMark, TypeOK, TableInv, PointersValid
    <2>2. /\ nodes' \in [Nodes -> Entries] /\ nodes'[condemned].status = "offline"
          /\ \A x \in Nodes \ {condemned} : nodes'[x] = nodes[x]
      BY <1>0, <2>1, EntryTypes
    <2>3. nodes'[condemned] # Absent
      BY <2>2, EntryTypes
    <2>4. TypeOK'
      BY <1>0, <2>1, <2>2 DEF TypeOK, Entries, agentVars
    <2>5. PointersValid'
      BY <1>0, <2>1, <2>2, <2>3, <2>4 DEF PointersValid, Registered, TypeOK
    <2> QED BY <1>0, <2>1, <2>2, <2>5 DEF TableInv
  <1>12. CASE SweepEnd
    BY <1>0, <1>12 DEF SweepEnd, TableInv, PointersValid, TypeOK, Registered, agentVars
  <1>13. CASE HiveCrash
    BY <1>0, <1>13, EntryTypes
       DEF HiveCrash, TableInv, PointersValid, TypeOK, Registered, agentVars, Entries
  <1>14. CASE HiveStart
    BY <1>0, <1>14 DEF HiveStart, TableInv, PointersValid, TypeOK, Registered, agentVars
  <1>15. CASE Tick
    <2>1. /\ nodes' = [n \in Nodes |->
                IF Registered(n) THEN [nodes[n] EXCEPT !.age = Older(nodes[n].age)] ELSE Absent]
          /\ UNCHANGED <<hive, hb, sweep, sweeping, condemned, agentVars>>
      BY <1>15 DEF Tick, Aged
    <2>2. \A x \in Nodes : /\ nodes'[x] \in Entries /\ nodes'[x].status = nodes[x].status
                           /\ ~Registered(x) => nodes'[x] = Absent
      BY <1>0, <2>1, EntryTypes DEF Registered
    <2>3. nodes' \in [Nodes -> Entries]
      BY <2>1, <2>2
    <2>4. \A x \in Nodes : /\ Registered(x)' <=> Registered(x)
                           /\ nodes'[x].status = "absent" => nodes'[x] = Absent
      BY <1>0, <2>2, EntryTypes DEF Registered
    <2>5. TypeOK'
      BY <1>0, <2>1, <2>3 DEF TypeOK, Entries, agentVars
    <2>6. PointersValid'
      BY <1>0, <2>1, <2>4, <2>5 DEF PointersValid, TypeOK
    <2> QED BY <2>1, <2>4, <2>6 DEF TableInv
  <1>16. CASE UNCHANGED vars
    BY <1>0, <1>16 DEF vars, hiveVars, agentVars, TableInv, PointersValid, TypeOK, Registered
  <1> QED
    BY <1>1, <1>2, <1>4, <1>5, <1>6, <1>7, <1>8, <1>9, <1>10, <1>11, <1>12, <1>13,
       <1>14, <1>15, <1>16 DEF Next, AgentStep, Handle, CheckStale

(* PointersValid (manager.go:107-123, 54-61), whatever crashes, restarts   *)
(* and lost messages come between a lookup and its use.                    *)
THEOREM PointersStayValid == Spec => []PointersValid
  <1>1. TableInv => PointersValid
    BY DEF TableInv
  <1> QED BY <1>1, TableInvInit, TableInvNext, PTL DEF Spec

-----------------------------------------------------------------------------
(* The steps that can bring a node into the rotation.                      *)
LEMMA RevivingSteps ==
    ASSUME TableInv, [Next]_vars, NEW n \in Nodes, ~IsHealthy(n), IsHealthy(n)'
    PROVE  \/ agent[n] \in {"boot", "failed"} /\ nodes'[n] = Fresh
           \/ nodes[n].status = "online" /\ hb[n] = "found" /\ nodes'[n] = Fresh
  <1> DEFINE Goal == \/ agent[n] \in {"boot", "failed"} /\ nodes'[n] = Fresh
                     \/ nodes[n].status = "online" /\ hb[n] = "found" /\ nodes'[n] = Fresh
  <1>0. /\ TypeOK /\ nodes \in [Nodes -> Entries]
    BY DEF TableInv, PointersValid, TypeOK, Entries
  <1>8. nodes'[n] # nodes[n] /\ nodes'[n].status = "online" /\ nodes'[n].age < HeartbeatTimeout
    BY DEF IsHealthy
  <1>1. ASSUME NEW m \in Nodes, BootRegister(m) \/ Reregister(m) PROVE Goal
    <2>1. agent[m] \in {"boot", "failed"} /\ nodes' = [nodes EXCEPT ![m] = Fresh]
      BY <1>1 DEF BootRegister, Reregister, RegisterNode
    <2> QED BY <1>0, <1>8, <2>1
  <1>2. ASSUME NEW m \in Nodes, DeregisterNode(m) PROVE FALSE
    BY <1>0, <1>2, <1>8, EntryTypes DEF DeregisterNode
  <1>3. ASSUME NEW m \in Nodes, HeartbeatApply(m) PROVE Goal
    <2>1. m = n /\ hb[n] = "found" /\ nodes'[n] = [nodes[n] EXCEPT !.age = 0]
      BY <1>0, <1>3, <1>8 DEF HeartbeatApply
    <2>2. nodes[n] \in Entries
      BY <1>0
    <2>3. nodes[n].status = "online"
      BY <1>8, <2>1, <2>2, EntryTypes
    <2>4. nodes'[n] = Fresh
      BY <2>1, <2>2, <2>3 DEF Entries, Fresh
    <2> QED BY <2>1, <2>3, <2>4
  <1>4. CASE SweepMark
    <2>1. nodes' = [nodes EXCEPT ![condemned].status = "offline"]
      BY <1>4 DEF SweepMark
    <2>2. FALSE
      BY <1>0, <1>8, <2>1, EntryTypes
    <2> QED BY <2>2
  <1>5. CASE HiveCrash
    BY <1>5, <1>8, EntryTypes DEF HiveCrash
  <1>6. CASE Tick
    <2>1. nodes'[n] = IF Registered(n) THEN [nodes[n] EXCEPT !.age = Older(nodes[n].age)]
                      ELSE Absent
      BY <1>6 DEF Tick, Aged
    <2>2. nodes[n] \in Entries
      BY <1>0
    <2>3. /\ nodes'[n] = [nodes[n] EXCEPT !.age = Older(nodes[n].age)]
          /\ nodes[n].status = "online" /\ nodes[n].age \in Ages
      BY <1>8, <2>1, <2>2, EntryTypes DEF Entries
    <2>4. nodes'[n].age = Older(nodes[n].age)
      BY <2>2, <2>3 DEF Entries
    <2>5. nodes[n].age < HeartbeatTimeout
      BY <1>8, <2>3, <2>4, TimeoutAssumption DEF Older, Ages
    <2> QED BY <2>3, <2>5 DEF IsHealthy
  <1>7. CASE UNCHANGED nodes
    BY <1>7, <1>8
  <1> QED
    BY <1>1, <1>2, <1>3, <1>4, <1>5, <1>6, <1>7
       DEF Next, AgentStep, Handle, CheckStale, vars, hiveVars, BootFails, Beat, BeatFails,
           ReregisterFails, AgentCrash, AgentStart, HeartbeatLookup, SweepStart, SweepTest,
           SweepEnd, HiveStart

(* OnlyNewsRevives (manager.go:51-65, 107-123): the rotation is entered by *)
(* a registration, or by a heartbeat while the entry is still online; one  *)
(* marked offline is brought back by no heartbeat.                         *)
THEOREM RevivedByNews == Spec => OnlyNewsRevives
  <1>1. TableInv /\ [Next]_vars =>
           [\A n \in Nodes : ~IsHealthy(n) /\ IsHealthy(n)' =>
               \/ agent[n] \in {"boot", "failed"} /\ nodes'[n] = Fresh
               \/ nodes[n].status = "online" /\ hb[n] = "found" /\ nodes'[n] = Fresh]_vars
    BY RevivingSteps
  <1> QED BY <1>1, TableInvInit, TableInvNext, PTL DEF Spec, OnlyNewsRevives
-----------------------------------------------------------------------------
(* With clocks.  How much older than delay the entry of a live node can    *)
(* be: an agent that waits does so since its ticker fired at the longest,  *)
(* and one that is busy has waited one interval before.                    *)
Waited(a, p, d, g) ==
    IF g = "waiting" THEN (IF d THEN Interval ELSE p)
    ELSE IF g = "exchange" /\ a = "loop" THEN 0 ELSE Interval

(* One node: its entry e, its agent a, the ticker's phase p and channel d, *)
(* its stage g, and the ghosts delay and late.                             *)
NodeOK(e, a, p, d, g, k, l) ==
    /\ e \in Entries /\ a \in {"loop", "beating", "failed"}
    /\ p \in 0 .. Interval - 1 /\ d \in BOOLEAN /\ g \in {"waiting", "gathering", "exchange"}
    /\ k \in 0 .. HeartbeatTimeout /\ l \in BOOLEAN
    /\ e.status # "absent"
    /\ g # "exchange" => a = "loop"
    /\ ~l => /\ e.status = "online" /\ k + Interval < HeartbeatTimeout
             /\ e.age <= k + Waited(a, p, d, g)

(* CheckStale condemns only nodes that are late.                           *)
TimedInv ==
    /\ hive = "up"
    /\ sweeping \/ (sweep = {} /\ condemned = None)
    /\ condemned \in Nodes \cup {None} /\ (condemned # None => late[condemned])
    /\ nodes \in [Nodes -> Entries] /\ agent \in [Nodes -> {"loop", "beating", "failed"}]
    /\ hb \in [Nodes -> {"none", "arrived", "found"}]
    /\ phase \in [Nodes -> 0 .. Interval - 1] /\ due \in [Nodes -> BOOLEAN]
    /\ stage \in [Nodes -> {"waiting", "gathering", "exchange"}]
    /\ delay \in [Nodes -> 0 .. HeartbeatTimeout] /\ late \in [Nodes -> BOOLEAN]
    /\ \A n \in Nodes :
          NodeOK(nodes[n], agent[n], phase[n], due[n], stage[n], delay[n], late[n])

LEMMA WaitedAtMost ==
    ASSUME NEW a, NEW p \in 0 .. Interval - 1, NEW d, NEW g
    PROVE  Waited(a, p, d, g) \in 0 .. Interval
  BY IntervalAssumption, TimeoutAssumption DEF Waited

(* What it comes to.                                                       *)
LEMMA YoungEnough ==
    ASSUME TimedInv, NEW n \in Nodes
    PROVE  /\ nodes[n] \in Entries /\ nodes[n].age \in Ages /\ Registered(n)
           /\ ~late[n] => nodes[n].age < HeartbeatTimeout /\ IsHealthy(n) /\ ~Stale(n)
  <1> USE IntervalAssumption, TimeoutAssumption
  <1>1. /\ NodeOK(nodes[n], agent[n], phase[n], due[n], stage[n], delay[n], late[n])
        /\ phase[n] \in 0 .. Interval - 1 /\ delay[n] \in 0 .. HeartbeatTimeout
        /\ nodes[n] \in Entries
    BY DEF TimedInv
  <1>2. nodes[n].age \in Ages
    BY <1>1 DEF Entries
  <1>3. Registered(n)
    BY <1>1, EntryTypes DEF NodeOK, Registered
  <1>4. ASSUME ~late[n] PROVE nodes[n].age < HeartbeatTimeout /\ nodes[n].status = "online"
    <2> DEFINE w == Waited(agent[n], phase[n], due[n], stage[n])
    <2>1. w \in 0 .. Interval
      BY <1>1, WaitedAtMost
    <2>2. /\ nodes[n].age <= delay[n] + w /\ delay[n] + Interval < HeartbeatTimeout
          /\ nodes[n].status = "online"
      BY <1>1, <1>4 DEF NodeOK
    <2> HIDE DEF w
    <2> QED BY <1>1, <1>2, <2>1, <2>2 DEF Ages
  <1> QED BY <1>1, <1>2, <1>3, <1>4 DEF IsHealthy, Stale, Ages

LEMMA TimedInvInit == TimedInit => TimedInv
  <1> SUFFICES ASSUME TimedInit PROVE TimedInv
    OBVIOUS
  <1> USE IntervalAssumption, TimeoutAssumption
  <1>1. 0 .. Interval - 1 \subseteq Ages /\ 0 \in 0 .. HeartbeatTimeout
    BY DEF Ages
  <1>2. ASSUME NEW n \in Nodes
        PROVE  /\ nodes[n] \in Entries
               /\ NodeOK(nodes[n], agent[n], phase[n], due[n], stage[n], delay[n], late[n])
    <2>1. /\ phase[n] \in 0 .. Interval - 1 /\ nodes[n] = [status |-> "online", age |-> phase[n]]
          /\ agent[n] = "loop" /\ due[n] = FALSE /\ stage[n] = "waiting" /\ delay[n] = 0
          /\ late[n] = Overdrawn(0)
      BY DEF TimedInit
    <2>2. nodes[n] \in Entries /\ nodes[n].status = "online" /\ nodes[n].age = phase[n]
      BY <1>1, <2>1 DEF Entries
    <2>3. /\ Waited(agent[n], phase[n], due[n], stage[n]) = phase[n]
          /\ phase[n] <= 0 + phase[n]
      BY <2>1 DEF Waited
    <2>4. Overdrawn(0) \in BOOLEAN /\ (~Overdrawn(0) => 0 + Interval < HeartbeatTimeout)
      BY DEF Overdrawn
    <2>5. late[n] \in BOOLEAN /\ (~late[n] => 0 + Interval < HeartbeatTimeout)
      BY <2>1, <2>4, Zenon
    <2> QED BY <1>1, <2>1, <2>2, <2>3, <2>5 DEF NodeOK
  <1>3. /\ nodes \in [Nodes -> Entries] /\ late \in [Nodes -> BOOLEAN]
        /\ delay \in [Nodes -> 0 .. HeartbeatTimeout]
    BY <1>1, <1>2 DEF TimedInit, NodeOK
  <1> QED BY <1>2, <1>3 DEF TimedInit, TimedInv

(* A step of one node: the others are left alone.                          *)
LEMMA OneNodeSteps ==
    ASSUME TimedInv, NEW n \in Nodes,
           NodeOK(nodes'[n], agent'[n], phase[n], due'[n], stage'[n], delay'[n], late'[n]),
           nodes' = [nodes EXCEPT ![n] = nodes'[n]], agent' = [agent EXCEPT ![n] = agent'[n]],
           due' = [due EXCEPT ![n] = due'[n]], stage' = [stage EXCEPT ![n] = stage'[n]],
           delay' = [delay EXCEPT ![n] = delay'[n]], late' = [late EXCEPT ![n] = late'[n]],
           hb' \in [Nodes -> {"none", "arrived", "found"}],
           UNCHANGED <<hive, sweep, sweeping, condemned, phase>>,
           condemned = n => late'[n]
    PROVE  TimedInv'
  <1>1. /\ nodes' \in [Nodes -> Entries] /\ agent' \in [Nodes -> {"loop", "beating", "failed"}]
        /\ due' \in [Nodes -> BOOLEAN] /\ stage' \in [Nodes -> {"waiting", "gathering", "exchange"}]
        /\ delay' \in [Nodes -> 0 .. HeartbeatTimeout] /\ late' \in [Nodes -> BOOLEAN]
    BY DEF TimedInv, NodeOK
  <1>2. ASSUME NEW x \in Nodes
        PROVE  NodeOK(nodes[x], agent[x], phase[x], due[x], stage[x], delay[x], late[x])'
    <2>1. CASE x = n
      BY <2>1
    <2>2. CASE x # n
      <3>1. /\ nodes'[x] = nodes[x] /\ agent'[x] = agent[x] /\ due'[x] = due[x]
            /\ stage'[x] = stage[x] /\ delay'[x] = delay[x] /\ late'[x] = late[x]
            /\ phase'[x] = phase[x]
        BY <2>2 DEF TimedInv
      <3> QED BY <3>1 DEF TimedInv
    <2> QED BY <2>1, <2>2
  <1>3. condemned' \in Nodes \cup {None} /\ (condemned' # None => late'[condemned'])
    BY DEF TimedInv
  <1> QED BY <1>1, <1>2, <1>3 DEF TimedInv

LEMMA TimedInvNext == TimedInv /\ [TimedNext]_timedVars => TimedInv'
  <1> SUFFICES ASSUME TimedInv, [TimedNext]_timedVars PROVE TimedInv'
    OBVIOUS
  <1> USE IntervalAssumption, TimeoutAssumption
  <1>0. /\ hive = "up" /\ nodes \in [Nodes -> Entries]
        /\ agent \in [Nodes -> {"loop", "beating", "failed"}]
        /\ hb \in [Nodes -> {"none", "arrived", "found"}]
        /\ phase \in [Nodes -> 0 .. Interval - 1] /\ due \in [Nodes -> BOOLEAN]
        /\ stage \in [Nodes -> {"waiting", "gathering", "exchange"}]
        /\ delay \in [Nodes -> 0 .. HeartbeatTimeout] /\ late \in [Nodes -> BOOLEAN]
    BY DEF TimedInv
  <1>N. ASSUME NEW n \in Nodes
        PROVE  /\ NodeOK(nodes[n], agent[n], phase[n], due[n], stage[n], delay[n], late[n])
               /\ condemned = n => late[n]
               /\ Waited(agent[n], phase[n], due[n], stage[n]) \in 0 .. Interval
               /\ nodes[n].age \in Ages
    <2>1. condemned = n => condemned # None
      BY NilAssumption
    <2> QED BY <1>0, <2>1, WaitedAtMost, YoungEnough DEF TimedInv
  <1>1. ASSUME NEW n \in Nodes, TimedFire(n) PROVE TimedInv'
    <2>1. /\ stage[n] = "waiting" /\ due[n] /\ due' = [due EXCEPT ![n] = FALSE]
          /\ stage' = [stage EXCEPT ![n] = "gathering"]
          /\ UNCHANGED <<hive, nodes, hb, sweep, sweeping, condemned, agent, phase, delay, late>>
      BY <1>1 DEF TimedFire, vars, hiveVars, agentVars
    <2>2. NodeOK(nodes[n], agent[n], phase[n], FALSE, "gathering", delay[n], late[n])
      BY <1>N, <2>1 DEF NodeOK, Waited
    <2>3. /\ nodes'[n] = nodes[n] /\ agent'[n] = agent[n] /\ due'[n] = FALSE /\ stage'[n] = "gathering"
          /\ delay'[n] = delay[n] /\ late'[n] = late[n]
          /\ nodes' = [nodes EXCEPT ![n] = nodes'[n]] /\ agent' = [agent EXCEPT ![n] = agent'[n]]
          /\ due' = [due EXCEPT ![n] = due'[n]] /\ stage' = [stage EXCEPT ![n] = stage'[n]]
          /\ delay' = [delay EXCEPT ![n] = delay'[n]] /\ late' = [late EXCEPT ![n] = late'[n]]
      BY <1>0, <2>1
    <2>4. NodeOK(nodes'[n], agent'[n], phase[n], due'[n], stage'[n], delay'[n], late'[n])
      BY <2>2, <2>3 DEF NodeOK, Waited
    <2> QED BY <1>0, <1>N, <2>1, <2>3, <2>4, OneNodeSteps
  <1>2. ASSUME NEW n \in Nodes, TimedBeat(n) PROVE TimedInv'
    <2> PICK a \in {"beating", "failed"} : agent' = [agent EXCEPT ![n] = a]
      BY <1>2 DEF TimedBeat, Beat, BeatFails
    <2>1. /\ stage[n] = "gathering" /\ stage' = [stage EXCEPT ![n] = "exchange"]
          /\ UNCHANGED <<hive, nodes, sweep, sweeping, condemned, phase, due, delay, late>>
          /\ hb' \in [Nodes -> {"none", "arrived", "found"}]
      BY <1>0, <1>2 DEF TimedBeat, Beat, BeatFails, hiveVars
    <2>2. NodeOK(nodes[n], a, phase[n], due[n], "exchange", delay[n], late[n])
      BY <1>N, <2>1 DEF NodeOK, Waited
    <2>3. /\ nodes'[n] = nodes[n] /\ agent'[n] = a /\ due'[n] = due[n] /\ stage'[n] = "exchange"
          /\ delay'[n] = delay[n] /\ late'[n] = late[n]
          /\ nodes' = [nodes EXCEPT ![n] = nodes'[n]] /\ agent' = [agent EXCEPT ![n] = agent'[n]]
          /\ due' = [due EXCEPT ![n] = due'[n]] /\ stage' = [stage EXCEPT ![n] = stage'[n]]
          /\ delay' = [delay EXCEPT ![n] = delay'[n]] /\ late' = [late EXCEPT ![n] = late'[n]]
      BY <1>0, <2>1
    <2> QED BY <1>0, <1>N, <2>1, <2>2, <2>3, OneNodeSteps
  <1>3. ASSUME NEW n \in Nodes, TimedAnswer(n) PROVE TimedInv'
    <2>1. CASE HeartbeatLookup(n)
      <3>1. /\ hb' = [hb EXCEPT ![n] = "found"] /\ hb[n] = "arrived"
            /\ UNCHANGED <<hive, nodes, sweep, sweeping, condemned, agent, phase, due, stage, delay, late>>
        BY <1>3, <2>1, YoungEnough DEF HeartbeatLookup, TimedAnswer, agentVars, clockVars
      <3>2. hb' \in [Nodes -> {"none", "arrived", "found"}]
        BY <1>0, <3>1
      <3> QED BY <3>1, <3>2 DEF TimedInv
    <2>2. CASE HeartbeatApply(n)
      <3>1. /\ hb[n] = "found" /\ hb' = [hb EXCEPT ![n] = "none"]
            /\ nodes' = [nodes EXCEPT ![n] = [nodes[n] EXCEPT !.age = 0]]
            /\ delay' = [delay EXCEPT ![n] = 0]
            /\ UNCHANGED <<hive, sweep, sweeping, condemned, phase, due, stage, late>>
        BY <1>0, <1>3, <2>2 DEF HeartbeatApply, TimedAnswer, clockVars
      <3>2. PICK told \in {"loop", "failed"} :
               agent' = [agent EXCEPT ![n] = IF agent[n] = "beating" THEN told ELSE agent[n]]
        BY <2>2 DEF HeartbeatApply
      <3> DEFINE a == IF agent[n] = "beating" THEN told ELSE agent[n]
                 e == [nodes[n] EXCEPT !.age = 0]
      <3>3. /\ a \in {"loop", "beating", "failed"} /\ (stage[n] # "exchange" => a = "loop")
        BY <1>0, <1>N DEF NodeOK
      <3>4. e \in Entries /\ e.status = nodes[n].status /\ e.age = 0
        <4>1. nodes[n] \in Entries
          BY <1>0
        <4>2. e.age = 0
          BY <4>1 DEF Entries
        <4> QED BY <4>1, <4>2, EntryTypes
      <3>5. hb' \in [Nodes -> {"none", "arrived", "found"}]
        BY <1>0, <3>1
      <3> HIDE DEF a, e
      <3>6. NodeOK(e, a, phase[n], due[n], stage[n], 0, late[n])
        <4>1. Waited(a, phase[n], due[n], stage[n]) \in 0 .. Interval
          BY <1>0, WaitedAtMost
        <4>2. /\ 0 \in 0 .. HeartbeatTimeout
              /\ \A w \in 0 .. Interval : 0 <= 0 + w
              /\ ~late[n] => 0 + Interval < HeartbeatTimeout
          BY <1>N DEF NodeOK
        <4> QED BY <1>0, <1>N, <3>3, <3>4, <4>1, <4>2 DEF NodeOK
      <3>7. nodes' = [nodes EXCEPT ![n] = e] /\ agent' = [agent EXCEPT ![n] = a]
        BY <3>1, <3>2 DEF a, e
      <3>8. /\ nodes'[n] = e /\ agent'[n] = a /\ due'[n] = due[n] /\ stage'[n] = stage[n]
            /\ delay'[n] = 0 /\ late'[n] = late[n]
            /\ nodes' = [nodes EXCEPT ![n] = nodes'[n]] /\ agent' = [agent EXCEPT ![n] = agent'[n]]
            /\ due' = [due EXCEPT ![n] = due'[n]] /\ stage' = [stage EXCEPT ![n] = stage'[n]]
            /\ delay' = [delay EXCEPT ![n] = delay'[n]] /\ late' = [late EXCEPT ![n] = late'[n]]
        BY <1>0, <3>1, <3>7
      <3> QED BY <1>N, <3>1, <3>5, <3>6, <3>8, OneNodeSteps
    <2> QED BY <1>3, <2>1, <2>2 DEF TimedAnswer, Handle
  <1>4. ASSUME NEW n \in Nodes, TimedGiveUp(n) PROVE TimedInv'
    <2>1. /\ agent[n] = "beating" /\ agent' = [agent EXCEPT ![n] = "failed"]
          /\ UNCHANGED <<hive, nodes, hb, sweep, sweeping, condemned, phase, due, stage, delay, late>>
      BY <1>4 DEF TimedGiveUp, BeatFails, hiveVars, clockVars
    <2>2. NodeOK(nodes[n], "failed", phase[n], due[n], stage[n], delay[n], late[n])
      BY <1>N, <2>1 DEF NodeOK, Waited
    <2>3. /\ nodes'[n] = nodes[n] /\ agent'[n] = "failed" /\ due'[n] = due[n] /\ stage'[n] = stage[n]
          /\ delay'[n] = delay[n] /\ late'[n] = late[n]
          /\ nodes' = [nodes EXCEPT ![n] = nodes'[n]] /\ agent' = [agent EXCEPT ![n] = agent'[n]]
          /\ due' = [due EXCEPT ![n] = due'[n]] /\ stage' = [stage EXCEPT ![n] = stage'[n]]
          /\ delay' = [delay EXCEPT ![n] = delay'[n]] /\ late' = [late EXCEPT ![n] = late'[n]]
      BY <1>0, <2>1
    <2> QED BY <1>0, <1>N, <2>1, <2>2, <2>3, OneNodeSteps
  <1>5. ASSUME NEW n \in Nodes, TimedReregister(n) PROVE TimedInv'
    <2>1. /\ agent[n] = "failed" /\ agent' = [agent EXCEPT ![n] = "loop"]
          /\ UNCHANGED <<hive, hb, sweep, sweeping, condemned, phase, due, stage>>
      BY <1>5 DEF TimedReregister, Reregister, ReregisterFails, RegisterNode, hiveVars, clockVars
    <2>2. stage[n] = "exchange"
      BY <1>N, <2>1 DEF NodeOK
    <2>3. CASE /\ Reregister(n) /\ delay' = [delay EXCEPT ![n] = 0]
               /\ late' = [late EXCEPT ![n] = Overdrawn(0)]
      <3>1. nodes' = [nodes EXCEPT ![n] = Fresh] /\ ~sweeping
        BY <2>3 DEF Reregister, RegisterNode, Serving
      <3>2. condemned # n
        BY <3>1, NilAssumption DEF TimedInv
      <3>3. NodeOK(Fresh, "loop", phase[n], due[n], stage[n], 0, Overdrawn(0))
        <4>1. Fresh \in Entries /\ Fresh.status = "online" /\ Fresh.age = 0
          BY EntryTypes DEF Fresh
        <4>2. Waited("loop", phase[n], due[n], "exchange") = 0
          BY DEF Waited
        <4> QED BY <1>0, <2>2, <4>1, <4>2 DEF NodeOK, Overdrawn
      <3>4. /\ nodes'[n] = Fresh /\ agent'[n] = "loop" /\ due'[n] = due[n] /\ stage'[n] = stage[n]
            /\ delay'[n] = 0 /\ late'[n] = Overdrawn(0)
            /\ nodes' = [nodes EXCEPT ![n] = nodes'[n]] /\ agent' = [agent EXCEPT ![n] = agent'[n]]
            /\ due' = [due EXCEPT ![n] = due'[n]] /\ stage' = [stage EXCEPT ![n] = stage'[n]]
            /\ delay' = [delay EXCEPT ![n] = delay'[n]] /\ late' = [late EXCEPT ![n] = late'[n]]
        BY <1>0, <2>1, <2>3, <3>1
      <3>5. NodeOK(nodes'[n], agent'[n], phase[n], due'[n], stage'[n], delay'[n], late'[n])
        BY <3>3, <3>4, Zenon
      <3> QED BY <1>0, <2>1, <3>2, <3>4, <3>5, OneNodeSteps
    <2>4. CASE /\ ReregisterFails(n)
               /\ delay' = [delay EXCEPT ![n] = Later(@, Interval)]
               /\ late' = [late EXCEPT ![n] = @ \/ Overdrawn(Later(delay[n], Interval))]
      <3> DEFINE k == Later(delay[n], Interval)
                 l == late[n] \/ Overdrawn(k)
      <3>1. nodes' = [nodes EXCEPT ![n] = nodes[n]]
        BY <1>0, <2>4 DEF ReregisterFails, hiveVars
      <3>2. NodeOK(nodes[n], "loop", phase[n], due[n], stage[n], k, l)
        <4>1. k \in 0 .. HeartbeatTimeout /\ (k + Interval < HeartbeatTimeout => k = delay[n] + Interval)
          BY <1>0 DEF Later
        <4>2. /\ Waited("loop", phase[n], due[n], "exchange") = 0
              /\ Waited("failed", phase[n], due[n], "exchange") = Interval
          BY DEF Waited
        <4>3. l \in BOOLEAN /\ (~l => ~late[n] /\ k + Interval < HeartbeatTimeout)
          <5> HIDE DEF k
          <5> QED BY <1>0, <4>1 DEF Overdrawn
        <4> HIDE DEF k, l
        <4>4. ~l => nodes[n].age <= k + 0
          BY <1>0, <1>N, <2>1, <2>2, <4>1, <4>2, <4>3 DEF NodeOK, Ages
        <4> QED BY <1>0, <1>N, <2>1, <2>2, <4>1, <4>2, <4>3, <4>4 DEF NodeOK
      <3>3. /\ delay' = [delay EXCEPT ![n] = k] /\ late' = [late EXCEPT ![n] = l]
            /\ condemned = n => l
        BY <1>N, <2>4
      <3> HIDE DEF k, l
      <3>4. /\ nodes'[n] = nodes[n] /\ agent'[n] = "loop" /\ due'[n] = due[n] /\ stage'[n] = stage[n]
            /\ delay'[n] = k /\ late'[n] = l
            /\ nodes' = [nodes EXCEPT ![n] = nodes'[n]] /\ agent' = [agent EXCEPT ![n] = agent'[n]]
            /\ due' = [due EXCEPT ![n] = due'[n]] /\ stage' = [stage EXCEPT ![n] = stage'[n]]
            /\ delay' = [delay EXCEPT ![n] = delay'[n]] /\ late' = [late EXCEPT ![n] = late'[n]]
        BY <1>0, <2>1, <3>1, <3>3
      <3>5. NodeOK(nodes'[n], agent'[n], phase[n], due'[n], stage'[n], delay'[n], late'[n])
        BY <3>2, <3>4, Zenon
      <3> QED BY <1>0, <2>1, <3>3, <3>4, <3>5, OneNodeSteps
    <2> QED BY <1>5, <2>3, <2>4 DEF TimedReregister
  <1>6. ASSUME NEW n \in Nodes, TimedReturn(n) PROVE TimedInv'
    <2>1. /\ stage[n] = "exchange" /\ agent[n] = "loop"
          /\ stage' = [stage EXCEPT ![n] = "waiting"]
          /\ UNCHANGED <<hive, nodes, hb, sweep, sweeping, condemned, agent, phase, due, delay, late>>
      BY <1>6 DEF TimedReturn, vars, hiveVars, agentVars
    <2>2. NodeOK(nodes[n], agent[n], phase[n], due[n], "waiting", delay[n], late[n])
      <3>1. Waited(agent[n], phase[n], due[n], stage[n]) = 0
        BY <2>1 DEF Waited
      <3>2. Waited(agent[n], phase[n], due[n], "waiting") \in 0 .. Interval
        BY <1>0, WaitedAtMost
      <3>3. ASSUME ~late[n]
            PROVE  nodes[n].age <= delay[n] + Waited(agent[n], phase[n], due[n], "waiting")
        BY <1>0, <1>N, <3>1, <3>2, <3>3 DEF NodeOK, Ages
      <3> QED BY <1>N, <2>1, <3>3 DEF NodeOK
    <2>3. /\ nodes'[n] = nodes[n] /\ agent'[n] = agent[n] /\ due'[n] = due[n] /\ stage'[n] = "waiting"
          /\ delay'[n] = delay[n] /\ late'[n] = late[n]
          /\ nodes' = [nodes EXCEPT ![n] = nodes'[n]] /\ agent' = [agent EXCEPT ![n] = agent'[n]]
          /\ due' = [due EXCEPT ![n] = due'[n]] /\ stage' = [stage EXCEPT ![n] = stage'[n]]
          /\ delay' = [delay EXCEPT ![n] = delay'[n]] /\ late' = [late EXCEPT ![n] = late'[n]]
      BY <1>0, <2>1
    <2> QED BY <1>0, <1>N, <2>1, <2>2, <2>3, OneNodeSteps
  <1>7. CASE TimedSweep
    <2>0. UNCHANGED <<phase, due, stage, delay, late>>
      BY <1>7 DEF TimedSweep, clockVars
    <2>1. CASE SweepStart \/ SweepEnd
      BY <2>0, <2>1 DEF SweepStart, SweepEnd, Serving, agentVars, TimedInv
    <2>2. ASSUME NEW n \in Nodes, SweepTest(n) PROVE TimedInv'
      <3>1. /\ UNCHANGED <<hive, nodes, hb, sweeping, agent>>
            /\ condemned' = IF Stale(n) THEN n ELSE None
            /\ n \in sweep
        BY <2>2 DEF SweepTest, agentVars
      <3>2. Stale(n) => late[n] /\ sweeping
        BY <1>0, <3>1, YoungEnough DEF TimedInv
      <3> QED BY <2>0, <3>1, <3>2 DEF TimedInv
    <2>3. CASE SweepMark
      <3>1. /\ condemned \in Nodes /\ late[condemned]
            /\ nodes' = [nodes EXCEPT ![condemned].status = "offline"]
            /\ condemned' = None
            /\ UNCHANGED <<hive, hb, sweep, sweeping, agent>>
        BY <2>3 DEF SweepMark, agentVars, TimedInv
      <3>2. [nodes[condemned] EXCEPT !.status = "offline"] \in Entries
        BY <1>0, <3>1 DEF Entries
      <3>3. nodes' \in [Nodes -> Entries]
        BY <1>0, <3>1, <3>2
      <3>4. ASSUME NEW n \in Nodes
            PROVE  NodeOK(nodes'[n], agent[n], phase[n], due[n], stage[n], delay[n], late[n])
        <4>1. CASE n = condemned
          <5>1. nodes'[n] = [nodes[n] EXCEPT !.status = "offline"]
            BY <1>0, <3>1, <4>1
          <5>2. nodes'[n] \in Entries /\ nodes'[n].status = "offline"
            BY <1>0, <3>3, <5>1 DEF Entries
          <5> QED BY <1>N, <3>1, <4>1, <5>2 DEF NodeOK
        <4>2. CASE n # condemned
          BY <1>0, <1>N, <3>1, <4>2
        <4> QED BY <4>1, <4>2
      <3> QED BY <2>0, <3>1, <3>3, <3>4 DEF TimedInv
    <2> QED BY <1>7, <2>1, <2>2, <2>3 DEF TimedSweep, CheckStale
  <1>8. CASE TimedTick
    <2>1. /\ \A n \in Nodes : ~(stage[n] = "waiting" /\ due[n])
          /\ nodes' = Aged
          /\ phase' = [n \in Nodes |-> IF phase[n] + 1 < Interval THEN phase[n] + 1 ELSE 0]
          /\ due' = [n \in Nodes |-> due[n] \/ phase[n] + 1 = Interval]
          /\ delay' = [n \in Nodes |->
                IF stage[n] = "waiting" THEN delay[n] ELSE Later(delay[n], 1)]
          /\ late' = [n \in Nodes |-> late[n] \/ Overdrawn(delay'[n])]
          /\ UNCHANGED <<hive, hb, sweep, sweeping, condemned, agent, stage>>
      BY <1>8 DEF TimedTick, agentVars
    <2>2. ASSUME NEW n \in Nodes
          PROVE  /\ nodes'[n] \in Entries /\ phase'[n] \in 0 .. Interval - 1
                 /\ due'[n] \in BOOLEAN /\ delay'[n] \in 0 .. HeartbeatTimeout
                 /\ late'[n] \in BOOLEAN /\ (late[n] => late'[n])
                 /\ NodeOK(nodes'[n], agent[n], phase'[n], due'[n], stage[n], delay'[n], late'[n])
      <3>1. nodes'[n] = [nodes[n] EXCEPT !.age = Older(nodes[n].age)]
        BY <2>1, YoungEnough DEF Aged
      <3>2. /\ nodes'[n] \in Entries /\ nodes'[n].status = nodes[n].status
            /\ nodes'[n].age = Older(nodes[n].age)
        <4>1. nodes[n] \in Entries /\ Older(nodes[n].age) \in Ages
          BY <1>0, <1>N DEF Older, Ages
        <4> QED BY <3>1, <4>1 DEF Entries
      <3>3. /\ phase[n] \in 0 .. Interval - 1 /\ delay[n] \in 0 .. HeartbeatTimeout
            /\ due[n] \in BOOLEAN /\ late[n] \in BOOLEAN
            /\ phase'[n] = IF phase[n] + 1 < Interval THEN phase[n] + 1 ELSE 0
            /\ due'[n] = (due[n] \/ phase[n] + 1 = Interval)
            /\ delay'[n] = IF stage[n] = "waiting" THEN delay[n] ELSE Later(delay[n], 1)
            /\ late'[n] = (late[n] \/ Overdrawn(delay'[n]))
        BY <1>0, <2>1
      <3>4. /\ phase'[n] \in 0 .. Interval - 1 /\ due'[n] \in BOOLEAN
            /\ delay'[n] \in 0 .. HeartbeatTimeout /\ late'[n] \in BOOLEAN
            /\ (late[n] => late'[n])
            /\ ~late'[n] => ~late[n] /\ delay'[n] + Interval < HeartbeatTimeout
        <4>1. phase'[n] \in 0 .. Interval - 1 /\ delay'[n] \in 0 .. HeartbeatTimeout
          BY <3>3 DEF Later
        <4>2. /\ due'[n] \in BOOLEAN /\ late'[n] \in BOOLEAN
              /\ late'[n] <=> (late[n] \/ Overdrawn(delay'[n]))
          BY <3>3, Zenon
        <4>3. ~Overdrawn(delay'[n]) => delay'[n] + Interval < HeartbeatTimeout
          BY <4>1 DEF Overdrawn
        <4> QED BY <4>1, <4>2, <4>3
      <3>5. ASSUME ~late'[n]
            PROVE  nodes'[n].age <= delay'[n] + Waited(agent[n], phase'[n], due'[n], stage[n])
        <4>1. nodes'[n].age <= nodes[n].age + 1 /\ nodes'[n].age \in Nat
          BY <1>N, <3>2 DEF Older, Ages
        <4>2. nodes[n].age <= delay[n] + Waited(agent[n], phase[n], due[n], stage[n])
          BY <1>N, <3>4, <3>5 DEF NodeOK
        <4>3. CASE stage[n] = "waiting"
          <5>1. ~due[n] /\ delay'[n] = delay[n]
            BY <2>1, <3>3, <4>3
          <5>2. Waited(agent[n], phase[n], due[n], stage[n]) = phase[n]
            BY <4>3, <5>1 DEF Waited
          <5>3. Waited(agent[n], phase'[n], due'[n], stage[n]) = phase[n] + 1
            <6>1. due'[n] <=> (phase[n] + 1 = Interval)
              BY <3>3, <5>1, Zenon
            <6> QED BY <3>3, <4>3, <6>1 DEF Waited
          <5> QED BY <1>N, <3>3, <4>1, <4>2, <5>1, <5>2, <5>3 DEF Ages
        <4>4. CASE stage[n] # "waiting"
          <5>1. delay'[n] = delay[n] + 1
            BY <3>3, <3>4, <3>5, <4>4 DEF Later
          <5>2. Waited(agent[n], phase'[n], due'[n], stage[n])
                  = Waited(agent[n], phase[n], due[n], stage[n])
            BY <4>4 DEF Waited
          <5> QED BY <1>N, <3>3, <4>1, <4>2, <5>1, <5>2 DEF Ages
        <4> QED BY <4>3, <4>4
      <3> QED BY <1>N, <3>2, <3>4, <3>5 DEF NodeOK
    <2>3. /\ nodes' \in [Nodes -> Entries] /\ phase' \in [Nodes -> 0 .. Interval - 1]
          /\ due' \in [Nodes -> BOOLEAN] /\ delay' \in [Nodes -> 0 .. HeartbeatTimeout]
          /\ late' \in [Nodes -> BOOLEAN]
      BY <2>1, <2>2 DEF Aged
    <2>4. condemned' \in Nodes \cup {None} /\ (condemned' # None => late'[condemned'])
      BY <2>1, <2>2 DEF TimedInv
    <2> QED BY <1>0, <2>1, <2>2, <2>3, <2>4 DEF TimedInv
  <1>9. CASE UNCHANGED timedVars
    BY <1>9 DEF timedVars, clockVars, vars, hiveVars, agentVars, TimedInv
  <1> QED
    BY <1>1, <1>2, <1>3, <1>4, <1>5, <1>6, <1>7, <1>8, <1>9 DEF TimedNext

(* StaysInRotation (node.go:94-98, manager.go:107-123): whatever the       *)
(* interval and the timeout, a live node stays healthy until the exchanges *)
(* lost in a row and the time its agent was held up in exchanges leave     *)
(* less than one interval of the timeout.                                  *)
THEOREM LiveNodesStay == TimedSpec => []StaysInRotation
  <1>1. TimedInv => StaysInRotation
    BY YoungEnough DEF StaysInRotation
  <1> QED BY <1>1, TimedInvInit, TimedInvNext, PTL DEF TimedSpec
-----------------------------------------------------------------------------
(* The balancer that chooses among the nodes of the registry.  A node may  *)
(* come and go while SelectNode looks at it, so nothing is used of the     *)
(* registry but the set of nodes.                                          *)

(* What SelectNode has in hand: whoever was usable throughout is still on  *)
(* its lists, and whoever it let pass was found healthy and then with a    *)
(* free slot.                                                              *)
SelectInv ==
    /\ SelectionTypeOK
    /\ always \subseteq UsableNodes
    /\ pc # "idle" =>
          /\ OnlineNodes \subseteq seen
          /\ \A m \in seen : info[m].slots > 0 => m \in once
          /\ healthy \subseteq once
          /\ calm => always = UsableNodes
    /\ pc = "filter" =>
          /\ result = None /\ unchecked \subseteq seen
          /\ asked # None => asked \in seen
          /\ always \subseteq healthy \cup unchecked \cup unlisted \cup {asked}
    /\ pc \in Strategies => healthy # {} /\ always \subseteq healthy /\ (calm => sortCalm)
    /\ pc = "done" => (result = None => always = {}) /\ (result # None => result \in once)

LEMMA SelectInit == ASSUME SelectionInit PROVE SelectInv
  BY PeriodAssumption DEF SelectInv, SelectionInit, SelectionTypeOK, Strategies

(* The element a round-robin call takes from its list.                     *)
LEMMA RobinTakes ==
    ASSUME NEW S, IsFiniteSet(S), S # {}, NEW order \in SetToSeqs(S), NEW i \in Nat
    PROVE  order[(i % Len(order)) + 1] \in S
  <1> DEFINE n == Cardinality(S)
  <1>1. n \in Nat /\ n # 0
    BY FS_CardinalityType, FS_EmptySet
  <1>2. order \in [1 .. n -> S]
    BY DEF SetToSeqs
  <1>3. Len(order) = n
    BY <1>1, <1>2
  <1>4. i % n \in 0 .. n - 1
    BY <1>1
  <1> QED BY <1>1, <1>2, <1>3, <1>4

LEMMA SelectNext ==
    ASSUME SelectInv, [SelectionNext]_selectVars
    PROVE  SelectInv'
  <1> USE NilAssumption, NodesAssumption, PeriodAssumption
  <1>0. SelectionTypeOK /\ IsFiniteSet(healthy)
    BY FS_Subset DEF SelectInv, SelectionTypeOK
  <1>U. info' = info => UsableNodes' = UsableNodes /\ OnlineNodes' = OnlineNodes
    BY DEF UsableNodes, OnlineNodes
  <1>1. CASE Call
    <2>1. /\ pc' = "filter" /\ unlisted' = Nodes /\ unchecked' = {} /\ asked' = None
          /\ healthy' = {} /\ result' = None /\ calm' = TRUE
          /\ always' = UsableNodes /\ seen' = OnlineNodes /\ once' = UsableNodes
          /\ UNCHANGED <<info, strategy, rrIndex, sortCalm>>
      BY <1>1 DEF Call
    <2>2. UsableNodes \subseteq Nodes /\ OnlineNodes \subseteq Nodes
      BY DEF UsableNodes, OnlineNodes
    <2>3. SelectionTypeOK'
      BY <1>0, <2>1, <2>2 DEF SelectionTypeOK
    <2>4. \A m \in OnlineNodes : info[m].slots > 0 => m \in UsableNodes
      BY DEF UsableNodes
    <2> QED BY <1>U, <2>1, <2>2, <2>3, <2>4 DEF SelectInv, Strategies
  <1>9. ASSUME NEW n \in Nodes, List(n) PROVE SelectInv'
    <2>1. /\ pc = "filter" /\ pc' = pc /\ n \in unlisted /\ unlisted' = unlisted \ {n}
          /\ unchecked' = IF info[n].online THEN unchecked \cup {n} ELSE unchecked
          /\ UNCHANGED <<info, strategy, rrIndex, asked, healthy, result, always, seen, once,
                         calm, sortCalm>>
      BY <1>9 DEF List, ghosts
    <2>2. /\ info[n].online <=> n \in OnlineNodes
          /\ n \in UsableNodes => n \in OnlineNodes
      BY DEF OnlineNodes, UsableNodes
    <2>3. SelectionTypeOK'
      BY <1>0, <2>1 DEF SelectionTypeOK
    <2> QED BY <1>U, <2>1, <2>2, <2>3 DEF SelectInv, Strategies
  <1>10. ASSUME NEW n \in Nodes, AskHealth(n) PROVE SelectInv'
    <2>1. /\ pc = "filter" /\ pc' = pc /\ n \in unchecked /\ unchecked' = unchecked \ {n}
          /\ asked = None /\ asked' = IF info[n].online THEN n ELSE None
          /\ UNCHANGED <<info, strategy, rrIndex, unlisted, healthy, result, always, seen, once,
                         calm, sortCalm>>
      BY <1>10 DEF AskHealth, ghosts
    <2>2. /\ info[n].online <=> n \in OnlineNodes
          /\ n \in UsableNodes => n \in OnlineNodes
      BY DEF OnlineNodes, UsableNodes
    <2>3. SelectionTypeOK'
      BY <1>0, <2>1 DEF SelectionTypeOK
    <2>4. None \notin always
      BY <1>0 DEF SelectionTypeOK
    <2> QED BY <1>U, <2>1, <2>2, <2>3, <2>4 DEF SelectInv, Strategies
  <1>2. CASE AskSlots
    <2>1. /\ pc = "filter" /\ pc' = pc /\ asked # None /\ asked' = None
          /\ healthy' = IF info[asked].slots > 0 THEN healthy \cup {asked} ELSE healthy
          /\ UNCHANGED <<info, strategy, rrIndex, unlisted, unchecked, result, always, seen, once,
                         calm, sortCalm>>
      BY <1>2 DEF AskSlots, ghosts
    <2>2. asked \in UsableNodes => info[asked].slots > 0
      BY DEF UsableNodes
    <2>3. SelectionTypeOK'
      BY <1>0, <2>1 DEF SelectionTypeOK
    <2> QED BY <1>U, <2>1, <2>2, <2>3 DEF SelectInv, Strategies
  <1>3. CASE Switch
    <2>1. /\ pc = "filter" /\ unlisted = {} /\ unchecked = {} /\ asked = None /\ sortCalm' = TRUE
          /\ UNCHANGED <<info, strategy, rrIndex, unlisted, unchecked, asked, healthy, result,
                         always, seen, once, calm>>
          /\ \/ healthy = {} /\ pc' = "done"
             \/ healthy # {} /\ pc' \in Strategies \ {"unknown"}
      BY <1>0, <1>3 DEF Switch, SelectionTypeOK, Strategies, ghosts
    <2>2. pc' # "idle" /\ pc' # "filter"
      BY <2>1 DEF Strategies
    <2>3. SelectionTypeOK'
      BY <1>0, <2>1 DEF SelectionTypeOK
    <2>4. None \notin always
      BY <1>0 DEF SelectionTypeOK
    <2> QED BY <1>U, <2>1, <2>2, <2>3, <2>4 DEF SelectInv, Strategies
  <1>4. ASSUME leastLoad \/ bestCapacity \/ roundRobin \/ random PROVE SelectInv'
    <2>1. /\ pc \in Strategies /\ pc' = "done" /\ rrIndex' \in 0 .. RRPeriod - 1
          /\ UNCHANGED <<info, strategy, unlisted, unchecked, asked, healthy, always, seen, once,
                         calm, sortCalm>>
      BY <1>0, <1>4 DEF leastLoad, bestCapacity, roundRobin, random, Return,
              Strategies, SelectionTypeOK, ghosts
    <2>2. result' \in healthy
      <3>1. CASE leastLoad \/ bestCapacity \/ random
        BY <3>1 DEF leastLoad, bestCapacity, random, Return
      <3>2. CASE roundRobin
        <4>1. PICK order \in SetToSeqs(healthy) : result' = order[(rrIndex % Len(order)) + 1]
          BY <3>2 DEF roundRobin, Return
        <4>2. healthy # {} /\ rrIndex \in Nat
          BY <1>0, <2>1 DEF SelectInv, SelectionTypeOK
        <4> QED BY <1>0, <4>1, <4>2, RobinTakes
      <3> QED BY <1>4, <3>1, <3>2
    <2>3. result' \in Nodes /\ result' # None /\ pc # "idle"
      BY <1>0, <2>1, <2>2 DEF SelectionTypeOK, Strategies
    <2>4. SelectionTypeOK'
      BY <1>0, <2>1, <2>3 DEF SelectionTypeOK
    <2> QED BY <1>U, <2>1, <2>2, <2>3, <2>4 DEF SelectInv, Strategies
  <1>5. CASE Taken
    BY <1>0, <1>5, <1>U DEF SelectInv, SelectionTypeOK, Taken, Strategies, ghosts
  <1>6. ASSUME NEW n \in Nodes, NodeChanges(n) PROVE SelectInv'
    <2>1. /\ always' = always \cap UsableNodes' /\ seen' = seen \cup OnlineNodes'
          /\ once' = once \cup {m \in seen' : info'[m].slots > 0}
          /\ calm' = FALSE /\ sortCalm' = FALSE
          /\ UNCHANGED <<strategy, rrIndex, pc, unlisted, unchecked, asked, healthy, result>>
      BY <1>6 DEF NodeChanges, callVars
    <2>2. info' \in [Nodes -> Info]
      BY <1>0, <1>6 DEF NodeChanges, SelectionTypeOK
    <2>3. OnlineNodes' \subseteq Nodes
      BY DEF OnlineNodes
    <2>4. SelectionTypeOK'
      BY <1>0, <2>1, <2>2, <2>3 DEF SelectionTypeOK
    <2> QED BY <2>1, <2>4 DEF SelectInv
  <1>7. CASE SetStrategy \/ OtherRoundRobin
    <2>1. UNCHANGED <<info, pc, unlisted, unchecked, asked, healthy, result, always, seen, once, calm,
                    sortCalm>>
      BY <1>7 DEF SetStrategy, OtherRoundRobin, callVars, ghosts
    <2>2. strategy' \in Strategies /\ rrIndex' \in 0 .. RRPeriod - 1
      BY <1>0, <1>7 DEF SetStrategy, OtherRoundRobin, SelectionTypeOK
    <2>3. SelectionTypeOK'
      BY <1>0, <2>1, <2>2 DEF SelectionTypeOK
    <2> QED BY <1>U, <2>1, <2>3 DEF SelectInv
  <1>8. CASE UNCHANGED selectVars
    BY <1>0, <1>8, <1>U DEF SelectInv, selectVars, callVars, ghosts, SelectionTypeOK
  <1> QED
    BY <1>1, <1>2, <1>3, <1>4, <1>5, <1>6, <1>7, <1>8, <1>9, <1>10 DEF SelectionNext, SelectNode

(* SelectionJustified (balancer.go:39-52), for any number of nodes: nodes  *)
(* may change between any two steps of SelectNode, between the two         *)
(* questions it asks of one too, and still it gives up only when no node   *)
(* was usable throughout.                                                  *)
THEOREM SelectionIsJustified == SelectionSpec => []SelectionJustified
  <1>1. SelectionInit => SelectInv
    BY SelectInit
  <1>2. SelectInv /\ [SelectionNext]_selectVars => SelectInv'
    BY SelectNext
  <1>3. SelectInv => SelectionJustified
    BY DEF SelectInv, SelectionJustified
  <1> QED BY <1>1, <1>2, <1>3, PTL DEF SelectionSpec

(* BestChosen (balancer.go:44-56, 68-76, 90-95): on a quiet cluster the    *)
(* filter lets every usable node pass, so that the best of those that pass *)
(* is the best there is.                                                   *)
THEOREM BestIsChosen == SelectionSpec => BestChosen
  <1>1. SelectionInit => SelectInv
    BY SelectInit
  <1>2. SelectInv /\ [SelectionNext]_selectVars => SelectInv'
    BY SelectNext
  <1>3. SelectInv =>
           [calm => \A n \in UsableNodes :
              /\ leastLoad => info[result'].score <= info[n].score
              /\ bestCapacity => info[result'].slots >= info[n].slots]_selectVars
    <2> SUFFICES ASSUME SelectInv, calm, NEW n \in UsableNodes, leastLoad \/ bestCapacity
                 PROVE  /\ leastLoad => info[result'].score <= info[n].score
                        /\ bestCapacity => info[result'].slots >= info[n].slots
      OBVIOUS
    <2>1. pc \in Strategies /\ pc # "idle"
      BY DEF leastLoad, bestCapacity, Strategies
    <2>2. n \in healthy /\ sortCalm
      BY <2>1 DEF SelectInv
    <2> QED BY <2>2 DEF leastLoad, bestCapacity, Return
  <1> QED BY <1>1, <1>2, <1>3, PTL DEF SelectionSpec, BestChosen
=============================================================================

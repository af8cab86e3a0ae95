------------------------------ MODULE Balancer ------------------------------
(***************************************************************************)
(* internal/balancer/balancer.go with the node methods it calls            *)
(* (internal/cluster/node.go:84-98, manager.go:95-105): one SelectNode     *)
(* call while heartbeats, timeouts, strategy changes and other calls go on *)
(* around it.                                                              *)
(*                                                                         *)
(* The call lists the healthy nodes one by one, in the random order of a   *)
(* Go map, asks each again for its health and then for its free slots, two *)
(* holds of the node's own lock, and then sorts with a comparison that     *)
(* reads the nodes live: a change during the sort may leave any node in    *)
(* front.  LoadScore is an opaque number; rrIndex is kept modulo RRPeriod, *)
(* a multiple of every list length.                                        *)
(***************************************************************************)
EXTENDS HiveNodes, Integers, FiniteSets, SequencesExt

CONSTANTS
    MaxSlots,   \* largest Capacity
    MaxScore,   \* largest LoadScore
    RRPeriod    \* modulus of rrIndex

ASSUME NodesAssumption == IsFiniteSet(Nodes)
ASSUME PeriodAssumption ==
    RRPeriod \in Nat \ {0} /\ \A k \in 1 .. Cardinality(Nodes) : RRPeriod % k = 0

Strategies == {"least_load", "round_robin", "random", "capacity", "unknown"}
Info == [online : BOOLEAN, slots : 0 .. MaxSlots, score : 0 .. MaxScore]

VARIABLES
    info,       \* what the methods of each node answer now
    strategy,   \* Balancer.strategy; SetStrategy takes any string
    rrIndex,    \* Balancer.rrIndex
    pc,         \* where SelectNode is
    unlisted,   \* nodes GetHealthyNodes has not come to
    unchecked,  \* listed nodes its filter loop has not come to
    asked,      \* the node found healthy whose slots are asked for next
    healthy,    \* the slice of nodes that passed
    result,     \* the node returned
    always,     \* ghost: nodes usable ever since the call began
    seen,       \* ghost: nodes healthy at some time during the call
    once,       \* ghost: nodes of these that had a free slot then or later
    calm,       \* ghost: no node has changed since the call began
    sortCalm    \* no node has changed since the sort began

callVars == <<pc, unlisted, unchecked, asked, healthy, result>>
ghosts == <<always, seen, once, calm>>
selectVars == <<info, strategy, rrIndex, callVars, ghosts, sortCalm>>

OnlineNodes == {n \in Nodes : info[n].online}

(* IsHealthy && AvailableSlots() > 0, as if asked at once. *)
UsableNodes == {n \in OnlineNodes : info[n].slots > 0}

SelectionInit ==
    /\ info \in [Nodes -> Info]
    /\ strategy = "least_load"
    /\ rrIndex = 0
    /\ pc = "idle"
    /\ unlisted = {} /\ unchecked = {} /\ asked = None /\ healthy = {} /\ result = None
    /\ always = {} /\ seen = {} /\ once = {} /\ calm = TRUE /\ sortCalm = TRUE

-----------------------------------------------------------------------------
Call ==
    /\ pc = "idle"
    /\ unlisted' = Nodes /\ unchecked' = {} /\ asked' = None /\ healthy' = {}
    /\ result' = None
    /\ always' = UsableNodes /\ seen' = OnlineNodes /\ once' = UsableNodes /\ calm' = TRUE
    /\ pc' = "filter"
    /\ UNCHANGED <<info, strategy, rrIndex, sortCalm>>

(* nodes := b.nodes(), which is GetHealthyNodes.                           *)
List(n) ==
    /\ pc = "filter"
    /\ n \in unlisted
    /\ unlisted' = unlisted \ {n}
    /\ unchecked' = IF info[n].online THEN unchecked \cup {n} ELSE unchecked
    /\ UNCHANGED <<info, strategy, rrIndex, pc, asked, healthy, result, ghosts, sortCalm>>

(* The loop asks n.IsHealthy ...                                           *)
AskHealth(n) ==
    /\ pc = "filter" /\ unlisted = {} /\ asked = None
    /\ n \in unchecked
    /\ unchecked' = unchecked \ {n}
    /\ asked' = IF info[n].online THEN n ELSE None
    /\ UNCHANGED <<info, strategy, rrIndex, pc, unlisted, healthy, result, ghosts, sortCalm>>

(* A mutation: only health is checked, not free slots.                     *)
SlotsIgnored ==
    /\ pc = "filter" /\ asked # None
    /\ healthy' = healthy \cup {asked}
    /\ asked' = None
    /\ UNCHANGED <<info, strategy, rrIndex, pc, unlisted, unchecked, result, ghosts, sortCalm>>

(* ... and then, the lock taken anew, n.AvailableSlots.                    *)
AskSlots ==
    /\ pc = "filter" /\ asked # None
    /\ healthy' = IF info[asked].slots > 0 THEN healthy \cup {asked} ELSE healthy
    /\ asked' = None
    /\ UNCHANGED <<info, strategy, rrIndex, pc, unlisted, unchecked, result, ghosts, sortCalm>>

(* The switch reads strategy without the lock; a torn string matches no    *)
(* case, like an unknown one, and falls to least_load.                     *)
Switch ==
    /\ pc = "filter"
    /\ unlisted = {} /\ unchecked = {} /\ asked = None
    /\ pc' \in IF healthy = {} THEN {"done"}
               ELSE {"least_load", IF strategy = "unknown" THEN "least_load" ELSE strategy}
    /\ sortCalm' = TRUE
    /\ UNCHANGED <<info, strategy, rrIndex, unlisted, unchecked, asked, healthy, result, ghosts>>

Return(n) ==
    /\ result' = n
    /\ pc' = "done"

(* A mutation: the comparison is the wrong way round.                      *)
mostLoad ==
    /\ pc = "least_load"
    /\ \E n \in healthy :
          /\ sortCalm => \A m \in healthy : info[n].score >= info[m].score
          /\ Return(n)
    /\ UNCHANGED <<info, strategy, rrIndex, unlisted, unchecked, asked, healthy, ghosts, sortCalm>>

leastLoad ==
    /\ pc = "least_load"
    /\ \E n \in healthy :
          /\ sortCalm => \A m \in healthy : info[n].score <= info[m].score
          /\ Return(n)
    /\ UNCHANGED <<info, strategy, rrIndex, unlisted, unchecked, asked, healthy, ghosts, sortCalm>>

bestCapacity ==
    /\ pc = "capacity"
    /\ \E n \in healthy :
          /\ sortCalm => \A m \in healthy : info[n].slots >= info[m].slots
          /\ Return(n)
    /\ UNCHANGED <<info, strategy, rrIndex, unlisted, unchecked, asked, healthy, ghosts, sortCalm>>

roundRobin ==
    /\ pc = "round_robin"
    /\ \E order \in SetToSeqs(healthy) : Return(order[(rrIndex % Len(order)) + 1])
    /\ rrIndex' = (rrIndex + 1) % RRPeriod
    /\ UNCHANGED <<info, strategy, unlisted, unchecked, asked, healthy, ghosts, sortCalm>>

random ==
    /\ pc = "random"
    /\ \E n \in healthy : Return(n)
    /\ UNCHANGED <<info, strategy, rrIndex, unlisted, unchecked, asked, healthy, ghosts, sortCalm>>

(* The handler takes the result, and another call may begin.               *)
Taken ==
    /\ pc = "done"
    /\ pc' = "idle"
    /\ UNCHANGED <<info, strategy, rrIndex, unlisted, unchecked, asked, healthy, result, ghosts, sortCalm>>

-----------------------------------------------------------------------------
(* A heartbeat, a timeout or a registration changes one node.              *)
NodeChanges(n) ==
    /\ \E i \in Info \ {info[n]} : info' = [info EXCEPT ![n] = i]
    /\ always' = always \cap UsableNodes'
    /\ seen' = seen \cup OnlineNodes'
    /\ once' = once \cup {m \in seen' : info'[m].slots > 0}
    /\ calm' = FALSE /\ sortCalm' = FALSE
    /\ UNCHANGED <<strategy, rrIndex, callVars>>

SetStrategy ==
    /\ strategy' \in Strategies
    /\ UNCHANGED <<info, rrIndex, callVars, ghosts, sortCalm>>

(* A concurrent round-robin call advances the index.                       *)
OtherRoundRobin ==
    /\ rrIndex' = (rrIndex + 1) % RRPeriod
    /\ UNCHANGED <<info, strategy, callVars, ghosts, sortCalm>>

SelectNode ==
    \/ Call \/ (\E n \in Nodes : List(n) \/ AskHealth(n)) \/ AskSlots \/ Switch
    \/ leastLoad \/ bestCapacity \/ roundRobin \/ random \/ Taken

SelectionNext ==
    \/ SelectNode
    \/ \E n \in Nodes : NodeChanges(n)
    \/ SetStrategy
    \/ OtherRoundRobin

SelectionSpec == SelectionInit /\ [][SelectionNext]_selectVars
-----------------------------------------------------------------------------
SelectionTypeOK ==
    /\ info \in [Nodes -> Info]
    /\ strategy \in Strategies
    /\ rrIndex \in 0 .. RRPeriod - 1
    /\ pc \in {"idle", "filter", "done"} \cup (Strategies \ {"unknown"})
    /\ unlisted \subseteq Nodes /\ unchecked \subseteq Nodes /\ healthy \subseteq Nodes
    /\ asked \in Nodes \cup {None} /\ result \in Nodes \cup {None}
    /\ always \subseteq Nodes /\ seen \subseteq Nodes /\ once \subseteq Nodes
    /\ calm \in BOOLEAN /\ sortCalm \in BOOLEAN

(* A request is turned away ("no available nodes") only if no node was     *)
(* healthy with a free slot throughout the selection.  It is sent only to  *)
(* a node that was healthy at some moment of the selection and had a free  *)
(* slot then or at a later one, whatever changes under the call: the two   *)
(* need not have come together (balancer.go:39-52, manager.go:95-105).     *)
(* And the state has its types.                                            *)
SelectionJustified ==
    /\ SelectionTypeOK
    /\ pc = "done" =>
          /\ result = None => always = {}
          /\ result # None => result \in once

(* On a quiet cluster, from listing to sort, least_load returns a usable   *)
(* node with no more load than any other usable one, and capacity one with *)
(* no fewer free slots (balancer.go:44-56, 68-76, 90-95).                  *)
BestChosen ==
    [][calm => \A n \in UsableNodes :
          /\ leastLoad => info[result'].score <= info[n].score
          /\ bestCapacity => info[result'].slots >= info[n].slots]_selectVars
=============================================================================

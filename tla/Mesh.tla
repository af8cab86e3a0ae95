-------------------------------- MODULE Mesh --------------------------------
(***************************************************************************)
(* The peer tables of a mesh of hive servers (hive-server-go/mesh.go):     *)
(* beacons, probes of seed peers with the introduction and the exchange of *)
(* tables that follow, health polls, removal of silent peers, servers that *)
(* start, stop and crash.  An entry is reduced to the age of its LastSeen; *)
(* its endpoint is the address its server announces.  A tick is any part   *)
(* of the 30 s that Cutoff counts; time passes whatever else is under way, *)
(* and messages and answers take as long as they take.                     *)
(***************************************************************************)
EXTENDS MeshServers, Integers, Sequences

CONSTANTS
    Hosted,     \* the IDs that servers run under; others are only registered
    Addrs,      \* addresses
    Addr,       \* Addr[s]: the address server s announces
    Seeds,      \* Seeds[s]: the addresses in the MESH_SEED_PEERS of s
    Reach,      \* <<p, s>>: beacons of p get to s, on its subnet
    Registrations, \* <<s, p>>: operators register p at s, /api/peers/register
    Cutoff      \* 30 s in ticks

ASSUME MeshAssumption ==
    /\ Hosted \subseteq Servers /\ Addr \in [Servers -> Addrs]
    /\ Seeds \in [Servers -> Seq(Addrs)]
    /\ Reach \subseteq Servers \X Servers
    /\ Registrations \subseteq Servers \X Servers
    /\ Cutoff \in Nat \ {0}
    /\ None \notin Int

VARIABLES
    phase,      \* phase[s] of the process
    age,        \* age[s][p]: ticks since LastSeen of p's entry in s's m.peers
    probe,      \* the sweep of s over its seeds: [at, left, learned]
    recent,     \* servers whose beacons and answers may be on their way
    intros,     \* <<s, a>>: an introduction of s is on its way to address a
    own         \* ghost: servers that operators have registered at themselves

vars == <<phase, age, probe, recent, intros, own>>

Phases == {"down", "starting", "up", "stopping"}
Steps == {"idle", "status", "introduce", "exchange", "merge"}

TypeOK ==
    /\ phase \in [Servers -> Phases]
    /\ age \in [Servers -> [Servers -> 0 .. Cutoff + 1 \cup {None}]]
    /\ probe \in [Servers ->
                    [at : Steps, left : Seq(Addrs), learned : SUBSET Servers]]
    /\ \A s \in Servers : (probe[s].at = "idle") <=> (probe[s].left = <<>>)
    /\ recent \subseteq Servers /\ intros \subseteq Servers \X Addrs
    /\ own \subseteq Servers

NoPeers == [p \in Servers |-> None]
Sweep(addrs) == [at |-> IF addrs = <<>> THEN "idle" ELSE "status",
                 left |-> addrs, learned |-> {}]

Init ==
    /\ phase = [s \in Servers |-> "down"]
    /\ age = [s \in Servers |-> NoPeers]
    /\ probe = [s \in Servers |-> Sweep(<<>>)]
    /\ recent = {}
    /\ intros = {} /\ own = {}

Listed(s, p) == age[s][p] # None
Alive(s, p) == Listed(s, p) /\ age[s][p] < Cutoff

(* A mutation: the staleness test is left out.                             *)
StalePeersToo(s) == {p \in Servers : Listed(s, p)}

(* GetAlivePeers, and GetPeersList on top of it.                           *)
AlivePeers(s) == {p \in Servers : Alive(s, p)}

(* The HTTP routes are there once Start has returned, to the exit.         *)
Serves(s) == phase[s] \in {"up", "stopping"}

(* The stored entry of p is new, or its LastSeen is set to now.            *)
Saw(s, p) == age' = [age EXCEPT ![s][p] = 0]
-----------------------------------------------------------------------------
(* The process starts, with an empty table: Start probes the seeds before  *)
(* it starts the loops, and main serves HTTP after Start.                  *)
Start(s) ==
    /\ s \in Hosted /\ phase[s] = "down"
    /\ \A t \in Servers : Addr[t] = Addr[s] => phase[t] = "down"
    /\ phase' = [phase EXCEPT ![s] = "starting"]
    /\ probe' = [probe EXCEPT ![s] = Sweep(Seeds[s])]
    /\ UNCHANGED <<age, recent, intros, own>>

StartReturns(s) ==
    /\ phase[s] = "starting" /\ probe[s].at = "idle"
    /\ phase' = [phase EXCEPT ![s] = "up"]
    /\ recent' = recent \cup {s}
    /\ UNCHANGED <<age, probe, intros, own>>

(* Stop ends the loops.  HTTP is served and polls that have begun go on    *)
(* until the process exits.                                                *)
Stop(s) ==
    /\ phase[s] = "up"
    /\ phase' = [phase EXCEPT ![s] = "stopping"]
    /\ UNCHANGED <<age, probe, recent, intros, own>>

(* The process ends, by itself or by a crash; its table goes with it, what *)
(* it has sent may still arrive.                                           *)
Exit(s) ==
    /\ phase[s] # "down"
    /\ phase' = [phase EXCEPT ![s] = "down"]
    /\ age' = [age EXCEPT ![s] = NoPeers]
    /\ probe' = [probe EXCEPT ![s] = Sweep(<<>>)]
    /\ own' = own \ {s}
    /\ UNCHANGED <<recent, intros>>

(* The last beacon or answer of a server that is gone has arrived or is    *)
(* lost.                                                                   *)
Settle(s) ==
    /\ s \in recent /\ ~Serves(s)
    /\ recent' = recent \ {s}
    /\ UNCHANGED <<phase, age, probe, intros, own>>

(* A beacon of p is handled at s: sendBeacon, listenerLoop, handleBeacon.  *)
(* One that is lost is one that is not handled; a server hears its own.    *)
Beacon(p, s) ==
    /\ <<p, s>> \in Reach /\ p \in recent /\ phase[s] = "up"
    /\ IF p = s THEN UNCHANGED age ELSE Saw(s, p)
    /\ UNCHANGED <<phase, probe, recent, intros, own>>
-----------------------------------------------------------------------------
(* The ticker of seedProbeLoop, or Rescan by a request.  Bound: one sweep  *)
(* of a server at a time.                                                  *)
SeedProbe(s) ==
    /\ Serves(s) /\ probe[s].at = "idle"
    /\ probe' = [probe EXCEPT ![s] = Sweep(Seeds[s])]
    /\ UNCHANGED <<phase, age, recent, intros, own>>

NextSeed(s) == probe' = [probe EXCEPT ![s] = Sweep(Tail(@.left))]

(* probeSeed: GET /api/status of the next seed.  Nobody answers, the       *)
(* answer is lost, or it is this server itself.                            *)
ProbeFails(s) ==
    /\ probe[s].at = "status"
    /\ NextSeed(s)
    /\ UNCHANGED <<phase, age, recent, intros, own>>

(* Or server t has answered, and a new entry takes the place of its old    *)
(* one.                                                                    *)
ProbeSeed(s, t) ==
    /\ probe[s].at = "status" /\ t \in recent /\ Addr[t] = Head(probe[s].left)
    /\ t # s
    /\ Saw(s, t)
    /\ probe' = [probe EXCEPT ![s].at = "introduce"]
    /\ UNCHANGED <<phase, recent, intros, own>>

(* introduceSelf: the request is sent, and nothing of the answer is read.  *)
(* Bound: one introduction of a server to an address on its way.           *)
IntroduceSelf(s) ==
    /\ probe[s].at = "introduce"
    /\ probe' = [probe EXCEPT ![s].at = "exchange"]
    /\ intros' = intros \cup {<<s, Head(probe[s].left)>>}
    /\ UNCHANGED <<phase, age, recent, own>>

(* It is handled by the server at the address: handlePeerIntroduce, which  *)
(* skips the server's own ID, and RegisterPeer.                            *)
PeerIntroduce(t, s) ==
    /\ <<s, Addr[t]>> \in intros /\ Serves(t)
    /\ IF s = t THEN UNCHANGED age ELSE Saw(t, s)
    /\ intros' = intros \ {<<s, Addr[t]>>}
    /\ UNCHANGED <<phase, probe, recent, own>>

(* Or it is lost.                                                          *)
IntroductionLost(s) ==
    /\ \E a \in Addrs : <<s, a>> \in intros /\ intros' = intros \ {<<s, a>>}
    /\ UNCHANGED <<phase, age, probe, recent, own>>

(* exchangePeers: GET /api/peers, answered with GetPeersList, or not.      *)
ExchangePeers(s) ==
    /\ probe[s].at = "exchange"
    /\ \/ NextSeed(s)
       \/ \E t \in Servers :
            /\ Serves(t) /\ Addr[t] = Head(probe[s].left)
            /\ probe' = [probe EXCEPT ![s] =
                 [at |-> "merge", left |-> @.left, learned |-> AlivePeers(t)]]
    /\ UNCHANGED <<phase, age, recent, intros, own>>

(* A mutation: the server does not look for itself in the list.            *)
MergeAll(s) ==
    /\ probe[s].at = "merge"
    /\ age' = [age EXCEPT ![s] = [p \in Servers |->
                 IF p \in probe[s].learned /\ ~Listed(s, p) THEN 0 ELSE age[s][p]]]
    /\ NextSeed(s)
    /\ UNCHANGED <<phase, recent, intros, own>>

(* The answer arrives: peers not in the table enter it as seen just now.   *)
MergePeers(s) ==
    /\ probe[s].at = "merge"
    /\ age' = [age EXCEPT ![s] = [p \in Servers |->
                 IF p \in probe[s].learned /\ p # s /\ ~Listed(s, p)
                 THEN 0 ELSE age[s][p]]]
    /\ NextSeed(s)
    /\ UNCHANGED <<phase, recent, intros, own>>

(* An operator registers a peer, at handlePeerRegister, which does not     *)
(* look whether it is the server itself.                                   *)
RegisterPeer(s, p) ==
    /\ <<s, p>> \in Registrations /\ Serves(s)
    /\ Saw(s, p)
    /\ own' = IF p = s THEN own \cup {s} ELSE own
    /\ UNCHANGED <<phase, probe, recent, intros>>
-----------------------------------------------------------------------------
(* healthPollLoop, for a peer that was in the table when the poll began:   *)
(* whoever is at its endpoint has answered, and under m.mu the entry that  *)
(* is now stored under the ID, if there is one, is refreshed.              *)
HealthPoll(s, p) ==
    /\ Serves(s)
    /\ \E t \in recent : Addr[t] = Addr[p]
    /\ IF Listed(s, p) THEN Saw(s, p) ELSE UNCHANGED age
    /\ UNCHANGED <<phase, probe, recent, intros, own>>

(* The body of cleanupLoop.                                                *)
Cleanup(s) ==
    /\ phase[s] = "up"
    /\ \E p \in Servers : Listed(s, p) /\ age[s][p] > Cutoff
    /\ age' = [age EXCEPT ![s] = [p \in Servers |->
                 IF Listed(s, p) /\ age[s][p] > Cutoff THEN None ELSE age[s][p]]]
    /\ UNCHANGED <<phase, probe, recent, intros, own>>

(* Time passes; an age beyond the cutoff is all the same.                  *)
Tick ==
    /\ \E s, p \in Servers : Listed(s, p) /\ age[s][p] <= Cutoff
    /\ age' = [s \in Servers |-> [p \in Servers |->
                 IF Listed(s, p) /\ age[s][p] <= Cutoff THEN age[s][p] + 1 ELSE age[s][p]]]
    /\ UNCHANGED <<phase, probe, recent, intros, own>>

Next ==
    \/ \E s \in Servers :
         \/ Start(s) \/ StartReturns(s) \/ Stop(s) \/ Exit(s) \/ Settle(s)
         \/ SeedProbe(s) \/ ProbeFails(s) \/ IntroduceSelf(s)
         \/ IntroductionLost(s) \/ ExchangePeers(s) \/ MergePeers(s) \/ Cleanup(s)
         \/ \E p \in Servers :
              \/ Beacon(p, s) \/ ProbeSeed(s, p) \/ RegisterPeer(s, p)
              \/ PeerIntroduce(s, p) \/ HealthPoll(s, p)
    \/ Tick

Spec == Init /\ [][Next]_vars
-----------------------------------------------------------------------------
(* No server is in its own table unless an operator has registered it      *)
(* there, though it hears its own beacons, may be its own seed, and is in  *)
(* the tables it is sent: it would forward jobs to itself (mesh.go:201,    *)
(* 261, 441, handlers.go:611; handlers.go:581-588 does not look).          *)
NeverOwnPeer == \A s \in Servers : Listed(s, s) => s \in own

(* Nothing is left that could tell anyone that p is there: nobody runs at  *)
(* its address, no table has p as alive (mesh.go:553-567), none with p in  *)
(* it is on its way, nor anything that was sent from its address.          *)
Forgotten(p) ==
    /\ \A t \in Servers : Addr[t] = Addr[p] => phase[t] = "down" /\ t \notin recent
    /\ \A s \in Servers : ~Alive(s, p) /\ p \notin probe[s].learned
    /\ \A a \in Addrs : <<p, a>> \notin intros

(* Someone starts at the address of p, or an operator registers p.         *)
ComesBack(p) ==
    \/ \E t \in Servers : Addr[t] = Addr[p] /\ phase'[t] = "starting"
    \/ \E s \in Servers : RegisterPeer(s, p)

(* A peer that is gone and no longer alive in any table is not brought     *)
(* back by the tables, polls, probes and introductions the others go on    *)
(* exchanging; only a start at its address or an operator does that.       *)
(* Until then servers do hand it on, each as seen just now (mesh.go:265),  *)
(* so README.md:487's 30 s are not what bounds its stay.                   *)
ForgottenForGood ==
    [][\A p \in Servers : Forgotten(p) => Forgotten(p)' \/ ComesBack(p)]_vars
=============================================================================

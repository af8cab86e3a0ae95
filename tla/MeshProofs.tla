----------------------------- MODULE MeshProofs -----------------------------
(***************************************************************************)
(* The mesh, for any number of servers, any addresses and any seeds: the   *)
(* types of the tables, that no server becomes its own peer, and that a    *)
(* peer that is gone and forgotten stays so.  Then the work the servers    *)
(* share (Forwarding), for any number of tasks and any sizes: results told *)
(* to clients are true, and tasks do not run more often than they should.  *)
(***************************************************************************)
EXTENDS Mesh, Forwarding, FiniteSetTheorems, TLAPS

(* Who does not run has no sweep under way.                                *)
AtRest == \A s \in Servers : phase[s] = "down" => probe[s].at = "idle"

IInv == TypeOK /\ NeverOwnPeer /\ AtRest

(* The two shapes of a sweep: at rest, or about to probe its first seed.   *)
LEMMA SweepType ==
    ASSUME NEW a \in Seq(Addrs)
    PROVE  /\ Sweep(a) \in [at : Steps, left : Seq(Addrs), learned : SUBSET Servers]
           /\ (Sweep(a).at = "idle") <=> (Sweep(a).left = <<>>)
  BY DEF Sweep, Steps

(* A server in a sweep has a seed left, and goes on to the next.           *)
LEMMA NextSeedType ==
    ASSUME TypeOK, NEW s \in Servers, probe[s].at # "idle", NextSeed(s)
    PROVE  /\ probe' \in [Servers ->
                 [at : Steps, left : Seq(Addrs), learned : SUBSET Servers]]
           /\ \A t \in Servers : (probe'[t].at = "idle") <=> (probe'[t].left = <<>>)
  <1>1. probe[s].left \in Seq(Addrs) /\ probe[s].left # <<>>
    BY DEF TypeOK
  <1>2. Tail(probe[s].left) \in Seq(Addrs)
    BY <1>1
  <1> DEFINE w == Sweep(Tail(probe[s].left))
  <1>3. /\ w \in [at : Steps, left : Seq(Addrs), learned : SUBSET Servers]
        /\ (w.at = "idle") <=> (w.left = <<>>)
    BY <1>2, SweepType
  <1>4. probe' = [probe EXCEPT ![s] = w]
    BY DEF NextSeed
  <1> HIDE DEF w
  <1> QED BY <1>3, <1>4 DEF TypeOK

(* Setting one entry's age to 0.                                           *)
LEMMA SawType ==
    ASSUME TypeOK, NeverOwnPeer, NEW s \in Servers, NEW p \in Servers, p # s,
           Saw(s, p), UNCHANGED own
    PROVE  /\ age' \in [Servers -> [Servers -> 0 .. Cutoff + 1 \cup {None}]]
           /\ NeverOwnPeer'
  <1>1. 0 \in 0 .. Cutoff + 1
    BY MeshAssumption
  <1> QED BY <1>1 DEF TypeOK, NeverOwnPeer, Listed, Saw

LEMMA InitIInv == Init => IInv
  <1> SUFFICES ASSUME Init PROVE IInv
    OBVIOUS
  <1>1. <<>> \in Seq(Addrs)
    OBVIOUS
  <1> DEFINE w == Sweep(<<>>)
  <1>3. /\ w \in [at : Steps, left : Seq(Addrs), learned : SUBSET Servers]
        /\ (w.at = "idle") <=> (w.left = <<>>)
    BY <1>1, SweepType
  <1>4. probe = [s \in Servers |-> w]
    BY DEF Init
  <1> HIDE DEF w
  <1>5. TypeOK
    BY <1>3, <1>4 DEF Init, TypeOK, NoPeers, Phases
  <1>6. NeverOwnPeer
    BY DEF Init, NeverOwnPeer, Listed, NoPeers
  <1>7. AtRest
    BY <1>4 DEF Init, AtRest, Sweep, w
  <1> QED BY <1>5, <1>6, <1>7 DEF IInv

(* One step per action, each for the variables it changes.                 *)
LEMMA StepTables == IInv /\ [Next]_vars => TypeOK' /\ NeverOwnPeer'
  <1> DEFINE G == TypeOK /\ NeverOwnPeer
  <1> SUFFICES ASSUME G, [Next]_vars PROVE G'
    BY DEF IInv
  <1>1. ASSUME NEW s \in Servers, Start(s) PROVE G'
    <2> DEFINE w == Sweep(Seeds[s])
    <2>1. /\ w \in [at : Steps, left : Seq(Addrs), learned : SUBSET Servers]
          /\ (w.at = "idle") <=> (w.left = <<>>)
      BY SweepType, MeshAssumption
    <2>2. probe' = [probe EXCEPT ![s] = w]
      BY <1>1 DEF Start
    <2> HIDE DEF w
    <2>3. /\ probe' \in [Servers ->
               [at : Steps, left : Seq(Addrs), learned : SUBSET Servers]]
          /\ \A t \in Servers : (probe'[t].at = "idle") <=> (probe'[t].left = <<>>)
      BY <2>1, <2>2 DEF TypeOK
    <2> QED BY <1>1, <2>2, <2>3 DEF Start, TypeOK, Phases, NeverOwnPeer, Listed
  <1>2. ASSUME NEW s \in Servers, StartReturns(s) PROVE G'
    BY <1>2 DEF StartReturns, TypeOK, Phases, NeverOwnPeer, Listed
  <1>3. ASSUME NEW s \in Servers, Stop(s) PROVE G'
    BY <1>3 DEF Stop, TypeOK, Phases, NeverOwnPeer, Listed
  <1>4. ASSUME NEW s \in Servers, Exit(s) PROVE G'
    <2> DEFINE w == Sweep(<<>>)
    <2>1. /\ w \in [at : Steps, left : Seq(Addrs), learned : SUBSET Servers]
          /\ (w.at = "idle") <=> (w.left = <<>>)
      <3>1. <<>> \in Seq(Addrs)
        OBVIOUS
      <3> QED BY <3>1, SweepType
    <2>2. probe' = [probe EXCEPT ![s] = w]
      BY <1>4 DEF Exit
    <2> HIDE DEF w
    <2>3. /\ probe' \in [Servers ->
               [at : Steps, left : Seq(Addrs), learned : SUBSET Servers]]
          /\ \A t \in Servers : (probe'[t].at = "idle") <=> (probe'[t].left = <<>>)
      BY <2>1, <2>2 DEF TypeOK
    <2>4. age' \in [Servers -> [Servers -> 0 .. Cutoff + 1 \cup {None}]]
      BY <1>4 DEF Exit, TypeOK, NoPeers
    <2>5. NeverOwnPeer'
      BY <1>4 DEF Exit, TypeOK, NoPeers, NeverOwnPeer, Listed
    <2> QED BY <1>4, <2>3, <2>4, <2>5 DEF Exit, TypeOK, Phases
  <1>5. ASSUME NEW p \in Servers, NEW s \in Servers, Beacon(p, s) PROVE G'
    <2>1. CASE p = s
      BY <1>5, <2>1 DEF Beacon, TypeOK, NeverOwnPeer, Listed
    <2>2. CASE p # s
      <3>1. Saw(s, p)
        BY <1>5, <2>2 DEF Beacon
      <3> QED BY <1>5, <2>2, <3>1, SawType DEF Beacon, TypeOK
    <2> QED BY <2>1, <2>2
  <1>6. ASSUME NEW s \in Servers, SeedProbe(s) PROVE G'
    <2> DEFINE w == Sweep(Seeds[s])
    <2>1. /\ w \in [at : Steps, left : Seq(Addrs), learned : SUBSET Servers]
          /\ (w.at = "idle") <=> (w.left = <<>>)
      BY SweepType, MeshAssumption
    <2>2. probe' = [probe EXCEPT ![s] = w]
      BY <1>6 DEF SeedProbe
    <2> HIDE DEF w
    <2> QED BY <1>6, <2>1, <2>2 DEF SeedProbe, TypeOK, NeverOwnPeer, Listed
  <1>7. ASSUME NEW s \in Servers, ProbeFails(s) PROVE G'
    <2>1. probe[s].at # "idle" /\ NextSeed(s)
      BY <1>7 DEF ProbeFails
    <2> QED BY <1>7, <2>1, NextSeedType DEF ProbeFails, TypeOK, NeverOwnPeer, Listed
  <1>8. ASSUME NEW s \in Servers, NEW t \in Servers, ProbeSeed(s, t) PROVE G'
    <2>1. /\ age' \in [Servers -> [Servers -> 0 .. Cutoff + 1 \cup {None}]]
          /\ NeverOwnPeer'
      BY <1>8, SawType DEF ProbeSeed
    <2> QED BY <1>8, <2>1 DEF ProbeSeed, TypeOK, Steps
  <1>9. ASSUME NEW s \in Servers, IntroduceSelf(s) PROVE G'
    <2>1. Head(probe[s].left) \in Addrs
      <3>1. probe[s].left \in Seq(Addrs) /\ probe[s].left # <<>>
        BY <1>9 DEF IntroduceSelf, TypeOK
      <3> QED BY <3>1
    <2>2. intros' \subseteq Servers \X Addrs
      BY <1>9, <2>1 DEF IntroduceSelf, TypeOK
    <2>3. /\ probe' \in [Servers ->
               [at : Steps, left : Seq(Addrs), learned : SUBSET Servers]]
          /\ \A t \in Servers : (probe'[t].at = "idle") <=> (probe'[t].left = <<>>)
      BY <1>9 DEF IntroduceSelf, TypeOK, Steps
    <2> QED BY <1>9, <2>2, <2>3 DEF IntroduceSelf, TypeOK, NeverOwnPeer, Listed
  <1>10. ASSUME NEW s \in Servers, ExchangePeers(s) PROVE G'
    <2>1. CASE NextSeed(s)
      <3>1. probe[s].at # "idle"
        BY <1>10 DEF ExchangePeers
      <3> QED BY <1>10, <2>1, <3>1, NextSeedType DEF ExchangePeers, TypeOK, NeverOwnPeer, Listed
    <2>2. ASSUME NEW t \in Servers,
                 probe' = [probe EXCEPT ![s] =
                             [at |-> "merge", left |-> @.left, learned |-> AlivePeers(t)]]
          PROVE  G'
      <3> DEFINE v == [at |-> "merge", left |-> probe[s].left, learned |-> AlivePeers(t)]
      <3>1. /\ v \in [at : Steps, left : Seq(Addrs), learned : SUBSET Servers]
            /\ v.at # "idle" /\ v.left # <<>>
        <4>1. AlivePeers(t) \subseteq Servers
          BY DEF AlivePeers
        <4>2. probe[s].left \in Seq(Addrs) /\ probe[s].left # <<>>
          BY <1>10 DEF ExchangePeers, TypeOK
        <4> QED BY <4>1, <4>2 DEF Steps
      <3>2. probe' = [probe EXCEPT ![s] = v]
        BY <2>2
      <3> HIDE DEF v
      <3> QED BY <1>10, <3>1, <3>2 DEF ExchangePeers, TypeOK, NeverOwnPeer, Listed, Steps
    <2> QED BY <1>10, <2>1, <2>2 DEF ExchangePeers
  <1>11. ASSUME NEW s \in Servers, MergePeers(s) PROVE G'
    <2>1. probe[s].at # "idle" /\ NextSeed(s)
      BY <1>11 DEF MergePeers
    <2>2. 0 \in 0 .. Cutoff + 1
      BY MeshAssumption
    <2>3. age' \in [Servers -> [Servers -> 0 .. Cutoff + 1 \cup {None}]]
      BY <1>11, <2>2 DEF MergePeers, TypeOK
    <2>4. NeverOwnPeer'
      BY <1>11 DEF MergePeers, TypeOK, NeverOwnPeer, Listed
    <2> QED BY <1>11, <2>1, <2>3, <2>4, NextSeedType DEF MergePeers, TypeOK
  <1>12. ASSUME NEW s \in Servers, NEW p \in Servers, RegisterPeer(s, p) PROVE G'
    <2>1. 0 \in 0 .. Cutoff + 1
      BY MeshAssumption
    <2>2. age' \in [Servers -> [Servers -> 0 .. Cutoff + 1 \cup {None}]]
      BY <1>12, <2>1 DEF RegisterPeer, Saw, TypeOK
    <2>3. own' \subseteq Servers /\ own \subseteq own' /\ (p = s => s \in own')
      BY <1>12 DEF RegisterPeer, TypeOK
    <2>4. \A t \in Servers : Listed(t, t)' => Listed(t, t) \/ (t = s /\ p = s)
      BY <1>12 DEF RegisterPeer, Saw, TypeOK, Listed
    <2>5. NeverOwnPeer'
      BY <2>3, <2>4 DEF NeverOwnPeer
    <2> QED BY <1>12, <2>2, <2>3, <2>5 DEF RegisterPeer, TypeOK
  <1>13. ASSUME NEW s \in Servers, NEW p \in Servers, HealthPoll(s, p) PROVE G'
    <2>1. CASE Listed(s, p)
      <3>1. 0 \in 0 .. Cutoff + 1
        BY MeshAssumption
      <3>0. age' = [age EXCEPT ![s][p] = 0]
        BY <1>13, <2>1 DEF HealthPoll, Saw
      <3>2. age' \in [Servers -> [Servers -> 0 .. Cutoff + 1 \cup {None}]]
        BY <3>0, <3>1 DEF TypeOK
      <3>3. \A t \in Servers : Listed(t, t)' => Listed(t, t)
        BY <2>1, <3>0 DEF TypeOK, Listed
      <3> QED BY <1>13, <3>2, <3>3 DEF HealthPoll, TypeOK, NeverOwnPeer
    <2>2. CASE ~Listed(s, p)
      BY <1>13, <2>2 DEF HealthPoll, TypeOK, NeverOwnPeer, Listed
    <2> QED BY <2>1, <2>2
  <1>14. ASSUME NEW s \in Servers, Cleanup(s) PROVE G'
    <2>1. age' \in [Servers -> [Servers -> 0 .. Cutoff + 1 \cup {None}]]
      BY <1>14 DEF Cleanup, TypeOK
    <2>2. NeverOwnPeer'
      BY <1>14 DEF Cleanup, TypeOK, NeverOwnPeer, Listed
    <2> QED BY <1>14, <2>1, <2>2 DEF Cleanup, TypeOK
  <1>15. ASSUME Tick PROVE G'
    <2>1. \A s, p \in Servers :
             Listed(s, p) /\ age[s][p] <= Cutoff => age[s][p] + 1 \in 0 .. Cutoff + 1
      BY MeshAssumption DEF TypeOK, Listed
    <2>2. age' \in [Servers -> [Servers -> 0 .. Cutoff + 1 \cup {None}]]
      BY <1>15, <2>1 DEF Tick, TypeOK
    <2>4. NeverOwnPeer'
      BY <1>15 DEF Tick, TypeOK, NeverOwnPeer, Listed
    <2> QED BY <1>15, <2>2, <2>4 DEF Tick, TypeOK
  <1>17. ASSUME NEW s \in Servers, Settle(s) PROVE G'
    BY <1>17 DEF Settle, TypeOK, NeverOwnPeer, Listed
  <1>18. ASSUME NEW s \in Servers, IntroductionLost(s) PROVE G'
    BY <1>18 DEF IntroductionLost, TypeOK, NeverOwnPeer, Listed
  <1>19. ASSUME NEW t \in Servers, NEW s \in Servers, PeerIntroduce(t, s) PROVE G'
    <2>1. CASE s = t
      BY <1>19, <2>1 DEF PeerIntroduce, TypeOK, NeverOwnPeer, Listed
    <2>2. CASE s # t
      <3>1. Saw(t, s)
        BY <1>19, <2>2 DEF PeerIntroduce
      <3> QED BY <1>19, <2>2, <3>1, SawType DEF PeerIntroduce, TypeOK
    <2> QED BY <2>1, <2>2
  <1>16. ASSUME UNCHANGED vars PROVE G'
    BY <1>16 DEF vars, TypeOK, NeverOwnPeer, Listed
  <1> QED
    BY <1>1, <1>2, <1>3, <1>4, <1>5, <1>6, <1>7, <1>8, <1>9, <1>10, <1>11,
       <1>12, <1>13, <1>14, <1>15, <1>16, <1>17, <1>18, <1>19 DEF Next

(* A sweep begins with the server, and its process ends it.                *)
LEMMA StepAtRest == IInv /\ [Next]_vars => AtRest'
  <1> SUFFICES ASSUME IInv, [Next]_vars PROVE AtRest'
    OBVIOUS
  <1> USE DEF IInv, AtRest
  <1>1. ASSUME NEW s \in Servers, Start(s) \/ StartReturns(s) \/ Stop(s) PROVE AtRest'
    BY <1>1 DEF Start, StartReturns, Stop, TypeOK
  <1>2. ASSUME NEW s \in Servers, Exit(s) PROVE AtRest'
    BY <1>2 DEF Exit, Sweep, TypeOK
  <1>3. ASSUME NEW s \in Servers, SeedProbe(s) PROVE AtRest'
    <2>1. phase[s] # "down"
      BY <1>3 DEF SeedProbe, Serves
    <2> QED BY <1>3, <2>1 DEF SeedProbe, TypeOK
  <1>4. ASSUME NEW s \in Servers,
               ProbeFails(s) \/ IntroduceSelf(s) \/ ExchangePeers(s) \/ MergePeers(s)
                 \/ (\E t \in Servers : ProbeSeed(s, t))
        PROVE  AtRest'
    <2>1. probe[s].at # "idle" /\ UNCHANGED phase
      BY <1>4 DEF ProbeFails, IntroduceSelf, ExchangePeers, MergePeers, ProbeSeed
    <2>2. \A t \in Servers : t # s => probe'[t] = probe[t]
      BY <1>4 DEF ProbeFails, IntroduceSelf, ExchangePeers, MergePeers, ProbeSeed, NextSeed, TypeOK
    <2> QED BY <2>1, <2>2
  <1>5. ASSUME UNCHANGED <<phase, probe>> PROVE AtRest'
    BY <1>5
  <1>6. ASSUME NEW s \in Servers,
               \/ Settle(s) \/ IntroductionLost(s) \/ Cleanup(s)
               \/ \E p \in Servers : \/ Beacon(p, s) \/ RegisterPeer(s, p)
                                     \/ PeerIntroduce(s, p) \/ HealthPoll(s, p)
        PROVE  UNCHANGED <<phase, probe>>
    BY <1>6 DEF Settle, IntroductionLost, Cleanup, Beacon, RegisterPeer, PeerIntroduce, HealthPoll
  <1>7. Tick \/ UNCHANGED vars => UNCHANGED <<phase, probe>>
    BY DEF Tick, vars
  <1> HIDE DEF AtRest
  <1> QED BY <1>1, <1>2, <1>3, <1>4, <1>5, <1>6, <1>7 DEF Next

LEMMA StepIInv == IInv /\ [Next]_vars => IInv'
  BY StepTables, StepAtRest DEF IInv

(* The tables stay tables and a sweep always has a seed to go on with      *)
(* (mesh.go:30-51, 188-271).                                               *)
THEOREM MeshTypes == Spec => []TypeOK
  <1>1. IInv => TypeOK
    BY DEF IInv
  <1> QED BY <1>1, InitIInv, StepIInv, PTL DEF Spec

(* Beacons, probes, introductions, tables and polls never enter a server   *)
(* in its own table: only an operator does, since its process started      *)
(* (mesh.go:201, 261, 441, handlers.go:611, 581-588).                      *)
THEOREM NobodyIsOwnPeer == Spec => []NeverOwnPeer
  <1>1. IInv => NeverOwnPeer
    BY DEF IInv
  <1> QED BY <1>1, InitIInv, StepIInv, PTL DEF Spec

(* A step keeps a peer that is gone and forgotten so, or is its return.    *)
LEMMA StepForgotten ==
    ASSUME IInv, [Next]_vars, NEW p \in Servers, Forgotten(p)
    PROVE  Forgotten(p)' \/ ComesBack(p)
  <1> USE DEF IInv, Forgotten, Alive, Listed
  <1>0. phase[p] = "down" /\ p \notin recent /\ 0 < Cutoff
    BY MeshAssumption
  <1>1. ASSUME NEW s \in Servers, Start(s) PROVE Forgotten(p)' \/ ComesBack(p)
    <2>1. CASE Addr[s] = Addr[p]
      BY <1>1, <2>1 DEF Start, TypeOK, ComesBack
    <2>2. CASE Addr[s] # Addr[p]
      BY <1>1, <2>2 DEF Start, TypeOK, Sweep
    <2> QED BY <2>1, <2>2
  <1>2. ASSUME NEW s \in Servers, StartReturns(s) PROVE Forgotten(p)'
    BY <1>2 DEF StartReturns, TypeOK
  <1>3. ASSUME NEW s \in Servers, Stop(s) PROVE Forgotten(p)'
    BY <1>3 DEF Stop, TypeOK
  <1>4. ASSUME NEW s \in Servers, Exit(s) PROVE Forgotten(p)'
    BY <1>4 DEF Exit, TypeOK, NoPeers, Sweep
  <1>5. ASSUME NEW q \in Servers, NEW s \in Servers, Beacon(q, s) PROVE Forgotten(p)'
    <2>1. CASE q = s
      BY <1>5, <2>1 DEF Beacon
    <2>2. CASE q # s
      <3>1. age' = [age EXCEPT ![s][q] = 0] /\ q # p
        BY <1>0, <1>5, <2>2 DEF Beacon, Saw
      <3> QED BY <1>5, <3>1 DEF Beacon, TypeOK
    <2> QED BY <2>1, <2>2
  <1>6. ASSUME NEW s \in Servers, SeedProbe(s) PROVE Forgotten(p)'
    BY <1>6 DEF SeedProbe, Sweep, TypeOK
  <1>7. ASSUME NEW s \in Servers, ProbeFails(s) PROVE Forgotten(p)'
    BY <1>7 DEF ProbeFails, NextSeed, Sweep, TypeOK
  <1>8. ASSUME NEW s \in Servers, NEW t \in Servers, ProbeSeed(s, t) PROVE Forgotten(p)'
    BY <1>0, <1>8 DEF ProbeSeed, Saw, TypeOK
  <1>9. ASSUME NEW s \in Servers, IntroduceSelf(s) PROVE Forgotten(p)'
    <2>1. s # p
      BY <1>0, <1>9 DEF IntroduceSelf, AtRest
    <2> QED BY <1>9, <2>1 DEF IntroduceSelf, TypeOK
  <1>10. ASSUME NEW s \in Servers, ExchangePeers(s) PROVE Forgotten(p)'
    <2>1. CASE NextSeed(s)
      BY <1>10, <2>1 DEF ExchangePeers, NextSeed, Sweep, TypeOK
    <2>2. ASSUME NEW t \in Servers,
                 probe' = [probe EXCEPT ![s] =
                             [at |-> "merge", left |-> @.left, learned |-> AlivePeers(t)]]
          PROVE  Forgotten(p)'
      <3>1. p \notin AlivePeers(t)
        BY DEF AlivePeers
      <3> QED BY <1>10, <2>2, <3>1 DEF ExchangePeers, TypeOK
    <2> QED BY <1>10, <2>1, <2>2 DEF ExchangePeers
  <1>11. ASSUME NEW s \in Servers, MergePeers(s) PROVE Forgotten(p)'
    BY <1>11 DEF MergePeers, NextSeed, Sweep, TypeOK
  <1>12. ASSUME NEW s \in Servers, NEW q \in Servers, RegisterPeer(s, q)
         PROVE  Forgotten(p)' \/ ComesBack(p)
    <2>1. CASE q = p
      BY <1>12, <2>1 DEF ComesBack
    <2>2. CASE q # p
      BY <1>12, <2>2 DEF RegisterPeer, Saw, TypeOK
    <2> QED BY <2>1, <2>2
  <1>13. ASSUME NEW s \in Servers, NEW q \in Servers, HealthPoll(s, q) PROVE Forgotten(p)'
    <2>1. q # p
      BY <1>13 DEF HealthPoll, TypeOK
    <2>2. CASE age' = [age EXCEPT ![s][q] = 0]
      BY <1>13, <2>1, <2>2 DEF HealthPoll, TypeOK
    <2>3. CASE UNCHANGED age
      BY <1>13, <2>3 DEF HealthPoll
    <2> QED BY <1>13, <2>2, <2>3 DEF HealthPoll, Saw
  <1>14. ASSUME NEW s \in Servers, Cleanup(s) PROVE Forgotten(p)'
    BY <1>14 DEF Cleanup, TypeOK
  <1>15. ASSUME Tick PROVE Forgotten(p)'
    <2>1. \A s \in Servers : ~Alive(s, p)'
      BY <1>15, MeshAssumption DEF Tick, TypeOK
    <2> QED BY <1>15, <2>1 DEF Tick
  <1>16. ASSUME UNCHANGED vars PROVE Forgotten(p)'
    BY <1>16 DEF vars
  <1>17. ASSUME NEW s \in Servers, Settle(s) PROVE Forgotten(p)'
    BY <1>17 DEF Settle, TypeOK
  <1>18. ASSUME NEW s \in Servers, IntroductionLost(s) PROVE Forgotten(p)'
    BY <1>18 DEF IntroductionLost, TypeOK
  <1>19. ASSUME NEW t \in Servers, NEW s \in Servers, PeerIntroduce(t, s) PROVE Forgotten(p)'
    <2>1. s # p
      <3>1. Addr[t] \in Addrs
        BY MeshAssumption
      <3> QED BY <1>19, <3>1 DEF PeerIntroduce
    <2>2. CASE age' = [age EXCEPT ![t][s] = 0]
      BY <1>19, <2>1, <2>2 DEF PeerIntroduce, TypeOK
    <2>3. CASE UNCHANGED age
      BY <1>19, <2>3 DEF PeerIntroduce
    <2> QED BY <1>19, <2>2, <2>3 DEF PeerIntroduce, Saw
  <1> QED
    BY <1>1, <1>2, <1>3, <1>4, <1>5, <1>6, <1>7, <1>8, <1>9, <1>10, <1>11,
       <1>12, <1>13, <1>14, <1>15, <1>16, <1>17, <1>18, <1>19 DEF Next

(* What the servers go on telling each other does not bring back a peer    *)
(* that is gone and that no table has as alive, whoever is whose seed and  *)
(* whoever shares an address (mesh.go:246-271, 501-567).                   *)
THEOREM GonePeersStayGone == Spec => ForgottenForGood
  <1>1. IInv /\ [Next]_vars =>
          [\A p \in Servers : Forgotten(p) => Forgotten(p)' \/ ComesBack(p)]_vars
    BY StepForgotten
  <1> QED BY <1>1, InitIInv, StepIInv, PTL DEF Spec, ForgottenForGood

-----------------------------------------------------------------------------
(* The work that the servers of the mesh share.  A table of peers may be   *)
(* out of date in any way, so nothing of Mesh is used but the servers.     *)

(* A result that comes with "completed" is of a run of a task with the key. *)
IsTrue(o, t) ==
    o.status = "completed" /\ o.of # None =>
        /\ o.of \in Tasks /\ Key(o.of) = Key(t)
        /\ \E s \in Servers : status[s][o.of] = "completed"

(* Where a task has been: it is submitted once to its server and once to a *)
(* peer, and to both only if the first did not work out.                   *)
Stage(t) ==
    LET here == status[at[t]][t]
    IN  /\ peer[t] # at[t] /\ \A s \in Servers : s \notin {at[t], peer[t]} => status[s][t] = "none"
        /\ peer[t] = None => fpc[t] = "none" /\ pc[t] \notin {"post", "wait", "here"}
        /\ peer[t] # None => pc[t] \notin {"new", "poll"} /\ (t \notin failed => here \in {"none", "refused"})
        /\ pc[t] = "new" => here = "none" /\ t \notin failed
        /\ pc[t] = "here" => t \in failed
        /\ pc[t] = "post" => status[peer[t]][t] = "none"
        /\ pc[t] \in {"poll", "direct"} => route[t] = "openai"
        /\ pc[t] \in {"post", "wait", "here"} /\ route[t] = "job" => here = "none"
        /\ pc[t] = "direct" => here = "refused" /\ (t \in failed \/ peer[t] = None)

(* The channel holds pending jobs, each once, and the maps hold jobs under *)
(* their own keys.                                                         *)
QueuesInv ==
    \A s \in Servers :
        /\ \A i \in 1 .. Len(jobCh[s]) : status[s][jobCh[s][i]] = "pending"
        /\ \A i, j \in 1 .. Len(jobCh[s]) : jobCh[s][i] = jobCh[s][j] => i = j
        /\ \A k \in Keys : running[s][k] # None => Key(running[s][k]) = k
        /\ \A k \in Keys : completed[s][k] # None => Key(completed[s][k]) = k

ForwardInv ==
    /\ ForwardingTypeOK /\ QueuesInv
    /\ \A t \in Tasks : Stage(t) /\ IsTrue(reply[t], t) /\ IsTrue(answer[t], t)

LEMMA ForwardInit == ASSUME ForwardingInit PROVE ForwardInv
  <1>1. ForwardingTypeOK
    <2>1. Nothing \in Outcomes /\ <<>> \in Seq(Tasks) /\ Len(<<>>) <= ChanCap
      BY TaskAssumption, SizeAssumption DEF Nothing, Outcomes
    <2> HIDE DEF Nothing
    <2>2. at \in [Tasks -> Servers]
      BY TaskAssumption DEF ForwardingInit
    <2> QED BY <2>1, <2>2, SizeAssumption DEF ForwardingInit, ForwardingTypeOK, Statuses
  <1>2. QueuesInv
    <2>1. ASSUME NEW s \in Servers PROVE Len(jobCh[s]) = 0
      BY DEF ForwardingInit
    <2>2. \A s \in Servers, k \in Keys : running[s][k] = None /\ completed[s][k] = None
      BY DEF ForwardingInit
    <2>3. 1 .. 0 = {}
      OBVIOUS
    <2> QED BY <2>1, <2>2, <2>3 DEF QueuesInv
  <1>3. \A t \in Tasks : Stage(t)
    BY TaskAssumption DEF ForwardingInit, Stage
  <1>4. \A t \in Tasks : IsTrue(reply[t], t) /\ IsTrue(answer[t], t)
    BY TaskAssumption DEF ForwardingInit, IsTrue, Nothing
  <1> QED BY <1>1, <1>2, <1>3, <1>4 DEF ForwardInv

(* Steps that do not concern where a task has been.                        *)
Active == {"pending", "running", "completing", "failing", "completed", "failed", "missing", "lost"}
LEMMA StageKept ==
    ASSUME ForwardingTypeOK, NEW t \in Tasks, Stage(t), UNCHANGED <<at, route>>,
           peer'[t] = peer[t], t \in failed' <=> t \in failed,
           pc'[t] = pc[t] \/ pc'[t] = "done",
           fpc'[t] = "none" \/ fpc[t] # "none",
           \A s \in Servers : \/ status'[s][t] = status[s][t]
                              \/ status[s][t] \in Active /\ status'[s][t] \in Active
    PROVE  Stage(t)'
  <1>1. at[t] \in Servers /\ (peer[t] # None => peer[t] \in Servers)
    BY DEF ForwardingTypeOK
  <1> QED BY <1>1 DEF Stage, Active

(* What was true of a run stays true.                                      *)
LEMMA TruthKept ==
    ASSUME UNCHANGED <<at, route>>,
           \A s \in Servers, u \in Tasks : status[s][u] = "completed" => status'[s][u] = "completed",
           NEW t \in Tasks, NEW o, IsTrue(o, t)
    PROVE  o.status = "completed" /\ o.of # None =>
               /\ o.of \in Tasks /\ Key(o.of)' = Key(t)'
               /\ \E s \in Servers : status'[s][o.of] = "completed"
  BY DEF IsTrue, Key

(* A task is submitted to a server that has not had it.                    *)
LEMMA SubmitKeeps ==
    ASSUME ForwardingTypeOK, QueuesInv, NEW s \in Servers, NEW t \in Tasks, status[s][t] = "none",
           Submit(s, t), UNCHANGED <<running, completed, at, route>>
    PROVE  /\ status' \in [Servers -> [Tasks -> Statuses]]
           /\ jobCh' \in [Servers -> Seq(Tasks)] /\ \A r \in Servers : Len(jobCh'[r]) <= ChanCap
           /\ QueuesInv'
           /\ status'[s][t] = IF Full(s) THEN "refused" ELSE "pending"
           /\ \A r \in Servers, u \in Tasks : r # s \/ u # t => status'[r][u] = status[r][u]
  <1>1. /\ status \in [Servers -> [Tasks -> Statuses]] /\ jobCh \in [Servers -> Seq(Tasks)]
        /\ \A r \in Servers : Len(jobCh[r]) <= ChanCap
    BY DEF ForwardingTypeOK
  <1>2. /\ status' = [status EXCEPT ![s][t] = IF Full(s) THEN "refused" ELSE "pending"]
        /\ jobCh' = IF Full(s) THEN jobCh ELSE [jobCh EXCEPT ![s] = Append(@, t)]
    BY DEF Submit
  <1>3. /\ status' \in [Servers -> [Tasks -> Statuses]]
        /\ status'[s][t] = IF Full(s) THEN "refused" ELSE "pending"
        /\ \A r \in Servers, u \in Tasks : r # s \/ u # t => status'[r][u] = status[r][u]
    BY <1>1, <1>2 DEF Statuses
  <1>4. /\ jobCh' \in [Servers -> Seq(Tasks)] /\ \A r \in Servers : Len(jobCh'[r]) <= ChanCap
        /\ \A r \in Servers : jobCh'[r] = jobCh[r] \/ (r = s /\ ~Full(s) /\ jobCh'[r] = Append(jobCh[s], t))
    <2>1. CASE Full(s)
      BY <1>1, <1>2, <2>1
    <2>2. CASE ~Full(s)
      <3>1. Len(jobCh[s]) < ChanCap /\ jobCh[s] \in Seq(Tasks) /\ Len(jobCh[s]) \in Nat /\ ChanCap \in Nat
        BY <1>1, <2>2, SizeAssumption DEF Full
      <3>2. Append(jobCh[s], t) \in Seq(Tasks) /\ Len(Append(jobCh[s], t)) <= ChanCap
        BY <3>1
      <3>3. jobCh' = [jobCh EXCEPT ![s] = Append(jobCh[s], t)]
        BY <1>2, <2>2
      <3> HIDE DEF Full
      <3> QED BY <1>1, <2>2, <3>2, <3>3
    <2> QED BY <2>1, <2>2
  <1>5. ASSUME NEW r \in Servers
        PROVE  /\ \A i \in 1 .. Len(jobCh'[r]) : status'[r][jobCh'[r][i]] = "pending"
               /\ \A i, j \in 1 .. Len(jobCh'[r]) : jobCh'[r][i] = jobCh'[r][j] => i = j
    <2> DEFINE q == jobCh[r]
    <2>1. /\ q \in Seq(Tasks) /\ \A i \in 1 .. Len(q) : status[r][q[i]] = "pending" /\ q[i] \in Tasks
          /\ \A i, j \in 1 .. Len(q) : q[i] = q[j] => i = j
      BY <1>1 DEF QueuesInv
    <2>2. \A i \in 1 .. Len(q) : status'[r][q[i]] = "pending" /\ (r = s => q[i] # t)
      <3>1. \A i \in 1 .. Len(q) : r = s => q[i] # t
        BY <2>1
      <3> QED BY <1>3, <2>1, <3>1
    <2>3. CASE jobCh'[r] = q
      BY <2>1, <2>2, <2>3
    <2>4. CASE r = s /\ ~Full(s) /\ jobCh'[r] = Append(q, t)
      <3>1. /\ Len(jobCh'[r]) = Len(q) + 1 /\ Len(q) \in Nat /\ jobCh'[r][Len(q) + 1] = t
            /\ \A i \in 1 .. Len(q) : jobCh'[r][i] = q[i]
        BY <2>1, <2>4
      <3>2. status'[r][t] = "pending"
        BY <1>3, <2>4
      <3> HIDE DEF q
      <3>3. \A i \in 1 .. Len(q) + 1 : i \in 1 .. Len(q) \/ i = Len(q) + 1
        BY <3>1
      <3> QED BY <2>1, <2>2, <2>4, <3>1, <3>2, <3>3
    <2> QED BY <1>4, <2>3, <2>4
  <1>6. QueuesInv'
    BY <1>5 DEF QueuesInv, Keys, Key
  <1> QED BY <1>3, <1>4, <1>6

(* Of the job a poll finds, and of its outcome.                            *)
LEMMA JobFound ==
    ASSUME ForwardingTypeOK, QueuesInv, NEW s \in Servers, NEW t \in Tasks,
           GetJob(s, Key(t)) # None
    PROVE  /\ GetJob(s, Key(t)) \in Tasks
           /\ Key(GetJob(s, Key(t))) = Key(t)
  <1>1. Key(t) \in Keys
    BY TaskAssumption DEF ForwardingTypeOK, Key, Keys, Routes
  <1>2. /\ running[s][Key(t)] \in Tasks \cup {None}
        /\ completed[s][Key(t)] \in Tasks \cup {None}
    BY <1>1 DEF ForwardingTypeOK
  <1> HIDE DEF Key, Keys
  <1> QED BY <1>1, <1>2 DEF QueuesInv, GetJob

(* A step of a handler that leaves the queues alone.                       *)
QueuesSame == UNCHANGED <<jobCh, running, completed, status, at, route>>
LEMMA QuietQueues ==
    ASSUME ForwardInv, QueuesSame
    PROVE  /\ QueuesInv'
           /\ \A s \in Servers, u \in Tasks : status'[s][u] = status[s][u]
           /\ \A t \in Tasks : \A o : IsTrue(o, t) =>
                 (o.status = "completed" /\ o.of # None =>
                    /\ o.of \in Tasks /\ Key(o.of)' = Key(t)'
                    /\ \E s \in Servers : status'[s][o.of] = "completed")
  BY DEF ForwardInv, QueuesSame, QueuesInv, Key, Keys, IsTrue

LEMMA WorkerKeeps ==
    ASSUME ForwardInv, NEW s \in Servers, WorkerStarts(s) \/ WorkerSetsStatus(s) \/ WorkerEnds(s)
    PROVE  ForwardInv'
  <1>0. ForwardingTypeOK /\ QueuesInv
    BY DEF ForwardInv
  <1>T. /\ status \in [Servers -> [Tasks -> Statuses]] /\ jobCh \in [Servers -> Seq(Tasks)]
        /\ running \in [Servers -> [Keys -> Tasks \cup {None}]]
        /\ completed \in [Servers -> [Keys -> Tasks \cup {None}]]
    BY <1>0 DEF ForwardingTypeOK
  <1>K. \A t \in Tasks : Key(t) \in Keys
    BY <1>0, TaskAssumption DEF ForwardingTypeOK, Key, Keys, Routes
  <1>1. UNCHANGED <<at, route, pc, peer, fpc, reply, answer, failed>>
    BY DEF WorkerStarts, WorkerSetsStatus, WorkerEnds, handlerVars, env
  <1>2. \A t \in Tasks : Key(t)' = Key(t)
    BY <1>1 DEF Key
  <1> HIDE DEF Key, Keys
  <1>3. PICK t \in Tasks, new \in Active \ {"pending", "lost"} :
           /\ status' = [status EXCEPT ![s][t] = new]
           /\ status[s][t] \in {"pending", "running", "completing", "failing"}
           /\ \/ running' = running
              \/ running' = [running EXCEPT ![s][Key(t)] = t]
              \/ running' = [running EXCEPT ![s][Key(t)] = None]
           /\ completed' = completed \/ completed' = [completed EXCEPT ![s][Key(t)] = t]
           /\ IF new = "running"
              THEN /\ status[s][t] = "pending" /\ jobCh[s] # <<>> /\ t = Head(jobCh[s])
                   /\ jobCh' = [jobCh EXCEPT ![s] = Tail(jobCh[s])]
              ELSE status[s][t] # "pending" /\ jobCh' = jobCh
    <2> USE DEF Active
    <2>3. CASE WorkerSetsStatus(s)
      <3>1. PICK t \in Tasks, o \in {"completing", "failing"} :
               status[s][t] = "running" /\ status' = [status EXCEPT ![s][t] = o]
        BY <2>3 DEF WorkerSetsStatus
      <3>2. UNCHANGED <<jobCh, running, completed>>
        BY <2>3 DEF WorkerSetsStatus
      <3> QED BY <3>1, <3>2
    <2>1. CASE WorkerStarts(s)
      <3> DEFINE t == Head(jobCh[s])
      <3>1. jobCh[s] # <<>> /\ jobCh[s] \in Seq(Tasks)
        BY <1>T, <2>1 DEF WorkerStarts
      <3>2. t \in Tasks /\ t = jobCh[s][1] /\ 1 \in 1 .. Len(jobCh[s])
        BY <3>1
      <3>3. status[s][t] = "pending"
        BY <1>0, <3>2 DEF QueuesInv
      <3>4. /\ running' = [running EXCEPT ![s][Key(t)] = t] /\ status' = [status EXCEPT ![s][t] = "running"]
            /\ jobCh' = [jobCh EXCEPT ![s] = Tail(jobCh[s])] /\ completed' = completed
        BY <2>1 DEF WorkerStarts
      <3>5. t = Head(jobCh[s])
        OBVIOUS
      <3> HIDE DEF t
      <3> QED BY <3>1, <3>2, <3>3, <3>4, <3>5
    <2>2. CASE WorkerEnds(s)
      <3>1. PICK t \in Tasks, o \in {"completed", "failed", "missing"} :
               /\ status[s][t] = IF o = "completed" THEN "completing" ELSE "failing"
               /\ status' = [status EXCEPT ![s][t] = o]
               /\ running' = [running EXCEPT ![s][Key(t)] = None]
               /\ completed' = [completed EXCEPT ![s][Key(t)] = t]
        BY <2>2 DEF WorkerEnds
      <3>2. status[s][t] \in {"completing", "failing"} /\ jobCh' = jobCh
        BY <2>2, <3>1 DEF WorkerEnds
      <3> QED BY <3>1, <3>2
    <2> QED BY <2>1, <2>2, <2>3
  <1>4. /\ status' \in [Servers -> [Tasks -> Statuses]] /\ status'[s][t] = new
        /\ \A r \in Servers, u \in Tasks : r # s \/ u # t => status'[r][u] = status[r][u]
    BY <1>3, <1>T DEF Statuses, Active
  <1>5. /\ running' \in [Servers -> [Keys -> Tasks \cup {None}]]
        /\ completed' \in [Servers -> [Keys -> Tasks \cup {None}]]
        /\ \A r \in Servers, k \in Keys :
              /\ running'[r][k] \in {running[r][k], None} \/ (k = Key(t) /\ running'[r][k] = t)
              /\ completed'[r][k] = completed[r][k] \/ (k = Key(t) /\ completed'[r][k] = t)
    <2>1. /\ running' \in [Servers -> [Keys -> Tasks \cup {None}]]
          /\ \A r \in Servers, k \in Keys :
                running'[r][k] \in {running[r][k], None} \/ (k = Key(t) /\ running'[r][k] = t)
      <3>1. CASE running' = running
        BY <1>T, <3>1
      <3>2. CASE running' = [running EXCEPT ![s][Key(t)] = t]
        BY <1>K, <1>T, <3>2
      <3>3. CASE running' = [running EXCEPT ![s][Key(t)] = None]
        BY <1>K, <1>T, <3>3
      <3> QED BY <1>3, <3>1, <3>2, <3>3
    <2>2. /\ completed' \in [Servers -> [Keys -> Tasks \cup {None}]]
          /\ \A r \in Servers, k \in Keys :
                completed'[r][k] = completed[r][k] \/ (k = Key(t) /\ completed'[r][k] = t)
      <3>1. CASE completed' = completed
        BY <1>T, <3>1
      <3>2. CASE completed' = [completed EXCEPT ![s][Key(t)] = t]
        BY <1>K, <1>T, <3>2
      <3> QED BY <1>3, <3>1, <3>2
    <2> QED BY <2>1, <2>2
  <1>6. /\ jobCh' \in [Servers -> Seq(Tasks)] /\ \A r \in Servers : Len(jobCh'[r]) <= ChanCap
        /\ \A r \in Servers :
              /\ \A i \in 1 .. Len(jobCh'[r]) : status'[r][jobCh'[r][i]] = "pending"
              /\ \A i, j \in 1 .. Len(jobCh'[r]) : jobCh'[r][i] = jobCh'[r][j] => i = j
    <2>0. \A r \in Servers :
             /\ jobCh[r] \in Seq(Tasks) /\ Len(jobCh[r]) <= ChanCap /\ ChanCap \in Nat
             /\ \A i \in 1 .. Len(jobCh[r]) : jobCh[r][i] \in Tasks /\ status[r][jobCh[r][i]] = "pending"
             /\ \A i, j \in 1 .. Len(jobCh[r]) : jobCh[r][i] = jobCh[r][j] => i = j
      BY <1>0, SizeAssumption DEF QueuesInv, ForwardingTypeOK
    <2>1. CASE new # "running"
      <3>1. jobCh' = jobCh /\ status[s][t] # "pending"
        BY <1>3, <2>1
      <3>2. \A r \in Servers : \A i \in 1 .. Len(jobCh[r]) : status'[r][jobCh[r][i]] = "pending"
        BY <1>4, <2>0, <3>1
      <3> QED BY <1>T, <2>0, <3>1, <3>2
    <2>2. CASE new = "running"
      <3> DEFINE q == jobCh[s]
                 m == Tail(q)
      <3>1. q # <<>> /\ t = Head(q) /\ jobCh' = [jobCh EXCEPT ![s] = m]
        BY <1>3, <2>2
      <3>2. q \in Seq(Tasks) /\ Len(q) \in Nat
        BY <2>0
      <3>3. m \in Seq(Tasks) /\ Len(m) = Len(q) - 1 /\ \A i \in 1 .. Len(m) : m[i] = q[i + 1] /\ i + 1 \in 1 .. Len(q)
        BY <3>1, <3>2
      <3>4. t = q[1] /\ 1 \in 1 .. Len(q)
        BY <3>1, <3>2
      <3>5. \A i \in 1 .. Len(m) : i + 1 # 1
        BY <3>2, <3>3
      <3>6. \A i \in 1 .. Len(m) : m[i] # t /\ m[i] \in Tasks /\ status[s][m[i]] = "pending"
        BY <2>0, <3>3, <3>4, <3>5
      <3>7. \A i, j \in 1 .. Len(m) : m[i] = m[j] => i = j
        <4>1. \A i, j \in 1 .. Len(m) : m[i] = m[j] => i + 1 = j + 1
          BY <2>0, <3>3
        <4>2. \A i, j \in 1 .. Len(m) : i + 1 = j + 1 => i = j
          OBVIOUS
        <4> QED BY <4>1, <4>2
      <3>8. Len(m) <= ChanCap
        BY <2>0, <3>2, <3>3
      <3> HIDE DEF m, q
      <3>9. \A r \in Servers : jobCh'[r] = IF r = s THEN m ELSE jobCh[r]
        BY <1>T, <3>1
      <3>10. jobCh' \in [Servers -> Seq(Tasks)]
        BY <1>T, <3>1, <3>3
      <3>11. ASSUME NEW r \in Servers
             PROVE  /\ Len(jobCh'[r]) <= ChanCap
                    /\ \A i \in 1 .. Len(jobCh'[r]) : status'[r][jobCh'[r][i]] = "pending"
                    /\ \A i, j \in 1 .. Len(jobCh'[r]) : jobCh'[r][i] = jobCh'[r][j] => i = j
        <4>1. CASE r = s
          BY <1>4, <3>6, <3>7, <3>8, <3>9, <4>1
        <4>2. CASE r # s
          BY <1>4, <2>0, <3>9, <4>2
        <4> QED BY <4>1, <4>2
      <3> QED BY <3>10, <3>11
    <2> QED BY <2>1, <2>2
  <1>7. ForwardingTypeOK'
    BY <1>0, <1>1, <1>4, <1>5, <1>6 DEF ForwardingTypeOK, Keys
  <1>8. Keys' = Keys
    BY DEF Keys
  <1>9. QueuesInv'
    <2>1. ASSUME NEW r \in Servers, NEW k \in Keys
          PROVE  /\ running'[r][k] # None => Key(running[r][k])' = k
                 /\ completed'[r][k] # None => Key(completed[r][k])' = k
      <3>1. running[r][k] \in Tasks \cup {None} /\ completed[r][k] \in Tasks \cup {None}
        BY <1>T
      <3>2. /\ running[r][k] # None => Key(running[r][k]) = k
            /\ completed[r][k] # None => Key(completed[r][k]) = k
        BY <1>0 DEF QueuesInv
      <3>3. /\ Key(running[r][k])' = <<at[running'[r][k]], route[running'[r][k]], IdOf[running'[r][k]]>>
            /\ Key(completed[r][k])' = <<at[completed'[r][k]], route[completed'[r][k]], IdOf[completed'[r][k]]>>
        BY <1>1 DEF Key
      <3>4. \A u : Key(u) = <<at[u], route[u], IdOf[u]>>
        BY DEF Key
      <3> QED BY <1>5, <3>1, <3>2, <3>3, <3>4
    <2> QED BY <1>6, <1>8, <2>1 DEF QueuesInv
  <1>10. ASSUME NEW u \in Tasks PROVE Stage(u)'
    <2>1. \A r \in Servers : \/ status'[r][u] = status[r][u]
                             \/ status[r][u] \in Active /\ status'[r][u] \in Active
      BY <1>3, <1>4 DEF Active
    <2> QED BY <1>0, <1>1, <2>1, StageKept DEF ForwardInv
  <1>11. ASSUME NEW u \in Tasks PROVE IsTrue(reply[u], u)' /\ IsTrue(answer[u], u)'
    <2>1. \A r \in Servers, v \in Tasks : status[r][v] = "completed" => status'[r][v] = "completed"
      BY <1>3, <1>4
    <2>2. IsTrue(reply[u], u) /\ IsTrue(answer[u], u)
      BY DEF ForwardInv
    <2> QED BY <1>1, <2>1, <2>2, TruthKept DEF IsTrue
  <1> QED BY <1>7, <1>9, <1>10, <1>11 DEF ForwardInv

(* A step of task t's handlers: what is to be shown of t alone.            *)
LEMMA OthersKept ==
    ASSUME ForwardInv, NEW t \in Tasks, UNCHANGED <<at, route>>,
           \A u \in Tasks : u # t =>
              /\ pc'[u] = pc[u] /\ peer'[u] = peer[u] /\ fpc'[u] = fpc[u]
              /\ reply'[u] = reply[u] /\ answer'[u] = answer[u] /\ (u \in failed' <=> u \in failed),
           \A s \in Servers, u \in Tasks : u # t => status'[s][u] = status[s][u],
           \A s \in Servers : status[s][t] = "completed" => status'[s][t] = "completed",
           Stage(t)',
           reply'[t] = reply[t] \/ IsTrue(reply[t], t)',
           answer'[t] = answer[t] \/ IsTrue(answer[t], t)',
           ForwardingTypeOK', QueuesInv'
    PROVE  ForwardInv'
  <1>1. \A s \in Servers, u \in Tasks : status[s][u] = "completed" => status'[s][u] = "completed"
    OBVIOUS
  <1>2. ASSUME NEW u \in Tasks PROVE Stage(u)'
    <2>1. CASE u # t
      BY <2>1, StageKept DEF ForwardInv
    <2> QED BY <2>1
  <1>3. ASSUME NEW u \in Tasks PROVE IsTrue(reply[u], u)' /\ IsTrue(answer[u], u)'
    <2>1. IsTrue(reply[u], u) /\ IsTrue(answer[u], u)
      BY DEF ForwardInv
    <2>2. reply'[u] = reply[u] => IsTrue(reply[u], u)'
      BY <1>1, <2>1, TruthKept DEF IsTrue
    <2>3. answer'[u] = answer[u] => IsTrue(answer[u], u)'
      BY <1>1, <2>1, TruthKept DEF IsTrue
    <2> QED BY <2>2, <2>3
  <1> QED BY <1>2, <1>3 DEF ForwardInv

LEMMA OutcomeType ==
    ASSUME NEW o \in {"pending", "completed", "failed", "unsaid"}, NEW u \in Tasks \cup {None}
    PROVE  /\ Outcome(o, u) \in Outcomes
           /\ Outcome(o, u).status = o /\ Outcome(o, u).of = u
  BY DEF Outcome, Outcomes

HandlerTypes ==
    /\ pc \in [Tasks -> {"new", "post", "wait", "here", "poll", "direct", "done"}]
    /\ peer \in [Tasks -> Servers \cup {None}]
    /\ fpc \in [Tasks -> {"none", "poll", "answered"}]
    /\ reply \in [Tasks -> Outcomes] /\ answer \in [Tasks -> Outcomes]

LEMMA TypesSplit ==
    ASSUME ForwardingTypeOK
    PROVE  HandlerTypes /\ at \in [Tasks -> Servers] /\ route \in [Tasks -> Routes]
  BY DEF ForwardingTypeOK, HandlerTypes

(* Queues left alone, only the handlers' types are to be shown.            *)
LEMMA QuietTypes ==
    ASSUME ForwardingTypeOK, QueuesSame, HandlerTypes'
    PROVE  ForwardingTypeOK'
  BY DEF ForwardingTypeOK, HandlerTypes, QueuesSame, Keys, Outcomes

LEMMA AsksKeeps ==
    ASSUME ForwardInv, NEW t \in Tasks, SubmitJobAsksPeer(t) PROVE ForwardInv'
  <1>0. ForwardingTypeOK /\ HandlerTypes /\ at[t] \in Servers /\ Stage(t)
    BY TypesSplit DEF ForwardInv
  <1>1. QueuesSame /\ UNCHANGED <<fpc, reply, answer, failed>>
    BY DEF SubmitJobAsksPeer, QueuesSame, queueVars, env
  <1>2. PICK p \in Servers \ {at[t]} : peer' = [peer EXCEPT ![t] = p]
    BY DEF SubmitJobAsksPeer, Peers
  <1>3. pc[t] = "new" /\ route[t] = "job" /\ pc' = [pc EXCEPT ![t] = "post"]
    BY DEF SubmitJobAsksPeer, Goto
  <1>4. HandlerTypes'
    BY <1>0, <1>1, <1>2, <1>3 DEF HandlerTypes, Outcomes
  <1>5. Stage(t)'
    <2>1. pc'[t] = "post" /\ peer'[t] = p /\ peer[t] = None
      BY <1>0, <1>2, <1>3 DEF HandlerTypes, Stage
    <2> QED BY <1>0, <1>1, <1>2, <1>3, <2>1, TaskAssumption DEF Stage, QueuesSame
  <1>6. \A u \in Tasks : u # t => pc'[u] = pc[u] /\ peer'[u] = peer[u]
    BY <1>0, <1>2, <1>3 DEF HandlerTypes
  <1>7. ForwardingTypeOK' /\ QueuesInv' /\ \A s \in Servers, u \in Tasks : status'[s][u] = status[s][u]
    BY <1>0, <1>1, <1>4, QuietTypes, QuietQueues
  <1> QED BY <1>1, <1>5, <1>6, <1>7, OthersKept DEF QueuesSame

LEMMA PollKeeps ==
    ASSUME ForwardInv, NEW t \in Tasks, OpenAIPoll(t) PROVE ForwardInv'
  <1>0. ForwardingTypeOK /\ QueuesInv /\ HandlerTypes /\ at[t] \in Servers /\ Stage(t)
    BY TypesSplit DEF ForwardInv
  <1>1. QueuesSame /\ UNCHANGED <<fpc, reply>> /\ pc[t] = "poll"
    BY DEF OpenAIPoll, QueuesSame, queueVars, env
  <1> DEFINE u == GetJob(at[t], Key(t))
  <1>2. u \in Tasks /\ Key(u) = Key(t)
    BY <1>0, JobFound DEF OpenAIPoll
  <1>7. QueuesInv' /\ \A s \in Servers, v \in Tasks : status'[s][v] = status[s][v]
    BY <1>1, QuietQueues
  <1>3. ASSUME NEW o \in {"completed", "failed"}, NEW w \in {u, None},
               Tell(t, Outcome(o, w)), UNCHANGED <<peer, failed>>,
               o = "completed" /\ w # None => status[at[t]][w] = "completed"
        PROVE  ForwardInv'
    <2>0. w = None \/ (w \in Tasks /\ Key(w) = Key(t))
      BY <1>2
    <2> HIDE DEF u
    <2>1. pc' = [pc EXCEPT ![t] = "done"] /\ answer' = [answer EXCEPT ![t] = Outcome(o, w)]
      BY <1>3 DEF Tell, Goto
    <2>2. /\ Outcome(o, w) \in Outcomes
          /\ Outcome(o, w).status = o /\ Outcome(o, w).of = w
      BY <2>0, OutcomeType
    <2> HIDE DEF Outcome
    <2>3. HandlerTypes'
      BY <1>0, <1>1, <1>3, <2>1, <2>2 DEF HandlerTypes, Outcomes
    <2>4. answer'[t] = Outcome(o, w) /\ pc'[t] = "done"
      BY <1>0, <2>1 DEF HandlerTypes
    <2>5. IsTrue(Outcome(o, w), t)
      BY <1>0, <1>3, <2>0, <2>2 DEF IsTrue
    <2>6. IsTrue(answer[t], t)'
      BY <1>1, <2>4, <2>5, QuietQueues DEF IsTrue
    <2>7. Stage(t)'
      BY <1>0, <1>1, <1>3, <1>7, <2>4, StageKept DEF QueuesSame
    <2>8. \A v \in Tasks : v # t => pc'[v] = pc[v] /\ answer'[v] = answer[v]
      BY <1>0, <2>1 DEF HandlerTypes
    <2>9. ForwardingTypeOK'
      BY <1>0, <1>1, <2>3, QuietTypes
    <2> QED BY <1>1, <1>3, <1>7, <2>6, <2>7, <2>8, <2>9, OthersKept DEF QueuesSame
  <1>4. ASSUME NEW p \in Servers \ {at[t]}, peer' = [peer EXCEPT ![t] = p], Goto(t, "post"),
               failed' = failed \cup {t}, answer' = answer
        PROVE  ForwardInv'
    <2>1. pc' = [pc EXCEPT ![t] = "post"]
      BY <1>4 DEF Goto
    <2>2. pc'[t] = "post" /\ peer'[t] = p /\ peer[t] = None
      BY <1>0, <1>1, <1>4, <2>1 DEF HandlerTypes, Stage
    <2>3. HandlerTypes'
      BY <1>0, <1>1, <1>4, <2>1 DEF HandlerTypes, Outcomes
    <2>4. Stage(t)'
      BY <1>0, <1>1, <1>4, <2>2, TaskAssumption DEF Stage, QueuesSame
    <2>5. \A v \in Tasks : v # t => pc'[v] = pc[v] /\ peer'[v] = peer[v] /\ (v \in failed' <=> v \in failed)
      BY <1>0, <1>4, <2>1 DEF HandlerTypes
    <2>6. ForwardingTypeOK'
      BY <1>0, <1>1, <2>3, QuietTypes
    <2> QED BY <1>1, <1>4, <1>7, <2>4, <2>5, <2>6, OthersKept DEF QueuesSame
  <1>5. \/ /\ UNCHANGED <<peer, failed>>
           /\ \E w \in {u, None} : /\ Tell(t, Outcome("completed", w))
                                   /\ w # None => status[at[t]][w] = "completed"
        \/ Tell(t, Outcome("failed", u)) /\ UNCHANGED <<peer, failed>>
        \/ /\ \E p \in Servers \ {at[t]} : peer' = [peer EXCEPT ![t] = p]
           /\ Goto(t, "post") /\ failed' = failed \cup {t} /\ answer' = answer
    BY DEF OpenAIPoll, Peers, Found
  <1> HIDE DEF u
  <1> QED BY <1>3, <1>4, <1>5

(* A step of task t's handlers that leaves the queues and the peer alone.  *)
LEMMA QuietKeeps ==
    ASSUME ForwardInv, NEW t \in Tasks, QueuesSame, peer' = peer,
           NEW l \in {"new", "post", "wait", "here", "poll", "direct", "done"},
           NEW f \in {"none", "poll", "answered"}, NEW r \in Outcomes, NEW o \in Outcomes,
           pc' = [pc EXCEPT ![t] = l], fpc' = [fpc EXCEPT ![t] = f],
           reply' = [reply EXCEPT ![t] = r], answer' = [answer EXCEPT ![t] = o],
           failed' = failed \/ failed' = failed \cup {t},
           IsTrue(r, t), IsTrue(o, t),
           pc'[t] = l /\ fpc'[t] = f => Stage(t)'
    PROVE  ForwardInv'
  <1>0. ForwardingTypeOK /\ HandlerTypes
    BY TypesSplit DEF ForwardInv
  <1>1. HandlerTypes'
    BY <1>0 DEF HandlerTypes, Outcomes
  <1>2. pc'[t] = l /\ fpc'[t] = f /\ reply'[t] = r /\ answer'[t] = o
    BY <1>0 DEF HandlerTypes
  <1>3. IsTrue(reply[t], t)' /\ IsTrue(answer[t], t)'
    BY <1>2, QuietQueues DEF IsTrue
  <1>4. \A u \in Tasks : u # t => /\ pc'[u] = pc[u] /\ fpc'[u] = fpc[u]
                                  /\ reply'[u] = reply[u] /\ answer'[u] = answer[u]
    BY <1>0 DEF HandlerTypes
  <1>5. \A u \in Tasks : u # t => (u \in failed' <=> u \in failed)
    OBVIOUS
  <1>6. ForwardingTypeOK' /\ QueuesInv' /\ \A s \in Servers, u \in Tasks : status'[s][u] = status[s][u]
    BY <1>0, <1>1, QuietTypes, QuietQueues
  <1> QED BY <1>2, <1>3, <1>4, <1>5, <1>6, OthersKept DEF QueuesSame

(* What is left alone, as an assignment.                                   *)
LEMMA SameSlot ==
    ASSUME ForwardInv, NEW t \in Tasks
    PROVE  /\ fpc[t] \in {"none", "poll", "answered"} /\ fpc = [fpc EXCEPT ![t] = fpc[t]]
           /\ pc[t] \in {"new", "post", "wait", "here", "poll", "direct", "done"} /\ pc = [pc EXCEPT ![t] = pc[t]]
           /\ reply[t] \in Outcomes /\ reply = [reply EXCEPT ![t] = reply[t]] /\ IsTrue(reply[t], t)
           /\ answer[t] \in Outcomes /\ answer = [answer EXCEPT ![t] = answer[t]] /\ IsTrue(answer[t], t)
           /\ at[t] \in Servers /\ route[t] \in {"job", "openai"} /\ (peer[t] # None => peer[t] \in Servers)
  <1>1. /\ HandlerTypes /\ IsTrue(reply[t], t) /\ IsTrue(answer[t], t)
        /\ at[t] \in Servers /\ route[t] \in {"job", "openai"}
    BY TypesSplit DEF ForwardInv, Routes
  <1> QED BY <1>1 DEF HandlerTypes

LEMMA DeadlineKeeps ==
    ASSUME ForwardInv, NEW t \in Tasks, OpenAIDeadline(t) PROVE ForwardInv'
  <1>1. QueuesSame /\ UNCHANGED <<peer, fpc, reply, failed>> /\ pc[t] = "poll"
    BY DEF OpenAIDeadline, QueuesSame, queueVars, env
  <1> DEFINE o == Outcome("failed", None)
  <1>2. pc' = [pc EXCEPT ![t] = "done"] /\ answer' = [answer EXCEPT ![t] = o]
    BY DEF OpenAIDeadline, Tell, Goto
  <1>3. o \in Outcomes /\ IsTrue(o, t)
    BY OutcomeType DEF IsTrue
  <1> HIDE DEF o
  <1>4. pc'[t] = "done" /\ fpc'[t] = fpc[t] => Stage(t)'
    BY <1>1, StageKept DEF ForwardInv, QueuesSame
  <1>5. fpc' = [fpc EXCEPT ![t] = fpc[t]] /\ reply' = [reply EXCEPT ![t] = reply[t]]
    BY <1>1, SameSlot
  <1> QED BY <1>1, <1>2, <1>3, <1>4, <1>5, SameSlot, QuietKeeps, ZenonT(40)

LEMMA ReplyKeeps ==
    ASSUME ForwardInv, NEW t \in Tasks, ReplyArrives(t) PROVE ForwardInv'
  <1>1. QueuesSame /\ UNCHANGED <<peer, failed>>
    BY DEF ReplyArrives, QueuesSame, queueVars, env
  <1> DEFINE o == TakenFor(t)
  <1>2. /\ pc' = [pc EXCEPT ![t] = "done"] /\ answer' = [answer EXCEPT ![t] = o]
        /\ fpc' = [fpc EXCEPT ![t] = "none"] /\ reply' = [reply EXCEPT ![t] = Nothing]
    BY DEF ReplyArrives, Tell, Goto
  <1>5. o \in Outcomes /\ IsTrue(o, t)
    <2>1. reply[t] \in Outcomes /\ IsTrue(reply[t], t)
      BY SameSlot
    <2>2. Outcome("completed", None) \in Outcomes /\ Outcome("completed", None).of = None
      BY OutcomeType
    <2> QED BY <2>1, <2>2 DEF TakenFor, IsTrue
  <1>3. Nothing \in Outcomes /\ IsTrue(Nothing, t)
    BY TaskAssumption DEF Nothing, Outcomes, IsTrue
  <1>4. pc'[t] = "done" /\ fpc'[t] = "none" => Stage(t)'
    BY <1>1, StageKept DEF ForwardInv, QueuesSame
  <1> HIDE DEF Nothing, o
  <1> QED BY <1>1, <1>2, <1>3, <1>4, <1>5, SameSlot, QuietKeeps, ZenonT(40)

(* The handler at the peer ends its wait, with what it found or without.   *)
LEMMA ForwardHandlerKeeps ==
    ASSUME ForwardInv, NEW t \in Tasks, ForwardHandler(t) PROVE ForwardInv'
  <1>0. ForwardingTypeOK /\ QueuesInv /\ Stage(t)
    BY DEF ForwardInv
  <1>1. QueuesSame /\ UNCHANGED <<pc, peer, answer, failed>> /\ fpc[t] = "poll"
    BY DEF ForwardHandler, ForwardPoll, ForwardDeadline, QueuesSame, queueVars, env
  <1>2. fpc' = [fpc EXCEPT ![t] = "answered"]
    BY DEF ForwardHandler, ForwardPoll, ForwardDeadline
  <1>3. PICK r \in Outcomes : reply' = [reply EXCEPT ![t] = r] /\ IsTrue(r, t)
    <2>1. CASE ForwardDeadline(t)
      <3>1. Outcome("failed", None) \in Outcomes /\ IsTrue(Outcome("failed", None), t)
        BY OutcomeType DEF IsTrue
      <3> QED BY <2>1, <3>1 DEF ForwardDeadline
    <2>2. CASE ForwardPoll(t)
      <3> DEFINE u == GetJob(peer[t], Key(t))
                 o == IF status[peer[t]][u] \in {"completing", "completed"} THEN "completed" ELSE "failed"
                 w == IF o = "completed" THEN Found(peer[t], u) ELSE u
      <3>1. peer[t] \in Servers
        BY <1>0, <1>1, SameSlot DEF Stage
      <3>2. u \in Tasks /\ Key(u) = Key(t)
        BY <1>0, <2>2, <3>1, JobFound DEF ForwardPoll
      <3>3. reply' = [reply EXCEPT ![t] = Outcome(o, w)]
        BY <2>2 DEF ForwardPoll
      <3>4. /\ o \in {"completed", "failed"} /\ w \in {u, None}
            /\ o = "completed" /\ w # None => status[peer[t]][w] = "completed"
        BY DEF Found
      <3> HIDE DEF u, o, w
      <3>5. Outcome(o, w) \in Outcomes /\ Outcome(o, w).status = o /\ Outcome(o, w).of = w
        BY <3>2, <3>4, OutcomeType
      <3> HIDE DEF Outcome
      <3>6. IsTrue(Outcome(o, w), t)
        BY <3>1, <3>2, <3>4, <3>5 DEF IsTrue
      <3> QED BY <3>3, <3>5, <3>6
    <2> QED BY <2>1, <2>2 DEF ForwardHandler
  <1>4. fpc'[t] = "answered" => Stage(t)'
    BY <1>0, <1>1, StageKept DEF QueuesSame
  <1>5. pc' = [pc EXCEPT ![t] = pc[t]] /\ answer' = [answer EXCEPT ![t] = answer[t]]
    BY <1>1, SameSlot
  <1> QED BY <1>1, <1>2, <1>3, <1>4, <1>5, SameSlot, QuietKeeps, ZenonT(40)

LEMMA TurnedAwayKeeps ==
    ASSUME ForwardInv, NEW t \in Tasks, PeerTurnsAway(t) PROVE ForwardInv'
  <1>1. QueuesSame /\ UNCHANGED <<peer, answer, failed>> /\ pc[t] = "post" /\ Stage(t)
    BY DEF ForwardInv, PeerTurnsAway, QueuesSame, queueVars, env
  <1> DEFINE r == Outcome("unsaid", None)
  <1>2. /\ pc' = [pc EXCEPT ![t] = "wait"] /\ fpc' = [fpc EXCEPT ![t] = "answered"]
        /\ reply' = [reply EXCEPT ![t] = r]
    BY DEF PeerTurnsAway, Goto
  <1>3. r \in Outcomes /\ IsTrue(r, t)
    BY OutcomeType DEF IsTrue
  <1> HIDE DEF r
  <1>4. pc'[t] = "wait" /\ fpc'[t] = "answered" => Stage(t)'
    BY <1>1, SameSlot DEF Stage, QueuesSame
  <1>5. answer' = [answer EXCEPT ![t] = answer[t]]
    BY <1>1, SameSlot
  <1> QED BY <1>1, <1>2, <1>3, <1>4, <1>5, SameSlot, QuietKeeps, ZenonT(40)

(* The call of the peer did not work out.                                  *)
LEMMA RetreatKeeps ==
    ASSUME ForwardInv, NEW t \in Tasks, ForwardLost(t) \/ ForwardError(t)
    PROVE  ForwardInv'
  <1>0. Stage(t) /\ pc[t] \in {"post", "wait"} /\ Retreat(t)
    BY DEF ForwardInv, ForwardLost, ForwardError
  <1>1. QueuesSame /\ UNCHANGED <<peer, fpc, reply>> /\ failed' = failed \cup {t}
    BY <1>0 DEF Retreat, QueuesSame, queueVars, env
  <1>2. fpc' = [fpc EXCEPT ![t] = fpc[t]] /\ reply' = [reply EXCEPT ![t] = reply[t]]
    BY <1>1, SameSlot
  <1>3. PICK l \in {"here", "direct", "done"}, o \in Outcomes :
           /\ pc' = [pc EXCEPT ![t] = l] /\ answer' = [answer EXCEPT ![t] = o] /\ IsTrue(o, t)
           /\ l = "here" => route[t] = "job"
           /\ l = "direct" => route[t] = "openai" /\ status[at[t]][t] = "refused"
    <2>1. Outcome("failed", t) \in Outcomes /\ IsTrue(Outcome("failed", t), t)
      BY OutcomeType DEF IsTrue
    <2>2. CASE route[t] = "job" /\ Goto(t, "here") /\ answer' = answer
      BY <2>2, SameSlot DEF Goto
    <2>3. CASE route[t] = "openai" /\ status[at[t]][t] = "refused" /\ Goto(t, "direct") /\ answer' = answer
      BY <2>3, SameSlot DEF Goto
    <2>4. CASE route[t] = "openai" /\ Tell(t, Outcome("failed", t))
      BY <2>1, <2>4 DEF Goto, Tell
    <2> QED BY <1>0, <2>2, <2>3, <2>4 DEF Retreat
  <1>4. pc'[t] = l /\ fpc'[t] = fpc[t] => Stage(t)'
    <2>1. \A s \in Servers : status'[s][t] = status[s][t]
      BY <1>1 DEF QueuesSame
    <2>2. peer[t] # None
      BY <1>0 DEF Stage
    <2> QED BY <1>0, <1>1, <1>3, <2>1, <2>2, SameSlot DEF Stage, QueuesSame
  <1> QED BY <1>1, <1>2, <1>3, <1>4, SameSlot, QuietKeeps, ZenonT(40)

(* Submitted, a task leaves the types and the other tasks as they are.     *)
LEMMA SubmitTypes ==
    ASSUME ForwardInv, NEW s \in Servers, NEW t \in Tasks, status[s][t] = "none",
           Submit(s, t), UNCHANGED <<running, completed, at, route, reply, failed>>,
           HandlerTypes', Stage(t)', answer'[t] = answer[t] \/ IsTrue(answer[t], t)',
           \A u \in Tasks : u # t => pc'[u] = pc[u] /\ peer'[u] = peer[u] /\ fpc'[u] = fpc[u] /\ answer'[u] = answer[u]
    PROVE  ForwardInv'
  <1>1. ForwardingTypeOK /\ QueuesInv
    BY DEF ForwardInv
  <1>2. /\ status' \in [Servers -> [Tasks -> Statuses]]
        /\ jobCh' \in [Servers -> Seq(Tasks)] /\ \A r \in Servers : Len(jobCh'[r]) <= ChanCap
        /\ QueuesInv'
        /\ \A r \in Servers, u \in Tasks : r # s \/ u # t => status'[r][u] = status[r][u]
    BY <1>1, SubmitKeeps
  <1>3. ForwardingTypeOK'
    <2> HIDE DEF Submit
    <2> QED BY <1>1, <1>2 DEF ForwardingTypeOK, HandlerTypes, Keys, Outcomes, Statuses
  <1>4. \A r \in Servers : status[r][t] = "completed" => status'[r][t] = "completed"
    BY <1>2
  <1> QED BY <1>2, <1>3, <1>4, OthersKept

LEMMA HereKeeps ==
    ASSUME ForwardInv, NEW t \in Tasks, SubmitJobHere(t) PROVE ForwardInv'
  <1>0. ForwardingTypeOK /\ QueuesInv /\ HandlerTypes /\ at[t] \in Servers /\ Stage(t)
    BY TypesSplit DEF ForwardInv
  <1>1. /\ route[t] = "job" /\ pc[t] \in {"new", "here"} /\ Submit(at[t], t)
        /\ UNCHANGED <<running, completed, peer, fpc, reply, at, route, failed>>
    BY DEF SubmitJobHere, env
  <1> DEFINE o == Outcome("pending", t)
  <1>2. pc' = [pc EXCEPT ![t] = "done"] /\ answer' = [answer EXCEPT ![t] = o]
    BY DEF SubmitJobHere, Tell, Goto
  <1>3. o \in Outcomes /\ o.status = "pending"
    BY OutcomeType
  <1> HIDE DEF o, Submit
  <1>4. pc'[t] = "done" /\ answer'[t] = o /\ \A u \in Tasks : u # t => pc'[u] = pc[u] /\ answer'[u] = answer[u]
    BY <1>0, <1>2 DEF HandlerTypes
  <1>5. HandlerTypes'
    BY <1>0, <1>1, <1>2, <1>3 DEF HandlerTypes, Outcomes
  <1>6. status[at[t]][t] = "none"
    BY <1>0, <1>1 DEF Stage
  <1>7. /\ status'[at[t]][t] \in {"refused", "pending"}
        /\ \A r \in Servers : r # at[t] => status'[r][t] = status[r][t]
    BY <1>0, <1>1, <1>6, SubmitKeeps
  <1>8. Stage(t)'
    BY <1>0, <1>1, <1>4, <1>7 DEF Stage
  <1>9. IsTrue(answer[t], t)'
    BY <1>3, <1>4 DEF IsTrue
  <1> QED BY <1>0, <1>1, <1>4, <1>5, <1>6, <1>8, <1>9, SubmitTypes

LEMMA OpenAISubmitKeeps ==
    ASSUME ForwardInv, NEW t \in Tasks, OpenAISubmit(t) PROVE ForwardInv'
  <1>0. ForwardingTypeOK /\ QueuesInv /\ HandlerTypes /\ at[t] \in Servers /\ Stage(t)
    BY TypesSplit DEF ForwardInv
  <1>1. /\ route[t] = "openai" /\ pc[t] = "new" /\ Submit(at[t], t)
        /\ UNCHANGED <<running, completed, fpc, reply, answer, at, route, failed>>
    BY DEF OpenAISubmit, env
  <1>2. peer[t] = None /\ status[at[t]][t] = "none"
    BY <1>0, <1>1 DEF Stage
  <1>3. PICK p \in (Servers \ {at[t]}) \cup {None}, l \in {"poll", "direct", "post"} :
           /\ peer' = [peer EXCEPT ![t] = p] /\ pc' = [pc EXCEPT ![t] = l]
           /\ l = "poll" => p = None
           /\ l = "direct" => p = None /\ Full(at[t])
           /\ l = "post" => p # None /\ Full(at[t])
    <2>1. CASE ~Full(at[t])
      <3>1. peer' = [peer EXCEPT ![t] = None]
        BY <1>0, <1>2, <2>1 DEF OpenAISubmit, HandlerTypes
      <3> QED BY <2>1, <3>1 DEF OpenAISubmit, Goto
    <2>2. CASE Full(at[t])
      BY <2>2 DEF OpenAISubmit, Goto, Peers
    <2> QED BY <2>1, <2>2
  <1> HIDE DEF Submit, Full
  <1>4. /\ pc'[t] = l /\ peer'[t] = p /\ \A u \in Tasks : u # t => pc'[u] = pc[u] /\ peer'[u] = peer[u]
        /\ HandlerTypes'
    BY <1>0, <1>1, <1>3 DEF HandlerTypes, Outcomes
  <1>5. /\ status'[at[t]][t] = IF Full(at[t]) THEN "refused" ELSE "pending"
        /\ \A r \in Servers : r # at[t] => status'[r][t] = status[r][t]
    BY <1>0, <1>1, <1>2, SubmitKeeps
  <1>6. Stage(t)'
    <2>1. fpc[t] = "none" /\ t \notin failed /\ \A r \in Servers : r # at[t] => status[r][t] = "none"
      BY <1>0, <1>1, <1>2, TaskAssumption DEF Stage
    <2>2. p # at[t]
      BY <1>0, TaskAssumption
    <2> QED BY <1>0, <1>1, <1>3, <1>4, <1>5, <2>1, <2>2 DEF Stage
  <1> QED BY <1>0, <1>1, <1>2, <1>4, <1>6, SubmitTypes

LEMMA PostKeeps ==
    ASSUME ForwardInv, NEW t \in Tasks, PostArrives(t) PROVE ForwardInv'
  <1>0. ForwardingTypeOK /\ QueuesInv /\ HandlerTypes /\ at[t] \in Servers /\ Stage(t)
    BY TypesSplit DEF ForwardInv
  <1>1. /\ pc[t] = "post" /\ Submit(peer[t], t)
        /\ pc' = [pc EXCEPT ![t] = "wait"] /\ fpc' = [fpc EXCEPT ![t] = "poll"]
        /\ UNCHANGED <<running, completed, peer, reply, answer, at, route, failed>>
    BY DEF PostArrives, env, Goto
  <1>2. peer[t] \in Servers /\ peer[t] # at[t] /\ status[peer[t]][t] = "none" /\ peer[t] # None
    BY <1>0, <1>1, SameSlot DEF Stage
  <1> HIDE DEF Submit
  <1>3. /\ pc'[t] = "wait" /\ fpc'[t] = "poll" /\ \A u \in Tasks : u # t => pc'[u] = pc[u] /\ fpc'[u] = fpc[u]
        /\ HandlerTypes'
    BY <1>0, <1>1 DEF HandlerTypes, Outcomes
  <1>4. \A r \in Servers : r # peer[t] => status'[r][t] = status[r][t]
    BY <1>0, <1>1, <1>2, SubmitKeeps
  <1>5. Stage(t)'
    BY <1>0, <1>1, <1>2, <1>3, <1>4 DEF Stage
  <1> QED BY <1>1, <1>2, <1>3, <1>5, SubmitTypes

LEMMA DirectKeeps ==
    ASSUME ForwardInv, NEW t \in Tasks, OpenAIDirect(t) PROVE ForwardInv'
  <1>0. ForwardingTypeOK /\ QueuesInv /\ HandlerTypes /\ at[t] \in Servers /\ Stage(t)
    BY TypesSplit DEF ForwardInv
  <1>1. pc[t] = "direct" /\ UNCHANGED <<jobCh, running, completed, peer, fpc, reply, at, route, failed>>
    BY DEF OpenAIDirect, env
  <1>2. PICK o \in {"completed", "failed"}, n \in {"completed", "failed"}, w \in {t, None} :
           /\ status' = [status EXCEPT ![at[t]][t] = o]
           /\ pc' = [pc EXCEPT ![t] = "done"] /\ answer' = [answer EXCEPT ![t] = Outcome(n, w)]
           /\ n = o \/ w = None
    BY DEF OpenAIDirect, Tell, Goto
  <1>3. Outcome(n, w) \in Outcomes /\ Outcome(n, w).status = n /\ Outcome(n, w).of = w
    BY OutcomeType
  <1> HIDE DEF Outcome
  <1>4. /\ status' \in [Servers -> [Tasks -> Statuses]] /\ status'[at[t]][t] = o
        /\ \A r \in Servers, u \in Tasks : r # at[t] \/ u # t => status'[r][u] = status[r][u]
    <2>1. status \in [Servers -> [Tasks -> Statuses]]
      BY <1>0 DEF ForwardingTypeOK
    <2> QED BY <1>0, <1>2, <2>1 DEF Statuses
  <1>5. /\ pc'[t] = "done" /\ answer'[t] = Outcome(n, w) /\ HandlerTypes'
        /\ \A u \in Tasks : u # t => pc'[u] = pc[u] /\ answer'[u] = answer[u]
    BY <1>0, <1>1, <1>2, <1>3 DEF HandlerTypes, Outcomes
  <1>6. ForwardingTypeOK'
    BY <1>0, <1>1, <1>4, <1>5 DEF ForwardingTypeOK, HandlerTypes, Keys, Outcomes, Statuses
  <1>7. status[at[t]][t] = "refused" /\ (t \in failed \/ peer[t] = None)
    BY <1>0, <1>1 DEF Stage
  <1>8. QueuesInv'
    <2>1. ASSUME NEW s \in Servers, NEW i \in 1 .. Len(jobCh[s])
          PROVE  status'[s][jobCh[s][i]] = "pending"
      <3>1. status[s][jobCh[s][i]] = "pending" /\ jobCh[s][i] \in Tasks
        BY <1>0 DEF QueuesInv, ForwardingTypeOK
      <3> QED BY <1>4, <1>7, <3>1
    <2> QED BY <1>0, <1>1, <2>1 DEF QueuesInv, Keys, Key
  <1>9. Stage(t)'
    BY <1>0, <1>1, <1>4, <1>5, <1>7 DEF Stage
  <1>10. IsTrue(answer[t], t)'
    BY <1>0, <1>1, <1>2, <1>3, <1>4, <1>5 DEF IsTrue, Key
  <1>11. /\ \A s \in Servers, u \in Tasks : u # t => status'[s][u] = status[s][u]
         /\ \A s \in Servers : status[s][t] = "completed" => status'[s][t] = "completed"
    BY <1>4, <1>7
  <1> QED BY <1>1, <1>5, <1>6, <1>8, <1>9, <1>10, <1>11, OthersKept

(* A crash loses jobs, handlers and answers on the way, never an outcome.  *)
LEMMA CrashKeeps ==
    ASSUME ForwardInv, NEW s \in Servers, Crash(s) PROVE ForwardInv'
  <1>0. ForwardingTypeOK /\ QueuesInv /\ HandlerTypes
    BY TypesSplit DEF ForwardInv
  <1>1. UNCHANGED <<at, route, peer, reply, answer, failed>>
    BY DEF Crash
  <1>2. /\ status' \in [Servers -> [Tasks -> Statuses]]
        /\ \A r \in Servers, u \in Tasks :
              status'[r][u] = IF r = s /\ status[r][u] \in {"pending", "running", "completing", "failing"}
                              THEN "lost" ELSE status[r][u]
    <2>1. status \in [Servers -> [Tasks -> Statuses]]
      BY <1>0 DEF ForwardingTypeOK
    <2>2. status' = [status EXCEPT ![s] = [t \in Tasks |->
                       IF status[s][t] \in {"pending", "running", "completing", "failing"}
                       THEN "lost" ELSE status[s][t]]]
      BY DEF Crash, Working
    <2> QED BY <2>1, <2>2 DEF Statuses
  <1>3. /\ jobCh' \in [Servers -> Seq(Tasks)]
        /\ \A r \in Servers : jobCh'[r] = IF r = s THEN <<>> ELSE jobCh[r]
    <2>1. jobCh \in [Servers -> Seq(Tasks)] /\ <<>> \in Seq(Tasks)
      BY <1>0 DEF ForwardingTypeOK
    <2> QED BY <2>1 DEF Crash
  <1>4. /\ running' \in [Servers -> [Keys -> Tasks \cup {None}]]
        /\ completed' \in [Servers -> [Keys -> Tasks \cup {None}]]
        /\ \A r \in Servers, k \in Keys : /\ running'[r][k] = IF r = s THEN None ELSE running[r][k]
                                          /\ completed'[r][k] = IF r = s THEN None ELSE completed[r][k]
    <2>1. /\ running \in [Servers -> [Keys -> Tasks \cup {None}]]
          /\ completed \in [Servers -> [Keys -> Tasks \cup {None}]]
      BY <1>0 DEF ForwardingTypeOK
    <2> HIDE DEF Keys
    <2> QED BY <2>1 DEF Crash
  <1>5. /\ HandlerTypes' /\ \A t \in Tasks : pc'[t] \in {pc[t], "done"} /\ fpc'[t] \in {fpc[t], "none"}
    BY <1>0, <1>1 DEF Crash, HandlerTypes, Outcomes
  <1>6. \A r \in Servers : Len(jobCh'[r]) <= ChanCap
    <2>1. Len(<<>>) = 0 /\ \A r \in Servers : Len(jobCh[r]) <= ChanCap
      BY <1>0 DEF ForwardingTypeOK
    <2> QED BY <1>3, <2>1, SizeAssumption
  <1>7. ForwardingTypeOK'
    BY <1>0, <1>1, <1>2, <1>3, <1>4, <1>5, <1>6 DEF ForwardingTypeOK, HandlerTypes, Keys, Outcomes, Statuses
  <1>8. QueuesInv'
    <2>1. ASSUME NEW r \in Servers
          PROVE  /\ \A i \in 1 .. Len(jobCh'[r]) : status'[r][jobCh'[r][i]] = "pending"
                 /\ \A i, j \in 1 .. Len(jobCh'[r]) : jobCh'[r][i] = jobCh'[r][j] => i = j
      <3>1. CASE r = s
        <4>1. Len(jobCh'[r]) = 0 /\ 1 .. 0 = {}
          BY <1>3, <3>1
        <4> QED BY <4>1
      <3>2. CASE r # s
        <4>1. \A i \in 1 .. Len(jobCh[r]) : jobCh[r][i] \in Tasks /\ status[r][jobCh[r][i]] = "pending"
          BY <1>0 DEF QueuesInv, ForwardingTypeOK
        <4>2. jobCh'[r] = jobCh[r] /\ \A u \in Tasks : status'[r][u] = status[r][u]
          BY <1>2, <1>3, <3>2
        <4> QED BY <1>0, <4>1, <4>2 DEF QueuesInv
      <3> QED BY <3>1, <3>2
    <2>2. ASSUME NEW r \in Servers, NEW k \in Keys
          PROVE  /\ running'[r][k] # None => Key(running[r][k])' = k
                 /\ completed'[r][k] # None => Key(completed[r][k])' = k
      <3>1. /\ running[r][k] # None => Key(running[r][k]) = k
            /\ completed[r][k] # None => Key(completed[r][k]) = k
        BY <1>0 DEF QueuesInv
      <3>2. CASE r = s
        BY <1>4, <3>2
      <3>3. CASE r # s
        <4>1. running'[r][k] = running[r][k] /\ completed'[r][k] = completed[r][k]
          BY <1>4, <3>3
        <4> QED BY <1>1, <3>1, <4>1 DEF Key
      <3> QED BY <3>2, <3>3
    <2>3. Keys' = Keys
      BY DEF Keys
    <2> QED BY <2>1, <2>2, <2>3 DEF QueuesInv
  <1>9. ASSUME NEW t \in Tasks PROVE Stage(t)'
    <2>1. Stage(t) /\ (fpc'[t] = "none" \/ fpc[t] # "none")
      BY <1>5 DEF ForwardInv
    <2>2. \A r \in Servers : \/ status'[r][t] = status[r][t]
                             \/ status[r][t] \in Active /\ status'[r][t] \in Active
      BY <1>2 DEF Active
    <2> QED BY <1>0, <1>1, <1>5, <2>1, <2>2, StageKept
  <1>10. ASSUME NEW t \in Tasks PROVE IsTrue(reply[t], t)' /\ IsTrue(answer[t], t)'
    <2>1. \A r \in Servers, u \in Tasks : status[r][u] = "completed" => status'[r][u] = "completed"
      BY <1>2
    <2>2. IsTrue(reply[t], t) /\ IsTrue(answer[t], t)
      BY DEF ForwardInv
    <2> QED BY <1>1, <2>1, <2>2, TruthKept DEF IsTrue
  <1> QED BY <1>7, <1>8, <1>9, <1>10 DEF ForwardInv

LEMMA ForwardStep == ASSUME ForwardInv, [ForwardingNext]_workVars PROVE ForwardInv'
  <1>1. ASSUME NEW s \in Servers, Worker(s) PROVE ForwardInv'
    BY <1>1, WorkerKeeps DEF Worker
  <1>2. ASSUME NEW s \in Servers, Crash(s) PROVE ForwardInv'
    BY <1>2, CrashKeeps
  <1>3. ASSUME NEW t \in Tasks, Handler(t) PROVE ForwardInv'
    BY <1>3, AsksKeeps, HereKeeps, OpenAISubmitKeeps, PollKeeps, DeadlineKeeps, DirectKeeps,
       PostKeeps, TurnedAwayKeeps, ReplyKeeps, RetreatKeeps DEF Handler
  <1>4. ASSUME NEW t \in Tasks, ForwardHandler(t) PROVE ForwardInv'
    BY <1>4, ForwardHandlerKeeps
  <1>5. CASE UNCHANGED workVars
    <2>1. QueuesSame /\ UNCHANGED <<pc, peer, fpc, reply, answer, failed>>
      BY <1>5 DEF workVars, env, queueVars, handlerVars, QueuesSame
    <2>2. ForwardingTypeOK' /\ QueuesInv' /\ \A s \in Servers, u \in Tasks : status'[s][u] = status[s][u]
      <3>1. HandlerTypes'
        BY <2>1, TypesSplit DEF ForwardInv, HandlerTypes, Outcomes
      <3> QED BY <2>1, <3>1, QuietTypes, QuietQueues DEF ForwardInv
    <2>3. ASSUME NEW t \in Tasks PROVE Stage(t)' /\ IsTrue(reply[t], t)' /\ IsTrue(answer[t], t)'
      BY <2>1 DEF ForwardInv, Stage, IsTrue, QueuesSame, Key
    <2> QED BY <2>2, <2>3 DEF ForwardInv
  <1> QED BY <1>1, <1>2, <1>3, <1>4, <1>5 DEF ForwardingNext

LEMMA ForwardAlways == ForwardingSpec => []ForwardInv
  <1>1. ForwardingInit => ForwardInv
    BY ForwardInit
  <1>2. ForwardInv /\ [ForwardingNext]_workVars => ForwardInv'
    BY ForwardStep
  <1> QED BY <1>1, <1>2, PTL DEF ForwardingSpec

(* Whatever is lost and whoever crashes, a result given with "completed"   *)
(* is that of a job that ran to its end, of the client's own task or of    *)
(* one whose ID the same server made up in the same millisecond: the polls *)
(* by key find no other (handlers.go:505-541, openai_compat.go:478-511).   *)
(* Where no status is looked at the client may be given no result.         *)
THEOREM ResultsStayTrue == ForwardingSpec => []ResultsAreTrue
  <1>1. ForwardInv => ResultsAreTrue
    BY DEF ForwardInv, ResultsAreTrue, IsTrue, Key
  <1> QED BY <1>1, ForwardAlways, PTL

LEMMA PairCount ==
    ASSUME NEW a, NEW b, NEW S, S \subseteq {a, b}
    PROVE  Cardinality(S) <= 2 /\ (S \subseteq {a} \/ S \subseteq {b} => Cardinality(S) <= 1)
  <1>1. \A x : IsFiniteSet({x}) /\ Cardinality({x}) = 1
    BY FS_Singleton
  <1>2. {a, b} = {a} \cup {b}
    OBVIOUS
  <1>3. IsFiniteSet({a, b}) /\ Cardinality({a, b}) <= 2
    <2>1. /\ IsFiniteSet({a} \cup {b})
          /\ Cardinality({a} \cup {b}) = IF b \in {a} THEN Cardinality({a}) ELSE Cardinality({a}) + 1
      BY <1>1, FS_AddElement
    <2> QED BY <1>1, <1>2, <2>1
  <1>4. Cardinality(S) <= Cardinality({a, b})
    BY <1>3, FS_Subset
  <1>5. ASSUME NEW x, S \subseteq {x} PROVE Cardinality(S) <= 1
    <2>1. IsFiniteSet({x}) /\ Cardinality({x}) = 1
      BY <1>1
    <2> QED BY <1>5, <2>1, FS_Subset
  <1>6. Cardinality(S) \in Nat /\ Cardinality({a, b}) \in Nat
    BY <1>3, FS_Subset, FS_CardinalityType
  <1> QED BY <1>3, <1>4, <1>5, <1>6

(* However requests, answers and crashes fall, no task runs on three       *)
(* servers, and on two only if forwarding it or running it here first      *)
(* failed (handlers.go:449-472, openai_compat.go:458-500).                 *)
THEOREM RunsAreFew == ForwardingSpec => []RunTwiceOnlyAfterFailure
  <1>1. ASSUME ForwardInv PROVE RunTwiceOnlyAfterFailure
    <2>1. ASSUME NEW t \in Tasks
          PROVE  Cardinality(Ran(t)) <= (IF t \in failed THEN 2 ELSE 1)
      <3>1. Stage(t) /\ at[t] \in Servers /\ (peer[t] # None => peer[t] \in Servers)
        BY <1>1, SameSlot DEF ForwardInv
      <3>2. Ran(t) \subseteq {at[t], peer[t]}
        BY <3>1 DEF Stage, Ran, Working
      <3>3. t \notin failed => Ran(t) \subseteq {at[t]} \/ Ran(t) \subseteq {peer[t]}
        <4>1. CASE peer[t] = None
          BY <3>2, <4>1, TaskAssumption DEF Ran
        <4>2. CASE peer[t] # None
          BY <3>1, <3>2, <4>2 DEF Ran, Stage, Working
        <4> QED BY <4>1, <4>2
      <3> HIDE DEF Ran
      <3>4. /\ Cardinality(Ran(t)) <= 2
            /\ Ran(t) \subseteq {at[t]} \/ Ran(t) \subseteq {peer[t]} => Cardinality(Ran(t)) <= 1
        BY <3>2, PairCount
      <3> QED BY <3>3, <3>4
    <2> QED BY <2>1 DEF RunTwiceOnlyAfterFailure
  <1> QED BY <1>1, ForwardAlways, PTL
=============================================================================

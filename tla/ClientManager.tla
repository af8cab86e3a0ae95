--------------------------- MODULE ClientManager ---------------------------
(***************************************************************************)
(* The clients a hive server knows (handlers.go ClientManager): a bounded  *)
(* table from which a loop removes those that have been silent for too     *)
(* long.  Names and job counters, which are only shown, are left out.      *)
(***************************************************************************)
EXTENDS Integers, FiniteSets

CONSTANTS
    Clients,
    MaxClients,
    StaleAfter,  \* 120 s in handlers.go
    Absent

ASSUME ClientAssumption == MaxClients \in Nat /\ StaleAfter \in Nat
ASSUME AbsentAssumption == Absent \notin Nat

VARIABLES
    clients,     \* per client: LastHeartbeat, or Absent
    heard        \* ghost: when a client was last heard of that has not been
                 \* silent for longer than StaleAfter since it registered

clientVars == <<clients, heard>>

ClientInit ==
    /\ clients = [c \in Clients |-> Absent]
    /\ heard = [c \in Clients |-> Absent]

Known == {c \in Clients : clients[c] # Absent}

-----------------------------------------------------------------------------
(* A full table has room only for a client that is in it.                  *)
HasRoom(c) == Cardinality(Known) < MaxClients \/ c \in Known

(* Mutant: a client that comes back keeps its old heartbeat.               *)
RegisterKeepsOld(c, t) ==
    /\ HasRoom(c)
    /\ clients' = [clients EXCEPT ![c] = IF @ = Absent THEN t ELSE @]
    /\ heard' = [heard EXCEPT ![c] = t]

(* Register, called by handleClientRegister and submitJob: a new client,   *)
(* or one that is refreshed.                                               *)
Register(c, t) ==
    /\ HasRoom(c)
    /\ clients' = [clients EXCEPT ![c] = t]
    /\ heard' = [heard EXCEPT ![c] = t]

(* Register answers with an error.                                         *)
RegisterFails(c) == ~HasRoom(c) /\ UNCHANGED clientVars

(* Heartbeat of a client that is not in the table is answered "ok" too,    *)
(* and changes nothing.  A client that was silent for too long may have    *)
(* lost its place: it has to register again, whatever it is answered.      *)
Heartbeat(c, t) ==
    /\ clients' = [clients EXCEPT ![c] = IF @ = Absent THEN Absent ELSE t]
    /\ heard' = [heard EXCEPT ![c] = IF @ # Absent /\ t - @ <= StaleAfter THEN t ELSE Absent]

Unregister(c) ==
    /\ clients' = [clients EXCEPT ![c] = Absent]
    /\ heard' = [heard EXCEPT ![c] = Absent]

(* A round of heartbeatCheckLoop.                                          *)
Stale(c, t) == clients[c] # Absent /\ clients[c] < t - StaleAfter

HeartbeatCheck(t) ==
    /\ \E c \in Clients : Stale(c, t)
    /\ clients' = [c \in Clients |-> IF Stale(c, t) THEN Absent ELSE clients[c]]
    /\ UNCHANGED heard

-----------------------------------------------------------------------------
ClientTypeOK ==
    /\ clients \in [Clients -> Nat \cup {Absent}]
    /\ heard \in [Clients -> Nat \cup {Absent}]
    /\ Cardinality(Known) <= MaxClients
=============================================================================

---------------------------- MODULE MCForwarding ----------------------------
(* Constants for the run of Forwarding: tasks that come within one         *)
(* millisecond; as servers are alike, one of them comes to a fixed server. *)
EXTENDS Forwarding
CONSTANTS first, home

SameId == [t \in Tasks |-> 1]
FirstAtHome == {f \in [Tasks -> Servers] : f[first] = home}
=============================================================================

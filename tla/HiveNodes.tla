----------------------------- MODULE HiveNodes -----------------------------
(* What the models of the hive's registry and balancer share: its nodes.   *)
CONSTANTS
    Nodes,      \* node IDs, one agent each
    None        \* nil

ASSUME NilAssumption == None \notin Nodes
=============================================================================

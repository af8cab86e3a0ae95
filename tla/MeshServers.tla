---------------------------- MODULE MeshServers ----------------------------
(* What the models of a mesh share: the servers that take part in it.      *)
CONSTANTS
    Servers,    \* server IDs: a host that changes its name has several
    None        \* nothing: no entry, no server, no job
=============================================================================

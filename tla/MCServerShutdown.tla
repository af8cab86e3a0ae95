-------------------------- MODULE MCServerShutdown --------------------------
(* Constants for the run of ServerShutdown.                                *)
EXTENDS ServerShutdown

CONSTANTS j1, j2

(* j1 and j2 are submitted by one client in the same millisecond.          *)
SharedId == [j \in Jobs |-> IF j = j2 THEN j1 ELSE j]
=============================================================================

--------------------------- MODULE MCClusterProxy ---------------------------
(* Constants for the runs of ClusterProxy.                                 *)
EXTENDS ClusterProxy

(* Requests differ only in what the model does with them.                  *)
Symmetry == Permutations(Reqs)
=============================================================================

-------------------------- MODULE MCPriorityQueue --------------------------
(* Constants for the runs of PriorityQueue.                                *)
EXTENDS PriorityQueue

(* Two jobs of the run have the same ID.                                   *)
CONSTANTS Original, Twin
SharedId == [j \in Jobs |-> IF j = Twin THEN Original ELSE j]

Symmetry == Permutations(Workers)
=============================================================================

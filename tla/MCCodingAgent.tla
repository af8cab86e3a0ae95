--------------------------- MODULE MCCodingAgent ---------------------------
(* Constants for the run of CodingAgent.                                   *)
EXTENDS CodingAgent

Allowed(sends, prompts, archives, deletes, failures, restarts) ==
    [e \in Events |-> CASE e = "create" -> 1 [] e = "send" -> sends [] e = "prompt" -> prompts
                        [] e = "archive" -> archives [] e = "delete" -> deletes
                        [] e = "failure" -> failures [] e = "restart" -> restarts]

(* Four messages, so that a message may be overtaken by enough others to   *)
(* lie before a split point; three with a failure and a crash or a delete; *)
(* fewer with an archive, a delete, a failure and a crash.                 *)
EventBudgets ==
    {Allowed(4, 1, 0, 0, 0, 0), Allowed(3, 1, 0, 0, 1, 1), Allowed(3, 1, 0, 1, 0, 0),
     Allowed(2, 1, 1, 1, 1, 0), Allowed(1, 0, 1, 1, 1, 1)}

Interchangeable == {[r \in Reqs |-> IF r = a THEN b ELSE IF r = b THEN a ELSE r] : a, b \in Reqs}
=============================================================================

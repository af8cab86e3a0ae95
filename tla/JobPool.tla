------------------------------ MODULE JobPool ------------------------------
(***************************************************************************)
(* What OllamaQueue promises its callers, without its channel, maps and    *)
(* goroutines: jobs are taken or refused at once, those taken wait in one  *)
(* line of bounded length, and a fixed number of servers take them from    *)
(* its head, one at a time each, and give every one a single outcome.      *)
(***************************************************************************)
EXTENDS Integers, Sequences

CONSTANTS Jobs, Servers, Room, Nobody

VARIABLES
    waiting,   \* the line
    serving,   \* the job of each server, or Nobody
    outcome    \* what became of each job

poolVars == <<waiting, serving, outcome>>

PoolInit ==
    /\ waiting = <<>>
    /\ serving = [s \in Servers |-> Nobody]
    /\ outcome = [j \in Jobs |-> "none"]

Accept(j) ==
    /\ outcome[j] = "none" /\ Len(waiting) < Room
    /\ waiting' = Append(waiting, j)
    /\ outcome' = [outcome EXCEPT ![j] = "pending"]
    /\ UNCHANGED serving

Refuse(j) ==
    /\ outcome[j] = "none" /\ Len(waiting) >= Room
    /\ outcome' = [outcome EXCEPT ![j] = "refused"]
    /\ UNCHANGED <<waiting, serving>>

Serve(s) ==
    /\ serving[s] = Nobody /\ waiting # <<>>
    /\ serving' = [serving EXCEPT ![s] = Head(waiting)]
    /\ waiting' = Tail(waiting)
    /\ UNCHANGED outcome

Finish(s) ==
    /\ serving[s] # Nobody /\ outcome[serving[s]] = "pending"
    /\ \E o \in {"completed", "failed"} : outcome' = [outcome EXCEPT ![serving[s]] = o]
    /\ serving' = [serving EXCEPT ![s] = Nobody]
    /\ UNCHANGED waiting

PoolNext ==
    \/ \E j \in Jobs : Accept(j) \/ Refuse(j)
    \/ \E s \in Servers : Serve(s) \/ Finish(s)

PoolSpec == PoolInit /\ [][PoolNext]_poolVars
=============================================================================

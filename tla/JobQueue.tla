------------------------------ MODULE JobQueue ------------------------------
(***************************************************************************)
(* hive-server-go/queue.go: OllamaQueue, a buffered channel of jobs and a  *)
(* pool of maxConcurrent worker goroutines that run them against Ollama.   *)
(*                                                                         *)
(* Jobs are objects; the running and completed maps are keyed by job ID,   *)
(* which the handlers build from client, type and a millisecond timestamp  *)
(* (handlers.go:466), so two jobs may share one.  A worker's pass over a   *)
(* job is four steps with unlocked gaps between them: receive, enter the   *)
(* running map, finish executeJob, move to the completed map.  What Ollama *)
(* answers is the choice between completed and failed.                     *)
(***************************************************************************)
EXTENDS Integers, Sequences, FiniteSets

CONSTANTS
    Jobs,       \* job objects clients may submit
    Ids,        \* job IDs
    IdOf,       \* the ID each job is given
    Workers,    \* the goroutines of Start (maxConcurrent of them)
    ChanCap,    \* capacity of jobCh
    None        \* nil

ASSUME IdAssumption == IdOf \in [Jobs -> Ids]
ASSUME CapAssumption == ChanCap \in Nat
ASSUME JobNoneAssumption == None \notin Jobs
ASSUME WorkersAssumption == IsFiniteSet(Workers)

VARIABLES
    jobCh,      \* jobs buffered in the channel, oldest first
    stopCh,     \* TRUE once stopCh is closed
    status,     \* Job.Status; "new" before the job exists
    running,    \* the running map
    completed,  \* the completed map
    wpc,        \* where each worker is in its loop
    wjob,       \* the job each worker holds
    finished    \* ghost: jobs whose pass through a worker is over

queueVars == <<jobCh, stopCh, status, running, completed, wpc, wjob, finished>>

InChannel == {jobCh[i] : i \in 1 .. Len(jobCh)}
Held == {wjob[w] : w \in Workers} \ {None}
Accepted == InChannel \cup Held \cup finished

QueueInit ==
    /\ jobCh = <<>>
    /\ stopCh = FALSE
    /\ status = [j \in Jobs |-> "new"]
    /\ running = [i \in Ids |-> None]
    /\ completed = [i \in Ids |-> None]
    /\ wpc = [w \in Workers |-> "select"]
    /\ wjob = [w \in Workers |-> None]
    /\ finished = {}

-----------------------------------------------------------------------------
(* NewJob and Submit: the non-blocking send takes the job ...              *)
SubmitAccepted(j) ==
    /\ status[j] = "new"
    /\ Len(jobCh) < ChanCap
    /\ jobCh' = Append(jobCh, j)
    /\ status' = [status EXCEPT ![j] = "pending"]
    /\ UNCHANGED <<stopCh, running, completed, wpc, wjob, finished>>

(* ... or finds the channel full, and the job exists but is in no queue.   *)
SubmitRefused(j) ==
    /\ status[j] = "new"
    /\ Len(jobCh) >= ChanCap
    /\ status' = [status EXCEPT ![j] = "refused"]
    /\ UNCHANGED <<jobCh, stopCh, running, completed, wpc, wjob, finished>>

(* A mutation: the job is read but stays in the channel.                   *)
ReceiveWithoutRemoving(w) ==
    /\ wpc[w] = "select"
    /\ jobCh # <<>>
    /\ wjob' = [wjob EXCEPT ![w] = Head(jobCh)]
    /\ status' = [status EXCEPT ![Head(jobCh)] = "running"]
    /\ wpc' = [wpc EXCEPT ![w] = "received"]
    /\ UNCHANGED <<jobCh, stopCh, running, completed, finished>>

(* A mutation: the newest job is served first.                             *)
ReceiveNewest(w) ==
    /\ wpc[w] = "select"
    /\ jobCh # <<>>
    /\ wjob' = [wjob EXCEPT ![w] = jobCh[Len(jobCh)]]
    /\ jobCh' = SubSeq(jobCh, 1, Len(jobCh) - 1)
    /\ status' = [status EXCEPT ![jobCh[Len(jobCh)]] = "running"]
    /\ wpc' = [wpc EXCEPT ![w] = "received"]
    /\ UNCHANGED <<stopCh, running, completed, finished>>

(* The worker's select: with stopCh closed and a job buffered both cases   *)
(* are ready and either may be taken.                                      *)
WorkerReceive(w) ==
    /\ wpc[w] = "select"
    /\ jobCh # <<>>
    /\ wjob' = [wjob EXCEPT ![w] = Head(jobCh)]
    /\ jobCh' = Tail(jobCh)
    /\ status' = [status EXCEPT ![Head(jobCh)] = "running"]
    /\ wpc' = [wpc EXCEPT ![w] = "received"]
    /\ UNCHANGED <<stopCh, running, completed, finished>>

(* Mutations: an idle worker leaves unasked; Stop reaches one worker only. *)
ExitUnasked(w) ==
    /\ wpc[w] = "select"
    /\ wpc' = [wpc EXCEPT ![w] = "exited"]
    /\ UNCHANGED <<jobCh, stopCh, status, running, completed, wjob, finished>>

ExitOfOne(w) ==
    /\ wpc[w] = "select"
    /\ stopCh /\ \A v \in Workers : wpc[v] # "exited"
    /\ wpc' = [wpc EXCEPT ![w] = "exited"]
    /\ UNCHANGED <<jobCh, stopCh, status, running, completed, wjob, finished>>

WorkerExit(w) ==
    /\ wpc[w] = "select"
    /\ stopCh
    /\ wpc' = [wpc EXCEPT ![w] = "exited"]
    /\ UNCHANGED <<jobCh, stopCh, status, running, completed, wjob, finished>>

WorkerEnter(w) ==
    /\ wpc[w] = "received"
    /\ running' = [running EXCEPT ![IdOf[wjob[w]]] = wjob[w]]
    /\ wpc' = [wpc EXCEPT ![w] = "executing"]
    /\ UNCHANGED <<jobCh, stopCh, status, completed, wjob, finished>>

(* executeJob: the call to Ollama returns and the job's fields are set,    *)
(* outside any lock and while the job is still in the running map.         *)
WorkerExecute(w) ==
    /\ wpc[w] = "executing"
    /\ \E outcome \in {"completed", "failed"} :
          status' = [status EXCEPT ![wjob[w]] = outcome]
    /\ wpc' = [wpc EXCEPT ![w] = "executed"]
    /\ UNCHANGED <<jobCh, stopCh, running, completed, wjob, finished>>

(* Mutations: the running entry stays; the result is not kept.             *)
StoreKeepsRunning(w) ==
    /\ wpc[w] = "executed"
    /\ completed' = [completed EXCEPT ![IdOf[wjob[w]]] = wjob[w]]
    /\ finished' = finished \cup {wjob[w]}
    /\ wjob' = [wjob EXCEPT ![w] = None]
    /\ wpc' = [wpc EXCEPT ![w] = "select"]
    /\ UNCHANGED <<jobCh, stopCh, status, running>>

StoreDropsResult(w) ==
    /\ wpc[w] = "executed"
    /\ running' = [running EXCEPT ![IdOf[wjob[w]]] = None]
    /\ finished' = finished \cup {wjob[w]}
    /\ wjob' = [wjob EXCEPT ![w] = None]
    /\ wpc' = [wpc EXCEPT ![w] = "select"]
    /\ UNCHANGED <<jobCh, stopCh, status, completed>>

WorkerStore(w) ==
    /\ wpc[w] = "executed"
    /\ running' = [running EXCEPT ![IdOf[wjob[w]]] = None]
    /\ completed' = [completed EXCEPT ![IdOf[wjob[w]]] = wjob[w]]
    /\ finished' = finished \cup {wjob[w]}
    /\ wjob' = [wjob EXCEPT ![w] = None]
    /\ wpc' = [wpc EXCEPT ![w] = "select"]
    /\ UNCHANGED <<jobCh, stopCh, status>>

WorkerStep(w) ==
    \/ WorkerReceive(w) \/ WorkerExit(w) \/ WorkerEnter(w)
    \/ WorkerExecute(w) \/ WorkerStore(w)

(* Stop closes stopCh and waits for the workers; closing it twice panics   *)
(* (ServerShutdown models the callers).                                    *)
CloseStopCh ==
    /\ ~stopCh
    /\ stopCh' = TRUE
    /\ UNCHANGED <<jobCh, status, running, completed, wpc, wjob, finished>>

AllExited == \A w \in Workers : wpc[w] = "exited"

QueueNext ==
    \/ \E j \in Jobs : SubmitAccepted(j) \/ SubmitRefused(j)
    \/ \E w \in Workers : WorkerStep(w)
    \/ CloseStopCh

QueueSpec == QueueInit /\ [][QueueNext]_queueVars

-----------------------------------------------------------------------------
(* The read operations.                                                    *)

GetJob(i) == IF running[i] # None THEN running[i] ELSE completed[i]

GetAvailableCapacity ==
    LET free == Cardinality(Workers) - Cardinality({i \in Ids : running[i] # None})
    IN  IF free < 0 THEN 0 ELSE free

-----------------------------------------------------------------------------
Statuses == {"new", "refused", "pending", "running", "completed", "failed"}

TypeOK ==
    /\ jobCh \in Seq(Jobs) /\ Len(jobCh) <= ChanCap
    /\ stopCh \in BOOLEAN
    /\ status \in [Jobs -> Statuses]
    /\ running \in [Ids -> Jobs \cup {None}]
    /\ completed \in [Ids -> Jobs \cup {None}]
    /\ wpc \in [Workers -> {"select", "received", "executing", "executed", "exited"}]
    /\ wjob \in [Workers -> Jobs \cup {None}]
    /\ finished \subseteq Jobs

ChannelDistinct == \A i, k \in 1 .. Len(jobCh) : jobCh[i] = jobCh[k] => i = k

WorkersDistinct == \A v, w \in Workers : wjob[v] = wjob[w] /\ wjob[v] # None => v = w

PlacesDisjoint == InChannel \cap Held = {} /\ (InChannel \cup Held) \cap finished = {}

StatusTellsPlace ==
    /\ \A j \in Jobs : j \in Accepted <=> status[j] \notin {"new", "refused"}
    /\ \A j \in InChannel : status[j] = "pending"
    /\ \A j \in finished : status[j] \in {"completed", "failed"}
    /\ \A w \in Workers :
          /\ wjob[w] # None <=> wpc[w] \in {"received", "executing", "executed"}
          /\ wpc[w] \in {"received", "executing"} => status[wjob[w]] = "running"
          /\ wpc[w] = "executed" => status[wjob[w]] \in {"completed", "failed"}

(* A job is in one place: at one position of the channel, with one worker, *)
(* or finished; no interleaving of submitters and workers duplicates or    *)
(* drops an accepted job, and its status says which (queue.go:111-143).    *)
OnePlacePerJob ==
    ChannelDistinct /\ WorkersDistinct /\ PlacesDisjoint /\ StatusTellsPlace

(* Under an ID no other job has, the running map holds exactly the job a   *)
(* worker is executing; and whatever IDs jobs share, GetAvailableCapacity  *)
(* never reports less than the number of workers waiting for a job         *)
(* (queue.go:131-140, 470-474).                                            *)
RunningMapExact ==
    /\ \A i \in Ids : (\A j, k \in Jobs : IdOf[j] = i /\ IdOf[k] = i => j = k) =>
          {running[i]} \ {None} =
             {wjob[w] : w \in {v \in Workers :
                 wpc[v] \in {"executing", "executed"} /\ IdOf[wjob[v]] = i}}
    /\ GetAvailableCapacity >= Cardinality({w \in Workers : wpc[w] = "select"})

(* What a caller can tell of a job: pending until its result can be        *)
(* polled for.                                                             *)
Told(j) ==
    IF status[j] = "new" THEN "none"
    ELSE IF status[j] = "refused" \/ j \in finished THEN status[j] ELSE "pending"

Outcome == [j \in Jobs |-> Told(j)]

Pool == INSTANCE JobPool WITH
            Servers <- Workers, Room <- ChanCap, Nobody <- None,
            waiting <- jobCh, serving <- wjob, outcome <- Outcome

(* The queue implements the abstract pool: with the unlocked gaps between  *)
(* a worker's steps, shared IDs and a stop at any time, it still serves    *)
(* the accepted jobs in the order of their submission, each once, and a    *)
(* job is refused only when the line is full (queue.go:111-143).           *)
ImplementsPool == Pool!PoolSpec

(* Once a poller of /api/jobs/get has been shown a job under an ID, that   *)
(* ID is never reported as not found again, shared or not                  *)
(* (queue.go:137-140, 476-486).                                            *)
NeverVanishes ==
    [][\A i \in Ids : GetJob(i) # None => GetJob(i)' # None]_queueVars
=============================================================================

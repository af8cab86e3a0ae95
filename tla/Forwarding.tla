----------------------------- MODULE Forwarding -----------------------------
(***************************************************************************)
(* How the servers of a mesh share work: the handlers that accept a task   *)
(* (handlers.go submitJob, openai_compat.go handleOpenAIDirect), the call  *)
(* of a peer's /api/jobs/forward and the handler behind it, composed with  *)
(* a queue and workers per server.                                         *)
(*                                                                         *)
(* A handler that waits holds no worker.  Which peer is asked comes from   *)
(* beacons and a model list that may be 30 s old, so it may be any other   *)
(* server, full, gone or without the model.  Requests and answers between  *)
(* servers may be lost, servers may crash, and a job ID is a millisecond   *)
(* timestamp, so that two tasks of one server may share it.  The queue is  *)
(* OllamaQueue, whose worker JobQueue models in detail.                    *)
(***************************************************************************)
EXTENDS MeshServers, Integers, Sequences, FiniteSets

CONSTANTS
    Tasks, Ids,
    IdOf,          \* the timestamp in the ID that a task's handler makes up
    Arrivals,      \* the ways in which clients may send the tasks to servers
    MaxConcurrent, \* workers per server
    ChanCap,       \* capacity of jobCh
    MaxCrashes

ASSUME TaskAssumption ==
    /\ IdOf \in [Tasks -> Ids] /\ Arrivals \subseteq [Tasks -> Servers]
    /\ None \notin Tasks \cup Servers \cup {"completed"}
ASSUME SizeAssumption == MaxConcurrent \in Nat /\ ChanCap \in Nat

VARIABLES
    at,         \* the server each task is sent to
    route,      \* "job" for POST /api/jobs, "openai" for chat completions
    jobCh,      \* per server: tasks buffered in the channel
    running,    \* per server and key: the running map
    completed,  \* per server and key: the completed map
    status,     \* per server and task: the status of the task's job there
    pc,         \* of each task's handler at its server
    peer,       \* the peer asked to run the task
    fpc,        \* of the handler of /api/jobs/forward at the peer
    reply,      \* the answer of that handler
    answer,     \* what the client was told
    crashes,
    failed      \* ghost: tasks whose forward or whose run here did not work out

queueVars == <<jobCh, running, completed, status>>
handlerVars == <<pc, peer, fpc, reply, answer>>
env == <<at, route, crashes>>
workVars == <<env, queueVars, handlerVars, failed>>

Routes == {"job", "openai"}
Keys == Servers \X Routes \X Ids

(* Mutant: a peer keeps the job under the ID the origin made up.           *)
KeyWithoutOrigin(t) == <<CHOOSE s \in Servers : TRUE, route[t], IdOf[t]>>

(* A job is known under its ID here, and under "mesh:origin:ID" at a peer. *)
Key(t) == <<at[t], route[t], IdOf[t]>>

(* What is told of a task: a status, "unsaid" if the answer has none, and  *)
(* the task whose job it is about; a completed one of None has no result.  *)
Nothing == [status |-> None, of |-> None]
Outcome(s, t) == [status |-> s, of |-> t]

ForwardingInit ==
    /\ at \in Arrivals /\ route \in [Tasks -> Routes]
    /\ jobCh = [s \in Servers |-> <<>>]
    /\ running = [s \in Servers |-> [k \in Keys |-> None]]
    /\ completed = [s \in Servers |-> [k \in Keys |-> None]]
    /\ status = [s \in Servers |-> [t \in Tasks |-> "none"]]
    /\ pc = [t \in Tasks |-> "new"]
    /\ peer = [t \in Tasks |-> None]
    /\ fpc = [t \in Tasks |-> "none"]
    /\ reply = [t \in Tasks |-> Nothing]
    /\ answer = [t \in Tasks |-> Nothing]
    /\ crashes = 0
    /\ failed = {}

-----------------------------------------------------------------------------
(* The queue of a server.                                                  *)

(* Submit says no to a full channel; only some callers listen.             *)
Full(s) == Len(jobCh[s]) >= ChanCap

Submit(s, t) ==
    /\ status' = [status EXCEPT ![s][t] = IF Full(s) THEN "refused" ELSE "pending"]
    /\ jobCh' = IF Full(s) THEN jobCh ELSE [jobCh EXCEPT ![s] = Append(@, t)]

GetJob(s, k) == IF running[s][k] # None THEN running[s][k] ELSE completed[s][k]

(* The jobs that workers hold.  A job that is "completing" has its Status  *)
(* and not yet its Result, one that is "failing" not yet its Error: pollers *)
(* read them without a lock, until the worker takes it to move the job.    *)
Working(s) == {t \in Tasks : status[s][t] \in {"running", "completing", "failing"}}

GetAvailableCapacity(s) ==
    LET free == MaxConcurrent - Cardinality({k \in Keys : running[s][k] # None})
    IN  IF free < 0 THEN 0 ELSE free

WorkerStarts(s) ==
    /\ jobCh[s] # <<>>
    /\ Cardinality(Working(s)) < MaxConcurrent
    /\ LET t == Head(jobCh[s]) IN
          /\ running' = [running EXCEPT ![s][Key(t)] = t]
          /\ status' = [status EXCEPT ![s][t] = "running"]
    /\ jobCh' = [jobCh EXCEPT ![s] = Tail(@)]
    /\ UNCHANGED <<completed, handlerVars, env, failed>>

(* The call of Ollama returns, and executeJob sets the Status.             *)
WorkerSetsStatus(s) ==
    /\ \E t \in Tasks, o \in {"completing", "failing"} :
          status[s][t] = "running" /\ status' = [status EXCEPT ![s][t] = o]
    /\ UNCHANGED <<jobCh, running, completed, handlerVars, env, failed>>

(* The Result or the Error is there, and the job moves to the other map;   *)
(* "missing" is a failure because the model is not there.                  *)
WorkerEnds(s) ==
    /\ \E t \in Tasks, o \in {"completed", "failed", "missing"} :
          /\ status[s][t] = IF o = "completed" THEN "completing" ELSE "failing"
          /\ status' = [status EXCEPT ![s][t] = o]
          /\ running' = [running EXCEPT ![s][Key(t)] = None]
          /\ completed' = [completed EXCEPT ![s][Key(t)] = t]
    /\ UNCHANGED <<jobCh, handlerVars, env, failed>>

-----------------------------------------------------------------------------
(* The handler at the server the client called.                            *)
Goto(t, l) == pc' = [pc EXCEPT ![t] = l]

Tell(t, o) == answer' = [answer EXCEPT ![t] = o] /\ Goto(t, "done")

(* GetBestPeer and findPeerWithModel: the information is old, so any peer  *)
(* or none may come out.                                                   *)
Peers(s) == (Servers \ {s}) \cup {None}

(* submitJob looks for a peer only when every worker is busy.              *)
SubmitJobAsksPeer(t) ==
    /\ pc[t] = "new" /\ route[t] = "job"
    /\ GetAvailableCapacity(at[t]) <= 0
    /\ \E p \in Peers(at[t]) \ {None} : peer' = [peer EXCEPT ![t] = p]
    /\ Goto(t, "post")
    /\ UNCHANGED <<queueVars, fpc, reply, answer, env, failed>>

(* The job is made, offered to the queue, and returned to the client       *)
(* whether the queue took it or not.                                       *)
SubmitJobHere(t) ==
    /\ route[t] = "job" /\ (pc[t] = "new" \/ pc[t] = "here")
    /\ Submit(at[t], t)
    /\ Tell(t, Outcome("pending", t))
    /\ UNCHANGED <<running, completed, peer, fpc, reply, env, failed>>

(* handleOpenAIDirect offers the job to the queue first; a full queue      *)
(* leads to a peer that has the model, or to Ollama itself.                *)
OpenAISubmit(t) ==
    /\ pc[t] = "new" /\ route[t] = "openai"
    /\ Submit(at[t], t)
    /\ \/ /\ ~Full(at[t])
          /\ Goto(t, "poll") /\ UNCHANGED peer
       \/ /\ Full(at[t])
          /\ \E p \in Peers(at[t]) :
                /\ peer' = [peer EXCEPT ![t] = p]
                /\ Goto(t, IF p = None THEN "direct" ELSE "post")
    /\ UNCHANGED <<running, completed, fpc, reply, answer, env, failed>>

(* The job whose result a poller that finds u at s is given.               *)
Found(s, u) == IF status[s][u] = "completed" THEN u ELSE None

(* It polls for its ID: the job it finds may be another one's, and may not *)
(* have its result yet.                                                    *)
OpenAIPoll(t) ==
    /\ pc[t] = "poll"
    /\ LET u == GetJob(at[t], Key(t)) IN
          /\ u # None
          /\ \/ /\ status[at[t]][u] \in {"completing", "completed"}
                /\ Tell(t, Outcome("completed", Found(at[t], u))) /\ UNCHANGED <<peer, failed>>
             \/ /\ status[at[t]][u] \in {"failing", "failed", "missing"}
                /\ Tell(t, Outcome("failed", u)) /\ UNCHANGED <<peer, failed>>
             \/ /\ status[at[t]][u] = "missing"
                /\ \E p \in Peers(at[t]) \ {None} : peer' = [peer EXCEPT ![t] = p]
                /\ Goto(t, "post") /\ failed' = failed \cup {t}
                /\ UNCHANGED answer
    /\ UNCHANGED <<queueVars, fpc, reply, env>>

OpenAIDeadline(t) ==
    /\ pc[t] = "poll"
    /\ Tell(t, Outcome("failed", None))
    /\ UNCHANGED <<queueVars, peer, fpc, reply, env, failed>>

(* callOllamaDirect, past the queue.  It does not look at the status of    *)
(* the response: an error that Ollama tells is an empty answer.            *)
OpenAIDirect(t) ==
    /\ pc[t] = "direct"
    /\ \E o \in {"completed", "failed"} :
          /\ status' = [status EXCEPT ![at[t]][t] = o]
          /\ \/ Tell(t, Outcome(o, t))
             \/ o = "failed" /\ Tell(t, Outcome("completed", None))
    /\ UNCHANGED <<jobCh, running, completed, peer, fpc, reply, env, failed>>

-----------------------------------------------------------------------------
(* The call of the peer.                                                   *)

(* handleJobForward takes the request and submits the job, and goes on to  *)
(* poll for it even if the queue refused it.                               *)
PostArrives(t) ==
    /\ pc[t] = "post"
    /\ Submit(peer[t], t)
    /\ fpc' = [fpc EXCEPT ![t] = "poll"]
    /\ Goto(t, "wait")
    /\ UNCHANGED <<running, completed, peer, reply, answer, env, failed>>

(* The middleware of the peer turns the request away, with an error that   *)
(* has no "status" (auth.go: too many requests, or no API key).            *)
PeerTurnsAway(t) ==
    /\ pc[t] = "post"
    /\ fpc' = [fpc EXCEPT ![t] = "answered"]
    /\ reply' = [reply EXCEPT ![t] = Outcome("unsaid", None)]
    /\ Goto(t, "wait")
    /\ UNCHANGED <<queueVars, peer, answer, env, failed>>

ForwardPoll(t) ==
    /\ fpc[t] = "poll"
    /\ LET u == GetJob(peer[t], Key(t)) IN
          /\ u # None
          /\ \/ /\ status[peer[t]][u] \in {"completing", "completed"}
                /\ reply' = [reply EXCEPT ![t] = Outcome("completed", Found(peer[t], u))]
             \/ /\ status[peer[t]][u] \in {"failing", "failed", "missing"}
                /\ reply' = [reply EXCEPT ![t] = Outcome("failed", u)]
    /\ fpc' = [fpc EXCEPT ![t] = "answered"]
    /\ UNCHANGED <<queueVars, pc, peer, answer, env, failed>>

(* Mutant: looks at the deadline only once the job is known.               *)
ForwardDeadlineWhenKnown(t) ==
    /\ fpc[t] = "poll" /\ GetJob(peer[t], Key(t)) # None
    /\ reply' = [reply EXCEPT ![t] = Outcome("failed", None)]
    /\ fpc' = [fpc EXCEPT ![t] = "answered"]
    /\ UNCHANGED <<queueVars, pc, peer, answer, env, failed>>

(* 600 s are over: the answer is "forward timeout".                        *)
ForwardDeadline(t) ==
    /\ fpc[t] = "poll"
    /\ reply' = [reply EXCEPT ![t] = Outcome("failed", None)]
    /\ fpc' = [fpc EXCEPT ![t] = "answered"]
    /\ UNCHANGED <<queueVars, pc, peer, answer, env, failed>>

(* submitJob passes on whatever was answered.  forwardOpenAIToPeer takes a *)
(* "failed" for an error and all else for a completed job.                 *)
TakenFor(t) ==
    IF route[t] = "openai" /\ reply[t].status = "unsaid"
    THEN Outcome("completed", None) ELSE reply[t]

(* Mutant: submitJob goes on after it wrote the peer's answer.             *)
ReplyArrivesGoesOn(t) ==
    /\ pc[t] = "wait" /\ fpc[t] = "answered"
    /\ route[t] = "openai" => reply[t].status # "failed"
    /\ answer' = [answer EXCEPT ![t] = TakenFor(t)]
    /\ Goto(t, IF route[t] = "job" THEN "here" ELSE "done")
    /\ fpc' = [fpc EXCEPT ![t] = "none"] /\ reply' = [reply EXCEPT ![t] = Nothing]
    /\ UNCHANGED <<queueVars, peer, env, failed>>

ReplyArrives(t) ==
    /\ pc[t] = "wait" /\ fpc[t] = "answered"
    /\ route[t] = "openai" => reply[t].status # "failed"
    /\ Tell(t, TakenFor(t))
    /\ fpc' = [fpc EXCEPT ![t] = "none"] /\ reply' = [reply EXCEPT ![t] = Nothing]
    /\ UNCHANGED <<queueVars, peer, env, failed>>

(* The call failed.  A job is then run here; a chat goes to Ollama if it   *)
(* was forwarded because the queue was full, and fails if it was because   *)
(* the model is missing.                                                   *)
Retreat(t) ==
    /\ failed' = failed \cup {t}
    /\ \/ route[t] = "job" /\ Goto(t, "here") /\ UNCHANGED answer
       \/ /\ route[t] = "openai" /\ status[at[t]][t] = "refused"
          /\ Goto(t, "direct") /\ UNCHANGED answer
       \/ /\ route[t] = "openai" /\ status[at[t]][t] # "refused"
          /\ Tell(t, Outcome("failed", t))
    /\ UNCHANGED <<queueVars, peer, fpc, reply, env>>

(* The request or the answer is lost, or the client's 600 s are over while *)
(* the peer goes on.                                                       *)
ForwardLost(t) == pc[t] \in {"post", "wait"} /\ Retreat(t)

(* The peer closed the connection, or answered "failed" to a chat.         *)
ForwardError(t) ==
    /\ pc[t] = "wait"
    /\ \/ fpc[t] = "none"
       \/ fpc[t] = "answered" /\ route[t] = "openai" /\ reply[t].status = "failed"
    /\ Retreat(t)

(* A server dies with its queue, its workers and its handlers and comes    *)
(* back empty.                                                             *)
Crash(s) ==
    /\ crashes < MaxCrashes
    /\ crashes' = crashes + 1
    /\ jobCh' = [jobCh EXCEPT ![s] = <<>>]
    /\ running' = [running EXCEPT ![s] = [k \in Keys |-> None]]
    /\ completed' = [completed EXCEPT ![s] = [k \in Keys |-> None]]
    /\ status' = [status EXCEPT ![s] = [t \in Tasks |->
                    IF t \in Working(s) \/ @[t] = "pending" THEN "lost" ELSE @[t]]]
    /\ pc' = [t \in Tasks |-> IF at[t] = s /\ pc[t] # "new" THEN "done" ELSE pc[t]]
    /\ fpc' = [t \in Tasks |-> IF peer[t] = s THEN "none" ELSE fpc[t]]
    /\ UNCHANGED <<at, route, peer, reply, answer, failed>>

-----------------------------------------------------------------------------
Worker(s) == WorkerStarts(s) \/ WorkerSetsStatus(s) \/ WorkerEnds(s)

Handler(t) ==
    \/ SubmitJobAsksPeer(t) \/ SubmitJobHere(t) \/ OpenAISubmit(t)
    \/ OpenAIPoll(t) \/ OpenAIDeadline(t) \/ OpenAIDirect(t)
    \/ PostArrives(t) \/ PeerTurnsAway(t) \/ ReplyArrives(t)
    \/ ForwardLost(t) \/ ForwardError(t)

ForwardHandler(t) == ForwardPoll(t) \/ ForwardDeadline(t)

ForwardingNext ==
    \/ \E s \in Servers : Worker(s) \/ Crash(s)
    \/ \E t \in Tasks : Handler(t) \/ ForwardHandler(t)

ForwardingSpec == ForwardingInit /\ [][ForwardingNext]_workVars

(* Workers and handlers are scheduled, their tickers tick, and Ollama      *)
(* answers within its timeout.  No message need be lost and no client need *)
(* run into its timeout; of the deadlines only that of handleJobForward is *)
(* relied on.                                                              *)
Fairness ==
    /\ \A s \in Servers :
          /\ WF_workVars(WorkerStarts(s)) /\ WF_workVars(WorkerSetsStatus(s))
          /\ WF_workVars(WorkerEnds(s))
    /\ \A t \in Tasks :
          /\ WF_workVars(SubmitJobHere(t) /\ pc[t] = "here")
          /\ WF_workVars(OpenAIPoll(t)) /\ WF_workVars(OpenAIDirect(t))
          /\ WF_workVars(PostArrives(t)) /\ WF_workVars(ReplyArrives(t)) /\ WF_workVars(ForwardError(t))
          /\ WF_workVars(ForwardHandler(t))

ForwardingFairSpec == ForwardingSpec /\ Fairness

-----------------------------------------------------------------------------
Statuses == {"none", "refused", "pending", "running", "completing", "failing",
             "completed", "failed", "missing", "lost"}
Outcomes == [status : {"pending", "completed", "failed", "unsaid", None}, of : Tasks \cup {None}]

ForwardingTypeOK ==
    /\ at \in [Tasks -> Servers] /\ route \in [Tasks -> Routes]
    /\ jobCh \in [Servers -> Seq(Tasks)] /\ \A s \in Servers : Len(jobCh[s]) <= ChanCap
    /\ running \in [Servers -> [Keys -> Tasks \cup {None}]]
    /\ completed \in [Servers -> [Keys -> Tasks \cup {None}]]
    /\ status \in [Servers -> [Tasks -> Statuses]]
    /\ pc \in [Tasks -> {"new", "post", "wait", "here", "poll", "direct", "done"}]
    /\ peer \in [Tasks -> Servers \cup {None}]
    /\ fpc \in [Tasks -> {"none", "poll", "answered"}]
    /\ reply \in [Tasks -> Outcomes] /\ answer \in [Tasks -> Outcomes]

(* A result that a client is given with "completed" is that of a job that  *)
(* did run to its end on some server, and it is the client's own unless    *)
(* the same server made up the same ID for two tasks in one millisecond    *)
(* (handlers.go:505-541, openai_compat.go:478-511).  It may be given none: *)
(* an error of Ollama or of a peer whose status nobody looks at            *)
(* (openai_compat.go:605-651) and a job polled between its Status and its  *)
(* Result (queue.go:183-184) are empty completions.  And the state has its *)
(* types.                                                                  *)
ResultsAreTrue ==
    /\ ForwardingTypeOK
    /\ \A t \in Tasks : answer[t].status = "completed" /\ answer[t].of # None =>
          /\ LET u == answer[t].of IN
                at[u] = at[t] /\ route[u] = route[t] /\ IdOf[u] = IdOf[t]
          /\ \E s \in Servers : status[s][answer[t].of] = "completed"

Ran(t) == {s \in Servers : t \in Working(s) \/ status[s][t] \in {"completed", "failed", "missing"}}

(* A task is run on two servers only when forwarding it failed (its answer *)
(* may have been lost after the peer ran it), or when it had failed here   *)
(* before it was forwarded; it is never run on three                       *)
(* (handlers.go:449-472, openai_compat.go:458-500).                        *)
RunTwiceOnlyAfterFailure ==
    \A t \in Tasks : Cardinality(Ran(t)) <= (IF t \in failed THEN 2 ELSE 1)

(* The servers do not wait on each other for ever, even if each forwards   *)
(* to the other: every handler answers its client, or dies with its server *)
(* (handlers.go:509-541, openai_compat.go:474-511).                        *)
EveryRequestAnswered ==
    \A t \in Tasks : pc[t] # "new" ~> pc[t] = "done"
=============================================================================

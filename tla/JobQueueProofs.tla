--------------------------- MODULE JobQueueProofs ---------------------------
(***************************************************************************)
(* No job is lost or run twice by the worker pool, for any number of jobs, *)
(* workers and channel slots and any assignment of job IDs.                *)
(***************************************************************************)
EXTENDS ServerShutdown, FiniteSetTheorems, TLAPS

IInv == TypeOK /\ OnePlacePerJob

(* The values in a channel after a send.                                   *)
LEMMA AppendElements ==
    ASSUME NEW S, NEW s \in Seq(S), NEW x \in S
    PROVE  {Append(s, x)[i] : i \in 1 .. Len(Append(s, x))}
              = {s[i] : i \in 1 .. Len(s)} \cup {x}
  <1>1. /\ Len(Append(s, x)) = Len(s) + 1
        /\ \A i \in 1 .. Len(s) : Append(s, x)[i] = s[i]
        /\ Append(s, x)[Len(s) + 1] = x
    OBVIOUS
  <1>2. 1 .. Len(s) + 1 = (1 .. Len(s)) \cup {Len(s) + 1}
    OBVIOUS
  <1> QED BY <1>1, <1>2

(* The values in a channel of distinct values after a receive.             *)
LEMMA TailElements ==
    ASSUME NEW S, NEW s \in Seq(S), s # <<>>,
           \A i, k \in 1 .. Len(s) : s[i] = s[k] => i = k
    PROVE  /\ {Tail(s)[i] : i \in 1 .. Len(Tail(s))}
                = {s[i] : i \in 1 .. Len(s)} \ {Head(s)}
           /\ \A i, k \in 1 .. Len(Tail(s)) : Tail(s)[i] = Tail(s)[k] => i = k
           /\ Head(s) \in {s[i] : i \in 1 .. Len(s)}
           /\ Tail(s) \in Seq(S)
  <1>1. /\ Len(s) >= 1 /\ Head(s) = s[1]
        /\ Tail(s) \in Seq(S) /\ Len(Tail(s)) = Len(s) - 1
        /\ \A i \in 1 .. Len(s) - 1 : Tail(s)[i] = s[i + 1]
    OBVIOUS
  <1>2. \A i \in 2 .. Len(s) : i - 1 \in 1 .. Len(s) - 1 /\ Tail(s)[i - 1] = s[i]
    BY <1>1
  <1>3. {Tail(s)[i] : i \in 1 .. Len(Tail(s))} = {s[i] : i \in 2 .. Len(s)}
    BY <1>1, <1>2
  <1>4. {s[i] : i \in 2 .. Len(s)} = {s[i] : i \in 1 .. Len(s)} \ {s[1]}
    <2>1. \A i \in 2 .. Len(s) : i \in 1 .. Len(s) /\ s[i] # s[1]
      BY <1>1
    <2>2. \A i \in 1 .. Len(s) : i = 1 \/ i \in 2 .. Len(s)
      BY <1>1
    <2> QED BY <2>1, <2>2
  <1> QED BY <1>1, <1>3, <1>4

(* The jobs workers hold, after one worker's slot changes.                 *)
LEMMA HeldAfterTake ==
    ASSUME TypeOK, NEW w \in Workers, NEW j \in Jobs, wjob[w] = None,
           wjob' = [wjob EXCEPT ![w] = j]
    PROVE  Held' = Held \cup {j}
  BY JobNoneAssumption DEF TypeOK, Held

LEMMA HeldAfterStore ==
    ASSUME TypeOK, WorkersDistinct, NEW w \in Workers, wjob[w] # None,
           wjob' = [wjob EXCEPT ![w] = None]
    PROVE  Held' = Held \ {wjob[w]}
  BY JobNoneAssumption DEF TypeOK, Held, WorkersDistinct

-----------------------------------------------------------------------------
LEMMA InitEstablishesIInv == QueueInit => IInv
  <1> SUFFICES ASSUME QueueInit PROVE IInv
    OBVIOUS
  <1>1. TypeOK
    <2>1. jobCh \in Seq(Jobs) /\ Len(jobCh) = 0
      BY DEF QueueInit
    <2>2. status \in [Jobs -> Statuses] /\ stopCh \in BOOLEAN
      BY DEF QueueInit, Statuses
    <2> QED BY <2>1, <2>2, CapAssumption DEF QueueInit, TypeOK
  <1>2. InChannel = {} /\ Held = {}
    BY DEF QueueInit, InChannel, Held
  <1>3. ChannelDistinct /\ WorkersDistinct /\ PlacesDisjoint
    BY <1>2 DEF QueueInit, ChannelDistinct, WorkersDistinct, PlacesDisjoint
  <1>4. StatusTellsPlace
    BY <1>2 DEF QueueInit, StatusTellsPlace, Accepted
  <1> QED BY <1>1, <1>3, <1>4 DEF IInv, OnePlacePerJob

(* An accepted job joins the end of the channel and nothing else moves.    *)
LEMMA SubmitPreserves ==
    ASSUME IInv, NEW j \in Jobs, SubmitAccepted(j) PROVE IInv'
  <1> USE DEF SubmitAccepted
  <1>1. TypeOK /\ ChannelDistinct /\ WorkersDistinct /\ PlacesDisjoint
        /\ StatusTellsPlace
    BY DEF IInv, OnePlacePerJob
  <1>2. j \notin Accepted
    BY <1>1 DEF StatusTellsPlace, TypeOK
  <1>3. TypeOK'
    BY <1>1, CapAssumption DEF TypeOK, Statuses
  <1>4. InChannel' = InChannel \cup {j}
    BY <1>1, AppendElements DEF TypeOK, InChannel
  <1>5. Held' = Held /\ Accepted' = Accepted \cup {j}
    BY <1>4 DEF Held, Accepted
  <1>6. ChannelDistinct'
    <2>1. \A i \in 1 .. Len(jobCh) : jobCh[i] # j
      BY <1>2 DEF Accepted, InChannel
    <2>2. /\ jobCh \in Seq(Jobs)
          /\ Len(jobCh') = Len(jobCh) + 1
          /\ \A i \in 1 .. Len(jobCh) : jobCh'[i] = jobCh[i]
          /\ jobCh'[Len(jobCh) + 1] = j
      BY <1>1 DEF TypeOK
    <2> QED BY <1>1, <2>1, <2>2 DEF ChannelDistinct
  <1>7. WorkersDistinct' /\ PlacesDisjoint'
    BY <1>1, <1>2, <1>4, <1>5 DEF WorkersDistinct, PlacesDisjoint, Accepted
  <1>8. \A w \in Workers : wjob[w] # None => wjob[w] \in Jobs /\ wjob[w] # j
    BY <1>1, <1>2 DEF TypeOK, Held, Accepted
  <1>9. StatusTellsPlace'
    BY <1>1, <1>2, <1>4, <1>5, <1>8 DEF StatusTellsPlace, TypeOK, Accepted
  <1> QED BY <1>3, <1>6, <1>7, <1>9 DEF IInv, OnePlacePerJob

(* A refused job was nowhere and stays nowhere.                            *)
LEMMA RefusePreserves ==
    ASSUME IInv, NEW j \in Jobs, SubmitRefused(j) PROVE IInv'
  <1> USE DEF SubmitRefused
  <1>1. TypeOK /\ ChannelDistinct /\ WorkersDistinct /\ PlacesDisjoint
        /\ StatusTellsPlace
    BY DEF IInv, OnePlacePerJob
  <1>2. j \notin Accepted
    BY <1>1 DEF StatusTellsPlace, TypeOK
  <1>3. InChannel' = InChannel /\ Held' = Held /\ Accepted' = Accepted
    BY DEF InChannel, Held, Accepted
  <1>4. TypeOK'
    BY <1>1 DEF TypeOK, Statuses
  <1>5. ChannelDistinct' /\ WorkersDistinct' /\ PlacesDisjoint'
    BY <1>1, <1>3 DEF ChannelDistinct, WorkersDistinct, PlacesDisjoint
  <1>6. \A w \in Workers : wjob[w] # None => wjob[w] \in Jobs /\ wjob[w] # j
    BY <1>1, <1>2 DEF TypeOK, Held, Accepted
  <1>7. StatusTellsPlace'
    BY <1>1, <1>2, <1>3, <1>6 DEF StatusTellsPlace, TypeOK, Accepted
  <1> QED BY <1>4, <1>5, <1>7 DEF IInv, OnePlacePerJob

(* A receive moves the head of the channel into the worker's hands.        *)
LEMMA ReceivePreserves ==
    ASSUME IInv, NEW w \in Workers, WorkerReceive(w) PROVE IInv'
  <1> DEFINE j == Head(jobCh)
  <1>1. TypeOK /\ ChannelDistinct /\ WorkersDistinct /\ PlacesDisjoint
        /\ StatusTellsPlace
    BY DEF IInv, OnePlacePerJob
  <1>2. /\ wpc[w] = "select" /\ wjob[w] = None /\ jobCh # <<>>
        /\ wjob' = [wjob EXCEPT ![w] = j] /\ jobCh' = Tail(jobCh)
        /\ status' = [status EXCEPT ![j] = "running"]
        /\ wpc' = [wpc EXCEPT ![w] = "received"]
        /\ UNCHANGED <<stopCh, running, completed, finished>>
    BY <1>1 DEF WorkerReceive, StatusTellsPlace, TypeOK
  <1>3. /\ InChannel' = InChannel \ {j} /\ j \in InChannel
        /\ ChannelDistinct' /\ jobCh' \in Seq(Jobs)
    <2>1. jobCh \in Seq(Jobs) /\ \A i, k \in 1 .. Len(jobCh) : jobCh[i] = jobCh[k] => i = k
      BY <1>1 DEF TypeOK, ChannelDistinct
    <2>2. /\ {Tail(jobCh)[i] : i \in 1 .. Len(Tail(jobCh))}
                = {jobCh[i] : i \in 1 .. Len(jobCh)} \ {Head(jobCh)}
          /\ \A i, k \in 1 .. Len(Tail(jobCh)) : Tail(jobCh)[i] = Tail(jobCh)[k] => i = k
          /\ Head(jobCh) \in {jobCh[i] : i \in 1 .. Len(jobCh)}
          /\ Tail(jobCh) \in Seq(Jobs)
      BY <1>2, <2>1, TailElements, Zenon
    <2>3. /\ {jobCh'[i] : i \in 1 .. Len(jobCh')}
                = {jobCh[i] : i \in 1 .. Len(jobCh)} \ {Head(jobCh)}
          /\ \A i, k \in 1 .. Len(jobCh') : jobCh'[i] = jobCh'[k] => i = k
          /\ jobCh' \in Seq(Jobs)
      <3>1. jobCh' = Tail(jobCh)
        BY <1>2
      <3> QED BY ONLY <2>2, <3>1, Zenon
    <2> QED BY <2>2, <2>3 DEF InChannel, ChannelDistinct
  <1>4. j \in Jobs /\ Len(jobCh') <= ChanCap
    BY <1>1, <1>2, CapAssumption DEF TypeOK
  <1> HIDE DEF j
  <1>5. Held' = Held \cup {j}
    BY <1>1, <1>2, <1>4, HeldAfterTake
  <1>6. Accepted' = Accepted
    BY <1>2, <1>3, <1>5 DEF Accepted
  <1>7. j \notin Held /\ j \notin finished /\ j \in Accepted
    BY <1>1, <1>3 DEF PlacesDisjoint, Accepted
  <1>8. TypeOK'
    BY <1>1, <1>2, <1>3, <1>4 DEF TypeOK, Statuses
  <1>9. \A v \in Workers : wjob[v] # j
    BY <1>4, <1>7, JobNoneAssumption DEF Held
  <1>10. WorkersDistinct'
    BY <1>1, <1>2, <1>9 DEF WorkersDistinct, TypeOK
  <1>11. PlacesDisjoint'
    BY <1>1, <1>2, <1>3, <1>5, <1>7 DEF PlacesDisjoint
  <1>12. StatusTellsPlace'
    <2>1. \A i \in Jobs : i \in Accepted' <=> status'[i] \notin {"new", "refused"}
      BY <1>1, <1>2, <1>6, <1>7 DEF StatusTellsPlace, TypeOK
    <2>2. \A i \in InChannel' : status'[i] = "pending"
      <3>1. InChannel \subseteq Jobs
        BY <1>1 DEF TypeOK, InChannel
      <3> QED BY <1>1, <1>2, <1>3, <3>1 DEF StatusTellsPlace, TypeOK
    <2>3. \A i \in finished' : status'[i] \in {"completed", "failed"}
      BY <1>1, <1>2, <1>7 DEF StatusTellsPlace, TypeOK
    <2>4. \A v \in Workers :
            /\ wjob'[v] # None <=> wpc'[v] \in {"received", "executing", "executed"}
            /\ wpc'[v] \in {"received", "executing"} => status'[wjob'[v]] = "running"
            /\ wpc'[v] = "executed" => status'[wjob'[v]] \in {"completed", "failed"}
      BY <1>1, <1>2, <1>4, <1>9, JobNoneAssumption DEF StatusTellsPlace, TypeOK
    <2> QED BY <2>1, <2>2, <2>3, <2>4 DEF StatusTellsPlace
  <1> QED BY <1>3, <1>8, <1>10, <1>11, <1>12 DEF IInv, OnePlacePerJob

(* A worker that leaves its loop holds nothing.                            *)
LEMMA ExitPreserves ==
    ASSUME IInv, NEW w \in Workers, WorkerExit(w) PROVE IInv'
  <1> USE DEF WorkerExit
  <1>1. TypeOK /\ ChannelDistinct /\ WorkersDistinct /\ PlacesDisjoint
        /\ StatusTellsPlace
    BY DEF IInv, OnePlacePerJob
  <1>2. InChannel' = InChannel /\ Held' = Held /\ Accepted' = Accepted
    BY DEF InChannel, Held, Accepted
  <1>3. TypeOK'
    BY <1>1 DEF TypeOK
  <1>4. ChannelDistinct' /\ WorkersDistinct' /\ PlacesDisjoint'
    BY <1>1, <1>2 DEF ChannelDistinct, WorkersDistinct, PlacesDisjoint
  <1>5. StatusTellsPlace'
    BY <1>1, <1>2 DEF StatusTellsPlace, TypeOK
  <1> QED BY <1>3, <1>4, <1>5 DEF IInv, OnePlacePerJob

(* Entering the running map moves no job.                                  *)
LEMMA EnterPreserves ==
    ASSUME IInv, NEW w \in Workers, WorkerEnter(w) PROVE IInv'
  <1> USE DEF WorkerEnter
  <1>1. TypeOK /\ ChannelDistinct /\ WorkersDistinct /\ PlacesDisjoint
        /\ StatusTellsPlace
    BY DEF IInv, OnePlacePerJob
  <1>2. InChannel' = InChannel /\ Held' = Held /\ Accepted' = Accepted
    BY DEF InChannel, Held, Accepted
  <1>3. TypeOK'
    BY <1>1 DEF TypeOK
  <1>4. ChannelDistinct' /\ WorkersDistinct' /\ PlacesDisjoint'
    BY <1>1, <1>2 DEF ChannelDistinct, WorkersDistinct, PlacesDisjoint
  <1>5. StatusTellsPlace'
    BY <1>1, <1>2 DEF StatusTellsPlace, TypeOK
  <1> QED BY <1>3, <1>4, <1>5 DEF IInv, OnePlacePerJob

(* The outcome is written to the one job this worker, and no other, holds. *)
LEMMA ExecutePreserves ==
    ASSUME IInv, NEW w \in Workers, WorkerExecute(w) PROVE IInv'
  <1> DEFINE j == wjob[w]
  <1>1. TypeOK /\ ChannelDistinct /\ WorkersDistinct /\ PlacesDisjoint
        /\ StatusTellsPlace
    BY DEF IInv, OnePlacePerJob
  <1>2. PICK outcome \in {"completed", "failed"} :
          /\ status' = [status EXCEPT ![j] = outcome]
          /\ wpc[w] = "executing" /\ wpc' = [wpc EXCEPT ![w] = "executed"]
          /\ UNCHANGED <<jobCh, stopCh, running, completed, wjob, finished>>
    BY DEF WorkerExecute
  <1>3. j \in Jobs /\ j # None /\ j \in Held /\ status[j] = "running"
    BY <1>1, <1>2 DEF StatusTellsPlace, TypeOK, Held
  <1>4. \A v \in Workers \ {w} : wjob[v] # j
    BY <1>1, <1>3 DEF WorkersDistinct
  <1>5. InChannel' = InChannel /\ Held' = Held /\ Accepted' = Accepted
    BY <1>2 DEF InChannel, Held, Accepted
  <1>6. j \notin InChannel /\ j \notin finished /\ j \in Accepted
    BY <1>1, <1>3 DEF PlacesDisjoint, Accepted
  <1>7. TypeOK'
    BY <1>1, <1>2 DEF TypeOK, Statuses
  <1>8. ChannelDistinct' /\ WorkersDistinct' /\ PlacesDisjoint'
    BY <1>1, <1>2, <1>5 DEF ChannelDistinct, WorkersDistinct, PlacesDisjoint
  <1>9. StatusTellsPlace'
    <2>1. InChannel \subseteq Jobs /\ finished \subseteq Jobs
      BY <1>1 DEF TypeOK, InChannel
    <2>2. \A i \in Jobs : i \in Accepted' <=> status'[i] \notin {"new", "refused"}
      BY <1>1, <1>2, <1>3, <1>5, <1>6 DEF StatusTellsPlace, TypeOK
    <2>3. /\ \A i \in InChannel' : status'[i] = "pending"
          /\ \A i \in finished' : status'[i] \in {"completed", "failed"}
      BY <1>1, <1>2, <1>3, <1>5, <1>6, <2>1 DEF StatusTellsPlace, TypeOK
    <2>4. \A v \in Workers :
            /\ wjob'[v] # None <=> wpc'[v] \in {"received", "executing", "executed"}
            /\ wpc'[v] \in {"received", "executing"} => status'[wjob'[v]] = "running"
            /\ wpc'[v] = "executed" => status'[wjob'[v]] \in {"completed", "failed"}
      BY <1>1, <1>2, <1>3, <1>4 DEF StatusTellsPlace, TypeOK
    <2> QED BY <2>2, <2>3, <2>4 DEF StatusTellsPlace
  <1> QED BY <1>7, <1>8, <1>9 DEF IInv, OnePlacePerJob

(* Storing moves the job from the worker's hands to the finished jobs.     *)
LEMMA StorePreserves ==
    ASSUME IInv, NEW w \in Workers, WorkerStore(w) PROVE IInv'
  <1> DEFINE j == wjob[w]
  <1>1. TypeOK /\ ChannelDistinct /\ WorkersDistinct /\ PlacesDisjoint
        /\ StatusTellsPlace
    BY DEF IInv, OnePlacePerJob
  <1>2. /\ wpc[w] = "executed" /\ wpc' = [wpc EXCEPT ![w] = "select"]
        /\ wjob' = [wjob EXCEPT ![w] = None] /\ finished' = finished \cup {j}
        /\ UNCHANGED <<jobCh, stopCh, status>>
        /\ running' = [running EXCEPT ![IdOf[wjob[w]]] = None]
        /\ completed' = [completed EXCEPT ![IdOf[wjob[w]]] = wjob[w]]
    BY DEF WorkerStore
  <1>3. j \in Jobs /\ j # None /\ j \in Held /\ status[j] \in {"completed", "failed"}
    BY <1>1, <1>2 DEF StatusTellsPlace, TypeOK, Held
  <1>4. Held' = Held \ {j}
    BY <1>1, <1>2, <1>3, HeldAfterStore
  <1>5. InChannel' = InChannel /\ Accepted' = Accepted
    BY <1>2, <1>3, <1>4 DEF InChannel, Accepted
  <1>6. TypeOK'
    BY <1>1, <1>2, <1>3, IdAssumption DEF TypeOK
  <1>7. ChannelDistinct' /\ WorkersDistinct'
    BY <1>1, <1>2 DEF ChannelDistinct, WorkersDistinct, TypeOK
  <1>8. PlacesDisjoint'
    BY <1>1, <1>2, <1>3, <1>4, <1>5 DEF PlacesDisjoint
  <1>9. StatusTellsPlace'
    BY <1>1, <1>2, <1>3, <1>5 DEF StatusTellsPlace, TypeOK
  <1> QED BY <1>6, <1>7, <1>8, <1>9 DEF IInv, OnePlacePerJob

LEMMA NextPreservesIInv == IInv /\ [QueueNext]_queueVars => IInv'
  <1> SUFFICES ASSUME IInv, [QueueNext]_queueVars PROVE IInv'
    OBVIOUS
  <1>1. ASSUME NEW j \in Jobs, SubmitAccepted(j) \/ SubmitRefused(j) PROVE IInv'
    BY <1>1, SubmitPreserves, RefusePreserves
  <1>2. ASSUME NEW w \in Workers, WorkerStep(w) PROVE IInv'
    BY <1>2, ReceivePreserves, ExitPreserves, EnterPreserves, ExecutePreserves,
       StorePreserves DEF WorkerStep
  <1>3. CASE CloseStopCh
    BY <1>3 DEF CloseStopCh, IInv, TypeOK, OnePlacePerJob, ChannelDistinct,
       WorkersDistinct, PlacesDisjoint, StatusTellsPlace, Accepted, InChannel, Held
  <1>4. CASE UNCHANGED queueVars
    BY <1>4 DEF queueVars, IInv, TypeOK, OnePlacePerJob, ChannelDistinct,
       WorkersDistinct, PlacesDisjoint, StatusTellsPlace, Accepted, InChannel, Held
  <1> QED BY <1>1, <1>2, <1>3, <1>4 DEF QueueNext

-----------------------------------------------------------------------------
(* Every accepted job is in one place, and its status says which           *)
(* (queue.go:111-143), for all job sets, worker counts and capacities and  *)
(* whether or not job IDs collide.                                         *)
THEOREM JobsKept == QueueSpec => []OnePlacePerJob
  <1>1. IInv => OnePlacePerJob
    BY DEF IInv
  <1> QED BY <1>1, InitEstablishesIInv, NextPreservesIInv, PTL DEF QueueSpec

(* The types of the queue's state; jobCh never exceeds its capacity.       *)
THEOREM QueueTypes == QueueSpec => []TypeOK
  <1>1. IInv => TypeOK
    BY DEF IInv
  <1> QED BY <1>1, InitEstablishesIInv, NextPreservesIInv, PTL DEF QueueSpec

(* One step never makes an ID that GetJob answers for unknown: the job is  *)
(* put into the completed map in the same step that takes it out of the    *)
(* running map.                                                            *)
LEMMA StepKeepsIds ==
    ASSUME IInv, QueueNext, NEW i \in Ids, GetJob(i) # None PROVE GetJob(i)' # None
  <1>1. TypeOK /\ StatusTellsPlace
    BY DEF IInv, OnePlacePerJob
  <1>2. CASE UNCHANGED <<running, completed>>
    BY <1>2 DEF GetJob
  <1>3. ASSUME NEW w \in Workers, WorkerEnter(w) PROVE GetJob(i)' # None
    BY <1>1, <1>3, IdAssumption DEF WorkerEnter, GetJob, TypeOK, StatusTellsPlace
  <1>4. ASSUME NEW w \in Workers, WorkerStore(w) PROVE GetJob(i)' # None
    BY <1>1, <1>4, IdAssumption DEF WorkerStore, GetJob, TypeOK, StatusTellsPlace
  <1> QED BY <1>2, <1>3, <1>4 DEF QueueNext, WorkerStep, SubmitAccepted, SubmitRefused,
             WorkerReceive, WorkerExit, WorkerExecute, CloseStopCh

(* A poller that was shown a job under an ID is never told "not found"     *)
(* for it afterwards (queue.go:137-140, 476-486), collisions included.     *)
THEOREM PolledIdsStay == QueueSpec => NeverVanishes
  <1>1. IInv /\ [QueueNext]_queueVars
          => [\A i \in Ids : GetJob(i) # None => GetJob(i)' # None]_queueVars
    BY StepKeepsIds
  <1> QED BY <1>1, InitEstablishesIInv, NextPreservesIInv, PTL DEF QueueSpec, NeverVanishes

-----------------------------------------------------------------------------
(* Steps that leave channel, workers' jobs and outcomes alone are stutters *)
(* of the pool.                                                            *)
LEMMA StutterOfPool ==
    ASSUME jobCh' = jobCh, wjob' = wjob, Outcome' = Outcome
    PROVE  [Pool!PoolNext]_(Pool!poolVars)
  BY DEF Pool!poolVars

(* Only the status of the jobs that changed, and what is finished, matter. *)
LEMMA OutcomeOf ==
    ASSUME NEW j \in Jobs, NEW o, Told(j)' = o,
           \A k \in Jobs \ {j} : Told(k)' = Told(k)
    PROVE  Outcome' = [Outcome EXCEPT ![j] = o]
  <1>1. Outcome' = [k \in Jobs |-> Told(k)']
    BY DEF Outcome
  <1>2. [Outcome EXCEPT ![j] = o] = [k \in Jobs |-> IF k = j THEN o ELSE Told(k)]
    BY DEF Outcome
  <1> QED BY <1>1, <1>2

LEMMA OutcomeSame ==
    ASSUME \A k \in Jobs : Told(k)' = Told(k) PROVE Outcome' = Outcome
  <1>1. Outcome' = [k \in Jobs |-> Told(k)'] /\ Outcome = [k \in Jobs |-> Told(k)]
    BY DEF Outcome
  <1> QED BY <1>1

(* Each step of the queue is a step of the pool or a stutter.              *)
LEMMA StepOfPool ==
    ASSUME IInv, [QueueNext]_queueVars PROVE [Pool!PoolNext]_(Pool!poolVars)
  <1>1. TypeOK /\ StatusTellsPlace /\ PlacesDisjoint /\ WorkersDistinct
    BY DEF IInv, OnePlacePerJob
  <1>2. ASSUME NEW j \in Jobs, SubmitAccepted(j) PROVE Pool!PoolNext
    <2>1. status[j] = "new" /\ status' = [status EXCEPT ![j] = "pending"] /\ finished' = finished
      BY <1>2 DEF SubmitAccepted
    <2>2. j \notin finished
      BY <1>1, <2>1 DEF StatusTellsPlace, Accepted
    <2>3. Told(j)' = "pending" /\ \A k \in Jobs \ {j} : Told(k)' = Told(k)
      BY <1>1, <2>1, <2>2 DEF Told, TypeOK
    <2>4. Outcome' = [Outcome EXCEPT ![j] = "pending"]
      BY <2>3, OutcomeOf
    <2>5. Outcome[j] = "none"
      BY <2>1 DEF Outcome, Told
    <2>6. Pool!Accept(j)
      BY <1>2, <2>4, <2>5 DEF SubmitAccepted, Pool!Accept
    <2> QED BY <2>6 DEF Pool!PoolNext
  <1>3. ASSUME NEW j \in Jobs, SubmitRefused(j) PROVE Pool!PoolNext
    <2>1. status[j] = "new" /\ status' = [status EXCEPT ![j] = "refused"] /\ finished' = finished
      BY <1>3 DEF SubmitRefused
    <2>3. Told(j)' = "refused" /\ \A k \in Jobs \ {j} : Told(k)' = Told(k)
      BY <1>1, <2>1 DEF Told, TypeOK
    <2>4. Outcome' = [Outcome EXCEPT ![j] = "refused"]
      BY <2>3, OutcomeOf
    <2>5. Outcome[j] = "none"
      BY <2>1 DEF Outcome, Told
    <2>6. Pool!Refuse(j)
      BY <1>3, <2>4, <2>5 DEF SubmitRefused, Pool!Refuse
    <2> QED BY <2>6 DEF Pool!PoolNext
  <1>4. ASSUME NEW w \in Workers, WorkerReceive(w) PROVE Pool!PoolNext
    <2> DEFINE j == Head(jobCh)
    <2>1. /\ j \in Jobs /\ j \in InChannel /\ status' = [status EXCEPT ![j] = "running"]
          /\ finished' = finished
      BY <1>1, <1>4 DEF WorkerReceive, TypeOK, InChannel
    <2>2. status[j] = "pending" /\ j \notin finished
      BY <1>1, <2>1 DEF StatusTellsPlace, PlacesDisjoint
    <2>3. \A k \in Jobs : Told(k)' = Told(k)
      <3> HIDE DEF j
      <3> QED BY <1>1, <2>1, <2>2 DEF Told, TypeOK
    <2>4. Outcome' = Outcome
      BY <2>3, OutcomeSame
    <2>5. wjob[w] = None
      BY <1>1, <1>4 DEF WorkerReceive, StatusTellsPlace
    <2>6. Pool!Serve(w)
      BY <1>4, <2>4, <2>5 DEF WorkerReceive, Pool!Serve
    <2> QED BY <2>6 DEF Pool!PoolNext
  <1>5. ASSUME NEW w \in Workers, WorkerExit(w) \/ WorkerEnter(w)
        PROVE  [Pool!PoolNext]_(Pool!poolVars)
    <2>1. jobCh' = jobCh /\ wjob' = wjob /\ status' = status /\ finished' = finished
      BY <1>5 DEF WorkerExit, WorkerEnter
    <2>2. Outcome' = Outcome
      BY <2>1 DEF Outcome, Told
    <2> QED BY <2>1, <2>2, StutterOfPool
  <1>6. ASSUME NEW w \in Workers, WorkerExecute(w) PROVE [Pool!PoolNext]_(Pool!poolVars)
    <2> DEFINE j == wjob[w]
    <2>1. /\ j \in Jobs /\ j \in Held /\ status[j] = "running"
          /\ jobCh' = jobCh /\ wjob' = wjob /\ finished' = finished
      BY <1>1, <1>6, JobNoneAssumption DEF WorkerExecute, TypeOK, StatusTellsPlace, Held
    <2>2. PICK o \in {"completed", "failed"} : status' = [status EXCEPT ![j] = o]
      BY <1>6 DEF WorkerExecute
    <2>3. j \notin finished
      BY <1>1, <2>1 DEF PlacesDisjoint
    <2>4. \A k \in Jobs : Told(k)' = Told(k)
      <3> HIDE DEF j
      <3> QED BY <1>1, <2>1, <2>2, <2>3 DEF Told, TypeOK
    <2>5. Outcome' = Outcome
      BY <2>4, OutcomeSame
    <2> QED BY <2>1, <2>5, StutterOfPool
  <1>7. ASSUME NEW w \in Workers, WorkerStore(w) PROVE Pool!PoolNext
    <2>0. wjob[w] \in Jobs
      BY <1>1, <1>7 DEF WorkerStore, TypeOK, StatusTellsPlace
    <2> PICK j \in Jobs : j = wjob[w]
      BY <2>0
    <2>1. /\ j # None /\ j \in Held /\ status[j] \in {"completed", "failed"}
          /\ jobCh' = jobCh /\ wjob' = [wjob EXCEPT ![w] = None]
          /\ finished' = finished \cup {j} /\ status' = status
      BY <1>1, <1>7, JobNoneAssumption DEF WorkerStore, TypeOK, StatusTellsPlace, Held
    <2>2. j \notin finished
      BY <1>1, <2>1 DEF PlacesDisjoint
    <2>3. Told(j)' = status[j] /\ \A k \in Jobs \ {j} : Told(k)' = Told(k)
      BY <1>1, <2>1 DEF Told, TypeOK
    <2>4. Outcome' = [Outcome EXCEPT ![j] = status[j]]
      BY <2>3, OutcomeOf
    <2>5. Outcome[j] = "pending"
      BY <2>1, <2>2 DEF Outcome, Told
    <2>6. Pool!Finish(w)
      BY <2>1, <2>4, <2>5 DEF Pool!Finish
    <2> QED BY <2>6 DEF Pool!PoolNext
  <1>8. CASE UNCHANGED queueVars
    <2>1. Outcome' = Outcome
      BY <1>8 DEF queueVars, Outcome, Told
    <2> QED BY <1>8, <2>1, StutterOfPool DEF queueVars
  <1>9. CASE CloseStopCh
    <2>1. jobCh' = jobCh /\ wjob' = wjob /\ status' = status /\ finished' = finished
      BY <1>9 DEF CloseStopCh
    <2>2. Outcome' = Outcome
      BY <2>1 DEF Outcome, Told
    <2> QED BY <2>1, <2>2, StutterOfPool
  <1> QED BY <1>2, <1>3, <1>4, <1>5, <1>6, <1>7, <1>8, <1>9 DEF QueueNext, WorkerStep

(* OllamaQueue implements the abstract pool: first come, first served,     *)
(* each accepted job once, refusals only when the line is full             *)
(* (queue.go:111-143).                                                     *)
THEOREM QueueIsPool == QueueSpec => ImplementsPool
  <1>1. QueueInit => Pool!PoolInit
    BY DEF QueueInit, Pool!PoolInit, Outcome, Told
  <1>2. IInv /\ [QueueNext]_queueVars => [Pool!PoolNext]_(Pool!poolVars)
    BY StepOfPool
  <1> QED BY <1>1, <1>2, InitEstablishesIInv, NextPreservesIInv, PTL
             DEF QueueSpec, ImplementsPool, Pool!PoolSpec
-----------------------------------------------------------------------------
(* The running map, pointwise: an entry under an ID belongs to a worker    *)
(* that executes a job of that ID, and under an ID of its own a job that   *)
(* is being executed has the entry.                                        *)
Executing(w) == wpc[w] \in {"executing", "executed"}
Unshared(i) == \A j, k \in Jobs : IdOf[j] = i /\ IdOf[k] = i => j = k

RunningInv ==
    /\ \A i \in Ids : running[i] # None =>
          \E w \in Workers : Executing(w) /\ IdOf[wjob[w]] = i
    /\ \A w \in Workers : Executing(w) /\ Unshared(IdOf[wjob[w]]) =>
          running[IdOf[wjob[w]]] = wjob[w]

LEMMA RunningInvHolds ==
    /\ QueueInit => RunningInv
    /\ IInv /\ RunningInv /\ [QueueNext]_queueVars => RunningInv'
  <1>1. QueueInit => RunningInv
    BY DEF QueueInit, RunningInv, Executing
  <1>2. ASSUME IInv, RunningInv, [QueueNext]_queueVars PROVE RunningInv'
    <2>0. TypeOK /\ WorkersDistinct /\ StatusTellsPlace
      BY <1>2 DEF IInv, OnePlacePerJob
    <2>1. \A w \in Workers : Executing(w) => wjob[w] \in Jobs /\ IdOf[wjob[w]] \in Ids
      BY <2>0, IdAssumption DEF TypeOK, StatusTellsPlace, Executing
    <2>2. CASE UNCHANGED <<running, wpc, wjob>>
      BY <1>2, <2>2 DEF RunningInv, Executing, Unshared
    <2>3. ASSUME NEW w \in Workers, WorkerReceive(w) PROVE RunningInv'
      <3>1. /\ ~Executing(w) /\ ~Executing(w)' /\ running' = running
            /\ \A v \in Workers \ {w} : wpc'[v] = wpc[v] /\ wjob'[v] = wjob[v]
        BY <2>0, <2>3 DEF WorkerReceive, Executing, TypeOK
      <3> QED BY <1>2, <3>1 DEF RunningInv, Executing, Unshared
    <2>4. ASSUME NEW w \in Workers, WorkerExit(w) PROVE RunningInv'
      <3>1. /\ ~Executing(w) /\ ~Executing(w)' /\ running' = running /\ wjob' = wjob
            /\ \A v \in Workers \ {w} : wpc'[v] = wpc[v]
        BY <2>0, <2>4 DEF WorkerExit, Executing, TypeOK
      <3> QED BY <1>2, <3>1 DEF RunningInv, Executing, Unshared
    <2>5. ASSUME NEW w \in Workers, WorkerEnter(w) PROVE RunningInv'
      <3>1. /\ wjob[w] \in Jobs /\ IdOf[wjob[w]] \in Ids
            /\ wjob' = wjob /\ wpc'[w] = "executing"
            /\ running'[IdOf[wjob[w]]] = wjob[w]
            /\ \A i \in Ids \ {IdOf[wjob[w]]} : running'[i] = running[i]
            /\ \A v \in Workers \ {w} : wpc'[v] = wpc[v]
        BY <2>0, <2>5, IdAssumption DEF WorkerEnter, TypeOK, StatusTellsPlace
      <3> QED BY <1>2, <2>1, <3>1 DEF RunningInv, Executing, Unshared
    <2>6. ASSUME NEW w \in Workers, WorkerExecute(w) PROVE RunningInv'
      <3>1. /\ Executing(w) /\ Executing(w)' /\ running' = running /\ wjob' = wjob
            /\ \A v \in Workers \ {w} : wpc'[v] = wpc[v]
        BY <2>0, <2>6 DEF WorkerExecute, Executing, TypeOK
      <3> QED BY <1>2, <3>1 DEF RunningInv, Executing, Unshared
    <2>7. ASSUME NEW w \in Workers, WorkerStore(w) PROVE RunningInv'
      <3>1. /\ wjob[w] \in Jobs /\ wjob[w] # None /\ Executing(w) /\ ~Executing(w)'
            /\ running'[IdOf[wjob[w]]] = None
            /\ \A i \in Ids \ {IdOf[wjob[w]]} : running'[i] = running[i]
            /\ \A v \in Workers \ {w} : wpc'[v] = wpc[v] /\ wjob'[v] = wjob[v]
        BY <2>0, <2>7, <2>1 DEF WorkerStore, TypeOK, StatusTellsPlace, Executing
      <3>2. \A v \in Workers \ {w} : wjob[v] # wjob[w]
        BY <2>0, <3>1 DEF WorkersDistinct
      <3>3. \A v \in Workers \ {w} :
               Executing(v) /\ Unshared(IdOf[wjob[v]]) => IdOf[wjob[v]] # IdOf[wjob[w]]
        BY <2>1, <3>1, <3>2 DEF Unshared
      <3>4. \A i \in Ids : running'[i] # None =>
               \E v \in Workers : Executing(v)' /\ IdOf[wjob'[v]] = i
        BY <1>2, <3>1 DEF RunningInv, Executing
      <3>5. \A v \in Workers : Executing(v)' /\ Unshared(IdOf[wjob'[v]]) =>
               running'[IdOf[wjob'[v]]] = wjob'[v]
        BY <1>2, <2>1, <3>1, <3>3 DEF RunningInv, Executing
      <3> QED BY <3>4, <3>5 DEF RunningInv, Unshared
    <2>8. CASE CloseStopCh \/ \E j \in Jobs : SubmitAccepted(j) \/ SubmitRefused(j)
      BY <2>2, <2>8 DEF CloseStopCh, SubmitAccepted, SubmitRefused
    <2>9. CASE UNCHANGED queueVars
      BY <2>2, <2>9 DEF queueVars
    <2> QED BY <1>2, <2>3, <2>4, <2>5, <2>6, <2>7, <2>8, <2>9 DEF QueueNext, WorkerStep
  <1> QED BY <1>1, <1>2

(* No more IDs have an entry than workers execute: the entries of two jobs *)
(* with one ID overwrite each other, they never add up.                    *)
LEMMA EntriesBounded ==
    ASSUME RunningInv
    PROVE  LET Entries == {i \in Ids : running[i] # None}
               Busy == {w \in Workers : Executing(w)}
           IN  /\ IsFiniteSet(Entries) /\ IsFiniteSet(Busy)
               /\ Cardinality(Entries) <= Cardinality(Busy)
  <1> DEFINE Entries == {i \in Ids : running[i] # None}
             Busy == {w \in Workers : Executing(w)}
             f == [i \in Entries |->
                     CHOOSE w \in Workers : Executing(w) /\ IdOf[wjob[w]] = i]
  <1>1. \A i \in Entries : f[i] \in Busy /\ IdOf[wjob[f[i]]] = i
    BY DEF RunningInv
  <1>2. IsFiniteSet(Busy)
    BY WorkersAssumption, FS_Subset
  <1>3. f \in Injection(Entries, Busy)
    <2>1. f \in [Entries -> Busy]
      BY <1>1
    <2>2. \A a, b \in Entries : f[a] = f[b] => a = b
      BY <1>1
    <2> HIDE DEF f
    <2> QED BY <2>1, <2>2 DEF Injection, IsInjective
  <1> HIDE DEF f, Entries, Busy
  <1>4. IsFiniteSet(Entries) /\ Cardinality(Entries) <= Cardinality(Busy)
    BY <1>2, <1>3, FS_Injection
  <1> QED BY <1>2, <1>4 DEF Entries, Busy

LEMMA RunningInvSuffices == IInv /\ RunningInv => RunningMapExact
  <1> SUFFICES ASSUME IInv, RunningInv PROVE RunningMapExact
    OBVIOUS
  <1>0. TypeOK /\ StatusTellsPlace
    BY DEF IInv, OnePlacePerJob
  <1>1. ASSUME NEW i \in Ids, Unshared(i)
        PROVE  {running[i]} \ {None} =
                  {wjob[w] : w \in {v \in Workers : Executing(v) /\ IdOf[wjob[v]] = i}}
    <2>1. \A w \in Workers : Executing(w) => wjob[w] \in Jobs
      BY <1>0 DEF StatusTellsPlace, TypeOK, Executing
    <2>2. \A w \in Workers : Executing(w) /\ IdOf[wjob[w]] = i =>
             running[i] = wjob[w] /\ wjob[w] # None
      BY <1>1, <2>1, JobNoneAssumption DEF RunningInv
    <2>3. running[i] # None => \E w \in Workers : Executing(w) /\ IdOf[wjob[w]] = i
      BY DEF RunningInv
    <2> QED BY <2>2, <2>3
  <1>2. GetAvailableCapacity >= Cardinality({w \in Workers : wpc[w] = "select"})
    <2> DEFINE Entries == {i \in Ids : running[i] # None}
               Busy == {w \in Workers : Executing(w)}
               Idle == {w \in Workers : wpc[w] = "select"}
    <2>1. /\ IsFiniteSet(Entries) /\ IsFiniteSet(Busy)
          /\ Cardinality(Entries) <= Cardinality(Busy)
      BY EntriesBounded
    <2>2. IsFiniteSet(Idle) /\ Busy \cup Idle \in SUBSET Workers /\ Busy \cap Idle = {}
      BY WorkersAssumption, FS_Subset DEF Executing
    <2> DEFINE free == Cardinality(Workers) - Cardinality(Entries)
    <2>3. GetAvailableCapacity = IF free < 0 THEN 0 ELSE free
      BY DEF GetAvailableCapacity
    <2> HIDE DEF Entries, Busy, Idle
    <2>4. /\ Cardinality(Busy \cup Idle) = Cardinality(Busy) + Cardinality(Idle) - Cardinality({})
          /\ Cardinality(Busy \cup Idle) <= Cardinality(Workers)
      BY <2>1, <2>2, FS_Union, FS_Subset, WorkersAssumption
    <2>5. /\ Cardinality({}) = 0 /\ Cardinality(Workers) \in Nat
          /\ Cardinality(Entries) \in Nat /\ Cardinality(Busy) \in Nat
          /\ Cardinality(Idle) \in Nat
      BY <2>1, <2>2, WorkersAssumption, FS_EmptySet, FS_CardinalityType
    <2>6. GetAvailableCapacity >= Cardinality(Idle)
      BY <2>1, <2>3, <2>4, <2>5
    <2> QED BY <2>6 DEF Idle
  <1> QED BY <1>1, <1>2 DEF RunningMapExact, Unshared, Executing

(* RunningMapExact (queue.go:131-140, 470-474) for any IDs, shared or not: *)
(* a job with an ID of its own is in the running map exactly while it is   *)
(* executed, and the reported capacity covers every idle worker.           *)
THEOREM RunningMap == QueueSpec => []RunningMapExact
  <1>1. IInv /\ RunningInv => RunningMapExact
    BY RunningInvSuffices
  <1> QED BY <1>1, RunningInvHolds, InitEstablishesIInv, NextPreservesIInv, PTL DEF QueueSpec

-----------------------------------------------------------------------------
(* The server's shutdown.  Only the signal goroutine closes stopCh, before *)
(* it joins; the mesh is stopped once, after all workers have left; and    *)
(* main returns only when the signal goroutine has come that far.          *)
ShutdownInv ==
    /\ ShutdownTypeOK
    /\ stopCh <=> sigpc # "waiting"
    /\ meshStopCh <=> sigpc \in {"shutdown", "draining"}
    /\ sigpc \in {"shutdown", "draining"} => AllExited
    /\ mainpc \in {"served", "deferred"} => sigpc = "draining"
    /\ process \in {"exited", "panicked"} => Held = {}

(* A step of the process is a step of its queue, or leaves it alone: what  *)
(* holds of the queue holds of the server that stops it.                   *)
LEMMA StepOfQueue == [Next]_vars => [QueueNext]_queueVars
  BY DEF Next, vars, QueueNext, queueVars, Listen, ListenFails, Submit, Work, StopQueue,
     StopMesh, SignalStop, SignalJoin, SignalShutdown, SignalExit, MainReturns, MainStop

LEMMA ShutdownInvInit == Init => ShutdownInv
  <1> SUFFICES ASSUME Init PROVE ShutdownInv
    OBVIOUS
  <1>1. IInv
    BY InitEstablishesIInv DEF Init
  <1>2. Held = {} /\ jobCh = <<>> /\ ~stopCh
    BY DEF Init, QueueInit, Held
  <1> QED BY <1>1, <1>2 DEF Init, IInv, ShutdownInv, ShutdownTypeOK, Up

(* Workers that have all left hold no job.                                 *)
LEMMA ExitedHoldNothing == IInv /\ AllExited => Held = {}
  BY DEF IInv, OnePlacePerJob, StatusTellsPlace, AllExited, Held

LEMMA ShutdownInvStep == IInv /\ ShutdownInv /\ [Next]_vars => ShutdownInv'
  <1> SUFFICES ASSUME IInv, ShutdownInv, [Next]_vars PROVE ShutdownInv'
    OBVIOUS
  <1>0. IInv' /\ TypeOK'
    BY StepOfQueue, NextPreservesIInv DEF IInv
  <1> USE DEF ShutdownInv, ShutdownTypeOK, Up
  <1>1. CASE Listen
    BY <1>0, <1>1 DEF Listen, queueVars, AllExited, Held
  <1>2. CASE ListenFails
    BY <1>0, <1>2 DEF ListenFails, queueVars, AllExited, Held
  <1>3. ASSUME NEW j \in Jobs, Submit(j) PROVE ShutdownInv'
    <2>1. /\ process = "up" /\ UNCHANGED shutdownVars
          /\ UNCHANGED <<stopCh, wpc, wjob>>
      BY <1>3 DEF Submit, SubmitAccepted, SubmitRefused
    <2> QED BY <1>0, <2>1 DEF shutdownVars, AllExited
  <1>4. ASSUME NEW w \in Workers, Work(w) PROVE ShutdownInv'
    <2>1. /\ process = "up" /\ UNCHANGED shutdownVars /\ stopCh' = stopCh
      BY <1>4 DEF Work, WorkerStep, WorkerReceive, WorkerExit, WorkerEnter,
         WorkerExecute, WorkerStore
    <2>2. wpc[w] # "exited"
      BY <1>4 DEF Work, WorkerStep, WorkerReceive, WorkerExit, WorkerEnter,
         WorkerExecute, WorkerStore
    <2>3. ~AllExited
      BY <2>2 DEF AllExited
    <2> QED BY <1>0, <2>1, <2>3 DEF shutdownVars
  <1>5. CASE SignalStop
    <2>1. CloseStopCh /\ sigpc' = "joining" /\ sigpc = "waiting" /\ UNCHANGED <<process, mainpc, meshStopCh>>
      BY <1>5 DEF SignalStop, StopQueue
    <2> QED BY <1>0, <2>1 DEF CloseStopCh, Held, AllExited
  <1>6. CASE SignalJoin
    BY <1>0, <1>6 DEF SignalJoin, StopMesh, queueVars, AllExited, Held
  <1>7. CASE SignalShutdown
    BY <1>0, <1>7 DEF SignalShutdown, queueVars, AllExited, Held
  <1>8. CASE SignalExit
    BY <1>0, <1>8, ExitedHoldNothing DEF SignalExit, queueVars, AllExited, Held
  <1>9. CASE MainReturns
    BY <1>0, <1>9 DEF MainReturns, queueVars, AllExited, Held
  <1>10. CASE MainStop
    <2>1. /\ stopCh /\ process' = "panicked" /\ UNCHANGED <<queueVars, mainpc, sigpc, meshStopCh>>
          /\ sigpc = "draining"
      BY <1>10 DEF MainStop, StopQueue
    <2>2. Held = {}
      BY <2>1, ExitedHoldNothing
    <2> QED BY <1>0, <2>1, <2>2 DEF queueVars, AllExited, Held
  <1>11. CASE UNCHANGED vars
    BY <1>0, <1>11 DEF vars, queueVars, shutdownVars, AllExited, Held
  <1> QED BY <1>1, <1>2, <1>3, <1>4, <1>5, <1>6, <1>7, <1>8, <1>9, <1>10, <1>11 DEF Next

(* The server runs its queue as the queue is specified: all that is proved *)
(* of QueueSpec holds of the process until it ends (main.go:99-171).       *)
THEOREM ServerRunsQueue == Spec => QueueSpec
  <1>1. Init => QueueInit
    BY DEF Init
  <1> QED BY <1>1, StepOfQueue, PTL DEF Spec, QueueSpec

(* NoJobCutShort (main.go:148, queue.go:106-109): whichever goroutine ends *)
(* a shutdown, by exit or by the panic of a second close, no worker holds  *)
(* a job by then.  A listener that fails is not a shutdown, and exits      *)
(* without waiting (main.go:166-169).                                      *)
THEOREM ShutdownWaits == Spec => []NoJobCutShort
  <1>1. Init => IInv /\ ShutdownInv
    BY InitEstablishesIInv, ShutdownInvInit DEF Init
  <1>2. IInv /\ ShutdownInv /\ [Next]_vars => IInv' /\ ShutdownInv'
    BY StepOfQueue, NextPreservesIInv, ShutdownInvStep
  <1>3. ShutdownInv => NoJobCutShort
    BY DEF ShutdownInv, NoJobCutShort
  <1> QED BY <1>1, <1>2, <1>3, PTL DEF Spec
=============================================================================

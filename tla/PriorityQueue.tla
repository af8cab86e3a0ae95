--------------------------- MODULE PriorityQueue ---------------------------
(***************************************************************************)
(* hive-server-go/priority_queue.go: four queues under one mutex, with a   *)
(* condition variable its workers wait on.  Every method runs under pq.mu  *)
(* and is one step here, except that Dequeue gives the mutex up in Wait.   *)
(*                                                                         *)
(* A job is urgent once its deadline is within five seconds or past; jobs  *)
(* are found again by ID, which is not unique (handlers.go:466).  The      *)
(* goroutines that call the methods are not in the repository: a worker    *)
(* calls Dequeue again when it is done with a job, and stops at nil.       *)
(***************************************************************************)
EXTENDS Integers, FiniteSets, SequencesExt

CONSTANTS
    Jobs,       \* job objects
    Ids,        \* job IDs
    IdOf,       \* the ID each job is given
    Requested,  \* values of Job.Priority before Enqueue
    Workers,    \* goroutines that call Dequeue
    None        \* nil

ASSUME JobIdAssumption == IdOf \in [Jobs -> Ids]
ASSUME RequestedAssumption == Requested \subseteq Int
ASSUME NilAssumption == None \notin Jobs
ASSUME WorkersAssumption == IsFiniteSet(Workers)

Levels == 0 .. 3
PriorityNormal == 2

VARIABLES
    queues,     \* pq.queues: a sequence of jobs per level
    closed,     \* pq.closed
    deadline,   \* "far" or "near" (urgent); a job without one stays "far"
    state,      \* ghost: what has become of each job
    level,      \* Job.Priority as Enqueue left it
    wpc,        \* where each worker is
    wjob,       \* what its last Dequeue returned
    wgone       \* ghost: the job that call took out of the queues

vars == <<queues, closed, deadline, state, level, wpc, wjob, wgone>>

Queued == UNION {ToSet(queues[p]) : p \in Levels}
Depth == Len(queues[0]) + Len(queues[1]) + Len(queues[2]) + Len(queues[3])
In(pc) == {w \in Workers : wpc[w] = pc}

-----------------------------------------------------------------------------
(* Enqueue puts a priority out of range to normal.                         *)
InRange(p) == IF p < 0 \/ p > 3 THEN PriorityNormal ELSE p

(* A mutation: the front goes, whichever job was named.                    *)
RemoveFront(q, id) == IF q = <<>> THEN q ELSE Tail(q)

(* concurrentDeque.remove: the first job with this ID goes.                *)
FirstWith(q, id) == SelectInSeq(q, LAMBDA j : IdOf[j] = id)

RemoveId(q, id) ==
    LET at == FirstWith(q, id) IN IF at = 0 THEN q ELSE RemoveAt(q, at)

(* findUrgentDeadlineJob: first by level, then by position.  The job it    *)
(* returns is removed by ID, so that another one may go.                   *)
UrgentAt(p) == SelectInSeq(queues[p], LAMBDA j : deadline[j] = "near")
UrgentLevels == {p \in Levels : UrgentAt(p) # 0}
UrgentLevel == Min(UrgentLevels)
UrgentJob == queues[UrgentLevel][UrgentAt(UrgentLevel)]
UrgentGone == queues[UrgentLevel][FirstWith(queues[UrgentLevel], IdOf[UrgentJob])]
WithoutUrgent == [queues EXCEPT ![UrgentLevel] = RemoveId(@, IdOf[UrgentJob])]

(* A mutation: the levels are walked from the other end.                   *)
BackLevel == Max({p \in Levels : queues[p] # <<>>})

FrontLevel == Min({p \in Levels : queues[p] # <<>>})

(* What Dequeue would return of a queue that is not empty, take out of it, *)
(* and leave.                                                              *)
Chosen == IF UrgentLevels # {} THEN UrgentJob ELSE Head(queues[FrontLevel])
Gone == IF UrgentLevels # {} THEN UrgentGone ELSE Head(queues[FrontLevel])
Rest == IF UrgentLevels # {} THEN WithoutUrgent ELSE [queues EXCEPT ![FrontLevel] = Tail(@)]

-----------------------------------------------------------------------------
Init ==
    /\ queues = [p \in Levels |-> <<>>]
    /\ closed = FALSE
    /\ deadline = [j \in Jobs |-> "far"]
    /\ state = [j \in Jobs |-> "new"]
    /\ level = [j \in Jobs |-> 0]
    /\ wpc = [w \in Workers |-> "calling"]
    /\ wjob = [w \in Workers |-> None]
    /\ wgone = [w \in Workers |-> None]

(* A mutation: only a job that finds the queue empty wakes a worker.       *)
SignalWhenEmpty ==
    IF In("waiting") = {} \/ Depth > 0 THEN UNCHANGED wpc
    ELSE \E w \in In("waiting") : wpc' = [wpc EXCEPT ![w] = "woken"]

(* Signal wakes one waiting worker, if there is one.                       *)
Signal ==
    IF In("waiting") = {} THEN UNCHANGED wpc
    ELSE \E w \in In("waiting") : wpc' = [wpc EXCEPT ![w] = "woken"]

Enqueue(j) ==
    /\ state[j] = "new"
    /\ ~closed
    /\ \E p \in Requested, d \in {"far", "near"} :
          /\ queues' = [queues EXCEPT ![InRange(p)] = Append(@, j)]
          /\ level' = [level EXCEPT ![j] = InRange(p)]
          /\ deadline' = [deadline EXCEPT ![j] = d]
    /\ state' = [state EXCEPT ![j] = "queued"]
    /\ Signal
    /\ UNCHANGED <<closed, wjob, wgone>>

EnqueueClosed(j) ==
    /\ state[j] = "new"
    /\ closed
    /\ state' = [state EXCEPT ![j] = "refused"]
    /\ UNCHANGED <<queues, closed, deadline, level, wpc, wjob, wgone>>

(* The body of Dequeue's loop runs on entry, even when the queue has been  *)
(* closed, and after a wake-up that was not for Close.                     *)
Looking(w) == wpc[w] = "calling" \/ (wpc[w] = "woken" /\ ~closed)

DequeueTake(w) ==
    /\ Looking(w)
    /\ Depth > 0
    /\ queues' = Rest
    /\ wjob' = [wjob EXCEPT ![w] = Chosen] /\ wgone' = [wgone EXCEPT ![w] = Gone]
    /\ state' = [state EXCEPT ![Gone] = "taken"]
    /\ wpc' = [wpc EXCEPT ![w] = "busy"]
    /\ UNCHANGED <<closed, deadline, level>>

DequeueWait(w) ==
    /\ Looking(w)
    /\ Depth = 0
    /\ wpc' = [wpc EXCEPT ![w] = "waiting"]
    /\ UNCHANGED <<queues, closed, deadline, state, level, wjob, wgone>>

DequeueNil(w) ==
    /\ wpc[w] = "woken"
    /\ closed
    /\ wpc' = [wpc EXCEPT ![w] = "stopped"]
    /\ UNCHANGED <<queues, closed, deadline, state, level, wjob, wgone>>

WorkerDone(w) ==
    /\ wpc[w] = "busy"
    /\ wpc' = [wpc EXCEPT ![w] = "calling"]
    /\ wjob' = [wjob EXCEPT ![w] = None] /\ wgone' = [wgone EXCEPT ![w] = None]
    /\ UNCHANGED <<queues, closed, deadline, state, level>>

(* Peek goes through findUrgentDeadlineJob too, and so takes an urgent job *)
(* out of its queue; it only looks at any other.                           *)
Peek ==
    /\ UrgentLevels # {}
    /\ queues' = WithoutUrgent
    /\ state' = [state EXCEPT ![UrgentGone] = "peeked"]
    /\ UNCHANGED <<closed, deadline, level, wpc, wjob, wgone>>

(* Cancel removes the first job with the ID, on the first level that has   *)
(* one.                                                                    *)
Cancel(id) ==
    /\ \E p \in Levels :
          /\ id \in {IdOf[j] : j \in ToSet(queues[p])}
          /\ \A q \in 0 .. p - 1 : id \notin {IdOf[j] : j \in ToSet(queues[q])}
          /\ queues' = [queues EXCEPT ![p] = RemoveId(@, id)]
          /\ state' = [state EXCEPT ![queues[p][FirstWith(queues[p], id)]] = "cancelled"]
    /\ UNCHANGED <<closed, deadline, level, wpc, wjob, wgone>>

Close ==
    /\ ~closed
    /\ closed' = TRUE
    /\ wpc' = [w \in Workers |-> IF wpc[w] = "waiting" THEN "woken" ELSE wpc[w]]
    /\ UNCHANGED <<queues, deadline, state, level, wjob, wgone>>

(* Time passes: a deadline comes within five seconds.                      *)
DeadlineNears(j) ==
    /\ state[j] = "queued" /\ deadline[j] = "far"
    /\ deadline' = [deadline EXCEPT ![j] = "near"]
    /\ UNCHANGED <<queues, closed, state, level, wpc, wjob, wgone>>

WorkerStep(w) == DequeueTake(w) \/ DequeueWait(w) \/ DequeueNil(w) \/ WorkerDone(w)

Next ==
    \/ \E j \in Jobs : Enqueue(j) \/ EnqueueClosed(j) \/ DeadlineNears(j)
    \/ \E w \in Workers : WorkerStep(w)
    \/ \E id \in Ids : Cancel(id)
    \/ Peek \/ Close

Spec == Init /\ [][Next]_vars
-----------------------------------------------------------------------------
TypeOK ==
    /\ queues \in [Levels -> Seq(Jobs)]
    /\ closed \in BOOLEAN
    /\ deadline \in [Jobs -> {"far", "near"}]
    /\ state \in [Jobs -> {"new", "queued", "taken", "peeked", "cancelled", "refused"}]
    /\ level \in [Jobs -> Levels]
    /\ wpc \in [Workers -> {"calling", "waiting", "woken", "busy", "stopped"}]
    /\ {wjob, wgone} \subseteq [Workers -> Jobs \cup {None}]

(* Whatever the IDs, every accepted job has one place in the queues, at    *)
(* its level, until one call of Dequeue, Cancel or Peek clears it, and     *)
(* what a worker is handed has the ID of the job whose place its own call  *)
(* cleared: an ID is handed out no more often than it was accepted, and    *)
(* with distinct IDs no two workers have the same job                      *)
(* (priority_queue.go:99-109, 138, 161, 178-207).  No more is promised:    *)
(* where two jobs share an ID one may be run twice and the other never,    *)
(* and Peek, "without removing it" (209), clears the place of an urgent    *)
(* job, which no worker then gets.  And the state has its types.           *)
JobsConserved ==
    /\ TypeOK
    /\ Queued = {j \in Jobs : state[j] = "queued"}
    /\ \A p \in Levels : \A j \in ToSet(queues[p]) : level[j] = p
    /\ Depth = Cardinality(Queued)
    /\ \A w \in In("busy") :
          wgone[w] \in Jobs /\ state[wgone[w]] = "taken" /\ IdOf[wjob[w]] = IdOf[wgone[w]]
    /\ \A v, w \in In("busy") : wgone[v] = wgone[w] => v = w

(* No wake-up is lost: while any worker sleeps, each job in the queues has *)
(* a worker of its own that was woken and has not looked yet, whoever else *)
(* took, cancelled or peeked at jobs in between                            *)
(* (priority_queue.go:141-142, 152-173).                                   *)
NoLostWakeup == In("waiting") # {} => Depth <= Cardinality(In("woken"))

(* A job is passed over only for an urgent one, or for one of a higher     *)
(* level, or for an earlier one of its own: what Dequeue leaves behind has *)
(* no better claim than what it returns (priority_queue.go:153-165).  Left *)
(* behind may be that job itself, when one with its ID went instead.       *)
BestClaimFirst ==
    [][\A w \in Workers : DequeueTake(w) =>
          LET j == wjob'[w]
              urgent(k) == deadline[k] = "near"
          IN  \A k \in (UNION {ToSet(queues'[p]) : p \in Levels}) \ {j} :
                 /\ urgent(k) => urgent(j)
                 /\ (urgent(k) <=> urgent(j)) =>
                       \/ level[j] < level[k]
                       \/ /\ level[j] = level[k]
                          /\ \E a, b \in 1 .. Len(queues[level[j]]) :
                                a < b /\ queues[level[j]][a] = j /\ queues[level[j]][b] = k]_vars
=============================================================================

--------------------------- MODULE ServerShutdown ---------------------------
(***************************************************************************)
(* hive-server-go/main.go:99-171 and handlers.go:252-257: how the process  *)
(* goes down, composed with the job queue it stops.                        *)
(*                                                                         *)
(* Two goroutines take part.  The signal goroutine stops the server, shuts *)
(* the HTTP server down, closes the database and exits.  The main          *)
(* goroutine sits in ListenAndServe, which returns as soon as Shutdown has *)
(* begun, and then runs its deferred calls, auditManager.Stop and          *)
(* server.Stop.  A panic in either ends the process, and so does main when *)
(* ListenAndServe returns another error: it exits there and then.          *)
(***************************************************************************)
EXTENDS JobQueue

VARIABLES
    process,    \* "up", "exited" (os.Exit(0)), "failed" (os.Exit(1)) or "panicked"
    sigpc,      \* the signal goroutine
    mainpc,     \* the main goroutine
    meshStopCh  \* TRUE once the mesh's stopCh is closed

shutdownVars == <<process, sigpc, mainpc, meshStopCh>>
vars == <<queueVars, shutdownVars>>

Init ==
    /\ QueueInit
    /\ process = "up"
    /\ sigpc = "waiting"
    /\ mainpc = "starting"
    /\ meshStopCh = FALSE

Up == process = "up"

-----------------------------------------------------------------------------
(* ListenAndServe binds the port.                                          *)
Listen ==
    /\ Up /\ mainpc = "starting"
    /\ mainpc' = "serving"
    /\ UNCHANGED <<queueVars, process, sigpc, meshStopCh>>

(* It fails, at once or when it can accept no more connections, and main   *)
(* exits with status 1, whatever the workers are doing.  Once Shutdown has *)
(* begun its error is ErrServerClosed.                                     *)
ListenFails ==
    /\ Up /\ mainpc \in {"starting", "serving"} /\ sigpc # "draining"
    /\ process' = "failed"
    /\ UNCHANGED <<queueVars, sigpc, mainpc, meshStopCh>>

(* A handler submits a job.  Nothing ties Submit to stopCh, and handlers   *)
(* in flight run on after the listener has closed.                         *)
Submit(j) ==
    /\ Up /\ mainpc \in {"serving", "served"}
    /\ SubmitAccepted(j) \/ SubmitRefused(j)
    /\ UNCHANGED shutdownVars

(* Nothing but the end of the process stops a worker between two jobs or   *)
(* inside one.                                                             *)
Work(w) ==
    /\ Up
    /\ WorkerStep(w)
    /\ UNCHANGED shutdownVars

-----------------------------------------------------------------------------
(* HiveServer.Stop on either goroutine starts by closing the queue's       *)
(* stopCh: closing a closed channel panics.                                *)
StopQueue(pc, next) ==
    IF stopCh
    THEN /\ process' = "panicked" /\ UNCHANGED <<queueVars, pc>>
    ELSE /\ CloseStopCh /\ pc' = next /\ UNCHANGED process

(* Its last part, after wg.Wait: the mesh's stopCh.                        *)
StopMesh(pc, next) ==
    /\ AllExited
    /\ IF meshStopCh
       THEN process' = "panicked" /\ UNCHANGED <<meshStopCh, pc>>
       ELSE meshStopCh' = TRUE /\ pc' = next /\ UNCHANGED process

SignalStop ==
    /\ Up /\ sigpc = "waiting"
    /\ StopQueue(sigpc, "joining")
    /\ UNCHANGED <<mainpc, meshStopCh>>

(* A mutation: Stop does not wait for the workers.                         *)
SignalDoesNotJoin ==
    /\ Up /\ sigpc = "joining"
    /\ sigpc' = "shutdown"
    /\ meshStopCh' = TRUE
    /\ UNCHANGED <<queueVars, process, mainpc>>

SignalJoin ==
    /\ Up /\ sigpc = "joining"
    /\ StopMesh(sigpc, "shutdown")
    /\ UNCHANGED <<queueVars, mainpc>>

(* httpServer.Shutdown closes the listener at once and then waits for the  *)
(* handlers in flight, up to the 30 s of its context.                      *)
SignalShutdown ==
    /\ Up /\ sigpc = "shutdown"
    /\ sigpc' = "draining"
    /\ UNCHANGED <<queueVars, process, mainpc, meshStopCh>>

(* Shutdown has returned: closeDB and os.Exit.                             *)
SignalExit ==
    /\ Up /\ sigpc = "draining"
    /\ process' = "exited"
    /\ UNCHANGED <<queueVars, sigpc, mainpc, meshStopCh>>

(* ListenAndServe returns ErrServerClosed; main runs its deferred calls,   *)
(* after having served or, if the signal came first, without.              *)
MainReturns ==
    /\ Up /\ mainpc \in {"starting", "serving"} /\ sigpc = "draining"
    /\ mainpc' = IF mainpc = "serving" THEN "served" ELSE "deferred"
    /\ UNCHANGED <<queueVars, process, sigpc, meshStopCh>>

MainStop ==
    /\ Up /\ mainpc \in {"served", "deferred"}
    /\ StopQueue(mainpc, "joining")
    /\ UNCHANGED <<sigpc, meshStopCh>>

Next ==
    \/ Listen \/ ListenFails
    \/ \E j \in Jobs : Submit(j)
    \/ \E w \in Workers : Work(w)
    \/ SignalStop \/ SignalJoin \/ SignalShutdown \/ SignalExit
    \/ MainReturns \/ MainStop

Spec == Init /\ [][Next]_vars

(* Goroutines are scheduled and every Ollama call returns: the HTTP        *)
(* client's timeout is 600 s.  Which ready case a select takes, and        *)
(* whether a signal comes, is left open.                                   *)
FairSpec ==
    /\ Spec
    /\ \A w \in Workers : WF_vars(Work(w))
    /\ WF_vars(SignalJoin \/ SignalShutdown \/ SignalExit)
    /\ WF_vars(MainReturns \/ MainStop)

-----------------------------------------------------------------------------
ShutdownTypeOK ==
    /\ TypeOK
    /\ process \in {"up", "exited", "failed", "panicked"}
    /\ sigpc \in {"waiting", "joining", "shutdown", "draining"}
    /\ mainpc \in {"starting", "serving", "served", "deferred"}
    /\ meshStopCh \in BOOLEAN

(* Whichever goroutine ends a shutdown, by exit or by the panic of the     *)
(* second Stop, no worker is in the middle of a job by then: the first     *)
(* Stop has waited for all of them, for as long as it takes (main.go:148,  *)
(* queue.go:106-109; "up to 30 seconds", main.go:143, is not what it       *)
(* does).  Only a listener that fails cuts jobs short (main.go:166-169).   *)
(* And the state has its types.                                            *)
NoJobCutShort ==
    ShutdownTypeOK /\ (process \in {"exited", "panicked"} => Held = {})

(* Unless the server is stopped, every accepted job is run to its end      *)
(* (queue.go:120-143).                                                     *)
AcceptedJobsFinish ==
    [](Up /\ ~stopCh) => \A j \in Jobs : (j \in Accepted) ~> (j \in finished)

(* After a signal the process goes down: every worker leaves its loop,     *)
(* even if its select takes all buffered jobs before it looks at stopCh    *)
(* (queue.go:106-109, 123-125; main.go:136-158).                           *)
SignalEndsProcess == (sigpc # "waiting") ~> ~Up
=============================================================================

----------------------------- MODULE HttpServer -----------------------------
(***************************************************************************)
(* A request on its way through a hive server (main.go): AuthMiddleware    *)
(* with the rate limiter, requestLogger, corsMiddleware, auditMiddleware   *)
(* and a handler that calls the client manager.  Composes RateLimiter,     *)
(* AuditTrail and ClientManager: requests run concurrently with each       *)
(* other, with the flusher and with the two cleanup loops, and the process *)
(* may end and start again at any point.                                   *)
(***************************************************************************)
EXTENDS RateLimiter, AuditTrail, ClientManager

CONSTANTS
    MaxTime,       \* bound on the clock
    MaxAdmitted,   \* bound on the requests let in per address
    MaxRestarts

VARIABLES
    pc,            \* of each request
    restarts

vars == <<limiterVars, auditVars, clientVars, pc, restarts>>

Init ==
    /\ LimiterInit /\ AuditInit /\ ClientInit
    /\ pc = [r \in Requests |-> "new"]
    /\ restarts = 0

-----------------------------------------------------------------------------
Goto(r, l) == pc' = [pc EXCEPT ![r] = l]

MayAdmit(a) == Len(admitted[a]) < MaxAdmitted

(* AuthMiddleware lets the request through, after the limiter counted it.  *)
Admit(r) ==
    /\ pc[r] = "new"
    /\ \E a \in Addrs : MayAdmit(a) /\ Allow(a)
    /\ Goto(r, "arrived")
    /\ UNCHANGED <<auditVars, clientVars, restarts>>

(* The dashboard and the health check are let through without being        *)
(* counted.                                                                *)
AdmitUncounted(r) ==
    /\ pc[r] = "new"
    /\ Goto(r, "arrived")
    /\ UNCHANGED <<limiterVars, auditVars, clientVars, restarts>>

(* Too many requests: nothing but the limiter has seen it.                 *)
TurnAway(r) ==
    /\ pc[r] = "new"
    /\ \E a \in Addrs : Refuses(a)
    /\ Goto(r, "refused")
    /\ UNCHANGED <<limiterVars, auditVars, clientVars, restarts>>

(* A request that is counted but not audited: /api/status and the others   *)
(* auditMiddleware skips, or one with the wrong key, which AuthMiddleware  *)
(* refuses after it was counted.                                           *)
Unaudited(a) ==
    /\ MayAdmit(a) /\ Allow(a)
    /\ UNCHANGED <<auditVars, clientVars, pc, restarts>>

(* auditMiddleware before the handler.                                     *)
LogRequest(r) ==
    /\ pc[r] = "arrived"
    /\ AppendEvent(Event(r, "request")) /\ Goto(r, "logged")
    /\ UNCHANGED <<limiterVars, clientVars, restarts>>

(* The wake-up at the end of LogRequest and of LogResponse.                *)
LogSignal(r) ==
    /\ pc[r] \in {"logged", "answered"}
    /\ Signal /\ Goto(r, IF pc[r] = "logged" THEN "handle" ELSE "done")
    /\ UNCHANGED <<limiterVars, clientVars, restarts>>

(* The handler: one that registers its client (handleClientRegister,       *)
(* submitJob) or fails to, a heartbeat, an unregister, or one that does    *)
(* not concern the clients.                                                *)
Handle(r) ==
    /\ pc[r] = "handle"
    /\ \/ \E c \in Clients : Register(c, now)
       \/ \E c \in Clients : RegisterFails(c)
       \/ \E c \in Clients : Heartbeat(c, now)
       \/ \E c \in Clients : Unregister(c)
       \/ UNCHANGED clientVars
    /\ Goto(r, "respond")
    /\ UNCHANGED <<limiterVars, auditVars, restarts>>

(* auditMiddleware after the handler; by then the client may have its      *)
(* answer.                                                                 *)
LogResponse(r) ==
    /\ pc[r] = "respond"
    /\ AppendEvent(Event(r, "response")) /\ Goto(r, "answered")
    /\ UNCHANGED <<limiterVars, clientVars, restarts>>

-----------------------------------------------------------------------------
FlusherStep == Flusher /\ UNCHANGED <<limiterVars, clientVars, pc, restarts>>

CleanupStep == Cleanup /\ UNCHANGED <<auditVars, clientVars, pc, restarts>>

HeartbeatCheckStep ==
    /\ HeartbeatCheck(now)
    /\ UNCHANGED <<limiterVars, auditVars, pc, restarts>>

TimePasses ==
    /\ now < MaxTime
    /\ Tick /\ UNCHANGED <<auditVars, clientVars, pc, restarts>>

(* The process ends, by a crash or because main returns when the listener  *)
(* is closed, and is started again: the limiter, the clients and the       *)
(* requests in progress are forgotten, the rows stay.                      *)
Restart ==
    /\ restarts < MaxRestarts /\ restarts' = restarts + 1
    /\ AuditLost /\ Forget
    /\ clients' = [c \in Clients |-> Absent] /\ heard' = [c \in Clients |-> Absent]
    /\ pc' = [r \in Requests |-> IF pc[r] \in {"new", "done", "refused"} THEN pc[r] ELSE "dead"]

Request(r) ==
    \/ Admit(r) \/ AdmitUncounted(r) \/ TurnAway(r)
    \/ LogRequest(r) \/ LogSignal(r) \/ Handle(r) \/ LogResponse(r)

Next ==
    \/ \E r \in Requests : Request(r)
    \/ \E a \in Addrs : Unaudited(a)
    \/ FlusherStep \/ CleanupStep \/ HeartbeatCheckStep
    \/ TimePasses \/ Restart

Spec == Init /\ [][Next]_vars

-----------------------------------------------------------------------------
TypeOK ==
    /\ LimiterTypeOK /\ AuditTypeOK /\ ClientTypeOK
    /\ pc \in [Requests -> {"new", "refused", "arrived", "logged", "handle", "respond",
                            "answered", "done", "dead"}]

(* A client that registered, and since then has never let the stale time   *)
(* pass without a heartbeat or a job, has its place in the table, however  *)
(* full that is and whoever else comes, so that its next Register cannot   *)
(* fail.  An "ok" to a heartbeat does not say so: a client that was silent *)
(* for longer gets it too, though it may have been removed and its next    *)
(* Register refused (handlers.go:67-106, 259-273, 394-395).  And the state *)
(* has its types.                                                          *)
ActiveClientsStay ==
    /\ TypeOK
    /\ \A c \in Clients :
        (heard[c] # Absent /\ now - heard[c] <= StaleAfter) => HasRoom(c) /\ c \in Known

Logged(r) ==
    {e \in Events :
        /\ e.of = r
        /\ \/ pc[r] \in {"answered", "done"}
           \/ e.type = "request" /\ pc[r] \in {"logged", "handle", "respond"}}

(* What a request logged is in the trail exactly once, on its way or       *)
(* stored, unless its own insert failed or the process died with it: no    *)
(* event falls between the flusher's copy and the handlers' appends, and   *)
(* none is inserted twice (audit.go:116-118, 299-333).                     *)
NothingSlipsThrough ==
    /\ IsInjective(Trail)
    /\ \A r \in Requests : Logged(r) \subseteq ToSet(Trail) \cup gone

(* No wake-up is lost: while events lie in the buffer and the flusher      *)
(* sleeps, a wake-up is in the channel or about to be sent, although all   *)
(* but one are dropped.  Nothing has to wait for the ticker                *)
(* (audit.go:108-125, 282-297).                                            *)
FlushIsComing ==
    (buffer # <<>> /\ fpc = "select") =>
        flushCh = 1 \/ \E r \in Requests : pc[r] \in {"logged", "answered"}
=============================================================================

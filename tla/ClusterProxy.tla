---------------------------- MODULE ClusterProxy ----------------------------
(***************************************************************************)
(* internal/proxy/proxy.go and internal/queue/queue.go: the inference      *)
(* handlers of a cluster node, the priority queue their requests are put   *)
(* in, the map of active requests and the bounded history.                 *)
(*                                                                         *)
(* Each request is served by the handler goroutine that received it, which *)
(* runs unlocked between its steps; cancel requests come in concurrently.  *)
(* Cancel tests and writes Status under the queue's mutex, the handlers    *)
(* write it without: the test and the write are two steps.                 *)
(* A request is its own ID (a nanosecond timestamp).  Whether the balancer *)
(* finds a node, and which, is open here: Balancer and NodeRegistry model  *)
(* that.  The net/http writer always flushes, so the "streaming not        *)
(* supported" return is left out.                                          *)
(***************************************************************************)
EXTENDS Integers, FiniteSets, SequencesExt

CONSTANTS
    Reqs,           \* inference requests that may arrive
    Nodes,          \* cluster nodes
    None,           \* no node
    Priorities,     \* the values of the body's "priority" field
    MaxSizes,       \* values of the flag -max-queue
    MaxHistory      \* History.maxSize

ASSUME ReqsAssumption == IsFiniteSet(Reqs)
ASSUME SizeAssumption == MaxSizes \subseteq Nat /\ MaxHistory \in Nat
ASSUME PriorityAssumption == Priorities \subseteq Int
ASSUME NodeNoneAssumption == None \notin Nodes \cup Reqs

VARIABLES
    items,      \* Queue.items
    maxSize,    \* Queue.maxSize
    requests,   \* History.requests, oldest first
    active,     \* Proxy.active
    status,     \* Request.Status, "none" before Enqueue
    priority,   \* Request.Priority
    createdAt,  \* Request.CreatedAt, as a count of accepted requests
    node,       \* Request.NodeID, and the node picked before it is set
    pc,         \* where the request's handler is
    reply,      \* what the client was sent
    cancelling, \* the request Cancel found pending, while it holds Queue.mu
    cancelled,  \* requests whose cancellation was confirmed
    ended       \* the requests whose handlers are through, in the order of
                \* their last steps, a ghost

queueVars == <<items, maxSize, priority, createdAt>>
cancelVars == <<cancelling, cancelled>>
vars == <<queueVars, requests, active, status, node, pc, reply, cancelVars, ended>>

-----------------------------------------------------------------------------
(* A mutation: a request goes before its equals.                           *)
InsertBeforeEquals(p) ==
    LET lower == {i \in 1 .. Len(items) : priority[items[i]] <= p}
    IN  IF lower = {} THEN Len(items) + 1
        ELSE CHOOSE i \in lower : \A k \in lower : i <= k

(* Enqueue's position: before the first item of lower priority.            *)
InsertIdx(p) ==
    LET lower == {i \in 1 .. Len(items) : priority[items[i]] < p}
    IN  IF lower = {} THEN Len(items) + 1
        ELSE CHOOSE i \in lower : \A k \in lower : i <= k

(* History.Add keeps the last MaxHistory requests.                         *)
Add(history, r) ==
    LET longer == Append(history, r)
    IN  IF Len(longer) > MaxHistory
        THEN SubSeq(longer, Len(longer) - MaxHistory + 1, Len(longer))
        ELSE longer

(* What the client gets when the node responds; the bad answer is an error *)
(* status passed on or a body that breaks off.                             *)
Responses == {"answer", "bad answer", "empty stream"}

Accepted == {r \in Reqs : createdAt[r] > 0}

-----------------------------------------------------------------------------
Init ==
    /\ items = <<>>
    /\ maxSize \in MaxSizes
    /\ requests = <<>>
    /\ active = {}
    /\ status = [r \in Reqs |-> "none"]
    /\ priority = [r \in Reqs |-> 0]
    /\ createdAt = [r \in Reqs |-> 0]
    /\ node = [r \in Reqs |-> None]
    /\ pc = [r \in Reqs |-> "idle"]
    /\ reply = [r \in Reqs |-> "none"]
    /\ cancelling = None /\ cancelled = {}
    /\ ended = <<>>

(* The body cannot be read or is not JSON.                                 *)
BadRequest(r) ==
    /\ pc[r] = "idle"
    /\ pc' = [pc EXCEPT ![r] = "done"]
    /\ reply' = [reply EXCEPT ![r] = "bad request"]
    /\ UNCHANGED <<queueVars, requests, active, status, node, cancelVars, ended>>

EnqueueFull(r) ==
    /\ pc[r] = "idle" /\ cancelling = None
    /\ Len(items) >= maxSize
    /\ pc' = [pc EXCEPT ![r] = "done"]
    /\ reply' = [reply EXCEPT ![r] = "queue full"]
    /\ UNCHANGED <<queueVars, requests, active, status, node, cancelVars, ended>>

Enqueue(r) ==
    /\ pc[r] = "idle" /\ cancelling = None
    /\ Len(items) < maxSize
    /\ \E p \in Priorities :
          /\ items' = InsertAt(items, InsertIdx(p), r)
          /\ priority' = [priority EXCEPT ![r] = p]
    /\ createdAt' = [createdAt EXCEPT ![r] = Cardinality(Accepted) + 1]
    /\ status' = [status EXCEPT ![r] = "pending"]
    /\ pc' = [pc EXCEPT ![r] = "select"]
    /\ UNCHANGED <<maxSize, requests, active, node, reply, cancelVars, ended>>

(* A mutation: a request without a node is not recorded.                   *)
NoNodeUnrecorded(r) ==
    /\ pc[r] = "select"
    /\ ended' = Append(ended, r)
    /\ status' = [status EXCEPT ![r] = "failed"]
    /\ pc' = [pc EXCEPT ![r] = "done"]
    /\ reply' = [reply EXCEPT ![r] = "no nodes"]
    /\ UNCHANGED <<queueVars, requests, active, node, cancelVars>>

(* handleSyncResponse and handleStreamResponse.  No node to be had:        *)
NoNode(r) ==
    /\ pc[r] = "select"
    /\ status' = [status EXCEPT ![r] = "failed"]
    /\ requests' = Add(requests, r)
    /\ ended' = Append(ended, r)
    /\ pc' = [pc EXCEPT ![r] = "done"]
    /\ reply' = [reply EXCEPT ![r] = "no nodes"]
    /\ UNCHANGED <<queueVars, active, node, cancelVars>>

SelectNode(r) ==
    /\ pc[r] = "select"
    /\ \E n \in Nodes : node' = [node EXCEPT ![r] = n]
    /\ pc' = [pc EXCEPT ![r] = "selected"]
    /\ UNCHANGED <<queueVars, requests, active, status, reply, cancelVars, ended>>

(* The handler writes the status whatever it has become in the meantime.   *)
MarkRunning(r) ==
    /\ pc[r] = "selected"
    /\ status' = [status EXCEPT ![r] = "running"]
    /\ pc' = [pc EXCEPT ![r] = "marked"]
    /\ UNCHANGED <<queueVars, requests, active, node, reply, cancelVars, ended>>

Activate(r) ==
    /\ pc[r] = "marked"
    /\ active' = active \cup {r}
    /\ pc' = [pc EXCEPT ![r] = "calling"]
    /\ UNCHANGED <<queueVars, requests, status, node, reply, cancelVars, ended>>

(* The node responded.  Whatever it says counts as complete: an answer, an *)
(* error status passed on, a body that breaks off part way, and a stream   *)
(* that breaks off before its first byte.                                  *)
CallCompletes(r) ==
    /\ pc[r] = "calling"
    /\ status' = [status EXCEPT ![r] = "complete"]
    /\ \E sent \in Responses : reply' = [reply EXCEPT ![r] = sent]
    /\ pc' = [pc EXCEPT ![r] = "returning"]
    /\ UNCHANGED <<queueVars, requests, active, node, cancelVars, ended>>

(* A mutation: the failure is reported but the status is not written.      *)
FailsWithoutStatus(r) ==
    /\ pc[r] = "calling"
    /\ \E sent \in {"upstream error", "empty stream"} :
          reply' = [reply EXCEPT ![r] = sent]
    /\ pc' = [pc EXCEPT ![r] = "returning"]
    /\ UNCHANGED <<queueVars, requests, active, status, node, cancelVars, ended>>

(* No response within RequestTimeout, or none at all.  The streaming       *)
(* handler has sent its 200 by then: its client sees an empty stream.      *)
CallFails(r) ==
    /\ pc[r] = "calling"
    /\ status' = [status EXCEPT ![r] = "failed"]
    /\ \E sent \in {"upstream error", "empty stream"} :
          reply' = [reply EXCEPT ![r] = sent]
    /\ pc' = [pc EXCEPT ![r] = "returning"]
    /\ UNCHANGED <<queueVars, requests, active, node, cancelVars, ended>>

(* The deferred function: out of the active map, then into the history.    *)
Deactivate(r) ==
    /\ pc[r] = "returning"
    /\ active' = active \ {r}
    /\ pc' = [pc EXCEPT ![r] = "leaving"]
    /\ UNCHANGED <<queueVars, requests, status, node, reply, cancelVars, ended>>

Record(r) ==
    /\ pc[r] = "leaving"
    /\ requests' = Add(requests, r)
    /\ ended' = Append(ended, r)
    /\ pc' = [pc EXCEPT ![r] = "done"]
    /\ UNCHANGED <<queueVars, active, status, node, reply, cancelVars>>

(* HandleCancel finds the request pending in the queue; otherwise it says  *)
(* "request not found or already running" and changes nothing.             *)
CancelFinds(r) ==
    /\ cancelling = None
    /\ r \in ToSet(items) /\ status[r] = "pending"
    /\ cancelling' = r
    /\ UNCHANGED <<queueVars, requests, active, status, node, pc, reply, cancelled, ended>>

(* Mutations: the item stays; the active entry goes too.                   *)
CancelKeepsItem ==
    /\ cancelling # None
    /\ status' = [status EXCEPT ![cancelling] = "failed"]
    /\ cancelled' = cancelled \cup {cancelling}
    /\ cancelling' = None
    /\ UNCHANGED <<queueVars, requests, active, node, pc, reply, ended>>

CancelDeactivates ==
    /\ cancelling # None
    /\ items' = RemoveFirst(items, cancelling)
    /\ status' = [status EXCEPT ![cancelling] = "failed"]
    /\ cancelled' = cancelled \cup {cancelling}
    /\ cancelling' = None
    /\ active' = active \ {cancelling}
    /\ UNCHANGED <<maxSize, requests, priority, createdAt, node, pc, reply, ended>>

(* It takes the item out and writes Status, whatever the handler has       *)
(* written there since the test.                                           *)
CancelRemoves ==
    /\ cancelling # None
    /\ items' = RemoveFirst(items, cancelling)
    /\ status' = [status EXCEPT ![cancelling] = "failed"]
    /\ cancelled' = cancelled \cup {cancelling}
    /\ cancelling' = None
    /\ UNCHANGED <<maxSize, requests, active, priority, createdAt, node, pc, reply, ended>>

Arrive(r) == BadRequest(r) \/ EnqueueFull(r) \/ Enqueue(r)

Serve(r) ==
    \/ NoNode(r) \/ SelectNode(r) \/ MarkRunning(r) \/ Activate(r)
    \/ CallCompletes(r) \/ CallFails(r) \/ Deactivate(r) \/ Record(r)

Next ==
    \/ \E r \in Reqs : Arrive(r) \/ Serve(r) \/ CancelFinds(r)
    \/ CancelRemoves

Spec == Init /\ [][Next]_vars

-----------------------------------------------------------------------------
TypeOK ==
    /\ items \in Seq(Reqs) /\ maxSize \in MaxSizes /\ Len(items) <= maxSize
    /\ requests \in Seq(Reqs) /\ Len(requests) <= MaxHistory
    /\ ended \in Seq(Reqs)
    /\ active \subseteq Reqs
    /\ cancelling \in Reqs \cup {None} /\ cancelled \subseteq Reqs
    /\ status \in [Reqs -> {"none", "pending", "running", "complete", "failed"}]
    /\ priority \in [Reqs -> Priorities \cup {0}]
    /\ createdAt \in [Reqs -> 0 .. Cardinality(Reqs)]
    /\ node \in [Reqs -> Nodes \cup {None}]
    /\ pc \in [Reqs -> {"idle", "select", "selected", "marked", "calling",
                        "returning", "leaving", "done"}]
    /\ reply \in [Reqs -> {"none", "bad request", "queue full", "no nodes",
                           "upstream error"} \cup Responses]

(* The queue is in priority order, and in order of arrival within one      *)
(* priority, after any mix of enqueues and cancellations                   *)
(* (queue.go:64-73, 119-121).                                              *)
QueueOrdered ==
    \A i, k \in 1 .. Len(items) : i < k =>
        \/ priority[items[i]] > priority[items[k]]
        \/ /\ priority[items[i]] = priority[items[k]]
           /\ createdAt[items[i]] < createdAt[items[k]]

(* The queue holds, once each, exactly the accepted requests that were not *)
(* cancelled: a cancellation removes the one it names, and being served    *)
(* removes nothing (proxy.go:87-99, queue.go:116-127).                     *)
QueueContents ==
    /\ ToSet(items) = Accepted \ cancelled
    /\ Len(items) = Cardinality(ToSet(items))

(* While a call is out, the request is shown as active and on its node,    *)
(* also when a cancellation has been confirmed, and as running unless that *)
(* cancellation raced with the start (proxy.go:111-118, queue.go:119-122). *)
CallsAreVisible ==
    \A r \in Reqs : pc[r] = "calling" =>
        /\ r \in active /\ node[r] \in Nodes
        /\ status[r] = "running" \/ r \in cancelled

(* The history is the tail of the order in which the handlers ended, up to *)
(* its size limit: the newest requests, oldest first, each once, none that *)
(* is still being served and none missing (proxy.go:106, 126;              *)
(* queue.go:154-161).  And the state has its types.                        *)
HistoryExact ==
    LET size == Len(requests)
        all == Len(ended)
    IN  /\ TypeOK
        /\ ToSet(ended) = {r \in Accepted : pc[r] = "done"}
        /\ \A i, k \in 1 .. all : ended[i] = ended[k] => i = k
        /\ size = IF all < MaxHistory THEN all ELSE MaxHistory
        /\ \A i \in 1 .. size : requests[i] = ended[all - size + i]

(* The history tells whether a node responded, and never that a request is *)
(* still running: a request whose client was told "no nodes" or "upstream  *)
(* error" is failed, and one whose client was sent any part of a node's    *)
(* response is complete, unless a cancellation raced with it.  It does not *)
(* tell a good answer from an error status or a broken body, and an empty  *)
(* stream may be recorded either way (proxy.go:103-107, 134-158, 185-229;  *)
(* queue.go:122).                                                          *)
HistoryTellsOutcome ==
    \A r \in ToSet(requests) :
        /\ status[r] \in {"complete", "failed"}
        /\ reply[r] \in {"no nodes", "upstream error"} => status[r] = "failed"
        /\ reply[r] \in Responses \ {"empty stream"} =>
              status[r] = "complete" \/ r \in cancelled

(* "Max queued requests" (config.go:40): a request is refused only while   *)
(* maxSize requests are waiting to be served.                              *)
RefusedOnlyWhenFull ==
    [][\A r \in Reqs : EnqueueFull(r) =>
          Cardinality({q \in Reqs : pc[q] \in {"select", "selected"}}) >= maxSize]_vars
=============================================================================

----------------------------- MODULE AuditTrail -----------------------------
(***************************************************************************)
(* The audit trail of the hive server (audit.go AuditTrailManager): events *)
(* are appended to a buffer under a lock, then a wake-up is offered to the *)
(* flusher through a channel with room for one; the flusher takes the      *)
(* whole buffer at once and inserts the events one by one.  An insert that *)
(* fails is logged and its event is gone.                                  *)
(*                                                                         *)
(* A request has two events, "request" and "response"; what else they say  *)
(* is left out.                                                            *)
(***************************************************************************)
EXTENDS Integers, Sequences, SequencesExt

CONSTANTS
    Requests,
    MaxFails     \* inserts that may fail

VARIABLES
    buffer,      \* the buffer
    flushCh,     \* wake-ups in the channel
    fpc,         \* of the flusher: "select", "flush" or "insert"
    batch,       \* the events it took out
    stored,      \* the rows of request_audit_trail, by id
    gone         \* ghost: events whose insert failed or that died in memory

auditVars == <<buffer, flushCh, fpc, batch, stored, gone>>

Event(r, type) == [of |-> r, type |-> type]
Events == [of : Requests, type : {"request", "response"}]

AuditInit ==
    /\ buffer = <<>> /\ flushCh = 0
    /\ fpc = "select" /\ batch = <<>>
    /\ stored = <<>> /\ gone = {}

-----------------------------------------------------------------------------
(* LogEvent, first half.                                                   *)
AppendEvent(e) ==
    /\ buffer' = Append(buffer, e)
    /\ UNCHANGED <<flushCh, fpc, batch, stored, gone>>

(* Mutant: wakes the flusher only when it sleeps.                          *)
SignalWhenIdle ==
    /\ flushCh' = IF fpc = "select" THEN 1 ELSE flushCh
    /\ UNCHANGED <<buffer, fpc, batch, stored, gone>>

(* LogEvent, second half: the wake-up is dropped if one is there.          *)
Signal ==
    /\ flushCh' = 1
    /\ UNCHANGED <<buffer, fpc, batch, stored, gone>>

-----------------------------------------------------------------------------
(* flushLoop: a wake-up or the ticker leads to a flush.                    *)
Woken ==
    /\ fpc = "select" /\ flushCh = 1
    /\ flushCh' = 0 /\ fpc' = "flush"
    /\ UNCHANGED <<buffer, batch, stored, gone>>

FlushTicker ==
    /\ fpc = "select" /\ buffer # <<>>
    /\ fpc' = "flush"
    /\ UNCHANGED <<buffer, flushCh, batch, stored, gone>>

(* flush: the buffer is copied and emptied under the lock.                 *)
Take ==
    /\ fpc = "flush"
    /\ \/ buffer = <<>> /\ fpc' = "select" /\ UNCHANGED <<batch, buffer>>
       \/ buffer # <<>> /\ fpc' = "insert" /\ batch' = buffer /\ buffer' = <<>>
    /\ UNCHANGED <<flushCh, stored, gone>>

Rest ==
    /\ batch' = Tail(batch)
    /\ fpc' = IF Len(batch) = 1 THEN "select" ELSE "insert"
    /\ UNCHANGED <<buffer, flushCh>>

(* Mutant: inserts the newest event first.                                 *)
InsertLast ==
    /\ fpc = "insert"
    /\ stored' = Append(stored, batch[Len(batch)])
    /\ batch' = SubSeq(batch, 1, Len(batch) - 1)
    /\ fpc' = IF Len(batch) = 1 THEN "select" ELSE "insert"
    /\ UNCHANGED <<buffer, flushCh, gone>>

Insert ==
    /\ fpc = "insert"
    /\ stored' = Append(stored, Head(batch)) /\ UNCHANGED gone
    /\ Rest

(* Mutant: the first failure ends the flush.                               *)
InsertFailsForAll ==
    /\ fpc = "insert" /\ Cardinality(gone) < MaxFails
    /\ gone' = gone \cup {Head(batch)} /\ UNCHANGED stored
    /\ batch' = <<>> /\ fpc' = "select"
    /\ UNCHANGED <<buffer, flushCh>>

InsertFails ==
    /\ fpc = "insert" /\ Cardinality(gone) < MaxFails
    /\ gone' = gone \cup {Head(batch)} /\ UNCHANGED stored
    /\ Rest

Flusher == Woken \/ FlushTicker \/ Take \/ Insert \/ InsertFails

(* The process ends: nobody waits for the flusher, neither at a crash nor  *)
(* at a shutdown, where the process exits after Stop closed stopCh or      *)
(* without calling it.  A new one starts with an empty buffer.             *)
AuditLost ==
    /\ gone' = gone \cup ToSet(batch) \cup ToSet(buffer)
    /\ buffer' = <<>> /\ batch' = <<>> /\ flushCh' = 0 /\ fpc' = "select"
    /\ UNCHANGED stored

-----------------------------------------------------------------------------
AuditTypeOK ==
    /\ buffer \in Seq(Events) /\ batch \in Seq(Events) /\ stored \in Seq(Events)
    /\ flushCh \in {0, 1}
    /\ fpc \in {"select", "flush", "insert"} /\ (fpc = "insert" <=> batch # <<>>)
    /\ gone \subseteq Events

(* The events that are stored or on their way, in the order of their ids.  *)
Trail == stored \o batch \o buffer

(* The trail of a request starts with its "request" event, unless that is  *)
(* one whose insert failed: however requests interleave and wherever the   *)
(* flusher cuts the buffer, rows appear in the order of the events         *)
(* (audit.go:108-125, 299-333).                                            *)
RequestComesFirst ==
    \A j \in 1..Len(Trail) : Trail[j].type = "response" =>
        \/ \E i \in 1..(j - 1) : Trail[i] = Event(Trail[j].of, "request")
        \/ Event(Trail[j].of, "request") \in gone
=============================================================================

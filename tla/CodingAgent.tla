----------------------------- MODULE CodingAgent -----------------------------
(***************************************************************************)
(* hive-server-go/coding_agent.go and the coding_agent tables of db.go: one *)
(* session of the coding agent, as concurrent HTTP requests (handlers.go)  *)
(* find, use, compress, archive and delete it.                             *)
(*                                                                         *)
(* The manager keeps a cache of session objects in front of the database.  *)
(* Only the cache map is locked: session objects are shared by pointer,    *)
(* and every statement of the database is a step of its own, so requests   *)
(* interleave between any two of them, and between what a statement is     *)
(* given (the time of a message, the status of a session) and its          *)
(* execution.  Every statement may fail.  A message stands for itself, a   *)
(* summary for the messages it was made from.  Messages are of any length, *)
(* so the tokens counted are left out: any message may pass the threshold. *)
(* What the model answers and how a job is run is left to JobQueue: here a *)
(* call succeeds, fails or times out.                                      *)
(***************************************************************************)
EXTENDS Integers, FiniteSets

CONSTANTS
    Reqs,              \* concurrent HTTP requests
    Budgets,           \* how many events of each kind there may be
    RecentMessageKeep, \* the constant of that name
    None

(* The handlers that only read (the session, its context) are GetSession   *)
(* alone, and leave what a send that is refused after it leaves.           *)
Ops == {"create", "send", "archive", "delete"}
Statuses == {"active", "archived"}

(* What a behaviour has a bounded number of: requests, messages that their *)
(* client sends as "system", failures of statements, crashes.              *)
Events == Ops \cup {"prompt", "failure", "restart"}

ASSUME BudgetAssumption == Budgets \subseteq [Events -> Nat]
ASSUME KeepAssumption == RecentMessageKeep \in Nat \ {0}
(* There is one session: its ID is made up once.                           *)
ASSUME SessionAssumption == \A b \in Budgets : b["create"] <= 1
ASSUME ReqsAssumption == IsFiniteSet(Reqs)
ASSUME NilAssumption == None \notin Nat \cup Statuses

VARIABLES
    row,       \* the status in the row of coding_agent_sessions, or None
    msgs,      \* the rows of coding_agent_messages; `at' is created_at, and the ID
    audit,     \* coding_agent_audit: the messages it has an entry for
    cache,     \* cam.sessions: the object cached for the session, or None
    heap,      \* the status of each session object
    pc, op, ptr,   \* of each request: where it is, its operation, its session
    mine,          \* the message it is storing or logging, by its created_at
    snap,          \* its split point, what its summary stands for, the rows to remove
    word,          \* the status its UPDATE is to write
    left,      \* the events that may still come
    clock,     \* the time, as the next created_at
    said,      \* ghost: the messages stored since the session was created
    unlogged,  \* ghost: stored messages without an audit entry, see Traceable
    deleted,   \* ghost: the session was deleted
    raced,     \* ghost: some deletion overlapped another request
    twins,     \* ghost: a session was read back while another object was in use
    late,      \* ghost: an UPDATE was under way when the session was archived
    disturbed  \* ghost: the messages before a split point changed, see NothingForgotten

reqVars == <<pc, op, ptr, mine, snap, word>>
dbVars == <<row, msgs, audit>>
ghosts == <<said, unlogged, deleted, raced, twins, late, disturbed>>
vars == <<dbVars, cache, heap, reqVars, left, clock, ghosts>>

Objs == 0 .. Cardinality(Reqs)
NoSnap == [split |-> 0, stands |-> {}, doomed |-> {}]
NoMessage == 0

StandsFor(S) == UNION {m.stands : m \in S}

Init ==
    /\ row = None /\ msgs = {} /\ audit = {}
    /\ cache = None /\ heap = [o \in Objs |-> "active"]
    /\ pc = [r \in Reqs |-> "idle"] /\ op = [r \in Reqs |-> None]
    /\ ptr = [r \in Reqs |-> None] /\ mine = [r \in Reqs |-> NoMessage]
    /\ snap = [r \in Reqs |-> NoSnap] /\ word = [r \in Reqs |-> None]
    /\ left \in Budgets /\ clock = 1
    /\ said = {} /\ unlogged = {} /\ deleted = FALSE /\ raced = FALSE
    /\ twins = FALSE /\ late = FALSE /\ disturbed = FALSE

-----------------------------------------------------------------------------
Goto(r, l) == pc' = [pc EXCEPT ![r] = l]

(* An event of which there is a bounded number.                            *)
Happens(e) == left[e] > 0 /\ left' = [left EXCEPT ![e] = @ - 1]

(* A statement of the database fails, or does not.                         *)
Fails == Happens("failure")
Works == UNCHANGED left

(* The session objects in use.                                             *)
Held == ({ptr[r] : r \in Reqs} \cup {cache}) \ {None}

(* An object nobody points to any more.                                    *)
FreshObj == CHOOSE o \in Objs : o \notin Held

(* The handler returns.                                                    *)
Return(r) ==
    /\ Goto(r, "idle")
    /\ op' = [op EXCEPT ![r] = None] /\ ptr' = [ptr EXCEPT ![r] = None]
    /\ mine' = [mine EXCEPT ![r] = NoMessage] /\ snap' = [snap EXCEPT ![r] = NoSnap]
    /\ word' = [word EXCEPT ![r] = None]

(* The session is in the cache: CreateSession is done, the others go on.   *)
Found(r, o) ==
    \/ op[r] = "create" /\ Return(r)
    \/ /\ op[r] \in {"send", "archive"}
       /\ Goto(r, IF op[r] = "send" THEN "check" ELSE "mark")
       /\ ptr' = [ptr EXCEPT ![r] = o]
       /\ UNCHANGED <<op, mine, snap, word>>

(* A message is made: its created_at is now, however late it is stored.    *)
Compose(r) == mine' = [mine EXCEPT ![r] = clock] /\ clock' = clock + 1

(* The oldest n messages, as GetCodingAgentMessages orders them.           *)
Before(S, at) == {m \in S : m.at < at}
Oldest(S, n) == {m \in S : Cardinality(Before(S, m.at)) < n}

(* An INSERT into coding_agent_messages.  A message that was overtaken may *)
(* come before the split point of a compression that is under way.         *)
Store(kind, id) ==
    /\ msgs' = msgs \cup {[at |-> id, kind |-> kind, stands |-> {id}]}
    /\ said' = said \cup {id}
    /\ disturbed' = (disturbed \/ \E q \in Reqs :
          pc[q] = "summary" /\ Cardinality(Before(msgs, id)) < snap[q].split)

(* auditLog: a failed insert is only reported.                             *)
AuditLog(id) ==
    \/ Works /\ audit' = audit \cup {id} /\ UNCHANGED unlogged
    \/ Fails /\ unlogged' = unlogged \cup ({id} \cap said) /\ UNCHANGED audit

-----------------------------------------------------------------------------
(* A request arrives; a session ID is known once its row exists.           *)
Request(r) ==
    /\ pc[r] = "idle"
    /\ \E o \in Ops :
          /\ o = "create" \/ row # None \/ deleted
          /\ Happens(o)
          /\ op' = [op EXCEPT ![r] = o]
          /\ Goto(r, CASE o = "create" -> "create"
                       [] o = "delete" -> "uncache"
                       [] OTHER -> "lookup")
    /\ raced' = (raced \/ \E q \in Reqs : pc[q] = "erase")
    /\ UNCHANGED <<dbVars, cache, heap, ptr, mine, snap, word, clock>>
    /\ UNCHANGED <<said, unlogged, deleted, twins, late, disturbed>>

(* CreateSession: the row, the system prompt if there is one (its insert   *)
(* may fail), the cache entry.                                             *)
InsertSession(r) ==
    /\ pc[r] = "create"
    /\ \/ Fails /\ Return(r) /\ UNCHANGED <<row, heap>>
       \/ /\ Works /\ row' = "active"
          /\ ptr' = [ptr EXCEPT ![r] = FreshObj]
          /\ heap' = [heap EXCEPT ![FreshObj] = "active"]
          /\ Goto(r, "compose")
          /\ UNCHANGED <<op, mine, snap, word>>
    /\ UNCHANGED <<msgs, audit, cache, clock, ghosts>>

ComposePrompt(r) ==
    /\ pc[r] = "compose"
    /\ \/ Goto(r, "cache") /\ UNCHANGED <<mine, clock>>
       \/ Goto(r, "prompt") /\ Compose(r)
    /\ UNCHANGED <<dbVars, cache, heap, op, ptr, snap, word, left, ghosts>>

(* CreateSession does not call auditLog.                                   *)
InsertPrompt(r) ==
    /\ pc[r] = "prompt"
    /\ \/ Fails /\ UNCHANGED <<msgs, said, unlogged, disturbed>>
       \/ Works /\ Store("system", mine[r]) /\ unlogged' = unlogged \cup {mine[r]}
    /\ mine' = [mine EXCEPT ![r] = NoMessage]
    /\ Goto(r, "cache")
    /\ UNCHANGED <<row, audit, cache, heap, op, ptr, snap, word, clock>>
    /\ UNCHANGED <<deleted, raced, twins, late>>

(* A mutation: GetSession hands out copies of the cached session.          *)
LookupCopies(r) ==
    /\ pc[r] = "lookup"
    /\ \/ cache # None /\ Found(r, FreshObj) /\ heap' = [heap EXCEPT ![FreshObj] = heap[cache]]
       \/ cache = None /\ Goto(r, "read") /\ UNCHANGED <<op, ptr, mine, snap, word, heap>>
    /\ UNCHANGED <<dbVars, cache, left, clock, ghosts>>

(* GetSession: the cache under the read lock; on a miss the database, and  *)
(* then the cache again under the write lock.                              *)
Lookup(r) ==
    /\ pc[r] = "lookup"
    /\ \/ cache # None /\ Found(r, cache)
       \/ cache = None /\ Goto(r, "read") /\ UNCHANGED <<op, ptr, mine, snap, word>>
    /\ UNCHANGED <<dbVars, cache, heap, left, clock, ghosts>>

(* The row is not there, the query fails, or there is a session.           *)
ReadRow(r) ==
    /\ pc[r] = "read"
    /\ \/ row = None /\ Works /\ Return(r) /\ UNCHANGED <<heap, twins>>
       \/ Fails /\ Return(r) /\ UNCHANGED <<heap, twins>>
       \/ /\ row # None /\ Works
          /\ ptr' = [ptr EXCEPT ![r] = FreshObj]
          /\ heap' = [heap EXCEPT ![FreshObj] = row]
          /\ twins' = (twins \/ Held # {})
          /\ Goto(r, "cache")
          /\ UNCHANGED <<op, mine, snap, word>>
    /\ UNCHANGED <<dbVars, cache, clock>>
    /\ UNCHANGED <<said, unlogged, deleted, raced, late, disturbed>>

PutCache(r) ==
    /\ pc[r] = "cache"
    /\ cache' = ptr[r]
    /\ Found(r, ptr[r])
    /\ UNCHANGED <<dbVars, heap, left, clock, ghosts>>

-----------------------------------------------------------------------------
(* SendMessage.                                                            *)
CheckStatus(r) ==
    /\ pc[r] = "check"
    /\ \/ heap[ptr[r]] # "active" /\ Return(r)
       \/ /\ heap[ptr[r]] = "active"
          /\ Goto(r, "stamp") /\ UNCHANGED <<op, ptr, mine, snap, word>>
    /\ UNCHANGED <<dbVars, cache, heap, left, clock, ghosts>>

ComposeIncoming(r) ==
    /\ pc[r] = "stamp"
    /\ Goto(r, "insert") /\ Compose(r)
    /\ UNCHANGED <<dbVars, cache, heap, op, ptr, snap, word, left, ghosts>>

(* The role is the client's choice, "system" too.  The insert also fails   *)
(* when two messages of a session get their ID in the same millisecond.    *)
InsertIncoming(r) ==
    /\ pc[r] = "insert"
    /\ \/ Fails /\ Return(r) /\ UNCHANGED <<msgs, said, disturbed>>
       \/ /\ \/ Works /\ Store("talk", mine[r])
             \/ Happens("prompt") /\ Store("system", mine[r])
          /\ Goto(r, "log")
          /\ UNCHANGED <<op, ptr, mine, snap, word>>
    /\ UNCHANGED <<row, audit, cache, heap, clock>>
    /\ UNCHANGED <<unlogged, deleted, raced, twins, late>>

(* maybeCompress: the tokens pass the threshold or not.                    *)
MaybeCompress(r) == Goto(r, "compress") \/ Goto(r, "call")

(* A mutation: the prompt is not logged.                                   *)
LogNothing(r) ==
    /\ pc[r] = "log"
    /\ mine' = [mine EXCEPT ![r] = NoMessage]
    /\ MaybeCompress(r)
    /\ UNCHANGED <<dbVars, cache, heap, op, ptr, snap, word, left, clock, ghosts>>

LogIncoming(r) ==
    /\ pc[r] = "log"
    /\ AuditLog(mine[r])
    /\ mine' = [mine EXCEPT ![r] = NoMessage]
    /\ MaybeCompress(r)
    /\ UNCHANGED <<row, msgs, cache, heap, op, ptr, snap, word, clock>>
    /\ UNCHANGED <<said, deleted, raced, twins, late, disturbed>>

(* The loop of compressContext: up to the RecentMessageKeep-th message,    *)
(* counted from the oldest, that is not a system prompt, or past the last  *)
(* system prompt when there are not so many.  The result is the number of  *)
(* messages before the split point.                                        *)
Split(S) ==
    LET others == {m \in S : m.kind # "system"}
        stop == {m \in others : Cardinality(Before(others, m.at)) = RecentMessageKeep - 1}
    IN  IF stop # {} THEN Cardinality({m \in S : \E k \in stop : m.at < k.at})
        ELSE Cardinality({m \in S : \E k \in S : k.kind = "system" /\ m.at <= k.at})

(* What a split point splits off: all before it but the first message.     *)
Middle(S, n) == Oldest(S, n) \ Oldest(S, 1)

(* compressContext up to its call of Ollama: everything between the first  *)
(* message and the split point goes into the prompt of the summary.  There *)
(* may be too few messages, or they cannot be read.                        *)
CompressRead(r) ==
    /\ pc[r] = "compress"
    /\ \/ Goto(r, "call") /\ UNCHANGED snap
       \/ /\ Cardinality(msgs) > RecentMessageKeep + 2 /\ Split(msgs) > 1
          /\ snap' = [snap EXCEPT ![r] =
                [split |-> Split(msgs), stands |-> StandsFor(Middle(msgs, Split(msgs))), doomed |-> {}]]
          /\ Goto(r, "summary")
    /\ UNCHANGED <<dbVars, cache, heap, op, ptr, mine, word, left, clock, ghosts>>

(* A mutation: one message more is removed than was summarised.            *)
CompressRereadOneMore(r) ==
    /\ pc[r] = "summary"
    /\ snap' = [snap EXCEPT ![r].split = 0, ![r].doomed = Middle(msgs, snap[r].split + 1)]
    /\ Goto(r, IF Middle(msgs, snap[r].split + 1) = {} THEN "call" ELSE "cut")
    /\ UNCHANGED <<dbVars, cache, heap, op, ptr, mine, word, left, clock, ghosts>>

(* Ollama has answered: CompressCodingAgentMessages reads the messages     *)
(* again, and of these it is to remove as many as the split point says, if *)
(* there are any.                                                          *)
CompressReread(r) ==
    /\ pc[r] = "summary"
    /\ \/ /\ Middle(msgs, snap[r].split) = {}
          /\ snap' = [snap EXCEPT ![r] = NoSnap] /\ Goto(r, "call")
       \/ /\ Middle(msgs, snap[r].split) # {}
          /\ snap' = [snap EXCEPT ![r] =
                [split |-> 0, stands |-> snap[r].stands, doomed |-> Middle(msgs, snap[r].split)]]
          /\ Goto(r, "cut")
    /\ UNCHANGED <<dbVars, cache, heap, op, ptr, mine, word, left, clock, ghosts>>

ComposeSummary(r) ==
    /\ pc[r] = "cut"
    /\ Goto(r, "commit") /\ Compose(r)
    /\ UNCHANGED <<dbVars, cache, heap, op, ptr, snap, word, left, ghosts>>

(* The messages are exchanged for the summary in one transaction.  (The    *)
(* summary is logged too; that entry is of no message.)                    *)
CompressApply(r) ==
    /\ pc[r] = "commit"
    /\ msgs' = (msgs \ snap[r].doomed)
                 \cup {[at |-> mine[r], kind |-> "summary", stands |-> snap[r].stands]}
    /\ disturbed' = (disturbed \/ \E q \in Reqs : pc[q] = "summary")
    /\ snap' = [snap EXCEPT ![r] = NoSnap] /\ mine' = [mine EXCEPT ![r] = NoMessage]
    /\ Goto(r, "call")
    /\ UNCHANGED <<row, audit, cache, heap, op, ptr, word, left, clock>>
    /\ UNCHANGED <<said, unlogged, deleted, raced, twins, late>>

(* The call of Ollama, a read or the transaction fails.                    *)
CompressFails(r) ==
    /\ pc[r] \in {"summary", "commit"}
    /\ snap' = [snap EXCEPT ![r] = NoSnap] /\ mine' = [mine EXCEPT ![r] = NoMessage]
    /\ Goto(r, "call")
    /\ UNCHANGED <<dbVars, cache, heap, op, ptr, word, left, clock, ghosts>>

(* buildOllamaMessages and Submit: the queue takes the job or, when it is  *)
(* full, a peer that the mesh knows, or Ollama is called directly, as it   *)
(* is when the peer fails.  The response arrives, and a message is made of *)
(* it, ...                                                                 *)
Answered(r) ==
    /\ pc[r] = "call"
    /\ Goto(r, "answer") /\ Compose(r)
    /\ UNCHANGED <<dbVars, cache, heap, op, ptr, snap, word, left, ghosts>>

(* ... or the messages cannot be read, the job fails, or 600 s are over:   *)
(* the request fails with its message stored and counted.                  *)
Unanswered(r) ==
    /\ pc[r] = "call"
    /\ Return(r)
    /\ UNCHANGED <<dbVars, cache, heap, left, clock, ghosts>>

(* finishMessage: the answer is stored (a failure is only reported), ...   *)
InsertAnswer(r) ==
    /\ pc[r] = "answer"
    /\ \/ Works /\ Store("talk", mine[r])
       \/ Fails /\ UNCHANGED <<msgs, said, disturbed>>
    /\ Goto(r, "finish")
    /\ UNCHANGED <<row, audit, cache, heap, op, ptr, mine, snap, word, clock>>
    /\ UNCHANGED <<unlogged, deleted, raced, twins, late>>

(* ... and logged, the session is written to its row, ...                  *)
LogAnswer(r) ==
    /\ pc[r] = "finish"
    /\ AuditLog(mine[r])
    /\ mine' = [mine EXCEPT ![r] = NoMessage]
    /\ Goto(r, "save")
    /\ UNCHANGED <<row, msgs, cache, heap, op, ptr, snap, word, clock>>
    /\ UNCHANGED <<said, deleted, raced, twins, late, disturbed>>

(* ... and put into the cache, whatever became of it meanwhile.            *)
Recache(r) ==
    /\ pc[r] = "recache"
    /\ cache' = ptr[r]
    /\ Return(r)
    /\ UNCHANGED <<dbVars, heap, left, clock, ghosts>>

(* UpdateCodingAgentSession: the status is read from the object, with no   *)
(* lock, ...                                                               *)
ReadStatus(r) ==
    /\ pc[r] = "save"
    /\ word' = [word EXCEPT ![r] = heap[ptr[r]]]
    /\ Goto(r, "write")
    /\ UNCHANGED <<dbVars, cache, heap, op, ptr, mine, snap, left, clock, ghosts>>

(* ... and then the statement runs, on a row that may be gone.  SendMessage *)
(* goes on even when it fails, ArchiveSession is done.                     *)
UpdateRow(r) ==
    /\ pc[r] = "write"
    /\ \/ Works /\ row' = IF row = None THEN None ELSE word[r]
       \/ Fails /\ UNCHANGED row
    /\ \/ op[r] = "archive" /\ Return(r)
       \/ /\ op[r] = "send"
          /\ Goto(r, "recache") /\ word' = [word EXCEPT ![r] = None]
          /\ UNCHANGED <<op, ptr, mine, snap>>
    /\ UNCHANGED <<msgs, audit, cache, heap, clock, ghosts>>

-----------------------------------------------------------------------------
(* ArchiveSession: the object, then the row.                               *)
MarkArchived(r) ==
    /\ pc[r] = "mark"
    /\ heap' = [heap EXCEPT ![ptr[r]] = "archived"]
    /\ late' = (late \/ \E q \in Reqs : pc[q] = "write" /\ word[q] = "active")
    /\ Goto(r, "save")
    /\ UNCHANGED <<dbVars, cache, op, ptr, mine, snap, word, left, clock>>
    /\ UNCHANGED <<said, unlogged, deleted, raced, twins, disturbed>>

(* DeleteSession: the cache entry, then the three tables in one            *)
(* transaction, which may fail.                                            *)
Uncache(r) ==
    /\ pc[r] = "uncache"
    /\ cache' = None
    /\ raced' = (raced \/ \E q \in Reqs \ {r} : pc[q] # "idle")
    /\ Goto(r, "erase")
    /\ UNCHANGED <<dbVars, heap, op, ptr, mine, snap, word, left, clock>>
    /\ UNCHANGED <<said, unlogged, deleted, twins, late, disturbed>>

(* A mutation: the transaction leaves the messages.                        *)
EraseSession(r) ==
    /\ pc[r] = "erase"
    /\ row' = None /\ audit' = {}
    /\ deleted' = (deleted \/ row # None)
    /\ Return(r)
    /\ UNCHANGED <<msgs, said, unlogged, disturbed, cache, heap, left, clock, raced, twins, late>>

Erase(r) ==
    /\ pc[r] = "erase"
    /\ \/ Fails /\ UNCHANGED <<dbVars, said, unlogged, deleted, disturbed>>
       \/ /\ Works
          /\ row' = None /\ msgs' = {} /\ audit' = {} /\ said' = {} /\ unlogged' = {}
          /\ deleted' = (deleted \/ row # None)
          /\ disturbed' = (disturbed \/ \E q \in Reqs : pc[q] = "summary")
    /\ Return(r)
    /\ UNCHANGED <<cache, heap, clock, raced, twins, late>>

(* The server dies and comes back with the database and an empty cache.    *)
Restart ==
    /\ row # None /\ Happens("restart")
    /\ cache' = None /\ heap' = [o \in Objs |-> "active"]
    /\ pc' = [r \in Reqs |-> "idle"] /\ op' = [r \in Reqs |-> None]
    /\ ptr' = [r \in Reqs |-> None] /\ mine' = [r \in Reqs |-> NoMessage]
    /\ snap' = [r \in Reqs |-> NoSnap] /\ word' = [r \in Reqs |-> None]
    /\ unlogged' = unlogged \cup (said \cap {mine[r] : r \in {q \in Reqs : pc[q] \in {"log", "finish"}}})
    /\ UNCHANGED <<dbVars, clock, said, deleted, raced, twins, late, disturbed>>

Compress(r) ==
    CompressRead(r) \/ CompressReread(r) \/ ComposeSummary(r) \/ CompressApply(r) \/ CompressFails(r)

Send(r) ==
    \/ CheckStatus(r) \/ ComposeIncoming(r) \/ InsertIncoming(r) \/ LogIncoming(r)
    \/ Compress(r)
    \/ Answered(r) \/ Unanswered(r)
    \/ InsertAnswer(r) \/ LogAnswer(r) \/ Recache(r)

Step(r) ==
    \/ InsertSession(r) \/ ComposePrompt(r) \/ InsertPrompt(r)
    \/ Lookup(r) \/ ReadRow(r) \/ PutCache(r)
    \/ Send(r)
    \/ ReadStatus(r) \/ UpdateRow(r)
    \/ MarkArchived(r) \/ Uncache(r) \/ Erase(r)

Next == Restart \/ \E r \in Reqs : Request(r) \/ Step(r)

Spec == Init /\ [][Next]_vars

-----------------------------------------------------------------------------
Places ==
    {"idle", "create", "compose", "prompt", "lookup", "read", "cache", "check", "stamp", "insert",
     "log", "compress", "summary", "cut", "commit", "call", "answer", "finish",
     "save", "write", "recache", "mark", "uncache", "erase"}

Stamps == 1 .. clock - 1
Messages == [at : Stamps, kind : {"system", "talk", "summary"}, stands : SUBSET Stamps]

TypeOK ==
    /\ row \in Statuses \cup {None}
    /\ msgs \subseteq Messages
    /\ audit \subseteq Stamps /\ said \subseteq Stamps /\ unlogged \subseteq said
    /\ cache \in Objs \cup {None}
    /\ heap \in [Objs -> Statuses]
    /\ pc \in [Reqs -> Places] /\ op \in [Reqs -> Ops \cup {None}]
    /\ ptr \in [Reqs -> Objs \cup {None}]
    /\ mine \in [Reqs -> Stamps \cup {NoMessage}]
    /\ snap \in [Reqs -> [split : Nat, stands : SUBSET Stamps, doomed : SUBSET Messages]]
    /\ word \in [Reqs -> Statuses \cup {None}]
    /\ left \in [Events -> Nat]

(* Every message stored in the session is still there or is accounted for  *)
(* by a summary, through crashes, failed statements, prompts among the     *)
(* messages and messages stored while a summary is made or exchanged.  The *)
(* exceptions are those the code has, because the split point is a         *)
(* position that is used again after the call of Ollama: another           *)
(* compression or a deletion cut the messages during that call, or a       *)
(* message that was overtaken (its created_at is read before its INSERT)   *)
(* came to lie before the split point (coding_agent.go:206-212, 482-588,   *)
(* db.go:584-632).  And the state has its types.                           *)
NothingForgotten == TypeOK /\ (~disturbed => said \subseteq StandsFor(msgs))

(* An archived session stays archived, whatever other requests write back, *)
(* in the two cases where they could not but overwrite it excepted: an     *)
(* UPDATE that had read "active" was under way when the session was        *)
(* marked, or a session was read back from the database while another      *)
(* object of it was in use (coding_agent.go:157-175, 318, 591-598,         *)
(* db.go:504-511).                                                         *)
ArchivedStays ==
    [][row = "archived" /\ row' # None => row' = "archived" \/ late \/ twins]_vars

(* Every message stored has an entry in the audit log, or a request is     *)
(* about to write it, crashes included.  The exceptions are the system     *)
(* prompt of the session, which CreateSession stores and never logs,       *)
(* messages whose own entry failed, which is only reported, and those that *)
(* a request was about to log when the server died, which nothing makes    *)
(* good (coding_agent.go:129-144, 219, 312, 679-681).                      *)
Traceable ==
    said \subseteq audit \cup unlogged
                     \cup {mine[r] : r \in {q \in Reqs : pc[q] \in {"log", "finish"}}}

(* A session deleted while no other request was at work stays deleted:     *)
(* neither the cache nor a table has anything of it, and no later request  *)
(* brings it back.  A request that overlaps the deletion does: it stores   *)
(* its answer and caches the session again (coding_agent.go:294-327, 602,  *)
(* db.go:514-534).                                                         *)
DeletedStaysDeleted ==
    deleted /\ ~raced => row = None /\ cache = None /\ msgs = {} /\ audit = {}
=============================================================================

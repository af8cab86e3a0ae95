------------------------- MODULE CodingAgentProofs -------------------------
(***************************************************************************)
(* Proofs about CodingAgent: what is said is not forgotten and is logged,  *)
(* and archived and deleted sessions stay so, for any number of requests   *)
(* at a time, any number of messages, of failures and of crashes.          *)
(***************************************************************************)
EXTENDS CodingAgent, FiniteSetTheorems, TLAPS

(* The places where a request holds no session object, and those where it  *)
(* has a message in hand.                                                  *)
Empty == {"idle", "create", "lookup", "read", "uncache", "erase"}
Making == {"prompt", "insert", "log", "commit", "answer", "finish"}

Snaps == [split : Nat, stands : SUBSET Stamps, doomed : SUBSET Messages]

(* The types, and what a request has at which place.                       *)
RequestTypes ==
    /\ pc \in [Reqs -> Places] /\ op \in [Reqs -> Ops \cup {None}]
    /\ ptr \in [Reqs -> Objs \cup {None}]
    /\ mine \in [Reqs -> Stamps \cup {NoMessage}]
    /\ snap \in [Reqs -> Snaps]
    /\ word \in [Reqs -> Statuses \cup {None}]
    /\ \A r \in Reqs : /\ ptr[r] = None <=> pc[r] \in Empty
                       /\ pc[r] \in Making => mine[r] \in Stamps
                       /\ pc[r] = "write" => word[r] \in Statuses

StoreTypes ==
    /\ row \in Statuses \cup {None}
    /\ msgs \subseteq Messages /\ IsFiniteSet(msgs)
    /\ audit \subseteq Stamps /\ said \subseteq Stamps /\ unlogged \subseteq said
    /\ cache \in Objs \cup {None} /\ heap \in [Objs -> Statuses]
    /\ left \in [Events -> Nat] /\ clock \in Nat \ {0}

ShapeInv == RequestTypes /\ StoreTypes

(* Undisturbed, a split point still splits off what it was made from, and  *)
(* only rows that the summary stands for are to be removed.                *)
SplitInv ==
    ~disturbed =>
        /\ said \subseteq StandsFor(msgs)
        /\ \A r \in Reqs : pc[r] = "summary" =>
              snap[r].split > 1 /\ snap[r].stands = StandsFor(Middle(msgs, snap[r].split))
        /\ \A r \in Reqs : pc[r] \in {"cut", "commit"} => StandsFor(snap[r].doomed) \subseteq snap[r].stands

(* Before the session is created there is nothing else.                    *)
Unborn == row = None /\ cache = None /\ ~deleted
BirthInv ==
    /\ left["create"] <= 1
    /\ left["create"] = 1 => Unborn /\ \A r \in Reqs : pc[r] = "idle"
    /\ \A r \in Reqs : pc[r] = "create" =>
          left["create"] = 0 /\ Unborn /\ \A q \in Reqs \ {r} : pc[q] = "idle"

(* A deletion that nothing overlaps is alone, and leaves nothing that a    *)
(* later request could find.                                               *)
DeleteInv ==
    ~raced =>
        /\ \A r \in Reqs : pc[r] = "erase" => cache = None /\ \A q \in Reqs \ {r} : pc[q] = "idle"
        /\ deleted =>
              /\ row = None /\ cache = None /\ msgs = {} /\ audit = {}
              /\ \A r \in Reqs : pc[r] \in Empty

(* Without twins all share one object; that one is archived before the row *)
(* is, and no UPDATE is to write anything older.                           *)
ObjectInv ==
    ~twins =>
        /\ \A a, b \in Held : a = b
        /\ ~late =>
              /\ row = "archived" => \A a \in Held : heap[a] = "archived"
              /\ \A r \in Reqs : pc[r] = "write" => word[r] = heap[ptr[r]]

-----------------------------------------------------------------------------
(* The operators of the model.                                             *)

(* There is always an object left for a request that holds none.           *)
LEMMA FreshIsFree ==
    ASSUME ShapeInv, NEW r \in Reqs, ptr[r] = None
    PROVE  FreshObj \in Objs /\ FreshObj \notin Held
  <1> DEFINE Others == Reqs \ {r}
             Pointers == {ptr[q] : q \in Others}
             Used == Pointers \cup {cache}
             n == Cardinality(Reqs)
  <1>1. IsFiniteSet(Others) /\ Cardinality(Others) = n - 1 /\ n \in Nat
    BY ReqsAssumption, FS_RemoveElement, FS_CardinalityType
  <1>2. IsFiniteSet(Pointers) /\ Cardinality(Pointers) <= n - 1
    <2> DEFINE f == [q \in Others |-> ptr[q]]
    <2>1. f \in Surjection(Others, Pointers)
      BY DEF Surjection
    <2> QED BY <1>1, <2>1, FS_Surjection
  <1>3. IsFiniteSet(Used) /\ Cardinality(Used) <= n
    <2>1. IsFiniteSet(Used) /\ (Cardinality(Used) = Cardinality(Pointers)
             \/ Cardinality(Used) = Cardinality(Pointers) + 1)
      BY <1>2, FS_AddElement
    <2>2. Cardinality(Pointers) \in Nat
      BY <1>2, FS_CardinalityType
    <2> QED BY <1>1, <1>2, <2>1, <2>2
  <1>4. Cardinality(0 .. n) = n + 1
    BY <1>1, FS_Interval
  <1>5. ~(0 .. n \subseteq Used)
    <2>1. 0 .. n \subseteq Used => Cardinality(0 .. n) <= Cardinality(Used)
      BY <1>3, FS_Subset
    <2>2. Cardinality(Used) \in Nat
      BY <1>3, FS_CardinalityType
    <2> QED BY <1>1, <1>3, <1>4, <2>1, <2>2
  <1>6. PICK o \in 0 .. n : o \notin Used
    BY <1>5
  <1>7. o \in Objs /\ o \notin Held
    BY <1>1, <1>6, NilAssumption DEF Objs, Held
  <1> QED BY <1>7 DEF FreshObj

(* A message that comes after the oldest n does not change them.           *)
LEMMA OldestKept ==
    ASSUME NEW S, IsFiniteSet(S), \A m \in S : m.at \in Int,
           NEW e, e.at \in Int, NEW n \in Nat, ~(Cardinality(Before(S, e.at)) < n)
    PROVE  Oldest(S \cup {e}, n) = Oldest(S, n)
  <1> DEFINE T == S \cup {e}
  <1>1. IsFiniteSet(T)
    BY FS_AddElement
  <1>2. \A x : IsFiniteSet(Before(S, x)) /\ Cardinality(Before(S, x)) \in Nat
    <2>1. ASSUME NEW x PROVE IsFiniteSet(Before(S, x)) /\ Cardinality(Before(S, x)) \in Nat
      <3>1. Before(S, x) \subseteq S
        BY DEF Before
      <3> QED BY <3>1, FS_Subset, FS_CardinalityType
    <2> QED BY <2>1
  <1>3. \A x : IsFiniteSet(Before(T, x)) /\ Cardinality(Before(T, x)) \in Nat
    <2>1. ASSUME NEW x PROVE IsFiniteSet(Before(T, x)) /\ Cardinality(Before(T, x)) \in Nat
      <3>1. Before(T, x) \subseteq T
        BY DEF Before
      <3> QED BY <1>1, <3>1, FS_Subset, FS_CardinalityType
    <2> QED BY <2>1
  <1>4. ASSUME NEW x, ~(e.at < x) PROVE Before(T, x) = Before(S, x)
    BY <1>4 DEF Before
  <1>5. e \notin Oldest(T, n)
    BY <1>4 DEF Oldest
  <1>6. ASSUME NEW m \in S, m \in Oldest(T, n) PROVE m \in Oldest(S, n)
    <2>1. Before(S, m.at) \subseteq Before(T, m.at)
      BY DEF Before
    <2>2. Cardinality(Before(S, m.at)) <= Cardinality(Before(T, m.at))
      BY <1>3, <2>1, FS_Subset
    <2>3. Cardinality(Before(T, m.at)) < n
      BY <1>6 DEF Oldest
    <2>4. Cardinality(Before(S, m.at)) < n
      BY <1>2, <1>3, <2>2, <2>3
    <2> QED BY <2>4 DEF Oldest
  <1>7. ASSUME NEW m \in Oldest(S, n) PROVE m \in Oldest(T, n)
    <2>1. m \in S /\ Cardinality(Before(S, m.at)) < n
      BY DEF Oldest
    <2>2. ~(e.at < m.at)
      <3>1. ASSUME e.at < m.at PROVE FALSE
        <4>1. Before(S, e.at) \subseteq Before(S, m.at)
          BY <2>1, <3>1 DEF Before
        <4>2. Cardinality(Before(S, e.at)) <= Cardinality(Before(S, m.at))
          BY <1>2, <4>1, FS_Subset
        <4> QED BY <1>2, <2>1, <4>2
      <3> QED BY <3>1
    <2>3. Before(T, m.at) = Before(S, m.at)
      BY <1>4, <2>2
    <2> QED BY <2>1, <2>3 DEF Oldest
  <1>8. \A m : m \in Oldest(T, n) => m \in T
    BY DEF Oldest
  <1> QED BY <1>5, <1>6, <1>7, <1>8

LEMMA MiddleKept ==
    ASSUME NEW S, IsFiniteSet(S), \A m \in S : m.at \in Int,
           NEW e, e.at \in Int, NEW n \in Nat, n > 1, ~(Cardinality(Before(S, e.at)) < n)
    PROVE  Middle(S \cup {e}, n) = Middle(S, n)
  <1>1. Oldest(S \cup {e}, n) = Oldest(S, n)
    BY OldestKept
  <1>2. Cardinality(Before(S, e.at)) \in Nat
    <2>1. Before(S, e.at) \subseteq S
      BY DEF Before
    <2> QED BY <2>1, FS_Subset, FS_CardinalityType
  <1>3. ~(Cardinality(Before(S, e.at)) < 1)
    BY <1>2
  <1>4. Oldest(S \cup {e}, 1) = Oldest(S, 1)
    BY <1>3, OldestKept
  <1> QED BY <1>1, <1>4 DEF Middle

LEMMA MiddleIn == \A S, n : Middle(S, n) \subseteq S
  BY DEF Middle, Oldest

LEMMA SplitType ==
    ASSUME NEW S, IsFiniteSet(S)
    PROVE  Split(S) \in Nat
  <1> DEFINE others == {m \in S : m.kind # "system"}
             stop == {m \in others : Cardinality(Before(others, m.at)) = RecentMessageKeep - 1}
             A == {m \in S : \E k \in stop : m.at < k.at}
             B == {m \in S : \E k \in S : k.kind = "system" /\ m.at <= k.at}
  <1>1. Split(S) = IF stop # {} THEN Cardinality(A) ELSE Cardinality(B)
    BY DEF Split
  <1>2. A \subseteq S /\ B \subseteq S
    OBVIOUS
  <1> HIDE DEF stop, A, B
  <1>3. Cardinality(A) \in Nat /\ Cardinality(B) \in Nat
    BY <1>2, FS_Subset, FS_CardinalityType
  <1> QED BY <1>1, <1>3

(* A union with one more message.                                          *)
LEMMA StandsAdd ==
    ASSUME NEW S, NEW e
    PROVE  StandsFor(S \cup {e}) = StandsFor(S) \cup e.stands
  BY DEF StandsFor

LEMMA StandsIn ==
    ASSUME NEW S, S \subseteq Messages
    PROVE  StandsFor(S) \subseteq Stamps
  BY DEF StandsFor, Messages

LEMMA NoneIsNoObject == None \notin Objs /\ None \notin Statuses
  <1>1. Objs \subseteq Nat
    BY ReqsAssumption, FS_CardinalityType DEF Objs
  <1> QED BY <1>1, NilAssumption

LEMMA NoSnapType == NoSnap \in Snaps
  BY DEF NoSnap, Snaps

(* Time goes on, and what was a message stays one.                         *)
LEMMA StampsGrow ==
    ASSUME clock \in Nat \ {0}, clock' = clock \/ clock' = clock + 1
    PROVE  /\ Stamps \subseteq Stamps' /\ Messages \subseteq Messages' /\ Snaps \subseteq Snaps'
           /\ clock' \in Nat \ {0} /\ (clock' = clock + 1 => clock \in Stamps')
  <1>1. /\ Stamps \subseteq Stamps' /\ clock' \in Nat \ {0}
        /\ (clock' = clock + 1 => clock \in Stamps')
    BY DEF Stamps
  <1>2. Messages \subseteq Messages'
    BY <1>1 DEF Messages
  <1>3. Snaps \subseteq Snaps'
    <2>1. SUBSET Stamps \subseteq SUBSET Stamps' /\ SUBSET Messages \subseteq SUBSET Messages'
      BY <1>1, <1>2
    <2> HIDE DEF Stamps, Messages
    <2> QED BY <2>1 DEF Snaps
  <1> QED BY <1>1, <1>2, <1>3

-----------------------------------------------------------------------------
(* A request changes only what is its own, and goes from place to place.   *)
OnlyMine(r) ==
    /\ pc' = [pc EXCEPT ![r] = pc'[r]] /\ op' = [op EXCEPT ![r] = op'[r]]
    /\ ptr' = [ptr EXCEPT ![r] = ptr'[r]] /\ mine' = [mine EXCEPT ![r] = mine'[r]]
    /\ snap' = [snap EXCEPT ![r] = snap'[r]] /\ word' = [word EXCEPT ![r] = word'[r]]

Moves ==
    {<<"idle", "create">>, <<"idle", "uncache">>, <<"idle", "lookup">>,
     <<"create", "idle">>, <<"create", "compose">>, <<"compose", "cache">>, <<"compose", "prompt">>,
     <<"prompt", "cache">>,
     <<"lookup", "idle">>, <<"lookup", "check">>, <<"lookup", "mark">>, <<"lookup", "read">>,
     <<"read", "idle">>, <<"read", "cache">>,
     <<"cache", "idle">>, <<"cache", "check">>, <<"cache", "mark">>,
     <<"check", "idle">>, <<"check", "stamp">>, <<"stamp", "insert">>, <<"insert", "idle">>, <<"insert", "log">>,
     <<"log", "compress">>, <<"log", "call">>, <<"compress", "call">>, <<"compress", "summary">>,
     <<"summary", "call">>, <<"summary", "cut">>, <<"cut", "commit">>, <<"commit", "call">>,
     <<"call", "answer">>, <<"call", "idle">>, <<"answer", "finish">>,
     <<"finish", "save">>, <<"mark", "save">>, <<"save", "write">>, <<"write", "idle">>, <<"write", "recache">>,
     <<"recache", "idle">>, <<"uncache", "erase">>, <<"erase", "idle">>}

LEMMA ReturnMoves ==
    ASSUME RequestTypes, NEW r \in Reqs, Return(r)
    PROVE  /\ OnlyMine(r) /\ pc'[r] = "idle" /\ op'[r] = None /\ ptr'[r] = None
           /\ mine'[r] = NoMessage /\ snap'[r] = NoSnap /\ word'[r] = None
  BY DEF RequestTypes, Return, Goto, OnlyMine

LEMMA FoundMoves ==
    ASSUME RequestTypes, NEW r \in Reqs, NEW o, Found(r, o)
    PROVE  /\ OnlyMine(r)
           /\ \/ pc'[r] = "idle" /\ ptr'[r] = None /\ Return(r)
              \/ /\ pc'[r] \in {"check", "mark"} /\ ptr'[r] = o
                 /\ op'[r] = op[r] /\ mine'[r] = mine[r] /\ snap'[r] = snap[r] /\ word'[r] = word[r]
  <1>1. CASE Return(r)
    BY <1>1, ReturnMoves
  <1>2. CASE ~Return(r)
    BY <1>2 DEF RequestTypes, Found, Goto, OnlyMine
  <1> QED BY <1>1, <1>2

LEMMA StepMoves ==
    ASSUME RequestTypes, NEW r \in Reqs, Request(r) \/ Step(r)
    PROVE  /\ OnlyMine(r) /\ <<pc[r], pc'[r]>> \in Moves
           /\ \A q \in Reqs : q # r =>
                 /\ pc'[q] = pc[q] /\ ptr'[q] = ptr[q] /\ mine'[q] = mine[q]
                 /\ snap'[q] = snap[q] /\ word'[q] = word[q]
  <1> DEFINE Fine == OnlyMine(r) /\ <<pc[r], pc'[r]>> \in Moves
  <1>R. ASSUME Return(r), pc[r] \in {"create", "read", "check", "insert", "call", "recache", "write", "erase"}
        PROVE  Fine
    BY <1>R, ReturnMoves DEF Moves
  <1>G. ASSUME NEW l, Goto(r, l), <<pc[r], l>> \in Moves,
               op' = [op EXCEPT ![r] = op'[r]], ptr' = [ptr EXCEPT ![r] = ptr'[r]],
               mine' = [mine EXCEPT ![r] = mine'[r]], snap' = [snap EXCEPT ![r] = snap'[r]],
               word' = [word EXCEPT ![r] = word'[r]]
        PROVE  Fine
    BY <1>G DEF Goto, OnlyMine, RequestTypes
  <1>O. op' = op => op' = [op EXCEPT ![r] = op'[r]]
    BY DEF RequestTypes
  <1>P. ptr' = ptr => ptr' = [ptr EXCEPT ![r] = ptr'[r]]
    BY DEF RequestTypes
  <1>M. mine' = mine => mine' = [mine EXCEPT ![r] = mine'[r]]
    BY DEF RequestTypes
  <1>S. snap' = snap => snap' = [snap EXCEPT ![r] = snap'[r]]
    BY DEF RequestTypes
  <1>W. word' = word => word' = [word EXCEPT ![r] = word'[r]]
    BY DEF RequestTypes
  <1>1. ASSUME Request(r) PROVE Fine
    <2>1. PICK o \in Ops : /\ op' = [op EXCEPT ![r] = o]
             /\ Goto(r, CASE o = "create" -> "create" [] o = "delete" -> "uncache" [] OTHER -> "lookup")
      BY <1>1 DEF Request
    <2>2. (CASE o = "create" -> "create" [] o = "delete" -> "uncache" [] OTHER -> "lookup")
             \in {"create", "uncache", "lookup"}
      OBVIOUS
    <2>3. PICK l \in {"create", "uncache", "lookup"} : Goto(r, l)
      BY <2>1, <2>2
    <2>4. pc[r] = "idle" /\ UNCHANGED <<ptr, mine, snap, word>>
      BY <1>1 DEF Request
    <2>5. <<pc[r], l>> \in Moves
      BY <2>4 DEF Moves
    <2>6. op' = [op EXCEPT ![r] = op'[r]]
      BY <2>1 DEF RequestTypes
    <2> QED BY <1>G, <1>P, <1>M, <1>S, <1>W, <2>3, <2>4, <2>5, <2>6
  <1>2. ASSUME InsertSession(r) \/ ReadRow(r) PROVE Fine
    <2>1. CASE Return(r)
      BY <1>2, <1>R, <2>1 DEF InsertSession, ReadRow
    <2>2. CASE ~Return(r)
      <3>1. /\ (pc[r] = "create" /\ Goto(r, "compose")) \/ (pc[r] = "read" /\ Goto(r, "cache"))
            /\ ptr' = [ptr EXCEPT ![r] = FreshObj] /\ UNCHANGED <<op, mine, snap, word>>
        BY <1>2, <2>2 DEF InsertSession, ReadRow
      <3>2. ptr' = [ptr EXCEPT ![r] = ptr'[r]]
        BY <3>1 DEF RequestTypes
      <3>3. \/ Goto(r, "compose") /\ <<pc[r], "compose">> \in Moves
            \/ Goto(r, "cache") /\ <<pc[r], "cache">> \in Moves
        BY <3>1 DEF Moves
      <3> QED BY <1>G, <1>O, <1>M, <1>S, <1>W, <3>1, <3>2, <3>3
    <2> QED BY <2>1, <2>2
  <1>3. ASSUME NEW l, Goto(r, l), <<pc[r], l>> \in Moves, UNCHANGED <<op, ptr, snap, word>>,
               \/ UNCHANGED mine \/ mine' = [mine EXCEPT ![r] = clock] \/ mine' = [mine EXCEPT ![r] = NoMessage]
        PROVE  Fine
    <2>1. mine' = [mine EXCEPT ![r] = mine'[r]]
      BY <1>3 DEF RequestTypes
    <2> QED BY <1>G, <1>O, <1>P, <1>S, <1>W, <1>3, <2>1
  <1>4. ASSUME ComposePrompt(r) \/ InsertPrompt(r) PROVE Fine
    <2>1. \/ pc[r] = "compose" /\ Goto(r, "cache")
          \/ pc[r] = "compose" /\ Goto(r, "prompt")
          \/ pc[r] = "prompt" /\ Goto(r, "cache")
      BY <1>4 DEF ComposePrompt, InsertPrompt
    <2>2. \E l : Goto(r, l) /\ <<pc[r], l>> \in Moves
      BY <2>1 DEF Moves
    <2>3. /\ UNCHANGED <<op, ptr, snap, word>>
          /\ \/ UNCHANGED mine \/ mine' = [mine EXCEPT ![r] = clock] \/ mine' = [mine EXCEPT ![r] = NoMessage]
      BY <1>4 DEF ComposePrompt, InsertPrompt, Compose
    <2> QED BY <1>3, <2>2, <2>3
  <1>5. ASSUME Lookup(r) \/ PutCache(r) PROVE Fine
    <2>1. ASSUME NEW o, Found(r, o), pc[r] \in {"lookup", "cache"} PROVE Fine
      BY <2>1, FoundMoves DEF Moves
    <2>2. ASSUME pc[r] = "lookup", Goto(r, "read"), UNCHANGED <<op, ptr, mine, snap, word>> PROVE Fine
      <3>1. <<pc[r], "read">> \in Moves
        BY <2>2 DEF Moves
      <3> QED BY <1>3, <2>2, <3>1
    <2> QED BY <1>5, <2>1, <2>2 DEF Lookup, PutCache
  <1>6. ASSUME CheckStatus(r) \/ InsertIncoming(r) PROVE Fine
    <2>1. CASE Return(r)
      BY <1>6, <1>R, <2>1 DEF CheckStatus, InsertIncoming
    <2>2. CASE ~Return(r)
      <3>1. /\ (pc[r] = "check" /\ Goto(r, "stamp")) \/ (pc[r] = "insert" /\ Goto(r, "log"))
            /\ UNCHANGED <<op, ptr, mine, snap, word>>
        BY <1>6, <2>2 DEF CheckStatus, InsertIncoming
      <3>2. \E l : Goto(r, l) /\ <<pc[r], l>> \in Moves
        BY <3>1 DEF Moves
      <3> QED BY <1>3, <3>1, <3>2
    <2> QED BY <2>1, <2>2
  <1>7. ASSUME ComposeIncoming(r) \/ LogIncoming(r) \/ Answered(r) \/ InsertAnswer(r) \/ LogAnswer(r)
                 \/ ComposeSummary(r) \/ MarkArchived(r) \/ Uncache(r)
        PROVE  Fine
    <2>1. \/ pc[r] = "stamp" /\ Goto(r, "insert")
          \/ pc[r] = "log" /\ Goto(r, "compress")
          \/ pc[r] = "log" /\ Goto(r, "call")
          \/ pc[r] = "call" /\ Goto(r, "answer")
          \/ pc[r] = "answer" /\ Goto(r, "finish")
          \/ pc[r] = "finish" /\ Goto(r, "save")
          \/ pc[r] = "cut" /\ Goto(r, "commit")
          \/ pc[r] = "mark" /\ Goto(r, "save")
          \/ pc[r] = "uncache" /\ Goto(r, "erase")
      BY <1>7 DEF ComposeIncoming, LogIncoming, MaybeCompress, Answered, InsertAnswer, LogAnswer,
              ComposeSummary, MarkArchived, Uncache
    <2>2. \E l : Goto(r, l) /\ <<pc[r], l>> \in Moves
      BY <2>1 DEF Moves
    <2>3. /\ UNCHANGED <<op, ptr, snap, word>>
          /\ \/ UNCHANGED mine \/ mine' = [mine EXCEPT ![r] = clock] \/ mine' = [mine EXCEPT ![r] = NoMessage]
      BY <1>7 DEF ComposeIncoming, LogIncoming, Answered, InsertAnswer, LogAnswer,
              ComposeSummary, MarkArchived, Uncache, Compose
    <2> QED BY <1>3, <2>2, <2>3
  <1>8. ASSUME CompressRead(r) \/ CompressReread(r) \/ CompressApply(r) \/ CompressFails(r) PROVE Fine
    <2>1. \/ pc[r] = "compress" /\ Goto(r, "call")
          \/ pc[r] = "compress" /\ Goto(r, "summary")
          \/ pc[r] = "summary" /\ Goto(r, "call")
          \/ pc[r] = "summary" /\ Goto(r, "cut")
          \/ pc[r] = "commit" /\ Goto(r, "call")
      BY <1>8 DEF CompressRead, CompressReread, CompressApply, CompressFails
    <2>2. \E l : Goto(r, l) /\ <<pc[r], l>> \in Moves
      BY <2>1 DEF Moves
    <2>3. UNCHANGED <<op, ptr, word>> /\ mine' \in {mine, [mine EXCEPT ![r] = NoMessage]}
      BY <1>8 DEF CompressRead, CompressReread, CompressApply, CompressFails
    <2>4. mine' = [mine EXCEPT ![r] = mine'[r]]
      BY <2>3 DEF RequestTypes
    <2>5. snap' = snap \/ \E x : snap' = [snap EXCEPT ![r] = x]
      BY <1>8 DEF CompressRead, CompressReread, CompressApply, CompressFails
    <2>6. snap' = [snap EXCEPT ![r] = snap'[r]]
      BY <2>5 DEF RequestTypes
    <2> QED BY <1>G, <1>O, <1>P, <1>W, <2>2, <2>3, <2>4, <2>6
  <1>9. ASSUME ReadStatus(r) \/ UpdateRow(r) PROVE Fine
    <2>1. CASE Return(r)
      BY <1>9, <1>R, <2>1 DEF ReadStatus, UpdateRow, Return, Goto, RequestTypes
    <2>2. CASE ~Return(r)
      <3>1. /\ (pc[r] = "save" /\ Goto(r, "write")) \/ (pc[r] = "write" /\ Goto(r, "recache"))
            /\ UNCHANGED <<op, ptr, mine, snap>> /\ \E x : word' = [word EXCEPT ![r] = x]
        BY <1>9, <2>2 DEF ReadStatus, UpdateRow
      <3>2. word' = [word EXCEPT ![r] = word'[r]]
        BY <3>1 DEF RequestTypes
      <3>3. \E l : Goto(r, l) /\ <<pc[r], l>> \in Moves
        BY <3>1 DEF Moves
      <3> QED BY <1>G, <1>O, <1>P, <1>M, <1>S, <3>1, <3>2, <3>3
    <2> QED BY <2>1, <2>2
  <1>10. ASSUME Unanswered(r) \/ Recache(r) \/ Erase(r) PROVE Fine
    BY <1>10, <1>R DEF Unanswered, Recache, Erase
  <1>11. Fine
    BY <1>1, <1>2, <1>4, <1>5, <1>6, <1>7, <1>8, <1>9, <1>10 DEF Step, Send, Compress
  <1> QED BY <1>11 DEF OnlyMine, RequestTypes

-----------------------------------------------------------------------------
(* The types.                                                              *)
LEMMA LocalTypes ==
    ASSUME ShapeInv, NEW r \in Reqs, OnlyMine(r), clock' = clock \/ clock' = clock + 1,
           pc'[r] \in Places, op'[r] \in Ops \cup {None}, ptr'[r] \in Objs \cup {None},
           mine'[r] \in Stamps' \cup {NoMessage}, snap'[r] \in Snaps', word'[r] \in Statuses \cup {None},
           ptr'[r] = None <=> pc'[r] \in Empty,
           pc'[r] \in Making => mine'[r] \in Stamps',
           pc'[r] = "write" => word'[r] \in Statuses
    PROVE  RequestTypes'
  <1>1. Stamps \subseteq Stamps' /\ Snaps \subseteq Snaps'
    BY StampsGrow DEF ShapeInv, StoreTypes
  <1>2. pc' \in [Reqs -> Places] /\ op' \in [Reqs -> Ops \cup {None}] /\ ptr' \in [Reqs -> Objs \cup {None}]
    BY DEF ShapeInv, RequestTypes, OnlyMine
  <1>3. mine' \in [Reqs -> Stamps' \cup {NoMessage}]
    BY <1>1 DEF ShapeInv, RequestTypes, OnlyMine
  <1>4. snap' \in [Reqs -> Snaps']
    BY <1>1 DEF ShapeInv, RequestTypes, OnlyMine
  <1>5. word' \in [Reqs -> Statuses \cup {None}]
    BY DEF ShapeInv, RequestTypes, OnlyMine
  <1>6. ASSUME NEW q \in Reqs
        PROVE  /\ ptr'[q] = None <=> pc'[q] \in Empty
               /\ pc'[q] \in Making => mine'[q] \in Stamps'
               /\ pc'[q] = "write" => word'[q] \in Statuses
    <2>1. CASE q # r
      BY <1>1, <2>1 DEF ShapeInv, RequestTypes, OnlyMine
    <2> QED BY <2>1
  <1> QED BY <1>2, <1>3, <1>4, <1>5, <1>6 DEF RequestTypes

LEMMA ReturnTypes ==
    ASSUME ShapeInv, NEW r \in Reqs, Return(r), clock' = clock
    PROVE  RequestTypes'
  <1>1. Snaps \subseteq Snaps'
    BY StampsGrow DEF ShapeInv, StoreTypes
  <1> QED BY <1>1, ReturnMoves, LocalTypes, NoSnapType DEF ShapeInv, Places, Empty, Making

(* A step that leaves the operation, the pointer, the split point and the  *)
(* status alone.                                                           *)
LEMMA PlainTypes ==
    ASSUME ShapeInv, NEW r \in Reqs, Request(r) \/ Step(r), clock' = clock \/ clock' = clock + 1,
           pc'[r] \in Empty <=> pc[r] \in Empty, pc'[r] # "write",
           op'[r] \in Ops \cup {None}, UNCHANGED <<ptr, word>>, snap'[r] \in Snaps',
           \/ mine'[r] = mine[r] /\ (pc'[r] \in Making => pc[r] \in Making)
           \/ mine'[r] = clock /\ clock' = clock + 1
           \/ mine'[r] = NoMessage /\ pc'[r] \notin Making
    PROVE  RequestTypes'
  <1>1. /\ Stamps \subseteq Stamps' /\ Snaps \subseteq Snaps'
        /\ (clock' = clock + 1 => clock \in Stamps')
    BY StampsGrow DEF ShapeInv, StoreTypes
  <1>2. OnlyMine(r) /\ <<pc[r], pc'[r]>> \in Moves
    BY StepMoves DEF ShapeInv
  <1>3. pc'[r] \in Places
    BY <1>2 DEF Moves, Places
  <1>4. /\ ptr'[r] = ptr[r] /\ word'[r] = word[r] /\ ptr[r] \in Objs \cup {None} /\ word[r] \in Statuses \cup {None}
        /\ ptr[r] = None <=> pc[r] \in Empty
        /\ pc[r] \in Making => mine[r] \in Stamps
        /\ mine[r] \in Stamps \cup {NoMessage}
    BY DEF ShapeInv, RequestTypes
  <1>5. mine'[r] \in Stamps' \cup {NoMessage} /\ (pc'[r] \in Making => mine'[r] \in Stamps')
    BY <1>1, <1>4
  <1> QED BY <1>2, <1>3, <1>4, <1>5, LocalTypes

(* A step that leaves the store alone.                                     *)
LEMMA StoreKept ==
    ASSUME StoreTypes, UNCHANGED <<dbVars, cache, heap, left, said, unlogged>>,
           clock' = clock \/ clock' = clock + 1
    PROVE  StoreTypes'
  <1>1. Stamps \subseteq Stamps' /\ Messages \subseteq Messages' /\ clock' \in Nat \ {0}
    BY StampsGrow DEF StoreTypes
  <1> QED BY <1>1 DEF StoreTypes, dbVars

LEMMA LeftTypes ==
    ASSUME left \in [Events -> Nat], UNCHANGED left \/ \E e \in Events : Happens(e)
    PROVE  left' \in [Events -> Nat]
  <1>1. ASSUME NEW e \in Events, Happens(e) PROVE left' \in [Events -> Nat]
    <2>1. left[e] \in Nat /\ left[e] > 0 /\ left' = [left EXCEPT ![e] = left[e] - 1]
      BY <1>1 DEF Happens
    <2>2. left[e] - 1 \in Nat
      BY <2>1
    <2> QED BY <2>1, <2>2
  <1> QED BY <1>1

(* A statement that fails or works.                                        *)
LEMMA TryTypes ==
    ASSUME left \in [Events -> Nat], Fails \/ Works
    PROVE  left' \in [Events -> Nat]
  <1>1. "failure" \in Events
    BY DEF Events
  <1> QED BY <1>1, LeftTypes DEF Fails, Works

(* A message is stored.                                                    *)
LEMMA StoreAdds ==
    ASSUME StoreTypes, NEW kind \in {"system", "talk"}, NEW id \in Stamps, Store(kind, id), clock' = clock
    PROVE  /\ msgs' \subseteq Messages' /\ IsFiniteSet(msgs') /\ said' \subseteq Stamps' /\ said \subseteq said'
           /\ id \in said'
  <1>1. Stamps' = Stamps /\ Messages' = Messages
    BY DEF Stamps, Messages
  <1>2. [at |-> id, kind |-> kind, stands |-> {id}] \in Messages
    BY DEF Messages
  <1>3. msgs' = msgs \cup {[at |-> id, kind |-> kind, stands |-> {id}]} /\ said' = said \cup {id}
    BY DEF Store
  <1>4. IsFiniteSet(msgs')
    BY <1>3, FS_AddElement DEF StoreTypes
  <1> QED BY <1>1, <1>2, <1>3, <1>4 DEF StoreTypes

LEMMA ShapeInit == Init => ShapeInv
  <1> SUFFICES ASSUME Init PROVE ShapeInv
    OBVIOUS
  <1>1. RequestTypes
    BY NoneIsNoObject, NoSnapType DEF Init, RequestTypes, Places, Empty, Making
  <1>2. StoreTypes
    <2>1. left \in [Events -> Nat]
      BY BudgetAssumption DEF Init
    <2>2. msgs \subseteq Messages /\ IsFiniteSet(msgs)
      BY FS_EmptySet DEF Init
    <2>3. heap \in [Objs -> Statuses]
      BY DEF Init, Statuses
    <2>4. /\ row \in Statuses \cup {None} /\ audit \subseteq Stamps /\ said \subseteq Stamps
          /\ unlogged \subseteq said /\ cache \in Objs \cup {None} /\ clock \in Nat \ {0}
      BY DEF Init
    <2> QED BY <2>1, <2>2, <2>3, <2>4 DEF StoreTypes
  <1> QED BY <1>1, <1>2 DEF ShapeInv

LEMMA ShapeNext ==
    ASSUME ShapeInv, [Next]_vars
    PROVE  ShapeInv'
  <1>0. RequestTypes /\ StoreTypes
    BY DEF ShapeInv
  <1>N. clock' = clock => Stamps' = Stamps /\ Messages' = Messages /\ Snaps' = Snaps
    BY DEF Stamps, Messages, Snaps
  <1>S. Snaps \subseteq Snaps' \/ ~(clock' = clock \/ clock' = clock + 1)
    BY <1>0, StampsGrow DEF StoreTypes
  <1>P. \A r \in Reqs : /\ pc[r] \notin Empty => ptr[r] \in Objs
                        /\ pc[r] \in Empty => ptr[r] = None
                        /\ snap[r] \in Snaps /\ op[r] \in Ops \cup {None}
                        /\ pc[r] \in Making => mine[r] \in Stamps
    BY <1>0 DEF RequestTypes
  <1>1. ASSUME NEW r \in Reqs, Request(r) PROVE RequestTypes' /\ StoreTypes'
    <2>1. PICK o \in Ops : Happens(o) /\ op' = [op EXCEPT ![r] = o]
      BY <1>1 DEF Request
    <2>2. /\ pc[r] = "idle" /\ UNCHANGED <<ptr, mine, snap, word, clock>>
          /\ UNCHANGED <<dbVars, cache, heap, said, unlogged>>
      BY <1>1 DEF Request
    <2>3. pc'[r] \in {"create", "uncache", "lookup"}
      BY <1>0, <1>1, <2>2, StepMoves DEF Moves
    <2>4. RequestTypes'
      <3>1. op'[r] \in Ops \cup {None} /\ snap'[r] \in Snaps' /\ mine'[r] = mine[r]
        BY <1>0, <1>N, <2>1, <2>2 DEF RequestTypes
      <3>2. pc[r] \in Empty /\ pc'[r] \in Empty /\ pc'[r] \notin Making /\ pc'[r] # "write"
        BY <2>2, <2>3 DEF Empty, Making
      <3> QED BY <1>1, <2>2, <3>1, <3>2, PlainTypes
    <2>5. left' \in [Events -> Nat]
      BY <1>0, <2>1, LeftTypes DEF StoreTypes, Events
    <2> QED BY <1>0, <1>N, <2>2, <2>4, <2>5 DEF StoreTypes, dbVars
  <1>2. ASSUME NEW r \in Reqs, InsertSession(r) \/ ReadRow(r) PROVE RequestTypes' /\ StoreTypes'
    <2>1. /\ pc[r] \in {"create", "read"} /\ ptr[r] = None
          /\ UNCHANGED <<msgs, audit, cache, clock, said, unlogged>> /\ (Fails \/ Works)
      BY <1>0, <1>2 DEF InsertSession, ReadRow, RequestTypes, Empty, dbVars, ghosts
    <2>2. left' \in [Events -> Nat]
      BY <1>0, <2>1, TryTypes DEF StoreTypes
    <2>3. CASE Return(r) /\ UNCHANGED <<row, heap>>
      BY <1>0, <1>N, <2>1, <2>2, <2>3, ReturnTypes DEF StoreTypes
    <2>4. CASE ~(Return(r) /\ UNCHANGED <<row, heap>>)
      <3>1. /\ ptr' = [ptr EXCEPT ![r] = FreshObj]
            /\ UNCHANGED <<op, mine, snap, word>>
            /\ row' \in Statuses /\ heap' = [heap EXCEPT ![FreshObj] = row']
        BY <1>0, <1>2, <2>4 DEF InsertSession, ReadRow, dbVars, StoreTypes, Statuses
      <3>2. FreshObj \in Objs
        BY <2>1, FreshIsFree
      <3>3. pc'[r] \in {"compose", "cache"}
        BY <1>0, <1>2, <2>4 DEF InsertSession, ReadRow, dbVars, Goto, RequestTypes
      <3>4. RequestTypes'
        <4>1. pc'[r] \in Places /\ pc'[r] \notin Empty /\ pc'[r] \notin Making /\ pc'[r] # "write"
          BY <3>3 DEF Places, Empty, Making
        <4>2. ptr'[r] = FreshObj /\ ptr'[r] # None
          BY <1>0, <3>1, <3>2, NoneIsNoObject DEF RequestTypes
        <4>3. /\ op'[r] \in Ops \cup {None} /\ mine'[r] \in Stamps' \cup {NoMessage}
              /\ snap'[r] \in Snaps' /\ word'[r] \in Statuses \cup {None}
          BY <1>0, <1>N, <2>1, <3>1 DEF RequestTypes
        <4>4. OnlyMine(r)
          BY <1>0, <1>2, StepMoves DEF Step
        <4> QED BY <2>1, <3>2, <4>1, <4>2, <4>3, <4>4, LocalTypes
      <3>5. heap' \in [Objs -> Statuses]
        BY <1>0, <3>1 DEF StoreTypes
      <3> QED BY <1>0, <1>N, <2>1, <2>2, <3>1, <3>4, <3>5 DEF StoreTypes
    <2> QED BY <2>3, <2>4
  <1>3. ASSUME NEW r \in Reqs,
               ComposePrompt(r) \/ ComposeIncoming(r) \/ ComposeSummary(r) \/ Answered(r)
        PROVE  RequestTypes' /\ StoreTypes'
    <2>1. /\ UNCHANGED <<dbVars, cache, heap, op, ptr, snap, word, left, said, unlogged>>
          /\ pc[r] \in {"compose", "stamp", "cut", "call"}
      BY <1>3 DEF ComposePrompt, ComposeIncoming, ComposeSummary, Answered, ghosts
    <2>2. \/ UNCHANGED <<mine, clock>> /\ pc'[r] = "cache"
          \/ mine' = [mine EXCEPT ![r] = clock] /\ clock' = clock + 1
      BY <1>0, <1>3 DEF ComposePrompt, ComposeIncoming, ComposeSummary, Answered, Compose, Goto, RequestTypes
    <2>3. pc'[r] \in {"cache", "prompt", "insert", "commit", "answer", "idle"} /\ pc'[r] # "idle"
      BY <1>0, <1>3 DEF ComposePrompt, ComposeIncoming, ComposeSummary, Answered, Goto, RequestTypes
    <2>4. RequestTypes'
      <3>1. pc[r] \notin Empty /\ pc'[r] \notin Empty /\ pc'[r] # "write"
        BY <2>1, <2>3 DEF Empty
      <3>2. \/ mine'[r] = mine[r] /\ pc'[r] \notin Making
            \/ mine'[r] = clock /\ clock' = clock + 1
        BY <1>0, <2>2 DEF RequestTypes, Making
      <3>3. Step(r)
        BY <1>3 DEF Step, Send, Compress
      <3>4. op'[r] \in Ops \cup {None} /\ snap'[r] \in Snaps'
        BY <1>P, <1>S, <2>1, <2>2
      <3> QED BY <2>1, <2>2, <3>1, <3>2, <3>3, <3>4, PlainTypes
    <2> QED BY <1>0, <2>1, <2>2, <2>4, StoreKept
  <1>4. ASSUME NEW r \in Reqs, InsertPrompt(r) \/ InsertIncoming(r) \/ InsertAnswer(r)
        PROVE  RequestTypes' /\ StoreTypes'
    <2>1. /\ UNCHANGED <<row, audit, cache, heap, clock>>
          /\ pc[r] \in {"prompt", "insert", "answer"} /\ mine[r] \in Stamps
      BY <1>4, <1>P DEF InsertPrompt, InsertIncoming, InsertAnswer, Making
    <2>2. left' \in [Events -> Nat]
      <3>1. UNCHANGED left \/ Happens("failure") \/ Happens("prompt")
        BY <1>4 DEF InsertPrompt, InsertIncoming, InsertAnswer, Fails, Works
      <3>2. "failure" \in Events /\ "prompt" \in Events
        BY DEF Events
      <3> QED BY <1>0, <3>1, <3>2, LeftTypes DEF StoreTypes
    <2>3. /\ UNCHANGED <<msgs, said>> \/ \E kind \in {"system", "talk"} : Store(kind, mine[r])
          /\ unlogged' = unlogged \/ (unlogged' = unlogged \cup {mine[r]} /\ Store("system", mine[r]))
      BY <1>4 DEF InsertPrompt, InsertIncoming, InsertAnswer
    <2>4. /\ msgs' \subseteq Messages' /\ IsFiniteSet(msgs') /\ said' \subseteq Stamps' /\ said \subseteq said'
          /\ (Store("system", mine[r]) => mine[r] \in said')
      BY <1>0, <1>N, <2>1, <2>3, StoreAdds DEF StoreTypes
    <2>5. StoreTypes'
      BY <1>0, <1>N, <2>1, <2>2, <2>3, <2>4 DEF StoreTypes
    <2>6. RequestTypes'
      <3>1. CASE Return(r)
        BY <2>1, <3>1, ReturnTypes
      <3>2. CASE ~Return(r)
        <4>1. /\ UNCHANGED <<op, ptr, snap, word>>
              /\ \/ UNCHANGED mine
                 \/ mine' = [mine EXCEPT ![r] = NoMessage] /\ pc'[r] = "cache"
          BY <1>0, <1>4, <3>2 DEF InsertPrompt, InsertIncoming, InsertAnswer, Goto, RequestTypes
        <4>2. pc'[r] \in {"cache", "log", "finish"}
          BY <1>0, <1>4, <3>2 DEF InsertPrompt, InsertIncoming, InsertAnswer, Goto, RequestTypes
        <4>3. /\ pc[r] \notin Empty /\ pc'[r] \notin Empty /\ pc[r] \in Making /\ pc'[r] # "write"
              /\ pc'[r] = "cache" => pc'[r] \notin Making
          BY <2>1, <4>2 DEF Empty, Making
        <4>4. Step(r)
          BY <1>4 DEF Step, Send
        <4>5. op'[r] \in Ops \cup {None} /\ snap'[r] \in Snaps'
          BY <1>N, <1>P, <2>1, <4>1
        <4>6. \/ mine'[r] = mine[r]
              \/ mine'[r] = NoMessage /\ pc'[r] \notin Making
          BY <1>0, <4>1, <4>3 DEF RequestTypes
        <4> QED BY <2>1, <4>1, <4>3, <4>4, <4>5, <4>6, PlainTypes
      <3> QED BY <3>1, <3>2
    <2> QED BY <2>5, <2>6
  <1>5. ASSUME NEW r \in Reqs, Lookup(r) \/ PutCache(r) PROVE RequestTypes' /\ StoreTypes'
    <2>1. /\ pc[r] \in {"lookup", "cache"}
          /\ UNCHANGED <<dbVars, heap, left, clock, said, unlogged>>
          /\ cache' \in {cache} \cup {ptr[r]} /\ (cache' # cache => pc[r] = "cache")
      BY <1>5 DEF Lookup, PutCache, ghosts
    <2>2. StoreTypes'
      BY <1>0, <1>N, <1>P, <2>1 DEF StoreTypes, Empty, dbVars
    <2>3. ASSUME NEW o \in Objs, Found(r, o) PROVE RequestTypes'
      <3>1. CASE Return(r)
        BY <2>1, <3>1, ReturnTypes
      <3>2. CASE ~Return(r)
        <4>1. /\ OnlyMine(r) /\ pc'[r] \in {"check", "mark"} /\ ptr'[r] = o
              /\ op'[r] = op[r] /\ mine'[r] = mine[r] /\ snap'[r] = snap[r] /\ word'[r] = word[r]
          BY <1>0, <2>3, <3>2, FoundMoves
        <4>2. /\ op[r] \in Ops \cup {None} /\ mine[r] \in Stamps' \cup {NoMessage} /\ snap[r] \in Snaps'
              /\ word[r] \in Statuses \cup {None}
          BY <1>0, <1>N, <2>1 DEF RequestTypes
        <4>3. pc'[r] \in Places /\ pc'[r] \notin Empty /\ pc'[r] \notin Making /\ pc'[r] # "write" /\ o # None
          BY <4>1, NoneIsNoObject DEF Places, Empty, Making
        <4> QED BY <2>1, <4>1, <4>2, <4>3, LocalTypes
      <3> QED BY <3>1, <3>2
    <2>4. ASSUME pc[r] = "lookup", Goto(r, "read"), UNCHANGED <<op, ptr, mine, snap, word>> PROVE RequestTypes'
      <3>1. pc'[r] = "read" /\ pc[r] \in Empty /\ pc'[r] \in Empty /\ pc'[r] \notin Making
        BY <1>0, <2>4 DEF Goto, RequestTypes, Empty, Making
      <3>2. op'[r] \in Ops \cup {None} /\ snap'[r] \in Snaps'
        BY <1>N, <1>P, <2>1, <2>4
      <3> QED BY <1>5, <2>1, <2>4, <3>1, <3>2, PlainTypes DEF Step
    <2>5. (pc[r] = "cache" => ptr[r] \in Objs) /\ (cache # None => cache \in Objs)
      BY <1>0, <1>P DEF Empty, StoreTypes
    <2> QED BY <1>5, <2>2, <2>3, <2>4, <2>5 DEF Lookup, PutCache
  <1>6. ASSUME NEW r \in Reqs, CheckStatus(r) \/ Unanswered(r) PROVE RequestTypes' /\ StoreTypes'
    <2>1. UNCHANGED <<dbVars, cache, heap, left, clock, said, unlogged>>
      BY <1>6 DEF CheckStatus, Unanswered, ghosts
    <2>2. CASE Return(r)
      BY <1>0, <2>1, <2>2, ReturnTypes, StoreKept
    <2>3. CASE ~Return(r)
      <3>1. pc[r] = "check" /\ Goto(r, "stamp") /\ UNCHANGED <<op, ptr, mine, snap, word>>
        BY <1>6, <2>3 DEF CheckStatus, Unanswered
      <3>2. pc'[r] = "stamp" /\ pc[r] \notin Empty /\ pc'[r] \notin Empty /\ pc'[r] \notin Making
        BY <1>0, <3>1 DEF Goto, RequestTypes, Empty, Making
      <3>3. op'[r] \in Ops \cup {None} /\ snap'[r] \in Snaps'
        BY <1>N, <1>P, <2>1, <3>1
      <3>4. RequestTypes'
        BY <1>6, <2>1, <3>1, <3>2, <3>3, PlainTypes DEF Step, Send
      <3> QED BY <1>0, <2>1, <3>4, StoreKept
    <2> QED BY <2>2, <2>3
  <1>7. ASSUME NEW r \in Reqs, LogIncoming(r) \/ LogAnswer(r) PROVE RequestTypes' /\ StoreTypes'
    <2>1. /\ pc[r] \in {"log", "finish"} /\ AuditLog(mine[r]) /\ mine' = [mine EXCEPT ![r] = NoMessage]
          /\ UNCHANGED <<row, msgs, cache, heap, op, ptr, snap, word, clock, said>>
      BY <1>7 DEF LogIncoming, LogAnswer
    <2>2. pc'[r] \in {"compress", "call", "save"}
      BY <1>0, <1>7 DEF LogIncoming, LogAnswer, MaybeCompress, Goto, RequestTypes
    <2>3. mine[r] \in Stamps /\ mine'[r] = NoMessage
      BY <1>0, <1>P, <2>1 DEF Making, RequestTypes
    <2>4. pc[r] \notin Empty /\ pc'[r] \notin Empty /\ pc'[r] \notin Making /\ pc'[r] # "write"
      BY <2>1, <2>2 DEF Empty, Making
    <2>5. op'[r] \in Ops \cup {None} /\ snap'[r] \in Snaps' /\ Step(r)
      BY <1>7, <1>N, <1>P, <2>1 DEF Step, Send
    <2>6. RequestTypes'
      BY <2>1, <2>3, <2>4, <2>5, PlainTypes
    <2>7. audit' \subseteq audit \cup {mine[r]} /\ unlogged' \subseteq unlogged \cup said /\ (Fails \/ Works)
      BY <2>1 DEF AuditLog
    <2>8. left' \in [Events -> Nat]
      BY <1>0, <2>7, TryTypes DEF StoreTypes
    <2> QED BY <1>0, <1>N, <2>1, <2>3, <2>6, <2>7, <2>8 DEF StoreTypes
  <1>8. ASSUME NEW r \in Reqs, CompressRead(r) \/ CompressReread(r) \/ CompressFails(r)
        PROVE  RequestTypes' /\ StoreTypes'
    <2>1. /\ pc[r] \in {"compress", "summary", "commit"}
          /\ UNCHANGED <<dbVars, cache, heap, op, ptr, word, left, clock, said, unlogged>>
          /\ mine' \in {mine, [mine EXCEPT ![r] = NoMessage]}
      BY <1>8 DEF CompressRead, CompressReread, CompressFails, ghosts
    <2>2. pc'[r] \in {"call", "summary", "cut"}
      BY <1>0, <1>8 DEF CompressRead, CompressReread, CompressFails, Goto, RequestTypes
    <2>3. pc[r] \notin Empty /\ pc'[r] \notin Empty /\ pc'[r] \notin Making /\ pc'[r] # "write"
      BY <2>1, <2>2 DEF Empty, Making
    <2>4. mine'[r] \in {mine[r], NoMessage}
      BY <1>0, <2>1 DEF RequestTypes
    <2>5. snap'[r] \in Snaps
      <3>1. CASE CompressRead(r)
        <4>1. CASE snap' = snap
          BY <1>P, <4>1
        <4>2. CASE snap' # snap
          <5> DEFINE n == Split(msgs)
                     a == StandsFor(Middle(msgs, n))
          <5>1. snap' = [snap EXCEPT ![r] = [split |-> n, stands |-> a, doomed |-> {}]]
            BY <3>1, <4>2 DEF CompressRead
          <5>2. n \in Nat
            BY <1>0, SplitType DEF StoreTypes
          <5>3. a \subseteq Stamps
            <6>1. Middle(msgs, n) \subseteq Messages
              BY <1>0, MiddleIn DEF StoreTypes
            <6> QED BY <6>1, StandsIn
          <5> HIDE DEF n, a
          <5>4. snap'[r] = [split |-> n, stands |-> a, doomed |-> {}]
            BY <1>0, <5>1 DEF RequestTypes
          <5> QED BY <5>2, <5>3, <5>4 DEF Snaps
        <4> QED BY <4>1, <4>2
      <3>2. CASE CompressFails(r)
        BY <1>0, <3>2, NoSnapType DEF CompressFails, RequestTypes
      <3>3. CASE CompressReread(r)
        <4> DEFINE d == Middle(msgs, snap[r].split)
        <4>1. \/ snap' = [snap EXCEPT ![r] = NoSnap]
              \/ snap' = [snap EXCEPT ![r] = [split |-> 0, stands |-> snap[r].stands, doomed |-> d]]
          BY <3>3 DEF CompressReread
        <4>2. d \subseteq Messages
          BY <1>0, MiddleIn DEF StoreTypes
        <4> HIDE DEF d
        <4>3. snap'[r] = NoSnap \/ snap'[r] = [split |-> 0, stands |-> snap[r].stands, doomed |-> d]
          BY <1>0, <4>1 DEF RequestTypes
        <4>4. snap[r].stands \in SUBSET Stamps
          BY <1>P DEF Snaps
        <4>5. [split |-> 0, stands |-> snap[r].stands, doomed |-> d] \in Snaps
          BY <4>2, <4>4 DEF Snaps
        <4> QED BY <4>3, <4>5, NoSnapType
      <3> QED BY <1>8, <3>1, <3>2, <3>3
    <2>6. op'[r] \in Ops \cup {None} /\ Step(r)
      BY <1>8, <1>P, <2>1 DEF Step, Send, Compress
    <2>7. RequestTypes'
      BY <1>N, <2>1, <2>3, <2>4, <2>5, <2>6, PlainTypes
    <2> QED BY <1>0, <2>1, <2>7, StoreKept
  <1>9. ASSUME NEW r \in Reqs, CompressApply(r) PROVE RequestTypes' /\ StoreTypes'
    <2> DEFINE e == [at |-> mine[r], kind |-> "summary", stands |-> snap[r].stands]
    <2>1. /\ pc[r] = "commit" /\ msgs' = (msgs \ snap[r].doomed) \cup {e}
          /\ UNCHANGED <<row, audit, cache, heap, op, ptr, word, left, clock, said, unlogged>>
          /\ snap' = [snap EXCEPT ![r] = NoSnap] /\ mine' = [mine EXCEPT ![r] = NoMessage]
          /\ Goto(r, "call")
      BY <1>9 DEF CompressApply
    <2>2. mine[r] \in Stamps /\ snap[r].stands \in SUBSET Stamps
      BY <1>P, <2>1 DEF Making, Snaps
    <2>3. e \in Messages
      BY <2>2 DEF Messages
    <2>4. IsFiniteSet(msgs')
      <3> HIDE DEF e
      <3>1. IsFiniteSet(msgs \ snap[r].doomed)
        BY <1>0, FS_Subset DEF StoreTypes
      <3> QED BY <2>1, <3>1, FS_AddElement
    <2> HIDE DEF e
    <2>5. StoreTypes'
      BY <1>0, <1>N, <2>1, <2>3, <2>4 DEF StoreTypes
    <2>6. pc'[r] = "call" /\ mine'[r] = NoMessage /\ snap'[r] = NoSnap
      BY <1>0, <2>1 DEF Goto, RequestTypes
    <2>7. pc[r] \notin Empty /\ pc'[r] \notin Empty /\ pc'[r] \notin Making /\ pc'[r] # "write"
      BY <2>1, <2>6 DEF Empty, Making
    <2>8. op'[r] \in Ops \cup {None} /\ Step(r)
      BY <1>9, <1>P, <2>1 DEF Step, Send, Compress
    <2>9. RequestTypes'
      BY <1>N, <2>1, <2>6, <2>7, <2>8, NoSnapType, PlainTypes
    <2> QED BY <2>5, <2>9
  <1>10. ASSUME NEW r \in Reqs, Recache(r) PROVE RequestTypes' /\ StoreTypes'
    <2>1. /\ pc[r] = "recache" /\ cache' = ptr[r] /\ Return(r)
          /\ UNCHANGED <<dbVars, heap, left, clock, said, unlogged>>
      BY <1>10 DEF Recache, ghosts
    <2>2. ptr[r] \in Objs
      BY <1>P, <2>1 DEF Empty
    <2> QED BY <1>0, <1>N, <2>1, <2>2, ReturnTypes DEF StoreTypes, dbVars
  <1>11. ASSUME NEW r \in Reqs, ReadStatus(r) PROVE RequestTypes' /\ StoreTypes'
    <2>1. /\ pc[r] = "save" /\ word' = [word EXCEPT ![r] = heap[ptr[r]]] /\ Goto(r, "write")
          /\ UNCHANGED <<dbVars, cache, heap, op, ptr, mine, snap, left, clock, said, unlogged>>
      BY <1>11 DEF ReadStatus, ghosts
    <2>2. ptr[r] \in Objs /\ ptr[r] # None
      BY <1>P, <2>1, NoneIsNoObject DEF Empty
    <2>3. word'[r] = heap[ptr[r]] /\ heap[ptr[r]] \in Statuses /\ pc'[r] = "write"
      BY <1>0, <2>1, <2>2 DEF StoreTypes, RequestTypes, Goto
    <2>4. pc'[r] \in Places /\ pc'[r] \notin Empty /\ pc'[r] \notin Making
      BY <2>3 DEF Places, Empty, Making
    <2>5. op'[r] \in Ops \cup {None} /\ mine'[r] \in Stamps' \cup {NoMessage} /\ snap'[r] \in Snaps'
      BY <1>0, <1>N, <2>1 DEF RequestTypes
    <2>6. OnlyMine(r)
      BY <1>0, <1>11, StepMoves DEF Step
    <2>7. RequestTypes'
      BY <2>1, <2>2, <2>3, <2>4, <2>5, <2>6, LocalTypes
    <2> QED BY <1>0, <2>1, <2>7, StoreKept
  <1>12. ASSUME NEW r \in Reqs, UpdateRow(r) PROVE RequestTypes' /\ StoreTypes'
    <2>1. /\ pc[r] = "write" /\ UNCHANGED <<msgs, audit, cache, heap, clock, said, unlogged>>
          /\ (Fails \/ Works) /\ row' \in {row, None, word[r]}
      BY <1>12 DEF UpdateRow, ghosts
    <2>2. left' \in [Events -> Nat]
      BY <1>0, <2>1, TryTypes DEF StoreTypes
    <2>3. row' \in Statuses \cup {None}
      BY <1>0, <2>1 DEF StoreTypes, RequestTypes
    <2>4. StoreTypes'
      BY <1>0, <1>N, <2>1, <2>2, <2>3 DEF StoreTypes
    <2>5. CASE Return(r)
      BY <2>1, <2>4, <2>5, ReturnTypes
    <2>6. CASE ~Return(r)
      <3>1. Goto(r, "recache") /\ word' = [word EXCEPT ![r] = None] /\ UNCHANGED <<op, ptr, mine, snap>>
        BY <1>12, <2>6 DEF UpdateRow
      <3>2. pc'[r] = "recache" /\ word'[r] = None
        BY <1>0, <3>1 DEF Goto, RequestTypes
      <3>3. pc'[r] \in Places /\ pc'[r] \notin Empty /\ pc'[r] \notin Making /\ pc[r] \notin Empty
        BY <2>1, <3>2 DEF Places, Empty, Making
      <3>4. /\ op'[r] \in Ops \cup {None} /\ mine'[r] \in Stamps' \cup {NoMessage} /\ snap'[r] \in Snaps'
            /\ ptr'[r] \in Objs /\ ptr'[r] # None
        BY <1>0, <1>N, <1>P, <2>1, <3>1, <3>3, NoneIsNoObject DEF RequestTypes
      <3>5. OnlyMine(r)
        BY <1>0, <1>12, StepMoves DEF Step
      <3>6. RequestTypes'
        BY <2>1, <3>2, <3>3, <3>4, <3>5, LocalTypes
      <3> QED BY <2>4, <3>6
    <2> QED BY <2>5, <2>6
  <1>13. ASSUME NEW r \in Reqs, MarkArchived(r) \/ Uncache(r) PROVE RequestTypes' /\ StoreTypes'
    <2>1. /\ pc[r] \in {"mark", "uncache"}
          /\ UNCHANGED <<dbVars, op, ptr, mine, snap, word, left, clock, said, unlogged>>
          /\ cache' \in {cache, None}
          /\ \/ UNCHANGED heap /\ pc[r] = "uncache" /\ Goto(r, "erase")
             \/ heap' = [heap EXCEPT ![ptr[r]] = "archived"] /\ pc[r] = "mark" /\ Goto(r, "save")
      BY <1>13 DEF MarkArchived, Uncache
    <2>2. heap' \in [Objs -> Statuses]
      BY <1>0, <2>1 DEF StoreTypes, Statuses
    <2>3. (pc[r] = "uncache" /\ pc'[r] = "erase") \/ (pc[r] = "mark" /\ pc'[r] = "save")
      BY <1>0, <2>1 DEF Goto, RequestTypes
    <2>4. (pc[r] \in Empty <=> pc'[r] \in Empty) /\ pc'[r] \notin Making /\ pc'[r] # "write"
      BY <2>3 DEF Empty, Making
    <2>5. op'[r] \in Ops \cup {None} /\ snap'[r] \in Snaps' /\ mine'[r] = mine[r]
      BY <1>N, <1>P, <2>1
    <2>6. RequestTypes'
      BY <1>13, <2>1, <2>4, <2>5, PlainTypes DEF Step
    <2> QED BY <1>0, <1>N, <2>1, <2>2, <2>6 DEF StoreTypes, dbVars
  <1>14. ASSUME NEW r \in Reqs, Erase(r) PROVE RequestTypes' /\ StoreTypes'
    <2>1. Return(r) /\ UNCHANGED <<cache, heap, clock>> /\ (Fails \/ Works)
      BY <1>14 DEF Erase
    <2>2. left' \in [Events -> Nat]
      BY <1>0, <2>1, TryTypes DEF StoreTypes
    <2>3. /\ row' \in {row, None} /\ msgs' \in {msgs, {}} /\ audit' \subseteq audit
          /\ \/ UNCHANGED <<said, unlogged>>
             \/ said' = {} /\ unlogged' = {}
      BY <1>14 DEF Erase, dbVars
    <2>4. IsFiniteSet(msgs') /\ msgs' \subseteq Messages'
      BY <1>0, <1>N, <2>1, <2>3, FS_EmptySet DEF StoreTypes
    <2> QED BY <1>0, <1>N, <2>1, <2>2, <2>3, <2>4, ReturnTypes DEF StoreTypes
  <1>15. ASSUME Restart PROVE RequestTypes' /\ StoreTypes'
    <2>1. /\ UNCHANGED <<dbVars, clock, said>> /\ Happens("restart") /\ cache' = None
          /\ heap' = [o \in Objs |-> "active"] /\ unlogged' \subseteq unlogged \cup said
      BY <1>15 DEF Restart
    <2>2. left' \in [Events -> Nat]
      BY <1>0, <2>1, LeftTypes DEF StoreTypes, Events
    <2>3. RequestTypes'
      BY <1>15, <1>N, <2>1, NoneIsNoObject, NoSnapType DEF Restart, RequestTypes, Places, Empty, Making
    <2>4. heap' \in [Objs -> Statuses]
      BY <2>1 DEF Statuses
    <2> QED BY <1>0, <1>N, <2>1, <2>2, <2>3, <2>4 DEF StoreTypes, dbVars
  <1>16. ASSUME UNCHANGED vars PROVE RequestTypes' /\ StoreTypes'
    <2>1. UNCHANGED <<reqVars, clock>> /\ UNCHANGED <<dbVars, cache, heap, left, said, unlogged>>
      BY <1>16 DEF vars, ghosts
    <2>2. RequestTypes'
      BY <1>0, <1>N, <2>1 DEF RequestTypes, reqVars
    <2> QED BY <1>0, <2>1, <2>2, StoreKept
  <1>17. RequestTypes' /\ StoreTypes'
    BY <1>1, <1>2, <1>3, <1>4, <1>5, <1>6, <1>7, <1>8, <1>9, <1>10, <1>11, <1>12, <1>13, <1>14,
       <1>15, <1>16 DEF Next, Step, Send, Compress
  <1> QED BY <1>17 DEF ShapeInv

-----------------------------------------------------------------------------
(* Messages and summaries.                                                 *)
SplitsKept ==
    \A q \in Reqs :
        /\ pc'[q] = "summary" => pc[q] = "summary" /\ snap'[q] = snap[q]
        /\ pc'[q] \in {"cut", "commit"} => pc[q] \in {"cut", "commit"} /\ snap'[q] = snap[q]

LEMMA SplitKept ==
    ASSUME SplitInv, UNCHANGED <<msgs, said, disturbed>>, SplitsKept
    PROVE  SplitInv'
  BY DEF SplitInv, SplitsKept

(* A message is stored behind every split point.                           *)
LEMMA SplitStore ==
    ASSUME ShapeInv, SplitInv, SplitsKept, NEW kind, NEW id \in Stamps, Store(kind, id)
    PROVE  SplitInv'
  <1> DEFINE e == [at |-> id, kind |-> kind, stands |-> {id}]
  <1>1. msgs' = msgs \cup {e} /\ said' = said \cup {id} /\ e.at = id /\ e.stands = {id}
    BY DEF Store
  <1>2. disturbed' = (disturbed \/ \E q \in Reqs :
          pc[q] = "summary" /\ Cardinality(Before(msgs, id)) < snap[q].split)
    BY Zenon DEF Store
  <1> HIDE DEF e
  <1> SUFFICES ASSUME ~disturbed' PROVE SplitInv'
    BY DEF SplitInv
  <1>3. ~disturbed /\ \A q \in Reqs : pc[q] = "summary" => ~(Cardinality(Before(msgs, id)) < snap[q].split)
    BY <1>2
  <1>4. said' \subseteq StandsFor(msgs')
    BY <1>1, <1>3, StandsAdd DEF SplitInv
  <1>5. ASSUME NEW q \in Reqs, pc'[q] = "summary"
        PROVE  snap'[q].split > 1 /\ snap'[q].stands = StandsFor(Middle(msgs', snap'[q].split))
    <2>1. pc[q] = "summary" /\ snap'[q] = snap[q]
      BY <1>5 DEF SplitsKept
    <2>2. snap[q].split > 1 /\ snap[q].stands = StandsFor(Middle(msgs, snap[q].split))
      BY <1>3, <2>1 DEF SplitInv
    <2>3. /\ IsFiniteSet(msgs) /\ (\A m \in msgs : m.at \in Int) /\ id \in Int /\ snap[q].split \in Nat
      BY DEF ShapeInv, StoreTypes, RequestTypes, Messages, Stamps, Snaps
    <2>4. Middle(msgs', snap[q].split) = Middle(msgs, snap[q].split)
      BY <1>1, <1>3, <2>1, <2>2, <2>3, MiddleKept
    <2> QED BY <2>1, <2>2, <2>4
  <1>6. \A q \in Reqs : pc'[q] \in {"cut", "commit"} => StandsFor(snap'[q].doomed) \subseteq snap'[q].stands
    BY <1>3 DEF SplitInv, SplitsKept
  <1>7. StandsFor(msgs)' = StandsFor(msgs')
    BY DEF StandsFor
  <1> QED BY <1>4, <1>5, <1>6, <1>7 DEF SplitInv, StandsFor, Middle, Oldest, Before

LEMMA SplitNext ==
    ASSUME ShapeInv, SplitInv, [Next]_vars
    PROVE  SplitInv'
  <1>0. RequestTypes /\ StoreTypes
    BY DEF ShapeInv
  <1>F. ASSUME NEW r \in Reqs, Request(r) \/ Step(r), pc[r] \notin {"compress", "summary", "cut"}
        PROVE  SplitsKept
    <2>1. pc'[r] \notin {"summary", "cut", "commit"}
      BY <1>0, <1>F, StepMoves DEF Moves
    <2> QED BY <1>0, <1>F, <2>1, StepMoves DEF SplitsKept
  <1>1. ASSUME NEW r \in Reqs, Request(r) \/ InsertSession(r) \/ ComposePrompt(r) \/ Lookup(r) \/ ReadRow(r)
                 \/ PutCache(r) \/ ReadStatus(r) \/ UpdateRow(r) \/ MarkArchived(r) \/ Uncache(r)
        PROVE  SplitInv'
    <2>1. UNCHANGED <<msgs, said, disturbed>> /\ pc[r] \notin {"compress", "summary", "cut"}
      BY <1>1 DEF Request, InsertSession, ComposePrompt, Lookup, ReadRow, PutCache, ReadStatus, UpdateRow,
              MarkArchived, Uncache, dbVars, ghosts
    <2> QED BY <1>1, <1>F, <2>1, SplitKept DEF Step
  <1>2. ASSUME NEW r \in Reqs, CheckStatus(r) \/ ComposeIncoming(r) \/ LogIncoming(r) \/ Answered(r)
                 \/ Unanswered(r) \/ LogAnswer(r) \/ Recache(r)
        PROVE  SplitInv'
    <2>1. UNCHANGED <<msgs, said, disturbed>> /\ pc[r] \notin {"compress", "summary", "cut"}
      BY <1>2 DEF CheckStatus, ComposeIncoming, LogIncoming, Answered, Unanswered, LogAnswer, Recache,
              dbVars, ghosts
    <2> QED BY <1>2, <1>F, <2>1, SplitKept DEF Step, Send
  <1>3. ASSUME NEW r \in Reqs, InsertPrompt(r) \/ InsertIncoming(r) \/ InsertAnswer(r) PROVE SplitInv'
    <2>1. pc[r] \in {"prompt", "insert", "answer"}
      BY <1>3 DEF InsertPrompt, InsertIncoming, InsertAnswer
    <2>2. SplitsKept
      BY <1>3, <1>F, <2>1 DEF Step, Send
    <2>3. mine[r] \in Stamps
      BY <1>0, <2>1 DEF RequestTypes, Making
    <2>4. UNCHANGED <<msgs, said, disturbed>> \/ Store("system", mine[r]) \/ Store("talk", mine[r])
      BY <1>3 DEF InsertPrompt, InsertIncoming, InsertAnswer
    <2> QED BY <2>2, <2>3, <2>4, SplitKept, SplitStore
  <1>4. ASSUME NEW r \in Reqs, ComposeSummary(r) \/ CompressFails(r) PROVE SplitInv'
    <2>1. UNCHANGED <<msgs, said, disturbed>>
      BY <1>4 DEF ComposeSummary, CompressFails, dbVars, ghosts
    <2>2. \/ pc[r] = "cut" /\ pc'[r] = "commit" /\ snap'[r] = snap[r]
          \/ pc'[r] = "call"
      BY <1>0, <1>4 DEF ComposeSummary, CompressFails, Goto, RequestTypes
    <2>3. SplitsKept
      BY <1>0, <1>4, <2>2, StepMoves DEF SplitsKept, Step, Send, Compress
    <2> QED BY <2>1, <2>3, SplitKept
  <1>5. ASSUME NEW r \in Reqs, CompressRead(r) PROVE SplitInv'
    <2>1. UNCHANGED <<msgs, said, disturbed>> /\ pc[r] = "compress"
      BY <1>5 DEF CompressRead, dbVars, ghosts
    <2>2. \A q \in Reqs : q # r => pc'[q] = pc[q] /\ snap'[q] = snap[q]
      BY <1>0, <1>5, StepMoves DEF Step, Send, Compress
    <2>3. CASE Goto(r, "call")
      <3>1. pc'[r] = "call"
        BY <1>0, <2>3 DEF Goto, RequestTypes
      <3> QED BY <2>1, <2>2, <3>1, SplitKept DEF SplitsKept
    <2>4. CASE ~Goto(r, "call")
      <3> DEFINE n == Split(msgs)
                 a == StandsFor(Middle(msgs, n))
      <3>1. snap' = [snap EXCEPT ![r] = [split |-> n, stands |-> a, doomed |-> {}]] /\ n > 1 /\ Goto(r, "summary")
        BY <1>5, <2>4 DEF CompressRead
      <3>2. a = StandsFor(Middle(msgs, n))
        OBVIOUS
      <3> HIDE DEF n, a
      <3>3. snap'[r].split = n /\ snap'[r].stands = a /\ pc'[r] = "summary"
        BY <1>0, <3>1 DEF RequestTypes, Goto
      <3>4. snap'[r].split > 1 /\ snap'[r].stands = StandsFor(Middle(msgs, snap'[r].split))
        BY <3>1, <3>2, <3>3
      <3> QED BY <2>1, <2>2, <3>3, <3>4 DEF SplitInv
    <2> QED BY <2>3, <2>4
  <1>6. ASSUME NEW r \in Reqs, CompressReread(r) PROVE SplitInv'
    <2>1. UNCHANGED <<msgs, said, disturbed>> /\ pc[r] = "summary"
      BY <1>6 DEF CompressReread, dbVars, ghosts
    <2>2. \A q \in Reqs : q # r => pc'[q] = pc[q] /\ snap'[q] = snap[q]
      BY <1>0, <1>6, StepMoves DEF Step, Send, Compress
    <2>3. CASE Goto(r, "call")
      <3>1. pc'[r] = "call"
        BY <1>0, <2>3 DEF Goto, RequestTypes
      <3> QED BY <2>1, <2>2, <3>1, SplitKept DEF SplitsKept
    <2>4. CASE ~Goto(r, "call")
      <3> DEFINE d == Middle(msgs, snap[r].split)
      <3>1. /\ snap' = [snap EXCEPT ![r] = [split |-> 0, stands |-> snap[r].stands, doomed |-> d]]
            /\ Goto(r, "cut")
        BY <1>6, <2>4 DEF CompressReread
      <3>2. ~disturbed => snap[r].stands = StandsFor(d)
        BY <2>1 DEF SplitInv
      <3> HIDE DEF d
      <3>3. snap'[r].stands = snap[r].stands /\ snap'[r].doomed = d /\ pc'[r] = "cut"
        BY <1>0, <3>1 DEF RequestTypes, Goto
      <3>4. ~disturbed => StandsFor(snap'[r].doomed) \subseteq snap'[r].stands
        BY <3>2, <3>3
      <3> QED BY <2>1, <2>2, <3>3, <3>4 DEF SplitInv
    <2> QED BY <2>3, <2>4
  <1>7. ASSUME NEW r \in Reqs, CompressApply(r) PROVE SplitInv'
    <2> DEFINE e == [at |-> mine[r], kind |-> "summary", stands |-> snap[r].stands]
    <2>1. /\ pc[r] = "commit" /\ msgs' = (msgs \ snap[r].doomed) \cup {e} /\ said' = said
          /\ Goto(r, "call") /\ e.stands = snap[r].stands
      BY <1>7 DEF CompressApply
    <2>2. disturbed' = (disturbed \/ \E q \in Reqs : pc[q] = "summary")
      BY <1>7, Zenon DEF CompressApply
    <2> HIDE DEF e
    <2> SUFFICES ASSUME ~disturbed' PROVE SplitInv'
      BY DEF SplitInv
    <2>3. ~disturbed /\ \A q \in Reqs : pc[q] # "summary"
      BY <2>2
    <2>4. pc'[r] = "call" /\ \A q \in Reqs : q # r => pc'[q] = pc[q] /\ snap'[q] = snap[q]
      BY <1>0, <1>7, <2>1, StepMoves DEF Step, Send, Compress, Goto, RequestTypes
    <2>5. StandsFor(snap[r].doomed) \subseteq snap[r].stands
      BY <2>1, <2>3 DEF SplitInv
    <2>6. StandsFor(msgs) \subseteq StandsFor(msgs')
      <3>1. StandsFor(msgs') = StandsFor(msgs \ snap[r].doomed) \cup snap[r].stands
        BY <2>1, StandsAdd
      <3>2. StandsFor(msgs) \subseteq StandsFor(msgs \ snap[r].doomed) \cup StandsFor(snap[r].doomed)
        BY DEF StandsFor
      <3> QED BY <2>5, <3>1, <3>2
    <2>7. said' \subseteq StandsFor(msgs')
      BY <2>1, <2>3, <2>6 DEF SplitInv
    <2> QED BY <2>3, <2>4, <2>7 DEF SplitInv, StandsFor
  <1>8. ASSUME NEW r \in Reqs, Erase(r) PROVE SplitInv'
    <2>1. pc[r] = "erase" /\ SplitsKept
      BY <1>8, <1>F DEF Erase, Step
    <2>2. CASE UNCHANGED <<dbVars, said, disturbed>>
      BY <2>1, <2>2, SplitKept DEF dbVars
    <2>3. CASE ~UNCHANGED <<dbVars, said, disturbed>>
      <3>1. said' = {}
        BY <1>8, <2>3 DEF Erase
      <3>2. disturbed' = (disturbed \/ \E q \in Reqs : pc[q] = "summary")
        BY <1>8, <2>3, Zenon DEF Erase
      <3>3. ~disturbed' => ~disturbed /\ \A q \in Reqs : pc[q] # "summary"
        BY <3>2
      <3> QED BY <2>1, <3>1, <3>3 DEF SplitInv, SplitsKept
    <2> QED BY <2>2, <2>3
  <1>9. CASE Restart
    <2>1. UNCHANGED <<msgs, said, disturbed>> /\ \A q \in Reqs : pc'[q] = "idle"
      BY <1>9 DEF Restart, dbVars, ghosts
    <2> QED BY <2>1, SplitKept DEF SplitsKept
  <1>10. CASE UNCHANGED vars
    BY <1>10, SplitKept DEF vars, dbVars, ghosts, reqVars, SplitsKept
  <1> QED
    BY <1>1, <1>2, <1>3, <1>4, <1>5, <1>6, <1>7, <1>8, <1>9, <1>10 DEF Next, Step, Send, Compress

-----------------------------------------------------------------------------
(* The audit log.                                                          *)
LEMMA TraceNext ==
    ASSUME ShapeInv, Traceable, [Next]_vars
    PROVE  Traceable'
  <1>0. RequestTypes /\ StoreTypes
    BY DEF ShapeInv
  <1> DEFINE Logging == {"log", "finish"}
  <1>K. ASSUME said' \subseteq said, audit \subseteq audit', unlogged \subseteq unlogged',
               \A q \in Reqs : pc[q] \in Logging =>
                  \/ mine[q] \in said => mine[q] \in audit' \cup unlogged'
                  \/ mine'[q] = mine[q] /\ pc'[q] \in Logging
        PROVE  Traceable'
    BY <1>K DEF Traceable
  <1>1. ASSUME NEW r \in Reqs, Request(r) \/ InsertSession(r) \/ ComposePrompt(r) \/ Lookup(r) \/ ReadRow(r)
                 \/ PutCache(r) \/ ReadStatus(r) \/ UpdateRow(r) \/ MarkArchived(r) \/ Uncache(r)
        PROVE  Traceable'
    <2>1. UNCHANGED <<audit, said, unlogged>> /\ pc[r] \notin Logging
      BY <1>1 DEF Request, InsertSession, ComposePrompt, Lookup, ReadRow, PutCache, ReadStatus, UpdateRow,
              MarkArchived, Uncache, dbVars, ghosts
    <2> QED BY <1>0, <1>1, <1>K, <2>1, StepMoves DEF Step
  <1>2. ASSUME NEW r \in Reqs, CheckStatus(r) \/ ComposeIncoming(r) \/ Compress(r) \/ Answered(r)
                 \/ Unanswered(r) \/ Recache(r)
        PROVE  Traceable'
    <2>1. UNCHANGED <<audit, said, unlogged>> /\ pc[r] \notin Logging
      BY <1>2 DEF CheckStatus, ComposeIncoming, Compress, CompressRead, CompressReread, ComposeSummary,
              CompressApply, CompressFails, Answered, Unanswered, Recache, dbVars, ghosts
    <2> QED BY <1>0, <1>2, <1>K, <2>1, StepMoves DEF Step, Send
  <1>3. ASSUME NEW r \in Reqs, InsertPrompt(r) \/ InsertIncoming(r) \/ InsertAnswer(r) PROVE Traceable'
    <2>1. audit' = audit /\ unlogged \subseteq unlogged' /\ pc[r] \notin Logging
      BY <1>3 DEF InsertPrompt, InsertIncoming, InsertAnswer
    <2>2. \A q \in Reqs : pc[q] \in Logging => mine'[q] = mine[q] /\ pc'[q] = pc[q]
      BY <1>0, <1>3, <2>1, StepMoves DEF Step, Send
    <2>3. \/ said' = said
          \/ said' = said \cup {mine[r]} /\ mine[r] \in unlogged'
          \/ said' = said \cup {mine[r]} /\ mine'[r] = mine[r] /\ pc'[r] \in Logging
      BY <1>0, <1>3 DEF InsertPrompt, InsertIncoming, InsertAnswer, Store, Goto, RequestTypes
    <2> QED BY <2>1, <2>2, <2>3 DEF Traceable
  <1>4. ASSUME NEW r \in Reqs, LogIncoming(r) \/ LogAnswer(r) PROVE Traceable'
    <2>1. /\ audit \subseteq audit' /\ unlogged \subseteq unlogged' /\ said' = said
          /\ mine[r] \in said => mine[r] \in audit' \cup unlogged'
      BY <1>4 DEF LogIncoming, LogAnswer, AuditLog
    <2>2. \A q \in Reqs : q # r => mine'[q] = mine[q] /\ pc'[q] = pc[q]
      BY <1>0, <1>4, StepMoves DEF Step, Send
    <2> QED BY <1>K, <2>1, <2>2
  <1>5. ASSUME NEW r \in Reqs, Erase(r) PROVE Traceable'
    <2>1. pc[r] = "erase"
      BY <1>5 DEF Erase
    <2>2. \A q \in Reqs : q # r => mine'[q] = mine[q] /\ pc'[q] = pc[q]
      BY <1>0, <1>5, StepMoves DEF Step
    <2>3. UNCHANGED <<audit, said, unlogged>> \/ said' = {}
      BY <1>5 DEF Erase, dbVars
    <2>4. CASE UNCHANGED <<audit, said, unlogged>>
      BY <1>K, <2>1, <2>2, <2>4
    <2>5. CASE said' = {}
      BY <2>5 DEF Traceable
    <2> QED BY <2>3, <2>4, <2>5
  <1>6. CASE Restart
    <2>1. /\ UNCHANGED <<audit, said>>
          /\ unlogged' = unlogged \cup (said \cap {mine[q] : q \in {p \in Reqs : pc[p] \in Logging}})
      BY <1>6 DEF Restart, dbVars
    <2> QED BY <1>K, <2>1
  <1>7. CASE UNCHANGED vars
    BY <1>7, <1>K DEF vars, dbVars, ghosts, reqVars
  <1> QED
    BY <1>1, <1>2, <1>3, <1>4, <1>5, <1>6, <1>7 DEF Next, Step, Send

-----------------------------------------------------------------------------
(* The session is created once.                                            *)
LEMMA CreatesLeft ==
    ASSUME left \in [Events -> Nat], NEW e \in Events, Happens(e), e # "create"
    PROVE  left'["create"] = left["create"]
  BY DEF Happens, Events, Ops

LEMMA StepsCreateNothing ==
    ASSUME StoreTypes, NEW r \in Reqs, Step(r)
    PROVE  pc[r] # "idle" /\ left'["create"] = left["create"]
  <1>0. left \in [Events -> Nat]
    BY DEF StoreTypes
  <1>1. Fails \/ Works \/ Happens("prompt") => left'["create"] = left["create"]
    BY <1>0, CreatesLeft DEF Fails, Works, Events, Ops
  <1>2. pc[r] # "idle" /\ (Fails \/ Works \/ Happens("prompt"))
    <2>1. CASE InsertSession(r) \/ ComposePrompt(r) \/ InsertPrompt(r) \/ Lookup(r) \/ ReadRow(r) \/ PutCache(r)
      BY <2>1 DEF InsertSession, ComposePrompt, InsertPrompt, Lookup, ReadRow, PutCache, Works
    <2>2. CASE CheckStatus(r) \/ ComposeIncoming(r) \/ InsertIncoming(r) \/ LogIncoming(r) \/ Answered(r)
                 \/ Unanswered(r) \/ InsertAnswer(r) \/ LogAnswer(r) \/ Recache(r)
      BY <2>2 DEF CheckStatus, ComposeIncoming, InsertIncoming, LogIncoming, AuditLog, Answered, Unanswered,
            InsertAnswer, LogAnswer, Recache, Works
    <2>3. CASE Compress(r)
      BY <2>3 DEF Compress, CompressRead, CompressReread, ComposeSummary, CompressApply, CompressFails, Works
    <2>4. CASE ReadStatus(r) \/ UpdateRow(r) \/ MarkArchived(r) \/ Uncache(r) \/ Erase(r)
      BY <2>4 DEF ReadStatus, UpdateRow, MarkArchived, Uncache, Erase, Works
    <2> QED BY <2>1, <2>2, <2>3, <2>4 DEF Step, Send
  <1> QED BY <1>1, <1>2

LEMMA BirthNext ==
    ASSUME ShapeInv, BirthInv, [Next]_vars
    PROVE  BirthInv'
  <1>0. RequestTypes /\ StoreTypes
    BY DEF ShapeInv
  <1>L. left["create"] \in Nat /\ left \in [Events -> Nat]
    BY <1>0 DEF StoreTypes, Events, Ops
  <1>1. ASSUME NEW r \in Reqs, Request(r) PROVE BirthInv'
    <2>1. PICK o \in Ops :
             /\ Happens(o)
             /\ o = "create" \/ row # None \/ deleted
             /\ Goto(r, CASE o = "create" -> "create" [] o = "delete" -> "uncache" [] OTHER -> "lookup")
      BY <1>1 DEF Request
    <2>2. pc[r] = "idle" /\ UNCHANGED <<row, cache, deleted>>
      BY <1>1 DEF Request, dbVars
    <2>3. CASE o = "create"
      <3>1. left["create"] = 1 /\ left'["create"] = 0
        BY <1>L, <2>1, <2>3 DEF BirthInv, Happens, Events
      <3>2. pc' = [pc EXCEPT ![r] = "create"]
        BY <2>1, <2>3 DEF Goto
      <3>3. \A q \in Reqs : q # r => pc'[q] = "idle"
        BY <1>0, <3>1, <3>2 DEF BirthInv, RequestTypes
      <3> QED BY <2>2, <3>1, <3>3 DEF BirthInv, Unborn
    <2>4. CASE o # "create"
      <3>1. (CASE o = "create" -> "create" [] o = "delete" -> "uncache" [] OTHER -> "lookup")
               \in {"uncache", "lookup"}
        BY <2>4
      <3>2. PICK l \in {"uncache", "lookup"} : pc' = [pc EXCEPT ![r] = l]
        BY <2>1, <3>1 DEF Goto
      <3>3. left["create"] = 0 /\ left'["create"] = 0
        BY <1>L, <2>1, <2>4, CreatesLeft DEF BirthInv, Unborn, Events
      <3>4. \A q \in Reqs : pc'[q] # "create"
        BY <1>0, <2>1, <2>4, <3>2 DEF BirthInv, Unborn, RequestTypes
      <3> QED BY <3>3, <3>4 DEF BirthInv
    <2> QED BY <2>3, <2>4
  <1>2. ASSUME NEW r \in Reqs, Step(r) PROVE BirthInv'
    <2>1. pc[r] # "idle" /\ left'["create"] = left["create"]
      BY <1>0, <1>2, StepsCreateNothing
    <2>2. pc'[r] # "create" /\ \A q \in Reqs : q # r => pc'[q] = pc[q]
      BY <1>0, <1>2, <2>1, StepMoves DEF Moves
    <2>3. left["create"] = 0
      BY <1>L, <2>1 DEF BirthInv
    <2>4. \A q \in Reqs : pc'[q] # "create"
      BY <2>1, <2>2 DEF BirthInv
    <2> QED BY <2>1, <2>3, <2>4 DEF BirthInv
  <1>3. CASE Restart
    <2>1. row # None /\ Happens("restart") /\ \A q \in Reqs : pc'[q] = "idle"
      BY <1>3 DEF Restart
    <2>2. left["create"] = 0 /\ left'["create"] = left["create"]
      BY <1>L, <2>1, CreatesLeft DEF BirthInv, Unborn, Events
    <2> QED BY <2>1, <2>2 DEF BirthInv
  <1>4. CASE UNCHANGED vars
    BY <1>4 DEF BirthInv, Unborn, vars, dbVars, ghosts, reqVars
  <1> QED BY <1>1, <1>2, <1>3, <1>4 DEF Next

-----------------------------------------------------------------------------
(* Deletion.                                                               *)
LEMMA StepsDeleteNothing ==
    ASSUME NEW r \in Reqs, Step(r), ~Uncache(r), ~Erase(r)
    PROVE  /\ raced' = raced /\ deleted' = deleted /\ pc[r] \notin {"idle", "erase", "uncache"}
           /\ pc[r] = "lookup" => Lookup(r)
           /\ pc[r] = "read" => ReadRow(r)
  <1>1. CASE InsertSession(r) \/ ComposePrompt(r) \/ InsertPrompt(r) \/ Lookup(r) \/ ReadRow(r) \/ PutCache(r)
               \/ ReadStatus(r) \/ UpdateRow(r) \/ MarkArchived(r)
    BY <1>1 DEF InsertSession, ComposePrompt, InsertPrompt, Lookup, ReadRow, PutCache, ReadStatus, UpdateRow,
          MarkArchived, ghosts
  <1>2. CASE CheckStatus(r) \/ ComposeIncoming(r) \/ InsertIncoming(r) \/ LogIncoming(r) \/ Answered(r)
               \/ Unanswered(r) \/ InsertAnswer(r) \/ LogAnswer(r) \/ Recache(r)
    BY <1>2 DEF CheckStatus, ComposeIncoming, InsertIncoming, LogIncoming, Answered, Unanswered, InsertAnswer,
          LogAnswer, Recache, ghosts
  <1>3. CASE Compress(r)
    BY <1>3 DEF Compress, CompressRead, CompressReread, ComposeSummary, CompressApply, CompressFails, ghosts
  <1> QED BY <1>1, <1>2, <1>3 DEF Step, Send

LEMMA DeleteNext ==
    ASSUME ShapeInv, BirthInv, DeleteInv, [Next]_vars
    PROVE  DeleteInv'
  <1>0. RequestTypes /\ StoreTypes
    BY DEF ShapeInv
  <1>1. ASSUME NEW r \in Reqs, Request(r), ~raced' PROVE DeleteInv'
    <2>1. ~raced /\ \A q \in Reqs : pc[q] # "erase"
      <3>1. raced' = (raced \/ \E q \in Reqs : pc[q] = "erase")
        BY <1>1, Zenon DEF Request
      <3> QED BY <1>1, <3>1
    <2>2. UNCHANGED <<row, msgs, audit, cache, deleted>> /\ pc[r] = "idle"
      BY <1>1 DEF Request, dbVars
    <2>3. pc'[r] # "erase" /\ pc'[r] \in Empty /\ \A q \in Reqs : q # r => pc'[q] = pc[q]
      BY <1>0, <1>1, <2>2, StepMoves DEF Moves, Empty
    <2> QED BY <2>1, <2>2, <2>3 DEF DeleteInv
  <1>2. ASSUME NEW r \in Reqs, Step(r), ~Uncache(r), ~Erase(r), ~raced' PROVE DeleteInv'
    <2>1. ~raced /\ deleted' = deleted
      BY <1>2, StepsDeleteNothing
    <2>2. pc[r] \notin {"idle", "erase", "uncache"}
      BY <1>2, StepsDeleteNothing
    <2>3. \A q \in Reqs : q # r => pc'[q] = pc[q] /\ pc[q] # "erase"
      BY <1>0, <1>2, <2>1, <2>2, StepMoves DEF DeleteInv
    <2>4. pc'[r] # "erase"
      BY <1>0, <1>2, <2>2, StepMoves DEF Moves
    <2>5. ASSUME deleted
          PROVE  /\ row' = None /\ cache' = None /\ msgs' = {} /\ audit' = {}
                 /\ pc'[r] \in Empty /\ \A q \in Reqs : pc[q] \in Empty
      <3>1. /\ row = None /\ cache = None /\ msgs = {} /\ audit = {}
            /\ \A q \in Reqs : pc[q] \in Empty
        BY <2>1, <2>5 DEF DeleteInv
      <3>2. pc[r] # "create"
        BY <2>5 DEF BirthInv, Unborn
      <3>3. pc[r] \in {"lookup", "read"}
        BY <2>2, <3>1, <3>2 DEF Empty
      <3>4. Lookup(r) \/ ReadRow(r)
        BY <1>2, <3>3, StepsDeleteNothing
      <3>5. UNCHANGED <<row, cache, msgs, audit>>
        BY <3>4 DEF Lookup, ReadRow, dbVars
      <3>6. Return(r) \/ Goto(r, "read")
        BY <3>1, <3>4 DEF Lookup, ReadRow
      <3>7. pc'[r] \in Empty
        BY <1>0, <3>6 DEF Return, Goto, RequestTypes, Empty
      <3> QED BY <3>1, <3>5, <3>7
    <2> QED BY <2>1, <2>3, <2>4, <2>5 DEF DeleteInv
  <1>3. ASSUME NEW r \in Reqs, Uncache(r), ~raced' PROVE DeleteInv'
    <2>1. ~raced /\ \A q \in Reqs : q # r => pc[q] = "idle"
      <3>1. raced' = (raced \/ \E q \in Reqs \ {r} : pc[q] # "idle")
        BY <1>3, Zenon DEF Uncache
      <3> QED BY <1>3, <3>1
    <2>2. /\ UNCHANGED <<row, msgs, audit, deleted>> /\ cache' = None
          /\ pc' = [pc EXCEPT ![r] = "erase"]
      BY <1>3 DEF Uncache, Goto, dbVars
    <2>3. \A q \in Reqs : q # r => pc'[q] = "idle"
      BY <1>0, <2>1, <2>2 DEF RequestTypes
    <2>4. pc'[r] = "erase"
      BY <1>0, <2>2 DEF RequestTypes
    <2> QED BY <2>1, <2>2, <2>3, <2>4 DEF DeleteInv, Empty
  <1>4. ASSUME NEW r \in Reqs, Erase(r), ~raced' PROVE DeleteInv'
    <2>1. ~raced /\ cache' = cache /\ pc[r] = "erase"
      BY <1>4 DEF Erase
    <2>2. \A q \in Reqs : pc'[q] = "idle"
      <3>1. \A q \in Reqs : q # r => pc'[q] = "idle"
        BY <1>0, <1>4, <2>1, StepMoves DEF Step, DeleteInv
      <3>2. pc'[r] = "idle"
        BY <1>0, <1>4, ReturnMoves DEF Erase
      <3> QED BY <3>1, <3>2
    <2>3. cache' = None
      BY <2>1 DEF DeleteInv
    <2>4. deleted' => row' = None /\ msgs' = {} /\ audit' = {}
      <3>1. CASE UNCHANGED <<dbVars, deleted>>
        BY <2>1, <3>1 DEF DeleteInv, dbVars
      <3>2. CASE row' = None /\ msgs' = {} /\ audit' = {}
        BY <3>2
      <3> QED BY <1>4, <3>1, <3>2 DEF Erase
    <2> QED BY <2>2, <2>3, <2>4 DEF DeleteInv, Empty
  <1>5. ASSUME Restart, ~raced' PROVE DeleteInv'
    <2>1. ~raced /\ row # None /\ deleted' = deleted /\ \A q \in Reqs : pc'[q] = "idle"
      BY <1>5 DEF Restart
    <2>2. ~deleted
      BY <2>1 DEF DeleteInv
    <2> QED BY <2>1, <2>2 DEF DeleteInv
  <1>6. CASE UNCHANGED vars
    BY <1>6 DEF DeleteInv, vars, dbVars, ghosts, reqVars
  <1>7. CASE raced'
    BY <1>7 DEF DeleteInv
  <1> QED BY <1>1, <1>2, <1>3, <1>4, <1>5, <1>6, <1>7 DEF Next

-----------------------------------------------------------------------------
(* Sharing of the session object.                                          *)
LEMMA ObjectKept ==
    ASSUME ObjectInv, UNCHANGED <<twins, late, heap>>, Held' \subseteq Held,
           ~twins /\ ~late /\ row' = "archived" =>
              row = "archived" \/ \E a \in Held : heap[a] = "archived",
           \A q \in Reqs : pc'[q] = "write" =>
              \/ pc[q] = "write" /\ word'[q] = word[q] /\ ptr'[q] = ptr[q]
              \/ word'[q] = heap[ptr'[q]]
    PROVE  ObjectInv'
  <1>1. ASSUME ~twins PROVE \A a, b \in Held' : a = b
    BY <1>1 DEF ObjectInv
  <1>2. ASSUME ~twins, ~late
        PROVE  /\ row' = "archived" => \A a \in Held' : heap'[a] = "archived"
               /\ \A q \in Reqs : pc'[q] = "write" => word'[q] = heap'[ptr'[q]]
    BY <1>2 DEF ObjectInv
  <1> QED BY <1>1, <1>2 DEF ObjectInv

(* No new object is held, and the request does not come to its UPDATE.     *)
LEMMA ObjectPlain ==
    ASSUME ShapeInv, ObjectInv, NEW r \in Reqs, Request(r) \/ Step(r), pc[r] # "save",
           UNCHANGED <<twins, late, heap>>, row' \in {row, None},
           ptr'[r] \in {ptr[r], cache, None}, cache' \in {ptr[r], cache, None}
    PROVE  ObjectInv'
  <1>1. pc'[r] # "write" /\ \A q \in Reqs : q # r => pc'[q] = pc[q] /\ word'[q] = word[q] /\ ptr'[q] = ptr[q]
    BY StepMoves DEF ShapeInv, Moves
  <1>2. Held' \subseteq Held
    BY <1>1 DEF Held
  <1>3. row' = "archived" => row = "archived"
    BY NoneIsNoObject DEF Statuses
  <1> QED BY <1>1, <1>2, <1>3, ObjectKept

LEMMA HeldIsIn ==
    ASSUME ShapeInv, NEW r \in Reqs, pc[r] \notin Empty
    PROVE  ptr[r] \in Objs /\ ptr[r] \in Held /\ ptr[r] # None
  BY NoneIsNoObject DEF ShapeInv, RequestTypes, Held

LEMMA ObjectNext ==
    ASSUME ShapeInv, BirthInv, ObjectInv, [Next]_vars
    PROVE  ObjectInv'
  <1>0. RequestTypes /\ StoreTypes
    BY DEF ShapeInv
  <1>R. ASSUME NEW r \in Reqs, Return(r) PROVE ptr'[r] = None
    BY <1>0, <1>R, ReturnMoves
  <1>1. ASSUME NEW r \in Reqs, Request(r) \/ ComposePrompt(r) \/ InsertPrompt(r) \/ CheckStatus(r)
                 \/ ComposeIncoming(r) \/ InsertIncoming(r) \/ LogIncoming(r)
                 \/ Answered(r) \/ Unanswered(r) \/ InsertAnswer(r) \/ LogAnswer(r)
        PROVE  ObjectInv'
    <2>1. UNCHANGED <<row, cache, heap, twins, late>> /\ pc[r] # "save"
      BY <1>1 DEF Request, ComposePrompt, InsertPrompt, CheckStatus, ComposeIncoming, InsertIncoming, LogIncoming,
              Answered, Unanswered, InsertAnswer, LogAnswer, dbVars, ghosts
    <2>2. UNCHANGED ptr \/ Return(r)
      BY <1>1 DEF Request, ComposePrompt, InsertPrompt, CheckStatus, ComposeIncoming, InsertIncoming, LogIncoming,
              Answered, Unanswered, InsertAnswer, LogAnswer
    <2> QED BY <1>1, <1>R, <2>1, <2>2, ObjectPlain DEF Step, Send
  <1>2. ASSUME NEW r \in Reqs, Compress(r) PROVE ObjectInv'
    <2>1. UNCHANGED <<row, cache, heap, twins, late, ptr>> /\ pc[r] # "save"
      BY <1>2 DEF Compress, CompressRead, CompressReread, ComposeSummary, CompressApply, CompressFails,
              dbVars, ghosts
    <2> QED BY <1>2, <2>1, ObjectPlain DEF Step, Send
  <1>3. ASSUME NEW r \in Reqs, Lookup(r) \/ PutCache(r) \/ Recache(r) PROVE ObjectInv'
    <2>1. UNCHANGED <<row, heap, twins, late>> /\ pc[r] # "save" /\ cache' \in {cache, ptr[r]}
      BY <1>3 DEF Lookup, PutCache, Recache, dbVars, ghosts
    <2>2. UNCHANGED ptr \/ Return(r) \/ Found(r, cache) \/ Found(r, ptr[r])
      BY <1>3 DEF Lookup, PutCache, Recache
    <2>3. ptr'[r] \in {ptr[r], cache, None}
      BY <1>0, <1>R, <2>2, FoundMoves
    <2> QED BY <1>3, <2>1, <2>3, ObjectPlain DEF Step, Send
  <1>4. ASSUME NEW r \in Reqs, InsertSession(r) PROVE ObjectInv'
    <2>1. pc[r] = "create" /\ UNCHANGED <<cache, twins, late>>
      BY <1>4 DEF InsertSession, ghosts
    <2>2. CASE Return(r) /\ UNCHANGED <<row, heap>>
      BY <1>4, <1>R, <2>1, <2>2, ObjectPlain DEF Step
    <2>3. CASE ~(Return(r) /\ UNCHANGED <<row, heap>>)
      <3>1. row' = "active" /\ ptr' = [ptr EXCEPT ![r] = FreshObj] /\ pc' = [pc EXCEPT ![r] = "compose"]
        BY <1>4, <2>3 DEF InsertSession, Goto
      <3>2. cache = None /\ \A q \in Reqs : q # r => pc[q] = "idle" /\ ptr[q] = None
        BY <1>0, <2>1 DEF BirthInv, Unborn, RequestTypes, Empty
      <3>3. \A q \in Reqs : pc'[q] # "write" /\ (q # r => ptr'[q] = None)
        BY <1>0, <3>1, <3>2 DEF RequestTypes
      <3>4. \A a, b \in Held' : a = b
        BY <2>1, <3>2, <3>3 DEF Held
      <3> QED BY <3>1, <3>3, <3>4 DEF ObjectInv
    <2> QED BY <2>2, <2>3
  <1>5. ASSUME NEW r \in Reqs, ReadRow(r) PROVE ObjectInv'
    <2>1. pc[r] = "read" /\ UNCHANGED <<row, cache, late>>
      BY <1>5 DEF ReadRow, dbVars
    <2>2. CASE Return(r) /\ UNCHANGED <<heap, twins>>
      BY <1>5, <1>R, <2>1, <2>2, ObjectPlain DEF Step
    <2>3. CASE ~(Return(r) /\ UNCHANGED <<heap, twins>>)
      <3>1. /\ ptr' = [ptr EXCEPT ![r] = FreshObj] /\ pc' = [pc EXCEPT ![r] = "cache"]
            /\ heap' = [heap EXCEPT ![FreshObj] = row]
        BY <1>5, <2>3 DEF ReadRow, Goto
      <3>2. twins' = (twins \/ Held # {})
        BY <1>5, <2>3, Zenon DEF ReadRow
      <3> SUFFICES ASSUME ~twins' PROVE ObjectInv'
        BY DEF ObjectInv
      <3>3. Held = {}
        BY <3>2
      <3>4. FreshObj \in Objs
        BY <1>0, <2>1, FreshIsFree DEF RequestTypes, Empty
      <3>5. heap'[FreshObj] = row
        BY <1>0, <3>1, <3>4 DEF StoreTypes
      <3>6. \A q \in Reqs : ptr[q] = None /\ pc[q] # "write"
        <4>1. \A q \in Reqs : ptr[q] = None
          BY <3>3 DEF Held
        <4> QED BY <1>0, <4>1 DEF RequestTypes, Empty
      <3>7. \A q \in Reqs : pc'[q] # "write" /\ ptr'[q] \in {None, FreshObj}
        BY <1>0, <3>1, <3>6 DEF RequestTypes
      <3>8. \A a \in Held' : a = FreshObj
        BY <2>1, <3>3, <3>7 DEF Held
      <3> QED BY <2>1, <3>5, <3>7, <3>8 DEF ObjectInv
    <2> QED BY <2>2, <2>3
  <1>6. ASSUME NEW r \in Reqs, ReadStatus(r) PROVE ObjectInv'
    <2>1. UNCHANGED <<row, cache, heap, twins, late, ptr>> /\ word' = [word EXCEPT ![r] = heap[ptr[r]]]
      BY <1>6 DEF ReadStatus, dbVars, ghosts
    <2>2. \A q \in Reqs : q # r => pc'[q] = pc[q] /\ word'[q] = word[q]
      BY <1>0, <1>6, StepMoves DEF Step
    <2>3. word'[r] = heap[ptr'[r]] /\ Held' = Held
      BY <1>0, <2>1 DEF RequestTypes, Held
    <2> QED BY <2>1, <2>2, <2>3, ObjectKept
  <1>7. ASSUME NEW r \in Reqs, UpdateRow(r) PROVE ObjectInv'
    <2>1. /\ UNCHANGED <<cache, heap, twins, late>> /\ pc[r] = "write" /\ row' \in {row, None, word[r]}
          /\ UNCHANGED ptr \/ Return(r)
      BY <1>7 DEF UpdateRow, ghosts
    <2>2. /\ pc'[r] # "write"
          /\ \A q \in Reqs : q # r => pc'[q] = pc[q] /\ word'[q] = word[q] /\ ptr'[q] = ptr[q]
      BY <1>0, <1>7, <2>1, StepMoves DEF Step, Moves
    <2>3. ptr[r] \in Held /\ ptr'[r] \in {ptr[r], None}
      BY <1>0, <1>R, <2>1, HeldIsIn DEF Empty
    <2>4. Held' \subseteq Held
      BY <2>1, <2>2, <2>3 DEF Held
    <2>5. ASSUME ~twins, ~late, row' = "archived"
          PROVE  row = "archived" \/ \E a \in Held : heap[a] = "archived"
      <3>1. word[r] = heap[ptr[r]] /\ None # "archived"
        BY <2>1, <2>5, NoneIsNoObject DEF ObjectInv, Statuses
      <3> QED BY <2>1, <2>3, <2>5, <3>1
    <2> QED BY <2>1, <2>2, <2>4, <2>5, ObjectKept
  <1>8. ASSUME NEW r \in Reqs, MarkArchived(r) PROVE ObjectInv'
    <2>1. /\ UNCHANGED <<row, cache, ptr, word, twins>> /\ pc[r] = "mark" /\ pc' = [pc EXCEPT ![r] = "save"]
          /\ heap' = [heap EXCEPT ![ptr[r]] = "archived"]
      BY <1>8 DEF MarkArchived, Goto, dbVars
    <2>2. late' = (late \/ \E q \in Reqs : pc[q] = "write" /\ word[q] = "active")
      BY <1>8, Zenon DEF MarkArchived
    <2>3. ptr[r] \in Objs /\ ptr[r] \in Held /\ heap \in [Objs -> Statuses] /\ Held' = Held
      BY <1>0, <2>1, HeldIsIn DEF Empty, StoreTypes, Held
    <2> SUFFICES ASSUME ~twins PROVE ObjectInv'
      BY <2>1 DEF ObjectInv
    <2>4. \A a \in Held : a = ptr[r] /\ heap'[a] = "archived"
      BY <2>1, <2>3 DEF ObjectInv
    <2>5. ASSUME ~late', NEW q \in Reqs, pc'[q] = "write" PROVE word'[q] = heap'[ptr'[q]]
      <3>1. pc[q] = "write"
        BY <1>0, <2>1, <2>5 DEF RequestTypes
      <3>2. word[q] = "archived"
        BY <1>0, <2>2, <2>5, <3>1 DEF RequestTypes, Statuses
      <3>3. ptr[q] \in Held
        BY <3>1, HeldIsIn DEF Empty
      <3> QED BY <2>1, <2>4, <3>2, <3>3
    <2> QED BY <2>1, <2>3, <2>4, <2>5 DEF ObjectInv
  <1>9. ASSUME NEW r \in Reqs, Uncache(r) \/ Erase(r) PROVE ObjectInv'
    <2>1. /\ UNCHANGED <<heap, twins, late>> /\ cache' \in {cache, None} /\ row' \in {row, None}
          /\ pc[r] # "save" /\ (UNCHANGED ptr \/ Return(r))
      BY <1>9 DEF Uncache, Erase, dbVars
    <2> QED BY <1>9, <1>R, <2>1, ObjectPlain DEF Step
  <1>10. CASE Restart
    <2>1. Held' = {} /\ \A q \in Reqs : pc'[q] = "idle"
      BY <1>10 DEF Restart, Held
    <2> QED BY <2>1 DEF ObjectInv
  <1>11. CASE UNCHANGED vars
    BY <1>11 DEF ObjectInv, Held, vars, dbVars, ghosts, reqVars
  <1> QED
    BY <1>1, <1>2, <1>3, <1>4, <1>5, <1>6, <1>7, <1>8, <1>9, <1>10, <1>11 DEF Next, Step, Send

-----------------------------------------------------------------------------
AgentInv == ShapeInv /\ SplitInv /\ Traceable /\ BirthInv /\ DeleteInv /\ ObjectInv

LEMMA AgentInit == Init => AgentInv
  <1> SUFFICES ASSUME Init PROVE AgentInv
    OBVIOUS
  <1>1. ShapeInv
    BY ShapeInit
  <1>2. SplitInv /\ Traceable /\ DeleteInv
    BY DEF Init, SplitInv, Traceable, DeleteInv, Empty
  <1>3. ObjectInv
    <2>1. Held = {}
      BY DEF Init, Held
    <2> QED BY <2>1, NoneIsNoObject DEF Init, ObjectInv
  <1>4. BirthInv
    <2>1. left["create"] <= 1
      BY SessionAssumption DEF Init
    <2> QED BY <2>1 DEF Init, BirthInv, Unborn
  <1> QED BY <1>1, <1>2, <1>3, <1>4 DEF AgentInv

LEMMA AgentNext == AgentInv /\ [Next]_vars => AgentInv'
  BY ShapeNext, SplitNext, TraceNext, BirthNext, DeleteNext, ObjectNext DEF AgentInv

LEMMA AgentHolds == Spec => []AgentInv
  BY AgentInit, AgentNext, PTL DEF Spec

(* NothingForgotten (coding_agent.go:206-212, 482-588, db.go:584-632):     *)
(* every message stored is there or in a summary, unless the messages      *)
(* before a split point changed during the call for its summary: by        *)
(* another compression, a deletion or a message that had been overtaken.   *)
THEOREM MessagesKept == Spec => []NothingForgotten
  <1>1. AgentInv => NothingForgotten
    BY DEF AgentInv, ShapeInv, RequestTypes, StoreTypes, Snaps, SplitInv, NothingForgotten, TypeOK
  <1> QED BY <1>1, AgentHolds, PTL

(* Traceable (coding_agent.go:219, 312, 679-681): a message stored is in   *)
(* the audit log or its request is about to log it, but the session's own  *)
(* prompt, messages whose entry failed and those in hand at a crash.       *)
THEOREM MessagesLogged == Spec => []Traceable
  <1>1. AgentInv => Traceable
    BY DEF AgentInv
  <1> QED BY <1>1, AgentHolds, PTL

(* DeletedStaysDeleted (coding_agent.go:602, db.go:514-534): a deletion    *)
(* that no request overlaps is for good.                                   *)
THEOREM DeletedForGood == Spec => []DeletedStaysDeleted
  <1>1. AgentInv => DeletedStaysDeleted
    BY DEF AgentInv, DeleteInv, DeletedStaysDeleted
  <1> QED BY <1>1, AgentHolds, PTL

(* ArchivedStays (coding_agent.go:157-175, 318, 591-598, db.go:504-511):   *)
(* while all requests share one object, the only UPDATE that can undo an   *)
(* archiving is one that read "active" before the object was marked.       *)
THEOREM ArchivedForGood == Spec => ArchivedStays
  <1> DEFINE Stays == row = "archived" /\ row' # None => row' = "archived" \/ late \/ twins
  <1>1. ASSUME AgentInv, [Next]_vars PROVE [Stays]_vars
    <2> SUFFICES ASSUME row = "archived", row' # None, ~late, ~twins, row' # row
                 PROVE  FALSE
      OBVIOUS
    <2>1. PICK r \in Reqs : InsertSession(r) \/ UpdateRow(r)
      <3>1. ASSUME NEW r \in Reqs, Request(r) \/ Step(r) PROVE InsertSession(r) \/ UpdateRow(r)
        <4>1. ~(Request(r) \/ ComposePrompt(r) \/ InsertPrompt(r) \/ Lookup(r) \/ ReadRow(r) \/ PutCache(r)
                  \/ ReadStatus(r) \/ MarkArchived(r) \/ Uncache(r) \/ Erase(r))
          BY DEF Request, ComposePrompt, InsertPrompt, Lookup, ReadRow, PutCache, ReadStatus, MarkArchived,
                 Uncache, Erase, dbVars
        <4>2. ~Send(r)
          BY DEF Send, CheckStatus, ComposeIncoming, InsertIncoming, LogIncoming, Compress, CompressRead,
                 CompressReread, ComposeSummary, CompressApply, CompressFails, Answered, Unanswered, InsertAnswer,
                 LogAnswer, Recache, dbVars
        <4> QED BY <3>1, <4>1, <4>2 DEF Step
      <3>2. ~Restart /\ ~UNCHANGED vars
        BY DEF Restart, vars, dbVars
      <3> QED BY <1>1, <3>1, <3>2 DEF Next
    <2>2. ~InsertSession(r)
      BY <1>1, NoneIsNoObject DEF AgentInv, BirthInv, Unborn, InsertSession, Statuses
    <2>3. pc[r] = "write" /\ row' = word[r]
      BY <2>1, <2>2 DEF UpdateRow
    <2>4. word[r] = heap[ptr[r]] /\ ptr[r] \in Held
      BY <1>1, <2>3, HeldIsIn DEF AgentInv, ObjectInv, Empty
    <2>5. heap[ptr[r]] = "archived"
      BY <1>1, <2>4 DEF AgentInv, ObjectInv
    <2> QED BY <2>3, <2>4, <2>5
  <1> QED BY <1>1, AgentHolds, PTL DEF Spec, ArchivedStays
=============================================================================

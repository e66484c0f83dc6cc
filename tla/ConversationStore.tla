-------------------------- MODULE ConversationStore --------------------------
(***************************************************************************)
(* The conversation memory of the MCP server (apps/mcp/internal): the      *)
(* StorageClient in Badger, the one in memory that the server falls back   *)
(* to, and the answers of the memory tools.                                *)
(*                                                                         *)
(* The content of a message is the set of texts that it contains, case     *)
(* ignored.  The three keys of a message in Badger are written in one      *)
(* transaction and are functions of the message, so the database is the    *)
(* set of messages; a type has no ":".                                     *)
(***************************************************************************)
EXTENDS Integers, SequencesExt

CONSTANTS
    Contexts,       \* context IDs
    NoContext,      \* ""
    WithColon,      \* the context IDs that contain ":"
    MessageIds,     \* bound: the UUIDs that are drawn, as numbers in key order
    Texts,          \* the texts that are searched for
    Types,          \* message types
    MemoryType,     \* MessageTypeMemory
    DefaultLimit,   \* the limit in place of one that is not positive
    StorageErrors   \* a Badger transaction may fail

VARIABLES
    backend,       \* the client that was opened
    db,            \* the messages in Badger, by ID
    memory,        \* messages of the MemoryStorageClient, by ID
    timeIndex,     \* timeIndex of the MemoryStorageClient
    storeContext,  \* contextID of the client
    lives,         \* the process that runs
    acked          \* history: the stored messages, with the client and process that stored them

storeVars == <<backend, db, memory, timeIndex, storeContext, lives, acked>>

ASSUME StoreAssumption ==
    /\ NoContext \notin Contexts
    /\ WithColon \subseteq Contexts
    /\ MessageIds \subseteq Nat /\ IsFiniteSet(MessageIds)
    /\ MemoryType \in Types
    /\ DefaultLimit \in Nat \ {0}
    /\ StorageErrors \in BOOLEAN

----------------------------------------------------------------------------
Message == [id : MessageIds, contextID : Contexts \cup {NoContext}, type : Types,
            content : SUBSET Texts, timestamp : Nat]

StoreTypeOK ==
    /\ backend \in {"badger", "memory"}
    /\ DOMAIN db \subseteq MessageIds /\ \A i \in DOMAIN db : db[i] \in Message
    /\ DOMAIN memory \subseteq MessageIds /\ \A i \in DOMAIN memory : memory[i] \in Message
    /\ timeIndex \in [Contexts \cup {NoContext} -> Seq(MessageIds)]
    /\ storeContext \in Contexts \cup {NoContext}
    /\ lives \in Nat \ {0}
    /\ acked \subseteq [msg : Message, client : {"badger", "memory"}, life : 1 .. lives]

Nothing == [i \in {} |-> {}]

\* NewBadgerStorageClient, or NewMemoryStorageClient in its place.
Open(client) ==
    /\ backend' = client
    /\ memory' = Nothing
    /\ timeIndex' = [c \in Contexts \cup {NoContext} |-> <<>>]
    /\ storeContext' = NoContext

StoreInit ==
    /\ backend \in {"badger", "memory"}
    /\ db = Nothing
    /\ memory = Nothing
    /\ timeIndex = [c \in Contexts \cup {NoContext} |-> <<>>]
    /\ storeContext = NoContext
    /\ lives = 1
    /\ acked = {}

----------------------------------------------------------------------------
\* StoreMessage

With(stored, msg) == [i \in DOMAIN stored \cup {msg.id} |-> IF i = msg.id THEN msg ELSE stored[i]]

Acknowledge(msg) == acked' = acked \cup {[msg |-> msg, client |-> backend, life |-> lives]}

\* The client remembers the context before the transaction, and also when it fails.
StoreInBadger(msg) ==
    /\ backend = "badger"
    /\ storeContext' = msg.contextID
    /\ \/ db' = With(db, msg) /\ Acknowledge(msg)
       \/ StorageErrors /\ UNCHANGED <<db, acked>>
    /\ UNCHANGED <<backend, memory, timeIndex, lives>>

\* Mutant: the index is not sorted.
ByTimeUnsorted(ids, stored, msg) == Append(ids, msg.id)

\* The elements of S in the order R.
Sorted(S, R) ==
    CHOOSE s \in SetToSeqs(S) : \A i, j \in DOMAIN s : i < j => <<s[i], s[j]>> \in R

\* A stable sort, newest first: among messages of one second the order stays.
ByTime(ids, stored, msg) ==
    LET s == Append(ids, msg.id)
        time(k) == With(stored, msg)[s[k]].timestamp
        positions == DOMAIN s
        order == Sorted(positions, {p \in positions \X positions :
                                      \/ time(p[1]) > time(p[2])
                                      \/ time(p[1]) = time(p[2]) /\ p[1] < p[2]})
    IN  [k \in positions |-> s[order[k]]]

StoreInMemory(msg) ==
    /\ backend = "memory"
    /\ storeContext' = msg.contextID
    /\ memory' = With(memory, msg)
    /\ timeIndex' = [timeIndex EXCEPT ![msg.contextID] = ByTime(@, memory, msg)]
    /\ Acknowledge(msg)
    /\ UNCHANGED <<backend, db, lives>>

----------------------------------------------------------------------------
\* The queries.  An iteration passes hits <<k, i>>, the message i in its k-th part.

Limit(n) == IF n <= 0 THEN DefaultLimit ELSE n

ContextOr(c) == IF c = NoContext THEN storeContext ELSE c

First(n, s) == SubSeq(s, 1, Min({n, Len(s)}))

Stored == IF backend = "badger" THEN db ELSE memory

\* Type after type, or all at once.
InContext(c, types) ==
    {h \in (DOMAIN types \cup {0}) \X (DOMAIN Stored) :
        /\ Stored[h[2]].contextID = c
        /\ IF types = <<>> THEN h[1] = 0 ELSE h[1] # 0 /\ Stored[h[2]].type = types[h[1]]}

\* The ID is cut out of an index key by the position of ":": with a context that
\* contains one the cut is another part of the key, under which no message is found.
HitsInBadger(c, types) == IF c \in WithColon THEN {} ELSE InContext(c, types)

HitsInMemory(c, types) ==
    IF types = <<>> THEN {<<k, timeIndex[c][k]>> : k \in DOMAIN timeIndex[c]}
    ELSE InContext(c, types)

Hits(c, types) == IF backend = "badger" THEN HitsInBadger(c, types) ELSE HitsInMemory(c, types)

\* Badger reads the keys of a part backwards, by time and then by ID.  In memory the IDs
\* of a part are the keys of a map, and come in any order.
Before(g, h) ==
    \/ g[1] < h[1]
    \/ /\ g[1] = h[1]
       /\ backend = "badger" => \/ db[g[2]].timestamp > db[h[2]].timestamp
                                \/ db[g[2]].timestamp = db[h[2]].timestamp /\ g[2] > h[2]

\* The orders in which hits may come.
Passes(hits) == {s \in SetToSeqs(hits) : \A k, l \in DOMAIN s : k < l => Before(s[k], s[l])}

Messages(s) == [k \in DOMAIN s |-> Stored[s[k][2]]]

\* What GetRecentMessages may return.
GetRecentMessages(c, limit) ==
    {Messages(First(Limit(limit), s)) : s \in Passes(Hits(ContextOr(c), <<>>))}

\* The offset is taken from what the limit has left, and not at all if nothing remains.
AfterOffset(offset, s) == IF 0 < offset /\ offset < Len(s) THEN SubSeq(s, offset + 1, Len(s)) ELSE s

\* What SearchMessages may return for q.
SearchMessages(c, q) ==
    LET matches == {h \in Hits(ContextOr(c), q.types) : q.query \in Stored[h[2]].content}
    IN  {Messages(AfterOffset(q.offset, First(Limit(q.limit), s))) : s \in Passes(matches)}

\* Badger looks in the context of the last store, the other client everywhere.
FoundInBadger(id) ==
    /\ storeContext # NoContext
    /\ id \in DOMAIN db
    /\ db[id].contextID = storeContext

GetMessage(id) ==
    IF backend = "badger" THEN {db[i] : i \in {i \in {id} : FoundInBadger(i)}}
    ELSE {memory[i] : i \in {id} \cap DOMAIN memory}

----------------------------------------------------------------------------
\* The tools; a call without its required parameter is refused.

\* list_recent_messages filters by type what the limit has left.
OfTypes(types, s) ==
    LET asked == {k \in DOMAIN s : types = <<>> \/ s[k].type \in ToSet(types)}
        order == Sorted(asked, {p \in asked \X asked : p[1] < p[2]})
    IN  [k \in DOMAIN order |-> s[order[k]]]

ListRecentMessages(c, limit, types) == {OfTypes(types, s) : s \in GetRecentMessages(c, limit)}

\* store_memory: a new UUID and the time in seconds.
NewMemory(id, c, content, now) ==
    [id |-> id, contextID |-> c, type |-> MemoryType, content |-> content, timestamp |-> now]

Drawn == DOMAIN db \cup {a.msg.id : a \in acked}

StoreMemory(c, content, now) ==
    \E id \in MessageIds \ Drawn :
        LET msg == NewMemory(id, c, content, now)
        IN  StoreInBadger(msg) \/ StoreInMemory(msg)

=============================================================================

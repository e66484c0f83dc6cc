------------------------------ MODULE McpServer ------------------------------
(***************************************************************************)
(* The MCP server (apps/mcp/main.go): a goroutine reads lines from stdin,  *)
(* and one loop selects over the lines, the end of the input, signals and  *)
(* the initialisation timer.  The client of the protocol and the process   *)
(* that starts and kills the server are the environment.                   *)
(*                                                                         *)
(* A case of the select is one action.  Requests that only write an answer *)
(* are one kind of request: what the reading tools answer is the subject   *)
(* of ConversationStore.  The agent ID is only copied into the messages.   *)
(***************************************************************************)
EXTENDS ConversationStore

CONSTANTS
    Inputs,      \* bound: the requests that the client sends
    Generated,   \* the context IDs that uuid.New() returns
    ChanSize,    \* the capacity of msgChan
    MaxLines,    \* bound: the lines of a behaviour
    MaxClock,    \* bound: the last second of a behaviour
    MaxLives     \* bound: how many processes run in turn

VARIABLES
    clock,        \* time.Now().Unix()
    compat,       \* compatMode
    initialized,  \* initialized
    contextID,    \* contextID of the server
    timer,        \* initTimeoutTimer: running, fired with its value unread, or idle
    lines,        \* history: how many lines were read
    reading,      \* the reader is in its loop
    msgChan,      \* msgChan
    errChan,      \* there is a value in errChan
    runLoop,      \* the loop of run; stuck: it waits for initTimeoutTimer.C
    settled       \* history: how often this process was told or assumed that it is initialised

channelVars == <<lines, reading, msgChan, errChan>>
sessionVars == <<compat, initialized, contextID, timer, runLoop, settled>>
serverVars == <<storeVars, clock, channelVars, sessionVars>>

----------------------------------------------------------------------------
\* initialize: contextID is NoContext if the client sends none.  answer: what is
\* answered and changes nothing, tools/list, the reading tools and all refusals.
Request == [method : {"initialize"}, contextID : Contexts \cup {NoContext}, valid : BOOLEAN]
             \cup [method : {"initialized", "shutdown", "answer"}]
             \cup [method : {"store_memory"}, content : SUBSET Texts]

ASSUME InputAssumption ==
    /\ Inputs \subseteq Request
    /\ Generated \subseteq Contexts \ WithColon
    /\ \A r \in Inputs : r.method = "initialize" => r.contextID \notin Generated
ASSUME McpBounds == {ChanSize, MaxLines, MaxClock, MaxLives} \subseteq Nat

\* Type correctness.
ServerTypeOK ==
    /\ StoreTypeOK
    /\ clock \in 0 .. MaxClock
    /\ {compat, initialized, reading, errChan} \subseteq BOOLEAN
    /\ contextID \in Contexts \cup {NoContext}
    /\ timer \in {"running", "fired", "idle"}
    /\ lines \in 0 .. MaxLines
    /\ msgChan \in Seq(Inputs) /\ Len(msgChan) <= ChanSize
    /\ runLoop \in {"on", "stuck", "ended"}
    /\ settled \in Nat

ServerInit ==
    /\ StoreInit
    /\ clock = 0
    /\ compat \in BOOLEAN
    /\ initialized = FALSE
    /\ contextID = NoContext
    /\ timer = "running"
    /\ lines = 0
    /\ reading = TRUE
    /\ msgChan = <<>>
    /\ errChan = FALSE
    /\ runLoop = "on"
    /\ settled = 0

----------------------------------------------------------------------------
\* Time and the reader

\* Bound: time passes only where a message tells one second from the next.
Tick ==
    /\ clock < MaxClock
    /\ \E a \in acked : a.msg.timestamp = clock
    /\ clock' = clock + 1
    /\ UNCHANGED <<storeVars, channelVars, sessionVars>>

TimerFires ==
    /\ runLoop # "ended"
    /\ timer = "running"
    /\ timer' = "fired"
    /\ UNCHANGED <<storeVars, clock, channelVars, compat, initialized, contextID, runLoop, settled>>

\* A new UUID was never used.
Fresh == {c \in Generated \ {contextID} : \A a \in acked : a.msg.contextID # c}

\* Bound: no more requests that draw a UUID than there are left.
Pending(Test(_)) == Len(SelectSeq(msgChan, Test))
Generates(r) == r.method = "initialize" /\ r.valid /\ r.contextID = NoContext
Stores(r) == r.method = "store_memory"
IdLeft(r) ==
    /\ Stores(r) => Pending(Stores) + Cardinality(Drawn) < Cardinality(MessageIds)
    /\ Generates(r) => Pending(Generates) < Cardinality(Fresh)

\* Mutant: a channel that never makes the reader wait.
ReadLineUnbounded ==
    /\ runLoop # "ended"
    /\ reading
    /\ lines < MaxLines
    /\ \E r \in {r \in Inputs : IdLeft(r)} : msgChan' = Append(msgChan, r)
    /\ lines' = lines + 1
    /\ UNCHANGED <<storeVars, clock, sessionVars, reading, errChan>>

ReadLine ==
    /\ runLoop # "ended"
    /\ reading
    /\ lines < MaxLines
    /\ Len(msgChan) < ChanSize
    /\ \E r \in {r \in Inputs : IdLeft(r)} : msgChan' = Append(msgChan, r)
    /\ lines' = lines + 1
    /\ UNCHANGED <<storeVars, clock, sessionVars, reading, errChan>>

\* io.EOF or an error of the scanner: the loop treats them alike.
ReadEnds ==
    /\ runLoop # "ended"
    /\ reading
    /\ reading' = FALSE
    /\ errChan' = TRUE
    /\ UNCHANGED <<storeVars, clock, sessionVars, lines, msgChan>>

----------------------------------------------------------------------------
\* The cases of the select

EndUnlessStarting == runLoop' = IF compat /\ ~initialized THEN runLoop ELSE "ended"

\* A signal may wait in sigChan, where nothing else looks at it.
TakeSignal ==
    /\ runLoop = "on"
    /\ EndUnlessStarting
    /\ UNCHANGED <<storeVars, clock, channelVars,
                   compat, initialized, contextID, timer, settled>>

TakeError ==
    /\ runLoop = "on"
    /\ errChan
    /\ errChan' = FALSE
    /\ EndUnlessStarting
    /\ UNCHANGED <<storeVars, clock, lines, reading, msgChan,
                   compat, initialized, contextID, timer, settled>>

TakeTimeout ==
    /\ runLoop = "on"
    /\ timer = "fired"
    /\ timer' = "idle"
    /\ initialized' = TRUE
    /\ settled' = settled + 1
    /\ UNCHANGED <<storeVars, clock, channelVars, compat, contextID, runLoop>>

TakeLine(method) ==
    /\ runLoop = "on"
    /\ msgChan # <<>>
    /\ Head(msgChan).method = method
    /\ msgChan' = Tail(msgChan)
    /\ UNCHANGED <<clock, lines, reading, errChan, compat>>

\* The timer is started again also when the parameters are refused.
HandleInitialize ==
    /\ TakeLine("initialize")
    /\ LET r == Head(msgChan)
       IN  contextID' \in IF ~r.valid THEN {contextID}
                          ELSE IF r.contextID = NoContext THEN Fresh ELSE {r.contextID}
    /\ timer' = "running"
    /\ UNCHANGED <<storeVars, initialized, runLoop, settled>>

\* Mutant: the channel is read when Stop succeeds.
HandleInitializedInverted ==
    /\ TakeLine("initialized")
    /\ initialized' = TRUE
    /\ settled' = settled + 1
    /\ timer' = "idle"
    /\ runLoop' = IF timer = "idle" THEN runLoop ELSE "stuck"
    /\ UNCHANGED <<storeVars, contextID>>

\* Stop fails on a timer that is idle, and nothing will ever be sent on its channel.
HandleInitialized ==
    /\ TakeLine("initialized")
    /\ initialized' = TRUE
    /\ settled' = settled + 1
    /\ timer' = "idle"
    /\ runLoop' = IF timer = "idle" THEN "stuck" ELSE runLoop
    /\ UNCHANGED <<storeVars, contextID>>

HandleStoreMemory ==
    /\ TakeLine("store_memory")
    /\ StoreMemory(contextID, Head(msgChan).content, clock)
    /\ UNCHANGED <<initialized, contextID, timer, runLoop, settled>>

HandleAnswer ==
    /\ TakeLine("answer")
    /\ UNCHANGED <<storeVars, initialized, contextID, timer, runLoop, settled>>

HandleShutdown ==
    /\ TakeLine("shutdown")
    /\ runLoop' = "ended"
    /\ UNCHANGED <<storeVars, initialized, contextID, timer, settled>>

----------------------------------------------------------------------------
\* The server has ended or is killed, and is started again; Badger keeps its messages.
Restart ==
    /\ lives < MaxLives
    /\ lives' = lives + 1
    /\ \E client \in {"badger", "memory"} : Open(client)
    /\ initialized' = FALSE
    /\ contextID' = NoContext
    /\ timer' = "running"
    /\ reading' = TRUE
    /\ msgChan' = <<>>
    /\ errChan' = FALSE
    /\ runLoop' = "on"
    /\ settled' = 0
    /\ UNCHANGED <<db, acked, clock, compat, lines>>

SelectStep ==
    \/ TakeSignal
    \/ TakeError
    \/ TakeTimeout
    \/ HandleInitialize
    \/ HandleInitialized
    \/ HandleStoreMemory
    \/ HandleAnswer
    \/ HandleShutdown

ServerNext ==
    \/ Tick
    \/ TimerFires
    \/ ReadLine
    \/ ReadEnds
    \/ SelectStep
    \/ Restart

ServerSpec == ServerInit /\ [][ServerNext]_serverVars

\* The timer fires, and a case that stays ready is chosen in the end; the client, the
\* signals and the restarts owe nothing.
Fairness ==
    /\ WF_serverVars(TimerFires)
    /\ WF_serverVars(TakeError)
    /\ WF_serverVars(TakeTimeout)
    /\ WF_serverVars(SelectStep /\ msgChan' # msgChan)

FairServerSpec == ServerSpec /\ Fairness

----------------------------------------------------------------------------
\* Properties

\* What was acknowledged and not lost with an earlier process's memory.
Kept == {a.msg : a \in {a \in acked : a.client = backend /\ (backend = "badger" \/ a.life = lives)}}

\* The kept messages that the current context's queries can find: with a ":" in the
\* context ID, Badger's index keys are cut in the wrong place and nothing is found.
Visible == {m \in Kept : m.contextID = contextID /\ ~(backend = "badger" /\ contextID \in WithColon)}

Newest(n, S, r) ==
    /\ ToSet(r) \subseteq S
    /\ Len(r) = Min({n, Cardinality(S)}) /\ Cardinality(ToSet(r)) = Len(r)
    /\ \A i, j \in DOMAIN r : i < j => r[i].timestamp >= r[j].timestamp
    /\ \A m \in S \ ToSet(r) : \A i \in DOMAIN r : r[i].timestamp >= m.timestamp

\* retrieve_memory returns what was acknowledged, as it was stored: from the client in
\* memory always, from Badger as long as no store went to another context, none failed
\* there, and the server was not restarted since, all of which change its contextID.
RetrievesKept ==
    /\ \A m \in Kept : GetMessage(m.id) = IF backend = "badger" /\ (storeContext = NoContext \/ storeContext # m.contextID)
                                           THEN {} ELSE {m}
    /\ \A id \in MessageIds : GetMessage(id) \subseteq Kept

\* list_recent_messages returns the newest messages of the session's own context.
ListsNewest ==
    \A limit \in 0 .. Cardinality(MessageIds), types \in {<<>>} \cup {<<t>> : t \in Types} :
        LET answers == ListRecentMessages(contextID, limit, types)
            S == {m \in Visible : types = <<>> \/ m.type \in ToSet(types)}
        IN  answers # {} /\ \A r \in answers : Newest(Limit(limit), S, r)

\* The messages that a search should find, and what it returns.
Matching(query, types) ==
    {m \in Visible : query \in m.content /\ (types = <<>> \/ m.type \in ToSet(types))}

SearchResult(query, limit, types, offset) ==
    SearchMessages(contextID, [query |-> query, types |-> types, limit |-> limit, offset |-> offset])

\* r is n of the messages in S.
AnyOf(n, S, r) == ToSet(r) \subseteq S /\ Len(r) = n /\ Cardinality(ToSet(r)) = n

\* search_conversation returns the newest messages of the session's context that match,
\* except that the client in memory returns any of them when types are given.  The
\* offset shortens the page, or does nothing when it is at least as long.
SearchesNewest ==
    \A query \in Texts, limit \in 0 .. Cardinality(MessageIds), types \in {<<>>} \cup {<<t>> : t \in Types} :
        LET S == Matching(query, types)
            n == Min({Limit(limit), Cardinality(S)})
            page == SearchResult(query, limit, types, 0)
        IN  /\ page # {}
            /\ \A r \in page : \/ Newest(Limit(limit), S, r)
                               \/ backend = "memory" /\ types # <<>> /\ AnyOf(n, S, r)
            /\ \A r \in SearchResult(query, limit, types, 1) :
                 /\ Len(r) = IF 1 < n THEN n - 1 ELSE n
                 /\ \E s \in page : r \in Suffixes(s)

\* The memory tools answer from what was acknowledged to the client, across contexts,
\* failed stores, restarts and the change from one storage client to the other
\* (tools.go, badger_storage.go, memory_storage.go).  The answers depend on the store
\* and the session alone, so they are judged when the loop waits with no line at hand.
ToolsAnswerFromAcked ==
    runLoop = "on" /\ msgChan = <<>> => RetrievesKept /\ ListsNewest /\ SearchesNewest

\* The loop of run serves every line it has received, and ends when the input ends,
\* unless the server was told or assumed twice that it is initialised: the second
\* notification then waits for a timer that was stopped or has fired (main.go:255).
\* In compatibility mode an end of input before that is consumed, and forgotten.
LoopServes ==
    /\ msgChan # <<>> ~> msgChan = <<>> \/ runLoop = "ended" \/ settled >= 2
    /\ ~reading ~> \/ runLoop = "ended" \/ reading
                   \/ settled >= 2
                   \/ compat /\ ~errChan /\ runLoop = "on"

=============================================================================

---------------------------- MODULE MCMcpServer ----------------------------
(***************************************************************************)
(* A small instance of McpServer for TLC.                                  *)
(***************************************************************************)
EXTENDS McpServer

CONSTANTS plain, colon, uuid, text, memoryType, userType

MCContexts == {plain, colon, uuid}
MCWithColon == {colon}
MCGenerated == {uuid}
MCIds == {1, 2}
MCTexts == {text}
MCTypes == {memoryType, userType}

Start(c, v) == [method |-> "initialize", contextID |-> c, valid |-> v]
MCInputs ==
    {Start(plain, TRUE), Start(colon, TRUE), Start(NoContext, TRUE), Start(plain, FALSE)}
        \cup {[method |-> m] : m \in {"initialized", "shutdown", "answer"}}
        \cup {[method |-> "store_memory", content |-> q] : q \in {{}, {text}}}
=============================================================================

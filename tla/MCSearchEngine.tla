--------------------------- MODULE MCSearchEngine ---------------------------
(***************************************************************************)
(* A small instance of SearchEngine for TLC.                               *)
(***************************************************************************)
EXTENDS SearchEngine

Fruit == <<"category", "fruit">>
Low == <<"level", "low">>
MCVegetable == <<"category", "vegetable">>

\* Shared and single words, a short word, a payload that is no text, a context
\* that extends another, relationships in a chain and to an unknown unit.
MCUnits == <<
    [id |-> "u1", context |-> <<"a">>, agent |-> "p", type |-> "MESSAGE", ts |-> 2,
     text |-> TRUE, words |-> {"red", "big", "to"}, meta |-> {Fruit},
     rels |-> {<<"cites", "u2">>}],
    [id |-> "u2", context |-> <<"a">>, agent |-> "q", type |-> "SYSTEM", ts |-> 1,
     text |-> TRUE, words |-> {"red"}, meta |-> {Fruit, Low}, rels |-> {<<"cites", "u9">>}],
    [id |-> "u3", context |-> <<"a", "b">>, agent |-> "p", type |-> "MESSAGE", ts |-> 3,
     text |-> FALSE, words |-> {"big"}, meta |-> {Low, <<"cites", "u1">>}, rels |-> {<<"cites", "u1">>}]>>

MCShortWords == {"to"}
MCRelTypes == {"cites"}
MCTargets == {"u1", "u9", ""}

MCQueries ==
    {q \in [text : BOOLEAN, words : {{}, {"red"}, {"red", "big"}, {"to"}, {"low", "nowhere"}},
            context : {<<>>, <<"a">>, <<"a", "b">>}, agents : {{}, {"p"}},
            types : {{}, {"MESSAGE"}, {"SYSTEM"}}, meta : {{}, {Fruit}, {Fruit, Low}},
            limit : {1}, offset : {0}] : q.text <=> q.words # {}}
=============================================================================

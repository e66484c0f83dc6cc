--------------------------- MODULE MCContextStore ---------------------------
(***************************************************************************)
(* Small instances of ContextStore for TLC.                                *)
(***************************************************************************)
EXTENDS ContextStore, TLC

CONSTANTS k1, k2, p1, p2, m1, m2

OneContext == {k1}
MCContexts == {k1, k2}
MCCallers == {p1, p2}
MCMembers == {m1, m2}

\* A context with an empty map, one member in the place of another, metadata.
MCRequests ==
    {[add |-> {m1}, remove |-> {}, meta |-> "empty"],
     [add |-> {m2}, remove |-> {m1}, meta |-> "nil"],
     [add |-> {}, remove |-> {}, meta |-> "some"]}

\* One member each.
AddRequests ==
    {[add |-> {m}, remove |-> {}, meta |-> "nil"] : m \in MCMembers}

ContextSymmetry == Permutations(MCContexts) \cup Permutations(MCCallers)
=============================================================================

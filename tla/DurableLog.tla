----------------------------- MODULE DurableLog -----------------------------
(***************************************************************************)
(* What a write-ahead log promises to those who submit entries to it: the  *)
(* durable log only grows, in the order of submission; what is not durable *)
(* yet may be lost, to a failing write or to a crash, and never reordered. *)
(***************************************************************************)
EXTENDS Naturals, Sequences

CONSTANT Entries  \* what may be submitted

VARIABLES
    log,      \* the durable entries
    pending   \* the entries submitted and not durable yet, oldest first

vars == <<log, pending>>

Init == log = <<>> /\ pending = <<>>

Submit(e) == pending' = Append(pending, e) /\ UNCHANGED log

\* The n oldest pending entries become durable together.
Persist(n) ==
    /\ log' = log \o SubSeq(pending, 1, n)
    /\ pending' = SubSeq(pending, n + 1, Len(pending))

\* A run of pending entries cannot be written.
Drop(m, n) ==
    /\ pending' = SubSeq(pending, 1, m) \o SubSeq(pending, n + 1, Len(pending))
    /\ UNCHANGED log

\* A crash keeps the durable log and an initial part of what was pending, of
\* which the n oldest entries turn out to be durable.
Crash(n, m) ==
    /\ log' = log \o SubSeq(pending, 1, n)
    /\ pending' = SubSeq(pending, n + 1, m)

Next ==
    \/ \E e \in Entries : Submit(e)
    \/ \E n \in 1..Len(pending) : Persist(n)
    \/ \E n \in 1..Len(pending), m \in 0..Len(pending) : m < n /\ Drop(m, n)
    \/ \E n, m \in 0..Len(pending) : n <= m /\ Crash(n, m)

Spec == Init /\ [][Next]_vars
=============================================================================

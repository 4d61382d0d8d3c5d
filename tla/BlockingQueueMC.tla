-------------------------- MODULE BlockingQueueMC --------------------------
(***************************************************************************)
(* Instances of BlockingQueue for TLC.                                     *)
(***************************************************************************)
EXTENDS BlockingQueue

CONSTANTS p1, p2, c1, c2, x

MCProducers == {p1, p2}
MCConsumers == {c1, c2}

Calls(op, sizes) == {[op |-> op, n |-> n] : n \in sizes}

\* The single-item interface: each call stores or removes one item.
SinglePushes == UNION {Calls(op, {1}) : op \in {"push", "try_push", "push_for"}}
SinglePops   == UNION {Calls(op, {1}) : op \in {"pop", "try_pop", "pop_for"}}

\* The batch interface beside blocking and timed calls, with empty spans and
\* spans larger than the queue.
AllPushes == Calls("push", {1}) \cup Calls("push_for", {1}) \cup Calls("push_batch", {0, 3})
AllPops   == Calls("pop", {1}) \cup Calls("pop_for", {1}) \cup Calls("pop_batch", {0, 3})

\* Batch producers and single-item consumers.
BatchPushes == Calls("push_batch", {2})
PlainPops   == Calls("pop", {1})
=============================================================================

---------------------------- MODULE BoundedFifo ----------------------------
(***************************************************************************)
(* What a closable bounded queue promises its callers, whatever threads,   *)
(* locks, condition variables and ring buffer it is built from: items come *)
(* out in the order in which they were accepted, each exactly once; never  *)
(* more than Capacity items are held; once the queue is closed nothing     *)
(* more is accepted, and what it holds can still be taken.                 *)
(*                                                                         *)
(* An item is its place in the order of acceptance: the k-th item accepted *)
(* is the number k.                                                        *)
(***************************************************************************)
EXTENDS Naturals, Sequences

CONSTANT Capacity

VARIABLES items,      \* accepted and not yet taken, oldest first
          taken,      \* every item taken so far, in the order taken
          isClosed

fifoVars == <<items, taken, isClosed>>

FifoInit == /\ items = << >>
            /\ taken = << >>
            /\ isClosed = FALSE

Accepted == Len(taken) + Len(items)

\* Accept k items at once.
Put(k) == /\ ~isClosed
          /\ Len(items) + k <= Capacity
          /\ items' = items \o [i \in 1..k |-> Accepted + i]
          /\ UNCHANGED <<taken, isClosed>>

\* Hand out the k oldest items at once.
Take(k) == /\ k <= Len(items)
           /\ taken' = taken \o SubSeq(items, 1, k)
           /\ items' = SubSeq(items, k + 1, Len(items))
           /\ UNCHANGED isClosed

Close == /\ isClosed' = TRUE
         /\ UNCHANGED <<items, taken>>

FifoNext == \/ \E k \in 1..Capacity : Put(k) \/ Take(k)
            \/ Close

FifoSpec == FifoInit /\ [][FifoNext]_fifoVars
=============================================================================

----------------------------- MODULE MpscQueue -----------------------------
(***************************************************************************)
(* What a bounded multi-producer single-consumer queue promises: producers *)
(* claim places in one order, publish what they stored in any order, and   *)
(* the consumer takes the records in the order of their places, each once  *)
(* and none before it is published. No more than Capacity places are       *)
(* claimed and not yet taken.                                              *)
(*                                                                         *)
(* A record is the place it claimed: 0, 1, 2, ...                          *)
(***************************************************************************)
EXTENDS Naturals, Sequences

CONSTANT Capacity

VARIABLES claimed,     \* places claimed so far
          unpublished, \* places claimed and not yet published
          taken        \* the records the consumer took, in the order it did

queueVars == <<claimed, unpublished, taken>>

QueueInit == claimed = 0 /\ unpublished = {} /\ taken = << >>

HasRoom == claimed - Len(taken) < Capacity

\* The head of the queue is there to be taken.
HeadReady == Len(taken) < claimed /\ Len(taken) \notin unpublished

Claim == /\ HasRoom
         /\ claimed' = claimed + 1
         /\ unpublished' = unpublished \cup {claimed}
         /\ UNCHANGED taken

Publish(k) == /\ k \in unpublished
              /\ unpublished' = unpublished \ {k}
              /\ UNCHANGED <<claimed, taken>>

Take == /\ HeadReady
        /\ taken' = Append(taken, Len(taken))
        /\ UNCHANGED <<claimed, unpublished>>

QueueNext == Claim \/ (\E k \in unpublished : Publish(k)) \/ Take

QueueSpec == QueueInit /\ [][QueueNext]_queueVars
=============================================================================

------------------------------ MODULE MpscRing ------------------------------
(***************************************************************************)
(* MpscRingBuffer<T>, from                                                 *)
(* src/code/AsyncLogger/include/async_logger/mpsc_ring_buffer.h: a         *)
(* lock-free ring that many producers enqueue to and one consumer dequeues *)
(* from. One action per access to an atomic or to a cell's value, since    *)
(* nothing else is atomic here.                                            *)
(*                                                                         *)
(* The release store of a sequence and the acquire load that reads it      *)
(* order the accesses to the value between them; a relaxed load of a       *)
(* position may return an older one, as if it had been loaded earlier.     *)
(*                                                                         *)
(* A record is the place its producer claimed with the compare-exchange,   *)
(* so values tell which record a cell holds and which the consumer got.    *)
(***************************************************************************)
EXTENDS Integers, Sequences

CONSTANTS
    Capacity,      \* the constructor's argument
    Producers,     \* threads that call try_enqueue
    MaxRecords     \* bound: no try_enqueue starts once so many were claimed

\* The constructor only refuses zero. With one cell the sequence that
\* publishes a record is the one that frees the cell for the next lap, and
\* a second record overwrites the first; the properties need two cells.
ASSUME CapacityAssumption == Capacity \in Nat /\ Capacity >= 2
ASSUME BoundAssumption == MaxRecords \in Nat

VARIABLES
    sequence,      \* Cell::sequence of each cell
    value,         \* Cell::value of each cell
    enqueuePosition,
    dequeuePosition,
    pc,            \* where each producer is in try_enqueue
    position,      \* the local variable of that name of each producer
    cpc,           \* where the consumer is in try_dequeue
    got,           \* the record the consumer has moved out of its cell
    taken          \* history: every record try_dequeue returned

ringVars == <<sequence, value, enqueuePosition, dequeuePosition>>
vars == <<ringVars, pc, position, cpc, got, taken>>

Cells == 0 .. Capacity - 1
NoRecord == -1

Init == /\ sequence = [i \in Cells |-> i]
        /\ value = [i \in Cells |-> NoRecord]
        /\ enqueuePosition = 0 /\ dequeuePosition = 0
        /\ pc = [p \in Producers |-> "idle"]
        /\ position = [p \in Producers |-> 0]
        /\ cpc = "idle" /\ got = NoRecord
        /\ taken = << >>

-----------------------------------------------------------------------------
(***************************************************************************)
(* try_enqueue.                                                            *)
(***************************************************************************)
Cell(k) == k % Capacity

Goto(p, step) == pc' = [pc EXCEPT ![p] = step]

\* Read enqueue_position_: first in the call, and again when the cell
\* turned out to be claimed meanwhile.
LoadPosition(p) ==
    /\ \/ pc[p] = "idle" /\ enqueuePosition < MaxRecords
       \/ pc[p] = "reload"
    /\ position' = [position EXCEPT ![p] = enqueuePosition]
    /\ Goto(p, "look")
    /\ UNCHANGED <<ringVars, cpc, got, taken>>

\* Defect: the comparison that tells a full ring is off by one.
LookEager(p) ==
    /\ pc[p] = "look"
    /\ LET difference == sequence[Cell(position[p])] - position[p]
       IN  \/ difference = 0 /\ Goto(p, "claim")
           \/ difference # 0 /\ Goto(p, "idle")
    /\ UNCHANGED <<ringVars, position, cpc, got, taken>>

\* Read the cell's sequence: the cell is free for this place, still holds
\* an earlier record (the queue is full), or the place is gone.
Look(p) ==
    /\ pc[p] = "look"
    /\ LET difference == sequence[Cell(position[p])] - position[p]
       IN  \/ difference = 0 /\ Goto(p, "claim")
           \/ difference < 0 /\ Goto(p, "idle")
           \/ difference > 0 /\ Goto(p, "reload")
    /\ UNCHANGED <<ringVars, position, cpc, got, taken>>

\* Defect: the position is stored instead of compared and exchanged.
ClaimStored(p) ==
    /\ pc[p] = "claim"
    /\ enqueuePosition' = position[p] + 1
    /\ Goto(p, "write")
    /\ UNCHANGED <<sequence, value, dequeuePosition, position, cpc, got, taken>>

\* compare_exchange_weak succeeds: the place is this producer's.
Claim(p) ==
    /\ pc[p] = "claim"
    /\ enqueuePosition = position[p]
    /\ enqueuePosition' = enqueuePosition + 1
    /\ Goto(p, "write")
    /\ UNCHANGED <<sequence, value, dequeuePosition, position, cpc, got, taken>>

\* It fails, because another producer was faster or for no reason, and
\* leaves the position it saw.
ClaimFails(p) ==
    /\ pc[p] = "claim"
    /\ position' = [position EXCEPT ![p] = enqueuePosition]
    /\ Goto(p, "look")
    /\ UNCHANGED <<ringVars, cpc, got, taken>>

\* Move the record into the cell.
Write(p) ==
    /\ pc[p] = "write"
    /\ value' = [value EXCEPT ![Cell(position[p])] = position[p]]
    /\ Goto(p, "publish")
    /\ UNCHANGED <<sequence, enqueuePosition, dequeuePosition, position, cpc, got, taken>>

\* Defect: the producer hands the cell on to the next lap itself.
PublishNextLap(p) ==
    /\ pc[p] = "publish"
    /\ sequence' = [sequence EXCEPT ![Cell(position[p])] = position[p] + Capacity]
    /\ Goto(p, "idle")
    /\ UNCHANGED <<value, enqueuePosition, dequeuePosition, position, cpc, got, taken>>

\* The release store that lets the consumer see it.
Publish(p) ==
    /\ pc[p] = "publish"
    /\ sequence' = [sequence EXCEPT ![Cell(position[p])] = position[p] + 1]
    /\ Goto(p, "idle")
    /\ UNCHANGED <<value, enqueuePosition, dequeuePosition, position, cpc, got, taken>>

-----------------------------------------------------------------------------
(***************************************************************************)
(* try_dequeue, called by one thread again and again.                      *)
(***************************************************************************)
consumerCell == Cell(dequeuePosition)

\* Defect: the consumer looks at what was claimed, not at what is published.
CheckClaimed ==
    /\ cpc = "idle"
    /\ dequeuePosition < enqueuePosition
    /\ cpc' = "read"
    /\ UNCHANGED <<ringVars, pc, position, got, taken>>

\* The head is published; otherwise the call returns false and no state
\* changes.
Check ==
    /\ cpc = "idle"
    /\ sequence[consumerCell] = dequeuePosition + 1
    /\ cpc' = "read"
    /\ UNCHANGED <<ringVars, pc, position, got, taken>>

Read ==
    /\ cpc = "read"
    /\ got' = value[consumerCell]
    /\ cpc' = "release"
    /\ UNCHANGED <<ringVars, pc, position, taken>>

\* The release store that frees the cell for the next lap.
Release ==
    /\ cpc = "release"
    /\ sequence' = [sequence EXCEPT ![consumerCell] = dequeuePosition + Capacity]
    /\ taken' = Append(taken, got)
    /\ got' = NoRecord
    /\ cpc' = "advance"
    /\ UNCHANGED <<value, enqueuePosition, dequeuePosition, pc, position>>

Advance ==
    /\ cpc = "advance"
    /\ dequeuePosition' = dequeuePosition + 1
    /\ cpc' = "idle"
    /\ UNCHANGED <<sequence, value, enqueuePosition, pc, position, got, taken>>

-----------------------------------------------------------------------------
Enqueue(p) == \/ LoadPosition(p) \/ Look(p) \/ Claim(p) \/ ClaimFails(p)
              \/ Write(p) \/ Publish(p)
Dequeue == Check \/ Read \/ Release \/ Advance

Next == Dequeue \/ \E p \in Producers : Enqueue(p)

Spec == Init /\ [][Next]_vars

\* A producer that claimed a place goes on to publish it, and the consumer
\* keeps calling try_dequeue.
Fairness == WF_vars(Dequeue) /\ \A p \in Producers : WF_vars(Write(p) \/ Publish(p))

FairSpec == Spec /\ Fairness

-----------------------------------------------------------------------------
(***************************************************************************)
(* Properties.                                                             *)
(***************************************************************************)

\* Every variable has its type.
TypeOK ==
    /\ sequence \in [Cells -> Nat]
    /\ value \in [Cells -> Nat \cup {NoRecord}]
    /\ enqueuePosition \in Nat /\ dequeuePosition \in Nat
    /\ pc \in [Producers -> {"idle", "reload", "look", "claim", "write", "publish"}]
    /\ position \in [Producers -> Nat]
    /\ cpc \in {"idle", "read", "release", "advance"}
    /\ got \in Nat \cup {NoRecord}
    /\ taken \in Seq(Nat)

\* Places claimed and not yet published.
Unpublished == {position[p] : p \in {q \in Producers : pc[q] \in {"write", "publish"}}}

\* A producer stores into a cell only when the record that was there has been
\* moved out, and never into a cell another producer is storing into.
NoOverwrite ==
    /\ TypeOK
    /\ \A p \in Producers : pc[p] \in {"write", "publish"} =>
        /\ \A k \in Len(taken) .. enqueuePosition - 1 :
              k # position[p] => Cell(k) # Cell(position[p])
        /\ \A q \in Producers \ {p} : pc[q] \in {"write", "publish"} =>
              position[q] # position[p]

\* try_enqueue reports a full queue only when every cell is claimed.
RefusedOnlyWhenFull ==
    [][\A p \in Producers :
          pc[p] = "look" /\ pc'[p] = "idle" =>
              enqueuePosition - Len(taken) >= Capacity]_vars

\* Whatever the order in which producers claim, write and publish, every
\* record claimed reaches the consumer.
EveryRecordTaken ==
    \A k \in 0 .. MaxRecords - 1 :
        (enqueuePosition > k) ~> (\E i \in 1..Len(taken) : taken[i] = k)

\* The ring implements the queue.
Queue == INSTANCE MpscQueue WITH claimed <- enqueuePosition,
                                 unpublished <- Unpublished,
                                 taken <- taken
ImplementsQueue == Queue!QueueSpec
=============================================================================

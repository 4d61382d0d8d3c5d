--------------------------- MODULE MpscRingProofs ---------------------------
(***************************************************************************)
(* Theorems about MpscRing, for every capacity of at least two, every set  *)
(* of producers and every bound.                                           *)
(***************************************************************************)
EXTENDS MpscRing, TLAPS

(***************************************************************************)
(* Positions and cells.                                                    *)
(***************************************************************************)

\* A position has a cell of the ring.
LEMMA CellRange ==
    ASSUME NEW k \in Nat
    PROVE  Cell(k) \in Cells
BY CapacityAssumption DEF Cell, Cells

\* Positions with the same cell are whole laps apart.
LEMMA WholeLaps ==
    ASSUME NEW j \in Nat, NEW k \in Nat, Cell(j) = Cell(k)
    PROVE  \E n \in Int : k - j = Capacity * n
<1>. DEFINE n == (k \div Capacity) - (j \div Capacity)
<1>1. /\ j = Capacity * (j \div Capacity) + (j % Capacity)
      /\ k = Capacity * (k \div Capacity) + (k % Capacity)
      /\ j \div Capacity \in Int /\ k \div Capacity \in Int
      BY CapacityAssumption
<1>2. k - j = Capacity * n /\ n \in Int
      BY <1>1, CapacityAssumption DEF Cell
<1>. QED BY <1>2

\* Positions less than a lap apart have different cells.
LEMMA CellsDiffer ==
    ASSUME NEW j \in Nat, NEW k \in Nat, j < k, k < j + Capacity
    PROVE  Cell(j) # Cell(k)
<1>. SUFFICES ASSUME Cell(j) = Cell(k)  PROVE FALSE
     OBVIOUS
<1>1. PICK n \in Int : k - j = Capacity * n
      BY WholeLaps
<1>2. CASE n <= 0
      BY <1>1, <1>2, CapacityAssumption
<1>3. CASE n >= 1
  <2>1. Capacity * n >= Capacity
        BY <1>3, CapacityAssumption
  <2>. QED BY <1>1, <2>1, CapacityAssumption
<1>. QED BY <1>2, <1>3

\* A lap later a position has the same cell.
LEMMA NextLap ==
    ASSUME NEW k \in Nat
    PROVE  Cell(k + Capacity) = Cell(k)
<1>. DEFINE q == k \div Capacity
            r == (k + Capacity) \div Capacity
<1>1. /\ k = Capacity * q + Cell(k) /\ Cell(k) \in 0 .. Capacity - 1 /\ q \in Int
      /\ k + Capacity = Capacity * r + Cell(k + Capacity)
      /\ Cell(k + Capacity) \in 0 .. Capacity - 1 /\ r \in Int
      BY CapacityAssumption DEF Cell
<1>2. Cell(k + Capacity) - Cell(k) = Capacity * (q + 1 - r)
  <2>. HIDE DEF q, r
  <2>1. Capacity * (q + 1 - r) = Capacity * q + Capacity - Capacity * r
        BY <1>1, CapacityAssumption
  <2>. QED BY <1>1, <2>1, CapacityAssumption
<1>3. q + 1 - r = 0
  <2>1. ASSUME q + 1 - r >= 1  PROVE FALSE
    <3>1. Capacity * (q + 1 - r) >= Capacity
          BY <1>1, <2>1, CapacityAssumption
    <3>. QED BY <1>1, <1>2, <3>1, CapacityAssumption
  <2>2. ASSUME q + 1 - r <= -1  PROVE FALSE
    <3>1. Capacity * (q + 1 - r) <= -Capacity
          BY <1>1, <2>2, CapacityAssumption
    <3>. QED BY <1>1, <1>2, <3>1, CapacityAssumption
  <2>. QED BY <1>1, <2>1, <2>2
<1>. QED BY <1>1, <1>2, <1>3, CapacityAssumption

\* Different places of one lap have different cells.
LEMMA LapCells ==
    ASSUME NEW n \in Nat, NEW j \in n .. n + Capacity - 1, NEW k \in n .. n + Capacity - 1,
           j # k
    PROVE  Cell(j) # Cell(k)
<1>1. j \in Nat /\ k \in Nat
      BY CapacityAssumption
<1>2. CASE j < k  BY <1>1, <1>2, CellsDiffer, CapacityAssumption
<1>3. CASE k < j  BY <1>1, <1>3, CellsDiffer, CapacityAssumption
<1>. QED BY <1>1, <1>2, <1>3

-----------------------------------------------------------------------------
(***************************************************************************)
(* The inductive invariant.                                                *)
(***************************************************************************)
First == Len(taken)

Storing(p) == pc[p] \in {"write", "publish"}

\* The window is one lap of places from the head on; what is claimed is in it.
WindowInv ==
    /\ First = IF cpc = "advance" THEN dequeuePosition + 1 ELSE dequeuePosition
    /\ First <= enqueuePosition /\ enqueuePosition <= First + Capacity

Published(k) == k < enqueuePosition /\ k \notin Unpublished

\* In the window a cell's sequence tells published places from others, and a
\* published place has its record; the cells of earlier places are ahead.
CellsInv ==
    /\ \A k \in First .. First + Capacity - 1 :
          /\ sequence[Cell(k)] = IF Published(k) THEN k + 1 ELSE k
          /\ Published(k) => value[Cell(k)] = k
    /\ \A k \in 0 .. First - 1 : sequence[Cell(k)] >= k

\* A producer never knows of a place beyond the next one; the cell of a place
\* it is about to claim is free; the places being stored to are claimed, each
\* by one producer.
ProducersInv ==
    \A p \in Producers :
        /\ position[p] <= enqueuePosition
        /\ pc[p] = "claim" => position[p] < First + Capacity
        /\ Storing(p) => First <= position[p] /\ position[p] < enqueuePosition
        /\ pc[p] = "publish" => value[Cell(position[p])] = position[p]
        /\ \A q \in Producers \ {p} :
              Storing(p) /\ Storing(q) => position[q] # position[p]

\* What the consumer reads is the published head.
ConsumerInv ==
    /\ cpc \in {"read", "release"} => Published(First)
    /\ cpc = "release" => got = First

RingInv == TypeOK /\ WindowInv /\ CellsInv /\ ProducersInv /\ ConsumerInv

-----------------------------------------------------------------------------
(***************************************************************************)
(* Every step preserves it.                                                *)
(***************************************************************************)
\* The empty ring: every cell is free for the first lap.
LEMMA InitialState == Init => RingInv
<1>. SUFFICES ASSUME Init  PROVE RingInv
     OBVIOUS
<1>. USE CapacityAssumption DEF Init
<1>1. TypeOK
      BY DEF TypeOK, Cells, NoRecord
<1>2. First = 0
      BY DEF First
<1>3. \A k \in 0 .. Capacity - 1 : Cell(k) = k /\ k \in Cells
      BY DEF Cell, Cells
<1>4. WindowInv /\ CellsInv
      BY <1>2, <1>3 DEF WindowInv, CellsInv, Published
<1>5. ProducersInv /\ ConsumerInv
      BY <1>2 DEF ProducersInv, ConsumerInv, Storing
<1>. QED BY <1>1, <1>4, <1>5 DEF RingInv

\* Every step keeps the types and leaves capacity and records alone.
LEMMA TypeStep ==
    ASSUME RingInv, [Next]_vars
    PROVE  TypeOK'
<1>0. TypeOK
      BY DEF RingInv
<1>. USE <1>0, CapacityAssumption DEF TypeOK, ringVars, Goto, NoRecord
<1>1. ASSUME NEW p \in Producers, Enqueue(p)  PROVE TypeOK'
  <2>1. CASE LoadPosition(p)  BY <2>1 DEF LoadPosition
  <2>2. CASE Look(p)          BY <2>2 DEF Look
  <2>3. CASE Claim(p)         BY <2>3 DEF Claim
  <2>4. CASE ClaimFails(p)    BY <2>4 DEF ClaimFails
  <2>5. CASE Write(p)         BY <2>5 DEF Write
  <2>6. CASE Publish(p)
    <3>1. position[p] + 1 \in Nat
          OBVIOUS
    <3>2. sequence' \in [Cells -> Nat]
          BY <2>6, <3>1 DEF Publish
    <3>. QED BY <2>6, <3>2 DEF Publish
  <2>. QED BY <1>1, <2>1, <2>2, <2>3, <2>4, <2>5, <2>6 DEF Enqueue
<1>2. CASE Check  BY <1>2 DEF Check
<1>3. CASE Read
  <2>1. consumerCell \in Cells
        BY CellRange DEF consumerCell
  <2>. QED BY <1>3, <2>1 DEF Read
<1>4. CASE Release
  <2>1. got \in Nat
        BY <1>4 DEF Release, RingInv, ConsumerInv, First
  <2>2. dequeuePosition + Capacity \in Nat
        OBVIOUS
  <2>3. sequence' \in [Cells -> Nat]
        BY <1>4, <2>2 DEF Release
  <2>. QED BY <1>4, <2>1, <2>3 DEF Release
<1>5. CASE Advance  BY <1>5 DEF Advance
<1>6. CASE UNCHANGED vars  BY <1>6 DEF vars
<1>. QED BY <1>1, <1>2, <1>3, <1>4, <1>5, <1>6 DEF Next, Dequeue

\* A producer that does not store before or after a step leaves alone what is
\* unpublished.
LEMMA SameUnpublished ==
    ASSUME NEW p \in Producers, ~Storing(p), ~Storing(p)',
           \A q \in Producers \ {p} : pc'[q] = pc[q] /\ position'[q] = position[q]
    PROVE  Unpublished' = Unpublished
BY DEF Unpublished, Storing

\* The ring as it is at the moment, without what anybody is doing to it.
RingUnchanged == UNCHANGED <<sequence, value, enqueuePosition, dequeuePosition, cpc, got, taken>>

\* A step that leaves the ring and what is being stored alone preserves what
\* the invariant says of the cells.
LEMMA SameCells ==
    ASSUME RingInv, RingUnchanged, Unpublished' = Unpublished
    PROVE  WindowInv' /\ CellsInv' /\ ConsumerInv'
<1>1. First' = First /\ UNCHANGED <<sequence, value, enqueuePosition, dequeuePosition, cpc, got>>
      BY DEF First, RingUnchanged
<1>2. \A k : Published(k)' <=> Published(k)
      BY <1>1 DEF Published
<1>. QED BY <1>1, <1>2 DEF RingInv, WindowInv, CellsInv, ConsumerInv

\* A cell free for a place the producer has just looked at is in the window.
LEMMA FreeCell ==
    ASSUME RingInv, NEW p \in Producers, sequence[Cell(position[p])] = position[p]
    PROVE  position[p] < First + Capacity
<1>1. position[p] \in Nat /\ First \in Nat /\ position[p] <= First + Capacity
      BY CapacityAssumption DEF RingInv, TypeOK, ProducersInv, WindowInv, First
<1>2. sequence[Cell(First)] \in {First, First + 1}
      BY <1>1, CapacityAssumption DEF RingInv, CellsInv
<1>3. ASSUME position[p] = First + Capacity  PROVE FALSE
  <2>1. Cell(position[p]) = Cell(First)
        BY <1>1, <1>3, NextLap
  <2>. QED BY <1>1, <1>2, <1>3, <2>1, CapacityAssumption
<1>. QED BY <1>1, <1>3, CapacityAssumption

\* A producer that looks for a place, or gives up, touches no cell.
LEMMA SearchStep ==
    ASSUME RingInv, NEW p \in Producers, LoadPosition(p) \/ Look(p) \/ ClaimFails(p)
    PROVE  WindowInv' /\ CellsInv' /\ ProducersInv' /\ ConsumerInv'
<1>. USE DEF LoadPosition, Look, ClaimFails, Goto
<1>1. RingUnchanged /\ First' = First
      BY DEF RingUnchanged, ringVars, First
<1>2. ~Storing(p) /\ ~Storing(p)'
      BY DEF Storing, RingInv, TypeOK
<1>3. \A q \in Producers \ {p} : pc'[q] = pc[q] /\ position'[q] = position[q]
      BY DEF RingInv, TypeOK
<1>4. position'[p] <= enqueuePosition /\ (pc'[p] = "claim" => position'[p] < First + Capacity)
  <2>1. CASE Look(p)
    <3>1. position'[p] = position[p] /\ position[p] <= enqueuePosition
          BY <2>1 DEF RingInv, ProducersInv
    <3>2. pc'[p] = "claim" => sequence[Cell(position[p])] - position[p] = 0
          BY <2>1 DEF RingInv, TypeOK
    <3>3. sequence[Cell(position[p])] \in Nat /\ position[p] \in Nat
          BY CellRange DEF RingInv, TypeOK
    <3>. QED BY <3>1, <3>2, <3>3, FreeCell
  <2>2. CASE LoadPosition(p) \/ ClaimFails(p)
        BY <2>2 DEF RingInv, TypeOK
  <2>. QED BY <2>1, <2>2
<1>5. ProducersInv'
      BY <1>1, <1>2, <1>3, <1>4 DEF ProducersInv, RingInv, Storing, RingUnchanged
<1>. QED BY <1>1, <1>2, <1>3, <1>5, SameUnpublished, SameCells

\* What the invariant says of the numbers involved.
LEMMA Ranges ==
    ASSUME RingInv
    PROVE  /\ First \in Nat /\ enqueuePosition \in Nat
           /\ First <= enqueuePosition /\ enqueuePosition <= First + Capacity
           /\ \A p \in Producers : /\ position[p] \in Nat
                                   /\ Storing(p) => /\ position[p] \in First .. First + Capacity - 1
                                                    /\ position[p] \in Unpublished
                                                    /\ ~Published(position[p])
           /\ \A k \in Nat : sequence[Cell(k)] \in Nat
<1>. USE CapacityAssumption
<1>1. First \in Nat /\ enqueuePosition \in Nat
      /\ First <= enqueuePosition /\ enqueuePosition <= First + Capacity
      BY DEF RingInv, TypeOK, WindowInv, First
<1>2. ASSUME NEW p \in Producers
      PROVE  position[p] \in Nat /\ (Storing(p) => position[p] \in First .. First + Capacity - 1)
      BY <1>1 DEF RingInv, TypeOK, ProducersInv
<1>3. ASSUME NEW p \in Producers, Storing(p)
      PROVE  position[p] \in Unpublished /\ ~Published(position[p])
      BY <1>3 DEF Unpublished, Storing, Published
<1>4. \A k \in Nat : sequence[Cell(k)] \in Nat
      BY CellRange DEF RingInv, TypeOK
<1>. QED BY <1>1, <1>2, <1>3, <1>4

\* The compare-exchange makes the claimed place the producer's own.
LEMMA ClaimStep ==
    ASSUME RingInv, NEW p \in Producers, Claim(p)
    PROVE  WindowInv' /\ CellsInv' /\ ProducersInv' /\ ConsumerInv'
<1>. USE CapacityAssumption DEF Claim, Goto
<1>1. /\ First' = First /\ enqueuePosition' = enqueuePosition + 1
      /\ position[p] = enqueuePosition
      /\ UNCHANGED <<sequence, value, dequeuePosition, position, cpc, got>>
      BY DEF First
<1>2. /\ pc'[p] = "write" /\ pc[p] = "claim"
      /\ \A q \in Producers \ {p} : pc'[q] = pc[q]
      BY DEF RingInv, TypeOK
<1>3. enqueuePosition < First + Capacity
      BY <1>1, <1>2 DEF RingInv, ProducersInv
<1>4. Unpublished' = Unpublished \cup {enqueuePosition}
      BY <1>1, <1>2 DEF Unpublished
<1>5. \A k \in Nat : Published(k)' <=> Published(k)
      BY <1>1, <1>4, Ranges DEF Published
<1>6. WindowInv' /\ ConsumerInv'
      BY <1>1, <1>3, <1>5, Ranges DEF RingInv, WindowInv, ConsumerInv
<1>7. CellsInv'
      BY <1>1, <1>5, Ranges DEF RingInv, CellsInv
<1>8. ASSUME NEW q \in Producers
      PROVE  /\ position'[q] <= enqueuePosition'
             /\ pc'[q] = "claim" => position'[q] < First' + Capacity
             /\ Storing(q)' => First' <= position'[q] /\ position'[q] < enqueuePosition'
             /\ pc'[q] = "publish" => value'[Cell(position'[q])] = position'[q]
      BY <1>1, <1>2, Ranges DEF RingInv, ProducersInv, Storing
<1>9. ASSUME NEW q \in Producers, NEW r \in Producers \ {q}, Storing(q)', Storing(r)'
      PROVE  position'[r] # position'[q]
      BY <1>1, <1>2, <1>9, Ranges DEF RingInv, ProducersInv, Storing
<1>. QED BY <1>6, <1>7, <1>8, <1>9 DEF ProducersInv

\* A producer that writes its record stores to a cell nobody else uses.
LEMMA WriteStep ==
    ASSUME RingInv, NEW p \in Producers, Write(p)
    PROVE  WindowInv' /\ CellsInv' /\ ProducersInv' /\ ConsumerInv'
<1>. USE DEF Write, Goto
<1>1. First' = First /\ UNCHANGED <<sequence, enqueuePosition, dequeuePosition, position, cpc, got>>
      BY DEF First
<1>2. /\ pc'[p] = "publish" /\ pc[p] = "write" /\ Storing(p)
      /\ \A q \in Producers \ {p} : pc'[q] = pc[q]
      BY DEF RingInv, TypeOK, Storing
<1>3. Unpublished' = Unpublished
      BY <1>1, <1>2 DEF Unpublished
<1>4. \A k : Published(k)' <=> Published(k)
      BY <1>1, <1>3 DEF Published
<1>5. value'[Cell(position[p])] = position[p]
      BY Ranges, CellRange DEF RingInv, TypeOK
<1>6. ASSUME NEW k \in First .. First + Capacity - 1, k # position[p]
      PROVE  value'[Cell(k)] = value[Cell(k)]
  <2>1. Cell(k) # Cell(position[p])
        BY <1>2, <1>6, Ranges, LapCells
  <2>. QED BY <2>1, Ranges, CellRange, CapacityAssumption DEF RingInv, TypeOK
<1>7. WindowInv' /\ ConsumerInv'
      BY <1>1, <1>4 DEF RingInv, WindowInv, ConsumerInv
<1>8. CellsInv'
      BY <1>1, <1>2, <1>4, <1>6, Ranges DEF RingInv, CellsInv
<1>9. ASSUME NEW q \in Producers, pc'[q] = "publish"
      PROVE  value'[Cell(position[q])] = position[q]
  <2>1. CASE q = p
        BY <2>1, <1>5
  <2>2. CASE q # p
    <3>1. Storing(q) /\ pc[q] = "publish" /\ position[q] # position[p]
          BY <1>2, <1>9, <2>2 DEF RingInv, ProducersInv, Storing
    <3>. QED BY <1>6, <3>1, Ranges DEF RingInv, ProducersInv
  <2>. QED BY <2>1, <2>2
<1>10. \A q \in Producers : /\ Storing(q)' <=> Storing(q)
                            /\ pc'[q] = "claim" <=> pc[q] = "claim"
      BY <1>2 DEF Storing
<1>11. ProducersInv'
      BY <1>1, <1>9, <1>10 DEF RingInv, ProducersInv
<1>. QED BY <1>7, <1>8, <1>11

\* The sequence number a producer publishes makes its place the consumer's.
LEMMA PublishStep ==
    ASSUME RingInv, NEW p \in Producers, Publish(p)
    PROVE  WindowInv' /\ CellsInv' /\ ProducersInv' /\ ConsumerInv'
<1>. USE DEF Publish, Goto
<1>1. First' = First /\ UNCHANGED <<value, enqueuePosition, dequeuePosition, position, cpc, got>>
      BY DEF First
<1>2. /\ pc'[p] = "idle" /\ pc[p] = "publish" /\ Storing(p) /\ ~Storing(p)'
      /\ \A q \in Producers \ {p} : pc'[q] = pc[q]
      BY DEF RingInv, TypeOK, Storing
<1>3. \A q \in Producers \ {p} : Storing(q) => position[q] # position[p]
      BY <1>2 DEF RingInv, ProducersInv
<1>4. Unpublished' = Unpublished \ {position[p]}
      BY <1>1, <1>2, <1>3 DEF Unpublished, Storing
<1>5. /\ position[p] < enqueuePosition /\ Published(position[p])'
      /\ \A k : k # position[p] => (Published(k)' <=> Published(k))
      BY <1>1, <1>2, <1>4 DEF Published, RingInv, ProducersInv
<1>6. /\ value[Cell(position[p])] = position[p]
      /\ sequence[Cell(position[p])] = position[p]
      /\ sequence'[Cell(position[p])] = position[p] + 1
  <2>1. value[Cell(position[p])] = position[p]
        BY <1>2 DEF RingInv, ProducersInv
  <2>2. sequence[Cell(position[p])] = position[p]
        BY <1>2, Ranges DEF RingInv, CellsInv
  <2>3. sequence'[Cell(position[p])] = position[p] + 1
        BY Ranges, CellRange DEF RingInv, TypeOK
  <2>. QED BY <2>1, <2>2, <2>3
<1>7. ASSUME NEW k \in Nat, Cell(k) # Cell(position[p])
      PROVE  sequence'[Cell(k)] = sequence[Cell(k)]
      BY <1>7, CellRange DEF RingInv, TypeOK
<1>8. ASSUME NEW k \in First .. First + Capacity - 1
      PROVE  /\ sequence'[Cell(k)] = IF Published(k)' THEN k + 1 ELSE k
             /\ Published(k)' => value[Cell(k)] = k
  <2>1. CASE k = position[p]
        BY <1>5, <1>6, <2>1
  <2>2. CASE k # position[p]
    <3>. /\ First \in Nat /\ k \in Nat
         /\ position[p] \in First .. First + Capacity - 1
         BY <1>2, Ranges, CapacityAssumption
    <3>1. Cell(k) # Cell(position[p])
          BY <2>2, LapCells
    <3>. QED BY <1>5, <1>7, <2>2, <3>1 DEF RingInv, CellsInv
  <2>. QED BY <2>1, <2>2
<1>9. ASSUME NEW k \in 0 .. First - 1
      PROVE  sequence'[Cell(k)] >= k
  <2>1. k \in Nat /\ sequence[Cell(k)] >= k
        BY Ranges DEF RingInv, CellsInv
  <2>2. CASE Cell(k) = Cell(position[p])
        BY <1>6, <2>1, <2>2, Ranges
  <2>3. CASE Cell(k) # Cell(position[p])
        BY <1>7, <2>1, <2>3
  <2>. QED BY <2>2, <2>3
<1>10. CellsInv'
       BY <1>1, <1>8, <1>9 DEF CellsInv
<1>11. WindowInv' /\ ConsumerInv'
       BY <1>1, <1>5 DEF RingInv, WindowInv, ConsumerInv
<1>12. ProducersInv'
       BY <1>1, <1>2 DEF RingInv, ProducersInv, Storing
<1>. QED BY <1>10, <1>11, <1>12

\* The consumer's steps that leave the cells alone.
LEMMA ConsumerStep ==
    ASSUME RingInv, Check \/ Read \/ Advance
    PROVE  WindowInv' /\ CellsInv' /\ ProducersInv' /\ ConsumerInv'
<1>. USE DEF Check, Read, Advance, ringVars
<1>1. First' = First /\ UNCHANGED <<sequence, value, enqueuePosition, pc, position>>
      BY DEF First
<1>2. Unpublished' = Unpublished
      BY <1>1 DEF Unpublished
<1>3. \A k : Published(k)' <=> Published(k)
      BY <1>1, <1>2 DEF Published
<1>4. CellsInv' /\ ProducersInv'
      BY <1>1, <1>3 DEF RingInv, CellsInv, ProducersInv, Storing
<1>5. First \in First .. First + Capacity - 1 /\ First \in Nat
      BY Ranges, CapacityAssumption
<1>6. CASE Check
  <2>1. First = dequeuePosition
        BY <1>6 DEF RingInv, WindowInv
  <2>2. Published(First)
        BY <1>5, <1>6, <2>1 DEF RingInv, CellsInv, consumerCell
  <2>. QED BY <1>1, <1>3, <1>4, <1>6, <2>1, <2>2 DEF RingInv, WindowInv, ConsumerInv
<1>7. CASE Read
  <2>1. First = dequeuePosition /\ Published(First)
        BY <1>7 DEF RingInv, WindowInv, ConsumerInv
  <2>2. got' = First
        BY <1>5, <1>7, <2>1 DEF RingInv, CellsInv, consumerCell
  <2>. QED BY <1>1, <1>3, <1>4, <1>7, <2>1, <2>2 DEF RingInv, WindowInv, ConsumerInv
<1>8. CASE Advance
      BY <1>1, <1>4, <1>8 DEF RingInv, WindowInv, ConsumerInv
<1>. QED BY <1>6, <1>7, <1>8

\* Releasing the head moves the window on by one place.
LEMMA ReleaseStep ==
    ASSUME RingInv, Release
    PROVE  WindowInv' /\ CellsInv' /\ ProducersInv' /\ ConsumerInv'
<1>. USE CapacityAssumption DEF Release
<1>1. /\ First = dequeuePosition /\ Published(First) /\ got = First
      /\ First \in Nat /\ First < enqueuePosition
      BY Ranges DEF RingInv, WindowInv, ConsumerInv, Published
<1>2. First' = First + 1
      BY <1>1 DEF RingInv, TypeOK, First
<1>3. UNCHANGED <<value, enqueuePosition, dequeuePosition, pc, position>>
      OBVIOUS
<1>4. \A k : Published(k)' <=> Published(k)
      BY <1>3 DEF Published, Unpublished
<1>5. sequence'[Cell(First)] = First + Capacity
      BY <1>1, CellRange DEF RingInv, TypeOK, consumerCell
<1>6. ASSUME NEW k \in Nat, Cell(k) # Cell(First)
      PROVE  sequence'[Cell(k)] = sequence[Cell(k)]
      BY <1>1, <1>6, CellRange DEF RingInv, TypeOK, consumerCell
<1>7. ASSUME NEW k \in First + 1 .. First + Capacity
      PROVE  /\ sequence'[Cell(k)] = IF Published(k) THEN k + 1 ELSE k
             /\ Published(k) => value[Cell(k)] = k
  <2>1. CASE k = First + Capacity
    <3>1. ~Published(k)
          BY <1>1, <2>1, Ranges DEF Published
    <3>2. Cell(k) = Cell(First)
          BY <1>1, <2>1, NextLap
    <3>. QED BY <1>5, <2>1, <3>1, <3>2
  <2>2. CASE k # First + Capacity
    <3>1. k \in First .. First + Capacity - 1 /\ k \in Nat /\ k # First
          /\ First \in First .. First + Capacity - 1
          BY <1>1, <2>2
    <3>2. Cell(k) # Cell(First)
          BY <1>1, <3>1, LapCells
    <3>. QED BY <1>6, <3>1, <3>2 DEF RingInv, CellsInv
  <2>. QED BY <2>1, <2>2
<1>8. ASSUME NEW k \in 0 .. First
      PROVE  sequence'[Cell(k)] >= k
  <2>1. CASE Cell(k) = Cell(First)
        BY <1>1, <1>5, <2>1
  <2>2. CASE Cell(k) # Cell(First)
    <3>1. k \in 0 .. First - 1 /\ k \in Nat
          BY <1>1, <2>2
    <3>. QED BY <1>6, <2>2, <3>1 DEF RingInv, CellsInv
  <2>. QED BY <2>1, <2>2
<1>9. CellsInv'
  <2>1. First' .. First' + Capacity - 1 = First + 1 .. First + Capacity /\ First' - 1 = First
        BY <1>1, <1>2
  <2>. QED BY <1>3, <1>4, <1>7, <1>8, <2>1 DEF CellsInv
<1>10. WindowInv'
       BY <1>1, <1>2, <1>3, Ranges DEF WindowInv
<1>11. ASSUME NEW p \in Producers, Storing(p)
       PROVE  First' <= position[p]
  <2>1. position[p] # First
        BY <1>1, <1>11, Ranges
  <2>. QED BY <1>1, <1>2, <1>11, <2>1, Ranges
<1>12. ASSUME NEW p \in Producers, pc[p] = "claim"
       PROVE  position[p] < First' + Capacity
       BY <1>1, <1>2, <1>12, Ranges DEF RingInv, ProducersInv
<1>13. ProducersInv'
       BY <1>3, <1>11, <1>12 DEF RingInv, ProducersInv, Storing
<1>14. ConsumerInv'
       BY DEF ConsumerInv
<1>. QED BY <1>9, <1>10, <1>13, <1>14

-----------------------------------------------------------------------------
(***************************************************************************)
(* The theorems.                                                           *)
(***************************************************************************)
\* Every step of the ring preserves the invariant.
LEMMA RingStep ==
    ASSUME RingInv, [Next]_vars
    PROVE  RingInv'
<1>1. TypeOK'
      BY TypeStep
<1>2. ASSUME NEW p \in Producers, Enqueue(p)  PROVE RingInv'
      BY <1>1, <1>2, SearchStep, ClaimStep, WriteStep, PublishStep DEF Enqueue, RingInv
<1>3. CASE Dequeue
      BY <1>1, <1>3, ConsumerStep, ReleaseStep DEF Dequeue, RingInv
<1>4. CASE UNCHANGED vars
  <2>. USE <1>4 DEF vars, ringVars
  <2>1. RingUnchanged /\ Unpublished' = Unpublished
        BY DEF RingUnchanged, Unpublished
  <2>2. ProducersInv'
        BY DEF RingInv, ProducersInv, Storing, First
  <2>. QED BY <1>1, <2>1, <2>2, SameCells DEF RingInv
<1>. QED BY <1>2, <1>3, <1>4 DEF Next

\* The inductive invariant holds: window, cells, producers and consumer agree.
THEOREM RingInvariant == Spec => []RingInv
<1>. QED BY InitialState, RingStep, PTL DEF Spec

\* No cell is stored to while its last record is still there, nor by two
\* producers at once (try_enqueue, whatever order its threads run in).
THEOREM NothingIsOverwritten == Spec => []NoOverwrite
<1>1. RingInv => NoOverwrite
  <2>. SUFFICES ASSUME RingInv  PROVE NoOverwrite
       OBVIOUS
  <2>1. ASSUME NEW p \in Producers, Storing(p),
               NEW k \in First .. enqueuePosition - 1, k # position[p]
        PROVE  Cell(k) # Cell(position[p])
    <3>. /\ First \in Nat /\ k \in First .. First + Capacity - 1
         /\ position[p] \in First .. First + Capacity - 1
         BY <2>1, Ranges, CapacityAssumption
    <3>. QED BY <2>1, LapCells
  <2>2. ASSUME NEW p \in Producers, NEW q \in Producers \ {p}, Storing(p), Storing(q)
        PROVE  position[q] # position[p]
        BY <2>2 DEF RingInv, ProducersInv
  <2>. QED BY <2>1, <2>2 DEF NoOverwrite, Storing, First, RingInv
<1>. QED BY <1>1, RingInvariant, PTL

\* try_enqueue refuses a record only when every cell is claimed: a sequence
\* number behind the position means that a whole lap is not yet dequeued.
THEOREM RefusalIsJustified == Spec => RefusedOnlyWhenFull
<1>1. ASSUME RingInv, [Next]_vars, NEW p \in Producers, pc[p] = "look", pc'[p] = "idle"
      PROVE  enqueuePosition - Len(taken) >= Capacity
  <2>1. Look(p)
    <3>1. \A q \in Producers : pc[q] = "look" /\ pc'[q] = "idle" => Look(q)
          BY <1>1 DEF Next, Enqueue, LoadPosition, Look, Claim, ClaimFails, Write, Publish, Goto,
                      Dequeue, Check, Read, Release, Advance, vars, RingInv, TypeOK
    <3>. QED BY <1>1, <3>1
  <2>2. sequence[Cell(position[p])] < position[p]
    <3>1. sequence[Cell(position[p])] - position[p] < 0
          BY <1>1, <2>1 DEF Look, Goto, RingInv, TypeOK
    <3>. QED BY <1>1, <3>1, Ranges
  <2>3. position[p] \in Nat /\ position[p] <= enqueuePosition
        BY <1>1, Ranges DEF RingInv, ProducersInv
  <2>4. ~(position[p] < First)
        BY <1>1, <2>2, <2>3, Ranges DEF RingInv, CellsInv
  <2>5. ~(position[p] \in First .. First + Capacity - 1)
        BY <1>1, <2>2, <2>3, Ranges DEF RingInv, CellsInv
  <2>. QED BY <1>1, <2>3, <2>4, <2>5, Ranges, CapacityAssumption DEF First
<1>2. RingInv /\ [Next]_vars =>
        [\A p \in Producers : pc[p] = "look" /\ pc'[p] = "idle" =>
              enqueuePosition - Len(taken) >= Capacity]_vars
      BY <1>1
<1>. QED BY <1>2, RingInvariant, PTL DEF Spec, RefusedOnlyWhenFull

\* The ring implements the abstract queue: its compare-exchange claims, the
\* release store of a producer publishes, that of the consumer takes.
THEOREM RingImplementsQueue == Spec => ImplementsQueue
<1>1. Init => Queue!QueueInit
      BY DEF Init, Queue!QueueInit, Unpublished
<1>2. ASSUME RingInv, [Next]_vars
      PROVE  [Queue!QueueNext]_(Queue!queueVars)
  <2>. USE DEF Queue!QueueNext, Queue!queueVars
  <2>1. ASSUME NEW p \in Producers, LoadPosition(p) \/ Look(p) \/ ClaimFails(p)
        PROVE  UNCHANGED Queue!queueVars
    <3>. USE DEF LoadPosition, Look, ClaimFails, Goto
    <3>1. /\ ~Storing(p) /\ ~Storing(p)'
          /\ \A q \in Producers \ {p} : pc'[q] = pc[q] /\ position'[q] = position[q]
          BY <1>2, <2>1 DEF Storing, RingInv, TypeOK
    <3>. QED BY <2>1, <3>1, SameUnpublished DEF ringVars
  <2>2. ASSUME NEW p \in Producers, Claim(p)
        PROVE  Queue!Claim
    <3>1. /\ pc'[p] = "write" /\ pc[p] = "claim" /\ position'[p] = enqueuePosition
          /\ \A q \in Producers \ {p} : pc'[q] = pc[q]
          /\ position' = position
          BY <1>2, <2>2 DEF Claim, Goto, RingInv, TypeOK
    <3>2. Unpublished' = Unpublished \cup {enqueuePosition}
          BY <3>1 DEF Unpublished
    <3>3. enqueuePosition < First + Capacity
          BY <1>2, <2>2, <3>1 DEF RingInv, ProducersInv, Claim
    <3>4. enqueuePosition - Len(taken) < Capacity
          BY <1>2, <3>3, Ranges, CapacityAssumption DEF First
    <3>. QED BY <2>2, <3>2, <3>4 DEF Claim, Queue!Claim, Queue!HasRoom
  <2>3. ASSUME NEW p \in Producers, Write(p)
        PROVE  UNCHANGED Queue!queueVars
    <3>1. /\ \A q \in Producers : Storing(q)' <=> Storing(q)
          /\ position' = position
          BY <1>2, <2>3 DEF Write, Goto, Storing, RingInv, TypeOK
    <3>2. Unpublished' = Unpublished
          BY <3>1 DEF Unpublished, Storing
    <3>. QED BY <2>3, <3>2 DEF Write
  <2>4. ASSUME NEW p \in Producers, Publish(p)
        PROVE  \E k \in Unpublished : Queue!Publish(k)
    <3>1. /\ Storing(p) /\ ~Storing(p)' /\ position' = position
          /\ \A q \in Producers \ {p} : pc'[q] = pc[q]
          BY <1>2, <2>4 DEF Publish, Goto, Storing, RingInv, TypeOK
    <3>2. \A q \in Producers \ {p} : Storing(q) => position[q] # position[p]
          BY <1>2, <3>1 DEF RingInv, ProducersInv
    <3>3. /\ Unpublished' = Unpublished \ {position[p]}
          /\ position[p] \in Unpublished
          BY <3>1, <3>2 DEF Unpublished, Storing
    <3>. QED BY <2>4, <3>3 DEF Publish, Queue!Publish
  <2>5. CASE Release
    <3>1. got = Len(taken) /\ Len(taken) < enqueuePosition /\ Len(taken) \notin Unpublished
          BY <1>2, <2>5 DEF Release, RingInv, ConsumerInv, Published, First
    <3>2. Unpublished' = Unpublished
          BY <2>5 DEF Release, Unpublished
    <3>. QED BY <2>5, <3>1, <3>2 DEF Release, Queue!Take, Queue!HeadReady
  <2>6. CASE Check \/ Read \/ Advance \/ UNCHANGED vars
        BY <2>6 DEF Check, Read, Advance, vars, ringVars, Unpublished
  <2>. QED BY <1>2, <2>1, <2>2, <2>3, <2>4, <2>5, <2>6 DEF Next, Enqueue, Dequeue
<1>. QED BY <1>1, <1>2, RingInvariant, PTL DEF Spec, ImplementsQueue, Queue!QueueSpec
=============================================================================

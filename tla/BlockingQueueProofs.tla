------------------------ MODULE BlockingQueueProofs ------------------------
(***************************************************************************)
(* Theorems about BlockingQueue, for every capacity, every set of threads  *)
(* and every set of calls.                                                 *)
(***************************************************************************)
EXTENDS BlockingQueue, FiniteSetTheorems, SequenceTheorems, TLAPS

(***************************************************************************)
(* next_index and the positions it takes.                                  *)
(***************************************************************************)

\* The only modulus the ring computes is of a number below twice its
\* capacity: RingBuffer::next_index never wraps more than once.
LEMMA ModBelow ==
    ASSUME NEW C \in Nat \ {0}, NEW x \in 0 .. C - 1
    PROVE  x % C = x
OBVIOUS

\* Past the end it comes back to the first slots.
LEMMA ModOnce ==
    ASSUME NEW C \in Nat \ {0}, NEW x \in C .. 2 * C - 1
    PROVE  x % C = x - C
OBVIOUS

\* Advancing by at most the capacity stays within the slots.
LEMMA AdvanceIsSlot ==
    ASSUME NEW i \in Slots, NEW k \in 0..Capacity
    PROVE  /\ Advance(i, k) \in Slots
           /\ Advance(i, k) = IF i + k < Capacity THEN i + k ELSE i + k - Capacity
<1>. USE CapacityAssumption DEF Slots, Advance
<1>1. CASE i + k < Capacity
  <2>1. i + k \in 0 .. Capacity - 1
        BY <1>1
  <2>2. (i + k) % Capacity = i + k
        BY <2>1, ModBelow
  <2>. QED BY <1>1, <2>1, <2>2
<1>2. CASE ~(i + k < Capacity)
  <2>1. i + k \in Capacity .. 2 * Capacity - 1
        BY <1>2
  <2>2. (i + k) % Capacity = i + k - Capacity
        BY <2>1, ModOnce
  <2>3. i + k - Capacity \in 0 .. Capacity - 1
        BY <2>1
  <2>. QED BY <1>2, <2>2, <2>3
<1>. QED BY <1>1, <1>2

\* A slot is fewer than Capacity steps of next_index away from any other.
LEMMA OffsetRange ==
    ASSUME NEW i \in Slots, NEW j \in Slots
    PROVE  Offset(i, j) \in 0 .. Capacity - 1
BY CapacityAssumption DEF Offset, Slots

-----------------------------------------------------------------------------
(***************************************************************************)
(* Type correctness of the ring, and what a push and a pop do to it.       *)
(***************************************************************************)
RingType == /\ buffer \in [Slots -> Nat]
            /\ head \in Slots /\ tail \in Slots /\ size \in 0..Capacity
            /\ delivered \in Seq(Nat)

RingInv == RingType /\ RingConsistent /\ DeliveredInOrder

\* k emplaces into k free slots keep the ring consistent.
LEMMA EmplaceRing ==
    ASSUME RingInv, NEW k \in 1 .. Capacity - size, Emplace(k)
    PROVE  RingInv'
<1>. USE DEF RingInv, RingType
<1>1. /\ tail' = Advance(tail, k) /\ size' = size + k
      /\ head' = head /\ delivered' = delivered
      /\ buffer' = [i \in Slots |-> IF Offset(tail, i) < k
                                      THEN Stored + 1 + Offset(tail, i)
                                      ELSE buffer[i]]
      BY DEF Emplace
<1>2. k \in 1..Capacity /\ size + k \in 0..Capacity /\ size \in 0..Capacity
      BY CapacityAssumption
<1>3. tail' \in Slots
      BY <1>1, <1>2, AdvanceIsSlot
<1>4. Len(delivered) \in Nat /\ Stored \in Nat /\ Stored = Len(delivered) + size
      BY DEF Stored
<1>5. buffer' \in [Slots -> Nat]
  <2>1. \A i \in Slots : Offset(tail, i) \in Nat
        BY OffsetRange, CapacityAssumption
  <2>2. \A i \in Slots : Stored + 1 + Offset(tail, i) \in Nat
        BY <1>4, <2>1
  <2>. QED BY <1>1, <2>2
<1>6. RingType'
      BY <1>1, <1>2, <1>3, <1>5
<1>7. tail = IF head + size < Capacity THEN head + size ELSE head + size - Capacity
      BY <1>2, AdvanceIsSlot DEF RingConsistent
<1>8. tail' = Advance(head', size')
  <2>1. Advance(tail, k) = IF tail + k < Capacity THEN tail + k ELSE tail + k - Capacity
        BY <1>2, AdvanceIsSlot
  <2>2. Advance(head, size + k) = IF head + (size + k) < Capacity
                                    THEN head + (size + k)
                                    ELSE head + (size + k) - Capacity
        BY <1>2, AdvanceIsSlot
  <2>. QED BY <1>1, <1>2, <1>7, <2>1, <2>2, CapacityAssumption DEF Slots
<1>9. ASSUME NEW i \in Slots
      PROVE  buffer'[i] = IF Offset(head', i) < size'
                            THEN Len(delivered') + 1 + Offset(head', i)
                            ELSE NoItem
  <2>1. buffer[i] = IF Offset(head, i) < size
                      THEN Len(delivered) + 1 + Offset(head, i) ELSE NoItem
        BY DEF RingConsistent
  <2>2. buffer'[i] = IF Offset(tail, i) < k THEN Stored + 1 + Offset(tail, i)
                                            ELSE buffer[i]
        BY <1>1
  <2>3. CASE Offset(head, i) < size
    <3>1. ~(Offset(tail, i) < k)
          BY <1>2, <1>7, <2>3, CapacityAssumption DEF Offset, Slots
    <3>2. Offset(head, i) \in Nat
          BY OffsetRange
    <3>3. Offset(head', i) = Offset(head, i) /\ Offset(head, i) < size'
          BY <1>1, <1>2, <2>3, <3>2
    <3>4. buffer'[i] = Len(delivered') + 1 + Offset(head, i)
          BY <1>1, <2>1, <2>2, <2>3, <3>1
    <3>. QED BY <3>3, <3>4
  <2>4. CASE ~(Offset(head, i) < size)
    <3>1. Offset(head, i) = size + Offset(tail, i)
          BY <1>2, <1>7, <2>4, CapacityAssumption DEF Offset, Slots
    <3>2. Offset(tail, i) \in 0 .. Capacity - 1
          BY OffsetRange
    <3>. QED BY <1>1, <1>2, <1>4, <2>1, <2>2, <2>4, <3>1, <3>2
  <2>. QED BY <2>3, <2>4
<1>10. RingConsistent'
      BY <1>8, <1>9 DEF RingConsistent
<1>11. DeliveredInOrder'
      BY <1>1 DEF DeliveredInOrder
<1>. QED BY <1>6, <1>10, <1>11

\* What appending the items of a pop does to the ones delivered before.
LEMMA ConcatNat ==
    ASSUME NEW s \in Seq(Nat), NEW t \in Seq(Nat)
    PROVE  /\ s \o t \in Seq(Nat) /\ Len(s \o t) = Len(s) + Len(t)
           /\ Len(s) \in Nat
           /\ \A i \in 1..Len(s) : (s \o t)[i] = s[i]
           /\ \A i \in 1..Len(t) : (s \o t)[Len(s) + i] = t[i]
OBVIOUS

\* k pops of k live items hand out the oldest ones, in order.
LEMMA PopFrontRing ==
    ASSUME RingInv, NEW k \in 1 .. size, PopFront(k)
    PROVE  RingInv'
<1>. USE DEF RingInv, RingType
<1>. DEFINE out == [i \in 1..k |-> buffer[Advance(head, i - 1)]]
<1>1. /\ head' = Advance(head, k) /\ size' = size - k /\ tail' = tail
      /\ delivered' = delivered \o out
      /\ buffer' = [i \in Slots |-> IF Offset(head, i) < k THEN NoItem ELSE buffer[i]]
      BY DEF PopFront
<1>2. k \in 1..Capacity /\ size - k \in 0..Capacity /\ size \in 0..Capacity /\ k <= size
      BY CapacityAssumption
<1>3. /\ head' \in Slots
      /\ head' = IF head + k < Capacity THEN head + k ELSE head + k - Capacity
  <2>1. /\ Advance(head, k) \in Slots
        /\ Advance(head, k) = IF head + k < Capacity THEN head + k
                                                      ELSE head + k - Capacity
        BY <1>2, AdvanceIsSlot
  <2>. QED BY <1>1, <2>1
<1>4. ASSUME NEW i \in 1..k
      PROVE  out[i] = Len(delivered) + i
  <2>1. i \in Nat /\ i <= size /\ i - 1 \in 0..Capacity
        BY <1>2, CapacityAssumption
  <2>2. /\ Advance(head, i - 1) \in Slots
        /\ Advance(head, i - 1) = IF head + (i - 1) < Capacity THEN head + (i - 1)
                                  ELSE head + (i - 1) - Capacity
        BY <2>1, AdvanceIsSlot
  <2>3. Offset(head, Advance(head, i - 1)) = i - 1
        BY <1>2, <2>1, <2>2, CapacityAssumption DEF Offset, Slots
  <2>4. i - 1 < size
        BY <1>2
  <2>5. buffer[Advance(head, i - 1)] = Len(delivered) + 1 + (i - 1)
        BY <2>2, <2>3, <2>4 DEF RingConsistent
  <2>. QED BY <2>5, <1>2
<1>5. out \in Seq(Nat) /\ Len(out) = k
  <2>1. k \in Nat
        BY <1>2
  <2>2. \A i \in 1..k : out[i] \in Nat
        BY <1>4
  <2>. HIDE DEF out
  <2>3. DOMAIN out = 1..k /\ out = [i \in 1..k |-> out[i]]
        BY DEF out
  <2>4. out \in [1..k -> Nat]
        BY <2>2, <2>3
  <2>. QED BY <2>1, <2>4
<1>. HIDE DEF out
<1>6. /\ delivered' \in Seq(Nat) /\ Len(delivered') = Len(delivered) + k
      /\ Len(delivered) \in Nat
      /\ \A i \in 1..Len(delivered) : delivered'[i] = delivered[i]
      /\ \A i \in 1..k : delivered'[Len(delivered) + i] = out[i]
  <2>1. delivered \in Seq(Nat) /\ k \in Nat
        BY <1>2
  <2>. QED BY <1>1, <1>5, <2>1, ConcatNat
<1>7. DeliveredInOrder'
  <2>. SUFFICES ASSUME NEW i \in 1..Len(delivered') PROVE delivered'[i] = i
       BY DEF DeliveredInOrder
  <2>1. CASE i <= Len(delivered)
    <3>1. i \in 1..Len(delivered)
          BY <1>6, <1>2, <2>1
    <3>. QED BY <1>6, <3>1 DEF DeliveredInOrder
  <2>2. CASE i > Len(delivered)
    <3>1. i - Len(delivered) \in 1..k
          BY <1>2, <1>6, <2>2
    <3>2. delivered'[Len(delivered) + (i - Len(delivered))] = out[i - Len(delivered)]
          BY <1>6, <3>1
    <3>3. out[i - Len(delivered)] = Len(delivered) + (i - Len(delivered))
          BY <1>4, <3>1
    <3>4. Len(delivered) + (i - Len(delivered)) = i
          BY <1>6
    <3>. QED BY <3>2, <3>3, <3>4
  <2>. QED BY <1>6, <2>1, <2>2
<1>8. tail' = Advance(head', size')
  <2>1. tail = IF head + size < Capacity THEN head + size ELSE head + size - Capacity
        BY <1>2, AdvanceIsSlot DEF RingConsistent
  <2>2. Advance(head', size - k) = IF head' + (size - k) < Capacity
                                     THEN head' + (size - k)
                                     ELSE head' + (size - k) - Capacity
        BY <1>2, <1>3, AdvanceIsSlot
  <2>. QED BY <1>1, <1>2, <1>3, <2>1, <2>2, CapacityAssumption DEF Slots
<1>9. ASSUME NEW i \in Slots
      PROVE  buffer'[i] = IF Offset(head', i) < size'
                            THEN Len(delivered') + 1 + Offset(head', i)
                            ELSE NoItem
  <2>1. buffer[i] = IF Offset(head, i) < size
                      THEN Len(delivered) + 1 + Offset(head, i) ELSE NoItem
        BY DEF RingConsistent
  <2>2. buffer'[i] = IF Offset(head, i) < k THEN NoItem ELSE buffer[i]
        BY <1>1
  <2>4. CASE Offset(head, i) < k
    <3>1. Offset(head', i) = Offset(head, i) - k + Capacity
          BY <1>2, <1>3, <2>4, CapacityAssumption DEF Offset, Slots
    <3>2. Offset(head, i) \in 0 .. Capacity - 1
          BY OffsetRange
    <3>3. ~(Offset(head', i) < size')
          BY <1>1, <1>2, <3>1, <3>2, CapacityAssumption
    <3>. QED BY <2>2, <2>4, <3>3
  <2>5. CASE ~(Offset(head, i) < k)
    <3>1. Offset(head', i) = Offset(head, i) - k
          BY <1>2, <1>3, <2>5, CapacityAssumption DEF Offset, Slots
    <3>2. Offset(head, i) \in 0 .. Capacity - 1
          BY OffsetRange
    <3>3. Offset(head, i) < size <=> Offset(head', i) < size'
          BY <1>1, <1>2, <3>1, <3>2
    <3>4. buffer'[i] = buffer[i]
          BY <2>2, <2>5
    <3>5. Len(delivered') + 1 + Offset(head', i) = Len(delivered) + 1 + Offset(head, i)
          BY <1>2, <1>6, <3>1, <3>2
    <3>. QED BY <2>1, <3>3, <3>4, <3>5
  <2>. QED BY <2>4, <2>5
<1>10. buffer' \in [Slots -> Nat]
      BY <1>1 DEF NoItem
<1>11. RingType'
      BY <1>1, <1>2, <1>3, <1>6, <1>10
<1>12. RingConsistent'
      BY <1>8, <1>9 DEF RingConsistent
<1>. QED BY <1>7, <1>11, <1>12

-----------------------------------------------------------------------------
(***************************************************************************)
(* Type correctness of the rest of the state.                              *)
(***************************************************************************)
AllCalls == PushCalls \cup PopCalls \cup {NoCall}

ControlType == /\ closed \in BOOLEAN
               /\ notFull \subseteq Threads /\ notEmpty \subseteq Threads
               /\ pc \in [Threads -> PCs]
               /\ call \in [Threads -> AllCalls]

\* The type invariant is the ring's part and the threads' part.
LEMMA TypeSplit == TypeOK <=> RingType /\ ControlType
BY DEF TypeOK, RingType, ControlType, AllCalls

\* What a call offers or asks for is a number of items.
LEMMA CallSize ==
    ASSUME NEW c \in PushCalls \cup PopCalls
    PROVE  /\ c.n \in Nat
           /\ c \in PushCalls => c.op \in PushOps
           /\ c \in PopCalls => c.op \in PopOps
BY CallsAssumption DEF CallsOf, PushOps, PopOps

\* A thread leaving a critical section has only its pc and its call changed.
LEMMA LeaveType ==
    ASSUME ControlType, NEW t \in Threads, NEW next \in PCs, Leave(t, next),
           UNCHANGED <<closed, notFull, notEmpty>>
    PROVE  ControlType'
BY DEF ControlType, Leave, AllCalls

\* A critical section of a push keeps the types.
LEMMA PushControl ==
    ASSUME ControlType, NEW t \in Threads, NEW c \in PushCalls, PushSection(t, c)
    PROVE  ControlType'
<1>1. CASE PushWait(t, c)
      BY <1>1 DEF PushWait, ControlType, AllCalls, PCs
<1>2. CASE PushRefused(t, c)
  <2>1. "idle" \in PCs
        BY DEF PCs
  <2>. QED BY <1>2, <2>1, LeaveType DEF PushRefused
<1>3. CASE PushAccepted(t, c)
  <2>1. "notifyNotEmpty" \in PCs
        BY DEF PCs
  <2>. QED BY <1>3, <2>1, LeaveType DEF PushAccepted
<1>. QED BY <1>1, <1>2, <1>3 DEF PushSection

\* A critical section of a pop keeps the types.
LEMMA PopControl ==
    ASSUME ControlType, NEW t \in Threads, NEW c \in PopCalls, PopSection(t, c)
    PROVE  ControlType'
<1>1. CASE PopWait(t, c)
      BY <1>1 DEF PopWait, ControlType, AllCalls, PCs
<1>2. CASE PopRefused(t, c)
  <2>1. "idle" \in PCs
        BY DEF PCs
  <2>. QED BY <1>2, <2>1, LeaveType DEF PopRefused
<1>3. CASE PopAccepted(t, c)
  <2>1. "notifyNotFull" \in PCs
        BY DEF PCs
  <2>. QED BY <1>3, <2>1, LeaveType DEF PopAccepted
<1>. QED BY <1>1, <1>2, <1>3 DEF PopSection

\* A thread that is resumed makes a call of its own kind.
LEMMA ResumedCall ==
    ASSUME ControlType, NEW t \in Threads
    PROVE  /\ call[t].op \in PushOps => call[t] \in PushCalls
           /\ call[t].op \in PopOps => call[t] \in PopCalls
<1>1. call[t] \in PushCalls \cup PopCalls \cup {NoCall}
      BY DEF ControlType, AllCalls
<1>2. CASE call[t] = NoCall
      BY <1>2 DEF NoCall, PushOps, PopOps
<1>3. CASE call[t] \in PushCalls
      BY <1>3, CallSize DEF PushOps, PopOps
<1>4. CASE call[t] \in PopCalls
      BY <1>4, CallSize DEF PushOps, PopOps
<1>. QED BY <1>1, <1>2, <1>3, <1>4

\* A notification keeps the types: the woken threads were threads.
LEMMA AwakenType ==
    ASSUME ControlType, NEW t \in Threads, NEW W
    PROVE  Awaken(t, W) \in [Threads -> PCs]
BY DEF Awaken, ControlType, PCs

\* Every step keeps the types of the threads' part.
LEMMA ControlStep ==
    ASSUME ControlType, [Next]_vars
    PROVE  ControlType'
<1>1. CASE UNCHANGED vars
      BY <1>1 DEF vars, ControlType
<1>2. ASSUME NEW t \in Threads,
             \/ StartPush(t) \/ StartPop(t) \/ Resume(t)
      PROVE  ControlType'
      BY <1>2, PushControl, PopControl, ResumedCall
         DEF StartPush, StartPop, Resume
<1>3. ASSUME NEW t \in Threads, Close(t)
      PROVE  ControlType'
      BY <1>3 DEF Close, ControlType, PCs
<1>4. ASSUME NEW t \in Threads, NotifyNotEmpty(t)
      PROVE  ControlType'
      BY <1>4, AwakenType DEF NotifyNotEmpty, ControlType
<1>5. ASSUME NEW t \in Threads, NotifyNotFull(t)
      PROVE  ControlType'
      BY <1>5, AwakenType DEF NotifyNotFull, ControlType
<1>6. ASSUME NEW t \in Threads, CloseNotEmpty(t)
      PROVE  ControlType'
  <2>1. Awaken(t, notEmpty) \in [Threads -> PCs] /\ "closeNotFull" \in PCs
        BY AwakenType DEF PCs
  <2>. QED BY <1>6, <2>1 DEF CloseNotEmpty, ControlType
<1>7. ASSUME NEW t \in Threads, CloseNotFull(t)
      PROVE  ControlType'
      BY <1>7, AwakenType DEF CloseNotFull, ControlType
<1>8. ASSUME NEW t \in Threads, Timeout(t) \/ SpuriousWakeup(t)
      PROVE  ControlType'
      BY <1>8 DEF Timeout, SpuriousWakeup, LeaveWait, ControlType, PCs
<1>. QED BY <1>1, <1>2, <1>3, <1>4, <1>5, <1>6, <1>7, <1>8 DEF Next

-----------------------------------------------------------------------------
(***************************************************************************)
(* The ring through every step of the queue.                               *)
(***************************************************************************)

\* A push stores at most what fits, at least one item.
LEMMA AcceptedPush ==
    ASSUME RingInv, NEW t, NEW c \in PushCalls, PushAccepted(t, c)
    PROVE  RingInv'
<1>. DEFINE k == Smaller(c.n, Capacity - size)
<1>1. c.n \in Nat /\ c.n > 0 /\ size # Capacity /\ Emplace(k)
      BY CallSize DEF PushAccepted, Full
<1>2. size \in 0..Capacity
      BY DEF RingInv, RingType
<1>3. k \in 1 .. Capacity - size
      BY <1>1, <1>2, CapacityAssumption DEF Smaller
<1>. HIDE DEF k
<1>. QED BY <1>1, <1>3, EmplaceRing

\* A pop removes at most what is there, at least one item.
LEMMA AcceptedPop ==
    ASSUME RingInv, NEW t, NEW c \in PopCalls, PopAccepted(t, c)
    PROVE  RingInv'
<1>. DEFINE k == Smaller(c.n, size)
<1>1. c.n \in Nat /\ c.n > 0 /\ size # 0 /\ PopFront(k)
      BY CallSize DEF PopAccepted, Empty
<1>2. size \in 0..Capacity
      BY DEF RingInv, RingType
<1>3. k \in 1 .. size
      BY <1>1, <1>2, CapacityAssumption DEF Smaller
<1>. HIDE DEF k
<1>. QED BY <1>1, <1>3, PopFrontRing

\* A step that leaves the ring and the deliveries alone keeps what is said
\* of them.
LEMMA RingUnchanged ==
    ASSUME RingInv, UNCHANGED <<ringVars, delivered>>
    PROVE  RingInv'
BY DEF RingInv, RingType, RingConsistent, DeliveredInOrder, ringVars, Advance, Offset

\* Every step keeps the ring consistent and the deliveries in order.
LEMMA RingStep ==
    ASSUME RingInv, ControlType, [Next]_vars
    PROVE  RingInv'
<1>1. CASE UNCHANGED vars
      BY <1>1, RingUnchanged DEF vars, ringVars
<1>2. ASSUME NEW t \in Threads, NEW c \in PushCalls, PushSection(t, c)
      PROVE  RingInv'
      BY <1>2, AcceptedPush, RingUnchanged DEF PushSection, PushWait, PushRefused
<1>3. ASSUME NEW t \in Threads, NEW c \in PopCalls, PopSection(t, c)
      PROVE  RingInv'
      BY <1>3, AcceptedPop, RingUnchanged DEF PopSection, PopWait, PopRefused
<1>4. ASSUME NEW t \in Threads, StartPush(t) \/ StartPop(t) \/ Resume(t)
      PROVE  RingInv'
      BY <1>2, <1>3, <1>4, ResumedCall DEF StartPush, StartPop, Resume
<1>5. ASSUME NEW t \in Threads,
             \/ Close(t) \/ NotifyNotEmpty(t) \/ NotifyNotFull(t)
             \/ CloseNotEmpty(t) \/ CloseNotFull(t)
             \/ Timeout(t) \/ SpuriousWakeup(t)
      PROVE  RingInv'
  <2>1. UNCHANGED <<ringVars, delivered>>
        BY <1>5 DEF Close, NotifyNotEmpty, NotifyNotFull, CloseNotEmpty,
                    CloseNotFull, Timeout, SpuriousWakeup, LeaveWait
  <2>. QED BY <2>1, RingUnchanged
<1>. QED BY <1>1, <1>4, <1>5 DEF Next

\* The ring starts consistent and everything has its type.
LEMMA InitialState == Init => RingInv /\ ControlType
<1>. SUFFICES ASSUME Init PROVE RingInv /\ ControlType
     OBVIOUS
<1>1. RingType
      BY CapacityAssumption DEF Init, RingType, Slots, NoItem
<1>2. ControlType
      BY DEF Init, ControlType, AllCalls, PCs
<1>3. DeliveredInOrder
      BY DEF Init, DeliveredInOrder
<1>4. RingConsistent
  <2>1. 0 \in Slots /\ 0 \in 0..Capacity
        BY CapacityAssumption DEF Slots
  <2>2. Advance(0, 0) = 0
        BY <2>1, AdvanceIsSlot, CapacityAssumption
  <2>3. \A i \in Slots : ~(Offset(0, i) < 0)
        BY <2>1, OffsetRange, CapacityAssumption
  <2>. QED BY <2>2, <2>3 DEF Init, RingConsistent, NoItem
<1>. QED BY <1>1, <1>2, <1>3, <1>4 DEF RingInv

\* What every reachable state satisfies.
THEOREM RingInvariant == Spec => [](RingInv /\ ControlType)
<1>1. Init => RingInv /\ ControlType
      BY InitialState
<1>2. RingInv /\ ControlType /\ [Next]_vars => (RingInv /\ ControlType)'
      BY RingStep, ControlStep
<1>. QED BY <1>1, <1>2, PTL DEF Spec

\* Every variable always has its type: the indices of the ring stay within
\* the vector and size_ within the capacity.
THEOREM TypeCorrect == Spec => []TypeOK
<1>1. RingInv /\ ControlType => TypeOK
      BY TypeSplit DEF RingInv
<1>. QED BY <1>1, RingInvariant, PTL

\* Through every wrap-around the ring's indices and slots agree with the
\* items that were accepted and not yet delivered.
THEOREM RingCorrect == Spec => []RingConsistent
<1>1. RingInv /\ ControlType => RingConsistent
      BY DEF RingInv
<1>. QED BY <1>1, RingInvariant, PTL

\* The consumers together receive the items in the order of acceptance.
THEOREM OrderCorrect == Spec => []DeliveredInOrder
<1>1. RingInv /\ ControlType => DeliveredInOrder
      BY DEF RingInv
<1>. QED BY <1>1, RingInvariant, PTL
-----------------------------------------------------------------------------
(***************************************************************************)
(* One notify_one per item is enough: the wait sets and the wakeups, for   *)
(* any finite number of threads and any calls that each store or remove    *)
(* one item.                                                               *)
(***************************************************************************)

(***************************************************************************)
(* The wait sets.                                                          *)
(***************************************************************************)

\* No call is both a push and a pop, and NoCall is neither.
LEMMA OpsDisjoint == /\ PushOps \cap PopOps = {}
                     /\ NoCall.op \notin PushOps \cup PopOps
BY DEF PushOps, PopOps, NoCall

\* A thread that enters a critical section is in no wait set, and if it
\* leaves for good the wait sets stay what they were.
LEMMA LeaveMatch ==
    ASSUME ControlType, WaitSetsMatch, NEW t \in Threads, Entering(t),
           NEW next \in PCs \ {"waiting"}, Leave(t, next),
           UNCHANGED <<notFull, notEmpty>>
    PROVE  WaitSetsMatch'
BY DEF ControlType, WaitSetsMatch, Entering, Leave

\* A push puts its thread in no wait set but that of not_full_.
LEMMA PushMatch ==
    ASSUME ControlType, WaitSetsMatch, NEW t \in Threads, Entering(t),
           NEW c \in PushCalls, PushSection(t, c)
    PROVE  WaitSetsMatch'
<1>1. c.op \in PushOps /\ c.op \notin PopOps
      BY CallSize, OpsDisjoint
<1>2. {"idle", "notifyNotEmpty"} \subseteq PCs \ {"waiting"}
      BY DEF PCs
<1>3. CASE PushWait(t, c)
      BY <1>1, <1>3 DEF PushWait, ControlType, WaitSetsMatch, Entering
<1>4. CASE PushRefused(t, c)
      BY <1>2, <1>4, LeaveMatch DEF PushRefused
<1>5. CASE PushAccepted(t, c)
      BY <1>2, <1>5, LeaveMatch DEF PushAccepted
<1>. QED BY <1>3, <1>4, <1>5 DEF PushSection

\* A pop puts its thread in no wait set but that of not_empty_.
LEMMA PopMatch ==
    ASSUME ControlType, WaitSetsMatch, NEW t \in Threads, Entering(t),
           NEW c \in PopCalls, PopSection(t, c)
    PROVE  WaitSetsMatch'
<1>1. c.op \in PopOps /\ c.op \notin PushOps
      BY CallSize, OpsDisjoint
<1>2. {"idle", "notifyNotFull"} \subseteq PCs \ {"waiting"}
      BY DEF PCs
<1>3. CASE PopWait(t, c)
      BY <1>1, <1>3 DEF PopWait, ControlType, WaitSetsMatch, Entering
<1>4. CASE PopRefused(t, c)
      BY <1>2, <1>4, LeaveMatch DEF PopRefused
<1>5. CASE PopAccepted(t, c)
      BY <1>2, <1>5, LeaveMatch DEF PopAccepted
<1>. QED BY <1>3, <1>4, <1>5 DEF PopSection

\* Every step keeps the wait sets equal to what the threads' places say.
LEMMA WaitSetsStep ==
    ASSUME ControlType, WaitSetsMatch, [Next]_vars
    PROVE  WaitSetsMatch'
<1>. USE DEF WaitSetsMatch
<1>1. CASE UNCHANGED vars
      BY <1>1 DEF vars
<1>2. ASSUME NEW t \in Threads, StartPush(t) \/ StartPop(t) \/ Resume(t)
      PROVE  WaitSetsMatch'
      BY <1>2, PushMatch, PopMatch, ResumedCall
         DEF StartPush, StartPop, Resume, Entering
<1>3. ASSUME NEW t \in Threads, Close(t)
      PROVE  WaitSetsMatch'
      BY <1>3 DEF Close, ControlType
<1>4. ASSUME NEW t \in Threads, NotifyNotEmpty(t)
      PROVE  WaitSetsMatch'
  <2>1. PICK W \in OneOf(notEmpty) : notEmpty' = notEmpty \ W /\ pc' = Awaken(t, W)
        BY <1>4 DEF NotifyNotEmpty
  <2>2. W \subseteq notEmpty
        BY DEF OneOf
  <2>. QED BY <1>4, <2>1, <2>2, OpsDisjoint DEF NotifyNotEmpty, Awaken, ControlType
<1>5. ASSUME NEW t \in Threads, NotifyNotFull(t)
      PROVE  WaitSetsMatch'
  <2>1. PICK W \in OneOf(notFull) : notFull' = notFull \ W /\ pc' = Awaken(t, W)
        BY <1>5 DEF NotifyNotFull
  <2>2. W \subseteq notFull
        BY DEF OneOf
  <2>. QED BY <1>5, <2>1, <2>2, OpsDisjoint DEF NotifyNotFull, Awaken, ControlType
<1>6. ASSUME NEW t \in Threads, CloseNotEmpty(t)
      PROVE  WaitSetsMatch'
      BY <1>6, OpsDisjoint DEF CloseNotEmpty, Awaken, ControlType
<1>7. ASSUME NEW t \in Threads, CloseNotFull(t)
      PROVE  WaitSetsMatch'
      BY <1>7, OpsDisjoint DEF CloseNotFull, Awaken, ControlType
<1>8. ASSUME NEW t \in Threads, Timeout(t) \/ SpuriousWakeup(t)
      PROVE  WaitSetsMatch'
      BY <1>8 DEF Timeout, SpuriousWakeup, LeaveWait, ControlType
<1>. QED BY <1>1, <1>2, <1>3, <1>4, <1>5, <1>6, <1>7, <1>8 DEF Next

-----------------------------------------------------------------------------
(***************************************************************************)
(* Counting signals.                                                       *)
(***************************************************************************)

\* One more signal, one fewer, one for another: how a step that moves a
\* single thread changes the number of signals.
LEMMA Counting ==
    ASSUME IsFiniteSet(Threads), NEW S \in SUBSET Threads
    PROVE  /\ Cardinality(S) \in Nat
           /\ \A x \in Threads \ S : Cardinality(S \cup {x}) = Cardinality(S) + 1
           /\ \A x : Cardinality(S) - 1 <= Cardinality(S \ {x})
           /\ \A R : S \subseteq R /\ R \subseteq Threads =>
                        Cardinality(S) <= Cardinality(R)
<1>1. IsFiniteSet(S) /\ Cardinality(S) \in Nat
      BY FS_Subset, FS_CardinalityType
<1>2. \A x \in Threads \ S : Cardinality(S \cup {x}) = Cardinality(S) + 1
      BY <1>1, FS_AddElement
<1>3. ASSUME NEW x
      PROVE  Cardinality(S) - 1 <= Cardinality(S \ {x})
  <2>1. Cardinality(S \ {x}) = IF x \in S THEN Cardinality(S) - 1 ELSE Cardinality(S)
        BY <1>1, FS_RemoveElement
  <2>. QED BY <1>1, <2>1
<1>4. ASSUME NEW R, S \subseteq R, R \subseteq Threads
      PROVE  Cardinality(S) <= Cardinality(R)
  <2>1. IsFiniteSet(R)
        BY <1>4, FS_Subset
  <2>. QED BY <1>4, <2>1, FS_Subset
<1>. QED BY <1>1, <1>2, <1>3, <1>4

SingleItemCalls == \A c \in PushCalls \cup PopCalls : c.n = 1

\* The threads' signals are sets of threads.
LEMMA SignalSets == /\ ItemSignals \in SUBSET Threads
                    /\ SlotSignals \in SUBSET Threads
BY DEF ItemSignals, SlotSignals

\* A thread enters a critical section to make its call: it starts it, or it
\* made it before its wait.
Making(t, c) == \/ pc[t] = "idle"
                \/ pc[t] \in {"woken", "expired"} /\ call[t] = c

\* The producer that stores an item gives up the slot it was woken for and
\* owes a notification for the item.
LEMMA PushSignals ==
    ASSUME IsFiniteSet(Threads), SingleItemCalls, RingType, ControlType, NoLostWakeup,
           NEW t \in Threads, NEW c \in PushCalls, Making(t, c), PushSection(t, c)
    PROVE  NoLostWakeup'
<1>1. /\ c.op \in PushOps /\ c.op \notin PopOps /\ c.n = 1
      /\ NoCall.op \notin PushOps /\ NoCall.op \notin PopOps
      BY CallSize, OpsDisjoint DEF SingleItemCalls
<1>2. /\ Capacity \in Nat /\ size \in 0..Capacity
      BY CapacityAssumption DEF RingType
<1>3. /\ Cardinality(SlotSignals) \in Nat /\ Cardinality(SlotSignals') \in Nat
      /\ Cardinality(SlotSignals) - 1 <= Cardinality(SlotSignals \ {t})
  <2>1. SlotSignals \in SUBSET Threads /\ SlotSignals' \in SUBSET Threads
        BY DEF SlotSignals
  <2>. QED BY <2>1, Counting
<1>4. Cardinality(ItemSignals) \in Nat
      BY SignalSets, Counting
<1>5. t \notin ItemSignals
      BY <1>1 DEF Making, ItemSignals
<1>6. CASE PushWait(t, c)
  <2>1. ItemSignals' = ItemSignals
        BY <1>1, <1>5, <1>6 DEF PushWait, ItemSignals, ControlType, Making
  <2>2. Capacity - size' = 0 /\ size' = size /\ closed' = closed /\ notEmpty' = notEmpty
        BY <1>1, <1>2, <1>6 DEF PushWait, PushReady, Full, ringVars
  <2>. QED BY <1>3, <2>1, <2>2 DEF NoLostWakeup
<1>7. CASE PushRefused(t, c)
  <2>1. ItemSignals' = ItemSignals
        BY <1>1, <1>5, <1>7 DEF PushRefused, Leave, ItemSignals, ControlType, Making
  <2>2. /\ closed' = closed /\ size' = size /\ notEmpty' = notEmpty
        /\ closed \/ Capacity - size' = 0
        BY <1>1, <1>2, <1>7 DEF PushRefused, Full, ringVars
  <2>. QED BY <1>3, <2>1, <2>2 DEF NoLostWakeup
<1>8. CASE PushAccepted(t, c)
  <2>1. ItemSignals' = ItemSignals \cup {t}
        BY <1>1, <1>8 DEF PushAccepted, Leave, ItemSignals, ControlType
  <2>2. SlotSignals' = SlotSignals \ {t}
        BY <1>1, <1>8 DEF PushAccepted, Leave, SlotSignals, ControlType
  <2>3. /\ size' = size + 1 /\ closed' = closed
        /\ notEmpty' = notEmpty /\ notFull' = notFull
        BY <1>1, <1>2, <1>8 DEF PushAccepted, Emplace, Smaller, Full
  <2>4. Cardinality(ItemSignals') = Cardinality(ItemSignals) + 1
        BY <1>5, <2>1, SignalSets, Counting
  <2>5. Cardinality(SlotSignals) - 1 <= Cardinality(SlotSignals')
        BY <1>3, <2>2
  <2>. QED BY <1>2, <1>3, <1>4, <2>3, <2>4, <2>5 DEF NoLostWakeup
<1>. QED BY <1>6, <1>7, <1>8 DEF PushSection

\* The consumer that takes an item gives up the item it was woken for and
\* owes a notification for the slot.
LEMMA PopSignals ==
    ASSUME IsFiniteSet(Threads), SingleItemCalls, RingType, ControlType, NoLostWakeup,
           NEW t \in Threads, NEW c \in PopCalls, Making(t, c), PopSection(t, c)
    PROVE  NoLostWakeup'
<1>1. /\ c.op \in PopOps /\ c.op \notin PushOps /\ c.n = 1
      /\ NoCall.op \notin PushOps /\ NoCall.op \notin PopOps
      BY CallSize, OpsDisjoint DEF SingleItemCalls
<1>2. /\ Capacity \in Nat /\ size \in 0..Capacity
      BY CapacityAssumption DEF RingType
<1>3. /\ Cardinality(ItemSignals) \in Nat /\ Cardinality(ItemSignals') \in Nat
      /\ Cardinality(ItemSignals) - 1 <= Cardinality(ItemSignals \ {t})
  <2>1. ItemSignals \in SUBSET Threads /\ ItemSignals' \in SUBSET Threads
        BY DEF ItemSignals
  <2>. QED BY <2>1, Counting
<1>4. Cardinality(SlotSignals) \in Nat
      BY SignalSets, Counting
<1>5. t \notin SlotSignals
      BY <1>1 DEF Making, SlotSignals
<1>6. CASE PopWait(t, c)
  <2>1. SlotSignals' = SlotSignals
        BY <1>1, <1>5, <1>6 DEF PopWait, SlotSignals, ControlType, Making
  <2>2. size' = 0 /\ size' = size /\ closed' = closed /\ notFull' = notFull
        BY <1>1, <1>2, <1>6 DEF PopWait, PopReady, Empty, ringVars
  <2>. QED BY <1>3, <2>1, <2>2 DEF NoLostWakeup
<1>7. CASE PopRefused(t, c)
  <2>1. SlotSignals' = SlotSignals
        BY <1>1, <1>5, <1>7 DEF PopRefused, Leave, SlotSignals, ControlType, Making
  <2>2. closed' = closed /\ size' = size /\ notFull' = notFull /\ size' = 0
        BY <1>1, <1>2, <1>7 DEF PopRefused, Empty, ringVars
  <2>. QED BY <1>3, <2>1, <2>2 DEF NoLostWakeup
<1>8. CASE PopAccepted(t, c)
  <2>1. SlotSignals' = SlotSignals \cup {t}
        BY <1>1, <1>8 DEF PopAccepted, Leave, SlotSignals, ControlType
  <2>2. ItemSignals' = ItemSignals \ {t}
        BY <1>1, <1>8 DEF PopAccepted, Leave, ItemSignals, ControlType
  <2>3. /\ size' = size - 1 /\ closed' = closed
        /\ notEmpty' = notEmpty /\ notFull' = notFull
        BY <1>1, <1>2, <1>8 DEF PopAccepted, PopFront, Smaller, Empty
  <2>4. Cardinality(SlotSignals') = Cardinality(SlotSignals) + 1
        BY <1>5, <2>1, SignalSets, Counting
  <2>5. Cardinality(ItemSignals) - 1 <= Cardinality(ItemSignals')
        BY <1>3, <2>2
  <2>. QED BY <1>2, <1>3, <1>4, <2>3, <2>4, <2>5 DEF NoLostWakeup
<1>. QED BY <1>6, <1>7, <1>8 DEF PopSection

\* More signals for no more sleepers: the wakeups of close, a timeout and a
\* spurious wakeup.
LEMMA MoreSignals ==
    ASSUME IsFiniteSet(Threads), RingType, NoLostWakeup, UNCHANGED <<size, closed>>,
           notEmpty' \subseteq notEmpty, notFull' \subseteq notFull,
           notEmpty' # {} => ItemSignals \subseteq ItemSignals',
           notFull' # {} => SlotSignals \subseteq SlotSignals'
    PROVE  NoLostWakeup'
<1>1. /\ Capacity \in Nat /\ size \in 0..Capacity
      BY CapacityAssumption DEF RingType
<1>2. /\ ItemSignals \in SUBSET Threads /\ ItemSignals' \in SUBSET Threads
      /\ SlotSignals \in SUBSET Threads /\ SlotSignals' \in SUBSET Threads
      BY DEF ItemSignals, SlotSignals
<1>3. /\ Cardinality(ItemSignals) \in Nat /\ Cardinality(ItemSignals') \in Nat
      /\ Cardinality(SlotSignals) \in Nat /\ Cardinality(SlotSignals') \in Nat
      BY <1>2, Counting
<1>4. ASSUME notEmpty' # {} PROVE Cardinality(ItemSignals) <= Cardinality(ItemSignals')
      BY <1>2, <1>4, Counting
<1>5. ASSUME notFull' # {} PROVE Cardinality(SlotSignals) <= Cardinality(SlotSignals')
      BY <1>2, <1>5, Counting
<1>. QED BY <1>1, <1>3, <1>4, <1>5 DEF NoLostWakeup

\* A notify_one hands the notifying thread's signal to the thread it wakes,
\* or finds nobody asleep.
LEMMA NotifyEmptySignals ==
    ASSUME IsFiniteSet(Threads), RingType, ControlType, WaitSetsMatch, NoLostWakeup,
           NEW t \in Threads, NotifyNotEmpty(t)
    PROVE  NoLostWakeup'
<1>1. PICK W \in OneOf(notEmpty) : notEmpty' = notEmpty \ W /\ pc' = Awaken(t, W)
      BY DEF NotifyNotEmpty
<1>2. UNCHANGED <<size, closed, call, notFull>>
      BY DEF NotifyNotEmpty, ringVars
<1>3. SlotSignals' = SlotSignals
  <2>1. \A u \in W : pc[u] = "waiting" /\ call[u].op \in PopOps /\ u \in Threads
        BY <1>1 DEF OneOf, WaitSetsMatch
  <2>. QED BY <1>1, <1>2, <2>1, OpsDisjoint
           DEF NotifyNotEmpty, Awaken, SlotSignals, ControlType
<1>4. CASE notEmpty = {}
      BY <1>1, <1>2, <1>3, <1>4, MoreSignals
<1>5. CASE notEmpty # {}
  <2>1. PICK u \in notEmpty : W = {u}
        BY <1>1, <1>5 DEF OneOf
  <2>2. /\ u \in Threads /\ pc[u] = "waiting" /\ call[u].op \in PopOps
        /\ u # t /\ u \notin ItemSignals /\ t \in ItemSignals
        BY <2>1 DEF WaitSetsMatch, ItemSignals, NotifyNotEmpty
  <2>3. ItemSignals' = (ItemSignals \ {t}) \cup {u}
        BY <1>1, <1>2, <2>1, <2>2 DEF Awaken, ItemSignals, ControlType
  <2>4. /\ Cardinality(ItemSignals) \in Nat /\ Cardinality(ItemSignals \ {t}) \in Nat
        /\ Cardinality(ItemSignals) - 1 <= Cardinality(ItemSignals \ {t})
        /\ Cardinality(ItemSignals') = Cardinality(ItemSignals \ {t}) + 1
    <3>1. ItemSignals \ {t} \in SUBSET Threads /\ ItemSignals \in SUBSET Threads
          BY SignalSets
    <3>2. u \in Threads \ (ItemSignals \ {t})
          BY <2>2
    <3>. QED BY <2>3, <3>1, <3>2, Counting
  <2>5. size \in Nat /\ Capacity \in Nat
        BY CapacityAssumption DEF RingType
  <2>. QED BY <1>1, <1>2, <1>3, <1>5, <2>4, <2>5 DEF NoLostWakeup
<1>. QED BY <1>4, <1>5

\* The same for the slots.
LEMMA NotifyFullSignals ==
    ASSUME IsFiniteSet(Threads), RingType, ControlType, WaitSetsMatch, NoLostWakeup,
           NEW t \in Threads, NotifyNotFull(t)
    PROVE  NoLostWakeup'
<1>1. PICK W \in OneOf(notFull) : notFull' = notFull \ W /\ pc' = Awaken(t, W)
      BY DEF NotifyNotFull
<1>2. UNCHANGED <<size, closed, call, notEmpty>>
      BY DEF NotifyNotFull, ringVars
<1>3. ItemSignals' = ItemSignals
  <2>1. \A u \in W : pc[u] = "waiting" /\ call[u].op \in PushOps /\ u \in Threads
        BY <1>1 DEF OneOf, WaitSetsMatch
  <2>. QED BY <1>1, <1>2, <2>1, OpsDisjoint
           DEF NotifyNotFull, Awaken, ItemSignals, ControlType
<1>4. CASE notFull = {}
      BY <1>1, <1>2, <1>3, <1>4, MoreSignals
<1>5. CASE notFull # {}
  <2>1. PICK u \in notFull : W = {u}
        BY <1>1, <1>5 DEF OneOf
  <2>2. /\ u \in Threads /\ pc[u] = "waiting" /\ call[u].op \in PushOps
        /\ u # t /\ u \notin SlotSignals /\ t \in SlotSignals
        BY <2>1 DEF WaitSetsMatch, SlotSignals, NotifyNotFull
  <2>3. SlotSignals' = (SlotSignals \ {t}) \cup {u}
        BY <1>1, <1>2, <2>1, <2>2 DEF Awaken, SlotSignals, ControlType
  <2>4. /\ Cardinality(SlotSignals) \in Nat /\ Cardinality(SlotSignals \ {t}) \in Nat
        /\ Cardinality(SlotSignals) - 1 <= Cardinality(SlotSignals \ {t})
        /\ Cardinality(SlotSignals') = Cardinality(SlotSignals \ {t}) + 1
    <3>1. SlotSignals \ {t} \in SUBSET Threads /\ SlotSignals \in SUBSET Threads
          BY SignalSets
    <3>2. u \in Threads \ (SlotSignals \ {t})
          BY <2>2
    <3>. QED BY <2>3, <3>1, <3>2, Counting
  <2>5. size \in Nat /\ Capacity \in Nat
        BY CapacityAssumption DEF RingType
  <2>. QED BY <1>1, <1>2, <1>3, <1>5, <2>4, <2>5 DEF NoLostWakeup
<1>. QED BY <1>4, <1>5

\* Every step keeps a signal for every item and slot somebody sleeps for.
LEMMA SignalStep ==
    ASSUME IsFiniteSet(Threads), SingleItemCalls,
           RingType, ControlType, WaitSetsMatch, NoLostWakeup, [Next]_vars
    PROVE  NoLostWakeup'
<1>1. CASE UNCHANGED vars
      BY <1>1, MoreSignals DEF vars, ringVars, ItemSignals, SlotSignals
<1>2. ASSUME NEW t \in Threads, StartPush(t)
      PROVE  NoLostWakeup'
      BY <1>2, PushSignals DEF StartPush, Making
<1>3. ASSUME NEW t \in Threads, StartPop(t)
      PROVE  NoLostWakeup'
      BY <1>3, PopSignals DEF StartPop, Making
<1>4. ASSUME NEW t \in Threads, Resume(t)
      PROVE  NoLostWakeup'
      BY <1>4, PushSignals, PopSignals, ResumedCall DEF Resume, Making
<1>5. ASSUME NEW t \in Threads, Close(t)
      PROVE  NoLostWakeup'
      BY <1>5 DEF Close, NoLostWakeup
<1>6. ASSUME NEW t \in Threads, NotifyNotEmpty(t)
      PROVE  NoLostWakeup'
      BY <1>6, NotifyEmptySignals
<1>7. ASSUME NEW t \in Threads, NotifyNotFull(t)
      PROVE  NoLostWakeup'
      BY <1>7, NotifyFullSignals
<1>8. ASSUME NEW t \in Threads, CloseNotEmpty(t)
      PROVE  NoLostWakeup'
  <2>1. /\ UNCHANGED <<size, closed, call, notFull>> /\ notEmpty' = {}
        /\ pc[t] = "closeNotEmpty" /\ pc' = [Awaken(t, notEmpty) EXCEPT ![t] = "closeNotFull"]
        BY <1>8 DEF CloseNotEmpty, ringVars
  <2>2. SlotSignals \subseteq SlotSignals'
        BY <2>1 DEF Awaken, SlotSignals, ControlType, WaitSetsMatch
  <2>. QED BY <2>1, <2>2, MoreSignals
<1>9. ASSUME NEW t \in Threads, CloseNotFull(t)
      PROVE  NoLostWakeup'
  <2>1. /\ UNCHANGED <<size, closed, call, notEmpty>> /\ notFull' = {}
        /\ pc[t] = "closeNotFull" /\ pc' = Awaken(t, notFull)
        BY <1>9 DEF CloseNotFull, ringVars
  <2>2. ItemSignals \subseteq ItemSignals'
        BY <2>1 DEF Awaken, ItemSignals, ControlType, WaitSetsMatch
  <2>. QED BY <2>1, <2>2, MoreSignals
<1>10. ASSUME NEW t \in Threads, Timeout(t) \/ SpuriousWakeup(t)
       PROVE  NoLostWakeup'
  <2>1. /\ UNCHANGED <<size, closed, call>>
        /\ notEmpty' \subseteq notEmpty /\ notFull' \subseteq notFull
        /\ pc[t] = "waiting"
        /\ \A u \in Threads : pc'[u] = IF u = t THEN pc'[t] ELSE pc[u]
        BY <1>10 DEF Timeout, SpuriousWakeup, LeaveWait, ringVars, ControlType
  <2>2. ItemSignals \subseteq ItemSignals' /\ SlotSignals \subseteq SlotSignals'
        BY <2>1 DEF ItemSignals, SlotSignals
  <2>. QED BY <2>1, <2>2, MoreSignals
<1>. QED BY <1>1, <1>2, <1>3, <1>4, <1>5, <1>6, <1>7, <1>8, <1>9, <1>10 DEF Next

\* The wait sets always match where the threads are in their calls.
THEOREM WaitSetsCorrect == Spec => []WaitSetsMatch
<1>1. Init => WaitSetsMatch
      BY DEF Init, WaitSetsMatch
<1>2. RingInv /\ ControlType /\ WaitSetsMatch /\ [Next]_vars => WaitSetsMatch'
      BY WaitSetsStep
<1>. QED BY <1>1, <1>2, RingInvariant, PTL DEF Spec

\* When every call stores or removes one item, the one notify_one that ends
\* it is enough: each item in the queue has a thread that will take it or
\* wake a consumer sleeping on not_empty_, and each free slot one that will
\* use it or wake a producer sleeping on not_full_.
THEOREM NoWakeupIsLost ==
    ASSUME IsFiniteSet(Threads), SingleItemCalls
    PROVE  Spec => []NoLostWakeup
<1>1. Init => NoLostWakeup
      BY DEF Init, NoLostWakeup
<1>2. /\ RingInv /\ ControlType /\ WaitSetsMatch
      /\ NoLostWakeup /\ [Next]_vars
      => NoLostWakeup'
      BY SignalStep DEF RingInv
<1>. QED BY <1>1, <1>2, RingInvariant, WaitSetsCorrect, PTL DEF Spec

-----------------------------------------------------------------------------
(***************************************************************************)
(* The queue implements BoundedFifo: the abstract items are the live slots *)
(* of the ring, oldest first.                                              *)
(***************************************************************************)

\* k consecutive numbers, the first of them d + 1.
Run(d, k) == [i \in 1..k |-> d + i]

\* A run of numbers is a sequence of numbers.
LEMMA RunIsSeq ==
    ASSUME NEW d \in Nat, NEW k \in Nat
    PROVE  Run(d, k) \in Seq(Nat) /\ Len(Run(d, k)) = k
<1>1. Run(d, k) \in [1..k -> Nat]
      BY DEF Run
<1>. QED BY <1>1 DEF Run

\* Two runs, the second going on where the first ends, are one.
LEMMA RunConcat ==
    ASSUME NEW d \in Nat, NEW a \in Nat, NEW b \in Nat
    PROVE  Run(d, a) \o Run(d + a, b) = Run(d, a + b)
<1>. DEFINE s == Run(d, a)  t == Run(d + a, b)  u == Run(d, a + b)
<1>1. s \in Seq(Nat) /\ Len(s) = a /\ \A i \in 1..a : s[i] = d + i
      BY RunIsSeq DEF Run
<1>2. t \in Seq(Nat) /\ Len(t) = b /\ \A i \in 1..b : t[i] = d + a + i
  <2>1. d + a \in Nat
        OBVIOUS
  <2>. QED BY <2>1, RunIsSeq DEF Run
<1>3. u \in Seq(Nat) /\ Len(u) = a + b /\ \A i \in 1 .. a + b : u[i] = d + i
  <2>1. a + b \in Nat
        OBVIOUS
  <2>. QED BY <2>1, RunIsSeq DEF Run
<1>. HIDE DEF s, t, u
<1>4. /\ s \o t \in Seq(Nat) /\ Len(s \o t) = a + b
      /\ \A i \in 1..a : (s \o t)[i] = s[i]
      /\ \A i \in 1..b : (s \o t)[a + i] = t[i]
      BY <1>1, <1>2, ConcatNat
<1>5. ASSUME NEW i \in 1 .. a + b
      PROVE  (s \o t)[i] = u[i]
  <2>1. CASE i \in 1..a
        BY <1>1, <1>3, <1>4, <2>1
  <2>2. CASE i \notin 1..a
    <3>1. i - a \in 1..b /\ a + (i - a) = i
          BY <2>2
    <3>2. (s \o t)[a + (i - a)] = t[i - a]
          BY <1>4, <3>1
    <3>3. t[i - a] = d + a + (i - a)
          BY <1>2, <3>1
    <3>4. d + a + (i - a) = d + i
          OBVIOUS
    <3>. QED BY <1>3, <3>1, <3>2, <3>3, <3>4
  <2>. QED BY <2>1, <2>2
<1>6. s \o t = u
      BY <1>3, <1>4, <1>5, SeqEqual
<1>. QED BY <1>6 DEF s, t, u

\* The first k numbers of a run, and what is left without them.
LEMMA RunSplit ==
    ASSUME NEW d \in Nat, NEW a \in Nat, NEW k \in 0..a
    PROVE  /\ SubSeq(Run(d, a), 1, k) = Run(d, k)
           /\ SubSeq(Run(d, a), k + 1, a) = Run(d + k, a - k)
<1>1. Run(d, a) \in Seq(Nat) /\ Len(Run(d, a)) = a
      BY RunIsSeq
<1>2. /\ Run(d, k) \in Seq(Nat) /\ Len(Run(d, k)) = k
      /\ Run(d + k, a - k) \in Seq(Nat) /\ Len(Run(d + k, a - k)) = a - k
  <2>1. d + k \in Nat /\ a - k \in Nat /\ k \in Nat
        OBVIOUS
  <2>. QED BY <2>1, RunIsSeq
<1>3. SubSeq(Run(d, a), 1, k) = Run(d, k)
      BY <1>1, <1>2 DEF Run
<1>4. SubSeq(Run(d, a), k + 1, a) = Run(d + k, a - k)
      BY <1>1, <1>2 DEF Run
<1>. QED BY <1>3, <1>4

-----------------------------------------------------------------------------
\* The live slots hold the numbers that follow those of the delivered items.
LEMMA ContentsAreRun ==
    ASSUME RingInv
    PROVE  Contents = Run(Len(delivered), size)
<1>1. /\ Capacity \in Nat \ {0} /\ size \in 0..Capacity /\ head \in Slots
      /\ Len(delivered) \in Nat
      BY CapacityAssumption DEF RingInv, RingType
<1>2. ASSUME NEW i \in 1..size
      PROVE  buffer[Advance(head, i - 1)] = Len(delivered) + i
  <2>1. i - 1 \in 0..Capacity /\ i - 1 < size
        BY <1>1
  <2>2. /\ Advance(head, i - 1) \in Slots
        /\ Advance(head, i - 1) = IF head + (i - 1) < Capacity THEN head + (i - 1)
                                  ELSE head + (i - 1) - Capacity
        BY <1>1, <2>1, AdvanceIsSlot
  <2>3. Offset(head, Advance(head, i - 1)) = i - 1
        BY <1>1, <2>1, <2>2 DEF Offset, Slots
  <2>4. buffer[Advance(head, i - 1)] = Len(delivered) + 1 + (i - 1)
        BY <2>1, <2>2, <2>3 DEF RingInv, RingConsistent
  <2>. QED BY <1>1, <2>4
<1>. QED BY <1>2 DEF Contents, Run

\* The same of the state after a step.
LEMMA ContentsNext == (RingInv => Contents = Run(Len(delivered), size))'
<1>1. RingInv => Contents = Run(Len(delivered), size)
      BY ContentsAreRun
<1>. QED BY <1>1, PTL

\* A push that is accepted is an abstract Put.
LEMMA EmplaceIsPut ==
    ASSUME RingInv, ~closed, closed' = closed,
           NEW k \in 1 .. Capacity - size, Emplace(k)
    PROVE  Fifo!Put(k)
<1>1. RingInv'
      BY EmplaceRing
<1>2. /\ size \in Nat /\ Capacity \in Nat /\ k \in Nat /\ size + k <= Capacity
      /\ Len(delivered) \in Nat
      BY CapacityAssumption DEF RingInv, RingType
<1>3. delivered' = delivered /\ size' = size + k
      BY DEF Emplace
<1>4. Contents = Run(Len(delivered), size) /\ Len(Contents) = size
      BY <1>2, ContentsAreRun, RunIsSeq
<1>5. Contents' = Run(Len(delivered), size + k)
      BY <1>1, <1>3, ContentsNext
<1>6. Contents' = Contents \o Run(Len(delivered) + size, k)
      BY <1>2, <1>4, <1>5, RunConcat
<1>. QED BY <1>2, <1>3, <1>4, <1>6 DEF Fifo!Put, Fifo!Accepted, Run

\* A pop that delivers is an abstract Take.
LEMMA PopFrontIsTake ==
    ASSUME RingInv, closed' = closed, NEW k \in 1 .. size, PopFront(k)
    PROVE  Fifo!Take(k)
<1>1. RingInv'
      BY PopFrontRing
<1>2. /\ size \in Nat /\ k \in Nat /\ k <= size /\ k \in 0..size
      /\ Len(delivered) \in Nat /\ delivered \in Seq(Nat)
      BY CapacityAssumption DEF RingInv, RingType
<1>3. size' = size - k
      BY DEF PopFront
<1>4. Contents = Run(Len(delivered), size) /\ Len(Contents) = size
      BY <1>2, ContentsAreRun, RunIsSeq
<1>. DEFINE out == Run(Len(delivered), k)
<1>5. delivered' = delivered \o out
  <2>1. delivered' = delivered \o [i \in 1..k |-> buffer[Advance(head, i - 1)]]
        BY DEF PopFront
  <2>2. \A i \in 1..size : buffer[Advance(head, i - 1)] = Len(delivered) + i
        BY <1>4 DEF Contents, Run
  <2>3. [i \in 1..k |-> buffer[Advance(head, i - 1)]] = out
        BY <1>2, <2>2 DEF Run
  <2>. QED BY <2>1, <2>3
<1>6. Len(delivered') = Len(delivered) + k
  <2>1. out \in Seq(Nat) /\ Len(out) = k
        BY <1>2, RunIsSeq
  <2>. HIDE DEF out
  <2>. QED BY <1>2, <1>5, <2>1, ConcatNat
<1>7. Contents' = Run(Len(delivered) + k, size - k)
      BY <1>1, <1>3, <1>6, ContentsNext
<1>8. /\ SubSeq(Contents, 1, k) = out
      /\ SubSeq(Contents, k + 1, Len(Contents)) = Run(Len(delivered) + k, size - k)
  <2>1. /\ SubSeq(Run(Len(delivered), size), 1, k) = out
        /\ SubSeq(Run(Len(delivered), size), k + 1, size)
             = Run(Len(delivered) + k, size - k)
        BY <1>2, RunSplit
  <2>. QED BY <1>4, <2>1
<1>. QED BY <1>2, <1>4, <1>5, <1>7, <1>8 DEF Fifo!Take

\* A step that leaves the ring, the deliveries and closed_ alone is a stutter.
LEMMA Stutter ==
    ASSUME UNCHANGED <<ringVars, delivered, closed>>
    PROVE  UNCHANGED Fifo!fifoVars
<1>1. Contents' = Contents
      BY DEF Contents, ringVars, Advance
<1>. QED BY <1>1 DEF Fifo!fifoVars

\* Whatever a critical section does is a step of the FIFO or a stutter.
LEMMA SectionRefines ==
    ASSUME RingInv, ControlType, NEW t \in Threads,
           \/ \E c \in PushCalls : PushSection(t, c)
           \/ \E c \in PopCalls : PopSection(t, c)
    PROVE  [Fifo!FifoNext]_Fifo!fifoVars
<1>1. size \in 0..Capacity /\ Capacity \in Nat
      BY CapacityAssumption DEF RingInv, RingType
<1>2. ASSUME NEW c \in PushCalls, PushAccepted(t, c)
      PROVE  Fifo!FifoNext
  <2>. DEFINE k == Smaller(c.n, Capacity - size)
  <2>1. k \in 1 .. Capacity - size /\ k \in 1..Capacity
        BY <1>1, <1>2, CallSize DEF PushAccepted, Full, Smaller
  <2>2. Emplace(k) /\ ~closed /\ closed' = closed
        BY <1>2 DEF PushAccepted
  <2>. HIDE DEF k
  <2>3. Fifo!Put(k)
        BY <2>1, <2>2, EmplaceIsPut
  <2>. QED BY <2>1, <2>3 DEF Fifo!FifoNext
<1>3. ASSUME NEW c \in PopCalls, PopAccepted(t, c)
      PROVE  Fifo!FifoNext
  <2>. DEFINE k == Smaller(c.n, size)
  <2>1. k \in 1 .. size /\ k \in 1..Capacity
        BY <1>1, <1>3, CallSize DEF PopAccepted, Empty, Smaller
  <2>2. PopFront(k) /\ closed' = closed
        BY <1>3 DEF PopAccepted
  <2>. HIDE DEF k
  <2>3. Fifo!Take(k)
        BY <2>1, <2>2, PopFrontIsTake
  <2>. QED BY <2>1, <2>3 DEF Fifo!FifoNext
<1>4. ASSUME NEW c, \/ PushWait(t, c) \/ PushRefused(t, c)
                   \/ PopWait(t, c) \/ PopRefused(t, c)
      PROVE  UNCHANGED Fifo!fifoVars
      BY <1>4, Stutter DEF PushWait, PushRefused, PopWait, PopRefused
<1>. QED BY <1>2, <1>3, <1>4 DEF PushSection, PopSection

\* Every step of the queue is a step of the FIFO or a stutter.
LEMMA StepRefines ==
    ASSUME RingInv, ControlType, [Next]_vars
    PROVE  [Fifo!FifoNext]_Fifo!fifoVars
<1>1. CASE UNCHANGED vars
      BY <1>1, Stutter DEF vars, ringVars
<1>2. ASSUME NEW t \in Threads, StartPush(t) \/ StartPop(t) \/ Resume(t)
      PROVE  [Fifo!FifoNext]_Fifo!fifoVars
      BY <1>2, SectionRefines, ResumedCall DEF StartPush, StartPop, Resume
<1>3. ASSUME NEW t \in Threads, Close(t)
      PROVE  Fifo!FifoNext
  <2>1. Contents' = Contents
        BY <1>3 DEF Close, Contents, ringVars, Advance
  <2>. QED BY <1>3, <2>1 DEF Close, Fifo!FifoNext, Fifo!Close
<1>4. ASSUME NEW t \in Threads,
             \/ NotifyNotEmpty(t) \/ NotifyNotFull(t)
             \/ CloseNotEmpty(t) \/ CloseNotFull(t)
             \/ Timeout(t) \/ SpuriousWakeup(t)
      PROVE  UNCHANGED Fifo!fifoVars
  <2>1. UNCHANGED <<ringVars, delivered, closed>>
        BY <1>4 DEF NotifyNotEmpty, NotifyNotFull, CloseNotEmpty, CloseNotFull,
                    Timeout, SpuriousWakeup, LeaveWait
  <2>. QED BY <2>1, Stutter
<1>. QED BY <1>1, <1>2, <1>3, <1>4 DEF Next

\* The queue implements the bounded FIFO: what callers see is a sequence of
\* accepted items of at most Capacity, delivered oldest first and each once,
\* and nothing accepted after close().
THEOREM QueueImplementsFifo == Spec => ImplementsFifo
<1>1. Init => Fifo!FifoInit
  <2>1. ASSUME Init PROVE Contents = << >>
        BY <2>1 DEF Init, Contents
  <2>. QED BY <2>1 DEF Init, Fifo!FifoInit
<1>2. RingInv /\ ControlType /\ [Next]_vars => [Fifo!FifoNext]_Fifo!fifoVars
      BY StepRefines
<1>. QED BY <1>1, <1>2, RingInvariant, PTL DEF Spec, ImplementsFifo, Fifo!FifoSpec
=============================================================================

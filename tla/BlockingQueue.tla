--------------------------- MODULE BlockingQueue ---------------------------
(***************************************************************************)
(* BlockingQueue<T> and its RingBuffer<T>, from                            *)
(* src/code/BlockingQueue/include/blocking_queue.hpp.                      *)
(*                                                                         *)
(* Every critical section of the class holds mutex_ from its first read to *)
(* its last write and notifies nobody meanwhile, so it is one action here. *)
(* What the mutex does not make atomic is kept apart: a thread that finds  *)
(* its predicate false joins the wait set of a condition variable, the     *)
(* notification is sent after the unlock by a step of its own, and a       *)
(* notified, timed out or spuriously woken thread evaluates the predicate  *)
(* again whenever it gets the mutex back.                                  *)
(*                                                                         *)
(* An item is its place in the order of acceptance (the k-th item stored   *)
(* is the number k), which is all that order, loss and duplication can     *)
(* tell apart.                                                             *)
(***************************************************************************)
EXTENDS Integers, Sequences, FiniteSets

CONSTANTS
    Capacity,      \* the constructor's argument
    Producers,     \* threads that call push, try_push, push_for, push_batch
    Consumers,     \* threads that call pop, try_pop, pop_for, pop_batch
    Closers,       \* threads that call close
    PushCalls,     \* the calls producers make: records [op, n]
    PopCalls,      \* the calls consumers make: records [op, n]
    MaxItems       \* bound: no push starts once MaxItems items were accepted

PushOps == {"push", "try_push", "push_for", "push_batch"}
PopOps  == {"pop", "try_pop", "pop_for", "pop_batch"}

\* n is the number of items the call offers or asks for: the size of the
\* span of a batch call (which may be empty), one for every other call.
CallsOf(ops) == {c \in [op : ops, n : Nat] :
                    c.op \notin {"push_batch", "pop_batch"} => c.n = 1}

ASSUME CapacityAssumption == Capacity \in Nat \ {0}
ASSUME CallsAssumption == /\ PushCalls \subseteq CallsOf(PushOps)
                          /\ PopCalls \subseteq CallsOf(PopOps)
                          /\ MaxItems \in Nat
ASSUME RolesAssumption == Producers \cap Consumers = {}

Threads == Producers \cup Consumers \cup Closers

VARIABLES
    buffer,        \* RingBuffer::buffer_, NoItem where the optional is reset
    head,          \* RingBuffer::head_
    tail,          \* RingBuffer::tail_
    size,          \* RingBuffer::size_
    closed,        \* BlockingQueue::closed_
    notFull,       \* threads waiting on not_full_
    notEmpty,      \* threads waiting on not_empty_
    pc,            \* where each thread is in its call
    call,          \* the call each thread is making
    delivered      \* history: every item handed to a consumer, in order

ringVars == <<buffer, head, tail, size>>
vars == <<buffer, head, tail, size, closed, notFull, notEmpty, pc, call, delivered>>

NoItem == 0
NoCall == [op |-> "none", n |-> 0]
Slots  == 0 .. Capacity - 1

\* idle       between two calls
\* waiting    in the wait set of a condition variable
\* woken      out of the wait set, not yet back in the mutex
\* expired    as woken, and the deadline of the timed wait has passed
\* notifyNotEmpty, notifyNotFull
\*            after the unlock of a push or a pop, before its notify_one
\* closeNotEmpty, closeNotFull
\*            in close, before the notify_all of that condition variable
PCs == {"idle", "waiting", "woken", "expired",
        "notifyNotEmpty", "notifyNotFull", "closeNotEmpty", "closeNotFull"}

Init == /\ buffer = [i \in Slots |-> NoItem]
        /\ head = 0 /\ tail = 0 /\ size = 0
        /\ closed = FALSE
        /\ notFull = {} /\ notEmpty = {}
        /\ pc = [t \in Threads |-> "idle"]
        /\ call = [t \in Threads |-> NoCall]
        /\ delivered = << >>

-----------------------------------------------------------------------------
(***************************************************************************)
(* RingBuffer.                                                             *)
(***************************************************************************)
Full  == size = Capacity
Empty == size = 0

Smaller(a, b) == IF a <= b THEN a ELSE b

\* Defect: next_index without the modulus.
AdvanceUnwrapped(i, k) == i + k

\* next_index, applied k times.
Advance(i, k) == (i + k) % Capacity

\* How many times next_index takes from to i.
Offset(from, i) == IF i >= from THEN i - from ELSE i - from + Capacity

\* Items accepted so far: the number of the newest one.
Stored == Len(delivered) + size

\* k emplaces at the tail: emplace (k = 1) and push_batch.
Emplace(k) ==
    /\ buffer' = [i \in Slots |-> IF Offset(tail, i) < k
                                    THEN Stored + 1 + Offset(tail, i)
                                    ELSE buffer[i]]
    /\ tail' = Advance(tail, k)
    /\ size' = size + k
    /\ UNCHANGED <<head, delivered>>

\* Defect: pop_front does not reset the slot.
PopFrontKept(k) ==
    /\ delivered' = delivered \o [i \in 1..k |-> buffer[Advance(head, i - 1)]]
    /\ head' = Advance(head, k)
    /\ size' = size - k
    /\ UNCHANGED <<tail, buffer>>

\* k items moved out at the head, each slot reset: front followed by
\* pop_front (k = 1) and pop_batch.
PopFront(k) ==
    /\ delivered' = delivered \o [i \in 1..k |-> buffer[Advance(head, i - 1)]]
    /\ buffer' = [i \in Slots |-> IF Offset(head, i) < k THEN NoItem ELSE buffer[i]]
    /\ head' = Advance(head, k)
    /\ size' = size - k
    /\ UNCHANGED tail

-----------------------------------------------------------------------------
(***************************************************************************)
(* The critical section of a call, entered for the first time (pc idle) or *)
(* again after a wait.                                                     *)
(***************************************************************************)
Entering(t) == pc[t] \in {"idle", "woken", "expired"}

\* Out of the critical section for good, to what the call still has to do.
Leave(t, next) == /\ pc' = [pc EXCEPT ![t] = next]
                  /\ call' = [call EXCEPT ![t] = NoCall]

\* The call gives up: a try_ call, or a timed one past its deadline.
MayNotWait(t, c) == \/ c.op \in {"try_push", "try_pop"}
                    \/ pc[t] = "expired"

PushReady(c) == closed \/ c.n = 0 \/ ~Full

PushWait(t, c) ==
    /\ ~PushReady(c) /\ ~MayNotWait(t, c)
    /\ notFull' = notFull \cup {t}
    /\ pc' = [pc EXCEPT ![t] = "waiting"]
    /\ call' = [call EXCEPT ![t] = c]
    /\ UNCHANGED <<ringVars, closed, notEmpty, delivered>>

PushRefused(t, c) ==
    /\ closed \/ c.n = 0 \/ (Full /\ MayNotWait(t, c))
    /\ Leave(t, "idle")
    /\ UNCHANGED <<ringVars, closed, notFull, notEmpty, delivered>>

\* Defect: closed_ is not looked at again after the wait.
PushAcceptedLate(t, c) ==
    /\ c.n > 0 /\ ~Full
    /\ Emplace(Smaller(c.n, Capacity - size))
    /\ Leave(t, "notifyNotEmpty")
    /\ UNCHANGED <<closed, notFull, notEmpty>>

\* Defect: a push notifies only when the queue was empty before it.
PushAcceptedFirst(t, c) ==
    /\ ~closed /\ c.n > 0 /\ ~Full
    /\ Emplace(Smaller(c.n, Capacity - size))
    /\ Leave(t, IF Empty THEN "notifyNotEmpty" ELSE "idle")
    /\ UNCHANGED <<closed, notFull, notEmpty>>

PushAccepted(t, c) ==
    /\ ~closed /\ c.n > 0 /\ ~Full
    /\ Emplace(Smaller(c.n, Capacity - size))
    /\ Leave(t, "notifyNotEmpty")
    /\ UNCHANGED <<closed, notFull, notEmpty>>

PushSection(t, c) == PushWait(t, c) \/ PushRefused(t, c) \/ PushAccepted(t, c)

PopReady(c) == closed \/ c.n = 0 \/ ~Empty

PopWait(t, c) ==
    /\ ~PopReady(c) /\ ~MayNotWait(t, c)
    /\ notEmpty' = notEmpty \cup {t}
    /\ pc' = [pc EXCEPT ![t] = "waiting"]
    /\ call' = [call EXCEPT ![t] = c]
    /\ UNCHANGED <<ringVars, closed, notFull, delivered>>

PopRefused(t, c) ==
    /\ c.n = 0 \/ (Empty /\ (closed \/ MayNotWait(t, c)))
    /\ Leave(t, "idle")
    /\ UNCHANGED <<ringVars, closed, notFull, notEmpty, delivered>>

\* Defect: a pop notifies only when the queue was full before it.
PopAcceptedFull(t, c) ==
    /\ c.n > 0 /\ ~Empty
    /\ PopFront(Smaller(c.n, size))
    /\ Leave(t, IF Full THEN "notifyNotFull" ELSE "idle")
    /\ UNCHANGED <<closed, notFull, notEmpty>>

PopAccepted(t, c) ==
    /\ c.n > 0 /\ ~Empty
    /\ PopFront(Smaller(c.n, size))
    /\ Leave(t, "notifyNotFull")
    /\ UNCHANGED <<closed, notFull, notEmpty>>

PopSection(t, c) == PopWait(t, c) \/ PopRefused(t, c) \/ PopAccepted(t, c)

-----------------------------------------------------------------------------
(***************************************************************************)
(* The steps of a thread.                                                  *)
(***************************************************************************)
StartPush(t) == /\ pc[t] = "idle" /\ t \in Producers
                /\ Stored < MaxItems
                /\ \E c \in PushCalls : PushSection(t, c)

StartPop(t) == /\ pc[t] = "idle" /\ t \in Consumers
               /\ \E c \in PopCalls : PopSection(t, c)

\* A thread that left its wait set gets the mutex and looks again.
Resume(t) == /\ pc[t] \in {"woken", "expired"}
             /\ \/ call[t].op \in PushOps /\ PushSection(t, call[t])
                \/ call[t].op \in PopOps /\ PopSection(t, call[t])

\* close: nothing when already closed, else closed_ and two notify_alls.
Close(t) == /\ pc[t] = "idle" /\ t \in Closers
            /\ ~closed
            /\ closed' = TRUE
            /\ pc' = [pc EXCEPT ![t] = "closeNotEmpty"]
            /\ UNCHANGED <<ringVars, notFull, notEmpty, call, delivered>>

\* Threads W leave their wait sets because they are notified.
Awaken(t, W) == [u \in Threads |-> IF u = t THEN "idle"
                                   ELSE IF u \in W THEN "woken" ELSE pc[u]]

\* One of the threads of S, or none when S is empty.
OneOf(S) == IF S = {} THEN {{}} ELSE {{u} : u \in S}

\* not_empty_.notify_one() at the end of a push that accepted something,
\* however many items it stored.
NotifyNotEmpty(t) ==
    /\ pc[t] = "notifyNotEmpty"
    /\ \E W \in OneOf(notEmpty) :
          /\ notEmpty' = notEmpty \ W
          /\ pc' = Awaken(t, W)
    /\ UNCHANGED <<ringVars, closed, notFull, call, delivered>>

\* not_full_.notify_one() at the end of a pop that delivered something.
NotifyNotFull(t) ==
    /\ pc[t] = "notifyNotFull"
    /\ \E W \in OneOf(notFull) :
          /\ notFull' = notFull \ W
          /\ pc' = Awaken(t, W)
    /\ UNCHANGED <<ringVars, closed, notEmpty, call, delivered>>

\* The two notify_alls of close, in the code's order.
CloseNotEmpty(t) ==
    /\ pc[t] = "closeNotEmpty"
    /\ notEmpty' = {}
    /\ pc' = [Awaken(t, notEmpty) EXCEPT ![t] = "closeNotFull"]
    /\ UNCHANGED <<ringVars, closed, notFull, call, delivered>>

\* Defect: close wakes one producer only.
CloseNotFullOne(t) ==
    /\ pc[t] = "closeNotFull"
    /\ \E W \in OneOf(notFull) : notFull' = notFull \ W /\ pc' = Awaken(t, W)
    /\ UNCHANGED <<ringVars, closed, notEmpty, call, delivered>>

CloseNotFull(t) ==
    /\ pc[t] = "closeNotFull"
    /\ notFull' = {}
    /\ pc' = Awaken(t, notFull)
    /\ UNCHANGED <<ringVars, closed, notEmpty, call, delivered>>

LeaveWait(t, how) ==
    /\ pc[t] = "waiting"
    /\ notFull' = notFull \ {t}
    /\ notEmpty' = notEmpty \ {t}
    /\ pc' = [pc EXCEPT ![t] = how]
    /\ UNCHANGED <<ringVars, closed, call, delivered>>

\* wait_until gives up at its deadline and evaluates the predicate once more.
Timeout(t) == call[t].op \in {"push_for", "pop_for"} /\ LeaveWait(t, "expired")

\* A condition variable may wake a waiter nobody notified.
SpuriousWakeup(t) == LeaveWait(t, "woken")

Next == \E t \in Threads :
            \/ StartPush(t) \/ StartPop(t) \/ Close(t)
            \/ Resume(t)
            \/ NotifyNotEmpty(t) \/ NotifyNotFull(t)
            \/ CloseNotEmpty(t) \/ CloseNotFull(t)
            \/ Timeout(t) \/ SpuriousWakeup(t)

Spec == Init /\ [][Next]_vars

\* Whoever is inside a call keeps running: it sends its notification, gets
\* the mutex back after a wakeup, and its timed wait ends. Nobody has to
\* start a call, and no spurious wakeup has to come.
Fairness == \A t \in Threads :
                /\ WF_vars(Resume(t))
                /\ WF_vars(NotifyNotEmpty(t) \/ NotifyNotFull(t))
                /\ WF_vars(CloseNotEmpty(t) \/ CloseNotFull(t))
                /\ WF_vars(Timeout(t))

FairSpec == Spec /\ Fairness

-----------------------------------------------------------------------------
(***************************************************************************)
(* Properties.                                                             *)
(***************************************************************************)

\* Every variable has its type.
TypeOK ==
    /\ buffer \in [Slots -> Nat]
    /\ head \in Slots /\ tail \in Slots /\ size \in 0..Capacity
    /\ closed \in BOOLEAN
    /\ notFull \subseteq Threads /\ notEmpty \subseteq Threads
    /\ pc \in [Threads -> PCs]
    /\ call \in [Threads -> PushCalls \cup PopCalls \cup {NoCall}]
    /\ delivered \in Seq(Nat)

\* The live items of the ring, oldest first.
Contents == [i \in 1..size |-> buffer[Advance(head, i - 1)]]

\* The ring's indices and its slots agree through every wrap-around: tail_ is
\* size_ slots after head_, the slots between them hold consecutive items in
\* order, and every other slot was reset.
RingConsistent ==
    /\ tail = Advance(head, size)
    /\ \A i \in Slots :
          buffer[i] = IF Offset(head, i) < size
                        THEN Len(delivered) + 1 + Offset(head, i)
                        ELSE NoItem

\* Consumers together receive the accepted items in their order, with none
\* lost, repeated or overtaken by a concurrent pop.
DeliveredInOrder == \A i \in 1..Len(delivered) : delivered[i] = i

\* A thread is in exactly the wait set its pc and its call say.
WaitSetsMatch ==
    /\ notFull  = {t \in Threads : pc[t] = "waiting" /\ call[t].op \in PushOps}
    /\ notEmpty = {t \in Threads : pc[t] = "waiting" /\ call[t].op \in PopOps}

\* Threads about to wake a waiting consumer, or themselves about to look at
\* the queue again as consumers.
ItemSignals ==
    {t \in Threads : \/ pc[t] = "notifyNotEmpty"
                     \/ pc[t] \in {"woken", "expired"} /\ call[t].op \in PopOps}

\* The same for the slots that waiting producers want.
SlotSignals ==
    {t \in Threads : \/ pc[t] = "notifyNotFull"
                     \/ pc[t] \in {"woken", "expired"} /\ call[t].op \in PushOps}

\* No lost wakeup: while consumers sleep on not_empty_, every item in the
\* queue has a thread of its own that will wake one of them or take it,
\* and likewise every free slot while producers sleep on not_full_. It is
\* what the one notify_one of each single-item call has to guarantee.
NoLostWakeup ==
    /\ notEmpty # {} /\ ~closed => size <= Cardinality(ItemSignals)
    /\ notFull # {} /\ ~closed => Capacity - size <= Cardinality(SlotSignals)

\* A consumer asleep while the queue holds an item is woken, or the item
\* goes to another consumer.
SleepingConsumerServed ==
    \A t \in Consumers :
        (t \in notEmpty /\ ~Empty) ~> (t \notin notEmpty \/ Empty)

\* The same, and for a producer asleep while the queue has room.
SleepersServed ==
    /\ SleepingConsumerServed
    /\ \A t \in Producers :
          (t \in notFull /\ ~Full) ~> (t \notin notFull \/ Full)

\* Once the queue is closed every call in progress returns, and the calls
\* made meanwhile do not block: a moment comes when no thread is in a call.
CloseReleasesEveryCall ==
    closed ~> (closed /\ \A t \in Threads : pc[t] = "idle")

\* The queue implements the bounded FIFO it promises: the ring's live slots
\* are its items.
Fifo == INSTANCE BoundedFifo WITH items <- Contents,
                                  taken <- delivered,
                                  isClosed <- closed
ImplementsFifo == Fifo!FifoSpec
=============================================================================

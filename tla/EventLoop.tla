----------------------------- MODULE EventLoop ------------------------------
(***************************************************************************)
(* Event loops, one per thread, and the functors threads hand them:        *)
(* src/code/MiniReactor/src/net/EventLoop.cpp and the poll of              *)
(* EpollPoller.cpp. A round of a loop waits until a channel is ready,      *)
(* handles the events of all the channels that were, and calls the         *)
(* functors that are pending then.                                         *)
(*                                                                         *)
(* queueInLoop is two steps where it matters: the functor is pending       *)
(* before the write to the eventfd makes the loop look at it. A thread     *)
(* does nothing else in between.                                           *)
(***************************************************************************)
EXTENDS Naturals, Sequences

CONSTANTS
    Loops,   \* the threads that own a loop, which has the same name
    Workers, \* the threads that own none
    Wakeup,  \* wakeupChannel_ of every loop
    None

ASSUME ThreadsAssumption == Loops \cap Workers = {}

Threads == Loops \cup Workers

VARIABLES
    stage,   \* "channels": handling events; "functors": calling functors, and
             \* polling when they have all been called
    active,  \* channels of the last poll whose events are not handled yet
    inside,  \* the one whose handler the loop is in the middle of, or None
    pending, \* pendingFunctors_
    batch,   \* the functors doPendingFunctors has taken; it drops them together
    called,  \* how many of them it has called
    eventfd, \* there is something to read from wakeupFd_
    waking   \* <<t, l>>: thread t has queued a functor in l and is to wake it

queueVars == <<pending, waking>>
roundVars == <<stage, active, inside, batch, called, eventfd>>

LoopInit == /\ stage   = [l \in Loops |-> "functors"]
            /\ active  = [l \in Loops |-> {}]
            /\ inside  = [l \in Loops |-> None]
            /\ pending = [l \in Loops |-> << >>]
            /\ batch   = [l \in Loops |-> << >>]
            /\ called  = [l \in Loops |-> 0]
            /\ eventfd = [l \in Loops |-> FALSE]
            /\ waking  = {}

\* Thread t is not in the middle of queueInLoop.
Free(t) == \A l \in Loops : <<t, l>> \notin waking

\* queueInLoop(f) of thread t. A loop that is calling functors, in stage
\* "functors" that is, has to be woken by itself. The defect forgets it.
QueueWaking(wake, l, f, t) == /\ pending' = [pending EXCEPT ![l] = Append(@, f)]
                              /\ waking'  = IF wake THEN waking \cup {<<t, l>>} ELSE waking

QueueFromOutside(t, l, f) == QueueWaking(t # l, l, f, t)

QueueInLoop(t, l, f) == QueueWaking(t # l \/ stage[l] = "functors", l, f, t)

\* wakeup(): the write to the eventfd.
Wake(t, l) == /\ <<t, l>> \in waking
              /\ waking'  = waking \ {<<t, l>>}
              /\ eventfd' = [eventfd EXCEPT ![l] = TRUE]
              /\ UNCHANGED <<pending, stage, active, inside, batch, called>>

\* Loop l has called its functors, drops them and polls.
Polling(l) == Free(l) /\ stage[l] = "functors" /\ called[l] = Len(batch[l])

\* The poll returns the channels that are ready, those of connections and the
\* like among others; it does not return before there are any.
Poll(l, others) ==
    LET ready == others \cup (IF eventfd[l] THEN {Wakeup} ELSE {})
    IN  /\ Polling(l) /\ ready # {}
        /\ active' = [active EXCEPT ![l] = ready]
        /\ stage'  = [stage EXCEPT ![l] = "channels"]
        /\ batch'  = [batch EXCEPT ![l] = << >>]
        /\ called' = [called EXCEPT ![l] = 0]
        /\ UNCHANGED <<queueVars, inside, eventfd>>

\* The loop comes to the events of channel ch.
Handling(l, ch) == /\ Free(l) /\ stage[l] = "channels" /\ inside[l] = None /\ ch \in active[l]
                   /\ active' = [active EXCEPT ![l] = @ \ {ch}]
                   /\ UNCHANGED <<stage, batch, called>>

\* It begins a handler that takes several steps, is in it, or is through.
Enter(l, ch) == /\ Handling(l, ch)
                /\ inside' = [inside EXCEPT ![l] = ch]
                /\ UNCHANGED eventfd

Inside(l, ch) == Free(l) /\ inside[l] = ch /\ ch # None

Leave(l) == /\ inside' = [inside EXCEPT ![l] = None]
            /\ UNCHANGED <<stage, active, batch, called, eventfd>>

HandleWakeupRead(l) == /\ Handling(l, Wakeup)
                       /\ eventfd' = [eventfd EXCEPT ![l] = FALSE]
                       /\ UNCHANGED <<queueVars, inside>>

\* doPendingFunctors takes what is pending now.
SwapFunctors(l) == /\ Free(l) /\ stage[l] = "channels" /\ active[l] = {} /\ inside[l] = None
                   /\ batch'   = [batch EXCEPT ![l] = pending[l]]
                   /\ pending' = [pending EXCEPT ![l] = << >>]
                   /\ stage'   = [stage EXCEPT ![l] = "functors"]
                   /\ UNCHANGED <<waking, active, inside, called, eventfd>>

\* A functor: what to do, for which connection, and with what.
Functor(do, conn, arg) == [do |-> do, conn |-> conn, arg |-> arg]

\* It calls the next functor, which is to do this.
NextFunctor(l) == batch[l][called[l] + 1]

Calling(l, do) == /\ Free(l) /\ stage[l] = "functors" /\ called[l] < Len(batch[l])
                  /\ NextFunctor(l).do = do
                  /\ called' = [called EXCEPT ![l] = @ + 1]
                  /\ UNCHANGED <<stage, active, inside, batch, eventfd>>

\* The functors somebody still holds, by the loop they are for.
HeldBy(l) == {pending[l][i] : i \in 1 .. Len(pending[l])} \cup
             (IF Polling(l) THEN {} ELSE {batch[l][i] : i \in 1 .. Len(batch[l])})

Functors == UNION {HeldBy(l) : l \in Loops}

-----------------------------------------------------------------------------
(***************************************************************************)
(* No loop waits in its poll beside a pending functor that nobody will     *)
(* wake it for.                                                            *)
(***************************************************************************)
NoForgottenFunctor ==
    \A l \in Loops : Polling(l) /\ pending[l] # << >> =>
        eventfd[l] \/ \E t \in Threads : <<t, l>> \in waking
=============================================================================

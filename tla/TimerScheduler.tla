--------------------------- MODULE TimerScheduler ---------------------------
(***************************************************************************)
(* TimerScheduler: src/code/TimerScheduler/TimerScheduler.{h,cpp}. One     *)
(* thread (worker_loop) keeps a heap of deadlines and hands due timers to  *)
(* an executor, a ThreadPool; any thread, a callback included, schedules,  *)
(* cancels and stops.                                                      *)
(*                                                                         *)
(* SharedState::mutex is never held across a notification or a callback,   *)
(* so a critical section is one action; notifications, the try_post, and   *)
(* the release of each owner of a shot's completion are actions of their   *)
(* own. Time is relative: an entry of the heap carries the ticks left to   *)
(* its expiration, which Tick counts down to 0 (due).                      *)
(***************************************************************************)
EXTENDS Integers, Sequences, FiniteSets

CONSTANTS
    Callers,       \* threads that use the scheduler
    PoolThreads,   \* the executor's threads
    MaxTimers,     \* bound: timers ever scheduled (next_id stays below it)
    MaxDelay,      \* bound: longest delay and interval, in ticks
    QueueCapacity  \* the executor accepts nothing beyond it

ASSUME ThreadAssumption == Callers \cap PoolThreads = {} /\ IsFiniteSet(PoolThreads)
ASSUME BoundAssumption == /\ MaxTimers \in Nat /\ MaxDelay \in Nat \ {0}
                          /\ QueueCapacity \in Nat \ {0}

Ids     == 1 .. MaxTimers
Threads == Callers \cup PoolThreads
NoId    == 0

VARIABLES
    scheduler,   \* SharedState::scheduler_state
    states,      \* SharedState::states, "none" where there is no record
    heap,        \* SharedState::tasks, in heap order: records [id, left]
    nextId,      \* SharedState::next_id
    inFlight,    \* SharedState::in_flight
    interval,    \* TimerTask::interval, 0 for a one-shot timer
    worker,      \* where the scheduling thread is; "none" before start()
    waitingId,   \* the top of the heap when the worker went to sleep
    ready,       \* ready_tasks still to be dispatched
    holds,       \* the worker's completion: none, shared or sole owner of a shot
    queue,       \* the executor's queue: shots [id, shared]
    shot,        \* shot[p]: the shot pool thread p runs, or NoShot
    pool,        \* where each pool thread is in its wrapper
    api,         \* where each thread is in a call of the scheduler
    sleepers,    \* threads waiting on finished_cv
    stranded     \* history: timers whose try_post threw and was taken as accepted

sharedVars == <<scheduler, states, heap, nextId, inFlight, interval>>
workerVars == <<worker, waitingId, ready, holds>>
poolVars   == <<queue, shot, pool>>
vars == <<scheduler, states, heap, nextId, inFlight, interval, worker, waitingId,
          ready, holds, queue, shot, pool, api, sleepers, stranded>>

NoShot == [id |-> NoId, shared |-> FALSE]

Init == /\ scheduler = "Created"
        /\ states = [i \in Ids |-> "none"]
        /\ heap = << >>
        /\ nextId = 1 /\ inFlight = 0
        /\ interval = [i \in Ids |-> 0]
        /\ worker = "none" /\ waitingId = NoId /\ ready = << >> /\ holds = "none"
        /\ queue = << >>
        /\ shot = [p \in PoolThreads |-> NoShot]
        /\ pool = [p \in PoolThreads |-> "idle"]
        /\ api = [t \in Threads |-> "idle"]
        /\ sleepers = {}
        /\ stranded = {}

Running == scheduler = "Running"

\* A thread that may call the scheduler: no call in progress, and a pool
\* thread only from inside a callback (current_timer_state is set there).
MayCall(t) == api[t] = "idle" /\ (t \in PoolThreads => pool[t] = "callback")

Goto(t, label) == api' = [api EXCEPT ![t] = label]

\* Effect of cv.notify_one or notify_all: the worker is the only waiter.
WakeWorker == worker' = IF worker \in {"waitEmpty", "waitTop"} THEN "woken" ELSE worker

-----------------------------------------------------------------------------
(***************************************************************************)
(* The heap.                                                               *)
(***************************************************************************)

\* TimerTaskCompare: earlier expiration first, then smaller id.
Before(e, f) == e.left < f.left \/ (e.left = f.left /\ e.id < f.id)

\* tasks.push, keeping heap order.
Push(h, e) == LET n == Cardinality({i \in DOMAIN h : Before(h[i], e)})
              IN  SubSeq(h, 1, n) \o <<e>> \o SubSeq(h, n + 1, Len(h))

\* Defect: a push wakes the worker only when the heap was empty.
EarliestIfEmpty(h, left) == h = << >>

\* need_wakeup of a push.
Earliest(h, left) == h = << >> \/ left < h[1].left

\* Defect: cancelled entries stay at the top of the heap.
StaleTopIgnored == {}

\* Cancelled entries at the top, which the worker pops.
StaleTop == {i \in DOMAIN heap : \A j \in 1..i : states[heap[j].id] = "Cancelled"}

\* Entries that have expired.
Due == {i \in DOMAIN heap : heap[i].left = 0}

Without(I) == SubSeq(heap, Cardinality(I) + 1, Len(heap))
IdsOf(I) == {heap[i].id : i \in I}

Erase(S) == states' = [i \in Ids |-> IF i \in S THEN "none" ELSE states[i]]

Tick == /\ \E i \in DOMAIN heap : heap[i].left > 0
        /\ heap' = [i \in DOMAIN heap |->
                      [heap[i] EXCEPT !.left = IF @ > 0 THEN @ - 1 ELSE 0]]
        /\ UNCHANGED <<scheduler, states, nextId, inFlight, interval, workerVars, poolVars, api,
                       sleepers, stranded>>

-----------------------------------------------------------------------------
(***************************************************************************)
(* The interface. schedule_*, cancel and request_stop are one critical     *)
(* section, then perhaps a notification.                                   *)
(***************************************************************************)
Start(t) ==
    /\ MayCall(t) /\ scheduler = "Created"
    /\ scheduler' = "Running"
    /\ worker' = "lock"
    /\ UNCHANGED <<states, heap, nextId, inFlight, interval, waitingId, ready, holds,
                   poolVars, api, sleepers, stranded>>

\* schedule_after (every = 0) and schedule_every (every = delay). The
\* expiration is computed before the lock: some of the delay may be over.
Schedule(t, delay, every) ==
    /\ MayCall(t) /\ Running /\ nextId \in Ids
    /\ \E left \in 0..delay :
          /\ heap' = Push(heap, [id |-> nextId, left |-> left])
          /\ Goto(t, IF Earliest(heap, left) THEN "notify" ELSE "idle")
    /\ states' = [states EXCEPT ![nextId] = "Pending"]
    /\ interval' = [interval EXCEPT ![nextId] = every]
    /\ nextId' = nextId + 1
    /\ UNCHANGED <<scheduler, inFlight, workerVars, poolVars, sleepers, stranded>>

ScheduleAfter(t) == \E d \in 0..MaxDelay : Schedule(t, d, 0)
ScheduleEvery(t) == \E d \in 1..MaxDelay : Schedule(t, d, d)

\* A cancel that returns true; one that returns false changes nothing.
Cancel(t, i) ==
    /\ MayCall(t)
    /\ states[i] \notin {"none", "Cancelled"}
    /\ states' = [states EXCEPT ![i] = "Cancelled"]
    /\ Goto(t, IF heap # << >> /\ heap[1].id = i THEN "notify" ELSE "idle")
    /\ UNCHANGED <<scheduler, heap, nextId, inFlight, interval, workerVars,
                   poolVars, sleepers, stranded>>

\* Defect: request_stop does not notify the worker.
RequestStopSilently(t, afterNotify, after) ==
    /\ MayCall(t)
    /\ scheduler' = IF scheduler \in {"Created", "Stopped"} THEN "Stopped" ELSE "Stopping"
    /\ Goto(t, after)
    /\ UNCHANGED <<states, heap, nextId, inFlight, interval, workerVars, poolVars,
                   sleepers, stranded>>

\* The critical section of request_stop; the call goes on at afterNotify when
\* it has to notify the worker, else at after.
RequestStop(t, afterNotify, after) ==
    /\ MayCall(t)
    /\ scheduler' = CASE scheduler = "Created" -> "Stopped"
                      [] scheduler = "Running" -> "Stopping"
                      [] OTHER -> scheduler
    /\ states' = IF Running
                   THEN [i \in Ids |-> IF states[i] = "Pending" THEN "Cancelled"
                                       ELSE states[i]]
                   ELSE states
    /\ Goto(t, IF Running THEN afterNotify ELSE after)
    /\ UNCHANGED <<heap, nextId, inFlight, interval, workerVars, poolVars,
                   sleepers, stranded>>

CallRequestStop(t) == RequestStop(t, "notify", "idle")
Stop(t) == RequestStop(t, "stopNotify", "join")

\* wait(), by a thread that knows start() has returned.
Wait(t) == /\ MayCall(t) /\ scheduler # "Created"
           /\ Goto(t, "join")
           /\ UNCHANGED <<sharedVars, workerVars, poolVars, sleepers, stranded>>

Notify(t) ==
    /\ api[t] \in {"notify", "stopNotify"}
    /\ WakeWorker
    /\ Goto(t, IF api[t] = "notify" THEN "idle" ELSE "join")
    /\ UNCHANGED <<sharedVars, waitingId, ready, holds, poolVars, sleepers, stranded>>

\* join_worker, then the early return of a callback.
Join(t) ==
    /\ api[t] = "join"
    /\ worker \in {"none", "exited"}
    /\ Goto(t, IF t \in PoolThreads THEN "idle" ELSE "drain")
    /\ UNCHANGED <<sharedVars, workerVars, poolVars, sleepers, stranded>>

\* finished_cv.wait until in_flight is 0, then the clean-up.
Drain(t) ==
    /\ api[t] \in {"drain", "drainWoken"}
    /\ \/ /\ inFlight > 0
          /\ sleepers' = sleepers \cup {t}
          /\ Goto(t, "drainWait")
          /\ UNCHANGED <<scheduler, states, heap>>
       \/ /\ inFlight = 0
          /\ heap' = << >>
          /\ Erase(Ids)
          /\ scheduler' = "Stopped"
          /\ Goto(t, "idle")
          /\ UNCHANGED sleepers
    /\ UNCHANGED <<nextId, inFlight, interval, workerVars, poolVars, stranded>>

\* A condition variable may wake a waiter nobody notified.
SpuriousWakeup ==
    /\ \/ /\ worker \in {"waitEmpty", "waitTop"}
          /\ WakeWorker
          /\ UNCHANGED <<api, sleepers>>
       \/ \E t \in sleepers : /\ sleepers' = sleepers \ {t}
                              /\ Goto(t, "drainWoken")
                              /\ UNCHANGED worker
    /\ UNCHANGED <<sharedVars, waitingId, ready, holds, poolVars,
                   stranded>>

-----------------------------------------------------------------------------
(***************************************************************************)
(* worker_loop.                                                            *)
(***************************************************************************)

\* From the while condition to the next wait, with the lock held: leave if no
\* longer running, pop cancelled entries off the top, sleep. A wait predicate
\* that is still false leads back to the same wait, so this is also what
\* happens when the worker wakes up.
EnterLoop ==
    IF ~Running
      THEN worker' = "exited" /\ UNCHANGED <<states, heap, waitingId>>
      ELSE /\ heap' = Without(StaleTop)
           /\ Erase(IdsOf(StaleTop))
           /\ IF heap' = << >>
                THEN worker' = "waitEmpty" /\ waitingId' = NoId
                ELSE worker' = "waitTop" /\ waitingId' = heap'[1].id

Wake ==
    /\ worker \in {"lock", "woken"}
    /\ EnterLoop
    /\ UNCHANGED <<scheduler, nextId, inFlight, interval, ready, holds,
                   poolVars, api, sleepers, stranded>>

\* The deadline the worker sleeps for has passed.
Expire ==
    /\ worker = "waitTop"
    /\ \E i \in Due : heap[i].id = waitingId
    /\ worker' = "expired"
    /\ UNCHANGED <<sharedVars, waitingId, ready, holds, poolVars, api,
                   sleepers, stranded>>

\* The predicate of wait_until, evaluated once more.
Interrupted == \/ ~Running \/ heap = << >>
               \/ heap[1].id # waitingId
               \/ states[waitingId] \in {"none", "Cancelled"}

\* Take every due timer off the heap: pending ones become ready, cancelled
\* ones are forgotten. Then unlock.
Collect ==
    LET Pending(i) == states[i] = "Pending"
        Firing == {k \in Due : Pending(heap[k].id)}
    IN  /\ heap' = Without(Due)
        /\ \E r \in [1..Cardinality(Firing) -> Firing] :
              /\ \A j, k \in DOMAIN r : j < k => r[j] < r[k]
              /\ ready' = [k \in DOMAIN r |-> heap[r[k]].id]
        /\ states' = [i \in Ids |-> IF i \notin IdsOf(Due) THEN states[i]
                                    ELSE IF Pending(i) THEN "Submitted"
                                    ELSE IF states[i] = "Cancelled" THEN "none"
                                    ELSE states[i]]
        /\ worker' = "dispatch"
        /\ UNCHANGED waitingId

Expired ==
    /\ worker = "expired"
    /\ IF Interrupted THEN EnterLoop /\ UNCHANGED ready ELSE Collect
    /\ UNCHANGED <<scheduler, nextId, inFlight, interval, holds, poolVars,
                   api, sleepers, stranded>>

\* Defect: a shot is counted in flight by nobody before it is posted.
DispatchUncounted ==
    /\ worker = "dispatch"
    /\ \/ /\ ready = << >>
          /\ worker' = "lock"
          /\ UNCHANGED <<states, ready, holds>>
       \/ /\ ready # << >>
          /\ LET i == Head(ready) IN
             \/ /\ states[i] # "Submitted" \/ ~Running
                /\ Erase({i})
                /\ ready' = Tail(ready)
                /\ UNCHANGED <<worker, holds>>
             \/ /\ states[i] = "Submitted" /\ Running
                /\ holds' = "shared"
                /\ worker' = "post"
                /\ UNCHANGED <<states, ready>>
    /\ UNCHANGED <<scheduler, heap, nextId, inFlight, interval, waitingId, poolVars,
                   api, sleepers, stranded>>

\* The next ready task is checked under the lock and counted in flight; when
\* none is left the worker goes to lock again.
Dispatch ==
    /\ worker = "dispatch"
    /\ \/ /\ ready = << >>
          /\ worker' = "lock"
          /\ UNCHANGED <<states, ready, inFlight, holds>>
       \/ /\ ready # << >>
          /\ LET i == Head(ready) IN
             \/ /\ states[i] # "Submitted" \/ ~Running
                /\ Erase(IF Running /\ states[i] \notin {"none", "Cancelled"}
                           THEN {} ELSE {i})
                /\ ready' = Tail(ready)
                /\ UNCHANGED <<worker, inFlight, holds>>
             \/ /\ states[i] = "Submitted" /\ Running
                /\ inFlight' = inFlight + 1
                /\ holds' = "shared"
                /\ worker' = "post"
                /\ UNCHANGED <<states, ready>>
    /\ UNCHANGED <<scheduler, heap, nextId, interval, waitingId, poolVars,
                   api, sleepers, stranded>>

\* executor.try_post. A refused wrapper is destroyed, and so is one whose
\* hand-over threw; then result was never written and is read all the same.
Post ==
    /\ worker = "post"
    /\ LET i == Head(ready) IN
       \/ /\ Len(queue) < QueueCapacity
          /\ queue' = Append(queue, [id |-> i, shared |-> TRUE])
          /\ worker' = "release"
          /\ UNCHANGED <<holds, stranded>>
       \/ /\ holds' = "sole"
          /\ \/ worker' = "rejected" /\ UNCHANGED stranded
             \/ worker' = "release" /\ stranded' = stranded \cup {i}
          /\ UNCHANGED queue
    /\ UNCHANGED <<sharedVars, waitingId, ready, shot, pool, api, sleepers>>

\* Defect: a refused timer keeps its record.
RejectedKept ==
    /\ worker = "rejected"
    /\ worker' = "release"
    /\ UNCHANGED <<sharedVars, waitingId, ready, holds, poolVars, api, sleepers, stranded>>

\* The executor did not accept: the timer is forgotten.
Rejected ==
    /\ worker = "rejected"
    /\ Erase({Head(ready)})
    /\ worker' = "release"
    /\ UNCHANGED <<scheduler, heap, nextId, inFlight, interval, waitingId, ready,
                   holds, poolVars, api, sleepers, stranded>>

\* A shot's completion loses its last owner: finish_in_flight.
FinishInFlight == inFlight' = IF inFlight > 0 THEN inFlight - 1 ELSE inFlight

Unshare(s) == [s EXCEPT !.shared = FALSE]

\* completion.reset(): the wrapper may still own the shot, and then it will
\* finish it.
Release ==
    /\ worker = "release"
    /\ holds' = "none"
    /\ ready' = Tail(ready)
    /\ \/ /\ holds = "shared"
          /\ queue' = [k \in DOMAIN queue |-> Unshare(queue[k])]
          /\ shot' = [p \in PoolThreads |-> Unshare(shot[p])]
          /\ worker' = "dispatch"
          /\ UNCHANGED inFlight
       \/ /\ holds = "sole"
          /\ FinishInFlight
          /\ worker' = IF inFlight' = 0 THEN "finish" ELSE "dispatch"
          /\ UNCHANGED <<queue, shot>>
    /\ UNCHANGED <<scheduler, states, heap, nextId, interval, waitingId, pool,
                   api, sleepers, stranded>>

\* finished_cv.notify_all().
WakeSleepers == /\ sleepers' = {}
                /\ api' = [t \in Threads |-> IF t \in sleepers THEN "drainWoken"
                                             ELSE api[t]]

FinishNotify ==
    /\ worker = "finish"
    /\ WakeSleepers
    /\ worker' = "dispatch"
    /\ UNCHANGED <<sharedVars, waitingId, ready, holds, poolVars,
                   stranded>>

-----------------------------------------------------------------------------
(***************************************************************************)
(* The wrapper, on a thread of the executor.                               *)
(***************************************************************************)
Take(p) ==
    /\ pool[p] = "idle" /\ queue # << >>
    /\ shot' = [shot EXCEPT ![p] = Head(queue)]
    /\ queue' = Tail(queue)
    /\ pool' = [pool EXCEPT ![p] = "begin"]
    /\ UNCHANGED <<sharedVars, workerVars, api, sleepers, stranded>>

PoolGoto(p, label) == pool' = [pool EXCEPT ![p] = label]

\* First critical section: run the callback only if still submitted.
Begin(p) ==
    /\ pool[p] = "begin"
    /\ LET i == shot[p].id IN
       \/ /\ states[i] = "Submitted"
          /\ states' = [states EXCEPT ![i] = "Executing"]
          /\ PoolGoto(p, "callback")
       \/ /\ states[i] # "Submitted"
          /\ Erase(IF states[i] = "Cancelled" THEN {i} ELSE {})
          /\ PoolGoto(p, "destroy")
    /\ UNCHANGED <<scheduler, heap, nextId, inFlight, interval, workerVars,
                   queue, shot, api, sleepers, stranded>>

\* Defect: a periodic timer is armed again although it was cancelled.
EndUncancelled(p) ==
    /\ pool[p] = "callback" /\ api[p] = "idle"
    /\ LET i == shot[p].id IN
       \/ /\ interval[i] > 0 /\ Running
          /\ states' = [states EXCEPT ![i] = "Pending"]
          /\ heap' = Push(heap, [id |-> i, left |-> interval[i]])
          /\ PoolGoto(p, IF Earliest(heap, interval[i]) THEN "notify" ELSE "destroy")
       \/ /\ interval[i] = 0 \/ ~Running
          /\ Erase({i})
          /\ PoolGoto(p, "destroy")
          /\ UNCHANGED heap
    /\ UNCHANGED <<scheduler, nextId, inFlight, interval, workerVars, queue, shot, api,
                   sleepers, stranded>>

\* Second critical section, after the callback returned or threw: a periodic
\* timer goes back to the heap while the scheduler is running.
End(p) ==
    /\ pool[p] = "callback" /\ api[p] = "idle"
    /\ LET i == shot[p].id IN
       \/ /\ states[i] = "Executing" /\ interval[i] > 0 /\ Running
          /\ states' = [states EXCEPT ![i] = "Pending"]
          /\ heap' = Push(heap, [id |-> i, left |-> interval[i]])
          /\ PoolGoto(p, IF Earliest(heap, interval[i]) THEN "notify" ELSE "destroy")
       \/ /\ ~(states[i] = "Executing" /\ interval[i] > 0 /\ Running)
          /\ Erase({i})
          /\ PoolGoto(p, "destroy")
          /\ UNCHANGED heap
    /\ UNCHANGED <<scheduler, nextId, inFlight, interval, workerVars, queue,
                   shot, api, sleepers, stranded>>

NotifyPush(p) ==
    /\ pool[p] = "notify"
    /\ WakeWorker
    /\ PoolGoto(p, "destroy")
    /\ UNCHANGED <<sharedVars, waitingId, ready, holds, queue, shot, api,
                   sleepers, stranded>>

\* The executor destroys the wrapper, which gives up its share of the shot.
Destroy(p) ==
    /\ pool[p] = "destroy"
    /\ shot' = [shot EXCEPT ![p] = NoShot]
    /\ \/ /\ shot[p].shared
          /\ holds' = "sole"
          /\ PoolGoto(p, "idle")
          /\ UNCHANGED inFlight
       \/ /\ ~shot[p].shared
          /\ FinishInFlight
          /\ PoolGoto(p, IF inFlight' = 0 THEN "finish" ELSE "idle")
          /\ UNCHANGED holds
    /\ UNCHANGED <<scheduler, states, heap, nextId, interval, worker, waitingId, ready,
                   queue, api, sleepers, stranded>>

PoolNotify(p) ==
    /\ pool[p] = "finish"
    /\ WakeSleepers
    /\ PoolGoto(p, "idle")
    /\ UNCHANGED <<sharedVars, workerVars, queue, shot, stranded>>

-----------------------------------------------------------------------------
Call(t) == \/ Start(t) \/ ScheduleAfter(t) \/ ScheduleEvery(t)
           \/ \E i \in Ids : Cancel(t, i)
           \/ CallRequestStop(t) \/ Stop(t) \/ Wait(t)

Continue(t) == Notify(t) \/ Join(t) \/ Drain(t)

WorkerStep == \/ Wake \/ Expire \/ Expired \/ Dispatch \/ Post \/ Rejected
              \/ Release \/ FinishNotify

PoolStep(p) == \/ Take(p) \/ Begin(p) \/ End(p) \/ NotifyPush(p) \/ Destroy(p)
               \/ PoolNotify(p)

Next == \/ \E t \in Threads : Call(t) \/ Continue(t)
        \/ WorkerStep
        \/ \E p \in PoolThreads : PoolStep(p)
        \/ Tick
        \/ SpuriousWakeup

Spec == Init /\ [][Next]_vars

\* Threads inside the scheduler keep running, the executor runs what it
\* accepted, every callback returns (strong: it may call the scheduler again
\* and again first) and time passes. A worker that is woken for nothing again
\* and again still notices that its deadline passed. Nobody has to call
\* anything.
Fairness == /\ \A t \in Threads : WF_vars(Continue(t))
            /\ WF_vars(WorkerStep) /\ SF_vars(Expire)
            /\ \A p \in PoolThreads : SF_vars(PoolStep(p))
            /\ WF_vars(Tick)

FairSpec == Spec /\ Fairness

-----------------------------------------------------------------------------
(***************************************************************************)
(* Properties.                                                             *)
(***************************************************************************)
Shots == [id : Ids, shared : BOOLEAN]

\* Every variable has its type.
TypeOK ==
    /\ scheduler \in {"Created", "Running", "Stopping", "Stopped"}
    /\ states \in [Ids -> {"none", "Pending", "Submitted", "Executing", "Cancelled"}]
    /\ heap \in Seq([id : Ids, left : 0..MaxDelay])
    /\ nextId \in 1..MaxTimers + 1
    /\ inFlight \in Nat
    /\ interval \in [Ids -> 0..MaxDelay]
    /\ worker \in {"none", "lock", "woken", "waitEmpty", "waitTop", "expired",
                   "dispatch", "post", "rejected", "release", "finish", "exited"}
    /\ waitingId \in Ids \cup {NoId}
    /\ ready \in Seq(Ids)
    /\ holds \in {"none", "shared", "sole"}
    /\ queue \in Seq(Shots)
    /\ shot \in [PoolThreads -> Shots \cup {NoShot}]
    /\ pool \in [PoolThreads -> {"idle", "begin", "callback", "notify", "destroy",
                                 "finish"}]
    /\ api \in [Threads -> {"idle", "notify", "stopNotify", "join", "drain",
                            "drainWait", "drainWoken"}]
    /\ sleepers \subseteq Threads
    /\ stranded \subseteq Ids

InHeap(i) == {<<"heap", k>> : k \in {k \in DOMAIN heap : heap[k].id = i}}
InPool(i) == {p \in PoolThreads : pool[p] \in {"begin", "callback"} /\ shot[p].id = i}
Queued(i) == {<<"queue", k>> : k \in {k \in DOMAIN queue : queue[k].id = i}}

\* The head of ready has left it once it was posted.
Undispatched(i) ==
    {<<"ready", k>> : k \in {k \in DOMAIN ready :
        ready[k] = i /\ (k = 1 => worker # "release")}}

Holders(i) == InHeap(i) \cup InPool(i) \cup Queued(i) \cup Undispatched(i)

\* At every moment at most one of the heap, the ready list, the executor's
\* queue and its threads has a timer in hand, so a periodic timer never
\* overlaps itself; a record exists as long as somebody has the timer, except
\* that a refused or an erased shot may outlive it; and no record is left over
\* once nobody has it (unless its try_post threw). An entry of the heap is
\* pending or cancelled: on any other the worker would spin with the mutex held.
EveryTimerOwnedOnce ==
    /\ TypeOK
    /\ \A i \in Ids :
       /\ Cardinality(Holders(i)) <= 1
       /\ InHeap(i) # {} => states[i] \in {"Pending", "Cancelled"}
       /\ states[i] = "Pending" => InHeap(i) # {}
       /\ states[i] = "Executing" => \E p \in InPool(i) : pool[p] = "callback"
       /\ states[i] # "none" => Holders(i) # {} \/ i \in stranded

\* When the scheduler is stopped nothing of it is left: its thread has ended,
\* no timer is recorded, and no callback of it runs or waits in the executor.
StoppedIsQuiet ==
    scheduler = "Stopped" =>
       /\ worker \in {"none", "exited"}
       /\ heap = << >> /\ queue = << >>
       /\ \A i \in Ids : states[i] = "none"
       /\ \A p \in PoolThreads : pool[p] \in {"idle", "finish"}

\* Somebody is about to notify the worker.
NotifyPending == \/ \E t \in Threads : api[t] \in {"notify", "stopNotify"}
                 \/ \E p \in PoolThreads : pool[p] = "notify"

\* No wakeup is lost: unless a notification is on its way, a sleeping worker
\* of a running scheduler sleeps on an empty heap, or until the earliest
\* deadline in it, and not on behalf of a cancelled top.
SleepsOnTheRightDeadline ==
    worker \in {"waitEmpty", "waitTop"} /\ ~NotifyPending =>
       /\ Running
       /\ worker = "waitEmpty" => heap = << >>
       /\ worker = "waitTop" =>
             \E k \in DOMAIN heap : /\ heap[k].id = waitingId
                                    /\ heap[k].left = heap[1].left
                                    /\ k = 1 => states[waitingId] = "Pending"

\* A pending timer is submitted or cancelled in the end.
TimerFires == \A i \in Ids : states[i] = "Pending" ~> states[i] # "Pending"

\* A thread that waits for the scheduler's end returns once somebody asked
\* for it, from a callback too.
StopReturns == \A t \in Threads : api[t] = "join" /\ ~Running ~> api[t] = "idle"

\* The scheduler keeps a timer service's promise.
Life(i) == CASE i >= nextId -> "unborn"
             [] i < nextId /\ states[i] \in {"Pending", "Submitted"} -> "armed"
             [] i < nextId /\ states[i] = "Executing" -> "firing"
             [] i < nextId /\ states[i] = "Cancelled"
                  /\ \E p \in InPool(i) : pool[p] = "callback" -> "lastFiring"
             [] OTHER -> "dead"

Phase == CASE scheduler = "Created" -> "new"
           [] scheduler = "Running" -> "open"
           [] OTHER -> "closed"

Service == INSTANCE TimerService WITH Timer <- Ids, phase <- Phase,
                                      life <- [i \in Ids |-> Life(i)]
ImplementsTimers == Service!TimerSpec
=============================================================================

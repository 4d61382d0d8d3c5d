---------------------------- MODULE AsyncLogger ----------------------------
(***************************************************************************)
(* AsyncLogger, from src/code/AsyncLogger/src/async_logger.cpp: threads    *)
(* that log, flush and stop, and the worker that writes. Its queue is an   *)
(* MpscQueue, which MpscRing implements.                                   *)
(*                                                                         *)
(* The class shares its state through atomics, not under a lock, so a step *)
(* here is one load, one store or one read-modify-write of them. A         *)
(* notification that the code sends while holding the mutex of the waiters *)
(* can not fall between a waiter's predicate and its wait; one that it     *)
(* sends without the mutex can, and the predicates that are exposed to     *)
(* this are evaluated one load at a time.                                  *)
(*                                                                         *)
(* Records are written in the order of their places, so the records that   *)
(* reached the file are those below written.                               *)
(***************************************************************************)
EXTENDS Integers, Sequences, FiniteSets

CONSTANTS
    Capacity,      \* max_queue_size
    Loggers,       \* threads that call log; a thread may be of several kinds
    Flushers,      \* threads that call flush
    Stoppers,      \* threads that call stop
    Batch,         \* records that fit in active_buffer_ (batch_buffer_size)
    Setups         \* cases: records with the overflow policy, whether formatting,
                   \* writing or rotating may throw, and a bound of each thread's
                   \* calls of log and flush

ASSUME CapacityAssumption == Capacity \in Nat /\ Capacity >= 2
ASSUME BatchAssumption == Batch \in Nat \ {0}

Threads == Loggers \cup Flushers \cup Stoppers

ASSUME LoggersAssumption == IsFiniteSet(Loggers)

ASSUME SetupsAssumption ==
    \A s \in Setups : /\ s.policy \in {"Block", "DropNewest"} /\ s.mayFail \in BOOLEAN
                      /\ s.calls \in [Threads -> Nat]

VARIABLES
    claimed, unpublished, taken,    \* the queue
    dequeued,       \* MpscRingBuffer::dequeue_position_, which full() reads
    state,          \* state_
    pending,        \* pending_count_
    active,         \* active_producers_
    accepted,       \* accepted_count_
    buffered,       \* active_record_count_: records in active_buffer_
    written,        \* written_count_
    lastFlushed,    \* last_flushed_count_
    flushTarget,    \* flush_target_count_
    flushRequested, \* flush_requested_
    setup,          \* the case, config_.overflow_policy among it
    due,            \* the worker's wait ended at next_periodic_flush
    spaceOwner,     \* the producer that holds space_mutex_
    pc,             \* where each thread is
    seen,           \* a number each thread has loaded and will use
    place,          \* the place in the queue each thread claimed last
    wpc,            \* where the worker is
    drained,        \* the worker's stopping_and_drained
    consumed,       \* the worker's local variable of that name
    hasError,       \* has_error_
    calls           \* calls of log and flush each thread has made

queueVars   == <<claimed, unpublished, taken, dequeued>>
counterVars == <<pending, active, accepted>>
flushVars   == <<lastFlushed, flushTarget, flushRequested>>
workerVars  == <<buffered, written, wpc, drained, consumed, due>>
threadVars  == <<pc, seen, place, spaceOwner>>
vars == <<queueVars, counterVars, flushVars, workerVars, threadVars, calls,
          state, setup, hasError>>

Nobody == "nobody"
NoPlace == -1
Queue == INSTANCE MpscQueue

\* After start().
Init == /\ Queue!QueueInit /\ dequeued = 0
        /\ pending = 0 /\ active = 0 /\ accepted = 0
        /\ lastFlushed = 0 /\ flushTarget = 0 /\ flushRequested = FALSE
        /\ buffered = 0 /\ written = 0 /\ wpc = "drain"
        /\ drained = FALSE /\ consumed = FALSE /\ due = FALSE
        /\ pc = [t \in Threads |-> "idle"]
        /\ seen = [t \in Threads |-> 0]
        /\ place = [t \in Threads |-> NoPlace]
        /\ spaceOwner = Nobody
        /\ calls = [t \in Threads |-> 0]
        /\ state = "Running" /\ hasError = FALSE
        /\ setup \in Setups

Goto(t, step) == pc' = [pc EXCEPT ![t] = step]
See(t, n) == seen' = [seen EXCEPT ![t] = n]

\* data_cv_.notify_one() under wake_mutex_: only the worker waits there.
Woken == IF wpc = "asleep" THEN "recheck" ELSE wpc
WakeWorker == /\ wpc' = Woken
              /\ UNCHANGED <<buffered, written, drained, consumed, due>>

\* notify_all on a condition variable: everyone in its wait set.
AwakenAll(from, to) == pc' = [t \in Threads |-> IF pc[t] = from THEN to ELSE pc[t]]

-----------------------------------------------------------------------------
(***************************************************************************)
(* log.                                                                    *)
(***************************************************************************)

\* The level passes, the state is Running, and the call is counted in.
Log(t) ==
    /\ t \in Loggers /\ pc[t] = "idle" /\ calls[t] < setup.calls[t]
    /\ state = "Running"
    /\ calls' = [calls EXCEPT ![t] = @ + 1]
    /\ active' = active + 1
    /\ Goto(t, "check")
    /\ UNCHANGED <<queueVars, flushVars, workerVars, seen, place, spaceOwner,
                   pending, accepted, state, setup, hasError>>

\* The state is looked at again now that the call is counted.
CheckState(t) ==
    /\ pc[t] = "check"
    /\ Goto(t, IF state = "Running" THEN "pend" ELSE "refused")
    /\ UNCHANGED <<queueVars, counterVars, flushVars, workerVars, seen, place, spaceOwner,
                   calls, state, setup, hasError>>

\* pending_count_.fetch_add; whether it was 0 decides on the notification.
AddPending(t) ==
    /\ pc[t] = "pend"
    /\ pending' = pending + 1
    /\ See(t, IF pending = 0 THEN 0 ELSE 1)
    /\ Goto(t, "enqueue")
    /\ UNCHANGED <<queueVars, flushVars, workerVars, place, spaceOwner, calls,
                   active, accepted, state, setup, hasError>>

\* try_enqueue: the claim, or nothing when the queue is full.
Enqueue(t) ==
    /\ pc[t] = "enqueue"
    /\ \/ /\ Queue!Claim
          /\ place' = [place EXCEPT ![t] = claimed]
          /\ Goto(t, "publish")
       \/ /\ ~Queue!HasRoom
          /\ Goto(t, "unpend")
          /\ UNCHANGED <<claimed, unpublished, taken, place>>
    /\ UNCHANGED <<dequeued, counterVars, flushVars, workerVars, seen, spaceOwner,
                   calls, state, setup, hasError>>

Publish(t) ==
    /\ pc[t] = "publish"
    /\ Queue!Publish(place[t])
    /\ Goto(t, "accept")
    /\ UNCHANGED <<dequeued, counterVars, flushVars, workerVars, seen, place, spaceOwner,
                   calls, state, setup, hasError>>

Accept(t) ==
    /\ pc[t] = "accept"
    /\ accepted' = accepted + 1
    /\ Goto(t, "accepted")
    /\ UNCHANGED <<queueVars, flushVars, workerVars, seen, place, spaceOwner, calls,
                   pending, active, state, setup, hasError>>

\* Defect: the failed attempt is not taken back from pending_count_.
DropPendingKept(t) ==
    /\ pc[t] = "unpend"
    /\ Goto(t, IF setup.policy = "DropNewest" THEN "refused" ELSE "block")
    /\ UNCHANGED <<queueVars, flushVars, workerVars, seen, place, spaceOwner, calls,
                   pending, active, accepted, state, setup, hasError>>

\* The queue was full: the attempt is taken back, and the call gives up or
\* goes to wait for space.
DropPending(t) ==
    /\ pc[t] = "unpend"
    /\ pending' = pending - 1
    /\ Goto(t, IF setup.policy = "DropNewest" THEN "refused" ELSE "block")
    /\ UNCHANGED <<queueVars, flushVars, workerVars, seen, place, spaceOwner, calls,
                   active, accepted, state, setup, hasError>>

\* Defect: finish_producer is forgotten when log() gives up.
FinishUncounted(t) ==
    /\ pc[t] \in {"accepted", "refused"}
    /\ active' = IF pc[t] = "accepted" THEN active - 1 ELSE active
    /\ Goto(t, IF pc[t] = "accepted" THEN "notify" ELSE "notifyRefused")
    /\ UNCHANGED <<queueVars, flushVars, workerVars, seen, place, spaceOwner, calls,
                   pending, accepted, state, setup, hasError>>

\* finish_producer: the call is counted out.
FinishProducer(t) ==
    /\ pc[t] \in {"accepted", "refused"}
    /\ active' = active - 1
    /\ Goto(t, IF pc[t] = "accepted" THEN "notify" ELSE "notifyRefused")
    /\ UNCHANGED <<queueVars, flushVars, workerVars, seen, place, spaceOwner, calls,
                   pending, accepted, state, setup, hasError>>

\* The worker is notified by finish_producer when the logger is stopping, and
\* by log when it stored into an empty queue. Then log returns.
Return(t) ==
    /\ pc[t] \in {"notify", "notifyRefused"}
    /\ IF state # "Running" \/ (pc[t] = "notify" /\ seen[t] = 0)
         THEN WakeWorker
         ELSE UNCHANGED workerVars
    /\ See(t, 0)
    /\ place' = IF t \in Flushers THEN place ELSE [place EXCEPT ![t] = NoPlace]
    /\ Goto(t, "idle")
    /\ UNCHANGED <<queueVars, counterVars, flushVars, spaceOwner, calls,
                   state, setup, hasError>>

-----------------------------------------------------------------------------
(***************************************************************************)
(* The wait for space: its predicate is evaluated with space_mutex_ held,  *)
(* in three loads, and so is the check of the state after it.              *)
(***************************************************************************)
Block(t) ==
    /\ pc[t] \in {"block", "wokenForSpace"}
    /\ spaceOwner = Nobody
    /\ IF state # "Running"
         THEN Goto(t, "refused") /\ UNCHANGED spaceOwner
         ELSE Goto(t, "loadProduced") /\ spaceOwner' = t
    /\ UNCHANGED <<queueVars, counterVars, flushVars, workerVars, seen, place, calls,
                   state, setup, hasError>>

LoadProduced(t) ==
    /\ pc[t] = "loadProduced"
    /\ See(t, claimed)
    /\ Goto(t, "loadConsumed")
    /\ UNCHANGED <<queueVars, counterVars, flushVars, workerVars, place, spaceOwner,
                   calls, state, setup, hasError>>

\* full(): the positions were loaded one after the other, and the unsigned
\* difference is huge when the consumer got ahead of the first load.
FullSeen(t) == seen[t] - dequeued >= Capacity \/ seen[t] < dequeued

\* The thread sleeps with the mutex released in the same step, or tries the
\* queue again, or gives up.
EvaluateSpace(t) ==
    /\ pc[t] = "loadConsumed"
    /\ Goto(t, IF FullSeen(t) THEN "asleepForSpace"
               ELSE IF state = "Running" THEN "pend" ELSE "refused")
    /\ spaceOwner' = Nobody
    /\ See(t, 0)
    /\ UNCHANGED <<queueVars, counterVars, flushVars, workerVars, place, calls,
                   state, setup, hasError>>

-----------------------------------------------------------------------------
(***************************************************************************)
(* flush.                                                                  *)
(***************************************************************************)

\* The state is Running or Stopping, and the target is what was accepted.
Flush(t) ==
    /\ t \in Flushers /\ pc[t] = "idle" /\ calls[t] < setup.calls[t]
    /\ state \in {"Running", "Stopping"}
    /\ calls' = [calls EXCEPT ![t] = @ + 1]
    /\ See(t, accepted)
    /\ Goto(t, "raiseTarget")
    /\ UNCHANGED <<queueVars, counterVars, flushVars, workerVars, place, spaceOwner,
                   state, setup, hasError>>

\* update_max.
RaiseTarget(t) ==
    /\ pc[t] = "raiseTarget"
    /\ flushTarget' = IF flushTarget < seen[t] THEN seen[t] ELSE flushTarget
    /\ Goto(t, "request")
    /\ UNCHANGED <<queueVars, counterVars, lastFlushed, flushRequested, workerVars, seen,
                   place, spaceOwner, calls, state, setup, hasError>>

RequestFlush(t) ==
    /\ pc[t] = "request"
    /\ flushRequested' = TRUE
    /\ Goto(t, "wakeWorker")
    /\ UNCHANGED <<queueVars, counterVars, lastFlushed, flushTarget, workerVars, seen,
                   place, spaceOwner, calls, state, setup, hasError>>

NotifyFlush(t) ==
    /\ pc[t] = "wakeWorker"
    /\ WakeWorker
    /\ Goto(t, "evaluateFlush")
    /\ UNCHANGED <<queueVars, counterVars, flushVars, seen, place, spaceOwner, calls,
                   state, setup, hasError>>

\* The predicate, under flush_mutex_, which no notifier takes.
EvaluateFlush(t) ==
    /\ pc[t] = "evaluateFlush"
    /\ Goto(t, IF lastFlushed >= seen[t] \/ state \in {"Failed", "Stopped"}
                 THEN "flushed" ELSE "aboutToSleep")
    /\ UNCHANGED <<queueVars, counterVars, flushVars, workerVars, seen, place, spaceOwner,
                   calls, state, setup, hasError>>

SleepForFlush(t) ==
    /\ pc[t] = "aboutToSleep"
    /\ Goto(t, "asleepForFlush")
    /\ UNCHANGED <<queueVars, counterVars, flushVars, workerVars, seen, place, spaceOwner,
                   calls, state, setup, hasError>>

ReturnFromFlush(t) ==
    /\ pc[t] = "flushed"
    /\ See(t, 0)
    /\ Goto(t, "idle")
    /\ UNCHANGED <<queueVars, counterVars, flushVars, workerVars, place, spaceOwner,
                   calls, state, setup, hasError>>

-----------------------------------------------------------------------------
(***************************************************************************)
(* stop. lifecycle_mutex_ lets one thread in; a later call finds Stopped   *)
(* or, after a failure, repeats the notifications.                         *)
(***************************************************************************)
StopPCs == {"setStopping", "stopWake", "stopSpace", "stopFlush", "join", "stopped"}

Stop(t) ==
    /\ t \in Stoppers /\ pc[t] = "idle"
    /\ state \in {"Running", "Failed"}
    /\ \A u \in Stoppers : pc[u] \notin StopPCs
    /\ Goto(t, IF state = "Running" THEN "setStopping" ELSE "stopWake")
    /\ UNCHANGED <<queueVars, counterVars, flushVars, workerVars, seen, place, spaceOwner,
                   calls, state, setup, hasError>>

\* Stored over whatever the worker made of the state meanwhile.
SetStopping(t) ==
    /\ pc[t] = "setStopping"
    /\ state' = "Stopping"
    /\ Goto(t, "stopWake")
    /\ UNCHANGED <<queueVars, counterVars, flushVars, workerVars, seen, place, spaceOwner,
                   calls, setup, hasError>>

StopWake(t) ==
    /\ pc[t] = "stopWake"
    /\ WakeWorker
    /\ Goto(t, "stopSpace")
    /\ UNCHANGED <<queueVars, counterVars, flushVars, seen, place, spaceOwner, calls,
                   state, setup, hasError>>

\* The two notify_alls, without the waiters' mutexes.
StopSpace(t) ==
    /\ pc[t] = "stopSpace"
    /\ pc' = [u \in Threads |-> IF u = t THEN "stopFlush"
                                ELSE IF pc[u] = "asleepForSpace" THEN "wokenForSpace"
                                ELSE pc[u]]
    /\ UNCHANGED <<queueVars, counterVars, flushVars, workerVars, seen, place, spaceOwner,
                   calls, state, setup, hasError>>

StopFlush(t) ==
    /\ pc[t] = "stopFlush"
    /\ pc' = [u \in Threads |-> IF u = t THEN "join"
                                ELSE IF pc[u] = "asleepForFlush" THEN "evaluateFlush"
                                ELSE pc[u]]
    /\ UNCHANGED <<queueVars, counterVars, flushVars, workerVars, seen, place, spaceOwner,
                   calls, state, setup, hasError>>

Join(t) ==
    /\ pc[t] = "join"
    /\ wpc = "exited"
    /\ state' = IF state = "Failed" THEN state ELSE "Stopped"
    /\ Goto(t, "stopped")
    /\ UNCHANGED <<queueVars, counterVars, flushVars, workerVars, seen, place, spaceOwner,
                   calls, setup, hasError>>

StopLast(t) ==
    /\ pc[t] = "stopped"
    /\ pc' = [u \in Threads |-> IF u = t THEN "idle"
                                ELSE IF pc[u] = "asleepForFlush" THEN "evaluateFlush"
                                ELSE pc[u]]
    /\ UNCHANGED <<queueVars, counterVars, flushVars, workerVars, seen, place, spaceOwner,
                   calls, state, setup, hasError>>

-----------------------------------------------------------------------------
(***************************************************************************)
(* The worker.                                                             *)
(***************************************************************************)
WGoto(step) == wpc' = step

\* try_dequeue at the head of the loop: a record, or on to the decisions.
Drain ==
    /\ wpc = "drain"
    /\ \/ Queue!Take /\ WGoto("advance")
       \/ /\ ~Queue!HeadReady
          /\ WGoto("loadState")
          /\ UNCHANGED <<claimed, unpublished, taken>>
    /\ UNCHANGED <<dequeued, counterVars, flushVars, buffered, written, drained, consumed,
                   due, threadVars, calls, state, setup, hasError>>

\* dequeue_position_ is stored and the record no longer pending.
AdvanceDequeue ==
    /\ wpc = "advance"
    /\ dequeued' = dequeued + 1
    /\ pending' = pending - 1
    /\ WGoto("space")
    /\ UNCHANGED <<claimed, unpublished, taken, active, accepted, flushVars, buffered,
                   written, drained, consumed, due, threadVars, calls,
                   state, setup, hasError>>

\* One of the producers asleep for space, or none.
OneAsleepForSpace == LET S == {t \in Threads : pc[t] = "asleepForSpace"}
                     IN  IF S = {} THEN {{}} ELSE {{t} : t \in S}

\* Defect: nobody is notified.
NotifySpaceForgotten ==
    /\ wpc = "space" /\ spaceOwner = Nobody
    /\ WGoto("append")
    /\ UNCHANGED <<queueVars, counterVars, flushVars, buffered, written, drained, consumed,
                   due, threadVars, calls, state, setup, hasError>>

\* space_cv_.notify_one() under space_mutex_.
NotifySpace ==
    /\ wpc = "space" /\ spaceOwner = Nobody
    /\ \E W \in OneAsleepForSpace :
          pc' = [t \in Threads |-> IF t \in W THEN "wokenForSpace" ELSE pc[t]]
    /\ WGoto("append")
    /\ UNCHANGED <<queueVars, counterVars, flushVars, buffered, written, drained, consumed,
                   due, seen, place, spaceOwner, calls, state, setup, hasError>>

\* append_record: the batch is written first when the record does not fit or
\* rotate_if_needed starts a new file, which depends on lengths.
AppendRecord ==
    /\ wpc = "append"
    /\ \/ buffered < Batch /\ buffered' = buffered + 1 /\ UNCHANGED written
       \/ written' = written + buffered /\ buffered' = 1
    /\ consumed' = TRUE
    /\ WGoto("drain")
    /\ UNCHANGED <<queueVars, counterVars, flushVars, drained, due, threadVars, calls,
                   state, setup, hasError>>

\* stopping_and_drained, one load after the other.
LoadState ==
    /\ wpc = "loadState"
    /\ drained' = FALSE
    /\ WGoto(IF state = "Stopping" THEN "loadPending" ELSE "decide")
    /\ UNCHANGED <<queueVars, counterVars, flushVars, buffered, written, consumed, due,
                   threadVars, calls, state, setup, hasError>>

LoadPending ==
    /\ wpc = "loadPending"
    /\ WGoto(IF pending = 0 THEN "loadActive" ELSE "decide")
    /\ UNCHANGED <<queueVars, counterVars, flushVars, buffered, written, drained, consumed,
                   due, threadVars, calls, state, setup, hasError>>

LoadActive ==
    /\ wpc = "loadActive"
    /\ drained' = (active = 0)
    /\ WGoto("decide")
    /\ UNCHANGED <<queueVars, counterVars, flushVars, buffered, written, consumed, due,
                   threadVars, calls, state, setup, hasError>>

\* flush_due: when the wait timed out the period is over, and otherwise it
\* may be.
FlushDue == flushRequested \/ due \/ drained

NoFlush ==
    /\ wpc = "decide"
    /\ ~FlushDue
    /\ WGoto("again")
    /\ UNCHANGED <<queueVars, counterVars, flushVars, buffered, written, drained, consumed,
                   due, threadVars, calls, state, setup, hasError>>

\* Defect: what was flushed is not counted.
WriteBatchUncounted ==
    /\ wpc = "decide"
    /\ written' = written + buffered
    /\ buffered' = 0
    /\ WGoto(IF written + buffered >= flushTarget THEN "clear" ELSE "tell")
    /\ UNCHANGED <<queueVars, counterVars, flushVars, drained, consumed, due,
                   threadVars, calls, state, setup, hasError>>

\* write_active_buffer and flush_output, the count of what they flushed, and
\* the comparison with the target.
WriteBatch ==
    /\ wpc = "decide"
    /\ written' = written + buffered
    /\ lastFlushed' = written + buffered
    /\ buffered' = 0
    /\ WGoto(IF written + buffered >= flushTarget THEN "clear" ELSE "tell")
    /\ UNCHANGED <<queueVars, counterVars, flushTarget, flushRequested, drained, consumed,
                   due, threadVars, calls, state, setup, hasError>>

ClearRequest ==
    /\ wpc = "clear"
    /\ flushRequested' = FALSE
    /\ WGoto("tell")
    /\ UNCHANGED <<queueVars, counterVars, lastFlushed, flushTarget, buffered, written,
                   drained, consumed, due, threadVars, calls, state, setup, hasError>>

\* flush_cv_.notify_all(), and the next periodic flush is set.
TellFlushers ==
    /\ wpc = "tell"
    /\ AwakenAll("asleepForFlush", "evaluateFlush")
    /\ due' = FALSE
    /\ WGoto("again")
    /\ UNCHANGED <<queueVars, counterVars, flushVars, buffered, written, drained, consumed,
                   seen, place, spaceOwner, calls, state, setup, hasError>>

\* The end of an iteration: exit, loop, or evaluate the predicate of
\* data_cv_ and sleep, all under wake_mutex_.
MustWork == pending # 0 \/ flushRequested \/ state # "Running"

Again ==
    /\ wpc = "again"
    /\ WGoto(IF drained THEN "exited"
             ELSE IF consumed \/ MustWork THEN "drain" ELSE "asleep")
    /\ consumed' = FALSE
    /\ drained' = FALSE
    /\ UNCHANGED <<queueVars, counterVars, flushVars, buffered, written, due, threadVars,
                   calls, state, setup, hasError>>

\* A notified or spuriously woken worker evaluates the predicate again.
Recheck ==
    /\ wpc = "recheck"
    /\ WGoto(IF MustWork THEN "drain" ELSE "asleep")
    /\ UNCHANGED <<queueVars, counterVars, flushVars, buffered, written, drained, consumed,
                   due, threadVars, calls, state, setup, hasError>>

\* wait_until reaches next_periodic_flush.
TimedOut ==
    /\ wpc = "asleep"
    /\ due' = TRUE
    /\ WGoto("drain")
    /\ UNCHANGED <<queueVars, counterVars, flushVars, buffered, written, drained, consumed,
                   threadVars, calls, state, setup, hasError>>

\* Formatting, writing, flushing or rotating throws: worker_entry catches it
\* and fail_worker stores the state.
Fail ==
    /\ setup.mayFail /\ wpc \in {"append", "decide"}
    /\ hasError' = TRUE
    /\ state' = "Failed"
    /\ WGoto("failSpace")
    /\ UNCHANGED <<queueVars, counterVars, flushVars, buffered, written, drained, consumed,
                   due, threadVars, calls, setup>>

\* Its notify_alls, without the waiters' mutexes.
FailSpace ==
    /\ wpc = "failSpace"
    /\ AwakenAll("asleepForSpace", "wokenForSpace")
    /\ WGoto("failFlush")
    /\ UNCHANGED <<queueVars, counterVars, flushVars, buffered, written, drained, consumed,
                   due, seen, place, spaceOwner, calls, state, setup, hasError>>

FailFlush ==
    /\ wpc = "failFlush"
    /\ AwakenAll("asleepForFlush", "evaluateFlush")
    /\ WGoto("exited")
    /\ UNCHANGED <<queueVars, counterVars, flushVars, buffered, written, drained, consumed,
                   due, seen, place, spaceOwner, calls, state, setup, hasError>>

\* A condition variable may wake a waiter nobody notified.
SpuriousWakeup ==
    /\ \/ /\ wpc = "asleep" /\ WGoto("recheck") /\ UNCHANGED pc
       \/ /\ \E t \in Threads :
                \/ pc[t] = "asleepForSpace" /\ Goto(t, "wokenForSpace")
                \/ pc[t] = "asleepForFlush" /\ Goto(t, "evaluateFlush")
          /\ UNCHANGED wpc
    /\ UNCHANGED <<queueVars, counterVars, flushVars, buffered, written, drained, consumed,
                   due, seen, place, spaceOwner, calls, state, setup, hasError>>

-----------------------------------------------------------------------------
LogStep(t) == \/ Log(t) \/ CheckState(t) \/ AddPending(t) \/ Enqueue(t) \/ Publish(t)
              \/ Accept(t) \/ DropPending(t) \/ FinishProducer(t) \/ Return(t)
              \/ Block(t) \/ LoadProduced(t) \/ EvaluateSpace(t)
FlushStep(t) == \/ Flush(t) \/ RaiseTarget(t) \/ RequestFlush(t) \/ NotifyFlush(t)
                \/ EvaluateFlush(t) \/ SleepForFlush(t) \/ ReturnFromFlush(t)
StopStep(t) == \/ Stop(t) \/ SetStopping(t) \/ StopWake(t) \/ StopSpace(t)
               \/ StopFlush(t) \/ Join(t) \/ StopLast(t)
WorkerStep == \/ Drain \/ AdvanceDequeue \/ NotifySpace \/ AppendRecord
              \/ LoadState \/ LoadPending \/ LoadActive \/ NoFlush \/ WriteBatch
              \/ ClearRequest \/ TellFlushers
              \/ Again \/ Recheck \/ TimedOut
              \/ FailSpace \/ FailFlush

Next == \/ \E t \in Threads : LogStep(t) \/ FlushStep(t) \/ StopStep(t)
        \/ WorkerStep \/ Fail \/ SpuriousWakeup

Spec == Init /\ [][Next]_vars

\* Whoever is in a call goes on, the worker goes on and its timed wait ends;
\* nobody has to call. The deadline of that wait is absolute, spurious wakeups
\* do not put it off. space_mutex_ is let go of again and again, so a thread
\* that wants it gets it.
Fairness ==
    /\ WF_vars(WorkerStep) /\ SF_vars(NotifySpace) /\ SF_vars(TimedOut)
    /\ \A t \in Threads :
          /\ WF_vars(pc[t] # "idle" /\ (LogStep(t) \/ FlushStep(t) \/ StopStep(t)))
          /\ SF_vars(Block(t))

FairSpec == Spec /\ Fairness

-----------------------------------------------------------------------------
(***************************************************************************)
(* Properties.                                                             *)
(***************************************************************************)

\* Every variable has its type; the unsigned counters never wrap below zero.
TypeOK ==
    /\ claimed \in Nat /\ unpublished \subseteq 0 .. claimed - 1 /\ taken \in Seq(Nat)
    /\ dequeued \in 0 .. claimed
    /\ state \in {"Running", "Stopping", "Stopped", "Failed"}
    /\ pending \in Nat /\ active \in Nat /\ accepted \in Nat
    /\ buffered \in Nat /\ written \in Nat
    /\ lastFlushed \in Nat /\ flushTarget \in Nat /\ flushRequested \in BOOLEAN
    /\ setup \in Setups /\ due \in BOOLEAN
    /\ spaceOwner \in Threads \cup {Nobody}
    /\ pc \in [Threads -> {"idle", "check", "pend", "enqueue", "publish", "accept", "unpend",
                            "accepted", "refused", "notify", "notifyRefused",
                            "block", "wokenForSpace", "loadProduced", "loadConsumed",
                            "asleepForSpace",
                            "raiseTarget", "request", "wakeWorker", "evaluateFlush",
                            "aboutToSleep", "asleepForFlush",
                            "flushed"} \cup StopPCs]
    /\ seen \in [Threads -> Nat] /\ place \in [Threads -> Nat \cup {NoPlace}]
    /\ wpc \in {"drain", "advance", "space", "append", "loadState", "loadPending",
                 "loadActive", "decide", "clear", "tell", "again",
                 "asleep", "recheck", "failSpace", "failFlush", "exited"}
    /\ drained \in BOOLEAN /\ consumed \in BOOLEAN /\ hasError \in BOOLEAN
    /\ calls \in [Threads -> Nat]

\* Threads at one of these places of log().
At(steps) == {t \in Loggers : pc[t] \in steps}

\* Places from which log() may still store a record.
Producing == {"check", "pend", "enqueue", "publish", "accept", "unpend",
              "accepted", "refused", "block", "wokenForSpace",
              "loadProduced", "loadConsumed", "asleepForSpace"}

\* The two counters the worker's exit rests on say what they are for:
\* pending_count_ the records not yet dequeued and the attempts under way,
\* active_producers_ the calls that may still store a record.
CountersExact ==
    /\ TypeOK
    /\ pending = claimed - dequeued + Cardinality(At({"enqueue", "unpend"}))
    /\ active = Cardinality(At(Producing))

\* A call of log() returns while the worker has not failed, also when it has
\* to wait for space and when the logger is being stopped: as the calls are
\* bounded, again and again no thread is in one.
LogReturns == []<>(At(Producing) = {} \/ hasError)

\* Places of flush().
FlushPCs == {"raiseTarget", "request", "wakeWorker", "evaluateFlush",
             "aboutToSleep", "asleepForFlush", "flushed"}

\* A call of flush() returns as long as nobody stops the logger and the worker
\* has not failed: what it waits for is written and counted, and it is woken
\* after that although notifications may fall between its predicate and its
\* wait, since the next periodic flush repeats them. No place of flush() counts
\* as returned, so a thread that is woken and sleeps again for ever has not. As
\* the calls are bounded, again and again no thread is in one.
FlushReturns ==
    []<>((\A t \in Flushers : pc[t] \notin FlushPCs) \/ state # "Running")

\* stop() returns: the worker notices, finishes and is joined.
StopReturns == []<>(\A t \in Stoppers : pc[t] \notin StopPCs)

\* After a normal stop every accepted record was written.
AcceptedIsWritten ==
    state = "Stopped" /\ ~hasError /\ At(Producing) = {} => accepted = written
=============================================================================

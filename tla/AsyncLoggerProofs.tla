------------------------- MODULE AsyncLoggerProofs -------------------------
(***************************************************************************)
(* Theorems about AsyncLogger, for any capacity, any finite number of      *)
(* logging threads, any threads that flush and stop, any case.             *)
(***************************************************************************)
EXTENDS AsyncLogger, FiniteSetTheorems, SequenceTheorems, TLAPS

\* The places of log(), of a call of any outcome.
InLog == Producing \cup {"notify", "notifyRefused"}

\* Attempts to store that pending_count_ counts and the queue does not yet,
\* or not any more.
Attempts == {"enqueue", "unpend"}

\* Only threads that log are in log().
LoggersLog == \A t \in Threads : pc[t] \in InLog => t \in Loggers

\* The worker stores dequeue_position_ one step after it took the record, and
\* takes none that was not claimed.
Positions == /\ Len(taken) <= claimed
             /\ wpc = "advance" => dequeued + 1 = Len(taken)
             /\ wpc # "advance" => dequeued = Len(taken)

\* The counters count.
Counts == /\ pending = claimed - dequeued + Cardinality(At(Attempts))
          /\ active = Cardinality(At(Producing))

LoggerInv == TypeOK /\ LoggersLog /\ Positions /\ Counts

-----------------------------------------------------------------------------
(***************************************************************************)
(* Counting the threads at some places.                                    *)
(***************************************************************************)

\* The threads at some places are finitely many.
LEMMA CountingCalls ==
    ASSUME NEW S
    PROVE  IsFiniteSet(At(S)) /\ Cardinality(At(S)) \in Nat
<1>1. At(S) \subseteq Loggers
      BY DEF At
<1>. QED BY <1>1, LoggersAssumption, FS_Subset, FS_CardinalityType

\* Nobody comes and nobody goes.
LEMMA NobodyMoves ==
    ASSUME NEW S, \A t \in Loggers : pc'[t] \in S <=> pc[t] \in S
    PROVE  Cardinality(At(S))' = Cardinality(At(S))
<1>1. At(S)' = At(S)
      BY DEF At
<1>. QED BY <1>1

\* One thread comes.
LEMMA OneComes ==
    ASSUME NEW S, NEW t \in Loggers, pc[t] \notin S, pc'[t] \in S,
           \A u \in Loggers \ {t} : pc'[u] = pc[u]
    PROVE  Cardinality(At(S))' = Cardinality(At(S)) + 1
<1>1. At(S)' = At(S) \cup {t} /\ t \notin At(S)
      BY DEF At
<1>. QED BY <1>1, CountingCalls, FS_AddElement

\* One thread goes.
LEMMA OneGoes ==
    ASSUME NEW S, NEW t \in Loggers, pc[t] \in S, pc'[t] \notin S,
           \A u \in Loggers \ {t} : pc'[u] = pc[u]
    PROVE  /\ Cardinality(At(S))' = Cardinality(At(S)) - 1
           /\ Cardinality(At(S)) - 1 \in Nat
<1>1. At(S)' = At(S) \ {t} /\ t \in At(S)
      BY DEF At
<1>2. Cardinality(At(S)') = Cardinality(At(S)) - 1
      BY <1>1, CountingCalls, FS_RemoveElement
<1>3. IsFiniteSet(At(S)') /\ Cardinality(At(S)') \in Nat
  <2>1. IsFiniteSet(At(S)')
        BY <1>1, CountingCalls, FS_RemoveElement
  <2>. QED BY <2>1, FS_CardinalityType
<1>. QED BY <1>2, <1>3

-----------------------------------------------------------------------------
(***************************************************************************)
(* Types.                                                                  *)
(***************************************************************************)

\* Places of threads, and of the worker.
Places == {"idle", "check", "pend", "enqueue", "publish", "accept", "unpend",
           "accepted", "refused", "notify", "notifyRefused",
           "block", "wokenForSpace", "loadProduced", "loadConsumed",
           "asleepForSpace",
           "raiseTarget", "request", "wakeWorker", "evaluateFlush",
           "aboutToSleep", "asleepForFlush",
           "flushed"} \cup StopPCs

\* The types of what threads and worker do not count with.
ControlTypes ==
    /\ state \in {"Running", "Stopping", "Stopped", "Failed"}
    /\ setup \in Setups /\ due \in BOOLEAN /\ flushRequested \in BOOLEAN
    /\ spaceOwner \in Threads \cup {Nobody}
    /\ pc \in [Threads -> Places]
    /\ wpc \in {"drain", "advance", "space", "append", "loadState", "loadPending",
                 "loadActive", "decide", "clear", "tell", "again",
                 "asleep", "recheck", "failSpace", "failFlush", "exited"}
    /\ drained \in BOOLEAN /\ consumed \in BOOLEAN /\ hasError \in BOOLEAN

\* The types of the queue, and of the numbers but for the two counters.
QueueTypes == /\ claimed \in Nat /\ unpublished \subseteq 0 .. claimed - 1 /\ taken \in Seq(Nat)
              /\ dequeued \in 0 .. claimed

NumberTypes ==
    /\ accepted \in Nat /\ buffered \in Nat /\ written \in Nat
    /\ lastFlushed \in Nat /\ flushTarget \in Nat
    /\ seen \in [Threads -> Nat] /\ place \in [Threads -> Nat \cup {NoPlace}]
    /\ calls \in [Threads -> Nat]

\* Together they are the type invariant.
LEMMA TypeParts ==
    /\ TypeOK <=> ControlTypes /\ QueueTypes /\ NumberTypes /\ pending \in Nat /\ active \in Nat
    /\ TypeOK' <=> (ControlTypes /\ QueueTypes /\ NumberTypes /\ pending \in Nat /\ active \in Nat)'
BY DEF TypeOK, ControlTypes, QueueTypes, NumberTypes, Places

\* A thread's step in log(), flush() or stop() keeps the types of control.
LEMMA ThreadControl ==
    ASSUME ControlTypes, NEW t \in Threads, LogStep(t) \/ FlushStep(t) \/ StopStep(t)
    PROVE  ControlTypes'
<1>. USE DEF ControlTypes, Goto
<1>w. Woken \in {"drain", "advance", "space", "append", "loadState", "loadPending",
                 "loadActive", "decide", "clear", "tell", "again",
                 "asleep", "recheck", "failSpace", "failFlush", "exited"}
      BY DEF Woken
<1>1. CASE Log(t) \/ CheckState(t) \/ AddPending(t) \/ Enqueue(t) \/ Publish(t) \/ Accept(t)
      BY <1>1 DEF Log, CheckState, AddPending, Enqueue, Publish, Accept, flushVars, workerVars,
                  queueVars, counterVars, Places
<1>2. CASE DropPending(t) \/ FinishProducer(t) \/ Block(t) \/ LoadProduced(t) \/ EvaluateSpace(t)
      BY <1>2 DEF DropPending, FinishProducer, Block, LoadProduced, EvaluateSpace, flushVars,
                  workerVars, Places
<1>3. CASE Return(t)
      BY <1>3, <1>w DEF Return, WakeWorker, flushVars, workerVars, Places
<1>4. CASE Flush(t)
      BY <1>4 DEF Flush, flushVars, workerVars, Places
<1>9. CASE RaiseTarget(t)
      BY <1>9 DEF RaiseTarget, workerVars, Places
<1>10. CASE RequestFlush(t)
      BY <1>10 DEF RequestFlush, workerVars, Places
<1>8. CASE EvaluateFlush(t) \/ SleepForFlush(t) \/ ReturnFromFlush(t)
      BY <1>8 DEF EvaluateFlush, SleepForFlush, ReturnFromFlush, flushVars, workerVars, Places
<1>5. CASE NotifyFlush(t) \/ StopWake(t)
      BY <1>5, <1>w DEF NotifyFlush, StopWake, WakeWorker, flushVars, workerVars, Places, StopPCs
<1>6. CASE Stop(t) \/ SetStopping(t) \/ Join(t)
      BY <1>6 DEF Stop, SetStopping, Join, flushVars, workerVars, Places, StopPCs
<1>7. CASE StopSpace(t) \/ StopFlush(t) \/ StopLast(t)
      BY <1>7 DEF StopSpace, StopFlush, StopLast, flushVars, workerVars, Places, StopPCs
<1>. QED BY <1>1, <1>2, <1>3, <1>4, <1>5, <1>6, <1>7, <1>8, <1>9, <1>10 DEF LogStep, FlushStep, StopStep

\* So does a step of the worker, or a wakeup nobody sent.
LEMMA WorkerControl ==
    ASSUME ControlTypes, WorkerStep \/ Fail \/ SpuriousWakeup
    PROVE  ControlTypes'
<1>. USE DEF ControlTypes, WGoto, threadVars, flushVars
<1>1. CASE Drain \/ AdvanceDequeue \/ AppendRecord
      BY <1>1 DEF Drain, AdvanceDequeue, AppendRecord
<1>2. CASE NotifySpace
      BY <1>2 DEF NotifySpace, OneAsleepForSpace, Places
<1>3. CASE LoadState \/ LoadPending \/ LoadActive \/ NoFlush \/ WriteBatch \/ ClearRequest
      BY <1>3 DEF LoadState, LoadPending, LoadActive, NoFlush, WriteBatch, ClearRequest
<1>4. CASE TellFlushers \/ FailSpace \/ FailFlush
      BY <1>4 DEF TellFlushers, FailSpace, FailFlush, AwakenAll, Places
<1>5. CASE Again \/ Recheck \/ TimedOut \/ Fail
      BY <1>5 DEF Again, Recheck, TimedOut, Fail
<1>6. CASE SpuriousWakeup
      BY <1>6 DEF SpuriousWakeup, Goto, Places
<1>. QED BY <1>1, <1>2, <1>3, <1>4, <1>5, <1>6 DEF WorkerStep

\* The queue and the positions in it.
QueueInv == QueueTypes /\ Positions

\* Most steps leave the queue alone.
LEMMA QueueKept ==
    ASSUME QueueInv, UNCHANGED queueVars, wpc' = "advance" <=> wpc = "advance"
    PROVE  QueueInv'
BY DEF QueueInv, QueueTypes, Positions, queueVars

\* A notification of the worker changes nothing it is in the middle of.
LEMMA WakingWorker == wpc' = Woken => (wpc' = "advance" <=> wpc = "advance")
BY DEF Woken

\* A step of a thread keeps the queue.
LEMMA ThreadQueue ==
    ASSUME QueueInv, NEW t \in Threads, LogStep(t) \/ FlushStep(t) \/ StopStep(t)
    PROVE  QueueInv'
<1>l. Len(taken) \in Nat
      BY LenProperties DEF QueueInv, QueueTypes
<1>1. CASE Enqueue(t)
  <2>1. CASE Queue!Claim
    <3>1. /\ claimed' = claimed + 1 /\ unpublished' = unpublished \cup {claimed}
          /\ UNCHANGED <<taken, dequeued, wpc>>
          BY <1>1, <2>1 DEF Enqueue, Queue!Claim, workerVars
    <3>2. QueueTypes'
          BY <3>1 DEF QueueInv, QueueTypes
    <3>3. Positions'
          BY <3>1, <1>l DEF QueueInv, QueueTypes, Positions
    <3>. QED BY <3>2, <3>3 DEF QueueInv
  <2>2. CASE ~Queue!Claim
        BY <1>1, <2>2, QueueKept DEF Enqueue, queueVars, workerVars
  <2>. QED BY <2>1, <2>2
<1>2. CASE Publish(t)
  <2>1. unpublished' \subseteq unpublished /\ UNCHANGED <<claimed, taken, dequeued, wpc>>
        BY <1>2 DEF Publish, Queue!Publish, workerVars
  <2>. QED BY <2>1 DEF QueueInv, QueueTypes, Positions
<1>3. CASE Return(t) \/ NotifyFlush(t) \/ StopWake(t)
  <2>1. UNCHANGED queueVars /\ (wpc' = Woken \/ wpc' = wpc)
        BY <1>3 DEF Return, NotifyFlush, StopWake, WakeWorker, workerVars
  <2>. QED BY <2>1, WakingWorker, QueueKept
<1>4. CASE /\ LogStep(t) \/ FlushStep(t) \/ StopStep(t)
           /\ ~(Enqueue(t) \/ Publish(t) \/ Return(t) \/ NotifyFlush(t) \/ StopWake(t))
  <2>1. UNCHANGED <<queueVars, wpc>>
    <3>1. CASE LogStep(t)
          BY <1>4, <3>1 DEF LogStep, Log, CheckState, AddPending, Accept, DropPending,
                            FinishProducer, Block, LoadProduced, EvaluateSpace, workerVars
    <3>2. CASE FlushStep(t) \/ StopStep(t)
          BY <1>4, <3>2 DEF FlushStep, Flush, RaiseTarget, RequestFlush, EvaluateFlush, SleepForFlush,
                            ReturnFromFlush, StopStep, Stop, SetStopping, StopSpace, StopFlush, Join,
                            StopLast, workerVars
    <3>. QED BY <1>4, <3>1, <3>2
  <2>. QED BY <2>1, QueueKept
<1>. QED BY <1>1, <1>2, <1>3, <1>4

\* And the types of its numbers.
LEMMA ThreadNumbers ==
    ASSUME QueueInv, NumberTypes, NEW t \in Threads, LogStep(t) \/ FlushStep(t) \/ StopStep(t)
    PROVE  NumberTypes'
<1>c. claimed \in Nat
      BY DEF QueueInv, QueueTypes
<1>. USE DEF NumberTypes, See
<1>1. CASE Log(t) \/ CheckState(t) \/ AddPending(t) \/ Accept(t)
      BY <1>1 DEF Log, CheckState, AddPending, Accept, counterVars, flushVars, workerVars
<1>2. CASE Enqueue(t) \/ Publish(t)
      BY <1>2, <1>c DEF Enqueue, Publish, counterVars, flushVars, workerVars
<1>3. CASE DropPending(t) \/ FinishProducer(t) \/ Block(t)
      BY <1>3 DEF DropPending, FinishProducer, Block, counterVars, flushVars, workerVars
<1>4. CASE LoadProduced(t) \/ EvaluateSpace(t)
      BY <1>4, <1>c DEF LoadProduced, EvaluateSpace, counterVars, flushVars, workerVars
<1>5. CASE Return(t)
      BY <1>5 DEF Return, WakeWorker, counterVars, flushVars, workerVars
<1>6. CASE Flush(t) \/ RequestFlush(t)
      BY <1>6 DEF Flush, RequestFlush, counterVars, flushVars, workerVars
<1>9. CASE RaiseTarget(t)
  <2>1. seen[t] \in Nat
        BY DEF NumberTypes
  <2>2. flushTarget' \in Nat
        BY <1>9, <2>1 DEF RaiseTarget
  <2>. QED BY <1>9, <2>2 DEF RaiseTarget, counterVars, workerVars
<1>7. CASE NotifyFlush(t) \/ EvaluateFlush(t) \/ SleepForFlush(t) \/ ReturnFromFlush(t)
      BY <1>7 DEF NotifyFlush, EvaluateFlush, SleepForFlush, ReturnFromFlush, WakeWorker,
                  counterVars, flushVars, workerVars
<1>8. CASE StopStep(t)
      BY <1>8 DEF StopStep, Stop, SetStopping, StopWake, StopSpace, StopFlush, Join, StopLast,
                  WakeWorker, counterVars, flushVars, workerVars
<1>. QED BY <1>1, <1>2, <1>3, <1>4, <1>5, <1>6, <1>7, <1>8, <1>9 DEF LogStep, FlushStep

\* So does a step of the worker.
LEMMA WorkerQueue ==
    ASSUME QueueInv, WorkerStep \/ Fail \/ SpuriousWakeup
    PROVE  QueueInv'
<1>l. Len(taken) \in Nat
      BY LenProperties DEF QueueInv, QueueTypes
<1>1. CASE Drain
  <2>1. CASE Queue!Take
    <3>1. taken' \in Seq(Nat) /\ Len(taken') = Len(taken) + 1 /\ Len(taken) < claimed
          BY <1>l, <2>1, AppendProperties DEF Queue!Take, Queue!HeadReady, QueueInv, QueueTypes
    <3>2. /\ UNCHANGED <<claimed, unpublished, dequeued>> /\ wpc = "drain"
          /\ wpc' \in {"advance", "loadState"}
          BY <1>1, <2>1 DEF Drain, WGoto, Queue!Take
    <3>3. wpc' = "advance"
          BY <1>1, <2>1 DEF Drain, WGoto, Queue!Take
    <3>. QED BY <1>l, <3>1, <3>2, <3>3 DEF QueueInv, QueueTypes, Positions
  <2>2. CASE ~Queue!Take
        BY <1>1, <2>2, QueueKept DEF Drain, WGoto, queueVars
  <2>. QED BY <2>1, <2>2
<1>2. CASE AdvanceDequeue
  <2>1. /\ dequeued' = dequeued + 1 /\ UNCHANGED <<claimed, unpublished, taken>>
        /\ wpc = "advance" /\ wpc' = "space"
        BY <1>2 DEF AdvanceDequeue, WGoto
  <2>. QED BY <1>l, <2>1 DEF QueueInv, QueueTypes, Positions
<1>3. CASE (WorkerStep \/ Fail \/ SpuriousWakeup) /\ ~(Drain \/ AdvanceDequeue)
  <2>1. /\ UNCHANGED queueVars
        /\ (wpc # "advance" /\ wpc' # "advance") \/ wpc' = wpc
        BY <1>3 DEF WorkerStep, AppendRecord, NotifySpace, LoadState, LoadPending, LoadActive, NoFlush,
                    WriteBatch, ClearRequest, TellFlushers, FailSpace, FailFlush, Again, Recheck,
                    TimedOut, Fail, SpuriousWakeup, WGoto
  <2>. QED BY <2>1, QueueKept
<1>. QED BY <1>1, <1>2, <1>3

\* And the types of its numbers.
LEMMA WorkerNumbers ==
    ASSUME NumberTypes, WorkerStep \/ Fail \/ SpuriousWakeup
    PROVE  NumberTypes'
<1>. USE DEF NumberTypes, threadVars, counterVars, flushVars
<1>1. CASE Drain \/ AdvanceDequeue \/ AppendRecord
      BY <1>1 DEF Drain, AdvanceDequeue, AppendRecord
<1>2. CASE NotifySpace \/ LoadState \/ LoadPending \/ LoadActive \/ NoFlush
      BY <1>2 DEF NotifySpace, LoadState, LoadPending, LoadActive, NoFlush
<1>3. CASE WriteBatch \/ ClearRequest
      BY <1>3 DEF WriteBatch, ClearRequest
<1>4. CASE TellFlushers \/ FailSpace \/ FailFlush
      BY <1>4 DEF TellFlushers, FailSpace, FailFlush
<1>5. CASE Again \/ Recheck \/ TimedOut \/ Fail \/ SpuriousWakeup
      BY <1>5 DEF Again, Recheck, TimedOut, Fail, SpuriousWakeup
<1>. QED BY <1>1, <1>2, <1>3, <1>4, <1>5 DEF WorkerStep

-----------------------------------------------------------------------------
(***************************************************************************)
(* The counters.                                                           *)
(***************************************************************************)
\* The counters are numbers: none of them is below zero.
LEMMA CountsAreNumbers ==
    ASSUME QueueTypes, Counts
    PROVE  pending \in Nat /\ active \in Nat
<1>1. claimed - dequeued \in Nat
      BY DEF QueueTypes
<1>. QED BY <1>1, CountingCalls DEF Counts

\* A step in which nobody comes to or goes from the places that count.
LEMMA CountsKept ==
    ASSUME Counts, UNCHANGED <<pending, active, claimed, dequeued>>,
           \A t \in Loggers : /\ pc'[t] \in Attempts <=> pc[t] \in Attempts
                              /\ pc'[t] \in Producing <=> pc[t] \in Producing
    PROVE  Counts'
<1>1. /\ Cardinality(At(Attempts))' = Cardinality(At(Attempts))
      /\ Cardinality(At(Producing))' = Cardinality(At(Producing))
      BY NobodyMoves
<1>. QED BY <1>1 DEF Counts

\* What a thread's steps do to the counters: each comes to and goes from the
\* places that count as it adds and subtracts.
LEMMA LogCounts ==
    ASSUME ControlTypes, QueueTypes, Counts, LoggersLog, NEW t \in Threads, LogStep(t)
    PROVE  Counts' /\ LoggersLog'
<1>f. /\ pc \in [Threads -> Places] /\ Loggers \subseteq Threads
      /\ claimed \in Nat /\ dequeued \in Nat /\ dequeued <= claimed
      /\ pending \in Nat /\ active \in Nat
      BY CountsAreNumbers DEF ControlTypes, QueueTypes, Threads
<1>. DEFINE A == Cardinality(At(Attempts))
            P == Cardinality(At(Producing))
<1>n. A \in Nat /\ P \in Nat
      BY CountingCalls
<1>1. \E label \in Places : pc' = [pc EXCEPT ![t] = label]
                            /\ (label \in InLog => t \in Loggers)
  <2>1. pc[t] \in InLog \/ t \in Loggers
        BY DEF LogStep, Log, CheckState, AddPending, Enqueue, Publish, Accept, DropPending,
               FinishProducer, Return, Block, LoadProduced, EvaluateSpace, InLog, Producing
  <2>2. t \in Loggers
        BY <2>1 DEF LoggersLog
  <2>3. CASE Log(t) \/ CheckState(t) \/ AddPending(t) \/ Enqueue(t) \/ Publish(t) \/ Accept(t)
        BY <2>2, <2>3 DEF Log, CheckState, AddPending, Enqueue, Publish, Accept, Goto, Places
  <2>4. CASE DropPending(t) \/ FinishProducer(t) \/ Return(t) \/ Block(t) \/ LoadProduced(t)
             \/ EvaluateSpace(t)
        BY <2>2, <2>4 DEF DropPending, FinishProducer, Return, Block, LoadProduced, EvaluateSpace,
                          Goto, Places
  <2>. QED BY <2>3, <2>4 DEF LogStep
<1>2. LoggersLog'
      BY <1>f, <1>1 DEF LoggersLog
<1>3. t \in Loggers
  <2>1. pc[t] \in InLog \/ t \in Loggers
        BY DEF LogStep, Log, CheckState, AddPending, Enqueue, Publish, Accept, DropPending,
               FinishProducer, Return, Block, LoadProduced, EvaluateSpace, InLog, Producing
  <2>. QED BY <2>1 DEF LoggersLog
<1>4. \A u \in Loggers \ {t} : pc'[u] = pc[u]
      BY <1>f, <1>1
<1>. HIDE DEF A, P
<1>a. /\ (pc[t] \notin Attempts /\ pc'[t] \in Attempts => A' = A + 1)
      /\ (pc[t] \in Attempts /\ pc'[t] \notin Attempts => A' = A - 1 /\ A - 1 \in Nat)
      /\ ((pc[t] \in Attempts <=> pc'[t] \in Attempts) => A' = A)
      BY <1>3, <1>4, NobodyMoves, OneComes, OneGoes DEF A
<1>p. /\ (pc[t] \notin Producing /\ pc'[t] \in Producing => P' = P + 1)
      /\ (pc[t] \in Producing /\ pc'[t] \notin Producing => P' = P - 1 /\ P - 1 \in Nat)
      /\ ((pc[t] \in Producing <=> pc'[t] \in Producing) => P' = P)
      BY <1>3, <1>4, NobodyMoves, OneComes, OneGoes DEF P
<1>c. pending = claimed - dequeued + A /\ active = P
      BY DEF Counts, A, P
<1>g. SUFFICES pending' = claimed' - dequeued' + A' /\ active' = P'
      BY <1>2 DEF Counts, A, P
<1>. USE DEF Attempts, Producing, Goto
<1>5. CASE Log(t)
      BY <1>f, <1>a, <1>p, <1>c, <1>n, <1>5 DEF Log, queueVars
<1>6. CASE CheckState(t)
      BY <1>f, <1>a, <1>p, <1>c, <1>n, <1>6 DEF CheckState, queueVars, counterVars
<1>7. CASE AddPending(t)
      BY <1>f, <1>a, <1>p, <1>c, <1>n, <1>7 DEF AddPending, queueVars
<1>8. CASE Enqueue(t)
      BY <1>f, <1>a, <1>p, <1>c, <1>n, <1>8 DEF Enqueue, Queue!Claim, counterVars
<1>9. CASE Publish(t) \/ Accept(t)
      BY <1>f, <1>a, <1>p, <1>c, <1>n, <1>9 DEF Publish, Queue!Publish, Accept, queueVars, counterVars
<1>10. CASE DropPending(t)
      BY <1>f, <1>a, <1>p, <1>c, <1>n, <1>10 DEF DropPending, queueVars
<1>11. CASE FinishProducer(t)
      BY <1>f, <1>a, <1>p, <1>c, <1>n, <1>11 DEF FinishProducer, queueVars
<1>12. CASE Return(t) \/ Block(t) \/ LoadProduced(t)
      BY <1>f, <1>a, <1>p, <1>c, <1>n, <1>12 DEF Return, Block, LoadProduced, queueVars, counterVars
<1>13. CASE EvaluateSpace(t)
      BY <1>f, <1>a, <1>p, <1>c, <1>n, <1>13 DEF EvaluateSpace, queueVars, counterVars
<1>. QED BY <1>5, <1>6, <1>7, <1>8, <1>9, <1>10, <1>11, <1>12, <1>13 DEF LogStep

\* Flushing and stopping threads move outside log(), or wake those that sleep
\* in it.
LEMMA OtherCounts ==
    ASSUME ControlTypes, Counts, LoggersLog, NEW t \in Threads, FlushStep(t) \/ StopStep(t)
    PROVE  Counts' /\ LoggersLog'
<1>f. pc \in [Threads -> Places] /\ Loggers \subseteq Threads
      BY DEF ControlTypes, Threads
<1>1. \A u \in Threads : \/ pc'[u] = pc[u]
                         \/ pc[u] = "asleepForSpace" /\ pc'[u] = "wokenForSpace"
                         \/ pc[u] \notin InLog /\ pc'[u] \notin InLog
  <2>1. CASE FlushStep(t)
        BY <1>f, <2>1 DEF FlushStep, Flush, RaiseTarget, RequestFlush, NotifyFlush, EvaluateFlush,
                          SleepForFlush, ReturnFromFlush, Goto, InLog, Producing
  <2>2. CASE Stop(t) \/ SetStopping(t) \/ StopWake(t) \/ Join(t)
        BY <1>f, <2>2 DEF Stop, SetStopping, StopWake, Join, Goto, InLog, Producing
  <2>3. CASE StopSpace(t) \/ StopFlush(t) \/ StopLast(t)
        BY <1>f, <2>3 DEF StopSpace, StopFlush, StopLast, InLog, Producing
  <2>. QED BY <2>1, <2>2, <2>3 DEF StopStep
<1>2. UNCHANGED <<pending, active, claimed, dequeued>>
      BY DEF FlushStep, Flush, RaiseTarget, RequestFlush, NotifyFlush, EvaluateFlush,
             SleepForFlush, ReturnFromFlush, StopStep, Stop, SetStopping, StopWake, StopSpace,
             StopFlush, Join, StopLast, queueVars, counterVars
<1>3. \A u \in Loggers : /\ pc'[u] \in Attempts <=> pc[u] \in Attempts
                         /\ pc'[u] \in Producing <=> pc[u] \in Producing
      BY <1>f, <1>1 DEF Attempts, Producing, InLog
<1>4. LoggersLog'
      BY <1>1 DEF LoggersLog, InLog, Producing
<1>. QED BY <1>2, <1>3, <1>4, CountsKept

\* The worker takes a record from the queue and from pending_count_ in one
\* step, and otherwise wakes threads at most.
LEMMA WorkerCounts ==
    ASSUME ControlTypes, QueueInv, Counts, LoggersLog, WorkerStep \/ Fail \/ SpuriousWakeup
    PROVE  Counts' /\ LoggersLog'
<1>f. pc \in [Threads -> Places] /\ Loggers \subseteq Threads
      BY DEF ControlTypes, Threads
<1>1. \A u \in Threads : \/ pc'[u] = pc[u]
                         \/ pc[u] = "asleepForSpace" /\ pc'[u] = "wokenForSpace"
                         \/ pc[u] \notin InLog /\ pc'[u] \notin InLog
  <2>1. CASE NotifySpace
    <3>1. \A W \in OneAsleepForSpace : \A u \in W : pc[u] = "asleepForSpace"
          BY DEF OneAsleepForSpace
    <3>. QED BY <2>1, <3>1 DEF NotifySpace
  <2>2. CASE TellFlushers \/ FailSpace \/ FailFlush
        BY <2>2 DEF TellFlushers, FailSpace, FailFlush, AwakenAll, InLog, Producing
  <2>3. CASE SpuriousWakeup
        BY <1>f, <2>3 DEF SpuriousWakeup, Goto, InLog, Producing
  <2>4. CASE (WorkerStep \/ Fail) /\ ~(NotifySpace \/ TellFlushers \/ FailSpace \/ FailFlush)
        BY <2>4 DEF WorkerStep, Drain, AdvanceDequeue, AppendRecord, LoadState, LoadPending, LoadActive,
                    NoFlush, WriteBatch, ClearRequest, Again, Recheck, TimedOut, Fail, threadVars
  <2>. QED BY <2>1, <2>2, <2>3, <2>4
<1>3. \A u \in Loggers : /\ pc'[u] \in Attempts <=> pc[u] \in Attempts
                         /\ pc'[u] \in Producing <=> pc[u] \in Producing
      BY <1>f, <1>1 DEF Attempts, Producing, InLog
<1>4. LoggersLog'
      BY <1>1 DEF LoggersLog, InLog, Producing
<1>5. CASE AdvanceDequeue
  <2>1. /\ Cardinality(At(Attempts))' = Cardinality(At(Attempts))
        /\ Cardinality(At(Producing))' = Cardinality(At(Producing))
        /\ Cardinality(At(Attempts)) \in Nat
        BY <1>3, NobodyMoves, CountingCalls
  <2>2. /\ pending' = pending - 1 /\ dequeued' = dequeued + 1 /\ UNCHANGED <<claimed, active>>
        /\ claimed \in Nat /\ dequeued \in Nat
        BY <1>5 DEF AdvanceDequeue, QueueInv, QueueTypes
  <2>. QED BY <1>4, <2>1, <2>2 DEF Counts
<1>6. CASE ~AdvanceDequeue
  <2>1. UNCHANGED <<pending, active, claimed, dequeued>>
        BY <1>6 DEF WorkerStep, Drain, Queue!Take, AppendRecord, NotifySpace, LoadState, LoadPending,
                    LoadActive, NoFlush, WriteBatch, ClearRequest, TellFlushers, FailSpace, FailFlush,
                    Again, Recheck, TimedOut, Fail, SpuriousWakeup, queueVars, counterVars
  <2>. QED BY <1>3, <1>4, <2>1, CountsKept
<1>. QED BY <1>5, <1>6

-----------------------------------------------------------------------------
(***************************************************************************)
(* The invariant.                                                          *)
(***************************************************************************)

\* A logger that has just been started.
LEMMA LoggerInit == ASSUME Init PROVE LoggerInv
<1>1. /\ ControlTypes /\ NumberTypes
      BY DEF Init, ControlTypes, NumberTypes, Places
<1>2. QueueTypes /\ Positions
      BY DEF Init, Queue!QueueInit, QueueTypes, Positions
<1>3. \A S : "idle" \notin S => At(S) = {}
      BY DEF Init, At, Threads
<1>4. Cardinality(At(Attempts)) = 0 /\ Cardinality(At(Producing)) = 0
      BY <1>3, FS_EmptySet DEF Attempts, Producing
<1>5. Counts
      BY <1>4 DEF Init, Queue!QueueInit, Counts
<1>6. LoggersLog
      BY DEF Init, LoggersLog, InLog, Producing
<1>. QED BY <1>1, <1>2, <1>5, <1>6, TypeParts, CountsAreNumbers DEF LoggerInv

\* Every step keeps the counters and what they count.
LEMMA LoggerStep ==
    ASSUME LoggerInv, [Next]_vars
    PROVE  LoggerInv'
<1>f. ControlTypes /\ QueueInv /\ NumberTypes /\ Counts /\ LoggersLog /\ QueueTypes
      BY TypeParts DEF LoggerInv, QueueInv
<1>1. ControlTypes' /\ QueueInv' /\ NumberTypes' /\ Counts' /\ LoggersLog'
  <2>1. ASSUME NEW t \in Threads, LogStep(t)
        PROVE  ControlTypes' /\ QueueInv' /\ NumberTypes' /\ Counts' /\ LoggersLog'
        BY <1>f, <2>1, ThreadControl, ThreadQueue, ThreadNumbers, LogCounts
  <2>2. ASSUME NEW t \in Threads, FlushStep(t) \/ StopStep(t)
        PROVE  ControlTypes' /\ QueueInv' /\ NumberTypes' /\ Counts' /\ LoggersLog'
        BY <1>f, <2>2, ThreadControl, ThreadQueue, ThreadNumbers, OtherCounts
  <2>3. CASE WorkerStep \/ Fail \/ SpuriousWakeup
        BY <1>f, <2>3, WorkerControl, WorkerQueue, WorkerNumbers, WorkerCounts
  <2>4. CASE UNCHANGED vars
    <3>1. ControlTypes' /\ NumberTypes'
          BY <1>f, <2>4 DEF vars, flushVars, workerVars, threadVars, counterVars,
                            ControlTypes, NumberTypes
    <3>2. QueueInv'
          BY <1>f, <2>4, QueueKept DEF vars, workerVars
    <3>3. Counts'
          BY <1>f, <2>4, CountsKept DEF vars, threadVars, counterVars, queueVars
    <3>4. LoggersLog'
          BY <1>f, <2>4 DEF vars, threadVars, LoggersLog
    <3>. QED BY <3>1, <3>2, <3>3, <3>4
  <2>. QED BY <2>1, <2>2, <2>3, <2>4 DEF Next
<1>2. pending' \in Nat /\ active' \in Nat
  <2>1. claimed' \in Nat /\ dequeued' \in 0 .. claimed'
        BY <1>1 DEF QueueInv, QueueTypes
  <2>n. \A m \in Nat : \A n \in 0 .. m : m - n \in Nat
        OBVIOUS
  <2>2. claimed' - dequeued' \in Nat
        BY <2>1, <2>n
  <2>3. Cardinality(At(Attempts))' \in Nat /\ Cardinality(At(Producing))' \in Nat
    <3>1. \A S : At(S)' \subseteq Loggers
          BY DEF At
    <3>2. IsFiniteSet(At(Attempts)') /\ IsFiniteSet(At(Producing)')
          BY <3>1, LoggersAssumption, FS_Subset
    <3>. QED BY <3>2, FS_CardinalityType
  <2>. QED BY <1>1, <2>2, <2>3 DEF Counts
<1>. QED BY <1>1, <1>2, TypeParts DEF LoggerInv, QueueInv

\* pending_count_ and active_producers_ are what the worker takes them for,
\* and never wrap below zero, whatever threads log, wait for room, give up,
\* flush and stop (log, finish_producer, the worker's try_dequeue).
THEOREM CountersAreExact == Spec => []CountersExact
<1>1. LoggerInv => CountersExact
      BY DEF LoggerInv, CountersExact, Counts, Attempts
<1>. QED BY <1>1, LoggerInit, LoggerStep, PTL DEF Spec
=============================================================================

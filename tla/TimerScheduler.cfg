\* One calling thread, an executor of one thread and one place in its queue.
SPECIFICATION FairSpec
CONSTANTS
    c1 = c1  c2 = c2  q1 = q1  q2 = q2
    Callers = {c1}
    PoolThreads = {q1}
    MaxTimers = 2
    MaxDelay = 1
    QueueCapacity = 1
INVARIANTS EveryTimerOwnedOnce StoppedIsQuiet SleepsOnTheRightDeadline
PROPERTIES ImplementsTimers TimerFires StopReturns

\* Two threads log on a queue of two places, one of them also flushes and
\* stops; three calls of log and flush at most. The threads are done once the
\* calls are spent.
SPECIFICATION FairSpec
CONSTANTS
    Capacity = 2
    main = main  producer = producer
    Loggers <- MCLoggers
    Flushers = {main}
    Stoppers = {main}
    Batch = 1
    Setups <- MCSetups
INVARIANTS CountersExact
PROPERTIES LogReturns FlushReturns StopReturns
CHECK_DEADLOCK FALSE

\* One thread logs while another stops the logger; nothing fails.
SPECIFICATION FairSpec
CONSTANTS
    Capacity = 2
    main = main  producer = producer
    Loggers <- MCLoggers
    Flushers = {}
    Stoppers = {main}
    Batch = 1
    Setups <- StopSetups
INVARIANT AcceptedIsWritten
CHECK_DEADLOCK FALSE

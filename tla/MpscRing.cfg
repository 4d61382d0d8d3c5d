\* Three producers on two cells, through more than one lap of the ring. The
\* bound stops the producers, so the ring comes to rest.
SPECIFICATION FairSpec
CONSTANTS
    Capacity = 2
    p1 = p1  p2 = p2  p3 = p3
    Producers <- MCProducers
    MaxRecords = 5
INVARIANTS NoOverwrite
PROPERTIES RefusedOnlyWhenFull EveryRecordTaken ImplementsQueue
CHECK_DEADLOCK FALSE

\* The single-item interface: two producers and two consumers on a queue of
\* two slots, and a thread that closes it.
SPECIFICATION FairSpec
CONSTANTS
    Capacity = 2
    p1 = p1  p2 = p2  c1 = c1  c2 = c2  x = x
    Producers <- MCProducers
    Consumers <- MCConsumers
    Closers = {x}
    PushCalls <- SinglePushes
    PopCalls <- SinglePops
    MaxItems = 3
INVARIANTS NoLostWakeup
PROPERTIES SleepersServed

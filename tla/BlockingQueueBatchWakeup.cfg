\* Batch producers and single-item consumers: one notify_one for two items.
SPECIFICATION FairSpec
CONSTANTS
    Capacity = 2
    p1 = p1  p2 = p2  c1 = c1  c2 = c2  x = x
    Producers = {p1}
    Consumers <- MCConsumers
    Closers = {}
    PushCalls <- BatchPushes
    PopCalls <- PlainPops
    MaxItems = 2
PROPERTY SleepingConsumerServed

\* The whole interface, batches included.
SPECIFICATION FairSpec
CONSTANTS
    Capacity = 2
    p1 = p1  p2 = p2  c1 = c1  c2 = c2  x = x
    Producers <- MCProducers
    Consumers <- MCConsumers
    Closers = {x}
    PushCalls <- AllPushes
    PopCalls <- AllPops
    MaxItems = 3
INVARIANTS TypeOK RingConsistent
PROPERTIES ImplementsFifo CloseReleasesEveryCall

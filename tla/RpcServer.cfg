\* A base loop with or without an I/O loop, a worker, a queue of one; two
\* connections at most, and four things that their peers do. The server rests
\* when the peers do.
SPECIFICATION Spec
CONSTANTS
    base = base  io = io  w1 = w1
    acceptor = acceptor  wakeup = wakeup  none = none
    Loops = {base, io}
    Workers = {w1}
    Base = base
    IoLoops <- MCIoLoops
    MaxConnections = 2
    Fds = {1, 2}
    Acceptor = acceptor
    Wakeup = wakeup
    None = none
    Registered <- MCRegistered
    Messages <- MCMessages
    HandlerCodes = {"Ok"}
    QueueCapacity = 1
    MaxInputs = 4
INVARIANTS ChannelsAreAlive NoForgottenFunctor MetricsExact
PROPERTIES ImplementsService EverythingIsSettled
CHECK_DEADLOCK FALSE

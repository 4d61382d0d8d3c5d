\* Two frames, good or not, through sockets that hold six units, read by
\* four. The connection comes to rest.
SPECIFICATION Spec
CONSTANTS
    CheapPrepend = 1
    InitialSize = 4
    MaxMessageSize = 13
    Raw <- MCRaw
    Messages <- MCMessages
    Garbage <- MCGarbage
    Samples <- MCSamples
    MaxMessages = 2
    PipeSize = 6
    ReadSize = 4
INVARIANTS NothingLeftBehind FramesAreSelfDelimiting
PROPERTIES ImplementsChannel EverythingArrives
CHECK_DEADLOCK FALSE

\* Two events through a ring of one, two device messages, four sockets and
\* two faults: an event is evicted while the device is away, a write fails
\* after a prefix of a batch, a message is lost with its socket or dropped
\* by a detached MsgLoop and sent again after PeerReady, and a resumed
\* socket can fail again.  Safety, the loop-exit liveness and both stream
\* refinements together.
CONSTANTS
    MaxEvents = 2
    BufSize = 1
    MaxConns = 4
    MaxFaults = 2
    MaxSysEvents = 1
    MaxInMsgs = 2
SPECIFICATION Spec
INVARIANTS
    TypeOK
PROPERTIES
    PeerLoopEnds
    ImplementsEventStream
    ImplementsMsgStream
CHECK_DEADLOCK FALSE

\* Lifecycle: the last player leaves (or is kicked) while joins, watches
\* and leaves are still queued; the room must still end.  No symmetry:
\* it is not sound together with liveness checking.
CONSTANTS
    a = a
    b = b
    c = c
    NoClient = NoClient
    ClientIDs <- MCThreeIDs
    MsgChSize = 2
    MaxObjects = 4
    MaxMsgs = 3
    MaxSendFailures = 1
    MaxPlayersChoices = {2}
    NodeCounts = {2}
    ClientKinds = {"Leave", "Ping"}
    ControlKinds = {"Join", "Watch", "AdminKick"}
    UInt32 = 1073741824
SPECIFICATION LiveSpec
PROPERTIES
    RoomEnds
CHECK_DEADLOCK FALSE

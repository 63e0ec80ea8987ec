\* NewRoom's caller times out, or msgCreate fails: the room it started
\* should still go away.  No symmetry: it is not sound with liveness.
CONSTANTS
    a = a
    b = b
    c = c
    NoClient = NoClient
    ClientIDs <- MCThreeIDs
    MsgChSize = 2
    MaxObjects = 4
    MaxMsgs = 3
    MaxSendFailures = 1
    MaxPlayersChoices = {2}
    NodeCounts = {2}
    ClientKinds = {"Leave", "Ping"}
    ControlKinds = {"Join", "Watch", "AdminKick"}
    UInt32 = 1073741824
SPECIFICATION LiveSpec
PROPERTIES
    FailedCreateReleasesRoom
CHECK_DEADLOCK FALSE

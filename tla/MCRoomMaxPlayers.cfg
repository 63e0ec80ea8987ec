CONSTANTS
    a = a
    b = b
    c = c
    NoClient = NoClient
    ClientIDs <- MCThreeIDs
    MsgChSize = 2
    MaxObjects = 4
    MaxMsgs = 3
    MaxSendFailures = 1
    MaxPlayersChoices = {1, 2}
    NodeCounts = {0, 2}
    ClientKinds = {"Leave", "SwitchMaster", "Kick", "NodeCount", "RoomProp"}
    ControlKinds = {"Join", "Watch", "AdminKick"}
    UInt32 = 1073741824
SPECIFICATION Spec
SYMMETRY MCSymmetry3
INVARIANT PlayersWithinMax
CHECK_DEADLOCK FALSE

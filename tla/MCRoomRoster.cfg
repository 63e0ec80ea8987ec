\* Every message kind, three clients: joins, rejoins, watches, leaves,
\* kicks, master switches, node counts, room properties, relays, pings,
\* client errors and timeouts, with two failing Sends whose removal
\* goroutines interleave with the loop; NewRoom's caller may time out.
CONSTANTS
    a = a
    b = b
    c = c
    NoClient = NoClient
    ClientIDs <- MCThreeIDs
    MsgChSize = 2
    MaxObjects = 4
    MaxMsgs = 3
    MaxSendFailures = 2
    MaxPlayersChoices = {1, 3}
    NodeCounts = {0, 2}
    ClientKinds = {"Leave", "SwitchMaster", "Kick", "NodeCount", "RoomProp",
                   "Ping", "ClientProp", "ToMaster", "Broadcast", "Targets",
                   "ClientError", "ClientTimeout"}
    ControlKinds = {"Join", "Watch", "AdminKick", "GetRoomInfo"}
    UInt32 = 1073741824
SPECIFICATION Spec
SYMMETRY MCSymmetry3
INVARIANTS
    TypeOK
    LiveMasterIsPlayer
    RosterConsistent
    WatcherCountMatches
    MembersAreUnremoved
    MasterViewAgreed
PROPERTIES
    ImplementsRoomRoster
CHECK_DEADLOCK FALSE

-------------------------------- MODULE Room --------------------------------
(***************************************************************************)
(* The room actor of a wsnet2 game node (server/game/room.go).             *)
(*                                                                         *)
(* One goroutine (MsgLoop) takes messages from the bounded channel msgCh   *)
(* and dispatches them; every handler runs atomically because it holds     *)
(* muClients (or runs alone on the loop).  A failed Client.Send inside a   *)
(* handler spawns a goroutine that later takes muClients and removes that  *)
(* client (sendTo); those goroutines interleave with the loop and may run  *)
(* after the loop has stopped.  When the last player leaves, removePlayer  *)
(* closes done; MsgLoop's select then picks nondeterministically between   *)
(* done and a pending message, as Go's select does.                        *)
(*                                                                         *)
(* A Client object is a record [id, n, player]: n tells apart the objects  *)
(* that a rejoin creates for the same client id, so `players[id] != c`     *)
(* comparisons of the code are comparisons of these records.  The events   *)
(* a client receives are abstracted to the one fact the properties read:   *)
(* which client id the client was last told is the master (view).         *)
(***************************************************************************)
EXTENDS Integers, Sequences, FiniteSets, SequencesExt

CONSTANTS
    ClientIDs,          \* client ids (model values)
    NoClient,           \* nil *Client / no id
    MsgChSize,          \* RoomMsgChSize, the capacity of msgCh
    MaxObjects,         \* bound: Client objects created (NewPlayer/NewWatcher)
    MaxMsgs,            \* bound: messages put into msgCh after MsgCreate
    MaxSendFailures,    \* bound: Client.Send calls that fail
    MaxPlayersChoices,  \* values of RoomInfo.MaxPlayers (RoomOption, MsgRoomProp)
    NodeCounts,         \* values a hub reports in MsgNodeCount
    ClientKinds,        \* the client message types a run lets clients send
    ControlKinds,       \* the control-plane message types a run sends
    UInt32              \* 2^32, the modulus of RoomInfo.Watchers (a smaller
                        \* power of two where TLC cannot hold 2^32)

ASSUME /\ MsgChSize \in Nat \ {0}
       /\ MaxObjects \in Nat /\ MaxMsgs \in Nat /\ MaxSendFailures \in Nat
       /\ MaxPlayersChoices \subseteq Nat /\ NodeCounts \subseteq Nat
       /\ UInt32 \in Nat \ {0}

VARIABLES
    players,      \* r.players: client id -> Client object
    masterOrder,  \* r.masterOrder
    master,       \* r.master
    watchers,     \* r.watchers: client id -> Client object
    nodeCount,    \* c.nodeCount of the current watcher object of each id
    watcherCount, \* r.RoomInfo.Watchers (uint32)
    lastMsg,      \* the keys of r.lastMsg (timestamps abstracted)
    joinable,     \* r.RoomInfo.Joinable
    watchable,    \* r.RoomInfo.Watchable
    maxPlayers,   \* r.RoomInfo.MaxPlayers
    msgCh,        \* r.msgCh
    done,         \* r.done has been closed
    panicked,     \* close of a closed channel: the process has crashed
    loop,         \* MsgLoop: "running", "draining" (drainMsg) or "exited"
    objs,         \* Client objects created so far
    removed,      \* objects on which c.Removed has been called
    exited,       \* objects whose goroutines ended (wgClient.Done)
    view,         \* object -> master id it was last told (JoinedInfo/events)
    doomed,       \* objects a Send failed to; a removal goroutine is pending
    sendFailures, \* failed Sends so far
    msgCount,     \* messages put into msgCh so far
    creator       \* the NewRoom caller: "sending" (MsgCreate not yet in
                  \* msgCh), "waiting" (for Joined/Err), "joined" or
                  \* "failed" (it returned an error)

roster  == <<players, masterOrder, master, watchers, nodeCount, watcherCount, lastMsg>>
info    == <<joinable, watchable, maxPlayers>>
sends   == <<view, doomed, sendFailures>>
vars    == <<roster, info, msgCh, done, panicked, loop, objs, removed, exited,
             sends, msgCount, creator>>

Objs   == [id : ClientIDs, n : 1..MaxObjects, player : BOOLEAN]
EmptyMap == [i \in {} |-> NoClient]
Put(f, k, v) == (k :> v) @@ f
Delete(f, k) == [i \in DOMAIN f \ {k} |-> f[i]]
MapRange(f) == {f[i] : i \in DOMAIN f}

\* Mutant: the removePlayer guard compares ids, not Client objects.
IsPlayerByID(c) == c.id \in DOMAIN players

\* `m[c.ID()] == c` for one of the two membership maps
IsPlayer(c)  == c.id \in DOMAIN players /\ players[c.id] = c
IsWatcher(c) == c.id \in DOMAIN watchers /\ watchers[c.id] = c
IsMember(c)  == IF c.player THEN IsPlayer(c) ELSE IsWatcher(c)
Members      == MapRange(players) \cup MapRange(watchers)

\* Mutant: NewWatcher builds a Client with isPlayer set.
NewObjAlwaysPlayer(id, isPlayer) == [id |-> id, n |-> Cardinality(objs) + 1, player |-> TRUE]

\* NewPlayer / NewWatcher: a fresh Client object
NewObj(id, isPlayer) == [id |-> id, n |-> Cardinality(objs) + 1, player |-> isPlayer]

(***************************************************************************)
(* sendTo / broadcast (room.go 341-363): Client.Send to each recipient in  *)
(* R; a Send may fail, which schedules the removal goroutine.  Recipients *)
(* in V get an event naming mid as master (EvLeft, EvMasterSwitched).     *)
(* base is the view before the sends (JoinedInfo may have extended it).   *)
(***************************************************************************)
Emit(R, V, mid, base) ==
    \E F \in SUBSET (R \ doomed) :
        /\ sendFailures + Cardinality(F) <= MaxSendFailures
        /\ sendFailures' = sendFailures + Cardinality(F)
        /\ doomed' = doomed \cup F
        /\ view' = [o \in DOMAIN base |-> IF o \in V \ F THEN mid ELSE base[o]]

NoSend == UNCHANGED sends

\* Mutant: broadcast forgets the watchers loop.
BroadcastPlayersOnly(ps) == MapRange(ps)

\* broadcast (room.go 356-363): every player of ps and every watcher.
Broadcast(ps) == MapRange(ps) \cup MapRange(watchers)

\* Mutant: a departing master is not replaced.
ElectMasterNever(rest, order, cid) == master

\* Mutant: the newest remaining player becomes master.
ElectMasterNewest(rest, order, cid) ==
    IF master.id = cid THEN rest[order[Len(order)]] ELSE master

\* The master after cid left (room.go 222-225): the oldest remaining player.
ElectMaster(rest, order, cid) ==
    IF master.id = cid THEN rest[Head(order)] ELSE master

\* Mutant: the last player's departure does not close done.
CloseDoneSkipped == UNCHANGED <<done, panicked>>

\* close(r.done) (room.go 217-219): a second close panics.
CloseDone == done' = TRUE /\ panicked' = done

(***************************************************************************)
(* removePlayer (room.go 195-233).  The early return on an empty room     *)
(* skips the master switch, the EvLeft broadcast and removeLastMsg; the   *)
(* close of an already closed done panics.                                 *)
(***************************************************************************)
RemovePlayer(c, also) ==
    LET rest == Delete(players, c.id)
        order == RemoveFirst(masterOrder, c.id)
    IN
    /\ UNCHANGED <<watchers, nodeCount, watcherCount>>
    /\ \/ /\ ~IsPlayer(c)
          /\ Emit(also, {}, NoClient, view)
          /\ UNCHANGED <<players, masterOrder, master, lastMsg, removed, done, panicked>>
       \/ /\ IsPlayer(c)
          /\ players' = rest
          /\ masterOrder' = order
          /\ removed' = removed \cup {c}
          /\ \/ /\ DOMAIN rest = {}
                /\ CloseDone
                /\ Emit(also, {}, NoClient, view)
                /\ UNCHANGED <<master, lastMsg>>
             \/ /\ DOMAIN rest # {}
                /\ master' = ElectMaster(rest, order, c.id)
                /\ lastMsg' = lastMsg \ {c.id}
                /\ Emit(also \cup Broadcast(rest), Broadcast(rest), master'.id, view)
                /\ UNCHANGED <<done, panicked>>

\* removeWatcher (room.go 281-295)
RemoveWatcher(c, also) ==
    /\ Emit(also, {}, NoClient, view)
    /\ UNCHANGED <<players, masterOrder, master, lastMsg, done, panicked>>
    /\ \/ /\ ~IsWatcher(c)
          /\ UNCHANGED <<watchers, nodeCount, watcherCount, removed>>
       \/ /\ IsWatcher(c)
          /\ watchers' = Delete(watchers, c.id)
          /\ nodeCount' = Delete(nodeCount, c.id)
          /\ watcherCount' = (watcherCount - nodeCount[c.id]) % UInt32
          /\ removed' = removed \cup {c}

\* removeClient (room.go 187-193); `also` are the recipients of the
\* events the calling handler sent before it (EvSucceeded of msgKick).
RemoveClient(c, also) ==
    IF c.player THEN RemovePlayer(c, also) ELSE RemoveWatcher(c, also)

-----------------------------------------------------------------------------
(***************************************************************************)
(* Handlers, one per Msg type of dispatch (room.go 297-336).  Each takes   *)
(* the message m at the head of msgCh; msgCh itself is updated by the     *)
(* loop step that calls it.                                                *)
(***************************************************************************)

\* msgCreate (room.go 365-392): the creator becomes master and player.
MsgCreate(m) ==
    LET o == NewObj(m.id, TRUE) IN
    /\ objs' = objs \cup {o}
    /\ master' = o
    /\ players' = Put(players, m.id, o)
    /\ masterOrder' = Append(masterOrder, m.id)
    /\ lastMsg' = lastMsg \cup {m.id}
    /\ Emit({o}, {}, NoClient, Put(view, o, m.id))
    /\ UNCHANGED <<watchers, nodeCount, watcherCount, info, removed, done, panicked>>

\* msgCreate's error branch (room.go 369-376): NewPlayer rejects the
\* master's ClientInfo; the error goes to msg.Err and the room stays empty.
MsgCreateFailed(m) ==
    UNCHANGED <<roster, info, objs, removed, done, panicked>> /\ NoSend

\* The ResourceExhausted condition of msgJoin (room.go 406, 415).
RoomFull(id) ==
    id \notin DOMAIN players /\ maxPlayers <= Cardinality(DOMAIN players)

\* Mutant: a rejoin of the master leaves r.master on the old object.
RejoinMasterKept(oldp, o) == master

\* r.master after a rejoin replaced oldp by o (room.go 434-436).
RejoinMaster(oldp, o) == IF master = oldp THEN o ELSE master

\* Mutant: a rejoin appends the id to masterOrder again.
JoinOrderAlwaysAppend(id) == Append(masterOrder, id)

\* masterOrder after a join: appended for a new player only (room.go 432, 440).
JoinOrder(id) ==
    IF id \in DOMAIN players THEN masterOrder ELSE Append(masterOrder, id)

\* msgJoin (room.go 394-461)
MsgJoin(m) ==
    LET id     == m.id
        rejoin == id \in DOMAIN players
        o      == NewObj(id, TRUE)
    IN
    \/ /\ \/ ~joinable                                          \* FailedPrecondition
          \/ joinable /\ id \in DOMAIN watchers                 \* AlreadyExists
          \/ joinable /\ id \notin DOMAIN watchers /\ RoomFull(id) \* ResourceExhausted
       /\ UNCHANGED <<roster, objs, removed, done, panicked>> /\ NoSend
    \/ /\ joinable
       /\ id \notin DOMAIN watchers
       /\ ~RoomFull(id)
       /\ objs' = objs \cup {o}
       /\ players' = Put(players, id, o)
       /\ masterOrder' = JoinOrder(id)
       /\ IF rejoin
            THEN /\ removed' = removed \cup {players[id]}
                 /\ master' = RejoinMaster(players[id], o)
            ELSE UNCHANGED <<master, removed>>
       /\ lastMsg' = lastMsg \cup {id}
       /\ Emit(Broadcast(players'), {}, NoClient, Put(view, o, master'.id))
       /\ UNCHANGED <<watchers, nodeCount, watcherCount, done, panicked>>
    /\ UNCHANGED info

\* Mutant: a rejoining watcher's old node count is not subtracted.
WatchCountNoRejoin(id) == (watcherCount + 1) % UInt32

\* RoomInfo.Watchers after msgWatch (room.go 491-500); NewWatcher starts
\* with nodeCount 1.
WatchCount(id) ==
    ((watcherCount - IF id \in DOMAIN watchers THEN nodeCount[id] ELSE 0) + 1) % UInt32

\* Mutant: the rejoin marks the new Client, not the old one, Removed.
WatchReplacedNew(id, o) == IF id \in DOMAIN watchers THEN {o} ELSE {}

\* The watcher object a rejoin replaces and Removes (room.go 491-495).
WatchReplaced(id, o) == IF id \in DOMAIN watchers THEN {watchers[id]} ELSE {}

\* msgWatch (room.go 463-510)
MsgWatch(m) ==
    LET id == m.id
        o  == NewObj(id, FALSE)
    IN
    \/ /\ ~watchable \/ id \in DOMAIN players
       /\ UNCHANGED <<roster, objs, removed>> /\ NoSend
    \/ /\ watchable
       /\ id \notin DOMAIN players
       /\ objs' = objs \cup {o}
       /\ watchers' = Put(watchers, id, o)
       /\ nodeCount' = Put(nodeCount, id, 1)
       /\ watcherCount' = WatchCount(id)
       /\ removed' = removed \cup WatchReplaced(id, o)
       /\ view' = Put(view, o, master.id)
       /\ UNCHANGED <<players, masterOrder, master, lastMsg, doomed, sendFailures>>
    /\ UNCHANGED <<info, done, panicked>>

\* msgNodeCount (room.go 529-544)
MsgNodeCount(m) ==
    LET c == m.from IN
    /\ IF IsWatcher(c) /\ nodeCount[c.id] # m.count
         THEN /\ watcherCount' = ((watcherCount - nodeCount[c.id]) + m.count) % UInt32
              /\ nodeCount' = [nodeCount EXCEPT ![c.id] = m.count]
         ELSE UNCHANGED <<watcherCount, nodeCount>>
    /\ UNCHANGED <<players, masterOrder, master, watchers, lastMsg, info,
                   objs, removed, done, panicked>> /\ NoSend

\* msgLeave, msgClientError, msgClientTimeout (room.go 546-550, 809-819)
MsgLeave(m) ==
    /\ RemoveClient(m.from, {})
    /\ UNCHANGED <<info, objs>>

\* msgRoomProp (room.go 552-619); the dicts and the client deadline, which
\* only carry data to the clients, are left out.
MsgRoomProp(m) ==
    \/ /\ m.from # master                                 \* EvPermissionDenied
       /\ Emit({m.from}, {}, NoClient, view)
       /\ UNCHANGED info
    \/ /\ m.from = master
       /\ joinable' = m.joinable
       /\ watchable' = m.watchable
       /\ maxPlayers' = m.maxPlayers
       /\ Emit({m.from} \cup Broadcast(players), {}, NoClient, view)  \* EvSucceeded, EvRoomProp
    /\ UNCHANGED <<roster, objs, removed, done, panicked>>

\* msgClientProp (room.go 621-650)
MsgClientProp(m) ==
    /\ IF ~m.from.player
         THEN Emit({m.from}, {}, NoClient, view)          \* EvPermissionDenied
         ELSE IF ~IsPlayer(m.from) THEN NoSend
         ELSE Emit({m.from} \cup Broadcast(players), {}, NoClient, view)
    /\ UNCHANGED <<roster, info, objs, removed, done, panicked>>

\* msgTargets (room.go 652-685)
MsgTargets(m) ==
    LET present == m.targets \cap DOMAIN players
        notify  == IF m.targets \ present # {} THEN {m.from} ELSE {}
    IN
    /\ IF IsMember(m.from)
         THEN Emit({players[t] : t \in present} \cup notify, {}, NoClient, view)
         ELSE NoSend
    /\ UNCHANGED <<roster, info, objs, removed, done, panicked>>

\* msgToMaster (room.go 687-703)
MsgToMaster(m) ==
    /\ IF IsMember(m.from) THEN Emit({master}, {}, NoClient, view) ELSE NoSend
    /\ UNCHANGED <<roster, info, objs, removed, done, panicked>>

\* msgBroadcast (room.go 705-721)
MsgBroadcast(m) ==
    /\ IF IsMember(m.from) THEN Emit(Broadcast(players), {}, NoClient, view) ELSE NoSend
    /\ UNCHANGED <<roster, info, objs, removed, done, panicked>>

\* msgSwitchMaster (room.go 723-745): the permission check sends
\* EvPermissionDenied but does not return.
MsgSwitchMaster(m) ==
    \/ /\ m.target \notin DOMAIN players                  \* EvTargetNotFound
       /\ Emit({m.from}, {}, NoClient, view)
       /\ UNCHANGED master
    \/ /\ m.target \in DOMAIN players
       /\ master' = players[m.target]
       /\ Emit({m.from} \cup Broadcast(players), Broadcast(players), m.target, view)
    /\ UNCHANGED <<players, masterOrder, watchers, nodeCount, watcherCount, lastMsg,
                   info, objs, removed, done, panicked>>

\* msgKick (room.go 747-768)
MsgKick(m) ==
    \/ /\ m.from # master \/ m.target \notin DOMAIN players
       /\ Emit({m.from}, {}, NoClient, view)
       /\ UNCHANGED <<roster, removed, done, panicked>>
    \/ /\ m.from = master
       /\ m.target \in DOMAIN players
       /\ RemoveClient(players[m.target], {m.from})
    /\ UNCHANGED <<info, objs>>

\* msgAdminKick (room.go 770-781)
MsgAdminKick(m) ==
    \/ /\ m.target \notin DOMAIN players
       /\ UNCHANGED <<roster, removed, done, panicked>> /\ NoSend
    \/ /\ m.target \in DOMAIN players
       /\ RemoveClient(players[m.target], {})
    /\ UNCHANGED <<info, objs>>

\* msgPing, msgGetRoomInfo (room.go 512-527, 783-807): replies that go
\* around the event buffer and change no room state.
MsgReadOnly(m) ==
    UNCHANGED <<roster, info, objs, removed, done, panicked>> /\ NoSend
-----------------------------------------------------------------------------
(***************************************************************************)
(* The goroutines around the handlers.                                     *)
(***************************************************************************)

\* MsgLoop (room.go 125-141): take the head of msgCh and dispatch it.
\* updateLastMsg only refreshes a timestamp of an existing key.
Receive(kinds) ==
    /\ loop = "running"
    /\ ~panicked
    /\ msgCh # <<>>
    /\ Head(msgCh).kind \in kinds
    /\ msgCh' = Tail(msgCh)
    /\ UNCHANGED <<loop, exited, msgCount, creator>>

\* MsgLoop takes the done branch of its select, removes the room from the
\* repository and starts drainMsg.
StopLoop ==
    /\ loop = "running" /\ done /\ ~panicked
    /\ loop' = "draining"
    /\ UNCHANGED <<roster, info, msgCh, done, panicked, objs, removed, exited, sends, msgCount, creator>>

\* drainMsg (room.go 145-160): discard messages until every client
\* goroutine has ended (wgClient.Wait).
Drain ==
    /\ loop = "draining" /\ ~panicked /\ msgCh # <<>>
    /\ msgCh' = Tail(msgCh)
    /\ UNCHANGED <<roster, info, done, panicked, loop, objs, removed, exited, sends, msgCount, creator>>

LoopExit ==
    /\ loop = "draining" /\ ~panicked /\ objs \subseteq exited
    /\ loop' = "exited"
    /\ UNCHANGED <<roster, info, msgCh, done, panicked, objs, removed, exited, sends, msgCount, creator>>

\* The goroutine spawned by a failed sendTo (room.go 345-350).
AsyncRemove(c) ==
    /\ ~panicked
    /\ c \in doomed
    /\ RemoveClient(c, {})
    /\ UNCHANGED <<info, msgCh, loop, objs, exited, msgCount, creator>>

\* Messages a client's goroutines forward to the room (Room.SendMessage).
AllClientMsgs(o) ==
    {[kind |-> k, from |-> o] :
        k \in {"Ping", "Leave", "ClientProp", "ToMaster", "Broadcast",
               "ClientError", "ClientTimeout"}}
    \cup {[kind |-> "Targets", from |-> o, targets |-> T] : T \in SUBSET ClientIDs}
    \cup {[kind |-> k, from |-> o, target |-> t] :
            k \in {"SwitchMaster", "Kick"}, t \in ClientIDs}
    \cup {[kind |-> "NodeCount", from |-> o, count |-> n] : n \in NodeCounts}
    \cup {[kind |-> "RoomProp", from |-> o, joinable |-> j, watchable |-> w,
           maxPlayers |-> mp] : j \in BOOLEAN, w \in BOOLEAN, mp \in MaxPlayersChoices}

ClientMsgs(o) == {m \in AllClientMsgs(o) : m.kind \in ClientKinds}

\* Messages the repository forwards for the control plane.
AllControlMsgs ==
    {[kind |-> k, id |-> i] : k \in {"Join", "Watch"}, i \in ClientIDs}
    \cup {[kind |-> "AdminKick", target |-> i] : i \in ClientIDs}
    \cup {[kind |-> "GetRoomInfo"]}

ControlMsgs == {m \in AllControlMsgs : m.kind \in ControlKinds}

Creates(q) == Len(SelectSeq(q, LAMBDA x : x.kind \in {"Create", "Join", "Watch"}))

Enqueue(m) ==
    /\ ~panicked
    /\ Len(msgCh) < MsgChSize
    /\ msgCount < MaxMsgs
    /\ m.kind \in {"Join", "Watch"} => Cardinality(objs) + Creates(msgCh) < MaxObjects
    /\ msgCh' = Append(msgCh, m)
    /\ msgCount' = msgCount + 1
    /\ UNCHANGED <<roster, info, done, panicked, loop, objs, removed, exited, sends, creator>>

\* Room.SendMessage (room.go 835-840) from a client that has not ended.
ClientSend(o) ==
    /\ o \in objs \ exited
    /\ \E m \in ClientMsgs(o) : Enqueue(m)

\* The repository reaches the room while it is registered (until MsgLoop
\* stops), once NewRoom has returned it.
ControlSend ==
    /\ loop = "running"
    /\ creator = "joined"
    /\ \E m \in ControlMsgs : Enqueue(m)

\* A client's goroutines end once it is removed or the room is done.
\* NewRoom, after starting MsgLoop and roomInfoUpdater (room.go 89-101):
\* the select puts MsgCreate into the fresh msgCh.
NewRoomEnqueue ==
    /\ creator = "sending"
    /\ \E i \in ClientIDs : msgCh' = Append(msgCh, [kind |-> "Create", id |-> i])
    /\ creator' = "waiting"
    /\ UNCHANGED <<roster, info, done, panicked, loop, objs, removed, exited, sends, msgCount>>

\* ctx.Done() wins either select of NewRoom (room.go 95-99, 103-107): Go
\* picks at random among ready cases, so also when msgCh had room or the
\* reply was already there.  NewRoom returns DeadlineExceeded; the two
\* goroutines it started keep running.
NewRoomTimeout ==
    /\ creator \in {"sending", "waiting"}
    /\ creator' = "failed"
    /\ UNCHANGED <<roster, info, msgCh, done, panicked, loop, objs, removed, exited, sends, msgCount>>

\* The reply of msgCreate (room.go 108-112): Joined when it made the
\* master, Err when NewPlayer failed.  Both channels have capacity 1, so
\* msgCreate never waits for the caller.
NewRoomReply ==
    /\ creator = "waiting"
    /\ \A k \in 1..Len(msgCh) : msgCh[k].kind # "Create"
    /\ creator' = IF objs # {} THEN "joined" ELSE "failed"
    /\ UNCHANGED <<roster, info, msgCh, done, panicked, loop, objs, removed, exited, sends, msgCount>>

ClientExit(o) ==
    /\ ~panicked
    /\ o \in objs \ exited
    /\ o \in removed \/ done
    /\ exited' = exited \cup {o}
    /\ UNCHANGED <<roster, info, msgCh, done, panicked, loop, objs, removed, sends, msgCount, creator>>

-----------------------------------------------------------------------------
\* NewRoom (room.go 54-90): an empty room with its fresh msgCh; MsgLoop
\* is running and the caller is about to send MsgCreate.
Init ==
    /\ players = EmptyMap
    /\ masterOrder = <<>>
    /\ master = NoClient
    /\ watchers = EmptyMap
    /\ nodeCount = EmptyMap
    /\ watcherCount = 0
    /\ lastMsg = {}
    /\ joinable \in BOOLEAN
    /\ watchable \in BOOLEAN
    /\ maxPlayers \in MaxPlayersChoices
    /\ msgCh = <<>>
    /\ done = FALSE
    /\ panicked = FALSE
    /\ loop = "running"
    /\ objs = {}
    /\ removed = {}
    /\ exited = {}
    /\ view = EmptyMap
    /\ doomed = {}
    /\ sendFailures = 0
    /\ msgCount = 0
    /\ creator = "sending"

Next ==
    \/ Receive({"Create"}) /\ MsgCreate(Head(msgCh))
    \/ Receive({"Create"}) /\ MsgCreateFailed(Head(msgCh))
    \/ Receive({"Join"}) /\ MsgJoin(Head(msgCh))
    \/ Receive({"Watch"}) /\ MsgWatch(Head(msgCh))
    \/ Receive({"NodeCount"}) /\ MsgNodeCount(Head(msgCh))
    \/ Receive({"Leave", "ClientError", "ClientTimeout"}) /\ MsgLeave(Head(msgCh))
    \/ Receive({"RoomProp"}) /\ MsgRoomProp(Head(msgCh))
    \/ Receive({"ClientProp"}) /\ MsgClientProp(Head(msgCh))
    \/ Receive({"Targets"}) /\ MsgTargets(Head(msgCh))
    \/ Receive({"ToMaster"}) /\ MsgToMaster(Head(msgCh))
    \/ Receive({"Broadcast"}) /\ MsgBroadcast(Head(msgCh))
    \/ Receive({"SwitchMaster"}) /\ MsgSwitchMaster(Head(msgCh))
    \/ Receive({"Kick"}) /\ MsgKick(Head(msgCh))
    \/ Receive({"AdminKick"}) /\ MsgAdminKick(Head(msgCh))
    \/ Receive({"Ping", "GetRoomInfo"}) /\ MsgReadOnly(Head(msgCh))
    \/ StopLoop
    \/ Drain
    \/ LoopExit
    \/ \E c \in doomed : AsyncRemove(c)
    \/ \E o \in objs : ClientSend(o) \/ ClientExit(o)
    \/ ControlSend
    \/ NewRoomEnqueue \/ NewRoomTimeout \/ NewRoomReply

Spec == Init /\ [][Next]_vars

\* Go's select picks a ready case at random, so MsgLoop eventually takes
\* done once it is closed; client goroutines end once they see done or
\* Removed, and drainMsg then returns.  Clients and the control plane
\* are not obliged to send anything.
LiveSpec ==
    /\ Spec
    /\ WF_vars(StopLoop) /\ WF_vars(Drain) /\ WF_vars(LoopExit)
    /\ WF_vars(\E o \in objs : ClientExit(o))
-----------------------------------------------------------------------------
(***************************************************************************)
(* Properties.                                                             *)
(***************************************************************************)

\* Every variable holds a value of its Go type, and each map is keyed by
\* the id of the Client objects it holds.
TypeOK ==
    /\ DOMAIN players \subseteq ClientIDs
    /\ \A i \in DOMAIN players : players[i] \in Objs /\ players[i].id = i /\ players[i].player
    /\ DOMAIN watchers \subseteq ClientIDs
    /\ \A i \in DOMAIN watchers : watchers[i] \in Objs /\ watchers[i].id = i /\ ~watchers[i].player
    /\ DOMAIN nodeCount = DOMAIN watchers
    /\ masterOrder \in Seq(ClientIDs)
    /\ master \in Objs \cup {NoClient}
    /\ watcherCount \in 0..(UInt32 - 1)
    /\ lastMsg \subseteq ClientIDs
    /\ Len(msgCh) <= MsgChSize
    /\ loop \in {"running", "draining", "exited"}
    /\ objs \subseteq Objs /\ removed \subseteq objs /\ exited \subseteq objs
    /\ doomed \subseteq objs /\ DOMAIN view = objs
    /\ creator \in {"sending", "waiting", "joined", "failed"}

\* Spec 8 (2): the master is one of the room's current player objects
\* whenever there are players.  Checked as stated, it is broken by a Join
\* that MsgLoop dispatches after removePlayer has closed done.
MasterIsPlayer ==
    DOMAIN players # {} => master \in MapRange(players)

\* The same while the room is live (done not yet closed): the master
\* survives rejoins (msgJoin replaces r.master), departures (removePlayer
\* elects players[masterOrder[0]]) and switches.
LiveMasterIsPlayer ==
    ~done => MasterIsPlayer

\* Spec 8 (3) and (5): masterOrder lists each player id exactly once, so
\* removePlayer's players[masterOrder[0]] is a player; and while the room is
\* live the lastMsg keys reported in EvPong are exactly the player ids.
RosterConsistent ==
    /\ IsInjective(masterOrder)
    /\ ToSet(masterOrder) = DOMAIN players
    /\ ~done => lastMsg = DOMAIN players

\* Spec 8 (6): RoomInfo.Watchers, kept by deltas in msgWatch, msgNodeCount
\* and removeWatcher, equals the sum of the current watchers' node counts.
WatcherCountMatches ==
    watcherCount = SumFunction(nodeCount)

\* The room's members are exactly the Client objects that have not been
\* told they are Removed: a leave, kick or rejoin removes the object it
\* replaces, and a late removal goroutine of a replaced object removes
\* nothing else.
MembersAreUnremoved ==
    Members = objs \ removed

\* Every member whose event stream is intact (no failed Send) was last told
\* (JoinedInfo, EvLeft, EvMasterSwitched) the id of the actual master.
MasterViewAgreed ==
    \A o \in Members \ doomed : view[o] = master.id

\* Spec 8 (1): the player count never exceeds RoomInfo.MaxPlayers.
PlayersWithinMax ==
    Cardinality(DOMAIN players) <= maxPlayers

\* done is closed at most once: a second close panics and brings down the
\* whole game node.
NoDoubleClose ==
    ~panicked

\* Spec 4.5: only the master may switch the master; a MsgSwitchMaster from
\* any other client leaves r.master as it is.
SwitchOnlyByMaster ==
    [][(/\ msgCh # <<>> /\ msgCh' = Tail(msgCh) /\ loop = "running"
        /\ Head(msgCh).kind = "SwitchMaster" /\ Head(msgCh).from # master)
       => master' = master]_vars

\* A room whose players are all gone ends: removePlayer closes done,
\* MsgLoop leaves its select, every client goroutine ends and drainMsg
\* returns, also when late messages were dispatched in between (or the
\* process has crashed on a second close of done).
RoomEnds ==
    (objs # {} /\ DOMAIN players = {}) ~> (loop = "exited" \/ panicked)

Roster == INSTANCE RoomRoster
            WITH order <- masterOrder, closed <- done,
                 master <- IF master = NoClient THEN NoClient ELSE master.id,
                 None <- NoClient

\* The handlers, the removal goroutines and rejoins implement the roster
\* promised by spec 4.5: masterOrder lists the player ids in the order they
\* arrived, a rejoin (new Client object, same id) keeps its place and its
\* mastership, a departing master hands over to the oldest remaining
\* player, and the master changes in no other way than by a switch to a
\* current player.
ImplementsRoomRoster == Roster!Spec

\* Spec 4.6: a control-plane call whose context ends returns
\* DeadlineExceeded "without side effects if possible".  Once NewRoom has
\* failed for its caller, the room it started must go away: its loop
\* exits, or it holds a client, whose own idle deadline (client.go) will
\* remove it and so close done.  A room with no client and no registry
\* entry can receive nothing that would ever stop MsgLoop.
FailedCreateReleasesRoom ==
    creator = "failed" ~> (loop = "exited" \/ objs # {})
=============================================================================

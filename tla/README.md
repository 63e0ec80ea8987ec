# TLA+ models of the wsnet2 game server

These modules model the concurrent core of the wsnet2 game server. That core is the
room actor in `src/server/game/room.go`, its RoomInfo publisher, and the peer
attachment in `src/server/game/peer.go`. Each module is written from the Go source.
Where the source calls code that is not in this tree (`client.go`, `repository.go`,
the ring buffer), the model takes only that code's externally visible behaviour from
`spec.md`, and `PROJECT.json` marks those definitions `spec_modelled`.

## 1. Inventory of the system

| Part | Source | State | Operations | Interacts with |
|---|---|---|---|---|
| Room actor | room.go | `players`, `masterOrder`, `master`, `watchers`, `RoomInfo` (Joinable, Watchable, MaxPlayers, Players, Watchers), `lastMsg`, `msgCh` (buffer 10), `done`, `wgClient` | `MsgLoop`, `dispatch`, 16 `msg*` handlers, `removeClient`/`removePlayer`/`removeWatcher`, `sendTo`/`broadcast`, `drainMsg`, `SendMessage` | Client goroutines (they enqueue messages, and the room calls `Send` on them), Repository (Join/Watch/Kick/GetRoomInfo, RemoveRoom) |
| RoomInfo publisher | room.go 235-279 | `lastRoomInfo`, `chRoomInfo` (capacity 1), `mRoomInfo` | `updateRoomInfo`, the `roomInfoUpdater` goroutine | Room handlers (every RoomInfo change calls `updateRoomInfo`), the DB |
| Peer | peer.go | `client`, `conn`, `msgCh`, `done`, `detached`, `closed`, `evSeqNum`, `muWrite` | `NewPeer`, `SendReady`, `SendSystemEvent`, `SendEvents`, `Close`, `Detached`, `closeWithMessage`, `MsgLoop` | Client (AttachPeer/DetachPeer, event buffer, message forwarding) |
| Client and event buffer | not in tree | event ring buffer, peer, deadline, msg seq | NewPlayer/NewWatcher, Send, Removed, the client loops | Room, Peer |
| Wire codec | event.go (`unnamed/part_001`) | none | event constructors, `Marshal`, `UnmarshalEvent`, 24- and 32-bit sequence encoding | Peer, Room |
| Repository | not in tree | the room map | CreateRoom, JoinRoom, WatchRoom, RemoveRoom, updateRoomInfo | Room |
| Lobby service | `unnamed/part_002` | none of its own | gRPC forwarding, room search | DB, game servers |
| Lobby test client, CI, Dockerfile, go.mod | | none | | |

### Hard behaviours

- **The room loop and the removal goroutines.** Every handler runs on `MsgLoop` with
  `muClients` held, so one handler is one atomic step. When `sendTo` fails to deliver,
  it starts a goroutine (room.go:346) that later takes the lock and removes the
  client. That goroutine can run between any two handlers. It can run after the
  client has rejoined as a new object, and it can run after the loop has stopped.
- **Go's select is not ordered** (room.go:130). Once `done` is closed, the loop may
  still dispatch messages that are waiting in `msgCh`.
- **Rejoin replaces the Client object.** Messages that are still queued from the old
  object, and removal goroutines for the old object, must not touch the new one.
- **Watcher counting by deltas.** `RoomInfo.Watchers` is a uint32 that is changed by
  deltas in three places.
- **The coalescing publisher.** A capacity-1 token channel, a DB connection with
  retries, and a snapshot taken under a lock that also drains the token.
- **Peer sequencing.** `evSeqNum` advances only after a batch of writes has
  fully succeeded, a reconnect replays events from the ring buffer, and an event that
  has fallen out of the ring ends the client. An old Peer's `MsgLoop` can exit and
  call `DetachPeer` after a new Peer has been attached. On the way in, a `MsgLoop`
  that holds a message drops it when it leaves through `p.detached`; the device must
  resend from the msg seq that the next PeerReady names.
- **The wire codec.** Sequence numbers are written in 24 and 32 bits big-endian, and
  `UnmarshalEvent` tells system from regular events by the type byte alone.

### Properties that make each part correct

- **Room:**
  - The master is a player whenever players exist.
  - `masterOrder`, `players` and `lastMsg` describe the same ids.
  - The watcher count equals the sum of the watchers' node counts.
  - The members are exactly the client objects that were never removed.
  - Every client that is still reachable was told the current master.
  - `done` is closed at most once.
  - Only the master switches the master.
- **Publisher:**
  - An idle updater has written the latest RoomInfo.
  - Every RoomInfo eventually reaches the DB, unless the room closes first.
- **Peer and Client:**
  - The device processes events 1, 2, 3, ... in order, each once, across reconnects
    (a refinement of the abstract `EventStream`).
  - The room gets the device's messages 1, 2, ... in order, each once, with no
    gap (a second refinement of `EventStream`).
  - Every `MsgLoop` on a dead socket ends.
- **Codec:** what `Marshal` writes, `UnmarshalEvent` reads back.

## 2. Modules and how they map to the code

### `Room.tla`: the room actor (room.go)

**State**

- `players`, `watchers`: maps from a client id to a Client object. An object is a
  record `[id, n, player]`. Its field `n` tells apart the objects that successive
  joins create, so the code's pointer comparisons (`r.players[cid] != c`) become
  record comparisons.
- `masterOrder`: a sequence.
- `master`: an object.
- `nodeCount`: each watcher's node count.
- `watcherCount`: `RoomInfo.Watchers`, taken modulo the constant `UInt32`.
- `lastMsg`: the set of ids that have a last-message entry.
- `joinable`, `watchable`, `maxPlayers`.
- `msgCh`: a bounded sequence of message records.
- `done`.
- `panicked`: set by a second `close(done)`.
- `loop`: `running`, `draining` or `exited`.
- `objs`, `removed`, `exited`: the Client objects created so far, the ones passed to
  `Removed`, and the ones whose goroutines have ended.
- `view`: the master id that each object was last told. This abstracts the
  `EvJoined`/`EvLeft`/`EvMasterSwitched` payloads.
- `doomed`: the objects whose `Send` has failed, so that a removal goroutine is
  pending for each.
- `creator`: where NewRoom's caller is. It is `sending` before MsgCreate is in
  `msgCh`, then `waiting` for the reply, then `joined`, or `failed` if NewRoom
  returned an error.

**Actions**

- `Init` is the room as NewRoom builds it, with `MsgLoop` already started and
  `msgCh` empty. `NewRoomEnqueue` is the first select sending MsgCreate.
  `NewRoomTimeout` is `ctx.Done()` winning either select; Go picks at random
  among ready cases, so it can win even when the send or the reply was ready.
  `NewRoomReply` is the caller taking Joined or Err. `MsgCreateFailed` is
  msgCreate's branch where NewPlayer fails.
- There is one action per handler: `MsgCreate`, `MsgJoin`, `MsgWatch`,
  `MsgNodeCount`, `MsgLeave`, `MsgRoomProp`, `MsgClientProp`, `MsgTargets`,
  `MsgToMaster`, `MsgBroadcast`, `MsgSwitchMaster`, `MsgKick`, `MsgAdminKick`.
- `MsgLeave` also covers `msgClientError` and `msgClientTimeout`, which have the same
  code.
- `MsgReadOnly` covers `msgPing` and `msgGetRoomInfo`.
- Each handler action includes the whole `removePlayer` cascade: master election,
  the `EvLeft` broadcast, `updateRoomInfo` and `c.Removed`.
- Every `sendTo` goes through `Emit`. `Emit` chooses which recipients fail, within
  the budget `MaxSendFailures`, and marks them `doomed`.
- `Receive` is the `case msg := <-r.msgCh` branch. `StopLoop` is the `case <-r.Done()`
  branch.
- `Drain` and `LoopExit` are `drainMsg`.
- `AsyncRemove` is the goroutine started by `sendTo`.
- `ClientSend` is a client goroutine calling `SendMessage`. `ControlSend` is the
  Repository forwarding Join, Watch, AdminKick or GetRoomInfo. `ClientExit` is a
  client's goroutines ending once the client is removed or the room is done, which
  is what `wgClient` waits for.

**Abstracted away**

- The property dictionaries and their merge.
- The deadline fan-out of `msgRoomProp`.
- Timestamps in `lastMsg`.
- The event payloads, apart from the master id.
- Logging and metrics.

### `RoomRoster.tla`: what a room promises about players and master

This is an abstract spec of spec 4.5 ("Master election") and section 8 (2, 3). Its
state is `order` (the player ids in arrival order), `master` (an id) and `closed`.
Its actions are:

- `Create`;
- `Join`, which appends an id that is not yet in `order`;
- `Leave`, which removes an id; a departing master hands over to `Head` of the rest,
  and the last player to leave closes the room;
- `Switch`, which makes any current player master.

`Room` maps to it with `order <- masterOrder`, `master <- master.id` and
`closed <- done`. A rejoin, a watcher step or a failed Send is a stuttering step of
`RoomRoster`. The run `room_roster` checks `ImplementsRoomRoster`. The abstract spec
promises nothing about who may switch or about capacity; other properties check
those.

### `MCRoom.tla`

`MCRoom.tla` declares three model values `a`, `b`, `c` for client ids, the id sets
built from them, and their permutations for symmetry.

### `RoomInfoUpdater.tla`: the publisher (room.go 235-279)

**State**

- `lastRoomInfo` and `db`: versions of RoomInfo.
- `chRoomInfo`: whether the token is present.
- `done`.
- `pc`: where the updater goroutine is.
- `ri`: its snapshot.
- `connFailures`.

**Actions**

- `UpdateRoomInfo` stands for any room handler that calls `updateRoomInfo`.
- `CloseDone`.
- `Wait`: the outer select.
- `ConnFail` and `Connected`: `Connx`.
- `Snapshot`: the locked copy and the drain of the token.
- `Write`: `repo.updateRoomInfo`.

### `Peer.tla`: the attachments of one Client (peer.go)

**State**

- Client (from the spec): `written` (last seq in the ring), `clientDone`, `current`
  (`c.peer`), `lastPeer` (Peers created so far; Peer `p` is the p-th socket).
- Per Peer, as functions over `1..MaxConns`: `closed`, `evSeq` (`evSeqNum`),
  `detached`, `loop` (where `MsgLoop` is), `connUp` (the socket still carries
  frames), `wire` (frames written but not yet processed by the device).
- Device (the client SDK, from the spec): `recv` (event seqs processed, in order),
  `dconn` (its socket), `dstate` (`idle` must connect, `open`, `gone` was told not to
  reconnect).
- The inbound path: `up[p]` (msg seqs the device wrote to socket `p`, not yet read),
  `held[p]` (the message `MsgLoop` is handing over, 0 when none), the Client's
  `lastRecvMsg` and `toRoom` (the msg seqs passed on to the room), and the device's
  `dnext` (the msg seq it sends next) and `dready` (PeerReady came on this socket).
- `faults`, `sysSent`: counters of the bounded inputs; `inMsgs`: the newest msg seq
  the device has made.

Frames are records: `ready` with a msg seq, `sys`, `ev` with its seq, and `close`
with its code.

**Actions**

- `Connect`: the device opens socket `p` with `Len(recv)` as its last seq, and
  `NewPeer` runs: `AttachPeer` accepts it (the old Peer is signalled through `detached`; it is not closed) and
  `SendReady` writes EvPeerReady with `lastRecvMsg`, or it is refused and `closeWithMessage` writes
  GoingAway.
- `SendEvents(p)`: the Client's event loop on the current Peer. Reads the ring from
  `evSeqNum`; a too-old read closes with GoingAway. Otherwise a prefix of the frames
  is written and, if a write fails (`WriteFails`), the Peer closes with InternalErr
  and `evSeqNum` is not advanced.
- `SendSystemEvent(p)`, `CloseWithClientError(p)`, `Removed` (Client.Removed closes
  the current Peer with Normal).
- `ReadMsg` (the next message of `up[p]` becomes `held[p]`), `ReadInvalid` (bad MAC:
  InvalidFrame), `ReadFail` (the read errors on a closed or broken socket) and
  `Forward` (the select that hands the message to the Client, which records it in
  `lastRecvMsg` and passes it to the room (`Deliver`), or leaves through
  `p.detached`) make up `MsgLoop`; on exit `ExitLoop` drops the held message and calls
  `DetachPeer`, which clears `c.peer` only if it is still `p`.
- `Send`: the room writes one event to the ring.
- `NetworkDrop(p)`, `Receive`, `Lost`: the socket breaks and loses its frames; the
  device processes a frame (PeerReady(n) sets `dnext` to n + 1); the device sees an
  abnormal closure.
- `DeviceSend`: after PeerReady the device writes message `dnext`, a resent one or a
  new one; on a broken socket the frame is lost.

`closed` is read without `muWrite` in `MsgLoop` (peer.go:184). The model lets either
value be read.

### `EventStream.tla`: what a client is promised

This is an abstract spec. The room writes events 1..n. The device receives a growing
prefix of them, or ends. `Peer` maps to it with `received <- recv` and
`ended <- (dstate = "gone")`. It is checked as the property `ImplementsEventStream`,
which includes `WF(Deliver)`.

The same module describes the inbound messages. `Peer` maps `written <- inMsgs`,
`received <- toRoom` and `ended <- clientDone`, and `ImplementsMsgStream` checks
`SafetySpec` only: a device that was told to give up never resends, so the messages
it still had are not promised.

### `EventCodec.tla` and `MCEventCodec.tla`: the event frames (event.go)

The state is one trip of a frame: `sent` (the event handed to Marshal), `frame` (the
bytes) and `got` (what `UnmarshalEvent` returned). The actions are `SendRegular`,
`SendResponse`, `SendPeerReady`, `ReceiveRaw` (any byte string a peer may receive)
and `Decode`. `put24`, `put32`, `get24` and `get32` live in `binary/marshal.go`, which
is not in the tree, and are written from the spec. `MCEventCodec` supplies the
payload byte strings, because a cfg cannot hold sequences.

## 3. Runs

| Run | Config | Expect | What it shows |
|---|---|---|---|
| room_roster | MCRoomRoster.cfg | pass | Three clients use every message kind: joins, rejoins, watches, leaves, kicks, master switches, node counts, room properties, relays, pings, client errors and timeouts. Two Sends fail, and their removal goroutines interleave with the loop and with rejoins. NewRoom's caller may time out. Through all of this the roster, the master, the watcher count and every client's view of the master stay consistent. |
| roominfo_updater | RoomInfoUpdater.cfg | pass | No RoomInfo update is lost despite coalescing, the token/done race and DB retries. Each update reaches the DB unless the room closes. |
| room_late_dispatch | MCRoomLateDispatch.cfg | violation | A Join dispatched after `done` produces players whose master is a departed client. |
| room_double_close | MCRoomDoubleClose.cfg | violation | Removing a player who was admitted late closes `done` twice, which panics. |
| room_switch_master | MCRoomSwitchMaster.cfg | violation | A non-master switches the master, because there is no `return` after `EvPermissionDenied`. |
| room_max_players | MCRoomMaxPlayers.cfg | violation | `msgRoomProp` lowers MaxPlayers below the player count. |

| room_failed_create | MCRoomFailedCreate.cfg | violation | NewRoom can return an error while the room's goroutines keep running forever. This happens when ctx wins the first select, or when NewPlayer fails in msgCreate. |
| room_lifecycle | MCRoomLifecycle.cfg | pass | Once the last player leaves, `done` closes, the loop exits despite late messages, every client goroutine ends and `drainMsg` returns. |
| peer | Peer.cfg | pass | Across broken sockets, partial writes, bad frames, evictions and reconnects, the device receives events in order, once each, and all of them unless it gave up; the room gets the device's messages in order, once each, with no gap; every `MsgLoop` on a dead socket ends. |
| event_codec | EventCodec.cfg | pass | `UnmarshalEvent` reads back what `Marshal` wrote, at the byte boundaries of the 24- and 32-bit encodings. |
| event_codec_response_frame | EventCodecResponseFrame.cfg | violation | Response events carry a 32-bit event seq; spec section 5 says they do not. |
| event_codec_unknown_type | EventCodecUnknownType.cfg | violation | `UnmarshalEvent` accepts unknown event types; spec section 5 says they are rejected. |

The seven violations are recorded as findings in `PROJECT.json`. The codec runs use
module `MCEventCodec`.

### Properties

All of the following are in `Room.tla` unless noted.

- `TypeOK`: the type invariant.
- `LiveMasterIsPlayer`: while `done` is open and players exist, the master is one of
  them.
- `RosterConsistent`: `masterOrder` holds each player id once. While the room is
  live, `lastMsg` has exactly the player ids.
- `WatcherCountMatches`: `RoomInfo.Watchers` is the sum of the node counts of the
  current watchers.
- `MembersAreUnremoved`: the players and watchers are exactly the objects that were
  created and never removed. No stale message or removal goroutine removes a
  rejoined client, and no removed object lingers.
- `MasterViewAgreed`: every member without a pending failed send was last told the
  current master.
- `PlayersWithinMax`: the spec's invariant on the player count.
- `NoDoubleClose`: `done` is never closed twice.
- `SwitchOnlyByMaster`: an action property. A dispatched SwitchMaster from a
  non-master does not change the master.
- `FailedCreateReleasesRoom`: once NewRoom has failed for its caller, the room's loop
  exits or the room holds a client. A client's own idle deadline removes it, and that
  closes `done`. This is spec 4.6 ("without side effects if possible"). The property
  is violated.
- `RoomEnds`: once a room has had clients and its last player is gone, the loop
  exits (or the double close panicked).
- `ImplementsRoomRoster`: the refinement of `RoomRoster`: arrival order, rejoins
  keeping their slot, and oldest-first master succession.
- `NoLostUpdate` and `EventuallyPersisted` are in `RoomInfoUpdater.tla`.
- In `Peer.tla`: `TypeOK`; `PeerLoopEnds`;
  `ImplementsEventStream` and `ImplementsMsgStream` (the refinements).
- In `EventCodec.tla`: `RoundTrip`, and the two spec statements that fail,
  `ResponseFrameAsSpec` and `UnknownTypeRejected`.

Every property of a passing run has a mutant in `PROJECT.json`: a plausible bug in a
mapped definition that TLC shows breaks it.

### Bounds and why they are enough

**The room runs**

The room runs use 3 client ids, under symmetry. This is enough for:

- a master, a second player, and a third client that can be a watcher or a joiner;
- a rejoin while a stale message or a removal goroutine for the old object is still
  pending.

The other bounds:

- `MsgChSize = 2`: a message can be queued behind another one and still be pending
  when `done` closes.
- `MaxMsgs = 3`: messages sent beyond Create.
- `MaxObjects = 4`: Client objects, which allows one rejoin or replacement.
- `MaxSendFailures = 2` in `room_roster`: two removal goroutines can be pending at
  once.
- `MaxPlayersChoices = {1,3}` in `room_roster`. The full room and the lowered limit
  both occur, and a master can leave two players behind, so the choice of successor
  matters.
- `NodeCounts = {0,2}`, so a zero count and a change of count both occur.

`room_roster` lets every message kind through the constants `ClientKinds` and
`ControlKinds`. It reaches about 3.4 million distinct states in about two minutes. The violation runs and the lifecycle run use subsets of the kinds.

The failed-create run uses the same bounds as the lifecycle run. Its
counterexample needs only two steps.

The lifecycle run uses only Leave and Ping as client messages and Join, Watch and
AdminKick as control messages. It has no symmetry, because symmetry is not sound
with liveness. It reaches about 290 thousand states.

**The peer runs**

`Peer.cfg` has 2 events, a ring of 1, 4 sockets, 2 faults, 1 system event and 2
device messages. With these bounds an event is evicted while the device is away,
a write fails after a prefix of a batch, and a third socket replaces one whose loop
is still running. On the way in, a message is lost with its socket or dropped by a
detached loop and then resent after PeerReady, and a second message follows it.
Two messages are the fewest that show a gap or a repeat. `MaxConns >= MaxFaults + 2`
is assumed, so the device can always reconnect. The run reaches about 950 thousand
states in about three and a half minutes, liveness included. With 3 events and a ring
of 2 it takes 14 minutes.

**The codec run**

Event seqs are 0, 1, 255, 256, 65535, 65536, 2^24 and 2^31-1, and msg seqs are 0, 1,
256, 65536 and 2^24-1, so every byte of the encodings carries and overflows. The raw
type bytes include each class boundary (29/30, 127/128) and unknown types. The
24- and 32-bit helpers (`put24`, `get32`, ...) are in marshal.go, which is not in
this tree: the model's `Put24`/`Get32` are written from the spec, so these
boundaries check the frame layout around them, not the helpers' own code.
`room.go:455` sends `binary.NewEvRejoined`, but part_001 defines no Rejoined
type: the model follows part_001, where type 36 counts as unknown.

**The publisher run**

The publisher run has 3 updates and 2 connection failures. That is enough for an
update to arrive during the connect, during the snapshot, and after the write.

### Fairness

`RoomInfoUpdater` assumes weak fairness of the updater goroutine's own steps: `Wait`,
`Connected`, `Snapshot` and `Write`. The goroutine never blocks except in its select,
and the Go scheduler runs runnable goroutines. `ConnFail` is bounded and not fair: the
DB may fail, but only finitely often.

The room safety runs assume no fairness. The lifecycle run's `LiveSpec` assumes weak
fairness of the room's own goroutines once they can move: `StopLoop`, `Drain`,
`LoopExit`, and the exit of some client goroutine. The client loops end when their
Client is removed, which the spec promises. Incoming messages are not fair.

`Peer` assumes weak fairness of `Connect`, `Receive` and `Lost` (the SDK reconnects
until told not to, and reads its socket), and per Peer of `SendEvents` (the Client's
event loop), `ReadFail` and `Forward` (a `MsgLoop` that can move is scheduled).
Faults, the room's sends and removals, system events and incoming frames are not
fair.

Deadlock checking is off in every cfg. A room whose loop has exited, and whose
clients have all gone, really does stop.

## 4. Not modelled, and why

- **Property dictionaries, the deadline fan-out, timestamps and event payloads.**
  These are data. The master id is the only payload any property reads.
- **Client, event ring buffer and Repository.** They are not in this source tree.
  `Peer` takes from `spec.md` the parts the Peer calls, the Client's
  `lastRecvMsgSeq` included. The Client's deadline timer is not modelled.
- **The deadline deadlock at room.go:606.** It needs the Client's deadline goroutine,
  which is in client.go.
- **The message codec and event payload parsers.** They use the dict codec and
  `UnmarshalAs`, which are not in this tree.
- **What the Repository does with a room whose NewRoom failed.** The Repository is
  not in this tree. The model assumes the failed room is never registered, so the
  control plane never reaches it.
- **The lobby service and the lobby test client.** These are stateless forwarding
  and I/O.
- **CI, Dockerfile, go.mod.** No behaviour.
- **The RoomInfo data race at room.go:784.** It affects only the value returned to
  the caller, and neither the spec nor a comment says what that reply must satisfy.
- **Control-plane reply channels (room.go:453, 780, 801).** Whether a reply can block
  the loop depends on the channel capacity chosen in repository.go.
- **When the device is told to give up.** A refused `AttachPeer` (GoingAway)
  follows the condition of `Client.AttachPeer`, which is taken from the spec; a
  property about when GoingAway may be sent would restate that condition, so none
  is checked. A failed write is modelled as the socket dying, not as a close frame
  with a code.
- **Composing Room with Peer.** A failed `Client.Send` in the room and the Peer's ring
  meet in client.go. The spec does not say when `Send` fails, so a composition would
  have to invent that link.

## 5. Plan for the next steps

1. **Client from the spec.** Model the deadline timer only as far as spec 4.4 fixes
   it. This might reach the room.go:606 deadlock if
   the spec pins down the newDeadline channel.
2. **Larger instances.** Four client ids in the room runs, under symmetry, if the
   run time allows.

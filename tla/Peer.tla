-------------------------------- MODULE Peer --------------------------------
(***************************************************************************)
(* The WebSocket attachments of one Client (server/game/peer.go) and the   *)
(* device at the other end of them.                                        *)
(*                                                                         *)
(* The Client owns a ring buffer of regular events (common.RingBuf) and at *)
(* most one current Peer.  Each Peer has its own socket, its write mutex   *)
(* muWrite with the closed flag, the sequence number evSeqNum of the last  *)
(* event it wrote, a detached signal and a read loop (MsgLoop).  Every     *)
(* write method holds muWrite for its whole body, so each is one step.     *)
(* The device processes the frames of its current socket in order, and    *)
(* when a socket ends it reconnects with the last event sequence number it *)
(* processed, unless the close code told it not to (1000, 1001).          *)
(*                                                                         *)
(* client.go and the ring buffer are not in this source tree: AttachPeer,  *)
(* DetachPeer, Send, Removed, the Client's event loop and RingBuf.Read are *)
(* taken from the spec (sections 4.2, 4.4).                                *)
(*                                                                         *)
(* Faults: a socket may break (the network), a write may fail (the 3 s     *)
(* write deadline) and a frame may fail its MAC check; MaxFaults bounds    *)
(* them together.  Frames on a socket that breaks are lost.                *)
(***************************************************************************)
EXTENDS Naturals, Sequences

CONSTANTS
    MaxEvents,   \* bound: regular events the room sends to the client
    BufSize,     \* ClientConf.EventBufSize, the capacity of the ring
    MaxConns,    \* bound: sockets the device opens (Peers created)
    MaxFaults,   \* bound: broken sockets, failed writes and bad frames
    MaxSysEvents,\* bound: system events (EvPong) sent
    MaxInMsgs    \* bound: messages the device sends

ASSUME /\ MaxEvents \in Nat /\ BufSize \in Nat \ {0}
       /\ MaxFaults \in Nat /\ MaxConns >= MaxFaults + 2
       /\ MaxSysEvents \in Nat /\ MaxInMsgs \in Nat

VARIABLES
    written,    \* seq of the last event written to the ring (Client.Send)
    clientDone, \* the Client is done: Removed, or its event loop stopped
    current,    \* c.peer: the attached Peer, 0 when none
    lastPeer,   \* Peers created so far; peer p is the p-th socket
    closed,     \* p.closed
    evSeq,      \* p.evSeqNum
    detached,   \* p.detached has been closed (Peer.Detached)
    loop,       \* p.MsgLoop: "none", "reading", "forwarding", "exited"
    connUp,     \* the socket of p still carries frames
    wire,       \* frames written to p's socket, not yet processed
    recv,       \* the device: event seqs it processed, in order
    dconn,      \* the device: the socket it uses (a Peer id), 0 at start
    dstate,     \* the device: "idle" (must connect), "open" or "gone"
    faults,     \* faults so far
    sysSent,    \* system events sent so far
    inMsgs,     \* msg seq of the newest message the device has made
    up,         \* msg seqs the device wrote to p's socket, not yet read
    held,       \* the msg seq p's MsgLoop is handing over, 0 when none
    lastRecvMsg,\* the Client's last received msg seq (for PeerReady)
    toRoom,     \* msg seqs the Client passed on to the room, in order
    dnext,      \* the device: msg seq it sends next
    dready      \* the device: PeerReady came on its current socket

clientVars == <<written, clientDone, current, lastPeer, lastRecvMsg, toRoom>>
peerVars   == <<closed, evSeq, detached, loop, connUp, wire, up, held>>
deviceVars == <<recv, dconn, dstate, dnext, dready>>
counters   == <<faults, sysSent, inMsgs>>
vars == <<clientVars, peerVars, deviceVars, counters>>

PeerIDs == 1..MaxConns

\* Close codes: 1000, 1001, 1007 and 1011.  The device does not reconnect
\* after the first two (spec section 5).
CloseCodes  == {"Normal", "GoingAway", "InvalidFrame", "InternalErr"}
NoReconnect == {"Normal", "GoingAway"}

\* Mutant: PeerReady names the message after the last one received.
ReadyOffByOne(n) == [t |-> "ready", seq |-> n + 1]

\* Frames the server writes: PeerReady with the last msg seq received, a
\* system event, a regular event with its seq, a close frame with its code.
Ready(n) == [t |-> "ready", seq |-> n]
Sys   == [t |-> "sys"]
Ev(s) == [t |-> "ev", seq |-> s]
CloseFrame(code) == [t |-> "close", code |-> code]
Frames == {Ready(n) : n \in 0..(MaxInMsgs + 1)} \cup {Sys} \cup {Ev(s) : s \in 1..MaxEvents}
            \cup {CloseFrame(c) : c \in CloseCodes}

\* The oldest seq still in the ring of capacity BufSize.
FirstBuffered == IF written > BufSize THEN written - BufSize + 1 ELSE 1

\* RingBuf.Read(s) fails: seq s + 1 has been evicted.
TooOld(s) == s + 1 < FirstBuffered

\* Mutant: Marshal(seqNum) before seqNum++.
EventFramesPreIncrement(from, k) == [i \in 1..k |-> Ev(from + i - 1)]

\* The frames SendEvents writes for the first k events after `from`: each
\* event is marshalled with the incremented seqNum.
EventFrames(from, k) == [i \in 1..k |-> Ev(from + i)]

\* writeMessage(CloseMessage), closed = true, conn.Close().  The close
\* frame reaches the device only if the socket still carries frames.
WriteClose(p, code) ==
    /\ wire' = [wire EXCEPT ![p] = IF connUp[p] THEN Append(@, CloseFrame(code))
                                                 ELSE @]
    /\ closed' = [closed EXCEPT ![p] = TRUE]
    /\ connUp' = [connUp EXCEPT ![p] = FALSE]
    /\ up' = [up EXCEPT ![p] = <<>>]

\* closeWithMessage: a no-op on a closed Peer.
CloseWithMessage(p, code) ==
    IF closed[p] THEN UNCHANGED <<wire, closed, connUp, up>>
                 ELSE WriteClose(p, code)

\* A write that fails: the socket is broken, closed is set and conn.Close
\* is called; the close frame written before it does not get through.
WriteFails(p) ==
    /\ closed' = [closed EXCEPT ![p] = TRUE]
    /\ connUp' = [connUp EXCEPT ![p] = FALSE]
    /\ up' = [up EXCEPT ![p] = <<>>]
    /\ faults' = IF connUp[p] THEN faults + 1 ELSE faults

\* A write may fail only on a broken socket or within the fault budget.
MayFail(p) == ~connUp[p] \/ faults < MaxFaults

\* Client.AttachPeer: refuse a seq in the future, one the ring can no
\* longer serve, and any attach once the Client is done.
AttachAccepts(last) == ~clientDone /\ last <= written /\ ~TooOld(last)

\* Peer.Detached on the previous Peer q (a no-op on a nil Peer).
DetachedOf(q) == IF q # 0 THEN [detached EXCEPT ![q] = TRUE] ELSE detached

\* Mutant: DetachPeer clears c.peer whoever calls it.
DetachPeerAlways(p) == 0

\* Client.DetachPeer(p): clears c.peer only if p is still the current one.
DetachPeer(p) == IF current = p THEN 0 ELSE current

\* End of MsgLoop: DetachPeer, close(p.msgCh), close(p.done); a message
\* the loop was handing over is dropped with it.
ExitLoop(p) ==
    /\ loop' = [loop EXCEPT ![p] = "exited"]
    /\ held' = [held EXCEPT ![p] = 0]
    /\ current' = DetachPeer(p)

-----------------------------------------------------------------------------
(* Client side (client.go, from the spec).                                 *)

\* Client.Send from the room: append to the ring, evicting the oldest.
Send ==
    /\ ~clientDone
    /\ written < MaxEvents
    /\ written' = written + 1
    /\ UNCHANGED <<clientDone, current, lastPeer, lastRecvMsg, toRoom, peerVars,
                   deviceVars, counters>>

\* Client.Removed: the Client is done and its Peer closed with 1000
\* (Peer.Close returns at once on a nil Peer).
Removed ==
    /\ ~clientDone
    /\ clientDone' = TRUE
    /\ IF current # 0 THEN CloseWithMessage(current, "Normal")
                      ELSE UNCHANGED <<wire, closed, connUp, up>>
    /\ UNCHANGED <<written, current, lastPeer, lastRecvMsg, toRoom, evSeq,
                   detached, loop, held, deviceVars, counters>>

-----------------------------------------------------------------------------
(* Peer (peer.go).                                                         *)

\* NewPeer with the seq the device reported (X-Wsnet-LastEventSeq): on a
\* refused AttachPeer the Peer closes with GoingAway and no MsgLoop runs;
\* otherwise AttachPeer signals Detached to the previous Peer, makes p
\* current and sends PeerReady with the last msg seq the Client received,
\* and MsgLoop starts.
NewPeer(p, last) ==
    /\ evSeq' = [evSeq EXCEPT ![p] = last]
    /\ IF AttachAccepts(last)
       THEN /\ detached' = DetachedOf(current)
            /\ current' = p
            /\ wire' = [wire EXCEPT ![p] = <<Ready(lastRecvMsg)>>]
            /\ connUp' = [connUp EXCEPT ![p] = TRUE]
            /\ loop' = [loop EXCEPT ![p] = "reading"]
            /\ UNCHANGED closed
       ELSE /\ wire' = [wire EXCEPT ![p] = <<CloseFrame("GoingAway")>>]
            /\ closed' = [closed EXCEPT ![p] = TRUE]
            /\ UNCHANGED <<detached, current, connUp, loop>>
    /\ UNCHANGED <<up, held>>

\* SendEvents, called by the Client's event loop on its current Peer
\* while events are pending: evbuf.Read(evSeqNum) either fails (too old:
\* close with GoingAway, and the error stops the Client) or returns the
\* events after evSeqNum; they are written one by one and evSeqNum moves
\* only when all were written.  A failed write closes the Peer (1011) and
\* returns nil so that a new Peer may resume.
SendEvents(p) ==
    /\ p = current
    /\ ~clientDone
    /\ ~closed[p]
    /\ evSeq[p] < written
    /\ IF TooOld(evSeq[p])
       THEN /\ WriteClose(p, "GoingAway")
            /\ clientDone' = TRUE
            /\ UNCHANGED <<evSeq, faults>>
       ELSE LET n == written - evSeq[p] IN
            \/ /\ connUp[p]
               /\ wire' = [wire EXCEPT ![p] = @ \o EventFrames(evSeq[p], n)]
               /\ evSeq' = [evSeq EXCEPT ![p] = written]
               /\ UNCHANGED <<closed, connUp, up, clientDone, faults>>
            \/ /\ MayFail(p)
               /\ \E k \in 0..(n - 1) :
                    wire' = [wire EXCEPT ![p] =
                               IF connUp[p] THEN @ \o EventFrames(evSeq[p], k)
                                            ELSE @]
               /\ WriteFails(p)
               /\ UNCHANGED <<evSeq, clientDone>>
    /\ UNCHANGED <<written, current, lastPeer, lastRecvMsg, toRoom, detached,
                   loop, held, deviceVars, sysSent, inMsgs>>

\* SendSystemEvent (EvPong), run on its own goroutine by the Client: a
\* no-op on a closed Peer; a failed write closes the Peer.
SendSystemEvent(p) ==
    /\ p = current
    /\ ~closed[p]
    /\ sysSent < MaxSysEvents
    /\ sysSent' = sysSent + 1
    /\ \/ /\ connUp[p]
          /\ wire' = [wire EXCEPT ![p] = Append(@, Sys)]
          /\ UNCHANGED <<closed, connUp, up, faults>>
       \/ /\ MayFail(p)
          /\ WriteFails(p)
          /\ UNCHANGED wire
    /\ UNCHANGED <<clientVars, evSeq, detached, loop, held, deviceVars, inMsgs>>

\* CloseWithClientError: the Client's goroutine gives up on the socket
\* after a client error (1011, the device may reconnect); counted as a
\* fault of the device.
CloseWithClientError(p) ==
    /\ p = current
    /\ ~closed[p]
    /\ faults < MaxFaults
    /\ faults' = faults + 1
    /\ WriteClose(p, "InternalErr")
    /\ UNCHANGED <<clientVars, evSeq, detached, loop, held, deviceVars,
                   sysSent, inMsgs>>

\* MsgLoop: ReadMessage returns the next frame the device sent and
\* UnmarshalMsg accepts it; the loop goes on to hand the message over.
ReadMsg(p) ==
    /\ loop[p] = "reading"
    /\ connUp[p]
    /\ up[p] # <<>>
    /\ held' = [held EXCEPT ![p] = Head(up[p])]
    /\ up' = [up EXCEPT ![p] = Tail(@)]
    /\ loop' = [loop EXCEPT ![p] = "forwarding"]
    /\ UNCHANGED <<clientVars, closed, evSeq, detached, connUp, wire,
                   deviceVars, counters>>

\* MsgLoop: UnmarshalMsg rejects the next frame (bad MAC): close with
\* 1007; the frames behind it are lost with the socket.
ReadInvalid(p) ==
    /\ loop[p] = "reading"
    /\ connUp[p]
    /\ up[p] # <<>>
    /\ faults < MaxFaults
    /\ faults' = faults + 1
    /\ CloseWithMessage(p, "InvalidFrame")
    /\ ExitLoop(p)
    /\ UNCHANGED <<written, clientDone, lastPeer, lastRecvMsg, toRoom, evSeq,
                   detached, deviceVars, sysSent, inMsgs>>

\* MsgLoop: ReadMessage fails once the socket is closed or broken.  The
\* unlocked read of p.closed and the kind of error decide whether
\* closeWithMessage(1011) is called; it is itself a no-op on a closed Peer.
ReadFail(p) ==
    /\ loop[p] = "reading"
    /\ ~connUp[p]
    /\ \/ CloseWithMessage(p, "InternalErr")
       \/ UNCHANGED <<wire, closed, connUp, up>>
    /\ ExitLoop(p)
    /\ UNCHANGED <<written, clientDone, lastPeer, lastRecvMsg, toRoom, evSeq,
                   detached, deviceVars, counters>>

\* The Client's loop takes the message from its Peer: it records the msg
\* seq (reported in the next PeerReady) and passes the message to the room.
Deliver(p) ==
    /\ lastRecvMsg' = held[p]
    /\ toRoom' = Append(toRoom, held[p])

\* Mutant: the forwarding select has no case for p.detached.
ForwardNoDetach(p) ==
    /\ loop[p] = "forwarding"
    /\ \/ /\ clientDone
          /\ ExitLoop(p)
          /\ UNCHANGED <<lastRecvMsg, toRoom>>
       \/ /\ current = p /\ ~clientDone
          /\ Deliver(p)
          /\ loop' = [loop EXCEPT ![p] = "reading"]
          /\ held' = [held EXCEPT ![p] = 0]
          /\ UNCHANGED current
    /\ UNCHANGED <<written, clientDone, lastPeer, closed, evSeq, detached,
                   connUp, wire, up, deviceVars, counters>>

\* MsgLoop's select: leave on p.detached or client.done, or hand the
\* message to the Client's loop, which reads only its current Peer.
Forward(p) ==
    /\ loop[p] = "forwarding"
    /\ \/ /\ detached[p] \/ clientDone
          /\ ExitLoop(p)
          /\ UNCHANGED <<lastRecvMsg, toRoom>>
       \/ /\ current = p /\ ~clientDone
          /\ Deliver(p)
          /\ loop' = [loop EXCEPT ![p] = "reading"]
          /\ held' = [held EXCEPT ![p] = 0]
          /\ UNCHANGED current
    /\ UNCHANGED <<written, clientDone, lastPeer, closed, evSeq, detached,
                   connUp, wire, up, deviceVars, counters>>

-----------------------------------------------------------------------------
(* The network and the device (the client SDK, from the spec).             *)

\* The socket of p breaks: frames in flight are lost.
NetworkDrop(p) ==
    /\ connUp[p]
    /\ faults < MaxFaults
    /\ faults' = faults + 1
    /\ connUp' = [connUp EXCEPT ![p] = FALSE]
    /\ wire' = [wire EXCEPT ![p] = <<>>]
    /\ up' = [up EXCEPT ![p] = <<>>]
    /\ UNCHANGED <<clientVars, closed, evSeq, detached, loop, held, deviceVars,
                   sysSent, inMsgs>>

\* The device opens a socket with the last event seq it processed; the
\* game server's handler creates a Peer for it.
Connect ==
    /\ dstate = "idle"
    /\ lastPeer < MaxConns
    /\ LET p == lastPeer + 1 IN
         /\ lastPeer' = p
         /\ dconn' = p
         /\ dstate' = "open"
         /\ dready' = FALSE
         /\ NewPeer(p, Len(recv))
    /\ UNCHANGED <<written, clientDone, lastRecvMsg, toRoom, recv, dnext,
                   counters>>

\* The device processes the next frame of its socket; PeerReady tells it
\* to go on sending from the message after the one it names; a close
\* frame ends the socket, and with 1000 or 1001 the device gives up.
Receive ==
    /\ dstate = "open"
    /\ wire[dconn] # <<>>
    /\ LET f == Head(wire[dconn]) IN
         /\ wire' = [wire EXCEPT ![dconn] = Tail(@)]
         /\ recv' = IF f.t = "ev" THEN Append(recv, f.seq) ELSE recv
         /\ dstate' = IF f.t # "close" THEN dstate
                      ELSE IF f.code \in NoReconnect THEN "gone" ELSE "idle"
         /\ IF f.t = "ready" THEN dnext' = f.seq + 1 /\ dready' = TRUE
                             ELSE UNCHANGED <<dnext, dready>>
    /\ UNCHANGED <<clientVars, closed, evSeq, detached, loop, connUp, up,
                   held, dconn, counters>>

\* The socket ended without a close frame (CloseAbnormalClosure): the
\* device will reconnect.
Lost ==
    /\ dstate = "open"
    /\ ~connUp[dconn]
    /\ wire[dconn] = <<>>
    /\ dstate' = "idle"
    /\ UNCHANGED <<clientVars, peerVars, recv, dconn, dnext, dready, counters>>

\* The device writes message dnext to its socket: a new one, or one it
\* resends after PeerReady; on a broken socket the frame is lost.
DeviceSend ==
    /\ dstate = "open"
    /\ dready
    /\ dnext <= MaxInMsgs
    /\ up' = [up EXCEPT ![dconn] = IF connUp[dconn] THEN Append(@, dnext) ELSE @]
    /\ dnext' = dnext + 1
    /\ inMsgs' = IF dnext > inMsgs THEN dnext ELSE inMsgs
    /\ UNCHANGED <<clientVars, closed, evSeq, detached, loop, connUp, wire,
                   held, recv, dconn, dstate, dready, faults, sysSent>>

-----------------------------------------------------------------------------
Init ==
    /\ written = 0
    /\ clientDone = FALSE
    /\ current = 0
    /\ lastPeer = 0
    /\ closed = [p \in PeerIDs |-> FALSE]
    /\ evSeq = [p \in PeerIDs |-> 0]
    /\ detached = [p \in PeerIDs |-> FALSE]
    /\ loop = [p \in PeerIDs |-> "none"]
    /\ connUp = [p \in PeerIDs |-> FALSE]
    /\ wire = [p \in PeerIDs |-> <<>>]
    /\ recv = <<>>
    /\ dconn = 0
    /\ dstate = "idle"
    /\ faults = 0
    /\ sysSent = 0
    /\ inMsgs = 0
    /\ up = [p \in PeerIDs |-> <<>>]
    /\ held = [p \in PeerIDs |-> 0]
    /\ lastRecvMsg = 0
    /\ toRoom = <<>>
    /\ dnext = 1
    /\ dready = FALSE

PeerStep(p) ==
    \/ SendEvents(p) \/ SendSystemEvent(p) \/ CloseWithClientError(p)
    \/ ReadMsg(p) \/ ReadInvalid(p) \/ ReadFail(p) \/ Forward(p)
    \/ NetworkDrop(p)

Next ==
    \/ Send \/ Removed \/ Connect \/ Receive \/ Lost \/ DeviceSend
    \/ \E p \in PeerIDs : PeerStep(p)

\* Goroutines that can move are scheduled: the Client's event loop
\* (SendEvents), each MsgLoop leaving a dead socket or handing over a
\* message, and the device, which reconnects until told not to.  The
\* room's sends and removals, system events, incoming frames and faults
\* are the environment's choice.
Fairness ==
    /\ WF_vars(Connect) /\ WF_vars(Receive) /\ WF_vars(Lost)
    /\ \A p \in PeerIDs : WF_vars(SendEvents(p)) /\ WF_vars(ReadFail(p))
                          /\ WF_vars(Forward(p))

Spec == Init /\ [][Next]_vars /\ Fairness

-----------------------------------------------------------------------------
TypeOK ==
    /\ written \in 0..MaxEvents /\ clientDone \in BOOLEAN
    /\ current \in 0..MaxConns /\ lastPeer \in 0..MaxConns
    /\ closed \in [PeerIDs -> BOOLEAN] /\ detached \in [PeerIDs -> BOOLEAN]
    /\ evSeq \in [PeerIDs -> 0..MaxEvents]
    /\ loop \in [PeerIDs -> {"none", "reading", "forwarding", "exited"}]
    /\ connUp \in [PeerIDs -> BOOLEAN]
    /\ wire \in [PeerIDs -> Seq(Frames)]
    /\ recv \in Seq(1..MaxEvents)
    /\ dconn \in 0..MaxConns /\ dstate \in {"idle", "open", "gone"}
    /\ faults \in 0..MaxFaults
    /\ inMsgs \in 0..MaxInMsgs /\ dnext \in 1..(MaxInMsgs + 2)
    /\ up \in [PeerIDs -> Seq(1..MaxInMsgs)]
    /\ held \in [PeerIDs -> 0..MaxInMsgs]
    /\ lastRecvMsg \in 0..MaxInMsgs /\ toRoom \in Seq(1..MaxInMsgs)

\* Every MsgLoop whose socket is closed or broken eventually ends, also
\* when it holds a message its Client no longer reads (the forwarding
\* select, peer.go 207-215).
PeerLoopEnds ==
    \A p \in PeerIDs :
        (loop[p] \in {"reading", "forwarding"} /\ ~connUp[p])
            ~> loop[p] = "exited"

ES == INSTANCE EventStream WITH received <- recv, ended <- (dstate = "gone")

\* The Peers, the Client's ring and the reconnecting device implement the
\* event stream: the device processes events 1, 2, 3, ... in order, each
\* once, with no gap, across reconnects, partial writes and evictions, and
\* with the scheduling of Fairness it eventually processes every written
\* event unless it was told to give up.
ImplementsEventStream == ES!Spec

MS == INSTANCE EventStream WITH MaxEvents <- MaxInMsgs, written <- inMsgs,
                                received <- toRoom, ended <- clientDone

\* The device's messages reach the room through the Peers and the Client
\* as the stream 1, 2, 3, ... in order, each once, with no gap: a message
\* a detached or failing MsgLoop dropped, or one lost with its socket, is
\* sent again from the seq after the one PeerReady names (SendReady with
\* the Client's last received msg seq), and none is passed on twice.
ImplementsMsgStream == MS!SafetySpec
=============================================================================

---------------------------- MODULE EventCodec -----------------------------
(***************************************************************************)
(* The event frames of the wire protocol (binary/event.go): how the server *)
(* marshals regular, response and system events and how UnmarshalEvent    *)
(* (used by the client libraries and the test tools) reads a frame back.   *)
(* A frame is a sequence of bytes (0..255).  The big-endian helpers put24, *)
(* put32, get24, get32 live in binary/marshal.go, outside this tree, and   *)
(* are written from the spec (section 5, "integers are big-endian").       *)
(*                                                                         *)
(* The state is one trip of a frame: the event handed to Marshal (sent),   *)
(* the bytes on the wire (frame) and what UnmarshalEvent made of them      *)
(* (got).  A frame may also be any byte string a peer could receive.      *)
(***************************************************************************)
EXTENDS Integers, Sequences

CONSTANTS
    Seqs,       \* event sequence numbers to try (below 2^31, TLC's limit)
    MsgSeqs,    \* message sequence numbers to try (24-bit on the wire)
    Payloads,   \* payload byte strings to try
    RawTypes    \* first bytes of arbitrary received frames

ASSUME /\ Seqs \subseteq 0..2147483647 /\ MsgSeqs \subseteq Nat
       /\ RawTypes \subseteq 0..255

VARIABLES sent, frame, got
vars == <<sent, frame, got>>

None == [kind |-> "none"]

\* EvType values (event.go 12-77): system types count from 1, regular
\* types from regularEvType = 30, response types from responseEvType = 128.
RegularEvType  == 30
ResponseEvType == 128
EvTypePeerReady == 1
EvTypePong      == 2
SystemTypes   == {EvTypePeerReady, EvTypePong}
RegularTypes  == RegularEvType..(RegularEvType + 5)    \* Joined .. Message
ResponseTypes == ResponseEvType..(ResponseEvType + 2)  \* Succeeded .. TargetNotFound
KnownTypes == SystemTypes \cup RegularTypes \cup ResponseTypes

\* Big-endian put24/put32 of the low bits of n, and get24/get32.
Put24(n) == << (n \div 65536) % 256, (n \div 256) % 256, n % 256 >>
Put32(n) == << (n \div 16777216) % 256, (n \div 65536) % 256,
               (n \div 256) % 256, n % 256 >>
Get24(b) == (b[1] * 256 + b[2]) * 256 + b[3]
Get32(b) == ((b[1] * 256 + b[2]) * 256 + b[3]) * 256 + b[4]

\* RegularEvent.Marshal(seqNum): | EvType | 32-bit seq | payload |.
RegularMarshal(et, seq, payload) == <<et>> \o Put32(seq) \o payload

\* SystemEvent.Marshal: | EvType | payload |.
SystemMarshal(et, payload) == <<et>> \o payload

\* NewEvPeerReady: the payload is the 24-bit msg seq.
PeerReadyPayload(msgSeq) == Put24(msgSeq)

\* NewEvSucceeded / NewEvPermissionDenied / NewEvTargetNotFound: the
\* payload starts with the 24-bit msg seq of the message answered, then
\* (for the errors) further bytes.
ResponsePayload(msgSeq, rest) == Put24(msgSeq) \o rest

\* Mutant: the type test of UnmarshalEvent is off by one.
IsSystemTypeOffByOne(et) == et <= RegularEvType

\* UnmarshalEvent's test for an event without seq number (event.go 114).
IsSystemType(et) == et < RegularEvType

\* UnmarshalEvent (event.go 106-125): any first byte is accepted; below
\* regularEvType the rest is a system event's payload, otherwise four
\* bytes of seq number must follow.
UnmarshalEvent(data) ==
    IF Len(data) < 1 THEN [kind |-> "error"]
    ELSE LET et == data[1]
             rest == Tail(data)
         IN IF IsSystemType(et)
            THEN [kind |-> "system", et |-> et, payload |-> rest]
            ELSE IF Len(rest) < 4 THEN [kind |-> "error"]
            ELSE [kind |-> "regular", et |-> et, seq |-> Get32(SubSeq(rest, 1, 4)),
                  payload |-> SubSeq(rest, 5, Len(rest))]

\* UnmarshalEvPeerReadyPayload (event.go 162-168).
UnmarshalPeerReady(payload) ==
    IF Len(payload) < 3 THEN -1 ELSE Get24(payload)

-----------------------------------------------------------------------------
\* The room marshals a regular event (into the ring and out of SendEvents).
SendRegular ==
    \E et \in RegularTypes, s \in Seqs, p \in Payloads :
        /\ sent' = [kind |-> "regular", et |-> et, seq |-> s, payload |-> p]
        /\ frame' = RegularMarshal(et, s, p)
        /\ got' = None

\* The room answers a message with a response event; it goes through the
\* same ring and SendEvents as the regular ones.
SendResponse ==
    \E et \in ResponseTypes, s \in Seqs, m \in MsgSeqs, p \in Payloads :
        LET payload == ResponsePayload(m, p) IN
        /\ sent' = [kind |-> "response", et |-> et, seq |-> s, msgSeq |-> m,
                    payload |-> payload]
        /\ frame' = RegularMarshal(et, s, payload)
        /\ got' = None

\* Peer.SendReady: EvPeerReady with the last received msg seq.
SendPeerReady ==
    \E m \in MsgSeqs :
        /\ sent' = [kind |-> "ready", et |-> EvTypePeerReady, msgSeq |-> m]
        /\ frame' = SystemMarshal(EvTypePeerReady, PeerReadyPayload(m))
        /\ got' = None

\* Any frame a peer could receive: a first byte and some payload.
ReceiveRaw ==
    \E b \in RawTypes, p \in Payloads :
        /\ sent' = [kind |-> "raw", et |-> b]
        /\ frame' = <<b>> \o p
        /\ got' = None

Decode ==
    /\ got = None
    /\ sent # None
    /\ got' = UnmarshalEvent(frame)
    /\ UNCHANGED <<sent, frame>>

Init == sent = None /\ frame = <<>> /\ got = None

Next == SendRegular \/ SendResponse \/ SendPeerReady \/ ReceiveRaw \/ Decode

Spec == Init /\ [][Next]_vars

-----------------------------------------------------------------------------
\* Marshal and UnmarshalEvent agree: a regular or response event comes back
\* with its type, its seq number and its payload, and the msg seq of a
\* response and of EvPeerReady reads back from the payload.
RoundTrip ==
    got # None =>
        CASE sent.kind \in {"regular", "response"} ->
                /\ got.kind = "regular"
                /\ got.et = sent.et /\ got.seq = sent.seq
                /\ got.payload = sent.payload
                /\ sent.kind = "response" => Get24(got.payload) = sent.msgSeq
          [] sent.kind = "ready" ->
                /\ got.kind = "system" /\ got.et = EvTypePeerReady
                /\ UnmarshalPeerReady(got.payload) = sent.msgSeq
          [] OTHER -> TRUE

\* Spec section 5: a response event is | EvType (>= 128) | payload |, the
\* payload starting with the 24-bit msg seq; it carries no event seq.
ResponseFrameAsSpec ==
    sent.kind = "response" =>
        frame = <<sent.et>> \o sent.payload

\* Spec section 5: unknown event types must be rejected on decode.
UnknownTypeRejected ==
    (got # None /\ sent.kind = "raw" /\ sent.et \notin KnownTypes)
        => got.kind = "error"
=============================================================================

---------------------------- MODULE EventStream ----------------------------
(***************************************************************************)
(* What the server promises one client about its regular events (spec     *)
(* section 6 "Ordering guarantees" and section 8 invariant 4): the room    *)
(* writes events numbered 1, 2, 3, ... and the client's device receives    *)
(* them in that order, each once, with no gap, across any number of       *)
(* reconnects; or it is told to stop (CloseNormalClosure / GoingAway) and  *)
(* receives nothing more.  As long as it has not been told to stop, every  *)
(* written event is eventually received.                                   *)
(***************************************************************************)
EXTENDS Naturals, Sequences

CONSTANT MaxEvents      \* bound: events written to the client

VARIABLES
    written,    \* sequence number of the last event written
    received,   \* sequence numbers the device has processed, in order
    ended       \* the device has been told not to reconnect

vars == <<written, received, ended>>

Init == written = 0 /\ received = <<>> /\ ended = FALSE

Write ==
    /\ written < MaxEvents
    /\ written' = written + 1
    /\ UNCHANGED <<received, ended>>

Deliver ==
    /\ ~ended
    /\ Len(received) < written
    /\ received' = Append(received, Len(received) + 1)
    /\ UNCHANGED <<written, ended>>

End ==
    /\ ~ended
    /\ ended' = TRUE
    /\ UNCHANGED <<written, received>>

Next == Write \/ Deliver \/ End

\* The order and uniqueness of delivery alone.
SafetySpec == Init /\ [][Next]_vars

\* ... and every written event is delivered unless the device gave up.
Spec == SafetySpec /\ WF_vars(Deliver)
=============================================================================

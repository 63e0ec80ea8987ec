---------------------------- MODULE RoomRoster -----------------------------
(***************************************************************************)
(* What a room promises about its players and its master (spec 4.5,       *)
(* "Master election", and section 8 invariants 2 and 3), with clients      *)
(* named by id and nothing else:                                           *)
(*   - the creator is the first player and the master;                     *)
(*   - a joining id goes to the end of the arrival order; a rejoin changes *)
(*     neither the order nor the master;                                   *)
(*   - a leaving id drops out of the order; if it was the master, the      *)
(*     oldest remaining player becomes master; the last one to leave       *)
(*     closes the room;                                                    *)
(*   - a switch makes some current player master.                          *)
(* Nothing is promised about who may ask for a switch, or about the room's *)
(* capacity; the runs check those separately.                              *)
(***************************************************************************)
EXTENDS Sequences, SequencesExt

CONSTANTS ClientIDs, None

VARIABLES
    order,   \* the player ids in arrival order of their current occupancy
    master,  \* the master's id, None before the room is created
    closed   \* the last player has left

vars == <<order, master, closed>>

Init == order = <<>> /\ master = None /\ closed = FALSE

Create(id) ==
    /\ master = None
    /\ order' = <<id>>
    /\ master' = id
    /\ UNCHANGED closed

Join(id) ==
    /\ master # None
    /\ id \notin ToSet(order)
    /\ order' = Append(order, id)
    /\ UNCHANGED <<master, closed>>

Leave(id) ==
    /\ id \in ToSet(order)
    /\ LET rest == RemoveFirst(order, id) IN
         /\ order' = rest
         /\ master' = IF master = id /\ rest # <<>> THEN Head(rest) ELSE master
         /\ closed' = (closed \/ rest = <<>>)

Switch(id) ==
    /\ id \in ToSet(order)
    /\ master' = id
    /\ UNCHANGED <<order, closed>>

Next == \E id \in ClientIDs : Create(id) \/ Join(id) \/ Leave(id) \/ Switch(id)

Spec == Init /\ [][Next]_vars
=============================================================================

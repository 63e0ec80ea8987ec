-------------------------- MODULE RoomInfoUpdater --------------------------
(***************************************************************************)
(* The RoomInfo publisher of a room (server/game/room.go 235-279).        *)
(*                                                                         *)
(* The room side (updateRoomInfo, called from handlers and removal        *)
(* goroutines) stores a clone of RoomInfo in lastRoomInfo under mRoomInfo *)
(* and puts a token into chRoomInfo (capacity 1) without blocking.  The   *)
(* roomInfoUpdater goroutine waits for a token or for done, obtains a DB   *)
(* connection (retrying after a failure), then under mRoomInfo takes the  *)
(* latest clone and drains the token, and writes the clone to the DB.     *)
(* A RoomInfo is abstracted to its version: the number of updates so far. *)
(***************************************************************************)
EXTENDS Naturals

CONSTANTS
    MaxUpdates,       \* bound: calls of updateRoomInfo
    MaxConnFailures   \* bound: failed repo.db.Connx calls

VARIABLES
    lastRoomInfo,  \* version of r.lastRoomInfo
    chRoomInfo,    \* r.chRoomInfo holds its one token
    done,          \* r.done has been closed
    pc,            \* roomInfoUpdater: "wait", "connect", "snapshot", "write", "exited"
    ri,            \* the updater's local ri
    db,            \* version of the room row in the DB
    connFailures   \* failed Connx calls so far

vars == <<lastRoomInfo, chRoomInfo, done, pc, ri, db, connFailures>>

Init ==
    /\ lastRoomInfo = 0
    /\ chRoomInfo = FALSE
    /\ done = FALSE
    /\ pc = "wait"
    /\ ri = 0
    /\ db = 0
    /\ connFailures = 0

\* updateRoomInfo (room.go 270-279): clone under the lock, then a
\* non-blocking send (a full channel keeps its single token).
UpdateRoomInfo ==
    /\ lastRoomInfo < MaxUpdates
    /\ lastRoomInfo' = lastRoomInfo + 1
    /\ chRoomInfo' = TRUE
    /\ UNCHANGED <<done, pc, ri, db, connFailures>>

\* The last player leaves: removePlayer closes done.
CloseDone ==
    /\ ~done
    /\ done' = TRUE
    /\ UNCHANGED <<lastRoomInfo, chRoomInfo, pc, ri, db, connFailures>>

\* The outer select (room.go 236-240): either ready case may be taken.
Wait ==
    /\ pc = "wait"
    /\ \/ /\ done
          /\ pc' = "exited"
          /\ UNCHANGED chRoomInfo
       \/ /\ chRoomInfo
          /\ chRoomInfo' = FALSE
          /\ pc' = "connect"
    /\ UNCHANGED <<lastRoomInfo, done, ri, db, connFailures>>

\* Mutant: a failed connection drops the notification (break for continue).
ConnFailDrop ==
    /\ pc = "connect"
    /\ connFailures < MaxConnFailures
    /\ connFailures' = connFailures + 1
    /\ pc' = "wait"
    /\ UNCHANGED <<lastRoomInfo, chRoomInfo, done, ri, db>>

\* Connx fails: log, sleep a second and try again (room.go 244-249).
ConnFail ==
    /\ pc = "connect"
    /\ connFailures < MaxConnFailures
    /\ connFailures' = connFailures + 1
    /\ UNCHANGED <<lastRoomInfo, chRoomInfo, done, pc, ri, db>>

\* Connx succeeds (room.go 244, 250-252).
Connected ==
    /\ pc = "connect"
    /\ pc' = "snapshot"
    /\ UNCHANGED <<lastRoomInfo, chRoomInfo, done, ri, db, connFailures>>

\* Under mRoomInfo: take the latest clone and drain a pending token
\* (room.go 254-260).
Snapshot ==
    /\ pc = "snapshot"
    /\ ri' = lastRoomInfo
    /\ chRoomInfo' = FALSE
    /\ pc' = "write"
    /\ UNCHANGED <<lastRoomInfo, done, db, connFailures>>

\* Mutant: the goroutine returns after its first write.
WriteThenReturn ==
    /\ pc = "write"
    /\ db' = ri
    /\ pc' = "exited"
    /\ UNCHANGED <<lastRoomInfo, chRoomInfo, done, ri, connFailures>>

\* repo.updateRoomInfo, conn.Close and break back to the select
\* (room.go 262-264).
Write ==
    /\ pc = "write"
    /\ db' = ri
    /\ pc' = "wait"
    /\ UNCHANGED <<lastRoomInfo, chRoomInfo, done, ri, connFailures>>

Updater == Wait \/ ConnFail \/ Connected \/ Snapshot \/ Write

Next == UpdateRoomInfo \/ CloseDone \/ Updater

\* The goroutine is scheduled whenever it can move; Connx is retried and,
\* once the failure bound is used up, succeeds.
Spec == Init /\ [][Next]_vars /\ WF_vars(Wait) /\ WF_vars(Connected)
        /\ WF_vars(Snapshot) /\ WF_vars(Write)

-----------------------------------------------------------------------------
\* No update is lost: whenever the updater is idle with no token pending,
\* the DB row already holds the latest RoomInfo clone.
NoLostUpdate ==
    (pc = "wait" /\ ~chRoomInfo) => db = lastRoomInfo

\* Every RoomInfo clone reaches the DB, unless the room closes first (the
\* updater then stops at its select).
EventuallyPersisted ==
    \A k \in 1..MaxUpdates : (lastRoomInfo = k) ~> (db >= k \/ done)
=============================================================================

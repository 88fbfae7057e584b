---------------------------- MODULE RoomInventory ----------------------------
(***************************************************************************)
(* Rooms taken out of service while they are being booked.                 *)
(*                                                                         *)
(* updateRoom and deleteRoom (services/roomService.js) read the room, look *)
(* for active bookings of it when it is to go out of service, and then     *)
(* write it by id, in three statements without a transaction or a lock.    *)
(* createBooking reads the status of its rooms some statements before its  *)
(* insert becomes visible, and a life-cycle call may write a booking back  *)
(* from a status it read earlier (BookingService has all their steps; here *)
(* each is a read and a write).                                            *)
(***************************************************************************)
EXTENDS Naturals, FiniteSets

CONSTANTS
    InvRooms,      \* rooms
    InvBookings,   \* createBooking calls, each with the name of its booking
    RoomsOf,       \* the rooms each of them resolves to
    Desk           \* updateRoom and deleteRoom calls

ASSUME InventoryAssumption ==
    /\ InvRooms # {}
    /\ RoomsOf \in [InvBookings -> (SUBSET InvRooms) \ {{}}]

OUT_OF_SERVICE_STATUSES == {"maintenance", "inactive"}
RoomStates == {"available", "occupied"} \cup OUT_OF_SERVICE_STATUSES

VARIABLES
    roomState,     \* rooms.status; "absent" before the room is created
    removed,       \* rooms with deleted_at set
    stay,          \* where each booking is: its call, then bookings.status
    ended,         \* bookings whose check-out date has passed
    moving,        \* life-cycle calls that have read their booking, not written
    desk,          \* each staff call: where it is, what it wants, what it read
    overtaken,     \* history: staff calls whose room was booked after their check
    raced          \* history: a write or a booking went ahead on such a read

inventoryVars == <<roomState, removed, stay, ended, moving, desk, overtaken, raced>>

\* (mutant: a guest who has arrived does not count)
HeldOrConfirmed == {"held", "confirmed"}

\* availabilityService.js
BLOCKING_STATUSES == {"held", "confirmed", "checked_in"}

Blocks(b) == stay[b] \in {"held", "confirmed", "checked_in"}

Bookable(r) == r \notin removed /\ roomState[r] \in {"available", "occupied"}

Started == [at |-> "start", op |-> "update", room |-> CHOOSE r \in InvRooms : TRUE, new |-> "available"]

InventoryInit ==
    /\ roomState \in [InvRooms -> {"available", "absent"}]
    /\ removed = {}
    /\ stay = [b \in InvBookings |-> "new"]
    /\ ended = {}
    /\ moving = {}
    /\ desk = [d \in Desk |-> Started]
    /\ overtaken = {}
    /\ raced = FALSE

-----------------------------------------------------------------------------
\* roomService.js

createRoom(r, status) ==
    /\ roomState[r] = "absent"
    /\ roomState' = [roomState EXCEPT ![r] = status]
    /\ UNCHANGED <<removed, stay, ended, moving, desk, overtaken, raced>>

\* What the call asks for, and where it goes on.
Asked(d, where, op, r, new) ==
    desk' = [desk EXCEPT ![d] = [at |-> where, op |-> op, room |-> r, new |-> new]]

\* findByIdRaw of updateRoom; only a status that takes the room out of
\* service, and is not its status already, makes the call look for bookings.
updateRoom(d, r, new) ==
    /\ desk[d].at = "start"
    /\ r \notin removed /\ roomState[r] # "absent"
    /\ Asked(d, IF new \in OUT_OF_SERVICE_STATUSES /\ new # roomState[r] THEN "check" ELSE "write",
             "update", r, new)
    /\ UNCHANGED <<roomState, removed, stay, ended, moving, overtaken, raced>>

deleteRoom(d, r) ==
    /\ desk[d].at = "start"
    /\ r \notin removed /\ roomState[r] # "absent"
    /\ Asked(d, "check", "delete", r, "inactive")
    /\ UNCHANGED <<roomState, removed, stay, ended, moving, overtaken, raced>>

\* roomRepository.js: bookings of the room in a blocking status, whose stay
\* has not fully ended.
findActiveBlockingBookings(r) ==
    {b \in InvBookings : r \in RoomsOf[b] /\ b \notin ended /\ stay[b] \in BLOCKING_STATUSES}

At(d, where) == desk' = [desk EXCEPT ![d].at = where]

assertNoBlockingBookings(d) ==
    /\ desk[d].at = "check"
    /\ At(d, IF findActiveBlockingBookings(desk[d].room) = {} THEN "write" ELSE "refused")
    /\ UNCHANGED <<roomState, removed, stay, ended, moving, overtaken, raced>>

TakesOut(d) == desk[d].new \in OUT_OF_SERVICE_STATUSES

\* roomRepository.update and softDelete: by id, whatever the row is now.
writeRoom(d) ==
    /\ desk[d].at = "write"
    /\ roomState' = [roomState EXCEPT ![desk[d].room] = desk[d].new]
    /\ removed' = IF desk[d].op = "delete" THEN removed \cup {desk[d].room} ELSE removed
    /\ At(d, "done")
    /\ raced' = (raced \/ (d \in overtaken /\ TakesOut(d)))
    /\ UNCHANGED <<stay, ended, moving, overtaken>>

-----------------------------------------------------------------------------
\* bookingService.js

\* The rooms as createBooking loads them.
loadRooms(b) ==
    /\ stay[b] = "new"
    /\ stay' = [stay EXCEPT ![b] = IF \A r \in RoomsOf[b] : Bookable(r) THEN "loaded" ELSE "refused"]
    /\ UNCHANGED <<roomState, removed, ended, moving, desk, overtaken, raced>>

\* Booking b comes to block its rooms: staff calls that are past their check
\* did not see it, and b did not see what became of its rooms meanwhile.
ComesToBlock(b) ==
    /\ overtaken' = overtaken \cup {d \in Desk : desk[d].at = "write" /\ desk[d].room \in RoomsOf[b]}
    /\ raced' = (raced \/ \E r \in RoomsOf[b] : ~Bookable(r))

insertBooking(b) ==
    /\ stay[b] = "loaded"
    /\ \E new \in {"held", "confirmed"} : stay' = [stay EXCEPT ![b] = new]
    /\ ComesToBlock(b)
    /\ UNCHANGED <<roomState, removed, ended, moving, desk>>

AllowedFrom(op) ==
    CASE op = "confirm"  -> {"held"}
      [] op = "cancel"   -> BLOCKING_STATUSES
      [] op = "checkIn"  -> {"confirmed"}
      [] op = "checkOut" -> {"checked_in"}

BecomesOf(op) ==
    CASE op = "confirm"  -> "confirmed"
      [] op = "cancel"   -> "cancelled"
      [] op = "checkIn"  -> "checked_in"
      [] op = "checkOut" -> "checked_out"

\* The read of a life-cycle call (cancel stands for the sweeper too).
readBooking(b, op) ==
    /\ stay[b] \in AllowedFrom(op)
    /\ moving' = moving \cup {<<b, op>>}
    /\ UNCHANGED <<roomState, removed, stay, ended, desk, overtaken, raced>>

\* Check-in and check-out write the rooms of the booking whatever they are.
RoomStatesAfter(b, op) ==
    [r \in InvRooms |->
        IF r \notin RoomsOf[b] THEN roomState[r]
        ELSE CASE op = "checkIn" -> "occupied" [] op = "checkOut" -> "available"
               [] OTHER -> roomState[r]]

\* The write of a life-cycle call, by id.
transitionStatus(b, op) ==
    /\ <<b, op>> \in moving
    /\ moving' = moving \ {<<b, op>>}
    /\ stay' = [stay EXCEPT ![b] = BecomesOf(op)]
    /\ roomState' = RoomStatesAfter(b, op)
    /\ IF ~Blocks(b) /\ BecomesOf(op) \in BLOCKING_STATUSES
       THEN ComesToBlock(b)
       ELSE UNCHANGED <<overtaken, raced>>
    /\ UNCHANGED <<removed, ended, desk>>

\* The check-out date of the stay passes.
stayEnds(b) ==
    /\ Blocks(b)
    /\ ended' = ended \cup {b}
    /\ UNCHANGED <<roomState, removed, stay, moving, desk, overtaken, raced>>

LifecycleOps == {"confirm", "cancel", "checkIn", "checkOut"}

InventoryNext ==
    \/ \E r \in InvRooms, s \in RoomStates : createRoom(r, s)
    \/ \E d \in Desk, r \in InvRooms :
          deleteRoom(d, r) \/ \E new \in RoomStates : updateRoom(d, r, new)
    \/ \E d \in Desk : assertNoBlockingBookings(d) \/ writeRoom(d)
    \/ \E b \in InvBookings : loadRooms(b) \/ insertBooking(b) \/ stayEnds(b)
    \/ \E b \in InvBookings, op \in LifecycleOps : readBooking(b, op) \/ transitionStatus(b, op)

InventorySpec == InventoryInit /\ [][InventoryNext]_inventoryVars

-----------------------------------------------------------------------------
\* Properties

StayStates == {"new", "loaded", "refused", "held", "confirmed", "checked_in",
               "checked_out", "cancelled"}

\* Every variable has its type.
InventoryTypeOK ==
    /\ roomState \in [InvRooms -> RoomStates \cup {"absent"}]
    /\ removed \subseteq InvRooms
    /\ stay \in [InvBookings -> StayStates]
    /\ ended \subseteq InvBookings
    /\ moving \subseteq InvBookings \X LifecycleOps
    /\ desk \in [Desk -> [at : {"start", "check", "write", "done", "refused"},
                          op : {"update", "delete"}, room : InvRooms, new : RoomStates]]
    /\ overtaken \subseteq Desk
    /\ raced \in BOOLEAN

\* The rooms of a booking that blocks them and has not ended.
Active(b) == Blocks(b) /\ b \notin ended

\* The comment of roomService.js:34-35: a room with a current or future booking
\* is never out of service, so that no guest arrives to find no room.  It holds
\* until a staff call writes, or a booking begins to block, on a read that the
\* other one overtook.
BookedInService ==
    raced \/ \A b \in InvBookings : Active(b) => \A r \in RoomsOf[b] : Bookable(r)

\* The inductive part: a staff call that is to take a room out, and was not
\* overtaken, still has no active booking on it.
CheckHolds ==
    \A d \in Desk :
        desk[d].at = "write" /\ TakesOut(d) /\ d \notin overtaken
            => \A b \in InvBookings : Active(b) => desk[d].room \notin RoomsOf[b]

=============================================================================

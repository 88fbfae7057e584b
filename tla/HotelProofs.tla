----------------------------- MODULE HotelProofs -----------------------------
(***************************************************************************)
(* Proofs about a hotel's rooms and prices.  RoomInventory: no room goes   *)
(* out of service under an active booking unless one of two statements was *)
(* overtaken by the other.  StayPrice: what was shown is what is booked,   *)
(* equal rooms cost the same, and cancellations are graded.                *)
(***************************************************************************)
EXTENDS RoomInventory, StayPrice, CountingLemmas, SequenceTheorems, TLAPS

Safe == raced \/ ((\A b \in InvBookings : Active(b) => \A r \in RoomsOf[b] : Bookable(r)) /\ CheckHolds)

\* A deletion makes the room inactive.
DeletionTakesOut == \A d \in Desk : desk[d].op = "delete" => TakesOut(d)

IInv == InventoryTypeOK /\ DeletionTakesOut /\ Safe

Deskwork == [at : {"start", "check", "write", "done", "refused"},
             op : {"update", "delete"}, room : InvRooms, new : RoomStates]

\* A booking's rooms are rooms.
LEMMA RoomsOfType == \A b \in InvBookings : RoomsOf[b] \subseteq InvRooms
  BY InventoryAssumption

\* What a staff call asks for changes that call alone.
LEMMA AskedType ==
  ASSUME desk \in [Desk -> Deskwork], NEW d \in Desk, NEW job \in Deskwork, desk' = [desk EXCEPT ![d] = job]
  PROVE  /\ desk' \in [Desk -> Deskwork]
         /\ desk'[d] = job
         /\ \A e \in Desk \ {d} : desk'[e] = desk[e]
  OBVIOUS

\* A staff call that moves on changes that call alone.
LEMMA AtType ==
  ASSUME desk \in [Desk -> Deskwork], NEW d \in Desk,
         NEW where \in {"start", "check", "write", "done", "refused"}, At(d, where)
  PROVE  /\ desk' \in [Desk -> Deskwork]
         /\ desk'[d] = [desk[d] EXCEPT !.at = where]
         /\ \A e \in Desk \ {d} : desk'[e] = desk[e]
  BY DEF At, Deskwork

\* At the start nothing is booked.
LEMMA InventoryInitial == InventoryInit => IInv
  <1> SUFFICES ASSUME InventoryInit PROVE IInv
    OBVIOUS
  <1>1. InventoryTypeOK
    <2> (CHOOSE r \in InvRooms : TRUE) \in InvRooms
      BY InventoryAssumption
    <2>1. desk \in [Desk -> Deskwork]
      BY DEF InventoryInit, Started, Deskwork, RoomStates
    <2> QED
      BY <2>1 DEF InventoryInit, InventoryTypeOK, RoomStates, StayStates, Deskwork
  <1>2. DeletionTakesOut
    BY DEF InventoryInit, DeletionTakesOut, Started
  <1>3. Safe
    BY DEF InventoryInit, Safe, Active, Blocks, CheckHolds, Started
  <1> QED
    BY <1>1, <1>2, <1>3 DEF IInv
-----------------------------------------------------------------------------
\* The steps of staff calls.

\* A desk step that is not a write changes neither rooms nor bookings, so a call
\* that comes to its write must have no active booking on its room.
LEMMA DeskStep ==
  ASSUME IInv, UNCHANGED <<roomState, removed, stay, ended, overtaken, raced>>,
         desk' \in [Desk -> Deskwork], NEW d \in Desk, \A e \in Desk \ {d} : desk'[e] = desk[e],
         desk'[d].at = "write" /\ TakesOut(d)' /\ ~raced =>
             \A b \in InvBookings : Active(b) => desk'[d].room \notin RoomsOf[b]
  PROVE  Safe'
  <1> SUFFICES ASSUME ~raced
               PROVE  Safe'
    BY DEF Safe
  <1>1. \A b \in InvBookings : Active(b)' <=> Active(b)
    BY DEF Active, Blocks
  <1>2. \A b \in InvBookings : Active(b)' => \A r \in RoomsOf[b] : Bookable(r)'
    BY <1>1 DEF IInv, Safe, Bookable
  <1>3. CheckHolds'
    BY <1>1 DEF IInv, Safe, CheckHolds, TakesOut
  <1> QED
    BY <1>2, <1>3 DEF Safe

\* A room is created.
LEMMA CreateRoomSafe ==
  ASSUME IInv, NEW r \in InvRooms, NEW s \in RoomStates, createRoom(r, s)
  PROVE  IInv'
  <1>1. InventoryTypeOK'
    BY DEF IInv, InventoryTypeOK, createRoom
  <1>2. DeletionTakesOut'
    BY DEF IInv, DeletionTakesOut, createRoom, TakesOut
  <1>3. Safe'
    <2> SUFFICES ASSUME ~raced PROVE Safe'
      BY DEF Safe, createRoom
    <2>1. \A b \in InvBookings : Active(b)' <=> Active(b)
      BY DEF Active, Blocks, createRoom
    <2>2. ~Bookable(r)
      BY DEF Bookable, createRoom
    <2>3. \A q \in InvRooms : Bookable(q) => Bookable(q)'
      BY <2>2 DEF Bookable, createRoom, IInv, InventoryTypeOK
    <2>4. CheckHolds'
      BY <2>1 DEF IInv, Safe, CheckHolds, TakesOut, createRoom
    <2> QED
      BY <2>1, <2>3, <2>4, RoomsOfType DEF IInv, Safe
  <1> QED
    BY <1>1, <1>2, <1>3 DEF IInv

\* updateRoom reads the room.
LEMMA UpdateRoomSafe ==
  ASSUME IInv, NEW d \in Desk, NEW r \in InvRooms, NEW new \in RoomStates, updateRoom(d, r, new)
  PROVE  IInv'
  <1> DEFINE where == IF new \in OUT_OF_SERVICE_STATUSES /\ new # roomState[r] THEN "check" ELSE "write"
  <1>1. Asked(d, where, "update", r, new) /\ UNCHANGED <<roomState, removed, stay, ended, moving, overtaken, raced>>
    BY DEF updateRoom
  <1>2. /\ desk' \in [Desk -> Deskwork]
        /\ desk'[d] = [at |-> where, op |-> "update", room |-> r, new |-> new]
        /\ \A e \in Desk \ {d} : desk'[e] = desk[e]
    <2>1. desk \in [Desk -> Deskwork]
      BY DEF IInv, InventoryTypeOK, Deskwork
    <2>2. [at |-> where, op |-> "update", room |-> r, new |-> new] \in Deskwork
      BY DEF Deskwork
    <2> HIDE DEF where
    <2> QED
      BY <1>1, <2>1, <2>2, AskedType DEF Asked
  <1>3. InventoryTypeOK'
    BY <1>1, <1>2 DEF IInv, InventoryTypeOK, Deskwork
  <1>4. DeletionTakesOut'
    BY <1>2 DEF IInv, DeletionTakesOut, TakesOut
  <1>5. where = "write" /\ new \in OUT_OF_SERVICE_STATUSES => ~Bookable(r)
    BY DEF Bookable, OUT_OF_SERVICE_STATUSES
  <1>6. desk'[d].at = "write" /\ TakesOut(d)' /\ ~raced =>
            \A b \in InvBookings : Active(b) => desk'[d].room \notin RoomsOf[b]
    BY <1>2, <1>5 DEF TakesOut, IInv, Safe
  <1>7. Safe'
    BY <1>1, <1>2, <1>6, DeskStep
  <1> QED
    BY <1>3, <1>4, <1>7 DEF IInv

\* deleteRoom reads the room.
LEMMA DeleteRoomSafe ==
  ASSUME IInv, NEW d \in Desk, NEW r \in InvRooms, deleteRoom(d, r)
  PROVE  IInv'
  <1>1. Asked(d, "check", "delete", r, "inactive") /\ UNCHANGED <<roomState, removed, stay, ended, moving, overtaken, raced>>
    BY DEF deleteRoom
  <1>2. /\ desk' \in [Desk -> Deskwork]
        /\ desk'[d] = [at |-> "check", op |-> "delete", room |-> r, new |-> "inactive"]
        /\ \A e \in Desk \ {d} : desk'[e] = desk[e]
    <2>1. desk \in [Desk -> Deskwork]
      BY DEF IInv, InventoryTypeOK, Deskwork
    <2>2. [at |-> "check", op |-> "delete", room |-> r, new |-> "inactive"] \in Deskwork
      BY DEF Deskwork, RoomStates, OUT_OF_SERVICE_STATUSES
    <2> QED
      BY <1>1, <2>1, <2>2, AskedType DEF Asked
  <1>3. InventoryTypeOK'
    BY <1>1, <1>2 DEF IInv, InventoryTypeOK, Deskwork
  <1>4. DeletionTakesOut'
    BY <1>2 DEF IInv, DeletionTakesOut, TakesOut, OUT_OF_SERVICE_STATUSES
  <1>5. Safe'
    BY <1>1, <1>2, DeskStep
  <1> QED
    BY <1>3, <1>4, <1>5 DEF IInv

\* A staff call looks for blocking bookings.
LEMMA CheckSafe ==
  ASSUME IInv, NEW d \in Desk, assertNoBlockingBookings(d)
  PROVE  IInv'
  <1> DEFINE where == IF findActiveBlockingBookings(desk[d].room) = {} THEN "write" ELSE "refused"
  <1>1. At(d, where) /\ UNCHANGED <<roomState, removed, stay, ended, moving, overtaken, raced>>
    BY DEF assertNoBlockingBookings
  <1>2. /\ desk' \in [Desk -> Deskwork]
        /\ desk'[d] = [desk[d] EXCEPT !.at = where]
        /\ \A e \in Desk \ {d} : desk'[e] = desk[e]
    BY <1>1, AtType DEF IInv, InventoryTypeOK, Deskwork
  <1>3. InventoryTypeOK'
    BY <1>1, <1>2 DEF IInv, InventoryTypeOK, Deskwork
  <1>4. desk[d] \in Deskwork
    BY DEF IInv, InventoryTypeOK, Deskwork
  <1>5. desk'[d].at = where /\ desk'[d].op = desk[d].op /\ desk'[d].new = desk[d].new /\ desk'[d].room = desk[d].room
    BY <1>2, <1>4 DEF Deskwork
  <1>6. DeletionTakesOut'
    BY <1>2, <1>5 DEF IInv, DeletionTakesOut, TakesOut
  <1>7. desk'[d].at = "write" => \A b \in InvBookings : Active(b) => desk'[d].room \notin RoomsOf[b]
    BY <1>5 DEF findActiveBlockingBookings, Active, Blocks, BLOCKING_STATUSES
  <1>8. Safe'
    BY <1>1, <1>2, <1>7, DeskStep
  <1> QED
    BY <1>3, <1>6, <1>8 DEF IInv

\* The write takes a room out only when no booking came to it since the check,
\* or the race is on record.
LEMMA WriteRoomSafe ==
  ASSUME IInv, NEW d \in Desk, writeRoom(d)
  PROVE  IInv'
  <1>1. At(d, "done") /\ UNCHANGED <<stay, ended, moving, overtaken>>
    BY DEF writeRoom
  <1>2. /\ desk' \in [Desk -> Deskwork]
        /\ desk'[d] = [desk[d] EXCEPT !.at = "done"]
        /\ \A e \in Desk \ {d} : desk'[e] = desk[e]
    BY <1>1, AtType DEF IInv, InventoryTypeOK, Deskwork
  <1>3. desk[d] \in Deskwork
    BY DEF IInv, InventoryTypeOK, Deskwork
  <1>4. desk'[d].at = "done" /\ desk'[d].op = desk[d].op /\ desk'[d].new = desk[d].new
    BY <1>2, <1>3 DEF Deskwork
  <1>5. InventoryTypeOK'
    <2>1. roomState' \in [InvRooms -> RoomStates \cup {"absent"}]
      BY <1>3 DEF IInv, InventoryTypeOK, writeRoom, Deskwork
    <2>2. removed' \subseteq InvRooms
      BY <1>3 DEF IInv, InventoryTypeOK, writeRoom, Deskwork
    <2>3. raced' \in BOOLEAN
      BY DEF writeRoom
    <2> QED
      BY <1>1, <1>2, <2>1, <2>2, <2>3 DEF IInv, InventoryTypeOK, Deskwork
  <1>6. DeletionTakesOut'
    BY <1>2, <1>4 DEF IInv, DeletionTakesOut, TakesOut
  <1>7. Safe'
    <2> SUFFICES ASSUME ~raced' PROVE Safe'
      BY DEF Safe
    <2>1. ~raced /\ (TakesOut(d) => d \notin overtaken)
      BY DEF writeRoom
    <2>2. \A b \in InvBookings : Active(b)' <=> Active(b)
      BY <1>1 DEF Active, Blocks
    <2>3. CheckHolds'
      BY <1>1, <1>2, <1>4, <2>1, <2>2 DEF IInv, Safe, CheckHolds, TakesOut
    <2>4. TakesOut(d) => \A b \in InvBookings : Active(b) => desk[d].room \notin RoomsOf[b]
      BY <2>1 DEF IInv, Safe, CheckHolds, writeRoom
    <2>5. \A r \in InvRooms \ {desk[d].room} : Bookable(r) => Bookable(r)'
      BY DEF writeRoom, Bookable, IInv, InventoryTypeOK
    <2>6. ~TakesOut(d) => \A r \in InvRooms : Bookable(r) => Bookable(r)'
      <3>1. ~TakesOut(d) => removed' = removed /\ desk[d].new \in {"available", "occupied"}
        BY <1>3 DEF IInv, DeletionTakesOut, writeRoom, TakesOut, Deskwork, RoomStates
      <3>2. \A r \in InvRooms : roomState'[r] = IF r = desk[d].room THEN desk[d].new ELSE roomState[r]
        BY <1>3 DEF writeRoom, IInv, InventoryTypeOK
      <3> QED
        BY <3>1, <3>2 DEF Bookable
    <2>7. \A b \in InvBookings : Active(b) => \A r \in RoomsOf[b] : Bookable(r)'
      BY <2>1, <2>4, <2>5, <2>6, RoomsOfType DEF IInv, Safe
    <2> QED
      BY <2>2, <2>3, <2>7 DEF Safe
  <1> QED
    BY <1>5, <1>6, <1>7 DEF IInv
-----------------------------------------------------------------------------
\* The steps of bookings.

\* A step after which b and no other booking may have come to block, when it has
\* left the rooms as they were.
LEMMA BookingComes ==
  ASSUME IInv, NEW b \in InvBookings, UNCHANGED <<removed, desk, ended>>, ComesToBlock(b),
         \A a \in InvBookings \ {b} : stay'[a] = stay[a],
         \A r \in InvRooms : Bookable(r) => Bookable(r)'
  PROVE  Safe'
  <1> SUFFICES ASSUME ~raced' PROVE Safe'
    BY DEF Safe
  <1>1. ~raced /\ \A r \in RoomsOf[b] : Bookable(r)
    BY DEF ComesToBlock
  <1>2. \A a \in InvBookings \ {b} : Active(a)' => Active(a)
    BY DEF Active, Blocks
  <1>3. \A a \in InvBookings : Active(a)' => \A r \in RoomsOf[a] : Bookable(r)'
    BY <1>1, <1>2, RoomsOfType DEF IInv, Safe
  <1>4. \A d \in Desk : desk[d].at = "write" /\ d \notin overtaken' =>
            d \notin overtaken /\ desk[d].room \notin RoomsOf[b]
    BY DEF ComesToBlock
  <1>5. CheckHolds'
    BY <1>1, <1>2, <1>4 DEF IInv, Safe, CheckHolds, TakesOut
  <1> QED
    BY <1>3, <1>5 DEF Safe

\* A step after which no further booking is active.
LEMMA NoneComes ==
  ASSUME IInv, UNCHANGED <<removed, desk, overtaken, raced>>,
         \A a \in InvBookings : Active(a)' => Active(a),
         \A r \in InvRooms : Bookable(r) => Bookable(r)'
  PROVE  Safe'
  <1> SUFFICES ASSUME ~raced PROVE Safe'
    BY DEF Safe
  <1>1. \A a \in InvBookings : Active(a)' => \A r \in RoomsOf[a] : Bookable(r)'
    BY RoomsOfType DEF IInv, Safe
  <1>2. CheckHolds'
    BY DEF IInv, Safe, CheckHolds, TakesOut
  <1> QED
    BY <1>1, <1>2 DEF Safe

\* The bookings that come to block are bookings.
LEMMA ComesToBlockType ==
  ASSUME InventoryTypeOK, NEW b \in InvBookings, ComesToBlock(b)
  PROVE  overtaken' \subseteq Desk /\ raced' \in BOOLEAN
  BY DEF ComesToBlock, InventoryTypeOK

\* A booking reads its rooms.
LEMMA LoadRoomsSafe ==
  ASSUME IInv, NEW b \in InvBookings, loadRooms(b)
  PROVE  IInv'
  <1>1. InventoryTypeOK'
    BY DEF IInv, InventoryTypeOK, loadRooms, StayStates
  <1>2. DeletionTakesOut'
    BY DEF IInv, DeletionTakesOut, loadRooms, TakesOut
  <1>3. \A a \in InvBookings : Active(a)' => Active(a)
    BY DEF Active, Blocks, loadRooms, IInv, InventoryTypeOK
  <1>4. Safe'
    BY <1>3, NoneComes DEF loadRooms, Bookable
  <1> QED
    BY <1>1, <1>2, <1>4 DEF IInv

\* A booking becomes visible.
LEMMA InsertBookingSafe ==
  ASSUME IInv, NEW b \in InvBookings, insertBooking(b)
  PROVE  IInv'
  <1>1. InventoryTypeOK'
    BY ComesToBlockType DEF IInv, InventoryTypeOK, insertBooking, StayStates
  <1>2. DeletionTakesOut'
    BY DEF IInv, DeletionTakesOut, insertBooking, TakesOut
  <1>3. \A a \in InvBookings \ {b} : stay'[a] = stay[a]
    BY DEF insertBooking, IInv, InventoryTypeOK
  <1>4. Safe'
    BY <1>3, BookingComes DEF insertBooking, Bookable
  <1> QED
    BY <1>1, <1>2, <1>4 DEF IInv

\* A stay ends.
LEMMA StayEndsSafe ==
  ASSUME IInv, NEW b \in InvBookings, stayEnds(b)
  PROVE  IInv'
  <1>1. InventoryTypeOK'
    BY DEF IInv, InventoryTypeOK, stayEnds
  <1>2. DeletionTakesOut'
    BY DEF IInv, DeletionTakesOut, stayEnds, TakesOut
  <1>3. \A a \in InvBookings : Active(a)' => Active(a)
    BY DEF Active, Blocks, stayEnds
  <1>4. Safe'
    BY <1>3, NoneComes DEF stayEnds, Bookable
  <1> QED
    BY <1>1, <1>2, <1>4 DEF IInv

\* A life-cycle call reads the booking.
LEMMA ReadBookingSafe ==
  ASSUME IInv, NEW b \in InvBookings, NEW op \in LifecycleOps, readBooking(b, op)
  PROVE  IInv'
  <1>1. InventoryTypeOK'
    BY DEF IInv, InventoryTypeOK, readBooking
  <1>2. DeletionTakesOut'
    BY DEF IInv, DeletionTakesOut, readBooking, TakesOut
  <1>3. \A a \in InvBookings : Active(a)' => Active(a)
    BY DEF Active, Blocks, readBooking
  <1>4. Safe'
    BY <1>3, NoneComes DEF readBooking, Bookable
  <1> QED
    BY <1>1, <1>2, <1>4 DEF IInv

\* Check-in and check-out only make rooms bookable; a booking that comes back from
\* a status it had lost is on record when its room has gone meanwhile.
LEMMA TransitionStatusSafe ==
  ASSUME IInv, NEW b \in InvBookings, NEW op \in LifecycleOps, transitionStatus(b, op)
  PROVE  IInv'
  <1> DEFINE comes == ~Blocks(b) /\ BecomesOf(op) \in BLOCKING_STATUSES
  <1>1. BecomesOf(op) \in StayStates
    BY DEF BecomesOf, StayStates, LifecycleOps
  <1>2. RoomStatesAfter(b, op) \in [InvRooms -> RoomStates \cup {"absent"}]
    BY DEF RoomStatesAfter, IInv, InventoryTypeOK, RoomStates
  <1>3. overtaken' \subseteq Desk /\ raced' \in BOOLEAN
    BY ComesToBlockType DEF transitionStatus, IInv, InventoryTypeOK
  <1>4. InventoryTypeOK'
    BY <1>1, <1>2, <1>3 DEF IInv, InventoryTypeOK, transitionStatus
  <1>5. DeletionTakesOut'
    BY DEF IInv, DeletionTakesOut, transitionStatus, TakesOut
  <1>6. \A r \in InvRooms : Bookable(r) => Bookable(r)'
    BY DEF Bookable, transitionStatus, RoomStatesAfter
  <1>7. stay' = [stay EXCEPT ![b] = BecomesOf(op)] /\ UNCHANGED <<removed, ended, desk>>
    BY DEF transitionStatus
  <1>8. \A a \in InvBookings \ {b} : stay'[a] = stay[a]
    BY <1>7 DEF IInv, InventoryTypeOK
  <1>9. CASE comes
    <2>1. ComesToBlock(b)
      BY <1>9 DEF transitionStatus
    <2>2. Safe'
      BY <2>1, <1>6, <1>7, <1>8, BookingComes
    <2> QED
      BY <2>2, <1>4, <1>5 DEF IInv
  <1>10. CASE ~comes
    <2>1. UNCHANGED <<overtaken, raced>>
      BY <1>10 DEF transitionStatus
    <2>2. stay'[b] = BecomesOf(op)
      BY <1>7 DEF IInv, InventoryTypeOK
    <2>3. Blocks(b)' => Blocks(b)
      BY <2>2, <1>10 DEF Blocks, BLOCKING_STATUSES
    <2>4. \A a \in InvBookings : Active(a)' => Active(a)
      BY <2>3, <1>7, <1>8 DEF Active, Blocks
    <2>5. Safe'
      BY <2>1, <2>4, <1>6, <1>7, NoneComes
    <2> QED
      BY <2>5, <1>4, <1>5 DEF IInv
  <1> QED
    BY <1>9, <1>10

-----------------------------------------------------------------------------

\* Every step preserves the invariant.
LEMMA InventoryStep == IInv /\ [InventoryNext]_inventoryVars => IInv'
  <1> SUFFICES ASSUME IInv, [InventoryNext]_inventoryVars PROVE IInv'
    OBVIOUS
  <1>1. CASE UNCHANGED inventoryVars
    BY <1>1 DEF inventoryVars, IInv, InventoryTypeOK, DeletionTakesOut, Safe, Active, Blocks, Bookable,
                CheckHolds, TakesOut
  <1>2. ASSUME NEW r \in InvRooms, NEW s \in RoomStates, createRoom(r, s) PROVE IInv'
    BY <1>2, CreateRoomSafe
  <1>3. ASSUME NEW d \in Desk, NEW r \in InvRooms,
               deleteRoom(d, r) \/ \E new \in RoomStates : updateRoom(d, r, new)
        PROVE  IInv'
    BY <1>3, DeleteRoomSafe, UpdateRoomSafe
  <1>4. ASSUME NEW d \in Desk, assertNoBlockingBookings(d) \/ writeRoom(d) PROVE IInv'
    BY <1>4, CheckSafe, WriteRoomSafe
  <1>5. ASSUME NEW b \in InvBookings, loadRooms(b) \/ insertBooking(b) \/ stayEnds(b) PROVE IInv'
    BY <1>5, LoadRoomsSafe, InsertBookingSafe, StayEndsSafe
  <1>6. ASSUME NEW b \in InvBookings, NEW op \in LifecycleOps, readBooking(b, op) \/ transitionStatus(b, op)
        PROVE  IInv'
    BY <1>6, ReadBookingSafe, TransitionStatusSafe
  <1> QED
    BY <1>1, <1>2, <1>3, <1>4, <1>5, <1>6 DEF InventoryNext

\* The variables of RoomInventory have their types, for any rooms and calls.
THEOREM InventoryTypeCorrect == InventorySpec => []InventoryTypeOK
  <1>1. IInv => InventoryTypeOK
    BY DEF IInv
  <1> QED
    BY InventoryInitial, InventoryStep, <1>1, PTL DEF InventorySpec

\* However the statements of staff calls, bookings and life-cycle calls interleave,
\* a room with a current or future booking stays in service, unless a write went
\* ahead on a read that another call had overtaken (roomService.js:34-35).
THEOREM InventorySafe == InventorySpec => []BookedInService
  <1>1. IInv => BookedInService
    BY DEF IInv, Safe, BookedInService
  <1> QED
    BY InventoryInitial, InventoryStep, <1>1, PTL DEF InventorySpec

-----------------------------------------------------------------------------
\* StayPrice: the prices of a stay

\* The totals of one night, and what the nights before a date come to.
TotalsOf(rates, night, adults, children) ==
    {NightTotal(r, adults, children) : r \in pickRateForNight(rates, night)}

Plus(S, T) == {sum + n : sum \in S, n \in T}

Adding(u, rates, asked, adults, children) ==
    u = [night \in asked.from..asked.until |->
            IF night = asked.from THEN {0}
            ELSE Plus(u[night - 1], TotalsOf(rates, night - 1, adults, children))]

OfPlan(rates, plan) == {r \in rates : plan = AnyPlan \/ r.plan = plan}

\* calculateRoomStayPrice, of any rates.
PricesOf(rates, plan, asked, adults, children) ==
    IF nightsBetween(asked) < 1 THEN {}
    ELSE (CHOOSE u : Adding(u, OfPlan(rates, plan), asked, adults, children))[asked.until]

\* The price of a stay is read off the recursive function over its nights.
LEMMA PriceIsChosen ==
    ASSUME NEW plan, NEW asked, NEW adults, NEW children
    PROVE  calculateRoomStayPrice(plan, asked, adults, children) = PricesOf(roomRates, plan, asked, adults, children)
  BY DEF calculateRoomStayPrice, PricesOf, Adding, OfPlan, TotalsOf, Plus

\* (without a night there is no price)
LEMMA NoNights ==
    ASSUME NEW rates, NEW plan, NEW asked, NEW adults, NEW children, nightsBetween(asked) < 1
    PROVE  PricesOf(rates, plan, asked, adults, children) = {}
  BY DEF PricesOf

StayOK(asked) == asked.from \in Int /\ asked.until \in Int /\ asked.adults \in Nat /\ asked.children \in Nat

Until(asked, n) == asked.from..(asked.from + n)

\* And that function exists.
LEMMA AddingExists ==
    ASSUME NEW rates, NEW asked, StayOK(asked), NEW adults, NEW children, asked.from <= asked.until
    PROVE  \E u : Adding(u, rates, asked, adults, children)
<1> DEFINE F(u, night) == IF night = asked.from THEN {0}
                          ELSE Plus(u[night - 1], TotalsOf(rates, night - 1, adults, children))
           N == {k \in Nat : \E u : u = [night \in Until(asked, k) |-> F(u, night)]}
<1>1. \A k : k \in N <=> k \in Nat /\ \E u : u = [night \in Until(asked, k) |-> F(u, night)]
  OBVIOUS
<1> HIDE DEF N
<1>2. 0 \in N
  <2> DEFINE u == [night \in Until(asked, 0) |-> {0}]
  <2>1. \A night \in Until(asked, 0) : night = asked.from
    BY DEF Until, StayOK
  <2>2. \A night \in Until(asked, 0) : F(u, night) = {0}
    BY <2>1
  <2>3. u = [night \in Until(asked, 0) |-> F(u, night)]
    BY <2>2
  <2> QED BY <1>1, <2>3
<1>3. ASSUME NEW k \in Nat, k \in N PROVE k + 1 \in N
  <2>1. PICK u : u = [night \in Until(asked, k) |-> F(u, night)]
    BY <1>1, <1>3
  <2> DEFINE v == [night \in Until(asked, k + 1) |-> F(u, night)]
  <2>2. \A night \in Until(asked, k) : v[night] = u[night]
    <3>1. \A night \in Until(asked, k) : night \in Until(asked, k + 1) /\ u[night] = F(u, night)
      <4>1. \A night \in Until(asked, k) : u[night] = F(u, night)
        BY <2>1
      <4>2. \A night \in Until(asked, k) : night \in Until(asked, k + 1)
        BY DEF Until, StayOK
      <4> QED BY <4>1, <4>2
    <3> HIDE DEF F
    <3> QED BY <3>1
  <2>3. \A night \in Until(asked, k + 1) : F(u, night) = F(v, night)
    <3> SUFFICES ASSUME NEW night \in Until(asked, k + 1), night # asked.from
                 PROVE  u[night - 1] = v[night - 1]
      OBVIOUS
    <3>1. night - 1 \in Until(asked, k)
      BY DEF Until, StayOK
    <3> QED BY <2>2, <3>1
  <2>4. v = [night \in Until(asked, k + 1) |-> F(v, night)]
    <3>1. v = [night \in Until(asked, k + 1) |-> F(u, night)]
      OBVIOUS
    <3> HIDE DEF v, F
    <3> QED BY <2>3, <3>1
  <2> HIDE DEF v, F
  <2> QED BY <1>1, <2>4
<1>4. asked.until - asked.from \in N
  <2>1. asked.until - asked.from \in Nat
    BY DEF StayOK
  <2> QED BY <1>2, <1>3, <2>1, NumbersReachAll
<1>5. Until(asked, asked.until - asked.from) = asked.from..asked.until
  BY DEF Until, StayOK
<1>6. PICK u : u = [night \in Until(asked, asked.until - asked.from) |-> F(u, night)]
  BY <1>1, <1>4
<1> QED BY <1>5, <1>6 DEF Adding

\* u is what the nights before each date come to, and the price what all of them do.
NightByNight(u, rates, plan, asked, adults, children) ==
    /\ PricesOf(rates, plan, asked, adults, children) = u[asked.until]
    /\ u[asked.from] = {0}
    /\ \A night \in asked.from..asked.until - 1 :
          u[night + 1] = Plus(u[night], TotalsOf(OfPlan(rates, plan), night, adults, children))

\* So a stay of at least a night is priced night by night.
LEMMA PriceOfNights ==
    ASSUME NEW rates, NEW plan, NEW asked, StayOK(asked), NEW adults, NEW children, nightsBetween(asked) >= 1
    PROVE  \E u : NightByNight(u, rates, plan, asked, adults, children)
<1> DEFINE u == CHOOSE u : Adding(u, OfPlan(rates, plan), asked, adults, children)
<1>1. asked.from < asked.until
  BY DEF nightsBetween, StayOK
<1>2. Adding(u, OfPlan(rates, plan), asked, adults, children)
  <2>1. asked.from <= asked.until
    BY <1>1 DEF StayOK
  <2>2. \E v : Adding(v, OfPlan(rates, plan), asked, adults, children)
    BY <2>1, AddingExists
  <2> QED BY <2>2
<1>3. PricesOf(rates, plan, asked, adults, children) = u[asked.until]
  <2>1. ~(nightsBetween(asked) < 1)
    BY DEF StayOK, nightsBetween
  <2> QED BY <2>1 DEF PricesOf
<1> HIDE DEF u
<1>4. u[asked.from] = {0}
  BY <1>1, <1>2 DEF Adding, StayOK
<1>5. ASSUME NEW night \in asked.from..asked.until - 1
      PROVE  u[night + 1] = Plus(u[night], TotalsOf(OfPlan(rates, plan), night, adults, children))
  <2>1. night + 1 \in asked.from..asked.until /\ night + 1 # asked.from /\ (night + 1) - 1 = night
    BY <1>1 DEF StayOK
  <2> QED BY <1>2, <2>1 DEF Adding
<1> QED BY <1>3, <1>4, <1>5 DEF NightByNight

RatesOK(rates) ==
    \A r \in rates : /\ r.from \in Int /\ r.until \in Int /\ r.priority \in Int
                     /\ r.price \in Nat /\ r.adult \in Nat /\ r.child \in Nat

\* (n \in Nat reaches the n-th night)
LEMMA NightsReached ==
    ASSUME NEW asked, StayOK(asked), nightsBetween(asked) >= 1, NEW N, asked.from \in N,
           \A night \in asked.from..asked.until - 1 : night \in N => night + 1 \in N
    PROVE  asked.until \in N
<1> DEFINE M == {k \in Nat : k <= asked.until - asked.from => asked.from + k \in N}
<1>1. \A k : k \in M <=> k \in Nat /\ (k <= asked.until - asked.from => asked.from + k \in N)
  OBVIOUS
<1> HIDE DEF M
<1>2. 0 \in M
  BY <1>1 DEF StayOK
<1>3. ASSUME NEW k \in Nat, k \in M PROVE k + 1 \in M
  <2> SUFFICES ASSUME k + 1 <= asked.until - asked.from PROVE asked.from + (k + 1) \in N
    BY <1>1
  <2>1. asked.from + k \in N /\ asked.from + k \in asked.from..asked.until - 1
    BY <1>1, <1>3 DEF StayOK
  <2>2. (asked.from + k) + 1 \in N
    BY <2>1
  <2>3. (asked.from + k) + 1 = asked.from + (k + 1)
    BY DEF StayOK
  <2> QED BY <2>2, <2>3
<1>4. asked.until - asked.from \in Nat
  BY DEF StayOK, nightsBetween
<1>5. asked.until - asked.from \in M
  BY <1>2, <1>3, <1>4, NumbersReachAll
<1>6. asked.from + (asked.until - asked.from) \in N
  BY <1>1, <1>4, <1>5
<1> QED BY <1>6 DEF StayOK

\* A price is a natural number.
LEMMA PricesAreWhole ==
    ASSUME NEW rates, NEW plan, NEW asked, StayOK(asked), NEW adults \in Nat, NEW children \in Nat, RatesOK(rates)
    PROVE  PricesOf(rates, plan, asked, adults, children) \subseteq Nat
<1> SUFFICES ASSUME nightsBetween(asked) >= 1 PROVE PricesOf(rates, plan, asked, adults, children) \subseteq Nat
  <2>1. nightsBetween(asked) >= 1 \/ nightsBetween(asked) < 1
    BY DEF nightsBetween, StayOK
  <2> QED BY <2>1, NoNights
<1>1. PICK u : NightByNight(u, rates, plan, asked, adults, children)
  BY PriceOfNights
<1> DEFINE N == {night \in asked.from..asked.until : u[night] \subseteq Nat}
<1>2. asked.from \in N
  BY <1>1 DEF StayOK, nightsBetween, NightByNight
<1>3. ASSUME NEW night \in asked.from..asked.until - 1, night \in N PROVE night + 1 \in N
  <2>1. TotalsOf(OfPlan(rates, plan), night, adults, children) \subseteq Nat
    <3> SUFFICES ASSUME NEW r \in pickRateForNight(OfPlan(rates, plan), night)
                 PROVE  NightTotal(r, adults, children) \in Nat
      BY DEF TotalsOf
    <3>1. r \in rates
      BY DEF pickRateForNight, OfPlan
    <3>2. r.price \in Nat /\ r.adult \in Nat /\ r.child \in Nat
      BY <3>1 DEF RatesOK
    <3>3. AtLeast0(adults - BaseAdults) \in Nat /\ AtLeast0(children - BaseChildren) \in Nat
      BY DEF AtLeast0, BaseAdults, BaseChildren
    <3>4. \A a, b \in Nat : a * b \in Nat
      OBVIOUS
    <3> QED BY <3>2, <3>3, <3>4 DEF NightTotal
  <2>2. u[night] \subseteq Nat
    BY <1>3
  <2>3. u[night + 1] \subseteq Nat
    <3>1. u[night + 1] = Plus(u[night], TotalsOf(OfPlan(rates, plan), night, adults, children))
      BY <1>1 DEF NightByNight
    <3> QED BY <2>1, <2>2, <3>1 DEF Plus
  <2>4. night + 1 \in asked.from..asked.until
    BY DEF StayOK
  <2> QED BY <2>3, <2>4
<1> HIDE DEF N
<1>4. asked.until \in N
  BY <1>2, <1>3, NightsReached
<1> QED BY <1>1, <1>4 DEF N, NightByNight

\* When the totals of each night are one for two parties, the stay has one price.
LEMMA PricesAreOne ==
    ASSUME NEW rates, NEW plan, NEW asked, StayOK(asked), NEW a1, NEW c1, NEW a2, NEW c2,
           \A night \in asked.from..asked.until - 1 :
              \A x \in TotalsOf(OfPlan(rates, plan), night, a1, c1), y \in TotalsOf(OfPlan(rates, plan), night, a2, c2) : x = y,
           NEW p \in PricesOf(rates, plan, asked, a1, c1),
           NEW q \in PricesOf(rates, plan, asked, a2, c2)
    PROVE  p = q
<1>0. nightsBetween(asked) >= 1
  <2>1. nightsBetween(asked) >= 1 \/ nightsBetween(asked) < 1
    BY DEF nightsBetween, StayOK
  <2> QED BY <2>1, NoNights
<1>1. PICK u : NightByNight(u, rates, plan, asked, a1, c1)
  BY <1>0, PriceOfNights
<1>2. PICK v : NightByNight(v, rates, plan, asked, a2, c2)
  BY <1>0, PriceOfNights
<1> DEFINE N == {night \in asked.from..asked.until : \A x \in u[night], y \in v[night] : x = y}
<1>3. asked.from \in N
  BY <1>0, <1>1, <1>2 DEF StayOK, nightsBetween, NightByNight
<1>4. ASSUME NEW night \in asked.from..asked.until - 1, night \in N PROVE night + 1 \in N
  <2>1. \A x \in u[night], y \in v[night] : x = y
    BY <1>4
  <2>2. u[night + 1] = Plus(u[night], TotalsOf(OfPlan(rates, plan), night, a1, c1))
    BY <1>1 DEF NightByNight
  <2>3. v[night + 1] = Plus(v[night], TotalsOf(OfPlan(rates, plan), night, a2, c2))
    BY <1>2 DEF NightByNight
  <2>4. \A x \in TotalsOf(OfPlan(rates, plan), night, a1, c1), y \in TotalsOf(OfPlan(rates, plan), night, a2, c2) : x = y
    OBVIOUS
  <2>5. \A x \in u[night + 1], y \in v[night + 1] : x = y
    BY <2>1, <2>2, <2>3, <2>4 DEF Plus
  <2>6. night + 1 \in asked.from..asked.until
    BY DEF StayOK
  <2> QED BY <2>5, <2>6
<1> HIDE DEF N
<1>5. asked.until \in N
  BY <1>0, <1>3, <1>4, NightsReached
<1> QED BY <1>1, <1>2, <1>5 DEF N, NightByNight

\* Two rates that a night may be sold at tie.
LEMMA PickedAlike ==
    ASSUME NEW rates, RatesOK(rates), NEW night,
           NEW r \in pickRateForNight(rates, night), NEW x \in pickRateForNight(rates, night)
    PROVE  /\ r \in rates /\ x \in rates /\ r.priority = x.priority /\ r.price = x.price
           /\ r.from <= night /\ night < r.until /\ x.from <= night /\ night < x.until
<1>1. r \in rates /\ x \in rates /\ r.priority >= x.priority /\ x.priority >= r.priority
  BY DEF pickRateForNight
<1>2. r.price <= x.price /\ x.price <= r.price
  BY DEF pickRateForNight
<1>3. r.priority \in Int /\ x.priority \in Int /\ r.price \in Int /\ x.price \in Int
  BY <1>1 DEF RatesOK
<1>4. r.from <= night /\ night < r.until /\ x.from <= night /\ night < x.until
  BY DEF pickRateForNight
<1> QED BY <1>1, <1>2, <1>3, <1>4

\* A party of up to two adults pays the price of the night alone.
LEMMA BasePrice ==
    ASSUME NEW r, r.price \in Nat, r.adult \in Nat, r.child \in Nat,
           NEW adults \in Nat, NEW children \in Nat, adults <= BaseAdults, children <= BaseChildren
    PROVE  NightTotal(r, adults, children) = r.price
<1>1. AtLeast0(adults - BaseAdults) = 0 /\ AtLeast0(children - BaseChildren) = 0
  BY DEF AtLeast0, BaseAdults, BaseChildren
<1>2. r.adult * 0 = 0 /\ r.child * 0 = 0
  OBVIOUS
<1> QED BY <1>1, <1>2 DEF NightTotal

\* Equal requests have equal prices when no rates tie.
LEMMA AlikeIsOne ==
    ASSUME NEW rates, RatesOK(rates), ~Tied(rates),
           NEW plan, NEW asked, StayOK(asked), NEW adults \in Nat, NEW children \in Nat,
           NEW p \in PricesOf(rates, plan, asked, adults, children),
           NEW q \in PricesOf(rates, plan, asked, adults, children)
    PROVE  p = q
<1>1. ASSUME NEW night \in asked.from..asked.until - 1,
             NEW x \in TotalsOf(OfPlan(rates, plan), night, adults, children),
             NEW y \in TotalsOf(OfPlan(rates, plan), night, adults, children)
      PROVE  x = y
  <2>1. PICK r \in pickRateForNight(OfPlan(rates, plan), night) : x = NightTotal(r, adults, children)
    BY DEF TotalsOf
  <2>2. PICK t \in pickRateForNight(OfPlan(rates, plan), night) : y = NightTotal(t, adults, children)
    BY DEF TotalsOf
  <2>3. RatesOK(OfPlan(rates, plan)) /\ OfPlan(rates, plan) \subseteq rates
    BY DEF RatesOK, OfPlan
  <2>4. /\ r \in rates /\ t \in rates /\ r.priority = t.priority /\ r.price = t.price
        /\ r.from <= night /\ night < r.until /\ t.from <= night /\ night < t.until
    BY <2>3, PickedAlike
  <2>5. r.from < t.until /\ t.from < r.until
    <3>1. night \in Int
      BY DEF StayOK
    <3>2. r.from \in Int /\ r.until \in Int /\ t.from \in Int /\ t.until \in Int
      BY <2>4 DEF RatesOK
    <3> QED BY <2>4, <3>1, <3>2
  <2>6. r.adult = t.adult /\ r.child = t.child
    BY <2>4, <2>5 DEF Tied
  <2> QED BY <2>1, <2>2, <2>4, <2>6 DEF NightTotal
<1> QED BY <1>1, PricesAreOne

\* And parties of up to two adults have one price.
LEMMA BaseIsOne ==
    ASSUME NEW rates, RatesOK(rates), NEW plan, NEW asked, StayOK(asked),
           NEW a1 \in Nat, NEW c1 \in Nat, a1 <= BaseAdults, c1 <= BaseChildren,
           NEW a2 \in Nat, NEW c2 \in Nat, a2 <= BaseAdults, c2 <= BaseChildren,
           NEW p \in PricesOf(rates, plan, asked, a1, c1),
           NEW q \in PricesOf(rates, plan, asked, a2, c2)
    PROVE  p = q
<1>1. ASSUME NEW night, NEW x \in TotalsOf(OfPlan(rates, plan), night, a1, c1),
             NEW y \in TotalsOf(OfPlan(rates, plan), night, a2, c2)
      PROVE  x = y
  <2>1. PICK r \in pickRateForNight(OfPlan(rates, plan), night) : x = NightTotal(r, a1, c1)
    BY DEF TotalsOf
  <2>2. PICK t \in pickRateForNight(OfPlan(rates, plan), night) : y = NightTotal(t, a2, c2)
    BY DEF TotalsOf
  <2>3. RatesOK(OfPlan(rates, plan)) /\ OfPlan(rates, plan) \subseteq rates
    BY DEF RatesOK, OfPlan
  <2>4. r \in OfPlan(rates, plan) /\ t \in OfPlan(rates, plan) /\ r.price = t.price
    BY <2>3, PickedAlike
  <2>5. /\ r.price \in Nat /\ r.adult \in Nat /\ r.child \in Nat
        /\ t.price \in Nat /\ t.adult \in Nat /\ t.child \in Nat
    BY <2>3, <2>4 DEF RatesOK
  <2>6. x = r.price /\ y = t.price
    BY <2>1, <2>2, <2>5, BasePrice
  <2> QED BY <2>4, <2>6
<1> QED BY <1>1, PricesAreOne

-----------------------------------------------------------------------------
\* StayPrice: quotes, bookings, invoices and cancellations

AllRates == NewRates \cup UNION RateTables

RoomLists == StaffRooms \cup {<<>>} \cup {[i \in 1..n |-> AskedFor(AnyPlan)] : n \in Nat}

PriceStays == StaysAsked \cup {NoStay}

PriceVisits == [stay : PriceStays, price : Int, quantity : Nat, draft : BOOLEAN, at : Nat, extra : BOOLEAN]

PriceCalls == [rooms : RoomLists, priced : Seq(Nat), stay : PriceStays, discount : Int, extra : BOOLEAN,
               byVisitor : BOOLEAN, at : Nat]

PriceSales == [status : {"none", "held", "cancelled"}, rooms : Seq(Nat), nights : Int, services : Nat,
               subtotal : Int, discount : Int, tax : Int, total : Int, paid : Int, fee : Int, refundable : Int,
               hours : Int, estimate : Int, alike : BOOLEAN, tied : BOOLEAN, edited : BOOLEAN, standard : BOOLEAN]

StayPriceTypeOK ==
    /\ roomRates \subseteq AllRates /\ policy \in SettingsSets /\ edits \in Nat
    /\ visit \in PriceVisits /\ call \in PriceCalls /\ sale \in PriceSales

Prices(room, asked) == PricesOf(roomRates, room.plan, asked, room.adults, room.children)

QuoteHolds ==
    /\ visit.at <= edits
    /\ visit.quantity # 0 \/ visit.draft => visit.price # None
    /\ visit.at = edits /\ visit.price # None =>
          visit.price \in PricesOf(roomRates, AnyPlan, visit.stay, visit.stay.adults, visit.stay.children)

CallHolds ==
    /\ call.at <= edits
    /\ call.at = edits => \A i \in DOMAIN call.priced : call.priced[i] \in Prices(call.rooms[i], call.stay)
    /\ call.byVisitor =>
         /\ call.rooms = [i \in 1..visit.quantity |-> AskedFor(AnyPlan)]
         /\ call.stay = visit.stay /\ call.extra = visit.extra
         /\ visit.at <= call.at /\ visit.draft

ListSum(s) == FoldFunction(+, 0, s)

SaleHolds ==
    /\ sale # NoSale /\ ~sale.edited =>
         /\ sale.alike \/ sale.tied
         /\ sale.estimate # None /\ sale.standard => sale.subtotal = sale.estimate
    /\ sale.subtotal = ListSum(sale.rooms) + sale.services
    /\ sale.total > 0 => sale.paid <= sale.total

BillHolds ==
    bill # NoBill => /\ ListSum(bill.items) = bill.subtotal
                     /\ bill.status = "paid" => bill.due = 0

PriceInv == StayPriceTypeOK /\ QuoteHolds /\ CallHolds /\ SaleHolds /\ BillHolds

\* Stays, rates and rooms of the constants are well-formed.
LEMMA StaysOK == \A asked \in PriceStays : StayOK(asked)
  BY StayPriceAssumption DEF PriceStays, StayOK, NoStay

LEMMA AllRatesOK == \A rates \in SUBSET AllRates : RatesOK(rates)
  BY StayPriceAssumption DEF AllRates, RatesOK

LEMMA RoomsOK ==
    ASSUME NEW rooms \in RoomLists
    PROVE  /\ Len(rooms) \in Nat /\ DOMAIN rooms = 1..Len(rooms)
           /\ \A i \in DOMAIN rooms : rooms[i].adults \in Nat /\ rooms[i].children \in Nat
<1>1. CASE rooms \in StaffRooms
  <2>1. rooms \in Seq(Range(rooms)) /\ \A room \in Range(rooms) : room.adults \in Nat /\ room.children \in Nat
    BY <1>1, StayPriceAssumption
  <2>2. Len(rooms) \in Nat /\ DOMAIN rooms = 1..Len(rooms) /\ \A i \in DOMAIN rooms : rooms[i] \in Range(rooms)
    BY <2>1
  <2> QED BY <2>1, <2>2
<1>2. CASE rooms = <<>>
  BY <1>2
<1>3. CASE rooms \in {[i \in 1..n |-> AskedFor(AnyPlan)] : n \in Nat}
  <2>1. PICK n \in Nat : rooms = [i \in 1..n |-> AskedFor(AnyPlan)]
    BY <1>3
  <2>2. rooms \in Seq({AskedFor(AnyPlan)}) /\ Len(rooms) = n
    BY <2>1
  <2>3. AskedFor(AnyPlan).adults \in Nat /\ AskedFor(AnyPlan).children \in Nat
    BY DEF AskedFor
  <2> QED BY <2>1, <2>2, <2>3
<1> QED BY <1>1, <1>2, <1>3 DEF RoomLists

\* At the start nothing is sold.
LEMMA PriceInit == StayPriceInit => PriceInv
<1> SUFFICES ASSUME StayPriceInit PROVE PriceInv
  OBVIOUS
<1>1. visit = NoVisit /\ call = NoCall /\ sale = NoSale /\ bill = NoBill /\ edits = 0
  BY DEF StayPriceInit
<1>2. visit \in PriceVisits
  BY <1>1 DEF NoVisit, PriceVisits, PriceStays, None
<1>3. call \in PriceCalls
  BY <1>1 DEF NoCall, PriceCalls, RoomLists, PriceStays
<1>4. sale \in PriceSales
  BY <1>1 DEF NoSale, PriceSales, None
<1>5. roomRates \subseteq AllRates /\ policy \in SettingsSets
  BY DEF StayPriceInit, AllRates
<1>6. StayPriceTypeOK
  BY <1>1, <1>2, <1>3, <1>4, <1>5 DEF StayPriceTypeOK
<1>7. QuoteHolds
  BY <1>1 DEF QuoteHolds, NoVisit, None
<1>8. CallHolds
  BY <1>1 DEF CallHolds, NoCall
<1>9. SaleHolds
  <2>1. ListSum(<<>>) = 0
    <3>1. ListSum(<<>>) = SumFunctionOnSet(<<>>, DOMAIN <<>>)
      BY DEF ListSum, FoldFunction, SumFunctionOnSet
    <3>2. DOMAIN <<>> = {}
      OBVIOUS
    <3> QED BY <3>1, <3>2, SumOfChosen, FS_EmptySet
  <2> QED BY <1>1, <2>1 DEF SaleHolds, NoSale, None
<1>10. BillHolds
  BY <1>1 DEF BillHolds
<1> QED BY <1>6, <1>7, <1>8, <1>9, <1>10 DEF PriceInv

\* The visitor's page, while the rates, the call and the sale rest.
LEMMA VisitStep ==
    ASSUME PriceInv, UNCHANGED <<roomRates, policy, call, sale, bill, edits>>,
           visit' \in PriceVisits, QuoteHolds', call.byVisitor => UNCHANGED visit
    PROVE  PriceInv'
<1>1. StayPriceTypeOK'
  BY DEF PriceInv, StayPriceTypeOK
<1>2. CallHolds'
  BY DEF PriceInv, CallHolds, Prices
<1>3. SaleHolds' /\ BillHolds'
  BY DEF PriceInv, SaleHolds, BillHolds
<1> QED BY <1>1, <1>2, <1>3 DEF PriceInv

\* The visitor's page.
LEMMA VisitActions ==
    ASSUME PriceInv,
           \/ \E asked \in StaysAsked : searchAvailability(asked)
           \/ \E n \in 0..MaxRooms : setQuantity(n)
           \/ handleProceedToCheckout \/ toggleService
    PROVE  PriceInv'
<1>0. visit \in PriceVisits /\ call \in PriceCalls /\ QuoteHolds /\ CallHolds /\ edits \in Nat
  BY DEF PriceInv, StayPriceTypeOK
<1>01. call.byVisitor => visit.draft /\ call # NoCall
  BY <1>0 DEF CallHolds, NoCall
<1>1. ASSUME NEW asked \in StaysAsked, searchAvailability(asked) PROVE PriceInv'
  <2> DEFINE found == PricesOf(roomRates, AnyPlan, asked, asked.adults, asked.children)
  <2>1. calculateRoomStayPrice(AnyPlan, asked, asked.adults, asked.children) = found
    BY PriceIsChosen
  <2>2. PICK price \in IF found = {} THEN {None} ELSE found :
          visit' = [NoVisit EXCEPT !.stay = asked, !.price = price, !.at = edits]
    BY <1>1, <2>1 DEF searchAvailability
  <2>3. found \subseteq Nat
    <3>1. StayOK(asked) /\ asked.adults \in Nat /\ asked.children \in Nat
      BY StaysOK, StayPriceAssumption DEF PriceStays
    <3>2. RatesOK(roomRates)
      BY AllRatesOK DEF PriceInv, StayPriceTypeOK
    <3> QED BY <3>1, <3>2, PricesAreWhole
  <2> HIDE DEF found
  <2>4. visit'.stay = asked /\ visit'.price = price /\ visit'.at = edits /\ visit'.quantity = 0 /\ visit'.draft = FALSE
    BY <2>2 DEF NoVisit
  <2>5. price \in Int /\ (price # None => price \in found)
    BY <2>2, <2>3 DEF None
  <2>6. visit' \in PriceVisits
    BY <1>0, <2>2, <2>5 DEF PriceVisits, NoVisit, PriceStays
  <2>7. UNCHANGED <<roomRates, policy, call, sale, bill, edits>> /\ ~visit.draft
    BY <1>1 DEF searchAvailability
  <2>8. QuoteHolds'
    BY <1>0, <2>4, <2>5, <2>7 DEF QuoteHolds, found
  <2> QED BY <1>01, <2>6, <2>7, <2>8, VisitStep
<1>2. ASSUME NEW n \in 0..MaxRooms, setQuantity(n) PROVE PriceInv'
  <2>1. n \in Nat /\ visit.price # None /\ ~visit.draft /\ visit' = [visit EXCEPT !.quantity = n]
        /\ UNCHANGED <<roomRates, policy, call, sale, bill, edits>>
    BY <1>2, StayPriceAssumption DEF setQuantity
  <2>2. visit' \in PriceVisits
    BY <1>0, <2>1 DEF PriceVisits
  <2>3. QuoteHolds'
    BY <1>0, <2>1 DEF QuoteHolds, PriceVisits
  <2> QED BY <1>01, <2>1, <2>2, <2>3, VisitStep
<1>3. ASSUME handleProceedToCheckout PROVE PriceInv'
  <2>1. ~visit.draft /\ visit.quantity # 0 /\ visit' = [visit EXCEPT !.draft = TRUE]
        /\ UNCHANGED <<roomRates, policy, call, sale, bill, edits>>
    BY <1>3 DEF handleProceedToCheckout
  <2>2. visit' \in PriceVisits
    BY <1>0, <2>1 DEF PriceVisits
  <2>3. QuoteHolds'
    BY <1>0, <2>1 DEF QuoteHolds, PriceVisits
  <2> QED BY <1>01, <2>1, <2>2, <2>3, VisitStep
<1>4. ASSUME toggleService PROVE PriceInv'
  <2>1. call = NoCall /\ visit' = [visit EXCEPT !.extra = ~@]
        /\ UNCHANGED <<roomRates, policy, call, sale, bill, edits>>
    BY <1>4 DEF toggleService
  <2>2. visit' \in PriceVisits
    BY <1>0, <2>1 DEF PriceVisits
  <2>3. QuoteHolds'
    BY <1>0, <2>1 DEF QuoteHolds, PriceVisits
  <2> QED BY <1>01, <2>1, <2>2, <2>3, VisitStep
<1> QED BY <1>1, <1>2, <1>3, <1>4

\* Staff edit the rates.
LEMMA EditStep == ASSUME PriceInv, editRates PROVE PriceInv'
<1>1. /\ UNCHANGED <<policy, visit, call, sale, bill>> /\ edits' = edits + 1
      /\ visit \in PriceVisits /\ call \in PriceCalls /\ edits \in Nat
  BY DEF editRates, PriceInv, StayPriceTypeOK
<1>2. roomRates' \subseteq AllRates
  BY DEF editRates, PriceInv, StayPriceTypeOK, AllRates
<1>3. StayPriceTypeOK'
  BY <1>1, <1>2 DEF PriceInv, StayPriceTypeOK
<1>4. visit.at <= edits /\ visit.at \in Nat /\ call.at <= edits /\ call.at \in Nat
  BY <1>1 DEF PriceInv, QuoteHolds, CallHolds, PriceVisits, PriceCalls
<1>5. visit.at <= edits' /\ visit.at # edits' /\ call.at <= edits' /\ call.at # edits'
  BY <1>1, <1>4
<1>6. QuoteHolds'
  BY <1>1, <1>5 DEF PriceInv, QuoteHolds
<1>7. CallHolds'
  BY <1>1, <1>5 DEF PriceInv, CallHolds
<1>8. SaleHolds' /\ BillHolds'
  BY <1>1 DEF PriceInv, SaleHolds, BillHolds
<1> QED BY <1>3, <1>6, <1>7, <1>8 DEF PriceInv

\* A call, while the rates, the page and the sale rest.
LEMMA CallStep ==
    ASSUME PriceInv, UNCHANGED <<roomRates, policy, visit, sale, bill, edits>>, call' \in PriceCalls, CallHolds'
    PROVE  PriceInv'
<1>1. StayPriceTypeOK'
  BY DEF PriceInv, StayPriceTypeOK
<1>2. QuoteHolds'
  BY DEF PriceInv, QuoteHolds
<1>3. SaleHolds' /\ BillHolds'
  BY DEF PriceInv, SaleHolds, BillHolds
<1> QED BY <1>1, <1>2, <1>3 DEF PriceInv

\* Where no call runs there is nothing to show of it.
LEMMA NoCallHolds ==
    ASSUME PriceInv, UNCHANGED <<roomRates, visit, edits>>, call' = NoCall
    PROVE  call' \in PriceCalls /\ CallHolds'
<1>1. call' \in PriceCalls
  BY DEF NoCall, PriceCalls, RoomLists, PriceStays
<1>2. edits \in Nat
  BY DEF PriceInv, StayPriceTypeOK
<1> QED BY <1>1, <1>2 DEF NoCall, CallHolds

\* The steps of createBooking before its insert.
LEMMA CallActions ==
    ASSUME PriceInv,
           \/ submitPriced \/ priceRoom
           \/ \E rooms \in StaffRooms, asked \in StaysAsked, discount \in {0, 50} :
                 createBookingForUser(rooms, asked, discount)
    PROVE  PriceInv'
<1>0. /\ visit \in PriceVisits /\ call \in PriceCalls /\ QuoteHolds /\ CallHolds /\ edits \in Nat
      /\ visit.at <= edits /\ visit.stay \in PriceStays /\ visit.quantity \in Nat /\ visit.extra \in BOOLEAN
  BY DEF PriceInv, StayPriceTypeOK, PriceVisits, QuoteHolds
<1>1. ASSUME submitPriced PROVE PriceInv'
  <2>1. visit.draft /\ UNCHANGED <<roomRates, policy, visit, sale, bill, edits>>
    BY <1>1 DEF submitPriced
  <2>2. call' = [rooms |-> [i \in 1..visit.quantity |-> AskedFor(AnyPlan)], priced |-> <<>>, stay |-> visit.stay,
                 discount |-> 0, extra |-> visit.extra, byVisitor |-> TRUE, at |-> edits]
    BY <1>1 DEF submitPriced, NoCall
  <2>3. [i \in 1..visit.quantity |-> AskedFor(AnyPlan)] \in RoomLists
    BY <1>0 DEF RoomLists
  <2>4. call' \in PriceCalls
    BY <1>0, <2>2, <2>3 DEF PriceCalls
  <2>5. CallHolds'
    BY <1>0, <2>1, <2>2 DEF CallHolds
  <2> QED BY <2>1, <2>4, <2>5, CallStep
<1>2. ASSUME NEW rooms \in StaffRooms, NEW asked \in StaysAsked, NEW discount \in {0, 50},
             createBookingForUser(rooms, asked, discount)
      PROVE  PriceInv'
  <2>1. UNCHANGED <<roomRates, policy, visit, sale, bill, edits>>
    BY <1>2 DEF createBookingForUser
  <2>2. call' = [rooms |-> rooms, priced |-> <<>>, stay |-> asked, discount |-> discount, extra |-> FALSE,
                 byVisitor |-> FALSE, at |-> edits]
    BY <1>2 DEF createBookingForUser, NoCall
  <2>3. rooms \in RoomLists /\ asked \in PriceStays /\ discount \in Int
    BY DEF RoomLists, PriceStays
  <2>4. call' \in PriceCalls
    BY <1>0, <2>2, <2>3 DEF PriceCalls
  <2>5. CallHolds'
    BY <1>0, <2>1, <2>2 DEF CallHolds
  <2> QED BY <2>1, <2>4, <2>5, CallStep
<1>3. ASSUME priceRoom PROVE PriceInv'
  <2> DEFINE i == Len(call.priced) + 1
             room == call.rooms[i]
             found == PricesOf(roomRates, room.plan, call.stay, room.adults, room.children)
  <2>1. calculateRoomStayPrice(room.plan, call.stay, room.adults, room.children) = found
    BY PriceIsChosen
  <2>2. /\ UNCHANGED <<roomRates, policy, visit, sale, bill, edits>> /\ call # NoCall /\ i <= Len(call.rooms)
        /\ \/ \E price \in found : call' = [call EXCEPT !.priced = Append(@, price)]
           \/ call' = NoCall
    BY <1>3, <2>1 DEF priceRoom
  <2>3. CASE call' = NoCall
    BY <2>2, <2>3, NoCallHolds, CallStep
  <2>4. ASSUME NEW price \in found, call' = [call EXCEPT !.priced = Append(@, price)] PROVE PriceInv'
    <3>1. /\ call.rooms \in RoomLists /\ call.stay \in PriceStays /\ call.priced \in Seq(Nat)
      BY <1>0 DEF PriceCalls
    <3>2. room.adults \in Nat /\ room.children \in Nat
      <4>1. i \in DOMAIN call.rooms
        BY <2>2, <3>1, RoomsOK
      <4> HIDE DEF i
      <4> QED BY <3>1, <4>1, RoomsOK
    <3>3. price \in Nat
      <4>1. StayOK(call.stay) /\ RatesOK(roomRates)
        BY <3>1, StaysOK, AllRatesOK DEF PriceInv, StayPriceTypeOK
      <4> HIDE DEF room
      <4> QED BY <3>2, <4>1, PricesAreWhole
    <3> HIDE DEF found, room
    <3>4. /\ Append(call.priced, price) \in Seq(Nat)
          /\ DOMAIN Append(call.priced, price) = DOMAIN call.priced \cup {i}
          /\ \A j \in DOMAIN call.priced : Append(call.priced, price)[j] = call.priced[j]
          /\ Append(call.priced, price)[i] = price
      BY <3>1, <3>3
    <3>5. /\ call' \in PriceCalls /\ call'.priced = Append(call.priced, price)
          /\ call'.rooms = call.rooms /\ call'.stay = call.stay /\ call'.extra = call.extra
          /\ call'.at = call.at /\ call'.byVisitor = call.byVisitor
      BY <1>0, <2>4, <3>4 DEF PriceCalls
    <3>6. call.at = edits => \A j \in DOMAIN call'.priced : call'.priced[j] \in Prices(call.rooms[j], call.stay)
      <4>1. call.at = edits => \A j \in DOMAIN call.priced : call.priced[j] \in Prices(call.rooms[j], call.stay)
        BY <1>0 DEF CallHolds
      <4>2. price \in Prices(call.rooms[i], call.stay)
        BY DEF Prices, found, room
      <4> HIDE DEF i
      <4> QED BY <3>4, <3>5, <4>1, <4>2
    <3>7. CallHolds'
      BY <1>0, <2>2, <3>5, <3>6 DEF CallHolds, Prices
    <3> QED BY <2>2, <3>5, <3>7, CallStep
  <2> QED BY <2>2, <2>3, <2>4
<1> QED BY <1>1, <1>2, <1>3

\* Sums of lists: of none, of one more, of numbers that are the same.
LEMMA ListSumIs ==
    ASSUME NEW s \in Seq(Int)
    PROVE  /\ IsFiniteSet(DOMAIN s) /\ Cardinality(DOMAIN s) = Len(s)
           /\ ListSum(s) = SumFunctionOnSet(s, DOMAIN s) /\ ListSum(s) \in Int
           /\ \A x \in Int : ListSum(Append(s, x)) = ListSum(s) + x
  BY SumOfList DEF ListSum


\* The sale and its invoice, while the rates, the page and the call rest.
LEMMA SaleStep ==
    ASSUME PriceInv, UNCHANGED <<roomRates, policy, visit, call, edits>>,
           sale' \in PriceSales, SaleHolds', BillHolds'
    PROVE  PriceInv'
<1>1. StayPriceTypeOK'
  BY DEF PriceInv, StayPriceTypeOK
<1>2. QuoteHolds'
  BY DEF PriceInv, QuoteHolds
<1>3. CallHolds'
  BY DEF PriceInv, CallHolds, Prices
<1> QED BY <1>1, <1>2, <1>3 DEF PriceInv

\* Rounding gives a natural number.
LEMMA RoundedWhole ==
    ASSUME NEW a \in Int
    PROVE  Rounded(a, 100) \in Int
  BY DEF Rounded

\* Payments and cancellations.
LEMMA PayAndCancel ==
    ASSUME PriceInv,
           \/ \E part \in BOOLEAN : takePayment(part)
           \/ \E hours \in Hours : cancelBooking(hours)
    PROVE  PriceInv'
<1>0. sale \in PriceSales /\ SaleHolds /\ BillHolds /\ sale.total \in Int /\ policy \in SettingsSets
  BY DEF PriceInv, StayPriceTypeOK, PriceSales
<1>1. ASSUME NEW part \in BOOLEAN, takePayment(part) PROVE PriceInv'
  <2> DEFINE sum == IF part /\ sale.paid = 0 THEN sale.total \div 2 ELSE sale.total
  <2>1. /\ sale.status = "held" /\ sale.paid < sale.total /\ sale' = [sale EXCEPT !.paid = sum]
        /\ UNCHANGED <<roomRates, policy, visit, call, bill, edits>>
    BY <1>1 DEF takePayment
  <2>2. sum \in Int /\ (sale.total > 0 => sum <= sale.total)
    <3>1. sale.total > 0 => sale.total \div 2 <= sale.total
      BY <1>0, <2>1
    <3> QED BY <1>0, <3>1
  <2> HIDE DEF sum
  <2>3. sale' \in PriceSales
    BY <1>0, <2>1, <2>2 DEF PriceSales
  <2>4. /\ sale'.paid = sum /\ sale'.total = sale.total /\ sale'.rooms = sale.rooms /\ sale'.services = sale.services
        /\ sale'.subtotal = sale.subtotal /\ sale'.edited = sale.edited /\ sale'.alike = sale.alike
        /\ sale'.estimate = sale.estimate /\ sale'.standard = sale.standard /\ sale'.tied = sale.tied
    BY <1>0, <2>1 DEF PriceSales
  <2>5. sale # NoSale
    BY <2>1 DEF NoSale
  <2>6. SaleHolds'
    BY <1>0, <2>2, <2>4, <2>5 DEF SaleHolds
  <2>7. BillHolds'
    BY <1>0, <2>1 DEF BillHolds
  <2> QED BY <2>1, <2>3, <2>6, <2>7, SaleStep
<1>2. ASSUME NEW hours \in Hours, cancelBooking(hours) PROVE PriceInv'
  <2>1. /\ sale.status = "held"
        /\ sale' = [sale EXCEPT !.status = "cancelled", !.hours = hours, !.fee = cancellationFee(hours),
                                !.refundable = refundableAmount(hours)]
        /\ UNCHANGED <<roomRates, policy, visit, call, bill, edits>>
    BY <1>2 DEF cancelBooking
  <2>2. feePercent(hours) \in Int
    <3>1. policy.partial \in Int
      BY <1>0, StayPriceAssumption
    <3> QED BY <3>1 DEF feePercent, Or
  <2>3. cancellationFee(hours) \in Int
    <3>1. \A a, b \in Int : a * b \in Int
      OBVIOUS
    <3> QED BY <1>0, <2>2, <3>1, RoundedWhole DEF cancellationFee
  <2>4. refundableAmount(hours) \in Int
    BY <1>0, <2>3 DEF refundableAmount, AtLeast0, PriceSales
  <2>5. hours \in Int
    BY StayPriceAssumption
  <2>6. sale' \in PriceSales
    BY <1>0, <2>1, <2>3, <2>4, <2>5 DEF PriceSales
  <2>7. /\ sale'.paid = sale.paid /\ sale'.total = sale.total /\ sale'.rooms = sale.rooms /\ sale'.services = sale.services
        /\ sale'.subtotal = sale.subtotal /\ sale'.edited = sale.edited /\ sale'.alike = sale.alike
        /\ sale'.estimate = sale.estimate /\ sale'.standard = sale.standard /\ sale'.tied = sale.tied
    BY <1>0, <2>1 DEF PriceSales
  <2>8. sale # NoSale
    BY <2>1 DEF NoSale
  <2>9. SaleHolds'
    BY <1>0, <2>7, <2>8 DEF SaleHolds
  <2>10. BillHolds'
    BY <1>0, <2>1 DEF BillHolds
  <2> QED BY <2>1, <2>6, <2>9, <2>10, SaleStep
<1> QED BY <1>1, <1>2

\* The invoice's items.
LEMMA InvoiceStep == ASSUME PriceInv, generateInvoiceForBooking PROVE PriceInv'
<1>1. /\ bill' = [items |-> sale.rooms \o (IF sale.services = 0 THEN <<>> ELSE <<sale.services>>),
                  subtotal |-> sale.subtotal, total |-> sale.total, paid |-> sale.paid, due |-> sale.total - sale.paid,
                  status |-> IF sale.total > 0 /\ sale.paid >= sale.total THEN "paid"
                             ELSE IF sale.paid > 0 THEN "partially_paid" ELSE "unpaid"]
      /\ UNCHANGED <<roomRates, policy, visit, call, sale, edits>>
  BY DEF generateInvoiceForBooking
<1>2. /\ sale \in PriceSales /\ SaleHolds /\ sale.rooms \in Seq(Nat) /\ sale.services \in Nat
      /\ sale.total \in Int /\ sale.paid \in Int
  BY DEF PriceInv, StayPriceTypeOK, PriceSales
<1>3. bill'.items = sale.rooms \o (IF sale.services = 0 THEN <<>> ELSE <<sale.services>>)
  BY <1>1
<1>4. ListSum(bill'.items) = ListSum(sale.rooms) + sale.services
  <2>0. sale.rooms \in Seq(Int) /\ ListSum(sale.rooms) \in Int
    BY <1>2, ListSumIs
  <2>1. CASE sale.services = 0
    <3>1. bill'.items = sale.rooms
      BY <1>2, <1>3, <2>1
    <3> QED BY <2>0, <2>1, <3>1
  <2>2. CASE sale.services # 0
    <3>1. bill'.items = Append(sale.rooms, sale.services)
      BY <1>2, <1>3, <2>2
    <3>2. \A x \in Int : ListSum(Append(sale.rooms, x)) = ListSum(sale.rooms) + x
      BY <2>0, ListSumIs
    <3>3. sale.services \in Int
      BY <1>2
    <3> QED BY <3>1, <3>2, <3>3
  <2> QED BY <2>1, <2>2
<1>5. bill'.subtotal = sale.subtotal /\ sale.subtotal = ListSum(sale.rooms) + sale.services
  BY <1>1, <1>2 DEF SaleHolds
<1>6. bill'.status = "paid" => bill'.due = 0
  <2>1. bill'.due = sale.total - sale.paid /\ (sale.total > 0 => sale.paid <= sale.total)
    BY <1>1, <1>2 DEF SaleHolds
  <2>2. bill'.status = "paid" => sale.total > 0 /\ sale.paid >= sale.total
    BY <1>1
  <2> QED BY <1>2, <2>1, <2>2
<1>7. BillHolds'
  BY <1>4, <1>5, <1>6 DEF BillHolds
<1>8. SaleHolds' /\ sale' \in PriceSales
  BY <1>1, <1>2 DEF SaleHolds
<1> QED BY <1>1, <1>7, <1>8, SaleStep

\* The booking's insert: its subtotal is the visitor's estimate.
LEMMA InsertStep == ASSUME PriceInv, insertPricedBooking PROVE PriceInv'
<1> DEFINE rooms == call.rooms
           priced == call.priced
           services == IF call.extra THEN Service.price + Service.tax ELSE 0
           subtotal == ListSum(priced) + services
           taxable == AtLeast0(subtotal - call.discount)
           tax == Rounded(taxable * policy.tax, 100)
           estimate == IF call.byVisitor THEN estimatedTotal ELSE None
           alike == Alike(rooms, priced)
           edited == edits # (IF call.byVisitor THEN visit.at ELSE call.at)
           tied == Tied(roomRates) /\ \E room \in Range(rooms) : ~Standard(room)
           standard == Standard(call.stay)
<1>1. /\ call # NoCall /\ Len(priced) = Len(rooms) /\ call' = NoCall
      /\ UNCHANGED <<roomRates, policy, visit, bill, edits>>
  BY DEF insertPricedBooking
<1>2. sale' = [NoSale EXCEPT
                !.status = "held", !.rooms = priced, !.nights = nightsBetween(call.stay), !.services = services,
                !.subtotal = subtotal, !.discount = call.discount, !.tax = tax, !.total = taxable + tax,
                !.estimate = estimate, !.alike = alike, !.tied = tied, !.edited = edited, !.standard = standard]
  BY DEF insertPricedBooking, ListSum
<1>3. /\ call \in PriceCalls /\ visit \in PriceVisits /\ policy \in SettingsSets /\ roomRates \subseteq AllRates
      /\ QuoteHolds /\ CallHolds /\ SaleHolds /\ BillHolds /\ edits \in Nat
      /\ rooms \in RoomLists /\ priced \in Seq(Nat) /\ call.stay \in PriceStays /\ call.discount \in Int
      /\ call.extra \in BOOLEAN /\ call.byVisitor \in BOOLEAN /\ call.at \in Nat
      /\ visit.price \in Int /\ visit.quantity \in Nat /\ visit.at \in Nat
  BY DEF PriceInv, StayPriceTypeOK, PriceCalls, PriceVisits
<1>4. DOMAIN priced = DOMAIN rooms /\ DOMAIN rooms = 1..Len(rooms) /\ Len(rooms) \in Nat
  BY <1>1, <1>3, RoomsOK
<1>5. StayOK(call.stay) /\ RatesOK(roomRates)
  BY <1>3, StaysOK, AllRatesOK
<1>6. services \in Nat
  BY StayPriceAssumption
<1> HIDE DEF rooms, priced, services
<1>7. priced \in Seq(Int) /\ ListSum(priced) \in Int
  BY <1>3, ListSumIs
<1>8. subtotal \in Int
  BY <1>6, <1>7
<1> HIDE DEF subtotal
<1>9. taxable \in Int
  BY <1>3, <1>8 DEF AtLeast0
<1> HIDE DEF taxable
<1>10. tax \in Int
  <2>1. policy.tax \in Int
    BY <1>3, StayPriceAssumption
  <2>2. taxable * policy.tax \in Int
    BY <1>9, <2>1
  <2> QED BY <2>2, RoundedWhole
<1>11. estimate \in Int
  <2>1. visit.price * visit.quantity \in Int
    BY <1>3
  <2> QED BY <2>1, StayPriceAssumption DEF estimatedTotal, None
<1>12. ~edited =>
         /\ call.at = edits
         /\ call.byVisitor => visit.at = edits /\ visit.price # None
  BY <1>3 DEF QuoteHolds, CallHolds
<1>13. ~edited => alike \/ tied
  <2> SUFFICES ASSUME ~edited, ~tied, NEW i \in DOMAIN rooms, NEW j \in DOMAIN rooms, rooms[i] = rooms[j]
               PROVE  priced[i] = priced[j]
    BY DEF Alike
  <2>1. priced[i] \in Prices(rooms[i], call.stay) /\ priced[j] \in Prices(rooms[j], call.stay)
    BY <1>3, <1>4, <1>12 DEF CallHolds, rooms, priced
  <2>2. rooms[i].adults \in Nat /\ rooms[i].children \in Nat
    BY <1>3, RoomsOK
  <2>3. CASE Standard(rooms[i])
    BY <1>5, <2>1, <2>2, <2>3, BaseIsOne DEF Prices, Standard
  <2>4. CASE ~Standard(rooms[i])
    <3>1. rooms[i] \in Range(rooms)
      BY DEF Range
    <3>2. ~Tied(roomRates)
      BY <2>4, <3>1
    <3> QED BY <1>5, <2>1, <2>2, <3>2, AlikeIsOne DEF Prices
  <2> QED BY <2>3, <2>4
<1>14. ~edited /\ estimate # None /\ standard => subtotal = estimate
  <2> SUFFICES ASSUME ~edited, call.byVisitor, standard PROVE subtotal = estimate
    OBVIOUS
  <2>1. /\ rooms = [i \in 1..visit.quantity |-> AskedFor(AnyPlan)] /\ call.stay = visit.stay /\ call.extra = visit.extra
        /\ visit.price \in PricesOf(roomRates, AnyPlan, call.stay, call.stay.adults, call.stay.children)
    BY <1>3, <1>12 DEF QuoteHolds, CallHolds, rooms
  <2>2. \A i \in DOMAIN priced : priced[i] \in PricesOf(roomRates, AnyPlan, call.stay, 1, 0)
    <3>1. \A i \in DOMAIN priced : priced[i] \in Prices(rooms[i], call.stay)
      BY <1>3, <1>12 DEF CallHolds, rooms, priced
    <3>2. \A i \in DOMAIN priced : rooms[i] = AskedFor(AnyPlan)
      BY <1>4, <2>1
    <3>3. AskedFor(AnyPlan).plan = AnyPlan /\ AskedFor(AnyPlan).adults = 1 /\ AskedFor(AnyPlan).children = 0
      BY DEF AskedFor
    <3> QED BY <3>1, <3>2, <3>3 DEF Prices
  <2>3. \A i \in DOMAIN priced : priced[i] = visit.price
    <3>1. /\ call.stay.adults \in Nat /\ call.stay.children \in Nat
          /\ call.stay.adults <= BaseAdults /\ call.stay.children <= BaseChildren
          /\ 1 <= BaseAdults /\ 0 <= BaseChildren
      BY <1>5 DEF StayOK, Standard, BaseAdults, BaseChildren
    <3> QED BY <1>5, <2>1, <2>2, <3>1, BaseIsOne
  <2>4. Cardinality(DOMAIN priced) = visit.quantity
    <3>1. Len(rooms) = visit.quantity
      BY <1>3, <2>1
    <3> QED BY <1>1, <1>7, <3>1, ListSumIs DEF rooms, priced
  <2>5. ListSum(priced) = visit.price * visit.quantity
    <3>1. IsFiniteSet(DOMAIN priced) /\ ListSum(priced) = SumFunctionOnSet(priced, DOMAIN priced)
      BY <1>7, ListSumIs
    <3>2. SumFunctionOnSet(priced, DOMAIN priced) = visit.price * Cardinality(DOMAIN priced)
      BY <1>3, <2>3, <3>1, SumOfEqual
    <3> QED BY <2>4, <3>1, <3>2
  <2> QED BY <2>1, <2>5 DEF subtotal, services, estimatedTotal
<1>15. /\ sale'.rooms = priced /\ sale'.services = services /\ sale'.subtotal = subtotal
       /\ sale'.estimate = estimate /\ sale'.alike = alike /\ sale'.tied = tied /\ sale'.edited = edited /\ sale'.standard = standard
       /\ sale'.total = taxable + tax /\ sale'.paid = 0
  BY <1>2 DEF NoSale
<1> HIDE DEF tax, estimate, alike, tied, edited, standard
<1>16. sale' \in PriceSales
  <2>1. nightsBetween(call.stay) \in Int
    BY <1>5 DEF nightsBetween, StayOK
  <2>2. alike \in BOOLEAN /\ tied \in BOOLEAN /\ edited \in BOOLEAN /\ standard \in BOOLEAN
    BY DEF alike, tied, edited, standard, Alike, Standard
  <2>3. sale' = [status |-> "held", rooms |-> priced, nights |-> nightsBetween(call.stay), services |-> services,
                 subtotal |-> subtotal, discount |-> call.discount, tax |-> tax, total |-> taxable + tax, paid |-> 0,
                 fee |-> 0, refundable |-> 0, hours |-> 0, estimate |-> estimate, alike |-> alike,
                 tied |-> tied, edited |-> edited, standard |-> standard]
    BY <1>2 DEF NoSale
  <2>4. taxable + tax \in Int /\ priced \in Seq(Nat)
    BY <1>3, <1>9, <1>10 DEF priced
  <2> QED BY <1>3, <1>6, <1>8, <1>9, <1>10, <1>11, <2>1, <2>2, <2>3, <2>4 DEF PriceSales
<1>17. SaleHolds'
  BY <1>9, <1>10, <1>13, <1>14, <1>15 DEF SaleHolds, subtotal
<1>18. StayPriceTypeOK' /\ QuoteHolds' /\ BillHolds' /\ CallHolds'
  <2>1. call' \in PriceCalls /\ CallHolds'
    BY <1>1, NoCallHolds
  <2>2. StayPriceTypeOK'
    BY <1>1, <1>3, <1>16, <2>1 DEF StayPriceTypeOK
  <2>3. QuoteHolds' /\ BillHolds'
    BY <1>1, <1>3 DEF QuoteHolds, BillHolds
  <2> QED BY <2>1, <2>2, <2>3
<1> QED BY <1>17, <1>18 DEF PriceInv

\* Every step preserves the invariant.
LEMMA PriceStep == PriceInv /\ [StayPriceNext]_stayPriceVars => PriceInv'
<1> SUFFICES ASSUME PriceInv, [StayPriceNext]_stayPriceVars PROVE PriceInv'
  OBVIOUS
<1>1. CASE UNCHANGED stayPriceVars
  <2>1. visit \in PriceVisits
    BY DEF PriceInv, StayPriceTypeOK
  <2>2. QuoteHolds'
    BY <1>1 DEF PriceInv, QuoteHolds, stayPriceVars
  <2> QED BY <1>1, <2>1, <2>2, VisitStep DEF stayPriceVars
<1>2. CASE editRates
  BY <1>2, EditStep
<1>3. CASE \/ \E asked \in StaysAsked : searchAvailability(asked)
           \/ \E n \in 0..MaxRooms : setQuantity(n)
           \/ handleProceedToCheckout \/ toggleService
  BY <1>3, VisitActions
<1>4. CASE \/ submitPriced \/ priceRoom
           \/ \E rooms \in StaffRooms, asked \in StaysAsked, discount \in {0, 50} :
                 createBookingForUser(rooms, asked, discount)
  BY <1>4, CallActions
<1>5. CASE insertPricedBooking
  BY <1>5, InsertStep
<1>6. CASE \/ \E part \in BOOLEAN : takePayment(part)
           \/ \E hours \in Hours : cancelBooking(hours)
  BY <1>6, PayAndCancel
<1>7. CASE generateInvoiceForBooking
  BY <1>7, InvoiceStep
<1> QED BY <1>1, <1>2, <1>3, <1>4, <1>5, <1>6, <1>7 DEF StayPriceNext

\* Rooms asked for alike cost the same and what was shown, unless rates were edited or
\* ones tie that charge extra guests differently, and the invoice adds up: for all
\* tables of rates.
THEOREM PricesStayInAgreement == StayPriceSpec => []PricesAgree
<1>1. StayPriceInit => PriceInv
  BY PriceInit
<1>2. PriceInv /\ [StayPriceNext]_stayPriceVars => PriceInv'
  BY PriceStep
<1>3. PriceInv => PricesAgree
  BY DEF PriceInv, SaleHolds, BillHolds, PricesAgree, ListSum
<1> QED BY <1>1, <1>2, <1>3, PTL DEF StayPriceSpec

\* A share of an amount, rounded to cents, grows with it, and one of up to 100 is no
\* more than the amount.
LEMMA ShareRounds ==
    ASSUME NEW n \in Nat, NEW p \in Nat, NEW q \in Nat, p <= q
    PROVE  /\ 0 <= Rounded(n * p, 100) /\ Rounded(n * p, 100) <= Rounded(n * q, 100)
           /\ Rounded(n * p, 100) \in Int /\ Rounded(n * q, 100) \in Int
           /\ q <= 100 => Rounded(n * q, 100) <= n
           /\ q >= 100 => Rounded(n * q, 100) >= n
<1>1. \A a, b \in Nat : a <= b => n * a \in Nat /\ n * a <= n * b
  <2> SUFFICES ASSUME NEW a \in Nat, NEW b \in Nat, a <= b
               PROVE  n * a \in Nat /\ n * a <= n * b
    OBVIOUS
  <2>1. b - a \in Nat /\ n * (b - a) \in Nat /\ n * b = n * a + n * (b - a) /\ n * a \in Nat
    OBVIOUS
  <2> QED BY <2>1
<1>2. \A a, b \in Nat : a <= b => /\ Rounded(a, 100) <= Rounded(b, 100)
                                  /\ Rounded(a, 100) \in Int /\ 0 <= Rounded(a, 100)
  BY DEF Rounded
<1>3. Rounded(n * 100, 100) = n
  BY DEF Rounded
<1>4. n * p \in Nat /\ n * q \in Nat /\ n * 100 \in Nat /\ n * p <= n * q
  BY <1>1
<1>5. /\ 0 <= Rounded(n * p, 100) /\ Rounded(n * p, 100) <= Rounded(n * q, 100)
      /\ Rounded(n * p, 100) \in Int /\ Rounded(n * q, 100) \in Int
  BY <1>2, <1>4
<1>6. ASSUME q <= 100 PROVE Rounded(n * q, 100) <= n
  <2>1. n * q <= n * 100
    BY <1>1, <1>6
  <2> QED BY <1>2, <1>3, <1>4, <2>1
<1>7. ASSUME q >= 100 PROVE Rounded(n * q, 100) >= n
  <2>1. n * 100 <= n * q
    BY <1>1, <1>7
  <2>2. Rounded(n * 100, 100) <= Rounded(n * q, 100)
    BY <1>2, <1>4, <2>1
  <2> QED BY <1>3, <1>5, <2>2
<1> QED BY <1>5, <1>6, <1>7

\* The fee's percentage is 100, the partial one or none, and with a partial one of up
\* to 100 it falls with the hours that are left.
LEMMA PercentFalls ==
    ASSUME policy \in SettingsSets, Or(policy.partial, 50) >= 0,
           NEW early \in Int, NEW late \in Int, late <= early
    PROVE  /\ feePercent(early) \in Nat /\ feePercent(late) \in Nat
           /\ feePercent(early) <= feePercent(late) \/ feePercent(late) >= 100
           /\ Or(policy.partial, 50) <= 100 => feePercent(late) <= 100
<1>1. policy.full \in Int /\ policy.free \in Int /\ policy.partial \in Int
  BY StayPriceAssumption
<1>2. Or(policy.full, 24) \in Int /\ Or(policy.free, 7) \in Int /\ Or(policy.partial, 50) \in Nat
  BY <1>1 DEF Or, None
<1> DEFINE full == Or(policy.full, 24)
           free == Or(policy.free, 7)
           partial == Or(policy.partial, 50)
<1>3. \A h : feePercent(h) = IF h <= full THEN 100 ELSE IF h <= free * 24 THEN partial ELSE 0
  BY DEF feePercent
<1>4. full \in Int /\ free * 24 \in Int /\ partial \in Nat
  BY <1>2
<1> HIDE DEF full, free
<1> QED BY <1>3, <1>4

\* The fee and what is given back are the cancellation's; no more is paid than the
\* total, unless a negative tax makes that negative.
CancelHolds ==
    /\ 0 <= sale.paid /\ (sale.total >= 0 => sale.paid <= sale.total)
    /\ sale.status = "cancelled" =>
          /\ sale.hours \in Hours
          /\ sale.fee = cancellationFee(sale.hours) /\ sale.refundable = refundableAmount(sale.hours)

\* What the invariant says of a cancelled booking is the property.
LEMMA GradedWhenHeld ==
    ASSUME PriceInv, CancelHolds
    PROVE  CancellationGraded
<1> SUFFICES ASSUME sale.status = "cancelled"
             PROVE  /\ sale.refundable + sale.fee >= sale.paid
                    /\ sale.total >= 0 /\ Or(policy.partial, 50) >= 0 =>
                         /\ sale.refundable <= sale.paid
                         /\ \A hours \in Hours : hours >= sale.hours => refundableAmount(hours) >= sale.refundable
                         /\ Or(policy.partial, 50) <= 100 => sale.fee <= sale.total
  BY DEF CancellationGraded
<1>1. /\ sale.hours \in Hours /\ sale.hours \in Int /\ sale.total \in Int /\ sale.paid \in Nat
      /\ sale.fee \in Int /\ policy \in SettingsSets
      /\ sale.fee = cancellationFee(sale.hours) /\ sale.refundable = refundableAmount(sale.hours)
  BY StayPriceAssumption DEF CancelHolds, PriceInv, StayPriceTypeOK, PriceSales
<1>2. sale.refundable = AtLeast0(sale.paid - sale.fee)
  BY <1>1 DEF refundableAmount
<1>3. sale.refundable + sale.fee >= sale.paid
  BY <1>1, <1>2 DEF AtLeast0
<1>4. ASSUME sale.total >= 0, Or(policy.partial, 50) >= 0
      PROVE  /\ sale.refundable <= sale.paid
             /\ \A hours \in Hours : hours >= sale.hours => refundableAmount(hours) >= sale.refundable
             /\ Or(policy.partial, 50) <= 100 => sale.fee <= sale.total
  <2>1. sale.total \in Nat /\ sale.paid <= sale.total
    BY <1>1, <1>4 DEF CancelHolds
  <2>2. ASSUME NEW hours \in Hours, hours >= sale.hours
        PROVE  /\ 0 <= sale.fee /\ cancellationFee(hours) \in Int
               /\ cancellationFee(hours) <= sale.fee \/ sale.fee >= sale.total
               /\ Or(policy.partial, 50) <= 100 => sale.fee <= sale.total
    <3> DEFINE e == feePercent(hours)
               l == feePercent(sale.hours)
    <3>1. hours \in Int /\ sale.hours <= hours
      BY <1>1, <2>2, StayPriceAssumption
    <3>2. e \in Nat /\ l \in Nat /\ (e <= l \/ l >= 100) /\ (Or(policy.partial, 50) <= 100 => l <= 100)
      BY <1>1, <1>4, <3>1, PercentFalls
    <3>3. cancellationFee(hours) = Rounded(sale.total * e, 100) /\ sale.fee = Rounded(sale.total * l, 100)
      BY <1>1 DEF cancellationFee
    <3> HIDE DEF e, l
    <3>4. e <= e /\ l <= l
      BY <3>2
    <3>5. /\ Rounded(sale.total * e, 100) \in Int /\ 0 <= Rounded(sale.total * l, 100)
          /\ l <= 100 => Rounded(sale.total * l, 100) <= sale.total
          /\ l >= 100 => Rounded(sale.total * l, 100) >= sale.total
      BY ONLY <2>1, <3>2, <3>4, ShareRounds
    <3>6. e <= l => Rounded(sale.total * e, 100) <= Rounded(sale.total * l, 100)
      BY ONLY <2>1, <3>2, ShareRounds
    <3> QED BY <3>2, <3>3, <3>5, <3>6
  <2>3. sale.hours >= sale.hours
    BY <1>1
  <2>4. 0 <= sale.fee /\ (Or(policy.partial, 50) <= 100 => sale.fee <= sale.total)
    BY <1>1, <2>2, <2>3
  <2>5. sale.refundable <= sale.paid
    BY <1>1, <1>2, <2>4 DEF AtLeast0
  <2>6. ASSUME NEW hours \in Hours, hours >= sale.hours PROVE refundableAmount(hours) >= sale.refundable
    <3>1. refundableAmount(hours) = AtLeast0(sale.paid - cancellationFee(hours))
      BY DEF refundableAmount
    <3>2. cancellationFee(hours) \in Int /\ (cancellationFee(hours) <= sale.fee \/ sale.fee >= sale.total)
      BY <2>2, <2>6
    <3> QED BY <1>1, <1>2, <2>1, <3>1, <3>2 DEF AtLeast0
  <2> QED BY <2>4, <2>5, <2>6
<1> QED BY <1>3, <1>4

\* Every step preserves it, the cancellation by the two lemmas above.
LEMMA CancelStep ==
    PriceInv /\ CancelHolds /\ [StayPriceNext]_stayPriceVars => CancelHolds'
<1> SUFFICES ASSUME PriceInv, CancelHolds, [StayPriceNext]_stayPriceVars PROVE CancelHolds'
  OBVIOUS
<1>0. sale \in PriceSales /\ sale.total \in Int /\ sale.paid \in Int /\ policy \in SettingsSets
  BY DEF PriceInv, StayPriceTypeOK, PriceSales
<1>1. ASSUME UNCHANGED <<sale, policy>> PROVE CancelHolds'
  BY <1>1 DEF CancelHolds, cancellationFee, refundableAmount, feePercent
<1>2. ASSUME insertPricedBooking PROVE CancelHolds'
  <2>1. sale'.paid = 0 /\ sale'.status = "held"
    BY <1>2 DEF insertPricedBooking, NoSale
  <2> QED BY <2>1 DEF CancelHolds
<1>3. ASSUME NEW part \in BOOLEAN, takePayment(part) PROVE CancelHolds'
  <2>1. /\ sale.status = "held" /\ sale.paid < sale.total
        /\ sale' = [sale EXCEPT !.paid = IF part /\ @ = 0 THEN sale.total \div 2 ELSE sale.total]
    BY <1>3 DEF takePayment
  <2>2. sale'.total = sale.total /\ sale'.status = "held"
        /\ sale'.paid = IF part /\ sale.paid = 0 THEN sale.total \div 2 ELSE sale.total
    BY <1>0, <2>1 DEF PriceSales
  <2>3. 0 <= sale.total /\ 0 <= sale.total \div 2 /\ sale.total \div 2 <= sale.total
    BY <1>0, <2>1 DEF CancelHolds
  <2> QED BY <1>0, <2>2, <2>3 DEF CancelHolds
<1>4. ASSUME NEW hours \in Hours, cancelBooking(hours) PROVE CancelHolds'
  <2>1. /\ policy' = policy
        /\ sale' = [sale EXCEPT !.status = "cancelled", !.hours = hours, !.fee = cancellationFee(hours),
                                !.refundable = refundableAmount(hours)]
    BY <1>4 DEF cancelBooking
  <2>2. /\ sale'.total = sale.total /\ sale'.paid = sale.paid /\ sale'.hours = hours
        /\ sale'.fee = cancellationFee(hours) /\ sale'.refundable = refundableAmount(hours)
    BY <1>0, <2>1 DEF PriceSales
  <2>3. cancellationFee(hours)' = cancellationFee(hours)
    BY <2>1, <2>2 DEF cancellationFee, feePercent
  <2>4. refundableAmount(hours)' = refundableAmount(hours)
    BY <2>2, <2>3 DEF refundableAmount
  <2> QED BY <2>2, <2>3, <2>4 DEF CancelHolds
<1>5. CASE \/ UNCHANGED stayPriceVars \/ editRates
           \/ \E asked \in StaysAsked : searchAvailability(asked)
           \/ \E n \in 0..MaxRooms : setQuantity(n)
           \/ handleProceedToCheckout \/ toggleService \/ submitPriced \/ priceRoom
           \/ \E rooms \in StaffRooms, asked \in StaysAsked, discount \in {0, 50} :
                 createBookingForUser(rooms, asked, discount)
           \/ generateInvoiceForBooking
  BY <1>1, <1>5 DEF stayPriceVars, editRates, searchAvailability, setQuantity, handleProceedToCheckout, toggleService,
                    submitPriced, priceRoom, createBookingForUser, generateInvoiceForBooking
<1> QED BY <1>2, <1>3, <1>4, <1>5 DEF StayPriceNext

\* A cancellation loses nothing of what was paid and, with no negative percentage or
\* total, gives back more the earlier it comes: cancelBooking with any settings.
THEOREM CancellationsStayGraded == StayPriceSpec => []CancellationGraded
<1>1. StayPriceInit => PriceInv /\ CancelHolds
  BY PriceInit DEF StayPriceInit, CancelHolds, NoSale
<1>2. PriceInv /\ CancelHolds /\ [StayPriceNext]_stayPriceVars => PriceInv' /\ CancelHolds'
  BY PriceStep, CancelStep
<1>3. PriceInv /\ CancelHolds => CancellationGraded
  BY GradedWhenHeld
<1> QED BY <1>1, <1>2, <1>3, PTL DEF StayPriceSpec
===============================================================================

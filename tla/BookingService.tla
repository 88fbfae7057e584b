--------------------------- MODULE BookingService ---------------------------
(***************************************************************************)
(* Hotel bookings as nextapp/src/server/services/bookingService.js makes   *)
(* and moves them, over PostgreSQL under READ COMMITTED.                   *)
(*                                                                         *)
(* createBooking is one transaction: it takes an advisory lock per         *)
(* explicit room and per wanted room type in sorted order, re-checks the   *)
(* overlaps of the rooms it names, reads the rooms of each wanted type and *)
(* then their overlaps, picks from what it has read, loads the rooms,      *)
(* takes the booking-number lock and inserts.  Each statement reads what   *)
(* is committed when it runs, so each is a step of its own; everything the *)
(* transaction writes becomes visible, and its locks are released, in the  *)
(* commit step.                                                            *)
(*                                                                         *)
(* The lifecycle calls (confirm, cancel, check-in, check-out and the       *)
(* expired-hold sweeper) lock nothing: a transaction that reads the        *)
(* booking, then one that writes its status whatever it has become.        *)
(*                                                                         *)
(* A room and a room type are natural numbers: a lock key IS the number,   *)
(* numbers order keys as the strings sort ("roomtype:..." after any UUID), *)
(* and rooms of a type are numbered in room-number order.                  *)
(***************************************************************************)
EXTENDS Naturals, FiniteSets, Sequences

CONSTANTS
    Rooms,            \* lock keys of the rooms
    RoomTypes,        \* lock keys of the room types
    NumberKey,        \* the key "booking:<year>" of utils/bookingNumber.js
    TypeOf,           \* the type of each room
    Clients,          \* createBooking calls; a booking has its call's name
    Requests,         \* what a call may ask for
    InitialRooms,     \* the room statuses the rooms table may start with
    Staff,            \* lifecycle calls, one operation each
    Ops,              \* the lifecycle operations such a call may be
    Sweepers,         \* holdExpiryJob timers (overlapping ticks, processes)
    NoOne             \* the owner of a free lock

RoomStatuses == {"available", "occupied", "maintenance", "inactive", "deleted"}
LifecycleOps == {"confirm", "cancel", "checkIn", "checkOut"}

\* input of createBooking: how many of each room and of each type the
\* selections name, the stay [from, to) and immediateConfirm.
RequestType == [want : [Rooms \cup RoomTypes -> Nat],
                from : Nat, to : Nat, immediate : BOOLEAN]

\* The validations before the transaction: a room is asked for, and the stay
\* is not empty.
ASSUME ConstantsAssumption ==
    /\ Rooms \subseteq Nat /\ RoomTypes \subseteq Nat /\ IsFiniteSet(Rooms)
    /\ \A r \in Rooms, t \in RoomTypes : r < t
    /\ NumberKey \notin Rooms \cup RoomTypes
    /\ TypeOf \in [Rooms -> RoomTypes]
    /\ Requests \subseteq RequestType
    /\ \A q \in Requests : q.from < q.to /\ \E k \in DOMAIN q.want : q.want[k] > 0
    /\ InitialRooms \subseteq [Rooms -> RoomStatuses]
    /\ Ops \subseteq LifecycleOps
    /\ Staff \cap Sweepers = {}
    /\ NoOne \notin Clients

VARIABLES
    pc,           \* where each createBooking call is
    req,          \* its input
    lock,         \* the client whose transaction owns each advisory lock
    todo,         \* the wanted types it has not read yet
    pool,         \* the rooms it has read of the type it is at
    offered,      \* the rooms it found free, of all the types it has read
    picked,       \* the rooms it resolved to; the booking_rooms rows once booked
    status,       \* bookings.status, "none" before the row exists
    expired,      \* bookings whose hold_expires_at has passed
    history,      \* booking_status_history, in commit order
    roomStatus,   \* rooms.status ("deleted" when deleted_at is set)
    txs,          \* lifecycle transactions that have read and not committed
    spent,        \* staff calls already made
    batch,        \* what each sweeper's scan returned and it has not visited
    steady        \* auxiliary, for one property: see Watch

createVars    == <<pc, req, lock, todo, pool, offered, picked>>
lifecycleVars == <<expired, roomStatus, txs, spent, batch>>
vars == <<pc, req, lock, todo, pool, offered, picked, status, expired, history,
          roomStatus, txs, spent, batch>>
allVars == <<vars, steady>>

-----------------------------------------------------------------------------
\* availabilityService.js

BLOCKING_BOOKING_STATUSES == {"held", "confirmed", "checked_in"}

BookingStatuses == BLOCKING_BOOKING_STATUSES \cup {"checked_out", "cancelled"}

\* (mutants: only stays that begin inside q; a touching stay counted)
OverlapBeginsInside(p, q) == p.from < q.to /\ p.from >= q.from
OverlapClosed(p, q) == p.from <= q.to /\ p.to >= q.from

Overlap(p, q) == p.from < q.to /\ p.to > q.from

IsBlocking(b) == status[b] \in BLOCKING_BOOKING_STATUSES

\* The rooms among R with a blocking booking that overlaps stay q.
findOverlappingRoomIds(R, q) ==
    {r \in R : \E b \in Clients : IsBlocking(b) /\ r \in picked[b] /\ Overlap(req[b], q)}

-----------------------------------------------------------------------------
\* createBooking

LockKeys   == Rooms \cup RoomTypes \cup {NumberKey}
KeysOf(q)  == {k \in Rooms \cup RoomTypes : q.want[k] > 0}
Explicit(q) == {r \in Rooms : q.want[r] > 0}
Wanted(q)   == {t \in RoomTypes : q.want[t] > 0}

\* transaction end: the locks go with it
Release(c) == lock' = [k \in LockKeys |-> IF lock[k] = c THEN NoOne ELSE lock[k]]

\* The transaction rolls back, and nothing the call did remains.
Undo(c) ==
    /\ Release(c)
    /\ todo' = [todo EXCEPT ![c] = {}]
    /\ pool' = [pool EXCEPT ![c] = {}]
    /\ offered' = [offered EXCEPT ![c] = {}]
    /\ picked' = [picked EXCEPT ![c] = {}]
    /\ UNCHANGED <<req, status, history>>

\* The handler throws.
Refuse(c) == pc' = [pc EXCEPT ![c] = "refused"] /\ Undo(c)

MissingKeys(c) == {k \in KeysOf(req[c]) : lock[k] # c}

\* (mutant: keys taken in the order of the selections)
NextKeyUnsorted(c, k) == k \in MissingKeys(c)

NextKey(c, k) == k \in MissingKeys(c) /\ \A j \in MissingKeys(c) : k <= j

\* lockRoomsAndTypes: one pg_advisory_xact_lock, waiting while it is taken.
lockRoomsAndTypes(c) ==
    /\ pc[c] = "lock"
    /\ \E k \in KeysOf(req[c]) :
          /\ NextKey(c, k)
          /\ lock[k] = NoOne
          /\ lock' = [lock EXCEPT ![k] = c]
          /\ pc' = [pc EXCEPT ![c] = IF MissingKeys(c) = {k} THEN "assert" ELSE "lock"]
    /\ UNCHANGED <<req, todo, pool, offered, picked, status, history>>
    /\ UNCHANGED lifecycleVars

\* (mutant: the re-check after the locks is missing)
assertNothing(c) ==
    /\ pc[c] = "assert"
    /\ picked' = [picked EXCEPT ![c] = Explicit(req[c])]
    /\ todo' = [todo EXCEPT ![c] = Wanted(req[c])]
    /\ pc' = [pc EXCEPT ![c] = IF Wanted(req[c]) = {} THEN "load" ELSE "resolve"]
    /\ UNCHANGED <<req, lock, pool, offered, status, history>> /\ UNCHANGED lifecycleVars

\* Only the rooms named explicitly are checked here.
assertRoomsAvailable(c) ==
    /\ pc[c] = "assert"
    /\ IF findOverlappingRoomIds(Explicit(req[c]), req[c]) # {}
       THEN Refuse(c)
       ELSE /\ picked' = [picked EXCEPT ![c] = Explicit(req[c])]
            /\ todo' = [todo EXCEPT ![c] = Wanted(req[c])]
            /\ pc' = [pc EXCEPT ![c] = IF Wanted(req[c]) = {} THEN "load" ELSE "resolve"]
            /\ UNCHANGED <<req, lock, pool, offered, status, history>>
    /\ UNCHANGED lifecycleVars

\* resolveRoomSelections, for one wanted type after the other: the query for its
\* rooms,
selectCandidates(c, t) ==
    /\ pc[c] = "resolve" /\ t \in todo[c]
    /\ pool' = [pool EXCEPT ![c] =
                   {r \in Rooms : TypeOf[r] = t /\ roomStatus[r] \in {"available", "occupied"}}]
    /\ todo' = [todo EXCEPT ![c] = @ \ {t}]
    /\ pc' = [pc EXCEPT ![c] = "overlap"]
    /\ UNCHANGED <<req, lock, offered, picked, status, history>> /\ UNCHANGED lifecycleVars

\* and then the query for the bookings of those rooms.
findOverlaps(c) ==
    /\ pc[c] = "overlap"
    /\ offered' = [offered EXCEPT ![c] = @ \cup (pool[c] \ findOverlappingRoomIds(pool[c], req[c]))]
    /\ pool' = [pool EXCEPT ![c] = {}]
    /\ pc' = [pc EXCEPT ![c] = IF todo[c] = {} THEN "pick" ELSE "resolve"]
    /\ UNCHANGED <<req, lock, todo, picked, status, history>> /\ UNCHANGED lifecycleVars

\* (mutant: a room already named explicitly may be picked again)
FreeOfTypeWithUsed(c, t) == {r \in offered[c] : TypeOf[r] = t}

\* The rooms of type t that call c may still pick.
FreeOfType(c, t) == {r \in offered[c] \ Explicit(req[c]) : TypeOf[r] = t}

\* The first n rooms of a set, in room-number order.
FirstRooms(n, R) == {r \in R : Cardinality({s \in R : s < r}) < n}

Picks(c) == UNION {FirstRooms(req[c].want[t], FreeOfType(c, t)) : t \in Wanted(req[c])}

\* With every query answered, a pick for each selection that names a type, or
\* the refusal: others may have committed since the queries.
pickRooms(c) ==
    /\ pc[c] = "pick"
    /\ IF \E t \in Wanted(req[c]) : Cardinality(FreeOfType(c, t)) < req[c].want[t]
       THEN Refuse(c)
       ELSE /\ picked' = [picked EXCEPT ![c] = Explicit(req[c]) \cup Picks(c)]
            /\ offered' = [offered EXCEPT ![c] = {}]
            /\ pc' = [pc EXCEPT ![c] = "load"]
            /\ UNCHANGED <<req, lock, todo, pool, status, history>>
    /\ UNCHANGED lifecycleVars

resolveRoomSelections(c) ==
    \/ \E t \in RoomTypes : selectCandidates(c, t)
    \/ findOverlaps(c)
    \/ pickRooms(c)

\* The same-room-twice check, and the load of the rooms with their statuses.
loadRooms(c) ==
    /\ pc[c] = "load"
    /\ IF \/ \E r \in Rooms : req[c].want[r] > 1
          \/ \E r \in picked[c] : roomStatus[r] \in {"maintenance", "inactive", "deleted"}
       THEN Refuse(c)
       ELSE /\ pc' = [pc EXCEPT ![c] = "number"]
            /\ UNCHANGED <<req, lock, todo, pool, offered, picked, status, history>>
    /\ UNCHANGED lifecycleVars

\* generateBookingNumber takes its own lock, held to the end as well.
generateBookingNumber(c) ==
    /\ pc[c] = "number"
    /\ lock[NumberKey] = NoOne
    /\ lock' = [lock EXCEPT ![NumberKey] = c]
    /\ pc' = [pc EXCEPT ![c] = "insert"]
    /\ UNCHANGED <<req, todo, pool, offered, picked, status, history>>
    /\ UNCHANGED lifecycleVars

InitialStatus(q) == IF q.immediate THEN "confirmed" ELSE "held"

\* The inserts, visible together at the commit that ends the transaction.
insertBooking(c) ==
    /\ pc[c] = "insert"
    /\ status' = [status EXCEPT ![c] = InitialStatus(req[c])]
    /\ history' = [history EXCEPT ![c] = <<[from |-> "none", to |-> InitialStatus(req[c])]>>]
    /\ pc' = [pc EXCEPT ![c] = "done"]
    /\ Release(c)
    /\ UNCHANGED <<req, todo, pool, offered, picked>> /\ UNCHANGED lifecycleVars

InCreate(c) == pc[c] \in {"lock", "assert", "resolve", "overlap", "pick", "load",
                          "number", "insert"}

\* A statement fails, the process dies, or a rate, service or setting the
\* model leaves out is missing: the transaction rolls back.
rollback(c) ==
    /\ InCreate(c)
    /\ pc' = [pc EXCEPT ![c] = "failed"]
    /\ Undo(c)
    /\ UNCHANGED lifecycleVars

createBooking(c) ==
    \/ lockRoomsAndTypes(c)
    \/ assertRoomsAvailable(c)
    \/ resolveRoomSelections(c)
    \/ loadRooms(c)
    \/ generateBookingNumber(c)
    \/ insertBooking(c)

-----------------------------------------------------------------------------
\* Lifecycle transactions: a read whose guard decides, then the writes.

\* (mutant: check-in straight from a hold)
AllowedFromHold(op) ==
    CASE op = "cancel"   -> BookingStatuses \ {"cancelled", "checked_out"}
      [] op = "checkOut" -> {"checked_in"}
      [] OTHER           -> {"held"}

\* The statuses from which each operation's guard lets it go on ("pending"
\* is in the schema but no code writes it).
AllowedFrom(op) ==
    CASE op = "confirm"  -> {"held"}
      [] op = "cancel"   -> BookingStatuses \ {"cancelled", "checked_out"}
      [] op = "checkIn"  -> {"confirmed"}
      [] op = "checkOut" -> {"checked_in"}
      [] op = "sweep"    -> {"held"}

ToStatus(op) ==
    CASE op = "confirm"  -> "confirmed"
      [] op = "cancel"   -> "cancelled"
      [] op = "checkIn"  -> "checked_in"
      [] op = "checkOut" -> "checked_out"
      [] op = "sweep"    -> "cancelled"

Tx(w, op, b) == [by |-> w, op |-> op, booking |-> b, seen |-> status[b]]

\* confirmBookingAfterPayment, cancelBooking, checkInBooking or
\* checkOutBooking up to its guard.
readBooking(w, op, b) ==
    /\ w \notin spent
    /\ status[b] \in AllowedFrom(op)
    /\ txs' = txs \cup {Tx(w, op, b)}
    /\ spent' = spent \cup {w}
    /\ UNCHANGED <<expired, roomStatus, batch>>
    /\ UNCHANGED createVars /\ UNCHANGED <<status, history>>

\* What check-in and check-out write to the booking's rooms.
RoomsAfter(op, b) ==
    LET new == IF op = "checkIn" THEN "occupied" ELSE "available"
    IN  IF op \in {"checkIn", "checkOut"}
        THEN [r \in Rooms |-> IF r \in picked[b] /\ roomStatus[r] # "deleted"
                              THEN new ELSE roomStatus[r]]
        ELSE roomStatus

\* The rest of the call: UPDATE ... WHERE id, whatever the status is now, and
\* a history row from the status that was read.
transitionStatus(t) ==
    /\ status' = [status EXCEPT ![t.booking] = ToStatus(t.op)]
    /\ history' = [history EXCEPT ![t.booking] =
                      Append(@, [from |-> t.seen, to |-> ToStatus(t.op)])]
    /\ roomStatus' = RoomsAfter(t.op, t.booking)
    /\ txs' = txs \ {t}
    /\ UNCHANGED <<expired, spent, batch>> /\ UNCHANGED createVars

\* The transaction rolls back; a sweeper gives up the rest of its batch.
abandon(t) ==
    /\ txs' = txs \ {t}
    /\ batch' = [s \in Sweepers |-> IF s = t.by THEN {} ELSE batch[s]]
    /\ UNCHANGED <<expired, roomStatus, spent>>
    /\ UNCHANGED createVars /\ UNCHANGED <<status, history>>

\* holdExpiresAt passes while the booking is still held.
holdExpires(b) ==
    /\ status[b] = "held"
    /\ expired' = expired \cup {b}
    /\ UNCHANGED <<roomStatus, txs, spent, batch>>
    /\ UNCHANGED createVars /\ UNCHANGED <<status, history>>

Idle(s) == batch[s] = {} /\ \A t \in txs : t.by # s

\* (mutant: holds that have not expired)
scanUnexpired(s) ==
    /\ Idle(s)
    /\ batch' = [batch EXCEPT ![s] = {b \in Clients \ expired : status[b] = "held"}]
    /\ UNCHANGED <<expired, roomStatus, txs, spent>>
    /\ UNCHANGED createVars /\ UNCHANGED <<status, history>>

\* releaseExpiredHolds: the scan, outside any transaction.
scanExpired(s) ==
    /\ Idle(s)
    /\ batch' = [batch EXCEPT ![s] = {b \in expired : status[b] = "held"}]
    /\ UNCHANGED <<expired, roomStatus, txs, spent>>
    /\ UNCHANGED createVars /\ UNCHANGED <<status, history>>

\* releaseExpiredHolds: the next booking of the scan is read again.
rereadHold(s, b) ==
    /\ b \in batch[s]
    /\ \A t \in txs : t.by # s
    /\ batch' = [batch EXCEPT ![s] = @ \ {b}]
    /\ txs' = IF status[b] = "held" THEN txs \cup {Tx(s, "sweep", b)} ELSE txs
    /\ UNCHANGED <<expired, roomStatus, spent>>
    /\ UNCHANGED createVars /\ UNCHANGED <<status, history>>

lifecycle ==
    \/ \E w \in Staff, op \in Ops, b \in Clients : readBooking(w, op, b)
    \/ \E t \in txs : transitionStatus(t) \/ abandon(t)
    \/ \E b \in Clients : holdExpires(b)
    \/ \E s \in Sweepers : scanExpired(s) \/ \E b \in Clients : rereadHold(s, b)

-----------------------------------------------------------------------------
\* The rooms a call can count on (auxiliary: no action reads it)

\* The nights of a stay [from, to), and whether two stays share one.
Nights(q) == q.from .. q.to - 1

SharesNight(p, q) == Nights(p) \cap Nights(q) # {}

\* The rooms in service that no blocking booking has on a night of request q.
Usable(q) ==
    {r \in Rooms :
        /\ roomStatus[r] \in {"available", "occupied"}
        /\ \A b \in Clients : IsBlocking(b) /\ r \in picked[b] => ~SharesNight(req[b], q)}

\* Where a call still reads rooms and bookings.
Reading == {"assert", "resolve", "overlap", "pick", "load"}

\* steady[c]: the rooms that have been usable for call c in every state since its
\* locks were complete.
Watch ==
    steady' = [c \in Clients |->
        IF pc'[c] \notin Reading THEN {}
        ELSE IF pc[c] \in Reading THEN steady[c] \cap Usable(req[c])'
        ELSE Usable(req[c])']

-----------------------------------------------------------------------------
Init ==
    /\ pc = [c \in Clients |-> "lock"]
    /\ req \in [Clients -> Requests]
    /\ lock = [k \in LockKeys |-> NoOne]
    /\ todo = [c \in Clients |-> {}]
    /\ pool = [c \in Clients |-> {}]
    /\ offered = [c \in Clients |-> {}]
    /\ picked = [c \in Clients |-> {}]
    /\ status = [c \in Clients |-> "none"]
    /\ expired = {}
    /\ history = [c \in Clients |-> <<>>]
    /\ roomStatus \in InitialRooms
    /\ txs = {}
    /\ spent = {}
    /\ batch = [s \in Sweepers |-> {}]
    /\ steady = [c \in Clients |-> {}]

Next ==
    /\ \/ \E c \in Clients : createBooking(c) \/ rollback(c)
       \/ lifecycle
    /\ Watch

Spec == Init /\ [][Next]_allVars

\* The event loop and the database let a statement that can run finish, and
\* setInterval keeps firing.  A rollback or a new staff call is never owed.
\* Progress of a sweeper's transaction needs strong fairness: it may fail and
\* be retried, only not for ever.
Fairness ==
    /\ \A c \in Clients : WF_vars(createBooking(c))
    /\ \A s \in Sweepers :
          /\ WF_vars(scanExpired(s))
          /\ \A b \in Clients : WF_vars(rereadHold(s, b))
    /\ \A b \in Clients, s \in Sweepers :
          SF_vars(\E t \in txs : t.by = s /\ t.booking = b /\ transitionStatus(t))
    /\ \A w \in Staff :
          WF_vars(\E t \in txs : t.by = w /\ (transitionStatus(t) \/ abandon(t)))

FairSpec == Spec /\ Fairness

-----------------------------------------------------------------------------
\* Properties

Pcs == {"lock", "assert", "resolve", "overlap", "pick", "load", "number", "insert",
        "done", "refused", "failed"}
HistoryRow == [from : BookingStatuses \cup {"none"}, to : BookingStatuses]
OpenTx == [by : Staff \cup Sweepers, op : Ops \cup {"sweep"},
           booking : Clients, seen : BookingStatuses]

\* Every variable has its type, and a row exists exactly for the calls that
\* committed, its status being the one the last history row says.
TypeOK ==
    /\ pc \in [Clients -> Pcs]
    /\ req \in [Clients -> Requests]
    /\ lock \in [LockKeys -> Clients \cup {NoOne}]
    /\ todo \in [Clients -> SUBSET RoomTypes]
    /\ pool \in [Clients -> SUBSET Rooms]
    /\ offered \in [Clients -> SUBSET Rooms]
    /\ picked \in [Clients -> SUBSET Rooms]
    /\ status \in [Clients -> BookingStatuses \cup {"none"}]
    /\ expired \subseteq Clients
    /\ history \in [Clients -> Seq(HistoryRow)]
    /\ roomStatus \in [Rooms -> RoomStatuses]
    /\ txs \subseteq OpenTx
    /\ spent \subseteq Staff
    /\ batch \in [Sweepers -> SUBSET Clients]
    /\ steady \in [Clients -> SUBSET Rooms]

\* The booking left the blocking statuses and was written back into them by a
\* lifecycle call that had read it earlier.
RevivedIn(h) ==
    \E i \in 1..Len(h) - 1 :
        h[i].to \notin BLOCKING_BOOKING_STATUSES /\ h[i + 1].to \in BLOCKING_BOOKING_STATUSES

Revived(b) == RevivedIn(history[b])

Clash(b1, b2) ==
    /\ b1 # b2
    /\ IsBlocking(b1) /\ IsBlocking(b2)
    /\ picked[b1] \cap picked[b2] # {}
    /\ SharesNight(req[b1], req[b2])

\* What booking-flow.md section 2 claims: no two requests for one room and
\* overlapping dates both hold it.
NoDoubleBooking == \A b1, b2 \in Clients : ~Clash(b1, b2)

\* createBooking never admits a double booking where its locks can see one: two
\* bookings clash only if a lifecycle call wrote one of them back to life, or if
\* their requests have no lock key in common (one named a room, the other its type).
AdmissionIsExclusive ==
    \A b1, b2 \in Clients :
        Clash(b1, b2) => \/ Revived(b1) \/ Revived(b2)
                         \/ KeysOf(req[b1]) \cap KeysOf(req[b2]) = {}

\* A committed booking has every room it asked for: each explicit room and,
\* beside those, as many other rooms of each type as selections named it.
WholeBooking ==
    \A b \in Clients : status[b] # "none" =>
        /\ Explicit(req[b]) \subseteq picked[b]
        /\ \A t \in RoomTypes :
              Cardinality({r \in picked[b] \ Explicit(req[b]) : TypeOf[r] = t}) = req[b].want[t]

\* Could request q be met from rooms R?
Satisfiable(q, R) ==
    /\ \A r \in Rooms : q.want[r] <= 1
    /\ Explicit(q) \subseteq R
    /\ \A t \in Wanted(q) : Cardinality({r \in R \ Explicit(q) : TypeOf[r] = t}) >= q.want[t]

\* A 409 is never spurious: a call that is refused, however many steps of other
\* calls came between its queries, could not have been met from the rooms that were
\* usable all the time since its locks were complete.
RefusedMeansUnsatisfiable ==
    [][\A c \in Clients :
          pc[c] # "refused" /\ pc'[c] = "refused" => ~Satisfiable(req[c], steady[c])]_vars

\* A booking goes through the documented stages: it is checked in only after
\* it was confirmed, and checked out only after it was checked in.
StagesInOrder ==
    \A b \in Clients : \A i \in 1..Len(history[b]) :
        /\ history[b][i].to = "checked_in" =>
              \E j \in 1..i - 1 : history[b][j].to = "confirmed"
        /\ history[b][i].to = "checked_out" =>
              \E j \in 1..i - 1 : history[b][j].to = "checked_in"

\* Every createBooking call comes to an end: sorted keys cannot deadlock.
EveryCallEnds == \A c \in Clients : <>(pc[c] \in {"done", "refused", "failed"})

\* An expired hold is released by the sweeper, if nothing confirms it first.
ExpiredHoldsReleased ==
    \A b \in Clients : b \in expired /\ status[b] = "held" ~> status[b] # "held"

\* The rooms as RoomCalendar sees them.
StayOf(q) == [from |-> q.from, to |-> q.to, under |-> KeysOf(q)]

Calendar == INSTANCE RoomCalendar WITH
    Bookings <- Clients,
    Stays    <- {StayOf(q) : q \in Requests},
    claims   <- [b \in Clients |->
                   IF status[b] = "none" THEN {} ELSE {[room |-> r, stay |-> StayOf(req[b])] : r \in picked[b]}],
    claimed  <- {b \in Clients : status[b] # "none"},
    holding  <- {b \in Clients : IsBlocking(b)},
    revived  <- {b \in Clients : Revived(b)}

\* A booking's rooms are claimed in one step, at most once, and only where no claim
\* made under a common key stands; they are given back together, and taken back
\* only by a lifecycle call.
ImplementsCalendar == Calendar!Spec

=============================================================================

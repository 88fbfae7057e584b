------------------------ MODULE BookingServiceProofs ------------------------
(***************************************************************************)
(* Proofs about BookingService, for any rooms, types, requests, calls,     *)
(* staff operations and sweepers.                                          *)
(***************************************************************************)
EXTENDS BookingService, CountingLemmas, TLAPS

-----------------------------------------------------------------------------
\* Type correctness

\* The operations' results are statuses.
LEMMA ToStatusType ==
    ASSUME NEW op \in LifecycleOps \cup {"sweep"}
    PROVE  ToStatus(op) \in BookingStatuses
BY DEF ToStatus, LifecycleOps, BookingStatuses, BLOCKING_BOOKING_STATUSES

\* A read that opens a transaction saw a row.
LEMMA AllowedFromType ==
    ASSUME NEW op \in LifecycleOps \cup {"sweep"}
    PROVE  AllowedFrom(op) \subseteq BookingStatuses
BY DEF AllowedFrom, LifecycleOps, BookingStatuses, BLOCKING_BOOKING_STATUSES

\* Ending a transaction leaves a lock table.
LEMMA ReleaseType ==
    ASSUME TypeOK, NEW c \in Clients, Release(c)
    PROVE  lock' \in [LockKeys -> Clients \cup {NoOne}]
BY DEF TypeOK, Release

\* So does undoing what it read.
LEMMA UndoType ==
    ASSUME TypeOK, NEW c \in Clients, Undo(c)
    PROVE  /\ lock' \in [LockKeys -> Clients \cup {NoOne}]
           /\ todo' \in [Clients -> SUBSET RoomTypes]
           /\ pool' \in [Clients -> SUBSET Rooms]
           /\ offered' \in [Clients -> SUBSET Rooms]
           /\ picked' \in [Clients -> SUBSET Rooms]
           /\ UNCHANGED <<req, status, history>>
BY ReleaseType DEF TypeOK, Undo

\* The rooms watched for a call are rooms.
LEMMA SteadyType ==
    ASSUME TypeOK, Watch
    PROVE  steady' \in [Clients -> SUBSET Rooms]
<1>1. \A c \in Clients : Usable(req[c])' \subseteq Rooms
  BY DEF Usable
<1>2. \A c \in Clients : steady[c] \cap Usable(req[c])' \subseteq Rooms
  BY <1>1
<1> QED BY <1>1, <1>2 DEF Watch

\* A call picks among the rooms it found free.
LEMMA PicksOffered ==
    ASSUME NEW c \in Clients
    PROVE  Picks(c) \subseteq offered[c]
BY DEF Picks, FirstRooms, FreeOfType

\* createBooking keeps the types.
LEMMA CreateKeepsTypes ==
    ASSUME TypeOK, Watch, NEW c \in Clients, createBooking(c) \/ rollback(c)
    PROVE  TypeOK'
<1>0. steady' \in [Clients -> SUBSET Rooms]
  BY SteadyType
<1> USE <1>0, ConstantsAssumption DEF TypeOK, Pcs, lifecycleVars
<1>1. CASE lockRoomsAndTypes(c)
  BY <1>1 DEF lockRoomsAndTypes, LockKeys, KeysOf
<1>2. CASE assertRoomsAvailable(c)
  <2>1. CASE Refuse(c)
    BY <1>2, <2>1, UndoType DEF assertRoomsAvailable, Refuse
  <2>2. CASE ~Refuse(c)
    <3>1. Explicit(req[c]) \subseteq Rooms /\ Wanted(req[c]) \subseteq RoomTypes
      BY DEF Explicit, Wanted
    <3>2. /\ picked' = [picked EXCEPT ![c] = Explicit(req[c])]
          /\ todo' = [todo EXCEPT ![c] = Wanted(req[c])]
          /\ pc' = [pc EXCEPT ![c] = IF Wanted(req[c]) = {} THEN "load" ELSE "resolve"]
          /\ UNCHANGED <<req, lock, pool, offered, status, history>>
          /\ UNCHANGED lifecycleVars
      BY <1>2, <2>2 DEF assertRoomsAvailable
    <3>3. picked' \in [Clients -> SUBSET Rooms] /\ todo' \in [Clients -> SUBSET RoomTypes]
      BY <3>1, <3>2
    <3> QED BY <3>2, <3>3
  <2> QED BY <2>1, <2>2
<1>3. CASE resolveRoomSelections(c)
  <2>1. ASSUME NEW t \in RoomTypes, selectCandidates(c, t)
        PROVE  TypeOK'
    <3> DEFINE new == {r \in Rooms : TypeOf[r] = t /\ roomStatus[r] \in {"available", "occupied"}}
    <3>1. /\ pool' = [pool EXCEPT ![c] = new]
          /\ todo' = [todo EXCEPT ![c] = @ \ {t}]
          /\ pc' = [pc EXCEPT ![c] = "overlap"]
          /\ UNCHANGED <<req, lock, offered, picked, status, history>>
          /\ UNCHANGED lifecycleVars
      BY <2>1 DEF selectCandidates
    <3>2. new \in SUBSET Rooms
      OBVIOUS
    <3> HIDE DEF new
    <3> QED BY <3>1, <3>2
  <2>2. CASE findOverlaps(c)
    <3>1. /\ offered' = [offered EXCEPT ![c] = @ \cup (pool[c] \ findOverlappingRoomIds(pool[c], req[c]))]
          /\ pool' = [pool EXCEPT ![c] = {}]
          /\ pc' = [pc EXCEPT ![c] = IF todo[c] = {} THEN "pick" ELSE "resolve"]
          /\ UNCHANGED <<req, lock, todo, picked, status, history>>
          /\ UNCHANGED lifecycleVars
      BY <2>2 DEF findOverlaps
    <3>2. offered' \in [Clients -> SUBSET Rooms] /\ pool' \in [Clients -> SUBSET Rooms]
      BY <3>1
    <3> QED BY <3>1, <3>2
  <2>3. CASE pickRooms(c) /\ Refuse(c)
    BY <2>3, UndoType DEF pickRooms, Refuse
  <2>4. CASE pickRooms(c) /\ ~Refuse(c)
    <3>1. Explicit(req[c]) \cup Picks(c) \subseteq Rooms
      <4>1. Picks(c) \subseteq offered[c]
        BY ONLY PicksOffered, c \in Clients
      <4>2. offered[c] \subseteq Rooms /\ Explicit(req[c]) \subseteq Rooms
        BY DEF Explicit
      <4> QED BY <4>1, <4>2
    <3>2. /\ picked' = [picked EXCEPT ![c] = Explicit(req[c]) \cup Picks(c)]
          /\ offered' = [offered EXCEPT ![c] = {}]
          /\ pc' = [pc EXCEPT ![c] = "load"]
          /\ UNCHANGED <<req, lock, todo, pool, status, history>>
          /\ UNCHANGED lifecycleVars
      BY <2>4 DEF pickRooms
    <3>3. picked' \in [Clients -> SUBSET Rooms] /\ offered' \in [Clients -> SUBSET Rooms]
      BY <3>1, <3>2
    <3> QED BY <3>2, <3>3
  <2> QED BY <1>3, <2>1, <2>2, <2>3, <2>4 DEF resolveRoomSelections
<1>4. CASE loadRooms(c)
  <2>1. CASE Refuse(c)
    BY <1>4, <2>1, UndoType DEF loadRooms, Refuse
  <2>2. CASE ~Refuse(c)
    BY <1>4, <2>2 DEF loadRooms
  <2> QED BY <2>1, <2>2
<1>5. CASE generateBookingNumber(c)
  BY <1>5 DEF generateBookingNumber, LockKeys
<1>6. CASE insertBooking(c)
  <2>1. InitialStatus(req[c]) \in BookingStatuses
    BY DEF InitialStatus, BookingStatuses, BLOCKING_BOOKING_STATUSES
  <2>2. <<[from |-> "none", to |-> InitialStatus(req[c])]>> \in Seq(HistoryRow)
    BY <2>1 DEF HistoryRow
  <2> QED BY <1>6, <2>1, <2>2, ReleaseType DEF insertBooking
<1>7. CASE rollback(c)
  BY <1>7, UndoType DEF rollback
<1> QED BY <1>1, <1>2, <1>3, <1>4, <1>5, <1>6, <1>7 DEF createBooking

\* The lifecycle calls and the sweepers keep the types.
LEMMA LifecycleKeepsTypes ==
    ASSUME TypeOK, Watch, lifecycle
    PROVE  TypeOK'
<1>0. steady' \in [Clients -> SUBSET Rooms]
  BY SteadyType
<1> USE <1>0, ConstantsAssumption DEF TypeOK, createVars
<1>1. ASSUME NEW w \in Staff, NEW op \in Ops, NEW b \in Clients, readBooking(w, op, b)
      PROVE  TypeOK'
  <2>1. Tx(w, op, b) \in OpenTx
    BY <1>1, AllowedFromType DEF readBooking, Tx, OpenTx
  <2> QED BY <1>1, <2>1 DEF readBooking
<1>2. ASSUME NEW t \in txs, transitionStatus(t)
      PROVE  TypeOK'
  <2>1. /\ t.op \in LifecycleOps \cup {"sweep"} /\ t.booking \in Clients
        /\ t.seen \in BookingStatuses
    BY DEF OpenTx
  <2>2. ToStatus(t.op) \in BookingStatuses
    BY <2>1, ToStatusType
  <2>3. [from |-> t.seen, to |-> ToStatus(t.op)] \in HistoryRow
    BY <2>1, <2>2 DEF HistoryRow
  <2>4. history' \in [Clients -> Seq(HistoryRow)]
    BY <1>2, <2>1, <2>3 DEF transitionStatus
  <2>5. RoomsAfter(t.op, t.booking) \in [Rooms -> RoomStatuses]
    BY DEF RoomsAfter, RoomStatuses
  <2> QED BY <1>2, <2>1, <2>2, <2>4, <2>5 DEF transitionStatus
<1>3. ASSUME NEW t \in txs, abandon(t)
      PROVE  TypeOK'
  BY <1>3 DEF abandon
<1>4. ASSUME NEW b \in Clients, holdExpires(b)
      PROVE  TypeOK'
  BY <1>4 DEF holdExpires
<1>5. ASSUME NEW s \in Sweepers, scanExpired(s)
      PROVE  TypeOK'
  BY <1>5 DEF scanExpired
<1>6. ASSUME NEW s \in Sweepers, NEW b \in Clients, rereadHold(s, b)
      PROVE  TypeOK'
  <2>1. status[b] = "held" => Tx(s, "sweep", b) \in OpenTx
    BY DEF Tx, OpenTx, BookingStatuses, BLOCKING_BOOKING_STATUSES
  <2> QED BY <1>6, <2>1 DEF rereadHold
<1> QED BY <1>1, <1>2, <1>3, <1>4, <1>5, <1>6 DEF lifecycle

\* Every variable always has its type.
THEOREM TypeCorrect == Spec => []TypeOK
<1>1. Init => TypeOK
  BY ConstantsAssumption DEF Init, TypeOK, Pcs
<1>2. TypeOK /\ [Next]_allVars => TypeOK'
  <2>1. TypeOK /\ UNCHANGED allVars => TypeOK'
    BY DEF TypeOK, allVars, vars
  <2> QED BY <2>1, CreateKeepsTypes, LifecycleKeepsTypes DEF Next
<1> QED BY <1>1, <1>2, PTL DEF Spec

-----------------------------------------------------------------------------
\* The inductive invariant behind AdmissionIsExclusive

Past == {"assert", "resolve", "overlap", "pick", "load", "number", "insert"}
Checked == {"resolve", "overlap", "pick", "load", "number", "insert"}

\* Past the locking loop a call owns every key it asked for.
HoldsKeys == \A c \in Clients : pc[c] \in Past => \A k \in KeysOf(req[c]) : lock[k] = c

\* What a call has read and not yet used, and that it picks nothing before its last
\* query.
ReadSoFar ==
    \A c \in Clients :
        /\ pc[c] # "overlap" => pool[c] = {}
        /\ pc[c] \notin {"resolve", "overlap", "pick"} => offered[c] = {}
        /\ pc[c] \in {"resolve", "overlap", "pick"} => picked[c] = Explicit(req[c])

\* A row exists exactly once the call is done; its status is the last one
\* its history records.
RowsMatch ==
    \A c \in Clients :
        /\ status[c] # "none" <=> pc[c] = "done"
        /\ status[c] = "none" => history[c] = <<>>
        /\ status[c] # "none" =>
              Len(history[c]) > 0 /\ history[c][Len(history[c])].to = status[c]

\* Lifecycle transactions are about rows that exist.
TxsOnRows == \A t \in txs : status[t.booking] # "none"

\* A call meets no blocking booking in a room that it has checked, but one that was
\* revived or has no key of its own: the check still holds when its insert commits.
ChecksStayTrue ==
    \A c, b \in Clients :
        /\ pc[c] \in Checked
        /\ IsBlocking(b)
        /\ (picked[c] \cup offered[c]) \cap picked[b] # {}
        /\ Overlap(req[b], req[c])
        => Revived(b) \/ KeysOf(req[b]) \cap KeysOf(req[c]) = {}

AdmissionInv ==
    /\ TypeOK /\ HoldsKeys /\ ReadSoFar /\ RowsMatch /\ TxsOnRows
    /\ ChecksStayTrue /\ AdmissionIsExclusive

-----------------------------------------------------------------------------
\* Overlap and the revived mark

\* The overlap test is right: it holds exactly when the stays share a night.
LEMMA OverlapIsSharedNight ==
    ASSUME NEW p \in Requests, NEW q \in Requests
    PROVE  Overlap(p, q) <=> SharesNight(p, q)
<1>1. /\ p.from \in Nat /\ p.to \in Nat /\ p.from < p.to
      /\ q.from \in Nat /\ q.to \in Nat /\ q.from < q.to
  BY ConstantsAssumption DEF RequestType
<1>2. ASSUME Overlap(p, q) PROVE SharesNight(p, q)
  <2>1. CASE p.from <= q.from
    <3>1. q.from \in Nights(p) /\ q.from \in Nights(q)
      BY <1>1, <1>2, <2>1 DEF Overlap, Nights
    <3> QED BY <3>1 DEF SharesNight
  <2>2. CASE q.from <= p.from
    <3>1. p.from \in Nights(p) /\ p.from \in Nights(q)
      BY <1>1, <1>2, <2>2 DEF Overlap, Nights
    <3> QED BY <3>1 DEF SharesNight
  <2> QED BY <1>1, <2>1, <2>2
<1>3. ASSUME SharesNight(p, q) PROVE Overlap(p, q)
  BY <1>1, <1>3 DEF Overlap, SharesNight, Nights
<1> QED BY <1>2, <1>3

\* Sharing a night does not depend on which stay is named first.
LEMMA SharesNightSymmetric ==
    ASSUME NEW p \in Requests, NEW q \in Requests
    PROVE  SharesNight(p, q) <=> SharesNight(q, p)
BY DEF SharesNight

\* A revived booking stays marked: history only grows.
LEMMA RevivedStays ==
    ASSUME NEW h \in Seq(HistoryRow), NEW e \in HistoryRow, RevivedIn(h)
    PROVE  RevivedIn(Append(h, e))
<1>1. PICK i \in 1..Len(h) - 1 : /\ h[i].to \notin BLOCKING_BOOKING_STATUSES
                                 /\ h[i + 1].to \in BLOCKING_BOOKING_STATUSES
  BY DEF RevivedIn
<1>2. /\ i \in 1..Len(Append(h, e)) - 1
      /\ Append(h, e)[i] = h[i] /\ Append(h, e)[i + 1] = h[i + 1]
  BY <1>1
<1> QED BY <1>1, <1>2 DEF RevivedIn

\* Writing a blocking status after one that is not marks the booking.
LEMMA RevivingMarks ==
    ASSUME NEW h \in Seq(HistoryRow), NEW e \in HistoryRow,
           Len(h) > 0, h[Len(h)].to \notin BLOCKING_BOOKING_STATUSES,
           e.to \in BLOCKING_BOOKING_STATUSES
    PROVE  RevivedIn(Append(h, e))
<1>1. /\ Len(h) \in 1..Len(Append(h, e)) - 1
      /\ Append(h, e)[Len(h)] = h[Len(h)] /\ Append(h, e)[Len(h) + 1] = e
  OBVIOUS
<1> QED BY <1>1 DEF RevivedIn

-----------------------------------------------------------------------------
\* createBooking, conjunct by conjunct

\* No step of a call takes a key another call owns, and the last missing key
\* ends the locking loop.
LEMMA CreateHoldsKeys ==
    ASSUME TypeOK, HoldsKeys, NEW c \in Clients, createBooking(c) \/ rollback(c)
    PROVE  HoldsKeys'
<1> USE ConstantsAssumption DEF TypeOK, HoldsKeys, Past
<1>1. CASE lockRoomsAndTypes(c)
  <2>1. PICK k \in KeysOf(req[c]) :
           /\ NextKey(c, k) /\ lock[k] = NoOne /\ lock' = [lock EXCEPT ![k] = c]
           /\ pc' = [pc EXCEPT ![c] = IF MissingKeys(c) = {k} THEN "assert" ELSE "lock"]
    BY <1>1 DEF lockRoomsAndTypes
  <2>2. req' = req /\ \A d \in Clients : KeysOf(req[d]) \subseteq LockKeys
    BY <1>1 DEF lockRoomsAndTypes, KeysOf, LockKeys
  <2>3. ASSUME NEW d \in Clients, pc'[d] \in Past, NEW j \in KeysOf(req[d])
        PROVE  lock'[j] = d
    <3>1. CASE d = c
      <4>1. MissingKeys(c) = {k}
        BY <2>1, <2>3, <3>1
      <4> QED BY <2>1, <2>2, <2>3, <3>1, <4>1 DEF MissingKeys
    <3>2. CASE d # c
      BY <2>1, <2>2, <2>3, <3>2
    <3> QED BY <3>1, <3>2
  <2> QED BY <2>2, <2>3
<1>2. ASSUME Release(c), req' = req, pc' = [pc EXCEPT ![c] = pc'[c]], pc'[c] \notin Past
      PROVE  HoldsKeys'
  <2>1. \A d \in Clients : KeysOf(req[d]) \subseteq LockKeys
    BY DEF KeysOf, LockKeys
  <2> QED BY <1>2, <2>1 DEF Release
<1>3. CASE Refuse(c)
  BY <1>2, <1>3 DEF Refuse, Undo
<1>4. CASE insertBooking(c)
  BY <1>2, <1>4 DEF insertBooking
<1>5. CASE rollback(c)
  BY <1>2, <1>5 DEF rollback, Undo
<1>6. ASSUME lock' = lock, req' = req, pc' = [pc EXCEPT ![c] = pc'[c]], pc[c] \in Past
      PROVE  HoldsKeys'
  BY <1>6
<1>7. CASE assertRoomsAvailable(c)
  BY <1>3, <1>6, <1>7 DEF assertRoomsAvailable
<1>8. CASE resolveRoomSelections(c)
  BY <1>3, <1>6, <1>8 DEF resolveRoomSelections, selectCandidates, findOverlaps, pickRooms
<1>9. CASE loadRooms(c)
  BY <1>3, <1>6, <1>9 DEF loadRooms
<1>10. CASE generateBookingNumber(c)
  <2>1. \A d \in Clients : KeysOf(req[d]) \subseteq LockKeys \ {NumberKey}
    BY DEF KeysOf, LockKeys
  <2> QED BY <1>10, <2>1 DEF generateBookingNumber
<1> QED BY <1>1, <1>4, <1>5, <1>7, <1>8, <1>9, <1>10 DEF createBooking

\* A call keeps what it has read for as long as it needs it.
LEMMA CreateReadSoFar ==
    ASSUME TypeOK, ReadSoFar, NEW c \in Clients, createBooking(c) \/ rollback(c)
    PROVE  ReadSoFar'
<1> USE DEF TypeOK, ReadSoFar
<1>1. CASE lockRoomsAndTypes(c) \/ generateBookingNumber(c) \/ insertBooking(c)
  BY <1>1 DEF lockRoomsAndTypes, generateBookingNumber, insertBooking
<1>2. CASE Refuse(c) \/ rollback(c)
  <2>1. /\ pc'[c] \in {"refused", "failed"} /\ \A d \in Clients \ {c} : pc'[d] = pc[d]
        /\ pool' = [pool EXCEPT ![c] = {}] /\ offered' = [offered EXCEPT ![c] = {}]
        /\ picked' = [picked EXCEPT ![c] = {}] /\ req' = req
    BY <1>2 DEF Refuse, rollback, Undo
  <2> QED BY <2>1
<1>3. CASE assertRoomsAvailable(c) /\ ~Refuse(c)
  <2>1. /\ pc[c] = "assert" /\ pc'[c] \in {"load", "resolve"}
        /\ \A d \in Clients \ {c} : pc'[d] = pc[d]
        /\ picked' = [picked EXCEPT ![c] = Explicit(req[c])]
        /\ UNCHANGED <<req, pool, offered>>
    BY <1>3 DEF assertRoomsAvailable
  <2> QED BY <2>1
<1>4. ASSUME NEW t \in RoomTypes, selectCandidates(c, t)
      PROVE  ReadSoFar'
  BY <1>4 DEF selectCandidates
<1>5. CASE findOverlaps(c)
  BY <1>5 DEF findOverlaps
<1>6. CASE pickRooms(c) /\ ~Refuse(c)
  BY <1>6 DEF pickRooms
<1>7. CASE loadRooms(c) /\ ~Refuse(c)
  BY <1>7 DEF loadRooms
<1> QED BY <1>1, <1>2, <1>3, <1>4, <1>5, <1>6, <1>7 DEF createBooking,
        assertRoomsAvailable, resolveRoomSelections, pickRooms, loadRooms

\* The row appears with the commit, and with it its first history row.
LEMMA CreateRowsMatch ==
    ASSUME TypeOK, RowsMatch, TxsOnRows, NEW c \in Clients, createBooking(c) \/ rollback(c)
    PROVE  RowsMatch' /\ TxsOnRows'
<1> USE DEF TypeOK, RowsMatch
<1>1. CASE insertBooking(c)
  <2>1. /\ status' = [status EXCEPT ![c] = InitialStatus(req[c])]
        /\ history' = [history EXCEPT ![c] = <<[from |-> "none", to |-> InitialStatus(req[c])]>>]
        /\ pc' = [pc EXCEPT ![c] = "done"]
        /\ txs' = txs
    BY <1>1 DEF insertBooking, lifecycleVars
  <2>2. InitialStatus(req[c]) # "none"
    BY DEF InitialStatus
  <2>3. RowsMatch'
    BY <2>1, <2>2
  <2>4. TxsOnRows'
    BY <2>1, <2>2 DEF TxsOnRows, OpenTx
  <2> QED BY <2>3, <2>4
<1>2. CASE /\ UNCHANGED <<status, history>> /\ UNCHANGED lifecycleVars
           /\ pc' = [pc EXCEPT ![c] = pc'[c]]
           /\ pc[c] # "done" /\ pc'[c] # "done"
  BY <1>2 DEF TxsOnRows, lifecycleVars
<1> QED BY <1>1, <1>2 DEF createBooking, rollback, InCreate, lockRoomsAndTypes,
        assertRoomsAvailable, resolveRoomSelections, selectCandidates, findOverlaps,
        pickRooms, loadRooms, generateBookingNumber, insertBooking, Refuse, Undo

\* The commit of a call clashes with no call that has checked and shares a key with
\* it, for each of them owns all of its own.
LEMMA CreateChecksStayTrue ==
    ASSUME AdmissionInv, NEW c \in Clients, createBooking(c) \/ rollback(c)
    PROVE  ChecksStayTrue'
<1> USE DEF AdmissionInv, TypeOK
<1>1. ASSUME UNCHANGED <<req, status, history>>,
             picked' = [picked EXCEPT ![c] = picked'[c]],
             offered' = [offered EXCEPT ![c] = offered'[c]],
             pc' = [pc EXCEPT ![c] = pc'[c]],
             status[c] = "none",
             pc'[c] \in Checked =>
                \A b \in Clients \ {c} :
                   /\ IsBlocking(b) /\ Overlap(req[b], req[c])
                   /\ (picked'[c] \cup offered'[c]) \cap picked[b] # {}
                   => Revived(b) \/ KeysOf(req[b]) \cap KeysOf(req[c]) = {}
      PROVE  ChecksStayTrue'
  <2> SUFFICES ASSUME NEW d \in Clients, NEW b \in Clients,
                      pc'[d] \in Checked, IsBlocking(b)',
                      (picked'[d] \cup offered'[d]) \cap picked'[b] # {},
                      Overlap(req'[b], req'[d])
               PROVE  Revived(b)' \/ KeysOf(req'[b]) \cap KeysOf(req'[d]) = {}
    BY DEF ChecksStayTrue
  <2>1. b # c /\ IsBlocking(b) /\ picked'[b] = picked[b]
    BY <1>1 DEF IsBlocking, BLOCKING_BOOKING_STATUSES
  <2>2. Revived(b)' <=> Revived(b)
    BY <1>1 DEF Revived
  <2>3. CASE d = c
    BY <1>1, <2>1, <2>2, <2>3
  <2>4. CASE d # c
    <3>1. pc'[d] = pc[d] /\ picked'[d] = picked[d] /\ offered'[d] = offered[d]
      BY <1>1, <2>4
    <3> QED BY <1>1, <2>1, <2>2, <3>1 DEF ChecksStayTrue
  <2> QED BY <2>3, <2>4
<1>2. pc[c] # "done" => status[c] = "none"
  BY DEF RowsMatch
<1>3. ASSUME UNCHANGED <<req, picked, offered, status, history>>, pc[c] # "done",
             pc' = [pc EXCEPT ![c] = pc'[c]],
             pc'[c] \in Checked => pc[c] \in Checked
      PROVE  ChecksStayTrue'
  BY <1>1, <1>2, <1>3 DEF ChecksStayTrue
<1>4. CASE lockRoomsAndTypes(c)
  BY <1>3, <1>4 DEF lockRoomsAndTypes, Checked
<1>5. CASE Undo(c) /\ pc[c] # "done" /\ pc' = [pc EXCEPT ![c] = pc'[c]] /\ pc'[c] \notin Checked
  BY <1>1, <1>2, <1>5 DEF Undo
<1>6. CASE Refuse(c) /\ pc[c] # "done"
  BY <1>5, <1>6 DEF Refuse, Checked
<1>7. CASE assertRoomsAvailable(c) /\ ~Refuse(c)
  <2>1. /\ findOverlappingRoomIds(Explicit(req[c]), req[c]) = {}
        /\ picked' = [picked EXCEPT ![c] = Explicit(req[c])]
        /\ pc' = [pc EXCEPT ![c] = pc'[c]] /\ pc[c] = "assert"
        /\ UNCHANGED <<req, offered, status, history>>
    BY <1>7 DEF assertRoomsAvailable
  <2>2. \A b \in Clients : ~(/\ IsBlocking(b) /\ Overlap(req[b], req[c])
                             /\ Explicit(req[c]) \cap picked[b] # {})
    BY <2>1 DEF findOverlappingRoomIds, Explicit
  <2>3. offered'[c] = {} /\ picked'[c] = Explicit(req[c])
    BY <2>1 DEF ReadSoFar
  <2> QED BY <1>1, <1>2, <2>1, <2>2, <2>3
<1>8. ASSUME NEW t \in RoomTypes, selectCandidates(c, t)
      PROVE  ChecksStayTrue'
  BY <1>3, <1>8 DEF selectCandidates, Checked
<1>9. CASE findOverlaps(c)
  <2> DEFINE new == pool[c] \ findOverlappingRoomIds(pool[c], req[c])
  <2>1. /\ offered' = [offered EXCEPT ![c] = @ \cup new]
        /\ pc' = [pc EXCEPT ![c] = pc'[c]] /\ pc[c] = "overlap"
        /\ UNCHANGED <<req, picked, status, history>>
    BY <1>9 DEF findOverlaps
  <2>2. ASSUME NEW b \in Clients, IsBlocking(b), Overlap(req[b], req[c])
        PROVE  new \cap picked[b] = {}
    BY <2>2 DEF findOverlappingRoomIds
  <2>3. \A b \in Clients :
           /\ IsBlocking(b) /\ Overlap(req[b], req[c])
           /\ (picked[c] \cup offered[c]) \cap picked[b] # {}
           => Revived(b) \/ KeysOf(req[b]) \cap KeysOf(req[c]) = {}
    BY <2>1 DEF ChecksStayTrue, Checked
  <2>4. offered'[c] = offered[c] \cup new /\ picked'[c] = picked[c]
    BY <2>1
  <2> HIDE DEF new
  <2> QED BY <1>1, <1>2, <2>1, <2>2, <2>3, <2>4
<1>10. CASE pickRooms(c) /\ ~Refuse(c)
  <2>1. /\ picked' = [picked EXCEPT ![c] = Explicit(req[c]) \cup Picks(c)]
        /\ offered' = [offered EXCEPT ![c] = {}]
        /\ pc' = [pc EXCEPT ![c] = pc'[c]] /\ pc[c] = "pick"
        /\ UNCHANGED <<req, status, history>>
    BY <1>10 DEF pickRooms
  <2>2. Explicit(req[c]) \cup Picks(c) \subseteq picked[c] \cup offered[c]
    <3>1. Picks(c) \subseteq offered[c]
      BY DEF Picks, FirstRooms, FreeOfType
    <3>2. Explicit(req[c]) \subseteq picked[c]
      BY <2>1 DEF ReadSoFar
    <3> QED BY <3>1, <3>2
  <2>3. picked'[c] \cup offered'[c] = Explicit(req[c]) \cup Picks(c)
    BY <2>1
  <2>4. \A b \in Clients :
           /\ IsBlocking(b) /\ Overlap(req[b], req[c])
           /\ (picked[c] \cup offered[c]) \cap picked[b] # {}
           => Revived(b) \/ KeysOf(req[b]) \cap KeysOf(req[c]) = {}
    BY <2>1 DEF ChecksStayTrue, Checked
  <2> QED BY <1>1, <1>2, <2>1, <2>2, <2>3, <2>4
<1>11. CASE loadRooms(c) /\ ~Refuse(c)
  BY <1>3, <1>11 DEF loadRooms, Checked
<1>12. CASE generateBookingNumber(c)
  BY <1>3, <1>12 DEF generateBookingNumber, Checked
<1>13. CASE insertBooking(c)
  <2> SUFFICES ASSUME NEW d \in Clients, NEW b \in Clients,
                      pc'[d] \in Checked, IsBlocking(b)',
                      (picked'[d] \cup offered'[d]) \cap picked'[b] # {},
                      Overlap(req'[b], req'[d])
               PROVE  Revived(b)' \/ KeysOf(req'[b]) \cap KeysOf(req'[d]) = {}
    BY DEF ChecksStayTrue
  <2>1. /\ UNCHANGED <<req, picked, offered>> /\ pc[c] = "insert"
        /\ pc' = [pc EXCEPT ![c] = "done"]
        /\ status' = [status EXCEPT ![c] = InitialStatus(req[c])]
        /\ history' = [history EXCEPT ![c] = <<[from |-> "none", to |-> InitialStatus(req[c])]>>]
    BY <1>13 DEF insertBooking
  <2>2. d # c /\ pc[d] \in Checked
    BY <2>1 DEF Checked
  <2>3. CASE b # c
    BY <2>1, <2>2, <2>3 DEF ChecksStayTrue, IsBlocking, Revived
  <2>4. CASE b = c
    <3>1. ASSUME NEW k \in KeysOf(req[c]), k \in KeysOf(req[d]) PROVE FALSE
      <4>1. lock[k] = c /\ lock[k] = d
        BY <2>1, <2>2, <3>1 DEF HoldsKeys, Past, Checked
      <4> QED BY <2>2, <4>1
    <3> QED BY <2>1, <2>4, <3>1
  <2> QED BY <2>3, <2>4
<1>14. CASE rollback(c)
  BY <1>5, <1>14 DEF rollback, InCreate, Checked
<1> QED BY <1>4, <1>6, <1>7, <1>8, <1>9, <1>10, <1>11, <1>12, <1>13, <1>14 DEF createBooking,
        assertRoomsAvailable, resolveRoomSelections, pickRooms, loadRooms

\* What a call inserts clashes with no blocking booking of a common key but a revived
\* one.
LEMMA CreateAdmission ==
    ASSUME AdmissionInv, NEW c \in Clients, createBooking(c) \/ rollback(c)
    PROVE  AdmissionIsExclusive'
<1> USE DEF AdmissionInv, TypeOK
<1>1. CASE insertBooking(c)
  <2>1. /\ UNCHANGED <<req, picked>> /\ pc[c] = "insert"
        /\ status' = [status EXCEPT ![c] = InitialStatus(req[c])]
        /\ history' = [history EXCEPT ![c] = <<[from |-> "none", to |-> InitialStatus(req[c])]>>]
    BY <1>1 DEF insertBooking
  <2>2. \A b \in Clients \ {c} : /\ IsBlocking(b)' <=> IsBlocking(b)
                                 /\ Revived(b)' <=> Revived(b)
    BY <2>1 DEF IsBlocking, Revived
  <2>3. \A b \in Clients \ {c} :
           IsBlocking(b) /\ picked[c] \cap picked[b] # {} /\ Overlap(req[b], req[c])
           => Revived(b) \/ KeysOf(req[b]) \cap KeysOf(req[c]) = {}
    BY <2>1 DEF ChecksStayTrue, Checked
  <2> SUFFICES ASSUME NEW b1 \in Clients, NEW b2 \in Clients, Clash(b1, b2)'
               PROVE  \/ Revived(b1)' \/ Revived(b2)'
                      \/ KeysOf(req'[b1]) \cap KeysOf(req'[b2]) = {}
    BY DEF AdmissionIsExclusive
  <2>4. CASE b1 # c /\ b2 # c
    BY <2>1, <2>2, <2>4 DEF AdmissionIsExclusive, Clash, IsBlocking, Revived
  <2>5. CASE b1 = c
    <3>1. b2 \in Clients \ {c} /\ SharesNight(req[c], req[b2]) /\ IsBlocking(b2)
          /\ picked[c] \cap picked[b2] # {}
      BY <2>1, <2>5 DEF Clash, IsBlocking
    <3>2. Overlap(req[b2], req[c])
      BY <3>1, SharesNightSymmetric, OverlapIsSharedNight
    <3>3. Revived(b2) \/ KeysOf(req[b2]) \cap KeysOf(req[c]) = {}
      BY <2>3, <3>1, <3>2
    <3> QED BY <2>1, <2>5, <3>1, <3>3 DEF Revived
  <2>6. CASE b2 = c
    <3>1. b1 \in Clients \ {c} /\ SharesNight(req[b1], req[c]) /\ IsBlocking(b1)
          /\ picked[c] \cap picked[b1] # {}
      BY <2>1, <2>6 DEF Clash, IsBlocking
    <3>2. Revived(b1) \/ KeysOf(req[b1]) \cap KeysOf(req[c]) = {}
      BY <2>3, <3>1, OverlapIsSharedNight
    <3> QED BY <2>1, <2>6, <3>1, <3>2 DEF Revived
  <2> QED BY <2>4, <2>5, <2>6
<1>2. ASSUME UNCHANGED <<req, status, history>>, status[c] = "none",
             picked' = [picked EXCEPT ![c] = picked'[c]]
      PROVE  AdmissionIsExclusive'
  BY <1>2 DEF AdmissionIsExclusive, Clash, IsBlocking, Revived, BLOCKING_BOOKING_STATUSES
<1>3. insertBooking(c) \/
      (/\ UNCHANGED <<req, status, history>> /\ pc[c] # "done"
       /\ picked' = [picked EXCEPT ![c] = picked'[c]])
  BY DEF createBooking, rollback, InCreate, lockRoomsAndTypes, assertRoomsAvailable,
        resolveRoomSelections, selectCandidates, findOverlaps, pickRooms, loadRooms,
        generateBookingNumber, Refuse, Undo
<1> QED BY <1>1, <1>2, <1>3 DEF RowsMatch

-----------------------------------------------------------------------------
\* The lifecycle

\* A lifecycle step touches no call, and a booking it makes block again is
\* marked as revived.
LEMMA LifecycleMarks ==
    ASSUME TypeOK, RowsMatch, TxsOnRows, lifecycle
    PROVE  /\ UNCHANGED createVars
           /\ RowsMatch' /\ TxsOnRows'
           /\ \A b \in Clients : /\ RevivedIn(history[b]) => RevivedIn(history'[b])
                                 /\ status'[b] \in BLOCKING_BOOKING_STATUSES =>
                                       status[b] \in BLOCKING_BOOKING_STATUSES \/ RevivedIn(history'[b])
<1> USE DEF TypeOK, createVars
<1>1. ASSUME NEW t \in txs, transitionStatus(t)
      PROVE  /\ UNCHANGED createVars
             /\ RowsMatch' /\ TxsOnRows'
             /\ \A b \in Clients : /\ RevivedIn(history[b]) => RevivedIn(history'[b])
                                   /\ status'[b] \in BLOCKING_BOOKING_STATUSES =>
                                         status[b] \in BLOCKING_BOOKING_STATUSES \/ RevivedIn(history'[b])
  <2> DEFINE b0 == t.booking
             row == [from |-> t.seen, to |-> ToStatus(t.op)]
  <2>1. /\ b0 \in Clients /\ status[b0] # "none"
        /\ row \in HistoryRow /\ row.to = ToStatus(t.op) /\ row.to # "none"
    <3>1. t.op \in LifecycleOps \cup {"sweep"} /\ t.booking \in Clients /\ t.seen \in BookingStatuses
      BY ConstantsAssumption DEF OpenTx
    <3>2. ToStatus(t.op) \in BookingStatuses
      BY <3>1, ToStatusType
    <3> QED BY <3>1, <3>2 DEF TxsOnRows, HistoryRow, BookingStatuses, BLOCKING_BOOKING_STATUSES
  <2>2. /\ status' = [status EXCEPT ![b0] = row.to]
        /\ history' = [history EXCEPT ![b0] = Append(@, row)]
        /\ txs' = txs \ {t} /\ UNCHANGED createVars
    BY <1>1 DEF transitionStatus
  <2> HIDE DEF b0, row
  <2>3. /\ Len(history[b0]) > 0 /\ history[b0][Len(history[b0])].to = status[b0]
        /\ history[b0] \in Seq(HistoryRow)
    BY <2>1 DEF RowsMatch
  <2>4. /\ history'[b0] = Append(history[b0], row)
        /\ Len(history'[b0]) > 0
        /\ history'[b0][Len(history'[b0])] = row
        /\ status'[b0] = row.to
    BY <2>1, <2>2, <2>3
  <2>5. RowsMatch'
    <3> SUFFICES ASSUME NEW c \in Clients
                 PROVE  /\ status'[c] # "none" <=> pc'[c] = "done"
                        /\ status'[c] = "none" => history'[c] = <<>>
                        /\ status'[c] # "none" =>
                             /\ Len(history'[c]) > 0
                             /\ history'[c][Len(history'[c])].to = status'[c]
      BY DEF RowsMatch
    <3>1. CASE c = b0
      BY <2>1, <2>2, <2>4, <3>1 DEF RowsMatch
    <3>2. CASE c # b0
      BY <2>2, <3>2 DEF RowsMatch
    <3> QED BY <3>1, <3>2
  <2>6. TxsOnRows'
    BY <2>1, <2>2 DEF TxsOnRows, OpenTx
  <2>7. ASSUME NEW b \in Clients
        PROVE  /\ RevivedIn(history[b]) => RevivedIn(history'[b])
               /\ status'[b] \in BLOCKING_BOOKING_STATUSES =>
                     status[b] \in BLOCKING_BOOKING_STATUSES \/ RevivedIn(history'[b])
    <3>1. CASE b # b0
      BY <2>2, <3>1 DEF Revived, IsBlocking
    <3>2. CASE b = b0
      <4>1. RevivedIn(history[b0]) => RevivedIn(Append(history[b0], row))
        BY <2>1, <2>3, RevivedStays
      <4>2. /\ status[b0] \notin BLOCKING_BOOKING_STATUSES
            /\ row.to \in BLOCKING_BOOKING_STATUSES
            => RevivedIn(Append(history[b0], row))
        BY <2>1, <2>3, RevivingMarks
      <4> QED BY <2>4, <3>2, <4>1, <4>2 DEF Revived, IsBlocking
    <3> QED BY <3>1, <3>2
  <2> QED BY <2>2, <2>5, <2>6, <2>7
<1>2. ASSUME UNCHANGED createVars, UNCHANGED <<status, history>>,
             \A t \in txs' \ txs : status[t.booking] # "none"
      PROVE  /\ UNCHANGED createVars
             /\ RowsMatch' /\ TxsOnRows'
             /\ \A b \in Clients : /\ RevivedIn(history[b]) => RevivedIn(history'[b])
                                   /\ status'[b] \in BLOCKING_BOOKING_STATUSES =>
                                         status[b] \in BLOCKING_BOOKING_STATUSES \/ RevivedIn(history'[b])
  BY <1>2 DEF RowsMatch, TxsOnRows, Revived, IsBlocking
<1>3. ASSUME NEW w \in Staff, NEW op \in Ops, NEW b \in Clients, readBooking(w, op, b)
      PROVE  UNCHANGED createVars /\ UNCHANGED <<status, history>>
             /\ \A t \in txs' \ txs : status[t.booking] # "none"
  <2>1. AllowedFrom(op) \subseteq BookingStatuses
    BY ConstantsAssumption, AllowedFromType
  <2>2. status[b] # "none"
    BY <1>3, <2>1 DEF readBooking, BookingStatuses, BLOCKING_BOOKING_STATUSES
  <2> QED BY <1>3, <2>2 DEF readBooking, Tx
<1>4. ASSUME NEW t \in txs, abandon(t)
      PROVE  UNCHANGED createVars /\ UNCHANGED <<status, history>> /\ txs' \subseteq txs
  BY <1>4 DEF abandon
<1>5. ASSUME NEW b \in Clients, holdExpires(b)
      PROVE  UNCHANGED createVars /\ UNCHANGED <<status, history>> /\ txs' \subseteq txs
  BY <1>5 DEF holdExpires
<1>6. ASSUME NEW s \in Sweepers, scanExpired(s)
      PROVE  UNCHANGED createVars /\ UNCHANGED <<status, history>> /\ txs' \subseteq txs
  BY <1>6 DEF scanExpired
<1>7. ASSUME NEW s \in Sweepers, NEW b \in Clients, rereadHold(s, b)
      PROVE  UNCHANGED createVars /\ UNCHANGED <<status, history>>
             /\ \A t \in txs' \ txs : status[t.booking] # "none"
  BY <1>7 DEF rereadHold, Tx
<1> QED BY <1>1, <1>2, <1>3, <1>4, <1>5, <1>6, <1>7 DEF lifecycle

\* Hence the lifecycle keeps the whole invariant.
LEMMA LifecycleKeepsAdmission ==
    ASSUME AdmissionInv, Watch, lifecycle
    PROVE  AdmissionInv'
<1> USE DEF AdmissionInv
<1>1. /\ UNCHANGED createVars /\ RowsMatch' /\ TxsOnRows'
      /\ \A b \in Clients : /\ RevivedIn(history[b]) => RevivedIn(history'[b])
                            /\ status'[b] \in BLOCKING_BOOKING_STATUSES =>
                                  status[b] \in BLOCKING_BOOKING_STATUSES \/ RevivedIn(history'[b])
  BY LifecycleMarks
<1>2. TypeOK'
  BY LifecycleKeepsTypes
<1>3. HoldsKeys' /\ ReadSoFar'
  BY <1>1 DEF HoldsKeys, ReadSoFar, createVars
<1>4. ChecksStayTrue'
  <2> SUFFICES ASSUME NEW c \in Clients, NEW b \in Clients,
                      pc'[c] \in Checked, status'[b] \in BLOCKING_BOOKING_STATUSES,
                      (picked'[c] \cup offered'[c]) \cap picked'[b] # {},
                      Overlap(req'[b], req'[c])
               PROVE  RevivedIn(history'[b]) \/ KeysOf(req'[b]) \cap KeysOf(req'[c]) = {}
    BY DEF ChecksStayTrue, IsBlocking, Revived
  <2>1. /\ pc[c] \in Checked /\ (picked[c] \cup offered[c]) \cap picked[b] # {}
        /\ Overlap(req[b], req[c]) /\ req' = req
    BY <1>1 DEF createVars
  <2>2. status[b] \in BLOCKING_BOOKING_STATUSES =>
            RevivedIn(history[b]) \/ KeysOf(req[b]) \cap KeysOf(req[c]) = {}
    BY <2>1 DEF ChecksStayTrue, IsBlocking, Revived
  <2>3. /\ RevivedIn(history[b]) => RevivedIn(history'[b])
        /\ status[b] \in BLOCKING_BOOKING_STATUSES \/ RevivedIn(history'[b])
    BY <1>1 DEF IsBlocking, Revived
  <2> QED BY <2>1, <2>2, <2>3
<1>5. AdmissionIsExclusive'
  <2> SUFFICES ASSUME NEW b1 \in Clients, NEW b2 \in Clients, Clash(b1, b2)'
               PROVE  \/ RevivedIn(history'[b1]) \/ RevivedIn(history'[b2])
                      \/ KeysOf(req'[b1]) \cap KeysOf(req'[b2]) = {}
    BY DEF AdmissionIsExclusive, Revived
  <2>1. /\ b1 # b2 /\ picked[b1] \cap picked[b2] # {} /\ SharesNight(req[b1], req[b2])
        /\ status'[b1] \in BLOCKING_BOOKING_STATUSES /\ status'[b2] \in BLOCKING_BOOKING_STATUSES
    BY <1>1 DEF createVars, Clash, IsBlocking
  <2>2. \A b \in {b1, b2} :
           /\ RevivedIn(history[b]) => RevivedIn(history'[b])
           /\ status[b] \in BLOCKING_BOOKING_STATUSES \/ RevivedIn(history'[b])
    BY <1>1, <2>1 DEF IsBlocking, Revived
  <2>3. /\ status[b1] \in BLOCKING_BOOKING_STATUSES
        /\ status[b2] \in BLOCKING_BOOKING_STATUSES
        => \/ RevivedIn(history[b1]) \/ RevivedIn(history[b2])
           \/ KeysOf(req[b1]) \cap KeysOf(req[b2]) = {}
    BY <2>1 DEF AdmissionIsExclusive, Clash, IsBlocking, Revived
  <2>4. req' = req
    BY <1>1 DEF createVars
  <2> QED BY <2>2, <2>3, <2>4
<1> QED BY <1>1, <1>2, <1>3, <1>4, <1>5

\* The invariant holds in every reachable state.
LEMMA AdmissionInvariant == Spec => []AdmissionInv
<1>1. Init => AdmissionInv
  <2> SUFFICES ASSUME Init PROVE AdmissionInv
    OBVIOUS
  <2>1. TypeOK
    BY ConstantsAssumption DEF Init, TypeOK, Pcs
  <2>2. HoldsKeys /\ ReadSoFar /\ ChecksStayTrue
    BY DEF Init, HoldsKeys, ReadSoFar, ChecksStayTrue, Past, Checked
  <2>3. RowsMatch /\ TxsOnRows
    BY DEF Init, RowsMatch, TxsOnRows
  <2>4. AdmissionIsExclusive
    BY DEF Init, AdmissionIsExclusive, Clash
  <2> QED BY <2>1, <2>2, <2>3, <2>4 DEF AdmissionInv
<1>2. AdmissionInv /\ [Next]_allVars => AdmissionInv'
  <2> SUFFICES ASSUME AdmissionInv, [Next]_allVars PROVE AdmissionInv'
    OBVIOUS
  <2> USE DEF AdmissionInv
  <2>1. ASSUME Watch, NEW c \in Clients, createBooking(c) \/ rollback(c)
        PROVE  AdmissionInv'
    BY <2>1, CreateKeepsTypes, CreateHoldsKeys, CreateReadSoFar, CreateRowsMatch,
       CreateChecksStayTrue, CreateAdmission
  <2>2. CASE lifecycle /\ Watch
    BY <2>2, LifecycleKeepsAdmission
  <2>3. CASE UNCHANGED allVars
    BY <2>3 DEF allVars, vars, TypeOK, HoldsKeys, ReadSoFar, RowsMatch, TxsOnRows,
       ChecksStayTrue, AdmissionIsExclusive, Clash, IsBlocking, Revived
  <2> QED BY <2>1, <2>2, <2>3 DEF Next
<1> QED BY <1>1, <1>2, PTL DEF Spec

\* createBooking admits no double booking its locks can see: two blocking bookings
\* share a room for overlapping stays only if a lifecycle call revived one of them or
\* their requests had no lock key in common (lockRoomsAndTypes, assertRoomsAvailable).
THEOREM AdmissionExclusive == Spec => []AdmissionIsExclusive
<1>1. AdmissionInv => AdmissionIsExclusive
  BY DEF AdmissionInv
<1> QED BY <1>1, AdmissionInvariant, PTL

-----------------------------------------------------------------------------
\* Refinement of RoomCalendar

ClaimsBar ==
    [b \in Clients |->
        IF status[b] = "none" THEN {} ELSE {[room |-> r, stay |-> StayOf(req[b])] : r \in picked[b]}]
ClaimedBar == {b \in Clients : status[b] # "none"}
HoldingBar == {b \in Clients : IsBlocking(b)}
RevivedBar == {b \in Clients : Revived(b)}

CalendarBar == <<ClaimsBar, ClaimedBar, HoldingBar, RevivedBar>>

\* A longer history is marked if it was, or if its last row revives the booking.
LEMMA RevivedExactly ==
    ASSUME NEW h \in Seq(HistoryRow), NEW e \in HistoryRow, Len(h) > 0
    PROVE  RevivedIn(Append(h, e)) <=>
              \/ RevivedIn(h)
              \/ /\ h[Len(h)].to \notin BLOCKING_BOOKING_STATUSES
                 /\ e.to \in BLOCKING_BOOKING_STATUSES
<1>1. ASSUME RevivedIn(Append(h, e)), ~RevivedIn(h)
      PROVE  h[Len(h)].to \notin BLOCKING_BOOKING_STATUSES /\ e.to \in BLOCKING_BOOKING_STATUSES
  <2>1. PICK i \in 1..Len(Append(h, e)) - 1 :
           /\ Append(h, e)[i].to \notin BLOCKING_BOOKING_STATUSES
           /\ Append(h, e)[i + 1].to \in BLOCKING_BOOKING_STATUSES
    BY <1>1 DEF RevivedIn
  <2>2. i \in 1..Len(h) /\ Append(h, e)[i] = h[i]
    OBVIOUS
  <2>3. i = Len(h)
    BY <1>1, <2>1, <2>2 DEF RevivedIn
  <2>4. Append(h, e)[i + 1] = e
    BY <2>3
  <2> QED BY <2>1, <2>2, <2>3, <2>4
<1> QED BY <1>1, RevivedStays, RevivingMarks

\* A commit is a claim, made where the calendar is free.
LEMMA InsertClaims ==
    ASSUME AdmissionInv, NEW c \in Clients, insertBooking(c)
    PROVE  Calendar!Claim(c)
<1> USE DEF AdmissionInv, TypeOK
<1> DEFINE s == StayOf(req[c])
<1>1. /\ UNCHANGED <<req, picked>> /\ pc[c] = "insert"
      /\ status' = [status EXCEPT ![c] = InitialStatus(req[c])]
      /\ history' = [history EXCEPT ![c] = <<[from |-> "none", to |-> InitialStatus(req[c])]>>]
  BY DEF insertBooking
<1>2. InitialStatus(req[c]) \in BLOCKING_BOOKING_STATUSES /\ InitialStatus(req[c]) # "none"
  BY DEF InitialStatus, BLOCKING_BOOKING_STATUSES
<1>3. status[c] = "none" /\ ~IsBlocking(c) /\ history[c] = <<>>
  BY <1>1 DEF RowsMatch, IsBlocking, BLOCKING_BOOKING_STATUSES
<1>4. c \notin ClaimedBar /\ ClaimedBar' = ClaimedBar \cup {c}
  BY <1>1, <1>2, <1>3 DEF ClaimedBar
<1>5. HoldingBar' = HoldingBar \cup {c}
  BY <1>1, <1>2 DEF HoldingBar, IsBlocking
<1>6. RevivedBar' = RevivedBar
  <2>1. ~Revived(c) /\ ~Revived(c)'
    BY <1>1, <1>3 DEF Revived, RevivedIn
  <2>2. \A b \in Clients \ {c} : Revived(b)' <=> Revived(b)
    BY <1>1 DEF Revived
  <2> QED BY <2>1, <2>2 DEF RevivedBar
<1>7. ClaimsBar' = [ClaimsBar EXCEPT ![c] = {[room |-> r, stay |-> s] : r \in picked[c]}]
  BY <1>1, <1>2 DEF ClaimsBar
<1>8. ASSUME NEW r \in picked[c], NEW b \in HoldingBar \ RevivedBar, NEW e \in ClaimsBar[b],
             e.room = r, e.stay.under \cap s.under # {}, ~Calendar!Disjoint(e.stay, s)
      PROVE  FALSE
  <2>1. b \in Clients /\ IsBlocking(b) /\ ~Revived(b)
    BY DEF HoldingBar, RevivedBar
  <2>2. PICK q \in picked[b] : e = [room |-> q, stay |-> StayOf(req[b])]
    BY <2>1 DEF ClaimsBar
  <2>3. r \in picked[b] /\ e.stay = StayOf(req[b])
    BY <1>8, <2>2
  <2>4. KeysOf(req[b]) \cap KeysOf(req[c]) # {}
    BY <1>8, <2>3 DEF StayOf
  <2>5. /\ req[b].from \in Nat /\ req[b].to \in Nat
        /\ req[c].from \in Nat /\ req[c].to \in Nat
    BY <2>1, ConstantsAssumption DEF RequestType
  <2>6. Overlap(req[b], req[c])
    BY <1>8, <2>3, <2>5 DEF Overlap, StayOf, Calendar!Disjoint
  <2> QED BY <1>1, <2>1, <2>3, <2>4, <2>6 DEF ChecksStayTrue, Checked
<1>9. \A r \in picked[c] : ~Calendar!Taken(r, s)
  BY <1>8 DEF Calendar!Taken, HoldingBar, RevivedBar, ClaimsBar
<1>10. picked[c] \in SUBSET Rooms /\ s \in {StayOf(q) : q \in Requests}
  OBVIOUS
<1> HIDE DEF s
<1> QED BY <1>4, <1>5, <1>6, <1>7, <1>9, <1>10
        DEF Calendar!Claim, ClaimsBar, ClaimedBar, HoldingBar, RevivedBar

\* What a call does before its commit leaves the calendar alone.
LEMMA CreateStutters ==
    ASSUME AdmissionInv, NEW c \in Clients, createBooking(c) \/ rollback(c), ~insertBooking(c)
    PROVE  UNCHANGED CalendarBar
<1> USE DEF AdmissionInv, TypeOK
<1>1. /\ UNCHANGED <<req, status, history>> /\ pc[c] # "done"
      /\ picked' = [picked EXCEPT ![c] = picked'[c]]
  BY DEF createBooking, rollback, InCreate, lockRoomsAndTypes, assertRoomsAvailable,
        resolveRoomSelections, selectCandidates, findOverlaps, pickRooms, loadRooms,
        generateBookingNumber, Refuse, Undo
<1>2. status[c] = "none"
  BY <1>1 DEF RowsMatch
<1>3. ClaimedBar' = ClaimedBar /\ HoldingBar' = HoldingBar /\ RevivedBar' = RevivedBar
  BY <1>1 DEF ClaimedBar, HoldingBar, IsBlocking, RevivedBar, Revived
<1>4. ClaimsBar' = ClaimsBar
  <2>1. \A b \in Clients : status[b] # "none" => picked'[b] = picked[b]
    BY <1>1, <1>2
  <2> DEFINE bar(b, s, p, q) == IF s = "none" THEN {}
                               ELSE {[room |-> r, stay |-> StayOf(q)] : r \in p}
  <2>2. \A b \in Clients : bar(b, status'[b], picked'[b], req'[b])
                         = bar(b, status[b], picked[b], req[b])
    <3> SUFFICES ASSUME NEW b \in Clients
                 PROVE  bar(b, status'[b], picked'[b], req'[b])
                        = bar(b, status[b], picked[b], req[b])
      OBVIOUS
    <3>1. status'[b] = status[b] /\ req'[b] = req[b]
      BY <1>1
    <3>2. CASE status[b] = "none"
      BY ONLY <3>1, <3>2
    <3>3. CASE status[b] # "none"
      <4>1. picked'[b] = picked[b]
        BY <2>1, <3>3
      <4> HIDE DEF bar
      <4> QED BY ONLY <3>1, <4>1
    <3> QED BY <3>2, <3>3
  <2>3. ClaimsBar = [b \in Clients |-> bar(b, status[b], picked[b], req[b])]
    BY DEF ClaimsBar
  <2>4. ClaimsBar' = [b \in Clients |-> bar(b, status'[b], picked'[b], req'[b])]
    BY DEF ClaimsBar, StayOf
  <2> HIDE DEF bar
  <2> QED BY <2>2, <2>3, <2>4
<1> QED BY <1>3, <1>4 DEF CalendarBar

\* A lifecycle write gives a booking's rooms back, puts them back, or leaves the
\* calendar alone.
LEMMA LifecycleMoves ==
    ASSUME AdmissionInv, lifecycle
    PROVE  \/ UNCHANGED CalendarBar
           \/ \E b \in Clients : Calendar!GiveBack(b) \/ Calendar!PutBack(b)
<1> USE DEF AdmissionInv, TypeOK
<1>1. /\ UNCHANGED createVars
      /\ \A b \in Clients : status'[b] = "none" <=> status[b] = "none"
  BY LifecycleMarks DEF RowsMatch, createVars
<1>2. ClaimedBar' = ClaimedBar /\ ClaimsBar' = ClaimsBar
  BY <1>1 DEF ClaimedBar, ClaimsBar, createVars
<1>3. CASE UNCHANGED <<status, history>>
  BY <1>2, <1>3 DEF CalendarBar, HoldingBar, IsBlocking, RevivedBar, Revived
<1>4. ASSUME NEW t \in txs, transitionStatus(t)
      PROVE  \/ UNCHANGED CalendarBar
             \/ \E b \in Clients : Calendar!GiveBack(b) \/ Calendar!PutBack(b)
  <2> DEFINE b0 == t.booking
             row == [from |-> t.seen, to |-> ToStatus(t.op)]
  <2>1. /\ b0 \in Clients /\ status[b0] # "none"
        /\ row \in HistoryRow /\ row.to = ToStatus(t.op)
    <3>1. t.op \in LifecycleOps \cup {"sweep"} /\ t.booking \in Clients /\ t.seen \in BookingStatuses
      BY ConstantsAssumption DEF OpenTx
    <3>2. ToStatus(t.op) \in BookingStatuses
      BY <3>1, ToStatusType
    <3> QED BY <3>1, <3>2 DEF TxsOnRows, HistoryRow
  <2>2. /\ status' = [status EXCEPT ![b0] = row.to]
        /\ history' = [history EXCEPT ![b0] = Append(@, row)]
    BY <1>4 DEF transitionStatus
  <2> HIDE DEF b0, row
  <2>3. /\ history[b0] \in Seq(HistoryRow) /\ Len(history[b0]) > 0
        /\ history[b0][Len(history[b0])].to = status[b0]
    BY <2>1 DEF RowsMatch
  <2>4. /\ IsBlocking(b0)' <=> row.to \in BLOCKING_BOOKING_STATUSES
        /\ Revived(b0)' <=> Revived(b0) \/ (~IsBlocking(b0) /\ IsBlocking(b0)')
    BY <2>1, <2>2, <2>3, RevivedExactly DEF IsBlocking, Revived
  <2>5. \A b \in Clients \ {b0} : /\ IsBlocking(b)' <=> IsBlocking(b)
                                  /\ Revived(b)' <=> Revived(b)
    BY <2>1, <2>2 DEF IsBlocking, Revived
  <2>6. b0 \in ClaimedBar
    BY <2>1 DEF ClaimedBar
  <2>7. CASE IsBlocking(b0) <=> IsBlocking(b0)'
    <3>1. HoldingBar' = HoldingBar /\ RevivedBar' = RevivedBar
      BY <2>4, <2>5, <2>7 DEF HoldingBar, RevivedBar
    <3> QED BY <1>2, <3>1 DEF CalendarBar
  <2>8. CASE IsBlocking(b0) /\ ~IsBlocking(b0)'
    <3>1. HoldingBar' = HoldingBar \ {b0} /\ RevivedBar' = RevivedBar /\ b0 \in HoldingBar
      BY <2>1, <2>4, <2>5, <2>8 DEF HoldingBar, RevivedBar
    <3>2. Calendar!GiveBack(b0)
      BY <1>2, <3>1 DEF Calendar!GiveBack, ClaimsBar, ClaimedBar, HoldingBar, RevivedBar
    <3> QED BY <2>1, <3>2
  <2>9. CASE ~IsBlocking(b0) /\ IsBlocking(b0)'
    <3>1. /\ HoldingBar' = HoldingBar \cup {b0} /\ RevivedBar' = RevivedBar \cup {b0}
          /\ b0 \notin HoldingBar
      BY <2>1, <2>4, <2>5, <2>9 DEF HoldingBar, RevivedBar
    <3>2. Calendar!PutBack(b0)
      BY <1>2, <2>6, <3>1 DEF Calendar!PutBack, ClaimsBar, ClaimedBar, HoldingBar, RevivedBar
    <3> QED BY <2>1, <3>2
  <2> QED BY <2>7, <2>8, <2>9
<1>5. UNCHANGED <<status, history>> \/ \E t \in txs : transitionStatus(t)
  BY DEF lifecycle, readBooking, abandon, holdExpires, scanExpired, rereadHold
<1> QED BY <1>3, <1>4, <1>5

\* The transactions, locks and status writes implement the calendar, for any requests
\* and any operations: rooms are claimed at once, at most once and only where no claim
\* of a common key stands, given back together, and put back only by a lifecycle write
\* (createBooking, transitionStatus).
THEOREM ImplementsRoomCalendar == Spec => ImplementsCalendar
<1>1. Init => Calendar!Init
  BY DEF Init, Calendar!Init, IsBlocking, BLOCKING_BOOKING_STATUSES, Revived, RevivedIn
<1>2. AdmissionInv /\ [Next]_allVars => [Calendar!Next]_CalendarBar
  <2> SUFFICES ASSUME AdmissionInv, [Next]_allVars
               PROVE  Calendar!Next \/ UNCHANGED CalendarBar
    OBVIOUS
  <2>1. ASSUME NEW c \in Clients, insertBooking(c)
        PROVE  Calendar!Next
    BY <2>1, InsertClaims DEF Calendar!Next
  <2>2. ASSUME NEW c \in Clients, createBooking(c) \/ rollback(c), ~insertBooking(c)
        PROVE  UNCHANGED CalendarBar
    BY <2>2, CreateStutters
  <2>3. CASE lifecycle
    BY <2>3, LifecycleMoves DEF Calendar!Next
  <2>4. CASE UNCHANGED allVars
    BY <2>4 DEF allVars, vars, CalendarBar, ClaimsBar, ClaimedBar, HoldingBar, RevivedBar,
       IsBlocking, Revived
  <2> QED BY <2>1, <2>2, <2>3, <2>4 DEF Next
<1> QED BY <1>1, <1>2, AdmissionInvariant, PTL
    DEF Spec, ImplementsCalendar, Calendar!Spec, CalendarBar, ClaimsBar, ClaimedBar,
        HoldingBar, RevivedBar

-----------------------------------------------------------------------------
\* A booking is whole, its stages are in order, and a refusal is justified

\* The rooms of type t that call c has beside those it named.
GivenOf(c, t) == {r \in picked[c] \ Explicit(req[c]) : TypeOf[r] = t}

\* A call that has picked has, of every type, the rooms it asked for.
Resolved ==
    \A c \in Clients : pc[c] \in {"load", "number", "insert", "done"} =>
        /\ Explicit(req[c]) \subseteq picked[c]
        /\ \A t \in RoomTypes : Cardinality(GivenOf(c, t)) = req[c].want[t]

\* A room that was read for its type was usable then, and check-in and check-out
\* keep it so.
GivenUsable ==
    \A c \in Clients :
        /\ \A r \in pool[c] \cup offered[c] : roomStatus[r] \in {"available", "occupied"}
        /\ pc[c] = "load" =>
              \A r \in picked[c] \ Explicit(req[c]) : roomStatus[r] \in {"available", "occupied"}

\* A room that has been usable all the time is among those a call has read.
SteadyFound ==
    \A c \in Clients :
        /\ pc[c] \in Reading => steady[c] \subseteq Usable(req[c])
        /\ pc[c] \in {"resolve", "overlap", "pick"} =>
              \A r \in steady[c] :
                  TypeOf[r] \in Wanted(req[c]) \ todo[c] => r \in pool[c] \cup offered[c]
        /\ pc[c] = "pick" => todo[c] = {}

Had(b, s) == \E i \in 1..Len(history[b]) : history[b][i].to = s

\* A check-in is of a booking that was confirmed, a check-out of one checked in.
StagesRead ==
    \A t \in txs :
        /\ t.op = "checkIn" => Had(t.booking, "confirmed")
        /\ t.op = "checkOut" => Had(t.booking, "checked_in")

RowsInv == TypeOK /\ ReadSoFar /\ RowsMatch /\ TxsOnRows

WholeInv == RowsInv /\ Resolved /\ GivenUsable /\ SteadyFound

StagesInv == RowsInv /\ StagesRead /\ StagesInOrder

\* The rows and their types.
LEMMA RowsStep == RowsInv /\ [Next]_allVars => RowsInv'
<1> SUFFICES ASSUME RowsInv, [Next]_allVars PROVE RowsInv'
  OBVIOUS
<1> USE DEF RowsInv
<1>1. ASSUME Watch, NEW c \in Clients, createBooking(c) \/ rollback(c) PROVE RowsInv'
  BY <1>1, CreateKeepsTypes, CreateReadSoFar, CreateRowsMatch
<1>2. CASE lifecycle /\ Watch
  <2>1. UNCHANGED createVars /\ RowsMatch' /\ TxsOnRows'
    BY <1>2, LifecycleMarks
  <2>2. ReadSoFar'
    BY <2>1 DEF ReadSoFar, createVars
  <2> QED BY <1>2, <2>1, <2>2, LifecycleKeepsTypes
<1>3. CASE UNCHANGED allVars
  BY <1>3 DEF allVars, vars, TypeOK, ReadSoFar, RowsMatch, TxsOnRows
<1> QED BY <1>1, <1>2, <1>3 DEF Next

\* At the start there are no rows.
LEMMA RowsInit == Init => RowsInv
<1> SUFFICES ASSUME Init PROVE RowsInv
  OBVIOUS
<1>1. TypeOK
  BY ConstantsAssumption DEF Init, TypeOK, Pcs
<1>2. ReadSoFar /\ RowsMatch /\ TxsOnRows
  BY DEF Init, ReadSoFar, RowsMatch, TxsOnRows
<1> QED BY <1>1, <1>2 DEF RowsInv

-----------------------------------------------------------------------------
\* Whole bookings

\* The rooms picked for a type: as many as were asked for.
LEMMA FirstRoomsCount ==
    ASSUME TypeOK, NEW c \in Clients, NEW t \in RoomTypes,
           ~(Cardinality(FreeOfType(c, t)) < req[c].want[t])
    PROVE  /\ Cardinality(FirstRooms(req[c].want[t], FreeOfType(c, t))) = req[c].want[t]
           /\ \A r \in FirstRooms(req[c].want[t], FreeOfType(c, t)) :
                 r \in offered[c] \ Explicit(req[c]) /\ TypeOf[r] = t
<1>1. FreeOfType(c, t) \in SUBSET Rooms /\ IsFiniteSet(Rooms) /\ Rooms \subseteq Nat
  BY ConstantsAssumption DEF FreeOfType, TypeOK
<1>2. IsFiniteSet(FreeOfType(c, t)) /\ Cardinality(FreeOfType(c, t)) \in Nat
  BY <1>1, FS_Subset, FS_CardinalityType
<1>3. req[c].want[t] \in Nat
  BY ConstantsAssumption DEF TypeOK, RequestType
<1>4. req[c].want[t] <= Cardinality(FreeOfType(c, t))
  BY <1>2, <1>3
<1>5. Cardinality(FirstRooms(req[c].want[t], FreeOfType(c, t))) = req[c].want[t]
  BY <1>1, <1>2, <1>3, <1>4, SmallestCount DEF FirstRooms
<1>6. \A r \in FirstRooms(req[c].want[t], FreeOfType(c, t)) : r \in FreeOfType(c, t)
  BY DEF FirstRooms
<1> QED BY <1>5, <1>6 DEF FreeOfType

\* What pickRooms gives a call of each type.
LEMMA PicksOfType ==
    ASSUME TypeOK, NEW c \in Clients, NEW t \in RoomTypes,
           \A u \in Wanted(req[c]) : ~(Cardinality(FreeOfType(c, u)) < req[c].want[u]),
           picked' = [picked EXCEPT ![c] = Explicit(req[c]) \cup Picks(c)], req' = req
    PROVE  Cardinality(GivenOf(c, t)') = req[c].want[t]
<1>1. GivenOf(c, t)' = {r \in Picks(c) \ Explicit(req[c]) : TypeOf[r] = t}
  BY DEF GivenOf, TypeOK
<1>2. \A u \in Wanted(req[c]) : \A r \in FirstRooms(req[c].want[u], FreeOfType(c, u)) :
         r \notin Explicit(req[c]) /\ TypeOf[r] = u
  BY DEF FirstRooms, FreeOfType
<1>3. CASE t \in Wanted(req[c])
  <2>1. {r \in Picks(c) \ Explicit(req[c]) : TypeOf[r] = t}
           = FirstRooms(req[c].want[t], FreeOfType(c, t))
    BY <1>2, <1>3 DEF Picks
  <2>2. GivenOf(c, t)' = FirstRooms(req[c].want[t], FreeOfType(c, t))
    BY <1>1, <2>1
  <2>3. Cardinality(FirstRooms(req[c].want[t], FreeOfType(c, t))) = req[c].want[t]
    BY <1>3, FirstRoomsCount
  <2> QED BY <2>2, <2>3
<1>4. CASE t \notin Wanted(req[c])
  <2>1. {r \in Picks(c) \ Explicit(req[c]) : TypeOf[r] = t} = {}
    BY <1>2, <1>4 DEF Picks
  <2>2. req[c].want[t] = 0
    BY <1>4, ConstantsAssumption DEF Wanted, RequestType, TypeOK
  <2> QED BY <1>1, <2>1, <2>2, FS_EmptySet
<1> QED BY <1>3, <1>4

\* A step of one call that gives it all it asked for, or leaves its rooms alone,
\* keeps Resolved.
LEMMA ResolvedByCall ==
    ASSUME TypeOK, Resolved, NEW c \in Clients, req' = req,
           picked' = [picked EXCEPT ![c] = picked'[c]],
           pc' = [pc EXCEPT ![c] = pc'[c]],
           pc'[c] \in {"load", "number", "insert", "done"} =>
              /\ Explicit(req[c]) \subseteq picked'[c]
              /\ \A t \in RoomTypes : Cardinality(GivenOf(c, t)') = req[c].want[t]
    PROVE  Resolved'
<1> SUFFICES ASSUME NEW d \in Clients, pc'[d] \in {"load", "number", "insert", "done"}
             PROVE  /\ Explicit(req[d]) \subseteq picked'[d]
                    /\ \A t \in RoomTypes : Cardinality(GivenOf(d, t)') = req[d].want[t]
  BY DEF Resolved
<1>1. CASE d = c
  BY <1>1
<1>2. CASE d # c
  <2>1. picked'[d] = picked[d] /\ pc'[d] = pc[d]
    BY <1>2 DEF TypeOK
  <2>2. \A t : GivenOf(d, t)' = GivenOf(d, t)
    BY <2>1 DEF GivenOf
  <2> QED BY <2>1, <2>2 DEF Resolved
<1> QED BY <1>1, <1>2

\* Every step of a call keeps Resolved.
LEMMA CreateResolves ==
    ASSUME RowsInv, Resolved, NEW c \in Clients, createBooking(c) \/ rollback(c)
    PROVE  Resolved'
<1> USE DEF RowsInv, TypeOK
<1>1. ASSUME req' = req, picked' = [picked EXCEPT ![c] = picked'[c]],
             pc' = [pc EXCEPT ![c] = pc'[c]],
             pc'[c] \notin {"load", "number", "insert", "done"}
      PROVE  Resolved'
  BY <1>1, ResolvedByCall
<1>2. ASSUME UNCHANGED <<req, picked>>, pc' = [pc EXCEPT ![c] = pc'[c]],
             pc[c] \in {"load", "number", "insert"}
      PROVE  Resolved'
  <2>1. \A t : GivenOf(c, t)' = GivenOf(c, t)
    BY <1>2 DEF GivenOf
  <2>2. /\ Explicit(req[c]) \subseteq picked'[c]
        /\ \A t \in RoomTypes : Cardinality(GivenOf(c, t)') = req[c].want[t]
    BY <1>2, <2>1 DEF Resolved
  <2> QED BY <1>2, <2>2, ResolvedByCall
<1>3. CASE lockRoomsAndTypes(c)
  BY <1>1, <1>3 DEF lockRoomsAndTypes
<1>4. CASE Refuse(c) \/ rollback(c)
  BY <1>1, <1>4 DEF Refuse, rollback, Undo
<1>5. CASE assertRoomsAvailable(c) /\ ~Refuse(c)
  <2>1. /\ picked' = [picked EXCEPT ![c] = Explicit(req[c])]
        /\ pc' = [pc EXCEPT ![c] = IF Wanted(req[c]) = {} THEN "load" ELSE "resolve"]
        /\ req' = req
    BY <1>5 DEF assertRoomsAvailable
  <2>2. CASE Wanted(req[c]) = {}
    <3>1. \A t \in RoomTypes : req[c].want[t] = 0
      BY <2>2, ConstantsAssumption DEF Wanted, RequestType
    <3>2. \A t \in RoomTypes : GivenOf(c, t)' = {}
      BY <2>1 DEF GivenOf
    <3>3. \A t \in RoomTypes : Cardinality(GivenOf(c, t)') = req[c].want[t]
      BY <3>1, <3>2, FS_EmptySet
    <3> QED BY <2>1, <3>3, ResolvedByCall
  <2>3. CASE Wanted(req[c]) # {}
    BY <1>1, <2>1, <2>3
  <2> QED BY <2>2, <2>3
<1>6. ASSUME NEW t \in RoomTypes, selectCandidates(c, t)
      PROVE  Resolved'
  BY <1>1, <1>6 DEF selectCandidates
<1>7. CASE findOverlaps(c)
  BY <1>1, <1>7 DEF findOverlaps
<1>8. CASE pickRooms(c) /\ ~Refuse(c)
  <2>1. /\ picked' = [picked EXCEPT ![c] = Explicit(req[c]) \cup Picks(c)]
        /\ pc' = [pc EXCEPT ![c] = "load"] /\ req' = req
        /\ \A u \in Wanted(req[c]) : ~(Cardinality(FreeOfType(c, u)) < req[c].want[u])
    BY <1>8 DEF pickRooms
  <2>2. \A t \in RoomTypes : Cardinality(GivenOf(c, t)') = req[c].want[t]
    BY <2>1, PicksOfType
  <2>3. Explicit(req[c]) \subseteq picked'[c]
    BY <2>1
  <2> QED BY <2>1, <2>2, <2>3, ResolvedByCall
<1>9. CASE (loadRooms(c) /\ ~Refuse(c)) \/ generateBookingNumber(c) \/ insertBooking(c)
  BY <1>2, <1>9 DEF loadRooms, generateBookingNumber, insertBooking
<1> QED BY <1>3, <1>4, <1>5, <1>6, <1>7, <1>8, <1>9 DEF createBooking, resolveRoomSelections,
        assertRoomsAvailable, pickRooms, loadRooms

\* Every step of a call keeps the rooms it has read usable.
LEMMA CreateUsable ==
    ASSUME RowsInv, GivenUsable, NEW c \in Clients, createBooking(c) \/ rollback(c)
    PROVE  GivenUsable'
<1> USE DEF RowsInv, TypeOK, GivenUsable, lifecycleVars
<1>1. CASE lockRoomsAndTypes(c) \/ generateBookingNumber(c) \/ insertBooking(c)
  BY <1>1 DEF lockRoomsAndTypes, generateBookingNumber, insertBooking
<1>2. CASE (Refuse(c) /\ UNCHANGED lifecycleVars) \/ rollback(c)
  <2>1. /\ pc'[c] \in {"refused", "failed"} /\ \A d \in Clients \ {c} : pc'[d] = pc[d]
        /\ pool' = [pool EXCEPT ![c] = {}] /\ offered' = [offered EXCEPT ![c] = {}]
        /\ picked' = [picked EXCEPT ![c] = {}] /\ UNCHANGED <<req, roomStatus>>
    BY <1>2 DEF Refuse, rollback, Undo
  <2> QED BY <2>1
<1>3. CASE assertRoomsAvailable(c) /\ ~Refuse(c)
  <2>1. /\ pc'[c] \in {"load", "resolve"} /\ \A d \in Clients \ {c} : pc'[d] = pc[d]
        /\ picked' = [picked EXCEPT ![c] = Explicit(req[c])]
        /\ UNCHANGED <<req, pool, offered, roomStatus>>
    BY <1>3 DEF assertRoomsAvailable
  <2> QED BY <2>1
<1>4. ASSUME NEW t \in RoomTypes, selectCandidates(c, t)
      PROVE  GivenUsable'
  BY <1>4 DEF selectCandidates
<1>5. CASE findOverlaps(c)
  BY <1>5 DEF findOverlaps
<1>6. CASE pickRooms(c) /\ ~Refuse(c)
  <2>1. /\ picked' = [picked EXCEPT ![c] = Explicit(req[c]) \cup Picks(c)]
        /\ offered' = [offered EXCEPT ![c] = {}]
        /\ pc' = [pc EXCEPT ![c] = "load"]
        /\ UNCHANGED <<req, pool, roomStatus>>
    BY <1>6 DEF pickRooms
  <2>2. Picks(c) \subseteq offered[c]
    BY DEF Picks, FirstRooms, FreeOfType
  <2> QED BY <2>1, <2>2
<1>7. CASE loadRooms(c) /\ ~Refuse(c)
  BY <1>7 DEF loadRooms
<1> QED BY <1>1, <1>2, <1>3, <1>4, <1>5, <1>6, <1>7 DEF createBooking, resolveRoomSelections,
        assertRoomsAvailable, pickRooms, loadRooms

\* The watched rooms only shrink while a call reads, and are usable.
LEMMA WatchShrinks ==
    ASSUME TypeOK, Watch, NEW c \in Clients, pc'[c] \in Reading
    PROVE  /\ steady'[c] \subseteq Usable(req[c])'
           /\ pc[c] \in Reading => steady'[c] \subseteq steady[c]
BY DEF Watch

\* What a call has read covers the rooms that were usable all the time: a step of the
\* call itself.
LEMMA CreateFinds ==
    ASSUME RowsInv, SteadyFound, Watch, NEW c \in Clients, createBooking(c) \/ rollback(c)
    PROVE  SteadyFound'
<1> USE DEF RowsInv, TypeOK
<1>0. \A d \in Clients : pc'[d] \in Reading => steady'[d] \subseteq Usable(req[d])'
  BY WatchShrinks
<1>1. ASSUME UNCHANGED req,
             \A d \in Clients \ {c} : /\ pc'[d] = pc[d] /\ todo'[d] = todo[d]
                                       /\ pool'[d] = pool[d] /\ offered'[d] = offered[d],
             pc'[c] \in {"resolve", "overlap", "pick"} =>
                \A r \in steady'[c] :
                   TypeOf[r] \in Wanted(req[c]) \ todo'[c] => r \in pool'[c] \cup offered'[c],
             pc'[c] = "pick" => todo'[c] = {}
      PROVE  SteadyFound'
  <2>1. ASSUME NEW d \in Clients, pc'[d] \in {"resolve", "overlap", "pick"},
               NEW r \in steady'[d], TypeOf[r] \in Wanted(req[d]) \ todo'[d]
        PROVE  r \in pool'[d] \cup offered'[d]
    <3>1. CASE d = c
      BY <1>1, <2>1, <3>1
    <3>2. CASE d # c
      <4>1. pc[d] \in Reading /\ pc'[d] \in Reading
        BY <1>1, <2>1, <3>2 DEF Reading
      <4>2. r \in steady[d]
        BY <2>1, <4>1, WatchShrinks
      <4> QED BY <1>1, <2>1, <3>2, <4>2 DEF SteadyFound
    <3> QED BY <3>1, <3>2
  <2>2. ASSUME NEW d \in Clients, pc'[d] = "pick" PROVE todo'[d] = {}
    BY <1>1, <2>2 DEF SteadyFound
  <2> QED BY <1>0, <1>1, <2>1, <2>2 DEF SteadyFound
<1>2. CASE lockRoomsAndTypes(c) \/ generateBookingNumber(c) \/ insertBooking(c)
  BY <1>1, <1>2 DEF lockRoomsAndTypes, generateBookingNumber, insertBooking
<1>3. CASE Refuse(c) \/ rollback(c)
  BY <1>1, <1>3 DEF Refuse, rollback, Undo
<1>4. CASE assertRoomsAvailable(c) /\ ~Refuse(c)
  <2>1. /\ todo' = [todo EXCEPT ![c] = Wanted(req[c])]
        /\ pc' = [pc EXCEPT ![c] = IF Wanted(req[c]) = {} THEN "load" ELSE "resolve"]
        /\ UNCHANGED <<req, pool, offered>>
    BY <1>4 DEF assertRoomsAvailable
  <2> QED BY <1>1, <2>1
<1>5. ASSUME NEW t \in RoomTypes, selectCandidates(c, t)
      PROVE  SteadyFound'
  <2> DEFINE new == {r \in Rooms : TypeOf[r] = t /\ roomStatus[r] \in {"available", "occupied"}}
  <2>1. /\ pool' = [pool EXCEPT ![c] = new]
        /\ todo' = [todo EXCEPT ![c] = @ \ {t}]
        /\ pc' = [pc EXCEPT ![c] = "overlap"] /\ pc[c] = "resolve"
        /\ UNCHANGED <<req, offered>>
    BY <1>5 DEF selectCandidates
  <2>2. /\ steady'[c] \subseteq steady[c]
        /\ \A r \in steady[c] : r \in Rooms /\ roomStatus[r] \in {"available", "occupied"}
    BY <2>1, WatchShrinks DEF Reading, SteadyFound, Usable
  <2>3. ASSUME NEW r \in steady'[c], TypeOf[r] \in Wanted(req[c]) \ todo'[c]
        PROVE  r \in pool'[c] \cup offered'[c]
    <3>1. CASE TypeOf[r] = t
      BY <2>1, <2>2, <3>1
    <3>2. CASE TypeOf[r] # t
      <4>1. TypeOf[r] \in Wanted(req[c]) \ todo[c]
        BY <2>1, <2>3, <3>2
      <4>2. r \in pool[c] \cup offered[c] /\ pool[c] = {}
        BY <2>1, <2>2, <4>1 DEF SteadyFound, ReadSoFar
      <4> QED BY <2>1, <4>2
    <3> QED BY <3>1, <3>2
  <2> HIDE DEF new
  <2> QED BY <1>1, <2>1, <2>3
<1>6. CASE findOverlaps(c)
  <2> DEFINE busy == findOverlappingRoomIds(pool[c], req[c])
  <2>1. /\ offered' = [offered EXCEPT ![c] = @ \cup (pool[c] \ busy)]
        /\ pool' = [pool EXCEPT ![c] = {}]
        /\ pc' = [pc EXCEPT ![c] = IF todo[c] = {} THEN "pick" ELSE "resolve"] /\ pc[c] = "overlap"
        /\ UNCHANGED <<req, todo>>
    BY <1>6 DEF findOverlaps
  <2>2. steady'[c] \subseteq steady[c] /\ steady[c] \subseteq Usable(req[c])
    BY <2>1, WatchShrinks DEF Reading, SteadyFound
  <2>3. \A r \in Usable(req[c]) : r \notin busy
    BY OverlapIsSharedNight DEF Usable, findOverlappingRoomIds
  <2>4. ASSUME NEW r \in steady'[c], TypeOf[r] \in Wanted(req[c]) \ todo'[c]
        PROVE  r \in pool'[c] \cup offered'[c]
    <3>1. r \in pool[c] \cup offered[c] /\ r \notin busy
      BY <2>1, <2>2, <2>3, <2>4 DEF SteadyFound
    <3> QED BY <2>1, <3>1
  <2> HIDE DEF busy
  <2> QED BY <1>1, <2>1, <2>4
<1>7. CASE (pickRooms(c) \/ loadRooms(c)) /\ ~Refuse(c)
  BY <1>1, <1>7 DEF pickRooms, loadRooms
<1> QED BY <1>2, <1>3, <1>4, <1>5, <1>6, <1>7 DEF createBooking, resolveRoomSelections,
        assertRoomsAvailable, pickRooms, loadRooms

\* Steps that touch no call keep all three.
LEMMA OthersKeepWhole ==
    ASSUME WholeInv, UNCHANGED createVars, Watch \/ UNCHANGED <<steady, status, roomStatus>>,
           \A r \in Rooms : roomStatus[r] \in {"available", "occupied"} =>
                                roomStatus'[r] \in {"available", "occupied"}
    PROVE  Resolved' /\ GivenUsable' /\ SteadyFound'
<1> USE DEF WholeInv, RowsInv, TypeOK, createVars
<1>1. \A c \in Clients, t \in RoomTypes : GivenOf(c, t)' = GivenOf(c, t)
  BY DEF GivenOf
<1>2. Resolved'
  BY <1>1 DEF Resolved
<1>3. GivenUsable'
  BY DEF GivenUsable
<1>4. \A c \in Clients : pc[c] \in Reading =>
         steady'[c] \subseteq steady[c] /\ steady'[c] \subseteq Usable(req[c])'
  <2>1. CASE Watch
    BY <2>1, WatchShrinks
  <2>2. CASE UNCHANGED <<steady, status, roomStatus>>
    <3>1. \A c \in Clients : Usable(req[c])' = Usable(req[c])
      BY <2>2 DEF Usable, IsBlocking
    <3> QED BY <2>2, <3>1 DEF SteadyFound
  <2> QED BY <2>1, <2>2
<1>5. SteadyFound'
  <2> SUFFICES ASSUME NEW c \in Clients
               PROVE  /\ pc[c] \in Reading => steady'[c] \subseteq Usable(req[c])'
                      /\ pc[c] \in {"resolve", "overlap", "pick"} =>
                            \A r \in steady'[c] :
                               TypeOf[r] \in Wanted(req[c]) \ todo[c] => r \in pool[c] \cup offered[c]
                      /\ pc[c] = "pick" => todo[c] = {}
    BY DEF SteadyFound
  <2>1. pc[c] \in {"resolve", "overlap", "pick"} => steady'[c] \subseteq steady[c]
    BY <1>4 DEF Reading
  <2> QED BY <1>4, <2>1 DEF SteadyFound
<1> QED BY <1>2, <1>3, <1>5

\* Every step preserves what the picked rooms add up to.
LEMMA WholeStep == WholeInv /\ [Next]_allVars => WholeInv'
<1> SUFFICES ASSUME WholeInv, [Next]_allVars PROVE Resolved' /\ GivenUsable' /\ SteadyFound'
  BY RowsStep DEF WholeInv
<1>1. ASSUME Watch, NEW c \in Clients, createBooking(c) \/ rollback(c)
      PROVE  Resolved' /\ GivenUsable' /\ SteadyFound'
  BY <1>1, CreateResolves, CreateUsable, CreateFinds DEF WholeInv
<1>2. CASE lifecycle /\ Watch
  <2>1. UNCHANGED createVars
    BY <1>2, LifecycleMarks DEF WholeInv, RowsInv
  <2>2. roomStatus' = roomStatus \/ \E t \in txs : roomStatus' = RoomsAfter(t.op, t.booking)
    BY <1>2 DEF lifecycle, readBooking, transitionStatus, abandon, holdExpires, scanExpired,
       rereadHold
  <2>3. \A op, b : \A r \in Rooms : roomStatus[r] \in {"available", "occupied"} =>
            RoomsAfter(op, b)[r] \in {"available", "occupied"}
    BY DEF RoomsAfter
  <2> QED BY <1>2, <2>1, <2>2, <2>3, OthersKeepWhole
<1>3. CASE UNCHANGED allVars
  BY <1>3, OthersKeepWhole DEF allVars, vars, createVars
<1> QED BY <1>1, <1>2, <1>3 DEF Next

\* The invariant of the theorems below.
LEMMA WholeInvariant == Spec => []WholeInv
<1>1. Init => WholeInv
  <2> SUFFICES ASSUME Init PROVE Resolved /\ GivenUsable /\ SteadyFound
    BY RowsInit DEF WholeInv
  <2> QED BY DEF Init, Resolved, GivenUsable, SteadyFound, Reading
<1> QED BY <1>1, WholeStep, PTL DEF Spec

\* A committed booking has every room it asked for, of each type as many as its
\* selections named beside the rooms named one by one (resolveRoomSelections).
THEOREM BookingsWhole == Spec => []WholeBooking
<1>1. WholeInv => WholeBooking
  <2> SUFFICES ASSUME WholeInv, NEW b \in Clients, status[b] # "none"
               PROVE  /\ Explicit(req[b]) \subseteq picked[b]
                      /\ \A t \in RoomTypes : Cardinality(GivenOf(b, t)) = req[b].want[t]
    BY DEF WholeBooking, GivenOf
  <2>1. pc[b] = "done"
    BY DEF WholeInv, RowsInv, RowsMatch
  <2> QED BY <2>1 DEF WholeInv, Resolved
<1> QED BY <1>1, WholeInvariant, PTL

-----------------------------------------------------------------------------
\* Stages

\* The status that a guard has read is in the history.
LEMMA ReadIsRecorded ==
    ASSUME RowsInv, NEW b \in Clients, status[b] # "none"
    PROVE  Had(b, status[b])
<1>1. Len(history[b]) > 0 /\ history[b][Len(history[b])].to = status[b] /\ Len(history[b]) \in Nat
  BY DEF RowsInv, RowsMatch, TypeOK
<1> QED BY <1>1 DEF Had

\* Every step preserves the order of the stages.
LEMMA StagesStep == StagesInv /\ [Next]_allVars => StagesInv'
<1> SUFFICES ASSUME StagesInv, [Next]_allVars PROVE StagesRead' /\ StagesInOrder'
  BY RowsStep DEF StagesInv
<1> USE DEF StagesInv
<1>1. ASSUME UNCHANGED history, \A t \in txs' \ txs : (t.op = "checkIn" => Had(t.booking, "confirmed"))
                                      /\ (t.op = "checkOut" => Had(t.booking, "checked_in"))
      PROVE  StagesRead' /\ StagesInOrder'
  <2>1. StagesInOrder'
    BY <1>1 DEF StagesInOrder
  <2>2. \A b, s : Had(b, s)' <=> Had(b, s)
    BY <1>1 DEF Had
  <2>3. StagesRead'
    BY <1>1 DEF StagesRead, Had
  <2> QED BY <2>1, <2>3
<1>2. ASSUME NEW c \in Clients, insertBooking(c) PROVE StagesRead' /\ StagesInOrder'
  <2>1. /\ history' = [history EXCEPT ![c] = <<[from |-> "none", to |-> InitialStatus(req[c])]>>]
        /\ txs' = txs /\ pc[c] = "insert"
    BY <1>2 DEF insertBooking, lifecycleVars
  <2>2. InitialStatus(req[c]) \in {"confirmed", "held"}
    BY DEF InitialStatus
  <2>3. /\ Len(history'[c]) = 1
        /\ history'[c][1].to \in {"confirmed", "held"}
        /\ \A b \in Clients \ {c} : history'[b] = history[b]
    BY <2>1, <2>2 DEF RowsInv, TypeOK
  <2>4. \A t \in txs : t.booking \in Clients \ {c}
    BY <2>1 DEF RowsInv, TypeOK, OpenTx, TxsOnRows, RowsMatch
  <2>5. StagesRead'
    BY <2>1, <2>3, <2>4 DEF StagesRead, Had
  <2>6. StagesInOrder'
    <3> SUFFICES ASSUME NEW b \in Clients, NEW i \in 1..Len(history'[b])
                 PROVE  /\ history'[b][i].to = "checked_in" =>
                              \E j \in 1..i - 1 : history'[b][j].to = "confirmed"
                        /\ history'[b][i].to = "checked_out" =>
                              \E j \in 1..i - 1 : history'[b][j].to = "checked_in"
      BY DEF StagesInOrder
    <3>1. CASE b = c
      <4>1. Len(history'[b]) = 1
        BY <2>3, <3>1
      <4>2. i = 1
        BY <4>1
      <4> QED BY <2>3, <3>1, <4>2
    <3>2. CASE b # c
      BY <2>3, <3>2 DEF StagesInOrder
    <3> QED BY <3>1, <3>2
  <2> QED BY <2>5, <2>6
<1>3. ASSUME NEW t \in txs, transitionStatus(t) PROVE StagesRead' /\ StagesInOrder'
  <2> DEFINE b0 == t.booking
             row == [from |-> t.seen, to |-> ToStatus(t.op)]
  <2>1. /\ t.op \in LifecycleOps \cup {"sweep"} /\ b0 \in Clients /\ t.seen \in BookingStatuses
    BY ConstantsAssumption DEF OpenTx, RowsInv, TypeOK
  <2>2. row \in HistoryRow /\ row.to = ToStatus(t.op)
    BY <2>1, ToStatusType DEF HistoryRow
  <2>3. /\ row.to = "checked_in" => t.op = "checkIn"
        /\ row.to = "checked_out" => t.op = "checkOut"
    BY <2>1, <2>2 DEF ToStatus, LifecycleOps
  <2>4. /\ history' = [history EXCEPT ![b0] = Append(@, row)]
        /\ txs' = txs \ {t}
    BY <1>3 DEF transitionStatus
  <2>5. /\ row.to = "checked_in" => \E j \in 1..Len(history[b0]) : history[b0][j].to = "confirmed"
        /\ row.to = "checked_out" => \E j \in 1..Len(history[b0]) : history[b0][j].to = "checked_in"
    BY <2>3 DEF StagesRead, Had
  <2> HIDE DEF b0, row
  <2> DEFINE h == history[b0]
  <2>6. h \in Seq(HistoryRow)
    BY <2>1 DEF RowsInv, TypeOK
  <2>7. /\ history'[b0] = Append(h, row)
        /\ \A b \in Clients \ {b0} : history'[b] = history[b]
    BY <2>1, <2>4 DEF RowsInv, TypeOK
  <2> HIDE DEF h
  <2>8. /\ Len(Append(h, row)) = Len(h) + 1 /\ Append(h, row)[Len(h) + 1] = row
        /\ \A i \in 1..Len(h) : Append(h, row)[i] = h[i]
        /\ Len(h) \in Nat
    BY <2>2, <2>6
  <2>9. StagesInOrder'
    <3> SUFFICES ASSUME NEW b \in Clients, NEW i \in 1..Len(history'[b])
                 PROVE  /\ history'[b][i].to = "checked_in" =>
                              \E j \in 1..i - 1 : history'[b][j].to = "confirmed"
                        /\ history'[b][i].to = "checked_out" =>
                              \E j \in 1..i - 1 : history'[b][j].to = "checked_in"
      BY DEF StagesInOrder
    <3>1. CASE b # b0
      BY <2>7, <3>1 DEF StagesInOrder
    <3>2. CASE b = b0 /\ i = Len(h) + 1
      <4>1. history'[b] = Append(h, row) /\ history'[b][i] = row /\ i - 1 = Len(h)
        BY <2>7, <2>8, <3>2
      <4> QED BY <2>5, <2>8, <4>1 DEF h
    <3>3. CASE b = b0 /\ i # Len(h) + 1
      <4>1. /\ history'[b] = Append(h, row) /\ i \in 1..Len(h)
            /\ \A j \in 1..i : Append(h, row)[j] = h[j]
        BY <2>7, <2>8, <3>3
      <4>2. /\ h[i].to = "checked_in" => \E j \in 1..i - 1 : h[j].to = "confirmed"
            /\ h[i].to = "checked_out" => \E j \in 1..i - 1 : h[j].to = "checked_in"
        BY <2>1, <4>1 DEF StagesInOrder, h
      <4> QED BY <4>1, <4>2
    <3> QED BY <3>1, <3>2, <3>3
  <2>10. StagesRead'
    <3> SUFFICES ASSUME NEW u \in txs
                 PROVE  /\ u.op = "checkIn" => Had(u.booking, "confirmed")'
                        /\ u.op = "checkOut" => Had(u.booking, "checked_in")'
      BY <2>4 DEF StagesRead
    <3>1. /\ u.booking \in Clients
          /\ u.op = "checkIn" => Had(u.booking, "confirmed")
          /\ u.op = "checkOut" => Had(u.booking, "checked_in")
      BY DEF StagesRead, RowsInv, TypeOK, OpenTx
    <3>2. CASE u.booking # b0
      BY <2>7, <3>1, <3>2 DEF Had
    <3>3. CASE u.booking = b0
      <4>1. \A s : Had(u.booking, s) => \E j \in 1..Len(h) : h[j].to = s
        BY <3>3 DEF Had, h
      <4>2. \A s : (\E j \in 1..Len(h) : h[j].to = s) => Had(u.booking, s)'
        BY <2>7, <2>8, <3>1, <3>3 DEF Had
      <4> QED BY <3>1, <4>1, <4>2
    <3> QED BY <3>2, <3>3
  <2> QED BY <2>9, <2>10
<1>4. ASSUME NEW w \in Staff, NEW op \in Ops, NEW b \in Clients, readBooking(w, op, b)
      PROVE  StagesRead' /\ StagesInOrder'
  <2>1. /\ txs' = txs \cup {Tx(w, op, b)} /\ UNCHANGED history /\ status[b] \in AllowedFrom(op)
    BY <1>4 DEF readBooking
  <2>2. op \in LifecycleOps
    BY ConstantsAssumption
  <2>3. /\ status[b] # "none"
        /\ op = "checkIn" => status[b] = "confirmed"
        /\ op = "checkOut" => status[b] = "checked_in"
    <3>1. op \in LifecycleOps \cup {"sweep"}
      BY <2>2
    <3>2. status[b] \in BookingStatuses
      BY <2>1, <3>1, AllowedFromType
    <3>3. status[b] # "none"
      BY <3>2 DEF BookingStatuses, BLOCKING_BOOKING_STATUSES
    <3> QED BY <2>1, <3>3 DEF AllowedFrom
  <2>4. Tx(w, op, b).op = op /\ Tx(w, op, b).booking = b
    BY DEF Tx
  <2>5. Had(b, status[b])
    BY <2>3, ReadIsRecorded
  <2> QED BY <1>1, <2>1, <2>3, <2>4, <2>5
<1>5. ASSUME NEW s \in Sweepers, NEW b \in Clients, rereadHold(s, b)
      PROVE  StagesRead' /\ StagesInOrder'
  <2>1. /\ UNCHANGED history
        /\ \A t \in txs' \ txs : t.op = "sweep"
    BY <1>5 DEF rereadHold, Tx
  <2> QED BY <1>1, <2>1
<1>6. ASSUME UNCHANGED history, txs' \subseteq txs PROVE StagesRead' /\ StagesInOrder'
  BY <1>1, <1>6
<1>7. CASE lifecycle
  BY <1>3, <1>4, <1>5, <1>6, <1>7 DEF lifecycle, abandon, holdExpires, scanExpired
<1>8. ASSUME NEW c \in Clients, createBooking(c) \/ rollback(c)
      PROVE  insertBooking(c) \/ (UNCHANGED history /\ txs' \subseteq txs)
  BY <1>8 DEF createBooking, rollback, lockRoomsAndTypes, assertRoomsAvailable,
     resolveRoomSelections, selectCandidates, findOverlaps, pickRooms, loadRooms,
     generateBookingNumber, Refuse, Undo, lifecycleVars
<1>9. CASE UNCHANGED allVars
  BY <1>6, <1>9 DEF allVars, vars
<1> QED BY <1>2, <1>6, <1>7, <1>8, <1>9 DEF Next

\* The documented stages are passed in their order: a booking is checked in only after
\* it was confirmed and checked out only after it was checked in, whatever writes come
\* between a call's read and its own (checkInBooking, checkOutBooking).
THEOREM StagesStayInOrder == Spec => []StagesInOrder
<1>1. Init => StagesInv
  <2> SUFFICES ASSUME Init PROVE StagesRead /\ StagesInOrder
    BY RowsInit DEF StagesInv
  <2> QED BY DEF Init, StagesRead, StagesInOrder
<1>2. StagesInv => StagesInOrder
  BY DEF StagesInv
<1> QED BY <1>1, <1>2, StagesStep, PTL DEF Spec

-----------------------------------------------------------------------------
\* Refusals

\* A step that answers 409 finds that the steady rooms do not meet the request.
LEMMA RefusalJustified ==
    ASSUME WholeInv, NEW c \in Clients, createBooking(c), pc'[c] = "refused"
    PROVE  ~Satisfiable(req[c], steady[c])
<1> USE DEF WholeInv, RowsInv, TypeOK
<1>1. CASE assertRoomsAvailable(c)
  <2>1. pc[c] = "assert" /\ findOverlappingRoomIds(Explicit(req[c]), req[c]) # {}
    BY <1>1 DEF assertRoomsAvailable
  <2>2. PICK r \in Explicit(req[c]) : r \notin Usable(req[c])
    BY <2>1, OverlapIsSharedNight DEF Explicit, findOverlappingRoomIds, Usable
  <2>3. r \notin steady[c]
    BY <2>1, <2>2 DEF SteadyFound, Reading
  <2> QED BY <2>2, <2>3 DEF Satisfiable
<1>2. CASE pickRooms(c)
  <2>1. pc[c] = "pick"
    BY <1>2 DEF pickRooms
  <2>2. PICK t \in Wanted(req[c]) : Cardinality(FreeOfType(c, t)) < req[c].want[t]
    BY <1>2 DEF pickRooms
  <2> DEFINE of == {r \in steady[c] \ Explicit(req[c]) : TypeOf[r] = t}
  <2>3. \A r \in steady[c] : TypeOf[r] = t => r \in offered[c]
    BY <2>1, <2>2 DEF SteadyFound, ReadSoFar
  <2>4. of \subseteq FreeOfType(c, t)
    BY <2>3 DEF FreeOfType
  <2>5. FreeOfType(c, t) \in SUBSET Rooms
    BY DEF FreeOfType
  <2>6. IsFiniteSet(FreeOfType(c, t)) /\ IsFiniteSet(of)
    BY <2>4, <2>5, ConstantsAssumption, FS_Subset
  <2>7. Cardinality(of) <= Cardinality(FreeOfType(c, t))
    BY <2>4, <2>6, FS_Subset
  <2>8. /\ Cardinality(of) \in Nat /\ Cardinality(FreeOfType(c, t)) \in Nat
        /\ req[c].want[t] \in Nat
    BY <2>2, <2>6, ConstantsAssumption, FS_CardinalityType DEF RequestType, Wanted
  <2>9. Satisfiable(req[c], steady[c]) => Cardinality(of) >= req[c].want[t]
    BY <2>2 DEF Satisfiable
  <2> HIDE DEF of
  <2> QED BY <2>2, <2>7, <2>8, <2>9
<1>3. CASE loadRooms(c)
  <2>1. /\ pc[c] = "load"
        /\ \/ \E r \in Rooms : req[c].want[r] > 1
           \/ \E r \in picked[c] : roomStatus[r] \in {"maintenance", "inactive", "deleted"}
    BY <1>3 DEF loadRooms
  <2>2. ASSUME NEW r \in Rooms, req[c].want[r] > 1 PROVE ~Satisfiable(req[c], steady[c])
    <3>1. req[c].want[r] \in Nat
      BY ConstantsAssumption DEF RequestType
    <3> QED BY <2>2, <3>1 DEF Satisfiable
  <2>3. ASSUME NEW r \in picked[c], roomStatus[r] \in {"maintenance", "inactive", "deleted"}
        PROVE  ~Satisfiable(req[c], steady[c])
    <3>1. r \in Explicit(req[c])
      BY <2>1, <2>3 DEF GivenUsable
    <3>2. r \notin steady[c]
      BY <2>1, <2>3 DEF SteadyFound, Reading, Usable
    <3> QED BY <3>1, <3>2 DEF Satisfiable
  <2> QED BY <2>1, <2>2, <2>3
<1>4. ~(lockRoomsAndTypes(c) \/ generateBookingNumber(c) \/ insertBooking(c) \/ findOverlaps(c))
  BY DEF lockRoomsAndTypes, generateBookingNumber, insertBooking, findOverlaps
<1>5. \A t \in RoomTypes : ~selectCandidates(c, t)
  BY DEF selectCandidates
<1> QED BY <1>1, <1>2, <1>3, <1>4, <1>5 DEF createBooking, resolveRoomSelections

\* A 409 of createBooking is never spurious: whatever others commit between its queries
\* and the refusal, the rooms that were usable all that time could not have met the
\* request (assertRoomsAvailable, resolveRoomSelections and the load of the rooms).
THEOREM RefusalsJustified == Spec => RefusedMeansUnsatisfiable
<1>1. ASSUME WholeInv, Next, NEW c \in Clients, pc[c] # "refused", pc'[c] = "refused"
      PROVE  ~Satisfiable(req[c], steady[c])
  <2>1. lifecycle => pc' = pc
    BY <1>1, LifecycleMarks DEF createVars, WholeInv, RowsInv
  <2>2. PICK d \in Clients : createBooking(d) \/ rollback(d)
    BY <1>1, <2>1 DEF Next
  <2>3. pc' = [pc EXCEPT ![d] = pc'[d]]
    BY <1>1, <2>2 DEF createBooking, rollback, lockRoomsAndTypes, assertRoomsAvailable,
       resolveRoomSelections, selectCandidates, findOverlaps, pickRooms, loadRooms,
       generateBookingNumber, insertBooking, Refuse, WholeInv, RowsInv, TypeOK
  <2>4. d = c
    BY <1>1, <2>3 DEF WholeInv, RowsInv, TypeOK
  <2>5. ~rollback(c)
    BY <1>1 DEF rollback, WholeInv, RowsInv, TypeOK
  <2> QED BY <1>1, <2>2, <2>4, <2>5, RefusalJustified
<1>2. WholeInv /\ [Next]_allVars =>
      [\A c \in Clients :
          pc[c] # "refused" /\ pc'[c] = "refused" => ~Satisfiable(req[c], steady[c])]_vars
  BY <1>1 DEF allVars
<1> QED BY <1>2, WholeInvariant, PTL DEF Spec, RefusedMeansUnsatisfiable

=============================================================================

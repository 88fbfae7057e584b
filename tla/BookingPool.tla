----------------------------- MODULE BookingPool -----------------------------
(***************************************************************************)
(* Database connections under concurrent bookings.                         *)
(*                                                                         *)
(* createBooking holds a connection of the pool for its whole transaction, *)
(* also while it waits for an advisory lock, and in the middle of it calls *)
(* getSettings(), which runs on the pool and not on the transaction: it    *)
(* waits for a second connection.  The pool hands out at most              *)
(* databasePoolMax connections, first come first served, and lets a        *)
(* request wait for ever.  Every other request holds one connection while  *)
(* it runs and waits for nothing else.                                     *)
(***************************************************************************)
EXTENDS Naturals, FiniteSets, Sequences

CONSTANTS
    PoolBookings,     \* createBooking calls
    Queries,      \* requests that need a connection once
    PoolMax,      \* env.databasePoolMax
    MaxKey,       \* room and room-type lock keys are 1..MaxKey
    KeysOf,       \* the keys each booking locks
    NoBooking         \* the owner of a free lock

NumberKey == 0    \* the lock of generateBookingNumber

LockKeys == 0..MaxKey

ASSUME PoolAssumption ==
    /\ PoolMax \in Nat \ {0} /\ MaxKey \in Nat
    /\ KeysOf \in [PoolBookings -> (SUBSET (1..MaxKey)) \ {{}}]
    /\ PoolBookings \cap Queries = {}
    /\ NoBooking \notin PoolBookings

VARIABLES
    poolPc,       \* where each call is
    advisory,         \* the booking that owns each advisory lock
    inUse,        \* connections in use: who has it and what for
    waiting       \* pool.connect() requests not yet served

poolVars == <<poolPc, advisory, inUse, waiting>>

Callers == PoolBookings \cup Queries

PoolInit ==
    /\ poolPc = [c \in Callers |-> "start"]
    /\ advisory = [k \in LockKeys |-> NoBooking]
    /\ inUse = {}
    /\ waiting = <<>>

\* db.transaction() or db.select(): ask the pool for a connection.
connect(c) ==
    /\ poolPc[c] = "start"
    /\ poolPc' = [poolPc EXCEPT ![c] = "wait"]
    /\ waiting' = Append(waiting, <<c, "first">>)
    /\ UNCHANGED <<advisory, inUse>>

\* Where a call goes on once it has the connection it waited for.
Served(c, use) ==
    IF use = "settings" THEN "settings" ELSE IF c \in Queries THEN "run" ELSE "lock"

\* pg.Pool: the oldest request gets a connection, if one is free.
grant ==
    /\ waiting # <<>>
    /\ Cardinality(inUse) < PoolMax
    /\ inUse' = inUse \cup {Head(waiting)}
    /\ waiting' = Tail(waiting)
    /\ poolPc' = [poolPc EXCEPT ![Head(waiting)[1]] = Served(Head(waiting)[1], Head(waiting)[2])]
    /\ UNCHANGED advisory

\* A query is answered and gives its connection back.
answer(q) ==
    /\ poolPc[q] = "run"
    /\ inUse' = inUse \ {<<q, "first">>}
    /\ poolPc' = [poolPc EXCEPT ![q] = "done"]
    /\ UNCHANGED <<advisory, waiting>>

Missing(b) == {k \in KeysOf[b] : advisory[k] # b}

\* (mutant: keys taken in the order of the selections)
NextKeyUnsorted(b, k) == k \in Missing(b)

NextKey(b, k) == k \in Missing(b) /\ \A j \in Missing(b) : k <= j

\* lockRoomsAndTypes: the next key in sorted order, waiting while it is taken.
lockRoomsAndTypes(b) ==
    /\ poolPc[b] = "lock"
    /\ \E k \in KeysOf[b] :
          /\ NextKey(b, k)
          /\ advisory[k] = NoBooking
          /\ advisory' = [advisory EXCEPT ![k] = b]
          /\ poolPc' = [poolPc EXCEPT ![b] = IF Missing(b) = {k} THEN "work" ELSE "lock"]
    /\ UNCHANGED <<inUse, waiting>>

\* The availability and price statements, and then getSettings().
getSettings(b) ==
    /\ poolPc[b] = "work"
    /\ poolPc' = [poolPc EXCEPT ![b] = "wait"]
    /\ waiting' = Append(waiting, <<b, "settings">>)
    /\ UNCHANGED <<advisory, inUse>>

\* The settings arrive and their connection goes back.
haveSettings(b) ==
    /\ poolPc[b] = "settings"
    /\ inUse' = inUse \ {<<b, "settings">>}
    /\ poolPc' = [poolPc EXCEPT ![b] = "number"]
    /\ UNCHANGED <<advisory, waiting>>

generateBookingNumber(b) ==
    /\ poolPc[b] = "number"
    /\ advisory[NumberKey] = NoBooking
    /\ advisory' = [advisory EXCEPT ![NumberKey] = b]
    /\ poolPc' = [poolPc EXCEPT ![b] = "insert"]
    /\ UNCHANGED <<inUse, waiting>>

\* The transaction ends: its locks and its connections go.
EndTx(b, how) ==
    /\ poolPc' = [poolPc EXCEPT ![b] = how]
    /\ advisory' = [k \in LockKeys |-> IF advisory[k] = b THEN NoBooking ELSE advisory[k]]
    /\ inUse' = {p \in inUse : p[1] # b}
    /\ UNCHANGED waiting

commitTx(b) == poolPc[b] = "insert" /\ EndTx(b, "done")

\* A statement that is not waiting fails: a conflict, a missing rate, an error.
rollbackTx(b) == poolPc[b] \in {"work", "settings", "insert"} /\ EndTx(b, "failed")

proceed(b) ==
    \/ lockRoomsAndTypes(b) \/ getSettings(b) \/ haveSettings(b)
    \/ generateBookingNumber(b) \/ commitTx(b)

createBooking(b) == connect(b) \/ proceed(b)

PoolNext ==
    \/ grant
    \/ \E b \in PoolBookings : createBooking(b) \/ rollbackTx(b)
    \/ \E q \in Queries : connect(q) \/ answer(q)

PoolSpec == PoolInit /\ [][PoolNext]_poolVars

\* The pool serves its queue and PostgreSQL runs the statements it was sent.
PoolFairness ==
    /\ WF_poolVars(grant)
    /\ \A b \in PoolBookings : WF_poolVars(proceed(b))
    /\ \A q \in Queries : WF_poolVars(answer(q))

PoolFairSpec == PoolSpec /\ PoolFairness

-----------------------------------------------------------------------------
\* Properties

PoolEnded == {"done", "failed"}

\* Every booking that has asked for its connection is answered.
PoolCallsEnd == \A b \in PoolBookings : poolPc[b] = "wait" ~> poolPc[b] \in PoolEnded

=============================================================================

------------------------------ MODULE BackOffice ------------------------------
(***************************************************************************)
(* Commissions, tour bookings and transport bookings: rows whose status is *)
(* read, checked against a table and then written by id.                   *)
(*                                                                         *)
(* services/commissionService.js, tourBookingService.js and                *)
(* transportService.js do this in separate statements (cancelTourBooking   *)
(* in one transaction, which does not lock what it reads), so another call *)
(* may write the row in between.  A transport booking also names a vehicle *)
(* and a driver, whose own statuses are read before the write.             *)
(***************************************************************************)
EXTENDS Naturals, FiniteSets

CONSTANTS
    Commissions, Tours, Trips,   \* the rows that may come to exist
    Vehicles, Drivers,
    NoDriver, Keep,              \* no driver; a field the data leaves out
    TripStatuses,                \* the statuses that data of a trip may name
    Officers                     \* calls; each makes one

Work == Commissions \cup Tours \cup Trips

ASSUME BackOfficeAssumption ==
    /\ Commissions \cap Tours = {} /\ Commissions \cap Trips = {} /\ Tours \cap Trips = {}
    /\ NoDriver \notin Drivers /\ Keep \notin Vehicles \cup Drivers \cup {NoDriver} \cup TripStatuses
    /\ Vehicles # {} /\ Work # {}
    /\ TripStatuses \subseteq {"pending", "confirmed", "in_progress", "completed", "cancelled"}

VARIABLES
    standing,      \* the status of each row, "none" before it exists
    paidAt,        \* commissions with paid_at set
    vehicleOf, driverOf,         \* what each trip is assigned
    fleet,         \* vehicles.status ("deleted" when deleted_at is set)
    crew,          \* drivers.status
    task,          \* each call: where it is, the data it is to write
    reached,       \* history: every status a row has had
    unsure,        \* history: calls whose row was written by another since they read it
    strayed,       \* history: calls whose vehicle or driver changed since its check
    overwrote      \* history: rows written by a call that was unsure

officeVars == <<standing, paidAt, vehicleOf, driverOf, fleet, crew, task,
                reached, unsure, strayed, overwrote>>
historyVars == <<reached, unsure, strayed, overwrote>>
fleetVars  == <<fleet, crew>>

VehicleStatuses == {"available", "in_use", "maintenance", "inactive"}

NoTask == [at |-> "start", row |-> CHOOSE r \in Work : TRUE,
           new |-> Keep, vehicle |-> Keep, driver |-> Keep,     \* the data
           checkV |-> Keep, checkD |-> NoDriver]                \* what is checked

InFlight(o) == task[o].at \in {"vehicle", "driver", "write"}

OfficeInit ==
    /\ standing = [r \in Work |-> "none"]
    /\ paidAt = {}
    /\ vehicleOf = [x \in Trips |-> CHOOSE v \in Vehicles : TRUE]
    /\ driverOf = [x \in Trips |-> NoDriver]
    /\ fleet = [v \in Vehicles |-> "available"]
    /\ crew = [d \in Drivers |-> "active"]
    /\ task = [o \in Officers |-> NoTask]
    /\ reached = [r \in Work |-> {}]
    /\ unsure = {} /\ strayed = {}
    /\ overwrote = {}

-----------------------------------------------------------------------------
\* commissionService.js
ALLOWED_TRANSITIONS(s) ==
    CASE s = "pending"  -> {"approved", "cancelled"}
      [] s = "approved" -> {"paid", "cancelled"}
      [] OTHER          -> {}

\* (mutant: a completed booking can still be cancelled)
ClosedCancelled == {"cancelled"}

\* A tour or transport booking that is cancelled or completed is left alone.
Closed == {"cancelled", "completed"}

\* A call has read its row and goes on; the data are in t.
Begin(o, where, r, t) ==
    /\ task[o].at = "start"
    /\ task' = [task EXCEPT ![o] = [t EXCEPT !.at = where, !.row = r]]
    /\ UNCHANGED <<standing, paidAt, vehicleOf, driverOf, fleetVars, historyVars>>

ToStatus(new) == [NoTask EXCEPT !.new = new]

\* The row is written: other calls that hold a read of it are unsure from now.
Written(o, row, new) ==
    /\ standing' = [standing EXCEPT ![row] = new]
    /\ reached' = [reached EXCEPT ![row] = @ \cup {new}]
    /\ unsure' = (unsure \ {o}) \cup {p \in Officers \ {o} : InFlight(p) /\ task[p].row = row}
    /\ overwrote' = IF o \in unsure THEN overwrote \cup {row} ELSE overwrote
    /\ strayed' = strayed \ {o}

Ready(o, rows) == task[o].at = "write" /\ task[o].row \in rows

Done(o) == task' = [task EXCEPT ![o] = [NoTask EXCEPT !.at = "done"]]

\* Row r is inserted by a call of its own.
Inserted(r, new) ==
    /\ standing[r] = "none"
    /\ standing' = [standing EXCEPT ![r] = new]
    /\ reached' = [reached EXCEPT ![r] = {new}]

\* createCommission and the commission of createBooking.
createCommission(c) ==
    /\ Inserted(c, "pending")
    /\ UNCHANGED <<paidAt, vehicleOf, driverOf, fleetVars, task, unsure, strayed, overwrote>>

\* updateCommissionStatus: the read and the check of the transition.
readCommission(o, c, new) ==
    /\ new \in ALLOWED_TRANSITIONS(standing[c])
    /\ Begin(o, "write", c, ToStatus(new))

\* commissionRepository.updateStatus: paid_at is set with paid, never cleared.
updateCommissionStatus(o) ==
    /\ Ready(o, Commissions)
    /\ Written(o, task[o].row, task[o].new)
    /\ paidAt' = IF task[o].new = "paid" THEN paidAt \cup {task[o].row} ELSE paidAt
    /\ Done(o)
    /\ UNCHANGED <<vehicleOf, driverOf, fleetVars>>

createTourBooking(t) ==
    /\ Inserted(t, "pending")
    /\ UNCHANGED <<paidAt, vehicleOf, driverOf, fleetVars, task, unsure, strayed, overwrote>>

readTourBooking(o, t) ==
    /\ standing[t] \notin Closed \cup {"none"}
    /\ Begin(o, "write", t, ToStatus("cancelled"))

cancelTourBooking(o) ==
    /\ Ready(o, Tours)
    /\ Written(o, task[o].row, "cancelled")
    /\ Done(o)
    /\ UNCHANGED <<paidAt, vehicleOf, driverOf, fleetVars>>

-----------------------------------------------------------------------------
\* transportService.js

\* (mutant: only a deleted or inactive vehicle is refused)
BookableInMaintenance(v) == fleet[v] \notin {"inactive", "deleted"}

BookableVehicle(v) == fleet[v] \notin {"maintenance", "inactive", "deleted"}

BookableDriver(d) == d = NoDriver \/ crew[d] = "active"

\* createBooking begins with the vehicle and the driver of its data.
createTrip(o, x, new, v, d) ==
    /\ standing[x] = "none"
    /\ \A p \in Officers : InFlight(p) => task[p].row # x
    /\ Begin(o, "vehicle", x, [NoTask EXCEPT !.new = new, !.vehicle = v, !.driver = d,
                                            !.checkV = v, !.checkD = d])

\* updateBooking reads the booking; a vehicle or a driver in its data is
\* checked together with the other one as the booking has it.  Taking the
\* driver off checks nothing.
updateTrip(o, x, new, v, d) ==
    /\ standing[x] \notin Closed \cup {"none"}
    /\ Begin(o, IF v = Keep /\ d \in {Keep, NoDriver} THEN "write" ELSE "vehicle", x,
             [NoTask EXCEPT !.new = new, !.vehicle = v, !.driver = d,
                            !.checkV = IF v = Keep THEN vehicleOf[x] ELSE v,
                            !.checkD = IF d = Keep THEN driverOf[x] ELSE d])

cancelTrip(o, x) ==
    /\ standing[x] \notin Closed \cup {"none"}
    /\ Begin(o, "write", x, ToStatus("cancelled"))

Check(o, from, ok, to) ==
    /\ task[o].at = from
    /\ task' = [task EXCEPT ![o] = IF ok THEN [task[o] EXCEPT !.at = to]
                                         ELSE [NoTask EXCEPT !.at = "refused"]]
    /\ unsure' = IF ok THEN unsure ELSE unsure \ {o}
    /\ strayed' = IF ok THEN strayed ELSE strayed \ {o}
    /\ UNCHANGED <<standing, paidAt, vehicleOf, driverOf, fleetVars, reached, overwrote>>

\* assertVehicleAndDriverBookable reads the vehicle, and then the driver.
assertVehicleBookable(o) ==
    Check(o, "vehicle", BookableVehicle(task[o].checkV),
          IF task[o].checkD = NoDriver THEN "write" ELSE "driver")

assertDriverBookable(o) == Check(o, "driver", BookableDriver(task[o].checkD), "write")

Given(data, old) == IF data = Keep THEN old ELSE data

\* transportRepository createBooking, updateBooking and cancelBooking: the data
\* over whatever the row is now.
writeTrip(o) ==
    LET x == task[o].row IN
    /\ Ready(o, Trips)
    /\ Written(o, x, Given(task[o].new, standing[x]))
    /\ vehicleOf' = [vehicleOf EXCEPT ![x] = Given(task[o].vehicle, vehicleOf[x])]
    /\ driverOf' = [driverOf EXCEPT ![x] = Given(task[o].driver, driverOf[x])]
    /\ Done(o)
    /\ UNCHANGED <<paidAt, fleetVars>>

\* updateVehicle and deleteVehicle look at no trip.
setVehicle(v, new) ==
    /\ fleet[v] # "deleted" /\ fleet[v] # new
    /\ fleet' = [fleet EXCEPT ![v] = new]
    /\ strayed' = strayed \cup {p \in Officers : task[p].checkV = v /\ task[p].at \in {"driver", "write"}}
    /\ UNCHANGED <<standing, paidAt, vehicleOf, driverOf, crew, task, reached, unsure, overwrote>>

\* updateDriver, and deleteDriver, which makes a driver inactive.
setDriver(d, new) ==
    /\ crew[d] # new
    /\ crew' = [crew EXCEPT ![d] = new]
    /\ strayed' = strayed \cup {p \in Officers : task[p].checkD = d /\ task[p].at = "write"}
    /\ UNCHANGED <<standing, paidAt, vehicleOf, driverOf, fleet, task, reached, unsure, overwrote>>

CommissionNext ==
    \/ \E c \in Commissions : createCommission(c)
    \/ \E o \in Officers :
          \/ \E c \in Commissions, new \in {"approved", "paid", "cancelled"} : readCommission(o, c, new)
          \/ updateCommissionStatus(o)

TourNext ==
    \/ \E t \in Tours : createTourBooking(t)
    \/ \E o \in Officers : cancelTourBooking(o) \/ \E t \in Tours : readTourBooking(o, t)

TripNext ==
    \/ \E o \in Officers :
          \/ \E x \in Trips, v \in Vehicles, d \in Drivers \cup {NoDriver}, new \in TripStatuses :
                createTrip(o, x, new, v, d)
          \/ \E x \in Trips, v \in Vehicles \cup {Keep}, d \in Drivers \cup {NoDriver, Keep},
                new \in TripStatuses \cup {Keep} : updateTrip(o, x, new, v, d)
          \/ \E x \in Trips : cancelTrip(o, x)
          \/ assertVehicleBookable(o) \/ assertDriverBookable(o)
          \/ writeTrip(o)
    \/ \E v \in Vehicles, new \in VehicleStatuses \cup {"deleted"} : setVehicle(v, new)
    \/ \E d \in Drivers, new \in {"active", "inactive"} : setDriver(d, new)

OfficeNext == CommissionNext \/ TourNext \/ TripNext

OfficeSpec == OfficeInit /\ [][OfficeNext]_officeVars

-----------------------------------------------------------------------------
\* Properties

Final(r) == IF r \in Commissions THEN {"paid", "cancelled"} ELSE {"cancelled", "completed"}

\* A commission that is paid was approved before, whichever calls overlap.
PaidAfterApproved ==
    \A c \in Commissions : "paid" \in reached[c] => "approved" \in reached[c]

\* A row that was once paid, cancelled or completed is so for good, unless a call
\* wrote it that had read it before another call's write.
FinalForGood ==
    \A r \in Work \ overwrote : \A s \in reached[r] \cap Final(r) : standing[r] = s

\* A paid commission has its date of payment; one that has the date is paid,
\* under the same condition.
PaidAtAgrees ==
    \A c \in Commissions :
        /\ standing[c] = "paid" => c \in paidAt
        /\ c \in paidAt /\ c \notin overwrote => standing[c] = "paid"

\* The rows whose status is checked against a table keep to it, also when several
\* calls act on one of them.
StatusesSound == PaidAfterApproved /\ FinalForGood /\ PaidAtAgrees

\* A trip is given a vehicle or a driver only while those are bookable, unless
\* one of them changed between its check and the write.
GivenBookable ==
    [][\A o \in Officers :
          Ready(o, Trips) /\ task'[o].at = "done" /\ o \notin strayed =>
              /\ task[o].vehicle # Keep => fleet[vehicleOf'[task[o].row]] \in {"available", "in_use"}
              /\ task[o].driver \notin {Keep, NoDriver} =>
                    /\ fleet[task[o].checkV] \in {"available", "in_use"}
                    /\ crew[driverOf'[task[o].row]] = "active"]_officeVars
=============================================================================

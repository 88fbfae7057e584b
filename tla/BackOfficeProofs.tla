-------------------------- MODULE BackOfficeProofs ---------------------------
(***************************************************************************)
(* Proofs about BackOffice: what is paid, cancelled or completed stays so, *)
(* and a trip is given a vehicle and a driver that are bookable, as far as *)
(* no call wrote from a read that another one had overtaken.  And about    *)
(* Catalogue: packages, itineraries and rates stay consistent, and a       *)
(* destination is deleted without tours, under the same condition.  And    *)
(* about Reports: the reports and the dashboard agree with the rows and    *)
(* with each other, and a reader of the pages misses no row.               *)
(***************************************************************************)
EXTENDS BackOffice, Catalogue, Reports, CountingLemmas, SequenceTheorems, TLAPS

Statuses == {"pending", "approved", "paid", "confirmed", "in_progress", "completed", "cancelled"}

TaskType ==
    [at : {"start", "vehicle", "driver", "write", "done", "refused"}, row : Work,
     new : Statuses \cup {Keep}, vehicle : Vehicles \cup {Keep},
     driver : Drivers \cup {NoDriver, Keep}, checkV : Vehicles \cup {Keep},
     checkD : Drivers \cup {NoDriver}]

OfficeTypeOK ==
    /\ standing \in [Work -> Statuses \cup {"none"}]
    /\ reached \in [Work -> SUBSET Statuses]
    /\ vehicleOf \in [Trips -> Vehicles]
    /\ driverOf \in [Trips -> Drivers \cup {NoDriver}]
    /\ fleet \in [Vehicles -> VehicleStatuses \cup {"deleted"}]
    /\ crew \in [Drivers -> {"active", "inactive"}]
    /\ task \in [Officers -> TaskType]

\* A row that exists has had the status it has, one that does not has had none.
ReachedAgrees ==
    \A r \in Work : IF standing[r] = "none" THEN reached[r] = {} ELSE standing[r] \in reached[r]

\* A commission is given a status of the table; one that a call is to pay was
\* approved when it was read.
PaysApproved ==
    \A o \in Officers :
        task[o].at = "write" /\ task[o].row \in Commissions =>
            /\ task[o].new \in {"approved", "paid", "cancelled"}
            /\ task[o].new = "paid" => "approved" \in reached[task[o].row]

\* Unless another call wrote its row, what a call was allowed to do is still allowed.
MayStill(o) ==
    LET r == task[o].row IN
    /\ r \in Commissions => task[o].at = "write" /\ task[o].new \in ALLOWED_TRANSITIONS(standing[r])
    /\ r \notin Commissions => standing[r] \notin Closed

ReadsFresh == \A o \in Officers \ unsure : InFlight(o) => MayStill(o)

\* Data without a status are for a row that exists.
RowsExist == \A o \in Officers : InFlight(o) /\ task[o].new = Keep => standing[task[o].row] # "none"

StatusInv == ReachedAgrees /\ RowsExist /\ PaysApproved /\ ReadsFresh /\ StatusesSound

\* What a call has checked is what it is to write, and still bookable unless it
\* changed since.
Assigns(o) == task[o].vehicle # Keep \/ task[o].driver \notin {Keep, NoDriver}

CheckingAssigns == \A o \in Officers : task[o].at \in {"vehicle", "driver"} => Assigns(o)

VehicleChecked(o) ==
    /\ task[o].checkV \in Vehicles
    /\ task[o].vehicle # Keep => task[o].checkV = task[o].vehicle
    /\ task[o].driver # Keep => task[o].checkD = task[o].driver

ChecksHold ==
    \A o \in Officers : InFlight(o) /\ Assigns(o) =>
        /\ task[o].row \in Trips /\ VehicleChecked(o)
        /\ task[o].at \in {"driver", "write"} /\ o \notin strayed
              => fleet[task[o].checkV] \in {"available", "in_use"}
        /\ task[o].at = "write" /\ o \notin strayed /\ task[o].checkD # NoDriver
              => crew[task[o].checkD] = "active"

IInv == OfficeTypeOK /\ StatusInv /\ CheckingAssigns /\ ChecksHold

-----------------------------------------------------------------------------

\* The empty task is one.
LEMMA NoTaskType ==
    /\ NoTask \in TaskType /\ NoTask.row \in Work
    /\ NoTask.new = Keep /\ NoTask.vehicle = Keep /\ NoTask.driver = Keep
    /\ NoTask.checkV = Keep /\ NoTask.checkD = NoDriver
  <1>1. (CHOOSE r \in Work : TRUE) \in Work
    BY BackOfficeAssumption
  <1> QED
    BY <1>1 DEF NoTask, TaskType

\* At the start no call is under way.
LEMMA OfficeInitInv == OfficeInit => IInv
  <1> SUFFICES ASSUME OfficeInit PROVE IInv
    OBVIOUS
  <1>1. (CHOOSE v \in Vehicles : TRUE) \in Vehicles
    BY BackOfficeAssumption
  <1>2. OfficeTypeOK
    BY <1>1, NoTaskType DEF OfficeInit, OfficeTypeOK, VehicleStatuses
  <1>3. \A o \in Officers : task[o].at = "start"
    BY DEF OfficeInit, NoTask
  <1>4. StatusInv
    BY <1>3, BackOfficeAssumption DEF OfficeInit, StatusInv, ReachedAgrees, PaysApproved, ReadsFresh, RowsExist, InFlight, StatusesSound,
           PaidAfterApproved, FinalForGood, PaidAtAgrees, Work
  <1>5. CheckingAssigns /\ ChecksHold
    BY <1>3 DEF CheckingAssigns, ChecksHold, InFlight
  <1> QED
    BY <1>2, <1>4, <1>5 DEF IInv

-----------------------------------------------------------------------------
\* A call begins: its row is as it has read it.
LEMMA BeginStep ==
  ASSUME IInv, NEW o \in Officers, NEW where \in {"vehicle", "write"}, NEW r \in Work,
         NEW t \in TaskType, Begin(o, where, r, t),
         r \in Commissions => where = "write" /\ t.new \in ALLOWED_TRANSITIONS(standing[r]),
         r \notin Commissions => standing[r] \notin Closed,
         t.new = Keep => standing[r] # "none",
         where = "vehicle" => t.vehicle # Keep \/ t.driver \notin {Keep, NoDriver},
         t.vehicle # Keep \/ t.driver \notin {Keep, NoDriver} =>
             /\ r \in Trips /\ where = "vehicle" /\ t.checkV \in Vehicles
             /\ t.vehicle # Keep => t.checkV = t.vehicle
             /\ t.driver # Keep => t.checkD = t.driver
  PROVE  IInv'
  <1> DEFINE n == [t EXCEPT !.at = where, !.row = r]
  <1>1. /\ n \in TaskType /\ n.at = where /\ n.row = r /\ n.new = t.new /\ n.vehicle = t.vehicle
        /\ n.driver = t.driver /\ n.checkV = t.checkV /\ n.checkD = t.checkD
    BY DEF TaskType
  <1>2. /\ task' = [task EXCEPT ![o] = n]
        /\ UNCHANGED <<standing, paidAt, vehicleOf, driverOf, fleet, crew, reached, unsure, strayed, overwrote>>
    BY DEF Begin, fleetVars, historyVars
  <1> HIDE DEF n
  <1>3. OfficeTypeOK'
    BY <1>1, <1>2 DEF IInv, OfficeTypeOK
  <1>4. \A p \in Officers : task'[p] = IF p = o THEN n ELSE task[p]
    BY <1>2 DEF IInv, OfficeTypeOK
  <1>9. CheckingAssigns' /\ RowsExist'
    BY <1>1, <1>2, <1>4 DEF IInv, StatusInv, CheckingAssigns, Assigns, RowsExist, InFlight
  <1>5. ReachedAgrees' /\ StatusesSound'
    BY <1>2 DEF IInv, StatusInv, ReachedAgrees, StatusesSound, PaidAfterApproved, FinalForGood, PaidAtAgrees
  <1>6. PaysApproved'
    <2> SUFFICES ASSUME NEW p \in Officers, task'[p].at = "write", task'[p].row \in Commissions
                 PROVE  /\ task'[p].new \in {"approved", "paid", "cancelled"}
                        /\ task'[p].new = "paid" => "approved" \in reached[task'[p].row]
      BY <1>2 DEF PaysApproved
    <2>1. CASE p # o
      BY <2>1, <1>4 DEF IInv, StatusInv, PaysApproved
    <2>2. CASE p = o
      <3>1. r \in Commissions
        BY <2>2, <1>4, <1>1
      <3>2. /\ t.new \in {"approved", "paid", "cancelled"}
            /\ t.new = "paid" => standing[r] = "approved"
        BY <3>1 DEF ALLOWED_TRANSITIONS
      <3> QED
        BY <3>1, <3>2, <2>2, <1>4, <1>1 DEF IInv, StatusInv, ReachedAgrees
    <2> QED
      BY <2>1, <2>2
  <1>7. ReadsFresh'
    <2> SUFFICES ASSUME NEW p \in Officers \ unsure, InFlight(p)' PROVE MayStill(p)'
      BY <1>2 DEF ReadsFresh
    <2>1. CASE p # o
      BY <2>1, <1>2, <1>4 DEF IInv, StatusInv, ReadsFresh, InFlight, MayStill
    <2>2. CASE p = o
      BY <2>2, <1>1, <1>2, <1>4 DEF MayStill
    <2> QED
      BY <2>1, <2>2
  <1>8. ChecksHold'
    <2> SUFFICES ASSUME NEW p \in Officers, InFlight(p)', Assigns(p)'
                 PROVE  /\ task'[p].row \in Trips /\ VehicleChecked(p)'
                        /\ task'[p].at \in {"driver", "write"} /\ p \notin strayed
                              => fleet[task'[p].checkV] \in {"available", "in_use"}
                        /\ task'[p].at = "write" /\ p \notin strayed /\ task'[p].checkD # NoDriver
                              => crew[task'[p].checkD] = "active"
      BY <1>2 DEF ChecksHold
    <2>1. CASE p # o
      BY <2>1, <1>4 DEF IInv, ChecksHold, InFlight, Assigns, VehicleChecked
    <2>2. CASE p = o
      BY <2>2, <1>1, <1>4 DEF Assigns, VehicleChecked
    <2> QED
      BY <2>1, <2>2
  <1> QED
    BY <1>3, <1>5, <1>6, <1>7, <1>8, <1>9 DEF IInv, StatusInv

\* A call writes its row with the status new, and is done.
LEMMA WrittenStep ==
  ASSUME IInv, NEW o \in Officers, NEW new \in Statuses, task[o].at = "write",
         Written(o, task[o].row, new), Done(o), UNCHANGED fleetVars,
         task[o].row \in Commissions => new = task[o].new,
         vehicleOf' \in [Trips -> Vehicles], driverOf' \in [Trips -> Drivers \cup {NoDriver}],
         paidAt' = IF task[o].row \in Commissions /\ new = "paid" THEN paidAt \cup {task[o].row} ELSE paidAt
  PROVE  IInv'
  <1> DEFINE r == task[o].row
             n == [NoTask EXCEPT !.at = "done"]
  <1>1. n \in TaskType /\ n.at = "done"
    BY NoTaskType DEF TaskType
  <1>2. /\ r \in Work
        /\ task' = [task EXCEPT ![o] = n]
        /\ standing' = [standing EXCEPT ![r] = new]
        /\ reached' = [reached EXCEPT ![r] = @ \cup {new}]
        /\ unsure' = (unsure \ {o}) \cup {p \in Officers \ {o} : InFlight(p) /\ task[p].row = r}
        /\ overwrote' = IF o \in unsure THEN overwrote \cup {r} ELSE overwrote
        /\ strayed' = strayed \ {o}
        /\ fleet' = fleet /\ crew' = crew
    BY DEF IInv, OfficeTypeOK, TaskType, Written, Done, fleetVars
  <1> HIDE DEF n
  <1>3. OfficeTypeOK'
    BY <1>1, <1>2 DEF IInv, OfficeTypeOK
  <1>4. /\ \A p \in Officers : task'[p] = IF p = o THEN n ELSE task[p]
        /\ \A x \in Work : standing'[x] = IF x = r THEN new ELSE standing[x]
        /\ \A x \in Work : reached'[x] = IF x = r THEN reached[r] \cup {new} ELSE reached[x]
    BY <1>2 DEF IInv, OfficeTypeOK
  <1>5. ReachedAgrees'
    BY <1>2, <1>4 DEF IInv, StatusInv, ReachedAgrees, Statuses
  <1>13. CheckingAssigns' /\ RowsExist'
    BY <1>1, <1>2, <1>4 DEF IInv, StatusInv, OfficeTypeOK, TaskType, CheckingAssigns, Assigns, RowsExist, InFlight, Statuses
  <1>6. PaysApproved'
    <2> SUFFICES ASSUME NEW p \in Officers, task'[p].at = "write", task'[p].row \in Commissions
                 PROVE  /\ task'[p].new \in {"approved", "paid", "cancelled"}
                        /\ task'[p].new = "paid" => "approved" \in reached'[task'[p].row]
      BY DEF PaysApproved
    <2>1. p # o /\ task'[p] = task[p]
      BY <1>1, <1>4
    <2>2. /\ task[p].row \in Work /\ task[p].new \in {"approved", "paid", "cancelled"}
          /\ task[p].new = "paid" => "approved" \in reached[task[p].row]
      BY <2>1 DEF IInv, StatusInv, PaysApproved, Work
    <2> QED
      BY <2>1, <2>2, <1>4
  <1>7. ReadsFresh'
    <2> SUFFICES ASSUME NEW p \in Officers \ unsure', InFlight(p)' PROVE MayStill(p)'
      BY DEF ReadsFresh
    <2>1. p # o /\ task'[p] = task[p] /\ InFlight(p)
      BY <1>1, <1>4 DEF InFlight
    <2>2. p \notin unsure /\ task[p].row # r
      BY <2>1, <1>2
    <2>3. MayStill(p) /\ task[p].row \in Work
      BY <2>1, <2>2 DEF IInv, StatusInv, ReadsFresh, OfficeTypeOK, TaskType
    <2>4. standing'[task[p].row] = standing[task[p].row]
      BY <2>2, <2>3, <1>4
    <2> QED
      BY <2>1, <2>3, <2>4 DEF MayStill
  <1>8. ChecksHold'
    <2> SUFFICES ASSUME NEW p \in Officers, InFlight(p)', Assigns(p)'
                 PROVE  /\ task'[p].row \in Trips /\ VehicleChecked(p)'
                        /\ task'[p].at \in {"driver", "write"} /\ p \notin strayed'
                              => fleet'[task'[p].checkV] \in {"available", "in_use"}
                        /\ task'[p].at = "write" /\ p \notin strayed' /\ task'[p].checkD # NoDriver
                              => crew'[task'[p].checkD] = "active"
      BY DEF ChecksHold
    <2>1. p # o /\ task'[p] = task[p]
      BY <1>1, <1>4 DEF InFlight
    <2> QED
      BY <2>1, <1>2 DEF IInv, ChecksHold, InFlight, Assigns, VehicleChecked
  <1>9. o \notin unsure => MayStill(o)
    BY DEF IInv, StatusInv, ReadsFresh, InFlight
  <1>10. PaidAfterApproved'
    <2> SUFFICES ASSUME NEW c \in Commissions, "paid" \in reached'[c] PROVE "approved" \in reached'[c]
      BY DEF PaidAfterApproved
    <2>1. c \in Work
      BY DEF Work
    <2>2. CASE "paid" \in reached[c]
      BY <2>1, <2>2, <1>4 DEF IInv, StatusInv, StatusesSound, PaidAfterApproved
    <2>3. CASE c = r /\ new = "paid"
      BY <2>1, <2>3, <1>4 DEF IInv, StatusInv, PaysApproved
    <2> QED
      BY <2>1, <2>2, <2>3, <1>4
  <1>11. FinalForGood'
    <2> SUFFICES ASSUME NEW x \in Work \ overwrote', NEW s \in reached'[x] \cap Final(x) PROVE standing'[x] = s
      BY DEF FinalForGood, Final
    <2>1. x \notin overwrote
      BY <1>2
    <2>2. CASE x # r
      BY <2>1, <2>2, <1>4 DEF IInv, StatusInv, StatusesSound, FinalForGood
    <2>3. CASE x = r
      <3>1. MayStill(o)
        BY <2>3, <1>2, <1>9
      <3>2. standing[r] \notin Final(r)
        BY <3>1 DEF MayStill, Final, ALLOWED_TRANSITIONS, Closed
      <3>3. reached[r] \cap Final(r) = {}
        BY <3>2, <2>1, <2>3 DEF IInv, StatusInv, StatusesSound, FinalForGood
      <3> QED
        BY <3>3, <2>3, <1>4
    <2> QED
      BY <2>2, <2>3
  <1>12. PaidAtAgrees'
    <2> SUFFICES ASSUME NEW c \in Commissions
                 PROVE  /\ standing'[c] = "paid" => c \in paidAt'
                        /\ c \in paidAt' /\ c \notin overwrote' => standing'[c] = "paid"
      BY DEF PaidAtAgrees
    <2>1. c \in Work /\ c \notin Tours /\ c \notin Trips
      BY BackOfficeAssumption DEF Work
    <2>2. CASE c # r
      BY <2>1, <2>2, <1>2, <1>4 DEF IInv, StatusInv, StatusesSound, PaidAtAgrees
    <2>3. CASE c = r /\ new = "paid"
      BY <2>1, <2>3, <1>4
    <2>4. CASE c = r /\ new # "paid"
      <3>1. ASSUME c \in paidAt, c \notin overwrote' PROVE FALSE
        <4>1. MayStill(o) /\ c \notin overwrote
          BY <3>1, <2>4, <1>2, <1>9
        <4>2. standing[c] = "paid"
          BY <4>1, <3>1 DEF IInv, StatusInv, StatusesSound, PaidAtAgrees
        <4> QED
          BY <4>1, <4>2, <2>4 DEF MayStill, ALLOWED_TRANSITIONS
      <3> QED
        BY <3>1, <2>1, <2>4, <1>4
    <2> QED
      BY <2>2, <2>3, <2>4
  <1> QED
    BY <1>3, <1>5, <1>6, <1>7, <1>8, <1>10, <1>11, <1>12, <1>13 DEF IInv, StatusInv, StatusesSound

\* A row is inserted by a call of its own.
LEMMA InsertedStep ==
  ASSUME IInv, NEW r \in Work, Inserted(r, "pending"),
         UNCHANGED <<paidAt, vehicleOf, driverOf, fleetVars, task, unsure, strayed, overwrote>>,
         r \in Commissions \cup Tours
  PROVE  IInv'
  <1>1. /\ standing[r] = "none" /\ reached[r] = {}
        /\ standing' = [standing EXCEPT ![r] = "pending"]
        /\ reached' = [reached EXCEPT ![r] = {"pending"}]
    BY DEF Inserted, IInv, StatusInv, ReachedAgrees
  <1>2. OfficeTypeOK'
    BY <1>1 DEF IInv, OfficeTypeOK, Statuses, fleetVars
  <1>3. /\ \A x \in Work : standing'[x] = IF x = r THEN "pending" ELSE standing[x]
        /\ \A x \in Work : reached'[x] = IF x = r THEN {"pending"} ELSE reached[x]
    BY <1>1 DEF IInv, OfficeTypeOK
  <1>4. ReachedAgrees'
    BY <1>3 DEF IInv, StatusInv, ReachedAgrees
  <1>5. PaysApproved'
    BY <1>1, <1>3 DEF IInv, StatusInv, PaysApproved, Work
  <1>6. ReadsFresh'
    <2> SUFFICES ASSUME NEW o \in Officers \ unsure, InFlight(o) PROVE MayStill(o)'
      BY DEF ReadsFresh, InFlight
    <2>1. MayStill(o) /\ task[o].row \in Work
      BY DEF IInv, StatusInv, ReadsFresh, OfficeTypeOK, TaskType
    <2>2. CASE task[o].row # r
      BY <2>1, <2>2, <1>3 DEF MayStill
    <2>3. CASE task[o].row = r
      BY <2>1, <2>3, <1>1, <1>3 DEF MayStill, ALLOWED_TRANSITIONS, Closed
    <2> QED
      BY <2>2, <2>3
  <1>7. StatusesSound'
    BY <1>1, <1>3 DEF IInv, StatusInv, StatusesSound, PaidAfterApproved, FinalForGood, PaidAtAgrees, Final, Work
  <1>8. ChecksHold' /\ CheckingAssigns'
    BY DEF IInv, ChecksHold, CheckingAssigns, InFlight, Assigns, VehicleChecked, fleetVars
  <1>9. RowsExist'
    BY <1>3 DEF IInv, StatusInv, RowsExist, InFlight, OfficeTypeOK, TaskType
  <1> QED
    BY <1>9, <1>2, <1>4, <1>5, <1>6, <1>7, <1>8 DEF IInv, StatusInv

\* A check goes well or ends the call.
LEMMA CheckStep ==
  ASSUME IInv, NEW o \in Officers, NEW from \in {"vehicle", "driver"}, NEW ok \in BOOLEAN,
         NEW to \in {"driver", "write"}, Check(o, from, ok, to),
         from = "vehicle" /\ ok /\ task[o].checkV \in Vehicles => fleet[task[o].checkV] \in {"available", "in_use"},
         from = "driver" => to = "write",
         to = "write" /\ ok /\ task[o].checkD # NoDriver => crew[task[o].checkD] = "active"
  PROVE  IInv'
  <1> DEFINE n == IF ok THEN [task[o] EXCEPT !.at = to] ELSE [NoTask EXCEPT !.at = "refused"]
  <1>1. task[o] \in TaskType
    BY DEF IInv, OfficeTypeOK
  <1>2. CASE ok
    <2> DEFINE m == [task[o] EXCEPT !.at = to]
    <2>1. /\ m \in TaskType /\ m.at = to /\ m.row = task[o].row /\ m.new = task[o].new
          /\ m.vehicle = task[o].vehicle /\ m.driver = task[o].driver
          /\ m.checkV = task[o].checkV /\ m.checkD = task[o].checkD
      BY <1>1 DEF TaskType
    <2>2. /\ task' = [task EXCEPT ![o] = m] /\ task[o].at = from
          /\ UNCHANGED <<standing, paidAt, vehicleOf, driverOf, fleet, crew, reached, overwrote, unsure, strayed>>
      BY <1>2 DEF Check, fleetVars
    <2> HIDE DEF m
    <2>3. \A p \in Officers : task'[p] = IF p = o THEN m ELSE task[p]
      BY <2>2 DEF IInv, OfficeTypeOK
    <2>4. OfficeTypeOK'
      BY <2>1, <2>2 DEF IInv, OfficeTypeOK
    <2>5. Assigns(o) /\ task[o].row \notin Commissions
      BY <2>2, BackOfficeAssumption DEF IInv, CheckingAssigns, ChecksHold, InFlight
    <2>6. PaysApproved'
      BY <2>1, <2>2, <2>3, <2>5 DEF IInv, StatusInv, PaysApproved
    <2>10. CheckingAssigns' /\ RowsExist'
      BY <2>1, <2>2, <2>3 DEF IInv, StatusInv, CheckingAssigns, Assigns, RowsExist, InFlight
    <2>7. ReadsFresh'
      <3> SUFFICES ASSUME NEW p \in Officers \ unsure, InFlight(p)' PROVE MayStill(p)'
        BY <2>2 DEF ReadsFresh
      <3>1. CASE p # o
        BY <3>1, <2>2, <2>3 DEF IInv, StatusInv, ReadsFresh, InFlight, MayStill
      <3>2. CASE p = o
        BY <3>2, <2>1, <2>2, <2>3, <2>5 DEF IInv, StatusInv, ReadsFresh, InFlight, MayStill
      <3> QED
        BY <3>1, <3>2
    <2>8. ChecksHold'
      <3> SUFFICES ASSUME NEW p \in Officers, InFlight(p)', Assigns(p)'
                   PROVE  /\ task'[p].row \in Trips /\ VehicleChecked(p)'
                          /\ task'[p].at \in {"driver", "write"} /\ p \notin strayed
                                => fleet[task'[p].checkV] \in {"available", "in_use"}
                          /\ task'[p].at = "write" /\ p \notin strayed /\ task'[p].checkD # NoDriver
                                => crew[task'[p].checkD] = "active"
        BY <2>2 DEF ChecksHold
      <3>1. CASE p # o
        BY <3>1, <2>3 DEF IInv, ChecksHold, InFlight, Assigns, VehicleChecked
      <3>2. CASE p = o
        <4>1. InFlight(o) /\ Assigns(o)
          BY <3>2, <2>1, <2>2, <2>3 DEF InFlight, Assigns
        <4>2. /\ task[o].row \in Trips /\ VehicleChecked(o)
              /\ from = "driver" /\ o \notin strayed => fleet[task[o].checkV] \in {"available", "in_use"}
          BY <4>1, <2>2 DEF IInv, ChecksHold
        <4>3. o \notin strayed => fleet[task[o].checkV] \in {"available", "in_use"}
          BY <4>2, <1>2 DEF VehicleChecked
        <4> QED
          BY <4>2, <4>3, <3>2, <2>1, <2>3, <1>2 DEF VehicleChecked
      <3> QED
        BY <3>1, <3>2
    <2>9. ReachedAgrees' /\ StatusesSound'
      BY <2>2 DEF IInv, StatusInv, ReachedAgrees, StatusesSound, PaidAfterApproved, FinalForGood, PaidAtAgrees
    <2> QED
      BY <2>4, <2>6, <2>7, <2>8, <2>9, <2>10 DEF IInv, StatusInv
  <1>3. CASE ~ok
    <2> DEFINE m == [NoTask EXCEPT !.at = "refused"]
    <2>1. m \in TaskType /\ m.at = "refused"
      BY NoTaskType DEF TaskType
    <2>2. /\ task' = [task EXCEPT ![o] = m]
          /\ unsure' = unsure \ {o} /\ strayed' = strayed \ {o}
          /\ UNCHANGED <<standing, paidAt, vehicleOf, driverOf, fleet, crew, reached, overwrote>>
      BY <1>3 DEF Check, fleetVars
    <2> HIDE DEF m
    <2>3. \A p \in Officers : task'[p] = IF p = o THEN m ELSE task[p]
      BY <2>2 DEF IInv, OfficeTypeOK
    <2>4. OfficeTypeOK'
      BY <2>1, <2>2 DEF IInv, OfficeTypeOK
    <2>5. PaysApproved'
      BY <2>1, <2>2, <2>3 DEF IInv, StatusInv, PaysApproved
    <2>6. ReadsFresh'
      <3> SUFFICES ASSUME NEW p \in Officers \ unsure', InFlight(p)' PROVE MayStill(p)'
        BY DEF ReadsFresh
      <3>1. p # o /\ p \notin unsure /\ task'[p] = task[p]
        BY <2>1, <2>2, <2>3 DEF InFlight
      <3> QED
        BY <3>1, <2>2 DEF IInv, StatusInv, ReadsFresh, InFlight, MayStill
    <2>7. ChecksHold'
      <3> SUFFICES ASSUME NEW p \in Officers, InFlight(p)', Assigns(p)'
                   PROVE  /\ task'[p].row \in Trips /\ VehicleChecked(p)'
                          /\ task'[p].at \in {"driver", "write"} /\ p \notin strayed'
                                => fleet[task'[p].checkV] \in {"available", "in_use"}
                          /\ task'[p].at = "write" /\ p \notin strayed' /\ task'[p].checkD # NoDriver
                                => crew[task'[p].checkD] = "active"
        BY <2>2 DEF ChecksHold
      <3>1. p # o /\ task'[p] = task[p]
        BY <2>1, <2>3 DEF InFlight
      <3> QED
        BY <3>1, <2>2 DEF IInv, ChecksHold, InFlight, Assigns, VehicleChecked
    <2>9. CheckingAssigns' /\ RowsExist'
      BY <2>1, <2>2, <2>3 DEF IInv, StatusInv, CheckingAssigns, Assigns, RowsExist, InFlight
    <2>8. ReachedAgrees' /\ StatusesSound'
      BY <2>2 DEF IInv, StatusInv, ReachedAgrees, StatusesSound, PaidAfterApproved, FinalForGood, PaidAtAgrees
    <2> QED
      BY <2>4, <2>5, <2>6, <2>7, <2>8, <2>9 DEF IInv, StatusInv
  <1> QED
    BY <1>2, <1>3

\* A vehicle's or a driver's status changes.
LEMMA FleetStep ==
  ASSUME IInv, fleet' \in [Vehicles -> VehicleStatuses \cup {"deleted"}], crew' \in [Drivers -> {"active", "inactive"}],
         UNCHANGED <<standing, paidAt, vehicleOf, driverOf, task, reached, unsure, overwrote>>,
         strayed \subseteq strayed',
         \A p \in Officers \ strayed' :
             /\ task[p].at \in {"driver", "write"} /\ task[p].checkV \in Vehicles => fleet'[task[p].checkV] = fleet[task[p].checkV]
             /\ task[p].at = "write" /\ task[p].checkD \in Drivers => crew'[task[p].checkD] = crew[task[p].checkD]
  PROVE  IInv'
  <1>1. OfficeTypeOK'
    BY DEF IInv, OfficeTypeOK
  <1>2. StatusInv'
    BY DEF IInv, StatusInv, ReachedAgrees, RowsExist, PaysApproved, ReadsFresh, InFlight, MayStill, StatusesSound,
           PaidAfterApproved, FinalForGood, PaidAtAgrees
  <1>3. CheckingAssigns'
    BY DEF IInv, CheckingAssigns, Assigns
  <1>4. ChecksHold'
    <2> SUFFICES ASSUME NEW p \in Officers, InFlight(p), Assigns(p)
                 PROVE  /\ task[p].row \in Trips /\ VehicleChecked(p)
                        /\ task[p].at \in {"driver", "write"} /\ p \notin strayed'
                              => fleet'[task[p].checkV] \in {"available", "in_use"}
                        /\ task[p].at = "write" /\ p \notin strayed' /\ task[p].checkD # NoDriver
                              => crew'[task[p].checkD] = "active"
      BY DEF ChecksHold, InFlight, Assigns, VehicleChecked
    <2>1. task[p].checkD \in Drivers \cup {NoDriver}
      BY DEF IInv, OfficeTypeOK, TaskType
    <2>2. task[p].checkV \in Vehicles
      BY DEF IInv, ChecksHold, VehicleChecked
    <2> QED
      BY <2>1, <2>2 DEF IInv, ChecksHold
  <1> QED
    BY <1>1, <1>2, <1>3, <1>4 DEF IInv

-----------------------------------------------------------------------------

\* The statuses that calls write.
LEMMA ToStatusType ==
  ASSUME NEW new \in Statuses
  PROVE  /\ ToStatus(new) \in TaskType /\ ToStatus(new).new = new
         /\ ToStatus(new).vehicle = Keep /\ ToStatus(new).driver = Keep
  BY NoTaskType DEF ToStatus, TaskType

\* The data of a trip, with the vehicle and the driver that are checked for it.
TripData(new, v, d, cV, cD) ==
    [NoTask EXCEPT !.new = new, !.vehicle = v, !.driver = d, !.checkV = cV, !.checkD = cD]

\* What data may name, and what is checked then.
DataStatuses == TripStatuses \cup {Keep}
DataVehicles == Vehicles \cup {Keep}
DataDrivers  == Drivers \cup {NoDriver, Keep}
CheckDrivers == Drivers \cup {NoDriver}

\* What a call writes of a trip.
LEMMA TripDataType ==
  \A new \in DataStatuses, v \in DataVehicles, d \in DataDrivers, cV \in Vehicles, cD \in CheckDrivers :
        LET t == TripData(new, v, d, cV, cD) IN
        t \in TaskType /\ t.new = new /\ t.vehicle = v /\ t.driver = d /\ t.checkV = cV /\ t.checkD = cD
  <1> TAKE new \in DataStatuses, v \in DataVehicles, d \in DataDrivers, cV \in Vehicles, cD \in CheckDrivers
  <1> new \in Statuses \cup {Keep}
    BY BackOfficeAssumption DEF Statuses, DataStatuses
  <1> QED
    BY NoTaskType DEF TaskType, TripData, DataVehicles, DataDrivers, CheckDrivers

\* The steps of commissions.
LEMMA OfficeCommission == IInv /\ CommissionNext => IInv'
  <1> SUFFICES ASSUME IInv, CommissionNext PROVE IInv'
    OBVIOUS
  <1>1. ASSUME NEW c \in Commissions, createCommission(c) PROVE IInv'
    BY <1>1, InsertedStep DEF createCommission, Work
  <1>2. ASSUME NEW o \in Officers, NEW c \in Commissions, NEW new \in {"approved", "paid", "cancelled"},
               readCommission(o, c, new)
        PROVE  IInv'
    <2>1. /\ new \in ALLOWED_TRANSITIONS(standing[c]) /\ Begin(o, "write", c, ToStatus(new))
          /\ new \in Statuses /\ c \in Work
      BY <1>2 DEF readCommission, Statuses, Work
    <2>2. standing[c] # "none"
      BY <2>1 DEF ALLOWED_TRANSITIONS
    <2> QED
      BY <1>2, <2>1, <2>2, ToStatusType, BeginStep
  <1>3. ASSUME NEW o \in Officers, updateCommissionStatus(o) PROVE IInv'
    <2>1. /\ task[o].at = "write" /\ task[o].row \in Commissions
          /\ Written(o, task[o].row, task[o].new) /\ Done(o)
          /\ UNCHANGED <<vehicleOf, driverOf, fleetVars>>
          /\ paidAt' = IF task[o].new = "paid" THEN paidAt \cup {task[o].row} ELSE paidAt
      BY <1>3 DEF updateCommissionStatus, Ready
    <2>2. task[o].new \in Statuses
      BY <2>1 DEF IInv, StatusInv, PaysApproved, Statuses
    <2> QED
      BY <2>1, <2>2, WrittenStep DEF IInv, OfficeTypeOK
  <1> QED
    BY <1>1, <1>2, <1>3 DEF CommissionNext

\* The steps of tour bookings.
LEMMA OfficeTour == IInv /\ TourNext => IInv'
  <1> SUFFICES ASSUME IInv, TourNext PROVE IInv'
    OBVIOUS
  <1>1. ASSUME NEW t \in Tours, createTourBooking(t) PROVE IInv'
    BY <1>1, InsertedStep DEF createTourBooking, Work
  <1>2. ASSUME NEW o \in Officers, NEW t \in Tours, readTourBooking(o, t) PROVE IInv'
    <2>1. /\ standing[t] \notin Closed \cup {"none"} /\ Begin(o, "write", t, ToStatus("cancelled"))
          /\ "cancelled" \in Statuses /\ t \in Work /\ t \notin Commissions
      BY <1>2, BackOfficeAssumption DEF readTourBooking, Statuses, Work
    <2> QED
      BY <1>2, <2>1, ToStatusType, BeginStep
  <1>3. ASSUME NEW o \in Officers, cancelTourBooking(o) PROVE IInv'
    <2>1. /\ task[o].at = "write" /\ task[o].row \notin Commissions /\ "cancelled" \in Statuses
          /\ Written(o, task[o].row, "cancelled") /\ Done(o)
          /\ UNCHANGED <<paidAt, vehicleOf, driverOf, fleetVars>>
      BY <1>3, BackOfficeAssumption DEF cancelTourBooking, Ready, Statuses
    <2> QED
      BY <2>1, WrittenStep DEF IInv, OfficeTypeOK
  <1> QED
    BY <1>1, <1>2, <1>3 DEF TourNext

\* The steps of trips, with their checks, and of the fleet.
LEMMA OfficeTrip == IInv /\ TripNext => IInv'
  <1> SUFFICES ASSUME IInv, TripNext PROVE IInv'
    OBVIOUS
  <1>1. ASSUME NEW o \in Officers, NEW x \in Trips, NEW v \in Vehicles, NEW d \in Drivers \cup {NoDriver},
               NEW new \in TripStatuses, createTrip(o, x, new, v, d)
        PROVE  IInv'
    <2> DEFINE t == TripData(new, v, d, v, d)
    <2>1. /\ t \in TaskType /\ t.new = new /\ t.vehicle = v /\ t.driver = d /\ t.checkV = v /\ t.checkD = d
      <3>1. new \in DataStatuses /\ v \in DataVehicles /\ d \in DataDrivers /\ d \in CheckDrivers
        BY DEF DataStatuses, DataVehicles, DataDrivers, CheckDrivers
      <3> QED
        BY <3>1, TripDataType
    <2>2. /\ standing[x] = "none" /\ Begin(o, "vehicle", x, t) /\ x \in Work /\ x \notin Commissions
          /\ new # Keep /\ v # Keep
      BY <1>1, BackOfficeAssumption DEF createTrip, TripData, Work
    <2> HIDE DEF t
    <2> QED
      BY <1>1, <2>1, <2>2, BeginStep DEF Closed
  <1>2. ASSUME NEW o \in Officers, NEW x \in Trips, NEW v \in Vehicles \cup {Keep},
               NEW d \in Drivers \cup {NoDriver, Keep}, NEW new \in TripStatuses \cup {Keep}, updateTrip(o, x, new, v, d)
        PROVE  IInv'
    <2>1. PICK cV \in Vehicles, cD \in Drivers \cup {NoDriver} :
              /\ cV = IF v = Keep THEN vehicleOf[x] ELSE v
              /\ cD = IF d = Keep THEN driverOf[x] ELSE d
      BY DEF IInv, OfficeTypeOK
    <2> DEFINE t == TripData(new, v, d, cV, cD)
               where == IF v = Keep /\ d \in {Keep, NoDriver} THEN "write" ELSE "vehicle"
    <2>2. /\ t \in TaskType /\ t.new = new /\ t.vehicle = v /\ t.driver = d /\ t.checkV = cV /\ t.checkD = cD
      <3>1. new \in DataStatuses /\ v \in DataVehicles /\ d \in DataDrivers /\ cV \in Vehicles /\ cD \in CheckDrivers
        BY <2>1 DEF DataStatuses, DataVehicles, DataDrivers, CheckDrivers
      <3> QED
        BY <3>1, TripDataType
    <2>3. /\ standing[x] \notin Closed \cup {"none"} /\ Begin(o, where, x, t) /\ x \in Work /\ x \notin Commissions
      BY <1>2, <2>1, BackOfficeAssumption DEF updateTrip, TripData, Work
    <2>4. /\ v # Keep => cV = v
          /\ d # Keep => cD = d
          /\ where \in {"vehicle", "write"}
          /\ where = "vehicle" <=> v # Keep \/ d \notin {Keep, NoDriver}
      BY <2>1
    <2> HIDE DEF t, where
    <2> QED
      BY <1>2, <2>2, <2>3, <2>4, BeginStep
  <1>3. ASSUME NEW o \in Officers, NEW x \in Trips, cancelTrip(o, x) PROVE IInv'
    <2>1. /\ standing[x] \notin Closed \cup {"none"} /\ Begin(o, "write", x, ToStatus("cancelled"))
          /\ "cancelled" \in Statuses /\ x \in Work /\ x \notin Commissions
      BY <1>3, BackOfficeAssumption DEF cancelTrip, Statuses, Work
    <2> QED
      BY <1>3, <2>1, ToStatusType, BeginStep
  <1>4. ASSUME NEW o \in Officers, assertVehicleBookable(o) PROVE IInv'
    <2> DEFINE ok == BookableVehicle(task[o].checkV)
               to == IF task[o].checkD = NoDriver THEN "write" ELSE "driver"
    <2>1. Check(o, "vehicle", ok, to) /\ ok \in BOOLEAN /\ to \in {"driver", "write"}
      BY <1>4 DEF assertVehicleBookable, BookableVehicle
    <2>2. ok /\ task[o].checkV \in Vehicles => fleet[task[o].checkV] \in {"available", "in_use"}
      BY DEF BookableVehicle, IInv, OfficeTypeOK, VehicleStatuses
    <2>3. to = "write" => task[o].checkD = NoDriver
      OBVIOUS
    <2> HIDE DEF ok, to
    <2> QED
      BY <1>4, <2>1, <2>2, <2>3, CheckStep
  <1>5. ASSUME NEW o \in Officers, assertDriverBookable(o) PROVE IInv'
    <2> DEFINE ok == BookableDriver(task[o].checkD)
    <2>1. Check(o, "driver", ok, "write") /\ ok \in BOOLEAN
      BY <1>5 DEF assertDriverBookable, BookableDriver
    <2>2. ok /\ task[o].checkD # NoDriver => crew[task[o].checkD] = "active"
      BY DEF BookableDriver
    <2> HIDE DEF ok
    <2> QED
      BY <1>5, <2>1, <2>2, CheckStep
  <1>6. ASSUME NEW o \in Officers, writeTrip(o) PROVE IInv'
    <2> DEFINE x == task[o].row
               new == Given(task[o].new, standing[x])
    <2>1. /\ task[o].at = "write" /\ x \in Trips /\ x \in Work /\ x \notin Commissions
          /\ Written(o, x, new) /\ Done(o)
          /\ vehicleOf' = [vehicleOf EXCEPT ![x] = Given(task[o].vehicle, vehicleOf[x])]
          /\ driverOf' = [driverOf EXCEPT ![x] = Given(task[o].driver, driverOf[x])]
          /\ UNCHANGED <<paidAt, fleetVars>>
      BY <1>6, BackOfficeAssumption DEF writeTrip, Ready, Work
    <2>2. task[o] \in TaskType
      BY DEF IInv, OfficeTypeOK
    <2>3. new \in Statuses
      BY <2>1, <2>2 DEF Given, IInv, OfficeTypeOK, StatusInv, RowsExist, InFlight, TaskType
    <2>4. vehicleOf' \in [Trips -> Vehicles] /\ driverOf' \in [Trips -> Drivers \cup {NoDriver}]
      BY <2>1, <2>2 DEF Given, IInv, OfficeTypeOK, TaskType
    <2> HIDE DEF new
    <2> QED
      BY <2>1, <2>3, <2>4, WrittenStep
  <1>7. ASSUME NEW v \in Vehicles, NEW new \in VehicleStatuses \cup {"deleted"}, setVehicle(v, new) PROVE IInv'
    BY <1>7, FleetStep DEF setVehicle, IInv, OfficeTypeOK
  <1>8. ASSUME NEW d \in Drivers, NEW new \in {"active", "inactive"}, setDriver(d, new) PROVE IInv'
    BY <1>8, FleetStep DEF setDriver, IInv, OfficeTypeOK
  <1> QED
    BY <1>1, <1>2, <1>3, <1>4, <1>5, <1>6, <1>7, <1>8 DEF TripNext

\* Every step preserves the invariant.
LEMMA OfficeStep == IInv /\ [OfficeNext]_officeVars => IInv'
  <1>1. IInv /\ UNCHANGED officeVars => IInv'
    BY DEF officeVars, fleetVars, historyVars, IInv, OfficeTypeOK, StatusInv, ReachedAgrees, RowsExist, PaysApproved,
           ReadsFresh, InFlight, MayStill, StatusesSound, PaidAfterApproved, FinalForGood, PaidAtAgrees,
           CheckingAssigns, ChecksHold, Assigns, VehicleChecked
  <1> QED
    BY <1>1, OfficeCommission, OfficeTour, OfficeTrip DEF OfficeNext

\* For any number of calls on any rows, what was paid, cancelled or completed stays
\* so unless a call wrote from a read that another write had overtaken; a paid
\* commission was approved before whatever the calls do (the updates of
\* commissionService, tourBookingService and transportService).
THEOREM StatusesStaySound == OfficeSpec => []StatusesSound
  <1>1. IInv => StatusesSound
    BY DEF IInv, StatusInv
  <1> QED
    BY <1>1, OfficeInitInv, OfficeStep, PTL DEF OfficeSpec

\* The write of a trip whose vehicle and driver did not change since their check
\* gives it a bookable vehicle and an active driver (assertVehicleAndDriverBookable
\* and the writes after it).
THEOREM TripsGivenBookable == OfficeSpec => GivenBookable
  <1> DEFINE A == \A o \in Officers :
          Ready(o, Trips) /\ task'[o].at = "done" /\ o \notin strayed =>
              /\ task[o].vehicle # Keep => fleet[vehicleOf'[task[o].row]] \in {"available", "in_use"}
              /\ task[o].driver \notin {Keep, NoDriver} =>
                    /\ fleet[task[o].checkV] \in {"available", "in_use"}
                    /\ crew[driverOf'[task[o].row]] = "active"
  <1>1. IInv /\ [OfficeNext]_officeVars => [A]_officeVars
    <2> SUFFICES ASSUME IInv, OfficeNext, NEW o \in Officers, Ready(o, Trips), task'[o].at = "done", o \notin strayed
                 PROVE  /\ task[o].vehicle # Keep => fleet[vehicleOf'[task[o].row]] \in {"available", "in_use"}
                        /\ task[o].driver \notin {Keep, NoDriver} =>
                              /\ fleet[task[o].checkV] \in {"available", "in_use"}
                              /\ crew[driverOf'[task[o].row]] = "active"
      OBVIOUS
    <2>1. task[o].at = "write" /\ task[o].row \in Trips /\ task[o] \in TaskType
      BY DEF Ready, IInv, OfficeTypeOK
    <2>2. writeTrip(o)
      <3>1. task'[o] # task[o]
        BY <2>1
      <3>2. ASSUME NEW p \in Officers, p # o, NEW t, task' = [task EXCEPT ![p] = t] PROVE FALSE
        BY <3>2, <3>1 DEF IInv, OfficeTypeOK
      <3>3. ~CommissionNext
        BY <3>1, <3>2, <2>1, BackOfficeAssumption
           DEF CommissionNext, createCommission, readCommission, updateCommissionStatus, Begin, Done, Ready
      <3>4. ~TourNext
        BY <3>1, <3>2, <2>1, BackOfficeAssumption
           DEF TourNext, createTourBooking, readTourBooking, cancelTourBooking, Begin, Done, Ready
      <3>5. ASSUME NEW p \in Officers, NEW where, NEW r, NEW t, Begin(p, where, r, t) PROVE FALSE
        <4>1. task[p].at = "start" /\ task' = [task EXCEPT ![p] = [t EXCEPT !.at = where, !.row = r]]
          BY <3>5 DEF Begin
        <4> QED
          BY <4>1, <3>2, <2>1
      <3>6. ASSUME NEW p \in Officers, NEW from \in {"vehicle", "driver"}, NEW ok, NEW to, Check(p, from, ok, to)
            PROVE  FALSE
        <4>1. /\ task[p].at = from
              /\ task' = [task EXCEPT ![p] = IF ok THEN [task[p] EXCEPT !.at = to] ELSE [NoTask EXCEPT !.at = "refused"]]
          BY <3>6 DEF Check
        <4> QED
          BY <4>1, <3>2, <2>1
      <3>7. PICK p \in Officers : writeTrip(p)
        <4>1. ASSUME NEW p \in Officers, NEW x \in Trips, NEW v, NEW d, NEW new, createTrip(p, x, new, v, d) PROVE FALSE
          BY <4>1, <3>5 DEF createTrip
        <4>2. ASSUME NEW p \in Officers, NEW x \in Trips, NEW v, NEW d, NEW new, updateTrip(p, x, new, v, d) PROVE FALSE
          BY <4>2, <3>5 DEF updateTrip
        <4>3. ASSUME NEW p \in Officers, NEW x \in Trips, cancelTrip(p, x) PROVE FALSE
          BY <4>3, <3>5 DEF cancelTrip
        <4>4. ASSUME NEW p \in Officers, assertVehicleBookable(p) \/ assertDriverBookable(p) PROVE FALSE
          BY <4>4, <3>6 DEF assertVehicleBookable, assertDriverBookable
        <4>5. ASSUME NEW v, NEW new, setVehicle(v, new) PROVE FALSE
          BY <4>5, <3>1 DEF setVehicle
        <4>6. ASSUME NEW d, NEW new, setDriver(d, new) PROVE FALSE
          BY <4>6, <3>1 DEF setDriver
        <4> QED
          BY <3>3, <3>4, <4>1, <4>2, <4>3, <4>4, <4>5, <4>6, Zenon DEF OfficeNext, TripNext
      <3> QED
        BY <3>7, <3>2 DEF writeTrip, Done
    <2>3. /\ vehicleOf'[task[o].row] = Given(task[o].vehicle, vehicleOf[task[o].row])
          /\ driverOf'[task[o].row] = Given(task[o].driver, driverOf[task[o].row])
      BY <2>1, <2>2 DEF writeTrip, IInv, OfficeTypeOK
    <2> QED
      BY <2>1, <2>3 DEF Given, IInv, ChecksHold, InFlight, Assigns, VehicleChecked
  <1> QED
    BY <1>1, OfficeInitInv, OfficeStep, PTL DEF OfficeSpec, GivenBookable

-----------------------------------------------------------------------------
\* The inductive invariant of the catalogue

JobOps == {"none", "deletePlace", "updateTour", "deleteTour", "addDay", "replaceDays",
           "deactivate", "remove", "updateRate"}

JobType ==
    [op : JobOps, on : Places \cup Packages \cup Extras \cup Rates \cup {Unset},
     to : {Unset, "active", "inactive"}, from : Places \cup Dates \cup {Unset},
     until : Lengths \cup Dates \cup {Unset}, days : SUBSET Lengths]

TourType == [there : BOOLEAN, at : Places, active : BOOLEAN, erased : BOOLEAN, days : Lengths]

RateType == [is : {"new", "kept", "gone"}, from : Dates, until : Dates]

\* What a call works on is there, and stays there until it writes.
WorksOn(c) ==
    LET j == job[c] IN
    /\ j.op = "deletePlace" => j.on \in Places
    /\ j.op \in {"updateTour", "deleteTour", "addDay", "replaceDays"} =>
          j.on \in Packages /\ tour[j.on].there
    /\ j.op = "updateTour" => j.from \in Places \cup {Unset} /\ j.until \in Lengths \cup {Unset}
    /\ j.op \in {"deactivate", "remove"} => j.on \in Extras
    /\ j.op = "updateRate" =>
          /\ j.on \in Rates /\ rate[j.on].is # "new"
          /\ j.from \in Dates \cup {Unset} /\ j.until \in Dates \cup {Unset}

CatalogueTypeOK ==
    /\ place \in [Places -> {"none", "kept", "deleted"}]
    /\ tour \in [Packages -> TourType]
    /\ itinerary \in [Packages -> SUBSET Lengths]
    /\ shop \in [Extras -> {"none", "active", "inactive"}]
    /\ uses \subseteq Stays \X Extras
    /\ rate \in [Rates -> RateType]
    /\ job \in [Staff -> JobType]
    /\ \A c \in Staff : WorksOn(c)

\* What a call has looked at is still so, unless another write overtook it.
StillSo(c) ==
    LET j == job[c] IN
    /\ j.op = "deletePlace" =>
          \A t \in Packages : tour[t].there /\ tour[t].at = j.on => ~tour[t].active
    /\ j.op = "updateTour" => ~tour[j.on].erased
    /\ j.op = "updateRate" => MergedOrdered(j.on, j.from, j.until)

LooksHold == \A c \in Staff \ stale : StillSo(c)

\* Only a tour that is there has days, and days about to be written fit it.
DaysOfTours == \A t \in Packages : itinerary[t] # {} => tour[t].there

DaysFit(c) ==
    LET j == job[c] IN
    j.op \in {"addDay", "replaceDays"} =>
        j.on \in shortened \/ \A n \in j.days : n <= tour[j.on].days

AllDaysFit == \A c \in Staff : DaysFit(c)

CatalogueInv ==
    CatalogueTypeOK /\ LooksHold /\ DaysOfTours /\ AllDaysFit /\ CatalogueConsistent

\* A tour that was never made.
LEMMA NoTourType == NoTour \in TourType /\ ~NoTour.active /\ ~NoTour.erased /\ ~NoTour.there
BY CatalogueAssumption DEF NoTour, TourType, Lengths

\* The empty job is one.
LEMMA NoJobType == NoJob \in JobType /\ NoJob.op = "none"
BY DEF NoJob, JobType, JobOps

\* The bodies of the two kinds of step.
LEMMA CatalogueInitOK == CatalogueInit => CatalogueInv
<1> SUFFICES ASSUME CatalogueInit PROVE CatalogueInv
  OBVIOUS
<1> USE DEF CatalogueInit
<1>1. CatalogueTypeOK
  <2>1. rate \in [Rates -> RateType]
    BY CatalogueAssumption DEF RateType, Dates
  <2>2. \A c \in Staff : WorksOn(c)
    BY NoJobType DEF WorksOn
  <2> QED BY <2>1, <2>2, NoTourType, NoJobType DEF CatalogueTypeOK
<1>2. LooksHold /\ AllDaysFit
  BY NoJobType DEF LooksHold, AllDaysFit, StillSo, DaysFit
<1>3. DaysOfTours /\ DeletedToursInactive /\ ItineraryWithinTour /\ UsedServicesStay
  BY NoTourType DEF DaysOfTours, DeletedToursInactive, ItineraryWithinTour, UsedServicesStay
<1>4. RatesOrdered
  BY DEF RatesOrdered
<1> QED BY <1>1, <1>2, <1>3, <1>4 DEF CatalogueInv, CatalogueConsistent

\* A look keeps the invariant when what it read bears out the call.
LEMMA LookKeeps ==
    ASSUME CatalogueInv, NEW c \in Staff, NEW j \in JobType,
           UNCHANGED <<tourVars, shop, uses, rate, stale, spoiled>>,
           job' = [job EXCEPT ![c] = j],
           WorksOn(c)', StillSo(c)', DaysFit(c)'
    PROVE  CatalogueInv'
<1> USE DEF CatalogueInv, CatalogueTypeOK, tourVars
<1>1. \A b \in Staff \ {c} : job'[b] = job[b]
  OBVIOUS
<1>2. \A b \in Staff : WorksOn(b)'
  BY <1>1 DEF WorksOn
<1>3. CatalogueTypeOK'
  BY <1>2
<1>4. \A b \in Staff \ stale : b # c => StillSo(b)'
  BY <1>1 DEF LooksHold, StillSo, MergedOrdered
<1>5. LooksHold'
  BY <1>4 DEF LooksHold
<1>6. \A b \in Staff : DaysFit(b)'
  BY <1>1 DEF AllDaysFit, DaysFit
<1>7. DaysOfTours' /\ CatalogueConsistent'
  BY DEF DaysOfTours, CatalogueConsistent, DeletedToursInactive, ItineraryWithinTour,
         UsedServicesStay, RatesOrdered
<1> QED BY <1>3, <1>5, <1>6, <1>7 DEF AllDaysFit

\* What a write says of the calls.
LEMMA WriteMarks ==
    ASSUME CatalogueInv, NEW c \in Staff, NEW x, NEW overtakes, Write(c, x, overtakes)
    PROVE  /\ job' = [job EXCEPT ![c] = NoJob]
           /\ job' \in [Staff -> JobType]
           /\ job'[c].op = "none"
           /\ \A b \in Staff \ {c} : job'[b] = job[b]
           /\ \A b \in Staff \ stale' :
                 b # c => b \notin stale /\ job[b].on # x /\ ~overtakes[b]
           /\ \A y : y \notin spoiled' => y \notin spoiled /\ (y = x => c \notin stale)
BY NoJobType DEF Write, CatalogueInv, CatalogueTypeOK

-----------------------------------------------------------------------------
\* Destinations and tours

\* The looks.
LEMMA ToursLook ==
    ASSUME CatalogueInv, NEW c \in Staff,
           \/ \E d \in Places : deleteDestination(c, d)
           \/ \E t \in Packages, to \in {Unset, "active", "inactive"},
                 d \in Places \cup {Unset}, n \in Lengths \cup {Unset} :
                 updateTourPackage(c, t, to, d, n)
           \/ \E t \in Packages : deleteTourPackage(c, t)
           \/ \E t \in Packages, n \in Lengths : addItineraryDay(c, t, n)
           \/ \E t \in Packages, days \in SUBSET Lengths : replaceItinerary(c, t, days)
    PROVE  CatalogueInv'
<1> USE DEF CatalogueInv, CatalogueTypeOK, tourVars, Look
<1>1. ASSUME NEW d \in Places, deleteDestination(c, d) PROVE CatalogueInv'
  <2> DEFINE j == [On(d) EXCEPT !.op = "deletePlace"]
  <2>1. j \in JobType /\ j.op = "deletePlace" /\ j.on = d
    BY DEF On, NoJob, JobType, JobOps
  <2> HIDE DEF j
  <2>2. job' = [job EXCEPT ![c] = j] /\ MayDeletePlace(d)
        /\ UNCHANGED <<tourVars, shop, uses, rate, stale, spoiled>>
    BY <1>1 DEF deleteDestination, j
  <2>3. job'[c] = j
    BY <2>2
  <2>4. WorksOn(c)' /\ StillSo(c)' /\ DaysFit(c)'
    BY <2>1, <2>2, <2>3 DEF WorksOn, StillSo, DaysFit, MayDeletePlace
  <2> QED BY <2>1, <2>2, <2>4, LookKeeps
<1>2. ASSUME NEW t \in Packages, NEW to \in {Unset, "active", "inactive"},
             NEW d \in Places \cup {Unset}, NEW n \in Lengths \cup {Unset},
             updateTourPackage(c, t, to, d, n)
      PROVE  CatalogueInv'
  <2> DEFINE j == [[On(t) EXCEPT !.to = to, !.from = d, !.until = n] EXCEPT !.op = "updateTour"]
  <2>1. j \in JobType /\ j.op = "updateTour" /\ j.on = t /\ j.from = d /\ j.until = n
    BY DEF On, NoJob, JobType, JobOps
  <2> HIDE DEF j
  <2>2. job' = [job EXCEPT ![c] = j] /\ Here(t)
        /\ UNCHANGED <<tourVars, shop, uses, rate, stale, spoiled>>
    BY <1>2 DEF updateTourPackage, j
  <2>3. job'[c] = j
    BY <2>2
  <2>4. WorksOn(c)' /\ StillSo(c)' /\ DaysFit(c)'
    BY <2>1, <2>2, <2>3 DEF WorksOn, StillSo, DaysFit, Here
  <2> QED BY <2>1, <2>2, <2>4, LookKeeps
<1>3. ASSUME NEW t \in Packages, deleteTourPackage(c, t) PROVE CatalogueInv'
  <2> DEFINE j == [On(t) EXCEPT !.op = "deleteTour"]
  <2>1. j \in JobType /\ j.op = "deleteTour" /\ j.on = t
    BY DEF On, NoJob, JobType, JobOps
  <2> HIDE DEF j
  <2>2. job' = [job EXCEPT ![c] = j] /\ Here(t)
        /\ UNCHANGED <<tourVars, shop, uses, rate, stale, spoiled>>
    BY <1>3 DEF deleteTourPackage, j
  <2>3. job'[c] = j
    BY <2>2
  <2>4. WorksOn(c)' /\ StillSo(c)' /\ DaysFit(c)'
    BY <2>1, <2>2, <2>3 DEF WorksOn, StillSo, DaysFit, Here
  <2> QED BY <2>1, <2>2, <2>4, LookKeeps
<1>4. ASSUME NEW t \in Packages, NEW days \in SUBSET Lengths, NEW op \in {"addDay", "replaceDays"},
             Here(t), \A n \in days : Fits(t, n),
             Look(c, op, [On(t) EXCEPT !.days = days]),
             UNCHANGED <<tourVars, shop, uses, rate, stale, spoiled>>
      PROVE  CatalogueInv'
  <2> DEFINE j == [[On(t) EXCEPT !.days = days] EXCEPT !.op = op]
  <2>1. j \in JobType /\ j.op = op /\ j.on = t /\ j.days = days
    BY DEF On, NoJob, JobType, JobOps
  <2> HIDE DEF j
  <2>2. job' = [job EXCEPT ![c] = j]
    BY <1>4 DEF j
  <2>3. job'[c] = j
    BY <2>2
  <2>4. WorksOn(c)' /\ StillSo(c)' /\ DaysFit(c)'
    BY <1>4, <2>1, <2>3 DEF WorksOn, StillSo, DaysFit, Here, Fits
  <2> QED BY <1>4, <2>1, <2>2, <2>4, LookKeeps
<1>5. ASSUME NEW t \in Packages, NEW n \in Lengths, addItineraryDay(c, t, n)
      PROVE  CatalogueInv'
  <2>1. {n} \in SUBSET Lengths /\ \A m \in {n} : Fits(t, m)
    BY <1>5 DEF addItineraryDay
  <2> QED BY <1>4, <1>5, <2>1 DEF addItineraryDay
<1>6. ASSUME NEW t \in Packages, NEW days \in SUBSET Lengths, replaceItinerary(c, t, days)
      PROVE  CatalogueInv'
  BY <1>4, <1>6 DEF replaceItinerary
<1> QED BY <1>1, <1>2, <1>3, <1>5, <1>6

\* A new tour may overtake the deletion of its destination, and nothing else.
LEMMA CreateTourKeeps ==
    ASSUME CatalogueInv, NEW t \in Packages, NEW d \in Places, NEW n \in Lengths,
           createTourPackage(t, d, n)
    PROVE  CatalogueInv'
<1> DEFINE new == [there |-> TRUE, at |-> d, active |-> TRUE, erased |-> FALSE, days |-> n]
<1> USE DEF CatalogueInv, CatalogueTypeOK
<1>1. new \in TourType /\ new.there /\ new.at = d /\ ~new.erased
  BY DEF TourType
<1>2. /\ ~tour[t].there /\ tour' = [tour EXCEPT ![t] = new]
      /\ UNCHANGED <<place, itinerary, shortened, shop, uses, rate, job, spoiled>>
      /\ stale' = stale \cup {b \in Staff : Counted(t)[b]}
  BY DEF createTourPackage
<1> HIDE DEF new
<1>3. tour' \in [Packages -> TourType] /\ tour'[t] = new
      /\ \A u \in Packages \ {t} : tour'[u] = tour[u]
  BY <1>1, <1>2
<1>4. \A b \in Staff \ stale' : b \notin stale /\ ~(job[b].op = "deletePlace" /\ job[b].on = d)
  BY <1>1, <1>2, <1>3 DEF Counted
<1>5. \A b \in Staff : WorksOn(b)'
  BY <1>2, <1>3 DEF WorksOn
<1>6. CatalogueTypeOK'
  BY <1>2, <1>3, <1>5
<1>7. \A b \in Staff \ stale' : StillSo(b)'
  <2> SUFFICES ASSUME NEW b \in Staff, b \notin stale' PROVE StillSo(b)'
    OBVIOUS
  <2>1. b \notin stale /\ StillSo(b) /\ WorksOn(b)
    BY <1>4 DEF LooksHold
  <2>2. (job[b].op = "deletePlace" =>
           \A u \in Packages : tour[u].there /\ tour[u].at = job[b].on => ~tour[u].active)'
    BY <1>1, <1>2, <1>3, <1>4, <2>1 DEF StillSo
  <2>3. (job[b].op = "updateTour" => ~tour[job[b].on].erased)'
    BY <1>1, <1>2, <1>3, <2>1 DEF StillSo, WorksOn
  <2>4. (job[b].op = "updateRate" => MergedOrdered(job[b].on, job[b].from, job[b].until))'
    BY <1>2, <2>1 DEF StillSo, MergedOrdered
  <2> QED BY <2>2, <2>3, <2>4 DEF StillSo
<1>8. \A b \in Staff : DaysFit(b)'
  BY <1>2, <1>3 DEF AllDaysFit, DaysFit, WorksOn
<1>9. DaysOfTours' /\ ItineraryWithinTour'
  BY <1>1, <1>2, <1>3 DEF DaysOfTours, ItineraryWithinTour, CatalogueConsistent
<1>10. DeletedToursInactive' /\ UsedServicesStay' /\ RatesOrdered'
  BY <1>1, <1>2, <1>3
  DEF CatalogueConsistent, DeletedToursInactive, UsedServicesStay, RatesOrdered
<1> QED BY <1>6, <1>7, <1>8, <1>9, <1>10 DEF LooksHold, AllDaysFit, CatalogueConsistent

\* The deletion of a destination writes no tour.
LEMMA SoftDeletePlaceKeeps ==
    ASSUME CatalogueInv, NEW c \in Staff, softDeletePlace(c)
    PROVE  CatalogueInv'
<1> USE DEF CatalogueInv, CatalogueTypeOK
<1>1. /\ place' = [place EXCEPT ![job[c].on] = "deleted"]
      /\ UNCHANGED <<tour, itinerary, shortened, shop, uses, rate>>
      /\ Write(c, job[c].on, NoOthers)
  BY DEF softDeletePlace
<1>2. /\ job' \in [Staff -> JobType] /\ job'[c].op = "none"
      /\ \A b \in Staff \ {c} : job'[b] = job[b]
      /\ \A b \in Staff \ stale' : b # c => b \notin stale
      /\ \A y : y \notin spoiled' => y \notin spoiled
  BY <1>1, WriteMarks
<1>3. \A b \in Staff : WorksOn(b)'
  BY <1>1, <1>2 DEF WorksOn
<1>4. \A b \in Staff \ stale' : StillSo(b)'
  BY <1>1, <1>2 DEF LooksHold, StillSo, MergedOrdered
<1>5. \A b \in Staff : DaysFit(b)'
  BY <1>1, <1>2 DEF AllDaysFit, DaysFit
<1>6. DaysOfTours' /\ CatalogueConsistent'
  BY <1>1, <1>2 DEF DaysOfTours, CatalogueConsistent, DeletedToursInactive,
     ItineraryWithinTour, UsedServicesStay, RatesOrdered
<1>7. CatalogueTypeOK'
  BY <1>1, <1>2, <1>3
<1> QED BY <1>4, <1>5, <1>6, <1>7 DEF LooksHold, AllDaysFit

\* A tour that is written over keeps what is claimed of it unless the write is stale.
LEMMA TourWriteKeeps ==
    ASSUME CatalogueInv, NEW c \in Staff, tourWrite(c)
    PROVE  CatalogueInv'
<1> DEFINE j == job[c]
           t == j.on
           new == [tour[t] EXCEPT !.active = IF j.to = Unset THEN @ ELSE j.to = "active",
                                  !.at = Give(j.from, @), !.days = Give(j.until, @)]
<1> USE DEF CatalogueInv, CatalogueTypeOK
<1>1. /\ t \in Packages /\ tour[t].there
      /\ j.from \in Places \cup {Unset} /\ j.until \in Lengths \cup {Unset}
  BY DEF tourWrite, WorksOn
<1>2. /\ tour' = [tour EXCEPT ![t] = new]
      /\ shortened' = IF tour'[t].days < tour[t].days THEN shortened \cup {t} ELSE shortened
      /\ UNCHANGED <<place, itinerary, shop, uses, rate>>
      /\ Write(c, t, Counted(t))
      /\ j.op = "updateTour"
  BY DEF tourWrite
<1>3. new \in TourType /\ new.there /\ new.erased = tour[t].erased
  BY <1>1 DEF TourType, Give
<1> HIDE DEF new
<1>4. tour' \in [Packages -> TourType] /\ tour'[t] = new
      /\ \A u \in Packages \ {t} : tour'[u] = tour[u]
  BY <1>1, <1>2, <1>3
<1>5. /\ job' \in [Staff -> JobType] /\ job'[c].op = "none"
      /\ \A b \in Staff \ {c} : job'[b] = job[b]
      /\ \A b \in Staff \ stale' : b # c =>
            b \notin stale /\ job[b].on # t /\ ~Counted(t)[b]
      /\ \A y : y \notin spoiled' => y \notin spoiled /\ (y = t => c \notin stale)
  BY <1>2, WriteMarks
<1>6. \A b \in Staff : WorksOn(b)'
  BY <1>2, <1>3, <1>4, <1>5 DEF WorksOn
<1>7. CatalogueTypeOK'
  BY <1>2, <1>4, <1>5, <1>6
<1>8. \A b \in Staff \ stale' : StillSo(b)'
  <2> SUFFICES ASSUME NEW b \in Staff, b \notin stale', b # c PROVE StillSo(b)'
    BY <1>5 DEF StillSo
  <2>1. b \notin stale /\ StillSo(b) /\ WorksOn(b) /\ job'[b] = job[b] /\ job[b].on # t
    BY <1>5 DEF LooksHold
  <2>2. ~(job[b].op = "deletePlace" /\ job[b].on = new.at)
    BY <1>4, <1>5 DEF Counted
  <2>3. (job[b].op = "deletePlace" =>
           \A u \in Packages : tour[u].there /\ tour[u].at = job[b].on => ~tour[u].active)'
    BY <1>4, <2>1, <2>2 DEF StillSo
  <2>4. (job[b].op = "updateTour" => ~tour[job[b].on].erased)'
    BY <1>4, <2>1 DEF StillSo, WorksOn
  <2>5. (job[b].op = "updateRate" => MergedOrdered(job[b].on, job[b].from, job[b].until))'
    BY <1>2, <2>1 DEF StillSo, MergedOrdered
  <2> QED BY <2>3, <2>4, <2>5 DEF StillSo
<1>9. \A u \in Packages \ shortened' : u \notin shortened /\ tour[u].days <= tour'[u].days
  BY <1>2, <1>3, <1>4 DEF TourType, Lengths
<1>10. \A b \in Staff : DaysFit(b)'
  <2> SUFFICES ASSUME NEW b \in Staff, job'[b].op \in {"addDay", "replaceDays"},
                      job'[b].on \notin shortened', NEW n \in job'[b].days
               PROVE  n <= tour'[job'[b].on].days
    BY DEF DaysFit
  <2>1. b # c /\ job'[b] = job[b] /\ DaysFit(b) /\ WorksOn(b)
    BY <1>5 DEF AllDaysFit
  <2>2. job[b].on \in Packages /\ job[b].on \notin shortened /\ n \in Lengths
    BY <1>9, <2>1 DEF WorksOn, JobType
  <2>3. n <= tour[job[b].on].days
    BY <2>1, <2>2 DEF DaysFit
  <2> QED BY <1>4, <1>9, <2>1, <2>2, <2>3 DEF TourType, Lengths
<1>11. DaysOfTours'
  BY <1>2, <1>3, <1>4 DEF DaysOfTours
<1>12. ItineraryWithinTour'
  <2> SUFFICES ASSUME NEW u \in Packages, u \notin shortened', NEW n \in itinerary[u]
               PROVE  n <= tour'[u].days
    BY <1>2 DEF ItineraryWithinTour
  <2>1. n <= tour[u].days /\ n \in Lengths
    BY <1>9 DEF ItineraryWithinTour, CatalogueConsistent
  <2> QED BY <1>4, <1>9, <2>1 DEF TourType, Lengths
<1>13. DeletedToursInactive'
  <2> SUFFICES ASSUME NEW u \in Packages, u \notin spoiled', tour'[u].erased
               PROVE  ~tour'[u].active
    BY DEF DeletedToursInactive
  <2>1. u # t
    BY <1>2, <1>3, <1>4, <1>5 DEF LooksHold, StillSo
  <2> QED BY <1>4, <1>5, <2>1 DEF DeletedToursInactive, CatalogueConsistent
<1>14. UsedServicesStay' /\ RatesOrdered'
  BY <1>2, <1>5 DEF CatalogueConsistent, UsedServicesStay, RatesOrdered
<1> QED BY <1>7, <1>8, <1>10, <1>11, <1>12, <1>13, <1>14
    DEF LooksHold, AllDaysFit, CatalogueConsistent

\* A deleted tour is inactive from then on.
LEMMA SoftDeleteTourKeeps ==
    ASSUME CatalogueInv, NEW c \in Staff, softDeleteTour(c)
    PROVE  CatalogueInv'
<1> DEFINE t == job[c].on
           new == [tour[t] EXCEPT !.erased = TRUE, !.active = FALSE]
<1> USE DEF CatalogueInv, CatalogueTypeOK
<1>1. t \in Packages /\ tour[t].there
  BY DEF softDeleteTour, WorksOn
<1>2. /\ tour' = softDelete(t)
      /\ UNCHANGED <<place, itinerary, shortened, shop, uses, rate>>
      /\ Write(c, t, NoOthers)
  BY DEF softDeleteTour
<1>3. /\ new \in TourType /\ new.there /\ ~new.active /\ new.days = tour[t].days
      /\ new.at = tour[t].at
  BY <1>1 DEF TourType
<1>4. tour' = [tour EXCEPT ![t] = new]
  BY <1>1, <1>2 DEF softDelete, TourType
<1> HIDE DEF new
<1>5. tour' \in [Packages -> TourType] /\ tour'[t] = new
      /\ \A u \in Packages \ {t} : tour'[u] = tour[u]
  BY <1>1, <1>3, <1>4
<1>6. /\ job' \in [Staff -> JobType] /\ job'[c].op = "none"
      /\ \A b \in Staff \ {c} : job'[b] = job[b]
      /\ \A b \in Staff \ stale' : b # c => b \notin stale /\ job[b].on # t
      /\ \A y : y \notin spoiled' => y \notin spoiled
  BY <1>2, WriteMarks
<1>7. \A b \in Staff : WorksOn(b)'
  BY <1>2, <1>3, <1>5, <1>6 DEF WorksOn
<1>8. CatalogueTypeOK'
  BY <1>2, <1>5, <1>6, <1>7
<1>9. \A b \in Staff \ stale' : StillSo(b)'
  BY <1>2, <1>3, <1>5, <1>6 DEF LooksHold, StillSo, WorksOn, MergedOrdered
<1>10. \A b \in Staff : DaysFit(b)'
  BY <1>2, <1>3, <1>5, <1>6 DEF AllDaysFit, DaysFit, WorksOn
<1>11. DaysOfTours' /\ ItineraryWithinTour' /\ DeletedToursInactive'
  BY <1>2, <1>3, <1>5, <1>6
  DEF DaysOfTours, ItineraryWithinTour, DeletedToursInactive, CatalogueConsistent
<1>12. UsedServicesStay' /\ RatesOrdered'
  BY <1>2, <1>6 DEF CatalogueConsistent, UsedServicesStay, RatesOrdered
<1> QED BY <1>8, <1>9, <1>10, <1>11, <1>12 DEF LooksHold, AllDaysFit, CatalogueConsistent

\* The days of a tour.
LEMMA ItineraryKeeps ==
    ASSUME CatalogueInv,
           \/ \E t \in Packages, n \in Lengths : removeItineraryDay(t, n)
           \/ \E c \in Staff : itineraryWrite(c)
    PROVE  CatalogueInv'
<1> USE DEF CatalogueInv, CatalogueTypeOK
<1>1. ASSUME NEW t \in Packages, NEW n \in Lengths, removeItineraryDay(t, n)
      PROVE  CatalogueInv'
  <2>1. /\ itinerary' = [itinerary EXCEPT ![t] = @ \ {n}]
        /\ UNCHANGED <<place, tour, shortened, shop, uses, rate, job, stale, spoiled>>
    BY <1>1 DEF removeItineraryDay
  <2>2. itinerary' \in [Packages -> SUBSET Lengths]
        /\ \A u \in Packages : itinerary'[u] \subseteq itinerary[u]
    BY <2>1
  <2>3. CatalogueTypeOK'
    BY <2>1, <2>2 DEF WorksOn
  <2>4. LooksHold' /\ AllDaysFit'
    BY <2>1 DEF LooksHold, AllDaysFit, StillSo, MergedOrdered, DaysFit
  <2>5. DaysOfTours' /\ ItineraryWithinTour'
    BY <2>1, <2>2 DEF DaysOfTours, ItineraryWithinTour, CatalogueConsistent
  <2>6. DeletedToursInactive' /\ UsedServicesStay' /\ RatesOrdered'
    BY <2>1 DEF CatalogueConsistent, DeletedToursInactive, UsedServicesStay, RatesOrdered
  <2> QED BY <2>3, <2>4, <2>5, <2>6 DEF CatalogueConsistent
<1>2. ASSUME NEW c \in Staff, itineraryWrite(c) PROVE CatalogueInv'
  <2> DEFINE t == job[c].on
             days == IF job[c].op = "addDay" THEN itinerary[t] \cup job[c].days ELSE job[c].days
  <2>1. /\ t \in Packages /\ tour[t].there /\ job[c].days \subseteq Lengths
        /\ t \in shortened \/ \A n \in job[c].days : n <= tour[t].days
    BY <1>2 DEF itineraryWrite, WorksOn, AllDaysFit, DaysFit, JobType
  <2>2. /\ itinerary' = [itinerary EXCEPT ![t] = days]
        /\ job' = [job EXCEPT ![c] = NoJob]
        /\ stale' = stale \ {c}
        /\ UNCHANGED <<place, tour, shortened, shop, uses, rate, spoiled>>
    BY <1>2 DEF itineraryWrite
  <2>3. days \subseteq itinerary[t] \cup job[c].days
    OBVIOUS
  <2> HIDE DEF days
  <2>4. /\ itinerary' \in [Packages -> SUBSET Lengths] /\ itinerary'[t] = days
        /\ \A u \in Packages \ {t} : itinerary'[u] = itinerary[u]
    BY <2>1, <2>2, <2>3
  <2>5. /\ job' \in [Staff -> JobType] /\ job'[c].op = "none"
        /\ \A b \in Staff \ {c} : job'[b] = job[b]
    BY <2>2, NoJobType
  <2>6. \A b \in Staff : WorksOn(b)'
    BY <2>2, <2>5 DEF WorksOn
  <2>7. CatalogueTypeOK'
    BY <2>2, <2>4, <2>5, <2>6
  <2>8. \A b \in Staff \ stale' : StillSo(b)'
    BY <2>2, <2>5 DEF LooksHold, StillSo, MergedOrdered
  <2>9. \A b \in Staff : DaysFit(b)'
    BY <2>2, <2>5 DEF AllDaysFit, DaysFit
  <2>10. DaysOfTours'
    BY <2>1, <2>2, <2>4 DEF DaysOfTours
  <2>11. ItineraryWithinTour'
    BY <2>1, <2>2, <2>3, <2>4 DEF ItineraryWithinTour, CatalogueConsistent
  <2>12. DeletedToursInactive' /\ UsedServicesStay' /\ RatesOrdered'
    BY <2>2 DEF CatalogueConsistent, DeletedToursInactive, UsedServicesStay, RatesOrdered
  <2> QED BY <2>7, <2>8, <2>9, <2>10, <2>11, <2>12 DEF LooksHold, AllDaysFit, CatalogueConsistent
<1> QED BY <1>1, <1>2

\* Destinations, tour packages and itineraries.
LEMMA ToursKeep == ASSUME CatalogueInv, ToursNext PROVE CatalogueInv'
BY ToursLook, CreateTourKeeps, SoftDeletePlaceKeeps, TourWriteKeeps, SoftDeleteTourKeeps,
   ItineraryKeeps DEF ToursNext

-----------------------------------------------------------------------------
\* Services

\* A service in use is never removed: the foreign key sees the booking that came
\* between the count and the removal.
LEMMA ServicesKeep == ASSUME CatalogueInv, ServicesNext PROVE CatalogueInv'
<1> USE DEF CatalogueInv, CatalogueTypeOK, tourVars
<1>1. ASSUME NEW b \in Stays, NEW s \in Extras, attachService(b, s) PROVE CatalogueInv'
  <2>1. /\ shop[s] # "none" /\ uses' = uses \cup {<<b, s>>}
        /\ UNCHANGED <<tourVars, shop, rate, job, stale, spoiled>>
    BY <1>1 DEF attachService
  <2>2. CatalogueTypeOK'
    BY <2>1 DEF WorksOn
  <2>3. LooksHold' /\ AllDaysFit' /\ DaysOfTours'
    BY <2>1 DEF LooksHold, AllDaysFit, DaysOfTours, StillSo, MergedOrdered, DaysFit
  <2>4. UsedServicesStay'
    BY <2>1 DEF CatalogueConsistent, UsedServicesStay
  <2>5. DeletedToursInactive' /\ ItineraryWithinTour' /\ RatesOrdered'
    BY <2>1 DEF CatalogueConsistent, DeletedToursInactive, ItineraryWithinTour, RatesOrdered
  <2> QED BY <2>2, <2>3, <2>4, <2>5 DEF CatalogueConsistent
<1>2. ASSUME NEW c \in Staff, NEW s \in Extras, deleteService(c, s) PROVE CatalogueInv'
  <2> DEFINE j == [On(s) EXCEPT !.op = IF Used(s) THEN "deactivate" ELSE "remove"]
  <2>1. /\ [On(s) EXCEPT !.op = "deactivate"] \in JobType
        /\ [On(s) EXCEPT !.op = "remove"] \in JobType
    BY DEF On, NoJob, JobType, JobOps
  <2>2. /\ job' = [job EXCEPT ![c] = j] 
        /\ UNCHANGED <<tourVars, shop, uses, rate, stale, spoiled>>
    BY <1>2 DEF deleteService, Look
  <2>3. ASSUME NEW k \in JobType, k.op \in {"deactivate", "remove"}, k.on = s,
               job' = [job EXCEPT ![c] = k]
        PROVE  CatalogueInv'
    <3>1. job'[c] = k
      BY <2>3
    <3>2. WorksOn(c)' /\ StillSo(c)' /\ DaysFit(c)'
      BY <2>3, <3>1 DEF WorksOn, StillSo, DaysFit
    <3> QED BY <2>2, <2>3, <3>2, LookKeeps
  <2>4. CASE Used(s)
    <3>1. job' = [job EXCEPT ![c] = [On(s) EXCEPT !.op = "deactivate"]]
      BY <2>2, <2>4
    <3>2. /\ [On(s) EXCEPT !.op = "deactivate"].op = "deactivate"
          /\ [On(s) EXCEPT !.op = "deactivate"].on = s
      BY DEF On, NoJob
    <3> QED BY <2>1, <2>3, <3>1, <3>2
  <2>5. CASE ~Used(s)
    <3>1. job' = [job EXCEPT ![c] = [On(s) EXCEPT !.op = "remove"]]
      BY <2>2, <2>5
    <3>2. /\ [On(s) EXCEPT !.op = "remove"].op = "remove"
          /\ [On(s) EXCEPT !.op = "remove"].on = s
      BY DEF On, NoJob
    <3> QED BY <2>1, <2>3, <3>1, <3>2
  <2> QED BY <2>4, <2>5
<1>3. ASSUME UNCHANGED <<tourVars, uses, rate, stale, spoiled>>,
             shop' \in [Extras -> {"none", "active", "inactive"}], UsedServicesStay',
             job' = job \/ \E c \in Staff : job' = [job EXCEPT ![c] = NoJob]
      PROVE  CatalogueInv'
  <2>1. /\ job' \in [Staff -> JobType]
        /\ \A b \in Staff : job'[b] = job[b] \/ job'[b].op = "none"
    BY <1>3, NoJobType
  <2>2. \A b \in Staff : WorksOn(b)' /\ DaysFit(b)'
    BY <1>3, <2>1 DEF WorksOn, AllDaysFit, DaysFit
  <2>3. \A b \in Staff \ stale' : StillSo(b)'
    BY <1>3, <2>1 DEF LooksHold, StillSo, MergedOrdered
  <2>4. DaysOfTours' /\ DeletedToursInactive' /\ ItineraryWithinTour' /\ RatesOrdered'
    BY <1>3 DEF DaysOfTours, CatalogueConsistent, DeletedToursInactive,
       ItineraryWithinTour, RatesOrdered
  <2> QED BY <1>3, <2>1, <2>2, <2>3, <2>4 DEF CatalogueConsistent, LooksHold, AllDaysFit
<1>4. \A u \in uses : u[2] \in Extras /\ shop[u[2]] # "none"
  BY DEF CatalogueConsistent, UsedServicesStay
<1>5. ASSUME NEW c \in Staff, deactivateService(c) PROVE CatalogueInv'
  <2>1. /\ UNCHANGED <<tourVars, uses, rate, stale, spoiled>>
        /\ shop' = [shop EXCEPT ![job[c].on] = IF @ = "none" THEN @ ELSE "inactive"]
        /\ job' = [job EXCEPT ![c] = NoJob]
        /\ job[c].on \in Extras
    BY <1>5 DEF deactivateService, WorksOn
  <2>2. shop' \in [Extras -> {"none", "active", "inactive"}] /\ UsedServicesStay'
    BY <1>4, <2>1 DEF UsedServicesStay
  <2> QED BY <1>3, <2>1, <2>2
<1>6. ASSUME NEW c \in Staff, removeService(c) PROVE CatalogueInv'
  <2>1. /\ UNCHANGED <<tourVars, uses, rate, stale, spoiled>>
        /\ shop' = [shop EXCEPT ![job[c].on] = IF Restricted(job[c].on) THEN @ ELSE "none"]
        /\ job' = [job EXCEPT ![c] = NoJob]
        /\ job[c].on \in Extras
    BY <1>6 DEF removeService, WorksOn
  <2>2. shop' \in [Extras -> {"none", "active", "inactive"}]
    BY <2>1
  <2>3. UsedServicesStay'
    <3> SUFFICES ASSUME NEW u \in uses PROVE shop'[u[2]] # "none"
      BY <2>1 DEF UsedServicesStay
    <3>1. PICK b \in Stays, s \in Extras : u = <<b, s>>
      OBVIOUS
    <3>2. Restricted(s)
      BY <3>1 DEF Restricted, Used
    <3> QED BY <1>4, <2>1, <3>1, <3>2
  <2> QED BY <1>3, <2>1, <2>2, <2>3
<1>7. ASSUME NEW s \in Extras, NEW status \in {"active", "inactive"}, updateService(s, status)
      PROVE  CatalogueInv'
  <2>1. /\ shop' = [shop EXCEPT ![s] = status]
        /\ UNCHANGED <<tourVars, uses, rate, job, stale, spoiled>>
    BY <1>7 DEF updateService
  <2>2. shop' \in [Extras -> {"none", "active", "inactive"}] /\ UsedServicesStay'
    BY <1>4, <2>1 DEF UsedServicesStay
  <2> QED BY <1>3, <2>1, <2>2
<1> QED BY <1>1, <1>2, <1>5, <1>6, <1>7 DEF ServicesNext

-----------------------------------------------------------------------------
\* Rates

\* What is not a rate, and the calls that are not about rates.
LEMMA RatesAlone ==
    ASSUME CatalogueInv, UNCHANGED <<tourVars, shop, uses>>,
           rate' \in [Rates -> RateType], job' \in [Staff -> JobType],
           \A b \in Staff : job'[b] = job[b] \/ job'[b].op = "none",
           \A b \in Staff \ stale' : job'[b] = job[b] => b \notin stale,
           spoiled \subseteq spoiled',
           \A b \in Staff : job'[b].op = "updateRate" => rate'[job'[b].on].is # "new",
           \A b \in Staff \ stale' : job'[b].op = "updateRate" =>
               MergedOrdered(job[b].on, job[b].from, job[b].until)',
           RatesOrdered'
    PROVE  CatalogueInv'
<1> USE DEF CatalogueInv, CatalogueTypeOK, tourVars
<1>1. \A b \in Staff : WorksOn(b)' /\ DaysFit(b)'
  BY DEF WorksOn, AllDaysFit, DaysFit
<1>2. \A b \in Staff \ stale' : StillSo(b)'
  BY DEF LooksHold, StillSo
<1>3. DaysOfTours' /\ DeletedToursInactive' /\ ItineraryWithinTour' /\ UsedServicesStay'
  BY DEF DaysOfTours, CatalogueConsistent, DeletedToursInactive, ItineraryWithinTour,
     UsedServicesStay
<1> QED BY <1>1, <1>2, <1>3 DEF CatalogueConsistent, LooksHold, AllDaysFit

\* A date is what the data give, or what the row has.
LEMMA GiveType ==
    ASSUME NEW old \in Dates, NEW data \in Dates \cup {Unset}
    PROVE  Give(data, old) \in Dates
BY DEF Give

\* Services and rates.
LEMMA RatesKeep == ASSUME CatalogueInv, RatesNext PROVE CatalogueInv'
<1> USE DEF CatalogueInv, CatalogueTypeOK
<1>1. ASSUME NEW r \in Rates, NEW from \in Dates, NEW until \in Dates,
             createRoomRate(r, from, until)
      PROVE  CatalogueInv'
  <2>1. /\ rate[r].is = "new" /\ from < until
        /\ rate' = [rate EXCEPT ![r] = [is |-> "kept", from |-> from, until |-> until]]
        /\ UNCHANGED <<tourVars, shop, uses, job, stale, spoiled>>
    BY <1>1 DEF createRoomRate, Ordered
  <2>2. rate' \in [Rates -> RateType]
    BY <2>1 DEF RateType
  <2>3. \A b \in Staff : job[b].op = "updateRate" => job[b].on # r /\ job[b].on \in Rates
    BY <2>1 DEF WorksOn
  <2>4. \A q \in Rates \ {r} : rate'[q] = rate[q]
    BY <2>1
  <2>5. \A b \in Staff : job'[b].op = "updateRate" => rate'[job'[b].on].is # "new"
    BY <2>1, <2>3, <2>4 DEF WorksOn
  <2>6. \A b \in Staff \ stale' : job'[b].op = "updateRate" =>
           MergedOrdered(job[b].on, job[b].from, job[b].until)'
    BY <2>1, <2>3, <2>4 DEF LooksHold, StillSo, MergedOrdered
  <2>7. RatesOrdered'
    BY <2>1, <2>4 DEF RatesOrdered, CatalogueConsistent
  <2> QED BY <2>1, <2>2, <2>5, <2>6, <2>7, RatesAlone
<1>2. ASSUME NEW gone \in SUBSET Rates, deleteRoomRates(gone) PROVE CatalogueInv'
  <2>1. /\ rate' = [r \in Rates |-> IF r \in gone THEN [rate[r] EXCEPT !.is = "gone"] ELSE rate[r]]
        /\ UNCHANGED <<tourVars, shop, uses, job, stale, spoiled>>
    BY <1>2 DEF deleteRoomRates
  <2>2. \A r \in Rates : /\ rate'[r].from = rate[r].from /\ rate'[r].until = rate[r].until
                         /\ rate'[r].is \in {rate[r].is, "gone"}
                         /\ rate'[r] \in RateType
    BY <2>1 DEF RateType
  <2>3. rate' \in [Rates -> RateType]
    BY <2>1, <2>2
  <2>4. \A b \in Staff : job'[b].op = "updateRate" => rate'[job'[b].on].is # "new"
    BY <2>1, <2>2 DEF WorksOn
  <2>5. \A b \in Staff \ stale' : job'[b].op = "updateRate" =>
           MergedOrdered(job[b].on, job[b].from, job[b].until)'
    BY <2>1, <2>2 DEF LooksHold, StillSo, MergedOrdered, WorksOn
  <2>6. RatesOrdered'
    BY <2>1, <2>2 DEF RatesOrdered, CatalogueConsistent
  <2> QED BY <2>1, <2>3, <2>4, <2>5, <2>6, RatesAlone
<1>3. ASSUME NEW c \in Staff, NEW r \in Rates, NEW from \in Dates \cup {Unset},
             NEW until \in Dates \cup {Unset}, updateRoomRate(c, r, from, until)
      PROVE  CatalogueInv'
  <2> DEFINE j == [[On(r) EXCEPT !.from = from, !.until = until] EXCEPT !.op = "updateRate"]
  <2>1. j \in JobType /\ j.op = "updateRate" /\ j.on = r /\ j.from = from /\ j.until = until
    BY DEF On, NoJob, JobType, JobOps
  <2> HIDE DEF j
  <2>2. /\ job' = [job EXCEPT ![c] = j] /\ rate[r].is = "kept" /\ MergedOrdered(r, from, until)
        /\ UNCHANGED <<tourVars, shop, uses, rate, stale, spoiled>>
    BY <1>3 DEF updateRoomRate, Look, j
  <2>3. job'[c] = j
    BY <2>2
  <2>4. WorksOn(c)' /\ StillSo(c)' /\ DaysFit(c)'
    BY <2>1, <2>2, <2>3 DEF WorksOn, StillSo, DaysFit, MergedOrdered
  <2> QED BY <2>1, <2>2, <2>4, LookKeeps
<1>4. ASSUME NEW c \in Staff, rateWrite(c) PROVE CatalogueInv'
  <2> DEFINE j == job[c]
             r == j.on
             new == IF rate[r].is = "gone" THEN rate[r]
                    ELSE [is |-> "kept", from |-> Give(j.from, rate[r].from),
                          until |-> Give(j.until, rate[r].until)]
  <2>1. /\ j.op = "updateRate" /\ rate' = [rate EXCEPT ![r] = new]
        /\ Write(c, r, NoOthers) /\ UNCHANGED <<tourVars, shop, uses>>
    BY <1>4 DEF rateWrite
  <2>2. r \in Rates /\ j.from \in Dates \cup {Unset} /\ j.until \in Dates \cup {Unset}
    BY <2>1 DEF WorksOn
  <2>3. rate[r] \in RateType /\ rate[r].from \in Dates /\ rate[r].until \in Dates
    BY <2>2 DEF RateType
  <2>4. new \in RateType /\ new.is # "new"
    BY <2>1, <2>2, <2>3, GiveType DEF RateType, WorksOn
  <2>5. new.is = "kept" => new.from = Give(j.from, rate[r].from)
                           /\ new.until = Give(j.until, rate[r].until)
    OBVIOUS
  <2> HIDE DEF new
  <2>6. /\ rate' \in [Rates -> RateType] /\ rate'[r] = new
        /\ \A q \in Rates \ {r} : rate'[q] = rate[q]
    BY <2>1, <2>2, <2>4
  <2>7. /\ job' \in [Staff -> JobType] /\ job'[c].op = "none"
        /\ \A b \in Staff \ {c} : job'[b] = job[b]
        /\ \A b \in Staff \ stale' : b # c => b \notin stale /\ job[b].on # r
        /\ \A y : y \notin spoiled' => y \notin spoiled /\ (y = r => c \notin stale)
    BY <2>1, WriteMarks
  <2>8. \A b \in Staff : job'[b].op = "updateRate" => rate'[job'[b].on].is # "new"
    BY <2>4, <2>6, <2>7 DEF WorksOn
  <2>9. \A b \in Staff \ stale' : job'[b].op = "updateRate" =>
           MergedOrdered(job[b].on, job[b].from, job[b].until)'
    <3> SUFFICES ASSUME NEW b \in Staff, b \notin stale', job'[b].op = "updateRate"
                 PROVE  MergedOrdered(job[b].on, job[b].from, job[b].until)'
      OBVIOUS
    <3>1. b # c /\ b \notin stale /\ job[b].on # r /\ job'[b] = job[b]
      BY <2>7
    <3>2. job[b].on \in Rates /\ MergedOrdered(job[b].on, job[b].from, job[b].until)
      BY <3>1 DEF LooksHold, StillSo, WorksOn
    <3> QED BY <2>6, <3>1, <3>2 DEF MergedOrdered
  <2>10. RatesOrdered'
    <3> SUFFICES ASSUME NEW q \in Rates, q \notin spoiled', rate'[q].is = "kept"
                 PROVE  rate'[q].from < rate'[q].until
      BY DEF RatesOrdered
    <3>1. q \notin spoiled /\ (q = r => c \notin stale)
      BY <2>7
    <3>2. CASE q = r
      BY <2>1, <2>5, <2>6, <3>1, <3>2 DEF LooksHold, StillSo, MergedOrdered, Ordered
    <3>3. CASE q # r
      BY <2>6, <3>1, <3>3 DEF RatesOrdered, CatalogueConsistent
    <3> QED BY <3>2, <3>3
  <2>11. \A b \in Staff : job'[b] = job[b] \/ job'[b].op = "none"
    BY <2>7
  <2>12. \A b \in Staff \ stale' : job'[b] = job[b] => b \notin stale
    BY <2>1, <2>7
  <2>13. spoiled \subseteq spoiled'
    BY <2>7
  <2> QED BY <2>1, <2>6, <2>7, <2>8, <2>9, <2>10, <2>11, <2>12, <2>13, RatesAlone
<1> QED BY <1>1, <1>2, <1>3, <1>4 DEF RatesNext

-----------------------------------------------------------------------------
\* The theorems

\* The invariant of the theorems below.
LEMMA CatalogueInvariant == CatalogueSpec => []CatalogueInv
<1>1. CatalogueInv /\ [CatalogueNext]_catalogueVars => CatalogueInv'
  <2>1. ASSUME CatalogueInv, UNCHANGED catalogueVars PROVE CatalogueInv'
    BY <2>1 DEF catalogueVars, tourVars, CatalogueInv, CatalogueTypeOK, WorksOn, LooksHold,
       StillSo, MergedOrdered, DaysOfTours, AllDaysFit, DaysFit, CatalogueConsistent,
       DeletedToursInactive, ItineraryWithinTour, UsedServicesStay, RatesOrdered
  <2> QED BY <2>1, ToursKeep, ServicesKeep, RatesKeep DEF CatalogueNext
<1> QED BY <1>1, CatalogueInitOK, PTL DEF CatalogueSpec

\* What staff look at before they write still holds of what is written: deleted tours
\* are inactive, days lie within their tour, services in use stay, rates end after
\* they begin (destinationService, tourPackageService, serviceCatalogService,
\* ratePlanService).
THEOREM CatalogueStaysConsistent == CatalogueSpec => []CatalogueConsistent
<1>1. CatalogueInv => CatalogueConsistent
  BY DEF CatalogueInv
<1> QED BY <1>1, CatalogueInvariant, PTL

\* A destination goes only when none of its tours is active, unless one came to be
\* between the look of deleteDestination and its write.
THEOREM PlacesGoWithoutTours == CatalogueSpec => DeletedWithoutTours
<1>1. ASSUME CatalogueInv, CatalogueNext, NEW d \in Places,
             place[d] = "kept", place'[d] = "deleted",
             ~\E c \in stale : job[c].op = "deletePlace" /\ job[c].on = d
      PROVE  \A t \in Packages : tour[t].there /\ tour[t].at = d => ~tour[t].active
  <2>1. ServicesNext \/ RatesNext => place' = place
    BY DEF ServicesNext, RatesNext, attachService, updateService, deactivateService,
       removeService, deleteService, createRoomRate, deleteRoomRates, updateRoomRate,
       rateWrite, tourVars
  <2>2. ToursNext => place' = place \/ \E c \in Staff : softDeletePlace(c)
    BY DEF ToursNext, createTourPackage, removeItineraryDay, deleteDestination,
       updateTourPackage, deleteTourPackage, addItineraryDay, replaceItinerary, tourWrite,
       softDeleteTour, itineraryWrite, tourVars
  <2>3. PICK c \in Staff : softDeletePlace(c)
    BY <1>1, <2>1, <2>2 DEF CatalogueNext
  <2>4. /\ job[c].op = "deletePlace" /\ place' = [place EXCEPT ![job[c].on] = "deleted"]
        /\ job[c].on \in Places
    BY <1>1, <2>3 DEF softDeletePlace, CatalogueInv, CatalogueTypeOK, WorksOn
  <2>5. job[c].on = d
    BY <1>1, <2>4 DEF CatalogueInv, CatalogueTypeOK
  <2> QED BY <1>1, <2>4, <2>5 DEF CatalogueInv, LooksHold, StillSo
<1>2. CatalogueInv /\ [CatalogueNext]_catalogueVars =>
      [\A d \in Places :
          place[d] = "kept" /\ place'[d] = "deleted" =>
              \/ \E c \in stale : job[c].op = "deletePlace" /\ job[c].on = d
              \/ \A t \in Packages : tour[t].there /\ tour[t].at = d => ~tour[t].active]_catalogueVars
  BY <1>1
<1> QED BY <1>2, CatalogueInvariant, PTL DEF CatalogueSpec, DeletedWithoutTours

-----------------------------------------------------------------------------
\* Reports

BookingRow == [hotel : ReportHotels, customer : ReportCustomers, arrives : {0, 1}, made : Nat, cancelled : BOOLEAN]

PaymentRow ==
    [status : {"none", "paid", "failed", "partially_refunded", "refunded"}, at : Nat, back : 0..Amount]

DepartureRow == [tour : ReportTours \cup {"none"}, made : Nat]

\* What was given back of a payment goes with its status.
BackAsStatus(p) ==
    /\ p.status \in {"none", "paid", "failed"} => p.back = 0
    /\ p.status = "partially_refunded" => p.back # 0 /\ p.back # Amount
    /\ p.status = "refunded" => p.back = Amount
    /\ p.status = "none" => p = NotPaid

MomentInv == moment \in Nat /\ moment <= 2 * LastDay + 1

StaysInv ==
    /\ bookingOf \in [ReportBookings -> BookingRow \cup {NotMade}]
    /\ \A b \in ReportBookings : bookingOf[b].made <= moment

PaymentsInv ==
    /\ paymentOf \in [ReportBookings -> PaymentRow]
    /\ \A b \in ReportBookings : BackAsStatus(paymentOf[b]) /\ paymentOf[b].at <= moment

DeparturesInv ==
    /\ departure \in [Departures -> DepartureRow]
    /\ \A d \in Departures : departure[d].made <= moment

BooksInv == MomentInv /\ StaysInv /\ PaymentsInv /\ DeparturesInv

\* Nothing is booked, paid or under way at the start.
LEMMA BooksStart == BooksInit => BooksInv
<1> SUFFICES ASSUME BooksInit PROVE BooksInv
  OBVIOUS
<1>1. MomentInv
  BY ReportsAssumption DEF BooksInit, MomentInv
<1>2. StaysInv
  BY DEF BooksInit, StaysInv, NotMade
<1>3. PaymentsInv
  BY DEF BooksInit, PaymentsInv, PaymentRow, BackAsStatus, NotPaid, Amount
<1>4. DeparturesInv
  BY DEF BooksInit, DeparturesInv, DepartureRow
<1> QED BY <1>1, <1>2, <1>3, <1>4 DEF BooksInv

\* A booking that is not made has no hotel.
LEMMA MadeRow ==
    ASSUME StaysInv
    PROVE  /\ \A b : b \in BookingsMade <=> b \in ReportBookings /\ bookingOf[b] \in BookingRow
           /\ NotMade \notin BookingRow
<1>1. NotMade \notin BookingRow
  <2>1. \A x \in BookingRow : x.hotel \in ReportHotels
    BY DEF BookingRow
  <2>2. NotMade.hotel \notin ReportHotels
    BY ReportsAssumption DEF NotMade
  <2> QED BY <2>1, <2>2
<1> QED BY <1>1 DEF BookingsMade, StaysInv

\* Time passes.
LEMMA ClockKeeps == ASSUME BooksInv, clockAdvances PROVE BooksInv'
<1>1. moment \in Nat /\ moment' = moment + 1 /\ moment' \in Nat /\ moment' <= 2 * LastDay + 1 /\ LastDay \in Nat
  BY ReportsAssumption DEF BooksInv, MomentInv, clockAdvances
<1>2. UNCHANGED <<bookingOf, paymentOf, departure>>
  BY DEF clockAdvances
<1>3. \A n \in Int : n <= moment => n <= moment'
  BY <1>1
<1>4. StaysInv'
  <2>1. \A b \in ReportBookings : bookingOf[b].made \in Int
    BY DEF BooksInv, StaysInv, BookingRow, NotMade
  <2> QED BY <1>2, <1>3, <2>1 DEF BooksInv, StaysInv
<1>5. PaymentsInv'
  <2>1. \A b \in ReportBookings : paymentOf[b].at \in Int
    BY DEF BooksInv, PaymentsInv, PaymentRow
  <2> QED BY <1>2, <1>3, <2>1 DEF BooksInv, PaymentsInv
<1>6. DeparturesInv'
  <2>1. \A d \in Departures : departure[d].made \in Int
    BY DEF BooksInv, DeparturesInv, DepartureRow
  <2> QED BY <1>2, <1>3, <2>1 DEF BooksInv, DeparturesInv
<1> QED BY <1>1, <1>4, <1>5, <1>6 DEF BooksInv, MomentInv

\* A row of a booking that is not of a later instant.
LEMMA StayRowKeeps ==
    ASSUME BooksInv, NEW b \in ReportBookings, NEW row \in BookingRow, row.made <= moment,
           bookingOf' = [bookingOf EXCEPT ![b] = row], UNCHANGED <<moment, paymentOf, departure>>
    PROVE  BooksInv'
<1>1. /\ bookingOf' \in [ReportBookings -> BookingRow \cup {NotMade}] /\ bookingOf'[b] = row
      /\ \A a \in ReportBookings \ {b} : bookingOf'[a] = bookingOf[a]
  BY DEF BooksInv, StaysInv
<1>2. \A a \in ReportBookings : bookingOf'[a].made <= moment'
  BY <1>1 DEF BooksInv, StaysInv
<1> QED BY <1>1, <1>2 DEF BooksInv, MomentInv, StaysInv, PaymentsInv, DeparturesInv

\* A booking is made.
LEMMA BookingKeeps ==
    ASSUME BooksInv, NEW b \in ReportBookings, NEW h \in ReportHotels, NEW c \in ReportCustomers,
           NEW arrives \in {0, 1}, createReportBooking(b, h, c, arrives)
    PROVE  BooksInv'
<1> DEFINE row == [hotel |-> h, customer |-> c, arrives |-> arrives, made |-> moment, cancelled |-> FALSE]
<1>1. bookingOf' = [bookingOf EXCEPT ![b] = row] /\ UNCHANGED <<moment, paymentOf, departure>>
  BY DEF createReportBooking
<1>2. row \in BookingRow /\ row.made <= moment
  BY DEF BookingRow, BooksInv, MomentInv
<1> HIDE DEF row
<1> QED BY <1>1, <1>2, StayRowKeeps

\* A booking is cancelled.
LEMMA CancelKeeps ==
    ASSUME BooksInv, NEW b \in ReportBookings, cancelReportBooking(b)
    PROVE  BooksInv'
<1> DEFINE row == [bookingOf[b] EXCEPT !.cancelled = TRUE]
<1>1. bookingOf' = [bookingOf EXCEPT ![b] = row] /\ b \in BookingsMade /\ UNCHANGED <<moment, paymentOf, departure>>
  BY DEF cancelReportBooking, BooksInv, StaysInv
<1>2. bookingOf[b] \in BookingRow /\ bookingOf[b].made <= moment
  BY <1>1, MadeRow DEF BooksInv, StaysInv
<1>3. row \in BookingRow /\ row.made <= moment
  BY <1>2 DEF BookingRow
<1> HIDE DEF row
<1> QED BY <1>1, <1>3, StayRowKeeps

\* One payment changes.
LEMMA PaymentKeeps ==
    ASSUME BooksInv, NEW b \in ReportBookings, NEW row \in PaymentRow, BackAsStatus(row), row.at <= moment,
           paymentOf' = [paymentOf EXCEPT ![b] = row], UNCHANGED <<moment, bookingOf, withdrawn, departure>>
    PROVE  BooksInv'
<1>1. /\ paymentOf' \in [ReportBookings -> PaymentRow] /\ paymentOf'[b] = row
      /\ \A a \in ReportBookings \ {b} : paymentOf'[a] = paymentOf[a]
  BY DEF BooksInv, PaymentsInv
<1>2. PaymentsInv'
  <2> SUFFICES ASSUME NEW a \in ReportBookings PROVE BackAsStatus(paymentOf'[a]) /\ paymentOf'[a].at <= moment'
    BY <1>1 DEF PaymentsInv
  <2>1. CASE a = b
    BY <1>1, <2>1
  <2>2. CASE a # b
    BY <1>1, <2>2 DEF BooksInv, PaymentsInv
  <2> QED BY <2>1, <2>2
<1> QED BY <1>2 DEF BooksInv, MomentInv, StaysInv, BookingsMade, DeparturesInv

\* A booking is paid, or the attempt fails.
LEMMA PaysKeeps ==
    ASSUME BooksInv, NEW b \in ReportBookings, NEW status, status = "paid" \/ status = "failed", pays(b, status)
    PROVE  BooksInv'
<1> DEFINE row == [status |-> status, at |-> moment, back |-> 0]
<1>1. row \in PaymentRow /\ BackAsStatus(row) /\ row.at <= moment
  BY DEF PaymentRow, BackAsStatus, BooksInv, MomentInv, Amount
<1>2. paymentOf' = [paymentOf EXCEPT ![b] = row] /\ UNCHANGED <<moment, bookingOf, withdrawn, departure>>
  BY DEF pays
<1> HIDE DEF row
<1> QED BY <1>1, <1>2, PaymentKeeps

\* A part or all of a payment is given back.
LEMMA RefundsKeeps ==
    ASSUME BooksInv, NEW b \in ReportBookings, NEW back \in 1..Amount, refunds(b, back)
    PROVE  BooksInv'
<1> DEFINE new == IF back = Amount THEN "refunded" ELSE "partially_refunded"
           row == [[paymentOf[b] EXCEPT !.back = back] EXCEPT !.status = new]
<1>1. paymentOf[b] \in PaymentRow /\ paymentOf[b].at <= moment
  BY DEF BooksInv, PaymentsInv
<1>2. new \in {"refunded", "partially_refunded"} /\ back \in 0..Amount /\ back # 0
      /\ (new = "refunded" <=> back = Amount)
  BY DEF Amount
<1>3. paymentOf' = [paymentOf EXCEPT ![b] = row]
  BY DEF refunds, BooksInv, PaymentsInv
<1> HIDE DEF new
<1>4. row \in PaymentRow /\ row.status = new /\ row.at = paymentOf[b].at /\ row.back = back
  BY <1>1, <1>2 DEF PaymentRow
<1> HIDE DEF row
<1>5. BackAsStatus(row) /\ row.at <= moment
  BY <1>1, <1>2, <1>4 DEF BackAsStatus
<1>6. UNCHANGED <<moment, bookingOf, withdrawn, departure>>
  BY DEF refunds
<1> QED BY <1>3, <1>4, <1>5, <1>6, PaymentKeeps

\* A tour is booked.
LEMMA DepartsKeeps ==
    ASSUME BooksInv, NEW d \in Departures, NEW t \in ReportTours, departs(d, t)
    PROVE  BooksInv'
<1> DEFINE row == [tour |-> t, made |-> moment]
<1>1. row \in DepartureRow /\ row.made <= moment
  BY DEF DepartureRow, BooksInv, MomentInv
<1>2. departure' = [departure EXCEPT ![d] = row] /\ UNCHANGED <<moment, bookingOf, paymentOf>>
  BY DEF departs
<1> HIDE DEF row
<1>3. DeparturesInv'
  BY <1>1, <1>2 DEF BooksInv, DeparturesInv
<1> QED BY <1>2, <1>3 DEF BooksInv, MomentInv, StaysInv, BookingsMade, PaymentsInv

\* Every step of the rows, and none.
LEMMA BooksStep == BooksInv /\ (HotelBooksNext \/ TourBooksNext \/ UNCHANGED booksVars) => BooksInv'
<1> SUFFICES ASSUME BooksInv, HotelBooksNext \/ TourBooksNext \/ UNCHANGED booksVars PROVE BooksInv'
  OBVIOUS
<1>1. CASE UNCHANGED booksVars
  BY <1>1 DEF booksVars, BooksInv, MomentInv, StaysInv, BookingsMade, PaymentsInv, DeparturesInv
<1>2. ASSUME NEW x, withdraw(x) PROVE BooksInv'
  BY <1>2 DEF withdraw, BooksInv, MomentInv, StaysInv, PaymentsInv, DeparturesInv
<1>5. ASSUME NEW t, NEW status, setsStatus(t, status) PROVE BooksInv'
  BY <1>5 DEF setsStatus, BooksInv, MomentInv, StaysInv, PaymentsInv, DeparturesInv
<1>3. CASE HotelBooksNext
  BY <1>2, <1>3, ClockKeeps, BookingKeeps, CancelKeeps, PaysKeeps, RefundsKeeps DEF HotelBooksNext
<1>4. CASE TourBooksNext
  BY <1>2, <1>4, <1>5, ClockKeeps, DepartsKeeps DEF TourBooksNext, deletesDestination
<1> QED BY <1>1, <1>3, <1>4

-----------------------------------------------------------------------------
\* The reader of a paged report

\* How far down the rows have been read.
ReadDownTo == IF pager.rows = "read" THEN skip(pager.page) + PageRows ELSE skip(pager.page)

Pager == [page : Nat \ {0}, rows : {"unread", "read"}, total : Nat, counted : BOOLEAN, shown : SUBSET Listed,
          at : {"start", "reading", "done"}]

\* Rows that were there at the beginning are in what has been read of the list, or
\* still below.  A total that was counted before the rows is the list's length.
PagerInv ==
    /\ list \in Seq(Listed) /\ pager \in Pager /\ slipped \in BOOLEAN
    /\ pager.at = "start" => pager = NotStarted
    /\ pager.at # "start" => first \subseteq ToSet(list)
    /\ pager.at = "reading" => \A i \in 1..Len(list) : list[i] \in first /\ i <= ReadDownTo => list[i] \in pager.shown
    /\ pager.at = "reading" /\ pager.counted /\ pager.rows = "unread" /\ ~slipped => pager.total = Len(list)
    /\ pager.at = "reading" /\ pager.counted /\ pager.rows = "read" /\ ~slipped =>
          (pager.total <= pager.page * PageRows => first \subseteq pager.shown)
    /\ EveryRowShown

\* Pages follow each other without a gap.
LEMMA SkipIs ==
    ASSUME NEW n \in Nat \ {0}
    PROVE  skip(n) \in Nat /\ skip(n) + PageRows = n * PageRows /\ skip(n + 1) = skip(n) + PageRows
<1>1. \A k \in Nat, m \in Nat : m * k \in Nat
  OBVIOUS
<1>2. n - 1 \in Nat /\ n \in Nat /\ PageRows \in Nat
  BY ReportsAssumption
<1>3. (n - 1) * PageRows \in Nat
  BY <1>1, <1>2
<1>4. (n - 1) * PageRows + PageRows = n * PageRows /\ (n + 1) - 1 = n
  BY <1>2
<1> QED BY <1>3, <1>4 DEF skip

\* A reader who has not begun has read nothing.
LEMMA NotStartedIs ==
    NotStarted \in Pager /\ NotStarted.page = 1 /\ NotStarted.rows = "unread" /\ ~NotStarted.counted /\ NotStarted.at = "start"
  BY DEF NotStarted, Pager

\* Nobody reads at the start.
LEMMA PagerStart == PagerInit => PagerInv
<1> SUFFICES ASSUME PagerInit PROVE PagerInv
  OBVIOUS
<1>1. list = <<>> /\ pager = NotStarted /\ first = {} /\ slipped = FALSE
  BY DEF PagerInit
<1>2. NotStarted \in Pager /\ NotStarted.at = "start"
  BY NotStartedIs
<1>3. <<>> \in Seq(Listed)
  OBVIOUS
<1>4. pager.at # "reading" /\ pager.at # "done"
  BY <1>1, <1>2
<1> QED BY <1>1, <1>2, <1>3, <1>4 DEF PagerInv, EveryRowShown

\* A row comes in: the others keep their order.
LEMMA InsertedRow ==
    ASSUME NEW s \in Seq(Listed), NEW x \in Listed, NEW k \in 1..Len(s) + 1
    PROVE  /\ InsertAt(s, k, x) \in Seq(Listed) /\ Len(InsertAt(s, k, x)) = Len(s) + 1
           /\ \A i \in 1..Len(s) + 1 :
                 InsertAt(s, k, x)[i] = IF i < k THEN s[i] ELSE IF i = k THEN x ELSE s[i - 1]
<1> DEFINE u == SubSeq(s, 1, k - 1)
           v == SubSeq(s, k, Len(s))
<1>1. u \in Seq(Listed) /\ Len(u) = k - 1 /\ \A i \in 1..(k - 1) : u[i] = s[i]
  OBVIOUS
<1>2. v \in Seq(Listed) /\ Len(v) = Len(s) - k + 1 /\ \A i \in 1..(Len(s) - k + 1) : v[i] = s[k + i - 1]
  OBVIOUS
<1> HIDE DEF u, v
<1>3. InsertAt(s, k, x) = (u \o <<x>>) \o v
  BY DEF InsertAt, u, v
<1>4. u \o <<x>> \in Seq(Listed) /\ Len(u \o <<x>>) = k /\ (u \o <<x>>)[k] = x
      /\ \A i \in 1..(k - 1) : (u \o <<x>>)[i] = s[i]
  BY <1>1
<1> DEFINE w == u \o <<x>>
<1> HIDE DEF w
<1>5. w \in Seq(Listed) /\ Len(w) = k /\ w[k] = x /\ \A i \in 1..(k - 1) : w[i] = s[i]
  BY <1>4 DEF w
<1>6. w \o v \in Seq(Listed) /\ Len(w \o v) = Len(s) + 1
  <2>1. Len(w \o v) = Len(w) + Len(v) /\ w \o v \in Seq(Listed)
    BY ONLY <1>2, <1>5, ConcatProperties
  <2>2. k \in Int /\ Len(s) \in Int /\ Len(w) = k /\ Len(v) = Len(s) - k + 1
    BY <1>2, <1>5
  <2>3. k + (Len(s) - k + 1) = Len(s) + 1
    BY <2>2
  <2> QED BY <2>1, <2>2, <2>3
<1>7. ASSUME NEW i \in 1..Len(s) + 1
      PROVE  (w \o v)[i] = IF i < k THEN s[i] ELSE IF i = k THEN x ELSE s[i - 1]
  <2>1. CASE i <= k
    <3>1. (w \o v)[i] = w[i] /\ i \in 1..k /\ (i < k \/ i = k)
      BY <1>2, <1>5, <2>1
    <3>2. k \in Int /\ (i < k => i \in 1..(k - 1) /\ i # k) /\ ~(i < k /\ i = k)
      BY <3>1
    <3> QED BY ONLY <1>5, <3>1, <3>2
  <2>2. CASE i > k
    <3>1. (w \o v)[i] = v[i - k] /\ i - k \in 1..(Len(s) - k + 1)
      BY <1>2, <1>5, <2>2
    <3> QED BY <1>2, <2>2, <3>1
  <2>3. i \in Int /\ k \in Int
    OBVIOUS
  <2>4. i <= k \/ i > k
    BY <2>3
  <2> QED BY <2>1, <2>2, <2>4
<1>8. InsertAt(s, k, x) = w \o v
  BY <1>3 DEF w
<1> QED BY <1>6, <1>7, <1>8

\* A row that comes in moves those below it down, out of the pages that were read at most.
LEMMA RowKeeps == ASSUME PagerInv, NEW x \in Listed, rowAdded(x) PROVE PagerInv'
<1>1. PICK below \in {0, 1} : below <= Len(list) /\ list' = InsertAt(list, below + 1, x)
  BY DEF rowAdded
<1>2. /\ x \notin ToSet(list) /\ slipped' = (slipped \/ (pager.rows = "read") # pager.counted)
      /\ pager' = pager /\ first' = first
  BY DEF rowAdded
<1>3. list \in Seq(Listed) /\ below + 1 \in 1..Len(list) + 1 /\ Len(list) \in Nat
  BY <1>1 DEF PagerInv
<1>4. /\ list' \in Seq(Listed) /\ Len(list') = Len(list) + 1
      /\ \A i \in 1..Len(list) + 1 :
            list'[i] = IF i < below + 1 THEN list[i] ELSE IF i = below + 1 THEN x ELSE list[i - 1]
  <2> DEFINE k == below + 1
  <2>1. k \in 1..Len(list) + 1
    BY <1>3
  <2> HIDE DEF k
  <2>2. /\ InsertAt(list, k, x) \in Seq(Listed) /\ Len(InsertAt(list, k, x)) = Len(list) + 1
        /\ \A i \in 1..Len(list) + 1 :
              InsertAt(list, k, x)[i] = IF i < k THEN list[i] ELSE IF i = k THEN x ELSE list[i - 1]
    BY <1>3, <2>1, InsertedRow
  <2> QED BY <1>1, <2>2 DEF k
<1>5. pager \in Pager /\ slipped \in BOOLEAN /\ ReadDownTo' = ReadDownTo /\ ReadDownTo \in Nat
  <2>1. pager \in Pager /\ slipped \in BOOLEAN
    BY DEF PagerInv
  <2>2. skip(pager.page) \in Nat /\ PageRows \in Nat
    BY <2>1, SkipIs, ReportsAssumption DEF Pager
  <2> QED BY <1>2, <2>1, <2>2 DEF ReadDownTo, skip
<1>6. slipped' \in BOOLEAN
  BY <1>2, <1>5
<1>7. ~slipped' => ~slipped /\ (pager.rows = "read" <=> pager.counted)
  BY <1>2, <1>5 DEF Pager
<1>8. ASSUME pager.at # "start" PROVE first \subseteq ToSet(list')
  <2>1. first \subseteq ToSet(list)
    BY <1>8 DEF PagerInv
  <2> SUFFICES ASSUME NEW z \in first PROVE \E i \in DOMAIN list' : list'[i] = z
    BY DEF ToSet
  <2>2. PICK j \in 1..Len(list) : list[j] = z
    BY <1>3, <2>1 DEF ToSet
  <2>3. CASE j < below + 1
    BY <1>3, <1>4, <2>2, <2>3
  <2>4. CASE j >= below + 1
    <3>1. j + 1 \in 1..Len(list) + 1 /\ ~(j + 1 < below + 1) /\ j + 1 # below + 1 /\ (j + 1) - 1 = j
      BY <1>3, <2>2, <2>4
    <3>2. list'[j + 1] = list[j] /\ j + 1 \in DOMAIN list'
      BY <1>4, <3>1
    <3> QED BY <2>2, <3>2
  <2> QED BY <1>3, <2>3, <2>4
<1>9. ASSUME pager.at = "reading", NEW i \in 1..Len(list'), list'[i] \in first, i <= ReadDownTo
      PROVE  list'[i] \in pager.shown
  <2>1. x \notin first
    BY <1>2, <1>9 DEF PagerInv
  <2>2. \A j \in 1..Len(list) : list[j] \in first /\ j <= ReadDownTo => list[j] \in pager.shown
    BY <1>9 DEF PagerInv
  <2>3. CASE i < below + 1
    BY <1>1, <1>3, <1>4, <1>9, <2>2, <2>3
  <2>4. CASE i = below + 1
    BY <1>3, <1>4, <1>9, <2>1, <2>4
  <2>5. CASE i > below + 1
    <3>1. i - 1 \in 1..Len(list) /\ list'[i] = list[i - 1] /\ i - 1 <= ReadDownTo
      BY <1>3, <1>4, <1>5, <1>9, <2>5
    <3> QED BY <1>9, <2>2, <3>1
  <2> QED BY <1>3, <1>4, <2>3, <2>4, <2>5
<1>10. EveryRowShown'
  BY <1>2, <1>7 DEF PagerInv, EveryRowShown
<1> HIDE DEF ReadDownTo
<1>11. pager.at = "reading" => \A i \in 1..Len(list') : list'[i] \in first /\ i <= ReadDownTo => list'[i] \in pager.shown
  BY <1>9
<1>12. ~(pager.counted /\ pager.rows = "unread" /\ ~slipped')
  BY <1>7
<1>13. pager.at = "reading" /\ pager.counted /\ pager.rows = "read" /\ ~slipped' =>
          (pager.total <= pager.page * PageRows => first \subseteq pager.shown)
  BY <1>7 DEF PagerInv
<1>14. pager.at = "start" => pager = NotStarted
  BY DEF PagerInv
<1> QED BY <1>2, <1>4, <1>5, <1>6, <1>8, <1>10, <1>11, <1>12, <1>13, <1>14 DEF PagerInv

\* The reader begins with all rows still below.
LEMMA OpenKeeps == ASSUME PagerInv, openReport PROVE PagerInv'
<1>1. pager = NotStarted /\ pager' = [pager EXCEPT !.at = "reading"] /\ first' = ToSet(list) /\ UNCHANGED <<list, slipped>>
  BY DEF openReport, PagerInv
<1>3. pager' \in Pager /\ pager'.page = 1 /\ pager'.rows = "unread" /\ ~pager'.counted /\ pager'.at = "reading"
  BY <1>1, NotStartedIs DEF Pager
<1>4. ReadDownTo' = 0
  <2>1. skip(1) = 0
    BY ReportsAssumption DEF skip
  <2> QED BY <1>3, <2>1 DEF ReadDownTo, skip
<1>5. list \in Seq(Listed) /\ slipped \in BOOLEAN /\ Len(list) \in Nat
  BY DEF PagerInv
<1>6. \A i \in 1..Len(list) : ~(i <= 0)
  BY <1>5
<1> QED BY <1>1, <1>3, <1>4, <1>5, <1>6 DEF PagerInv, EveryRowShown

\* A page is read: what is above its end has been shown.
LEMMA ReadKeeps == ASSUME PagerInv, readRows PROVE PagerInv'
<1> DEFINE page == pager.page
           more == {list[i] : i \in {j \in 1..Len(list) : skip(page) < j /\ j <= skip(page) + PageRows}}
<1>1. /\ pager.at = "reading" /\ pager.rows = "unread"
      /\ pager' = [[pager EXCEPT !.rows = "read"] EXCEPT !.shown = pager.shown \cup more]
      /\ UNCHANGED <<list, first, slipped>>
  BY DEF readRows
<1>2. pager \in Pager /\ list \in Seq(Listed) /\ slipped \in BOOLEAN /\ page \in Nat \ {0} /\ Len(list) \in Nat
  BY DEF PagerInv, Pager
<1>3. more \subseteq Listed
  BY <1>2
<1>4. \A i \in 1..Len(list) : skip(page) < i /\ i <= skip(page) + PageRows => list[i] \in more
  OBVIOUS
<1> HIDE DEF more
<1>5. /\ pager' \in Pager /\ pager'.page = page /\ pager'.rows = "read" /\ pager'.shown = pager.shown \cup more
      /\ pager'.at = "reading" /\ pager'.counted = pager.counted /\ pager'.total = pager.total
  BY <1>1, <1>2, <1>3 DEF Pager
<1>6. /\ skip(page) \in Nat /\ PageRows \in Nat /\ skip(page) + PageRows = page * PageRows
      /\ ReadDownTo = skip(page) /\ ReadDownTo' = skip(page) + PageRows
  BY <1>1, <1>2, <1>5, SkipIs, ReportsAssumption DEF ReadDownTo, skip
<1>7. ASSUME NEW i \in 1..Len(list), list[i] \in first, i <= skip(page) + PageRows PROVE list[i] \in pager'.shown
  <2>1. CASE i <= skip(page)
    BY <1>1, <1>5, <1>6, <1>7, <2>1 DEF PagerInv
  <2>2. CASE skip(page) < i
    BY <1>4, <1>5, <1>7, <2>2
  <2> QED BY <1>2, <1>6, <2>1, <2>2
<1>8. ASSUME pager.counted, ~slipped, pager.total <= page * PageRows PROVE first \subseteq pager'.shown
  <2>1. pager.total = Len(list)
    BY <1>1, <1>8 DEF PagerInv
  <2> SUFFICES ASSUME NEW z \in first PROVE z \in pager'.shown
    OBVIOUS
  <2>2. PICK i \in 1..Len(list) : list[i] = z
    BY <1>1, <1>2 DEF PagerInv, ToSet
  <2>3. i <= skip(page) + PageRows
    BY <1>2, <1>6, <1>8, <2>1
  <2> QED BY <1>7, <2>2, <2>3
<1>9. first \subseteq ToSet(list)
  BY <1>1 DEF PagerInv
<1>10. EveryRowShown'
  BY <1>5 DEF EveryRowShown
<1> HIDE DEF page, ReadDownTo
<1> QED BY <1>1, <1>2, <1>5, <1>6, <1>7, <1>8, <1>9, <1>10 DEF PagerInv

\* The total is counted.
LEMMA CountKeeps == ASSUME PagerInv, countOf PROVE PagerInv'
<1>1. /\ pager.at = "reading" /\ ~pager.counted
      /\ pager' = [[pager EXCEPT !.total = Len(list)] EXCEPT !.counted = TRUE]
      /\ UNCHANGED <<list, first, slipped>>
  BY DEF countOf
<1>2. pager \in Pager /\ list \in Seq(Listed) /\ slipped \in BOOLEAN /\ pager.page \in Nat \ {0} /\ Len(list) \in Nat
  BY DEF PagerInv, Pager
<1>3. /\ pager' \in Pager /\ pager'.page = pager.page /\ pager'.rows = pager.rows /\ pager'.shown = pager.shown
      /\ pager'.at = "reading" /\ pager'.total = Len(list)
  BY <1>1, <1>2 DEF Pager
<1>4. ReadDownTo' = ReadDownTo
  BY <1>3 DEF ReadDownTo, skip
<1>5. ASSUME pager.rows = "read", Len(list) <= pager.page * PageRows PROVE first \subseteq pager.shown
  <2>1. ReadDownTo = pager.page * PageRows
    BY <1>2, <1>5, SkipIs DEF ReadDownTo
  <2>2. PageRows \in Nat /\ pager.page * PageRows \in Nat
    <3>1. \A k, m \in Nat : m * k \in Nat
      OBVIOUS
    <3> QED BY <1>2, <3>1, ReportsAssumption
  <2> SUFFICES ASSUME NEW z \in first PROVE z \in pager.shown
    OBVIOUS
  <2>3. PICK i \in 1..Len(list) : list[i] = z
    BY <1>1, <1>2 DEF PagerInv, ToSet
  <2>4. i <= ReadDownTo
    BY <1>2, <1>5, <2>1, <2>2
  <2> QED BY <1>1, <2>3, <2>4 DEF PagerInv
<1>6. \A i \in 1..Len(list) : list[i] \in first /\ i <= ReadDownTo => list[i] \in pager.shown
  BY <1>1 DEF PagerInv
<1>7. first \subseteq ToSet(list)
  BY <1>1 DEF PagerInv
<1>8. EveryRowShown'
  BY <1>3 DEF EveryRowShown
<1> HIDE DEF ReadDownTo
<1> QED BY <1>1, <1>2, <1>3, <1>4, <1>5, <1>6, <1>7, <1>8 DEF PagerInv

\* The page is turned, or there is none left.
LEMMA TurnKeeps == ASSUME PagerInv, turnPage PROVE PagerInv'
<1>1. /\ pager.at = "reading" /\ pager.rows = "read" /\ pager.counted /\ UNCHANGED <<list, first, slipped>>
  BY DEF turnPage
<1>2. /\ pager \in Pager /\ list \in Seq(Listed) /\ slipped \in BOOLEAN /\ pager.page \in Nat \ {0} /\ pager.total \in Nat
      /\ first \subseteq ToSet(list)
  BY <1>1 DEF PagerInv, Pager
<1>3. CASE pager.page * PageRows < pager.total
  <2>1. pager' = [[[pager EXCEPT !.page = pager.page + 1] EXCEPT !.rows = "unread"] EXCEPT !.counted = FALSE]
    BY <1>3 DEF turnPage
  <2>2. /\ pager' \in Pager /\ pager'.page = pager.page + 1 /\ pager'.rows = "unread" /\ ~pager'.counted
        /\ pager'.shown = pager.shown /\ pager'.at = "reading"
    <3>1. pager.page + 1 \in Nat \ {0}
      BY <1>2
    <3> QED BY <1>1, <1>2, <2>1, <3>1 DEF Pager
  <2>3. ReadDownTo' = ReadDownTo
    BY <1>1, <1>2, <2>2, SkipIs DEF ReadDownTo, skip
  <2>4. \A i \in 1..Len(list) : list[i] \in first /\ i <= ReadDownTo => list[i] \in pager.shown
    BY <1>1 DEF PagerInv
  <2>5. EveryRowShown'
    BY <2>2 DEF EveryRowShown
  <2> HIDE DEF ReadDownTo
  <2> QED BY <1>1, <1>2, <2>2, <2>3, <2>4, <2>5 DEF PagerInv
<1>4. CASE ~(pager.page * PageRows < pager.total)
  <2>1. pager' = [pager EXCEPT !.at = "done"]
    BY <1>4 DEF turnPage
  <2>2. pager' \in Pager /\ pager'.at = "done" /\ pager'.shown = pager.shown
    BY <1>2, <2>1 DEF Pager
  <2>3. pager.total <= pager.page * PageRows
    <3>1. \A k, m \in Nat : m * k \in Nat
      OBVIOUS
    <3>2. pager.page * PageRows \in Nat
      BY <1>2, <3>1, ReportsAssumption
    <3> QED BY <1>2, <1>4, <3>2
  <2>4. ~slipped => first \subseteq pager.shown
    BY <1>1, <2>3 DEF PagerInv
  <2> QED BY <1>1, <1>2, <2>2, <2>4 DEF PagerInv, EveryRowShown
<1> QED BY <1>3, <1>4

\* Every step of the reader and of the list, and none.
LEMMA PagerStep == PagerInv /\ (PagerNext \/ UNCHANGED pagerVars) => PagerInv'
<1> SUFFICES ASSUME PagerInv, PagerNext \/ UNCHANGED pagerVars PROVE PagerInv'
  OBVIOUS
<1>1. CASE UNCHANGED pagerVars
  BY <1>1 DEF pagerVars, PagerInv, EveryRowShown, ReadDownTo, skip
<1>2. CASE PagerNext
  BY <1>2, RowKeeps, OpenKeeps, ReadKeeps, CountKeeps, TurnKeeps DEF PagerNext
<1> QED BY <1>1, <1>2

-----------------------------------------------------------------------------
\* The figures of the reports

\* A total is the community modules' sum over a set.
LEMMA TotalIs == \A f : TotalOf(f) = SumFunctionOnSet(f, DOMAIN f)
  BY DEF TotalOf, FoldFunction, SumFunctionOnSet

\* So many rows cost so many times the amount.
LEMMA AmountIs ==
    ASSUME NEW S, IsFiniteSet(S)
    PROVE  AmountOf(S) = Amount * Cardinality(S) /\ Cardinality(S) \in Nat /\ AmountOf(S) \in Nat
<1> DEFINE f == [b \in S |-> Amount]
<1>1. AmountOf(S) = SumFunctionOnSet(f, S)
  BY TotalIs DEF AmountOf
<1>2. (\A b \in S : f[b] = Amount) /\ Amount \in Int
  BY DEF Amount
<1> HIDE DEF f
<1>3. SumFunctionOnSet(f, S) = Amount * Cardinality(S)
  BY <1>2, SumOfEqual
<1>4. Cardinality(S) \in Nat
  BY FS_CardinalityType
<1>5. Amount * Cardinality(S) \in Nat
  BY <1>4 DEF Amount
<1> QED BY <1>1, <1>3, <1>4, <1>5

\* What rows cost by key adds up to what they cost.
LEMMA AmountsByKey ==
    ASSUME NEW S, IsFiniteSet(S), NEW key, NEW K, IsFiniteSet(K), \A x \in S : key[x] \in K,
           NEW F, DOMAIN F = K, \A k \in K : F[k] = AmountOf(Keyed(S, key, k))
    PROVE  TotalOf(F) = AmountOf(S)
<1>1. \A k \in K : F[k] = Amount * Cardinality(Keyed(S, key, k))
  <2> SUFFICES ASSUME NEW k \in K PROVE F[k] = Amount * Cardinality(Keyed(S, key, k))
    OBVIOUS
  <2>1. IsFiniteSet(Keyed(S, key, k))
    BY FS_Subset DEF Keyed
  <2> QED BY <2>1, AmountIs
<1>2. SumFunctionOnSet(F, K) = Amount * Cardinality(S)
  BY <1>1, CountByKey DEF Amount
<1> QED BY <1>2, TotalIs, AmountIs

\* And so do their numbers.
LEMMA CountsByKey ==
    ASSUME NEW S, IsFiniteSet(S), NEW key, NEW K, IsFiniteSet(K), \A x \in S : key[x] \in K,
           NEW F, DOMAIN F = K, \A k \in K : F[k] = Cardinality(Keyed(S, key, k))
    PROVE  TotalOf(F) = Cardinality(S)
<1>1. \A k \in K : F[k] = 1 * Cardinality(Keyed(S, key, k))
  <2> SUFFICES ASSUME NEW k \in K PROVE F[k] = 1 * Cardinality(Keyed(S, key, k))
    OBVIOUS
  <2>1. IsFiniteSet(Keyed(S, key, k))
    BY FS_Subset DEF Keyed
  <2>2. Cardinality(Keyed(S, key, k)) \in Nat
    BY <2>1, FS_CardinalityType
  <2> QED BY <2>2
<1>2. SumFunctionOnSet(F, K) = 1 * Cardinality(S)
  BY <1>1, CountByKey
<1>3. Cardinality(S) \in Nat
  BY FS_CardinalityType
<1> QED BY <1>2, <1>3, TotalIs

\* What only some rows have, as a sum over all.
LEMMA TotalOfPart ==
    ASSUME NEW f, NEW S, IsFiniteSet(S), Whole(f, S), NEW g, DOMAIN g \subseteq S,
           \A x \in DOMAIN g : g[x] = f[x], \A x \in S : x \notin DOMAIN g => f[x] = 0
    PROVE  TotalOf(g) = SumFunctionOnSet(f, S)
<1>1. IsFiniteSet(DOMAIN g) /\ Whole(f, DOMAIN g)
  BY FS_Subset DEF Whole
<1>2. SumFunctionOnSet(f, DOMAIN g) = SumFunctionOnSet(g, DOMAIN g)
  BY <1>1, SumSame
<1>3. SumFunctionOnSet(f, S) = SumFunctionOnSet(f, DOMAIN g)
  BY SumOnPart
<1> QED BY <1>2, <1>3, TotalIs

\* Always is every instant up to the end of the last day.
LEMMA AlwaysAll ==
    /\ \A i : i \in Always <=> i \in Nat /\ i <= 2 * LastDay + 1
    /\ \A i \in Nat : startOfDay(i) \in Nat /\ 2 * startOfDay(i) <= i /\ i <= 2 * startOfDay(i) + 1
<1>1. LastDay \in Nat
  BY ReportsAssumption
<1>2. \A i \in Nat : startOfDay(i) \in Nat /\ 2 * startOfDay(i) <= i /\ i <= 2 * startOfDay(i) + 1
  BY DEF startOfDay
<1>3. ASSUME NEW i, i \in Always PROVE i \in Nat /\ i <= 2 * LastDay + 1
  <2>1. PICK d \in 0..LastDay : i \in {2 * d, 2 * d + 1}
    BY <1>3 DEF Always, MomentsOf
  <2> QED BY <1>1, <2>1
<1>4. ASSUME NEW i \in Nat, i <= 2 * LastDay + 1 PROVE i \in Always
  <2> DEFINE d == startOfDay(i)
  <2>1. d \in Nat /\ 2 * d <= i /\ i <= 2 * d + 1
    BY <1>2
  <2> HIDE DEF d
  <2>2. d \in 0..LastDay /\ i \in {2 * d, 2 * d + 1}
    BY <1>1, <1>4, <2>1
  <2> QED BY <2>2 DEF Always, MomentsOf
<1> QED BY <1>2, <1>3, <1>4

\* Rows are of instants that there are.
LEMMA RowsWhen ==
    ASSUME BooksInv
    PROVE  /\ moment \in Nat /\ startOfDay(moment) \in Nat /\ startOfDay(moment) <= LastDay
           /\ \A b \in ReportBookings : /\ paymentOf[b].at \in Always /\ paymentOf[b].at \in Nat
                                        /\ startOfDay(paymentOf[b].at) \in 0..startOfDay(moment)
                                        /\ bookingOf[b].made \in Always
                                        /\ startOfDay(bookingOf[b].made) \in 0..startOfDay(moment)
           /\ \A d \in Departures : departure[d].made \in Always
<1>1. moment \in Nat /\ moment <= 2 * LastDay + 1 /\ LastDay \in Nat
  BY ReportsAssumption DEF BooksInv, MomentInv
<1>2. startOfDay(moment) \in Nat /\ startOfDay(moment) <= LastDay
  BY <1>1, AlwaysAll
<1>3. ASSUME NEW i \in Nat, i <= moment PROVE i \in Always /\ startOfDay(i) \in 0..startOfDay(moment)
  <2>1. i \in Always
    <3>1. i <= 2 * LastDay + 1
      BY <1>1, <1>3
    <3> QED BY <3>1, AlwaysAll
  <2>2. startOfDay(i) \in Nat /\ 2 * startOfDay(i) <= i /\ i <= 2 * startOfDay(i) + 1
    BY AlwaysAll
  <2>3. 2 * startOfDay(moment) <= moment /\ moment <= 2 * startOfDay(moment) + 1
    BY <1>1, AlwaysAll
  <2> QED BY <1>1, <1>2, <1>3, <2>1, <2>2, <2>3
<1>4. \A b \in ReportBookings : paymentOf[b].at \in Nat /\ paymentOf[b].at <= moment
  BY DEF BooksInv, PaymentsInv, PaymentRow
<1>5. \A b \in ReportBookings : bookingOf[b].made \in Nat /\ bookingOf[b].made <= moment
  BY DEF BooksInv, StaysInv, BookingRow, NotMade
<1>6. \A d \in Departures : departure[d].made \in Nat /\ departure[d].made <= moment
  BY DEF BooksInv, DeparturesInv, DepartureRow
<1> QED BY <1>1, <1>2, <1>3, <1>4, <1>5, <1>6

\* The paid rows of some instants, and their days.
PaidAt(when) == {b \in ReportBookings : paymentOf[b].status = "paid" /\ paymentOf[b].at \in when}
DayPaid == [b \in ReportBookings |-> startOfDay(paymentOf[b].at)]

\* The revenue report's rows are the payments by day.
LEMMA RevenueReportIs ==
    ASSUME NEW when
    PROVE  /\ DOMAIN revenueReport(when) = KeysIn(DayPaid, PaidAt(when))
           /\ \A d \in DOMAIN revenueReport(when) : revenueReport(when)[d] = AmountOf(Keyed(PaidAt(when), DayPaid, d))
           /\ TotalOf(revenueReport(when)) = AmountOf(PaidAt(when))
<1>1. \A b \in PaidAt(when) : DayPaid[b] = startOfDay(paymentOf[b].at)
  BY DEF PaidAt, DayPaid
<1>2. KeysIn(DayPaid, PaidAt(when)) = {startOfDay(paymentOf[b].at) : b \in PaidAt(when)}
  BY <1>1 DEF KeysIn
<1>3. \A d : Keyed(PaidAt(when), DayPaid, d) = {b \in PaidAt(when) : startOfDay(paymentOf[b].at) = d}
  BY <1>1 DEF Keyed
<1>4. revenueReport(when) = [d \in KeysIn(DayPaid, PaidAt(when)) |-> AmountOf(Keyed(PaidAt(when), DayPaid, d))]
  BY <1>2, <1>3 DEF revenueReport, PaidAt
<1>5. IsFiniteSet(PaidAt(when)) /\ IsFiniteSet(KeysIn(DayPaid, PaidAt(when)))
  <2>1. PaidAt(when) \subseteq ReportBookings
    BY DEF PaidAt
  <2> QED BY <2>1, FS_Subset, KeysFinite, ReportsAssumption
<1>6. \A b \in PaidAt(when) : DayPaid[b] \in KeysIn(DayPaid, PaidAt(when))
  BY DEF KeysIn
<1>7. /\ DOMAIN revenueReport(when) = KeysIn(DayPaid, PaidAt(when))
      /\ \A d \in KeysIn(DayPaid, PaidAt(when)) : revenueReport(when)[d] = AmountOf(Keyed(PaidAt(when), DayPaid, d))
  BY <1>4
<1> QED BY <1>5, <1>6, <1>7, AmountsByKey

-----------------------------------------------------------------------------
\* What is given back of a payment, what is kept of one that was paid back in part,
\* and the revenue are the whole payment.
LEMMA KeptHolds == ASSUME BooksInv PROVE RevenueIsKept
<1> DEFINE R == ReportBookings
           With(statuses) == {b \in paymentsReport(Always) : paymentOf[b].status \in statuses}
           partly == With({"partially_refunded"})
           taken == With({"paid", "partially_refunded", "refunded"})
           parts == [b \in partly |-> Amount - paymentOf[b].back]
           fPaid == [b \in R |-> IF b \in Paid THEN Amount ELSE 0]
           fBack == [b \in R |-> paymentOf[b].back]
           fPart == [b \in R |-> IF b \in partly THEN Amount - paymentOf[b].back ELSE 0]
           fMore == [b \in R |-> fPaid[b] + fBack[b]]
           fAll == [b \in R |-> IF b \in taken THEN Amount ELSE 0]
<1>1. IsFiniteSet(R) /\ Amount = 2
  BY ReportsAssumption DEF Amount
<1>2. \A b \in R : paymentOf[b] \in PaymentRow /\ BackAsStatus(paymentOf[b]) /\ paymentOf[b].at \in Always
  BY RowsWhen DEF BooksInv, PaymentsInv
<1>3. \A b \in R : paymentOf[b].back \in Nat /\ Amount - paymentOf[b].back \in Nat
  BY <1>1, <1>2 DEF PaymentRow
<1>4. \A b \in R : b \in Paid <=> paymentOf[b].status = "paid"
  BY DEF Paid
<1>5. \A b \in R : paymentOf[b].status \notin {"none"} => paymentOf[b] # NotPaid
  BY DEF NotPaid
<1>6. /\ \A b \in R : b \in partly <=> paymentOf[b].status = "partially_refunded"
      /\ \A b \in R : b \in taken <=> paymentOf[b].status \in {"paid", "partially_refunded", "refunded"}
      /\ partly \subseteq R /\ taken \subseteq R /\ Paid \subseteq R
  BY <1>2, <1>5 DEF paymentsReport, Paid
<1> HIDE DEF partly, taken
<1>7. Whole(fPaid, R) /\ Whole(fBack, R) /\ Whole(fPart, R) /\ Whole(fMore, R) /\ Whole(fAll, R)
  BY <1>1, <1>3 DEF Whole
<1>8. ASSUME NEW b \in R PROVE fMore[b] = fPaid[b] + fBack[b] /\ fAll[b] = fMore[b] + fPart[b]
  <2>1. paymentOf[b].status \in {"none", "paid", "failed", "partially_refunded", "refunded"}
    BY <1>2 DEF PaymentRow
  <2>2. CASE paymentOf[b].status \in {"none", "failed"}
    BY <1>1, <1>2, <1>4, <1>6, <2>2 DEF BackAsStatus
  <2>3. CASE paymentOf[b].status = "paid"
    BY <1>1, <1>2, <1>4, <1>6, <2>3 DEF BackAsStatus
  <2>4. CASE paymentOf[b].status = "partially_refunded"
    BY <1>1, <1>3, <1>4, <1>6, <2>4
  <2>5. CASE paymentOf[b].status = "refunded"
    BY <1>1, <1>2, <1>4, <1>6, <2>5 DEF BackAsStatus
  <2> QED BY <2>1, <2>2, <2>3, <2>4, <2>5
<1>9. /\ \A b \in Paid : fPaid[b] = Amount
      /\ \A b \in R : b \notin Paid => fPaid[b] = 0
      /\ \A b \in R : fBack[b] = paymentOf[b].back
      /\ \A b \in partly : fPart[b] = Amount - paymentOf[b].back
      /\ \A b \in R : b \notin partly => fPart[b] = 0
      /\ \A b \in taken : fAll[b] = Amount
      /\ \A b \in R : b \notin taken => fAll[b] = 0
  BY <1>6
<1> HIDE DEF fPaid, fBack, fPart, fMore, fAll
<1>10. /\ SumFunctionOnSet(fAll, R) = SumFunctionOnSet(fMore, R) + SumFunctionOnSet(fPart, R)
       /\ SumFunctionOnSet(fMore, R) = SumFunctionOnSet(fPaid, R) + SumFunctionOnSet(fBack, R)
  BY <1>1, <1>7, <1>8, SumPlus
<1>11. dashboardRevenue = SumFunctionOnSet(fPaid, R)
  <2> DEFINE g == [b \in Paid |-> Amount]
  <2>1. DOMAIN g \subseteq R /\ (\A b \in DOMAIN g : g[b] = fPaid[b]) /\ \A b \in R : b \notin DOMAIN g => fPaid[b] = 0
    BY <1>6, <1>9
  <2>2. dashboardRevenue = TotalOf(g)
    BY DEF dashboardRevenue, AmountOf
  <2> HIDE DEF g
  <2> QED BY <1>1, <1>7, <2>1, <2>2, TotalOfPart
<1>12. TotalOf(refundsReport) = SumFunctionOnSet(fBack, R)
  <2> DEFINE g == refundsReport
  <2>1. DOMAIN g = {a \in R : paymentOf[a].back > 0} /\ \A b \in DOMAIN g : g[b] = paymentOf[b].back
    BY DEF refundsReport
  <2> HIDE DEF g
  <2>2. DOMAIN g \subseteq R /\ \A b \in DOMAIN g : g[b] = fBack[b]
    BY <1>9, <2>1
  <2>3. \A b \in R : b \notin DOMAIN g => fBack[b] = 0
    BY <1>3, <1>9, <2>1
  <2>4. TotalOf(g) = SumFunctionOnSet(fBack, R)
    BY <1>1, <1>7, <2>2, <2>3, TotalOfPart
  <2> QED BY <2>4 DEF g
<1>13. TotalOf(parts) = SumFunctionOnSet(fPart, R)
  <2>1. DOMAIN parts \subseteq R /\ (\A b \in DOMAIN parts : parts[b] = fPart[b]) /\ \A b \in R : b \notin DOMAIN parts => fPart[b] = 0
    BY <1>6, <1>9
  <2> HIDE DEF parts
  <2> QED BY <1>1, <1>7, <2>1, TotalOfPart
<1>14. AmountOf(taken) = SumFunctionOnSet(fAll, R)
  <2> DEFINE g == [b \in taken |-> Amount]
  <2>1. DOMAIN g \subseteq R /\ (\A b \in DOMAIN g : g[b] = fAll[b]) /\ \A b \in R : b \notin DOMAIN g => fAll[b] = 0
    BY <1>6, <1>9
  <2>2. AmountOf(taken) = TotalOf(g)
    BY DEF AmountOf
  <2> HIDE DEF g
  <2> QED BY <1>1, <1>7, <2>1, <2>2, TotalOfPart
<1>15. dashboardRevenue + TotalOf(refundsReport) + TotalOf(parts) = AmountOf(taken)
  <2>1. SumFunctionOnSet(fPaid, R) \in Int /\ SumFunctionOnSet(fBack, R) \in Int /\ SumFunctionOnSet(fPart, R) \in Int
    BY <1>1, <1>7, SumTakes
  <2> QED BY <1>10, <1>11, <1>12, <1>13, <1>14, <2>1
<1>16. dashboardRevenue <= getPaymentMethodBreakdown
  <2> DEFINE tried == {b \in R : paymentOf[b] # NotPaid}
  <2>1. Paid \subseteq tried /\ tried \subseteq R
    BY <1>4, <1>5, <1>6
  <2>2. getPaymentMethodBreakdown = AmountOf(tried) /\ dashboardRevenue = AmountOf(Paid)
    BY DEF getPaymentMethodBreakdown, dashboardRevenue
  <2> HIDE DEF tried
  <2>3. IsFiniteSet(tried) /\ IsFiniteSet(Paid) /\ Cardinality(Paid) <= Cardinality(tried)
    BY <1>1, <2>1, FS_Subset
  <2>4. AmountOf(tried) = Amount * Cardinality(tried) /\ Cardinality(tried) \in Nat
        /\ AmountOf(Paid) = Amount * Cardinality(Paid) /\ Cardinality(Paid) \in Nat
    BY <2>3, AmountIs
  <2> QED BY <1>1, <2>2, <2>3, <2>4
<1> QED BY <1>15, <1>16 DEF RevenueIsKept, partly, taken

\* The paid rows of all instants.
LEMMA PaidAlways == ASSUME BooksInv PROVE PaidAt(Always) = Paid /\ dashboardRevenue = AmountOf(PaidAt(Always))
<1>1. PaidAt(Always) = Paid
  BY RowsWhen DEF PaidAt, Paid
<1> QED BY <1>1 DEF dashboardRevenue

\* Nothing costs nothing.
LEMMA NoAmount == AmountOf({}) = 0
<1>1. IsFiniteSet({}) /\ Cardinality({}) = 0
  BY FS_EmptySet
<1> QED BY <1>1, AmountIs DEF Amount

\* The dashboard's series and figure, and the report's days.
LEMMA RevenueHolds == ASSUME BooksInv PROVE RevenueAgrees
<1> DEFINE keys == lastNDayKeys(SeriesDays)
           when == {i \in Always : startOfDay(i) \in keys}
           series == getRevenueOverTime(SeriesDays)
           report == revenueReport(when)
           rows == {b \in Paid : startOfDay(paymentOf[b].at) + SeriesDays > startOfDay(moment)}
<1>1. TotalOf(revenueReport(Always)) = dashboardRevenue
  BY RevenueReportIs, PaidAlways
<1>2. /\ DOMAIN series = keys
      /\ \A d \in keys : series[d] = AmountOf({b \in rows : startOfDay(paymentOf[b].at) = d})
  BY DEF getRevenueOverTime
<1>3. /\ DOMAIN report = KeysIn(DayPaid, PaidAt(when))
      /\ \A d \in DOMAIN report : report[d] = AmountOf(Keyed(PaidAt(when), DayPaid, d))
  BY RevenueReportIs
<1>4. ASSUME NEW d \in keys PROVE series[d] = IF d \in DOMAIN report THEN report[d] ELSE 0
  <2> DEFINE there == {b \in Paid : startOfDay(paymentOf[b].at) = d}
  <2>1. d + SeriesDays > startOfDay(moment)
    BY DEF lastNDayKeys
  <2>2. {b \in rows : startOfDay(paymentOf[b].at) = d} = there
    BY <2>1
  <2>3. Keyed(PaidAt(when), DayPaid, d) = there
    BY RowsWhen DEF Keyed, PaidAt, DayPaid, Paid
  <2>4. CASE d \in DOMAIN report
    <3> HIDE DEF there, series, report, rows, when
    <3> QED BY <1>2, <1>3, <2>2, <2>3, <2>4
  <2>5. CASE d \notin DOMAIN report
    <3>1. \A b \in PaidAt(when) : DayPaid[b] # d
      BY <1>3, <2>5 DEF KeysIn
    <3>2. Keyed(PaidAt(when), DayPaid, d) = {}
      BY <3>1 DEF Keyed
    <3> HIDE DEF there, series, report, rows, when
    <3> QED BY <1>2, <2>2, <2>3, <2>5, <3>2, NoAmount
  <2> QED BY <2>4, <2>5
<1> HIDE DEF keys, when, series, report, rows
<1>5. \A d \in DOMAIN series : series[d] = IF d \in DOMAIN report THEN report[d] ELSE 0
  BY <1>2, <1>4
<1> QED BY <1>1, <1>5 DEF RevenueAgrees, keys, when, series, report

\* Three ranges that leave out nothing and share nothing.
LEMMA RangesHold == ASSUME BooksInv PROVE RangesAdjoin
<1> SUFFICES ASSUME NEW last \in 0..(LastDay - 1)
             PROVE  TotalOf(revenueReport(dateRangeClauses(0, last))) + TotalOf(revenueReport(Since(last + 1)))
                        + TotalOf(revenueReport({2 * last + 1})) = dashboardRevenue
  BY DEF RangesAdjoin
<1> DEFINE A == PaidAt(dateRangeClauses(0, last))
           B == PaidAt(Since(last + 1))
           C == PaidAt({2 * last + 1})
<1>1. last \in Nat /\ LastDay \in Nat
  BY ReportsAssumption
<1>2. \A b \in ReportBookings : paymentOf[b].at \in Always /\ paymentOf[b].at \in Nat
  BY RowsWhen
<1>3. ASSUME NEW b \in ReportBookings
      PROVE  /\ b \in A <=> paymentOf[b].status = "paid" /\ paymentOf[b].at <= 2 * last
             /\ b \in B <=> paymentOf[b].status = "paid" /\ 2 * last + 2 <= paymentOf[b].at
             /\ b \in C <=> paymentOf[b].status = "paid" /\ paymentOf[b].at = 2 * last + 1
  <2>1. paymentOf[b].at \in Always /\ paymentOf[b].at \in Nat /\ 2 * 0 = 0 /\ 2 * (last + 1) = 2 * last + 2
    BY <1>1, <1>2
  <2> QED BY <2>1 DEF PaidAt, dateRangeClauses, Since
<1>4. A \subseteq ReportBookings /\ B \subseteq ReportBookings /\ C \subseteq ReportBookings
  BY DEF PaidAt
<1> HIDE DEF A, B, C
<1>5. (A \cup B) \cup C = Paid /\ A \cap B = {} /\ (A \cup B) \cap C = {}
  <2>1. ASSUME NEW b \in ReportBookings, paymentOf[b].status = "paid" PROVE b \in A \/ b \in B \/ b \in C
    <3>1. \A i \in Nat : i <= 2 * last \/ i = 2 * last + 1 \/ 2 * last + 2 <= i
      BY <1>1
    <3>2. paymentOf[b].at <= 2 * last \/ paymentOf[b].at = 2 * last + 1 \/ 2 * last + 2 <= paymentOf[b].at
      BY <1>2, <3>1
    <3> QED BY <1>3, <2>1, <3>2
  <2>2. \A b \in ReportBookings : ~(b \in A /\ b \in B) /\ ~((b \in A \/ b \in B) /\ b \in C)
    BY <1>1, <1>2, <1>3
  <2>3. \A b \in ReportBookings : b \in A \/ b \in B \/ b \in C => paymentOf[b].status = "paid"
    BY <1>3
  <2> QED BY <1>4, <2>1, <2>2, <2>3 DEF Paid
<1>6. IsFiniteSet(A) /\ IsFiniteSet(B) /\ IsFiniteSet(C) /\ IsFiniteSet(A \cup B)
  BY <1>4, FS_Subset, FS_Union, ReportsAssumption
<1>7. /\ Cardinality(A \cup B) = Cardinality(A) + Cardinality(B) - Cardinality(A \cap B)
      /\ Cardinality(Paid) = Cardinality(A \cup B) + Cardinality(C) - Cardinality((A \cup B) \cap C)
  BY <1>5, <1>6, FS_Union
<1>8. Cardinality(A \cap B) = 0 /\ Cardinality((A \cup B) \cap C) = 0
  BY <1>5, FS_EmptySet
<1>9. Cardinality(A) \in Nat /\ Cardinality(B) \in Nat /\ Cardinality(C) \in Nat /\ Cardinality(A \cup B) \in Nat
  BY <1>6, FS_CardinalityType
<1>10. Cardinality(Paid) = Cardinality(A) + Cardinality(B) + Cardinality(C)
  BY <1>7, <1>8, <1>9
<1>11. /\ AmountOf(A) = Amount * Cardinality(A) /\ AmountOf(B) = Amount * Cardinality(B)
       /\ AmountOf(C) = Amount * Cardinality(C) /\ AmountOf(Paid) = Amount * Cardinality(Paid)
  <2>1. IsFiniteSet(Paid)
    BY FS_Subset, ReportsAssumption DEF Paid
  <2> QED BY <1>6, <2>1, AmountIs
<1>12. AmountOf(A) + AmountOf(B) + AmountOf(C) = AmountOf(Paid)
  <2>1. \A x, y, z \in Nat : Amount * x + Amount * y + Amount * z = Amount * (x + y + z)
    BY DEF Amount
  <2> QED BY <1>9, <1>10, <1>11, <2>1
<1>13. /\ TotalOf(revenueReport(dateRangeClauses(0, last))) = AmountOf(A)
       /\ TotalOf(revenueReport(Since(last + 1))) = AmountOf(B)
       /\ TotalOf(revenueReport({2 * last + 1})) = AmountOf(C)
  BY RevenueReportIs DEF A, B, C
<1> QED BY <1>12, <1>13 DEF dashboardRevenue

-----------------------------------------------------------------------------
\* The bookings by hotel, by customer and by day; the tours by package and place.

HotelBooked == [b \in ReportBookings |-> bookingOf[b].hotel]
CustomerBooked == [b \in ReportBookings |-> bookingOf[b].customer]
DayMade == [b \in ReportBookings |-> startOfDay(bookingOf[b].made)]
TourBooked == [d \in Departures |-> departure[d].tour]
PlaceBooked == [d \in Departures |-> DestinationOf[departure[d].tour]]

\* There are finitely many of each.
LEMMA RowsFinite ==
    /\ IsFiniteSet(BookingsMade) /\ BookingsMade \subseteq ReportBookings
    /\ IsFiniteSet(Departed) /\ Departed \subseteq Departures
<1>1. BookingsMade \subseteq ReportBookings /\ Departed \subseteq Departures
  BY DEF BookingsMade, Departed
<1> QED BY <1>1, FS_Subset, ReportsAssumption

\* The rows that have one of some keys.
KeyedIn(S, key, W) == {x \in S : key[x] \in W}

\* The numbers of a report that leaves some keys out, and of the rows that have
\* those keys, are the number of the rows.
LEMMA CountsOfThere ==
    ASSUME NEW S, IsFiniteSet(S), NEW key, NEW K, IsFiniteSet(K), NEW W, \A x \in S : key[x] \in K,
           NEW F, \A k : k \in DOMAIN F <=> k \in K /\ k \notin W, \A k \in DOMAIN F : F[k] = Cardinality(Keyed(S, key, k))
    PROVE  TotalOf(F) + Cardinality(KeyedIn(S, key, W)) = Cardinality(S)
<1> DEFINE L == DOMAIN F
           gone == {x \in S : key[x] \in W}
           there == {x \in S : key[x] \notin W}
<1>1. /\ IsFiniteSet(L) /\ IsFiniteSet(gone) /\ IsFiniteSet(there)
      /\ gone \cap there = {} /\ gone \cup there = S
  <2>1. L \subseteq K /\ gone \subseteq S /\ there \subseteq S
    OBVIOUS
  <2>2. gone \cap there = {} /\ gone \cup there = S
    OBVIOUS
  <2> HIDE DEF L, gone, there
  <2> QED BY <2>1, <2>2, FS_Subset
<1>2. \A x \in there : key[x] \in L
  OBVIOUS
<1>3. \A k \in L : Keyed(S, key, k) = Keyed(there, key, k)
  BY DEF Keyed
<1>4. DOMAIN F = L /\ \A k \in L : F[k] = Cardinality(Keyed(there, key, k))
  BY <1>3
<1> HIDE DEF L, gone, there
<1>5. TotalOf(F) = Cardinality(there)
  BY <1>1, <1>2, <1>4, CountsByKey
<1>6. Cardinality(S) = Cardinality(gone) + Cardinality(there) /\ Cardinality(gone) \in Nat /\ Cardinality(there) \in Nat
  BY <1>1, CountApart
<1>7. TotalOf(F) + Cardinality(gone) = Cardinality(S)
  BY <1>5, <1>6
<1> QED BY <1>7 DEF gone, KeyedIn

\* A top list has numbers of the counts, and none that is left out is greater.
LEMMA TopIs ==
    ASSUME NEW counts, IsFiniteSet(DOMAIN counts), NEW top \in TopLists(counts)
    PROVE  /\ \A k \in DOMAIN top : k \in DOMAIN counts /\ top[k] = counts[k]
           /\ \A k \in DOMAIN counts : k \notin DOMAIN top =>
                 Cardinality(DOMAIN top) = ListLimit /\ \A l \in DOMAIN top : counts[k] <= top[l]
<1>1. PICK S \in SUBSET DOMAIN counts :
          /\ top = Restrict(counts, S) /\ Cardinality(S) <= ListLimit
          /\ Cardinality(S) < ListLimit => S = DOMAIN counts
          /\ \A k \in S, l \in DOMAIN counts \ S : counts[l] <= counts[k]
  BY DEF TopLists
<1>2. DOMAIN top = S /\ \A k \in S : top[k] = counts[k]
  BY <1>1 DEF Restrict
<1>3. Cardinality(S) \in Nat /\ ListLimit \in Nat
  BY FS_Subset, FS_CardinalityType, ReportsAssumption
<1>4. ASSUME NEW k \in DOMAIN counts, k \notin S PROVE Cardinality(S) = ListLimit /\ \A l \in S : counts[k] <= top[l]
  BY <1>1, <1>2, <1>3, <1>4
<1> QED BY <1>1, <1>2, <1>4

\* Such a list agrees with a report of the same counts.
LEMMA TopIsAsReport ==
    ASSUME NEW S, IsFiniteSet(S), NEW key, NEW counts, DOMAIN counts = KeysIn(key, S),
           \A k \in DOMAIN counts : counts[k] = Cardinality(Keyed(S, key, k)),
           NEW F, \A k \in DOMAIN F : F[k] = Cardinality(Keyed(S, key, k)),
           NEW top \in TopLists(counts)
    PROVE  TopAgrees(top, F)
<1> SUFFICES ASSUME NEW k \in DOMAIN F
             PROVE  IF k \in DOMAIN top THEN F[k] = top[k]
                    ELSE \/ F[k] = 0
                         \/ Cardinality(DOMAIN top) = ListLimit /\ \A l \in DOMAIN top : F[k] <= top[l]
  BY DEF TopAgrees
<1>1. (k \in DOMAIN counts => F[k] = counts[k]) /\ IsFiniteSet(DOMAIN counts)
  BY KeysFinite
<1>2. CASE k \in DOMAIN top
  BY <1>1, <1>2, TopIs
<1>3. CASE k \notin DOMAIN top /\ k \in DOMAIN counts
  BY <1>1, <1>3, TopIs
<1>4. CASE k \notin DOMAIN top /\ k \notin DOMAIN counts
  <2>1. \A x \in S : key[x] # k
    BY <1>4 DEF KeysIn
  <2>2. Keyed(S, key, k) = {}
    BY <2>1 DEF Keyed
  <2> QED BY <1>4, <2>2, FS_EmptySet
<1> QED BY <1>2, <1>3, <1>4

\* A booking's hotel and customer are there.
LEMMA OfBooked ==
    ASSUME BooksInv, NEW b \in BookingsMade
    PROVE  /\ HotelBooked[b] = bookingOf[b].hotel /\ bookingOf[b].hotel \in ReportHotels
           /\ CustomerBooked[b] = bookingOf[b].customer /\ bookingOf[b].customer \in ReportCustomers
           /\ bookingOf[b].arrives \in {0, 1} /\ bookingOf[b].made \in Always /\ b \in ReportBookings
<1>1. bookingOf[b] \in BookingRow /\ b \in ReportBookings
  BY MadeRow DEF BooksInv
<1>2. bookingOf[b].made \in Always
  BY <1>1, RowsWhen
<1> QED BY <1>1, <1>2 DEF BookingRow, HotelBooked, CustomerBooked

\* The report's hotels have their bookings.
LEMMA HotelsReportIs ==
    ASSUME BooksInv
    PROVE  /\ DOMAIN hotelsReport(Always) = ReportHotels \ withdrawn
           /\ \A h \in ReportHotels \ withdrawn :
                 hotelsReport(Always)[h] = Cardinality(Keyed(BookingsMade, HotelBooked, h))
<1>1. \A h : {b \in BookingsMade : bookingOf[b].hotel = h /\ bookingOf[b].made \in Always} = Keyed(BookingsMade, HotelBooked, h)
  BY OfBooked DEF Keyed
<1> QED BY <1>1 DEF hotelsReport

\* So have its customers.
LEMMA CustomersReportIs ==
    ASSUME BooksInv
    PROVE  /\ DOMAIN customersReport(Always) = ReportCustomers \ withdrawn
           /\ \A c \in ReportCustomers \ withdrawn :
                 customersReport(Always)[c] = Cardinality(Keyed(BookingsMade, CustomerBooked, c))
<1>1. \A c : {b \in BookingsMade : bookingOf[b].customer = c /\ bookingOf[b].made \in Always} = Keyed(BookingsMade, CustomerBooked, c)
  BY OfBooked DEF Keyed
<1> QED BY <1>1 DEF customersReport

\* The bookings by hotel and by customer, those of the others apart.
LEMMA ByHotelAndCustomer ==
    ASSUME BooksInv
    PROVE  /\ TotalOf(hotelsReport(Always)) + Cardinality({b \in BookingsMade : bookingOf[b].hotel \in withdrawn})
                  = Cardinality(BookingsMade)
           /\ TotalOf(customersReport(Always)) + Cardinality({b \in BookingsMade : bookingOf[b].customer \in withdrawn})
                  = Cardinality(BookingsMade)
<1> DEFINE H == hotelsReport(Always)
           C == customersReport(Always)
<1>1. /\ \A b \in BookingsMade : HotelBooked[b] \in ReportHotels
      /\ \A b \in BookingsMade : CustomerBooked[b] \in ReportCustomers
      /\ {b \in BookingsMade : bookingOf[b].hotel \in withdrawn} = KeyedIn(BookingsMade, HotelBooked, withdrawn)
      /\ {b \in BookingsMade : bookingOf[b].customer \in withdrawn} = KeyedIn(BookingsMade, CustomerBooked, withdrawn)
  BY OfBooked DEF KeyedIn
<1>2. /\ \A h : h \in DOMAIN H <=> h \in ReportHotels /\ h \notin withdrawn
      /\ \A h \in DOMAIN H : H[h] = Cardinality(Keyed(BookingsMade, HotelBooked, h))
  BY HotelsReportIs
<1>3. /\ \A c : c \in DOMAIN C <=> c \in ReportCustomers /\ c \notin withdrawn
      /\ \A c \in DOMAIN C : C[c] = Cardinality(Keyed(BookingsMade, CustomerBooked, c))
  BY CustomersReportIs
<1>4. IsFiniteSet(BookingsMade) /\ IsFiniteSet(ReportHotels) /\ IsFiniteSet(ReportCustomers)
  BY RowsFinite, ReportsAssumption
<1> HIDE DEF H, C
<1>5. TotalOf(H) + Cardinality(KeyedIn(BookingsMade, HotelBooked, withdrawn)) = Cardinality(BookingsMade)
  BY ONLY <1>1, <1>2, <1>4, CountsOfThere
<1>6. TotalOf(C) + Cardinality(KeyedIn(BookingsMade, CustomerBooked, withdrawn)) = Cardinality(BookingsMade)
  BY ONLY <1>1, <1>3, <1>4, CountsOfThere
<1> QED BY <1>1, <1>5, <1>6 DEF H, C

\* The dashboard's hotels are as the report's.
LEMMA TopHotelsAgree ==
    ASSUME BooksInv, NEW top \in getTopHotels
    PROVE  TopAgrees(top, hotelsReport(Always))
<1> DEFINE counts == [h \in {bookingOf[b].hotel : b \in BookingsMade} |->
                         Cardinality({b \in BookingsMade : bookingOf[b].hotel = h})]
           F == hotelsReport(Always)
<1>1. top \in TopLists(counts)
  BY DEF getTopHotels
<1>2. KeysIn(HotelBooked, BookingsMade) = {bookingOf[b].hotel : b \in BookingsMade}
  BY OfBooked DEF KeysIn
<1>3. \A h : Keyed(BookingsMade, HotelBooked, h) = {b \in BookingsMade : bookingOf[b].hotel = h}
  BY OfBooked DEF Keyed
<1>4. /\ DOMAIN counts = KeysIn(HotelBooked, BookingsMade)
      /\ \A h \in DOMAIN counts : counts[h] = Cardinality(Keyed(BookingsMade, HotelBooked, h))
  BY <1>2, <1>3
<1>5. \A h \in DOMAIN F : F[h] = Cardinality(Keyed(BookingsMade, HotelBooked, h))
  BY HotelsReportIs
<1> HIDE DEF counts, F
<1>6. TopAgrees(top, F)
  BY ONLY <1>1, <1>4, <1>5, RowsFinite, TopIsAsReport
<1> QED BY <1>6 DEF F

\* The days of the series that goes back to the beginning have all bookings.
LEMMA TrendsAre ==
    ASSUME BooksInv
    PROVE  TotalOf(getBookingTrends(LastDay + 1)) = Cardinality(BookingsMade)
<1> DEFINE K == lastNDayKeys(LastDay + 1)
           F == getBookingTrends(LastDay + 1)
<1>1. startOfDay(moment) \in Nat /\ startOfDay(moment) <= LastDay /\ LastDay \in Nat
  BY RowsWhen, ReportsAssumption
<1>2. K = 0..startOfDay(moment)
  <2>1. \A d \in 0..startOfDay(moment) : d + (LastDay + 1) > startOfDay(moment)
    BY <1>1
  <2> QED BY <2>1 DEF lastNDayKeys
<1>3. \A b \in BookingsMade : DayMade[b] = startOfDay(bookingOf[b].made) /\ DayMade[b] \in K
  BY <1>2, RowsFinite, RowsWhen DEF DayMade
<1>4. \A d : {b \in BookingsMade : startOfDay(bookingOf[b].made) = d} = Keyed(BookingsMade, DayMade, d)
  BY <1>3 DEF Keyed
<1>5. DOMAIN F = K /\ \A d \in K : F[d] = Cardinality(Keyed(BookingsMade, DayMade, d))
  BY <1>4 DEF getBookingTrends
<1>6. IsFiniteSet(K)
  BY <1>1, <1>2, FS_Interval
<1> HIDE DEF K, F
<1>7. TotalOf(F) = Cardinality(BookingsMade)
  BY <1>3, <1>5, <1>6, RowsFinite, CountsByKey
<1> QED BY <1>7 DEF F

\* What a package was booked.
LEMMA ToursCount ==
    ASSUME BooksInv, NEW tours
    PROVE  /\ DOMAIN groupTourBookings(tours, Always) = tours
           /\ \A t \in tours : groupTourBookings(tours, Always)[t] = Cardinality(Keyed(Departed, TourBooked, t))
<1>1. \A t : {d \in Departed : departure[d].tour = t /\ departure[d].made \in Always} = Keyed(Departed, TourBooked, t)
  BY RowsWhen, RowsFinite DEF Keyed, TourBooked
<1> QED BY <1>1 DEF groupTourBookings

\* A tour that was booked is one of the packages, and goes to its destination.
LEMMA TourOfBooked ==
    ASSUME BooksInv, NEW d \in Departed
    PROVE  /\ TourBooked[d] = departure[d].tour /\ departure[d].tour \in ReportTours
           /\ PlaceBooked[d] = DestinationOf[departure[d].tour] /\ PlaceBooked[d] \in Destinations
<1>1. d \in Departures /\ departure[d].tour # "none" /\ departure[d] \in DepartureRow
  BY DEF Departed, BooksInv, DeparturesInv
<1>2. TourBooked[d] = departure[d].tour /\ departure[d].tour \in ReportTours
  BY <1>1 DEF DepartureRow, TourBooked
<1>3. PlaceBooked[d] = DestinationOf[departure[d].tour]
  BY <1>1 DEF PlaceBooked
<1> QED BY <1>2, <1>3, ReportsAssumption

\* The packages that are there have all tours but those of the others.
LEMMA ToursAre ==
    ASSUME BooksInv
    PROVE  TotalOf(toursReport(Always)) + Cardinality({d \in Departed : departure[d].tour \in withdrawn}) = Cardinality(Departed)
<1> DEFINE F == toursReport(Always)
<1>1. /\ \A d \in Departed : TourBooked[d] \in ReportTours
      /\ {d \in Departed : departure[d].tour \in withdrawn} = KeyedIn(Departed, TourBooked, withdrawn)
  BY TourOfBooked DEF KeyedIn
<1>2. /\ \A t : t \in DOMAIN F <=> t \in ReportTours /\ t \notin withdrawn
      /\ \A t \in DOMAIN F : F[t] = Cardinality(Keyed(Departed, TourBooked, t))
  BY ToursCount DEF toursReport
<1> HIDE DEF F
<1>3. TotalOf(F) + Cardinality(KeyedIn(Departed, TourBooked, withdrawn)) = Cardinality(Departed)
  BY ONLY <1>1, <1>2, RowsFinite, ReportsAssumption, CountsOfThere
<1> QED BY <1>1, <1>3 DEF F

\* A destination that is there has the tours of all its packages.
LEMMA DestinationIs ==
    ASSUME BooksInv
    PROVE  /\ DOMAIN destinationsReport(Always) = Destinations \ withdrawn
           /\ \A p \in Destinations \ withdrawn :
                 destinationsReport(Always)[p] = Cardinality(Keyed(Departed, PlaceBooked, p))
<1> DEFINE counts == groupTourBookings(ReportTours, Always)
           F == destinationsReport(Always)
<1>1. \A t \in ReportTours : counts[t] = Cardinality(Keyed(Departed, TourBooked, t))
  BY ToursCount
<1>2. F = [p \in Destinations \ withdrawn |-> TotalOf([t \in Keyed(ReportTours, DestinationOf, p) |-> counts[t]])]
  BY DEF destinationsReport, Keyed
<1> HIDE DEF counts
<1>3. ASSUME NEW p
      PROVE  TotalOf([t \in Keyed(ReportTours, DestinationOf, p) |-> counts[t]]) = Cardinality(Keyed(Departed, PlaceBooked, p))
  <2> DEFINE K == Keyed(ReportTours, DestinationOf, p)
             S == Keyed(Departed, PlaceBooked, p)
             f == [t \in K |-> counts[t]]
  <2>1. K \subseteq ReportTours /\ S \subseteq Departed
    BY DEF Keyed
  <2>2. \A d \in S : TourBooked[d] \in K
    BY TourOfBooked DEF Keyed
  <2>3. \A t \in K : Keyed(S, TourBooked, t) = Keyed(Departed, TourBooked, t)
    BY TourOfBooked DEF Keyed
  <2>4. DOMAIN f = K /\ \A t \in K : f[t] = Cardinality(Keyed(S, TourBooked, t))
    <3>1. \A t \in K : f[t] = counts[t]
      OBVIOUS
    <3> QED BY <1>1, <2>1, <2>3, <3>1
  <2> HIDE DEF K, S, f
  <2>5. IsFiniteSet(K) /\ IsFiniteSet(S)
    BY <2>1, FS_Subset, RowsFinite, ReportsAssumption
  <2>6. TotalOf(f) = Cardinality(S)
    BY <2>2, <2>4, <2>5, CountsByKey
  <2> QED BY <2>6 DEF K, S, f
<1>4. DOMAIN F = Destinations \ withdrawn
  BY <1>2
<1>5. \A p \in Destinations \ withdrawn : F[p] = Cardinality(Keyed(Departed, PlaceBooked, p))
  BY <1>2, <1>3
<1> QED BY <1>4, <1>5

\* The destinations that are there have all tours but those of the others.
LEMMA DestinationsAre ==
    ASSUME BooksInv
    PROVE  TotalOf(destinationsReport(Always)) + Cardinality({d \in Departed : DestinationOf[departure[d].tour] \in withdrawn})
               = Cardinality(Departed)
<1> DEFINE F == destinationsReport(Always)
<1>1. /\ \A d \in Departed : PlaceBooked[d] \in Destinations
      /\ {d \in Departed : DestinationOf[departure[d].tour] \in withdrawn} = KeyedIn(Departed, PlaceBooked, withdrawn)
  BY TourOfBooked DEF KeyedIn
<1>2. /\ \A p : p \in DOMAIN F <=> p \in Destinations /\ p \notin withdrawn
      /\ \A p \in DOMAIN F : F[p] = Cardinality(Keyed(Departed, PlaceBooked, p))
  BY DestinationIs
<1> HIDE DEF F
<1>3. TotalOf(F) + Cardinality(KeyedIn(Departed, PlaceBooked, withdrawn)) = Cardinality(Departed)
  BY ONLY <1>1, <1>2, RowsFinite, ReportsAssumption, CountsOfThere
<1> QED BY <1>1, <1>3 DEF F

\* The dashboard's destinations are as the report's.
LEMMA TopDestinationsAgree ==
    ASSUME BooksInv, NEW top \in getTopDestinations
    PROVE  TopAgrees(top, destinationsReport(Always))
<1> DEFINE counts == [p \in {DestinationOf[departure[d].tour] : d \in Departed} |->
                         Cardinality({d \in Departed : DestinationOf[departure[d].tour] = p})]
           F == destinationsReport(Always)
<1>1. top \in TopLists(counts)
  BY DEF getTopDestinations
<1>2. KeysIn(PlaceBooked, Departed) = {DestinationOf[departure[d].tour] : d \in Departed}
  BY TourOfBooked DEF KeysIn
<1>3. \A p : Keyed(Departed, PlaceBooked, p) = {d \in Departed : DestinationOf[departure[d].tour] = p}
  BY TourOfBooked DEF Keyed
<1>4. /\ DOMAIN counts = KeysIn(PlaceBooked, Departed)
      /\ \A p \in DOMAIN counts : counts[p] = Cardinality(Keyed(Departed, PlaceBooked, p))
  BY <1>2, <1>3
<1>5. \A p \in DOMAIN F : F[p] = Cardinality(Keyed(Departed, PlaceBooked, p))
  BY DestinationIs
<1> HIDE DEF counts, F
<1>6. TopAgrees(top, F)
  BY ONLY <1>1, <1>4, <1>5, RowsFinite, TopIsAsReport
<1> QED BY <1>6 DEF F

\* Every booking arrives in the range that has all arrivals.
LEMMA ArrivalsAre == ASSUME BooksInv PROVE bookingsReport(0, LastDay + 1) = BookingsMade
<1>1. LastDay \in Nat
  BY ReportsAssumption
<1>2. \A b \in BookingsMade : bookingOf[b].arrives \in {0, 1}
  BY OfBooked
<1> QED BY <1>1, <1>2 DEF bookingsReport

\* The bookings add up alike whatever they are grouped by.
LEMMA BookingsHold == ASSUME BooksInv PROVE BookingsAgree
  BY ByHotelAndCustomer, TopHotelsAgree, ArrivalsAre, TrendsAre DEF BookingsAgree

\* And so do the tours.
LEMMA ToursHold == ASSUME BooksInv PROVE ToursAgree
  BY ToursAre, DestinationsAre, TopDestinationsAgree DEF ToursAgree

-----------------------------------------------------------------------------
ReportInv == BooksInv /\ PagerInv

\* A step of the rows keeps them as they are to be.
LEMMA ReportStep == ReportInv /\ [ReportsNext]_reportVars => ReportInv'
<1> SUFFICES ASSUME ReportInv, [ReportsNext]_reportVars PROVE ReportInv'
  OBVIOUS
<1>1. CASE (HotelBooksNext \/ TourBooksNext) /\ UNCHANGED pagerVars
  BY <1>1, BooksStep, PagerStep DEF ReportInv
<1>2. CASE PagerNext /\ UNCHANGED booksVars
  BY <1>2, BooksStep, PagerStep DEF ReportInv
<1>3. CASE UNCHANGED reportVars
  BY <1>3, BooksStep, PagerStep DEF ReportInv, reportVars
<1> QED BY <1>1, <1>2, <1>3 DEF ReportsNext

\* The reports and the dashboard agree with the rows and with each other after any
\* steps of the services, and a reader of the pages misses no row.
THEOREM ReportsStaySound == ReportsSpec => []ReportsSound
<1>1. ReportsInit => ReportInv
  BY BooksStart, PagerStart DEF ReportsInit, ReportInv
<1>2. ReportInv => ReportsSound
  <2>1. ReportInv => EveryRowShown
    BY DEF ReportInv, PagerInv
  <2> QED BY <2>1, KeptHolds, RevenueHolds, RangesHold, BookingsHold, ToursHold DEF ReportInv, ReportsSound
<1> QED BY <1>1, <1>2, ReportStep, PTL DEF ReportsSpec
=============================================================================

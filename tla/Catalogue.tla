------------------------------ MODULE Catalogue ------------------------------
(***************************************************************************)
(* Destinations, tour packages and itineraries, extra services and rates.  *)
(*                                                                         *)
(* Staff edit the catalogue through services that look before they write:  *)
(* at the active tours of a destination that is deleted, at the length of  *)
(* a tour that gets another day, at the bookings that use a service, at    *)
(* the other end of a rate's window.  Each look and each write is a        *)
(* statement of its own.                                                   *)
(***************************************************************************)
EXTENDS Naturals, FiniteSets

CONSTANTS
    Places, Packages,      \* destinations and tour packages
    MaxDays,               \* bound on the length of a tour
    Extras, Stays,         \* services, and bookings that may use them
    Rates, LastDate,       \* room rates; dates are 1..LastDate
    Unset,                 \* a field that the data leaves out
    Staff                  \* calls

Dates == 1..LastDate
Lengths == 1..MaxDays

ASSUME CatalogueAssumption ==
    /\ MaxDays \in Nat \ {0} /\ LastDate \in Nat \ {0}
    /\ Unset \notin Dates \cup Lengths \cup Places
    /\ Places # {}

VARIABLES
    place,        \* destinations: "none", "kept" or "deleted"
    tour,         \* tour packages, their status and length
    itinerary,    \* the day numbers each tour has
    shop,         \* services: "none", "active" or "inactive"
    uses,         \* booking_services
    rate,         \* room rates: "new", "kept" or "gone", and their window
    job,          \* what each call has read and is to write
    stale,        \* history: calls that another write overtook
    spoiled,      \* history: tours and rates written by such a call
    shortened     \* history: tours that were made shorter

tourVars == <<place, tour, itinerary, shortened>>
catalogueVars == <<tourVars, shop, uses, rate, job, stale, spoiled>>

NoTour == [there |-> FALSE, at |-> CHOOSE d \in Places : TRUE, active |-> FALSE,
           erased |-> FALSE, days |-> 1]

NoJob == [op |-> "none", on |-> Unset, to |-> Unset, from |-> Unset, until |-> Unset, days |-> {}]

CatalogueInit ==
    /\ place = [d \in Places |-> "kept"]
    /\ tour = [t \in Packages |-> NoTour]
    /\ itinerary = [t \in Packages |-> {}]
    /\ shop = [s \in Extras |-> "active"]
    /\ uses = {}
    /\ rate = [r \in Rates |-> [is |-> "new", from |-> 1, until |-> LastDate]]
    /\ job = [c \in Staff |-> NoJob]
    /\ stale = {} /\ spoiled = {} /\ shortened = {}

-----------------------------------------------------------------------------
\* A call has read what it needs, and goes on to write.
Look(c, op, j) ==
    /\ job[c] = NoJob
    /\ job' = [job EXCEPT ![c] = [j EXCEPT !.op = op]]

On(x) == [NoJob EXCEPT !.on = x]

\* The call writes x and is answered; others that have read x are overtaken.
Write(c, x, overtakes) ==
    /\ job' = [job EXCEPT ![c] = NoJob]
    /\ stale' = (stale \cup {b \in Staff \ {c} : job[b].on = x \/ overtakes[b]}) \ {c}
    /\ spoiled' = IF c \in stale THEN spoiled \cup {x} ELSE spoiled

NoOthers == [b \in Staff |-> FALSE]

Give(data, old) == IF data = Unset THEN old ELSE data

-----------------------------------------------------------------------------
\* destinationService.js and tourPackageService.js

Here(t) == tour[t].there /\ ~tour[t].erased

\* Deletions of the destination of t that have counted its active tours.
Counted(t) == [b \in Staff |-> job[b].op = "deletePlace" /\ job[b].on = tour'[t].at]

\* createTourPackage: no look at the destination, which has only to be a row.
createTourPackage(t, d, days) ==
    /\ ~tour[t].there
    /\ tour' = [tour EXCEPT ![t] = [there |-> TRUE, at |-> d, active |-> TRUE, erased |-> FALSE, days |-> days]]
    /\ stale' = stale \cup {b \in Staff : Counted(t)[b]}
    /\ UNCHANGED <<place, itinerary, shortened, shop, uses, rate, job, spoiled>>

\* (mutant: the tours are not looked at)
MayDeletePlaceAny(d) == place[d] = "kept"

\* deleteDestination: none of the tours that name it is active.
MayDeletePlace(d) ==
    /\ place[d] = "kept"
    /\ \A t \in Packages : tour[t].there /\ tour[t].at = d => ~tour[t].active

deleteDestination(c, d) ==
    /\ MayDeletePlace(d)
    /\ Look(c, "deletePlace", On(d))
    /\ UNCHANGED <<tourVars, shop, uses, rate, stale, spoiled>>

softDeletePlace(c) ==
    /\ job[c].op = "deletePlace"
    /\ place' = [place EXCEPT ![job[c].on] = "deleted"]
    /\ Write(c, job[c].on, NoOthers)
    /\ UNCHANGED <<tour, itinerary, shortened, shop, uses, rate>>

\* updateTourPackage: the data are written over whatever the tour is then.
updateTourPackage(c, t, status, d, days) ==
    /\ Here(t)
    /\ Look(c, "updateTour", [On(t) EXCEPT !.to = status, !.from = d, !.until = days])
    /\ UNCHANGED <<tourVars, shop, uses, rate, stale, spoiled>>

tourWrite(c) ==
    LET j == job[c]  t == j.on
        new == [tour[t] EXCEPT !.active = IF j.to = Unset THEN @ ELSE j.to = "active",
                               !.at = Give(j.from, @), !.days = Give(j.until, @)]
    IN
    /\ j.op = "updateTour"
    /\ tour' = [tour EXCEPT ![t] = new]
    /\ shortened' = IF tour'[t].days < tour[t].days THEN shortened \cup {t} ELSE shortened
    /\ Write(c, t, Counted(t))
    /\ UNCHANGED <<place, itinerary, shop, uses, rate>>

deleteTourPackage(c, t) ==
    /\ Here(t)
    /\ Look(c, "deleteTour", On(t))
    /\ UNCHANGED <<tourVars, shop, uses, rate, stale, spoiled>>

softDelete(t) == [tour EXCEPT ![t].erased = TRUE, ![t].active = FALSE]

softDeleteTour(c) ==
    /\ job[c].op = "deleteTour"
    /\ tour' = softDelete(job[c].on)
    /\ Write(c, job[c].on, NoOthers)
    /\ UNCHANGED <<place, itinerary, shortened, shop, uses, rate>>

\* (mutant: off by one)
FitsOneMore(t, n) == n <= tour[t].days + 1

Fits(t, n) == n <= tour[t].days

addItineraryDay(c, t, n) ==
    /\ Here(t) /\ n \notin itinerary[t] /\ Fits(t, n)
    /\ Look(c, "addDay", [On(t) EXCEPT !.days = {n}])
    /\ UNCHANGED <<tourVars, shop, uses, rate, stale, spoiled>>

replaceItinerary(c, t, days) ==
    /\ Here(t) /\ \A n \in days : Fits(t, n)
    /\ Look(c, "replaceDays", [On(t) EXCEPT !.days = days])
    /\ UNCHANGED <<tourVars, shop, uses, rate, stale, spoiled>>

\* The INSERT (of a day that is there by now: refused, which changes nothing)
\* and the transaction that replaces all days.
itineraryWrite(c) ==
    LET t == job[c].on IN
    /\ job[c].op \in {"addDay", "replaceDays"}
    /\ itinerary' = [itinerary EXCEPT ![t] = IF job[c].op = "addDay" THEN @ \cup job[c].days ELSE job[c].days]
    /\ job' = [job EXCEPT ![c] = NoJob]
    /\ stale' = stale \ {c}
    /\ UNCHANGED <<place, tour, shortened, shop, uses, rate, spoiled>>

removeItineraryDay(t, n) ==
    /\ n \in itinerary[t]
    /\ itinerary' = [itinerary EXCEPT ![t] = @ \ {n}]
    /\ UNCHANGED <<place, tour, shortened, shop, uses, rate, job, stale, spoiled>>

-----------------------------------------------------------------------------
\* serviceCatalogService.js, and the services of createBooking

\* The status of the service is not looked at; the row has to be there.
attachService(b, s) ==
    /\ shop[s] # "none"
    /\ uses' = uses \cup {<<b, s>>}
    /\ UNCHANGED <<tourVars, shop, rate, job, stale, spoiled>>

Used(s) == \E b \in Stays : <<b, s>> \in uses

\* countBookingUsage decides between deactivation and removal.
deleteService(c, s) ==
    /\ shop[s] # "none"
    /\ Look(c, IF Used(s) THEN "deactivate" ELSE "remove", On(s))
    /\ UNCHANGED <<tourVars, shop, uses, rate, stale, spoiled>>

deactivateService(c) ==
    /\ job[c].op = "deactivate"
    /\ shop' = [shop EXCEPT ![job[c].on] = IF @ = "none" THEN @ ELSE "inactive"]
    /\ job' = [job EXCEPT ![c] = NoJob]
    /\ UNCHANGED <<tourVars, uses, rate, stale, spoiled>>

\* booking_services.service_id is a foreign key with ON DELETE RESTRICT.
Restricted(s) == Used(s)

removeService(c) ==
    /\ job[c].op = "remove"
    /\ shop' = [shop EXCEPT ![job[c].on] = IF Restricted(job[c].on) THEN @ ELSE "none"]
    /\ job' = [job EXCEPT ![c] = NoJob]
    /\ UNCHANGED <<tourVars, uses, rate, stale, spoiled>>

updateService(s, status) ==
    /\ shop[s] # "none"
    /\ shop' = [shop EXCEPT ![s] = status]
    /\ UNCHANGED <<tourVars, uses, rate, job, stale, spoiled>>

-----------------------------------------------------------------------------
\* ratePlanService.js

\* assertDateRange.
Ordered(from, until) == from < until

createRoomRate(r, from, until) ==
    /\ rate[r].is = "new" /\ Ordered(from, until)
    /\ rate' = [rate EXCEPT ![r] = [is |-> "kept", from |-> from, until |-> until]]
    /\ UNCHANGED <<tourVars, shop, uses, job, stale, spoiled>>

\* A date that the data leave out is taken from the row as it was read.
MergedOrdered(r, from, until) == Ordered(Give(from, rate[r].from), Give(until, rate[r].until))

updateRoomRate(c, r, from, until) ==
    /\ rate[r].is = "kept" /\ MergedOrdered(r, from, until)
    /\ Look(c, "updateRate", [On(r) EXCEPT !.from = from, !.until = until])
    /\ UNCHANGED <<tourVars, shop, uses, rate, stale, spoiled>>

\* Only the dates in the data are written; a rate that is gone is answered null.
rateWrite(c) ==
    LET j == job[c]  r == j.on IN
    /\ j.op = "updateRate"
    /\ rate' = [rate EXCEPT ![r] = IF @.is = "gone" THEN @
                 ELSE [is |-> "kept", from |-> Give(j.from, @.from), until |-> Give(j.until, @.until)]]
    /\ Write(c, r, NoOthers)
    /\ UNCHANGED <<tourVars, shop, uses>>

\* deleteRoomRate, and deleteRatePlan, which takes its rates along (cascade).
deleteRoomRates(gone) ==
    /\ gone # {} /\ \A r \in gone : rate[r].is = "kept"
    /\ rate' = [r \in Rates |-> IF r \in gone THEN [rate[r] EXCEPT !.is = "gone"] ELSE rate[r]]
    /\ UNCHANGED <<tourVars, shop, uses, job, stale, spoiled>>

-----------------------------------------------------------------------------
ToursNext ==
    \/ \E t \in Packages, d \in Places, n \in Lengths : createTourPackage(t, d, n)
    \/ \E t \in Packages, n \in Lengths : removeItineraryDay(t, n)
    \/ \E c \in Staff :
          \/ \E d \in Places : deleteDestination(c, d)
          \/ \E t \in Packages, to \in {Unset, "active", "inactive"}, d \in Places \cup {Unset},
                n \in Lengths \cup {Unset} : updateTourPackage(c, t, to, d, n)
          \/ \E t \in Packages : deleteTourPackage(c, t)
          \/ \E t \in Packages, n \in Lengths : addItineraryDay(c, t, n)
          \/ \E t \in Packages, days \in SUBSET Lengths : replaceItinerary(c, t, days)
          \/ softDeletePlace(c) \/ tourWrite(c) \/ softDeleteTour(c) \/ itineraryWrite(c)

ServicesNext ==
    \/ \E b \in Stays, s \in Extras : attachService(b, s)
    \/ \E s \in Extras, status \in {"active", "inactive"} : updateService(s, status)
    \/ \E c \in Staff : deactivateService(c) \/ removeService(c) \/ \E s \in Extras : deleteService(c, s)

RatesNext ==
    \/ \E r \in Rates, from \in Dates, until \in Dates : createRoomRate(r, from, until)
    \/ \E gone \in SUBSET Rates : deleteRoomRates(gone)
    \/ \E c \in Staff :
          \/ \E r \in Rates, from \in Dates \cup {Unset}, until \in Dates \cup {Unset} :
                updateRoomRate(c, r, from, until)
          \/ rateWrite(c)

CatalogueNext == ToursNext \/ ServicesNext \/ RatesNext

CatalogueSpec == CatalogueInit /\ [][CatalogueNext]_catalogueVars

-----------------------------------------------------------------------------
\* Properties

\* "Cannot delete a destination that still has active tour packages"
\* (destinationService.js:37): when a destination goes none of its tours is
\* active, unless one came to be between the look and the write.
DeletedWithoutTours ==
    [][\A d \in Places :
          place[d] = "kept" /\ place'[d] = "deleted" =>
              \/ \E c \in stale : job[c].op = "deletePlace" /\ job[c].on = d
              \/ \A t \in Packages : tour[t].there /\ tour[t].at = d => ~tour[t].active]_catalogueVars

\* A deleted tour is inactive, so that it does not keep its destination, unless an
\* update that had found it before the deletion wrote it after.
DeletedToursInactive ==
    \A t \in Packages \ spoiled : tour[t].erased => ~tour[t].active

\* The days of an itinerary are days of the tour, unless it was made shorter.
ItineraryWithinTour ==
    \A t \in Packages \ shortened : \A n \in itinerary[t] : n <= tour[t].days

\* A service that a booking uses is deactivated, never removed, also when the
\* booking comes between the count and the removal.
UsedServicesStay == \A u \in uses : shop[u[2]] # "none"

\* A rate ends after it begins, though its dates are updated one at a time, unless
\* two updates of the rate overlap.
RatesOrdered ==
    \A r \in Rates \ spoiled : rate[r].is = "kept" => rate[r].from < rate[r].until

\* What staff look at before they write still holds of what is written.
CatalogueConsistent ==
    DeletedToursInactive /\ ItineraryWithinTour /\ UsedServicesStay /\ RatesOrdered
=============================================================================

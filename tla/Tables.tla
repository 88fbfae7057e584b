-------------------------------- MODULE Tables --------------------------------
(***************************************************************************)
(* The tables of db/schema.js, the foreign keys between them, and what a   *)
(* DELETE of one row does to the others.                                   *)
(*                                                                         *)
(* Each table has one row or none, which is enough for what a key does.    *)
(* The services delete rows of a few tables for good; the others have a    *)
(* deleted_at or a status.  In pgAdmin, which the compose file starts      *)
(* beside the database, any row can be deleted by hand.                    *)
(***************************************************************************)
EXTENDS Naturals, FiniteSets

CONSTANT MaxDeleted    \* bound on the rows that are deleted explicitly

ASSUME TablesAssumption == MaxDeleted \in Nat

VARIABLES
    there,     \* the tables with a row
    unset,     \* <<table, column>> pairs that are null
    asked      \* history: tables a row of which was deleted explicitly

tableVars == <<there, unset, asked>>

\* A key: the child's column names a row of the parent.
Keys(action, columns) == {[child |-> k[1], column |-> k[2], parent |-> k[3], onDelete |-> action] : k \in columns}

PeopleKeys ==
    Keys("set null", {<<"users", "agencyId", "agencies">>})
    \cup Keys("cascade", {<<"userRoles", "userId", "users">>, <<"userRoles", "roleId", "roles">>,
                          <<"rolePermissions", "roleId", "roles">>,
                          <<"rolePermissions", "permissionId", "permissions">>})

HotelKeys ==
    Keys("set null", {<<"hotels", "agencyId", "agencies">>})
    \cup Keys("cascade", {<<"hotelImages", "hotelId", "hotels">>, <<"hotelAmenities", "hotelId", "hotels">>,
                          <<"hotelAmenities", "amenityId", "amenities">>, <<"roomTypes", "hotelId", "hotels">>})

RoomKeys ==
    Keys("cascade", {<<"roomTypeImages", "roomTypeId", "roomTypes">>, <<"roomTypeAmenities", "roomTypeId", "roomTypes">>,
                     <<"roomTypeAmenities", "amenityId", "amenities">>, <<"rooms", "roomTypeId", "roomTypes">>,
                     <<"roomRates", "roomTypeId", "roomTypes">>, <<"roomRates", "ratePlanId", "ratePlans">>})

\* (mutant: the bookings of a hotel go with it)
BookingKeysCascade ==
    Keys("set null", {<<"customers", "userId", "users">>, <<"bookings", "agentId", "users">>})
    \cup Keys("cascade", {<<"customerDocuments", "customerId", "customers">>, <<"bookings", "hotelId", "hotels">>,
                          <<"bookings", "customerId", "customers">>})

BookingKeys ==
    Keys("set null", {<<"customers", "userId", "users">>, <<"bookings", "agentId", "users">>})
    \cup Keys("cascade", {<<"customerDocuments", "customerId", "customers">>})
    \cup Keys("restrict", {<<"bookings", "hotelId", "hotels">>, <<"bookings", "customerId", "customers">>})

StayKeys ==
    Keys("cascade", {<<"bookingRooms", "bookingId", "bookings">>, <<"bookingGuests", "bookingId", "bookings">>,
                     <<"bookingServices", "bookingId", "bookings">>, <<"bookingStatusHistory", "bookingId", "bookings">>})
    \cup Keys("restrict", {<<"bookingRooms", "roomId", "rooms">>, <<"bookingRooms", "roomTypeId", "roomTypes">>,
                           <<"bookingServices", "serviceId", "services">>})
    \cup Keys("set null", {<<"bookingRooms", "checkedInById", "users">>, <<"bookingRooms", "checkedOutById", "users">>,
                           <<"bookingStatusHistory", "changedById", "users">>})

MoneyKeys ==
    Keys("restrict", {<<"payments", "bookingId", "bookings">>, <<"refunds", "paymentId", "payments">>,
                      <<"invoices", "bookingId", "bookings">>})
    \cup Keys("cascade", {<<"invoiceItems", "invoiceId", "invoices">>})

TourKeys ==
    Keys("restrict", {<<"tourPackages", "destinationId", "destinations">>, <<"tourBookings", "tourPackageId", "tourPackages">>,
                      <<"tourBookings", "customerId", "customers">>})
    \cup Keys("cascade", {<<"tourImages", "tourPackageId", "tourPackages">>, <<"tourItineraries", "tourPackageId", "tourPackages">>})

TransportKeys ==
    Keys("restrict", {<<"transportBookings", "vehicleId", "vehicles">>})
    \cup Keys("set null", {<<"drivers", "vehicleId", "vehicles">>, <<"transportBookings", "driverId", "drivers">>})

OfficeKeys ==
    Keys("restrict", {<<"commissions", "agentId", "users">>, <<"commissions", "bookingId", "bookings">>,
                      <<"notifications", "userId", "users">>})
    \cup Keys("set null", {<<"auditLogs", "userId", "users">>, <<"settings", "agencyId", "agencies">>})

ForeignKeys ==
    PeopleKeys \cup HotelKeys \cup RoomKeys \cup BookingKeys \cup StayKeys
    \cup MoneyKeys \cup TourKeys \cup TransportKeys \cup OfficeKeys

AllTables == UNION {{k.child, k.parent} : k \in ForeignKeys}

\* db/relations.js: the rows that queries load beside a row, by the field that
\* names them.
CatalogueRelations ==
    [users |-> {<<"agencyId", "agencies">>}, userRoles |-> {<<"userId", "users">>, <<"roleId", "roles">>},
     rolePermissions |-> {<<"roleId", "roles">>, <<"permissionId", "permissions">>},
     hotels |-> {<<"agencyId", "agencies">>}, hotelImages |-> {<<"hotelId", "hotels">>},
     hotelAmenities |-> {<<"hotelId", "hotels">>, <<"amenityId", "amenities">>}, roomTypes |-> {<<"hotelId", "hotels">>},
     roomTypeImages |-> {<<"roomTypeId", "roomTypes">>},
     roomTypeAmenities |-> {<<"roomTypeId", "roomTypes">>, <<"amenityId", "amenities">>},
     rooms |-> {<<"roomTypeId", "roomTypes">>}, roomRates |-> {<<"roomTypeId", "roomTypes">>, <<"ratePlanId", "ratePlans">>}]

BookingRelations ==
    [customers |-> {<<"userId", "users">>}, customerDocuments |-> {<<"customerId", "customers">>},
     bookings |-> {<<"hotelId", "hotels">>, <<"customerId", "customers">>, <<"agentId", "users">>},
     bookingRooms |-> {<<"bookingId", "bookings">>, <<"roomId", "rooms">>, <<"roomTypeId", "roomTypes">>,
                       <<"checkedInById", "users">>, <<"checkedOutById", "users">>},
     bookingGuests |-> {<<"bookingId", "bookings">>},
     bookingServices |-> {<<"bookingId", "bookings">>, <<"serviceId", "services">>},
     bookingStatusHistory |-> {<<"bookingId", "bookings">>, <<"changedById", "users">>},
     payments |-> {<<"bookingId", "bookings">>}, refunds |-> {<<"paymentId", "payments">>},
     invoices |-> {<<"bookingId", "bookings">>}, invoiceItems |-> {<<"invoiceId", "invoices">>}]

OtherRelations ==
    [tourPackages |-> {<<"destinationId", "destinations">>}, tourImages |-> {<<"tourPackageId", "tourPackages">>},
     tourItineraries |-> {<<"tourPackageId", "tourPackages">>},
     tourBookings |-> {<<"tourPackageId", "tourPackages">>, <<"customerId", "customers">>},
     drivers |-> {<<"vehicleId", "vehicles">>},
     transportBookings |-> {<<"vehicleId", "vehicles">>, <<"driverId", "drivers">>},
     commissions |-> {<<"agentId", "users">>, <<"bookingId", "bookings">>},
     notifications |-> {<<"userId", "users">>}, auditLogs |-> {<<"userId", "users">>},
     settings |-> {<<"agencyId", "agencies">>}]

-----------------------------------------------------------------------------
\* The key's child has a row, which names the parent's.
Refers(k) == k.child \in there /\ <<k.child, k.column>> \notin unset

\* A delete of the rows of gone reaches these as well.
Reached(gone) == gone \cup {k.child : k \in {x \in ForeignKeys : x.onDelete = "cascade" /\ x.parent \in gone /\ Refers(x)}}

\* (four cascades at most follow each other)
Doomed(t) == Reached(Reached(Reached(Reached({t}))))

deleteFrom(t) ==
    LET gone == Doomed(t)
        referring(action) == {k \in ForeignKeys : k.onDelete = action /\ k.parent \in gone /\ Refers(k)}
    IN  /\ t \in there /\ Cardinality(asked) < MaxDeleted
        /\ referring("restrict") = {}
        /\ there' = there \ gone
        /\ unset' = unset \cup {<<k.child, k.column>> : k \in referring("set null")}
        /\ asked' = asked \cup {t}

TablesInit ==
    /\ there \in {AllTables, AllTables \ {"payments", "refunds", "invoices", "invoiceItems", "commissions"},
                  AllTables \ {"bookingServices", "bookingRooms", "tourBookings"}}
    /\ unset = {} /\ asked = {}

deleteAmenity == deleteFrom("amenities")
deleteServiceRow == deleteFrom("services")
deleteRatePlan == deleteFrom("ratePlans")
deleteRoomRate == deleteFrom("roomRates")
removeHotelImage == deleteFrom("hotelImages")
removeHotelAmenity == deleteFrom("hotelAmenities")
removeRoomTypeImage == deleteFrom("roomTypeImages")
removeRoomTypeAmenity == deleteFrom("roomTypeAmenities")
deleteItineraryRow == deleteFrom("tourItineraries")
removeTourImage == deleteFrom("tourImages")
removeDocument == deleteFrom("customerDocuments")
deleteUserRoleRow == deleteFrom("userRoles")
deleteRolePermissionRow == deleteFrom("rolePermissions")

\* The hard deletes of the services.
ServiceDelete ==
    \/ deleteAmenity \/ deleteServiceRow \/ deleteRatePlan \/ deleteRoomRate \/ removeDocument
    \/ removeHotelImage \/ removeHotelAmenity \/ removeRoomTypeImage \/ removeRoomTypeAmenity
    \/ deleteItineraryRow \/ removeTourImage \/ deleteUserRoleRow \/ deleteRolePermissionRow

deleteByHand == \E t \in AllTables : deleteFrom(t)

TablesNext == ServiceDelete \/ deleteByHand

TablesSpec == TablesInit /\ [][TablesNext]_tableVars

-----------------------------------------------------------------------------
\* Properties

Relations(t) ==
    IF t \in DOMAIN CatalogueRelations THEN CatalogueRelations[t]
    ELSE IF t \in DOMAIN BookingRelations THEN BookingRelations[t]
    ELSE IF t \in DOMAIN OtherRelations THEN OtherRelations[t]
    ELSE {}

\* What a query loads beside a row through its relations is there.
NothingDangles ==
    \A t \in there : \A r \in Relations(t) : <<t, r[1]>> \in unset \/ r[2] \in there

\* The records of what was sold, paid and owed.
RecordTables == {"bookings", "payments", "refunds", "invoices", "commissions", "tourBookings", "transportBookings"}

BookingParts == {"bookingRooms", "bookingGuests", "bookingServices", "bookingStatusHistory"}

\* Whatever row is deleted, by a service or by hand, a record of account goes
\* only when it is the row that is deleted, a booking that stays keeps its rooms,
\* guests, services and history unless they are, and no relation that queries load
\* is left without the row it names.
RecordsKept ==
    [][ /\ RecordTables \cap there \subseteq there' \cup asked'
        /\ "bookings" \in there' => BookingParts \cap there \subseteq there' \cup asked'
        /\ NothingDangles => NothingDangles' ]_tableVars
=============================================================================

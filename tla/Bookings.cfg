\* Customers asking for types in one round, staff naming rooms in the other.
SPECIFICATION MCSpec
CONSTANTS
  c1 = c1
  c2 = c2
  c3 = c3
  s1 = s1
  s2 = s2
  s3 = s3
  t1 = t1
  t2 = t2
  NoOne = NoOne
  Rooms <- MCRooms
  RoomTypes <- MCTypes
  NumberKey = 0
  TypeOf <- MCTypeOf
  Clients = {c1, c2, c3}
  Requests <- AllRequests
  InitialRooms <- SomeOutOfService
  Staff = {s1, s2}
  Ops = {"cancel", "checkOut"}
  Sweepers = {t1}
INVARIANTS
  WholeBooking
  NoDoubleBooking
PROPERTIES
  RefusedMeansUnsatisfiable
  EveryCallEnds
CHECK_DEADLOCK FALSE

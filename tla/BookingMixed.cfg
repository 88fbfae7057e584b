SPECIFICATION Spec
CONSTANTS
  c1 = c1
  c2 = c2
  c3 = c3
  s1 = s1
  s2 = s2
  s3 = s3
  t1 = t1
  t2 = t2
  NoOne = NoOne
  Rooms <- MCRooms
  RoomTypes <- MCTypes
  NumberKey = 0
  TypeOf <- MCTypeOf
  Clients = {c1, c2}
  Requests <- MixedRequests
  InitialRooms <- AllAvailable
  Staff = {}
  Ops = {}
  Sweepers = {}
INVARIANTS
  NoDoubleBooking
CHECK_DEADLOCK FALSE

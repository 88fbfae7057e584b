SPECIFICATION FairSpec
CONSTANTS
  c1 = c1
  c2 = c2
  c3 = c3
  s1 = s1
  s2 = s2
  s3 = s3
  t1 = t1
  t2 = t2
  NoOne = NoOne
  Rooms <- MCRooms
  RoomTypes <- MCTypes
  NumberKey = 0
  TypeOf <- MCTypeOf
  Clients = {c1, c2}
  Requests <- MeetingRequests
  InitialRooms <- AllAvailable
  Staff = {s1, s2}
  Ops = {"confirm", "cancel", "checkIn", "checkOut"}
  Sweepers = {t1, t2}
INVARIANTS
  AdmissionIsExclusive
  StagesInOrder
PROPERTIES
  ImplementsCalendar
  ExpiredHoldsReleased

SPECIFICATION PoolFairSpec
CONSTANTS
  b1 = b1
  b2 = b2
  b3 = b3
  q1 = q1
  q2 = q2
  NoBooking = NoBooking
  PoolBookings = {b1, b2}
  Queries = {}
  PoolMax = 2
  MaxKey = 2
  KeysOf <- TwoKeySets
PROPERTIES
  PoolCallsEnd
CHECK_DEADLOCK FALSE

\* A price paid by card and through an order with two refunds of the first part,
\* one order completed by two calls beside a Nagad payment that overpays, a key sent
\* three times, and a completion that overstates; a pool of four connections;
\* overlapping replacements of one parent's rows.
SPECIFICATION MCSpec
CONSTANTS
  p1 = p1
  p2 = p2
  p3 = p3
  p4 = p4
  p5 = p5
  p6 = p6
  p7 = p7
  p8 = p8
  r1 = r1
  r2 = r2
  r3 = r3
  o1 = o1
  o2 = o2
  o3 = o3
  k1 = k1
  Payments = {p1, p2, p3, p4, p5, p6, p7, p8}
  Refunds = {r1, r2, r3}
  Total = 3
  Amount <- MCAmount
  RefundOf <- MCRefundOf
  Orders = {o1, o2, o3}
  Repeatable = {o2}
  Keys = {k1}
  Via <- MCVia
  Value <- MCValue
  Rounds <- PartsAndOrders
  b1 = b1
  b2 = b2
  b3 = b3
  q1 = q1
  q2 = q2
  a = a
  b = b
  c = c
  NoBooking = NoBooking
  PoolBookings = {b1, b2, b3}
  Queries = {q1, q2}
  PoolMax = 4
  MaxKey = 2
  KeysOf <- ThreeKeySets
  Children = {a, b, c}
  Stored = {a}
  Lists <- ChildLists
  Singles = {a}
  Writers = {w1, w2, w3}
INVARIANTS
  AccountsExact
  RefundsWithinPayment
  PaidWithinRecorded
  ConfirmsOnlyCovered
  PaidOrdersTaken
  RecordedWasTaken
  ReplacementsSound
PROPERTIES
  PaidInFullLeavesHold
  PoolCallsEnd
  ReplacementsEnd
CHECK_DEADLOCK FALSE

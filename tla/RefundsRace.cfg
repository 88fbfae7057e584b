\* Two refunds of one payment, each within the balance it read.
SPECIFICATION RoundsSpec
CONSTANTS
    p1 = p1
    p2 = p2
    p3 = p3
    p4 = p4
    p5 = p5
    p6 = p6
    p7 = p7
    p8 = p8
    r1 = r1
    r2 = r2
    r3 = r3
    o1 = o1
    o2 = o2
    o3 = o3
    k1 = k1
    Payments = {p1, p2, p3, p4, p5, p6, p7, p8}
    Refunds = {r1, r2, r3}
    Total = 3
    Amount <- MCAmount
    RefundOf <- MCRefundOf
    Orders = {o1, o2, o3}
    Repeatable = {o2}
    Keys = {k1}
    Via <- MCVia
    Value <- MCValue
    Rounds <- TwoRefunds
INVARIANT
    NeverRefundedMore
CHECK_DEADLOCK FALSE

--------------------------- MODULE MCPaymentLedger ---------------------------
\* Small instances of PaymentLedger: which call asks for how much, through what,
\* and which of the calls are made together.
EXTENDS PaymentLedger

CONSTANTS p1, p2, p3, p4, p5, p6, p7, p8, r1, r2, r3, o1, o2, o3, k1, Rounds

VARIABLE live    \* the calls made in this behaviour

\* Two thirds by card, the last third through an order that is completed twice,
\* and a Nagad payment of the whole price; one key sent twice with the same amount
\* and once with another; a completion that states twice the order's money.
MCAmount == [c \in Calls |->
                CASE c \in {p1, p5, p6, p8, r2} -> 2 [] c = p4 -> 3 [] OTHER -> 1]
MCVia    == [p \in Payments |-> CASE p = p1 -> "card"
                                   [] p \in {p2, p3} -> o1
                                   [] p = p4 -> o2
                                   [] p \in {p5, p6, p7} -> k1
                                   [] p = p8 -> o3]
MCValue  == [o \in Orders |-> IF o = o2 THEN 3 ELSE 1]
MCRefundOf == [r \in Refunds |-> IF r = r3 THEN p2 ELSE p1]

PartsAndOrders == {{p1, p2, r1, r2}, {p2, p3, p4, r3}, {p5, p6, p7}, {p1, p8}}
TwoRefunds == {{p1, r1, r2}}

RoundsInit == Init /\ live \in Rounds

RoundsNext ==
    /\ Next
    /\ UNCHANGED live
    /\ \A c \in Calls \ live : pc'[c] = "start"
    /\ \A o \in Orders : order'[o] # order[o] => \E p \in Payments \cap live : Via[p] = o

RoundsSpec == RoundsInit /\ [][RoundsNext]_<<vars, live>> /\ Fairness
==============================================================================

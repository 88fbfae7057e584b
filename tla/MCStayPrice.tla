------------------------------ MODULE MCStayPrice ------------------------------
(***************************************************************************)
(* StayPrice with small tables of rates.                                   *)
(***************************************************************************)
EXTENDS StayPrice

Rate(plan, from, until, priority, price, adult, child) ==
    [plan |-> plan, from |-> from, until |-> until, priority |-> priority,
     price |-> price, adult |-> adult, child |-> child]

StandardRates == {Rate("A", 1, 4, 0, 101, 30, 10), Rate("B", 2, 3, 1, 85, 20, 0)}

\* A standard rate with a promotion over some nights, with a dearer plan beside it,
\* with one that ties and charges extra guests differently, with a hole.
TheRateTables ==
    {StandardRates,
     {Rate("A", 1, 4, 0, 101, 30, 10), Rate("B", 1, 4, 0, 120, 0, 0)},
     {Rate("A", 1, 4, 0, 101, 30, 10), Rate("B", 2, 3, 0, 101, 0, 0)},
     {Rate("A", 1, 2, 0, 101, 30, 10), Rate("A", 3, 4, 0, 95, 30, 10)}}

TheNewRates == {Rate("A", 1, 4, 1, 90, 30, 10)}

TheStays ==
    {[from |-> 1, until |-> 4, adults |-> 2, children |-> 0], [from |-> 2, until |-> 3, adults |-> 3, children |-> 1]}

TheStaffRooms ==
    {<<[plan |-> "B", adults |-> 3, children |-> 0]>>,
     <<[plan |-> "none", adults |-> 3, children |-> 1], [plan |-> "none", adults |-> 3, children |-> 1]>>}

TheService == [price |-> 15, tax |-> 2]

UnsetPolicy == [tax |-> 0, full |-> -1, free |-> -1, partial |-> -1]

\* Unset, one set to 0, a full charge from before the free days on with a 0, and
\* percentages that are none: the tax above 100 and the fee, and a tax that takes off
\* more than all with a fee that is negative.
TheSettings ==
    {UnsetPolicy,
     [tax |-> 7, full |-> 0, free |-> 3, partial |-> 30],
     [tax |-> 7, full |-> 150, free |-> 1, partial |-> 0],
     [tax |-> 107, full |-> 24, free |-> 3, partial |-> 120],
     [tax |-> -150, full |-> 24, free |-> 3, partial |-> -30]}
=============================================================================

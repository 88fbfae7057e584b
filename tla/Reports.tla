------------------------------- MODULE Reports -------------------------------
(***************************************************************************)
(* The reports and the dashboard over the bookings, payments and refunds   *)
(* that they are drawn from, and a reader who fetches a report page by     *)
(* page while rows are added.                                              *)
(*                                                                         *)
(* Instant 2*d is the midnight that begins day d, 2*d + 1 any later moment *)
(* of that day.  A report takes its rows at one instant here.  A payment   *)
(* is of Amount, what its booking costs.  Where a row of a report has both *)
(* the number and the cost of the same bookings, the number stands for     *)
(* both.                                                                   *)
(***************************************************************************)
EXTENDS Integers, Sequences, SequencesExt, Functions

CONSTANTS
    ReportBookings,                   \* hotel bookings
    ReportHotels, ReportCustomers,
    Departures,                       \* tour bookings
    ReportTours,                      \* tour packages
    Destinations, DestinationOf,      \* and where they go
    ListLimit,                        \* rows of the dashboard's top lists
    LastDay,                          \* bound: the clock stops on this day
    SeriesDays,                       \* days of the dashboard's series
    Listed, PageRows                  \* rows of a paged report, and of one page

ASSUME ReportsAssumption ==
    /\ LastDay \in Nat /\ SeriesDays \in Nat \ {0} /\ PageRows \in Nat \ {0}
    /\ IsFiniteSet(ReportBookings) /\ IsFiniteSet(Departures)
    /\ IsFiniteSet(ReportHotels) /\ IsFiniteSet(ReportCustomers)
    /\ IsFiniteSet(ReportTours) /\ IsFiniteSet(Destinations)
    /\ "none" \notin ReportHotels \cup ReportTours
    /\ DestinationOf \in [ReportTours -> Destinations]
    /\ ListLimit \in Nat

VARIABLES
    moment,       \* the instant
    bookingOf,    \* bookings: hotel, customer, day of arrival, when made, whether cancelled
    paymentOf,    \* the payment of each: status, when paid, what was given back
    withdrawn,    \* hotels, customers, tour packages and destinations with deleted_at set
    shelved,      \* tour packages whose status is not active
    departure,    \* tour bookings: the package booked, and when
    list,         \* the rows of a paged report, newest first
    pager,        \* its reader: page, what it has of it, the rows shown
    first,        \* history: the rows there when it began
    slipped       \* history: a row came between the two queries of a page

booksVars == <<moment, bookingOf, paymentOf, withdrawn, shelved, departure>>
pagerVars == <<list, pager, first, slipped>>
reportVars == <<booksVars, pagerVars>>

Amount == 2
NotMade == [hotel |-> "none", customer |-> "none", arrives |-> 0, made |-> 0, cancelled |-> FALSE]
NotPaid == [status |-> "none", at |-> 0, back |-> 0]
NotStarted == [page |-> 1, rows |-> "unread", total |-> 0, counted |-> FALSE, shown |-> {}, at |-> "start"]

BooksInit ==
    /\ moment = 0
    /\ bookingOf = [b \in ReportBookings |-> NotMade]
    /\ paymentOf = [b \in ReportBookings |-> NotPaid]
    /\ withdrawn = {} /\ shelved = {}
    /\ departure = [d \in Departures |-> [tour |-> "none", made |-> 0]]

PagerInit == list = <<>> /\ pager = NotStarted /\ first = {} /\ slipped = FALSE

BookingsMade == {b \in ReportBookings : bookingOf[b] # NotMade}
Departed == {d \in Departures : departure[d].tour # "none"}

-----------------------------------------------------------------------------
\* What the other services do to the rows.

clockAdvances ==
    /\ moment < 2 * LastDay + 1
    /\ moment' = moment + 1
    /\ UNCHANGED <<bookingOf, paymentOf, withdrawn, shelved, departure>>

\* It looks at the rooms, and at neither the hotel's nor the customer's deleted_at.
createReportBooking(b, h, c, arrives) ==
    /\ bookingOf[b] = NotMade
    /\ bookingOf' = [bookingOf EXCEPT ![b] =
          [hotel |-> h, customer |-> c, arrives |-> arrives, made |-> moment, cancelled |-> FALSE]]
    /\ UNCHANGED <<moment, paymentOf, withdrawn, shelved, departure>>

cancelReportBooking(b) ==
    /\ b \in BookingsMade /\ ~bookingOf[b].cancelled
    /\ bookingOf' = [bookingOf EXCEPT ![b].cancelled = TRUE]
    /\ UNCHANGED <<moment, paymentOf, withdrawn, shelved, departure>>

\* A payment that succeeds has paid_at; one that fails has none.
pays(b, status) ==
    /\ b \in BookingsMade /\ paymentOf[b] = NotPaid
    /\ paymentOf' = [paymentOf EXCEPT ![b] = [status |-> status, at |-> moment, back |-> 0]]
    /\ UNCHANGED <<moment, bookingOf, withdrawn, shelved, departure>>

\* A refund of one half, or of all that is left; cancelling the booking is not needed.
refunds(b, back) ==
    /\ paymentOf[b].status \in {"paid", "partially_refunded"}
    /\ paymentOf[b].back < back
    /\ paymentOf' = [paymentOf EXCEPT ![b].back = back,
                         ![b].status = IF back = Amount THEN "refunded" ELSE "partially_refunded"]
    /\ UNCHANGED <<moment, bookingOf, withdrawn, shelved, departure>>

\* Only an active package is booked; its destination is not looked at.
departs(d, t) ==
    /\ departure[d].tour = "none" /\ t \notin withdrawn \cup shelved
    /\ departure' = [departure EXCEPT ![d] = [tour |-> t, made |-> moment]]
    /\ UNCHANGED <<moment, bookingOf, paymentOf, withdrawn, shelved>>

\* An edit of the package's status.
setsStatus(t, status) ==
    /\ t \notin withdrawn
    /\ shelved' = IF status = "active" THEN shelved \ {t} ELSE shelved \cup {t}
    /\ UNCHANGED <<moment, bookingOf, paymentOf, withdrawn, departure>>

\* deleteHotel, deleteCustomer and deleteTourPackage: none looks for bookings.
withdraw(x) ==
    /\ withdrawn' = withdrawn \cup {x}
    /\ UNCHANGED <<moment, bookingOf, paymentOf, shelved, departure>>

\* The columns that are read leave deleted_at out, so a deleted package counts
\* while its status is active; bookings of a package do not.
deletesDestination(p) ==
    /\ \A t \in ReportTours : DestinationOf[t] = p => t \in shelved
    /\ withdraw(p)

HotelBooksNext ==
    \/ clockAdvances
    \/ \E b \in ReportBookings :
          \/ \E h \in ReportHotels, c \in ReportCustomers, arrives \in {0, 1} :
                createReportBooking(b, h, c, arrives)
          \/ cancelReportBooking(b)
          \/ \E status \in {"paid", "failed"} : pays(b, status)
          \/ \E back \in 1..Amount : refunds(b, back)
    \/ \E x \in ReportHotels \cup ReportCustomers : withdraw(x)

TourBooksNext ==
    \/ clockAdvances
    \/ \E d \in Departures, t \in ReportTours : departs(d, t)
    \/ \E t \in ReportTours :
          \/ withdraw(t)
          \/ \E status \in {"active", "inactive"} : setsStatus(t, status)
    \/ \E p \in Destinations : deletesDestination(p)

-----------------------------------------------------------------------------
\* The reports

MomentsOf(days) == UNION {{2 * d, 2 * d + 1} : d \in days}
Always == MomentsOf(0..LastDay)

\* gte(column, from) and lte(column, to), both midnights.
dateRangeClauses(from, to) == {i \in Always : 2 * from <= i /\ i <= 2 * to}

Since(day) == {i \in Always : 2 * day <= i}

startOfDay(i) == i \div 2
lastNDayKeys(n) == {d \in 0..startOfDay(moment) : d + n > startOfDay(moment)}

TotalOf(f) == FoldFunction(+, 0, f)
AmountOf(rows) == TotalOf([b \in rows |-> Amount])

\* (mutant: what was partly given back counts in full)
KeptPaid == {b \in ReportBookings : paymentOf[b].status \in {"paid", "partially_refunded"}}

Paid == {b \in ReportBookings : paymentOf[b].status = "paid"}

\* A row for each day with a payment.
revenueReport(when) ==
    LET rows == {b \in ReportBookings : paymentOf[b].status = "paid" /\ paymentOf[b].at \in when} IN
    [day \in {startOfDay(paymentOf[b].at) : b \in rows} |->
        AmountOf({b \in rows : startOfDay(paymentOf[b].at) = day})]

\* A row for each of the last days, none left out.
getRevenueOverTime(n) ==
    LET rows == {b \in Paid : startOfDay(paymentOf[b].at) + n > startOfDay(moment)} IN
    [day \in lastNDayKeys(n) |-> AmountOf({b \in rows : startOfDay(paymentOf[b].at) = day})]

\* The figure on the dashboard.
dashboardRevenue == AmountOf(Paid)

\* What every method took, failed attempts included.
getPaymentMethodBreakdown == AmountOf({b \in ReportBookings : paymentOf[b] # NotPaid})

\* By the day of arrival, which may be one to come.
bookingsReport(from, to) == {b \in BookingsMade : from <= bookingOf[b].arrives /\ bookingOf[b].arrives <= to}

getBookingTrends(n) ==
    [day \in lastNDayKeys(n) |-> Cardinality({b \in BookingsMade : startOfDay(bookingOf[b].made) = day})]

\* Every attempt by when it was made, and all that was given back of each.
paymentsReport(when) == {b \in ReportBookings : paymentOf[b] # NotPaid /\ paymentOf[b].at \in when}
refundsReport == [b \in {a \in ReportBookings : paymentOf[a].back > 0} |-> paymentOf[b].back]

\* Hotels that are not deleted; cancelled bookings count.
hotelsReport(when) ==
    [h \in ReportHotels \ withdrawn |->
        Cardinality({b \in BookingsMade : bookingOf[b].hotel = h /\ bookingOf[b].made \in when})]

\* Customers that are not deleted.
customersReport(when) ==
    [c \in ReportCustomers \ withdrawn |->
        Cardinality({b \in BookingsMade : bookingOf[b].customer = c /\ bookingOf[b].made \in when})]

\* ORDER BY count DESC LIMIT: which of equal counts come in is not said.
TopLists(counts) ==
    {Restrict(counts, top) : top \in
        {S \in SUBSET DOMAIN counts :
            /\ Cardinality(S) <= ListLimit
            /\ Cardinality(S) < ListLimit => S = DOMAIN counts
            /\ \A k \in S, l \in DOMAIN counts \ S : counts[l] <= counts[k]}}

\* Of all hotels with bookings, deleted ones as well.
getTopHotels ==
    TopLists([h \in {bookingOf[b].hotel : b \in BookingsMade} |->
                 Cardinality({b \in BookingsMade : bookingOf[b].hotel = h})])

groupTourBookings(tours, when) ==
    [t \in tours |-> Cardinality({d \in Departed : departure[d].tour = t /\ departure[d].made \in when})]

toursReport(when) == groupTourBookings(ReportTours \ withdrawn, when)

\* Destinations that are not deleted, through all their packages, deleted ones as well.
destinationsReport(when) ==
    LET counts == groupTourBookings(ReportTours, when) IN
    [p \in Destinations \ withdrawn |->
        TotalOf([t \in {u \in ReportTours : DestinationOf[u] = p} |-> counts[t]])]

\* Of all destinations with bookings, deleted ones as well.
getTopDestinations ==
    TopLists([p \in {DestinationOf[departure[d].tour] : d \in Departed} |->
                 Cardinality({d \in Departed : DestinationOf[departure[d].tour] = p})])

-----------------------------------------------------------------------------
\* The reader of a paged report.  Rows and total come from two queries of one
\* call, answered in either order.

\* CURRENT_TIMESTAMP is when the transaction began: a row may come in below the
\* newest.  No two rows have the same millisecond, which the order does not break.
rowAdded(x) ==
    /\ x \notin ToSet(list)
    /\ \E below \in {0, 1} : below <= Len(list) /\ list' = InsertAt(list, below + 1, x)
    /\ slipped' = (slipped \/ (pager.rows = "read") # pager.counted)
    /\ UNCHANGED <<pager, first>>

openReport ==
    /\ pager.at = "start"
    /\ pager' = [pager EXCEPT !.at = "reading"]
    /\ first' = ToSet(list)
    /\ UNCHANGED <<list, slipped>>

\* parsePagination and pageArgs
skip(page) == (page - 1) * PageRows

readRows ==
    /\ pager.at = "reading" /\ pager.rows = "unread"
    /\ pager' = [pager EXCEPT !.rows = "read",
                     !.shown = @ \cup {list[i] : i \in {j \in 1..Len(list) : skip(pager.page) < j /\ j <= skip(pager.page) + PageRows}}]
    /\ UNCHANGED <<list, first, slipped>>

countOf ==
    /\ pager.at = "reading" /\ ~pager.counted
    /\ pager' = [pager EXCEPT !.total = Len(list), !.counted = TRUE]
    /\ UNCHANGED <<list, first, slipped>>

\* The reader turns the page while the last answer's total says there is one more.
turnPage ==
    /\ pager.at = "reading" /\ pager.rows = "read" /\ pager.counted
    /\ pager' = IF pager.page * PageRows < pager.total
                THEN [pager EXCEPT !.page = @ + 1, !.rows = "unread", !.counted = FALSE]
                ELSE [pager EXCEPT !.at = "done"]
    /\ UNCHANGED <<list, first, slipped>>

PagerNext ==
    \/ \E x \in Listed : rowAdded(x)
    \/ openReport \/ readRows \/ countOf \/ turnPage

-----------------------------------------------------------------------------
ReportsInit == BooksInit /\ PagerInit

ReportsNext ==
    \/ (HotelBooksNext \/ TourBooksNext) /\ UNCHANGED pagerVars
    \/ PagerNext /\ UNCHANGED booksVars

ReportsSpec == ReportsInit /\ [][ReportsNext]_reportVars

-----------------------------------------------------------------------------
\* Properties

\* The revenue is money that was not given back: the payments of the payments
\* report that did not fail, less the refunds of the refunds report, less what is
\* left of partly refunded payments, which count for nothing.
RevenueIsKept ==
    LET With(statuses) == {b \in paymentsReport(Always) : paymentOf[b].status \in statuses} IN
    /\ dashboardRevenue + TotalOf(refundsReport)
          + TotalOf([b \in With({"partially_refunded"}) |-> Amount - paymentOf[b].back])
       = AmountOf(With({"paid", "partially_refunded", "refunded"}))
    /\ dashboardRevenue <= getPaymentMethodBreakdown

\* The report's days add up to the dashboard's figure, and the dashboard's series
\* is the report from the series' first day on.
RevenueAgrees ==
    /\ TotalOf(revenueReport(Always)) = dashboardRevenue
    /\ LET series == getRevenueOverTime(SeriesDays)
           when == {i \in Always : startOfDay(i) \in lastNDayKeys(SeriesDays)}
           report == revenueReport(when)
       IN  \A day \in DOMAIN series : series[day] = IF day \in DOMAIN report THEN report[day] ELSE 0

\* Reports of adjacent ranges leave out the later moments of the first one's last
\* day and nothing else.
RangesAdjoin ==
    \A last \in 0..(LastDay - 1) :
        TotalOf(revenueReport(dateRangeClauses(0, last))) + TotalOf(revenueReport(Since(last + 1)))
            + TotalOf(revenueReport({2 * last + 1})) = dashboardRevenue

\* A report that lists what is not deleted, and a top list of everything: they show
\* the same of what both list, and what the top list left out is not more.
TopAgrees(top, report) ==
    \A k \in DOMAIN report :
        IF k \in DOMAIN top THEN report[k] = top[k]
        ELSE \/ report[k] = 0
             \/ Cardinality(DOMAIN top) = ListLimit /\ \A l \in DOMAIN top : report[k] <= top[l]

\* By hotel, by customer or by day the bookings are those of the bookings report, the
\* ones of deleted hotels and customers apart; and the dashboard's hotels agree.
BookingsAgree ==
    LET all == Cardinality(bookingsReport(0, LastDay + 1)) IN
    /\ TotalOf(hotelsReport(Always))
           + Cardinality({b \in BookingsMade : bookingOf[b].hotel \in withdrawn}) = all
    /\ TotalOf(customersReport(Always))
           + Cardinality({b \in BookingsMade : bookingOf[b].customer \in withdrawn}) = all
    /\ TotalOf(getBookingTrends(LastDay + 1)) = all
    /\ \A top \in getTopHotels : TopAgrees(top, hotelsReport(Always))

\* By package or by destination the tour bookings are the same, those of deleted
\* packages and destinations apart; and the dashboard's destinations agree.
ToursAgree ==
    /\ TotalOf(toursReport(Always)) + Cardinality({d \in Departed : departure[d].tour \in withdrawn})
          = Cardinality(Departed)
    /\ TotalOf(destinationsReport(Always))
             + Cardinality({d \in Departed : DestinationOf[departure[d].tour] \in withdrawn})
          = Cardinality(Departed)
    /\ \A top \in getTopDestinations : TopAgrees(top, destinationsReport(Always))

\* A reader who went through the pages has seen every row that was there at the
\* beginning, however many were added, unless one came between the rows and the
\* total of a page.
EveryRowShown == pager.at = "done" /\ ~slipped => first \subseteq pager.shown

\* What the reports say agrees with the rows and with each other.
ReportsSound ==
    /\ BookingsMade # {} \/ Departed # {} =>
          RevenueIsKept /\ RevenueAgrees /\ RangesAdjoin /\ BookingsAgree /\ ToursAgree
    /\ EveryRowShown
=============================================================================

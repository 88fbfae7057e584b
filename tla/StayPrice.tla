------------------------------- MODULE StayPrice -------------------------------
(***************************************************************************)
(* What a stay costs, from the search to the cancellation: the price per   *)
(* night (pricingService.js), the quote of a search (availabilityService), *)
(* the visitor's selection and its estimate (HotelDetails, Checkout), the  *)
(* amounts of the booking (createBooking), its invoice, and what is given  *)
(* back when it is cancelled, while staff edit the rates.                  *)
(*                                                                         *)
(* One hotel, one room type, one extra service.  Amounts are in cents.     *)
(* A rate is [plan, from, until, priority, price, adult, child]; a date is *)
(* a number, and a stay is [from, until, adults, children].                *)
(***************************************************************************)
EXTENDS Integers, Sequences, FiniteSets, Functions

CONSTANTS
    RateTables,           \* tables of rates that staff may have set up
    NewRates,             \* rates that an edit writes in the place of one
    StaysAsked,           \* stays that visitors search
    StaffRooms,           \* requests of staff: sequences of [plan, adults, children]
    AnyPlan,              \* no rate plan is asked for
    Service,              \* the extra service: [price, tax]
    SettingsSets,         \* [tax, full, free, partial] of the settings table
    Hours,                \* hours left before check-in at which one may cancel
    MaxRooms,             \* rooms that are free
    MaxAdults,            \* that a room of the type takes
    MaxEdits              \* bound on edits of the rates

\* Whole cents, nights and guests; the forms refuse negative prices.  The settings
\* are any numbers.
ASSUME StayPriceAssumption ==
    /\ MaxRooms \in Nat /\ MaxAdults \in Nat /\ MaxEdits \in Nat /\ Hours \subseteq Int
    /\ \A r \in NewRates \cup UNION RateTables :
          /\ r.from \in Int /\ r.until \in Int /\ r.priority \in Int
          /\ r.price \in Nat /\ r.adult \in Nat /\ r.child \in Nat
    /\ \A stay \in StaysAsked :
          stay.from \in Int /\ stay.until \in Int /\ stay.adults \in Nat /\ stay.children \in Nat
    /\ \A rooms \in StaffRooms :
          rooms \in Seq(Range(rooms)) /\ \A room \in Range(rooms) : room.adults \in Nat /\ room.children \in Nat
    /\ Service.price \in Nat /\ Service.tax \in Nat
    /\ \A p \in SettingsSets : p.tax \in Int /\ p.full \in Int /\ p.free \in Int /\ p.partial \in Int

VARIABLES
    roomRates,    \* the rates
    policy,       \* the settings
    visit,        \* the visitor's page: stay, quote, quantity and draft
    call,         \* the createBooking that is running
    sale,         \* the booking that it made
    bill,         \* its invoice
    edits         \* history: how often the rates were edited

stayPriceVars == <<roomRates, policy, visit, call, sale, bill, edits>>

None == -1    \* no price, no booking, no invoice

-----------------------------------------------------------------------------
\* pricingService.js

BaseAdults == 2
BaseChildren == 0

AtLeast0(n) == IF n < 0 THEN 0 ELSE n

\* toDecimalPlaces(2) of a / b: a half goes away from zero.
Rounded(a, b) == IF a < 0 THEN -((2 * (-a) + b) \div (2 * b)) ELSE (2 * a + b) \div (2 * b)

nightsBetween(stay) == stay.until - stay.from

\* (mutant: of equals the first that comes)
picksAny(rates, night) ==
    LET candidates == {r \in rates : r.from <= night /\ night < r.until} IN
    {r \in candidates : \A x \in candidates : r.priority >= x.priority}

\* The rates that a night may be sold at: of the highest priority, the cheapest.
pickRateForNight(rates, night) ==
    LET candidates == {r \in rates : r.from <= night /\ night < r.until}
        highest == {r \in candidates : \A x \in candidates : r.priority >= x.priority}
    IN  {r \in highest : \A x \in highest : r.price <= x.price}

NightTotal(r, adults, children) ==
    r.price + r.adult * AtLeast0(adults - BaseAdults) + r.child * AtLeast0(children - BaseChildren)

\* The totals that the stay may come to; none when a night has no rate.
calculateRoomStayPrice(plan, stay, adults, children) ==
    LET rates == {r \in roomRates : plan = AnyPlan \/ r.plan = plan}
        NightTotals(night) == {NightTotal(r, adults, children) : r \in pickRateForNight(rates, night)}
        until[night \in stay.from..stay.until] ==
            IF night = stay.from THEN {0}
            ELSE {sum + n : sum \in until[night - 1], n \in NightTotals(night - 1)}
    IN  IF nightsBetween(stay) < 1 THEN {} ELSE until[stay.until]

-----------------------------------------------------------------------------
NoStay == [from |-> 0, until |-> 0, adults |-> 0, children |-> 0]
NoVisit == [stay |-> NoStay, price |-> None, quantity |-> 0, draft |-> FALSE, at |-> 0, extra |-> FALSE]
NoCall == [rooms |-> <<>>, priced |-> <<>>, stay |-> NoStay, discount |-> 0, extra |-> FALSE,
           byVisitor |-> FALSE, at |-> 0]
NoSale == [status |-> "none", rooms |-> <<>>, nights |-> 0, services |-> 0, subtotal |-> 0, discount |-> 0, tax |-> 0,
           total |-> 0, paid |-> 0, fee |-> 0, refundable |-> 0, hours |-> 0, estimate |-> None,
           alike |-> FALSE, tied |-> FALSE, edited |-> FALSE, standard |-> FALSE]
NoBill == [items |-> <<>>, subtotal |-> 0, total |-> 0, paid |-> 0, due |-> 0, status |-> "none"]

StayPriceInit ==
    /\ roomRates \in RateTables /\ policy \in SettingsSets
    /\ visit = NoVisit /\ call = NoCall /\ sale = NoSale /\ bill = NoBill
    /\ edits = 0

-----------------------------------------------------------------------------
\* ratePlanService.js: updateRoomRate, createRoomRate and deleteRoomRate.

editRates ==
    /\ edits < MaxEdits
    /\ \E old \in SUBSET roomRates, new \in SUBSET NewRates :
         /\ Cardinality(old) + Cardinality(new) \in 1..2 /\ Cardinality(old) <= 1 /\ Cardinality(new) <= 1
         /\ roomRates' = (roomRates \ old) \cup new
    /\ edits' = edits + 1
    /\ UNCHANGED <<policy, visit, call, sale, bill>>

\* searchAvailability: a room type that takes the adults, priced if it can be.
\* The page of the hotel keeps the stay of its address and the answer.
searchAvailability(stay) ==
    /\ ~visit.draft /\ call = NoCall /\ sale = NoSale
    /\ stay.adults <= MaxAdults
    /\ LET prices == calculateRoomStayPrice(AnyPlan, stay, stay.adults, stay.children) IN
       \E price \in IF prices = {} THEN {None} ELSE prices :
          visit' = [NoVisit EXCEPT !.stay = stay, !.price = price, !.at = edits]
    /\ UNCHANGED <<roomRates, policy, call, sale, bill, edits>>

\* setQuantity of HotelDetails; only a priced room type can be chosen.
setQuantity(n) ==
    /\ visit.stay # NoStay /\ ~visit.draft /\ visit.price # None
    /\ n \in 0..MaxRooms /\ n # visit.quantity
    /\ visit' = [visit EXCEPT !.quantity = n]
    /\ UNCHANGED <<roomRates, policy, call, sale, bill, edits>>

\* handleProceedToCheckout: the draft of the checkout page.
handleProceedToCheckout ==
    /\ ~visit.draft /\ visit.quantity # 0
    /\ visit' = [visit EXCEPT !.draft = TRUE]
    /\ UNCHANGED <<roomRates, policy, call, sale, bill, edits>>

toggleService ==
    /\ visit.draft /\ call = NoCall /\ sale = NoSale
    /\ visit' = [visit EXCEPT !.extra = ~@]
    /\ UNCHANGED <<roomRates, policy, call, sale, bill, edits>>

\* estimatedTotal of the checkout page.
estimatedTotal == visit.price * visit.quantity + (IF visit.extra THEN Service.price + Service.tax ELSE 0)

-----------------------------------------------------------------------------
\* createBooking

\* A room without a number of guests is priced for one adult.
AskedFor(plan) == [plan |-> plan, adults |-> 1, children |-> 0]

\* submitPriced: the payload names only the type of each room.
submitPriced ==
    /\ visit.draft /\ call = NoCall /\ sale = NoSale
    /\ call' = [NoCall EXCEPT !.rooms = [i \in 1..visit.quantity |-> AskedFor(AnyPlan)], !.stay = visit.stay,
                              !.extra = visit.extra, !.byVisitor = TRUE, !.at = edits]
    /\ UNCHANGED <<roomRates, policy, visit, sale, bill, edits>>

\* The staff's call may name plan, guests and a discount.
createBookingForUser(rooms, stay, discount) ==
    /\ call = NoCall /\ sale = NoSale /\ ~visit.draft
    /\ call' = [NoCall EXCEPT !.rooms = rooms, !.stay = stay, !.discount = discount, !.at = edits]
    /\ UNCHANGED <<roomRates, policy, visit, sale, bill, edits>>

\* The next room is priced, from the rates of that moment.
priceRoom ==
    LET i == Len(call.priced) + 1  room == call.rooms[i] IN
    /\ call # NoCall /\ i <= Len(call.rooms)
    /\ LET prices == calculateRoomStayPrice(room.plan, call.stay, room.adults, room.children) IN
       \/ \E price \in prices : call' = [call EXCEPT !.priced = Append(@, price)]
       \/ prices = {} /\ call' = NoCall
    /\ UNCHANGED <<roomRates, policy, visit, sale, bill, edits>>

Alike(rooms, prices) == \A i, j \in DOMAIN rooms : rooms[i] = rooms[j] => prices[i] = prices[j]

Standard(party) == party.adults <= BaseAdults /\ party.children <= BaseChildren

\* Rates for the same night, of the same priority and price, that charge extra guests
\* differently: which is first is up to the database.
Tied(rates) ==
    \E r, x \in rates :
        /\ r.from < x.until /\ x.from < r.until
        /\ r.priority = x.priority /\ r.price = x.price
        /\ r.adult # x.adult \/ r.child # x.child

insertPricedBooking ==
    LET roomsSubtotal == FoldFunction(+, 0, call.priced)
        services == IF call.extra THEN Service.price + Service.tax ELSE 0
        subtotal == roomsSubtotal + services
        taxable == AtLeast0(subtotal - call.discount)
        tax == Rounded(taxable * policy.tax, 100)
    IN  /\ call # NoCall /\ Len(call.priced) = Len(call.rooms)
        /\ sale' = [NoSale EXCEPT
                !.status = "held", !.rooms = call.priced, !.nights = nightsBetween(call.stay), !.services = services,
                !.subtotal = subtotal, !.discount = call.discount, !.tax = tax, !.total = taxable + tax,
                !.estimate = IF call.byVisitor THEN estimatedTotal ELSE None,
                !.alike = Alike(call.rooms, call.priced),
                !.tied = Tied(roomRates) /\ \E room \in Range(call.rooms) : ~Standard(room),
                !.edited = edits # (IF call.byVisitor THEN visit.at ELSE call.at),
                !.standard = Standard(call.stay)]
        /\ call' = NoCall
        /\ UNCHANGED <<roomRates, policy, visit, bill, edits>>

\* A payment of the whole due, or of a part that staff take (PaymentLedger).
takePayment(part) ==
    /\ sale.status = "held" /\ sale.paid < sale.total
    /\ sale' = [sale EXCEPT !.paid = IF part /\ @ = 0 THEN sale.total \div 2 ELSE sale.total]
    /\ UNCHANGED <<roomRates, policy, visit, call, bill, edits>>

-----------------------------------------------------------------------------
\* settings.x || d
Or(x, d) == IF x \in {None, 0} THEN d ELSE x

\* (mutant: the tiers in the other order)
feePercentSwapped(hours) ==
    IF hours <= Or(policy.free, 7) * 24 THEN Or(policy.partial, 50)
    ELSE IF hours <= Or(policy.full, 24) THEN 100
    ELSE 0

feePercent(hours) ==
    IF hours <= Or(policy.full, 24) THEN 100
    ELSE IF hours <= Or(policy.free, 7) * 24 THEN Or(policy.partial, 50)
    ELSE 0

cancellationFee(hours) == Rounded(sale.total * feePercent(hours), 100)

refundableAmount(hours) == AtLeast0(sale.paid - cancellationFee(hours))

cancelBooking(hours) ==
    /\ sale.status = "held"
    /\ sale' = [sale EXCEPT !.status = "cancelled", !.hours = hours, !.fee = cancellationFee(hours),
                            !.refundable = refundableAmount(hours)]
    /\ UNCHANGED <<roomRates, policy, visit, call, bill, edits>>

\* generateInvoiceForBooking: the amounts of the booking, one item for each room
\* and service.
generateInvoiceForBooking ==
    /\ sale # NoSale /\ bill = NoBill
    /\ bill' = [items |-> sale.rooms \o (IF sale.services = 0 THEN <<>> ELSE <<sale.services>>),
                subtotal |-> sale.subtotal, total |-> sale.total, paid |-> sale.paid, due |-> sale.total - sale.paid,
                status |-> IF sale.total > 0 /\ sale.paid >= sale.total THEN "paid"
                           ELSE IF sale.paid > 0 THEN "partially_paid" ELSE "unpaid"]
    /\ UNCHANGED <<roomRates, policy, visit, call, sale, edits>>

StayPriceNext ==
    \/ editRates
    \/ \E stay \in StaysAsked : searchAvailability(stay)
    \/ \E n \in 0..MaxRooms : setQuantity(n)
    \/ handleProceedToCheckout \/ toggleService \/ submitPriced
    \/ \E rooms \in StaffRooms, stay \in StaysAsked, discount \in {0, 50} : createBookingForUser(rooms, stay, discount)
    \/ priceRoom \/ insertPricedBooking
    \/ \E part \in BOOLEAN : takePayment(part)
    \/ \E hours \in Hours : cancelBooking(hours)
    \/ generateInvoiceForBooking

StayPriceSpec == StayPriceInit /\ [][StayPriceNext]_stayPriceVars

-----------------------------------------------------------------------------
\* Properties

\* The rooms of a booking that were asked for alike cost the same, unless some take
\* extra guests and rates tie that charge these differently; and a stay of up to two
\* adults costs before tax what the visitor was shown, whatever rates overlap or tie;
\* both unless rates were edited in between.  The items of the invoice add up to its
\* subtotal, and it is "paid" only when nothing is due.
PricesAgree ==
    /\ sale # NoSale /\ ~sale.edited =>
         /\ sale.alike \/ sale.tied
         /\ sale.estimate # None /\ sale.standard => sale.subtotal = sale.estimate
    /\ bill # NoBill =>
         /\ FoldFunction(+, 0, bill.items) = bill.subtotal
         /\ bill.status = "paid" => bill.due = 0

\* Whatever the settings hold, a cancellation loses nothing of what was paid: it is
\* given back or kept as the fee.  With no negative percentage or total it gives back
\* no more than was paid, and the earlier it comes the more, a partial percentage
\* above 100 included; with one of up to 100 the fee is at most the price.
CancellationGraded ==
    sale.status = "cancelled" =>
        /\ sale.refundable + sale.fee >= sale.paid
        /\ sale.total >= 0 /\ Or(policy.partial, 50) >= 0 =>
             /\ sale.refundable <= sale.paid
             /\ \A hours \in Hours : hours >= sale.hours => refundableAmount(hours) >= sale.refundable
             /\ Or(policy.partial, 50) <= 100 => sale.fee <= sale.total

\* "Base occupancy is 2 adults / 0 children, so ... every adult beyond that (and
\* every child ...) is charged" (documentation/booking-flow.md:122): what the
\* visitor was shown for their party is what the booking costs before tax.
ChargedAsQuoted ==
    sale.estimate # None /\ ~sale.edited => sale.subtotal = sale.estimate
=============================================================================

------------------------------- MODULE Checkout -------------------------------
(***************************************************************************)
(* The checkout page (Checkout.jsx) with its draft in sessionStorage       *)
(* (navState.js) and the two server actions it calls (booking.actions.js): *)
(* create the booking, then charge it.                                     *)
(*                                                                         *)
(* A call goes on at the server when the page is left, and its answer may  *)
(* be lost.  When the page is left for another one, the handler that waits *)
(* goes on too, and only what it sets on the page is without effect; when  *)
(* it is reloaded, the handler ends.  The page is replaced some time after *)
(* router.push.  Holds expire, and approvals arrive later.                 *)
(***************************************************************************)
EXTENDS Naturals, FiniteSets

CONSTANTS
    Selections,     \* selections of rooms, the content of drafts
    Orders,         \* bookings that can be made
    NoOrder, NoSelection,
    MaxCharges      \* bound on the charges of one booking

ASSUME CheckoutAssumption == NoOrder \notin Orders /\ NoSelection \notin Selections /\ MaxCharges \in Nat

VARIABLES
    stored,       \* the draft in sessionStorage
    screen,       \* the page: "hotel", "checkout" or "confirmation"
    confirmed,    \* the booking of the confirmation page
    pushed,       \* the booking to whose confirmation page the browser is on its way
    shown,        \* the draft that the page has read (checkoutState)
    submitting,   \* the page's button spins
    failed,       \* paymentFailure.booking
    sent,         \* calls under way: [kind, of, by]; by is "page", "left" or "nobody"
    order,        \* bookings: "none", "live" or "gone", of which selection, how often charged
    excused       \* history: selections whose page went on without the booking's answer
                  \* or whose button was pressed again on the way to the confirmation,
                  \* and bookings whose payment's answer was lost or came elsewhere

pageVars == <<screen, confirmed, pushed, shown, submitting, failed>>
checkoutVars == <<stored, pageVars, sent, order, excused>>

CheckoutInit ==
    /\ stored = NoSelection /\ screen = "hotel" /\ shown = NoSelection
    /\ confirmed = NoOrder /\ pushed = NoOrder
    /\ submitting = FALSE /\ failed = NoOrder
    /\ sent = {} /\ excused = {}
    /\ order = [o \in Orders |-> [is |-> "none", of |-> NoSelection, charges |-> 0]]

OrdersOf(s) == {o \in Orders : order[o].is # "none" /\ order[o].of = s}

Creating(s) == \E x \in sent : x.kind = "create" /\ x.of = s

-----------------------------------------------------------------------------
\* HotelDetails: saveCheckoutDraft and router.push.  Each selection is made once.
saveCheckoutDraft(s) ==
    /\ screen = "hotel" /\ OrdersOf(s) = {} /\ ~Creating(s)
    /\ stored' = s
    /\ UNCHANGED <<pageVars, sent, order, excused>>

\* The page is mounted and reads the draft (readCheckoutDraft).
mountCheckout ==
    /\ screen = "hotel"
    /\ screen' = "checkout" /\ shown' = stored
    /\ UNCHANGED <<stored, confirmed, pushed, submitting, failed, sent, order, excused>>

\* The page's state goes; the handlers of its calls go on, or end.
Unmount(by) ==
    /\ shown' = NoSelection /\ submitting' = FALSE /\ failed' = NoOrder
    /\ sent' = {[x EXCEPT !.by = IF @ = "page" \/ by = "nobody" THEN by ELSE @] : x \in sent}
    /\ excused' = IF Creating(shown) THEN excused \cup {shown} ELSE excused
    /\ UNCHANGED <<stored, order>>

leave ==
    /\ screen # "hotel" /\ screen' = "hotel" /\ confirmed' = NoOrder
    /\ Unmount("left")
    /\ UNCHANGED pushed

reload ==
    /\ screen' = "hotel" /\ confirmed' = NoOrder /\ pushed' = NoOrder
    /\ Unmount("nobody")

\* The pushed page replaces the one that is shown.
navigate ==
    /\ pushed # NoOrder
    /\ screen' = "confirmation" /\ confirmed' = pushed /\ pushed' = NoOrder
    /\ Unmount("left")

\* Confirm & Pay: shown unless a payment has failed, disabled while submitting.
handleSubmit ==
    /\ screen = "checkout" /\ shown # NoSelection /\ ~submitting /\ failed = NoOrder
    /\ submitting' = TRUE
    /\ sent' = sent \cup {[kind |-> "create", of |-> shown, by |-> "page"]}
    /\ excused' = IF pushed # NoOrder THEN excused \cup {shown} ELSE excused
    /\ UNCHANGED <<stored, screen, confirmed, pushed, shown, failed, order>>

\* Retry payment: charges the booking that exists.
handleRetryPayment ==
    /\ screen = "checkout" /\ ~submitting /\ failed # NoOrder
    /\ submitting' = TRUE
    /\ sent' = sent \cup {[kind |-> "charge", of |-> failed, by |-> "page"]}
    /\ UNCHANGED <<stored, screen, confirmed, pushed, shown, failed, order, excused>>

-----------------------------------------------------------------------------
\* (mutant: the draft stays)
clearedNot == stored

clearCheckoutDraft == NoSelection

\* Any error while creating is a toast, and the button is live again.
createFailed(x) ==
    /\ submitting' = (submitting /\ x.by # "page")
    /\ UNCHANGED <<stored, screen, confirmed, pushed, shown, failed>>

\* createBookingAction makes the booking; its answer clears the draft and starts
\* the payment, or is lost.
createBookingAction(x, o) ==
    /\ x \in sent /\ x.kind = "create" /\ order[o].is = "none"
    /\ order' = [order EXCEPT ![o] = [is |-> "live", of |-> x.of, charges |-> 0]]
    /\ \/ /\ x.by # "nobody"
          /\ stored' = clearCheckoutDraft
          /\ sent' = (sent \ {x}) \cup {[kind |-> "charge", of |-> o, by |-> x.by]}
          /\ UNCHANGED <<pageVars, excused>>
       \/ /\ sent' = sent \ {x}
          /\ createFailed(x)
          /\ excused' = excused \cup {x.of}

\* It is refused (rooms taken, not signed in, too many requests), or fails.
createBookingRefused(x) ==
    /\ x \in sent /\ x.kind = "create"
    /\ sent' = sent \ {x}
    /\ createFailed(x)
    /\ UNCHANGED <<order, excused>>

\* takePayment settled: router.push, and finally makes the button live again.
Settled(x) ==
    /\ pushed' = IF x.by = "nobody" THEN pushed ELSE x.of
    /\ failed' = IF x.by = "page" THEN NoOrder ELSE failed
    /\ submitting' = (submitting /\ x.by # "page")

NotSettled(x) ==
    /\ failed' = IF x.by = "page" THEN x.of ELSE failed
    /\ submitting' = (submitting /\ x.by # "page")
    /\ UNCHANGED pushed

\* Only a payment that is "paid" settles.
Answered(paid, x) == IF paid THEN Settled(x) ELSE NotSettled(x)

\* chargeBookingAction: the money is taken or not, whatever was paid before, and
\* the answer may be lost.
chargeBookingAction(x) ==
    /\ x \in sent /\ x.kind = "charge"
    /\ sent' = sent \ {x}
    /\ \E paid \in BOOLEAN, lost \in BOOLEAN :
         /\ paid => order[x.of].is = "live" /\ order[x.of].charges < MaxCharges
         /\ order' = IF paid THEN [order EXCEPT ![x.of].charges = @ + 1] ELSE order
         /\ IF lost THEN NotSettled(x) ELSE Answered(paid, x)
         /\ excused' = IF lost THEN excused \cup {x.of} ELSE excused
    /\ UNCHANGED <<stored, screen, confirmed, shown>>

\* The hold runs out, or the approval that the payer gave arrives.
elsewhere(o) ==
    /\ order[o].is = "live" /\ order[o].charges = 0
    /\ \/ order' = [order EXCEPT ![o].is = "gone"]
       \/ order' = [order EXCEPT ![o].charges = 1]
    /\ excused' = excused \cup {o}
    /\ UNCHANGED <<stored, pageVars, sent>>

CheckoutNext ==
    \/ \E s \in Selections : saveCheckoutDraft(s)
    \/ mountCheckout \/ leave \/ reload \/ navigate \/ handleSubmit \/ handleRetryPayment
    \/ \E x \in sent :
         \/ \E o \in Orders : createBookingAction(x, o)
         \/ createBookingRefused(x) \/ chargeBookingAction(x)
    \/ \E o \in Orders : elsewhere(o)

CheckoutSpec == CheckoutInit /\ [][CheckoutNext]_checkoutVars

-----------------------------------------------------------------------------
\* Properties

\* A selection is booked once, whatever fails, is retried, reloaded or opened
\* again, unless the page was left or went on before the booking's answer, or its
\* button was pressed between the payment and the end of the navigation.  A
\* booking is charged once, and a paid one is not shown as failed, unless an
\* answer of the charge was lost or it was paid elsewhere.  The confirmation page
\* is only for a booking that is paid.
CheckoutSound ==
    /\ \A s \in Selections \ excused : Cardinality(OrdersOf(s)) <= 1
    /\ \A o \in Orders \ excused : order[o].charges <= (IF failed = o THEN 0 ELSE 1)
    /\ screen = "confirmation" => order[confirmed].charges > 0
=============================================================================

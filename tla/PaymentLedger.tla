---------------------------- MODULE PaymentLedger ----------------------------
(***************************************************************************)
(* Payments and refunds of one booking.                                    *)
(*                                                                         *)
(* recordPayment and refundPayment read the booking (and the payment) with *)
(* plain queries, call the gateway or check the balance, and then write    *)
(* the new paid and due amounts, computed from what they read, in a        *)
(* transaction that neither locks nor re-reads the booking.  The gateway   *)
(* keeps its own account of the money it took, and its answer may be lost. *)
(* The amount is the caller's; a provider that completes an order takes    *)
(* the order's, and nobody compares the two.                               *)
(***************************************************************************)
EXTENDS Integers

CONSTANTS
    Payments,      \* recordPayment calls; each one's payment row has its name
    Refunds,       \* refundPayment calls
    Total,         \* bookings.total_amount
    Amount,        \* what each payment or refund call asks for
    RefundOf,      \* the payment each refund call names
    Orders,        \* PayPal orders, bKash and Nagad payments already created
    Repeatable,    \* the Nagad ones: verify may be asked again and again
    Keys,          \* idempotency keys a caller may send with a charge
    Via,           \* the order a payment call completes, its key, or "card"
    Value          \* the money of each order

Calls == Payments \cup Refunds

ASSUME LedgerAssumption ==
    /\ Payments \cap Refunds = {}
    /\ Total \in Nat \ {0}
    /\ Amount \in [Calls -> Nat \ {0}]            \* amount must be greater than zero
    /\ RefundOf \in [Refunds -> Payments]
    /\ "card" \notin Orders \cup Keys /\ Orders \cap Keys = {}
    /\ Repeatable \subseteq Orders
    /\ Via \in [Payments -> Orders \cup Keys \cup {"card"}]
    /\ Value \in [Orders -> Nat \ {0}]     \* a call may state another amount

VARIABLES
    status, paid, due,     \* the booking row
    row,                   \* the payment rows' status, "none" before the insert
    refunded,              \* completed refund rows: their sum per payment
    order, made, taken,    \* the gateways: each order, what each key has charged
                           \* (0 before), and all the money they took
    pc, seen, ok,          \* each call: where it is, what it read, a charge that succeeded
    recorded, returned,    \* history: money of the paid rows, of the refund rows
    fresh, stale           \* history: calls whose reads still hold; one wrote although not

booking == <<status, paid, due>>
gateway == <<order, made, taken>>
history == <<recorded, returned, fresh, stale>>
vars == <<booking, row, refunded, gateway, pc, seen, ok, history>>

Unread == [status |-> "held", paid |-> 0, refunded |-> 0]

Init ==
    /\ status = "held" /\ paid = 0 /\ due = Total
    /\ row = [p \in Payments |-> "none"]
    /\ refunded = [p \in Payments |-> 0]
    /\ order = [o \in Orders |-> "open"] /\ made = [k \in Keys |-> 0] /\ taken = 0
    /\ pc = [c \in Calls |-> "start"]
    /\ seen = [c \in Calls |-> Unread]
    /\ ok = {}
    /\ recorded = 0 /\ returned = 0
    /\ fresh = [c \in Calls |-> TRUE] /\ stale = FALSE

Goto(c, where) == pc' = [pc EXCEPT ![c] = where]

NonPayable == {"cancelled", "completed", "no_show"}

\* recordPayment: findBookingWithCustomer and the status check.
findBooking(c) ==
    /\ pc[c] = "start"
    /\ seen' = [seen EXCEPT ![c] = [status |-> status, paid |-> paid, refunded |-> 0]]
    /\ fresh' = [fresh EXCEPT ![c] = TRUE]
    /\ Goto(c, IF status \in NonPayable THEN "refused" ELSE "charge")
    /\ UNCHANGED <<booking, row, refunded, gateway, ok, recorded, returned, stale>>

\* (mutant: whatever the gateway answers is a success)
AnsweredYes(c, success) ==
    /\ ok' = ok \cup {c}
    /\ Goto(c, "record")
    /\ UNCHANGED <<booking, row, refunded, seen, history>>

\* The charge's answer: success, or a decline, an error, an answer that never came.
Answered(c, success) ==
    /\ ok' = IF success THEN ok \cup {c} ELSE ok
    /\ Goto(c, "record")
    /\ UNCHANGED <<booking, row, refunded, seen, history>>

decline(c) ==
    /\ pc[c] = "charge"
    /\ Answered(c, FALSE)
    /\ UNCHANGED gateway

\* A charge that is carried out; under a key it is remembered.
chargeCard(c) ==
    /\ pc[c] = "charge" /\ Via[c] \in Keys \cup {"card"}
    /\ Via[c] \in Keys => made[Via[c]] = 0
    /\ taken' = taken + Amount[c]
    /\ made' = [k \in Keys |-> IF k = Via[c] THEN Amount[c] ELSE made[k]]
    /\ \E success \in BOOLEAN : Answered(c, success)
    /\ UNCHANGED order

\* A key that is sent again answers as the first time and takes nothing; with
\* another amount it is an error, which decline stands for.
replay(c) ==
    /\ pc[c] = "charge" /\ Via[c] \in Keys
    /\ made[Via[c]] = Amount[c]
    /\ Answered(c, TRUE)
    /\ UNCHANGED gateway

\* (mutant: an order that was captured before answers success again)
captureAgain(c) ==
    /\ pc[c] = "charge" /\ Via[c] \in Orders \ Repeatable
    /\ order[Via[c]] \in {"approved", "taken"}
    /\ order' = [order EXCEPT ![Via[c]] = "taken"]
    /\ taken' = IF order[Via[c]] = "taken" THEN taken ELSE taken + Value[Via[c]]
    /\ \E success \in BOOLEAN : Answered(c, success)
    /\ UNCHANGED made

\* PayPal capture, bKash execute: an approved order pays once.
capture(c) ==
    /\ pc[c] = "charge" /\ Via[c] \in Orders \ Repeatable
    /\ order[Via[c]] = "approved"
    /\ order' = [order EXCEPT ![Via[c]] = "taken"]
    /\ taken' = taken + Value[Via[c]]
    /\ \E success \in BOOLEAN : Answered(c, success)
    /\ UNCHANGED made

\* Nagad verify: reports the payment the payer already completed.
verify(c) ==
    /\ pc[c] = "charge" /\ Via[c] \in Repeatable
    /\ order[Via[c]] = "taken"
    /\ Answered(c, TRUE)
    /\ UNCHANGED gateway

charge(c) == decline(c) \/ chargeCard(c) \/ replay(c) \/ capture(c) \/ verify(c)

\* The payer approves the order on the provider's page; Nagad takes the money there.
approve(o) ==
    /\ order[o] = "open"
    /\ order' = [order EXCEPT ![o] = IF o \in Repeatable THEN "taken" ELSE "approved"]
    /\ taken' = IF o \in Repeatable THEN taken + Value[o] ELSE taken
    /\ UNCHANGED <<booking, row, refunded, made, pc, seen, ok, history>>

AtLeastZero(n) == IF n < 0 THEN 0 ELSE n

setPaid(c, amount) ==
    /\ paid' = amount
    /\ due' = AtLeastZero(Total - amount)
    /\ fresh' = [d \in Calls |-> FALSE]
    /\ stale' = (stale \/ ~fresh[c])

\* (mutant: any payment confirms)
PartlyPaid(c, amount) == seen[c].status \in {"held", "pending"}

\* (mutant: the test for full payment is strict)
MoreThanPaid(c, amount) == amount > Total /\ seen[c].status \in {"held", "pending"}

FullyPaid(c, amount) == amount >= Total /\ seen[c].status \in {"held", "pending"}

\* (mutant: the payment is added twice)
NewPaidTwice(c) == seen[c].paid + Amount[c] + Amount[c]

\* (mutant: what was paid before is forgotten)
NewPaidAlone(c) == Amount[c]

NewPaid(c) == seen[c].paid + Amount[c]

\* The transaction that inserts the payment row and adds it to the booking.
recordPayment(c) ==
    /\ pc[c] = "record"
    /\ row' = [row EXCEPT ![c] = IF c \in ok THEN "paid" ELSE "failed"]
    /\ IF c \in ok
       THEN /\ setPaid(c, NewPaid(c))
            /\ recorded' = recorded + Amount[c]
            /\ Goto(c, IF FullyPaid(c, NewPaid(c)) THEN "confirm" ELSE "done")
       ELSE /\ UNCHANGED <<paid, due, recorded, fresh, stale>>
            /\ Goto(c, "done")
    /\ UNCHANGED <<status, refunded, gateway, seen, ok, returned>>

\* confirmBookingAfterPayment: reads the status, then writes it.
checkConfirm(c) ==
    /\ pc[c] = "confirm"
    /\ Goto(c, IF status \in {"held", "pending"} THEN "confirming" ELSE "done")
    /\ UNCHANGED <<booking, row, refunded, gateway, seen, ok, history>>

confirmBooking(c) ==
    /\ pc[c] = "confirming"
    /\ status' = "confirmed"
    /\ Goto(c, "done")
    /\ UNCHANGED <<paid, due, row, refunded, gateway, seen, ok, history>>

\* refundPayment: findByIdWithBookingCustomer and the payment's status check.
findPayment(c) ==
    /\ pc[c] = "start"
    /\ row[RefundOf[c]] # "none"
    /\ seen' = [seen EXCEPT ![c].paid = paid]
    /\ fresh' = [fresh EXCEPT ![c] = TRUE]
    /\ Goto(c, IF row[RefundOf[c]] \in {"paid", "partially_refunded"} THEN "sum" ELSE "refused")
    /\ UNCHANGED <<booking, row, refunded, gateway, ok, recorded, returned, stale>>

\* (mutant: no comparison with the refundable balance)
RefundableAny(c, sum) == TRUE

Refundable(c, sum) == Amount[c] <= Amount[RefundOf[c]] - sum

\* sumCompletedForPayment and the balance check.
sumRefunds(c) ==
    /\ pc[c] = "sum"
    /\ seen' = [seen EXCEPT ![c].refunded = refunded[RefundOf[c]]]
    /\ Goto(c, IF Refundable(c, refunded[RefundOf[c]]) THEN "write" ELSE "refused")
    /\ UNCHANGED <<booking, row, refunded, gateway, ok, history>>

RefundStatus(p, sum) == IF sum >= Amount[p] THEN "refunded" ELSE "partially_refunded"

\* The transaction that completes the refund and writes payment and booking.
refundPayment(c) ==
    /\ pc[c] = "write"
    /\ refunded' = [refunded EXCEPT ![RefundOf[c]] = @ + Amount[c]]
    /\ row' = [row EXCEPT ![RefundOf[c]] = RefundStatus(RefundOf[c], seen[c].refunded + Amount[c])]
    /\ setPaid(c, AtLeastZero(seen[c].paid - Amount[c]))
    /\ returned' = returned + Amount[c]
    /\ Goto(c, "done")
    /\ UNCHANGED <<status, gateway, seen, ok, recorded>>

\* The server stops under a call; open transactions roll back.
crash(c) ==
    /\ pc[c] \notin {"start", "done", "refused", "crashed"}
    /\ Goto(c, "crashed")
    /\ UNCHANGED <<booking, row, refunded, gateway, seen, ok, history>>

SetStatus(new) ==
    /\ status' = new
    /\ UNCHANGED <<paid, due, row, refunded, gateway, pc, seen, ok, history>>

\* The rest of the life cycle, each call in one step (BookingService has its
\* own steps): the sweeper, a staff confirmation, cancelBooking.
sweep == status = "held" /\ SetStatus("cancelled")
staffConfirm == status = "held" /\ SetStatus("confirmed")
cancelBooking == status \in {"held", "confirmed"} /\ SetStatus("cancelled")

pay(c) ==
    findBooking(c) \/ charge(c) \/ recordPayment(c) \/ checkConfirm(c) \/ confirmBooking(c)

refund(c) == findPayment(c) \/ sumRefunds(c) \/ refundPayment(c)

Next ==
    \/ \E c \in Payments : pay(c)
    \/ \E c \in Refunds : refund(c)
    \/ \E c \in Calls : crash(c)
    \/ \E o \in Orders : approve(o)
    \/ sweep \/ staffConfirm \/ cancelBooking

Spec == Init /\ [][Next]_vars

\* A request that has begun is carried on by the server.
Fairness ==
    /\ \A c \in Payments : WF_vars(pc[c] # "start" /\ pay(c))
    /\ \A c \in Refunds : WF_vars(pc[c] # "start" /\ refund(c))

FairSpec == Spec /\ Fairness

-----------------------------------------------------------------------------
\* Properties

Statuses == {"held", "pending", "confirmed", "cancelled"}
Rows == {"none", "failed", "paid", "partially_refunded", "refunded"}
Pcs == {"start", "charge", "record", "confirm", "confirming", "sum", "write",
        "done", "refused", "crashed"}

\* Every variable has its type, and the due amount is what is left to pay.
TypeOK ==
    /\ status \in Statuses
    /\ paid \in Nat /\ due = AtLeastZero(Total - paid)
    /\ row \in [Payments -> Rows]
    /\ refunded \in [Payments -> Nat]
    /\ order \in [Orders -> {"open", "approved", "taken"}]
    /\ made \in [Keys -> Nat] /\ taken \in Nat
    /\ pc \in [Calls -> Pcs]
    /\ seen \in [Calls -> [status : Statuses, paid : Nat, refunded : Nat]]
    /\ ok \subseteq Payments
    /\ recorded \in Nat /\ returned \in Nat
    /\ fresh \in [Calls -> BOOLEAN] /\ stale \in BOOLEAN

\* As long as no call wrote from a read that another write had overtaken, the
\* booking's paid amount is the paid rows less the completed refunds, whatever
\* calls were declined, refused or cut off on the way.
AccountsExact == stale \/ paid = recorded - returned

\* Under the same condition no payment is refunded beyond its amount, and its
\* status tells how much of it went back.
RefundsWithinPayment ==
    stale \/ \A p \in Payments :
        /\ refunded[p] <= Amount[p]
        /\ refunded[p] > 0 => row[p] = RefundStatus(p, refunded[p])
        /\ row[p] \in {"partially_refunded", "refunded"} => refunded[p] > 0

\* Races can only lose payments: the booking never shows more paid than the
\* payment rows add up to.
PaidWithinRecorded == paid <= recorded

\* A payment call confirms the booking only when payments of the whole price
\* were recorded, stale reads or not.
ConfirmsOnlyCovered ==
    \A c \in Payments : pc[c] \in {"confirm", "confirming"} => recorded >= Total

\* A payment through an order is recorded as paid only once the gateway took
\* the order's money, and by one call, however often the completion is
\* repeated; only a verification that may be repeated records it again.
PaidOrdersTaken ==
    \A p \in Payments :
        row[p] \notin {"none", "failed"} /\ Via[p] \in Orders =>
            /\ order[Via[p]] = "taken"
            /\ Via[p] \in Repeatable
               \/ \A q \in Payments \ {p} : Via[q] = Via[p] => row[q] \in {"none", "failed"}

\* Two payments stand on one charge: Nagad's verify said Success again, or the
\* charge was replayed to a key that was sent again.
ShareACharge(p, q) == p # q /\ Via[p] = Via[q] /\ Via[p] \in Repeatable \cup Keys

\* The rows carry the amount the caller states, and no provider's answer is
\* compared with it.
Overstates(p) == Via[p] \in Orders /\ Amount[p] > Value[Via[p]]

\* The paid rows add up to more than the gateways took only after one of these
\* two: lost answers, declines, repeated completions of one order, keys sent
\* again with another amount and a server that stops anywhere never do it.
RecordedWasTaken ==
    recorded > taken => \/ \E p, q \in ok : ShareACharge(p, q)
                        \/ \E p \in ok : Overstates(p)

\* A booking paid in full within its hold does not stay held, unless the
\* server stops under a call.
PaidInFullLeavesHold ==
    (paid >= Total /\ status = "held")
        ~> (status # "held" \/ \E c \in Calls : pc[c] = "crashed")

\* The claim of booking-flow.md: no customer is refunded more than they paid.
NeverRefundedMore == returned <= recorded

=============================================================================

------------------------- MODULE PaymentLedgerProofs -------------------------
(***************************************************************************)
(* What PaymentLedger keeps for any number of payments, refunds and        *)
(* orders, with stale reads, lost answers and crashes.                     *)
(***************************************************************************)
EXTENDS PaymentLedger, CountingLemmas, TLAPS

Unpaid == {"none", "failed"}

\* Nobody ever read more than was recorded.
ReadsWithinRecorded == \A c \in Calls : seen[c].paid <= recorded

\* A row is paid only after a successful answer, and the refunds know it.
RowsFollowAnswers ==
    /\ \A p \in Payments : row[p] \notin Unpaid => p \in ok
    /\ \A p \in Payments : pc[p] \in {"start", "charge"} => p \notin ok
    /\ \A p \in Payments : pc[p] \in {"start", "charge", "record"} => row[p] = "none"
    /\ \A c \in Refunds : pc[c] \in {"sum", "write"} => row[RefundOf[c]] \notin Unpaid

\* A success through an order means the order is taken, by one call unless
\* the order may be verified repeatedly; one under a key, that the key has
\* charged the call's amount.
AnswersFollowOrders ==
    /\ \A p \in ok : Via[p] \in Keys => made[Via[p]] = Amount[p]
    /\ \A p \in ok : Via[p] \in Orders => order[Via[p]] = "taken"
    /\ \A p, q \in ok : p # q /\ Via[p] = Via[q] /\ Via[p] \in Orders => Via[p] \in Repeatable

\* While no stale write happened, a fresh refund call knows the sum it adds to.
FreshSums ==
    stale \/ \A c \in Refunds : fresh[c] /\ pc[c] = "write" =>
        /\ seen[c].refunded = refunded[RefundOf[c]]
        /\ Refundable(c, refunded[RefundOf[c]])

\* Only paid payments have refunds.
RefundedArePaid == \A p \in Payments : row[p] \in Unpaid => refunded[p] = 0

IInv ==
    /\ TypeOK
    /\ PaidWithinRecorded /\ ReadsWithinRecorded /\ ConfirmsOnlyCovered
    /\ RowsFollowAnswers /\ AnswersFollowOrders
    /\ RefundedArePaid /\ FreshSums /\ RefundsWithinPayment

-----------------------------------------------------------------------------

\* The initial state satisfies the invariant: nothing is read, paid or refunded.
LEMMA InitIInv == Init => IInv
<1> SUFFICES ASSUME Init PROVE IInv
  OBVIOUS
<1> USE LedgerAssumption DEF Init, Calls
<1>1. TypeOK
  <2>1. Unread \in [status : Statuses, paid : Nat, refunded : Nat]
    BY DEF Unread, Statuses
  <2>2. due = AtLeastZero(Total - paid)
    BY DEF AtLeastZero
  <2>3. QED
    BY <2>1, <2>2 DEF TypeOK, Statuses, Rows, Pcs
<1>2. PaidWithinRecorded /\ ReadsWithinRecorded /\ ConfirmsOnlyCovered
  BY DEF PaidWithinRecorded, ReadsWithinRecorded, ConfirmsOnlyCovered, Unread
<1>3. RowsFollowAnswers /\ AnswersFollowOrders
  BY DEF RowsFollowAnswers, AnswersFollowOrders, Unpaid
<1>4. RefundedArePaid /\ FreshSums /\ RefundsWithinPayment
  BY DEF RefundedArePaid, FreshSums, RefundsWithinPayment, Unpaid
<1>5. QED
  BY <1>1, <1>2, <1>3, <1>4 DEF IInv

\* The clamp used for due and paid amounts stays within the naturals.
LEMMA ClampIsNat == \A n \in Int : AtLeastZero(n) \in Nat /\ (n >= 0 => AtLeastZero(n) = n)
  BY DEF AtLeastZero

\* What fits the balance still fits once it is added.
LEMMA BalanceAfter ==
  \A sum \in Nat, n \in Nat \ {0}, limit \in Nat :
      n <= limit - sum => sum + n > 0 /\ sum + n <= limit
  OBVIOUS

\* Every payment action keeps the types.
LEMMA TypePay ==
  ASSUME TypeOK, NEW c \in Payments, pay(c)
  PROVE  TypeOK'
<1> USE LedgerAssumption DEF TypeOK, Calls, booking, gateway, history
<1>1. CASE findBooking(c)
  <2>1. seen' \in [Calls -> [status : Statuses, paid : Nat, refunded : Nat]]
    BY <1>1 DEF findBooking
  <2>2. pc' \in [Calls -> Pcs] /\ fresh' \in [Calls -> BOOLEAN]
    BY <1>1 DEF findBooking, Goto, Pcs
  <2>3. QED
    BY <1>1, <2>1, <2>2 DEF findBooking
<1>2. CASE charge(c)
  <2>1. CASE decline(c)
    BY <1>2, <2>1 DEF decline, Answered, Goto, Pcs
  <2>2. CASE chargeCard(c)
    <3>1. made' \in [Keys -> Nat] /\ taken' \in Nat
      BY <2>2 DEF chargeCard
    <3>2. QED
      BY <2>2, <3>1 DEF chargeCard, Answered, Goto, Pcs
  <2>3. CASE capture(c)
    <3>1. order' \in [Orders -> {"open", "approved", "taken"}] /\ taken' \in Nat
      BY <2>3 DEF capture
    <3>2. QED
      BY <2>3, <3>1 DEF capture, Answered, Goto, Pcs
  <2>4. CASE verify(c)
    BY <2>4 DEF verify, Answered, Goto, Pcs
  <2>5. CASE replay(c)
    BY <2>5 DEF replay, Answered, Goto, Pcs
  <2>6. QED
    BY <1>2, <2>1, <2>2, <2>3, <2>4, <2>5 DEF charge
<1>3. CASE recordPayment(c)
  <2>1. NewPaid(c) \in Nat
    BY DEF NewPaid
  <2>2. row' \in [Payments -> Rows]
    BY <1>3 DEF recordPayment, Rows
  <2>3. pc' \in [Calls -> Pcs]
    BY <1>3 DEF recordPayment, Goto, Pcs
  <2>4. /\ paid' \in Nat /\ due' = AtLeastZero(Total - paid')
        /\ recorded' \in Nat /\ fresh' \in [Calls -> BOOLEAN] /\ stale' \in BOOLEAN
    <3>1. CASE c \in ok
      <4>1. setPaid(c, NewPaid(c)) /\ recorded' = recorded + Amount[c]
        BY <1>3, <3>1 DEF recordPayment
      <4>2. stale' \in BOOLEAN
        BY <4>1, Zenon DEF setPaid
      <4>3. QED
        BY <2>1, <4>1, <4>2 DEF setPaid
    <3>2. CASE c \notin ok
      BY <1>3, <3>2 DEF recordPayment
    <3>3. QED
      BY <3>1, <3>2
  <2>5. QED
    BY <1>3, <2>2, <2>3, <2>4 DEF recordPayment
<1>4. CASE checkConfirm(c)
  BY <1>4 DEF checkConfirm, Goto, Pcs
<1>5. CASE confirmBooking(c)
  BY <1>5 DEF confirmBooking, Goto, Pcs, Statuses
<1>6. QED
  BY <1>1, <1>2, <1>3, <1>4, <1>5 DEF pay

\* Every refund action keeps the types.
LEMMA TypeRefund ==
  ASSUME TypeOK, NEW c \in Refunds, refund(c)
  PROVE  TypeOK'
<1> USE LedgerAssumption DEF TypeOK, Calls, booking, gateway, history
<1>1. CASE findPayment(c)
  <2>1. seen' \in [Calls -> [status : Statuses, paid : Nat, refunded : Nat]]
    BY <1>1 DEF findPayment
  <2>2. pc' \in [Calls -> Pcs] /\ fresh' \in [Calls -> BOOLEAN]
    BY <1>1 DEF findPayment, Goto, Pcs
  <2>3. QED
    BY <1>1, <2>1, <2>2 DEF findPayment
<1>2. CASE sumRefunds(c)
  <2>1. seen' \in [Calls -> [status : Statuses, paid : Nat, refunded : Nat]]
    BY <1>2 DEF sumRefunds
  <2>2. pc' \in [Calls -> Pcs]
    BY <1>2 DEF sumRefunds, Goto, Pcs
  <2>3. QED
    BY <1>2, <2>1, <2>2 DEF sumRefunds
<1>3. CASE refundPayment(c)
  <2>1. RefundOf[c] \in Payments /\ Amount[c] \in Nat
    OBVIOUS
  <2>2. seen[c].paid - Amount[c] \in Int
    BY <2>1
  <2>3. AtLeastZero(seen[c].paid - Amount[c]) \in Nat
    BY <2>2, ClampIsNat
  <2>4. row' \in [Payments -> Rows]
    BY <1>3, <2>1 DEF refundPayment, RefundStatus, Rows
  <2>5. refunded' \in [Payments -> Nat] /\ returned' \in Nat
    BY <1>3, <2>1 DEF refundPayment
  <2>6. setPaid(c, AtLeastZero(seen[c].paid - Amount[c]))
    BY <1>3 DEF refundPayment
  <2>7. stale' \in BOOLEAN
    BY <2>6, Zenon DEF setPaid
  <2>8. /\ paid' \in Nat /\ due' = AtLeastZero(Total - paid')
        /\ fresh' \in [Calls -> BOOLEAN]
    BY <2>3, <2>6 DEF setPaid
  <2>9. pc' \in [Calls -> Pcs]
    BY <1>3 DEF refundPayment, Goto, Pcs
  <2>10. QED
    BY <1>3, <2>4, <2>5, <2>7, <2>8, <2>9 DEF refundPayment
<1>4. QED
  BY <1>1, <1>2, <1>3 DEF refund

\* The rest of the system keeps the types.
LEMMA TypeOthers ==
  ASSUME TypeOK,
         \/ \E c \in Calls : crash(c)
         \/ \E o \in Orders : approve(o)
         \/ sweep \/ staffConfirm \/ cancelBooking
         \/ UNCHANGED vars
  PROVE  TypeOK'
<1> USE LedgerAssumption DEF TypeOK, Calls, booking, gateway, history
<1>1. ASSUME NEW c \in Calls, crash(c) PROVE TypeOK'
  BY <1>1 DEF crash, Goto, Pcs
<1>2. ASSUME NEW o \in Orders, approve(o) PROVE TypeOK'
  BY <1>2 DEF approve
<1>3. CASE sweep \/ staffConfirm \/ cancelBooking
  BY <1>3 DEF sweep, staffConfirm, cancelBooking, SetStatus, Statuses
<1>4. CASE UNCHANGED vars
  BY <1>4 DEF vars
<1>5. QED
  BY <1>1, <1>2, <1>3, <1>4

\* The types are an invariant step by step.
LEMMA TypeStep ==
  ASSUME TypeOK, [Next]_vars
  PROVE  TypeOK'
<1>1. CASE \E c \in Payments : pay(c)
  BY <1>1, TypePay
<1>2. CASE \E c \in Refunds : refund(c)
  BY <1>2, TypeRefund
<1>3. CASE (\E c \in Calls : crash(c)) \/ (\E o \in Orders : approve(o))
           \/ sweep \/ staffConfirm \/ cancelBooking \/ UNCHANGED vars
  BY <1>3, TypeOthers
<1>4. QED
  BY <1>1, <1>2, <1>3 DEF Next

-----------------------------------------------------------------------------

\* Stale reads lose money of the booking, never make it: the paid amount stays
\* within what was recorded, and so does every read of it.
LEMMA MoneyStep ==
  ASSUME TypeOK, PaidWithinRecorded, ReadsWithinRecorded, ConfirmsOnlyCovered, [Next]_vars
  PROVE  PaidWithinRecorded' /\ ReadsWithinRecorded' /\ ConfirmsOnlyCovered'
<1> USE LedgerAssumption DEF TypeOK, Calls,
        PaidWithinRecorded, ReadsWithinRecorded, ConfirmsOnlyCovered
<1>1. ASSUME NEW c \in Payments, findBooking(c)
      PROVE  PaidWithinRecorded' /\ ReadsWithinRecorded' /\ ConfirmsOnlyCovered'
  <2>1. paid' = paid /\ recorded' = recorded
    BY <1>1 DEF findBooking, booking
  <2>2. \A d \in Calls : seen'[d].paid \in {seen[d].paid, paid}
    BY <1>1 DEF findBooking
  <2>3. \A p \in Payments : pc'[p] = pc[p] \/ pc'[p] \in {"refused", "charge"}
    BY <1>1 DEF findBooking, Goto
  <2>4. QED
    BY <2>1, <2>2, <2>3
<1>2. ASSUME NEW c \in Payments, charge(c)
      PROVE  PaidWithinRecorded' /\ ReadsWithinRecorded' /\ ConfirmsOnlyCovered'
  BY <1>2 DEF charge, decline, chargeCard, replay, capture, verify, Answered, Goto, booking, history
<1>3. ASSUME NEW c \in Payments, recordPayment(c)
      PROVE  PaidWithinRecorded' /\ ReadsWithinRecorded' /\ ConfirmsOnlyCovered'
  <2>1. CASE c \in ok
    <3>1. paid' = seen[c].paid + Amount[c] /\ recorded' = recorded + Amount[c]
      BY <1>3, <2>1 DEF recordPayment, setPaid, NewPaid
    <3>2. seen' = seen /\ seen[c].paid \in Nat /\ Amount[c] \in Nat
      BY <1>3 DEF recordPayment
    <3>3. PaidWithinRecorded' /\ ReadsWithinRecorded'
      BY <3>1, <3>2
    <3>4. pc' = [pc EXCEPT ![c] = IF FullyPaid(c, NewPaid(c)) THEN "confirm" ELSE "done"]
      BY <1>3, <2>1 DEF recordPayment, Goto
    <3>5. FullyPaid(c, NewPaid(c)) => recorded' >= Total
      BY <3>1, <3>2 DEF FullyPaid, NewPaid
    <3>6. ConfirmsOnlyCovered'
      BY <3>1, <3>2, <3>4, <3>5
    <3>7. QED
      BY <3>3, <3>6
  <2>2. CASE c \notin ok
    BY <1>3, <2>2 DEF recordPayment, Goto
  <2>3. QED
    BY <2>1, <2>2
<1>4. ASSUME NEW c \in Payments, checkConfirm(c) \/ confirmBooking(c)
      PROVE  PaidWithinRecorded' /\ ReadsWithinRecorded' /\ ConfirmsOnlyCovered'
  BY <1>4 DEF checkConfirm, confirmBooking, Goto, booking, history
<1>5. ASSUME NEW c \in Refunds, findPayment(c) \/ sumRefunds(c)
      PROVE  PaidWithinRecorded' /\ ReadsWithinRecorded' /\ ConfirmsOnlyCovered'
  <2>1. paid' = paid /\ recorded' = recorded
    BY <1>5 DEF findPayment, sumRefunds, booking, history
  <2>2. \A d \in Calls : seen'[d].paid \in {seen[d].paid, paid}
    <3>1. CASE findPayment(c)
      BY <3>1 DEF findPayment
    <3>2. CASE sumRefunds(c)
      BY <3>2 DEF sumRefunds
    <3>3. QED
      BY <1>5, <3>1, <3>2
  <2>3. \A p \in Payments : pc'[p] = pc[p]
    BY <1>5 DEF findPayment, sumRefunds, Goto
  <2>4. QED
    BY <2>1, <2>2, <2>3
<1>6. ASSUME NEW c \in Refunds, refundPayment(c)
      PROVE  PaidWithinRecorded' /\ ReadsWithinRecorded' /\ ConfirmsOnlyCovered'
  <2>1. seen[c].paid \in Nat /\ Amount[c] \in Nat /\ seen[c].paid <= recorded
    OBVIOUS
  <2>2. paid' <= recorded /\ recorded' = recorded /\ seen' = seen
    BY <1>6, <2>1 DEF refundPayment, setPaid, AtLeastZero
  <2>3. pc' = [pc EXCEPT ![c] = "done"]
    BY <1>6 DEF refundPayment, Goto
  <2>4. QED
    BY <2>2, <2>3
<1>7. ASSUME NEW c \in Calls, crash(c)
      PROVE  PaidWithinRecorded' /\ ReadsWithinRecorded' /\ ConfirmsOnlyCovered'
  BY <1>7 DEF crash, Goto, booking, history
<1>8. CASE (\E o \in Orders : approve(o)) \/ sweep \/ staffConfirm \/ cancelBooking \/ UNCHANGED vars
  BY <1>8 DEF approve, sweep, staffConfirm, cancelBooking, SetStatus, vars, booking, history
<1>9. QED
  BY <1>1, <1>2, <1>3, <1>4, <1>5, <1>6, <1>7, <1>8 DEF Next, pay, refund

-----------------------------------------------------------------------------

\* A paid row needs a successful answer, and an answer is given once per call.
LEMMA RowsStep ==
  ASSUME TypeOK, RowsFollowAnswers, [Next]_vars
  PROVE  RowsFollowAnswers'
<1> USE LedgerAssumption DEF TypeOK, Calls, Unpaid, RowsFollowAnswers
<1>1. ASSUME NEW c \in Payments, findBooking(c)
      PROVE  RowsFollowAnswers'
  BY <1>1 DEF findBooking, Goto
<1>2. ASSUME NEW c \in Payments, charge(c)
      PROVE  RowsFollowAnswers'
  <2>1. pc[c] = "charge" /\ \E success \in BOOLEAN : Answered(c, success)
    BY <1>2 DEF charge, decline, chargeCard, replay, capture, verify
  <2>2. ok \subseteq ok' /\ ok' \subseteq ok \cup {c}
    BY <2>1 DEF Answered
  <2>3. row' = row /\ pc' = [pc EXCEPT ![c] = "record"]
    BY <2>1 DEF Answered, Goto
  <2>4. QED
    BY <2>1, <2>2, <2>3
<1>3. ASSUME NEW c \in Payments, recordPayment(c)
      PROVE  RowsFollowAnswers'
  <2>1. pc[c] = "record" /\ ok' = ok
    BY <1>3 DEF recordPayment
  <2>2. row' = [row EXCEPT ![c] = IF c \in ok THEN "paid" ELSE "failed"]
    BY <1>3 DEF recordPayment
  <2>3. \/ pc' = [pc EXCEPT ![c] = "confirm"]
        \/ pc' = [pc EXCEPT ![c] = "done"]
    BY <1>3 DEF recordPayment, Goto
  <2>4. QED
    BY <2>1, <2>2, <2>3
<1>4. ASSUME NEW c \in Payments, checkConfirm(c) \/ confirmBooking(c)
      PROVE  RowsFollowAnswers'
  BY <1>4 DEF checkConfirm, confirmBooking, Goto, booking, history
<1>5. ASSUME NEW c \in Refunds, findPayment(c) \/ sumRefunds(c)
      PROVE  RowsFollowAnswers'
  BY <1>5 DEF findPayment, sumRefunds, Goto
<1>6. ASSUME NEW c \in Refunds, refundPayment(c)
      PROVE  RowsFollowAnswers'
  <2>1. RefundOf[c] \in Payments /\ row[RefundOf[c]] \notin {"none", "failed"}
    BY <1>6 DEF refundPayment
  <2>2. \/ row' = [row EXCEPT ![RefundOf[c]] = "refunded"]
        \/ row' = [row EXCEPT ![RefundOf[c]] = "partially_refunded"]
    BY <1>6 DEF refundPayment, RefundStatus
  <2>3. ok' = ok /\ pc' = [pc EXCEPT ![c] = "done"]
    BY <1>6 DEF refundPayment, Goto
  <2>4. \A p \in Payments : row'[p] = row[p] \/ (p = RefundOf[c] /\ row'[p] \notin {"none", "failed"})
    BY <2>2
  <2>5. \A d \in Calls : pc'[d] = pc[d] \/ pc'[d] = "done"
    BY <2>3
  <2>6. \A p \in Payments : pc[p] \in {"start", "charge", "record"} => p # RefundOf[c]
    BY <2>1
  <2>7. QED
    BY <2>1, <2>3, <2>4, <2>5, <2>6
<1>7. ASSUME NEW c \in Calls, crash(c)
      PROVE  RowsFollowAnswers'
  BY <1>7 DEF crash, Goto
<1>8. CASE (\E o \in Orders : approve(o)) \/ sweep \/ staffConfirm \/ cancelBooking \/ UNCHANGED vars
  BY <1>8 DEF approve, sweep, staffConfirm, cancelBooking, SetStatus, vars
<1>9. QED
  BY <1>1, <1>2, <1>3, <1>4, <1>5, <1>6, <1>7, <1>8 DEF Next, pay, refund

\* An order answers success when it is taken, and to one call.
LEMMA AnswersStep ==
  ASSUME TypeOK, RowsFollowAnswers, AnswersFollowOrders, [Next]_vars
  PROVE  AnswersFollowOrders'
<1> USE LedgerAssumption DEF TypeOK, Calls, AnswersFollowOrders
<1>1. ASSUME NEW c \in Payments, decline(c)
      PROVE  AnswersFollowOrders'
  BY <1>1 DEF decline, Answered, gateway
<1>2. ASSUME NEW c \in Payments, chargeCard(c)
      PROVE  AnswersFollowOrders'
  <2>1. /\ pc[c] = "charge" /\ Via[c] \in Keys \cup {"card"} /\ order' = order
        /\ Via[c] \in Keys => made[Via[c]] = 0
        /\ made' = [k \in Keys |-> IF k = Via[c] THEN Amount[c] ELSE made[k]]
        /\ ok' \subseteq ok \cup {c}
    BY <1>2 DEF chargeCard, Answered
  <2>2. \A p \in ok : Via[p] \in Keys => Via[p] # Via[c]
    BY <2>1
  <2>3. \A p \in ok' : Via[p] \in Keys => made'[Via[p]] = Amount[p]
    BY <2>1, <2>2
  <2>4. Via[c] \notin Orders
    BY <2>1
  <2>5. QED
    BY <2>1, <2>3, <2>4
<1>3. ASSUME NEW c \in Payments, capture(c)
      PROVE  AnswersFollowOrders'
  <2>1. Via[c] \in Orders /\ order[Via[c]] = "approved"
        /\ order' = [order EXCEPT ![Via[c]] = "taken"]
        /\ made' = made /\ Via[c] \notin Keys
    BY <1>3 DEF capture
  <2>2. ok' \subseteq ok \cup {c}
    BY <1>3 DEF capture, Answered
  <2>3. \A p \in ok : Via[p] # Via[c]
    BY <2>1
  <2>4. \A p \in ok' : Via[p] \in Orders => order'[Via[p]] = "taken"
    BY <2>1, <2>2
  <2>5. \A p \in ok' : Via[p] \in Keys => made'[Via[p]] = Amount[p]
    BY <2>1, <2>2
  <2>6. QED
    BY <2>2, <2>3, <2>4, <2>5
<1>4. ASSUME NEW c \in Payments, verify(c) \/ replay(c)
      PROVE  AnswersFollowOrders'
  BY <1>4 DEF verify, replay, Answered, gateway
<1>5. ASSUME NEW o \in Orders, approve(o)
      PROVE  AnswersFollowOrders'
  BY <1>5 DEF approve
<1>6. ASSUME UNCHANGED <<ok, order, made>>
      PROVE  AnswersFollowOrders'
  BY <1>6
<1>7. \A c \in Calls : \/ findBooking(c) \/ recordPayment(c) \/ checkConfirm(c)
                       \/ confirmBooking(c) \/ refund(c) \/ crash(c)
                       => UNCHANGED <<ok, order, made>>
  BY DEF findBooking, recordPayment, checkConfirm, confirmBooking, refund, findPayment,
         sumRefunds, refundPayment, crash, gateway
<1>8. sweep \/ staffConfirm \/ cancelBooking \/ UNCHANGED vars => UNCHANGED <<ok, order, made>>
  BY DEF sweep, staffConfirm, cancelBooking, SetStatus, vars, gateway
<1>9. QED
  BY <1>1, <1>2, <1>3, <1>4, <1>5, <1>6, <1>7, <1>8 DEF Next, pay, charge

-----------------------------------------------------------------------------

\* Without stale writes each payment's refunds stay within its amount, and its
\* status tells their sum.
LEMMA RefundsStep ==
  ASSUME TypeOK, RowsFollowAnswers, RefundedArePaid, FreshSums, RefundsWithinPayment,
         [Next]_vars
  PROVE  RefundedArePaid' /\ FreshSums' /\ RefundsWithinPayment'
<1> DEFINE Kept == RefundedArePaid' /\ FreshSums' /\ RefundsWithinPayment'
<1> USE LedgerAssumption DEF TypeOK, Calls
<1>1. ASSUME NEW c \in Payments, findBooking(c)
      PROVE  Kept
  <2>1. row' = row /\ refunded' = refunded /\ stale' = stale
    BY <1>1 DEF findBooking
  <2>2. \A d \in Refunds : /\ pc'[d] = pc[d] /\ fresh'[d] = fresh[d] /\ seen'[d] = seen[d]
    BY <1>1 DEF findBooking, Goto
  <2>3. QED
    BY <2>1, <2>2 DEF RefundedArePaid, FreshSums, RefundsWithinPayment, Unpaid, Refundable, RefundStatus
<1>2. ASSUME NEW c \in Payments, charge(c) \/ checkConfirm(c) \/ confirmBooking(c)
      PROVE  Kept
  <2>1. row' = row /\ refunded' = refunded /\ stale' = stale /\ fresh' = fresh /\ seen' = seen
    BY <1>2 DEF charge, decline, chargeCard, replay, capture, verify, Answered, checkConfirm,
                confirmBooking, history
  <2>2. \A d \in Refunds : pc'[d] = pc[d]
    BY <1>2 DEF charge, decline, chargeCard, replay, capture, verify, Answered, checkConfirm,
                confirmBooking, Goto
  <2>3. QED
    BY <2>1, <2>2 DEF RefundedArePaid, FreshSums, RefundsWithinPayment, Unpaid, Refundable, RefundStatus
<1>3. ASSUME NEW c \in Payments, recordPayment(c)
      PROVE  Kept
  <2>1. row[c] = "none" /\ refunded' = refunded /\ seen' = seen
    BY <1>3 DEF recordPayment, RowsFollowAnswers
  <2>2. row' = [row EXCEPT ![c] = IF c \in ok THEN "paid" ELSE "failed"]
    BY <1>3 DEF recordPayment
  <2>3. \A d \in Refunds : pc'[d] = pc[d] /\ (fresh'[d] => fresh[d])
    BY <1>3 DEF recordPayment, Goto, setPaid
  <2>4. stale => stale'
    BY <1>3, Zenon DEF recordPayment, setPaid
  <2>5. refunded[c] = 0
    BY <2>1 DEF RefundedArePaid, Unpaid
  <2>6. RefundedArePaid'
    BY <2>1, <2>2, <2>5 DEF RefundedArePaid, Unpaid
  <2>7. FreshSums'
    BY <2>1, <2>3, <2>4 DEF FreshSums, Refundable
  <2>8. RefundsWithinPayment'
    BY <2>1, <2>2, <2>4, <2>5 DEF RefundsWithinPayment, RefundStatus
  <2>9. QED
    BY <2>6, <2>7, <2>8
<1>4. ASSUME NEW c \in Refunds, findPayment(c)
      PROVE  Kept
  <2>1. row' = row /\ refunded' = refunded /\ stale' = stale
    BY <1>4 DEF findPayment
  <2>2. pc'[c] # "write" /\ \A d \in Refunds \ {c} :
                /\ pc'[d] = pc[d] /\ fresh'[d] = fresh[d] /\ seen'[d] = seen[d]
    BY <1>4 DEF findPayment, Goto
  <2>3. FreshSums'
    BY <2>1, <2>2 DEF FreshSums, Refundable
  <2>4. QED
    BY <2>1, <2>3 DEF RefundedArePaid, RefundsWithinPayment, Unpaid, RefundStatus
<1>5. ASSUME NEW c \in Refunds, sumRefunds(c)
      PROVE  Kept
  <2>1. row' = row /\ refunded' = refunded /\ stale' = stale /\ fresh' = fresh
    BY <1>5 DEF sumRefunds, history
  <2>2. /\ seen'[c].refunded = refunded[RefundOf[c]]
        /\ pc'[c] = "write" => Refundable(c, refunded[RefundOf[c]])
    BY <1>5 DEF sumRefunds, Goto
  <2>3. \A d \in Refunds \ {c} : pc'[d] = pc[d] /\ seen'[d] = seen[d]
    BY <1>5 DEF sumRefunds, Goto
  <2>4. FreshSums'
    BY <2>1, <2>2, <2>3 DEF FreshSums, Refundable
  <2>5. QED
    BY <2>1, <2>4 DEF RefundedArePaid, RefundsWithinPayment, Unpaid, RefundStatus
<1>6. ASSUME NEW c \in Refunds, refundPayment(c)
      PROVE  Kept
  <2> DEFINE p == RefundOf[c]
  <2>1. p \in Payments /\ row[p] \notin Unpaid /\ pc[c] = "write"
    BY <1>6 DEF refundPayment, RowsFollowAnswers
  <2>2. refunded' = [refunded EXCEPT ![p] = @ + Amount[c]]
    BY <1>6 DEF refundPayment
  <2>3. row' = [row EXCEPT ![p] = RefundStatus(p, seen[c].refunded + Amount[c])]
    BY <1>6 DEF refundPayment
  <2>4. fresh' = [d \in Calls |-> FALSE] /\ (stale' <=> stale \/ ~fresh[c])
    BY <1>6, Zenon DEF refundPayment, setPaid
  <2>5. RefundStatus(p, seen[c].refunded + Amount[c]) \in {"refunded", "partially_refunded"}
    BY DEF RefundStatus
  <2>6. RefundedArePaid'
    BY <2>1, <2>2, <2>3, <2>5 DEF RefundedArePaid, Unpaid
  <2>7. FreshSums'
    BY <2>4 DEF FreshSums
  <2>8. RefundsWithinPayment'
    <3>1. CASE stale'
      BY <3>1 DEF RefundsWithinPayment
    <3>2. CASE ~stale'
      <4>1. ~stale /\ fresh[c]
        BY <2>4, <3>2
      <4>2. seen[c].refunded = refunded[p] /\ Amount[c] <= Amount[p] - refunded[p]
        BY <2>1, <4>1 DEF FreshSums, Refundable
      <4>3. refunded'[p] = refunded[p] + Amount[c] /\ refunded'[p] > 0 /\ refunded'[p] <= Amount[p]
        <5>1. refunded[p] \in Nat /\ Amount[c] \in Nat \ {0} /\ Amount[p] \in Nat
          BY <2>1
        <5>2. refunded'[p] = refunded[p] + Amount[c]
          BY <2>1, <2>2
        <5>3. refunded[p] + Amount[c] > 0 /\ refunded[p] + Amount[c] <= Amount[p]
          BY ONLY <4>2, <5>1, BalanceAfter
        <5>4. QED
          BY ONLY <5>2, <5>3
      <4>4. row'[p] = RefundStatus(p, refunded'[p])
        BY <2>1, <2>3, <4>2, <4>3
      <4>5. \A q \in Payments \ {p} : row'[q] = row[q] /\ refunded'[q] = refunded[q]
        BY <2>1, <2>2, <2>3
      <4>6. QED
        BY <4>1, <4>3, <4>4, <4>5 DEF RefundsWithinPayment, RefundStatus
    <3>3. QED
      BY <3>1, <3>2
  <2>9. QED
    BY <2>6, <2>7, <2>8
<1>7. ASSUME NEW c \in Calls, crash(c)
      PROVE  Kept
  <2>1. /\ row' = row /\ refunded' = refunded /\ stale' = stale /\ fresh' = fresh /\ seen' = seen
        /\ \A d \in Refunds : pc'[d] = "write" => pc[d] = "write"
    BY <1>7 DEF crash, Goto, history
  <2>2. QED
    BY <2>1 DEF RefundedArePaid, FreshSums, RefundsWithinPayment, Unpaid, Refundable, RefundStatus
<1>8. CASE (\E o \in Orders : approve(o)) \/ sweep \/ staffConfirm \/ cancelBooking \/ UNCHANGED vars
  <2>1. UNCHANGED <<row, refunded, stale, fresh, seen, pc>>
    BY <1>8 DEF approve, sweep, staffConfirm, cancelBooking, SetStatus, vars, history
  <2>2. QED
    BY <2>1 DEF RefundedArePaid, FreshSums, RefundsWithinPayment, Unpaid, Refundable, RefundStatus
<1>9. QED
  BY <1>1, <1>2, <1>3, <1>4, <1>5, <1>6, <1>7, <1>8 DEF Next, pay, refund

-----------------------------------------------------------------------------

\* The conjunction is inductive.
LEMMA IInvStep == IInv /\ [Next]_vars => IInv'
  BY TypeStep, MoneyStep, RowsStep, AnswersStep, RefundsStep DEF IInv

\* The invariant of the theorems below.
LEMMA IInvariant == Spec => []IInv
  BY InitIInv, IInvStep, PTL DEF Spec

\* The variables keep their types and the due amount is never negative, for
\* any number of payments and refunds.
THEOREM LedgerTypeCorrect == Spec => []TypeOK
<1>1. IInv => TypeOK
  BY DEF IInv
<1>2. QED
  BY <1>1, IInvariant, PTL

\* Whatever reads are stale, the booking never shows more paid than the rows of
\* the payments (paymentService.js: newPaidAmount).
THEOREM BookingWithinRecorded == Spec => []PaidWithinRecorded
<1>1. IInv => PaidWithinRecorded
  BY DEF IInv
<1>2. QED
  BY <1>1, IInvariant, PTL

\* A payment confirms its booking only when the whole price was recorded
\* (paymentService.js: fullyPaid).
THEOREM ConfirmationsCovered == Spec => []ConfirmsOnlyCovered
<1>1. IInv => ConfirmsOnlyCovered
  BY DEF IInv
<1>2. QED
  BY <1>1, IInvariant, PTL

\* Nothing is recorded as paid through an order that the gateway did not take,
\* nor twice when the order pays once (the providers' charge).
THEOREM RecordedOrdersTaken == Spec => []PaidOrdersTaken
<1>1. IInv => PaidOrdersTaken
  <2> SUFFICES ASSUME IInv, NEW p \in Payments,
                      row[p] \notin {"none", "failed"}, Via[p] \in Orders
               PROVE  /\ order[Via[p]] = "taken"
                      /\ \/ Via[p] \in Repeatable
                         \/ \A q \in Payments \ {p} :
                               Via[q] = Via[p] => row[q] \in {"none", "failed"}
    BY DEF PaidOrdersTaken
  <2>1. p \in ok /\ \A q \in Payments : row[q] \notin {"none", "failed"} => q \in ok
    BY DEF IInv, RowsFollowAnswers, Unpaid
  <2>2. QED
    BY <2>1 DEF IInv, AnswersFollowOrders
<1>2. QED
  BY <1>1, IInvariant, PTL

\* Without stale writes a payment's refunds stay within it and its status tells
\* their sum (refundService.js: the balance check and paymentStatus).
THEOREM RefundsStayWithinPayment == Spec => []RefundsWithinPayment
<1>1. IInv => RefundsWithinPayment
  BY DEF IInv
<1>2. QED
  BY <1>1, IInvariant, PTL

-----------------------------------------------------------------------------
\* The money, counted coin by coin: sums of amounts are cardinalities of sets

Units == Nat \ {0}

RecordedCoins == {e \in Payments \X Units : row[e[1]] \notin Unpaid /\ e[2] <= Amount[e[1]]}
ReturnedCoins == {e \in Payments \X Units : e[2] <= refunded[e[1]]}
CardCoins == {e \in Payments \X Units : e[1] \in ok /\ Via[e[1]] = "card" /\ e[2] <= Amount[e[1]]}

\* What an order or a key has taken.
Charges == Orders \cup Keys
Got(x) == IF x \in Keys THEN made[x] ELSE IF order[x] = "taken" THEN Value[x] ELSE 0

ChargeCoins == {e \in Charges \X Units : e[2] <= Got(e[1])}

\* Every paid row and refund is counted, and what the gateways took covers the
\* successful charges without a key, the orders and the keys.
MoneyCounted ==
    /\ IsFiniteSet(RecordedCoins) /\ Cardinality(RecordedCoins) = recorded
    /\ IsFiniteSet(ReturnedCoins) /\ Cardinality(ReturnedCoins) = returned
    /\ IsFiniteSet(CardCoins) /\ IsFiniteSet(ChargeCoins)
    /\ Cardinality(CardCoins) + Cardinality(ChargeCoins) <= taken

\* While no stale write happened, a fresh call knows the paid amount.
FreshReads ==
    stale \/ \A c \in Calls :
        fresh[c] /\ pc[c] \in {"charge", "record", "sum", "write"} => seen[c].paid = paid

CountInv == IInv /\ MoneyCounted /\ FreshReads /\ AccountsExact

\* The members of the four sets.
CoinMembers ==
    /\ RecordedCoins \subseteq Payments \X Units
    /\ \A q \in Payments, i \in Units :
           <<q, i>> \in RecordedCoins <=> row[q] \notin Unpaid /\ i <= Amount[q]
    /\ ReturnedCoins \subseteq Payments \X Units
    /\ \A q \in Payments, i \in Units : <<q, i>> \in ReturnedCoins <=> i <= refunded[q]
    /\ CardCoins \subseteq Payments \X Units
    /\ \A q \in Payments, i \in Units :
           <<q, i>> \in CardCoins <=> q \in ok /\ Via[q] = "card" /\ i <= Amount[q]
    /\ ChargeCoins \subseteq Charges \X Units
    /\ \A q \in Charges, i \in Units : <<q, i>> \in ChargeCoins <=> i <= Got(q)

\* They are what they say, in every state.
LEMMA CoinFacts == CoinMembers /\ CoinMembers'
  BY DEF CoinMembers, RecordedCoins, ReturnedCoins, CardCoins, ChargeCoins

\* Sets of coins are equal when they have the same coins of each owner.
LEMMA SameCoins ==
    ASSUME NEW X, NEW S, NEW T, S \subseteq X \X Units, T \subseteq X \X Units,
           \A q \in X, i \in Units : <<q, i>> \in T <=> <<q, i>> \in S
    PROVE  T = S
<1>1. ASSUME NEW e \in X \X Units PROVE e \in T <=> e \in S
  <2>1. PICK q \in X, i \in Units : e = <<q, i>>
    OBVIOUS
  <2> QED BY <2>1
<1> QED BY <1>1

\* T is S with n more coins of x, from number m + 1 on.
Added(X, S, T, x, m, n) ==
    /\ S \subseteq X \X Units /\ T \subseteq X \X Units
    /\ \A i \in Units : <<x, i>> \in S => ~(i \in m + 1 .. m + n)
    /\ \A q \in X, i \in Units :
           <<q, i>> \in T <=> <<q, i>> \in S \/ (q = x /\ i \in m + 1 .. m + n)

\* It is finite when S is, and has n more members.
LEMMA MoreCoins ==
    ASSUME NEW X, NEW S, NEW T, NEW x \in X, NEW m \in Nat, NEW n \in Nat,
           IsFiniteSet(S), Added(X, S, T, x, m, n)
    PROVE  /\ IsFiniteSet(T) /\ Cardinality(T) = Cardinality(S) + n
           /\ Cardinality(S) \in Nat
<1> DEFINE P == Pile(x, m, n)
<1>1. IsFiniteSet(P) /\ Cardinality(P) = n
  BY PileCount
<1>2. \A i \in m + 1 .. m + n : i \in Units
  BY DEF Units
<1>3. P \subseteq X \X Units
  BY <1>2 DEF Pile
<1>4. \A q \in X, i \in Units : <<q, i>> \in P <=> q = x /\ i \in m + 1 .. m + n
  BY DEF Pile
<1> HIDE DEF P
<1>5. S \cap P = {}
  <2> SUFFICES ASSUME NEW e \in S, e \in P PROVE FALSE
    OBVIOUS
  <2>1. PICK q \in X, i \in Units : e = <<q, i>>
    BY DEF Added
  <2> QED BY <1>4, <2>1 DEF Added
<1>6. S \cup P \subseteq X \X Units /\ T \subseteq X \X Units
  BY <1>3 DEF Added
<1>7. \A q \in X, i \in Units : <<q, i>> \in T <=> <<q, i>> \in S \cup P
  BY <1>4 DEF Added
<1>8. T = S \cup P
  BY <1>6, <1>7, SameCoins
<1> QED BY <1>1, <1>5, <1>8, CountApart, FS_CardinalityType

\* What is recorded and not yet returned of one payment is within the total.
LEMMA BalanceCoversPayment ==
    ASSUME IInv, MoneyCounted, ~stale, NEW p \in Payments, row[p] \notin Unpaid
    PROVE  Amount[p] - refunded[p] <= recorded - returned
<1> USE LedgerAssumption DEF IInv, TypeOK, Calls
<1>1. \A q \in Payments : /\ refunded[q] \in Nat /\ Amount[q] \in Nat /\ refunded[q] <= Amount[q]
                          /\ row[q] \in Unpaid => refunded[q] = 0
  BY DEF RefundsWithinPayment, RefundedArePaid
<1> DEFINE m == refunded[p]
           n == Amount[p] - refunded[p]
           P == Pile(p, m, n)
           Q == ReturnedCoins \cup P
<1>2. m \in Nat /\ n \in Nat /\ m + n = Amount[p]
  <2>1. refunded[p] \in Nat /\ Amount[p] \in Nat /\ refunded[p] <= Amount[p]
    BY <1>1
  <2> QED BY ONLY <2>1
<1>3. P \subseteq Payments \X Units
      /\ \A q \in Payments, i \in Units : <<q, i>> \in P <=> q = p /\ i \in m + 1 .. m + n
  BY <1>2 DEF Units, Pile
<1>4. m = refunded[p] /\ n = Amount[p] - refunded[p]
  OBVIOUS
<1> HIDE DEF m, n, P
<1>5. /\ Q \subseteq Payments \X Units
      /\ \A q \in Payments, i \in Units :
             <<q, i>> \in Q <=> <<q, i>> \in ReturnedCoins \/ (q = p /\ i \in m + 1 .. m + n)
  BY <1>3, CoinFacts DEF CoinMembers
<1>6. \A i \in Units : <<p, i>> \in ReturnedCoins => ~(i \in m + 1 .. m + n)
  <2>1. \A i \in Units : <<p, i>> \in ReturnedCoins => i <= m
    BY <1>4, CoinFacts DEF CoinMembers
  <2> QED BY ONLY <1>2, <2>1 DEF Units
<1> HIDE DEF Q
<1>7. Cardinality(Q) = returned + n
  <2>1. Added(Payments, ReturnedCoins, Q, p, m, n)
    BY <1>5, <1>6, CoinFacts DEF CoinMembers, Added
  <2>2. IsFiniteSet(ReturnedCoins) /\ Cardinality(ReturnedCoins) = returned /\ m \in Nat /\ n \in Nat
    BY <1>2 DEF MoneyCounted
  <2> QED BY ONLY <2>1, <2>2, p \in Payments, MoreCoins
<1>8. Q \in SUBSET RecordedCoins
  <2> SUFFICES ASSUME NEW e \in Q PROVE e \in RecordedCoins
    OBVIOUS
  <2>1. PICK q \in Payments, i \in Units : e = <<q, i>>
    BY <1>5
  <2>2. row[q] \notin Unpaid /\ i <= Amount[q]
    <3>1. CASE q = p /\ i \in m + 1 .. m + n
      BY <1>2, <3>1 DEF Units
    <3>2. CASE i <= refunded[q]
      BY <1>1, <3>2 DEF Units
    <3> QED BY <1>5, <2>1, <3>1, <3>2, CoinFacts DEF CoinMembers
  <2> QED BY <2>1, <2>2, CoinFacts DEF CoinMembers
<1>9. Cardinality(Q) <= recorded
  BY <1>8, FS_Subset DEF MoneyCounted
<1>10. returned + n <= recorded /\ returned \in Nat /\ recorded \in Nat
  BY <1>7, <1>9
<1> QED BY <1>2, <1>4, <1>10

\* What a charge has taken is a number, and depends on orders and keys alone.
LEMMA GotFacts ==
    ASSUME TypeOK
    PROVE  /\ \A x \in Charges : Got(x) \in Nat
           /\ UNCHANGED <<order, made>> => ChargeCoins' = ChargeCoins
BY LedgerAssumption DEF TypeOK, Got, Charges, ChargeCoins

\* A step that leaves rows, refunds, answers and charges leaves the coins.
LEMMA CoinsAlone ==
    ASSUME MoneyCounted, TypeOK, UNCHANGED <<row, refunded, recorded, returned, ok, order, made>>,
           taken' \in Nat, taken <= taken'
    PROVE  MoneyCounted'
<1>1. /\ RecordedCoins' = RecordedCoins /\ ReturnedCoins' = ReturnedCoins
      /\ CardCoins' = CardCoins /\ ChargeCoins' = ChargeCoins
  BY GotFacts DEF RecordedCoins, ReturnedCoins, CardCoins
<1>2. Cardinality(CardCoins) \in Nat /\ Cardinality(ChargeCoins) \in Nat
  BY FS_CardinalityType DEF MoneyCounted
<1> QED BY <1>1, <1>2 DEF MoneyCounted, TypeOK

\* Charges and approvals: the coins of a card or of an order, and the gateway's total.
LEMMA ChargeCounts ==
    ASSUME IInv, MoneyCounted,
           \/ \E c \in Payments : charge(c)
           \/ \E o \in Orders : approve(o)
    PROVE  MoneyCounted'
<1> USE LedgerAssumption DEF IInv, TypeOK, Calls
<1>1. /\ UNCHANGED <<row, refunded, recorded, returned>>
      /\ RecordedCoins' = RecordedCoins /\ ReturnedCoins' = ReturnedCoins
  <2>1. UNCHANGED <<row, refunded, recorded, returned>>
    BY DEF charge, decline, chargeCard, replay, capture, verify, Answered, approve, history
  <2> QED BY <2>1 DEF RecordedCoins, ReturnedCoins
<1>2. Cardinality(CardCoins) \in Nat /\ Cardinality(ChargeCoins) \in Nat /\ taken \in Nat
  BY FS_CardinalityType DEF MoneyCounted
\* A charge that had taken nothing adds its coins.
<1>3. ASSUME NEW o \in Charges, NEW v \in Nat, Got(o) = 0, Got(o)' = v,
             \A x \in Charges \ {o} : Got(x)' = Got(x)
      PROVE  IsFiniteSet(ChargeCoins') /\ Cardinality(ChargeCoins') = Cardinality(ChargeCoins) + v
  <2>1. \A i \in Units : /\ i \in 0 + 1 .. 0 + v <=> i <= v
                         /\ ~(i <= 0)
    BY DEF Units
  <2>2. \A q \in Charges, i \in Units :
            /\ <<q, i>> \in ChargeCoins' <=> i <= Got(q)'
            /\ <<q, i>> \in ChargeCoins <=> i <= Got(q)
    BY CoinFacts DEF CoinMembers
  <2>3. \A q \in Charges, i \in Units :
            <<q, i>> \in ChargeCoins' <=> <<q, i>> \in ChargeCoins \/ (q = o /\ i \in 0 + 1 .. 0 + v)
    <3> SUFFICES ASSUME NEW q \in Charges, NEW i \in Units
                 PROVE  <<q, i>> \in ChargeCoins' <=>
                            <<q, i>> \in ChargeCoins \/ (q = o /\ i \in 0 + 1 .. 0 + v)
      OBVIOUS
    <3>1. CASE q = o
      BY ONLY <1>3, <2>1, <2>2, <3>1, q \in Charges, i \in Units
    <3>2. CASE q # o
      <4>1. Got(q)' = Got(q)
        BY <1>3, <3>2
      <4> QED BY ONLY <2>2, <3>2, <4>1, q \in Charges, i \in Units
    <3> QED BY <3>1, <3>2
  <2>4. \A i \in Units : <<o, i>> \in ChargeCoins => ~(i \in 0 + 1 .. 0 + v)
    BY ONLY <1>3, <2>1, <2>2, o \in Charges
  <2>5. ChargeCoins \subseteq Charges \X Units /\ ChargeCoins' \subseteq Charges \X Units
        /\ IsFiniteSet(ChargeCoins) /\ 0 \in Nat
    BY CoinFacts DEF CoinMembers, MoneyCounted
  <2>6. Added(Charges, ChargeCoins, ChargeCoins', o, 0, v)
    BY ONLY <2>3, <2>4, <2>5 DEF Added
  <2> QED BY ONLY <2>5, <2>6, o \in Charges, v \in Nat, MoreCoins
\* An order that is taken now had taken nothing.
<1>10. ASSUME NEW o \in Orders, order[o] # "taken", order' = [order EXCEPT ![o] = "taken"], made' = made
      PROVE  IsFiniteSet(ChargeCoins') /\ Cardinality(ChargeCoins') = Cardinality(ChargeCoins) + Value[o]
  <2>1. /\ o \in Charges /\ Value[o] \in Nat /\ Got(o) = 0 /\ Got(o)' = Value[o]
        /\ \A x \in Charges \ {o} : Got(x)' = Got(x)
    BY <1>10 DEF Got, Charges
  <2> QED BY ONLY <1>3, <2>1
\* A success that is not a card's without a key adds no coins of a card.
<1>4. ASSUME NEW c \in Payments, Via[c] # "card", ok' = ok \/ ok' = ok \cup {c}
      PROVE  CardCoins' = CardCoins
  <2>1. \A q \in Payments : q \in ok' /\ Via[q] = "card" <=> q \in ok /\ Via[q] = "card"
    BY <1>4
  <2>2. \A q \in Payments, i \in Units : <<q, i>> \in CardCoins' <=> <<q, i>> \in CardCoins
    BY <2>1, CoinFacts DEF CoinMembers
  <2>3. CardCoins \subseteq Payments \X Units /\ CardCoins' \subseteq Payments \X Units
    BY CoinFacts DEF CoinMembers
  <2> QED BY ONLY <2>2, <2>3, SameCoins
<1>5. ASSUME NEW c \in Payments, decline(c) PROVE MoneyCounted'
  BY <1>5, CoinsAlone DEF decline, Answered, gateway, history
<1>11. ASSUME NEW c \in Payments, chargeCard(c), Via[c] \in Keys PROVE MoneyCounted'
  <2>1. /\ Amount[c] \in Nat /\ Via[c] \in Keys /\ made[Via[c]] = 0 /\ Via[c] # "card"
        /\ taken' = taken + Amount[c] /\ order' = order
        /\ made' = [k \in Keys |-> IF k = Via[c] THEN Amount[c] ELSE made[k]]
        /\ ok' = ok \/ ok' = ok \cup {c}
    BY <1>11 DEF chargeCard, Answered
  <2>2. CardCoins' = CardCoins
    BY <1>4, <2>1
  <2>3. /\ Via[c] \in Charges /\ Got(Via[c]) = 0 /\ Got(Via[c])' = Amount[c]
        /\ \A x \in Charges \ {Via[c]} : Got(x)' = Got(x)
    BY <2>1 DEF Got, Charges
  <2>4. /\ IsFiniteSet(ChargeCoins')
        /\ Cardinality(ChargeCoins') = Cardinality(ChargeCoins) + Amount[c]
    BY ONLY <1>3, <2>1, <2>3
  <2> QED BY <1>1, <1>2, <2>1, <2>2, <2>4 DEF MoneyCounted
<1>6. ASSUME NEW c \in Payments, chargeCard(c), Via[c] \notin Keys PROVE MoneyCounted'
  <2>1. /\ Amount[c] \in Nat /\ c \notin ok /\ Via[c] = "card"
        /\ taken' = taken + Amount[c] /\ order' = order /\ made' = made
        /\ ok' = ok \/ ok' = ok \cup {c}
    BY <1>6 DEF chargeCard, Answered, RowsFollowAnswers
  <2>2. ChargeCoins' = ChargeCoins
    BY <2>1, GotFacts DEF TypeOK
  <2>3. CASE ok' = ok
    BY <1>1, <2>1, <2>3, CoinsAlone
  <2>4. CASE ok' = ok \cup {c}
    <3>1. \A i \in Units : i \in 0 + 1 .. 0 + Amount[c] <=> i <= Amount[c]
      BY <2>1 DEF Units
    <3>2. \A q \in Payments : q \in ok' /\ Via[q] = "card" <=> (q \in ok /\ Via[q] = "card") \/ q = c
      BY <2>1, <2>4
    <3>3. \A q \in Payments, i \in Units :
              <<q, i>> \in CardCoins' <=> <<q, i>> \in CardCoins \/ (q = c /\ i \in 0 + 1 .. 0 + Amount[c])
      BY <3>1, <3>2, CoinFacts DEF CoinMembers
    <3>4. \A i \in Units : <<c, i>> \in CardCoins => ~(i \in 0 + 1 .. 0 + Amount[c])
      BY <2>1, CoinFacts DEF CoinMembers
    <3>5. CardCoins \subseteq Payments \X Units /\ CardCoins' \subseteq Payments \X Units
          /\ IsFiniteSet(CardCoins) /\ 0 \in Nat
      BY CoinFacts DEF CoinMembers, MoneyCounted
    <3>6. IsFiniteSet(CardCoins') /\ Cardinality(CardCoins') = Cardinality(CardCoins) + Amount[c]
      <4>1. Added(Payments, CardCoins, CardCoins', c, 0, Amount[c])
        BY ONLY <3>3, <3>4, <3>5 DEF Added
      <4>2. Amount[c] \in Nat /\ IsFiniteSet(CardCoins) /\ 0 \in Nat
        BY ONLY <2>1, <3>5
      <4> QED BY ONLY <4>1, <4>2, c \in Payments, MoreCoins
    <3> QED BY <1>1, <1>2, <2>1, <2>2, <3>6 DEF MoneyCounted
  <2> QED BY <2>1, <2>3, <2>4
<1>7. ASSUME NEW c \in Payments, capture(c) PROVE MoneyCounted'
  <2>1. /\ Via[c] \in Orders /\ order[Via[c]] # "taken" /\ Via[c] # "card"
        /\ order' = [order EXCEPT ![Via[c]] = "taken"] /\ made' = made
        /\ taken' = taken + Value[Via[c]]
        /\ ok' = ok \/ ok' = ok \cup {c}
    BY <1>7 DEF capture, Answered
  <2>2. CardCoins' = CardCoins
    BY <1>4, <2>1
  <2>3. /\ IsFiniteSet(ChargeCoins')
        /\ Cardinality(ChargeCoins') = Cardinality(ChargeCoins) + Value[Via[c]]
    BY <1>10, <2>1
  <2>4. Value[Via[c]] \in Nat
    BY <2>1
  <2> QED BY <1>1, <1>2, <2>1, <2>2, <2>3, <2>4 DEF MoneyCounted
<1>8. ASSUME NEW c \in Payments, verify(c) \/ replay(c) PROVE MoneyCounted'
  <2>1. /\ Via[c] # "card" /\ UNCHANGED <<order, made, taken>>
        /\ ok' = ok \/ ok' = ok \cup {c}
    BY <1>8 DEF verify, replay, Answered, gateway
  <2>2. CardCoins' = CardCoins
    BY <1>4, <2>1
  <2>3. ChargeCoins' = ChargeCoins
    BY <2>1, GotFacts DEF TypeOK
  <2> QED BY <1>1, <2>1, <2>2, <2>3 DEF MoneyCounted
<1>9. ASSUME NEW o \in Orders, approve(o) PROVE MoneyCounted'
  <2>1. ok' = ok
    BY <1>9 DEF approve
  <2>2. CardCoins' = CardCoins
    BY <2>1 DEF CardCoins
  <2>3. CASE o \in Repeatable
    <3>1. order[o] # "taken" /\ order' = [order EXCEPT ![o] = "taken"]
          /\ taken' = taken + Value[o] /\ Value[o] \in Nat /\ made' = made
      BY <1>9, <2>3 DEF approve
    <3>2. IsFiniteSet(ChargeCoins') /\ Cardinality(ChargeCoins') = Cardinality(ChargeCoins) + Value[o]
      BY <1>10, <3>1
    <3> QED BY <1>1, <1>2, <2>2, <3>1, <3>2 DEF MoneyCounted
  <2>4. CASE o \notin Repeatable
    <3>1. taken' = taken /\ made' = made /\ \A q \in Orders : order'[q] = "taken" <=> order[q] = "taken"
      BY <1>9, <2>4 DEF approve
    <3>2. \A q \in Charges : Got(q)' = Got(q)
      BY <3>1 DEF Got, Charges
    <3>6. \A q \in Charges, i \in Units :
              /\ <<q, i>> \in ChargeCoins' <=> i <= Got(q)'
              /\ <<q, i>> \in ChargeCoins <=> i <= Got(q)
      BY CoinFacts DEF CoinMembers
    <3>3. \A q \in Charges, i \in Units : <<q, i>> \in ChargeCoins' <=> <<q, i>> \in ChargeCoins
      BY ONLY <3>2, <3>6
    <3>5. ChargeCoins \subseteq Charges \X Units /\ ChargeCoins' \subseteq Charges \X Units
      BY CoinFacts DEF CoinMembers
    <3>4. ChargeCoins' = ChargeCoins
      BY ONLY <3>3, <3>5, SameCoins
    <3> QED BY <1>1, <2>2, <3>1, <3>4 DEF MoneyCounted
  <2> QED BY <2>3, <2>4
<1> QED BY <1>5, <1>6, <1>7, <1>8, <1>9, <1>11 DEF charge

\* Recording a payment and completing a refund add their coins.
LEMMA WritesCount ==
    ASSUME IInv, MoneyCounted,
           \/ \E c \in Payments : recordPayment(c)
           \/ \E c \in Refunds : refundPayment(c)
    PROVE  MoneyCounted'
<1> USE LedgerAssumption DEF IInv, TypeOK, Calls
<1>1. /\ UNCHANGED <<ok, order, made, taken>>
      /\ CardCoins' = CardCoins /\ ChargeCoins' = ChargeCoins
  <2>1. UNCHANGED <<ok, order, made, taken>>
    BY DEF recordPayment, refundPayment, gateway
  <2> QED BY <2>1, GotFacts DEF CardCoins, TypeOK
<1>2. ASSUME \A q \in Payments : row'[q] \in Unpaid <=> row[q] \in Unpaid
      PROVE  RecordedCoins' = RecordedCoins
  <2>1. \A q \in Payments, i \in Units : <<q, i>> \in RecordedCoins' <=> <<q, i>> \in RecordedCoins
    BY <1>2, CoinFacts DEF CoinMembers
  <2>2. RecordedCoins \subseteq Payments \X Units /\ RecordedCoins' \subseteq Payments \X Units
    BY CoinFacts DEF CoinMembers
  <2> QED BY ONLY <2>1, <2>2, SameCoins
<1>3. ASSUME NEW c \in Payments, recordPayment(c) PROVE MoneyCounted'
  <2>1. /\ row[c] = "none" /\ Amount[c] \in Nat
        /\ row' = [row EXCEPT ![c] = IF c \in ok THEN "paid" ELSE "failed"]
        /\ UNCHANGED <<refunded, returned>>
        /\ recorded' = IF c \in ok THEN recorded + Amount[c] ELSE recorded
    BY <1>3 DEF recordPayment, RowsFollowAnswers
  <2>2. ReturnedCoins' = ReturnedCoins
    BY <2>1 DEF ReturnedCoins
  <2>3. CASE c \in ok
    <3>1. \A q \in Payments : row'[q] \notin Unpaid <=> row[q] \notin Unpaid \/ q = c
      BY <2>1, <2>3 DEF Unpaid
    <3>2. \A i \in Units : i \in 0 + 1 .. 0 + Amount[c] <=> i <= Amount[c]
      BY <2>1 DEF Units
    <3>3. \A q \in Payments, i \in Units :
              <<q, i>> \in RecordedCoins' <=>
                  <<q, i>> \in RecordedCoins \/ (q = c /\ i \in 0 + 1 .. 0 + Amount[c])
      BY <3>1, <3>2, CoinFacts DEF CoinMembers
    <3>4. row[c] \in Unpaid
      BY <2>1 DEF Unpaid
    <3>5. \A i \in Units : <<c, i>> \in RecordedCoins => ~(i \in 0 + 1 .. 0 + Amount[c])
      BY <3>4, CoinFacts DEF CoinMembers
    <3>6. RecordedCoins \subseteq Payments \X Units /\ RecordedCoins' \subseteq Payments \X Units
          /\ IsFiniteSet(RecordedCoins) /\ 0 \in Nat
      BY CoinFacts DEF CoinMembers, MoneyCounted
    <3>7. IsFiniteSet(RecordedCoins') /\ Cardinality(RecordedCoins') = Cardinality(RecordedCoins) + Amount[c]
      <4>1. Added(Payments, RecordedCoins, RecordedCoins', c, 0, Amount[c])
        BY ONLY <3>3, <3>5, <3>6 DEF Added
      <4>2. Amount[c] \in Nat /\ IsFiniteSet(RecordedCoins) /\ 0 \in Nat
        BY ONLY <2>1, <3>6
      <4> QED BY ONLY <4>1, <4>2, c \in Payments, MoreCoins
    <3> QED BY <1>1, <2>1, <2>2, <2>3, <3>7 DEF MoneyCounted
  <2>4. CASE c \notin ok
    <3>1. \A q \in Payments : row'[q] \in Unpaid <=> row[q] \in Unpaid
      BY <2>1, <2>4 DEF Unpaid
    <3>2. RecordedCoins' = RecordedCoins
      BY <1>2, <3>1
    <3> QED BY <1>1, <2>1, <2>2, <2>4, <3>2 DEF MoneyCounted
  <2> QED BY <2>3, <2>4
<1>4. ASSUME NEW c \in Refunds, refundPayment(c) PROVE MoneyCounted'
  <2>1. /\ RefundOf[c] \in Payments /\ row[RefundOf[c]] \notin Unpaid
        /\ Amount[c] \in Nat /\ refunded[RefundOf[c]] \in Nat
        /\ returned' = returned + Amount[c] /\ recorded' = recorded
    BY <1>4 DEF refundPayment, RowsFollowAnswers
  <2> DEFINE p == RefundOf[c]
  <2>2. /\ refunded'[p] = refunded[p] + Amount[c]
        /\ \A q \in Payments \ {p} : refunded'[q] = refunded[q]
    BY <1>4, <2>1 DEF refundPayment
  <2>3. \A q \in Payments : row'[q] \in Unpaid <=> row[q] \in Unpaid
    <3>1. \/ row' = [row EXCEPT ![p] = "refunded"]
          \/ row' = [row EXCEPT ![p] = "partially_refunded"]
      BY <1>4 DEF refundPayment, RefundStatus
    <3>2. row[p] \notin Unpaid /\ p \in Payments
      BY <2>1
    <3> QED BY <3>1, <3>2 DEF Unpaid
  <2>4. RecordedCoins' = RecordedCoins
    BY <1>2, <2>3
  <2> HIDE DEF p
  <2>5. p \in Payments /\ refunded[p] \in Nat
    BY <2>1 DEF p
  <2>6. ASSUME NEW q \in Payments, NEW i \in Units
        PROVE  <<q, i>> \in ReturnedCoins' <=>
                   <<q, i>> \in ReturnedCoins \/ (q = p /\ i \in refunded[p] + 1 .. refunded[p] + Amount[c])
    <3>1. /\ <<q, i>> \in ReturnedCoins' <=> i <= refunded'[q]
          /\ <<q, i>> \in ReturnedCoins <=> i <= refunded[q]
      BY CoinFacts DEF CoinMembers
    <3>2. CASE q # p
      BY <2>2, <3>1, <3>2
    <3>3. CASE q = p
      <4>1. i <= refunded[p] + Amount[c] <=>
                i <= refunded[p] \/ i \in refunded[p] + 1 .. refunded[p] + Amount[c]
        BY ONLY <2>1, <2>5, i \in Units DEF Units
      <4> QED BY ONLY <2>2, <3>1, <3>3, <4>1
    <3> QED BY <3>2, <3>3
  <2>7. \A i \in Units : <<p, i>> \in ReturnedCoins => ~(i \in refunded[p] + 1 .. refunded[p] + Amount[c])
    BY <2>1, <2>5, CoinFacts DEF CoinMembers, Units
  <2>8. ReturnedCoins \subseteq Payments \X Units /\ ReturnedCoins' \subseteq Payments \X Units
        /\ IsFiniteSet(ReturnedCoins)
    BY CoinFacts DEF CoinMembers, MoneyCounted
  <2>9. IsFiniteSet(ReturnedCoins') /\ Cardinality(ReturnedCoins') = Cardinality(ReturnedCoins) + Amount[c]
    <3>1. Added(Payments, ReturnedCoins, ReturnedCoins', p, refunded[p], Amount[c])
      BY ONLY <2>6, <2>7, <2>8 DEF Added
    <3>2. p \in Payments /\ refunded[p] \in Nat /\ Amount[c] \in Nat /\ IsFiniteSet(ReturnedCoins)
      BY ONLY <2>1, <2>5, <2>8
    <3> QED BY ONLY <3>1, <3>2, MoreCoins
  <2> QED BY <1>1, <2>1, <2>4, <2>9 DEF MoneyCounted
<1> QED BY <1>3, <1>4

\* The steps that write no money leave the coins.
LEMMA QuietCounts ==
    ASSUME TypeOK, MoneyCounted,
           \/ \E c \in Payments : findBooking(c) \/ checkConfirm(c) \/ confirmBooking(c)
           \/ \E c \in Refunds : findPayment(c) \/ sumRefunds(c)
           \/ \E c \in Calls : crash(c)
           \/ sweep \/ staffConfirm \/ cancelBooking
           \/ UNCHANGED vars
    PROVE  MoneyCounted'
<1>1. UNCHANGED <<row, refunded, recorded, returned, ok, order, made, taken>>
  <2>1. ASSUME NEW c \in Payments, findBooking(c) \/ checkConfirm(c) \/ confirmBooking(c)
        PROVE  UNCHANGED <<row, refunded, recorded, returned, ok, order, made, taken>>
    BY <2>1 DEF findBooking, checkConfirm, confirmBooking, gateway, history
  <2>2. ASSUME NEW c \in Refunds, findPayment(c) \/ sumRefunds(c)
        PROVE  UNCHANGED <<row, refunded, recorded, returned, ok, order, made, taken>>
    BY <2>2 DEF findPayment, sumRefunds, gateway, history
  <2>3. ASSUME NEW c \in Calls, crash(c)
        PROVE  UNCHANGED <<row, refunded, recorded, returned, ok, order, made, taken>>
    BY <2>3 DEF crash, gateway, history
  <2>4. CASE sweep \/ staffConfirm \/ cancelBooking
    BY <2>4 DEF sweep, staffConfirm, cancelBooking, SetStatus, gateway, history
  <2>5. CASE UNCHANGED vars
    BY <2>5 DEF vars, gateway, history
  <2> QED BY <2>1, <2>2, <2>3, <2>4, <2>5
<1>2. taken' \in Nat /\ taken <= taken'
  BY <1>1 DEF TypeOK
<1> QED BY <1>1, <1>2, CoinsAlone

\* Every step preserves that recorded money is counted once.
LEMMA MoneyCountedStep ==
    ASSUME IInv, MoneyCounted, [Next]_vars
    PROVE  MoneyCounted'
<1>1. TypeOK
  BY DEF IInv
<1> QED BY <1>1, ChargeCounts, WritesCount, QuietCounts DEF Next, pay, refund

\* A step that writes no amount keeps fresh reads true and the accounts exact.
LEMMA AccountsAlone ==
    ASSUME TypeOK, FreshReads, AccountsExact,
           UNCHANGED <<paid, recorded, returned, stale>>,
           \A d \in Calls :
               fresh'[d] /\ pc'[d] \in {"charge", "record", "sum", "write"} =>
                   \/ seen'[d].paid = paid
                   \/ /\ fresh[d] /\ pc[d] \in {"charge", "record", "sum", "write"}
                      /\ seen'[d].paid = seen[d].paid
    PROVE  FreshReads' /\ AccountsExact'
  BY DEF FreshReads, AccountsExact

\* While no write was stale the paid amount is what was recorded less what went
\* back: a fresh write adds to, or takes from, the amount that is there.
LEMMA AccountsStep ==
    ASSUME IInv, MoneyCounted, FreshReads, AccountsExact, [Next]_vars
    PROVE  FreshReads' /\ AccountsExact'
<1> USE LedgerAssumption DEF IInv, TypeOK, Calls
<1>1. ASSUME NEW c \in Payments, findBooking(c) PROVE FreshReads' /\ AccountsExact'
  <2>1. UNCHANGED <<paid, recorded, returned, stale>>
    BY <1>1 DEF findBooking, booking
  <2>2. /\ seen'[c].paid = paid
        /\ \A d \in Calls \ {c} : seen'[d] = seen[d] /\ fresh'[d] = fresh[d] /\ pc'[d] = pc[d]
    BY <1>1 DEF findBooking, Goto
  <2> QED BY <2>1, <2>2, AccountsAlone
<1>2. ASSUME NEW c \in Payments, charge(c) PROVE FreshReads' /\ AccountsExact'
  <2>1. UNCHANGED <<paid, recorded, returned, stale, seen, fresh>>
        /\ pc[c] = "charge" /\ pc' = [pc EXCEPT ![c] = "record"]
    BY <1>2 DEF charge, decline, chargeCard, replay, capture, verify, Answered, Goto, booking, history
  <2> QED BY <2>1, AccountsAlone
<1>3. ASSUME NEW c \in Payments, recordPayment(c) PROVE FreshReads' /\ AccountsExact'
  <2>1. CASE c \in ok
    <3>1. /\ pc[c] = "record" /\ paid' = seen[c].paid + Amount[c]
          /\ recorded' = recorded + Amount[c] /\ returned' = returned
          /\ fresh' = [d \in Calls |-> FALSE]
      BY <1>3, <2>1 DEF recordPayment, setPaid, NewPaid
    <3>2. stale' <=> stale \/ ~fresh[c]
      BY <1>3, <2>1, Zenon DEF recordPayment, setPaid
    <3>3. FreshReads'
      BY <3>1 DEF FreshReads
    <3>4. ASSUME ~stale' PROVE paid' = recorded' - returned'
      <4>1. seen[c].paid = paid /\ paid = recorded - returned
        BY <3>1, <3>2, <3>4 DEF FreshReads, AccountsExact
      <4> QED BY <3>1, <4>1
    <3> QED BY <3>3, <3>4 DEF AccountsExact
  <2>2. CASE c \notin ok
    <3>1. UNCHANGED <<paid, recorded, returned, stale, seen, fresh>>
          /\ pc' = [pc EXCEPT ![c] = "done"]
      BY <1>3, <2>2 DEF recordPayment, Goto
    <3> QED BY <3>1, AccountsAlone
  <2> QED BY <2>1, <2>2
<1>4. ASSUME NEW c \in Payments, checkConfirm(c) \/ confirmBooking(c)
      PROVE  FreshReads' /\ AccountsExact'
  <2>1. UNCHANGED <<paid, recorded, returned, stale, seen, fresh>>
        /\ \E w \in {"confirming", "done"} : pc' = [pc EXCEPT ![c] = w]
    BY <1>4 DEF checkConfirm, confirmBooking, Goto, booking, history
  <2> QED BY <2>1, AccountsAlone
<1>5. ASSUME NEW c \in Refunds, findPayment(c) PROVE FreshReads' /\ AccountsExact'
  <2>1. UNCHANGED <<paid, recorded, returned, stale>>
    BY <1>5 DEF findPayment, booking
  <2>2. /\ seen'[c].paid = paid
        /\ \A d \in Calls \ {c} : seen'[d] = seen[d] /\ fresh'[d] = fresh[d] /\ pc'[d] = pc[d]
    BY <1>5 DEF findPayment, Goto
  <2> QED BY <2>1, <2>2, AccountsAlone
<1>6. ASSUME NEW c \in Refunds, sumRefunds(c) PROVE FreshReads' /\ AccountsExact'
  <2>1. UNCHANGED <<paid, recorded, returned, stale, fresh>> /\ pc[c] = "sum"
    BY <1>6 DEF sumRefunds, booking, history
  <2>2. \A d \in Calls : seen'[d].paid = seen[d].paid /\ (d # c => pc'[d] = pc[d])
    BY <1>6 DEF sumRefunds, Goto
  <2> QED BY <2>1, <2>2, AccountsAlone
<1>7. ASSUME NEW c \in Refunds, refundPayment(c) PROVE FreshReads' /\ AccountsExact'
  <2>1. /\ pc[c] = "write" /\ paid' = AtLeastZero(seen[c].paid - Amount[c])
        /\ recorded' = recorded /\ returned' = returned + Amount[c]
        /\ fresh' = [d \in Calls |-> FALSE]
    BY <1>7 DEF refundPayment, setPaid
  <2>2. stale' <=> stale \/ ~fresh[c]
    BY <1>7, Zenon DEF refundPayment, setPaid
  <2>3. FreshReads'
    BY <2>1 DEF FreshReads
  <2>4. ASSUME ~stale' PROVE paid' = recorded' - returned'
    <3>1. ~stale /\ fresh[c]
      BY <2>2, <2>4
    <3>2. seen[c].paid = paid /\ paid = recorded - returned
      BY <2>1, <3>1 DEF FreshReads, AccountsExact
    <3>3. RefundOf[c] \in Payments /\ row[RefundOf[c]] \notin Unpaid /\ Amount[c] \in Nat
          /\ Amount[RefundOf[c]] \in Nat /\ refunded[RefundOf[c]] \in Nat
      BY <2>1 DEF RowsFollowAnswers
    <3>4. Amount[c] <= Amount[RefundOf[c]] - refunded[RefundOf[c]]
      BY <2>1, <3>1 DEF FreshSums, Refundable
    <3>5. Amount[RefundOf[c]] - refunded[RefundOf[c]] <= recorded - returned
      BY <3>1, <3>3, BalanceCoversPayment
    <3>6. recorded \in Nat /\ returned \in Nat /\ paid \in Nat
      OBVIOUS
    <3>7. Amount[c] <= paid
      BY ONLY <3>2, <3>3, <3>4, <3>5, <3>6
    <3>8. paid' = paid - Amount[c]
      BY <2>1, <3>2, <3>3, <3>6, <3>7 DEF AtLeastZero
    <3> QED BY <2>1, <3>2, <3>3, <3>6, <3>8
  <2> QED BY <2>3, <2>4 DEF AccountsExact
<1>8. ASSUME NEW c \in Calls, crash(c) PROVE FreshReads' /\ AccountsExact'
  <2>1. UNCHANGED <<paid, recorded, returned, stale, seen, fresh>>
        /\ pc' = [pc EXCEPT ![c] = "crashed"]
    BY <1>8 DEF crash, Goto, booking, history
  <2> QED BY <2>1, AccountsAlone
<1>9. CASE (\E o \in Orders : approve(o)) \/ sweep \/ staffConfirm \/ cancelBooking \/ UNCHANGED vars
  <2>1. UNCHANGED <<paid, recorded, returned, stale, seen, fresh, pc>>
    BY <1>9 DEF approve, sweep, staffConfirm, cancelBooking, SetStatus, vars, booking, history
  <2> QED BY <2>1, AccountsAlone
<1> QED BY <1>1, <1>2, <1>3, <1>4, <1>5, <1>6, <1>7, <1>8, <1>9 DEF Next, pay, refund

\* At the start no money has moved.
LEMMA InitCountInv == Init => CountInv
<1> SUFFICES ASSUME Init PROVE CountInv
  OBVIOUS
<1>1. RecordedCoins = {} /\ ReturnedCoins = {} /\ CardCoins = {} /\ ChargeCoins = {}
  BY DEF Init, RecordedCoins, ReturnedCoins, CardCoins, ChargeCoins, Charges, Got, Unpaid, Units
<1>2. MoneyCounted
  BY <1>1, FS_EmptySet DEF MoneyCounted, Init
<1>3. FreshReads /\ AccountsExact
  BY DEF FreshReads, AccountsExact, Init
<1> QED BY <1>2, <1>3, InitIInv DEF CountInv

\* The invariant of the theorems below.
LEMMA CountInvariant == Spec => []CountInv
<1>1. CountInv /\ [Next]_vars => CountInv'
  BY IInvStep, MoneyCountedStep, AccountsStep DEF CountInv
<1> QED BY <1>1, InitCountInv, PTL DEF Spec

\* The coins of the paid rows are coins of a card or, one for one, of an order.
LEMMA CoinsWereTaken ==
    ASSUME IInv, MoneyCounted,
           \A p, q \in ok : ~ShareACharge(p, q),
           \A p \in ok : ~Overstates(p)
    PROVE  recorded <= taken
<1> USE LedgerAssumption DEF IInv, TypeOK
<1> DEFINE ByCard == {e \in RecordedCoins : Via[e[1]] = "card"}
           ByOrder == {e \in RecordedCoins : Via[e[1]] # "card"}
           f == [e \in ByOrder |-> <<Via[e[1]], e[2]>>]
<1>1. \A e \in RecordedCoins : /\ e[1] \in Payments /\ e[2] \in Units /\ e = <<e[1], e[2]>>
                               /\ e[1] \in ok /\ e[2] <= Amount[e[1]]
  BY DEF RecordedCoins, RowsFollowAnswers
<1>2. ByCard \in SUBSET CardCoins
  BY <1>1 DEF CardCoins
<1>3. IsFiniteSet(ByCard) /\ Cardinality(ByCard) <= Cardinality(CardCoins)
  BY <1>2, FS_Subset DEF MoneyCounted
<1>4. ByOrder \in SUBSET RecordedCoins /\ IsFiniteSet(ByOrder)
  BY FS_Subset DEF MoneyCounted
<1>5. f \in Injection(ByOrder, ChargeCoins)
  <2>1. ASSUME NEW e \in ByOrder PROVE f[e] \in ChargeCoins
    <3> DEFINE q == e[1]
    <3>1. q \in Payments /\ q \in ok /\ Via[q] \in Charges /\ e[2] \in Units /\ e[2] <= Amount[q]
      BY <1>1 DEF Charges
    <3>2. Amount[q] \in Nat /\ Got(Via[q]) \in Nat /\ e[2] \in Nat
      BY <3>1, GotFacts DEF Units, Calls
    <3>3. Amount[q] <= Got(Via[q])
      <4>1. CASE Via[q] \in Keys
        BY <3>1, <3>2, <4>1 DEF AnswersFollowOrders, Got
      <4>2. CASE Via[q] \notin Keys
        <5>1. Via[q] \in Orders /\ order[Via[q]] = "taken"
          BY <3>1, <4>2 DEF AnswersFollowOrders, Charges
        <5>2. Value[Via[q]] \in Nat /\ ~(Amount[q] > Value[Via[q]])
          BY <3>1, <5>1 DEF Overstates
        <5> QED BY <3>2, <4>2, <5>1, <5>2 DEF Got
      <4> QED BY <4>1, <4>2
    <3>4. e[2] <= Got(Via[q])
      BY ONLY <3>1, <3>2, <3>3
    <3> QED BY <3>1, <3>4 DEF ChargeCoins
  <2>2. ASSUME NEW d \in ByOrder, NEW e \in ByOrder, f[d] = f[e] PROVE d = e
    <3>1. Via[d[1]] = Via[e[1]] /\ d[2] = e[2]
      BY <2>2
    <3>2. d[1] \in ok /\ e[1] \in ok /\ Via[d[1]] \in Orders \cup Keys
      BY <1>1
    <3>3. d[1] = e[1]
      BY <3>1, <3>2 DEF AnswersFollowOrders, ShareACharge
    <3> QED BY <1>1, <3>1, <3>3
  <2>3. f \in [ByOrder -> ChargeCoins]
    BY <2>1
  <2> QED BY <2>2, <2>3 DEF Injection, IsInjective
<1>6. Cardinality(ByOrder) <= Cardinality(ChargeCoins)
  BY <1>5, FS_Injection DEF MoneyCounted
<1>7. ByCard \cap ByOrder = {} /\ ByCard \cup ByOrder = RecordedCoins
  OBVIOUS
<1> HIDE DEF ByCard, ByOrder
<1>8. recorded = Cardinality(ByCard) + Cardinality(ByOrder)
      /\ Cardinality(ByCard) \in Nat /\ Cardinality(ByOrder) \in Nat
  BY <1>3, <1>4, <1>7, CountApart DEF MoneyCounted
<1>9. Cardinality(CardCoins) \in Nat /\ Cardinality(ChargeCoins) \in Nat /\ taken \in Nat
      /\ Cardinality(CardCoins) + Cardinality(ChargeCoins) <= taken
  BY FS_CardinalityType DEF MoneyCounted
<1> QED BY ONLY <1>3, <1>6, <1>8, <1>9

\* While no write was stale, the booking's paid amount is the paid rows less the
\* refunds (paymentService.js: newPaidAmount; refundService.js: newPaid).
THEOREM AccountsStayExact == Spec => []AccountsExact
<1>1. CountInv => AccountsExact
  BY DEF CountInv
<1> QED BY <1>1, CountInvariant, PTL

\* What is recorded as paid the gateways took, whatever answers were lost, but
\* for charges that two payments share and orders whose amount a caller
\* overstates (the providers' charge, capture, execute and verify).
THEOREM RecordedMoneyWasTaken == Spec => []RecordedWasTaken
<1>1. CountInv => RecordedWasTaken
  <2> SUFFICES ASSUME CountInv, recorded > taken,
                      \A p, q \in ok : ~ShareACharge(p, q), \A p \in ok : ~Overstates(p)
               PROVE  FALSE
    BY DEF RecordedWasTaken
  <2>1. recorded <= taken
    BY CoinsWereTaken DEF CountInv
  <2>2. recorded \in Nat /\ taken \in Nat
    BY DEF CountInv, IInv, TypeOK
  <2> QED BY <2>1, <2>2
<1> QED BY <1>1, CountInvariant, PTL
=============================================================================

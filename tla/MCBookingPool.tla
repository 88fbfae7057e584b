---------------------------- MODULE MCBookingPool ----------------------------
(***************************************************************************)
(* Three bookings that contend for two keys, and two other requests.       *)
(***************************************************************************)
EXTENDS BookingPool, TLC

CONSTANTS b1, b2, b3, q1, q2

\* In one order, in the other, and alone.
ThreeKeySets == (b1 :> {1, 2}) @@ (b2 :> {1, 2}) @@ (b3 :> {2})

TwoKeySets == (b1 :> {1}) @@ (b2 :> {2})
=============================================================================

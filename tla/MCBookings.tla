----------------------------- MODULE MCBookings -----------------------------
(***************************************************************************)
(* Two rounds of BookingService in one instance, so that three customers   *)
(* who ask for types and two calls that name rooms, with staff and the     *)
(* sweeper beside them, are not multiplied with each other.                *)
(***************************************************************************)
EXTENDS MCBookingService

VARIABLE round    \* which of the two kinds of request this behaviour has

\* In the rooms round the third call fails at once.
MCInit ==
    /\ Init
    /\ \/ round = "types" /\ req \in [Clients -> ByTypeRequests]
       \/ /\ round = "rooms" /\ req \in [Clients -> ByRoomRequests]
          /\ req[c3] = Ask(<<3, 3>>, 0, 1, TRUE)

MCNext ==
    \/ round = "types" /\ Next /\ txs' = {} /\ expired' = {} /\ UNCHANGED round
    \/ round = "rooms" /\ Next /\ (pc[c3] # "failed" => rollback(c3)) /\ UNCHANGED round

MCSpec == MCInit /\ [][MCNext]_<<allVars, round>> /\ Fairness

=============================================================================

---------------------------- MODULE RoomCalendar ----------------------------
(***************************************************************************)
(* What bookings promise about rooms, with no transactions, statements or  *)
(* status writes: a booking claims all its rooms for its stay at once and  *)
(* at most once in its life, gives them all back together, and may be put  *)
(* back as it was.  (documentation/booking-flow.md sections 2 and 3.)      *)
(*                                                                         *)
(* Where the calendar is free is judged among the claims made under a      *)
(* common lock key; a booking that was put back has lost its exclusivity.  *)
(***************************************************************************)
EXTENDS Naturals

CONSTANTS
    Bookings,
    Rooms,
    Stays         \* [from, to) of the stays, each with the keys it is claimed under

VARIABLES
    claims,       \* what each booking ever claimed: its rooms with its stay
    claimed,      \* the bookings that have made their claim
    holding,      \* the bookings whose claim stands
    revived       \* the bookings put back after they had been given back

Disjoint(s, u) == s.from >= u.to \/ s.to <= u.from

Init ==
    /\ claims = [b \in Bookings |-> {}]
    /\ claimed = {} /\ holding = {} /\ revived = {}

\* Room r is taken, for a claim of stay s, by a booking that never left it.
Taken(r, s) ==
    \E b \in holding \ revived : \E e \in claims[b] :
        /\ e.room = r
        /\ e.stay.under \cap s.under # {}
        /\ ~Disjoint(e.stay, s)

Claim(b) ==
    /\ b \notin claimed
    /\ claimed' = claimed \cup {b}
    /\ holding' = holding \cup {b}
    /\ \E R \in SUBSET Rooms, s \in Stays :
          /\ claims' = [claims EXCEPT ![b] = {[room |-> r, stay |-> s] : r \in R}]
          /\ \A r \in R : ~Taken(r, s)
    /\ UNCHANGED revived

GiveBack(b) ==
    /\ b \in holding
    /\ holding' = holding \ {b}
    /\ UNCHANGED <<claims, claimed, revived>>

\* Nobody looks at the calendar here.
PutBack(b) ==
    /\ b \in claimed \ holding
    /\ holding' = holding \cup {b}
    /\ revived' = revived \cup {b}
    /\ UNCHANGED <<claims, claimed>>

Next == \E b \in Bookings : Claim(b) \/ GiveBack(b) \/ PutBack(b)

Spec == Init /\ [][Next]_<<claims, claimed, holding, revived>>

=============================================================================

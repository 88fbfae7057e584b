-------------------------- MODULE MCBookingService --------------------------
(***************************************************************************)
(* Small instances of BookingService: rooms 1 and 2 of type 11, room 3 of  *)
(* type 12, days 0..3.                                                     *)
(***************************************************************************)
EXTENDS BookingService

CONSTANTS c1, c2, c3, s1, s2, s3, t1, t2

MCRooms  == 1..3
MCTypes  == {11, 12}
MCTypeOf == [r \in MCRooms |-> IF r = 3 THEN 12 ELSE 11]

\* A request for the keys of a sequence, as many times as they occur in it.
Ask(keys, from, to, immediate) ==
    [want |-> [k \in MCRooms \cup MCTypes |-> Cardinality({i \in DOMAIN keys : keys[i] = k})],
     from |-> from, to |-> to, immediate |-> immediate]

\* Customers ask for types: stays that overlap, stays that touch, one type
\* asked twice, two types at once.
ByTypeRequests ==
    { Ask(<<11>>, 0, 2, FALSE), Ask(<<11>>, 2, 3, FALSE), Ask(<<11, 11>>, 1, 3, TRUE),
      Ask(<<12, 11>>, 0, 2, TRUE) }

\* Staff name rooms, in both orders and one room twice, and a room together
\* with another of its type; who can meet in a room shares a key.
ByRoomRequests ==
    { Ask(<<1, 2>>, 0, 2, FALSE), Ask(<<2, 1>>, 1, 3, TRUE), Ask(<<2, 3>>, 2, 3, FALSE),
      Ask(<<1, 11>>, 0, 1, FALSE), Ask(<<3, 3>>, 0, 1, TRUE) }

\* Two stays that overlap in the one room of type 12, by the type or by its number.
OneTypeRequests == { Ask(<<12>>, 0, 2, FALSE), Ask(<<12>>, 1, 3, TRUE) }
OneRoomRequests == { Ask(<<3>>, 0, 2, FALSE), Ask(<<3>>, 1, 3, TRUE) }

\* A room by its number against the same room by its type.
MixedRequests == { Ask(<<3>>, 0, 2, TRUE), Ask(<<12>>, 1, 3, FALSE) }

\* Both kinds: two stays by the type, and one by the room's number.
MeetingRequests == OneTypeRequests \cup { Ask(<<3>>, 0, 2, TRUE) }

AllAvailable == {[r \in MCRooms |-> "available"]}

SomeOutOfService ==
    {[r \in MCRooms |-> IF r = 2 THEN s ELSE "available"] :
        s \in {"available", "occupied", "maintenance"}}

AllRequests == ByTypeRequests \cup ByRoomRequests
=============================================================================

------------------------- MODULE SequentialNumbers -------------------------
(***************************************************************************)
(* The numbers BK-2026-000001, TB-..., INV-... of utils/bookingNumber.js,  *)
(* for one of its three tables.  A creating transaction draws its number   *)
(* under the advisory lock "<namespace>:<year>", as one more than the rows *)
(* created in that year, and inserts its row under the table's unique      *)
(* index (db/schema.js).  The year in the number is the clock's when the   *)
(* number is drawn; created_at is the clock's when the transaction began   *)
(* (CURRENT_TIMESTAMP).                                                    *)
(***************************************************************************)
EXTENDS Naturals, FiniteSets

CONSTANTS
    Calls,        \* creations: one transaction each
    LastYear,     \* bound: the clock stops in this year
    NoOne         \* the owner of a free lock

ASSUME NumbersAssumption == LastYear \in Nat /\ NoOne \notin Calls

Years == 0..LastYear

VARIABLES
    clock,        \* the current year
    pc,           \* where each creation is
    began,        \* the year its transaction began in
    year,         \* the year its number is drawn for
    seq,          \* the sequence number it drew
    owner,        \* the transaction that owns each year's lock
    rows          \* the committed rows

vars == <<clock, pc, began, year, seq, owner, rows>>

Row == [year : Years, seq : Nat, created : Years]

Init ==
    /\ clock = 0
    /\ pc = [c \in Calls |-> "idle"]
    /\ began = [c \in Calls |-> 0]
    /\ year = [c \in Calls |-> 0]
    /\ seq = [c \in Calls |-> 0]
    /\ owner = [y \in Years |-> NoOne]
    /\ rows = {}

\* BEGIN: what created_at will be.
begin(c) ==
    /\ pc[c] = "idle"
    /\ began' = [began EXCEPT ![c] = clock]
    /\ pc' = [pc EXCEPT ![c] = "begun"]
    /\ UNCHANGED <<clock, year, seq, owner, rows>>

\* The call: its year argument defaults to the current one.
generateSequentialNumber(c) ==
    /\ pc[c] = "begun"
    /\ year' = [year EXCEPT ![c] = clock]
    /\ pc' = [pc EXCEPT ![c] = "lock"]
    /\ UNCHANGED <<clock, began, seq, owner, rows>>

\* pg_advisory_xact_lock: waits while another transaction has it.
takeLock(c) ==
    /\ pc[c] = "lock"
    /\ owner[year[c]] = NoOne
    /\ owner' = [owner EXCEPT ![year[c]] = c]
    /\ pc' = [pc EXCEPT ![c] = "count"]
    /\ UNCHANGED <<clock, began, year, seq, rows>>

CreatedIn(y) == {r \in rows : r.created = y}

\* (mutant: the number of the last row is drawn again)
countOnly(c) ==
    /\ pc[c] = "count"
    /\ seq' = [seq EXCEPT ![c] = Cardinality(CreatedIn(year[c]))]
    /\ pc' = [pc EXCEPT ![c] = "insert"]
    /\ UNCHANGED <<clock, began, year, owner, rows>>

\* SELECT count(*) of the rows created in the year.
countRows(c) ==
    /\ pc[c] = "count"
    /\ seq' = [seq EXCEPT ![c] = Cardinality(CreatedIn(year[c])) + 1]
    /\ pc' = [pc EXCEPT ![c] = "insert"]
    /\ UNCHANGED <<clock, began, year, owner, rows>>

Release(c) == owner' = [y \in Years |-> IF owner[y] = c THEN NoOne ELSE owner[y]]

Taken(c) == \E r \in rows : r.year = year[c] /\ r.seq = seq[c]

\* The insert and the commit, or the unique index refuses it.
insertRow(c) ==
    /\ pc[c] = "insert"
    /\ IF Taken(c)
       THEN /\ pc' = [pc EXCEPT ![c] = "refused"]
            /\ UNCHANGED rows
       ELSE /\ pc' = [pc EXCEPT ![c] = "done"]
            /\ rows' = rows \cup {[year |-> year[c], seq |-> seq[c], created |-> began[c]]}
    /\ Release(c)
    /\ UNCHANGED <<clock, began, year, seq>>

\* Any other statement of the transaction fails; a number drawn is lost with it.
rollback(c) ==
    /\ pc[c] \in {"begun", "lock", "count", "insert"}
    /\ pc' = [pc EXCEPT ![c] = "failed"]
    /\ Release(c)
    /\ UNCHANGED <<clock, began, year, seq, rows>>

newYear ==
    /\ clock < LastYear
    /\ clock' = clock + 1
    /\ UNCHANGED <<pc, began, year, seq, owner, rows>>

Next ==
    \/ \E c \in Calls :
          \/ begin(c) \/ generateSequentialNumber(c) \/ takeLock(c)
          \/ countRows(c) \/ insertRow(c) \/ rollback(c)
    \/ newYear

Spec == Init /\ [][Next]_vars

-----------------------------------------------------------------------------
\* Properties

Pcs == {"idle", "begun", "lock", "count", "insert", "done", "refused", "failed"}

\* Every variable has its type.
TypeOK ==
    /\ clock \in Years
    /\ pc \in [Calls -> Pcs]
    /\ began \in [Calls -> Years]
    /\ year \in [Calls -> Years]
    /\ seq \in [Calls -> Nat]
    /\ owner \in [Years -> Calls \cup {NoOne}]
    /\ rows \subseteq Row

NumbersOf(y) == {r.seq : r \in {q \in rows : q.year = y}}

\* A row whose number is of another year than its created_at: its transaction
\* began in the old year and drew its number in the new one.
Straddler == \E r \in rows : r.year # r.created

\* Until some transaction straddles New Year, the numbers of each year are
\* 1, 2, 3, ... without a gap, whatever rolls back, and whoever holds a number
\* holds the next one, so that the unique index refuses nobody.
SeriesIntact ==
    ~Straddler =>
        /\ \A y \in Years : NumbersOf(y) = 1..Cardinality(NumbersOf(y))
        /\ \A c \in Calls : pc[c] = "insert" => ~Taken(c)

\* What the comment of bookingNumber.js promises: the lock makes every number
\* drawn a new one, and no creation fails for its number.
NobodyRefused == \A c \in Calls : pc[c] # "refused"

=============================================================================

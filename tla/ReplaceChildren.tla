--------------------------- MODULE ReplaceChildren ---------------------------
(***************************************************************************)
(* The rows that hang on one parent, replaced as a set.                    *)
(*                                                                         *)
(* The roles of a user, the permissions of a role, the amenities of a      *)
(* hotel or room type and the days of a tour are saved by one transaction  *)
(* that deletes the parent's rows and inserts those asked for; amenities   *)
(* and days are also assigned and removed one by one.  A unique index      *)
(* forbids two rows for the same child.  PostgreSQL runs the statements at *)
(* READ COMMITTED: a DELETE sees the rows committed before it began, waits *)
(* for whoever else has deleted one of them, and an INSERT waits for       *)
(* whoever has written the same key and not ended.                         *)
(***************************************************************************)
EXTENDS Naturals, FiniteSets, Sequences, SequencesExt

CONSTANTS
    Children,      \* role, permission or amenity ids, or day numbers
    Stored,        \* the rows before the calls
    Lists,         \* the lists a replacement may ask for
    Singles,       \* the children that are assigned or removed by themselves
    Writers        \* the calls

ASSUME ChildrenAssumption ==
    /\ Stored \subseteq Children
    /\ Lists \subseteq Seq(Children) /\ Singles \subseteq Children

VARIABLES
    attached,      \* the committed children
    ignores,       \* replacements of this table insert ON CONFLICT DO NOTHING
    writer         \* each call

childVars == <<attached, ignores, writer>>

NotBegun == [at |-> "start", kind |-> "replace", list |-> <<>>, todo |-> <<>>,
             gone |-> {}, new |-> {}]

ChildInit ==
    /\ attached = Stored
    /\ ignores \in BOOLEAN
    /\ writer = [w \in Writers |-> NotBegun]

-----------------------------------------------------------------------------
\* A statement is under way: its next row is the head of todo.
Running(w) == writer[w].at \in {"found", "delete", "insert"}

\* Transactions that have written the row w is at, and have not ended.
BlockedBy(w) ==
    IF writer[w].at = "found" \/ writer[w].todo = <<>> THEN {}
    ELSE {v \in Writers \ {w} :
             \/ Head(writer[w].todo) \in writer[v].gone
             \/ writer[w].at = "insert" /\ Head(writer[w].todo) \in writer[v].new}

\* A call begins a statement that goes through todo row by row.
Statement(w, at, kind, list, todo) ==
    writer' = [writer EXCEPT ![w] = [@ EXCEPT !.at = at, !.kind = kind, !.list = list, !.todo = todo]]

\* replaceUserRoles, replaceRolePermissions, setAmenities and replaceItinerary:
\* the DELETE finds the rows committed now, in whatever order.
replace(w, list) ==
    /\ writer[w].at = "start"
    /\ \E todo \in SetToSeqs(attached) : Statement(w, "delete", "replace", list, todo)
    /\ UNCHANGED <<attached, ignores>>

\* assignAmenity and addItineraryDay: answered without a write when the row is
\* there; otherwise a plain INSERT.
assign(w, c) ==
    /\ writer[w].at = "start"
    /\ IF c \in attached
       THEN writer' = [writer EXCEPT ![w].at = "failed"]
       ELSE Statement(w, "insert", "assign", <<c>>, <<c>>)
    /\ UNCHANGED <<attached, ignores>>

\* unassignAmenity and removeItineraryDay.
remove(w, c) ==
    /\ writer[w].at = "start"
    /\ IF c \in attached
       THEN Statement(w, "found", "remove", <<>>, <<c>>)
       ELSE writer' = [writer EXCEPT ![w].at = "failed"]
    /\ UNCHANGED <<attached, ignores>>

\* Its DELETE finds the row again, or no longer.
removeStatement(w) ==
    /\ writer[w].at = "found"
    /\ writer' = [writer EXCEPT ![w].at = "delete", ![w].todo = SelectSeq(@, LAMBDA c : c \in attached)]
    /\ UNCHANGED <<attached, ignores>>

\* (mutant: the rows are deleted outside the transaction)
deleteRowAtOnce(w) ==
    /\ writer[w].at = "delete" /\ writer[w].todo # <<>> /\ BlockedBy(w) = {}
    /\ writer' = [writer EXCEPT ![w].todo = Tail(@)]
    /\ attached' = attached \ {Head(writer[w].todo)}
    /\ UNCHANGED <<ignores>>

deleteRow(w) ==
    /\ writer[w].at = "delete" /\ writer[w].todo # <<>> /\ BlockedBy(w) = {}
    /\ writer' = [writer EXCEPT ![w].todo = Tail(@), ![w].gone = @ \cup {Head(writer[w].todo)}]
    /\ UNCHANGED <<attached, ignores>>

insertStatement(w) ==
    /\ writer[w].at = "delete" /\ writer[w].todo = <<>>
    /\ writer' = [writer EXCEPT ![w].at = "insert", ![w].todo = writer[w].list]
    /\ UNCHANGED <<attached, ignores>>

\* The rows w sees in the unique index: its own, and those it has not deleted.
Conflicts(w, c) == c \in writer[w].new \/ c \in attached \ writer[w].gone

insertChild(w) ==
    /\ writer[w].at = "insert" /\ writer[w].todo # <<>> /\ BlockedBy(w) = {}
    /\ ~Conflicts(w, Head(writer[w].todo))
    /\ writer' = [writer EXCEPT ![w].todo = Tail(@), ![w].new = @ \cup {Head(writer[w].todo)}]
    /\ UNCHANGED <<attached, ignores>>

Skips(w) == ignores /\ writer[w].kind = "replace"

\* ON CONFLICT DO NOTHING.
skipRow(w) ==
    /\ writer[w].at = "insert" /\ writer[w].todo # <<>> /\ BlockedBy(w) = {}
    /\ Conflicts(w, Head(writer[w].todo)) /\ Skips(w)
    /\ writer' = [writer EXCEPT ![w].todo = Tail(@)]
    /\ UNCHANGED <<attached, ignores>>

\* (mutant: the transaction stays open after an error)
RollbackNot(w) == writer' = [writer EXCEPT ![w].at = "failed"]

Rollback(w) == writer' = [writer EXCEPT ![w] = [NotBegun EXCEPT !.at = "failed"]]

uniqueViolation(w) ==
    /\ writer[w].at = "insert" /\ writer[w].todo # <<>> /\ BlockedBy(w) = {}
    /\ Conflicts(w, Head(writer[w].todo)) /\ ~Skips(w)
    /\ Rollback(w)
    /\ UNCHANGED <<attached, ignores>>

\* PostgreSQL ends one of the transactions that wait for each other in a ring.
deadlockDetected(w) ==
    /\ \E ring \in SUBSET Writers : w \in ring /\ UNION {BlockedBy(v) : v \in ring} = ring
    /\ Running(w)
    /\ Rollback(w)
    /\ UNCHANGED <<attached, ignores>>

\* Another transaction has committed the deletion of rows that w was to delete.
Without(todo, deleted) == SelectSeq(todo, LAMBDA c : c \notin deleted)

commitRows(w) ==
    /\ writer[w].at = "insert" /\ writer[w].todo = <<>>
    /\ attached' = (attached \ writer[w].gone) \cup writer[w].new
    /\ writer' = [v \in Writers |->
                     IF v = w THEN [writer[v] EXCEPT !.at = "done", !.gone = {}, !.new = {}]
                     ELSE IF writer[v].at = "delete"
                     THEN [writer[v] EXCEPT !.todo = Without(@, writer[w].gone)]
                     ELSE writer[v]]
    /\ UNCHANGED ignores

step(w) ==
    \/ removeStatement(w) \/ deleteRow(w) \/ insertStatement(w) \/ insertChild(w) \/ skipRow(w)
    \/ uniqueViolation(w) \/ deadlockDetected(w) \/ commitRows(w)

ChildNext ==
    \E w \in Writers :
        \/ \E list \in Lists : replace(w, list)
        \/ \E c \in Singles : assign(w, c) \/ remove(w, c)
        \/ step(w)

ChildSpec == ChildInit /\ [][ChildNext]_childVars

\* PostgreSQL goes on with the statements it was sent and detects deadlocks.
ChildFairness == \A w \in Writers : WF_childVars(step(w))

ChildFairSpec == ChildSpec /\ ChildFairness

-----------------------------------------------------------------------------
\* Properties

Finished == {w \in Writers : writer[w].at = "done"}

\* "A role is never left with none" (roleRepository.js:44-45): while calls overlap
\* nobody sees the parent without children, unless a call asked for that.
NoneOnlyIfAsked ==
    attached = {} /\ Stored # {} => \E w \in Finished : writer[w].list = <<>>

\* Whatever deletes, waits, conflicts and deadlocks came in between, at the end
\* everything that one of the completed replacements asked for is there.
OneListIsThere ==
    (\A w \in Writers : writer[w].at \in {"done", "failed"}) /\ Finished # {}
        /\ (\A w \in Finished : writer[w].kind = "replace")
    => \E w \in Finished : ToSet(writer[w].list) \subseteq attached

\* Replacements that overlap leave the parent with children throughout, and with a
\* whole list in the end.
ReplacementsSound == NoneOnlyIfAsked /\ OneListIsThere

\* Every call that began is answered, deadlocks included.
ReplacementsEnd == \A w \in Writers : Running(w) ~> ~Running(w)
=============================================================================

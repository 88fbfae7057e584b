------------------------------- MODULE Seeding -------------------------------
(***************************************************************************)
(* server/seeds/index.js: demo data, put in by a script that may be run    *)
(* again, may stop in the middle and may run beside another one.           *)
(*                                                                         *)
(* findOrCreate selects a row by its name, inserts it ON CONFLICT DO       *)
(* NOTHING and selects again; only some tables have a unique index for the *)
(* name.  What belongs to a row (a hotel's amenities, a room type's rooms  *)
(* and rates, a tour's days) is inserted only by the script that created   *)
(* the row; a role's permissions are deleted and inserted each time.       *)
(***************************************************************************)
EXTENDS Naturals, FiniteSets

CONSTANTS
    LastItem,          \* the items in the order of main(): 1..LastItem
    UniqueItems,   \* items whose name has a unique index
    ParentItems,   \* items with rows of their own, inserted on creation
    RoleItems,     \* roles: their permissions are replaced
    Scripts        \* runs of the script

Items == 1..LastItem

ASSUME SeedingAssumption ==
    /\ LastItem \in Nat \ {0}
    /\ UniqueItems \subseteq Items /\ ParentItems \subseteq Items \ UniqueItems /\ RoleItems \subseteq UniqueItems

VARIABLES
    copies,        \* rows of each item
    dressed,       \* rows of each item that have the rows that belong to them
    seeder,        \* each script: its item and where it is in it
    stopped,       \* history: items a script stopped at, short of their own rows
    together       \* history: items two scripts looked for at the same time

seedVars == <<copies, dressed, seeder, stopped, together>>

SeedInit ==
    /\ copies = [i \in Items |-> 0]
    /\ dressed = [i \in Items |-> 0]
    /\ seeder = [p \in Scripts |-> [at |-> "off", item |-> 1]]
    /\ stopped = {} /\ together = {}

Stands(p, where) == seeder[p].at = where

Item(p) == seeder[p].item

GoesTo(p, where) == seeder' = [seeder EXCEPT ![p].at = where]

\* On to the next item, or the end.
NextItem(p) ==
    seeder' = [seeder EXCEPT ![p] = IF Item(p) = LastItem THEN [at |-> "done", item |-> LastItem]
                                    ELSE [at |-> "select", item |-> Item(p) + 1]]

runSeed(p) ==
    /\ Stands(p, "off")
    /\ seeder' = [seeder EXCEPT ![p] = [at |-> "select", item |-> 1]]
    /\ UNCHANGED <<copies, dressed, stopped, together>>

Known(i) == copies[i] > 0

Beyond(p) == IF Item(p) \in RoleItems THEN GoesTo(p, "revoke") ELSE NextItem(p)

selectItem(p) ==
    /\ Stands(p, "select")
    /\ IF Known(Item(p)) THEN Beyond(p) ELSE GoesTo(p, "insert")
    /\ UNCHANGED <<copies, dressed, stopped, together>>

Meeting(p) == \E o \in Scripts \ {p} : seeder[o] = [at |-> "insert", item |-> Item(p)]

\* (mutant: no name has a unique index)
ConflictNever(i) == FALSE

Conflict(i) == i \in UniqueItems /\ copies[i] > 0

insertItem(p) ==
    /\ Stands(p, "insert")
    /\ IF Conflict(Item(p))
       THEN UNCHANGED copies /\ Beyond(p)
       ELSE /\ copies' = [copies EXCEPT ![Item(p)] = @ + 1]
            /\ IF Item(p) \in ParentItems THEN GoesTo(p, "dress") ELSE Beyond(p)
    /\ together' = IF Meeting(p) THEN together \cup {Item(p)} ELSE together
    /\ UNCHANGED <<dressed, stopped>>

insertChildren(p) ==
    /\ Stands(p, "dress")
    /\ dressed' = [dressed EXCEPT ![Item(p)] = @ + 1]
    /\ NextItem(p)
    /\ UNCHANGED <<copies, stopped, together>>

revokePermissions(p) ==
    /\ Stands(p, "revoke")
    /\ dressed' = [dressed EXCEPT ![Item(p)] = 0]
    /\ GoesTo(p, "grant")
    /\ UNCHANGED <<copies, stopped, together>>

grantPermissions(p) ==
    /\ Stands(p, "grant")
    /\ dressed' = [dressed EXCEPT ![Item(p)] = 1]
    /\ stopped' = stopped \ {Item(p)}
    /\ NextItem(p)
    /\ UNCHANGED <<copies, together>>

\* The process ends, or a statement fails, which ends the script.
stop(p) ==
    /\ ~Stands(p, "off") /\ ~Stands(p, "done")
    /\ seeder' = [seeder EXCEPT ![p] = [at |-> "off", item |-> 1]]
    /\ stopped' = IF Stands(p, "dress") \/ Stands(p, "grant") THEN stopped \cup {Item(p)} ELSE stopped
    /\ UNCHANGED <<copies, dressed, together>>

SeedNext ==
    \E p \in Scripts :
        \/ runSeed(p) \/ selectItem(p) \/ insertItem(p) \/ insertChildren(p)
        \/ revokePermissions(p) \/ grantPermissions(p) \/ stop(p)

SeedSpec == SeedInit /\ [][SeedNext]_seedVars

-----------------------------------------------------------------------------
\* Properties

\* The script can be run again: an item is there once, however often the script
\* stopped, unless two scripts looked for it at the same time and nothing but the
\* look keeps its name unique.
SeededOnce == \A i \in Items : copies[i] > 1 => i \in together \ UniqueItems

\* After a script has come to its end, and while no other one runs, everything is
\* there with the rows that belong to it, except where a script had stopped just
\* after it created the row (no later run makes up for that) or had taken a role's
\* permissions away (the next run does).
SeededWhole ==
    (\E p \in Scripts : Stands(p, "done")) /\ (\A p \in Scripts : Stands(p, "done") \/ Stands(p, "off")) =>
        /\ \A i \in Items : copies[i] > 0
        /\ \A i \in (ParentItems \cup RoleItems) \ stopped : dressed[i] = copies[i]

\* A seeded database has every item once, and whole.
SeedingSound == SeededOnce /\ SeededWhole
=============================================================================

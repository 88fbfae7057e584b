------------------------------- MODULE Settings -------------------------------
(***************************************************************************)
(* One setting (a key of the settings table) and the policy that bookings  *)
(* are held to.                                                            *)
(*                                                                         *)
(* The settings page reads and writes the rows of the user's agency;       *)
(* setSetting is an upsert on the unique index (agency_id, key), which     *)
(* takes rows without an agency as different from each other.  getSettings *)
(* merges the rows of the agency and those of none in the order the query  *)
(* returns them, which is no order.  createBooking, cancelBooking and      *)
(* getInvoicePdf call getSettings without an agency.  A save of several    *)
(* settings is a loop of single statements.                                *)
(***************************************************************************)
EXTENDS Naturals, FiniteSets

CONSTANTS
    Agencies, NoAgency,      \* agencies; the agency_id of a row for all
    Values, Default,         \* values of the setting; the one of DEFAULTS
    Savers                   \* calls that save it

ASSUME SettingsAssumption == NoAgency \notin Agencies /\ Default \notin Values

VARIABLES
    saved,        \* the rows: [agency, value, id]
    saver,        \* what each call has saved, if anything
    last,         \* history: the value saved last for each agency or none
    reported      \* what a call was last told: [agency, values] (any of values)

settingsVars == <<saved, saver, last, reported>>

Scopes == Agencies \cup {NoAgency}

SettingsInit ==
    /\ saved = {}
    /\ saver = [s \in Savers |-> "start"]
    /\ last = [a \in Scopes |-> Default]
    /\ reported = [agency |-> NoAgency, values |-> {Default}]

\* (mutant: rows of all agencies are merged)
SelectedAll(row, a) == TRUE

Selected(row, a) == row.agency \in {a, NoAgency}

\* The merge: the default, overwritten by the selected rows in some order.
settingsOf(a) ==
    LET rows == {row \in saved : Selected(row, a)} IN
    IF rows = {} THEN {Default} ELSE {row.value : row \in rows}

\* INSERT ... ON CONFLICT DO UPDATE: the old row's value, or one more row.
setSetting(s, a, value) ==
    /\ saver[s] = "start"
    /\ saved' = {row \in saved : row.agency # a \/ a = NoAgency}
                    \cup {[agency |-> a, value |-> value, id |-> IF a = NoAgency THEN s ELSE NoAgency]}
    /\ saver' = [saver EXCEPT ![s] = "saved"]
    /\ last' = [last EXCEPT ![a] = value]
    /\ UNCHANGED reported

\* The same call reads the settings again for its answer.
answerSettings(s, a) ==
    /\ saver[s] = "saved"
    /\ reported' = [agency |-> a, values |-> settingsOf(a)]
    /\ saver' = [saver EXCEPT ![s] = "done"]
    /\ UNCHANGED <<saved, last>>

\* (fails before its write, or between two of the settings it was to save)
saveFails(s) ==
    /\ saver[s] = "start"
    /\ saver' = [saver EXCEPT ![s] = "failed"]
    /\ UNCHANGED <<saved, last, reported>>

SettingsNext ==
    \E s \in Savers :
        \/ \E a \in Scopes : answerSettings(s, a) \/ \E value \in Values : setSetting(s, a, value)
        \/ saveFails(s)

SettingsSpec == SettingsInit /\ [][SettingsNext]_settingsVars

\* What the booking of a hotel of agency a is charged or refunded by.
policyOf(a) == settingsOf(NoAgency)

-----------------------------------------------------------------------------
\* Properties

\* What an agency saved last is what its users see, whatever other agencies save,
\* as long as nobody has saved a setting without an agency.
AgencySeesItsOwn ==
    (\A row \in saved : row.agency # NoAgency) => \A a \in Agencies : settingsOf(a) = {last[a]}

\* "The cancellation fee is resolved from the agency's settings"
\* (documentation/booking-flow.md:143).
PolicyFollowsSettings ==
    \A a \in Agencies : last[a] # Default /\ last[NoAgency] = Default => policyOf(a) = {last[a]}
=============================================================================

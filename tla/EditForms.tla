------------------------------ MODULE EditForms ------------------------------
(***************************************************************************)
(* The forms that create and edit one record (src/views/admin/*/*Form.jsx, *)
(* Profile, SettingsPage and the permission editor of RoleList) and the    *)
(* actions that save it: the record first, then the rows that go with it.  *)
(* Others save the same record meanwhile; loads and calls fail.            *)
(*                                                                         *)
(* A record has a field that must be filled in (name), a text that may be  *)
(* empty or NULL, a strict one (a number, a URL or an address, which may   *)
(* be NULL but for which the schema refuses '' and null), a currency, and  *)
(* the rows that go with it (children).  A form is described by            *)
(*   has       the fields that it sends                                    *)
(*   children  "none", "within" the record's own update and required,      *)
(*             "after" it, where a failure is swallowed, or "checked":     *)
(*             after it, but refused when a row is not filled in           *)
(*   creates   it also creates records                                     *)
(***************************************************************************)
EXTENDS Naturals, FiniteSets

CONSTANT MaxSaves    \* bound on presses of the save button

ASSUME EditFormsAssumption == MaxSaves \in Nat

VARIABLES
    form,       \* the form that is open
    created,    \* records made by it; in edit mode there is one before
    editing,    \* it has an id
    step,       \* "loading", "open", "record", "children" (in the call), "left" (done,
                \* though the answer may still be lost)
    dbRecord,   \* the record in the database
    fields,     \* what the form holds
    base,       \* what it loaded
    touched,    \* fields that the user has changed
    blind,      \* fields that could not be loaded
    presses,
    misled      \* history: told of an error although the record was saved

formVars == <<form, created, editing, step, dbRecord, fields, base, touched, blind, presses, misled>>

Fields == {"name", "text", "strict", "currency", "children"}
FormKind(has, children, creates) == [has |-> has, children |-> children, creates |-> creates]

HotelForm == FormKind({"name", "text", "strict"}, "after", TRUE)
RoomTypeForm == FormKind({"name", "text", "strict"}, "after", TRUE)
TourPackageForm == FormKind({"name", "text", "currency"}, "checked", TRUE)
UserForm == FormKind({"name", "text"}, "within", TRUE)
DestinationForm == FormKind({"name", "text", "strict"}, "none", TRUE)
RoomForm == FormKind({"name", "text"}, "none", TRUE)
Profile == FormKind({"name", "text", "strict"}, "none", FALSE)
SettingsPage == FormKind({"name", "text"}, "none", FALSE)      \* two of the keys
PermissionEditor == FormKind({}, "within", FALSE)

Forms == {HotelForm, RoomTypeForm, TourPackageForm, UserForm, DestinationForm,
          RoomForm, Profile, SettingsPage, PermissionEditor}

\* They stay open after a save.
StaysOpen == form \in {Profile, SettingsPage, PermissionEditor}

Blank == "blank"    \* ''
EMPTY_FORM == [f \in Fields |-> Blank]
OldRecord(text, strict) == [f \in Fields |-> IF f = "text" THEN text ELSE IF f = "strict" THEN strict ELSE "old"]

EditFormsInit ==
    /\ form \in Forms
    /\ editing \in BOOLEAN /\ (editing \/ form.creates)
    /\ created = 0
    /\ step = (IF editing THEN "loading" ELSE "open")
    /\ dbRecord \in (IF editing THEN {OldRecord(t, s) : t \in {"old", "null"}, s \in {"old", "null"}} ELSE {EMPTY_FORM})
    /\ fields = EMPTY_FORM /\ base = EMPTY_FORM
    /\ touched = {} /\ blind = {} /\ presses = 0 /\ misled = FALSE

-----------------------------------------------------------------------------
\* What a form shows of a value: getSettings answers with the default of a key that
\* is not stored.
Shown(value) == IF value # "null" THEN value ELSE IF form = SettingsPage THEN "default" ELSE Blank

\* (mutant: the empty form goes over the record)
filledOver(record) == [record EXCEPT !["text"] = Blank]

\* { ...EMPTY_FORM, ...nullsToEmptyStrings(record) }
filled(record) == [f \in Fields |-> Shown(record[f])]

\* The effect that loads the record.  When it fails, a toast says so and the form
\* is shown empty; only the permission editor has nothing to save then.
loadForm ==
    /\ step = "loading"
    /\ \/ /\ form.children # "checked"
          /\ fields' = filled(dbRecord) /\ base' = dbRecord /\ step' = "open" /\ UNCHANGED blind
       \/ /\ blind' = Fields /\ UNCHANGED <<fields, base>>
          /\ step' = IF form = PermissionEditor THEN "left" ELSE "open"
    /\ UNCHANGED <<form, created, editing, dbRecord, touched, presses, misled>>

\* The itinerary is asked for beside the package, at an address without a route; the
\* error is taken for no days, so that the form never shows the days that are stored.
loadWithoutDays ==
    /\ step = "loading" /\ form.children = "checked"
    /\ fields' = [filled(dbRecord) EXCEPT !["children"] = Blank] /\ base' = dbRecord
    /\ blind' = {"children"} /\ step' = "open"
    /\ UNCHANGED <<form, created, editing, dbRecord, touched, presses, misled>>

\* The currency is a disabled select.
setField(f) ==
    /\ step = "open" /\ f \notin touched
    /\ f \in form.has \ {"currency"} \/ (f = "children" /\ form.children # "none")
    /\ \E value \in {Blank, "typed"} : fields' = [fields EXCEPT ![f] = value]
    /\ touched' = touched \cup {f}
    /\ UNCHANGED <<form, created, editing, step, dbRecord, base, blind, presses, misled>>

\* The fields that the update writes.  The profile leaves out what is empty; the
\* settings are those that were loaded or typed.
taken(f) ==
    /\ f \in form.has \/ (f = "children" /\ form.children = "within")
    /\ form = Profile => fields[f] # Blank
    /\ form = SettingsPage => f \notin blind \/ f \in touched

\* validate() in the page, and a refused payload, leave the form open.
Valid ==
    /\ "name" \in form.has /\ form \notin {Profile, SettingsPage} => fields["name"] # Blank
    /\ "strict" \in form.has /\ form # Profile => fields["strict"] # Blank
    /\ form = Profile => \A f \in Fields : fields[f] # "null"
    /\ form = SettingsPage => \E f \in Fields : taken(f)
    /\ form = UserForm => fields["children"] # Blank

\* Save: the fields of the press are what the call takes.
submitForm ==
    /\ step = "open" /\ Valid /\ presses < MaxSaves
    /\ step' = "record" /\ presses' = presses + 1
    /\ UNCHANGED <<form, created, editing, dbRecord, fields, base, touched, blind, misled>>

\* The tour form sends the agency's currency, whatever the package has.
submitted(f) == IF f = "currency" THEN "default" ELSE fields[f]

\* The profile puts the row of the answer over its fields, NULLs and all; the
\* settings page shows the answer.
showAnswer ==
    /\ form \in {Profile, SettingsPage}
    /\ fields' = (IF form = Profile THEN dbRecord' ELSE filled(dbRecord'))
    /\ base' = dbRecord' /\ touched' = {} /\ blind' = {} /\ UNCHANGED misled

\* The record is created or updated, in a transaction of its own; of the settings
\* each is, and a failure leaves out the rest.  The answer may be lost.
saveRecord ==
    /\ step = "record"
    /\ \E done \in SUBSET {f \in Fields : taken(f)} :
          /\ done = {f \in Fields : taken(f)} \/ form = SettingsPage
          /\ dbRecord' = [f \in Fields |-> IF f \in done THEN submitted(f) ELSE IF editing THEN dbRecord[f] ELSE Blank]
          /\ \/ done = {f \in Fields : taken(f)} /\ showAnswer
             \/ misled' = (misled \/ form \in {Profile, SettingsPage}) /\ UNCHANGED <<fields, base, touched, blind>>
    /\ created' = IF editing THEN created ELSE created + 1
    /\ step' = IF form.children \in {"after", "checked"} THEN "children" ELSE IF StaysOpen THEN "open" ELSE "left"
    /\ UNCHANGED <<form, editing, presses>>

\* The call fails before the record is written, or its answer is lost afterwards:
\* the form stays open, and creates another record when it is saved again.
formFails ==
    /\ \/ step \in {"record", "children"}
       \/ step = "left" /\ presses > 0
    /\ step' = "open" /\ misled' = (misled \/ step # "record")
    /\ UNCHANGED <<form, created, editing, dbRecord, fields, base, touched, blind, presses>>

\* The days are parsed once the package is written: a day without a title makes
\* the whole save an error.  Otherwise the rows are replaced, or that fails and
\* nobody hears of it.
saveChildren ==
    /\ step = "children"
    /\ \/ /\ form.children = "checked" => fields["children"] # Blank
          /\ step' = "left" /\ UNCHANGED misled
          /\ \/ dbRecord' = [dbRecord EXCEPT !["children"] = fields["children"]]
             \/ UNCHANGED dbRecord
       \/ /\ form.children = "checked" /\ fields["children"] = Blank
          /\ step' = "open" /\ misled' = TRUE /\ UNCHANGED dbRecord
    /\ UNCHANGED <<form, created, editing, fields, base, touched, blind, presses>>

\* Another user saves the record.
savedByOthers(f) ==
    /\ editing /\ dbRecord[f] = "old"
    /\ dbRecord' = [dbRecord EXCEPT ![f] = "theirs"]
    /\ UNCHANGED <<form, created, editing, step, fields, base, touched, blind, presses, misled>>

EditFormsNext ==
    \/ loadForm \/ loadWithoutDays \/ submitForm \/ saveRecord \/ formFails \/ saveChildren
    \/ \E f \in Fields : setField(f) \/ savedByOthers(f)

EditFormsSpec == EditFormsInit /\ [][EditFormsNext]_formVars

-----------------------------------------------------------------------------
\* Properties

\* What a save writes into a field that the user has not touched is what the form
\* had loaded of it, '' or a default for NULL, whatever others stored since; or the
\* empty form's '' when it could not be loaded; or the agency's currency.  One form
\* creates one record, unless it told of an error when the record was there.
UntouchedKept ==
    /\ [][\A f \in Fields \ touched :
            editing /\ step # step' /\ dbRecord'[f] # dbRecord[f] =>
              \/ f \notin blind /\ dbRecord'[f] = Shown(base[f])
              \/ f \in blind /\ dbRecord'[f] = Blank /\ form \notin {Profile, SettingsPage, PermissionEditor}
              \/ f = "currency" /\ dbRecord'[f] = "default"]_formVars
    /\ [](created <= 1 \/ misled)
=============================================================================

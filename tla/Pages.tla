-------------------------------- MODULE Pages --------------------------------
(***************************************************************************)
(* The pages that show what they fetch (src/views): the lists, most of     *)
(* them over useResourceList, and the details.  Fetches are answered in    *)
(* any order or fail; a page's own writes are calls beside them, which are *)
(* carried out, refused or lose their answer, while others write too.      *)
(*                                                                         *)
(* A page is described by how it fetches (kind), what the user can ask     *)
(* for, and its writes: the rows whose button starts one ("new" when it is *)
(* a button of the page), whether a dialog asks first, and the flag that   *)
(* disables the button while a call is under way:                          *)
(*   "own"  a flag of the write      "row"  one of the row's writes        *)
(*   "turn" one flag that each write of the page takes over                *)
(*   "none" no flag, or a form of one field that Enter submits regardless  *)
(***************************************************************************)
EXTENDS Naturals, FiniteSets

CONSTANTS
    MaxMoves       \* bound on changes of the query and writes of the page

ASSUME PagesAssumption == MaxMoves \in Nat

VARIABLES
    view,         \* the page that is open
    wanted,       \* the query: [at, filter, search]
    typed,        \* the text of the search box
    fetches,      \* under way: [query, newest, read, seen, row]
    shownRows,    \* what is shown: [query, seen, row], row for the status of the rows
    loading, fetchFailed,
    overtakenFetch, \* history: the last answer was of an older fetch, or for another query
    dialog,       \* the write whose dialog is open
    busyWith,     \* writes whose flag is set
    writes,       \* calls under way: [id, op, query, landed]
    landed,       \* history: the page's writes that the server carried out
    told,         \* history: those whose answer the page has
    moves

pagesVars == <<view, wanted, typed, fetches, shownRows, loading, fetchFailed, overtakenFetch,
               dialog, busyWith, writes, landed, told, moves>>

-----------------------------------------------------------------------------
\* The pages

PageWrite(op, on, asks, flag) == [op |-> op, on |-> on, asks |-> asks, flag |-> flag]
Page(kind, search, filter, does) ==
    [kind |-> kind, search |-> search, filter |-> filter, does |-> does]

DeleteRow == PageWrite("delete", {"row"}, TRUE, "own")
Unguarded == PageWrite("delete", {"row"}, TRUE, "none")
SaveRow == PageWrite("save", {"new", "row"}, TRUE, "own")

BookingList == Page("list", "debounced", TRUE, {})
MyBookings == Page("list", "debounced", TRUE, {})
InvoiceList == Page("list", "debounced", TRUE, {})
MyInvoices == Page("list", "debounced", FALSE, {})
PaymentList == Page("list", "debounced", TRUE, {})
CustomerList == Page("list", "debounced", FALSE, {})
CommissionList == Page("list", "none", TRUE, {PageWrite("markPaid", {"unpaid"}, TRUE, "own")})
DestinationList == Page("list", "debounced", TRUE, {DeleteRow})
HotelList == Page("list", "debounced", TRUE, {DeleteRow})
RoomList == Page("list", "debounced", TRUE, {DeleteRow})
RoomTypeList == Page("list", "debounced", TRUE, {DeleteRow})
TourPackageList == Page("list", "debounced", TRUE, {DeleteRow})
UserList == Page("list", "debounced", FALSE, {PageWrite("delete", {"staff"}, TRUE, "own")})
ServiceList == Page("list", "debounced", TRUE, {SaveRow, DeleteRow})
VehicleList == Page("list", "debounced", TRUE, {SaveRow, Unguarded})
DriverList == Page("list", "debounced", FALSE, {SaveRow, Unguarded})
TourBookingList == Page("list", "debounced", TRUE,
    {PageWrite("confirm", {"pending"}, FALSE, "row"),
     PageWrite("cancel", {"pending", "confirmed"}, FALSE, "row")})
TransportBookingList == Page("list", "debounced", TRUE,
    {PageWrite("create", {"new"}, TRUE, "own"),
     PageWrite("confirm", {"pending"}, FALSE, "row"),
     PageWrite("cancel", {"pending", "confirmed"}, FALSE, "row")})

RatePlanList == Page("plans", "none", TRUE,
    {PageWrite("savePlan", {"new"}, TRUE, "own"), PageWrite("deletePlan", {"row"}, FALSE, "none"),
     PageWrite("saveRate", {"new", "row"}, TRUE, "own"), Unguarded})
RoleList == Page("roles", "none", FALSE,
    {PageWrite("savePermissions", {"row"}, FALSE, "own"), PageWrite("createRole", {"new"}, TRUE, "none")})

AdminBookingDetail == Page("detail", "none", FALSE,
    {PageWrite("confirm", {"pending", "held"}, FALSE, "turn"),
     PageWrite("checkIn", {"confirmed"}, TRUE, "turn"),
     PageWrite("checkOut", {"checked_in"}, TRUE, "turn"),
     PageWrite("cancel", {"pending", "held", "confirmed", "checked_in"}, TRUE, "turn")})
BookingDetail == Page("detail", "none", FALSE,
    {PageWrite("cancel", {"pending", "held", "confirmed"}, TRUE, "own")})
PaymentDetail == Page("detail", "none", FALSE,
    {PageWrite("refund", {"paid", "partially_refunded"}, TRUE, "none")})
HotelDetail == Page("detail", "none", FALSE,
    {PageWrite("addImage", {"new"}, FALSE, "own"), PageWrite("removeImage", {"row"}, FALSE, "none")})

InvoiceDetail == Page("once", "none", FALSE, {})
CustomerDetail == Page("once", "none", FALSE, {})
BookingConfirmation == Page("once", "none", FALSE, {})
Dashboard == Page("once", "none", FALSE, {})

HotelSearch == Page("url", "submitted", FALSE, {})
HotelDetails == Page("url", "submitted", FALSE, {})
ReportsHome == Page("reports", "submitted", TRUE, {})
ActivityLogList == Page("log", "debounced", TRUE, {})

Views == {BookingList, MyBookings, InvoiceList, MyInvoices, PaymentList, CustomerList,
          CommissionList, DestinationList, HotelList, RoomList, RoomTypeList,
          TourPackageList, UserList, ServiceList, VehicleList, DriverList,
          TourBookingList, TransportBookingList, RatePlanList, RoleList,
          AdminBookingDetail, BookingDetail, PaymentDetail, HotelDetail,
          InvoiceDetail, CustomerDetail, BookingConfirmation, Dashboard,
          HotelSearch, HotelDetails, ReportsHome, ActivityLogList}

RowStatuses == (UNION {w.on : w \in view.does} \ {"new"}) \cup {"other"}

-----------------------------------------------------------------------------
\* Fetching

Paged == view.kind \in {"list", "log"}

\* The pages whose effect sets a cancelled flag when it is run again.
CancelsOlder == view.kind \in {"list", "once", "url"}

\* A detail page shows an error for good; the others clear it with the next fetch.
KeepsError == view.kind \in {"detail", "once"}

\* (mutant: no cancelled flag)
supersedeNone == fetches

\* What becomes of the fetches under way when another begins.
supersede == IF CancelsOlder THEN {} ELSE {[x EXCEPT !.newest = FALSE] : x \in fetches}

Fetch(query, newest) == [query |-> query, newest |-> newest, read |-> FALSE,
                         seen |-> {}, row |-> "none"]

\* The effect of the page, or its load function, for a query.
load(query, newest) ==
    /\ fetches' = supersede \cup {Fetch(query, newest)}
    /\ loading' = TRUE
    /\ fetchFailed' = (KeepsError /\ fetchFailed)

PagesInit ==
    /\ view \in Views
    /\ wanted = [at |-> 1, filter |-> FALSE, search |-> FALSE] /\ typed = FALSE
    /\ fetches = {Fetch(wanted, TRUE)} /\ loading = TRUE /\ fetchFailed = FALSE
    /\ shownRows = [query |-> wanted, seen |-> {}, row |-> "none"] /\ overtakenFetch = FALSE
    /\ dialog = "none" /\ busyWith = {} /\ writes = {}
    /\ landed = {} /\ told = {} /\ moves = 0

resting == UNCHANGED <<view, shownRows, overtakenFetch, dialog, busyWith, writes, landed, told>>

\* The query changes.  The log page fetches for its old page number first, and
\* once more when the effect that resets the number has run.
turnTo(query) ==
    /\ moves < MaxMoves /\ moves' = moves + 1
    /\ wanted' = query
    /\ IF view.kind = "log" /\ wanted.at # query.at
       THEN /\ fetches' = supersede \cup {Fetch([query EXCEPT !.at = wanted.at], FALSE), Fetch(query, TRUE)}
            /\ loading' = TRUE /\ UNCHANGED fetchFailed
       ELSE load(query, TRUE)

\* setPage: Pagination.
setPage ==
    /\ Paged /\ shownRows.query = wanted
    /\ turnTo([wanted EXCEPT !.at = 3 - @])
    /\ UNCHANGED typed /\ resting

\* setFilters, the report's type, the log's date: at once, on the first page.
setFilters ==
    /\ view.filter
    /\ LET query == [at |-> 1, filter |-> ~wanted.filter, search |-> wanted.search] IN
       turnTo(IF view.search = "submitted" THEN [query EXCEPT !.search = typed] ELSE query)
    /\ UNCHANGED typed /\ resting

\* setSearch: the box changes at once, and a list goes to its first page.
setSearch ==
    /\ view.search # "none" /\ typed' = ~typed
    /\ IF view.kind = "list" /\ wanted.at # 1 THEN turnTo([wanted EXCEPT !.at = 1])
       ELSE /\ moves < MaxMoves /\ moves' = moves + 1
            /\ UNCHANGED <<wanted, fetches, loading, fetchFailed>>
    /\ resting

\* useDebounce, some time after the last change.
debounce ==
    /\ view.search = "debounced" /\ wanted.search # typed
    /\ wanted' = [wanted EXCEPT !.search = typed, !.at = IF view.kind = "log" THEN 1 ELSE @]
    /\ load(wanted', TRUE)
    /\ UNCHANGED <<typed, moves>> /\ resting

\* handleSearch and handleUpdateStay put the form into the URL; runReport reads it.
submitQuery ==
    /\ view.search = "submitted" /\ (view.kind = "reports" => ~loading)
    /\ wanted.search # typed
    /\ wanted' = [wanted EXCEPT !.search = typed]
    /\ load(wanted', TRUE)
    /\ UNCHANGED <<typed, moves>> /\ resting

\* The server reads for a fetch: others have written what they like.
read(x) ==
    /\ x \in fetches /\ ~x.read
    /\ \E row \in RowStatuses :
         fetches' = (fetches \ {x}) \cup {[x EXCEPT !.read = TRUE, !.seen = landed, !.row = row]}
    /\ UNCHANGED <<wanted, typed, loading, fetchFailed, moves>> /\ resting

answered(x) ==
    /\ x \in fetches /\ x.read
    /\ fetches' = fetches \ {x}
    /\ shownRows' = [query |-> x.query, seen |-> x.seen, row |-> x.row]
    /\ overtakenFetch' = ~x.newest
    /\ loading' = FALSE /\ fetchFailed' = (KeepsError /\ fetchFailed)
    /\ UNCHANGED <<view, wanted, typed, dialog, busyWith, writes, landed, told, moves>>

\* The old rows stay, except in the log.
fetchErred(x) ==
    /\ x \in fetches
    /\ fetches' = fetches \ {x} /\ loading' = FALSE /\ fetchFailed' = TRUE
    /\ shownRows' = IF view.kind = "log" THEN [shownRows EXCEPT !.row = "none"] ELSE shownRows
    /\ UNCHANGED <<view, wanted, typed, overtakenFetch, dialog, busyWith, writes, landed, told, moves>>

-----------------------------------------------------------------------------
\* Writing

\* A table shows no rows while it loads, a detail page nothing at all, nor when failed.
Offered(w) ==
    \/ shownRows.row \in w.on /\ ~loading /\ ~(KeepsError /\ fetchFailed)
    \/ "new" \in w.on /\ (Paged \/ view.kind = "plans" \/ (~loading /\ ~(KeepsError /\ fetchFailed)))

Disabled(w) ==
    CASE w.flag = "none" -> FALSE
      [] w.flag = "row" -> busyWith # {}
      [] OTHER -> w.op \in busyWith

openDialog(w) ==
    /\ w.asks /\ Offered(w) /\ dialog = "none" /\ moves < MaxMoves
    /\ dialog' = w.op
    /\ UNCHANGED <<view, wanted, typed, fetches, shownRows, loading, fetchFailed, overtakenFetch,
                   busyWith, writes, landed, told, moves>>

\* Cancel, Escape or the backdrop, also while the call is under way.
closeDialog ==
    /\ dialog # "none" /\ dialog' = "none"
    /\ UNCHANGED <<view, wanted, typed, fetches, shownRows, loading, fetchFailed, overtakenFetch,
                   busyWith, writes, landed, told, moves>>

\* The button, or the dialog's: callAction with what the page shows.
submitWrite(w) ==
    /\ IF w.asks THEN dialog = w.op ELSE dialog = "none" /\ Offered(w)
    /\ ~Disabled(w) /\ moves < MaxMoves /\ moves' = moves + 1
    /\ writes' = writes \cup {[id |-> moves', op |-> w.op, query |-> wanted, landed |-> FALSE]}
    /\ busyWith' = CASE w.flag = "none" -> busyWith
                     [] w.flag = "turn" -> {w.op}
                     [] OTHER -> busyWith \cup {w.op}
    /\ UNCHANGED <<view, wanted, typed, fetches, shownRows, loading, fetchFailed, overtakenFetch,
                   dialog, landed, told>>

\* The server carries it out.
land(c) ==
    /\ c \in writes /\ ~c.landed
    /\ writes' = (writes \ {c}) \cup {[c EXCEPT !.landed = TRUE]}
    /\ landed' = landed \cup {c.id}
    /\ UNCHANGED <<view, wanted, typed, fetches, shownRows, loading, fetchFailed, overtakenFetch,
                   dialog, busyWith, told, moves>>

released(c) ==
    LET w == CHOOSE w \in view.does : w.op = c.op IN
    IF w.flag = "turn" THEN {} ELSE busyWith \ {c.op}

\* list.reload() fetches for the query of the moment; loadAll of RatePlanList for
\* the filter of the render in which the button was pressed.
reloadAfter(c) ==
    IF view.kind = "plans" THEN load(c.query, c.query = wanted) ELSE load(wanted, TRUE)

\* Its answer closes the dialog that is open and fetches again.
wrote(c) ==
    /\ c \in writes /\ c.landed
    /\ writes' = writes \ {c} /\ told' = told \cup {c.id}
    /\ busyWith' = released(c)
    /\ dialog' = IF (CHOOSE w \in view.does : w.op = c.op).asks THEN "none" ELSE dialog
    /\ reloadAfter(c)
    /\ UNCHANGED <<view, wanted, typed, shownRows, overtakenFetch, landed, moves>>

\* It is refused, or fails, before or after the server carried it out.
writeFailed(c) ==
    /\ c \in writes
    /\ writes' = writes \ {c} /\ busyWith' = released(c)
    /\ UNCHANGED <<view, wanted, typed, fetches, shownRows, loading, fetchFailed, overtakenFetch,
                   dialog, landed, told, moves>>

PagesNext ==
    \/ setPage \/ setFilters \/ setSearch \/ debounce \/ submitQuery
    \/ \E x \in fetches : read(x) \/ answered(x) \/ fetchErred(x)
    \/ \E w \in view.does : openDialog(w) \/ submitWrite(w)
    \/ closeDialog
    \/ \E c \in writes : land(c) \/ wrote(c) \/ writeFailed(c)

PagesSpec == PagesInit /\ [][PagesNext]_pagesVars

-----------------------------------------------------------------------------
\* Properties

\* When a page has stopped loading without an error, it shows the answer to what
\* the user asked for last, with each of the page's own writes in it, whatever
\* the order in which fetches and writes were answered, unless the last answer
\* was of an overtaken fetch, which the pages without a cancelled flag show.
\* And a write with a flag of its own is not under way twice.
PagesCurrent ==
    /\ ~loading /\ ~fetchFailed /\ ~overtakenFetch => shownRows.query = wanted /\ told \subseteq shownRows.seen
    /\ overtakenFetch => ~CancelsOlder
    /\ \A c, d \in writes : c.op = d.op /\ c.id # d.id =>
         (CHOOSE w \in view.does : w.op = c.op).flag \in {"none", "turn"}
=============================================================================

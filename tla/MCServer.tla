------------------------------- MODULE MCServer -------------------------------
(***************************************************************************)
(* The components of the server that share no state, side by side: each    *)
(* behaviour is one of one component (part), while the others rest.        *)
(***************************************************************************)
EXTENDS SequentialNumbers, RoomInventory, BackOffice, Accounts, Catalogue,
        RateLimit, Invoices, Settings, Seeding, Tables, MCStayPrice,
        Checkout, Pages, EditForms, WebSession, Reports

CONSTANTS o3, i1, r1, h1, w1, t1, p1, p2

VARIABLE part    \* the component that this behaviour is of

Parts == {"numbers", "rooms", "office", "trips", "sessions", "admins",
          "tours", "days", "services", "rates", "limits", "invoices", "downloads",
          "settings", "seeds", "tables", "prices", "checkout", "pages", "forms",
          "web", "stays", "revenue", "tour sales", "paging"}

StayRooms == [i \in InvBookings |-> IF i = i1 THEN InvRooms ELSE {r1}]

\* Tables of rates with no settings, settings with one table.
OneOfBoth == roomRates = StandardRates \/ policy = UnsetPolicy

MCInit ==
    /\ part \in Parts
    /\ Init /\ OfficeInit /\ AccountsInit /\ CatalogueInit
    /\ RateInit /\ InvoicesInit /\ SettingsInit /\ SeedInit
    /\ IF part = "tables" THEN TablesInit ELSE there = {} /\ unset = {} /\ asked = {}
    /\ StayPriceInit /\ OneOfBoth /\ (part # "prices" => roomRates = StandardRates /\ policy = UnsetPolicy)
    /\ CheckoutInit /\ WebInit /\ ReportsInit
    /\ PagesInit /\ (part # "pages" => view = Dashboard)
    /\ EditFormsInit /\ (part # "forms" => form = RoomForm /\ editing /\ dbRecord = OldRecord("old", "old"))
    /\ InventoryInit /\ (\A r \in InvRooms : part # "rooms" \/ r = r1 => roomState[r] = "available")

\* The components other than that of part.
Others(component) ==
    /\ UNCHANGED part
    /\ IF component = "numbers" THEN TRUE ELSE UNCHANGED vars
    /\ IF component = "rooms" THEN TRUE ELSE UNCHANGED inventoryVars
    /\ IF component = "office" THEN TRUE ELSE UNCHANGED officeVars
    /\ IF component = "accounts" THEN TRUE ELSE UNCHANGED accountVars
    /\ IF component = "catalogue" THEN TRUE ELSE UNCHANGED catalogueVars
    /\ IF component = "limits" THEN TRUE ELSE UNCHANGED rateVars
    /\ IF component = "invoices" THEN TRUE ELSE UNCHANGED invoiceVars
    /\ IF component = "settings" THEN TRUE ELSE UNCHANGED settingsVars
    /\ IF component = "seeds" THEN TRUE ELSE UNCHANGED seedVars
    /\ IF component = "tables" THEN TRUE ELSE UNCHANGED tableVars
    /\ IF component = "prices" THEN TRUE ELSE UNCHANGED stayPriceVars
    /\ IF component = "checkout" THEN TRUE ELSE UNCHANGED checkoutVars
    /\ IF component = "pages" THEN TRUE ELSE UNCHANGED pagesVars
    /\ IF component = "forms" THEN TRUE ELSE UNCHANGED formVars
    /\ IF component = "web" THEN TRUE ELSE UNCHANGED webVars
    /\ IF component = "reports" THEN TRUE ELSE UNCHANGED reportVars

\* Tours move and come and go while their length stays, and the reverse.
OneDay == \A t \in Packages : tour[t].days = 1 /\ itinerary[t] = {}
NoDaysAsked == \A s \in Staff : job[s].until = Unset /\ job[s].days = {}
NoMoves == \A s \in Staff : job[s].from = Unset /\ job[s].op # "deletePlace"
FirstPlace == \A t \in Packages : tour[t].at = NoTour.at

\* Payments of stays that are all alike, and stays without payments.
AlikeStays ==
    \A b \in BookingsMade : bookingOf[b].arrives = b /\ bookingOf[b].hotel = h1 /\ bookingOf[b].customer = w1 /\ ~bookingOf[b].cancelled
FirstDay == moment < 2
NoneWithdrawn == withdrawn = {}

\* Others change the text of a record only.
TheirText == \A f \in Fields : dbRecord[f] = "theirs" => f = "text"

ToursTo == [t \in ReportTours |-> IF t = t1 THEN p1 ELSE p2]

MCNext ==
    \/ part = "numbers" /\ Next /\ Others("numbers")
    \/ part = "rooms" /\ InventoryNext /\ Others("rooms")
    \/ part = "office" /\ (CommissionNext \/ TourNext) /\ Others("office")
    \/ part = "trips" /\ TripNext /\ task'[o3].at = "start" /\ Others("office")
    \/ part = "sessions" /\ AuthNext /\ Others("accounts")
    \/ part = "admins" /\ AdminNext /\ Others("accounts")
    \/ part = "tours" /\ ToursNext /\ OneDay' /\ NoDaysAsked' /\ Others("catalogue")
    \/ part = "days" /\ ToursNext /\ FirstPlace' /\ NoMoves' /\ Others("catalogue")
    \/ part = "services" /\ ServicesNext /\ Others("catalogue")
    \/ part = "rates" /\ RatesNext /\ Others("catalogue")
    \/ part = "limits" /\ RateNext /\ Others("limits")
    \/ part = "invoices" /\ MakersNext /\ Others("invoices")
    \/ part = "downloads" /\ DownloadsNext /\ Others("invoices")
    \/ part = "settings" /\ SettingsNext /\ Others("settings")
    \/ part = "seeds" /\ SeedNext /\ Others("seeds")
    \/ part = "tables" /\ TablesNext /\ Others("tables")
    \/ part = "prices" /\ StayPriceNext /\ Others("prices")
    \/ part = "checkout" /\ CheckoutNext /\ Others("checkout")
    \/ part = "pages" /\ PagesNext /\ Others("pages")
    \/ part = "forms" /\ EditFormsNext /\ TheirText' /\ Others("forms")
    \/ part = "web" /\ WebNext /\ Others("web")
    \/ part = "stays" /\ HotelBooksNext /\ FirstDay' /\ UNCHANGED <<paymentOf, pagerVars>> /\ Others("reports")
    \/ part = "revenue" /\ HotelBooksNext /\ AlikeStays' /\ NoneWithdrawn' /\ UNCHANGED pagerVars /\ Others("reports")
    \/ part = "tour sales" /\ TourBooksNext /\ UNCHANGED pagerVars /\ Others("reports")
    \/ part = "paging" /\ PagerNext /\ UNCHANGED booksVars /\ Others("reports")

serverVars == <<part, vars, inventoryVars, officeVars, accountVars,
                catalogueVars, rateVars, invoiceVars, settingsVars, seedVars,
                tableVars, stayPriceVars, checkoutVars, pagesVars, formVars, webVars,
                reportVars>>

MCSpec == MCInit /\ [][MCNext]_serverVars
=============================================================================

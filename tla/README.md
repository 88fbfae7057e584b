# Verification of the travel-booking application

TLA+ models of `nextapp/`: the services, jobs and helpers of the server, the
database rows they share, and the pages of the browser that call them; TLC
configurations that check the models on small instances; and proofs that TLAPS
checks for every value of the constants.  Paths below are relative to
`nextapp/src/server/` unless they start with `documentation/`, `views/`, `lib/`
or another directory of `nextapp/src/`.

## The system

One Next.js process (several, if deployed so) serves the pages and the API.
Route handlers and server actions validate the input and call one service
function each; services read and write PostgreSQL through one connection pool,
at the isolation level read committed.  Nothing else is shared between requests:
the interesting state is in the database rows, in PostgreSQL's advisory and row
locks, in the pool, at the payment providers, and in the browser's cookies,
storage and component state.

| Component | State | Operations | Hard behaviour | What makes it correct |
|---|---|---|---|---|
| Hotel bookings (`services/bookingService.js`) | bookings, their rooms, status history, room statuses | create, confirm, cancel, check in, check out | transactions interleave statement by statement; a status is read, then written unconditionally | no room is held twice for a night; a booking has all its rooms; nobody is refused rooms that stayed free; stages follow each other |
| Hold expiry (`jobs/holdExpiryJob.js`) | the bookings found expired | scan, re-read, cancel | overlaps with confirmations and with itself; sweeps may fail | every expired hold is released |
| Numbers (`utils/bookingNumber.js`) | the rows of the year, an advisory lock | draw a number | concurrent draws, rollbacks, New Year | numbers are unique and consecutive |
| Connections (`lib/DrizzleClient.js`) | connections in use, waiting requests | connect, release | a booking waits for a second connection while holding one and its locks | no standstill |
| Payments, refunds, gateways | payment and refund rows, paid and due amounts, the provider's orders | pay, refund, complete an order | gateway call between read and write; answer lost; crash | amounts agree with the rows; only covered bookings are confirmed; no refund beyond the payment |
| Rooms (`services/roomService.js`) | room status, soft delete | update, delete | blocking bookings checked before the write | no booked room goes out of service |
| Pricing, cancellation policy | rates, settings | quote, price, fee | boundaries of rate windows, settings that are 0, edits in between | what was shown is what is booked; fee and refund add up |
| Commissions, tours, transport | statuses, assignments, fleet | create, change, cancel | check, then write | final statuses are final; a trip gets what is bookable |
| Catalogue (destinations, tours, services, rates) | rows and their children | create, update, delete | look, then write | what was looked at still holds |
| Sets of rows (roles, permissions, amenities, days) | child rows of one parent | replace, assign, remove | delete and insert under row locks | never empty unless asked; one whole set in the end |
| Accounts (`services/authService.js`, `userService.js`) | one refresh hash per user, reset links, roles | login, refresh, logout, reset, update, delete | waits for bcrypt between read and write | an ended session stays ended; the Super Admin stays |
| Settings | rows per agency and key | save, read | an index that takes nulls as different | an agency sees what it saved; bookings follow it |
| Invoices | invoices, the PDF's file and URL | generate, download | snapshot before the transaction; downloads share a file | amounts are the booking's; nothing is left behind |
| Rate limits, reports, seeds, schema | buckets; sums over rows; demo rows; foreign keys | count; group; insert; delete | windows, ranges and pages at their ends; crashes | see the properties below |
| Checkout, lists, forms, session | draft, page state, cookies, bearer tokens | submit, retry, fetch, edit, sign in and out | lost answers, answers out of order, several tabs | a selection is booked and charged once; a page shows what was asked for last; a tab acts as the user it shows |

`PROJECT.json` lists every component with its status and the hazards with their
lines.

Interactions: createBooking draws its number inside its transaction and reads
the settings through the pool; payments confirm bookings; refunds change the
booking's amounts; the sweeper competes with confirmations; check-in and
check-out write the room statuses that createBooking reads; invoices and reports
copy and add up amounts of bookings and payments; the checkout calls
createBooking and the charge one after the other; the middleware renews sessions
with the same refresh hash that logouts clear.

## The modules

### BookingService (with RoomCalendar, BookingServiceProofs, CountingLemmas, MCBookingService)

`createBooking` is a process per call, with one action per statement whose
effect another transaction can see or be seen by:

| Action | Code (`services/bookingService.js`) |
|---|---|
| `lockRoomsAndTypes` | one advisory lock of the sorted keys, waiting while it is taken |
| `assertRoomsAvailable` | the overlap check of explicitly named rooms |
| `selectCandidates`, `findOverlaps` | `resolveRoomSelections`: for one wanted type after the other, the query for its rooms and the query for their overlapping bookings |
| `pickRooms` | the rest of `resolveRoomSelections`: with all the answers there, the picks or the refusal |
| `loadRooms` | the rooms again, the "same room twice" check |
| `generateBookingNumber` | the lock of the number |
| `insertBooking` | inserts and commit: the booking becomes visible, the locks go |
| `rollback` | any statement fails |
| `readBooking`, `transitionStatus` | confirm, cancel, check-in and check-out: the read with its status check, and the unconditional write and commit |
| `scanExpired`, `rereadHold`, `transitionStatus` | a sweep: its scan, then per booking a re-read and the write |
| `abandon`, `holdExpires` | a life-cycle transaction or sweep fails; a hold's time passes |

Reads are of committed rows at the time of the statement, as under read
committed.  A booking carries its call's name.  `history` is the
booking_status_history table.  Prices, guests, services and the commission are
data of the insert and are left out.  Room and type keys are integers, rooms
first: only the order of the sort matters.

A refusal rests on queries that others may have overtaken: a cancellation or a
check-out that commits after the overlap query leaves a room free that the call
does not see.  What a caller can hold against the code is therefore
`RefusedMeansUnsatisfiable`: the request could not be met from the rooms that were
usable in *every* state since the call's locks were complete.  `steady`, which no
action reads, keeps those rooms (`Watch`).

`RoomCalendar` is what bookings promise: a calendar in which a booking claims
all its rooms for its stay in one step, at most once, and only where no claim
that stands in the way was made under one of its own lock keys; gives them back
together; and may be put back as it was.  A booking that was put back is in
nobody's way: the code has lost its exclusivity.  `ImplementsCalendar` is the
refinement.

The two limits of what the locks do are in the statements and not in assumptions.
A request for a room and one for its type have no key in common, and a life-cycle
call can write a released booking back: `AdmissionIsExclusive` says that two
bookings clash in no other way, and `ImplementsCalendar` that the calendar loses
nothing else.  Both are checked and proved for every kind of request and every
life-cycle call; the runs `mixed` and `revived` show what each of the two does to
the documentation's unconditional claim, `NoDoubleBooking`.

### SequentialNumbers (with DatabaseProofs, MCSequentialNumbers)

One namespace of `generateSequentialNumber`: begin of the transaction
(created_at), the call (the year of the number), the advisory lock of that year,
the count, the insert under the unique index or its refusal, rollback at any
point, and a clock that moves from year to year.  A call models any of
createBooking, createTourBooking and generateInvoiceForBooking.  The other
namespaces have their own lock and table.

### BookingPool (with MCBookingPool)

The same createBooking seen from the pool: a booking waits for a connection,
takes its keys in order, asks for a second connection for `getSettings()`, gives
it back, takes the number's lock, commits.  Other requests use one connection
and wait for nothing.  The pool is external (`pg.Pool`): first come, first
served, no time limit on waiting, which is what the code configures.

### PaymentLedger (with PaymentLedgerProofs, MCPaymentLedger)

One booking with any number of recordPayment and refundPayment calls.

| Action | Code |
|---|---|
| `findBooking` | `recordPayment`: the read and the status check |
| `decline`, `chargeCard`, `replay`, `capture`, `verify` | the provider's `charge`: money moves or not, and the answer arrives or not; a key that is sent again gets the first answer and moves nothing |
| `recordPayment` | the transaction: payment row, paid and due from the values read before |
| `checkConfirm`, `confirmBooking` | `confirmBookingAfterPayment`: its read and its write |
| `findPayment`, `sumRefunds`, `refundPayment` | `refundPayment`: its two reads and its transaction |
| `approve` | the payer on the provider's page; Nagad takes the money there |
| `sweep`, `staffConfirm`, `cancelBooking` | the rest of the life cycle, each in one step (BookingService has the steps) |
| `crash` | the process stops under a call |

A payment call completes an order or charges a card; the call that creates an
order moves no money and is the same as a decline, so orders start open.  Each call
states an amount of its own, which is what its payment row gets; a provider that
completes an order takes the order's money, whatever the call states, and nothing
compares the two.  A charge may carry an idempotency key.  Amounts are
integers (cents).  `recorded`, `returned`, `fresh` and `stale` are history
variables: the money of the paid rows and of the refund rows, which calls'
reads no other call has overwritten, and whether a call wrote from a read that
was overwritten.  `stale` says exactly when the code's read-then-write loses
something; the properties that need it name it.  `RecordedWasTaken` names the two
ways in which rows come to say more than the gateways took: two answered calls that
share one charge (`ShareACharge`: a key sent again, a verification repeated), and a
completing call that states more than its order's money (`Overstates`).

`MCPaymentLedger` runs the ledger in rounds: two payments of parts with two refunds
of the first; an order completed by two calls beside a payment that overpays, with a
refund; three calls with one key, of which one states another amount; and a
completion that states twice the order's money beside a card payment.

### RoomInventory (with HotelProofs)

`updateRoom`/`deleteRoom` (the read), `assertNoBlockingBookings` (the look) and
`writeRoom` (the write by id) of `services/roomService.js`, beside bookings that
read their rooms (`loadRooms`), become visible (`insertBooking`) and change status
by a read (`readBooking`) and a write (`transitionStatus`), with the room statuses
that check-in and check-out write.  `raced` says when a staff call wrote, or a
booking began to block, on a read that the other had overtaken: `BookedInService`
holds until then.

### BackOffice (with BackOfficeProofs)

Rows whose status is read, checked and then written by id: `readCommission` and
`updateCommissionStatus`, `readTourBooking` and `cancelTourBooking`, and for trips
`createTrip`, `updateTrip`, `cancelTrip`, the reads of the vehicle
(`assertVehicleBookable`) and the driver (`assertDriverBookable`), and `writeTrip`.
`setVehicle` and `setDriver` change the fleet meanwhile and look at no trip.
`unsure` and `strayed` are the calls whose row, or whose vehicle or driver, changed
since their read; `overwrote` the rows such a call wrote.

### Accounts (with AccountsProofs)

`authService.js` and `userService.js`, the read and the write of each flow apart:
login and refresh (`login`, `refreshTokens`, `issueTokenPair`), `logout`,
`changePassword`, reset links (`requestPasswordReset`, `resetPassword`,
`resetWrite`), `updateUser` with its roles, `deleteUser`.  The refresh hash is
present or absent: bcrypt reads 72 bytes, which the refresh tokens of one user
have in common, so that any of them matches any hash of that user.

### Catalogue (with BackOfficeProofs)

The look and the write of deletions and updates of destinations, tour packages,
itinerary days, extra services and rates.  A call keeps what it read in `job`;
`stale` has the calls that another write overtook, `spoiled` what such calls wrote.

### ReplaceChildren (with DatabaseProofs)

The transaction that deletes a parent's rows and inserts others, and the single
assignments and removals, under PostgreSQL's rules at read committed: a DELETE
sees the rows of its beginning and waits for whoever deleted one of them
(`deleteRow`), an INSERT waits for whoever wrote the same key (`insertChild`), a
standstill is found and one call fails (`deadlockDetected`).  Locks and rollback
are external: PostgreSQL, as the code uses it.

### Invoices (with DatabaseProofs)

`readBookingAmounts` and `insertInvoice` beside payments and refunds; downloads
that write the file and its URL (`getInvoicePdf`, `updatePdfUrl`), check the owner
(`assertOwnsInvoice`) and remove both (`unlink`, `clearPdfUrl`) in the route's
order, or break off (`downloadFails`).

### StayPrice (with HotelProofs, MCStayPrice)

The price of each night (`pickRateForNight`, `calculateRoomStayPrice`), the
search's quote, the selection and estimate in the browser, createBooking's
statements that price one room each (`priceRoom`), the booking's amounts, a
payment, the cancellation (`feePercent`, `cancellationFee`, `refundableAmount`)
and the invoice's items, while staff edit rates.  Amounts are cents; `Rounded` is
roundCurrency.  No validator bounds the settings, so that percentages may be
negative or above 100, and rates may tie; where they tie and charge extra guests
differently (`Tied`), which one a night is sold at is up to the database, for each
room of a booking anew.

### Settings, RateLimit, Seeding, Tables, Reports

Their proofs are in DatabaseProofs (Settings, Seeding, Tables), AccountsProofs
(RateLimit) and BackOfficeProofs (Reports).

* Settings: one key, the rows of each agency and of none; `setSetting` as the
  upsert that never conflicts without an agency, `getSettings` as a merge in any
  order of the rows, and the policy that bookings read without an agency.
* RateLimit: the buckets of one limiter with their fixed windows, a clock and
  restarts.  `admitted` is the history: for each client the times of what was let
  in, as a sequence.
* Seeding: `findOrCreate` select by select, the rows that belong to a row, a
  role's permissions deleted and granted again; scripts stop anywhere, are run
  again, and run side by side.
* Tables: every foreign key of `db/schema.js` with its rule for deletions, every
  relation of `db/relations.js`, and the deletions that services make, or staff by
  hand.  One row per table.
* Reports: the reports and the dashboard's figures as operators over bookings,
  payments, refunds and tour bookings, with half-days as the instants, and a reader
  who turns the pages of a report while rows are added.  Hotels, customers, tour
  packages and destinations are deleted while their bookings stay: the reports
  leave the deleted ones out and the dashboard's top lists do not, but stop after
  five rows (`ListLimit`).  The occupancy report is left out: it divides by
  `room_types.total_rooms`, a number that staff enter and nothing ties to the rooms.

### Checkout, Pages, EditForms, WebSession (with WebProofs)

* Checkout: the draft in sessionStorage, submit, charge and retry with lost
  answers, leaving, reloading and coming back, the time between router.push and
  the end of the navigation, expired holds and late approvals.
* Pages: thirty-two pages, each described by how it fetches and what it writes,
  over one set of actions: fetches answered in any order, the cancelled flag of
  `useResourceList` (`supersede`), debounced searches, dialogs, the flags that
  disable buttons, and writes of others.
* EditForms: nine forms over one set of actions: load, edit, validate, save the
  record, save the rows that go with it, other editors, failures in between.  What a
  form does to a value that nobody touched is part of it: NULL is shown, and saved, as
  `''`; the settings page shows and saves the default of a key that is not stored;
  the tour form sends the agency's currency over the package's.
* WebSession: the cookies that tabs share with their lifetimes, the middleware's
  renewal and its failure, which leads to the login page, the page's session, each
  tab's user and bearer token, sign-in and sign-out with lost answers.  Time jumps to the instants at which something
  expires.

## The runs

Components that share no state are checked in one run, one at a time: each
behaviour is of one *part*, chosen in the initial state, while the other parts
rest.  That adds their states instead of multiplying them, and loses nothing,
for no action of one part reads or writes a variable of another.

| Run | Shows | Bounds |
|---|---|---|
| `bookings` | no double booking, whole bookings, no spurious refusal, every call ends | two rounds (MCBookings): three callers who ask for types, with stays that touch, overlap and differ; and two who name one or two rooms in both orders, or a room and a type, beside two cancel or check-out calls and a sweeper |
| `lifecycle` | exclusive admissions, stages, expired holds, and the refinement of RoomCalendar | two bookings of one room, each by its type or by its number, two staff calls of any kind, two sweepers whose sweeps overlap |
| `progress` | payments, refunds and orders; the pool; replacements of rows (MCProgress, three parts) | the four rounds above of a price of 3; three bookings with crossing keys and two other requests on four connections; three writers with two orders of the same rows or none |
| `server` | the rest (MCServer, 25 parts) | below |
| `mixed`, `revived`, `new_year`, `pool_full`, `refunds_race`, `settings_policy`, `quote`, `session` | a claim of the documentation or of a comment that the code does not keep; PROJECT.json quotes each | the smallest instance |

The parts of `server`:

| Parts | Properties | Bounds |
|---|---|---|
| numbers | `SeriesIntact` | three creations, two years |
| rooms | `BookedInService` | two rooms, two bookings of both and of one, one staff call of any room and status |
| office, trips | `StatusesSound`, `GivenBookable` | a commission and a tour with three calls; a trip, two vehicles and a driver with two calls |
| sessions, admins | `EndedUntilLogin`, `LinkUsedOnce`, `SuperAdminPermanent` | two users, two links, three requests |
| tours, days, services, rates | `CatalogueConsistent`, `DeletedWithoutTours` | two destinations and a tour; up to two days; a service and a booking; a rate over three dates; two calls |
| limits | `LimitsFair` | windows of two ticks and two requests, a clock of six ticks |
| invoices, downloads | `InvoiceAsBooking`, `NothingLeftBehind` | two invoice calls with any payments and refunds of a price of 2; three downloads |
| settings | `AgencySeesItsOwn` | two agencies and none, two values, three saves |
| seeds | `SeedingSound` | two scripts that may be run again, four items of the three kinds |
| tables | `RecordsKept` | every table, two deletions |
| prices | `PricesAgree`, `CancellationGraded` | four tables of rates (overlap, a dearer plan, a tie with other surcharges, a hole) with no settings, and five settings (unset, with 0, a full charge from before the free days on, percentages above 100 or below 0) with one table; two stays, staff requests, four times of cancellation, one edit |
| checkout | `CheckoutSound` | a selection, two bookings, two charges |
| pages, forms | `PagesCurrent`, `UntouchedKept` | every page with two changes of what is asked for; every form with two saves |
| web | `CallsAsShown` | two people, two tabs, tokens that expire before and with their cookies |
| stays, revenue, tour sales, paging | `ReportsSound` | two bookings of two hotels and two customers, any of which may be deleted, on two days with payments and refunds; two tour bookings of two packages to two destinations, which are shelved and deleted; top lists of one row; four rows on pages of two |

Why the bounds are enough: the hazards are of a read that another write overtakes,
so that two calls show them, and the third call is the one that could be caught
between them (the booking that takes the room a sweep released, the number after
a straddling one, the download that finds a file another has left).  Deadlock on
sorted locks needs two keys and two callers, and with the pool a third that holds
the connection they wait for.  Stays that only touch, rates that end where another
begins, ranges that cut a stay and windows that end between two requests are in
the instances, so that an off-by-one shows.  Every property of a passing run is
broken by a listed mutant of the code it speaks of, under the same bounds.

Deadlock checking is off where the system may stop: all calls have ended.

### What the code does, and no property forbids

The properties name their exceptions with history variables (`stale`, `raced`,
`overwrote`, `excused`, ...).  Each is reached in the runs and is behaviour of the
code that a reader should know:

* The sweeper re-reads a hold without locking it: a confirmation that commits
  before the sweeper's write is overwritten (documentation/booking-flow.md 5c
  expects the re-read to avoid this).  It looks at the status alone and cancels a
  booking whose payment is recorded and not yet confirmed.
* Check-out sets the booking's rooms available whatever they are by then, also a
  room put into maintenance; cancelling a checked-in booking leaves its rooms
  occupied; two guests can be checked into one room when a stay ends late.
* A charge whose answer is lost is recorded as failed although the money was taken.
  A payment row has the amount its caller states, also when the order was of less,
  and a key that is sent again gives a second row for one charge.
* A call can be refused a room that another call's cancellation has just freed, since
  it had read the bookings before.
* Of rates with one priority and one price the database's order decides, and with
  extra guests two rooms of one booking may then differ (the comment at
  `services/pricingService.js:22-23` has the most recently created rate win; the code
  sorts by price).  Nothing keeps the percentages of the settings between 0 and 100.
* A booking holds two connections while it reads the settings
  (`lib/DrizzleClient.js` counts one).
* A room can go out of service, a status be overwritten, a session come back after
  a logout, an invoice miss a payment, when another call writes between a read and
  its write.
* Seeding that stops between a row and its children leaves it bare for ever.
* The itinerary is fetched from a path that no route serves
  (`services/tourService.js`): a save of the form with its one empty day replaces
  the stored days.  A form whose load failed shows empty fields and saves them.
  Saving a form turns NULLs that nobody touched into `''`, and a package's currency
  into the agency's.
* A payment that is refunded in part has another status than paid and vanishes from
  the revenue with the part that was kept; a range's last day ends at the midnight
  that begins it; deleted hotels, customers and destinations vanish from the reports
  with their bookings and stay in the dashboard's top lists.
* A lost answer of the checkout, a reload or a press between the payment and the
  end of the navigation books or charges again.

## Fairness

Weak fairness of a call's next step: Node runs a request it has begun and
PostgreSQL answers the statements it was sent.  Nothing says that a user's call
ever starts, that a hold expires or that a clock moves.  Waiting for an advisory
lock needs only weak fairness where the lock is never stolen in turn by the same
callers again: each call takes a lock once.  The sweeper's timer fires again and
again; that a sweep which keeps failing still succeeds in the end is the assumption
of `ExpiredHoldsReleased`.  The pool serves its queue.  The run `progress` assumes
less than its modules could: as long as some call that has begun can go on, one of
them does.  That is enough for what it shows, because each call has finitely many
steps.

## What is proved

All proofs are for every value of the constants that satisfies the named
assumptions of the modules.  Every safety invariant and action property that a
passing run checks is a theorem, and so is the refinement of RoomCalendar, but for
`NoDoubleBooking`: the run `bookings` has it of requests that share a key and of
calls that only release, and `AdmissionExclusive` is what is true of all.  The
five liveness properties are model-checked only.  The proofs are in one module per
group of components, with the lemmas about counting in `CountingLemmas`.

BookingServiceProofs, about BookingService:

* `TypeCorrect`, `AdmissionExclusive`, `ImplementsRoomCalendar`.
  The inductive invariant says of every call between its lock phase and its commit
  that it owns every key of its request, and of every room it was offered or has
  picked that no blocking booking made under a common key holds it on a night of the
  stay, one that was put back apart.  That is preserved by another call's insert,
  because a call that shares a key cannot be past its lock phase too.  What is
  assumed is what the constants are (`ConstantsAssumption`): requests for rooms and
  types may meet, and any life-cycle operations be in use.  For the refinement, a
  booking's history tells whether it was put back (`Revived`), and stays so.
* `BookingsWhole`.  A call has, of every type it has resolved, the rooms named one by
  one and as many others as its selections of the type: `SmallestCount` shows that
  the candidates with fewer than n smaller ones are n of them.  That a picked room
  still is of its type and usable needs that only check-in and check-out write rooms.
  Neither locks nor the kind of staff operations matter.
* `StagesStayInOrder`.  What a guard has read is in the booking's history, and a
  history only grows; hence the order holds although the write looks at nothing.
* `RefusalsJustified`, for finitely many rooms.  A room that was usable in every state
  since the locks were complete was among the candidates and free of overlaps whenever
  the two queries ran, so it is among the offered ones when the picks are made
  (`SteadyFound`); hence fewer offered rooms than selections means that
  the rooms which stayed usable were too few as well.

PaymentLedgerProofs, about PaymentLedger:

* `LedgerTypeCorrect`, `BookingWithinRecorded`, `ConfirmationsCovered`,
  `RecordedOrdersTaken`, `RefundsStayWithinPayment`.  One inductive invariant `IInv`:
  every read of the paid amount is within what is recorded (so stale writes are too);
  a paid row has a successful answer; a successful answer through an order means the
  order is taken and, unless it may be verified repeatedly, that no other call has
  one; and a fresh refund call in its transaction knows the sum it adds to.
* `AccountsStayExact`, `RecordedMoneyWasTaken`.  The module's amounts are history
  counters, and the properties speak of sums over rows.  `MoneyCounted` relates them:
  the money of the paid rows, of the refunds, of the successful cards, and of the
  orders and keys that were charged are sets of coins (a payment, order or key and the
  number of a coin below its amount), whose cardinalities are or bound the counters; a
  step adds one pile of coins.  While no two answered calls share a charge and none
  overstates its order, each paid row's coins are coins of its own charge
  (`CoinsWereTaken`).  The assumption is that amounts are positive, no more.

HotelProofs, about RoomInventory and StayPrice:

* `InventoryTypeCorrect`, `InventorySafe`.  `CheckHolds`: a staff call that is to take
  a room out, and was not overtaken, still finds no active booking of it.  A deletion
  always takes the room out.
* `PricesStayInAgreement`.  While no rate was edited since, the prices shown and the
  price of each room booked are prices of the stay under the rates of now.  A price is
  a function of the nights; `NightByNight` shows that the recursive function of the
  model exists and has one value for each night, whatever the number of nights.  Rates
  that tie differ at most in what extra guests cost (`PickedAlike`), so that a stay
  without extra guests has one price (`BaseIsOne`), and with them when no such rates
  tie (`AlikeIsOne`).
* `CancellationsStayGraded`.  The fee of a percentage is a rounded share, which grows
  with the percentage and is within the whole for one of at most 100 (`ShareRounds`);
  the tiers fall with the hours where the partial percentage is at most 100, and where
  it is more, both tiers take all that was paid.  Negative taxes, totals and
  percentages are admitted, as the validators admit them.

AccountsProofs, about Accounts and RateLimit:

* `SuperAdminStays`, `SessionsEnd`, `LinksAreUsedOnce`.  A request under way either read
  its user before the history's mark was set, and is listed as such, or saw what it
  decides on.
* `LimitsStayFair`.  For each client (`KeyFair`): the bucket counts what was let in since
  its window began, and any stretch as long as a window that began before has let in at
  most the limit until then.  A stretch meets two windows at most, hence twice the
  limit.  A restart begins with empty buckets and an empty history.

BackOfficeProofs, about BackOffice, Catalogue and Reports:

* `StatusesStaySound`, `TripsGivenBookable`.  A call that is sure of its row still may
  make its change; a call that did not stray still has the bookable vehicle and the
  active driver it checked.  That a paid commission was approved before needs neither:
  it follows from the statuses a row has had.
* `CatalogueStaysConsistent`, `PlacesGoWithoutTours`.  `LooksHold`: what a call that is
  not `stale` has looked at is still so.  Days about to be written fit their tour
  unless it was made shorter.
* `ReportsStaySound`.  Five facts of every state and one of the reader.  The rows'
  invariant `BooksInv` keeps statuses and refunds together, and times before now.  From
  it, by `SumByKey` (a sum is the sum of its sums by key), the totals by day, hotel,
  customer, destination and tour agree, the deleted ones' apart; by `SumPlus` revenue,
  refunds and what is left of partly refunded payments add up to what was taken; by
  `TopIsAsReport` a top list and a report of the same rows agree where both have a row.
  The reader (`PagerInv`): a row that was there at the beginning has been shown or is
  still below what has been read, for a row that comes in moves others down only; and a
  total counted with no row in between is the length of the list.

DatabaseProofs, about SequentialNumbers, Invoices, ReplaceChildren, Seeding, Settings
and Tables:

* `SeriesStaysIntact`.  The owner of a year's lock is the only call between lock and
  insert for that year, its sequence number is one more than the rows counted, and,
  while no row straddles, the rows counted are the rows numbered.
* `InvoicesShowBooking`, `DownloadsLeaveNothing`.  A call that no payment overtook holds
  the booking's amounts; while a file or its URL is there, a download is in hand that
  will remove it, or one ended without its clean-up.
* `ReplacementsLeaveAList`.  The invariant ranks the calls by when their INSERT began
  (`Ranked`; the ranks exist, no variable keeps them): what a call has settled of its
  list is there until a later one that has ended deleted it, since a DELETE that began
  later waits for the rows it sees and leaves those it does not see.
* `SeededWholeAndOnce`.  A script that is to insert a row had found none; each row of an
  item lacks the rows that belong to it only while a script is to insert them
  (`ParentsWhole`, by counting the scripts that are), and a role its permissions only
  while a script is to grant them.
* `AgenciesSeeTheirOwn`.  An agency's row is written by its own saves alone and has
  what it saved last (`RowsOfLast`), and the merge reads no other row of the key while
  none is without an agency.
* `RecordsAreKept`, `NothingIsLeftDangling`.  Both walk through the foreign keys of
  the schema, deletion by deletion; the second says that from a database in which
  every relation of `db/relations.js` finds its row no deletion leads to one in which
  a query loads nothing.

WebProofs, about WebSession, EditForms, Checkout and Pages:

* `TabsActAsShown`.  The two cookies are set and cleared together.  They are of the user
  that an uncrossed tab shows or of nobody, unless it shows nobody and the access token
  has expired, which stays so because time does not go back.  A bearer token is of the
  user that its tab shows.
* `FormsKeepUntouched`.  A field that was not touched holds what is shown of the value
  that was loaded, or is empty where its load failed (`blind`); the one exception, a NULL
  that the profile took over from an answer, is refused before it is sent
  (`NoNullsSent`).  After the one creation the form is on its way out,
  unless its user was misled by a failure of what follows.
* `CheckoutStaysSound`.  A selection has one call or one booking, a booking one charge
  under way, and a booking that the page can still charge has not been charged,
  except for the excused ones.
* `PagesStayCurrent`.  The newest fetch is of what is wanted now and reads what the page
  was told of its own writes; where a page cancels older fetches, no other is left.

CountingLemmas.  The library's induction theorems take an operator as a parameter,
which the provers cannot instantiate; the lemmas here go over a set of numbers instead
(`NumbersReachAll`, from the well-founded order of the naturals) or a set of subsets
(`SubsetsReachAll`).  The community modules' sum is a CHOOSE of a recursive function:
`SumsExist` shows that there is one, `SumTakes` that elements may be taken in any
order, and the rest that sums add up, by key, by part and over equal numbers.

Assumptions on constants are those of the modules (`ReportsAssumption`,
`StayPriceAssumption`, ...), which the runs evaluate: sets of callers, rooms or rows are
finite where something is counted, and a value that stands for "none" is not among
them.

Only model-checked: the liveness properties `EveryCallEnds`, `ExpiredHoldsReleased`,
`PaidInFullLeavesHold`, `PoolCallsEnd` and `ReplacementsEnd`, since fairness is out of
the prover's reach; and BookingPool, whose only property is `PoolCallsEnd`.

## What is not modelled, and the plan

Left out for good: e-mail and notifications (written after the transactions, with
errors caught), the audit and activity logs (append-only), uploads (file and
object-store I/O), the migrations, layout, date pickers and charts.  They change no
state the properties read.  The hotel and agent dashboards, the commissions report
and the filters by agent and method are the modelled queries with one more
condition.  Which permission each route asks for is data of the routes.  Creates
and updates of master data that are a single write of one row with no condition
are not actions of their own.

Next:

1. The composition of PaymentLedger with BookingService's steps (the sweeper and
   staff calls are single steps of the ledger now), as a refinement of the ledger's
   `sweep`, `staffConfirm` and `cancelBooking`.
2. The lemmas behind `PoolCallsEnd` that are not temporal: that no cycle of waiting
   calls exists while connections outnumber the bookings under way.
3. An abstract account (money in, money out) that PaymentLedger implements until a
   write is stale.

------------------------------- MODULE Invoices -------------------------------
(***************************************************************************)
(* The invoices of one booking, and the PDF of one of them.                *)
(*                                                                         *)
(* generateInvoiceForBooking reads the booking, and then inserts the       *)
(* amounts it read in a transaction of its own.  A download writes the PDF *)
(* to the disk, stores its URL, and after the check of the caller's        *)
(* ownership removes both again.  Downloads of one invoice share the file  *)
(* and the column.                                                         *)
(***************************************************************************)
EXTENDS Naturals

CONSTANTS
    Total,         \* the booking's total amount
    Makers,        \* generateInvoiceForBooking calls
    Downloads      \* GET /invoices/[id]/pdf calls

ASSUME InvoicesAssumption == Total \in Nat \ {0}

VARIABLES
    paid,         \* bookings.paid_amount; the rest is due
    maker,        \* each call: where it is and what it read
    invoice,      \* the invoice each call has inserted
    outrun,       \* history: calls with a payment or refund since their read
    onDisk, pdfUrl,       \* the PDF file is there; invoices.pdf_url is set
    download,     \* where each download is
    littered      \* history: a download has ended without its clean-up

makerVars == <<paid, maker, invoice, outrun>>
pdfVars == <<onDisk, pdfUrl, download, littered>>
invoiceVars == <<makerVars, pdfVars>>

NoInvoice == [paid |-> 0, due |-> 0, status |-> "none"]

InvoicesInit ==
    /\ paid = 0
    /\ maker = [m \in Makers |-> [at |-> "start", paid |-> 0]]
    /\ invoice = [m \in Makers |-> NoInvoice]
    /\ outrun = {}
    /\ onDisk = FALSE /\ pdfUrl = FALSE
    /\ download = [d \in Downloads |-> "start"]
    /\ littered = FALSE

-----------------------------------------------------------------------------
\* recordPayment and processRefund, as far as the booking's amounts go.
paidBecomes(amount) ==
    /\ amount # paid
    /\ paid' = amount
    /\ outrun' = outrun \cup {m \in Makers : maker[m].at = "read"}
    /\ UNCHANGED <<maker, invoice, pdfVars>>

readBookingAmounts(m) ==
    /\ maker[m].at = "start"
    /\ maker' = [maker EXCEPT ![m] = [at |-> "read", paid |-> paid]]
    /\ UNCHANGED <<paid, invoice, outrun, pdfVars>>

\* (mutant: any payment makes the invoice paid)
StatusOfAny(amount) == IF amount > 0 THEN "paid" ELSE "unpaid"

StatusOf(amount) ==
    IF amount >= Total THEN "paid" ELSE IF amount > 0 THEN "partially_paid" ELSE "unpaid"

insertInvoice(m) ==
    LET read == maker[m].paid IN
    /\ maker[m].at = "read"
    /\ invoice' = [invoice EXCEPT ![m] = [paid |-> read, due |-> Total - read, status |-> StatusOf(read)]]
    /\ maker' = [maker EXCEPT ![m].at = "done"]
    /\ UNCHANGED <<paid, outrun, pdfVars>>

-----------------------------------------------------------------------------
Goes(d, from, to) ==
    /\ download[d] = from
    /\ download' = [download EXCEPT ![d] = to]
    /\ UNCHANGED makerVars

getInvoicePdf(d) ==
    /\ Goes(d, "start", "written")
    /\ onDisk' = TRUE
    /\ UNCHANGED <<pdfUrl, littered>>

updatePdfUrl(d) ==
    /\ Goes(d, "written", "stored")
    /\ pdfUrl' = TRUE
    /\ UNCHANGED <<onDisk, littered>>

\* A customer who does not own the invoice is refused only now.
assertOwnsInvoice(d, owns) ==
    /\ Goes(d, "stored", IF owns THEN "owned" ELSE "refused")
    /\ littered' = (littered \/ ~owns)
    /\ UNCHANGED <<onDisk, pdfUrl>>

\* (mutant: the file is kept)
unlinkNothing(d) ==
    /\ Goes(d, "owned", "unlinked")
    /\ UNCHANGED <<onDisk, pdfUrl, littered>>

\* A file that is gone already is no error.
unlink(d) ==
    /\ Goes(d, "owned", "unlinked")
    /\ onDisk' = FALSE
    /\ UNCHANGED <<pdfUrl, littered>>

clearPdfUrl(d) ==
    /\ Goes(d, "unlinked", "answered")
    /\ pdfUrl' = FALSE
    /\ UNCHANGED <<onDisk, littered>>

InHand(d) == download[d] \in {"written", "stored", "owned", "unlinked"}

\* A statement fails; during the clean-up that is logged and no more.
downloadFails(d) ==
    /\ InHand(d)
    /\ Goes(d, download[d], "failed")
    /\ littered' = TRUE
    /\ UNCHANGED <<onDisk, pdfUrl>>

MakersNext ==
    \/ \E amount \in 0..Total : paidBecomes(amount)
    \/ \E m \in Makers : readBookingAmounts(m) \/ insertInvoice(m)

DownloadsNext ==
    \E d \in Downloads :
        \/ getInvoicePdf(d) \/ updatePdfUrl(d) \/ unlink(d) \/ clearPdfUrl(d) \/ downloadFails(d)
        \/ \E owns \in BOOLEAN : assertOwnsInvoice(d, owns)

InvoicesNext == MakersNext \/ DownloadsNext

InvoicesSpec == InvoicesInit /\ [][InvoicesNext]_invoiceVars

-----------------------------------------------------------------------------
\* Properties

\* An invoice that no payment overtook shows the booking as it is when it is
\* inserted: paid and due are the booking's, and it says paid exactly when nothing
\* is due.
InvoiceAsBooking ==
    [][\A m \in Makers :
          maker[m].at = "read" /\ maker'[m].at = "done" /\ m \notin outrun =>
              /\ invoice'[m].paid = paid /\ invoice'[m].due = Total - paid
              /\ invoice'[m].status = "paid" <=> paid = Total
              /\ invoice'[m].status = "unpaid" <=> paid = 0]_invoiceVars

\* The copy and "its DB pdfUrl pointer" are not left behind (pdf/route.js:41-44),
\* though downloads overlap, unless one was refused or broken off.
NothingLeftBehind ==
    ~littered /\ (\A d \in Downloads : ~InHand(d)) => ~onDisk /\ ~pdfUrl
=============================================================================

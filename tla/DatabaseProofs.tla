--------------------------- MODULE DatabaseProofs ----------------------------
(***************************************************************************)
(* Proofs about the components whose care is the database: the numbers of  *)
(* a year (SequentialNumbers), invoices and their copies (Invoices), the   *)
(* replacement of a row's children (ReplaceChildren), the seed script      *)
(* (Seeding), the settings of the agencies (Settings), and what deletions  *)
(* take along (Tables).                                                    *)
(***************************************************************************)
EXTENDS SequentialNumbers, Invoices, ReplaceChildren, Seeding, CountingLemmas,
        FiniteSetTheorems, SequenceTheorems, Settings, Tables, TLAPS

-----------------------------------------------------------------------------
\* SequentialNumbers: the series of a year stays intact for every number of
\* creations, years and rollbacks, until a transaction straddles New Year.

\* Whoever draws or holds a number of a year has the lock of that year.
LockHeld ==
    \A c \in Calls : pc[c] \in {"count", "insert"} => owner[year[c]] = c

\* Without straddlers the numbers of a year are as many as the rows created
\* in it, in sequence, and a number drawn is the next one.
Series ==
    ~Straddler =>
        /\ \A y \in Years : NumbersOf(y) = 1..Cardinality(CreatedIn(y))
        /\ \A c \in Calls :
              pc[c] = "insert" => seq[c] = Cardinality(CreatedIn(year[c])) + 1

SeriesInv == TypeOK /\ IsFiniteSet(rows) /\ LockHeld /\ Series

\* The rows of a year are finitely many, and their count is a natural number.
LEMMA CountIsNat ==
    ASSUME IsFiniteSet(rows), NEW y
    PROVE  IsFiniteSet(CreatedIn(y)) /\ Cardinality(CreatedIn(y)) \in Nat
  BY FS_Subset, FS_CardinalityType DEF CreatedIn

\* At the start there are no rows, and no lock is taken.
LEMMA InitSeries == Init => SeriesInv
<1> SUFFICES ASSUME Init PROVE SeriesInv
  OBVIOUS
<1> USE NumbersAssumption
<1>1. TypeOK
  BY DEF Init, TypeOK, Years, Row, Pcs
<1>2. IsFiniteSet(rows)
  BY FS_EmptySet DEF Init
<1>3. LockHeld
  BY DEF Init, LockHeld
<1>4. Series
  <2>1. \A y : CreatedIn(y) = {} /\ NumbersOf(y) = {}
    BY DEF Init, CreatedIn, NumbersOf
  <2>2. Cardinality({}) = 0
    BY FS_EmptySet
  <2>3. 1..0 = {}
    OBVIOUS
  <2> QED
    BY <2>1, <2>2, <2>3 DEF Init, Series
<1> QED
  BY <1>1, <1>2, <1>3, <1>4 DEF SeriesInv

\* Types are preserved.
LEMMA TypeStep == TypeOK /\ IsFiniteSet(rows) /\ [Next]_vars => TypeOK'
<1> SUFFICES ASSUME TypeOK, IsFiniteSet(rows), [Next]_vars PROVE TypeOK'
  OBVIOUS
<1> USE NumbersAssumption DEF TypeOK, Pcs
<1>1. ASSUME NEW c \in Calls, begin(c) PROVE TypeOK'
  BY <1>1 DEF begin
<1>2. ASSUME NEW c \in Calls, generateSequentialNumber(c) PROVE TypeOK'
  BY <1>2 DEF generateSequentialNumber
<1>3. ASSUME NEW c \in Calls, takeLock(c) PROVE TypeOK'
  BY <1>3 DEF takeLock
<1>4. ASSUME NEW c \in Calls, countRows(c) PROVE TypeOK'
  <2>1. Cardinality(CreatedIn(year[c])) + 1 \in Nat
    BY CountIsNat
  <2> QED
    BY <1>4, <2>1 DEF countRows
<1>5. ASSUME NEW c \in Calls, insertRow(c) PROVE TypeOK'
  BY <1>5 DEF insertRow, Release, Row
<1>6. ASSUME NEW c \in Calls, rollback(c) PROVE TypeOK'
  BY <1>6 DEF rollback, Release
<1>7. CASE newYear
  BY <1>7 DEF newYear, Years
<1>8. CASE UNCHANGED vars
  BY <1>8 DEF vars
<1> QED
  BY <1>1, <1>2, <1>3, <1>4, <1>5, <1>6, <1>7, <1>8 DEF Next

\* A lock is taken only when free, and let go only by its owner, who then no
\* longer draws.
LEMMA LockStep == TypeOK /\ LockHeld /\ [Next]_vars => LockHeld'
<1> SUFFICES ASSUME TypeOK, LockHeld, [Next]_vars PROVE LockHeld'
  OBVIOUS
<1> USE NumbersAssumption DEF TypeOK, LockHeld
<1>1. ASSUME NEW c \in Calls, begin(c) PROVE LockHeld'
  BY <1>1 DEF begin
<1>2. ASSUME NEW c \in Calls, generateSequentialNumber(c) PROVE LockHeld'
  BY <1>2 DEF generateSequentialNumber
<1>3. ASSUME NEW c \in Calls, takeLock(c) PROVE LockHeld'
  BY <1>3 DEF takeLock
<1>4. ASSUME NEW c \in Calls, countRows(c) PROVE LockHeld'
  BY <1>4 DEF countRows
<1>5. ASSUME NEW c \in Calls, insertRow(c) PROVE LockHeld'
  <2>1. pc'[c] \notin {"count", "insert"} /\ \A d \in Calls \ {c} : pc'[d] = pc[d]
    BY <1>5 DEF insertRow
  <2>2. Release(c) /\ year' = year
    BY <1>5 DEF insertRow
  <2> QED
    BY <2>1, <2>2 DEF Release
<1>6. ASSUME NEW c \in Calls, rollback(c) PROVE LockHeld'
  BY <1>6 DEF rollback, Release
<1>7. CASE newYear
  BY <1>7 DEF newYear
<1>8. CASE UNCHANGED vars
  BY <1>8 DEF vars
<1> QED
  BY <1>1, <1>2, <1>3, <1>4, <1>5, <1>6, <1>7, <1>8 DEF Next

\* A step that inserts no row, and after which whoever holds a number holds
\* the next one.
LEMMA QuietStep ==
    ASSUME Series, rows' = rows,
           ~Straddler => \A c \in Calls :
              pc'[c] = "insert" => seq'[c] = Cardinality(CreatedIn(year'[c])) + 1
    PROVE  Series'
<1>1. Straddler' <=> Straddler
  BY DEF Straddler
<1>2. \A y : CreatedIn(y)' = CreatedIn(y) /\ NumbersOf(y)' = NumbersOf(y)
  BY DEF CreatedIn, NumbersOf
<1>3. \A c \in Calls : CreatedIn(year[c])' = CreatedIn(year'[c])
  BY DEF CreatedIn
<1> QED
  BY <1>1, <1>2, <1>3 DEF Series

\* Every step preserves the series.
LEMMA SeriesStep == SeriesInv /\ [Next]_vars => Series' /\ IsFiniteSet(rows')
<1> SUFFICES ASSUME SeriesInv, [Next]_vars PROVE Series' /\ IsFiniteSet(rows')
  OBVIOUS
<1> USE NumbersAssumption DEF SeriesInv
<1>1. ASSUME NEW c \in Calls, begin(c) PROVE Series' /\ rows' = rows
  BY <1>1, QuietStep DEF begin, TypeOK, Series
<1>2. ASSUME NEW c \in Calls, generateSequentialNumber(c) PROVE Series' /\ rows' = rows
  <2>1. rows' = rows /\ seq' = seq
        /\ \A d \in Calls : pc'[d] = "insert" => pc[d] = "insert" /\ year'[d] = year[d]
    BY <1>2 DEF generateSequentialNumber, TypeOK
  <2> QED
    BY <2>1, QuietStep DEF Series
<1>3. ASSUME NEW c \in Calls, takeLock(c) PROVE Series' /\ rows' = rows
  BY <1>3, QuietStep DEF takeLock, TypeOK, Series
<1>4. ASSUME NEW c \in Calls, countRows(c) PROVE Series' /\ rows' = rows
  <2>1. rows' = rows /\ year' = year
        /\ seq'[c] = Cardinality(CreatedIn(year[c])) + 1
        /\ \A d \in Calls \ {c} : pc'[d] = pc[d] /\ seq'[d] = seq[d]
    BY <1>4 DEF countRows, TypeOK
  <2> QED
    BY <2>1, QuietStep DEF Series
<1>5. ASSUME NEW c \in Calls, insertRow(c), Taken(c) PROVE Series' /\ rows' = rows
  BY <1>5, QuietStep DEF insertRow, TypeOK, Series
<1>6. ASSUME NEW c \in Calls, insertRow(c), ~Taken(c)
      PROVE  Series' /\ IsFiniteSet(rows')
  <2> DEFINE new == [year |-> year[c], seq |-> seq[c], created |-> began[c]]
  <2>1. rows' = rows \cup {new} /\ year' = year /\ seq' = seq
    BY <1>6 DEF insertRow
  <2>2. IsFiniteSet(rows')
    BY <2>1, FS_AddElement
  <2>3. CASE ~Straddler'
    <3>1. ~Straddler /\ began[c] = year[c]
      <4>1. new \in rows' /\ rows \subseteq rows'
        BY <2>1
      <4>2. \A r \in rows' : r.year = r.created
        BY <2>3 DEF Straddler
      <4>3. new.year = year[c] /\ new.created = began[c]
        OBVIOUS
      <4> HIDE DEF new
      <4> QED
        BY <4>1, <4>2, <4>3 DEF Straddler
    <3> DEFINE n == Cardinality(CreatedIn(year[c]))
    <3>2. pc[c] = "insert" /\ year[c] \in Years
      BY <1>6 DEF insertRow, TypeOK
    <3>3. seq[c] = n + 1 /\ n \in Nat
      BY <3>1, <3>2, CountIsNat DEF Series
    <3>4. \A y \in Years \ {year[c]} :
             CreatedIn(y)' = CreatedIn(y) /\ NumbersOf(y)' = NumbersOf(y)
      BY <2>1, <3>1 DEF CreatedIn, NumbersOf
    <3>5. NumbersOf(year[c])' = NumbersOf(year[c]) \cup {n + 1}
      <4>1. new.year = year[c] /\ new.seq = n + 1
        BY <3>3
      <4> HIDE DEF new, n
      <4> QED
        BY <2>1, <4>1 DEF NumbersOf
    <3>6. new \notin CreatedIn(year[c])
      BY <1>6 DEF Taken, CreatedIn
    <3>7. CreatedIn(year[c])' = CreatedIn(year[c]) \cup {new}
      BY <2>1, <3>1 DEF CreatedIn
    <3>8. Cardinality(CreatedIn(year[c])') = n + 1
      BY <3>6, <3>7, CountIsNat, FS_AddElement
    <3>9. NumbersOf(year[c])' = 1..n + 1
      <4>1. NumbersOf(year[c]) = 1..n
        BY <3>1, <3>2 DEF Series
      <4>2. 1..n + 1 = (1..n) \cup {n + 1}
        BY <3>3
      <4> QED
        BY <3>5, <4>1, <4>2
    <3>10. \A d \in Calls :
              pc'[d] = "insert" => pc[d] = "insert" /\ year[d] # year[c]
      BY <1>6, <3>2 DEF insertRow, TypeOK, LockHeld
    <3>11. \A d \in Calls :
              pc'[d] = "insert" => seq'[d] = Cardinality(CreatedIn(year[d])') + 1
      BY <2>1, <3>1, <3>4, <3>10 DEF Series, TypeOK
    <3>12. \A y \in Years : NumbersOf(y)' = 1..Cardinality(CreatedIn(y)')
      BY <2>1, <3>1, <3>4, <3>8, <3>9 DEF Series, CreatedIn, NumbersOf
    <3> QED
      BY <2>1, <2>2, <3>11, <3>12 DEF Series, NumbersOf, CreatedIn
  <2>4. CASE Straddler'
    BY <2>2, <2>4 DEF Series
  <2> QED
    BY <2>3, <2>4
<1>7. ASSUME NEW c \in Calls, rollback(c) PROVE Series' /\ rows' = rows
  BY <1>7, QuietStep DEF rollback, TypeOK, Series
<1>8. CASE newYear
  BY <1>8, QuietStep DEF newYear, Series
<1>9. CASE UNCHANGED vars
  BY <1>9, QuietStep DEF vars, Series
<1>10. \/ UNCHANGED rows /\ Series'
       \/ \E c \in Calls : insertRow(c) /\ ~Taken(c)
  BY <1>1, <1>2, <1>3, <1>4, <1>5, <1>7, <1>8, <1>9 DEF Next, newYear, vars
<1> QED
  BY <1>6, <1>10

\* The invariant of the theorem below.
LEMMA SeriesInvariant == Spec => []SeriesInv
<1>1. Init => SeriesInv
  BY InitSeries
<1>2. SeriesInv /\ [Next]_vars => SeriesInv'
  BY TypeStep, LockStep, SeriesStep DEF SeriesInv
<1> QED
  BY <1>1, <1>2, PTL DEF Spec

\* While every row's number is of the year it was created in, the numbers of
\* each year are 1, 2, 3, ... without a gap, and nobody's number is taken.
THEOREM SeriesStaysIntact == Spec => []SeriesIntact
<1>1. SeriesInv => SeriesIntact
  <2> SUFFICES ASSUME SeriesInv, ~Straddler PROVE SeriesIntact
    BY DEF SeriesIntact
  <2>1. \A y \in Years : NumbersOf(y) = 1..Cardinality(CreatedIn(y))
    BY DEF SeriesInv, Series
  <2>2. \A y : Cardinality(CreatedIn(y)) \in Nat
    BY CountIsNat DEF SeriesInv
  <2>3. ASSUME NEW y \in Years PROVE Cardinality(NumbersOf(y)) = Cardinality(CreatedIn(y))
    <3> DEFINE n == Cardinality(CreatedIn(y))
    <3>1. n \in Nat /\ NumbersOf(y) = 1..n
      BY <2>1, <2>2
    <3>2. Cardinality(1..n) = n
      BY <3>1, FS_Interval
    <3> QED
      BY <3>1, <3>2
  <2>4. ASSUME NEW c \in Calls, pc[c] = "insert", Taken(c) PROVE FALSE
    <3>1. seq[c] = Cardinality(CreatedIn(year[c])) + 1 /\ year[c] \in Years
      BY <2>4 DEF SeriesInv, Series, TypeOK
    <3>2. seq[c] \in NumbersOf(year[c])
      BY <2>4 DEF Taken, NumbersOf
    <3> QED
      BY <2>1, <2>2, <3>1, <3>2
  <2> QED
    BY <2>1, <2>3, <2>4 DEF SeriesIntact
<1> QED
  BY <1>1, SeriesInvariant, PTL

-----------------------------------------------------------------------------
\* Invoices: an invoice shows the booking, and downloads leave nothing behind.

MakersTypeOK ==
    /\ paid \in 0..Total
    /\ maker \in [Makers -> [at : {"start", "read", "done"}, paid : 0..Total]]
    /\ DOMAIN invoice = Makers

DownloadsTypeOK ==
    download \in [Downloads -> {"start", "written", "stored", "owned", "refused",
                                "unlinked", "answered", "failed"}]

\* What a call has read is still so, unless a payment came since.
ReadsHold == \A m \in Makers \ outrun : maker[m].at = "read" => maker[m].paid = paid

\* What is on the disk or in the row is some download's that is going to remove it.
HasOwner ==
    ~littered =>
        /\ onDisk => \E d \in Downloads : download[d] \in {"written", "stored", "owned"}
        /\ pdfUrl => \E d \in Downloads : download[d] \in {"stored", "owned", "unlinked"}

MakersInv == MakersTypeOK /\ ReadsHold
DownloadsInv == DownloadsTypeOK /\ HasOwner

\* At the start no invoice is being made.
LEMMA MakersInit == InvoicesInit => MakersInv
  BY InvoicesAssumption DEF InvoicesInit, MakersInv, MakersTypeOK, ReadsHold

\* Every step preserves what makers read and wrote.
LEMMA MakersStep == MakersInv /\ [InvoicesNext]_invoiceVars => MakersInv'
  <1> SUFFICES ASSUME MakersInv, [InvoicesNext]_invoiceVars PROVE MakersInv'
    OBVIOUS
  <1> USE InvoicesAssumption DEF MakersInv, MakersTypeOK, ReadsHold
  <1>1. CASE UNCHANGED makerVars
    BY <1>1 DEF makerVars
  <1>2. ASSUME NEW amount \in 0..Total, paidBecomes(amount) PROVE MakersInv'
    BY <1>2 DEF paidBecomes
  <1>3. ASSUME NEW m \in Makers, readBookingAmounts(m) PROVE MakersInv'
    BY <1>3 DEF readBookingAmounts
  <1>4. ASSUME NEW m \in Makers, insertInvoice(m) PROVE MakersInv'
    BY <1>4 DEF insertInvoice
  <1>5. DownloadsNext => UNCHANGED makerVars
    BY DEF DownloadsNext, getInvoicePdf, updatePdfUrl, assertOwnsInvoice, unlink, clearPdfUrl,
           downloadFails, Goes
  <1>6. QED
    BY <1>1, <1>2, <1>3, <1>4, <1>5 DEF InvoicesNext, MakersNext, invoiceVars

\* An invoice shows what its call has read, which is what the booking has.
LEMMA InvoiceStep ==
  ASSUME MakersInv, [InvoicesNext]_invoiceVars, NEW m \in Makers,
         maker[m].at = "read", maker'[m].at = "done", m \notin outrun
  PROVE  /\ invoice'[m].paid = paid /\ invoice'[m].due = Total - paid
         /\ invoice'[m].status = "paid" <=> paid = Total
         /\ invoice'[m].status = "unpaid" <=> paid = 0
  <1>1. insertInvoice(m)
    <2>1. ~UNCHANGED maker
      OBVIOUS
    <2>2. ~DownloadsNext
      BY <2>1 DEF DownloadsNext, getInvoicePdf, updatePdfUrl, assertOwnsInvoice, unlink, clearPdfUrl,
             downloadFails, Goes, makerVars
    <2>3. \A amount \in 0..Total : ~paidBecomes(amount)
      BY <2>1 DEF paidBecomes
    <2>4. \A n \in Makers : ~readBookingAmounts(n)
      BY DEF readBookingAmounts, MakersInv, MakersTypeOK
    <2>5. \A n \in Makers \ {m} : ~insertInvoice(n)
      BY DEF insertInvoice, MakersInv, MakersTypeOK
    <2> QED
      BY <2>1, <2>2, <2>3, <2>4, <2>5 DEF InvoicesNext, MakersNext, invoiceVars, makerVars
  <1>2. /\ invoice'[m] = [paid |-> paid, due |-> Total - paid, status |-> StatusOf(paid)]
        /\ paid \in 0..Total
    BY <1>1 DEF insertInvoice, MakersInv, MakersTypeOK, ReadsHold
  <1> QED
    BY <1>2, InvoicesAssumption DEF StatusOf

\* generateInvoiceForBooking inserts amounts it read before: unless a payment or
\* refund was recorded in between, they are the booking's, and the status is right.
THEOREM InvoicesShowBooking == InvoicesSpec => InvoiceAsBooking
  <1>1. MakersInv /\ [InvoicesNext]_invoiceVars =>
        [\A m \in Makers :
          maker[m].at = "read" /\ maker'[m].at = "done" /\ m \notin outrun =>
              /\ invoice'[m].paid = paid /\ invoice'[m].due = Total - paid
              /\ invoice'[m].status = "paid" <=> paid = Total
              /\ invoice'[m].status = "unpaid" <=> paid = 0]_invoiceVars
    BY InvoiceStep
  <1> QED
    BY <1>1, MakersInit, MakersStep, PTL DEF InvoicesSpec, InvoiceAsBooking

-----------------------------------------------------------------------------

\* At the start there is no file.
LEMMA DownloadsInit == InvoicesInit => DownloadsInv
  BY DEF InvoicesInit, DownloadsInv, DownloadsTypeOK, HasOwner

\* Every step preserves that files have a download at hand.
LEMMA DownloadsStep == DownloadsInv /\ [InvoicesNext]_invoiceVars => DownloadsInv'
  <1> SUFFICES ASSUME DownloadsInv, [InvoicesNext]_invoiceVars PROVE DownloadsInv'
    OBVIOUS
  <1> USE DEF DownloadsInv, DownloadsTypeOK, HasOwner, Goes
  <1>1. CASE UNCHANGED pdfVars
    BY <1>1 DEF pdfVars
  <1>2. ASSUME NEW d \in Downloads, getInvoicePdf(d) PROVE DownloadsInv'
    BY <1>2 DEF getInvoicePdf
  <1>3. ASSUME NEW d \in Downloads, updatePdfUrl(d) PROVE DownloadsInv'
    BY <1>3 DEF updatePdfUrl
  <1>4. ASSUME NEW d \in Downloads, NEW owns \in BOOLEAN, assertOwnsInvoice(d, owns) PROVE DownloadsInv'
    BY <1>4 DEF assertOwnsInvoice
  <1>5. ASSUME NEW d \in Downloads, unlink(d) PROVE DownloadsInv'
    BY <1>5 DEF unlink
  <1>6. ASSUME NEW d \in Downloads, clearPdfUrl(d) PROVE DownloadsInv'
    BY <1>6 DEF clearPdfUrl
  <1>7. ASSUME NEW d \in Downloads, downloadFails(d) PROVE DownloadsInv'
    BY <1>7 DEF downloadFails, InHand
  <1>8. MakersNext => UNCHANGED pdfVars
    BY DEF MakersNext, paidBecomes, readBookingAmounts, insertInvoice
  <1>9. QED
    BY <1>1, <1>2, <1>3, <1>4, <1>5, <1>6, <1>7, <1>8 DEF InvoicesNext, DownloadsNext, invoiceVars

\* Any number of downloads of one invoice, in any order of their statements, end
\* with neither the file nor its URL, unless one was refused or broken off.
THEOREM DownloadsLeaveNothing == InvoicesSpec => []NothingLeftBehind
  <1>1. DownloadsInv => NothingLeftBehind
    BY DEF DownloadsInv, HasOwner, NothingLeftBehind, InHand
  <1> QED
    BY <1>1, DownloadsInit, DownloadsStep, PTL DEF InvoicesSpec

-----------------------------------------------------------------------------
\* ReplaceChildren: what overlapping replacements leave is one call's list.

WriterPoints == {"start", "found", "delete", "insert", "done", "failed"}

WriterFields == {"at", "kind", "list", "todo", "gone", "new"}

\* (what the statements of a call go through is a sequence of children once its
\* INSERT has begun)
WriterTypeOK ==
    /\ DOMAIN writer = Writers
    /\ \A w \in Writers :
        /\ DOMAIN writer[w] = WriterFields
        /\ writer[w].at \in WriterPoints
        /\ writer[w].list \in Seq(Children)
        /\ writer[w].at = "insert" => writer[w].todo \in Seq(Children)
        /\ writer[w].at = "done" => writer[w].todo = <<>> /\ writer[w].gone = {} /\ writer[w].new = {}

Inserting(w) == writer[w].at = "insert"
Entered == {w \in Writers : Inserting(w)} \cup Finished

\* The children of its list that the INSERT of w has come to.
Settled(w) == ToSet(writer[w].list) \ ToSet(writer[w].todo)

\* Calls are ranked by when their INSERT began, the latest first.  A call finds the
\* rows that an earlier one has deleted locked, so that what it has settled is there
\* until a later call that has ended deleted it.
Ranked(r) ==
    /\ \A v, w \in Entered : v # w => r[v] # r[w]
    /\ \A v, w \in Entered : Inserting(v) /\ r[w] < r[v] => Settled(w) \cap writer[v].gone = {}
    /\ \A w \in Entered : \A c \in Settled(w) :
          \/ c \in writer[w].new \cup (attached \ writer[w].gone)
          \/ \E v \in Finished : r[v] < r[w]

ChildInv ==
    /\ WriterTypeOK
    /\ Finished = {} => attached = Stored
    /\ \E r \in [Writers -> Nat] : Ranked(r)

-----------------------------------------------------------------------------
\* The members of a sequence are its first one and those of its tail.
LEMMA HeadAndTail ==
    ASSUME NEW S, NEW s \in Seq(S), s # <<>>
    PROVE  Tail(s) \in Seq(S) /\ Head(s) \in S /\ ToSet(s) = {Head(s)} \cup ToSet(Tail(s))
<1>1. Tail(s) \in Seq(S) /\ Head(s) \in S
  BY HeadTailProperties
<1>2. Len(s) \in Nat /\ Len(s) # 0 /\ DOMAIN s = 1..Len(s) /\ Head(s) = s[1]
  OBVIOUS
<1>3. Len(Tail(s)) = Len(s) - 1 /\ DOMAIN Tail(s) = 1..(Len(s) - 1)
      /\ \A i \in 1..(Len(s) - 1) : Tail(s)[i] = s[i + 1]
  BY <1>1, HeadTailProperties
<1>4. ASSUME NEW x \in ToSet(s) PROVE x \in {Head(s)} \cup ToSet(Tail(s))
  <2>1. PICK i \in 1..Len(s) : x = s[i]
    BY <1>2 DEF ToSet
  <2>2. CASE i = 1
    BY <1>2, <2>1, <2>2
  <2>3. CASE i # 1
    <3>1. i - 1 \in 1..(Len(s) - 1) /\ Tail(s)[i - 1] = s[i]
      BY <1>2, <1>3, <2>3
    <3> QED
      BY <1>3, <2>1, <3>1 DEF ToSet
  <2> QED
    BY <2>2, <2>3
<1>5. ASSUME NEW x \in {Head(s)} \cup ToSet(Tail(s)) PROVE x \in ToSet(s)
  <2>1. CASE x = Head(s)
    BY <1>2, <2>1 DEF ToSet
  <2>2. CASE x \in ToSet(Tail(s))
    <3>1. PICK i \in 1..(Len(s) - 1) : x = s[i + 1]
      BY <1>3, <2>2 DEF ToSet
    <3>2. i + 1 \in 1..Len(s)
      BY <1>2
    <3> QED
      BY <1>2, <3>1, <3>2 DEF ToSet
  <2> QED
    BY <2>1, <2>2
<1> QED
  BY <1>1, <1>4, <1>5

\* No children, nothing to do.
LEMMA NothingToDo == ToSet(<<>>) = {}
  BY DEF ToSet

\* A step that changes only the record of w.
Alone(w) ==
    /\ DOMAIN writer' = Writers
    /\ \A v \in Writers \ {w} : writer'[v] = writer[v]
    /\ DOMAIN writer'[w] = WriterFields
    /\ writer'[w].list \in Seq(Children)

\* A step that a call takes before its INSERT begins, or with which it fails.
LEMMA OutsideStep ==
    ASSUME ChildInv, NEW w \in Writers, Alone(w), attached' = attached,
           w \notin Finished, writer'[w].at \in WriterPoints \ {"insert", "done"}
    PROVE  ChildInv'
<1>1. WriterTypeOK'
  BY DEF ChildInv, WriterTypeOK, Alone
<1>2. Finished' = Finished /\ Entered' \subseteq Entered /\ w \notin Entered'
  BY DEF Finished, Entered, Inserting, Alone
<1>3. \A v \in Entered' : Settled(v)' = Settled(v) /\ writer'[v] = writer[v] /\ (Inserting(v)' <=> Inserting(v))
  BY <1>2 DEF Settled, Alone, Entered, Inserting, Finished
<1>4. PICK r \in [Writers -> Nat] : Ranked(r)
  BY DEF ChildInv
<1>5. Ranked(r)'
  BY <1>2, <1>3, <1>4 DEF Ranked
<1> QED
  BY <1>1, <1>2, <1>5 DEF ChildInv

\* A call comes to its inserts, all of them to do.
LEMMA EnterStep ==
    ASSUME ChildInv, NEW w \in Writers, Alone(w), attached' = attached,
           w \notin Entered, Inserting(w)', writer'[w].todo = writer'[w].list
    PROVE  ChildInv'
<1>1. WriterTypeOK'
  BY DEF ChildInv, WriterTypeOK, Alone, Inserting, WriterPoints
<1>2. Finished' = Finished /\ Entered' = Entered \cup {w} /\ Finished \subseteq Entered /\ Entered \subseteq Writers
  BY DEF Finished, Entered, Inserting, Alone
<1>3. \A v \in Entered : Settled(v)' = Settled(v) /\ writer'[v] = writer[v] /\ (Inserting(v)' <=> Inserting(v))
  BY DEF Settled, Alone, Entered, Inserting, Finished
<1>4. Settled(w)' = {}
  BY DEF Settled
<1>5. PICK r \in [Writers -> Nat] : Ranked(r)
  BY DEF ChildInv
<1> DEFINE q == [v \in Writers |-> IF v = w THEN 0 ELSE r[v] + 1]
<1>6. /\ q \in [Writers -> Nat] /\ q[w] = 0 /\ \A v \in Entered : q[v] = r[v] + 1 /\ r[v] \in Nat
  BY <1>2
<1> HIDE DEF q
<1>7. \A u, v \in Entered' : u # v => q[u] # q[v]
  BY <1>2, <1>5, <1>6 DEF Ranked
<1>8. ASSUME NEW u \in Entered', NEW v \in Entered', Inserting(v)', q[u] < q[v]
      PROVE  Settled(u)' \cap writer'[v].gone = {}
  <2>1. CASE u = w
    BY <1>4, <2>1
  <2>2. CASE u # w
    <3>1. u \in Entered /\ v \in Entered /\ r[u] < r[v]
      BY <1>2, <1>6, <1>8, <2>2
    <3> QED
      BY <1>3, <1>5, <1>8, <3>1 DEF Ranked
  <2> QED
    BY <2>1, <2>2
<1>9. ASSUME NEW u \in Entered', NEW c \in Settled(u)'
      PROVE  c \in writer'[u].new \cup (attached' \ writer'[u].gone) \/ \E v \in Finished' : q[v] < q[u]
  <2>1. u \in Entered
    BY <1>2, <1>4, <1>9
  <2>2. c \in writer[u].new \cup (attached \ writer[u].gone) \/ \E v \in Finished : r[v] < r[u]
    BY <1>3, <1>5, <1>9, <2>1 DEF Ranked
  <2> QED
    BY <1>2, <1>3, <1>6, <2>1, <2>2
<1>10. Ranked(q)'
  BY <1>7, <1>8, <1>9 DEF Ranked
<1> QED
  BY <1>1, <1>2, <1>6, <1>10 DEF ChildInv

\* An INSERT comes to the next child of its list: there is one, or now there is.
LEMMA SettleStep ==
    ASSUME ChildInv, NEW w \in Writers, Alone(w), attached' = attached,
           Inserting(w), writer[w].todo # <<>>, BlockedBy(w) = {},
           Inserting(w)', writer'[w].list = writer[w].list, writer'[w].todo = Tail(writer[w].todo),
           writer'[w].gone = writer[w].gone, writer[w].new \subseteq writer'[w].new,
           Head(writer[w].todo) \in writer'[w].new \cup (attached \ writer[w].gone)
    PROVE  ChildInv'
<1> DEFINE c == Head(writer[w].todo)
<1>1. writer[w].todo \in Seq(Children)
  BY DEF ChildInv, WriterTypeOK, Inserting
<1>2. Tail(writer[w].todo) \in Seq(Children) /\ ToSet(writer[w].todo) = {c} \cup ToSet(Tail(writer[w].todo))
  BY <1>1, HeadAndTail
<1>3. WriterTypeOK'
  <2>1. writer'[w].at = "insert" /\ writer'[w].todo \in Seq(Children)
    BY <1>2 DEF Inserting
  <2> QED
    BY <2>1 DEF ChildInv, WriterTypeOK, Alone, WriterPoints
<1>4. Finished' = Finished /\ Entered' = Entered /\ Entered \subseteq Writers
  <2>1. writer[w].at = "insert" /\ writer'[w].at = "insert" /\ \A v \in Writers \ {w} : writer'[v] = writer[v]
    BY DEF Inserting, Alone
  <2>2. \A v \in Writers : writer'[v].at = writer[v].at
    BY <2>1
  <2> QED
    BY <2>2 DEF Finished, Entered, Inserting
<1>5. \A v \in Entered : /\ writer'[v].gone = writer[v].gone /\ (Inserting(v)' <=> Inserting(v))
                          /\ writer[v].new \subseteq writer'[v].new
                          /\ Settled(v)' \subseteq Settled(v) \cup (IF v = w THEN {c} ELSE {})
  <2> SUFFICES ASSUME NEW v \in Entered
               PROVE  /\ writer'[v].gone = writer[v].gone /\ (Inserting(v)' <=> Inserting(v))
                      /\ writer[v].new \subseteq writer'[v].new
                      /\ Settled(v)' \subseteq Settled(v) \cup (IF v = w THEN {c} ELSE {})
    OBVIOUS
  <2>1. CASE v = w
    BY <1>2, <2>1 DEF Settled, Inserting
  <2>2. CASE v # w
    BY <1>4, <2>2 DEF Settled, Inserting, Alone
  <2> QED
    BY <2>1, <2>2
<1>6. \A v \in Writers \ {w} : c \notin writer[v].gone
  BY DEF BlockedBy, Inserting
<1>7. PICK r \in [Writers -> Nat] : Ranked(r)
  BY DEF ChildInv
<1>8. ASSUME NEW u \in Entered, NEW v \in Entered, Inserting(v)', r[u] < r[v]
      PROVE  Settled(u)' \cap writer'[v].gone = {}
  <2>1. Settled(u) \cap writer[v].gone = {}
    BY <1>5, <1>7, <1>8 DEF Ranked
  <2>2. u # v /\ v \in Writers
    BY <1>4, <1>8
  <2>3. u = w => c \notin writer[v].gone
    BY <1>6, <2>2
  <2> QED
    BY <1>5, <2>1, <2>3
<1>9. ASSUME NEW u \in Entered, NEW x \in Settled(u)'
      PROVE  x \in writer'[u].new \cup (attached' \ writer'[u].gone) \/ \E v \in Finished' : r[v] < r[u]
  <2>1. CASE x \in Settled(u)
    BY <1>4, <1>5, <1>7, <2>1 DEF Ranked
  <2>2. CASE x \notin Settled(u)
    <3>1. u = w /\ x = c
      BY <1>5, <1>9, <2>2
    <3> QED
      BY <3>1
  <2> QED
    BY <2>1, <2>2
<1>10. Ranked(r)'
  BY <1>4, <1>7, <1>8, <1>9 DEF Ranked
<1> QED
  BY <1>3, <1>4, <1>7, <1>10 DEF ChildInv

\* A transaction that has settled its whole list commits.
LEMMA CommitStep ==
    ASSUME ChildInv, NEW w \in Writers, commitRows(w)
    PROVE  ChildInv'
<1>1. /\ Inserting(w) /\ writer[w].todo = <<>> /\ ToSet(writer[w].todo) = {}
      /\ attached' = (attached \ writer[w].gone) \cup writer[w].new
      /\ writer'[w] = [writer[w] EXCEPT !.at = "done", !.gone = {}, !.new = {}]
  <2>1. writer'[w] = [writer[w] EXCEPT !.at = "done", !.gone = {}, !.new = {}]
    BY DEF commitRows
  <2> QED
    BY <2>1, NothingToDo DEF commitRows, Inserting
<1>2. \A v \in Writers \ {w} :
         \/ writer'[v] = writer[v]
         \/ /\ writer[v].at = "delete"
            /\ writer'[v] = [writer[v] EXCEPT !.todo = Without(writer[v].todo, writer[w].gone)]
  BY DEF commitRows
<1>3. DOMAIN writer' = Writers
  BY DEF commitRows
<1>4. \A v \in Writers : DOMAIN writer[v] = WriterFields
  BY DEF ChildInv, WriterTypeOK
<1>5. /\ writer'[w].at = "done" /\ writer'[w].list = writer[w].list /\ writer'[w].todo = <<>>
      /\ writer'[w].gone = {} /\ writer'[w].new = {}
      /\ DOMAIN writer'[w] = WriterFields
  BY <1>1, <1>4 DEF WriterFields
<1>6. ASSUME NEW v \in Writers \ {w}
      PROVE  /\ writer'[v].at = writer[v].at /\ writer'[v].list = writer[v].list
             /\ writer'[v].gone = writer[v].gone /\ writer'[v].new = writer[v].new
             /\ writer'[v].todo = writer[v].todo \/ writer[v].at = "delete"
             /\ DOMAIN writer'[v] = WriterFields
  BY <1>2, <1>4 DEF WriterFields
<1>7. WriterTypeOK'
  <2> SUFFICES ASSUME NEW v \in Writers
               PROVE  /\ DOMAIN writer'[v] = WriterFields
                      /\ writer'[v].at \in WriterPoints
                      /\ writer'[v].list \in Seq(Children)
                      /\ writer'[v].at = "insert" => writer'[v].todo \in Seq(Children)
                      /\ writer'[v].at = "done" => writer'[v].todo = <<>> /\ writer'[v].gone = {} /\ writer'[v].new = {}
    BY <1>3 DEF WriterTypeOK
  <2>1. writer[v].at \in WriterPoints /\ writer[v].list \in Seq(Children)
        /\ (writer[v].at = "insert" => writer[v].todo \in Seq(Children))
        /\ (writer[v].at = "done" => writer[v].todo = <<>> /\ writer[v].gone = {} /\ writer[v].new = {})
    BY DEF ChildInv, WriterTypeOK
  <2>2. CASE v = w
    BY <1>5, <2>1, <2>2 DEF WriterPoints
  <2>3. CASE v # w
    BY <1>6, <2>1, <2>3
  <2> QED
    BY <2>2, <2>3
<1>8. /\ Finished' = Finished \cup {w} /\ Entered' = Entered /\ w \in Entered /\ Entered \subseteq Writers
      /\ \A v \in Entered : Inserting(v)' <=> v # w /\ Inserting(v)
  <2>1. \A v \in Writers \ {w} : writer'[v].at = writer[v].at
    BY <1>6
  <2>2. writer[w].at = "insert" /\ writer'[w].at = "done"
    BY <1>1, <1>5 DEF Inserting
  <2>3. Finished' = Finished \cup {w}
    BY <2>1, <2>2 DEF Finished
  <2>4. Entered' = Entered /\ w \in Entered /\ Entered \subseteq Writers
    BY <2>1, <2>2, <2>3 DEF Entered, Inserting, Finished
  <2> QED
    BY <2>1, <2>2, <2>3, <2>4 DEF Inserting
<1>9. ASSUME NEW v \in Entered PROVE Settled(v)' = Settled(v)
  <2>1. CASE v = w
    BY <1>1, <1>5, <2>1 DEF Settled
  <2>2. CASE v # w
    <3>1. writer[v].at # "delete" /\ v \in Writers \ {w}
      BY <2>2 DEF Entered, Inserting, Finished
    <3> QED
      BY <1>6, <3>1 DEF Settled
  <2> QED
    BY <2>1, <2>2
<1>10. PICK r \in [Writers -> Nat] : Ranked(r)
  BY DEF ChildInv
<1>11. ASSUME NEW u \in Entered, NEW v \in Entered, Inserting(v)', r[u] < r[v]
       PROVE  Settled(u)' \cap writer'[v].gone = {}
  <2>1. v \in Writers \ {w} /\ Inserting(v)
    BY <1>8, <1>11
  <2>2. Settled(u) \cap writer[v].gone = {}
    BY <1>10, <1>11, <2>1 DEF Ranked
  <2>3. writer'[v].gone = writer[v].gone
    BY <1>6, <2>1
  <2> QED
    BY <1>9, <2>2, <2>3
<1>12. ASSUME NEW u \in Entered, NEW c \in Settled(u)'
       PROVE  c \in writer'[u].new \cup (attached' \ writer'[u].gone) \/ \E v \in Finished' : r[v] < r[u]
  <2>1. c \in Settled(u)
    BY <1>9, <1>12
  <2>2. c \in writer[u].new \cup (attached \ writer[u].gone) \/ \E v \in Finished : r[v] < r[u]
    BY <1>10, <2>1 DEF Ranked
  <2>3. CASE \E v \in Finished : r[v] < r[u]
    BY <1>8, <2>3
  <2>4. CASE c \in writer[u].new \cup (attached \ writer[u].gone)
    <3>1. CASE u = w
      BY <1>1, <1>5, <2>4, <3>1
    <3>2. CASE u # w /\ c \in writer[w].gone
      <4>1. ~(r[u] < r[w])
        BY <1>1, <1>8, <1>10, <2>1, <3>2 DEF Ranked
      <4>2. r[w] < r[u]
        <5>1. r[u] # r[w] /\ r[u] \in Nat /\ r[w] \in Nat
          BY <1>8, <1>10, <3>2 DEF Ranked
        <5> QED
          BY <4>1, <5>1
      <4> QED
        BY <1>8, <4>2
    <3>3. CASE u # w /\ c \notin writer[w].gone
      <4>1. u \in Writers \ {w}
        BY <1>8, <3>3
      <4>2. writer'[u].gone = writer[u].gone /\ writer'[u].new = writer[u].new
        BY <1>6, <4>1
      <4> QED
        BY <1>1, <2>4, <3>3, <4>2
    <3> QED
      BY <3>1, <3>2, <3>3
  <2> QED
    BY <2>2, <2>3, <2>4
<1>13. Ranked(r)'
  BY <1>8, <1>10, <1>11, <1>12 DEF Ranked
<1> QED
  BY <1>7, <1>8, <1>10, <1>13 DEF ChildInv

-----------------------------------------------------------------------------
\* What the steps of a call change.
LEMMA StatementAlone ==
    ASSUME WriterTypeOK, NEW w \in Writers, NEW at, NEW kind, NEW list \in Seq(Children), NEW todo,
           Statement(w, at, kind, list, todo)
    PROVE  /\ Alone(w)
           /\ writer'[w].at = at /\ writer'[w].list = list /\ writer'[w].todo = todo
  BY DEF WriterTypeOK, WriterFields, Statement, Alone

\* At the start no call runs.
LEMMA ChildInitInv == ChildInit => ChildInv
<1> SUFFICES ASSUME ChildInit PROVE ChildInv
  OBVIOUS
<1>1. WriterTypeOK /\ Entered = {} /\ Finished = {}
  <2>1. DOMAIN writer = Writers /\ \A w \in Writers : writer[w] = NotBegun
    BY DEF ChildInit
  <2>2. DOMAIN NotBegun = WriterFields /\ NotBegun.at = "start" /\ NotBegun.list = <<>>
    BY DEF NotBegun, WriterFields
  <2>3. <<>> \in Seq(Children)
    OBVIOUS
  <2> QED
    BY <2>1, <2>2, <2>3 DEF WriterTypeOK, WriterPoints, Entered, Finished, Inserting
<1>2. [w \in Writers |-> 0] \in [Writers -> Nat]
  OBVIOUS
<1>3. \A r : Ranked(r)
  BY <1>1 DEF Ranked
<1> QED
  BY <1>1, <1>2, <1>3 DEF ChildInit, ChildInv

\* The beginning of a replacement.
LEMMA ReplaceStep ==
    ASSUME ChildInv, NEW w \in Writers, NEW list \in Lists, replace(w, list)
    PROVE  ChildInv'
<1>1. PICK todo \in SetToSeqs(attached) : Statement(w, "delete", "replace", list, todo)
  BY DEF replace
<1>2. list \in Seq(Children)
  BY ChildrenAssumption
<1>3. Alone(w) /\ writer'[w].at = "delete"
  BY <1>1, <1>2, StatementAlone DEF ChildInv
<1> QED
  BY <1>3, OutsideStep DEF replace, Finished, WriterPoints

\* A failure is of one call.
LEMMA FailsAlone ==
    ASSUME WriterTypeOK, NEW w \in Writers, writer' = [writer EXCEPT ![w].at = "failed"] \/ Rollback(w)
    PROVE  Alone(w) /\ writer'[w].at = "failed"
<1>1. <<>> \in Seq(Children)
  OBVIOUS
<1> QED
  BY <1>1 DEF WriterTypeOK, WriterFields, Rollback, NotBegun, Alone

\* A single assignment.
LEMMA AssignStep ==
    ASSUME ChildInv, NEW w \in Writers, NEW c \in Singles, assign(w, c)
    PROVE  ChildInv'
<1>1. writer[w].at = "start" /\ attached' = attached /\ w \notin Entered /\ w \notin Finished
  BY DEF assign, Entered, Inserting, Finished
<1>2. CASE c \in attached
  <2>1. Alone(w) /\ writer'[w].at = "failed"
    BY <1>2, FailsAlone DEF assign, ChildInv
  <2> QED
    BY <1>1, <2>1, OutsideStep DEF WriterPoints
<1>3. CASE c \notin attached
  <2>1. <<c>> \in Seq(Children)
    BY ChildrenAssumption
  <2>2. Statement(w, "insert", "assign", <<c>>, <<c>>)
    BY <1>3 DEF assign
  <2>3. Alone(w) /\ writer'[w].at = "insert" /\ writer'[w].list = <<c>> /\ writer'[w].todo = <<c>>
    BY <2>1, <2>2, StatementAlone DEF ChildInv
  <2> QED
    BY <1>1, <2>3, EnterStep DEF Inserting
<1> QED
  BY <1>2, <1>3

\* A single removal.
LEMMA RemoveStep ==
    ASSUME ChildInv, NEW w \in Writers, NEW c \in Singles, remove(w, c)
    PROVE  ChildInv'
<1>1. writer[w].at = "start" /\ attached' = attached /\ w \notin Finished
  BY DEF remove, Finished
<1>2. CASE c \notin attached
  <2>1. Alone(w) /\ writer'[w].at = "failed"
    BY <1>2, FailsAlone DEF remove, ChildInv
  <2> QED
    BY <1>1, <2>1, OutsideStep DEF WriterPoints
<1>3. CASE c \in attached
  <2>1. <<>> \in Seq(Children)
    OBVIOUS
  <2>2. Statement(w, "found", "remove", <<>>, <<c>>)
    BY <1>3 DEF remove
  <2>3. Alone(w) /\ writer'[w].at = "found"
    BY <2>1, <2>2, StatementAlone DEF ChildInv
  <2> QED
    BY <1>1, <2>3, OutsideStep DEF WriterPoints
<1> QED
  BY <1>2, <1>3

\* Every step of a writer.
LEMMA WriterStep ==
    ASSUME ChildInv, NEW w \in Writers, step(w)
    PROVE  ChildInv'
<1>0. WriterTypeOK
  BY DEF ChildInv
<1>1. CASE removeStatement(w)
  <2>1. Alone(w) /\ writer'[w].at = "delete"
    BY <1>0, <1>1 DEF removeStatement, Alone, WriterTypeOK, WriterFields
  <2> QED
    BY <1>1, <2>1, OutsideStep DEF removeStatement, WriterPoints, Finished
<1>2. CASE deleteRow(w)
  <2>1. Alone(w) /\ writer'[w].at = "delete"
    BY <1>0, <1>2 DEF deleteRow, Alone, WriterTypeOK, WriterFields
  <2> QED
    BY <1>2, <2>1, OutsideStep DEF deleteRow, WriterPoints, Finished
<1>3. CASE insertStatement(w)
  <2>1. Alone(w) /\ writer'[w].at = "insert" /\ writer'[w].todo = writer'[w].list
    BY <1>0, <1>3 DEF insertStatement, Alone, WriterTypeOK, WriterFields
  <2> QED
    BY <1>3, <2>1, EnterStep DEF insertStatement, Inserting, Entered, Finished
<1>4. CASE insertChild(w)
  <2>1. /\ Alone(w) /\ writer'[w].at = "insert" /\ writer'[w].list = writer[w].list
        /\ writer'[w].todo = Tail(writer[w].todo) /\ writer'[w].gone = writer[w].gone
        /\ writer'[w].new = writer[w].new \cup {Head(writer[w].todo)}
    BY <1>0, <1>4 DEF insertChild, Alone, WriterTypeOK, WriterFields
  <2> QED
    BY <1>4, <2>1, SettleStep DEF insertChild, Inserting
<1>5. CASE skipRow(w)
  <2>1. /\ Alone(w) /\ writer'[w].at = "insert" /\ writer'[w].list = writer[w].list
        /\ writer'[w].todo = Tail(writer[w].todo) /\ writer'[w].gone = writer[w].gone
        /\ writer'[w].new = writer[w].new
    BY <1>0, <1>5 DEF skipRow, Alone, WriterTypeOK, WriterFields
  <2> QED
    BY <1>5, <2>1, SettleStep DEF skipRow, Conflicts, Inserting
<1>6. CASE uniqueViolation(w) \/ deadlockDetected(w)
  <2>1. Rollback(w) /\ attached' = attached /\ w \notin Finished
    BY <1>6 DEF uniqueViolation, deadlockDetected, Running, Finished
  <2>2. Alone(w) /\ writer'[w].at = "failed"
    BY <1>0, <2>1, FailsAlone
  <2> QED
    BY <2>1, <2>2, OutsideStep DEF WriterPoints
<1>7. CASE commitRows(w)
  BY <1>7, CommitStep
<1> QED
  BY <1>1, <1>2, <1>3, <1>4, <1>5, <1>6, <1>7 DEF step

\* Every step preserves the invariant.
LEMMA ChildStep == ChildInv /\ [ChildNext]_childVars => ChildInv'
<1> SUFFICES ASSUME ChildInv, [ChildNext]_childVars PROVE ChildInv'
  OBVIOUS
<1>1. CASE UNCHANGED childVars
  BY <1>1 DEF childVars, ChildInv, WriterTypeOK, Finished, Ranked, Entered, Inserting, Settled
<1>2. CASE ChildNext
  BY <1>2, ReplaceStep, AssignStep, RemoveStep, WriterStep DEF ChildNext
<1> QED
  BY <1>1, <1>2

\* The latest of the calls that have ended has its whole list in the table.
LEMMA LatestIsThere ==
    ASSUME ChildInv, Finished # {}
    PROVE  \E w \in Finished : ToSet(writer[w].list) \subseteq attached
<1>1. PICK r \in [Writers -> Nat] : Ranked(r)
  BY DEF ChildInv
<1> DEFINE ranks == {r[w] : w \in Finished}
<1>2. ranks \subseteq Nat /\ ranks # {}
  BY DEF Finished
<1>3. PICK w \in Finished : \A v \in Finished : r[w] <= r[v]
  <2>1. PICK x \in ranks : \A y \in ranks : x <= y
    BY <1>2, LeastElement
  <2> QED
    BY <2>1
<1>4. w \in Entered /\ w \in Writers /\ writer[w].at = "done"
  BY <1>3 DEF Entered, Finished
<1>5. writer[w].new = {} /\ ToSet(writer[w].todo) = {}
  BY <1>4 DEF ChildInv, WriterTypeOK, ToSet
<1>6. \A v \in Finished : ~(r[v] < r[w])
  BY <1>1, <1>3 DEF Finished
<1>7. Settled(w) \subseteq attached
  BY <1>1, <1>4, <1>5, <1>6 DEF Ranked
<1> QED
  BY <1>3, <1>5, <1>7 DEF Settled

\* The invariant implies the property.
LEMMA ChildInvSound == ChildInv => ReplacementsSound
<1> SUFFICES ASSUME ChildInv PROVE NoneOnlyIfAsked /\ OneListIsThere
  BY DEF ReplacementsSound
<1>1. OneListIsThere
  BY LatestIsThere DEF OneListIsThere
<1>2. NoneOnlyIfAsked
  <2> SUFFICES ASSUME attached = {}, Stored # {} PROVE \E w \in Finished : writer[w].list = <<>>
    BY DEF NoneOnlyIfAsked
  <2>1. Finished # {}
    BY DEF ChildInv
  <2>2. PICK w \in Finished : ToSet(writer[w].list) \subseteq {}
    BY <2>1, LatestIsThere
  <2>3. writer[w].list \in Seq(Children)
    BY <2>2 DEF ChildInv, WriterTypeOK, Finished
  <2>4. writer[w].list = <<>>
    <3> SUFFICES ASSUME writer[w].list # <<>> PROVE FALSE
      OBVIOUS
    <3>1. Head(writer[w].list) \in ToSet(writer[w].list)
      BY <2>3, HeadAndTail
    <3> QED
      BY <2>2, <3>1
  <2> QED
    BY <2>2, <2>4
<1> QED
  BY <1>1, <1>2

\* However replacements of one parent's rows overlap, wait for each other's locks,
\* conflict and deadlock (replaceUserRoles, setAmenities, replaceItinerary), nobody
\* sees the parent without rows unless that was asked for, and in the end the list of
\* one call that was completed is there.
THEOREM ReplacementsLeaveAList == ChildSpec => []ReplacementsSound
<1>1. ChildInit => ChildInv
  BY ChildInitInv
<1>2. ChildInv /\ [ChildNext]_childVars => ChildInv'
  BY ChildStep
<1>3. ChildInv => ReplacementsSound
  BY ChildInvSound
<1> QED
  BY <1>1, <1>2, <1>3, PTL DEF ChildSpec

-----------------------------------------------------------------------------
\* Seeding: crashes and reruns leave every parent once, with its children.

SeedPoints == {"off", "select", "insert", "dress", "revoke", "grant", "done"}

SeedTypeOK ==
    /\ copies \in [Items -> Nat]
    /\ dressed \in [Items -> Nat]
    /\ seeder \in [Scripts -> [at : SeedPoints, item : Items]]
    /\ stopped \subseteq Items /\ together \subseteq Items

\* A script that is to insert a row had found none, and so had whoever inserts
\* a second one.
InsertsOnce ==
    /\ \A i \in Items : copies[i] > 1 => i \in together \ UniqueItems
    /\ \A p \in Scripts : Stands(p, "insert") /\ copies[Item(p)] > 0 => Item(p) \in together \cup UniqueItems

\* Items that p has behind it.
Past(p, i) == ~Stands(p, "off") /\ (Stands(p, "done") \/ i < Item(p))

Stood ==
    \A p \in Scripts :
        /\ \A i \in Items : Past(p, i) => copies[i] > 0
        /\ Stands(p, "off") => Item(p) = 1
        /\ Stands(p, "dress") => Item(p) \in ParentItems /\ copies[Item(p)] > 0
        /\ Stands(p, "revoke") \/ Stands(p, "grant") => Item(p) \in RoleItems /\ copies[Item(p)] > 0

Dressing(i) == {p \in Scripts : seeder[p] = [at |-> "dress", item |-> i]}

\* Each row of an item lacks its own rows only while a script is to insert them.
ParentsWhole ==
    /\ \A i \in ParentItems : IsFiniteSet(Dressing(i))
    /\ \A i \in ParentItems \ stopped : copies[i] = dressed[i] + Cardinality(Dressing(i))

Granting(i) == \E p \in Scripts : Stands(p, "grant") /\ Item(p) = i

\* A role lacks its permissions only while a script is to grant them, or before any
\* script has passed it.
RolesWhole ==
    \A i \in RoleItems \ stopped :
        copies[i] > 0 => dressed[i] = 1 \/ Granting(i) \/ \A p \in Scripts : ~Past(p, i)

SeedInv == SeedTypeOK /\ InsertsOnce /\ Stood /\ ParentsWhole /\ RolesWhole

-----------------------------------------------------------------------------
\* Where a script is after one of its moves, and that the others stay.
LEMMA SeederMoves ==
    ASSUME SeedTypeOK, NEW p \in Scripts
    PROVE  /\ \A where \in SeedPoints : GoesTo(p, where) =>
                /\ seeder' \in [Scripts -> [at : SeedPoints, item : Items]]
                /\ seeder'[p] = [at |-> where, item |-> Item(p)]
                /\ \A o \in Scripts \ {p} : seeder'[o] = seeder[o]
           /\ NextItem(p) =>
                /\ seeder' \in [Scripts -> [at : SeedPoints, item : Items]]
                /\ \/ seeder'[p] = [at |-> "done", item |-> LastItem] /\ Item(p) = LastItem
                   \/ seeder'[p] = [at |-> "select", item |-> Item(p) + 1] /\ Item(p) + 1 \in Items
                /\ \A o \in Scripts \ {p} : seeder'[o] = seeder[o]
<1> USE DEF SeedTypeOK, Item
<1>1. ASSUME NEW where \in SeedPoints, GoesTo(p, where)
      PROVE  /\ seeder' \in [Scripts -> [at : SeedPoints, item : Items]]
             /\ seeder'[p] = [at |-> where, item |-> Item(p)]
             /\ \A o \in Scripts \ {p} : seeder'[o] = seeder[o]
  BY <1>1 DEF GoesTo
<1>2. ASSUME NextItem(p)
      PROVE  /\ seeder' \in [Scripts -> [at : SeedPoints, item : Items]]
             /\ \/ seeder'[p] = [at |-> "done", item |-> LastItem] /\ Item(p) = LastItem
                \/ seeder'[p] = [at |-> "select", item |-> Item(p) + 1] /\ Item(p) + 1 \in Items
             /\ \A o \in Scripts \ {p} : seeder'[o] = seeder[o]
  <2>1. Item(p) \in Items /\ LastItem \in Items /\ "done" \in SeedPoints /\ "select" \in SeedPoints
    BY SeedingAssumption DEF Items, SeedPoints
  <2>2. Item(p) # LastItem => Item(p) + 1 \in Items
    BY <2>1, SeedingAssumption DEF Items
  <2> QED
    BY <1>2, <2>1, <2>2 DEF NextItem
<1> QED
  BY <1>1, <1>2

\* A move of p from one point to another that is not that of a row's children.
LEMMA SameDressing ==
    ASSUME NEW p \in Scripts, ~Stands(p, "dress"), ~Stands(p, "dress")',
           \A o \in Scripts \ {p} : seeder'[o] = seeder[o]
    PROVE  \A i : Dressing(i)' = Dressing(i)
  BY DEF Dressing, Stands

\* A move that changes no row: past items stay past.
LEMMA SeedQuiet ==
    ASSUME SeedInv, NEW p \in Scripts,
           seeder' \in [Scripts -> [at : SeedPoints, item : Items]],
           \A o \in Scripts \ {p} : seeder'[o] = seeder[o],
           UNCHANGED <<copies, dressed, stopped>>, together \subseteq together', together' \subseteq Items,
           ~Stands(p, "dress") /\ ~Stands(p, "grant"),
           ~Stands(p, "dress")',
           Stands(p, "off")' => Item(p)' = 1,
           Stands(p, "insert")' => copies[Item(p)'] = 0,
           Stands(p, "revoke")' \/ Stands(p, "grant")' => Item(p)' \in RoleItems /\ copies[Item(p)'] > 0,
           \A i \in Items : Past(p, i)' => Past(p, i) \/ (i \notin RoleItems /\ copies[i] > 0)
    PROVE  SeedInv'
<1> USE DEF SeedInv
<1>1. SeedTypeOK'
  BY DEF SeedTypeOK
<1>2. InsertsOnce'
  <2> SUFFICES ASSUME NEW o \in Scripts, Stands(o, "insert")', copies'[Item(o)'] > 0
               PROVE  (Item(o) \in together \cup UniqueItems)'
    BY DEF InsertsOnce
  <2>1. CASE o = p
    BY <2>1
  <2>2. CASE o # p
    BY <2>2 DEF InsertsOnce, Stands, Item
  <2> QED
    BY <2>1, <2>2
<1>3. Stood'
  <2> SUFFICES ASSUME NEW o \in Scripts
               PROVE  /\ \A i \in Items : Past(o, i)' => copies'[i] > 0
                      /\ Stands(o, "off")' => Item(o)' = 1
                      /\ Stands(o, "dress")' => Item(o)' \in ParentItems /\ copies'[Item(o)'] > 0
                      /\ Stands(o, "revoke")' \/ Stands(o, "grant")' => Item(o)' \in RoleItems /\ copies'[Item(o)'] > 0
    BY DEF Stood
  <2>1. CASE o = p
    BY <2>1 DEF Stood
  <2>2. CASE o # p
    BY <2>2 DEF Stood, Stands, Item, Past
  <2> QED
    BY <2>1, <2>2
<1>4. ParentsWhole'
  BY SameDressing DEF ParentsWhole
<1>5. RolesWhole'
  <2> SUFFICES ASSUME NEW i \in RoleItems \ stopped, copies[i] > 0, dressed[i] # 1, ~Granting(i)',
                      NEW o \in Scripts, Past(o, i)'
               PROVE  FALSE
    BY DEF RolesWhole
  <2>1. i \in Items
    BY SeedingAssumption
  <2>2. ~Granting(i)
    BY DEF Granting, Stands, Item
  <2>3. Past(o, i)
    BY <2>1 DEF Past, Stands, Item
  <2> QED
    BY <2>2, <2>3 DEF RolesWhole
<1> QED
  BY <1>1, <1>2, <1>3, <1>4, <1>5

-----------------------------------------------------------------------------

\* At the start nothing is there and no script runs.
LEMMA SeedInitInv == SeedInit => SeedInv
<1> SUFFICES ASSUME SeedInit PROVE SeedInv
  OBVIOUS
<1>1. SeedTypeOK /\ InsertsOnce /\ Stood /\ RolesWhole
  BY SeedingAssumption DEF SeedInit, SeedTypeOK, InsertsOnce, Stood, RolesWhole, SeedPoints, Items, Stands, Item, Past
<1>2. \A i : Dressing(i) = {}
  BY DEF SeedInit, Dressing
<1>3. ParentsWhole
  BY <1>2, FS_EmptySet, SeedingAssumption DEF SeedInit, ParentsWhole
<1> QED
  BY <1>1, <1>3 DEF SeedInv

\* A script starts.
LEMMA RunStep ==
    ASSUME SeedInv, NEW p \in Scripts, runSeed(p)
    PROVE  SeedInv'
<1> USE DEF SeedInv
<1>1. /\ seeder' \in [Scripts -> [at : SeedPoints, item : Items]]
      /\ seeder'[p] = [at |-> "select", item |-> 1]
      /\ \A o \in Scripts \ {p} : seeder'[o] = seeder[o]
  BY SeedingAssumption DEF runSeed, SeedTypeOK, SeedPoints, Items
<1>2. \A i \in Items : ~Past(p, i)'
  BY <1>1 DEF Past, Stands, Item, Items
<1> QED
  BY <1>1, <1>2, SeedQuiet DEF runSeed, Stands, Item, SeedTypeOK

\* Past an item whose row is there, without the steps of a role.
LEMMA BeyondStep ==
    ASSUME SeedInv, NEW p \in Scripts, Beyond(p), Known(Item(p)),
           Stands(p, "select") \/ Stands(p, "insert"),
           UNCHANGED <<copies, dressed, stopped>>, together \subseteq together', together' \subseteq Items
    PROVE  SeedInv'
<1> USE DEF SeedInv
<1>1. copies[Item(p)] > 0 /\ Item(p) \in Items
  BY DEF Known, SeedTypeOK, Item
<1>2. CASE Item(p) \in RoleItems
  <2>1. GoesTo(p, "revoke") /\ "revoke" \in SeedPoints
    BY <1>2 DEF Beyond, SeedPoints
  <2>2. /\ seeder' \in [Scripts -> [at : SeedPoints, item : Items]]
        /\ seeder'[p] = [at |-> "revoke", item |-> Item(p)]
        /\ \A o \in Scripts \ {p} : seeder'[o] = seeder[o]
    BY <2>1, SeederMoves
  <2>3. \A i \in Items : Past(p, i)' => Past(p, i)
    BY <2>2 DEF Past, Stands, Item
  <2> QED
    BY <1>1, <1>2, <2>2, <2>3, SeedQuiet DEF Stands, Item
<1>3. CASE Item(p) \notin RoleItems
  <2>1. NextItem(p)
    BY <1>3 DEF Beyond
  <2>2. /\ seeder' \in [Scripts -> [at : SeedPoints, item : Items]]
        /\ \/ seeder'[p] = [at |-> "done", item |-> LastItem] /\ Item(p) = LastItem
           \/ seeder'[p] = [at |-> "select", item |-> Item(p) + 1] /\ Item(p) + 1 \in Items
        /\ \A o \in Scripts \ {p} : seeder'[o] = seeder[o]
    BY <2>1, SeederMoves
  <2>3. \A i \in Items : Past(p, i)' => Past(p, i) \/ i = Item(p)
    BY <1>1, <2>2 DEF Past, Stands, Item, Items
  <2> QED
    BY <1>1, <1>3, <2>2, <2>3, SeedQuiet DEF Stands, Item
<1> QED
  BY <1>2, <1>3

\* The select of findOrCreate.
LEMMA SelectStep ==
    ASSUME SeedInv, NEW p \in Scripts, selectItem(p)
    PROVE  SeedInv'
<1> USE DEF SeedInv
<1>1. CASE Known(Item(p))
  BY <1>1, BeyondStep DEF selectItem, SeedTypeOK
<1>2. CASE ~Known(Item(p))
  <2>1. GoesTo(p, "insert") /\ "insert" \in SeedPoints
    BY <1>2 DEF selectItem, SeedPoints
  <2>2. /\ seeder' \in [Scripts -> [at : SeedPoints, item : Items]]
        /\ seeder'[p] = [at |-> "insert", item |-> Item(p)]
        /\ \A o \in Scripts \ {p} : seeder'[o] = seeder[o]
    BY <2>1, SeederMoves
  <2>3. copies[Item(p)] = 0
    BY <1>2 DEF Known, SeedTypeOK, Item
  <2>4. \A i \in Items : Past(p, i)' => Past(p, i)
    BY <2>2 DEF Past, Stands, Item, selectItem
  <2> QED
    BY <2>2, <2>3, <2>4, SeedQuiet DEF Stands, Item, selectItem, SeedTypeOK
<1> QED
  BY <1>1, <1>2

\* A script stops.
LEMMA StopStep ==
    ASSUME SeedInv, NEW p \in Scripts, stop(p)
    PROVE  SeedInv'
<1> USE DEF SeedInv
<1>1. /\ seeder' \in [Scripts -> [at : SeedPoints, item : Items]]
      /\ seeder'[p] = [at |-> "off", item |-> 1]
      /\ \A o \in Scripts \ {p} : seeder'[o] = seeder[o]
      /\ Item(p) \in Items
  BY SeedingAssumption DEF stop, SeedTypeOK, SeedPoints, Items, Item
<1>2. \A i \in Items : ~Past(p, i)'
  BY <1>1 DEF Past, Stands, Item
<1>3. CASE ~Stands(p, "dress") /\ ~Stands(p, "grant")
  BY <1>1, <1>2, <1>3, SeedQuiet DEF stop, Stands, Item, SeedTypeOK
<1>4. CASE Stands(p, "dress") \/ Stands(p, "grant")
  <2>1. stopped' = stopped \cup {Item(p)} /\ UNCHANGED <<copies, dressed, together>>
    BY <1>4 DEF stop
  <2>2. SeedTypeOK'
    BY <1>1, <2>1 DEF SeedTypeOK
  <2>3. InsertsOnce' /\ Stood'
    BY <1>1, <1>2, <2>1 DEF InsertsOnce, Stood, Stands, Item, Past
  <2>4. \A i : Dressing(i)' = Dressing(i) \ {p}
    BY <1>1 DEF Dressing
  <2>5. \A i \in ParentItems \ {Item(p)} : Dressing(i)' = Dressing(i)
    BY <1>1 DEF Dressing, Item
  <2>6. ParentsWhole'
    BY <2>1, <2>4, <2>5, FS_RemoveElement DEF ParentsWhole
  <2>7. ASSUME NEW i \in RoleItems \ stopped', copies[i] > 0, dressed[i] # 1, ~Granting(i)'
        PROVE  \A o \in Scripts : ~Past(o, i)'
    <3>1. i # Item(p) /\ i \notin stopped /\ i \in Items
      BY <2>1, SeedingAssumption
    <3>2. ~Granting(i)
      BY <1>1, <3>1, <2>7 DEF Granting, Stands, Item
    <3>3. \A o \in Scripts : ~Past(o, i)
      BY <2>7, <3>1, <3>2 DEF RolesWhole
    <3> QED
      BY <1>1, <1>2, <3>1, <3>3 DEF Past, Stands, Item
  <2>8. RolesWhole'
    BY <2>1, <2>7 DEF RolesWhole
  <2> QED
    BY <2>2, <2>3, <2>6, <2>8
<1> QED
  BY <1>3, <1>4

\* Where a script is after it has inserted a row, or replaced a role's permissions.
LEMMA BeyondMoves ==
    ASSUME SeedTypeOK, NEW p \in Scripts, ~Stands(p, "off"), ~Stands(p, "done"),
           Beyond(p) \/ (NextItem(p) /\ Item(p) \notin RoleItems)
    PROVE  /\ seeder' \in [Scripts -> [at : SeedPoints, item : Items]]
           /\ \A o \in Scripts \ {p} : seeder'[o] = seeder[o]
           /\ ~Stands(p, "dress")' /\ ~Stands(p, "grant")' /\ ~Stands(p, "insert")' /\ ~Stands(p, "off")'
           /\ Stands(p, "revoke")' => Item(p)' = Item(p) /\ Item(p) \in RoleItems
           /\ \A i \in Items : Past(p, i)' => Past(p, i) \/ (i = Item(p) /\ i \notin RoleItems)
<1>1. CASE Item(p) \in RoleItems
  <2>1. GoesTo(p, "revoke") /\ "revoke" \in SeedPoints
    BY <1>1 DEF Beyond, SeedPoints
  <2>2. /\ seeder' \in [Scripts -> [at : SeedPoints, item : Items]]
        /\ seeder'[p] = [at |-> "revoke", item |-> Item(p)]
        /\ \A o \in Scripts \ {p} : seeder'[o] = seeder[o]
    BY <2>1, SeederMoves
  <2> QED
    BY <1>1, <2>2 DEF Past, Stands, Item
<1>2. CASE Item(p) \notin RoleItems
  <2>1. NextItem(p)
    BY <1>2 DEF Beyond
  <2>2. /\ seeder' \in [Scripts -> [at : SeedPoints, item : Items]]
        /\ \/ seeder'[p] = [at |-> "done", item |-> LastItem] /\ Item(p) = LastItem
           \/ seeder'[p] = [at |-> "select", item |-> Item(p) + 1] /\ Item(p) + 1 \in Items
        /\ \A o \in Scripts \ {p} : seeder'[o] = seeder[o]
    BY <2>1, SeederMoves
  <2>3. Item(p) \in Items
    BY DEF SeedTypeOK, Item
  <2> QED
    BY <1>2, <2>2, <2>3 DEF Past, Stands, Item, Items
<1> QED
  BY <1>1, <1>2

\* The insert of findOrCreate.
LEMMA InsertStep ==
    ASSUME SeedInv, NEW p \in Scripts, insertItem(p)
    PROVE  SeedInv'
<1> USE DEF SeedInv
<1> DEFINE i == Item(p)
<1>0. i \in Items /\ together' \subseteq Items /\ together \subseteq together' /\ Stands(p, "insert")
      /\ copies[i] \in Nat /\ UNCHANGED <<dressed, stopped>>
  BY DEF insertItem, SeedTypeOK, Item
<1>1. CASE Conflict(i)
  BY <1>0, <1>1, BeyondStep DEF insertItem, Conflict, Known
<1>2. CASE ~Conflict(i)
  <2>1. copies' = [copies EXCEPT ![i] = @ + 1] /\ (copies[i] > 0 => i \notin UniqueItems)
    BY <1>2 DEF insertItem, Conflict
  <2>2. copies' \in [Items -> Nat] /\ copies'[i] = copies[i] + 1 /\ \A j \in Items \ {i} : copies'[j] = copies[j]
    BY <1>0, <2>1 DEF SeedTypeOK
  <2>3. /\ seeder' \in [Scripts -> [at : SeedPoints, item : Items]]
        /\ \A o \in Scripts \ {p} : seeder'[o] = seeder[o]
        /\ Stands(p, "dress")' => i \in ParentItems /\ Item(p)' = i
        /\ i \in ParentItems => seeder'[p] = [at |-> "dress", item |-> i]
        /\ ~Stands(p, "grant")' /\ ~Stands(p, "insert")' /\ ~Stands(p, "off")'
        /\ Stands(p, "revoke")' => Item(p)' = i /\ i \in RoleItems
        /\ \A j \in Items : Past(p, j)' => Past(p, j) \/ (j = i /\ j \notin RoleItems)
    <3>1. CASE i \in ParentItems
      <4>1. GoesTo(p, "dress") /\ "dress" \in SeedPoints
        BY <1>2, <3>1 DEF insertItem, SeedPoints
      <4>2. /\ seeder' \in [Scripts -> [at : SeedPoints, item : Items]]
            /\ seeder'[p] = [at |-> "dress", item |-> Item(p)]
            /\ \A o \in Scripts \ {p} : seeder'[o] = seeder[o]
        BY <4>1, SeederMoves
      <4> QED
        BY <1>0, <3>1, <4>2 DEF Past, Stands, Item
    <3>2. CASE i \notin ParentItems
      <4>1. Beyond(p)
        BY <1>2, <3>2 DEF insertItem
      <4> QED
        BY <1>0, <3>2, <4>1, BeyondMoves DEF Stands
    <3> QED
      BY <3>1, <3>2
  <2>4. SeedTypeOK'
    BY <1>0, <2>2, <2>3 DEF SeedTypeOK
  <2>5. InsertsOnce'
    <3>1. ASSUME NEW j \in Items, copies'[j] > 1 PROVE j \in together' \ UniqueItems
      BY <1>0, <2>1, <2>2, <3>1 DEF InsertsOnce
    <3>2. ASSUME NEW o \in Scripts, Stands(o, "insert")', copies'[Item(o)'] > 0
          PROVE  Item(o)' \in together' \cup UniqueItems
      <4>1. o # p /\ seeder'[o] = seeder[o] /\ Stands(o, "insert") /\ Item(o)' = Item(o)
        BY <2>3, <3>2 DEF Stands, Item
      <4>2. CASE Item(o) = i
        <5>1. seeder[o] = [at |-> "insert", item |-> Item(p)]
          BY <4>1, <4>2 DEF Stands, Item, SeedTypeOK
        <5>2. Meeting(p)
          BY <4>1, <5>1 DEF Meeting
        <5> QED
          BY <4>1, <4>2, <5>2 DEF insertItem
      <4>3. CASE Item(o) # i
        BY <1>0, <2>2, <3>2, <4>1, <4>3 DEF InsertsOnce, SeedTypeOK, Item
      <4> QED
        BY <4>2, <4>3
    <3> QED
      BY <3>1, <3>2 DEF InsertsOnce
  <2>6. Stood'
    <3> SUFFICES ASSUME NEW o \in Scripts
                 PROVE  /\ \A j \in Items : Past(o, j)' => copies'[j] > 0
                        /\ Stands(o, "off")' => Item(o)' = 1
                        /\ Stands(o, "dress")' => Item(o)' \in ParentItems /\ copies'[Item(o)'] > 0
                        /\ Stands(o, "revoke")' \/ Stands(o, "grant")' => Item(o)' \in RoleItems /\ copies'[Item(o)'] > 0
      BY DEF Stood
    <3>1. \A j \in Items : copies[j] > 0 => copies'[j] > 0
      BY <1>0, <2>2
    <3>2. CASE o = p
      BY <1>0, <2>2, <2>3, <3>1, <3>2 DEF Stood
    <3>3. CASE o # p
      <4>1. Item(o) \in Items
        BY DEF SeedTypeOK, Item
      <4> QED
        BY <2>3, <3>1, <3>3, <4>1 DEF Stood, Stands, Item, Past
    <3> QED
      BY <3>2, <3>3
  <2>7. ParentsWhole'
    <3>1. ASSUME NEW j \in ParentItems
          PROVE  Dressing(j)' = IF j = i THEN Dressing(j) \cup {p} ELSE Dressing(j)
      BY <1>0, <2>3 DEF Dressing, Stands, Item
    <3>2. \A j : p \notin Dressing(j)
      BY <1>0 DEF Dressing, Stands
    <3>3. ASSUME NEW j \in ParentItems, IsFiniteSet(Dressing(j))
          PROVE  /\ IsFiniteSet(Dressing(j)')
                 /\ Cardinality(Dressing(j)') = Cardinality(Dressing(j)) + (IF j = i THEN 1 ELSE 0)
                 /\ Cardinality(Dressing(j)) \in Nat
      BY <3>1, <3>2, <3>3, FS_AddElement, FS_CardinalityType
    <3>4. ParentItems \subseteq Items
      BY SeedingAssumption
    <3> QED
      BY <1>0, <2>2, <3>3, <3>4 DEF ParentsWhole, SeedTypeOK
  <2>8. RolesWhole'
    <3> SUFFICES ASSUME NEW j \in RoleItems \ stopped, copies'[j] > 0, dressed[j] # 1, ~Granting(j)',
                        NEW o \in Scripts, Past(o, j)'
                 PROVE  FALSE
      BY <1>0 DEF RolesWhole
    <3>1. j \in Items /\ j \in UniqueItems
      BY SeedingAssumption
    <3>2. Past(o, j)
      BY <2>3, <3>1 DEF Past, Stands, Item
    <3>3. copies[j] > 0
      BY <3>1, <3>2 DEF Stood
    <3>4. ~Granting(j)
      BY <1>0, <2>3 DEF Granting, Stands, Item
    <3> QED
      BY <3>2, <3>3, <3>4 DEF RolesWhole
  <2> QED
    BY <2>4, <2>5, <2>6, <2>7, <2>8
<1> QED
  BY <1>1, <1>2

\* The rows that belong to a row.
LEMMA ChildrenStep ==
    ASSUME SeedInv, NEW p \in Scripts, insertChildren(p)
    PROVE  SeedInv'
<1> USE DEF SeedInv
<1> DEFINE i == Item(p)
<1>1. /\ Stands(p, "dress") /\ NextItem(p) /\ i \in ParentItems /\ i \in Items /\ i \notin RoleItems
      /\ UNCHANGED <<copies, stopped, together>>
  BY SeedingAssumption DEF insertChildren, Stood, SeedTypeOK, Item
<1>2. dressed' \in [Items -> Nat] /\ dressed'[i] = dressed[i] + 1 /\ \A j \in Items \ {i} : dressed'[j] = dressed[j]
  BY <1>1 DEF insertChildren, SeedTypeOK
<1>3. /\ seeder' \in [Scripts -> [at : SeedPoints, item : Items]]
      /\ \A o \in Scripts \ {p} : seeder'[o] = seeder[o]
      /\ ~Stands(p, "dress")' /\ ~Stands(p, "grant")' /\ ~Stands(p, "insert")' /\ ~Stands(p, "off")'
      /\ ~Stands(p, "revoke")'
      /\ \A j \in Items : Past(p, j)' => Past(p, j) \/ j = i
  BY <1>1, BeyondMoves DEF Stands
<1>4. SeedTypeOK'
  BY <1>1, <1>2, <1>3 DEF SeedTypeOK
<1>5. InsertsOnce'
  BY <1>1, <1>3 DEF InsertsOnce, Stands, Item
<1>6. Stood'
  <2>1. ASSUME NEW o \in Scripts, NEW j \in Items, Past(o, j)' PROVE copies'[j] > 0
    BY <1>1, <1>3, <2>1 DEF Stood, Past, Stands, Item
  <2> QED
    BY <1>1, <1>3, <2>1 DEF Stood, Stands, Item
<1>7. ParentsWhole'
  <2>1. ASSUME NEW j \in ParentItems
        PROVE  Dressing(j)' = IF j = i THEN Dressing(j) \ {p} ELSE Dressing(j)
    BY <1>1, <1>3 DEF Dressing, Stands, Item
  <2>2. p \in Dressing(i)
    BY <1>1 DEF Dressing, Stands, Item, SeedTypeOK
  <2>3. ASSUME NEW j \in ParentItems, IsFiniteSet(Dressing(j))
        PROVE  /\ IsFiniteSet(Dressing(j)')
               /\ Cardinality(Dressing(j)') = Cardinality(Dressing(j)) - (IF j = i THEN 1 ELSE 0)
               /\ Cardinality(Dressing(j)) \in Nat
    BY <2>1, <2>2, <2>3, FS_RemoveElement, FS_CardinalityType
  <2>4. ParentItems \subseteq Items
    BY SeedingAssumption
  <2> QED
    BY <1>1, <1>2, <2>3, <2>4 DEF ParentsWhole, SeedTypeOK
<1>8. RolesWhole'
  <2>1. RoleItems \subseteq Items \ {i}
    BY <1>1, SeedingAssumption
  <2>2. \A j \in RoleItems : Granting(j)' <=> Granting(j)
    BY <1>1, <1>3 DEF Granting, Stands, Item
  <2>3. \A j \in RoleItems, o \in Scripts : Past(o, j)' => Past(o, j)
    BY <1>3, <2>1 DEF Past, Stands, Item
  <2> QED
    BY <1>1, <1>2, <2>1, <2>2, <2>3 DEF RolesWhole
<1> QED
  BY <1>4, <1>5, <1>6, <1>7, <1>8

\* A role's permissions are deleted.
LEMMA RevokeStep ==
    ASSUME SeedInv, NEW p \in Scripts, revokePermissions(p)
    PROVE  SeedInv'
<1> USE DEF SeedInv
<1> DEFINE i == Item(p)
<1>1. /\ Stands(p, "revoke") /\ i \in RoleItems /\ i \in Items /\ i \notin ParentItems /\ copies[i] > 0
      /\ UNCHANGED <<copies, stopped, together>>
  BY SeedingAssumption DEF revokePermissions, Stood, SeedTypeOK, Item
<1>2. dressed' \in [Items -> Nat] /\ \A j \in Items \ {i} : dressed'[j] = dressed[j]
  BY <1>1 DEF revokePermissions, SeedTypeOK
<1>3. /\ seeder' \in [Scripts -> [at : SeedPoints, item : Items]]
      /\ seeder'[p] = [at |-> "grant", item |-> i]
      /\ \A o \in Scripts \ {p} : seeder'[o] = seeder[o]
  <2>1. GoesTo(p, "grant") /\ "grant" \in SeedPoints
    BY DEF revokePermissions, SeedPoints
  <2> QED
    BY <2>1, SeederMoves
<1>4. SeedTypeOK'
  BY <1>1, <1>2, <1>3 DEF SeedTypeOK
<1>5. InsertsOnce'
  BY <1>1, <1>3 DEF InsertsOnce, Stands, Item
<1>6. \A o \in Scripts, j \in Items : Past(o, j)' => Past(o, j)
  BY <1>1, <1>3 DEF Past, Stands, Item
<1>7. Stood'
  BY <1>1, <1>3, <1>6 DEF Stood, Stands, Item
<1>8. ParentsWhole'
  <2>1. \A j : Dressing(j)' = Dressing(j)
    BY <1>1, <1>3 DEF Dressing, Stands
  <2>2. ParentItems \subseteq Items \ {i}
    BY <1>1, SeedingAssumption
  <2> QED
    BY <1>1, <1>2, <2>1, <2>2 DEF ParentsWhole
<1>9. RolesWhole'
  <2>1. \A j \in RoleItems : j = i => Granting(j)'
    BY <1>3 DEF Granting, Stands, Item
  <2>2. \A j \in RoleItems \ {i} : Granting(j)' <=> Granting(j)
    BY <1>1, <1>3 DEF Granting, Stands, Item
  <2>3. RoleItems \subseteq Items
    BY SeedingAssumption
  <2>4. ASSUME NEW j \in RoleItems \ stopped', copies'[j] > 0, ~Granting(j)', NEW o \in Scripts, Past(o, j)'
        PROVE  dressed'[j] = 1
    <3>1. j # i
      BY <2>1, <2>4
    <3>2. j \in Items /\ j \in RoleItems \ stopped /\ copies[j] > 0
      BY <1>1, <2>3, <2>4
    <3>3. ~Granting(j)
      BY <2>2, <2>4, <3>1
    <3>4. Past(o, j)
      BY <1>6, <2>4, <3>2
    <3> QED
      BY <1>2, <3>1, <3>2, <3>3, <3>4 DEF RolesWhole
  <2> QED
    BY <2>4 DEF RolesWhole
<1> QED
  BY <1>4, <1>5, <1>7, <1>8, <1>9

\* A role's permissions are granted again.
LEMMA GrantStep ==
    ASSUME SeedInv, NEW p \in Scripts, grantPermissions(p)
    PROVE  SeedInv'
<1> USE DEF SeedInv
<1> DEFINE i == Item(p)
<1>1. /\ Stands(p, "grant") /\ i \in RoleItems /\ i \in Items /\ i \notin ParentItems /\ copies[i] > 0
      /\ stopped' = stopped \ {i} /\ UNCHANGED <<copies, together>> /\ NextItem(p)
  BY SeedingAssumption DEF grantPermissions, Stood, SeedTypeOK, Item
<1>2. dressed' \in [Items -> Nat] /\ dressed'[i] = 1 /\ \A j \in Items \ {i} : dressed'[j] = dressed[j]
  BY <1>1 DEF grantPermissions, SeedTypeOK
<1>3. /\ seeder' \in [Scripts -> [at : SeedPoints, item : Items]]
      /\ \/ seeder'[p] = [at |-> "done", item |-> LastItem] /\ Item(p) = LastItem
         \/ seeder'[p] = [at |-> "select", item |-> Item(p) + 1] /\ Item(p) + 1 \in Items
      /\ \A o \in Scripts \ {p} : seeder'[o] = seeder[o]
  BY <1>1, SeederMoves
<1>4. SeedTypeOK'
  BY <1>1, <1>2, <1>3 DEF SeedTypeOK
<1>5. InsertsOnce'
  BY <1>1, <1>3 DEF InsertsOnce, Stands, Item
<1>6. \A o \in Scripts, j \in Items : Past(o, j)' => Past(o, j) \/ j = i
  BY <1>1, <1>3 DEF Past, Stands, Item, Items
<1>7. Stood'
  BY <1>1, <1>3, <1>6 DEF Stood, Stands, Item
<1>8. ParentsWhole'
  <2>1. \A j : Dressing(j)' = Dressing(j)
    BY <1>1, <1>3 DEF Dressing, Stands
  <2>2. ParentItems \subseteq Items \ {i}
    BY <1>1, SeedingAssumption
  <2> QED
    BY <1>1, <1>2, <2>1, <2>2 DEF ParentsWhole
<1>9. RolesWhole'
  <2>1. \A j \in RoleItems \ {i} : Granting(j)' <=> Granting(j)
    BY <1>1, <1>3 DEF Granting, Stands, Item
  <2>2. RoleItems \subseteq Items
    BY SeedingAssumption
  <2> QED
    BY <1>1, <1>2, <1>6, <2>1, <2>2 DEF RolesWhole
<1> QED
  BY <1>4, <1>5, <1>7, <1>8, <1>9

\* Every step preserves the invariant.
LEMMA SeedStep == SeedInv /\ [SeedNext]_seedVars => SeedInv'
<1> SUFFICES ASSUME SeedInv, [SeedNext]_seedVars PROVE SeedInv'
  OBVIOUS
<1>1. CASE UNCHANGED seedVars
  BY <1>1 DEF seedVars, SeedInv, SeedTypeOK, InsertsOnce, Stood, ParentsWhole, RolesWhole,
              Dressing, Granting, Past, Stands, Item
<1>2. CASE SeedNext
  BY <1>2, RunStep, SelectStep, InsertStep, ChildrenStep, RevokeStep, GrantStep, StopStep DEF SeedNext
<1> QED
  BY <1>1, <1>2

\* When every script has ended and one of them at its end, nobody is dressing a row
\* or granting permissions, and every item is behind one that has ended.
LEMMA SeedInvSound == SeedInv => SeedingSound
<1> SUFFICES ASSUME SeedInv PROVE SeededOnce /\ SeededWhole
  BY DEF SeedingSound
<1> USE DEF SeedInv
<1>1. SeededOnce
  BY DEF SeededOnce, InsertsOnce
<1>2. SeededWhole
  <2> SUFFICES ASSUME NEW p \in Scripts, Stands(p, "done"),
                      \A o \in Scripts : Stands(o, "done") \/ Stands(o, "off")
               PROVE  /\ \A i \in Items : copies[i] > 0
                      /\ \A i \in (ParentItems \cup RoleItems) \ stopped : dressed[i] = copies[i]
    BY DEF SeededWhole
  <2>1. \A i \in Items : copies[i] > 0 /\ Past(p, i)
    BY DEF Stood, Past, Stands
  <2>2. ASSUME NEW i \in ParentItems \ stopped PROVE dressed[i] = copies[i]
    <3>1. Dressing(i) = {}
      BY DEF Dressing, Stands
    <3>2. i \in Items
      BY SeedingAssumption
    <3> QED
      BY <3>1, <3>2, FS_EmptySet DEF ParentsWhole, SeedTypeOK
  <2>3. ASSUME NEW i \in RoleItems \ stopped PROVE dressed[i] = copies[i]
    <3>1. i \in Items /\ i \in UniqueItems
      BY SeedingAssumption
    <3>2. ~Granting(i)
      BY DEF Granting, Stands
    <3>3. dressed[i] = 1
      BY <2>1, <3>1, <3>2 DEF RolesWhole
    <3> QED
      BY <2>1, <3>1, <3>3 DEF InsertsOnce, SeedTypeOK
  <2> QED
    BY <2>1, <2>2, <2>3
<1> QED
  BY <1>1, <1>2

\* However often the seed script stops, runs again or runs beside itself
\* (seeds/index.js, findOrCreate): an item is there once unless two scripts looked for
\* it together, and after a run that came to its end everything is there with what
\* belongs to it, unless a script had stopped just before that.
THEOREM SeededWholeAndOnce == SeedSpec => []SeedingSound
<1>1. SeedInit => SeedInv
  BY SeedInitInv
<1>2. SeedInv /\ [SeedNext]_seedVars => SeedInv'
  BY SeedStep
<1>3. SeedInv => SeedingSound
  BY SeedInvSound
<1> QED
  BY <1>1, <1>2, <1>3, PTL DEF SeedSpec

-----------------------------------------------------------------------------
\* What an agency sees

\* The rows of an agency are the value that was saved for it last, if any was.
RowsOfLast ==
    /\ DOMAIN last = Scopes
    /\ \A row \in saved : row.agency \in Scopes
    /\ \A a \in Agencies :
         /\ \A row \in saved : row.agency = a => row.value = last[a]
         /\ (\A row \in saved : row.agency # a) => last[a] = Default

\* An upsert replaces the rows of its agency and leaves those of the others.
LEMMA SettingsStep == RowsOfLast /\ [SettingsNext]_settingsVars => RowsOfLast'
<1> SUFFICES ASSUME RowsOfLast, [SettingsNext]_settingsVars PROVE RowsOfLast'
  OBVIOUS
<1>1. CASE UNCHANGED <<saved, last>>
  BY <1>1 DEF RowsOfLast
<1>2. ASSUME NEW s \in Savers, NEW b \in Scopes, NEW value \in Values, setSetting(s, b, value)
      PROVE  RowsOfLast'
  <2> DEFINE new == [agency |-> b, value |-> value, id |-> IF b = NoAgency THEN s ELSE NoAgency]
  <2>1. new.agency = b /\ new.value = value
    OBVIOUS
  <2>2. saved' = {row \in saved : row.agency # b \/ b = NoAgency} \cup {new}
    BY <1>2 DEF setSetting
  <2> HIDE DEF new
  <2>3. \A row \in saved' : row = new \/ (row \in saved /\ (row.agency # b \/ b = NoAgency))
    BY <2>2
  <2>4. new \in saved' /\ \A row \in saved : row.agency # b => row \in saved'
    BY <2>2
  <2>5. DOMAIN last' = Scopes /\ last'[b] = value /\ \A a \in Scopes \ {b} : last'[a] = last[a]
    BY <1>2 DEF setSetting, RowsOfLast
  <2>6. \A row \in saved' : row.agency \in Scopes
    BY <2>1, <2>3 DEF RowsOfLast
  <2>7. ASSUME NEW a \in Agencies, NEW row \in saved', row.agency = a PROVE row.value = last'[a]
    <3>1. a \in Scopes /\ a # NoAgency
      BY SettingsAssumption DEF Scopes
    <3>2. CASE row = new
      BY <2>1, <2>5, <2>7, <3>2
    <3>3. CASE row # new
      BY <2>3, <2>5, <2>7, <3>1, <3>3 DEF RowsOfLast
    <3> QED BY <3>2, <3>3
  <2>8. ASSUME NEW a \in Agencies, \A row \in saved' : row.agency # a PROVE last'[a] = Default
    <3>1. a \in Scopes /\ a # b
      BY <2>1, <2>4, <2>8 DEF Scopes
    <3>2. \A row \in saved : row.agency # a
      BY <2>4, <2>8, <3>1
    <3> QED BY <2>5, <3>1, <3>2 DEF RowsOfLast
  <2> QED BY <2>5, <2>6, <2>7, <2>8 DEF RowsOfLast
<1> QED BY <1>1, <1>2 DEF SettingsNext, settingsVars, answerSettings, saveFails

\* Whatever other agencies save, an agency's users see what it saved last, as
\* long as there is no row for all (settingsService.js: getSettings, setSetting).
THEOREM AgenciesSeeTheirOwn == SettingsSpec => []AgencySeesItsOwn
<1>1. SettingsInit => RowsOfLast
  BY DEF SettingsInit, RowsOfLast, Scopes
<1>2. RowsOfLast => AgencySeesItsOwn
  <2> SUFFICES ASSUME RowsOfLast, \A row \in saved : row.agency # NoAgency, NEW a \in Agencies
               PROVE  settingsOf(a) = {last[a]}
    BY DEF AgencySeesItsOwn
  <2> DEFINE seen == {row \in saved : Selected(row, a)}
  <2>1. \A row \in saved : row \in seen <=> row.agency = a
    BY DEF Selected
  <2>2. seen \subseteq saved
    OBVIOUS
  <2>3. settingsOf(a) = IF seen = {} THEN {Default} ELSE {row.value : row \in seen}
    BY DEF settingsOf
  <2> HIDE DEF seen
  <2>4. CASE seen = {}
    BY <2>1, <2>3, <2>4 DEF RowsOfLast
  <2>5. CASE seen # {}
    <3>1. \A row \in seen : row.value = last[a]
      BY <2>1, <2>2 DEF RowsOfLast
    <3> QED BY <2>3, <2>5, <3>1
  <2> QED BY <2>4, <2>5
<1> QED BY <1>1, <1>2, SettingsStep, PTL DEF SettingsSpec

-----------------------------------------------------------------------------
\* Deletions and the keys between the tables

\* The row of the child goes with the row of its parent.
Cascades(k) == k.onDelete = "cascade"

\* The tables that have rows which go with a row of theirs.
Described == {"users", "roles", "permissions", "hotels", "amenities", "roomTypes", "ratePlans",
              "customers", "bookings", "invoices", "tourPackages"}

\* What a cascade may take along: never a record, a part of a booking only with the
\* booking, and of the rows that have such rows themselves only room types, which
\* go with their hotel.
CascadeFact(child, parent) ==
    /\ child \notin RecordTables
    /\ child \in BookingParts => parent = "bookings"
    /\ child = "roomTypes" => parent = "hotels"
    /\ child # "roomTypes" => child \notin Described
    /\ parent \in Described

\* The tables that the initial states leave out are named by nobody but each other.
LeftOut == {"payments", "refunds", "invoices", "invoiceItems", "commissions", "bookingServices", "bookingRooms", "tourBookings"}

NamedFact(child, parent) ==
    parent \in LeftOut => \/ parent = "payments" /\ child = "refunds"
                          \/ parent = "invoices" /\ child = "invoiceItems"

\* What the proofs need of each key.
KeyFacts(keys) ==
    \A k \in keys : /\ k.onDelete \in {"cascade", "restrict", "set null"}
                    /\ NamedFact(k.child, k.parent)
                    /\ Cascades(k) => CascadeFact(k.child, k.parent)

\* The fields of a key.
LEMMA KeysAre ==
    ASSUME NEW action, NEW columns, NEW k \in Keys(action, columns)
    PROVE  /\ k.onDelete = action
           /\ \E c \in columns : k.child = c[1] /\ k.column = c[2] /\ k.parent = c[3]
<1>1. PICK c \in columns : k = [child |-> c[1], column |-> c[2], parent |-> c[3], onDelete |-> action]
  BY DEF Keys
<1> QED BY <1>1

\* Keys written down as columns have the facts of these columns.
LEMMA KnownKeys ==
    ASSUME NEW columns, NEW action, action = "cascade" \/ action = "restrict" \/ action = "set null",
           \A c \in columns : NamedFact(c[1], c[3]) /\ (action = "cascade" => CascadeFact(c[1], c[3]))
    PROVE  KeyFacts(Keys(action, columns))
<1> SUFFICES ASSUME NEW k \in Keys(action, columns)
             PROVE  /\ k.onDelete = action
                    /\ NamedFact(k.child, k.parent) /\ (action = "cascade" => CascadeFact(k.child, k.parent))
  BY DEF KeyFacts, Cascades
<1>1. \E c \in columns : k.child = c[1] /\ k.column = c[2] /\ k.parent = c[3]
  BY ONLY k \in Keys(action, columns), KeysAre
<1>2. PICK c \in columns : k.child = c[1] /\ k.column = c[2] /\ k.parent = c[3]
  BY <1>1
<1>3. NamedFact(c[1], c[3]) /\ (action = "cascade" => CascadeFact(c[1], c[3]))
  OBVIOUS
<1> QED BY <1>2, <1>3, KeysAre

\* Facts about the keys of two groups of tables are facts about both.
LEMMA BothKeys ==
    ASSUME NEW A, NEW B, KeyFacts(A), KeyFacts(B)
    PROVE  KeyFacts(A \cup B)
  BY DEF KeyFacts

\* Every foreign key of the schema is as described.
LEMMA KeysShallow == KeyFacts(ForeignKeys)
<1>1. KeyFacts(PeopleKeys)
  <2>1. \A c \in {<<"users", "agencyId", "agencies">>} :
            NamedFact(c[1], c[3])
    BY DEF NamedFact, LeftOut
  <2>2. \A c \in {<<"userRoles", "userId", "users">>, <<"userRoles", "roleId", "roles">>,
               <<"rolePermissions", "roleId", "roles">>,
               <<"rolePermissions", "permissionId", "permissions">>} :
            NamedFact(c[1], c[3]) /\ CascadeFact(c[1], c[3])
    BY DEF NamedFact, LeftOut, CascadeFact, RecordTables, BookingParts, Described
  <2> QED BY <2>1, <2>2, KnownKeys, BothKeys DEF PeopleKeys
<1>2. KeyFacts(HotelKeys)
  <2>1. \A c \in {<<"hotels", "agencyId", "agencies">>} :
            NamedFact(c[1], c[3])
    BY DEF NamedFact, LeftOut
  <2>2. \A c \in {<<"hotelImages", "hotelId", "hotels">>, <<"hotelAmenities", "hotelId", "hotels">>,
               <<"hotelAmenities", "amenityId", "amenities">>,
               <<"roomTypes", "hotelId", "hotels">>} :
            NamedFact(c[1], c[3]) /\ CascadeFact(c[1], c[3])
    BY DEF NamedFact, LeftOut, CascadeFact, RecordTables, BookingParts, Described
  <2> QED BY <2>1, <2>2, KnownKeys, BothKeys DEF HotelKeys
<1>3. KeyFacts(RoomKeys)
  <2>1. \A c \in {<<"roomTypeImages", "roomTypeId", "roomTypes">>,
               <<"roomTypeAmenities", "roomTypeId", "roomTypes">>,
               <<"roomTypeAmenities", "amenityId", "amenities">>,
               <<"rooms", "roomTypeId", "roomTypes">>, <<"roomRates", "roomTypeId", "roomTypes">>,
               <<"roomRates", "ratePlanId", "ratePlans">>} :
            NamedFact(c[1], c[3]) /\ CascadeFact(c[1], c[3])
    BY DEF NamedFact, LeftOut, CascadeFact, RecordTables, BookingParts, Described
  <2> QED BY <2>1, KnownKeys DEF RoomKeys
<1>4. KeyFacts(BookingKeys)
  <2>1. \A c \in {<<"customers", "userId", "users">>, <<"bookings", "agentId", "users">>} :
            NamedFact(c[1], c[3])
    BY DEF NamedFact, LeftOut
  <2>2. \A c \in {<<"customerDocuments", "customerId", "customers">>} :
            NamedFact(c[1], c[3]) /\ CascadeFact(c[1], c[3])
    BY DEF NamedFact, LeftOut, CascadeFact, RecordTables, BookingParts, Described
  <2>3. \A c \in {<<"bookings", "hotelId", "hotels">>, <<"bookings", "customerId", "customers">>} :
            NamedFact(c[1], c[3])
    BY DEF NamedFact, LeftOut
  <2> QED BY <2>1, <2>2, <2>3, KnownKeys, BothKeys DEF BookingKeys
<1>5. KeyFacts(StayKeys)
  <2>1. \A c \in {<<"bookingRooms", "bookingId", "bookings">>,
               <<"bookingGuests", "bookingId", "bookings">>,
               <<"bookingServices", "bookingId", "bookings">>,
               <<"bookingStatusHistory", "bookingId", "bookings">>} :
            NamedFact(c[1], c[3]) /\ CascadeFact(c[1], c[3])
    BY DEF NamedFact, LeftOut, CascadeFact, RecordTables, BookingParts, Described
  <2>2. \A c \in {<<"bookingRooms", "roomId", "rooms">>,
               <<"bookingRooms", "roomTypeId", "roomTypes">>,
               <<"bookingServices", "serviceId", "services">>} :
            NamedFact(c[1], c[3])
    BY DEF NamedFact, LeftOut
  <2>3. \A c \in {<<"bookingRooms", "checkedInById", "users">>,
               <<"bookingRooms", "checkedOutById", "users">>,
               <<"bookingStatusHistory", "changedById", "users">>} :
            NamedFact(c[1], c[3])
    BY DEF NamedFact, LeftOut
  <2> QED BY <2>1, <2>2, <2>3, KnownKeys, BothKeys DEF StayKeys
<1>6. KeyFacts(MoneyKeys)
  <2>1. \A c \in {<<"payments", "bookingId", "bookings">>, <<"refunds", "paymentId", "payments">>,
               <<"invoices", "bookingId", "bookings">>} :
            NamedFact(c[1], c[3])
    BY DEF NamedFact, LeftOut
  <2>2. \A c \in {<<"invoiceItems", "invoiceId", "invoices">>} :
            NamedFact(c[1], c[3]) /\ CascadeFact(c[1], c[3])
    BY DEF NamedFact, LeftOut, CascadeFact, RecordTables, BookingParts, Described
  <2> QED BY <2>1, <2>2, KnownKeys, BothKeys DEF MoneyKeys
<1>7. KeyFacts(TourKeys)
  <2>1. \A c \in {<<"tourPackages", "destinationId", "destinations">>,
               <<"tourBookings", "tourPackageId", "tourPackages">>,
               <<"tourBookings", "customerId", "customers">>} :
            NamedFact(c[1], c[3])
    BY DEF NamedFact, LeftOut
  <2>2. \A c \in {<<"tourImages", "tourPackageId", "tourPackages">>,
               <<"tourItineraries", "tourPackageId", "tourPackages">>} :
            NamedFact(c[1], c[3]) /\ CascadeFact(c[1], c[3])
    BY DEF NamedFact, LeftOut, CascadeFact, RecordTables, BookingParts, Described
  <2> QED BY <2>1, <2>2, KnownKeys, BothKeys DEF TourKeys
<1>8. KeyFacts(TransportKeys)
  <2>1. \A c \in {<<"transportBookings", "vehicleId", "vehicles">>} :
            NamedFact(c[1], c[3])
    BY DEF NamedFact, LeftOut
  <2>2. \A c \in {<<"drivers", "vehicleId", "vehicles">>,
               <<"transportBookings", "driverId", "drivers">>} :
            NamedFact(c[1], c[3])
    BY DEF NamedFact, LeftOut
  <2> QED BY <2>1, <2>2, KnownKeys, BothKeys DEF TransportKeys
<1>9. KeyFacts(OfficeKeys)
  <2>1. \A c \in {<<"commissions", "agentId", "users">>, <<"commissions", "bookingId", "bookings">>,
               <<"notifications", "userId", "users">>} :
            NamedFact(c[1], c[3])
    BY DEF NamedFact, LeftOut
  <2>2. \A c \in {<<"auditLogs", "userId", "users">>, <<"settings", "agencyId", "agencies">>} :
            NamedFact(c[1], c[3])
    BY DEF NamedFact, LeftOut
  <2> QED BY <2>1, <2>2, KnownKeys, BothKeys DEF OfficeKeys
<1> QED BY <1>1, <1>2, <1>3, <1>4, <1>5, <1>6, <1>7, <1>8, <1>9, BothKeys DEF ForeignKeys

\* A step of a cascade.
LEMMA ReachedStep ==
    ASSUME NEW G, NEW x
    PROVE  x \in Reached(G) <=> \/ x \in G
                                \/ \E k \in ForeignKeys : Cascades(k) /\ k.parent \in G /\ Refers(k) /\ x = k.child
  BY DEF Reached, Cascades

\* Two steps reach all that a deletion takes along.
LEMMA DoomedClosed ==
    ASSUME NEW t
    PROVE  /\ t \in Doomed(t)
           /\ Reached(Doomed(t)) = Doomed(t)
           /\ \A x \in Doomed(t) : x = t \/ \E k \in ForeignKeys : Cascades(k) /\ k.parent \in Doomed(t) /\ x = k.child
<1> DEFINE A == Reached({t})
           B == Reached(A)
<1>1. {t} \subseteq A /\ A \subseteq B
  BY ReachedStep
<1>2. \A x \in A : x = t \/ \E k \in ForeignKeys : Cascades(k) /\ Refers(k) /\ k.parent = t /\ x = k.child
  BY ReachedStep
<1>3. \A x \in B : x \in A \/ \E k \in ForeignKeys : Cascades(k) /\ Refers(k) /\ k.parent \in A /\ x = k.child
  BY ReachedStep
<1>4. ASSUME NEW x \in Reached(B) PROVE x \in B
  <2> SUFFICES ASSUME x \notin B PROVE FALSE
    OBVIOUS
  <2>1. PICK k \in ForeignKeys : Cascades(k) /\ k.parent \in B /\ Refers(k) /\ x = k.child
    BY <1>4, ReachedStep
  <2>2. k.parent \notin A
    BY <2>1, ReachedStep
  <2>3. PICK l \in ForeignKeys : Cascades(l) /\ Refers(l) /\ l.parent \in A /\ k.parent = l.child
    BY <1>3, <2>1, <2>2
  <2>4. l.parent # t
    BY <2>2, <2>3, ReachedStep
  <2>5. PICK m \in ForeignKeys : Cascades(m) /\ Refers(m) /\ m.parent = t /\ l.parent = m.child
    BY <1>2, <2>3, <2>4
  <2>6. /\ CascadeFact(k.child, k.parent) /\ CascadeFact(l.child, l.parent) /\ CascadeFact(m.child, m.parent)
    BY <2>1, <2>3, <2>5, KeysShallow DEF KeyFacts
  <2>7. l.child = "roomTypes" /\ m.child = "roomTypes"
    BY <2>3, <2>5, <2>6 DEF CascadeFact
  <2> QED BY <2>5, <2>6, <2>7 DEF CascadeFact
<1>5. Reached(B) = B
  BY <1>4, ReachedStep
<1>6. Doomed(t) = B
  BY <1>5 DEF Doomed
<1>7. \A x \in B : x = t \/ \E k \in ForeignKeys : Cascades(k) /\ k.parent \in B /\ x = k.child
  BY <1>1, <1>2, <1>3
<1> HIDE DEF A, B
<1> QED BY <1>1, <1>5, <1>6, <1>7

\* A key leads from the child's column to the parent.
Leads(child, r) == \E k \in ForeignKeys : k.child = child /\ k.column = r[1] /\ k.parent = r[2]

\* Every listed column leads where the list says.
LEMMA KeyLeads ==
    ASSUME NEW action, NEW columns, NEW c \in columns, Keys(action, columns) \subseteq ForeignKeys
    PROVE  Leads(c[1], <<c[2], c[3]>>)
<1> DEFINE k == [child |-> c[1], column |-> c[2], parent |-> c[3], onDelete |-> action]
<1>1. k \in Keys(action, columns)
  BY DEF Keys
<1>2. k.child = c[1] /\ k.column = c[2] /\ k.parent = c[3]
  OBVIOUS
<1> HIDE DEF k
<1> QED BY <1>1, <1>2 DEF Leads

\* Every relation that queries load is a key.
LEMMA RelationsLead ==
    ASSUME NEW t, NEW r \in Relations(t)
    PROVE  Leads(t, r)
<1>1. \A c \in {<<"users", "agencyId", "agencies">>} :
        Leads(c[1], <<c[2], c[3]>>)
  <2>1. Keys("set null", {<<"users", "agencyId", "agencies">>})
           \subseteq ForeignKeys
    BY DEF ForeignKeys, PeopleKeys
  <2> QED BY <2>1, KeyLeads
<1>2. \A c \in {<<"userRoles", "userId", "users">>, <<"userRoles", "roleId", "roles">>,
               <<"rolePermissions", "roleId", "roles">>,
               <<"rolePermissions", "permissionId", "permissions">>} :
        Leads(c[1], <<c[2], c[3]>>)
  <2>1. Keys("cascade", {<<"userRoles", "userId", "users">>, <<"userRoles", "roleId", "roles">>,
                         <<"rolePermissions", "roleId", "roles">>,
                         <<"rolePermissions", "permissionId", "permissions">>})
           \subseteq ForeignKeys
    BY DEF ForeignKeys, PeopleKeys
  <2> QED BY <2>1, KeyLeads
<1>3. \A c \in {<<"hotels", "agencyId", "agencies">>} :
        Leads(c[1], <<c[2], c[3]>>)
  <2>1. Keys("set null", {<<"hotels", "agencyId", "agencies">>})
           \subseteq ForeignKeys
    BY DEF ForeignKeys, HotelKeys
  <2> QED BY <2>1, KeyLeads
<1>4. \A c \in {<<"hotelImages", "hotelId", "hotels">>, <<"hotelAmenities", "hotelId", "hotels">>,
               <<"hotelAmenities", "amenityId", "amenities">>,
               <<"roomTypes", "hotelId", "hotels">>} :
        Leads(c[1], <<c[2], c[3]>>)
  <2>1. Keys("cascade", {<<"hotelImages", "hotelId", "hotels">>,
                         <<"hotelAmenities", "hotelId", "hotels">>,
                         <<"hotelAmenities", "amenityId", "amenities">>,
                         <<"roomTypes", "hotelId", "hotels">>})
           \subseteq ForeignKeys
    BY DEF ForeignKeys, HotelKeys
  <2> QED BY <2>1, KeyLeads
<1>5. \A c \in {<<"roomTypeImages", "roomTypeId", "roomTypes">>,
               <<"roomTypeAmenities", "roomTypeId", "roomTypes">>,
               <<"roomTypeAmenities", "amenityId", "amenities">>,
               <<"rooms", "roomTypeId", "roomTypes">>, <<"roomRates", "roomTypeId", "roomTypes">>,
               <<"roomRates", "ratePlanId", "ratePlans">>} :
        Leads(c[1], <<c[2], c[3]>>)
  <2>1. Keys("cascade", {<<"roomTypeImages", "roomTypeId", "roomTypes">>,
                         <<"roomTypeAmenities", "roomTypeId", "roomTypes">>,
                         <<"roomTypeAmenities", "amenityId", "amenities">>,
                         <<"rooms", "roomTypeId", "roomTypes">>,
                         <<"roomRates", "roomTypeId", "roomTypes">>,
                         <<"roomRates", "ratePlanId", "ratePlans">>})
           \subseteq ForeignKeys
    BY DEF ForeignKeys, RoomKeys
  <2> QED BY <2>1, KeyLeads
<1>6. \A c \in {<<"customers", "userId", "users">>, <<"bookings", "agentId", "users">>} :
        Leads(c[1], <<c[2], c[3]>>)
  <2>1. Keys("set null", {<<"customers", "userId", "users">>, <<"bookings", "agentId", "users">>})
           \subseteq ForeignKeys
    BY DEF ForeignKeys, BookingKeys
  <2> QED BY <2>1, KeyLeads
<1>7. \A c \in {<<"customerDocuments", "customerId", "customers">>} :
        Leads(c[1], <<c[2], c[3]>>)
  <2>1. Keys("cascade", {<<"customerDocuments", "customerId", "customers">>})
           \subseteq ForeignKeys
    BY DEF ForeignKeys, BookingKeys
  <2> QED BY <2>1, KeyLeads
<1>8. \A c \in {<<"bookings", "hotelId", "hotels">>, <<"bookings", "customerId", "customers">>} :
        Leads(c[1], <<c[2], c[3]>>)
  <2>1. Keys("restrict", {<<"bookings", "hotelId", "hotels">>,
                         <<"bookings", "customerId", "customers">>})
           \subseteq ForeignKeys
    BY DEF ForeignKeys, BookingKeys
  <2> QED BY <2>1, KeyLeads
<1>9. \A c \in {<<"bookingRooms", "bookingId", "bookings">>,
               <<"bookingGuests", "bookingId", "bookings">>,
               <<"bookingServices", "bookingId", "bookings">>,
               <<"bookingStatusHistory", "bookingId", "bookings">>} :
        Leads(c[1], <<c[2], c[3]>>)
  <2>1. Keys("cascade", {<<"bookingRooms", "bookingId", "bookings">>,
                         <<"bookingGuests", "bookingId", "bookings">>,
                         <<"bookingServices", "bookingId", "bookings">>,
                         <<"bookingStatusHistory", "bookingId", "bookings">>})
           \subseteq ForeignKeys
    BY DEF ForeignKeys, StayKeys
  <2> QED BY <2>1, KeyLeads
<1>10. \A c \in {<<"bookingRooms", "roomId", "rooms">>,
               <<"bookingRooms", "roomTypeId", "roomTypes">>,
               <<"bookingServices", "serviceId", "services">>} :
        Leads(c[1], <<c[2], c[3]>>)
  <2>1. Keys("restrict", {<<"bookingRooms", "roomId", "rooms">>,
                         <<"bookingRooms", "roomTypeId", "roomTypes">>,
                         <<"bookingServices", "serviceId", "services">>})
           \subseteq ForeignKeys
    BY DEF ForeignKeys, StayKeys
  <2> QED BY <2>1, KeyLeads
<1>11. \A c \in {<<"bookingRooms", "checkedInById", "users">>,
               <<"bookingRooms", "checkedOutById", "users">>,
               <<"bookingStatusHistory", "changedById", "users">>} :
        Leads(c[1], <<c[2], c[3]>>)
  <2>1. Keys("set null", {<<"bookingRooms", "checkedInById", "users">>,
                         <<"bookingRooms", "checkedOutById", "users">>,
                         <<"bookingStatusHistory", "changedById", "users">>})
           \subseteq ForeignKeys
    BY DEF ForeignKeys, StayKeys
  <2> QED BY <2>1, KeyLeads
<1>12. \A c \in {<<"payments", "bookingId", "bookings">>, <<"refunds", "paymentId", "payments">>,
               <<"invoices", "bookingId", "bookings">>} :
        Leads(c[1], <<c[2], c[3]>>)
  <2>1. Keys("restrict", {<<"payments", "bookingId", "bookings">>,
                         <<"refunds", "paymentId", "payments">>,
                         <<"invoices", "bookingId", "bookings">>})
           \subseteq ForeignKeys
    BY DEF ForeignKeys, MoneyKeys
  <2> QED BY <2>1, KeyLeads
<1>13. \A c \in {<<"invoiceItems", "invoiceId", "invoices">>} :
        Leads(c[1], <<c[2], c[3]>>)
  <2>1. Keys("cascade", {<<"invoiceItems", "invoiceId", "invoices">>})
           \subseteq ForeignKeys
    BY DEF ForeignKeys, MoneyKeys
  <2> QED BY <2>1, KeyLeads
<1>14. \A c \in {<<"tourPackages", "destinationId", "destinations">>,
               <<"tourBookings", "tourPackageId", "tourPackages">>,
               <<"tourBookings", "customerId", "customers">>} :
        Leads(c[1], <<c[2], c[3]>>)
  <2>1. Keys("restrict", {<<"tourPackages", "destinationId", "destinations">>,
                         <<"tourBookings", "tourPackageId", "tourPackages">>,
                         <<"tourBookings", "customerId", "customers">>})
           \subseteq ForeignKeys
    BY DEF ForeignKeys, TourKeys
  <2> QED BY <2>1, KeyLeads
<1>15. \A c \in {<<"tourImages", "tourPackageId", "tourPackages">>,
               <<"tourItineraries", "tourPackageId", "tourPackages">>} :
        Leads(c[1], <<c[2], c[3]>>)
  <2>1. Keys("cascade", {<<"tourImages", "tourPackageId", "tourPackages">>,
                         <<"tourItineraries", "tourPackageId", "tourPackages">>})
           \subseteq ForeignKeys
    BY DEF ForeignKeys, TourKeys
  <2> QED BY <2>1, KeyLeads
<1>16. \A c \in {<<"transportBookings", "vehicleId", "vehicles">>} :
        Leads(c[1], <<c[2], c[3]>>)
  <2>1. Keys("restrict", {<<"transportBookings", "vehicleId", "vehicles">>})
           \subseteq ForeignKeys
    BY DEF ForeignKeys, TransportKeys
  <2> QED BY <2>1, KeyLeads
<1>17. \A c \in {<<"drivers", "vehicleId", "vehicles">>,
               <<"transportBookings", "driverId", "drivers">>} :
        Leads(c[1], <<c[2], c[3]>>)
  <2>1. Keys("set null", {<<"drivers", "vehicleId", "vehicles">>,
                         <<"transportBookings", "driverId", "drivers">>})
           \subseteq ForeignKeys
    BY DEF ForeignKeys, TransportKeys
  <2> QED BY <2>1, KeyLeads
<1>18. \A c \in {<<"commissions", "agentId", "users">>, <<"commissions", "bookingId", "bookings">>,
               <<"notifications", "userId", "users">>} :
        Leads(c[1], <<c[2], c[3]>>)
  <2>1. Keys("restrict", {<<"commissions", "agentId", "users">>,
                         <<"commissions", "bookingId", "bookings">>,
                         <<"notifications", "userId", "users">>})
           \subseteq ForeignKeys
    BY DEF ForeignKeys, OfficeKeys
  <2> QED BY <2>1, KeyLeads
<1>19. \A c \in {<<"auditLogs", "userId", "users">>, <<"settings", "agencyId", "agencies">>} :
        Leads(c[1], <<c[2], c[3]>>)
  <2>1. Keys("set null", {<<"auditLogs", "userId", "users">>,
                         <<"settings", "agencyId", "agencies">>})
           \subseteq ForeignKeys
    BY DEF ForeignKeys, OfficeKeys
  <2> QED BY <2>1, KeyLeads
<1> USE <1>1, <1>2, <1>3, <1>4, <1>5, <1>6, <1>7, <1>8, <1>9, <1>10, <1>11, <1>12, <1>13, <1>14, <1>15, <1>16, <1>17, <1>18, <1>19
<1>20. ASSUME t \in DOMAIN CatalogueRelations, r \in CatalogueRelations[t]
        PROVE  Leads(t, r)
  BY <1>20 DEF CatalogueRelations
<1>21. ASSUME t \in DOMAIN BookingRelations, r \in BookingRelations[t]
        PROVE  Leads(t, r)
  BY <1>21 DEF BookingRelations
<1>22. ASSUME t \in DOMAIN OtherRelations, r \in OtherRelations[t]
        PROVE  Leads(t, r)
  BY <1>22 DEF OtherRelations
<1> QED BY <1>20, <1>21, <1>22 DEF Relations

\* No deletion takes a record along, and none leaves a name without its row: a key to
\* a row that goes is restricted, which refuses the deletion, set to null, or cascades,
\* so that its own row goes as well.
LEMMA DeletionKeeps ==
    ASSUME NEW t, deleteFrom(t)
    PROVE  /\ RecordTables \cap there \subseteq there' \cup asked'
           /\ "bookings" \in there' => BookingParts \cap there \subseteq there' \cup asked'
           /\ NothingDangles => NothingDangles'
<1> DEFINE gone == Doomed(t)
<1>1. /\ t \in gone
      /\ Reached(gone) = gone
      /\ \A x \in gone : x = t \/ \E k \in ForeignKeys : Cascades(k) /\ k.parent \in gone /\ x = k.child
  BY DoomedClosed
<1>2. /\ t \in there
      /\ {k \in ForeignKeys : k.onDelete = "restrict" /\ k.parent \in gone /\ Refers(k)} = {}
      /\ there' = there \ gone
      /\ unset' = unset \cup {<<k.child, k.column>> : k \in {x \in ForeignKeys : x.onDelete = "set null" /\ x.parent \in gone /\ Refers(x)}}
      /\ asked' = asked \cup {t}
  BY DEF deleteFrom
<1> HIDE DEF gone
<1>3. ASSUME NEW x \in gone, x # t
      PROVE  \E k \in ForeignKeys : CascadeFact(k.child, k.parent) /\ k.parent \in gone /\ x = k.child
  BY <1>1, <1>3, KeysShallow DEF KeyFacts
<1>4. RecordTables \cap there \subseteq there' \cup asked'
  BY <1>2, <1>3 DEF CascadeFact
<1>5. ASSUME "bookings" \in there'
      PROVE  BookingParts \cap there \subseteq there' \cup asked'
  BY <1>2, <1>3, <1>5 DEF CascadeFact
<1>6. ASSUME NothingDangles, NEW x \in there', NEW r \in Relations(x), <<x, r[1]>> \notin unset'
      PROVE  r[2] \in there'
  <2>1. x \in there /\ x \notin gone /\ <<x, r[1]>> \notin unset
    BY <1>2, <1>6
  <2>2. r[2] \in there
    BY <1>6, <2>1 DEF NothingDangles
  <2> SUFFICES ASSUME r[2] \in gone PROVE FALSE
    BY <1>2, <2>2
  <2>3. PICK k \in ForeignKeys : k.child = x /\ k.column = r[1] /\ k.parent = r[2]
    BY RelationsLead DEF Leads
  <2>4. Refers(k)
    BY <2>1, <2>3 DEF Refers
  <2>5. CASE k.onDelete = "cascade"
    <3>1. x \in Reached(gone)
      BY <2>3, <2>4, <2>5, ReachedStep DEF Cascades
    <3> QED BY <1>1, <2>1, <3>1
  <2>6. CASE k.onDelete = "restrict"
    BY <1>2, <2>3, <2>4, <2>6
  <2>7. CASE k.onDelete = "set null"
    <3>1. <<k.child, k.column>> \in unset'
      BY <1>2, <2>3, <2>4, <2>7
    <3> QED BY <1>6, <2>3, <3>1
  <2> QED BY <2>5, <2>6, <2>7, KeysShallow DEF KeyFacts
<1>7. NothingDangles => NothingDangles'
  BY <1>6 DEF NothingDangles, Relations, CatalogueRelations
<1> QED BY <1>4, <1>5, <1>7

\* Every step deletes one row explicitly.
LEMMA NextDeletes == TablesNext => \E t : deleteFrom(t)
  BY DEF TablesNext, ServiceDelete, deleteByHand, deleteAmenity, deleteServiceRow, deleteRatePlan,
         deleteRoomRate, removeHotelImage, removeHotelAmenity, removeRoomTypeImage, removeRoomTypeAmenity,
         deleteItineraryRow, removeTourImage, removeDocument, deleteUserRoleRow, deleteRolePermissionRow

\* Whatever is deleted, in whatever order and however often: records of account go only
\* when they are what is deleted, a booking that stays keeps its parts, and what queries
\* load is there if it was (the keys of db/schema.js and the relations of db/relations.js).
THEOREM RecordsAreKept == TablesSpec => RecordsKept
<1> DEFINE Kept == /\ RecordTables \cap there \subseteq there' \cup asked'
                   /\ "bookings" \in there' => BookingParts \cap there \subseteq there' \cup asked'
                   /\ NothingDangles => NothingDangles'
<1>1. [TablesNext]_tableVars => [Kept]_tableVars
  <2>1. ASSUME NEW t, deleteFrom(t) PROVE Kept
    BY <2>1, DeletionKeeps
  <2> HIDE DEF Kept
  <2> QED BY <2>1, NextDeletes
<1>2. QED
  BY <1>1, PTL DEF TablesSpec, RecordsKept

\* Starting from a consistent database, what a query loads beside a row is always there.
THEOREM NothingIsLeftDangling == TablesSpec => []NothingDangles
<1>1. TablesInit => NothingDangles
  <2> SUFFICES ASSUME TablesInit, NEW t \in there, NEW r \in Relations(t)
               PROVE  r[2] \in there
    BY DEF NothingDangles
  <2>1. PICK k \in ForeignKeys : k.child = t /\ k.parent = r[2]
    BY RelationsLead DEF Leads
  <2>2. r[2] \in AllTables /\ NamedFact(t, r[2])
    <3>1. k.parent \in AllTables
      BY DEF AllTables
    <3> QED BY <2>1, <3>1, KeysShallow DEF KeyFacts
  <2> QED BY <2>2 DEF TablesInit, NamedFact, LeftOut
<1>2. NothingDangles /\ [TablesNext]_tableVars => NothingDangles'
  <2>1. ASSUME NothingDangles, NEW t, deleteFrom(t) PROVE NothingDangles'
    BY <2>1, DeletionKeeps
  <2>2. ASSUME NothingDangles, UNCHANGED tableVars PROVE NothingDangles'
    BY <2>2 DEF NothingDangles, tableVars
  <2>3. TablesNext => \E t : deleteFrom(t)
    BY NextDeletes
  <2> QED BY <2>1, <2>2, <2>3
<1> QED BY <1>1, <1>2, PTL DEF TablesSpec
=============================================================================

--------------------------- MODULE BookingPayments --------------------------
(***************************************************************************)
(* Money taken for bookings: booking_financials with its paid snapshot,    *)
(* booking_payment_collections with the finance transaction each one owns, *)
(* the receipt sequence, the receivables archive and the finance period    *)
(* lock.                                                                   *)
(*                                                                         *)
(* A payment or a void runs in three steps that others interleave: it      *)
(* reads and validates; it writes its own rows and computes the snapshot   *)
(* of the booking from what it can see; it writes the snapshot and         *)
(* commits.  On PostgreSQL a payment keeps the booking row locked from its *)
(* first read (FOR UPDATE) and the sequence row from its receipt number    *)
(* on; a void locks only the collection it voids.                          *)
(*                                                                         *)
(* A collection and its finance transaction are voided by the same         *)
(* transaction and by no other workflow, so one record stands for both.    *)
(***************************************************************************)
EXTENDS Transactions, FiniteSetsExt

CONSTANTS
    Booking,    \* customer bookings with a receivable
    OneToOne,   \* those that are the first session of a one-to-one package
    Payment,    \* rows of booking_payment_collections
    None,       \* no payment, nobody
    MaxPrice,   \* bound: largest quoted amount
    MaxOver,    \* bound: largest overpayment an administrator approves
    LastDay     \* bound: days a payment can be dated

ASSUME PaymentsAssumption ==
    /\ MaxPrice \in Nat \ {0} /\ MaxOver \in Nat /\ LastDay \in Nat \ {0}
    /\ OneToOne \subseteq Booking /\ None \notin Payment \cup Request

VARIABLES
    financial,    \* booking_financials: quoted amount and paid snapshot
    status,       \* of the booking, as far as payments look at it
    archived,     \* booking_receivables_archives
    collection,   \* booking_payment_collections: Payment -> row, partial
    sequence,     \* receipt_sequences.next_value
    lockedUntil   \* finance_period_locks.locked_until, 0 when there is none

records  == <<financial, collection, sequence>>
desk     == <<status, archived, lockedUntil>>
payments == <<records, desk>>
----------------------------------------------------------------------------
Day == 1 .. LastDay

Financial == [quoted : 0 .. MaxPrice, paid : BOOLEAN, latest : Payment \cup {None}]

\* over is the part of the amount that was approved as an overpayment
Collection == [booking : Booking, amount : 1 .. MaxPrice + MaxOver, over : 0 .. MaxOver,
               day : Day, receipt : Nat, voidedBy : Request \cup {None}]

Active(rows, b) == {p \in DOMAIN rows : rows[p].booking = b /\ rows[p].voidedBy = None}

Collected(b) == MapThenSumSet(LAMBDA p : collection[p].amount, Active(collection, b))

\* enrichBookingFinancials
Outstanding(b) == LET left == financial[b].quoted - Collected(b)
                  IN  IF left < 0 THEN 0 ELSE left

\* Among the active collections the one collected last; of one day the newest.
Latest(rows, b) ==
    LET later(p, q) == \/ rows[p].day > rows[q].day
                       \/ rows[p].day = rows[q].day /\ rows[p].receipt >= rows[q].receipt
    IN  IF Active(rows, b) = {} THEN None
        ELSE CHOOSE p \in Active(rows, b) : \A q \in Active(rows, b) : later(p, q)

\* What a request carries: the collection it adds or voids, the quoted amount
\* it settles for (0: the quoted amount stays), the snapshot it computed.
PaymentRequest ==
    [phase : {"read", "written"}, op : {"collect", "void"}, payment : Payment \cup {None},
     row : Collection, settle : 0 .. MaxPrice, paid : BOOLEAN, latest : Payment \cup {None}]

\* createOneToOneBooking confirms its booking at once.
PaymentsInit ==
    /\ financial \in [Booking -> {[quoted |-> q, paid |-> FALSE, latest |-> None] : q \in 1 .. MaxPrice}]
    /\ status = [b \in Booking |-> IF b \in OneToOne THEN "collectible" ELSE "awaiting"]
    /\ archived = {}
    /\ collection = [p \in {} |-> {}]
    /\ sequence = 1
    /\ lockedUntil = 0
----------------------------------------------------------------------------
(* Step 1: read and validate *)

\* SELECT id FROM space_schedules ... FOR UPDATE is not kept waiting by Others
RowFree(Others, b) ==
    driver = "postgres" => \A k \in Others : tx[k].op = "collect" => tx[k].row.booking # b

\* Mutant of Due: the amount is compared with the quoted price.
DueQuoted(b) == financial[b].quoted

\* What an ordinary payment may not exceed
Due(b) == Outstanding(b)

Begin(r, op, p, row, settle) ==
    /\ Look(r, [phase |-> "read", op |-> op, payment |-> p, row |-> row, settle |-> settle,
                paid |-> FALSE, latest |-> None])
    /\ UNCHANGED payments

\* collectBookingPaymentAtWithAdjustment up to its first write.  An approved
\* overpayment comes on top of the exact balance; a discount is what the
\* payment leaves of it, and the quoted amount becomes what was collected.
BeginCollect(r, b) ==
    \E amount \in 1 .. Due(b), over \in 0 .. MaxOver, discount \in 0 .. MaxPrice, day \in Day :
        /\ RowFree(Request \ {r}, b)
        /\ b \notin archived /\ status[b] = "collectible" /\ Due(b) > 0
        /\ over = 0 \/ discount = 0
        /\ over + discount > 0 => amount + discount = Outstanding(b)
        /\ Begin(r, "collect", None,
                 [booking |-> b, amount |-> amount + over, over |-> over, day |-> day,
                  receipt |-> 0, voidedBy |-> None],
                 IF discount > 0 THEN Collected(b) + amount ELSE 0)

\* voidBookingPaymentExpected up to its first write
BeginVoid(r, p) ==
    /\ collection[p].voidedBy = None
    /\ Begin(r, "void", p, [collection[p] EXCEPT !.voidedBy = r], 0)
----------------------------------------------------------------------------
(* Step 2: write the transaction's own rows, and compute the snapshot *)

HasWritten(r) == IsOpen(r) /\ tx[r].phase = "written"

Writers(r, op) == {k \in Request \ {r} : HasWritten(k) /\ tx[k].op = op}

\* Mutant of Visible: the snapshot is computed before the row is written.
VisibleBefore(p, row) == collection

\* The collections a transaction sees: the committed ones and its own row p.
Visible(p, row) ==
    [q \in DOMAIN collection \cup {p} |-> IF q = p THEN row ELSE collection[q]]

\* syncBookingFinancialSnapshotTx up to its UPDATE
Write(r, p, row) ==
    LET rows == Visible(p, row)
    IN  /\ tx[r].phase = "read"
        /\ driver = "sqlite" => \A k \in Request \ {r} : ~HasWritten(k)
        /\ Proceed(r, [tx[r] EXCEPT !.phase = "written", !.payment = p, !.row = row,
                                     !.paid = Active(rows, row.booking) # {},
                                     !.latest = Latest(rows, row.booking)])
        /\ UNCHANGED payments

\* Mutant of SequenceFree: the sequence row is not locked.
SequenceFreeUnlocked(r) == TRUE

\* receipt_sequences is locked by an upsert from the number to the commit
SequenceFree(r) == Writers(r, "collect") = {}

\* nextReceiptNumberTx, insertFinanceTransactionTx and the new collection; the
\* finance period lock is not asked
WriteCollect(r, p) ==
    /\ tx[r].op = "collect"
    /\ p \notin DOMAIN collection
    /\ SequenceFree(r)
    /\ Write(r, p, [tx[r].row EXCEPT !.receipt = sequence])

\* Mutant of MayVoid: the transaction's own check is dropped.
MayVoidAgain(p) == collection[p].day > lockedUntil

\* voidFinanceTransactionTx, ensureFinanceDateUnlockedTx
MayVoid(p) == collection[p].voidedBy = None /\ collection[p].day > lockedUntil

WriteVoid(r) ==
    /\ tx[r].op = "void"
    /\ \A k \in Writers(r, "void") : tx[k].payment # tx[r].payment
    /\ MayVoid(tx[r].payment)
    /\ Write(r, tx[r].payment, tx[r].row)
----------------------------------------------------------------------------
(* Step 3: write the snapshot and commit *)

CommitPayment(r) ==
    LET j == tx[r]
        b == j.row.booking
    IN  /\ j.op \in {"collect", "void"} /\ j.phase = "written"
        /\ collection' = [q \in DOMAIN collection \cup {j.payment} |->
                              IF q = j.payment THEN j.row ELSE collection[q]]
        /\ financial' = [financial EXCEPT
               ![b] = [quoted |-> IF j.settle > 0 THEN j.settle ELSE @.quoted,
                       paid |-> j.paid, latest |-> j.latest]]
        /\ sequence' = IF j.op = "collect" THEN j.row.receipt + 1 ELSE sequence
        /\ End(Overtaken({}) \cup {r})
        /\ UNCHANGED desk

\* Any error, a lost connection or a stop of the process rolls back.
GiveUpPayment(r) == GiveUp(r) /\ UNCHANGED payments
----------------------------------------------------------------------------
(* Transactions that lock the booking row themselves, and the period lock *)

AtDesk == End(Overtaken({})) /\ UNCHANGED <<collection, sequence>>

\* Mutant of Confirm: a discount is taken off twice.
ConfirmTwiceOff(b, price) ==
    /\ status[b] = "awaiting" /\ ~financial[b].paid
    /\ status' = [status EXCEPT ![b] = "collectible"]
    /\ financial' = [financial EXCEPT ![b].quoted = price - 2]
    /\ AtDesk /\ UNCHANGED <<archived, lockedUntil>>

\* transitionBookingRequestStatus and rescheduleBookingRequest to confirmed,
\* the latter at a new price
Confirm(b, price) ==
    /\ status[b] = "awaiting" /\ ~financial[b].paid
    /\ status' = [status EXCEPT ![b] = "collectible"]
    /\ financial' = [financial EXCEPT ![b].quoted = price]
    /\ AtDesk /\ UNCHANGED <<archived, lockedUntil>>

\* The UPDATE of booking_financials in updateOneToOneBookingPackage: it looks
\* neither at what is collected nor at the status or the archive.
Requote(b, price) == financial' = [financial EXCEPT ![b].quoted = price]

\* updateOneToOneBookingPackage as the payments see it (OneToOnePackages has the
\* rest): it updates the row of the booking first, so a payment is waited for.
EditPackage(b, price) ==
    /\ RowFree(Request, b)
    /\ Requote(b, price)
    /\ AtDesk /\ UNCHANGED desk

\* transitionManagedBookingStatus to no_show, the one status after
\* confirmation that takes no money
NoShow(b) ==
    /\ status[b] = "collectible" /\ b \notin archived /\ RowFree(Request, b)
    /\ status' = [status EXCEPT ![b] = "no_show"]
    /\ AtDesk /\ UNCHANGED <<financial, archived, lockedUntil>>

\* archiveBookingReceivable
Archive(b) ==
    /\ b \notin archived /\ RowFree(Request, b)
    /\ archived' = archived \cup {b}
    /\ AtDesk /\ UNCHANGED <<financial, status, lockedUntil>>

\* restoreBookingReceivable
Restore(b) ==
    /\ b \in archived /\ RowFree(Request, b)
    /\ archived' = archived \ {b}
    /\ AtDesk /\ UNCHANGED <<financial, status, lockedUntil>>

\* updateFinancePeriodLock
LockPeriod(day) ==
    /\ lockedUntil' = day /\ day # lockedUntil
    /\ AtDesk /\ UNCHANGED <<financial, status, archived>>
----------------------------------------------------------------------------
PaymentsNext ==
    \/ \E r \in Request :
        \/ \E b \in Booking : BeginCollect(r, b)
        \/ \E p \in DOMAIN collection : BeginVoid(r, p)
        \/ \E p \in Payment : WriteCollect(r, p)
        \/ WriteVoid(r) \/ CommitPayment(r) \/ GiveUpPayment(r)
    \/ \E b \in Booking :
        \/ \E price \in 1 .. MaxPrice : Confirm(b, price)
        \/ NoShow(b) \/ Archive(b) \/ Restore(b)
    \/ \E b \in OneToOne, price \in 0 .. MaxPrice : EditPackage(b, price)
    \/ \E day \in 0 .. LastDay : LockPeriod(day)
----------------------------------------------------------------------------
PaymentsTypeOK ==
    /\ financial \in [Booking -> Financial]
    /\ status \in [Booking -> {"awaiting", "collectible", "no_show"}]
    /\ archived \subseteq Booking
    /\ DOMAIN collection \subseteq Payment /\ collection \in [DOMAIN collection -> Collection]
    /\ sequence \in Nat \ {0}
    /\ lockedUntil \in 0 .. LastDay
    /\ \A r \in Request : tx[r].op \in {"collect", "void"} => tx[r] \in PaymentRequest

\* On SQLite the snapshot that the booking desk and the reports read (paid, and
\* the finance transaction behind it) is the one the collections give, however
\* payments and voids of one booking interleave. (On PostgreSQL a void and a
\* payment of one booking compute it from what each can see.)
SnapshotAgrees ==
    driver = "sqlite" =>
        \A b \in Booking : /\ financial[b].paid <=> Active(collection, b) # {}
                           /\ financial[b].latest = Latest(collection, b)

Approved(b) == MapThenSumSet(LAMBDA p : collection[p].over, Active(collection, b))

WithinQuote(b) == Collected(b) <= financial[b].quoted + Approved(b)

\* Nobody takes more for a booking than it is quoted at, except an overpayment
\* that somebody approved, and no more than what was approved: two cashiers do
\* not both take the balance, a package whose price is changed at that moment is
\* paid at one price or the other, and no discount or void upsets the sum.  So
\* more than the quote is never collected, but where the price of a package was
\* lowered afterwards (EditPackage does not look): then nothing is taken.
OnlyApprovedOverpayment ==
    /\ [](\A b \in Booking \ OneToOne : WithinQuote(b))
    /\ [][\A b \in Booking :
              (\E p \in DOMAIN collection' \ DOMAIN collection : collection'[p].booking = b)
              => WithinQuote(b)']_<<tx, payments>>

\* Receipt numbers are unique and have no gap, over all bookings and whatever
\* fails: nextReceiptNumberTx draws them inside the payment's transaction.
ReceiptsNumbered ==
    /\ \A p, q \in DOMAIN collection :
          collection[p].receipt = collection[q].receipt => p = q
    /\ {collection[p].receipt : p \in DOMAIN collection} = 1 .. sequence - 1

\* What the office has closed stays closed.  No payment is added to a booking
\* that is archived at that moment, also when the archive request comes in
\* between a payment's check and its commit.  The first void of a payment stays
\* when two administrators void it at the same time; and, on SQLite, a payment
\* dated in the locked period stays, also when the period is locked while a
\* void is under way.
ClosedStaysClosed ==
    [][/\ \A p \in DOMAIN collection' \ DOMAIN collection : collection'[p].booking \notin archived
       /\ \A p \in DOMAIN collection :
             \/ collection[p].voidedBy # None
             \/ driver = "sqlite" /\ collection[p].day <= lockedUntil
             => collection'[p] = collection[p]
      ]_<<tx, payments>>
=============================================================================

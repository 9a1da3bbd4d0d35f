--------------------------- MODULE BookingCapacity --------------------------
(***************************************************************************)
(* The booking desk: space_schedules, the court configuration it is        *)
(* validated against, and the HTTP handlers that write both.               *)
(*                                                                         *)
(* A handler that needs capacity runs in three steps, which other handlers *)
(* interleave: it loads the court configuration, it reads the slot and     *)
(* validates its candidate rows, and it writes and commits.  Creation and  *)
(* editing load the configuration before they open their transaction;      *)
(* confirmation and rescheduling load it inside.  The driver decides what  *)
(* the transaction is worth:                                               *)
(*   "sqlite"    WAL mode, deferred transactions: the first read takes a   *)
(*               snapshot, and the first write fails if anything was       *)
(*               committed since (SQLITE_BUSY_SNAPSHOT);                   *)
(*   "postgres"  READ COMMITTED: every statement reads what is committed,  *)
(*               and an UPDATE only re-evaluates its own WHERE clause.     *)
(* The booking transitions that read and write one row only are single     *)
(* steps: they lock the row, or compare and swap its status.               *)
(***************************************************************************)
EXTENDS CourtSlots, Functions

CONSTANTS
    Handler,        \* requests served at the same time
    SpanGroup,      \* consecutive spans one admin request may ask for
    Driver,         \* databaseDriverSQLite or databaseDriverPostgres
    Horizon,        \* bound: last half hour the clock reaches
    MaxLayoutEdits  \* bound: layout edits in flight

ASSUME BookingAssumption ==
    /\ Driver \in {"sqlite", "postgres"}
    /\ Horizon \in Nat /\ MaxLayoutEdits \in Nat
    /\ SpanGroup \subseteq SUBSET Span

VARIABLES
    schedule,     \* space_schedules and the paid flag of booking_financials
    active,       \* layouts with active = 1
    closures,     \* active court closures
    layoutEdits,  \* layout edits that passed their check, not yet written
    now,          \* the wall clock, in half hours
    pc, job       \* per handler: its phase, and what it carries

config  == <<active, closures, layoutEdits>>
request == <<pc, job>>
vars    == <<schedule, config, now, request>>
----------------------------------------------------------------------------
Awaiting == {"pending", "held", "reschedule_pending"}
Live     == Awaiting \cup {"confirmed"}
Final    == {"rejected", "cancelled", "expired", "completed", "no_show"}
Status   == Live \cup Final

\* appointment: the state of the one-to-one session the row belongs to
Row == [status : Status, slot : Slot, paid : BOOLEAN,
        appointment : {"none", "scheduled", "completed", "cancelled"}]

\* A job carries the rows it will write, the status its UPDATE compares, and
\* the active layouts it loaded.  Columns the operation does not write or
\* compare have a fixed value in it.
Op == {"insert", "edit", "reschedule", "confirm"}

IsTable(rows) == DOMAIN rows \subseteq Id /\ rows \in [DOMAIN rows -> Row]

IsJob(j) ==
    /\ j \in [op : Op, rows : {j.rows}, seen : Status, layouts : SUBSET Layout]
    /\ IsTable(j.rows)

Merge(old, new) == [i \in DOMAIN old \cup DOMAIN new |->
                        IF i \in DOMAIN new THEN new[i] ELSE old[i]]

Only(i, row) == [j \in {i} |-> row]

\* The live part of a table (the statuses querySchedulesForSlot selects), as
\* a map from ids to slots.
Held(table) == [i \in {j \in DOMAIN table : table[j].status \in Live} |-> table[i].slot]

Future(s)  == \A t \in s.span : t > now   \* validateBookableScheduleTime
Started(s) == \E t \in s.span : t <= now

\* A row id is reserved for the request that will insert it.
FreeId == Id \ (DOMAIN schedule \cup UNION {DOMAIN job[h].rows : h \in {k \in Handler : pc[k] # "idle"}})

NoRows == [i \in {} |-> {}]
NoJob  == [op |-> "insert", rows |-> NoRows, seen |-> "pending", layouts |-> {}]

\* A row as it is inserted
NewRow(slot, status, appointment) ==
    [status |-> status, slot |-> slot, paid |-> FALSE, appointment |-> appointment]

Init ==
    /\ schedule = NoRows
    /\ active = Layout /\ closures = {} /\ layoutEdits = {}
    /\ now = 0
    /\ pc = [h \in Handler |-> "idle"]
    /\ job = [h \in Handler |-> NoJob]
----------------------------------------------------------------------------
(* Step 1 of a capacity-checked request: load and validate what does not   *)
(* depend on the other bookings.  A request that fails validation changes  *)
(* nothing.                                                                *)

Bookable(s) == Offered(s, active) /\ ~Blocked(s, closures)

Begin(h, op, rows, seen) ==
    /\ pc[h] = "idle"
    /\ pc' = [pc EXCEPT ![h] = "loaded"]
    /\ job' = [job EXCEPT ![h] = [op |-> op, rows |-> rows, seen |-> seen, layouts |-> active]]
    /\ UNCHANGED <<schedule, config, now>>

NewRows(S, spans, a, q, status, appointment) ==
    {[i \in S |-> NewRow([activity |-> a, quantity |-> q, span |-> g[i]], status, appointment)] :
        g \in Bijection(S, spans)}

BeginInsert(h, spans, a, q, status, appointment) ==
    \E S \in SUBSET FreeId : \E rows \in NewRows(S, spans, a, q, status, appointment) :
        /\ \A i \in S : rows[i].slot \in Slot /\ Bookable(rows[i].slot)
        /\ Begin(h, "insert", rows, "pending")

\* createBookingHandler, createSpaceSchedules: an admin books up to several
\* consecutive spans, of any date, confirmed at once
BeginCreate(h) ==
    \E spans \in SpanGroup, a \in Activity, q \in 1 .. MaxQuantity :
        BeginInsert(h, spans, a, q, "confirmed", "none")

\* publicBookingRequestHandler, createPublicBookingRequestDetailed
BeginPublicRequest(h) ==
    \E span \in Span, a \in Activity \ {Training}, q \in 1 .. MaxQuantity :
        /\ \A t \in span : t > now
        /\ BeginInsert(h, {span}, a, q, "pending", "none")

\* createOneToOneBooking, scheduleNextOneToOneSession
BeginAppointment(h) ==
    \E span \in Span, a \in Activity \ {Training} :
        BeginInsert(h, {span}, a, 1, "confirmed", "scheduled")

\* updateBookingHandler, updateSpaceSchedule when the inventory changes; its
\* transaction sends "?" placeholders as they are, which PostgreSQL rejects
BeginEdit(h) ==
    \E i \in DOMAIN schedule, s \in Slot :
        /\ Driver = "sqlite"
        /\ schedule[i].slot # s /\ Bookable(s)
        /\ Begin(h, "edit", Only(i, NewRow(s, "pending", "none")), "pending")

\* rescheduleBookingRequest, with and without confirmation
BeginReschedule(h) ==
    \E i \in DOMAIN schedule, s \in Slot, to \in {"reschedule_pending", "confirmed"} :
        /\ schedule[i].status \in Awaiting /\ ~schedule[i].paid
        /\ s.activity # Training /\ Future(s) /\ Bookable(s)
        /\ Begin(h, "reschedule", Only(i, NewRow(s, to, "none")), schedule[i].status)

\* Mutant of BeginConfirm: the closures are not looked at again.
BeginConfirmBlindly(h) ==
    \E i \in DOMAIN schedule :
        /\ schedule[i].status \in Awaiting /\ schedule[i].slot.activity # Training
        /\ Future(schedule[i].slot) /\ Offered(schedule[i].slot, active)
        /\ Begin(h, "confirm", Only(i, NewRow(schedule[i].slot, "confirmed", "none")),
                 schedule[i].status)

\* transitionBookingRequestStatus to confirmed
BeginConfirm(h) ==
    \E i \in DOMAIN schedule :
        /\ schedule[i].status \in Awaiting /\ schedule[i].slot.activity # Training
        /\ Future(schedule[i].slot) /\ Bookable(schedule[i].slot)
        /\ Begin(h, "confirm", Only(i, NewRow(schedule[i].slot, "confirmed", "none")),
                 schedule[i].status)
----------------------------------------------------------------------------
(* Step 2: querySchedulesForSlot and validateSpaceScheduleSlotAgainstLayouts *)

\* The table the candidate is judged in: the live rows but its own, and the
\* candidate rows, which count whatever their status.
Judged(j) == Merge([i \in DOMAIN Held(schedule) \ DOMAIN j.rows |-> schedule[i].slot],
                   [i \in DOMAIN j.rows |-> j.rows[i].slot])

\* Mutant of SlotAvailable: an edit is not validated.
SlotAvailableUnlessEdit(j) ==
    j.op # "edit" => \A n \in DOMAIN j.rows : FitsSomeLayout(Judged(j), n, j.layouts)

SlotAvailable(j) == \A n \in DOMAIN j.rows : FitsSomeLayout(Judged(j), n, j.layouts)

CheckSlot(h) ==
    /\ pc[h] = "loaded"
    /\ SlotAvailable(job[h])
    /\ pc' = [pc EXCEPT ![h] = "checked"]
    /\ job' = [job EXCEPT ![h].layouts = {}]
    /\ UNCHANGED <<schedule, config, now>>
----------------------------------------------------------------------------
(* Step 3: write and commit *)

\* The row an operation leaves: which columns it writes, and what the row had.
Written(op, old, new) ==
    CASE op = "edit"       -> [old EXCEPT !.slot = new.slot]
      [] op = "reschedule" -> [old EXCEPT !.slot = new.slot, !.status = new.status]
      [] op = "confirm"    -> [old EXCEPT !.status = new.status]

\* Mutants of MayWrite: no compare-and-swap on the status; no paid check.
MayWriteAnyStatus(j, i) ==
    /\ i \in DOMAIN schedule
    /\ j.op = "edit" => ~(schedule[i].paid /\ schedule[i].slot # j.rows[i].slot)
MayEditPaid(j, i) ==
    /\ i \in DOMAIN schedule
    /\ j.op \in {"reschedule", "confirm"} => schedule[i].status = j.seen

\* WHERE id = ? AND status = ? of the two request transitions, and the paid
\* check that updateSpaceSchedule makes after its UPDATE
MayWrite(j, i) ==
    /\ i \in DOMAIN schedule
    /\ j.op \in {"reschedule", "confirm"} => schedule[i].status = j.seen
    /\ j.op = "edit" => ~(schedule[i].paid /\ schedule[i].slot # j.rows[i].slot)

\* The handlers whose transaction has read from the database.  In SQLite their
\* snapshot is stale once anything is committed, and what is left for them is
\* to fail at their first write; that failure is taken at the commit itself.
Reading == {h \in Handler : \/ pc[h] = "checked"
                            \/ pc[h] = "loaded" /\ job[h].op \in {"reschedule", "confirm"}}

\* Mutant of Overtaken: the transactions do not isolate what they read.
OvertakenNever == {}

Overtaken == IF Driver = "sqlite" THEN Reading ELSE {}

End(H) == /\ pc'  = [h \in Handler |-> IF h \in H THEN "idle" ELSE pc[h]]
          /\ job' = [h \in Handler |-> IF h \in H THEN NoJob ELSE job[h]]

Commit(h) ==
    /\ pc[h] = "checked"
    /\ LET j == job[h] IN
         IF j.op = "insert"
         THEN schedule' = Merge(schedule, j.rows)
         ELSE /\ \A i \in DOMAIN j.rows : MayWrite(j, i)
              /\ schedule' = [i \in DOMAIN schedule |->
                                IF i \in DOMAIN j.rows
                                THEN Written(j.op, schedule[i], j.rows[i]) ELSE schedule[i]]
    /\ End(Overtaken \cup {h})
    /\ UNCHANGED <<config, now>>

\* Any error rolls the transaction back: validation, a row that another
\* handler changed, SQLITE_BUSY, a lost connection, a process that stops.
Fail(h) ==
    /\ pc[h] # "idle"
    /\ End({h})
    /\ UNCHANGED <<schedule, config, now>>
----------------------------------------------------------------------------
(* Transitions of one row *)

SetRow(i, row) ==
    /\ schedule' = [schedule EXCEPT ![i] = row]
    /\ End(Overtaken)
    /\ UNCHANGED <<config, now>>

SetStatus(i, to) == SetRow(i, [schedule[i] EXCEPT !.status = to])

\* transitionBookingRequestStatus to anything but confirmed
Decide(i, to) ==
    /\ schedule[i].slot.activity # Training
    /\ schedule[i].status \in Awaiting
    /\ SetStatus(i, to)

\* expireOverdueBookingRequests, one request of its list
Expire(i) == Started(schedule[i].slot) /\ Decide(i, "expired")

\* transitionManagedBookingStatus.  It also refuses a booking whose receivable
\* is archived (BookingPayments); here any refusal is a step not taken.
CancelBooking(i) ==
    /\ schedule[i].slot.activity # Training
    /\ \/ schedule[i].status \in Awaiting
       \/ schedule[i].status = "confirmed" /\ ~Started(schedule[i].slot)
    /\ SetStatus(i, "cancelled")

FinishBooking(i, to) ==
    /\ schedule[i].slot.activity # Training
    /\ schedule[i].status = "confirmed" /\ Started(schedule[i].slot)
    /\ SetStatus(i, to)

\* completeOneToOneSession, cancelOneToOneSession: they look at the session's
\* status and overwrite the row's.  What a stale look at the session does on
\* PostgreSQL is the subject of OneToOnePackages; here it is one step.
FinishAppointment(i, to) ==
    /\ schedule[i].appointment = "scheduled"
    /\ SetRow(i, [schedule[i] EXCEPT !.status = to, !.appointment = to])

\* collectBookingPaymentAtWithAdjustment and voidBookingPaymentExpected, as
\* far as booking_financials.paid shows them
CollectPayment(i) ==
    /\ schedule[i].slot.activity # Training
    /\ schedule[i].status \in {"confirmed", "completed", "cancelled"}
    /\ SetRow(i, [schedule[i] EXCEPT !.paid = TRUE])

VoidPayments(i) ==
    /\ schedule[i].paid
    /\ SetRow(i, [schedule[i] EXCEPT !.paid = FALSE])
----------------------------------------------------------------------------
(* Court administration *)

\* toggleCourtLayout, updateCourtLayout, deleteCourtLayout: the layouts that
\* stop being active and those that become it.  The last active layout is
\* protected by a count that is read before, and outside, the write.
BeginLayoutEdit(drop, add) ==
    /\ Cardinality(layoutEdits) < MaxLayoutEdits
    /\ drop \subseteq active /\ drop # add
    /\ add = {} => active \ drop # {}
    /\ layoutEdits' = layoutEdits \cup {[drop |-> drop, add |-> add]}
    /\ UNCHANGED <<schedule, active, closures, now, request>>

CommitLayoutEdit(e) ==
    /\ active' = (active \ e.drop) \cup e.add
    /\ layoutEdits' = layoutEdits \ {e}
    /\ End(Overtaken)
    /\ UNCHANGED <<schedule, closures, now>>

\* createCourtClosure, updateCourtClosure, toggleCourtClosure,
\* deleteCourtClosure: no look at the bookings already taken
ChangeClosures(drop, add) ==
    /\ closures' = (closures \ drop) \cup add
    /\ closures' # closures
    /\ End(Overtaken)
    /\ UNCHANGED <<schedule, active, layoutEdits, now>>

AtMostOne(S) == {{}} \cup {{x} : x \in S}

Tick ==
    /\ now < Horizon
    /\ now' = now + 1
    /\ UNCHANGED <<schedule, config, request>>
----------------------------------------------------------------------------
HandlerStep(h) ==
    \/ BeginCreate(h) \/ BeginPublicRequest(h) \/ BeginAppointment(h)
    \/ BeginEdit(h) \/ BeginReschedule(h) \/ BeginConfirm(h)
    \/ CheckSlot(h) \/ Commit(h) \/ Fail(h)

RowStep(i) ==
    \/ \E to \in {"rejected", "held"} : Decide(i, to)
    \/ Expire(i) \/ CancelBooking(i)
    \/ \E to \in {"completed", "no_show"} : FinishBooking(i, to)
    \/ \E to \in {"completed", "cancelled"} : FinishAppointment(i, to)
    \/ CollectPayment(i) \/ VoidPayments(i)

ConfigStep ==
    \/ \E drop, add \in AtMostOne(Layout) : BeginLayoutEdit(drop, add)
    \/ \E e \in layoutEdits : CommitLayoutEdit(e)
    \/ \E drop, add \in AtMostOne(Closure) : ChangeClosures(drop, add)

Next ==
    \/ \E h \in Handler : HandlerStep(h)
    \/ \E i \in DOMAIN schedule : RowStep(i)
    \/ ConfigStep
    \/ Tick

Spec == Init /\ [][Next]_vars
----------------------------------------------------------------------------
TypeOK ==
    /\ IsTable(schedule)
    /\ active \subseteq Layout /\ closures \subseteq Closure
    /\ layoutEdits \subseteq [drop : SUBSET Layout, add : SUBSET Layout]
    /\ now \in 0 .. Horizon
    /\ pc \in [Handler -> {"idle", "loaded", "checked"}]
    /\ DOMAIN job = Handler /\ \A h \in Handler : IsJob(job[h])

\* What an open request still knows about the table.  The ids it will insert
\* are nobody else's; the row it will change exists; and on SQLite what it
\* validated is still true, since nothing was committed since it looked.
OwnIds(h) ==
    job[h].op = "insert" =>
        /\ DOMAIN job[h].rows \cap DOMAIN schedule = {}
        /\ \A i \in DOMAIN job[h].rows : job[h].rows[i].status \in Live
        /\ \A k \in Handler \ {h} :
              pc[k] # "idle" => DOMAIN job[h].rows \cap DOMAIN job[k].rows = {}

OwnRow(h) ==
    job[h].op # "insert" =>
        \E i \in DOMAIN schedule :
            /\ DOMAIN job[h].rows = {i}
            /\ job[h].rows[i].status \in Live /\ job[h].seen \in Awaiting

StillAvailable(h) ==
    pc[h] = "checked" /\ Driver = "sqlite" =>
        \A n \in DOMAIN job[h].rows : FitsSomeLayout(Judged(job[h]), n, Layout)

RequestsAreCurrent ==
    \A h \in Handler : pc[h] # "idle" => OwnIds(h) /\ OwnRow(h) /\ StillAvailable(h)

\* At no half hour do the live bookings (pending, held, confirmed, being
\* rescheduled) need more than some one layout of the court can offer, however
\* the handlers that create, edit, reschedule and confirm them interleave.
\* finance_booking_services.go reads the slot and writes the row as separate
\* statements of one transaction.
NoOverbooking ==
    \A t \in UNION Span : \E l \in Layout :
        Supports(l, Held(schedule), OnCourt(Held(schedule), t))

\* The three-step handlers implement atomic reservation: every commit takes,
\* moves or releases live reservations as one step of CourtInventory, judged
\* against everything that is reserved at the commit.
Inventory == INSTANCE CourtInventory WITH held <- Held(schedule)
ReservesAtomically == Inventory!Spec

\* A request is confirmed (transitionBookingRequestStatus or
\* rescheduleBookingRequest) only in a slot that no closure covers and that an
\* active layout can host at the moment of the commit, not merely when the
\* handler looked.
ConfirmationIsCurrent ==
    [][\A i \in DOMAIN schedule :
          schedule[i].status \in Awaiting /\ schedule'[i].status = "confirmed"
          => /\ ~Blocked(schedule'[i].slot, closures)
             /\ FitsSomeLayout(Held(schedule'), i, active)]_vars

\* Once a payment is recorded, no edit or reschedule that was already in
\* flight changes what the customer paid for.
PaidBookingKeepsItsSlot ==
    [][\A i \in DOMAIN schedule :
          schedule[i].paid => schedule'[i].slot = schedule[i].slot]_vars

\* A booking that is no one-to-one appointment goes through its statuses in
\* one direction: an answered request is not answered again, and a final
\* status is final, whichever two handlers answer at the same time.
StatusOrder ==
    [][\A i \in DOMAIN schedule :
          LET from == schedule[i].status
              to   == schedule'[i].status
          IN  schedule[i].appointment = "none" /\ to # from =>
                \/ from \in Awaiting
                \/ from = "confirmed" /\ to \in {"cancelled", "completed", "no_show"}]_vars

=============================================================================

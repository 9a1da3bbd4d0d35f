-------------------------- MODULE OneToOnePackages --------------------------
(***************************************************************************)
(* One one-to-one package: the row of one_to_one_bookings with its         *)
(* progress counters, and one_to_one_booking_sessions, each session with   *)
(* the status of its appointment in space_schedules.                       *)
(*                                                                         *)
(* Scheduling a session reads the package, counts its sessions and reads   *)
(* the last session number as three statements outside any transaction,    *)
(* and then inserts.  Resizing the package counts outside its transaction  *)
(* too.  Completing, cancelling and recording attendance run inside one    *)
(* transaction: they look at the session, write it with its appointment,   *)
(* and recompute the counters of the package from what they can see.       *)
(*                                                                         *)
(* Resizing also writes the quote of the package's booking, which its      *)
(* payments are judged by: BookingPayments has that table, and the same    *)
(* write among the payments (EditPackage).                                 *)
(***************************************************************************)
EXTENDS BookingPayments, Sequences

CONSTANTS
    PackageBooking,  \* one_to_one_bookings.schedule_id: the booking that is paid for
    MaxSessions,  \* one_to_one_bookings.max_sessions, the offering's limit
    MaxNumber     \* bound: sessions ever scheduled, cancelled ones included

ASSUME PackagesAssumption ==
    /\ PackageBooking \in OneToOne
    /\ MaxSessions \in Nat \ {0} /\ MaxNumber \in Nat \ {0}

VARIABLES
    package,  \* one_to_one_bookings: purchased sessions, counters, status
    session   \* one_to_one_booking_sessions by session_number

packages == <<package, session>>
----------------------------------------------------------------------------
Session == [status : {"scheduled", "completed", "cancelled"}, attended : BOOLEAN,
            appointment : {"confirmed", "completed", "cancelled", "no_show"}]

Package == [purchased : 1 .. MaxSessions, completed : 0 .. MaxNumber,
            cancelled : 0 .. MaxNumber, status : {"active", "completed"}]

WithStatus(rows, s) == {n \in DOMAIN rows : rows[n].status = s}

\* Sessions that use up the allowance: all but the cancelled ones.
Consuming == Cardinality(DOMAIN session \ WithStatus(session, "cancelled"))

\* refreshOneToOnePackageProgressTx, for the rows its transaction sees
Refreshed(rows, purchased) ==
    LET completed == Cardinality(WithStatus(rows, "completed"))
    IN  [purchased |-> purchased, completed |-> completed,
         cancelled |-> Cardinality(WithStatus(rows, "cancelled")),
         status |-> IF completed >= purchased THEN "completed" ELSE "active"]

Scheduled == [status |-> "scheduled", attended |-> FALSE, appointment |-> "confirmed"]

\* What a request carries: its phase, the purchased sessions it has read or
\* buys, the number of its session, the status it saw and the rows it has
\* computed.
PackageRequest ==
    [phase : {"packaged", "counted", "numbered", "checked", "looked", "written"},
     op : {"schedule", "resize", "complete", "cancel", "attend"},
     purchased : 0 .. MaxSessions, number : 0 .. MaxNumber,
     seen : {"", "scheduled", "completed"}, row : Session, progress : Package]

\* createOneToOneBooking: the package and session 1
PackagesInit ==
    /\ package \in {Refreshed(<<Scheduled>>, n) : n \in 1 .. MaxSessions}
    /\ session = <<Scheduled>>

Go(r, phase, j) == Proceed(r, [j EXCEPT !.phase = phase]) /\ UNCHANGED packages

Start(r, phase, op, purchased, number, seen) ==
    /\ Look(r, [phase |-> phase, op |-> op, purchased |-> purchased, number |-> number,
                seen |-> seen, row |-> Scheduled, progress |-> package])
    /\ UNCHANGED packages

\* Mutant of NotIsolated: no transaction isolates what it reads.
NotIsolatedEver == {"schedule", "resize", "complete", "cancel", "attend"}

\* The operations that read outside of their transaction
NotIsolated == {"schedule", "resize"}

EndPackage(r) == End(Overtaken(NotIsolated) \cup {r})

In(r, phase) == IsOpen(r) /\ tx[r].phase = phase

Written(r) == {k \in Request \ {r} : In(k, "written")}

\* SQLite has one writer at a time.
WriterFree(r) == driver = "sqlite" => Written(r) = {}
----------------------------------------------------------------------------
(* scheduleNextOneToOneSession *)

ReadPackage(r) ==
    /\ package.status = "active"
    /\ Start(r, "packaged", "schedule", package.purchased, 0, "")

CountSessions(r) ==
    /\ In(r, "packaged")
    /\ Consuming < tx[r].purchased
    /\ Go(r, "counted", tx[r])

LastNumber == Len(session)

ReadNumber(r) ==
    /\ In(r, "counted")
    /\ LastNumber < MaxNumber
    /\ Go(r, "numbered", [tx[r] EXCEPT !.number = LastNumber + 1])

\* Mutant of NumberFree: UNIQUE (booking_id, session_number) is missing.
NumberFreeUnchecked(n) == TRUE

\* UNIQUE (booking_id, session_number)
NumberFree(n) == n \notin DOMAIN session

\* The transaction.  A court that is taken or closed refuses it (GiveUpSession).
InsertSession(r) ==
    /\ In(r, "numbered")
    /\ WriterFree(r)
    /\ NumberFree(tx[r].number)
    /\ session' = [n \in DOMAIN session \cup {tx[r].number} |->
                       IF n = tx[r].number THEN Scheduled ELSE session[n]]
    /\ UNCHANGED package
    /\ EndPackage(r)
----------------------------------------------------------------------------
(* updateOneToOneBookingPackage *)

\* The checks, before the transaction
ReadForResize(r, n) ==
    /\ n >= Consuming /\ n >= package.completed
    /\ Start(r, "checked", "resize", n, 0, "")

\* The transaction updates the package, the quote of its booking and every
\* session, then the counters: no finishing transaction is past its first write
\* meanwhile.  The form brings the price; the package's own limits it.
Resize(r, price) ==
    /\ In(r, "checked")
    /\ Written(r) = {}
    /\ package' = Refreshed(session, tx[r].purchased)
    /\ Requote(PackageBooking, price)
    /\ UNCHANGED <<session, collection, sequence, desk>>
    /\ EndPackage(r)
----------------------------------------------------------------------------
(* completeOneToOneSession, cancelOneToOneSession, saveOneToOneSessionAttendance: *)
(* look, write and recompute, commit                                              *)

LookToComplete(r, n) ==
    /\ session[n].status = "scheduled"
    /\ Start(r, "looked", "complete", 0, n, "scheduled")

LookToCancel(r, n) ==
    /\ session[n].status = "scheduled"
    /\ Start(r, "looked", "cancel", 0, n, "scheduled")

LookToAttend(r, n) ==
    /\ session[n].status # "cancelled"
    /\ Start(r, "looked", "attend", 0, n, session[n].status)

Outcome(op) == IF op = "cancel" THEN "cancelled" ELSE "completed"

\* Attendance of a session that was seen completed touches nothing else.
Edited(row, j) ==
    LET marked == [row EXCEPT !.attended = @ \/ j.op = "attend"]
    IN  IF j.seen = "completed" THEN marked
        ELSE [marked EXCEPT !.status = Outcome(j.op), !.appointment = Outcome(j.op)]

\* The rows are written by id alone, whatever their status is by now; a
\* session that another transaction has written is waited for.
WriteSession(r) ==
    LET j   == tx[r]
        row == Edited(session[j.number], j)
    IN  /\ In(r, "looked")
        /\ WriterFree(r)
        /\ \A k \in Written(r) : tx[k].number # j.number
        /\ Go(r, "written",
              [j EXCEPT !.row = row,
                        !.progress = Refreshed([session EXCEPT ![j.number] = row],
                                               package.purchased)])

\* Mutant of Progress: attendance completes the session, not the package.
ProgressWithoutAttendance(j) == IF j.op = "attend" THEN package ELSE j.progress

Progress(j) == IF j.seen = "completed" THEN package ELSE j.progress

CommitSession(r) ==
    LET j == tx[r]
    IN  /\ In(r, "written")
        /\ session' = [session EXCEPT ![j.number] = j.row]
        /\ package' = Progress(j)
        /\ EndPackage(r)
----------------------------------------------------------------------------
\* Any refusal, error or lost connection rolls back.
GiveUpSession(r) == GiveUp(r) /\ UNCHANGED packages

\* transitionManagedBookingStatus: the booking desk closes the appointment; it
\* knows nothing of sessions and packages.
CloseAppointment(n, outcome) ==
    /\ session[n].appointment = "confirmed"
    /\ \A r \in Request : In(r, "written") => driver = "postgres" /\ tx[r].number # n
    /\ session' = [session EXCEPT ![n].appointment = outcome]
    /\ UNCHANGED package
    /\ End(Overtaken(NotIsolated))
----------------------------------------------------------------------------
\* All but the resizing leave alone what is paid.
SessionsNext ==
    \/ \E r \in Request :
        \/ ReadPackage(r) \/ CountSessions(r) \/ ReadNumber(r) \/ InsertSession(r)
        \/ \E n \in 1 .. MaxSessions : ReadForResize(r, n)
        \/ \E n \in DOMAIN session :
            LookToComplete(r, n) \/ LookToCancel(r, n) \/ LookToAttend(r, n)
        \/ WriteSession(r) \/ CommitSession(r) \/ GiveUpSession(r)
    \/ \E n \in DOMAIN session, outcome \in {"cancelled", "completed", "no_show"} :
        CloseAppointment(n, outcome)

PackagesNext ==
    \/ SessionsNext /\ UNCHANGED payments
    \/ \E r \in Request, price \in 0 .. MaxPrice : Resize(r, price)
----------------------------------------------------------------------------
PackagesTypeOK ==
    /\ package \in Package
    /\ DOMAIN session \subseteq 1 .. MaxNumber /\ session \in [DOMAIN session -> Session]
    /\ \A r \in Request : tx[r].op \in NotIsolatedEver => tx[r] \in PackageRequest

\* "Saving attendance also completes a scheduled session so package progress
\* and attendance stay synchronized": on SQLite the counters and the status of
\* the package are those of its sessions, however completions, cancellations,
\* attendance and resizing interleave. (On PostgreSQL two sessions finished at
\* the same time count one another as they were.)
ProgressSynchronized ==
    driver = "sqlite" => package = Refreshed(session, package.purchased)

\* "Session numbers identify appointment records and must never be reused": the
\* record of a number goes on to be the record of that appointment, also when
\* two requests schedule at the same time, and the numbers have no gap.  On
\* SQLite a completed session is not cancelled and a cancelled one is not
\* completed, with two administrators at work as well.
FinishedStays ==
    [][/\ DOMAIN session' = 1 .. Cardinality(DOMAIN session')
       /\ \A n \in DOMAIN session :
             session[n].status # "scheduled" =>
                 /\ n \in DOMAIN session' /\ session'[n].status # "scheduled"
                 /\ driver = "sqlite" => session'[n].status = session[n].status
      ]_<<tx, packages>>

\* "all purchased sessions have already been scheduled": sessions that are not
\* cancelled never exceed the purchased ones.
AllowanceRespected == Consuming <= package.purchased
=============================================================================

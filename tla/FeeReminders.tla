---------------------------- MODULE FeeReminders ----------------------------
(***************************************************************************)
(* The monthly fee SMS reminders: monthly_fee_sms_reminders, the cycle     *)
(* that each application process runs every minute of the reminder hour,   *)
(* and the SMS gateway.                                                    *)
(*                                                                         *)
(* A cycle lists the students that owe, prepares a row for each, lists the *)
(* pending rows, and delivers them one by one: it lists who owes again,    *)
(* claims the row, sends, and records the outcome.  Every statement        *)
(* commits on its own, several processes work on one PostgreSQL database,  *)
(* and monthlyFeeSMSCycleMu holds within one process only.                 *)
(***************************************************************************)
EXTENDS Integers, FiniteSets

CONSTANTS
    Process,    \* running copies of the application
    Student,    \* admissions
    Nobody,     \* no admission
    LastMonth,  \* bound: months with a reminder hour
    MaxFaults   \* bound: crashes and database errors

ASSUME RemindersAssumption ==
    /\ LastMonth \in Nat \ {0} /\ MaxFaults \in Nat
    /\ Nobody \notin Student

VARIABLES
    month, due,  \* the month, and monthlyFeeReminderDue: its reminder hour
    owing,       \* students that listMonthlyFeeReminders lists
    reminder,    \* monthly_fee_sms_reminders: its status, by student and month
    texted,      \* messages that reached the guardian, by student and month
    pc, cycle,   \* per process: its phase, and what its cycle carries
    faults       \* faults so far

world    == <<month, due, owing>>
phone    == <<texted, world>>
vars     == <<reminder, phone, pc, cycle, faults>>
----------------------------------------------------------------------------
Month  == 1 .. LastMonth
Status == {"none", "pending", "sending", "sent", "failed", "uncertain"}
Phase  == {"stopped", "waiting", "preparing", "delivering", "dropping", "claiming",
           "sending", "accepted", "unanswered"}

\* now stays the time the cycle started, and with it the month
Cycle == [month : Month, todo : SUBSET Student, current : Student \cup {Nobody}]

Idle == [month |-> 1, todo |-> {}, current |-> Nobody]

Init ==
    /\ month = 1 /\ due = FALSE
    /\ owing \in SUBSET Student
    /\ reminder = [s \in Student |-> [m \in Month |-> "none"]]
    /\ texted = [s \in Student |-> [m \in Month |-> 0]]
    /\ pc = [p \in Process |-> "waiting"]
    /\ cycle = [p \in Process |-> Idle]
    /\ faults = 0

Go(p, phase, c) == pc' = [pc EXCEPT ![p] = phase] /\ cycle' = [cycle EXCEPT ![p] = c]

\* UPDATE ... SET status = to WHERE id = the current row AND status = from
Update(p, from, to) ==
    LET c == cycle[p]
    IN  reminder' = [reminder EXCEPT ![c.current][c.month] = IF @ = from THEN to ELSE @]
----------------------------------------------------------------------------
(* runMonthlyFeeSMSReminderCycle, prepareMonthlyFeeSMSReminders *)

\* Mutant of Begin: a month that is prepared is done with.
BeginOnce(p) ==
    /\ pc[p] = "waiting" /\ due /\ \A s \in Student : reminder[s][month] = "none"
    /\ Go(p, "preparing", [month |-> month, todo |-> owing, current |-> Nobody])
    /\ UNCHANGED <<reminder, phone, faults>>

Begin(p) ==
    /\ pc[p] = "waiting" /\ due
    /\ Go(p, "preparing", [month |-> month, todo |-> owing, current |-> Nobody])
    /\ UNCHANGED <<reminder, phone, faults>>

\* Mutant of Prepare: ON CONFLICT (admission_id, reminder_month) DO UPDATE
PrepareAgain(p, s) ==
    /\ pc[p] = "preparing" /\ s \in cycle[p].todo
    /\ reminder' = [reminder EXCEPT ![s][cycle[p].month] = "pending"]
    /\ Go(p, "preparing", [cycle[p] EXCEPT !.todo = @ \ {s}])
    /\ UNCHANGED <<phone, faults>>

\* INSERT ... ON CONFLICT (admission_id, reminder_month) DO NOTHING
Prepare(p, s) ==
    /\ pc[p] = "preparing" /\ s \in cycle[p].todo
    /\ reminder' = [reminder EXCEPT ![s][cycle[p].month] = IF @ = "none" THEN "pending" ELSE @]
    /\ Go(p, "preparing", [cycle[p] EXCEPT !.todo = @ \ {s}])
    /\ UNCHANGED <<phone, faults>>
----------------------------------------------------------------------------
(* deliverMonthlyFeeSMSReminders *)

ListPending(p) ==
    /\ pc[p] = "preparing" /\ cycle[p].todo = {}
    /\ LET pending == {s \in Student : reminder[s][cycle[p].month] = "pending"}
       IN  Go(p, "delivering", [cycle[p] EXCEPT !.todo = pending])
    /\ UNCHANGED <<reminder, phone, faults>>

\* "Refresh balances and eligibility immediately before each attempt."
Refresh(p, s) ==
    /\ pc[p] = "delivering" /\ s \in cycle[p].todo
    /\ Go(p, IF s \in owing THEN "claiming" ELSE "dropping",
          [cycle[p] EXCEPT !.todo = @ \ {s}, !.current = s])
    /\ UNCHANGED <<reminder, phone, faults>>

Done(p) == Go(p, "delivering", [cycle[p] EXCEPT !.current = Nobody])

\* "Student no longer eligible"
Drop(p) ==
    /\ pc[p] = "dropping"
    /\ Update(p, "pending", "failed")
    /\ Done(p)
    /\ UNCHANGED <<phone, faults>>

\* Mutant of Claimable: the claim goes by id alone.
ClaimableByAll(s, m) == TRUE

Claimable(s, m) == reminder[s][m] = "pending"

\* "Atomically claim the reminder."
Claim(p) ==
    /\ pc[p] = "claiming"
    /\ IF Claimable(cycle[p].current, cycle[p].month)
       THEN /\ reminder' = [reminder EXCEPT ![cycle[p].current][cycle[p].month] = "sending"]
            /\ Go(p, "sending", cycle[p])
       ELSE reminder' = reminder /\ Done(p)
    /\ UNCHANGED <<phone, faults>>

\* sendSMSMessage.  Without an answer within its 15 seconds, the message may
\* have reached the guardian or not.
Send(p) ==
    /\ pc[p] = "sending"
    /\ \E reached \in {0, 1}, answer \in {"accepted", "unanswered"} :
        /\ answer = "accepted" => reached = 1
        /\ texted' = [texted EXCEPT ![cycle[p].current][cycle[p].month] = @ + reached]
        /\ Go(p, answer, cycle[p])
    /\ UNCHANGED <<reminder, world, faults>>

RecordSent(p) ==
    /\ pc[p] = "accepted"
    /\ Update(p, "sending", "sent")
    /\ Done(p)
    /\ UNCHANGED <<phone, faults>>

\* Mutants of RecordUncertain: the message is taken as not sent; is tried
\* again; its row is left as it is.
RecordFailed(p) ==
    /\ pc[p] = "unanswered" /\ Update(p, "sending", "failed")
    /\ Done(p) /\ UNCHANGED <<phone, faults>>
RecordPending(p) ==
    /\ pc[p] = "unanswered" /\ Update(p, "sending", "pending")
    /\ Done(p) /\ UNCHANGED <<phone, faults>>
RecordNothing(p) ==
    /\ pc[p] = "unanswered"
    /\ Done(p) /\ UNCHANGED <<reminder, phone, faults>>

\* "A failed or timed-out gateway request is treated as uncertain"
RecordUncertain(p) ==
    /\ pc[p] = "unanswered"
    /\ Update(p, "sending", "uncertain")
    /\ Done(p)
    /\ UNCHANGED <<phone, faults>>

Finish(p) ==
    /\ pc[p] = "delivering" /\ cycle[p].todo = {}
    /\ Go(p, "waiting", Idle)
    /\ UNCHANGED <<reminder, phone, faults>>
----------------------------------------------------------------------------
(* Faults, and the world *)

Fault(p, phase) ==
    /\ faults < MaxFaults /\ faults' = faults + 1
    /\ Go(p, phase, Idle)
    /\ UNCHANGED <<reminder, phone>>

\* A statement fails: the cycle returns the error and ends.
DatabaseError(p) == pc[p] \notin {"stopped", "waiting", "sending"} /\ Fault(p, "waiting")

Crash(p) == pc[p] # "stopped" /\ Fault(p, "stopped")

\* startMonthlyFeeSMSReminderScheduler
Restart(p) ==
    /\ pc[p] = "stopped"
    /\ Go(p, "waiting", Idle)
    /\ UNCHANGED <<reminder, phone, faults>>

\* A fee is paid, another becomes due, a student leaves or comes back.
Owe(s) ==
    /\ owing' = IF s \in owing THEN owing \ {s} ELSE owing \cup {s}
    /\ UNCHANGED <<month, due, reminder, texted, pc, cycle, faults>>

HourComes ==
    /\ ~due /\ month \in Month /\ due' = TRUE
    /\ UNCHANGED <<month, owing, reminder, texted, pc, cycle, faults>>

\* The hour passes; the next one is in the next month.
HourPasses ==
    /\ due
    /\ due' = FALSE /\ month' = month + 1
    /\ UNCHANGED <<owing, reminder, texted, pc, cycle, faults>>
----------------------------------------------------------------------------
Work(p) ==
    \/ Begin(p) \/ ListPending(p) \/ Drop(p) \/ Claim(p) \/ Send(p)
    \/ RecordSent(p) \/ RecordUncertain(p) \/ Finish(p)
    \/ \E s \in Student : Prepare(p, s) \/ Refresh(p, s)

Next ==
    \/ \E p \in Process : Work(p) \/ DatabaseError(p) \/ Crash(p) \/ Restart(p)
    \/ \E s \in Student : Owe(s)
    \/ HourComes \/ HourPasses

Spec == Init /\ [][Next]_vars

\* A process that runs goes on: the ticker fires every minute, statements
\* return, and the gateway is given 15 seconds.
FairSpec == Spec /\ \A p \in Process : WF_vars(Work(p))
----------------------------------------------------------------------------
TypeOK ==
    /\ month \in 1 .. LastMonth + 1 /\ due \in BOOLEAN /\ (due => month \in Month)
    /\ owing \subseteq Student
    /\ reminder \in [Student -> [Month -> Status]]
    /\ texted \in [Student -> [Month -> Nat]]
    /\ pc \in [Process -> Phase] /\ cycle \in [Process -> Cycle]
    /\ faults \in 0 .. MaxFaults

\* "... to avoid automatic duplicate SMS messages": a guardian gets at most one
\* reminder a month, whatever processes overlap, crash or hear no answer.
NoDuplicateSMS == \A s \in Student, m \in Month : texted[s][m] <= 1

\* The status tells the truth to whoever follows up by hand: sent reached the
\* guardian, and pending and failed did not.
StatusIsHonest ==
    \A s \in Student, m \in Month :
        /\ reminder[s][m] = "sent" => texted[s][m] = 1
        /\ reminder[s][m] \in {"none", "pending", "failed"} => texted[s][m] = 0

\* The phases between the claim of a reminder and its outcome
Claimed == {"sending", "accepted", "unanswered"}

\* At most one process is between the claim of a reminder and its outcome.
OneSender ==
    \A p, q \in Process :
        /\ {pc[p], pc[q]} \subseteq Claimed
        /\ cycle[p].current = cycle[q].current /\ cycle[p].month = cycle[q].month
        => p = q

\* What a process in the middle of a delivery relies on: the row it has claimed
\* stays at sending until it records the outcome, and before it sends nothing
\* has reached the guardian, whatever another process does to the same row.
ClaimOwnsRow ==
    \A p \in Process :
        LET c == cycle[p]
        IN  /\ pc[p] \in Claimed \cup {"dropping", "claiming"} => c.current # Nobody
            /\ pc[p] \in Claimed => reminder[c.current][c.month] = "sending"
            /\ pc[p] = "sending" => texted[c.current][c.month] = 0
            /\ pc[p] = "accepted" => texted[c.current][c.month] = 1

\* A reminder with an outcome keeps it, in this month's cycles and in the ones
\* of another process that listed it before.
OutcomeStays ==
    [][\A s \in Student, m \in Month :
          reminder[s][m] \in {"sent", "failed", "uncertain"}
              => reminder'[s][m] = reminder[s][m]]_vars

\* While the reminder hour lasts and some process runs, a student who goes on
\* owing is not left without an attempt, after any error or crash.
EveryoneIsTried ==
    \A s \in Student, m \in Month :
        (due /\ month = m /\ s \in owing /\ reminder[s][m] \in {"none", "pending"})
            ~> \/ reminder[s][m] \notin {"none", "pending"}
               \/ month # m \/ s \notin owing
               \/ \A p \in Process : pc[p] = "stopped"

\* A claimed reminder gets its outcome unless a fault hits: only a crash or a
\* database error leaves one at sending for good.
ClaimIsAnswered ==
    \A s \in Student, m \in Month :
        reminder[s][m] = "sending"
            ~> reminder[s][m] \in {"sent", "uncertain"} \/ faults > 0
=============================================================================

--------------------------- MODULE SalaryProfiles ---------------------------
(***************************************************************************)
(* What one member of the staff is paid for: their salary profiles, and    *)
(* the quantity that a payroll period gives for each of them, from the     *)
(* staff attendance, the sessions marked as worked and the students of     *)
(* their groups.  Hours and days are numbers; a week is counted in days,   *)
(* and rates are left out.  Nothing in the program fills                   *)
(* staff_work_time_records, and the divisions are one.                     *)
(*                                                                         *)
(* Creating a profile and switching one on look for a conflict in one      *)
(* statement and write in another, without a transaction.                  *)
(***************************************************************************)
EXTENDS Transactions, FiniteSetsExt

CONSTANTS
    Programme,    \* training_programs; 0 is none
    Squad,        \* student_groups
    SquadCourse,  \* the programme of each
    Trainee,      \* admissions
    LastWorkday,  \* bound: days there are
    PayPeriod,    \* bound: payroll periods
    Rate,         \* bound: kinds of profile, [type, course, basis]
    Shift,        \* bound: hours of attendance and of sessions, [from, to]
    Roster,       \* bound: what there is of groups and students
    MaxProfiles,  \* bound: profiles
    MaxWork       \* bound: attendance intervals and sessions

ASSUME SalaryAssumption ==
    /\ LastWorkday \in Nat \ {0} /\ 0 \notin Programme
    /\ SquadCourse \in [Squad -> Programme]
    /\ \A p \in PayPeriod : \E a, b \in 1 .. LastWorkday : a <= b /\ p = a .. b
    /\ \A k \in Rate : k.course \in Programme \cup {0}
    /\ \A s \in Shift : s.from \in Int /\ s.to \in Int /\ s.from < s.to
    /\ MaxProfiles \in Nat /\ MaxWork \in Nat

\* No interval of a history is empty (TrainingGroups, Enrolments).  A student may
\* be marked on a day before they were in the group: saveAttendanceHandler asks
\* who is in it now.
ASSUME RosterAssumption ==
    \A R \in Roster :
        /\ \A h \in R.assigned \cup R.member \cup R.studying :
              h.from \in Int /\ h.to \in Int /\ h.from < h.to
        /\ \A h \in R.member : h.trainee \in Trainee
        /\ \A e \in R.enrolled : e.start \in Int
        /\ \A l \in R.leave : l.from \in Int /\ l.to \in Int
        /\ \A m \in R.marked : m.squad \in Squad /\ m.trainee \in Trainee /\ m.day \in 1 .. LastWorkday

VARIABLES
    profiles,  \* staff_salary_profiles by id
    present,   \* staff_attendance_sessions of days marked present or late
    worked,    \* completed occurrences at which they are marked as worked
    roster,    \* enrolments and their histories; those of groups and members;
               \* leaves; attendance
    overlapped    \* history variable: two changes of profiles overlapped

salaries == <<profiles, present, worked, roster, overlapped>>
----------------------------------------------------------------------------
Workday == 1 .. LastWorkday
Always  == LastWorkday + 1  \* effective_to is empty

SalariesInit ==
    /\ profiles = [p \in {} |-> 0]
    /\ present = {} /\ worked = {}
    /\ roster \in Roster
    /\ overlapped = FALSE
----------------------------------------------------------------------------
(* Profiles *)

\* salaryProfilesOverlap: the last day is included.
Meet(a, b) == a.from <= b.to /\ b.from <= a.to

\* salaryProfilesConflict
Conflict(a, b) ==
    /\ a.kind.type = b.kind.type /\ a.kind.course = b.kind.course
    /\ a.kind.type = "student" => a.kind.basis = b.kind.basis
    /\ Meet(a, b)

\* validateStaffSalaryProfile
IsProfile(row) == row.from <= row.to

Clear(row, p) == \A q \in DOMAIN profiles \ {p} : profiles[q].active => ~Conflict(row, profiles[q])

LooksAtProfiles(r, j) ==
    /\ Look(r, j)
    /\ overlapped' = (overlapped \/ \E q \in Request : IsOpen(q))
    /\ UNCHANGED <<profiles, present, worked, roster>>

\* createStaffSalaryProfile up to its INSERT
LookToCreateProfile(r, row) ==
    /\ IsProfile(row)
    /\ row.active => Clear(row, 0)
    /\ LooksAtProfiles(r, [op |-> "create profile", row |-> row])

\* createSalaryProfileHandler
CreateProfile(r) ==
    LET p == Cardinality(DOMAIN profiles) + 1 IN
    /\ tx[r].op = "create profile" /\ p <= MaxProfiles
    /\ profiles' = [q \in 1 .. p |-> IF q = p THEN tx[r].row ELSE profiles[q]]
    /\ End({r})
    /\ UNCHANGED <<present, worked, roster, overlapped>>

\* setStaffSalaryProfileActive up to its UPDATE
LookToToggleProfile(r, p) ==
    /\ ~profiles[p].active => Clear(profiles[p], p)
    /\ LooksAtProfiles(r, [op |-> "toggle profile", id |-> p, active |-> ~profiles[p].active])

\* toggleSalaryProfileHandler
ToggleProfile(r) ==
    /\ tx[r].op = "toggle profile"
    /\ profiles' = [profiles EXCEPT ![tx[r].id].active = tx[r].active]
    /\ End({r})
    /\ UNCHANGED <<present, worked, roster, overlapped>>
----------------------------------------------------------------------------
(* Work *)

Same(i, s) == i.day = s.day /\ i.hours = s.hours

Clash(i, s) ==
    i.day = s.day /\ i.hours # s.hours /\ i.hours.from < s.hours.to /\ s.hours.from < i.hours.to

\* A day is marked (StaffAttendance): its intervals do not overlap.
BePresent(i) ==
    /\ Cardinality(present) + Cardinality(worked) < MaxWork
    /\ \A k \in present : ~Same(i, k) /\ ~Clash(i, k)
    /\ present' = present \cup {i}
    /\ UNCHANGED <<driver, tx, profiles, worked, roster, overlapped>>

\* An occurrence is completed (TrainingGroups).
Coach(s) ==
    /\ Cardinality(present) + Cardinality(worked) < MaxWork
    /\ worked' = worked \cup {s}
    /\ UNCHANGED <<driver, tx, profiles, present, roster, overlapped>>

GiveUpProfile(r) == GiveUp(r) /\ UNCHANGED salaries

ProfilesNext ==
    \E r \in Request :
        \/ \E k \in Rate, from \in Workday, to \in Workday \cup {Always}, active \in BOOLEAN :
              LookToCreateProfile(r, [kind |-> k, from |-> from, to |-> to, active |-> active])
        \/ \E p \in DOMAIN profiles : LookToToggleProfile(r, p)
        \/ CreateProfile(r) \/ ToggleProfile(r) \/ GiveUpProfile(r)

WorkNext ==
    \E day \in Workday, hours \in Shift :
        \/ BePresent([day |-> day, hours |-> hours])
        \/ \E g \in Squad, assistant \in BOOLEAN :
              Coach([day |-> day, hours |-> hours, squad |-> g, assistant |-> assistant])
----------------------------------------------------------------------------
(* What a profile counts in a period: buildPayrollCalculationSnapshot *)

\* salaryProfileAppliesToPayrollPeriod
AppliesIn(p, P) == p.active /\ p.from <= Max(P) /\ p.to >= Min(P)

InScope(p, s) == p.kind.course \in {0, SquadCourse[s.squad]}

Attended(P) == {i \in present : i.day \in P}

\* listPayrollAssistantCoachHourlySessions
Assisted(p, P) == {s \in worked : s.assistant /\ s.day \in P /\ InScope(p, s)}

\* buildHourlyPayrollSnapshot fails when an interval has to be reconciled.
Reconciled(p, P) == \A i \in Attended(P), s \in Assisted(p, P) : ~Clash(i, s)

\* Mutant of CountedSessions: those that the attendance has are counted too.
CountedSessionsTwice(p, P) == Assisted(p, P)

CountedSessions(p, P) == {s \in Assisted(p, P) : \A i \in Attended(P) : ~Same(i, s)}

\* payrollDurationHours
Length(s) == s.hours.to - s.hours.from

Hours(p, P) == MapThenSumSet(Length, Attended(P)) + MapThenSumSet(Length, CountedSessions(p, P))

\* payrollHistoryOverlapsWhereClause: effective_to is the first day after.
During(h, P) == h.from <= Max(P) /\ h.to > Min(P)

\* Groups of the programme with the member of the staff
Squads(p, P) ==
    {g \in Squad : SquadCourse[g] = p.kind.course
                   /\ \E h \in roster.assigned : h.squad = g /\ During(h, P)}

Members(p, P) ==
    {h.trainee : h \in {h \in roster.member : h.squad \in Squads(p, P) /\ During(h, P)}}

\* payrollEnrollmentHasFullPeriodLeave: one leave that covers the period
OnLeave(t, p, P) ==
    \E l \in roster.leave :
        l.trainee = t /\ l.course = p.kind.course /\ l.from <= Min(P) /\ l.to >= Max(P)

\* Enrolments in the programme of the profile, with a date that has come
EnrolledBy(t, p, P) ==
    {e \in roster.enrolled : e.trainee = t /\ e.course = p.kind.course /\ e.start <= Max(P)}

\* listPayrollAssignedStudentEnrollmentCandidates
ActiveTrainees(p, P) ==
    {t \in Members(p, P) :
        /\ EnrolledBy(t, p, P) # {}
        /\ \E h \in roster.studying : h.trainee = t /\ h.course = p.kind.course /\ During(h, P)}

\* listPayrollAssignedGroupMembershipCandidates and
\* listPayrollAttendanceStudentCandidates ask whether the enrolment is active now.
StudiesNow(t, p, P) == \E e \in EnrolledBy(t, p, P) : e.active

MemberTrainees(p, P) == {t \in Members(p, P) : StudiesNow(t, p, P)}

AttendingTrainees(p, P) ==
    {t \in Trainee :
        /\ StudiesNow(t, p, P)
        /\ \E m \in roster.marked :
              /\ m.trainee = t /\ m.day \in P /\ SquadCourse[m.squad] = p.kind.course
              /\ \E h \in roster.assigned : h.squad = m.squad /\ During(h, {m.day})}

\* buildPerStudentPayrollSnapshot, excludeFullLeavePayrollStudentCandidates
PaidTrainees(p, P) ==
    {t \in CASE p.kind.basis = "enrolment"  -> ActiveTrainees(p, P)
             [] p.kind.basis = "membership" -> MemberTrainees(p, P)
             [] p.kind.basis = "attendance" -> AttendingTrainees(p, P) : ~OnLeave(t, p, P)}
----------------------------------------------------------------------------
SalariesTypeOK ==
    /\ \A p \in DOMAIN profiles :
          /\ profiles[p].kind \in Rate /\ profiles[p].from \in Workday
          /\ profiles[p].to \in Workday \cup {Always} /\ profiles[p].active \in BOOLEAN
    /\ \A m \in roster.marked : m.squad \in Squad /\ m.trainee \in Trainee /\ m.day \in Workday
    /\ overlapped \in BOOLEAN

\* As long as one administrator changes profiles at a time, no payroll of a day
\* finds two profiles of one kind and scope.
OneProfileADay ==
    ~overlapped =>
        \A d \in Workday, p, q \in DOMAIN profiles :
            p # q /\ profiles[p].kind = profiles[q].kind
            => ~(AppliesIn(profiles[p], {d}) /\ AppliesIn(profiles[q], {d}))

\* An hour that attendance and a session both account for is paid once: the
\* quantity of an hourly profile is the number of hours of the period at which
\* they were present or assisted, or the payroll asks to reconcile them (two
\* sessions at one time are two).
HoursPaidOnce ==
    \A P \in PayPeriod, p \in [kind : {k \in Rate : k.type = "hourly"}] :
        LET all  == Attended(P) \cup Assisted(p, P)
            past == UNION {{<<i.day, h>> : h \in i.hours.from .. i.hours.to - 1} : i \in all}
        IN  /\ Reconciled(p, P)
            /\ \A s, t \in Assisted(p, P) : s = t \/ ~(Same(s, t) \/ Clash(s, t))
            => Hours(p, P) = Cardinality(past)

\* Day by day, a student is paid for when some enrolment in the programme had
\* begun by a day of the period, no leave holds every day of it, and: on some day
\* a group of the programme had the coach, on some day the student was in that
\* group, and the enrolment was active on some day, or is active now; or on some
\* day the student was marked in such a group of theirs, and is enrolled now.
StudentsCountedByDay ==
    \A P \in PayPeriod, p \in [kind : [course : Programme, basis : {"enrolment", "membership", "attendance"}]] :
        LET on(h, d) == h.from <= d /\ d < h.to
            coached(g, d) ==
                SquadCourse[g] = p.kind.course /\ \E h \in roster.assigned : h.squad = g /\ on(h, d)
            joined(t, g, d) ==
                \E h \in roster.member : h.squad = g /\ h.trainee = t /\ on(h, d)
            of(t, S) == {h \in S : h.trainee = t /\ h.course = p.kind.course}
            grouped(t) ==
                \E g \in Squad : (\E d \in P : coached(g, d)) /\ (\E d \in P : joined(t, g, d))
            seen(t) ==
                \E m \in roster.marked : m.trainee = t /\ m.day \in P /\ coached(m.squad, m.day)
            counted(t, e) ==
                CASE p.kind.basis = "enrolment" ->
                        grouped(t) /\ \E d \in P, h \in of(t, roster.studying) : on(h, d)
                  [] p.kind.basis = "membership" -> grouped(t) /\ e.active
                  [] p.kind.basis = "attendance" -> seen(t) /\ e.active
        IN  PaidTrainees(p, P) =
                {t \in Trainee :
                    /\ \E e \in of(t, roster.enrolled) : (\E d \in P : e.start <= d) /\ counted(t, e)
                    /\ ~\E l \in of(t, roster.leave) : \A d \in P : l.from <= d /\ d <= l.to}

\* What payroll is computed from and by: OneProfileADay, HoursPaidOnce and
\* StudentsCountedByDay hold.
PayIsCountedOnce == OneProfileADay /\ HoursPaidOnce /\ StudentsCountedByDay
=============================================================================

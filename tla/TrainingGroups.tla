--------------------------- MODULE TrainingGroups ---------------------------
(***************************************************************************)
(* One training group: its members and staff with the history that payroll *)
(* reads, its timetable, the attendance sheets of the timetable's sessions *)
(* and the sessions that took place (occurrences).                         *)
(*                                                                         *)
(* Saving the group is two transactions: the first writes the group, its   *)
(* members and its timetable, the second the staff.  The form sends no     *)
(* coach_ids, so the first one takes every coach away and the second gives *)
(* them back.                                                              *)
(*                                                                         *)
(* A transaction is one step: the first begins with a write, and what the  *)
(* second reads is all that it writes, so that on SQLite it is overtaken   *)
(* (GiveUp) or whole.  Two edits that overlap on PostgreSQL are left out.  *)
(***************************************************************************)
EXTENDS Transactions, Sequences

CONSTANTS
    Student,         \* admissions
    Staff,           \* users that may be assigned
    LastToday,       \* bound: days
    MaxSessions,     \* bound: timetable sessions ever
    MaxOccurrences   \* bound: occurrences

ASSUME GroupsAssumption ==
    LastToday \in Nat \ {0} /\ MaxSessions \in Nat \ {0} /\ MaxOccurrences \in Nat

VARIABLES
    today,
    enrolled,       \* students with an active enrolment in the programme
    group,          \* student_groups: there is one
    members,        \* student_group_members
    memberHistory,  \* student_group_membership_history
    assigned,       \* student_group_staff: role by user
    coaches,        \* student_group_coaches
    staffHistory,   \* student_group_staff_assignment_history
    timetable,      \* student_group_sessions, by id
    sessions,       \* ids given out
    sheets,         \* attendance_records by session and day
    occurrences,    \* student_group_session_occurrences by id
    cut             \* history variable: a save stopped between its transactions

people == <<enrolled, members, memberHistory, assigned, coaches, staffHistory>>
events == <<timetable, sessions, sheets, occurrences>>
groups == <<today, group, cut, people, events>>
----------------------------------------------------------------------------
StillOpen == LastToday + 1  \* effective_to IS NULL
GroupDay == 1 .. LastToday

Role == {"coach", "manager"}

Coaching(a) == {u \in DOMAIN a : a[u] = "coach"}

\* The rows of either history: a member's role is "member".
Wanted(a) == {[who |-> u, role |-> a[u]] : u \in DOMAIN a}
WantedMembers(S) == {[who |-> s, role |-> "member"] : s \in S}

OpenRows(H) == {[who |-> h.who, role |-> h.role] : h \in {h \in H : h.to = StillOpen}}

\* Mutant of Kept: an interval that began earlier is deleted.
KeptNothing(stale) == {}

\* What is left of intervals that end today: one that began today is deleted.
Kept(stale) == {[h EXCEPT !.to = today] : h \in {h \in stale : h.from < today}}

\* syncStudentGroupMembershipHistoryTx and syncStudentGroupStaffHistoryTx
HistoryOf(H, wanted) ==
    LET stale == {h \in H : h.to = StillOpen /\ [who |-> h.who, role |-> h.role] \notin wanted}
    IN  (H \ stale) \cup Kept(stale)
        \cup {[who |-> w.who, role |-> w.role, from |-> today, to |-> StillOpen] :
                 w \in wanted \ OpenRows(H)}

\* syncStudentGroupCoachHistoryTx, for no coach at all
WithoutCoaches(H) == HistoryOf(H, {w \in OpenRows(H) : w.role # "coach"})

\* Days of the interval h
Covers(h, d) == h.from <= d /\ d < h.to

GroupsInit ==
    /\ today = 1
    /\ enrolled \in SUBSET Student
    /\ group = FALSE
    /\ members = {} /\ memberHistory = {}
    /\ assigned = [u \in {} |-> 0] /\ coaches = {} /\ staffHistory = {}
    /\ timetable = {} /\ sessions = 0 /\ sheets = {}
    /\ occurrences = <<>>
    /\ cut = FALSE

CommitGroup(r, j) ==
    /\ tx' = [tx EXCEPT ![r] = j]
    /\ UNCHANGED driver
----------------------------------------------------------------------------
(* The group *)

\* validateStudentGroupUpdatedMembers: who is new to the group must be enrolled in
\* the programme.
MayBeMembers(S) == S \ members \subseteq enrolled

\* createStudentGroupHandler and updateStudentGroupHandler up to their first
\* transaction
CheckForm(r, S, a) ==
    /\ MayBeMembers(S)
    /\ Look(r, [op |-> IF group THEN "update" ELSE "create", members |-> S, staff |-> a])
    /\ UNCHANGED groups

\* What createStudentGroup and updateStudentGroup both write
\* (replaceStudentGroupCoachesTx with no coach, replaceStudentGroupSessionsTx)
WriteGroup(r) ==
    /\ sessions < MaxSessions
    /\ members' = tx[r].members
    /\ memberHistory' = HistoryOf(memberHistory, WantedMembers(tx[r].members))
    /\ coaches' = {}
    /\ staffHistory' = WithoutCoaches(staffHistory)
    /\ timetable' = {sessions + 1}
    /\ sessions' = sessions + 1
    /\ CommitGroup(r, [op |-> "staff", staff |-> tx[r].staff, new |-> ~group])
    /\ UNCHANGED <<today, cut, enrolled, assigned>>

\* createStudentGroup; the code is UNIQUE.
CreateGroup(r) ==
    /\ tx[r].op = "create" /\ ~group
    /\ group' = TRUE
    /\ WriteGroup(r)
    /\ UNCHANGED <<sheets, occurrences>>

\* Mutant of Detached: the occurrences go on naming a session that is gone.
DetachedNever == occurrences

\* student_group_session_occurrences.session_id, ON DELETE SET NULL
Detached == [i \in DOMAIN occurrences |-> [occurrences[i] EXCEPT !.session = 0]]

\* updateStudentGroup: the sheets of the old timetable go with it (ON DELETE
\* CASCADE).
UpdateGroup(r) ==
    /\ tx[r].op = "update" /\ group
    /\ WriteGroup(r)
    /\ sheets' = {}
    /\ occurrences' = Detached
    /\ UNCHANGED group

\* replaceStudentGroupStaff
ReplaceStaff(r) ==
    /\ tx[r].op = "staff" /\ group
    /\ assigned' = tx[r].staff
    /\ coaches' = Coaching(tx[r].staff)
    /\ staffHistory' = HistoryOf(staffHistory, Wanted(tx[r].staff))
    /\ CommitGroup(r, Idle)
    /\ cut' = FALSE
    /\ UNCHANGED <<today, group, enrolled, members, memberHistory, events>>

Gone ==
    /\ group' = FALSE
    /\ members' = {} /\ memberHistory' = {}
    /\ assigned' = [u \in {} |-> 0] /\ coaches' = {} /\ staffHistory' = {}
    /\ timetable' = {} /\ sheets' = {} /\ occurrences' = <<>>
    /\ cut' = FALSE
    /\ UNCHANGED <<today, enrolled, sessions>>

\* deleteStudentGroupHandler
DeleteGroup ==
    /\ group /\ Gone
    /\ UNCHANGED <<driver, tx>>

\* An error of replaceStudentGroupStaff: a new group is deleted again, one that
\* was there stays without its coaches.
StaffFails(r) ==
    /\ tx[r].op = "staff"
    /\ End({r})
    /\ IF tx[r].new THEN Gone
       ELSE cut' = group /\ UNCHANGED <<today, group, people, events>>

\* The process stops, or any request fails before it has written.
StopBetween(r) ==
    /\ GiveUp(r)
    /\ cut' = (cut \/ (tx[r].op = "staff" /\ group))
    /\ UNCHANGED <<today, group, people, events>>
----------------------------------------------------------------------------
(* Around it *)

\* transferStudentEnrollment, of a student in this programme (Enrolments has the
\* rest): not before a sheet or a membership that began later
TransferAway(s, day) ==
    /\ s \in enrolled /\ day <= today
    /\ s \in members => \A x \in sheets : x.day < day
    /\ \A h \in memberHistory : h.who = s => h.from <= day
    /\ enrolled' = enrolled \ {s}
    /\ members' = members \ {s}
    /\ memberHistory' = {h \in memberHistory : h.who # s \/ h.to <= day}
                        \cup {[h EXCEPT !.to = day] :
                                 h \in {h \in memberHistory : h.who = s /\ h.from < day /\ day < h.to}}
    /\ UNCHANGED <<driver, tx, today, group, cut, assigned, coaches, staffHistory, events>>

Enrol(s) ==
    /\ s \notin enrolled
    /\ enrolled' = enrolled \cup {s}
    /\ UNCHANGED <<driver, tx, today, group, cut, members, memberHistory, assigned, coaches,
                   staffHistory, events>>

\* saveAttendanceHandler (StudentAttendance has the rest)
SaveSheet(session) ==
    /\ session \in timetable /\ members # {}
    /\ sheets' = sheets \cup {[session |-> session, day |-> today]}
    /\ UNCHANGED <<driver, tx, today, group, cut, people, timetable, sessions, occurrences>>

\* saveStudentGroupSessionOccurrence up to its transaction; session 0 is none
\* of the timetable.
LookToRecord(r, i, session, adhoc) ==
    /\ group /\ session \in timetable \cup {0}
    /\ i \in DOMAIN occurrences \cup {Len(occurrences) + 1}
    /\ Look(r, [op |-> "record", id |-> i, day |-> today, session |-> session, adhoc |-> adhoc])
    /\ UNCHANGED groups

\* idx_student_group_session_occurrences_normal_unique
NormalOnce(i, o) ==
    (o.session # 0 /\ ~o.adhoc) =>
        \A k \in DOMAIN occurrences \ {i} :
            occurrences[k].adhoc \/ occurrences[k].day # o.day \/ occurrences[k].session # o.session

\* Its INSERT or UPDATE; FOREIGN KEYs of the group and the session
Record(r) ==
    LET j == tx[r]
        o == [session |-> j.session, day |-> j.day, adhoc |-> j.adhoc]
    IN
    /\ j.op = "record" /\ group /\ j.session \in timetable \cup {0}
    /\ j.id <= MaxOccurrences
    /\ NormalOnce(j.id, o)
    /\ \/ j.id \in DOMAIN occurrences /\ occurrences' = [occurrences EXCEPT ![j.id] = o]
       \/ j.id > Len(occurrences) /\ occurrences' = Append(occurrences, o)
    /\ CommitGroup(r, Idle)
    /\ UNCHANGED <<today, group, cut, people, timetable, sessions, sheets>>

NextDay ==
    /\ today < LastToday
    /\ today' = today + 1
    /\ UNCHANGED <<driver, tx, group, cut, people, events>>

Assignments == UNION {[S -> Role] : S \in SUBSET Staff}

GroupsNext ==
    \/ \E r \in Request :
        \/ \E S \in SUBSET Student, a \in Assignments : CheckForm(r, S, a)
        \/ CreateGroup(r) \/ UpdateGroup(r) \/ ReplaceStaff(r) \/ StaffFails(r)
        \/ \E i \in 1 .. MaxOccurrences, session \in 0 .. MaxSessions, adhoc \in BOOLEAN :
              LookToRecord(r, i, session, adhoc)
        \/ Record(r) \/ StopBetween(r)
    \/ \E s \in Student : Enrol(s) \/ \E day \in GroupDay : TransferAway(s, day)
    \/ \E session \in timetable : SaveSheet(session)
    \/ DeleteGroup \/ NextDay
----------------------------------------------------------------------------
HistoryRow == [who : Student \cup Staff, role : Role \cup {"member"}, from : GroupDay,
               to : GroupDay \cup {StillOpen}]

GroupsTypeOK ==
    /\ today \in GroupDay /\ enrolled \subseteq Student /\ group \in BOOLEAN
    /\ members \subseteq Student /\ memberHistory \subseteq HistoryRow
    /\ assigned \in Assignments /\ coaches \subseteq Staff /\ staffHistory \subseteq HistoryRow
    /\ timetable \subseteq 1 .. MaxSessions /\ sessions \in 0 .. MaxSessions
    /\ sheets \subseteq [session : timetable, day : GroupDay]
    /\ Len(occurrences) <= MaxOccurrences
    /\ \A i \in DOMAIN occurrences :
          occurrences[i] \in [session : timetable \cup {0}, day : GroupDay, adhoc : BOOLEAN]
    /\ cut \in BOOLEAN

\* The members are those whose interval is open, at all times; the staff, and
\* the coaches that may take attendance, those with an open interval whenever no
\* save is between its two transactions or was stopped there.  No interval is
\* empty or meets another of the same person.
HistoryIsCurrent ==
    /\ OpenRows(memberHistory) = WantedMembers(members)
    /\ (~cut /\ \A r \in Request : tx[r].op # "staff") =>
          OpenRows(staffHistory) = Wanted(assigned) /\ coaches = Coaching(assigned)
    /\ \A h \in memberHistory \cup staffHistory : h.from < h.to
    /\ \A H \in {memberHistory, staffHistory} : \A g, h \in H :
          (g # h /\ g.who = h.who) => g.to <= h.from \/ h.to <= g.from

\* Payroll counts the past from the history: what it says of a day before today
\* never changes, except for a student who is transferred as from that day, or
\* when the group is deleted.
PastStays ==
    [][group' =>
          \A d \in 1 .. today - 1, p \in Student \cup Staff :
              p \notin enrolled \ enrolled' =>
                  \A H \in {<<memberHistory, memberHistory'>>, <<staffHistory, staffHistory'>>} :
                      {h.role : h \in {h \in H[1] : h.who = p /\ Covers(h, d)}}
                          = {h.role : h \in {h \in H[2] : h.who = p /\ Covers(h, d)}}]_<<tx, groups>>

\* The histories say who is in the group, and go on saying who was:
\* HistoryIsCurrent and PastStays hold.
GroupHistoryStands == []HistoryIsCurrent /\ PastStays

\* "Past payments and attendance remain with the old programme": the sheets that a
\* student was on before they were transferred stay.
AttendanceStays ==
    [][group' =>
          \A h \in memberHistory, x \in sheets :
              h.who \notin enrolled /\ h.who \in Student /\ h.to # StillOpen /\ Covers(h, x.day)
              => x \in sheets']_<<tx, groups>>
=============================================================================

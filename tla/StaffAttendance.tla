--------------------------- MODULE StaffAttendance ---------------------------
(***************************************************************************)
(* The working day of one member of staff: a row of the register and the   *)
(* sessions worked, which payroll pays by the hour.                        *)
(*                                                                         *)
(* SQLite lets one transaction write at a time, so a save is a step there. *)
(* PostgreSQL runs two saves statement by statement: a DELETE sees what is *)
(* committed when it starts, waits for rows another save has deleted, and  *)
(* an INSERT under a unique index waits for the one it would collide with. *)
(***************************************************************************)
EXTENDS Transactions

CONSTANT Hour  \* the times of the day at which people come and leave

ASSUME StaffAssumption == Hour \subseteq Nat

VARIABLES
    register,  \* coach_attendance_records of the day: its status, or "none"
    work       \* staff_attendance_sessions of the day

staff == <<register, work>>

Worked == {"present", "late"}
StaffStatus == Worked \cup {"absent", "excused"}

Shift == {s \in [from : Hour, to : Hour] : s.from < s.to}

Overlap(s, t) == s.from < t.to /\ t.from < s.to

\* Mutant of Acceptable: sessions may overlap.
AcceptableOverlap(S, status) == S # {} => status \in Worked

\* normalizeStaffAttendanceSessions
Acceptable(S, status) ==
    /\ \A s, t \in S : s # t => ~Overlap(s, t)
    /\ S # {} => status \in Worked

StaffInit == register = "none" /\ work = {}
----------------------------------------------------------------------------
(* The working day: saveStaffAttendanceRecords.  asked is the sessions of   *)
(* the form; a form without sessions keeps those there are, unless the      *)
(* status is absent or excused.                                             *)

Replaces(j) == j.detailed \/ j.status \notin Worked

Saving == {"clear", "enter", "unlist", "list"}

\* deleteStaffAttendanceHandler is a save of nothing.
Deletion == [op |-> "clear", status |-> "none", detailed |-> TRUE, asked |-> {},
             seen |-> work, gone |-> {}, dropped |-> FALSE]

\* staffAttendanceInputsFromRequest
Forms == {Deletion} \cup
    {j \in [op : {"clear"}, status : StaffStatus, detailed : BOOLEAN, asked : SUBSET Shift,
            seen : {work}, gone : {{}}, dropped : {FALSE}] :
        /\ Acceptable(j.asked, j.status)
        /\ j.asked # {} => j.detailed}

\* On SQLite the whole is one write.
SaveDay(j) ==
    /\ driver = "sqlite"
    /\ work' = IF Replaces(j) THEN j.asked ELSE work
    /\ register' = j.status
    /\ End(Overtaken({}))

\* On PostgreSQL: DELETE FROM staff_attendance_sessions sees what is there when
\* it starts ...
BeginDay(r, j) ==
    /\ driver = "postgres"
    /\ Look(r, j)
    /\ UNCHANGED staff

GoneOf(r) == IF tx[r].op \in Saving THEN tx[r].gone ELSE {}

Entered(r) == IF tx[r].op \in {"unlist", "list"} THEN tx[r].asked ELSE {}

\* PRIMARY KEY (user_id, attendance_date, start_time)
Collide(S, T) == \E s \in S, t \in T : s.from = t.from

\* ... and waits for the rows that another save has deleted; the INSERTs wait
\* for a session of the same hour, and fail if it is committed.
ClearWork(r) ==
    LET gone == IF Replaces(tx[r]) THEN tx[r].seen \cap work ELSE {} IN
    /\ tx[r].op = "clear"
    /\ ~Collide(tx[r].asked, work \ gone)
    /\ \A k \in Request \ {r} :
          GoneOf(k) \cap tx[r].seen = {} /\ ~Collide(tx[r].asked, Entered(k))
    /\ Proceed(r, [tx[r] EXCEPT !.op = "unlist", !.gone = gone])
    /\ UNCHANGED staff

DropsRegister(k) == tx[k].op = "list" /\ tx[k].dropped

\* DELETE FROM coach_attendance_records, with what is committed by now
Unlist(r) ==
    /\ tx[r].op = "unlist"
    /\ \A k \in Request \ {r} : ~DropsRegister(k)
    /\ Proceed(r, [tx[r] EXCEPT !.op = "list", !.dropped = register # "none"])
    /\ UNCHANGED staff

\* idx_coach_attendance_user_date
OneRegister(r) == register = "none" \/ tx[r].dropped

\* The INSERT into coach_attendance_records and the commit, which brings the
\* sessions of the form to light.  A row of another save makes it fail.  A
\* deletion inserts nothing.
ListAndCommit(r) ==
    /\ tx[r].op = "list" /\ (OneRegister(r) \/ tx[r].status = "none")
    /\ work' = (work \ tx[r].gone) \cup tx[r].asked
    /\ register' = IF tx[r].status # "none" \/ tx[r].dropped THEN tx[r].status ELSE register
    /\ End({r})

\* saveCoachAttendanceHandler: the older form knows no sessions.  Its statements
\* are sent with "?", which PostgreSQL refuses.
SaveCoach(status) ==
    /\ driver = "sqlite"
    /\ register' = status
    /\ End(Overtaken({}))
    /\ UNCHANGED work

StaffNext ==
    \/ \E r \in Request :
        \/ \E j \in Forms : BeginDay(r, j)
        \/ ClearWork(r) \/ Unlist(r) \/ ListAndCommit(r)
        \/ GiveUp(r) /\ UNCHANGED staff
    \/ \E j \in Forms : SaveDay(j)
    \/ \E status \in StaffStatus : SaveCoach(status)
----------------------------------------------------------------------------
StaffTypeOK == register \in StaffStatus \cup {"none"} /\ work \subseteq Shift

\* "work sessions for the same staff member must not overlap": payroll pays
\* every session of a day that the register has as worked. On PostgreSQL two
\* saves of one day may each see only their own sessions, so this is about
\* SQLite.
WorkDisjoint == driver = "sqlite" => \A s, t \in work : s # t => ~Overlap(s, t)
=============================================================================

-------------------------- MODULE StudentAttendance --------------------------
(***************************************************************************)
(* The two registers of the students: the sheet of one session of a        *)
(* training group on one day, which the office and a shared page write,    *)
(* and the days on which one enrolment attended its course.                *)
(***************************************************************************)
EXTENDS Transactions

CONSTANT CourseDay  \* days of the course, all past

ASSUME AttendanceAssumption == CourseDay \subseteq Nat

VARIABLES
    sheet,   \* attendance_records of the group, session and day: who wrote them
    active,  \* days on which the status history has the enrolment active
    marked   \* days in course_attendance_records

attendance == <<sheet, active, marked>>

AttendanceInit ==
    /\ sheet = "none"
    /\ active \in SUBSET CourseDay
    /\ marked = {}
----------------------------------------------------------------------------
(* The sheet of a group: saveAttendanceHandler replaces it, the shared page *)
(* (saveSharedAttendance) may only create it.                               *)

Sheet == {"lock", "checked"}

\* Mutant of GroupFree: the group is not locked.
GroupFreeAlways(r) == TRUE

\* UPDATE student_groups SET name = name serializes the writers of a group.
GroupFree(r) == \A k \in Request \ {r} : tx[k].op \notin Sheet

\* writeAttendanceRecords up to that statement
OpenSheet(r, who) ==
    /\ GroupFree(r)
    /\ Look(r, [op |-> "lock", who |-> who])
    /\ UNCHANGED attendance

\* saveAttendanceHandler
OfficeSaves(r) == OpenSheet(r, "office")

\* saveSharedAttendance
PageSaves(r) == OpenSheet(r, "shared")

CheckSheet(r) ==
    /\ tx[r].op = "lock"
    /\ tx[r].who = "shared" => sheet = "none"
    /\ Proceed(r, [tx[r] EXCEPT !.op = "checked"])
    /\ UNCHANGED attendance

\* All rows of the sheet are deleted, and the ones submitted inserted.
WriteSheet(r) ==
    /\ tx[r].op = "checked"
    /\ sheet' = tx[r].who
    /\ End({r})
    /\ UNCHANGED <<active, marked>>
----------------------------------------------------------------------------
(* Course attendance: saveCourseAttendance looks at the roster, then again   *)
(* in its transaction, with the enrolment locked.                            *)

\* FOR UPDATE of the enrolment, against the UPDATE of a change of its status
EnrolmentFree == driver = "postgres" => \A r \in Request : tx[r].op # "mark"

\* courseAttendanceEnrollmentEligible
LookToMark(r, day) ==
    /\ day \in active
    /\ EnrolmentFree
    /\ Look(r, [op |-> "mark", day |-> day])
    /\ UNCHANGED attendance

Mark(r) ==
    /\ tx[r].op = "mark"
    /\ marked' = marked \cup {tx[r].day}
    /\ End(Overtaken({}) \cup {r})
    /\ UNCHANGED <<sheet, active>>

\* The enrolment is left, taken up again or transferred from some day on
\* (Enrolments), whatever has been marked.
ChangeStatus(from, on) ==
    /\ EnrolmentFree
    /\ active' = {d \in CourseDay : IF d < from THEN d \in active ELSE on}
    /\ active' # active
    /\ End(Overtaken({}))
    /\ UNCHANGED <<sheet, marked>>

AttendanceNext ==
    \/ \E r \in Request :
        \/ OfficeSaves(r) \/ PageSaves(r)
        \/ CheckSheet(r) \/ WriteSheet(r)
        \/ \E day \in CourseDay : LookToMark(r, day)
        \/ Mark(r)
        \/ GiveUp(r) /\ UNCHANGED attendance
    \/ \E from \in CourseDay, on \in BOOLEAN : ChangeStatus(from, on)
----------------------------------------------------------------------------
AttendanceTypeOK ==
    /\ sheet \in {"none", "office", "shared"}
    /\ active \subseteq CourseDay /\ marked \subseteq CourseDay

\* The shared page never writes over a sheet that the office has saved
\* (errAttendanceAlreadySaved), whoever saves in between.
SharedNeverOverwrites ==
    [][sheet' = "shared" => sheet \in {"none", "shared"}]_<<tx, attendance>>

\* A day of the course is marked only while the enrolment counts as active on
\* it, even if its status changes between the roster and the save.
MarkedWhenEnrolled ==
    [][marked' \ marked \subseteq active]_<<tx, attendance>>

\* A save never spoils a sheet: SharedNeverOverwrites and MarkedWhenEnrolled hold.
SheetsAreSound == SharedNeverOverwrites /\ MarkedWhenEnrolled
=============================================================================

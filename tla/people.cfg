\* Two requests at a time, to the enrolments of a student, to a group, to the
\* files of two students or of an event, or to the salary profiles of a coach.
\* One who has worked all that is counted, and a student who is not enrolled,
\* may rest.
CHECK_DEADLOCK FALSE
SPECIFICATION Spec
CONSTANTS
    Request = {r1, r2}
    Course = {m1, m2}
    Today = 2
    AttendanceDays = {1}
    MaxEnrolments = 2
    MaxTransactions = 1
    Student = {s1}
    Staff = {u1}
    LastToday = 2
    MaxSessions = 2
    MaxOccurrences = 1
    Pupil = {p1, p2}
    Show = {e1}
    MaxNumber = 2
    MaxFiles = 4
    c1 = c1
    g1 = g1
    t1 = t1
    Programme = {c1}
    Squad = {g1}
    SquadCourse <- MCSquadCourse
    Trainee = {t1}
    LastWorkday = 3
    PayPeriod <- MCPayPeriods
    Rate <- MCRates
    Shift <- MCShifts
    Roster <- MCRoster
    MaxProfiles = 2
    MaxWork = 2
SYMMETRY PeopleSymmetry
INVARIANTS TypeOK EnrolmentsAgree FilesStand PayIsCountedOnce
PROPERTIES TransferClosesItsOrigin MoneyKeepsItsEnrolment GroupHistoryStands

\* An edit of a group replaces its timetable.
CHECK_DEADLOCK FALSE
SPECIFICATION Spec
CONSTANTS
    Request = {r1}
    Student = {s1}
    Staff = {u1}
    LastToday = 2
    MaxSessions = 2
    MaxOccurrences = 1
PROPERTY AttendanceStays

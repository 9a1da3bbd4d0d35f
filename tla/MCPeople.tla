------------------------------ MODULE MCPeople ------------------------------
(***************************************************************************)
(* Students, their groups, their files and the staff who are paid for      *)
(* them, for TLC: parts that share no table that is looked at here.  A     *)
(* behaviour is of one part, with two requests to it at a time.            *)
(***************************************************************************)
EXTENDS Enrolments, TrainingGroups, Uploads, SalaryProfiles, TLC

CONSTANTS c1, g1, t1

VARIABLE part

MCRates == {[type |-> "hourly", course |-> c1, basis |-> "none"]}

\* Two that meet, and one that overlaps both.
MCShifts == {[from |-> 1, to |-> 3], [from |-> 2, to |-> 3], [from |-> 3, to |-> 4]}

MCPayPeriods == {{1, 2}, {2, 3}}

MCSquadCourse == [g \in {g1} |-> c1]

Nowhere ==
    [assigned |-> {}, member |-> {}, enrolled |-> {}, studying |-> {}, leave |-> {}, marked |-> {}]

Spells == {s \in [from : 1 .. 3, to : 2 .. 4] : s.from < s.to}

Leaves == {[from |-> f, to |-> t] : f \in {1, 2}, t \in {2, 3}}

Studies(start, S) ==
    [enrolled |-> {[trainee |-> t1, course |-> c1, start |-> start, active |-> \E s \in S : s.to = 4]},
     studying |-> {[trainee |-> t1, course |-> c1, from |-> s.from, to |-> s.to] : s \in S}]

\* One who studies for a while, or leaves on day 2 and is back on day 3: the date
\* of the enrolment may be moved to then.
MCStudies ==
    {Studies(s.from, {s}) : s \in Spells}
    \cup {Studies(start, {[from |-> 1, to |-> 2], [from |-> 3, to |-> 4]}) : start \in {1, 3}}

\* The coach and the student have one interval each in the group, and the student
\* at most one leave; any days may be marked.
MCRoster ==
    {[assigned |-> {[squad |-> g1, from |-> a.from, to |-> a.to]},
      member   |-> {[squad |-> g1, trainee |-> t1, from |-> m.from, to |-> m.to]},
      enrolled |-> s.enrolled, studying |-> s.studying,
      leave    |-> {[trainee |-> t1, course |-> c1, from |-> l.from, to |-> l.to] : l \in L},
      marked   |-> {[squad |-> g1, trainee |-> t1, day |-> d] : d \in D}] :
         a \in Spells, m \in Spells, s \in MCStudies, L \in {{}} \cup {{l} : l \in Leaves},
         D \in SUBSET (1 .. 3)} \cup {Nowhere}

Parts == {"enrolments", "groups", "students", "events", "profiles", "work", "roster"}

\* The checks of attendance depend neither on the driver nor on payments:
\* nobody attends on PostgreSQL, or who has paid.  On PostgreSQL a student who
\* has paid has one enrolment.
Scope ==
    LET absent == \A e \in DOMAIN attended' : attended'[e] = 0
        unpaid == DOMAIN ledger' = {}
    IN  IF driver = "sqlite" THEN absent \/ unpaid
        ELSE absent /\ (unpaid \/ Cardinality(DOMAIN enrolment') <= 1)

Init ==
    /\ part \in Parts
    /\ InitRequests
    /\ part \in {"groups", "students", "events", "profiles", "work", "roster"} => driver = "sqlite"
    /\ EnrolmentsInit /\ GroupsInit /\ UploadsInit /\ SalariesInit
    /\ part = "groups" \/ enrolled = {}
    /\ roster = Nowhere <=> part # "roster"

Next ==
    /\ UNCHANGED part
    /\ \/ /\ part = "enrolments"
          /\ EnrolmentsNext \/ \E r \in Request : GiveUp(r) /\ UNCHANGED enrolments
          /\ Scope
          /\ UNCHANGED <<groups, uploads, salaries>>
       \/ /\ part = "groups" /\ GroupsNext
          /\ UNCHANGED <<enrolments, uploads, salaries>>
       \/ /\ \/ part = "students" /\ PupilsNext
             \/ part = "events" /\ EventsNext
          /\ UNCHANGED <<enrolments, groups, salaries>>
       \/ /\ \/ part = "profiles" /\ ProfilesNext
             \/ part = "work" /\ WorkNext
          /\ UNCHANGED <<enrolments, groups, uploads>>

vars == <<part, driver, tx, enrolments, groups, uploads, salaries>>

Spec == Init /\ [][Next]_vars

TypeOK == EnrolmentsTypeOK /\ GroupsTypeOK /\ UploadsTypeOK /\ SalariesTypeOK

PeopleSymmetry == Permutations(Request) \cup Permutations(Pupil) \cup Permutations(Course)
=============================================================================

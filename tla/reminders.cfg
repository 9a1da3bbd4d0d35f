\* Two fair processes, two students, cycles that outlast their hour, two faults.
SPECIFICATION FairSpec
CONSTANTS
    Process = {p1, p2}
    Student = {s1, s2}
    Nobody = Nobody
    LastMonth = 1
    MaxFaults = 2
INVARIANTS NoDuplicateSMS StatusIsHonest OneSender
PROPERTIES OutcomeStays EveryoneIsTried ClaimIsAnswered

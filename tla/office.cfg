\* Two requests at a time, to each part of the back office.  A booking that has
\* had its changes and messages may rest.
CHECK_DEADLOCK FALSE
SPECIFICATION Spec
CONSTANTS
    Request = {r1, r2}
    MonthDays = 31
    Fee = 3000
    Discounts = {0, 2000}
    StartDays <- MCStartDays
    Spans <- MCSpans
    PartAmounts = {1000}
    MaxLeaves = 2
    MaxPayments = 2
    MaxCancellations = 2
    MaxTokens = 1
    MaxChanges = 3
    MaxMessages = 1
    CourseDay = {1, 2}
    Hour = {9, 11, 12}
    early = early
    shared = shared
    Period <- MCPeriods
    Session = {shared}
    SessionDay <- MCSessionDay
    Covered <- MCCovered
    Advance = 1
    Installment = 1
SYMMETRY RequestSymmetry
INVARIANTS TypeOK MonthIsPriced CustomerIsTold PayrollIsSettled WorkDisjoint
PROPERTIES NothingBeyondDue SheetsAreSound

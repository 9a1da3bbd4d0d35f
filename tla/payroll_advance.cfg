\* The advance is deducted again once a salary that deducted it is paid.
SPECIFICATION Spec
CONSTANTS
    Request = {r1}
    early = early
    shared = shared
    Period <- MCPeriods
    Session = {shared}
    SessionDay <- MCSessionDay
    Covered <- MCCovered
    Advance = 1
    Installment = 1
SYMMETRY RequestSymmetry
INVARIANT AdvanceRecoveredOnce

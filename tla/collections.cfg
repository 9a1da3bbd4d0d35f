\* Two requests at a time, to the payments of two bookings, to one package, to
\* two monthly plans, or to the commissions of two bookings.
SPECIFICATION Spec
CONSTANTS
    Request = {r1, r2}
    Booking = {b1, b2}
    OneToOne = {b1}
    PackageBooking = b1
    Payment = {p1, p2}
    None = None
    MaxPrice = 2
    MaxOver = 1
    LastDay = 2
    MaxSessions = 2
    MaxNumber = 3
    w1 = w1
    w2 = w2
    PlanMonth = {1}
    Weekly = {w1, w2}
    PeakHours = {w2}
    MonthWeeks = 1
    Courts = 1
    BandForms <- MCBandForms
    MaxBands = 2
    MaxPlans = 2
    MaxPlanPayments = 1
    Referred = {b3, b4}
    Partner = {u1}
    Commissions = {0, 1, 2}
SYMMETRY CollectionSymmetry
INVARIANTS TypeOK SnapshotAgrees ReceiptsNumbered ProgressSynchronized PayoutsAgree
PROPERTIES OnlyApprovedOverpayment ClosedStaysClosed FinishedStays PlansHaveRoom

\* One monthly plan for peak hours that no pricing band is for.
SPECIFICATION Spec
CONSTANTS
    Request = {r1}
    Booking = {b1}
    OneToOne = {b1}
    PackageBooking = b1
    Payment = {p1}
    None = None
    MaxPrice = 1
    MaxOver = 0
    LastDay = 1
    MaxSessions = 1
    MaxNumber = 1
    w1 = w1
    w2 = w2
    PlanMonth = {1}
    Weekly = {w2}
    PeakHours = {w2}
    MonthWeeks = 1
    Courts = 1
    BandForms <- MCBandForms
    MaxBands = 1
    MaxPlans = 1
    MaxPlanPayments = 1
    Referred = {b2}
    Partner = {u1}
    Commissions = {0, 1}
INVARIANT HoursAreSessions

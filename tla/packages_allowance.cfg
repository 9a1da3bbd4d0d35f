\* Scheduling and resizing at the same time.
SPECIFICATION Spec
CONSTANTS
    Request = {r1, r2}
    Booking = {b1}
    OneToOne = {b1}
    PackageBooking = b1
    Payment = {p1}
    None = None
    MaxPrice = 1
    MaxOver = 0
    LastDay = 1
    MaxSessions = 2
    MaxNumber = 3
SYMMETRY RequestSymmetry
INVARIANT AllowanceRespected

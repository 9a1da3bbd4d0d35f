\* Two requests at a time on SQLite: for a court that hosts one game or another,
\* and while closures and layouts change.
SPECIFICATION DeskSpec
CONSTANTS
    Handler = {h1, h2}
    Id = {b1, b2}
    Span <- HourAndHalf
    SpanGroup <- SingleHour
    Activity <- AllActivities
    Training = "training"
    MaxQuantity = 1
    Layout <- TwoLayouts
    Capacity <- EitherUse
    Closure <- Maintenance
    WholeCourt = "all"
    Driver = "sqlite"
    Horizon = 1
    MaxLayoutEdits = 1
SYMMETRY IdSymmetry
INVARIANTS RequestsAreCurrent NoOverbooking
PROPERTIES ReservesAtomically ConfirmationIsCurrent PaidBookingKeepsItsSlot

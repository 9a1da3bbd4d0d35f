\* Closures and layouts change while requests are confirmed, on SQLite.
SPECIFICATION Spec
CONSTANTS
    Handler = {h1, h2}
    Id = {b1, b2}
    Span <- OneHour
    SpanGroup <- SingleHour
    Activity <- GameAndTraining
    Training = "training"
    MaxQuantity = 1
    Layout <- TwoSizes
    Capacity <- SizedCourt
    Closure <- Maintenance
    WholeCourt = "all"
    Driver = "sqlite"
    Horizon = 0
    MaxLayoutEdits = 1
SYMMETRY IdSymmetry
PROPERTIES ConfirmationIsCurrent PaidBookingKeepsItsSlot

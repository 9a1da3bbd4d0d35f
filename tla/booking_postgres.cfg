\* The status machine and paid bookings on PostgreSQL, READ COMMITTED.
SPECIFICATION DeskSpec
CONSTANTS
    Handler = {h1, h2}
    Id = {b1, b2}
    Span <- HourAndHalf
    SpanGroup <- SingleHour
    Activity <- GameAndTraining
    Training = "training"
    MaxQuantity = 1
    Layout <- TwoSizes
    Capacity <- SizedCourt
    Closure <- Maintenance
    WholeCourt = "all"
    Driver = "postgres"
    Horizon = 1
    MaxLayoutEdits = 0
SYMMETRY IdSymmetry
PROPERTY StatusOrder

\* PostgreSQL, READ COMMITTED: two requests validate the same slot.
SPECIFICATION Spec
CONSTANTS
    Handler = {h1, h2}
    Id = {b1, b2}
    Span <- OneHour
    SpanGroup <- SingleHour
    Activity <- GameAndTraining
    Training = "training"
    MaxQuantity = 1
    Layout <- TwoSizes
    Capacity <- SizedCourt
    Closure <- Maintenance
    WholeCourt = "all"
    Driver = "postgres"
    Horizon = 1
    MaxLayoutEdits = 0
SYMMETRY IdSymmetry
INVARIANT NoOverbooking

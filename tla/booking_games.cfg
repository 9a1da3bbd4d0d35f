\* Two requests race for a court that hosts badminton or futsal, on SQLite.
SPECIFICATION Spec
CONSTANTS
    Handler = {h1, h2}
    Id = {b1, b2}
    Span <- HourAndHalf
    SpanGroup <- SingleHour
    Activity <- TwoGames
    Training = "training"
    MaxQuantity = 1
    Layout <- TwoLayouts
    Capacity <- EitherGame
    Closure <- NoClosure
    WholeCourt = "all"
    Driver = "sqlite"
    Horizon = 1
    MaxLayoutEdits = 0
SYMMETRY IdSymmetry
INVARIANTS RequestsAreCurrent NoOverbooking
PROPERTY ReservesAtomically

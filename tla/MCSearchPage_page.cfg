SPECIFICATION FairSpec
CONSTANTS
    Search = {1, 2}
    Page = {1, 2}
    Completed = 2
    MaxInFlight = 2
    MaxEvents = 3
INVARIANTS
    TypeOK
    OneInterval
    FinalIsShown
PROPERTIES
    PollingStops
CHECK_DEADLOCK FALSE

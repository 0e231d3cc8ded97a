SPECIFICATION BoundedSpec
CONSTANTS
    Tabs = {a, b}
    MaxSessions = 3
    StorageFails = TRUE
    Steady = 2
SYMMETRY Interchangeable
INVARIANTS
    TypeOK
    TabsInStep
    SessionIsWatched
    RedeemedIsDead
    StoredIsLive


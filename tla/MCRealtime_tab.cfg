SPECIFICATION Spec
CONSTANTS
    MaxHubs = 2
    MaxRows = 3
    RecentLimit = 2
    PageSize = 2
    MaxPushing = 1
INVARIANTS
    TypeOK
    SocketIsOwned
    BellInStep
    ThreadIsWhole
    LiveIsRead

CHECK_DEADLOCK FALSE

SPECIFICATION Spec
CONSTANTS
    LastDay = 2
    LastPrice = 2
    LastPage = 2
    CheckoutTabs = {a, b}
    Prices = {15, 3333}
    Deposits = {100}
    Spans = {23, 47}
    MaxCreating = 2
    MaxBooked = 2
    Phones = {p, q}
    PickUpAt = 2
    ReturnAt = 4
    DayLength = 2
    MaxClock = 6
    MaxMileage = 2
    MaxCommands = 2
INVARIANTS TypeOK RefusedWhenStale ReadingsInOrder CancelNeverSticks TilesAgree BookedAsQuoted FiltersStick
SYMMETRY Alike

SPECIFICATION TurnSpec
CONSTANTS
    BookingIds = {b1, b2}
    InspectionIds = {i1, i2}
    Cars = {c1}
    Requests = {r1, r2}
    Horizon = 3
    None = None
    renter = renter
    owner = owner
    staff = staff
    Users <- MCUsers
    Role <- MCRole
    OwnerOf <- MCOwnerOf
SYMMETRY Interchangeable
INVARIANT OnlyEnclosingOverlaps
PROPERTY RefinesLifecycle
CHECK_DEADLOCK FALSE

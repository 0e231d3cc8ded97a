SPECIFICATION Spec
CONSTANTS
    BookingIds = {b1}
    InspectionIds = {i1, i2, i3, i4}
    Cars = {c1}
    Requests = {r1, r2, r3}
    Horizon = 1
    None = None
    renter = renter
    owner = owner
    staff = staff
    Users <- MCUsers
    Role <- MCRole
    OwnerOf <- MCOwnerOf
SYMMETRY Interchangeable
INVARIANTS
    TypeOK
    EvidenceBacksStatus
    TripCountBounded
    NoticeHasCause
CHECK_DEADLOCK FALSE

SPECIFICATION Spec
CONSTANTS
    BookingIds = {b1}
    InspectionIds = {i1, i2}
    Cars = {c1}
    Requests = {r1, r2}
    Horizon = 1
    None = None
    renter = renter
    owner = owner
    staff = staff
    Users <- MCUsers
    Role <- MCRole
    OwnerOf <- MCOwnerOf
SYMMETRY Interchangeable
PROPERTY FinalStatusesStay
CHECK_DEADLOCK FALSE

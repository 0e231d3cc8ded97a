SPECIFICATION SteadySpec
CONSTANTS
    ReviewIds = {v1, v2, v3}
    Trips = {t1, t2}
    Ratings = {4, 5}
    Requests = {r1, r2}
    None = None
    car = car
    renter = renter
    owner = owner
    Cars <- MCCars
    Users <- MCUsers
    CarOf <- MCCarOf
    RenterOf <- MCRenterOf
    OwnerOf <- MCOwnerOf
SYMMETRY Interchangeable
INVARIANT RatingInStep
CHECK_DEADLOCK FALSE

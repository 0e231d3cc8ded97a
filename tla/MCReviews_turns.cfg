SPECIFICATION FairTurnSpec
CONSTANTS
    ReviewIds = {v1, v2}
    Trips = {t1, t2}
    Ratings = {4, 5}
    Requests = {r1, r2}
    None = None
    car = car
    renter = renter
    owner = owner
    Cars <- MCCars
    Users <- MCUsers
    CarOf <- MCCarOf
    RenterOf <- MCRenterOf
    OwnerOf <- MCOwnerOf
INVARIANTS
    TypeOK
    OneReviewPerSide
    RatingInStep
PROPERTY RatingSettles
CHECK_DEADLOCK FALSE

------------------------------- MODULE Reviews -------------------------------
(***************************************************************************)
(* Two-sided reviews of completed trips, and the two columns of a car that  *)
(* summarise them.  CreateReview and DeleteReview commit the review first   *)
(* and the recalculated rating second, and the recalculation is two queries *)
(* and a save: other requests run in between, and a request can end between *)
(* its commits.                                                            *)
(***************************************************************************)
EXTENDS Naturals, FiniteSets

CONSTANTS
    ReviewIds,       \* the Guids a review can be given
    Trips,           \* completed bookings; the others refuse a review
    Cars,
    Users,
    CarOf,           \* Booking.CarId, RenterId and OwnerId of each trip
    RenterOf,
    OwnerOf,
    Ratings,         \* the ratings given, of the 1 .. 5 the validator accepts
    Requests,        \* HTTP requests the server can have open at once
    None             \* no review

VARIABLES
    reviews,         \* table Reviews
    written,         \* history: every review ever saved
    total,           \* column TotalReviews of each car
    average,         \* column AverageRating of each car, in hundredths
    interrupted,     \* history: cars whose last recalculation did not finish
    told,            \* table Notifications, the rows about reviews
    req              \* what each open request holds in its handler's locals

vars == <<reviews, written, total, average, interrupted, told, req>>

ReviewType == {"RenterToOwner", "OwnerToRenter"}
Average == {0} \cup 100 .. 500      \* no review, or from one star to five

Review == [id: ReviewIds, trip: Trips, type: ReviewType, rating: Ratings]

Idle == [op |-> "idle"]
CreateLocals == [op: {"create"}, trip: Trips, type: ReviewType, rating: Ratings]
DeleteLocals == [op: {"delete"}, review: Review]

(* After the first commit: the car to recalculate, and the review to         *)
(* announce at the end, which a deletion has not.                           *)
RecalcLocals == [op: {"recalculate"}, car: Cars, then: Review \cup {None}]

(* The car's columns as read, which the change tracker compares with what is *)
(* assigned.                                                                *)
CarReadLocals == [op: {"carRead"}, car: Cars, then: Review \cup {None},
                  total: Nat, average: Average]
AssignedLocals == [op: {"assigned"}, car: Cars, then: Review \cup {None},
                   total: Nat, average: Average, newTotal: Nat, newAverage: Average]
NotifyLocals == [op: {"notify"}, review: Review]

Locals == {Idle} \cup CreateLocals \cup DeleteLocals \cup RecalcLocals
                 \cup CarReadLocals \cup AssignedLocals \cup NotifyLocals

ASSUME ReviewsAssumption ==
    /\ Ratings \subseteq 1 .. 5
    /\ CarOf \in [Trips -> Cars]
    /\ RenterOf \in [Trips -> Users]
    /\ OwnerOf \in [Trips -> Users]
    /\ IsFiniteSet(ReviewIds)
    /\ None \notin Review

-----------------------------------------------------------------------------
(* Reads *)

Unreviewed(t, type) == \A v \in reviews : ~ (v.trip = t /\ v.type = type)

(* Only what a renter says counts for the car. *)
CountedFor(c) == {v \in reviews : v.type = "RenterToOwner" /\ CarOf[v.trip] = c}

(* Math.Round(ratings.Average(), 2), which rounds halves to even. *)
RoundedDiv(x, n) ==
    LET q == x \div n
        twice == 2 * (x % n)
    IN  IF twice > n \/ (twice = n /\ q % 2 = 1) THEN q + 1 ELSE q

(* The stars that reviews S give: as many as the sum of their ratings.       *)
Stars(S) == {s \in S \X (1 .. 5) : s[2] <= s[1].rating}

AverageOf(S) ==
    IF S = {} THEN 0
    ELSE RoundedDiv(100 * Cardinality(Stars(S)), Cardinality(S))

(* Mutant of Reviewee: the wrong Guid of the booking. *)
RevieweeIsCar(v) == CarOf[v.trip]

Reviewee(v) == IF v.type = "RenterToOwner" THEN OwnerOf[v.trip] ELSE RenterOf[v.trip]

-----------------------------------------------------------------------------
(* CreateReview *)

(* A party to a completed trip who has not reviewed it.  The direction is    *)
(* the renter's for a user who is both.                                     *)
CreateCheck(r) ==
    /\ req[r] = Idle
    /\ \E t \in Trips, rating \in Ratings :
       \E u \in {RenterOf[t], OwnerOf[t]} :
          LET type == IF u = RenterOf[t] THEN "RenterToOwner" ELSE "OwnerToRenter"
          IN  /\ Unreviewed(t, type)
              /\ req' = [req EXCEPT ![r] =
                           [op |-> "create", trip |-> t, type |-> type, rating |-> rating]]
    /\ UNCHANGED <<reviews, written, total, average, interrupted, told>>

FreshReview(i) == \A v \in written : v.id # i

(* What a request does once its review is in or out of the table. *)
AfterCommit(v, then) ==
    IF v.type = "RenterToOwner"
    THEN [op |-> "recalculate", car |-> CarOf[v.trip], then |-> then]
    ELSE IF then = None THEN Idle ELSE [op |-> "notify", review |-> then]

(* Mutant of CreateInsert: there is no unique index. *)
CreateInsertUnindexed(r) ==
    /\ req[r].op = "create"
    /\ \E i \in ReviewIds :
          LET v == [id |-> i, trip |-> req[r].trip, type |-> req[r].type,
                    rating |-> req[r].rating]
          IN  /\ FreshReview(i)
              /\ reviews' = reviews \cup {v}
              /\ written' = written \cup {v}
              /\ req' = [req EXCEPT ![r] = AfterCommit(v, v)]
    /\ UNCHANGED <<total, average, interrupted, told>>

(* The insert, under the unique index on (BookingId, Type). *)
CreateInsert(r) ==
    /\ req[r].op = "create"
    /\ Unreviewed(req[r].trip, req[r].type)
    /\ \E i \in ReviewIds :
          LET v == [id |-> i, trip |-> req[r].trip, type |-> req[r].type,
                    rating |-> req[r].rating]
          IN  /\ FreshReview(i)
              /\ reviews' = reviews \cup {v}
              /\ written' = written \cup {v}
              /\ req' = [req EXCEPT ![r] = AfterCommit(v, v)]
    /\ UNCHANGED <<total, average, interrupted, told>>

-----------------------------------------------------------------------------
(* DeleteReview, by a moderator *)

DeleteLoad(r) ==
    /\ req[r] = Idle
    /\ \E v \in reviews : req' = [req EXCEPT ![r] = [op |-> "delete", review |-> v]]
    /\ UNCHANGED <<reviews, written, total, average, interrupted, told>>

(* Mutant of DeleteRemove: the rating is left to the next review. *)
DeleteRemoveOnly(r) ==
    /\ req[r].op = "delete"
    /\ req[r].review \in reviews
    /\ reviews' = reviews \ {req[r].review}
    /\ req' = [req EXCEPT ![r] = Idle]
    /\ UNCHANGED <<written, total, average, interrupted, told>>

DeleteRemove(r) ==
    /\ req[r].op = "delete"
    /\ req[r].review \in reviews
    /\ reviews' = reviews \ {req[r].review}
    /\ req' = [req EXCEPT ![r] = AfterCommit(req[r].review, None)]
    /\ UNCHANGED <<written, total, average, interrupted, told>>

(* The index refuses the insert, or the row to delete is gone: the save      *)
(* throws and the request ends.                                             *)
Refused(r) ==
    /\ \/ req[r].op = "create" /\ ~ Unreviewed(req[r].trip, req[r].type)
       \/ req[r].op = "delete" /\ req[r].review \notin reviews
    /\ req' = [req EXCEPT ![r] = Idle]
    /\ UNCHANGED <<reviews, written, total, average, interrupted, told>>

-----------------------------------------------------------------------------
(* CarRatingRecalculator, and the caller's save *)

ReadCar(r) ==
    /\ req[r].op = "recalculate"
    /\ LET q == req[r] IN
       req' = [req EXCEPT ![r] =
                 [op |-> "carRead", car |-> q.car, then |-> q.then,
                  total |-> total[q.car], average |-> average[q.car]]]
    /\ UNCHANGED <<reviews, written, total, average, interrupted, told>>

ReadRatings(r) ==
    /\ req[r].op = "carRead"
    /\ LET q == req[r] IN
       req' = [req EXCEPT ![r] =
                 [op |-> "assigned", car |-> q.car, then |-> q.then,
                  total |-> q.total, average |-> q.average,
                  newTotal |-> Cardinality(CountedFor(q.car)),
                  newAverage |-> AverageOf(CountedFor(q.car))]]
    /\ UNCHANGED <<reviews, written, total, average, interrupted, told>>

Finished(then) == IF then = None THEN Idle ELSE [op |-> "notify", review |-> then]

(* Mutant of SaveRating: the count is incremented, not assigned. *)
SaveRatingIncrements(r) ==
    /\ req[r].op = "assigned"
    /\ LET q == req[r] IN
       /\ total' = [total EXCEPT ![q.car] = @ + 1]
       /\ average' = [average EXCEPT ![q.car] = q.newAverage]
       /\ interrupted' = interrupted \ {q.car}
       /\ req' = [req EXCEPT ![r] = Finished(q.then)]
    /\ UNCHANGED <<reviews, written, told>>

(* The save writes a column only if the value assigned is not the one read. *)
SaveRating(r) ==
    /\ req[r].op = "assigned"
    /\ LET q == req[r] IN
       /\ total' = IF q.newTotal = q.total THEN total
                   ELSE [total EXCEPT ![q.car] = q.newTotal]
       /\ average' = IF q.newAverage = q.average THEN average
                     ELSE [average EXCEPT ![q.car] = q.newAverage]
       /\ interrupted' = interrupted \ {q.car}
       /\ req' = [req EXCEPT ![r] = Finished(q.then)]
    /\ UNCHANGED <<reviews, written, told>>

-----------------------------------------------------------------------------
(* Notification and failure *)

(* Stored, or the failure to store it swallowed. *)
Notify(r) ==
    /\ req[r].op = "notify"
    /\ LET v == req[r].review IN
       told' \in {told, told \cup {[review |-> v.id, to |-> Reviewee(v)]}}
    /\ req' = [req EXCEPT ![r] = Idle]
    /\ UNCHANGED <<reviews, written, total, average, interrupted>>

Recalculating(r) == req[r].op \in {"recalculate", "carRead", "assigned"}

(* A query or a save throws, the client leaves, the process restarts. *)
Abort(r) ==
    /\ req[r] # Idle
    /\ req' = [req EXCEPT ![r] = Idle]
    /\ interrupted' = IF Recalculating(r) THEN interrupted \cup {req[r].car}
                                          ELSE interrupted
    /\ UNCHANGED <<reviews, written, total, average, told>>

-----------------------------------------------------------------------------

Init ==
    /\ reviews = {}
    /\ written = {}
    /\ total = [c \in Cars |-> 0]
    /\ average = [c \in Cars |-> 0]
    /\ interrupted = {}
    /\ told = {}
    /\ req = [r \in Requests |-> Idle]

(* What a handler does after its checks, when nothing fails. *)
Finish(r) ==
    \/ CreateInsert(r)
    \/ DeleteRemove(r)
    \/ Refused(r)
    \/ ReadCar(r)
    \/ ReadRatings(r)
    \/ SaveRating(r)
    \/ Notify(r)

Work(r) == CreateCheck(r) \/ DeleteLoad(r) \/ Finish(r)

Next == \E r \in Requests : Work(r) \/ Abort(r)

Spec == Init /\ [][Next]_vars

(* Requests race, but none fails. *)
SteadySpec == Init /\ [][\E r \in Requests : Work(r)]_vars

(***************************************************************************)
(* Under the assumption that commits and recalculations of one car do not   *)
(* overlap: a request commits a review of the car only when no other is     *)
(* between its own commit and its save of the rating.  Checks may still     *)
(* race, and requests may still fail.  The code does not enforce it.        *)
(***************************************************************************)
TurnTaking ==
    \A p, q \in Requests :
        p # q /\ Recalculating(p) /\ Recalculating(q) => req[p].car # req[q].car

TurnNext == Next /\ TurnTaking'

TurnSpec == Init /\ [][TurnNext]_vars

(* A handler past its checks runs on: the server schedules its continuation  *)
(* once the query it awaits has answered.                                   *)
FairTurnSpec ==
    TurnSpec /\ \A r \in Requests : WF_vars(Finish(r) /\ TurnTaking')

-----------------------------------------------------------------------------
(* Properties *)

(* Every table row, column and request's locals stay of their types; a car's *)
(* rating is 0 or, rounded, still between one star and five.                 *)
TypeOK ==
    /\ reviews \subseteq written
    /\ written \subseteq Review
    /\ total \in [Cars -> Nat]
    /\ average \in [Cars -> Average]
    /\ interrupted \subseteq Cars
    /\ told \subseteq [review: ReviewIds, to: Users]
    /\ req \in [Requests -> Locals]

(* "Two submissions racing each other cannot both land": one review a trip   *)
(* and direction, though both requests pass CreateReview's own check.       *)
OneReviewPerSide ==
    \A v, w \in reviews : v.trip = w.trip /\ v.type = w.type => v = w

InStep(c) ==
    /\ total[c] = Cardinality(CountedFor(c))
    /\ average[c] = AverageOf(CountedFor(c))

(* "Keeps Car.AverageRating and Car.TotalReviews in step with the reviews    *)
(* that actually exist": they are, unless a recalculation is under way or    *)
(* the last one was cut short.  The next one that finishes repairs them,     *)
(* whatever it finds.  With racing requests the claim is false.             *)
RatingInStep ==
    \A c \in Cars :
        \/ InStep(c)
        \/ c \in interrupted
        \/ \E r \in Requests : Recalculating(r) /\ req[r].car = c

(* A car's rating does not stay out of step for ever, unless a request that  *)
(* should have saved it was cut short.                                      *)
RatingSettles == \A c \in Cars : []<>(InStep(c) \/ c \in interrupted)

=============================================================================

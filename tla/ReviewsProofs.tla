---------------------------- MODULE ReviewsProofs ----------------------------
(***************************************************************************)
(* Proofs about Reviews for every value of its constants.                   *)
(***************************************************************************)
EXTENDS Reviews, FiniteSetTheorems, TLAPS

(* As much of the types as the proofs below need. *)
LocalsFit(r) ==
    /\ req[r].op = "create" =>
          req[r].trip \in Trips /\ req[r].type \in ReviewType /\ req[r].rating \in Ratings
    /\ req[r].op = "delete" => req[r].review \in Review
    /\ Recalculating(r) => req[r].car \in Cars

Shape ==
    /\ reviews \subseteq Review
    /\ total = [c \in Cars |-> total[c]]
    /\ average = [c \in Cars |-> average[c]]
    /\ req = [r \in Requests |-> req[r]]
    /\ \A r \in Requests : LocalsFit(r)

LEMMA InitShape == Init => Shape
  BY DEF Init, Shape, LocalsFit, Recalculating, Idle

LEMMA NextShape == Shape /\ [Next]_vars => Shape'
<1> SUFFICES ASSUME Shape, [Next]_vars PROVE Shape'
  OBVIOUS
<1> USE DEF Shape
<1>0. ASSUME NEW r \in Requests, NEW q, req' = [req EXCEPT ![r] = q],
             q.op = "create" => q.trip \in Trips /\ q.type \in ReviewType
                                /\ q.rating \in Ratings,
             q.op = "delete" => q.review \in Review,
             q.op \in {"recalculate", "carRead", "assigned"} => q.car \in Cars
      PROVE  /\ req' = [p \in Requests |-> req'[p]]
             /\ \A p \in Requests : LocalsFit(p)'
  <2>1. ASSUME NEW p \in Requests PROVE LocalsFit(p)'
    <3>1. CASE p = r
      BY <1>0, <3>1 DEF LocalsFit, Recalculating
    <3>2. CASE p # r
      BY <1>0, <3>2 DEF LocalsFit, Recalculating
    <3> QED
      BY <3>1, <3>2
  <2> QED
    BY <1>0, <2>1
<1>1. ASSUME NEW r \in Requests, CreateCheck(r) PROVE Shape'
  <2>1. PICK t \in Trips, rating \in Ratings, type \in ReviewType :
          req' = [req EXCEPT ![r] =
                    [op |-> "create", trip |-> t, type |-> type, rating |-> rating]]
    BY <1>1 DEF CreateCheck, ReviewType
  <2> QED
    BY <1>0, <1>1, <2>1 DEF CreateCheck
<1>2. ASSUME NEW r \in Requests, NEW v \in Review, NEW then
      PROVE  LET q == AfterCommit(v, then)
             IN  /\ q.op \in {"recalculate", "notify", "idle"}
                 /\ q.op = "recalculate" => q.car \in Cars
  BY ReviewsAssumption DEF AfterCommit, Idle, Review
<1>3. ASSUME NEW r \in Requests, CreateInsert(r) PROVE Shape'
  <2>1. req[r].trip \in Trips /\ req[r].type \in ReviewType /\ req[r].rating \in Ratings
    BY <1>3 DEF CreateInsert, LocalsFit
  <2>2. PICK v \in Review :
          /\ reviews' = reviews \cup {v}
          /\ req' = [req EXCEPT ![r] = AfterCommit(v, v)]
    BY <1>3, <2>1 DEF CreateInsert, Review
  <2> QED
    BY <1>0, <1>2, <1>3, <2>2 DEF CreateInsert
<1>4. ASSUME NEW r \in Requests, DeleteLoad(r) PROVE Shape'
  <2>1. PICK v \in reviews : req' = [req EXCEPT ![r] = [op |-> "delete", review |-> v]]
    BY <1>4 DEF DeleteLoad
  <2> QED
    BY <1>0, <1>4, <2>1 DEF DeleteLoad
<1>5. ASSUME NEW r \in Requests, DeleteRemove(r) PROVE Shape'
  <2>1. req[r].review \in Review
    BY <1>5 DEF DeleteRemove, LocalsFit
  <2> QED
    BY <1>0, <1>2, <1>5, <2>1 DEF DeleteRemove
<1>6. ASSUME NEW r \in Requests, Refused(r) PROVE Shape'
  BY <1>0, <1>6 DEF Refused, Idle
<1>7. ASSUME NEW r \in Requests, ReadCar(r) PROVE Shape'
  BY <1>0, <1>7 DEF ReadCar, LocalsFit, Recalculating
<1>8. ASSUME NEW r \in Requests, ReadRatings(r) PROVE Shape'
  BY <1>0, <1>8 DEF ReadRatings, LocalsFit, Recalculating
<1>9. ASSUME NEW r \in Requests, SaveRating(r) PROVE Shape'
  <2>1. Finished(req[r].then).op \in {"idle", "notify"}
    BY DEF Finished, Idle
  <2> QED
    BY <1>0, <1>9, <2>1 DEF SaveRating
<1>10. ASSUME NEW r \in Requests, Notify(r) \/ Abort(r) PROVE Shape'
  BY <1>0, <1>10 DEF Notify, Abort, Idle
<1>11. CASE UNCHANGED vars
  BY <1>11 DEF vars, LocalsFit, Recalculating
<1> QED
  BY <1>1, <1>3, <1>4, <1>5, <1>6, <1>7, <1>8, <1>9, <1>10, <1>11 DEF Next, Work, Finish

-----------------------------------------------------------------------------
(* The unique index *)

(* Requests that race past CreateReview's check for an existing review are   *)
(* stopped by the unique index: one review a trip and direction, always.     *)
THEOREM ReviewsAreUnique == Spec => []OneReviewPerSide
<1>1. Init => OneReviewPerSide
  BY DEF Init, OneReviewPerSide
<1>2. OneReviewPerSide /\ [Next]_vars => OneReviewPerSide'
  <2> SUFFICES ASSUME OneReviewPerSide, [Next]_vars PROVE OneReviewPerSide'
    OBVIOUS
  <2>1. ASSUME NEW r \in Requests, CreateInsert(r) PROVE OneReviewPerSide'
    <3>1. PICK v : /\ reviews' = reviews \cup {v}
                   /\ Unreviewed(v.trip, v.type)
      BY <2>1 DEF CreateInsert
    <3> QED
      BY <3>1 DEF OneReviewPerSide, Unreviewed
  <2>2. CASE reviews' \subseteq reviews
    BY <2>2 DEF OneReviewPerSide
  <2> QED
    BY <2>1, <2>2 DEF Next, Work, Finish, CreateCheck, DeleteLoad, DeleteRemove, Refused,
       ReadCar, ReadRatings, SaveRating, Notify, Abort, vars
<1> QED
  BY <1>1, <1>2, PTL DEF Spec

-----------------------------------------------------------------------------
(* The rating, when recalculations of a car do not overlap *)

(* What a recalculation holds is still what the tables say. *)
HeldIsFresh(r) ==
    /\ req[r].op \in {"carRead", "assigned"} =>
          req[r].total = total[req[r].car] /\ req[r].average = average[req[r].car]
    /\ req[r].op = "assigned" =>
          /\ req[r].newTotal = Cardinality(CountedFor(req[r].car))
          /\ req[r].newAverage = AverageOf(CountedFor(req[r].car))

Accounted(c) ==
    \/ InStep(c)
    \/ c \in interrupted
    \/ \E r \in Requests : Recalculating(r) /\ req[r].car = c

RatingInv ==
    /\ Shape
    /\ TurnTaking
    /\ \A c \in Cars : Accounted(c)
    /\ \A r \in Requests : HeldIsFresh(r)

(* A step of request r that concerns no car outside K leaves those cars, and *)
(* the requests that recalculate them, as they were.                        *)
LEMMA Elsewhere ==
  ASSUME RatingInv, NEW r \in Requests, NEW q, NEW K,
         req' = [req EXCEPT ![r] = q],
         interrupted \subseteq interrupted' \cup K,
         \A c \in Cars \ K : /\ CountedFor(c)' = CountedFor(c)
                             /\ total'[c] = total[c]
                             /\ average'[c] = average[c],
         Recalculating(r) => req[r].car \in K,
         \A p \in Requests \ {r} : Recalculating(p) => req[p].car \notin K
  PROVE  /\ req'[r] = q
         /\ \A c \in Cars \ K : Accounted(c)'
         /\ \A p \in Requests \ {r} : HeldIsFresh(p)'
<1>1. req'[r] = q /\ \A p \in Requests \ {r} : req'[p] = req[p]
  BY DEF RatingInv, Shape
<1>2. ASSUME NEW c \in Cars \ K PROVE Accounted(c)'
  <2>1. CASE InStep(c)
    <3>1. InStep(c)'
      BY <2>1 DEF InStep
    <3> QED
      BY <3>1 DEF Accounted
  <2>2. CASE c \in interrupted
    BY <2>2 DEF Accounted
  <2>3. ASSUME NEW p \in Requests, Recalculating(p), req[p].car = c PROVE Accounted(c)'
    <3>1. p # r
      BY <2>3
    <3>2. Recalculating(p)' /\ req'[p].car = c
      BY <1>1, <2>3, <3>1 DEF Recalculating
    <3> QED
      BY <3>2 DEF Accounted
  <2> QED
    BY <2>1, <2>2, <2>3 DEF RatingInv, Accounted
<1>3. ASSUME NEW p \in Requests \ {r} PROVE HeldIsFresh(p)'
  <2>1. req'[p] = req[p] /\ HeldIsFresh(p)
    BY <1>1 DEF RatingInv
  <2>2. CASE Recalculating(p)
    <3>1. PICK c \in Cars \ K : req[p].car = c
      BY <2>2 DEF RatingInv, Shape, LocalsFit
    <3>2. /\ CountedFor(c)' = CountedFor(c)
          /\ total'[c] = total[c]
          /\ average'[c] = average[c]
      BY <3>1
    <3>3. /\ req[p].op \in {"carRead", "assigned"} =>
                req[p].total = total'[c] /\ req[p].average = average'[c]
          /\ req[p].op = "assigned" =>
                /\ req[p].newTotal = Cardinality(CountedFor(c))'
                /\ req[p].newAverage = AverageOf(CountedFor(c))'
      BY <2>1, <3>1, <3>2 DEF HeldIsFresh
    <3> QED
      BY <2>1, <3>1, <3>3 DEF HeldIsFresh
  <2>3. CASE ~ Recalculating(p)
    BY <2>1, <2>3 DEF HeldIsFresh, Recalculating
  <2> QED
    BY <2>2, <2>3
<1> QED
  BY <1>1, <1>2, <1>3

(* A step of a request that neither recalculates before it nor touches what  *)
(* counts for any car, and does not hold a car's columns after it.          *)
LEMMA QuietStep ==
  ASSUME RatingInv, NEW r \in Requests, NEW q,
         req' = [req EXCEPT ![r] = q], q.op \notin {"carRead", "assigned"},
         interrupted \subseteq interrupted',
         \A c \in Cars : CountedFor(c)' = CountedFor(c),
         UNCHANGED <<total, average>>,
         ~ Recalculating(r)
  PROVE  /\ \A c \in Cars : Accounted(c)'
         /\ \A p \in Requests : HeldIsFresh(p)'
<1>1. /\ req'[r] = q
      /\ \A c \in Cars \ {} : Accounted(c)'
      /\ \A p \in Requests \ {r} : HeldIsFresh(p)'
  <2>1. PICK K : K = {}
    OBVIOUS
  <2>2. /\ interrupted \subseteq interrupted' \cup K
        /\ \A c \in Cars \ K : /\ CountedFor(c)' = CountedFor(c)
                               /\ total'[c] = total[c]
                               /\ average'[c] = average[c]
        /\ Recalculating(r) => req[r].car \in K
        /\ \A p \in Requests \ {r} : Recalculating(p) => req[p].car \notin K
    BY <2>1
  <2>3. /\ req'[r] = q
        /\ \A c \in Cars \ K : Accounted(c)'
        /\ \A p \in Requests \ {r} : HeldIsFresh(p)'
    BY <2>2, Elsewhere
  <2> QED
    BY <2>1, <2>3
<1>2. HeldIsFresh(r)'
  BY <1>1 DEF HeldIsFresh
<1> QED
  BY <1>1, <1>2

(* A step of the request that recalculates, or starts to recalculate, car k. *)
LEMMA RecalculationStep ==
  ASSUME RatingInv, NEW r \in Requests, NEW q, NEW k \in Cars,
         req' = [req EXCEPT ![r] = q],
         interrupted \subseteq interrupted' \cup {k},
         \A c \in Cars \ {k} : /\ CountedFor(c)' = CountedFor(c)
                               /\ total'[c] = total[c]
                               /\ average'[c] = average[c],
         Recalculating(r) => req[r].car = k,
         \A p \in Requests \ {r} : Recalculating(p) => req[p].car # k,
         Accounted(k)', HeldIsFresh(r)'
  PROVE  /\ \A c \in Cars : Accounted(c)'
         /\ \A p \in Requests : HeldIsFresh(p)'
<1>1. /\ \A c \in Cars \ {k} : Accounted(c)'
      /\ \A p \in Requests \ {r} : HeldIsFresh(p)'
  BY Elsewhere
<1> QED
  BY <1>1

(* A commit of review v: its car is being recalculated afterwards, and the   *)
(* reviews of no other car have changed.                                    *)
LEMMA CommitStep ==
  ASSUME RatingInv, TurnTaking', NEW r \in Requests, NEW v \in Review, NEW q,
         reviews' = reviews \cup {v} \/ reviews' = reviews \ {v},
         req' = [req EXCEPT ![r] = q],
         v.type = "RenterToOwner" => q.op = "recalculate" /\ q.car = CarOf[v.trip],
         v.type # "RenterToOwner" => q.op \notin {"carRead", "assigned"},
         UNCHANGED <<total, average, interrupted>>,
         ~ Recalculating(r)
  PROVE  /\ \A c \in Cars : Accounted(c)'
         /\ \A p \in Requests : HeldIsFresh(p)'
<1>1. req'[r] = q /\ \A p \in Requests \ {r} : req'[p] = req[p]
  BY DEF RatingInv, Shape
<1>2. CASE v.type = "RenterToOwner"
  <2>1. PICK k \in Cars : k = CarOf[v.trip]
    BY ReviewsAssumption DEF Review
  <2>2. req'[r].op = "recalculate" /\ req'[r].car = k
    BY <1>1, <1>2, <2>1
  <2>3. \A c \in Cars \ {k} : CountedFor(c)' = CountedFor(c)
    BY <2>1 DEF CountedFor
  <2>4. ASSUME NEW p \in Requests \ {r}, Recalculating(p) PROVE req[p].car # k
    <3>1. Recalculating(p)' /\ Recalculating(r)'
      BY <1>1, <2>2, <2>4 DEF Recalculating
    <3>2. req'[p].car # req'[r].car
      BY <3>1 DEF TurnTaking
    <3> QED
      BY <1>1, <2>2, <3>2
  <2>5. Accounted(k)'
    BY <2>2 DEF Accounted, Recalculating
  <2>6. HeldIsFresh(r)'
    BY <2>2 DEF HeldIsFresh
  <2> QED
    BY <2>3, <2>4, <2>5, <2>6, RecalculationStep
<1>3. CASE v.type # "RenterToOwner"
  <2>1. \A c \in Cars : CountedFor(c)' = CountedFor(c)
    BY <1>3 DEF CountedFor
  <2> QED
    BY <1>3, <2>1, QuietStep
<1> QED
  BY <1>2, <1>3

LEMMA NextRatingInv == RatingInv /\ [TurnNext]_vars => RatingInv'
<1> SUFFICES ASSUME RatingInv, [TurnNext]_vars PROVE RatingInv'
  OBVIOUS
<1>1. Shape' /\ TurnTaking'
  <2>1. Shape'
    BY NextShape DEF RatingInv, TurnNext
  <2>2. TurnTaking'
    <3>1. CASE UNCHANGED vars
      BY <3>1 DEF RatingInv, TurnTaking, Recalculating, vars
    <3>2. CASE TurnNext
      BY <3>2 DEF TurnNext
    <3> QED
      BY <3>1, <3>2
  <2> QED
    BY <2>1, <2>2
<1> DEFINE Kept == /\ \A c \in Cars : Accounted(c)'
                   /\ \A p \in Requests : HeldIsFresh(p)'
<1> SUFFICES Kept
  BY <1>1 DEF RatingInv
<1> USE DEF Idle
<1>2. reviews' = reviews => \A c \in Cars : CountedFor(c)' = CountedFor(c)
  BY DEF CountedFor
<1>0. ASSUME NEW v, NEW then, NEW q, q = AfterCommit(v, then)
      PROVE  /\ v.type = "RenterToOwner" => q.op = "recalculate" /\ q.car = CarOf[v.trip]
             /\ v.type # "RenterToOwner" => q.op \notin {"carRead", "assigned"}
  BY <1>0 DEF AfterCommit
<1>3. ASSUME NEW r \in Requests, CreateCheck(r) PROVE Kept
  <2>1. PICK t, rating, type :
          req' = [req EXCEPT ![r] =
                    [op |-> "create", trip |-> t, type |-> type, rating |-> rating]]
    BY <1>3 DEF CreateCheck
  <2>2. PICK q : q = [op |-> "create", trip |-> t, type |-> type, rating |-> rating]
    OBVIOUS
  <2>3. req' = [req EXCEPT ![r] = q] /\ q.op \notin {"carRead", "assigned"}
    BY <2>1, <2>2
  <2>4. UNCHANGED <<reviews, total, average, interrupted>> /\ ~ Recalculating(r)
    BY <1>3 DEF CreateCheck, Recalculating
  <2> QED
    BY <1>2, <2>3, <2>4, QuietStep
<1>4. ASSUME NEW r \in Requests, CreateInsert(r) PROVE Kept
  <2>1. req[r].trip \in Trips /\ req[r].type \in ReviewType /\ req[r].rating \in Ratings
    BY <1>4 DEF CreateInsert, RatingInv, Shape, LocalsFit
  <2>2. PICK v \in Review :
          /\ reviews' = reviews \cup {v}
          /\ req' = [req EXCEPT ![r] = AfterCommit(v, v)]
    BY <1>4, <2>1 DEF CreateInsert, Review
  <2>3. /\ reviews' = reviews \cup {v} \/ reviews' = reviews \ {v}
        /\ UNCHANGED <<total, average, interrupted>>
        /\ ~ Recalculating(r)
    BY <1>4, <2>2 DEF CreateInsert, Recalculating
  <2>4. PICK q : q = AfterCommit(v, v)
    OBVIOUS
  <2>5. /\ v.type = "RenterToOwner" => q.op = "recalculate" /\ q.car = CarOf[v.trip]
        /\ v.type # "RenterToOwner" => q.op \notin {"carRead", "assigned"}
    BY <1>0, <2>4
  <2>6. req' = [req EXCEPT ![r] = q]
    BY <2>2, <2>4
  <2> QED
    BY <1>1, <2>3, <2>5, <2>6, CommitStep
<1>5. ASSUME NEW r \in Requests, DeleteLoad(r) PROVE Kept
  <2>1. PICK v : req' = [req EXCEPT ![r] = [op |-> "delete", review |-> v]]
    BY <1>5 DEF DeleteLoad
  <2>2. PICK q : q = [op |-> "delete", review |-> v]
    OBVIOUS
  <2>3. req' = [req EXCEPT ![r] = q] /\ q.op \notin {"carRead", "assigned"}
    BY <2>1, <2>2
  <2>4. UNCHANGED <<reviews, total, average, interrupted>> /\ ~ Recalculating(r)
    BY <1>5 DEF DeleteLoad, Recalculating
  <2> QED
    BY <1>2, <2>3, <2>4, QuietStep
<1>6. ASSUME NEW r \in Requests, DeleteRemove(r) PROVE Kept
  <2>1. PICK v \in Review : v = req[r].review
    BY <1>6 DEF DeleteRemove, RatingInv, Shape, LocalsFit
  <2>2. /\ reviews' = reviews \cup {v} \/ reviews' = reviews \ {v}
        /\ req' = [req EXCEPT ![r] = AfterCommit(v, None)]
        /\ UNCHANGED <<total, average, interrupted>>
        /\ ~ Recalculating(r)
    BY <1>6, <2>1 DEF DeleteRemove, Recalculating
  <2>3. PICK q : q = AfterCommit(v, None)
    OBVIOUS
  <2>4. /\ v.type = "RenterToOwner" => q.op = "recalculate" /\ q.car = CarOf[v.trip]
        /\ v.type # "RenterToOwner" => q.op \notin {"carRead", "assigned"}
    BY <1>0, <2>3
  <2>5. req' = [req EXCEPT ![r] = q]
    BY <2>2, <2>3
  <2> QED
    BY <1>1, <2>2, <2>4, <2>5, CommitStep
<1>7. ASSUME NEW r \in Requests, Refused(r) \/ Notify(r) PROVE Kept
  <2>1. UNCHANGED <<reviews, total, average, interrupted>> /\ ~ Recalculating(r)
    BY <1>7 DEF Refused, Notify, Recalculating
  <2>2. PICK q : q = Idle
    OBVIOUS
  <2>3. req' = [req EXCEPT ![r] = q] /\ q.op \notin {"carRead", "assigned"}
    BY <1>7, <2>2 DEF Refused, Notify
  <2> QED
    BY <1>2, <2>1, <2>3, QuietStep
<1>8. ASSUME NEW r \in Requests, Recalculating(r)
      PROVE  /\ req[r].car \in Cars
             /\ \A p \in Requests \ {r} : Recalculating(p) => req[p].car # req[r].car
  BY <1>8 DEF RatingInv, Shape, LocalsFit, TurnTaking
<1>9. ASSUME NEW r \in Requests, ReadCar(r) PROVE Kept
  <2>1. Recalculating(r)
    BY <1>9 DEF ReadCar, Recalculating
  <2>2. PICK k \in Cars : k = req[r].car
    BY <1>8, <2>1
  <2>0. PICK q : q = [op |-> "carRead", car |-> k, then |-> req[r].then,
                      total |-> total[k], average |-> average[k]]
    OBVIOUS
  <2>3. /\ req' = [req EXCEPT ![r] = q]
        /\ q.op = "carRead" /\ q.car = k
        /\ q.total = total[k] /\ q.average = average[k]
    BY <1>9, <2>2, <2>0 DEF ReadCar
  <2>4. req'[r] = q /\ UNCHANGED <<reviews, total, average, interrupted>>
    BY <1>9, <2>3 DEF ReadCar, RatingInv, Shape
  <2>5. Accounted(k)'
    BY <2>3, <2>4 DEF Accounted, Recalculating
  <2>6. HeldIsFresh(r)'
    BY <2>3, <2>4 DEF HeldIsFresh
  <2> QED
    BY <1>2, <1>8, <2>1, <2>2, <2>3, <2>4, <2>5, <2>6, RecalculationStep
<1>10. ASSUME NEW r \in Requests, ReadRatings(r) PROVE Kept
  <2>1. Recalculating(r) /\ req[r].op = "carRead"
    BY <1>10 DEF ReadRatings, Recalculating
  <2>2. PICK k \in Cars : k = req[r].car
    BY <1>8, <2>1
  <2>0. PICK q : q = [op |-> "assigned", car |-> k, then |-> req[r].then,
                      total |-> req[r].total, average |-> req[r].average,
                      newTotal |-> Cardinality(CountedFor(k)),
                      newAverage |-> AverageOf(CountedFor(k))]
    OBVIOUS
  <2>3. /\ req' = [req EXCEPT ![r] = q]
        /\ q.op = "assigned" /\ q.car = k
        /\ q.total = req[r].total /\ q.average = req[r].average
        /\ q.newTotal = Cardinality(CountedFor(k))
        /\ q.newAverage = AverageOf(CountedFor(k))
    BY <1>10, <2>2, <2>0 DEF ReadRatings
  <2>4. req'[r] = q /\ UNCHANGED <<reviews, total, average, interrupted>>
    BY <1>10, <2>3 DEF ReadRatings, RatingInv, Shape
  <2>5. Accounted(k)'
    BY <2>3, <2>4 DEF Accounted, Recalculating
  <2>6. q.total = total[k] /\ q.average = average[k]
    BY <2>1, <2>2, <2>3 DEF RatingInv, HeldIsFresh
  <2>7. CountedFor(k)' = CountedFor(k)
    BY <1>2, <2>4
  <2>8. HeldIsFresh(r)'
    BY <2>3, <2>4, <2>6, <2>7 DEF HeldIsFresh
  <2> QED
    BY <1>2, <1>8, <2>1, <2>2, <2>3, <2>4, <2>5, <2>8, RecalculationStep
<1>11. ASSUME NEW r \in Requests, SaveRating(r) PROVE Kept
  <2>1. Recalculating(r) /\ req[r].op = "assigned"
    BY <1>11 DEF SaveRating, Recalculating
  <2>2. PICK k \in Cars : k = req[r].car
    BY <1>8, <2>1
  <2>3. PICK q : q = req[r]
    OBVIOUS
  <2>4. /\ q.total = total[k] /\ q.average = average[k]
        /\ q.newTotal = Cardinality(CountedFor(k))
        /\ q.newAverage = AverageOf(CountedFor(k))
    BY <2>1, <2>2, <2>3 DEF RatingInv, HeldIsFresh
  <2>5. /\ total' = IF q.newTotal = q.total THEN total
                    ELSE [total EXCEPT ![k] = q.newTotal]
        /\ average' = IF q.newAverage = q.average THEN average
                      ELSE [average EXCEPT ![k] = q.newAverage]
        /\ interrupted' = interrupted \ {k}
        /\ reviews' = reviews
        /\ req' = [req EXCEPT ![r] = Finished(q.then)]
    BY <1>11, <2>2, <2>3 DEF SaveRating
  <2>6. /\ total'[k] = q.newTotal
        /\ average'[k] = q.newAverage
        /\ \A c \in Cars \ {k} : total'[c] = total[c] /\ average'[c] = average[c]
    BY <2>4, <2>5 DEF RatingInv, Shape
  <2>7. CountedFor(k)' = CountedFor(k)
    BY <1>2, <2>5
  <2>8. InStep(k)'
    BY <2>4, <2>6, <2>7 DEF InStep
  <2>9. Accounted(k)'
    BY <2>8 DEF Accounted
  <2>10. req'[r].op \notin {"carRead", "assigned"}
    BY <2>5 DEF Finished, RatingInv, Shape
  <2>11. HeldIsFresh(r)'
    BY <2>10 DEF HeldIsFresh
  <2> QED
    BY <1>2, <1>8, <2>1, <2>2, <2>5, <2>6, <2>9, <2>11, RecalculationStep
<1>12. ASSUME NEW r \in Requests, Abort(r) PROVE Kept
  <2>1. CASE ~ Recalculating(r)
    BY <1>2, <1>12, <2>1, QuietStep DEF Abort
  <2>2. CASE Recalculating(r)
    <3>1. PICK k \in Cars : k = req[r].car
      BY <1>8, <2>2
    <3>2. /\ req' = [req EXCEPT ![r] = Idle]
          /\ interrupted' = interrupted \cup {k}
          /\ UNCHANGED <<reviews, total, average>>
      BY <1>12, <2>2, <3>1 DEF Abort
    <3>3. Accounted(k)'
      BY <3>2 DEF Accounted
    <3>4. HeldIsFresh(r)'
      BY <3>2 DEF HeldIsFresh, RatingInv, Shape
    <3> QED
      BY <1>2, <1>8, <2>2, <3>1, <3>2, <3>3, <3>4, RecalculationStep
  <2> QED
    BY <2>1, <2>2
<1>13. CASE UNCHANGED vars
  <2>1. UNCHANGED <<reviews, total, average, interrupted, req>>
    BY <1>13 DEF vars
  <2>2. ASSUME NEW c \in Cars PROVE Accounted(c)'
    <3>1. InStep(c) => InStep(c)'
      BY <1>2, <2>1 DEF InStep
    <3> QED
      BY <2>1, <3>1 DEF RatingInv, Accounted, Recalculating
  <2>3. ASSUME NEW p \in Requests PROVE HeldIsFresh(p)'
    BY <2>1 DEF RatingInv, HeldIsFresh, CountedFor
  <2> QED
    BY <2>2, <2>3
<1> QED
  BY <1>3, <1>4, <1>5, <1>6, <1>7, <1>9, <1>10, <1>11, <1>12, <1>13
     DEF TurnNext, Next, Work, Finish

(* When recalculations of a car do not overlap, its rating is that of its    *)
(* reviews whenever none is under way, unless the last one was cut short;    *)
(* one that finishes makes good whatever the failed ones left.              *)
THEOREM RatingKeepsStep == TurnSpec => []RatingInStep
<1>1. Init => RatingInv
  <2> SUFFICES ASSUME Init PROVE RatingInv
    OBVIOUS
  <2>1. Shape
    BY InitShape
  <2>2. \A r \in Requests : req[r].op = "idle"
    BY DEF Init, Idle
  <2>3. ASSUME NEW c \in Cars PROVE Accounted(c)
    <3>1. CountedFor(c) = {}
      BY DEF Init, CountedFor
    <3>2. Cardinality({}) = 0 /\ AverageOf({}) = 0
      BY FS_EmptySet DEF AverageOf
    <3>3. total[c] = 0 /\ average[c] = 0
      BY DEF Init
    <3> QED
      BY <3>1, <3>2, <3>3 DEF InStep, Accounted
  <2>4. TurnTaking
    BY <2>2 DEF TurnTaking, Recalculating
  <2>5. \A r \in Requests : HeldIsFresh(r)
    BY <2>2 DEF HeldIsFresh
  <2> QED
    BY <2>1, <2>3, <2>4, <2>5 DEF RatingInv
<1>2. RatingInv => RatingInStep
  BY DEF RatingInv, Accounted, RatingInStep
<1> QED
  BY <1>1, <1>2, NextRatingInv, PTL DEF TurnSpec


-----------------------------------------------------------------------------
(* Types *)

LEMMA Quotient ==
    ASSUME NEW n \in Nat, n >= 1, NEW x \in Nat
    PROVE  /\ x \div n \in Nat /\ x % n \in 0 .. (n - 1)
           /\ x = n * (x \div n) + (x % n)
BY SMTT(60)

LEMMA Times ==
    ASSUME NEW n \in Nat, NEW a \in Nat, NEW b \in Nat, a <= b
    PROVE  n * a <= n * b
<1>1. n * (b - a) >= 0 /\ n * (b - a) = n * b - n * a
  BY SMTT(60)
<1>2. n * a \in Int /\ n * b \in Int
  OBVIOUS
<1> QED
  BY <1>1, <1>2

(* What is between one and five stars stays so when it is rounded. *)
LEMMA RoundedBetween ==
    ASSUME NEW n \in Nat, n >= 1, NEW x \in Nat, 100 * n <= x, x <= 500 * n
    PROVE  RoundedDiv(x, n) \in 100 .. 500
<1> DEFINE q == x \div n
           m == x % n
<1>1. q \in Nat /\ m \in 0 .. (n - 1) /\ x = n * q + m
  BY Quotient
<1>2. RoundedDiv(x, n) \in {q, q + 1} /\ (m = 0 => RoundedDiv(x, n) = q)
  BY <1>1 DEF RoundedDiv
<1> HIDE DEF q, m
<1>3. q <= 500
  <2>1. 501 <= q => n * 501 <= n * q
    BY <1>1, Times
  <2> QED
    BY <1>1, <2>1
<1>4. q = 500 => m = 0
  BY <1>1
<1>5. q >= 100
  <2>1. q <= 99 => n * q <= n * 99
    BY <1>1, Times
  <2> QED
    BY <1>1, <2>1
<1> QED
  BY <1>1, <1>2, <1>3, <1>4, <1>5

(* Each review gives at least one star and at most five. *)
LEMMA StarsAreFew ==
    ASSUME NEW S, S \subseteq Review, IsFiniteSet(S)
    PROVE  /\ Cardinality(S) \in Nat /\ Cardinality(Stars(S)) \in Nat
           /\ Cardinality(S) <= Cardinality(Stars(S))
           /\ Cardinality(Stars(S)) <= 5 * Cardinality(S)
<1>1. /\ IsFiniteSet(1 .. 5) /\ Cardinality(1 .. 5) = 5
      /\ IsFiniteSet({1}) /\ Cardinality({1}) = 1
  <2>1. \A a, b \in Int : /\ IsFiniteSet(a .. b)
                           /\ Cardinality(a .. b) = IF a > b THEN 0 ELSE b - a + 1
    BY FS_Interval
  <2>3. 1 \in Int /\ 5 \in Int /\ ~ (1 > 5) /\ 5 - 1 + 1 = 5
    OBVIOUS
  <2>2. IsFiniteSet({1}) /\ Cardinality({1}) = 1
    BY FS_Singleton
  <2> QED
    BY <2>1, <2>2, <2>3
<1>2. Cardinality(S) \in Nat
  BY FS_CardinalityType
<1>3. /\ IsFiniteSet(S \X (1 .. 5)) /\ Cardinality(S \X (1 .. 5)) = Cardinality(S) * 5
      /\ IsFiniteSet(S \X {1}) /\ Cardinality(S \X {1}) = Cardinality(S) * 1
  BY <1>1, FS_Product
<1>4. Stars(S) \subseteq S \X (1 .. 5)
  BY DEF Stars
<1>5. S \X {1} \subseteq Stars(S)
  <2>1. \A v \in S : v.rating \in 1 .. 5
    BY ReviewsAssumption DEF Review
  <2> QED
    BY <2>1 DEF Stars
<1>6. IsFiniteSet(Stars(S)) /\ Cardinality(Stars(S)) <= Cardinality(S) * 5
  BY <1>3, <1>4, FS_Subset
<1>7. Cardinality(S) * 1 <= Cardinality(Stars(S))
  BY <1>3, <1>5, <1>6, FS_Subset
<1>8. Cardinality(Stars(S)) \in Nat
  BY <1>6, FS_CardinalityType
<1> QED
  BY <1>2, <1>6, <1>7, <1>8

LEMMA AverageTyped ==
    ASSUME NEW S, S \subseteq Review, IsFiniteSet(S)
    PROVE  AverageOf(S) \in Average
<1>1. CASE S = {}
  BY <1>1 DEF AverageOf, Average
<1>2. CASE S # {}
  <2> DEFINE n == Cardinality(S)
             s == Cardinality(Stars(S))
  <2>1. n \in Nat /\ s \in Nat /\ n <= s /\ s <= 5 * n
    BY StarsAreFew
  <2>2. n # 0
    BY <1>2, FS_EmptySet
  <2>3. AverageOf(S) = RoundedDiv(100 * s, n)
    BY <1>2 DEF AverageOf
  <2> HIDE DEF n, s
  <2>4. 100 * s \in Nat /\ n >= 1 /\ 100 * n <= 100 * s /\ 100 * s <= 500 * n
    BY <2>1, <2>2
  <2>5. RoundedDiv(100 * s, n) \in 100 .. 500
    BY <2>1, <2>4, RoundedBetween
  <2> QED
    BY <2>3, <2>5 DEF Average
<1> QED
  BY <1>1, <1>2

(* Which locals a request holds is told by its step. *)
LEMMA LocalsAre ==
    ASSUME NEW q \in Locals
    PROVE  /\ q.op = "create" => q \in CreateLocals
           /\ q.op = "delete" => q \in DeleteLocals
           /\ q.op = "recalculate" => q \in RecalcLocals
           /\ q.op = "carRead" => q \in CarReadLocals
           /\ q.op = "assigned" => q \in AssignedLocals
           /\ q.op = "notify" => q \in NotifyLocals
BY DEF Locals, Idle, CreateLocals, DeleteLocals, RecalcLocals, CarReadLocals, AssignedLocals,
       NotifyLocals

LEMMA NextLocals ==
    ASSUME NEW v \in Review, NEW then \in Review \cup {None}
    PROVE  /\ AfterCommit(v, then) \in Locals
           /\ Finished(then) \in Locals
<1>1. Idle \in Locals /\ RecalcLocals \subseteq Locals /\ NotifyLocals \subseteq Locals
  BY DEF Locals
<1>2. CarOf[v.trip] \in Cars
  BY ReviewsAssumption DEF Review
<1>3. [op |-> "recalculate", car |-> CarOf[v.trip], then |-> then] \in RecalcLocals
  BY <1>2 DEF RecalcLocals
<1>4. then # None => [op |-> "notify", review |-> then] \in NotifyLocals
  BY DEF NotifyLocals
<1> QED
  BY <1>1, <1>3, <1>4 DEF AfterCommit, Finished

(* Finitely many reviews were ever saved, so a car's can be counted. *)
ReviewsTyped == TypeOK /\ IsFiniteSet(written)

LEMMA ReviewsTypedStep ==
    ASSUME ReviewsTyped, [Next]_vars
    PROVE  ReviewsTyped'
<1>1. /\ reviews \subseteq written /\ written \subseteq Review /\ IsFiniteSet(written)
      /\ total \in [Cars -> Nat] /\ average \in [Cars -> Average]
      /\ interrupted \subseteq Cars /\ told \subseteq [review: ReviewIds, to: Users]
      /\ req \in [Requests -> Locals]
  BY DEF ReviewsTyped, TypeOK
<1>2. Idle \in Locals
  BY DEF Locals
(* Most steps change a request's locals and little else. *)
<1>3. ASSUME NEW r \in Requests, NEW q \in Locals, req' = [req EXCEPT ![r] = q],
             reviews' \subseteq written', written' \subseteq Review, IsFiniteSet(written'),
             total' \in [Cars -> Nat], average' \in [Cars -> Average],
             interrupted' \subseteq Cars, told' \subseteq [review: ReviewIds, to: Users]
      PROVE  ReviewsTyped'
  <2>1. req' \in [Requests -> Locals]
    BY <1>1, <1>3
  <2> QED
    BY <1>3, <2>1 DEF ReviewsTyped, TypeOK
<1>4. ASSUME NEW r \in Requests, CreateCheck(r)
      PROVE  ReviewsTyped'
  <2>1. PICK t \in Trips, rating \in Ratings, type \in ReviewType :
          req' = [req EXCEPT ![r] =
                    [op |-> "create", trip |-> t, type |-> type, rating |-> rating]]
    BY <1>4 DEF CreateCheck, ReviewType
  <2>2. [op |-> "create", trip |-> t, type |-> type, rating |-> rating] \in Locals
    BY DEF Locals, CreateLocals
  <2> QED
    BY <1>1, <1>3, <1>4, <2>1, <2>2 DEF CreateCheck
<1>5. ASSUME NEW r \in Requests, CreateInsert(r)
      PROVE  ReviewsTyped'
  <2>1. req[r] \in CreateLocals
    BY <1>1, <1>5, LocalsAre DEF CreateInsert
  <2>2. req[r].trip \in Trips /\ req[r].type \in ReviewType /\ req[r].rating \in Ratings
    BY <2>1 DEF CreateLocals
  <2>3. PICK v \in Review : /\ reviews' = reviews \cup {v} /\ written' = written \cup {v}
                            /\ req' = [req EXCEPT ![r] = AfterCommit(v, v)]
                            /\ UNCHANGED <<total, average, interrupted, told>>
    BY <1>5, <2>2 DEF CreateInsert, Review
  <2>4. AfterCommit(v, v) \in Locals
    BY NextLocals
  <2>5. IsFiniteSet(written')
    BY <1>1, <2>3, FS_AddElement
  <2> QED
    BY <1>1, <1>3, <2>3, <2>4, <2>5
<1>6. ASSUME NEW r \in Requests, DeleteLoad(r)
      PROVE  ReviewsTyped'
  <2>1. PICK v \in reviews : req' = [req EXCEPT ![r] = [op |-> "delete", review |-> v]]
    BY <1>6 DEF DeleteLoad
  <2>2. [op |-> "delete", review |-> v] \in Locals
    BY <1>1 DEF Locals, DeleteLocals
  <2> QED
    BY <1>1, <1>3, <1>6, <2>1, <2>2 DEF DeleteLoad
<1>7. ASSUME NEW r \in Requests, DeleteRemove(r)
      PROVE  ReviewsTyped'
  <2>1. req[r] \in DeleteLocals
    BY <1>1, <1>7, LocalsAre DEF DeleteRemove
  <2>2. req[r].review \in Review
    BY <2>1 DEF DeleteLocals
  <2>3. AfterCommit(req[r].review, None) \in Locals
    BY <2>2, NextLocals
  <2> QED
    BY <1>1, <1>3, <1>7, <2>3 DEF DeleteRemove
<1>8. ASSUME NEW r \in Requests, Refused(r)
      PROVE  ReviewsTyped'
  BY <1>1, <1>2, <1>3, <1>8 DEF Refused
<1>9. ASSUME NEW r \in Requests, ReadCar(r)
      PROVE  ReviewsTyped'
  <2> DEFINE q == [op |-> "carRead", car |-> req[r].car, then |-> req[r].then,
                   total |-> total[req[r].car], average |-> average[req[r].car]]
  <2>1. req[r] \in RecalcLocals
    BY <1>1, <1>9, LocalsAre DEF ReadCar
  <2>2. req[r].car \in Cars /\ req[r].then \in Review \cup {None}
    BY <2>1 DEF RecalcLocals
  <2>3. total[req[r].car] \in Nat /\ average[req[r].car] \in Average
    BY <1>1, <2>2
  <2>4. q \in CarReadLocals
    BY <2>2, <2>3 DEF CarReadLocals
  <2>5. q \in Locals
    BY <2>4 DEF Locals
  <2>6. req' = [req EXCEPT ![r] = q]
    BY <1>9 DEF ReadCar
  <2> HIDE DEF q
  <2> QED
    BY <1>1, <1>3, <1>9, <2>5, <2>6 DEF ReadCar
<1>10. ASSUME NEW r \in Requests, ReadRatings(r)
       PROVE  ReviewsTyped'
  <2> DEFINE S == CountedFor(req[r].car)
             q == [op |-> "assigned", car |-> req[r].car, then |-> req[r].then,
                   total |-> req[r].total, average |-> req[r].average,
                   newTotal |-> Cardinality(S), newAverage |-> AverageOf(S)]
  <2>1. req[r] \in CarReadLocals
    BY <1>1, <1>10, LocalsAre DEF ReadRatings
  <2>2. /\ req[r].car \in Cars /\ req[r].then \in Review \cup {None}
        /\ req[r].total \in Nat /\ req[r].average \in Average
    BY <2>1 DEF CarReadLocals
  <2>3. S \subseteq Review /\ S \subseteq written
    BY <1>1 DEF CountedFor
  <2>4. IsFiniteSet(S)
    BY <1>1, <2>3, FS_Subset
  <2> HIDE DEF S
  <2>5. Cardinality(S) \in Nat /\ AverageOf(S) \in Average
    BY <2>3, <2>4, FS_CardinalityType, AverageTyped
  <2>6. q \in AssignedLocals
    BY <2>2, <2>5 DEF AssignedLocals
  <2>7. q \in Locals
    BY <2>6 DEF Locals
  <2>8. req' = [req EXCEPT ![r] = q]
    BY <1>10 DEF ReadRatings, S
  <2> HIDE DEF q
  <2> QED
    BY <1>1, <1>3, <1>10, <2>7, <2>8 DEF ReadRatings
<1>11. ASSUME NEW r \in Requests, SaveRating(r)
       PROVE  ReviewsTyped'
  <2>1. req[r] \in AssignedLocals
    BY <1>1, <1>11, LocalsAre DEF SaveRating
  <2>2. /\ req[r].car \in Cars /\ req[r].then \in Review \cup {None}
        /\ req[r].newTotal \in Nat /\ req[r].newAverage \in Average
    BY <2>1 DEF AssignedLocals
  <2>3. /\ total' = (IF req[r].newTotal = req[r].total THEN total
                     ELSE [total EXCEPT ![req[r].car] = req[r].newTotal])
        /\ average' = (IF req[r].newAverage = req[r].average THEN average
                       ELSE [average EXCEPT ![req[r].car] = req[r].newAverage])
        /\ interrupted' = interrupted \ {req[r].car}
        /\ req' = [req EXCEPT ![r] = Finished(req[r].then)]
        /\ UNCHANGED <<reviews, written, told>>
    BY <1>11 DEF SaveRating
  <2>4. total' \in [Cars -> Nat] /\ average' \in [Cars -> Average]
    BY <1>1, <2>2, <2>3
  <2>5. Finished(req[r].then) \in Locals
    <3>1. Idle \in Locals /\ NotifyLocals \subseteq Locals
      BY DEF Locals
    <3> QED
      BY <2>2, <3>1 DEF Finished, NotifyLocals
  <2> QED
    BY <1>1, <1>3, <2>3, <2>4, <2>5
<1>12. ASSUME NEW r \in Requests, Notify(r)
       PROVE  ReviewsTyped'
  <2>1. req[r] \in NotifyLocals
    BY <1>1, <1>12, LocalsAre DEF Notify
  <2>2. req[r].review \in Review
    BY <2>1 DEF NotifyLocals
  <2>3. Reviewee(req[r].review) \in Users /\ req[r].review.id \in ReviewIds
    BY <2>2, ReviewsAssumption DEF Reviewee, Review
  <2>4. told' \subseteq [review: ReviewIds, to: Users]
    BY <1>1, <1>12, <2>3 DEF Notify
  <2> QED
    BY <1>1, <1>2, <1>3, <1>12, <2>4 DEF Notify
<1>13. ASSUME NEW r \in Requests, Abort(r)
       PROVE  ReviewsTyped'
  <2>1. Recalculating(r) => req[r].car \in Cars
    <3>1. Recalculating(r) => req[r] \in RecalcLocals \cup CarReadLocals \cup AssignedLocals
      BY <1>1, LocalsAre DEF Recalculating
    <3> QED
      BY <3>1 DEF RecalcLocals, CarReadLocals, AssignedLocals
  <2>2. interrupted' \subseteq Cars
    BY <1>1, <1>13, <2>1 DEF Abort
  <2> QED
    BY <1>1, <1>2, <1>3, <1>13, <2>2 DEF Abort
<1>14. CASE UNCHANGED vars
  BY <1>14 DEF vars, ReviewsTyped, TypeOK
<1> QED
  BY <1>4, <1>5, <1>6, <1>7, <1>8, <1>9, <1>10, <1>11, <1>12, <1>13, <1>14
  DEF Next, Work, Finish

(* However creations, deletions and recalculations interleave and fail, the   *)
(* rows, the columns and the requests stay of their types; in particular a   *)
(* car's rating is 0 or lies, rounded, between one star and five.            *)
THEOREM ReviewsTypeCorrect == Spec => []TypeOK
<1>1. Init => ReviewsTyped
  <2>1. Idle \in Locals /\ 0 \in Average /\ IsFiniteSet({})
    BY FS_EmptySet DEF Locals, Average
  <2> QED
    BY <2>1 DEF Init, ReviewsTyped, TypeOK
<1>2. ReviewsTyped /\ [Next]_vars => ReviewsTyped'
  BY ReviewsTypedStep
<1>3. ReviewsTyped => TypeOK
  BY DEF ReviewsTyped
<1> QED
  BY <1>1, <1>2, <1>3, PTL DEF Spec
=============================================================================

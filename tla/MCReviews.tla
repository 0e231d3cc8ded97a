------------------------------- MODULE MCReviews -------------------------------
(***************************************************************************)
(* Instances of Reviews for TLC: two finished trips of one car.             *)
(***************************************************************************)
EXTENDS Reviews, TLC

CONSTANTS car, renter, owner

MCCars == {car}

MCUsers == {renter, owner}

MCCarOf == [t \in Trips |-> car]

MCRenterOf == [t \in Trips |-> renter]

MCOwnerOf == [t \in Trips |-> owner]

(* Guids and requests are interchangeable. *)
Interchangeable ==
    Permutations(ReviewIds) \cup Permutations(Trips) \cup Permutations(Requests)

=============================================================================

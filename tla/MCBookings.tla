------------------------------ MODULE MCBookings ------------------------------
(***************************************************************************)
(* Instances of Bookings for TLC: a renter, an owner and a member of staff, *)
(* who exercise every branch of the role and participant checks.           *)
(***************************************************************************)
EXTENDS Bookings, TLC

CONSTANTS renter, owner, staff

MCUsers == {renter, owner, staff}

MCRole == (renter :> "Renter") @@ (owner :> "Owner") @@ (staff :> "Staff")

MCOwnerOf == [c \in Cars |-> owner]

(* Guids and requests are interchangeable. *)
Interchangeable ==
    Permutations(BookingIds) \cup Permutations(InspectionIds) \cup Permutations(Requests)

=============================================================================

------------------------------- MODULE MCTrips -------------------------------
(* A trip from the search to the hand-over.  The three stretches share no     *)
(* page and meet only through the stored booking, so each is checked by      *)
(* itself: Checkout ends where TripPages begins.                             *)
EXTENDS Search, Checkout, TripPages, TLC

VARIABLE watched     \* the stretch that this behaviour is about

Init ==
    /\ SearchInit
    /\ CheckoutInit
    /\ TripInit
    /\ watched \in {"search", "checkout", "trip"}
    /\ watched # "search" =>
          url = [day |-> 0, price |-> Empty, category |-> Empty, page |-> 1] /\ ~west
    /\ watched # "checkout" => car = CHOOSE c \in Car : TRUE

Next ==
    \/ watched = "search" /\ SearchNext /\ UNCHANGED <<checkoutVars, tripVars, watched>>
    \/ watched = "checkout" /\ CheckoutNext /\ UNCHANGED <<searchVars, tripVars, watched>>
    \/ watched = "trip" /\ TripNext /\ UNCHANGED <<searchVars, checkoutVars, watched>>

Spec == Init /\ [][Next]_<<searchVars, checkoutVars, tripVars, watched>>

Alike == Permutations(CheckoutTabs) \cup Permutations(Phones)

(* The variables of the three modules stay of their types. *)
TypeOK == SearchTypeOK /\ CheckoutTypeOK /\ TripTypeOK
=============================================================================

-------------------------- MODULE BookingLifecycle --------------------------
(***************************************************************************)
(* What the booking commands promise of one booking, with no handlers and   *)
(* no requests: the state machine that the guards of StartTrip, EndTrip and *)
(* CancelBooking describe, each transition in one step.  A trip has exactly *)
(* one pickup and one return inspection, made by the steps that start and   *)
(* end it.                                                                 *)
(***************************************************************************)
CONSTANTS
    BookingIds,
    InspectionIds,
    Cancellable      \* the statuses a booking can be cancelled in

VARIABLES
    status,          \* of each booking; "Absent" before it is created
    pickups,         \* ids of the booking's pickup inspections
    returns          \* ids of its return inspections

Init ==
    /\ status = [b \in BookingIds |-> "Absent"]
    /\ pickups = [b \in BookingIds |-> {}]
    /\ returns = [b \in BookingIds |-> {}]

Open(b) ==
    /\ status[b] = "Absent"
    /\ status' = [status EXCEPT ![b] = "Pending"]
    /\ UNCHANGED <<pickups, returns>>

Start(b) ==
    /\ status[b] \in {"Pending", "Confirmed"}
    /\ pickups[b] = {}
    /\ status' = [status EXCEPT ![b] = "InProgress"]
    /\ \E i \in InspectionIds : pickups' = [pickups EXCEPT ![b] = {i}]
    /\ UNCHANGED returns

End(b) ==
    /\ status[b] = "InProgress"
    /\ returns[b] = {}
    /\ status' = [status EXCEPT ![b] = "Completed"]
    /\ \E i \in InspectionIds : returns' = [returns EXCEPT ![b] = {i}]
    /\ UNCHANGED pickups

Cancel(b) ==
    /\ status[b] \in Cancellable
    /\ status' = [status EXCEPT ![b] = "Cancelled"]
    /\ UNCHANGED <<pickups, returns>>

Next == \E b \in BookingIds : Open(b) \/ Start(b) \/ End(b) \/ Cancel(b)

Spec == Init /\ [][Next]_<<status, pickups, returns>>

=============================================================================

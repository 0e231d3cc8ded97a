------------------------------ MODULE Bookings ------------------------------
(***************************************************************************)
(* The booking commands of the back end: create, cancel, start trip, end    *)
(* trip, and the best-effort notification each sends once it has saved.     *)
(*                                                                         *)
(* A command handler reads its rows, awaits, and writes them back with one  *)
(* SaveChangesAsync.  Nothing locks a row or checks a version in between,   *)
(* so every handler here is two actions, one that reads and checks and one  *)
(* that saves, and the handlers of other requests run in between.  A save   *)
(* writes the columns the handler assigned and no others, whatever the row  *)
(* has become since it was read.                                           *)
(***************************************************************************)
EXTENDS Naturals, FiniteSets

CONSTANTS
    BookingIds,      \* the Guids a booking row can be given
    InspectionIds,   \* the Guids a TripInspection row can be given
    Cars,            \* listed cars
    Users,           \* accounts
    Role,            \* the role claim in each account's token
    OwnerOf,         \* Car.OwnerId, which no command reassigns
    Requests,        \* HTTP requests the server can have open at once
    Horizon,         \* bound: bookable days are 0 (today) .. Horizon
    None             \* SQL NULL, and the absence of a row

VARIABLES
    bookings,        \* table Bookings: a row, or None for an unused Guid
    inspections,     \* table TripInspections
    totalTrips,      \* column TotalTrips of each car
    notices,         \* table Notifications, the rows about bookings
    req              \* what each open request holds in its handler's locals

vars == <<bookings, inspections, totalTrips, notices, req>>

-----------------------------------------------------------------------------
(* Rows *)

Day == 0 .. Horizon

BookingStatus ==
    {"Pending", "Confirmed", "InProgress", "Completed", "Cancelled", "Disputed"}

InspectionType == {"Pickup", "Return"}

UserRole == {"Renter", "Owner", "Staff", "Admin"}

NoticeKind == {"BookingRequested", "BookingCancelled", "TripStarted", "TripEnded"}

(* CancelledAt, CancelledByUserId and CancellationReason are set together and *)
(* never cleared; of the three only whether they are set is kept.           *)
Recorded == "recorded"

Booking == [car: Cars, renter: Users, owner: Users, start: Day, end: Day,
            status: BookingStatus, cancelledAt: {Recorded, None},
            pickup: InspectionIds \cup {None}, return: InspectionIds \cup {None}]

Inspection == [id: InspectionIds, booking: BookingIds, type: InspectionType]

Notice == [kind: NoticeKind, booking: BookingIds, to: Users]

(* The locals of a handler between its read and its save, and of one that   *)
(* has saved and is sending notifications.                                 *)
Idle == [op |-> "idle"]
CreateLocals == [op: {"create"}, by: Users, car: Cars, start: Day, end: Day]
CancelLocals == [op: {"cancel"}, by: Users, booking: BookingIds]
StartLocals == [op: {"start"}, booking: BookingIds]
EndLocals == [op: {"end"}, booking: BookingIds, trips: Nat]
NotifyLocals == [op: {"notify"}, kind: NoticeKind, booking: BookingIds,
                 to: SUBSET Users, unsaved: SUBSET Users]

Locals == {Idle} \cup CreateLocals \cup CancelLocals \cup StartLocals
                 \cup EndLocals \cup NotifyLocals

ASSUME BookingsAssumption ==
    /\ Horizon \in Nat
    /\ Role \in [Users -> UserRole]
    /\ OwnerOf \in [Cars -> Users]
    /\ None \notin Booking \cup InspectionIds \cup {Recorded}

-----------------------------------------------------------------------------
(* Reads *)

Stored == {b \in BookingIds : bookings[b] # None}

(* Mutant of Clashes: only the requested start is compared. *)
ClashesAtStartOnly(s, e, row) == s >= row.start /\ s < row.end

(* The predicate the availability query sends to the database: does a       *)
(* request for [s, e) start or end inside the booking?                     *)
Clashes(s, e, row) ==
    \/ s >= row.start /\ s < row.end
    \/ e > row.start /\ e <= row.end

IsBooked(c, s, e) ==
    \E b \in Stored :
        /\ bookings[b].car = c
        /\ bookings[b].status # "Cancelled"
        /\ Clashes(s, e, bookings[b])

(* The [Authorize(Roles = ...)] attribute of each command. *)
MayIssue(u, op) ==
    IF op \in {"create", "cancel"}
    THEN Role[u] \in {"Renter", "Admin", "Staff"}
    ELSE Role[u] \in {"Owner", "Admin", "Staff"}

Sees(r, b) ==
    /\ req[r] = Idle
    /\ b \in Stored

Announce(r, kind, b, to) ==
    req' = [req EXCEPT ![r] = [op |-> "notify", kind |-> kind, booking |-> b,
                               to |-> to, unsaved |-> {}]]

-----------------------------------------------------------------------------
(* CreateBooking *)

(* The availability check.  The car row read just before it only supplies   *)
(* values no booking command changes.                                      *)
CreateCheck(r) ==
    /\ req[r] = Idle
    /\ \E u \in Users, c \in Cars, s, e \in Day :
          /\ MayIssue(u, "create")
          /\ e > s
          /\ ~ IsBooked(c, s, e)
          /\ req' = [req EXCEPT ![r] =
                       [op |-> "create", by |-> u, car |-> c, start |-> s, end |-> e]]
    /\ UNCHANGED <<bookings, inspections, totalTrips, notices>>

(* Mutant of NewBooking: the car's owner is not copied to the row. *)
NewBookingWithoutOwner(q) ==
    [car |-> q.car, renter |-> q.by, owner |-> None,
     start |-> q.start, end |-> q.end, status |-> "Pending",
     cancelledAt |-> None, pickup |-> None, return |-> None]

NewBooking(q) ==
    [car |-> q.car, renter |-> q.by, owner |-> OwnerOf[q.car],
     start |-> q.start, end |-> q.end, status |-> "Pending",
     cancelledAt |-> None, pickup |-> None, return |-> None]

CreateSave(r) ==
    /\ req[r].op = "create"
    /\ \E b \in BookingIds \ Stored :
          /\ bookings' = [bookings EXCEPT ![b] = NewBooking(req[r])]
          /\ Announce(r, "BookingRequested", b, {OwnerOf[req[r].car]})
    /\ UNCHANGED <<inspections, totalTrips, notices>>

-----------------------------------------------------------------------------
(* CancelBooking *)

(* Mutant of CancelLoad: the parties are told before the save. *)
CancelLoadTellsFirst(r) ==
    /\ \E b \in BookingIds, u \in Users :
          /\ Sees(r, b)
          /\ MayIssue(u, "cancel")
          /\ bookings[b].status \notin {"Cancelled", "Completed"}
          /\ req' = [req EXCEPT ![r] = [op |-> "cancel", by |-> u, booking |-> b]]
          /\ notices' = notices \cup
                {[kind |-> "BookingCancelled", booking |-> b, to |-> p] :
                    p \in {bookings[b].renter, bookings[b].owner} \ {u}}
    /\ UNCHANGED <<bookings, inspections, totalTrips>>

CancelLoad(r) ==
    /\ \E b \in BookingIds, u \in Users :
          /\ Sees(r, b)
          /\ MayIssue(u, "cancel")
          /\ \/ Role[u] \in {"Admin", "Staff"}
             \/ u \in {bookings[b].renter, bookings[b].owner}
          /\ bookings[b].status \notin {"Cancelled", "Completed"}
          /\ req' = [req EXCEPT ![r] = [op |-> "cancel", by |-> u, booking |-> b]]
    /\ UNCHANGED <<bookings, inspections, totalTrips, notices>>

(* The party that did not cancel; both when a stranger to the trip did. *)
CancelRecipients(row, u) ==
    IF u = row.renter THEN {row.owner}
    ELSE IF u = row.owner THEN {row.renter}
    ELSE {row.renter, row.owner}

CancelSave(r) ==
    /\ req[r].op = "cancel"
    /\ LET b == req[r].booking
           u == req[r].by
       IN  /\ bookings' = [bookings EXCEPT ![b].status = "Cancelled",
                                           ![b].cancelledAt = Recorded]
           /\ Announce(r, "BookingCancelled", b, CancelRecipients(bookings[b], u))
    /\ UNCHANGED <<inspections, totalTrips, notices>>

-----------------------------------------------------------------------------
(* StartTrip and EndTrip.  Neither asks whether the caller owns the car.    *)

(* Mutant of StartLoad: a cancelled booking can still be started. *)
StartLoadCancelled(r) ==
    /\ \E b \in BookingIds, u \in Users :
          /\ Sees(r, b)
          /\ MayIssue(u, "start")
          /\ bookings[b].status \notin {"InProgress", "Completed"}
          /\ req' = [req EXCEPT ![r] = [op |-> "start", booking |-> b]]
    /\ UNCHANGED <<bookings, inspections, totalTrips, notices>>

StartLoad(r) ==
    /\ \E b \in BookingIds, u \in Users :
          /\ Sees(r, b)
          /\ MayIssue(u, "start")
          /\ bookings[b].status \in {"Confirmed", "Pending"}
          /\ req' = [req EXCEPT ![r] = [op |-> "start", booking |-> b]]
    /\ UNCHANGED <<bookings, inspections, totalTrips, notices>>

FreshInspection(i) == \A n \in inspections : n.id # i

StartSave(r) ==
    /\ req[r].op = "start"
    /\ LET b == req[r].booking IN
       \E i \in InspectionIds :
          /\ FreshInspection(i)
          /\ inspections' = inspections \cup {[id |-> i, booking |-> b, type |-> "Pickup"]}
          /\ bookings' = [bookings EXCEPT ![b].status = "InProgress", ![b].pickup = i]
          /\ Announce(r, "TripStarted", b, {bookings[b].renter})
    /\ UNCHANGED <<totalTrips, notices>>

(* Mutant of EndLoad: a trip that was never started can be ended. *)
EndLoadUnguarded(r) ==
    /\ \E b \in BookingIds, u \in Users :
          /\ Sees(r, b)
          /\ MayIssue(u, "end")
          /\ bookings[b].status # "Completed"
          /\ req' = [req EXCEPT ![r] = [op |-> "end", booking |-> b,
                                        trips |-> totalTrips[bookings[b].car]]]
    /\ UNCHANGED <<bookings, inspections, totalTrips, notices>>

(* Mutant of EndLoad: the counter is saved before the inspection is. *)
EndLoadCountsFirst(r) ==
    /\ \E b \in BookingIds, u \in Users :
          /\ Sees(r, b)
          /\ MayIssue(u, "end")
          /\ bookings[b].status = "InProgress"
          /\ req' = [req EXCEPT ![r] = [op |-> "end", booking |-> b,
                                        trips |-> totalTrips[bookings[b].car]]]
          /\ totalTrips' = [totalTrips EXCEPT ![bookings[b].car] = @ + 1]
    /\ UNCHANGED <<bookings, inspections, notices>>

(* One query reads the booking and, through Include, its car's counter. *)
EndLoad(r) ==
    /\ \E b \in BookingIds, u \in Users :
          /\ Sees(r, b)
          /\ MayIssue(u, "end")
          /\ bookings[b].status = "InProgress"
          /\ req' = [req EXCEPT ![r] = [op |-> "end", booking |-> b,
                                        trips |-> totalTrips[bookings[b].car]]]
    /\ UNCHANGED <<bookings, inspections, totalTrips, notices>>

EndSave(r) ==
    /\ req[r].op = "end"
    /\ LET b == req[r].booking IN
       \E i \in InspectionIds :
          /\ FreshInspection(i)
          /\ inspections' = inspections \cup {[id |-> i, booking |-> b, type |-> "Return"]}
          /\ bookings' = [bookings EXCEPT ![b].status = "Completed", ![b].return = i]
          /\ totalTrips' = [totalTrips EXCEPT ![bookings[b].car] = req[r].trips + 1]
          /\ Announce(r, "TripEnded", b, {bookings[b].renter})
    /\ UNCHANGED notices

-----------------------------------------------------------------------------
(* Notifications and failures *)

(* CancelBooking tells the renter before the owner; the others tell one. *)
NextRecipient(q) ==
    IF bookings[q.booking].renter \in q.to THEN bookings[q.booking].renter
                                           ELSE bookings[q.booking].owner

ToSend(q, us) == {[kind |-> q.kind, booking |-> q.booking, to |-> u] : u \in us}

(* NotifyAsync adds a row and saves, and swallows a failure.  The request's  *)
(* context keeps the row it failed to save, so the next save retries it.    *)
Notify(r) ==
    /\ req[r].op = "notify"
    /\ LET q == req[r]
           u == NextRecipient(q)
           Rest(unsaved) == IF q.to = {u} THEN Idle
                            ELSE [q EXCEPT !.to = @ \ {u}, !.unsaved = unsaved]
       IN  \/ /\ notices' = notices \cup ToSend(q, q.unsaved \cup {u})
              /\ req' = [req EXCEPT ![r] = Rest({})]
           \/ /\ notices' = notices
              /\ req' = [req EXCEPT ![r] = Rest(q.unsaved \cup {u})]
    /\ UNCHANGED <<bookings, inspections, totalTrips>>

(* The save throws, the client goes away, or the process restarts: whatever  *)
(* the request had not saved is lost.                                       *)
Abort(r) ==
    /\ req[r] # Idle
    /\ req' = [req EXCEPT ![r] = Idle]
    /\ UNCHANGED <<bookings, inspections, totalTrips, notices>>

-----------------------------------------------------------------------------

Init ==
    /\ bookings = [b \in BookingIds |-> None]
    /\ inspections = {}
    /\ totalTrips = [c \in Cars |-> 0]
    /\ notices = {}
    /\ req = [r \in Requests |-> Idle]

Next ==
    \E r \in Requests :
        \/ CreateCheck(r)
        \/ CreateSave(r)
        \/ CancelLoad(r)
        \/ CancelSave(r)
        \/ StartLoad(r)
        \/ StartSave(r)
        \/ EndLoad(r)
        \/ EndSave(r)
        \/ Notify(r)
        \/ Abort(r)

Spec == Init /\ [][Next]_vars

(***************************************************************************)
(* The same handlers under an assumption about their callers: requests      *)
(* about one booking do not overlap in time, and neither do two requests to *)
(* book one car.  The code does not enforce it; it is what the guards need  *)
(* in order to mean what they say.                                         *)
(***************************************************************************)
Unsaved(r) == req[r].op \in {"create", "cancel", "start", "end"}

SameSubject(p, q) ==
    IF req[p].op = "create" \/ req[q].op = "create"
    THEN req[p].op = req[q].op /\ req[p].car = req[q].car
    ELSE req[p].booking = req[q].booking

TurnTaking ==
    \A p, q \in Requests :
        p # q /\ Unsaved(p) /\ Unsaved(q) => ~ SameSubject(p, q)

TurnNext == Next /\ TurnTaking'

TurnSpec == Init /\ [][TurnNext]_vars

-----------------------------------------------------------------------------
(* Properties *)

(* Every table row and every request's locals stay of their types. *)
TypeOK ==
    /\ bookings \in [BookingIds -> Booking \cup {None}]
    /\ inspections \subseteq Inspection
    /\ totalTrips \in [Cars -> Nat]
    /\ notices \subseteq Notice
    /\ req \in [Requests -> Locals]

(* A booking's reference to an inspection, when it has one, is to a row of   *)
(* that booking and of that type.                                           *)
RefersTo(i, b, type) ==
    i # None => [id |-> i, booking |-> b, type |-> type] \in inspections

RowBacked(b) ==
    /\ RefersTo(bookings[b].pickup, b, "Pickup")
    /\ RefersTo(bookings[b].return, b, "Return")
    /\ bookings[b].return # None => bookings[b].pickup # None
    /\ bookings[b].status = "InProgress" => bookings[b].pickup # None
    /\ bookings[b].status = "Completed" => bookings[b].return # None
    /\ bookings[b].status = "Cancelled" => bookings[b].cancelledAt # None
    /\ bookings[b].status \in {"Pending", "Confirmed"} =>
          {bookings[b].pickup, bookings[b].return, bookings[b].cancelledAt} = {None}

(* What each status promises about the rest of the row, however requests     *)
(* race: a trip under way has its pickup inspection, a completed one has     *)
(* both, a cancelled one says when, and a pending one has been               *)
(* touched by nobody.  Stale saves mix columns of two handlers in one row    *)
(* (StartTrip, EndTrip, CancelBooking); this is what survives the mixing.    *)
EvidenceBacksStatus == \A b \in Stored : RowBacked(b)

ReturnsOf(c) ==
    {n \in inspections : n.type = "Return" /\ bookings[n.booking].car = c}

(* EndTrip's unlocked increment of Car.TotalTrips can lose trips but never   *)
(* invents one: the counter stays at or below the number of return           *)
(* inspections of the car, and leaves zero exactly when there is one.        *)
TripCountBounded ==
    \A c \in Cars :
        /\ totalTrips[c] <= Cardinality(ReturnsOf(c))
        /\ totalTrips[c] = 0 <=> ReturnsOf(c) = {}

(* What must be in the database for a user to be told something. *)
Cause(kind, b, u) ==
    /\ b \in Stored
    /\ \/ kind = "BookingRequested" /\ u = bookings[b].owner
       \/ kind = "TripStarted" /\ u = bookings[b].renter /\ bookings[b].pickup # None
       \/ kind = "TripEnded" /\ u = bookings[b].renter /\ bookings[b].return # None
       \/ /\ kind = "BookingCancelled"
          /\ u \in {bookings[b].renter, bookings[b].owner}
          /\ bookings[b].cancelledAt # None

(* Saved first, notified after: nobody is told of something the database     *)
(* does not record, and only the parties to the booking are told.  It holds  *)
(* after any later request has overwritten the status.                      *)
NoticeHasCause == \A n \in notices : Cause(n.kind, n.booking, n.to)

Overlap(x, y) == x.start < y.end /\ x.end > y.start

StrictlyEncloses(x, y) == x.start < y.start /\ y.end < x.end

ActivePair(a, b) ==
    /\ a # b
    /\ bookings[a].car = bookings[b].car
    /\ "Cancelled" \notin {bookings[a].status, bookings[b].status}

(* What the availability check does achieve when callers take turns: two     *)
(* bookings of a car overlap only if one lies strictly inside the other.     *)
OnlyEnclosingOverlaps ==
    \A a, b \in Stored :
        ActivePair(a, b) /\ Overlap(bookings[a], bookings[b]) =>
            \/ StrictlyEncloses(bookings[a], bookings[b])
            \/ StrictlyEncloses(bookings[b], bookings[a])

(* "Creates a booking - checks availability": no two bookings of a car that  *)
(* have not been cancelled overlap.  The check misses the enclosing case.    *)
NoDoubleBooking ==
    \A a, b \in Stored :
        ActivePair(a, b) => ~ Overlap(bookings[a], bookings[b])

(* Completed and Cancelled are final in the documented lifecycle.  A save    *)
(* from a stale read reopens them.                                          *)
FinalStatusesStay ==
    [][\A b \in Stored :
          bookings[b].status \in {"Completed", "Cancelled"} =>
              bookings'[b].status = bookings[b].status]_vars

(* The documented lifecycle has one arrow out of InProgress, to Completed.   *)
(* CancelBooking's guard lets a trip that is under way be cancelled.        *)
TripsEndByCompletion ==
    [][\A b \in Stored :
          bookings[b].status = "InProgress" =>
              bookings'[b].status \in {"InProgress", "Completed"}]_vars

-----------------------------------------------------------------------------
(* Refinement: what one booking goes through, as the handlers' guards have it *)

StatusOf(b) == IF bookings[b] = None THEN "Absent" ELSE bookings[b].status

InspectionsOf(b, type) ==
    {i \in InspectionIds : [id |-> i, booking |-> b, type |-> type] \in inspections}

Lifecycle == INSTANCE BookingLifecycle WITH
    status <- [b \in BookingIds |-> StatusOf(b)],
    pickups <- [b \in BookingIds |-> InspectionsOf(b, "Pickup")],
    returns <- [b \in BookingIds |-> InspectionsOf(b, "Return")],
    Cancellable <- {"Pending", "Confirmed", "InProgress"}

(* When callers take turns, a booking is created once, started at most once, *)
(* ended at most once and only while under way, and cancelled at most once   *)
(* and only before it is completed, with one inspection for each.           *)
RefinesLifecycle == Lifecycle!Spec

=============================================================================

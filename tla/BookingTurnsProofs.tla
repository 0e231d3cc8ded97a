--------------------------- MODULE BookingTurnsProofs ---------------------------
(***************************************************************************)
(* Proofs about Bookings when callers take turns (TurnSpec): what a handler  *)
(* read is still true when it saves, so its guard means what it says.       *)
(***************************************************************************)
EXTENDS BookingsProofs

Active == {"Pending", "Confirmed", "InProgress"}

(* What a request checked before it saves still holds.  This is the fact     *)
(* that a stale read breaks and that taking turns restores.                 *)
ReadStillTrue(r) ==
    /\ req[r].op = "create" =>
          /\ req[r].start < req[r].end
          /\ \A b \in Stored :
                bookings[b].car = req[r].car /\ bookings[b].status # "Cancelled" =>
                    ~ Clashes(req[r].start, req[r].end, bookings[b])
    /\ req[r].op = "cancel" => bookings[req[r].booking].status \in Active
    /\ req[r].op = "start" => bookings[req[r].booking].status \in {"Pending", "Confirmed"}
    /\ req[r].op = "end" => bookings[req[r].booking].status = "InProgress"

NoInspection(b, type) == \A n \in inspections : ~ (n.booking = b /\ n.type = type)

(* A booking is for at least a day, and has no inspection before its time. *)
Orderly(b) ==
    /\ bookings[b].start < bookings[b].end
    /\ bookings[b].status # "Disputed"
    /\ bookings[b].status \in {"Pending", "Confirmed"} => NoInspection(b, "Pickup")
    /\ bookings[b].status \in Active => NoInspection(b, "Return")

TurnInv ==
    /\ TypeInv
    /\ TurnTaking
    /\ \A r \in Requests : ReadStillTrue(r)
    /\ \A b \in Stored : Orderly(b)
    /\ OnlyEnclosingOverlaps

LEMMA StoredRow ==
    ASSUME TypeInv, NEW b \in Stored
    PROVE  bookings[b] \in Booking /\ b \in BookingIds
  BY DEF TypeInv, TypeOK, Stored

-----------------------------------------------------------------------------
(* The steps, as what they write *)

(* A step that saves no booking. *)
Quiet(r) ==
    \/ CreateCheck(r) \/ CancelLoad(r) \/ StartLoad(r) \/ EndLoad(r)
    \/ Notify(r) \/ Abort(r)

LEMMA QuietRows ==
    ASSUME NEW r \in Requests, Quiet(r)
    PROVE  bookings' = bookings /\ inspections' = inspections
  BY DEF Quiet, CreateCheck, CancelLoad, StartLoad, EndLoad, Notify, Abort

(* A save to a stored booking writes one row, which was active, and keeps    *)
(* its car and days.                                                        *)
LEMMA SavedRow ==
    ASSUME TurnInv, NEW r \in Requests, CancelSave(r) \/ StartSave(r) \/ EndSave(r)
    PROVE  LET b == req[r].booking IN
           /\ req[r].op \in {"cancel", "start", "end"}
           /\ b \in Stored
           /\ bookings[b].status \in Active
           /\ \E row \in Booking :
                 /\ row.car = bookings[b].car
                 /\ row.start = bookings[b].start
                 /\ row.end = bookings[b].end
                 /\ bookings' = [bookings EXCEPT ![b] = row]
<1> DEFINE b == req[r].booking
<1> USE DEF TurnInv
<1>1. CASE CancelSave(r)
  <2>1. /\ b \in Stored
        /\ bookings[b] \in Booking
        /\ [bookings[b] EXCEPT !.status = "Cancelled", !.cancelledAt = Recorded] \in Booking
        /\ bookings' = [bookings EXCEPT ![b] =
               [bookings[b] EXCEPT !.status = "Cancelled", !.cancelledAt = Recorded]]
    BY <1>1, CancelSaveRow
  <2>2. PICK row \in Booking :
          /\ row = [bookings[b] EXCEPT !.status = "Cancelled", !.cancelledAt = Recorded]
          /\ bookings' = [bookings EXCEPT ![b] = row]
    BY <2>1
  <2>3. row.car = bookings[b].car /\ row.start = bookings[b].start /\ row.end = bookings[b].end
    BY <2>1, <2>2 DEF Booking
  <2>4. req[r].op = "cancel" /\ bookings[b].status \in Active
    BY <1>1 DEF CancelSave, ReadStillTrue
  <2> QED
    BY <2>1, <2>2, <2>3, <2>4
<1>2. CASE StartSave(r)
  <2>1. /\ b \in Stored
        /\ bookings[b] \in Booking
        /\ \E i \in InspectionIds :
              LET row == [bookings[b] EXCEPT !.status = "InProgress", !.pickup = i]
                  n == [id |-> i, booking |-> b, type |-> "Pickup"]
              IN  /\ row \in Booking
                  /\ n \in Inspection \ inspections
                  /\ bookings' = [bookings EXCEPT ![b] = row]
                  /\ inspections' = inspections \cup {n}
    BY <1>2, StartSaveRow
  <2>2. PICK i \in InspectionIds, row \in Booking :
          /\ row = [bookings[b] EXCEPT !.status = "InProgress", !.pickup = i]
          /\ bookings' = [bookings EXCEPT ![b] = row]
    BY <2>1
  <2>3. row.car = bookings[b].car /\ row.start = bookings[b].start /\ row.end = bookings[b].end
    BY <2>1, <2>2 DEF Booking
  <2>4. req[r].op = "start" /\ bookings[b].status \in Active
    BY <1>2 DEF StartSave, ReadStillTrue, Active
  <2> QED
    BY <2>1, <2>2, <2>3, <2>4
<1>3. CASE EndSave(r)
  <2>1. /\ b \in Stored
        /\ bookings[b] \in Booking
        /\ \E i \in InspectionIds :
              LET row == [bookings[b] EXCEPT !.status = "Completed", !.return = i]
                  n == [id |-> i, booking |-> b, type |-> "Return"]
              IN  /\ row \in Booking
                  /\ n \in Inspection \ inspections
                  /\ bookings' = [bookings EXCEPT ![b] = row]
                  /\ inspections' = inspections \cup {n}
    BY <1>3, EndSaveRow
  <2>2. PICK i \in InspectionIds, row \in Booking :
          /\ row = [bookings[b] EXCEPT !.status = "Completed", !.return = i]
          /\ bookings' = [bookings EXCEPT ![b] = row]
    BY <2>1
  <2>3. row.car = bookings[b].car /\ row.start = bookings[b].start /\ row.end = bookings[b].end
    BY <2>1, <2>2 DEF Booking
  <2>4. req[r].op = "end" /\ bookings[b].status \in Active
    BY <1>3 DEF EndSave, ReadStillTrue, Active
  <2> QED
    BY <2>1, <2>2, <2>3, <2>4
<1> QED
  BY <1>1, <1>2, <1>3

-----------------------------------------------------------------------------
(* What was read is still true *)

(* The read of the request that takes the step. *)
LEMMA OwnRead ==
    ASSUME TurnInv, NEW r \in Requests, Step(r)
    PROVE  ReadStillTrue(r)'
<1> USE DEF TurnInv
<1>1. CASE CreateCheck(r)
  <2>1. PICK u \in Users, c \in Cars, s \in Day, e \in Day :
          /\ e > s
          /\ ~ IsBooked(c, s, e)
          /\ req' = [req EXCEPT ![r] =
                       [op |-> "create", by |-> u, car |-> c, start |-> s, end |-> e]]
    BY <1>1 DEF CreateCheck
  <2>2. /\ req'[r].op = "create" /\ req'[r].car = c
        /\ req'[r].start = s /\ req'[r].end = e
    BY <2>1 DEF TypeInv, TypeOK
  <2>3. bookings' = bookings /\ Stored' = Stored
    BY <1>1 DEF CreateCheck, Stored
  <2>4. s < e
    BY <2>1, BookingsAssumption DEF Day
  <2> QED
    BY <2>1, <2>2, <2>3, <2>4 DEF ReadStillTrue, IsBooked, Clashes
<1>2. CASE CancelLoad(r)
  <2>1. PICK b \in BookingIds, u \in Users :
          /\ Sees(r, b)
          /\ bookings[b].status \notin {"Cancelled", "Completed"}
          /\ req' = [req EXCEPT ![r] = [op |-> "cancel", by |-> u, booking |-> b]]
    BY <1>2 DEF CancelLoad
  <2>2. req'[r].op = "cancel" /\ req'[r].booking = b
    BY <2>1 DEF TypeInv, TypeOK
  <2>3. b \in Stored /\ bookings[b].status # "Disputed"
    BY <2>1 DEF Sees, Orderly
  <2>4. bookings[b].status \in Active
    BY <2>1, <2>3, StoredRow DEF Booking, BookingStatus, Active
  <2> QED
    BY <1>2, <2>2, <2>4 DEF CancelLoad, ReadStillTrue
<1>3. CASE StartLoad(r)
  <2>1. PICK b \in BookingIds :
          /\ bookings[b].status \in {"Confirmed", "Pending"}
          /\ req' = [req EXCEPT ![r] = [op |-> "start", booking |-> b]]
    BY <1>3 DEF StartLoad
  <2>2. req'[r].op = "start" /\ req'[r].booking = b
    BY <2>1 DEF TypeInv, TypeOK
  <2> QED
    BY <1>3, <2>1, <2>2 DEF StartLoad, ReadStillTrue
<1>4. CASE EndLoad(r)
  <2>1. PICK b \in BookingIds :
          /\ bookings[b].status = "InProgress"
          /\ req' = [req EXCEPT ![r] = [op |-> "end", booking |-> b,
                                        trips |-> totalTrips[bookings[b].car]]]
    BY <1>4 DEF EndLoad
  <2>2. req'[r].op = "end" /\ req'[r].booking = b
    BY <2>1 DEF TypeInv, TypeOK
  <2> QED
    BY <1>4, <2>1, <2>2 DEF EndLoad, ReadStillTrue
<1>5. CASE CreateSave(r) \/ CancelSave(r) \/ StartSave(r) \/ EndSave(r)
            \/ Notify(r) \/ Abort(r)
  <2>1. req'[r].op \in {"notify", "idle"}
    BY <1>5, AfterSave
  <2> QED
    BY <2>1 DEF ReadStillTrue
<1> QED
  BY <1>1, <1>2, <1>3, <1>4, <1>5 DEF Step

(* The reads of the other requests: a save that would falsify one is a save  *)
(* to the same booking or a booking of the same car, and would not be taken  *)
(* in turn.                                                                 *)
LEMMA OthersRead ==
    ASSUME TurnInv, NEW r \in Requests, Step(r), NEW p \in Requests, p # r
    PROVE  ReadStillTrue(p)'
<1> USE DEF TurnInv
<1>0. req'[p] = req[p] /\ ReadStillTrue(p)
  BY OthersKept
<1>1. CASE Quiet(r)
  <2>1. bookings' = bookings /\ Stored' = Stored
    BY <1>1, QuietRows DEF Stored
  <2> QED
    BY <1>0, <2>1 DEF ReadStillTrue
<1>2. CASE CreateSave(r)
  <2>1. PICK b \in BookingIds \ Stored :
          bookings' = [bookings EXCEPT ![b] = NewBooking(req[r])]
    BY <1>2 DEF CreateSave
  <2>2. /\ Stored' \subseteq Stored \cup {b}
        /\ \A a \in Stored : bookings'[a] = bookings[a]
        /\ bookings'[b].car = req[r].car
    BY <2>1 DEF TypeInv, TypeOK, Stored, NewBooking
  <2>3. req[p].op = "create" => req[p].car # req[r].car
    BY <1>2 DEF CreateSave, TurnTaking, Unsaved, SameSubject
  <2>4. req[p].op \in {"cancel", "start", "end"} => req[p].booking \in Stored
    BY DEF TypeInv, Linked
  <2> QED
    BY <1>0, <2>2, <2>3, <2>4 DEF ReadStillTrue
<1>3. CASE CancelSave(r) \/ StartSave(r) \/ EndSave(r)
  <2> DEFINE b == req[r].booking
  <2>1. /\ req[r].op \in {"cancel", "start", "end"}
        /\ b \in Stored
        /\ bookings[b].status \in Active
    BY <1>3, SavedRow
  <2>2. PICK row \in Booking :
          /\ row.car = bookings[b].car
          /\ row.start = bookings[b].start
          /\ row.end = bookings[b].end
          /\ bookings' = [bookings EXCEPT ![b] = row]
    BY <1>3, SavedRow
  <2>3. /\ Stored' \subseteq Stored
        /\ \A a \in Stored : a # b => bookings'[a] = bookings[a]
        /\ bookings'[b] = row
    BY <2>1, <2>2 DEF TypeInv, TypeOK, Stored
  <2>4. req[p].op \in {"cancel", "start", "end"} =>
            req[p].booking \in Stored /\ req[p].booking # b
    BY <2>1 DEF TurnTaking, Unsaved, SameSubject, TypeInv, Linked
  <2>5. bookings[b].status # "Cancelled"
    BY <2>1 DEF Active
  <2>6. \A s, e : Clashes(s, e, row) <=> Clashes(s, e, bookings[b])
    BY <2>2 DEF Clashes
  <2>7. ASSUME req[p].op = "create", NEW a \in Stored', bookings'[a].car = req[p].car
        PROVE  ~ Clashes(req[p].start, req[p].end, bookings'[a])
               \/ bookings'[a].status = "Cancelled"
    <3>1. CASE a = b
      BY <1>0, <2>1, <2>2, <2>3, <2>5, <2>6, <2>7, <3>1 DEF ReadStillTrue
    <3>2. CASE a # b
      BY <1>0, <2>3, <2>7, <3>2 DEF ReadStillTrue
    <3> QED
      BY <3>1, <3>2
  <2> QED
    BY <1>0, <2>3, <2>4, <2>7 DEF ReadStillTrue
<1> QED
  BY <1>1, <1>2, <1>3 DEF Step, Quiet

-----------------------------------------------------------------------------
(* Rows stay orderly, and overlap only by enclosing *)

LEMMA OrderlyStep ==
    ASSUME TurnInv, NEW r \in Requests, Step(r), NEW a \in Stored'
    PROVE  Orderly(a)'
<1> USE DEF TurnInv
<1>1. CASE Quiet(r)
  <2>1. bookings' = bookings /\ inspections' = inspections /\ a \in Stored
    BY <1>1, QuietRows DEF Stored
  <2> QED
    BY <2>1 DEF Orderly, NoInspection
<1>2. CASE CreateSave(r)
  <2>1. PICK b \in BookingIds \ Stored :
          bookings' = [bookings EXCEPT ![b] = NewBooking(req[r])]
    BY <1>2 DEF CreateSave
  <2>2. inspections' = inspections
    BY <1>2 DEF CreateSave
  <2>3. CASE a = b
    <3>1. bookings'[a] = NewBooking(req[r])
      BY <2>1, <2>3 DEF TypeInv, TypeOK
    <3>2. /\ bookings'[a].start < bookings'[a].end
          /\ bookings'[a].status = "Pending"
      BY <1>2, <3>1 DEF CreateSave, ReadStillTrue, NewBooking
    <3>3. \A n \in inspections' : n.booking # a
      BY <2>1, <2>2, <2>3 DEF TypeInv, Linked
    <3> QED
      BY <3>2, <3>3 DEF Orderly, NoInspection
  <2>4. CASE a # b
    <3>1. a \in Stored /\ bookings'[a] = bookings[a]
      BY <2>1, <2>4 DEF TypeInv, TypeOK, Stored
    <3> QED
      BY <2>2, <3>1 DEF Orderly, NoInspection
  <2> QED
    BY <2>3, <2>4
<1>3. CASE CancelSave(r) \/ StartSave(r) \/ EndSave(r)
  <2> DEFINE b == req[r].booking
  <2>1. b \in Stored
    BY <1>3, SavedRow
  <2>2. PICK row \in Booking :
          /\ row.start = bookings[b].start
          /\ row.end = bookings[b].end
          /\ bookings' = [bookings EXCEPT ![b] = row]
    BY <1>3, SavedRow
  <2>3. a \in Stored /\ bookings'[b] = row /\ (a # b => bookings'[a] = bookings[a])
    BY <2>1, <2>2 DEF TypeInv, TypeOK, Stored
  <2>4. \A n \in inspections' : n \notin inspections =>
            n.booking = b /\ n.type = (IF req[r].op = "start" THEN "Pickup" ELSE "Return")
    <3>1. CASE CancelSave(r)
      BY <3>1 DEF CancelSave
    <3>2. CASE StartSave(r)
      BY <3>2 DEF StartSave
    <3>3. CASE EndSave(r)
      BY <3>3 DEF EndSave
    <3> QED
      BY <1>3, <3>1, <3>2, <3>3
  <2>5. CASE a # b
    BY <2>3, <2>4, <2>5 DEF Orderly, NoInspection
  <2>6. CASE a = b
    <3>1. Orderly(b) /\ row.start < row.end
      BY <2>1, <2>2 DEF Orderly
    <3>2. CASE CancelSave(r)
      <4>1. bookings'[b].status = "Cancelled"
        BY <2>1, <3>2, StoredRow DEF CancelSave, TypeInv, TypeOK, Booking
      <4> QED
        BY <2>3, <2>6, <3>1, <4>1 DEF Orderly, Active
    <3>3. CASE StartSave(r)
      <4>1. bookings'[b].status = "InProgress"
        BY <2>1, <3>3, StoredRow DEF StartSave, TypeInv, TypeOK, Booking
      <4>2. NoInspection(b, "Return") /\ req[r].op = "start"
        BY <3>1, <3>3 DEF StartSave, ReadStillTrue, Orderly, Active
      <4>3. \A n \in inspections' : ~ (n.booking = a /\ n.type = "Return")
        BY <2>4, <2>6, <4>2 DEF NoInspection
      <4> QED
        BY <2>3, <2>6, <3>1, <4>1, <4>3 DEF Orderly, NoInspection
    <3>4. CASE EndSave(r)
      <4>1. bookings'[b].status = "Completed"
        BY <2>1, <3>4, StoredRow DEF EndSave, TypeInv, TypeOK, Booking
      <4> QED
        BY <2>3, <2>6, <3>1, <4>1 DEF Orderly, Active
    <3> QED
      BY <1>3, <3>2, <3>3, <3>4
  <2> QED
    BY <2>5, <2>6
<1> QED
  BY <1>1, <1>2, <1>3 DEF Step, Quiet

(* The check's arithmetic: of two ranges of at least a day that overlap, the *)
(* one it let through encloses the other.                                   *)
LEMMA UnseenOverlap ==
    ASSUME NEW x, NEW y,
           x.start \in Int, x.end \in Int, y.start \in Int, y.end \in Int,
           x.start < x.end, y.start < y.end,
           ~ Clashes(x.start, x.end, y), Overlap(x, y)
    PROVE  StrictlyEncloses(x, y)
  BY DEF Clashes, Overlap, StrictlyEncloses

LEMMA EnclosingStep ==
    ASSUME TurnInv, NEW r \in Requests, Step(r)
    PROVE  OnlyEnclosingOverlaps'
<1> USE DEF TurnInv
<1>1. CASE Quiet(r)
  BY <1>1, QuietRows DEF OnlyEnclosingOverlaps, Stored, ActivePair
<1>2. CASE CreateSave(r)
  <2>1. PICK b \in BookingIds \ Stored :
          /\ NewBooking(req[r]) \in Booking
          /\ bookings' = [bookings EXCEPT ![b] = NewBooking(req[r])]
    BY <1>2, CreateSaveRow
  <2> DEFINE new == NewBooking(req[r])
  <2>2. /\ Stored' \subseteq Stored \cup {b}
        /\ \A a \in Stored : a # b /\ bookings'[a] = bookings[a]
        /\ bookings'[b] = new
    BY <2>1 DEF TypeInv, TypeOK, Stored
  <2>3. /\ new.car = req[r].car /\ new.start = req[r].start /\ new.end = req[r].end
        /\ new.start < new.end
    BY <1>2 DEF CreateSave, ReadStillTrue, NewBooking
  <2>4. ASSUME NEW a \in Stored, bookings[a].car = new.car,
               bookings[a].status # "Cancelled", Overlap(new, bookings[a])
        PROVE  StrictlyEncloses(new, bookings[a])
    <3>1. ~ Clashes(new.start, new.end, bookings[a])
      BY <1>2, <2>3, <2>4 DEF CreateSave, ReadStillTrue
    <3>2. bookings[a].start < bookings[a].end
      BY DEF Orderly
    <3>3. /\ new.start \in Int /\ new.end \in Int
          /\ bookings[a].start \in Int /\ bookings[a].end \in Int
      BY <2>1, StoredRow, BookingsAssumption DEF Booking, Day
    <3> QED
      BY <2>3, <2>4, <3>1, <3>2, <3>3, UnseenOverlap
  <2>5. ASSUME NEW x \in Stored', NEW y \in Stored', ActivePair(x, y)',
               Overlap(bookings'[x], bookings'[y])
        PROVE  StrictlyEncloses(bookings'[x], bookings'[y])
               \/ StrictlyEncloses(bookings'[y], bookings'[x])
    <3>1. /\ x # y
          /\ bookings'[x].car = bookings'[y].car
          /\ bookings'[x].status # "Cancelled"
          /\ bookings'[y].status # "Cancelled"
      BY <2>5 DEF ActivePair
    <3>2. CASE x \in Stored /\ y \in Stored
      BY <2>2, <2>5, <3>1, <3>2 DEF OnlyEnclosingOverlaps, ActivePair
    <3>3. CASE x = b /\ y \in Stored
      BY <2>2, <2>4, <2>5, <3>1, <3>3
    <3>4. CASE y = b /\ x \in Stored
      <4>1. Overlap(bookings'[y], bookings'[x])
        BY <2>5, <3>4, <2>1, <2>2, StoredRow, BookingsAssumption DEF Overlap, Booking, Day
      <4> QED
        BY <2>2, <2>4, <3>1, <3>4, <4>1
    <3> QED
      BY <2>2, <3>1, <3>2, <3>3, <3>4
  <2> QED
    BY <2>5 DEF OnlyEnclosingOverlaps
<1>3. CASE CancelSave(r) \/ StartSave(r) \/ EndSave(r)
  <2> DEFINE b == req[r].booking
  <2>1. b \in Stored /\ bookings[b].status # "Cancelled"
    BY <1>3, SavedRow DEF Active
  <2>2. PICK row \in Booking :
          /\ row.car = bookings[b].car
          /\ row.start = bookings[b].start
          /\ row.end = bookings[b].end
          /\ bookings' = [bookings EXCEPT ![b] = row]
    BY <1>3, SavedRow
  <2>3. ASSUME NEW a \in Stored'
        PROVE  /\ a \in Stored
               /\ bookings'[a].car = bookings[a].car
               /\ bookings'[a].start = bookings[a].start
               /\ bookings'[a].end = bookings[a].end
               /\ bookings'[a].status # "Cancelled" => bookings[a].status # "Cancelled"
    BY <2>1, <2>2, <2>3 DEF TypeInv, TypeOK, Stored
  <2>4. ASSUME NEW x \in Stored', NEW y \in Stored', ActivePair(x, y)',
               Overlap(bookings'[x], bookings'[y])
        PROVE  StrictlyEncloses(bookings'[x], bookings'[y])
               \/ StrictlyEncloses(bookings'[y], bookings'[x])
    <3>1. x \in Stored /\ y \in Stored /\ ActivePair(x, y)
      BY <2>3, <2>4 DEF ActivePair
    <3>2. Overlap(bookings[x], bookings[y])
      BY <2>3, <2>4 DEF Overlap
    <3>3. StrictlyEncloses(bookings[x], bookings[y])
          \/ StrictlyEncloses(bookings[y], bookings[x])
      BY <3>1, <3>2 DEF OnlyEnclosingOverlaps
    <3> QED
      BY <2>3, <3>3 DEF StrictlyEncloses
  <2> QED
    BY <2>4 DEF OnlyEnclosingOverlaps
<1> QED
  BY <1>1, <1>2, <1>3 DEF Step, Quiet

-----------------------------------------------------------------------------
(* The invariant *)

LEMMA InitTurnInv == Init => TurnInv
<1> SUFFICES ASSUME Init PROVE TurnInv
  OBVIOUS
<1>1. TypeInv
  BY InitTypeInv
<1>2. Stored = {} /\ \A r \in Requests : req[r].op = "idle"
  BY DEF Init, Stored, Idle
<1> QED
  BY <1>1, <1>2 DEF TurnInv, TurnTaking, Unsaved, ReadStillTrue, OnlyEnclosingOverlaps

LEMMA NextTurnInv == TurnInv /\ [TurnNext]_vars => TurnInv'
<1> SUFFICES ASSUME TurnInv, [TurnNext]_vars PROVE TurnInv'
  OBVIOUS
<1>1. TypeInv'
  BY NextTypeInv DEF TurnInv, TurnNext
<1>2. CASE TurnNext
  <2>1. PICK r \in Requests : Step(r)
    BY <1>2 DEF TurnNext, Next, Step
  <2>2. ASSUME NEW p \in Requests PROVE ReadStillTrue(p)'
    BY <2>1, OwnRead, OthersRead
  <2>3. \A a \in Stored' : Orderly(a)'
    BY <2>1, OrderlyStep
  <2>4. OnlyEnclosingOverlaps'
    BY <2>1, EnclosingStep
  <2> QED
    BY <1>1, <1>2, <2>2, <2>3, <2>4 DEF TurnInv, TurnNext
<1>3. CASE UNCHANGED vars
  BY <1>1, <1>3 DEF TurnInv, vars, TurnTaking, Unsaved, SameSubject, ReadStillTrue, Stored,
     Orderly, NoInspection, OnlyEnclosingOverlaps, ActivePair
<1> QED
  BY <1>2, <1>3

(* CreateBooking's availability query leaves exactly one hole: when callers  *)
(* take turns, bookings of a car that have not been cancelled overlap only   *)
(* if one lies strictly inside the other.                                   *)
THEOREM OnlyEnclosing == TurnSpec => []OnlyEnclosingOverlaps
<1>1. Init => TurnInv
  BY InitTurnInv
<1>2. TurnInv /\ [TurnNext]_vars => TurnInv'
  BY NextTurnInv
<1>3. TurnInv => OnlyEnclosingOverlaps
  BY DEF TurnInv
<1> QED
  BY <1>1, <1>2, <1>3, PTL DEF TurnSpec

-----------------------------------------------------------------------------
(* Refinement of the lifecycle *)

LEMMA MapsInit == Init => Lifecycle!Init
  BY DEF Init, Lifecycle!Init, StatusOf, InspectionsOf

LEMMA MapsQuiet ==
    ASSUME bookings' = bookings, inspections' = inspections
    PROVE  UNCHANGED <<[b \in BookingIds |-> StatusOf(b)],
                       [b \in BookingIds |-> InspectionsOf(b, "Pickup")],
                       [b \in BookingIds |-> InspectionsOf(b, "Return")]>>
  BY DEF StatusOf, InspectionsOf

LEMMA MapsCreate ==
    ASSUME TurnInv, NEW r \in Requests, CreateSave(r)
    PROVE  \E b \in BookingIds : Lifecycle!Open(b)
<1>1. PICK b \in BookingIds \ Stored :
        /\ NewBooking(req[r]) \in Booking
        /\ bookings' = [bookings EXCEPT ![b] = NewBooking(req[r])]
  BY CreateSaveRow DEF TurnInv
<1>2. inspections' = inspections
  BY DEF CreateSave
<1>3. bookings[b] = None /\ bookings'[b].status = "Pending" /\ bookings'[b] # None
  BY <1>1, BookingsAssumption DEF Stored, NewBooking, TurnInv, TypeInv, TypeOK
<1>4. [a \in BookingIds |-> StatusOf(a)]' =
          [[a \in BookingIds |-> StatusOf(a)] EXCEPT ![b] = "Pending"]
  BY <1>1, <1>3 DEF StatusOf, TurnInv, TypeInv, TypeOK
<1> QED
  BY <1>1, <1>2, <1>3, <1>4 DEF Lifecycle!Open, StatusOf, InspectionsOf


(* A save to a stored booking changes that booking's status and no other. *)
LEMMA MapsStatus ==
    ASSUME TypeInv, NEW b \in Stored, NEW row \in Booking,
           bookings' = [bookings EXCEPT ![b] = row]
    PROVE  /\ StatusOf(b) = bookings[b].status
           /\ [a \in BookingIds |-> StatusOf(a)]' =
                 [[a \in BookingIds |-> StatusOf(a)] EXCEPT ![b] = row.status]
<1>1. b \in BookingIds /\ bookings[b] # None /\ row # None
  BY BookingsAssumption DEF Stored
<1> QED
  BY <1>1 DEF StatusOf, TypeInv, TypeOK

(* A new inspection of one booking and type shows there and nowhere else. *)
LEMMA MapsInspection ==
    ASSUME NEW b \in BookingIds, NEW i \in InspectionIds, NEW t \in InspectionType,
           NoInspection(b, t),
           inspections' = inspections \cup {[id |-> i, booking |-> b, type |-> t]}
    PROVE  /\ InspectionsOf(b, t) = {}
           /\ [a \in BookingIds |-> InspectionsOf(a, t)]' =
                 [[a \in BookingIds |-> InspectionsOf(a, t)] EXCEPT ![b] = {i}]
           /\ \A u \in InspectionType \ {t} :
                 [a \in BookingIds |-> InspectionsOf(a, u)]' =
                     [a \in BookingIds |-> InspectionsOf(a, u)]
<1>1. ASSUME NEW a \in BookingIds, NEW u, a # b \/ u # t
      PROVE  InspectionsOf(a, u)' = InspectionsOf(a, u)
  <2>1. ASSUME NEW j \in InspectionIds
        PROVE  [id |-> j, booking |-> a, type |-> u] # [id |-> i, booking |-> b, type |-> t]
    BY <1>1
  <2> QED
    BY <2>1 DEF InspectionsOf
<1>2. ASSUME NEW j \in InspectionIds
      PROVE  [id |-> j, booking |-> b, type |-> t] \notin inspections
  BY DEF NoInspection
<1>3. InspectionsOf(b, t) = {}
  BY <1>2 DEF InspectionsOf
<1>4. InspectionsOf(b, t)' = {i}
  <2>1. ASSUME NEW j \in InspectionIds
        PROVE  [id |-> j, booking |-> b, type |-> t] \in inspections' <=> j = i
    BY <1>2
  <2> QED
    BY <2>1 DEF InspectionsOf
<1> QED
  BY <1>1, <1>3, <1>4

LEMMA MapsCancel ==
    ASSUME TurnInv, NEW r \in Requests, CancelSave(r)
    PROVE  \E b \in BookingIds : Lifecycle!Cancel(b)
<1> DEFINE b == req[r].booking
<1>1. PICK row \in Booking :
        /\ row = [bookings[b] EXCEPT !.status = "Cancelled", !.cancelledAt = Recorded]
        /\ bookings' = [bookings EXCEPT ![b] = row]
  BY CancelSaveRow DEF TurnInv
<1>2. b \in Stored /\ bookings[b].status \in Active
  BY SavedRow
<1>3. row.status = "Cancelled"
  BY <1>1, <1>2, StoredRow DEF TurnInv, Booking
<1>4. inspections' = inspections /\ b \in BookingIds
  BY <1>2 DEF CancelSave, Stored
<1>5. PICK a \in BookingIds : a = b
  BY <1>4
<1>6. /\ StatusOf(a) \in Active
      /\ [x \in BookingIds |-> StatusOf(x)]' =
            [[x \in BookingIds |-> StatusOf(x)] EXCEPT ![a] = "Cancelled"]
  <2>1. a \in Stored /\ bookings' = [bookings EXCEPT ![a] = row]
    BY <1>1, <1>2, <1>5
  <2>2. /\ StatusOf(a) = bookings[a].status
        /\ [x \in BookingIds |-> StatusOf(x)]' =
              [[x \in BookingIds |-> StatusOf(x)] EXCEPT ![a] = row.status]
    BY <2>1, MapsStatus DEF TurnInv
  <2> QED
    BY <1>2, <1>3, <1>5, <2>2
<1> QED
  BY <1>4, <1>6 DEF Lifecycle!Cancel, InspectionsOf, Active

LEMMA MapsStart ==
    ASSUME TurnInv, NEW r \in Requests, StartSave(r)
    PROVE  \E b \in BookingIds : Lifecycle!Start(b)
<1> DEFINE b == req[r].booking
<1>1. PICK i \in InspectionIds, row \in Booking :
        /\ row = [bookings[b] EXCEPT !.status = "InProgress", !.pickup = i]
        /\ bookings' = [bookings EXCEPT ![b] = row]
        /\ inspections' = inspections \cup {[id |-> i, booking |-> b, type |-> "Pickup"]}
  BY StartSaveRow DEF TurnInv
<1>2. b \in Stored
  BY SavedRow
<1>3. row.status = "InProgress"
  BY <1>1, <1>2, StoredRow DEF TurnInv, Booking
<1>4. bookings[b].status \in {"Pending", "Confirmed"} /\ b \in BookingIds
  BY <1>2 DEF StartSave, TurnInv, ReadStillTrue, Stored
<1>5. NoInspection(b, "Pickup")
  BY <1>2, <1>4 DEF TurnInv, Orderly
<1>6. PICK a \in BookingIds : a = b
  BY <1>4
<1>7. /\ StatusOf(a) \in {"Pending", "Confirmed"}
      /\ [x \in BookingIds |-> StatusOf(x)]' =
            [[x \in BookingIds |-> StatusOf(x)] EXCEPT ![a] = "InProgress"]
  <2>1. a \in Stored /\ bookings' = [bookings EXCEPT ![a] = row]
    BY <1>1, <1>2, <1>6
  <2>2. /\ StatusOf(a) = bookings[a].status
        /\ [x \in BookingIds |-> StatusOf(x)]' =
              [[x \in BookingIds |-> StatusOf(x)] EXCEPT ![a] = row.status]
    BY <2>1, MapsStatus DEF TurnInv
  <2> QED
    BY <1>2, <1>3, <1>4, <1>6, <2>2
<1>8. /\ InspectionsOf(a, "Pickup") = {}
      /\ [x \in BookingIds |-> InspectionsOf(x, "Pickup")]' =
            [[x \in BookingIds |-> InspectionsOf(x, "Pickup")] EXCEPT ![a] = {i}]
      /\ [x \in BookingIds |-> InspectionsOf(x, "Return")]' =
            [x \in BookingIds |-> InspectionsOf(x, "Return")]
  BY <1>1, <1>5, <1>6, MapsInspection DEF InspectionType
<1> QED
  BY <1>7, <1>8 DEF Lifecycle!Start

LEMMA MapsEnd ==
    ASSUME TurnInv, NEW r \in Requests, EndSave(r)
    PROVE  \E b \in BookingIds : Lifecycle!End(b)
<1> DEFINE b == req[r].booking
<1>1. PICK i \in InspectionIds, row \in Booking :
        /\ row = [bookings[b] EXCEPT !.status = "Completed", !.return = i]
        /\ bookings' = [bookings EXCEPT ![b] = row]
        /\ inspections' = inspections \cup {[id |-> i, booking |-> b, type |-> "Return"]}
  BY EndSaveRow DEF TurnInv
<1>2. b \in Stored
  BY SavedRow
<1>3. row.status = "Completed"
  BY <1>1, <1>2, StoredRow DEF TurnInv, Booking
<1>4. bookings[b].status = "InProgress" /\ b \in BookingIds
  BY <1>2 DEF EndSave, TurnInv, ReadStillTrue, Stored
<1>5. NoInspection(b, "Return")
  BY <1>2, <1>4 DEF TurnInv, Orderly, Active
<1>6. PICK a \in BookingIds : a = b
  BY <1>4
<1>7. /\ StatusOf(a) = "InProgress"
      /\ [x \in BookingIds |-> StatusOf(x)]' =
            [[x \in BookingIds |-> StatusOf(x)] EXCEPT ![a] = "Completed"]
  <2>1. a \in Stored /\ bookings' = [bookings EXCEPT ![a] = row]
    BY <1>1, <1>2, <1>6
  <2>2. /\ StatusOf(a) = bookings[a].status
        /\ [x \in BookingIds |-> StatusOf(x)]' =
              [[x \in BookingIds |-> StatusOf(x)] EXCEPT ![a] = row.status]
    BY <2>1, MapsStatus DEF TurnInv
  <2> QED
    BY <1>2, <1>3, <1>4, <1>6, <2>2
<1>8. /\ InspectionsOf(a, "Return") = {}
      /\ [x \in BookingIds |-> InspectionsOf(x, "Return")]' =
            [[x \in BookingIds |-> InspectionsOf(x, "Return")] EXCEPT ![a] = {i}]
      /\ [x \in BookingIds |-> InspectionsOf(x, "Pickup")]' =
            [x \in BookingIds |-> InspectionsOf(x, "Pickup")]
  BY <1>1, <1>5, <1>6, MapsInspection DEF InspectionType
<1> QED
  BY <1>7, <1>8 DEF Lifecycle!End

(* StartTrip, EndTrip and CancelBooking keep the promise their guards make   *)
(* when callers take turns: every save is one transition of the lifecycle of *)
(* one booking, with exactly one pickup and one return inspection.          *)
THEOREM TurnsRefineLifecycle == TurnSpec => RefinesLifecycle
<1> DEFINE mapped == <<[b \in BookingIds |-> StatusOf(b)],
                       [b \in BookingIds |-> InspectionsOf(b, "Pickup")],
                       [b \in BookingIds |-> InspectionsOf(b, "Return")]>>
<1>1. Init => TurnInv
  BY InitTurnInv
<1>2. TurnInv /\ [TurnNext]_vars => TurnInv'
  BY NextTurnInv
<1>3. Init => Lifecycle!Init
  BY MapsInit
<1>4. TurnInv /\ [TurnNext]_vars => [Lifecycle!Next]_mapped
  <2> SUFFICES ASSUME TurnInv, [TurnNext]_vars PROVE [Lifecycle!Next]_mapped
    OBVIOUS
  <2>1. CASE UNCHANGED vars
    BY <2>1, MapsQuiet DEF vars
  <2>2. CASE TurnNext
    <3>1. PICK r \in Requests : Step(r)
      BY <2>2 DEF TurnNext, Next, Step
    <3>2. CASE Quiet(r)
      BY <3>2, QuietRows, MapsQuiet
    <3>3. CASE CreateSave(r)
      BY <3>3, MapsCreate DEF Lifecycle!Next
    <3>4. CASE CancelSave(r)
      BY <3>4, MapsCancel DEF Lifecycle!Next
    <3>5. CASE StartSave(r)
      BY <3>5, MapsStart DEF Lifecycle!Next
    <3>6. CASE EndSave(r)
      BY <3>6, MapsEnd DEF Lifecycle!Next
    <3> QED
      BY <3>1, <3>2, <3>3, <3>4, <3>5, <3>6 DEF Step, Quiet
  <2> QED
    BY <2>1, <2>2
<1> QED
  BY <1>1, <1>2, <1>3, <1>4, PTL DEF TurnSpec, RefinesLifecycle, Lifecycle!Spec


=============================================================================

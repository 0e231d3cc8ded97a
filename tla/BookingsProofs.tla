---------------------------- MODULE BookingsProofs ----------------------------
(***************************************************************************)
(* Proofs about Bookings for every value of its constants.                  *)
(***************************************************************************)
EXTENDS Bookings, TLAPS, FiniteSetTheorems

(* A request that has read or saved a booking, and an inspection, name a     *)
(* booking row that exists: no command deletes one.                         *)
Linked ==
    /\ \A r \in Requests :
          req[r].op \in {"cancel", "start", "end", "notify"} => req[r].booking \in Stored
    /\ \A n \in inspections : n.booking \in Stored

TypeInv == TypeOK /\ Linked

(* A request's operation says what its locals are. *)
LEMMA LocalsByOp ==
    ASSUME NEW q \in Locals
    PROVE  /\ q.op \in {"idle", "create", "cancel", "start", "end", "notify"}
           /\ q.op = "idle" => q = Idle
           /\ q.op = "create" => q \in CreateLocals
           /\ q.op = "cancel" => q \in CancelLocals
           /\ q.op = "start" => q \in StartLocals
           /\ q.op = "end" => q \in EndLocals
           /\ q.op = "notify" => q \in NotifyLocals
  BY DEF Locals, Idle, CreateLocals, CancelLocals, StartLocals, EndLocals, NotifyLocals

-----------------------------------------------------------------------------
(* What each save does to the one row it writes. *)

LEMMA CreateSaveRow ==
    ASSUME TypeInv, NEW r \in Requests, CreateSave(r)
    PROVE  \E b \in BookingIds \ Stored :
              /\ NewBooking(req[r]) \in Booking
              /\ bookings' = [bookings EXCEPT ![b] = NewBooking(req[r])]
              /\ Announce(r, "BookingRequested", b, {OwnerOf[req[r].car]})
              /\ OwnerOf[req[r].car] \in Users
<1>1. req[r] \in CreateLocals
  BY LocalsByOp DEF CreateSave, TypeInv, TypeOK
<1>2. OwnerOf[req[r].car] \in Users
  BY <1>1, BookingsAssumption DEF CreateLocals
<1>3. NewBooking(req[r]) \in Booking
  BY <1>1, <1>2 DEF NewBooking, Booking, CreateLocals, BookingStatus
<1> QED
  BY <1>2, <1>3 DEF CreateSave

LEMMA CancelSaveRow ==
    ASSUME TypeInv, NEW r \in Requests, CancelSave(r)
    PROVE  LET b == req[r].booking
               u == req[r].by
               row == [bookings[b] EXCEPT !.status = "Cancelled", !.cancelledAt = Recorded]
           IN  /\ b \in Stored
               /\ u \in Users
               /\ bookings[b] \in Booking
               /\ row \in Booking
               /\ bookings' = [bookings EXCEPT ![b] = row]
               /\ CancelRecipients(bookings[b], u) \subseteq {row.renter, row.owner}
               /\ CancelRecipients(bookings[b], u) # {}
<1> DEFINE b == req[r].booking
           u == req[r].by
           row == [bookings[b] EXCEPT !.status = "Cancelled", !.cancelledAt = Recorded]
<1>1. req[r] \in CancelLocals /\ b \in Stored
  BY LocalsByOp DEF CancelSave, TypeInv, TypeOK, Linked
<1>2. bookings[b] \in Booking /\ b \in BookingIds /\ u \in Users
  BY <1>1 DEF TypeInv, TypeOK, Stored, CancelLocals
<1>3. row \in Booking /\ row.renter = bookings[b].renter /\ row.owner = bookings[b].owner
  BY <1>2 DEF Booking, BookingStatus
<1>4. bookings' = [bookings EXCEPT ![b] = row]
  BY <1>2 DEF CancelSave, TypeInv, TypeOK
<1>5. /\ CancelRecipients(bookings[b], u) \subseteq {row.renter, row.owner}
      /\ CancelRecipients(bookings[b], u) # {}
  BY <1>3 DEF CancelRecipients
<1> QED
  BY <1>1, <1>2, <1>3, <1>4, <1>5

LEMMA StartSaveRow ==
    ASSUME TypeInv, NEW r \in Requests, StartSave(r)
    PROVE  LET b == req[r].booking IN
           /\ b \in Stored
           /\ bookings[b] \in Booking
           /\ \E i \in InspectionIds :
                 LET row == [bookings[b] EXCEPT !.status = "InProgress", !.pickup = i]
                     n == [id |-> i, booking |-> b, type |-> "Pickup"]
                 IN  /\ row \in Booking
                     /\ n \in Inspection \ inspections
                     /\ bookings' = [bookings EXCEPT ![b] = row]
                     /\ inspections' = inspections \cup {n}
<1> DEFINE b == req[r].booking
<1>1. req[r] \in StartLocals /\ b \in Stored
  BY LocalsByOp DEF StartSave, TypeInv, TypeOK, Linked
<1>2. bookings[b] \in Booking /\ b \in BookingIds
  BY <1>1 DEF TypeInv, TypeOK, Stored
<1>3. PICK i \in InspectionIds :
        /\ FreshInspection(i)
        /\ inspections' =
              inspections \cup {[id |-> i, booking |-> b, type |-> "Pickup"]}
        /\ bookings' = [bookings EXCEPT ![b].status = "InProgress", ![b].pickup = i]
  BY DEF StartSave
<1> DEFINE row == [bookings[b] EXCEPT !.status = "InProgress", !.pickup = i]
           n == [id |-> i, booking |-> b, type |-> "Pickup"]
<1>4. row \in Booking
  BY <1>2 DEF Booking, BookingStatus
<1>5. n \in Inspection \ inspections
  BY <1>2, <1>3 DEF Inspection, InspectionType, FreshInspection
<1>6. bookings' = [bookings EXCEPT ![b] = row]
  BY <1>2, <1>3 DEF TypeInv, TypeOK
<1> QED
  BY <1>1, <1>2, <1>3, <1>4, <1>5, <1>6

LEMMA EndSaveRow ==
    ASSUME TypeInv, NEW r \in Requests, EndSave(r)
    PROVE  LET b == req[r].booking IN
           /\ b \in Stored
           /\ bookings[b] \in Booking
           /\ req[r] \in EndLocals
           /\ totalTrips' = [totalTrips EXCEPT ![bookings[b].car] = req[r].trips + 1]
           /\ \E i \in InspectionIds :
                 LET row == [bookings[b] EXCEPT !.status = "Completed", !.return = i]
                     n == [id |-> i, booking |-> b, type |-> "Return"]
                 IN  /\ row \in Booking
                     /\ n \in Inspection \ inspections
                     /\ bookings' = [bookings EXCEPT ![b] = row]
                     /\ inspections' = inspections \cup {n}
<1> DEFINE b == req[r].booking
<1>1. req[r] \in EndLocals /\ b \in Stored
  BY LocalsByOp DEF EndSave, TypeInv, TypeOK, Linked
<1>2. bookings[b] \in Booking /\ b \in BookingIds
  BY <1>1 DEF TypeInv, TypeOK, Stored
<1>3. PICK i \in InspectionIds :
        /\ FreshInspection(i)
        /\ inspections' =
              inspections \cup {[id |-> i, booking |-> b, type |-> "Return"]}
        /\ bookings' = [bookings EXCEPT ![b].status = "Completed", ![b].return = i]
        /\ totalTrips' = [totalTrips EXCEPT ![bookings[b].car] = req[r].trips + 1]
  BY DEF EndSave
<1> DEFINE row == [bookings[b] EXCEPT !.status = "Completed", !.return = i]
           n == [id |-> i, booking |-> b, type |-> "Return"]
<1>4. row \in Booking
  BY <1>2 DEF Booking, BookingStatus
<1>5. n \in Inspection \ inspections
  BY <1>2, <1>3 DEF Inspection, InspectionType, FreshInspection
<1>6. bookings' = [bookings EXCEPT ![b] = row]
  BY <1>2, <1>3 DEF TypeInv, TypeOK
<1> QED
  BY <1>1, <1>2, <1>3, <1>4, <1>5, <1>6

-----------------------------------------------------------------------------
(* Type correctness *)

LEMMA InitTypeInv == Init => TypeInv
  BY DEF Init, TypeInv, TypeOK, Linked, Stored, Locals, Idle

LEMMA NextTypeInv == TypeInv /\ [Next]_vars => TypeInv'
<1> SUFFICES ASSUME TypeInv, [Next]_vars PROVE TypeInv'
  OBVIOUS
<1> USE DEF TypeInv
<1>1. ASSUME NEW r \in Requests, CreateCheck(r) PROVE TypeInv'
  <2>1. PICK u \in Users, c \in Cars, s \in Day, e \in Day :
          req' = [req EXCEPT ![r] =
                    [op |-> "create", by |-> u, car |-> c, start |-> s, end |-> e]]
    BY <1>1 DEF CreateCheck
  <2>2. [op |-> "create", by |-> u, car |-> c, start |-> s, end |-> e] \in CreateLocals
    BY DEF CreateLocals
  <2> QED
    BY <1>1, <2>1, <2>2 DEF CreateCheck, TypeOK, Linked, Stored, Locals
<1>2. ASSUME NEW r \in Requests, CreateSave(r) PROVE TypeInv'
  <2>1. PICK b \in BookingIds \ Stored :
          /\ NewBooking(req[r]) \in Booking
          /\ bookings' = [bookings EXCEPT ![b] = NewBooking(req[r])]
          /\ Announce(r, "BookingRequested", b, {OwnerOf[req[r].car]})
          /\ OwnerOf[req[r].car] \in Users
    BY <1>2, CreateSaveRow
  <2>2. /\ bookings' \in [BookingIds -> Booking \cup {None}]
        /\ Stored \subseteq Stored'
        /\ b \in Stored'
    BY <2>1, BookingsAssumption DEF TypeOK, Stored
  <2>3. req'[r] \in NotifyLocals /\ req'[r].booking = b
    BY <2>1 DEF Announce, TypeOK, NotifyLocals, NoticeKind
  <2>4. TypeOK'
    BY <1>2, <2>1, <2>2, <2>3 DEF CreateSave, TypeOK, Locals, Announce
  <2> QED
    BY <1>2, <2>1, <2>2, <2>3, <2>4 DEF CreateSave, Linked, Announce, TypeOK
<1>3. ASSUME NEW r \in Requests, CancelLoad(r) PROVE TypeInv'
  <2>1. PICK b \in BookingIds, u \in Users :
          /\ b \in Stored
          /\ req' = [req EXCEPT ![r] = [op |-> "cancel", by |-> u, booking |-> b]]
    BY <1>3 DEF CancelLoad, Sees
  <2>2. [op |-> "cancel", by |-> u, booking |-> b] \in CancelLocals
    BY DEF CancelLocals
  <2> QED
    BY <1>3, <2>1, <2>2 DEF CancelLoad, TypeOK, Linked, Stored, Locals
<1>4. ASSUME NEW r \in Requests, CancelSave(r) PROVE TypeInv'
  <2> DEFINE b == req[r].booking
             u == req[r].by
             row == [bookings[b] EXCEPT !.status = "Cancelled", !.cancelledAt = Recorded]
  <2>1. /\ b \in Stored
        /\ row \in Booking
        /\ bookings' = [bookings EXCEPT ![b] = row]
        /\ CancelRecipients(bookings[b], u) \subseteq {row.renter, row.owner}
    BY <1>4, CancelSaveRow
  <2>2. /\ bookings' \in [BookingIds -> Booking \cup {None}]
        /\ Stored' = Stored
    BY <2>1, BookingsAssumption DEF TypeOK, Stored
  <2>3. CancelRecipients(bookings[b], u) \subseteq Users
    BY <2>1 DEF Booking
  <2>4. req'[r] \in NotifyLocals /\ req'[r].booking = b
    BY <1>4, <2>1, <2>3 DEF CancelSave, Announce, TypeOK, Stored, NotifyLocals, NoticeKind
  <2> QED
    BY <1>4, <2>1, <2>2, <2>4 DEF CancelSave, Announce, TypeOK, Linked, Locals
<1>5. ASSUME NEW r \in Requests, StartLoad(r) PROVE TypeInv'
  <2>1. PICK b \in BookingIds :
          /\ b \in Stored
          /\ req' = [req EXCEPT ![r] = [op |-> "start", booking |-> b]]
    BY <1>5 DEF StartLoad, Sees
  <2>2. [op |-> "start", booking |-> b] \in StartLocals
    BY DEF StartLocals
  <2> QED
    BY <1>5, <2>1, <2>2 DEF StartLoad, TypeOK, Linked, Stored, Locals
<1>6. ASSUME NEW r \in Requests, StartSave(r) PROVE TypeInv'
  <2> DEFINE b == req[r].booking
  <2>1. b \in Stored /\ bookings[b] \in Booking
    BY <1>6, StartSaveRow
  <2>2. PICK i \in InspectionIds :
          LET row == [bookings[b] EXCEPT !.status = "InProgress", !.pickup = i]
              n == [id |-> i, booking |-> b, type |-> "Pickup"]
          IN  /\ row \in Booking
              /\ n \in Inspection \ inspections
              /\ bookings' = [bookings EXCEPT ![b] = row]
              /\ inspections' = inspections \cup {n}
    BY <1>6, StartSaveRow
  <2>3. /\ bookings' \in [BookingIds -> Booking \cup {None}]
        /\ Stored' = Stored
    BY <2>1, <2>2, BookingsAssumption DEF TypeOK, Stored
  <2>4. inspections' \subseteq Inspection /\ \A n \in inspections' : n.booking \in Stored'
    BY <2>1, <2>2, <2>3 DEF TypeOK, Linked
  <2>5. req'[r] \in NotifyLocals /\ req'[r].booking = b
    BY <1>6, <2>1 DEF StartSave, Announce, TypeOK, Stored, NotifyLocals, NoticeKind, Booking
  <2> QED
    BY <1>6, <2>1, <2>3, <2>4, <2>5 DEF StartSave, Announce, TypeOK, Linked, Locals
<1>7. ASSUME NEW r \in Requests, EndLoad(r) PROVE TypeInv'
  <2>1. PICK b \in BookingIds :
          /\ b \in Stored
          /\ req' = [req EXCEPT ![r] = [op |-> "end", booking |-> b,
                                        trips |-> totalTrips[bookings[b].car]]]
    BY <1>7 DEF EndLoad, Sees
  <2>2. totalTrips[bookings[b].car] \in Nat
    BY <2>1 DEF TypeOK, Stored, Booking
  <2>3. [op |-> "end", booking |-> b, trips |-> totalTrips[bookings[b].car]] \in EndLocals
    BY <2>2 DEF EndLocals
  <2> QED
    BY <1>7, <2>1, <2>3 DEF EndLoad, TypeOK, Linked, Stored, Locals
<1>8. ASSUME NEW r \in Requests, EndSave(r) PROVE TypeInv'
  <2> DEFINE b == req[r].booking
  <2>1. b \in Stored /\ bookings[b] \in Booking
    BY <1>8, EndSaveRow
  <2>2. PICK i \in InspectionIds :
          LET row == [bookings[b] EXCEPT !.status = "Completed", !.return = i]
              n == [id |-> i, booking |-> b, type |-> "Return"]
          IN  /\ row \in Booking
              /\ n \in Inspection \ inspections
              /\ bookings' = [bookings EXCEPT ![b] = row]
              /\ inspections' = inspections \cup {n}
    BY <1>8, EndSaveRow
  <2>3. /\ bookings' \in [BookingIds -> Booking \cup {None}]
        /\ Stored' = Stored
    BY <2>1, <2>2, BookingsAssumption DEF TypeOK, Stored
  <2>4. inspections' \subseteq Inspection /\ \A n \in inspections' : n.booking \in Stored'
    BY <2>1, <2>2, <2>3 DEF TypeOK, Linked
  <2>5. req'[r] \in NotifyLocals /\ req'[r].booking = b
    BY <1>8, <2>1 DEF EndSave, Announce, TypeOK, Stored, NotifyLocals, NoticeKind, Booking
  <2>6. totalTrips' \in [Cars -> Nat]
    <3>1. /\ req[r] \in EndLocals
          /\ totalTrips' = [totalTrips EXCEPT ![bookings[b].car] = req[r].trips + 1]
      BY <1>8, EndSaveRow
    <3>2. req[r].trips + 1 \in Nat
      BY <3>1 DEF EndLocals
    <3> QED
      BY <3>1, <3>2 DEF TypeOK
  <2> QED
    BY <1>8, <2>1, <2>3, <2>4, <2>5, <2>6 DEF EndSave, Announce, TypeOK, Linked, Locals
<1>9. ASSUME NEW r \in Requests, Notify(r) PROVE TypeInv'
  <2> DEFINE q == req[r]
             u == NextRecipient(q)
  <2>1. q \in NotifyLocals /\ q.booking \in Stored
    BY <1>9, LocalsByOp DEF Notify, TypeOK, Linked
  <2>2. u \in Users
    BY <2>1 DEF NextRecipient, TypeOK, Stored, Booking
  <2>3. notices' \subseteq Notice
    <3>1. ToSend(q, q.unsaved \cup {u}) \subseteq Notice
      BY <2>1, <2>2 DEF ToSend, Notice, NotifyLocals
    <3> QED
      BY <1>9, <3>1 DEF Notify, TypeOK
  <2>4. /\ req' \in [Requests -> Locals]
        /\ \A p \in Requests : p # r => req'[p] = req[p]
        /\ req'[r] = Idle \/ req'[r].booking = q.booking
    <3>1. ASSUME NEW us \in SUBSET Users
          PROVE  /\ [q EXCEPT !.to = @ \ {u}, !.unsaved = us] \in NotifyLocals
                 /\ [q EXCEPT !.to = @ \ {u}, !.unsaved = us].booking = q.booking
      BY <2>1 DEF NotifyLocals
    <3>2. q.unsaved \cup {u} \in SUBSET Users
      BY <2>1, <2>2 DEF NotifyLocals
    <3>3. PICK us \in SUBSET Users :
            req' = [req EXCEPT ![r] = IF q.to = {u} THEN Idle
                                      ELSE [q EXCEPT !.to = @ \ {u}, !.unsaved = us]]
      BY <1>9, <3>2 DEF Notify
    <3> QED
      BY <3>1, <3>3 DEF TypeOK, Locals
  <2>5. UNCHANGED <<bookings, inspections, totalTrips>>
    BY <1>9 DEF Notify
  <2>6. TypeOK'
    BY <2>3, <2>4, <2>5 DEF TypeOK
  <2>7. Linked'
    <3>1. Stored' = Stored /\ inspections' = inspections
      BY <2>5 DEF Stored
    <3>2. ASSUME NEW p \in Requests,
                 req'[p].op \in {"cancel", "start", "end", "notify"}
          PROVE  req'[p].booking \in Stored
      BY <2>1, <2>4, <3>2 DEF Linked, Idle
    <3> QED
      BY <3>1, <3>2 DEF Linked
  <2> QED
    BY <2>6, <2>7
<1>10. ASSUME NEW r \in Requests, Abort(r) PROVE TypeInv'
  BY <1>10 DEF Abort, TypeOK, Linked, Stored, Locals, Idle
<1>11. CASE UNCHANGED vars
  BY <1>11 DEF vars, TypeOK, Linked, Stored
<1> QED
  BY <1>1, <1>2, <1>3, <1>4, <1>5, <1>6, <1>7, <1>8, <1>9, <1>10, <1>11 DEF Next

(* Every command, in any interleaving, leaves well-typed rows, and its locals *)
(* and the inspections keep naming rows that exist.                         *)
THEOREM TypeCorrect == Spec => [](TypeOK /\ Linked)
<1>1. Init => TypeInv
  BY InitTypeInv
<1>2. TypeInv /\ [Next]_vars => TypeInv'
  BY NextTypeInv
<1> QED
  BY <1>1, <1>2, PTL DEF Spec, TypeInv

-----------------------------------------------------------------------------
(* What a step does to the locals of the requests *)

Step(r) ==
    \/ CreateCheck(r) \/ CreateSave(r) \/ CancelLoad(r) \/ CancelSave(r)
    \/ StartLoad(r) \/ StartSave(r) \/ EndLoad(r) \/ EndSave(r)
    \/ Notify(r) \/ Abort(r)

LEMMA OthersKept ==
    ASSUME TypeInv, NEW r \in Requests, NEW p \in Requests, p # r, Step(r)
    PROVE  req'[p] = req[p]
  BY DEF Step, CreateCheck, CreateSave, CancelLoad, CancelSave, StartLoad, StartSave,
         EndLoad, EndSave, Notify, Abort, Announce, TypeInv, TypeOK

(* A request is past its save once it has saved. *)
LEMMA AfterSave ==
    ASSUME TypeInv, NEW r \in Requests,
           CreateSave(r) \/ CancelSave(r) \/ StartSave(r) \/ EndSave(r)
               \/ Notify(r) \/ Abort(r)
    PROVE  req'[r].op \in {"notify", "idle"}
<1>0. ASSUME NEW kind, NEW b, NEW to, Announce(r, kind, b, to)
      PROVE  req'[r].op = "notify"
  BY <1>0 DEF Announce, TypeInv, TypeOK
<1>1. CASE CreateSave(r) \/ CancelSave(r) \/ StartSave(r) \/ EndSave(r)
  <2>1. \E kind, b, to : Announce(r, kind, b, to)
    BY <1>1 DEF CreateSave, CancelSave, StartSave, EndSave
  <2> QED
    BY <1>0, <2>1
<1>2. CASE Abort(r)
  BY <1>2 DEF Abort, Idle, TypeInv, TypeOK
<1>3. CASE Notify(r)
  <2>1. req[r] \in NotifyLocals
    BY <1>3, LocalsByOp DEF Notify, TypeInv, TypeOK
  <2>2. PICK us : req' = [req EXCEPT ![r] =
                          IF req[r].to = {NextRecipient(req[r])} THEN Idle
                          ELSE [req[r] EXCEPT !.to = @ \ {NextRecipient(req[r])},
                                              !.unsaved = us]]
    BY <1>3 DEF Notify
  <2>3. [req[r] EXCEPT !.to = @ \ {NextRecipient(req[r])}, !.unsaved = us].op = "notify"
    BY <2>1 DEF NotifyLocals
  <2> QED
    BY <2>2, <2>3 DEF Idle, TypeInv, TypeOK
<1> QED
  BY <1>1, <1>2, <1>3

-----------------------------------------------------------------------------
(* The evidence behind a status, and behind a notification *)

(* What a step never does to a stored row: it keeps the parties, the car and *)
(* the days, and clears no reference and no cancellation date.              *)
Keeps(x, y) ==
    /\ y.car = x.car /\ y.renter = x.renter /\ y.owner = x.owner
    /\ y.start = x.start /\ y.end = x.end
    /\ x.pickup # None => y.pickup # None
    /\ x.return # None => y.return # None
    /\ x.cancelledAt # None => y.cancelledAt # None

LEMMA RowsKept ==
    ASSUME TypeInv, [Next]_vars
    PROVE  /\ inspections \subseteq inspections'
           /\ \A b \in Stored : b \in Stored' /\ Keeps(bookings[b], bookings'[b])
<1> USE DEF TypeInv
<1>0. ASSUME NEW b \in Stored PROVE bookings[b] \in Booking
  BY <1>0 DEF TypeOK, Stored
<1>1. CASE bookings' = bookings /\ inspections' = inspections
  BY <1>1 DEF Stored, Keeps
<1>2. ASSUME NEW r \in Requests, CreateSave(r)
      PROVE  /\ inspections' = inspections
             /\ \A b \in Stored : b \in Stored' /\ bookings'[b] = bookings[b]
  BY <1>2, CreateSaveRow DEF CreateSave, TypeOK, Stored
<1>3. ASSUME NEW b \in Stored, NEW row \in Booking,
             Keeps(bookings[b], row), bookings' = [bookings EXCEPT ![b] = row]
      PROVE  \A a \in Stored : a \in Stored' /\ Keeps(bookings[a], bookings'[a])
  BY <1>0, <1>3, BookingsAssumption DEF TypeOK, Stored, Keeps
<1>4. ASSUME NEW r \in Requests, CancelSave(r)
      PROVE  /\ inspections' = inspections
             /\ \A b \in Stored : b \in Stored' /\ Keeps(bookings[b], bookings'[b])
  <2> DEFINE b == req[r].booking
             u == req[r].by
             row == [bookings[b] EXCEPT !.status = "Cancelled", !.cancelledAt = Recorded]
  <2>1. /\ b \in Stored
        /\ u \in Users
        /\ row \in Booking
        /\ bookings' = [bookings EXCEPT ![b] = row]
    BY <1>4, CancelSaveRow
  <2>2. Keeps(bookings[b], row)
    BY <2>1, <1>0, BookingsAssumption DEF Keeps, Booking
  <2> QED
    BY <1>3, <1>4, <2>1, <2>2 DEF CancelSave
<1>5. ASSUME NEW r \in Requests, StartSave(r)
      PROVE  /\ inspections \subseteq inspections'
             /\ \A b \in Stored : b \in Stored' /\ Keeps(bookings[b], bookings'[b])
  <2> DEFINE b == req[r].booking
  <2>1. PICK i \in InspectionIds :
          LET row == [bookings[b] EXCEPT !.status = "InProgress", !.pickup = i]
              n == [id |-> i, booking |-> b, type |-> "Pickup"]
          IN  /\ row \in Booking
              /\ n \in Inspection \ inspections
              /\ bookings' = [bookings EXCEPT ![b] = row]
              /\ inspections' = inspections \cup {n}
    BY <1>5, StartSaveRow
  <2> DEFINE row == [bookings[b] EXCEPT !.status = "InProgress", !.pickup = i]
  <2>2. b \in Stored /\ Keeps(bookings[b], row)
    BY <1>5, StartSaveRow, BookingsAssumption DEF Keeps, Booking
  <2> QED
    BY <1>3, <2>1, <2>2
<1>6. ASSUME NEW r \in Requests, EndSave(r)
      PROVE  /\ inspections \subseteq inspections'
             /\ \A b \in Stored : b \in Stored' /\ Keeps(bookings[b], bookings'[b])
  <2> DEFINE b == req[r].booking
  <2>1. PICK i \in InspectionIds :
          LET row == [bookings[b] EXCEPT !.status = "Completed", !.return = i]
              n == [id |-> i, booking |-> b, type |-> "Return"]
          IN  /\ row \in Booking
              /\ n \in Inspection \ inspections
              /\ bookings' = [bookings EXCEPT ![b] = row]
              /\ inspections' = inspections \cup {n}
    BY <1>6, EndSaveRow
  <2> DEFINE row == [bookings[b] EXCEPT !.status = "Completed", !.return = i]
  <2>2. b \in Stored /\ Keeps(bookings[b], row)
    BY <1>6, EndSaveRow, BookingsAssumption DEF Keeps, Booking
  <2> QED
    BY <1>3, <2>1, <2>2
<1>7. \/ bookings' = bookings /\ inspections' = inspections
      \/ \E r \in Requests : CreateSave(r) \/ CancelSave(r) \/ StartSave(r) \/ EndSave(r)
  BY DEF Next, vars, CreateCheck, CancelLoad, StartLoad, EndLoad, Notify, Abort
<1> QED
  BY <1>1, <1>2, <1>4, <1>5, <1>6, <1>7 DEF Keeps

(* Once true, a notification's cause stays true. *)
LEMMA CauseStays ==
    ASSUME TypeInv, [Next]_vars,
           NEW kind \in NoticeKind, NEW b, NEW u, Cause(kind, b, u)
    PROVE  Cause(kind, b, u)'
  BY RowsKept DEF Cause, Keeps, NoticeKind

(* Every notification a request has still to send or to save has its cause.  *)
Due(r) ==
    /\ req[r].to # {}
    /\ \A u \in req[r].to \cup req[r].unsaved : Cause(req[r].kind, req[r].booking, u)

(* What the requests in flight carry: an EndTrip has seen a trip under way,  *)
(* and a notification loop only what has happened.                          *)
Justified ==
    \A r \in Requests :
        /\ req[r].op = "end" => bookings[req[r].booking].pickup # None
        /\ req[r].op = "notify" => Due(r)

EvidenceInv == TypeInv /\ EvidenceBacksStatus /\ NoticeHasCause /\ Justified

LEMMA EvidenceStep ==
    ASSUME EvidenceInv, [Next]_vars
    PROVE  EvidenceBacksStatus'
<1> USE DEF EvidenceInv
<1> SUFFICES ASSUME NEW b \in Stored' PROVE RowBacked(b)'
  BY DEF EvidenceBacksStatus
<1>1. b \in BookingIds /\ inspections \subseteq inspections'
  BY RowsKept DEF Stored
<1>2. ASSUME b \in Stored, bookings'[b] = bookings[b] PROVE RowBacked(b)'
  BY <1>1, <1>2 DEF EvidenceBacksStatus, RowBacked, RefersTo
<1>3. ASSUME NEW a \in Stored, NEW row \in Booking, b # a,
             bookings' = [bookings EXCEPT ![a] = row]
      PROVE  RowBacked(b)'
  BY <1>1, <1>2, <1>3 DEF TypeInv, TypeOK, Stored
<1>4. ASSUME NEW row \in Booking, NEW a \in Stored, b = a,
             bookings' = [bookings EXCEPT ![a] = row]
      PROVE  b \in Stored /\ bookings'[b] = row /\ RowBacked(b)
  BY <1>1, <1>4 DEF TypeInv, TypeOK, EvidenceBacksStatus
<1>5. ASSUME NEW r \in Requests, CreateSave(r) PROVE RowBacked(b)'
  <2>1. PICK a \in BookingIds \ Stored :
          bookings' = [bookings EXCEPT ![a] = NewBooking(req[r])]
    BY <1>5, CreateSaveRow
  <2>2. CASE b = a
    <3>1. bookings'[b] = NewBooking(req[r])
      BY <1>1, <2>1, <2>2 DEF TypeInv, TypeOK
    <3> QED
      BY <3>1 DEF RowBacked, RefersTo, NewBooking
  <2>3. CASE b # a
    BY <1>1, <1>2, <2>1, <2>3 DEF TypeInv, TypeOK, Stored
  <2> QED
    BY <2>2, <2>3
<1>6. ASSUME NEW r \in Requests, CancelSave(r) PROVE RowBacked(b)'
  <2> DEFINE a == req[r].booking
             u == req[r].by
             row == [bookings[a] EXCEPT !.status = "Cancelled", !.cancelledAt = Recorded]
  <2>1. /\ a \in Stored
        /\ u \in Users
        /\ bookings[a] \in Booking
        /\ row \in Booking
        /\ bookings' = [bookings EXCEPT ![a] = row]
    BY <1>6, CancelSaveRow
  <2>2. /\ row.status = "Cancelled"
        /\ row.cancelledAt # None
        /\ row.pickup = bookings[a].pickup
        /\ row.return = bookings[a].return
    BY <2>1, BookingsAssumption DEF Booking
  <2>3. CASE b = a
    BY <1>1, <1>4, <2>1, <2>2, <2>3 DEF RowBacked, RefersTo
  <2> QED
    BY <1>3, <2>1, <2>3
<1>7. ASSUME NEW r \in Requests, StartSave(r) PROVE RowBacked(b)'
  <2> DEFINE a == req[r].booking
  <2>1. a \in Stored /\ bookings[a] \in Booking
    BY <1>7, StartSaveRow
  <2>2. PICK i \in InspectionIds :
          LET row == [bookings[a] EXCEPT !.status = "InProgress", !.pickup = i]
              n == [id |-> i, booking |-> a, type |-> "Pickup"]
          IN  /\ row \in Booking
              /\ bookings' = [bookings EXCEPT ![a] = row]
              /\ inspections' = inspections \cup {n}
    BY <1>7, StartSaveRow
  <2> DEFINE row == [bookings[a] EXCEPT !.status = "InProgress", !.pickup = i]
  <2>3. /\ row.status = "InProgress"
        /\ row.pickup = i
        /\ row.return = bookings[a].return
        /\ i # None
    BY <2>1, BookingsAssumption DEF Booking
  <2>4. CASE b = a
    <3>1. bookings'[b] = row /\ RowBacked(b)
      BY <1>4, <2>1, <2>2, <2>4
    <3>2. [id |-> i, booking |-> b, type |-> "Pickup"] \in inspections'
      BY <2>2, <2>4
    <3> HIDE DEF row
    <3> QED
      BY <1>1, <2>3, <2>4, <3>1, <3>2 DEF RowBacked, RefersTo
  <2> QED
    BY <1>3, <2>1, <2>2, <2>4
<1>8. ASSUME NEW r \in Requests, EndSave(r) PROVE RowBacked(b)'
  <2> DEFINE a == req[r].booking
  <2>1. a \in Stored /\ bookings[a] \in Booking
    BY <1>8, EndSaveRow
  <2>2. PICK i \in InspectionIds :
          LET row == [bookings[a] EXCEPT !.status = "Completed", !.return = i]
              n == [id |-> i, booking |-> a, type |-> "Return"]
          IN  /\ row \in Booking
              /\ bookings' = [bookings EXCEPT ![a] = row]
              /\ inspections' = inspections \cup {n}
    BY <1>8, EndSaveRow
  <2> DEFINE row == [bookings[a] EXCEPT !.status = "Completed", !.return = i]
  <2>3. /\ row.status = "Completed"
        /\ row.return = i
        /\ row.pickup = bookings[a].pickup
        /\ i # None
    BY <2>1, BookingsAssumption DEF Booking
  <2>4. bookings[a].pickup # None
    BY <1>8 DEF EndSave, Justified
  <2>5. CASE b = a
    <3>1. bookings'[b] = row /\ RowBacked(b)
      BY <1>4, <2>1, <2>2, <2>5
    <3>2. [id |-> i, booking |-> b, type |-> "Return"] \in inspections'
      BY <2>2, <2>5
    <3> HIDE DEF row
    <3> QED
      BY <1>1, <2>3, <2>4, <2>5, <3>1, <3>2 DEF RowBacked, RefersTo
  <2> QED
    BY <1>3, <2>1, <2>2, <2>5
<1>9. CASE bookings' = bookings
  BY <1>2, <1>9 DEF Stored
<1> QED
  BY <1>5, <1>6, <1>7, <1>8, <1>9
  DEF Next, vars, CreateCheck, CancelLoad, StartLoad, EndLoad, Notify, Abort

(* The recipient a notification loop turns to is one it still has to tell. *)
LEMMA RecipientIsDue ==
    ASSUME TypeInv, Justified, NEW r \in Requests, Notify(r)
    PROVE  req[r] \in NotifyLocals /\ NextRecipient(req[r]) \in req[r].to
<1> DEFINE q == req[r]
<1>1. q \in NotifyLocals
  BY LocalsByOp DEF Notify, TypeInv, TypeOK
<1>2. q.to # {} /\ \A u \in q.to : Cause(q.kind, q.booking, u)
  BY DEF Notify, Justified, Due
<1>3. \A u \in q.to : u \in {bookings[q.booking].renter, bookings[q.booking].owner}
  BY <1>1, <1>2 DEF Cause, NotifyLocals, NoticeKind
<1> QED
  BY <1>1, <1>2, <1>3 DEF NextRecipient

LEMMA NoticeStep ==
    ASSUME EvidenceInv, [Next]_vars
    PROVE  NoticeHasCause'
<1> USE DEF EvidenceInv
<1> SUFFICES ASSUME NEW n \in notices' PROVE Cause(n.kind, n.booking, n.to)'
  BY DEF NoticeHasCause
<1>1. CASE n \in notices
  <2>1. n.kind \in NoticeKind /\ Cause(n.kind, n.booking, n.to)
    BY <1>1 DEF TypeInv, TypeOK, Notice, NoticeHasCause
  <2> QED
    BY <2>1, CauseStays
<1>2. CASE n \notin notices
  <2>1. PICK r \in Requests : Notify(r)
    BY <1>2
    DEF Next, vars, CreateCheck, CreateSave, CancelLoad, CancelSave, StartLoad, StartSave,
        EndLoad, EndSave, Abort
  <2> DEFINE q == req[r]
             u == NextRecipient(q)
  <2>2. q \in NotifyLocals
    BY <2>1, RecipientIsDue
  <2>3. u \in q.to
    BY <2>1, RecipientIsDue
  <2>4. n \in ToSend(q, q.unsaved \cup {u})
    BY <1>2, <2>1 DEF Notify
  <2>5. n.kind = q.kind /\ n.booking = q.booking /\ n.to \in q.to \cup q.unsaved
    BY <2>3, <2>4 DEF ToSend
  <2>6. q.kind \in NoticeKind /\ Cause(q.kind, q.booking, n.to)
    BY <2>1, <2>2, <2>5 DEF Notify, Justified, Due, NotifyLocals
  <2> QED
    BY <2>5, <2>6, CauseStays
<1> QED
  BY <1>1, <1>2

(* A save announces what it has just made true. *)
LEMMA AnnouncedCause ==
    ASSUME TypeInv, NEW r \in Requests,
           CreateSave(r) \/ CancelSave(r) \/ StartSave(r) \/ EndSave(r)
    PROVE  req'[r].op = "notify" /\ Due(r)'
<1> USE DEF TypeInv
<1>1. CASE CreateSave(r)
  <2>1. PICK b \in BookingIds \ Stored :
          /\ NewBooking(req[r]) \in Booking
          /\ bookings' = [bookings EXCEPT ![b] = NewBooking(req[r])]
          /\ Announce(r, "BookingRequested", b, {OwnerOf[req[r].car]})
    BY <1>1, CreateSaveRow
  <2>2. bookings'[b] = NewBooking(req[r])
    BY <2>1 DEF TypeOK
  <2>3. bookings'[b] # None /\ bookings'[b].owner = OwnerOf[req[r].car]
    BY <2>1, <2>2, BookingsAssumption DEF NewBooking
  <2> QED
    BY <2>1, <2>3 DEF Due, Announce, TypeOK, Cause, Stored
<1>2. CASE CancelSave(r)
  <2> DEFINE b == req[r].booking
             u == req[r].by
             row == [bookings[b] EXCEPT !.status = "Cancelled", !.cancelledAt = Recorded]
             to == CancelRecipients(bookings[b], u)
  <2>1. /\ b \in Stored
        /\ u \in Users
        /\ bookings[b] \in Booking
        /\ row \in Booking
        /\ bookings' = [bookings EXCEPT ![b] = row]
        /\ to \subseteq {row.renter, row.owner}
        /\ to # {}
    BY <1>2, CancelSaveRow
  <2>2. /\ b \in BookingIds
        /\ bookings'[b] = row
        /\ row # None
        /\ row.cancelledAt # None
    BY <2>1, BookingsAssumption DEF TypeOK, Stored, Booking
  <2>3. Announce(r, "BookingCancelled", b, to)
    BY <1>2 DEF CancelSave
  <2> HIDE DEF row, to
  <2> QED
    BY <2>1, <2>2, <2>3 DEF Due, Announce, TypeOK, Cause, Stored
<1>3. CASE StartSave(r)
  <2> DEFINE b == req[r].booking
  <2>1. /\ b \in Stored
        /\ bookings[b] \in Booking
        /\ Announce(r, "TripStarted", b, {bookings[b].renter})
    BY <1>3, StartSaveRow DEF StartSave
  <2>2. PICK i \in InspectionIds :
          bookings' = [bookings EXCEPT ![b] =
                         [bookings[b] EXCEPT !.status = "InProgress", !.pickup = i]]
    BY <1>3, StartSaveRow
  <2>3. /\ b \in Stored'
        /\ bookings'[b].renter = bookings[b].renter
        /\ bookings'[b].pickup # None
    BY <2>1, <2>2, BookingsAssumption, StartSaveRow, <1>3, ZenonT(30) DEF TypeOK, Stored, Booking
  <2> QED
    BY <2>1, <2>3 DEF Due, Announce, TypeOK, Cause
<1>4. CASE EndSave(r)
  <2> DEFINE b == req[r].booking
  <2>1. /\ b \in Stored
        /\ bookings[b] \in Booking
        /\ Announce(r, "TripEnded", b, {bookings[b].renter})
    BY <1>4, EndSaveRow DEF EndSave
  <2>2. PICK i \in InspectionIds :
          bookings' = [bookings EXCEPT ![b] =
                         [bookings[b] EXCEPT !.status = "Completed", !.return = i]]
    BY <1>4, EndSaveRow
  <2>3. /\ b \in Stored'
        /\ bookings'[b].renter = bookings[b].renter
        /\ bookings'[b].return # None
    BY <2>1, <2>2, BookingsAssumption, EndSaveRow, <1>4 DEF TypeOK, Stored, Booking
  <2> QED
    BY <2>1, <2>3 DEF Due, Announce, TypeOK, Cause
<1> QED
  BY <1>1, <1>2, <1>3, <1>4

LEMMA JustifiedStep ==
    ASSUME EvidenceInv, [Next]_vars
    PROVE  Justified'
<1> USE DEF EvidenceInv
<1> SUFFICES ASSUME NEW p \in Requests
             PROVE  /\ req'[p].op = "end" => bookings'[req'[p].booking].pickup # None
                    /\ req'[p].op = "notify" => Due(p)'
  BY DEF Justified
<1>1. CASE req'[p] = req[p]
  <2>1. ASSUME req[p].op = "end" PROVE bookings'[req[p].booking].pickup # None
    <3>1. req[p].booking \in Stored /\ bookings[req[p].booking].pickup # None
      BY <2>1 DEF TypeInv, Linked, Justified
    <3> QED
      BY <3>1, RowsKept DEF Keeps
  <2>2. ASSUME req[p].op = "notify" PROVE Due(p)'
    <3>1. Due(p) /\ req[p].kind \in NoticeKind
      BY <2>2, LocalsByOp DEF Justified, TypeInv, TypeOK, NotifyLocals
    <3> QED
      BY <1>1, <3>1, CauseStays DEF Due
  <2> QED
    BY <1>1, <2>1, <2>2
<1>2. ASSUME NEW r \in Requests, p # r, Step(r) PROVE req'[p] = req[p]
  BY <1>2, OthersKept
<1>3. CASE CreateSave(p) \/ CancelSave(p) \/ StartSave(p) \/ EndSave(p)
  BY <1>3, AnnouncedCause
<1>4. CASE CreateCheck(p) \/ CancelLoad(p) \/ StartLoad(p) \/ Abort(p)
  <2>1. req'[p].op \notin {"end", "notify"}
    BY <1>4 DEF CreateCheck, CancelLoad, StartLoad, Abort, Idle, TypeInv, TypeOK
  <2> QED
    BY <2>1
<1>5. CASE EndLoad(p)
  <2>1. PICK b \in Stored :
          /\ bookings[b].status = "InProgress"
          /\ req'[p] = [op |-> "end", booking |-> b,
                        trips |-> totalTrips[bookings[b].car]]
          /\ bookings' = bookings
    BY <1>5 DEF EndLoad, Sees, TypeInv, TypeOK
  <2>2. bookings[b].pickup # None
    BY <2>1 DEF EvidenceBacksStatus, RowBacked
  <2> QED
    BY <2>1, <2>2
<1>6. CASE Notify(p)
  <2> DEFINE q == req[p]
             u == NextRecipient(q)
  <2>1. q \in NotifyLocals /\ u \in q.to
    BY <1>6, RecipientIsDue
  <2>2. q.op = "notify" /\ Due(p) /\ q.kind \in NoticeKind
    BY <1>6, <2>1 DEF Notify, Justified, NotifyLocals
  <2>3. PICK us \in SUBSET (q.unsaved \cup {u}) :
          req'[p] = IF q.to = {u} THEN Idle
                    ELSE [q EXCEPT !.to = @ \ {u}, !.unsaved = us]
    BY <1>6 DEF Notify, TypeInv, TypeOK
  <2>4. CASE q.to = {u}
    BY <2>3, <2>4 DEF Idle
  <2>5. CASE q.to # {u}
    <3>1. /\ req'[p].op = "notify"
          /\ req'[p].kind = q.kind
          /\ req'[p].booking = q.booking
          /\ req'[p].to = q.to \ {u}
          /\ req'[p].unsaved = us
      BY <2>1, <2>3, <2>5 DEF NotifyLocals
    <3>2. req'[p].to # {}
      BY <2>1, <2>5, <3>1
    <3>3. PICK k \in NoticeKind, b \in BookingIds : k = q.kind /\ b = q.booking
      BY <2>1, <2>2 DEF NotifyLocals
    <3>4. ASSUME NEW v \in req'[p].to \cup req'[p].unsaved PROVE Cause(k, b, v)'
      <4>1. Cause(k, b, v)
        BY <2>1, <2>2, <2>3, <3>1, <3>3 DEF Due
      <4> QED
        BY <4>1, CauseStays
    <3>5. req'[p].kind = k /\ req'[p].booking = b
      BY <3>1, <3>3
    <3> QED
      BY <3>1, <3>2, <3>4, <3>5 DEF Due
  <2> QED
    BY <2>4, <2>5
<1>7. CASE UNCHANGED vars
  BY <1>1, <1>7 DEF vars
<1> QED
  BY <1>1, <1>2, <1>3, <1>4, <1>5, <1>6, <1>7 DEF Next, Step

LEMMA InitEvidence == Init => EvidenceInv
<1> SUFFICES ASSUME Init PROVE EvidenceInv
  OBVIOUS
<1>1. TypeInv
  BY InitTypeInv
<1>2. EvidenceBacksStatus /\ NoticeHasCause
  BY DEF Init, EvidenceBacksStatus, NoticeHasCause, Stored
<1>3. Justified
  BY DEF Init, Justified, Idle
<1> QED
  BY <1>1, <1>2, <1>3 DEF EvidenceInv

LEMMA EvidenceInvariant == Spec => []EvidenceInv
<1>1. EvidenceInv /\ [Next]_vars => EvidenceInv'
  <2> SUFFICES ASSUME EvidenceInv, [Next]_vars PROVE EvidenceInv'
    OBVIOUS
  <2>1. TypeInv'
    BY NextTypeInv DEF EvidenceInv
  <2> QED
    BY <2>1, EvidenceStep, NoticeStep, JustifiedStep DEF EvidenceInv
<1> QED
  BY <1>1, InitEvidence, PTL DEF Spec

(* Whatever the interleaving of creates, cancels, starts and ends, a booking's *)
(* status is backed by its inspections and its cancellation.  EndTrip adds a  *)
(* return inspection to a row it has seen InProgress; the row it writes may   *)
(* have changed, but no handler ever takes the pickup inspection away.       *)
THEOREM StatusIsBacked == Spec => []EvidenceBacksStatus
<1>1. EvidenceInv => EvidenceBacksStatus
  BY DEF EvidenceInv
<1> QED
  BY <1>1, EvidenceInvariant, PTL

(* A stored notification about a booking names one of its parties and an      *)
(* event the booking row records, also when a failed notification was saved   *)
(* by a later one of the same request.                                       *)
THEOREM NoticesAreTrue == Spec => []NoticeHasCause
<1>1. EvidenceInv => NoticeHasCause
  BY DEF EvidenceInv
<1> QED
  BY <1>1, EvidenceInvariant, PTL

-----------------------------------------------------------------------------
(* The trip counter *)

(* The count an EndTrip has read was never above the return inspections.     *)
SeenTrips ==
    \A r \in Requests :
        req[r].op = "end" =>
            req[r].trips <= Cardinality(ReturnsOf(bookings[req[r].booking].car))

CountInv == TypeInv /\ IsFiniteSet(inspections) /\ TripCountBounded /\ SeenTrips

LEMMA ReturnsFinite ==
    ASSUME IsFiniteSet(inspections), NEW c
    PROVE  IsFiniteSet(ReturnsOf(c)) /\ Cardinality(ReturnsOf(c)) \in Nat
<1>1. ReturnsOf(c) \subseteq inspections
  BY DEF ReturnsOf
<1> QED
  BY <1>1, FS_Subset, FS_CardinalityType

(* Only EndTrip's save adds a return inspection, and only to the car whose    *)
(* counter it writes.                                                        *)
LEMMA ReturnsUnchanged ==
    ASSUME TypeInv, [Next]_vars, NEW c \in Cars,
           \A r \in Requests : EndSave(r) => bookings[req[r].booking].car # c
    PROVE  ReturnsOf(c)' = ReturnsOf(c) /\ totalTrips'[c] = totalTrips[c]
<1> USE DEF TypeInv
<1>1. \A n \in inspections : n \in inspections' /\ bookings'[n.booking].car = bookings[n.booking].car
  BY RowsKept DEF Linked, Keeps
<1>2. CASE inspections' = inspections /\ totalTrips' = totalTrips
  BY <1>1, <1>2 DEF ReturnsOf
<1>3. ASSUME NEW r \in Requests, StartSave(r) PROVE ReturnsOf(c)' = ReturnsOf(c)
  <2>1. PICK n : n.type = "Pickup" /\ inspections' = inspections \cup {n}
    BY <1>3 DEF StartSave
  <2> QED
    BY <1>1, <2>1 DEF ReturnsOf
<1>4. ASSUME NEW r \in Requests, EndSave(r)
      PROVE  ReturnsOf(c)' = ReturnsOf(c) /\ totalTrips'[c] = totalTrips[c]
  <2> DEFINE b == req[r].booking
  <2>1. /\ b \in Stored
        /\ bookings[b].car # c
        /\ totalTrips' = [totalTrips EXCEPT ![bookings[b].car] = req[r].trips + 1]
    BY <1>4, EndSaveRow
  <2>2. PICK n : n.booking = b /\ inspections' = inspections \cup {n}
    BY <1>4 DEF EndSave
  <2>3. bookings'[b].car # c
    BY <2>1, RowsKept DEF Keeps
  <2> QED
    BY <1>1, <2>1, <2>2, <2>3 DEF ReturnsOf, TypeOK
<1> QED
  BY <1>2, <1>3, <1>4
  DEF Next, vars, CreateCheck, CreateSave, CancelLoad, CancelSave, StartLoad, StartSave,
      EndLoad, Notify, Abort

LEMMA ReturnsAdded ==
    ASSUME TypeInv, [Next]_vars, IsFiniteSet(inspections),
           NEW r \in Requests, EndSave(r),
           NEW c \in Cars, c = bookings[req[r].booking].car
    PROVE  /\ req[r].trips \in Nat
           /\ totalTrips'[c] = req[r].trips + 1
           /\ ReturnsOf(c)' # {}
           /\ Cardinality(ReturnsOf(c)') = Cardinality(ReturnsOf(c)) + 1
<1> USE DEF TypeInv
<1> DEFINE b == req[r].booking
<1>1. /\ b \in Stored
      /\ req[r] \in EndLocals
      /\ totalTrips' = [totalTrips EXCEPT ![c] = req[r].trips + 1]
  BY EndSaveRow
<1>2. PICK i \in InspectionIds :
        LET n == [id |-> i, booking |-> b, type |-> "Return"]
        IN  n \notin inspections /\ inspections' = inspections \cup {n}
  BY EndSaveRow
<1> DEFINE n == [id |-> i, booking |-> b, type |-> "Return"]
<1>3. n.booking = b /\ n.type = "Return"
  OBVIOUS
<1>4. \A m \in inspections : bookings'[m.booking].car = bookings[m.booking].car
  BY RowsKept DEF Linked, Keeps
<1>5. bookings'[b].car = c
  BY <1>1, RowsKept DEF Keeps
<1>6. n \notin inspections /\ inspections' = inspections \cup {n}
  BY <1>2
<1> HIDE DEF n
<1>7. ReturnsOf(c)' = ReturnsOf(c) \cup {n} /\ n \notin ReturnsOf(c)
  BY <1>3, <1>4, <1>5, <1>6 DEF ReturnsOf
<1>8. Cardinality(ReturnsOf(c) \cup {n}) = Cardinality(ReturnsOf(c)) + 1
  BY <1>7, ReturnsFinite, FS_AddElement
<1>9. req[r].trips \in Nat /\ totalTrips'[c] = req[r].trips + 1
  BY <1>1 DEF EndLocals, TypeOK
<1> QED
  BY <1>7, <1>8, <1>9

LEMMA CountStep == CountInv /\ [Next]_vars => CountInv'
<1> SUFFICES ASSUME CountInv, [Next]_vars PROVE CountInv'
  OBVIOUS
<1> USE DEF CountInv
<1>1. TypeInv'
  BY NextTypeInv
<1>2. IsFiniteSet(inspections')
  <2>1. ASSUME NEW n PROVE IsFiniteSet(inspections \cup {n})
    BY FS_AddElement
  <2> QED
    BY <2>1, ZenonT(30)
    DEF Next, vars, CreateCheck, CreateSave, CancelLoad, CancelSave, StartLoad, StartSave,
        EndLoad, EndSave, Notify, Abort
<1>3. ASSUME NEW c \in Cars
      PROVE  /\ totalTrips'[c] <= Cardinality(ReturnsOf(c)')
             /\ totalTrips'[c] = 0 <=> ReturnsOf(c)' = {}
             /\ Cardinality(ReturnsOf(c)) <= Cardinality(ReturnsOf(c)')
  <2>1. Cardinality(ReturnsOf(c)) \in Nat
    BY ReturnsFinite
  <2>2. CASE \E r \in Requests : EndSave(r) /\ c = bookings[req[r].booking].car
    <3>1. PICK r \in Requests : EndSave(r) /\ c = bookings[req[r].booking].car
      BY <2>2
    <3>2. req[r].trips <= Cardinality(ReturnsOf(c))
      BY <3>1 DEF SeenTrips, EndSave
    <3>3. /\ req[r].trips \in Nat
          /\ totalTrips'[c] = req[r].trips + 1
          /\ ReturnsOf(c)' # {}
          /\ Cardinality(ReturnsOf(c)') = Cardinality(ReturnsOf(c)) + 1
      BY <3>1, ReturnsAdded
    <3> QED
      BY <2>1, <3>2, <3>3
  <2>3. CASE \A r \in Requests : EndSave(r) => bookings[req[r].booking].car # c
    BY <2>1, <2>3, ReturnsUnchanged DEF TripCountBounded
  <2> QED
    BY <2>2, <2>3
<1>4. TripCountBounded'
  BY <1>3 DEF TripCountBounded
<1>5. SeenTrips'
  <2> SUFFICES ASSUME NEW p \in Requests, req'[p].op = "end",
                      NEW c, c = bookings'[req'[p].booking].car
               PROVE  req'[p].trips <= Cardinality(ReturnsOf(c)')
    BY DEF SeenTrips, ReturnsOf
  <2>1. CASE req'[p] = req[p]
    <3>1. /\ req[p] \in EndLocals
          /\ req[p].booking \in Stored
          /\ req[p].trips <= Cardinality(ReturnsOf(bookings[req[p].booking].car))
      BY <2>1, LocalsByOp DEF TypeInv, TypeOK, Linked, SeenTrips
    <3>2. /\ c = bookings[req[p].booking].car
          /\ c \in Cars
      BY <2>1, <3>1, RowsKept DEF Keeps, TypeInv, TypeOK, Stored, Booking
    <3>3. req[p].trips \in Nat /\ Cardinality(ReturnsOf(c)) \in Nat
      BY <3>1, ReturnsFinite DEF EndLocals
    <3>4. Cardinality(ReturnsOf(c)') \in Nat
      <4>1. ReturnsOf(c)' \subseteq inspections'
        BY DEF ReturnsOf
      <4> QED
        BY <1>2, <4>1, FS_Subset, FS_CardinalityType
    <3> QED
      BY <1>3, <2>1, <3>1, <3>2, <3>3, <3>4
  <2>2. CASE EndLoad(p)
    <3>1. PICK b \in Stored :
            /\ req'[p] = [op |-> "end", booking |-> b,
                          trips |-> totalTrips[bookings[b].car]]
            /\ bookings' = bookings /\ inspections' = inspections
      BY <2>2 DEF EndLoad, Sees, TypeInv, TypeOK
    <3>2. c = bookings[b].car /\ c \in Cars
      BY <3>1 DEF TypeInv, TypeOK, Stored, Booking
    <3>3. totalTrips[c] <= Cardinality(ReturnsOf(c)) /\ ReturnsOf(c)' = ReturnsOf(c)
      BY <3>1, <3>2 DEF TripCountBounded, ReturnsOf
    <3> QED
      BY <3>1, <3>2, <3>3
  <2>3. req'[p] = req[p] \/ EndLoad(p)
    <3>1. ASSUME NEW r \in Requests, p # r, Step(r) PROVE req'[p] = req[p]
      BY <3>1, OthersKept
    <3>2. CASE CreateSave(p) \/ CancelSave(p) \/ StartSave(p) \/ EndSave(p)
                 \/ Notify(p) \/ Abort(p)
      BY <3>2, AfterSave
    <3>3. CASE CreateCheck(p) \/ CancelLoad(p) \/ StartLoad(p)
      BY <3>3 DEF CreateCheck, CancelLoad, StartLoad, TypeInv, TypeOK
    <3>4. CASE UNCHANGED vars
      BY <3>4 DEF vars
    <3> QED
      BY <3>1, <3>2, <3>3, <3>4 DEF Next, Step
  <2> QED
    BY <2>1, <2>2, <2>3
<1> QED
  BY <1>1, <1>2, <1>4, <1>5

(* EndTrip increments Car.TotalTrips from a value it read earlier, so trips    *)
(* of one car that end together are counted once; but no interleaving makes   *)
(* the counter exceed the return inspections made for the car, or leaves it   *)
(* at zero once there is one.                                                *)
THEOREM TripCountIsBounded == Spec => []TripCountBounded
<1>1. Init => CountInv
  <2> SUFFICES ASSUME Init PROVE CountInv
    OBVIOUS
  <2>1. TypeInv
    BY InitTypeInv
  <2>2. IsFiniteSet(inspections)
    BY FS_EmptySet DEF Init
  <2>3. TripCountBounded
    BY FS_EmptySet DEF Init, TripCountBounded, ReturnsOf
  <2>4. SeenTrips
    BY DEF Init, SeenTrips, Idle
  <2> QED
    BY <2>1, <2>2, <2>3, <2>4 DEF CountInv
<1>2. CountInv => TripCountBounded
  BY DEF CountInv
<1> QED
  BY <1>1, <1>2, CountStep, PTL DEF Spec

=============================================================================

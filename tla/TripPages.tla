------------------------------ MODULE TripPages ------------------------------
(***************************************************************************)
(* The pages a booking is handled from: the owner's list (inbox, dashboard) *)
(* and inspection form, open on several phones, and the booking page with   *)
(* its cancel dialog and its review form.  Each acts on what it loaded; the *)
(* server decides on what is stored.  One booking.                         *)
(***************************************************************************)
EXTENDS Integers, FiniteSets

CONSTANTS
    Phones,        \* where the owner's pages are open
    PickUpAt,      \* Booking.StartDate and EndDate, as instants in the owner's
    ReturnAt,      \*   zone; a day has DayLength of them
    DayLength,
    MaxClock,      \* bound: the last instant a list is looked at
    MaxMileage,    \* bound: odometers read 1 .. MaxMileage
    MaxCommands    \* bound: commands the server works on at once

ASSUME TripAssumption ==
    /\ {PickUpAt, ReturnAt, MaxClock, MaxMileage, MaxCommands} \subseteq Nat
    /\ DayLength \in Nat \ {0}
    /\ PickUpAt < ReturnAt
    /\ "detail" \notin Phones

VARIABLES
    row,           \* the booking as stored, and whether this viewer has reviewed it
    page,          \* each phone's page: a list, an inspection form, or neither
    detail,        \* the booking page
    commands,      \* commands the server has read for and not saved
    raced,         \* a command saved over a status other than the one it read
    unforeseen     \* what was refused to a page that was up to date

tripVars == <<row, page, detail, commands, raced, unforeseen>>

-----------------------------------------------------------------------------

Unread == 0      \* a mileage column that is null, a field that is empty
Reading == 0 .. MaxMileage

Status == {"Pending", "Confirmed", "InProgress", "Completed", "Cancelled"}

Stored == [status: Status, out: Reading, in: Reading, reviewed: BOOLEAN]

(* What a page keeps of the booking it read. *)
Held == [status: Status, out: Reading, in: Reading]
Copy == [status |-> row.status, out |-> row.out, in |-> row.in]

NoPage == [at |-> "none"]
List == [at: {"list"}, booking: Held]
Form == [at: {"form"}, booking: Held, mileage: Reading, submitting: BOOLEAN]

NoDetail == [open |-> FALSE]
Detail == [open: {TRUE}, viewer: {"renter", "owner"},
           status: Status, reloading: BOOLEAN, cancelling: BOOLEAN,
           reviews: {"none", "mine", "unknown"}, fetching: BOOLEAN, posting: BOOLEAN]

(* by: the page that sent it.  heard: that page is still waiting for the    *)
(* answer; a connection can fail while the server goes on working.          *)
Command == [op: {"start", "end", "cancel", "review"}, by: Phones \cup {"detail"},
            read: Status, mileage: Reading, heard: BOOLEAN]

Refusal == [op: {"open", "start", "end", "cancel", "review"}, viewer: {"renter", "owner"}]

TripTypeOK ==
    /\ row \in Stored
    /\ page \in [Phones -> {NoPage} \cup List \cup Form]
    /\ detail \in {NoDetail} \cup Detail
    /\ commands \subseteq Command /\ Cardinality(commands) <= MaxCommands
    /\ raced \in BOOLEAN
    /\ unforeseen \subseteq Refusal

TripInit ==
    /\ row = [status |-> "Pending", out |-> Unread, in |-> Unread, reviewed |-> FALSE]
    /\ page = [p \in Phones |-> NoPage]
    /\ detail = NoDetail
    /\ commands = {}
    /\ raced = FALSE
    /\ unforeseen = {}

-----------------------------------------------------------------------------
(* What the pages derive from a booking they hold.                          *)

inboxAction(s) ==
    CASE s \in {"Pending", "Confirmed"} -> "start"
      [] s = "InProgress" -> "end"
      [] OTHER -> "view"

INBOX_TABS ==
    [requests |-> {"Pending"}, upcoming |-> {"Confirmed"}, underway |-> {"InProgress"},
     finished |-> {"Completed", "Cancelled", "Disputed"}]

TRIP_TABS ==
    [upcoming |-> {"Pending", "Confirmed"}, active |-> {"InProgress"},
     past |-> {"Completed", "Cancelled", "Disputed"}]

inspectionModeFor(s) ==
    CASE s \in {"Pending", "Confirmed"} -> "pickup"
      [] s = "InProgress" -> "return"
      [] OTHER -> "none"

(* Mutant of canCancelBooking: a finished trip keeps its cancel control. *)
canCancelBookingToo(s) == s # "Cancelled"

canCancelBooking(s) == s \notin {"Completed", "Cancelled"}

canReviewBooking(s, reviewed) == s = "Completed" /\ ~reviewed

LocalDay(t) == t \div DayLength
isSameLocalDay(s, t) == LocalDay(s) = LocalDay(t)

(* Mutant of classifyAttention: a pick-up due earlier today counts as missed. *)
classifyAttentionByTheHour(b, now) ==
    CASE b.status = "InProgress" -> IF ReturnAt < now THEN "return-overdue" ELSE "none"
      [] b.status \in {"Pending", "Confirmed"} ->
            CASE PickUpAt < now -> "pickup-overdue"
              [] PickUpAt >= now /\ isSameLocalDay(PickUpAt, now) -> "pickup-today"
              [] OTHER -> IF b.status = "Pending" THEN "new-request" ELSE "none"
      [] OTHER -> "none"

classifyAttention(b, now) ==
    CASE b.status = "InProgress" -> IF ReturnAt < now THEN "return-overdue" ELSE "none"
      [] b.status \in {"Pending", "Confirmed"} ->
            CASE isSameLocalDay(PickUpAt, now) -> "pickup-today"
              [] LocalDay(PickUpAt) < LocalDay(now) -> "pickup-overdue"
              [] OTHER -> IF b.status = "Pending" THEN "new-request" ELSE "none"
      [] OTHER -> "none"

(* The booking's row of the attention list, if it has one. *)
buildAttentionList(b, now) ==
    LET kind == classifyAttention(b, now) IN
    {r \in {[kind |-> kind, at |-> IF kind = "return-overdue" THEN ReturnAt ELSE PickUpAt]} :
        kind # "none"}

(* Where such a row leads. *)
AttentionRow(b) == IF inboxAction(b.status) = "view" THEN "list" ELSE "form"

(* The tiles this booking is counted in. *)
ownerStats(b, now) ==
    [newRequests |-> b.status = "Pending",
     tripsUnderWay |-> b.status = "InProgress",
     pickupsToday |-> isSameLocalDay(PickUpAt, now) /\ b.status \in {"Pending", "Confirmed"}]

(* ActualPickupDateTime is written with the start mileage, and               *)
(* ActualReturnDateTime with the end mileage.                               *)
todayTimeline(b, now) ==
    {e \in {[type |-> "pickup", at |-> PickUpAt, done |-> b.out # Unread],
            [type |-> "return", at |-> ReturnAt, done |-> b.in # Unread]} :
        b.status # "Cancelled" /\ isSameLocalDay(e.at, now)}

(* The hand-overs of today that are not ticked off. *)
TodayTimeline(b, now) == {e.type : e \in {d \in todayTimeline(b, now) : ~d.done}}

(* The tabs of a page that list a booking. *)
TabsOf(tabs, s) == {t \in DOMAIN tabs : s \in tabs[t]}

-----------------------------------------------------------------------------
(* The server: a command reads the booking, and saves later.                *)

(* The statuses each handler lets through. *)
Accepts(op) ==
    CASE op = "start" -> {"Pending", "Confirmed"}
      [] op = "end" -> {"InProgress"}
      [] op = "cancel" -> {"Pending", "Confirmed", "InProgress", "Disputed"}
      [] op = "review" -> {"Completed"}

Admitted(op, viewer) ==
    /\ row.status \in Accepts(op)
    /\ op = "cancel" => viewer # "owner"     \* [Authorize(Roles = "Renter,Admin,Staff")]
    /\ op = "review" => ~row.reviewed

Receive(op, by, mileage) ==
    /\ Cardinality(commands) < MaxCommands
    /\ commands' = commands \cup {[op |-> op, by |-> by, read |-> row.status,
                                   mileage |-> mileage, heard |-> TRUE]}
    /\ UNCHANGED unforeseen

Refuse(op, viewer, stale) ==
    /\ unforeseen' = IF stale THEN unforeseen
                     ELSE unforeseen \cup {[op |-> op, viewer |-> viewer]}
    /\ UNCHANGED commands

Wrote(c) ==
    CASE c.op = "start" -> [row EXCEPT !.out = c.mileage, !.status = "InProgress"]
      [] c.op = "end" -> [row EXCEPT !.in = c.mileage, !.status = "Completed"]
      [] c.op = "cancel" -> [row EXCEPT !.status = "Cancelled"]
      [] c.op = "review" -> [row EXCEPT !.reviewed = TRUE]

(* Mutant of CancelSettled: the page is not asked to read the booking again. *)
CancelSettledQuietly(ok) == [detail EXCEPT !.cancelling = ok]

(* On success the dialog is left `submitting`: the reload is expected to     *)
(* take it off the page.                                                    *)
CancelSettled(ok) == [detail EXCEPT !.cancelling = ok, !.reloading = ok]

(* A recorded hand-over turns the form into the photo step, which CarPhotos   *)
(* has; a review posted has the list of reviews read again.                 *)
Settle(c, ok) ==
    IF ~c.heard THEN UNCHANGED <<page, detail>>
    ELSE CASE c.op \in {"start", "end"} ->
                 /\ page' = [page EXCEPT ![c.by] =
                               IF ok THEN NoPage ELSE [@ EXCEPT !.submitting = FALSE]]
                 /\ UNCHANGED detail
           [] c.op = "cancel" -> detail' = CancelSettled(ok) /\ UNCHANGED page
           [] c.op = "review" ->
                 /\ detail' = [detail EXCEPT !.posting = FALSE, !.fetching = @ \/ ok]
                 /\ UNCHANGED page

Save(c) ==
    /\ row' = Wrote(c)
    /\ raced' = (raced \/ row.status # c.read)
    /\ commands' = commands \ {c}
    /\ Settle(c, TRUE)
    /\ UNCHANGED unforeseen

(* The save fails: nothing is stored, and the page is told. *)
SaveFails(c) ==
    /\ commands' = commands \ {c}
    /\ Settle(c, FALSE)
    /\ UNCHANGED <<row, raced, unforeseen>>

(* The connection fails while the server works: the page is told it failed.  *)
AnswerLost(c) ==
    /\ c.heard
    /\ [c EXCEPT !.heard = FALSE] \notin commands
    /\ Settle(c, FALSE)
    /\ commands' = (commands \ {c}) \cup {[c EXCEPT !.heard = FALSE]}
    /\ UNCHANGED <<row, raced, unforeseen>>

-----------------------------------------------------------------------------
(* The owner's phones *)

OpenList(p) ==
    /\ page[p] = NoPage
    /\ page' = [page EXCEPT ![p] = [at |-> "list", booking |-> Copy]]
    /\ UNCHANGED <<row, detail, commands, raced, unforeseen>>

(* The link of a row, or of the panel beside it, for a booking that has an     *)
(* action.  The form reads the booking again, and says so when there is no  *)
(* hand-over left to record.                                                *)
OpenInspection(p) ==
    /\ page[p].at = "list"
    /\ LET shown == page[p].booking.status IN
          /\ inboxAction(shown) # "view"
          /\ IF inspectionModeFor(row.status) = "none"
             THEN /\ page' = [page EXCEPT ![p] = NoPage]
                  /\ Refuse("open", "owner", row.status # shown)
             ELSE /\ page' = [page EXCEPT ![p] =
                       [at |-> "form", booking |-> Copy, mileage |-> Unread,
                        submitting |-> FALSE]]
                  /\ UNCHANGED <<commands, unforeseen>>
    /\ UNCHANGED <<row, detail, raced>>

(* The form's other fields are bounded one by one, and left out. *)
TypeMileage(p) ==
    /\ page[p].at = "form"
    /\ \E m \in Reading \ {page[p].mileage} : page' = [page EXCEPT ![p].mileage = m]
    /\ UNCHANGED <<row, detail, commands, raced, unforeseen>>

(* Mutant of validateInspection: the reading at pick-up is not looked at. *)
validateInspectionAlone(f) == f.mileage # Unread

(* No server rule stands behind this one. *)
validateInspection(f) ==
    /\ f.mileage # Unread
    /\ inspectionModeFor(f.booking.status) = "return" =>
          f.booking.out = Unread \/ f.mileage >= f.booking.out

HandleSubmit(p) ==
    /\ page[p].at = "form"
    /\ LET f == page[p]
           op == IF inspectionModeFor(f.booking.status) = "pickup" THEN "start" ELSE "end"
       IN  /\ ~f.submitting
           /\ validateInspection(f)
           /\ IF Admitted(op, "owner")
              THEN /\ Receive(op, p, f.mileage)
                   /\ page' = [page EXCEPT ![p].submitting = TRUE]
              ELSE /\ Refuse(op, "owner", row.status # f.booking.status)
                   /\ UNCHANGED page
    /\ UNCHANGED <<row, detail, raced>>

(* The commands a page left behind go on unheard. *)
Unheard(by) == {IF c.by = by THEN [c EXCEPT !.heard = FALSE] ELSE c : c \in commands}

LeavePhone(p) ==
    /\ page[p] # NoPage
    /\ page' = [page EXCEPT ![p] = NoPage]
    /\ commands' = Unheard(p)
    /\ UNCHANGED <<row, detail, raced, unforeseen>>

-----------------------------------------------------------------------------
(* The booking page, which either party may open *)

OpenDetail ==
    /\ detail = NoDetail
    /\ \E v \in {"renter", "owner"} :
          detail' = [open |-> TRUE, viewer |-> v,
                     status |-> row.status, reloading |-> FALSE, cancelling |-> FALSE,
                     reviews |-> "unknown", fetching |-> TRUE, posting |-> FALSE]
    /\ UNCHANGED <<row, page, commands, raced, unforeseen>>

LeaveDetail ==
    /\ detail.open
    /\ detail' = NoDetail
    /\ commands' = Unheard("detail")
    /\ UNCHANGED <<row, page, raced, unforeseen>>

HandleCancel ==
    /\ detail.open
    /\ canCancelBooking(detail.status)
    /\ ~detail.cancelling
    /\ IF Admitted("cancel", detail.viewer)
       THEN Receive("cancel", "detail", Unread) /\ detail' = [detail EXCEPT !.cancelling = TRUE]
       ELSE Refuse("cancel", detail.viewer, row.status # detail.status) /\ UNCHANGED detail
    /\ UNCHANGED <<row, page, raced>>

(* A booking that can no longer be cancelled takes the dialog, and its       *)
(* `submitting`, off the page.  A failed reload takes the whole page off.   *)
Reloaded(ok) ==
    /\ detail.open /\ detail.reloading
    /\ IF ok
       THEN /\ detail' = [detail EXCEPT !.status = row.status, !.reloading = FALSE,
                          !.cancelling = @ /\ canCancelBooking(row.status)]
            /\ UNCHANGED commands
       ELSE /\ detail' = NoDetail
            /\ commands' = Unheard("detail")
    /\ UNCHANGED <<row, page, raced, unforeseen>>

ReviewsLand(ok) ==
    /\ detail.open /\ detail.fetching
    /\ detail' = [detail EXCEPT !.fetching = FALSE,
                     !.reviews = IF ~ok THEN "unknown" ELSE IF row.reviewed THEN "mine" ELSE "none"]
    /\ UNCHANGED <<row, page, commands, raced, unforeseen>>

(* Once posted, the form stays until the reviews are read again. *)
PostReview ==
    /\ detail.open
    /\ detail.reviews # "unknown"
    /\ canReviewBooking(detail.status, detail.reviews = "mine")
    /\ ~detail.posting
    /\ IF Admitted("review", detail.viewer)
       THEN Receive("review", "detail", Unread) /\ detail' = [detail EXCEPT !.posting = TRUE]
       ELSE /\ Refuse("review", detail.viewer,
                      row.status # detail.status \/ row.reviewed # (detail.reviews = "mine"))
            /\ UNCHANGED detail
    /\ UNCHANGED <<row, page, raced>>

TripNext ==
    \/ \E p \in Phones :
          OpenList(p) \/ OpenInspection(p) \/ TypeMileage(p) \/ HandleSubmit(p) \/ LeavePhone(p)
    \/ OpenDetail \/ LeaveDetail \/ HandleCancel \/ PostReview
    \/ \E ok \in BOOLEAN : Reloaded(ok) \/ ReviewsLand(ok)
    \/ \E c \in commands : Save(c) \/ SaveFails(c) \/ AnswerLost(c)

TripSpec == TripInit /\ [][TripNext]_tripVars

-----------------------------------------------------------------------------
(* A control is offered where the server would let its command through: a    *)
(* command is refused only if the booking has changed since its page read   *)
(* it, or an owner cancels from the booking page,                            *)
(* which offers them what only the renter's side may do.                     *)
RefusedWhenStale ==
    unforeseen \subseteq {[op |-> "cancel", viewer |-> "owner"]}

(* The odometer at return is not below the one at pick-up, which only the    *)
(* return form checks, against the booking as it loaded it, unless commands *)
(* overlapped on the server.                                                *)
ReadingsInOrder ==
    row.out # Unread /\ row.in # Unread => row.in >= row.out \/ raced

(* The cancel dialog is not left waiting for nothing: once its command is    *)
(* answered it can be used again or is off the page, unless another command *)
(* overwrote the cancellation before the page read it back.                 *)
CancelNeverSticks ==
    detail.open /\ detail.cancelling =>
        \/ detail.reloading
        \/ \E c \in commands : c.op = "cancel" /\ c.heard
        \/ raced

(* What the dashboard and the inbox derive from one list agrees, at whatever *)
(* instant the dashboard was mounted and its `now` fixed: a pick-up          *)
(* counted for today is a row of the attention list and an undone job of    *)
(* today's timeline, a return overdue today is an undone job too (unless a   *)
(* trip ended was started again by an overlapping command), a row that needs *)
(* attention has a button, and one tab of each page holds the row, the       *)
(* inbox's under way exactly when its button ends the trip.                 *)
TilesAgree ==
    \A p \in Phones, now \in 0 .. MaxClock : page[p].at = "list" =>
        LET b == page[p].booking
            rows == buildAttentionList(b, now)
            undone == TodayTimeline(b, now)
            pickupToday == \E r \in rows : r.kind = "pickup-today"
        IN  /\ ownerStats(b, now).pickupsToday <=> pickupToday
            /\ "pickup" \in undone <=> pickupToday
            /\ \A r \in rows : r.kind = "return-overdue" /\ isSameLocalDay(r.at, now) =>
                                "return" \in undone \/ raced
            /\ rows # {} => AttentionRow(b) = "form"
            /\ Cardinality(TabsOf(INBOX_TABS, b.status)) = 1
            /\ Cardinality(TabsOf(TRIP_TABS, b.status)) = 1
            /\ inboxAction(b.status) = "end" <=> TabsOf(INBOX_TABS, b.status) = {"underway"}
            /\ ownerStats(b, now).tripsUnderWay <=> TabsOf(TRIP_TABS, b.status) = {"active"}
=============================================================================

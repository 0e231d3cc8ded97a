# A TLA+ model of the car rental application

The repository is a car rental platform: an ASP.NET Core back end (CQRS command
handlers over MediatR, Entity Framework Core on PostgreSQL, SignalR for push) and
a Next.js front end. Almost everything that is hard to test in it has one of two
shapes. A handler reads rows, awaits, checks what it read, and saves; nothing
locks a row or checks a version, the database runs at READ COMMITTED, and a save
writes only the columns the handler assigned. And a page acts on what it read some
time ago, while its own calls, other tabs, pushes and navigations go on. This
project models both, checks small instances with TLC and proves the main results
for every instance with TLAPS.

Paths below are relative to `src/`; `backend/Application/` is shortened to `App/`.

## Inventory

| Component | State | Operations | What is hard | What makes it correct |
| --- | --- | --- | --- | --- |
| **Booking commands** (`App/Bookings/Commands`) | `Bookings`, `TripInspections`, `Cars.TotalTrips` | create, cancel, start, end | reads go stale before the save; notifications fail after it | no overlapping bookings of a car; each status backed by its inspections; the lifecycle of `README.md`; no trip counted that did not end |
| **Inspection photos** (same directory) | `InspectionPhotos`, files in Cloudinary | upload, delete | file and row change one after the other | a row's file exists |
| **Request pipeline** (`App/Behaviors`, `API/Middleware`, `Program.cs`) | rate-limit window | authorise, validate, map errors | five auth calls a minute, one window shared by all clients | handlers run only for roles and inputs they accept |
| **Notification delivery** (`API/Notifications/SignalRNotificationService.cs`) | `Notifications`, the request's DbContext | store, push | swallowed failures; a failed row is retried by the next save | told only of what was saved; lost pushes recovered by a re-read |
| **Reviews and rating** (`App/Reviews`) | `Reviews`, `Cars.AverageRating`, `Cars.TotalReviews` | create, delete, recalculate | review and rating are two commits; recalculations race | one review a trip and direction; the rating is that of the reviews |
| **Messages** (`App/Messages`) | `Messages.ReadAt` | send, mark thread read | a push races the history page | shown once, in order; unread count right |
| **Cars and images** (`App/Cars`) | `Cars`, `CarImages`, files | create, update, delete, upload, delete image, set cover | cover changes race; delete races create-booking after files are gone | exactly one cover; no photo lost on a refused delete |
| **Search and checkout** (`SearchCarsQueryHandler.cs`, `lib/search-params.ts`, `components/search`, `checkout.tsx`, `lib/pricing.ts`) | the URL; fields with text of their own; the quote on screen | type, apply, turn pages, widen, quote, request | a control builds on a URL that is being replaced; the car is repriced, the answer lost | the query is the one put together; the charge is the quote; one request books once |
| **Trip pages** (`lib/bookings.ts`, `lib/owner.ts`, `lib/inspection.ts`, booking detail, lists, inbox, dashboard, inspection and review forms) | a copy of the booking, a dialog, a form | cancel, start, end, review, reload | controls are offered from an old copy by a copy of the server's rules | refused only when stale; no dialog waits for nothing; tiles, lists and buttons agree |
| **Listing pages** (`add-car-wizard.tsx`, `edit-car-form.tsx`, `photo-manager.tsx`, `lib/car-form.ts`) | draft and created id in localStorage, forms, photo grids | type, create, finish, save, upload, delete, set cover | lost answers, several tabs, a half-finished listing | one vehicle, one listing; a stranded listing is offered again; edits stick |
| **Sign-in and guards** (`role-guard.tsx`, `redirect-if-authenticated.tsx`, login and register forms, `user-menu.tsx`) | address, `next`, form, menu | choose a page, sign in or up, sign out | several redirects at once; the session changes in another tab | a visitor lands where they were going; redirects end; sign-out is on offer |
| **Console** (`verification-queue.ts`, `review-queue.tsx`, `user-lookup.tsx`) | the reviewer's queue, the account on the card | decide, look up, delete | the item or the account changes under an open dialog | what is decided was on screen |
| **Accounts and refresh tokens** (`Infrastructure/Identity/IdentityService.cs`) | `Users`, `RefreshToken` | register, sign in, refresh, revoke | one token redeemed twice; refresh races logout; two registrations of an address | one live successor a token; logout ends the session |
| **Verification** (`App/Users`, `verification-panel.tsx`) | `UserVerifications`, `Users.IdentityVerified`, the sent map in localStorage | upload, approve, reject | the document is replaced while it is reviewed; uploads overlap | verified means someone saw that document |
| **Client session store** (`frontend/src/lib/auth/session-store.ts`) | session, timer, refresh in flight, localStorage shared by tabs | sign in, out, refresh, hydrate, storage event | tabs race one token; late and lost answers | signed out stays signed out; a live session is renewed |
| **Client realtime stores** (`frontend/src/lib/realtime`, `message-thread.tsx`) | connection, badge, recent list, live messages | start, stop, seed, push, mark read | a seed races a push, a reset and an optimistic update | the badge converges to the server's count |

They interact by calls (controllers to handlers, handlers to the notification
service, client stores to controllers), by the shared tables, by SignalR pushes,
and, between tabs, by localStorage events.

## Plan

Each module has one action per handler step or page event, its parameters as
`CONSTANTS`, and no `RECURSIVE` operator, so that it can be proved about.

| | Modules | State |
| --- | --- | --- |
| 1 | `Bookings`, `BookingLifecycle` | modelled, checked, proved |
| 2 | `Reviews` | modelled, checked; proved but for liveness |
| 3 | `Sessions` | modelled, checked, proved |
| 4 | `Connection`, `Notifications`, `Thread` | modelled, checked, proved |
| 5 | `CarPhotos`, `Wizard`, `EditForm` | modelled, checked, proved |
| 6 | `Search`, `Checkout`, `TripPages` | modelled, checked, proved |
| 7 | `Entry`, `Tiles`, `Verification`, `UserLookup` | modelled, checked; proved but for liveness |

Every invariant a passing run checks is also a theorem, and so is the one refinement.
Left: abstract specifications of more components, in the manner of
`BookingLifecycle`, with their refinements proved (the bell as a view of the server's
rows, the two-step photo handlers as single changes of a listing).

## Modules

| Module | What it is |
| --- | --- |
| `Bookings` | the four booking commands with concurrent requests, failures and notifications |
| `BookingLifecycle` | abstract: what one booking goes through, each transition in one step |
| `Reviews` | creating and deleting reviews, and the car's rating that follows them |
| `Sessions` | a user's session in several tabs, and the refresh tokens behind it |
| `Connection` | the SignalR connection of one tab, and the rows pushed over it |
| `Notifications` | extends `Connection`: the bell's count and list |
| `Thread` | extends `Connection`: a conversation, and the inbox that lists it |
| `CarPhotos` | the photos of a listing or an inspection: rows, files, handlers, grids |
| `Wizard` | listing a car, with a draft in localStorage |
| `EditForm` | the forms that PUT a listing or a profile |
| `Search` | the search page and its URL |
| `Checkout` | the quote, the request and the charge |
| `TripPages` | the pages a booking is handled from |
| `Entry` | guards, sign-in and sign-up forms, sign-out |
| `Tiles` | the user's verification page and its sent map |
| `Verification` | uploads of documents against reviewers' decisions |
| `UserLookup` | the console's card of one account, and its deletion |
| `MCBookings`, `MCReviews`, `MCSessions` | model values and symmetry for TLC |
| `MCRealtime`, `MCListings`, `MCTrips`, `MCAccounts` | compose the modules of one stretch of the program for TLC |
| `BookingsProofs`, `BookingTurnsProofs`, `ReviewsProofs`, `SessionsProofs`, `RealtimeProofs`, `ListingsProofs`, `TripsProofs`, `AccountsProofs` | theorems and their proofs |

`Bookings` and `Reviews` meet in the completed booking; `Checkout` ends where
`TripPages` begins; `CarPhotos` makes `Wizard` forget a stranded listing
(`EditPhotos`); `Tiles` hands its uploads to `Verification`; `Entry` takes the
session as `Sessions` shares it. Where two modules share no more than that, the MC
module checks them in one run but one at a time: its variable `watched` says which
module a behaviour is about. `Connection` is different: `Notifications` and
`Thread` both act on it, and each is checked and proved together with it.

### How `Bookings` corresponds to the code

`bookings` is the table `Bookings` (`None` for a Guid not in use), `inspections` is
`TripInspections`, `totalTrips` the column of each car, `notices` the rows of
`Notifications` about bookings, and `req[r]` what request `r` holds in its
handler's locals.

Each handler is two actions. The first is everything up to the first assignment
to a tracked row (`CreateCheck`, `CancelLoad`, `StartLoad`, `EndLoad`): one query
that matters, and the guards on what it returned. The second is everything up to
the end of `SaveChangesAsync` (`CreateSave`, `CancelSave`, `StartSave`,
`EndSave`): it writes the columns the handler assigned to whatever the row has
become. The handler then sends its notifications one at a time (`Notify`), each
of which may fail. A failed row stays in the request's DbContext and is written
by the next save of that request, which only CancelBooking by staff has. `Abort`
is a request that ends early for any reason: a save that throws, a client that
leaves, a restart.

Points where the model follows the code and a reader might not expect it:

- StartTrip and EndTrip do not ask whether the caller owns the car, only for the
  role, so any account with the role may start or end any trip.
- The role attribute of CancelBooking leaves out `Owner`, so the branch that lets
  a booking's owner cancel is out of reach of an account with the role Owner.
- Nothing in the code sets `Confirmed` or `Disputed`. The guards that mention
  them are modelled; the statuses are not reached.
- `TotalTrips` is read with the booking and written with the save, so two trips
  of one car that end together may count once.
- Assigning a new inspection to `booking.PickupInspection` is taken to insert it
  and to set the reference, as `phases/phase-6-owner.md`'s acceptance check of
  StartTrip expects.

Abstracted: days are `0 .. Horizon`, with 0 today; prices, mileage, inspection
contents, wording and time stamps are left out; `CancelledAt`,
`CancelledByUserId` and `CancellationReason` are one column that is set or not;
a refused request changes nothing and is not an action. A car's deletion is left
to a later module: it is refused once the car has a booking, and a create that
loses the race to it fails in its save, which is `Abort`.

### Callers that take turns

`TurnSpec` is `Spec` under an assumption about callers: two unsaved requests are
never about the same booking, and two unsaved creates are never for the same car.
The code does not enforce this. It is what the guards need in order to mean what
they say, and stating it separates what a guard gets wrong by itself from what
only a race breaks.

### How `Reviews` corresponds to the code

`reviews` is the table, `total` and `average` the columns `TotalReviews` and
`AverageRating` of each car (the average in hundredths, rounded half to even as
`Math.Round` does; the sum of the ratings is the number of stars given, since a count
can be reasoned about and a fold cannot), `told` the notifications about reviews. Two history variables
carry what the properties need: `written`, every review ever saved, and
`interrupted`, the cars whose last recalculation began and did not finish.

A request goes through the awaits of the code, one action each. `CreateCheck` is
the handler up to the query for an existing review, `CreateInsert` the first
commit, `ReadCar` and `ReadRatings` the recalculator's two queries, `SaveRating`
the caller's second commit, `Notify` the notification. A moderator's
`DeleteLoad` and `DeleteRemove` join at `ReadCar`. A review of a renter by an
owner skips the recalculation. `Refused` is a commit that throws: the unique index
on (BookingId, Type), or a row to delete that is already gone. `Abort` is any
other early end.

- `SaveRating` writes a column only if the value assigned differs from the value
  `ReadCar` returned: that is what the change tracker does, and it means that a
  recalculation which believes nothing changed repairs nothing.
- `Abort` before the first commit leaves nothing. After it, the review stays, the
  rating does not follow, and `interrupted` records the car.
- Trips are completed bookings: a booking that is not is refused before anything
  is read. A completed booking can still become Cancelled (finding 3), which
  changes no review.
- The notification is stored, or its failure swallowed; no later save of the
  request retries it.

`TurnSpec` is `Spec` under the assumption that the recalculations of one car, each
from its review's commit to its own save, do not overlap. Checks may still race,
and requests may still fail. The code does not enforce the assumption; finding 4
is what happens without it.

### How `Sessions` corresponds to the code

`IdentityService.cs` is `RefreshRead`, `RefreshSave` and the logout steps; the
actions on `mem`, `timer`, `refresh` and `logout` are `session-store.ts`, one set
per tab. A session is the number it was issued under, and stands for an access
token and the refresh token issued with it. `stored` is localStorage; `behind` are
the tabs whose storage event has not run yet. A call goes out, is read, is saved and
is answered in separate steps, and can be refused or lost on either way.

- `RefreshSave` revokes the token it read even if another request redeemed it in
  between, so one token can have two live successors. `RedeemedIsDead` says only
  that what was exchanged stays dead.
- A refresh answer that arrives after `signOut` writes the session back: nothing
  in `RefreshAnswered` asks whether the tab has signed out since.
- `scheduleRefresh` runs while `refreshInFlight` is set, so a successor that is due
  at once is not renewed until a request fails. `SessionIsWatched` therefore
  speaks of sessions that are not due yet.
- `write` and `read` catch a localStorage that throws and go on, for want of room or
  of permission. `Write` and `Read` therefore may fail at any call when `StorageFails`
  is set. A tab whose last use of localStorage failed is `adrift`: it shows what only
  it knows of, or nothing, until its next good write or read. `lapsed` says that what
  is stored should have been replaced: a write failed over it, or a tab was closed
  before it heard what became of its call; the next good write ends it. `TabsInStep`
  and `StoredIsLive` name these two exceptions.
- A registration is a first sign-in, with no address of its own.

### How `Connection`, `Notifications` and `Thread` correspond to the code

`Connection` is `connection.ts`: each `HubConnection` built is a hub, and the
module variables `connection` and `startInFlight` hold at most one each, while a
hub that was replaced lives on until its promises settle. `rows` are the rows
stored on the server, `pushing` those whose push it has yet to make, and `wire`
those pushed to a hub and not yet delivered. A row is stored (`Store`) before it is
pushed: the push then goes to the hubs that are open at that moment (`PushSent`), or
`SendAsync` throws and the failure is logged (`PushFails`). Each row is pushed by a
request of its own, so rows arrive in any order; a drop loses them. `Notifications` is
`notification-store.ts` with the two commands that mark as read; `Thread` is
`message-thread.tsx`, `thread-inbox.tsx`, `useAsync` and the message handlers.

Exceptions that the properties state, each of which the code runs into:

- A push that fails after its row was stored leaves an open socket a row behind, with
  nothing under way. `raced` and `missed` record it: the bell and the thread do not
  know of the row before their next re-read.
- A push that lands between a seed's read and its answer is overwritten or counted
  twice (`notification-store.ts:93`), and one that comes after a newer one is put
  before it. `raced` records it, and `BellInStep` holds again after one clean re-read:
  one sent and answered with no push or mark under way. A refresh asked for while an
  older one is in
  flight shares its answer; a seed in flight at sign-out fills the emptied store.
- The late failure of a replaced hub sets `connection` to null
  (`connection.ts:145`), after which signing out does not stop its successor.
  `clobbered` records it, in `SocketIsOwned`.
- The thread asks for one page of its newest messages (`PageSize`, 50 in the code) and
  never for an older one, so a longer conversation is never whole. `ThreadIsWhole`
  speaks of the messages since the oldest on that page.
- The inbox does not re-read on a reconnect, and neither page hears of what is sent
  while its first connection is being made: `missed`, in `ThreadIsWhole`.
- A `markThreadRead` that fails is not retried (`markLost`), and the re-read after a
  reconnect does not mark what it brings as read, which `LiveIsRead` leaves out.

### How `CarPhotos`, `Wizard` and `EditForm` correspond to the code

`CarPhotos` is the five photo handlers, `DeleteCar`, and the photo grids of several
tabs. A handler reads, does its work on the file store, and saves: the file goes
first and the row after it. `Wizard` is `add-car-wizard.tsx` with `car-form.ts`: a
draft is a vehicle and the set of steps whose fields validate, which fields being
abstracted. `EditForm` is the forms of a listing and of a profile, both of which PUT
the whole record: a record is the set of edits it carries.

- `saveDraft`, `clearDraft`, `rememberCreatedCar` and `forgetCreatedCar` each catch a
  failing localStorage, and so do the two reads. `SetItem` and `GetItem` are each
  call's two outcomes, and the draft and the created id may fail separately.
- An upload and a delete of one page may overlap and leave no cover or two:
  `overlapped`, in `CoverStands`.
- A delete whose save fails, and a car deletion whose save fails, leave a row with
  no file: `broken`, in `ListedIsStored`.
- An upload whose answer is lost is not refetched; a failed refetch takes the grid,
  or the form with what was typed, off the page.
- A create whose answer is lost, a page left or a second tab open meanwhile, or a
  draft that localStorage would not give up, lists one vehicle twice: `shared`, in
  `ListedOnce`.
- A change to any car's photos forgets a stranded listing, whichever it is, and so
  does a localStorage that does not take its id: `forgotten`, in `StrandedIsOffered`.
  What is typed during a create is dropped.
- A form opened before another's save undoes it: `replaced`, in `EditsStick`.
- The order of photos is not kept; a page that shows an error is read again only
  after its requests have ended; only the grids in `Followed` upload.

### How `Search`, `Checkout` and `TripPages` correspond to the code

`Search` has the URL on screen, the one asked for, and the two fields with text of
their own; `wanted` is the query the user has put together, control by control.
`Checkout` has each tab's quote and the requests the server has checked. Prices are
exact: `BookingPrice` rounds as a `numeric(18,2)` column does, `priceBreakdown`
shows what the browser computes, and `daysBetween` is each side's own count of days.
`TripPages` has one stored booking and pages that hold a copy of it; `canCancelBooking`,
`classifyAttention`, `ownerStats`, `TodayTimeline` and the tabs are the functions
of `lib/bookings.ts`, `lib/owner.ts` and the list pages.

- A control used before the last navigation arrived builds on the old URL
  (`overtaken`); a price left in focus is lost to the chip that is clicked. "Clear
  filters" and "Widen dates" leave the fields their old text (`repaired`). West of
  the web server a date loses a day each time it is shown (`west`).
- A checkout whose answer was lost may be sent again and book twice: `retried`. The
  receipt's lines may differ from its total by a cent, being rounded one by one.
- The booking page offers an owner "Cancel this trip", which the server allows only
  to the roles Renter, Admin and Staff: the one entry of `RefusedWhenStale`.
- Only the browser compares the two odometer readings (`ReadingsInOrder`), with the
  booking as it was loaded.
- The cancel dialog stays at "Cancelling…" if an overlapping start or end overwrote
  the cancellation before the page read it back (`raced`, in `CancelNeverSticks`).
- Left out: the browser's back button, which like "Widen dates" changes the URL under
  the fields, and who may write in a thread.

### How `Entry`, `Tiles`, `Verification` and `UserLookup` correspond to the code

`Entry` is one tab: its address with `next`, the form on screen, the call under
way, and the menu. The guards and the forms' redirects are effects that run after
each render. The tab makes one submit and one sign-out call at a time; in the code
each form has its own `submitting`, so that two forms, one left and one opened, may
each have a call of their own. What a late answer does to a visitor who has moved on is
modelled for the one call (`strayed`).

`Tiles` is the page of one tab. It keeps the closure an upload started from, since
`verification-panel.tsx` adds its mark to the map that closure holds. `readSent` and
`writeSent` have two outcomes each: a failing read gives an empty map, a failing write
leaves localStorage as it was. `Return` is the page left by a link and opened again,
and also the error that replaces it when the user cannot be read, until it is retried.
`heard` is what the page on screen knows was sent, `kept` what of it localStorage took.
`Verification` has the handlers of upload and decision as read and save, and each
reviewer's copy of the queue. `UserLookup` is one card that is not remounted for the
next account, over a dialog that may be open.

- The guard sends `next` as a path: the dates of a checkout are dropped
  (`bounced`). The links between the two forms drop `next` altogether, and a late
  answer takes a visitor who has moved on along with it (`strayed`).
- Signing out on a guarded page has the menu's `push("/")` race the guard's redirect.
  `signingOut` is never reset on a page that stays: if another tab signs in, the menu
  stays disabled (`joined`, in `SignOutIsOffered`).
- Uploads that overlap, or a page left and opened during one, drop a mark
  (`overlapped`, in `MarksAreKept`).
- A mark that localStorage does not take is on the page until it is left, and is saved
  with the next mark; afterwards the tile reads "Not sent", as the code's comment
  says. A page that could not read the map shows nothing as sent, and its next mark
  replaces the map it could not read.
- A new image does not withdraw the account's flag. Decisions that overlap write
  only the columns each changed, so status and flag may disagree (`raced`, in
  `FlagsTellVerdicts`), and an image stored between the queue's read and the
  decision is judged unseen (`slipped`, in `JudgedIsSeen`).
- An account looked up while the dialog is open lands under it (`swapped`), and the
  card's `deleted` outlives the account it was about (`moved`). `DeleteUser` sets the
  account inactive and keeps the row.

## Runs

| Run | Specification | Shows |
| --- | --- | --- |
| `booking_races` | `Spec` | with three requests racing on one booking, rows, counter and notifications keep `TypeOK`, `EvidenceBacksStatus`, `TripCountBounded`, `NoticeHasCause` |
| `booking_turns` | `TurnSpec` | two bookings of a car over four days overlap only by enclosing (`OnlyEnclosingOverlaps`), and the handlers implement `BookingLifecycle` (`RefinesLifecycle`) |
| `overlap` | `TurnSpec` | `NoDoubleBooking` fails with no race: book one day, then a range around it |
| `cancel_under_way` | `TurnSpec` | `TripsEndByCompletion` fails: start a trip, cancel it |
| `stale_save` | `Spec` | `FinalStatusesStay` fails: StartTrip reads Pending, CancelBooking saves, StartTrip saves |
| `reviews_turns` | `FairTurnSpec` | requests that race on one trip leave one review a side (`OneReviewPerSide`), the rating is that of the reviews unless a recalculation is under way or was cut short (`RatingInStep`), and does not stay wrong (`RatingSettles`) |
| `rating_race` | `SteadySpec` | `RatingInStep` fails with no failure: two recalculations overlap and the one that read fewer reviews saves last |
| `sessions` | `BoundedSpec` | a tab whose last use of localStorage did not fail shows what is stored there (`TabsInStep`), a session that is not due is watched by every tab that shows it (`SessionIsWatched`), a redeemed token stays dead (`RedeemedIsDead`), and with no call in flight the stored session can be renewed (`StoredIsLive`) |
| `realtime` | `Spec` | a hub that can deliver is the one sign-out stops (`SocketIsOwned`); the bell comes to what the server stores (`BellInStep`); a settled page shows the conversation from its page of history on (`ThreadIsWhole`), and what arrived on it is read (`LiveIsRead`) |
| `listings` | `Spec` | one cover (`CoverStands`), a listed photo has its file (`ListedIsStored`), a grid shows what its user was told (`GridKeepsUp`), one vehicle is one listing (`ListedOnce`), a stranded listing is offered again (`StrandedIsOffered`), edits stick (`EditsStick`) |
| `trips` | `Spec` | the query is the one put together (`FiltersStick`), the charge the quote (`BookedAsQuoted`), a refusal means a stale page (`RefusedWhenStale`), odometers are in order (`ReadingsInOrder`), dialogs end (`CancelNeverSticks`), and a list's derived parts agree (`TilesAgree`) |
| `accounts` | `Spec`, with `EntryFairness` | visitors land where they were going (`LandsWhereAsked`), can sign out (`SignOutIsOffered`), and are not sent in circles (`RedirectsEnd`); marks are kept (`MarksAreKept`); documents are judged and accounts deleted as seen (`DoneAsSeen`) |

A property with a history exception does not catch the hazard that the exception is
about; `PROJECT.json` says of each hazard what is left out, and the section on races
below tells what happens then.

Bounds, and why they are enough:

- **Requests.** A stale save needs one request to read, another to save, and the
  first to save. Three in `booking_races` allow two stale saves over one fresh
  read, which is what it takes to mix the columns of three handlers in one row.
  `booking_turns` has two, one of which may be in any handler while the other
  finishes.
- **Bookings and days.** Overlap is about pairs of bookings, and two ranges over
  four days meet in every one of the ways two intervals can. The races are about
  one row, so that run has one booking of one day; the properties there do not
  mention days.
- **Inspections.** Four in `booking_races`: two for each handler that makes one,
  so that a duplicate of either kind happens. In `booking_turns`, one pair.
- **Users.** A renter, an owner and staff take every branch of the role and
  participant checks. Admin takes the same branches as staff.
- **Reviews.** `reviews_turns` has two Guids, two trips of one car and the ratings
  4 and 5: enough for two reviews of the car whose average is neither rating, for
  two requests that compete for one index entry, and for a delete that races a
  create. One car, because no step reads the columns of another.
- **Tabs and sessions.** Two tabs redeem one token together; three sessions are one
  sign-in and both of its successors, or a sign-in after a sign-out while an old
  answer is under way. While a tab is adrift at most two are issued (`Steady`): a token
  and its successor, which is what a failed write confuses.
- **Hubs and rows.** Two hubs are one and its replacement. Three rows over a list
  limited to two make the list drop one, and over a page of two make the thread drop
  its oldest message. One row at a time is stored and not yet pushed (`MaxPushing`),
  while pushes on their way still overtake one another. The theorems have no such bound.
- **Photos, cars, edits.** Two stored photos make a cover and an heir; a batch of two
  fails half way; three edits by two forms are one undone between two kept; two cars of
  two vehicles are a duplicate, or one listing that takes the place of another.
- **Search.** Days 0 to 2, so that one can be widened and then reach today; two
  pages, since a query is on its first page or not.
- **Checkout.** 23 hours are less than a day, which both sides raise to one, and 47
  are a day and most of a second, which both truncate; of 15 cents the fee is a cent
  and a half, and of 3333 neither fee nor tax is whole.
- **Trip pages.** A day of two instants, pick-up and return in different days, and a
  clock that runs past both, put each list before, on and after each day.
- **Accounts.** `Verification` has two documents, the two sides of the licence, because
  they share a status; `Tiles` has two that are verified apart, and two uploads at once,
  one of which drops the other's mark. Two reviewers and two senders, since stale reads
  are about pairs; three accounts, so that a card is reused twice.
- **Symmetry.** Guids, requests, tabs and phones are interchangeable where a
  configuration says so: no definition orders them, and every property checked with
  symmetry is a safety property. `reviews_turns` and `accounts`, which check liveness,
  use none; nor do `realtime` and `listings`.

Deadlock is not checked in the runs of bookings and reviews, nor in `realtime`: their
pools of Guids and hubs are finite, and the system stops when they have run out. It is
checked in `sessions`, `listings`, `trips` and `accounts`.

Fairness is assumed in two places. `FairTurnSpec` asks of each request that, once
past its checks, it runs on (weak fairness of `Finish`, within the turns): the
server schedules a handler's continuation as soon as the query it awaits has
answered, and a query answers or throws. `EntryFairness` asks that the two redirect
effects run when they are due: React runs an effect after every render whose
dependencies changed. Nothing is assumed of users, moderators, other tabs or the
network, and nothing keeps a request from failing.

## Findings

1. `CreateBookingCommandHandler.cs:41`: the availability test misses a request
   that encloses a booking. `phases/README.md:360` knows of it; `OnlyEnclosing`
   proves that it is the only hole when callers take turns.
2. `CancelBookingCommandHandler.cs:46`: a trip under way can be cancelled;
   `README.md:197` has no such arrow. Its return inspection can then no longer be
   recorded, since EndTrip wants InProgress.
3. `StartTripCommandHandler.cs:47`: a save from a stale read reopens a cancelled
   booking (EndTrip and CancelBooking overwrite final statuses in the same way).
4. `CarRatingRecalculator.cs:41`: two recalculations of a car that overlap can
   leave its rating and count at those of fewer reviews than exist, with no
   failure and nothing left to correct it but a later review of the same car. The
   class comment promises that they are kept in step.

### Races behind the exceptions

Six of the exceptions leave out a race in which the code does what a comment or a
document of the repository rules out. Without the exception TLC finds the property
violated; nothing fails on the way but an answer that is lost and a start that is aborted.

- `session-store.ts:173`: a session that is due when the refresh that brought it is
  answered gets neither a timer nor a request, because the refresh in flight is cleared
  only afterwards. The comment at `:148` wants it renewed at once, since "the
  alternative is a session that appears live and is not". `SessionIsWatched` is limited
  to sessions that are not due.
- `connection.ts:145` (`clobbered`): a user signs out, in and out again while the first
  hub is being aborted; its late failure makes the module forget the second, which the
  last sign-out does not stop. `realtime-provider.tsx:12` says the connection must be
  torn down.
- `DeleteCarImageCommandHandler.cs:58` (`overlapped`): a deletion of the cover finds no
  heir while an upload that saw the cover is under way, and the listing is left with a
  photo and no cover. `SetPrimaryCarImageCommandHandler.cs:47` says "Exactly one cover".
- `add-car-wizard.tsx:133` (`shared`): a create whose answer is lost is treated as one
  that was refused, and a second press lists the vehicle again.
  `phases/phase-6-owner.md:44` wants a failure after creation to recover the listing.
- `UpdateCarCommandHandler.cs:44` (`replaced`): a form opened before another's save puts
  back the old values. `phases/phase-6-owner.md:149` says that editing one field does
  not reset the others.
- `verification-panel.tsx:106` (`overlapped`): of two uploads that overlap, the one
  answered last drops the other's mark, and a document that was sent reads "Not sent",
  which is what the map is kept to avoid (`:35`).

## Proofs

TLAPS checks every theorem below to the last leaf. A theorem about a component is
about that component's own specification (`Spec`, `BellSpec`, `ThreadSpec`,
`PhotosSpec`, `WizardSpec`, `FormSpec`, `SearchSpec`, `CheckoutSpec`, `TripSpec`,
`EntrySpec`, `TilesSpec`, `VerificationSpec`, `LookupSpec`), of which a run checks an
instance. The theorems named `...Typed`, and `AccountsDoneAsSeen`, are about the `Spec`
of an MC module; their invariant is the conjunction of its components'.

The theorems about bookings hold for every value of the constants that satisfies
`BookingsAssumption`: roles and owners are total functions, the horizon is a
natural number, and `None` is not a row, an inspection id or a time stamp. Those
about reviews need `ReviewsAssumption`: ratings are one to five stars, and each trip has
a car, a renter and an owner. The others need that bounds, prices and instants are
naturals; that `StorageFails` is a truth value, so that the theorems on sessions hold
with a localStorage that fails and with one that does not; that a listing and a batch
may hold a photo, the wizard has a step, the bell and a page of a conversation show a
row, and a day and a rental take time; that a trip's return is after its
pick-up; and that no phone is called `"detail"`, the name of the booking page.

tlapm 1.4.5 must not be given two `CASE` expressions to compare: it can prove equal two
that have as many arms and differ. Functions written with `CASE` are therefore read off
one at a time (`InboxActions`, `InspectionModes`); the one whose arms hold another,
`classifyAttention`, is compared with nested `IF`s, a step that fails when any of their
values is changed. No `CASE` has arms that overlap.

**`TypeCorrect`.** `TypeOK` is inductive only together with `Linked`: a request
that has read a booking, and an inspection, name a booking that exists. Without
it a save could write a field of an absent row.

**`StatusIsBacked`, `NoticesAreTrue`.** `EvidenceBacksStatus` alone is not
inductive, because a save acts on what its handler read. `Justified` adds, for
each request, what its read established and no later step takes away: an EndTrip
under way saw InProgress, so the pickup inspection is there; a request that
notifies still owes only notices with a cause. The key lemma is `RowsKept`: no
step clears a reference or a cancellation, or changes a booking's parties.

**`TripCountIsBounded`.** The invariant bounds the counter each EndTrip holds as
well as the column, by the number of return inspections of the car; each save
adds one inspection, and the lemma `ReturnsAdded` about its cardinality does the
rest.

**`OnlyEnclosing`, `TurnsRefineLifecycle`.** `TurnInv` says that what a request
read is still true (`ReadStillTrue`): no active booking clashes with a create in
flight, and the status a cancel, start or end saw is still the status. Taking
turns is used in one place, `OthersRead`. `UnseenOverlap` is the arithmetic of
the availability test; for the refinement, `Orderly` says that a booking has no
inspection before its time, and each save maps to one transition.

**`ReviewsAreUnique`.** The invariant is inductive by itself: only `CreateInsert`
adds a review, and it does so under the index. The handler's own check plays no
part, which is what its comment says.

**`RatingKeepsStep`.** `RatingInv` adds to `RatingInStep` that what a recalculation
holds is what the tables say (`HeldIsFresh`): without it a save could assign an old
count, or leave a column alone because an old reading agrees with it. The lemma
`Elsewhere` says that a step about one car leaves the others and their
recalculations as they were; `CommitStep` is where taking turns is used, since a
commit may not change the reviews another request has just counted. `AverageOf`
stays closed throughout: the proof does not depend on how the average is rounded.

**`ReviewsTypeCorrect`.** That a rating is between one and five stars needs induction
over the reviews, unless they are counted: `Stars` holds a pair for each star of each
review, so a finite set of n reviews has between n and 5n of them (`StarsAreFew`), and
rounding a quotient keeps it between 100 and 500 hundredths (`RoundedBetween`). What
is added to `TypeOK` is that the written reviews are finitely many.

**`SessionsTypeCorrect`, `RedeemedStaysDead`, `TabsKeepStep`, `SessionsAreWatched`.**
Types need `CallsIssued`: a call carries only sessions that were issued. The other
three are inductive with it; each is one step per action of a tab or the server. A
write or read that fails puts its tab among the `adrift`, and no other tab out of step:
what is stored has not changed.

**`StoredStaysLive`.** "The session that is stored can be renewed" is false while a
call is in flight. `AnswersAreFresh` says why it is true again afterwards: an answer
on its way brings a session that is active and that no other tab, call or storage
knows, so that nobody else can have redeemed it. A call that ends therefore leaves
in storage such a session or none, or localStorage refused it, which is `lapsed`; no
other step of a quiet browser kills one, and the next good write stores a live one again.

**`BellOwnsSocket`, `ThreadOwnsSocket`.** `SocketInv` is inductive under
`SocketNext`, which says what either module does to the connection, so the argument
is made once (`SocketStep`) and each specification is shown to make only such steps.
That the hub `start()` builds is an unused one is `NewHub`, from the least element of
a set of naturals.

**`ArrivalsAreRead`.** `LiveIsRead` needs `ReadInv`: what was brought to the page and
what is unread are both older than the next row, and a message of this user's own is
never one they have yet to read, so neither a new row nor an answered post can put
an unread message on the page.

**`NothingIsLeftOut`.** `WholeInv` accounts for each message at every moment: it was
heard of, or an answer that will bring it is awaited (`Awaited`), or the connection
has yet to bring it or is not up (`Reachable`); the row's push, if it is yet to be made,
counts as the connection's, and one that fails puts the message in `missed`. The page of
history plays no part in this, but for what `OnPage` says of it: an answer covers every
message up to its read, and shows those of its last page.
The proof shows for each action that a
message which leaves one of these enters another; `WholeSettles` says that on a
settled page nothing is left but what was heard.

**`BellKeepsStep`, `RealtimeTyped`.** `BellKept` says what the bell shows at every
moment, not only when nothing is under way: it has heard of rows 1 to d, the others are
yet to be pushed or on the connection of one hub, and its count is d less the rows that
are read or that the call in flight is about to read. A push that fails, or comes out
of order, sets `raced`, and only a re-read that was clean throughout clears it.
`SeedTells` adds what a re-read under way will
bring while nothing has overtaken it, and `WireOpen` that only an open hub holds rows.
`NewestGrows` and `NewestShows` are about the list cut to its limit, as a function of d.

**`ListingHasOneCover`, `PhotosAreStored`, `GridsKeepUp`.** `CoverInv` adds to the one
cover what each handler under way has read of the covers, which is still so unless it is
marked stale: an upload that would set a cover found the covers there are, a deletion of
the cover has an heir or deletes the last photo. `GridInv` says that a grid owed
something new has a fetch of it under way, an error on screen, or a batch whose end
will ask for it.

**`VehiclesListedOnce`, `StrandedListingsOffered`.** `ListedInv` looks at the wizards and
not at the table alone: a vehicle that is listed, and not shared by two drafts, has gone
from every draft, and from localStorage, but that of a tab whose create call has yet to
answer. So no tab can create it again. A draft that localStorage keeps makes its vehicle
`shared`, and an id that it does not take makes its car `forgotten`; `StrandedIsOffered`
is inductive with the types.

**`FormsKeepEdits`.** `DraftHolds` says that a draft contains what its form was loaded
with and what was typed into it, and that the body of a request contains all of
that which is stored; `OwnersDiffer`, that no edit is typed into two forms. A PUT
then removes only what was stored after its form was loaded, which is `replaced`.

**`FiltersStay`.** `SearchInv` is about `Target`, the query the page is on its way to,
where the property is about the page when it has arrived: what was asked for is in
`Target`, and the fields show it or hold text of their own.

**`BookedOnceAsQuoted`.** The amounts are arithmetic: `DayCountsAgree` and `PriceParts`
show for every price, deposit and duration that the server's subtotal, fee and tax are
what the page shows, and that the parts make the total up to a cent of rounding. That one
request books once is `RequestsInv`: a page has one call it listens to, and while nothing
was sent again no call runs beside a standing booking.

**`RefusalsAreStale`, `OdometersRise`, `CancelDialogsEnd`.** `TripInv` joins the row, the
pages and the commands. `Given`: what the server let through was acceptable when it was
read, and an odometer it checked is not below the one at pick-up while commands take
turns. `PageInv`: a form for a return was opened over the reading that is stored.
`Awaited`: the one who is told of a command is waiting for it. `ReloadInv`: a page that
reads a cancelled booking again finds it cancelled, or commands raced.

**`TilesStayTogether`, `TripsTyped`.** Tile, row and button each test the status and the
day in their own way; the proof reads each test off as a condition on the two and
compares them. It needs of a booking on a list what `PageInv` says (`Told`): one in
progress has no return reading, unless commands raced.

**`VerdictsAreBacked`, `AccountsDoneAsSeen`.** `PageKnows` and `CallKnows`: what a reviewer
has on screen, and what a decision under way has, covers every image of the item up to
the moment it was read. A decision saved then leaves only images that came in since,
which are those in `slipped`. `AccountsDoneAsSeen` joins this with `DeletionsAreMeant`.

**`VisitorsLand`, `SignOutStaysOffered`, `AccountsTyped`.** `OnTheWay` says of every address
between asking and landing that it leads there: a form's `next` is the page asked for,
and any other page is that page. `MenuFree`: a menu is signing out only while its call is
under way, or nobody is signed in, or another sign-in joined it.

**`MarksStay`, `DeletionsAreMeant`.** `OneUpload`: while no upload overlaps another, the
one under way started from the map on screen. Its answer therefore adds to
what the page knows, and if localStorage takes it, everything the page knows is there;
if not, what was there stays. A page opened again knows what it read, or nothing.
`DialogNames`: a dialog open over an account was opened on it or had it land there.

## What is only model-checked, and what is neither

Every invariant and action property that a passing run checks is proved, and so is the
refinement. Liveness under fairness, `RatingSettles` and `RedirectsEnd`, stays with TLC:
the prover does not reason about `ENABLED`. Induction over data is outside it too, and the
models avoid the need: sums are counted as sets, and no module has a recursive operator.
The violations that the other four runs find are counterexamples and need no proof.

Not modelled, and why:

- **Search's query on the server, and the other read-only queries**: they change no
  state. Search leaves out a car on Confirmed and InProgress bookings only, create
  refuses it on all but Cancelled ones, so a car with a Pending booking is offered and
  then refused; reading the two lists shows as much as a model of them would.
- **Registration's address**: two registrations of one address both pass `AnyAsync`
  and no unique index stops the second. `Sessions` does not tell accounts apart.
- **CreateUser**, which has no page; **the rate limiter and JWT validation**, which are
  configuration of the framework.
- **File storage**: an external service, whose failures are inputs of `CarPhotos`.
- **Schema, seed data, generated migrations**; **markup, primitives, icons and
  formatting**, which keep no state beyond a render; **the repository's scripts**,
  which are checks of its own.

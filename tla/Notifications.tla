----------------------------- MODULE Notifications -----------------------------
(***************************************************************************)
(* The bell of one tab: a count and the newest notifications, seeded over   *)
(* REST, pushed to by the socket, and changed at once when the user reads   *)
(* something.  A row of Connection is a notification of this user.          *)
(***************************************************************************)
EXTENDS Connection, Sequences

CONSTANTS RecentLimit    \* RECENT_LIMIT, 10 in the code

ASSUME RecentAssumption == RecentLimit \in Nat \ {0}

VARIABLES
    readRows,        \* rows with a ReadAt
    unreadCount,     \* the bell's badge
    recent,          \* the bell's notifications, newest first
    shownRead,       \* those of them it shows as read
    seed,            \* the refresh in flight
    mark,            \* the mark-read call in flight
    raced            \* history: something a seed has yet to settle, at first everything

bell == <<unreadCount, recent, shownRead>>
bellVars == <<readRows, bell, seed, mark, raced>>

NoMark == 0
AllRows == MaxRows + 1
NotRead == MaxRows + 1
Newest(n) == [i \in 1 .. IF n < RecentLimit THEN n ELSE RecentLimit |-> n + 1 - i]
Shown == {recent[i] : i \in DOMAIN recent}

(* Its two requests are read apart: the count, and the page as the rows and  *)
(* the read rows there were.  It is clean if nothing has happened since it   *)
(* was sent that its answer may not tell.                                   *)
NoSeed == [at |-> "none", count |-> NotRead, upTo |-> NotRead, read |-> {}, clean |-> TRUE]
Clean == OnTheWay = {} /\ mark = NoMark
Dirtied == [seed EXCEPT !.clean = seed.at = "none"]

BellTypeOK ==
    /\ readRows \subseteq 1 .. rows
    /\ unreadCount \in Nat
    /\ recent \in Seq(1 .. rows) /\ Len(recent) <= RecentLimit
    /\ shownRead \subseteq Shown
    /\ seed \in [at: {"none", "sent"}, count: 0 .. NotRead, upTo: 0 .. NotRead,
                 read: SUBSET (1 .. rows), clean: BOOLEAN]
    /\ mark \in NoMark .. AllRows
    /\ raced \in BOOLEAN

BellInit ==
    /\ readRows = {}
    /\ unreadCount = 0
    /\ recent = <<>>
    /\ shownRead = {}
    /\ seed = NoSeed
    /\ mark = NoMark
    /\ raced = TRUE

(* refresh: one request at a time, whoever asks. *)
Refresh ==
    seed' = IF seed.at = "none" THEN [NoSeed EXCEPT !.at = "sent", !.clean = Clean] ELSE seed

-----------------------------------------------------------------------------
(* The provider's effect on userId. *)

BellSignIn ==
    /\ ~signedIn
    /\ signedIn' = TRUE
    /\ Start
    /\ Refresh
    /\ raced' = TRUE
    /\ UNCHANGED <<pushes, readRows, bell, mark>>

BellSignOut ==
    /\ signedIn
    /\ signedIn' = FALSE
    /\ Stop
    /\ unreadCount' = 0
    /\ recent' = <<>>
    /\ shownRead' = {}
    /\ raced' = TRUE
    /\ seed' = Dirtied
    /\ UNCHANGED <<rows, pushing, readRows, mark>>

BellDrop(h) ==
    /\ Drop(h)
    /\ raced' = (raced \/ wire' # wire)
    /\ seed' = IF wire' # wire THEN Dirtied ELSE seed
    /\ UNCHANGED <<readRows, bell, mark>>

BellReconnect(h) ==
    /\ Reconnect(h)
    /\ Refresh
    /\ UNCHANGED <<readRows, bell, mark, raced>>

BellHubMoves == HubMoves /\ UNCHANGED bellVars

-----------------------------------------------------------------------------
(* The server *)

(* NotifyAsync, for any event of the application. *)
Notify ==
    /\ Store
    /\ seed' = Dirtied
    /\ UNCHANGED <<signedIn, socket, readRows, bell, mark, raced>>

(* Without an open socket the push is lost, with two it comes twice.        *)
NotifyPushed(r) ==
    /\ \/ PushSent(r) /\ raced' = (raced \/ Cardinality(wire' \ wire) # 1)
       \/ PushFails(r) /\ raced' = TRUE
    /\ UNCHANGED <<signedIn, socket, readRows, bell, seed, mark>>

ReadCount ==
    /\ seed.at = "sent" /\ seed.count = NotRead
    /\ seed' = [seed EXCEPT !.count = rows - Cardinality(readRows)]
    /\ UNCHANGED <<connectionVars, readRows, bell, mark, raced>>

ReadPage ==
    /\ seed.at = "sent" /\ seed.upTo = NotRead
    /\ seed' = [seed EXCEPT !.upTo = rows, !.read = readRows]
    /\ UNCHANGED <<connectionVars, readRows, bell, mark, raced>>

-----------------------------------------------------------------------------
(* notification-store *)

SeedLands ==
    /\ seed.count # NotRead /\ seed.upTo # NotRead
    /\ unreadCount' = seed.count
    /\ recent' = Newest(seed.upTo)
    /\ shownRead' = seed.read \cap {Newest(seed.upTo)[i] : i \in DOMAIN Newest(seed.upTo)}
    /\ raced' = ~seed.clean
    /\ seed' = NoSeed
    /\ UNCHANGED <<connectionVars, readRows, mark>>

(* The last known values stay. *)
SeedFails ==
    /\ seed.at = "sent"
    /\ seed' = NoSeed
    /\ UNCHANGED <<connectionVars, readRows, bell, mark, raced>>

(* Mutant of BellDelivered: the list grows past its limit. *)
BellDeliveredUntrimmed(h, r) ==
    /\ Arrives(h, r)
    /\ unreadCount' = unreadCount + 1
    /\ recent' = <<r>> \o recent
    /\ UNCHANGED shownRead
    /\ seed' = Dirtied
    /\ UNCHANGED <<signedIn, socket, readRows, mark, raced>>

(* A pushed notification is new and unread by definition.  One that comes    *)
(* after a newer one is put before it.                                      *)
BellDelivered(h, r) ==
    /\ Arrives(h, r)
    /\ unreadCount' = unreadCount + 1
    /\ recent' = SubSeq(<<r>> \o recent, 1, IF Len(recent) < RecentLimit
                                             THEN Len(recent) + 1 ELSE RecentLimit)
    /\ shownRead' = shownRead \cap {recent'[i] : i \in DOMAIN recent'}
    /\ raced' = (raced \/ \E q \in OnTheWay : q < r)
    /\ seed' = Dirtied
    /\ UNCHANGED <<signedIn, socket, readRows, mark>>

(* Mutant of MarkRead: one already shown as read is counted again. *)
MarkReadAgain(r) ==
    /\ signedIn
    /\ mark = NoMark
    /\ unreadCount' = IF unreadCount = 0 THEN 0 ELSE unreadCount - 1
    /\ shownRead' = shownRead \cup ({r} \cap Shown)
    /\ mark' = r
    /\ raced' = (raced \/ (r \notin Shown /\ (r \in readRows \/ OnTheWay # {})))
    /\ seed' = Dirtied
    /\ UNCHANGED <<connectionVars, readRows, recent>>

(* markRead, of a notification in the bell or one further down the list of   *)
(* the notifications page, which may not know that it has been read since.  *)
MarkRead(r) ==
    /\ signedIn
    /\ mark = NoMark                         \* bound: one call at a time
    /\ r \in Shown => r \notin shownRead
    /\ unreadCount' = IF unreadCount = 0 THEN 0 ELSE unreadCount - 1
    /\ shownRead' = shownRead \cup ({r} \cap Shown)
    /\ mark' = r
    /\ raced' = (raced \/ (r \notin Shown /\ (r \in readRows \/ OnTheWay # {})))
    /\ seed' = Dirtied
    /\ UNCHANGED <<connectionVars, readRows, recent>>

(* markAllRead: the server's update also reads what is still on its way. *)
MarkAllRead ==
    /\ signedIn
    /\ mark = NoMark
    /\ unreadCount' = 0
    /\ shownRead' = Shown
    /\ mark' = AllRows
    /\ raced' = (raced \/ OnTheWay # {})
    /\ seed' = Dirtied
    /\ UNCHANGED <<connectionVars, readRows, recent>>

(* Saved; the notifications page then asks for a refresh, the bell does not. *)
MarkSaved ==
    /\ mark # NoMark
    /\ readRows' = readRows \cup IF mark = AllRows THEN 1 .. rows ELSE {mark}
    /\ mark' = NoMark
    /\ raced' = (raced \/ (mark = AllRows /\ (unreadCount # 0 \/ OnTheWay # {})))
    /\ \/ seed' = Dirtied
       \/ seed.at = "none" /\ seed' = [NoSeed EXCEPT !.at = "sent", !.clean = OnTheWay = {}]
    /\ UNCHANGED <<connectionVars, bell>>

(* A failed call is re-read rather than guessed at. *)
MarkFails ==
    /\ mark # NoMark
    /\ mark' = NoMark
    /\ seed' = IF seed.at = "none" THEN [NoSeed EXCEPT !.at = "sent", !.clean = OnTheWay = {}]
                                   ELSE Dirtied
    /\ raced' = TRUE
    /\ UNCHANGED <<connectionVars, readRows, bell>>

BellNext ==
    \/ BellSignIn
    \/ BellSignOut
    \/ BellHubMoves
    \/ \E h \in Hubs : \/ BellDrop(h)
                       \/ BellReconnect(h)
                       \/ \E r \in 1 .. rows : BellDelivered(h, r)
    \/ Notify
    \/ ReadCount
    \/ ReadPage
    \/ SeedLands
    \/ SeedFails
    \/ \E r \in 1 .. rows : NotifyPushed(r) \/ MarkRead(r)
    \/ MarkAllRead
    \/ MarkSaved
    \/ MarkFails

BellSpec ==
    /\ ConnectionInit /\ BellInit
    /\ [][BellNext]_<<connectionVars, bellVars>>

-----------------------------------------------------------------------------

(* With nothing under way, the badge counts what the server has unread and   *)
(* the list is its newest rows, each shown read or not as it is: pushes,     *)
(* optimistic reads and the trimming of the list come to what a re-read      *)
(* would give, and one clean re-read mends whatever went wrong before it:    *)
(* pushes that failed after their row was stored, were lost with a socket,   *)
(* came twice or came out of order.                                         *)
BellInStep ==
    signedIn /\ seed.at = "none" /\ mark = NoMark /\ OnTheWay = {} /\ ~raced =>
        /\ unreadCount = rows - Cardinality(readRows)
        /\ recent = Newest(rows)
        /\ shownRead = readRows \cap Shown

=============================================================================

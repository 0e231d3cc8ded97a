-------------------------------- MODULE Thread --------------------------------
(***************************************************************************)
(* The conversations of one tab: the page of a booking's thread, which      *)
(* merges the history read over REST with what the socket brings and what   *)
(* this user sends, and the inbox, which re-reads its list whenever a       *)
(* message arrives.  A row of Connection is a message of the conversation.  *)
(***************************************************************************)
EXTENDS Connection

CONSTANTS PageSize    \* the thread's pageSize, 50 in the code

ASSUME PageAssumption == PageSize \in Nat \ {0}

VARIABLES
    mine,            \* messages this user sent; the others are addressed to them
    unseen,          \* messages to this user with no ReadAt
    page,            \* the page that is mounted
    fetch,           \* its useAsync: what is on screen and the newest run
    history,         \* the last answer was read when there were messages 1 .. history
    live,            \* messages in the thread's own list
    marking,         \* a markThreadRead is on its way
    posting,         \* the composer: 0, Sending, or the message that was saved
    missed,          \* history: messages this page was not told of, and has not re-read
    markLost         \* history: a markThreadRead failed, which nobody retries

view == <<page, fetch, history, live>>
threadVars == <<mine, unseen, view, marking, posting, missed, markLost>>

Sending == MaxRows + 1

(* useAsync: the newest run has been sent, or the server has read messages   *)
(* 1 .. upTo for it.  Older runs are cancelled and change nothing.          *)
Fetch == [shown: {"loading", "success", "error"}, at: {"none", "sent", "read"},
          upTo: 0 .. MaxRows]
Mounting == [shown |-> "loading", at |-> "sent", upTo |-> 0]

ThreadTypeOK ==
    /\ mine \subseteq 1 .. rows
    /\ unseen \subseteq (1 .. rows) \ mine
    /\ page \in {"thread", "inbox"}
    /\ fetch \in Fetch
    /\ history \in 0 .. rows
    /\ live \subseteq 1 .. rows
    /\ marking \in BOOLEAN
    /\ posting \in 0 .. Sending
    /\ missed \subseteq 1 .. rows
    /\ markLost \in BOOLEAN

ThreadInit ==
    /\ mine = {}
    /\ unseen = {}
    /\ page = "inbox"
    /\ fetch = Mounting
    /\ history = 0
    /\ live = {}
    /\ marking = FALSE
    /\ posting = 0
    /\ missed = {}
    /\ markLost = FALSE

Reload == fetch' = [fetch EXCEPT !.at = "sent", !.upTo = 0]

(* Mounting the thread also marks it read; what another page awaited is      *)
(* dealt with already, or never.                                            *)
Mount(p) ==
    /\ page' = p
    /\ fetch' = Mounting
    /\ history' = 0
    /\ live' = {}
    /\ marking' = (p = "thread")
    /\ posting' = 0
    /\ missed' = {}
    /\ markLost' = FALSE

-----------------------------------------------------------------------------
(* The pages are behind a guard: mounted with a session, unmounted without.  *)

ThreadSignIn(p) ==
    /\ ~signedIn
    /\ signedIn' = TRUE
    /\ Start
    /\ Mount(p)
    /\ UNCHANGED <<pushes, mine, unseen>>

ThreadSignOut ==
    /\ signedIn
    /\ signedIn' = FALSE
    /\ Stop
    /\ UNCHANGED <<rows, pushing, threadVars>>

Navigate(p) ==
    /\ signedIn
    /\ p # page
    /\ Mount(p)
    /\ UNCHANGED <<connectionVars, mine, unseen>>

ThreadDrop(h) ==
    /\ Drop(h)
    /\ missed' = IF page = "inbox" THEN missed \cup {m[2] : m \in wire \ wire'} ELSE missed
    /\ UNCHANGED <<mine, unseen, view, marking, posting, markLost>>

(* Mutant of ThreadReconnect: the thread does not re-read. *)
ThreadReconnectSilently(h) == Reconnect(h) /\ UNCHANGED threadVars

(* "Re-reading the thread is the only way to catch up."  The inbox does not. *)
ThreadReconnect(h) ==
    /\ Reconnect(h)
    /\ IF page = "thread" THEN Reload ELSE UNCHANGED fetch
    /\ UNCHANGED <<mine, unseen, page, history, live, marking, posting, missed, markLost>>

ThreadHubMoves == HubMoves /\ UNCHANGED threadVars

-----------------------------------------------------------------------------
(* The server *)

(* SendMessage by the other side. *)
Incoming ==
    /\ Store
    /\ unseen' = unseen \cup {rows + 1}
    /\ UNCHANGED <<signedIn, socket, mine, view, marking, posting, missed, markLost>>

WillReread == page = "thread" /\ connection # 0 /\ hub[connection] = "retrying"

(* A page is not told when the push fails, nor while the first connection is *)
(* being made, the inbox not while it is being remade either.               *)
IncomingPushed(r) ==
    /\ \/ PushSent(r) /\ missed' = IF Online \/ WillReread THEN missed ELSE missed \cup {r}
       \/ PushFails(r) /\ missed' = IF WillReread THEN missed ELSE missed \cup {r}
    /\ UNCHANGED <<signedIn, socket, mine, unseen, view, marking, posting, markLost>>

(* Mutant of PostSaved: the message is addressed to its sender. *)
PostSavedToSelf ==
    /\ posting = Sending
    /\ rows < MaxRows
    /\ rows' = rows + 1
    /\ mine' = mine \cup {rows + 1}
    /\ unseen' = unseen \cup {rows + 1}
    /\ posting' = rows + 1
    /\ UNCHANGED <<signedIn, socket, pushing, wire, view, marking, missed, markLost>>

(* SendMessage by this side: only the other is told. *)
PostSaved ==
    /\ posting = Sending
    /\ rows < MaxRows
    /\ rows' = rows + 1
    /\ mine' = mine \cup {rows + 1}
    /\ posting' = rows + 1
    /\ UNCHANGED <<signedIn, socket, pushing, wire, unseen, view, marking, missed, markLost>>

(* MarkThreadRead: one update of all that is addressed to the caller. *)
MarkThreadRead ==
    /\ marking
    /\ marking' = FALSE
    /\ \/ unseen' = {} /\ UNCHANGED markLost
       \/ UNCHANGED unseen /\ markLost' = TRUE
    /\ UNCHANGED <<connectionVars, mine, view, posting, missed>>

(* getBookingMessages, or for the inbox its list of threads. *)
FetchRead ==
    /\ fetch.at = "sent"
    /\ fetch' = [fetch EXCEPT !.at = "read", !.upTo = rows]
    /\ UNCHANGED <<connectionVars, mine, unseen, page, history, live, marking, posting, missed, markLost>>

-----------------------------------------------------------------------------
(* The pages *)

Loaded ==
    /\ signedIn
    /\ fetch.at = "read"
    /\ fetch' = [shown |-> "success", at |-> "none", upTo |-> 0]
    /\ history' = fetch.upTo
    /\ missed' = missed \ (1 .. fetch.upTo)
    /\ UNCHANGED <<connectionVars, mine, unseen, page, live, marking, posting, markLost>>

LoadFails ==
    /\ signedIn
    /\ fetch.at # "none"
    /\ fetch' = [shown |-> "error", at |-> "none", upTo |-> 0]
    /\ UNCHANGED <<connectionVars, mine, unseen, page, history, live, marking, posting, missed, markLost>>

Retry ==
    /\ signedIn
    /\ fetch.shown = "error"
    /\ Reload
    /\ UNCHANGED <<connectionVars, mine, unseen, page, history, live, marking, posting, missed, markLost>>

(* Mutant of ThreadDelivered: the message is shown and not marked as read. *)
ThreadDeliveredUnmarked(h, r) ==
    /\ Arrives(h, r)
    /\ IF page = "thread"
       THEN live' = live \cup {r} /\ UNCHANGED fetch
       ELSE Reload /\ UNCHANGED live
    /\ UNCHANGED <<signedIn, socket, mine, unseen, page, history, marking, posting, missed, markLost>>

(* The thread merges it in by id and marks it read as it arrives. *)
ThreadDelivered(h, r) ==
    /\ Arrives(h, r)
    /\ IF page = "thread"
       THEN live' = live \cup {r} /\ marking' = TRUE /\ UNCHANGED fetch
       ELSE Reload /\ UNCHANGED <<live, marking>>
    /\ UNCHANGED <<signedIn, socket, mine, unseen, page, history, posting, missed, markLost>>

(* The composer sends one message at a time. *)
Post ==
    /\ signedIn /\ page = "thread" /\ fetch.shown = "success"
    /\ posting = 0
    /\ posting' = Sending
    /\ UNCHANGED <<connectionVars, mine, unseen, view, marking, missed, markLost>>

PostAnswered ==
    /\ posting \in 1 .. MaxRows
    /\ live' = live \cup {posting}
    /\ posting' = 0
    /\ UNCHANGED <<connectionVars, mine, unseen, page, fetch, history, marking, missed, markLost>>

(* Refused or lost; a message whose answer is lost has been sent.            *)
PostFails ==
    /\ posting # 0
    /\ missed' = missed \cup ({posting} \ {Sending})
    /\ posting' = 0
    /\ UNCHANGED <<connectionVars, mine, unseen, view, marking, markLost>>

ThreadNext ==
    \/ \E p \in {"thread", "inbox"} : ThreadSignIn(p) \/ Navigate(p)
    \/ ThreadSignOut
    \/ ThreadHubMoves
    \/ \E h \in Hubs : \/ ThreadDrop(h)
                       \/ ThreadReconnect(h)
                       \/ \E r \in 1 .. rows : ThreadDelivered(h, r)
    \/ Incoming
    \/ \E r \in 1 .. rows : IncomingPushed(r)
    \/ PostSaved
    \/ MarkThreadRead
    \/ FetchRead
    \/ Loaded
    \/ LoadFails
    \/ Retry
    \/ Post
    \/ PostAnswered
    \/ PostFails

ThreadSpec ==
    /\ ConnectionInit /\ ThreadInit
    /\ [][ThreadNext]_<<connectionVars, threadVars>>

-----------------------------------------------------------------------------

Settled ==
    /\ signedIn /\ Online /\ OnTheWay = {}
    /\ fetch.shown = "success" /\ fetch.at = "none"
    /\ posting = 0

(* The messages of the last answer.  The thread asks for one page of its     *)
(* newest messages and never for an older one; the inbox lists its threads  *)
(* by the newest message of each.                                           *)
OnPage == {m \in 1 .. history : page = "thread" => history < m + PageSize}

(* A page that is connected and has nothing to wait for shows every message  *)
(* since the oldest on its page of history, however answers, pushes in any  *)
(* order, reconnections and the user's own messages were interleaved, but   *)
(* for what it could not hear of and has not re-read since: messages whose  *)
(* push failed or came while its first connection was being made, to an     *)
(* inbox also while it was being remade, and its own whose answer was lost. *)
ThreadIsWhole ==
    Settled => \A m \in 1 .. rows :
                   (page = "thread" => history < m + PageSize) =>
                       m \in OnPage \cup live \cup missed

(* "Reading it as it arrives is what keeps the badge honest for someone      *)
(* sitting on the thread": what the socket brought to an open thread does    *)
(* not stay unread, unless the call that says so failed.                    *)
LiveIsRead ==
    signedIn /\ ~marking /\ ~markLost => live \cap unseen = {}

=============================================================================

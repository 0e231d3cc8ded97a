---------------------------- MODULE RealtimeProofs ----------------------------
(***************************************************************************)
(* What the connection of a tab, its bell and its conversation promise, for  *)
(* any number of hubs and rows.                                             *)
(***************************************************************************)
EXTENDS MCRealtime, FiniteSetTheorems, WellFoundedInduction, TLAPS

-----------------------------------------------------------------------------
(* Connection *)

SocketVars == <<signedIn, hub, connection, startInFlight, clobbered>>

SocketInv ==
    /\ signedIn \in BOOLEAN
    /\ hub \in [Hubs -> HubState]
    /\ connection \in {0} \cup Hubs
    /\ SocketIsOwned

(* What the bell and the thread do to the connection. *)
SocketNext ==
    \/ ~signedIn /\ signedIn' = TRUE /\ Start
    \/ signedIn /\ signedIn' = FALSE /\ Stop
    \/ HubMoves
    \/ \E h \in Hubs : Drop(h) \/ Reconnect(h)
    \/ UNCHANGED SocketVars

LEMMA LeastOf ==
    ASSUME NEW T, T \subseteq Nat, T # {}
    PROVE  \E x \in T : \A y \in T : x <= y
<1> DEFINE R == OpToRel(<, Nat)
<1>1. IsWellFoundedOn(R, Nat)
  BY NatLessThanWellFounded
<1> HIDE DEF R
<1>2. PICK x \in T : \A y \in T : <<y, x>> \notin R
  BY <1>1, WFMin
<1>3. \A y \in T : x \in Nat /\ y \in Nat /\ (y < x => <<y, x>> \in R)
  BY DEF R, OpToRel
<1>4. \A y \in T : x <= y
  <2> TAKE y \in T
  <2>1. ~(y < x)
    BY <1>2, <1>3
  <2> QED
    BY <1>3, <2>1
<1> QED
  BY <1>4

(* The hub that start() builds is one that was not used. *)
LEMMA NewHub ==
    ASSUME Unused # {}
    PROVE  (CHOOSE u \in Unused : \A v \in Unused : u <= v) \in Unused
<1>1. Unused \subseteq Nat
  BY DEF Unused, Hubs
<1>2. \E u \in Unused : \A v \in Unused : u <= v
  BY <1>1, LeastOf
<1> QED
  BY <1>2

LEMMA SocketInit == ConnectionInit => SocketInv
<1> SUFFICES ASSUME ConnectionInit PROVE SocketInv
  OBVIOUS
<1>1. \A h \in Hubs : hub[h] = "unused"
  BY DEF ConnectionInit
<1> QED
  BY <1>1 DEF ConnectionInit, SocketInv, SocketIsOwned, Live, HubState

LEMMA SocketStep == SocketInv /\ SocketNext => SocketInv'
<1> SUFFICES ASSUME SocketInv, SocketNext PROVE SocketInv'
  OBVIOUS
<1>1. CASE ~signedIn /\ signedIn' = TRUE /\ Start
  <2>1. clobbered \/ \A h \in Hubs : ~Live(h)
    BY <1>1 DEF SocketInv, SocketIsOwned
  <2>2. CASE UNCHANGED socket
    BY <1>1, <2>1, <2>2 DEF socket, SocketInv, SocketIsOwned, Live
  <2>3. ASSUME NEW h \in Hubs, hub' = [hub EXCEPT ![h] = "starting"],
               connection' = h, clobbered' = clobbered
        PROVE  SocketInv'
    BY <1>1, <2>1, <2>3 DEF SocketInv, SocketIsOwned, Live, HubState
  <2> QED
    BY <1>1, <2>2, <2>3, NewHub DEF Start, Unused
<1>2. CASE signedIn /\ signedIn' = FALSE /\ Stop
  <2>1. hub' \in [Hubs -> HubState]
    BY <1>2 DEF Stop, SocketInv, HubState
  <2>2. clobbered' = clobbered /\ connection' = 0
    BY <1>2 DEF Stop
  <2>3. ASSUME NEW h \in Hubs
        PROVE  Live(h)' => Live(h) /\ h # connection
    BY <1>2 DEF Stop, Live
  <2> QED
    BY <1>2, <2>1, <2>2, <2>3 DEF SocketInv, SocketIsOwned
<1>3. ASSUME NEW h \in Hubs, Started(h) \/ GiveUp(h) \/ Drop(h) \/ Reconnect(h)
      PROVE  SocketInv'
  <2>1. UNCHANGED <<signedIn, connection, clobbered>>
    BY <1>3 DEF Started, GiveUp, Drop, Reconnect
  <2>2. hub' \in [Hubs -> HubState] /\ Live(h) /\ \A k \in Hubs : hub'[k] = hub[k] \/ k = h
    BY <1>3 DEF Started, GiveUp, Drop, Reconnect, SocketInv, HubState, Live
  <2> QED
    BY <2>1, <2>2 DEF SocketInv, SocketIsOwned, Live
<1>4. ASSUME NEW h \in Hubs, StartFailed(h)
      PROVE  SocketInv'
  <2>1. /\ hub' = [hub EXCEPT ![h] = "closed"] /\ connection' = 0 /\ signedIn' = signedIn
        /\ clobbered' = (clobbered \/ connection \notin {0, h})
    BY <1>4 DEF StartFailed
  <2>2. hub' \in [Hubs -> HubState]
    BY <2>1 DEF SocketInv, HubState
  <2>3. CASE clobbered'
    BY <2>1, <2>2, <2>3 DEF SocketInv, SocketIsOwned
  <2>4. CASE ~clobbered'
    BY <2>1, <2>2, <2>4 DEF SocketInv, SocketIsOwned, Live, Hubs
  <2> QED
    BY <2>3, <2>4
<1>5. CASE UNCHANGED SocketVars
  BY <1>5 DEF SocketVars, SocketInv, SocketIsOwned, Live
<1> QED
  BY <1>1, <1>2, <1>3, <1>4, <1>5 DEF SocketNext, HubMoves

(* A hub that can deliver is the one that signing out would close, whatever  *)
(* starts, stops, drops and late failures a tab goes through.               *)
THEOREM BellOwnsSocket == BellSpec => []SocketIsOwned
<1>1. [BellNext]_<<connectionVars, bellVars>> => SocketNext
  BY DEF BellNext, SocketNext, SocketVars, connectionVars, socket, BellSignIn, BellSignOut,
         BellHubMoves, BellDrop, BellReconnect, BellDelivered, Notify, NotifyPushed, ReadCount,
         ReadPage, SeedLands, SeedFails, MarkRead, MarkAllRead, MarkSaved, MarkFails
<1>2. SocketInv => SocketIsOwned
  BY DEF SocketInv
<1> QED
  BY <1>1, <1>2, SocketInit, SocketStep, PTL DEF BellSpec

LEMMA ThreadMovesSocket == [ThreadNext]_<<connectionVars, threadVars>> => SocketNext
  BY DEF ThreadNext, SocketNext, SocketVars, connectionVars, socket, ThreadSignIn,
         ThreadSignOut, ThreadHubMoves, ThreadDrop, ThreadReconnect, ThreadDelivered,
         Navigate, Incoming, IncomingPushed, PostSaved, MarkThreadRead, FetchRead, Loaded,
         LoadFails, Retry, Post, PostAnswered, PostFails

(* The same beside a conversation. *)
THEOREM ThreadOwnsSocket == ThreadSpec => []SocketIsOwned
<1>1. SocketInv => SocketIsOwned
  BY DEF SocketInv
<1> QED
  BY <1>1, ThreadMovesSocket, SocketInit, SocketStep, PTL DEF ThreadSpec

-----------------------------------------------------------------------------
(* Thread: what is shown is read *)

(* What reached the thread is older than the last row, and a message that    *)
(* this user sent is never one that they have yet to read.                  *)
ReadInv ==
    /\ rows \in Nat
    /\ live \subseteq 1 .. rows
    /\ mine \subseteq 1 .. rows
    /\ unseen \subseteq (1 .. rows) \ mine
    /\ posting \in {0, Sending} \cup mine
    /\ LiveIsRead

LEMMA ReadStep ==
    ASSUME ReadInv, [ThreadNext]_<<connectionVars, threadVars>>
    PROVE  ReadInv'
<1> USE ConnectionAssumption DEF ConnectionAssumption
<1> USE DEF ReadInv, LiveIsRead
<1>1. ASSUME NEW p \in {"thread", "inbox"}, ThreadSignIn(p) \/ Navigate(p)
      PROVE  ReadInv'
  <2>1. UNCHANGED <<rows, mine, unseen>> /\ live' = {} /\ posting' = 0
    BY <1>1 DEF ThreadSignIn, Navigate, Mount, connectionVars, pushes
  <2> QED
    BY <2>1
<1>2. CASE ThreadSignOut
  BY <1>2 DEF ThreadSignOut, threadVars, view
<1>3. ASSUME UNCHANGED <<rows, mine, unseen, live, posting>>,
             signedIn' = signedIn,
             ~marking' /\ ~markLost' => ~marking /\ ~markLost
      PROVE  ReadInv'
  BY <1>3
<1>4. CASE ThreadHubMoves \/ FetchRead \/ Loaded \/ LoadFails \/ Retry
  <2>1. UNCHANGED <<signedIn, rows, mine, unseen, live, posting, marking, markLost>>
    BY <1>4 DEF ThreadHubMoves, HubMoves, Started, StartFailed, GiveUp, threadVars, view,
                FetchRead, Loaded, LoadFails, Retry, connectionVars, pushes
  <2> QED
    BY <1>3, <2>1
<1>5. ASSUME NEW h \in Hubs, ThreadDrop(h) \/ ThreadReconnect(h)
      PROVE  ReadInv'
  <2>1. UNCHANGED <<signedIn, rows, mine, unseen, live, posting, marking, markLost>>
    BY <1>5 DEF ThreadDrop, Drop, ThreadReconnect, Reconnect, pushes, view
  <2> QED
    BY <1>3, <2>1
<1>6. ASSUME NEW h \in Hubs, NEW r \in 1 .. rows, ThreadDelivered(h, r)
      PROVE  ReadInv'
  <2>1. UNCHANGED <<signedIn, rows, mine, unseen, posting, markLost>>
    BY <1>6 DEF ThreadDelivered, Arrives
  <2>2. \/ live' = live \cup {r} /\ marking' = TRUE
        \/ UNCHANGED <<live, marking>>
    BY <1>6 DEF ThreadDelivered
  <2> QED
    BY <2>1, <2>2
<1>7. CASE Incoming
  <2>1. /\ rows' = rows + 1 /\ unseen' = unseen \cup {rows + 1}
        /\ UNCHANGED <<signedIn, mine, live, posting, marking, markLost>>
    BY <1>7 DEF Incoming, Store, view
  <2> QED
    BY <2>1
<1>8. CASE PostSaved
  <2>1. /\ rows' = rows + 1 /\ mine' = mine \cup {rows + 1} /\ posting' = rows + 1
        /\ UNCHANGED <<signedIn, unseen, live, marking, markLost>>
    BY <1>8 DEF PostSaved, view
  <2> QED
    BY <2>1
<1>9. CASE MarkThreadRead
  <2>1. /\ unseen' = {} \/ (unseen' = unseen /\ markLost' = TRUE)
        /\ UNCHANGED <<signedIn, rows, mine, live, posting>>
    BY <1>9 DEF MarkThreadRead, view, connectionVars, pushes
  <2> QED
    BY <2>1
<1>10. CASE Post \/ PostFails
  <2>1. /\ posting' \in {0, Sending}
        /\ UNCHANGED <<signedIn, rows, mine, unseen, live, marking, markLost>>
    BY <1>10 DEF Post, PostFails, view, connectionVars, pushes
  <2> QED
    BY <2>1
<1>11. CASE PostAnswered
  <2>1. /\ posting \in 1 .. MaxRows /\ live' = live \cup {posting} /\ posting' = 0
        /\ UNCHANGED <<signedIn, rows, mine, unseen, marking, markLost>>
    BY <1>11 DEF PostAnswered, connectionVars, pushes
  <2>2. posting \in mine
    BY <2>1 DEF Sending
  <2> QED
    BY <2>1, <2>2
<1>12. CASE UNCHANGED <<connectionVars, threadVars>>
  BY <1>12 DEF connectionVars, pushes, threadVars, view
<1>13. ASSUME NEW r \in 1 .. rows, IncomingPushed(r)
       PROVE  ReadInv'
  <2>1. UNCHANGED <<signedIn, rows, mine, unseen, live, posting, marking, markLost>>
    BY <1>13 DEF IncomingPushed, PushSent, PushFails, view
  <2> QED
    BY <1>3, <2>1
<1> QED
  BY <1>1, <1>2, <1>4, <1>5, <1>6, <1>7, <1>8, <1>9, <1>10, <1>11, <1>12, <1>13 DEF ThreadNext

(* A message that arrived on an open thread does not stay unread, whatever   *)
(* arrived, was sent or was reloaded while the mark was on its way.         *)
THEOREM ArrivalsAreRead == ThreadSpec => []LiveIsRead
<1>1. ConnectionInit /\ ThreadInit => ReadInv
  BY DEF ConnectionInit, ThreadInit, ReadInv, LiveIsRead
<1>2. ReadInv => LiveIsRead
  BY DEF ReadInv
<1> QED
  BY <1>1, <1>2, ReadStep, PTL DEF ThreadSpec

-----------------------------------------------------------------------------
(* Thread: nothing is left out *)

(* Why a message that is not shown is still to come, or excused.             *)
Awaited(m) ==
    \/ m = posting
    \/ fetch.at = "sent"
    \/ fetch.at = "read" /\ m <= fetch.upTo
    \/ fetch.at = "none" /\ fetch.shown # "success"

Reachable(m) ==
    \/ connection = 0
    \/ hub[connection] = "closed"
    \/ hub[connection] = "retrying" /\ page = "thread"
    \/ m \in pushing
    \/ <<connection, m>> \in wire

Heard(m) == m <= history \/ m \in live \/ m \in missed

Accounted(m) == Heard(m) \/ Awaited(m) \/ Reachable(m)

WholeInv ==
    /\ hub \in [Hubs -> HubState]
    /\ connection \in {0} \cup Hubs
    /\ rows \in 0 .. MaxRows
    /\ pushing \subseteq 1 .. rows
    /\ page \in {"thread", "inbox"}
    /\ fetch \in Fetch
    /\ history \in 0 .. rows
    /\ fetch.at = "read" => history <= fetch.upTo /\ fetch.upTo <= rows
    /\ signedIn => \A m \in 1 .. rows : Accounted(m)

LEMMA WholeSettles == WholeInv => ThreadIsWhole
<1> SUFFICES ASSUME WholeInv, Settled, NEW m \in 1 .. rows,
                    page = "thread" => history < m + PageSize
             PROVE  m \in OnPage \cup live \cup missed
  BY DEF ThreadIsWhole
<1>1. Accounted(m) /\ rows \in Nat /\ history \in Nat
  BY DEF WholeInv, Settled
<1>2. m \notin pushing /\ <<connection, m>> \notin wire
  <2>1. ASSUME <<connection, m>> \in wire
        PROVE  m \in OnTheWay
    <3>1. <<connection, m>>[2] = m
      OBVIOUS
    <3> QED
      BY <2>1, <3>1 DEF OnTheWay
  <2> QED
    BY <2>1 DEF Settled, OnTheWay
<1>3. ~Awaited(m) /\ ~Reachable(m)
  BY <1>2 DEF Settled, Online, Awaited, Reachable
<1>4. m <= history => m \in OnPage
  BY <1>1 DEF OnPage
<1> QED
  BY <1>1, <1>3, <1>4 DEF Accounted, Heard

LEMMA WholeStep ==
    ASSUME WholeInv, SocketInv', [ThreadNext]_<<connectionVars, threadVars>>
    PROVE  WholeInv'
<1> USE ConnectionAssumption DEF ConnectionAssumption
<1>0. /\ rows \in Nat /\ history \in Nat /\ fetch.upTo \in Nat
      /\ hub' \in [Hubs -> HubState] /\ connection' \in {0} \cup Hubs
  BY DEF WholeInv, Fetch, SocketInv
(* A run of useAsync that starts over accounts for everything. *)
<1>1. ASSUME rows' \in 0 .. MaxRows, pushing' \subseteq 1 .. rows', page' \in {"thread", "inbox"}, history' \in 0 .. rows',
             fetch' \in Fetch, fetch'.at = "sent"
      PROVE  WholeInv'
  BY <1>0, <1>1 DEF WholeInv, Accounted, Awaited
<1>2. ASSUME Reload PROVE fetch' \in Fetch /\ fetch'.at = "sent"
  <2> DEFINE f == [fetch EXCEPT !.at = "sent", !.upTo = 0]
  <2>1. fetch \in Fetch /\ 0 \in 0 .. MaxRows
    BY DEF WholeInv
  <2>2. f \in Fetch /\ f.at = "sent"
    BY <2>1 DEF Fetch
  <2>3. fetch' = f
    BY <1>2 DEF Reload
  <2> QED
    BY <2>2, <2>3
<1>3. ASSUME NEW p \in {"thread", "inbox"}, ThreadSignIn(p) \/ Navigate(p)
      PROVE  WholeInv'
  <2>1. /\ UNCHANGED <<rows, pushing>> /\ page' = p /\ history' = 0
        /\ fetch' = Mounting
    BY <1>3 DEF ThreadSignIn, Navigate, Mount, connectionVars, pushes
  <2>2. Mounting \in Fetch /\ Mounting.at = "sent"
    BY DEF Mounting, Fetch
  <2> QED
    BY <1>0, <1>1, <2>1, <2>2 DEF WholeInv
<1>4. CASE ThreadSignOut
  BY <1>0, <1>4 DEF ThreadSignOut, threadVars, view, WholeInv
(* A step that leaves the pages alone. *)
<1>5. ASSUME UNCHANGED <<signedIn, rows, page, fetch, history, live, posting>>,
             pushing' \subseteq pushing,
             \A m : m \in missed => m \in missed',
             ASSUME NEW m \in 1 .. rows, Reachable(m)
             PROVE  Reachable(m)' \/ m \in missed'
      PROVE  WholeInv'
  BY <1>0, <1>5 DEF WholeInv, Accounted, Heard, Awaited
<1>6. CASE ThreadHubMoves
  <2>1. UNCHANGED <<signedIn, rows, pushing, wire, page, fetch, history, live, posting, missed>>
    BY <1>6 DEF ThreadHubMoves, HubMoves, Started, StartFailed, GiveUp, pushes, threadVars, view
  <2>2. \/ connection' = 0
        \/ /\ connection' = connection
           /\ \/ hub'[connection] = hub[connection]
              \/ hub'[connection] = "closed"
              \/ hub[connection] = "starting"
    BY <1>6 DEF ThreadHubMoves, HubMoves, Started, StartFailed, GiveUp, WholeInv
  <2>3. ASSUME NEW m \in 1 .. rows, Reachable(m)
        PROVE  Reachable(m)'
    BY <2>1, <2>2, <2>3 DEF Reachable
  <2> QED
    BY <1>5, <2>1, <2>3
<1>7. ASSUME NEW h \in Hubs, ThreadDrop(h)
      PROVE  WholeInv'
  <2>1. /\ UNCHANGED <<signedIn, connection, rows, pushing, page, fetch, history, live, posting>>
        /\ hub[h] = "open" /\ hub' = [hub EXCEPT ![h] = "retrying"]
        /\ wire' = {m \in wire : m[1] # h}
        /\ missed' = IF page = "inbox" THEN missed \cup {m[2] : m \in wire \ wire'} ELSE missed
    BY <1>7 DEF ThreadDrop, Drop, view
  <2>2. ASSUME NEW m \in 1 .. rows, Reachable(m)
        PROVE  Reachable(m)' \/ m \in missed'
    <3>1. CASE connection # h
      BY <1>7, <2>1, <2>2, <3>1 DEF Reachable, WholeInv
    <3>2. CASE connection = h /\ page = "thread"
      BY <1>7, <2>1, <3>2 DEF Reachable, WholeInv
    <3>3. CASE m \in pushing
      BY <2>1, <3>3 DEF Reachable
    <3>4. CASE connection = h /\ page = "inbox" /\ m \notin pushing
      <4>1. <<h, m>> \in wire \ wire'
        BY <2>1, <2>2, <3>4 DEF Reachable, Hubs
      <4>2. <<h, m>>[2] = m
        OBVIOUS
      <4> QED
        BY <2>1, <3>4, <4>1, <4>2
    <3> QED
      BY <3>1, <3>2, <3>3, <3>4 DEF WholeInv
  <2> QED
    BY <1>5, <2>1, <2>2
<1>8. ASSUME NEW h \in Hubs, ThreadReconnect(h)
      PROVE  WholeInv'
  <2>1. /\ UNCHANGED <<signedIn, connection, rows, pushing, wire, page, history, live,
                       posting, missed>>
        /\ hub' = [hub EXCEPT ![h] = "open"]
        /\ hub[h] = "retrying"
        /\ IF page = "thread" THEN Reload ELSE fetch' = fetch
    BY <1>8 DEF ThreadReconnect, Reconnect, pushes
  <2>2. CASE page = "thread"
    BY <1>1, <1>2, <2>1, <2>2 DEF WholeInv
  <2>3. CASE page # "thread"
    <3>1. ASSUME NEW m \in 1 .. rows, Reachable(m)
          PROVE  Reachable(m)'
      BY <1>8, <2>1, <2>3, <3>1 DEF Reachable, WholeInv
    <3> QED
      BY <1>5, <2>1, <2>3, <3>1
  <2> QED
    BY <2>2, <2>3
<1>9. ASSUME NEW h \in Hubs, NEW r \in 1 .. rows, ThreadDelivered(h, r)
      PROVE  WholeInv'
  <2>1. /\ UNCHANGED <<signedIn, hub, connection, rows, pushing, page, history, posting, missed>>
        /\ wire' = wire \ {<<h, r>>}
    BY <1>9 DEF ThreadDelivered, Arrives, socket
  <2>2. \/ page = "thread" /\ live' = live \cup {r} /\ fetch' = fetch
        \/ Reload
    BY <1>9 DEF ThreadDelivered
  <2>3. CASE Reload
    BY <1>1, <1>2, <2>1, <2>3 DEF WholeInv
  <2>4. CASE page = "thread" /\ live' = live \cup {r} /\ fetch' = fetch
    <3>1. \A m : <<connection, m>> \in wire => <<connection, m>> \in wire' \/ m = r
      BY <2>1
    <3> QED
      BY <1>0, <2>1, <2>4, <3>1 DEF WholeInv, Accounted, Heard, Awaited, Reachable
  <2> QED
    BY <2>2, <2>3, <2>4
<1>10. CASE Incoming
  <2>1. /\ UNCHANGED <<signedIn, hub, connection, wire, page, fetch, history, live, posting, missed>>
        /\ rows < MaxRows /\ rows' = rows + 1 /\ pushing' = pushing \cup {rows + 1}
    BY <1>10 DEF Incoming, Store, socket, view
  <2>2. ASSUME NEW n, n = rows + 1
        PROVE  Accounted(n)'
    BY <2>1, <2>2 DEF Accounted, Reachable
  <2>3. signedIn => \A m \in 1 .. rows : Accounted(m)'
    BY <2>1 DEF WholeInv, Accounted, Heard, Awaited, Reachable
  <2>4. rows' \in 0 .. MaxRows /\ \A m \in 1 .. rows' : m \in 1 .. rows \/ m = rows + 1
    BY <1>0, <2>1
  <2>5. signedIn' => \A m \in 1 .. rows' : Accounted(m)'
    BY <2>1, <2>2, <2>3, <2>4
  <2>6. pushing' \subseteq 1 .. rows'
    BY <1>0, <2>1 DEF WholeInv
  <2> QED
    BY <1>0, <2>1, <2>4, <2>5, <2>6 DEF WholeInv
<1>11. CASE PostSaved
  <2>1. /\ UNCHANGED <<signedIn, hub, connection, pushing, wire, page, fetch, history, live, missed>>
        /\ rows < MaxRows /\ rows' = rows + 1
        /\ posting = Sending /\ posting' = rows + 1
    BY <1>11 DEF PostSaved, socket, view
  <2>2. \A m \in 1 .. rows' : m = posting' \/ (m \in 1 .. rows /\ m # posting)
    BY <1>0, <2>1 DEF Sending
  <2> QED
    BY <1>0, <2>1, <2>2 DEF WholeInv, Accounted, Heard, Awaited, Reachable
<1>12. CASE MarkThreadRead \/ UNCHANGED <<connectionVars, threadVars>>
  <2>1. UNCHANGED <<signedIn, hub, connection, rows, pushing, wire, page, fetch, history, live,
                    posting, missed>>
    BY <1>12 DEF MarkThreadRead, connectionVars, pushes, threadVars, socket, view
  <2> QED
    BY <1>5, <2>1 DEF Reachable
<1>13. CASE FetchRead
  <2>1. /\ UNCHANGED <<signedIn, rows, pushing, page, history>>
        /\ fetch' = [fetch EXCEPT !.at = "read", !.upTo = rows]
    BY <1>13 DEF FetchRead, connectionVars, pushes
  <2>2. fetch' \in Fetch /\ fetch'.at = "read" /\ fetch'.upTo = rows
    BY <2>1 DEF WholeInv, Fetch
  <2> QED
    BY <1>0, <2>1, <2>2 DEF WholeInv, Accounted, Awaited
<1>14. CASE Loaded
  <2>1. /\ UNCHANGED <<signedIn, hub, connection, pushing, wire, rows, page, live, posting>>
        /\ fetch.at = "read" /\ history' = fetch.upTo
        /\ missed' = missed \ (1 .. fetch.upTo)
        /\ fetch' = [shown |-> "success", at |-> "none", upTo |-> 0]
    BY <1>14 DEF Loaded, connectionVars, pushes, socket
  <2>2. fetch' \in Fetch /\ fetch'.at = "none"
    BY <2>1 DEF Fetch
  <2>3. \A m \in 1 .. rows : Heard(m) \/ Awaited(m) => Heard(m)' \/ m = posting
    BY <1>0, <2>1 DEF WholeInv, Heard, Awaited
  <2> QED
    BY <1>0, <2>1, <2>2, <2>3 DEF WholeInv, Accounted, Awaited, Reachable
<1>15. CASE LoadFails
  <2>1. /\ UNCHANGED <<signedIn, rows, pushing, page, history>>
        /\ fetch' = [shown |-> "error", at |-> "none", upTo |-> 0]
    BY <1>15 DEF LoadFails, connectionVars, pushes
  <2>2. fetch' \in Fetch /\ fetch'.at = "none" /\ fetch'.shown = "error"
    BY <2>1 DEF Fetch
  <2> QED
    BY <1>0, <2>1, <2>2 DEF WholeInv, Accounted, Awaited
<1>16. CASE Retry
  BY <1>0, <1>1, <1>2, <1>16 DEF Retry, connectionVars, pushes, WholeInv
<1>17. CASE Post \/ PostAnswered \/ PostFails
  <2>1. UNCHANGED <<signedIn, hub, connection, rows, pushing, wire, page, fetch, history>>
    BY <1>17 DEF Post, PostAnswered, PostFails, connectionVars, pushes, socket, view
  <2>2. \A m \in 1 .. rows : Heard(m) \/ m = posting => Heard(m)'
    BY <1>0, <1>17 DEF Post, PostAnswered, PostFails, Heard, view, Sending, WholeInv
  <2> QED
    BY <1>0, <2>1, <2>2 DEF WholeInv, Accounted, Awaited, Reachable
(* A push that is made goes to the hub the page listens to, if it is open.   *)
<1>18. ASSUME NEW r \in 1 .. rows, IncomingPushed(r)
       PROVE  WholeInv'
  <2>1. /\ UNCHANGED <<signedIn, hub, connection, rows, page, fetch, history, live, posting>>
        /\ pushing' = pushing \ {r} /\ wire \subseteq wire'
        /\ missed' \in {missed, missed \cup {r}}
    BY <1>18 DEF IncomingPushed, PushSent, PushFails, socket, view
  <2>2. Reachable(r)' \/ r \in missed'
    <3>1. CASE WillReread
      BY <2>1, <3>1 DEF WillReread, Reachable
    <3>2. CASE ~WillReread /\ missed' = missed \cup {r}
      BY <3>2
    <3>3. CASE Online /\ PushSent(r)
      <4>1. connection \in {k \in Hubs : hub[k] = "open"}
        BY <3>3 DEF Online, WholeInv
      <4>2. <<connection, r>> \in wire'
        BY <3>3, <4>1 DEF PushSent
      <4> QED
        BY <2>1, <4>2 DEF Reachable
    <3> QED
      BY <1>18, <3>1, <3>2, <3>3 DEF IncomingPushed
  <2>3. ASSUME NEW m \in 1 .. rows, Reachable(m)
        PROVE  Reachable(m)' \/ m \in missed'
    BY <2>1, <2>2, <2>3 DEF Reachable
  <2> QED
    BY <1>5, <2>1, <2>3
<1> QED
  BY <1>3, <1>4, <1>6, <1>7, <1>8, <1>9, <1>10, <1>11, <1>12, <1>13, <1>14, <1>15, <1>16,
     <1>17, <1>18 DEF ThreadNext

(* A page that is connected and waits for nothing shows every message since   *)
(* the oldest on its page of history, for any size of the page and in        *)
(* whatever order answers, pushes and reconnections came, but for those it   *)
(* could not hear of and has not re-read: pushes that failed or found no     *)
(* connection, and messages of its own whose answer was lost.               *)
THEOREM NothingIsLeftOut == ThreadSpec => []ThreadIsWhole
<1>1. ConnectionInit /\ ThreadInit => WholeInv
  BY ConnectionAssumption DEF ConnectionInit, ThreadInit, WholeInv, HubState, Mounting, Fetch
<1>2. WholeInv /\ SocketInv /\ [ThreadNext]_<<connectionVars, threadVars>>
        => (WholeInv /\ SocketInv)'
  BY WholeStep, SocketStep, ThreadMovesSocket
<1> QED
  BY <1>1, <1>2, SocketInit, WholeSettles, PTL DEF ThreadSpec

-----------------------------------------------------------------------------
(* The wire *)

(* What is on its way has not been dropped with its socket. *)
WireOpen == \A m \in wire : hub[m[1]] = "open"

ConnectionInv == ConnectionTypeOK /\ WireOpen

(* What the bell and the thread do to the connection and the rows. *)
ConnectionMoves ==
    \/ signedIn' \in BOOLEAN /\ Start /\ UNCHANGED pushes
    \/ signedIn' \in BOOLEAN /\ Stop /\ UNCHANGED <<rows, pushing>>
    \/ HubMoves
    \/ \E h \in Hubs : Drop(h) \/ Reconnect(h)
    \/ Store /\ UNCHANGED <<signedIn, socket>>
    \/ \E r \in 1 .. rows : (PushSent(r) \/ PushFails(r)) /\ UNCHANGED <<signedIn, socket>>
    \/ \E h \in Hubs, r \in 1 .. rows : Arrives(h, r) /\ UNCHANGED <<signedIn, socket>>
    \/ rows < MaxRows /\ rows' = rows + 1 /\ UNCHANGED <<signedIn, socket, pushing, wire>>
    \/ UNCHANGED connectionVars

LEMMA ConnectionInvInit == ConnectionInit => ConnectionInv
<1> SUFFICES ASSUME ConnectionInit PROVE ConnectionInv
  OBVIOUS
<1>1. rows \in 0 .. MaxRows /\ pushing = {} /\ wire = {}
  BY ConnectionAssumption DEF ConnectionInit
<1> QED
  BY <1>1 DEF ConnectionInit, ConnectionInv, ConnectionTypeOK, WireOpen, HubState

LEMMA ConnectionStep ==
    ConnectionInv /\ ConnectionMoves => ConnectionInv' /\ rows' \in {rows, rows + 1}
<1> SUFFICES ASSUME ConnectionInv, ConnectionMoves
             PROVE  ConnectionInv' /\ rows' \in {rows, rows + 1}
  OBVIOUS
<1>0. /\ signedIn \in BOOLEAN /\ hub \in [Hubs -> HubState]
      /\ connection \in {0} \cup Hubs /\ startInFlight \in {0} \cup Hubs
      /\ clobbered \in BOOLEAN
      /\ rows \in Nat /\ rows <= MaxRows /\ MaxRows \in Nat
      /\ pushing \subseteq 1 .. rows /\ wire \subseteq Hubs \X (1 .. rows)
      /\ \A m \in wire : m[1] \in Hubs /\ hub[m[1]] = "open"
  BY ConnectionAssumption DEF ConnectionInv, ConnectionTypeOK, WireOpen
(* A hub that is not open changes its state. *)
<1>1. ASSUME NEW h \in Hubs, NEW s \in HubState, hub' = [hub EXCEPT ![h] = s],
             hub[h] # "open", UNCHANGED <<rows, pushing, wire>>,
             signedIn' \in BOOLEAN, connection' \in {0} \cup Hubs,
             startInFlight' \in {0} \cup Hubs, clobbered' \in BOOLEAN
      PROVE  ConnectionInv' /\ rows' \in {rows, rows + 1}
  <2>1. hub' \in [Hubs -> HubState] /\ \A m \in wire : hub'[m[1]] = "open"
    BY <1>0, <1>1
  <2> QED
    BY <1>0, <1>1, <2>1 DEF ConnectionInv, ConnectionTypeOK, WireOpen
<1>2. ASSUME UNCHANGED <<hub, connection, startInFlight, clobbered>>, signedIn' \in BOOLEAN,
             rows' \in {rows, rows + 1}, rows' <= MaxRows, pushing' \subseteq 1 .. rows',
             wire' \subseteq Hubs \X (1 .. rows'),
             \A m \in wire' : hub[m[1]] = "open"
      PROVE  ConnectionInv' /\ rows' \in {rows, rows + 1}
  BY <1>0, <1>2 DEF ConnectionInv, ConnectionTypeOK, WireOpen
<1>3. CASE signedIn' \in BOOLEAN /\ Start /\ UNCHANGED pushes
  <2>1. CASE UNCHANGED socket
    BY <1>0, <1>2, <1>3, <2>1 DEF socket, pushes
  <2>2. CASE ~UNCHANGED socket
    <3> DEFINE h == CHOOSE u \in Unused : \A v \in Unused : u <= v
    <3>1. /\ Unused # {} /\ hub' = [hub EXCEPT ![h] = "starting"]
          /\ connection' = h /\ startInFlight' = h /\ clobbered' = clobbered
      BY <1>3, <2>2 DEF Start
    <3>2. h \in Unused
      BY <3>1, NewHub
    <3> HIDE DEF h
    <3>3. h \in Hubs /\ hub[h] = "unused" /\ "starting" \in HubState
      BY <3>2 DEF Unused, HubState
    <3> QED
      BY <1>0, <1>1, <1>3, <3>1, <3>3 DEF pushes
  <2> QED
    BY <2>1, <2>2
<1>4. CASE signedIn' \in BOOLEAN /\ Stop /\ UNCHANGED <<rows, pushing>>
  <2>1. /\ hub' \in [Hubs -> HubState]
        /\ \A k \in Hubs : k # connection => hub'[k] = hub[k]
        /\ connection' = 0 /\ startInFlight' = 0 /\ clobbered' = clobbered
        /\ wire' = {m \in wire : m[1] # connection}
    BY <1>0, <1>4 DEF Stop, HubState
  <2> QED
    BY <1>0, <1>4, <2>1 DEF ConnectionInv, ConnectionTypeOK, WireOpen
<1>5. ASSUME NEW h \in Hubs, Started(h) \/ StartFailed(h) \/ GiveUp(h) \/ Reconnect(h)
      PROVE  ConnectionInv' /\ rows' \in {rows, rows + 1}
  <2>1. /\ hub[h] # "open" /\ UNCHANGED <<rows, pushing, wire, signedIn>>
        /\ connection' \in {0, connection} /\ startInFlight' \in {0, startInFlight}
        /\ clobbered' \in BOOLEAN
    BY <1>0, <1>5 DEF Started, StartFailed, GiveUp, Reconnect, pushes
  <2>2. hub' = [hub EXCEPT ![h] = "open"] \/ hub' = [hub EXCEPT ![h] = "closed"]
    BY <1>5 DEF Started, StartFailed, GiveUp, Reconnect
  <2>3. "open" \in HubState /\ "closed" \in HubState
    BY DEF HubState
  <2> QED
    BY <1>0, <1>1, <2>1, <2>2, <2>3
<1>6. ASSUME NEW h \in Hubs, Drop(h)
      PROVE  ConnectionInv' /\ rows' \in {rows, rows + 1}
  <2>1. /\ hub' = [hub EXCEPT ![h] = "retrying"] /\ wire' = {m \in wire : m[1] # h}
        /\ UNCHANGED <<signedIn, connection, startInFlight, clobbered, rows, pushing>>
    BY <1>6 DEF Drop
  <2>2. hub' \in [Hubs -> HubState] /\ \A m \in wire' : hub'[m[1]] = "open"
    BY <1>0, <2>1 DEF HubState
  <2> QED
    BY <1>0, <2>1, <2>2 DEF ConnectionInv, ConnectionTypeOK, WireOpen
<1>7. CASE \/ Store /\ UNCHANGED <<signedIn, socket>>
           \/ rows < MaxRows /\ rows' = rows + 1 /\ UNCHANGED <<signedIn, socket, pushing, wire>>
  <2>1. /\ rows < MaxRows /\ rows' = rows + 1 /\ wire' = wire
        /\ pushing' \subseteq pushing \cup {rows + 1}
        /\ UNCHANGED <<signedIn, hub, connection, startInFlight, clobbered>>
    BY <1>7 DEF Store, socket
  <2>2. rows' <= MaxRows /\ rows + 1 \in 1 .. rows' /\ 1 .. rows \subseteq 1 .. rows'
    BY <1>0, <2>1
  <2>3. pushing' \subseteq 1 .. rows' /\ wire' \subseteq Hubs \X (1 .. rows')
    BY <1>0, <2>1, <2>2
  <2> QED
    BY <1>0, <1>2, <2>1, <2>2, <2>3
<1>8. ASSUME NEW h \in Hubs, NEW r \in 1 .. rows, Arrives(h, r) /\ UNCHANGED <<signedIn, socket>>
      PROVE  ConnectionInv' /\ rows' \in {rows, rows + 1}
  <2>1. wire' \subseteq wire /\ UNCHANGED <<rows, pushing>>
    BY <1>8 DEF Arrives
  <2> QED
    BY <1>0, <1>2, <1>8, <2>1 DEF socket
<1>9. ASSUME NEW r \in 1 .. rows, (PushSent(r) \/ PushFails(r)) /\ UNCHANGED <<signedIn, socket>>
      PROVE  ConnectionInv' /\ rows' \in {rows, rows + 1}
  <2>1. /\ UNCHANGED <<rows, signedIn, hub, connection, startInFlight, clobbered>>
        /\ pushing' \subseteq pushing
        /\ wire' \subseteq wire \cup {<<h, r>> : h \in {k \in Hubs : hub[k] = "open"}}
    BY <1>9 DEF PushSent, PushFails, socket
  <2>2. wire' \subseteq Hubs \X (1 .. rows')
    BY <1>0, <2>1
  <2>3. \A m \in wire' : hub[m[1]] = "open"
    BY <1>0, <2>1
  <2> QED
    BY <1>0, <1>2, <2>1, <2>2, <2>3
<1>10. CASE UNCHANGED connectionVars
  BY <1>0, <1>2, <1>10 DEF connectionVars, pushes, socket
<1> QED
  BY <1>3, <1>4, <1>5, <1>6, <1>7, <1>8, <1>9, <1>10 DEF ConnectionMoves, HubMoves

LEMMA BellMovesConnection == [BellNext]_<<connectionVars, bellVars>> => ConnectionMoves
  BY DEF BellNext, ConnectionMoves, connectionVars, BellSignIn, BellSignOut,
         BellHubMoves, BellDrop, BellReconnect, BellDelivered, Notify, NotifyPushed, ReadCount,
         ReadPage, SeedLands, SeedFails, MarkRead, MarkAllRead, MarkSaved, MarkFails

LEMMA ThreadMovesConnection == [ThreadNext]_<<connectionVars, threadVars>> => ConnectionMoves
  BY DEF ThreadNext, ConnectionMoves, connectionVars, ThreadSignIn, threadVars,
         ThreadSignOut, ThreadHubMoves, ThreadDrop, ThreadReconnect, ThreadDelivered,
         Navigate, Incoming, IncomingPushed, PostSaved, MarkThreadRead, FetchRead, Loaded,
         LoadFails, Retry, Post, PostAnswered, PostFails

-----------------------------------------------------------------------------
(* Notifications: types *)

SeedsOf(n) == [at: {"none", "sent"}, count: 0 .. NotRead, upTo: 0 .. NotRead,
               read: SUBSET (1 .. n), clean: BOOLEAN]

(* No answer tells of a row that is not stored. *)
BellTyped ==
    /\ BellTypeOK
    /\ mark \in {NoMark, AllRows} \cup 1 .. rows
    /\ seed.at = "none" => seed = NoSeed
    /\ seed.upTo \in (0 .. rows) \cup {NotRead}

LEMMA SeqOfMore ==
    ASSUME NEW S, NEW T, S \subseteq T, NEW q \in Seq(S)
    PROVE  q \in Seq(T)
OBVIOUS

LEMMA SeqStarts ==
    ASSUME NEW S, NEW q \in Seq(S), NEW k \in 1 .. Len(q)
    PROVE  /\ SubSeq(q, 1, k) \in Seq(S) /\ Len(SubSeq(q, 1, k)) = k
           /\ \A i \in 1 .. k : SubSeq(q, 1, k)[i] = q[i]
OBVIOUS

LEMMA SeqElements ==
    ASSUME NEW S, NEW q \in Seq(S)
    PROVE  \A i \in 1 .. Len(q) : q[i] \in S
OBVIOUS

(* The bell's page of n rows, newest first. *)
LEMMA NewestAre ==
    ASSUME NEW n \in Nat
    PROVE  /\ Newest(n) \in Seq(1 .. n)
           /\ Len(Newest(n)) = IF n < RecentLimit THEN n ELSE RecentLimit
           /\ DOMAIN Newest(n) = 1 .. Len(Newest(n))
           /\ \A i \in DOMAIN Newest(n) : Newest(n)[i] = n + 1 - i
<1> DEFINE k == IF n < RecentLimit THEN n ELSE RecentLimit
<1>1. k \in Nat /\ k <= n
  BY RecentAssumption
<1>2. Newest(n) = [i \in 1 .. k |-> n + 1 - i]
  BY DEF Newest
<1> HIDE DEF k
<1>3. \A i \in 1 .. k : n + 1 - i \in 1 .. n
  BY <1>1
<1>4. Newest(n) \in Seq(1 .. n) /\ Len(Newest(n)) = k /\ DOMAIN Newest(n) = 1 .. k
  BY <1>1, <1>2, <1>3
<1> QED
  BY <1>2, <1>4 DEF k

(* What the bell holds: the rows it shows are stored, and few. *)
LEMMA BellHolds ==
    ASSUME ConnectionTypeOK, BellTyped
    PROVE  /\ rows \in Nat /\ rows <= MaxRows /\ MaxRows \in Nat
           /\ NotRead = MaxRows + 1 /\ AllRows = MaxRows + 1 /\ NotRead \notin 0 .. rows
           /\ readRows \subseteq 1 .. rows /\ unreadCount \in Nat
           /\ recent \in Seq(1 .. rows) /\ Len(recent) \in Nat /\ Len(recent) <= RecentLimit
           /\ DOMAIN recent = 1 .. Len(recent) /\ Shown \subseteq 1 .. rows
           /\ shownRead \subseteq Shown
           /\ seed \in SeedsOf(rows)
           /\ mark \in NoMark .. AllRows /\ mark \in {NoMark, AllRows} \cup 1 .. rows
           /\ raced \in BOOLEAN
           /\ seed.at \in {"none", "sent"} /\ (seed.at = "none" => seed = NoSeed)
           /\ seed.upTo \in (0 .. rows) \cup {NotRead}
<1>1. rows \in Nat /\ rows <= MaxRows /\ MaxRows \in Nat
  BY ConnectionAssumption DEF ConnectionTypeOK
<1>2. NotRead = MaxRows + 1 /\ AllRows = MaxRows + 1 /\ NotRead \notin 0 .. rows
  BY <1>1 DEF NotRead, AllRows
<1>3. /\ recent \in Seq(1 .. rows) /\ Len(recent) \in Nat /\ Len(recent) <= RecentLimit
      /\ DOMAIN recent = 1 .. Len(recent)
  BY DEF BellTyped, BellTypeOK
<1>4. Shown \subseteq 1 .. rows
  <2>1. \A i \in 1 .. Len(recent) : recent[i] \in 1 .. rows
    BY <1>3, SeqElements
  <2> QED
    BY <1>3, <2>1 DEF Shown
<1>5. seed \in SeedsOf(rows) /\ seed.at \in {"none", "sent"}
  BY DEF BellTyped, BellTypeOK, SeedsOf
<1> QED
  BY <1>1, <1>2, <1>3, <1>4, <1>5 DEF BellTyped, BellTypeOK

(* What happens to a refresh while it is under way or asked for. *)
LEMMA SeedForms ==
    ASSUME ConnectionTypeOK, BellTyped
    PROVE  /\ Dirtied \in SeedsOf(rows) /\ Dirtied.at = seed.at /\ Dirtied.count = seed.count
           /\ Dirtied.upTo = seed.upTo /\ Dirtied.read = seed.read
           /\ Dirtied.clean <=> seed.at = "none"
           /\ seed.at = "none" => Dirtied = NoSeed
           /\ NoSeed \in SeedsOf(rows) /\ NoSeed.at = "none" /\ NoSeed.upTo = NotRead
           /\ \A b \in BOOLEAN :
                  LET n == [NoSeed EXCEPT !.at = "sent", !.clean = b] IN
                  /\ n \in SeedsOf(rows) /\ n.at = "sent" /\ n.count = NotRead
                  /\ n.upTo = NotRead /\ (n.clean <=> b)
<1>1. /\ seed \in SeedsOf(rows) /\ (seed.at = "none" => seed = NoSeed)
      /\ MaxRows \in Nat /\ NotRead = MaxRows + 1
  BY BellHolds
<1>2. NotRead \in 0 .. NotRead
  BY <1>1
<1>3. /\ NoSeed \in SeedsOf(rows) /\ NoSeed.at = "none" /\ NoSeed.upTo = NotRead
      /\ NoSeed.count = NotRead /\ NoSeed.clean = TRUE
  BY <1>2 DEF NoSeed, SeedsOf
<1>4. \A b \in BOOLEAN :
          LET n == [NoSeed EXCEPT !.at = "sent", !.clean = b] IN
          /\ n \in SeedsOf(rows) /\ n.at = "sent" /\ n.count = NotRead
          /\ n.upTo = NotRead /\ (n.clean <=> b)
  BY <1>3 DEF SeedsOf
<1> DEFINE c == seed.at = "none"
<1>5. c \in BOOLEAN /\ Dirtied = [seed EXCEPT !.clean = c]
  BY DEF Dirtied
<1> HIDE DEF c
<1>6. /\ Dirtied \in SeedsOf(rows) /\ Dirtied.at = seed.at /\ Dirtied.count = seed.count
      /\ Dirtied.upTo = seed.upTo /\ Dirtied.read = seed.read /\ Dirtied.clean = c
  BY <1>1, <1>5 DEF SeedsOf
<1>7. c => Dirtied = NoSeed
  <2>1. c => Dirtied = [NoSeed EXCEPT !.clean = TRUE]
    BY <1>1, <1>5 DEF c
  <2>2. \A q \in SeedsOf(rows) : q.clean => [q EXCEPT !.clean = TRUE] = q
    BY DEF SeedsOf
  <2> QED
    BY <1>3, <2>1, <2>2
<1> QED
  BY <1>3, <1>4, <1>6, <1>7 DEF c

(* Types over the rows there were are types over the rows there are. *)
LEMMA BellTypedMoves ==
    ASSUME ConnectionTypeOK, rows' \in {rows, rows + 1}, rows' <= MaxRows,
           readRows' \subseteq 1 .. rows, unreadCount' \in Nat,
           recent' \in Seq(1 .. rows), Len(recent') <= RecentLimit, shownRead' \subseteq Shown',
           mark' \in {NoMark, AllRows} \cup 1 .. rows, raced' \in BOOLEAN,
           seed' \in SeedsOf(rows), seed'.at = "none" => seed' = NoSeed,
           seed'.upTo \in (0 .. rows) \cup {NotRead}
    PROVE  BellTyped'
<1>1. rows \in Nat /\ rows <= MaxRows /\ MaxRows \in Nat
  BY ConnectionAssumption DEF ConnectionTypeOK
<1>2. 1 .. rows \subseteq 1 .. rows' /\ 0 .. rows \subseteq 0 .. rows'
  BY <1>1
<1>3. recent' \in Seq(1 .. rows')
  BY <1>2, SeqOfMore
<1>4. seed' \in SeedsOf(rows')
  BY <1>2 DEF SeedsOf
<1>5. mark' \in {NoMark, AllRows} \cup 1 .. rows' /\ mark' \in NoMark .. AllRows
  BY <1>1, <1>2 DEF NoMark, AllRows
<1> QED
  BY <1>2, <1>3, <1>4, <1>5 DEF BellTyped, BellTypeOK, SeedsOf, NotRead

(* How many rows are read is a number, of rows that are stored. *)
LEMMA SizeOfRows ==
    ASSUME NEW n \in Nat, NEW S, S \subseteq 1 .. n
    PROVE  /\ IsFiniteSet(S) /\ Cardinality(S) \in 0 .. n
           /\ Cardinality(1 .. n) = n
<1>1. IsFiniteSet(1 .. n) /\ Cardinality(1 .. n) = n
  BY FS_Interval
<1>2. IsFiniteSet(S) /\ Cardinality(S) <= Cardinality(1 .. n)
  BY <1>1, FS_Subset
<1>3. Cardinality(S) \in Nat
  BY <1>2, FS_CardinalityType
<1> QED
  BY <1>1, <1>2, <1>3

LEMMA BellTypedStep ==
    ASSUME ConnectionInv, BellTyped, [BellNext]_<<connectionVars, bellVars>>
    PROVE  BellTyped'
<1>0. ConnectionTypeOK /\ rows' \in {rows, rows + 1} /\ rows' <= MaxRows
  <2>1. ConnectionInv' /\ rows' \in {rows, rows + 1}
    BY ConnectionStep, BellMovesConnection
  <2> QED
    BY <2>1, ConnectionAssumption DEF ConnectionInv, ConnectionTypeOK
<1>1. /\ rows \in Nat /\ rows <= MaxRows /\ MaxRows \in Nat
      /\ NotRead = MaxRows + 1 /\ NotRead \notin 0 .. rows
      /\ readRows \subseteq 1 .. rows /\ unreadCount \in Nat
      /\ recent \in Seq(1 .. rows) /\ Len(recent) \in Nat /\ Len(recent) <= RecentLimit
      /\ Shown \subseteq 1 .. rows /\ shownRead \subseteq Shown
      /\ seed \in SeedsOf(rows) /\ (seed.at = "none" => seed = NoSeed)
      /\ seed.upTo \in (0 .. rows) \cup {NotRead}
      /\ mark \in {NoMark, AllRows} \cup 1 .. rows /\ raced \in BOOLEAN
  BY <1>0, BellHolds
(* A refresh is asked for, spoiled, or left as it is. *)
<1>2. ASSUME \/ seed' = seed
             \/ seed' = Dirtied
             \/ \E b \in BOOLEAN : seed' = [NoSeed EXCEPT !.at = "sent", !.clean = b]
      PROVE  /\ seed' \in SeedsOf(rows) /\ (seed'.at = "none" => seed' = NoSeed)
             /\ seed'.upTo \in (0 .. rows) \cup {NotRead}
  BY <1>0, <1>1, <1>2, SeedForms
<1>3. ASSUME UNCHANGED <<readRows, bell, mark, raced>>,
             seed' \in SeedsOf(rows), seed'.at = "none" => seed' = NoSeed,
             seed'.upTo \in (0 .. rows) \cup {NotRead}
      PROVE  BellTyped'
  BY <1>0, <1>1, <1>3, BellTypedMoves DEF bell, Shown
<1>4. Clean \in BOOLEAN /\ (OnTheWay = {}) \in BOOLEAN
  BY DEF Clean
<1>5. Refresh => seed' = seed \/ \E b \in BOOLEAN : seed' = [NoSeed EXCEPT !.at = "sent", !.clean = b]
  BY <1>4 DEF Refresh
<1>6. CASE UNCHANGED <<connectionVars, bellVars>> \/ BellHubMoves
  BY <1>1, <1>3, <1>6 DEF bellVars, BellHubMoves
<1>7. ASSUME NEW h \in Hubs, BellReconnect(h)
      PROVE  BellTyped'
  BY <1>2, <1>3, <1>5, <1>7 DEF BellReconnect
(* The history is told of a push that is lost. *)
<1>8. ASSUME UNCHANGED <<readRows, bell, mark>>, raced' \in BOOLEAN,
             seed' \in SeedsOf(rows), seed'.at = "none" => seed' = NoSeed,
             seed'.upTo \in (0 .. rows) \cup {NotRead}
      PROVE  BellTyped'
  BY <1>0, <1>1, <1>8, BellTypedMoves DEF bell, Shown
<1>9. CASE BellSignIn
  BY <1>2, <1>5, <1>8, <1>9 DEF BellSignIn
<1>10. ASSUME NEW h \in Hubs, BellDrop(h)
       PROVE  BellTyped'
  <2>1. raced' \in BOOLEAN /\ (seed' = seed \/ seed' = Dirtied)
    BY <1>10 DEF BellDrop
  <2> QED
    BY <1>2, <1>8, <1>10, <2>1 DEF BellDrop
<1>11. CASE Notify
  BY <1>1, <1>2, <1>8, <1>11 DEF Notify
<1>12. CASE ReadCount
  <2> DEFINE n == [seed EXCEPT !.count = rows - Cardinality(readRows)]
  <2>0. Cardinality(readRows) \in 0 .. rows
    BY <1>1, SizeOfRows
  <2>1. rows - Cardinality(readRows) \in 0 .. NotRead
    BY <1>1, <2>0
  <2>2. seed.at = "sent" /\ seed' = n
    BY <1>12 DEF ReadCount
  <2>3. n \in SeedsOf(rows) /\ n.at = seed.at /\ n.upTo = seed.upTo
    BY <1>1, <2>1 DEF SeedsOf
  <2> HIDE DEF n
  <2> QED
    BY <1>1, <1>3, <1>12, <2>2, <2>3 DEF ReadCount
<1>13. CASE ReadPage
  <2> DEFINE n == [seed EXCEPT !.upTo = rows, !.read = readRows]
  <2>1. seed.at = "sent" /\ seed' = n
    BY <1>13 DEF ReadPage
  <2>0. rows \in 0 .. NotRead /\ readRows \in SUBSET (1 .. rows) /\ seed \in SeedsOf(rows)
    BY <1>1
  <2>2. n \in SeedsOf(rows) /\ n.at = seed.at /\ n.upTo = rows
    BY <2>0 DEF SeedsOf
  <2> HIDE DEF n
  <2> QED
    BY <1>1, <1>3, <1>13, <2>1, <2>2 DEF ReadPage
<1>14. CASE SeedFails
  <2>1. NoSeed \in SeedsOf(rows) /\ NoSeed.upTo = NotRead
    BY <1>0, SeedForms
  <2> QED
    BY <1>3, <1>14, <2>1 DEF SeedFails
<1>15. CASE BellSignOut
  <2>1. /\ unreadCount' = 0 /\ recent' = <<>> /\ shownRead' = {} /\ raced' = TRUE
        /\ seed' = Dirtied /\ UNCHANGED <<readRows, mark>>
    BY <1>15 DEF BellSignOut
  <2>2. <<>> \in Seq(1 .. rows) /\ Len(<<>>) <= RecentLimit
    BY RecentAssumption
  <2> QED
    BY <1>0, <1>1, <1>2, <2>1, <2>2, BellTypedMoves
<1>16. CASE SeedLands
  <2>1. /\ seed.upTo \in 0 .. rows
        /\ unreadCount' = seed.count /\ recent' = Newest(seed.upTo)
        /\ shownRead' \subseteq Shown'
        /\ raced' \in BOOLEAN /\ seed' = NoSeed /\ UNCHANGED <<readRows, mark>>
    BY <1>1, <1>16 DEF SeedLands, Shown
  <2>2. seed.count \in Nat
    BY <1>1 DEF SeedsOf
  <2>3. seed.upTo \in Nat /\ 1 .. seed.upTo \subseteq 1 .. rows
    BY <1>1, <2>1
  <2>4. Newest(seed.upTo) \in Seq(1 .. seed.upTo) /\ Len(Newest(seed.upTo)) <= RecentLimit
    BY <2>3, NewestAre, RecentAssumption, SMTT(20)
  <2>5. recent' \in Seq(1 .. rows) /\ Len(recent') <= RecentLimit
    BY <2>1, <2>3, <2>4, SeqOfMore
  <2>6. NoSeed \in SeedsOf(rows) /\ NoSeed.upTo = NotRead
    BY <1>0, SeedForms
  <2> QED
    BY <1>0, <1>1, <2>1, <2>2, <2>5, <2>6, BellTypedMoves
<1>17. ASSUME NEW h \in Hubs, NEW r \in 1 .. rows, BellDelivered(h, r)
       PROVE  BellTyped'
  <2> DEFINE q == <<r>> \o recent
             k == IF Len(recent) < RecentLimit THEN Len(recent) + 1 ELSE RecentLimit
  <2>1. /\ unreadCount' = unreadCount + 1 /\ recent' = SubSeq(q, 1, k)
        /\ shownRead' \subseteq Shown' /\ seed' = Dirtied
        /\ UNCHANGED <<readRows, mark>>
    BY <1>17 DEF BellDelivered, Shown
  <2>5. raced' \in BOOLEAN
    BY <1>17 DEF BellDelivered
  <2>2. q \in Seq(1 .. rows) /\ Len(q) = Len(recent) + 1
    BY <1>1
  <2>3. k \in 1 .. Len(q) /\ k <= RecentLimit
    BY <1>1, <2>2, RecentAssumption
  <2> HIDE DEF q, k
  <2>4. SubSeq(q, 1, k) \in Seq(1 .. rows) /\ Len(SubSeq(q, 1, k)) = k
    BY <2>2, <2>3, SeqStarts
  <2> QED
    BY <1>0, <1>1, <1>2, <2>1, <2>3, <2>4, <2>5, BellTypedMoves, SMTT(20)
<1>18. ASSUME NEW r \in 1 .. rows, MarkRead(r)
       PROVE  BellTyped'
  <2>1. /\ unreadCount' = IF unreadCount = 0 THEN 0 ELSE unreadCount - 1
        /\ shownRead' = shownRead \cup ({r} \cap Shown) /\ mark' = r
        /\ seed' = Dirtied /\ UNCHANGED <<readRows, recent>>
    BY <1>18 DEF MarkRead
  <2>2. raced' \in BOOLEAN
    BY <1>18 DEF MarkRead
  <2>3. unreadCount' \in Nat /\ shownRead' \subseteq Shown'
    BY <1>1, <2>1 DEF Shown
  <2> QED
    BY <1>0, <1>1, <1>2, <2>1, <2>2, <2>3, BellTypedMoves
<1>19. CASE MarkAllRead
  <2>1. /\ unreadCount' = 0 /\ shownRead' = Shown' /\ mark' = AllRows
        /\ raced' \in BOOLEAN /\ seed' = Dirtied /\ UNCHANGED <<readRows, recent>>
    BY <1>19 DEF MarkAllRead, Shown
  <2> QED
    BY <1>0, <1>1, <1>2, <2>1, BellTypedMoves
<1>20. CASE MarkSaved
  <2>1. /\ readRows' = readRows \cup IF mark = AllRows THEN 1 .. rows ELSE {mark}
        /\ mark # NoMark /\ mark' = NoMark /\ UNCHANGED bell
        /\ \/ seed' = Dirtied
           \/ seed' = [NoSeed EXCEPT !.at = "sent", !.clean = OnTheWay = {}]
    BY <1>20 DEF MarkSaved
  <2>2. raced' \in BOOLEAN
    BY <1>20 DEF MarkSaved
  <2>3. readRows' \subseteq 1 .. rows
    BY <1>1, <2>1
  <2> QED
    BY <1>0, <1>1, <1>2, <1>4, <2>1, <2>2, <2>3, BellTypedMoves DEF bell, Shown
<1>21. CASE MarkFails
  <2>1. /\ mark' = NoMark /\ raced' = TRUE /\ UNCHANGED <<readRows, bell>>
        /\ \/ seed' = Dirtied
           \/ seed' = [NoSeed EXCEPT !.at = "sent", !.clean = OnTheWay = {}]
    BY <1>21 DEF MarkFails
  <2> QED
    BY <1>0, <1>1, <1>2, <1>4, <2>1, BellTypedMoves DEF bell, Shown
<1>22. ASSUME NEW r \in 1 .. rows, NotifyPushed(r)
       PROVE  BellTyped'
  <2>1. raced' \in BOOLEAN
    BY <1>22 DEF NotifyPushed
  <2> QED
    BY <1>2, <1>8, <1>22, <2>1 DEF NotifyPushed
<1> QED
  BY <1>6, <1>7, <1>9, <1>10, <1>11, <1>12, <1>13, <1>14, <1>15, <1>16, <1>17, <1>18, <1>19,
     <1>20, <1>21, <1>22 DEF BellNext

-----------------------------------------------------------------------------
(* Notifications: the bell is in step *)

(* A refresh that nothing has happened to since it was sent answers what is   *)
(* stored.                                                                  *)
SeedTells ==
    seed.at = "sent" /\ seed.clean =>
        /\ Clean
        /\ seed.count \in {NotRead, rows - Cardinality(readRows)}
        /\ seed.upTo # NotRead => seed.upTo = rows /\ seed.read = readRows

(* The bell has heard of rows 1 .. d, the others have yet to be pushed or are *)
(* on their way from hub h, and it counts those of `seen` as read: the read  *)
(* rows there are, with what the call in flight is about to read.           *)
BellShows(d, h, seen) ==
    /\ pushing \subseteq d + 1 .. rows
    /\ wire = {<<h, r>> : r \in (d + 1 .. rows) \ pushing}
    /\ recent = Newest(d)
    /\ unreadCount = d - Cardinality(seen)
    /\ shownRead = seen \cap Shown
    /\ mark = NoMark => seen = readRows
    /\ mark \in 1 .. rows => seen = readRows \cup {mark}
    /\ mark = AllRows => \E a \in 0 .. d : seen = 1 .. a

BellKept ==
    raced \/ \E d \in 0 .. rows : \E h \in {0} \cup Hubs, seen \in SUBSET (1 .. d) :
                 BellShows(d, h, seen)

BellInv == ConnectionInv /\ BellTyped /\ SeedTells /\ BellKept

LEMMA BellInvInit == ConnectionInit /\ BellInit => BellInv
<1> SUFFICES ASSUME ConnectionInit, BellInit PROVE BellInv
  OBVIOUS
<1>1. ConnectionInv
  BY ConnectionInvInit
<1>2. /\ rows = 0 /\ wire = {} /\ MaxRows \in Nat /\ NotRead = MaxRows + 1
      /\ AllRows = MaxRows + 1 /\ RecentLimit \in Nat
  BY ConnectionAssumption, RecentAssumption DEF ConnectionInit, NotRead, AllRows
<1>3. /\ readRows = {} /\ unreadCount = 0 /\ recent = <<>> /\ shownRead = {} /\ seed = NoSeed
      /\ mark = NoMark /\ raced = TRUE /\ NoMark = 0
  BY DEF BellInit, NoMark
<1>4. /\ NoSeed \in SeedsOf(0) /\ NoSeed.at = "none" /\ NoSeed.upTo = NotRead
  <2>1. NotRead \in 0 .. NotRead
    BY <1>2
  <2> QED
    BY <2>1 DEF NoSeed, SeedsOf
<1>5. recent \in Seq(1 .. rows) /\ Len(recent) <= RecentLimit
  BY <1>2, <1>3
<1>6. NoMark \in NoMark .. AllRows
  BY <1>2, <1>3
<1>7. BellTyped
  BY <1>2, <1>3, <1>4, <1>5, <1>6 DEF BellTyped, BellTypeOK, SeedsOf
<1>8. SeedTells /\ BellKept
  BY <1>3, <1>4 DEF SeedTells, BellKept
<1> QED
  BY <1>1, <1>7, <1>8 DEF BellInv

LEMMA SeedTellsStep ==
    ASSUME ConnectionTypeOK, BellTyped, SeedTells, [BellNext]_<<connectionVars, bellVars>>
    PROVE  SeedTells'
<1>1. /\ seed \in SeedsOf(rows) /\ seed.at \in {"none", "sent"}
      /\ rows \in Nat /\ NotRead \notin 0 .. rows
  BY BellHolds
<1>2. CASE seed' = Dirtied
  <2>1. seed'.at = seed.at /\ (seed'.clean <=> seed.at = "none")
    BY <1>2, SeedForms
  <2> QED
    BY <2>1 DEF SeedTells
<1>3. ASSUME seed' = seed, UNCHANGED <<rows, pushing, wire, readRows, mark>>
      PROVE  SeedTells'
  <2>1. OnTheWay' = OnTheWay
    BY <1>3 DEF OnTheWay
  <2> QED
    BY <1>3, <2>1 DEF SeedTells, Clean
<1>4. ASSUME NEW b \in BOOLEAN, seed' = [NoSeed EXCEPT !.at = "sent", !.clean = b], b => Clean'
      PROVE  SeedTells'
  <2>1. seed'.count = NotRead /\ seed'.upTo = NotRead /\ (seed'.clean <=> b)
    BY <1>4, SeedForms
  <2> QED
    BY <1>4, <2>1 DEF SeedTells, NotRead
<1>5. ASSUME Refresh, UNCHANGED <<rows, pushing, wire, readRows, mark>>
      PROVE  SeedTells'
  <2>1. Clean \in BOOLEAN /\ (Clean => Clean')
    BY <1>5 DEF Clean, OnTheWay
  <2>2. seed' = seed \/ seed' = [NoSeed EXCEPT !.at = "sent", !.clean = Clean]
    BY <1>5 DEF Refresh
  <2> QED
    BY <1>3, <1>4, <1>5, <2>1, <2>2
<1>6. CASE BellSignIn \/ \E h \in Hubs : BellReconnect(h)
  BY <1>5, <1>6 DEF BellSignIn, BellReconnect, Reconnect, pushes
<1>7. CASE BellSignOut \/ Notify \/ MarkAllRead
           \/ (\E r \in 1 .. rows : MarkRead(r))
           \/ (\E h \in Hubs : \E r \in 1 .. rows : BellDelivered(h, r))
  BY <1>2, <1>7 DEF BellSignOut, Notify, MarkAllRead, MarkRead, BellDelivered
<1>8. CASE BellHubMoves \/ UNCHANGED <<connectionVars, bellVars>>
  BY <1>3, <1>8 DEF BellHubMoves, HubMoves, Started, StartFailed, GiveUp, bellVars,
                    connectionVars, pushes
<1>9. ASSUME NEW h \in Hubs, BellDrop(h)
      PROVE  SeedTells'
  BY <1>2, <1>3, <1>9 DEF BellDrop, Drop
<1>10. CASE MarkSaved \/ MarkFails
  <2>1. seed' = Dirtied \/ seed' = [NoSeed EXCEPT !.at = "sent", !.clean = OnTheWay = {}]
    BY <1>10 DEF MarkSaved, MarkFails
  <2>2. (OnTheWay = {}) \in BOOLEAN /\ (OnTheWay = {} => Clean')
    BY <1>10 DEF MarkSaved, MarkFails, connectionVars, pushes, OnTheWay, Clean
  <2> QED
    BY <1>2, <1>4, <2>1, <2>2
<1>11. CASE SeedLands \/ SeedFails
  <2>1. seed'.at = "none"
    BY <1>11, SeedForms DEF SeedLands, SeedFails
  <2> QED
    BY <2>1 DEF SeedTells
<1>12. CASE ReadCount
  <2> DEFINE n == [seed EXCEPT !.count = rows - Cardinality(readRows)]
  <2>1. seed' = n /\ UNCHANGED <<rows, pushing, wire, readRows, mark>>
    BY <1>12 DEF ReadCount, connectionVars, pushes
  <2>2. /\ n.at = seed.at /\ n.clean = seed.clean /\ n.count = rows - Cardinality(readRows)
        /\ n.upTo = seed.upTo /\ n.read = seed.read
    BY <1>1 DEF SeedsOf
  <2>3. OnTheWay' = OnTheWay
    BY <2>1 DEF OnTheWay
  <2> HIDE DEF n
  <2> QED
    BY <2>1, <2>2, <2>3 DEF SeedTells, Clean, NotRead
<1>13. CASE ReadPage
  <2> DEFINE n == [seed EXCEPT !.upTo = rows, !.read = readRows]
  <2>1. seed' = n /\ UNCHANGED <<rows, pushing, wire, readRows, mark>>
    BY <1>13 DEF ReadPage, connectionVars, pushes
  <2>2. /\ n.at = seed.at /\ n.clean = seed.clean /\ n.count = seed.count
        /\ n.upTo = rows /\ n.read = readRows
    BY <1>1 DEF SeedsOf
  <2>3. OnTheWay' = OnTheWay
    BY <2>1 DEF OnTheWay
  <2> HIDE DEF n
  <2> QED
    BY <2>1, <2>2, <2>3 DEF SeedTells, Clean, NotRead
(* The push was to come when the answer was asked for, or since. *)
<1>14. ASSUME NEW r \in 1 .. rows, NotifyPushed(r)
       PROVE  SeedTells'
  <2>1. seed' = seed /\ r \in pushing
    BY <1>14 DEF NotifyPushed, PushSent, PushFails
  <2>2. ~Clean
    BY <2>1 DEF Clean, OnTheWay
  <2> QED
    BY <2>1, <2>2 DEF SeedTells
<1> QED
  BY <1>6, <1>7, <1>8, <1>9, <1>10, <1>11, <1>12, <1>13, <1>14 DEF BellNext

LEMMA SeqsAgree ==
    ASSUME NEW S, NEW p \in Seq(S), NEW q \in Seq(S), Len(p) = Len(q),
           \A i \in 1 .. Len(p) : p[i] = q[i]
    PROVE  p = q
OBVIOUS

(* The bell's page of n rows holds the rows that fewer than RecentLimit follow. *)
LEMMA NewestShows ==
    ASSUME NEW n \in Nat
    PROVE  {Newest(n)[i] : i \in DOMAIN Newest(n)} = {x \in 1 .. n : n < x + RecentLimit}
<1>1. RecentLimit \in Nat /\ RecentLimit >= 1
  BY RecentAssumption
<1> DEFINE k == Len(Newest(n))
<1>2. /\ k = (IF n < RecentLimit THEN n ELSE RecentLimit)
      /\ DOMAIN Newest(n) = 1 .. k
      /\ \A i \in 1 .. k : Newest(n)[i] = n + 1 - i
  BY NewestAre
<1> HIDE DEF k
<1>3. ASSUME NEW i \in 1 .. k
      PROVE  Newest(n)[i] \in {x \in 1 .. n : n < x + RecentLimit}
  BY <1>1, <1>2, <1>3
<1>4. ASSUME NEW x \in 1 .. n, n < x + RecentLimit
      PROVE  x \in {Newest(n)[i] : i \in 1 .. k}
  <2>1. n + 1 - x \in 1 .. k /\ n + 1 - (n + 1 - x) = x
    BY <1>1, <1>2, <1>4
  <2>2. Newest(n)[n + 1 - x] = x
    BY <1>2, <2>1
  <2> QED
    BY <2>1, <2>2
<1> QED
  BY <1>2, <1>3, <1>4

(* A push puts the next row on top of the page and trims it. *)
LEMMA NewestGrows ==
    ASSUME NEW n \in Nat
    PROVE  Newest(n + 1) = SubSeq(<<n + 1>> \o Newest(n), 1,
                                  IF Len(Newest(n)) < RecentLimit
                                  THEN Len(Newest(n)) + 1 ELSE RecentLimit)
<1>0. RecentLimit \in Nat /\ RecentLimit >= 1
  BY RecentAssumption
<1> DEFINE p == Newest(n)
           q == <<n + 1>> \o p
           k == IF Len(p) < RecentLimit THEN Len(p) + 1 ELSE RecentLimit
           t == Newest(n + 1)
<1>1. /\ p \in Seq(1 .. n) /\ Len(p) = (IF n < RecentLimit THEN n ELSE RecentLimit)
      /\ DOMAIN p = 1 .. Len(p) /\ \A i \in DOMAIN p : p[i] = n + 1 - i
  BY NewestAre
<1>2. n + 1 \in Nat
  OBVIOUS
<1>3. /\ t \in Seq(1 .. (n + 1))
      /\ Len(t) = (IF n + 1 < RecentLimit THEN n + 1 ELSE RecentLimit)
      /\ DOMAIN t = 1 .. Len(t) /\ \A i \in DOMAIN t : t[i] = (n + 1) + 1 - i
  BY <1>2, NewestAre
<1> HIDE DEF p, t
<1>4. p \in Seq(1 .. (n + 1)) /\ n + 1 \in 1 .. (n + 1)
  <2>1. 1 .. n \subseteq 1 .. (n + 1)
    OBVIOUS
  <2> QED
    BY <1>1, <2>1, SeqOfMore
<1>5. /\ q \in Seq(1 .. (n + 1)) /\ Len(q) = Len(p) + 1
      /\ \A i \in 1 .. Len(q) : q[i] = IF i = 1 THEN n + 1 ELSE p[i - 1]
  BY <1>4
<1>6. Len(p) \in Nat /\ k \in 1 .. Len(q) /\ k = Len(t)
  BY <1>0, <1>1, <1>3, <1>5
<1> HIDE DEF q, k
<1>7. /\ SubSeq(q, 1, k) \in Seq(1 .. (n + 1)) /\ Len(SubSeq(q, 1, k)) = k
      /\ \A i \in 1 .. k : SubSeq(q, 1, k)[i] = q[i]
  BY <1>5, <1>6, SeqStarts
<1>8. \A i \in 1 .. k : q[i] = t[i]
  <2> TAKE i \in 1 .. k
  <2>0. i \in DOMAIN t /\ i \in 1 .. Len(q) /\ i \in Nat /\ i >= 1 /\ i <= Len(p) + 1
    BY <1>3, <1>5, <1>6
  <2>1. t[i] = (n + 1) + 1 - i /\ i \in 1 .. Len(q)
    BY <1>3, <2>0
  <2>2. CASE i = 1
    BY <1>5, <2>1, <2>2
  <2>3. CASE i # 1
    <3>0. i - 1 \in 1 .. Len(p)
      BY <1>6, <2>0, <2>3
    <3>1. i - 1 \in DOMAIN p
      BY <1>1, <3>0
    <3>2. p[i - 1] = n + 1 - (i - 1)
      BY <1>1, <3>1
    <3> QED
      BY <1>5, <2>1, <2>3, <3>2
  <2> QED
    BY <2>2, <2>3
<1>9. t = SubSeq(q, 1, k)
  BY <1>3, <1>6, <1>7, <1>8, SeqsAgree
<1> QED
  BY <1>9 DEF p, q, k, t

(* One way to show that the bell is kept in step. *)
LEMMA BellShowsNext ==
    ASSUME NEW d \in 0 .. rows', NEW h \in {0} \cup Hubs, NEW seen \in SUBSET (1 .. d),
           pushing' \subseteq d + 1 .. rows',
           wire' = {<<h, r>> : r \in (d + 1 .. rows') \ pushing'},
           recent' = Newest(d),
           unreadCount' = d - Cardinality(seen),
           shownRead' = seen \cap Shown',
           mark' = NoMark => seen = readRows',
           mark' \in 1 .. rows' => seen = readRows' \cup {mark'},
           mark' = AllRows => \E a \in 0 .. d : seen = 1 .. a
    PROVE  BellKept'
BY DEF BellKept, BellShows, Newest, NoMark, AllRows

LEMMA BellStays ==
    ASSUME BellKept, UNCHANGED <<rows, pushing, wire, readRows, bell, mark>>, raced => raced'
    PROVE  BellKept'
BY DEF BellKept, BellShows, Shown, bell

(* With nothing to come, the bell has heard of every row. *)
LEMMA NothingToCome ==
    ASSUME rows \in Nat, NEW d \in 0 .. rows, NEW h, NEW seen, BellShows(d, h, seen),
           OnTheWay = {}
    PROVE  d = rows /\ pushing = {} /\ wire = {}
<1>1. pushing = {} /\ wire = {}
  BY DEF OnTheWay
<1>2. {<<h, r>> : r \in d + 1 .. rows} = {}
  BY <1>1 DEF BellShows
<1>3. d < rows => d + 1 \in d + 1 .. rows
  OBVIOUS
<1>4. d + 1 .. rows = {}
  BY <1>2
<1> QED
  BY <1>1, <1>3, <1>4

(* A push arrives, and none of an older row is to come: it is the next row    *)
(* the bell has not heard of.                                               *)
LEMMA DeliveredKept ==
    ASSUME ConnectionTypeOK, BellTyped,
           NEW d \in 0 .. rows, NEW h \in {0} \cup Hubs, NEW seen \in SUBSET (1 .. d),
           BellShows(d, h, seen), NEW k \in Hubs, NEW r \in 1 .. rows, BellDelivered(k, r),
           ~raced'
    PROVE  BellKept'
<1>1. /\ rows \in Nat /\ readRows \subseteq 1 .. rows
      /\ mark \in {NoMark, AllRows} \cup 1 .. rows
      /\ RecentLimit \in Nat /\ RecentLimit >= 1
  BY BellHolds, RecentAssumption
<1>2. /\ pushing \subseteq d + 1 .. rows
      /\ wire = {<<h, x>> : x \in (d + 1 .. rows) \ pushing} /\ recent = Newest(d)
      /\ unreadCount = d - Cardinality(seen) /\ shownRead = seen \cap Shown
      /\ (mark = NoMark => seen = readRows)
      /\ (mark \in 1 .. rows => seen = readRows \cup {mark})
      /\ (mark = AllRows => \E a \in 0 .. d : seen = 1 .. a)
  BY DEF BellShows
<1>3. /\ <<k, r>> \in wire /\ (\A q \in OnTheWay : ~(q < r))
      /\ wire' = wire \ {<<k, r>>}
      /\ unreadCount' = unreadCount + 1
      /\ recent' = SubSeq(<<r>> \o recent, 1, IF Len(recent) < RecentLimit
                                              THEN Len(recent) + 1 ELSE RecentLimit)
      /\ shownRead' = shownRead \cap Shown'
      /\ UNCHANGED <<rows, pushing, readRows, mark>>
  BY DEF BellDelivered, Arrives, Shown
<1>4. k = h /\ r = d + 1 /\ r \notin pushing
  <2>1. k = h /\ r \in (d + 1 .. rows) \ pushing
    BY <1>2, <1>3
  <2>2. d + 1 \in d + 1 .. rows
    BY <1>1, <2>1
  <2>3. d + 1 \in OnTheWay
    <3>1. CASE d + 1 \in pushing
      BY <3>1 DEF OnTheWay
    <3>2. CASE d + 1 \notin pushing
      <4>1. <<h, d + 1>> \in wire /\ <<h, d + 1>>[2] = d + 1
        BY <1>2, <2>2, <3>2
      <4> QED
        BY <4>1 DEF OnTheWay
    <3> QED
      BY <3>1, <3>2
  <2>4. ~(d + 1 < r)
    BY <1>3, <2>3
  <2> QED
    BY <1>1, <2>1, <2>4
<1>5. d + 1 \in 0 .. rows' /\ d \in Nat /\ seen \in SUBSET (1 .. (d + 1))
  BY <1>1, <1>3, <1>4
<1>6. /\ pushing' \subseteq (d + 1) + 1 .. rows'
      /\ wire' = {<<h, x>> : x \in ((d + 1) + 1 .. rows') \ pushing'}
  <2>1. \A x \in d + 1 .. rows : x # d + 1 <=> x \in (d + 1) + 1 .. rows
    BY <1>1, <1>5
  <2>2. (d + 1) + 1 .. rows \subseteq d + 1 .. rows
    BY <1>1, <1>5
  <2>3. pushing \subseteq (d + 1) + 1 .. rows
    BY <1>2, <1>4, <2>1
  <2> QED
    BY <1>2, <1>3, <1>4, <2>1, <2>2, <2>3
<1>7. recent' = Newest(d + 1)
  BY <1>2, <1>3, <1>4, <1>5, NewestGrows
<1>8. unreadCount' = (d + 1) - Cardinality(seen)
  <2>1. Cardinality(seen) \in 0 .. d
    BY <1>5, SizeOfRows
  <2> QED
    BY <1>2, <1>3, <1>5, <2>1
<1>9. shownRead' = seen \cap Shown'
  <2>1. Shown = {x \in 1 .. d : d < x + RecentLimit}
    BY <1>2, <1>5, NewestShows DEF Shown
  <2>2. Shown' = {x \in 1 .. (d + 1) : d + 1 < x + RecentLimit}
    <3>1. Shown' = {recent'[i] : i \in DOMAIN recent'}
      BY DEF Shown
    <3> QED
      BY <1>5, <1>7, <3>1, NewestShows
  <2>3. seen \cap Shown' \subseteq Shown
    BY <1>1, <1>5, <2>1, <2>2
  <2> QED
    BY <1>2, <1>3, <2>3
<1>10. mark' = AllRows => \E a \in 0 .. (d + 1) : seen = 1 .. a
  BY <1>2, <1>3, <1>5
<1> QED
  BY <1>2, <1>3, <1>5, <1>6, <1>7, <1>8, <1>9, <1>10, BellShowsNext

(* A row is stored: its push is to come. *)
LEMMA NotifyKept ==
    ASSUME ConnectionTypeOK, BellTyped,
           NEW d \in 0 .. rows, NEW h \in {0} \cup Hubs, NEW seen \in SUBSET (1 .. d),
           BellShows(d, h, seen), Notify
    PROVE  BellKept'
<1>1. /\ rows \in Nat /\ rows <= MaxRows /\ MaxRows \in Nat /\ AllRows = MaxRows + 1
      /\ mark \in {NoMark, AllRows} \cup 1 .. rows /\ pushing \subseteq 1 .. rows
  BY BellHolds DEF ConnectionTypeOK
<1>2. /\ pushing \subseteq d + 1 .. rows
      /\ wire = {<<h, x>> : x \in (d + 1 .. rows) \ pushing} /\ recent = Newest(d)
      /\ unreadCount = d - Cardinality(seen) /\ shownRead = seen \cap Shown
      /\ (mark = NoMark => seen = readRows)
      /\ (mark \in 1 .. rows => seen = readRows \cup {mark})
      /\ (mark = AllRows => \E a \in 0 .. d : seen = 1 .. a)
  BY DEF BellShows
<1>3. /\ rows' = rows + 1 /\ pushing' = pushing \cup {rows + 1} /\ rows < MaxRows
      /\ UNCHANGED <<wire, readRows, mark, unreadCount, recent, shownRead>>
  BY DEF Notify, Store, bell
<1>4. d + 1 .. rows' = (d + 1 .. rows) \cup {rows + 1} /\ rows + 1 \notin d + 1 .. rows
  BY <1>1, <1>3
<1>5. (d + 1 .. rows') \ pushing' = (d + 1 .. rows) \ pushing
  BY <1>3, <1>4
<1>6. pushing' \subseteq d + 1 .. rows'
  BY <1>2, <1>3, <1>4
<1>7. d \in 0 .. rows' /\ wire' = {<<h, x>> : x \in (d + 1 .. rows') \ pushing'}
  BY <1>1, <1>2, <1>3, <1>5
<1>8. Shown' = Shown
  BY <1>3 DEF Shown
<1>9. mark' \in 1 .. rows' => mark \in 1 .. rows
  BY <1>1, <1>3 DEF NoMark
<1> QED
  BY <1>2, <1>3, <1>6, <1>7, <1>8, <1>9, BellShowsNext

(* A push is sent once: the hub it goes to is the one that the others are     *)
(* still on their way from.                                                 *)
LEMMA PushedKept ==
    ASSUME ConnectionTypeOK, WireOpen, BellTyped,
           NEW d \in 0 .. rows, NEW h \in {0} \cup Hubs, NEW seen \in SUBSET (1 .. d),
           BellShows(d, h, seen), NEW r \in 1 .. rows, NotifyPushed(r), ~raced'
    PROVE  BellKept'
<1>1. rows \in Nat /\ MaxHubs \in Nat
  BY BellHolds, ConnectionAssumption
<1>2. /\ pushing \subseteq d + 1 .. rows
      /\ wire = {<<h, x>> : x \in (d + 1 .. rows) \ pushing} /\ recent = Newest(d)
      /\ unreadCount = d - Cardinality(seen) /\ shownRead = seen \cap Shown
      /\ (mark = NoMark => seen = readRows)
      /\ (mark \in 1 .. rows => seen = readRows \cup {mark})
      /\ (mark = AllRows => \E a \in 0 .. d : seen = 1 .. a)
  BY DEF BellShows
<1> DEFINE Open == {x \in Hubs : hub[x] = "open"}
           New == {<<x, r>> : x \in Open}
<1> HIDE DEF New
<1>3. /\ r \in pushing /\ pushing' = pushing \ {r} /\ wire' = wire \cup New
      /\ Cardinality(wire' \ wire) = 1
      /\ UNCHANGED <<rows, readRows, mark, unreadCount, recent, shownRead>>
  BY DEF NotifyPushed, PushSent, PushFails, bell, New
<1>4. wire' \ wire = New
  <2>1. ASSUME NEW m \in wire
        PROVE  m \notin New
    <3>1. PICK y \in (d + 1 .. rows) \ pushing : m = <<h, y>>
      BY <1>2
    <3>2. y # r
      BY <1>3
    <3> QED
      BY <3>1, <3>2 DEF New
  <2> QED
    BY <1>3, <2>1
<1>5. PICK x \in Open : New = {<<x, r>>}
  <2>0. 1 \in Int /\ MaxHubs \in Int /\ rows \in Int
    BY <1>1
  <2>1. IsFiniteSet(1 .. MaxHubs) /\ IsFiniteSet(1 .. rows)
    BY <2>0, FS_Interval
  <2>2. IsFiniteSet(Hubs \X (1 .. rows))
    BY <2>1, FS_Product DEF Hubs
  <2>5. New \subseteq Hubs \X (1 .. rows)
    BY <1>1 DEF New
  <2>3. IsFiniteSet(New)
    BY <2>2, <2>5, FS_Subset
  <2>4. PICK m : New = {m}
    BY <1>3, <1>4, <2>3, FS_Singleton
  <2>6. PICK x \in Open : m = <<x, r>>
    BY <2>4 DEF New
  <2> QED
    BY <2>4, <2>6
<1>6. (d + 1 .. rows) \ pushing # {} => h = x
  <2> SUFFICES ASSUME NEW y \in (d + 1 .. rows) \ pushing PROVE h = x
    OBVIOUS
  <2>2. <<h, y>> \in wire
    BY <1>2
  <2>3. h \in Hubs /\ hub[h] = "open"
    <3>1. <<h, y>>[1] = h
      OBVIOUS
    <3> QED
      BY <2>2, <3>1 DEF WireOpen, ConnectionTypeOK
  <2>4. <<h, r>> \in New
    BY <2>3 DEF New
  <2>5. <<h, r>> = <<x, r>>
    BY <1>5, <2>4
  <2> QED
    BY <2>5
<1>7. /\ pushing' \subseteq d + 1 .. rows'
      /\ wire' = {<<x, y>> : y \in (d + 1 .. rows') \ pushing'}
  <2>1. wire = {<<x, y>> : y \in (d + 1 .. rows) \ pushing}
    <3>1. CASE (d + 1 .. rows) \ pushing # {}
      BY <1>2, <1>6, <3>1
    <3>2. CASE (d + 1 .. rows) \ pushing = {}
      BY <1>2, <3>2
    <3> QED
      BY <3>1, <3>2
  <2>2. (d + 1 .. rows) \ pushing' = ((d + 1 .. rows) \ pushing) \cup {r}
    BY <1>2, <1>3
  <2> QED
    BY <1>2, <1>3, <1>5, <2>1, <2>2
<1>8. d \in 0 .. rows' /\ x \in {0} \cup Hubs
  BY <1>3
<1>9. Shown' = Shown
  BY <1>3 DEF Shown
<1> QED
  BY <1>2, <1>3, <1>7, <1>8, <1>9, BellShowsNext

(* A clean answer lands: the bell is what the server has. *)
LEMMA SeedKept ==
    ASSUME ConnectionTypeOK, BellTyped, SeedTells, SeedLands, ~raced'
    PROVE  BellKept'
<1>1. /\ rows \in Nat /\ rows <= MaxRows /\ MaxRows \in Nat /\ AllRows = MaxRows + 1
      /\ readRows \subseteq 1 .. rows /\ seed.at \in {"none", "sent"}
      /\ (seed.at = "none" => seed = NoSeed)
  BY BellHolds
<1>2. /\ seed.count # NotRead /\ seed.upTo # NotRead
      /\ unreadCount' = seed.count /\ recent' = Newest(seed.upTo)
      /\ shownRead' = seed.read \cap {Newest(seed.upTo)[i] : i \in DOMAIN Newest(seed.upTo)}
      /\ seed.clean /\ UNCHANGED <<rows, pushing, wire, readRows, mark>>
  BY DEF SeedLands, connectionVars, pushes
<1>3. seed.at = "sent"
  BY <1>1, <1>2, SeedForms
<1>4. /\ pushing = {} /\ wire = {} /\ mark = NoMark
      /\ seed.count = rows - Cardinality(readRows)
      /\ seed.upTo = rows /\ seed.read = readRows
  BY <1>2, <1>3 DEF SeedTells, Clean, OnTheWay
<1>5. rows + 1 .. rows' = {}
  BY <1>1, <1>2
<1>6. rows \in 0 .. rows' /\ readRows \in SUBSET (1 .. rows) /\ 0 \in {0} \cup Hubs
  BY <1>1, <1>2
<1>7. shownRead' = readRows \cap Shown'
  BY <1>2, <1>4 DEF Shown
<1>8. mark' = NoMark /\ mark' \notin 1 .. rows' /\ mark' # AllRows
  BY <1>1, <1>2, <1>4 DEF NoMark
<1>9. /\ pushing' \subseteq rows + 1 .. rows'
      /\ wire' = {<<0, r>> : r \in (rows + 1 .. rows') \ pushing'}
  BY <1>2, <1>4, <1>5
<1> QED
  BY <1>2, <1>4, <1>6, <1>7, <1>8, <1>9, BellShowsNext

(* A row is marked read that the bell did not count as read. *)
LEMMA MarkReadKept ==
    ASSUME ConnectionTypeOK, BellTyped,
           NEW d \in 0 .. rows, NEW h \in {0} \cup Hubs, NEW seen \in SUBSET (1 .. d),
           BellShows(d, h, seen), NEW r \in 1 .. rows, MarkRead(r), ~raced'
    PROVE  BellKept'
<1>1. /\ rows \in Nat /\ rows <= MaxRows /\ MaxRows \in Nat /\ AllRows = MaxRows + 1
      /\ RecentLimit \in Nat
  BY BellHolds, RecentAssumption
<1>2. /\ pushing \subseteq d + 1 .. rows
      /\ wire = {<<h, x>> : x \in (d + 1 .. rows) \ pushing} /\ recent = Newest(d)
      /\ unreadCount = d - Cardinality(seen) /\ shownRead = seen \cap Shown
      /\ (mark = NoMark => seen = readRows)
  BY DEF BellShows
<1>3. /\ mark = NoMark /\ (r \in Shown => r \notin shownRead)
      /\ unreadCount' = (IF unreadCount = 0 THEN 0 ELSE unreadCount - 1)
      /\ shownRead' = shownRead \cup ({r} \cap Shown) /\ mark' = r
      /\ (r \in Shown \/ (r \notin readRows /\ OnTheWay = {}))
      /\ UNCHANGED <<rows, pushing, wire, readRows, recent>>
  BY DEF MarkRead, connectionVars, pushes
<1>4. r \notin seen
  BY <1>2, <1>3
<1>5. r \in 1 .. d
  <2>1. CASE r \in Shown
    <3>1. d \in Nat
      BY <1>1
    <3>2. Shown = {x \in 1 .. d : d < x + RecentLimit}
      BY <1>2, <3>1, NewestShows DEF Shown
    <3> QED
      BY <2>1, <3>2
  <2>2. CASE OnTheWay = {}
    BY <1>1, <2>2, NothingToCome
  <2> QED
    BY <1>3, <2>1, <2>2
<1> DEFINE now == seen \cup {r}
<1>6. now \in SUBSET (1 .. d) /\ d \in Nat
  BY <1>1, <1>5
<1>7. unreadCount' = d - Cardinality(now)
  <2>1. IsFiniteSet(seen) /\ Cardinality(seen) \in 0 .. d
    BY <1>6, SizeOfRows
  <2>2. Cardinality(now) = Cardinality(seen) + 1
    BY <1>4, <2>1, FS_AddElement
  <2>3. Cardinality(now) \in 0 .. d
    BY <1>6, SizeOfRows
  <2> HIDE DEF now
  <2>4. unreadCount >= 1 /\ unreadCount \in Nat
    BY <1>2, <1>6, <2>1, <2>2, <2>3
  <2>5. unreadCount' = unreadCount - 1
    BY <1>3, <2>4
  <2> QED
    BY <1>2, <1>6, <2>1, <2>2, <2>5
<1>8. shownRead' = now \cap Shown'
  <2>1. Shown' = Shown
    BY <1>3 DEF Shown
  <2> QED
    BY <1>2, <1>3, <2>1
<1>9. mark' # NoMark /\ mark' # AllRows /\ now = readRows' \cup {mark'}
  BY <1>1, <1>2, <1>3 DEF NoMark
<1> HIDE DEF now
<1>10. /\ pushing' \subseteq d + 1 .. rows'
       /\ wire' = {<<h, x>> : x \in (d + 1 .. rows') \ pushing'}
       /\ recent' = Newest(d) /\ d \in 0 .. rows'
  BY <1>2, <1>3
<1> QED
  BY <1>6, <1>7, <1>8, <1>9, <1>10, BellShowsNext

(* With nothing on its way, everything the server will read the bell shows as *)
(* read at once.                                                            *)
LEMMA MarkAllReadKept ==
    ASSUME ConnectionTypeOK, BellTyped,
           NEW d \in 0 .. rows, NEW h \in {0} \cup Hubs, NEW seen \in SUBSET (1 .. d),
           BellShows(d, h, seen), MarkAllRead, ~raced'
    PROVE  BellKept'
<1>1. /\ rows \in Nat /\ rows <= MaxRows /\ MaxRows \in Nat /\ AllRows = MaxRows + 1
      /\ RecentLimit \in Nat
  BY BellHolds, RecentAssumption
<1>2. /\ pushing \subseteq d + 1 .. rows
      /\ wire = {<<h, x>> : x \in (d + 1 .. rows) \ pushing} /\ recent = Newest(d)
  BY DEF BellShows
<1>3. /\ unreadCount' = 0 /\ shownRead' = Shown /\ mark' = AllRows
      /\ UNCHANGED <<rows, pushing, wire, readRows, recent>>
  BY DEF MarkAllRead, connectionVars, pushes
<1> DEFINE now == 1 .. d
<1>4. now \in SUBSET (1 .. d) /\ d \in Nat /\ d \in 0 .. d
  BY <1>1
<1>5. unreadCount' = d - Cardinality(now)
  <2>1. Cardinality(now) = d
    BY <1>4, SizeOfRows
  <2> QED
    BY <1>3, <1>4, <2>1
<1>6. shownRead' = now \cap Shown'
  <2>1. Shown = {x \in 1 .. d : d < x + RecentLimit}
    BY <1>2, <1>4, NewestShows DEF Shown
  <2>2. Shown' = Shown
    BY <1>3 DEF Shown
  <2> QED
    BY <1>3, <2>1, <2>2
<1>7. mark' # NoMark /\ mark' \notin 1 .. rows'
  BY <1>1, <1>3 DEF NoMark
<1>8. /\ pushing' \subseteq d + 1 .. rows'
      /\ wire' = {<<h, x>> : x \in (d + 1 .. rows') \ pushing'}
      /\ recent' = Newest(d) /\ d \in 0 .. rows'
  BY <1>2, <1>3
<1>9. \E a \in 0 .. d : now = 1 .. a
  BY <1>4
<1> HIDE DEF now
<1> QED
  BY <1>4, <1>5, <1>6, <1>7, <1>8, <1>9, BellShowsNext

(* The call is saved: what the bell shows as read is what is stored as read. *)
LEMMA MarkSavedKept ==
    ASSUME ConnectionTypeOK, BellTyped,
           NEW d \in 0 .. rows, NEW h \in {0} \cup Hubs, NEW seen \in SUBSET (1 .. d),
           BellShows(d, h, seen), MarkSaved, ~raced'
    PROVE  BellKept'
<1>1. /\ rows \in Nat /\ rows <= MaxRows /\ MaxRows \in Nat /\ AllRows = MaxRows + 1
      /\ mark \in {NoMark, AllRows} \cup 1 .. rows /\ readRows \subseteq 1 .. rows
  BY BellHolds
<1>2. /\ pushing \subseteq d + 1 .. rows
      /\ wire = {<<h, x>> : x \in (d + 1 .. rows) \ pushing} /\ recent = Newest(d)
      /\ unreadCount = d - Cardinality(seen) /\ shownRead = seen \cap Shown
      /\ (mark \in 1 .. rows => seen = readRows \cup {mark})
      /\ (mark = AllRows => \E a \in 0 .. d : seen = 1 .. a)
  BY DEF BellShows
<1>3. /\ mark # NoMark /\ mark' = NoMark
      /\ readRows' = readRows \cup (IF mark = AllRows THEN 1 .. rows ELSE {mark})
      /\ (mark = AllRows => unreadCount = 0 /\ OnTheWay = {})
      /\ UNCHANGED <<rows, pushing, wire, unreadCount, recent, shownRead>>
  BY DEF MarkSaved, connectionVars, pushes, bell
<1>4. seen = readRows'
  <2>1. CASE mark \in 1 .. rows
    <3>1. mark # AllRows
      BY <1>1, <2>1
    <3> QED
      BY <1>2, <1>3, <2>1, <3>1
  <2>2. CASE mark = AllRows
    <3>1. PICK a \in 0 .. d : seen = 1 .. a
      BY <1>2, <2>2
    <3>2. Cardinality(seen) = a
      BY <3>1, SizeOfRows
    <3>3. a = d
      BY <1>1, <1>2, <1>3, <2>2, <3>1, <3>2
    <3>4. d = rows
      BY <1>1, <1>3, <2>2, NothingToCome
    <3> QED
      BY <1>1, <1>3, <2>2, <3>1, <3>3, <3>4
  <2> QED
    BY <1>1, <1>3, <2>1, <2>2
<1>5. mark' \notin 1 .. rows' /\ mark' # AllRows
  BY <1>1, <1>3 DEF NoMark
<1>6. /\ pushing' \subseteq d + 1 .. rows'
      /\ wire' = {<<h, x>> : x \in (d + 1 .. rows') \ pushing'}
      /\ recent' = Newest(d) /\ d \in 0 .. rows'
      /\ unreadCount' = d - Cardinality(seen)
  BY <1>2, <1>3
<1>7. shownRead' = seen \cap Shown'
  BY <1>2, <1>3 DEF Shown
<1> QED
  BY <1>4, <1>5, <1>6, <1>7, BellShowsNext

LEMMA BellKeptStep ==
    ASSUME BellInv, [BellNext]_<<connectionVars, bellVars>>
    PROVE  BellKept'
<1>0. ConnectionTypeOK /\ WireOpen /\ BellTyped /\ SeedTells /\ BellKept
  BY DEF BellInv, ConnectionInv
<1>1. SUFFICES ASSUME ~raced' PROVE BellKept'
  BY DEF BellKept
<1>2. CASE SeedLands
  BY <1>0, <1>1, <1>2, SeedKept
<1>3. CASE UNCHANGED <<rows, pushing, wire, readRows, bell, mark, raced>>
  BY <1>0, <1>3, BellStays
<1>4. BellSignIn \/ BellSignOut \/ MarkFails => raced'
  BY DEF BellSignIn, BellSignOut, MarkFails
<1>5. \/ UNCHANGED <<connectionVars, bellVars>> \/ BellHubMoves
      \/ (\E h \in Hubs : BellReconnect(h)) \/ ReadCount \/ ReadPage \/ SeedFails
      => UNCHANGED <<rows, pushing, wire, readRows, bell, mark, raced>>
  BY DEF bellVars, connectionVars, pushes, BellHubMoves, HubMoves, Started, StartFailed, GiveUp,
         BellReconnect, Reconnect, ReadCount, ReadPage, SeedFails
<1>6. ASSUME NEW h \in Hubs, BellDrop(h)
      PROVE  BellKept'
  <2>1. UNCHANGED <<rows, pushing, wire, readRows, bell, mark>> /\ (raced => raced')
    BY <1>1, <1>6 DEF BellDrop, Drop
  <2> QED
    BY <1>0, <2>1, BellStays
<1>7. CASE \/ Notify \/ MarkAllRead \/ MarkSaved
           \/ (\E r \in 1 .. rows : NotifyPushed(r) \/ MarkRead(r))
           \/ (\E h \in Hubs : \E r \in 1 .. rows : BellDelivered(h, r))
  <2>1. ~raced
    BY <1>1, <1>7 DEF Notify, NotifyPushed, MarkAllRead, MarkSaved, MarkRead, BellDelivered
  <2>2. PICK d \in 0 .. rows : \E h \in {0} \cup Hubs, seen \in SUBSET (1 .. d) :
            BellShows(d, h, seen)
    BY <1>0, <2>1 DEF BellKept
  <2>3. PICK h \in {0} \cup Hubs, seen \in SUBSET (1 .. d) : BellShows(d, h, seen)
    BY <2>2
  <2>4. CASE Notify
    BY <1>0, <2>3, <2>4, NotifyKept
  <2>5. CASE MarkAllRead
    BY <1>0, <1>1, <2>3, <2>5, MarkAllReadKept
  <2>6. CASE MarkSaved
    BY <1>0, <1>1, <2>3, <2>6, MarkSavedKept
  <2>7. ASSUME NEW r \in 1 .. rows, MarkRead(r)
        PROVE  BellKept'
    BY <1>0, <1>1, <2>3, <2>7, MarkReadKept
  <2>8. ASSUME NEW k \in Hubs, NEW r \in 1 .. rows, BellDelivered(k, r)
        PROVE  BellKept'
    BY <1>0, <1>1, <2>3, <2>8, DeliveredKept
  <2>9. ASSUME NEW r \in 1 .. rows, NotifyPushed(r)
        PROVE  BellKept'
    BY <1>0, <1>1, <2>3, <2>9, PushedKept
  <2> QED
    BY <1>7, <2>4, <2>5, <2>6, <2>7, <2>8, <2>9
<1> QED
  BY <1>1, <1>2, <1>3, <1>4, <1>5, <1>6, <1>7 DEF BellNext

LEMMA BellInvStep == BellInv /\ [BellNext]_<<connectionVars, bellVars>> => BellInv'
<1> SUFFICES ASSUME BellInv, [BellNext]_<<connectionVars, bellVars>> PROVE BellInv'
  OBVIOUS
<1>1. ConnectionInv /\ ConnectionTypeOK /\ BellTyped /\ SeedTells
  BY DEF BellInv, ConnectionInv
<1>2. ConnectionInv'
  BY <1>1, ConnectionStep, BellMovesConnection
<1>3. BellTyped' /\ SeedTells' /\ BellKept'
  BY <1>1, BellTypedStep, SeedTellsStep, BellKeptStep
<1> QED
  BY <1>2, <1>3 DEF BellInv

(* With nothing under way, the badge counts what the server has unread and   *)
(* the list is its newest rows, each shown read or not as it is, for any     *)
(* number of rows and any length of the list: the reducer of the            *)
(* notification store comes to what a re-read would give.  A push that       *)
(* failed, was lost or came out of order has been re-read since.            *)
THEOREM BellKeepsStep == BellSpec => []BellInStep
<1>1. BellInv => BellInStep
  <2> SUFFICES ASSUME BellInv, signedIn, seed.at = "none", mark = NoMark, OnTheWay = {}, ~raced
               PROVE  /\ unreadCount = rows - Cardinality(readRows)
                      /\ recent = Newest(rows)
                      /\ shownRead = readRows \cap Shown
    BY DEF BellInStep
  <2>1. rows \in Nat /\ BellKept
    BY BellHolds DEF BellInv, ConnectionInv
  <2>2. PICK d \in 0 .. rows : \E h \in {0} \cup Hubs, seen \in SUBSET (1 .. d) :
            BellShows(d, h, seen)
    BY <2>1 DEF BellKept
  <2>3. PICK h \in {0} \cup Hubs, seen \in SUBSET (1 .. d) : BellShows(d, h, seen)
    BY <2>2
  <2>4. d = rows
    BY <2>1, <2>3, NothingToCome
  <2> QED
    BY <2>3, <2>4 DEF BellShows
<1> QED
  BY <1>1, BellInvInit, BellInvStep, PTL DEF BellSpec

-----------------------------------------------------------------------------
(* The tab: types *)

(* No answer tells of a message that is not stored. *)
ThreadTyped ==
    /\ ThreadTypeOK
    /\ fetch.at = "read" => fetch.upTo <= rows
    /\ posting \in {0, Sending} \cup 1 .. rows

(* Types over the messages there were are types over the messages there are. *)
LEMMA ThreadTypedMoves ==
    ASSUME ConnectionTypeOK, rows' \in {rows, rows + 1}, rows' <= MaxRows,
           mine' \subseteq 1 .. rows', unseen' \subseteq (1 .. rows') \ mine',
           page' \in {"thread", "inbox"}, fetch' \in Fetch,
           fetch'.at = "read" => fetch'.upTo <= rows',
           history' \in 0 .. rows', live' \subseteq 1 .. rows', marking' \in BOOLEAN,
           posting' \in {0, Sending} \cup 1 .. rows', missed' \subseteq 1 .. rows',
           markLost' \in BOOLEAN
    PROVE  ThreadTyped'
<1>1. rows' \in Nat /\ MaxRows \in Nat /\ Sending = MaxRows + 1
  BY ConnectionAssumption DEF ConnectionTypeOK, Sending
<1>2. posting' \in 0 .. Sending
  BY <1>1
<1> QED
  BY <1>2 DEF ThreadTyped, ThreadTypeOK, Fetch, Sending

LEMMA ThreadTypedStep ==
    ASSUME ConnectionInv, ThreadTyped, [ThreadNext]_<<connectionVars, threadVars>>
    PROVE  ThreadTyped'
<1>0. /\ ConnectionTypeOK /\ rows' \in {rows, rows + 1} /\ rows' <= MaxRows
      /\ rows \in Nat /\ MaxRows \in Nat
  <2>1. ConnectionInv' /\ rows' \in {rows, rows + 1}
    BY ConnectionStep, ThreadMovesConnection
  <2> QED
    BY <2>1, ConnectionAssumption DEF ConnectionInv, ConnectionTypeOK
<1>1. 1 .. rows \subseteq 1 .. rows' /\ 0 .. rows \subseteq 0 .. rows'
  BY <1>0
<1>2. /\ mine \subseteq 1 .. rows /\ unseen \subseteq (1 .. rows) \ mine
      /\ page \in {"thread", "inbox"} /\ fetch \in Fetch
      /\ (fetch.at = "read" => fetch.upTo <= rows)
      /\ history \in 0 .. rows /\ live \subseteq 1 .. rows /\ marking \in BOOLEAN
      /\ posting \in {0, Sending} \cup 1 .. rows /\ missed \subseteq 1 .. rows
      /\ markLost \in BOOLEAN
  BY DEF ThreadTyped, ThreadTypeOK
<1>3. /\ mine \subseteq 1 .. rows' /\ unseen \subseteq (1 .. rows') \ mine
      /\ (fetch.at = "read" => fetch.upTo <= rows')
      /\ history \in 0 .. rows' /\ live \subseteq 1 .. rows'
      /\ posting \in {0, Sending} \cup 1 .. rows' /\ missed \subseteq 1 .. rows'
  <2>1. fetch.upTo \in Nat
    BY <1>0, <1>2 DEF Fetch
  <2> QED
    BY <1>0, <1>1, <1>2, <2>1
<1>4. Mounting \in Fetch /\ Mounting.at = "sent"
  BY <1>0 DEF Mounting, Fetch
<1>5. Reload => fetch' \in Fetch /\ fetch'.at = "sent"
  <2> DEFINE n == [fetch EXCEPT !.at = "sent", !.upTo = 0]
  <2>1. 0 \in 0 .. MaxRows
    BY <1>0
  <2>2. n \in Fetch /\ n.at = "sent"
    BY <1>2, <2>1 DEF Fetch
  <2>3. Reload => fetch' = n
    BY DEF Reload
  <2> HIDE DEF n
  <2> QED
    BY <2>2, <2>3
<1>6. ASSUME NEW p \in {"thread", "inbox"}, Mount(p), UNCHANGED <<mine, unseen>>
      PROVE  ThreadTyped'
  <2>1. /\ page' = p /\ fetch' = Mounting /\ history' = 0 /\ live' = {}
        /\ marking' \in BOOLEAN /\ posting' = 0 /\ missed' = {} /\ markLost' = FALSE
    BY <1>6 DEF Mount
  <2>2. 0 \in 0 .. rows'
    BY <1>0
  <2> QED
    BY <1>0, <1>3, <1>4, <1>6, <2>1, <2>2, ThreadTypedMoves
(* A run of the page's request comes or goes. *)
<1>7. ASSUME fetch' \in Fetch, fetch'.at = "read" => fetch'.upTo <= rows',
             live' \subseteq 1 .. rows', marking' \in BOOLEAN, markLost' \in BOOLEAN,
             history' \in 0 .. rows', posting' \in {0, Sending} \cup 1 .. rows',
             missed' \subseteq 1 .. rows', unseen' \subseteq unseen, UNCHANGED <<mine, page>>
      PROVE  ThreadTyped'
  BY <1>0, <1>2, <1>3, <1>7, ThreadTypedMoves
<1>8. CASE UNCHANGED threadVars
  BY <1>2, <1>3, <1>7, <1>8 DEF threadVars, view
<1>9. ASSUME NEW p \in {"thread", "inbox"}, ThreadSignIn(p) \/ Navigate(p)
      PROVE  ThreadTyped'
  BY <1>6, <1>9 DEF ThreadSignIn, Navigate
<1>10. CASE ThreadSignOut \/ ThreadHubMoves
  BY <1>8, <1>10 DEF ThreadSignOut, ThreadHubMoves
<1>11. ASSUME NEW h \in Hubs, ThreadDrop(h)
       PROVE  ThreadTyped'
  <2>1. {m[2] : m \in wire \ wire'} \subseteq 1 .. rows'
    BY <1>0, <1>1 DEF ConnectionTypeOK
  <2>2. missed' \subseteq 1 .. rows'
    BY <1>3, <1>11, <2>1 DEF ThreadDrop
  <2> QED
    BY <1>2, <1>3, <1>7, <1>11, <2>2 DEF ThreadDrop, view
<1>12. ASSUME NEW h \in Hubs, ThreadReconnect(h)
       PROVE  ThreadTyped'
  BY <1>2, <1>3, <1>5, <1>7, <1>12 DEF ThreadReconnect
<1>13. ASSUME NEW h \in Hubs, NEW r \in 1 .. rows, ThreadDelivered(h, r)
       PROVE  ThreadTyped'
  <2>1. live' \subseteq 1 .. rows' /\ marking' \in BOOLEAN /\ (Reload \/ fetch' = fetch)
    BY <1>1, <1>2, <1>3, <1>13 DEF ThreadDelivered
  <2> QED
    BY <1>2, <1>3, <1>5, <1>7, <1>13, <2>1 DEF ThreadDelivered
<1>14. CASE Incoming
  <2>1. /\ rows' = rows + 1 /\ unseen' = unseen \cup {rows + 1}
        /\ UNCHANGED <<mine, page, fetch, history, live, marking, posting, missed, markLost>>
    BY <1>14 DEF Incoming, Store, view
  <2>2. rows + 1 \in 1 .. rows' /\ rows + 1 \notin 1 .. rows
    BY <1>0, <2>1
  <2>3. unseen' \subseteq (1 .. rows') \ mine'
    BY <1>2, <1>3, <2>1, <2>2
  <2> QED
    BY <1>0, <1>2, <1>3, <2>1, <2>3, ThreadTypedMoves
<1>15. CASE PostSaved
  <2>1. /\ rows' = rows + 1 /\ mine' = mine \cup {rows + 1} /\ posting' = rows + 1
        /\ UNCHANGED <<unseen, page, fetch, history, live, marking, missed, markLost>>
    BY <1>15 DEF PostSaved, view
  <2>2. rows + 1 \in 1 .. rows' /\ rows + 1 \notin 1 .. rows
    BY <1>0, <2>1
  <2>3. mine' \subseteq 1 .. rows' /\ unseen' \subseteq (1 .. rows') \ mine'
    BY <1>2, <1>3, <2>1, <2>2
  <2>4. posting' \in 1 .. rows'
    BY <2>1, <2>2
  <2> QED
    BY <1>0, <1>2, <1>3, <2>1, <2>3, <2>4, ThreadTypedMoves
<1>16. CASE MarkThreadRead
  BY <1>2, <1>3, <1>7, <1>16 DEF MarkThreadRead, view
<1>17. CASE FetchRead
  <2> DEFINE n == [fetch EXCEPT !.at = "read", !.upTo = rows]
  <2>1. fetch' = n /\ UNCHANGED <<rows, mine, unseen, page, history, live, marking, posting,
                                  missed, markLost>>
    BY <1>17 DEF FetchRead, connectionVars, pushes
  <2>2. rows \in 0 .. MaxRows
    BY <1>0 DEF ConnectionTypeOK
  <2>3. n \in Fetch /\ n.upTo = rows
    BY <1>2, <2>2 DEF Fetch
  <2> HIDE DEF n
  <2>4. fetch'.upTo <= rows'
    BY <1>0, <2>1, <2>3
  <2> QED
    BY <1>2, <1>3, <1>7, <2>1, <2>3, <2>4
<1>18. CASE Loaded
  <2>1. /\ fetch' = [shown |-> "success", at |-> "none", upTo |-> 0] /\ history' = fetch.upTo
        /\ fetch.at = "read" /\ missed' \subseteq missed
        /\ UNCHANGED <<rows, mine, unseen, page, live, marking, posting, markLost>>
    BY <1>18 DEF Loaded, connectionVars, pushes
  <2>2. fetch' \in Fetch /\ fetch'.at = "none"
    BY <1>0, <2>1 DEF Fetch
  <2>3. fetch.upTo \in Nat
    BY <1>0, <1>2 DEF Fetch
  <2>4. history' \in 0 .. rows'
    BY <1>0, <1>2, <2>1, <2>3
  <2> QED
    BY <1>2, <1>3, <1>7, <2>1, <2>2, <2>4
<1>19. CASE LoadFails
  <2>1. /\ fetch' = [shown |-> "error", at |-> "none", upTo |-> 0]
        /\ UNCHANGED <<mine, unseen, page, history, live, marking, posting, missed, markLost>>
    BY <1>19 DEF LoadFails
  <2>2. fetch' \in Fetch /\ fetch'.at = "none"
    BY <1>0, <2>1 DEF Fetch
  <2> QED
    BY <1>2, <1>3, <1>7, <2>1, <2>2
<1>20. CASE Retry
  BY <1>2, <1>3, <1>5, <1>7, <1>20 DEF Retry
<1>21. CASE Post
  BY <1>2, <1>3, <1>7, <1>21 DEF Post, view
<1>22. CASE PostAnswered
  <2>1. posting \in 1 .. MaxRows /\ live' = live \cup {posting} /\ posting' = 0
        /\ UNCHANGED <<mine, unseen, page, fetch, history, marking, missed, markLost>>
    BY <1>22 DEF PostAnswered
  <2>2. posting # Sending /\ posting # 0
    BY <1>0, <2>1 DEF Sending
  <2>3. live' \subseteq 1 .. rows'
    BY <1>1, <1>2, <1>3, <2>1, <2>2
  <2> QED
    BY <1>2, <1>3, <1>7, <2>1, <2>3
<1>23. CASE PostFails
  <2>1. posting # 0 /\ missed' = missed \cup ({posting} \ {Sending}) /\ posting' = 0
        /\ UNCHANGED <<mine, unseen, page, fetch, history, live, marking, markLost>>
    BY <1>23 DEF PostFails, view
  <2>2. missed' \subseteq 1 .. rows'
    BY <1>1, <1>2, <1>3, <2>1
  <2> QED
    BY <1>2, <1>3, <1>7, <2>1, <2>2
<1>24. ASSUME NEW r \in 1 .. rows, IncomingPushed(r)
       PROVE  ThreadTyped'
  <2>1. /\ missed' \in {missed, missed \cup {r}}
        /\ UNCHANGED <<mine, unseen, page, fetch, history, live, marking, posting, markLost>>
    BY <1>24 DEF IncomingPushed, view
  <2>2. missed' \subseteq 1 .. rows'
    BY <1>1, <1>3, <2>1
  <2> QED
    BY <1>2, <1>3, <1>7, <2>1, <2>2
<1> QED
  BY <1>8, <1>9, <1>10, <1>11, <1>12, <1>13, <1>14, <1>15, <1>16, <1>17, <1>18, <1>19, <1>20,
     <1>21, <1>22, <1>23, <1>24 DEF ThreadNext, threadVars

(* A push, and every other move of the connection, leaves the part of the tab *)
(* that is not watched as it is, over at least as many rows.                *)
LEMMA UnwatchedTyped ==
    ASSUME ConnectionTypeOK, BellTyped, ThreadTyped,
           rows' \in {rows, rows + 1}, rows' <= MaxRows
    PROVE  /\ UNCHANGED bellVars => BellTyped'
           /\ UNCHANGED threadVars => ThreadTyped'
<1>1. ASSUME UNCHANGED bellVars
      PROVE  BellTyped'
  <2>1. Shown' = Shown /\ UNCHANGED <<readRows, unreadCount, recent, shownRead, seed, mark, raced>>
    BY <1>1 DEF bellVars, bell, Shown
  <2> QED
    BY <2>1, BellHolds, BellTypedMoves
<1>2. ASSUME UNCHANGED threadVars
      PROVE  ThreadTyped'
  <2>1. /\ mine \subseteq 1 .. rows /\ unseen \subseteq (1 .. rows) \ mine
        /\ page \in {"thread", "inbox"} /\ fetch \in Fetch
        /\ (fetch.at = "read" => fetch.upTo <= rows)
        /\ history \in 0 .. rows /\ live \subseteq 1 .. rows /\ marking \in BOOLEAN
        /\ posting \in {0, Sending} \cup 1 .. rows /\ missed \subseteq 1 .. rows
        /\ markLost \in BOOLEAN
    BY DEF ThreadTyped, ThreadTypeOK
  <2>2. rows \in Nat /\ 1 .. rows \subseteq 1 .. rows' /\ 0 .. rows \subseteq 0 .. rows'
    BY DEF ConnectionTypeOK
  <2>3. fetch.upTo \in Nat
    BY <2>1, ConnectionAssumption DEF Fetch
  <2>4. UNCHANGED <<mine, unseen, page, fetch, history, live, marking, posting, missed, markLost>>
    BY <1>2 DEF threadVars, view
  <2>5. fetch'.at = "read" => fetch'.upTo <= rows'
    BY <2>1, <2>2, <2>3, <2>4
  <2> QED
    BY <2>1, <2>2, <2>4, <2>5, ThreadTypedMoves
<1> QED
  BY <1>1, <1>2

TabTyped == ConnectionInv /\ BellTyped /\ ThreadTyped

LEMMA TabTypedInit == Init => TabTyped
<1> SUFFICES ASSUME Init PROVE TabTyped
  OBVIOUS
<1>1. BellInv /\ rows = 0
  BY BellInvInit DEF Init, ConnectionInit
<1>2. Mounting \in Fetch /\ Mounting.at = "sent"
  <2>1. 0 \in 0 .. MaxRows
    BY ConnectionAssumption
  <2> QED
    BY <2>1 DEF Mounting, Fetch
<1>3. Sending \in Nat /\ 0 \in 0 .. Sending
  BY ConnectionAssumption DEF Sending
<1>4. ThreadTyped
  <2>1. /\ mine = {} /\ unseen = {} /\ page = "inbox" /\ fetch = Mounting /\ history = 0
        /\ live = {} /\ marking = FALSE /\ posting = 0 /\ missed = {} /\ markLost = FALSE
    BY DEF Init, ThreadInit
  <2>2. history \in 0 .. rows
    BY <1>1, <2>1
  <2> QED
    BY <1>2, <1>3, <2>1, <2>2 DEF ThreadTyped, ThreadTypeOK
<1> QED
  BY <1>1, <1>4 DEF BellInv, TabTyped

LEMMA TabTypedStep ==
    TabTyped /\ [Next]_<<connectionVars, bellVars, threadVars, watched>> => TabTyped'
<1> SUFFICES ASSUME TabTyped, [Next]_<<connectionVars, bellVars, threadVars, watched>>
             PROVE  TabTyped'
  OBVIOUS
<1>1. ConnectionInv /\ ConnectionTypeOK /\ BellTyped /\ ThreadTyped
  BY DEF TabTyped, ConnectionInv
<1>2. \/ [BellNext]_<<connectionVars, bellVars>> /\ UNCHANGED threadVars
      \/ [ThreadNext]_<<connectionVars, threadVars>> /\ UNCHANGED bellVars
  BY DEF Next
<1>3. ConnectionMoves
  BY <1>2, BellMovesConnection, ThreadMovesConnection
<1>4. ConnectionInv' /\ rows' \in {rows, rows + 1} /\ rows' <= MaxRows
  <2>1. ConnectionInv' /\ rows' \in {rows, rows + 1}
    BY <1>1, <1>3, ConnectionStep
  <2> QED
    BY <2>1, ConnectionAssumption DEF ConnectionInv, ConnectionTypeOK
<1>5. (UNCHANGED bellVars => BellTyped') /\ (UNCHANGED threadVars => ThreadTyped')
  BY <1>1, <1>4, UnwatchedTyped
<1>6. [BellNext]_<<connectionVars, bellVars>> => BellTyped'
  BY <1>1, BellTypedStep
<1>7. [ThreadNext]_<<connectionVars, threadVars>> => ThreadTyped'
  BY <1>1, ThreadTypedStep
<1> QED
  BY <1>2, <1>4, <1>5, <1>6, <1>7 DEF TabTyped

(* The hubs, the bell and the conversation of a tab stay of their types: no   *)
(* page tells of a row that is not stored, the list never outgrows its       *)
(* limit, and the badge is never negative.                                  *)
THEOREM RealtimeTyped == Spec => []TypeOK
<1>1. TabTyped => TypeOK
  BY DEF TabTyped, ConnectionInv, BellTyped, ThreadTyped, TypeOK
<1> QED
  BY <1>1, TabTypedInit, TabTypedStep, PTL DEF Spec
=============================================================================

------------------------------- MODULE Sessions -------------------------------
(***************************************************************************)
(* A user's session in several tabs of one browser.  The server rotates the *)
(* refresh token; each tab keeps the session in memory, renews it on a      *)
(* timer, and shares it with the others through localStorage, whose events  *)
(* arrive later.  Requests are read, saved and answered in separate steps   *)
(* and may be refused, lost on the way or lost on the way back.             *)
(*                                                                         *)
(* Sessions are numbered in the order they are issued: session n is one     *)
(* access token and the refresh token issued with it; 0 is no session.      *)
(***************************************************************************)
EXTENDS Naturals, FiniteSets

CONSTANTS
    Tabs,
    MaxSessions,     \* bound on the sessions the server issues
    StorageFails     \* localStorage may throw: private browsing, or a full quota

ASSUME SessionsAssumption == MaxSessions \in Nat /\ StorageFails \in BOOLEAN

VARIABLES
    issued,          \* sessions issued so far
    active,          \* refresh tokens that are neither revoked nor expired
    redeemed,        \* history: refresh tokens that were ever exchanged
    due,             \* access tokens 1 .. due are in their last minute, or past it
    stored,          \* the session in localStorage
    mem,             \* session-store state.session of each tab
    timer,           \* the session each tab's refreshTimer is armed for
    behind,          \* tabs with storage events yet to handle
    refresh,         \* refreshInFlight of each tab
    logout,          \* the revoke call signOut awaits
    enter,           \* the session a sign-in or sign-up form is about to be given
    adrift,          \* history: tabs whose last use of localStorage failed
    lapsed           \* history: stored outlived a write that failed, or a tab that was
                     \* reloaded before it heard what became of its refresh or sign-out

server == <<issued, active, redeemed, due>>
storage == <<stored, behind, adrift, lapsed>>
clients == <<storage, mem, timer>>
calls == <<refresh, logout, enter>>
vars == <<server, clients, calls>>

Session == 0 .. MaxSessions

(* A call of refresh or logout: with its token on the way to a handler, read  *)
(* by it, or answered with a session, 0 for anything else.                  *)
Call ==
    [at: {"idle"}, token: {0}, result: {0}]
        \cup [at: {"sent", "read"}, token: Session \ {0}, result: {0}]
        \cup [at: {"answered"}, token: {0}, result: Session]
Idle == [at |-> "idle", token |-> 0, result |-> 0]
Sent(n) == [at |-> "sent", token |-> n, result |-> 0]
Answered(m) == [at |-> "answered", token |-> 0, result |-> m]

-----------------------------------------------------------------------------
(* IdentityService *)

Issue(parents) ==
    /\ issued < MaxSessions
    /\ issued' = issued + 1
    /\ active' = (active \ parents) \cup {issued + 1}
    /\ redeemed' = redeemed \cup parents

(* RefreshTokenAsync reads the user and refuses a token that is not active. *)
RefreshRead(t) ==
    /\ refresh[t].at = "sent"
    /\ refresh' = [refresh EXCEPT ![t] =
                     IF @.token \in active THEN [@ EXCEPT !.at = "read"]
                                           ELSE Answered(0)]
    /\ UNCHANGED <<server, clients, logout, enter>>

(* Mutant of RefreshSave: the old token is linked but not revoked. *)
RefreshSaveKeepsOld(t) ==
    /\ refresh[t].at = "read"
    /\ issued < MaxSessions
    /\ issued' = issued + 1
    /\ active' = active \cup {issued + 1}
    /\ redeemed' = redeemed \cup {refresh[t].token}
    /\ refresh' = [refresh EXCEPT ![t] = Answered(issued + 1)]
    /\ UNCHANGED <<due, clients, logout, enter>>

(* It then revokes the token it read and adds the successor, in one save. *)
RefreshSave(t) ==
    /\ refresh[t].at = "read"
    /\ Issue({refresh[t].token})
    /\ refresh' = [refresh EXCEPT ![t] = Answered(issued + 1)]
    /\ UNCHANGED <<due, clients, logout, enter>>

(* RevokeTokenAsync answers the same whether or not there was anything to    *)
(* revoke, and does no harm to a token already dead: one step is enough.    *)
LogoutSave(t) ==
    /\ logout[t].at = "sent"
    /\ active' = active \ {logout[t].token}
    /\ logout' = [logout EXCEPT ![t] = Answered(0)]
    /\ UNCHANGED <<issued, redeemed, due, clients, refresh, enter>>

(* The login and register forms, for a signed-out visitor and one call at a  *)
(* time: a call that succeeds ends in GenerateAuthenticationResultAsync, and *)
(* one that fails leaves the form as it was.                                *)
SignIn(t) ==
    /\ mem[t] = 0
    /\ enter[t] = 0
    /\ Issue({})
    /\ enter' = [enter EXCEPT ![t] = issued + 1]
    /\ UNCHANGED <<due, clients, refresh, logout>>

(* The rate limiter refuses, the credentials are wrong, the refresh token    *)
(* has expired, a save throws, or the network loses the request or its      *)
(* answer: all look alike to the tab.                                       *)
Lose(t) ==
    /\ \/ refresh[t].at # "idle" /\ refresh' = [refresh EXCEPT ![t] = Answered(0)]
                                /\ UNCHANGED <<logout, enter>>
       \/ logout[t].at # "idle" /\ logout' = [logout EXCEPT ![t] = Answered(0)]
                               /\ UNCHANGED <<refresh, enter>>
       \/ enter[t] # 0 /\ enter' = [enter EXCEPT ![t] = 0]
                       /\ UNCHANGED <<refresh, logout>>
    /\ UNCHANGED <<server, clients>>

(* Expiry goes in the order of issue. *)
TimePasses ==
    /\ due < issued
    /\ due' = due + 1
    /\ UNCHANGED <<issued, active, redeemed, clients, calls>>

-----------------------------------------------------------------------------
(* session-store *)

(* localStorage tells every other tab, and only of a change.  It may also    *)
(* throw, for want of room or of permission, and write goes on as if it had *)
(* not: the tab then shows what only it knows of.                           *)
Write(t, n) ==
    \/ /\ stored' = n
       /\ behind' = IF n = stored THEN behind ELSE behind \cup (Tabs \ {t})
       /\ adrift' = adrift \ {t}
       /\ lapsed' = FALSE
    \/ /\ StorageFails
       /\ n # stored
       /\ adrift' = adrift \cup {t}
       /\ lapsed' = (stored # 0)
       /\ UNCHANGED <<stored, behind>>

(* read answers null when localStorage throws. *)
Read(t, n) ==
    \/ n = stored /\ adrift' = adrift \ {t}
    \/ StorageFails /\ n = 0 /\ stored # 0 /\ adrift' = adrift \cup {t}

RunRefresh(t, n) ==
    refresh' = IF refresh[t] = Idle /\ n # 0 THEN [refresh EXCEPT ![t] = Sent(n)]
                                             ELSE refresh

(* Mutant of ScheduleRefresh: the timer is left as it was. *)
ScheduleRefreshOnce(t, n) ==
    IF n > due
    THEN timer' = [timer EXCEPT ![t] = IF @ = 0 THEN n ELSE @] /\ UNCHANGED refresh
    ELSE timer' = [timer EXCEPT ![t] = 0] /\ RunRefresh(t, n)

(* A timer, or at once if the token is already in its last minute; but never *)
(* a second request beside one in flight.                                   *)
ScheduleRefresh(t, n) ==
    IF n > due
    THEN timer' = [timer EXCEPT ![t] = n] /\ UNCHANGED refresh
    ELSE timer' = [timer EXCEPT ![t] = 0] /\ RunRefresh(t, n)

ClearSession(t) ==
    /\ timer' = [timer EXCEPT ![t] = 0]
    /\ Write(t, 0)
    /\ mem' = [mem EXCEPT ![t] = 0]

(* The tab is reloaded, or closed and opened again: the module is evaluated  *)
(* afresh, and nobody waits for what it had sent, which the server has dealt *)
(* with or never will.                                                      *)
Hydrate(t) ==
    /\ \E n \in {stored, 0} :
         /\ Read(t, n)
         /\ mem' = [mem EXCEPT ![t] = n]
         /\ timer' = [timer EXCEPT ![t] = IF n > due THEN n ELSE 0]
         /\ refresh' = [refresh EXCEPT ![t] = IF n = 0 \/ n > due THEN Idle ELSE Sent(n)]
    /\ logout' = [logout EXCEPT ![t] = Idle]
    /\ enter' = [enter EXCEPT ![t] = 0]
    /\ behind' = behind \ {t}
    /\ lapsed' = (stored # 0 /\ (lapsed \/ refresh[t] # Idle \/ logout[t] # Idle))
    /\ UNCHANGED <<server, stored>>

TimerFires(t) ==
    /\ timer[t] # 0
    /\ timer[t] <= due
    /\ timer' = [timer EXCEPT ![t] = 0]
    /\ RunRefresh(t, mem[t])
    /\ UNCHANGED <<server, storage, mem, logout, enter>>

(* A data request is refused for the expired token it was sent with.        *)
Unauthorized(t) ==
    /\ mem[t] # 0
    /\ due > 0
    /\ RunRefresh(t, mem[t])
    /\ UNCHANGED <<server, clients, logout, enter>>

(* Mutant of RefreshAnswered: a failed refresh leaves the session there. *)
RefreshAnsweredOnly(t) ==
    /\ refresh[t].at = "answered"
    /\ refresh' = [refresh EXCEPT ![t] = Idle]
    /\ LET m == refresh[t].result IN
       IF m # 0
       THEN /\ Write(t, m)
            /\ mem' = [mem EXCEPT ![t] = m]
            /\ timer' = [timer EXCEPT ![t] = IF m > due THEN m ELSE 0]
       ELSE UNCHANGED clients
    /\ UNCHANGED <<server, logout, enter>>

(* The new session is adopted, or the old one given up.  refreshInFlight is  *)
(* still set when scheduleRefresh runs, so a token that is already due here  *)
(* gets neither a timer nor a request.                                      *)
RefreshAnswered(t) ==
    /\ refresh[t].at = "answered"
    /\ refresh' = [refresh EXCEPT ![t] = Idle]
    /\ LET m == refresh[t].result IN
       IF m # 0
       THEN /\ Write(t, m)
            /\ mem' = [mem EXCEPT ![t] = m]
            /\ timer' = [timer EXCEPT ![t] = IF m > due THEN m ELSE 0]
       ELSE ClearSession(t)
    /\ UNCHANGED <<server, logout, enter>>

(* adopt *)
EnterAnswered(t) ==
    /\ enter[t] # 0
    /\ enter' = [enter EXCEPT ![t] = 0]
    /\ Write(t, enter[t])
    /\ mem' = [mem EXCEPT ![t] = enter[t]]
    /\ ScheduleRefresh(t, enter[t])
    /\ UNCHANGED <<server, logout>>

(* Mutant of SignOut: the call is made whether or not there is a session. *)
SignOutUnchecked(t) ==
    /\ logout[t] = Idle
    /\ timer' = [timer EXCEPT ![t] = 0]
    /\ logout' = [logout EXCEPT ![t] = Sent(mem[t])]
    /\ UNCHANGED <<server, storage, mem, refresh, enter>>

SignOut(t) ==
    /\ mem[t] # 0
    /\ logout[t] = Idle
    /\ timer' = [timer EXCEPT ![t] = 0]
    /\ logout' = [logout EXCEPT ![t] = Sent(mem[t])]
    /\ UNCHANGED <<server, storage, mem, refresh, enter>>

LogoutAnswered(t) ==
    /\ logout[t].at = "answered"
    /\ logout' = [logout EXCEPT ![t] = Idle]
    /\ ClearSession(t)
    /\ UNCHANGED <<server, refresh, enter>>

(* Mutant of StorageEvent: a tab only follows the others out. *)
StorageEventOutOnly(t) ==
    /\ t \in behind
    /\ behind' \in {behind, behind \ {t}}
    /\ mem' = IF stored = 0 THEN [mem EXCEPT ![t] = 0] ELSE mem
    /\ timer' = IF stored = 0 THEN [timer EXCEPT ![t] = 0] ELSE timer
    /\ UNCHANGED <<server, stored, adrift, lapsed, calls>>

(* The handler reads localStorage again, whatever the event said. *)
StorageEvent(t) ==
    /\ t \in behind
    /\ behind' \in {behind, behind \ {t}}
    /\ \E n \in {stored, 0} :
         /\ Read(t, n)
         /\ mem' = [mem EXCEPT ![t] = n]
         /\ IF n = 0
            THEN timer' = [timer EXCEPT ![t] = 0] /\ UNCHANGED refresh
            ELSE ScheduleRefresh(t, n)
    /\ UNCHANGED <<server, stored, lapsed, logout, enter>>

-----------------------------------------------------------------------------

Init ==
    /\ issued = 0
    /\ active = {}
    /\ redeemed = {}
    /\ due = 0
    /\ stored = 0
    /\ mem = [t \in Tabs |-> 0]
    /\ timer = [t \in Tabs |-> 0]
    /\ behind = {}
    /\ refresh = [t \in Tabs |-> Idle]
    /\ logout = [t \in Tabs |-> Idle]
    /\ enter = [t \in Tabs |-> 0]
    /\ adrift = {}
    /\ lapsed = FALSE

(* What the user does, and what may go wrong: nothing obliges them. *)
Choice(t) ==
    \/ Hydrate(t)
    \/ SignIn(t)
    \/ SignOut(t)
    \/ Unauthorized(t)
    \/ Lose(t)

(* What the browser and the server do of themselves. *)
Duty(t) ==
    \/ RefreshRead(t)
    \/ RefreshSave(t)
    \/ LogoutSave(t)
    \/ RefreshAnswered(t)
    \/ LogoutAnswered(t)
    \/ EnterAnswered(t)
    \/ TimerFires(t)
    \/ StorageEvent(t)

Next ==
    \/ TimePasses
    \/ \E t \in Tabs : Choice(t) \/ Duty(t)

Spec == Init /\ [][Next]_vars

-----------------------------------------------------------------------------
(* Properties *)

(* Counters, sessions and calls stay of their types: no tab holds or sends a *)
(* session that was not issued.                                             *)
TypeOK ==
    /\ issued \in Session
    /\ active \subseteq 1 .. issued
    /\ redeemed \subseteq 1 .. issued
    /\ due \in 0 .. issued
    /\ stored \in 0 .. issued
    /\ mem \in [Tabs -> 0 .. issued]
    /\ timer \in [Tabs -> 0 .. issued]
    /\ behind \subseteq Tabs
    /\ refresh \in [Tabs -> Call]
    /\ logout \in [Tabs -> Call]
    /\ enter \in [Tabs -> 0 .. issued]
    /\ adrift \subseteq Tabs
    /\ lapsed \in BOOLEAN

(* "A storage listener keeps tabs in step": a tab that has handled its       *)
(* storage events, and whose last use of localStorage did not fail, shows   *)
(* the session stored there, whoever wrote it last.  One good write or read *)
(* brings a tab back that a failure left adrift.                            *)
TabsInStep == \A t \in Tabs : t \notin behind \cup adrift => mem[t] = stored

(* A tab's timer is for the session it shows, and a session that is not yet  *)
(* due has a timer, a refresh or a sign-out under way in every tab that     *)
(* shows it.                                                                *)
SessionIsWatched ==
    \A t \in Tabs :
        /\ timer[t] \in {0, mem[t]}
        /\ mem[t] > due => \/ timer[t] = mem[t]
                           \/ refresh[t] # Idle
                           \/ logout[t] # Idle

(* A refresh token is worth something once: what was exchanged stays         *)
(* revoked, though two requests that race may each get a successor for it.  *)
RedeemedIsDead == redeemed \cap active = {}

Quiet == \A t \in Tabs : refresh[t] = Idle /\ logout[t] = Idle

(* With no call in flight, the session in localStorage can be renewed: its   *)
(* refresh token is active, unless localStorage refused what should have    *)
(* taken its place, or a tab was closed before it heard what became of it.  *)
(* The first session stored after that is live again.                       *)
StoredIsLive ==
    Quiet /\ stored # 0 => stored \in active \/ lapsed

=============================================================================

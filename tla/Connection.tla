------------------------------ MODULE Connection ------------------------------
(***************************************************************************)
(* The SignalR connection of one tab and the rows the server pushes over    *)
(* it.  A hub is a HubConnection object; the module's variable connection   *)
(* names the current one, and startInFlight the one whose start is awaited. *)
(* A hub that was replaced goes on until its own promises settle, and these *)
(* write to the same two variables.                                         *)
(*                                                                         *)
(* What a hub delivers, and what is done after a reconnect, is left to the  *)
(* modules that extend this one: Notifications and Thread.                  *)
(***************************************************************************)
EXTENDS Naturals, FiniteSets

CONSTANTS
    MaxHubs,         \* bound on the hubs the tab builds
    MaxRows          \* bound on the rows the server stores

ASSUME ConnectionAssumption == MaxHubs \in Nat /\ MaxRows \in Nat

VARIABLES
    signedIn,        \* the provider has a userId
    hub,             \* the state of each hub
    connection,      \* the hub the module holds, 0 for null
    startInFlight,   \* the hub whose start() is shared, 0 for null
    clobbered,       \* history: a replaced hub's failure dropped its successor
    rows,            \* rows 1 .. rows are stored, in order of creation
    pushing,         \* those of them whose push the server has yet to make
    wire             \* <<hub, row>>: pushed and not yet delivered

socket == <<hub, connection, startInFlight, clobbered>>
pushes == <<rows, pushing, wire>>
connectionVars == <<signedIn, socket, pushes>>

Hubs == 1 .. MaxHubs
HubState == {"unused", "starting", "aborting", "open", "retrying", "closed"}
Live(h) == hub[h] \in {"starting", "open", "retrying"}
Unused == {h \in Hubs : hub[h] = "unused"}

ConnectionTypeOK ==
    /\ signedIn \in BOOLEAN
    /\ hub \in [Hubs -> HubState]
    /\ connection \in {0} \cup Hubs
    /\ startInFlight \in {0} \cup Hubs
    /\ clobbered \in BOOLEAN
    /\ rows \in 0 .. MaxRows
    /\ pushing \subseteq 1 .. rows
    /\ wire \subseteq Hubs \X (1 .. rows)

ConnectionInit ==
    /\ signedIn = FALSE
    /\ hub = [h \in Hubs |-> "unused"]
    /\ connection = 0
    /\ startInFlight = 0
    /\ clobbered = FALSE
    /\ rows = 0
    /\ pushing = {}
    /\ wire = {}

(* start: a hub that is connected or being started is left alone.           *)
Start ==
    IF startInFlight # 0 \/ (connection # 0 /\ hub[connection] = "open")
    THEN UNCHANGED socket
    ELSE LET h == CHOOSE u \in Unused : \A v \in Unused : u <= v IN
         /\ Unused # {}
         /\ hub' = [hub EXCEPT ![h] = "starting"]
         /\ connection' = h
         /\ startInFlight' = h
         /\ UNCHANGED clobbered

(* Mutant of Stop: the hub is forgotten and not stopped. *)
StopForgets ==
    /\ hub' = hub
    /\ connection' = 0
    /\ startInFlight' = 0
    /\ wire' = {m \in wire : m[1] # connection}
    /\ UNCHANGED clobbered

(* stop: the variables are cleared at once, the hub closes.  One that was    *)
(* still starting has yet to reject its promise.                            *)
Stop ==
    /\ hub' = [h \in Hubs |-> IF h # connection THEN hub[h]
                              ELSE IF hub[h] = "starting" THEN "aborting" ELSE "closed"]
    /\ connection' = 0
    /\ startInFlight' = 0
    /\ wire' = {m \in wire : m[1] # connection}
    /\ UNCHANGED clobbered

(* The promise of start(): `finally` runs for whichever hub settles.        *)
Started(h) ==
    /\ hub[h] = "starting"
    /\ hub' = [hub EXCEPT ![h] = "open"]
    /\ startInFlight' = 0
    /\ UNCHANGED <<signedIn, connection, clobbered, pushes>>

StartFailed(h) ==
    /\ hub[h] \in {"starting", "aborting"}
    /\ hub' = [hub EXCEPT ![h] = "closed"]
    /\ connection' = 0
    /\ startInFlight' = 0
    /\ clobbered' = (clobbered \/ connection \notin {0, h})
    /\ UNCHANGED <<signedIn, pushes>>

(* The socket drops, and what was on its way is not replayed. *)
Drop(h) ==
    /\ hub[h] = "open"
    /\ hub' = [hub EXCEPT ![h] = "retrying"]
    /\ wire' = {m \in wire : m[1] # h}
    /\ UNCHANGED <<signedIn, connection, startInFlight, clobbered, rows, pushing>>

Reconnect(h) ==
    /\ hub[h] = "retrying"
    /\ signedIn
    /\ hub' = [hub EXCEPT ![h] = "open"]
    /\ UNCHANGED <<signedIn, connection, startInFlight, clobbered, pushes>>

(* The delays are used up, or there is no token to retry with. *)
GiveUp(h) ==
    /\ hub[h] = "retrying"
    /\ hub' = [hub EXCEPT ![h] = "closed"]
    /\ UNCHANGED <<signedIn, connection, startInFlight, clobbered, pushes>>

(* "Persist before pushing": a row is there for every query before its push  *)
(* is made.                                                                 *)
Store ==
    /\ rows < MaxRows
    /\ rows' = rows + 1
    /\ pushing' = pushing \cup {rows + 1}
    /\ UNCHANGED wire

(* SendAsync, to every socket the user has open by then.                    *)
PushSent(r) ==
    /\ r \in pushing
    /\ pushing' = pushing \ {r}
    /\ wire' = wire \cup {<<h, r>> : h \in {k \in Hubs : hub[k] = "open"}}
    /\ UNCHANGED rows

(* SendAsync throws, or the request was cancelled: it is logged, and the row *)
(* stays.                                                                   *)
PushFails(r) ==
    /\ r \in pushing
    /\ pushing' = pushing \ {r}
    /\ UNCHANGED <<rows, wire>>

(* In any order: each row is pushed by a request of its own.                *)
Arrives(h, r) ==
    /\ <<h, r>> \in wire
    /\ wire' = wire \ {<<h, r>>}
    /\ UNCHANGED <<rows, pushing>>

(* The rows that may still come over a socket. *)
OnTheWay == pushing \cup {m[2] : m \in wire}

(* The moves of a hub that the modules below do not react to. *)
HubMoves ==
    \E h \in Hubs : \/ Started(h)
                    \/ StartFailed(h)
                    \/ GiveUp(h)

Online == connection # 0 /\ hub[connection] = "open"

(* "The connection must be torn down when they leave, or the next user on    *)
(* the machine inherits the previous one's socket": a hub that can deliver   *)
(* is the one stop() would close, and after signing out there is none,      *)
(* unless the late failure of a replaced hub made the module forget its     *)
(* successor.                                                               *)
SocketIsOwned ==
    clobbered \/ \A h \in Hubs : Live(h) => h = connection /\ signedIn

=============================================================================

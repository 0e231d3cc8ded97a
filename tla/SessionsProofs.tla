---------------------------- MODULE SessionsProofs ----------------------------
(***************************************************************************)
(* What Sessions promises, for any number of tabs and sessions.             *)
(***************************************************************************)
EXTENDS Sessions, TLAPS

(* A call is one of the records the model makes, with the fields of its stage. *)
LEMMA CallFields ==
    \A c \in Call :
        /\ c.token \in Session /\ c.result \in Session
        /\ c.at = "idle" => c = Idle
        /\ c.at = "sent" \/ c.at = "read" => c.token # 0 /\ c.result = 0
        /\ c.at = "answered" => c.token = 0 /\ c # Idle
        /\ c.at # "idle" => c # Idle
        /\ c.at = "idle" \/ c.at = "sent" \/ c.at = "read" \/ c.at = "answered"
  BY SessionsAssumption DEF Call, Session, Idle

LEMMA CallsMade ==
    /\ Idle \in Call /\ Idle.at = "idle" /\ Idle.token = 0 /\ Idle.result = 0
    /\ \A n \in Session \ {0} :
           /\ Sent(n) \in Call /\ Sent(n) # Idle
           /\ Sent(n).at = "sent" /\ Sent(n).token = n /\ Sent(n).result = 0
    /\ \A m \in Session :
           /\ Answered(m) \in Call /\ Answered(m) # Idle
           /\ Answered(m).at = "answered" /\ Answered(m).token = 0 /\ Answered(m).result = m
    /\ \A c \in Call : c.at = "sent" =>
           /\ [c EXCEPT !.at = "read"] \in Call /\ [c EXCEPT !.at = "read"] # Idle
           /\ [c EXCEPT !.at = "read"].token = c.token
           /\ [c EXCEPT !.at = "read"].result = c.result
           /\ [c EXCEPT !.at = "read"].at = "read"
  BY SessionsAssumption DEF Call, Session, Idle, Sent, Answered

-----------------------------------------------------------------------------
(* Types *)

(* Calls carry sessions that were issued. *)
CallsIssued ==
    \A t \in Tabs : /\ refresh[t].token <= issued
                    /\ refresh[t].result <= issued
                    /\ logout[t].token <= issued

TypeInv == TypeOK /\ CallsIssued

LEMMA TypeInit == Init => TypeInv
<1> SUFFICES ASSUME Init PROVE TypeInv
  OBVIOUS
<1>1. TypeOK
  <2>1. refresh \in [Tabs -> Call] /\ logout \in [Tabs -> Call]
    BY CallsMade DEF Init
  <2>2. issued \in Session
    BY SessionsAssumption DEF Init, Session
  <2>3. /\ active \subseteq 1 .. issued /\ redeemed \subseteq 1 .. issued
        /\ due \in 0 .. issued /\ stored \in 0 .. issued /\ behind \subseteq Tabs
    BY DEF Init
  <2>4. /\ mem \in [Tabs -> 0 .. issued] /\ timer \in [Tabs -> 0 .. issued]
        /\ enter \in [Tabs -> 0 .. issued]
    BY DEF Init
  <2>5. adrift \subseteq Tabs /\ lapsed \in BOOLEAN
    BY DEF Init
  <2> QED
    BY <2>1, <2>2, <2>3, <2>4, <2>5 DEF TypeOK
<1>2. CallsIssued
  <2> SUFFICES ASSUME NEW t \in Tabs
               PROVE  /\ refresh[t].token <= issued
                      /\ refresh[t].result <= issued
                      /\ logout[t].token <= issued
    BY DEF CallsIssued
  <2>1. refresh[t] = Idle /\ logout[t] = Idle /\ issued = 0
    BY DEF Init
  <2> QED
    BY <2>1, CallsMade
<1> QED
  BY <1>1, <1>2 DEF TypeInv

(* A write leaves what was stored, or puts there what it was given. *)
LEMMA Written ==
    ASSUME NEW t \in Tabs, NEW n, Write(t, n), behind \subseteq Tabs, adrift \subseteq Tabs
    PROVE  /\ stored' = n \/ (stored' = stored /\ (stored # 0 => lapsed'))
           /\ behind' \subseteq Tabs /\ adrift' \subseteq Tabs /\ lapsed' \in BOOLEAN
<1>1. behind' \subseteq Tabs /\ adrift' \subseteq Tabs
  BY DEF Write
<1>2. stored' = n \/ (stored' = stored /\ (stored # 0 => lapsed'))
  <2>1. stored' = n \/ stored' = stored
    BY DEF Write
  <2>2. stored' = n \/ lapsed' = (stored # 0)
    BY Zenon DEF Write
  <2>3. stored' = n \/ (stored # 0 => lapsed')
    BY <2>2, Zenon
  <2> QED
    BY <2>1, <2>3, Zenon
<1>3. lapsed' \in BOOLEAN
  BY Zenon DEF Write
<1> QED
  BY <1>1, <1>2, <1>3

LEMMA TypeStep == TypeInv /\ [Next]_vars => TypeInv'
<1> SUFFICES ASSUME TypeInv, [Next]_vars PROVE TypeInv'
  OBVIOUS
<1> USE SessionsAssumption, CallFields, CallsMade DEF TypeInv, TypeOK, CallsIssued, Session, storage
<1>1. CASE TimePasses
  BY <1>1 DEF TimePasses, clients, calls
<1>2. CASE UNCHANGED vars
  BY <1>2 DEF vars, server, clients, storage, calls
<1>3. ASSUME NEW t \in Tabs, Choice(t) \/ Duty(t)
      PROVE  TypeInv'
  <2>1. CASE Hydrate(t)
    BY <2>1 DEF Hydrate, Read, server
  <2>2. CASE SignIn(t)
    BY <2>2 DEF SignIn, Issue, clients
  <2>3. CASE SignOut(t)
    BY <2>3 DEF SignOut, server
  <2>4. CASE Unauthorized(t)
    BY <2>4 DEF Unauthorized, RunRefresh, server, clients, storage
  <2>5. CASE Lose(t)
    <3>1. CASE refresh' = [refresh EXCEPT ![t] = Answered(0)] /\ UNCHANGED <<logout, enter>>
      BY <2>5, <3>1 DEF Lose, server, clients
    <3>2. CASE logout' = [logout EXCEPT ![t] = Answered(0)] /\ UNCHANGED <<refresh, enter>>
      BY <2>5, <3>2 DEF Lose, server, clients
    <3>3. CASE enter' = [enter EXCEPT ![t] = 0] /\ UNCHANGED <<refresh, logout>>
      BY <2>5, <3>3 DEF Lose, server, clients
    <3> QED
      BY <2>5, <3>1, <3>2, <3>3 DEF Lose
  <2>6. CASE RefreshRead(t)
    BY <2>6 DEF RefreshRead, server, clients
  <2>7. CASE RefreshSave(t)
    BY <2>7 DEF RefreshSave, Issue, clients
  <2>8. CASE LogoutSave(t)
    BY <2>8 DEF LogoutSave, clients
  <2>9. CASE RefreshAnswered(t)
    <3>1. PICK m \in 0 .. issued : Write(t, m) /\ mem' = [mem EXCEPT ![t] = m]
      BY <2>9 DEF RefreshAnswered, ClearSession
    <3>2. /\ stored' \in 0 .. issued /\ behind' \subseteq Tabs
          /\ adrift' \subseteq Tabs /\ lapsed' \in BOOLEAN
      <4>1. behind \subseteq Tabs /\ adrift \subseteq Tabs /\ stored \in 0 .. issued
        OBVIOUS
      <4> QED
        BY ONLY <3>1, <4>1, Written
    <3>3. timer' \in [Tabs -> 0 .. issued]
      <4>1. due \in Nat /\ refresh[t].result \in 0 .. issued
        OBVIOUS
      <4>2. timer' = [timer EXCEPT ![t] = 0] \/ timer' = [timer EXCEPT ![t] = refresh[t].result]
        BY <2>9 DEF RefreshAnswered, ClearSession
      <4> QED
        BY <4>1, <4>2
    <3>4. UNCHANGED <<issued, active, redeemed, due, logout, enter>>
      BY <2>9 DEF RefreshAnswered, server
    <3>5. refresh' \in [Tabs -> Call] /\ CallsIssued'
      BY <2>9, <3>4 DEF RefreshAnswered
    <3>6. mem' \in [Tabs -> 0 .. issued]
      BY <3>1
    <3>7. TypeOK'
      BY <3>2, <3>3, <3>4, <3>5, <3>6
    <3> QED
      BY <3>5, <3>7
  <2>10. CASE LogoutAnswered(t)
    <3>1. /\ stored' \in 0 .. issued /\ behind' \subseteq Tabs
          /\ adrift' \subseteq Tabs /\ lapsed' \in BOOLEAN
      BY <2>10, Written DEF LogoutAnswered, ClearSession
    <3> QED
      BY <2>10, <3>1 DEF LogoutAnswered, ClearSession, server
  <2>11. CASE EnterAnswered(t)
    <3>1. enter[t] \in 1 .. issued /\ Sent(enter[t]) \in Call
      BY <2>11 DEF EnterAnswered
    <3>2. timer' \in [Tabs -> 0 .. issued]
      BY <2>11, <3>1 DEF EnterAnswered, ScheduleRefresh
    <3>3. refresh' = refresh \/ refresh' = [refresh EXCEPT ![t] = Sent(enter[t])]
      BY <2>11, <3>1 DEF EnterAnswered, ScheduleRefresh, RunRefresh
    <3>4. refresh' \in [Tabs -> Call]
      BY <3>1, <3>3
    <3>5. CallsIssued'
      <4>1. issued' = issued /\ logout' = logout
        BY <2>11 DEF EnterAnswered, server
      <4>2. Sent(enter[t]).token <= issued /\ Sent(enter[t]).result <= issued
        BY <3>1
      <4> QED
        BY <3>3, <4>1, <4>2, SMTT(20)
    <3>6. TypeOK'
      <4>1. UNCHANGED <<issued, active, redeemed, due, logout>>
        BY <2>11 DEF EnterAnswered, server
      <4>2. /\ stored' \in 0 .. issued /\ behind' \subseteq Tabs
            /\ adrift' \subseteq Tabs /\ lapsed' \in BOOLEAN
        BY <2>11, <3>1, Written DEF EnterAnswered
      <4>3. mem' \in [Tabs -> 0 .. issued] /\ enter' \in [Tabs -> 0 .. issued]
        BY <2>11, <3>1 DEF EnterAnswered
      <4> QED
        BY <4>1, <4>2, <4>3, <3>2, <3>4
    <3> QED
      BY <3>5, <3>6
  <2>12. CASE TimerFires(t)
    BY <2>12 DEF TimerFires, RunRefresh, server, storage
  <2>13. CASE StorageEvent(t)
    <3>1. PICK n \in {stored, 0} :
            /\ Read(t, n)
            /\ mem' = [mem EXCEPT ![t] = n]
            /\ IF n = 0
               THEN timer' = [timer EXCEPT ![t] = 0] /\ UNCHANGED refresh
               ELSE ScheduleRefresh(t, n)
      BY <2>13 DEF StorageEvent
    <3>2. timer' \in [Tabs -> 0 .. issued] /\ mem' \in [Tabs -> 0 .. issued]
      <4>1. timer' = [timer EXCEPT ![t] = 0] \/ timer' = [timer EXCEPT ![t] = n]
        BY <3>1 DEF ScheduleRefresh
      <4> QED
        BY <3>1, <4>1
    <3>3. refresh' = refresh \/ (n # 0 /\ refresh' = [refresh EXCEPT ![t] = Sent(n)])
      <4>1. CASE n = 0
        BY ONLY <3>1, <4>1
      <4>2. CASE n # 0 /\ RunRefresh(t, n)
        BY ONLY <4>2 DEF RunRefresh
      <4>3. CASE n # 0 /\ UNCHANGED refresh
        BY <4>3
      <4> QED
        BY ONLY <3>1, <4>1, <4>2, <4>3 DEF ScheduleRefresh
    <3>4. adrift' \subseteq Tabs
      BY <3>1 DEF Read
    <3>5. UNCHANGED <<issued, active, redeemed, due, stored, lapsed, logout, enter>>
      BY <2>13 DEF StorageEvent, server
    <3>6. behind' \subseteq Tabs
      BY <2>13 DEF StorageEvent
    <3>7. refresh' \in [Tabs -> Call] /\ CallsIssued'
      <4>1. CASE refresh' = refresh
        BY <3>5, <4>1
      <4>2. CASE n # 0 /\ refresh' = [refresh EXCEPT ![t] = Sent(n)]
        <5>1. n \in Session \ {0} /\ n <= issued /\ Sent(n) \in Call
          BY <4>2
        <5>2. Sent(n).token <= issued /\ Sent(n).result <= issued
          BY <5>1
        <5> QED
          BY <3>5, <4>2, <5>1, <5>2
      <4> QED
        BY <3>3, <4>1, <4>2
    <3>8. TypeOK'
      BY <3>2, <3>4, <3>5, <3>6, <3>7
    <3> QED
      BY <3>7, <3>8
  <2> QED
    BY <1>3, <2>1, <2>2, <2>3, <2>4, <2>5, <2>6, <2>7, <2>8, <2>9, <2>10, <2>11, <2>12, <2>13
       DEF Choice, Duty
<1> QED
  BY <1>1, <1>2, <1>3 DEF Next

(* No tab holds, shows or sends a session that was not issued. *)
THEOREM SessionsTypeCorrect == Spec => []TypeOK
<1>1. TypeInv => TypeOK
  BY DEF TypeInv
<1> QED
  BY <1>1, TypeInit, TypeStep, PTL DEF Spec

-----------------------------------------------------------------------------
(* Redeemed tokens *)

LEMMA RedeemedStep == TypeInv /\ RedeemedIsDead /\ [Next]_vars => RedeemedIsDead'
<1> SUFFICES ASSUME TypeInv, RedeemedIsDead, [Next]_vars PROVE RedeemedIsDead'
  OBVIOUS
<1>1. CASE UNCHANGED <<active, redeemed>>
  BY <1>1 DEF RedeemedIsDead
<1>2. ASSUME NEW t \in Tabs, SignIn(t)
      PROVE  RedeemedIsDead'
  BY <1>2 DEF SignIn, Issue, RedeemedIsDead, TypeInv, TypeOK, Session
<1>3. ASSUME NEW t \in Tabs, RefreshSave(t)
      PROVE  RedeemedIsDead'
  <2>1. refresh[t].token <= issued /\ issued \in Nat
    BY SessionsAssumption DEF TypeInv, TypeOK, CallsIssued, Session
  <2>2. /\ active' = (active \ {refresh[t].token}) \cup {issued + 1}
        /\ redeemed' = redeemed \cup {refresh[t].token}
    BY <1>3 DEF RefreshSave, Issue
  <2>3. issued + 1 \notin redeemed /\ issued + 1 # refresh[t].token
    BY <2>1, CallFields DEF TypeInv, TypeOK, Session
  <2> QED
    BY <2>2, <2>3 DEF RedeemedIsDead
<1>4. ASSUME NEW t \in Tabs, LogoutSave(t)
      PROVE  RedeemedIsDead'
  BY <1>4 DEF LogoutSave, RedeemedIsDead
<1> QED
  BY <1>1, <1>2, <1>3, <1>4
     DEF Next, Choice, Duty, vars, server, clients, storage, calls, TimePasses, Hydrate, SignOut,
         Unauthorized, Lose, RefreshRead, RefreshAnswered, LogoutAnswered, EnterAnswered,
         TimerFires, StorageEvent

(* A refresh token that was exchanged is never active again, however the     *)
(* requests that present it race.                                           *)
THEOREM RedeemedStaysDead == Spec => []RedeemedIsDead
<1>1. Init => RedeemedIsDead
  BY DEF Init, RedeemedIsDead
<1> QED
  BY <1>1, TypeInit, TypeStep, RedeemedStep, PTL DEF Spec

-----------------------------------------------------------------------------
(* Tabs in step *)

(* Whoever writes localStorage has told every tab that does not show it, and *)
(* whoever could not is adrift.                                             *)
LEMMA WriteTells ==
    ASSUME TypeInv, TabsInStep, NEW t \in Tabs, NEW n, Write(t, n),
           mem' = [mem EXCEPT ![t] = n]
    PROVE  TabsInStep'
  BY DEF TabsInStep, Write, TypeInv, TypeOK

LEMMA InStepStep == TypeInv /\ TabsInStep /\ [Next]_vars => TabsInStep'
<1> SUFFICES ASSUME TypeInv, TabsInStep, [Next]_vars PROVE TabsInStep'
  OBVIOUS
<1>1. CASE UNCHANGED <<stored, mem, behind, adrift>>
  BY <1>1 DEF TabsInStep
<1>2. ASSUME NEW t \in Tabs, Hydrate(t)
      PROVE  TabsInStep'
  BY <1>2 DEF Hydrate, Read, TabsInStep, TypeInv, TypeOK
<1>3. ASSUME NEW t \in Tabs, RefreshAnswered(t)
      PROVE  TabsInStep'
  BY <1>3, WriteTells DEF RefreshAnswered, ClearSession
<1>4. ASSUME NEW t \in Tabs, LogoutAnswered(t)
      PROVE  TabsInStep'
  BY <1>4, WriteTells DEF LogoutAnswered, ClearSession
<1>5. ASSUME NEW t \in Tabs, EnterAnswered(t)
      PROVE  TabsInStep'
  BY <1>5, WriteTells DEF EnterAnswered
<1>6. ASSUME NEW t \in Tabs, StorageEvent(t)
      PROVE  TabsInStep'
  BY <1>6 DEF StorageEvent, Read, TabsInStep, TypeInv, TypeOK
<1> QED
  BY <1>1, <1>2, <1>3, <1>4, <1>5, <1>6
     DEF Next, Choice, Duty, vars, server, clients, storage, calls, TimePasses, SignIn, SignOut,
         Unauthorized, Lose, RefreshRead, RefreshSave, LogoutSave, TimerFires

(* With any number of tabs writing it, and whatever localStorage refuses, a  *)
(* tab that has handled its storage events and whose last write or read did *)
(* not fail shows the session stored.                                       *)
THEOREM TabsKeepStep == Spec => []TabsInStep
<1>1. Init => TabsInStep
  BY DEF Init, TabsInStep
<1> QED
  BY <1>1, TypeInit, TypeStep, InStepStep, PTL DEF Spec

-----------------------------------------------------------------------------
(* Renewal *)

WatchedIn(t) ==
    /\ timer[t] = 0 \/ timer[t] = mem[t]
    /\ mem[t] > due => \/ timer[t] = mem[t]
                       \/ refresh[t] # Idle
                       \/ logout[t] # Idle

LEMMA WatchedStep == TypeInv /\ SessionIsWatched /\ [Next]_vars => SessionIsWatched'
<1> SUFFICES ASSUME TypeInv, \A t \in Tabs : WatchedIn(t), [Next]_vars, NEW u \in Tabs
             PROVE  WatchedIn(u)'
  BY DEF SessionIsWatched, WatchedIn
<1>0. /\ mem \in [Tabs -> Nat] /\ timer \in [Tabs -> Nat] /\ due \in Nat /\ enter \in [Tabs -> Nat]
      /\ refresh \in [Tabs -> Call] /\ logout \in [Tabs -> Call] /\ stored \in Nat
  BY SessionsAssumption DEF TypeInv, TypeOK, Session
<1> USE <1>0 DEF WatchedIn
<1>1. CASE UNCHANGED <<mem, timer, due, refresh, logout>>
  BY <1>1
<1>2. CASE TimePasses
  BY <1>2 DEF TimePasses, clients, calls
<1>3. ASSUME NEW t \in Tabs, Hydrate(t)
      PROVE  WatchedIn(u)'
  BY <1>3, CallsMade, SessionsAssumption
       DEF Hydrate, server, TypeInv, TypeOK, Session
<1>4. ASSUME NEW t \in Tabs, SignOut(t)
      PROVE  WatchedIn(u)'
  <2>1. Sent(mem[t]) # Idle
    BY DEF Sent, Idle
  <2> QED
    BY <1>4, <2>1 DEF SignOut, server
<1>5. ASSUME NEW t \in Tabs, Unauthorized(t)
      PROVE  WatchedIn(u)'
  <2>1. refresh[u] # Idle => refresh'[u] # Idle
    BY <1>5 DEF Unauthorized, RunRefresh
  <2> QED
    BY <1>5, <2>1 DEF Unauthorized, server, clients
<1>6. ASSUME NEW t \in Tabs, Lose(t)
      PROVE  WatchedIn(u)'
  <2>1. /\ refresh[u] # Idle => refresh'[u] # Idle
        /\ logout[u] # Idle => logout'[u] # Idle
    BY <1>6, CallsMade, SessionsAssumption DEF Lose, Session
  <2> QED
    BY <1>6, <2>1 DEF Lose, server, clients
<1>7. ASSUME NEW t \in Tabs, RefreshRead(t) \/ RefreshSave(t) \/ LogoutSave(t)
      PROVE  WatchedIn(u)'
  <2>1. refresh[u] # Idle => refresh'[u] # Idle
    <3>1. CASE RefreshRead(t)
      BY <3>1, CallFields, CallsMade, SessionsAssumption DEF RefreshRead, Session
    <3>2. CASE RefreshSave(t)
      BY <3>2 DEF RefreshSave, Answered, Idle
    <3> QED
      BY <1>7, <3>1, <3>2 DEF LogoutSave
  <2>2. logout[u] # Idle => logout'[u] # Idle
    BY <1>7 DEF RefreshRead, RefreshSave, LogoutSave, Answered, Idle
  <2> QED
    BY <1>7, <2>1, <2>2 DEF RefreshRead, RefreshSave, LogoutSave, clients, server
<1>8. ASSUME NEW t \in Tabs, RefreshAnswered(t)
      PROVE  WatchedIn(u)'
  BY <1>8, CallFields, SessionsAssumption DEF RefreshAnswered, ClearSession, server, Session
<1>9. ASSUME NEW t \in Tabs, LogoutAnswered(t)
      PROVE  WatchedIn(u)'
  BY <1>9 DEF LogoutAnswered, ClearSession, server
<1>10. ASSUME NEW t \in Tabs, EnterAnswered(t)
       PROVE  WatchedIn(u)'
  <2>1. u # t => refresh'[u] = refresh[u]
    BY <1>10 DEF EnterAnswered, ScheduleRefresh, RunRefresh
  <2>2. timer' = [timer EXCEPT ![t] = IF enter[t] > due THEN enter[t] ELSE 0]
    BY <1>10 DEF EnterAnswered, ScheduleRefresh
  <2> QED
    BY <1>10, <2>1, <2>2 DEF EnterAnswered, server
<1>11. ASSUME NEW t \in Tabs, TimerFires(t)
       PROVE  WatchedIn(u)'
  <2>1. u # t => refresh'[u] = refresh[u]
    BY <1>11 DEF TimerFires, RunRefresh
  <2> QED
    BY <1>11, <2>1 DEF TimerFires, server
<1>12. ASSUME NEW t \in Tabs, StorageEvent(t)
       PROVE  WatchedIn(u)'
  <2>1. PICK n \in {stored, 0} :
          /\ mem' = [mem EXCEPT ![t] = n]
          /\ IF n = 0
             THEN timer' = [timer EXCEPT ![t] = 0] /\ UNCHANGED refresh
             ELSE ScheduleRefresh(t, n)
    BY <1>12 DEF StorageEvent
  <2>2. u # t => refresh'[u] = refresh[u]
    BY <2>1 DEF ScheduleRefresh, RunRefresh
  <2>3. timer' = [timer EXCEPT ![t] = IF n > due THEN n ELSE 0]
    BY <2>1 DEF ScheduleRefresh
  <2> QED
    BY <1>12, <2>1, <2>2, <2>3 DEF StorageEvent, server
<1> QED
  BY <1>1, <1>2, <1>3, <1>4, <1>5, <1>6, <1>7, <1>8, <1>9, <1>10, <1>11, <1>12
     DEF Next, Choice, Duty, vars, server, clients, storage, calls, SignIn

(* Every session shown is going to be renewed, or is being given up.         *)
THEOREM SessionsAreWatched == Spec => []SessionIsWatched
<1>1. Init => SessionIsWatched
  BY DEF Init, SessionIsWatched
<1> QED
  BY <1>1, TypeInit, TypeStep, WatchedStep, PTL DEF Spec

-----------------------------------------------------------------------------
(* A stored session that can be renewed *)

(* Sessions a tab can still act on, or has presented. *)
Known(n) ==
    \/ n = stored
    \/ \E t \in Tabs : n = mem[t] \/ n = refresh[t].token \/ n = logout[t].token

(* An answer under way brings a session that is active, and that nothing but *)
(* this answer can make known.                                              *)
AnswersAreFresh ==
    /\ \A t \in Tabs : refresh[t].result # 0 =>
           refresh[t].result \in active /\ ~Known(refresh[t].result)
    /\ \A t \in Tabs : enter[t] # 0 => enter[t] \in active /\ ~Known(enter[t])
    /\ \A t, u \in Tabs : refresh[t].result # 0 =>
           /\ refresh[t].result = refresh[u].result => t = u
           /\ refresh[t].result # enter[u]
    /\ \A t, u \in Tabs : enter[t] # 0 /\ enter[t] = enter[u] => t = u

(* A step that issues nothing, kills only what is known, and makes known at  *)
(* most m, whose answer it takes.                                           *)
LEMMA FreshKept ==
    ASSUME AnswersAreFresh, NEW m,
           \A n : n # 0 /\ Known(n)' => Known(n) \/ n = m,
           \A n : n \in active /\ ~Known(n) => n \in active',
           \A t \in Tabs : refresh'[t].result # 0 =>
               refresh'[t].result = refresh[t].result /\ refresh'[t].result # m,
           \A t \in Tabs : enter'[t] # 0 => enter'[t] = enter[t] /\ enter'[t] # m
    PROVE  AnswersAreFresh'
<1>1. (\A t \in Tabs : refresh[t].result # 0 =>
           refresh[t].result \in active /\ ~Known(refresh[t].result))'
  <2>1. \A t \in Tabs : \A n : n = refresh'[t].result /\ n # 0 => n \in active' /\ ~Known(n)'
    BY DEF AnswersAreFresh
  <2> QED
    BY <2>1 DEF Known
<1>2. (\A t \in Tabs : enter[t] # 0 => enter[t] \in active /\ ~Known(enter[t]))'
  <2>1. \A t \in Tabs : \A n : n = enter'[t] /\ n # 0 => n \in active' /\ ~Known(n)'
    BY DEF AnswersAreFresh
  <2> QED
    BY <2>1 DEF Known
<1>3. \A t, u \in Tabs : refresh'[t].result # 0 =>
          /\ refresh'[t].result = refresh'[u].result => t = u
          /\ refresh'[t].result # enter'[u]
  BY DEF AnswersAreFresh
<1>4. \A t, u \in Tabs : enter'[t] # 0 /\ enter'[t] = enter'[u] => t = u
  BY DEF AnswersAreFresh
<1> QED
  BY <1>1, <1>2, <1>3, <1>4 DEF AnswersAreFresh

(* A step that issues a session to one answer, and kills what that presented. *)
LEMMA FreshIssued ==
    ASSUME TypeInv, AnswersAreFresh, NEW t \in Tabs, SignIn(t) \/ RefreshSave(t)
    PROVE  AnswersAreFresh'
<1> DEFINE n == issued + 1
<1>1. \A u \in Tabs : /\ refresh[u].result # n /\ enter[u] # n
                      /\ refresh[u].token # n /\ logout[u].token # n /\ mem[u] # n
  BY SessionsAssumption, CallFields DEF TypeInv, TypeOK, CallsIssued, Session
<1>2. n # 0 /\ stored # n /\ n \notin active
  BY SessionsAssumption DEF TypeInv, TypeOK, Session
<1>3. ~Known(n)
  BY <1>1, <1>2 DEF Known
<1>4. refresh \in [Tabs -> Call] /\ enter \in [Tabs -> 0 .. issued]
  BY DEF TypeInv, TypeOK
<1> HIDE DEF n
<1>5. CASE SignIn(t)
  <2>1. /\ active' = active \cup {n}
        /\ enter' = [enter EXCEPT ![t] = n]
        /\ UNCHANGED <<stored, mem, refresh, logout>>
    BY <1>5 DEF SignIn, Issue, clients, storage, n
  <2>2. \A m : Known(m)' <=> Known(m)
    BY <2>1 DEF Known
  <2> QED
    BY <1>1, <1>2, <1>3, <1>4, <2>1, <2>2 DEF AnswersAreFresh
<1>6. CASE RefreshSave(t)
  <2>1. /\ active' = (active \ {refresh[t].token}) \cup {n}
        /\ refresh' = [refresh EXCEPT ![t] = Answered(n)]
        /\ refresh[t].result = 0
        /\ UNCHANGED <<stored, mem, enter, logout>>
    BY <1>4, <1>6, CallFields DEF RefreshSave, Issue, clients, storage, n
  <2>2. Answered(n).token = 0 /\ Answered(n).result = n
    BY DEF Answered
  <2>3. \A m : m # 0 /\ Known(m)' => Known(m)
    BY <1>4, <2>1, <2>2 DEF Known
  <2>4. Known(refresh[t].token)
    BY DEF Known
  <2>5. \A u \in Tabs : refresh'[u].result = IF u = t THEN n ELSE refresh[u].result
    BY <1>4, <2>1, <2>2
  <2>6. (\A u \in Tabs : refresh[u].result # 0 =>
             refresh[u].result \in active /\ ~Known(refresh[u].result))'
    <3>1. \A u \in Tabs : \A m : m = refresh'[u].result /\ m # 0 => m \in active' /\ ~Known(m)'
      BY <1>2, <1>3, <2>1, <2>3, <2>4, <2>5 DEF AnswersAreFresh
    <3> QED
      BY <3>1 DEF Known
  <2>7. (\A u \in Tabs : enter[u] # 0 => enter[u] \in active /\ ~Known(enter[u]))'
    <3>1. \A u \in Tabs : \A m : m = enter'[u] /\ m # 0 => m \in active' /\ ~Known(m)'
      BY <2>1, <2>3, <2>4 DEF AnswersAreFresh
    <3> QED
      BY <3>1 DEF Known
  <2> QED
    BY <1>1, <1>2, <2>1, <2>5, <2>6, <2>7 DEF AnswersAreFresh
<1> QED
  BY <1>5, <1>6

LEMMA FreshStep == TypeInv /\ AnswersAreFresh /\ [Next]_vars => AnswersAreFresh'
<1> SUFFICES ASSUME TypeInv, AnswersAreFresh, [Next]_vars PROVE AnswersAreFresh'
  OBVIOUS
<1>0. /\ mem \in [Tabs -> Nat] /\ enter \in [Tabs -> Nat] /\ stored \in Nat
      /\ refresh \in [Tabs -> Call] /\ logout \in [Tabs -> Call]
  BY SessionsAssumption DEF TypeInv, TypeOK, Session
<1> USE <1>0
<1>1. CASE UNCHANGED <<active, stored, mem, refresh, logout, enter>>
  BY <1>1 DEF AnswersAreFresh, Known
<1>2. ASSUME NEW t \in Tabs, Hydrate(t)
      PROVE  AnswersAreFresh'
  <2>1. \A n : n # 0 /\ Known(n)' => Known(n)
    BY <1>2, CallsMade DEF Hydrate, Known, Sent
  <2>2. \A u \in Tabs : refresh'[u].result # 0 => refresh'[u].result = refresh[u].result
    BY <1>2, CallsMade DEF Hydrate, Sent
  <2>3. \A u \in Tabs : enter'[u] # 0 => enter'[u] = enter[u]
    BY <1>2 DEF Hydrate
  <2> QED
    BY <1>2, <2>1, <2>2, <2>3, FreshKept DEF Hydrate, server
<1>3. ASSUME NEW t \in Tabs, SignOut(t)
      PROVE  AnswersAreFresh'
  <2>1. \A n : n # 0 /\ Known(n)' => Known(n)
    BY <1>3 DEF SignOut, Known, Sent, storage
  <2> QED
    BY <1>3, <2>1, FreshKept DEF SignOut, server
<1>4. ASSUME NEW t \in Tabs, NEW m \in Nat, refresh' = refresh \/ refresh' = [refresh EXCEPT ![t] = Sent(m)]
      PROVE  /\ \A u \in Tabs : refresh'[u].result # 0 => refresh'[u].result = refresh[u].result
             /\ \A u \in Tabs : refresh'[u].token \in {m, refresh[u].token}
  BY <1>4 DEF Sent
<1>5. ASSUME NEW t \in Tabs, Unauthorized(t)
      PROVE  AnswersAreFresh'
  <2>1. \A u \in Tabs : refresh'[u].result # 0 => refresh'[u].result = refresh[u].result
    BY <1>4, <1>5 DEF Unauthorized, RunRefresh
  <2>2. \A u \in Tabs : refresh'[u].token \in {mem[t], refresh[u].token}
    BY <1>4, <1>5 DEF Unauthorized, RunRefresh
  <2>3. \A n : n # 0 /\ Known(n)' => Known(n)
    BY <1>5, <2>2 DEF Unauthorized, Known, clients, storage
  <2> QED
    BY <1>5, <2>1, <2>3, FreshKept DEF Unauthorized, server
<1>6. ASSUME NEW t \in Tabs, TimerFires(t)
      PROVE  AnswersAreFresh'
  <2>1. \A u \in Tabs : refresh'[u].result # 0 => refresh'[u].result = refresh[u].result
    BY <1>4, <1>6 DEF TimerFires, RunRefresh
  <2>2. \A u \in Tabs : refresh'[u].token \in {mem[t], refresh[u].token}
    BY <1>4, <1>6 DEF TimerFires, RunRefresh
  <2>3. \A n : n # 0 /\ Known(n)' => Known(n)
    BY <1>6, <2>2 DEF TimerFires, Known, storage
  <2> QED
    BY <1>6, <2>1, <2>3, FreshKept DEF TimerFires, server
<1>7. ASSUME NEW t \in Tabs, StorageEvent(t)
      PROVE  AnswersAreFresh'
  <2>0. /\ refresh' = refresh \/ refresh' = [refresh EXCEPT ![t] = Sent(stored)]
        /\ mem' = [mem EXCEPT ![t] = stored] \/ mem' = [mem EXCEPT ![t] = 0]
    BY <1>7 DEF StorageEvent, ScheduleRefresh, RunRefresh
  <2>1. \A u \in Tabs : refresh'[u].result # 0 => refresh'[u].result = refresh[u].result
    BY <1>4, <2>0
  <2>2. \A u \in Tabs : refresh'[u].token \in {stored, refresh[u].token}
    BY <1>4, <2>0
  <2>3. \A n : n # 0 /\ Known(n)' => Known(n)
    BY <1>7, <2>0, <2>2 DEF StorageEvent, Known
  <2> QED
    BY <1>7, <2>1, <2>3, FreshKept DEF StorageEvent, server
<1>8. ASSUME NEW t \in Tabs, Lose(t)
      PROVE  AnswersAreFresh'
  <2>1. \A u \in Tabs : refresh'[u].result # 0 => refresh'[u].result = refresh[u].result
    BY <1>8 DEF Lose, Answered
  <2>2. \A n : n # 0 /\ Known(n)' => Known(n)
    BY <1>8 DEF Lose, Answered, Known, clients, storage
  <2>3. \A u \in Tabs : enter'[u] # 0 => enter'[u] = enter[u]
    BY <1>8 DEF Lose
  <2> QED
    BY <1>8, <2>1, <2>2, <2>3, FreshKept DEF Lose, server
<1>9. ASSUME NEW t \in Tabs, RefreshRead(t)
      PROVE  AnswersAreFresh'
  <2>1. \A u \in Tabs : /\ refresh'[u].result # 0 => refresh'[u].result = refresh[u].result
                        /\ refresh'[u].token # 0 => refresh'[u].token = refresh[u].token
    BY <1>9, CallsMade, SessionsAssumption DEF RefreshRead, Session
  <2>2. \A n : n # 0 /\ Known(n)' => Known(n)
    BY <1>9, <2>1 DEF RefreshRead, Known, clients, storage
  <2> QED
    BY <1>9, <2>1, <2>2, FreshKept DEF RefreshRead, server
<1>10. ASSUME NEW t \in Tabs, LogoutSave(t)
       PROVE  AnswersAreFresh'
  <2>1. \A n : n # 0 /\ Known(n)' => Known(n)
    BY <1>10 DEF LogoutSave, Answered, Known, clients, storage
  <2>2. \A n : n \in active /\ ~Known(n) => n \in active'
    BY <1>10 DEF LogoutSave, Known
  <2> QED
    BY <1>10, <2>1, <2>2, FreshKept DEF LogoutSave
<1>11. ASSUME NEW t \in Tabs, RefreshAnswered(t)
       PROVE  AnswersAreFresh'
  <2> DEFINE m == refresh[t].result
  <2>1. stored' \in {stored, m} /\ mem' = [mem EXCEPT ![t] = m]
    BY <1>11 DEF RefreshAnswered, ClearSession, Write
  <2>2. refresh' = [refresh EXCEPT ![t] = Idle] /\ UNCHANGED <<active, logout, enter>>
    BY <1>11 DEF RefreshAnswered, server
  <2>3. \A n : n # 0 /\ Known(n)' => Known(n) \/ n = m
    BY <2>1, <2>2, CallsMade DEF Known
  <2>4. \A u \in Tabs : refresh'[u].result # 0 =>
            refresh'[u].result = refresh[u].result /\ refresh'[u].result # m
    BY <2>2, CallsMade DEF AnswersAreFresh
  <2>5. \A u \in Tabs : enter'[u] # 0 => enter'[u] = enter[u] /\ enter'[u] # m
    BY <2>2 DEF AnswersAreFresh
  <2> HIDE DEF m
  <2> QED
    BY <2>2, <2>3, <2>4, <2>5, FreshKept
<1>12. ASSUME NEW t \in Tabs, LogoutAnswered(t)
       PROVE  AnswersAreFresh'
  <2>1. \A n : n # 0 /\ Known(n)' => Known(n)
    BY <1>12, CallsMade DEF LogoutAnswered, ClearSession, Write, Known
  <2> QED
    BY <1>12, <2>1, FreshKept DEF LogoutAnswered, server
<1>13. ASSUME NEW t \in Tabs, EnterAnswered(t)
       PROVE  AnswersAreFresh'
  <2> DEFINE m == enter[t]
  <2>0. refresh' = refresh \/ refresh' = [refresh EXCEPT ![t] = Sent(m)]
    BY <1>13 DEF EnterAnswered, ScheduleRefresh, RunRefresh
  <2>1. \A u \in Tabs : /\ refresh'[u].result # 0 => refresh'[u].result = refresh[u].result
                        /\ refresh'[u].token \in {m, refresh[u].token}
    BY <1>4, <2>0
  <2>2. /\ stored' \in {stored, m} /\ mem' = [mem EXCEPT ![t] = m] /\ enter' = [enter EXCEPT ![t] = 0]
        /\ UNCHANGED <<active, logout>>
    BY <1>13 DEF EnterAnswered, Write, server
  <2>3. \A n : n # 0 /\ Known(n)' => Known(n) \/ n = m
    BY <2>1, <2>2 DEF Known
  <2>4. \A u \in Tabs : refresh'[u].result # 0 =>
            refresh'[u].result = refresh[u].result /\ refresh'[u].result # m
    BY <2>1 DEF AnswersAreFresh
  <2>5. \A u \in Tabs : enter'[u] # 0 => enter'[u] = enter[u] /\ enter'[u] # m
    BY <2>2 DEF AnswersAreFresh
  <2> HIDE DEF m
  <2> QED
    BY <2>2, <2>3, <2>4, <2>5, FreshKept
<1> QED
  BY <1>1, <1>2, <1>3, <1>5, <1>6, <1>7, <1>8, <1>9, <1>10, <1>11, <1>12, <1>13, FreshIssued
     DEF Next, Choice, Duty, vars, server, clients, storage, calls, TimePasses

LEMMA LiveStep ==
    TypeInv /\ AnswersAreFresh /\ StoredIsLive /\ [Next]_vars => StoredIsLive'
<1> SUFFICES ASSUME TypeInv, AnswersAreFresh, StoredIsLive, [Next]_vars
             PROVE  StoredIsLive'
  OBVIOUS
<1>0. refresh \in [Tabs -> Call] /\ logout \in [Tabs -> Call] /\ enter \in [Tabs -> Nat]
  BY SessionsAssumption DEF TypeInv, TypeOK, Session
<1>kept. ASSUME stored' = stored, active \subseteq active', lapsed' = lapsed,
                Quiet' => Quiet
         PROVE  StoredIsLive'
  BY <1>kept DEF StoredIsLive
<1>1. CASE UNCHANGED <<active, stored, refresh, logout, lapsed>>
  BY <1>1 DEF StoredIsLive, Quiet
<1>2. ASSUME NEW t \in Tabs, Hydrate(t)
      PROVE  StoredIsLive'
  <2>1. CASE refresh[t] # Idle \/ logout[t] # Idle
    BY <1>2, <2>1 DEF Hydrate, StoredIsLive
  <2>2. CASE refresh[t] = Idle /\ logout[t] = Idle
    <3>1. Quiet' => Quiet
      BY <1>0, <1>2, <2>2 DEF Hydrate, Quiet
    <3> QED
      BY <1>2, <2>2, <3>1 DEF Hydrate, server, StoredIsLive
  <2> QED
    BY <2>1, <2>2
<1>3. ASSUME NEW t \in Tabs, SignIn(t)
      PROVE  StoredIsLive'
  <2>1. Quiet' => Quiet
    BY <1>3 DEF SignIn, Quiet
  <2> QED
    BY <1>3, <2>1, <1>kept DEF SignIn, Issue, clients, storage
<1>4. ASSUME NEW t \in Tabs,
             RefreshRead(t) \/ RefreshSave(t) \/ LogoutSave(t) \/ SignOut(t)
      PROVE  StoredIsLive'
  <2>1. refresh'[t] # Idle \/ logout'[t] # Idle
    <3>1. CASE RefreshRead(t)
      BY <1>0, <3>1, CallsMade, SessionsAssumption DEF RefreshRead, Session
    <3>2. CASE RefreshSave(t) \/ LogoutSave(t)
      BY <1>0, <3>2 DEF RefreshSave, LogoutSave, Answered, Idle
    <3>3. CASE SignOut(t)
      BY <1>0, <3>3 DEF SignOut, Sent, Idle
    <3> QED
      BY <1>4, <3>1, <3>2, <3>3
  <2> QED
    BY <2>1 DEF StoredIsLive, Quiet
<1>5. ASSUME NEW t \in Tabs, Lose(t)
      PROVE  StoredIsLive'
  <2>1. Answered(0) # Idle
    BY DEF Answered, Idle
  <2>2. Quiet' => Quiet
    BY <1>0, <1>5, <2>1 DEF Lose, Quiet
  <2> QED
    BY <1>5, <2>2, <1>kept DEF Lose, server, clients, storage
<1>6. ASSUME NEW t \in Tabs, Unauthorized(t) \/ TimerFires(t) \/ StorageEvent(t)
      PROVE  StoredIsLive'
  <2>1. \A u \in Tabs : refresh[u] # Idle => refresh'[u] # Idle
    <3>1. \A n : Sent(n) # Idle
      BY DEF Sent, Idle
    <3> QED
      BY <1>0, <1>6, <3>1 DEF Unauthorized, TimerFires, StorageEvent, ScheduleRefresh, RunRefresh
  <2>2. UNCHANGED <<active, stored, lapsed, logout>>
    BY <1>6 DEF Unauthorized, TimerFires, StorageEvent, server, clients, storage
  <2>3. Quiet' => Quiet
    BY <2>1, <2>2 DEF Quiet
  <2> QED
    BY <2>2, <2>3, <1>kept
<1>7. ASSUME NEW t \in Tabs, RefreshAnswered(t)
      PROVE  StoredIsLive'
  <2>1. /\ stored' = refresh[t].result \/ (stored' = stored /\ (stored # 0 => lapsed'))
        /\ active' = active
    BY <1>0, <1>7, Written DEF RefreshAnswered, ClearSession, server, TypeInv, TypeOK
  <2> QED
    BY <2>1 DEF StoredIsLive, AnswersAreFresh
<1>8. ASSUME NEW t \in Tabs, LogoutAnswered(t)
      PROVE  StoredIsLive'
  BY <1>8 DEF LogoutAnswered, ClearSession, Write, StoredIsLive
<1>9. ASSUME NEW t \in Tabs, EnterAnswered(t)
      PROVE  StoredIsLive'
  <2>1. /\ stored' = enter[t] \/ (stored' = stored /\ (stored # 0 => lapsed'))
        /\ active' = active /\ enter[t] # 0
    BY <1>9, Written DEF EnterAnswered, server, TypeInv, TypeOK
  <2> QED
    BY <2>1 DEF StoredIsLive, AnswersAreFresh
<1> QED
  BY <1>1, <1>2, <1>3, <1>4, <1>5, <1>6, <1>7, <1>8, <1>9
     DEF Next, Choice, Duty, vars, server, clients, storage, calls, TimePasses

(* With no call in flight, the session in localStorage can be renewed: a     *)
(* lost answer, two refreshes of one token and a sign-out that races them   *)
(* all end in a session that is active or in none, unless the write of it   *)
(* failed or a tab was closed before it heard; and then only until the next *)
(* session is stored.                                                       *)
THEOREM StoredStaysLive == Spec => []StoredIsLive
<1>1. Init => StoredIsLive /\ AnswersAreFresh
  <2>1. ASSUME Init PROVE stored = 0 /\ \A t \in Tabs : refresh[t].result = 0 /\ enter[t] = 0
    BY <2>1, CallsMade DEF Init
  <2> QED
    BY <2>1 DEF StoredIsLive, AnswersAreFresh
<1> QED
  BY <1>1, TypeInit, TypeStep, FreshStep, LiveStep, PTL DEF Spec
=============================================================================

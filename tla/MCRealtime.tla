------------------------------ MODULE MCRealtime ------------------------------
(* One tab has a bell and a page of messages.  They share the connection and  *)
(* nothing else, so each is checked beside the connection, not the other.    *)
EXTENDS Notifications, Thread

CONSTANT MaxPushing  \* bound on the rows stored and not yet pushed

VARIABLE watched     \* the part of the tab that this behaviour is about

Init ==
    /\ ConnectionInit
    /\ BellInit
    /\ ThreadInit
    /\ watched \in {"bell", "conversation"}

Next ==
    /\ \/ watched = "bell" /\ BellNext /\ UNCHANGED <<threadVars, watched>>
       \/ watched = "conversation" /\ ThreadNext /\ UNCHANGED <<bellVars, watched>>
    /\ Cardinality(pushing') <= MaxPushing

Spec == Init /\ [][Next]_<<connectionVars, bellVars, threadVars, watched>>

(* The variables of the three modules stay of their types. *)
TypeOK == ConnectionTypeOK /\ BellTypeOK /\ ThreadTypeOK
=============================================================================

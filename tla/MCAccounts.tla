------------------------------ MODULE MCAccounts ------------------------------
(* Signing in, sending documents, having them judged, and being looked up by  *)
(* an administrator.  The four stretches share no state but the account, so *)
(* each behaviour follows one of them.                                      *)
EXTENDS Entry, Tiles, Verification, UserLookup

VARIABLE watched     \* the stretch that this behaviour is about

Init ==
    /\ EntryInit
    /\ TilesInit
    /\ VerificationInit
    /\ LookupInit
    /\ watched \in {"entry", "tiles", "verification", "lookup"}
    /\ watched # "entry" => who = "Renter" /\ at = To("home")

Next ==
    \/ /\ watched = "entry" /\ EntryNext
       /\ UNCHANGED <<tilesVars, verificationVars, lookupVars, watched>>
    \/ /\ watched = "tiles" /\ TilesNext
       /\ UNCHANGED <<entryVars, verificationVars, lookupVars, watched>>
    \/ /\ watched = "verification" /\ VerificationNext
       /\ UNCHANGED <<entryVars, tilesVars, lookupVars, watched>>
    \/ /\ watched = "lookup" /\ LookupNext
       /\ UNCHANGED <<entryVars, tilesVars, verificationVars, watched>>

Spec ==
    /\ Init
    /\ [][Next]_<<entryVars, tilesVars, verificationVars, lookupVars, watched>>
    /\ watched = "entry" => EntryFairness

(* The variables of the four modules stay of their types. *)
TypeOK == EntryTypeOK /\ TilesTypeOK /\ VerificationTypeOK /\ LookupTypeOK

(* What is done to an account from the console is done to what the person      *)
(* doing it had on screen: documents are judged, and accounts deleted.       *)
DoneAsSeen == VerdictsStand /\ DeletedWasMeant
=============================================================================

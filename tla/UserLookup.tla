----------------------------- MODULE UserLookup -----------------------------
(***************************************************************************)
(* The console's page for one account at a time: looked up by its ID, shown *)
(* on a card, and deleted from it.  The card is not remounted for the next   *)
(* account, and shows the last one until that one's answer lands.           *)
(***************************************************************************)
EXTENDS FiniteSets

CONSTANT Users

ASSUME LookupAssumption == "loading" \notin Users /\ "error" \notin Users

VARIABLES
    inactive,      \* the accounts whose stored status is Inactive
    card,          \* the card, with the state of its fetch and of its dialog
    deletions,     \* DELETE requests under way
    named,         \* history: accounts the dialog was opened on
    swapped        \* history: accounts that landed under an open dialog

lookupVars == <<inactive, card, deletions, named, swapped>>

(* shows: the account on the card.  id: the one looked up.                   *)
(* moved: this card has been used for another account before.               *)
Shown == Users \cup {"loading", "error"}
NoCard == [id |-> "none"]
Card == [id: Users, shows: Shown, fetching: BOOLEAN, confirming: BOOLEAN,
         deleting: BOOLEAN, deleted: BOOLEAN, moved: BOOLEAN]

(* heard: the card it was sent from is still there. *)
Deletion == [user: Users, heard: BOOLEAN]

LookupInit ==
    /\ inactive = {}
    /\ card = NoCard
    /\ deletions = {}
    /\ named = {}
    /\ swapped = {}

-----------------------------------------------------------------------------

Mounted(u) ==
    [id |-> u, shows |-> "loading", fetching |-> TRUE, confirming |-> FALSE,
     deleting |-> FALSE, deleted |-> FALSE, moved |-> FALSE]

OnCard == card # NoCard /\ card.shows \in Users /\ ~card.deleted
DialogOpen == OnCard /\ card.confirming

(* The form's submit, or a row of FromQueue.  The dialog is modal. *)
LookUp(u) ==
    /\ ~DialogOpen
    /\ card = NoCard \/ card.id # u
    /\ card' = IF card = NoCard THEN Mounted(u)
               ELSE [card EXCEPT !.id = u, !.fetching = TRUE, !.moved = TRUE]
    /\ UNCHANGED <<inactive, deletions, named, swapped>>

(* An empty field submitted takes the card off the page. *)
Clear ==
    /\ card # NoCard
    /\ ~DialogOpen
    /\ card' = NoCard
    /\ deletions' = {[d EXCEPT !.heard = FALSE] : d \in deletions}
    /\ UNCHANGED <<inactive, named, swapped>>

(* useAsync drops the answer of a lookup that was replaced.  A dialog left    *)
(* open stays open, or comes back, over whoever lands.                      *)
CardLands(ok) ==
    /\ card # NoCard
    /\ card.fetching
    /\ card' = [card EXCEPT !.fetching = FALSE, !.shows = IF ok THEN card.id ELSE "error"]
    /\ swapped' = IF ok /\ card.confirming THEN swapped \cup {card.id} ELSE swapped
    /\ UNCHANGED <<inactive, deletions, named>>

OpenDialog ==
    /\ OnCard
    /\ ~card.confirming
    /\ card' = [card EXCEPT !.confirming = TRUE]
    /\ named' = named \cup {card.shows}
    /\ UNCHANGED <<inactive, deletions, swapped>>

(* "Keep it" waits for the answer; Escape does not. *)
CloseDialog ==
    /\ DialogOpen
    /\ card' = [card EXCEPT !.confirming = FALSE]
    /\ UNCHANGED <<inactive, deletions, named, swapped>>

(* Mutant of HandleDelete: the account looked up is deleted, not the one shown. *)
HandleDeleteLookedUp ==
    /\ DialogOpen
    /\ ~card.deleting
    /\ card' = [card EXCEPT !.deleting = TRUE]
    /\ deletions' = deletions \cup {[user |-> card.id, heard |-> TRUE]}
    /\ UNCHANGED <<inactive, named, swapped>>

HandleDelete ==
    /\ DialogOpen
    /\ ~card.deleting
    /\ card' = [card EXCEPT !.deleting = TRUE]
    /\ deletions' = deletions \cup {[user |-> card.shows, heard |-> TRUE]}
    /\ UNCHANGED <<inactive, named, swapped>>

(* The answer is the card's, whoever is on it by now. *)
DeleteAnswered(d, ok) ==
    /\ deletions' = deletions \ {d}
    /\ card' = IF ~d.heard THEN card
               ELSE [card EXCEPT !.deleting = FALSE, !.deleted = @ \/ ok,
                                 !.confirming = @ /\ ~ok]
    /\ UNCHANGED <<named, swapped>>

(* Deleting makes the account inactive; the row stays, and can be looked up. *)
DeleteSave(d) ==
    /\ inactive' = inactive \cup {d.user}
    /\ \E ok \in BOOLEAN : DeleteAnswered(d, ok)      \* or the answer is lost

DeleteFails(d) == DeleteAnswered(d, FALSE) /\ UNCHANGED inactive

LookupNext ==
    \/ \E u \in Users : LookUp(u)
    \/ Clear
    \/ \E ok \in BOOLEAN : CardLands(ok)
    \/ OpenDialog \/ CloseDialog \/ HandleDelete
    \/ \E d \in deletions : DeleteSave(d) \/ DeleteFails(d)

LookupSpec == LookupInit /\ [][LookupNext]_lookupVars

-----------------------------------------------------------------------------
(* Properties *)

LookupTypeOK ==
    /\ inactive \subseteq Users
    /\ card \in Card \cup {NoCard}
    /\ deletions \subseteq Deletion
    /\ \A d, e \in deletions : d.heard /\ e.heard => d = e
    /\ named \subseteq Users
    /\ swapped \subseteq Users

(* No account is deleted that the dialog was not opened on, but for one       *)
(* looked up just before, whose answer put it under the open dialog.  And a  *)
(* card says an account is deleted only if it is, unless the card had        *)
(* another account before: it is not told apart from the new one.           *)
DeletedWasMeant ==
    /\ inactive \subseteq named \cup swapped
    /\ card # NoCard => (card.deleted /\ ~card.moved => card.id \in inactive)
=============================================================================

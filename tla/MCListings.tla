------------------------------ MODULE MCListings ------------------------------
(* An owner lists a car, edits the listing and looks after its photos.  The   *)
(* three touch one another only where Wizard says so (EditPhotos), so each is *)
(* checked by itself.                                                        *)
EXTENDS CarPhotos, Wizard, EditForm

VARIABLE watched     \* the part of the owner's pages that this behaviour is about

Init ==
    /\ PhotosInit
    /\ WizardInit
    /\ FormInit
    /\ watched \in {"photos", "wizard", "form"}
    /\ watched # "photos" => kind = "listing" /\ count = 0
    /\ watched # "form" => subject = "listing"

Next ==
    \/ watched = "photos" /\ PhotosNext /\ UNCHANGED <<wizardVars, formVars, watched>>
    \/ watched = "wizard" /\ WizardNext /\ UNCHANGED <<photoVars, formVars, watched>>
    \/ watched = "form" /\ FormNext /\ UNCHANGED <<photoVars, wizardVars, watched>>

Spec == Init /\ [][Next]_<<photoVars, wizardVars, formVars, watched>>

(* The variables of the three modules stay of their types. *)
TypeOK == PhotosTypeOK /\ WizardTypeOK /\ FormTypeOK
=============================================================================

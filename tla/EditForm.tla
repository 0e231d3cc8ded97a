------------------------------- MODULE EditForm -------------------------------
(***************************************************************************)
(* The forms that edit what is stored already: a listing or a profile.      *)
(* Both PUT the whole record, so a save replaces every field by what the    *)
(* form held.  A record is the set of edits it carries, and an edit is typed *)
(* in once.                                                                 *)
(***************************************************************************)
EXTENDS Integers, FiniteSets

CONSTANTS
    Forms,      \* the tabs that may have the form open
    Edits      \* bound: edits ever typed, 1 .. Edits; edit 1 is the phone number

ASSUME FormAssumption == Edits \in Nat

VARIABLES
    subject,   \* what is edited: "listing" or "profile"
    record,    \* the edits the stored record carries
    form,      \* each tab's form
    made,      \* edits typed so far
    saved,     \* history: edits that were ever stored
    replaced   \* history: edits undone by a form that was loaded before them

formVars == <<subject, record, form, made, saved, replaced>>

(* loaded is what the form started from and own what was typed into it; both *)
(* are read by the properties only.  put is the request's body.              *)
Form == [shown: {"none", "form", "error"}, draft: SUBSET (1 .. Edits), loaded: SUBSET (1 .. Edits),
         own: SUBSET (1 .. Edits), saving: {"no", "sent", "stored"}, put: SUBSET (1 .. Edits),
         loading: BOOLEAN]
NoForm == [shown |-> "none", draft |-> {}, loaded |-> {}, own |-> {}, saving |-> "no",
           put |-> {}, loading |-> FALSE]

FormTypeOK ==
    /\ subject \in {"listing", "profile"}
    /\ record \subseteq saved
    /\ form \in [Forms -> Form]
    /\ made \subseteq 1 .. Edits
    /\ saved \subseteq made
    /\ replaced \subseteq saved

FormInit ==
    /\ subject \in {"listing", "profile"}
    /\ record = {}
    /\ form = [t \in Forms |-> NoForm]
    /\ made = {}
    /\ saved = {}
    /\ replaced = {}

-----------------------------------------------------------------------------
VisitForm(t) ==
    /\ form[t].shown = "none"
    /\ ~form[t].loading
    /\ form' = [form EXCEPT ![t].loading = TRUE]
    /\ UNCHANGED <<subject, record, made, saved, replaced>>

(* A request that is under way has been served by now, or never is. *)
LeaveForm(t) ==
    /\ form[t] # NoForm
    /\ form' = [form EXCEPT ![t] = NoForm]
    /\ UNCHANGED <<subject, record, made, saved, replaced>>

(* Mutant of Mount: the form starts blank. *)
MountBlank(t) == [NoForm EXCEPT !.shown = "form", !.loaded = record]

(* draftFromCar: the form starts from everything that is stored. *)
Mount(t) == [NoForm EXCEPT !.shown = "form", !.loaded = record, !.draft = record]

(* useAsync: the first answer, or one after an error, mounts the form; a      *)
(* later one renders the same form again and leaves the draft alone.          *)
FormLanded(t) ==
    /\ form[t].loading
    /\ form' = [form EXCEPT ![t] = IF form[t].shown = "form"
                                   THEN [form[t] EXCEPT !.loading = FALSE] ELSE Mount(t)]
    /\ UNCHANGED <<subject, record, made, saved, replaced>>

(* An error takes the form away, and with it what was not saved. *)
FormFails(t) ==
    /\ form[t].loading
    /\ form' = [form EXCEPT ![t] = [NoForm EXCEPT !.shown = "error"]]
    /\ UNCHANGED <<subject, record, made, saved, replaced>>

(* Trying again, or a photo that has changed on the same page. *)
ReloadForm(t) ==
    /\ form[t].shown # "none"
    /\ ~form[t].loading
    /\ form[t].shown = "form" => subject = "listing"
    /\ form' = [form EXCEPT ![t].loading = TRUE]
    /\ UNCHANGED <<subject, record, made, saved, replaced>>

EditField(t, e) ==
    /\ form[t].shown = "form"
    /\ e = Cardinality(made) + 1
    /\ made' = made \cup {e}
    /\ form' = [form EXCEPT ![t].draft = @ \cup {e}, ![t].own = @ \cup {e}]
    /\ UNCHANGED <<subject, record, saved, replaced>>

(* Sign-up never asks for a phone number and a profile cannot be saved       *)
(* without one.                                                             *)
HasLocalErrors(t) == subject = "profile" /\ 1 \notin form[t].draft

HandleSubmit(t) ==
    /\ form[t].shown = "form"
    /\ form[t].saving = "no"
    /\ ~HasLocalErrors(t)
    /\ form' = [form EXCEPT ![t].saving = "sent", ![t].put = form[t].draft]
    /\ UNCHANGED <<subject, record, made, saved, replaced>>

(* UpdateCar and UpdateUser: every column is overwritten. *)
PutRecord(t) ==
    /\ form[t].saving = "sent"
    /\ record' = form[t].put
    /\ saved' = saved \cup form[t].put
    /\ replaced' = replaced \cup (record \ (form[t].loaded \cup form[t].own))
    /\ form' = [form EXCEPT ![t].saving = "stored"]
    /\ UNCHANGED <<subject, made>>

(* onSaved refetches; a refusal or a lost answer leaves the form as it is. *)
SaveAnswered(t, ok) ==
    /\ form[t].saving # "no"
    /\ ok => form[t].saving = "stored"
    /\ form' = [form EXCEPT ![t].saving = "no", ![t].put = {}, ![t].loading = @ \/ ok]
    /\ UNCHANGED <<subject, record, made, saved, replaced>>

FormNext ==
    \E t \in Forms :
        \/ VisitForm(t) \/ LeaveForm(t) \/ FormLanded(t) \/ FormFails(t) \/ ReloadForm(t)
        \/ \E e \in 1 .. Edits : EditField(t, e)
        \/ HandleSubmit(t) \/ PutRecord(t)
        \/ \E ok \in BOOLEAN : SaveAnswered(t, ok)

FormSpec == FormInit /\ [][FormNext]_formVars

-----------------------------------------------------------------------------
(* PUT is a replace, not a patch, so the forms start from what is stored:    *)
(* a save never undoes an edit that was stored before its form was loaded,   *)
(* nor one typed into it, and a refetch never takes away what was typed.     *)
(* What another form stored since is undone, without a word.                *)
EditsStick ==
    /\ saved \ record \subseteq replaced
    /\ \A t \in Forms : form[t].own \subseteq form[t].draft

=============================================================================

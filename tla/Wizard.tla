-------------------------------- MODULE Wizard --------------------------------
(***************************************************************************)
(* Listing a car: the wizard of a few tabs, which keeps what is typed in    *)
(* localStorage, creates the car at the end of the last input step, and     *)
(* then remembers its id until its photos have been seen to.  A draft is    *)
(* the vehicle that is typed in and the steps whose fields validate.        *)
(***************************************************************************)
EXTENDS Integers, FiniteSets

CONSTANTS
    Wizards,          \* the browser tabs that may hold the wizard
    InputSteps,    \* the steps before Photos: 0 .. InputSteps - 1
    Vehicles,      \* bound: vehicles ever typed in, 1 .. Vehicles
    MaxCars        \* bound: cars ever created

ASSUME WizardAssumption == InputSteps \in Nat \ {0} /\ Vehicles \in Nat /\ MaxCars \in Nat

VARIABLES
    store,        \* localStorage: the draft, and the car that was created
    wizard,       \* each tab's wizard
    cars,         \* the listings: car -> the vehicle it lists
    typed,        \* vehicles typed in so far; each is typed in afresh only once
    shared,       \* history: vehicles whose draft outlived their listing
    unfinished,   \* history: cars created and not yet seen to
    forgotten     \* history: those that gave way to another car, or were not remembered

wizardVars == <<store, wizard, cars, typed, shared, unfinished, forgotten>>
histories == <<shared, unfinished, forgotten>>

(* The steps that take input, and those of them that own a field in error.   *)
InputStep == 0 .. InputSteps - 1
validateCarDraft(draft) == InputStep \ draft.valid

Draft == [vehicle: 0 .. Vehicles, valid: SUBSET InputStep]
EmptyDraft == [vehicle |-> 0, valid |-> {}]
PhotosStep == InputSteps

(* creating: 0, Sending, or the car that the server made; sent is the vehicle *)
(* of the request.                                                          *)
Sending == MaxCars + 1
Closed == [open |-> FALSE, draft |-> EmptyDraft, step |-> 0, creating |-> 0, sent |-> 0,
           created |-> 0, stranded |-> 0]

WizardTypeOK ==
    /\ store \in [draft: Draft, created: 0 .. MaxCars]
    /\ wizard \in [Wizards -> [open: BOOLEAN, draft: Draft, step: 0 .. PhotosStep,
                            creating: 0 .. Sending, sent: 0 .. Vehicles,
                            created: 0 .. MaxCars, stranded: 0 .. MaxCars]]
    /\ \E n \in 0 .. MaxCars : cars \in [1 .. n -> 1 .. Vehicles]
    /\ typed \in 0 .. Vehicles
    /\ shared \subseteq 1 .. typed
    /\ unfinished \subseteq DOMAIN cars
    /\ forgotten \subseteq DOMAIN cars

WizardInit ==
    /\ store = [draft |-> EmptyDraft, created |-> 0]
    /\ wizard = [t \in Wizards |-> Closed]
    /\ cars = <<>>
    /\ typed = 0
    /\ shared = {}
    /\ unfinished = {}
    /\ forgotten = {}

-----------------------------------------------------------------------------
(* Every call of localStorage may fail, and is caught: what is there stays,   *)
(* what cannot be read is taken for nothing, and the wizard goes on.        *)
SetItem(item, value) == {value, item}
GetItem(item, none) == {item, none}

(* loadDraft and recallCreatedCar, once, on mount. *)
OpenWizard(t) ==
    /\ ~wizard[t].open
    /\ \E draft \in GetItem(store.draft, EmptyDraft), stranded \in GetItem(store.created, 0) :
         wizard' = [wizard EXCEPT ![t] = [Closed EXCEPT !.open = TRUE, !.draft = draft,
                                                        !.stranded = stranded]]
    /\ UNCHANGED <<store, cars, typed, histories>>

(* A refresh, a closed tab, a link.  A request that is under way has been     *)
(* served by now, or never is.                                              *)
LeaveWizard(t) ==
    /\ wizard[t].open
    /\ wizard' = [wizard EXCEPT ![t] = Closed]
    /\ shared' = IF wizard[t].creating \in DOMAIN cars THEN shared \cup {wizard[t].sent}
                 ELSE shared
    /\ UNCHANGED <<store, cars, typed, unfinished, forgotten>>

(* The draft with a change that leaves the step's fields without an error, or  *)
(* with one; the first change to an empty draft is a vehicle of its own.     *)
Typed(draft, step, valid) ==
    [vehicle |-> IF draft.vehicle = 0 THEN typed + 1 ELSE draft.vehicle,
     valid |-> IF valid THEN draft.valid \cup {step} ELSE draft.valid \ {step}]

(* A field of the step on screen changes; every change goes to saveDraft. *)
SetField(t, valid) ==
    /\ wizard[t].open
    /\ wizard[t].step < PhotosStep
    /\ LET draft == wizard[t].draft
           next == Typed(draft, wizard[t].step, valid)
       IN  /\ next.vehicle <= Vehicles
           /\ next # draft
           /\ typed' = IF next.vehicle > typed THEN next.vehicle ELSE typed
           /\ wizard' = [wizard EXCEPT ![t].draft = next]
           /\ \E draftItem \in SetItem(store.draft, next) :
                store' = [store EXCEPT !.draft = draftItem]
    /\ UNCHANGED <<cars, histories>>

GoNext(t) ==
    /\ wizard[t].open
    /\ wizard[t].step < InputSteps - 1
    /\ wizard[t].step \notin validateCarDraft(wizard[t].draft)
    /\ wizard' = [wizard EXCEPT ![t].step = @ + 1]
    /\ UNCHANGED <<store, cars, typed, histories>>

GoBack(t) ==
    /\ wizard[t].step \in 1 .. InputSteps - 1
    /\ wizard[t].creating = 0
    /\ wizard' = [wizard EXCEPT ![t].step = @ - 1]
    /\ UNCHANGED <<store, cars, typed, histories>>

(* The draft is validated in full: a bad step is gone back to. *)
HandleCreate(t) ==
    /\ wizard[t].open
    /\ wizard[t].step = InputSteps - 1
    /\ wizard[t].creating = 0
    /\ LET bad == validateCarDraft(wizard[t].draft)
       IN  wizard' = IF bad = {}
                     THEN [wizard EXCEPT ![t].creating = Sending,
                                         ![t].sent = wizard[t].draft.vehicle]
                     ELSE [wizard EXCEPT ![t].step = CHOOSE s \in bad : \A r \in bad : s <= r]
    /\ UNCHANGED <<store, cars, typed, histories>>

HeldElsewhere(t) == {wizard[u].draft.vehicle : u \in Wizards \ {t}}

(* CreateCar on the server. *)
CreateCar(t) ==
    /\ wizard[t].creating = Sending
    /\ Cardinality(DOMAIN cars) < MaxCars
    /\ LET car == Cardinality(DOMAIN cars) + 1
       IN  /\ cars' = [c \in 1 .. car |-> IF c = car THEN wizard[t].sent ELSE cars[c]]
           /\ wizard' = [wizard EXCEPT ![t].creating = car]
    /\ shared' = shared \cup ({wizard[t].sent} \cap HeldElsewhere(t))
    /\ UNCHANGED <<store, typed, unfinished, forgotten>>

(* The mutants of Created: the draft stays behind in localStorage; the new   *)
(* car is remembered only by the tab.                                       *)
CreatedKeepingDraft(t) ==
    /\ wizard[t].creating \in DOMAIN cars
    /\ LET car == wizard[t].creating
       IN  /\ store' = [store EXCEPT !.created = car]
           /\ wizard' = [wizard EXCEPT ![t] = [Closed EXCEPT !.open = TRUE, !.created = car,
                                                             !.step = PhotosStep]]
           /\ unfinished' = unfinished \cup {car}
           /\ forgotten' = forgotten \cup ({store.created} \ {0})
    /\ shared' = shared \cup ({wizard[t].sent} \cap HeldElsewhere(t))
    /\ UNCHANGED <<cars, typed>>

CreatedUnremembered(t) ==
    /\ wizard[t].creating \in DOMAIN cars
    /\ LET car == wizard[t].creating
       IN  /\ store' = [draft |-> EmptyDraft, created |-> 0]
           /\ wizard' = [wizard EXCEPT ![t] = [Closed EXCEPT !.open = TRUE, !.created = car,
                                                             !.step = PhotosStep]]
           /\ unfinished' = unfinished \cup {car}
           /\ forgotten' = forgotten \cup ({store.created} \ {0})
    /\ shared' = shared \cup ({wizard[t].sent} \cap HeldElsewhere(t))
    /\ UNCHANGED <<cars, typed>>

(* The listing exists: rememberCreatedCar, and clearDraft, with what was      *)
(* typed while the request was under way.                                   *)
Created(t) ==
    /\ wizard[t].creating \in DOMAIN cars
    /\ LET car == wizard[t].creating
       IN  /\ \E draft \in SetItem(store.draft, EmptyDraft), created \in SetItem(store.created, car) :
                store' = [draft |-> draft, created |-> created]
           /\ wizard' = [wizard EXCEPT ![t] = [Closed EXCEPT !.open = TRUE, !.created = car,
                                                             !.step = PhotosStep]]
           /\ unfinished' = unfinished \cup {car}
           /\ forgotten' = forgotten \cup ({store.created, car} \ {0, store'.created})
    /\ shared' = shared \cup ({wizard[t].sent} \cap
                               (HeldElsewhere(t) \cup {store'.draft.vehicle}))
    /\ UNCHANGED <<cars, typed>>

(* A refusal goes to the step that owns its field, if it names one; a lost   *)
(* answer looks the same, and the car exists.                               *)
CreateFails(t) ==
    /\ wizard[t].creating # 0
    /\ \E s \in InputStep :
         wizard' = [wizard EXCEPT ![t].creating = 0, ![t].sent = 0, ![t].step = s]
    /\ shared' = IF wizard[t].creating \in DOMAIN cars THEN shared \cup {wizard[t].sent}
                 ELSE shared
    /\ UNCHANGED <<store, cars, typed, unfinished, forgotten>>

(* forgetCreatedCar: on account of these cars, whichever it is that is        *)
(* remembered.                                                              *)
Forget(seen) ==
    /\ \E created \in SetItem(store.created, 0) : store' = [store EXCEPT !.created = created]
    /\ unfinished' = unfinished \ seen
    /\ forgotten' = forgotten \cup ({store.created} \ (seen \cup {0, store'.created}))

Finish(t) ==
    /\ wizard[t].step = PhotosStep
    /\ wizard[t].created # 0
    /\ Forget({wizard[t].created})
    /\ wizard' = [wizard EXCEPT ![t] = Closed]
    /\ UNCHANGED <<cars, typed, shared>>

(* "Start a new one" instead of finishing the stranded listing. *)
StartNew(t) ==
    /\ wizard[t].stranded # 0
    /\ wizard[t].created = 0
    /\ Forget({wizard[t].stranded})
    /\ wizard' = [wizard EXCEPT ![t].stranded = 0]
    /\ UNCHANGED <<cars, typed, shared>>

(* A photo changes on the edit page of a listing. *)
EditPhotos(car) ==
    /\ Forget({car})
    /\ UNCHANGED <<wizard, cars, typed, shared>>

WizardNext ==
    \/ \E t \in Wizards :
         \/ OpenWizard(t) \/ LeaveWizard(t) \/ GoNext(t) \/ GoBack(t)
         \/ \E valid \in BOOLEAN : SetField(t, valid)
         \/ HandleCreate(t) \/ CreateCar(t) \/ Created(t) \/ CreateFails(t)
         \/ Finish(t) \/ StartNew(t)
    \/ \E car \in DOMAIN cars : EditPhotos(car)

WizardSpec == WizardInit /\ [][WizardNext]_wizardVars

-----------------------------------------------------------------------------
(* One vehicle that is typed in becomes one listing: the draft goes when the *)
(* car is created.  It becomes two only if the answer never reached the      *)
(* wizard, another tab had the same draft open at the time, or the draft     *)
(* could not be removed from localStorage.                                  *)
ListedOnce ==
    \A c, d \in DOMAIN cars : c # d /\ cars[c] = cars[d] => cars[c] \in shared

(* A listing that was created and whose photos nobody has seen to is kept for *)
(* the next wizard to offer ("You created a listing last time but didn't add *)
(* photos"), unless another car has taken its place or made it forgotten, or *)
(* localStorage did not take it.                                            *)
StrandedIsOffered ==
    \A c \in unfinished \ forgotten : store.created = c
=============================================================================

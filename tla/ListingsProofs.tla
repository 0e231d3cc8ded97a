---------------------------- MODULE ListingsProofs ----------------------------
(***************************************************************************)
(* What the owner's forms, photo grids and wizard promise, for any number   *)
(* of tabs, edits, photos and cars.                                         *)
(***************************************************************************)
EXTENDS MCListings, FiniteSetTheorems, WellFoundedInduction, TLAPS

(*                              The edit forms                              *)

(* The edits a form would lose sight of if it were not for its draft. *)
Held(t) == form[t].loaded \cup form[t].own

(* Edits are numbered in the order they are typed. *)
Numbered == Cardinality(made) \in Nat /\ made = 1 .. Cardinality(made)

(* A draft holds everything the form was loaded with and everything typed    *)
(* into it, and so does a request, but for what nobody has stored yet.  What *)
(* was typed into one form is in no other until it is stored.               *)
DraftHolds(t) ==
    /\ form[t].loaded \subseteq saved /\ form[t].own \subseteq made
    /\ form[t].loaded \cup form[t].own \subseteq form[t].draft
    /\ form[t].put \subseteq form[t].draft
    /\ form[t].draft \subseteq saved \cup form[t].own
    /\ form[t].saving = "sent" => Held(t) \cap saved \subseteq form[t].put

OwnersDiffer == \A t, u \in Forms : form[t].own \cap form[u].own # {} => t = u

FormInv ==
    /\ FormTypeOK
    /\ Numbered
    /\ \A t \in Forms : DraftHolds(t)
    /\ OwnersDiffer
    /\ saved \ record \subseteq replaced

LEMMA FormInvInit == FormInit => FormInv
<1> SUFFICES ASSUME FormInit PROVE FormInv
  OBVIOUS
<1>1. Cardinality(made) = 0 /\ made = {}
  BY FS_EmptySet DEF FormInit
<1>2. \A t \in Forms : form[t] = NoForm
  BY DEF FormInit
<1>3. NoForm \in Form
  BY DEF NoForm, Form
<1>4. FormTypeOK
  BY <1>1, <1>3 DEF FormInit, FormTypeOK
<1>5. Numbered
  BY <1>1 DEF Numbered
<1>6. OwnersDiffer /\ \A t \in Forms : DraftHolds(t)
  BY <1>2 DEF OwnersDiffer, DraftHolds, Held, NoForm
<1> QED
  BY <1>4, <1>5, <1>6 DEF FormInv, FormInit

(* The edit typed next is new. *)
LEMMA NextEdit ==
    ASSUME Numbered
    PROVE  LET e == Cardinality(made) + 1 IN
           /\ e \notin made
           /\ Cardinality(made \cup {e}) = e
           /\ made \cup {e} = 1 .. e
<1> DEFINE e == Cardinality(made) + 1
<1>1. made \cup {e} = 1 .. e /\ e \notin made
  BY DEF Numbered
<1>2. Cardinality(1 .. e) = e
  <2>1. e \in Nat /\ 1 \in Int /\ e \in Int
    BY DEF Numbered
  <2> QED
    BY <2>1, FS_Interval
<1> QED
  BY <1>1, <1>2

(* One form becomes f, and nothing is stored: f is blank, or loaded afresh,  *)
(* or still has its draft.                                                  *)
LEMMA FormMoves ==
    ASSUME FormInv, NEW t \in Forms, NEW f \in Form,
           form' = [form EXCEPT ![t] = f],
           UNCHANGED <<subject, record, made, saved, replaced>>,
           f.loaded \subseteq saved, f.loaded \cup f.own \subseteq f.draft,
           f.own \subseteq form[t].own, f.draft \subseteq saved \cup f.own,
           f.put \subseteq f.draft,
           f.saving = "sent" => (f.loaded \cup f.own) \cap saved \subseteq f.put
    PROVE  FormInv'
<1>1. \A u \in Forms : form'[u] = IF u = t THEN f ELSE form[u]
  BY DEF FormInv, FormTypeOK
<1>2. FormTypeOK' /\ Numbered'
  BY DEF FormInv, FormTypeOK, Numbered
<1>3. \A u \in Forms : DraftHolds(u)'
  BY <1>1 DEF FormInv, DraftHolds, Held
<1>4. OwnersDiffer'
  BY <1>1 DEF FormInv, OwnersDiffer
<1> QED
  BY <1>2, <1>3, <1>4 DEF FormInv

LEMMA FormInvStep == FormInv /\ [FormNext]_formVars => FormInv'
<1> SUFFICES ASSUME FormInv, [FormNext]_formVars PROVE FormInv'
  OBVIOUS
<1>1. CASE UNCHANGED formVars
  BY <1>1 DEF formVars, FormInv, FormTypeOK, Numbered, DraftHolds, Held, OwnersDiffer
<1>2. ASSUME NEW t \in Forms
      PROVE  /\ form[t] \in Form /\ DraftHolds(t)
             /\ form \in [Forms -> Form] /\ record \subseteq saved
             /\ saved \subseteq made /\ made \subseteq 1 .. Edits
  BY DEF FormInv, FormTypeOK
<1>3. ASSUME NEW t \in Forms, NEW f \in Form,
             form' = [form EXCEPT ![t] = f],
             UNCHANGED <<subject, record, made, saved, replaced>>,
             f.loaded = {} /\ f.own = {} /\ f.draft = {} /\ f.put = {} /\ f.saving = "no"
      PROVE  FormInv'
  BY <1>3, FormMoves
<1>4. ASSUME NEW t \in Forms, NEW f \in Form,
             form' = [form EXCEPT ![t] = f],
             UNCHANGED <<subject, record, made, saved, replaced>>,
             f.loaded = form[t].loaded /\ f.own = form[t].own /\ f.draft = form[t].draft,
             \/ f.put = form[t].put /\ f.saving = form[t].saving
             \/ f.put = {} /\ f.saving = "no"
             \/ f.put = f.draft
      PROVE  FormInv'
  BY <1>2, <1>4, FormMoves DEF DraftHolds, Held
<1>5. ASSUME NEW t \in Forms, VisitForm(t)
      PROVE  FormInv'
  <2> DEFINE f == [form[t] EXCEPT !.loading = TRUE]
  <2>1. /\ f \in Form /\ f.loaded = form[t].loaded /\ f.own = form[t].own
        /\ f.draft = form[t].draft /\ f.put = form[t].put /\ f.saving = form[t].saving
    BY <1>2 DEF Form
  <2>2. form' = [form EXCEPT ![t] = f] /\ UNCHANGED <<subject, record, made, saved, replaced>>
    BY <1>5 DEF VisitForm
  <2> HIDE DEF f
  <2> QED
    BY <1>4, <2>1, <2>2
<1>6. ASSUME NEW t \in Forms, LeaveForm(t)
      PROVE  FormInv'
  <2> DEFINE f == NoForm
  <2>1. f \in Form /\ f.loaded = {} /\ f.own = {} /\ f.draft = {} /\ f.put = {} /\ f.saving = "no"
    BY DEF NoForm, Form
  <2>2. form' = [form EXCEPT ![t] = f] /\ UNCHANGED <<subject, record, made, saved, replaced>>
    BY <1>6 DEF LeaveForm
  <2> HIDE DEF f
  <2> QED
    BY <1>3, <2>1, <2>2
<1>7. ASSUME NEW t \in Forms, FormLanded(t)
      PROVE  FormInv'
  <2>1. CASE form[t].shown = "form"
    <3> DEFINE f == [form[t] EXCEPT !.loading = FALSE]
    <3>1. /\ f \in Form /\ f.loaded = form[t].loaded /\ f.own = form[t].own
          /\ f.draft = form[t].draft /\ f.put = form[t].put /\ f.saving = form[t].saving
      BY <1>2 DEF Form
    <3>2. form' = [form EXCEPT ![t] = f] /\ UNCHANGED <<subject, record, made, saved, replaced>>
      BY <1>7, <2>1 DEF FormLanded
    <3> HIDE DEF f
    <3> QED
      BY <1>4, <3>1, <3>2
  <2>2. CASE form[t].shown # "form"
    <3> DEFINE f == Mount(t)
    <3>1. /\ f \in Form /\ f.loaded = record /\ f.own = {} /\ f.draft = record
          /\ f.put = {} /\ f.saving = "no"
      BY <1>2 DEF Mount, NoForm, Form
    <3>2. form' = [form EXCEPT ![t] = f] /\ UNCHANGED <<subject, record, made, saved, replaced>>
      BY <1>7, <2>2 DEF FormLanded
    <3> HIDE DEF f
    <3> QED
      BY <1>2, <3>1, <3>2, FormMoves
  <2> QED
    BY <2>1, <2>2
<1>8. ASSUME NEW t \in Forms, FormFails(t)
      PROVE  FormInv'
  <2> DEFINE f == [NoForm EXCEPT !.shown = "error"]
  <2>1. f \in Form /\ f.loaded = {} /\ f.own = {} /\ f.draft = {} /\ f.put = {} /\ f.saving = "no"
    BY DEF NoForm, Form
  <2>2. form' = [form EXCEPT ![t] = f] /\ UNCHANGED <<subject, record, made, saved, replaced>>
    BY <1>8 DEF FormFails
  <2> HIDE DEF f
  <2> QED
    BY <1>3, <2>1, <2>2
<1>9. ASSUME NEW t \in Forms, ReloadForm(t)
      PROVE  FormInv'
  <2> DEFINE f == [form[t] EXCEPT !.loading = TRUE]
  <2>1. /\ f \in Form /\ f.loaded = form[t].loaded /\ f.own = form[t].own
        /\ f.draft = form[t].draft /\ f.put = form[t].put /\ f.saving = form[t].saving
    BY <1>2 DEF Form
  <2>2. form' = [form EXCEPT ![t] = f] /\ UNCHANGED <<subject, record, made, saved, replaced>>
    BY <1>9 DEF ReloadForm
  <2> HIDE DEF f
  <2> QED
    BY <1>4, <2>1, <2>2
<1>10. ASSUME NEW t \in Forms, NEW e \in 1 .. Edits, EditField(t, e)
       PROVE  FormInv'
  <2> DEFINE f == form'[t]
  <2>1. e \notin made /\ e \notin saved /\ Numbered'
    <3>1. Numbered /\ e = Cardinality(made) + 1 /\ made' = made \cup {e}
      BY <1>10 DEF EditField, FormInv
    <3>2. Cardinality(made') = e /\ made' = 1 .. e /\ e \notin made
      BY <3>1, NextEdit
    <3> QED
      BY <1>2, <3>2 DEF Numbered
  <2>2. /\ form' \in [Forms -> Form]
        /\ f.loaded = form[t].loaded /\ f.own = form[t].own \cup {e}
        /\ f.draft = form[t].draft \cup {e} /\ f.put = form[t].put /\ f.saving = form[t].saving
        /\ \A u \in Forms : u # t => form'[u] = form[u]
    BY <1>2, <1>10, SMTT(20) DEF EditField, Form
  <2>3. made' = made \cup {e} /\ UNCHANGED <<subject, record, saved, replaced>>
    BY <1>10 DEF EditField
  <2>4. FormTypeOK'
    BY <2>2, <2>3 DEF FormInv, FormTypeOK
  <2>5. \A u \in Forms : e \notin form[u].own
    BY <1>2, <2>1 DEF DraftHolds
  <2>6. OwnersDiffer'
    BY <2>2, <2>5 DEF FormInv, OwnersDiffer
  <2>7. \A u \in Forms : DraftHolds(u)'
    BY <1>2, <2>1, <2>2, <2>3 DEF DraftHolds, Held
  <2> QED
    BY <2>1, <2>3, <2>4, <2>6, <2>7 DEF FormInv
<1>11. ASSUME NEW t \in Forms, HandleSubmit(t)
       PROVE  FormInv'
  <2> DEFINE f == form'[t]
  <2>1. /\ f \in Form /\ f.loaded = form[t].loaded /\ f.own = form[t].own
        /\ f.draft = form[t].draft /\ f.put = f.draft /\ form' = [form EXCEPT ![t] = f]
    BY <1>2, <1>11 DEF HandleSubmit, Form
  <2>2. UNCHANGED <<subject, record, made, saved, replaced>>
    BY <1>11 DEF HandleSubmit
  <2> HIDE DEF f
  <2> QED
    BY <1>4, <2>1, <2>2
<1>12. ASSUME NEW t \in Forms, PutRecord(t)
       PROVE  FormInv'
  <2>1. /\ form' \in [Forms -> Form] /\ form'[t].saving = "stored"
        /\ \A u \in Forms : /\ form'[u].loaded = form[u].loaded /\ form'[u].own = form[u].own
                            /\ form'[u].draft = form[u].draft /\ form'[u].put = form[u].put
                            /\ u # t => form'[u].saving = form[u].saving
    BY <1>2, <1>12 DEF PutRecord, Form
  <2>2. /\ record' = form[t].put /\ saved' = saved \cup form[t].put /\ made' = made
        /\ replaced' = replaced \cup (record \ (form[t].loaded \cup form[t].own))
        /\ subject' = subject /\ form[t].saving = "sent"
    BY <1>12 DEF PutRecord
  <2>3. form[t].put \subseteq made /\ record \subseteq saved
    BY <1>2 DEF DraftHolds
  <2>4. FormTypeOK'
    BY <2>1, <2>2, <2>3 DEF FormInv, FormTypeOK
  <2>5. Numbered' /\ OwnersDiffer'
    <3>1. OwnersDiffer /\ Numbered
      BY DEF FormInv
    <3>2. \A u \in Forms : form'[u].own = form[u].own
      BY <2>1
    <3>3. OwnersDiffer'
      BY <3>1, <3>2 DEF OwnersDiffer
    <3>4. Numbered'
      BY <2>2, <3>1 DEF Numbered
    <3> QED
      BY <3>3, <3>4
  <2>6. ASSUME NEW u \in Forms
        PROVE  DraftHolds(u)'
    <3>1. DraftHolds(u) /\ DraftHolds(t)
      BY <1>2
    <3>2. CASE u = t
      BY <2>1, <2>2, <3>1, <3>2 DEF DraftHolds, Held
    <3>3. CASE u # t
      <4>1. \A x \in form[u].own : x \notin form[t].own
        BY <3>3 DEF FormInv, OwnersDiffer
      <4>2. \A x \in Held(u) \cap saved' : x \in saved
        BY <2>2, <3>1, <4>1 DEF DraftHolds, Held
      <4>3. /\ form'[u].loaded = form[u].loaded /\ form'[u].own = form[u].own
            /\ form'[u].draft = form[u].draft /\ form'[u].put = form[u].put
            /\ form'[u].saving = form[u].saving
        BY <2>1, <3>3
      <4> QED
        BY <2>2, <3>1, <4>2, <4>3 DEF DraftHolds, Held
    <3> QED
      BY <3>2, <3>3
  <2>7. saved' \ record' \subseteq replaced'
    BY <1>2, <2>2 DEF FormInv, DraftHolds, Held
  <2> QED
    BY <2>4, <2>5, <2>6, <2>7 DEF FormInv
<1>13. ASSUME NEW t \in Forms, NEW ok \in BOOLEAN, SaveAnswered(t, ok)
       PROVE  FormInv'
  <2> DEFINE f == form'[t]
  <2>1. form[t].loading \/ ok \in BOOLEAN
    OBVIOUS
  <2>2. /\ f \in Form /\ f.loaded = form[t].loaded /\ f.own = form[t].own
        /\ f.draft = form[t].draft /\ f.put = {} /\ f.saving = "no"
        /\ form' = [form EXCEPT ![t] = f]
    BY <1>2, <1>13 DEF SaveAnswered, Form
  <2>3. UNCHANGED <<subject, record, made, saved, replaced>>
    BY <1>13 DEF SaveAnswered
  <2> HIDE DEF f
  <2> QED
    BY <1>4, <2>2, <2>3
<1> QED
  BY <1>1, <1>5, <1>6, <1>7, <1>8, <1>9, <1>10, <1>11, <1>12, <1>13 DEF FormNext

(* With any number of forms open and any number of edits, a save undoes only *)
(* what was stored after its form was loaded, and no refetch takes away what *)
(* was typed.                                                               *)
THEOREM FormsKeepEdits == FormSpec => []EditsStick
<1>1. FormInv => EditsStick
  BY DEF FormInv, DraftHolds, EditsStick
<1> QED
  BY <1>1, FormInvInit, FormInvStep, PTL DEF FormSpec

-----------------------------------------------------------------------------
(*                         The photos of one listing                         *)

(* Requests hold nothing when there is none, and the requests of an          *)
(* inspection touch no cover.                                               *)
CallsTyped ==
    /\ upload \in [Grids -> Upload]
    /\ change \in [Grids -> Change]
    /\ \A t \in Grids :
         /\ upload[t].at = "idle" => upload[t] = NoUpload
         /\ change[t].op = "none" => change[t] = NoChange
         /\ kind = "inspection" => change[t].op # "cover" /\ change[t].heir = 0
         /\ change[t].op = "delete" => change[t].heir # change[t].photo

PhotosTyped ==
    /\ PhotosTypeOK
    /\ kind = "inspection" => car = "booked"
    /\ CallsTyped

(* What a request has read of the covers is still so, unless it is stale. *)
FreshUpload(t) ==
    upload[t].at = "read" /\ ~upload[t].stale =>
        IF upload[t].primary THEN upload[t].covers = covers ELSE rows # {}
FreshChange(t) ==
    ~change[t].stale =>
        /\ change[t].op = "cover" => change[t].covers = covers
        /\ change[t].op = "delete" =>
             IF change[t].photo \in covers
             THEN change[t].heir = 0 => rows = {change[t].photo}
             ELSE change[t].heir = 0

OneCover == rows # {} => \E c \in rows : covers = {c}
CoverInv ==
    kind = "listing" /\ ~overlapped =>
        OneCover /\ \A t \in Grids : FreshUpload(t) /\ FreshChange(t)

(* A tab owed a refetch has it under way, or a batch that will ask for it. *)
GridInv ==
    /\ owed \subseteq Followed
    /\ \A t \in owed : t \in loading \/ shown[t] = "error" \/ upload[t].some
    /\ \A t \in Grids : upload[t].some => upload[t].at # "idle"

PhotosInv == PhotosTyped /\ CoverInv /\ GridInv /\ ListedIsStored

-----------------------------------------------------------------------------
LEMMA NoCalls == NoUpload \in Upload /\ NoChange \in Change
BY PhotosAssumption DEF PhotosAssumption, NoUpload, NoChange, Upload, Change

LEMMA PhotosInvInit == PhotosInit => PhotosInv
<1> SUFFICES ASSUME PhotosInit PROVE PhotosInv
  OBVIOUS
<1> USE PhotosAssumption DEF PhotosAssumption
<1>1. \A t \in Grids : upload[t] = NoUpload /\ change[t] = NoChange
  BY DEF PhotosInit
<1>2. CallsTyped
  BY <1>1, NoCalls DEF PhotosInit, CallsTyped, NoChange
<1>3. covers \subseteq rows /\ rows = 1 .. count /\ files = 1 .. count /\ count \in {0, 1}
  BY DEF PhotosInit
<1>4. PhotosTypeOK
  <2>1. count \in 0 .. MaxPhotos
    BY <1>3
  <2> QED
    BY <2>1, <1>2, <1>3 DEF PhotosInit, PhotosTypeOK, CallsTyped
<1>5. CoverInv
  <2>1. rows # {} => rows = {1}
    BY <1>3
  <2> QED
    BY <1>1, <2>1 DEF PhotosInit, CoverInv, OneCover, FreshUpload, FreshChange, NoUpload, NoChange
<1>6. GridInv /\ ListedIsStored
  BY <1>1 DEF PhotosInit, GridInv, ListedIsStored, NoUpload
<1> QED
  BY <1>2, <1>4, <1>5, <1>6 DEF PhotosInv, PhotosTyped, PhotosInit


(* A save changes nothing of the other requests but whether they are stale,  *)
(* and makes them so.                                                       *)
LEMMA UploadsOutdated ==
    ASSUME CallsTyped, NEW S \in SUBSET Grids, NEW u \in Grids
    PROVE  LET v == OutdateUploads(S)[u] IN
           /\ v \in Upload
           /\ v.at = upload[u].at /\ v.primary = upload[u].primary
           /\ v.covers = upload[u].covers /\ v.some = upload[u].some
           /\ v.left = upload[u].left
           /\ upload[u].at = "idle" => v = upload[u]
           /\ u \in S /\ v.at = "read" /\ kind = "listing" /\ ~overlapped => v.stale
<1>1. upload[u] \in Upload
  BY DEF CallsTyped
<1> DEFINE w == [upload[u] EXCEPT !.stale = TRUE]
<1>2. /\ w \in Upload /\ w.at = upload[u].at /\ w.primary = upload[u].primary
      /\ w.covers = upload[u].covers /\ w.left = upload[u].left /\ w.some = upload[u].some /\ w.stale
  BY <1>1 DEF Upload
<1>3. OutdateUploads(S)[u] = IF u \in S /\ upload[u].at = "read" /\ kind = "listing" /\ ~overlapped
                             THEN w ELSE upload[u]
  BY DEF OutdateUploads, Outdated
<1> HIDE DEF w
<1> QED
  BY <1>1, <1>2, <1>3

LEMMA ChangesOutdated ==
    ASSUME CallsTyped, NEW S \in SUBSET Grids, NEW u \in Grids
    PROVE  LET v == OutdateChanges(S)[u] IN
           /\ v \in Change
           /\ v.op = change[u].op /\ v.photo = change[u].photo
           /\ v.covers = change[u].covers /\ v.heir = change[u].heir
           /\ change[u].op = "none" => v = change[u]
           /\ u \in S /\ v.op # "none" /\ kind = "listing" /\ ~overlapped => v.stale
<1>1. change[u] \in Change
  BY DEF CallsTyped
<1> DEFINE w == [change[u] EXCEPT !.stale = TRUE]
<1>2. /\ w \in Change /\ w.op = change[u].op /\ w.photo = change[u].photo
      /\ w.covers = change[u].covers /\ w.heir = change[u].heir /\ w.stale
  BY <1>1 DEF Change
<1>3. OutdateChanges(S)[u] = IF u \in S /\ change[u].op # "none" /\ kind = "listing" /\ ~overlapped
                             THEN w ELSE change[u]
  BY DEF OutdateChanges, Outdated
<1> HIDE DEF w
<1> QED
  BY <1>1, <1>2, <1>3

(* The next request of a batch. *)
LEMMA NextUploadTyped ==
    ASSUME CallsTyped, NEW t \in Grids, NEW ok \in BOOLEAN
    PROVE  LET v == NextUpload(t, ok) IN
           /\ v \in Upload /\ v.at # "read"
           /\ v.at = "idle" => v = NoUpload
           /\ v.some => v.at = "sent"
           /\ ok /\ upload[t].left > 0 => v.some
<1>1. upload[t] \in Upload
  BY DEF CallsTyped
<1>2. CASE ok /\ upload[t].left > 0
  <2> DEFINE v == [NoUpload EXCEPT !.at = "sent", !.left = upload[t].left - 1, !.some = TRUE]
  <2>1. upload[t].left - 1 \in 0 .. MaxBatch
    BY <1>1, <1>2, PhotosAssumption DEF Upload, PhotosAssumption
  <2>2. v \in Upload /\ v.at = "sent" /\ v.some
    BY <2>1, NoCalls DEF Upload, NoUpload
  <2>3. NextUpload(t, ok) = v
    BY <1>2 DEF NextUpload
  <2> HIDE DEF v
  <2> QED
    BY <2>2, <2>3
<1>3. CASE ~(ok /\ upload[t].left > 0)
  BY <1>3, NoCalls DEF NextUpload, NoUpload
<1> QED
  BY <1>2, <1>3

LEMMA OneUploadTyped ==
    ASSUME CallsTyped, NEW t \in Grids, NEW f \in Upload,
           upload' = [upload EXCEPT ![t] = f], f.at = "idle" => f = NoUpload,
           UNCHANGED <<kind, change>>
    PROVE  CallsTyped'
BY DEF CallsTyped

LEMMA OneChangeTyped ==
    ASSUME CallsTyped, NEW t \in Grids, NEW f \in Change,
           change' = [change EXCEPT ![t] = f], f.op = "none" => f = NoChange,
           f.op = "delete" => f.heir # f.photo,
           kind = "inspection" => f.op # "cover" /\ f.heir = 0,
           UNCHANGED <<kind, upload>>
    PROVE  CallsTyped'
BY DEF CallsTyped

(* The end of a request asks for a refetch when the page was told of a photo. *)
LEMMA BatchEndsGrid ==
    ASSUME GridInv, PhotosTypeOK, NEW t \in Grids, NEW ok \in BOOLEAN,
           BatchEnds(t, ok)
    PROVE  /\ loading' \subseteq Grids /\ loading \subseteq loading'
           /\ owed' \subseteq Followed /\ owed' \subseteq Grids
           /\ \A u \in owed' : u # t => u \in owed
           /\ t \in owed' => \/ t \in loading' \/ (ok /\ upload[t].left > 0)
                             \/ t \in owed /\ ~upload[t].some
<1> USE PhotosAssumption DEF PhotosAssumption, PhotosTypeOK, GridInv
<1>1. upload[t].left \in Nat
  BY DEF Upload
<1>2. CASE ok /\ upload[t].left > 0
  BY <1>1, <1>2 DEF BatchEnds, Tell
<1>3. CASE ok /\ upload[t].left = 0
  BY <1>1, <1>3 DEF BatchEnds, Refetch, Tell
<1>4. CASE ~ok
  BY <1>4 DEF BatchEnds, Refetch, Tell
<1> QED
  BY <1>1, <1>2, <1>3, <1>4

(* The request of one tab becomes f, and nothing is stored. *)
LEMMA UploadMoves ==
    ASSUME PhotosInv, NEW t \in Grids, NEW f \in Upload,
           upload' = [upload EXCEPT ![t] = f],
           f.at = "idle" => f = NoUpload,
           kind = "listing" /\ f.at = "read" =>
               IF f.primary THEN f.covers = covers ELSE rows # {},
           UNCHANGED <<kind, rows, covers, count, files, car, change, removal, shown,
                       overlapped, broken>>,
           loading' \subseteq Grids, loading \subseteq loading', owed' \subseteq Followed,
           \A u \in owed' : u # t => u \in owed,
           t \in owed' => t \in loading' \/ shown[t] = "error" \/ f.some
    PROVE  PhotosInv'
<1>1. CallsTyped'
  BY OneUploadTyped DEF PhotosInv, PhotosTyped
<1>2. \A u \in Grids : upload'[u] = IF u = t THEN f ELSE upload[u]
  BY DEF PhotosInv, PhotosTyped, CallsTyped
<1>3. owed' \subseteq Grids
  BY PhotosAssumption DEF PhotosAssumption
<1>4. PhotosTyped'
  BY <1>1, <1>3 DEF PhotosInv, PhotosTyped, PhotosTypeOK, CallsTyped
<1>5. CoverInv'
  BY <1>2 DEF PhotosInv, CoverInv, OneCover, FreshUpload, FreshChange
<1>6. GridInv'
  BY <1>2, <1>3 DEF PhotosInv, GridInv, NoUpload
<1>7. ListedIsStored'
  BY DEF PhotosInv, ListedIsStored
<1> QED
  BY <1>4, <1>5, <1>6, <1>7 DEF PhotosInv

LEMMA ChangeMoves ==
    ASSUME PhotosInv, NEW t \in Grids, NEW f \in Change,
           change' = [change EXCEPT ![t] = f],
           f.op = "none" => f = NoChange,
           kind = "inspection" => f.op # "cover" /\ f.heir = 0,
           f.op = "cover" => f.covers = covers,
           f.op = "delete" =>
               /\ f.heir # f.photo
               /\ IF f.photo \in covers THEN f.heir = 0 => rows = {f.photo} ELSE f.heir = 0,
           UNCHANGED <<kind, rows, covers, count, car, upload, removal, shown, loading,
                       overlapped, owed>>,
           files' \subseteq files, broken' \subseteq rows, ListedIsStored'
    PROVE  PhotosInv'
<1>1. CallsTyped'
  BY OneChangeTyped DEF PhotosInv, PhotosTyped
<1>2. \A u \in Grids : change'[u] = IF u = t THEN f ELSE change[u]
  BY DEF PhotosInv, PhotosTyped, CallsTyped
<1>3. PhotosTyped'
  BY <1>1 DEF PhotosInv, PhotosTyped, PhotosTypeOK, CallsTyped
<1>4. CoverInv'
  BY <1>2 DEF PhotosInv, CoverInv, OneCover, FreshUpload, FreshChange
<1>5. GridInv'
  BY DEF PhotosInv, GridInv
<1> QED
  BY <1>3, <1>4, <1>5 DEF PhotosInv

-----------------------------------------------------------------------------
(* A save.  The covers it leaves are right if what its request had read was; *)
(* everyone else's request is stale by then.                                *)
SavedRight ==
    kind = "listing" /\ ~overlapped' => OneCover'

LEMMA UploadStores ==
    ASSUME PhotosInv, NEW t \in Grids, NEW ok \in BOOLEAN,
           Store, UploadSucceeds(t, ok), SavedRight,
           covers' \subseteq rows', kind = "inspection" => covers' = {},
           UNCHANGED <<kind, car, removal, shown, broken>>, car # "deleted"
    PROVE  PhotosInv'
<1> DEFINE f == NextUpload(t, ok)
           others == OutdateUploads(Grids \ {t})
<1>1. CallsTyped /\ PhotosTypeOK /\ GridInv /\ ListedIsStored /\ CoverInv
  BY DEF PhotosInv, PhotosTyped
<1>2. /\ f \in Upload /\ f.at # "read" /\ (f.at = "idle" => f = NoUpload)
      /\ (f.some => f.at = "sent") /\ (ok /\ upload[t].left > 0 => f.some)
  BY <1>1, NextUploadTyped
<1>3. ASSUME NEW u \in Grids
      PROVE  /\ others[u] \in Upload /\ others[u].at = upload[u].at
             /\ others[u].some = upload[u].some
             /\ (upload[u].at = "idle" => others[u] = upload[u])
             /\ (u # t /\ others[u].at = "read" /\ kind = "listing" /\ ~overlapped => others[u].stale)
  BY <1>1, UploadsOutdated
<1>4. ASSUME NEW u \in Grids
      PROVE  LET v == change'[u] IN
             /\ v \in Change
             /\ v.op = change[u].op /\ v.photo = change[u].photo
             /\ v.covers = change[u].covers /\ v.heir = change[u].heir
             /\ change[u].op = "none" => v = change[u]
             /\ v.op # "none" /\ kind = "listing" /\ ~overlapped => v.stale
  <2>1. change' = OutdateChanges(Grids)
    BY DEF UploadSucceeds
  <2> QED
    BY <1>1, <2>1, ChangesOutdated
<1>5. upload' = [others EXCEPT ![t] = f] /\ others = [u \in Grids |-> others[u]]
  BY DEF UploadSucceeds, OutdateUploads
<1>6. change' = [u \in Grids |-> change'[u]]
  BY DEF UploadSucceeds, OutdateChanges
<1> HIDE DEF f, others
<1>7. \A u \in Grids : upload'[u] = IF u = t THEN f ELSE others[u]
  BY <1>5
<1>8. upload' \in [Grids -> Upload] /\ change' \in [Grids -> Change]
  BY <1>2, <1>3, <1>4, <1>5, <1>6
<1>9. CallsTyped'
  BY <1>1, <1>2, <1>3, <1>4, <1>7, <1>8 DEF CallsTyped
<1>10. /\ loading' \subseteq Grids /\ loading \subseteq loading'
       /\ owed' \subseteq Followed /\ owed' \subseteq Grids
       /\ \A u \in owed' : u # t => u \in owed
       /\ t \in owed' => \/ t \in loading' \/ (ok /\ upload[t].left > 0)
                         \/ t \in owed /\ ~upload[t].some
  BY <1>1, BatchEndsGrid DEF UploadSucceeds
<1>11. overlapped' = (overlapped \/ upload[t].stale)
  BY DEF UploadSucceeds
<1>12. overlapped' \in BOOLEAN
  BY <1>11
<1>13. /\ count' = count + 1 /\ rows' = rows \cup {count'} /\ files' = files \cup {count'}
       /\ count' \in 0 .. MaxPhotos /\ rows' \subseteq 1 .. count' /\ files' \subseteq 1 .. count'
  BY <1>1, PhotosAssumption DEF Store, PhotosTypeOK, PhotosAssumption
<1>14. PhotosTyped'
  <2>1. PhotosTypeOK'
    BY <1>1, <1>8, <1>10, <1>12, <1>13 DEF PhotosTypeOK
  <2> QED
    BY <1>9, <2>1 DEF PhotosInv, PhotosTyped
<1>15. CoverInv'
  <2> SUFFICES ASSUME kind = "listing", ~overlapped'
               PROVE  OneCover' /\ \A u \in Grids : (FreshUpload(u) /\ FreshChange(u))'
    BY DEF CoverInv
  <2>1. OneCover' /\ ~overlapped
    BY <1>11 DEF SavedRight
  <2>2. ASSUME NEW u \in Grids
        PROVE  FreshUpload(u)' /\ FreshChange(u)'
    <3>1. FreshUpload(u)'
      BY <1>2, <1>3, <1>7, <2>1 DEF FreshUpload
    <3>2. FreshChange(u)'
      BY <1>4, <2>1 DEF FreshChange
    <3> QED
      BY <3>1, <3>2
  <2> QED
    BY <2>1, <2>2
<1>16. GridInv'
  <2>1. \A u \in Grids : upload'[u].some => upload'[u].at # "idle"
    BY <1>1, <1>2, <1>3, <1>7 DEF GridInv
  <2>2. ASSUME NEW u \in owed'
        PROVE  u \in loading' \/ shown'[u] = "error" \/ upload'[u].some
    BY <1>1, <1>2, <1>3, <1>7, <1>10 DEF GridInv
  <2> QED
    BY <1>10, <2>1, <2>2 DEF GridInv
<1>17. ListedIsStored'
  BY <1>1, <1>4, <1>13 DEF ListedIsStored
<1> QED
  BY <1>14, <1>15, <1>16, <1>17 DEF PhotosInv

LEMMA ChangeStores ==
    ASSUME PhotosInv, NEW t \in Grids, NEW ok \in BOOLEAN,
           ChangeSucceeds(t, ok), SavedRight,
           rows' \subseteq rows, covers' \subseteq rows', kind = "inspection" => covers' = {},
           change[t].op = "delete" => change[t].photo \notin rows',
           UNCHANGED <<kind, count, files, car, removal, shown>>,
           broken' = broken \cap rows'
    PROVE  PhotosInv'
<1> DEFINE others == OutdateChanges(Grids \ {t})
<1>1. CallsTyped /\ PhotosTypeOK /\ GridInv /\ ListedIsStored /\ CoverInv
  BY DEF PhotosInv, PhotosTyped
<1>2. ASSUME NEW u \in Grids
      PROVE  LET v == others[u] IN
             /\ v \in Change
             /\ v.op = change[u].op /\ v.photo = change[u].photo
             /\ v.covers = change[u].covers /\ v.heir = change[u].heir
             /\ change[u].op = "none" => v = change[u]
             /\ u # t /\ v.op # "none" /\ kind = "listing" /\ ~overlapped => v.stale
  BY <1>1, ChangesOutdated
<1>3. ASSUME NEW u \in Grids
      PROVE  LET v == upload'[u] IN
             /\ v \in Upload /\ v.at = upload[u].at /\ v.some = upload[u].some
             /\ upload[u].at = "idle" => v = upload[u]
             /\ v.at = "read" /\ kind = "listing" /\ ~overlapped => v.stale
  <2>1. upload' = OutdateUploads(Grids)
    BY DEF ChangeSucceeds
  <2> QED
    BY <1>1, <2>1, UploadsOutdated
<1>4. change' = [others EXCEPT ![t] = NoChange] /\ others = [u \in Grids |-> others[u]]
  BY DEF ChangeSucceeds, OutdateChanges
<1>5. upload' = [u \in Grids |-> upload'[u]]
  BY DEF ChangeSucceeds, OutdateUploads
<1> HIDE DEF others
<1>6. \A u \in Grids : change'[u] = IF u = t THEN NoChange ELSE others[u]
  BY <1>4
<1>7. upload' \in [Grids -> Upload] /\ change' \in [Grids -> Change]
  BY <1>2, <1>3, <1>4, <1>5, NoCalls
<1>8. CallsTyped'
  BY <1>1, <1>2, <1>3, <1>6, <1>7 DEF CallsTyped, NoChange
<1>9. /\ loading' \subseteq Grids /\ loading \subseteq loading'
      /\ owed' \subseteq Followed /\ owed' \subseteq Grids
      /\ \A u \in owed' : u \in owed \/ u \in loading'
  BY <1>1, PhotosAssumption DEF ChangeSucceeds, Refetch, Tell, GridInv, PhotosTypeOK, PhotosAssumption
<1>10. overlapped' = (overlapped \/ change[t].stale)
  BY DEF ChangeSucceeds
<1>11. overlapped' \in BOOLEAN
  BY <1>10
<1>12. PhotosTyped'
  <2>1. PhotosTypeOK'
    BY <1>1, <1>7, <1>9, <1>11 DEF PhotosTypeOK
  <2> QED
    BY <1>8, <2>1 DEF PhotosInv, PhotosTyped
<1>13. CoverInv'
  <2> SUFFICES ASSUME kind = "listing", ~overlapped'
               PROVE  OneCover' /\ \A u \in Grids : (FreshUpload(u) /\ FreshChange(u))'
    BY DEF CoverInv
  <2>1. OneCover' /\ ~overlapped
    BY <1>10 DEF SavedRight
  <2>2. ASSUME NEW u \in Grids
        PROVE  FreshUpload(u)' /\ FreshChange(u)'
    <3>1. FreshUpload(u)'
      BY <1>3, <2>1 DEF FreshUpload
    <3>2. FreshChange(u)'
      BY <1>2, <1>6, <2>1 DEF FreshChange, NoChange
    <3> QED
      BY <3>1, <3>2
  <2> QED
    BY <2>1, <2>2
<1>14. GridInv'
  BY <1>1, <1>3, <1>9 DEF GridInv
<1>15. ListedIsStored'
  <2> SUFFICES ASSUME NEW p \in rows' \ files'
               PROVE  \/ \E u \in Grids : change'[u].op = "delete" /\ change'[u].photo = p
                      \/ removal.at = "read" /\ p \in removal.photos
                      \/ p \in broken'
    BY DEF ListedIsStored
  <2>1. CASE \E u \in Grids : change[u].op = "delete" /\ change[u].photo = p
    BY <1>2, <1>6, <2>1
  <2>2. CASE ~ \E u \in Grids : change[u].op = "delete" /\ change[u].photo = p
    BY <1>1, <2>2 DEF ListedIsStored
  <2> QED
    BY <2>1, <2>2
<1> QED
  BY <1>12, <1>13, <1>14, <1>15 DEF PhotosInv

-----------------------------------------------------------------------------
(* The handlers, one lemma for each kind of request. *)
LEMMA UploadStep ==
    ASSUME PhotosInv, NEW t \in Grids,
           \/ \E n \in 1 .. MaxBatch, makeCover \in BOOLEAN : HandleFiles(t, n, makeCover)
           \/ UploadRead(t) \/ UploadRefused(t)
           \/ \E ok \in BOOLEAN : UploadSave(t, ok) \/ InspectionPhotoSave(t, ok)
    PROVE  PhotosInv'
<1>1. CallsTyped /\ PhotosTypeOK /\ GridInv /\ CoverInv /\ upload[t] \in Upload
  BY DEF PhotosInv, PhotosTyped, CallsTyped
<1>2. ASSUME NEW n \in 1 .. MaxBatch, NEW makeCover \in BOOLEAN, HandleFiles(t, n, makeCover)
      PROVE  PhotosInv'
  <2> DEFINE f == [NoUpload EXCEPT !.at = "sent", !.primary = makeCover, !.left = n - 1]
  <2>1. n - 1 \in 0 .. MaxBatch
    BY PhotosAssumption DEF PhotosAssumption
  <2>2. f \in Upload /\ f.at = "sent"
    BY <2>1, NoCalls DEF Upload, NoUpload
  <2>3. ~upload[t].some
    BY <1>1, <1>2 DEF HandleFiles, GridInv
  <2>4. upload' = [upload EXCEPT ![t] = f]
    BY <1>2 DEF HandleFiles
  <2> HIDE DEF f
  <2>5. UNCHANGED <<kind, rows, covers, count, files, car, change, removal, shown,
                    overlapped, broken, loading, owed>>
    BY <1>2 DEF HandleFiles, Elsewhere, server, history
  <2> QED
    BY <1>1, <2>2, <2>3, <2>4, <2>5, UploadMoves DEF GridInv, PhotosTypeOK
<1>3. CASE UploadRead(t)
  <2> DEFINE isPrimary == kind = "listing" /\ (upload[t].primary \/ rows = {})
             f == [upload[t] EXCEPT !.at = "read", !.primary = isPrimary,
                                    !.covers = IF isPrimary THEN covers ELSE {}]
  <2>1. isPrimary \in BOOLEAN /\ covers \subseteq Photos
    BY <1>1, PhotosAssumption DEF PhotosTypeOK, Photos, PhotosAssumption
  <2>2. upload' = [upload EXCEPT ![t] = f]
    BY <1>3 DEF UploadRead
  <2>3. /\ f \in Upload /\ f.at = "read" /\ f.some = upload[t].some
        /\ f.primary = isPrimary /\ (isPrimary => f.covers = covers)
    <3> HIDE DEF isPrimary
    <3> QED
      BY <1>1, <2>1 DEF Upload
  <2>4. kind = "listing" => IF f.primary THEN f.covers = covers ELSE rows # {}
    BY <2>3
  <2> HIDE DEF f
  <2>5. UNCHANGED <<kind, rows, covers, count, files, car, change, removal, shown,
                    overlapped, broken, loading, owed>>
    BY <1>3 DEF UploadRead, Elsewhere, server, history
  <2> QED
    BY <1>1, <2>2, <2>3, <2>4, <2>5, UploadMoves DEF GridInv, PhotosTypeOK
<1>4. ASSUME UploadFails(t), Elsewhere
      PROVE  PhotosInv'
  <2>1. /\ loading' \subseteq Grids /\ loading \subseteq loading' /\ owed' \subseteq Followed
        /\ \A u \in owed' : u # t => u \in owed
        /\ t \in owed' => t \in loading' \/ (t \in owed /\ ~upload[t].some)
    <3>1. \/ upload[t].some /\ Refetch(t)
          \/ ~upload[t].some /\ UNCHANGED <<loading, owed>>
      BY <1>4 DEF UploadFails, BatchEnds
    <3>2. loading \subseteq Grids /\ owed \subseteq Followed /\ Followed \subseteq Grids
      BY <1>1, PhotosAssumption DEF GridInv, PhotosTypeOK, PhotosAssumption
    <3>3. CASE upload[t].some /\ Refetch(t)
      BY <3>2, <3>3 DEF Refetch, Tell
    <3>4. CASE ~upload[t].some /\ UNCHANGED <<loading, owed>>
      BY <3>2, <3>4
    <3> QED
      BY <3>1, <3>3, <3>4
  <2>2. UNCHANGED <<kind, rows, covers, count, files, car, change, removal, shown,
                    overlapped, broken>>
    BY <1>4 DEF UploadFails, Elsewhere, server
  <2>3. upload' = [upload EXCEPT ![t] = NoUpload] /\ NoUpload.at # "read"
    BY <1>4 DEF UploadFails, NoUpload
  <2>4. t \in owed' => t \in loading' \/ shown[t] = "error"
    BY <1>1, <2>1 DEF GridInv
  <2> QED
    BY <2>1, <2>2, <2>3, <2>4, NoCalls, UploadMoves
<1>5. ASSUME NEW ok \in BOOLEAN, UploadSave(t, ok)
      PROVE  PhotosInv'
  <2>1. CASE car # "deleted" /\ upload[t].covers \subseteq rows /\ Store
    <3>1. UploadSucceeds(t, ok) /\ kind = "listing" /\ upload[t].at = "read"
      BY <1>5, <2>1 DEF UploadSave, UploadFails, Store, server, PhotosTypeOK, PhotosInv
    <3>2. UNCHANGED <<kind, car, removal, shown, broken>>
      BY <1>5, <2>1 DEF UploadSave, Elsewhere
    <3>3. covers' = IF upload[t].primary
                    THEN (covers \ upload[t].covers) \cup {count'} ELSE covers
      BY <1>5, <2>1 DEF UploadSave
    <3>4. rows' = rows \cup {count'} /\ covers' \subseteq rows'
      BY <1>1, <2>1, <3>3 DEF Store, PhotosTypeOK
    <3>5. SavedRight
      <4> SUFFICES ASSUME ~overlapped' PROVE OneCover'
        BY DEF SavedRight
      <4>1. ~overlapped /\ ~upload[t].stale
        BY <3>1 DEF UploadSucceeds
      <4>2. OneCover /\ IF upload[t].primary THEN upload[t].covers = covers ELSE rows # {}
        BY <1>1, <3>1, <4>1 DEF CoverInv, FreshUpload
      <4> QED
        BY <3>3, <3>4, <4>2 DEF OneCover
    <3> QED
      BY <2>1, <3>1, <3>2, <3>4, <3>5, UploadStores
  <2>2. CASE ~(car # "deleted" /\ upload[t].covers \subseteq rows /\ Store)
    BY <1>4, <1>5, <2>2 DEF UploadSave
  <2> QED
    BY <2>1, <2>2
<1>6. ASSUME NEW ok \in BOOLEAN, InspectionPhotoSave(t, ok)
      PROVE  PhotosInv'
  <2>1. UploadSucceeds(t, ok) /\ kind = "inspection" /\ Store /\ car = "booked"
    BY <1>6 DEF InspectionPhotoSave, PhotosInv, PhotosTyped
  <2>2. UNCHANGED <<kind, car, covers, removal, shown, broken>>
    BY <1>6 DEF InspectionPhotoSave, Elsewhere
  <2>3. covers' \subseteq rows' /\ covers' = {} /\ SavedRight
    BY <1>1, <2>1, <2>2 DEF PhotosTypeOK, SavedRight
  <2> QED
    BY <2>1, <2>2, <2>3, UploadStores
<1>7. CASE UploadRefused(t)
  BY <1>4, <1>7 DEF UploadRefused
<1> QED
  BY <1>2, <1>3, <1>5, <1>6, <1>7

LEMMA ChangeStep ==
    ASSUME PhotosInv, NEW t \in Grids,
           \/ \E p \in Photos : HandleSetCover(t, p) \/ HandleDelete(t, p)
           \/ \E ok \in BOOLEAN : CoverSave(t, ok) \/ DeleteSave(t, ok)
    PROVE  PhotosInv'
<1>1. /\ CallsTyped /\ PhotosTypeOK /\ GridInv /\ CoverInv /\ ListedIsStored
      /\ change[t] \in Change /\ covers \subseteq Photos /\ rows \subseteq Photos
      /\ 0 \in 0 .. MaxPhotos /\ Photos \subseteq 0 .. MaxPhotos
  BY PhotosAssumption DEF PhotosInv, PhotosTyped, CallsTyped, PhotosTypeOK, Photos, PhotosAssumption
<1>2. ASSUME NEW p \in Photos, HandleSetCover(t, p)
      PROVE  PhotosInv'
  <2> DEFINE f == [NoChange EXCEPT !.op = "cover", !.photo = p, !.covers = covers]
  <2>1. f \in Change /\ f.op = "cover" /\ f.covers = covers
    BY <1>1, NoCalls DEF Change, NoChange
  <2>2. kind = "listing" /\ change' = [change EXCEPT ![t] = f] /\ change[t] = NoChange
    BY <1>2 DEF HandleSetCover, Offered
  <2> HIDE DEF f
  <2>3. UNCHANGED <<kind, rows, covers, count, car, upload, removal, shown, loading,
                    overlapped, owed, files, broken>>
    BY <1>2 DEF HandleSetCover, Elsewhere, server, history
  <2>4. ListedIsStored'
    BY <1>1, <2>2, <2>3 DEF ListedIsStored, NoChange, CallsTyped
  <2> QED
    BY <1>1, <2>1, <2>2, <2>3, <2>4, ChangeMoves DEF PhotosTypeOK
<1>3. ASSUME NEW p \in Photos, HandleDelete(t, p)
      PROVE  PhotosInv'
  <2>1. PICK heir \in IF p \in covers /\ rows # {p} THEN rows \ {p} ELSE {0} :
          change' = [change EXCEPT ![t] = [NoChange EXCEPT !.op = "delete", !.photo = p,
                                                          !.heir = heir]]
    BY <1>3 DEF HandleDelete
  <2> DEFINE f == [NoChange EXCEPT !.op = "delete", !.photo = p, !.heir = heir]
  <2>2. 0 \notin Photos /\ heir \in 0 .. MaxPhotos /\ heir # p
    BY <1>1 DEF Photos
  <2>3. f \in Change /\ f.op = "delete" /\ f.heir = heir /\ f.photo = p
    BY <1>1, <2>2, NoCalls DEF Change, NoChange
  <2>4. change' = [change EXCEPT ![t] = f] /\ change[t] = NoChange /\ files' = files \ {p}
    BY <1>3, <2>1 DEF HandleDelete, Offered
  <2> HIDE DEF f
  <2>5. UNCHANGED <<kind, rows, covers, count, car, upload, removal, shown, loading,
                    overlapped, owed, broken>>
    BY <1>3 DEF HandleDelete, Elsewhere, history
  <2>6. ListedIsStored'
    <3>1. \A u \in Grids : change'[u] = IF u = t THEN f ELSE change[u]
      BY <1>1, <2>4 DEF CallsTyped
    <3>2. \A u \in Grids : change[u].op = "delete" => change'[u] = change[u]
      BY <2>4, <3>1 DEF NoChange
    <3>3. change'[t].op = "delete" /\ change'[t].photo = p
      BY <2>3, <3>1
    <3>4. rows' \ files' \subseteq (rows \ files) \cup {p}
      BY <2>4, <2>5
    <3> QED
      BY <1>1, <2>5, <3>2, <3>3, <3>4 DEF ListedIsStored
  <2>7. IF p \in covers THEN heir = 0 => rows = {p} ELSE heir = 0
    BY <1>1, <2>2 DEF Photos
  <2>8. kind = "inspection" => heir = 0
    BY <1>1 DEF PhotosTypeOK
  <2>9. broken' \subseteq rows
    BY <1>1, <2>5 DEF PhotosTypeOK
  <2> QED
    BY <2>2, <2>3, <2>4, <2>5, <2>6, <2>7, <2>8, <2>9, ChangeMoves
<1>4. ASSUME ChangeFails(t), Elsewhere, broken' \subseteq rows,
             broken \subseteq broken',
             change[t].op = "delete" => change[t].photo \in broken' \/ change[t].photo \notin rows
      PROVE  PhotosInv'
  <2>1. change' = [change EXCEPT ![t] = NoChange]
        /\ NoChange.op = "none" /\ NoChange.heir = 0
    BY <1>4 DEF ChangeFails, NoChange
  <2>2. UNCHANGED <<kind, rows, covers, count, car, upload, removal, shown, loading,
                    overlapped, owed, files>>
    BY <1>4 DEF ChangeFails, Elsewhere, server
  <2>3. \A u \in Grids : u # t => change'[u] = change[u]
    BY <1>1, <2>1 DEF CallsTyped
  <2>4. ListedIsStored'
    BY <1>1, <1>4, <2>2, <2>3 DEF ListedIsStored
  <2> QED
    BY <1>4, <2>1, <2>2, <2>4, NoCalls, ChangeMoves
<1>5. ASSUME NEW ok \in BOOLEAN, CoverSave(t, ok)
      PROVE  PhotosInv'
  <2>0. change[t].op = "cover" /\ UNCHANGED <<kind, removal, shown, broken>> /\ Elsewhere
    BY <1>5 DEF CoverSave, Elsewhere
  <2>1. CASE change[t].covers \cup {change[t].photo} \subseteq rows
    <3>1. /\ ChangeSucceeds(t, ok) /\ UNCHANGED <<rows, count, files, car>>
          /\ covers' = (covers \ change[t].covers) \cup {change[t].photo}
      BY <1>5, <2>1 DEF CoverSave
    <3>2. covers' \subseteq rows' /\ broken' = broken \cap rows' /\ kind = "listing"
      BY <1>1, <2>0, <2>1, <3>1 DEF PhotosTypeOK, CallsTyped
    <3>3. SavedRight
      <4> SUFFICES ASSUME ~overlapped' PROVE OneCover'
        BY DEF SavedRight
      <4>1. ~overlapped /\ ~change[t].stale
        BY <3>1 DEF ChangeSucceeds
      <4>2. change[t].covers = covers
        BY <1>1, <2>0, <3>2, <4>1 DEF CoverInv, FreshChange
      <4> QED
        BY <2>1, <3>1, <4>2 DEF OneCover
    <3> QED
      BY <2>0, <3>1, <3>2, <3>3, ChangeStores
  <2>2. CASE ~(change[t].covers \cup {change[t].photo} \subseteq rows)
    <3>1. ChangeFails(t)
      BY <1>5, <2>2 DEF CoverSave
    <3> QED
      BY <1>1, <1>4, <2>0, <3>1 DEF PhotosTypeOK
  <2> QED
    BY <2>1, <2>2
<1>6. ASSUME NEW ok \in BOOLEAN, DeleteSave(t, ok)
      PROVE  PhotosInv'
  <2> DEFINE p == change[t].photo
             heir == change[t].heir
  <2>0. change[t].op = "delete" /\ UNCHANGED <<kind, removal, shown>> /\ Elsewhere /\ heir # p
    BY <1>1, <1>6 DEF DeleteSave, Elsewhere, CallsTyped
  <2>1. CASE p \in rows /\ heir \in rows \cup {0}
    <3>1. /\ ChangeSucceeds(t, ok) /\ UNCHANGED <<count, files, car>>
          /\ rows' = rows \ {p} /\ covers' = (covers \ {p}) \cup ({heir} \ {0})
          /\ broken' = broken \ {p}
      BY <1>6, <2>1 DEF DeleteSave
    <3>2. covers' \subseteq rows' /\ broken' = broken \cap rows' /\ rows' \subseteq rows
      BY <1>1, <2>0, <2>1, <3>1 DEF PhotosTypeOK
    <3>3. kind = "inspection" => covers' = {}
      BY <1>1, <3>1 DEF PhotosTypeOK, CallsTyped
    <3>4. SavedRight
      <4> SUFFICES ASSUME kind = "listing", ~overlapped' PROVE OneCover'
        BY DEF SavedRight
      <4>1. ~overlapped /\ ~change[t].stale
        BY <3>1 DEF ChangeSucceeds
      <4>2. OneCover /\ IF p \in covers THEN heir = 0 => rows = {p} ELSE heir = 0
        BY <1>1, <2>0, <4>1 DEF CoverInv, FreshChange
      <4> QED
        BY <2>0, <2>1, <3>1, <4>2 DEF OneCover
    <3> QED
      BY <2>0, <3>1, <3>2, <3>3, <3>4, ChangeStores
  <2>2. CASE ~(p \in rows /\ heir \in rows \cup {0})
    <3>1. ChangeFails(t) /\ broken' = (broken \cup {p}) \cap rows
      BY <1>6, <2>2 DEF DeleteSave
    <3> QED
      BY <1>1, <1>4, <2>0, <3>1 DEF PhotosTypeOK
  <2> QED
    BY <2>1, <2>2
<1> QED
  BY <1>2, <1>3, <1>5, <1>6

LEMMA GridStep ==
    ASSUME PhotosInv, NEW t \in Grids, GridLanded(t) \/ GridFails(t) \/ RetryGrid(t)
    PROVE  PhotosInv'
<1>1. UNCHANGED <<kind, rows, covers, count, files, car, upload, change, removal,
                  overlapped, broken>>
  BY DEF GridLanded, GridFails, RetryGrid, server, history
<1>2. /\ shown' \in [Grids -> {"loading", "success", "error"}] /\ loading' \subseteq Grids
      /\ owed' \subseteq owed
      /\ \A u \in owed' : u \in loading' \/ shown'[u] = "error" \/ upload[u].some
  BY DEF PhotosInv, PhotosTyped, PhotosTypeOK, GridInv, GridLanded, GridFails, RetryGrid, history
<1>3. PhotosTyped'
  BY <1>1, <1>2 DEF PhotosInv, PhotosTyped, PhotosTypeOK, CallsTyped
<1>4. CoverInv' /\ ListedIsStored'
  BY <1>1 DEF PhotosInv, CoverInv, OneCover, FreshUpload, FreshChange, ListedIsStored
<1>5. GridInv'
  BY <1>1, <1>2 DEF PhotosInv, GridInv
<1> QED
  BY <1>3, <1>4, <1>5 DEF PhotosInv

LEMMA RemovalStep ==
    ASSUME PhotosInv, HandleRemove \/ RemovalSave \/ Book
    PROVE  PhotosInv'
<1>1. CallsTyped /\ PhotosTypeOK /\ GridInv /\ CoverInv /\ ListedIsStored /\ rows \subseteq Photos
  BY PhotosAssumption DEF PhotosInv, PhotosTyped, PhotosTypeOK, Photos, PhotosAssumption
<1>2. ASSUME UNCHANGED <<kind, rows, covers, upload, change, overlapped, shown, loading, owed>>
      PROVE  CallsTyped' /\ CoverInv' /\ GridInv'
  BY <1>1, <1>2 DEF CallsTyped, CoverInv, OneCover, FreshUpload, FreshChange, GridInv
<1>3. CASE HandleRemove
  <2>1. /\ UNCHANGED <<kind, rows, covers, count, car, upload, change, shown, loading,
                       overlapped, broken, owed>>
        /\ files' = files \ rows /\ removal' = [at |-> "read", photos |-> rows]
        /\ kind = "listing"
    BY <1>3 DEF HandleRemove, history
  <2>2. PhotosTyped'
    BY <1>1, <1>2, <2>1 DEF PhotosTyped, PhotosTypeOK
  <2>3. ListedIsStored'
    BY <2>1 DEF ListedIsStored
  <2> QED
    BY <1>2, <2>1, <2>2, <2>3 DEF PhotosInv
<1>4. CASE Book
  <2>1. /\ UNCHANGED <<kind, rows, covers, count, files, upload, change, removal, shown, loading,
                       overlapped, broken, owed>>
        /\ car = "free" /\ car' = "booked"
    BY <1>4 DEF Book, history
  <2>2. PhotosTyped'
    BY <1>1, <1>2, <2>1 DEF PhotosTyped, PhotosTypeOK
  <2>3. ListedIsStored'
    BY <1>1, <2>1 DEF ListedIsStored
  <2> QED
    BY <1>2, <2>1, <2>2, <2>3 DEF PhotosInv
<1>5. CASE RemovalSave
  <2>1. /\ UNCHANGED <<kind, count, shown, loading, overlapped, owed>>
        /\ removal.at = "read" /\ removal' = [at |-> "idle", photos |-> {}]
    BY <1>5 DEF RemovalSave
  <2>2. CASE car = "free" /\ removal.photos \subseteq rows
    <3>1. /\ car' = "deleted" /\ rows' = {} /\ covers' = {} /\ files' = {} /\ broken' = {}
          /\ upload' = OutdateUploads(Grids) /\ change' = OutdateChanges(Grids)
      BY <1>5, <2>2 DEF RemovalSave
    <3>2. ASSUME NEW u \in Grids
          PROVE  LET v == upload'[u] IN
                 /\ v \in Upload /\ v.at = upload[u].at /\ v.some = upload[u].some
                 /\ upload[u].at = "idle" => v = upload[u]
                 /\ v.at = "read" /\ kind = "listing" /\ ~overlapped => v.stale
      BY <1>1, <3>1, UploadsOutdated
    <3>3. ASSUME NEW u \in Grids
          PROVE  LET v == change'[u] IN
                 /\ v \in Change
                 /\ v.op = change[u].op /\ v.photo = change[u].photo
                 /\ v.covers = change[u].covers /\ v.heir = change[u].heir
                 /\ change[u].op = "none" => v = change[u]
                 /\ v.op # "none" /\ kind = "listing" /\ ~overlapped => v.stale
      BY <1>1, <3>1, ChangesOutdated
    <3>4. upload' = [u \in Grids |-> upload'[u]] /\ change' = [u \in Grids |-> change'[u]]
      BY <3>1 DEF OutdateUploads, OutdateChanges
    <3>5. CallsTyped'
      BY <1>1, <2>1, <3>2, <3>3, <3>4 DEF CallsTyped
    <3>6. kind = "listing"
      BY <2>2 DEF PhotosInv, PhotosTyped, PhotosTypeOK
    <3>7. PhotosTyped'
      BY <1>1, <2>1, <3>1, <3>5, <3>6 DEF PhotosTyped, PhotosTypeOK, CallsTyped
    <3>8. CoverInv'
      BY <2>1, <3>1, <3>2, <3>3 DEF CoverInv, OneCover, FreshUpload, FreshChange
    <3>9. GridInv'
      BY <1>1, <2>1, <3>2 DEF GridInv, PhotosTypeOK
    <3>10. ListedIsStored'
      BY <3>1 DEF ListedIsStored
    <3> QED
      BY <3>7, <3>8, <3>9, <3>10 DEF PhotosInv
  <2>3. CASE ~(car = "free" /\ removal.photos \subseteq rows)
    <3>1. /\ UNCHANGED <<car, rows, covers, files, upload, change>>
          /\ broken' = (broken \cup removal.photos) \cap rows
      BY <1>5, <2>3 DEF RemovalSave
    <3>2. CallsTyped' /\ CoverInv' /\ GridInv'
      BY <1>2, <2>1, <3>1
    <3>3. PhotosTyped'
      BY <1>1, <2>1, <3>1, <3>2 DEF PhotosInv, PhotosTyped, PhotosTypeOK
    <3>4. ListedIsStored'
      BY <1>1, <2>1, <3>1 DEF ListedIsStored
    <3> QED
      BY <3>2, <3>3, <3>4 DEF PhotosInv
  <2> QED
    BY <2>2, <2>3
<1> QED
  BY <1>3, <1>4, <1>5

LEMMA PhotosInvStep == PhotosInv /\ [PhotosNext]_photoVars => PhotosInv'
<1> SUFFICES ASSUME PhotosInv, [PhotosNext]_photoVars PROVE PhotosInv'
  OBVIOUS
<1>1. CASE UNCHANGED photoVars
  <2>1. UNCHANGED <<kind, rows, covers, count, files, car, upload, change, removal, shown,
                    loading, overlapped, broken, owed>>
    BY <1>1 DEF photoVars, server, history
  <2>2. PhotosTyped'
    BY <2>1 DEF PhotosInv, PhotosTyped, PhotosTypeOK, CallsTyped
  <2>3. CoverInv' /\ GridInv' /\ ListedIsStored'
    BY <2>1 DEF PhotosInv, CoverInv, OneCover, FreshUpload, FreshChange, GridInv, ListedIsStored
  <2> QED
    BY <2>2, <2>3 DEF PhotosInv
<1>2. CASE PhotosNext
  BY <1>2, UploadStep, ChangeStep, GridStep, RemovalStep DEF PhotosNext
<1> QED
  BY <1>1, <1>2

(* However many tabs upload to a listing, change its cover and delete from   *)
(* it, it has exactly one cover while it has photos, until a handler saves   *)
(* on reads that another has outdated.                                      *)
THEOREM ListingHasOneCover == PhotosSpec => []CoverStands
<1>1. PhotosInv => CoverStands
  BY FS_Singleton DEF PhotosInv, CoverInv, OneCover, CoverStands
<1> QED
  BY <1>1, PhotosInvInit, PhotosInvStep, PTL DEF PhotosSpec

(* A listed photo whose file is gone is one that some delete, of the photo   *)
(* or of its car, has under way or failed to save.                          *)
THEOREM PhotosAreStored == PhotosSpec => []ListedIsStored
<1>1. PhotosInv => ListedIsStored
  BY DEF PhotosInv
<1> QED
  BY <1>1, PhotosInvInit, PhotosInvStep, PTL DEF PhotosSpec

(* A grid whose user was told of a change, half a batch included, reads the  *)
(* photos again, says that it could not, or has requests under way.         *)
THEOREM GridsKeepUp == PhotosSpec => []GridKeepsUp
<1>1. PhotosInv => GridKeepsUp
  BY DEF PhotosInv, GridInv, GridKeepsUp, Quiet, NoUpload
<1> QED
  BY <1>1, PhotosInvInit, PhotosInvStep, PTL DEF PhotosSpec

-----------------------------------------------------------------------------
(*                                The wizard                                *)

Tab == [open: BOOLEAN, draft: Draft, step: 0 .. PhotosStep, creating: 0 .. Sending,
        sent: 0 .. Vehicles, created: 0 .. MaxCars, stranded: 0 .. MaxCars]

(* Vehicles are numbered as they are typed, a draft with a valid step has    *)
(* one, and a request carries its tab's.                                    *)
DraftTyped(draft) ==
    /\ draft \in Draft
    /\ draft.vehicle <= typed
    /\ draft.valid # {} => draft.vehicle # 0

TabTyped(t) ==
    /\ wizard[t].creating # 0 =>
         wizard[t].sent # 0 /\ wizard[t].sent = wizard[t].draft.vehicle
    /\ wizard[t].creating \in DOMAIN cars => cars[wizard[t].creating] = wizard[t].sent
    /\ wizard[t].creating \in DOMAIN cars \cup {0, Sending}
    /\ ~wizard[t].open \/ wizard[t].step = PhotosStep => wizard[t].creating = 0
    /\ DraftTyped(wizard[t].draft)

CarsTyped == 
    /\ cars \in [1 .. Cardinality(DOMAIN cars) -> 1 .. Vehicles]
    /\ Cardinality(DOMAIN cars) \in 0 .. MaxCars
    /\ \A c \in DOMAIN cars : cars[c] <= typed

WizardTyped ==
    /\ WizardTypeOK
    /\ CarsTyped
    /\ store.created \in DOMAIN cars \cup {0}
    /\ DraftTyped(store.draft)
    /\ \A t \in Wizards : TabTyped(t)

(* A listed vehicle whose draft did not outlive it has gone from every draft *)
(* but that of a tab that is still to be told of its car.                   *)
Pending(t, c) == wizard[t].creating = c
Dropped(v) ==
    /\ store.draft.vehicle # v
    /\ \A t \in Wizards : wizard[t].draft.vehicle # v
ListedInv ==
    \A c \in DOMAIN cars : cars[c] \notin shared =>
        /\ Dropped(cars[c]) \/ \E t \in Wizards : Pending(t, c)
        /\ \A d \in DOMAIN cars : cars[d] = cars[c] => d = c

WizardInv == WizardTyped /\ ListedInv /\ StrandedIsOffered

-----------------------------------------------------------------------------
LEMMA Empty ==
    /\ EmptyDraft \in Draft /\ EmptyDraft.vehicle = 0 /\ EmptyDraft.valid = {}
    /\ Closed \in Tab /\ Closed.draft = EmptyDraft /\ Closed.creating = 0 /\ Closed.sent = 0
    /\ 0 \in 0 .. MaxCars /\ PhotosStep \in 0 .. PhotosStep
<1> USE WizardAssumption DEF WizardAssumption
<1>1. EmptyDraft \in Draft /\ EmptyDraft.vehicle = 0 /\ EmptyDraft.valid = {}
  BY DEF EmptyDraft, Draft
<1>2. 0 \in 0 .. PhotosStep /\ 0 \in 0 .. Sending /\ 0 \in 0 .. Vehicles /\ 0 \in 0 .. MaxCars
  BY DEF PhotosStep, Sending
<1> QED
  BY <1>1, <1>2 DEF Closed, Tab, PhotosStep

(* The cars are 1 .. n. *)
LEMMA CarNumbers ==
    ASSUME CarsTyped
    PROVE  /\ DOMAIN cars = 1 .. Cardinality(DOMAIN cars)
           /\ DOMAIN cars \subseteq 1 .. MaxCars
           /\ 0 \notin DOMAIN cars /\ Sending \notin DOMAIN cars /\ Sending # 0
           /\ \A c \in DOMAIN cars : cars[c] \in 1 .. Vehicles /\ cars[c] # 0
BY WizardAssumption DEF CarsTyped, Sending, WizardAssumption

LEMMA WizardInvInit == WizardInit => WizardInv
<1> SUFFICES ASSUME WizardInit PROVE WizardInv
  OBVIOUS
<1>1. cars = <<>> /\ DOMAIN cars = {} /\ Cardinality(DOMAIN cars) = 0
  BY FS_EmptySet DEF WizardInit
<1>2. cars \in [1 .. 0 -> 1 .. Vehicles] /\ 0 \in 0 .. MaxCars
  BY <1>1, WizardAssumption DEF WizardAssumption
<1>3. store.draft = EmptyDraft /\ store.created = 0 /\ store \in [draft: Draft, created: 0 .. MaxCars]
  BY Empty DEF WizardInit
<1>4. \A t \in Wizards : wizard[t] = Closed
  BY DEF WizardInit
<1>5. DraftTyped(EmptyDraft)
  BY Empty DEF DraftTyped, WizardInit
<1>6. WizardTypeOK
  <2>1. wizard \in [Wizards -> Tab]
    BY Empty DEF WizardInit
  <2>2. typed \in 0 .. Vehicles
    BY WizardAssumption DEF WizardInit, WizardAssumption
  <2> QED
    BY <1>2, <1>3, <2>1, <2>2 DEF WizardTypeOK, WizardInit, Tab
<1>7. WizardTyped
  BY <1>1, <1>2, <1>3, <1>4, <1>5, <1>6, Empty DEF WizardTyped, CarsTyped, TabTyped
<1> QED
  BY <1>1, <1>7 DEF WizardInit, WizardInv, ListedInv, StrandedIsOffered

(* A wizard becomes f, and no car is created: it keeps its draft, or loses   *)
(* it, or has loaded what is stored.                                        *)
LEMMA TabMoves ==
    ASSUME WizardInv, NEW t \in Wizards, NEW f \in Tab,
           wizard' = [wizard EXCEPT ![t] = f],
           UNCHANGED <<cars, typed>>,
           store' \in [draft: Draft, created: 0 .. MaxCars],
           store'.draft = store.draft, store'.created \in DOMAIN cars \cup {0},
           unfinished' \subseteq DOMAIN cars, forgotten' \subseteq DOMAIN cars,
           StrandedIsOffered',
           shared \subseteq shared', shared' \subseteq 1 .. typed,
           f.creating # 0 => f.sent # 0 /\ f.sent = f.draft.vehicle,
           f.creating \in {0, Sending, wizard[t].creating},
           f.creating \in DOMAIN cars => f.sent = wizard[t].sent,
           ~f.open \/ f.step = PhotosStep => f.creating = 0,
           f.draft \in {EmptyDraft, store.draft, wizard[t].draft},
           wizard[t].creating \in DOMAIN cars =>
               f.creating = wizard[t].creating \/ wizard[t].sent \in shared'
    PROVE  WizardInv'
<1>1. WizardTypeOK /\ CarsTyped /\ TabTyped(t) /\ DraftTyped(store.draft)
  BY DEF WizardInv, WizardTyped
<1>2. wizard \in [Wizards -> Tab] /\ \A u \in Wizards : wizard'[u] = IF u = t THEN f ELSE wizard[u]
  BY <1>1 DEF WizardTypeOK, Tab
<1>3. DraftTyped(EmptyDraft)
  BY <1>1, Empty DEF DraftTyped, WizardTypeOK
<1>4. DraftTyped(f.draft)
  BY <1>1, <1>3 DEF TabTyped
<1>5. WizardTypeOK' /\ CarsTyped'
  BY <1>1, <1>2 DEF WizardTypeOK, CarsTyped, Tab
<1>6. TabTyped(t)'
  <2>1. wizard'[t] = f
    BY <1>2
  <2>2. DraftTyped(f.draft)' /\ f.creating \in DOMAIN cars \cup {0, Sending}
    BY <1>1, <1>4 DEF DraftTyped, TabTyped
  <2>3. f.creating \in DOMAIN cars => cars[f.creating] = f.sent
    BY <1>1, CarNumbers DEF TabTyped
  <2> QED
    BY <2>1, <2>2, <2>3 DEF TabTyped, DraftTyped
<1>7. WizardTyped'
  BY <1>2, <1>5, <1>6 DEF WizardInv, WizardTyped, TabTyped, DraftTyped
<1>8. ListedInv'
  <2> SUFFICES ASSUME NEW c \in DOMAIN cars, cars[c] \notin shared'
               PROVE  /\ Dropped(cars[c])' \/ \E u \in Wizards : Pending(u, c)'
                      /\ \A d \in DOMAIN cars : cars[d] = cars[c] => d = c
    BY DEF ListedInv, Dropped, Pending
  <2>1. /\ Dropped(cars[c]) \/ \E u \in Wizards : Pending(u, c)
        /\ \A d \in DOMAIN cars : cars[d] = cars[c] => d = c
    BY DEF WizardInv, ListedInv
  <2>2. CASE Dropped(cars[c])
    <3>1. f.draft.vehicle # cars[c] /\ store'.draft.vehicle # cars[c]
      BY <1>1, <2>2, Empty, CarNumbers DEF Dropped
    <3>2. \A u \in Wizards : wizard'[u].draft.vehicle # cars[c]
      BY <1>2, <2>2, <3>1 DEF Dropped
    <3>3. Dropped(cars[c])'
      BY <3>1, <3>2 DEF Dropped
    <3> QED
      BY <2>1, <3>3
  <2>3. CASE \E u \in Wizards : Pending(u, c)
    <3>1. PICK u \in Wizards : wizard[u].creating = c
      BY <2>3 DEF Pending
    <3>2. u = t => cars[c] = wizard[t].sent
      BY <1>1, <3>1 DEF TabTyped
    <3>3. wizard'[u].creating = c
      BY <1>2, <3>1, <3>2
    <3> QED
      BY <2>1, <3>3 DEF Pending
  <2> QED
    BY <2>1, <2>2, <2>3
<1> QED
  BY <1>7, <1>8 DEF WizardInv

(* The common case: nothing is stored. *)
LEMMA TabSteps ==
    ASSUME WizardInv, NEW t \in Wizards, NEW f \in Tab,
           wizard' = [wizard EXCEPT ![t] = f],
           UNCHANGED <<store, cars, typed, unfinished, forgotten>>,
           shared' \in {shared, shared \cup {wizard[t].sent}},
           wizard[t].creating \in DOMAIN cars =>
               f.creating = wizard[t].creating \/ wizard[t].sent \in shared',
           shared' # shared => wizard[t].creating \in DOMAIN cars,
           f.creating # 0 => f.sent # 0 /\ f.sent = f.draft.vehicle,
           f.creating \in {0, Sending, wizard[t].creating},
           f.creating \in DOMAIN cars => f.sent = wizard[t].sent,
           ~f.open \/ f.step = PhotosStep => f.creating = 0,
           f.draft \in {EmptyDraft, store.draft, wizard[t].draft}
    PROVE  WizardInv'
<1>1. WizardTypeOK /\ CarsTyped /\ TabTyped(t) /\ store.created \in DOMAIN cars \cup {0}
  BY DEF WizardInv, WizardTyped
<1>2. shared' \subseteq 1 .. typed
  <2>1. wizard[t].creating \in DOMAIN cars => wizard[t].sent \in 1 .. typed
    BY <1>1, CarNumbers DEF TabTyped, CarsTyped, WizardTypeOK
  <2>2. shared \subseteq 1 .. typed
    BY <1>1 DEF WizardTypeOK
  <2> QED
    BY <2>1, <2>2
<1>3. StrandedIsOffered'
  BY DEF WizardInv, StrandedIsOffered
<1>4. shared \subseteq shared'
  OBVIOUS
<1>5. /\ store' \in [draft: Draft, created: 0 .. MaxCars]
      /\ store'.draft = store.draft /\ store'.created \in DOMAIN cars \cup {0}
      /\ unfinished' \subseteq DOMAIN cars /\ forgotten' \subseteq DOMAIN cars
  BY <1>1 DEF WizardTypeOK
<1> QED
  BY <1>2, <1>3, <1>4, <1>5, TabMoves

LEMMA LeastOf ==
    ASSUME NEW T, T \subseteq Nat, T # {}
    PROVE  \E x \in T : \A y \in T : x <= y
<1> DEFINE R == OpToRel(<, Nat)
<1>1. IsWellFoundedOn(R, Nat)
  BY NatLessThanWellFounded
<1> HIDE DEF R
<1>2. PICK x \in T : \A y \in T : <<y, x>> \notin R
  BY <1>1, WFMin
<1>3. \A y \in T : x \in Nat /\ y \in Nat /\ (y < x => <<y, x>> \in R)
  BY DEF R, OpToRel
<1>4. \A y \in T : x <= y
  <2> TAKE y \in T
  <2>1. ~(y < x)
    BY <1>2, <1>3
  <2> QED
    BY <1>3, <2>1
<1> QED
  BY <1>4

LEMMA SetFieldStep ==
    ASSUME WizardInv, NEW t \in Wizards, NEW valid \in BOOLEAN, SetField(t, valid)
    PROVE  WizardInv'
<1> DEFINE draft == wizard[t].draft
           next == Typed(draft, wizard[t].step, valid)
<1>1. WizardTypeOK /\ CarsTyped /\ TabTyped(t) /\ DraftTyped(draft) /\ wizard \in [Wizards -> Tab]
  BY DEF WizardInv, WizardTyped, TabTyped, WizardTypeOK, Tab
<1>2. /\ next.vehicle <= Vehicles /\ wizard[t].step < PhotosStep
      /\ typed' = (IF next.vehicle > typed THEN next.vehicle ELSE typed)
      /\ wizard' = [wizard EXCEPT ![t].draft = next]
      /\ \E d \in {next, store.draft} : store' = [store EXCEPT !.draft = d]
      /\ UNCHANGED <<cars, shared, unfinished, forgotten>>
  BY DEF SetField, SetItem, histories
<1>3. /\ typed \in 0 .. Vehicles /\ draft.vehicle \in 0 .. Vehicles /\ draft.vehicle <= typed
      /\ draft.valid \subseteq InputStep /\ wizard[t].step \in InputStep
      /\ InputSteps \in Nat /\ Vehicles \in Nat
  <2>1. wizard[t].step \in 0 .. PhotosStep /\ InputSteps \in Nat /\ Vehicles \in Nat
    BY <1>1, WizardAssumption DEF Tab, WizardAssumption
  <2>2. wizard[t].step \in InputStep
    BY <1>2, <2>1 DEF InputStep, PhotosStep
  <2> QED
    BY <1>1, <2>1, <2>2 DEF WizardTypeOK, DraftTyped, Draft
<1>4. /\ next.vehicle = (IF draft.vehicle = 0 THEN typed + 1 ELSE draft.vehicle)
      /\ next.valid \subseteq InputStep
      /\ next = [vehicle |-> next.vehicle, valid |-> next.valid]
  BY <1>3 DEF Typed
<1> HIDE DEF next
<1>5. /\ next \in Draft /\ next.vehicle # 0
      /\ typed' \in 0 .. Vehicles /\ typed <= typed' /\ next.vehicle <= typed'
      /\ next.vehicle \in {draft.vehicle, typed + 1} /\ next.vehicle \in 0 .. Vehicles
  <2>1. next.vehicle \in 0 .. Vehicles /\ next.vehicle # 0
    BY <1>2, <1>3, <1>4
  <2>2. next \in Draft
    BY <1>4, <2>1 DEF Draft
  <2> QED
    BY <1>2, <1>3, <1>4, <2>1, <2>2
<1>6. /\ wizard' \in [Wizards -> Tab]
      /\ \A u \in Wizards : /\ wizard'[u].creating = wizard[u].creating
                            /\ wizard'[u].step = wizard[u].step
                            /\ wizard'[u].open = wizard[u].open
                            /\ wizard'[u].sent = wizard[u].sent
                            /\ wizard'[u].draft = IF u = t THEN next ELSE wizard[u].draft
  BY <1>1, <1>2, <1>5 DEF Tab
<1>7. /\ store' \in [draft: Draft, created: 0 .. MaxCars]
      /\ store'.draft \in {next, store.draft} /\ store'.created = store.created
  BY <1>1, <1>2, <1>5 DEF WizardTypeOK
<1>8. WizardTypeOK' /\ CarsTyped'
  <2>1. shared' \subseteq 1 .. typed'
    BY <1>1, <1>2, <1>3, <1>5 DEF WizardTypeOK
  <2>2. \A c \in DOMAIN cars : cars[c] <= typed'
    BY <1>1, <1>3, <1>5 DEF CarsTyped
  <2> QED
    BY <1>1, <1>2, <1>5, <1>6, <1>7, <2>1, <2>2 DEF WizardTypeOK, CarsTyped, Tab
<1>9. ASSUME NEW d \in Draft, DraftTyped(d)
      PROVE  d.vehicle <= typed' /\ (d.valid # {} => d.vehicle # 0)
  <2>1. d.vehicle \in 0 .. Vehicles
    BY DEF Draft
  <2> QED
    BY <1>3, <1>5, <1>9, <2>1 DEF DraftTyped
<1>10. ASSUME NEW u \in Wizards
       PROVE  TabTyped(u)'
  <2>1. TabTyped(u) /\ wizard[u].draft \in Draft
    BY <1>1 DEF WizardInv, WizardTyped, Tab
  <2>2. wizard'[u].draft.vehicle <= typed' /\ wizard'[u].draft \in Draft
        /\ (wizard'[u].draft.valid # {} => wizard'[u].draft.vehicle # 0)
    BY <1>5, <1>6, <1>9, <2>1 DEF TabTyped
  <2>3. wizard[u].creating # 0 => wizard'[u].draft.vehicle = wizard[u].draft.vehicle
    BY <1>4, <1>6, <2>1 DEF TabTyped
  <2>4. UNCHANGED cars
    BY <1>2
  <2> QED
    BY <1>6, <2>1, <2>2, <2>3, <2>4 DEF TabTyped, DraftTyped
<1>11. WizardTyped'
  <2>1. DraftTyped(store.draft) /\ store.draft \in Draft
    BY DEF WizardInv, WizardTyped, DraftTyped
  <2>2. DraftTyped(store.draft)'
    BY <1>5, <1>7, <1>9, <2>1 DEF DraftTyped
  <2> QED
    BY <1>2, <1>7, <1>8, <1>10, <2>2 DEF WizardInv, WizardTyped
<1>12. ListedInv'
  <2> SUFFICES ASSUME NEW c \in DOMAIN cars, cars[c] \notin shared
               PROVE  /\ Dropped(cars[c])' \/ \E u \in Wizards : Pending(u, c)'
                      /\ \A d \in DOMAIN cars : cars[d] = cars[c] => d = c
    BY <1>2 DEF ListedInv, Dropped, Pending
  <2>1. /\ Dropped(cars[c]) \/ \E u \in Wizards : Pending(u, c)
        /\ \A d \in DOMAIN cars : cars[d] = cars[c] => d = c
    BY DEF WizardInv, ListedInv
  <2>2. CASE Dropped(cars[c])
    <3>1. cars[c] # typed + 1
      BY <1>1, <1>3, CarNumbers DEF CarsTyped
    <3>2. next.vehicle # cars[c]
      BY <1>5, <2>2, <3>1 DEF Dropped
    <3> QED
      BY <1>2, <1>6, <1>7, <2>1, <2>2, <3>2 DEF Dropped
  <2>3. CASE \E u \in Wizards : Pending(u, c)
    BY <1>6, <2>1, <2>3 DEF Pending
  <2> QED
    BY <2>1, <2>2, <2>3
<1>13. StrandedIsOffered'
  BY <1>2, <1>7 DEF WizardInv, StrandedIsOffered
<1> QED
  BY <1>11, <1>12, <1>13 DEF WizardInv

LEMMA CreateCarStep ==
    ASSUME WizardInv, NEW t \in Wizards, CreateCar(t)
    PROVE  WizardInv'
<1> DEFINE n == Cardinality(DOMAIN cars)
           v == wizard[t].sent
<1>1. /\ WizardTypeOK /\ CarsTyped /\ TabTyped(t) /\ wizard \in [Wizards -> Tab]
      /\ n \in Nat /\ MaxCars \in Nat /\ n < MaxCars /\ DOMAIN cars = 1 .. n
      /\ n + 1 \notin DOMAIN cars
  <2>1. WizardTypeOK /\ CarsTyped /\ TabTyped(t)
    BY DEF WizardInv, WizardTyped
  <2>2. wizard \in [Wizards -> Tab]
    BY <2>1 DEF WizardTypeOK, Tab
  <2>3. DOMAIN cars = 1 .. n
    BY <2>1, CarNumbers
  <2>4. MaxCars \in Nat
    BY WizardAssumption DEF WizardAssumption
  <2>5. n \in Nat
    BY <2>1, <2>4 DEF CarsTyped
  <2>6. n < MaxCars
    BY DEF CreateCar
  <2> HIDE DEF n
  <2> QED
    BY <2>1, <2>2, <2>3, <2>4, <2>5, <2>6
<1>2. /\ wizard[t].creating = Sending
      /\ cars' = [c \in 1 .. n + 1 |-> IF c = n + 1 THEN v ELSE cars[c]]
      /\ wizard' = [wizard EXCEPT ![t].creating = n + 1]
      /\ UNCHANGED <<store, typed, unfinished, forgotten>>
  BY DEF CreateCar
<1>3. v # 0 /\ v = wizard[t].draft.vehicle /\ v <= typed /\ v \in 1 .. Vehicles /\ v \in 1 .. typed
  <2>1. v # 0 /\ v = wizard[t].draft.vehicle
    BY <1>1, <1>2, CarNumbers DEF TabTyped
  <2>2. v <= typed
    BY <1>1, <2>1 DEF TabTyped, DraftTyped
  <2>3. v \in 0 .. Vehicles /\ typed \in 0 .. Vehicles
    BY <1>1 DEF Tab, WizardTypeOK
  <2> QED
    BY <2>1, <2>2, <2>3
<1>4. /\ DOMAIN cars' = 1 .. n + 1 /\ Cardinality(DOMAIN cars') = n + 1 /\ n + 1 \in 0 .. MaxCars
      /\ cars' \in [1 .. n + 1 -> 1 .. Vehicles]
      /\ cars'[n + 1] = v /\ \A c \in DOMAIN cars : cars'[c] = cars[c] /\ c \in DOMAIN cars'
  <2>1. Cardinality(1 .. n + 1) = n + 1
    BY <1>1, FS_Interval
  <2>2. DOMAIN cars' = 1 .. n + 1
    BY <1>2
  <2>3. \A c \in 1 .. n + 1 : c = n + 1 \/ c \in DOMAIN cars
    BY <1>1
  <2> QED
    BY <1>1, <1>2, <1>3, <2>1, <2>2, <2>3, CarNumbers
<1>5. /\ wizard' \in [Wizards -> Tab]
      /\ \A u \in Wizards : /\ wizard'[u].creating = IF u = t THEN n + 1 ELSE wizard[u].creating
                            /\ wizard'[u].step = wizard[u].step
                            /\ wizard'[u].open = wizard[u].open
                            /\ wizard'[u].sent = wizard[u].sent
                            /\ wizard'[u].draft = wizard[u].draft
  <2>1. n + 1 \in 0 .. Sending
    BY <1>1 DEF Sending
  <2> QED
    BY <1>1, <1>2, <2>1 DEF Tab
<1> HIDE DEF n, v
<1>6. /\ shared \subseteq shared' /\ shared' \subseteq 1 .. typed
      /\ \A u \in Wizards : u # t /\ wizard[u].draft.vehicle = v => v \in shared'
  <2>1. shared' = shared \cup ({v} \cap {wizard[u].draft.vehicle : u \in Wizards \ {t}})
    BY DEF CreateCar, HeldElsewhere, v
  <2> QED
    BY <1>1, <1>3, <2>1 DEF WizardTypeOK
<1>7. WizardTypeOK' /\ CarsTyped'
  <2>1. CarsTyped'
    BY <1>1, <1>2, <1>3, <1>4 DEF CarsTyped
  <2>2. \E m \in 0 .. MaxCars : cars' \in [1 .. m -> 1 .. Vehicles]
    BY <1>4
  <2> QED
    BY <1>1, <1>2, <1>4, <1>5, <1>6, <2>1, <2>2 DEF WizardTypeOK, Tab
<1>8. ASSUME NEW u \in Wizards
      PROVE  TabTyped(u)'
  <2>1. TabTyped(u)
    BY DEF WizardInv, WizardTyped
  <2>2. DraftTyped(wizard[u].draft)'
    BY <1>2, <1>5, <2>1 DEF TabTyped, DraftTyped
  <2>3. CASE u = t
    <3>1. wizard[u].open /\ wizard[u].step # PhotosStep
      BY <1>1, <1>2, <2>1, <2>3, CarNumbers DEF TabTyped
    <3>2. UNCHANGED PhotosStep
      BY DEF PhotosStep
    <3> QED
      BY <1>1, <1>3, <1>4, <1>5, <2>2, <2>3, <3>1, <3>2 DEF TabTyped, v
  <2>4. CASE u # t
    <3>1. Sending \notin DOMAIN cars' /\ 0 \notin DOMAIN cars'
      BY <1>1, <1>4 DEF Sending
    <3>2. wizard'[u].creating \in DOMAIN cars' => wizard'[u].creating \in DOMAIN cars
      BY <1>5, <2>1, <2>4, <3>1 DEF TabTyped
    <3>3. UNCHANGED Sending
      BY DEF Sending
    <3> QED
      BY <1>4, <1>5, <2>1, <2>2, <2>4, <3>2, <3>3 DEF TabTyped
  <2> QED
    BY <2>3, <2>4
<1>9. WizardTyped'
  BY <1>2, <1>4, <1>7, <1>8 DEF WizardInv, WizardTyped, DraftTyped
<1>10. ListedInv'
  <2> SUFFICES ASSUME NEW c \in DOMAIN cars', NEW w, w = cars'[c], w \notin shared'
               PROVE  /\ Dropped(w)' \/ \E u \in Wizards : Pending(u, c)'
                      /\ \A d \in DOMAIN cars' : cars'[d] = w => d = c
    BY DEF ListedInv, Dropped, Pending
  <2>1. ASSUME NEW e \in DOMAIN cars, cars[e] \notin shared'
        PROVE  /\ Dropped(cars[e]) \/ \E u \in Wizards : Pending(u, e)
               /\ \A d \in DOMAIN cars : cars[d] = cars[e] => d = e
               /\ cars[e] # v
    <3>1. /\ Dropped(cars[e]) \/ \E u \in Wizards : Pending(u, e)
          /\ \A d \in DOMAIN cars : cars[d] = cars[e] => d = e
      BY <1>6, <2>1 DEF WizardInv, ListedInv
    <3>2. CASE Dropped(cars[e])
      BY <1>3, <3>1, <3>2 DEF Dropped
    <3>3. ASSUME NEW u \in Wizards, wizard[u].creating = e
          PROVE  cars[e] # v
      <4>1. TabTyped(u) /\ u # t
        BY <1>1, <1>2, <3>3, CarNumbers DEF WizardInv, WizardTyped
      <4>2. cars[e] = wizard[u].draft.vehicle
        BY <1>1, <3>3, <4>1, CarNumbers DEF TabTyped
      <4> QED
        BY <1>6, <2>1, <4>1, <4>2
    <3> QED
      BY <3>1, <3>2, <3>3 DEF Pending
  <2>2. \A d \in DOMAIN cars' : d = n + 1 \/ d \in DOMAIN cars
    BY <1>1, <1>4 DEF n
  <2>3. CASE c = n + 1
    <3>1. Pending(t, c)'
      BY <1>5, <2>3 DEF Pending
    <3>2. \A d \in DOMAIN cars : cars[d] # v
      BY <1>4, <2>1, <2>3
    <3> QED
      BY <1>4, <2>2, <2>3, <3>1, <3>2
  <2>4. CASE c \in DOMAIN cars
    <3>1. Dropped(w)' \/ \E u \in Wizards : Pending(u, c)'
      <4>1. Dropped(w) => Dropped(w)'
        BY <1>2, <1>4, <1>5, <2>4 DEF Dropped
      <4>2. ASSUME NEW u \in Wizards, Pending(u, c) PROVE Pending(u, c)'
        BY <1>1, <1>2, <1>5, <2>4, <4>2, CarNumbers DEF Pending
      <4> QED
        BY <1>4, <2>1, <2>4, <4>1, <4>2
    <3> QED
      BY <1>4, <2>1, <2>2, <2>4, <3>1 DEF Dropped
  <2> QED
    BY <2>2, <2>3, <2>4
<1>11. StrandedIsOffered'
  BY <1>2 DEF WizardInv, StrandedIsOffered
<1> QED
  BY <1>9, <1>10, <1>11 DEF WizardInv

LEMMA CreatedStep ==
    ASSUME WizardInv, NEW t \in Wizards, Created(t)
    PROVE  WizardInv'
<1> DEFINE new == wizard[t].creating
           v == wizard[t].sent
           f == [Closed EXCEPT !.open = TRUE, !.created = new, !.step = PhotosStep]
<1>1. /\ WizardTypeOK /\ CarsTyped /\ TabTyped(t) /\ wizard \in [Wizards -> Tab]
      /\ new \in DOMAIN cars /\ new \in 0 .. MaxCars /\ cars[new] = v
      /\ v \in 1 .. typed /\ store.created \in DOMAIN cars \cup {0}
  <2>1. /\ WizardTypeOK /\ CarsTyped /\ TabTyped(t) /\ wizard \in [Wizards -> Tab]
        /\ new \in DOMAIN cars /\ store.created \in DOMAIN cars \cup {0}
    BY DEF WizardInv, WizardTyped, WizardTypeOK, Tab, Created
  <2>2. cars[new] = v /\ new \in 0 .. MaxCars
    BY <2>1, CarNumbers DEF TabTyped
  <2>3. v \in 1 .. typed
    BY <2>1, <2>2, CarNumbers DEF CarsTyped, WizardTypeOK
  <2> QED
    BY <2>1, <2>2, <2>3
<1>2. /\ \E d \in {EmptyDraft, store.draft}, c \in {new, store.created} :
             store' = [draft |-> d, created |-> c]
      /\ wizard' = [wizard EXCEPT ![t] = f]
      /\ unfinished' = unfinished \cup {new}
      /\ forgotten' = forgotten \cup ({store.created, new} \ {0, store'.created})
      /\ UNCHANGED <<cars, typed>>
  BY DEF Created, SetItem
<1>3. f \in Tab /\ f.draft = EmptyDraft /\ f.creating = 0
  BY <1>1, Empty DEF Tab
<1> HIDE DEF f
<1>4. /\ shared \subseteq shared' /\ shared' \subseteq 1 .. typed
      /\ \A u \in Wizards : u # t /\ wizard[u].draft.vehicle = v => v \in shared'
      /\ store'.draft.vehicle = v => v \in shared'
  <2>1. shared' = shared \cup ({v} \cap ({wizard[u].draft.vehicle : u \in Wizards \ {t}}
                                       \cup {store'.draft.vehicle}))
    BY DEF Created, HeldElsewhere
  <2> QED
    BY <1>1, <2>1 DEF WizardTypeOK
<1>5. /\ wizard' \in [Wizards -> Tab]
      /\ \A u \in Wizards : wizard'[u] = IF u = t THEN f ELSE wizard[u]
  BY <1>1, <1>2, <1>3
<1>6. WizardTypeOK' /\ CarsTyped'
  <2>1. store' \in [draft: Draft, created: 0 .. MaxCars]
    BY <1>1, <1>2, Empty DEF WizardTypeOK
  <2>2. unfinished' \subseteq DOMAIN cars /\ forgotten' \subseteq DOMAIN cars
    BY <1>1, <1>2 DEF WizardTypeOK
  <2>3. CarsTyped'
    BY <1>1, <1>2 DEF CarsTyped
  <2> QED
    BY <1>1, <1>2, <1>4, <1>5, <2>1, <2>2, <2>3 DEF WizardTypeOK, Tab
<1>7. DraftTyped(EmptyDraft)
  BY <1>1, Empty DEF DraftTyped, WizardTypeOK
<1>8. WizardTyped'
  <2>0. DraftTyped(store.draft)
    BY DEF WizardInv, WizardTyped
  <2>1. DraftTyped(store.draft)' /\ store'.created \in DOMAIN cars \cup {0}
    BY <1>1, <1>2, <1>7, <2>0 DEF DraftTyped
  <2>2. ASSUME NEW u \in Wizards
        PROVE  TabTyped(u)'
    BY <1>2, <1>3, <1>5, <1>7, CarNumbers, <1>1 DEF WizardInv, WizardTyped, TabTyped, DraftTyped
  <2> QED
    BY <1>2, <1>6, <2>1, <2>2 DEF WizardTyped
<1>9. ListedInv'
  <2> SUFFICES ASSUME NEW c \in DOMAIN cars, cars[c] \notin shared'
               PROVE  /\ Dropped(cars[c])' \/ \E u \in Wizards : Pending(u, c)'
                      /\ \A d \in DOMAIN cars : cars[d] = cars[c] => d = c
    BY <1>2 DEF ListedInv, Dropped, Pending
  <2>1. /\ Dropped(cars[c]) \/ \E u \in Wizards : Pending(u, c)
        /\ \A d \in DOMAIN cars : cars[d] = cars[c] => d = c
    BY <1>4 DEF WizardInv, ListedInv
  <2>2. cars[c] # 0
    BY <1>1, CarNumbers
  <2>3. CASE /\ \A u \in Wizards : u # t => wizard[u].draft.vehicle # cars[c]
             /\ store'.draft.vehicle # cars[c]
    <3>1. \A u \in Wizards : wizard'[u].draft.vehicle # cars[c]
      BY <1>3, <1>5, <2>2, <2>3, Empty
    <3>2. Dropped(cars[c])'
      BY <1>2, <2>3, <3>1 DEF Dropped
    <3> QED
      BY <2>1, <3>2
  <2>4. ASSUME NEW u \in Wizards, wizard[u].creating = c, u # t
        PROVE  Pending(u, c)'
    BY <1>5, <2>4 DEF Pending
  <2>5. CASE c = new
    BY <1>1, <1>4, <2>3, <2>5
  <2>6. CASE Dropped(cars[c])
    <3>1. store'.draft.vehicle # cars[c]
      BY <1>2, <2>2, <2>6, Empty DEF Dropped
    <3> QED
      BY <2>3, <2>6, <3>1 DEF Dropped
  <2> QED
    BY <2>1, <2>4, <2>5, <2>6 DEF Pending
<1>10. StrandedIsOffered'
  <2> SUFFICES ASSUME NEW c \in unfinished' \ forgotten'
               PROVE  store'.created = c
    BY DEF StrandedIsOffered
  <2>1. c # 0 /\ c \notin forgotten /\ (c = new \/ c \in unfinished)
    BY <1>1, <1>2, CarNumbers DEF WizardTypeOK
  <2>2. c \in {store.created, new}
    BY <2>1 DEF WizardInv, StrandedIsOffered
  <2> QED
    BY <1>2, <2>1, <2>2
<1> QED
  BY <1>8, <1>9, <1>10 DEF WizardInv

(* Whichever car is remembered, forgetting it keeps the account. *)
LEMMA ForgetAccounts ==
    ASSUME WizardInv, NEW seen, Forget(seen), UNCHANGED cars
    PROVE  /\ store' \in [draft: Draft, created: 0 .. MaxCars]
           /\ store'.draft = store.draft /\ store'.created \in DOMAIN cars \cup {0}
           /\ unfinished' \subseteq DOMAIN cars /\ forgotten' \subseteq DOMAIN cars
           /\ StrandedIsOffered'
<1>1. /\ WizardTypeOK /\ CarsTyped /\ store.created \in DOMAIN cars \cup {0}
      /\ 0 \notin DOMAIN cars
  BY CarNumbers DEF WizardInv, WizardTyped
<1>2. /\ \E c \in {0, store.created} : store' = [store EXCEPT !.created = c]
      /\ unfinished' = unfinished \ seen
      /\ forgotten' = forgotten \cup ({store.created} \ (seen \cup {0, store'.created}))
  BY DEF Forget, SetItem
<1>3. StrandedIsOffered'
  BY <1>1, <1>2 DEF WizardInv, WizardTypeOK, StrandedIsOffered
<1> QED
  BY <1>1, <1>2, <1>3, Empty DEF WizardTypeOK

LEMMA WizardInvStep == WizardInv /\ [WizardNext]_wizardVars => WizardInv'
<1> SUFFICES ASSUME WizardInv, [WizardNext]_wizardVars PROVE WizardInv'
  OBVIOUS
<1>1. CASE UNCHANGED wizardVars
  BY <1>1 DEF wizardVars, WizardInv, WizardTyped, WizardTypeOK, CarsTyped, TabTyped, DraftTyped,
              ListedInv, Dropped, Pending, StrandedIsOffered
<1>2. /\ WizardTypeOK /\ CarsTyped /\ wizard \in [Wizards -> Tab]
      /\ InputSteps \in Nat \ {0} /\ PhotosStep = InputSteps
  BY WizardAssumption DEF WizardInv, WizardTyped, WizardTypeOK, Tab, WizardAssumption, PhotosStep
<1>3. ASSUME NEW t \in Wizards
      PROVE  /\ TabTyped(t) /\ wizard[t] \in Tab
             /\ wizard[t].creating \in DOMAIN cars => wizard[t].creating # Sending
  BY <1>2, CarNumbers DEF WizardInv, WizardTyped
<1>4. ASSUME NEW t \in Wizards, NEW s \in 0 .. PhotosStep,
             s = PhotosStep => wizard[t].creating = 0,
             wizard[t].open \/ wizard[t].creating = 0,
             wizard' = [wizard EXCEPT ![t].step = s],
             UNCHANGED <<store, cars, typed, histories>>
      PROVE  WizardInv'
  <2> DEFINE f == [wizard[t] EXCEPT !.step = s]
  <2>1. /\ f \in Tab /\ f.creating = wizard[t].creating /\ f.sent = wizard[t].sent
        /\ f.draft = wizard[t].draft /\ f.step = s /\ f.open = wizard[t].open
    BY <1>3 DEF Tab
  <2>2. wizard' = [wizard EXCEPT ![t] = f]
    BY <1>4
  <2>3. UNCHANGED <<store, cars, typed, shared, unfinished, forgotten>>
    BY <1>4 DEF histories
  <2> HIDE DEF f
  <2>4. ~f.open \/ f.step = PhotosStep => f.creating = 0
    BY <1>4, <2>1
  <2>5. /\ f.creating # 0 => f.sent # 0 /\ f.sent = f.draft.vehicle
    BY <1>3, <2>1 DEF TabTyped
  <2> QED
    BY <2>1, <2>2, <2>3, <2>4, <2>5, TabSteps
<1>5. ASSUME NEW t \in Wizards, OpenWizard(t)
      PROVE  WizardInv'
  <2>0. PICK d \in {EmptyDraft, store.draft}, c \in {0, store.created} :
            /\ wizard' = [wizard EXCEPT ![t] = [Closed EXCEPT !.open = TRUE, !.draft = d,
                                                              !.stranded = c]]
            /\ UNCHANGED <<store, cars, typed, histories>>
    BY <1>5 DEF OpenWizard, GetItem
  <2> DEFINE f == [Closed EXCEPT !.open = TRUE, !.draft = d, !.stranded = c]
  <2>1. f \in Tab /\ f.creating = 0 /\ f.draft \in {EmptyDraft, store.draft}
    BY <1>2, Empty DEF Tab, WizardTypeOK
  <2>2. wizard' = [wizard EXCEPT ![t] = f] /\ UNCHANGED <<store, cars, typed, histories>>
    BY <2>0
  <2> HIDE DEF f
  <2>3. UNCHANGED <<shared, unfinished, forgotten>>
    BY <2>2 DEF histories
  <2>4. wizard[t].creating \notin DOMAIN cars
    BY <1>2, <1>3, <1>5, CarNumbers DEF OpenWizard, TabTyped
  <2> QED
    BY <1>2, <2>1, <2>2, <2>3, <2>4, CarNumbers, TabSteps
<1>6. ASSUME NEW t \in Wizards, LeaveWizard(t)
      PROVE  WizardInv'
  <2>1. /\ wizard' = [wizard EXCEPT ![t] = Closed]
        /\ shared' = IF wizard[t].creating \in DOMAIN cars THEN shared \cup {wizard[t].sent}
                     ELSE shared
        /\ UNCHANGED <<store, cars, typed, unfinished, forgotten>>
    BY <1>6 DEF LeaveWizard
  <2> QED
    BY <1>2, <2>1, Empty, CarNumbers, TabSteps
<1>7. ASSUME NEW t \in Wizards, GoNext(t)
      PROVE  WizardInv'
  <2>1. /\ wizard[t].step + 1 \in 0 .. PhotosStep /\ wizard[t].step + 1 # PhotosStep
        /\ wizard' = [wizard EXCEPT ![t].step = wizard[t].step + 1] /\ wizard[t].open
        /\ UNCHANGED <<store, cars, typed, histories>>
    BY <1>2, <1>3, <1>7 DEF GoNext, Tab
  <2> QED
    BY <1>4, <2>1
<1>8. ASSUME NEW t \in Wizards, GoBack(t)
      PROVE  WizardInv'
  <2>1. /\ wizard[t].step - 1 \in 0 .. PhotosStep /\ wizard[t].creating = 0
        /\ wizard' = [wizard EXCEPT ![t].step = wizard[t].step - 1]
        /\ UNCHANGED <<store, cars, typed, histories>>
    BY <1>2, <1>3, <1>8 DEF GoBack, Tab
  <2> QED
    BY <1>4, <2>1
<1>9. ASSUME NEW t \in Wizards, HandleCreate(t)
      PROVE  WizardInv'
  <2> DEFINE bad == validateCarDraft(wizard[t].draft)
  <2>1. UNCHANGED <<store, cars, typed, histories>> /\ wizard[t].creating = 0
        /\ wizard[t].step = InputSteps - 1
    BY <1>9 DEF HandleCreate
  <2>2. CASE bad = {}
    <3> DEFINE f == [wizard[t] EXCEPT !.creating = Sending, !.sent = wizard[t].draft.vehicle]
    <3>1. wizard' = [wizard EXCEPT ![t] = f]
      BY <1>9, <2>2 DEF HandleCreate
    <3>2. wizard[t].draft.vehicle \in 0 .. Vehicles /\ Sending \in 0 .. Sending
      BY <1>3, WizardAssumption DEF Tab, Draft, Sending, WizardAssumption
    <3>3. /\ f \in Tab /\ f.creating = Sending /\ f.sent = wizard[t].draft.vehicle
          /\ f.draft = wizard[t].draft /\ f.step = wizard[t].step /\ f.open = wizard[t].open
      BY <1>3, <3>2 DEF Tab
    <3>4. f.sent # 0
      <4>1. 0 \in InputStep
        BY <1>2 DEF InputStep
      <4>2. wizard[t].draft.valid # {}
        BY <2>2, <4>1 DEF validateCarDraft
      <4> QED
        BY <1>3, <3>3, <4>2 DEF TabTyped, DraftTyped
    <3>5. f.step # PhotosStep /\ f.open
      BY <1>2, <1>9, <2>1, <3>3 DEF HandleCreate
    <3> HIDE DEF f
    <3>6. UNCHANGED <<shared, unfinished, forgotten>>
      BY <2>1 DEF histories
    <3> QED
      BY <1>2, <2>1, <3>1, <3>3, <3>4, <3>5, <3>6, CarNumbers, TabSteps
  <2>3. CASE bad # {}
    <3> DEFINE s == CHOOSE s \in bad : \A r \in bad : s <= r
    <3>1. wizard' = [wizard EXCEPT ![t].step = s]
      BY <1>9, <2>3 DEF HandleCreate
    <3>2. s \in 0 .. PhotosStep
      <4>1. bad \subseteq Nat /\ bad \subseteq 0 .. PhotosStep
        BY <1>2 DEF validateCarDraft, InputStep
      <4>2. \E r \in bad : \A q \in bad : r <= q
        BY <2>3, <4>1, LeastOf
      <4>3. s \in bad
        BY <4>2
      <4> QED
        BY <4>1, <4>3
    <3> QED
      BY <1>4, <2>1, <3>1, <3>2 
  <2> QED
    BY <2>2, <2>3
<1>10. ASSUME NEW t \in Wizards, CreateFails(t)
       PROVE  WizardInv'
  <2>1. PICK s \in InputStep :
          wizard' = [wizard EXCEPT ![t].creating = 0, ![t].sent = 0, ![t].step = s]
    BY <1>10 DEF CreateFails
  <2>2. /\ shared' = IF wizard[t].creating \in DOMAIN cars THEN shared \cup {wizard[t].sent}
                     ELSE shared
        /\ UNCHANGED <<store, cars, typed, unfinished, forgotten>>
    BY <1>10 DEF CreateFails
  <2> DEFINE f == [wizard[t] EXCEPT !.creating = 0, !.sent = 0, !.step = s]
  <2>3. 0 \in 0 .. Sending /\ 0 \in 0 .. Vehicles /\ s \in 0 .. PhotosStep
    BY <1>2, WizardAssumption DEF InputStep, Sending, WizardAssumption
  <2>4. f \in Tab /\ f.creating = 0 /\ f.draft = wizard[t].draft
    BY <1>3, <2>3 DEF Tab
  <2>5. wizard' = [wizard EXCEPT ![t] = f]
    BY <2>1
  <2> HIDE DEF f
  <2> QED
    BY <1>2, <2>2, <2>4, <2>5, CarNumbers, TabSteps
<1>11. ASSUME NEW t \in Wizards, Finish(t)
       PROVE  WizardInv'
  <2>1. /\ wizard[t].step = PhotosStep /\ Forget({wizard[t].created})
        /\ wizard' = [wizard EXCEPT ![t] = Closed]
        /\ UNCHANGED <<cars, typed, shared>>
    BY <1>11 DEF Finish
  <2>2. wizard[t].creating = 0 /\ shared \subseteq 1 .. typed
    BY <1>2, <1>3, <2>1 DEF TabTyped, WizardTypeOK
  <2> QED
    BY <1>2, <2>1, <2>2, Empty, CarNumbers, ForgetAccounts, TabMoves
<1>12. ASSUME NEW t \in Wizards, StartNew(t)
       PROVE  WizardInv'
  <2> DEFINE f == [wizard[t] EXCEPT !.stranded = 0]
  <2>1. /\ Forget({wizard[t].stranded}) /\ wizard' = [wizard EXCEPT ![t] = f]
        /\ UNCHANGED <<cars, typed, shared>>
    BY <1>12 DEF StartNew
  <2>2. /\ f \in Tab /\ f.creating = wizard[t].creating /\ f.sent = wizard[t].sent
        /\ f.draft = wizard[t].draft /\ f.step = wizard[t].step /\ f.open = wizard[t].open
    BY <1>3, Empty DEF Tab
  <2> HIDE DEF f
  <2>3. shared \subseteq 1 .. typed
    BY <1>2 DEF WizardTypeOK
  <2>4. ~f.open \/ f.step = PhotosStep => f.creating = 0
    BY <1>3, <2>2 DEF TabTyped
  <2>5. f.creating # 0 => f.sent # 0 /\ f.sent = f.draft.vehicle
    BY <1>3, <2>2 DEF TabTyped
  <2> QED
    BY <2>1, <2>2, <2>3, <2>4, <2>5, ForgetAccounts, TabMoves
<1>13. ASSUME NEW c \in DOMAIN cars, EditPhotos(c)
       PROVE  WizardInv'
  <2>1. Forget({c}) /\ UNCHANGED <<wizard, cars, typed, shared>>
    BY <1>13 DEF EditPhotos
  <2>2. /\ store' \in [draft: Draft, created: 0 .. MaxCars]
        /\ store'.draft = store.draft /\ store'.created \in DOMAIN cars \cup {0}
        /\ unfinished' \subseteq DOMAIN cars /\ forgotten' \subseteq DOMAIN cars
        /\ StrandedIsOffered'
    BY <2>1, ForgetAccounts
  <2>3. WizardTyped'
    BY <2>1, <2>2
    DEF WizardInv, WizardTyped, WizardTypeOK, CarsTyped, TabTyped, DraftTyped
  <2>4. ListedInv'
    BY <2>1, <2>2 DEF WizardInv, ListedInv, Dropped, Pending
  <2> QED
    BY <2>2, <2>3, <2>4 DEF WizardInv
<1>14. ASSUME NEW t \in Wizards,
              CreateCar(t) \/ Created(t) \/ \E valid \in BOOLEAN : SetField(t, valid)
       PROVE  WizardInv'
  BY <1>14, CreateCarStep, CreatedStep, SetFieldStep
<1> QED
  BY <1>1, <1>5, <1>6, <1>7, <1>8, <1>9, <1>10, <1>11, <1>12, <1>13, <1>14 DEF WizardNext

(* However many tabs hold the wizard, a vehicle that is typed in becomes two *)
(* listings only if its draft outlived the first of them: its answer never   *)
(* arrived, another tab had the draft open, or localStorage did not let go  *)
(* of the draft.                                                            *)
THEOREM VehiclesListedOnce == WizardSpec => []ListedOnce
<1>1. WizardInv => ListedOnce
  BY DEF WizardInv, ListedInv, ListedOnce
<1> QED
  BY <1>1, WizardInvInit, WizardInvStep, PTL DEF WizardSpec

(* A listing nobody has seen to is the one that the next wizard offers, but  *)
(* for those that another car made the browser forget, or that localStorage *)
(* did not take.                                                            *)
THEOREM StrandedListingsOffered == WizardSpec => []StrandedIsOffered
<1>1. WizardInv => StrandedIsOffered
  BY DEF WizardInv
<1> QED
  BY <1>1, WizardInvInit, WizardInvStep, PTL DEF WizardSpec

-----------------------------------------------------------------------------
(*                         The listing pages together                        *)

ListingsInv == PhotosInv /\ WizardInv /\ FormInv

LEMMA ListingsInvStep ==
    ListingsInv /\ [Next]_<<photoVars, wizardVars, formVars, watched>> => ListingsInv'
<1> SUFFICES ASSUME ListingsInv, [Next]_<<photoVars, wizardVars, formVars, watched>>
             PROVE  ListingsInv'
  OBVIOUS
<1>1. PhotosInv /\ WizardInv /\ FormInv
  BY DEF ListingsInv
<1>2. [PhotosNext]_photoVars /\ [WizardNext]_wizardVars /\ [FormNext]_formVars
  BY DEF Next
<1> QED
  BY <1>1, <1>2, PhotosInvStep, WizardInvStep, FormInvStep DEF ListingsInv

(* Whatever the owner is at, the listing pages' variables stay of their      *)
(* types.                                                                   *)
THEOREM ListingsTyped == Spec => []TypeOK
<1>1. Init => ListingsInv
  BY PhotosInvInit, WizardInvInit, FormInvInit DEF Init, ListingsInv
<1>2. ListingsInv => TypeOK
  BY DEF ListingsInv, PhotosInv, PhotosTyped, WizardInv, WizardTyped, FormInv, TypeOK
<1> QED
  BY <1>1, <1>2, ListingsInvStep, PTL DEF Spec
=============================================================================

---------------------------- MODULE AccountsProofs ----------------------------
(***************************************************************************)
(* What the guards and forms, the verification page, the review queue and    *)
(* the console's card promise, for any number of documents, uploads,        *)
(* reviewers and accounts.                                                  *)
(***************************************************************************)
EXTENDS MCAccounts, TLAPS

-----------------------------------------------------------------------------
(* Tiles *)

(* While no upload overlaps another, the one under way started from the map  *)
(* that is shown.                                                           *)
OneUpload ==
    ~overlapped =>
        /\ heard \subseteq sent
        /\ kept \subseteq marks
        /\ \A s, t \in Slots : upload[s] # NoUpload =>
               /\ upload[s].with = sent
               /\ upload[s].page = "shown"
               /\ upload[t] # NoUpload => s = t

TilesInv == TilesTypeOK /\ OneUpload

LEMMA TilesInvInit == TilesInit => TilesInv
  BY DEF TilesInit, TilesInv, OneUpload, TilesTypeOK

LEMMA TilesTypeOKStep == TilesTypeOK /\ [TilesNext]_tilesVars => TilesTypeOK'
<1> SUFFICES ASSUME TilesTypeOK, [TilesNext]_tilesVars PROVE TilesTypeOK'
  OBVIOUS
<1>1. ASSUME NEW s \in Slots, NEW d \in TileDocuments, Upload(s, d)
      PROVE  TilesTypeOK'
  <2> DEFINE r == [on |-> TRUE, document |-> d, with |-> sent, page |-> "shown"]
  <2>1. upload' = [upload EXCEPT ![s] = r] /\ UNCHANGED <<sent, marks, verified, heard, kept>>
    BY <1>1 DEF Upload
  <2>2. r \in Uploads
    BY DEF Uploads, TilesTypeOK
  <2>3. overlapped' \in BOOLEAN
    BY <1>1 DEF Upload
  <2> HIDE DEF r
  <2> QED
    BY <2>1, <2>2, <2>3 DEF TilesTypeOK
<1>2. ASSUME NEW s \in Slots, UploadAnswered(s)
      PROVE  TilesTypeOK'
  <2> DEFINE next == upload[s].with \cup {upload[s].document}
  <2>1. /\ upload[s] # NoUpload /\ upload' = [upload EXCEPT ![s] = NoUpload]
        /\ marks' \in {next, marks} /\ sent' \in {next, sent}
        /\ heard' \in {heard, heard \cup {upload[s].document}} /\ kept' \in {heard', kept}
        /\ UNCHANGED <<verified, overlapped>>
    BY <1>2 DEF UploadAnswered, writeSent
  <2>2. upload[s] \in Uploads
    BY <2>1 DEF TilesTypeOK
  <2>3. upload[s].document \in TileDocuments /\ next \subseteq TileDocuments
    BY <2>2 DEF Uploads
  <2> HIDE DEF next
  <2> QED
    BY <2>1, <2>3 DEF TilesTypeOK
<1>3. ASSUME NEW s \in Slots, UploadFails(s)
      PROVE  TilesTypeOK'
  BY <1>3 DEF UploadFails, TilesTypeOK
<1>4. CASE UserLands
  <2>1. \A D \in SUBSET TileDocuments : UNION {Together(d) : d \in D} \subseteq TileDocuments
    <3>1. \A d \in TileDocuments : Together(d) \subseteq TileDocuments
      BY DEF Together
    <3> QED
      BY <3>1
  <2> QED
    BY <1>4, <2>1 DEF UserLands, TilesTypeOK
<1>5. CASE Return
  <2>1. \A s \in Slots : Leave(s) \in Uploads \cup {NoUpload}
    BY DEF Leave, Uploads, TilesTypeOK
  <2>2. /\ upload' = [s \in Slots |-> Leave(s)]
        /\ sent' \in {marks, {}} /\ heard' \in {kept, {}}
        /\ UNCHANGED <<marks, verified, kept>>
    BY <1>5 DEF Return, readSent
  <2>3. upload' \in [Slots -> Uploads \cup {NoUpload}]
    BY <2>1, <2>2
  <2>4. overlapped' \in BOOLEAN
    BY <1>5 DEF Return
  <2> QED
    BY <2>2, <2>3, <2>4 DEF TilesTypeOK
<1>6. CASE Reload
  BY <1>6 DEF Reload, readSent, TilesTypeOK
<1>7. CASE UNCHANGED tilesVars
  BY <1>7 DEF tilesVars, TilesTypeOK
<1> QED
  BY <1>1, <1>2, <1>3, <1>4, <1>5, <1>6, <1>7 DEF TilesNext

LEMMA OneUploadStep == TilesInv /\ [TilesNext]_tilesVars => OneUpload'
<1> SUFFICES ASSUME TilesTypeOK, OneUpload, [TilesNext]_tilesVars PROVE OneUpload'
  BY DEF TilesInv
<1>0. upload \in [Slots -> Uploads \cup {NoUpload}]
  BY DEF TilesTypeOK
<1>1. ASSUME NEW s \in Slots, NEW d \in TileDocuments, Upload(s, d)
      PROVE  OneUpload'
  <2> DEFINE r == [on |-> TRUE, document |-> d, with |-> sent, page |-> "shown"]
  <2>1. upload' = [upload EXCEPT ![s] = r] /\ UNCHANGED <<sent, marks, heard, kept>>
    BY <1>1 DEF Upload
  <2>2. r.with = sent /\ r.page = "shown"
    OBVIOUS
  <2>3. overlapped' = (overlapped \/ \E t \in Slots : upload[t] # NoUpload)
    BY <1>1 DEF Upload
  <2> HIDE DEF r
  <2>5. ASSUME ~overlapped'
        PROVE  \A t \in Slots : upload'[t] = IF t = s THEN r ELSE NoUpload
    BY <1>0, <2>1, <2>3, <2>5
  <2>6. ~overlapped' => ~overlapped
    BY <2>3
  <2> QED
    BY <2>1, <2>2, <2>5, <2>6 DEF OneUpload
<1>2. ASSUME NEW s \in Slots, UploadAnswered(s)
      PROVE  OneUpload'
  <2> DEFINE next == upload[s].with \cup {upload[s].document}
  <2>1. /\ upload[s] # NoUpload /\ upload' = [upload EXCEPT ![s] = NoUpload]
        /\ marks' \in {next, marks} /\ sent' = IF upload[s].page = "shown" THEN next ELSE sent
        /\ heard' = IF upload[s].page = "shown" THEN heard \cup {upload[s].document} ELSE heard
        /\ kept' = IF marks' = next THEN heard' ELSE kept
        /\ overlapped' = overlapped
    BY <1>2 DEF UploadAnswered, writeSent
  <2>2. ASSUME ~overlapped
        PROVE  /\ sent' = next /\ heard' \subseteq next
               /\ \A t \in Slots : upload'[t] = NoUpload
    BY <1>0, <2>1, <2>2 DEF OneUpload
  <2> HIDE DEF next
  <2>3. ASSUME ~overlapped
        PROVE  kept' \subseteq marks'
    BY <2>1, <2>2, <2>3 DEF OneUpload
  <2> QED
    BY <2>1, <2>2, <2>3 DEF OneUpload
<1>3. ASSUME NEW s \in Slots, UploadFails(s)
      PROVE  OneUpload'
  BY <1>0, <1>3 DEF UploadFails, OneUpload
<1>4. CASE UserLands
  BY <1>4 DEF UserLands, OneUpload
<1>5. CASE Return
  <2>1. /\ upload' = [s \in Slots |-> Leave(s)]
        /\ sent' \in {marks, {}} /\ heard' = IF sent' = marks THEN kept ELSE {}
        /\ UNCHANGED <<marks, kept>>
        /\ overlapped' = (overlapped \/ \E s \in Slots : upload[s] # NoUpload)
    BY <1>5 DEF Return, readSent
  <2>2. ~overlapped' => ~overlapped /\ \A s \in Slots : upload'[s] = NoUpload
    BY <2>1 DEF Leave
  <2> QED
    BY <2>1, <2>2 DEF OneUpload
<1>6. CASE Reload
  BY <1>6 DEF Reload, readSent, OneUpload
<1>7. CASE UNCHANGED tilesVars
  BY <1>7 DEF tilesVars, OneUpload
<1> QED
  BY <1>1, <1>2, <1>3, <1>4, <1>5, <1>6, <1>7 DEF TilesNext

LEMMA TilesInvStep == TilesInv /\ [TilesNext]_tilesVars => TilesInv'
BY TilesTypeOKStep, OneUploadStep DEF TilesInv

(* However often the page is left and reloaded, and whatever becomes of the  *)
(* uploads and of the calls of localStorage: if uploads take turns, what the *)
(* page knows was sent is shown so, and what localStorage took stays there.  *)
THEOREM MarksStay == TilesSpec => []MarksAreKept
<1>1. TilesInv => MarksAreKept
  BY DEF TilesInv, OneUpload, MarksAreKept, SentIsShown, TileState
<1> QED
  BY <1>1, TilesInvInit, TilesInvStep, PTL DEF TilesSpec

-----------------------------------------------------------------------------
(* UserLookup *)

(* A dialog that is open over an account was opened on it, or had it land    *)
(* there, and a deletion is of such an account.  A card that has had one     *)
(* account only names it in its dialog, and the deletion it waits for is     *)
(* that account's.                                                          *)
DialogNames ==
    /\ inactive \subseteq named \cup swapped
    /\ \A d \in deletions : d.user \in named \cup swapped
    /\ card = NoCard \/ card \in Card
    /\ card # NoCard /\ card.shows \in Users /\ card.confirming => card.shows \in named \cup swapped
    /\ card # NoCard /\ ~card.moved =>
           /\ card.shows \in Users => card.shows = card.id
           /\ \A d \in deletions : d.heard => d.user = card.id
           /\ card.deleted => card.id \in inactive
    /\ \A d \in deletions : d.heard => card # NoCard /\ card.deleting
    /\ \A d, e \in deletions : d.heard /\ e.heard => d = e
    /\ deletions \subseteq Deletion
    /\ named \subseteq Users /\ swapped \subseteq Users

LEMMA CardsAreShown == \A m \in Card : m # NoCard
<1> SUFFICES ASSUME NEW m \in Card, m = NoCard PROVE FALSE
  OBVIOUS
<1>1. "shows" \in DOMAIN m
  BY DEF Card
<1>2. "shows" \notin DOMAIN NoCard
  BY DEF NoCard
<1> QED
  BY <1>1, <1>2

LEMMA DialogNamesInit == LookupInit => DialogNames
  BY DEF LookupInit, DialogNames

LEMMA DialogNamesStep == DialogNames /\ [LookupNext]_lookupVars => DialogNames'
<1> SUFFICES ASSUME DialogNames, [LookupNext]_lookupVars PROVE DialogNames'
  OBVIOUS
<1> USE CardsAreShown, LookupAssumption
<1>1. ASSUME NEW u \in Users, LookUp(u)
      PROVE  DialogNames'
  <2>0. UNCHANGED <<inactive, deletions, named, swapped>>
    BY <1>1 DEF LookUp
  <2>1. CASE card = NoCard
    <3> DEFINE m == Mounted(u)
    <3>1. /\ m \in Card /\ card' = m /\ m.id = u /\ m.shows = "loading"
          /\ ~m.confirming /\ ~m.deleted
      BY <1>1, <2>1 DEF LookUp, Mounted, Card, Shown
    <3> HIDE DEF m
    <3> QED
      BY <2>0, <2>1, <3>1 DEF DialogNames
  <2>2. CASE card # NoCard
    <3> DEFINE m == [card EXCEPT !.id = u, !.fetching = TRUE, !.moved = TRUE]
    <3>1. /\ m \in Card /\ card' = m /\ m.shows = card.shows /\ m.moved
          /\ m.confirming = card.confirming /\ m.deleting = card.deleting
      BY <1>1, <2>2 DEF LookUp, Card, DialogNames
    <3> HIDE DEF m
    <3> QED
      BY <2>0, <2>2, <3>1 DEF DialogNames
  <2> QED
    BY <2>1, <2>2
<1>2. CASE Clear
  <2>1. /\ card' = NoCard /\ UNCHANGED <<inactive, named, swapped>>
        /\ deletions' = {[d EXCEPT !.heard = FALSE] : d \in deletions}
    BY <1>2 DEF Clear
  <2>2. \A d \in deletions : LET e == [d EXCEPT !.heard = FALSE] IN
            e \in Deletion /\ e.user = d.user /\ e.heard = FALSE
    BY DEF DialogNames, Deletion
  <2> QED
    BY <2>1, <2>2 DEF DialogNames
<1>3. ASSUME NEW ok \in BOOLEAN, CardLands(ok)
      PROVE  DialogNames'
  <2>1. card \in Card /\ card # NoCard /\ UNCHANGED <<inactive, deletions, named>>
    BY <1>3 DEF CardLands, DialogNames
  <2> DEFINE m == [card EXCEPT !.fetching = FALSE, !.shows = IF ok THEN card.id ELSE "error"]
  <2>2. /\ m \in Card /\ card' = m /\ m.id = card.id /\ m.moved = card.moved
        /\ m.shows = IF ok THEN card.id ELSE "error"
        /\ m.confirming = card.confirming /\ m.deleted = card.deleted
        /\ m.deleting = card.deleting /\ card.id \in Users
    BY <1>3, <2>1 DEF CardLands, Card, Shown
  <2> HIDE DEF m
  <2>3. swapped' = IF ok /\ card.confirming THEN swapped \cup {card.id} ELSE swapped
    BY <1>3 DEF CardLands
  <2> QED
    BY <2>1, <2>2, <2>3 DEF DialogNames
<1>4. CASE OpenDialog
  <2>1. card \in Card /\ card # NoCard /\ UNCHANGED <<inactive, deletions, swapped>>
    BY <1>4 DEF OpenDialog, OnCard, DialogNames
  <2> DEFINE m == [card EXCEPT !.confirming = TRUE]
  <2>2. /\ m \in Card /\ card' = m /\ m.id = card.id /\ m.moved = card.moved
        /\ m.shows = card.shows /\ m.deleted = card.deleted
        /\ m.deleting = card.deleting /\ card.shows \in Users
    BY <1>4, <2>1 DEF OpenDialog, OnCard, Card
  <2> HIDE DEF m
  <2>3. named' = named \cup {card.shows}
    BY <1>4 DEF OpenDialog
  <2> QED
    BY <2>1, <2>2, <2>3 DEF DialogNames
<1>5. CASE CloseDialog
  <2>1. card \in Card /\ card # NoCard /\ UNCHANGED <<inactive, deletions, named, swapped>>
    BY <1>5 DEF CloseDialog, DialogOpen, OnCard, DialogNames
  <2> DEFINE m == [card EXCEPT !.confirming = FALSE]
  <2>2. /\ m \in Card /\ card' = m /\ m.id = card.id /\ m.moved = card.moved
        /\ m.shows = card.shows /\ m.deleted = card.deleted
        /\ ~m.confirming /\ m.deleting = card.deleting
    BY <1>5, <2>1 DEF CloseDialog, Card
  <2> HIDE DEF m
  <2> QED
    BY <2>1, <2>2 DEF DialogNames
<1>6. CASE HandleDelete
  <2>1. /\ card \in Card /\ card # NoCard /\ card.shows \in Users /\ card.confirming
        /\ UNCHANGED <<inactive, named, swapped>>
    BY <1>6 DEF HandleDelete, DialogOpen, OnCard, DialogNames
  <2> DEFINE m == [card EXCEPT !.deleting = TRUE]
  <2>2. /\ m \in Card /\ card' = m /\ m.id = card.id /\ m.moved = card.moved
        /\ m.shows = card.shows /\ m.deleted = card.deleted
        /\ m.confirming = card.confirming /\ m.deleting
    BY <1>6, <2>1 DEF HandleDelete, Card
  <2> HIDE DEF m
  <2> DEFINE d == [user |-> card.shows, heard |-> TRUE]
  <2>3. d \in Deletion /\ deletions' = deletions \cup {d} /\ d.user = card.shows
        /\ \A e \in deletions : ~e.heard
    BY <1>6, <2>1 DEF HandleDelete, Deletion, DialogNames
  <2> HIDE DEF d
  <2> QED
    BY <2>1, <2>2, <2>3 DEF DialogNames
<1>7. ASSUME NEW d \in deletions, NEW ok \in BOOLEAN, DeleteAnswered(d, ok),
             inactive' = inactive \/ inactive' = inactive \cup {d.user},
             ok => d.user \in inactive'
      PROVE  DialogNames'
  <2>1. UNCHANGED <<named, swapped>> /\ deletions' = deletions \ {d} /\ d \in Deletion
    BY <1>7 DEF DeleteAnswered, DialogNames
  <2>2. inactive' \subseteq named' \cup swapped' /\ inactive \subseteq inactive'
    BY <1>7, <2>1 DEF DialogNames
  <2>3. CASE ~d.heard
    BY <1>7, <2>1, <2>2, <2>3 DEF DeleteAnswered, DialogNames
  <2>4. CASE d.heard
    <3>1. card \in Card /\ card # NoCard
      BY <2>4 DEF DialogNames
    <3> DEFINE m == [card EXCEPT !.deleting = FALSE, !.deleted = @ \/ ok, !.confirming = @ /\ ~ok]
    <3>2. /\ m \in Card /\ card' = m /\ m.id = card.id /\ m.moved = card.moved
          /\ m.shows = card.shows
          /\ m.confirming => card.confirming
          /\ m.deleted => card.deleted \/ ok
      BY <1>7, <2>4, <3>1 DEF DeleteAnswered, Card
    <3> HIDE DEF m
    <3> QED
      BY <1>7, <2>1, <2>2, <2>4, <3>1, <3>2 DEF DialogNames
  <2> QED
    BY <2>3, <2>4
<1>8. ASSUME NEW d \in deletions, DeleteSave(d) \/ DeleteFails(d)
      PROVE  DialogNames'
  <2>1. CASE DeleteSave(d)
    <3>1. PICK ok \in BOOLEAN : DeleteAnswered(d, ok)
      BY <2>1 DEF DeleteSave
    <3>2. inactive' = inactive \cup {d.user}
      BY <2>1 DEF DeleteSave
    <3> QED
      BY <1>7, <3>1, <3>2
  <2>2. CASE DeleteFails(d)
    BY <1>7, <2>2 DEF DeleteFails
  <2> QED
    BY <1>8, <2>1, <2>2
<1>9. CASE UNCHANGED lookupVars
  BY <1>9 DEF lookupVars, DialogNames
<1> QED
  BY <1>1, <1>2, <1>3, <1>4, <1>5, <1>6, <1>8, <1>9 DEF LookupNext

(* Whatever is looked up while a dialog is open or a deletion under way, no  *)
(* account is deleted that was not under the dialog, and a card that has had *)
(* one account only never says of it what is not so.                        *)
THEOREM DeletionsAreMeant == LookupSpec => []DeletedWasMeant
<1>1. DialogNames => DeletedWasMeant
  BY DEF DialogNames, DeletedWasMeant
<1> QED
  BY <1>1, DialogNamesInit, DialogNamesStep, PTL DEF LookupSpec

-----------------------------------------------------------------------------
(* Verification *)

(* What a page shows of an item covers every image of it that was stored by  *)
(* the time the page was read, and so does what its reviewer is deciding.    *)
Covers(images, i, asOf) == \A n \in ImagesOf(i) : n <= asOf => n \in images

PageKnows(r) ==
    /\ page[r].asOf \in Nat /\ page[r].asOf <= stored
    /\ \A i \in Items : /\ page[r].items[i] \subseteq 1 .. page[r].asOf
                        /\ page[r].items[i] # {} => Covers(page[r].items[i], i, page[r].asOf)
CallKnows(r) ==
    /\ call[r].at \in {"idle", "read"}
    /\ call[r].at = "read" =>
         /\ call[r].item \in Items /\ call[r].verdict \in {"verified", "rejected"}
         /\ call[r].was \in Status /\ call[r].flagged \in BOOLEAN
         /\ call[r].asOf \in Nat /\ call[r].asOf <= stored
         /\ Covers(call[r].sees, call[r].item, call[r].asOf)

VerificationInv ==
    /\ VerificationTypeOK
    /\ DOMAIN page = Reviewers /\ DOMAIN call = Reviewers
    /\ verdict \in [Items -> {"none", "verified", "rejected"}]
    /\ \A r \in Reviewers : PageKnows(r) /\ CallKnows(r)
    /\ JudgedIsSeen
    /\ FlagsTellVerdicts

LEMMA VerificationInvInit == VerificationInit => VerificationInv
<1> SUFFICES ASSUME VerificationInit PROVE VerificationInv
  OBVIOUS
<1>1. stored = 0 /\ stored \in Image /\ 0 \in 0 .. stored
  BY VerificationAssumption DEF VerificationInit, Image, VerificationAssumption
<1>2. \A r \in Reviewers : /\ page[r] = [items |-> [i \in Items |-> {}], asOf |-> 0]
                           /\ call[r] = NoCall
  BY DEF VerificationInit
<1>3. \A r \in Reviewers : PageKnows(r) /\ CallKnows(r)
  BY <1>1, <1>2 DEF PageKnows, CallKnows, NoCall
<1>4. VerificationTypeOK
  BY <1>1, <1>2, <1>3 DEF VerificationInit, VerificationTypeOK, PageKnows, CallKnows, Status
<1>5. JudgedIsSeen /\ FlagsTellVerdicts
  BY DEF VerificationInit, JudgedIsSeen, FlagsTellVerdicts
<1> QED
  BY <1>3, <1>4, <1>5 DEF VerificationInit, VerificationInv

(* The images of an item are some of those stored. *)
LEMMA ImagesAreStored ==
    ASSUME VerificationTypeOK, NEW i \in Items
    PROVE  ImagesOf(i) \subseteq 1 .. stored /\ stored \in Nat
BY VerificationAssumption DEF VerificationTypeOK, ImagesOf, Image, VerificationAssumption

LEMMA UploadSaveStep ==
    ASSUME VerificationInv, NEW s \in Senders, UploadSave(s)
    PROVE  VerificationInv'
<1> DEFINE d == sending[s].document
           i == ItemOf(d)
           n == stored + 1
<1>1. VerificationTypeOK /\ stored \in Nat /\ MaxImages \in Nat /\ n <= MaxImages
  BY VerificationAssumption
  DEF VerificationInv, VerificationTypeOK, UploadSave, Image, VerificationAssumption
<1>2. sending[s] \in Reading /\ d \in Documents /\ i \in Items
  BY <1>1 DEF VerificationTypeOK, UploadSave, Reading, Items
<1>3. /\ row' = TRUE /\ stored' = n /\ image' = [image EXCEPT ![d] = n]
      /\ status' = IF sending[s].was # "pending" THEN [status EXCEPT ![i] = "pending"] ELSE status
      /\ slipped' = IF sending[s].was = "pending" /\ status[i] # "pending"
                    THEN slipped \cup {n} ELSE slipped
      /\ sending' = [sending EXCEPT ![s] = Idle]
      /\ UNCHANGED <<flag, seen, verdict, raced, page, call>>
  BY DEF UploadSave, queues
<1> HIDE DEF d, i, n
<1>4. \A j \in Items : ImagesOf(j)' \subseteq ImagesOf(j) \cup (IF j = i THEN {n} ELSE {})
  BY <1>1, <1>2, <1>3 DEF ImagesOf, VerificationTypeOK, i
<1>5. stored < n /\ n \in Nat
  BY <1>1 DEF n
<1>6. ASSUME NEW images, NEW j \in Items, NEW asOf \in Nat, asOf <= stored,
             Covers(images, j, asOf)
      PROVE  Covers(images, j, asOf)' /\ asOf <= stored'
  BY <1>1, <1>3, <1>4, <1>5, <1>6 DEF Covers
<1>7. \A r \in Reviewers : PageKnows(r)' /\ CallKnows(r)'
  <2> SUFFICES ASSUME NEW r \in Reviewers PROVE PageKnows(r)' /\ CallKnows(r)'
    OBVIOUS
  <2>1. PageKnows(r) /\ CallKnows(r) /\ UNCHANGED <<page, call>>
    BY <1>3 DEF VerificationInv
  <2>2. page[r].asOf <= stored'
    BY <1>1, <1>3, <1>5, <2>1 DEF PageKnows
  <2>3. PageKnows(r)'
    BY <1>6, <2>1, <2>2 DEF PageKnows
  <2>4. CallKnows(r)'
    BY <1>6, <2>1 DEF CallKnows
  <2> QED
    BY <2>3, <2>4
<1>8. VerificationTypeOK'
  <2>1. image' \in [Documents -> 0 .. stored'] /\ stored' \in Image
    BY <1>1, <1>2, <1>3, <1>5 DEF VerificationTypeOK, Image
  <2>2. status' \in [Items -> Status] /\ sending' \in [Senders -> Reading \cup {Idle}]
    BY <1>1, <1>3 DEF VerificationTypeOK, Status
  <2> QED
    BY <1>1, <1>3, <1>7, <2>1, <2>2 DEF VerificationTypeOK, PageKnows, CallKnows
<1>9. JudgedIsSeen'
  BY <1>1, <1>2, <1>3, <1>4 DEF VerificationInv, JudgedIsSeen, VerificationTypeOK
<1>10. FlagsTellVerdicts'
  BY <1>1, <1>3 DEF VerificationInv, FlagsTellVerdicts, VerificationTypeOK
<1> QED
  BY <1>3, <1>7, <1>8, <1>9, <1>10 DEF VerificationInv

LEMMA ProcessSaveStep ==
    ASSUME VerificationInv, NEW r \in Reviewers, ProcessSave(r)
    PROVE  VerificationInv'
<1> DEFINE c == call[r]
           i == c.item
           approves == c.verdict = "verified"
<1>1. /\ VerificationTypeOK /\ c.at = "read"
      /\ i \in Items /\ c.verdict \in {"verified", "rejected"} /\ c.was \in Status
      /\ Covers(c.sees, i, c.asOf) /\ c.asOf \in Nat
  BY DEF VerificationInv, CallKnows, ProcessSave
<1>2. /\ status' = IF c.verdict # c.was THEN [status EXCEPT ![i] = c.verdict] ELSE status
      /\ flag' = IF approves # c.flagged THEN [flag EXCEPT ![i] = approves] ELSE flag
      /\ call' = [call EXCEPT ![r] = NoCall]
      /\ seen' = seen \cup c.sees
      /\ slipped' = slipped \cup {n \in ImagesOf(i) : n > c.asOf}
      /\ verdict' = [verdict EXCEPT ![i] = c.verdict]
      /\ raced' = IF status[i] = c.was /\ flag[i] = c.flagged
                  THEN raced \ {i} ELSE raced \cup {i}
      /\ UNCHANGED <<row, image, stored, sending, page>>
  BY DEF ProcessSave
<1>3. approves \in BOOLEAN /\ c.flagged \in BOOLEAN
  BY <1>1 DEF VerificationInv, CallKnows
<1> HIDE DEF c, i, approves
<1>4. \A j \in Items : ImagesOf(j)' = ImagesOf(j) /\ ImagesOf(j) \subseteq Nat
  BY <1>1, <1>2, ImagesAreStored DEF ImagesOf
<1>5. \A u \in Reviewers : PageKnows(u)' /\ CallKnows(u)'
  <2>1. \A images, asOf : \A j \in Items : Covers(images, j, asOf) => Covers(images, j, asOf)'
    BY <1>4 DEF Covers
  <2>2. \A u \in Reviewers : call'[u] = IF u = r THEN NoCall ELSE call[u]
    BY <1>2 DEF VerificationInv
  <2> QED
    BY <1>2, <2>1, <2>2 DEF VerificationInv, PageKnows, CallKnows, NoCall
<1>6. VerificationTypeOK'
  <2>1. status' \in [Items -> Status]
    BY <1>1, <1>2 DEF VerificationTypeOK, Status
  <2>2. flag' \in [Items -> BOOLEAN]
    BY <1>1, <1>2, <1>3 DEF VerificationTypeOK
  <2> QED
    BY <1>1, <1>2, <1>5, <2>1, <2>2 DEF VerificationTypeOK, PageKnows, CallKnows
<1>7. JudgedIsSeen'
  <2> SUFFICES ASSUME NEW j \in Items, status'[j] # "pending", NEW n \in ImagesOf(j)
               PROVE  n \in seen' \cup slipped'
    BY <1>4 DEF JudgedIsSeen
  <2>1. CASE j = i
    BY <1>1, <1>2, <1>4, <2>1 DEF Covers
  <2>2. CASE j # i
    <3>1. status'[j] = status[j]
      BY <1>1, <1>2, <2>2 DEF VerificationTypeOK
    <3> QED
      BY <1>2, <3>1 DEF VerificationInv, JudgedIsSeen
  <2> QED
    BY <2>1, <2>2
<1>8. FlagsTellVerdicts'
  <2> SUFFICES ASSUME NEW j \in Items \ raced'
               PROVE  /\ flag'[j] = (verdict'[j] = "verified")
                      /\ status'[j] \in {"pending", verdict'[j]}
    BY DEF FlagsTellVerdicts
  <2>1. CASE j = i
    <3>1. status[i] = c.was /\ flag[i] = c.flagged
      BY <1>2, <2>1
    <3>2. verdict'[i] = c.verdict /\ status'[i] = c.verdict
      BY <1>1, <1>2, <3>1 DEF VerificationInv, VerificationTypeOK
    <3>3. flag'[i] = approves
      BY <1>1, <1>2, <1>3, <3>1 DEF VerificationTypeOK
    <3> QED
      BY <2>1, <3>2, <3>3 DEF approves
  <2>2. CASE j # i
    <3>1. /\ status'[j] = status[j] /\ flag'[j] = flag[j] /\ verdict'[j] = verdict[j]
          /\ j \notin raced
      BY <1>1, <1>2, <2>2 DEF VerificationInv, VerificationTypeOK
    <3> QED
      BY <3>1 DEF VerificationInv, FlagsTellVerdicts
  <2> QED
    BY <2>1, <2>2
<1>9. DOMAIN call' = Reviewers /\ DOMAIN page' = Reviewers
      /\ verdict' \in [Items -> {"none", "verified", "rejected"}]
  BY <1>1, <1>2 DEF VerificationInv
<1> QED
  BY <1>5, <1>6, <1>7, <1>8, <1>9 DEF VerificationInv

LEMMA VerificationInvStep ==
    VerificationInv /\ [VerificationNext]_verificationVars => VerificationInv'
<1> SUFFICES ASSUME VerificationInv, [VerificationNext]_verificationVars PROVE VerificationInv'
  OBVIOUS
<1>0. VerificationTypeOK /\ \A r \in Reviewers : PageKnows(r) /\ CallKnows(r)
  BY DEF VerificationInv
<1>1. ASSUME UNCHANGED <<stores, history>>, sending' \in [Senders -> Reading \cup {Idle}],
             DOMAIN page' = Reviewers, DOMAIN call' = Reviewers,
             \A r \in Reviewers : PageKnows(r)' /\ CallKnows(r)'
      PROVE  VerificationInv'
  BY <1>1 DEF stores, history, VerificationInv, VerificationTypeOK, JudgedIsSeen,
              FlagsTellVerdicts, ImagesOf, PageKnows, CallKnows
<1>2. ASSUME UNCHANGED <<stores, history>>
      PROVE  \A images, asOf : \A i \in Items : Covers(images, i, asOf)' = Covers(images, i, asOf)
  BY <1>2 DEF stores, Covers, ImagesOf
<1>3. ASSUME UNCHANGED <<stores, history, page, call>>
      PROVE  \A r \in Reviewers : PageKnows(r)' /\ CallKnows(r)'
  BY <1>3 DEF stores, history, VerificationInv, PageKnows, CallKnows, Covers, ImagesOf
<1>4. ASSUME NEW s \in Senders, NEW d \in Documents, UploadRead(s, d)
      PROVE  VerificationInv'
  <2>1. UNCHANGED <<stores, history, page, call>>
    BY <1>4 DEF UploadRead, queues
  <2>2. status[ItemOf(d)] \in Status /\ (~row) \in BOOLEAN
    BY <1>0 DEF VerificationTypeOK, Items
  <2>3. sending' \in [Senders -> Reading \cup {Idle}]
    BY <1>0, <1>4, <2>2 DEF UploadRead, VerificationTypeOK, Reading
  <2> QED
    BY <1>1, <1>3, <2>1, <2>3 DEF VerificationInv
<1>5. ASSUME NEW s \in Senders, UploadRefused(s)
      PROVE  VerificationInv'
  <2>1. UNCHANGED <<stores, history, page, call>>
    BY <1>5 DEF UploadRefused, queues
  <2>2. sending' \in [Senders -> Reading \cup {Idle}]
    BY <1>0, <1>5 DEF UploadRefused, VerificationTypeOK
  <2> QED
    BY <1>1, <1>3, <2>1, <2>2 DEF VerificationInv
<1>6. ASSUME NEW r \in Reviewers, ReadQueue(r)
      PROVE  VerificationInv'
  <2> DEFINE p == [items |-> BuildReviewQueue, asOf |-> stored]
  <2>1. UNCHANGED <<stores, history, sending, call>> /\ page' = [page EXCEPT ![r] = p]
    BY <1>6 DEF ReadQueue
  <2>2. \A i \in Items : p.items[i] \in {ImagesOf(i), {}}
    BY DEF BuildReviewQueue
  <2>3. p.asOf = stored /\ stored \in Nat /\ UNCHANGED stored
    BY <1>0, <2>1, VerificationAssumption DEF VerificationTypeOK, Image, stores, VerificationAssumption
  <2> HIDE DEF p
  <2>4. \A u \in Reviewers : page'[u] = IF u = r THEN p ELSE page[u]
    BY <2>1 DEF VerificationInv
  <2>5. \A i \in Items : p.items[i] \subseteq 1 .. stored /\ (p.items[i] # {} => Covers(p.items[i], i, stored))
    BY <1>0, <2>2, ImagesAreStored DEF Covers
  <2>6. \A u \in Reviewers : PageKnows(u)'
    BY <1>0, <1>2, <2>1, <2>3, <2>4, <2>5 DEF PageKnows
  <2>7. \A u \in Reviewers : CallKnows(u)'
    BY <1>0, <1>2, <2>1, <2>3 DEF CallKnows
  <2>8. DOMAIN page' = Reviewers /\ sending' \in [Senders -> Reading \cup {Idle}] 
    BY <1>0, <2>1 DEF VerificationInv, VerificationTypeOK
  <2> QED
    BY <1>1, <2>1, <2>6, <2>7, <2>8 DEF VerificationInv
<1>7. ASSUME NEW r \in Reviewers, NEW c,
             c = NoCall \/ (/\ c.at = "read" /\ c.item \in Decidable(r)
                            /\ c.verdict \in {"verified", "rejected"}
                            /\ c.was \in Status /\ c.flagged \in BOOLEAN
                            /\ c.sees = page[r].items[c.item] /\ c.asOf = page[r].asOf),
             call' = [call EXCEPT ![r] = c],
             UNCHANGED <<stores, history, sending, page>>
      PROVE  VerificationInv'
  <2>1. \A u \in Reviewers : call'[u] = IF u = r THEN c ELSE call[u]
    BY <1>7 DEF VerificationInv
  <2>2. UNCHANGED stored
    BY <1>7 DEF stores
  <2>3. CallKnows(r)'
    BY <1>0, <1>2, <1>7, <2>1, <2>2 DEF CallKnows, PageKnows, Decidable, NoCall
  <2>4. \A u \in Reviewers : CallKnows(u)'
    BY <1>0, <1>2, <1>7, <2>1, <2>2, <2>3 DEF CallKnows
  <2>5. \A u \in Reviewers : PageKnows(u)'
    BY <1>0, <1>2, <1>7, <2>2 DEF PageKnows
  <2>6. DOMAIN call' = Reviewers /\ sending' \in [Senders -> Reading \cup {Idle}]
    BY <1>0, <1>7 DEF VerificationInv, VerificationTypeOK
  <2> QED
    BY <1>1, <1>7, <2>4, <2>5, <2>6 DEF VerificationInv
<1>8. ASSUME NEW r \in Reviewers, NEW i \in Items, NEW v \in {"verified", "rejected"},
             Decide(r, i, v)
      PROVE  VerificationInv'
  <2> DEFINE c == [at |-> "read", item |-> i, verdict |-> v, sees |-> page[r].items[i],
                   asOf |-> page[r].asOf, was |-> status[i], flagged |-> flag[i]]
  <2>1. call' = [call EXCEPT ![r] = c] /\ UNCHANGED <<stores, history, sending, page>>
        /\ i \in Decidable(r)
    BY <1>8 DEF Decide
  <2>2. status[i] \in Status /\ flag[i] \in BOOLEAN
    BY <1>0 DEF VerificationTypeOK
  <2>3. /\ c.at = "read" /\ c.item = i /\ c.verdict = v /\ c.was = status[i]
        /\ c.flagged = flag[i] /\ c.sees = page[r].items[i] /\ c.asOf = page[r].asOf
    OBVIOUS
  <2> HIDE DEF c
  <2>4. c.flagged \in BOOLEAN
    BY <2>2, <2>3
  <2> QED
    BY <1>7, <2>1, <2>2, <2>3, <2>4
<1>9. ASSUME NEW r \in Reviewers, DecideFails(r)
      PROVE  VerificationInv'
  BY <1>7, <1>9 DEF DecideFails
<1>10. ASSUME UNCHANGED verificationVars
       PROVE  VerificationInv'
  <2>1. UNCHANGED <<stores, history, page, call, sending>>
    BY <1>10 DEF verificationVars, queues
  <2> QED
    BY <1>0, <1>1, <1>3, <2>1 DEF VerificationInv, VerificationTypeOK
<1> QED
  BY <1>4, <1>5, <1>6, <1>8, <1>9, <1>10, UploadSaveStep, ProcessSaveStep DEF VerificationNext

(* However uploads and decisions interleave, every image of an item that is  *)
(* decided was on the screen of somebody who decided it, or came in while    *)
(* they did; and the account says what was decided last, unless that was     *)
(* saved from a stale read.                                                 *)
THEOREM VerdictsAreBacked == VerificationSpec => []VerdictsStand
<1>1. VerificationInv => VerdictsStand
  BY DEF VerificationInv, VerdictsStand
<1> QED
  BY <1>1, VerificationInvInit, VerificationInvStep, PTL DEF VerificationSpec

-----------------------------------------------------------------------------
(* Entry *)

(* The form shown leads to the page asked for, and any other page is that    *)
(* page.                                                                    *)
OnTheWay ==
    ~strayed =>
        IF at.page \in Forms
        THEN Land(at.next).page = asked.page /\ (asked.dates => bounced)
        ELSE at.page = asked.page /\ (at.dates = asked.dates \/ bounced)

(* A menu is signing out only while its call is under way, or nobody is      *)
(* signed in, or whoever is joined it.                                      *)
MenuFree ==
    /\ session = "loading" => ~signingOut /\ ~leaving
    /\ session \in Roles /\ signingOut => leaving \/ joined

EntryInv == EntryTypeOK /\ OnTheWay /\ MenuFree

LEMMA Addresses ==
    /\ \A p \in Page : /\ To(p) \in Address /\ To(p).page = p /\ To(p).next = ""
                       /\ To(p).dates \in BOOLEAN /\ (p # "book" => To(p).dates = FALSE)
    /\ \A n \in Guarded \cup {""} :
           /\ Land(n) \in Address /\ Land(n).page \notin Forms /\ Land(n).next = ""
           /\ Land(n).dates = FALSE /\ (n # "" => Land(n).page = n)
    /\ \A p \in Guarded : [page |-> "login", next |-> p, dates |-> FALSE] \in Address
    /\ Land("").page = "home" /\ Land("").dates = FALSE
BY DEF To, Land, Address, Page, Site, Forms, Guarded

(* Moving to an address leaves the menu's part of the invariant. *)
LEMMA Arrived ==
    ASSUME EntryTypeOK, NEW a, Arrive(a)
    PROVE  /\ at' = a /\ form' \in Roles \cup {"incomplete"}
           /\ signingOut' \in BOOLEAN /\ joined' \in BOOLEAN
           /\ (signingOut' => signingOut) /\ (signingOut' /\ joined => joined')
BY DEF EntryTypeOK, Arrive

LEMMA EntryInvInit == EntryInit => EntryInv
<1> SUFFICES ASSUME EntryInit PROVE EntryInv
  OBVIOUS
<1>1. PICK p \in Page \ Forms : at = To(p)
  BY DEF EntryInit
<1>2. at \in Address /\ at.page = p /\ at.next = "" /\ at.dates \in BOOLEAN
  BY <1>1, Addresses
<1>3. NotSent \in [on: BOOLEAN, next: Guarded \cup {""}, as: SUBSET Roles]
  BY DEF NotSent
<1>4. asked = [page |-> at.page, dates |-> at.dates]
  BY DEF EntryInit
<1>5. EntryTypeOK
  <2>1. asked \in [page: Page \ Forms, dates: BOOLEAN]
    BY <1>2, <1>4
  <2>2. who \in Roles \cup {"none"} /\ session \in Roles \cup {"none", "loading"}
    BY DEF EntryInit
  <2>3. at \in Address /\ (at.next # "" => at.page \in Forms)
    BY <1>2
  <2>4. submitted \in [on: BOOLEAN, next: Guarded \cup {""}, as: SUBSET Roles]
    BY <1>3 DEF EntryInit
  <2>5. /\ form \in Roles \cup {"incomplete"} /\ signingOut \in BOOLEAN /\ leaving \in BOOLEAN
        /\ bounced \in BOOLEAN /\ strayed \in BOOLEAN /\ joined \in BOOLEAN
    BY DEF EntryInit
  <2> QED
    BY <2>1, <2>2, <2>3, <2>4, <2>5 DEF EntryTypeOK
<1>6. OnTheWay
  BY <1>2, <1>4 DEF OnTheWay
<1>7. MenuFree
  BY DEF EntryInit, MenuFree, Roles
<1> QED
  BY <1>5, <1>6, <1>7 DEF EntryInv

(* Navigation: the address becomes a, the form and the menu follow. *)
LEMMA Navigates ==
    ASSUME EntryInv, NEW a \in Address, Arrive(a), a.next # "" => a.page \in Forms,
           who' \in Roles \cup {"none"}, session' \in {session, "none"},
           leaving' \in {leaving, FALSE}, leaving' # leaving => session' = "none",
           UNCHANGED submitted,
           asked' \in [page: Page \ Forms, dates: BOOLEAN],
           bounced' \in BOOLEAN, strayed' \in BOOLEAN, OnTheWay'
    PROVE  EntryInv'
<1>1. EntryTypeOK /\ MenuFree
  BY DEF EntryInv
<1>2. /\ at' = a /\ form' \in Roles \cup {"incomplete"}
      /\ signingOut' \in BOOLEAN /\ joined' \in BOOLEAN
      /\ (signingOut' => signingOut) /\ (signingOut' /\ joined => joined')
  BY <1>1, Arrived
<1>3. leaving' \in BOOLEAN
  BY <1>1 DEF EntryTypeOK
<1>4. EntryTypeOK'
  BY <1>1, <1>2, <1>3 DEF EntryTypeOK
<1>5. MenuFree'
  <2>1. CASE session' = "none"
    BY <2>1 DEF MenuFree, Roles
  <2>2. CASE session' = session /\ leaving' = leaving
    BY <1>1, <1>2, <2>2 DEF MenuFree
  <2> QED
    BY <2>1, <2>2
<1> QED
  BY <1>4, <1>5 DEF EntryInv

LEMMA EntryInvStep == EntryInv /\ [EntryNext]_entryVars => EntryInv'
<1> SUFFICES ASSUME EntryInv, [EntryNext]_entryVars PROVE EntryInv'
  OBVIOUS
<1>0. EntryTypeOK /\ OnTheWay /\ MenuFree /\ at \in Address /\ at.page \in Page
      /\ at.next \in Guarded \cup {""} /\ at.dates \in BOOLEAN
      /\ asked.page \notin Forms /\ asked.dates \in BOOLEAN /\ bounced \in BOOLEAN
  BY DEF EntryInv, EntryTypeOK, Address
<1>1. ASSUME NEW p \in Page, FollowLink(p)
      PROVE  EntryInv'
  <2>1. p \notin Forms /\ Arrive(To(p)) /\ Chose(To(p), FALSE) /\ UNCHANGED <<who, session, submitted, leaving>>
    BY <1>1 DEF FollowLink
  <2>2. /\ asked' = [page |-> p, dates |-> To(p).dates] /\ at' = To(p)
        /\ bounced' = FALSE /\ strayed' = FALSE
    BY <2>1, Addresses DEF Chose, Arrive
  <2>3. OnTheWay' /\ asked' \in [page: Page \ Forms, dates: BOOLEAN]
    BY <2>1, <2>2, Addresses DEF OnTheWay
  <2> QED
    BY <1>0, <2>1, <2>2, <2>3, Addresses, Navigates DEF EntryTypeOK
<1>2. ASSUME NEW f \in Forms, OpenForm(f)
      PROVE  EntryInv'
  <2>1. /\ Arrive(To(f)) /\ Chose(Land(""), FALSE) /\ UNCHANGED <<who, session, submitted, leaving>>
        /\ f \in Page
    BY <1>2 DEF OpenForm, Page
  <2>2. /\ asked' = [page |-> "home", dates |-> FALSE] /\ at' = To(f)
        /\ bounced' = FALSE /\ strayed' = FALSE
    BY <2>1, Addresses DEF Chose, Arrive
  <2>3. OnTheWay'
    BY <2>1, <2>2, Addresses DEF OnTheWay
  <2>4. asked' \in [page: Page \ Forms, dates: BOOLEAN]
    BY <2>2 DEF Page, Site, Forms
  <2> QED
    BY <1>0, <2>1, <2>2, <2>3, <2>4, Addresses, Navigates, ZenonT(30) DEF EntryTypeOK
<1>3. ASSUME NEW f \in Forms, SwitchForm(f)
      PROVE  EntryInv'
  <2>1. /\ Arrive(To(f)) /\ strayed' = (strayed \/ at.next # "") /\ at.page \in Forms
        /\ UNCHANGED <<who, session, submitted, leaving, asked, bounced>> /\ f \in Page
    BY <1>3 DEF SwitchForm, Page
  <2>2. at' = To(f)
    BY <2>1 DEF Arrive
  <2>3. OnTheWay'
    <3>1. at'.page = f /\ at'.next = "" /\ f \in Forms
      BY <1>3, <2>1, <2>2, Addresses
    <3>2. ~strayed' => ~strayed /\ at.next = ""
      BY <2>1
    <3>3. ~strayed' => Land("").page = asked.page /\ (asked.dates => bounced)
      BY <1>0, <2>1, <3>2 DEF OnTheWay
    <3>4. asked' = asked /\ bounced' = bounced
      BY <2>1
    <3> QED
      BY <3>1, <3>3, <3>4 DEF OnTheWay
  <2>4. strayed' \in BOOLEAN
    BY <2>1
  <2> QED
    BY <1>0, <2>1, <2>3, <2>4, Addresses, Navigates DEF EntryTypeOK
<1>4. ASSUME NEW a \in Address, Load(a)
      PROVE  EntryInv'
  <2>1. /\ at' = a /\ session' = "loading" /\ form' = "incomplete" /\ submitted' = NotSent
        /\ signingOut' = FALSE /\ leaving' = FALSE /\ joined' = FALSE /\ who' = who
    BY <1>4 DEF Load
  <2>2. MenuFree'
    BY <2>1 DEF MenuFree, Roles
  <2>3. NotSent \in [on: BOOLEAN, next: Guarded \cup {""}, as: SUBSET Roles]
    BY DEF NotSent
  <2>4. CASE a = at
    <3>1. UNCHANGED <<asked, bounced, strayed>>
      BY <1>4, <2>4 DEF Load
    <3>2. OnTheWay'
      BY <1>0, <2>1, <2>4, <3>1 DEF OnTheWay
    <3>3. EntryTypeOK'
      BY <1>0, <2>1, <2>3, <2>4, <3>1 DEF EntryTypeOK
    <3> QED
      BY <2>2, <3>2, <3>3 DEF EntryInv
  <2>5. CASE a # at
    <3>1. PICK p \in Page \ Forms : a = To(p)
      BY <1>4, <2>5 DEF Load
    <3>2. Chose(a, FALSE)
      BY <1>4, <2>5 DEF Load
    <3>3. asked' = [page |-> p, dates |-> a.dates] /\ bounced' = FALSE /\ strayed' = FALSE
      BY <3>1, <3>2, Addresses DEF Chose
    <3>4. OnTheWay'
      BY <2>1, <3>1, <3>3, Addresses DEF OnTheWay
    <3>5. asked' \in [page: Page \ Forms, dates: BOOLEAN] /\ a.next = ""
      BY <3>1, <3>3, Addresses
    <3>6. EntryTypeOK'
      BY <1>0, <2>1, <2>3, <3>3, <3>5 DEF EntryTypeOK
    <3> QED
      BY <2>2, <3>4, <3>6 DEF EntryInv
  <2> QED
    BY <2>4, <2>5
<1>5. ASSUME session' \in Roles \cup {"none", "loading"}, form' \in Roles \cup {"incomplete"},
             submitted' \in [on: BOOLEAN, next: Guarded \cup {""}, as: SUBSET Roles],
             who' \in Roles \cup {"none"},
             signingOut' \in BOOLEAN, leaving' \in BOOLEAN, joined' \in BOOLEAN,
             MenuFree', UNCHANGED <<at, asked, bounced, strayed>>
      PROVE  EntryInv'
  <2>1. OnTheWay'
    BY <1>0, <1>5 DEF OnTheWay
  <2>2. EntryTypeOK'
    BY <1>0, <1>5 DEF EntryTypeOK
  <2> QED
    BY <1>5, <2>1, <2>2 DEF EntryInv
<1>6. CASE FillIn
  <2>1. form' \in Roles \cup {"incomplete"}
    BY <1>6 DEF FillIn, Complete, Roles
  <2>2. UNCHANGED <<who, session, at, submitted, signingOut, leaving, asked, bounced, strayed, joined>>
    BY <1>6 DEF FillIn
  <2>3. MenuFree'
    BY <1>0, <2>2 DEF MenuFree
  <2> QED
    BY <1>0, <1>5, <2>1, <2>2, <2>3 DEF EntryTypeOK
<1>7. CASE HandleSubmit
  <2>1. submitted' = [on |-> TRUE, next |-> at.next,
                      as |-> IF at.page = "register" THEN {form} ELSE Roles]
    BY <1>7 DEF HandleSubmit
  <2>2. UNCHANGED <<who, session, at, form, signingOut, leaving, asked, bounced, strayed, joined>>
        /\ form # "incomplete"
    BY <1>7 DEF HandleSubmit
  <2>3. (IF at.page = "register" THEN {form} ELSE Roles) \in SUBSET Roles
    BY <1>0, <2>2 DEF EntryTypeOK
  <2>4. submitted' \in [on: BOOLEAN, next: Guarded \cup {""}, as: SUBSET Roles]
    BY <1>0, <2>1, <2>3
  <2>5. MenuFree'
    BY <1>0, <2>2 DEF MenuFree
  <2> QED
    BY <1>0, <1>5, <2>2, <2>4, <2>5 DEF EntryTypeOK
<1>8. CASE HandleSignOut
  <2>1. /\ session \in Roles /\ signingOut' = TRUE /\ leaving' = TRUE
        /\ UNCHANGED <<who, session, at, form, submitted, asked, bounced, strayed, joined>>
    BY <1>8 DEF HandleSignOut
  <2>2. MenuFree'
    BY <2>1 DEF MenuFree, Roles
  <2> QED
    BY <1>0, <1>5, <2>1, <2>2 DEF EntryTypeOK
<1>9. CASE Hydrated
  <2>1. /\ session = "loading" /\ session' = who
        /\ UNCHANGED <<who, at, form, submitted, signingOut, leaving, asked, bounced, strayed, joined>>
    BY <1>9 DEF Hydrated
  <2>2. MenuFree' /\ who \in Roles \cup {"none"}
    BY <1>0, <2>1 DEF MenuFree, Roles, EntryTypeOK
  <2> QED
    BY <1>0, <1>5, <2>1, <2>2 DEF EntryTypeOK
<1>10. CASE GuardRedirects
  <2> DEFINE a == [page |-> "login", next |-> at.page, dates |-> FALSE]
  <2>1. /\ Arrive(a) /\ at.page \in Guarded /\ bounced' = TRUE
        /\ UNCHANGED <<who, session, submitted, leaving, asked, strayed>>
    BY <1>10 DEF GuardRedirects
  <2>2. a \in Address /\ a.page = "login" /\ a.next = at.page /\ at' = a
    BY <2>1, Addresses DEF Arrive
  <2>3. Land(at.page).page = at.page /\ at.page \notin Forms /\ "login" \in Forms
    BY <2>1 DEF Land, Guarded, Forms
  <2> HIDE DEF a
  <2>4. OnTheWay'
    BY <1>0, <2>1, <2>2, <2>3 DEF OnTheWay
  <2> QED
    BY <1>0, <2>1, <2>2, <2>3, <2>4, Navigates DEF EntryTypeOK
<1>11. CASE RedirectIfAuthenticated
  <2> DEFINE a == Land(at.next)
  <2>1. /\ Arrive(a) /\ at.page \in Forms
        /\ UNCHANGED <<who, session, submitted, leaving, asked, bounced, strayed>>
    BY <1>11 DEF RedirectIfAuthenticated
  <2>2. a \in Address /\ a.page \notin Forms /\ a.next = "" /\ a.dates = FALSE /\ at' = a
    BY <1>0, <2>1, Addresses DEF Arrive
  <2>3. OnTheWay'
    <3>1. CASE strayed
      BY <2>1, <3>1 DEF OnTheWay
    <3>2. CASE ~strayed
      <4>1. a.page = asked.page /\ (asked.dates => bounced)
        BY <1>0, <2>1, <3>2 DEF OnTheWay
      <4>2. a.dates = asked.dates \/ bounced
        BY <1>0, <2>2, <4>1
      <4> HIDE DEF a
      <4> QED
        BY <2>1, <2>2, <4>1, <4>2 DEF OnTheWay
    <3> QED
      BY <3>1, <3>2
  <2> HIDE DEF a
  <2> QED
    BY <1>0, <2>1, <2>2, <2>3, Navigates DEF EntryTypeOK
<1>12. ASSUME NEW r \in Roles, SubmitAnswered(r)
       PROVE  EntryInv'
  <2>1. PICK n \in {submitted.next} \cup IF at.page \in Forms THEN {at.next} ELSE {} :
           /\ at' = Land(n)
           /\ signingOut' = (signingOut /\ Layout(Land(n).page) = Layout(at.page))
    BY <1>12 DEF SubmitAnswered
  <2>2. /\ submitted' = NotSent /\ form' = "incomplete" /\ who' = r /\ session' = r
        /\ joined' = signingOut'
        /\ strayed' = (strayed \/ at.page \notin Forms \/ at.next # submitted.next)
        /\ UNCHANGED <<leaving, asked, bounced>>
    BY <1>12 DEF SubmitAnswered
  <2>3. n \in Guarded \cup {""}
    BY <1>0, <2>1 DEF EntryTypeOK
  <2>4. Land(n) \in Address /\ Land(n).page \notin Forms /\ Land(n).next = "" /\ Land(n).dates = FALSE
    BY <2>3, Addresses
  <2>5. OnTheWay'
    <3> SUFFICES ASSUME ~strayed'
                 PROVE  at'.page = asked.page /\ (at'.dates = asked.dates \/ bounced)
      BY <2>1, <2>2, <2>4 DEF OnTheWay
    <3>1. ~strayed /\ at.page \in Forms /\ n = at.next
      BY <2>1, <2>2
    <3>2. Land(n).page = asked.page /\ (asked.dates => bounced)
      BY <1>0, <3>1 DEF OnTheWay
    <3>3. Land(n).dates = asked.dates \/ bounced
      BY <1>0, <2>4, <3>2
    <3> QED
      BY <2>1, <3>2, <3>3
  <2>6. signingOut' \in BOOLEAN /\ strayed' \in BOOLEAN
    BY <2>1, <2>2
  <2>7. NotSent \in [on: BOOLEAN, next: Guarded \cup {""}, as: SUBSET Roles]
    BY DEF NotSent
  <2>8. EntryTypeOK'
    BY <1>0, <2>1, <2>2, <2>4, <2>6, <2>7 DEF EntryTypeOK
  <2>9. MenuFree'
    BY <2>2 DEF MenuFree, Roles
  <2> QED
    BY <2>5, <2>8, <2>9 DEF EntryInv
<1>13. CASE SubmitFails
  <2>1. /\ submitted' = NotSent
        /\ UNCHANGED <<who, session, at, form, signingOut, leaving, asked, bounced, strayed, joined>>
    BY <1>13 DEF SubmitFails
  <2>2. NotSent \in [on: BOOLEAN, next: Guarded \cup {""}, as: SUBSET Roles]
    BY DEF NotSent
  <2>3. MenuFree'
    BY <1>0, <2>1 DEF MenuFree
  <2> QED
    BY <1>0, <1>5, <2>1, <2>2, <2>3 DEF EntryTypeOK
<1>14. CASE SignOutAnswered
  <2>1. leaving' = FALSE /\ who' = "none" /\ session' = "none" /\ UNCHANGED submitted
    BY <1>14 DEF SignOutAnswered
  <2>2. "home" \in Page \ Forms /\ To("home").dates = FALSE
    BY Addresses DEF Page, Site, Forms
  <2>3. ASSUME NEW lost \in BOOLEAN, Chose(To("home"), lost)
        PROVE  /\ asked' = [page |-> "home", dates |-> FALSE] /\ bounced' = FALSE /\ strayed' = lost
               /\ asked' \in [page: Page \ Forms, dates: BOOLEAN]
    BY <2>2, <2>3, Addresses DEF Chose
  <2>4. CASE Arrive(To("home")) /\ Chose(To("home"), FALSE)
    <3>1. /\ asked' = [page |-> "home", dates |-> FALSE] /\ bounced' = FALSE /\ strayed' = FALSE
          /\ at' = To("home")
      BY <2>2, <2>4, Addresses DEF Chose, Arrive
    <3>2. OnTheWay'
      BY <2>2, <3>1, Addresses DEF OnTheWay
    <3>3. asked' \in [page: Page \ Forms, dates: BOOLEAN]
      BY <2>2, <3>1
    <3> QED
      BY <1>0, <2>1, <2>2, <2>4, <3>1, <3>2, <3>3, Addresses, Navigates DEF EntryTypeOK
  <2>5. CASE /\ at.page \in Guarded
             /\ Arrive([page |-> "login", next |-> at.page, dates |-> FALSE])
             /\ Chose(To("home"), TRUE)
    <3> DEFINE a == [page |-> "login", next |-> at.page, dates |-> FALSE]
    <3>1. asked' = [page |-> "home", dates |-> FALSE] /\ bounced' = FALSE /\ strayed' = TRUE
      BY <2>2, <2>5, Addresses DEF Chose
    <3>2. a \in Address /\ a.page = "login" /\ Arrive(a) /\ "login" \in Forms
      BY <2>5, Addresses DEF Forms
    <3>3. OnTheWay'
      BY <3>1 DEF OnTheWay
    <3>4. asked' \in [page: Page \ Forms, dates: BOOLEAN]
      BY <2>2, <3>1
    <3> HIDE DEF a
    <3> QED
      BY <1>0, <2>1, <3>1, <3>2, <3>3, <3>4, Navigates DEF EntryTypeOK
  <2> QED
    BY <1>14, <2>4, <2>5 DEF SignOutAnswered
<1>15. ASSUME NEW r \in Roles \cup {"none"}, OtherTab(r)
       PROVE  EntryInv'
  <2>1. /\ who' = r /\ session' = (IF session = "loading" THEN session ELSE r)
        /\ joined' = (joined \/ signingOut)
        /\ UNCHANGED <<at, form, submitted, signingOut, leaving, asked, bounced, strayed>>
    BY <1>15 DEF OtherTab
  <2>2. joined' \in BOOLEAN
    BY <2>1
  <2>3. MenuFree'
    BY <1>0, <2>1 DEF MenuFree, Roles
  <2> QED
    BY <1>0, <1>5, <2>1, <2>2, <2>3 DEF EntryTypeOK
<1>16. CASE UNCHANGED entryVars
  <2>1. UNCHANGED <<who, session, at, form, submitted, signingOut, leaving, asked, bounced,
                    strayed, joined>>
    BY <1>16 DEF entryVars
  <2>2. MenuFree'
    BY <1>0, <2>1 DEF MenuFree
  <2> QED
    BY <1>0, <1>5, <2>1, <2>2 DEF EntryTypeOK
<1> QED
  BY <1>1, <1>2, <1>3, <1>4, <1>6, <1>7, <1>8, <1>9, <1>10, <1>11, <1>12, <1>13, <1>14, <1>15,
     <1>16 DEF EntryNext

(* A visitor who is signed in and whose redirects are done is on the page    *)
(* they last chose, but for the form's other page, an old answer, and the    *)
(* dates that a guard's redirect loses.                                     *)
THEOREM VisitorsLand == EntrySpec => []LandsWhereAsked
<1>1. EntryInv => LandsWhereAsked
  BY DEF EntryInv, OnTheWay, LandsWhereAsked, Settled
<1> QED
  BY <1>1, EntryInvInit, EntryInvStep, PTL DEF EntrySpec

(* However sessions come and go in other tabs, a menu that somebody signed    *)
(* in sees does not stay signing out, unless it did so when they joined it.  *)
THEOREM SignOutStaysOffered == EntrySpec => []SignOutIsOffered
<1>1. EntryInv => SignOutIsOffered
  BY DEF EntryInv, MenuFree, SignOutIsOffered
<1> QED
  BY <1>1, EntryInvInit, EntryInvStep, PTL DEF EntrySpec

-----------------------------------------------------------------------------
(* The four stretches together *)

AccountsInv == DialogNames /\ TilesInv /\ VerificationInv /\ EntryInv

LEMMA AccountsInvInit == Init => AccountsInv
BY DialogNamesInit, TilesInvInit, VerificationInvInit, EntryInvInit DEF Init, AccountsInv

LEMMA AccountsInvStep ==
    AccountsInv /\ [Next]_<<entryVars, tilesVars, verificationVars, lookupVars, watched>>
        => AccountsInv'
<1> SUFFICES ASSUME AccountsInv,
                    [Next]_<<entryVars, tilesVars, verificationVars, lookupVars, watched>>
             PROVE  AccountsInv'
  OBVIOUS
<1>1. DialogNames /\ TilesInv /\ VerificationInv /\ EntryInv
  BY DEF AccountsInv
<1>2. /\ [EntryNext]_entryVars /\ [TilesNext]_tilesVars
      /\ [VerificationNext]_verificationVars /\ [LookupNext]_lookupVars
  BY DEF Next
<1> QED
  BY <1>1, <1>2, DialogNamesStep, TilesInvStep, VerificationInvStep, EntryInvStep DEF AccountsInv

(* Whichever stretch is followed, the variables of all four stay of their     *)
(* types.                                                                   *)
THEOREM AccountsTyped == Spec => []TypeOK
<1>1. DialogNames => LookupTypeOK
  BY DEF DialogNames, LookupTypeOK
<1>2. AccountsInv => TypeOK
  BY <1>1 DEF AccountsInv, TilesInv, VerificationInv, EntryInv, TypeOK
<1> QED
  BY <1>2, AccountsInvInit, AccountsInvStep, PTL DEF Spec

(* What is done to an account from the console, its documents judged or the  *)
(* account deleted, is done to what the person doing it had on screen.       *)
THEOREM AccountsDoneAsSeen == Spec => []DoneAsSeen
<1>1. AccountsInv => DoneAsSeen
  BY DEF AccountsInv, DialogNames, DeletedWasMeant, VerificationInv, VerdictsStand, DoneAsSeen
<1> QED
  BY <1>1, AccountsInvInit, AccountsInvStep, PTL DEF Spec
=============================================================================

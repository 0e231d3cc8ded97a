------------------------------ MODULE CarPhotos ------------------------------
(***************************************************************************)
(* The photos of one listing, or of one inspection: their rows, the files   *)
(* they point at, the handlers that change both without a transaction       *)
(* around them, and the photo pages of a few tabs.  A photo is the number   *)
(* of its upload.  A handler is two steps: what it reads and does to the    *)
(* file store, then its one save.                                           *)
(***************************************************************************)
EXTENDS Integers, FiniteSets

CONSTANTS
    Grids,        \* the pages open on these photos
    Followed,     \* bound: those that upload, and whose reads are followed
    MaxPhotos,   \* bound: rows ever stored
    MaxBatch     \* bound: files picked at once

ASSUME PhotosAssumption ==
    Followed \subseteq Grids /\ MaxPhotos \in Nat \ {0} /\ MaxBatch \in Nat \ {0}

VARIABLES
    kind,        \* whose photos these are: "listing" or "inspection"
    rows,        \* the photos stored; their order is not kept
    covers,      \* those with IsPrimary
    count,       \* photos stored so far
    files,       \* photos whose file is in the file store
    car,         \* the car: "free", "booked" or "deleted"
    upload,      \* each tab's batch: the request, and the files still to send
    change,      \* each tab's set-cover or delete request
    removal,     \* the request to delete the car
    shown,       \* what each tab's useAsync shows
    loading,     \* tabs whose newest read is on its way
    overlapped,  \* history: a save followed reads that another save outdated
    broken,      \* history: photos whose file went before a save that failed
    owed         \* history: tabs told of a change they have not been shown since

server == <<rows, covers, count, files, car>>
history == <<overlapped, broken, owed>>
photoVars == <<kind, server, upload, change, removal, shown, loading, history>>

Photos == 1 .. MaxPhotos

Upload == [at: {"idle", "sent", "read"}, primary: BOOLEAN,
           covers: SUBSET Photos, stale: BOOLEAN, left: 0 .. MaxBatch, some: BOOLEAN]
Change == [op: {"none", "cover", "delete"}, photo: 0 .. MaxPhotos,
           covers: SUBSET Photos, heir: 0 .. MaxPhotos, stale: BOOLEAN]

NoUpload == [at |-> "idle", primary |-> FALSE, covers |-> {},
             stale |-> FALSE, left |-> 0, some |-> FALSE]
NoChange == [op |-> "none", photo |-> 0, covers |-> {}, heir |-> 0, stale |-> FALSE]

PhotosTypeOK ==
    /\ kind \in {"listing", "inspection"}
    /\ count \in 0 .. MaxPhotos
    /\ covers \subseteq rows /\ rows \subseteq 1 .. count
    /\ kind = "inspection" => covers = {}
    /\ files \subseteq 1 .. count
    /\ car \in {"free", "booked", "deleted"}
    /\ car = "deleted" => rows = {}
    /\ upload \in [Grids -> Upload]
    /\ change \in [Grids -> Change]
    /\ removal \in [at: {"idle", "read"}, photos: SUBSET Photos]
    /\ shown \in [Grids -> {"loading", "success", "error"}]
    /\ loading \subseteq Grids
    /\ overlapped \in BOOLEAN
    /\ broken \subseteq rows
    /\ owed \subseteq Grids

(* None or one photo is stored already; the first photo of a car is its      *)
(* cover.                                                                   *)
PhotosInit ==
    /\ kind \in {"listing", "inspection"}
    /\ count \in 0 .. 1
    /\ rows = 1 .. count
    /\ covers = IF kind = "listing" THEN rows ELSE {}
    /\ files = 1 .. count
    /\ car = IF kind = "listing" THEN "free" ELSE "booked"
    /\ upload = [t \in Grids |-> NoUpload]
    /\ change = [t \in Grids |-> NoChange]
    /\ removal = [at |-> "idle", photos |-> {}]
    /\ shown = [t \in Grids |-> IF t \in Followed THEN "loading" ELSE "success"]
    /\ loading = Followed
    /\ overlapped = FALSE
    /\ broken = {}
    /\ owed = {}

-----------------------------------------------------------------------------
(* What a page does with an answer.  Photos are refetched, not patched. *)

Tell(t) == owed' = owed \cup ({t} \cap Followed)
Refetch(t) == Tell(t) /\ loading' = loading \cup ({t} \cap Followed)

(* The rest of the batch goes on after a success and stops at a failure; one *)
(* success is enough for a refetch.  Only the first carries the cover flag.  *)
NextUpload(t, ok) ==
    IF ok /\ upload[t].left > 0
    THEN [NoUpload EXCEPT !.at = "sent", !.left = upload[t].left - 1, !.some = TRUE]
    ELSE NoUpload

(* Mutant of BatchEnds: the grid is refetched when every file went in. *)
BatchEndsInFull(t, ok) ==
    \/ ok /\ upload[t].left = 0 /\ Refetch(t)
    \/ ok /\ upload[t].left > 0 /\ Tell(t) /\ UNCHANGED loading
    \/ ~ok /\ UNCHANGED <<loading, owed>>

BatchEnds(t, ok) ==
    \/ ok /\ upload[t].left = 0 /\ Refetch(t)
    \/ ok /\ upload[t].left > 0 /\ Tell(t) /\ UNCHANGED loading
    \/ ~ok /\ upload[t].some /\ Refetch(t)
    \/ ~ok /\ ~upload[t].some /\ UNCHANGED <<loading, owed>>

UploadFails(t) ==
    /\ upload' = [upload EXCEPT ![t] = NoUpload]
    /\ BatchEnds(t, FALSE)
    /\ UNCHANGED <<server, change, overlapped, broken>>

ChangeFails(t) ==
    /\ change' = [change EXCEPT ![t] = NoChange]
    /\ UNCHANGED <<server, upload, overlapped, loading, owed>>

(* A save outdates what every other handler of the car has read.  Its answer *)
(* may be lost on the way.                                                  *)
Outdated(call) == IF kind = "listing" /\ ~overlapped THEN [call EXCEPT !.stale = TRUE] ELSE call
OutdateUploads(others) ==
    [u \in Grids |-> IF u \in others /\ upload[u].at = "read"
                    THEN Outdated(upload[u]) ELSE upload[u]]
OutdateChanges(others) ==
    [u \in Grids |-> IF u \in others /\ change[u].op # "none"
                    THEN Outdated(change[u]) ELSE change[u]]

UploadSucceeds(t, ok) ==
    /\ upload' = [OutdateUploads(Grids \ {t}) EXCEPT ![t] = NextUpload(t, ok)]
    /\ change' = OutdateChanges(Grids)
    /\ overlapped' = (overlapped \/ upload[t].stale)
    /\ BatchEnds(t, ok)

ChangeSucceeds(t, ok) ==
    /\ change' = [OutdateChanges(Grids \ {t}) EXCEPT ![t] = NoChange]
    /\ upload' = OutdateUploads(Grids)
    /\ overlapped' = (overlapped \/ change[t].stale)
    /\ IF ok THEN Refetch(t) ELSE UNCHANGED <<loading, owed>>

-----------------------------------------------------------------------------
(* PhotoManager on the edit page of a listing and PhotoStrip on an           *)
(* inspection, and the handlers they call: UploadCarImage, DeleteCarImage    *)
(* and SetPrimaryCarImage, UploadInspectionPhoto and DeleteInspectionPhoto.  *)
(* A grid may be out of date, so what is on it is not kept: its user acts on *)
(* any photo that was ever stored.                                          *)
Elsewhere == UNCHANGED <<kind, removal, shown>>

(* A batch of n good files; with one bad file among them nothing is sent. *)
HandleFiles(t, n, makeCover) ==
    /\ t \in Followed
    /\ shown[t] = "success"
    /\ upload[t].at = "idle"
    /\ makeCover => kind = "listing"
    /\ upload' = [upload EXCEPT ![t] = [NoUpload EXCEPT !.at = "sent", !.primary = makeCover,
                                                        !.left = n - 1]]
    /\ UNCHANGED <<server, change, loading, history>>
    /\ Elsewhere

(* The handler reads the car with its images, and stores the file.  The first *)
(* photo is the cover whether or not it was asked for.                      *)
UploadRead(t) ==
    /\ upload[t].at = "sent"
    /\ car # "deleted"
    /\ LET isPrimary == kind = "listing" /\ (upload[t].primary \/ rows = {})
       IN  upload' = [upload EXCEPT ![t].at = "read", ![t].primary = isPrimary,
                                    ![t].covers = IF isPrimary THEN covers ELSE {}]
    /\ UNCHANGED <<server, change, loading, history>>
    /\ Elsewhere

(* The request never arrives, the car is gone, or the file store refuses. *)
UploadRefused(t) ==
    /\ upload[t].at # "idle"
    /\ UploadFails(t)
    /\ Elsewhere

Store ==
    /\ count < MaxPhotos
    /\ count' = count + 1
    /\ rows' = rows \cup {count'}
    /\ files' = files \cup {count'}

(* Mutant of UploadSave: nothing ties the row to its car. *)
UploadSaveUntied(t, ok) ==
    /\ kind = "listing"
    /\ upload[t].at = "read"
    /\ Store
    /\ covers' = IF upload[t].primary
                 THEN (covers \ upload[t].covers) \cup {count'} ELSE covers
    /\ UploadSucceeds(t, ok)
    /\ UNCHANGED <<car, broken>>
    /\ Elsewhere

(* The covers that were read are unmarked, and a row that is gone by then,   *)
(* or a car that is, fails the save.                                        *)
UploadSave(t, ok) ==
    /\ kind = "listing"
    /\ upload[t].at = "read"
    /\ \/ /\ car # "deleted" /\ upload[t].covers \subseteq rows
          /\ Store
          /\ covers' = IF upload[t].primary
                       THEN (covers \ upload[t].covers) \cup {count'} ELSE covers
          /\ UploadSucceeds(t, ok)
          /\ UNCHANGED <<car, broken>>
       \/ /\ car = "deleted" \/ ~(upload[t].covers \subseteq rows)
          /\ UploadFails(t)
    /\ Elsewhere

InspectionPhotoSave(t, ok) ==
    /\ kind = "inspection"
    /\ upload[t].at = "read"
    /\ Store
    /\ UploadSucceeds(t, ok)
    /\ UNCHANGED <<covers, car, broken>>
    /\ Elsewhere

(* One set-cover or delete at a time, whatever the uploads are doing. *)
Offered(t, p) ==
    /\ shown[t] = "success"
    /\ change[t] = NoChange
    /\ p \in 1 .. count

(* Making a photo the cover that is the cover already changes nothing. *)
HandleSetCover(t, p) ==
    /\ kind = "listing"
    /\ Offered(t, p)
    /\ p \in rows \ covers
    /\ change' = [change EXCEPT ![t] = [NoChange EXCEPT !.op = "cover", !.photo = p,
                                                        !.covers = covers]]
    /\ UNCHANGED <<server, upload, loading, history>>
    /\ Elsewhere

(* Mutant of CoverSave: the covers there were keep their flag. *)
CoverSaveBeside(t, ok) ==
    /\ change[t].op = "cover"
    /\ IF change[t].covers \cup {change[t].photo} \subseteq rows
       THEN /\ covers' = covers \cup {change[t].photo}
            /\ ChangeSucceeds(t, ok)
            /\ UNCHANGED <<rows, count, files, car>>
       ELSE ChangeFails(t)
    /\ UNCHANGED broken
    /\ Elsewhere

(* The siblings that were read are unmarked; a row that is gone by then fails *)
(* the save.                                                                *)
CoverSave(t, ok) ==
    /\ change[t].op = "cover"
    /\ IF change[t].covers \cup {change[t].photo} \subseteq rows
       THEN /\ covers' = (covers \ change[t].covers) \cup {change[t].photo}
            /\ ChangeSucceeds(t, ok)
            /\ UNCHANGED <<rows, count, files, car>>
       ELSE ChangeFails(t)
    /\ UNCHANGED broken
    /\ Elsewhere

(* The file is destroyed before the row is removed.  A cover's heir, the     *)
(* first in order of those left, is read in between; the order is not kept.  *)
HandleDelete(t, p) ==
    /\ Offered(t, p)
    /\ p \in rows
    /\ files' = files \ {p}
    /\ \E heir \in IF p \in covers /\ rows # {p} THEN rows \ {p} ELSE {0} :
         change' = [change EXCEPT ![t] = [NoChange EXCEPT !.op = "delete", !.photo = p,
                                                          !.heir = heir]]
    /\ UNCHANGED <<rows, covers, count, car, upload, loading, history>>
    /\ Elsewhere

DeleteSave(t, ok) ==
    /\ change[t].op = "delete"
    /\ LET p == change[t].photo
           heir == change[t].heir
       IN  IF p \in rows /\ heir \in rows \cup {0}
           THEN /\ rows' = rows \ {p}
                /\ covers' = (covers \ {p}) \cup ({heir} \ {0})
                /\ broken' = broken \ {p}
                /\ ChangeSucceeds(t, ok)
                /\ UNCHANGED <<count, files, car>>
           ELSE /\ broken' = (broken \cup {p}) \cap rows
                /\ ChangeFails(t)
    /\ Elsewhere

(* useAsync: the newest run's answer replaces what is shown, which stays up  *)
(* until then; older runs are cancelled.                                    *)
GridLanded(t) ==
    /\ t \in loading
    /\ car # "deleted"
    /\ loading' = loading \ {t}
    /\ shown' = [shown EXCEPT ![t] = "success"]
    /\ owed' = owed \ {t}
    /\ UNCHANGED <<kind, server, upload, change, removal, overlapped, broken>>

(* An error takes the grid away.  Its requests run on, and this model lets   *)
(* them end before the page is read again.                                  *)
GridFails(t) ==
    /\ t \in loading
    /\ loading' = loading \ {t}
    /\ shown' = [shown EXCEPT ![t] = "error"]
    /\ UNCHANGED <<kind, server, upload, change, removal, history>>

Quiet(t) == upload[t] = NoUpload /\ change[t] = NoChange

RetryGrid(t) ==
    /\ shown[t] = "error"
    /\ t \notin loading
    /\ Quiet(t)
    /\ loading' = loading \cup {t}
    /\ UNCHANGED <<kind, server, upload, change, removal, shown, history>>

-----------------------------------------------------------------------------
(* Mutant of HandleRemove: the files go before the bookings are counted. *)
HandleRemoveFilesFirst ==
    /\ kind = "listing"
    /\ removal.at = "idle"
    /\ car # "deleted"
    /\ removal' = IF car = "free" THEN [at |-> "read", photos |-> rows] ELSE removal
    /\ files' = files \ rows
    /\ UNCHANGED <<kind, rows, covers, count, car, upload, change, shown, loading, history>>

(* DeleteCar refuses a car that has bookings, destroys the files of its      *)
(* photos, and removes the rows and the car.  The listings page offers it    *)
(* for a car it has seen no booking of.                                     *)
HandleRemove ==
    /\ kind = "listing"
    /\ removal.at = "idle"
    /\ car = "free"
    /\ removal' = [at |-> "read", photos |-> rows]
    /\ files' = files \ rows
    /\ UNCHANGED <<kind, rows, covers, count, car, upload, change, shown, loading, history>>

(* A booking made since makes the foreign key refuse the save, and so does a *)
(* row that is gone; a photo added since goes with its car.                  *)
RemovalSave ==
    /\ removal.at = "read"
    /\ IF car = "free" /\ removal.photos \subseteq rows
       THEN /\ car' = "deleted"
            /\ rows' = {} /\ covers' = {} /\ files' = {} /\ broken' = {}
            /\ upload' = OutdateUploads(Grids)
            /\ change' = OutdateChanges(Grids)
       ELSE /\ broken' = (broken \cup removal.photos) \cap rows
            /\ UNCHANGED <<car, rows, covers, files, upload, change>>
    /\ removal' = [at |-> "idle", photos |-> {}]
    /\ UNCHANGED <<kind, count, shown, loading, overlapped, owed>>

Book ==
    /\ car = "free"
    /\ car' = "booked"
    /\ UNCHANGED <<kind, rows, covers, count, files, upload, change, removal, shown,
                   loading, history>>

PhotosNext ==
    \/ \E t \in Grids :
         \/ \E n \in 1 .. MaxBatch, makeCover \in BOOLEAN : HandleFiles(t, n, makeCover)
         \/ \E p \in Photos : HandleSetCover(t, p) \/ HandleDelete(t, p)
         \/ UploadRead(t) \/ UploadRefused(t)
         \/ \E ok \in BOOLEAN : \/ UploadSave(t, ok) \/ InspectionPhotoSave(t, ok)
                                 \/ CoverSave(t, ok) \/ DeleteSave(t, ok)
         \/ GridLanded(t) \/ GridFails(t) \/ RetryGrid(t)
    \/ HandleRemove \/ RemovalSave \/ Book

PhotosSpec == PhotosInit /\ [][PhotosNext]_photoVars

-----------------------------------------------------------------------------
(* As long as no handler saved on reads that another had outdated, a listing *)
(* with photos has exactly one cover: UploadCarImage marks the first photo,  *)
(* SetPrimaryCarImage unmarks the others and DeleteCarImage passes the flag  *)
(* on.  The upload and the delete of one page do overlap, and then it may    *)
(* have none or two.                                                        *)
CoverStands ==
    kind = "listing" /\ ~overlapped /\ rows # {} => Cardinality(covers) = 1

(* A photo that is listed can be opened: its file is in the store, but       *)
(* between the two halves of a delete, or after one whose save failed.       *)
ListedIsStored ==
    \A p \in rows \ files :
        \/ \E t \in Grids : change[t].op = "delete" /\ change[t].photo = p
        \/ removal.at = "read" /\ p \in removal.photos
        \/ p \in broken

(* Once its requests and its refetch are over, a grid shows what its own     *)
(* user was told of, a batch that failed half way included: it has been read *)
(* since the last photo that went in, became the cover or was removed.      *)
GridKeepsUp ==
    \A t \in owed : ~Quiet(t) \/ t \in loading \/ shown[t] = "error"
=============================================================================

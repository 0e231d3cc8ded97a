-------------------------------- MODULE Tiles --------------------------------
(***************************************************************************)
(* The verification page of one user: three tiles that upload a document    *)
(* each, and the map of what was sent, which the page keeps in localStorage *)
(* because the API does not tell.  What the server does with an upload is   *)
(* Verification's.                                                          *)
(***************************************************************************)

CONSTANTS
    TileDocuments,   \* the documents that have a tile
    Slots            \* uploads under way at once

VARIABLES
    sent,            \* the sent map, as the page shows it
    marks,           \* the sent map in localStorage
    upload,          \* the upload of each slot
    verified,        \* what the page's copy of the user calls verified
    heard,           \* history: documents that the page on screen knows were sent
    kept,            \* history: those of them that localStorage was able to take
    overlapped       \* history: another upload, or page, began before one ended

tilesVars == <<sent, marks, upload, verified, heard, kept, overlapped>>

(* The page an upload was started from is still shown, or was left, or is    *)
(* gone with all its closures.                                              *)
Uploads == [on: {TRUE}, document: TileDocuments, with: SUBSET TileDocuments,
            page: {"shown", "left"}]
NoUpload == [on |-> FALSE]

(* Both sides of the licence are verified as one. *)
Together(d) == IF d = "id" THEN {"id"} ELSE TileDocuments \ {"id"}

TileState(d) ==
    CASE d \in verified -> "verified"
      [] d \in sent \ verified -> "submitted"
      [] OTHER -> "empty"

(* A call of localStorage may fail, and is caught: what is there stays, and  *)
(* what cannot be read is taken for nothing.                                *)
readSent == {marks, {}}
writeSent(map) == {map, marks}

(* handleFile and upload: the closure keeps the sent map of the render it was *)
(* made in.  A tile that is busy disables its button, but still takes a     *)
(* photo that is dropped; one that is verified still takes another.         *)
Upload(s, d) ==
    /\ upload[s] = NoUpload
    /\ upload' = [upload EXCEPT ![s] =
           [on |-> TRUE, document |-> d, with |-> sent, page |-> "shown"]]
    /\ overlapped' = (overlapped \/ \E t \in Slots : upload[t] # NoUpload)
    /\ UNCHANGED <<sent, marks, verified, heard, kept>>

(* The user's flags are read again after an upload; reviewers change them. *)
UserLands ==
    /\ verified' \in {UNION {Together(d) : d \in D} : D \in SUBSET TileDocuments}
    /\ UNCHANGED <<sent, marks, upload, heard, kept, overlapped>>

(* The mark is added to the map the closure kept, and the result replaces    *)
(* what localStorage holds, if that takes it.                               *)
UploadAnswered(s) ==
    /\ upload[s] # NoUpload
    /\ upload' = [upload EXCEPT ![s] = NoUpload]
    /\ LET next == upload[s].with \cup {upload[s].document} IN
           /\ sent' = IF upload[s].page = "shown" THEN next ELSE sent
           /\ marks' \in writeSent(next)
           /\ heard' = IF upload[s].page = "shown" THEN heard \cup {upload[s].document}
                       ELSE heard
           /\ kept' = IF marks' = next THEN heard' ELSE kept
    /\ UNCHANGED <<verified, overlapped>>

(* Refused, failed, or its answer lost: the tile shows an error and no mark. *)
UploadFails(s) ==
    /\ upload[s] # NoUpload
    /\ upload' = [upload EXCEPT ![s] = NoUpload]
    /\ UNCHANGED <<sent, marks, verified, heard, kept, overlapped>>

Leave(s) == IF upload[s] = NoUpload THEN NoUpload ELSE [upload[s] EXCEPT !.page = "left"]

(* Mutant of Return: the page starts with nothing sent. *)
ReturnBlank ==
    /\ sent' = {}
    /\ heard' = kept
    /\ upload' = [s \in Slots |-> Leave(s)]
    /\ overlapped' = (overlapped \/ \E s \in Slots : upload[s] # NoUpload)
    /\ UNCHANGED <<marks, verified, kept>>

(* The page is left by a link and opened again, or replaced by an error when *)
(* the user cannot be read and then retried: its closures live on and write  *)
(* to localStorage from behind.  A map that cannot be read is forgotten.     *)
Return ==
    /\ sent' \in readSent
    /\ heard' = IF sent' = marks THEN kept ELSE {}
    /\ upload' = [s \in Slots |-> Leave(s)]
    /\ overlapped' = (overlapped \/ \E s \in Slots : upload[s] # NoUpload)
    /\ UNCHANGED <<marks, verified, kept>>

(* A reload takes the closures with it: what they had sent is never heard of. *)
Reload ==
    /\ sent' \in readSent
    /\ heard' = IF sent' = marks THEN kept ELSE {}
    /\ upload' = [s \in Slots |-> NoUpload]
    /\ UNCHANGED <<marks, verified, kept, overlapped>>

TilesInit ==
    /\ sent = {}
    /\ marks = {}
    /\ upload = [s \in Slots |-> NoUpload]
    /\ verified = {}
    /\ heard = {}
    /\ kept = {}
    /\ overlapped = FALSE

TilesNext ==
    \/ \E s \in Slots : \/ \E d \in TileDocuments : Upload(s, d)
                        \/ UploadAnswered(s)
                        \/ UploadFails(s)
    \/ UserLands
    \/ Return
    \/ Reload

TilesSpec == TilesInit /\ [][TilesNext]_tilesVars

-----------------------------------------------------------------------------
(* Properties *)

TilesTypeOK ==
    /\ sent \subseteq TileDocuments
    /\ marks \subseteq TileDocuments
    /\ upload \in [Slots -> Uploads \cup {NoUpload}]
    /\ verified \subseteq TileDocuments
    /\ heard \subseteq TileDocuments
    /\ kept \subseteq TileDocuments
    /\ overlapped \in BOOLEAN

(* What the map is kept for: a document that the page knows was sent does not *)
(* read "Not sent".  It does after two uploads overlapped, from two tiles or  *)
(* one: the one answered last adds its mark to the map it began with.        *)
SentIsShown == \A d \in heard : TileState(d) # "empty"

(* A document the page knows was sent is never offered as still to send, and  *)
(* one that localStorage took stays marked there for the next visit, unless  *)
(* another upload began, or the page was opened anew, before one had ended.  *)
(* A mark that localStorage would not take is known until the page is left,  *)
(* and saved with the next one; a page that could not read its marks knows   *)
(* of none, and its next mark replaces them.                                *)
MarksAreKept == ~overlapped => SentIsShown /\ kept \subseteq marks
=============================================================================

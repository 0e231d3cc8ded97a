----------------------------- MODULE Verification -----------------------------
(***************************************************************************)
(* A user's documents and the people who judge them: the user sends photos  *)
(* of them, reviewers decide what their copy of the queue shows.  Handlers  *)
(* read, then save only the columns they changed.                           *)
(* Images are numbered in the order they are stored; 0 is none.             *)
(***************************************************************************)
EXTENDS Naturals, FiniteSets

CONSTANTS
    Documents,       \* which of the three documents the user sends
    Reviewers,
    Senders,         \* upload requests under way at once
    MaxImages        \* bound on the images stored

ASSUME VerificationAssumption ==
    Documents \subseteq {"id", "front", "back"} /\ MaxImages \in Nat

VARIABLES
    row,             \* UserVerification exists
    image,           \* its image of each document
    stored,          \* images stored so far
    status,          \* its status of each item
    flag,            \* User.IdentityVerified, User.DriverLicenseVerified
    sending,         \* the upload request of each sender
    page,            \* each reviewer's queue
    call,            \* the decision each reviewer has under way
    seen,            \* history: images that were on screen when they were decided
    slipped,         \* history: images stored while a decision was being made
    verdict,         \* history: the decision saved last
    raced            \* history: that decision was made from a stale read

stores == <<row, image, stored, status, flag>>
history == <<seen, slipped, verdict, raced>>
queues == <<page, call>>
verificationVars == <<stores, history, sending, queues>>

(* Both sides of the licence share one status and one flag. *)
ItemOf(d) == IF d = "id" THEN "id" ELSE "licence"
Items == {ItemOf(d) : d \in Documents}
Status == {"pending", "verified", "rejected"}
Image == 0 .. MaxImages

Reading == [document: Documents, was: Status, fresh: BOOLEAN]
Idle == [document |-> "none"]
NoCall == [at |-> "idle", item |-> "id", verdict |-> "verified", sees |-> {}, asOf |-> 0,
           was |-> "pending", flagged |-> FALSE]

-----------------------------------------------------------------------------
(* UploadVerificationDocument *)

(* The handler reads the user first, then stores the file. *)
UploadRead(s, d) ==
    /\ sending[s] = Idle
    /\ stored < MaxImages
    /\ sending' = [sending EXCEPT ![s] =
           [document |-> d, was |-> status[ItemOf(d)], fresh |-> ~row]]
    /\ UNCHANGED <<stores, history, queues>>

(* Mutant of UploadSave: the status is left as it is. *)
UploadSaveKeepsStatus(s) ==
    LET u == sending[s]
        i == ItemOf(u.document) IN
    /\ u # Idle
    /\ stored < MaxImages
    /\ u.fresh => ~row
    /\ row' = TRUE
    /\ stored' = stored + 1
    /\ image' = [image EXCEPT ![u.document] = stored + 1]
    /\ slipped' = IF u.was = "pending" /\ status[i] # "pending"
                  THEN slipped \cup {stored + 1} ELSE slipped
    /\ sending' = [sending EXCEPT ![s] = Idle]
    /\ UNCHANGED <<status, flag, seen, verdict, raced, queues>>

(* A status read as pending is not written again.  The flag is not touched:  *)
(* what was verified stays so on the account.                               *)
UploadSave(s) ==
    LET u == sending[s]
        i == ItemOf(u.document) IN
    /\ u # Idle
    /\ stored < MaxImages
    /\ u.fresh => ~row
    /\ row' = TRUE
    /\ stored' = stored + 1
    /\ image' = [image EXCEPT ![u.document] = stored + 1]
    /\ status' = IF u.was # "pending" THEN [status EXCEPT ![i] = "pending"] ELSE status
    /\ slipped' = IF u.was = "pending" /\ status[i] # "pending"
                  THEN slipped \cup {stored + 1} ELSE slipped
    /\ sending' = [sending EXCEPT ![s] = Idle]
    /\ UNCHANGED <<flag, seen, verdict, raced, queues>>

(* The file or the save is refused; of two first uploads that both found no  *)
(* row, the second, as UserId is unique.                                    *)
UploadRefused(s) ==
    /\ sending[s] # Idle
    /\ sending' = [sending EXCEPT ![s] = Idle]
    /\ UNCHANGED <<stores, history, queues>>

-----------------------------------------------------------------------------
(* The queue *)

(* Mutant of ImagesOf: a row without an image is put in the queue as well. *)
ImagesOfPhantoms(i) == {image[d] : d \in {e \in Documents : ItemOf(e) = i}}

ImagesOf(i) == {image[d] : d \in {e \in Documents : ItemOf(e) = i}} \ {0}

(* Pending is also what a new row starts with: without an image it is one of *)
(* the phantoms that countPhantomRows counts.                               *)
BuildReviewQueue ==
    [i \in Items |-> IF row /\ status[i] = "pending" THEN ImagesOf(i) ELSE {}]

Decidable(r) == {i \in Items : page[r].items[i] # {}}

(* The queue is opened or read again: after a decision, or by an error's     *)
(* retry.  Until the answer lands the old copy is on screen.                *)
ReadQueue(r) ==
    /\ page' = [page EXCEPT ![r] = [items |-> BuildReviewQueue, asOf |-> stored]]
    /\ UNCHANGED <<stores, history, sending, call>>

(* decide: of the item on screen, whichever the reviewer has moved to, and   *)
(* of one they have just decided while the queue is still being read again. *)
(* A rejection wants a reason first, which the endpoint discards.  The      *)
(* handler then reads the user.                                             *)
Decide(r, i, v) ==
    /\ i \in Decidable(r)
    /\ call[r].at = "idle"
    /\ call' = [call EXCEPT ![r] =
           [at |-> "read", item |-> i, verdict |-> v, sees |-> page[r].items[i],
            asOf |-> page[r].asOf, was |-> status[i], flagged |-> flag[i]]]
    /\ UNCHANGED <<stores, history, sending, page>>

(* Only what differs from the row as it was read is written.  The user is    *)
(* notified afterwards, as Notifications says; the answer only ends submitting.*)
ProcessSave(r) ==
    LET c == call[r]
        i == c.item
        approves == c.verdict = "verified" IN
    /\ c.at = "read"
    /\ status' = IF c.verdict # c.was THEN [status EXCEPT ![i] = c.verdict] ELSE status
    /\ flag' = IF approves # c.flagged THEN [flag EXCEPT ![i] = approves] ELSE flag
    /\ call' = [call EXCEPT ![r] = NoCall]
    /\ seen' = seen \cup c.sees
    /\ slipped' = slipped \cup {n \in ImagesOf(i) : n > c.asOf}
    /\ verdict' = [verdict EXCEPT ![i] = c.verdict]
    /\ raced' = IF status[i] = c.was /\ flag[i] = c.flagged THEN raced \ {i} ELSE raced \cup {i}
    /\ UNCHANGED <<row, image, stored, sending, page>>

DecideFails(r) ==
    /\ call[r].at # "idle"
    /\ call' = [call EXCEPT ![r] = NoCall]
    /\ UNCHANGED <<stores, history, sending, page>>

-----------------------------------------------------------------------------

VerificationInit ==
    /\ row = FALSE
    /\ image = [d \in Documents |-> 0]
    /\ stored = 0
    /\ status = [i \in Items |-> "pending"]
    /\ flag = [i \in Items |-> FALSE]
    /\ sending = [s \in Senders |-> Idle]
    /\ page = [r \in Reviewers |-> [items |-> [i \in Items |-> {}], asOf |-> 0]]
    /\ call = [r \in Reviewers |-> NoCall]
    /\ seen = {}
    /\ slipped = {}
    /\ verdict = [i \in Items |-> "none"]
    /\ raced = {}

VerificationNext ==
    \/ \E s \in Senders : \/ \E d \in Documents : UploadRead(s, d)
                          \/ UploadSave(s)
                          \/ UploadRefused(s)
    \/ \E r \in Reviewers : \/ ReadQueue(r)
                            \/ \E i \in Items, v \in {"verified", "rejected"} : Decide(r, i, v)
                            \/ ProcessSave(r)
                            \/ DecideFails(r)

VerificationSpec == VerificationInit /\ [][VerificationNext]_verificationVars

-----------------------------------------------------------------------------
(* Properties *)

VerificationTypeOK ==
    /\ row \in BOOLEAN
    /\ image \in [Documents -> 0 .. stored]
    /\ stored \in Image
    /\ status \in [Items -> Status]
    /\ flag \in [Items -> BOOLEAN]
    /\ sending \in [Senders -> Reading \cup {Idle}]
    /\ \A r \in Reviewers : /\ \A i \in Items : page[r].items[i] \subseteq 1 .. page[r].asOf
                            /\ page[r].asOf <= stored
                            /\ call[r].at \in {"idle", "read"}

(* No document is judged unseen: what counts as decided was on the screen of *)
(* a reviewer who decided it, unless it was stored after that reviewer's     *)
(* page was read and before the decision was saved.                         *)
JudgedIsSeen ==
    \A i \in Items : status[i] # "pending" => ImagesOf(i) \subseteq seen \cup slipped

(* The account's flag says what was decided last, and the status the same or *)
(* that a new photo waits, unless that decision was made from a stale read   *)
(* and only half of it was written.                                         *)
FlagsTellVerdicts ==
    \A i \in Items \ raced :
        /\ flag[i] = (verdict[i] = "verified")
        /\ status[i] \in {"pending", verdict[i]}

VerdictsStand == JudgedIsSeen /\ FlagsTellVerdicts
=============================================================================

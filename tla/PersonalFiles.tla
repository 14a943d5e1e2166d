----------------------------- MODULE PersonalFiles -----------------------------
(***************************************************************************)
(* The files a member keeps: the documents of portfolios                   *)
(* (internal/portfolio), which an administrator reviews before they are    *)
(* public, and the avatar of the profile (internal/profile).               *)
(*                                                                         *)
(* An upload puts the object, then stores the row; when that reports an    *)
(* error the object is removed.  A commit whose answer is lost reports one *)
(* too: the files this has befallen are in "unsure".  An avatar replaces   *)
(* the former one, whose object is removed after the row changed.          *)
(***************************************************************************)
EXTENDS Naturals, FiniteSets

CONSTANTS
    Holders,        \* members
    Documents,      \* files of portfolios
    Pictures,       \* objects of avatars
    NoPicture, NoHolder,
    Uploaders       \* calls of the two upload endpoints and of deleteAvatar

ASSUME FilesAssumption ==
    Documents \cap Pictures = {} /\ NoPicture \notin Documents \cup Pictures

VARIABLES
    documents,      \* rows of portfolio_files
    lastEvent,      \* the last row of portfolio_file_events of each
    avatars,        \* account_profiles.avatar_storage_key
    objects,        \* what the store holds
    uploads,        \* running calls
    told,           \* files whose upload was answered with 201
    unsure          \* files whose row was stored though an error was reported

fileVars == <<documents, lastEvent, avatars, objects, uploads, told, unsure>>

NoDocument == [status |-> "none", owner |-> NoHolder]
UploadIdle == [step |-> "idle", owner |-> NoHolder, key |-> NoPicture]
NoEvent == [action |-> "none", from |-> "none"]

FilesTypeOK ==
    /\ documents \in [Documents ->
           [status : {"none", "hidden", "pending_review", "published", "unpublished", "rejected"},
            owner : Holders \cup {NoHolder}]]
    /\ lastEvent \in [Documents ->
           [action : {"none", "uploaded", "submitted_for_review", "unpublished", "hidden",
                      "approved", "rejected"},
            from : {"none", "hidden", "pending_review", "published", "unpublished", "rejected"}]]
    /\ avatars \in [Holders -> Pictures \cup {NoPicture}]
    /\ objects \subseteq Documents \cup Pictures
    /\ uploads \in [Uploaders ->
           [step : {"idle", "store", "remove", "failed"}, owner : Holders \cup {NoHolder},
            key : Documents \cup Pictures \cup {NoPicture}]]
    /\ told \subseteq Documents \cup Pictures
    /\ unsure \subseteq Documents \cup Pictures

\* Keys carry a fresh uuid.
Used == objects \cup told \cup unsure \cup {uploads[u].key : u \in Uploaders}
          \cup {d \in Documents : documents[d] # NoDocument}

Run(u, step, h, key) ==
    uploads' = [uploads EXCEPT ![u] = [step |-> step, owner |-> h, key |-> key]]

End(u) == uploads' = [uploads EXCEPT ![u] = UploadIdle]

-----------------------------------------------------------------------------
(* Uploads.                                                                *)

\* What is put is the object of a document or of an avatar; a Put that fails
\* is followed by the removal of what it may have left.
PutObject(u, h, key) ==
    /\ uploads[u] = UploadIdle /\ key \notin Used
    /\ \/ Run(u, "store", h, key) /\ objects' = objects \cup {key}
       \/ Run(u, "failed", h, key) /\ objects' \in {objects, objects \cup {key}}
    /\ UNCHANGED <<documents, lastEvent, avatars, told, unsure>>

Logged(d, action) ==
    lastEvent' = [lastEvent EXCEPT ![d] = [action |-> action, from |-> documents[d].status]]

CreateFile(u) ==
    LET d == uploads[u].key IN
    /\ uploads[u].step = "store" /\ d \in Documents
    /\ documents' = [documents EXCEPT ![d] = [status |-> "hidden", owner |-> uploads[u].owner]]
    /\ Logged(d, "uploaded")
    /\ \/ End(u) /\ told' = told \cup {d} /\ UNCHANGED unsure
       \/ Run(u, "failed", uploads[u].owner, d) /\ unsure' = unsure \cup {d} /\ UNCHANGED told
    /\ UNCHANGED <<avatars, objects>>

\* A faulty variant of Replaced: the key that is removed is the one that the
\* row names now.
ReplacedBy(h, key) == key

\* The key the row named when the statement began.
Replaced(h, key) == avatars[h]

SetAvatar(u) ==
    LET h == uploads[u].owner  key == uploads[u].key IN
    /\ uploads[u].step = "store" /\ key \in Pictures
    /\ avatars' = [avatars EXCEPT ![h] = key]
    /\ \/ /\ IF Replaced(h, key) = NoPicture THEN End(u) ELSE Run(u, "remove", h, Replaced(h, key))
          /\ told' = told \cup {key} /\ UNCHANGED unsure
       \/ Run(u, "failed", h, key) /\ unsure' = unsure \cup {key} /\ UNCHANGED told
    /\ UNCHANGED <<documents, lastEvent, objects>>

ClearAvatar(u, h) ==
    /\ uploads[u] = UploadIdle
    /\ avatars' = [avatars EXCEPT ![h] = NoPicture]
    /\ IF avatars[h] = NoPicture THEN UNCHANGED uploads ELSE Run(u, "remove", h, avatars[h])
    /\ UNCHANGED <<documents, lastEvent, objects, told, unsure>>

\* The row was not stored.
StoreFails(u) ==
    /\ uploads[u].step = "store"
    /\ Run(u, "failed", uploads[u].owner, uploads[u].key)
    /\ UNCHANGED <<documents, lastEvent, avatars, objects, told, unsure>>

\* A failure to remove is passed over.
RemoveObject(u) ==
    /\ uploads[u].step \in {"remove", "failed"}
    /\ objects' \in {objects, objects \ {uploads[u].key}}
    /\ End(u)
    /\ UNCHANGED <<documents, lastEvent, avatars, told, unsure>>

Uploading ==
    \E u \in Uploaders :
        \/ \E h \in Holders, key \in Documents \cup Pictures : PutObject(u, h, key)
        \/ \E h \in Holders : ClearAvatar(u, h)
        \/ CreateFile(u) \/ SetAvatar(u) \/ StoreFails(u) \/ RemoveObject(u)

-----------------------------------------------------------------------------
(* The life of a document.                                                 *)

Allowed(d, action) ==
    documents[d].status \in
        CASE action = "submitted_for_review" -> {"hidden", "unpublished", "rejected"}
          [] action = "unpublished" -> {"published"}
          [] action = "hidden" -> {"published", "unpublished", "rejected"}
          [] OTHER -> {"pending_review"}

ChangeStatus(d, action, target) ==
    /\ Allowed(d, action)
    /\ documents' = [documents EXCEPT ![d].status = target]
    /\ Logged(d, action)
    /\ UNCHANGED <<avatars, objects, uploads, told, unsure>>

SubmitForReview(d) == ChangeStatus(d, "submitted_for_review", "pending_review")
Unpublish(d) == ChangeStatus(d, "unpublished", "unpublished")
Hide(d) == ChangeStatus(d, "hidden", "hidden")

\* By an administrator.
ReviewFile(d, approved) ==
    IF approved THEN ChangeStatus(d, "approved", "published")
    ELSE ChangeStatus(d, "rejected", "rejected")

Reviewing ==
    \E d \in Documents :
        \/ SubmitForReview(d) \/ Unpublish(d) \/ Hide(d)
        \/ \E b \in BOOLEAN : ReviewFile(d, b)

FilesInit ==
    /\ documents = [d \in Documents |-> NoDocument]
    /\ lastEvent = [d \in Documents |-> NoEvent]
    /\ avatars = [h \in Holders |-> NoPicture]
    /\ objects = {} /\ told = {} /\ unsure = {}
    /\ uploads = [u \in Uploaders |-> UploadIdle]

FilesNext == Uploading \/ Reviewing

FilesSpec == FilesInit /\ [][FilesNext]_fileVars

-----------------------------------------------------------------------------

\* What is public is what an administrator approved because its owner had
\* asked for it (portfolio/postgres_repository.go, ReviewFile).
PublishedWasReviewed ==
    \A d \in Documents :
        documents[d].status = "published" =>
            lastEvent[d] = [action |-> "approved", from |-> "pending_review"]

\* A document can be downloaded, and an avatar opened, if its upload was
\* confirmed and no statement's answer was lost: calls that replace and clear
\* an avatar remove only what no row names (portfolio/handler.go, uploadFile;
\* profile/handler.go, uploadAvatar).
ConfirmedFilesOpen ==
    /\ \A d \in told \cap Documents : d \in objects
    /\ \A h \in Holders : avatars[h] # NoPicture => avatars[h] \in objects \cup unsure

\* A published document was reviewed as it is, and a confirmed file can be
\* opened (changeOwnerStatus, SetAvatar).
FilesHold == FilesTypeOK /\ PublishedWasReviewed /\ ConfirmedFilesOpen

\* Whatever a row names can be opened.  It is not so when the answer of a
\* commit is lost: the handler takes it for a failure and removes the object.
RowsHaveObjects ==
    /\ \A d \in Documents : documents[d] # NoDocument =>
         d \in objects \/ \E u \in Uploaders : uploads[u].key = d
    /\ \A h \in Holders : avatars[h] # NoPicture => avatars[h] \in objects
================================================================================

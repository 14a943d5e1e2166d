----------------------------- MODULE Verification -----------------------------
(***************************************************************************)
(* Verification of students, by a code mailed to a school address or by    *)
(* documents an administrator reviews, and the annual clean-up             *)
(* (internal/verification, cmd/annual-maintenance).                        *)
(*                                                                         *)
(* Requests are those of one academic year, which the clean-up is asked    *)
(* for.  A code right or wrong, its expiry and that of a verification are  *)
(* choices; a request is handled for a session that was active when it     *)
(* started, and the account may be suspended before its transaction.  The  *)
(* clean-up removes files from the store within its transaction, one call  *)
(* each; if it ends without a commit the files stay removed.               *)
(***************************************************************************)
EXTENDS Accounts

CONSTANTS
    Requests,       \* rows of verification_requests, each of one account
    Requester,      \* the account of a request
    Method,         \* "school_email" or "document"
    Proofs,         \* files uploaded for a request
    MaxTries        \* wrong codes a challenge bears

ASSUME VerificationAssumption == MaxTries \in Nat \ {0}

VARIABLES
    requests,       \* rows of verification_requests
    codes,          \* the challenge of each request
    proofs,         \* rows of verification_documents
    objects,        \* files in the store, uploads in progress included
    student,        \* status of the student_verifications row of an account
    decisions,      \* rows of verification_events that name a request
    domain,         \* whether the domain of the school is on the list
    cleanup         \* the annual clean-up and the files it has yet to remove

verifyVars == <<requests, codes, proofs, objects, student, decisions, domain,
                cleanup>>

NoCode == [state |-> "none", tries |-> 0]

VerifyTypeOK ==
    /\ requests \in [Requests -> {"none", "pending", "approved", "rejected", "purged"}]
    /\ codes \in [Requests -> [state : {"none", "open", "used"}, tries : 0..MaxTries]]
    /\ proofs \subseteq Requests \X Proofs
    /\ objects \subseteq Requests \X Proofs
    /\ student \in [AccountIds -> {"none", "active", "due", "expired"}]
    /\ decisions \in [Requests -> Nat]
    /\ domain \in BOOLEAN
    /\ cleanup \in [run : {"none", "removing", "failed", "completed"},
                    files : SUBSET (Requests \X Proofs)]

Signed(a) == accounts[a].status = "active"

DocumentsOf(r) == {k \in proofs : k[1] = r}

-----------------------------------------------------------------------------
(* The school address.                                                     *)

IsSchoolEmailAllowed == domain

CreateEmailRequest(r) ==
    /\ Method[r] = "school_email" /\ Signed(Requester[r])
    /\ IsSchoolEmailAllowed /\ requests[r] = "none"
    /\ requests' = [requests EXCEPT ![r] = "pending"]
    /\ UNCHANGED <<codes, proofs, objects, student, decisions, domain, cleanup>>

CreateEmailChallenge(r) ==
    /\ Method[r] = "school_email" /\ requests[r] = "pending"
    /\ codes[r].state = "none"
    /\ codes' = [codes EXCEPT ![r].state = "open"]
    /\ UNCHANGED <<requests, proofs, objects, student, decisions, domain, cleanup>>

\* The code that was entered is right for at most MaxTries entries.
TakesCode(r) == codes[r].state = "open" /\ codes[r].tries < MaxTries

\* A faulty variant of Promoted: whatever the status of the account.
PromotedAnyway(a) == [accounts EXCEPT ![a].identity = "student"]

Promoted(a) == IF accounts[a].status = "active"
               THEN [accounts EXCEPT ![a].identity = "student"] ELSE accounts

Logged(r) == [decisions EXCEPT ![r] = @ + 1]

Verify(r) ==
    /\ requests' = [requests EXCEPT ![r] = "approved"]
    /\ student' = [student EXCEPT ![Requester[r]] = "active"]
    /\ accounts' = Promoted(Requester[r])
    /\ decisions' = Logged(r)

EnterRightCode(r) ==
    /\ requests[r] = "pending" /\ TakesCode(r)
    /\ codes' = [codes EXCEPT ![r].state = "used"]
    /\ Verify(r)
    /\ UNCHANGED <<proofs, objects, domain, cleanup>>

EnterWrongCode(r) ==
    /\ requests[r] = "pending" /\ TakesCode(r)
    /\ codes' = [codes EXCEPT ![r].tries = @ + 1]
    /\ UNCHANGED <<requests, proofs, objects, student, decisions, domain, cleanup>>

-----------------------------------------------------------------------------
(* Documents.                                                              *)

CreateDocumentRequest(r) ==
    /\ Method[r] = "document" /\ Signed(Requester[r])
    /\ requests[r] = "none"
    /\ requests' = [requests EXCEPT ![r] = "pending"]
    /\ UNCHANGED <<codes, proofs, objects, student, decisions, domain, cleanup>>

\* The file is stored before the request is looked at.
PutProof(r, f) ==
    /\ Signed(Requester[r]) /\ <<r, f>> \notin objects \cup proofs
    /\ objects' = objects \cup {<<r, f>>}
    /\ UNCHANGED <<requests, codes, proofs, student, decisions, domain, cleanup>>

TakesProofs(r) == Method[r] = "document" /\ requests[r] = "pending"

CreateDocument(r, f) ==
    /\ <<r, f>> \in objects \ proofs /\ TakesProofs(r)
    /\ proofs' = proofs \cup {<<r, f>>}
    /\ UNCHANGED <<requests, codes, objects, student, decisions, domain, cleanup>>

\* CreateDocument failed: the handler removes the file again.
RemoveProof(r, f) ==
    /\ <<r, f>> \in objects \ proofs
    /\ objects' = objects \ {<<r, f>>}
    /\ UNCHANGED <<requests, codes, proofs, student, decisions, domain, cleanup>>

Reviewable(r) == Method[r] = "document" /\ requests[r] = "pending"

\* The review writes the rows of the documents, which a clean-up has locked.
Unlocked(r) == cleanup.run # "removing" \/ DocumentsOf(r) \cap cleanup.files = {}

HasProof(r) == DocumentsOf(r) # {}

ReviewApproves(r) ==
    /\ Reviewable(r) /\ HasProof(r) /\ Unlocked(r)
    /\ Verify(r)
    /\ UNCHANGED <<codes, proofs, objects, domain, cleanup>>

ReviewRejects(r) ==
    /\ Reviewable(r) /\ Unlocked(r)
    /\ requests' = [requests EXCEPT ![r] = "rejected"]
    /\ decisions' = Logged(r)
    /\ UNCHANGED <<accounts, codes, proofs, objects, student, domain, cleanup>>

SetDomainActive(active) ==
    /\ domain' = active
    /\ UNCHANGED <<requests, codes, proofs, objects, student, decisions, cleanup>>

-----------------------------------------------------------------------------
(* The annual clean-up, one transaction.                                   *)

VerificationLapses(a) ==
    /\ student[a] = "active"
    /\ student' = [student EXCEPT ![a] = "due"]
    /\ UNCHANGED <<requests, codes, proofs, objects, decisions, domain, cleanup>>

StartCleanup ==
    /\ cleanup.run \in {"none", "failed"}
    /\ cleanup' = [run |-> "removing", files |-> proofs]
    /\ UNCHANGED <<requests, codes, proofs, objects, student, decisions, domain>>

RemoveObject(k) ==
    /\ cleanup.run = "removing" /\ k \in cleanup.files
    /\ objects' = objects \ {k}
    /\ cleanup' = [cleanup EXCEPT !.files = @ \ {k}]
    /\ UNCHANGED <<requests, codes, proofs, student, decisions, domain>>

\* A removal that fails is recorded; any other end leaves no trace.
CleanupStops ==
    /\ cleanup.run = "removing"
    /\ \E run \in {"failed", "none"} : cleanup' = [run |-> run, files |-> {}]
    /\ UNCHANGED <<requests, codes, proofs, objects, student, decisions, domain>>

\* Deleting a request sets the reference of its events to null, which the
\* trigger of the append-only table refuses.
RequestDeletable(r) == decisions[r] = 0

Senior(a) == accounts[a].identity = "student" /\ student[a] # "active"

CommitCleanup ==
    /\ cleanup.run = "removing" /\ cleanup.files = {}
    /\ \A r \in Requests : requests[r] # "none" => RequestDeletable(r)
    /\ requests' = [r \in Requests |->
                        IF requests[r] = "none" THEN "none" ELSE "purged"]
    /\ codes' = [r \in Requests |-> NoCode]
    /\ proofs' = {}
    /\ student' = [a \in AccountIds |->
                       IF student[a] = "due" THEN "expired" ELSE student[a]]
    /\ accounts' = [a \in AccountIds |->
                       IF Senior(a) THEN [accounts[a] EXCEPT !.identity = "senior"]
                       ELSE accounts[a]]
    /\ cleanup' = [run |-> "completed", files |-> {}]
    /\ UNCHANGED <<objects, decisions, domain>>

-----------------------------------------------------------------------------
VerifyInit ==
    /\ requests = [r \in Requests |-> "none"]
    /\ codes = [r \in Requests |-> NoCode]
    /\ proofs = {} /\ objects = {}
    /\ \E earlier \in {"none", "active"} :     \* verified in an earlier year
           student = [a \in AccountIds |->
               IF \E r \in Requests : Requester[r] = a THEN earlier ELSE "none"]
    /\ decisions = [r \in Requests |-> 0]
    /\ domain = TRUE
    /\ cleanup = [run |-> "none", files |-> {}]

SchoolEmail(r) == CreateEmailRequest(r) \/ CreateEmailChallenge(r) \/ EnterWrongCode(r)

Documents(r) ==
    \/ CreateDocumentRequest(r)
    \/ \E f \in Proofs : PutProof(r, f) \/ CreateDocument(r, f) \/ RemoveProof(r, f)

Decision(r) == EnterRightCode(r) \/ ReviewApproves(r) \/ ReviewRejects(r)

Cleanup == StartCleanup \/ (\E k \in cleanup.files : RemoveObject(k)) \/ CleanupStops

VerifyNext ==
    \/ /\ \/ \E r \in Requests : Decision(r)
          \/ CommitCleanup
       /\ UNCHANGED <<links, sessions, calls, purge>>
    \/ /\ \/ \E r \in Requests : SchoolEmail(r) \/ Documents(r)
          \/ \E active \in BOOLEAN : SetDomainActive(active)
          \/ \E a \in AccountIds : VerificationLapses(a)
          \/ Cleanup
       /\ UNCHANGED accountVars
    \/ /\ \E a \in AccountIds : SuspendUser(Root, a) \/ ReinstateUser(Root, a)
       /\ UNCHANGED verifyVars

\* The accounts are any there may be when a year begins.
VerifySpec ==
    AccountsTypeOK /\ VerifyInit /\ [][VerifyNext]_<<accountVars, verifyVars>>

-----------------------------------------------------------------------------
(* ConsumeEmailCode and ReviewDocumentRequest: however requests, reviews   *)
(* and the clean-up overlap, a request is decided at most once, and its    *)
(* decision is on record as long as it exists.                             *)
DecidedOnce ==
    \A r \in Requests :
        decisions[r] = IF requests[r] \in {"approved", "rejected"} THEN 1 ELSE 0

(* CreateDocument and ReviewDocumentRequest: an approval rests on          *)
(* documents that were there when it was made, none of them added later.   *)
ApprovedOnProof ==
    [][\A r \in Requests :
         Method[r] = "document" /\ requests'[r] \in {"approved", "rejected"}
         => /\ requests'[r] = "approved" => {k \in proofs : k[1] = r} # {}
            /\ {k \in proofs' : k[1] = r} \subseteq proofs]_verifyVars

(* Promoted: the identity of an account that is suspended while its        *)
(* request is decided does not change.                                     *)
SuspendedUnchanged ==
    [][\A a \in AccountIds : accounts[a].status = "suspended"
                             => accounts'[a].identity # "student"
                                \/ accounts[a].identity = "student"]_verifyVars

(* PurgeAnnualData: no student whose verification is still active becomes  *)
(* a senior.                                                               *)
VerifiedStayStudents ==
    [][\A a \in AccountIds : student[a] = "active" /\ accounts[a].identity = "student"
                             => accounts'[a].identity = "student"]_<<verifyVars, accounts>>

(* A request is decided once, on documents that were there, and neither a  *)
(* decision nor the annual clean-up changes the identity of an account     *)
(* that is suspended or verified (ReviewDocumentRequest, PurgeAnnualData). *)
VerificationHolds ==
    /\ [](VerifyTypeOK /\ DecidedOnce)
    /\ ApprovedOnProof /\ SuspendedUnchanged /\ VerifiedStayStudents

(* COMMENT ON TABLE verification_requests (000007_verification.sql:189):   *)
(* the clean-up removes the requests and their documents.  When it has     *)
(* removed the files of the year it can delete the rows as well.           *)
CleanupCanFinish ==
    cleanup.run = "removing" /\ cleanup.files = {}
    => \A r \in Requests : requests[r] # "none" => RequestDeletable(r)

(* verification-api.md:31: an approval updates the identity of the account *)
(* as well.  One that is suspended at that moment stays what it was.       *)
VerifiedIsStudent ==
    \A a \in AccountIds :
        student[a] = "active" /\ accounts[a].status = "active"
        => accounts[a].identity = "student"
=============================================================================

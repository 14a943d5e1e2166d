-------------------------- MODULE AccountApplications --------------------------
(***************************************************************************)
(* Applications for an account by people without a school address          *)
(* (internal/accountapplications, reached from the public form, the        *)
(* buttons and replies of Discord, the Telegram bot and inbound mail).     *)
(*                                                                         *)
(* An approval reads the application, creates the account, marks it and    *)
(* only then records the decision, each on its own; another decision may   *)
(* come in between and any step may fail.  A call between two steps is a   *)
(* record of "calls" whose field "of" is the application.  Usernames are   *)
(* free to choose (an approval tries other ones when the requested one is  *)
(* taken); the address is what every attempt shares.                       *)
(***************************************************************************)
EXTENDS Accounts

CONSTANTS
    Applications,   \* rows of account_applications
    Applicant,      \* the address each of them was submitted with
    Uploads         \* files attached to a submission or to a reply

ASSUME ApplicantAssumption ==
    Applicant \in [Applications -> Addresses] /\ Nobody \notin Applications

VARIABLES
    applications,   \* rows of account_applications
    posts,          \* applications with a post and buttons in the forum
    rows, stored,   \* account_application_documents; objects of the store
    transcript,     \* rows of account_application_messages, by their kind
    delivered,      \* mails the mail service took, by their kind
    createdFor      \* the application each approved account was created for

fileVars == <<rows, stored>>
messageVars == <<transcript, delivered>>
accountRest == <<accounts, links, sessions, purge>>
appVars == <<applications, posts, fileVars, messageVars, createdFor>>

NoApplication == [status |-> "none", thread |-> FALSE, account |-> Nobody]

Outbound == {"receipt", "correction", "rejection"}
Messages == Outbound \cup {"note", "reply"}

AppTypeOK ==
    /\ applications \in [Applications ->
           [status : {"none", "pending", "approved", "rejected"},
            thread : BOOLEAN, account : AccountIds \cup {Nobody}]]
    /\ posts \subseteq Applications
    /\ rows \subseteq Applications \X Uploads
    /\ stored \subseteq Applications \X Uploads
    /\ transcript \subseteq Applications \X Messages
    /\ delivered \subseteq Applications \X Outbound
    /\ createdFor \in [AccountIds -> Applications \cup {Nobody}]

AppCall(c, step, p, a) ==
    calls' = [calls EXCEPT ![c] = [Idle EXCEPT !.step = step, !.acct = a, !.of = p]]

At(c, step) == calls[c].step = step

\* A message is recorded after what it reports; a failure is only logged.
AddMessage(p, m) ==
    \/ transcript' = transcript \cup {<<p, m>>}
    \/ UNCHANGED transcript

Sends(p, m) == delivered' = delivered \cup {<<p, m>>}

-----------------------------------------------------------------------------
(* The public form.                                                        *)

SubmitFromWeb(c, p) ==
    /\ calls[c] = Idle /\ applications[p] = NoApplication
    /\ applications' = [applications EXCEPT ![p].status = "pending"]
    /\ AppCall(c, "receipt", p, Nobody)
    /\ AddMessage(p, "note")
    /\ UNCHANGED <<posts, fileVars, delivered, createdFor, accountRest>>

PutFile(k) == stored' = stored \cup {k} /\ UNCHANGED rows

\* storeAttachments skips a file that fails, at either of its two steps.
StoreAttachment(p, f) ==
    /\ applications[p].status # "none"
    /\ <<p, f>> \notin stored
    /\ PutFile(<<p, f>>)
    /\ UNCHANGED <<applications, posts, messageVars, createdFor, accountVars>>

AddDocument(p, f) ==
    /\ <<p, f>> \in stored \ rows
    /\ rows' = rows \cup {<<p, f>>}
    /\ UNCHANGED <<applications, posts, stored, messageVars, createdFor, accountVars>>

\* Without the receipt the submission ends here, with an error.
SendReceipt(c) ==
    LET p == calls[c].of IN
    /\ At(c, "receipt")
    /\ Sends(p, "receipt") /\ AddMessage(p, "receipt")
    /\ AppCall(c, "forum", p, Nobody)
    /\ UNCHANGED <<applications, posts, fileVars, createdFor, accountRest>>

CreateThread(c) ==
    LET p == calls[c].of IN
    /\ At(c, "forum")
    /\ posts' = posts \cup {p}
    /\ AppCall(c, "thread", p, Nobody)
    /\ UNCHANGED <<applications, fileVars, messageVars, createdFor, accountRest>>

SetDiscordThread(c) ==
    LET p == calls[c].of IN
    /\ At(c, "thread")
    /\ applications' = [applications EXCEPT ![p].thread = TRUE]
    /\ Return(c)
    /\ UNCHANGED <<posts, fileVars, messageVars, createdFor, accountRest>>

-----------------------------------------------------------------------------
(* Decisions, by the buttons of the forum post or by the Telegram bot.     *)

\* DecideByDiscord needs the post and the thread that was recorded for it;
\* the service endpoint needs only the number of the application.
Reached(p) == applications[p].status = "pending"

Approve(c, p) ==
    /\ calls[c] = Idle /\ Reached(p)
    /\ AppCall(c, "approve", p, Nobody)
    /\ UNCHANGED <<appVars, accountRest>>

AddressFree(a, m) == Free(a, m)

\* With another username when the requested one is taken, five times.
CreateApprovedAccount(c, a) ==
    LET p == calls[c].of IN
    /\ At(c, "approve") /\ AddressFree(a, Applicant[p])
    /\ accounts' = Created(a, "active", Applicant[p], 0)
    /\ createdFor' = [createdFor EXCEPT ![a] = p]
    /\ AppCall(c, "mark", p, a)
    /\ UNCHANGED <<applications, posts, fileVars, messageVars>>
    /\ UNCHANGED <<links, sessions, purge>>

Verified(a) == accounts' = [accounts EXCEPT ![a].identity = "student"]

MarkAccountIdentityVerified(c) ==
    LET a == calls[c].acct IN
    /\ At(c, "mark") /\ accounts[a].status = "active"
    /\ Verified(a)
    /\ AppCall(c, "decide", calls[c].of, a)
    /\ UNCHANGED appVars /\ UNCHANGED <<links, sessions, purge>>

\* A faulty variant of Undecided: the row is updated whatever it says.
UndecidedAnyway(p) == applications[p].status # "none"

Undecided(p) == applications[p].status = "pending"

Decide(p, status, a) ==
    /\ Undecided(p)
    /\ applications' = [applications EXCEPT ![p].status = status, ![p].account = a]

\* A failure is only logged.
SendApprovedAccountActivation(c, a) == sendPasswordResetEmail(c, a)

DecideApproved(c) ==
    /\ At(c, "decide")
    /\ Decide(calls[c].of, "approved", calls[c].acct)
    /\ SendApprovedAccountActivation(c, calls[c].acct)
    /\ UNCHANGED <<posts, fileVars, messageVars, createdFor, accountRest>>

Reject(c, p) ==
    /\ calls[c] = Idle /\ Reached(p)
    /\ AppCall(c, "reject", p, Nobody)
    /\ UNCHANGED <<appVars, accountRest>>

DecideRejected(c) ==
    /\ At(c, "reject")
    /\ Decide(calls[c].of, "rejected", Nobody)
    /\ AppCall(c, "rejection", calls[c].of, Nobody)
    /\ UNCHANGED <<posts, fileVars, messageVars, createdFor, accountRest>>

SendRejection(c) ==
    LET p == calls[c].of IN
    /\ At(c, "rejection")
    /\ Sends(p, "rejection") /\ AddMessage(p, "rejection")
    /\ Return(c)
    /\ UNCHANGED <<applications, posts, fileVars, createdFor, accountRest>>

-----------------------------------------------------------------------------
(* The conversation.                                                       *)

\* The applicant answers a mail; the answer names the application.
HandleInboundReply(p) ==
    /\ \E m \in Outbound : <<p, m>> \in delivered
    /\ transcript' = transcript \cup {<<p, "reply">>}
    /\ UNCHANGED <<applications, posts, fileVars, delivered, createdFor, accountVars>>

\* A member of staff writes in the thread, also after the decision.
ReplyByDiscord(p) ==
    /\ p \in posts /\ applications[p].thread
    /\ Sends(p, "correction") /\ AddMessage(p, "correction")
    /\ UNCHANGED <<applications, posts, fileVars, createdFor, accountVars>>

-----------------------------------------------------------------------------
AppInit ==
    /\ applications = [p \in Applications |-> NoApplication]
    /\ posts = {} /\ rows = {} /\ stored = {}
    /\ transcript = {} /\ delivered = {}
    /\ createdFor = [a \in AccountIds |-> Nobody]

Submission(c) == SendReceipt(c) \/ CreateThread(c) \/ SetDiscordThread(c)

Decisions(c) ==
    \/ \E a \in AccountIds : CreateApprovedAccount(c, a)
    \/ MarkAccountIdentityVerified(c) \/ DecideApproved(c)
    \/ DecideRejected(c) \/ SendRejection(c)

Conversation(p) ==
    \/ HandleInboundReply(p) \/ ReplyByDiscord(p)
    \/ \E f \in Uploads : StoreAttachment(p, f) \/ AddDocument(p, f)

AppSteps ==
    \/ \E c \in AuthCallers, p \in Applications :
           SubmitFromWeb(c, p) \/ Approve(c, p) \/ Reject(c, p)
    \/ \E c \in AuthCallers : Submission(c) \/ Decisions(c)
    \/ \E p \in Applications : Conversation(p)

\* What accounts do meanwhile: links are mailed and followed, requests
\* fail, and the applicant or somebody else registers with an address.
AccountsMeanwhile ==
    /\ \/ \E c \in AuthCallers : LinkSteps(c) \/ CallFails(c)
       \/ \E l \in LinkIds : ConfirmPasswordReset(l)
       \/ \E c \in AuthCallers, a \in AccountIds, m \in Addresses : Register(c, a, m)
    /\ UNCHANGED appVars

AppNext == AppSteps \/ AccountsMeanwhile

AppSpec == AccountsInit /\ AppInit /\ [][AppNext]_<<accountVars, appVars>>

-----------------------------------------------------------------------------
(* Approve pressed twice: whatever the two calls see, only one account is  *)
(* ever created for an application (postgres_repository.go:239, "a double  *)
(* tap on the Telegram buttons can't double-create an account").           *)
OneAccountEach ==
    \A a, b \in AccountIds :
        createdFor[a] = createdFor[b] /\ createdFor[a] # Nobody => a = b

(* Approve, MarkAccountIdentityVerified, Decide: an approved application   *)
(* has an active account of a student that was created for it.             *)
ApprovedHasAccount ==
    \A p \in Applications :
        applications[p].status = "approved"
        => LET a == applications[p].account IN
           /\ a # Nobody /\ createdFor[a] = p
           /\ accounts[a].status = "active" /\ accounts[a].identity = "student"

(* Decide: of two decisions made at once the first one stands, and no      *)
(* applicant is mailed a rejection unless that is the decision.            *)
RejectionsStand ==
    \A p \in Applications :
        <<p, "rejection">> \in delivered => applications[p].status = "rejected"

(* createPending, Reject and ReplyByDiscord record a message after the     *)
(* mail service took it: the transcript reviewers read shows no mail that  *)
(* was never sent.                                                         *)
TranscriptWasSent ==
    \A p \in Applications, m \in Outbound :
        <<p, m>> \in transcript => <<p, m>> \in delivered

(* storeAttachments: a document of an application has its file.            *)
DocumentsHaveFiles == rows \subseteq stored

(* However two decisions and their failing steps overlap, an application   *)
(* has one account, approved means a student's account, a rejection that   *)
(* was mailed stands, the transcript was sent, and documents have files    *)
(* (Approve, Reject, Decide, storeAttachments).                            *)
ApplicationsHold ==
    /\ AppTypeOK
    /\ OneAccountEach /\ ApprovedHasAccount /\ RejectionsStand
    /\ TranscriptWasSent /\ DocumentsHaveFiles

(* Approve (service.go:414) "creates an active, verified-student account   *)
(* for a pending application"; one that is rejected meanwhile has it too.  *)
RejectedHasNone ==
    \A a \in AccountIds :
        createdFor[a] # Nobody => applications[createdFor[a]].status # "rejected"

(* createPending: once the submission is over, reviewers have the post.    *)
ReviewersWereTold ==
    \A p \in Applications :
        applications[p].status = "pending" /\ (\A c \in AuthCallers : calls[c].of # p)
        => p \in posts /\ applications[p].thread

(* Approve: a pending application nobody is working on can be approved.    *)
ApprovalCanEnd ==
    \A a \in AccountIds, p \in Applications :
        createdFor[a] = p /\ applications[p].status = "pending"
        => \E c \in AuthCallers : calls[c].of = p
=============================================================================

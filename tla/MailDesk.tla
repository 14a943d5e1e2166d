------------------------------- MODULE MailDesk -------------------------------
(***************************************************************************)
(* Mail and reports that staff answer in Discord (internal/emailinquiries, *)
(* internal/accountmail and the contributions of internal/admissions).     *)
(*                                                                         *)
(* A case is a row of email_inquiries, admissions_contributions ("report") *)
(* or account_applications; a forum thread is made for it after the row is *)
(* committed and linked to it by a further statement, and every step of a  *)
(* request can be its last.  A mail stands for its message, its attachment *)
(* and its Message-ID.  Reports refused by a rate limit, Turnstile, the    *)
(* scanner or their validation and mail without a usable sender or route   *)
(* leave nothing behind and are left out.                                  *)
(***************************************************************************)
EXTENDS Naturals, FiniteSets

CONSTANTS
    People,         \* e-mail addresses outside
    CaseIds,        \* bound on the cases
    MailIds,        \* bound on the mails and reports handed in
    ThreadIds,      \* bound on the forum threads
    NoCase, NoThread, NoOne,
    Intakes,        \* requests the API handles at a time
    Staff,          \* accounts that open the staff's pages
    Admins,         \* those that are administrators
    Moderators      \* those that may manage admissions

ASSUME MailDeskAssumption ==
    /\ NoCase \notin CaseIds /\ NoThread \notin ThreadIds /\ NoOne \notin People
    /\ Admins \subseteq Moderators /\ Moderators \subseteq Staff

VARIABLES
    cases,          \* the rows, with their transcripts and documents
    threads,        \* the forum threads, as Discord keeps them
    objects,        \* objects of the blob store
    intakes,        \* requests between two of their steps
    mailed,         \* replies the mail server took
    unposted        \* mails that were not posted in their thread (history)

deskVars == <<cases, threads, objects, intakes, mailed, unposted>>

NoRowYet == [kind |-> "none", from |-> NoOne, thread |-> NoThread,
             status |-> "pending", heard |-> {}, files |-> {},
             receipt |-> FALSE]
NoPost == [about |-> NoCase, shows |-> {}]
IntakeIdle == [step |-> "idle", case |-> NoCase, mail |-> "none",
               thread |-> NoThread, from |-> NoOne]

Kinds == {"application", "inquiry", "report"}

DeskTypeOK ==
    /\ cases \in [CaseIds ->
           [kind : Kinds \cup {"none"}, from : People \cup {NoOne},
            thread : ThreadIds \cup {NoThread},
            status : {"pending", "accepted", "rejected"},
            heard : SUBSET MailIds, files : SUBSET MailIds, receipt : BOOLEAN]]
    /\ threads \in [ThreadIds -> [about : CaseIds \cup {NoCase},
                                  shows : SUBSET MailIds]]
    /\ objects \subseteq MailIds /\ unposted \subseteq MailIds
    /\ \A c \in Intakes : intakes[c].step \in
           {"idle", "attach", "open", "link", "note", "record", "post",
            "row", "receipt", "forum", "linkReport"}

FreeCases == {i \in CaseIds : cases[i].kind = "none"}
FreeThreads == {t \in ThreadIds : threads[t].about = NoCase}
Used == (UNION {cases[i].heard \cup cases[i].files : i \in CaseIds})
            \cup {intakes[c].mail : c \in Intakes} \cup objects
FreeMails == MailIds \ Used

\* Message-IDs name the case they were sent for, except those of reports.
Known(p) == {i \in CaseIds : /\ cases[i].kind \in {"application", "inquiry"}
                             /\ \E r \in mailed : r.case = i /\ r.to = p}

FindByDiscordThread(kind, t) ==
    {i \in CaseIds : cases[i].kind = kind /\ cases[i].thread = t}

\* The pages that show a case to an administrator.
ListMessages(i) == cases[i].heard
ListInquiriesByRoute(a) ==
    IF a \in Admins THEN {i \in CaseIds : cases[i].kind = "inquiry"} ELSE {}
GetInquiryDetail(a, i) ==
    IF i \in ListInquiriesByRoute(a) THEN ListMessages(i) ELSE {}

IntakeStep(c, step) == intakes' = [intakes EXCEPT ![c].step = step]
IntakeEnds(c) == intakes' = [intakes EXCEPT ![c] = IntakeIdle]

Insert(i, kind, p) ==
    [cases EXCEPT ![i] = [NoRowYet EXCEPT !.kind = kind, !.from = p]]

Heard(i, m) == [cases EXCEPT ![i].heard = @ \cup {m}]

\* The first message of the thread is about the case.
CreateThread(c, next) ==
    \E t \in FreeThreads :
        /\ threads' = [threads EXCEPT ![t] =
               [about |-> intakes[c].case,
                shows |-> {intakes[c].mail}]]
        /\ intakes' = [intakes EXCEPT ![c].thread = t, ![c].step = next]

-----------------------------------------------------------------------------
(* intake: a mail that refers to no case becomes an inquiry.               *)
IntakeFromEmail(c, m, p) ==
    /\ intakes[c].step = "idle" /\ m \in FreeMails
    /\ \E i \in FreeCases :
           /\ cases' = Insert(i, "inquiry", p)
           /\ intakes' = [intakes EXCEPT ![c] =
                  [step |-> "attach", case |-> i, mail |-> m,
                   thread |-> NoThread, from |-> p]]
    /\ UNCHANGED <<threads, objects, mailed, unposted>>

\* storeAttachments skips an attachment that it cannot store or record.
StoreAttachments(c, next) ==
    LET m == intakes[c].mail
    IN  /\ \/ UNCHANGED <<objects, cases>>
           \/ objects' = objects \cup {m} /\ UNCHANGED cases
           \/ /\ objects' = objects \cup {m}
              /\ cases' = [cases EXCEPT ![intakes[c].case].files = @ \cup {m}]
        /\ IntakeStep(c, next)
        /\ UNCHANGED <<threads, mailed, unposted>>

StoreInquiryAttachments(c) ==
    /\ intakes[c].step = "attach" /\ intakes[c].thread = NoThread
    /\ StoreAttachments(c, "open")

CreateInquiryThread(c) ==
    /\ intakes[c].step = "open"
    /\ CreateThread(c, "link")
    /\ UNCHANGED <<cases, objects, mailed, unposted>>

SetDiscordThread(c) ==
    /\ intakes[c].step = "link"
    /\ cases' = [cases EXCEPT ![intakes[c].case].thread = intakes[c].thread]
    /\ IntakeStep(c, "note")
    /\ UNCHANGED <<threads, objects, mailed, unposted>>

\* A link that fails is logged, and the message is recorded all the same.
SetDiscordThreadFails(c) ==
    /\ intakes[c].step = "link" /\ IntakeStep(c, "note")
    /\ UNCHANGED <<cases, threads, objects, mailed, unposted>>

NoteInquiry(c) ==
    /\ intakes[c].step = "note"
    /\ cases' = Heard(intakes[c].case, intakes[c].mail)
    /\ IntakeEnds(c)
    /\ UNCHANGED <<threads, objects, mailed, unposted>>

-----------------------------------------------------------------------------
(* intake: a mail that refers to a case, of an inquiry or an application.  *)

ThreadOf(i) == cases[i].thread

HandleInboundReply(c, m, p) ==
    /\ intakes[c].step = "idle" /\ m \in FreeMails
    /\ \E i \in Known(p) :
           intakes' = [intakes EXCEPT ![c] =
               [step |-> "record", case |-> i, mail |-> m,
                thread |-> ThreadOf(i), from |-> p]]
    /\ UNCHANGED <<cases, threads, objects, mailed, unposted>>

\* storeAttachments and AddMessage.
RecordReply(c) ==
    LET i == intakes[c].case  m == intakes[c].mail
    IN  /\ intakes[c].step = "record"
        /\ cases' = Heard(i, m)
        /\ IF intakes[c].thread = NoThread THEN IntakeEnds(c)
           ELSE IntakeStep(c, "post")
        /\ UNCHANGED <<threads, objects, mailed, unposted>>

PostEmbed(c) ==
    /\ intakes[c].step = "post"
    /\ \/ /\ threads' = [threads EXCEPT ![intakes[c].thread].shows =
                             @ \cup {intakes[c].mail}]
          /\ UNCHANGED unposted
       \/ unposted' = unposted \cup {intakes[c].mail} /\ UNCHANGED threads
    /\ IntakeEnds(c)
    /\ UNCHANGED <<cases, objects, mailed>>

-----------------------------------------------------------------------------
(* create: a report with its file; the objects are removed again unless    *)
(* the row was created.                                                    *)
PutReportFile(c, m, p) ==
    /\ intakes[c].step = "idle" /\ m \in FreeMails
    /\ objects' = objects \cup {m}
    /\ intakes' = [intakes EXCEPT ![c] =
           [step |-> "row", case |-> NoCase, mail |-> m, thread |-> NoThread,
            from |-> p]]
    /\ UNCHANGED <<cases, threads, mailed, unposted>>

CreateContribution(c) ==
    /\ intakes[c].step = "row"
    /\ \E i \in FreeCases :
           /\ cases' = [Insert(i, "report", intakes[c].from) EXCEPT
                            ![i].files = {intakes[c].mail}]
           /\ intakes' = [intakes EXCEPT ![c].step = "receipt", ![c].case = i]
    /\ UNCHANGED <<threads, objects, mailed, unposted>>

\* The row is not created; or it is, and the answer to the commit is lost
\* with the connection of the client.
CreateContributionFails(c) ==
    /\ intakes[c].step = "row"
    /\ \/ UNCHANGED cases
       \/ \E i \in FreeCases :
              cases' = [Insert(i, "report", intakes[c].from) EXCEPT
                            ![i].files = {intakes[c].mail}]
    /\ objects' = objects \ {intakes[c].mail}
    /\ IntakeEnds(c)
    /\ UNCHANGED <<threads, mailed, unposted>>

\* A faulty variant of KeepsFiles: the files go unless the post was made.
KeepsFilesWhenPosted(c, posted) ==
    IF posted THEN objects ELSE objects \ {intakes[c].mail}

KeepsFiles(c, posted) == objects

QueueReceipt(c) ==
    /\ intakes[c].step = "receipt"
    /\ cases' = [cases EXCEPT ![intakes[c].case].receipt = TRUE]
    /\ IntakeStep(c, "forum")
    /\ UNCHANGED <<threads, objects, mailed, unposted>>

CreateContributionThread(c) ==
    /\ intakes[c].step = "forum"
    /\ \/ /\ CreateThread(c, "linkReport") /\ objects' = KeepsFiles(c, TRUE)
       \/ /\ IntakeEnds(c) /\ objects' = KeepsFiles(c, FALSE)
          /\ UNCHANGED threads
    /\ UNCHANGED <<cases, mailed, unposted>>

\* The row keeps the thread it has.
Links(i, t) == cases[i].thread \in {NoThread, t}

SetContributionDiscordThread(c) ==
    LET i == intakes[c].case  t == intakes[c].thread
    IN  /\ intakes[c].step = "linkReport"
        /\ cases' = [cases EXCEPT ![i].thread = IF Links(i, t) THEN t ELSE @]
        /\ IntakeEnds(c)
        /\ UNCHANGED <<threads, objects, mailed, unposted>>

\* An error at a step whose error ends the request, or its end at any step.
IntakeBreaks(c) ==
    /\ intakes[c].step \in {"attach", "open", "link", "note", "record", "post",
                            "receipt", "forum", "linkReport"}
    /\ IntakeEnds(c)
    /\ unposted' = IF intakes[c].step = "post"
                   THEN unposted \cup {intakes[c].mail} ELSE unposted
    /\ UNCHANGED <<cases, threads, objects, mailed>>

-----------------------------------------------------------------------------
(* The moderators' page.                                                   *)
requireAdmissionsAdmin(a) == a \in Moderators

ListContributions(a) ==
    IF requireAdmissionsAdmin(a)
    THEN {i \in CaseIds : cases[i].kind = "report"} ELSE {}

ContributionAttachment(a, i) ==
    IF i \in ListContributions(a) THEN cases[i].files \cap objects ELSE {}

ListPublicContributors ==
    {i \in CaseIds : cases[i].kind = "report" /\ cases[i].status = "accepted"}

Reviewed(i) == cases[i].kind = "report" /\ cases[i].status = "pending"

ReviewContribution(a, i, status) ==
    /\ i \in ListContributions(a) /\ Reviewed(i)
    /\ cases' = [cases EXCEPT ![i].status = status]
    /\ UNCHANGED <<threads, objects, intakes, mailed, unposted>>

FindContributionReplyTarget(t) == FindByDiscordThread("report", t)

Owners(t) ==
    FindByDiscordThread("application", t) \cup FindByDiscordThread("inquiry", t)
        \cup FindContributionReplyTarget(t)

\* The mail server takes a reply to the person who opened the case.
ReplyByDiscord(i, t) ==
    mailed' = mailed \cup {[case |-> i, to |-> cases[i].from, thread |-> t]}

\* A reply from a draft, whose steps are those of ReplyDrafts.
StaffAnswers(t) ==
    /\ \E i \in Owners(t) : ReplyByDiscord(i, t)
    /\ UNCHANGED <<cases, threads, objects, intakes, unposted>>

\* An application with its thread (AccountApplications).
ApplicationArrives(p) ==
    /\ \E i \in FreeCases, t \in FreeThreads :
           /\ cases' = [Insert(i, "application", p) EXCEPT ![i].thread = t]
           /\ threads' = [threads EXCEPT ![t].about = i]
    /\ UNCHANGED <<objects, intakes, mailed, unposted>>

DeskInit ==
    /\ cases = [i \in CaseIds |-> NoRowYet]
    /\ threads = [t \in ThreadIds |-> NoPost]
    /\ objects = {} /\ mailed = {} /\ unposted = {}
    /\ intakes = [c \in Intakes |-> IntakeIdle]

MailIntake(c) ==
    \/ \E m \in MailIds, p \in People :
           IntakeFromEmail(c, m, p) \/ HandleInboundReply(c, m, p)
    \/ StoreInquiryAttachments(c) \/ CreateInquiryThread(c)
    \/ SetDiscordThread(c) \/ SetDiscordThreadFails(c) \/ NoteInquiry(c)
    \/ RecordReply(c) \/ PostEmbed(c) \/ IntakeBreaks(c)

ReportIntake(c) ==
    \/ \E m \in MailIds, p \in People : PutReportFile(c, m, p)
    \/ CreateContribution(c) \/ CreateContributionFails(c)
    \/ QueueReceipt(c) \/ CreateContributionThread(c)
    \/ SetContributionDiscordThread(c)

Desk ==
    \/ \E c \in Intakes : MailIntake(c) \/ ReportIntake(c)
    \/ \E a \in Staff, i \in CaseIds, s \in {"accepted", "rejected"} :
           ReviewContribution(a, i, s)
    \/ \E p \in People : ApplicationArrives(p)
    \/ \E t \in ThreadIds : StaffAnswers(t)

DeskSpec == DeskInit /\ [][Desk]_deskVars

-----------------------------------------------------------------------------
(* What an inquiry's page shows to an administrator is in its thread once  *)
(* its request has ended, unless posting it failed: the staff in Discord   *)
(* sees what the transcript has (HandleInboundReply, GetInquiryDetail).    *)
HeardIsShown ==
    \A a \in Admins, i \in CaseIds :
        cases[i].thread # NoThread =>
            \A m \in GetInquiryDetail(a, i) :
                \/ m \in threads[cases[i].thread].shows \cup unposted
                \/ \E c \in Intakes : intakes[c].mail = m

(* The moderators can open the file of a report whose contributor was sent *)
(* a receipt, whatever became of its thread (create's cleanupStoredFiles). *)
ReceiptsHaveFiles ==
    \A i \in CaseIds, a \in Moderators :
        cases[i].receipt => ContributionAttachment(a, i) = cases[i].files

(* Every row of a report has its file.  A commit whose answer is lost      *)
(* leaves a row whose file create removes.                                 *)
ReportsHaveFiles ==
    \A i \in CaseIds : cases[i].kind = "report" => cases[i].files \subseteq objects

(* A contributor who is thanked in public stays thanked, and one who was   *)
(* rejected never is (ReviewContribution, ListPublicContributors).         *)
ReviewsStand ==
    [][/\ ListPublicContributors \subseteq ListPublicContributors'
       /\ \A i \in ListPublicContributors' : cases[i].status # "rejected"]_deskVars

(* Cases and threads agree: what an inquiry heard is in its thread, a      *)
(* report with a receipt has its files, and reviews stand                  *)
(* (HandleInboundReply, cleanupStoredFiles, ReviewContribution).           *)
DeskAgrees == [](DeskTypeOK /\ HeardIsShown /\ ReceiptsHaveFiles) /\ ReviewsStand
=============================================================================

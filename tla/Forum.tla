--------------------------------- MODULE Forum ---------------------------------
(***************************************************************************)
(* The forum and the experience reports (internal/content).  Five queries  *)
(* each decide for themselves who may see, join or write what; a moderator *)
(* sets the status of a thread or of a post whatever it was.               *)
(*                                                                         *)
(* A reply is one statement: what it sees is the state at its beginning,   *)
(* what it inserts appears at its end.  Reactions, and the report a reply   *)
(* may quote, are left out.                                                *)
(***************************************************************************)
EXTENDS Applications

CONSTANTS
    ThreadIds, PostIds, NoSpace, NoThread,
    Chairs,         \* members who are administrators
    Reports,        \* experiences
    Versions        \* numbers of their revisions

ASSUME ForumAssumption == IsFiniteSet(Versions) /\ Versions = 1..Cardinality(Versions)

VARIABLES
    memberships,    \* rows of forum_memberships
    threads, replies, \* rows of forum_threads, forum_posts
    writing,        \* the thread each member's running statement writes to
    reports,        \* rows of experiences
    revisions       \* rows of experience_revisions, by their version

boardVars == <<memberships, threads, replies, writing>>
reportVars == <<reports, revisions>>
forumVars == <<boardVars, reportVars>>

NoThreadYet == [space |-> NoSpace, author |-> NoOne, status |-> "none"]
NoReplyYet == [thread |-> NoThread, author |-> NoOne, status |-> "none"]
NoReport == [author |-> NoOne, visibility |-> "none", current |-> 0]

ForumTypeOK ==
    /\ memberships \in [Members \X Spaces -> {"none", "active", "removed"}]
    /\ threads \in [ThreadIds -> [space : Spaces \cup {NoSpace}, author : Members \cup {NoOne},
                                  status : {"none", "published", "locked", "removed", "archived"}]]
    /\ replies \in [PostIds -> [thread : ThreadIds \cup {NoThread}, author : Members \cup {NoOne},
                                status : {"none", "published", "removed", "archived"}]]
    /\ writing \in [Members -> ThreadIds \cup {NoThread}]
    /\ reports \in [Reports -> [author : Members \cup {NoOne},
                                visibility : {"none", "hidden", "published", "unpublished"},
                                current : Versions \cup {0}]]
    /\ revisions \in [Reports \X Versions ->
           {"none", "draft", "pending_review", "approved", "rejected"}]

-----------------------------------------------------------------------------
(* Spaces.                                                                 *)

\* A space is for those who applied in its year, as students, or to its
\* programme, as anybody.
MayJoin(m, s) ==
    \/ s = Global
    \/ Student(m) /\ \E a \in applied : a[1] = m /\ s = Annual(YearOf[a[2]])
    \/ \E a \in applied : a[1] = m /\ s = OfProgram(a[2])

ListSpaces(m) == {s \in spaces : MayJoin(m, s)}

JoinSpace(m, s) ==
    /\ s \in spaces /\ MayJoin(m, s)
    /\ memberships' = [memberships EXCEPT ![<<m, s>>] = "active"]
    /\ UNCHANGED <<threads, replies, writing, reportVars>>

LeaveSpace(m, s) ==
    /\ memberships[<<m, s>>] # "none"
    /\ memberships' = [memberships EXCEPT ![<<m, s>>] = "removed"]
    /\ UNCHANGED <<threads, replies, writing, reportVars>>

-----------------------------------------------------------------------------
(* Threads and posts.                                                      *)

ListThreads(m, s) ==
    {t \in ThreadIds : /\ threads[t].space = s /\ MayJoin(m, s)
                       /\ threads[t].status \in {"published", "locked"}}

\* Members whose identity is not verified write nowhere, unless they are
\* administrators.
requireVerifiedIdentity(m) == identity[m] # "temporary" \/ m \in Chairs

\* A faulty variant of MayWrite: whoever may join may write.
MayWriteUnjoined(m, s) == MayJoin(m, s)

MayWrite(m, s) ==
    s = Global \/ (memberships[<<m, s>>] = "active" /\ MayJoin(m, s))

NewReply(m, t) == [thread |-> t, author |-> m, status |-> "published"]

\* The thread and its first post.
CreateThread(m, t, x, s) ==
    /\ threads[t] = NoThreadYet /\ replies[x] = NoReplyYet
    /\ s \in spaces /\ requireVerifiedIdentity(m) /\ MayWrite(m, s)
    /\ threads' = [threads EXCEPT ![t] = [space |-> s, author |-> m, status |-> "published"]]
    /\ replies' = [replies EXCEPT ![x] = NewReply(m, t)]
    /\ UNCHANGED <<memberships, writing, reportVars>>

Answers(m, t) == threads[t].status = "published" /\ MayWrite(m, threads[t].space)

CreatePost(m, t) ==
    /\ writing[m] = NoThread
    /\ requireVerifiedIdentity(m) /\ Answers(m, t)
    /\ writing' = [writing EXCEPT ![m] = t]
    /\ UNCHANGED <<memberships, threads, replies, reportVars>>

PostCommits(m, x) ==
    /\ writing[m] # NoThread /\ replies[x] = NoReplyYet
    /\ replies' = [replies EXCEPT ![x] = NewReply(m, writing[m])]
    /\ writing' = [writing EXCEPT ![m] = NoThread]
    /\ UNCHANGED <<memberships, threads, reportVars>>

\* lock, unlock, delete and archive of a thread.
SetThreadStatus(t, status) ==
    /\ threads[t] # NoThreadYet
    /\ threads' = [threads EXCEPT ![t].status = status]
    /\ UNCHANGED <<memberships, replies, writing, reportVars>>

\* delete and archive of a post.
SetPostStatus(x, status) ==
    /\ replies[x] # NoReplyYet
    /\ replies' = [replies EXCEPT ![x].status = status]
    /\ UNCHANGED <<memberships, threads, writing, reportVars>>

Board ==
    \/ \E m \in Members, s \in Spaces : JoinSpace(m, s) \/ LeaveSpace(m, s)
    \/ \E m \in Members, t \in ThreadIds, x \in PostIds, s \in Spaces : CreateThread(m, t, x, s)
    \/ \E m \in Members, t \in ThreadIds : CreatePost(m, t)
    \/ \E m \in Members, x \in PostIds : PostCommits(m, x)
    \/ \E t \in ThreadIds, status \in {"locked", "published", "removed", "archived"} :
         SetThreadStatus(t, status)
    \/ \E x \in PostIds, status \in {"removed", "archived"} : SetPostStatus(x, status)

-----------------------------------------------------------------------------
(* Experience reports.                                                     *)

Newest(e) == Cardinality({v \in Versions : revisions[<<e, v>>] # "none"})

CreateExperience(m, e) ==
    /\ reports[e] = NoReport
    /\ reports' = [reports EXCEPT ![e] = [author |-> m, visibility |-> "hidden", current |-> 0]]
    /\ revisions' = [revisions EXCEPT ![<<e, 1>>] = "draft"]
    /\ UNCHANGED boardVars

CreateRevision(e) ==
    /\ reports[e] # NoReport /\ Newest(e) + 1 \in Versions
    /\ revisions' = [revisions EXCEPT ![<<e, Newest(e) + 1>>] = "draft"]
    /\ UNCHANGED <<boardVars, reports>>

Submittable(e, v) == revisions[<<e, v>>] \in {"draft", "rejected"}

SubmitRevision(e, v) ==
    /\ Submittable(e, v)
    /\ revisions' = [revisions EXCEPT ![<<e, v>>] = "pending_review"]
    /\ UNCHANGED <<boardVars, reports>>

UnpublishExperience(e) ==
    /\ reports[e] # NoReport
    /\ reports' = [reports EXCEPT ![e].visibility = "unpublished"]
    /\ UNCHANGED <<boardVars, revisions>>

MadePublic(e, v) ==
    reports' = [reports EXCEPT ![e].current = v, ![e].visibility = "published"]

ReviewExperience(e, v, approved) ==
    /\ revisions[<<e, v>>] = "pending_review"
    /\ revisions' = [revisions EXCEPT ![<<e, v>>] = IF approved THEN "approved" ELSE "rejected"]
    /\ IF approved THEN MadePublic(e, v) ELSE UNCHANGED reports
    /\ UNCHANGED boardVars

ListPublishedExperiences ==
    {e \in Reports : /\ reports[e].visibility = "published"
                     /\ reports[e].current # 0
                     /\ revisions[<<e, reports[e].current>>] = "approved"}

\* The author reads the newest revision, anybody else the public one; 0 is
\* "not found".
GetExperience(m, e) ==
    IF m = reports[e].author THEN Newest(e)
    ELSE IF e \in ListPublishedExperiences THEN reports[e].current ELSE 0

Reporting ==
    \/ \E m \in Members, e \in Reports : CreateExperience(m, e)
    \/ \E e \in Reports : CreateRevision(e) \/ UnpublishExperience(e)
    \/ \E e \in Reports, v \in Versions :
         SubmitRevision(e, v) \/ \E b \in BOOLEAN : ReviewExperience(e, v, b)

ForumInit ==
    /\ memberships = [ms \in Members \X Spaces |-> "none"]
    /\ threads = [t \in ThreadIds |-> NoThreadYet]
    /\ replies = [x \in PostIds |-> NoReplyYet]
    /\ writing = [m \in Members |-> NoThread]
    /\ reports = [e \in Reports |-> NoReport]
    /\ revisions = [ev \in Reports \X Versions |-> "none"]

\* Everything at once: the catalogue with its readers, those who apply to its
\* programmes, and the forum they meet in.
communityVars == <<catalogueVars, applicationVars, forumVars>>

CommunityNext ==
    \/ (Changes(Referred) \/ Clearing \/ Reading) /\ UNCHANGED <<applicationVars, forumVars>>
    \/ Applying /\ UNCHANGED <<catalogueVars, forumVars>>
    \/ (Board \/ Reporting) /\ UNCHANGED <<catalogueVars, applicationVars>>

CommunitySpec ==
    CatalogueInit /\ ApplicationsInit /\ ForumInit /\ [][CommunityNext]_communityVars

-----------------------------------------------------------------------------

\* Whoever may answer in a thread finds it in the list of its space, and the
\* space in the list of spaces: five queries decide it separately
\* (postgres_repository.go, ListSpaces to CreatePost).
AnswerableIsReadable ==
    \A m \in Members, t \in ThreadIds :
        threads[t] # NoThreadYet /\ Answers(m, t) =>
            /\ threads[t].space \in ListSpaces(m)
            /\ t \in ListThreads(m, threads[t].space)

\* A post stands where its author had joined, and had applied, even if he left
\* since (CreateThread, CreatePost).
PostersHadJoined ==
    \A x \in PostIds :
        LET s == threads[replies[x].thread].space
            m == replies[x].author IN
        replies[x] # NoReplyYet /\ s # Global =>
            /\ memberships[<<m, s>>] # "none"
            /\ \E a \in applied : a[1] = m /\ s \in {Annual(YearOf[a[2]]), OfProgram(a[2])}

\* What is public was approved as it stands, and the page shows the revision
\* the list names (ListPublishedExperiences, GetExperience).
PublicWasApproved ==
    \A e \in Reports :
        reports[e].visibility = "published" =>
            /\ e \in ListPublishedExperiences
            /\ \A m \in Members \ {reports[e].author} : GetExperience(m, e) = reports[e].current

\* Applications, tickets, programmes and the forum agree: confirmed
\* applications have their spaces and programmes, who may answer has joined and
\* may read, and a public report was approved (CreateConfirmed,
\* ReviewServiceTicket, CreatePost, ReviewExperience).
SpacesHold ==
    /\ ApplicationsTypeOK /\ SpacesFollowApplications
    /\ ApprovedTicketsApplied /\ NothingFallsOut
    /\ ForumTypeOK /\ AnswerableIsReadable /\ PostersHadJoined /\ PublicWasApproved

\* An archived thread or post stays archived: "deliberately one-way (no
\* "unarchive" endpoint) so a preserved-as-evidence flag can't be casually
\* toggled back off" (handler.go:410-412).
ArchivedStay ==
    [][/\ \A t \in ThreadIds : threads[t].status = "archived" => threads'[t].status = "archived"
       /\ \A x \in PostIds : replies[x].status = "archived" => replies'[x].status = "archived"]_boardVars

\* Of two approved revisions the later one is public: an old public
\* revision stays until the new one passes (000006_content_chat.sql:228).
NewestApprovedShown ==
    \A e \in Reports, v \in Versions :
        reports[e].visibility = "published" /\ revisions[<<e, v>>] = "approved" =>
            v <= reports[e].current
================================================================================

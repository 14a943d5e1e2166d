--------------------------- MODULE SupportTickets ---------------------------
(***************************************************************************)
(* Support tickets: package backend/internal/support and                   *)
(* cmd/support-worker.  A user and the staff talk in a ticket; each ticket *)
(* has a Discord channel, which support_discord_outbox keeps up to date,   *)
(* and both sides are told of news by e-mail.                              *)
(*                                                                         *)
(* A message is its position in the ticket.  The e-mail outbox is what     *)
(* NotificationDelivery models; here it is the mails it has accepted.      *)
(***************************************************************************)
EXTENDS Naturals, Sequences, FiniteSets

CONSTANTS Users,
          Tickets,      \* support_tickets; absent until they are created
          Replies,       \* answers of the staff that come from outside
          Via,          \* Via[e]: "discord" or "email"
          Files,        \* attachments
          Nobody,
          SupportWorkers, DiscordAttempts,
          ClaimReadsNull,   \* a row without a message can be scanned
          LostCommits,      \* a commit may take place and report an error
          SlowPass,         \* a pass of a worker may exceed five minutes
          MaxSaid,          \* bound: messages of a ticket
          MaxSets,          \* bound: changes of status
          MaxFaults         \* bound: crashes and failing marks

ASSUME SupportAssumption ==
    /\ Via \in [Replies -> {"discord", "email"}]
    /\ Nobody \notin Users \cup Replies \cup Files
    /\ Nobody \notin Tickets \X Nat
    /\ MaxSaid \in Nat /\ MaxSets \in Nat /\ MaxFaults \in Nat

VARIABLES ticket,       \* support_tickets
          said,         \* said[t]: support_messages and support_attachments
          mails,        \* what the e-mail outbox took, by dedup_key
          active,       \* accounts that are active
          blobs,        \* stored attachments
          held,         \* attachments of requests under way
          supportQueue, \* support_discord_outbox
          supportWorker,
          channels,     \* channels[t]: the channels on Discord
          reached,      \* reached[t]: the row of t that arrived last
          sets, faults

desk == <<ticket, said, mails, active, sets>>
storage == <<blobs, held>>
discord == <<channels, reached>>
supportVars ==
    <<desk, storage, supportQueue, supportWorker, discord, faults>>

Discord == INSTANCE OutboxWorker
               WITH queue <- supportQueue, worker <- supportWorker,
                    Workers <- SupportWorkers, MaxAttempts <- DiscordAttempts,
                    NoTask <- Nobody, Slow <- SlowPass

Status == {"absent", "open", "waiting_staff", "waiting_user", "closed", "spam"}

NoTicket == [status |-> "absent", owner |-> Nobody, channel |-> 0]

SupportTypeOK ==
    /\ \A t \in Tickets :
          /\ ticket[t].status \in Status
          /\ ticket[t].owner \in Users \cup {Nobody}
          /\ ticket[t].channel \in 0..Len(channels[t])
          /\ \A k \in DOMAIN supportQueue[t] :
                /\ supportQueue[t][k].message \in 0..Len(said[t])
                /\ (supportQueue[t][k].message # 0) = (supportQueue[t][k].op = "create_message")
                /\ supportQueue[t][k].row \in Discord!OutboxRow
    /\ held \subseteq blobs
    /\ Discord!WorkerTypeOK

SupportInit ==
    /\ ticket = [t \in Tickets |-> NoTicket]
    /\ said = [t \in Tickets |-> <<>>]
    /\ mails = {}
    /\ active = Users
    /\ blobs = {} /\ held = {}
    /\ supportQueue = [t \in Tickets |-> <<>>]
    /\ Discord!WorkerInit
    /\ channels = [t \in Tickets |-> <<>>]
    /\ reached = [t \in Tickets |-> 0]
    /\ sets = 0 /\ faults = 0

-----------------------------------------------------------------------------
(* Faulty variants of the definitions below, which the runs must reject:   *)
(* reopening leaves the channel archived; a channel is not remembered.     *)
ArchivesOnly(t, status) ==
    IF status = "closed" THEN <<"archive_channel">> ELSE <<>>

NoChannel(t, op) == ticket

-----------------------------------------------------------------------------
(* The statements a transaction is made of.                                *)
InTalks(t) == ticket[t].status \notin {"absent", "closed", "spam"}

NextMessage(t) == Len(said[t]) + 1

InsertSupportMessage(t, from, event, F) ==
    /\ Len(said[t]) < MaxSaid
    /\ said' = [said EXCEPT ![t] =
          Append(@, [from |-> from, event |-> event, status |-> "active", files |-> F])]

EnqueueDiscord(t, op, message) ==
    supportQueue' = [supportQueue EXCEPT ![t] =
        Append(@, [op |-> op, message |-> message, row |-> Discord!PendingRow])]

(* email_outbox takes one mail of each key. *)
Mail(t, to, key, about) == [ticket |-> t, to |-> to, key |-> key, about |-> about]

EnqueueEmail(M) ==
    mails' = mails \cup {m \in M : \A n \in mails :
                            <<n.ticket, n.to, n.key>> # <<m.ticket, m.to, m.key>>}

OfficialMail(t, key, about) == Mail(t, "staff", key, about)

AnswerKey(k) == <<"answer", k>>

(* The notice reads the address of an active account; without it the whole *)
(* transaction fails.                                                      *)
UserNotice(t, key, about) == Mail(t, "user", key, about)

CanNotice(t) == ticket[t].owner \in active

(* What the channel has to do when the status changes. *)
StatusRows(t, status) ==
    CASE status = "closed" -> <<"archive_channel">>
      [] status # "closed" /\ ticket[t].status = "closed" -> <<"reopen_channel">>
      [] OTHER -> <<>>

-----------------------------------------------------------------------------
(* The repository.                                                         *)
InsertTicket(t, u) ==
    /\ ticket[t].status = "absent"
    /\ ticket' = [ticket EXCEPT ![t] =
          [NoTicket EXCEPT !.status = "waiting_staff", !.owner = u]]

CreateTicketWithAttachments(t, u, F) ==
    /\ u \in active
    /\ InsertTicket(t, u)
    /\ InsertSupportMessage(t, "user", Nobody, F)
    /\ EnqueueDiscord(t, "create_channel", 0)
    /\ EnqueueEmail({OfficialMail(t, <<"new", 0>>, 1), UserNotice(t, <<"created", 0>>, 1)})

AddUserMessageWithAttachments(t, u, F) ==
    /\ ticket[t].owner = u
    /\ InTalks(t)
    /\ InsertSupportMessage(t, "user", Nobody, F)
    /\ ticket' = [ticket EXCEPT ![t].status = "waiting_staff"]
    /\ EnqueueDiscord(t, "create_message", NextMessage(t))
    /\ EnqueueEmail({OfficialMail(t, <<"message", 0>>, NextMessage(t))})

AddAdminMessageWithAttachments(t, F) ==
    /\ InTalks(t) /\ CanNotice(t)
    /\ InsertSupportMessage(t, "admin", Nobody, F)
    /\ ticket' = [ticket EXCEPT ![t].status = "waiting_user"]
    /\ EnqueueDiscord(t, "create_message", NextMessage(t))
    /\ EnqueueEmail({UserNotice(t, AnswerKey(NextMessage(t)), NextMessage(t))})

(* A status that is set again is a change like any other, but for a user   *)
(* who closes a closed ticket.                                             *)
SetTicketStatus(t, status, admin) ==
    /\ ticket[t].status # "absent"
    /\ ~admin => ticket[t].status # "spam" /\ status \in {"waiting_staff", "closed"}
                 /\ ~(ticket[t].status = "closed" /\ status = "closed")
    /\ status = "closed" => CanNotice(t)
    /\ sets < MaxSets
    /\ sets' = sets + 1
    /\ ticket' = [ticket EXCEPT ![t].status = status]
    /\ supportQueue' = [supportQueue EXCEPT ![t] =
          @ \o [k \in DOMAIN StatusRows(t, status) |->
                  [op |-> StatusRows(t, status)[k], message |-> 0, row |-> Discord!PendingRow]]]
    /\ EnqueueEmail(
          CASE status = "closed" -> {UserNotice(t, <<"closed", 0>>, 0)}
            [] ~admin /\ ticket[t].status # "closed" /\ status = "waiting_staff" ->
                  {OfficialMail(t, <<"reopened", 0>>, 0)}
            [] OTHER -> {})
    /\ UNCHANGED said

Seen(e) == \E t \in Tickets : \E k \in DOMAIN said[t] : said[t][k].event = e

ApplyDiscordMessage(t, e) ==
    /\ ticket[t].channel # 0
    /\ InTalks(t) /\ ~Seen(e) /\ CanNotice(t)
    /\ InsertSupportMessage(t, "discord", e, {})
    /\ ticket' = [ticket EXCEPT ![t].status = "waiting_user"]
    /\ EnqueueEmail({UserNotice(t, AnswerKey(NextMessage(t)), NextMessage(t))})
    /\ UNCHANGED supportQueue

(* A later edit or deletion of what came from Discord. *)
ChangeDiscordMessage(t, e, status) ==
    /\ ticket[t].channel # 0 /\ InTalks(t)
    /\ \E k \in DOMAIN said[t] :
          /\ said[t][k].event = e
          /\ said' = [said EXCEPT ![t][k].status = status]
    /\ UNCHANGED <<ticket, mails, supportQueue>>

ApplyEmailMessage(t, e) ==
    /\ InTalks(t) /\ ~Seen(e) /\ CanNotice(t)
    /\ InsertSupportMessage(t, "email", e, {})
    /\ ticket' = [ticket EXCEPT ![t].status = "waiting_user"]
    /\ EnqueueDiscord(t, "create_message", NextMessage(t))
    /\ EnqueueEmail({UserNotice(t, AnswerKey(NextMessage(t)), NextMessage(t))})

-----------------------------------------------------------------------------
(* The handlers: attachments are stored first, and removed when the rest   *)
(* of the request fails.                                                   *)
UploadAttachment(f) ==
    /\ f \notin blobs
    /\ \A t \in Tickets : \A k \in DOMAIN said[t] : f \notin said[t][k].files
    /\ blobs' = blobs \cup {f} /\ held' = held \cup {f}
    /\ UNCHANGED <<desk, supportQueue, supportWorker, discord, faults>>

(* The request is refused, or ends before it removes the file. *)
UploadDropped(f) ==
    /\ f \in held /\ held' = held \ {f}
    /\ blobs' \in {blobs, blobs \ {f}}
    /\ UNCHANGED <<desk, supportQueue, supportWorker, discord, faults>>

KeptAfter(F) == blobs' = blobs

FilesStay(F) ==
    /\ held' = held \ F
    /\ \/ KeptAfter(F)
       \/ LostCommits /\ blobs' = blobs \ F

CreateTicket(u, t) ==
    /\ \E F \in SUBSET held : CreateTicketWithAttachments(t, u, F) /\ FilesStay(F)
    /\ UNCHANGED <<active, sets, supportWorker, discord, faults>>

AddUserMessage(u, t) ==
    /\ u \in active
    /\ \E F \in SUBSET held : AddUserMessageWithAttachments(t, u, F) /\ FilesStay(F)
    /\ UNCHANGED <<active, sets, supportWorker, discord, faults>>

AddAdminMessage(t) ==
    /\ \E F \in SUBSET held : AddAdminMessageWithAttachments(t, F) /\ FilesStay(F)
    /\ UNCHANGED <<active, sets, supportWorker, discord, faults>>

ChangeUserStatus(u, t, status) ==
    /\ u \in active /\ ticket[t].owner = u
    /\ SetTicketStatus(t, status, FALSE)
    /\ UNCHANGED <<active, storage, supportWorker, discord, faults>>

(* An assignment without a status sets the status it read before its       *)
(* transaction, which is any the ticket has had.                           *)
UpdateAdminTicket(t, status) ==
    /\ SetTicketStatus(t, status, TRUE)
    /\ UNCHANGED <<active, storage, supportWorker, discord, faults>>

DiscordWebhook(t, e) ==
    /\ Via[e] = "discord"
    /\ \/ ApplyDiscordMessage(t, e)
       \/ \E status \in {"edited", "deleted"} : ChangeDiscordMessage(t, e, status)
    /\ UNCHANGED <<active, sets, storage, supportWorker, discord, faults>>

EmailWebhook(t, e) ==
    /\ Via[e] = "email"
    /\ ApplyEmailMessage(t, e)
    /\ UNCHANGED <<active, sets, storage, supportWorker, discord, faults>>

(* The administration suspends and restores accounts. *)
AccountSwitched(u) ==
    /\ sets < MaxSets /\ sets' = sets + 1
    /\ active' = IF u \in active THEN active \ {u} ELSE active \cup {u}
    /\ UNCHANGED <<ticket, said, mails, storage, supportQueue, supportWorker,
                   discord, faults>>

-----------------------------------------------------------------------------
(* The worker.                                                             *)
Scanned(T) == ClaimReadsNull \/ \A t \in T : supportQueue[t[1]][t[2]].message # 0

ClaimDiscordOutbox(w) ==
    /\ \E T \in SUBSET Discord!Ready : Scanned(T) /\ Discord!ClaimTasks(w, T)
    /\ UNCHANGED <<desk, storage, discord, faults>>

(* What a request does on Discord. *)
DiscordTakes(t, row) ==
    LET c == ticket[t].channel
    IN  IF row.op = "create_channel"
        THEN channels' = [channels EXCEPT ![t] = Append(@, [archived |-> FALSE, posts |-> {}])]
        ELSE /\ c # 0
             /\ channels' = [channels EXCEPT ![t][c] =
                    [archived |-> CASE row.op = "archive_channel" -> TRUE
                                    [] row.op = "reopen_channel" -> FALSE
                                    [] OTHER -> @.archived,
                     posts |-> @.posts \cup ({row.message} \ {0})]]

DiscordSend(w, t) ==
    /\ Discord!TaskSent(w, t, "sent")
    /\ DiscordTakes(t[1], supportQueue[t[1]][t[2]])
    /\ reached' = [reached EXCEPT ![t[1]] = t[2]]
    /\ UNCHANGED <<desk, storage, supportQueue, faults>>

(* The request is refused, or its answer is lost. *)
DiscordSendFails(w, t) ==
    /\ Discord!TaskSent(w, t, "failing")
    /\ \/ UNCHANGED discord
       \/ /\ DiscordTakes(t[1], supportQueue[t[1]][t[2]])
          /\ reached' = [reached EXCEPT ![t[1]] = t[2]]
    /\ UNCHANGED <<desk, storage, supportQueue, faults>>

WithChannel(t, op) ==
    IF op = "create_channel" THEN [ticket EXCEPT ![t].channel = Len(channels[t])] ELSE ticket

MarkDiscordOutboxSent(w) ==
    LET t == supportWorker[w].item
    IN  /\ Discord!MarkTaskSent(w)
        /\ ticket' = WithChannel(t[1], supportQueue[t[1]][t[2]].op)
        /\ UNCHANGED <<said, mails, active, sets, storage, discord, faults>>

MarkDiscordOutboxFailed(w) ==
    Discord!MarkTaskFailed(w) /\ UNCHANGED <<desk, storage, discord, faults>>

SupportFaults(w) ==
    /\ faults < MaxFaults
    /\ faults' = faults + 1
    /\ Discord!MarkBreaks(w) \/ Discord!Dies(w)
    /\ UNCHANGED <<desk, storage, discord>>

SupportTime(t) == Discord!TimePasses(t) /\ UNCHANGED <<desk, storage, discord, faults>>

SupportPass(w) ==
    \/ ClaimDiscordOutbox(w)
    \/ \E t \in supportWorker[w].todo : DiscordSend(w, t) \/ DiscordSendFails(w, t)
    \/ MarkDiscordOutboxSent(w)
    \/ MarkDiscordOutboxFailed(w)

SupportNext ==
    \/ \E t \in Tickets :
          \/ \E u \in Users :
                \/ CreateTicket(u, t) \/ AddUserMessage(u, t)
                \/ \E status \in {"waiting_staff", "closed"} : ChangeUserStatus(u, t, status)
          \/ AddAdminMessage(t)
          \/ \E status \in Status \ {"absent"} :
                UpdateAdminTicket(t, status)
          \/ \E e \in Replies : DiscordWebhook(t, e) \/ EmailWebhook(t, e)
    \/ \E u \in Users : AccountSwitched(u)
    \/ \E f \in Files : UploadAttachment(f) \/ UploadDropped(f)
    \/ \E w \in SupportWorkers : SupportPass(w) \/ SupportFaults(w)
    \/ \E t \in Discord!Tasks : SupportTime(t)

SupportSpec == SupportInit /\ [][SupportNext]_supportVars

(* The worker polls every two seconds and clocks advance. *)
SupportFairness ==
    /\ \A w \in SupportWorkers : WF_supportVars(SupportPass(w))
    /\ WF_supportVars(\E t \in Discord!Tasks : SupportTime(t))

-----------------------------------------------------------------------------
(* The user is told of every answer, from wherever the staff wrote it and  *)
(* however often it was delivered (enqueueUserNoticeTx).                   *)
AnswersNoticed ==
    \A t \in Tickets : \A k \in DOMAIN said[t] :
        said[t][k].from # "user" =>
            \E m \in mails : m.ticket = t /\ m.to = "user" /\ m.about = k

(* "A user adds a message: the official mailbox, unread message and link." *)
StaffMailed ==
    \A t \in Tickets : \A k \in DOMAIN said[t] :
        said[t][k].from = "user" =>
            \E m \in mails : m.ticket = t /\ m.to = "staff" /\ m.about = k

(* An answer that is delivered again is not written again, to whichever    *)
(* ticket it is addressed (ApplyDiscordMessage, ApplyEmailMessage).        *)
AnswersOnce ==
    \A e \in Replies :
        Cardinality({x \in UNION {{t} \X DOMAIN said[t] : t \in Tickets} :
                        said[x[1]][x[2]].event = e}) <= 1

(* A closed ticket is read-only history, to the website, to Discord and to *)
(* e-mail (lockTicket and the checks behind it).                           *)
ClosedIsHistory ==
    [][\A t \in Tickets : ticket[t].status = "closed" => said'[t] = said[t]]_supportVars

(* Every attachment of a message can be downloaded (uploads.remove).       *)
AttachmentsStored ==
    \A t \in Tickets : \A k \in DOMAIN said[t] : said[t][k].files \subseteq blobs

(* Once everything queued for a ticket is sent, its channel shows every    *)
(* message that was queued, and is archived exactly when the ticket is     *)
(* closed, through crashes and repeated sends.                             *)
ChannelFollowsTicket ==
    \A t \in Tickets :
        /\ supportQueue[t] # <<>>
        /\ \A k \in DOMAIN supportQueue[t] : supportQueue[t][k].row.status = "done"
        => /\ ticket[t].channel # 0
           /\ LET c == channels[t][ticket[t].channel]
              IN  /\ c.archived = (ticket[t].status = "closed")
                  /\ \A k \in DOMAIN supportQueue[t] :
                        supportQueue[t][k].message \in c.posts \cup {0}

(* The rows of a ticket are an ordered outbox. *)
DiscordAbandoned(t) ==
    \E k \in DOMAIN supportQueue[t] : supportQueue[t][k].row.status = "abandoned"

TicketOutbox == INSTANCE OrderedOutbox
                    WITH Subjects <- Tickets,
                         posted <- [t \in Tickets |-> Len(supportQueue[t])],
                         latest <- reached,
                         givenUp <- {t \in Tickets : DiscordAbandoned(t)}

(* Discord gets what happens in a ticket in its order, each at least once, *)
(* until an operation is abandoned (ClaimDiscordOutbox).                   *)
DiscordInOrder == TicketOutbox!Spec

(* A ticket, its notices, its files and its channel agree, a closed ticket *)
(* is history, and Discord hears in order: answers count once and are      *)
(* announced, attachments open, and the channel shows what was written     *)
(* (ApplyDiscordMessage, enqueueUserNoticeTx, lockTicket,                  *)
(* ClaimDiscordOutbox).                                                    *)
TicketsAgree ==
    /\ [](SupportTypeOK /\ AnswersNoticed /\ AnswersOnce
             /\ AttachmentsStored /\ ChannelFollowsTicket)
    /\ ClosedIsHistory
    /\ DiscordInOrder

(* "When creating the channel fails, the worker tries again": every ticket *)
(* gets its channel, unless all the attempts fail.                         *)
TicketsGetChannel ==
    \A t \in Tickets :
        [](ticket[t].status # "absent" =>
              <>(ticket[t].channel # 0 \/ DiscordAbandoned(t)))

(* Everything queued for Discord is sent, or the ticket's channel is given *)
(* up (DiscordSyncWorker.Run).                                             *)
SupportSettles ==
    \A t \in Tickets :
        []<>(DiscordAbandoned(t)
             \/ \A k \in DOMAIN supportQueue[t] : supportQueue[t][k].row.status = "done")
=============================================================================

------------------------------ MODULE ChatSync ------------------------------
(***************************************************************************)
(* The chat: package backend/internal/chat and cmd/chat-worker.  Members   *)
(* write in channels; the lounge is bridged to two platforms, whose        *)
(* messages come in through signed webhooks and whose copies of ours are   *)
(* kept up to date through chat_sync_outbox.                               *)
(*                                                                         *)
(* A text is a number: the n-th change of the chat, 0 when deleted.  A     *)
(* pass of this worker ends within five minutes (20 requests of at most    *)
(* ten seconds), so what it holds is not claimed by another.               *)
(***************************************************************************)
EXTENDS Naturals, Sequences, FiniteSets

CONSTANTS Accounts,
          ChatAdmins,   \* accounts with the role admin
          Channels, Lounge,
          Messages,     \* chat_messages; absent until they are written
          Platforms,
          Events,       \* messages written on a platform
          Origin,       \* Origin[e]: the platform of e
          Website,      \* the source of our own messages
          None,
          Workers, MaxAttempts,
          Overlap,      \* transactions of one message overlap
          MaxTexts,     \* bound: messages, edits and deletions together
          MaxBreaks     \* bound: crashes and failing marks

ASSUME ChatAssumption ==
    /\ ChatAdmins \subseteq Accounts
    /\ Lounge \in Channels
    /\ Origin \in [Events -> Platforms]
    /\ Website \notin Platforms
    /\ None \notin Accounts \cup Messages \cup Events \cup Platforms
    /\ None \notin (Messages \X Platforms) \X Nat
    /\ MaxTexts \in Nat /\ MaxBreaks \in Nat

VARIABLES message,      \* chat_messages
          texts,        \* changes of messages so far
          reactions,    \* chat_message_reactions: pairs <<message, account>>
          inbound,      \* inbound[e]: the message of e in chat_inbound_dedup
          bridge,       \* bridge[s]: the copy of subject s we know of, 0 if none
          chatQueue,    \* chat_sync_outbox by message and platform
          chatWorker,
          copies,       \* copies[s]: the texts on the platform, 0 when removed
          arrived,      \* arrived[s]: the row of s that arrived last
          withdrawn,    \* messages their authors withdrew
          breaks

posts == <<message, texts, reactions, inbound, withdrawn>>
outside == <<bridge, copies, arrived>>
chatVars == <<posts, outside, chatQueue, chatWorker, breaks>>

Sync == INSTANCE OutboxWorker
            WITH queue <- chatQueue, worker <- chatWorker, NoTask <- None, Slow <- FALSE

Subject == Messages \X Platforms

NoMessage == [status |-> "absent", text |-> 0, author |-> None,
              source |-> Website, channel |-> Lounge, parent |-> None, pinned |-> FALSE]

ChatTypeOK ==
    /\ \A m \in Messages :
          /\ message[m].status \in {"absent", "active", "edited", "deleted"}
          /\ message[m].text \in 0..texts
          /\ message[m].source \in Platforms \cup {Website}
          /\ message[m].parent \in Messages \cup {None}
    /\ texts \in 0..MaxTexts
    /\ reactions \subseteq Messages \X Accounts
    /\ inbound \in [Events -> Messages \cup {None}]
    /\ \A s \in Subject :
          /\ bridge[s] \in 0..Len(copies[s])
          /\ \A k \in DOMAIN chatQueue[s] : chatQueue[s][k].row \in Sync!OutboxRow
    /\ Sync!WorkerTypeOK

ChatInit ==
    /\ message = [m \in Messages |-> NoMessage]
    /\ texts = 0
    /\ reactions = {}
    /\ inbound = [e \in Events |-> None]
    /\ bridge = [s \in Subject |-> 0]
    /\ chatQueue = [s \in Subject |-> <<>>]
    /\ Sync!WorkerInit
    /\ copies = [s \in Subject |-> <<>>]
    /\ arrived = [s \in Subject |-> 0]
    /\ withdrawn = {}
    /\ breaks = 0

-----------------------------------------------------------------------------
(* What is shown: lists leave deleted messages out. *)
Standing(m) == message[m].status \notin {"absent", "deleted"}

ListChannelMessages(c) ==
    {m \in Messages : Standing(m) /\ message[m].channel = c /\ message[m].parent = None}

ListThreadReplies(p) == {m \in Messages : Standing(m) /\ message[m].parent = p}

ListPinned(c) == {m \in Messages : Standing(m) /\ message[m].channel = c /\ message[m].pinned}

-----------------------------------------------------------------------------
(* A faulty variant of LockOwned: a message is changed after its author    *)
(* withdrew it.                                                            *)
OwnsAny(m, a) ==
    message[m].status # "absent" /\ message[m].source = Website /\ message[m].author = a

-----------------------------------------------------------------------------
(* The statements a transaction is made of. *)
InsertMessage(m, a, source, c, p) ==
    /\ message[m].status = "absent"
    /\ texts < MaxTexts
    /\ texts' = texts + 1
    /\ message' = [message EXCEPT ![m] =
          [status |-> "active", text |-> texts + 1, author |-> a, source |-> source,
           channel |-> c, parent |-> p, pinned |-> FALSE]]

UpdateExistingMessage(m, op) ==
    /\ texts < MaxTexts
    /\ texts' = texts + 1
    /\ message' = IF op = "delete"
                  THEN [message EXCEPT ![m].status = "deleted", ![m].text = 0]
                  ELSE [message EXCEPT ![m].status = "edited", ![m].text = texts + 1]

Task(op, text) == [op |-> op, text |-> text, row |-> Sync!PendingRow]

BridgesExcept(m, except) == {<<m, p>> : p \in Platforms \ {except}}

(* Rows are ordered by the start of their transactions: one that overlaps  *)
(* another may come before its row although it takes place after it.       *)
Added(q, task) ==
    {Append(q, task)}
    \cup IF Overlap /\ q # <<>>
         THEN {Append(Append(SubSeq(q, 1, Len(q) - 1), task), q[Len(q)])} ELSE {}

CreateOutboundTasks(S, op, text) ==
    \E q \in [S -> UNION {Added(chatQueue[s], Task(op, text)) : s \in S}] :
        /\ \A s \in S : q[s] \in Added(chatQueue[s], Task(op, text))
        /\ chatQueue' = [s \in Subject |-> IF s \in S THEN q[s] ELSE chatQueue[s]]

ValidParent(c, p) ==
    p # None => /\ Standing(p)
                /\ message[p].channel = c /\ message[p].parent = None

LockOwned(m, a) ==
    /\ message[m].status \notin {"absent", "deleted"}
    /\ message[m].source = Website /\ message[m].author = a

-----------------------------------------------------------------------------
(* The repository.                                                         *)
CreateWebsiteMessage(m, a) ==
    /\ InsertMessage(m, a, Website, Lounge, None)
    /\ CreateOutboundTasks(BridgesExcept(m, None), "create", texts + 1)
    /\ UNCHANGED <<reactions, inbound, withdrawn>>

CreateChannelMessage(m, a, c, p) ==
    /\ ValidParent(c, p)
    /\ InsertMessage(m, a, Website, c, p)
    /\ IF c = Lounge /\ p = None
       THEN CreateOutboundTasks(BridgesExcept(m, None), "create", texts + 1)
       ELSE UNCHANGED chatQueue
    /\ UNCHANGED <<reactions, inbound, withdrawn>>

(* The text is copied; the copy is a message of its own. *)
ForwardMessage(m, a, from, c) ==
    /\ Standing(from)
    /\ InsertMessage(m, a, Website, c, None)
    /\ IF c = Lounge THEN CreateOutboundTasks(BridgesExcept(m, None), "create", texts + 1)
       ELSE UNCHANGED chatQueue
    /\ UNCHANGED <<reactions, inbound, withdrawn>>

EditOwnMessage(m, a) ==
    /\ LockOwned(m, a)
    /\ UpdateExistingMessage(m, "edit")
    /\ IF message[m].channel = Lounge
       THEN CreateOutboundTasks(BridgesExcept(m, None), "edit", message'[m].text)
       ELSE UNCHANGED chatQueue
    /\ UNCHANGED <<reactions, inbound, withdrawn>>

WithdrawOwnMessage(m, a) ==
    /\ LockOwned(m, a)
    /\ UpdateExistingMessage(m, "delete")
    /\ IF message[m].channel = Lounge
       THEN CreateOutboundTasks(BridgesExcept(m, None), "delete", 0)
       ELSE UNCHANGED chatQueue
    /\ withdrawn' = withdrawn \cup {m}
    /\ UNCHANGED <<reactions, inbound>>

SetReaction(m, a) ==
    /\ Standing(m)
    /\ reactions' = reactions \cup {<<m, a>>}
    /\ UNCHANGED <<message, texts, inbound, withdrawn, chatQueue>>

RemoveReaction(m, a) ==
    /\ reactions' = reactions \ {<<m, a>>}
    /\ UNCHANGED <<message, texts, inbound, withdrawn, chatQueue>>

(* A pin is set on standing messages and taken from any. *)
SetPinned(m, pinned) ==
    /\ message[m].pinned # pinned
    /\ pinned => Standing(m)
    /\ message' = [message EXCEPT ![m].pinned = pinned]
    /\ UNCHANGED <<texts, reactions, inbound, withdrawn, chatQueue>>

(* An event about a message nobody knows makes one, whatever the event is; *)
(* a deletion cannot, since a message that stands has a text.              *)
ApplyNew(m, e, op) ==
    /\ op # "delete"
    /\ InsertMessage(m, None, Origin[e], Lounge, None)
    /\ inbound' = [inbound EXCEPT ![e] = m]
    /\ CreateOutboundTasks(BridgesExcept(m, Origin[e]), "create", texts + 1)
    /\ UNCHANGED <<reactions, withdrawn>>

Unseen(e) == inbound[e] = None

ApplyKnown(e, op) ==
    LET m == inbound[e]
    IN  /\ UpdateExistingMessage(m, op)
        /\ CreateOutboundTasks(BridgesExcept(m, Origin[e]), op, message'[m].text)
        /\ UNCHANGED <<reactions, inbound, withdrawn>>

ApplyExternalMessage(e, op) ==
    \/ Unseen(e) /\ \E m \in Messages : ApplyNew(m, e, op)
    \/ ~Unseen(e) /\ op # "create" /\ ApplyKnown(e, op)

-----------------------------------------------------------------------------
(* The handlers: who is signed in asks, the limiter may refuse.            *)
PostWebsiteMessage(a) ==
    /\ \E m \in Messages : CreateWebsiteMessage(m, a)
    /\ UNCHANGED <<outside, chatWorker, breaks>>

PostChannelMessage(a, c, p) ==
    /\ \E m \in Messages : CreateChannelMessage(m, a, c, p)
    /\ UNCHANGED <<outside, chatWorker, breaks>>

PostForward(a, from, c) ==
    /\ \E m \in Messages : ForwardMessage(m, a, from, c)
    /\ UNCHANGED <<outside, chatWorker, breaks>>

EditMessage(a, m) == EditOwnMessage(m, a) /\ UNCHANGED <<outside, chatWorker, breaks>>

WithdrawMessage(a, m) == WithdrawOwnMessage(m, a) /\ UNCHANGED <<outside, chatWorker, breaks>>

AddReaction(a, m) == SetReaction(m, a) /\ UNCHANGED <<outside, chatWorker, breaks>>

DropReaction(a, m) == RemoveReaction(m, a) /\ UNCHANGED <<outside, chatWorker, breaks>>

SetPin(a, m, pinned) ==
    /\ a \in ChatAdmins
    /\ SetPinned(m, pinned)
    /\ UNCHANGED <<outside, chatWorker, breaks>>

(* Platforms deliver events in any order and may repeat them.              *)
HandleWebhook(e, op) ==
    /\ ApplyExternalMessage(e, op)
    /\ UNCHANGED <<outside, chatWorker, breaks>>

-----------------------------------------------------------------------------
(* The worker.                                                             *)
ClaimOutbox(w) ==
    /\ \E T \in SUBSET Sync!Ready : Sync!ClaimTasks(w, T)
    /\ UNCHANGED <<posts, outside, breaks>>

(* What a request does on the platform: an edit or a deletion needs the    *)
(* copy we know of, and finds it unless it was removed.                    *)
Reaches(s, task) ==
    \/ task.op = "create" /\ copies' = [copies EXCEPT ![s] = Append(@, task.text)]
    \/ /\ task.op # "create" /\ bridge[s] # 0
       /\ copies[s][bridge[s]] # 0
       /\ copies' = [copies EXCEPT ![s][bridge[s]] = task.text]

Send(w, t) ==
    /\ Sync!TaskSent(w, t, "sent")
    /\ Reaches(t[1], chatQueue[t[1]][t[2]])
    /\ arrived' = [arrived EXCEPT ![t[1]] = t[2]]
    /\ UNCHANGED <<posts, bridge, chatQueue, breaks>>

(* The request is refused, or its answer is lost. *)
SendFails(w, t) ==
    /\ Sync!TaskSent(w, t, "failing")
    /\ \/ UNCHANGED <<copies, arrived>>
       \/ /\ Reaches(t[1], chatQueue[t[1]][t[2]])
          /\ arrived' = [arrived EXCEPT ![t[1]] = t[2]]
    /\ UNCHANGED <<posts, bridge, chatQueue, breaks>>

Bridged(s, op) == IF op = "create" THEN Len(copies[s]) ELSE bridge[s]

MarkOutboxSent(w) ==
    LET t == chatWorker[w].item
    IN  /\ Sync!MarkTaskSent(w)
        /\ bridge' = [bridge EXCEPT ![t[1]] = Bridged(t[1], chatQueue[t[1]][t[2]].op)]
        /\ UNCHANGED <<posts, copies, arrived, breaks>>

MarkOutboxFailed(w) == Sync!MarkTaskFailed(w) /\ UNCHANGED <<posts, outside, breaks>>

Breaks(w) ==
    /\ breaks < MaxBreaks
    /\ breaks' = breaks + 1
    /\ Sync!MarkBreaks(w) \/ Sync!Dies(w)
    /\ UNCHANGED <<posts, outside>>

ChatTime(t) == Sync!TimePasses(t) /\ UNCHANGED <<posts, outside, breaks>>

-----------------------------------------------------------------------------
ProcessOnce(w) ==
    \/ ClaimOutbox(w)
    \/ \E t \in chatWorker[w].todo : Send(w, t) \/ SendFails(w, t)
    \/ MarkOutboxSent(w)
    \/ MarkOutboxFailed(w)

ChatNext ==
    \/ \E a \in Accounts :
          \/ PostWebsiteMessage(a)
          \/ \E c \in Channels : \E p \in Messages \cup {None} : PostChannelMessage(a, c, p)
          \/ \E m \in Messages :
                \/ \E c \in Channels : PostForward(a, m, c)
                \/ EditMessage(a, m) \/ WithdrawMessage(a, m)
                \/ AddReaction(a, m) \/ DropReaction(a, m)
                \/ \E pinned \in BOOLEAN : SetPin(a, m, pinned)
    \/ \E e \in Events : \E op \in {"create", "edit", "delete"} : HandleWebhook(e, op)
    \/ \E w \in Workers : ProcessOnce(w) \/ Breaks(w)
    \/ \E t \in Sync!Tasks : ChatTime(t)

ChatSpec == ChatInit /\ [][ChatNext]_chatVars

(* The worker polls every two seconds and clocks advance.                  *)
ChatFairness ==
    /\ \A w \in Workers : WF_chatVars(ProcessOnce(w))
    /\ WF_chatVars(\E t \in Sync!Tasks : ChatTime(t))

-----------------------------------------------------------------------------
(* An event that is delivered again, or after a later event about the same *)
(* message, makes no second message (ApplyExternalMessage).                *)
AppliedOnce ==
    /\ \A m \in Messages : message[m].source \in Platforms => \E e \in Events : inbound[e] = m
    /\ \A e, f \in Events : inbound[e] = inbound[f] /\ inbound[e] # None => e = f

(* Nothing is sent to where it was written, nor outside of the lounge      *)
(* (createOutboundTasksExcept and its callers).                            *)
NoEcho ==
    \A m \in Messages, p \in Platforms :
        message[m].source = p \/ message[m].channel # Lounge => chatQueue[<<m, p>>] = <<>>

(* What its author withdrew is in no list again, whatever other requests   *)
(* of the author or a moderator are under way (lockOwnedWebsiteMessage).   *)
WithdrawnUnseen ==
    \A m \in withdrawn, c \in Channels, p \in Messages :
        m \notin ListChannelMessages(c) \cup ListPinned(c) \cup ListThreadReplies(p)

(* Once everything queued for a platform is sent, the copy there reads as  *)
(* the message does, through crashes and repeated sends (ClaimOutbox,      *)
(* MarkOutboxSent).                                                        *)
CopiesCurrent ==
    \A s \in Subject :
        /\ chatQueue[s] # <<>>
        /\ \A k \in DOMAIN chatQueue[s] : chatQueue[s][k].row.status = "done"
        => /\ bridge[s] # 0
           /\ copies[s][bridge[s]] = message[s[1]].text

(* What is written once appears once and in the right places: repeated     *)
(* events make no second message, nothing returns to its platform, what    *)
(* was withdrawn is unseen, and a copy whose rows are all sent reads as    *)
(* the message does (ApplyExternalMessage, createOutboundTasksExcept,      *)
(* lockOwnedWebsiteMessage, ClaimOutbox).                                  *)
ChatAgrees ==
    ChatTypeOK /\ AppliedOnce /\ NoEcho /\ WithdrawnUnseen /\ CopiesCurrent

(* "Thread replies stay in-app."                                           *)
RepliesStayInApp ==
    \A s \in Subject : message[s[1]].parent # None => chatQueue[s] = <<>>

(* The rows of a message and platform are an ordered outbox.               *)
Abandoned(s) == \E k \in DOMAIN chatQueue[s] : chatQueue[s][k].row.status = "abandoned"

ChatOutbox == INSTANCE OrderedOutbox
                  WITH Subjects <- Subject,
                       posted <- [s \in Subject |-> Len(chatQueue[s])],
                       latest <- arrived,
                       givenUp <- {s \in Subject : Abandoned(s)}

(* The platforms get the operations on a message in their order, each at   *)
(* least once, until an operation is abandoned (worker.go, ClaimOutbox).   *)
ChatInOrder == ChatOutbox!Spec

(* Every operation is sent, or the copy is given up, with every operation  *)
(* behind the one that failed (SyncWorker.Run).                            *)
ChatSettles ==
    \A s \in Subject :
        []<>(Abandoned(s) \/ \A k \in DOMAIN chatQueue[s] : chatQueue[s][k].row.status = "done")
=============================================================================

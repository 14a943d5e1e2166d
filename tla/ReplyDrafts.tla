----------------------------- MODULE ReplyDrafts -----------------------------
(***************************************************************************)
(* Replies that staff write with /re in a thread (internal/discordmail):   *)
(* a draft in Redis with a preview whose buttons send, edit or delete it,  *)
(* and the router that finds the case of the thread when it is sent.       *)
(*                                                                         *)
(* Every Redis command is a step of its own: an interaction loads a draft  *)
(* before it deletes or overwrites it, and a new draft takes the thread    *)
(* before it removes the former one and stores itself.                     *)
(***************************************************************************)
EXTENDS MailDesk

CONSTANTS
    DraftIds,       \* bound on the drafts
    NoDraft,
    Pressers        \* interactions the API handles at a time

ASSUME ReplyDraftsAssumption == NoDraft \notin DraftIds

VARIABLES
    drafts,         \* the drafts, as Redis keeps them
    current,        \* the draft each thread's key names
    presses,        \* interactions between two of their steps
    sent            \* how often each draft was mailed (history)

draftVars == <<drafts, current, presses, sent>>
replyVars == <<deskVars, draftVars>>

NoDraftYet == [state |-> "none", thread |-> NoThread, lapses |-> TRUE,
               raced |-> FALSE]
PressIdle == [step |-> "idle", draft |-> NoDraft, former |-> NoDraft,
              case |-> NoCase]

DraftsTypeOK ==
    /\ drafts \in [DraftIds ->
           [state : {"none", "saving", "live", "gone"}, lapses : BOOLEAN,
            thread : ThreadIds \cup {NoThread}, raced : BOOLEAN]]
    /\ current \in [ThreadIds -> DraftIds \cup {NoDraft}]
    /\ \A c \in Pressers : presses[c].step \in
           {"idle", "supersede", "store", "update", "remove", "take", "find",
            "resolve", "mail", "record"}
    /\ sent \in [DraftIds -> 0..2]

Press(c, step, d) ==
    presses' = [presses EXCEPT ![c] =
                    [PressIdle EXCEPT !.step = step, !.draft = d]]
PressStep(c, step) == presses' = [presses EXCEPT ![c].step = step]
PressEnds(c) == presses' = [presses EXCEPT ![c] = PressIdle]

Live(d) == drafts[d].state = "live"
Put(d, state) == [drafts EXCEPT ![d].state = state]

\* Another interaction has loaded the draft and not yet written it.
Handled(d) == \E c \in Pressers :
                  /\ presses[c].draft = d
                  /\ presses[c].step \in {"update", "remove", "take"}

-----------------------------------------------------------------------------
(* handleFreshModalSubmit, SaveDraft.                                      *)
TakeThread(c, t) ==
    /\ presses[c].step = "idle" /\ threads[t].about # NoCase
    /\ \E d \in DraftIds :
           /\ drafts[d].state = "none"
           /\ drafts' = [drafts EXCEPT ![d].state = "saving", ![d].thread = t]
           /\ current' = [current EXCEPT ![t] = d]
           /\ presses' = [presses EXCEPT ![c] =
                  [step |-> IF current[t] = NoDraft THEN "store" ELSE "supersede",
                   draft |-> d, former |-> current[t], case |-> NoCase]]
    /\ UNCHANGED <<deskVars, sent>>

Removed(d) == IF Live(d) THEN Put(d, "gone") ELSE drafts

Supersede(c) ==
    /\ presses[c].step = "supersede"
    /\ drafts' = Removed(presses[c].former)
    /\ PressStep(c, "store")
    /\ UNCHANGED <<deskVars, current, sent>>

StoreDraft(c) ==
    /\ presses[c].step = "store"
    /\ drafts' = Put(presses[c].draft, "live")
    /\ PressEnds(c)
    /\ UNCHANGED <<deskVars, current, sent>>

(* The buttons: each loads the draft first and refuses one that is gone.   *)
LoadDraft(c, d, step) ==
    /\ presses[c].step = "idle" /\ Live(d)
    /\ Press(c, step, d)
    /\ drafts' = [drafts EXCEPT ![d].raced = @ \/ Handled(d)]
    /\ UNCHANGED <<deskVars, current, sent>>

SubmitEdit(c, d) == LoadDraft(c, d, "update")
PressDelete(c, d) == LoadDraft(c, d, "remove")
PressSend(c, d) == LoadDraft(c, d, "take")

\* SET with KEEPTTL: a key that is gone comes back, without an expiry.
UpdateDraft(c) ==
    LET d == presses[c].draft
    IN  /\ presses[c].step = "update"
        /\ drafts' = [drafts EXCEPT ![d].state = "live",
                                    ![d].lapses = @ /\ Live(d)]
        /\ PressEnds(c)
        /\ UNCHANGED <<deskVars, current, sent>>

DeleteDraft(c) ==
    /\ presses[c].step = "remove"
    /\ drafts' = Removed(presses[c].draft)
    /\ PressEnds(c)
    /\ UNCHANGED <<deskVars, current, sent>>

\* A faulty variant of Taken: the draft stays after it was sent.
TakenNot(d) == drafts

Taken(d) == Removed(d)

TakeDraft(c) ==
    /\ presses[c].step = "take"
    /\ drafts' = Taken(presses[c].draft)
    /\ PressStep(c, "find")
    /\ UNCHANGED <<deskVars, current, sent>>

DraftLapses(d) ==
    /\ Live(d) /\ drafts[d].lapses
    /\ drafts' = Put(d, "gone")
    /\ current' = [t \in ThreadIds |->
                       IF current[t] = d THEN NoDraft ELSE current[t]]
    /\ UNCHANGED <<deskVars, presses, sent>>

-----------------------------------------------------------------------------
(* finishReply: ReplyRouter asks the applications, the inquiries and the   *)
(* reports for the thread, in this order.                                  *)

RouteReply(c) ==
    LET t == drafts[presses[c].draft].thread
    IN  /\ presses[c].step = "find"
        /\ \/ \E i \in Owners(t) :
                  presses' = [presses EXCEPT ![c].step = "mail", ![c].case = i]
           \/ Owners(t) = {} /\ PressStep(c, "resolve")
        /\ UNCHANGED <<deskVars, drafts, current, sent>>

\* ResolvePlatformContributionThread reads the number of the report from the
\* first message of the thread.
FindContributionReplyTargetByID(i) == cases[i].kind = "report"
Resolved(t) == {i \in CaseIds : /\ threads[t].about = i
                                /\ FindContributionReplyTargetByID(i)}

ResolveReport(c) ==
    LET t == drafts[presses[c].draft].thread
    IN  /\ presses[c].step = "resolve"
        /\ \/ \E i \in Resolved(t) :
                  /\ Links(i, t)
                  /\ cases' = [cases EXCEPT ![i].thread = t]
                  /\ presses' = [presses EXCEPT ![c].step = "mail", ![c].case = i]
           \/ /\ \A i \in Resolved(t) : ~Links(i, t)
              /\ PressEnds(c) /\ UNCHANGED cases
        /\ UNCHANGED <<threads, objects, intakes, mailed, unposted,
                       drafts, current, sent>>

MailReply(c) ==
    LET d == presses[c].draft  i == presses[c].case
    IN  /\ presses[c].step = "mail" /\ sent[d] < 2
        /\ ReplyByDiscord(i, drafts[d].thread)
        /\ sent' = [sent EXCEPT ![d] = @ + 1]
        /\ PressEnds(c)
        /\ UNCHANGED <<cases, threads, objects, intakes, unposted, drafts, current>>

\* A lookup or the mail fails, or the process ends: nothing tries again.
PressBreaks(c) ==
    /\ presses[c].step # "idle"
    /\ PressEnds(c)
    /\ UNCHANGED <<deskVars, drafts, current, sent>>

DraftsInit ==
    /\ drafts = [d \in DraftIds |-> NoDraftYet]
    /\ current = [t \in ThreadIds |-> NoDraft]
    /\ presses = [c \in Pressers |-> PressIdle]
    /\ sent = [d \in DraftIds |-> 0]

Interactions(c) ==
    \/ \E t \in ThreadIds : TakeThread(c, t)
    \/ Supersede(c) \/ StoreDraft(c)
    \/ \E d \in DraftIds : SubmitEdit(c, d) \/ PressDelete(c, d) \/ PressSend(c, d)
    \/ UpdateDraft(c) \/ DeleteDraft(c) \/ TakeDraft(c)
    \/ RouteReply(c) \/ ResolveReport(c) \/ MailReply(c) \/ PressBreaks(c)

ReplySteps ==
    \/ \E c \in Pressers : Interactions(c)
    \/ \E d \in DraftIds : DraftLapses(d)

\* The mail desk and the replies together.
RepliesNext == ReplySteps \/ (Desk /\ UNCHANGED draftVars)

RepliesSpec == DeskInit /\ DraftsInit /\ [][RepliesNext]_replyVars

-----------------------------------------------------------------------------
(* A reply goes to the person whose case the thread was opened for, though *)
(* the link of the case may be missing, late or made by the reply itself   *)
(* (ReplyRouter.ReplyByDiscord and the three services behind it).          *)
RepliesReachOwner ==
    \A r \in mailed : r.to = cases[threads[r.thread].about].from

(* A draft is mailed twice only when two interactions on it overlapped:    *)
(* send deletes the draft before it mails it (handleDraftAction).          *)
MailedOnceUnlessRaced == \A d \in DraftIds : sent[d] > 1 => drafts[d].raced

(* The answer to a late press says that the draft has been handled or has *)
(* expired: a draft is mailed once.                                        *)
MailedOnce == \A d \in DraftIds : sent[d] <= 1

(* DraftStore's comment: only one draft of a thread is live at a time.     *)
OneDraftPerThread ==
    \A d, e \in DraftIds :
        Live(d) /\ Live(e) /\ drafts[d].thread = drafts[e].thread => d = e

(* draftTTL's comment: an abandoned draft does not stay in Redis for good. *)
DraftsLapse == \A d \in DraftIds : Live(d) => drafts[d].lapses

(* A reply goes to the owner of its thread's case, and a draft twice only  *)
(* when two interactions overlapped (ReplyByDiscord, handleDraftAction).   *)
RepliesAgree == DraftsTypeOK /\ RepliesReachOwner /\ MailedOnceUnlessRaced
=============================================================================

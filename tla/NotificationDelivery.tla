------------------------ MODULE NotificationDelivery ------------------------
(***************************************************************************)
(* How an applicant is told of an inquiry: package                         *)
(* backend/internal/notifications and cmd/notification-worker.  A worker   *)
(* pass claims the inquiries that are due, writes a notice and an e-mail   *)
(* for each, and then claims the e-mails that are due and hands them to an *)
(* SMTP server.  Every statement commits on its own; a worker may be slow, *)
(* die, or lose its database between any two of them, and several may run. *)
(***************************************************************************)
EXTENDS OutboxRows, FiniteSets

CONSTANTS Inquiries,    \* willingness_inquiries
          Direct,       \* e-mails other parts of the API queue themselves
          Workers,
          None,         \* no item
          MaxFaults,    \* bound: crashes and failing marks
          MaxAsks       \* bound: how often deadlines are set anew

ASSUME DeliveryAssumption ==
    /\ Inquiries \cap Direct = {}
    /\ None \notin Inquiries \cup Direct
    /\ IsFiniteSet(Workers)
    /\ MaxFaults \in Nat
    /\ MaxAsks \in Nat

VARIABLES inquiry,      \* inquiry[i]: the notification columns of i
          answered,     \* the inquiries with a response event
          notice,       \* the inquiries with a row in notifications
          mail,         \* mail[m]: the row of m in email_outbox
          accepted,     \* accepted[m]: how often an SMTP server accepted m
          worker,       \* worker[w]: where the pass of w stands
          faults,       \* crashes and failing marks so far
          asks          \* new deadlines so far

rows == <<inquiry, answered, notice, mail, accepted>>
bounds == <<faults, asks>>
vars == <<rows, worker, bounds>>

(* An inquiry's e-mail has the inquiry's key, so there is one of it. *)
Mails == Inquiries \cup Direct

Steps == {"next", "noticed", "queued", "sent", "failing"}

Pass == [phase : {"idle", "inquiries", "mails"}, todo : SUBSET Mails,
         item : Mails \cup {None}, step : Steps]

PassAt(phase, S, x, s) == [phase |-> phase, todo |-> S, item |-> x, step |-> s]

Idle == PassAt("idle", {}, None, "next")

TypeOK ==
    /\ inquiry \in [Inquiries -> OutboxRow]
    /\ answered \subseteq Inquiries
    /\ notice \subseteq Inquiries
    /\ mail \in [Mails -> OutboxRow]
    /\ accepted \in [Mails -> Nat]
    /\ worker \in [Workers -> Pass]
    /\ \A w \in Workers : (worker[w].item = None) = (worker[w].step = "next")
    /\ faults \in 0..MaxFaults
    /\ asks \in 0..MaxAsks

Init ==
    /\ inquiry = [i \in Inquiries |-> NoRow]
    /\ answered = {}
    /\ notice = {}
    /\ mail = [m \in Mails |-> NoRow]
    /\ accepted = [m \in Mails |-> 0]
    /\ worker = [w \in Workers |-> Idle]
    /\ faults = 0
    /\ asks = 0

(* A faulty variant of Finishes: the item is kept.                         *)
FinishesStep(w) == worker' = [worker EXCEPT ![w].step = "next"]

(* The worker w has claimed the rows S, goes on with step s of item x, has *)
(* finished its item.                                                      *)
Claims(w, phase, S) ==
    worker' = [worker EXCEPT ![w] = PassAt(phase, S, None, "next")]

Continues(w, x, s) ==
    worker' = [worker EXCEPT ![w] = PassAt(worker[w].phase, worker[w].todo, x, s)]

Finishes(w) ==
    worker' = [worker EXCEPT ![w] = PassAt(worker[w].phase,
                                           worker[w].todo \ {worker[w].item}, None, "next")]

At(w, phase, step) == worker[w].phase = phase /\ worker[w].step = step

MayTake(w, phase, x) == At(w, phase, "next") /\ x \in worker[w].todo

-----------------------------------------------------------------------------
(* Faulty variants of the definitions below, which the runs must reject:   *)
(* an inquiry marked before its e-mail is queued, an e-mail marked before  *)
(* it is sent.                                                             *)
NoticeOnly(w, i) ==
    /\ MayTake(w, "inquiries", i)
    /\ notice' = notice \cup {i}
    /\ Continues(w, i, "queued")
    /\ UNCHANGED <<inquiry, answered, mail, accepted, bounds>>

MarkFirst(w, m) ==
    /\ MayTake(w, "mails", m)
    /\ Continues(w, m, "sent")
    /\ UNCHANGED <<rows, bounds>>

-----------------------------------------------------------------------------
(* The API.  A publication or a new deadline creates an inquiry; setting a *)
(* deadline again makes it pending unless it is enqueued.                  *)
CreateInquiry(i) ==
    /\ inquiry[i].status = "absent"
    /\ inquiry' = [inquiry EXCEPT ![i] = PendingRow]
    /\ UNCHANGED <<answered, notice, mail, accepted, worker, bounds>>

AskedAgain(r) ==
    [r EXCEPT !.status = IF r.status = "done" THEN "done" ELSE "pending",
              !.due = TRUE, !.stale = FALSE]

SetDeadline(i) ==
    /\ inquiry[i].status # "absent" /\ i \notin answered
    /\ asks < MaxAsks
    /\ asks' = asks + 1
    /\ inquiry' = [inquiry EXCEPT ![i] = AskedAgain(@)]
    /\ UNCHANGED <<answered, notice, mail, accepted, worker, faults>>

Answer(i) ==
    /\ inquiry[i].status # "absent"
    /\ answered' = answered \cup {i}
    /\ UNCHANGED <<inquiry, notice, mail, accepted, worker, bounds>>

EnqueueDirect(m) ==
    /\ mail[m].status = "absent"
    /\ mail' = [mail EXCEPT ![m] = PendingRow]
    /\ UNCHANGED <<inquiry, answered, notice, accepted, worker, bounds>>

-----------------------------------------------------------------------------
(* A pass.  SKIP LOCKED leaves rows out that another claim has locked.     *)
ClaimInquiryNotifications(w, S) ==
    /\ worker[w].phase = "idle"
    /\ \A i \in S : Claimable(inquiry[i]) /\ i \notin answered
    /\ inquiry' = [i \in Inquiries |-> IF i \in S THEN ClaimedRow(inquiry[i])
                                       ELSE inquiry[i]]
    /\ Claims(w, "inquiries", S)
    /\ UNCHANGED <<answered, notice, mail, accepted, bounds>>

CreateInApp(w, i) ==
    /\ MayTake(w, "inquiries", i)
    /\ notice' = notice \cup {i}
    /\ Continues(w, i, "noticed")
    /\ UNCHANGED <<inquiry, answered, mail, accepted, bounds>>

(* ON CONFLICT DO NOTHING *)
EnqueueEmail(w) ==
    LET i == worker[w].item
    IN  /\ At(w, "inquiries", "noticed")
        /\ mail' = [mail EXCEPT ![i] = IF @.status = "absent" THEN PendingRow ELSE @]
        /\ Continues(w, i, "queued")
        /\ UNCHANGED <<inquiry, answered, notice, accepted, bounds>>

(* Either insert fails, for instance because the account is not active.    *)
NotifyFails(w) ==
    /\ \/ At(w, "inquiries", "noticed") /\ Continues(w, worker[w].item, "failing")
       \/ \E i \in worker[w].todo :
             MayTake(w, "inquiries", i) /\ Continues(w, i, "failing")
    /\ UNCHANGED <<rows, bounds>>

MarkInquiryNotificationEnqueued(w) ==
    /\ At(w, "inquiries", "queued")
    /\ inquiry' = [inquiry EXCEPT ![worker[w].item] = DoneRow(@)]
    /\ Finishes(w)
    /\ UNCHANGED <<answered, notice, mail, accepted, bounds>>

MarkInquiryNotificationFailed(w) ==
    /\ At(w, "inquiries", "failing")
    /\ inquiry' = [inquiry EXCEPT ![worker[w].item] = FailedRow(@)]
    /\ Finishes(w)
    /\ UNCHANGED <<answered, notice, mail, accepted, bounds>>

ClaimEmailOutbox(w, S) ==
    /\ At(w, "inquiries", "next") /\ worker[w].todo = {}
    /\ \A m \in S : Claimable(mail[m])
    /\ mail' = [m \in Mails |-> IF m \in S THEN ClaimedRow(mail[m]) ELSE mail[m]]
    /\ Claims(w, "mails", S)
    /\ UNCHANGED <<inquiry, answered, notice, accepted, bounds>>

Send(w, m) ==
    /\ MayTake(w, "mails", m)
    /\ accepted' = [accepted EXCEPT ![m] = @ + 1]
    /\ Continues(w, m, "sent")
    /\ UNCHANGED <<inquiry, answered, notice, mail, bounds>>

(* The server refuses, or accepts and the connection breaks. *)
SendFails(w, m) ==
    /\ MayTake(w, "mails", m)
    /\ \/ accepted' = accepted
       \/ accepted' = [accepted EXCEPT ![m] = @ + 1]
    /\ Continues(w, m, "failing")
    /\ UNCHANGED <<inquiry, answered, notice, mail, bounds>>

MarkEmailSent(w) ==
    /\ At(w, "mails", "sent")
    /\ mail' = [mail EXCEPT ![worker[w].item] = DoneRow(@)]
    /\ Finishes(w)
    /\ UNCHANGED <<inquiry, answered, notice, accepted, bounds>>

MarkEmailFailed(w) ==
    /\ At(w, "mails", "failing")
    /\ mail' = [mail EXCEPT ![worker[w].item] = FailedRow(@)]
    /\ Finishes(w)
    /\ UNCHANGED <<inquiry, answered, notice, accepted, bounds>>

EndPass(w) ==
    /\ At(w, "mails", "next") /\ worker[w].todo = {}
    /\ worker' = [worker EXCEPT ![w] = Idle]
    /\ UNCHANGED <<rows, bounds>>

(* A mark fails: an e-mail that was sent is then marked as failed, any     *)
(* other item is left as it is.                                            *)
MarkFails(w) ==
    /\ faults < MaxFaults
    /\ faults' = faults + 1
    /\ \/ At(w, "mails", "sent") /\ Continues(w, worker[w].item, "failing")
       \/ worker[w].step \in {"queued", "failing"} /\ Finishes(w)
    /\ UNCHANGED <<rows, asks>>

Crash(w) ==
    /\ worker[w].phase # "idle"
    /\ faults < MaxFaults
    /\ faults' = faults + 1
    /\ worker' = [worker EXCEPT ![w] = Idle]
    /\ UNCHANGED <<rows, asks>>

-----------------------------------------------------------------------------
(* Time. *)
InquiryWaits(i) ==
    /\ \/ Waits(inquiry[i]) /\ inquiry' = [inquiry EXCEPT ![i] = Due(@)]
       \/ Silent(inquiry[i]) /\ inquiry' = [inquiry EXCEPT ![i] = Stale(@)]
    /\ UNCHANGED <<answered, notice, mail, accepted, worker, bounds>>

MailWaits(m) ==
    /\ \/ Waits(mail[m]) /\ mail' = [mail EXCEPT ![m] = Due(@)]
       \/ Silent(mail[m]) /\ mail' = [mail EXCEPT ![m] = Stale(@)]
    /\ UNCHANGED <<inquiry, answered, notice, accepted, worker, bounds>>

-----------------------------------------------------------------------------
Works(w) ==
    \/ \E S \in SUBSET Inquiries : ClaimInquiryNotifications(w, S)
    \/ \E i \in Inquiries : CreateInApp(w, i)
    \/ EnqueueEmail(w)
    \/ NotifyFails(w)
    \/ MarkInquiryNotificationEnqueued(w)
    \/ MarkInquiryNotificationFailed(w)
    \/ \E S \in SUBSET Mails : ClaimEmailOutbox(w, S)
    \/ \E m \in Mails : Send(w, m) \/ SendFails(w, m)
    \/ MarkEmailSent(w)
    \/ MarkEmailFailed(w)
    \/ EndPass(w)

Next ==
    \/ \E i \in Inquiries :
          CreateInquiry(i) \/ SetDeadline(i) \/ Answer(i) \/ InquiryWaits(i)
    \/ \E m \in Direct : EnqueueDirect(m)
    \/ \E m \in Mails : MailWaits(m)
    \/ \E w \in Workers : Works(w) \/ MarkFails(w) \/ Crash(w)

Spec == Init /\ [][Next]_vars

(* Workers poll every two seconds, clocks advance, and a row that can be   *)
(* claimed again and again is: a claim takes the oldest rows, and a row is *)
(* locked by others only for the length of one statement.                  *)
Claimed(x) ==
    \E w \in Workers :
        \/ \E S \in SUBSET Inquiries : x \in S /\ ClaimInquiryNotifications(w, S)
        \/ \E S \in SUBSET Mails : x \in S /\ ClaimEmailOutbox(w, S)

Fairness ==
    /\ \A w \in Workers : WF_vars(Works(w))
    /\ \A i \in Inquiries : WF_vars(InquiryWaits(i))
    /\ \A m \in Mails : WF_vars(MailWaits(m)) /\ SF_vars(Claimed(m))

FairSpec == Spec /\ Fairness
-----------------------------------------------------------------------------
(***************************************************************************)
(* Properties                                                              *)
(***************************************************************************)

(* An inquiry counts as enqueued only once its applicant has the notice    *)
(* and an e-mail, wherever the worker died in between.                     *)
EnqueuedIsTold ==
    \A i \in Inquiries :
        inquiry[i].status = "done" => i \in notice /\ mail[i].status # "absent"

(* No e-mail is recorded as sent that no server has accepted. *)
SentIsAccepted ==
    \A m \in Mails : mail[m].status = "done" => accepted[m] > 0

(* An e-mail leaves at most once per claim, however late its worker is.    *)
AcceptedPerClaim == \A m \in Mails : accepted[m] <= mail[m].attempts

(* Although claims do not look at max_attempts, retries end: beyond it a   *)
(* row is claimed at most once for every fault and every worker that still *)
(* holds it, and an inquiry once more by each worker per new deadline.     *)
RetriesBounded ==
    LET spare == faults + Cardinality(Workers) - 1
    IN  /\ \A m \in Mails : mail[m].attempts <= MaxAttempts + spare
        /\ \A i \in Inquiries : inquiry[i].attempts <= MaxAttempts + spare
                                                         + asks * Cardinality(Workers)

(* Claims bound what is tried and what is sent, although they do not look  *)
(* at max_attempts: however workers overlap, an e-mail leaves at most once *)
(* per claim, and only faults, workers that still hold a row, and new      *)
(* deadlines take it beyond them (ClaimEmailOutbox, MarkEmailFailed).      *)
AttemptsBounded == AcceptedPerClaim /\ RetriesBounded

(* An abandoned e-mail is not tried again; a late worker may still report  *)
(* that it was sent.                                                       *)
AbandonedNotRetried ==
    [][\A m \in Mails : mail[m].status = "abandoned" =>
          mail'[m].status \in {"abandoned", "done"}]_vars

(* Every e-mail in the outbox is sent or abandoned in the end, and every   *)
(* inquiry is answered, or its notification enqueued or abandoned.         *)
Settled(r) == r.status \in {"done", "abandoned"}

MailsSettle == \A m \in Mails : mail[m].status = "pending" ~> Settled(mail[m])

InquiriesSettle ==
    \A i \in Inquiries :
        inquiry[i].status = "pending" ~> i \in answered \/ Settled(inquiry[i])

(* "After this many attempts it is abandoned and not tried again" *)
AttemptsCapped == \A m \in Mails : mail[m].attempts <= MaxAttempts

(* Locks, reclaims and states keep repeated deliveries from overwriting    *)
(* what is recorded: an e-mail that is sent stays sent.                    *)
SentIsFinal ==
    [][\A m \in Mails : mail[m].status = "done" => mail'[m].status = "done"]_vars
=============================================================================

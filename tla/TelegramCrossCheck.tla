-------------------------- MODULE TelegramCrossCheck --------------------------
(***************************************************************************)
(* Willingness questions delivered by Telegram (internal/telegramcrosscheck *)
(* and the triggers of migrations 25 and 26): a link per participant, one  *)
(* outbox row per question, and the bot that claims rows over HTTP.        *)
(*                                                                         *)
(* The triggers run in the statement that fires them.  A participant's     *)
(* Telegram id is also its account and its private chat.  The bot keeps a  *)
(* delivery after its lease expired and may report on it late or never.    *)
(***************************************************************************)
EXTENDS Naturals, FiniteSets

CONSTANTS
    Participants,   \* Telegram user ids
    Questions,      \* bound on the rows of willingness_inquiries
    NoQuestion,
    AskedOf,        \* the participant of each
    Responders,     \* answers the API handles at a time
    ClaimLimit,     \* deliveries of one claim
    MaxAttempts     \* 8 in the code

ASSUME TelegramCrossCheckAssumption ==
    /\ AskedOf \in [Questions -> Participants]
    /\ ClaimLimit \in Nat \ {0} /\ MaxAttempts \in Nat \ {0}

VARIABLES
    tlink,          \* rows of telegram_account_links
    question,       \* the questions: asked; on a published list, with a result
                    \* that is asked; answered
    delivery,       \* rows of telegram_willingness_outbox
    carried,        \* deliveries the bot holds
    shown,          \* how often each question was shown (history)
    responds        \* answers between two of their steps

telegramVars == <<tlink, question, delivery, carried, shown, responds>>

NoDelivery == [status |-> "none", chat |-> FALSE, attempts |-> 0, why |-> "none"]

TelegramTypeOK ==
    /\ tlink \in [Participants -> {"none", "waiting", "on", "off"}]
    /\ question \in [Questions ->
           [asked : BOOLEAN, published : BOOLEAN, eligible : BOOLEAN,
            answered : BOOLEAN]]
    /\ delivery \in [Questions ->
           [status : {"none", "waiting_binding", "pending", "processing", "sent",
                      "failed", "blocked", "responded"},
            chat : BOOLEAN, attempts : 0..MaxAttempts,
            why : {"none", "off", "result", "send"}]]
    /\ carried \subseteq (Questions \X (1..MaxAttempts) \X {"claimed", "shown"})
    /\ shown \in [Questions -> Nat]
    /\ responds \in [Responders -> [step : {"idle", "write", "mark"},
                                    q : Questions \cup {NoQuestion}]]

Started(l) == l \in {"on", "off"}
Asked(p) == {q \in Questions : AskedOf[q] = p /\ question[q].asked}
Eligible(q) == question[q].asked /\ question[q].published /\ question[q].eligible
Open(q) == Eligible(q) /\ ~question[q].answered
Has(q, S) == delivery[q].status \in S

-----------------------------------------------------------------------------
(* The triggers.                                                           *)
\* enqueue_telegram_willingness_inquiry
Enqueued(l) ==
    [NoDelivery EXCEPT
        !.status = CASE l = "on" -> "pending" [] l = "off" -> "blocked"
                     [] OTHER -> "waiting_binding",
        !.chat = Started(l), !.why = IF l = "off" THEN "off" ELSE "none"]

Rebound(d, l) ==
    LET status ==
            CASE l = "on" /\ d.status \in {"waiting_binding", "blocked", "failed"}
                     -> "pending"
              [] l = "off" /\ d.status \in {"waiting_binding", "pending", "failed"}
                     -> "blocked"
              [] OTHER -> d.status
    IN  [d EXCEPT !.chat = Started(l), !.status = status,
             !.why = CASE status = "pending" -> "none"
                       [] status = "blocked" /\ d.status # "blocked" -> "off"
                       [] OTHER -> d.why]

\* sync_telegram_link_outbox
SyncedByLink(p, l) ==
    [q \in Questions |->
        IF AskedOf[q] # p \/ ~Open(q) \/ Has(q, {"sent", "responded", "processing"})
        THEN delivery[q]
        ELSE IF Has(q, {"none"}) THEN Enqueued(l) ELSE Rebound(delivery[q], l)]

\* reconcile_telegram_outbox_batch_status and _result_status
Reconciled(q) ==
    IF Has(q, {"none", "sent", "responded", "blocked"}) THEN delivery
    ELSE [delivery EXCEPT ![q].status = "blocked", ![q].why = "result"]

-----------------------------------------------------------------------------
(* The participants and the questions.                                     *)
LinkBecomes(p, l) ==
    /\ tlink' = [tlink EXCEPT ![p] = l]
    /\ delivery' = SyncedByLink(p, l)
    /\ UNCHANGED <<question, carried, shown, responds>>

\* A participant that is there already has its rows synchronised again.
SyncParticipant(p) ==
    LinkBecomes(p, IF tlink[p] = "none" THEN "waiting" ELSE tlink[p])

Bind(p) == tlink[p] # "none" /\ LinkBecomes(p, "on")

Disable(p) == Started(tlink[p]) /\ LinkBecomes(p, "off")

\* Publishing or correcting a result asks its applicant.
Ask(q) ==
    /\ ~question[q].asked /\ tlink[AskedOf[q]] # "none"
    /\ question' = [question EXCEPT ![q].asked = TRUE]
    /\ delivery' = [delivery EXCEPT ![q] = Enqueued(tlink[AskedOf[q]])]
    /\ UNCHANGED <<tlink, carried, shown, responds>>

\* The batch is superseded, or the result corrected to one that is not asked.
ResultLost(q) ==
    /\ Eligible(q)
    /\ \/ question' = [question EXCEPT ![q].published = FALSE]
       \/ question' = [question EXCEPT ![q].eligible = FALSE]
    /\ delivery' = Reconciled(q)
    /\ UNCHANGED <<tlink, carried, shown, responds>>

\* A further correction: the question is there already.
ResultRestored(q) ==
    /\ question[q].asked /\ question[q].published /\ ~question[q].eligible
    /\ question' = [question EXCEPT ![q].eligible = TRUE]
    /\ UNCHANGED <<tlink, delivery, carried, shown, responds>>

-----------------------------------------------------------------------------
(* What the bot shows a participant who started it, and the answers.       *)
(* The dashboard asks for an answer on every published list.               *)
Dashboard(p) ==
    {q \in Asked(p) : /\ Started(tlink[p])
                     /\ question[q].published /\ ~question[q].answered}

History(p) == {q \in Asked(p) : Started(tlink[p]) /\ question[q].answered}

ResolveInquiry(c, q) ==
    /\ responds[c].step = "idle"
    /\ Started(tlink[AskedOf[q]]) /\ Eligible(q)
    /\ responds' = [responds EXCEPT ![c] = [step |-> "write", q |-> q]]
    /\ UNCHANGED <<tlink, question, delivery, carried, shown>>

SetWillingnessFromChannel(c) ==
    LET q == responds[c].q
    IN  /\ responds[c].step = "write" /\ Eligible(q)
        /\ question' = [question EXCEPT ![q].answered = TRUE]
        /\ responds' = [responds EXCEPT ![c].step = "mark"]
        /\ UNCHANGED <<tlink, delivery, carried, shown>>

\* telegram_willingness_outbox_chat_delivery
ChatKnown(q) == delivery[q].chat

MarkResponded(c) ==
    LET q == responds[c].q
    IN  /\ responds[c].step = "mark"
        /\ delivery' = IF ChatKnown(q)
                       THEN [delivery EXCEPT ![q].status = "responded"]
                       ELSE delivery
        /\ responds' = [responds EXCEPT ![c] = [step |-> "idle", q |-> NoQuestion]]
        /\ UNCHANGED <<tlink, question, carried, shown>>

\* The result is gone meanwhile, or the process ends.
RespondEnds(c) ==
    /\ responds[c].step # "idle"
    /\ responds' = [responds EXCEPT ![c] = [step |-> "idle", q |-> NoQuestion]]
    /\ UNCHANGED <<tlink, question, delivery, carried, shown>>

\* An answer on the website leaves the outbox alone.
SetWillingness(q) ==
    /\ Eligible(q)
    /\ question' = [question EXCEPT ![q].answered = TRUE]
    /\ UNCHANGED <<tlink, delivery, carried, shown, responds>>

-----------------------------------------------------------------------------
(* The bot.                                                                *)
\* A faulty variant of Settles: every row whose lease expired is settled.
SettlesExpired(q, expired) == question[q].answered \/ q \in expired

Settles(q, expired) == question[q].answered

\* Leases that expired are recovered, then answered rows are settled.
Recovered(expired) ==
    [q \in Questions |->
        LET d == IF q \in expired
                 THEN [delivery[q] EXCEPT !.status = "failed"] ELSE delivery[q]
        IN  IF /\ d.status \notin {"none", "responded", "blocked"}
               /\ Settles(q, expired)
            THEN [d EXCEPT !.status = "responded"] ELSE d]

Claimable(q, d) ==
    /\ d.status \in {"pending", "failed"} /\ d.attempts < MaxAttempts
    /\ tlink[AskedOf[q]] = "on" /\ d.chat
    /\ Open(q)

Counted(n) == n + 1

\* The rows that are due are at most ClaimLimit of the claimable ones; a row
\* that would be settled without a chat makes the whole claim fail.
ClaimDeliveries ==
    \E expired \in SUBSET {q \in Questions : Has(q, {"processing"})} :
        LET now == Recovered(expired)
        IN  /\ \A q \in Questions : now[q].status = "responded" => now[q].chat
            /\ \E S \in SUBSET {q \in Questions : Claimable(q, now[q])} :
                   /\ Cardinality(S) <= ClaimLimit
                   /\ delivery' = [q \in Questions |->
                          IF q \in S
                          THEN [now[q] EXCEPT !.status = "processing",
                                              !.attempts = Counted(@)]
                          ELSE now[q]]
                   /\ carried' = carried \cup
                          {<<q, delivery[q].attempts + 1, "claimed">> : q \in S}
            /\ UNCHANGED <<tlink, question, shown, responds>>

SendMessage(q, n) ==
    /\ <<q, n, "claimed">> \in carried
    /\ carried' = (carried \ {<<q, n, "claimed">>}) \cup {<<q, n, "shown">>}
    /\ shown' = [shown EXCEPT ![q] = @ + 1]
    /\ UNCHANGED <<tlink, question, delivery, responds>>

Reported(q, n, step, status) ==
    /\ <<q, n, step>> \in carried
    /\ carried' = carried \ {<<q, n, step>>}
    /\ delivery' = IF Has(q, {"processing"})
                   THEN [delivery EXCEPT ![q].status = status,
                             ![q].why = IF status = "blocked" THEN "send" ELSE @]
                   ELSE delivery
    /\ UNCHANGED <<tlink, question, shown, responds>>

MarkSent(q, n) == Reported(q, n, "shown", "sent")

MarkFailed(q, n, retryable) ==
    Reported(q, n, "claimed",
             IF retryable /\ delivery[q].attempts < MaxAttempts
             THEN "failed" ELSE "blocked")

BotStops(q, n, step) ==
    /\ <<q, n, step>> \in carried
    /\ carried' = carried \ {<<q, n, step>>}
    /\ UNCHANGED <<tlink, question, delivery, shown, responds>>

TelegramInit ==
    /\ tlink = [p \in Participants |-> "none"]
    /\ question = [q \in Questions |->
           [asked |-> FALSE, published |-> TRUE, eligible |-> TRUE,
            answered |-> FALSE]]
    /\ delivery = [q \in Questions |-> NoDelivery]
    /\ carried = {} /\ shown = [q \in Questions |-> 0]
    /\ responds = [c \in Responders |-> [step |-> "idle", q |-> NoQuestion]]

BotSteps ==
    \/ ClaimDeliveries
    \/ \E q \in Questions, n \in 1..MaxAttempts :
           \/ SendMessage(q, n) \/ MarkSent(q, n)
           \/ \E retryable \in BOOLEAN : MarkFailed(q, n, retryable)
           \/ \E step \in {"claimed", "shown"} : BotStops(q, n, step)

TelegramNext ==
    \/ \E p \in Participants : SyncParticipant(p) \/ Bind(p) \/ Disable(p)
    \/ \E q \in Questions : \/ Ask(q) \/ ResultLost(q) \/ ResultRestored(q)
                            \/ SetWillingness(q)
    \/ \E c \in Responders : \/ \E q \in Questions : ResolveInquiry(c, q)
                             \/ SetWillingnessFromChannel(c)
                             \/ MarkResponded(c) \/ RespondEnds(c)
    \/ BotSteps

TelegramSpec == TelegramInit /\ [][TelegramNext]_telegramVars

-----------------------------------------------------------------------------
(* A question on a list that was superseded, or on a result that is no     *)
(* longer asked, is not queued, and no later /start queues it again        *)
(* (migration 26).                                                         *)
LostResultsRest ==
    \A q \in Questions :
        question[q].asked /\ ~Eligible(q) =>
            Has(q, {"sent", "responded", "blocked"})

(* A participant who stopped the messages has no open question queued,     *)
(* whichever of the question and the stop came first (the two triggers).   *)
OptOutIsQuiet ==
    \A q \in Questions :
        tlink[AskedOf[q]] = "off" /\ Open(q) => ~Has(q, {"pending", "waiting_binding"})

(* A question counts as responded only when the participant's history      *)
(* shows an answer, though the answer and the row are written by different *)
(* transactions (Service.Respond, ClaimDeliveries).                        *)
RespondedWasAnswered ==
    \A q \in Questions : Has(q, {"responded"}) => q \in History(AskedOf[q])

(* However often leases expire and reports are late, a question is shown   *)
(* at most MaxAttempts times (ClaimDeliveries counts the claims).          *)
ShowsBounded == \A q \in Questions : shown[q] <= MaxAttempts

(* Deliveries follow the results and the links: one whose result is gone   *)
(* rests, one whose participant left is quiet, one that was responded was  *)
(* answered, and none is shown beyond its attempts (ClaimDeliveries,       *)
(* Disable, MarkResponded, the triggers on results and links).             *)
CrossCheckHolds ==
    TelegramTypeOK /\ LostResultsRest /\ OptOutIsQuiet /\ RespondedWasAnswered
        /\ ShowsBounded

(* A question that Dashboard offers for an answer can be answered          *)
(* (ResolveInquiry).                                                       *)
DashboardAnswerable ==
    \A p \in Participants : \A q \in Dashboard(p) : Eligible(q)

(* The header of migration 26: the delivery stays aligned with the         *)
(* published results.                                                      *)
AlignedWithResults ==
    \A q \in Questions :
        Open(q) /\ tlink[AskedOf[q]] = "on" => delivery[q].why # "result"

(* The comment on the outbox calls it a durable delivery state: a claim    *)
(* can always be made.                                                     *)
ClaimsCanRun ==
    \A q \in Questions :
        question[q].answered /\ ~Has(q, {"none", "responded", "blocked"})
            => ChatKnown(q)
=============================================================================

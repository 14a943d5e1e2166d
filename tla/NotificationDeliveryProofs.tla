--------------------- MODULE NotificationDeliveryProofs ---------------------
(***************************************************************************)
(* What NotificationDelivery guarantees for any inquiries, e-mails,        *)
(* workers, attempts, faults and deadlines.  The invariant says what a     *)
(* worker may rely on at each of its statements; it survives because       *)
(* notices, e-mails and deliveries are never taken back.                   *)
(***************************************************************************)
EXTENDS NotificationDelivery, FiniteSetTheorems, TLAPS

(* Where a worker stands with the pass p: with an item, in the phase of    *)
(* its statement, and with what the statements before it left behind.      *)
StandsAt(p) ==
    /\ p.phase = "inquiries" =>
          p.todo \subseteq Inquiries /\ p.item \in Inquiries \cup {None}
    /\ p.step \in {"noticed", "queued"} => p.phase = "inquiries" /\ p.item \in notice
    /\ p.step = "queued" => mail[p.item].status # "absent"
    /\ p.step = "sent" => accepted[p.item] > 0

WorkersStand == \A w \in Workers : StandsAt(worker[w])

(* A late failure keeps an abandoned e-mail abandoned because it has used  *)
(* its attempts.                                                           *)
AbandonedIsSpent ==
    \A m \in Mails : mail[m].status = "abandoned" => mail[m].attempts >= MaxAttempts

IInv ==
    /\ TypeOK
    /\ WorkersStand
    /\ EnqueuedIsTold
    /\ SentIsAccepted
    /\ AbandonedIsSpent

-----------------------------------------------------------------------------
(* A row that is not there, or new, is of its type. *)
LEMMA NewRowsOK == NoRow \in OutboxRow /\ PendingRow \in OutboxRow
  <1>1. NoRow \in OutboxRow
    BY DEF OutboxRow, OutboxStatus, NoRow
  <1>2. \A x \in OutboxRow : [x EXCEPT !.status = "pending"] \in OutboxRow
    BY DEF OutboxRow, OutboxStatus
  <1> QED  BY <1>1, <1>2 DEF PendingRow

(* The statements keep the type of a row. *)
LEMMA RowsOK ==
    ASSUME NEW r \in OutboxRow
    PROVE  /\ ClaimedRow(r) \in OutboxRow /\ DoneRow(r) \in OutboxRow
           /\ FailedRow(r) \in OutboxRow
           /\ Due(r) \in OutboxRow /\ Stale(r) \in OutboxRow
           /\ AskedAgain(r) \in OutboxRow
  <1>0. /\ r = [status |-> r.status, attempts |-> r.attempts, due |-> r.due, stale |-> r.stale]
        /\ r.status \in OutboxStatus /\ r.attempts \in Nat
        /\ r.due \in BOOLEAN /\ r.stale \in BOOLEAN
    BY DEF OutboxRow
  <1>1. ClaimedRow(r) \in OutboxRow
    BY <1>0 DEF OutboxRow, OutboxStatus, ClaimedRow
  <1>2. DoneRow(r) \in OutboxRow
    BY <1>0 DEF OutboxRow, OutboxStatus, DoneRow
  <1>3. FailedRow(r) \in OutboxRow
    <2>1. CASE r.attempts >= MaxAttempts
      BY <1>0, <2>1 DEF OutboxRow, OutboxStatus, FailedRow
    <2>2. CASE ~(r.attempts >= MaxAttempts)
      BY <1>0, <2>2 DEF OutboxRow, OutboxStatus, FailedRow
    <2> QED  BY <2>1, <2>2
  <1>4. Due(r) \in OutboxRow /\ Stale(r) \in OutboxRow
    BY <1>0 DEF OutboxRow, OutboxStatus, Due, Stale
  <1>5. AskedAgain(r) \in OutboxRow
    <2>1. CASE r.status = "done"
      BY <1>0, <2>1 DEF OutboxRow, OutboxStatus, AskedAgain
    <2>2. CASE r.status # "done"
      BY <1>0, <2>2 DEF OutboxRow, OutboxStatus, AskedAgain
    <2> QED  BY <2>1, <2>2
  <1> QED  BY <1>1, <1>2, <1>3, <1>4, <1>5

(* What the statements do to the status and the attempts of a row. *)
LEMMA RowMoves ==
    ASSUME NEW r \in OutboxRow
    PROVE  /\ PendingRow.status = "pending"
           /\ ClaimedRow(r).status = "processing"
           /\ DoneRow(r).status = "done" /\ DoneRow(r).attempts = r.attempts
           /\ FailedRow(r).attempts = r.attempts
           /\ FailedRow(r).status \in {"abandoned", "failed"}
           /\ FailedRow(r).status = "abandoned" <=> r.attempts >= MaxAttempts
           /\ Due(r).status = r.status /\ Due(r).attempts = r.attempts
           /\ Stale(r).status = r.status /\ Stale(r).attempts = r.attempts
           /\ Claimable(r) => r.status \in {"pending", "failed", "processing"}
  BY DEF OutboxRow, NoRow, PendingRow, ClaimedRow, DoneRow, FailedRow, Due, Stale, Claimable

(* What a worker does with its pass. *)
LEMMA Moves ==
    ASSUME worker \in [Workers -> Pass], NEW w \in Workers, NEW p \in Pass,
           worker' = [worker EXCEPT ![w] = p]
    PROVE  /\ worker' \in [Workers -> Pass]
           /\ worker'[w] = p
           /\ \A v \in Workers \ {w} : worker'[v] = worker[v]
  OBVIOUS

(* Fields of a pass. *)
LEMMA PassFields ==
    ASSUME NEW phase \in {"idle", "inquiries", "mails"}, NEW S \in SUBSET Mails,
           NEW x \in Mails \cup {None}, NEW s \in Steps
    PROVE  /\ PassAt(phase, S, x, s) \in Pass
           /\ PassAt(phase, S, x, s).phase = phase /\ PassAt(phase, S, x, s).todo = S
           /\ PassAt(phase, S, x, s).item = x /\ PassAt(phase, S, x, s).step = s
  BY DEF PassAt, Pass

-----------------------------------------------------------------------------
(* What a step does to the rows, notices and deliveries, as far as the     *)
(* invariant depends on it.                                                *)
MailMoves ==
    \A m \in Mails :
        \/ mail'[m] = mail[m]
        \/ mail[m].status = "absent" /\ mail'[m] = PendingRow
        \/ Claimable(mail[m]) /\ mail'[m] = ClaimedRow(mail[m])
        \/ accepted[m] > 0 /\ mail'[m] = DoneRow(mail[m])
        \/ mail'[m] = FailedRow(mail[m])
        \/ mail'[m] \in {Due(mail[m]), Stale(mail[m])}

InquiryMoves ==
    \A i \in Inquiries :
        inquiry'[i].status = "done" =>
            inquiry[i].status = "done" \/ (i \in notice /\ mail[i].status # "absent")

Grows ==
    /\ notice \subseteq notice'
    /\ \A m \in Mails : accepted'[m] >= accepted[m]

PassMoves ==
    \A w \in Workers : worker'[w] = worker[w] \/ StandsAt(worker[w])'

Moved == TypeOK' /\ MailMoves /\ InquiryMoves /\ Grows /\ PassMoves

(* Rows that do not change. *)
LEMMA SameMails ==
    ASSUME mail' = mail  PROVE MailMoves
  BY DEF MailMoves

(* Inquiries that do not change. *)
LEMMA SameInquiries ==
    ASSUME inquiry' = inquiry  PROVE InquiryMoves
  BY DEF InquiryMoves

(* No delivery, and no notice taken back. *)
LEMMA SameAccepted ==
    ASSUME TypeOK, accepted' = accepted, notice \subseteq notice'  PROVE Grows
  BY DEF TypeOK, Grows

(* No worker moves. *)
LEMMA SamePasses ==
    ASSUME worker' = worker  PROVE PassMoves
  BY DEF PassMoves

(* One row of the outbox changes. *)
LEMMA OneMail ==
    ASSUME TypeOK, NEW m \in Mails, NEW r \in OutboxRow, mail' = [mail EXCEPT ![m] = r],
           \/ r = mail[m]
           \/ mail[m].status = "absent" /\ r = PendingRow
           \/ accepted[m] > 0 /\ r = DoneRow(mail[m])
           \/ r = FailedRow(mail[m])
           \/ r \in {Due(mail[m]), Stale(mail[m])}
    PROVE  mail' \in [Mails -> OutboxRow] /\ MailMoves
  <1>1. mail \in [Mails -> OutboxRow]
    BY DEF TypeOK
  <1>2. mail' \in [Mails -> OutboxRow] /\ mail'[m] = r
    BY <1>1
  <1>3. \A x \in Mails \ {m} : mail'[x] = mail[x]
    BY <1>1
  <1> QED  BY <1>2, <1>3 DEF MailMoves

(* One inquiry changes; it counts as enqueued only with notice and e-mail. *)
LEMMA OneInquiry ==
    ASSUME TypeOK, NEW i \in Inquiries, NEW r \in OutboxRow, inquiry' = [inquiry EXCEPT ![i] = r],
           r.status = "done" =>
               inquiry[i].status = "done" \/ (i \in notice /\ mail[i].status # "absent")
    PROVE  inquiry' \in [Inquiries -> OutboxRow] /\ InquiryMoves
  <1>1. inquiry \in [Inquiries -> OutboxRow]
    BY DEF TypeOK
  <1>2. inquiry' \in [Inquiries -> OutboxRow] /\ inquiry'[i] = r
    BY <1>1
  <1>3. \A x \in Inquiries \ {i} : inquiry'[x] = inquiry[x]
    BY <1>1
  <1> QED  BY <1>2, <1>3 DEF InquiryMoves

(* A pass of its type, with an item exactly between two statements. *)
PassOK(p) == p \in Pass /\ ((p.item = None) = (p.step = "next"))

(* One worker moves on with its pass. *)
LEMMA OnePass ==
    ASSUME TypeOK, NEW w \in Workers, NEW p, PassOK(p), worker' = [worker EXCEPT ![w] = p],
           StandsAt(p)'
    PROVE  /\ worker' \in [Workers -> Pass]
           /\ \A v \in Workers : (worker'[v].item = None) = (worker'[v].step = "next")
           /\ PassMoves
  <1>1. p \in Pass
    BY DEF PassOK
  <1>2. worker \in [Workers -> Pass]
    BY DEF TypeOK
  <1>3. /\ worker' \in [Workers -> Pass]
        /\ worker'[w] = p
        /\ \A v \in Workers \ {w} : worker'[v] = worker[v]
    BY <1>1, <1>2, Moves
  <1>4. PassMoves
    BY <1>3 DEF PassMoves, StandsAt
  <1>5. ASSUME NEW v \in Workers
        PROVE  (worker'[v].item = None) = (worker'[v].step = "next")
    <2>1. CASE v = w
      BY <1>3, <2>1 DEF PassOK
    <2>2. CASE v # w
      <3>1. worker'[v] = worker[v]
        BY <1>3, <2>2
      <3>2. (worker[v].item = None) = (worker[v].step = "next")
        BY DEF TypeOK
      <3> QED  BY <3>1, <3>2
    <2> QED  BY <2>1, <2>2
  <1> QED  BY <1>3, <1>4, <1>5

(* What holds of a worker before it moves. *)
LEMMA WorkerFacts ==
    ASSUME TypeOK, WorkersStand, NEW w \in Workers
    PROVE  /\ worker[w].phase \in {"idle", "inquiries", "mails"}
           /\ worker[w].todo \in SUBSET Mails /\ worker[w].step \in Steps
           /\ worker[w].item \in Mails \cup {None}
           /\ worker[w].step # "next" => worker[w].item \in Mails
           /\ worker[w].step # "next" /\ worker[w].phase = "inquiries" =>
                  worker[w].item \in Inquiries
           /\ StandsAt(worker[w])
  <1>1. worker[w] \in Pass
    BY DEF TypeOK
  <1>2. /\ worker[w].phase \in {"idle", "inquiries", "mails"}
        /\ worker[w].todo \in SUBSET Mails /\ worker[w].step \in Steps
        /\ worker[w].item \in Mails \cup {None}
    BY <1>1 DEF Pass
  <1>3. (worker[w].item = None) = (worker[w].step = "next")
    BY DEF TypeOK
  <1>4. StandsAt(worker[w])
    BY DEF WorkersStand
  <1>5. worker[w].step # "next" => worker[w].item # None
    BY <1>3
  <1> QED  BY <1>2, <1>4, <1>5 DEF StandsAt

(* A worker between two items, or idle. *)
LEMMA Between ==
    ASSUME NEW phase \in {"idle", "inquiries", "mails"}, NEW S \in SUBSET Mails,
           phase = "inquiries" => S \subseteq Inquiries
    PROVE  /\ PassOK(PassAt(phase, S, None, "next"))
           /\ \A p : p = PassAt(phase, S, None, "next") => StandsAt(p)'
  <1>1. /\ PassAt(phase, S, None, "next") \in Pass
        /\ PassAt(phase, S, None, "next").phase = phase
        /\ PassAt(phase, S, None, "next").todo = S
        /\ PassAt(phase, S, None, "next").item = None
        /\ PassAt(phase, S, None, "next").step = "next"
    BY PassFields DEF Steps
  <1> QED  BY <1>1 DEF PassOK, StandsAt

(* A worker at a step of an item. *)
LEMMA AtItem ==
    ASSUME NEW phase \in {"idle", "inquiries", "mails"}, NEW S \in SUBSET Mails,
           NEW x \in Mails, NEW s \in Steps \ {"next"},
           phase = "inquiries" => S \subseteq Inquiries /\ x \in Inquiries,
           s \in {"noticed", "queued"} => phase = "inquiries" /\ x \in notice',
           s = "queued" => mail'[x].status # "absent",
           s = "sent" => accepted'[x] > 0
    PROVE  /\ PassOK(PassAt(phase, S, x, s))
           /\ \A p : p = PassAt(phase, S, x, s) => StandsAt(p)'
  <1>1. /\ PassAt(phase, S, x, s) \in Pass
        /\ PassAt(phase, S, x, s).phase = phase /\ PassAt(phase, S, x, s).todo = S
        /\ PassAt(phase, S, x, s).item = x /\ PassAt(phase, S, x, s).step = s
    BY PassFields
  <1>2. x # None
    BY DeliveryAssumption DEF Mails
  <1> QED  BY <1>1, <1>2 DEF PassOK, StandsAt

(* What every step does.  The API, and time: *)
LEMMA ApiSteps ==
    ASSUME IInv,
           \/ \E i \in Inquiries :
                 CreateInquiry(i) \/ SetDeadline(i) \/ Answer(i) \/ InquiryWaits(i)
           \/ \E m \in Direct : EnqueueDirect(m)
           \/ \E m \in Mails : MailWaits(m)
    PROVE  Moved
  <1>0. TypeOK /\ PendingRow \in OutboxRow
    BY NewRowsOK DEF IInv
  <1>1. ASSUME NEW i \in Inquiries, CreateInquiry(i)  PROVE Moved
    <2>1. inquiry' = [inquiry EXCEPT ![i] = PendingRow] /\ PendingRow.status # "done"
      BY <1>1 DEF CreateInquiry, PendingRow, NoRow
    <2>2. inquiry' \in [Inquiries -> OutboxRow] /\ InquiryMoves
      BY <1>0, <2>1, OneInquiry
    <2>3. UNCHANGED <<answered, notice, mail, accepted, worker, bounds>>
      BY <1>1 DEF CreateInquiry
    <2>4. MailMoves /\ Grows /\ PassMoves
      BY <1>0, <2>3, SameMails, SameAccepted, SamePasses
    <2> QED  BY <1>0, <2>2, <2>3, <2>4 DEF Moved, TypeOK, bounds
  <1>2. ASSUME NEW i \in Inquiries, SetDeadline(i)  PROVE Moved
    <2>1. /\ inquiry' = [inquiry EXCEPT ![i] = AskedAgain(inquiry[i])]
          /\ inquiry[i] \in OutboxRow
      BY <1>0, <1>2 DEF SetDeadline, TypeOK
    <2>2. /\ AskedAgain(inquiry[i]) \in OutboxRow
          /\ AskedAgain(inquiry[i]).status = "done" => inquiry[i].status = "done"
      BY <2>1, RowsOK DEF AskedAgain, OutboxRow
    <2>3. inquiry' \in [Inquiries -> OutboxRow] /\ InquiryMoves
      BY <1>0, <2>1, <2>2, OneInquiry
    <2>4. UNCHANGED <<answered, notice, mail, accepted, worker, faults>>
      BY <1>2 DEF SetDeadline
    <2>5. asks' \in 0..MaxAsks
      BY <1>0, <1>2, DeliveryAssumption DEF SetDeadline, TypeOK
    <2>6. MailMoves /\ Grows /\ PassMoves
      BY <1>0, <2>4, SameMails, SameAccepted, SamePasses
    <2> QED  BY <1>0, <2>3, <2>4, <2>5, <2>6 DEF Moved, TypeOK
  <1>3. ASSUME NEW i \in Inquiries, Answer(i)  PROVE Moved
    <2>1. /\ answered' = answered \cup {i}
          /\ UNCHANGED <<inquiry, notice, mail, accepted, worker, bounds>>
      BY <1>3 DEF Answer
    <2>2. InquiryMoves /\ MailMoves /\ Grows /\ PassMoves
      BY <1>0, <2>1, SameInquiries, SameMails, SameAccepted, SamePasses
    <2> QED  BY <1>0, <2>1, <2>2 DEF Moved, TypeOK, bounds
  <1>4. ASSUME NEW i \in Inquiries, InquiryWaits(i)  PROVE Moved
    <2>1. inquiry[i] \in OutboxRow
      BY <1>0 DEF TypeOK
    <2>2. PICK r \in {Due(inquiry[i]), Stale(inquiry[i])} : inquiry' = [inquiry EXCEPT ![i] = r]
      BY <1>4 DEF InquiryWaits
    <2>3. r \in OutboxRow /\ r.status = inquiry[i].status
      <3>1. CASE r = Due(inquiry[i])
        BY <2>1, <3>1, RowsOK, RowMoves
      <3>2. CASE r = Stale(inquiry[i])
        BY <2>1, <3>2, RowsOK, RowMoves
      <3> QED  BY <3>1, <3>2
    <2>4. inquiry' \in [Inquiries -> OutboxRow] /\ InquiryMoves
      BY <1>0, <2>2, <2>3, OneInquiry
    <2>5. UNCHANGED <<answered, notice, mail, accepted, worker, bounds>>
      BY <1>4 DEF InquiryWaits
    <2>6. MailMoves /\ Grows /\ PassMoves
      BY <1>0, <2>5, SameMails, SameAccepted, SamePasses
    <2> QED  BY <1>0, <2>4, <2>5, <2>6 DEF Moved, TypeOK, bounds
  <1>5. ASSUME NEW m \in Direct, EnqueueDirect(m)  PROVE Moved
    <2>1. /\ m \in Mails /\ mail[m].status = "absent"
          /\ mail' = [mail EXCEPT ![m] = PendingRow]
      BY <1>5 DEF EnqueueDirect, Mails
    <2>2. mail' \in [Mails -> OutboxRow] /\ MailMoves
      BY <1>0, <2>1, OneMail
    <2>3. UNCHANGED <<inquiry, answered, notice, accepted, worker, bounds>>
      BY <1>5 DEF EnqueueDirect
    <2>4. InquiryMoves /\ Grows /\ PassMoves
      BY <1>0, <2>3, SameInquiries, SameAccepted, SamePasses
    <2> QED  BY <1>0, <2>2, <2>3, <2>4 DEF Moved, TypeOK, bounds
  <1>6. ASSUME NEW m \in Mails, MailWaits(m)  PROVE Moved
    <2>1. mail[m] \in OutboxRow
      BY <1>0 DEF TypeOK
    <2>2. PICK r \in {Due(mail[m]), Stale(mail[m])} : mail' = [mail EXCEPT ![m] = r]
      BY <1>6 DEF MailWaits
    <2>3. r \in OutboxRow
      BY <2>1, <2>2, RowsOK
    <2>4. mail' \in [Mails -> OutboxRow] /\ MailMoves
      BY <1>0, <2>2, <2>3, OneMail
    <2>5. UNCHANGED <<inquiry, answered, notice, accepted, worker, bounds>>
      BY <1>6 DEF MailWaits
    <2>6. InquiryMoves /\ Grows /\ PassMoves
      BY <1>0, <2>5, SameInquiries, SameAccepted, SamePasses
    <2> QED  BY <1>0, <2>4, <2>5, <2>6 DEF Moved, TypeOK, bounds
  <1> QED  BY <1>1, <1>2, <1>3, <1>4, <1>5, <1>6

(* The worker: claims, notices and e-mails of inquiries, their marks. *)
LEMMA InquirySteps ==
    ASSUME IInv, NEW w \in Workers,
           \/ \E S \in SUBSET Inquiries : ClaimInquiryNotifications(w, S)
           \/ \E i \in Inquiries : CreateInApp(w, i)
           \/ EnqueueEmail(w) \/ NotifyFails(w)
           \/ MarkInquiryNotificationEnqueued(w) \/ MarkInquiryNotificationFailed(w)
    PROVE  Moved
  <1>0. TypeOK /\ WorkersStand
    BY DEF IInv
  <1>w. /\ worker[w].phase \in {"idle", "inquiries", "mails"}
        /\ worker[w].todo \in SUBSET Mails
        /\ worker[w].step # "next" => worker[w].item \in Mails
        /\ worker[w].step # "next" /\ worker[w].phase = "inquiries" =>
               worker[w].item \in Inquiries
        /\ StandsAt(worker[w])
    BY <1>0, WorkerFacts
  <1>m. Inquiries \subseteq Mails
    BY DEF Mails
  <1>1. ASSUME NEW S \in SUBSET Inquiries, ClaimInquiryNotifications(w, S)  PROVE Moved
    <2>1. PICK p : p = PassAt("inquiries", S, None, "next")
      OBVIOUS
    <2>2. worker' = [worker EXCEPT ![w] = p]
      BY <1>1, <2>1 DEF ClaimInquiryNotifications, Claims
    <2>3. PassOK(p) /\ StandsAt(p)'
      BY <1>m, <2>1, Between
    <2>4. /\ worker' \in [Workers -> Pass] /\ PassMoves
          /\ \A v \in Workers : (worker'[v].item = None) = (worker'[v].step = "next")
      BY <1>0, <2>2, <2>3, OnePass
    <2>5. /\ inquiry' = [i \in Inquiries |-> IF i \in S THEN ClaimedRow(inquiry[i])
                                             ELSE inquiry[i]]
          /\ UNCHANGED <<answered, notice, mail, accepted, bounds>>
      BY <1>1 DEF ClaimInquiryNotifications
    <2>6. \A i \in Inquiries : /\ inquiry[i] \in OutboxRow
                               /\ ClaimedRow(inquiry[i]) \in OutboxRow
                               /\ ClaimedRow(inquiry[i]).status # "done"
      <3>1. \A i \in Inquiries : inquiry[i] \in OutboxRow
        BY <1>0 DEF TypeOK
      <3> QED  BY <3>1, RowsOK, RowMoves
    <2>7. inquiry' \in [Inquiries -> OutboxRow]
      BY <2>5, <2>6
    <2>8. InquiryMoves
      BY <2>5, <2>6 DEF InquiryMoves
    <2>9. MailMoves /\ Grows
      BY <1>0, <2>5, SameMails, SameAccepted
    <2> QED  BY <1>0, <2>4, <2>5, <2>7, <2>8, <2>9 DEF Moved, TypeOK, bounds
  <1>2. ASSUME NEW i \in Inquiries, CreateInApp(w, i)  PROVE Moved
    <2>0. /\ worker[w].phase = "inquiries" /\ worker[w].todo \subseteq Inquiries
          /\ notice' = notice \cup {i} /\ "noticed" \in Steps
          /\ UNCHANGED <<inquiry, answered, mail, accepted, bounds>>
      BY <1>2, <1>w DEF CreateInApp, MayTake, At, StandsAt, Steps
    <2>1. PICK p : p = PassAt(worker[w].phase, worker[w].todo, i, "noticed")
      OBVIOUS
    <2>2. worker' = [worker EXCEPT ![w] = p]
      BY <1>2, <2>1 DEF CreateInApp, Continues
    <2>3. PassOK(p) /\ StandsAt(p)'
      BY <1>w, <1>m, <2>0, <2>1, AtItem
    <2>4. /\ worker' \in [Workers -> Pass] /\ PassMoves
          /\ \A v \in Workers : (worker'[v].item = None) = (worker'[v].step = "next")
      BY <1>0, <2>2, <2>3, OnePass
    <2>5. InquiryMoves /\ MailMoves /\ Grows
      BY <1>0, <2>0, SameInquiries, SameMails, SameAccepted
    <2> QED  BY <1>0, <2>0, <2>4, <2>5 DEF Moved, TypeOK, bounds
  <1>3. CASE EnqueueEmail(w)
    <2> DEFINE i == worker[w].item
    <2>a. /\ worker[w].phase = "inquiries" /\ worker[w].step = "noticed"
          /\ worker[w].todo \subseteq Inquiries /\ i \in Inquiries /\ i \in notice
          /\ mail' = [mail EXCEPT ![i] = IF mail[i].status = "absent" THEN PendingRow ELSE mail[i]]
          /\ UNCHANGED <<inquiry, answered, notice, accepted, bounds>>
      BY <1>3, <1>w, <1>0 DEF EnqueueEmail, At, StandsAt, TypeOK, Mails
    <2>b. PICK r : r = IF mail[i].status = "absent" THEN PendingRow ELSE mail[i]
      OBVIOUS
    <2>c. /\ r \in OutboxRow
          /\ r = mail[i] \/ (mail[i].status = "absent" /\ r = PendingRow)
      BY <1>0, <1>m, <2>a, <2>b, NewRowsOK DEF TypeOK, NoRow
    <2>d. mail' \in [Mails -> OutboxRow] /\ MailMoves
      BY <1>0, <1>m, <2>a, <2>b, <2>c, OneMail
    <2>e. mail'[i].status # "absent"
      <3>1. mail'[i] = r
        BY <1>0, <1>m, <2>a, <2>b DEF TypeOK
      <3> QED  BY <2>b, <3>1 DEF PendingRow, NoRow
    <2> HIDE DEF i
    <2>f. "queued" \in Steps \ {"next"} /\ i \in notice'
      BY <2>a DEF Steps
    <2>g. PICK p : p = PassAt(worker[w].phase, worker[w].todo, i, "queued")
      OBVIOUS
    <2>h. worker' = [worker EXCEPT ![w] = p]
      BY <1>3, <2>g DEF EnqueueEmail, Continues, i
    <2>i. PassOK(p) /\ StandsAt(p)'
      BY <1>w, <1>m, <2>a, <2>e, <2>f, <2>g, AtItem
    <2>j. /\ worker' \in [Workers -> Pass] /\ PassMoves
          /\ \A v \in Workers : (worker'[v].item = None) = (worker'[v].step = "next")
      BY <1>0, <2>h, <2>i, OnePass
    <2>k. InquiryMoves /\ Grows
      BY <1>0, <2>a, SameInquiries, SameAccepted
    <2> QED  BY <1>0, <2>a, <2>d, <2>j, <2>k DEF Moved, TypeOK, bounds
  <1>4. CASE NotifyFails(w)
    <2>a. PICK i \in Inquiries :
              /\ worker[w].phase = "inquiries" /\ worker[w].todo \subseteq Inquiries
              /\ Continues(w, i, "failing")
      <3>1. CASE At(w, "inquiries", "noticed") /\ Continues(w, worker[w].item, "failing")
        BY <3>1, <1>w DEF At, StandsAt
      <3>2. CASE \E i \in worker[w].todo :
                    MayTake(w, "inquiries", i) /\ Continues(w, i, "failing")
        BY <3>2, <1>w DEF MayTake, At, StandsAt
      <3> QED  BY <1>4, <3>1, <3>2 DEF NotifyFails
    <2>b. UNCHANGED <<rows, bounds>> /\ "failing" \in Steps
      BY <1>4 DEF NotifyFails, Steps
    <2>c. PICK p : p = PassAt(worker[w].phase, worker[w].todo, i, "failing")
      OBVIOUS
    <2>d. worker' = [worker EXCEPT ![w] = p]
      BY <2>a, <2>c DEF Continues
    <2>e. PassOK(p) /\ StandsAt(p)'
      BY <1>w, <1>m, <2>a, <2>b, <2>c, AtItem
    <2>f. /\ worker' \in [Workers -> Pass] /\ PassMoves
          /\ \A v \in Workers : (worker'[v].item = None) = (worker'[v].step = "next")
      BY <1>0, <2>d, <2>e, OnePass
    <2>g. InquiryMoves /\ MailMoves /\ Grows
      BY <1>0, <2>b, SameInquiries, SameMails, SameAccepted DEF rows
    <2> QED  BY <1>0, <2>b, <2>f, <2>g DEF Moved, TypeOK, rows, bounds
  <1>5. CASE MarkInquiryNotificationEnqueued(w)
    <2> DEFINE i == worker[w].item
               S == worker[w].todo \ {i}
    <2>a. /\ worker[w].phase = "inquiries" /\ worker[w].step = "queued"
          /\ worker[w].todo \subseteq Inquiries /\ i \in Inquiries
          /\ inquiry' = [inquiry EXCEPT ![i] = DoneRow(inquiry[i])]
          /\ UNCHANGED <<answered, notice, mail, accepted, bounds>>
      BY <1>5, <1>w, <1>0 DEF MarkInquiryNotificationEnqueued, At, StandsAt, TypeOK
    <2>b. /\ DoneRow(inquiry[i]) \in OutboxRow
          /\ i \in notice /\ mail[i].status # "absent"
      <3>1. inquiry[i] \in OutboxRow
        BY <1>0, <2>a DEF TypeOK
      <3> QED  BY <3>1, <2>a, <1>w, RowsOK, RowMoves DEF StandsAt
    <2>c. inquiry' \in [Inquiries -> OutboxRow] /\ InquiryMoves
      BY <1>0, <2>a, <2>b, OneInquiry
    <2>d. S \in SUBSET Mails /\ S \subseteq Inquiries
      BY <1>w, <2>a
    <2>e. PICK p : p = PassAt(worker[w].phase, S, None, "next")
      OBVIOUS
    <2>f. worker' = [worker EXCEPT ![w] = p]
      BY <1>5, <2>e DEF MarkInquiryNotificationEnqueued, Finishes
    <2>g. PassOK(p) /\ StandsAt(p)'
      BY <1>w, <2>d, <2>e, Between
    <2>h. /\ worker' \in [Workers -> Pass] /\ PassMoves
          /\ \A v \in Workers : (worker'[v].item = None) = (worker'[v].step = "next")
      BY <1>0, <2>f, <2>g, OnePass
    <2>i. MailMoves /\ Grows
      BY <1>0, <2>a, SameMails, SameAccepted
    <2> QED  BY <1>0, <2>a, <2>c, <2>h, <2>i DEF Moved, TypeOK, bounds
  <1>6. CASE MarkInquiryNotificationFailed(w)
    <2> DEFINE i == worker[w].item
               S == worker[w].todo \ {i}
    <2>a. /\ worker[w].phase = "inquiries" /\ worker[w].step = "failing"
          /\ worker[w].todo \subseteq Inquiries /\ i \in Inquiries
          /\ inquiry' = [inquiry EXCEPT ![i] = FailedRow(inquiry[i])]
          /\ UNCHANGED <<answered, notice, mail, accepted, bounds>>
      BY <1>6, <1>w, <1>0 DEF MarkInquiryNotificationFailed, At, StandsAt, TypeOK
    <2>b. /\ FailedRow(inquiry[i]) \in OutboxRow
          /\ FailedRow(inquiry[i]).status # "done"
      <3>1. inquiry[i] \in OutboxRow
        BY <1>0, <2>a DEF TypeOK
      <3> QED  BY <3>1, <2>a, <1>w, RowsOK, RowMoves DEF StandsAt
    <2>c. inquiry' \in [Inquiries -> OutboxRow] /\ InquiryMoves
      BY <1>0, <2>a, <2>b, OneInquiry
    <2>d. S \in SUBSET Mails /\ S \subseteq Inquiries
      BY <1>w, <2>a
    <2>e. PICK p : p = PassAt(worker[w].phase, S, None, "next")
      OBVIOUS
    <2>f. worker' = [worker EXCEPT ![w] = p]
      BY <1>6, <2>e DEF MarkInquiryNotificationFailed, Finishes
    <2>g. PassOK(p) /\ StandsAt(p)'
      BY <1>w, <2>d, <2>e, Between
    <2>h. /\ worker' \in [Workers -> Pass] /\ PassMoves
          /\ \A v \in Workers : (worker'[v].item = None) = (worker'[v].step = "next")
      BY <1>0, <2>f, <2>g, OnePass
    <2>i. MailMoves /\ Grows
      BY <1>0, <2>a, SameMails, SameAccepted
    <2> QED  BY <1>0, <2>a, <2>c, <2>h, <2>i DEF Moved, TypeOK, bounds
  <1> QED  BY <1>1, <1>2, <1>3, <1>4, <1>5, <1>6

(* The worker: claims, deliveries and marks of e-mails, and how a pass     *)
(* ends.                                                                   *)
LEMMA MailSteps ==
    ASSUME IInv, NEW w \in Workers,
           \/ \E S \in SUBSET Mails : ClaimEmailOutbox(w, S)
           \/ \E m \in Mails : Send(w, m) \/ SendFails(w, m)
           \/ MarkEmailSent(w) \/ MarkEmailFailed(w) \/ EndPass(w)
           \/ MarkFails(w) \/ Crash(w)
    PROVE  Moved
  <1>0. TypeOK /\ WorkersStand
    BY DEF IInv
  <1>w. /\ worker[w].phase \in {"idle", "inquiries", "mails"}
        /\ worker[w].todo \in SUBSET Mails
        /\ worker[w].step # "next" => worker[w].item \in Mails
        /\ worker[w].step # "next" /\ worker[w].phase = "inquiries" =>
               worker[w].item \in Inquiries
        /\ StandsAt(worker[w])
    BY <1>0, WorkerFacts
  <1>1. ASSUME NEW S \in SUBSET Mails, ClaimEmailOutbox(w, S)  PROVE Moved
    <2>1. PICK p : p = PassAt("mails", S, None, "next")
      OBVIOUS
    <2>2. worker' = [worker EXCEPT ![w] = p]
      BY <1>1, <2>1 DEF ClaimEmailOutbox, Claims
    <2>3. PassOK(p) /\ StandsAt(p)'
      BY <2>1, Between
    <2>4. /\ worker' \in [Workers -> Pass] /\ PassMoves
          /\ \A v \in Workers : (worker'[v].item = None) = (worker'[v].step = "next")
      BY <1>0, <2>2, <2>3, OnePass
    <2>5. /\ mail' = [m \in Mails |-> IF m \in S THEN ClaimedRow(mail[m]) ELSE mail[m]]
          /\ \A m \in S : Claimable(mail[m])
          /\ UNCHANGED <<inquiry, answered, notice, accepted, bounds>>
      BY <1>1 DEF ClaimEmailOutbox
    <2>6. \A m \in Mails : mail[m] \in OutboxRow /\ ClaimedRow(mail[m]) \in OutboxRow
      <3>1. \A m \in Mails : mail[m] \in OutboxRow
        BY <1>0 DEF TypeOK
      <3> QED  BY <3>1, RowsOK
    <2>7. mail' \in [Mails -> OutboxRow]
      BY <2>5, <2>6
    <2>8. MailMoves
      BY <2>5 DEF MailMoves
    <2>9. InquiryMoves /\ Grows
      BY <1>0, <2>5, SameInquiries, SameAccepted
    <2> QED  BY <1>0, <2>4, <2>5, <2>7, <2>8, <2>9 DEF Moved, TypeOK, bounds
  <1>2. ASSUME NEW m \in Mails, Send(w, m)  PROVE Moved
    <2>a. /\ worker[w].phase = "mails" /\ "sent" \in Steps
          /\ accepted' = [accepted EXCEPT ![m] = accepted[m] + 1]
          /\ UNCHANGED <<inquiry, answered, notice, mail, bounds>>
      BY <1>2, <1>0 DEF Send, MayTake, At, Steps, TypeOK
    <2>b. /\ accepted \in [Mails -> Nat] /\ accepted' \in [Mails -> Nat]
          /\ \A x \in Mails : accepted'[x] >= accepted[x]
          /\ accepted'[m] > 0
      BY <1>0, <2>a DEF TypeOK
    <2>c. PICK p : p = PassAt(worker[w].phase, worker[w].todo, m, "sent")
      OBVIOUS
    <2>d. worker' = [worker EXCEPT ![w] = p]
      BY <1>2, <2>c DEF Send, Continues
    <2>e. PassOK(p) /\ StandsAt(p)'
      BY <1>w, <2>a, <2>b, <2>c, AtItem
    <2>f. /\ worker' \in [Workers -> Pass] /\ PassMoves
          /\ \A v \in Workers : (worker'[v].item = None) = (worker'[v].step = "next")
      BY <1>0, <2>d, <2>e, OnePass
    <2>g. InquiryMoves /\ MailMoves
      BY <2>a, SameInquiries, SameMails
    <2>h. Grows
      BY <2>a, <2>b DEF Grows
    <2> QED  BY <1>0, <2>a, <2>b, <2>f, <2>g, <2>h DEF Moved, TypeOK, bounds
  <1>3. ASSUME NEW m \in Mails, SendFails(w, m)  PROVE Moved
    <2>a. /\ worker[w].phase = "mails" /\ "failing" \in Steps
          /\ (accepted' = accepted \/ accepted' = [accepted EXCEPT ![m] = accepted[m] + 1])
          /\ UNCHANGED <<inquiry, answered, notice, mail, bounds>>
      BY <1>3, <1>0 DEF SendFails, MayTake, At, Steps, TypeOK
    <2>b. /\ accepted \in [Mails -> Nat] /\ accepted' \in [Mails -> Nat]
          /\ \A x \in Mails : accepted'[x] >= accepted[x]
      BY <1>0, <2>a DEF TypeOK
    <2>c. PICK p : p = PassAt(worker[w].phase, worker[w].todo, m, "failing")
      OBVIOUS
    <2>d. worker' = [worker EXCEPT ![w] = p]
      BY <1>3, <2>c DEF SendFails, Continues
    <2>e. PassOK(p) /\ StandsAt(p)'
      BY <1>w, <2>a, <2>b, <2>c, AtItem
    <2>f. /\ worker' \in [Workers -> Pass] /\ PassMoves
          /\ \A v \in Workers : (worker'[v].item = None) = (worker'[v].step = "next")
      BY <1>0, <2>d, <2>e, OnePass
    <2>g. InquiryMoves /\ MailMoves
      BY <2>a, SameInquiries, SameMails
    <2>h. Grows
      BY <2>a, <2>b DEF Grows
    <2> QED  BY <1>0, <2>a, <2>b, <2>f, <2>g, <2>h DEF Moved, TypeOK, bounds
  <1>4. CASE MarkEmailSent(w)
    <2> DEFINE m == worker[w].item
               S == worker[w].todo \ {m}
    <2>a. /\ worker[w].phase = "mails" /\ worker[w].step = "sent" /\ m \in Mails
          /\ mail' = [mail EXCEPT ![m] = DoneRow(mail[m])]
          /\ UNCHANGED <<inquiry, answered, notice, accepted, bounds>>
      BY <1>4, <1>w, <1>0 DEF MarkEmailSent, At, TypeOK
    <2>b. DoneRow(mail[m]) \in OutboxRow
      <3>1. mail[m] \in OutboxRow
        BY <1>0, <2>a DEF TypeOK
      <3> QED  BY <3>1, RowsOK
    <2>c. mail' \in [Mails -> OutboxRow] /\ MailMoves
      BY <1>0, <1>w, <2>a, <2>b, OneMail DEF StandsAt
    <2>d. S \in SUBSET Mails
      BY <1>w
    <2>e. PICK p : p = PassAt(worker[w].phase, S, None, "next")
      OBVIOUS
    <2>f. worker' = [worker EXCEPT ![w] = p]
      BY <1>4, <2>e DEF MarkEmailSent, Finishes
    <2>g. PassOK(p) /\ StandsAt(p)'
      BY <1>w, <2>a, <2>d, <2>e, Between
    <2>h. /\ worker' \in [Workers -> Pass] /\ PassMoves
          /\ \A v \in Workers : (worker'[v].item = None) = (worker'[v].step = "next")
      BY <1>0, <2>f, <2>g, OnePass
    <2>i. InquiryMoves /\ Grows
      BY <1>0, <2>a, SameInquiries, SameAccepted
    <2> QED  BY <1>0, <2>a, <2>c, <2>h, <2>i DEF Moved, TypeOK, bounds
  <1>5. CASE MarkEmailFailed(w)
    <2> DEFINE m == worker[w].item
               S == worker[w].todo \ {m}
    <2>a. /\ worker[w].phase = "mails" /\ worker[w].step = "failing" /\ m \in Mails
          /\ mail' = [mail EXCEPT ![m] = FailedRow(mail[m])]
          /\ UNCHANGED <<inquiry, answered, notice, accepted, bounds>>
      BY <1>5, <1>w, <1>0 DEF MarkEmailFailed, At, TypeOK
    <2>b. FailedRow(mail[m]) \in OutboxRow
      <3>1. mail[m] \in OutboxRow
        BY <1>0, <2>a DEF TypeOK
      <3> QED  BY <3>1, RowsOK
    <2>c. mail' \in [Mails -> OutboxRow] /\ MailMoves
      BY <1>0, <1>w, <2>a, <2>b, OneMail DEF StandsAt
    <2>d. S \in SUBSET Mails
      BY <1>w
    <2>e. PICK p : p = PassAt(worker[w].phase, S, None, "next")
      OBVIOUS
    <2>f. worker' = [worker EXCEPT ![w] = p]
      BY <1>5, <2>e DEF MarkEmailFailed, Finishes
    <2>g. PassOK(p) /\ StandsAt(p)'
      BY <1>w, <2>a, <2>d, <2>e, Between
    <2>h. /\ worker' \in [Workers -> Pass] /\ PassMoves
          /\ \A v \in Workers : (worker'[v].item = None) = (worker'[v].step = "next")
      BY <1>0, <2>f, <2>g, OnePass
    <2>i. InquiryMoves /\ Grows
      BY <1>0, <2>a, SameInquiries, SameAccepted
    <2> QED  BY <1>0, <2>a, <2>c, <2>h, <2>i DEF Moved, TypeOK, bounds
  <1>6. CASE EndPass(w) \/ Crash(w)
    <2>a. UNCHANGED rows /\ faults' \in 0..MaxFaults /\ asks' = asks
      BY <1>0, <1>6, DeliveryAssumption DEF EndPass, Crash, TypeOK, bounds
    <2>b. PICK p : p = PassAt("idle", {}, None, "next")
      OBVIOUS
    <2>c. worker' = [worker EXCEPT ![w] = p]
      BY <1>6, <2>b DEF EndPass, Crash, Idle
    <2>d. PassOK(p) /\ StandsAt(p)'
      BY <2>b, Between
    <2>e. /\ worker' \in [Workers -> Pass] /\ PassMoves
          /\ \A v \in Workers : (worker'[v].item = None) = (worker'[v].step = "next")
      BY <1>0, <2>c, <2>d, OnePass
    <2>f. InquiryMoves /\ MailMoves /\ Grows
      BY <1>0, <2>a, SameInquiries, SameMails, SameAccepted DEF rows
    <2> QED  BY <1>0, <2>a, <2>e, <2>f DEF Moved, TypeOK, rows
  <1>7. CASE MarkFails(w)
    <2>a. UNCHANGED rows /\ faults' \in 0..MaxFaults /\ asks' = asks
      BY <1>0, <1>7, DeliveryAssumption DEF MarkFails, TypeOK
    <2>b. InquiryMoves /\ MailMoves /\ Grows
      BY <1>0, <2>a, SameInquiries, SameMails, SameAccepted DEF rows
    <2>c. CASE At(w, "mails", "sent") /\ Continues(w, worker[w].item, "failing")
      <3>1. /\ worker[w].phase = "mails" /\ worker[w].item \in Mails
            /\ "failing" \in Steps
        BY <1>w, <2>c DEF At, Steps
      <3>2. PICK p : p = PassAt(worker[w].phase, worker[w].todo, worker[w].item, "failing")
        OBVIOUS
      <3>3. worker' = [worker EXCEPT ![w] = p]
        BY <2>c, <3>2 DEF Continues
      <3>4. PassOK(p) /\ StandsAt(p)'
        BY <1>w, <3>1, <3>2, AtItem
      <3>5. /\ worker' \in [Workers -> Pass] /\ PassMoves
            /\ \A v \in Workers : (worker'[v].item = None) = (worker'[v].step = "next")
        BY <1>0, <3>3, <3>4, OnePass
      <3> QED  BY <1>0, <2>a, <2>b, <3>5 DEF Moved, TypeOK, rows
    <2>d. CASE Finishes(w)
      <3> DEFINE S == worker[w].todo \ {worker[w].item}
      <3>1. S \in SUBSET Mails /\ (worker[w].phase = "inquiries" => S \subseteq Inquiries)
        BY <1>w DEF StandsAt
      <3>2. PICK p : p = PassAt(worker[w].phase, S, None, "next")
        OBVIOUS
      <3>3. worker' = [worker EXCEPT ![w] = p]
        BY <2>d, <3>2 DEF Finishes
      <3>4. PassOK(p) /\ StandsAt(p)'
        BY <1>w, <3>1, <3>2, Between
      <3>5. /\ worker' \in [Workers -> Pass] /\ PassMoves
            /\ \A v \in Workers : (worker'[v].item = None) = (worker'[v].step = "next")
        BY <1>0, <3>3, <3>4, OnePass
      <3> QED  BY <1>0, <2>a, <2>b, <3>5 DEF Moved, TypeOK, rows
    <2> QED  BY <1>7, <2>c, <2>d DEF MarkFails
  <1> QED  BY <1>1, <1>2, <1>3, <1>4, <1>5, <1>6, <1>7

(* A step is one of these, or leaves everything as it is. *)
LEMMA EveryStep ==
    ASSUME IInv, [Next]_vars  PROVE Moved
  <1>1. CASE Next
    <2>1. ASSUME NEW w \in Workers, Works(w) \/ MarkFails(w) \/ Crash(w)  PROVE Moved
      <3>1. CASE \/ \E S \in SUBSET Inquiries : ClaimInquiryNotifications(w, S)
                 \/ \E i \in Inquiries : CreateInApp(w, i)
                 \/ EnqueueEmail(w) \/ NotifyFails(w)
                 \/ MarkInquiryNotificationEnqueued(w) \/ MarkInquiryNotificationFailed(w)
        BY <3>1, InquirySteps
      <3>2. CASE \/ \E S \in SUBSET Mails : ClaimEmailOutbox(w, S)
                 \/ \E m \in Mails : Send(w, m) \/ SendFails(w, m)
                 \/ MarkEmailSent(w) \/ MarkEmailFailed(w) \/ EndPass(w)
                 \/ MarkFails(w) \/ Crash(w)
        BY <3>2, MailSteps
      <3> QED  BY <2>1, <3>1, <3>2 DEF Works
    <2>2. CASE \/ \E i \in Inquiries :
                     CreateInquiry(i) \/ SetDeadline(i) \/ Answer(i) \/ InquiryWaits(i)
               \/ \E m \in Direct : EnqueueDirect(m)
               \/ \E m \in Mails : MailWaits(m)
      BY <2>2, ApiSteps
    <2> QED  BY <1>1, <2>1, <2>2 DEF Next
  <1>2. CASE UNCHANGED vars
    <2>1. TypeOK
      BY DEF IInv
    <2>2. UNCHANGED <<inquiry, answered, notice, mail, accepted, worker, faults, asks>>
      BY <1>2 DEF vars, rows, bounds
    <2>3. InquiryMoves /\ MailMoves /\ Grows /\ PassMoves
      BY <2>1, <2>2, SameInquiries, SameMails, SameAccepted, SamePasses
    <2> QED  BY <2>1, <2>2, <2>3 DEF Moved, TypeOK
  <1> QED  BY <1>1, <1>2

(* An e-mail never leaves the outbox. *)
LEMMA NeverAbsent ==
    ASSUME TypeOK, MailMoves, NEW m \in Mails, mail[m].status # "absent"
    PROVE  mail'[m].status # "absent"
  <1>1. mail[m] \in OutboxRow
    BY DEF TypeOK
  <1> QED  BY <1>1, RowMoves DEF MailMoves

(* What a move does to one e-mail, seen through its status and attempts. *)
LEMMA StatusMoves ==
    ASSUME TypeOK, AbandonedIsSpent, MailMoves, NEW m \in Mails
    PROVE  /\ mail'[m].status = "done" => mail[m].status = "done" \/ accepted[m] > 0
           /\ mail'[m].status = "abandoned" => mail'[m].attempts >= MaxAttempts
           /\ mail[m].status = "abandoned" => mail'[m].status \in {"abandoned", "done"}
  <1>1. mail[m] \in OutboxRow
    BY DEF TypeOK
  <1>2. mail[m].status = "abandoned" => mail[m].attempts >= MaxAttempts
    BY DEF AbandonedIsSpent
  <1>3. \/ mail'[m] = mail[m]
        \/ mail[m].status = "absent" /\ mail'[m] = PendingRow
        \/ Claimable(mail[m]) /\ mail'[m] = ClaimedRow(mail[m])
        \/ accepted[m] > 0 /\ mail'[m] = DoneRow(mail[m])
        \/ mail'[m] = FailedRow(mail[m])
        \/ mail'[m] = Due(mail[m]) \/ mail'[m] = Stale(mail[m])
    BY DEF MailMoves
  <1>4. CASE mail'[m] = mail[m]
    BY <1>2, <1>4
  <1>5. CASE mail[m].status = "absent" /\ mail'[m] = PendingRow
    BY <1>1, <1>5, RowMoves
  <1>6. CASE Claimable(mail[m]) /\ mail'[m] = ClaimedRow(mail[m])
    BY <1>1, <1>6, RowMoves
  <1>7. CASE accepted[m] > 0 /\ mail'[m] = DoneRow(mail[m])
    BY <1>1, <1>7, RowMoves
  <1>8. CASE mail'[m] = FailedRow(mail[m])
    BY <1>1, <1>2, <1>8, RowMoves
  <1>9. CASE mail'[m] = Due(mail[m]) \/ mail'[m] = Stale(mail[m])
    BY <1>1, <1>2, <1>9, RowMoves
  <1> QED  BY <1>3, <1>4, <1>5, <1>6, <1>7, <1>8, <1>9

(* What a worker relies on is not taken back. *)
LEMMA StandsOn ==
    ASSUME TypeOK, TypeOK', WorkersStand, MailMoves, Grows,
           NEW w \in Workers, worker'[w] = worker[w]
    PROVE  StandsAt(worker[w])'
  <1>1. /\ worker[w].step # "next" => worker[w].item \in Mails
        /\ StandsAt(worker[w])
    BY WorkerFacts
  <1>2. worker[w].step = "queued" => mail'[worker[w].item].status # "absent"
    BY <1>1, NeverAbsent DEF StandsAt
  <1>3. worker[w].step = "sent" => accepted'[worker[w].item] > 0
    <2> SUFFICES ASSUME worker[w].step = "sent"  PROVE accepted'[worker[w].item] > 0
      OBVIOUS
    <2>0. worker[w].item \in Mails
      BY <1>1
    <2>1. /\ accepted[worker[w].item] > 0
          /\ accepted'[worker[w].item] >= accepted[worker[w].item]
      BY <1>1, <2>0 DEF StandsAt, Grows
    <2>2. accepted[worker[w].item] \in Nat /\ accepted'[worker[w].item] \in Nat
      BY <2>0 DEF TypeOK
    <2> QED  BY <2>1, <2>2
  <1> QED  BY <1>1, <1>2, <1>3 DEF StandsAt, Grows

-----------------------------------------------------------------------------
(* The invariant holds at the start: no rows, idle workers. *)
LEMMA Initially == Init => IInv
  <1> SUFFICES ASSUME Init  PROVE IInv
    OBVIOUS
  <1>1. inquiry \in [Inquiries -> OutboxRow] /\ mail \in [Mails -> OutboxRow]
    BY NewRowsOK DEF Init
  <1>2. Idle \in Pass /\ Idle.phase = "idle" /\ Idle.step = "next" /\ Idle.item = None
    BY DEF Idle, PassAt, Pass, Steps
  <1>3. /\ worker \in [Workers -> Pass]
        /\ \A w \in Workers : /\ (worker[w].item = None) = (worker[w].step = "next")
                              /\ worker[w].phase = "idle" /\ worker[w].step = "next"
    BY <1>2 DEF Init
  <1>4. TypeOK
    BY <1>1, <1>3, DeliveryAssumption DEF Init, TypeOK
  <1>5. WorkersStand
    BY <1>3 DEF WorkersStand, StandsAt
  <1>6. EnqueuedIsTold /\ SentIsAccepted /\ AbandonedIsSpent
    BY DEF Init, EnqueuedIsTold, SentIsAccepted, AbandonedIsSpent, NoRow
  <1> QED  BY <1>4, <1>5, <1>6 DEF IInv

(* Every step keeps the invariant. *)
LEMMA Inductive ==
    ASSUME IInv, [Next]_vars  PROVE IInv'
  <1>0. TypeOK /\ TypeOK' /\ MailMoves /\ InquiryMoves /\ Grows /\ PassMoves
    BY EveryStep DEF IInv, Moved
  <1>1. WorkersStand'
    <2>1. ASSUME NEW w \in Workers  PROVE StandsAt(worker[w])'
      <3>1. CASE worker'[w] = worker[w]
        BY <1>0, <3>1, StandsOn DEF IInv
      <3>2. CASE StandsAt(worker[w])'
        BY <3>2
      <3> QED  BY <1>0, <3>1, <3>2 DEF PassMoves
    <2> QED  BY <2>1 DEF WorkersStand
  <1>2. EnqueuedIsTold'
    <2>1. ASSUME NEW i \in Inquiries, inquiry'[i].status = "done"
          PROVE  i \in notice' /\ mail'[i].status # "absent"
      <3>1. i \in notice /\ mail[i].status # "absent" /\ i \in Mails
        BY <1>0, <2>1 DEF IInv, InquiryMoves, EnqueuedIsTold, Mails
      <3> QED  BY <1>0, <3>1, NeverAbsent DEF Grows
    <2> QED  BY <2>1 DEF EnqueuedIsTold
  <1>3. SentIsAccepted'
    <2>1. ASSUME NEW m \in Mails, mail'[m].status = "done"
          PROVE  accepted'[m] > 0
      <3>1. accepted[m] > 0
        BY <1>0, <2>1, StatusMoves DEF IInv, SentIsAccepted
      <3>2. accepted[m] \in Nat /\ accepted'[m] \in Nat /\ accepted'[m] >= accepted[m]
        BY <1>0 DEF TypeOK, Grows
      <3> QED  BY <3>1, <3>2
    <2> QED  BY <2>1 DEF SentIsAccepted
  <1>4. AbandonedIsSpent'
    BY <1>0, StatusMoves DEF IInv, AbandonedIsSpent
  <1> QED  BY <1>0, <1>1, <1>2, <1>3, <1>4 DEF IInv

(* The invariant holds in every reachable state. *)
LEMMA Invariance == Spec => []IInv
  <1>1. Init => IInv
    BY Initially
  <1>2. IInv /\ [Next]_vars => IInv'
    BY Inductive
  <1> QED  BY <1>1, <1>2, PTL DEF Spec

(* Every reachable state is of its type; in particular a worker holds an   *)
(* item exactly between two of its statements.                             *)
THEOREM TypeCorrect == Spec => []TypeOK
  <1>1. IInv => TypeOK
    BY DEF IInv
  <1> QED  BY <1>1, Invariance, PTL

(* MarkInquiryNotificationEnqueued never records an inquiry whose notice   *)
(* or e-mail is missing, wherever workers die or take over from each other.*)
THEOREM ToldBeforeEnqueued == Spec => []EnqueuedIsTold
  <1>1. IInv => EnqueuedIsTold
    BY DEF IInv
  <1> QED  BY <1>1, Invariance, PTL

(* MarkEmailSent never records an e-mail that no server accepted, however  *)
(* late the mark and whoever has claimed the row since.                    *)
THEOREM AcceptedBeforeSent == Spec => []SentIsAccepted
  <1>1. IInv => SentIsAccepted
    BY DEF IInv
  <1> QED  BY <1>1, Invariance, PTL

(* No claim and no late MarkEmailFailed brings an abandoned e-mail back.   *)
THEOREM AbandonedForGood == Spec => AbandonedNotRetried
  <1>1. IInv /\ [Next]_vars =>
            [\A m \in Mails : mail[m].status = "abandoned" =>
                mail'[m].status \in {"abandoned", "done"}]_vars
    <2> SUFFICES ASSUME IInv, [Next]_vars
                 PROVE  \A m \in Mails : mail[m].status = "abandoned" =>
                            mail'[m].status \in {"abandoned", "done"}
      OBVIOUS
    <2>1. TypeOK /\ AbandonedIsSpent /\ MailMoves
      BY EveryStep DEF IInv, Moved
    <2> QED  BY <2>1, StatusMoves
  <1> QED  BY <1>1, Invariance, PTL DEF Spec, AbandonedNotRetried

-----------------------------------------------------------------------------
(***************************************************************************)
(* The ledger: who still holds a row, and who may still send it.  Claims   *)
(* do not look at max_attempts; what bounds them is that a row beyond it   *)
(* can only be claimed while an earlier claim of it has not ended in a     *)
(* mark, that is, from a worker that still holds the row or that was lost. *)
(***************************************************************************)
Holds(p, phase, x) == p.phase = phase /\ x \in p.todo

Holders(at, phase, x) == {w \in Workers : Holds(at[w], phase, x)}

Holding(at, phase, x) == Cardinality(Holders(at, phase, x))

(* The workers that have claimed the e-mail m and not yet sent it. *)
Owes(p, m) == Holds(p, "mails", m) /\ p.item # m

Owing(at, m) == {w \in Workers : Owes(at[w], m)}

Open(at, m) == Cardinality(Owing(at, m))

MailLedger(m) ==
    /\ mail[m].status = "absent" => mail[m].attempts = 0
    /\ mail[m].status \in {"pending", "failed"} => mail[m].attempts < MaxAttempts
    /\ mail[m].status = "processing" =>
          mail[m].attempts < MaxAttempts + faults + Holding(worker, "mails", m)
    /\ mail[m].attempts < MaxAttempts + faults + Cardinality(Workers)
    /\ accepted[m] + Open(worker, m) <= mail[m].attempts

(* A new deadline takes an inquiry back to pending, whatever it has used   *)
(* and whoever holds it.                                                   *)
Allowed == MaxAttempts + faults + asks * Cardinality(Workers)

InquiryLedger(i) ==
    /\ inquiry[i].status \in {"absent", "pending", "failed"} => inquiry[i].attempts < Allowed
    /\ inquiry[i].status = "processing" =>
          inquiry[i].attempts < Allowed + Holding(worker, "inquiries", i)
    /\ inquiry[i].attempts < Allowed + Cardinality(Workers)

Ledger ==
    /\ \A m \in Mails : MailLedger(m)
    /\ \A i \in Inquiries : InquiryLedger(i)

-----------------------------------------------------------------------------
(* How a set of workers changes when one of them comes or goes. *)
LEMMA Counting ==
    ASSUME NEW S \in SUBSET Workers, NEW T \in SUBSET Workers, NEW w, S \ {w} = T \ {w}
    PROVE  /\ Cardinality(S) \in Nat /\ Cardinality(Workers) \in Nat
           /\ Cardinality(S) <= Cardinality(Workers)
           /\ (w \in S <=> w \in T) => Cardinality(T) = Cardinality(S)
           /\ w \notin S /\ w \in T => Cardinality(T) = Cardinality(S) + 1
           /\ w \in S /\ w \notin T => Cardinality(S) = Cardinality(T) + 1
  <1>1. IsFiniteSet(Workers) /\ IsFiniteSet(S) /\ IsFiniteSet(T)
    BY DeliveryAssumption, FS_Subset
  <1>2. /\ Cardinality(S) \in Nat /\ Cardinality(Workers) \in Nat /\ Cardinality(T) \in Nat
        /\ Cardinality(S) <= Cardinality(Workers)
    BY <1>1, FS_CardinalityType, FS_Subset
  <1>3. (w \in S <=> w \in T) => S = T
    OBVIOUS
  <1>4. w \notin S /\ w \in T => T = S \cup {w}
    OBVIOUS
  <1>5. w \in S /\ w \notin T => S = T \cup {w}
    OBVIOUS
  <1> QED  BY <1>1, <1>2, <1>3, <1>4, <1>5, FS_AddElement

(* The counts are numbers, at most that of the workers. *)
LEMMA Counts ==
    ASSUME NEW at
    PROVE  /\ Cardinality(Workers) \in Nat
           /\ \A phase, x : /\ Holding(at, phase, x) \in Nat
                            /\ Holding(at, phase, x) <= Cardinality(Workers)
           /\ \A m : Open(at, m) \in Nat
  <1>1. \A phase, x : Holders(at, phase, x) \in SUBSET Workers
    BY DEF Holders
  <1>2. \A m : Owing(at, m) \in SUBSET Workers
    BY DEF Owing
  <1>3. \A S \in SUBSET Workers : /\ Cardinality(S) \in Nat /\ Cardinality(Workers) \in Nat
                                  /\ Cardinality(S) <= Cardinality(Workers)
    BY Counting
  <1> QED  BY <1>1, <1>2, <1>3 DEF Holding, Open

(* When one worker's pass becomes p, a count changes by that worker. *)
OneMoves(w, p) ==
    /\ \A phase, x :
          /\ (Holds(p, phase, x) <=> Holds(worker[w], phase, x))
                => Holding(worker', phase, x) = Holding(worker, phase, x)
          /\ Holds(p, phase, x) /\ ~Holds(worker[w], phase, x)
                => Holding(worker', phase, x) = Holding(worker, phase, x) + 1
          /\ Holding(worker', phase, x) + 1 >= Holding(worker, phase, x)
    /\ \A m :
          /\ (Owes(p, m) => Owes(worker[w], m)) => Open(worker', m) <= Open(worker, m)
          /\ Owes(worker[w], m) /\ ~Owes(p, m) => Open(worker', m) + 1 = Open(worker, m)
          /\ Open(worker', m) <= Open(worker, m) + 1

LEMMA OneCount ==
    ASSUME TypeOK, NEW w \in Workers, NEW p \in Pass, worker' = [worker EXCEPT ![w] = p]
    PROVE  OneMoves(w, p)
  <1>0. worker'[w] = p /\ \A v \in Workers \ {w} : worker'[v] = worker[v]
    BY DEF TypeOK
  <1>1. ASSUME NEW phase, NEW x
        PROVE  /\ (Holds(p, phase, x) <=> Holds(worker[w], phase, x))
                      => Holding(worker', phase, x) = Holding(worker, phase, x)
               /\ Holds(p, phase, x) /\ ~Holds(worker[w], phase, x)
                      => Holding(worker', phase, x) = Holding(worker, phase, x) + 1
               /\ Holding(worker', phase, x) + 1 >= Holding(worker, phase, x)
    <2> DEFINE S == Holders(worker, phase, x)
               T == Holders(worker', phase, x)
    <2>1. S \in SUBSET Workers /\ T \in SUBSET Workers /\ S \ {w} = T \ {w}
      BY <1>0 DEF Holders
    <2>2. (w \in S <=> Holds(worker[w], phase, x)) /\ (w \in T <=> Holds(p, phase, x))
      BY <1>0 DEF Holders
    <2>3. Cardinality(S) = Holding(worker, phase, x) /\ Cardinality(T) = Holding(worker', phase, x)
      BY DEF Holding
    <2> HIDE DEF S, T
    <2>4. /\ Cardinality(S) \in Nat
          /\ (w \in S <=> w \in T) => Cardinality(T) = Cardinality(S)
          /\ w \notin S /\ w \in T => Cardinality(T) = Cardinality(S) + 1
          /\ w \in S /\ w \notin T => Cardinality(S) = Cardinality(T) + 1
      BY <2>1, Counting
    <2>5. Cardinality(T) \in Nat
      BY <2>1, Counting
    <2> QED  BY <2>2, <2>3, <2>4, <2>5
  <1>2. ASSUME NEW m
        PROVE  /\ (Owes(p, m) => Owes(worker[w], m)) => Open(worker', m) <= Open(worker, m)
               /\ Owes(worker[w], m) /\ ~Owes(p, m) => Open(worker', m) + 1 = Open(worker, m)
               /\ Open(worker', m) <= Open(worker, m) + 1
    <2> DEFINE S == Owing(worker, m)
               T == Owing(worker', m)
    <2>1. S \in SUBSET Workers /\ T \in SUBSET Workers /\ S \ {w} = T \ {w}
      BY <1>0 DEF Owing
    <2>2. (w \in S <=> Owes(worker[w], m)) /\ (w \in T <=> Owes(p, m))
      BY <1>0 DEF Owing
    <2>3. Cardinality(S) = Open(worker, m) /\ Cardinality(T) = Open(worker', m)
      BY DEF Open
    <2> HIDE DEF S, T
    <2>4. /\ Cardinality(S) \in Nat
          /\ (w \in S <=> w \in T) => Cardinality(T) = Cardinality(S)
          /\ w \notin S /\ w \in T => Cardinality(T) = Cardinality(S) + 1
          /\ w \in S /\ w \notin T => Cardinality(S) = Cardinality(T) + 1
      BY <2>1, Counting
    <2>5. Cardinality(T) \in Nat
      BY <2>1, Counting
    <2> QED  BY <2>2, <2>3, <2>4, <2>5
  <1> QED  BY <1>1, <1>2 DEF OneMoves

(* No worker moves. *)
LEMMA NoCount ==
    ASSUME UNCHANGED worker
    PROVE  /\ \A phase, x : Holding(worker', phase, x) = Holding(worker, phase, x)
           /\ \A m : Open(worker', m) = Open(worker, m)
  BY DEF Holding, Holders, Open, Owing

(* A worker goes on with the item x: it keeps what it holds, and no longer *)
(* owes x once it has sent it.                                             *)
LEMMA ContinuingCounts ==
    ASSUME TypeOK, WorkersStand, NEW w \in Workers, NEW x \in Mails, NEW s \in Steps,
           Continues(w, x, s), worker[w].item \in {None, x}
    PROVE  /\ \A phase, y : Holding(worker', phase, y) = Holding(worker, phase, y)
           /\ \A m \in Mails : Open(worker', m) <= Open(worker, m)
           /\ worker[w].phase = "mails" /\ x \in worker[w].todo /\ worker[w].item = None
                 => Open(worker', x) + 1 = Open(worker, x)
  <1> DEFINE p == PassAt(worker[w].phase, worker[w].todo, x, s)
  <1>1. p \in Pass /\ p.phase = worker[w].phase /\ p.todo = worker[w].todo /\ p.item = x
    BY WorkerFacts, PassFields
  <1>2. worker' = [worker EXCEPT ![w] = p]
    BY DEF Continues
  <1>3. x # None
    BY DeliveryAssumption DEF Mails
  <1> HIDE DEF p
  <1>4. \A phase, y : Holds(p, phase, y) <=> Holds(worker[w], phase, y)
    BY <1>1 DEF Holds
  <1>5. \A m \in Mails : Owes(p, m) => Owes(worker[w], m)
    BY <1>1, <1>4, DeliveryAssumption DEF Owes, Mails
  <1>6. worker[w].phase = "mails" /\ x \in worker[w].todo /\ worker[w].item = None
           => Owes(worker[w], x) /\ ~Owes(p, x)
    BY <1>1, <1>3 DEF Owes, Holds
  <1>7. OneMoves(w, p)
    BY <1>1, <1>2, OneCount
  <1> QED  BY <1>4, <1>5, <1>6, <1>7 DEF OneMoves

(* A worker is done with its item: it holds all others as before. *)
LEMMA FinishingCounts ==
    ASSUME TypeOK, WorkersStand, NEW w \in Workers, Finishes(w)
    PROVE  /\ \A phase, y : phase # worker[w].phase \/ y # worker[w].item
                               => Holding(worker', phase, y) = Holding(worker, phase, y)
           /\ \A phase, y : Holding(worker', phase, y) + 1 >= Holding(worker, phase, y)
           /\ \A m \in Mails : Open(worker', m) <= Open(worker, m)
  <1> DEFINE p == PassAt(worker[w].phase, worker[w].todo \ {worker[w].item}, None, "next")
  <1>1. /\ p \in Pass /\ p.phase = worker[w].phase /\ p.item = None
        /\ p.todo = worker[w].todo \ {worker[w].item}
    BY WorkerFacts, PassFields DEF Steps
  <1>2. worker' = [worker EXCEPT ![w] = p]
    BY DEF Finishes
  <1> HIDE DEF p
  <1>3. \A phase, y : phase # worker[w].phase \/ y # worker[w].item
                         => (Holds(p, phase, y) <=> Holds(worker[w], phase, y))
    BY <1>1 DEF Holds
  <1>4. \A m \in Mails : Owes(p, m) => Owes(worker[w], m)
    BY <1>1 DEF Owes, Holds
  <1>5. OneMoves(w, p)
    BY <1>1, <1>2, OneCount
  <1> QED  BY <1>3, <1>4, <1>5 DEF OneMoves

(* A worker ends its pass, or dies in it. *)
LEMMA EndingCounts ==
    ASSUME TypeOK, NEW w \in Workers, worker' = [worker EXCEPT ![w] = Idle]
    PROVE  /\ worker[w].todo = {} => \A y : /\ Holding(worker', "mails", y) = Holding(worker, "mails", y)
                                            /\ Holding(worker', "inquiries", y) = Holding(worker, "inquiries", y)
           /\ \A phase, y : Holding(worker', phase, y) + 1 >= Holding(worker, phase, y)
           /\ \A m \in Mails : Open(worker', m) <= Open(worker, m)
  <1>1. Idle \in Pass /\ Idle.phase = "idle" /\ Idle.todo = {}
    BY PassFields DEF Idle, Steps
  <1>2. \A y : /\ ~Holds(Idle, "mails", y) /\ ~Holds(Idle, "inquiries", y)
               /\ worker[w].todo = {} => /\ ~Holds(worker[w], "mails", y)
                                         /\ ~Holds(worker[w], "inquiries", y)
    BY <1>1 DEF Holds
  <1>3. \A m \in Mails : ~Owes(Idle, m)
    BY <1>2 DEF Owes
  <1>4. OneMoves(w, Idle)
    BY <1>1, OneCount
  <1> QED  BY <1>2, <1>3, <1>4 DEF OneMoves

(* A worker claims the rows S: it holds each of them once more. *)
LEMMA ClaimingCounts ==
    ASSUME TypeOK, NEW w \in Workers, NEW phase \in {"inquiries", "mails"},
           NEW S \in SUBSET Mails, Claims(w, phase, S),
           phase = "inquiries" => worker[w].phase = "idle",
           phase = "mails" => worker[w].phase = "inquiries" /\ worker[w].todo = {}
    PROVE  /\ \A y \in S : Holding(worker', phase, y) = Holding(worker, phase, y) + 1
           /\ \A other \in {"inquiries", "mails"} : \A y :
                 other # phase \/ y \notin S => Holding(worker', other, y) = Holding(worker, other, y)
           /\ \A m : phase # "mails" \/ m \notin S => Open(worker', m) <= Open(worker, m)
           /\ \A m : Open(worker', m) <= Open(worker, m) + 1
  <1> DEFINE p == PassAt(phase, S, None, "next")
  <1>1. p \in Pass /\ p.phase = phase /\ p.todo = S
    BY PassFields DEF Steps
  <1>2. worker' = [worker EXCEPT ![w] = p]
    BY DEF Claims
  <1> HIDE DEF p
  <1>3. \A other \in {"inquiries", "mails"} : \A y :
           /\ ~Holds(worker[w], other, y)
           /\ Holds(p, other, y) <=> other = phase /\ y \in S
    BY <1>1 DEF Holds
  <1>4. \A m : phase # "mails" \/ m \notin S => ~Owes(p, m)
    BY <1>3 DEF Owes
  <1>5. OneMoves(w, p)
    BY <1>1, <1>2, OneCount
  <1>6. \A y \in S : Holding(worker', phase, y) = Holding(worker, phase, y) + 1
    BY <1>3, <1>5 DEF OneMoves
  <1>7. \A other \in {"inquiries", "mails"} : \A y :
           other # phase \/ y \notin S => Holding(worker', other, y) = Holding(worker, other, y)
    BY <1>3, <1>5 DEF OneMoves
  <1> QED  BY <1>4, <1>5, <1>6, <1>7 DEF OneMoves

-----------------------------------------------------------------------------
(* What a step may do to the row of an e-mail together with its counts:    *)
(* leave it, queue it, claim it, or mark it.                               *)
Kept(new, old) == new.status = old.status /\ new.attempts = old.attempts

Marked(new, old) ==
    /\ new.attempts = old.attempts
    /\ \/ new.status \in {"done", "abandoned"}
       \/ new.status = "failed" /\ new.attempts < MaxAttempts

Queued(new, old) == old.status = "absent" /\ new = PendingRow

ClaimedAs(new, old) == Claimable(old) /\ new = ClaimedRow(old)

(* What is sent or may still be sent is no more than before. *)
NoneSent(m) == accepted'[m] + Open(worker', m) <= accepted[m] + Open(worker, m)

MailEntry(m) ==
    /\ faults' >= faults
    /\ \/ /\ Kept(mail'[m], mail[m]) /\ NoneSent(m)
          /\ faults' + Holding(worker', "mails", m) >= faults + Holding(worker, "mails", m)
       \/ Queued(mail'[m], mail[m]) /\ NoneSent(m)
       \/ Marked(mail'[m], mail[m]) /\ NoneSent(m)
       \/ /\ ClaimedAs(mail'[m], mail[m])
          /\ accepted'[m] + Open(worker', m) <= accepted[m] + Open(worker, m) + 1
          /\ Holding(worker', "mails", m) = Holding(worker, "mails", m) + 1

InquiryEntry(i) ==
    /\ faults' >= faults
    /\ \/ /\ asks' = asks
          /\ \/ /\ Kept(inquiry'[i], inquiry[i])
                /\ faults' + Holding(worker', "inquiries", i)
                      >= faults + Holding(worker, "inquiries", i)
             \/ Queued(inquiry'[i], inquiry[i])
             \/ Marked(inquiry'[i], inquiry[i])
             \/ /\ ClaimedAs(inquiry'[i], inquiry[i])
                /\ Holding(worker', "inquiries", i) = Holding(worker, "inquiries", i) + 1
       \/ asks' = asks + 1 /\ inquiry'[i].attempts = inquiry[i].attempts

(* Such a step keeps the ledger of an e-mail, *)
LEMMA MailEntryKeeps ==
    ASSUME TypeOK, TypeOK', NEW m \in Mails, MailLedger(m), MailEntry(m)
    PROVE  MailLedger(m)'
  <1> DEFINE h == Holding(worker, "mails", m)
             k == Holding(worker', "mails", m)
             o == Open(worker, m)
             q == Open(worker', m)
             K == Cardinality(Workers)
             r == mail[m]
             n == mail'[m]
  <1>1. /\ h \in Nat /\ k \in Nat /\ o \in Nat /\ q \in Nat /\ K \in Nat
        /\ h <= K /\ k <= K /\ MaxAttempts \in Nat \ {0}
    BY Counts, OutboxAssumption
  <1>2. /\ r \in OutboxRow /\ n \in OutboxRow /\ r.attempts \in Nat /\ n.attempts \in Nat
        /\ r.status \in OutboxStatus /\ n.status \in OutboxStatus
        /\ accepted[m] \in Nat /\ accepted'[m] \in Nat /\ faults \in Nat /\ faults' \in Nat
    BY DeliveryAssumption DEF TypeOK, OutboxRow
  <1>3. /\ r.status = "absent" => r.attempts = 0
        /\ r.status \in {"pending", "failed"} => r.attempts < MaxAttempts
        /\ r.status = "processing" => r.attempts < MaxAttempts + faults + h
        /\ r.attempts < MaxAttempts + faults + K
        /\ accepted[m] + o <= r.attempts
    BY DEF MailLedger
  <1>4. faults' >= faults
    BY DEF MailEntry
  <1>5. SUFFICES /\ n.status = "absent" => n.attempts = 0
                 /\ n.status \in {"pending", "failed"} => n.attempts < MaxAttempts
                 /\ n.status = "processing" => n.attempts < MaxAttempts + faults' + k
                 /\ n.attempts < MaxAttempts + faults' + K
                 /\ accepted'[m] + q <= n.attempts
    BY DEF MailLedger
  <1> HIDE DEF h, k, o, q, K, r, n
  <1>6. CASE Kept(n, r) /\ accepted'[m] + q <= accepted[m] + o /\ faults' + k >= faults + h
    BY <1>1, <1>2, <1>3, <1>4, <1>6 DEF Kept
  <1>7. CASE Queued(n, r) /\ accepted'[m] + q <= accepted[m] + o
    <2>1. n.status = "pending" /\ n.attempts = 0 /\ r.attempts = 0
      BY <1>3, <1>7 DEF Queued, PendingRow, NoRow
    <2>2. accepted'[m] + q <= 0 /\ 0 < MaxAttempts
      BY <1>1, <1>2, <1>3, <1>7, <2>1
    <2>3. 0 < MaxAttempts + faults' + K
      <3>1. MaxAttempts \in Nat /\ MaxAttempts > 0 /\ faults' \in Nat /\ K \in Nat
        BY <1>1, <1>2
      <3>2. \A x, y, z \in Nat : x > 0 => 0 < x + y + z
        OBVIOUS
      <3> QED  BY <3>1, <3>2
    <2> QED  BY <2>1, <2>2, <2>3
  <1>8. CASE Marked(n, r) /\ accepted'[m] + q <= accepted[m] + o
    BY <1>1, <1>2, <1>3, <1>4, <1>8 DEF Marked
  <1>9. CASE ClaimedAs(n, r) /\ accepted'[m] + q <= accepted[m] + o + 1 /\ k = h + 1
    <2>1. n.status = "processing" /\ n.attempts = r.attempts + 1
      BY <1>9 DEF ClaimedAs, ClaimedRow
    <2>2. r.status \in {"pending", "failed", "processing"}
      BY <1>9 DEF ClaimedAs, Claimable
    <2>3. r.attempts < MaxAttempts + faults + h
      BY <1>1, <1>2, <1>3, <2>2
    <2> QED  BY <1>1, <1>2, <1>3, <1>4, <1>9, <2>1, <2>3
  <1> QED  BY <1>6, <1>7, <1>8, <1>9 DEF MailEntry, NoneSent, h, k, o, q, r, n

(* and that of an inquiry. *)
LEMMA InquiryEntryKeeps ==
    ASSUME TypeOK, TypeOK', NEW i \in Inquiries, InquiryLedger(i), InquiryEntry(i)
    PROVE  InquiryLedger(i)'
  <1> DEFINE h == Holding(worker, "inquiries", i)
             k == Holding(worker', "inquiries", i)
             K == Cardinality(Workers)
             r == inquiry[i]
             n == inquiry'[i]
             old == Allowed
             new == Allowed'
  <1>1. h \in Nat /\ k \in Nat /\ K \in Nat /\ h <= K /\ k <= K
    BY Counts
  <1>2. /\ r \in OutboxRow /\ n \in OutboxRow /\ r.attempts \in Nat /\ n.attempts \in Nat
        /\ r.status \in OutboxStatus /\ n.status \in OutboxStatus
        /\ faults \in Nat /\ faults' \in Nat /\ asks \in Nat /\ asks' \in Nat
    BY DeliveryAssumption DEF TypeOK, OutboxRow
  <1>3. /\ r.status \in {"absent", "pending", "failed"} => r.attempts < old
        /\ r.status = "processing" => r.attempts < old + h
        /\ r.attempts < old + K
    BY DEF InquiryLedger
  <1>4. faults' >= faults
    BY DEF InquiryEntry
  <1>5. /\ old \in Nat /\ new \in Nat /\ MaxAttempts <= new /\ new # 0
        /\ asks' = asks => new = old - faults + faults'
        /\ asks' = asks + 1 => new = old - faults + faults' + K
    <2>1. asks * K \in Nat /\ asks' * K \in Nat /\ (asks + 1) * K = asks * K + K
      BY <1>1, <1>2
    <2>2. old = MaxAttempts + faults + asks * K /\ new = MaxAttempts + faults' + asks' * K
      BY DEF Allowed
    <2> HIDE DEF K, old, new
    <2> DEFINE a == asks * K
               b == asks' * K
    <2>3. a \in Nat /\ b \in Nat /\ (asks' = asks => b = a) /\ (asks' = asks + 1 => b = a + K)
      BY <2>1
    <2>4. old = MaxAttempts + faults + a /\ new = MaxAttempts + faults' + b
      BY <2>2
    <2> HIDE DEF a, b
    <2>5. MaxAttempts \in Nat /\ MaxAttempts # 0
      BY OutboxAssumption
    <2>6. old \in Nat /\ new \in Nat /\ MaxAttempts <= new /\ new # 0
      <3>1. \A x, y, z \in Nat : x # 0 => x + y + z \in Nat /\ x <= x + y + z /\ x + y + z # 0
        OBVIOUS
      <3> QED  BY <1>2, <2>3, <2>4, <2>5, <3>1
    <2>7. asks' = asks => new = old - faults + faults'
      BY <1>2, <2>3, <2>4, <2>5
    <2>8. asks' = asks + 1 => new = old - faults + faults' + K
      BY <1>1, <1>2, <2>3, <2>4, <2>5
    <2> QED  BY <2>6, <2>7, <2>8
  <1>6. SUFFICES /\ n.status \in {"absent", "pending", "failed"} => n.attempts < new
                 /\ n.status = "processing" => n.attempts < new + k
                 /\ n.attempts < new + K
    BY DEF InquiryLedger
  <1> HIDE DEF h, k, K, r, n, old, new
  <1>7. CASE asks' = asks + 1 /\ n.attempts = r.attempts
    BY <1>1, <1>2, <1>3, <1>4, <1>5, <1>7
  <1>8. CASE asks' = asks
    <2>1. CASE Kept(n, r) /\ faults' + k >= faults + h
      <3>1. old <= new /\ old + h <= new + k /\ old + K <= new + K
        <4>1. new = old - faults + faults' /\ old \in Nat /\ new \in Nat
          BY <1>5, <1>8
        <4>2. old <= new
          <5>1. \A x, u, v \in Nat : v >= u => x <= x - u + v
            OBVIOUS
          <5>2. faults \in Nat /\ faults' \in Nat
            BY <1>2
          <5> QED  BY <1>4, <4>1, <5>1, <5>2
        <4>3. old + h <= new + k
          <5>1. \A x, u, v, c, d \in Nat : v + d >= u + c => x + c <= x - u + v + d
            OBVIOUS
          <5>2. faults \in Nat /\ faults' \in Nat
            BY <1>2
          <5> QED  BY <1>1, <2>1, <4>1, <5>1, <5>2
        <4>4. old + K <= new + K
          BY <1>1, <4>1, <4>2
        <4> QED  BY <4>2, <4>3, <4>4
      <3>2. n.status = r.status /\ n.attempts = r.attempts
        BY <2>1 DEF Kept
      <3>3. r.status \in {"absent", "pending", "failed"} => r.attempts < new
        BY <1>2, <1>3, <1>5, <3>1
      <3>4. r.status = "processing" => r.attempts < new + k
        BY <1>1, <1>2, <1>3, <1>5, <3>1
      <3>5. r.attempts < new + K
        BY <1>1, <1>2, <1>3, <1>5, <3>1
      <3> QED  BY <3>2, <3>3, <3>4, <3>5
    <2>2. CASE Queued(n, r)
      <3>1. n.attempts = 0
        BY <2>2 DEF Queued, PendingRow, NoRow
      <3> QED  BY <1>1, <1>5, <3>1
    <2>3. CASE Marked(n, r)
      <3>1. n.attempts = r.attempts /\ n.status \in {"done", "abandoned", "failed"}
        BY <2>3 DEF Marked
      <3>2. n.status = "failed" => n.attempts < MaxAttempts
        BY <2>3 DEF Marked
      <3>3. n.status = "failed" => n.attempts < new
        BY <1>2, <1>5, <3>2, OutboxAssumption
      <3>4. n.attempts < new + K
        BY <1>1, <1>2, <1>3, <1>4, <1>5, <1>8, <3>1
      <3> QED  BY <3>1, <3>3, <3>4
    <2>4. CASE ClaimedAs(n, r) /\ k = h + 1
      <3>1. n.status = "processing" /\ n.attempts = r.attempts + 1
        BY <2>4 DEF ClaimedAs, ClaimedRow
      <3>2. r.status \in {"pending", "failed", "processing"}
        BY <2>4 DEF ClaimedAs, Claimable
      <3>3. r.attempts < old + h
        BY <1>1, <1>2, <1>3, <1>5, <3>2
      <3> QED  BY <1>1, <1>2, <1>3, <1>4, <1>5, <1>8, <2>4, <3>1, <3>3
    <2>5. \/ Kept(n, r) /\ faults' + k >= faults + h
          \/ Queued(n, r)
          \/ Marked(n, r)
          \/ ClaimedAs(n, r) /\ k = h + 1
      BY <1>2, <1>8 DEF InquiryEntry, h, k, r, n
    <2> QED  BY <2>1, <2>2, <2>3, <2>4, <2>5
  <1> QED  BY <1>7, <1>8 DEF InquiryEntry, r, n

-----------------------------------------------------------------------------
(* Every step is an entry for every e-mail and every inquiry. *)
Entries ==
    /\ \A m \in Mails : MailEntry(m)
    /\ \A i \in Inquiries : InquiryEntry(i)

(* E-mails, or inquiries, whose rows a step leaves alone while nobody      *)
(* comes or goes, or a lost worker is counted among the faults.            *)
LEMMA MailsKept ==
    ASSUME TypeOK, TypeOK', UNCHANGED <<mail, accepted>>,
           \A m \in Mails : Open(worker', m) <= Open(worker, m),
           \/ /\ faults' = faults
              /\ \A m \in Mails : Holding(worker', "mails", m) = Holding(worker, "mails", m)
           \/ /\ faults' = faults + 1
              /\ \A m \in Mails : Holding(worker', "mails", m) + 1 >= Holding(worker, "mails", m)
    PROVE  \A m \in Mails : MailEntry(m)
  <1> SUFFICES ASSUME NEW m \in Mails  PROVE MailEntry(m)
    OBVIOUS
  <1> DEFINE h == Holding(worker, "mails", m)
             k == Holding(worker', "mails", m)
             o == Open(worker, m)
             q == Open(worker', m)
  <1>1. h \in Nat /\ k \in Nat /\ o \in Nat /\ q \in Nat /\ q <= o
    BY Counts
  <1>2. faults \in Nat /\ faults' \in Nat /\ accepted[m] \in Nat
    BY DeliveryAssumption DEF TypeOK
  <1>3. \/ faults' = faults /\ k = h
        \/ faults' = faults + 1 /\ k + 1 >= h
    OBVIOUS
  <1> HIDE DEF h, k, o, q
  <1>4. faults' >= faults /\ faults' + k >= faults + h
    <2>1. CASE faults' = faults /\ k = h
      BY <1>1, <1>2, <2>1
    <2>2. CASE faults' = faults + 1 /\ k + 1 >= h
      <3>1. \A u, c, d \in Nat : d + 1 >= c => u + 1 >= u /\ u + 1 + d >= u + c
        OBVIOUS
      <3> QED  BY <1>1, <1>2, <2>2, <3>1
    <2> QED  BY <1>3, <2>1, <2>2
  <1>5. accepted'[m] + q <= accepted[m] + o
    BY <1>1, <1>2
  <1>6. Kept(mail'[m], mail[m])
    BY DEF Kept
  <1> QED  BY <1>4, <1>5, <1>6 DEF MailEntry, NoneSent, h, k, o, q

LEMMA InquiriesKept ==
    ASSUME TypeOK, TypeOK', UNCHANGED <<inquiry, asks>>,
           \/ /\ faults' = faults
              /\ \A i \in Inquiries :
                    Holding(worker', "inquiries", i) = Holding(worker, "inquiries", i)
           \/ /\ faults' = faults + 1
              /\ \A i \in Inquiries :
                    Holding(worker', "inquiries", i) + 1 >= Holding(worker, "inquiries", i)
    PROVE  \A i \in Inquiries : InquiryEntry(i)
  <1> SUFFICES ASSUME NEW i \in Inquiries  PROVE InquiryEntry(i)
    OBVIOUS
  <1> DEFINE h == Holding(worker, "inquiries", i)
             k == Holding(worker', "inquiries", i)
  <1>1. h \in Nat /\ k \in Nat
    BY Counts
  <1>2. faults \in Nat /\ faults' \in Nat
    BY DeliveryAssumption DEF TypeOK
  <1>3. \/ faults' = faults /\ k = h
        \/ faults' = faults + 1 /\ k + 1 >= h
    OBVIOUS
  <1> HIDE DEF h, k
  <1>4. faults' >= faults /\ faults' + k >= faults + h
    <2>1. CASE faults' = faults /\ k = h
      BY <1>1, <1>2, <2>1
    <2>2. CASE faults' = faults + 1 /\ k + 1 >= h
      <3>1. \A u, c, d \in Nat : d + 1 >= c => u + 1 >= u /\ u + 1 + d >= u + c
        OBVIOUS
      <3> QED  BY <1>1, <1>2, <2>2, <3>1
    <2> QED  BY <1>3, <2>1, <2>2
  <1>5. Kept(inquiry'[i], inquiry[i])
    BY DEF Kept
  <1> QED  BY <1>4, <1>5 DEF InquiryEntry, h, k

(* What holds of the e-mails and inquiries that one statement does not     *)
(* touch, and of the one it does.                                          *)
LEMMA OneMailEntry ==
    ASSUME TypeOK, TypeOK', NEW m \in Mails, NEW r,
           mail' = [mail EXCEPT ![m] = r], UNCHANGED <<accepted, faults>>,
           \A x \in Mails : Open(worker', x) <= Open(worker, x),
           \A x \in Mails \ {m} : Holding(worker', "mails", x) = Holding(worker, "mails", x),
           \/ Queued(r, mail[m]) \/ Marked(r, mail[m])
           \/ Kept(r, mail[m]) /\ Holding(worker', "mails", m) = Holding(worker, "mails", m)
    PROVE  \A x \in Mails : MailEntry(x)
  <1> SUFFICES ASSUME NEW x \in Mails  PROVE MailEntry(x)
    OBVIOUS
  <1>1. /\ Open(worker, x) \in Nat /\ Open(worker', x) \in Nat
        /\ Holding(worker, "mails", x) \in Nat /\ Holding(worker', "mails", x) \in Nat
    BY Counts
  <1>2. faults \in Nat /\ accepted[x] \in Nat
    BY DeliveryAssumption DEF TypeOK
  <1>3. NoneSent(x) /\ faults' >= faults
    BY <1>1, <1>2 DEF NoneSent
  <1>4. CASE x = m
    <2>1. mail'[x] = r
      BY <1>4 DEF TypeOK
    <2>2. Holding(worker', "mails", m) = Holding(worker, "mails", m)
             => faults' + Holding(worker', "mails", x) >= faults + Holding(worker, "mails", x)
      BY <1>1, <1>2, <1>4
    <2> QED  BY <1>3, <1>4, <2>1, <2>2 DEF MailEntry
  <1>5. CASE x # m
    <2>1. mail'[x] = mail[x]
      BY <1>5 DEF TypeOK
    <2>2. faults' + Holding(worker', "mails", x) >= faults + Holding(worker, "mails", x)
      BY <1>1, <1>2, <1>5
    <2> QED  BY <1>3, <2>1, <2>2 DEF MailEntry, Kept
  <1> QED  BY <1>4, <1>5

LEMMA OneInquiryEntry ==
    ASSUME TypeOK, TypeOK', NEW i \in Inquiries, NEW r,
           inquiry' = [inquiry EXCEPT ![i] = r], UNCHANGED <<asks, faults>>,
           \A x \in Inquiries \ {i} :
              Holding(worker', "inquiries", x) = Holding(worker, "inquiries", x),
           \/ Queued(r, inquiry[i]) \/ Marked(r, inquiry[i])
           \/ /\ Kept(r, inquiry[i])
              /\ Holding(worker', "inquiries", i) = Holding(worker, "inquiries", i)
    PROVE  \A x \in Inquiries : InquiryEntry(x)
  <1> SUFFICES ASSUME NEW x \in Inquiries  PROVE InquiryEntry(x)
    OBVIOUS
  <1>1. Holding(worker, "inquiries", x) \in Nat /\ Holding(worker', "inquiries", x) \in Nat
    BY Counts
  <1>2. faults \in Nat /\ faults' >= faults
    BY DeliveryAssumption DEF TypeOK
  <1>3. CASE x = i
    <2>1. inquiry'[x] = r
      BY <1>3 DEF TypeOK
    <2>2. Holding(worker', "inquiries", i) = Holding(worker, "inquiries", i)
             => faults' + Holding(worker', "inquiries", x)
                   >= faults + Holding(worker, "inquiries", x)
      BY <1>1, <1>2, <1>3
    <2> QED  BY <1>2, <1>3, <2>1, <2>2 DEF InquiryEntry
  <1>4. CASE x # i
    <2>1. inquiry'[x] = inquiry[x]
      BY <1>4 DEF TypeOK
    <2>2. faults' + Holding(worker', "inquiries", x) >= faults + Holding(worker, "inquiries", x)
      BY <1>1, <1>2, <1>4
    <2> QED  BY <1>2, <2>1, <2>2 DEF InquiryEntry, Kept
  <1> QED  BY <1>3, <1>4

(* The rows a statement writes are entries. *)
LEMMA RowEntries ==
    ASSUME NEW r \in OutboxRow
    PROVE  /\ Kept(r, r) /\ Kept(Due(r), r) /\ Kept(Stale(r), r)
           /\ Marked(DoneRow(r), r) /\ Marked(FailedRow(r), r)
           /\ AskedAgain(r).attempts = r.attempts
  <1>1. r.attempts \in Nat /\ MaxAttempts \in Nat
    BY OutboxAssumption DEF OutboxRow
  <1>2. Kept(r, r) /\ Kept(Due(r), r) /\ Kept(Stale(r), r)
    BY RowMoves DEF Kept
  <1>3. Marked(DoneRow(r), r)
    BY RowMoves DEF Marked
  <1>4. Marked(FailedRow(r), r)
    <2>1. /\ FailedRow(r).attempts = r.attempts
          /\ FailedRow(r).status \in {"abandoned", "failed"}
          /\ FailedRow(r).status = "abandoned" <=> r.attempts >= MaxAttempts
      BY RowMoves
    <2>2. CASE r.attempts >= MaxAttempts
      BY <2>1, <2>2 DEF Marked
    <2>3. CASE r.attempts < MaxAttempts
      BY <1>1, <2>1, <2>3 DEF Marked
    <2> QED  BY <1>1, <2>2, <2>3
  <1>5. AskedAgain(r).attempts = r.attempts
    BY DEF AskedAgain, OutboxRow
  <1> QED  BY <1>2, <1>3, <1>4, <1>5

(* The API, and time: no worker moves. *)
LEMMA ApiEntries ==
    ASSUME IInv, TypeOK',
           \/ \E i \in Inquiries :
                 CreateInquiry(i) \/ SetDeadline(i) \/ Answer(i) \/ InquiryWaits(i)
           \/ \E m \in Direct : EnqueueDirect(m)
           \/ \E m \in Mails : MailWaits(m)
    PROVE  Entries
  <1>0. /\ TypeOK /\ UNCHANGED <<worker, accepted, faults>>
        /\ Inquiries \subseteq Mails /\ Direct \subseteq Mails
    BY DEF IInv, CreateInquiry, SetDeadline, Answer, InquiryWaits, EnqueueDirect, MailWaits,
           bounds, Mails
  <1>1. /\ \A phase, x : Holding(worker', phase, x) = Holding(worker, phase, x)
        /\ \A m : Open(worker', m) = Open(worker, m) /\ Open(worker, m) \in Nat
    BY <1>0, NoCount, Counts
  <1>2. ASSUME UNCHANGED mail  PROVE \A m \in Mails : MailEntry(m)
    BY <1>0, <1>1, <1>2, MailsKept
  <1>3. ASSUME UNCHANGED <<inquiry, asks>>  PROVE \A i \in Inquiries : InquiryEntry(i)
    BY <1>0, <1>1, <1>3, InquiriesKept
  <1>4. ASSUME NEW i \in Inquiries, CreateInquiry(i)  PROVE Entries
    <2>1. /\ inquiry' = [inquiry EXCEPT ![i] = PendingRow] /\ UNCHANGED <<mail, asks>>
          /\ Queued(PendingRow, inquiry[i])
      BY <1>4 DEF CreateInquiry, Queued, bounds
    <2>2. \A x \in Inquiries : InquiryEntry(x)
      BY <1>0, <1>1, <2>1, OneInquiryEntry
    <2> QED  BY <1>2, <2>1, <2>2 DEF Entries
  <1>5. ASSUME NEW i \in Inquiries, SetDeadline(i)  PROVE Entries
    <2>1. /\ inquiry' = [inquiry EXCEPT ![i] = AskedAgain(inquiry[i])]
          /\ UNCHANGED mail /\ asks' = asks + 1
          /\ inquiry \in [Inquiries -> OutboxRow] /\ faults \in Nat
      BY <1>0, <1>5, DeliveryAssumption DEF SetDeadline, TypeOK
    <2>2. ASSUME NEW x \in Inquiries  PROVE InquiryEntry(x)
      <3>1. inquiry'[x].attempts = inquiry[x].attempts
        BY <2>1, RowEntries
      <3> QED  BY <1>0, <2>1, <3>1 DEF InquiryEntry
    <2> QED  BY <1>2, <2>1, <2>2 DEF Entries
  <1>6. ASSUME NEW i \in Inquiries, Answer(i)  PROVE Entries
    BY <1>2, <1>3, <1>6 DEF Answer, bounds, Entries
  <1>7. ASSUME NEW i \in Inquiries, InquiryWaits(i)  PROVE Entries
    <2>1. inquiry[i] \in OutboxRow /\ UNCHANGED <<mail, asks>>
      BY <1>0, <1>7 DEF TypeOK, InquiryWaits, bounds
    <2>2. PICK r \in {Due(inquiry[i]), Stale(inquiry[i])} : inquiry' = [inquiry EXCEPT ![i] = r]
      BY <1>7 DEF InquiryWaits
    <2>3. Kept(r, inquiry[i])
      BY <2>1, <2>2, RowEntries
    <2>4. \A x \in Inquiries : InquiryEntry(x)
      BY <1>0, <1>1, <2>1, <2>2, <2>3, OneInquiryEntry
    <2> QED  BY <1>2, <2>1, <2>4 DEF Entries
  <1>8. ASSUME NEW m \in Direct, EnqueueDirect(m)  PROVE Entries
    <2>1. /\ mail' = [mail EXCEPT ![m] = PendingRow] /\ UNCHANGED <<inquiry, asks>>
          /\ Queued(PendingRow, mail[m]) /\ m \in Mails
      BY <1>0, <1>8 DEF EnqueueDirect, Queued, bounds
    <2>2. \A x \in Mails : Open(worker', x) <= Open(worker, x)
      BY <1>1
    <2>3. \A x \in Mails : MailEntry(x)
      BY <1>0, <1>1, <2>1, <2>2, OneMailEntry
    <2> QED  BY <1>3, <2>1, <2>3 DEF Entries
  <1>9. ASSUME NEW m \in Mails, MailWaits(m)  PROVE Entries
    <2>1. mail[m] \in OutboxRow /\ UNCHANGED <<inquiry, asks>>
      BY <1>0, <1>9 DEF TypeOK, MailWaits, bounds
    <2>2. PICK r \in {Due(mail[m]), Stale(mail[m])} : mail' = [mail EXCEPT ![m] = r]
      BY <1>9 DEF MailWaits
    <2>3. Kept(r, mail[m])
      BY <2>1, <2>2, RowEntries
    <2>4. \A x \in Mails : Open(worker', x) <= Open(worker, x)
      BY <1>1
    <2>5. \A x \in Mails : MailEntry(x)
      BY <1>0, <1>1, <2>2, <2>3, <2>4, OneMailEntry
    <2> QED  BY <1>3, <2>1, <2>5 DEF Entries
  <1> QED  BY <1>4, <1>5, <1>6, <1>7, <1>8, <1>9

(* A worker works on a notice or an e-mail it holds: until the mark, only  *)
(* an acceptance is entered, by who owes it.                               *)
LEMMA ContinuingEntries ==
    ASSUME IInv, TypeOK', NEW w \in Workers,
           \/ \E i \in Inquiries : CreateInApp(w, i)
           \/ EnqueueEmail(w)
           \/ NotifyFails(w)
           \/ \E m \in Mails : Send(w, m) \/ SendFails(w, m)
           \/ MarkFails(w) /\ ~Finishes(w)
    PROVE  Entries
  <1>0. /\ TypeOK /\ WorkersStand /\ Inquiries \subseteq Mails
        /\ \A x : worker[w].step = "next" => worker[w].item = None
        /\ worker[w].step # "next" => worker[w].item \in Mails
        /\ faults \in Nat /\ \A m \in Mails : accepted[m] \in Nat
    BY WorkerFacts, DeliveryAssumption DEF IInv, TypeOK, Mails
  <1>1. ASSUME NEW x \in Mails, NEW s \in Steps, Continues(w, x, s), worker[w].item \in {None, x},
               UNCHANGED <<inquiry, mail, accepted, asks>>, faults' = faults \/ faults' = faults + 1
        PROVE  Entries
    <2>1. /\ \A phase, y : Holding(worker', phase, y) = Holding(worker, phase, y)
          /\ \A m \in Mails : Open(worker', m) <= Open(worker, m)
      BY <1>0, <1>1, ContinuingCounts
    <2>2. \A phase, y : Holding(worker', phase, y) + 1 >= Holding(worker, phase, y)
      BY <2>1, Counts
    <2>3. \A m \in Mails : MailEntry(m)
      BY <1>0, <1>1, <2>1, <2>2, MailsKept
    <2>4. \A i \in Inquiries : InquiryEntry(i)
      BY <1>0, <1>1, <2>1, <2>2, InquiriesKept
    <2> QED  BY <2>3, <2>4 DEF Entries
  <1>2. ASSUME NEW i \in Inquiries, CreateInApp(w, i)  PROVE Entries
    BY <1>0, <1>1, <1>2 DEF CreateInApp, MayTake, At, bounds, Steps
  <1>3. CASE NotifyFails(w)
    <2>1. PICK x \in Mails : Continues(w, x, "failing") /\ worker[w].item \in {None, x}
      <3>1. CASE At(w, "inquiries", "noticed") /\ Continues(w, worker[w].item, "failing")
        BY <1>0, <3>1 DEF At
      <3>2. ASSUME NEW i \in worker[w].todo, MayTake(w, "inquiries", i), Continues(w, i, "failing")
            PROVE  \E x \in Mails : Continues(w, x, "failing") /\ worker[w].item \in {None, x}
        <4>1. i \in Mails
          BY <1>0, WorkerFacts
        <4> QED  BY <1>0, <3>2, <4>1 DEF MayTake, At
      <3> QED  BY <1>3, <3>1, <3>2 DEF NotifyFails
    <2> QED  BY <1>1, <1>3, <2>1 DEF NotifyFails, rows, bounds, Steps
  <1>4. CASE MarkFails(w) /\ ~Finishes(w)
    <2>1. Continues(w, worker[w].item, "failing") /\ worker[w].step = "sent"
      BY <1>4 DEF MarkFails, At
    <2> QED  BY <1>0, <1>1, <1>4, <2>1 DEF MarkFails, rows, Steps
  <1>5. CASE EnqueueEmail(w)
    <2> DEFINE i == worker[w].item
               r == IF mail[i].status = "absent" THEN PendingRow ELSE mail[i]
    <2>1. i \in Mails /\ Continues(w, i, "queued")
      BY <1>0, <1>5 DEF EnqueueEmail, At
    <2>2. /\ mail' = [mail EXCEPT ![i] = r] /\ UNCHANGED <<inquiry, accepted, asks, faults>>
          /\ Queued(r, mail[i]) \/ Kept(r, mail[i])
      BY <1>5 DEF EnqueueEmail, bounds, Queued, Kept
    <2>3. /\ \A phase, y : Holding(worker', phase, y) = Holding(worker, phase, y)
          /\ \A m \in Mails : Open(worker', m) <= Open(worker, m)
      BY <1>0, <2>1, ContinuingCounts DEF Steps
    <2> HIDE DEF i, r
    <2>4. \A m \in Mails : MailEntry(m)
      BY <1>0, <2>1, <2>2, <2>3, OneMailEntry
    <2>5. \A j \in Inquiries : InquiryEntry(j)
      BY <1>0, <2>2, <2>3, InquiriesKept
    <2> QED  BY <2>4, <2>5 DEF Entries
  <1>6. ASSUME NEW m \in Mails, Send(w, m) \/ SendFails(w, m)  PROVE Entries
    <2>1. /\ worker[w].phase = "mails" /\ worker[w].item = None /\ m \in worker[w].todo
          /\ UNCHANGED <<inquiry, mail, asks, faults>>
          /\ accepted' = accepted \/ accepted' = [accepted EXCEPT ![m] = @ + 1]
      BY <1>0, <1>6 DEF Send, SendFails, MayTake, At, bounds
    <2>2. PICK s \in Steps : Continues(w, m, s)
      BY <1>6 DEF Send, SendFails, Steps
    <2>3. /\ \A phase, y : Holding(worker', phase, y) = Holding(worker, phase, y)
          /\ \A x \in Mails : Open(worker', x) <= Open(worker, x)
          /\ Open(worker', m) + 1 = Open(worker, m)
      BY <1>0, <2>1, <2>2, ContinuingCounts
    <2>4. ASSUME NEW x \in Mails  PROVE MailEntry(x)
      <3>1. /\ Open(worker, x) \in Nat /\ Open(worker', x) \in Nat
            /\ Holding(worker, "mails", x) \in Nat
        BY Counts
      <3>2. accepted'[x] = accepted[x] \/ (x = m /\ accepted'[x] = accepted[x] + 1)
        BY <2>1 DEF TypeOK
      <3>3. NoneSent(x)
        <4>1. CASE accepted'[x] = accepted[x]
          BY <1>0, <2>3, <3>1, <4>1 DEF NoneSent
        <4>2. CASE x = m /\ accepted'[x] = accepted[x] + 1
          BY <1>0, <2>3, <3>1, <4>2 DEF NoneSent
        <4> QED  BY <3>2, <4>1, <4>2
      <3>4. /\ Kept(mail'[x], mail[x]) /\ faults' >= faults
            /\ faults' + Holding(worker', "mails", x) >= faults + Holding(worker, "mails", x)
        BY <1>0, <2>1, <2>3, <3>1 DEF Kept
      <3> QED  BY <3>3, <3>4 DEF MailEntry
    <2>5. \A i \in Inquiries : InquiryEntry(i)
      BY <1>0, <2>1, <2>3, InquiriesKept
    <2> QED  BY <2>4, <2>5 DEF Entries
  <1> QED  BY <1>2, <1>3, <1>4, <1>5, <1>6

(* A worker marks its item, or ends without a mark, which counts as a      *)
(* fault unless nothing is left to do.                                     *)
LEMMA EndingEntries ==
    ASSUME IInv, TypeOK', NEW w \in Workers,
           \/ MarkInquiryNotificationEnqueued(w)
           \/ MarkInquiryNotificationFailed(w)
           \/ MarkEmailSent(w)
           \/ MarkEmailFailed(w)
           \/ EndPass(w)
           \/ MarkFails(w) /\ Finishes(w)
           \/ Crash(w)
    PROVE  Entries
  <1> DEFINE x == worker[w].item
  <1>0. /\ TypeOK /\ WorkersStand /\ faults \in Nat
        /\ worker[w].step # "next" => x \in Mails
        /\ worker[w].step # "next" /\ worker[w].phase = "inquiries" => x \in Inquiries
    BY WorkerFacts, DeliveryAssumption DEF IInv, TypeOK
  <1>f. ASSUME Finishes(w)
        PROVE  /\ \A phase, y : phase # worker[w].phase \/ y # x
                     => Holding(worker', phase, y) = Holding(worker, phase, y)
               /\ \A phase, y : Holding(worker', phase, y) + 1 >= Holding(worker, phase, y)
               /\ \A m \in Mails : Open(worker', m) <= Open(worker, m)
    BY <1>0, <1>f, FinishingCounts
  <1> HIDE DEF x
  <1>1. CASE MarkInquiryNotificationEnqueued(w) \/ MarkInquiryNotificationFailed(w)
    <2>1. /\ Finishes(w) /\ x \in Inquiries /\ worker[w].phase = "inquiries"
          /\ UNCHANGED <<mail, accepted, asks, faults>>
      BY <1>0, <1>1 DEF MarkInquiryNotificationEnqueued, MarkInquiryNotificationFailed, At, bounds
    <2>2. PICK r \in {DoneRow(inquiry[x]), FailedRow(inquiry[x])} :
             inquiry' = [inquiry EXCEPT ![x] = r]
      BY <1>1 DEF MarkInquiryNotificationEnqueued, MarkInquiryNotificationFailed, x
    <2>3. Marked(r, inquiry[x])
      BY <1>0, <2>1, <2>2, RowEntries DEF TypeOK
    <2>4. \A i \in Inquiries : InquiryEntry(i)
      BY <1>0, <1>f, <2>1, <2>2, <2>3, OneInquiryEntry
    <2>5. \A m \in Mails : MailEntry(m)
      BY <1>0, <1>f, <2>1, MailsKept
    <2> QED  BY <2>4, <2>5 DEF Entries
  <1>2. CASE MarkEmailSent(w) \/ MarkEmailFailed(w)
    <2>1. /\ Finishes(w) /\ x \in Mails /\ worker[w].phase = "mails"
          /\ UNCHANGED <<inquiry, accepted, asks, faults>>
      BY <1>0, <1>2 DEF MarkEmailSent, MarkEmailFailed, At, bounds
    <2>2. PICK r \in {DoneRow(mail[x]), FailedRow(mail[x])} : mail' = [mail EXCEPT ![x] = r]
      BY <1>2 DEF MarkEmailSent, MarkEmailFailed, x
    <2>3. Marked(r, mail[x])
      BY <1>0, <2>1, <2>2, RowEntries DEF TypeOK
    <2>4. \A m \in Mails : MailEntry(m)
      BY <1>0, <1>f, <2>1, <2>2, <2>3, OneMailEntry
    <2>5. \A i \in Inquiries : InquiryEntry(i)
      BY <1>0, <1>f, <2>1, InquiriesKept
    <2> QED  BY <2>4, <2>5 DEF Entries
  <1>3. CASE MarkFails(w) /\ Finishes(w)
    <2>1. faults' = faults + 1 /\ UNCHANGED <<inquiry, mail, accepted, asks>>
      BY <1>3 DEF MarkFails, rows
    <2>2. \A m \in Mails : MailEntry(m)
      BY <1>0, <1>3, <1>f, <2>1, MailsKept
    <2>3. \A i \in Inquiries : InquiryEntry(i)
      BY <1>0, <1>3, <1>f, <2>1, InquiriesKept
    <2> QED  BY <2>2, <2>3 DEF Entries
  <1>4. CASE EndPass(w) \/ Crash(w)
    <2>1. /\ worker' = [worker EXCEPT ![w] = Idle] /\ UNCHANGED <<inquiry, mail, accepted, asks>>
          /\ faults' = faults + 1 \/ (faults' = faults /\ worker[w].todo = {})
      BY <1>4 DEF EndPass, Crash, rows, bounds
    <2>2. /\ worker[w].todo = {} => \A y :
                /\ Holding(worker', "mails", y) = Holding(worker, "mails", y)
                /\ Holding(worker', "inquiries", y) = Holding(worker, "inquiries", y)
          /\ \A phase, y : Holding(worker', phase, y) + 1 >= Holding(worker, phase, y)
          /\ \A m \in Mails : Open(worker', m) <= Open(worker, m)
      BY <1>0, <2>1, EndingCounts
    <2>3. \A m \in Mails : MailEntry(m)
      BY <1>0, <2>1, <2>2, MailsKept
    <2>4. \A i \in Inquiries : InquiryEntry(i)
      BY <1>0, <2>1, <2>2, InquiriesKept
    <2> QED  BY <2>3, <2>4 DEF Entries
  <1> QED  BY <1>1, <1>2, <1>3, <1>4

(* A worker claims. *)
LEMMA ClaimingEntries ==
    ASSUME IInv, TypeOK', NEW w \in Workers,
           \/ \E S \in SUBSET Inquiries : ClaimInquiryNotifications(w, S)
           \/ \E S \in SUBSET Mails : ClaimEmailOutbox(w, S)
    PROVE  Entries
  <1>0. /\ TypeOK /\ faults \in Nat /\ Inquiries \subseteq Mails
        /\ \A m \in Mails : accepted[m] \in Nat
    BY DeliveryAssumption DEF IInv, TypeOK, Mails
  <1>1. ASSUME NEW S \in SUBSET Inquiries, ClaimInquiryNotifications(w, S)  PROVE Entries
    <2>1. /\ worker[w].phase = "idle" /\ Claims(w, "inquiries", S)
          /\ UNCHANGED <<mail, accepted, asks, faults>> /\ S \in SUBSET Mails
      BY <1>0, <1>1 DEF ClaimInquiryNotifications, bounds
    <2>2. /\ \A y \in S :
                Holding(worker', "inquiries", y) = Holding(worker, "inquiries", y) + 1
          /\ \A other \in {"inquiries", "mails"} : \A y : other # "inquiries" \/ y \notin S
                => Holding(worker', other, y) = Holding(worker, other, y)
          /\ \A m : Open(worker', m) <= Open(worker, m)
      BY <1>0, <2>1, ClaimingCounts
    <2>3. \A m \in Mails : MailEntry(m)
      BY <1>0, <2>1, <2>2, MailsKept
    <2>4. ASSUME NEW i \in Inquiries  PROVE InquiryEntry(i)
      <3>1. CASE i \in S
        <4>1. ClaimedAs(inquiry'[i], inquiry[i])
          BY <1>1, <3>1 DEF ClaimInquiryNotifications, ClaimedAs
        <4> QED  BY <1>0, <2>1, <2>2, <3>1, <4>1 DEF InquiryEntry
      <3>2. CASE i \notin S
        <4>1. Kept(inquiry'[i], inquiry[i])
          BY <1>1, <3>2 DEF ClaimInquiryNotifications, Kept
        <4>2. Holding(worker', "inquiries", i) = Holding(worker, "inquiries", i)
          BY <2>2, <3>2
        <4>3. faults' + Holding(worker', "inquiries", i)
                 >= faults + Holding(worker, "inquiries", i)
          BY <1>0, <2>1, <4>2, Counts
        <4> QED  BY <1>0, <2>1, <4>1, <4>3 DEF InquiryEntry
      <3> QED  BY <3>1, <3>2
    <2> QED  BY <2>3, <2>4 DEF Entries
  <1>2. ASSUME NEW S \in SUBSET Mails, ClaimEmailOutbox(w, S)  PROVE Entries
    <2>1. /\ worker[w].phase = "inquiries" /\ worker[w].todo = {} /\ Claims(w, "mails", S)
          /\ UNCHANGED <<inquiry, accepted, asks, faults>>
      BY <1>2 DEF ClaimEmailOutbox, At, bounds
    <2>2. /\ \A y \in S : Holding(worker', "mails", y) = Holding(worker, "mails", y) + 1
          /\ \A other \in {"inquiries", "mails"} : \A y : other # "mails" \/ y \notin S
                => Holding(worker', other, y) = Holding(worker, other, y)
          /\ \A m : m \notin S => Open(worker', m) <= Open(worker, m)
          /\ \A m : Open(worker', m) <= Open(worker, m) + 1
      BY <1>0, <2>1, ClaimingCounts
    <2>3. \A i \in Inquiries : InquiryEntry(i)
      BY <1>0, <2>1, <2>2, InquiriesKept
    <2>4. ASSUME NEW m \in Mails  PROVE MailEntry(m)
      <3>0. Open(worker', m) \in Nat /\ Open(worker, m) \in Nat /\ accepted[m] \in Nat
        BY <1>0, Counts
      <3>1. CASE m \in S
        <4>1. ClaimedAs(mail'[m], mail[m])
          BY <1>2, <3>1 DEF ClaimEmailOutbox, ClaimedAs
        <4>2. accepted'[m] + Open(worker', m) <= accepted[m] + Open(worker, m) + 1
          BY <2>1, <2>2, <3>0
        <4> QED  BY <1>0, <2>1, <2>2, <3>1, <4>1, <4>2 DEF MailEntry
      <3>2. CASE m \notin S
        <4>1. Kept(mail'[m], mail[m])
          BY <1>2, <3>2 DEF ClaimEmailOutbox, Kept
        <4>2. Holding(worker', "mails", m) = Holding(worker, "mails", m)
          BY <2>2, <3>2
        <4>3. faults' + Holding(worker', "mails", m) >= faults + Holding(worker, "mails", m)
          BY <1>0, <2>1, <4>2, Counts
        <4>4. NoneSent(m)
          BY <2>1, <2>2, <3>0, <3>2 DEF NoneSent
        <4> QED  BY <1>0, <2>1, <4>1, <4>3, <4>4 DEF MailEntry
      <3> QED  BY <3>1, <3>2
    <2> QED  BY <2>3, <2>4 DEF Entries
  <1> QED  BY <1>1, <1>2

-----------------------------------------------------------------------------
LEMMA LedgerInductive ==
    ASSUME IInv, Ledger, [Next]_vars  PROVE Ledger'
  <1>0. TypeOK /\ TypeOK'
    BY EveryStep DEF IInv, Moved
  <1>1. Entries
    <2>1. CASE UNCHANGED vars
      <3>1. UNCHANGED <<inquiry, mail, accepted, worker, faults, asks>>
        BY <2>1 DEF vars, rows, bounds
      <3>2. /\ \A phase, x : Holding(worker', phase, x) = Holding(worker, phase, x)
            /\ \A m : Open(worker', m) <= Open(worker, m)
        BY <3>1, NoCount, Counts
      <3>3. \A m \in Mails : MailEntry(m)
        BY <1>0, <3>1, <3>2, MailsKept
      <3>4. \A i \in Inquiries : InquiryEntry(i)
        BY <1>0, <3>1, <3>2, InquiriesKept
      <3> QED  BY <3>3, <3>4 DEF Entries
    <2>2. ASSUME NEW w \in Workers, Works(w) \/ MarkFails(w) \/ Crash(w)  PROVE Entries
      BY <1>0, <2>2, ContinuingEntries, EndingEntries, ClaimingEntries DEF Works
    <2> QED  BY <1>0, <2>1, <2>2, ApiEntries DEF Next
  <1>2. \A m \in Mails : MailLedger(m)'
    BY <1>0, <1>1, MailEntryKeeps DEF Ledger, Entries
  <1>3. \A i \in Inquiries : InquiryLedger(i)'
    BY <1>0, <1>1, InquiryEntryKeeps DEF Ledger, Entries
  <1> QED  BY <1>2, <1>3 DEF Ledger

(* At the start nothing was tried and nobody holds anything. *)
LEMMA LedgerInitially == Init => Ledger
  <1> SUFFICES ASSUME Init  PROVE Ledger
    OBVIOUS
  <1>1. \A w \in Workers : worker[w].phase = "idle"
    BY DEF Init, Idle, PassAt
  <1>2. ASSUME NEW m \in Mails  PROVE MailLedger(m)
    <2>1. mail[m].status = "absent" /\ mail[m].attempts = 0 /\ accepted[m] = 0 /\ faults = 0
      BY DEF Init, NoRow
    <2>2. Owing(worker, m) = {}
      BY <1>1 DEF Owing, Owes, Holds
    <2>3. Open(worker, m) = 0
      BY <2>2, FS_EmptySet DEF Open
    <2>4. 0 < MaxAttempts + faults + Cardinality(Workers)
      BY <2>1, Counts, OutboxAssumption
    <2> QED  BY <2>1, <2>3, <2>4 DEF MailLedger
  <1>3. ASSUME NEW i \in Inquiries  PROVE InquiryLedger(i)
    <2>1. inquiry[i].status = "absent" /\ inquiry[i].attempts = 0 /\ faults = 0 /\ asks = 0
      BY <1>3 DEF Init, NoRow
    <2>2. Allowed = MaxAttempts
      BY <2>1, Counts, OutboxAssumption DEF Allowed
    <2>3. 0 < Allowed + Cardinality(Workers) /\ 0 < Allowed
      BY <2>2, Counts, OutboxAssumption
    <2> QED  BY <2>1, <2>3 DEF InquiryLedger
  <1> QED  BY <1>2, <1>3 DEF Ledger

(* However workers overlap, die and lose their marks: an e-mail leaves at  *)
(* most once per claim, and claims that do not look at max_attempts exceed *)
(* it at most once per fault and per further worker, for an inquiry also   *)
(* per worker and new deadline (ClaimEmailOutbox,                          *)
(* ClaimInquiryNotifications, MarkEmailFailed).                            *)
THEOREM AttemptsStayBounded == Spec => []AttemptsBounded
  <1>1. TypeOK /\ Ledger => AttemptsBounded
    <2> SUFFICES ASSUME TypeOK, Ledger  PROVE AttemptsBounded
      OBVIOUS
    <2>0. faults \in Nat /\ asks \in Nat /\ MaxAttempts \in Nat /\ Cardinality(Workers) \in Nat
      BY Counts, DeliveryAssumption, OutboxAssumption DEF TypeOK
    <2>1. ASSUME NEW m \in Mails
          PROVE  /\ accepted[m] <= mail[m].attempts
                 /\ mail[m].attempts <= MaxAttempts + (faults + Cardinality(Workers) - 1)
      <3>1. /\ accepted[m] \in Nat /\ mail[m].attempts \in Nat /\ Open(worker, m) \in Nat
            /\ mail[m].attempts < MaxAttempts + faults + Cardinality(Workers)
            /\ accepted[m] + Open(worker, m) <= mail[m].attempts
        BY Counts DEF TypeOK, OutboxRow, Ledger, MailLedger
      <3> QED  BY <2>0, <3>1
    <2>2. ASSUME NEW i \in Inquiries
          PROVE  inquiry[i].attempts <= MaxAttempts + (faults + Cardinality(Workers) - 1)
                                                    + asks * Cardinality(Workers)
      <3>1. /\ inquiry[i].attempts \in Nat
            /\ inquiry[i].attempts < Allowed + Cardinality(Workers)
        BY DEF TypeOK, OutboxRow, Ledger, InquiryLedger
      <3>2. asks * Cardinality(Workers) \in Nat
        BY <2>0
      <3> QED  BY <2>0, <3>1, <3>2 DEF Allowed
    <2> QED  BY <2>1, <2>2 DEF AttemptsBounded, AcceptedPerClaim, RetriesBounded
  <1>2. IInv /\ Ledger /\ [Next]_vars => Ledger'
    BY LedgerInductive
  <1>3. IInv => TypeOK
    BY DEF IInv
  <1> QED  BY <1>1, <1>2, <1>3, Invariance, LedgerInitially, PTL DEF Spec
=============================================================================

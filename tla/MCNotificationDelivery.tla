----------------------- MODULE MCNotificationDelivery -----------------------
EXTENDS NotificationDelivery, TLC

(* Two workers meet the rows of an inquiry or of an e-mail that some other *)
(* component queued, not of both: one e-mail at a time.                    *)
OneOrigin ==
    (\A i \in Inquiries : inquiry[i].status = "absent")
        \/ (\A m \in Direct : mail[m].status = "absent")

(* With one e-mail, Fairness asks no more than this.                       *)
FairToOne ==
    /\ \A w \in Workers : WF_vars(Works(w))
    /\ WF_vars(\E i \in Inquiries : InquiryWaits(i))
    /\ WF_vars(\E m \in Mails : MailWaits(m))
    /\ SF_vars(\E m \in Mails : Claimed(m))

MCSpec == Init /\ [][Next /\ OneOrigin']_vars /\ FairToOne

(* Every e-mail is sent or abandoned, and every inquiry answered, enqueued *)
(* or abandoned, if the workers keep polling (Worker.Run).                 *)
AllSettle == MailsSettle /\ InquiriesSettle
=============================================================================

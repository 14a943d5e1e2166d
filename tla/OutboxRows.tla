----------------------------- MODULE OutboxRows -----------------------------
(***************************************************************************)
(* A row of a durable outbox as migration 000027 leaves it: email_outbox,  *)
(* and the columns notification_* of willingness_inquiries.  Both are      *)
(* claimed, finished and failed by the same statements; the status "sent"  *)
(* of the one and "enqueued" of the other is "done" here.                  *)
(*                                                                         *)
(* Clock readings are abstracted to what the statements compare:           *)
(*   due    available_at has passed                                        *)
(*   stale  the last change of the row is more than five minutes old       *)
(***************************************************************************)
EXTENDS Naturals

CONSTANT MaxAttempts    \* max_attempts

ASSUME OutboxAssumption == MaxAttempts \in Nat \ {0}

OutboxStatus == {"absent", "pending", "processing", "done", "failed", "abandoned"}

OutboxRow == [status : OutboxStatus, attempts : Nat, due : BOOLEAN, stale : BOOLEAN]

NoRow == [status |-> "absent", attempts |-> 0, due |-> TRUE, stale |-> FALSE]

PendingRow == [NoRow EXCEPT !.status = "pending"]

-----------------------------------------------------------------------------
(* Faulty variants of the definitions below, which the runs must reject:   *)
(* no reclaim, a reclaim of abandoned rows, a claim that is not counted.   *)
ClaimableOnce(r) == r.status \in {"pending", "failed"} /\ r.due

ClaimableAbandoned(r) == r.status \in {"pending", "processing", "failed", "abandoned"}

ClaimedUncounted(r) == [r EXCEPT !.status = "processing", !.stale = FALSE]

-----------------------------------------------------------------------------
(* A row may be claimed when it is due, or when whoever claimed it is      *)
(* silent for five minutes; max_attempts is not asked.                     *)
Claimable(r) ==
    \/ r.status \in {"pending", "failed"} /\ r.due
    \/ r.status = "processing" /\ r.stale

ClaimedRow(r) ==
    [status |-> "processing", attempts |-> r.attempts + 1, due |-> r.due, stale |-> FALSE]

(* The marks, whatever the row has become since it was claimed. *)
DoneRow(r) == [r EXCEPT !.status = "done", !.stale = FALSE]

FailedRow(r) ==
    [r EXCEPT !.status = IF r.attempts >= MaxAttempts THEN "abandoned" ELSE "failed",
              !.due = FALSE, !.stale = FALSE]

(* Time passes for a row. *)
Waits(r) == r.status \in {"pending", "failed"} /\ ~r.due

Due(r) == [r EXCEPT !.due = TRUE]

Silent(r) == r.status = "processing" /\ ~r.stale

Stale(r) == [r EXCEPT !.stale = TRUE]
=============================================================================

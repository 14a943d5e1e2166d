--------------------------- MODULE ExtractionJobs ---------------------------
(***************************************************************************)
(* The table ingestion_jobs as the extraction pipeline uses it (package    *)
(* backend/internal/ingestion): the rows, and what each statement of the   *)
(* repository does to one of them.  The modules that compose the queue     *)
(* with what it feeds (UploadIntake) extend this one.                      *)
(*                                                                         *)
(* Clock readings are abstracted to what the statements compare:           *)
(*   lock   locked_at is NULL ("null"), in the future ("held") or past     *)
(*          ("expired")                                                    *)
(*   due    next_attempt_at is NULL or past                                *)
(***************************************************************************)
EXTENDS Naturals

CONSTANTS Jobs,         \* the jobs, in the order of their creation or not
          MaxAttempts   \* ingestion_jobs.max_attempts

ASSUME MaxAttemptsAssumption == MaxAttempts \in Nat \ {0}

VARIABLE job            \* job[j]: the row of j

JobStatus == {"absent", "queued", "running", "retrying", "failed", "succeeded"}

JobRow == [status : JobStatus, attempts : Nat,
           lock : {"null", "held", "expired"}, due : BOOLEAN]

NoRow == [status |-> "absent", attempts |-> 0, lock |-> "null", due |-> TRUE]

QueuedRow == [NoRow EXCEPT !.status = "queued"]

-----------------------------------------------------------------------------
(* Faulty variants of the definitions below, which the runs must reject:   *)
(* a reclaim that ignores max_attempts, a retry of any row.                *)
ClaimableUncapped(r) ==
    \/ r.status \in {"queued", "retrying"} /\ r.due
    \/ r.status = "running" /\ r.lock = "expired"

CanRequeueAny(r) == r.status # "absent"

-----------------------------------------------------------------------------
(* The rows ClaimNextJob may pick.  It takes the oldest one that no other  *)
(* transaction has locked (SKIP LOCKED), so any of them may be next.       *)
ClaimableJob(r) ==
    \/ r.status \in {"queued", "retrying"} /\ r.due
    \/ r.status = "running" /\ r.lock = "expired" /\ r.attempts < MaxAttempts

ClaimedRow(r) ==
    [status |-> "running", attempts |-> r.attempts + 1, lock |-> "held", due |-> TRUE]

(* The first statement of MarkJobFailure, for a row that has not succeeded. *)
FailedRow(r, retryable) ==
    LET again == retryable /\ r.attempts < MaxAttempts
    IN  [r EXCEPT !.status = IF again THEN "retrying" ELSE "failed",
                  !.due = ~again, !.lock = "null"]

(* A result was applied. *)
SucceededRow(r) == [r EXCEPT !.status = "succeeded", !.due = TRUE, !.lock = "null"]

(* RequeueJob keeps the attempt count and the lock of the row. *)
RequeuedRow(r) == [r EXCEPT !.status = "queued", !.due = TRUE]

CanRequeue(r) == r.status \in {"queued", "running", "retrying", "failed"}

(* The clock passes locked_at, or next_attempt_at. *)
LeaseExpires(j) ==
    /\ job[j].lock = "held"
    /\ job' = [job EXCEPT ![j].lock = "expired"]

BackoffElapses(j) ==
    /\ ~job[j].due
    /\ job' = [job EXCEPT ![j].due = TRUE]

(* A row that no claim will ever pick again and that never reached a final *)
(* status: its last permitted attempt died without a report.               *)
Stranded(r) ==
    r.status = "running" /\ r.lock = "expired" /\ r.attempts >= MaxAttempts
=============================================================================

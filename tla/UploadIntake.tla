---------------------------- MODULE UploadIntake ----------------------------
(***************************************************************************)
(* A brochure PDF from its submission to its publication, over the HTTP    *)
(* transport: the API handlers that store the file and queue its job, the  *)
(* Python workers that lease the job and call back with a result or a      *)
(* failure, and the administrator who confirms or rejects what was         *)
(* extracted.  One upload, its job, its file and its storage key are the   *)
(* same element of Jobs.                                                   *)
(*                                                                         *)
(* Every database transaction is one step.  A handler that runs several    *)
(* statements without one is as many steps, and everything a process does  *)
(* between two calls may be cut short by its crash.                        *)
(***************************************************************************)
EXTENDS ExtractionJobs

CONSTANTS Clients,      \* concurrent requests that submit a file
          Workers,      \* Python worker processes
          NamedByHash,  \* the uploads whose storage key is made from the file's hash
          MaxRequeues   \* bound: retries an administrator asks for, for one job

ASSUME UploadAssumption ==
    /\ NamedByHash \subseteq Jobs
    /\ MaxRequeues \in Nat

VARIABLES upload,       \* upload[j]: brochure_uploads.status
          blob,         \* the storage keys that have an object
          intake,       \* intake[c]: the submission c is handling
          worker,       \* worker[w]: what w does, and the attempt it does it for
          call,         \* callbacks on their way to the API or half handled by it
          published,    \* published[j]: how many times j's brochure was published
          requeues      \* requeues[j]: how many times an administrator retried j

table == <<job, upload>>
vars == <<job, upload, blob, intake, worker, call, published, requeues>>

UploadStatus == {"absent", "queued", "processing", "pending_review",
                 "approved", "rejected", "failed"}

Reviewable == {"pending_review", "approved", "rejected"}

(* A callback: the job and the attempt it speaks of, and how far the       *)
(* handler is.  A failure is handled in two statements; "saw" is what the  *)
(* snapshot of the second one holds for the status of the job.             *)
Call == [op : {"result", "failure"}, job : Jobs, attempt : Nat,
         retryable : BOOLEAN, step : {"sent", "jobMarked", "snapshot"},
         saw : JobStatus]

Sent(op, j, n, retryable) ==
    [op |-> op, job |-> j, attempt |-> n, retryable |-> retryable,
     step |-> "sent", saw |-> "absent"]

TypeOK ==
    /\ job \in [Jobs -> JobRow]
    /\ upload \in [Jobs -> UploadStatus]
    /\ blob \subseteq Jobs
    /\ intake \in [Clients -> [pc : {"idle", "stored", "refused"}, job : Jobs]]
    /\ worker \in [Workers -> [pc : {"idle", "working", "awaiting"},
                               job : Jobs, attempt : Nat]]
    /\ call \subseteq Call
    /\ published \in [Jobs -> Nat]
    /\ requeues \in [Jobs -> 0..MaxRequeues]

Init ==
    /\ job = [j \in Jobs |-> NoRow]
    /\ upload = [j \in Jobs |-> "absent"]
    /\ blob = {}
    /\ \E j \in Jobs :
          /\ intake = [c \in Clients |-> [pc |-> "idle", job |-> j]]
          /\ worker = [w \in Workers |-> [pc |-> "idle", job |-> j, attempt |-> 0]]
    /\ call = {}
    /\ published = [j \in Jobs |-> 0]
    /\ requeues = [j \in Jobs |-> 0]

-----------------------------------------------------------------------------
(* Faulty variants of the actions below, which the runs must reject: an    *)
(* upload that is given the status of its job, a result applied again to a *)
(* finished job, a confirmation that does not look at a decided upload.    *)
ApplyAgain(m) ==
    LET j == m.job
    IN  /\ m.op = "result"
        /\ call' = call \ {m}
        /\ upload' = [upload EXCEPT ![j] = "pending_review"]
        /\ job' = [job EXCEPT ![j] = SucceededRow(@)]
        /\ UNCHANGED <<blob, intake, worker, published, requeues>>

CopyJobStatus(m) ==
    /\ m.op = "failure" /\ m.step = "snapshot"
    /\ call' = call \ {m}
    /\ upload' = [upload EXCEPT ![m.job] = m.saw]
    /\ UNCHANGED <<job, blob, intake, worker, published, requeues>>

ConfirmAgain(j) ==
    /\ upload[j] \in {"pending_review", "approved"}
    /\ upload' = [upload EXCEPT ![j] = "approved"]
    /\ published' = [published EXCEPT ![j] = @ + 1]
    /\ UNCHANGED <<job, blob, intake, worker, call, requeues>>

-----------------------------------------------------------------------------
(* Submission: externalBrochure, aiSystemBrochure, the administrator's own *)
(* upload.  The file is stored first.  A key made from a fresh identifier  *)
(* has never been used; a key made from the hash may have been.            *)
StoreFile(c, j) ==
    /\ intake[c].pc = "idle"
    /\ j \notin NamedByHash =>
          /\ job[j].status = "absent"
          /\ \A d \in Clients : intake[d].pc = "idle" \/ intake[d].job # j
    /\ intake' = [intake EXCEPT ![c] = [pc |-> "stored", job |-> j]]
    /\ blob' = blob \cup {j}
    /\ UNCHANGED <<table, worker, call, published, requeues>>

(* queueUploadedBrochureJob inserts the job and the upload; the unique     *)
(* idempotency key refuses a second submission of the same file.           *)
QueueUploadedBrochure(c) ==
    LET j == intake[c].job
        new == job[j].status = "absent"
    IN  /\ intake[c].pc = "stored"
        /\ intake' = [intake EXCEPT ![c].pc = IF new THEN "idle" ELSE "refused"]
        /\ job' = IF new THEN [job EXCEPT ![j] = QueuedRow] ELSE job
        /\ upload' = IF new THEN [upload EXCEPT ![j] = "queued"] ELSE upload
        /\ UNCHANGED <<blob, worker, call, published, requeues>>

(* The transaction fails: nothing is inserted. *)
QueueFails(c) ==
    /\ intake[c].pc = "stored"
    /\ intake' = [intake EXCEPT ![c].pc = "refused"]
    /\ UNCHANGED <<table, blob, worker, call, published, requeues>>

(* No job was returned: the handler removes the file it stored. *)
RemoveFile(c) ==
    /\ intake[c].pc = "refused"
    /\ intake' = [intake EXCEPT ![c].pc = "idle"]
    /\ blob' = blob \ {intake[c].job}
    /\ UNCHANGED <<table, worker, call, published, requeues>>

CrashHandler(c) ==
    /\ intake[c].pc # "idle"
    /\ intake' = [intake EXCEPT ![c].pc = "idle"]
    /\ UNCHANGED <<table, blob, worker, call, published, requeues>>

-----------------------------------------------------------------------------
(* ClaimNextJob: the row is leased and its upload marked, in one           *)
(* transaction.                                                            *)
Lease(j) ==
    /\ ClaimableJob(job[j])
    /\ job' = [job EXCEPT ![j] = ClaimedRow(@)]
    /\ upload' = IF upload[j] \in {"queued", "processing", "failed"}
                 THEN [upload EXCEPT ![j] = "processing"] ELSE upload

ClaimNextJob(w, j) ==
    /\ worker[w].pc = "idle"
    /\ Lease(j)
    /\ worker' = [worker EXCEPT ![w] =
                     [pc |-> "working", job |-> j, attempt |-> job[j].attempts + 1]]
    /\ UNCHANGED <<blob, intake, call, published, requeues>>

(* The handler of the claim cannot sign the download URL: it answers with  *)
(* an error and records a failure itself.                                  *)
ClaimUnserved(j) ==
    /\ Lease(j)
    /\ call' = call \cup {Sent("failure", j, job[j].attempts + 1, TRUE)}
    /\ UNCHANGED <<blob, intake, worker, published, requeues>>

-----------------------------------------------------------------------------
(* A worker: _process_claim and the handlers of run().                     *)
SubmitResult(w) ==
    LET j == worker[w].job
    IN  /\ worker[w].pc = "working"
        /\ j \in blob
        /\ call' = call \cup {Sent("result", j, worker[w].attempt, FALSE)}
        /\ worker' = [worker EXCEPT ![w].pc = "awaiting"]
        /\ UNCHANGED <<table, blob, intake, published, requeues>>

(* The extraction fails for good (InvalidJob, only once the file was read) *)
(* or may be tried again; or the result call itself failed.  A call that   *)
(* timed out may still be handled later.                                   *)
ReportFailure(w, retryable) ==
    LET j == worker[w].job
    IN  /\ \/ worker[w].pc = "working" /\ (retryable \/ j \in blob)
           \/ worker[w].pc = "awaiting" /\ retryable
        /\ call' = call \cup {Sent("failure", j, worker[w].attempt, retryable)}
        /\ worker' = [worker EXCEPT ![w].pc = "idle"]
        /\ UNCHANGED <<table, blob, intake, published, requeues>>

ResultAccepted(w) ==
    /\ worker[w].pc = "awaiting"
    /\ Sent("result", worker[w].job, worker[w].attempt, FALSE) \notin call
    /\ job[worker[w].job].status = "succeeded"
    /\ worker' = [worker EXCEPT ![w].pc = "idle"]
    /\ UNCHANGED <<table, blob, intake, call, published, requeues>>

CrashWorker(w) ==
    /\ worker[w].pc # "idle"
    /\ worker' = [worker EXCEPT ![w].pc = "idle"]
    /\ UNCHANGED <<table, blob, intake, call, published, requeues>>

-----------------------------------------------------------------------------
(* applyUploadedBrochureExtractionResult, one transaction that holds the   *)
(* row of the job.                                                         *)
ApplyResult(m) ==
    LET j == m.job
        first == job[j].status # "succeeded"
    IN  /\ m.op = "result"
        /\ call' = call \ {m}
        /\ upload' = IF first THEN [upload EXCEPT ![j] = "pending_review"] ELSE upload
        /\ job' = IF first THEN [job EXCEPT ![j] = SucceededRow(@)] ELSE job
        /\ UNCHANGED <<blob, intake, worker, published, requeues>>

(* MarkJobFailure, first statement: the row of the job. *)
MarkJobFailed(m) ==
    LET j == m.job
        done == job[j].status = "succeeded"
    IN  /\ m.op = "failure" /\ m.step = "sent"
        /\ call' = IF done THEN call \ {m}
                   ELSE (call \ {m}) \cup {[m EXCEPT !.step = "jobMarked"]}
        /\ job' = IF done THEN job ELSE [job EXCEPT ![j] = FailedRow(@, m.retryable)]
        /\ UNCHANGED <<upload, blob, intake, worker, published, requeues>>

(* Second statement, the row of the upload.  Its conditions on the job are *)
(* evaluated on the snapshot it starts with; when the row of the upload is *)
(* locked by an uncommitted result, READ COMMITTED waits for that row and  *)
(* looks again at the upload only.                                         *)
ReadJobForUpload(m) ==
    /\ m.op = "failure" /\ m.step = "jobMarked"
    /\ call' = IF job[m.job].status = "succeeded" THEN call \ {m}
               ELSE (call \ {m}) \cup
                       {[m EXCEPT !.step = "snapshot", !.saw = job[m.job].status]}
    /\ UNCHANGED <<table, blob, intake, worker, published, requeues>>

MarkUploadFailed(m) ==
    /\ m.op = "failure" /\ m.step = "snapshot"
    /\ call' = call \ {m}
    /\ upload' = [upload EXCEPT ![m.job] =
                     IF m.retryable /\ m.saw = "retrying" THEN "processing" ELSE "failed"]
    /\ UNCHANGED <<job, blob, intake, worker, published, requeues>>

(* The call never arrives, the statement fails or the API stops. *)
LoseCall(m) ==
    /\ call' = call \ {m}
    /\ UNCHANGED <<table, blob, intake, worker, published, requeues>>

-----------------------------------------------------------------------------
(* The administrator. *)
RequeueJob(j) ==
    /\ CanRequeue(job[j])
    /\ requeues[j] < MaxRequeues
    /\ requeues' = [requeues EXCEPT ![j] = @ + 1]
    /\ job' = [job EXCEPT ![j] = RequeuedRow(@)]
    /\ UNCHANGED <<upload, blob, intake, worker, call, published>>

ConfirmBrochureUpload(j) ==
    /\ upload[j] = "pending_review"
    /\ upload' = [upload EXCEPT ![j] = "approved"]
    /\ published' = [published EXCEPT ![j] = @ + 1]
    /\ UNCHANGED <<job, blob, intake, worker, call, requeues>>

RejectBrochureUpload(j) ==
    /\ upload[j] = "pending_review"
    /\ upload' = [upload EXCEPT ![j] = "rejected"]
    /\ UNCHANGED <<job, blob, intake, worker, call, published, requeues>>

-----------------------------------------------------------------------------
Tick(j) ==
    /\ LeaseExpires(j) \/ BackoffElapses(j)
    /\ UNCHANGED <<upload, blob, intake, worker, call, published, requeues>>

Submission(c) ==
    \/ \E j \in Jobs : StoreFile(c, j)
    \/ QueueUploadedBrochure(c)
    \/ QueueFails(c)
    \/ RemoveFile(c)
    \/ CrashHandler(c)

Work(w) ==
    \/ \E j \in Jobs : ClaimNextJob(w, j)
    \/ SubmitResult(w)
    \/ \E retryable \in BOOLEAN : ReportFailure(w, retryable)
    \/ ResultAccepted(w)
    \/ CrashWorker(w)

Handle(m) ==
    \/ ApplyResult(m)
    \/ MarkJobFailed(m)
    \/ ReadJobForUpload(m)
    \/ MarkUploadFailed(m)

Administer(j) ==
    \/ RequeueJob(j)
    \/ ConfirmBrochureUpload(j)
    \/ RejectBrochureUpload(j)

Next ==
    \/ \E c \in Clients : Submission(c)
    \/ \E w \in Workers : Work(w)
    \/ \E j \in Jobs : ClaimUnserved(j) \/ Tick(j) \/ Administer(j)
    \/ \E m \in call : Handle(m) \/ LoseCall(m)

Spec == Init /\ [][Next]_vars
-----------------------------------------------------------------------------
(***************************************************************************)
(* Properties                                                              *)
(***************************************************************************)

(* What applyUploadedBrochureExtractionResult and the guard of the claim   *)
(* keep together: an upload is shown to an administrator, or was decided,  *)
(* only when its job has succeeded, whatever late failure reports, expired *)
(* leases and retries did in between.                                      *)
ReviewFollowsSuccess ==
    \A j \in Jobs : upload[j] \in Reviewable => job[j].status = "succeeded"

(* ConfirmBrochureUpload publishes programs and a brochure: no order of    *)
(* retries, duplicate results and late failures lets it do so twice for    *)
(* one upload.                                                             *)
PublishedAtMostOnce == \A j \in Jobs : published[j] <= 1

(* max_attempts of ingestion_jobs: the leases ever granted for a job are   *)
(* at most its attempts plus one for every retry an administrator asked    *)
(* for, although a claim of a queued or retrying row checks no count.      *)
AttemptBudget == \A j \in Jobs : job[j].attempts <= MaxAttempts + requeues[j]

(* The handlers store the file before they queue its job and remove it     *)
(* only when they queued none: an upload always has the file its worker    *)
(* downloads and its reviewer opens.                                       *)
FileKept == \A j \in Jobs : upload[j] # "absent" => j \in blob

(* Once a job has succeeded its upload is never put up for review again:   *)
(* a decision of the administrator is not reopened by a duplicate result.  *)
ReviewOpensOnce ==
    [][\A j \in Jobs :
          /\ job[j].status = "succeeded"
          /\ upload'[j] = "pending_review"
          => upload[j] = "pending_review"]_vars

(* A worker whose lease on a job is the last one granted and has not run   *)
(* out.                                                                    *)
HoldsLease(w, j) ==
    /\ worker[w].pc # "idle"
    /\ worker[w].job = j
    /\ worker[w].attempt = job[j].attempts
    /\ job[j].lock # "expired"

(* The lease prevents a second claim ("the database lease avoids claiming  *)
(* twice"): while a worker holds one, nobody else is handed the job.       *)
NoDuplicateClaim ==
    [][\A w \in Workers, j \in Jobs :
          HoldsLease(w, j) => job'[j].attempts = job[j].attempts]_vars

(* Once extraction has succeeded the upload stays in review until it is    *)
(* decided: MarkJobFailure must not touch the upload of a succeeded job.   *)
FinishedUploadInReview ==
    \A j \in Jobs : job[j].status = "succeeded" => upload[j] \in Reviewable

(* Workers poll for ever, the API handles the calls it received, and time  *)
(* passes.  A worker may crash and a call may be lost, but nothing forces  *)
(* them to.                                                                *)
Fairness ==
    /\ \A j \in Jobs : WF_vars(Tick(j))
    /\ \A j \in Jobs : WF_vars(\E w \in Workers : ClaimNextJob(w, j))
    /\ \A w \in Workers : WF_vars(\/ SubmitResult(w)
                                   \/ ReportFailure(w, TRUE)
                                   \/ ResultAccepted(w))
    /\ WF_vars(\E m \in call : Handle(m))

FairSpec == Spec /\ Fairness

(* Every queued job comes to an end: it succeeds, it fails, or it is left  *)
(* running with its attempts used up, where only an administrator's retry  *)
(* moves it.                                                               *)
JobsSettle ==
    \A j \in Jobs :
        job[j].status = "queued" ~>
            \/ job[j].status \in {"succeeded", "failed"}
            \/ Stranded(job[j])
=============================================================================

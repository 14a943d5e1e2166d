------------------------- MODULE UploadIntakeProofs -------------------------
(***************************************************************************)
(* Proofs about UploadIntake, for any number of jobs, requests and workers *)
(* and any max_attempts.  ReviewFollowsSuccess and PublishedAtMostOnce are *)
(* not inductive: a confirmation is harmless only because a published      *)
(* brochure belongs to a job that has succeeded and to an upload that is   *)
(* no longer in review, and no step takes a succeeded job or a decided     *)
(* upload back.  AttemptBudget needs that a row which waits for a claim    *)
(* has an attempt left.                                                    *)
(***************************************************************************)
EXTENDS UploadIntake, TLAPS

(* A brochure was published for a finished job whose upload has left the   *)
(* review.                                                                 *)
PublishedIsDecided ==
    \A j \in Jobs : published[j] > 0 => /\ job[j].status = "succeeded"
                                        /\ upload[j] # "pending_review"

(* The claim of a queued or retrying row counts no attempts, so such a row *)
(* must have one left.                                                     *)
WaitingHasAttempt ==
    \A j \in Jobs : job[j].status \in {"queued", "retrying"}
                        => job[j].attempts < MaxAttempts + requeues[j]

IInv ==
    /\ TypeOK
    /\ ReviewFollowsSuccess
    /\ PublishedIsDecided
    /\ PublishedAtMostOnce
    /\ WaitingHasAttempt
    /\ AttemptBudget

-----------------------------------------------------------------------------
(* What each statement makes of a row is a row again. *)
LEMMA RowsOK ==
    /\ NoRow \in JobRow
    /\ QueuedRow \in JobRow
    /\ \A r \in JobRow : /\ ClaimedRow(r) \in JobRow
                         /\ RequeuedRow(r) \in JobRow
                         /\ SucceededRow(r) \in JobRow
    /\ \A r \in JobRow, b \in BOOLEAN : FailedRow(r, b) \in JobRow
<1>1. NoRow \in JobRow /\ QueuedRow \in JobRow
  BY DEF NoRow, QueuedRow, JobRow, JobStatus
<1>2. ASSUME NEW r \in JobRow
      PROVE  /\ ClaimedRow(r) \in JobRow
             /\ RequeuedRow(r) \in JobRow
             /\ SucceededRow(r) \in JobRow
  <2>1. ClaimedRow(r) \in JobRow
    BY DEF JobRow, JobStatus, ClaimedRow
  <2>2. RequeuedRow(r) \in JobRow
    BY DEF JobRow, JobStatus, RequeuedRow
  <2>3. SucceededRow(r) \in JobRow
    BY DEF JobRow, JobStatus, SucceededRow
  <2> QED
    BY <2>1, <2>2, <2>3
<1>3. ASSUME NEW r \in JobRow, NEW b \in BOOLEAN
      PROVE  FailedRow(r, b) \in JobRow
  <2> DEFINE again == b /\ r.attempts < MaxAttempts
  <2>1. CASE again
    BY <2>1 DEF JobRow, JobStatus, FailedRow
  <2>2. CASE ~again
    BY <2>2 DEF JobRow, JobStatus, FailedRow
  <2> QED
    BY <2>1, <2>2
<1> QED
  BY <1>1, <1>2, <1>3

(* A call that a worker or the handler of a claim sends is a call. *)
LEMMA SentOK ==
    ASSUME NEW op \in {"result", "failure"}, NEW j \in Jobs, NEW n \in Nat,
           NEW b \in BOOLEAN
    PROVE  Sent(op, j, n, b) \in Call
  BY DEF Sent, Call, JobStatus

LEMMA InitOK == Init => IInv
<1> SUFFICES ASSUME Init PROVE IInv
  OBVIOUS
<1> USE DEF Init
<1>1. TypeOK
  BY RowsOK, UploadAssumption DEF TypeOK, UploadStatus
<1>2. ReviewFollowsSuccess
  BY DEF ReviewFollowsSuccess, Reviewable
<1>3. PublishedIsDecided /\ PublishedAtMostOnce
  BY DEF PublishedIsDecided, PublishedAtMostOnce
<1>4. WaitingHasAttempt
  BY DEF WaitingHasAttempt, NoRow
<1>5. AttemptBudget
  <2> SUFFICES ASSUME NEW j \in Jobs
               PROVE  job[j].attempts <= MaxAttempts + requeues[j]
    BY DEF AttemptBudget
  <2>1. job[j].attempts = 0 /\ requeues[j] = 0
    BY DEF NoRow
  <2> QED
    BY <2>1, MaxAttemptsAssumption
<1> QED
  BY <1>1, <1>2, <1>3, <1>4, <1>5 DEF IInv
(* Every step keeps the types. *)
LEMMA TypeStep == TypeOK /\ [Next]_vars => TypeOK'
<1> SUFFICES ASSUME TypeOK, [Next]_vars PROVE TypeOK'
  OBVIOUS
<1> USE RowsOK
<1>1. ASSUME NEW c \in Clients, Submission(c) PROVE TypeOK'
  <2>1. ASSUME NEW j \in Jobs, StoreFile(c, j) PROVE TypeOK'
    BY <2>1 DEF TypeOK, StoreFile, table
  <2>2. CASE QueueUploadedBrochure(c)
    BY <2>2 DEF TypeOK, QueueUploadedBrochure, UploadStatus
  <2>3. CASE QueueFails(c)
    BY <2>3 DEF TypeOK, QueueFails, table
  <2>4. CASE RemoveFile(c)
    BY <2>4 DEF TypeOK, RemoveFile, table
  <2>5. CASE CrashHandler(c)
    BY <2>5 DEF TypeOK, CrashHandler, table
  <2> QED
    BY <1>1, <2>1, <2>2, <2>3, <2>4, <2>5 DEF Submission
<1>2. ASSUME NEW w \in Workers, Work(w) PROVE TypeOK'
  <2>1. ASSUME NEW j \in Jobs, ClaimNextJob(w, j) PROVE TypeOK'
    <3>1. job[j].attempts + 1 \in Nat
      BY DEF TypeOK, JobRow
    <3> QED
      BY <2>1, <3>1 DEF TypeOK, ClaimNextJob, Lease, UploadStatus
  <2>2. CASE SubmitResult(w)
    <3>1. Sent("result", worker[w].job, worker[w].attempt, FALSE) \in Call
      BY SentOK DEF TypeOK
    <3> QED
      BY <2>2, <3>1 DEF TypeOK, SubmitResult, table
  <2>3. ASSUME NEW retryable \in BOOLEAN, ReportFailure(w, retryable) PROVE TypeOK'
    <3>1. Sent("failure", worker[w].job, worker[w].attempt, retryable) \in Call
      BY SentOK DEF TypeOK
    <3> QED
      BY <2>3, <3>1 DEF TypeOK, ReportFailure, table
  <2>4. CASE ResultAccepted(w)
    BY <2>4 DEF TypeOK, ResultAccepted, table
  <2>5. CASE CrashWorker(w)
    BY <2>5 DEF TypeOK, CrashWorker, table
  <2> QED
    BY <1>2, <2>1, <2>2, <2>3, <2>4, <2>5 DEF Work
<1>3. ASSUME NEW j \in Jobs, ClaimUnserved(j) PROVE TypeOK'
  <2>1. Sent("failure", j, job[j].attempts + 1, TRUE) \in Call
    <3>1. job[j].attempts + 1 \in Nat
      BY DEF TypeOK, JobRow
    <3> QED
      BY <3>1, SentOK
  <2> QED
    BY <1>3, <2>1 DEF TypeOK, ClaimUnserved, Lease, UploadStatus
<1>4. ASSUME NEW j \in Jobs, Tick(j) PROVE TypeOK'
  <2>1. job' \in [Jobs -> JobRow]
    <3>1. CASE LeaseExpires(j)
      BY <3>1 DEF LeaseExpires, TypeOK, JobRow
    <3>2. CASE BackoffElapses(j)
      <4> DEFINE row == [job[j] EXCEPT !.due = TRUE]
      <4>1. row \in JobRow
        <5>1. job[j] \in JobRow
          BY DEF TypeOK
        <5> QED
          BY <5>1 DEF JobRow, JobStatus
      <4>2. job' = [job EXCEPT ![j] = row]
        BY <3>2 DEF BackoffElapses
      <4> HIDE DEF row
      <4> QED
        BY <4>1, <4>2 DEF TypeOK
    <3> QED
      BY <1>4, <3>1, <3>2 DEF Tick
  <2> QED
    BY <1>4, <2>1 DEF TypeOK, Tick
<1>5. ASSUME NEW j \in Jobs, Administer(j) PROVE TypeOK'
  <2>1. CASE RequeueJob(j)
    BY <2>1, UploadAssumption DEF TypeOK, RequeueJob
  <2>2. CASE ConfirmBrochureUpload(j)
    BY <2>2 DEF TypeOK, ConfirmBrochureUpload, UploadStatus
  <2>3. CASE RejectBrochureUpload(j)
    BY <2>3 DEF TypeOK, RejectBrochureUpload, UploadStatus
  <2> QED
    BY <1>5, <2>1, <2>2, <2>3 DEF Administer
<1>6. ASSUME NEW m \in call, Handle(m) PROVE TypeOK'
  <2>1. CASE ApplyResult(m)
    BY <2>1 DEF TypeOK, ApplyResult, UploadStatus, Call
  <2>2. CASE MarkJobFailed(m)
    BY <2>2 DEF TypeOK, MarkJobFailed, Call
  <2>3. CASE ReadJobForUpload(m)
    <3>1. job[m.job].status \in JobStatus /\ m \in Call
      BY DEF TypeOK, Call, JobRow
    <3>2. [m EXCEPT !.step = "snapshot", !.saw = job[m.job].status] \in Call
      BY <3>1 DEF Call
    <3> QED
      BY <2>3, <3>2 DEF TypeOK, ReadJobForUpload, table
  <2>4. CASE MarkUploadFailed(m)
    BY <2>4 DEF TypeOK, MarkUploadFailed, UploadStatus, Call
  <2> QED
    BY <1>6, <2>1, <2>2, <2>3, <2>4 DEF Handle
<1>7. ASSUME NEW m \in call, LoseCall(m) PROVE TypeOK'
  BY <1>7 DEF TypeOK, LoseCall, table
<1>8. CASE UNCHANGED vars
  BY <1>8 DEF TypeOK, vars
<1> QED
  BY <1>1, <1>2, <1>3, <1>4, <1>5, <1>6, <1>7, <1>8 DEF Next
-----------------------------------------------------------------------------
(* What the inductive invariant says of one job. *)
JobInv(j) ==
    /\ upload[j] \in Reviewable => job[j].status = "succeeded"
    /\ published[j] > 0 => job[j].status = "succeeded" /\ upload[j] # "pending_review"
    /\ published[j] <= 1
    /\ job[j].status \in {"queued", "retrying"} => job[j].attempts < MaxAttempts + requeues[j]
    /\ job[j].attempts <= MaxAttempts + requeues[j]

LEMMA JobInvEquiv == IInv <=> TypeOK /\ \A j \in Jobs : JobInv(j)
  BY DEF IInv, JobInv, ReviewFollowsSuccess, PublishedIsDecided, PublishedAtMostOnce,
         WaitingHasAttempt, AttemptBudget

(* A step that leaves the rows and the counters of a job alone keeps what  *)
(* is said of it.                                                          *)
LEMMA JobInvFrame ==
    ASSUME NEW k \in Jobs, JobInv(k),
           job'[k] = job[k], upload'[k] = upload[k],
           published'[k] = published[k], requeues'[k] = requeues[k]
    PROVE  JobInv(k)'
  BY DEF JobInv

(* The lease of a claimable row. *)
LEMMA LeaseKeepsJobInv ==
    ASSUME TypeOK, NEW j \in Jobs, NEW k \in Jobs, JobInv(k), Lease(j),
           published' = published, requeues' = requeues
    PROVE  JobInv(k)'
<1>1. CASE k # j
  <2>1. job'[k] = job[k] /\ upload'[k] = upload[k]
    BY <1>1 DEF Lease, TypeOK
  <2> QED
    BY <2>1, JobInvFrame
<1>2. CASE k = j
  <2>1. /\ job[j].attempts \in Nat /\ requeues[j] \in Nat
        /\ job[j].status # "succeeded"
        /\ job[j].attempts < MaxAttempts + requeues[j]
    <3>1. job[j].attempts \in Nat /\ requeues[j] \in Nat
      BY UploadAssumption DEF TypeOK, JobRow
    <3> QED
      BY <1>2, <3>1, MaxAttemptsAssumption DEF Lease, ClaimableJob, JobInv
  <2>2. job'[j].status = "running" /\ job'[j].attempts = job[j].attempts + 1
    BY DEF Lease, ClaimedRow, TypeOK
  <2>3. upload'[j] \notin Reviewable /\ published[j] <= 1 /\ ~(published[j] > 0)
    BY <1>2, <2>1 DEF Lease, JobInv, Reviewable, TypeOK
  <2> QED
    BY <1>2, <2>1, <2>2, <2>3, MaxAttemptsAssumption DEF JobInv
<1> QED
  BY <1>1, <1>2

(* Every step keeps the inductive invariant. *)
LEMMA InductiveStep == IInv /\ [Next]_vars => IInv'
<1> SUFFICES ASSUME IInv, [Next]_vars PROVE IInv'
  OBVIOUS
<1>0. TypeOK /\ TypeOK'
  BY TypeStep DEF IInv
<1> SUFFICES ASSUME NEW k \in Jobs PROVE JobInv(k)'
  BY <1>0, JobInvEquiv DEF IInv, JobInv, ReviewFollowsSuccess, PublishedIsDecided,
     PublishedAtMostOnce, WaitingHasAttempt, AttemptBudget
<1>k. JobInv(k)
  BY JobInvEquiv
<1>n. /\ job[k].attempts \in Nat /\ requeues[k] \in Nat /\ published[k] \in Nat
      /\ MaxAttempts \in Nat /\ MaxAttempts > 0
  BY <1>0, UploadAssumption, MaxAttemptsAssumption DEF TypeOK, JobRow
<1>1. ASSUME NEW c \in Clients, Submission(c) PROVE JobInv(k)'
  <2>1. CASE QueueUploadedBrochure(c)
    <3> DEFINE j == intake[c].job
    <3>1. CASE k = j /\ job[j].status = "absent"
      <4>1. /\ job'[k] = QueuedRow /\ upload'[k] = "queued"
            /\ published'[k] = published[k] /\ requeues'[k] = requeues[k]
        BY <2>1, <3>1, <1>0 DEF QueueUploadedBrochure, TypeOK
      <4>2. published[k] = 0
        BY <3>1, <1>k, <1>n DEF JobInv
      <4> QED
        BY <4>1, <4>2, <1>n DEF JobInv, QueuedRow, NoRow, Reviewable
    <3>2. CASE ~(k = j /\ job[j].status = "absent")
      BY <2>1, <3>2, <1>0, <1>k, JobInvFrame DEF QueueUploadedBrochure, TypeOK
    <3> QED
      BY <3>1, <3>2
  <2>2. CASE UNCHANGED <<job, upload, published, requeues>>
    BY <2>2, <1>k, JobInvFrame
  <2> QED
    BY <1>1, <2>1, <2>2 DEF Submission, StoreFile, QueueFails, RemoveFile, CrashHandler, table
<1>2. ASSUME NEW w \in Workers, Work(w) PROVE JobInv(k)'
  <2>1. ASSUME NEW j \in Jobs, ClaimNextJob(w, j) PROVE JobInv(k)'
    BY <2>1, <1>0, <1>k, LeaseKeepsJobInv DEF ClaimNextJob
  <2>2. CASE UNCHANGED <<job, upload, published, requeues>>
    BY <2>2, <1>k, JobInvFrame
  <2> QED
    BY <1>2, <2>1, <2>2 DEF Work, SubmitResult, ReportFailure, ResultAccepted, CrashWorker, table
<1>3. ASSUME NEW j \in Jobs, ClaimUnserved(j) PROVE JobInv(k)'
  BY <1>3, <1>0, <1>k, LeaseKeepsJobInv DEF ClaimUnserved
<1>4. ASSUME NEW j \in Jobs, Tick(j) PROVE JobInv(k)'
  <2>1. job'[k].status = job[k].status /\ job'[k].attempts = job[k].attempts
    <3>1. CASE LeaseExpires(j)
      BY <3>1, <1>0 DEF LeaseExpires, TypeOK, JobRow
    <3>2. CASE BackoffElapses(j)
      BY <3>2, <1>0 DEF BackoffElapses, TypeOK, JobRow
    <3> QED
      BY <1>4, <3>1, <3>2 DEF Tick
  <2> QED
    BY <1>4, <2>1, <1>k DEF Tick, JobInv
<1>5. ASSUME NEW j \in Jobs, Administer(j) PROVE JobInv(k)'
  <2>1. CASE RequeueJob(j)
    <3>1. CASE k = j
      <4>1. /\ job'[k].status = "queued" /\ job'[k].attempts = job[k].attempts
            /\ requeues'[k] = requeues[k] + 1 /\ job[k].status # "succeeded"
            /\ upload'[k] = upload[k] /\ published'[k] = published[k]
        BY <2>1, <3>1, <1>0 DEF RequeueJob, RequeuedRow, CanRequeue, TypeOK, JobRow
      <4> QED
        BY <4>1, <1>k, <1>n DEF JobInv
    <3>2. CASE k # j
      BY <2>1, <3>2, <1>0, <1>k, JobInvFrame DEF RequeueJob, TypeOK
    <3> QED
      BY <3>1, <3>2
  <2>2. CASE ConfirmBrochureUpload(j)
    <3>1. CASE k = j
      <4>1. /\ upload[k] = "pending_review" /\ upload'[k] = "approved"
            /\ published'[k] = published[k] + 1
            /\ job' = job /\ requeues' = requeues
        BY <2>2, <3>1, <1>0 DEF ConfirmBrochureUpload, TypeOK
      <4>2. published[k] = 0
        BY <4>1, <1>k, <1>n DEF JobInv
      <4> QED
        BY <4>1, <4>2, <1>k, <1>n DEF JobInv, Reviewable
    <3>2. CASE k # j
      BY <2>2, <3>2, <1>0, <1>k, JobInvFrame DEF ConfirmBrochureUpload, TypeOK
    <3> QED
      BY <3>1, <3>2
  <2>3. CASE RejectBrochureUpload(j)
    BY <2>3, <1>0, <1>k DEF RejectBrochureUpload, TypeOK, JobInv, Reviewable
  <2> QED
    BY <1>5, <2>1, <2>2, <2>3 DEF Administer
<1>6. ASSUME NEW m \in call, Handle(m) PROVE JobInv(k)'
  <2>0. m.job \in Jobs /\ m.retryable \in BOOLEAN
    BY <1>0 DEF TypeOK, Call
  <2>1. CASE ApplyResult(m)
    <3>1. CASE k = m.job /\ job[k].status # "succeeded"
      <4>1. /\ job'[k].status = "succeeded" /\ job'[k].attempts = job[k].attempts
            /\ published'[k] = published[k] /\ requeues'[k] = requeues[k]
        BY <2>1, <3>1, <1>0 DEF ApplyResult, SucceededRow, TypeOK, JobRow
      <4>2. published[k] = 0
        BY <3>1, <1>k, <1>n DEF JobInv
      <4> QED
        BY <4>1, <4>2, <1>k, <1>n DEF JobInv
    <3>2. CASE ~(k = m.job /\ job[k].status # "succeeded")
      BY <2>1, <3>2, <2>0, <1>0, <1>k, JobInvFrame DEF ApplyResult, TypeOK
    <3> QED
      BY <3>1, <3>2
  <2>2. CASE MarkJobFailed(m)
    <3>1. CASE k = m.job /\ job[k].status # "succeeded"
      <4>1. job'[k] = FailedRow(job[k], m.retryable)
        BY <2>2, <3>1, <1>0 DEF MarkJobFailed, TypeOK
      <4>2. /\ job'[k].attempts = job[k].attempts
            /\ job'[k].status = IF m.retryable /\ job[k].attempts < MaxAttempts
                                THEN "retrying" ELSE "failed"
        BY <4>1, <1>0 DEF FailedRow, TypeOK, JobRow
      <4>3. UNCHANGED <<upload, published, requeues>>
        BY <2>2 DEF MarkJobFailed
      <4>4. published[k] = 0 /\ upload[k] \notin Reviewable
        BY <3>1, <1>k, <1>n DEF JobInv
      <4> QED
        BY <4>2, <4>3, <4>4, <1>k, <1>n DEF JobInv
    <3>2. CASE ~(k = m.job /\ job[k].status # "succeeded")
      BY <2>2, <3>2, <2>0, <1>0, <1>k, JobInvFrame DEF MarkJobFailed, TypeOK
    <3> QED
      BY <3>1, <3>2
  <2>3. CASE ReadJobForUpload(m)
    BY <2>3, <1>k, JobInvFrame DEF ReadJobForUpload, table
  <2>4. CASE MarkUploadFailed(m)
    BY <2>4, <2>0, <1>0, <1>k DEF MarkUploadFailed, TypeOK, JobInv, Reviewable
  <2> QED
    BY <1>6, <2>1, <2>2, <2>3, <2>4 DEF Handle
<1>7. ASSUME NEW m \in call, LoseCall(m) PROVE JobInv(k)'
  BY <1>7, <1>k, JobInvFrame DEF LoseCall, table
<1>8. CASE UNCHANGED vars
  BY <1>8, <1>k, JobInvFrame DEF vars
<1> QED
  BY <1>1, <1>2, <1>3, <1>4, <1>5, <1>6, <1>7, <1>8 DEF Next
-----------------------------------------------------------------------------
(***************************************************************************)
(* The theorems.                                                           *)
(***************************************************************************)

(* The inductive invariant holds of every state of the upload pipeline. *)
THEOREM Invariance == Spec => []IInv
<1>1. Init => IInv
  BY InitOK
<1>2. IInv /\ [Next]_vars => IInv'
  BY InductiveStep
<1> QED
  BY <1>1, <1>2, PTL DEF Spec

(* The rows, files, workers and callbacks of the pipeline are always what  *)
(* the tables and the handlers allow.                                      *)
THEOREM TypeCorrect == Spec => []TypeOK
<1>1. IInv => TypeOK
  BY DEF IInv
<1> QED
  BY <1>1, Invariance, PTL

(* MarkJobFailure, ClaimNextJob, RequeueJob and the result handler never   *)
(* leave an upload in review, approved or rejected whose job has not       *)
(* succeeded.                                                              *)
THEOREM ReviewsAreOfFinishedJobs == Spec => []ReviewFollowsSuccess
<1>1. IInv => ReviewFollowsSuccess
  BY DEF IInv
<1> QED
  BY <1>1, Invariance, PTL

(* ConfirmBrochureUpload publishes the brochure of an upload at most once, *)
(* for any number of duplicate results, late failures and retries.         *)
THEOREM PublishesOnce == Spec => []PublishedAtMostOnce
<1>1. IInv => PublishedAtMostOnce
  BY DEF IInv
<1> QED
  BY <1>1, Invariance, PTL

(* A job is leased at most max_attempts times, plus one for each retry of  *)
(* an administrator.                                                       *)
THEOREM AttemptsBounded == Spec => []AttemptBudget
<1>1. IInv => AttemptBudget
  BY DEF IInv
<1> QED
  BY <1>1, Invariance, PTL

(* The upload of a job that has succeeded never enters review again. *)
THEOREM ReviewNotReopened == Spec => ReviewOpensOnce
<1> DEFINE Opens ==
      \A j \in Jobs :
          /\ job[j].status = "succeeded"
          /\ upload'[j] = "pending_review"
          => upload[j] = "pending_review"
<1>1. TypeOK /\ [Next]_vars => Opens
  <2> SUFFICES ASSUME TypeOK, [Next]_vars, NEW j \in Jobs,
                      job[j].status = "succeeded", upload[j] # "pending_review"
               PROVE  upload'[j] # "pending_review"
    OBVIOUS
  <2>1. ASSUME NEW i \in Jobs, Lease(i) PROVE upload'[j] # "pending_review"
    BY <2>1 DEF Lease, TypeOK
  <2>2. ASSUME NEW c \in Clients, Submission(c) PROVE upload'[j] # "pending_review"
    BY <2>2 DEF Submission, StoreFile, QueueUploadedBrochure, QueueFails, RemoveFile,
                CrashHandler, table, TypeOK
  <2>3. ASSUME NEW w \in Workers, Work(w) PROVE upload'[j] # "pending_review"
    BY <2>3, <2>1 DEF Work, ClaimNextJob, SubmitResult, ReportFailure, ResultAccepted,
                      CrashWorker, table
  <2>4. ASSUME NEW i \in Jobs, ClaimUnserved(i) \/ Tick(i) \/ Administer(i)
        PROVE  upload'[j] # "pending_review"
    BY <2>4, <2>1 DEF ClaimUnserved, Tick, Administer, RequeueJob, ConfirmBrochureUpload,
                      RejectBrochureUpload, TypeOK
  <2>5. ASSUME NEW m \in call, Handle(m) \/ LoseCall(m)
        PROVE  upload'[j] # "pending_review"
    BY <2>5 DEF Handle, ApplyResult, MarkJobFailed, ReadJobForUpload, MarkUploadFailed,
                LoseCall, table, TypeOK
  <2>6. CASE UNCHANGED vars
    BY <2>6 DEF vars
  <2> QED
    BY <2>2, <2>3, <2>4, <2>5, <2>6 DEF Next
<1>2. TypeOK /\ [Next]_vars => [Opens]_vars
  BY <1>1
<1> QED
  BY <1>2, TypeCorrect, PTL DEF Spec, ReviewOpensOnce
=============================================================================

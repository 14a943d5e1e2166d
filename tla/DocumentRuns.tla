---------------------------- MODULE DocumentRuns ----------------------------
(***************************************************************************)
(* The extraction of documents whose year and school are known before they *)
(* are read: a brochure the discovery stored, whose candidates are         *)
(* reviewed one by one (brochure_extraction_runs), and a candidate list.   *)
(* Package backend/internal/ingestion with its two transports: Python      *)
(* workers that claim over HTTP, or a RabbitMQ queue on the way there and  *)
(* another on the way back.  Deployments use one of them.                  *)
(*                                                                         *)
(* A document stands for what its storage key is made of: its year,        *)
(* school, kind and hash.  It names its row of ingestion_jobs (Jobs), the  *)
(* idempotency key of which is made of the same, and its run.              *)
(***************************************************************************)
EXTENDS ExtractionJobs, Sequences, FiniteSets

CONSTANTS Lists,        \* the documents that are candidate lists
          Programs,     \* programme codes a brochure may hold
          Workers,      \* Python workers
          Requests,     \* concurrent requests that queue or retry a job
          MaxRequests,  \* bound: requests altogether
          NoDocument          \* no document

VARIABLES
    transport,  \* "http" or "broker"
    made,       \* the jobs in the order of created_at
    named,      \* named[d]: the payload of d's row holds the identifier of the row
    run,        \* run[d]: the status of brochure_extraction_runs
    candidate,  \* candidate[d][p]: review_status of what was extracted for p
    request,    \* request[r]: what r still has to do with the broker
    work,       \* work[w]: the document a worker of the HTTP transport reads
    queue,      \* messages of the extraction queue
    reports,    \* results and failures on their way to the API
    requests    \* how many requests there were

runVars == <<job, transport, made, named, run, candidate, request, work, queue, reports, requests>>

Decided == {"approved", "rejected"}

Message == [doc : Jobs, own : BOOLEAN]   \* own: job_id is that of the row

Report == [op : {"result", "failure"}, doc : Jobs, own : BOOLEAN, retryable : BOOLEAN]

ResultOf(m) == [op |-> "result", doc |-> m.doc, own |-> m.own, retryable |-> FALSE]

FailureOf(d, retryable) ==
    [op |-> "failure", doc |-> d, own |-> TRUE, retryable |-> retryable]

Idle == [pc |-> "idle", doc |-> NoDocument, own |-> FALSE]

DocumentsTypeOK ==
    /\ job \in [Jobs -> JobRow]
    /\ transport \in {"http", "broker"}
    /\ made \in Seq(Jobs)
    /\ named \in [Jobs -> BOOLEAN]
    /\ run \in [Jobs -> {"none", "processing", "pending_review"} \cup Decided]
    /\ candidate \in [Jobs -> [Programs -> {"none", "pending"} \cup Decided]]
    /\ request \in [Requests -> [pc : {"idle", "publish", "sent", "refused"},
                                 doc : Jobs \cup {NoDocument}, own : BOOLEAN]]
    /\ work \in [Workers -> Jobs \cup {NoDocument}]
    /\ queue \subseteq Message
    /\ reports \subseteq Report
    /\ requests \in Nat
    /\ \A d \in Jobs : job[d].status = "absent" <=> d \notin {made[i] : i \in DOMAIN made}

RunsInit ==
    /\ job = [d \in Jobs |-> NoRow]
    /\ transport \in {"http", "broker"}
    /\ made = <<>>
    /\ named = [d \in Jobs |-> FALSE]
    /\ run = [d \in Jobs |-> "none"]
    /\ candidate = [d \in Jobs |-> [p \in Programs |-> "none"]]
    /\ request = [r \in Requests |-> Idle]
    /\ work = [w \in Workers |-> NoDocument]
    /\ queue = {} /\ reports = {} /\ requests = 0
-----------------------------------------------------------------------------
(* Faulty variants of the definitions below, which the runs must reject: a *)
(* second submission that starts a finished job again, a run that every    *)
(* submission puts under processing.                                       *)
SubmittedAgain(d) == IF job[d].status = "absent" THEN QueuedRow ELSE RequeuedRow(job[d])

ProcessedAgain(d) == "processing"

-----------------------------------------------------------------------------
(* queueDocumentJob: a repeated submission leaves a running or a finished  *)
(* job as it is and queues any other again - under the identifier of the   *)
(* new submission, in a row that keeps its own.                            *)
Submitted(d) ==
    CASE job[d].status = "absent" -> QueuedRow
      [] job[d].status \in {"succeeded", "running"} -> [job[d] EXCEPT !.due = TRUE]
      [] OTHER -> RequeuedRow(job[d])

KeepsPayload(d) == job[d].status \in {"succeeded", "running"}

RunOf(d) == IF run[d] = "none" THEN "processing" ELSE run[d]

QueueDocument(r, d) ==
    LET own == IF KeepsPayload(d) THEN named[d] ELSE job[d].status = "absent"
    IN  /\ request[r].pc = "idle" /\ requests < MaxRequests
        /\ requests' = requests + 1
        /\ job' = [job EXCEPT ![d] = Submitted(d)]
        /\ named' = [named EXCEPT ![d] = own]
        /\ made' = IF job[d].status = "absent" THEN Append(made, d) ELSE made
        /\ run' = IF d \in Lists THEN run ELSE [run EXCEPT ![d] = RunOf(d)]
        /\ request' = IF transport = "broker" /\ job'[d].status = "queued"
                      THEN [request EXCEPT ![r] = [pc |-> "publish", doc |-> d, own |-> own]]
                      ELSE request
        /\ UNCHANGED <<transport, candidate, work, queue, reports>>

(* RetryJob, for an administrator: the row is queued again as it is. *)
RequeueDocument(r, d) ==
    /\ request[r].pc = "idle" /\ requests < MaxRequests
    /\ CanRequeue(job[d])
    /\ requests' = requests + 1
    /\ job' = [job EXCEPT ![d] = RequeuedRow(@)]
    /\ request' = IF transport = "broker"
                  THEN [request EXCEPT ![r] = [pc |-> "publish", doc |-> d, own |-> named[d]]]
                  ELSE request
    /\ UNCHANGED <<transport, made, named, run, candidate, work, queue, reports>>

(* Broker.Publish asks for no confirmation: what it reports as sent may be *)
(* lost with the connection, and what it reports as failed may arrive.     *)
Publish(r, answer, arrives) ==
    /\ request[r].pc = "publish"
    /\ request' = [request EXCEPT ![r].pc = answer]
    /\ queue' = IF arrives THEN queue \cup {[doc |-> request[r].doc, own |-> request[r].own]}
                ELSE queue
    /\ UNCHANGED <<job, transport, made, named, run, candidate, work, reports, requests>>

(* markDispatchStarted and markDispatchFailed find the row by the          *)
(* identifier of the message, and do not ask what became of the job since. *)
Started(row) ==
    IF row.status = "succeeded" THEN [row EXCEPT !.due = TRUE]
    ELSE [row EXCEPT !.status = "running", !.attempts = @ + 1, !.due = TRUE]

Undelivered(row) ==
    IF row.status = "succeeded" THEN row
    ELSE [row EXCEPT !.status = "retrying", !.due = FALSE]

MarkDispatch(r) ==
    LET d == request[r].doc
        row == IF request[r].pc = "sent" THEN Started(job[d]) ELSE Undelivered(job[d])
    IN  /\ request[r].pc \in {"sent", "refused"}
        /\ request' = [request EXCEPT ![r] = Idle]
        /\ job' = IF request[r].own THEN [job EXCEPT ![d] = row] ELSE job
        /\ UNCHANGED <<transport, made, named, run, candidate, work, queue, reports, requests>>

(* The process ends, or the update fails: the row stays as it is. *)
RequestEnds(r) ==
    /\ request[r].pc # "idle"
    /\ request' = [request EXCEPT ![r] = Idle]
    /\ UNCHANGED <<job, transport, made, named, run, candidate, work, queue, reports, requests>>

-----------------------------------------------------------------------------
(* ClaimNextJob looks at the oldest row of the kind a worker asks for that *)
(* no other claim has locked, and refuses it when its payload names        *)
(* another job: the transaction is rolled back and the row stays first.    *)
Older(d) ==
    LET at(e) == CHOOSE i \in DOMAIN made : made[i] = e
    IN  {e \in Jobs : /\ ClaimableJob(job[e]) /\ (e \in Lists) = (d \in Lists)
                      /\ at(e) < at(d)}

ClaimDocument(w, d) ==
    /\ transport = "http" /\ work[w] = NoDocument
    /\ ClaimableJob(job[d]) /\ Cardinality(Older(d)) < Cardinality(Workers)
    /\ named[d]
    /\ job' = [job EXCEPT ![d] = ClaimedRow(@)]
    /\ work' = [work EXCEPT ![w] = d]
    /\ UNCHANGED <<transport, made, named, run, candidate, request, queue, reports, requests>>

(* A worker ends in a result, in a failure, in both when the answer to the *)
(* result was lost, or in neither when it dies.                            *)
WorkEnds(w, said) ==
    /\ work[w] # NoDocument
    /\ work' = [work EXCEPT ![w] = NoDocument]
    /\ reports' = reports \cup said
    /\ UNCHANGED <<job, transport, made, named, run, candidate, request, queue, requests>>

WorkDone(w) ==
    LET result == ResultOf([doc |-> work[w], own |-> TRUE])
    IN  \E said \in {{}, {result}} \cup
                    {{FailureOf(work[w], retryable)} : retryable \in BOOLEAN} \cup
                    {{result, FailureOf(work[w], TRUE)}} : WorkEnds(w, said)

(* The callback of a worker behind the broker: it publishes the result and *)
(* acknowledges the message, which is delivered again when the             *)
(* acknowledgement is lost; or it gives the message to the dead letters,   *)
(* of which nobody tells the API.                                          *)
Extract(m, again) ==
    /\ m \in queue
    /\ reports' = reports \cup {ResultOf(m)}
    /\ queue' = IF again THEN queue ELSE queue \ {m}
    /\ UNCHANGED <<job, transport, made, named, run, candidate, request, work, requests>>

DeadLetter(m) ==
    /\ m \in queue
    /\ queue' = queue \ {m}
    /\ UNCHANGED <<job, transport, made, named, run, candidate, request, work, reports, requests>>

-----------------------------------------------------------------------------
(* A report reaches the API.  The result worker of the broker acknowledges *)
(* after it applied one, so that it may see it again; a call is made once, *)
(* or lost.                                                                *)
Received(m, again) ==
    /\ m \in reports
    /\ again => transport = "broker"
    /\ reports' = IF again THEN reports ELSE reports \ {m}

AppliedRow(d) ==
    [job[d] EXCEPT !.status = "succeeded", !.due = TRUE,
                   !.lock = IF d \in Lists THEN "null" ELSE @]

(* ApplyExtractionResult, and for a list the end of                        *)
(* ApplyCandidateListExtractionResult: an unknown identifier changes       *)
(* nothing, neither does a job that has succeeded.                         *)
ApplyResult(m, found, again) ==
    LET d == m.doc
        new == m.own /\ job[d].status # "succeeded"
        reviewed == new /\ d \notin Lists
    IN  /\ m.op = "result" /\ Received(m, again)
        /\ job' = IF new THEN [job EXCEPT ![d] = AppliedRow(d)] ELSE job
        /\ run' = IF reviewed THEN [run EXCEPT ![d] = "pending_review"] ELSE run
        /\ candidate' = IF reviewed
                        THEN [candidate EXCEPT ![d] =
                                [p \in Programs |-> IF p \in found /\ @[p] = "none"
                                                    THEN "pending" ELSE @[p]]]
                        ELSE candidate
        /\ UNCHANGED <<transport, made, named, request, work, queue, requests>>

(* The results refuse a list: its batch is closed, or its rows contradict  *)
(* each other.  The result worker marks the job, the caller over HTTP      *)
(* reports a failure of its own.                                           *)
RefuseResult(m) ==
    LET d == m.doc
        fails == transport = "broker" /\ m.own /\ job[d].status # "succeeded"
    IN  /\ m.op = "result" /\ d \in Lists
        /\ m \in reports
        /\ reports' = (reports \ {m}) \cup
                      (IF transport = "http" THEN {FailureOf(d, FALSE)} ELSE {})
        /\ job' = IF fails THEN [job EXCEPT ![d] = FailedRow(@, FALSE)] ELSE job
        /\ UNCHANGED <<transport, made, named, run, candidate, request, work, queue, requests>>

(* MarkJobFailure does not ask which attempt failed. *)
MarkJobFailure(m) ==
    /\ m.op = "failure" /\ Received(m, FALSE)
    /\ job' = IF job[m.doc].status = "succeeded" THEN job
              ELSE [job EXCEPT ![m.doc] = FailedRow(@, m.retryable)]
    /\ UNCHANGED <<transport, made, named, run, candidate, request, work, queue, requests>>

-----------------------------------------------------------------------------
(* ReviewRun only rejects; it closes what is still open of the run. *)
RejectRun(d) ==
    /\ run[d] = "pending_review"
    /\ run' = [run EXCEPT ![d] = "rejected"]
    /\ candidate' = [candidate EXCEPT ![d] =
                        [p \in Programs |-> IF @[p] = "pending" THEN "rejected" ELSE @[p]]]
    /\ UNCHANGED <<job, transport, made, named, request, work, queue, reports, requests>>

(* What ReviewCandidate makes of a run of which nothing is open. *)
Outcome(reviews) ==
    IF \E q \in Programs : reviews[q] = "rejected" THEN "rejected" ELSE "approved"

ReviewCandidate(d, p, decision) ==
    LET reviews == [candidate[d] EXCEPT ![p] = decision]
    IN  /\ run[d] = "pending_review" /\ candidate[d][p] = "pending"
        /\ candidate' = [candidate EXCEPT ![d] = reviews]
        /\ run' = IF \E q \in Programs : reviews[q] = "pending" THEN run
                  ELSE [run EXCEPT ![d] = Outcome(reviews)]
        /\ UNCHANGED <<job, transport, made, named, request, work, queue, reports, requests>>

-----------------------------------------------------------------------------
Asks ==
    \E r \in Requests :
        \/ \E d \in Jobs : QueueDocument(r, d) \/ RequeueDocument(r, d)
        \/ \E answer \in {"sent", "refused"}, arrives \in BOOLEAN : Publish(r, answer, arrives)
        \/ MarkDispatch(r)
        \/ RequestEnds(r)

Works ==
    \/ \E w \in Workers : WorkDone(w) \/ \E d \in Jobs : ClaimDocument(w, d)
    \/ \E m \in queue : DeadLetter(m) \/ \E again \in BOOLEAN : Extract(m, again)

Reports ==
    \E m \in reports :
        \/ \E found \in SUBSET Programs, again \in BOOLEAN : ApplyResult(m, found, again)
        \/ RefuseResult(m)
        \/ MarkJobFailure(m)

Reviews ==
    \E d \in Jobs :
        \/ RejectRun(d)
        \/ \E p \in Programs, decision \in Decided : ReviewCandidate(d, p, decision)

Time == /\ \E d \in Jobs : LeaseExpires(d) \/ BackoffElapses(d)
        /\ UNCHANGED <<transport, made, named, run, candidate, request, work, queue,
                       reports, requests>>

RunsNext == Asks \/ Works \/ Reports \/ Reviews \/ Time

RunsSpec == RunsInit /\ [][RunsNext]_runVars

(* The workers of both transports and the result worker go on; the clock   *)
(* does.  Nobody has to ask a second time.                                 *)
RunsFairness ==
    /\ \A w \in Workers : WF_runVars(WorkDone(w)) /\ WF_runVars(\E d \in Jobs : ClaimDocument(w, d))
    /\ WF_runVars(\E m \in queue : Extract(m, FALSE))
    /\ WF_runVars(\E m \in reports : MarkJobFailure(m)
                                  \/ \E found \in SUBSET Programs : ApplyResult(m, found, FALSE))
    /\ \A r \in Requests : WF_runVars(MarkDispatch(r))
    /\ WF_runVars(Time)

FairRuns == RunsSpec /\ RunsFairness
-----------------------------------------------------------------------------
(***************************************************************************)
(* Properties                                                              *)
(***************************************************************************)

(* A run and its job tell the same: a brochure's job has succeeded exactly *)
(* when there is something to review or to look back on, and a decision of *)
(* the run agrees with the decisions of its candidates, whatever is        *)
(* submitted, delivered and reviewed twice (ApplyExtractionResult,         *)
(* queueDocumentJob, ReviewCandidate, ReviewRun).                          *)
RunsAgree ==
    \A d \in Jobs \ Lists :
        /\ job[d].status = "succeeded" <=> run[d] \in {"pending_review"} \cup Decided
        /\ run[d] \in Decided => \A p \in Programs : candidate[d][p] # "pending"
        /\ run[d] = "approved" => \A p \in Programs : candidate[d][p] # "rejected"

(* Jobs, runs and reviews of documents agree, and their state is of its    *)
(* type (ApplyExtractionResult, queueDocumentJob, ReviewCandidate,         *)
(* ReviewRun).                                                             *)
RunsHold == DocumentsTypeOK /\ RunsAgree

(* What administrators decided about a run and its candidates is final: no *)
(* later submission, retry, late failure or repeated result opens it again *)
(* (ApplyExtractionResult, the ON CONFLICT of queueDocumentJob).           *)
DecisionsStand ==
    [][\A d \in Jobs :
          /\ run[d] \in Decided => run'[d] = run[d]
          /\ \A p \in Programs :
                candidate[d][p] \in Decided => candidate'[d][p] = candidate[d][p]]_runVars

(* "The database job is durable and idempotent": a job that waits for a    *)
(* worker is one that ClaimNextJob accepts, also after its document was    *)
(* submitted again (service.go:42).  The code breaks it.                   *)
WaitingIsAccepted ==
    \A d \in Jobs : transport = "http" /\ ClaimableJob(job[d]) => named[d]

(* A document that waits behind another one is reached (ClaimNextJob).     *)
(* The code breaks it, as a refused row stays first.                       *)
QueueMoves ==
    \A d \in Jobs : (transport = "http" /\ named[d] /\ job[d].status = "queued")
                        ~> (job[d].status # "queued" \/ ~named[d])

(* "extraction was stored and will be retried" (writeExternalError): a job *)
(* whose message could not be sent is sent again.  Nobody does.            *)
RetryingIsRetried ==
    \A d \in Jobs : (job[d].status = "retrying" /\ named[d])
                        ~> (job[d].status # "retrying" \/ ~named[d])

(* A job of the broker that is shown as running is on its way somewhere.   *)
(* markDispatchStarted breaks it, and so do the dead letters.              *)
RunningIsUnderway ==
    \A d \in Jobs : transport = "broker" /\ job[d].status = "running" =>
        \/ \E m \in queue \cup reports : m.doc = d
        \/ \E r \in Requests : request[r].pc # "idle" /\ request[r].doc = d
=============================================================================

------------------------- MODULE BrochureDiscovery -------------------------
(***************************************************************************)
(* The search for the brochure of each school in an academic year (package *)
(* backend/internal/brochurediscovery): the cycles an administrator opens  *)
(* and closes, one task per school, the agents that lease tasks and send   *)
(* the PDF they found, and the document of the school, which the brochure  *)
(* pages (package admissions) write as well.                               *)
(*                                                                         *)
(* A task and a document are named by <<year, school>>.  Every database    *)
(* transaction is one step.  The handler of a candidate is several: it     *)
(* stores the file, runs the transaction, and then removes a file.         *)
(***************************************************************************)
EXTENDS Naturals

CONSTANTS Years, Schools,
          Agents,
          Found,        \* the PDFs a search may find; their storage key is made from the hash
          Uploads,      \* files stored by the brochure pages, under fresh keys
          None,         \* no file
          MaxClaims,    \* bound: leases granted for one task
          Slow,         \* TRUE when a search may take longer than its lease
          ReadBack      \* how reading a committed task back may end: TRUE, or FALSE for an error

ASSUME DiscoveryAssumption ==
    /\ Found \cap Uploads = {}
    /\ None \notin Found \cup Uploads
    /\ MaxClaims \in Nat
    /\ Slow \in BOOLEAN
    /\ ReadBack \subseteq BOOLEAN

VARIABLES cycle,        \* cycle[y]: brochure_discovery_cycles.status
          task,         \* task[t]: the row of brochure_discovery_tasks
          doc,          \* doc[t]: the row of brochure_documents
          object,       \* object[t][f]: the object stored under the key of f for t
          agent,        \* agent[a]: what a does, and the lease it does it under
          call          \* calls of agents on their way to the API or half handled by it

vars == <<cycle, task, doc, object, agent, call>>

Task == Years \X Schools
File == Found \cup Uploads

TaskStatus == {"absent", "pending_search", "searching", "under_review",
               "completed", "needs_attention"}

(* next_search_at is NULL, in the future or past; it is the end of a lease *)
(* and the end of a back-off alike.                                        *)
TaskRow == [status : TaskStatus, next : {"null", "future", "past"},
            attempts : 0..MaxClaims, candidate : File \cup {None},
            method : {"none", "agent", "manual", "no_brochure"}]

NoTask == [status |-> "absent", next |-> "null", attempts |-> 0,
           candidate |-> None, method |-> "none"]

DocRow == [status : {"absent", "pending", "published", "rejected", "archived"},
           file : File \cup {None}]

Call == [op : {"candidate", "no_match", "failure"}, task : Task, attempt : Nat,
         file : Found \cup {None}, step : {"sent", "put", "refused", "stored"},
         old : File \cup {None}]

Sent(op, a, f) ==
    [op |-> op, task |-> agent[a].task, attempt |-> agent[a].attempt,
     file |-> f, step |-> "sent", old |-> None]

TypeOK ==
    /\ cycle \in [Years -> {"absent", "draft", "active", "closed"}]
    /\ task \in [Task -> TaskRow]
    /\ doc \in [Task -> DocRow]
    /\ object \in [Task -> [File -> {"none", "stored", "removed"}]]
    /\ agent \in [Agents -> [pc : {"idle", "searching", "awaiting"},
                             task : Task, attempt : Nat]]
    /\ call \subseteq Call

Init ==
    /\ cycle = [y \in Years |-> "absent"]
    /\ task = [t \in Task |-> NoTask]
    /\ doc = [t \in Task |-> [status |-> "absent", file |-> None]]
    /\ object = [t \in Task |-> [f \in File |-> "none"]]
    /\ \E t \in Task : agent = [a \in Agents |-> [pc |-> "idle", task |-> t, attempt |-> 0]]
    /\ call = {}

Active(t) == cycle[t[1]] = "active"

Searching(t) == Active(t) /\ task[t].status = "searching"

-----------------------------------------------------------------------------
(* Faulty variants of the definitions below, which the runs must reject: a  *)
(* claim of new tasks only, a task given the status of its document, a      *)
(* deadline left behind by a failure, a replaced file removed first, a      *)
(* candidate stored for any task, a failure accepted for any task.          *)
ClaimableOnce(r) == r.status = "pending_search"

PendingCandidate(r, f) == [r EXCEPT !.status = "pending", !.next = "null", !.candidate = f]

NeedsAttentionLater(r) == [r EXCEPT !.status = "needs_attention"]

RemoveThenPut(m) ==
    LET old == doc[m.task].file
    IN  /\ m.op = "candidate" /\ m.step = "sent"
        /\ object' = [object EXCEPT ![m.task] =
                         [f \in File |-> IF f = m.file THEN "stored"
                                         ELSE IF f = old THEN "removed" ELSE @[f]]]
        /\ call' = (call \ {m}) \cup {[m EXCEPT !.step = "put"]}
        /\ UNCHANGED <<cycle, task, doc, agent>>

StoreForAny(m, read) ==
    LET t == m.task
    IN  /\ m.op = "candidate" /\ m.step = "put"
        /\ doc' = [doc EXCEPT ![t] = [status |-> "pending", file |-> m.file]]
        /\ call' = (call \ {m}) \cup
                      {IF read THEN [m EXCEPT !.step = "stored", !.old = doc[t].file]
                               ELSE [m EXCEPT !.step = "refused"]}
        /\ UNCHANGED <<cycle, task, object, agent>>

FailAny(m) ==
    /\ m.op = "failure"
    /\ task' = [task EXCEPT ![m.task].status = "needs_attention", ![m.task].next = "null"]
    /\ call' = call \ {m}
    /\ UNCHANGED <<cycle, doc, object, agent>>

-----------------------------------------------------------------------------
(* Cycles. *)
CreateCycle(y) ==
    /\ cycle[y] = "absent"
    /\ cycle' = [cycle EXCEPT ![y] = "draft"]
    /\ task' = [t \in Task |-> IF t[1] = y
                               THEN [NoTask EXCEPT !.status = "pending_search"]
                               ELSE task[t]]
    /\ UNCHANGED <<doc, object, agent, call>>

StartCycle(y) ==
    /\ cycle[y] = "draft"
    /\ \A z \in Years \ {y} : cycle[z] # "active"
    /\ cycle' = [cycle EXCEPT ![y] = "active"]
    /\ UNCHANGED <<task, doc, object, agent, call>>

CloseCycle(y) ==
    /\ cycle[y] = "active"
    /\ cycle' = [cycle EXCEPT ![y] = "closed"]
    /\ UNCHANGED <<task, doc, object, agent, call>>

-----------------------------------------------------------------------------
(* Agents.  ClaimNext prefers tasks nobody searched yet, but skips the     *)
(* rows another transaction has locked, so any claimable one may be next.  *)
Claimable(r) ==
    \/ r.status = "pending_search"
    \/ r.status = "searching" /\ r.next # "future"

LeasedRow(r) ==
    [status |-> "searching", next |-> "future", attempts |-> r.attempts + 1,
     candidate |-> r.candidate, method |-> r.method]

ClaimNext(a, t) ==
    /\ agent[a].pc = "idle"
    /\ Active(t)
    /\ Claimable(task[t])
    /\ task[t].attempts < MaxClaims
    /\ task' = [task EXCEPT ![t] = LeasedRow(@)]
    /\ agent' = [agent EXCEPT ![a] = [pc |-> "searching", task |-> t,
                                      attempt |-> task[t].attempts + 1]]
    /\ UNCHANGED <<cycle, doc, object, call>>

SendCandidate(a, f) ==
    /\ agent[a].pc = "searching"
    /\ agent' = [agent EXCEPT ![a].pc = "awaiting"]
    /\ call' = call \cup {Sent("candidate", a, f)}
    /\ UNCHANGED <<cycle, task, doc, object>>

SendNoMatch(a) ==
    /\ agent[a].pc = "searching"
    /\ agent' = [agent EXCEPT ![a].pc = "idle"]
    /\ call' = call \cup {Sent("no_match", a, None)}
    /\ UNCHANGED <<cycle, task, doc, object>>

(* The search fails, or the call that carries the candidate fails or times *)
(* out; what was sent may still be handled.                                *)
SendFailure(a) ==
    /\ agent[a].pc # "idle"
    /\ agent' = [agent EXCEPT ![a].pc = "idle"]
    /\ call' = call \cup {Sent("failure", a, None)}
    /\ UNCHANGED <<cycle, task, doc, object>>

CandidatePending(t, n) ==
    \E m \in call : m.op = "candidate" /\ m.task = t /\ m.attempt = n

CandidateAnswered(a) ==
    /\ agent[a].pc = "awaiting"
    /\ ~CandidatePending(agent[a].task, agent[a].attempt)
    /\ agent' = [agent EXCEPT ![a].pc = "idle"]
    /\ UNCHANGED <<cycle, task, doc, object, call>>

CrashAgent(a) ==
    /\ agent[a].pc # "idle"
    /\ agent' = [agent EXCEPT ![a].pc = "idle"]
    /\ UNCHANGED <<cycle, task, doc, object, call>>

(* The clock passes next_search_at. *)
Busy(t) ==
    \/ \E a \in Agents : agent[a].pc # "idle" /\ agent[a].task = t
    \/ \E m \in call : m.task = t

WaitElapses(t) ==
    /\ task[t].next = "future"
    /\ Slow \/ ~Busy(t)
    /\ task' = [task EXCEPT ![t].next = "past"]
    /\ UNCHANGED <<cycle, doc, object, agent, call>>

-----------------------------------------------------------------------------
(* agentCandidate.  The file is stored under a key made from its hash, then *)
(* StoreCandidateSystem runs; when that reports an error the handler removes *)
(* the file, and when it replaced another file it removes that one.         *)
PutCandidate(m) ==
    /\ m.op = "candidate" /\ m.step = "sent"
    /\ object' = [object EXCEPT ![m.task][m.file] = "stored"]
    /\ call' = (call \ {m}) \cup {[m EXCEPT !.step = "put"]}
    /\ UNCHANGED <<cycle, task, doc, agent>>

UnderReview(r, f) ==
    [r EXCEPT !.status = "under_review", !.next = "null", !.candidate = f]

(* The transaction commits, but the task cannot be read back when "read" is *)
(* FALSE: the handler then takes it for a failure.                          *)
StoreCandidate(m, read) ==
    LET t == m.task
    IN  /\ m.op = "candidate" /\ m.step = "put"
        /\ Searching(t)
        /\ task' = [task EXCEPT ![t] = UnderReview(@, m.file)]
        /\ doc' = [doc EXCEPT ![t] = [status |-> "pending", file |-> m.file]]
        /\ call' = (call \ {m}) \cup
                      {IF read THEN [m EXCEPT !.step = "stored", !.old = doc[t].file]
                               ELSE [m EXCEPT !.step = "refused"]}
        /\ UNCHANGED <<cycle, object, agent>>

RefuseCandidate(m) ==
    /\ m.op = "candidate" /\ m.step = "put"
    /\ ~Searching(m.task)
    /\ call' = (call \ {m}) \cup {[m EXCEPT !.step = "refused"]}
    /\ UNCHANGED <<cycle, task, doc, object, agent>>

RemoveCandidate(m) ==
    /\ m.op = "candidate" /\ m.step = "refused"
    /\ object' = [object EXCEPT ![m.task][m.file] = "removed"]
    /\ call' = call \ {m}
    /\ UNCHANGED <<cycle, task, doc, agent>>

RemoveReplaced(m) ==
    /\ m.op = "candidate" /\ m.step = "stored"
    /\ object' = IF m.old \in {None, m.file} THEN object
                 ELSE [object EXCEPT ![m.task][m.old] = "removed"]
    /\ call' = call \ {m}
    /\ UNCHANGED <<cycle, task, doc, agent>>

(* ReportNoMatchSystem and MarkFailureSystem: whoever reports, for whatever *)
(* lease.                                                                   *)
ReportNoMatch(m) ==
    LET t == m.task
    IN  /\ m.op = "no_match"
        /\ task' = IF Searching(t) THEN [task EXCEPT ![t].next = "future"] ELSE task
        /\ call' = call \ {m}
        /\ UNCHANGED <<cycle, doc, object, agent>>

NeedsAttention(r) == [r EXCEPT !.status = "needs_attention", !.next = "null"]

MarkFailure(m) ==
    LET t == m.task
    IN  /\ m.op = "failure"
        /\ task' = IF Searching(t) THEN [task EXCEPT ![t] = NeedsAttention(@)] ELSE task
        /\ call' = call \ {m}
        /\ UNCHANGED <<cycle, doc, object, agent>>

(* The call never arrives, a statement fails, or the API stops.             *)
LoseCall(m) ==
    /\ call' = call \ {m}
    /\ UNCHANGED <<cycle, task, doc, object, agent>>

-----------------------------------------------------------------------------
(* The administrator, on the discovery pages.                               *)
MarkFailureByAdmin(t) ==
    /\ Searching(t)
    /\ task' = [task EXCEPT ![t] = NeedsAttention(@)]
    /\ UNCHANGED <<cycle, doc, object, agent, call>>

SubmitCandidate(t) ==
    /\ Searching(t)
    /\ doc[t].status = "pending"
    /\ task' = [task EXCEPT ![t] = UnderReview(@, doc[t].file)]
    /\ UNCHANGED <<cycle, doc, object, agent, call>>

SearchAgain(r) == [r EXCEPT !.status = "searching", !.next = "past"]

Retry(t) ==
    /\ Active(t)
    /\ task[t].status = "needs_attention"
    /\ task' = [task EXCEPT ![t] = SearchAgain(@)]
    /\ UNCHANGED <<cycle, doc, object, agent, call>>

CompletedRow(r, how) == [r EXCEPT !.status = "completed", !.next = "null", !.method = how]

(* A cycle may be closed by then; the document is whichever is pending now. *)
Review(t, approved) ==
    /\ task[t].status = "under_review"
    /\ doc[t].status = "pending"
    /\ doc' = [doc EXCEPT ![t].status = IF approved THEN "published" ELSE "rejected"]
    /\ task' = [task EXCEPT ![t] = IF approved THEN CompletedRow(@, "agent")
                                   ELSE SearchAgain(@)]
    /\ UNCHANGED <<cycle, object, agent, call>>

CompleteManual(t) ==
    /\ task[t].status \notin {"absent", "completed"}
    /\ doc[t].status \in {"pending", "published"}
    /\ doc' = [doc EXCEPT ![t].status = "published"]
    /\ task' = [task EXCEPT ![t] = CompletedRow(@, "manual")]
    /\ UNCHANGED <<cycle, object, agent, call>>

ConfirmNoBrochure(t) ==
    /\ task[t].status \notin {"absent", "completed", "under_review"}
    /\ task' = [task EXCEPT ![t] = CompletedRow(@, "no_brochure")]
    /\ UNCHANGED <<cycle, doc, object, agent, call>>

-----------------------------------------------------------------------------
(* The brochure pages write the same documents: a direct upload replaces    *)
(* the document and waits for a review, a confirmed extraction replaces it  *)
(* and publishes it, and a document changes status on its own.  None of     *)
(* them removes the file it replaces.                                       *)
ReplaceDocument(t, f, status) ==
    /\ object[t][f] = "none"
    /\ object' = [object EXCEPT ![t][f] = "stored"]
    /\ doc' = [doc EXCEPT ![t] = [status |-> status, file |-> f]]
    /\ UNCHANGED <<cycle, task, agent, call>>

CreateBrochure(t, f) == f \in Uploads /\ ReplaceDocument(t, f, "pending")

PublishBrochureInTx(t, f) == f \in Uploads /\ ReplaceDocument(t, f, "published")

StatusChange == { <<"pending", "published">>, <<"pending", "rejected">>,
                  <<"published", "archived">>, <<"archived", "published">> }

ChangeBrochureStatus(t, to) ==
    /\ <<doc[t].status, to>> \in StatusChange
    /\ doc' = [doc EXCEPT ![t].status = to]
    /\ UNCHANGED <<cycle, task, object, agent, call>>

-----------------------------------------------------------------------------
Schedule(y) == CreateCycle(y) \/ StartCycle(y) \/ CloseCycle(y)

Search(a) ==
    \/ \E t \in Task : ClaimNext(a, t)
    \/ \E f \in Found : SendCandidate(a, f)
    \/ SendNoMatch(a)
    \/ SendFailure(a)
    \/ CandidateAnswered(a)
    \/ CrashAgent(a)

Handle(m) ==
    \/ PutCandidate(m)
    \/ \E read \in ReadBack : StoreCandidate(m, read)
    \/ RefuseCandidate(m)
    \/ RemoveCandidate(m)
    \/ RemoveReplaced(m)
    \/ ReportNoMatch(m)
    \/ MarkFailure(m)

Administer(t) ==
    \/ MarkFailureByAdmin(t)
    \/ SubmitCandidate(t)
    \/ Retry(t)
    \/ \E approved \in BOOLEAN : Review(t, approved)
    \/ CompleteManual(t)
    \/ ConfirmNoBrochure(t)

WriteBrochure(t) ==
    \/ \E f \in Uploads : CreateBrochure(t, f) \/ PublishBrochureInTx(t, f)
    \/ \E to \in {"published", "rejected", "archived"} : ChangeBrochureStatus(t, to)

Next ==
    \/ \E y \in Years : Schedule(y)
    \/ \E a \in Agents : Search(a)
    \/ \E m \in call : Handle(m) \/ LoseCall(m)
    \/ \E t \in Task : Administer(t) \/ WriteBrochure(t) \/ WaitElapses(t)

Spec == Init /\ [][Next]_vars
-----------------------------------------------------------------------------
(***************************************************************************)
(* Properties                                                              *)
(***************************************************************************)

(* next_search_at is set exactly while a school is being searched: no mix  *)
(* of failures, retries, reviews and manual completions leaves a searching *)
(* task that no claim would order, or a deadline on one that is at rest.   *)
WaitsOnlyWhileSearching ==
    \A t \in Task : task[t].status = "searching" <=> task[t].next # "null"

(* A file stored by the brochure pages is removed only after the document  *)
(* has stopped naming it, although the handler of a candidate removes the  *)
(* file it replaced long after its transaction.                            *)
UploadedFileKept ==
    \A t \in Task : doc[t].file \in Uploads => object[t][doc[t].file] = "stored"

(* The document names the candidate and its file can be opened, while the  *)
(* task says that a candidate was found and saved.                         *)
CandidateFileKept ==
    \A t \in Task :
        /\ task[t].status = "under_review"
        /\ doc[t].file = task[t].candidate
        => object[t][doc[t].file] = "stored"

(* A completed school is never handed out or reopened, whatever reports of *)
(* earlier leases arrive late.                                             *)
CompletedIsFinal ==
    [][\A t \in Task : task[t].status = "completed" => task'[t] = task[t]]_vars

(* Once a school is completed, no late candidate of an agent replaces its  *)
(* document.                                                               *)
SettledBrochureStands ==
    [][\A t \in Task :
          task[t].status = "completed" => doc'[t].file \in {doc[t].file} \cup Uploads]_vars

(* "Completed / external candidate confirmed" means that the document just *)
(* published is the candidate of the task.                                 *)
ConfirmsItsCandidate ==
    [][\A t \in Task :
          /\ task[t].method # "agent"
          /\ task'[t].method = "agent"
          => doc'[t].file = task[t].candidate]_vars

(* Agents poll for ever, the API handles what it received and time passes; *)
(* an agent may crash and a call may be lost, but nothing forces them to.  *)
Fairness ==
    /\ \A t \in Task : WF_vars(WaitElapses(t))
    /\ \A t \in Task : WF_vars(\E a \in Agents : ClaimNext(a, t))
    /\ \A a \in Agents : WF_vars(\/ \E f \in Found : SendCandidate(a, f)
                                   \/ SendNoMatch(a)
                                   \/ SendFailure(a)
                                   \/ CandidateAnswered(a))
    /\ WF_vars(\E m \in call : Handle(m))

FairSpec == Spec /\ Fairness

(* "Expired searching tasks are claimable again, so a crashed agent cannot *)
(* strand a school forever": a school being searched leaves that state, is *)
(* leased again, or its cycle is closed.                                   *)
NoTaskStranded ==
    \A t \in Task, n \in 0..(MaxClaims - 1) :
        (Searching(t) /\ task[t].attempts = n) ~> (~Searching(t) \/ task[t].attempts > n)
=============================================================================

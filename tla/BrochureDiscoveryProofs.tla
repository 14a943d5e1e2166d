----------------------- MODULE BrochureDiscoveryProofs -----------------------
(***************************************************************************)
(* Proofs about BrochureDiscovery, for any number of cycles, schools,      *)
(* agents, files and leases, slow agents and failing reads included; and   *)
(* about DocumentRuns, for any number of documents, lists, programmes,     *)
(* workers and requests, and for both transports.                          *)
(***************************************************************************)
EXTENDS BrochureDiscovery, DocumentRuns, TLAPS

-----------------------------------------------------------------------------
(* What each transaction makes of a task's row is a row again. *)
LEMMA RowsOK ==
    ASSUME NEW r \in TaskRow
    PROVE  /\ r.attempts < MaxClaims => LeasedRow(r) \in TaskRow
           /\ NeedsAttention(r) \in TaskRow
           /\ SearchAgain(r) \in TaskRow
           /\ \A f \in File \cup {None} : UnderReview(r, f) \in TaskRow
           /\ \A how \in {"agent", "manual", "no_brochure"} : CompletedRow(r, how) \in TaskRow
<1>1. ASSUME r.attempts < MaxClaims PROVE LeasedRow(r) \in TaskRow
  BY <1>1, DiscoveryAssumption DEF TaskRow, TaskStatus, LeasedRow
<1>2. NeedsAttention(r) \in TaskRow
  BY DEF TaskRow, TaskStatus, NeedsAttention
<1>3. SearchAgain(r) \in TaskRow
  BY DEF TaskRow, TaskStatus, SearchAgain
<1>4. ASSUME NEW f \in File \cup {None} PROVE UnderReview(r, f) \in TaskRow
  BY DEF TaskRow, TaskStatus, UnderReview
<1>5. ASSUME NEW how \in {"agent", "manual", "no_brochure"}
      PROVE  CompletedRow(r, how) \in TaskRow
  BY DEF TaskRow, TaskStatus, CompletedRow
<1> QED
  BY <1>1, <1>2, <1>3, <1>4, <1>5

(* The handler of a candidate works on a file an agent found. *)
CandidateCalls == \A m \in call : m.op = "candidate" => m.file \in Found

(* What a handler still has to remove was replaced for good: its key was   *)
(* used once and the document names another file.                          *)
ReplacedForGood ==
    \A m \in call :
        m.step = "stored" /\ m.old \in Uploads
            => /\ doc[m.task].file # m.old
               /\ object[m.task][m.old] # "none"

(* A cycle that was not created has no tasks. *)
TasksHaveCycle == \A t \in Task : cycle[t[1]] = "absent" => task[t].status = "absent"

IInv ==
    /\ TypeOK
    /\ CandidateCalls
    /\ TasksHaveCycle
    /\ WaitsOnlyWhileSearching
    /\ ReplacedForGood
    /\ UploadedFileKept

LEMMA InitOK == Init => IInv
<1> SUFFICES ASSUME Init PROVE IInv
  OBVIOUS
<1> USE DEF Init
<1>1. TypeOK
  BY DiscoveryAssumption DEF TypeOK, NoTask, TaskRow, TaskStatus, DocRow
<1>2. CandidateCalls /\ ReplacedForGood
  BY DEF CandidateCalls, ReplacedForGood
<1>3. WaitsOnlyWhileSearching /\ TasksHaveCycle
  BY DEF WaitsOnlyWhileSearching, TasksHaveCycle, NoTask
<1>4. UploadedFileKept
  BY DiscoveryAssumption DEF UploadedFileKept, File
<1> QED
  BY <1>1, <1>2, <1>3, <1>4 DEF IInv

-----------------------------------------------------------------------------
(* Every step keeps the types. *)
LEMMA TypeStep == TypeOK /\ CandidateCalls /\ [Next]_vars => TypeOK' /\ CandidateCalls'
<1> SUFFICES ASSUME TypeOK, CandidateCalls, [Next]_vars PROVE TypeOK' /\ CandidateCalls'
  OBVIOUS
<1>0. ASSUME NEW t \in Task
      PROVE  /\ task[t] \in TaskRow /\ doc[t] \in DocRow /\ t[1] \in Years
             /\ object[t] \in [File -> {"none", "stored", "removed"}]
  BY DEF TypeOK, Task
<1>c. ASSUME NEW m \in call PROVE m \in Call /\ m.task \in Task
  BY DEF TypeOK, Call
<1>1. ASSUME NEW y \in Years, Schedule(y) PROVE TypeOK' /\ CandidateCalls'
  <2>1. CASE CreateCycle(y)
    <3>1. [NoTask EXCEPT !.status = "pending_search"] \in TaskRow
      BY DiscoveryAssumption DEF NoTask, TaskRow, TaskStatus
    <3> QED
      BY <2>1, <3>1 DEF TypeOK, CandidateCalls, CreateCycle
  <2>2. CASE StartCycle(y) \/ CloseCycle(y)
    BY <2>2 DEF TypeOK, CandidateCalls, StartCycle, CloseCycle
  <2> QED
    BY <1>1, <2>1, <2>2 DEF Schedule
<1>2. ASSUME NEW a \in Agents, Search(a) PROVE TypeOK' /\ CandidateCalls'
  <2>0. ASSUME NEW op \in {"candidate", "no_match", "failure"}, NEW f \in Found \cup {None}
        PROVE  Sent(op, a, f) \in Call /\ Sent(op, a, f).op = op /\ Sent(op, a, f).file = f
    BY DEF TypeOK, Sent, Call
  <2>1. ASSUME NEW t \in Task, ClaimNext(a, t) PROVE TypeOK' /\ CandidateCalls'
    <3>1. LeasedRow(task[t]) \in TaskRow
      BY <2>1, <1>0, RowsOK DEF ClaimNext
    <3>2. task[t].attempts + 1 \in Nat
      BY <1>0, DiscoveryAssumption DEF TaskRow
    <3> QED
      BY <2>1, <3>1, <3>2 DEF TypeOK, CandidateCalls, ClaimNext
  <2>2. ASSUME NEW f \in Found, SendCandidate(a, f) PROVE TypeOK' /\ CandidateCalls'
    BY <2>2, <2>0 DEF TypeOK, CandidateCalls, SendCandidate
  <2>3. CASE SendNoMatch(a)
    BY <2>3, <2>0 DEF TypeOK, CandidateCalls, SendNoMatch
  <2>4. CASE SendFailure(a)
    BY <2>4, <2>0 DEF TypeOK, CandidateCalls, SendFailure
  <2>5. CASE CandidateAnswered(a)
    BY <2>5 DEF TypeOK, CandidateCalls, CandidateAnswered
  <2>6. CASE CrashAgent(a)
    BY <2>6 DEF TypeOK, CandidateCalls, CrashAgent
  <2> QED
    BY <1>2, <2>1, <2>2, <2>3, <2>4, <2>5, <2>6 DEF Search
<1>3. ASSUME NEW m \in call, Handle(m) PROVE TypeOK' /\ CandidateCalls'
  <2>0. m.op = "candidate" => m.file \in Found /\ m.file \in File
    BY DEF CandidateCalls, File
  <2>s. ASSUME NEW s \in {"put", "refused"}
        PROVE  [m EXCEPT !.step = s] \in Call /\ [m EXCEPT !.step = s].file = m.file
    BY <1>c DEF Call
  <2>1. CASE PutCandidate(m)
    BY <2>1, <2>0, <2>s, <1>c, <1>0 DEF TypeOK, CandidateCalls, PutCandidate
  <2>2. ASSUME NEW read \in BOOLEAN, StoreCandidate(m, read) PROVE TypeOK' /\ CandidateCalls'
    <3> DEFINE new == IF read THEN [m EXCEPT !.step = "stored", !.old = doc[m.task].file]
                              ELSE [m EXCEPT !.step = "refused"]
    <3>1. new \in Call /\ new.file = m.file
      <4>1. doc[m.task].file \in File \cup {None}
        BY <1>c, <1>0 DEF DocRow
      <4> QED
        BY <4>1, <1>c, <2>s DEF Call
    <3>2. UnderReview(task[m.task], m.file) \in TaskRow
      BY <2>2, <2>0, <1>c, <1>0, RowsOK DEF StoreCandidate
    <3>3. [status |-> "pending", file |-> m.file] \in DocRow
      BY <2>2, <2>0 DEF DocRow, StoreCandidate
    <3>4. call' = (call \ {m}) \cup {new}
      BY <2>2 DEF StoreCandidate
    <3> HIDE DEF new
    <3> QED
      BY <2>2, <2>0, <1>c, <3>1, <3>2, <3>3, <3>4 DEF TypeOK, CandidateCalls, StoreCandidate
  <2>3. CASE RefuseCandidate(m)
    BY <2>3, <2>0, <2>s DEF TypeOK, CandidateCalls, RefuseCandidate
  <2>4. CASE RemoveCandidate(m)
    BY <2>4, <2>0, <1>c, <1>0 DEF TypeOK, CandidateCalls, RemoveCandidate
  <2>5. CASE RemoveReplaced(m)
    <3>1. m.old \in {None} \/ m.old \in File
      BY <1>c DEF Call
    <3> QED
      BY <2>5, <3>1, <1>c, <1>0 DEF TypeOK, CandidateCalls, RemoveReplaced
  <2>6. CASE ReportNoMatch(m)
    <3>1. [task[m.task] EXCEPT !.next = "future"] \in TaskRow
      BY <1>c, <1>0 DEF TaskRow
    <3> QED
      BY <2>6, <3>1 DEF TypeOK, CandidateCalls, ReportNoMatch
  <2>7. CASE MarkFailure(m)
    BY <2>7, <1>c, <1>0, RowsOK DEF TypeOK, CandidateCalls, MarkFailure
  <2> QED
    BY <1>3, <2>1, <2>2, <2>3, <2>4, <2>5, <2>6, <2>7, DiscoveryAssumption DEF Handle
<1>4. ASSUME NEW m \in call, LoseCall(m) PROVE TypeOK' /\ CandidateCalls'
  BY <1>4 DEF TypeOK, CandidateCalls, LoseCall
<1>5. ASSUME NEW t \in Task, Administer(t) PROVE TypeOK' /\ CandidateCalls'
  <2>1. CASE MarkFailureByAdmin(t) \/ Retry(t)
    BY <2>1, <1>0, RowsOK DEF TypeOK, CandidateCalls, MarkFailureByAdmin, Retry
  <2>2. CASE SubmitCandidate(t)
    <3>1. doc[t].file \in File \cup {None}
      BY <1>0 DEF DocRow
    <3>2. UnderReview(task[t], doc[t].file) \in TaskRow
      BY <3>1, <1>0, RowsOK
    <3> QED
      BY <2>2, <3>2 DEF TypeOK, CandidateCalls, SubmitCandidate
  <2>3. ASSUME NEW approved \in BOOLEAN, Review(t, approved) PROVE TypeOK' /\ CandidateCalls'
    BY <2>3, <1>0, RowsOK DEF TypeOK, CandidateCalls, Review, DocRow
  <2>4. CASE CompleteManual(t)
    BY <2>4, <1>0, RowsOK DEF TypeOK, CandidateCalls, CompleteManual, DocRow
  <2>5. CASE ConfirmNoBrochure(t)
    BY <2>5, <1>0, RowsOK DEF TypeOK, CandidateCalls, ConfirmNoBrochure
  <2> QED
    BY <1>5, <2>1, <2>2, <2>3, <2>4, <2>5 DEF Administer
<1>6. ASSUME NEW t \in Task, WriteBrochure(t) PROVE TypeOK' /\ CandidateCalls'
  <2>1. ASSUME NEW f \in Uploads, CreateBrochure(t, f) \/ PublishBrochureInTx(t, f)
        PROVE  TypeOK' /\ CandidateCalls'
    <3>1. PICK status \in {"pending", "published"} : ReplaceDocument(t, f, status)
      BY <2>1 DEF CreateBrochure, PublishBrochureInTx
    <3>2. [status |-> status, file |-> f] \in DocRow
      BY <3>1 DEF DocRow, File
    <3>3. [object[t] EXCEPT ![f] = "stored"] \in [File -> {"none", "stored", "removed"}]
      BY <1>0
    <3>4. object' = [object EXCEPT ![t] = [object[t] EXCEPT ![f] = "stored"]]
      BY <3>1 DEF ReplaceDocument
    <3> QED
      BY <3>1, <3>2, <3>3, <3>4 DEF TypeOK, CandidateCalls, ReplaceDocument
  <2>2. ASSUME NEW to \in {"published", "rejected", "archived"}, ChangeBrochureStatus(t, to)
        PROVE  TypeOK' /\ CandidateCalls'
    BY <2>2, <1>0 DEF TypeOK, CandidateCalls, ChangeBrochureStatus, DocRow
  <2> QED
    BY <1>6, <2>1, <2>2 DEF WriteBrochure
<1>7. ASSUME NEW t \in Task, WaitElapses(t) PROVE TypeOK' /\ CandidateCalls'
  <2>1. [task[t] EXCEPT !.next = "past"] \in TaskRow
    BY <1>0 DEF TaskRow
  <2> QED
    BY <1>7, <2>1 DEF TypeOK, CandidateCalls, WaitElapses
<1>8. CASE UNCHANGED vars
  BY <1>8 DEF TypeOK, CandidateCalls, vars
<1> QED
  BY <1>1, <1>2, <1>3, <1>4, <1>5, <1>6, <1>7, <1>8 DEF Next
-----------------------------------------------------------------------------
(* A deadline is set exactly by what starts a search and cleared by what   *)
(* ends one.                                                               *)
LEMMA WaitStep == TypeOK /\ WaitsOnlyWhileSearching /\ [Next]_vars => WaitsOnlyWhileSearching'
<1> SUFFICES ASSUME TypeOK, WaitsOnlyWhileSearching, [Next]_vars, NEW t \in Task
             PROVE  (task[t].status = "searching" <=> task[t].next # "null")'
  BY DEF WaitsOnlyWhileSearching
<1> DEFINE Good(r) == r.status = "searching" <=> r.next # "null"
<1>0. ASSUME NEW u \in Task PROVE task[u] \in TaskRow /\ Good(task[u])
  BY DEF TypeOK, WaitsOnlyWhileSearching
<1>r. ASSUME NEW r \in TaskRow
      PROVE  /\ Good(LeasedRow(r)) /\ Good(NeedsAttention(r)) /\ Good(SearchAgain(r))
             /\ \A f \in File \cup {None} : Good(UnderReview(r, f))
             /\ \A how \in {"agent", "manual", "no_brochure"} : Good(CompletedRow(r, how))
  BY DEF TaskRow, LeasedRow, NeedsAttention, SearchAgain, UnderReview, CompletedRow
<1>c. ASSUME NEW m \in call PROVE m.task \in Task /\ m.file \in Found \cup {None}
  BY DEF TypeOK, Call
<1>1. CASE task' = task
  BY <1>1, <1>0
<1>2. ASSUME NEW y \in Years, CreateCycle(y) PROVE Good(task'[t])
  BY <1>2, <1>0 DEF CreateCycle, NoTask
<1>3. ASSUME NEW a \in Agents, NEW u \in Task, ClaimNext(a, u) PROVE Good(task'[t])
  BY <1>3, <1>0, <1>r DEF ClaimNext, TypeOK
<1>4. ASSUME NEW m \in call, Handle(m), task' # task PROVE Good(task'[t])
  <2>1. ASSUME NEW read \in BOOLEAN, StoreCandidate(m, read) PROVE Good(task'[t])
    BY <2>1, <1>0, <1>r, <1>c DEF StoreCandidate, TypeOK, File
  <2>2. CASE ReportNoMatch(m)
    <3>1. Good([task[m.task] EXCEPT !.next = "future"]) \/ ~Searching(m.task)
      BY <1>c, <1>0 DEF Searching, TaskRow
    <3> QED
      BY <2>2, <3>1, <1>0, <1>c DEF ReportNoMatch, TypeOK
  <2>3. CASE MarkFailure(m)
    BY <2>3, <1>0, <1>r, <1>c DEF MarkFailure, TypeOK
  <2> QED
    BY <1>4, <2>1, <2>2, <2>3, DiscoveryAssumption
       DEF Handle, PutCandidate, RefuseCandidate, RemoveCandidate, RemoveReplaced
<1>5. ASSUME NEW u \in Task, Administer(u) PROVE Good(task'[t])
  <2>1. CASE MarkFailureByAdmin(u) \/ Retry(u)
    BY <2>1, <1>0, <1>r DEF MarkFailureByAdmin, Retry, TypeOK
  <2>2. CASE SubmitCandidate(u)
    <3>1. doc[u].file \in File \cup {None}
      BY DEF TypeOK, DocRow
    <3> QED
      BY <2>2, <3>1, <1>0, <1>r DEF SubmitCandidate, TypeOK
  <2>3. ASSUME NEW approved \in BOOLEAN, Review(u, approved) PROVE Good(task'[t])
    BY <2>3, <1>0, <1>r DEF Review, TypeOK
  <2>4. CASE CompleteManual(u) \/ ConfirmNoBrochure(u)
    BY <2>4, <1>0, <1>r DEF CompleteManual, ConfirmNoBrochure, TypeOK
  <2> QED
    BY <1>5, <2>1, <2>2, <2>3, <2>4 DEF Administer
<1>6. ASSUME NEW u \in Task, WaitElapses(u) PROVE Good(task'[t])
  <2>1. Good([task[u] EXCEPT !.next = "past"])
    BY <1>6, <1>0 DEF WaitElapses, TaskRow
  <2> QED
    BY <1>6, <2>1, <1>0 DEF WaitElapses, TypeOK
<1>7. task' = task
      \/ (\E y \in Years : CreateCycle(y))
      \/ (\E a \in Agents, u \in Task : ClaimNext(a, u))
      \/ (\E m \in call : Handle(m))
      \/ (\E u \in Task : Administer(u) \/ WaitElapses(u))
  BY DEF Next, vars, Schedule, StartCycle, CloseCycle, Search, SendCandidate, SendNoMatch,
         SendFailure, CandidateAnswered, CrashAgent, LoseCall, WriteBrochure, CreateBrochure,
         PublishBrochureInTx, ReplaceDocument, ChangeBrochureStatus
<1> QED
  BY <1>1, <1>2, <1>3, <1>4, <1>5, <1>6, <1>7
-----------------------------------------------------------------------------
(* What may happen to the row of a task: it is created with its cycle, or  *)
(* it is open and stays a task.                                            *)
LEMMA TaskMoves ==
    ASSUME TypeOK, WaitsOnlyWhileSearching, [Next]_vars,
           NEW t \in Task, task'[t] # task[t]
    PROVE  \/ cycle[t[1]] = "absent" /\ cycle'[t[1]] # "absent"
           \/ /\ task[t].status \notin {"absent", "completed"}
              /\ cycle' = cycle
<1> DEFINE Open == task[t].status \notin {"absent", "completed"} /\ cycle' = cycle
<1>c. ASSUME NEW m \in call PROVE m.task \in Task
  BY DEF TypeOK, Call
<1>1. ASSUME NEW y \in Years, Schedule(y)
      PROVE  cycle[t[1]] = "absent" /\ cycle'[t[1]] # "absent"
  BY <1>1 DEF Schedule, CreateCycle, StartCycle, CloseCycle, TypeOK
<1>2. ASSUME NEW a \in Agents, Search(a) PROVE Open
  BY <1>2 DEF Search, ClaimNext, Claimable, SendCandidate, SendNoMatch, SendFailure,
              CandidateAnswered, CrashAgent, TypeOK
<1>3. ASSUME NEW m \in call, Handle(m) \/ LoseCall(m) PROVE Open
  BY <1>3, <1>c DEF Handle, PutCandidate, StoreCandidate, RefuseCandidate, RemoveCandidate,
              RemoveReplaced, ReportNoMatch, MarkFailure, LoseCall, Searching, TypeOK
<1>4. ASSUME NEW u \in Task, Administer(u) PROVE Open
  BY <1>4 DEF Administer, MarkFailureByAdmin, SubmitCandidate, Retry, Review, CompleteManual,
              ConfirmNoBrochure, Searching, TypeOK
<1>5. ASSUME NEW u \in Task, WriteBrochure(u) PROVE Open
  BY <1>5 DEF WriteBrochure, CreateBrochure, PublishBrochureInTx, ReplaceDocument,
              ChangeBrochureStatus
<1>6. ASSUME NEW u \in Task, WaitElapses(u) PROVE Open
  BY <1>6 DEF WaitElapses, WaitsOnlyWhileSearching, TypeOK
<1> QED
  BY <1>1, <1>2, <1>3, <1>4, <1>5, <1>6 DEF Next, vars

LEMMA TasksStep ==
    TypeOK /\ TasksHaveCycle /\ WaitsOnlyWhileSearching /\ [Next]_vars => TasksHaveCycle'
<1> SUFFICES ASSUME TypeOK, TasksHaveCycle, WaitsOnlyWhileSearching, [Next]_vars,
                    NEW t \in Task, cycle'[t[1]] = "absent"
             PROVE  task'[t].status = "absent"
  BY DEF TasksHaveCycle
<1>1. cycle[t[1]] = "absent"
  BY DEF Next, vars, Schedule, CreateCycle, StartCycle, CloseCycle, Search, ClaimNext,
         SendCandidate, SendNoMatch, SendFailure, CandidateAnswered, CrashAgent, Handle,
         PutCandidate, StoreCandidate, RefuseCandidate, RemoveCandidate, RemoveReplaced,
         ReportNoMatch, MarkFailure, LoseCall, Administer, MarkFailureByAdmin,
         SubmitCandidate, Retry, Review, CompleteManual, ConfirmNoBrochure, WriteBrochure,
         CreateBrochure, PublishBrochureInTx, ReplaceDocument, ChangeBrochureStatus,
         WaitElapses, TypeOK, Task
<1>2. task'[t] = task[t]
  BY <1>1, TaskMoves DEF TasksHaveCycle
<1> QED
  BY <1>1, <1>2 DEF TasksHaveCycle

-----------------------------------------------------------------------------
Kept == UploadedFileKept /\ ReplacedForGood

(* A step that changes neither files nor what documents name, and leaves   *)
(* no new file to be removed, keeps the files of the brochure pages.       *)
LEMMA KeptFrame ==
    ASSUME TypeOK, Kept,
           \A t \in Task : doc'[t].file = doc[t].file,
           object' = object,
           \A m \in call' : m \in call \/ m.step # "stored"
    PROVE  Kept'
  BY DEF Kept, UploadedFileKept, ReplacedForGood, TypeOK, Call

LEMMA KeptStep ==
    TypeOK /\ TypeOK' /\ CandidateCalls /\ Kept /\ [Next]_vars => Kept'
<1> SUFFICES ASSUME TypeOK, TypeOK', CandidateCalls, Kept, [Next]_vars PROVE Kept'
  OBVIOUS
<1>c. ASSUME NEW m \in call PROVE m \in Call /\ m.task \in Task
  BY DEF TypeOK, Call
<1>f. ASSUME NEW m \in call, m.op = "candidate"
      PROVE  m.file \in Found /\ m.file \in File /\ m.file \notin Uploads
  BY <1>f, DiscoveryAssumption DEF CandidateCalls, File
<1>1. ASSUME NEW m \in call, Handle(m) PROVE Kept'
  <2>s. ASSUME NEW s \in {"put", "refused"} PROVE [m EXCEPT !.step = s].step # "stored"
    BY <1>c DEF Call
  <2>1. CASE PutCandidate(m)
    <3>1. \A t \in Task, f \in Uploads : object'[t][f] = object[t][f]
      BY <2>1, <1>f, <1>c DEF PutCandidate, TypeOK, File
    <3>2. doc' = doc /\ \A n \in call' : n \in call \/ n.step # "stored"
      BY <2>1, <2>s DEF PutCandidate
    <3> QED
      BY <3>1, <3>2, <1>c DEF Kept, UploadedFileKept, ReplacedForGood
  <2>2. ASSUME NEW read \in BOOLEAN, StoreCandidate(m, read) PROVE Kept'
    <3> DEFINE t0 == m.task
               new == IF read THEN [m EXCEPT !.step = "stored", !.old = doc[m.task].file]
                              ELSE [m EXCEPT !.step = "refused"]
    <3>1. /\ doc' = [doc EXCEPT ![t0] = [status |-> "pending", file |-> m.file]]
          /\ object' = object /\ call' = (call \ {m}) \cup {new}
          /\ m.op = "candidate"
      BY <2>2 DEF StoreCandidate
    <3>2. /\ doc'[t0].file = m.file
          /\ \A t \in Task : t # t0 => doc'[t] = doc[t]
      BY <3>1, <1>c DEF TypeOK
    <3>3. UploadedFileKept'
      BY <3>1, <3>2, <1>c, <1>f DEF Kept, UploadedFileKept
    <3>4. ASSUME NEW n \in call', n.step = "stored", n.old \in Uploads
          PROVE  doc'[n.task].file # n.old /\ object'[n.task][n.old] # "none"
      <4>1. CASE n \in call
        BY <4>1, <3>1, <3>2, <3>4, <1>c, <1>f DEF Kept, ReplacedForGood
      <4>2. CASE n = new
        <5>1. n.task = t0 /\ n.old = doc[t0].file
          BY <4>2, <3>4, <1>c DEF Call
        <5> QED
          BY <5>1, <3>1, <3>2, <3>4, <1>c, <1>f DEF Kept, UploadedFileKept
      <4> QED
        BY <4>1, <4>2, <3>1
    <3> QED
      BY <3>3, <3>4 DEF Kept, ReplacedForGood
  <2>3. CASE RefuseCandidate(m)
    BY <2>3, <2>s, KeptFrame DEF RefuseCandidate
  <2>4. CASE RemoveCandidate(m)
    <3>1. \A t \in Task, f \in Uploads : object'[t][f] = object[t][f]
      BY <2>4, <1>f, <1>c DEF RemoveCandidate, TypeOK, File
    <3>2. doc' = doc /\ call' \subseteq call
      BY <2>4 DEF RemoveCandidate
    <3> QED
      BY <3>1, <3>2, <1>c DEF Kept, UploadedFileKept, ReplacedForGood
  <2>5. CASE RemoveReplaced(m)
    <3>1. doc' = doc /\ call' \subseteq call /\ m.step = "stored"
      BY <2>5 DEF RemoveReplaced
    <3>2. ASSUME NEW t \in Task, NEW f \in Uploads
          PROVE  /\ object[t][f] # "none" => object'[t][f] # "none"
                 /\ ~(t = m.task /\ f = m.old) => object'[t][f] = object[t][f]
      BY <2>5, <1>c DEF RemoveReplaced, TypeOK, File
    <3>3. UploadedFileKept'
      BY <3>1, <3>2, <1>c DEF Kept, UploadedFileKept, ReplacedForGood
    <3>4. ReplacedForGood'
      BY <3>1, <3>2, <1>c DEF Kept, ReplacedForGood
    <3> QED
      BY <3>3, <3>4 DEF Kept
  <2>6. CASE ReportNoMatch(m) \/ MarkFailure(m)
    BY <2>6, KeptFrame DEF ReportNoMatch, MarkFailure
  <2> QED
    BY <1>1, <2>1, <2>2, <2>3, <2>4, <2>5, <2>6, DiscoveryAssumption DEF Handle
<1>2. ASSUME NEW t \in Task, NEW f \in Uploads, NEW status, ReplaceDocument(t, f, status)
      PROVE  Kept'
  <2>1. /\ object[t][f] = "none" /\ object'[t][f] = "stored" /\ doc'[t].file = f
        /\ \A u \in Task, g \in File : u # t \/ g # f => object'[u][g] = object[u][g]
        /\ \A u \in Task : u # t => doc'[u] = doc[u]
        /\ call' = call
    BY <1>2 DEF ReplaceDocument, TypeOK, File
  <2>2. UploadedFileKept'
    BY <2>1 DEF Kept, UploadedFileKept, File
  <2>3. ASSUME NEW m \in call, m.step = "stored", m.old \in Uploads
        PROVE  doc'[m.task].file # m.old /\ object'[m.task][m.old] # "none"
    BY <2>1, <2>3, <1>c DEF Kept, ReplacedForGood, File
  <2> QED
    BY <2>1, <2>2, <2>3 DEF Kept, ReplacedForGood
<1>3. ASSUME NEW a \in Agents, Search(a) PROVE Kept'
  <2>1. ASSUME NEW op, NEW f PROVE Sent(op, a, f).step # "stored"
    BY DEF Sent
  <2> QED
    BY <1>3, <2>1, KeptFrame DEF Search, ClaimNext, SendCandidate, SendNoMatch, SendFailure,
                                CandidateAnswered, CrashAgent
<1>4. ASSUME NEW t \in Task, Administer(t) PROVE Kept'
  <2>1. \A u \in Task : doc'[u].file = doc[u].file
    <3>1. ASSUME NEW approved \in BOOLEAN, Review(t, approved)
          PROVE  \A u \in Task : doc'[u].file = doc[u].file
      BY <3>1 DEF Review, TypeOK, DocRow
    <3>2. CASE CompleteManual(t)
      BY <3>2 DEF CompleteManual, TypeOK, DocRow
    <3>3. CASE doc' = doc
      BY <3>3
    <3> QED
      BY <1>4, <3>1, <3>2, <3>3 DEF Administer, MarkFailureByAdmin, SubmitCandidate, Retry,
                                    ConfirmNoBrochure
  <2> QED
    BY <1>4, <2>1, KeptFrame DEF Administer, MarkFailureByAdmin, SubmitCandidate, Retry, Review,
                CompleteManual, ConfirmNoBrochure
<1>5. ASSUME NEW t \in Task, NEW to, ChangeBrochureStatus(t, to) PROVE Kept'
  <2>1. \A u \in Task : doc'[u].file = doc[u].file
    BY <1>5 DEF ChangeBrochureStatus, TypeOK, DocRow
  <2> QED
    BY <1>5, <2>1, KeptFrame DEF ChangeBrochureStatus
<1>6. CASE UNCHANGED <<doc, object>> /\ call' \subseteq call
  BY <1>6, KeptFrame
<1> QED
  BY <1>1, <1>2, <1>3, <1>4, <1>5, <1>6
     DEF Next, vars, Schedule, CreateCycle, StartCycle, CloseCycle, LoseCall, WaitElapses,
         WriteBrochure, CreateBrochure, PublishBrochureInTx
-----------------------------------------------------------------------------
(***************************************************************************)
(* The theorems.                                                           *)
(***************************************************************************)

(* The inductive invariant holds of every state of the search. *)
THEOREM Invariance == Spec => []IInv
<1>1. Init => IInv
  BY InitOK
<1>2. IInv /\ [Next]_vars => IInv'
  BY TypeStep, WaitStep, TasksStep, KeptStep DEF IInv, Kept
<1> QED
  BY <1>1, <1>2, PTL DEF Spec

(* The rows of cycles, tasks and documents, the objects and the calls are  *)
(* always what the tables and the handlers allow.                          *)
THEOREM TypeCorrect == Spec => []TypeOK
<1>1. IInv => TypeOK
  BY DEF IInv
<1> QED
  BY <1>1, Invariance, PTL

(* Claims, failures, retries, reviews and completions set next_search_at   *)
(* exactly while a school is being searched.                               *)
THEOREM DeadlinesOfSearches == Spec => []WaitsOnlyWhileSearching
<1>1. IInv => WaitsOnlyWhileSearching
  BY DEF IInv
<1> QED
  BY <1>1, Invariance, PTL

(* The handler of a candidate never removes a file of the brochure pages   *)
(* that a document still names.                                            *)
THEOREM UploadsSurvive == Spec => []UploadedFileKept
<1>1. IInv => UploadedFileKept
  BY DEF IInv
<1> QED
  BY <1>1, Invariance, PTL

(* No report of an earlier lease, no claim and no review touches the task  *)
(* of a completed school.                                                  *)
THEOREM CompletionIsFinal == Spec => CompletedIsFinal
<1> DEFINE Final == \A t \in Task : task[t].status = "completed" => task'[t] = task[t]
<1>1. IInv /\ [Next]_vars => Final
  BY TaskMoves DEF IInv, TasksHaveCycle
<1>2. IInv /\ [Next]_vars => [Final]_vars
  BY <1>1
<1> QED
  BY <1>2, Invariance, PTL DEF Spec, CompletedIsFinal

(* A candidate that arrives after its school was completed is refused: it  *)
(* never becomes the document of the school.                               *)
THEOREM DocumentSettled == Spec => SettledBrochureStands
<1> DEFINE Stands ==
      \A t \in Task :
          task[t].status = "completed" => doc'[t].file \in {doc[t].file} \cup Uploads
<1>1. TypeOK /\ [Next]_vars => Stands
  <2> SUFFICES ASSUME TypeOK, [Next]_vars, NEW t \in Task, task[t].status = "completed"
               PROVE  doc'[t].file = doc[t].file \/ doc'[t].file \in Uploads
    OBVIOUS
  <2>1. CASE doc' = doc
    BY <2>1
  <2>2. ASSUME NEW m \in call, Handle(m) PROVE doc'[t] = doc[t]
    <3>1. m.task \in Task
      BY DEF TypeOK, Call
    <3> QED
      BY <2>2, <3>1 DEF Handle, PutCandidate, StoreCandidate, RefuseCandidate, RemoveCandidate,
                   RemoveReplaced, ReportNoMatch, MarkFailure, Searching, TypeOK
  <2>3. ASSUME NEW u \in Task, NEW approved \in BOOLEAN, Review(u, approved)
        PROVE  doc'[t].file = doc[t].file
    BY <2>3 DEF Review, TypeOK, DocRow
  <2>4. ASSUME NEW u \in Task, CompleteManual(u) PROVE doc'[t].file = doc[t].file
    BY <2>4 DEF CompleteManual, TypeOK, DocRow
  <2>5. ASSUME NEW u \in Task, NEW f \in Uploads, NEW status, ReplaceDocument(u, f, status)
        PROVE  doc'[t].file = doc[t].file \/ doc'[t].file \in Uploads
    BY <2>5 DEF ReplaceDocument, TypeOK
  <2>6. ASSUME NEW u \in Task, NEW to, ChangeBrochureStatus(u, to)
        PROVE  doc'[t].file = doc[t].file
    BY <2>6 DEF ChangeBrochureStatus, TypeOK, DocRow
  <2> QED
    BY <2>1, <2>2, <2>3, <2>4, <2>5, <2>6
       DEF Next, vars, Schedule, CreateCycle, StartCycle, CloseCycle, Search, ClaimNext,
           SendCandidate, SendNoMatch, SendFailure, CandidateAnswered, CrashAgent, LoseCall,
           Administer, MarkFailureByAdmin, SubmitCandidate, Retry, ConfirmNoBrochure,
           WriteBrochure, CreateBrochure, PublishBrochureInTx, WaitElapses
<1>2. TypeOK /\ [Next]_vars => [Stands]_vars
  BY <1>1
<1> QED
  BY <1>2, TypeCorrect, PTL DEF Spec, SettledBrochureStands

-----------------------------------------------------------------------------
(* The jobs there are. *)
Exists(d) == d \in Jobs /\ job[d].status # "absent"

(* Whatever is on its way speaks of a job that exists: what a request has  *)
(* still to do, what a worker reads, messages and reports.                 *)
Known ==
    /\ \A r \in Requests : request[r].pc # "idle" => Exists(request[r].doc)
    /\ \A w \in Workers : work[w] # NoDocument => Exists(work[w])
    /\ \A m \in queue \cup reports : Exists(m.doc)

DocumentsInv ==
    /\ DocumentsTypeOK
    /\ Known
    /\ RunsAgree

-----------------------------------------------------------------------------
(* What becomes of the row of an existing job without a result: it exists, *)
(* and it has succeeded exactly when it had before.                        *)
Follows(new, old) ==
    /\ new \in JobRow /\ new.status # "absent"
    /\ new.status = "succeeded" <=> old.status = "succeeded"

(* The statements that repeat, claim, start and fail a job, each under the *)
(* condition its callers check.                                            *)
LEMMA RowsFollow ==
    ASSUME NEW row \in JobRow, row.status # "absent"
    PROVE  /\ Follows(row, row)
           /\ Follows([row EXCEPT !.due = TRUE], row)
           /\ Follows([row EXCEPT !.lock = "expired"], row)
           /\ row.status # "succeeded" => Follows(RequeuedRow(row), row)
           /\ ClaimableJob(row) => Follows(ClaimedRow(row), row)
           /\ Follows(Started(row), row)
           /\ Follows(Undelivered(row), row)
           /\ row.status # "succeeded"
                => \A again \in BOOLEAN : Follows(FailedRow(row, again), row)
<1> USE DEF JobRow, JobStatus, Follows
<1>1. Follows(row, row) /\ Follows([row EXCEPT !.due = TRUE], row)
      /\ Follows([row EXCEPT !.lock = "expired"], row)
  OBVIOUS
<1>2. row.status # "succeeded" => Follows(RequeuedRow(row), row)
  BY DEF RequeuedRow
<1>3. ClaimableJob(row) => Follows(ClaimedRow(row), row)
  BY DEF ClaimableJob, ClaimedRow
<1>4. Follows(Started(row), row)
  <2>1. CASE row.status = "succeeded"
    BY <2>1 DEF Started
  <2>2. CASE row.status # "succeeded"
    <3>1. Started(row) = [row EXCEPT !.status = "running", !.attempts = @ + 1, !.due = TRUE]
      BY <2>2 DEF Started
    <3>2. row.attempts + 1 \in Nat
      OBVIOUS
    <3> QED
      BY <2>2, <3>1, <3>2
  <2> QED
    BY <2>1, <2>2
<1>5. Follows(Undelivered(row), row)
  BY DEF Undelivered
<1>6. ASSUME NEW again \in BOOLEAN, row.status # "succeeded"
      PROVE  Follows(FailedRow(row, again), row)
  BY <1>6 DEF FailedRow
<1> QED
  BY <1>1, <1>2, <1>3, <1>4, <1>5, <1>6

LEMMA DocumentsBegin == RunsInit => DocumentsInv
<1> SUFFICES ASSUME RunsInit PROVE DocumentsInv
  OBVIOUS
<1> USE DEF RunsInit
<1>1. DocumentsTypeOK
  BY DEF DocumentsTypeOK, NoRow, JobRow, JobStatus, Idle
<1>2. Known
  BY DEF Known, Idle
<1>3. RunsAgree
  BY DEF RunsAgree, NoRow, Decided
<1> QED
  BY <1>1, <1>2, <1>3 DEF DocumentsInv

-----------------------------------------------------------------------------
(* A step that changes rows of existing jobs only, in one of the ways      *)
(* above, or lets a job succeed, leaves every job where it is.             *)
Onward ==
    /\ job' \in [Jobs -> JobRow]
    /\ \A d \in Jobs : job'[d].status = "absent" <=> job[d].status = "absent"

LEMMA RowChange ==
    ASSUME DocumentsTypeOK, NEW d \in Jobs, job[d].status # "absent",
           NEW row \in JobRow, row.status # "absent",
           job' = job \/ job' = [job EXCEPT ![d] = row]
    PROVE  Onward
BY DEF Onward, DocumentsTypeOK

LEMMA Unchanged == ASSUME DocumentsTypeOK, UNCHANGED job PROVE Onward
BY DEF Onward, DocumentsTypeOK

(* The part of the type that speaks of the jobs and of their order.        *)
LEMMA OnwardOK ==
    ASSUME DocumentsTypeOK, Onward, UNCHANGED made
    PROVE  /\ job' \in [Jobs -> JobRow] /\ made' \in Seq(Jobs)
           /\ \A d \in Jobs : job'[d].status = "absent"
                                <=> d \notin {made'[i] : i \in DOMAIN made'}
           /\ \A d : Exists(d) => Exists(d)'
BY DEF Onward, DocumentsTypeOK, Exists

-----------------------------------------------------------------------------
(* Every step keeps the types, and what is on its way known.               *)
LEMMA AsksTypes ==
    ASSUME DocumentsInv, NEW r \in Requests
    PROVE  /\ \A d \in Jobs : QueueDocument(r, d) => DocumentsTypeOK' /\ Known'
           /\ \A d \in Jobs : RequeueDocument(r, d) => DocumentsTypeOK' /\ Known'
           /\ \A answer \in {"sent", "refused"}, arrives \in BOOLEAN :
                 Publish(r, answer, arrives) => DocumentsTypeOK' /\ Known'
           /\ MarkDispatch(r) => DocumentsTypeOK' /\ Known'
           /\ RequestEnds(r) => DocumentsTypeOK' /\ Known'
<1> USE DEF DocumentsInv
<1>0. ASSUME NEW d \in Jobs PROVE job[d] \in JobRow
  BY DEF DocumentsTypeOK
<1>1. ASSUME NEW d \in Jobs, QueueDocument(r, d) PROVE DocumentsTypeOK' /\ Known'
  <2> DEFINE own == IF KeepsPayload(d) THEN named[d] ELSE job[d].status = "absent"
             row == Submitted(d)
  <2>1. own \in BOOLEAN
    BY DEF DocumentsTypeOK, KeepsPayload
  <2>2. row \in JobRow /\ row.status # "absent"
    <3>1. QueuedRow \in JobRow /\ QueuedRow.status # "absent"
      BY DEF QueuedRow, NoRow, JobRow, JobStatus
    <3> QED
      BY <3>1, <1>0, RowsFollow DEF Submitted, Follows
  <2>3. job' = [job EXCEPT ![d] = row]
    BY <1>1 DEF QueueDocument
  <2>4. job' \in [Jobs -> JobRow] /\ \A e : Exists(e) => Exists(e)'
    BY <2>2, <2>3 DEF DocumentsTypeOK, Exists
  <2>5. /\ made' \in Seq(Jobs)
        /\ \A e \in Jobs : job'[e].status = "absent"
                               <=> e \notin {made'[i] : i \in DOMAIN made'}
    <3>1. CASE job[d].status = "absent"
      <4>1. made' = Append(made, d) /\ made \in Seq(Jobs)
        BY <1>1, <3>1 DEF QueueDocument, DocumentsTypeOK
      <4>2. {made'[i] : i \in DOMAIN made'} = {made[i] : i \in DOMAIN made} \cup {d}
        BY <4>1
      <4>3. made' \in Seq(Jobs)
        BY <4>1
      <4>4. ASSUME NEW e \in Jobs
            PROVE  job'[e].status = "absent" <=> e \notin {made'[i] : i \in DOMAIN made'}
        <5>1. job[e].status = "absent" <=> e \notin {made[i] : i \in DOMAIN made}
          BY DEF DocumentsTypeOK
        <5>2. CASE e = d
          BY <5>2, <4>2, <2>2, <2>3 DEF DocumentsTypeOK
        <5>3. CASE e # d
          BY <5>1, <5>3, <4>2, <2>3 DEF DocumentsTypeOK
        <5> QED
          BY <5>2, <5>3
      <4> QED
        BY <4>3, <4>4
    <3>2. CASE job[d].status # "absent"
      <4>1. made' = made
        BY <1>1, <3>2 DEF QueueDocument
      <4> QED
        BY <4>1, <3>2, <2>2, <2>3 DEF DocumentsTypeOK
    <3> QED
      BY <3>1, <3>2
  <2>6. run' \in [Jobs -> {"none", "processing", "pending_review"} \cup Decided]
    BY <1>1 DEF QueueDocument, DocumentsTypeOK, RunOf
  <2>7. /\ request' = request
           \/ request' = [request EXCEPT ![r] = [pc |-> "publish", doc |-> d, own |-> own]]
        /\ named' = [named EXCEPT ![d] = own] /\ requests' = requests + 1
        /\ UNCHANGED <<transport, candidate, work, queue, reports>>
    BY <1>1 DEF QueueDocument
  <2>8. Exists(d)'
    BY <2>2, <2>3, <2>4 DEF Exists, DocumentsTypeOK
  <2>9. DocumentsTypeOK'
    <3>1. [pc |-> "publish", doc |-> d, own |-> own]
            \in [pc : {"idle", "publish", "sent", "refused"}, doc : Jobs \cup {NoDocument}, own : BOOLEAN]
      BY <2>1
    <3>2. request' \in [Requests -> [pc : {"idle", "publish", "sent", "refused"},
                                     doc : Jobs \cup {NoDocument}, own : BOOLEAN]]
      BY <2>7, <3>1 DEF DocumentsTypeOK
    <3>3. named' \in [Jobs -> BOOLEAN] /\ requests' \in Nat
      BY <2>1, <2>7 DEF DocumentsTypeOK
    <3> HIDE DEF own, row
    <3> QED
      BY <2>4, <2>5, <2>6, <2>7, <3>2, <3>3 DEF DocumentsTypeOK
  <2>10. Known'
    BY <2>4, <2>7, <2>8 DEF Known, DocumentsTypeOK
  <2> QED
    BY <2>9, <2>10
<1>2. ASSUME NEW d \in Jobs, RequeueDocument(r, d) PROVE DocumentsTypeOK' /\ Known'
  <2>1. job[d].status # "absent" /\ job[d].status # "succeeded"
    BY <1>2 DEF RequeueDocument, CanRequeue
  <2>2. RequeuedRow(job[d]) \in JobRow /\ RequeuedRow(job[d]).status # "absent"
    BY <2>1, <1>0, RowsFollow DEF Follows
  <2>3. Onward /\ UNCHANGED made
    BY <1>2, <2>1, <2>2, RowChange DEF RequeueDocument
  <2>4. Exists(d)' /\ \A e : Exists(e) => Exists(e)'
    BY <2>1, <2>3, OnwardOK DEF Exists
  <2> QED
    BY <1>2, <2>3, <2>4, OnwardOK DEF RequeueDocument, DocumentsTypeOK, Known
<1>3. ASSUME NEW answer \in {"sent", "refused"}, NEW arrives \in BOOLEAN,
             Publish(r, answer, arrives)
      PROVE  DocumentsTypeOK' /\ Known'
  <2>1. Exists(request[r].doc)
    BY <1>3 DEF Known, Publish
  <2>2. Onward /\ UNCHANGED made
    BY <1>3, Unchanged DEF Publish
  <2>3. [doc |-> request[r].doc, own |-> request[r].own] \in Message
    BY <2>1 DEF DocumentsTypeOK, Message, Exists
  <2> QED
    BY <1>3, <2>1, <2>2, <2>3, OnwardOK DEF Publish, DocumentsTypeOK, Known
<1>4. ASSUME MarkDispatch(r) PROVE DocumentsTypeOK' /\ Known'
  <2> DEFINE d == request[r].doc
             row == IF request[r].pc = "sent" THEN Started(job[d]) ELSE Undelivered(job[d])
  <2>1. d \in Jobs /\ job[d].status # "absent"
    BY <1>4 DEF MarkDispatch, Known, Exists
  <2>2. row \in JobRow /\ row.status # "absent"
    BY <2>1, <1>0, RowsFollow DEF Follows
  <2>3. Onward /\ UNCHANGED made
    BY <1>4, <2>1, <2>2, RowChange DEF MarkDispatch
  <2>4. request' \in [Requests -> [pc : {"idle", "publish", "sent", "refused"},
                                   doc : Jobs \cup {NoDocument}, own : BOOLEAN]]
    BY <1>4 DEF MarkDispatch, DocumentsTypeOK, Idle
  <2> QED
    BY <1>4, <2>3, <2>4, OnwardOK DEF MarkDispatch, DocumentsTypeOK, Known, Idle
<1>5. ASSUME RequestEnds(r) PROVE DocumentsTypeOK' /\ Known'
  <2>1. Onward /\ UNCHANGED made
    BY <1>5, Unchanged DEF RequestEnds
  <2> QED
    BY <1>5, <2>1, OnwardOK DEF RequestEnds, DocumentsTypeOK, Known, Idle
<1> QED
  BY <1>1, <1>2, <1>3, <1>4, <1>5

(* The workers of both transports change no row but the one they claim.    *)
LEMMA WorksTypes == DocumentsInv /\ Works => DocumentsTypeOK' /\ Known'
<1> SUFFICES ASSUME DocumentsInv, Works PROVE DocumentsTypeOK' /\ Known'
  OBVIOUS
<1> USE DEF DocumentsInv
<1>1. ASSUME NEW w \in Workers, NEW said \in SUBSET Report,
             WorkEnds(w, said), \A m \in said : m.doc = work[w]
      PROVE  DocumentsTypeOK' /\ Known'
  <2>1. Exists(work[w])
    BY <1>1 DEF WorkEnds, Known
  <2>2. Onward /\ UNCHANGED made
    BY <1>1, Unchanged DEF WorkEnds
  <2> QED
    BY <1>1, <2>1, <2>2, OnwardOK DEF WorkEnds, DocumentsTypeOK, Known
<1>2. ASSUME NEW w \in Workers, WorkDone(w) PROVE DocumentsTypeOK' /\ Known'
  <2> DEFINE result == ResultOf([doc |-> work[w], own |-> TRUE])
  <2>1. work[w] \in Jobs
    BY <1>2 DEF WorkDone, WorkEnds, DocumentsTypeOK
  <2>2. result \in Report /\ result.doc = work[w]
    BY <2>1 DEF ResultOf, Report
  <2>3. ASSUME NEW retryable \in BOOLEAN
        PROVE  /\ FailureOf(work[w], retryable) \in Report
               /\ FailureOf(work[w], retryable).doc = work[w]
    BY <2>1 DEF FailureOf, Report
  <2>4. PICK said \in {{}, {result}} \cup
                      {{FailureOf(work[w], retryable)} : retryable \in BOOLEAN} \cup
                      {{result, FailureOf(work[w], TRUE)}} : WorkEnds(w, said)
    BY <1>2 DEF WorkDone
  <2> HIDE DEF result
  <2>5. said \in SUBSET Report /\ \A m \in said : m.doc = work[w]
    BY <2>2, <2>3
  <2> QED
    BY <1>1, <2>4, <2>5
<1>3. ASSUME NEW w \in Workers, NEW d \in Jobs, ClaimDocument(w, d)
      PROVE  DocumentsTypeOK' /\ Known'
  <2>1. job[d] \in JobRow /\ job[d].status # "absent"
    BY <1>3 DEF ClaimDocument, ClaimableJob, DocumentsTypeOK
  <2>2. ClaimedRow(job[d]) \in JobRow /\ ClaimedRow(job[d]).status # "absent"
    BY <1>3, <2>1, RowsFollow DEF ClaimDocument, Follows
  <2>3. Onward /\ UNCHANGED made
    BY <1>3, <2>1, <2>2, RowChange DEF ClaimDocument
  <2>4. Exists(d)'
    BY <2>1, <2>3, OnwardOK DEF Exists
  <2> QED
    BY <1>3, <2>3, <2>4, OnwardOK DEF ClaimDocument, DocumentsTypeOK, Known
<1>4. ASSUME NEW m \in queue, DeadLetter(m) PROVE DocumentsTypeOK' /\ Known'
  <2>1. Onward /\ UNCHANGED made
    BY <1>4, Unchanged DEF DeadLetter
  <2> QED
    BY <1>4, <2>1, OnwardOK DEF DeadLetter, DocumentsTypeOK, Known
<1>5. ASSUME NEW m \in queue, NEW again \in BOOLEAN, Extract(m, again)
      PROVE  DocumentsTypeOK' /\ Known'
  <2>1. ResultOf(m) \in Report /\ Exists(ResultOf(m).doc)
    BY DEF Known, ResultOf, Report, DocumentsTypeOK, Message
  <2>2. Onward /\ UNCHANGED made
    BY <1>5, Unchanged DEF Extract
  <2> QED
    BY <1>5, <2>1, <2>2, OnwardOK DEF Extract, DocumentsTypeOK, Known
<1> QED
  BY <1>2, <1>3, <1>4, <1>5 DEF Works

(* Reports, also those of what was decided long ago, keep the types.       *)
LEMMA ReportsTypes == DocumentsInv /\ Reports => DocumentsTypeOK' /\ Known'
<1> SUFFICES ASSUME DocumentsInv, NEW m \in reports,
                    \/ \E found \in SUBSET Programs, again \in BOOLEAN : ApplyResult(m, found, again)
                    \/ RefuseResult(m)
                    \/ MarkJobFailure(m)
             PROVE  DocumentsTypeOK' /\ Known'
  BY DEF Reports
<1> USE DEF DocumentsInv
<1>0. m \in Report /\ m.doc \in Jobs /\ job[m.doc] \in JobRow /\ job[m.doc].status # "absent"
  BY DEF DocumentsTypeOK, Known, Exists, Report
<1>1. ASSUME NEW found \in SUBSET Programs, NEW again \in BOOLEAN, ApplyResult(m, found, again)
      PROVE  DocumentsTypeOK' /\ Known'
  <2>1. AppliedRow(m.doc) \in JobRow /\ AppliedRow(m.doc).status # "absent"
    BY <1>0 DEF AppliedRow, JobRow, JobStatus
  <2>2. Onward /\ UNCHANGED made
    BY <1>0, <1>1, <2>1, RowChange DEF ApplyResult
  <2>3. run' \in [Jobs -> {"none", "processing", "pending_review"} \cup Decided]
    BY <1>1 DEF ApplyResult, DocumentsTypeOK
  <2>4. candidate' \in [Jobs -> [Programs -> {"none", "pending"} \cup Decided]]
    <3> DEFINE reviews == [p \in Programs |-> IF p \in found /\ candidate[m.doc][p] = "none"
                                              THEN "pending" ELSE candidate[m.doc][p]]
    <3>1. reviews \in [Programs -> {"none", "pending"} \cup Decided]
      BY <1>0 DEF DocumentsTypeOK
    <3>2. candidate' = candidate \/ candidate' = [candidate EXCEPT ![m.doc] = reviews]
      BY <1>1 DEF ApplyResult
    <3> HIDE DEF reviews
    <3> QED
      BY <3>1, <3>2, <1>0 DEF DocumentsTypeOK
  <2>5. /\ reports' \subseteq reports
        /\ UNCHANGED <<transport, named, request, work, queue, requests>>
    BY <1>1 DEF ApplyResult, Received
  <2> QED
    BY <2>2, <2>3, <2>4, <2>5, OnwardOK DEF DocumentsTypeOK, Known
<1>2. ASSUME RefuseResult(m) PROVE DocumentsTypeOK' /\ Known'
  <2>1. job[m.doc].status # "succeeded" =>
           FailedRow(job[m.doc], FALSE) \in JobRow /\ FailedRow(job[m.doc], FALSE).status # "absent"
    BY <1>0, RowsFollow DEF Follows
  <2>2. Onward /\ UNCHANGED made
    <3>1. CASE transport = "broker" /\ m.own /\ job[m.doc].status # "succeeded"
      BY <1>0, <1>2, <2>1, <3>1, RowChange DEF RefuseResult
    <3>2. CASE ~(transport = "broker" /\ m.own /\ job[m.doc].status # "succeeded")
      BY <1>2, <3>2, Unchanged DEF RefuseResult
    <3> QED
      BY <3>1, <3>2
  <2>3. FailureOf(m.doc, FALSE) \in Report /\ FailureOf(m.doc, FALSE).doc = m.doc
    BY <1>0 DEF FailureOf, Report
  <2>4. /\ reports' \subseteq reports \cup {FailureOf(m.doc, FALSE)}
        /\ UNCHANGED <<transport, named, run, candidate, request, work, queue, requests>>
    BY <1>2 DEF RefuseResult
  <2>5. \A n \in reports' : n \in Report /\ Exists(n.doc)
    BY <1>0, <2>3, <2>4 DEF Known, Exists, DocumentsTypeOK
  <2> QED
    BY <2>2, <2>4, <2>5, OnwardOK DEF DocumentsTypeOK, Known
<1>3. ASSUME MarkJobFailure(m) PROVE DocumentsTypeOK' /\ Known'
  <2>1. m.retryable \in BOOLEAN
    BY <1>0 DEF Report
  <2>2. job[m.doc].status # "succeeded" =>
           /\ FailedRow(job[m.doc], m.retryable) \in JobRow
           /\ FailedRow(job[m.doc], m.retryable).status # "absent"
    BY <1>0, <2>1, RowsFollow DEF Follows
  <2>3. Onward /\ UNCHANGED made
    <3>1. CASE job[m.doc].status # "succeeded"
      BY <1>0, <1>3, <2>2, <3>1, RowChange DEF MarkJobFailure
    <3>2. CASE job[m.doc].status = "succeeded"
      BY <1>3, <3>2, Unchanged DEF MarkJobFailure
    <3> QED
      BY <3>1, <3>2
  <2> QED
    BY <1>3, <2>3, OnwardOK DEF MarkJobFailure, Received, DocumentsTypeOK, Known
<1> QED
  BY <1>1, <1>2, <1>3

(* Reviews touch no job.                                                   *)
LEMMA ReviewsTypes == DocumentsInv /\ Reviews => DocumentsTypeOK' /\ Known'
<1> SUFFICES ASSUME DocumentsInv, NEW d \in Jobs,
                    \/ RejectRun(d)
                    \/ \E p \in Programs, decision \in Decided : ReviewCandidate(d, p, decision)
             PROVE  DocumentsTypeOK' /\ Known'
  BY DEF Reviews
<1> USE DEF DocumentsInv
<1>1. ASSUME RejectRun(d) PROVE DocumentsTypeOK' /\ Known'
  <2>1. Onward /\ UNCHANGED made
    BY <1>1, Unchanged DEF RejectRun
  <2>2. [p \in Programs |-> IF candidate[d][p] = "pending" THEN "rejected" ELSE candidate[d][p]]
          \in [Programs -> {"none", "pending"} \cup Decided]
    BY DEF DocumentsTypeOK, Decided
  <2>3. candidate' \in [Jobs -> [Programs -> {"none", "pending"} \cup Decided]]
    BY <1>1, <2>2 DEF RejectRun, DocumentsTypeOK
  <2>4. run' \in [Jobs -> {"none", "processing", "pending_review"} \cup Decided]
    BY <1>1 DEF RejectRun, DocumentsTypeOK, Decided
  <2>5. UNCHANGED <<transport, named, request, work, queue, reports, requests>>
    BY <1>1 DEF RejectRun
  <2> QED
    BY <2>1, <2>3, <2>4, <2>5, OnwardOK DEF DocumentsTypeOK, Known
<1>2. ASSUME NEW p \in Programs, NEW decision \in Decided, ReviewCandidate(d, p, decision)
      PROVE  DocumentsTypeOK' /\ Known'
  <2>1. Onward /\ UNCHANGED made
    BY <1>2, Unchanged DEF ReviewCandidate
  <2>2. [candidate[d] EXCEPT ![p] = decision] \in [Programs -> {"none", "pending"} \cup Decided]
    BY DEF DocumentsTypeOK
  <2>3. candidate' \in [Jobs -> [Programs -> {"none", "pending"} \cup Decided]]
    BY <1>2, <2>2 DEF ReviewCandidate, DocumentsTypeOK
  <2>4. run' \in [Jobs -> {"none", "processing", "pending_review"} \cup Decided]
    BY <1>2 DEF ReviewCandidate, Outcome, DocumentsTypeOK, Decided
  <2>5. UNCHANGED <<transport, named, request, work, queue, reports, requests>>
    BY <1>2 DEF ReviewCandidate
  <2> QED
    BY <2>1, <2>3, <2>4, <2>5, OnwardOK DEF DocumentsTypeOK, Known
<1> QED
  BY <1>1, <1>2

(* The clock moves a lease or a waiting time of a job that exists; a row   *)
(* without one has neither.                                                *)
LEMMA TimeTypes == DocumentsInv /\ Time => DocumentsTypeOK' /\ Known'
<1> SUFFICES ASSUME DocumentsInv, NEW d \in Jobs, LeaseExpires(d) \/ BackoffElapses(d),
                    UNCHANGED <<transport, made, named, run, candidate, request, work, queue,
                                reports, requests>>
             PROVE  DocumentsTypeOK' /\ Known'
  BY DEF Time
<1>1. job[d] \in JobRow
  BY DEF DocumentsInv, DocumentsTypeOK
<1>2. Onward
  <2>1. PICK row \in JobRow : row.status = job[d].status /\ job' = [job EXCEPT ![d] = row]
    <3>1. CASE LeaseExpires(d)
      <4>1. [job[d] EXCEPT !.lock = "expired"] \in JobRow
        BY <1>1 DEF JobRow
      <4> QED
        BY <1>1, <3>1, <4>1 DEF LeaseExpires, JobRow
    <3>2. CASE BackoffElapses(d)
      <4>1. [job[d] EXCEPT !.due = TRUE] \in JobRow
        BY <1>1 DEF JobRow
      <4> QED
        BY <1>1, <3>2, <4>1 DEF BackoffElapses, JobRow
    <3> QED
      BY <3>1, <3>2
  <2> QED
    BY <1>1, <2>1 DEF DocumentsInv, Onward, DocumentsTypeOK
<1> QED
  BY <1>2, OnwardOK DEF DocumentsInv, DocumentsTypeOK, Known

LEMMA DocumentsTypeStep == DocumentsInv /\ [RunsNext]_runVars => DocumentsTypeOK' /\ Known'
<1> SUFFICES ASSUME DocumentsInv, [RunsNext]_runVars PROVE DocumentsTypeOK' /\ Known'
  OBVIOUS
<1>1. CASE Asks
  BY <1>1, AsksTypes DEF Asks
<1>2. CASE UNCHANGED runVars
  BY <1>2 DEF DocumentsInv, DocumentsTypeOK, Known, Exists, runVars
<1> QED
  BY <1>1, <1>2, WorksTypes, ReportsTypes, ReviewsTypes, TimeTypes DEF RunsNext

-----------------------------------------------------------------------------
(* Most steps leave runs and candidates alone, and let no job of a         *)
(* brochure succeed or come back from it.                                  *)
Quiet ==
    /\ UNCHANGED <<run, candidate>>
    /\ \A d \in Jobs \ Lists : job'[d].status = "succeeded" <=> job[d].status = "succeeded"

LEMMA RowQuiet ==
    ASSUME DocumentsTypeOK, NEW d \in Jobs, NEW row, Follows(row, job[d]),
           UNCHANGED <<run, candidate>>, job' = job \/ job' = [job EXCEPT ![d] = row]
    PROVE  Quiet
BY DEF Quiet, Follows, DocumentsTypeOK

LEMMA AsksQuiet ==
    ASSUME DocumentsInv, NEW r \in Requests,
           \/ \E d \in Jobs : RequeueDocument(r, d)
           \/ \E answer \in {"sent", "refused"}, arrives \in BOOLEAN : Publish(r, answer, arrives)
           \/ MarkDispatch(r)
           \/ RequestEnds(r)
    PROVE  Quiet
<1>1. ASSUME NEW d \in Jobs, RequeueDocument(r, d) PROVE Quiet
  <2>1. job[d] \in JobRow /\ job[d].status # "absent" /\ job[d].status # "succeeded"
    BY <1>1 DEF DocumentsInv, DocumentsTypeOK, RequeueDocument, CanRequeue
  <2> QED
    BY <1>1, <2>1, RowsFollow, RowQuiet DEF DocumentsInv, RequeueDocument
<1>2. ASSUME MarkDispatch(r) PROVE Quiet
  <2> DEFINE d == request[r].doc
             row == IF request[r].pc = "sent" THEN Started(job[d]) ELSE Undelivered(job[d])
  <2>1. d \in Jobs /\ job[d] \in JobRow /\ job[d].status # "absent"
    BY <1>2 DEF DocumentsInv, Known, Exists, MarkDispatch, DocumentsTypeOK
  <2>2. Follows(row, job[d])
    BY <2>1, RowsFollow
  <2>3. UNCHANGED <<run, candidate>> /\ (job' = job \/ job' = [job EXCEPT ![d] = row])
    BY <1>2 DEF MarkDispatch
  <2> QED
    BY <2>1, <2>2, <2>3, RowQuiet DEF DocumentsInv
<1>3. ASSUME RequestEnds(r) \/ \E answer, arrives : Publish(r, answer, arrives) PROVE Quiet
  BY <1>3 DEF Quiet, RequestEnds, Publish
<1> QED
  BY <1>1, <1>2, <1>3

LEMMA WorksQuiet == ASSUME DocumentsInv, Works PROVE Quiet
<1>1. ASSUME NEW w \in Workers, NEW d \in Jobs, ClaimDocument(w, d) PROVE Quiet
  <2>1. job[d] \in JobRow /\ job[d].status # "absent"
    BY <1>1 DEF ClaimDocument, ClaimableJob, DocumentsInv, DocumentsTypeOK
  <2> QED
    BY <1>1, <2>1, RowsFollow, RowQuiet DEF DocumentsInv, ClaimDocument
<1>2. ASSUME NEW w \in Workers, WorkDone(w) PROVE Quiet
  BY <1>2 DEF Quiet, WorkDone, WorkEnds
<1>3. ASSUME NEW m \in queue, DeadLetter(m) \/ \E again \in BOOLEAN : Extract(m, again) PROVE Quiet
  BY <1>3 DEF Quiet, DeadLetter, Extract
<1> QED
  BY <1>1, <1>2, <1>3 DEF Works

LEMMA FailuresQuiet ==
    ASSUME DocumentsInv, NEW m \in reports, RefuseResult(m) \/ MarkJobFailure(m)
    PROVE  Quiet
<1>1. m \in Report /\ m.doc \in Jobs /\ job[m.doc] \in JobRow /\ job[m.doc].status # "absent"
  BY DEF DocumentsInv, DocumentsTypeOK, Known, Exists, Report
<1>2. m.retryable \in BOOLEAN
  BY <1>1 DEF Report
<1>3. CASE job[m.doc].status = "succeeded"
  BY <1>3 DEF Quiet, RefuseResult, MarkJobFailure
<1>4. CASE job[m.doc].status # "succeeded"
  <2>1. \A again \in BOOLEAN : Follows(FailedRow(job[m.doc], again), job[m.doc])
    BY <1>1, <1>4, RowsFollow
  <2>2. CASE RefuseResult(m)
    <3>1. /\ UNCHANGED <<run, candidate>>
          /\ job' = job \/ job' = [job EXCEPT ![m.doc] = FailedRow(job[m.doc], FALSE)]
      BY <2>2 DEF RefuseResult
    <3> QED
      BY <1>1, <2>1, <3>1, RowQuiet DEF DocumentsInv
  <2>3. CASE MarkJobFailure(m)
    <3>1. /\ UNCHANGED <<run, candidate>>
          /\ job' = [job EXCEPT ![m.doc] = FailedRow(job[m.doc], m.retryable)]
      BY <1>4, <2>3 DEF MarkJobFailure
    <3> QED
      BY <1>1, <1>2, <2>1, <3>1, RowQuiet DEF DocumentsInv
  <2> QED
    BY <2>2, <2>3
<1> QED
  BY <1>3, <1>4

LEMMA TimeQuiet == ASSUME DocumentsInv, Time PROVE Quiet
<1> PICK d \in Jobs : LeaseExpires(d) \/ BackoffElapses(d)
  BY DEF Time
<1>1. job[d] \in JobRow /\ UNCHANGED <<run, candidate>>
  BY DEF DocumentsInv, DocumentsTypeOK, Time
<1>2. job'[d].status = job[d].status /\ \A e \in Jobs \ {d} : job'[e] = job[e]
  BY <1>1 DEF DocumentsInv, DocumentsTypeOK, LeaseExpires, BackoffElapses, JobRow
<1> QED
  BY <1>1, <1>2 DEF Quiet

(* What any step does to a brochure and its run, so that the properties    *)
(* below need not look at every action again.                              *)
LEMMA NextRuns ==
    ASSUME DocumentsInv, [RunsNext]_runVars
    PROVE  \/ Quiet
           \/ \E r \in Requests, d \in Jobs : QueueDocument(r, d)
           \/ \E m \in reports, found \in SUBSET Programs, again \in BOOLEAN :
                 ApplyResult(m, found, again)
           \/ \E d \in Jobs : RejectRun(d)
           \/ \E d \in Jobs, p \in Programs, decision \in Decided : ReviewCandidate(d, p, decision)
<1>1. CASE UNCHANGED runVars
  BY <1>1 DEF Quiet, runVars
<1>2. CASE Asks
  BY <1>2, AsksQuiet DEF Asks
<1>3. CASE Works
  BY <1>3, WorksQuiet
<1>4. CASE Reports
  BY <1>4, FailuresQuiet DEF Reports
<1>5. CASE Reviews
  BY <1>5 DEF Reviews
<1>6. CASE Time
  BY <1>6, TimeQuiet
<1> QED
  BY <1>1, <1>2, <1>3, <1>4, <1>5, <1>6 DEF RunsNext

-----------------------------------------------------------------------------
(* One step of the agreement for one brochure; a decision about a list is  *)
(* never taken.                                                            *)
Agrees(d) ==
    /\ job[d].status = "succeeded" <=> run[d] \in {"pending_review"} \cup Decided
    /\ run[d] \in Decided => \A p \in Programs : candidate[d][p] # "pending"
    /\ run[d] = "approved" => \A p \in Programs : candidate[d][p] # "rejected"

Stands(d) ==
    /\ run[d] \in Decided => run'[d] = run[d]
    /\ \A p \in Programs :
          candidate[d][p] \in Decided => candidate'[d][p] = candidate[d][p]

LEMMA RunStep ==
    ASSUME DocumentsInv, [RunsNext]_runVars, NEW d \in Jobs
    PROVE  Stands(d) /\ (d \notin Lists => Agrees(d)')
<1> USE DEF DocumentsInv
<1>0. /\ job[d] \in JobRow
      /\ run[d] \in {"none", "processing", "pending_review"} \cup Decided
      /\ candidate[d] \in [Programs -> {"none", "pending"} \cup Decided]
      /\ d \notin Lists => Agrees(d)
  BY DEF DocumentsTypeOK, RunsAgree, Agrees
<1>1. CASE Quiet
  BY <1>0, <1>1 DEF Quiet, Agrees, Stands
<1>2. ASSUME NEW r \in Requests, NEW e \in Jobs, QueueDocument(r, e)
      PROVE  Stands(d) /\ (d \notin Lists => Agrees(d)')
  <2>1. UNCHANGED candidate /\ (d # e => UNCHANGED <<run[d], job[d]>>)
    BY <1>2 DEF QueueDocument, DocumentsTypeOK
  <2>2. CASE d # e \/ d \in Lists
    BY <1>0, <1>2, <2>1, <2>2 DEF Agrees, Stands, QueueDocument, DocumentsTypeOK
  <2>3. CASE d = e /\ d \notin Lists
    <3>1. run'[d] = RunOf(d) /\ job'[d] = Submitted(d)
      BY <1>2, <2>3 DEF QueueDocument, DocumentsTypeOK
    <3>2. Submitted(d).status = "succeeded" <=> job[d].status = "succeeded"
      BY <1>0 DEF Submitted, QueuedRow, NoRow, RequeuedRow, JobRow, JobStatus
    <3>3. run[d] \in Decided => RunOf(d) = run[d]
      BY DEF RunOf, Decided
    <3>4. RunOf(d) \in {"pending_review"} \cup Decided <=> run[d] \in {"pending_review"} \cup Decided
      BY DEF RunOf, Decided
    <3>5. RunOf(d) \in Decided => RunOf(d) = run[d]
      BY DEF RunOf, Decided
    <3> QED
      BY <1>0, <2>1, <2>3, <3>1, <3>2, <3>3, <3>4, <3>5 DEF Agrees, Stands, Decided
  <2> QED
    BY <2>2, <2>3
<1>3. ASSUME NEW m \in reports, NEW found \in SUBSET Programs, NEW again \in BOOLEAN,
             ApplyResult(m, found, again)
      PROVE  Stands(d) /\ (d \notin Lists => Agrees(d)')
  <2>1. m.doc \in Jobs /\ job[m.doc] \in JobRow
    BY DEF DocumentsTypeOK, Known, Exists
  <2> DEFINE new == m.own /\ job[m.doc].status # "succeeded"
  <2>2. CASE ~new \/ m.doc # d \/ d \in Lists
    <3>1. UNCHANGED <<run[d], candidate[d]>> /\ (d \notin Lists => UNCHANGED job[d])
      BY <1>3, <2>1, <2>2 DEF ApplyResult, DocumentsTypeOK
    <3> QED
      BY <1>0, <3>1 DEF Agrees, Stands
  <2>3. CASE new /\ m.doc = d /\ d \notin Lists
    <3>1. run[d] \notin Decided
      BY <1>0, <2>3 DEF Agrees
    <3>2. run'[d] = "pending_review" /\ job'[d] = AppliedRow(d)
      BY <1>3, <2>3 DEF ApplyResult, DocumentsTypeOK
    <3>3. AppliedRow(d).status = "succeeded"
      BY <1>0 DEF AppliedRow, JobRow
    <3>4. \A p \in Programs : candidate'[d][p] =
              IF p \in found /\ candidate[d][p] = "none" THEN "pending" ELSE candidate[d][p]
      BY <1>3, <2>3 DEF ApplyResult, DocumentsTypeOK
    <3> QED
      BY <1>0, <3>1, <3>2, <3>3, <3>4 DEF Agrees, Stands, Decided
  <2> QED
    BY <2>2, <2>3
<1>4. ASSUME NEW e \in Jobs, RejectRun(e) PROVE Stands(d) /\ (d \notin Lists => Agrees(d)')
  <2>1. CASE d # e
    BY <1>0, <1>4, <2>1 DEF RejectRun, DocumentsTypeOK, Agrees, Stands
  <2>2. CASE d = e
    <3>1. run[d] = "pending_review" /\ run'[d] = "rejected" /\ UNCHANGED job
      BY <1>4, <2>2 DEF RejectRun, DocumentsTypeOK
    <3>2. \A p \in Programs : candidate'[d][p] =
              IF candidate[d][p] = "pending" THEN "rejected" ELSE candidate[d][p]
      BY <1>4, <2>2 DEF RejectRun, DocumentsTypeOK
    <3> QED
      BY <1>0, <3>1, <3>2 DEF Agrees, Stands, Decided
  <2> QED
    BY <2>1, <2>2
<1>5. ASSUME NEW e \in Jobs, NEW p \in Programs, NEW decision \in Decided,
             ReviewCandidate(e, p, decision)
      PROVE  Stands(d) /\ (d \notin Lists => Agrees(d)')
  <2>1. CASE d # e
    BY <1>0, <1>5, <2>1 DEF ReviewCandidate, DocumentsTypeOK, Agrees, Stands
  <2>2. CASE d = e
    <3> DEFINE reviews == [candidate[d] EXCEPT ![p] = decision]
    <3>1. /\ run[d] = "pending_review" /\ candidate[d][p] = "pending" /\ UNCHANGED job
          /\ candidate'[d] = reviews
          /\ run'[d] = IF \E q \in Programs : reviews[q] = "pending" THEN run[d]
                       ELSE Outcome(reviews)
      BY <1>5, <2>2 DEF ReviewCandidate, DocumentsTypeOK
    <3>2. \A q \in Programs : reviews[q] = IF q = p THEN decision ELSE candidate[d][q]
      BY <1>0
    <3> HIDE DEF reviews
    <3> QED
      BY <1>0, <3>1, <3>2 DEF Agrees, Stands, Decided, Outcome
  <2> QED
    BY <2>1, <2>2
<1> QED
  BY <1>1, <1>2, <1>3, <1>4, <1>5, NextRuns

-----------------------------------------------------------------------------
LEMMA Inductive == DocumentsInv /\ [RunsNext]_runVars => DocumentsInv'
<1> SUFFICES ASSUME DocumentsInv, [RunsNext]_runVars PROVE DocumentsInv'
  OBVIOUS
<1>1. RunsAgree'
  BY RunStep DEF RunsAgree, Agrees
<1> QED
  BY <1>1, DocumentsTypeStep DEF DocumentsInv

(* Whatever is submitted, delivered, failed and reviewed, in any order and *)
(* any number of times, the state is of its type, and a brochure's job has *)
(* succeeded exactly when its run is under review or decided, with a       *)
(* decision that agrees with those about its candidates                    *)
(* (ApplyExtractionResult, queueDocumentJob, ReviewCandidate, ReviewRun).  *)
THEOREM JobsAndRunsAgree == RunsSpec => []RunsHold
<1>1. DocumentsInv => RunsHold
  BY DEF DocumentsInv, RunsHold
<1> QED
  BY <1>1, DocumentsBegin, Inductive, PTL DEF RunsSpec

(* No submission, retry, late failure or repeated result opens a decision  *)
(* again (ApplyExtractionResult, the ON CONFLICT of queueDocumentJob).     *)
THEOREM DecisionsAreFinal == RunsSpec => DecisionsStand
<1>1. DocumentsInv /\ [RunsNext]_runVars =>
         [\A d \in Jobs :
            /\ run[d] \in Decided => run'[d] = run[d]
            /\ \A p \in Programs :
                  candidate[d][p] \in Decided => candidate'[d][p] = candidate[d][p]]_runVars
  BY RunStep DEF Stands
<1> QED
  BY <1>1, DocumentsBegin, Inductive, PTL DEF RunsSpec, DecisionsStand
=============================================================================

---------------------------- MODULE OutboxWorker ----------------------------
(***************************************************************************)
(* The worker of an outbox whose rows belong to subjects: SyncWorker of    *)
(* backend/internal/chat and DiscordSyncWorker of backend/internal/support *)
(* run the same loop over tables of the same shape.  queue[s] holds the    *)
(* rows of subject s in the order of created_at; a task is a pair <<s, k>>.*)
(*                                                                         *)
(* A module that uses this one adds to each step what the step does        *)
(* outside of the outbox.                                                  *)
(***************************************************************************)
EXTENDS OutboxRows, Sequences, FiniteSets

CONSTANTS Workers,
          NoTask,
          Slow          \* a pass may take longer than five minutes

VARIABLES queue,        \* queue[s]: the rows of s, each with a field "row"
          worker        \* worker[w]: the pass of w

Tasks == UNION {{s} \X DOMAIN queue[s] : s \in DOMAIN queue}

TaskRow(t) == queue[t[1]][t[2]].row

Pass(todo, item, step) == [todo |-> todo, item |-> item, step |-> step]

Idle == Pass({}, NoTask, "next")

WorkerInit == worker = [w \in Workers |-> Idle]

WorkerTypeOK ==
    \A w \in Workers :
        /\ worker[w].todo \subseteq Tasks
        /\ worker[w].step \in {"next", "sent", "failing"}
        /\ worker[w].item \in worker[w].todo \cup {NoTask}
        /\ (worker[w].item = NoTask) = (worker[w].step = "next")

SetRow(t, r) == queue' = [queue EXCEPT ![t[1]][t[2]].row = r]

-----------------------------------------------------------------------------
(* A faulty variant of Ready: an abandoned row lets the next one pass.     *)
ReadyPastAbandoned ==
    {t \in Tasks : Claimable(TaskRow(t))
                   /\ \A k \in 1..(t[2] - 1) :
                         TaskRow(<<t[1], k>>).status \in {"done", "abandoned"}}

-----------------------------------------------------------------------------
(* What may be claimed: a row that is due, behind rows that are all sent.  *)
Ready == {t \in Tasks : Claimable(TaskRow(t))
                        /\ \A k \in 1..(t[2] - 1) :
                              TaskRow(<<t[1], k>>).status = "done"}

(* SKIP LOCKED and the limit of a batch leave any rows out. *)
ClaimTasks(w, T) ==
    /\ worker[w] = Idle
    /\ T # {} /\ T \subseteq Ready
    /\ queue' = [s \in DOMAIN queue |-> [k \in DOMAIN queue[s] |->
                    IF <<s, k>> \in T
                    THEN [queue[s][k] EXCEPT !.row = ClaimedRow(@)]
                    ELSE queue[s][k]]]
    /\ worker' = [worker EXCEPT ![w] = Pass(T, NoTask, "next")]

(* The sender is done with a task: the platform has taken it, or not.      *)
TaskSent(w, t, step) ==
    /\ worker[w].step = "next" /\ t \in worker[w].todo
    /\ worker' = [worker EXCEPT ![w] = Pass(@.todo, t, step)]

LeavesTask(w) ==
    worker' = [worker EXCEPT ![w] = Pass(@.todo \ {@.item}, NoTask, "next")]

MarkTaskSent(w) ==
    /\ worker[w].step = "sent"
    /\ SetRow(worker[w].item, DoneRow(TaskRow(worker[w].item)))
    /\ LeavesTask(w)

MarkTaskFailed(w) ==
    /\ worker[w].step = "failing"
    /\ SetRow(worker[w].item, FailedRow(TaskRow(worker[w].item)))
    /\ LeavesTask(w)

(* A mark that fails: the mark "sent" is followed by the mark "failed",    *)
(* whose own failure is only reported.                                     *)
MarkBreaks(w) ==
    /\ \/ worker[w].step = "sent"
          /\ worker' = [worker EXCEPT ![w] = Pass(@.todo, @.item, "failing")]
       \/ worker[w].step = "failing" /\ LeavesTask(w)
    /\ UNCHANGED queue

Dies(w) ==
    /\ worker[w] # Idle
    /\ worker' = [worker EXCEPT ![w] = Idle]
    /\ UNCHANGED queue

(* Time: a row becomes due; a claim is five minutes old, which finds its   *)
(* worker dead unless passes are slow.                                     *)
Held(t) == \E w \in Workers : t \in worker[w].todo

TimePasses(t) ==
    /\ \/ Waits(TaskRow(t)) /\ SetRow(t, Due(TaskRow(t)))
       \/ Silent(TaskRow(t)) /\ (Slow \/ ~Held(t)) /\ SetRow(t, Stale(TaskRow(t)))
    /\ UNCHANGED worker
=============================================================================

---------------------------- MODULE OutboxProofs ----------------------------
(***************************************************************************)
(* Proofs about ChatSync and SupportTickets, whose outboxes are handled by *)
(* OutboxWorker: first one row and one step of such an outbox, for any     *)
(* subjects, rows and workers, then the chat, then the tickets.  Each      *)
(* theorem names what it needs: transactions on a message that do not      *)
(* overlap, passes that do not outlast their claims, commits that do not   *)
(* report an error.                                                        *)
(***************************************************************************)
EXTENDS ChatSync, SupportTickets, FiniteSetTheorems, TLAPS

-----------------------------------------------------------------------------
(***************************************************************************)
(* The outbox of SyncWorker and DiscordSyncWorker, in terms of the values  *)
(* of its variables: Q are the rows by subject, A the rows that arrived    *)
(* last, and W the passes of the workers V.                                *)

Passes(S, none) ==
    [todo : SUBSET (S \X Nat), item : (S \X Nat) \cup {none}, step : {"next", "sent", "failing"}]

RowOf(Q, t) == Q[t[1]][t[2]].row

\* Every row before the k-th was sent.
SentBefore(q, k) == \A j \in 1..(k - 1) : q[j].row.status = "done"

\* Rows leave "pending" in their order, and arrive before they are marked.
QueueHolds(q, n) ==
    /\ n \in 0..Len(q)
    /\ SentBefore(q, n)
    /\ \A k \in DOMAIN q : q[k].row.status # "pending" => SentBefore(q, k)
    /\ \A k \in DOMAIN q : q[k].row.status = "done" => k <= n

\* A row that a worker holds is claimed, and nobody else may claim it.
Claimed(Q, t) ==
    /\ t[2] \in DOMAIN Q[t[1]]
    /\ RowOf(Q, t).status = "processing" /\ RowOf(Q, t).stale = FALSE

PassHolds(Q, A, p, none) ==
    /\ \A t \in p.todo : Claimed(Q, t)
    /\ p.item = none <=> p.step = "next"
    /\ p.step # "next" => p.item \in p.todo
    /\ p.step = "sent" => p.item[2] <= A[p.item[1]]

OutboxHolds(S, R, V, none, Q, A, W) ==
    /\ Q \in [S -> Seq(R)] /\ A \in [S -> Nat] /\ W \in [V -> Passes(S, none)]
    /\ \A s \in S : QueueHolds(Q[s], A[s])
    /\ \A v \in V : PassHolds(Q, A, W[v], none)
    /\ \A v, w \in V : \A t \in W[v].todo : t \in W[w].todo => v = w

\* A row goes from one status to another.
Advances(q, r, n, k) ==
    /\ q[k].row.status # "done" /\ SentBefore(q, k)
    /\ r.status # "pending"
    /\ r.status = "done" => k <= n

LEMMA Domains ==
    ASSUME NEW R, NEW q \in Seq(R)
    PROVE  Len(q) \in Nat /\ DOMAIN q = 1..Len(q)
  OBVIOUS

\* Rows that change in the order of the queue leave it in order.
LEMMA RowsChange ==
    ASSUME NEW R, NEW q \in Seq(R), NEW p \in Seq(R), NEW n, QueueHolds(q, n),
           Len(p) = Len(q),
           \A k \in DOMAIN q : p[k].row.status = q[k].row.status \/ Advances(q, p[k].row, n, k)
    PROVE  QueueHolds(p, n)
<1>1. Len(q) \in Nat /\ DOMAIN q = 1..Len(q) /\ DOMAIN p = 1..Len(q) /\ n \in 0..Len(q)
  BY Domains DEF QueueHolds
<1>2. \A k \in DOMAIN q : q[k].row.status = "done" => p[k].row.status = "done"
  BY DEF Advances
<1>3. \A k \in 0..Len(q) : SentBefore(q, k) => SentBefore(p, k)
  <2> SUFFICES ASSUME NEW k \in 0..Len(q), SentBefore(q, k), NEW j \in 1..(k - 1)
               PROVE  p[j].row.status = "done"
    BY DEF SentBefore
  <2>1. j \in DOMAIN q
    BY <1>1
  <2> QED  BY <2>1, <1>2 DEF SentBefore
<1>4. SentBefore(p, n)
  BY <1>1, <1>3 DEF QueueHolds
<1>5. \A k \in DOMAIN p : p[k].row.status # "pending" => SentBefore(p, k)
  <2> TAKE k \in DOMAIN p
  <2> HAVE p[k].row.status # "pending"
  <2>1. k \in DOMAIN q /\ k \in 0..Len(q)
    BY <1>1
  <2>2. SentBefore(q, k)
    BY <2>1 DEF Advances, QueueHolds
  <2> QED  BY <2>1, <2>2, <1>3
<1>6. \A k \in DOMAIN p : p[k].row.status = "done" => k <= n
  BY <1>1 DEF Advances, QueueHolds
<1> QED  BY <1>1, <1>4, <1>5, <1>6 DEF QueueHolds

\* A row that is posted waits behind those before it (CreateOutboundTasks,
\* EnqueueDiscord).
LEMMA RowPosted ==
    ASSUME NEW R, NEW q \in Seq(R), NEW x \in R, NEW n, QueueHolds(q, n),
           x.row.status = "pending"
    PROVE  QueueHolds(Append(q, x), n)
<1> DEFINE p == Append(q, x)
<1>1. Len(q) \in Nat /\ DOMAIN q = 1..Len(q) /\ n \in 0..Len(q)
  BY Domains DEF QueueHolds
<1>2. /\ Len(p) = Len(q) + 1 /\ DOMAIN p = 1..(Len(q) + 1)
      /\ \A k \in 1..Len(q) : p[k] = q[k]
      /\ p[Len(q) + 1] = x
  OBVIOUS
<1> HIDE DEF p
<1>3. \A k \in 0..Len(q) : SentBefore(q, k) => SentBefore(p, k)
  BY <1>1, <1>2 DEF SentBefore
<1>4. SentBefore(p, n)
  BY <1>1, <1>3 DEF QueueHolds
<1>5. ASSUME NEW k \in DOMAIN p
      PROVE  /\ p[k].row.status # "pending" => SentBefore(p, k)
             /\ p[k].row.status = "done" => k <= n
  <2>1. CASE k = Len(q) + 1
    BY <2>1, <1>2
  <2>2. CASE k # Len(q) + 1
    <3>1. k \in DOMAIN q /\ k \in 0..Len(q) /\ p[k] = q[k]
      BY <2>2, <1>1, <1>2
    <3> QED  BY <3>1, <1>3 DEF QueueHolds
  <2> QED  BY <2>1, <2>2
<1>6. n \in 0..Len(p)
  BY <1>1, <1>2
<1> QED  BY <1>4, <1>5, <1>6 DEF QueueHolds, p

\* What is sent is the row that arrived last, or the next one (ProcessOnce).
LEMMA RowArrives ==
    ASSUME NEW R, NEW q \in Seq(R), NEW n, QueueHolds(q, n),
           NEW k \in DOMAIN q, q[k].row.status = "processing"
    PROVE  /\ QueueHolds(q, k)
           /\ n = k \/ k = n + 1
           /\ \A j \in DOMAIN q : q[j].row.status \in {"pending", "done"} \/ j = k
<1>1. Len(q) \in Nat /\ DOMAIN q = 1..Len(q) /\ n \in 0..Len(q) /\ k \in 1..Len(q)
  BY Domains DEF QueueHolds
<1>2. SentBefore(q, k)
  BY DEF QueueHolds
<1>3. ~(k < n)
  <2> SUFFICES ASSUME k < n PROVE FALSE
    OBVIOUS
  <2>1. k \in 1..(n - 1)
    BY <1>1
  <2> QED  BY <2>1 DEF QueueHolds, SentBefore
<1>4. ~(n + 1 < k)
  <2> SUFFICES ASSUME n + 1 < k PROVE FALSE
    OBVIOUS
  <2>1. n + 1 \in 1..(k - 1) /\ n + 1 \in DOMAIN q
    BY <1>1
  <2>2. q[n + 1].row.status = "done"
    BY <2>1, <1>2 DEF SentBefore
  <2> QED  BY <2>1, <2>2, <1>1 DEF QueueHolds
<1>5. n = k \/ k = n + 1
  BY <1>1, <1>3, <1>4
<1>6. QueueHolds(q, k)
  BY <1>1, <1>2, <1>5 DEF QueueHolds
<1>7. ASSUME NEW j \in DOMAIN q PROVE q[j].row.status \in {"pending", "done"} \/ j = k
  <2>1. CASE j < k
    <3>1. j \in 1..(k - 1)
      BY <2>1, <1>1
    <3> QED  BY <3>1, <1>2 DEF SentBefore
  <2>2. CASE j > k
    <3>1. k \in 1..(j - 1)
      BY <2>2, <1>1
    <3> QED  BY <3>1 DEF QueueHolds, SentBefore
  <2> QED  BY <2>1, <2>2, <1>1
<1> QED  BY <1>5, <1>6, <1>7

-----------------------------------------------------------------------------
(* The steps, each for any subjects, rows, workers and names.              *)

\* A row that is held is one its subject waits for.
WaitsFor(S, R, Q, A, t) ==
    /\ t \in S \X Nat /\ t[1] \in S /\ t = <<t[1], t[2]>>
    /\ Q[t[1]] \in Seq(R) /\ t[2] \in DOMAIN Q[t[1]]
    /\ QueueHolds(Q[t[1]], A[t[1]])
    /\ Claimed(Q, t)

LEMMA HeldRow ==
    ASSUME NEW S, NEW R, NEW V, NEW none, NEW Q, NEW A, NEW W,
           OutboxHolds(S, R, V, none, Q, A, W)
    PROVE  \A v \in V : \A t \in W[v].todo : WaitsFor(S, R, Q, A, t)
<1> SUFFICES ASSUME NEW v \in V, NEW t \in W[v].todo PROVE WaitsFor(S, R, Q, A, t)
  OBVIOUS
<1>1. t \in S \X Nat
  BY DEF OutboxHolds, Passes
<1>2. Claimed(Q, t)
  BY DEF OutboxHolds, PassHolds
<1> QED  BY <1>1, <1>2 DEF OutboxHolds, Claimed, WaitsFor

\* A worker holds one row of a subject at most.
LEMMA OneHeldRow ==
    ASSUME NEW S, NEW R, NEW V, NEW none, NEW Q, NEW A, NEW W,
           OutboxHolds(S, R, V, none, Q, A, W), NEW v \in V, NEW w \in V,
           NEW t \in W[v].todo, NEW u \in W[w].todo, t[1] = u[1]
    PROVE  t = u /\ v = w
<1>1. WaitsFor(S, R, Q, A, t) /\ WaitsFor(S, R, Q, A, u)
  BY HeldRow
<1>3. t = <<t[1], t[2]>> /\ u = <<u[1], u[2]>> /\ u[2] \in DOMAIN Q[t[1]]
      /\ t[2] \in DOMAIN Q[t[1]] /\ Q[t[1]] \in Seq(R) /\ QueueHolds(Q[t[1]], A[t[1]])
      /\ Q[t[1]][t[2]].row.status = "processing" /\ Q[t[1]][u[2]].row.status = "processing"
  BY <1>1 DEF WaitsFor, Claimed, RowOf
<1>4. u[2] = t[2]
  <2>1. Q[t[1]][u[2]].row.status \in {"pending", "done"} \/ u[2] = t[2]
    BY <1>3, RowArrives
  <2> QED  BY <2>1, <1>3
<1>5. t = u
  BY <1>3, <1>4
<1> QED  BY <1>5 DEF OutboxHolds

\* Rows are posted behind the others.
LEMMA Posting ==
    ASSUME NEW S, NEW R, NEW V, NEW none, NEW Q, NEW Q2, NEW A, NEW W,
           OutboxHolds(S, R, V, none, Q, A, W),
           Q2 \in [S -> Seq(R)],
           \A s \in S : \/ Q2[s] = Q[s]
                        \/ \E x \in R : Q2[s] = Append(Q[s], x) /\ x.row.status = "pending"
    PROVE  /\ OutboxHolds(S, R, V, none, Q2, A, W)
           /\ \A s \in S : Len(Q2[s]) = IF Q2[s] = Q[s] THEN Len(Q[s]) ELSE Len(Q[s]) + 1
           /\ \A s \in S : (\E k \in DOMAIN Q2[s] : Q2[s][k].row.status = "abandoned")
                           <=> (\E k \in DOMAIN Q[s] : Q[s][k].row.status = "abandoned")
<1>1. \A s \in S : Q[s] \in Seq(R) /\ QueueHolds(Q[s], A[s])
  BY DEF OutboxHolds
<1>2. \A s \in S : QueueHolds(Q2[s], A[s])
  BY <1>1, RowPosted
<1>3. ASSUME NEW s \in S
      PROVE  /\ DOMAIN Q[s] \subseteq DOMAIN Q2[s]
             /\ \A k \in DOMAIN Q[s] : Q2[s][k] = Q[s][k]
             /\ \A k \in DOMAIN Q2[s] : k \in DOMAIN Q[s] \/ Q2[s][k].row.status = "pending"
             /\ Len(Q2[s]) = IF Q2[s] = Q[s] THEN Len(Q[s]) ELSE Len(Q[s]) + 1
  <2>1. CASE Q2[s] = Q[s]
    BY <2>1
  <2>2. CASE Q2[s] # Q[s]
    <3>1. PICK x \in R : Q2[s] = Append(Q[s], x) /\ x.row.status = "pending"
      BY <2>2
    <3>2. Q[s] \in Seq(R)
      BY <1>1
    <3>3. /\ DOMAIN Q[s] = 1..Len(Q[s]) /\ Len(Q[s]) \in Nat
          /\ DOMAIN Q2[s] = 1..(Len(Q[s]) + 1) /\ Len(Q2[s]) = Len(Q[s]) + 1
          /\ \A k \in 1..Len(Q[s]) : Q2[s][k] = Q[s][k]
          /\ Q2[s][Len(Q[s]) + 1] = x
      BY <3>1, <3>2
    <3> QED  BY <3>1, <3>3, <2>2
  <2> QED  BY <2>1, <2>2
<1>4. ASSUME NEW v \in V, NEW t \in W[v].todo PROVE Claimed(Q2, t)
  <2>1. t[1] \in S /\ Claimed(Q, t)
    BY HeldRow DEF WaitsFor
  <2> QED  BY <2>1, <1>3 DEF Claimed, RowOf
<1>5. \A v \in V : PassHolds(Q2, A, W[v], none)
  BY <1>4 DEF OutboxHolds, PassHolds
<1>6. OutboxHolds(S, R, V, none, Q2, A, W)
  BY <1>2, <1>5 DEF OutboxHolds
<1>7. ASSUME NEW s \in S
      PROVE  (\E k \in DOMAIN Q2[s] : Q2[s][k].row.status = "abandoned")
             <=> (\E k \in DOMAIN Q[s] : Q[s][k].row.status = "abandoned")
  BY <1>3
<1> QED  BY <1>3, <1>6, <1>7

\* The pass of a worker turns to an item, or to the next one.
Turns(W, W2, w, todo, item, step) ==
    W2 = [W EXCEPT ![w] = [todo |-> todo, item |-> item, step |-> step]]

\* A claim takes rows that are due (ClaimOutbox, ClaimDiscordOutbox).
RowsClaimed(S, Q, Q2, T) ==
    /\ T \in SUBSET (S \X Nat)
    /\ \A s \in S : Len(Q2[s]) = Len(Q[s])
    /\ \A t \in T : /\ t[2] \in DOMAIN Q[t[1]] /\ SentBefore(Q[t[1]], t[2])
                    /\ RowOf(Q, t).status \notin {"done", "abandoned"}
                    /\ ~Claimed(Q, t)
                    /\ RowOf(Q2, t).status = "processing" /\ RowOf(Q2, t).stale = FALSE
    /\ \A s \in S : \A k \in DOMAIN Q[s] : <<s, k>> \notin T => Q2[s][k] = Q[s][k]

LEMMA Claiming ==
    ASSUME NEW S, NEW R, NEW V, NEW none, NEW Q, NEW Q2, NEW A, NEW W, NEW W2,
           NEW w \in V, NEW T, OutboxHolds(S, R, V, none, Q, A, W),
           W[w].todo = {},
           Turns(W, W2, w, T, none, "next"),
           Q2 \in [S -> Seq(R)], RowsClaimed(S, Q, Q2, T)
    PROVE  /\ OutboxHolds(S, R, V, none, Q2, A, W2)
           /\ \A s \in S : (\E k \in DOMAIN Q2[s] : Q2[s][k].row.status = "abandoned")
                           <=> (\E k \in DOMAIN Q[s] : Q[s][k].row.status = "abandoned")
<1> USE DEF RowsClaimed, Turns
<1>1. \A s \in S : /\ Q[s] \in Seq(R) /\ Q2[s] \in Seq(R) /\ QueueHolds(Q[s], A[s])
                   /\ DOMAIN Q2[s] = DOMAIN Q[s]
  <2> TAKE s \in S
  <2>1. Q[s] \in Seq(R) /\ Q2[s] \in Seq(R) /\ QueueHolds(Q[s], A[s])
    BY DEF OutboxHolds
  <2>2. DOMAIN Q2[s] = 1..Len(Q2[s]) /\ DOMAIN Q[s] = 1..Len(Q[s])
    BY <2>1, Domains
  <2> QED  BY <2>1, <2>2
<1>2. ASSUME NEW s \in S, NEW k \in DOMAIN Q[s]
      PROVE  \/ Q2[s][k] = Q[s][k]
             \/ /\ Advances(Q[s], Q2[s][k].row, A[s], k)
                /\ Q[s][k].row.status # "abandoned" /\ Q2[s][k].row.status = "processing"
  <2>1. CASE <<s, k>> \in T
    BY <2>1 DEF Advances, RowOf
  <2>2. CASE <<s, k>> \notin T
    BY <2>2
  <2> QED  BY <2>1, <2>2
<1>3. ASSUME NEW s \in S PROVE QueueHolds(Q2[s], A[s])
  <2>1. /\ Q[s] \in Seq(R) /\ Q2[s] \in Seq(R) /\ QueueHolds(Q[s], A[s])
        /\ Len(Q2[s]) = Len(Q[s])
        /\ \A k \in DOMAIN Q[s] : \/ Q2[s][k].row.status = Q[s][k].row.status
                                  \/ Advances(Q[s], Q2[s][k].row, A[s], k)
    BY <1>1, <1>2
  <2> QED  BY ONLY <2>1, RowsChange
<1>4. /\ W2 \in [V -> Passes(S, none)]
      /\ W2[w] = [todo |-> T, item |-> none, step |-> "next"]
      /\ \A v \in V \ {w} : W2[v] = W[v]
  <2>1. [todo |-> T, item |-> none, step |-> "next"] \in Passes(S, none)
    BY DEF Passes
  <2> QED  BY <2>1 DEF OutboxHolds
<1>5. ASSUME NEW v \in V \ {w}, NEW t \in W[v].todo PROVE t \notin T /\ Claimed(Q2, t)
  <2>1. WaitsFor(S, R, Q, A, t)
    BY HeldRow
  <2>2. t[1] \in S /\ t = <<t[1], t[2]>> /\ Claimed(Q, t) /\ t[2] \in DOMAIN Q[t[1]]
    BY <2>1 DEF WaitsFor
  <2>3. t \notin T
    BY <2>2
  <2>4. Q2[t[1]][t[2]] = Q[t[1]][t[2]] /\ DOMAIN Q2[t[1]] = DOMAIN Q[t[1]]
    BY <2>2, <2>3, <1>1
  <2> QED  BY <2>2, <2>3, <2>4 DEF Claimed, RowOf
<1>6. \A t \in T : Claimed(Q2, t)
  BY <1>1 DEF Claimed
<1>7. ASSUME NEW v \in V PROVE PassHolds(Q2, A, W2[v], none)
  <2>1. CASE v = w
    BY <2>1, <1>4, <1>6 DEF PassHolds
  <2>2. CASE v # w
    <3>1. v \in V \ {w} /\ W2[v] = W[v] /\ PassHolds(Q, A, W[v], none)
      BY <2>2, <1>4 DEF OutboxHolds
    <3> QED  BY <3>1, <1>5 DEF PassHolds
  <2> QED  BY <2>1, <2>2
<1>8. ASSUME NEW u \in V, NEW v \in V, NEW t \in W2[u].todo, t \in W2[v].todo
      PROVE  u = v
  <2>1. CASE u # w /\ v # w
    BY <2>1, <1>4, <1>8 DEF OutboxHolds
  <2>2. CASE u = w \/ v = w
    BY <2>2, <1>4, <1>5, <1>8
  <2> QED  BY <2>1, <2>2
<1>9. OutboxHolds(S, R, V, none, Q2, A, W2)
  BY <1>3, <1>4, <1>7, <1>8 DEF OutboxHolds
<1>10. \A s \in S : (\E k \in DOMAIN Q2[s] : Q2[s][k].row.status = "abandoned")
                    <=> (\E k \in DOMAIN Q[s] : Q[s][k].row.status = "abandoned")
  BY <1>1, <1>2
<1> QED  BY <1>9, <1>10

\* The row of a request that fails may have arrived.
Arrives(A, A2, t, step) ==
    (A2 = A /\ step = "failing") \/ A2 = [A EXCEPT ![t[1]] = t[2]]

\* A request to the platform, and what its worker marks next (ProcessOnce).
Sends(S, R, V, none, Q, A, A2, W, W2, w, t, step) ==
    /\ OutboxHolds(S, R, V, none, Q, A, W)
    /\ w \in V /\ t \in W[w].todo /\ t # none /\ step \in {"sent", "failing"}
    /\ Turns(W, W2, w, W[w].todo, t, step) /\ Arrives(A, A2, t, step)

LEMMA Sending ==
    ASSUME NEW S, NEW R, NEW V, NEW none, NEW Q, NEW A, NEW A2, NEW W, NEW W2,
           NEW w, NEW t, NEW step, Sends(S, R, V, none, Q, A, A2, W, W2, w, t, step)
    PROVE  /\ OutboxHolds(S, R, V, none, Q, A2, W2)
           /\ t[2] = A[t[1]] \/ t[2] = A[t[1]] + 1
           /\ \A j \in DOMAIN Q[t[1]] :
                 Q[t[1]][j].row.status \in {"pending", "done"} \/ j = t[2]
<1> USE DEF Sends, Turns, Arrives
<1>1. /\ t \in S \X Nat /\ t[1] \in S /\ Q[t[1]] \in Seq(R) /\ t[2] \in DOMAIN Q[t[1]]
      /\ QueueHolds(Q[t[1]], A[t[1]]) /\ Q[t[1]][t[2]].row.status = "processing" /\ t[2] \in Nat
  <2>1. WaitsFor(S, R, Q, A, t)
    BY HeldRow
  <2> QED  BY <2>1 DEF WaitsFor, Claimed, RowOf
<1>2. /\ QueueHolds(Q[t[1]], t[2])
      /\ A[t[1]] = t[2] \/ t[2] = A[t[1]] + 1
      /\ \A j \in DOMAIN Q[t[1]] :
            Q[t[1]][j].row.status \in {"pending", "done"} \/ j = t[2]
  BY ONLY <1>1, RowArrives
<1>3. A2 \in [S -> Nat] /\ \A s \in S \ {t[1]} : A2[s] = A[s]
  BY <1>1 DEF OutboxHolds
<1>4. A2[t[1]] = t[2] \/ (A2 = A /\ step = "failing")
  BY <1>1 DEF OutboxHolds
<1>5. ASSUME NEW s \in S PROVE QueueHolds(Q[s], A2[s])
  BY <1>2, <1>3, <1>4 DEF OutboxHolds
<1>6. /\ W2 \in [V -> Passes(S, none)]
      /\ W2[w] = [todo |-> W[w].todo, item |-> t, step |-> step]
      /\ \A v \in V \ {w} : W2[v] = W[v]
  <2>1. W[w].todo \in SUBSET (S \X Nat)
    BY DEF OutboxHolds, Passes
  <2>2. [todo |-> W[w].todo, item |-> t, step |-> step] \in Passes(S, none)
    BY <2>1, <1>1 DEF Passes
  <2> QED  BY <2>2 DEF OutboxHolds
<1>7. PassHolds(Q, A2, W2[w], none)
  <2>1. \A u \in W[w].todo : Claimed(Q, u)
    BY DEF OutboxHolds, PassHolds
  <2> QED  BY <2>1, <1>4, <1>6, <1>1 DEF PassHolds
<1>8. ASSUME NEW v \in V \ {w} PROVE PassHolds(Q, A2, W2[v], none)
  <2>1. PassHolds(Q, A, W[v], none) /\ W2[v] = W[v] /\ W[v] \in Passes(S, none)
    BY <1>6 DEF OutboxHolds
  <2>2. W[v].step = "sent" => W[v].item[1] \in S /\ W[v].item[1] # t[1]
    <3>1. SUFFICES ASSUME W[v].step = "sent" PROVE W[v].item[1] \in S /\ W[v].item[1] # t[1]
      OBVIOUS
    <3>2. W[v].item \in W[v].todo
      BY <2>1, <3>1 DEF PassHolds
    <3>3. W[v].item[1] \in S
      BY <3>2, <2>1 DEF Passes
    <3>4. W[v].item[1] = t[1] => v = w
      BY ONLY <3>2, OneHeldRow, OutboxHolds(S, R, V, none, Q, A, W), w \in V, v \in V \ {w},
              t \in W[w].todo
    <3> QED  BY <3>3, <3>4
  <2>3. W[v].step = "sent" => A2[W[v].item[1]] = A[W[v].item[1]]
    BY <2>2, <1>3
  <2> QED  BY <2>1, <2>3 DEF PassHolds
<1>9. \A v, u \in V : \A x \in W2[v].todo : x \in W2[u].todo => v = u
  <2>1. \A v \in V : W2[v].todo = W[v].todo
    BY <1>6
  <2> QED  BY <2>1 DEF OutboxHolds
<1>10. OutboxHolds(S, R, V, none, Q, A2, W2)
  BY <1>3, <1>5, <1>6, <1>7, <1>8, <1>9 DEF OutboxHolds
<1> QED  BY <1>2, <1>10

\* A worker lets go of rows, or turns to the mark of a failure (Dies,
\* MarkBreaks).
LEMMA LettingGo ==
    ASSUME NEW S, NEW R, NEW V, NEW none, NEW Q, NEW A, NEW W, NEW W2,
           NEW w \in V, NEW p \in Passes(S, none),
           OutboxHolds(S, R, V, none, Q, A, W),
           W2 = [W EXCEPT ![w] = p],
           p.todo \subseteq W[w].todo,
           \/ p.step = "next" /\ p.item = none
           \/ p.step = "failing" /\ p.item = W[w].item /\ p.todo = W[w].todo /\ W[w].step = "sent"
    PROVE  OutboxHolds(S, R, V, none, Q, A, W2)
<1>1. W2 \in [V -> Passes(S, none)] /\ W2[w] = p /\ \A v \in V \ {w} : W2[v] = W[v]
  BY DEF OutboxHolds
<1>2. PassHolds(Q, A, W[w], none)
  BY DEF OutboxHolds
<1>3. PassHolds(Q, A, p, none)
  BY <1>2 DEF PassHolds
<1>4. \A v \in V : PassHolds(Q, A, W2[v], none)
  BY <1>1, <1>3 DEF OutboxHolds
<1>5. \A v \in V : W2[v].todo \subseteq W[v].todo
  BY <1>1
<1>6. \A v, u \in V : \A x \in W2[v].todo : x \in W2[u].todo => v = u
  BY <1>5 DEF OutboxHolds
<1> QED  BY <1>1, <1>4, <1>6 DEF OutboxHolds

\* One row is set.
RowSet(S, Q, Q2, s, k, r) ==
    /\ \A i \in S : Len(Q2[i]) = Len(Q[i])
    /\ Q2[s][k].row = r
    /\ \A i \in S : \A j \in DOMAIN Q[i] : <<i, j>> # <<s, k>> => Q2[i][j] = Q[i][j]

\* One row becomes r, and nobody else holds it.
LEMMA OneRow ==
    ASSUME NEW S, NEW R, NEW V, NEW none, NEW Q, NEW Q2, NEW A, NEW W, NEW W2,
           NEW s \in S, NEW k \in DOMAIN Q[s], NEW r,
           OutboxHolds(S, R, V, none, Q, A, W),
           OutboxHolds(S, R, V, none, Q, A, W2),
           Q2 \in [S -> Seq(R)], RowSet(S, Q, Q2, s, k, r),
           r.status = Q[s][k].row.status \/ Advances(Q[s], r, A[s], k),
           \A v \in V : <<s, k>> \notin W2[v].todo
    PROVE  OutboxHolds(S, R, V, none, Q2, A, W2)
<1> USE DEF RowSet
<1>1. \A i \in S : /\ Q[i] \in Seq(R) /\ Q2[i] \in Seq(R) /\ QueueHolds(Q[i], A[i])
                   /\ DOMAIN Q2[i] = DOMAIN Q[i]
  <2> TAKE i \in S
  <2>1. Q[i] \in Seq(R) /\ Q2[i] \in Seq(R) /\ QueueHolds(Q[i], A[i])
    BY DEF OutboxHolds
  <2>2. DOMAIN Q2[i] = 1..Len(Q2[i]) /\ DOMAIN Q[i] = 1..Len(Q[i])
    BY <2>1, Domains
  <2> QED  BY <2>1, <2>2
<1>2. ASSUME NEW i \in S PROVE QueueHolds(Q2[i], A[i])
  <2>1. /\ Q[i] \in Seq(R) /\ Q2[i] \in Seq(R) /\ QueueHolds(Q[i], A[i])
        /\ Len(Q2[i]) = Len(Q[i])
        /\ \A j \in DOMAIN Q[i] : \/ Q2[i][j].row.status = Q[i][j].row.status
                                  \/ Advances(Q[i], Q2[i][j].row, A[i], j)
    <3>1. ASSUME NEW j \in DOMAIN Q[i]
          PROVE  \/ Q2[i][j].row.status = Q[i][j].row.status
                 \/ Advances(Q[i], Q2[i][j].row, A[i], j)
      <4>1. CASE i = s /\ j = k
        BY <4>1
      <4>2. CASE ~(i = s /\ j = k)
        BY <4>2
      <4> QED  BY <4>1, <4>2
    <3> QED  BY <3>1, <1>1
  <2> QED  BY ONLY <2>1, RowsChange
<1>3. ASSUME NEW v \in V, NEW t \in W2[v].todo PROVE Claimed(Q2, t)
  <2>1. WaitsFor(S, R, Q, A, t)
    BY HeldRow
  <2>2. t[1] \in S /\ t = <<t[1], t[2]>> /\ Claimed(Q, t) /\ t[2] \in DOMAIN Q[t[1]]
    BY <2>1 DEF WaitsFor
  <2>3. <<t[1], t[2]>> # <<s, k>>
    BY <2>2
  <2>4. Q2[t[1]][t[2]] = Q[t[1]][t[2]] /\ DOMAIN Q2[t[1]] = DOMAIN Q[t[1]]
    BY <2>2, <2>3, <1>1
  <2> QED  BY <2>2, <2>4 DEF Claimed, RowOf
<1>4. ASSUME NEW v \in V PROVE PassHolds(Q2, A, W2[v], none)
  <2>1. PassHolds(Q, A, W2[v], none)
    BY DEF OutboxHolds
  <2> QED  BY <2>1, <1>3 DEF PassHolds
<1>5. W2 \in [V -> Passes(S, none)] /\ A \in [S -> Nat]
      /\ \A v, w \in V : \A t \in W2[v].todo : t \in W2[w].todo => v = w
  BY DEF OutboxHolds
<1> QED  BY <1>2, <1>4, <1>5 DEF OutboxHolds

\* A mark (MarkOutboxSent, MarkOutboxFailed).
LEMMA Marking ==
    ASSUME NEW S, NEW R, NEW V, NEW none, NEW Q, NEW Q2, NEW A, NEW W, NEW W2,
           NEW w \in V, NEW s \in S, NEW k \in DOMAIN Q[s], NEW r,
           OutboxHolds(S, R, V, none, Q, A, W), W[w].step # "next", W[w].item = <<s, k>>,
           Q2 \in [S -> Seq(R)], RowSet(S, Q, Q2, s, k, r),
           r.status \in {"failed", "abandoned"} \/ (W[w].step = "sent" /\ r.status = "done"),
           Turns(W, W2, w, W[w].todo \ {<<s, k>>}, none, "next")
    PROVE  OutboxHolds(S, R, V, none, Q2, A, W2)
<1>1. PassHolds(Q, A, W[w], none) /\ <<s, k>> \in W[w].todo
  BY DEF OutboxHolds, PassHolds
<1>2. Q[s] \in Seq(R) /\ QueueHolds(Q[s], A[s]) /\ Q[s][k].row.status = "processing"
  <2>1. WaitsFor(S, R, Q, A, <<s, k>>)
    BY <1>1, HeldRow
  <2> QED  BY <2>1 DEF WaitsFor, Claimed, RowOf
<1>3. Advances(Q[s], r, A[s], k)
  BY <1>1, <1>2 DEF Advances, QueueHolds, PassHolds
<1>4. OutboxHolds(S, R, V, none, Q, A, W2)
  <2> DEFINE p == [todo |-> W[w].todo \ {<<s, k>>}, item |-> none, step |-> "next"]
  <2>1. W[w].todo \in SUBSET (S \X Nat)
    BY DEF OutboxHolds, Passes
  <2>2. p \in Passes(S, none) /\ p.todo \subseteq W[w].todo
        /\ p.step = "next" /\ p.item = none
    BY <2>1 DEF Passes
  <2>3. W2 = [W EXCEPT ![w] = p]
    BY DEF Turns
  <2> HIDE DEF p
  <2> QED  BY ONLY <2>2, <2>3, LettingGo, w \in V, OutboxHolds(S, R, V, none, Q, A, W)
<1>5. \A v \in V : <<s, k>> \notin W2[v].todo
  BY <1>1 DEF OutboxHolds, Turns
<1> QED  BY ONLY <1>3, <1>4, <1>5, OneRow, s \in S, k \in DOMAIN Q[s], RowSet(S, Q, Q2, s, k, r),
            OutboxHolds(S, R, V, none, Q, A, W), Q2 \in [S -> Seq(R)]
-----------------------------------------------------------------------------
(***************************************************************************)
(* The chat.                                                               *)

MessageRows ==
    [status : {"absent", "active", "edited", "deleted"}, text : Nat,
     author : Accounts \cup {None}, source : Platforms \cup {Website},
     channel : Channels, parent : Messages \cup {None}, pinned : BOOLEAN]

ChatTasks == [op : {"create", "edit", "delete"}, text : Nat, row : Sync!OutboxRow]

\* What came in from a platform is in the lounge and has an event, what was
\* withdrawn stays deleted, since events speak of other messages
\* (ApplyExternalMessage, lockOwnedWebsiteMessage).
MessageHolds(m) ==
    /\ message[m].text <= texts
    /\ message[m].status = "absent" => message[m].source = Website
    /\ message[m].source \in Platforms =>
           message[m].channel = Lounge /\ \E e \in Events : inbound[e] = m
    /\ m \in withdrawn => message[m].status = "deleted" /\ message[m].source = Website

EventHolds(e) ==
    inbound[e] # None =>
        /\ inbound[e] \in Messages
        /\ message[inbound[e]].source = Origin[e]
        /\ message[inbound[e]].status # "absent"

\* The last row of a subject has what the message says, and only the first one
\* creates a copy (createOutboundTasksExcept).
RowsTell(s) ==
    /\ chatQueue[s] # <<>> => chatQueue[s][Len(chatQueue[s])].text = message[s[1]].text
    /\ (\/ message[s[1]].status = "absent"
        \/ message[s[1]].source = s[2]
        \/ message[s[1]].channel # Lounge) => chatQueue[s] = <<>>
    /\ \A k \in DOMAIN chatQueue[s] : k # 1 => chatQueue[s][k].op # "create"

\* The copy the bridge knows reads as the row that arrived last, unless that
\* is the creation of a copy nobody has noted (Reaches, MarkOutboxSent).
CopyTells(s) ==
    /\ copies[s] \in Seq(Nat) /\ bridge[s] \in 0..Len(copies[s])
    /\ arrived[s] # 0 =>
         IF chatQueue[s][arrived[s]].op = "create"
         THEN /\ copies[s] # <<>>
              /\ copies[s][Len(copies[s])] = chatQueue[s][arrived[s]].text
              /\ chatQueue[s][arrived[s]].row.status = "done" => bridge[s] = Len(copies[s])
         ELSE /\ bridge[s] # 0
              /\ copies[s][bridge[s]] = chatQueue[s][arrived[s]].text

ChatOut == OutboxHolds(Subject, ChatTasks, Workers, None, chatQueue, arrived, chatWorker)

PostsHold ==
    /\ message \in [Messages -> MessageRows]
    /\ texts \in 0..MaxTexts
    /\ reactions \subseteq Messages \X Accounts
    /\ inbound \in [Events -> Messages \cup {None}]
    /\ withdrawn \subseteq Messages
    /\ \A m \in Messages : MessageHolds(m)
    /\ \A e \in Events : EventHolds(e)
    /\ \A e, f \in Events : inbound[e] = inbound[f] /\ inbound[e] # None => e = f

ChatInv ==
    /\ PostsHold
    /\ ChatOut
    /\ \A s \in Subject : RowsTell(s)
    /\ copies \in [Subject -> Seq(Nat)] /\ bridge \in [Subject -> Nat]
    /\ \A s \in Subject : CopyTells(s)

\* A step of the outbox as OrderedOutbox has it.
ChatStep == [ChatOutbox!Next]_(ChatOutbox!vars)

\* Nothing was written and nothing is queued (ChatInit).
LEMMA ChatBegins == ChatInit => ChatInv /\ ChatOutbox!Init
<1> SUFFICES ASSUME ChatInit PROVE ChatInv /\ ChatOutbox!Init
  OBVIOUS
<1> USE ChatAssumption
<1>1. PostsHold
  BY DEF ChatInit, PostsHold, MessageHolds, EventHolds, MessageRows, NoMessage
<1>2. ChatOut
  <2>1. /\ chatQueue \in [Subject -> Seq(ChatTasks)] /\ arrived \in [Subject -> Nat]
        /\ chatWorker \in [Workers -> Passes(Subject, None)]
    BY DEF ChatInit, Passes, Sync!WorkerInit, Sync!Idle, Sync!Pass
  <2>2. \A s \in Subject : QueueHolds(chatQueue[s], arrived[s])
    BY DEF ChatInit, QueueHolds, SentBefore
  <2>3. \A w \in Workers : chatWorker[w] = [todo |-> {}, item |-> None, step |-> "next"]
    BY DEF ChatInit, Sync!WorkerInit, Sync!Idle, Sync!Pass
  <2> QED  BY <2>1, <2>2, <2>3 DEF ChatOut, OutboxHolds, PassHolds
<1>3. \A s \in Subject : RowsTell(s) /\ CopyTells(s)
  BY DEF ChatInit, RowsTell, CopyTells
<1>4. copies \in [Subject -> Seq(Nat)] /\ bridge \in [Subject -> Nat]
  BY DEF ChatInit
<1>5. ChatOutbox!Init
  <2>1. ~\E s \in Subject : Abandoned(s)
    BY DEF ChatInit, Abandoned
  <2>2. [s \in Subject |-> Len(chatQueue[s])] = [s \in Subject |-> 0]
    BY DEF ChatInit
  <2>3. arrived = [s \in Subject |-> 0]
    BY DEF ChatInit
  <2> QED  BY <2>1, <2>2, <2>3 DEF ChatOutbox!Init
<1> QED  BY <1>1, <1>2, <1>3, <1>4, <1>5 DEF ChatInv

-----------------------------------------------------------------------------
(* What a transaction does to the rows.                                    *)
Queued(S, task) ==
    chatQueue' = [s \in Subject |-> IF s \in S THEN Append(chatQueue[s], task) ELSE chatQueue[s]]

\* Transactions of one message one after the other: their rows, too
\* (CreateOutboundTasks).
LEMMA InOrder ==
    ASSUME Overlap = FALSE, NEW S \in SUBSET Subject, NEW op, NEW text,
           CreateOutboundTasks(S, op, text)
    PROVE  Queued(S, Task(op, text))
<1>1. \A s \in S : Added(chatQueue[s], Task(op, text)) = {Append(chatQueue[s], Task(op, text))}
  BY DEF Added
<1>2. PICK q \in [S -> UNION {Added(chatQueue[s], Task(op, text)) : s \in S}] :
           /\ \A s \in S : q[s] \in Added(chatQueue[s], Task(op, text))
           /\ chatQueue' = [s \in Subject |-> IF s \in S THEN q[s] ELSE chatQueue[s]]
  BY DEF CreateOutboundTasks
<1>3. \A s \in S : q[s] = Append(chatQueue[s], Task(op, text))
  BY <1>1, <1>2
<1> QED  BY <1>2, <1>3 DEF Queued

LEMMA TaskRows ==
    ASSUME NEW op \in {"create", "edit", "delete"}, NEW text \in Nat
    PROVE  /\ Task(op, text) \in ChatTasks /\ Task(op, text).row.status = "pending"
           /\ Task(op, text).op = op /\ Task(op, text).text = text
<1>1. Sync!PendingRow \in Sync!OutboxRow /\ Sync!PendingRow.status = "pending"
  BY DEF Sync!PendingRow, Sync!NoRow, Sync!OutboxRow, Sync!OutboxStatus
<1> QED  BY <1>1 DEF Task, ChatTasks

LEMMA ChatPosting ==
    ASSUME ChatOut, \A s \in Subject : CopyTells(s), UNCHANGED <<outside, chatWorker>>,
           NEW S \in SUBSET Subject, NEW task \in ChatTasks, task.row.status = "pending",
           Queued(S, task)
    PROVE  /\ ChatOut' /\ (\A s \in Subject : CopyTells(s)') /\ ChatStep
<1> DEFINE Q2 == [s \in Subject |-> IF s \in S THEN Append(chatQueue[s], task) ELSE chatQueue[s]]
<1>1. chatQueue' = Q2 /\ arrived' = arrived /\ chatWorker' = chatWorker
      /\ bridge' = bridge /\ copies' = copies
  BY DEF Queued, outside
<1>2. \A s \in Subject : chatQueue[s] \in Seq(ChatTasks) /\ QueueHolds(chatQueue[s], arrived[s])
  BY DEF ChatOut, OutboxHolds
<1>3. /\ Q2 \in [Subject -> Seq(ChatTasks)]
      /\ \A s \in Subject : \/ Q2[s] = chatQueue[s]
                            \/ \E x \in ChatTasks : Q2[s] = Append(chatQueue[s], x)
                                                    /\ x.row.status = "pending"
      /\ \A s \in Subject : Q2[s] = IF s \in S THEN Append(chatQueue[s], task) ELSE chatQueue[s]
  BY <1>2
<1>4. /\ OutboxHolds(Subject, ChatTasks, Workers, None, Q2, arrived, chatWorker)
      /\ \A s \in Subject : (\E k \in DOMAIN Q2[s] : Q2[s][k].row.status = "abandoned")
                  <=> (\E k \in DOMAIN chatQueue[s] : chatQueue[s][k].row.status = "abandoned")
  <2> HIDE DEF Q2
  <2> QED  BY ONLY <1>3, Posting, OutboxHolds(Subject, ChatTasks, Workers, None,
                                             chatQueue, arrived, chatWorker), ChatOut DEF ChatOut
<1> HIDE DEF Q2
<1>5. ChatOut'
  BY <1>1, <1>4 DEF ChatOut, Subject
<1>6. ASSUME NEW s \in Subject PROVE CopyTells(s)'
  <2>1. arrived[s] # 0 => /\ arrived[s] \in DOMAIN chatQueue[s]
                          /\ Q2[s][arrived[s]] = chatQueue[s][arrived[s]]
    <3>1. chatQueue[s] \in Seq(ChatTasks) /\ arrived[s] \in 0..Len(chatQueue[s])
      BY <1>2 DEF QueueHolds
    <3>2. arrived[s] # 0 => arrived[s] \in 1..Len(chatQueue[s])
      BY <3>1
    <3>3. Q2[s] = chatQueue[s] \/ Q2[s] = Append(chatQueue[s], task)
      BY <1>3
    <3> QED  BY <3>1, <3>2, <3>3
  <2> QED  BY <2>1, <1>1 DEF CopyTells
<1>7. ChatOutbox!PostAll(S)
  <2>1. \A s \in Subject : Len(Q2[s]) = IF s \in S THEN Len(chatQueue[s]) + 1 ELSE Len(chatQueue[s])
    BY <1>2, <1>3
  <2>2. {s \in Subject : Abandoned(s)}' = {s \in Subject : Abandoned(s)}
    BY <1>1, <1>4 DEF Abandoned, Subject
  <2>3. [s \in Subject |-> Len(chatQueue[s])]' =
            [s \in Subject |-> IF s \in S THEN [x \in Subject |-> Len(chatQueue[x])][s] + 1
                               ELSE [x \in Subject |-> Len(chatQueue[x])][s]]
    BY <2>1, <1>1 DEF Subject
  <2> QED  BY <1>1, <2>2, <2>3 DEF ChatOutbox!PostAll, Subject
<1>8. ChatStep
  BY <1>7 DEF ChatStep, ChatOutbox!Next
<1> QED  BY <1>5, <1>6, <1>8

\* Nothing is queued.
LEMMA ChatQuiet ==
    ASSUME ChatOut, \A s \in Subject : CopyTells(s), UNCHANGED <<outside, chatQueue, chatWorker>>
    PROVE  /\ ChatOut' /\ (\A s \in Subject : CopyTells(s)') /\ ChatStep
<1>1. chatQueue' = chatQueue /\ arrived' = arrived /\ chatWorker' = chatWorker
      /\ bridge' = bridge /\ copies' = copies
  BY DEF outside
<1>2. ChatOut'
  BY <1>1 DEF ChatOut, Subject
<1>3. \A s \in Subject : CopyTells(s)'
  BY <1>1 DEF CopyTells, Subject
<1>4. \A s : Abandoned(s)' <=> Abandoned(s)
  BY <1>1 DEF Abandoned
<1>5. UNCHANGED ChatOutbox!vars
  BY <1>1, <1>4 DEF ChatOutbox!vars, Subject
<1> QED  BY <1>2, <1>3, <1>5 DEF ChatStep

-----------------------------------------------------------------------------
(* Transactions on messages.                                               *)

\* A message of a member has no event, one of a platform is noted for its own.
Noted(m, source, c) ==
    \/ source = Website /\ inbound' = inbound
    \/ \E e \in Events : /\ source = Origin[e] /\ c = Lounge /\ inbound[e] = None
                         /\ inbound' = [inbound EXCEPT ![e] = m]

\* A message is written, by a member or for an event (InsertMessage).
LEMMA Inserting ==
    ASSUME PostsHold, NEW m \in Messages, NEW a \in Accounts \cup {None},
           NEW source \in Platforms \cup {Website}, NEW c \in Channels,
           NEW p \in Messages \cup {None}, InsertMessage(m, a, source, c, p),
           UNCHANGED <<reactions, withdrawn>>, Noted(m, source, c)
    PROVE  /\ PostsHold'
           /\ message' = [message EXCEPT ![m] = message'[m]]
           /\ message'[m].text = texts + 1 /\ message'[m].status = "active"
           /\ message'[m].source = source /\ message'[m].channel = c
           /\ message[m].status = "absent"
<1> USE ChatAssumption DEF Noted
<1> DEFINE row == [status |-> "active", text |-> texts + 1, author |-> a, source |-> source,
                   channel |-> c, parent |-> p, pinned |-> FALSE]
<1>1. /\ message[m].status = "absent" /\ message' = [message EXCEPT ![m] = row]
      /\ texts' = texts + 1 /\ texts' \in 0..MaxTexts /\ texts \in 0..MaxTexts
  BY DEF InsertMessage, PostsHold
<1>2. row \in MessageRows
  BY <1>1 DEF MessageRows
<1>3. /\ row.text = texts + 1 /\ row.status = "active"
      /\ row.source = source /\ row.channel = c
  OBVIOUS
<1> HIDE DEF row
<1>4. /\ message' \in [Messages -> MessageRows] /\ message'[m] = row
      /\ \A n \in Messages \ {m} : message'[n] = message[n]
      /\ message \in [Messages -> MessageRows]
  BY <1>1, <1>2 DEF PostsHold
<1>5. m \notin withdrawn /\ message[m].source = Website
  BY <1>1 DEF PostsHold, MessageHolds
<1>6. inbound' \in [Events -> Messages \cup {None}]
  BY DEF PostsHold
<1>7. \A e \in Events : inbound[e] # m
  BY <1>1 DEF PostsHold, EventHolds
<1>8. \A e \in Events : \/ inbound'[e] = inbound[e]
                        \/ /\ inbound'[e] = m /\ inbound[e] = None
                           /\ source = Origin[e] /\ c = Lounge
  <2> SUFFICES ASSUME NEW e \in Events, inbound'[e] # inbound[e]
               PROVE  /\ inbound'[e] = m /\ inbound[e] = None
                      /\ source = Origin[e] /\ c = Lounge
    OBVIOUS
  <2>1. PICK g \in Events : /\ source = Origin[g] /\ c = Lounge /\ inbound[g] = None
                            /\ inbound' = [inbound EXCEPT ![g] = m]
    OBVIOUS
  <2>2. inbound \in [Events -> Messages \cup {None}]
    BY DEF PostsHold
  <2>3. e = g /\ inbound'[g] = m
    BY <2>1, <2>2
  <2> QED  BY <2>1, <2>3
<1>9. \A n \in Messages : (\E e \in Events : inbound[e] = n) => \E e \in Events : inbound'[e] = n
  <2> SUFFICES ASSUME NEW n \in Messages, NEW e \in Events, inbound[e] = n
               PROVE  inbound'[e] = n
    OBVIOUS
  <2> QED  BY <1>8
<1>10. \A e, f \in Events : inbound'[e] = inbound'[f] /\ inbound'[e] # None => e = f
  <2> SUFFICES ASSUME NEW e \in Events, NEW f \in Events, inbound'[e] = inbound'[f],
                      inbound'[e] # None
               PROVE  e = f
    OBVIOUS
  <2>1. CASE inbound' = inbound
    BY <2>1 DEF PostsHold
  <2>2. CASE inbound' # inbound
    <3>1. PICK g \in Events : inbound' = [inbound EXCEPT ![g] = m]
      BY <2>2
    <3>2. inbound \in [Events -> Messages \cup {None}]
      BY DEF PostsHold
    <3>3. \A h \in Events : inbound'[h] = IF h = g THEN m ELSE inbound[h]
      BY <3>1, <3>2
    <3>4. e = g <=> f = g
      BY <3>3, <1>7
    <3> QED  BY <3>3, <3>4 DEF PostsHold
  <2> QED  BY <2>1, <2>2
<1>11. ASSUME NEW n \in Messages PROVE MessageHolds(n)'
  <2>1. CASE n = m
    <3>1. source \in Platforms => c = Lounge /\ \E e \in Events : inbound'[e] = m
      <4> SUFFICES ASSUME source \in Platforms
                   PROVE  c = Lounge /\ \E e \in Events : inbound'[e] = m
        OBVIOUS
      <4>1. PICK e \in Events : /\ source = Origin[e] /\ c = Lounge /\ inbound[e] = None
                                /\ inbound' = [inbound EXCEPT ![e] = m]
        OBVIOUS
      <4>2. inbound'[e] = m
        BY <4>1 DEF PostsHold
      <4> QED  BY <4>1, <4>2
    <3> QED  BY <2>1, <3>1, <1>1, <1>3, <1>4, <1>5 DEF MessageHolds
  <2>2. CASE n # m
    <3>1. message'[n] = message[n] /\ MessageHolds(n) /\ message[n].text \in Nat
      BY <2>2, <1>4 DEF PostsHold, MessageRows
    <3> QED  BY <3>1, <1>1, <1>9 DEF MessageHolds
  <2> QED  BY <2>1, <2>2
<1>12. ASSUME NEW e \in Events PROVE EventHolds(e)'
  <2>1. CASE inbound'[e] = inbound[e]
    BY <2>1, <1>4, <1>7 DEF EventHolds, PostsHold
  <2>2. CASE inbound'[e] # inbound[e]
    BY <2>2, <1>3, <1>4, <1>8 DEF EventHolds
  <2> QED  BY <2>1, <2>2
<1>13. PostsHold'
  BY <1>1, <1>4, <1>6, <1>10, <1>11, <1>12 DEF PostsHold
<1> QED  BY <1>1, <1>3, <1>4, <1>13

\* Who changes a message has a row of it, or knows its event; what was
\* withdrawn is not edited (UpdateExistingMessage).
LEMMA Updating ==
    ASSUME PostsHold, NEW m \in Messages, NEW op \in {"edit", "delete"},
           UpdateExistingMessage(m, op),
           UNCHANGED <<reactions, inbound>>,
           message[m].status # "absent", m \notin withdrawn,
           \/ withdrawn' = withdrawn
           \/ withdrawn' = withdrawn \cup {m} /\ op = "delete" /\ message[m].source = Website
    PROVE  /\ PostsHold'
           /\ message' = [message EXCEPT ![m] = message'[m]]
           /\ message'[m].status # "absent" /\ message'[m].text \in Nat
           /\ message'[m].source = message[m].source
           /\ message'[m].channel = message[m].channel
<1> USE ChatAssumption
<1>1. PICK row \in MessageRows :
          /\ message' = [message EXCEPT ![m] = row]
          /\ row.source = message[m].source /\ row.channel = message[m].channel
          /\ row.text <= texts + 1 /\ row.status \in {"edited", "deleted"}
          /\ op = "delete" => row.status = "deleted"
  <2>1. message[m] \in MessageRows /\ texts \in Nat
    BY DEF PostsHold
  <2>2. PICK v \in Nat : v <= texts + 1 /\ (op = "edit" => v = texts + 1) /\ (op = "delete" => v = 0)
    BY <2>1
  <2>3. PICK status \in {"edited", "deleted"} : status = "deleted" <=> op = "delete"
    OBVIOUS
  <2> DEFINE r == [message[m] EXCEPT !.status = status, !.text = v]
  <2>4. message' = [message EXCEPT ![m] = r]
    BY <2>2, <2>3 DEF UpdateExistingMessage
  <2>5. r \in MessageRows
    BY <2>1 DEF MessageRows
  <2>6. r.source = message[m].source /\ r.channel = message[m].channel
        /\ r.text = v /\ r.status = status
    BY <2>1 DEF MessageRows
  <2> HIDE DEF r
  <2> QED  BY <2>2, <2>3, <2>4, <2>5, <2>6
<1>2. /\ texts' = texts + 1 /\ texts' \in 0..MaxTexts /\ texts \in 0..MaxTexts
  BY DEF UpdateExistingMessage, PostsHold
<1>3. /\ message' \in [Messages -> MessageRows] /\ message'[m] = row
      /\ \A n \in Messages \ {m} : message'[n] = message[n]
      /\ message \in [Messages -> MessageRows]
  BY <1>1 DEF PostsHold
<1>4. withdrawn' \subseteq Messages
  BY DEF PostsHold
<1>5. ASSUME NEW n \in Messages PROVE MessageHolds(n)'
  <2>1. MessageHolds(n)
    BY DEF PostsHold
  <2>2. CASE n = m
    <3>1. m \in withdrawn' => row.status = "deleted" /\ row.source = Website
      BY <1>1
    <3> QED  BY <2>1, <2>2, <3>1, <1>1, <1>2, <1>3 DEF MessageHolds
  <2>3. CASE n # m
    <3>1. message'[n] = message[n] /\ message[n].text \in Nat /\ (n \in withdrawn' <=> n \in withdrawn)
      BY <2>3, <1>3 DEF MessageRows
    <3> QED  BY <2>1, <3>1, <1>2 DEF MessageHolds
  <2> QED  BY <2>2, <2>3
<1>6. ASSUME NEW e \in Events PROVE EventHolds(e)'
  <2>1. EventHolds(e)
    BY DEF PostsHold
  <2> QED  BY <2>1, <1>1, <1>3 DEF EventHolds
<1>7. PostsHold'
  BY <1>2, <1>3, <1>4, <1>5, <1>6 DEF PostsHold
<1>8. message'[m].text \in Nat
  BY <1>3 DEF MessageRows
<1> QED  BY <1>1, <1>3, <1>7, <1>8

\* What a transaction queues for the platforms of a message reads as the
\* message does (createOutboundTasksExcept).
LEMMA RowsFollow ==
    ASSUME PostsHold, ChatOut, \A s \in Subject : RowsTell(s),
           NEW m \in Messages, message' = [message EXCEPT ![m] = message'[m]],
           message'[m].status # "absent",
           message[m].status # "absent" =>
               message'[m].source = message[m].source /\ message'[m].channel = message[m].channel,
           NEW task \in ChatTasks, task.text = message'[m].text,
           task.op = "create" <=> message[m].status = "absent",
           IF message'[m].channel = Lounge
           THEN Queued({<<m, p>> : p \in Platforms \ {message'[m].source}}, task)
           ELSE chatQueue' = chatQueue
    PROVE  \A s \in Subject : RowsTell(s)'
<1> SUFFICES ASSUME NEW s \in Subject PROVE RowsTell(s)'
  BY DEF Subject
<1>1. s[1] \in Messages /\ s[2] \in Platforms /\ s = <<s[1], s[2]>>
  BY DEF Subject
<1>2. chatQueue[s] \in Seq(ChatTasks) /\ RowsTell(s) /\ message \in [Messages -> MessageRows]
  BY DEF ChatOut, OutboxHolds, PostsHold
<1>3. CASE s[1] # m
  <2>1. message'[s[1]] = message[s[1]]
    BY <1>1, <1>2, <1>3
  <2>2. chatQueue'[s] = chatQueue[s]
    <3>1. s \notin {<<m, p>> : p \in Platforms \ {message'[m].source}}
      BY <1>3
    <3> QED  BY <3>1 DEF Queued
  <2> QED  BY <2>1, <2>2, <1>2 DEF RowsTell
<1>4. CASE s[1] = m /\ message'[m].channel = Lounge /\ message'[m].source # s[2]
  <2>1. s \in {<<m, p>> : p \in Platforms \ {message'[m].source}}
    BY <1>1, <1>4
  <2>2. chatQueue'[s] = Append(chatQueue[s], task)
    BY <2>1, <1>4 DEF Queued
  <2>3. /\ chatQueue'[s] # <<>> /\ chatQueue'[s][Len(chatQueue'[s])] = task
        /\ \A k \in DOMAIN chatQueue'[s] :
               \/ k \in DOMAIN chatQueue[s] /\ chatQueue'[s][k] = chatQueue[s][k]
               \/ k = Len(chatQueue[s]) + 1 /\ chatQueue'[s][k] = task
    BY <2>2, <1>2
  <2>4. task.op = "create" => chatQueue[s] = <<>>
    BY <1>2, <1>4 DEF RowsTell
  <2>5. \A k \in DOMAIN chatQueue'[s] : k # 1 => chatQueue'[s][k].op # "create"
    BY <2>3, <2>4, <1>2 DEF RowsTell
  <2> QED  BY <2>3, <2>5, <1>4 DEF RowsTell
<1>5. CASE s[1] = m /\ (message'[m].channel # Lounge \/ message'[m].source = s[2])
  <2>1. chatQueue'[s] = chatQueue[s]
    <3>1. CASE message'[m].channel # Lounge
      BY <3>1
    <3>2. CASE message'[m].channel = Lounge
      <4>1. s \notin {<<m, p>> : p \in Platforms \ {message'[m].source}}
        BY <1>5, <3>2, <1>1
      <4> QED  BY <4>1, <3>2 DEF Queued
    <3> QED  BY <3>1, <3>2
  <2>2. chatQueue[s] = <<>>
    BY <1>2, <1>5 DEF RowsTell
  <2> QED  BY <2>1, <2>2 DEF RowsTell
<1> QED  BY <1>3, <1>4, <1>5

\* What a platform does not get: what was written there, or nothing.
LEMMA Excepted ==
    ASSUME NEW m, NEW source
    PROVE  /\ source \in Platforms =>
                  BridgesExcept(m, source) = {<<m, p>> : p \in Platforms \ {source}}
           /\ BridgesExcept(m, None) = {<<m, p>> : p \in Platforms \ {Website}}
           /\ m \in Messages => BridgesExcept(m, source) \in SUBSET Subject
  BY ChatAssumption DEF BridgesExcept, Subject

\* A transaction on one message, and what it queues.
LEMMA Transaction ==
    ASSUME ChatInv, PostsHold', UNCHANGED <<outside, chatWorker>>,
           NEW m \in Messages, message' = [message EXCEPT ![m] = message'[m]],
           message'[m].status # "absent", message'[m].text \in Nat,
           message[m].status # "absent" =>
               message'[m].source = message[m].source /\ message'[m].channel = message[m].channel,
           NEW op \in {"create", "edit", "delete"},
           op = "create" <=> message[m].status = "absent",
           IF message'[m].channel = Lounge
           THEN Queued({<<m, p>> : p \in Platforms \ {message'[m].source}},
                       Task(op, message'[m].text))
           ELSE chatQueue' = chatQueue
    PROVE  ChatInv' /\ ChatStep
<1> DEFINE task == Task(op, message'[m].text)
<1>1. task \in ChatTasks /\ task.row.status = "pending"
      /\ task.op = op /\ task.text = message'[m].text
  BY TaskRows
<1> HIDE DEF task
<1>2. PostsHold /\ ChatOut /\ (\A s \in Subject : RowsTell(s)) /\ (\A s \in Subject : CopyTells(s))
      /\ copies' = copies /\ bridge' = bridge
  BY DEF ChatInv, outside
<1>3. \A s \in Subject : RowsTell(s)'
  <2>1. /\ task.op = "create" <=> message[m].status = "absent"
        /\ IF message'[m].channel = Lounge
           THEN Queued({<<m, p>> : p \in Platforms \ {message'[m].source}}, task)
           ELSE chatQueue' = chatQueue
    BY <1>1 DEF task
  <2> QED  BY <1>1, <1>2, <2>1, RowsFollow
<1>4. ChatOut' /\ (\A s \in Subject : CopyTells(s)') /\ ChatStep
  <2>1. CASE message'[m].channel = Lounge
    <3> DEFINE S == {<<m, p>> : p \in Platforms \ {message'[m].source}}
    <3>1. S \in SUBSET Subject /\ Queued(S, task)
      BY <2>1 DEF Subject, task
    <3> HIDE DEF S
    <3> QED  BY <3>1, <1>1, <1>2, ChatPosting
  <2>2. CASE message'[m].channel # Lounge
    BY <2>2, <1>2, ChatQuiet
  <2> QED  BY <2>1, <2>2
<1>5. Subject' = Subject
  BY DEF Subject
<1> QED  BY <1>2, <1>3, <1>4, <1>5 DEF ChatInv

\* A message changes in what the rows do not tell, or nothing does.
LEMMA AsideFromText ==
    ASSUME ChatInv, PostsHold', UNCHANGED <<outside, chatQueue, chatWorker>>,
           \A m \in Messages : /\ message'[m].status = message[m].status
                               /\ message'[m].text = message[m].text
                               /\ message'[m].source = message[m].source
                               /\ message'[m].channel = message[m].channel
    PROVE  ChatInv' /\ ChatStep
<1>1. PostsHold /\ ChatOut /\ (\A s \in Subject : RowsTell(s)) /\ (\A s \in Subject : CopyTells(s))
      /\ copies' = copies /\ bridge' = bridge /\ chatQueue' = chatQueue
  BY DEF ChatInv, outside
<1>2. ChatOut' /\ (\A s \in Subject : CopyTells(s)') /\ ChatStep
  BY <1>1, ChatQuiet
<1>3. \A s \in Subject : RowsTell(s)'
  BY <1>1 DEF RowsTell, Subject
<1>4. Subject' = Subject
  BY DEF Subject
<1> QED  BY <1>1, <1>2, <1>3, <1>4 DEF ChatInv

\* A member writes, in a channel, a thread or by forwarding (CreateMessage,
\* CreateChannelMessage, ForwardMessage).
LEMMA Writing ==
    ASSUME ChatInv, Overlap = FALSE, NEW m \in Messages, NEW a \in Accounts,
           NEW c \in Channels, NEW p \in Messages \cup {None},
           InsertMessage(m, a, Website, c, p), UNCHANGED <<reactions, inbound, withdrawn>>,
           UNCHANGED <<outside, chatWorker>>,
           \/ /\ c = Lounge /\ p = None
              /\ CreateOutboundTasks(BridgesExcept(m, None), "create", texts + 1)
           \/ ~(c = Lounge /\ p = None) /\ chatQueue' = chatQueue
    PROVE  ChatInv' /\ ChatStep
<1>1. /\ PostsHold' /\ message' = [message EXCEPT ![m] = message'[m]]
      /\ message'[m].text = texts + 1 /\ message'[m].status = "active"
      /\ message'[m].source = Website /\ message'[m].channel = c
      /\ message[m].status = "absent"
  <2>1. /\ PostsHold /\ a \in Accounts \cup {None} /\ Website \in Platforms \cup {Website}
        /\ UNCHANGED <<reactions, withdrawn>> /\ Noted(m, Website, c)
    BY DEF ChatInv, Noted
  <2> QED  BY ONLY <2>1, Inserting, m \in Messages, c \in Channels, p \in Messages \cup {None},
                   InsertMessage(m, a, Website, c, p)
<1>2. message'[m].text \in Nat
  BY <1>1 DEF ChatInv, PostsHold, MessageRows
<1>3. CASE c = Lounge /\ p = None
  <2>1. Queued(BridgesExcept(m, None), Task("create", texts + 1))
    BY <1>3, InOrder, Excepted
  <2>2. Queued({<<m, x>> : x \in Platforms \ {message'[m].source}},
               Task("create", message'[m].text))
    BY <2>1, <1>1, Excepted
  <2> QED  BY <2>2, <1>1, <1>2, <1>3, Transaction
<1>4. CASE c # Lounge
  BY <1>1, <1>2, <1>4, Transaction
<1>5. CASE c = Lounge /\ p # None
  <2>1. chatQueue' = chatQueue
    BY <1>5
  <2>2. \A s \in Subject : RowsTell(s)'
    <3> SUFFICES ASSUME NEW s \in Subject PROVE RowsTell(s)'
      BY DEF Subject
    <3>1. RowsTell(s) /\ s[1] \in Messages /\ message \in [Messages -> MessageRows]
      BY DEF ChatInv, PostsHold, Subject
    <3>2. CASE s[1] = m
      <4>1. chatQueue[s] = <<>>
        BY <3>1, <3>2, <1>1 DEF RowsTell
      <4> QED  BY <4>1, <2>1 DEF RowsTell
    <3>3. CASE s[1] # m
      <4>1. message'[s[1]] = message[s[1]]
        BY <3>1, <3>3, <1>1
      <4> QED  BY <4>1, <3>1, <2>1 DEF RowsTell
    <3> QED  BY <3>2, <3>3
  <2>3. ChatOut' /\ (\A s \in Subject : CopyTells(s)') /\ ChatStep
    BY <2>1, ChatQuiet DEF ChatInv
  <2>4. copies' = copies /\ bridge' = bridge /\ Subject' = Subject
    BY DEF outside, Subject
  <2> QED  BY <1>1, <2>2, <2>3, <2>4 DEF ChatInv
<1> QED  BY <1>3, <1>4, <1>5

\* What a member changes is its own and stands (EditOwnMessage,
\* WithdrawOwnMessage).
LEMMA Changing ==
    ASSUME ChatInv, Overlap = FALSE, NEW m \in Messages, NEW a \in Accounts,
           EditMessage(a, m) \/ WithdrawMessage(a, m)
    PROVE  ChatInv' /\ ChatStep
<1>1. PICK op \in {"edit", "delete"} :
          /\ LockOwned(m, a) /\ UpdateExistingMessage(m, op)
          /\ UNCHANGED <<reactions, inbound>> /\ UNCHANGED <<outside, chatWorker>>
          /\ op = "edit" => withdrawn' = withdrawn
          /\ op = "delete" => withdrawn' = withdrawn \cup {m}
          /\ IF message[m].channel = Lounge
             THEN CreateOutboundTasks(BridgesExcept(m, None), op, message'[m].text)
             ELSE UNCHANGED chatQueue
  <2>1. CASE EditMessage(a, m)
    BY <2>1 DEF EditMessage, EditOwnMessage
  <2>2. CASE WithdrawMessage(a, m)
    <3>1. message'[m].text = 0
      <4>1. message' = [message EXCEPT ![m].status = "deleted", ![m].text = 0]
            /\ message \in [Messages -> MessageRows]
        BY <2>2 DEF WithdrawMessage, WithdrawOwnMessage, UpdateExistingMessage, ChatInv, PostsHold
      <4> QED  BY <4>1 DEF MessageRows
    <3> QED  BY <2>2, <3>1 DEF WithdrawMessage, WithdrawOwnMessage
  <2> QED  BY <2>1, <2>2
<1>2. message[m].status \notin {"absent", "deleted"} /\ message[m].source = Website
  BY <1>1 DEF LockOwned
<1>3. m \notin withdrawn /\ PostsHold
  BY <1>2 DEF ChatInv, PostsHold, MessageHolds
<1>4. /\ PostsHold' /\ message' = [message EXCEPT ![m] = message'[m]]
      /\ message'[m].status # "absent" /\ message'[m].text \in Nat
      /\ message'[m].source = message[m].source
      /\ message'[m].channel = message[m].channel
  <2>1. \/ withdrawn' = withdrawn
        \/ withdrawn' = withdrawn \cup {m} /\ op = "delete" /\ message[m].source = Website
    BY <1>1, <1>2
  <2> QED  BY ONLY <1>1, <1>2, <1>3, <2>1, Updating, m \in Messages
<1>5. CASE message[m].channel = Lounge
  <2>1. Queued(BridgesExcept(m, None), Task(op, message'[m].text))
    BY <1>1, <1>5, InOrder, Excepted
  <2>2. Queued({<<m, x>> : x \in Platforms \ {message'[m].source}}, Task(op, message'[m].text))
    BY <2>1, <1>2, <1>4, Excepted
  <2> QED  BY <2>2, <1>1, <1>2, <1>4, <1>5, Transaction
<1>6. CASE message[m].channel # Lounge
  BY <1>1, <1>2, <1>4, <1>6, Transaction
<1> QED  BY <1>5, <1>6

\* An event makes a message or changes the one it made, and is not sent back
\* (HandleWebhook, ApplyExternalMessage).
LEMMA Receiving ==
    ASSUME ChatInv, Overlap = FALSE, NEW e \in Events, NEW op \in {"create", "edit", "delete"},
           HandleWebhook(e, op)
    PROVE  ChatInv' /\ ChatStep
<1>1. UNCHANGED <<outside, chatWorker>>
  BY DEF HandleWebhook
<1>2. Origin[e] \in Platforms /\ Origin[e] # Website /\ Lounge \in Channels
  BY ChatAssumption
<1>3. ASSUME Unseen(e), NEW m \in Messages, ApplyNew(m, e, op)
      PROVE  ChatInv' /\ ChatStep
  <2>1. InsertMessage(m, None, Origin[e], Lounge, None) /\ UNCHANGED <<reactions, withdrawn>>
        /\ inbound[e] = None /\ inbound' = [inbound EXCEPT ![e] = m]
        /\ CreateOutboundTasks(BridgesExcept(m, Origin[e]), "create", texts + 1)
    BY <1>3 DEF ApplyNew, Unseen
  <2>2. /\ PostsHold' /\ message' = [message EXCEPT ![m] = message'[m]]
        /\ message'[m].text = texts + 1 /\ message'[m].status = "active"
        /\ message'[m].source = Origin[e] /\ message'[m].channel = Lounge
        /\ message[m].status = "absent"
    <3>1. /\ PostsHold /\ None \in Accounts \cup {None} /\ Origin[e] \in Platforms \cup {Website}
          /\ None \in Messages \cup {None}
      BY <1>2, <2>1 DEF ChatInv
    <3>2. Noted(m, Origin[e], Lounge)
      BY <2>1 DEF Noted
    <3>3. PICK a \in Accounts \cup {None}, p \in Messages \cup {None},
               source \in Platforms \cup {Website} :
               a = None /\ p = None /\ source = Origin[e]
      BY <1>2
    <3>4. InsertMessage(m, a, source, Lounge, p) /\ Noted(m, source, Lounge)
      BY <2>1, <3>2, <3>3
    <3>5. /\ PostsHold' /\ message' = [message EXCEPT ![m] = message'[m]]
          /\ message'[m].text = texts + 1 /\ message'[m].status = "active"
          /\ message'[m].source = source /\ message'[m].channel = Lounge
          /\ message[m].status = "absent"
      BY ONLY <2>1, <3>1, <3>4, <1>2, Inserting, m \in Messages,
              a \in Accounts \cup {None}, p \in Messages \cup {None},
              source \in Platforms \cup {Website}
    <3> QED  BY <3>3, <3>5
  <2>3. message'[m].text \in Nat
    BY <2>2 DEF ChatInv, PostsHold, MessageRows
  <2>4. Queued({<<m, p>> : p \in Platforms \ {message'[m].source}},
               Task("create", message'[m].text))
    <3>1. BridgesExcept(m, Origin[e]) \in SUBSET Subject
          /\ BridgesExcept(m, Origin[e]) = {<<m, p>> : p \in Platforms \ {Origin[e]}}
      BY <1>2, Excepted
    <3>2. Queued(BridgesExcept(m, Origin[e]), Task("create", texts + 1))
      BY <2>1, <3>1, InOrder
    <3> QED  BY <2>2, <3>1, <3>2
  <2> QED  BY <2>2, <2>3, <2>4, <1>1, Transaction
<1>4. ASSUME ~Unseen(e), op # "create", ApplyKnown(e, op)
      PROVE  ChatInv' /\ ChatStep
  <2> DEFINE m == inbound[e]
  <2>1. /\ m \in Messages /\ message[m].source = Origin[e] /\ message[m].status # "absent"
        /\ m \notin withdrawn /\ message[m].channel = Lounge /\ PostsHold
    <3>1. PostsHold /\ inbound[e] # None
      BY <1>4 DEF ChatInv, Unseen
    <3>2. m \in Messages /\ message[m].source = Origin[e] /\ message[m].status # "absent"
      BY <3>1 DEF PostsHold, EventHolds
    <3>3. MessageHolds(m)
      BY <3>1, <3>2 DEF PostsHold
    <3> QED  BY <3>1, <3>2, <3>3, <1>2 DEF MessageHolds
  <2>2. /\ UpdateExistingMessage(m, op) /\ UNCHANGED <<reactions, inbound>>
        /\ withdrawn' = withdrawn /\ op \in {"edit", "delete"}
        /\ CreateOutboundTasks(BridgesExcept(m, Origin[e]), op, message'[m].text)
    BY <1>4 DEF ApplyKnown
  <2> HIDE DEF m
  <2>3. /\ PostsHold' /\ message' = [message EXCEPT ![m] = message'[m]]
        /\ message'[m].status # "absent" /\ message'[m].text \in Nat
        /\ message'[m].source = message[m].source
        /\ message'[m].channel = message[m].channel
    BY ONLY <2>1, <2>2, Updating
  <2>4. Queued({<<m, p>> : p \in Platforms \ {message'[m].source}}, Task(op, message'[m].text))
    <3>1. BridgesExcept(m, Origin[e]) \in SUBSET Subject
          /\ BridgesExcept(m, Origin[e]) = {<<m, p>> : p \in Platforms \ {Origin[e]}}
      BY <1>2, <2>1, Excepted
    <3>2. Queued(BridgesExcept(m, Origin[e]), Task(op, message'[m].text))
      BY <2>2, <3>1, InOrder
    <3> QED  BY <2>1, <2>3, <3>1, <3>2
  <2> QED  BY <2>1, <2>2, <2>3, <2>4, <1>1, Transaction
<1> QED  BY <1>3, <1>4 DEF HandleWebhook, ApplyExternalMessage

LEMMA Reacting ==
    ASSUME ChatInv, NEW m \in Messages, NEW a \in Accounts,
           \/ AddReaction(a, m) \/ DropReaction(a, m)
           \/ \E pinned \in BOOLEAN : SetPin(a, m, pinned)
    PROVE  ChatInv' /\ ChatStep
<1>1. /\ UNCHANGED <<outside, chatWorker, chatQueue>>
      /\ UNCHANGED <<texts, inbound, withdrawn>>
      /\ reactions' \subseteq Messages \X Accounts
  BY DEF AddReaction, DropReaction, SetReaction, RemoveReaction, SetPin, SetPinned, ChatInv,
         PostsHold
<1>2. \/ message' = message
      \/ \E pinned \in BOOLEAN : message' = [message EXCEPT ![m].pinned = pinned]
  BY DEF AddReaction, DropReaction, SetReaction, RemoveReaction, SetPin, SetPinned
<1>3. /\ message' \in [Messages -> MessageRows]
      /\ \A n \in Messages : /\ message'[n].status = message[n].status
                             /\ message'[n].text = message[n].text
                             /\ message'[n].source = message[n].source
                             /\ message'[n].channel = message[n].channel
  <2>1. message \in [Messages -> MessageRows]
    BY DEF ChatInv, PostsHold
  <2>2. CASE message' = message
    BY <2>1, <2>2
  <2>3. ASSUME NEW pinned \in BOOLEAN, message' = [message EXCEPT ![m].pinned = pinned]
        PROVE  <1>3!1 /\ <1>3!2
    BY <2>1, <2>3 DEF MessageRows
  <2> QED  BY <1>2, <2>2, <2>3
<1>4. PostsHold'
  <2>1. PostsHold
    BY DEF ChatInv
  <2>2. \A n \in Messages : MessageHolds(n)'
    BY <2>1, <1>1, <1>3 DEF PostsHold, MessageHolds
  <2>3. \A f \in Events : EventHolds(f)'
    BY <2>1, <1>1, <1>3 DEF PostsHold, EventHolds
  <2> QED  BY <2>1, <2>2, <2>3, <1>1, <1>3 DEF PostsHold
<1> QED  BY <1>1, <1>3, <1>4, AsideFromText

-----------------------------------------------------------------------------
(* The worker of the chat.                                                 *)

LEMMA ChatRows ==
    ASSUME NEW r \in Sync!OutboxRow
    PROVE  /\ Sync!ClaimedRow(r) \in Sync!OutboxRow
           /\ Sync!ClaimedRow(r).status = "processing" /\ Sync!ClaimedRow(r).stale = FALSE
           /\ Sync!DoneRow(r) \in Sync!OutboxRow /\ Sync!DoneRow(r).status = "done"
           /\ Sync!FailedRow(r) \in Sync!OutboxRow
           /\ Sync!FailedRow(r).status \in {"failed", "abandoned"}
           /\ Sync!Due(r) \in Sync!OutboxRow /\ Sync!Due(r).status = r.status
           /\ Sync!Stale(r) \in Sync!OutboxRow /\ Sync!Stale(r).status = r.status
<1> USE DEF Sync!OutboxRow, Sync!OutboxStatus
<1>1. Sync!ClaimedRow(r) \in Sync!OutboxRow
      /\ Sync!ClaimedRow(r).status = "processing" /\ Sync!ClaimedRow(r).stale = FALSE
  BY DEF Sync!ClaimedRow
<1>2. Sync!DoneRow(r) \in Sync!OutboxRow /\ Sync!DoneRow(r).status = "done"
  BY DEF Sync!DoneRow
<1>3. PICK status \in {"failed", "abandoned"} :
          Sync!FailedRow(r) = [r EXCEPT !.status = status, !.due = FALSE, !.stale = FALSE]
  BY DEF Sync!FailedRow
<1>4. Sync!FailedRow(r) \in Sync!OutboxRow /\ Sync!FailedRow(r).status \in {"failed", "abandoned"}
  BY <1>3
<1>5. Sync!Due(r) \in Sync!OutboxRow /\ Sync!Due(r).status = r.status
  BY DEF Sync!Due
<1>6. Sync!Stale(r) \in Sync!OutboxRow /\ Sync!Stale(r).status = r.status
  BY DEF Sync!Stale
<1> QED  BY <1>1, <1>2, <1>4, <1>5, <1>6

\* One row is set (MarkOutboxSent, MarkOutboxFailed).
LEMMA ChatRowSet ==
    ASSUME chatQueue \in [Subject -> Seq(ChatTasks)],
           NEW s \in Subject, NEW k \in DOMAIN chatQueue[s], NEW t, t[1] = s, t[2] = k,
           NEW r \in Sync!OutboxRow, Sync!SetRow(t, r)
    PROVE  /\ chatQueue' \in [Subject -> Seq(ChatTasks)]
           /\ \A i \in Subject : /\ Len(chatQueue'[i]) = Len(chatQueue[i])
                                 /\ DOMAIN chatQueue'[i] = DOMAIN chatQueue[i]
           /\ \A i \in Subject : \A j \in DOMAIN chatQueue[i] :
                 /\ <<i, j>> # <<s, k>> => chatQueue'[i][j] = chatQueue[i][j]
                 /\ chatQueue'[i][j].op = chatQueue[i][j].op
                 /\ chatQueue'[i][j].text = chatQueue[i][j].text
           /\ chatQueue'[s][k].row = r
<1> DEFINE x == [chatQueue[s][k] EXCEPT !.row = r]
           q == [chatQueue[s] EXCEPT ![k] = x]
<1>1. chatQueue' = [chatQueue EXCEPT ![s] = q]
  BY DEF Sync!SetRow
<1>2. chatQueue[s] \in Seq(ChatTasks) /\ chatQueue[s][k] \in ChatTasks
  OBVIOUS
<1>3. x \in ChatTasks /\ x.row = r /\ x.op = chatQueue[s][k].op /\ x.text = chatQueue[s][k].text
  BY <1>2 DEF ChatTasks
<1> HIDE DEF x
<1>4. /\ q \in Seq(ChatTasks) /\ Len(q) = Len(chatQueue[s])
      /\ DOMAIN q = DOMAIN chatQueue[s] /\ q[k] = x
      /\ \A j \in DOMAIN chatQueue[s] : j # k => q[j] = chatQueue[s][j]
  BY <1>2, <1>3
<1> HIDE DEF q
<1>5. /\ chatQueue' \in [Subject -> Seq(ChatTasks)] /\ chatQueue'[s] = q
      /\ \A i \in Subject : i # s => chatQueue'[i] = chatQueue[i]
  BY <1>1, <1>4
<1> QED  BY <1>3, <1>4, <1>5

\* Rows change, their texts do not.
LEMMA TextsStay ==
    ASSUME ChatInv, UNCHANGED posts,
           chatQueue' \in [Subject -> Seq(ChatTasks)],
           \A i \in Subject : /\ Len(chatQueue'[i]) = Len(chatQueue[i])
                              /\ DOMAIN chatQueue'[i] = DOMAIN chatQueue[i],
           \A i \in Subject : \A j \in DOMAIN chatQueue[i] :
                 /\ chatQueue'[i][j].op = chatQueue[i][j].op
                 /\ chatQueue'[i][j].text = chatQueue[i][j].text
    PROVE  PostsHold' /\ \A s \in Subject : RowsTell(s)'
<1>1. PostsHold'
  BY DEF ChatInv, PostsHold, MessageHolds, EventHolds, posts
<1>2. ASSUME NEW s \in Subject PROVE RowsTell(s)'
  <2>1. RowsTell(s) /\ chatQueue[s] \in Seq(ChatTasks) /\ chatQueue'[s] \in Seq(ChatTasks)
        /\ message' = message
    BY DEF ChatInv, ChatOut, OutboxHolds, posts
  <2>2. chatQueue[s] = <<>> <=> chatQueue'[s] = <<>>
    BY <2>1
  <2>3. chatQueue[s] # <<>> => Len(chatQueue[s]) \in DOMAIN chatQueue[s]
    BY <2>1
  <2> QED  BY <2>1, <2>2, <2>3 DEF RowsTell
<1>3. Subject' = Subject
  BY DEF Subject
<1> QED  BY <1>1, <1>2, <1>3

\* Rows change, and none is marked as sent that was not.
LEMMA CopiesStay ==
    ASSUME ChatInv, UNCHANGED <<bridge, copies, arrived>>,
           \A i \in Subject : \A j \in DOMAIN chatQueue[i] :
                 /\ chatQueue'[i][j].op = chatQueue[i][j].op
                 /\ chatQueue'[i][j].text = chatQueue[i][j].text
                 /\ chatQueue'[i][j].row.status = "done" => chatQueue[i][j].row.status = "done"
    PROVE  \A s \in Subject : CopyTells(s)'
<1> SUFFICES ASSUME NEW s \in Subject PROVE CopyTells(s)'
  BY DEF Subject
<1>1. CopyTells(s) /\ QueueHolds(chatQueue[s], arrived[s]) /\ chatQueue[s] \in Seq(ChatTasks)
  BY DEF ChatInv, ChatOut, OutboxHolds
<1>2. arrived[s] # 0 => arrived[s] \in DOMAIN chatQueue[s]
  BY <1>1 DEF QueueHolds
<1> QED  BY <1>1, <1>2 DEF CopyTells

\* The set of copies given up, and the step of OrderedOutbox, when rows change.
LEMMA QueuesStay ==
    ASSUME UNCHANGED arrived,
           \A i \in Subject : Len(chatQueue'[i]) = Len(chatQueue[i]),
           \A i \in Subject : Abandoned(i)' <=> Abandoned(i)
    PROVE  ChatStep
<1>1. UNCHANGED ChatOutbox!vars
  BY DEF ChatOutbox!vars, Subject
<1> QED  BY <1>1 DEF ChatStep

\* Rows that are due go to one worker (ClaimOutbox).
LEMMA ChatClaims ==
    ASSUME ChatInv, NEW w \in Workers, ClaimOutbox(w)
    PROVE  ChatInv' /\ ChatStep
<1>1. PICK T \in SUBSET Sync!Ready : Sync!ClaimTasks(w, T)
  BY DEF ClaimOutbox
<1>2. ChatOut /\ UNCHANGED <<posts, outside>> /\ chatQueue \in [Subject -> Seq(ChatTasks)]
  BY DEF ClaimOutbox, ChatInv, ChatOut, OutboxHolds
<1>3. \A i \in Subject : chatQueue[i] \in Seq(ChatTasks) /\ DOMAIN chatQueue[i] \subseteq Nat
  BY <1>2
<1>4. ASSUME NEW t \in T
      PROVE  /\ t[1] \in Subject /\ t[2] \in DOMAIN chatQueue[t[1]] /\ t = <<t[1], t[2]>>
             /\ t \in Subject \X Nat
             /\ Sync!Claimable(RowOf(chatQueue, t)) /\ SentBefore(chatQueue[t[1]], t[2])
  <2>1. t \in Sync!Tasks /\ Sync!Claimable(Sync!TaskRow(t))
        /\ \A k \in 1..(t[2] - 1) : Sync!TaskRow(<<t[1], k>>).status = "done"
    BY <1>1 DEF Sync!Ready
  <2>2. PICK i \in DOMAIN chatQueue : t \in {i} \X DOMAIN chatQueue[i]
    BY <2>1 DEF Sync!Tasks
  <2>3. t = <<i, t[2]>> /\ t[1] = i /\ i \in Subject /\ t[2] \in DOMAIN chatQueue[i]
    BY <2>2, <1>2
  <2> QED  BY <2>1, <2>3, <1>3 DEF Sync!TaskRow, RowOf, SentBefore
<1>5. ASSUME NEW i \in Subject, NEW j \in DOMAIN chatQueue[i]
      PROVE  chatQueue[i][j] \in ChatTasks /\ chatQueue[i][j].row \in Sync!OutboxRow
  <2>1. chatQueue[i] \in Seq(ChatTasks)
    BY <1>3
  <2>2. chatQueue[i][j] \in ChatTasks
    BY <2>1
  <2> QED  BY <2>2 DEF ChatTasks
<1> DEFINE Q2 == [i \in Subject |-> [j \in DOMAIN chatQueue[i] |->
                      IF <<i, j>> \in T
                      THEN [chatQueue[i][j] EXCEPT !.row = Sync!ClaimedRow(@)]
                      ELSE chatQueue[i][j]]]
<1>6. chatQueue' = Q2
  BY <1>1, <1>2 DEF Sync!ClaimTasks
<1>7. ASSUME NEW i \in Subject, NEW j \in DOMAIN chatQueue[i]
      PROVE  /\ Q2[i][j] \in ChatTasks
             /\ Q2[i][j].op = chatQueue[i][j].op /\ Q2[i][j].text = chatQueue[i][j].text
             /\ <<i, j>> \notin T => Q2[i][j] = chatQueue[i][j]
             /\ <<i, j>> \in T => /\ Q2[i][j].row.status = "processing"
                                  /\ Q2[i][j].row.stale = FALSE
  <2>1. CASE <<i, j>> \in T
    <3> DEFINE r == Sync!ClaimedRow(chatQueue[i][j].row)
    <3>1. r \in Sync!OutboxRow /\ r.status = "processing" /\ r.stale = FALSE
      BY <1>5, ChatRows
    <3>2. Q2[i][j] = [chatQueue[i][j] EXCEPT !.row = r]
      BY <2>1
    <3> HIDE DEF Q2, r
    <3>3. chatQueue[i][j] \in ChatTasks
      BY <1>5
    <3>4. Q2[i][j] \in ChatTasks /\ Q2[i][j].row = r
          /\ Q2[i][j].op = chatQueue[i][j].op /\ Q2[i][j].text = chatQueue[i][j].text
      BY <3>1, <3>2, <3>3 DEF ChatTasks
    <3> QED  BY <2>1, <3>1, <3>4
  <2>2. CASE <<i, j>> \notin T
    BY <2>2, <1>5
  <2> QED  BY <2>1, <2>2
<1>8. \A i \in Subject : DOMAIN Q2[i] = DOMAIN chatQueue[i]
  OBVIOUS
<1>9. DOMAIN Q2 = Subject /\ Q2 = [i \in Subject |-> Q2[i]]
  OBVIOUS
<1> HIDE DEF Q2
<1>10. ASSUME NEW i \in Subject
       PROVE  Q2[i] \in Seq(ChatTasks) /\ Len(Q2[i]) = Len(chatQueue[i])
  <2>1. chatQueue[i] \in Seq(ChatTasks) /\ DOMAIN chatQueue[i] = 1..Len(chatQueue[i])
        /\ Len(chatQueue[i]) \in Nat
    BY <1>3, Domains
  <2>2. Q2[i] = [j \in 1..Len(chatQueue[i]) |-> Q2[i][j]]
    BY <2>1 DEF Q2
  <2>3. \A j \in 1..Len(chatQueue[i]) : Q2[i][j] \in ChatTasks
    BY <2>1, <1>7
  <2>4. Q2[i] \in [1..Len(chatQueue[i]) -> ChatTasks]
    BY <2>2, <2>3
  <2> QED  BY <2>1, <2>4
<1>11. Q2 \in [Subject -> Seq(ChatTasks)]
  BY <1>9, <1>10
<1>12. PICK W2 : /\ Turns(chatWorker, W2, w, T, None, "next")
                 /\ chatWorker[w].todo = {} /\ chatWorker' = W2
  BY <1>1 DEF Sync!ClaimTasks, Sync!Idle, Sync!Pass, Turns
<1>13. /\ OutboxHolds(Subject, ChatTasks, Workers, None, Q2, arrived, W2)
       /\ \A i \in Subject : (\E k \in DOMAIN Q2[i] : Q2[i][k].row.status = "abandoned")
                  <=> (\E k \in DOMAIN chatQueue[i] : chatQueue[i][k].row.status = "abandoned")
  <2>1. T \in SUBSET (Subject \X Nat)
    BY <1>4
  <2>2. \A t \in T : /\ t[2] \in DOMAIN chatQueue[t[1]] /\ SentBefore(chatQueue[t[1]], t[2])
                     /\ RowOf(chatQueue, t).status \notin {"done", "abandoned"}
                     /\ ~Claimed(chatQueue, t)
                     /\ RowOf(Q2, t).status = "processing" /\ RowOf(Q2, t).stale = FALSE
    <3> TAKE t \in T
    <3>1. RowOf(chatQueue, t).status \notin {"done", "abandoned"} /\ ~Claimed(chatQueue, t)
      <4>1. RowOf(chatQueue, t) \in Sync!OutboxRow
        BY <1>4, <1>5 DEF RowOf
      <4> QED  BY <4>1, <1>4 DEF Sync!Claimable, Claimed, Sync!OutboxRow
    <3>2. RowOf(Q2, t).status = "processing" /\ RowOf(Q2, t).stale = FALSE
      BY <1>4, <1>7 DEF RowOf
    <3> QED  BY <1>4, <3>1, <3>2
  <2>3. \A i \in Subject : \A k \in DOMAIN chatQueue[i] :
            <<i, k>> \notin T => Q2[i][k] = chatQueue[i][k]
    BY <1>7
  <2>4. \A i \in Subject : Len(Q2[i]) = Len(chatQueue[i])
    BY <1>10
  <2>5. OutboxHolds(Subject, ChatTasks, Workers, None, chatQueue, arrived, chatWorker)
    BY <1>2 DEF ChatOut
  <2>6. RowsClaimed(Subject, chatQueue, Q2, T)
    BY <2>1, <2>2, <2>3, <2>4 DEF RowsClaimed
  <2>7. w \in Workers /\ chatWorker[w].todo = {}
        /\ Turns(chatWorker, W2, w, T, None, "next")
    BY <1>12
  <2> QED  BY ONLY <2>5, <2>6, <2>7, <1>11, Claiming
<1>14. ChatOut'
  BY <1>2, <1>6, <1>12, <1>13 DEF ChatOut, Subject, outside
<1>15. PostsHold' /\ (\A s \in Subject : RowsTell(s)')
  BY <1>2, <1>6, <1>7, <1>8, <1>10, <1>11, TextsStay
<1>16. \A s \in Subject : CopyTells(s)'
  <2>1. \A i \in Subject : \A j \in DOMAIN chatQueue[i] :
                 /\ chatQueue'[i][j].op = chatQueue[i][j].op
                 /\ chatQueue'[i][j].text = chatQueue[i][j].text
                 /\ chatQueue'[i][j].row.status = "done" => chatQueue[i][j].row.status = "done"
    <3> TAKE i \in Subject
    <3> TAKE j \in DOMAIN chatQueue[i]
    <3>1. CASE <<i, j>> \in T
      BY <1>6, <1>7, <3>1
    <3>2. CASE <<i, j>> \notin T
      BY <1>6, <1>7, <3>2
    <3> QED  BY <3>1, <3>2
  <2> QED  BY <2>1, <1>2, CopiesStay DEF outside
<1>17. ChatStep
  <2>1. \A i \in Subject : Abandoned(i)' <=> Abandoned(i)
    BY <1>6, <1>13 DEF Abandoned
  <2> QED  BY <2>1, <1>2, <1>6, <1>10, QueuesStay DEF outside
<1>18. copies' = copies /\ bridge' = bridge /\ Subject' = Subject
  BY <1>2 DEF outside, Subject
<1> QED  BY <1>14, <1>15, <1>16, <1>17, <1>18 DEF ChatInv

\* What a request did on the platform, if it did anything (Send, SendFails).
ChatReached(w, t, step) ==
    /\ Sync!TaskSent(w, t, step) /\ t \in chatWorker[w].todo
    /\ UNCHANGED <<posts, bridge, chatQueue>>
    /\ \/ UNCHANGED <<copies, arrived>> /\ step = "failing"
       \/ /\ Reaches(t[1], chatQueue[t[1]][t[2]])
          /\ arrived' = [arrived EXCEPT ![t[1]] = t[2]]

\* The next row arrives, or the one before it once more (OrderedOutbox!Arrive).
LEMMA ChatArrives ==
    ASSUME ChatInv, NEW w \in Workers, NEW t \in chatWorker[w].todo,
           NEW step \in {"sent", "failing"}, ChatReached(w, t, step)
    PROVE  ChatInv' /\ ChatStep
<1>1. /\ chatQueue' = chatQueue /\ bridge' = bridge /\ UNCHANGED posts
      /\ OutboxHolds(Subject, ChatTasks, Workers, None, chatQueue, arrived, chatWorker)
  BY DEF ChatReached, ChatInv, ChatOut
<1>2. PICK A2, W2 : /\ arrived' = A2 /\ chatWorker' = W2
                    /\ Turns(chatWorker, W2, w, chatWorker[w].todo, t, step)
                    /\ Arrives(arrived, A2, t, step)
  BY DEF ChatReached, Sync!TaskSent, Sync!Pass, Turns, Arrives
<1>3. t # None
  <2>1. None \notin Subject \X Nat /\ t \in Subject \X Nat
    BY <1>1, HeldRow, ChatAssumption DEF Subject, WaitsFor
  <2> QED  BY <2>1
<1>4. WaitsFor(Subject, ChatTasks, chatQueue, arrived, t)
  BY <1>1, HeldRow
<1>5. PICK s \in Subject, k \in Nat :
          /\ k \in DOMAIN chatQueue[s] /\ t = <<s, k>> /\ t[1] = s /\ t[2] = k
          /\ chatQueue[s][k].row.status = "processing"
  BY <1>4 DEF WaitsFor, Claimed, RowOf
<1>6. /\ OutboxHolds(Subject, ChatTasks, Workers, None, chatQueue, A2, W2)
      /\ t[2] = arrived[t[1]] \/ t[2] = arrived[t[1]] + 1
      /\ \A j \in DOMAIN chatQueue[t[1]] :
            chatQueue[t[1]][j].row.status \in {"pending", "done"} \/ j = t[2]
  <2>1. Sends(Subject, ChatTasks, Workers, None, chatQueue, arrived, A2, chatWorker,
              W2, w, t, step)
    BY <1>1, <1>2, <1>3 DEF Sends
  <2> QED  BY ONLY <2>1, Sending
<1>7. /\ chatQueue[s] \in Seq(ChatTasks) /\ arrived \in [Subject -> Nat]
      /\ Len(chatQueue[s]) \in Nat /\ DOMAIN chatQueue[s] = 1..Len(chatQueue[s])
      /\ chatQueue[s][k] \in ChatTasks
  <2>1. chatQueue[s] \in Seq(ChatTasks) /\ arrived \in [Subject -> Nat]
    BY <1>1 DEF OutboxHolds
  <2>2. chatQueue[s][k] \in ChatTasks
    BY <2>1, <1>5
  <2> QED  BY <2>1, <2>2, Domains
<1>8. ChatOut'
  BY <1>1, <1>2, <1>6 DEF ChatOut, Subject
<1>9. PostsHold' /\ (\A i \in Subject : RowsTell(i)')
  <2>1. PostsHold'
    BY <1>1 DEF ChatInv, PostsHold, MessageHolds, EventHolds, posts
  <2> QED  BY <1>1, <2>1 DEF ChatInv, RowsTell, posts
<1>10. CASE UNCHANGED <<copies, arrived>>
  <2>1. \A i \in Subject : CopyTells(i)'
    BY <1>10, <1>1 DEF ChatInv, CopyTells
  <2>2. \A i \in Subject : Abandoned(i)' <=> Abandoned(i)
    BY <1>1 DEF Abandoned
  <2>3. ChatStep
    BY <1>1, <1>10, <2>2, QueuesStay
  <2> QED  BY <1>1, <1>8, <1>9, <1>10, <2>1, <2>3 DEF ChatInv, Subject
<1>11. CASE /\ Reaches(s, chatQueue[s][k])
            /\ arrived' = [arrived EXCEPT ![s] = k]
  <2>1. arrived'[s] = k /\ \A i \in Subject : i # s => arrived'[i] = arrived[i]
    BY <1>11, <1>7
  <2>2. /\ copies[s] \in Seq(Nat) /\ bridge[s] \in 0..Len(copies[s])
        /\ copies \in [Subject -> Seq(Nat)]
    BY DEF ChatInv, CopyTells
  <2>3. PICK c \in Seq(Nat) :
            /\ copies' = [copies EXCEPT ![s] = c]
            /\ \/ chatQueue[s][k].op = "create" /\ c = Append(copies[s], chatQueue[s][k].text)
               \/ /\ chatQueue[s][k].op # "create" /\ bridge[s] # 0
                  /\ c = [copies[s] EXCEPT ![bridge[s]] = chatQueue[s][k].text]
    <3>1. chatQueue[s][k].text \in Nat
      BY <1>7 DEF ChatTasks
    <3>2. CASE chatQueue[s][k].op = "create"
      <4>1. Append(copies[s], chatQueue[s][k].text) \in Seq(Nat)
        BY <2>2, <3>1
      <4> QED  BY <4>1, <3>2, <1>11 DEF Reaches
    <3>3. CASE chatQueue[s][k].op # "create"
      <4>1. bridge[s] # 0 /\ copies' = [copies EXCEPT ![s][bridge[s]] = chatQueue[s][k].text]
        BY <3>3, <1>11 DEF Reaches
      <4>2. [copies[s] EXCEPT ![bridge[s]] = chatQueue[s][k].text] \in Seq(Nat)
        <5>1. bridge[s] \in 1..Len(copies[s]) /\ copies[s] \in Seq(Nat)
          BY <2>2, <4>1
        <5> QED  BY <5>1, <3>1
      <4> QED  BY <4>1, <4>2, <3>3
    <3> QED  BY <3>2, <3>3
  <2>4. copies'[s] = c /\ \A i \in Subject : i # s => copies'[i] = copies[i]
    BY <2>2, <2>3
  <2>5. /\ Len(copies[s]) \in Nat
        /\ bridge[s] \in 0..Len(c)
        /\ IF chatQueue[s][k].op = "create"
           THEN c # <<>> /\ c[Len(c)] = chatQueue[s][k].text
           ELSE bridge[s] # 0 /\ c[bridge[s]] = chatQueue[s][k].text
    <3>1. CASE chatQueue[s][k].op = "create" /\ c = Append(copies[s], chatQueue[s][k].text)
      BY <3>1, <2>2
    <3>2. CASE /\ chatQueue[s][k].op # "create" /\ bridge[s] # 0
               /\ c = [copies[s] EXCEPT ![bridge[s]] = chatQueue[s][k].text]
      <4>1. bridge[s] \in 1..Len(copies[s]) /\ Len(copies[s]) \in Nat
        BY <3>2, <2>2
      <4>2. Len(c) = Len(copies[s]) /\ c[bridge[s]] = chatQueue[s][k].text
        BY <4>1, <3>2, <2>2
      <4> QED  BY <4>1, <4>2, <3>2
    <3> QED  BY <3>1, <3>2, <2>3
  <2>6. ASSUME NEW i \in Subject PROVE CopyTells(i)'
    <3>1. CASE i = s
      BY <3>1, <2>1, <2>4, <2>5, <1>1, <1>5 DEF CopyTells
    <3>2. CASE i # s
      BY <3>2, <2>1, <2>4, <1>1 DEF ChatInv, CopyTells
    <3> QED  BY <3>1, <3>2
  <2>7. ChatStep
    <3>1. \A i : Abandoned(i)' <=> Abandoned(i)
      BY <1>1 DEF Abandoned
    <3>2. UNCHANGED <<[i \in Subject |-> Len(chatQueue[i])], {i \in Subject : Abandoned(i)}>>
      BY <1>1, <3>1 DEF Subject
    <3>3. CASE k = arrived[s]
      <4>1. arrived' = arrived
        BY <3>3, <1>11, <1>7
      <4> QED  BY <4>1, <3>2 DEF ChatStep, ChatOutbox!vars
    <3>4. CASE k = arrived[s] + 1
      <4>1. ~Abandoned(s)
        BY <1>5, <1>6 DEF Abandoned
      <4>2. arrived[s] < Len(chatQueue[s])
        BY <3>4, <1>5, <1>7
      <4>3. arrived' = [arrived EXCEPT ![s] = @ + 1]
        BY <3>4, <1>11
      <4>4. ChatOutbox!Arrive(s)
        BY <4>1, <4>2, <4>3, <3>2 DEF ChatOutbox!Arrive
      <4> QED  BY <4>4 DEF ChatStep, ChatOutbox!Next
    <3> QED  BY <3>3, <3>4, <1>5, <1>6
  <2>8. copies' \in [Subject -> Seq(Nat)]
    BY <2>2, <2>3
  <2> QED  BY <1>1, <1>8, <1>9, <2>6, <2>7, <2>8 DEF ChatInv, Subject
<1> QED  BY <1>5, <1>10, <1>11 DEF ChatReached

\* A worker marks the row it has sent (MarkOutboxSent, MarkOutboxFailed).
LEMMA ChatMarks ==
    ASSUME ChatInv, NEW w \in Workers, chatWorker[w].step # "next", UNCHANGED <<posts, copies, arrived>>,
           NEW t, t = chatWorker[w].item, NEW r \in Sync!OutboxRow, Sync!SetRow(t, r),
           r.status \in {"failed", "abandoned"} \/ (chatWorker[w].step = "sent" /\ r.status = "done"),
           Sync!LeavesTask(w),
           \/ r.status # "done" /\ bridge' = bridge
           \/ /\ r.status = "done"
              /\ bridge' = [bridge EXCEPT ![t[1]] = Bridged(t[1], chatQueue[t[1]][t[2]].op)]
    PROVE  ChatInv' /\ ChatStep
<1>1. /\ OutboxHolds(Subject, ChatTasks, Workers, None, chatQueue, arrived, chatWorker)
      /\ chatQueue \in [Subject -> Seq(ChatTasks)] /\ arrived \in [Subject -> Nat]
  BY DEF ChatInv, ChatOut, OutboxHolds
<1>2. PassHolds(chatQueue, arrived, chatWorker[w], None) /\ t \in chatWorker[w].todo
  BY <1>1 DEF OutboxHolds, PassHolds
<1>3. PICK s \in Subject, k \in Nat :
          /\ k \in DOMAIN chatQueue[s] /\ t = <<s, k>> /\ t[1] = s /\ t[2] = k
          /\ chatQueue[s][k].row.status = "processing"
  <2>1. WaitsFor(Subject, ChatTasks, chatQueue, arrived, t)
    BY <1>1, <1>2, HeldRow
  <2> QED  BY <2>1 DEF WaitsFor, Claimed, RowOf
<1>4. /\ chatQueue' \in [Subject -> Seq(ChatTasks)]
      /\ \A i \in Subject : /\ Len(chatQueue'[i]) = Len(chatQueue[i])
                            /\ DOMAIN chatQueue'[i] = DOMAIN chatQueue[i]
      /\ \A i \in Subject : \A j \in DOMAIN chatQueue[i] :
            /\ <<i, j>> # <<s, k>> => chatQueue'[i][j] = chatQueue[i][j]
            /\ chatQueue'[i][j].op = chatQueue[i][j].op
            /\ chatQueue'[i][j].text = chatQueue[i][j].text
      /\ chatQueue'[s][k].row = r
  BY ONLY <1>1, <1>3, ChatRowSet, r \in Sync!OutboxRow, Sync!SetRow(t, r)
<1>5. PICK Q2, W2 : /\ chatQueue' = Q2 /\ chatWorker' = W2
                    /\ Turns(chatWorker, W2, w, chatWorker[w].todo \ {<<s, k>>}, None, "next")
  BY <1>3 DEF Sync!LeavesTask, Sync!Pass, Turns
<1>6. OutboxHolds(Subject, ChatTasks, Workers, None, Q2, arrived, W2)
  <2>1. /\ w \in Workers /\ s \in Subject /\ k \in DOMAIN chatQueue[s]
        /\ OutboxHolds(Subject, ChatTasks, Workers, None, chatQueue, arrived, chatWorker)
        /\ chatWorker[w].step # "next" /\ chatWorker[w].item = <<s, k>>
        /\ Q2 \in [Subject -> Seq(ChatTasks)] /\ RowSet(Subject, chatQueue, Q2, s, k, r)
        /\ r.status \in {"failed", "abandoned"}
           \/ (chatWorker[w].step = "sent" /\ r.status = "done")
        /\ Turns(chatWorker, W2, w, chatWorker[w].todo \ {<<s, k>>}, None, "next")
    BY <1>1, <1>3, <1>4, <1>5 DEF RowSet
  <2> QED  BY ONLY <2>1, Marking
<1>7. ChatOut'
  BY <1>5, <1>6 DEF ChatOut, Subject
<1>8. PostsHold' /\ \A i \in Subject : RowsTell(i)'
  BY <1>4, TextsStay
<1>9. \A j \in DOMAIN chatQueue[s] :
          chatQueue[s][j].row.status \in {"pending", "done"} \/ j = k
  <2>1. chatQueue[s] \in Seq(ChatTasks) /\ QueueHolds(chatQueue[s], arrived[s])
        /\ k \in DOMAIN chatQueue[s] /\ chatQueue[s][k].row.status = "processing"
    BY <1>1, <1>3 DEF OutboxHolds
  <2> QED  BY ONLY <2>1, RowArrives
<1>10. ASSUME NEW i \in Subject PROVE CopyTells(i)'
  <2>1. arrived[i] # 0 => arrived[i] \in DOMAIN chatQueue[i]
    <3>1. chatQueue[i] \in Seq(ChatTasks) /\ QueueHolds(chatQueue[i], arrived[i])
      BY <1>1 DEF OutboxHolds
    <3> QED  BY <3>1 DEF QueueHolds
  <2>2. CopyTells(i) /\ bridge \in [Subject -> Nat] /\ copies' = copies /\ arrived' = arrived
    BY DEF ChatInv
  <2>3. CASE i # s
    <3>1. bridge'[i] = bridge[i]
      BY <2>2, <2>3, <1>3
    <3> QED  BY <3>1, <2>1, <2>2, <2>3, <1>4 DEF CopyTells
  <2>4. CASE i = s /\ r.status # "done" /\ bridge' = bridge
    <3>1. \A j \in DOMAIN chatQueue[s] : chatQueue'[s][j].row.status = "done"
                                            => chatQueue[s][j].row.status = "done"
      BY <2>4, <1>3, <1>4
    <3> QED  BY <3>1, <2>1, <2>2, <2>4, <1>4 DEF CopyTells
  <2>5. CASE /\ i = s /\ r.status = "done"
             /\ bridge' = [bridge EXCEPT ![s] = Bridged(s, chatQueue[s][k].op)]
    <3>1. arrived[s] = k
      <4>1. chatQueue[s] \in Seq(ChatTasks) /\ QueueHolds(chatQueue[s], arrived[s])
            /\ k \in DOMAIN chatQueue[s] /\ chatQueue[s][k].row.status = "processing"
        BY <1>1, <1>3 DEF OutboxHolds
      <4>2. arrived[s] = k \/ k = arrived[s] + 1
        BY ONLY <4>1, RowArrives
      <4>3. k <= arrived[s] /\ arrived[s] \in Nat
        BY <1>1, <1>2, <1>3, <2>5 DEF PassHolds
      <4> QED  BY <4>2, <4>3
    <3>2. k # 0 /\ bridge'[s] = Bridged(s, chatQueue[s][k].op)
          /\ copies[s] \in Seq(Nat) /\ bridge[s] \in 0..Len(copies[s])
      BY <1>1, <1>3, <2>2, <2>5, Domains DEF CopyTells
    <3>3. chatQueue'[s][k].op = chatQueue[s][k].op /\ chatQueue'[s][k].text = chatQueue[s][k].text
      BY <1>3, <1>4
    <3>4. CASE chatQueue[s][k].op = "create"
      <4>1. bridge'[s] = Len(copies[s]) /\ Len(copies[s]) \in Nat
        BY <3>2, <3>4 DEF Bridged
      <4>2. chatQueue[s][k].row.status # "done" /\ copies[s] # <<>>
            /\ copies[s][Len(copies[s])] = chatQueue[s][k].text
        BY <3>1, <3>2, <3>4, <2>2, <2>5, <1>3 DEF CopyTells
      <4>3. bridge'[s] \in 0..Len(copies[s])
        BY <4>1
      <4> QED  BY ONLY <4>1, <4>2, <4>3, <3>1, <3>2, <3>3, <3>4, <2>2, <2>5 DEF CopyTells
    <3>5. CASE chatQueue[s][k].op # "create"
      <4>1. bridge'[s] = bridge[s]
        BY <3>2, <3>5 DEF Bridged
      <4>2. bridge[s] # 0 /\ copies[s][bridge[s]] = chatQueue[s][k].text
        BY <3>1, <3>2, <3>5, <2>2, <2>5, <1>3 DEF CopyTells
      <4> QED  BY ONLY <4>1, <4>2, <3>1, <3>2, <3>3, <3>5, <2>2, <2>5 DEF CopyTells
    <3> QED  BY <3>4, <3>5
  <2>6. \/ i # s
        \/ i = s /\ r.status # "done" /\ bridge' = bridge
        \/ /\ i = s /\ r.status = "done"
           /\ bridge' = [bridge EXCEPT ![s] = Bridged(s, chatQueue[s][k].op)]
    BY <1>3
  <2> QED  BY <2>3, <2>4, <2>5, <2>6
<1>11. bridge' \in [Subject -> Nat] /\ copies' \in [Subject -> Seq(Nat)]
  <2>1. bridge \in [Subject -> Nat] /\ copies \in [Subject -> Seq(Nat)]
    BY DEF ChatInv
  <2>2. Bridged(s, chatQueue[s][k].op) \in Nat
    BY <2>1 DEF Bridged
  <2> QED  BY <2>1, <2>2, <1>3
<1>12. ChatStep
  <2>1. \A i \in Subject : Len(chatQueue'[i]) = Len(chatQueue[i])
    BY <1>4
  <2>2. \A i \in Subject : i # s => (Abandoned(i)' <=> Abandoned(i))
    BY <1>4 DEF Abandoned
  <2>3. ~Abandoned(s)
    BY <1>3, <1>9 DEF Abandoned
  <2>4. CASE r.status # "abandoned"
    <3>1. ~Abandoned(s)'
      BY <2>4, <1>3, <1>4, <1>9 DEF Abandoned
    <3> QED  BY <3>1, <2>1, <2>2, <2>3, QueuesStay
  <2>5. CASE r.status = "abandoned"
    <3>1. Abandoned(s)'
      BY <2>5, <1>3, <1>4 DEF Abandoned
    <3>2. {i \in Subject : Abandoned(i)}' = {i \in Subject : Abandoned(i)} \cup {s}
      BY <3>1, <2>2, <1>3 DEF Subject
    <3>3. arrived[s] <= Len(chatQueue[s])
      BY <1>1 DEF OutboxHolds, QueueHolds
    <3>4. [i \in Subject |-> Len(chatQueue[i])]' = [i \in Subject |-> Len(chatQueue[i])]
      BY <2>1 DEF Subject
    <3>5. ChatOutbox!GiveUp(s)
      BY <3>2, <3>3, <3>4, <1>3 DEF ChatOutbox!GiveUp
    <3> QED  BY <3>5, <1>3 DEF ChatStep, ChatOutbox!Next
  <2> QED  BY <2>4, <2>5
<1> QED  BY <1>7, <1>8, <1>10, <1>11, <1>12 DEF ChatInv, Subject

\* A worker dies, or its marks fail: rows are let go (Breaks).
LEMMA ChatBreaks ==
    ASSUME ChatInv, NEW w \in Workers, Breaks(w)
    PROVE  ChatInv' /\ ChatStep
<1>1. /\ OutboxHolds(Subject, ChatTasks, Workers, None, chatQueue, arrived, chatWorker)
      /\ UNCHANGED <<posts, outside, chatQueue>>
  BY DEF ChatInv, ChatOut, Breaks, Sync!MarkBreaks, Sync!Dies
<1>2. chatWorker[w] \in Passes(Subject, None)
  BY <1>1 DEF OutboxHolds
<1>3. PICK p \in Passes(Subject, None) :
          /\ chatWorker' = [chatWorker EXCEPT ![w] = p]
          /\ p.todo \subseteq chatWorker[w].todo
          /\ \/ p.step = "next" /\ p.item = None
             \/ p.step = "failing" /\ p.item = chatWorker[w].item
                /\ p.todo = chatWorker[w].todo /\ chatWorker[w].step = "sent"
  <2>1. CASE Sync!Dies(w)
    <3> DEFINE p == [todo |-> {}, item |-> None, step |-> "next"]
    <3>1. p \in Passes(Subject, None) /\ chatWorker' = [chatWorker EXCEPT ![w] = p]
      BY <2>1 DEF Sync!Dies, Sync!Idle, Sync!Pass, Passes
    <3> QED  BY <3>1
  <2>2. CASE chatWorker[w].step = "failing" /\ Sync!LeavesTask(w)
    <3> DEFINE p == [todo |-> chatWorker[w].todo \ {chatWorker[w].item}, item |-> None, step |-> "next"]
    <3>1. p \in Passes(Subject, None) /\ chatWorker' = [chatWorker EXCEPT ![w] = p]
      BY <2>2, <1>2 DEF Sync!LeavesTask, Sync!Pass, Passes
    <3> QED  BY <3>1
  <2>3. CASE /\ chatWorker[w].step = "sent"
             /\ chatWorker' = [chatWorker EXCEPT ![w] = Sync!Pass(@.todo, @.item, "failing")]
    <3> DEFINE p == [todo |-> chatWorker[w].todo, item |-> chatWorker[w].item, step |-> "failing"]
    <3>1. p \in Passes(Subject, None) /\ chatWorker' = [chatWorker EXCEPT ![w] = p]
      BY <2>3, <1>2 DEF Sync!Pass, Passes
    <3> QED  BY <3>1, <2>3
  <2> QED  BY <2>1, <2>2, <2>3 DEF Breaks, Sync!MarkBreaks
<1>4. OutboxHolds(Subject, ChatTasks, Workers, None, chatQueue, arrived,
                  [chatWorker EXCEPT ![w] = p])
  <2> PICK W2 : W2 = [chatWorker EXCEPT ![w] = p]
    OBVIOUS
  <2>1. /\ w \in Workers /\ p \in Passes(Subject, None)
        /\ OutboxHolds(Subject, ChatTasks, Workers, None, chatQueue, arrived, chatWorker)
        /\ W2 = [chatWorker EXCEPT ![w] = p]
        /\ p.todo \subseteq chatWorker[w].todo
        /\ \/ p.step = "next" /\ p.item = None
           \/ p.step = "failing" /\ p.item = chatWorker[w].item
              /\ p.todo = chatWorker[w].todo /\ chatWorker[w].step = "sent"
    BY <1>1, <1>3
  <2>2. OutboxHolds(Subject, ChatTasks, Workers, None, chatQueue, arrived, W2)
    BY ONLY <2>1, LettingGo
  <2> QED  BY <2>1, <2>2
<1>5. ChatOut'
  BY <1>1, <1>3, <1>4 DEF ChatOut, Subject, outside
<1>6. PostsHold' /\ \A s \in Subject : RowsTell(s)' /\ CopyTells(s)'
  BY <1>1 DEF ChatInv, PostsHold, MessageHolds, EventHolds, RowsTell, CopyTells, posts, outside
<1>7. ChatStep
  <2>1. \A i : Abandoned(i)' <=> Abandoned(i)
    BY <1>1 DEF Abandoned
  <2> QED  BY <2>1, <1>1, QueuesStay DEF outside
<1> QED  BY <1>1, <1>5, <1>6, <1>7 DEF ChatInv, Subject, outside

\* A row becomes due, or a claim old that nobody holds (ChatTime).
LEMMA ChatWaits ==
    ASSUME ChatInv, NEW t \in Sync!Tasks, ChatTime(t)
    PROVE  ChatInv' /\ ChatStep
<1>1. /\ OutboxHolds(Subject, ChatTasks, Workers, None, chatQueue, arrived, chatWorker)
      /\ chatQueue \in [Subject -> Seq(ChatTasks)]
      /\ UNCHANGED <<posts, outside, chatWorker>>
  BY DEF ChatInv, ChatOut, OutboxHolds, ChatTime, Sync!TimePasses
<1>2. PICK s \in Subject, k \in Nat :
          k \in DOMAIN chatQueue[s] /\ t = <<s, k>> /\ t[1] = s /\ t[2] = k
  <2>1. PICK i \in DOMAIN chatQueue : t \in {i} \X DOMAIN chatQueue[i]
    BY DEF Sync!Tasks
  <2>2. i \in Subject /\ chatQueue[i] \in Seq(ChatTasks)
    BY <2>1, <1>1
  <2>3. DOMAIN chatQueue[i] \subseteq Nat
    BY <2>2
  <2> QED  BY <2>1, <2>2, <2>3
<1>3. chatQueue[s][k].row \in Sync!OutboxRow
  <2>1. chatQueue[s] \in Seq(ChatTasks)
    BY <1>1
  <2>2. chatQueue[s][k] \in ChatTasks
    BY <2>1, <1>2
  <2> QED  BY <2>2 DEF ChatTasks
<1>4. PICK r \in Sync!OutboxRow :
          /\ Sync!SetRow(t, r) /\ r.status = chatQueue[s][k].row.status
          /\ \A w \in Workers : <<s, k>> \notin chatWorker[w].todo
  <2>1. CASE Sync!Waits(chatQueue[s][k].row) /\ Sync!SetRow(t, Sync!Due(chatQueue[s][k].row))
    <3>1. chatQueue[s][k].row.status # "processing"
      BY <2>1 DEF Sync!Waits
    <3>2. \A w \in Workers : <<s, k>> \notin chatWorker[w].todo
      BY <3>1, <1>1 DEF OutboxHolds, PassHolds, Claimed, RowOf
    <3> QED  BY <3>2, <2>1, <1>3, ChatRows
  <2>2. CASE ~Sync!Held(t) /\ Sync!SetRow(t, Sync!Stale(chatQueue[s][k].row))
    BY <2>2, <1>2, <1>3, ChatRows DEF Sync!Held
  <2> QED  BY <2>1, <2>2, <1>2 DEF ChatTime, Sync!TimePasses, Sync!TaskRow
<1>5. /\ chatQueue' \in [Subject -> Seq(ChatTasks)]
      /\ \A i \in Subject : /\ Len(chatQueue'[i]) = Len(chatQueue[i])
                            /\ DOMAIN chatQueue'[i] = DOMAIN chatQueue[i]
      /\ \A i \in Subject : \A j \in DOMAIN chatQueue[i] :
            /\ <<i, j>> # <<s, k>> => chatQueue'[i][j] = chatQueue[i][j]
            /\ chatQueue'[i][j].op = chatQueue[i][j].op
            /\ chatQueue'[i][j].text = chatQueue[i][j].text
      /\ chatQueue'[s][k].row = r
  BY ONLY <1>1, <1>2, <1>4, ChatRowSet
<1>6. PICK Q2 : chatQueue' = Q2
  OBVIOUS
<1>7. OutboxHolds(Subject, ChatTasks, Workers, None, Q2, arrived, chatWorker)
  <2>1. /\ s \in Subject /\ k \in DOMAIN chatQueue[s]
        /\ OutboxHolds(Subject, ChatTasks, Workers, None, chatQueue, arrived, chatWorker)
        /\ Q2 \in [Subject -> Seq(ChatTasks)] /\ RowSet(Subject, chatQueue, Q2, s, k, r)
        /\ r.status = chatQueue[s][k].row.status \/ Advances(chatQueue[s], r, arrived[s], k)
        /\ \A v \in Workers : <<s, k>> \notin chatWorker[v].todo
    BY <1>1, <1>2, <1>4, <1>5, <1>6 DEF RowSet
  <2> QED  BY ONLY <2>1, OneRow
<1>8. ChatOut'
  BY <1>1, <1>6, <1>7 DEF ChatOut, Subject, outside
<1>9. PostsHold' /\ \A i \in Subject : RowsTell(i)'
  BY <1>1, <1>5, TextsStay
<1>10. \A i \in Subject : \A j \in DOMAIN chatQueue[i] :
          chatQueue'[i][j].row.status = chatQueue[i][j].row.status
  BY <1>4, <1>5
<1>11. \A i \in Subject : CopyTells(i)'
  BY <1>1, <1>5, <1>10, CopiesStay DEF outside
<1>12. ChatStep
  <2>1. \A i \in Subject : Abandoned(i)' <=> Abandoned(i)
    BY <1>5, <1>10 DEF Abandoned
  <2> QED  BY <2>1, <1>1, <1>5, QueuesStay DEF outside
<1> QED  BY <1>1, <1>8, <1>9, <1>11, <1>12 DEF ChatInv, Subject, outside

\* Every step of the chat (ChatNext).
LEMMA ChatGoesOn ==
    ASSUME Overlap = FALSE
    PROVE  ChatInv /\ [ChatNext]_chatVars => ChatInv' /\ ChatStep
<1> SUFFICES ASSUME ChatInv, [ChatNext]_chatVars PROVE ChatInv' /\ ChatStep
  OBVIOUS
<1>1. ASSUME NEW a \in Accounts, PostWebsiteMessage(a) PROVE ChatInv' /\ ChatStep
  <2>1. PICK m \in Messages : CreateWebsiteMessage(m, a)
    BY <1>1 DEF PostWebsiteMessage
  <2>2. /\ UNCHANGED <<outside, chatWorker>> /\ UNCHANGED <<reactions, inbound, withdrawn>>
        /\ Lounge \in Channels /\ None \in Messages \cup {None}
        /\ InsertMessage(m, a, Website, Lounge, None)
        /\ CreateOutboundTasks(BridgesExcept(m, None), "create", texts + 1)
    BY <1>1, <2>1, ChatAssumption DEF PostWebsiteMessage, CreateWebsiteMessage
  <2> QED  BY <2>2, Writing
<1>2. ASSUME NEW a \in Accounts, NEW c \in Channels, NEW p \in Messages \cup {None},
             PostChannelMessage(a, c, p)
      PROVE  ChatInv' /\ ChatStep
  <2>1. PICK m \in Messages : CreateChannelMessage(m, a, c, p)
    BY <1>2 DEF PostChannelMessage
  <2>2. /\ UNCHANGED <<outside, chatWorker>> /\ UNCHANGED <<reactions, inbound, withdrawn>>
        /\ InsertMessage(m, a, Website, c, p)
        /\ \/ /\ c = Lounge /\ p = None
              /\ CreateOutboundTasks(BridgesExcept(m, None), "create", texts + 1)
           \/ ~(c = Lounge /\ p = None) /\ chatQueue' = chatQueue
    BY <1>2, <2>1 DEF PostChannelMessage, CreateChannelMessage
  <2> QED  BY <2>2, Writing
<1>3. ASSUME NEW a \in Accounts, NEW from \in Messages, NEW c \in Channels,
             PostForward(a, from, c)
      PROVE  ChatInv' /\ ChatStep
  <2>1. PICK m \in Messages : ForwardMessage(m, a, from, c)
    BY <1>3 DEF PostForward
  <2>2. /\ UNCHANGED <<outside, chatWorker>> /\ UNCHANGED <<reactions, inbound, withdrawn>>
        /\ None \in Messages \cup {None} /\ InsertMessage(m, a, Website, c, None)
        /\ \/ c = Lounge /\ CreateOutboundTasks(BridgesExcept(m, None), "create", texts + 1)
           \/ c # Lounge /\ chatQueue' = chatQueue
    BY <1>3, <2>1 DEF PostForward, ForwardMessage
  <2> QED  BY <2>2, Writing
<1>4. ASSUME NEW w \in Workers, ProcessOnce(w) \/ Breaks(w) PROVE ChatInv' /\ ChatStep
  <2>1. CASE \E t \in chatWorker[w].todo : Send(w, t) \/ SendFails(w, t)
    <3>1. PICK t \in chatWorker[w].todo, step \in {"sent", "failing"} : ChatReached(w, t, step)
      BY <2>1 DEF Send, SendFails, ChatReached, Sync!TaskSent
    <3> QED  BY <3>1, ChatArrives
  <2>2. CASE MarkOutboxSent(w) \/ MarkOutboxFailed(w)
    <3>1. PICK t : t = chatWorker[w].item
      OBVIOUS
    <3>2. chatWorker[w].step # "next" /\ Sync!LeavesTask(w)
          /\ UNCHANGED <<posts, copies, arrived>>
      BY <2>2 DEF MarkOutboxSent, MarkOutboxFailed, Sync!MarkTaskSent, Sync!MarkTaskFailed, outside
    <3>3. Sync!TaskRow(t) \in Sync!OutboxRow
      <4>1. OutboxHolds(Subject, ChatTasks, Workers, None, chatQueue, arrived, chatWorker)
        BY DEF ChatInv, ChatOut
      <4>2. t \in chatWorker[w].todo
        BY <3>1, <3>2, <4>1 DEF OutboxHolds, PassHolds
      <4>3. WaitsFor(Subject, ChatTasks, chatQueue, arrived, t)
        BY <4>1, <4>2, HeldRow
      <4>4. chatQueue[t[1]][t[2]] \in ChatTasks
        BY <4>3 DEF WaitsFor
      <4> QED  BY <4>4 DEF ChatTasks, Sync!TaskRow
    <3>4. CASE MarkOutboxSent(w)
      <4>1. PICK r \in Sync!OutboxRow : r = Sync!DoneRow(Sync!TaskRow(t)) /\ r.status = "done"
        BY <3>3, ChatRows
      <4>2. /\ Sync!SetRow(t, r) /\ chatWorker[w].step = "sent" /\ r.status = "done"
            /\ bridge' = [bridge EXCEPT ![t[1]] = Bridged(t[1], chatQueue[t[1]][t[2]].op)]
        BY <3>1, <3>4, <4>1 DEF MarkOutboxSent, Sync!MarkTaskSent
      <4> QED  BY <3>1, <3>2, <4>2, ChatMarks
    <3>5. CASE MarkOutboxFailed(w)
      <4>1. PICK r \in Sync!OutboxRow : /\ r = Sync!FailedRow(Sync!TaskRow(t))
                                        /\ r.status \in {"failed", "abandoned"}
        BY <3>3, ChatRows
      <4>2. Sync!SetRow(t, r) /\ bridge' = bridge /\ r.status # "done"
        BY <3>1, <3>5, <4>1 DEF MarkOutboxFailed, Sync!MarkTaskFailed, outside
      <4> QED  BY <3>1, <3>2, <4>1, <4>2, ChatMarks
    <3> QED  BY <2>2, <3>4, <3>5
  <2> QED  BY <1>4, <2>1, <2>2, ChatClaims, ChatBreaks DEF ProcessOnce
<1>5. CASE UNCHANGED chatVars
  <2>1. UNCHANGED <<outside, chatQueue, chatWorker>>
    BY <1>5 DEF chatVars
  <2>2. ChatOut' /\ (\A s \in Subject : CopyTells(s)') /\ ChatStep
    BY <2>1, ChatQuiet DEF ChatInv
  <2> QED  BY <1>5, <2>2 DEF ChatInv, PostsHold, MessageHolds, EventHolds, RowsTell, chatVars,
              posts, outside, Subject
<1> QED
  BY <1>1, <1>2, <1>3, <1>4, <1>5, Changing, Reacting, Receiving, ChatWaits DEF ChatNext

\* The rows of a message and platform are an ordered outbox, and what the
\* members, the platforms and the worker do together keeps ChatInv
\* (SyncWorker.Run, ClaimOutbox).
THEOREM ChatKeepsOrder ==
    ASSUME Overlap = FALSE
    PROVE  ChatSpec => ChatInOrder /\ []ChatInv
<1>1. ChatInit => ChatInv /\ ChatOutbox!Init
  BY ChatBegins
<1>2. ChatInv /\ [ChatNext]_chatVars => ChatInv' /\ ChatStep
  BY ChatGoesOn
<1> QED  BY <1>1, <1>2, PTL DEF ChatSpec, ChatInOrder, ChatOutbox!Spec, ChatStep

\* What the invariant says of the chat as it is seen.
LEMMA ChatInvAgrees == ChatInv => ChatAgrees
<1> SUFFICES ASSUME ChatInv PROVE ChatAgrees
  OBVIOUS
<1>1. OutboxHolds(Subject, ChatTasks, Workers, None, chatQueue, arrived, chatWorker)
  BY DEF ChatInv, ChatOut
<1>2. ASSUME NEW s \in Subject
      PROVE  /\ chatQueue[s] \in Seq(ChatTasks) /\ QueueHolds(chatQueue[s], arrived[s])
             /\ RowsTell(s) /\ CopyTells(s)
             /\ Len(chatQueue[s]) \in Nat /\ DOMAIN chatQueue[s] = 1..Len(chatQueue[s])
  <2>1. chatQueue[s] \in Seq(ChatTasks)
    BY <1>1 DEF OutboxHolds
  <2> QED  BY <2>1, <1>1, Domains DEF ChatInv, OutboxHolds
<1>3. ChatTypeOK
  <2>1. ASSUME NEW m \in Messages
        PROVE  /\ message[m].status \in {"absent", "active", "edited", "deleted"}
               /\ message[m].text \in 0..texts
               /\ message[m].source \in Platforms \cup {Website}
               /\ message[m].parent \in Messages \cup {None}
    <3>1. message[m] \in MessageRows /\ MessageHolds(m) /\ texts \in Nat
      BY ChatAssumption DEF ChatInv, PostsHold
    <3> QED  BY <3>1 DEF MessageRows, MessageHolds
  <2>2. ASSUME NEW s \in Subject, NEW k \in DOMAIN chatQueue[s]
        PROVE  chatQueue[s][k].row \in Sync!OutboxRow
    <3>1. chatQueue[s][k] \in ChatTasks
      BY <1>2
    <3> QED  BY <3>1 DEF ChatTasks
  <2>3. Sync!WorkerTypeOK
    <3> SUFFICES ASSUME NEW w \in Workers
                 PROVE  /\ chatWorker[w].todo \subseteq Sync!Tasks
                        /\ chatWorker[w].step \in {"next", "sent", "failing"}
                        /\ chatWorker[w].item \in chatWorker[w].todo \cup {None}
                        /\ (chatWorker[w].item = None) = (chatWorker[w].step = "next")
      BY DEF Sync!WorkerTypeOK
    <3>1. chatWorker[w] \in Passes(Subject, None) /\ PassHolds(chatQueue, arrived, chatWorker[w], None)
      BY <1>1 DEF OutboxHolds
    <3>2. ASSUME NEW t \in chatWorker[w].todo PROVE t \in Sync!Tasks
      <4>1. WaitsFor(Subject, ChatTasks, chatQueue, arrived, t)
        BY <1>1, HeldRow
      <4>2. t[1] \in Subject /\ t = <<t[1], t[2]>> /\ t[2] \in DOMAIN chatQueue[t[1]]
        BY <4>1 DEF WaitsFor
      <4>3. DOMAIN chatQueue = Subject
        BY <1>1 DEF OutboxHolds
      <4> QED  BY <4>2, <4>3 DEF Sync!Tasks
    <3>3. /\ chatWorker[w].step \in {"next", "sent", "failing"}
          /\ chatWorker[w].item \in chatWorker[w].todo \cup {None}
          /\ chatWorker[w].item = None <=> chatWorker[w].step = "next"
      BY <3>1 DEF Passes, PassHolds
    <3> QED  BY <3>2, <3>3
  <2>4. texts \in 0..MaxTexts /\ reactions \subseteq Messages \X Accounts
        /\ inbound \in [Events -> Messages \cup {None}]
        /\ \A s \in Subject : bridge[s] \in 0..Len(copies[s])
    BY <1>2 DEF ChatInv, PostsHold, CopyTells
  <2> QED  BY <2>1, <2>2, <2>3, <2>4 DEF ChatTypeOK
<1>4. AppliedOnce
  BY DEF ChatInv, PostsHold, MessageHolds, AppliedOnce
<1>5. NoEcho
  <2> SUFFICES ASSUME NEW m \in Messages, NEW p \in Platforms,
                      message[m].source = p \/ message[m].channel # Lounge
               PROVE  chatQueue[<<m, p>>] = <<>>
    BY DEF NoEcho
  <2>1. PICK s : s = <<m, p>>
    OBVIOUS
  <2>2. s \in Subject /\ s[1] = m /\ s[2] = p
    BY <2>1 DEF Subject
  <2> QED  BY <2>1, <2>2, <1>2 DEF RowsTell
<1>6. WithdrawnUnseen
  <2> SUFFICES ASSUME NEW m \in withdrawn, NEW c \in Channels, NEW p \in Messages
               PROVE  m \notin ListChannelMessages(c) \cup ListPinned(c) \cup ListThreadReplies(p)
    BY DEF WithdrawnUnseen
  <2>1. message[m].status = "deleted"
    BY DEF ChatInv, PostsHold, MessageHolds
  <2> QED  BY <2>1 DEF ListChannelMessages, ListPinned, ListThreadReplies, Standing
<1>7. CopiesCurrent
  <2> SUFFICES ASSUME NEW s \in Subject, chatQueue[s] # <<>>,
                      \A k \in DOMAIN chatQueue[s] : chatQueue[s][k].row.status = "done"
               PROVE  bridge[s] # 0 /\ copies[s][bridge[s]] = message[s[1]].text
    BY DEF CopiesCurrent
  <2>1. PICK n \in Nat : /\ n = Len(chatQueue[s]) /\ n # 0 /\ n \in DOMAIN chatQueue[s]
    BY <1>2
  <2>2. chatQueue[s][n].row.status = "done" /\ chatQueue[s][n].text = message[s[1]].text
    BY <2>1, <1>2 DEF RowsTell
  <2>3. arrived[s] = n
    BY <2>1, <2>2, <1>2 DEF QueueHolds
  <2>4. copies[s] # <<>> /\ copies[s] \in Seq(Nat) => Len(copies[s]) # 0
    OBVIOUS
  <2> QED  BY <2>1, <2>2, <2>3, <2>4, <1>2 DEF CopyTells
<1> QED  BY <1>3, <1>4, <1>5, <1>6, <1>7 DEF ChatAgrees

\* What is written once appears once and in the right places, and a copy whose
\* rows are all sent reads as the message does (ApplyExternalMessage,
\* createOutboundTasksExcept, lockOwnedWebsiteMessage, ClaimOutbox).
THEOREM ChatStaysInAgreement ==
    ASSUME Overlap = FALSE
    PROVE  ChatSpec => []ChatAgrees
  BY ChatKeepsOrder, ChatInvAgrees, PTL

-----------------------------------------------------------------------------
(***************************************************************************)
(* The support tickets.                                                    *)

TicketRows == [status : Status, owner : Users \cup {Nobody}, channel : Nat]

SaidRows ==
    [from : {"user", "admin", "discord", "email"}, event : Replies \cup {Nobody},
     status : {"active", "edited", "deleted"}, files : SUBSET Files]

TicketTasks ==
    [op : {"create_channel", "create_message", "archive_channel", "reopen_channel"},
     message : Nat, row : Discord!OutboxRow]

ChannelRows == [archived : BOOLEAN, posts : SUBSET Nat]

\* A key names the message it is about (enqueueUserNoticeTx).
MailsKeyed ==
    \A n \in mails : \A k \in Nat : n.to = "user" /\ n.key = AnswerKey(k) => n.about = k

EventsOnce ==
    \A t, u \in Tickets : \A i \in DOMAIN said[t] : \A j \in DOMAIN said[u] :
        said[t][i].event = said[u][j].event /\ said[t][i].event # Nobody => t = u /\ i = j

\* A commit that reports an error makes its handler remove the files of a
\* message that is there (uploads.remove).
FilesKept ==
    /\ held \subseteq blobs /\ blobs \subseteq Files
    /\ LostCommits = FALSE =>
          \A t \in Tickets : \A i \in DOMAIN said[t] :
              said[t][i].files \subseteq blobs /\ said[t][i].files \cap held = {}

TicketsHold ==
    /\ ticket \in [Tickets -> TicketRows] /\ said \in [Tickets -> Seq(SaidRows)]
    /\ active \subseteq Users
    /\ AnswersNoticed /\ MailsKeyed /\ EventsOnce /\ FilesKept

\* What the first n rows leave of a channel.
Archives(q, n) ==
    \E k \in 1..n : /\ q[k].op = "archive_channel"
                    /\ \A j \in (k + 1)..n : q[j].op # "reopen_channel"

Shows(c, q, n) ==
    /\ c.archived = TRUE <=> Archives(q, n)
    /\ \A k \in 1..n : q[k].message \in c.posts \cup {0}

\* The rows of a ticket begin with its channel and end as its status does
\* (CreateTicketWithAttachments, SetTicketStatus).
TicketRowsTell(t) ==
    /\ ticket[t].status = "absent" <=> supportQueue[t] = <<>>
    /\ \A k \in DOMAIN supportQueue[t] :
          /\ supportQueue[t][k].op = "create_channel" <=> k = 1
          /\ supportQueue[t][k].message <= Len(said[t])
          /\ supportQueue[t][k].message # 0 <=> supportQueue[t][k].op = "create_message"
    /\ ticket[t].status = "closed" <=> Archives(supportQueue[t], Len(supportQueue[t]))

\* The channel of a ticket, or the one that was just created, shows the rows
\* that arrived (DiscordTakes, MarkDiscordOutboxSent).
ChannelTells(t) ==
    /\ ticket[t].channel \in 0..Len(channels[t])
    /\ reached[t] = 0 => ticket[t].channel = 0
    /\ reached[t] = 1 =>
          /\ channels[t] # <<>>
          /\ Shows(channels[t][Len(channels[t])], supportQueue[t], 1)
          /\ supportQueue[t][1].row.status = "done" => ticket[t].channel = Len(channels[t])
    /\ reached[t] > 1 =>
          /\ ticket[t].channel # 0
          /\ Shows(channels[t][ticket[t].channel], supportQueue[t], reached[t])

SupportOut ==
    OutboxHolds(Tickets, TicketTasks, SupportWorkers, Nobody,
                supportQueue, reached, supportWorker)

SupportInv ==
    /\ TicketsHold
    /\ SupportOut
    /\ \A t \in Tickets : TicketRowsTell(t)
    /\ channels \in [Tickets -> Seq(ChannelRows)]
    /\ \A t \in Tickets : ChannelTells(t)

SupportStep == [TicketOutbox!Next]_(TicketOutbox!vars)

\* No ticket was written (SupportInit).
LEMMA SupportBegins == SupportInit => SupportInv /\ TicketOutbox!Init
<1> SUFFICES ASSUME SupportInit PROVE SupportInv /\ TicketOutbox!Init
  OBVIOUS
<1>1. TicketsHold
  <2>1. ticket \in [Tickets -> TicketRows] /\ said \in [Tickets -> Seq(SaidRows)]
        /\ active \subseteq Users
    BY DEF SupportInit, TicketRows, NoTicket, Status
  <2>2. AnswersNoticed /\ MailsKeyed /\ EventsOnce /\ FilesKept
    BY DEF SupportInit, AnswersNoticed, MailsKeyed, EventsOnce, FilesKept
  <2> QED  BY <2>1, <2>2 DEF TicketsHold
<1>2. SupportOut
  <2>1. /\ supportQueue \in [Tickets -> Seq(TicketTasks)] /\ reached \in [Tickets -> Nat]
        /\ supportWorker \in [SupportWorkers -> Passes(Tickets, Nobody)]
    BY DEF SupportInit, Passes, Discord!WorkerInit, Discord!Idle, Discord!Pass
  <2>2. \A t \in Tickets : QueueHolds(supportQueue[t], reached[t])
    BY DEF SupportInit, QueueHolds, SentBefore
  <2>3. \A w \in SupportWorkers : supportWorker[w] = [todo |-> {}, item |-> Nobody, step |-> "next"]
    BY DEF SupportInit, Discord!WorkerInit, Discord!Idle, Discord!Pass
  <2> QED  BY <2>1, <2>2, <2>3 DEF SupportOut, OutboxHolds, PassHolds
<1>3. \A t \in Tickets : TicketRowsTell(t) /\ ChannelTells(t)
  BY DEF SupportInit, NoTicket, TicketRowsTell, ChannelTells, Archives
<1>4. channels \in [Tickets -> Seq(ChannelRows)]
  BY DEF SupportInit
<1>5. TicketOutbox!Init
  <2>1. ~\E t \in Tickets : DiscordAbandoned(t)
    BY DEF SupportInit, DiscordAbandoned
  <2> QED  BY <2>1 DEF SupportInit, TicketOutbox!Init
<1> QED  BY <1>1, <1>2, <1>3, <1>4, <1>5 DEF SupportInv

-----------------------------------------------------------------------------
(* What the channel shows.                                                 *)
LEMMA ArchivesNext ==
    ASSUME NEW q, NEW n \in Nat, n # 0
    PROVE  /\ q[n].op = "archive_channel" => Archives(q, n)
           /\ q[n].op = "reopen_channel" => ~Archives(q, n)
           /\ q[n].op \notin {"archive_channel", "reopen_channel"} =>
                  (Archives(q, n) <=> Archives(q, n - 1))
<1>1. ASSUME q[n].op = "archive_channel" PROVE Archives(q, n)
  BY <1>1 DEF Archives
<1>2. ASSUME q[n].op = "reopen_channel", Archives(q, n) PROVE FALSE
  <2>1. PICK k \in 1..n : /\ q[k].op = "archive_channel"
                          /\ \A j \in (k + 1)..n : q[j].op # "reopen_channel"
    BY <1>2 DEF Archives
  <2>2. k # n
    BY <2>1, <1>2
  <2>3. n \in (k + 1)..n
    BY <2>2
  <2> QED  BY <2>1, <2>3, <1>2
<1>3. ASSUME q[n].op # "archive_channel", Archives(q, n) PROVE Archives(q, n - 1)
  <2>1. PICK k \in 1..n : /\ q[k].op = "archive_channel"
                          /\ \A j \in (k + 1)..n : q[j].op # "reopen_channel"
    BY <1>3 DEF Archives
  <2>2. k \in 1..(n - 1) /\ (k + 1)..(n - 1) \subseteq (k + 1)..n
    BY <2>1, <1>3
  <2> QED  BY <2>1, <2>2 DEF Archives
<1>4. ASSUME q[n].op # "reopen_channel", Archives(q, n - 1) PROVE Archives(q, n)
  <2>1. PICK k \in 1..(n - 1) : /\ q[k].op = "archive_channel"
                                /\ \A j \in (k + 1)..(n - 1) : q[j].op # "reopen_channel"
    BY <1>4 DEF Archives
  <2>2. k \in 1..n /\ \A j \in (k + 1)..n : j = n \/ j \in (k + 1)..(n - 1)
    OBVIOUS
  <2> QED  BY <2>1, <2>2, <1>4 DEF Archives
<1> QED  BY <1>1, <1>2, <1>3, <1>4

\* Rows that are posted or marked do not change what the first ones say.
LEMMA ShowsAlike ==
    ASSUME NEW q, NEW p, NEW n \in Nat,
           \A k \in 1..n : p[k].op = q[k].op /\ p[k].message = q[k].message
    PROVE  /\ Archives(p, n) <=> Archives(q, n)
           /\ \A c : Shows(c, p, n) <=> Shows(c, q, n)
<1>1. ASSUME NEW k \in 1..n, NEW j \in (k + 1)..n PROVE j \in 1..n
  OBVIOUS
<1>2. Archives(p, n) <=> Archives(q, n)
  BY <1>1 DEF Archives
<1> QED  BY <1>2 DEF Shows

\* A row that arrives is shown, and may arrive again (DiscordTakes).
LEMMA RowShown ==
    ASSUME NEW q, NEW n \in Nat, n > 1, NEW m \in {n - 1, n}, NEW c \in ChannelRows,
           Shows(c, q, m), q[n].message \in Nat, NEW d,
           d = [archived |-> CASE q[n].op = "archive_channel" -> TRUE
                               [] q[n].op = "reopen_channel" -> FALSE
                               [] OTHER -> c.archived,
                posts |-> c.posts \cup ({q[n].message} \ {0})]
    PROVE  d \in ChannelRows /\ Shows(d, q, n)
<1>1. d \in ChannelRows
  BY DEF ChannelRows
<1>2. d.archived = TRUE <=> Archives(q, n)
  <2>1. c.archived = TRUE <=> Archives(q, m)
    BY DEF Shows
  <2>2. CASE q[n].op = "archive_channel"
    BY <2>2, ArchivesNext
  <2>3. CASE q[n].op = "reopen_channel"
    BY <2>3, ArchivesNext
  <2>4. CASE q[n].op \notin {"archive_channel", "reopen_channel"}
    BY <2>4, <2>1, ArchivesNext
  <2> QED  BY <2>2, <2>3, <2>4
<1>3. ASSUME NEW k \in 1..n PROVE q[k].message \in d.posts \cup {0}
  <2>1. k = n \/ k \in 1..m
    OBVIOUS
  <2> QED  BY <2>1 DEF Shows
<1> QED  BY <1>1, <1>2, <1>3 DEF Shows

\* Nothing is queued, and a ticket is closed or not as before.
LEMMA TicketQuiet ==
    ASSUME SupportInv, TicketsHold', UNCHANGED <<supportQueue, supportWorker, discord>>,
           \A t \in Tickets : /\ ticket'[t].channel = ticket[t].channel
                              /\ ticket'[t].status = "absent" <=> ticket[t].status = "absent"
                              /\ ticket'[t].status = "closed" <=> ticket[t].status = "closed"
                              /\ Len(said[t]) <= Len(said'[t])
    PROVE  SupportInv' /\ SupportStep
<1>1. supportQueue' = supportQueue /\ supportWorker' = supportWorker
      /\ channels' = channels /\ reached' = reached
  BY DEF discord
<1>2. SupportOut'
  BY <1>1 DEF SupportInv, SupportOut
<1>3. ASSUME NEW t \in Tickets PROVE TicketRowsTell(t)'
  <2>1. TicketRowsTell(t) /\ supportQueue[t] \in Seq(TicketTasks)
        /\ said[t] \in Seq(SaidRows) /\ said'[t] \in Seq(SaidRows)
    BY DEF SupportInv, SupportOut, OutboxHolds, TicketsHold
  <2>2. ASSUME NEW k \in DOMAIN supportQueue[t] PROVE supportQueue[t][k].message <= Len(said'[t])
    <3>1. supportQueue[t][k] \in TicketTasks
      BY <2>1
    <3>2. supportQueue[t][k].message \in Nat /\ Len(said[t]) \in Nat /\ Len(said'[t]) \in Nat
      BY <2>1, <3>1 DEF TicketTasks
    <3>3. supportQueue[t][k].message <= Len(said[t])
      BY <2>1 DEF TicketRowsTell
    <3> QED  BY <3>2, <3>3
  <2> QED  BY <1>1, <2>1, <2>2 DEF TicketRowsTell
<1>4. \A t \in Tickets : ChannelTells(t)'
  BY <1>1 DEF SupportInv, ChannelTells
<1>5. \A t \in Tickets : DiscordAbandoned(t)' <=> DiscordAbandoned(t)
  BY <1>1 DEF DiscordAbandoned
<1>6. SupportStep
  BY <1>1, <1>5 DEF SupportStep, TicketOutbox!vars
<1> QED  BY <1>1, <1>2, <1>3, <1>4, <1>6 DEF SupportInv

\* What the row of a transaction says of its ticket.
TellsChange(t, x) ==
    /\ x \in TicketTasks /\ x.row.status = "pending"
    /\ x.op = "create_channel" <=> ticket[t].status = "absent"
    /\ x.message <= Len(said'[t])
    /\ x.message # 0 <=> x.op = "create_message"
    /\ ticket'[t].status # "absent"
    /\ ticket'[t].status = "closed" <=>
           (\/ x.op = "archive_channel"
            \/ x.op # "reopen_channel" /\ ticket[t].status = "closed")

\* A transaction on a ticket, and the row it queues (EnqueueDiscord).
LEMMA TicketPosts ==
    ASSUME SupportInv, TicketsHold', UNCHANGED <<supportWorker, discord>>,
           NEW t \in Tickets, NEW x, TellsChange(t, x),
           supportQueue' = [supportQueue EXCEPT ![t] = Append(@, x)],
           \A u \in Tickets : /\ ticket'[u].channel = ticket[u].channel
                              /\ Len(said[u]) <= Len(said'[u])
                              /\ u # t => ticket'[u].status = ticket[u].status
    PROVE  SupportInv' /\ SupportStep
<1>1. supportWorker' = supportWorker /\ channels' = channels /\ reached' = reached
      /\ OutboxHolds(Tickets, TicketTasks, SupportWorkers, Nobody,
                     supportQueue, reached, supportWorker)
  BY DEF discord, SupportInv, SupportOut
<1>2. ASSUME NEW u \in Tickets
      PROVE  /\ supportQueue[u] \in Seq(TicketTasks) /\ QueueHolds(supportQueue[u], reached[u])
             /\ Len(supportQueue[u]) \in Nat /\ DOMAIN supportQueue[u] = 1..Len(supportQueue[u])
             /\ said[u] \in Seq(SaidRows) /\ said'[u] \in Seq(SaidRows)
             /\ Len(said[u]) \in Nat /\ Len(said'[u]) \in Nat
             /\ TicketRowsTell(u) /\ ChannelTells(u)
  <2>1. supportQueue[u] \in Seq(TicketTasks) /\ said[u] \in Seq(SaidRows)
        /\ said'[u] \in Seq(SaidRows)
    BY <1>1 DEF OutboxHolds, SupportInv, TicketsHold
  <2> QED  BY <2>1, <1>1, Domains DEF OutboxHolds, SupportInv
<1>3. PICK Q2 : Q2 = supportQueue'
  OBVIOUS
<1>4. x \in TicketTasks /\ x.row.status = "pending"
  BY DEF TellsChange
<1>5. /\ Q2[t] = Append(supportQueue[t], x)
      /\ \A u \in Tickets : u # t => Q2[u] = supportQueue[u]
      /\ Q2 \in [Tickets -> Seq(TicketTasks)]
  BY <1>1, <1>2, <1>3, <1>4 DEF OutboxHolds
<1>6. /\ OutboxHolds(Tickets, TicketTasks, SupportWorkers, Nobody, Q2, reached, supportWorker)
      /\ \A s \in Tickets : Len(Q2[s]) = IF Q2[s] = supportQueue[s] THEN Len(supportQueue[s])
                                         ELSE Len(supportQueue[s]) + 1
      /\ \A u \in Tickets : (\E k \in DOMAIN Q2[u] : Q2[u][k].row.status = "abandoned")
            <=> (\E k \in DOMAIN supportQueue[u] : supportQueue[u][k].row.status = "abandoned")
  <2>1. \A u \in Tickets : \/ Q2[u] = supportQueue[u]
                           \/ \E y \in TicketTasks : Q2[u] = Append(supportQueue[u], y)
                                                     /\ y.row.status = "pending"
    BY <1>4, <1>5
  <2> QED  BY ONLY <1>1, <1>5, <2>1, Posting
<1>7. SupportOut'
  BY <1>1, <1>3, <1>6 DEF SupportOut
<1>8. PICK n \in Nat : /\ n = Len(supportQueue[t]) /\ DOMAIN supportQueue[t] = 1..n
                       /\ Len(Q2[t]) = n + 1 /\ DOMAIN Q2[t] = 1..(n + 1) /\ Q2[t][n + 1] = x
                       /\ \A k \in 1..n : Q2[t][k] = supportQueue[t][k]
  <2>1. PICK q : q = supportQueue[t]
    OBVIOUS
  <2>2. q \in Seq(TicketTasks) /\ Q2[t] = Append(q, x) /\ x \in TicketTasks
    BY <2>1, <1>2, <1>4, <1>5
  <2>3. /\ Len(q) \in Nat /\ DOMAIN q = 1..Len(q)
        /\ Len(Append(q, x)) = Len(q) + 1 /\ DOMAIN Append(q, x) = 1..(Len(q) + 1)
        /\ Append(q, x)[Len(q) + 1] = x
        /\ \A k \in 1..Len(q) : Append(q, x)[k] = q[k]
    BY <2>2
  <2> QED  BY <2>1, <2>2, <2>3
<1>9. ASSUME NEW u \in Tickets PROVE TicketRowsTell(u)' /\ ChannelTells(u)'
  <2>1. CASE u # t
    <3>1. supportQueue'[u] = supportQueue[u] /\ ticket'[u].status = ticket[u].status
          /\ ticket'[u].channel = ticket[u].channel
      BY <2>1, <1>3, <1>5
    <3>2. ASSUME NEW k \in DOMAIN supportQueue[u]
          PROVE  supportQueue[u][k].message <= Len(said'[u])
      <4>1. supportQueue[u][k] \in TicketTasks /\ Len(said[u]) <= Len(said'[u])
            /\ supportQueue[u][k].message <= Len(said[u])
        BY <1>2 DEF TicketRowsTell
      <4> QED  BY <4>1, <1>2 DEF TicketTasks
    <3>3. TicketRowsTell(u)'
      <4>1. TicketRowsTell(u)
        BY <1>2
      <4> QED  BY ONLY <3>1, <3>2, <4>1 DEF TicketRowsTell
    <3>4. ChannelTells(u)'
      BY <3>1, <1>1, <1>2 DEF ChannelTells
    <3> QED  BY <3>3, <3>4
  <2>2. CASE u = t
    <3>1. TicketRowsTell(t) /\ TellsChange(t, x) /\ supportQueue'[t] = Q2[t]
      BY <1>2, <1>3
    <3>2. Q2[t] # <<>> /\ ticket'[t].status # "absent"
      BY <1>5, <3>1 DEF TellsChange
    <3>3. ASSUME NEW k \in 1..(n + 1)
          PROVE  /\ Q2[t][k].op = "create_channel" <=> k = 1
                 /\ Q2[t][k].message <= Len(said'[t])
                 /\ Q2[t][k].message # 0 <=> Q2[t][k].op = "create_message"
      <4>1. CASE k = n + 1
        <5>1. ticket[t].status = "absent" <=> n = 0
          BY <3>1, <1>2, <1>8 DEF TicketRowsTell
        <5> QED  BY <5>1, <4>1, <3>1, <1>8 DEF TellsChange
      <4>2. CASE k # n + 1
        <5>1. k \in 1..n /\ Q2[t][k] = supportQueue[t][k] /\ k \in DOMAIN supportQueue[t]
          BY <4>2, <1>8
        <5>2. supportQueue[t][k] \in TicketTasks /\ Len(said[t]) <= Len(said'[t])
              /\ supportQueue[t][k].message <= Len(said[t])
          BY <5>1, <1>2 DEF TicketRowsTell
        <5>3. supportQueue[t][k].message <= Len(said'[t])
          BY <5>2, <1>2 DEF TicketTasks
        <5> QED  BY <5>1, <5>3, <1>2 DEF TicketRowsTell
      <4> QED  BY <4>1, <4>2
    <3>4. ticket'[t].status = "closed" <=> Archives(Q2[t], n + 1)
      <4>1. Archives(Q2[t], n) <=> Archives(supportQueue[t], n)
        BY <1>8, ShowsAlike
      <4>2. ticket[t].status = "closed" <=> Archives(supportQueue[t], n)
        BY <3>1, <1>8 DEF TicketRowsTell
      <4>3. /\ x.op = "archive_channel" => Archives(Q2[t], n + 1)
            /\ x.op = "reopen_channel" => ~Archives(Q2[t], n + 1)
            /\ x.op \notin {"archive_channel", "reopen_channel"} =>
                   (Archives(Q2[t], n + 1) <=> Archives(Q2[t], n))
        <5>1. n + 1 \in Nat /\ n + 1 # 0 /\ (n + 1) - 1 = n /\ Q2[t][n + 1] = x
          BY <1>8
        <5> QED  BY <5>1, ArchivesNext
      <4> QED  BY <4>1, <4>2, <4>3, <3>1 DEF TellsChange
    <3>5. TicketRowsTell(t)'
      <4>1. /\ supportQueue'[t] = Q2[t] /\ Len(Q2[t]) = n + 1 /\ DOMAIN Q2[t] = 1..(n + 1)
        BY <3>1, <1>8
      <4> QED  BY ONLY <4>1, <3>2, <3>3, <3>4 DEF TicketRowsTell
    <3>6. ChannelTells(t)'
      <4>1. ChannelTells(t) /\ ticket'[t].channel = ticket[t].channel /\ reached[t] \in 0..n
        BY <1>2, <1>8 DEF QueueHolds
      <4>2. \A c : Shows(c, Q2[t], reached[t]) <=> Shows(c, supportQueue[t], reached[t])
        <5>1. /\ reached[t] \in Nat
              /\ \A k \in 1..reached[t] : /\ Q2[t][k].op = supportQueue[t][k].op
                                          /\ Q2[t][k].message = supportQueue[t][k].message
          BY <4>1, <1>8
        <5> QED  BY <5>1, <4>1, ShowsAlike
      <4>3. reached[t] = 1 => Q2[t][1] = supportQueue[t][1]
        BY <4>1, <1>8
      <4> QED  BY <4>1, <4>2, <4>3, <3>1, <1>1 DEF ChannelTells
    <3> QED  BY <2>2, <3>5, <3>6
  <2> QED  BY <2>1, <2>2
<1>10. TicketOutbox!PostAll({t})
  <2>1. \A u \in Tickets : DiscordAbandoned(u)' <=> DiscordAbandoned(u)
    BY <1>3, <1>6 DEF DiscordAbandoned
  <2>2. \A u \in Tickets : Len(Q2[u]) = IF u \in {t} THEN Len(supportQueue[u]) + 1
                                       ELSE Len(supportQueue[u])
    BY <1>5, <1>8
  <2> QED  BY <2>1, <2>2, <1>1, <1>3 DEF TicketOutbox!PostAll
<1>11. SupportStep
  BY <1>10 DEF SupportStep, TicketOutbox!Next
<1> QED  BY <1>1, <1>7, <1>9, <1>11 DEF SupportInv

-----------------------------------------------------------------------------
(* The worker of the tickets.                                              *)

LEMMA SupportRows ==
    ASSUME NEW r \in Discord!OutboxRow
    PROVE  /\ Discord!ClaimedRow(r) \in Discord!OutboxRow
           /\ Discord!ClaimedRow(r).status = "processing" /\ Discord!ClaimedRow(r).stale = FALSE
           /\ Discord!DoneRow(r) \in Discord!OutboxRow /\ Discord!DoneRow(r).status = "done"
           /\ Discord!FailedRow(r) \in Discord!OutboxRow
           /\ Discord!FailedRow(r).status \in {"failed", "abandoned"}
           /\ Discord!Due(r) \in Discord!OutboxRow /\ Discord!Due(r).status = r.status
           /\ Discord!Stale(r) \in Discord!OutboxRow /\ Discord!Stale(r).status = r.status
<1> USE DEF Discord!OutboxRow, Discord!OutboxStatus
<1>1. Discord!ClaimedRow(r) \in Discord!OutboxRow
      /\ Discord!ClaimedRow(r).status = "processing" /\ Discord!ClaimedRow(r).stale = FALSE
  BY DEF Discord!ClaimedRow
<1>2. Discord!DoneRow(r) \in Discord!OutboxRow /\ Discord!DoneRow(r).status = "done"
  BY DEF Discord!DoneRow
<1>3. PICK status \in {"failed", "abandoned"} :
          Discord!FailedRow(r) = [r EXCEPT !.status = status, !.due = FALSE, !.stale = FALSE]
  BY DEF Discord!FailedRow
<1>4. /\ Discord!FailedRow(r) \in Discord!OutboxRow
      /\ Discord!FailedRow(r).status \in {"failed", "abandoned"}
  BY <1>3
<1>5. Discord!Due(r) \in Discord!OutboxRow /\ Discord!Due(r).status = r.status
  BY DEF Discord!Due
<1>6. Discord!Stale(r) \in Discord!OutboxRow /\ Discord!Stale(r).status = r.status
  BY DEF Discord!Stale
<1> QED  BY <1>1, <1>2, <1>4, <1>5, <1>6

\* One row is set (MarkDiscordOutboxSent, MarkDiscordOutboxFailed).
LEMMA TicketRowSet ==
    ASSUME supportQueue \in [Tickets -> Seq(TicketTasks)],
           NEW s \in Tickets, NEW k \in DOMAIN supportQueue[s], NEW t, t[1] = s, t[2] = k,
           NEW r \in Discord!OutboxRow, Discord!SetRow(t, r)
    PROVE  /\ supportQueue' \in [Tickets -> Seq(TicketTasks)]
           /\ \A i \in Tickets : /\ Len(supportQueue'[i]) = Len(supportQueue[i])
                                 /\ DOMAIN supportQueue'[i] = DOMAIN supportQueue[i]
           /\ \A i \in Tickets : \A j \in DOMAIN supportQueue[i] :
                 /\ <<i, j>> # <<s, k>> => supportQueue'[i][j] = supportQueue[i][j]
                 /\ supportQueue'[i][j].op = supportQueue[i][j].op
                 /\ supportQueue'[i][j].message = supportQueue[i][j].message
           /\ supportQueue'[s][k].row = r
<1> DEFINE x == [supportQueue[s][k] EXCEPT !.row = r]
           q == [supportQueue[s] EXCEPT ![k] = x]
<1>1. supportQueue' = [supportQueue EXCEPT ![s] = q]
  BY DEF Discord!SetRow
<1>2. supportQueue[s] \in Seq(TicketTasks) /\ supportQueue[s][k] \in TicketTasks
  OBVIOUS
<1>3. x \in TicketTasks /\ x.row = r /\ x.op = supportQueue[s][k].op /\ x.message = supportQueue[s][k].message
  BY <1>2 DEF TicketTasks
<1> HIDE DEF x
<1>4. /\ q \in Seq(TicketTasks) /\ Len(q) = Len(supportQueue[s])
      /\ DOMAIN q = DOMAIN supportQueue[s] /\ q[k] = x
      /\ \A j \in DOMAIN supportQueue[s] : j # k => q[j] = supportQueue[s][j]
  BY <1>2, <1>3
<1> HIDE DEF q
<1>5. /\ supportQueue' \in [Tickets -> Seq(TicketTasks)] /\ supportQueue'[s] = q
      /\ \A i \in Tickets : i # s => supportQueue'[i] = supportQueue[i]
  BY <1>1, <1>4
<1> QED  BY <1>3, <1>4, <1>5

\* The messages, mails and files of the tickets stay as they are.
LEMMA TicketsStand ==
    ASSUME TicketsHold, UNCHANGED <<said, mails, active, storage>>,
           ticket' \in [Tickets -> TicketRows]
    PROVE  TicketsHold'
<1>1. AnswersNoticed' /\ MailsKeyed'
  BY DEF TicketsHold, AnswersNoticed, MailsKeyed
<1>2. EventsOnce'
  BY DEF TicketsHold, EventsOnce
<1>3. FilesKept'
  BY DEF TicketsHold, FilesKept, storage
<1> QED  BY <1>1, <1>2, <1>3 DEF TicketsHold

\* Rows change, what they say does not.
LEMMA TicketTextsStay ==
    ASSUME SupportInv, UNCHANGED <<said, mails, active, storage>>,
           ticket' \in [Tickets -> TicketRows],
           \A u \in Tickets : ticket'[u].status = ticket[u].status,
           supportQueue' \in [Tickets -> Seq(TicketTasks)],
           \A i \in Tickets : /\ Len(supportQueue'[i]) = Len(supportQueue[i])
                              /\ DOMAIN supportQueue'[i] = DOMAIN supportQueue[i],
           \A i \in Tickets : \A j \in DOMAIN supportQueue[i] :
                 /\ supportQueue'[i][j].op = supportQueue[i][j].op
                 /\ supportQueue'[i][j].message = supportQueue[i][j].message
    PROVE  TicketsHold' /\ \A t \in Tickets : TicketRowsTell(t)'
<1>1. TicketsHold'
  BY TicketsStand DEF SupportInv
<1>2. ASSUME NEW t \in Tickets PROVE TicketRowsTell(t)'
  <2>1. TicketRowsTell(t) /\ supportQueue[t] \in Seq(TicketTasks)
        /\ supportQueue'[t] \in Seq(TicketTasks)
    BY DEF SupportInv, SupportOut, OutboxHolds
  <2>2. supportQueue[t] = <<>> <=> supportQueue'[t] = <<>>
    BY <2>1
  <2>3. Archives(supportQueue'[t], Len(supportQueue'[t]))
        <=> Archives(supportQueue[t], Len(supportQueue[t]))
    <3>1. PICK n \in Nat : n = Len(supportQueue[t]) /\ n = Len(supportQueue'[t])
                          /\ DOMAIN supportQueue[t] = 1..n
      BY <2>1, Domains
    <3>2. \A k \in 1..n : /\ supportQueue'[t][k].op = supportQueue[t][k].op
                          /\ supportQueue'[t][k].message = supportQueue[t][k].message
      BY <3>1
    <3>3. Archives(supportQueue'[t], n) <=> Archives(supportQueue[t], n)
      BY ONLY <3>2, n \in Nat, ShowsAlike
    <3> QED  BY <3>1, <3>3
  <2>4. /\ said'[t] = said[t] /\ ticket'[t].status = ticket[t].status
        /\ DOMAIN supportQueue'[t] = DOMAIN supportQueue[t]
        /\ \A j \in DOMAIN supportQueue[t] :
              /\ supportQueue'[t][j].op = supportQueue[t][j].op
              /\ supportQueue'[t][j].message = supportQueue[t][j].message
    OBVIOUS
  <2> QED  BY ONLY <2>1, <2>2, <2>3, <2>4 DEF TicketRowsTell
<1> QED  BY <1>1, <1>2

\* Rows change, and none is marked as sent that was not.
LEMMA ChannelsStay ==
    ASSUME SupportInv, UNCHANGED <<ticket, channels, reached>>,
           \A i \in Tickets : \A j \in DOMAIN supportQueue[i] :
                 /\ supportQueue'[i][j].op = supportQueue[i][j].op
                 /\ supportQueue'[i][j].message = supportQueue[i][j].message
                 /\ supportQueue'[i][j].row.status = "done"
                    => supportQueue[i][j].row.status = "done"
    PROVE  \A t \in Tickets : ChannelTells(t)'
<1> SUFFICES ASSUME NEW t \in Tickets PROVE ChannelTells(t)'
  OBVIOUS
<1>1. ChannelTells(t) /\ QueueHolds(supportQueue[t], reached[t])
      /\ supportQueue[t] \in Seq(TicketTasks)
  BY DEF SupportInv, SupportOut, OutboxHolds
<1>2. reached[t] \in Nat /\ 1..reached[t] \subseteq DOMAIN supportQueue[t]
  BY <1>1 DEF QueueHolds
<1>3. \A c : Shows(c, supportQueue'[t], reached[t]) <=> Shows(c, supportQueue[t], reached[t])
  <2>1. \A k \in 1..reached[t] : /\ supportQueue'[t][k].op = supportQueue[t][k].op
                                 /\ supportQueue'[t][k].message = supportQueue[t][k].message
    BY <1>2
  <2> QED  BY ONLY <1>2, <2>1, ShowsAlike
<1>4. reached[t] = 1 /\ supportQueue'[t][1].row.status = "done"
      => supportQueue[t][1].row.status = "done"
  BY <1>2
<1> QED  BY <1>1, <1>3, <1>4 DEF ChannelTells

\* The set of tickets given up, and the step of OrderedOutbox, when rows change.
LEMMA TicketQueuesStay ==
    ASSUME UNCHANGED reached,
           \A i \in Tickets : Len(supportQueue'[i]) = Len(supportQueue[i]),
           \A i \in Tickets : DiscordAbandoned(i)' <=> DiscordAbandoned(i)
    PROVE  SupportStep
<1>1. UNCHANGED TicketOutbox!vars
  BY DEF TicketOutbox!vars
<1> QED  BY <1>1 DEF SupportStep

\* Rows that are due go to one worker (ClaimDiscordOutbox).
LEMMA TicketClaims ==
    ASSUME SupportInv, NEW w \in SupportWorkers, ClaimDiscordOutbox(w)
    PROVE  SupportInv' /\ SupportStep
<1>1. PICK T \in SUBSET Discord!Ready : Discord!ClaimTasks(w, T)
  BY DEF ClaimDiscordOutbox
<1>2. /\ SupportOut /\ UNCHANGED <<desk, storage, discord>>
      /\ supportQueue \in [Tickets -> Seq(TicketTasks)]
  BY DEF ClaimDiscordOutbox, SupportInv, SupportOut, OutboxHolds
<1>3. \A i \in Tickets : supportQueue[i] \in Seq(TicketTasks) /\ DOMAIN supportQueue[i] \subseteq Nat
  BY <1>2
<1>4. ASSUME NEW t \in T
      PROVE  /\ t[1] \in Tickets /\ t[2] \in DOMAIN supportQueue[t[1]] /\ t = <<t[1], t[2]>>
             /\ t \in Tickets \X Nat
             /\ Discord!Claimable(RowOf(supportQueue, t)) /\ SentBefore(supportQueue[t[1]], t[2])
  <2>1. t \in Discord!Tasks /\ Discord!Claimable(Discord!TaskRow(t))
        /\ \A k \in 1..(t[2] - 1) : Discord!TaskRow(<<t[1], k>>).status = "done"
    BY <1>1 DEF Discord!Ready
  <2>2. PICK i \in DOMAIN supportQueue : t \in {i} \X DOMAIN supportQueue[i]
    BY <2>1 DEF Discord!Tasks
  <2>3. t = <<i, t[2]>> /\ t[1] = i /\ i \in Tickets /\ t[2] \in DOMAIN supportQueue[i]
    BY <2>2, <1>2
  <2> QED  BY <2>1, <2>3, <1>3 DEF Discord!TaskRow, RowOf, SentBefore
<1>5. ASSUME NEW i \in Tickets, NEW j \in DOMAIN supportQueue[i]
      PROVE  supportQueue[i][j] \in TicketTasks /\ supportQueue[i][j].row \in Discord!OutboxRow
  <2>1. supportQueue[i] \in Seq(TicketTasks)
    BY <1>3
  <2>2. supportQueue[i][j] \in TicketTasks
    BY <2>1
  <2> QED  BY <2>2 DEF TicketTasks
<1> DEFINE Q2 == [i \in Tickets |-> [j \in DOMAIN supportQueue[i] |->
                      IF <<i, j>> \in T
                      THEN [supportQueue[i][j] EXCEPT !.row = Discord!ClaimedRow(@)]
                      ELSE supportQueue[i][j]]]
<1>6. supportQueue' = Q2
  BY <1>1, <1>2 DEF Discord!ClaimTasks
<1>7. ASSUME NEW i \in Tickets, NEW j \in DOMAIN supportQueue[i]
      PROVE  /\ Q2[i][j] \in TicketTasks
             /\ Q2[i][j].op = supportQueue[i][j].op /\ Q2[i][j].message = supportQueue[i][j].message
             /\ <<i, j>> \notin T => Q2[i][j] = supportQueue[i][j]
             /\ <<i, j>> \in T => /\ Q2[i][j].row.status = "processing"
                                  /\ Q2[i][j].row.stale = FALSE
  <2>1. CASE <<i, j>> \in T
    <3> DEFINE r == Discord!ClaimedRow(supportQueue[i][j].row)
    <3>1. r \in Discord!OutboxRow /\ r.status = "processing" /\ r.stale = FALSE
      BY <1>5, SupportRows
    <3>2. Q2[i][j] = [supportQueue[i][j] EXCEPT !.row = r]
      BY <2>1
    <3> HIDE DEF Q2, r
    <3>3. supportQueue[i][j] \in TicketTasks
      BY <1>5
    <3>4. Q2[i][j] \in TicketTasks /\ Q2[i][j].row = r
          /\ Q2[i][j].op = supportQueue[i][j].op /\ Q2[i][j].message = supportQueue[i][j].message
      BY <3>1, <3>2, <3>3 DEF TicketTasks
    <3> QED  BY <2>1, <3>1, <3>4
  <2>2. CASE <<i, j>> \notin T
    BY <2>2, <1>5
  <2> QED  BY <2>1, <2>2
<1>8. \A i \in Tickets : DOMAIN Q2[i] = DOMAIN supportQueue[i]
  OBVIOUS
<1>9. DOMAIN Q2 = Tickets /\ Q2 = [i \in Tickets |-> Q2[i]]
  OBVIOUS
<1> HIDE DEF Q2
<1>10. ASSUME NEW i \in Tickets
       PROVE  Q2[i] \in Seq(TicketTasks) /\ Len(Q2[i]) = Len(supportQueue[i])
  <2>1. supportQueue[i] \in Seq(TicketTasks) /\ DOMAIN supportQueue[i] = 1..Len(supportQueue[i])
        /\ Len(supportQueue[i]) \in Nat
    BY <1>3, Domains
  <2>2. Q2[i] = [j \in 1..Len(supportQueue[i]) |-> Q2[i][j]]
    BY <2>1 DEF Q2
  <2>3. \A j \in 1..Len(supportQueue[i]) : Q2[i][j] \in TicketTasks
    BY <2>1, <1>7
  <2>4. Q2[i] \in [1..Len(supportQueue[i]) -> TicketTasks]
    BY <2>2, <2>3
  <2> QED  BY <2>1, <2>4
<1>11. Q2 \in [Tickets -> Seq(TicketTasks)]
  BY <1>9, <1>10
<1>12. PICK W2 : /\ Turns(supportWorker, W2, w, T, Nobody, "next")
                 /\ supportWorker[w].todo = {} /\ supportWorker' = W2
  BY <1>1 DEF Discord!ClaimTasks, Discord!Idle, Discord!Pass, Turns
<1>13. /\ OutboxHolds(Tickets, TicketTasks, SupportWorkers, Nobody, Q2, reached, W2)
       /\ \A i \in Tickets : (\E k \in DOMAIN Q2[i] : Q2[i][k].row.status = "abandoned")
                  <=> (\E k \in DOMAIN supportQueue[i] : supportQueue[i][k].row.status = "abandoned")
  <2>1. T \in SUBSET (Tickets \X Nat)
    BY <1>4
  <2>2. \A t \in T : /\ t[2] \in DOMAIN supportQueue[t[1]] /\ SentBefore(supportQueue[t[1]], t[2])
                     /\ RowOf(supportQueue, t).status \notin {"done", "abandoned"}
                     /\ ~Claimed(supportQueue, t)
                     /\ RowOf(Q2, t).status = "processing" /\ RowOf(Q2, t).stale = FALSE
    <3> TAKE t \in T
    <3>1. RowOf(supportQueue, t).status \notin {"done", "abandoned"} /\ ~Claimed(supportQueue, t)
      <4>1. RowOf(supportQueue, t) \in Discord!OutboxRow
        BY <1>4, <1>5 DEF RowOf
      <4> QED  BY <4>1, <1>4 DEF Discord!Claimable, Claimed, Discord!OutboxRow
    <3>2. RowOf(Q2, t).status = "processing" /\ RowOf(Q2, t).stale = FALSE
      BY <1>4, <1>7 DEF RowOf
    <3> QED  BY <1>4, <3>1, <3>2
  <2>3. \A i \in Tickets : \A k \in DOMAIN supportQueue[i] :
            <<i, k>> \notin T => Q2[i][k] = supportQueue[i][k]
    BY <1>7
  <2>4. \A i \in Tickets : Len(Q2[i]) = Len(supportQueue[i])
    BY <1>10
  <2>5. OutboxHolds(Tickets, TicketTasks, SupportWorkers, Nobody, supportQueue, reached, supportWorker)
    BY <1>2 DEF SupportOut
  <2>6. RowsClaimed(Tickets, supportQueue, Q2, T)
    BY <2>1, <2>2, <2>3, <2>4 DEF RowsClaimed
  <2>7. w \in SupportWorkers /\ supportWorker[w].todo = {}
        /\ Turns(supportWorker, W2, w, T, Nobody, "next")
    BY <1>12
  <2> QED  BY ONLY <2>5, <2>6, <2>7, <1>11, Claiming
<1>14. SupportOut'
  BY <1>2, <1>6, <1>12, <1>13 DEF SupportOut, discord
<1>15. TicketsHold' /\ (\A s \in Tickets : TicketRowsTell(s)')
  <2>1. /\ UNCHANGED <<said, mails, active, storage>> /\ ticket' \in [Tickets -> TicketRows]
        /\ \A u \in Tickets : ticket'[u].status = ticket[u].status
    BY <1>2 DEF desk, SupportInv, TicketsHold
  <2> QED  BY <2>1, <1>6, <1>7, <1>8, <1>10, <1>11, TicketTextsStay
<1>16. \A s \in Tickets : ChannelTells(s)'
  <2>1. \A i \in Tickets : \A j \in DOMAIN supportQueue[i] :
                 /\ supportQueue'[i][j].op = supportQueue[i][j].op
                 /\ supportQueue'[i][j].message = supportQueue[i][j].message
                 /\ supportQueue'[i][j].row.status = "done" => supportQueue[i][j].row.status = "done"
    <3> TAKE i \in Tickets
    <3> TAKE j \in DOMAIN supportQueue[i]
    <3>1. CASE <<i, j>> \in T
      BY <1>6, <1>7, <3>1
    <3>2. CASE <<i, j>> \notin T
      BY <1>6, <1>7, <3>2
    <3> QED  BY <3>1, <3>2
  <2> QED  BY <2>1, <1>2, ChannelsStay DEF discord, desk
<1>17. SupportStep
  <2>1. \A i \in Tickets : DiscordAbandoned(i)' <=> DiscordAbandoned(i)
    BY <1>6, <1>13 DEF DiscordAbandoned
  <2> QED  BY <2>1, <1>2, <1>6, <1>10, TicketQueuesStay DEF discord
<1> QED  BY <1>2, <1>14, <1>15, <1>16, <1>17 DEF SupportInv, discord

\* What a request did on Discord, if it did anything (DiscordSend,
\* DiscordSendFails).
TicketReached(w, t, step) ==
    /\ Discord!TaskSent(w, t, step) /\ t \in supportWorker[w].todo
    /\ UNCHANGED <<desk, storage, supportQueue>>
    /\ \/ UNCHANGED <<channels, reached>> /\ step = "failing"
       \/ /\ DiscordTakes(t[1], supportQueue[t[1]][t[2]])
          /\ reached' = [reached EXCEPT ![t[1]] = t[2]]

\* The next row arrives, or the one before it once more (OrderedOutbox!Arrive).
LEMMA TicketArrives ==
    ASSUME SupportInv, NEW w \in SupportWorkers, NEW t \in supportWorker[w].todo,
           NEW step \in {"sent", "failing"}, TicketReached(w, t, step)
    PROVE  SupportInv' /\ SupportStep
<1>1. /\ supportQueue' = supportQueue /\ ticket' = ticket /\ UNCHANGED <<said, mails, active, storage>>
      /\ OutboxHolds(Tickets, TicketTasks, SupportWorkers, Nobody, supportQueue, reached, supportWorker)
  BY DEF TicketReached, SupportInv, SupportOut, desk
<1>2. PICK A2, W2 : /\ reached' = A2 /\ supportWorker' = W2
                    /\ Turns(supportWorker, W2, w, supportWorker[w].todo, t, step)
                    /\ Arrives(reached, A2, t, step)
  BY DEF TicketReached, Discord!TaskSent, Discord!Pass, Turns, Arrives
<1>3. t # Nobody
  <2>1. Nobody \notin Tickets \X Nat /\ t \in Tickets \X Nat
    BY <1>1, HeldRow, SupportAssumption DEF WaitsFor
  <2> QED  BY <2>1
<1>4. WaitsFor(Tickets, TicketTasks, supportQueue, reached, t)
  BY <1>1, HeldRow
<1>5. PICK s \in Tickets, k \in Nat :
          /\ k \in DOMAIN supportQueue[s] /\ t = <<s, k>> /\ t[1] = s /\ t[2] = k
          /\ supportQueue[s][k].row.status = "processing"
  BY <1>4 DEF WaitsFor, Claimed, RowOf
<1>6. /\ OutboxHolds(Tickets, TicketTasks, SupportWorkers, Nobody, supportQueue, A2, W2)
      /\ t[2] = reached[t[1]] \/ t[2] = reached[t[1]] + 1
      /\ \A j \in DOMAIN supportQueue[t[1]] :
            supportQueue[t[1]][j].row.status \in {"pending", "done"} \/ j = t[2]
  <2>1. Sends(Tickets, TicketTasks, SupportWorkers, Nobody, supportQueue, reached, A2, supportWorker,
              W2, w, t, step)
    BY <1>1, <1>2, <1>3 DEF Sends
  <2> QED  BY ONLY <2>1, Sending
<1>7. /\ supportQueue[s] \in Seq(TicketTasks) /\ reached \in [Tickets -> Nat]
      /\ Len(supportQueue[s]) \in Nat /\ DOMAIN supportQueue[s] = 1..Len(supportQueue[s])
      /\ supportQueue[s][k] \in TicketTasks
  <2>1. supportQueue[s] \in Seq(TicketTasks) /\ reached \in [Tickets -> Nat]
    BY <1>1 DEF OutboxHolds
  <2>2. supportQueue[s][k] \in TicketTasks
    BY <2>1, <1>5
  <2> QED  BY <2>1, <2>2, Domains
<1>8. SupportOut'
  BY <1>1, <1>2, <1>6 DEF SupportOut
<1>9. TicketsHold' /\ (\A i \in Tickets : TicketRowsTell(i)')
  <2>1. TicketsHold'
    <3>1. TicketsHold /\ ticket' \in [Tickets -> TicketRows]
      BY <1>1 DEF SupportInv, TicketsHold
    <3> QED  BY <3>1, <1>1, TicketsStand
  <2> QED  BY <1>1, <2>1 DEF SupportInv, TicketRowsTell
<1>10. CASE UNCHANGED <<channels, reached>>
  <2>1. \A i \in Tickets : ChannelTells(i)'
    BY <1>10, <1>1 DEF SupportInv, ChannelTells
  <2>2. \A i \in Tickets : DiscordAbandoned(i)' <=> DiscordAbandoned(i)
    BY <1>1 DEF DiscordAbandoned
  <2>3. SupportStep
    BY <1>1, <1>10, <2>2, TicketQueuesStay
  <2> QED  BY <1>1, <1>8, <1>9, <1>10, <2>1, <2>3 DEF SupportInv
<1>11. CASE /\ DiscordTakes(s, supportQueue[s][k])
            /\ reached' = [reached EXCEPT ![s] = k]
  <2>1. reached'[s] = k /\ \A i \in Tickets : i # s => reached'[i] = reached[i]
    BY <1>11, <1>7
  <2>2. /\ channels \in [Tickets -> Seq(ChannelRows)] /\ channels[s] \in Seq(ChannelRows)
        /\ ChannelTells(s) /\ TicketRowsTell(s) /\ k # 0
        /\ reached[s] \in {k - 1, k} /\ reached[s] \in Nat
    BY <1>5, <1>6, <1>7 DEF SupportInv
  <2>3. SentBefore(supportQueue[s], k)
    BY <1>1, <1>5 DEF OutboxHolds, QueueHolds
  <2>4. PICK c \in Seq(ChannelRows) :
            /\ channels' = [channels EXCEPT ![s] = c]
            /\ k = 1 => /\ c # <<>> /\ Len(c) \in Nat /\ Len(channels[s]) <= Len(c)
                        /\ Shows(c[Len(c)], supportQueue[s], 1)
            /\ k # 1 => /\ ticket[s].channel # 0 /\ Len(c) = Len(channels[s])
                        /\ Shows(c[ticket[s].channel], supportQueue[s], k)
    <3>1. CASE k = 1
      <4> DEFINE n == [archived |-> FALSE, posts |-> {}]
                 c == Append(channels[s], n)
      <4>1. supportQueue[s][k].op = "create_channel" /\ supportQueue[s][k].message = 0
        BY <3>1, <1>5, <2>2 DEF TicketRowsTell
      <4>2. channels' = [channels EXCEPT ![s] = c]
        BY <4>1, <1>11 DEF DiscordTakes
      <4>3. n \in ChannelRows
        BY DEF ChannelRows
      <4>4. Shows(n, supportQueue[s], 1)
        BY <3>1, <4>1 DEF Shows, Archives
      <4> HIDE DEF n
      <4>5. /\ c \in Seq(ChannelRows) /\ Len(c) \in Nat /\ Len(c) = Len(channels[s]) + 1
            /\ c[Len(c)] = n /\ c # <<>>
        BY <2>2, <4>3
      <4>6. Len(channels[s]) \in Nat
        BY <2>2
      <4>7. PICK d : d = c
        OBVIOUS
      <4> HIDE DEF c
      <4>8. /\ d \in Seq(ChannelRows) /\ channels' = [channels EXCEPT ![s] = d]
            /\ d # <<>> /\ Len(d) \in Nat /\ Len(channels[s]) <= Len(d)
            /\ Shows(d[Len(d)], supportQueue[s], 1)
        BY <4>2, <4>4, <4>5, <4>6, <4>7
      <4> QED  BY <3>1, <4>8
    <3>2. CASE k # 1
      <4>1. supportQueue[s][k].op # "create_channel"
        BY <3>2, <1>5, <2>2 DEF TicketRowsTell
      <4>2. PICK h : h = ticket[s].channel
        OBVIOUS
      <4>3. supportQueue[s][1].row.status = "done" /\ reached[s] # 0
        <5>1. 1 \in 1..(k - 1)
          BY <3>2, <2>2
        <5> QED  BY <5>1, <2>2, <2>3, <3>2 DEF SentBefore
      <4>4. /\ h \in 1..Len(channels[s]) /\ Len(channels[s]) \in Nat
            /\ Shows(channels[s][h], supportQueue[s], reached[s])
        <5>1. Len(channels[s]) \in Nat /\ (channels[s] # <<>> => Len(channels[s]) # 0)
          BY <2>2
        <5>2. CASE reached[s] = 1
          BY <5>1, <5>2, <4>2, <4>3, <2>2 DEF ChannelTells
        <5>3. CASE reached[s] # 1
          <6>1. reached[s] > 1
            BY <5>3, <4>3, <2>2
          <6> QED  BY <6>1, <5>1, <4>2, <2>2 DEF ChannelTells
        <5> QED  BY <5>2, <5>3
      <4>5. PICK d : /\ d = [archived |-> CASE supportQueue[s][k].op = "archive_channel" -> TRUE
                                            [] supportQueue[s][k].op = "reopen_channel" -> FALSE
                                            [] OTHER -> channels[s][h].archived,
                             posts |-> channels[s][h].posts
                                       \cup ({supportQueue[s][k].message} \ {0})]
        OBVIOUS
      <4>6. channels[s][h] \in ChannelRows /\ supportQueue[s][k].message \in Nat /\ k > 1
        <5>1. channels[s][h] \in ChannelRows
          BY <4>4, <2>2
        <5>2. supportQueue[s][k].message \in Nat
          BY <1>7 DEF TicketTasks
        <5> QED  BY <5>1, <5>2, <3>2, <2>2
      <4>7. d \in ChannelRows /\ Shows(d, supportQueue[s], k)
        <5>1. PICK q, ch, m : q = supportQueue[s] /\ ch = channels[s][h] /\ m = reached[s]
          OBVIOUS
        <5>2. /\ k \in Nat /\ k > 1 /\ m \in {k - 1, k} /\ ch \in ChannelRows
              /\ Shows(ch, q, m) /\ q[k].message \in Nat
              /\ d = [archived |-> CASE q[k].op = "archive_channel" -> TRUE
                                     [] q[k].op = "reopen_channel" -> FALSE
                                     [] OTHER -> ch.archived,
                      posts |-> ch.posts \cup ({q[k].message} \ {0})]
          BY <5>1, <4>4, <4>5, <4>6, <2>2
        <5>3. d \in ChannelRows /\ Shows(d, q, k)
          BY ONLY <5>2, RowShown
        <5> QED  BY <5>1, <5>3
      <4>8. channels' = [channels EXCEPT ![s] = [channels[s] EXCEPT ![h] = d]]
        BY <4>1, <4>2, <4>5, <1>11 DEF DiscordTakes
      <4>9. PICK c : c = [channels[s] EXCEPT ![h] = d]
        OBVIOUS
      <4>10. c \in Seq(ChannelRows) /\ Len(c) = Len(channels[s]) /\ c[h] = d
        BY <4>4, <4>7, <4>9, <2>2
      <4>11. h # 0
        BY <4>4
      <4> QED  BY <3>2, <4>2, <4>7, <4>8, <4>9, <4>10, <4>11
    <3> QED  BY <3>1, <3>2
  <2>5. channels'[s] = c /\ (\A i \in Tickets : i # s => channels'[i] = channels[i])
        /\ channels' \in [Tickets -> Seq(ChannelRows)]
    BY <2>2, <2>4
  <2>6. ASSUME NEW i \in Tickets PROVE ChannelTells(i)'
    <3>1. CASE i = s
      <4>1. /\ Len(channels[s]) \in Nat /\ Len(c) \in Nat /\ ticket[s].channel \in 0..Len(channels[s])
        BY <2>2, <2>4 DEF ChannelTells
      <4>2. ticket[s].channel \in 0..Len(c)
        BY <4>1, <2>4
      <4>3. k = 1 \/ k > 1
        BY <2>2
      <4>4. CASE k = 1
        BY ONLY <3>1, <4>2, <4>4, <2>1, <2>4, <2>5, <1>1, <1>5 DEF ChannelTells
      <4>5. CASE k > 1
        BY ONLY <3>1, <4>2, <4>5, <2>1, <2>4, <2>5, <1>1, <1>5 DEF ChannelTells
      <4> QED  BY <4>3, <4>4, <4>5
    <3>2. CASE i # s
      BY <3>2, <2>1, <2>5, <1>1 DEF SupportInv, ChannelTells
    <3> QED  BY <3>1, <3>2
  <2>7. SupportStep
    <3>1. \A i : DiscordAbandoned(i)' <=> DiscordAbandoned(i)
      BY <1>1 DEF DiscordAbandoned
    <3>2. UNCHANGED <<[i \in Tickets |-> Len(supportQueue[i])],
                      {i \in Tickets : DiscordAbandoned(i)}>>
      BY <1>1, <3>1
    <3>3. CASE k = reached[s]
      <4>1. reached' = reached
        BY <3>3, <1>11, <1>7
      <4> QED  BY <4>1, <3>2 DEF SupportStep, TicketOutbox!vars
    <3>4. CASE k = reached[s] + 1
      <4>1. ~DiscordAbandoned(s)
        BY <1>5, <1>6 DEF DiscordAbandoned
      <4>2. reached[s] < Len(supportQueue[s])
        BY <3>4, <1>5, <1>7
      <4>3. reached' = [reached EXCEPT ![s] = @ + 1]
        BY <3>4, <1>11
      <4>4. TicketOutbox!Arrive(s)
        BY <4>1, <4>2, <4>3, <3>2 DEF TicketOutbox!Arrive
      <4> QED  BY <4>4 DEF SupportStep, TicketOutbox!Next
    <3> QED  BY <3>3, <3>4, <1>5, <1>6
  <2> QED  BY <1>1, <1>8, <1>9, <2>5, <2>6, <2>7 DEF SupportInv
<1> QED  BY <1>5, <1>10, <1>11 DEF TicketReached

\* A worker marks the row it has sent (MarkDiscordOutboxSent, MarkDiscordOutboxFailed).
LEMMA TicketMarks ==
    ASSUME SupportInv, NEW w \in SupportWorkers, supportWorker[w].step # "next",
           UNCHANGED <<said, mails, active, storage, channels, reached>>,
           NEW t, t = supportWorker[w].item, NEW r \in Discord!OutboxRow, Discord!SetRow(t, r),
           r.status \in {"failed", "abandoned"} \/ (supportWorker[w].step = "sent" /\ r.status = "done"),
           Discord!LeavesTask(w),
           \/ r.status # "done" /\ ticket' = ticket
           \/ r.status = "done" /\ ticket' = WithChannel(t[1], supportQueue[t[1]][t[2]].op)
    PROVE  SupportInv' /\ SupportStep
<1>1. /\ OutboxHolds(Tickets, TicketTasks, SupportWorkers, Nobody, supportQueue, reached, supportWorker)
      /\ supportQueue \in [Tickets -> Seq(TicketTasks)] /\ reached \in [Tickets -> Nat]
  BY DEF SupportInv, SupportOut, OutboxHolds
<1>2. PassHolds(supportQueue, reached, supportWorker[w], Nobody) /\ t \in supportWorker[w].todo
  BY <1>1 DEF OutboxHolds, PassHolds
<1>3. PICK s \in Tickets, k \in Nat :
          /\ k \in DOMAIN supportQueue[s] /\ t = <<s, k>> /\ t[1] = s /\ t[2] = k
          /\ supportQueue[s][k].row.status = "processing"
  <2>1. WaitsFor(Tickets, TicketTasks, supportQueue, reached, t)
    BY <1>1, <1>2, HeldRow
  <2> QED  BY <2>1 DEF WaitsFor, Claimed, RowOf
<1>4. /\ supportQueue' \in [Tickets -> Seq(TicketTasks)]
      /\ \A i \in Tickets : /\ Len(supportQueue'[i]) = Len(supportQueue[i])
                            /\ DOMAIN supportQueue'[i] = DOMAIN supportQueue[i]
      /\ \A i \in Tickets : \A j \in DOMAIN supportQueue[i] :
            /\ <<i, j>> # <<s, k>> => supportQueue'[i][j] = supportQueue[i][j]
            /\ supportQueue'[i][j].op = supportQueue[i][j].op
            /\ supportQueue'[i][j].message = supportQueue[i][j].message
      /\ supportQueue'[s][k].row = r
  BY ONLY <1>1, <1>3, TicketRowSet, r \in Discord!OutboxRow, Discord!SetRow(t, r)
<1>5. PICK Q2, W2 : /\ supportQueue' = Q2 /\ supportWorker' = W2
                    /\ Turns(supportWorker, W2, w, supportWorker[w].todo \ {<<s, k>>}, Nobody, "next")
  BY <1>3 DEF Discord!LeavesTask, Discord!Pass, Turns
<1>6. OutboxHolds(Tickets, TicketTasks, SupportWorkers, Nobody, Q2, reached, W2)
  <2>1. /\ w \in SupportWorkers /\ s \in Tickets /\ k \in DOMAIN supportQueue[s]
        /\ OutboxHolds(Tickets, TicketTasks, SupportWorkers, Nobody,
                       supportQueue, reached, supportWorker)
        /\ supportWorker[w].step # "next" /\ supportWorker[w].item = <<s, k>>
        /\ Q2 \in [Tickets -> Seq(TicketTasks)] /\ RowSet(Tickets, supportQueue, Q2, s, k, r)
        /\ r.status \in {"failed", "abandoned"}
           \/ (supportWorker[w].step = "sent" /\ r.status = "done")
        /\ Turns(supportWorker, W2, w, supportWorker[w].todo \ {<<s, k>>}, Nobody, "next")
    BY <1>1, <1>3, <1>4, <1>5 DEF RowSet
  <2> QED  BY ONLY <2>1, Marking
<1>7. SupportOut'
  BY <1>5, <1>6 DEF SupportOut
<1>8. /\ ticket \in [Tickets -> TicketRows] /\ channels \in [Tickets -> Seq(ChannelRows)]
      /\ channels' = channels /\ reached' = reached
      /\ channels[s] \in Seq(ChannelRows) /\ Len(channels[s]) \in Nat
  BY DEF SupportInv, TicketsHold
<1>9. /\ ticket' \in [Tickets -> TicketRows]
      /\ \A u \in Tickets : /\ ticket'[u].status = ticket[u].status
                            /\ u # s => ticket'[u].channel = ticket[u].channel
      /\ ticket'[s].channel = IF r.status = "done" /\ supportQueue[s][k].op = "create_channel"
                              THEN Len(channels[s]) ELSE ticket[s].channel
  <2>1. CASE ticket' = ticket /\ ~(r.status = "done" /\ supportQueue[s][k].op = "create_channel")
    BY <2>1, <1>8
  <2>2. CASE /\ ticket' = [ticket EXCEPT ![s].channel = Len(channels[s])]
             /\ r.status = "done" /\ supportQueue[s][k].op = "create_channel"
    <3>1. PICK n \in Nat : n = Len(channels[s]) /\ ticket' = [ticket EXCEPT ![s].channel = n]
      BY <2>2, <1>8
    <3>2. PICK x : x = [ticket[s] EXCEPT !.channel = n] /\ ticket' = [ticket EXCEPT ![s] = x]
      BY <3>1
    <3>3. PICK y \in TicketRows : y = ticket[s]
      BY <1>3, <1>8
    <3>4. x \in TicketRows /\ x.status = y.status /\ x.channel = n
      <4>1. x = [y EXCEPT !.channel = n]
        BY <3>2, <3>3
      <4> QED  BY ONLY <4>1, n \in Nat, y \in TicketRows DEF TicketRows
    <3> QED  BY <2>2, <3>1, <3>2, <3>3, <3>4, <1>3, <1>8
  <2> QED  BY <2>1, <2>2, <1>3 DEF WithChannel
<1>10. TicketsHold' /\ \A i \in Tickets : TicketRowsTell(i)'
  BY <1>4, <1>9, TicketTextsStay
<1>11. \A j \in DOMAIN supportQueue[s] :
          supportQueue[s][j].row.status \in {"pending", "done"} \/ j = k
  <2>1. supportQueue[s] \in Seq(TicketTasks) /\ QueueHolds(supportQueue[s], reached[s])
        /\ k \in DOMAIN supportQueue[s] /\ supportQueue[s][k].row.status = "processing"
    BY <1>1, <1>3 DEF OutboxHolds
  <2> QED  BY ONLY <2>1, RowArrives
<1>12. ASSUME NEW i \in Tickets PROVE ChannelTells(i)'
  <2>1. supportQueue[i] \in Seq(TicketTasks) /\ QueueHolds(supportQueue[i], reached[i])
        /\ reached[i] \in Nat /\ ChannelTells(i)
    BY <1>1 DEF OutboxHolds, SupportInv
  <2>2. 1..reached[i] \subseteq DOMAIN supportQueue[i]
    BY <2>1 DEF QueueHolds
  <2>3. \A c : Shows(c, supportQueue'[i], reached[i]) <=> Shows(c, supportQueue[i], reached[i])
    <3>1. \A j \in 1..reached[i] : /\ supportQueue'[i][j].op = supportQueue[i][j].op
                                   /\ supportQueue'[i][j].message = supportQueue[i][j].message
      BY <2>2, <1>4
    <3> QED  BY ONLY <2>1, <3>1, ShowsAlike
  <2>4. CASE i # s
    <3>1. \A j \in DOMAIN supportQueue[i] : supportQueue'[i][j] = supportQueue[i][j]
      BY <2>4, <1>4
    <3>2. reached[i] = 1 => supportQueue'[i][1] = supportQueue[i][1]
      BY <3>1, <2>2
    <3> QED  BY <2>1, <2>3, <2>4, <3>2, <1>8, <1>9 DEF ChannelTells
  <2>5. CASE i = s
    <3>1. r.status = "done" => reached[s] = k
      <4> SUFFICES ASSUME r.status = "done" PROVE reached[s] = k
        OBVIOUS
      <4>1. supportQueue[s] \in Seq(TicketTasks) /\ QueueHolds(supportQueue[s], reached[s])
            /\ k \in DOMAIN supportQueue[s] /\ supportQueue[s][k].row.status = "processing"
        BY <1>1, <1>3 DEF OutboxHolds
      <4>2. reached[s] = k \/ k = reached[s] + 1
        BY ONLY <4>1, RowArrives
      <4>3. k <= reached[s] /\ reached[s] \in Nat
        BY <1>1, <1>2, <1>3 DEF PassHolds
      <4> QED  BY <4>2, <4>3
    <3>2. supportQueue[s][k].op = "create_channel" <=> k = 1
      BY <1>3 DEF SupportInv, TicketRowsTell
    <3>3. ticket'[s].channel \in 0..Len(channels[s])
      BY <1>8, <1>9, <2>1, <2>5 DEF ChannelTells
    <3>4. CASE reached[s] = 1
      <4>1. supportQueue'[s][1].row.status = "done" => ticket'[s].channel = Len(channels[s])
        <5>1. CASE k = 1
          BY <5>1, <3>2, <1>4, <1>9
        <5>2. CASE k # 1
          <6>1. r.status # "done"
            BY <3>1, <3>4, <5>2
          <6>2. 1 \in DOMAIN supportQueue[s]
            BY <2>2, <2>5, <3>4
          <6>3. supportQueue'[s][1] = supportQueue[s][1]
            BY <5>2, <6>2, <1>4
          <6> QED  BY <6>1, <6>3, <3>4, <1>9, <2>1, <2>5 DEF ChannelTells
        <5> QED  BY <5>1, <5>2
      <4> QED  BY <4>1, <3>3, <3>4, <2>1, <2>3, <2>5, <1>8 DEF ChannelTells
    <3>5. CASE reached[s] # 1
      <4>1. ticket'[s].channel = ticket[s].channel
        BY <3>1, <3>2, <3>5, <1>9
      <4> QED  BY <4>1, <3>3, <3>5, <2>1, <2>3, <2>5, <1>8 DEF ChannelTells
    <3> QED  BY <2>5, <3>4, <3>5
  <2> QED  BY <2>4, <2>5
<1>13. SupportStep
  <2>1. \A i \in Tickets : Len(supportQueue'[i]) = Len(supportQueue[i])
    BY <1>4
  <2>2. \A i \in Tickets : i # s => (DiscordAbandoned(i)' <=> DiscordAbandoned(i))
    BY <1>4 DEF DiscordAbandoned
  <2>3. ~DiscordAbandoned(s)
    BY <1>3, <1>11 DEF DiscordAbandoned
  <2>4. CASE r.status # "abandoned"
    <3>1. ~DiscordAbandoned(s)'
      BY <2>4, <1>3, <1>4, <1>11 DEF DiscordAbandoned
    <3> QED  BY <3>1, <2>1, <2>2, <2>3, TicketQueuesStay
  <2>5. CASE r.status = "abandoned"
    <3>1. DiscordAbandoned(s)'
      BY <2>5, <1>3, <1>4 DEF DiscordAbandoned
    <3>2. {i \in Tickets : DiscordAbandoned(i)}' = {i \in Tickets : DiscordAbandoned(i)} \cup {s}
      BY <3>1, <2>2, <1>3
    <3>3. reached[s] <= Len(supportQueue[s])
      BY <1>1 DEF OutboxHolds, QueueHolds
    <3>4. [i \in Tickets |-> Len(supportQueue[i])]' = [i \in Tickets |-> Len(supportQueue[i])]
      BY <2>1
    <3>5. TicketOutbox!GiveUp(s)
      BY <3>2, <3>3, <3>4, <1>3 DEF TicketOutbox!GiveUp
    <3> QED  BY <3>5, <1>3 DEF SupportStep, TicketOutbox!Next
  <2> QED  BY <2>4, <2>5
<1> QED  BY <1>7, <1>8, <1>10, <1>12, <1>13 DEF SupportInv

\* A worker dies, or its marks fail: rows are let go (SupportFaults).
LEMMA TicketBreaks ==
    ASSUME SupportInv, NEW w \in SupportWorkers, SupportFaults(w)
    PROVE  SupportInv' /\ SupportStep
<1>1. /\ OutboxHolds(Tickets, TicketTasks, SupportWorkers, Nobody, supportQueue, reached, supportWorker)
      /\ UNCHANGED <<desk, storage, discord, supportQueue>>
  BY DEF SupportInv, SupportOut, SupportFaults, Discord!MarkBreaks, Discord!Dies
<1>2. supportWorker[w] \in Passes(Tickets, Nobody)
  BY <1>1 DEF OutboxHolds
<1>3. PICK p \in Passes(Tickets, Nobody) :
          /\ supportWorker' = [supportWorker EXCEPT ![w] = p]
          /\ p.todo \subseteq supportWorker[w].todo
          /\ \/ p.step = "next" /\ p.item = Nobody
             \/ p.step = "failing" /\ p.item = supportWorker[w].item
                /\ p.todo = supportWorker[w].todo /\ supportWorker[w].step = "sent"
  <2>1. CASE Discord!Dies(w)
    <3> DEFINE p == [todo |-> {}, item |-> Nobody, step |-> "next"]
    <3>1. p \in Passes(Tickets, Nobody) /\ supportWorker' = [supportWorker EXCEPT ![w] = p]
      BY <2>1 DEF Discord!Dies, Discord!Idle, Discord!Pass, Passes
    <3> QED  BY <3>1
  <2>2. CASE supportWorker[w].step = "failing" /\ Discord!LeavesTask(w)
    <3> DEFINE p == [todo |-> supportWorker[w].todo \ {supportWorker[w].item},
                     item |-> Nobody, step |-> "next"]
    <3>1. p \in Passes(Tickets, Nobody) /\ supportWorker' = [supportWorker EXCEPT ![w] = p]
      BY <2>2, <1>2 DEF Discord!LeavesTask, Discord!Pass, Passes
    <3> QED  BY <3>1
  <2>3. CASE /\ supportWorker[w].step = "sent"
             /\ supportWorker' = [supportWorker EXCEPT ![w] = Discord!Pass(@.todo, @.item, "failing")]
    <3> DEFINE p == [todo |-> supportWorker[w].todo, item |-> supportWorker[w].item, step |-> "failing"]
    <3>1. p \in Passes(Tickets, Nobody) /\ supportWorker' = [supportWorker EXCEPT ![w] = p]
      BY <2>3, <1>2 DEF Discord!Pass, Passes
    <3> QED  BY <3>1, <2>3
  <2> QED  BY <2>1, <2>2, <2>3 DEF SupportFaults, Discord!MarkBreaks
<1>4. OutboxHolds(Tickets, TicketTasks, SupportWorkers, Nobody, supportQueue, reached,
                  [supportWorker EXCEPT ![w] = p])
  <2> PICK W2 : W2 = [supportWorker EXCEPT ![w] = p]
    OBVIOUS
  <2>1. /\ w \in SupportWorkers /\ p \in Passes(Tickets, Nobody)
        /\ OutboxHolds(Tickets, TicketTasks, SupportWorkers, Nobody,
                       supportQueue, reached, supportWorker)
        /\ W2 = [supportWorker EXCEPT ![w] = p]
        /\ p.todo \subseteq supportWorker[w].todo
        /\ \/ p.step = "next" /\ p.item = Nobody
           \/ p.step = "failing" /\ p.item = supportWorker[w].item
              /\ p.todo = supportWorker[w].todo /\ supportWorker[w].step = "sent"
    BY <1>1, <1>3
  <2>2. OutboxHolds(Tickets, TicketTasks, SupportWorkers, Nobody, supportQueue, reached, W2)
    BY ONLY <2>1, LettingGo
  <2> QED  BY <2>1, <2>2
<1>5. SupportOut'
  BY <1>1, <1>3, <1>4 DEF SupportOut, discord
<1>6. TicketsHold'
  <2>1. /\ TicketsHold /\ ticket' \in [Tickets -> TicketRows]
        /\ UNCHANGED <<said, mails, active, storage>>
    BY <1>1 DEF SupportInv, TicketsHold, desk
  <2> QED  BY <2>1, TicketsStand
<1>7. \A s \in Tickets : TicketRowsTell(s)' /\ ChannelTells(s)'
  BY <1>1 DEF SupportInv, TicketRowsTell, ChannelTells, desk, discord
<1>8. SupportStep
  <2>1. \A i : DiscordAbandoned(i)' <=> DiscordAbandoned(i)
    BY <1>1 DEF DiscordAbandoned
  <2> QED  BY <2>1, <1>1, TicketQueuesStay DEF discord
<1> QED  BY <1>1, <1>5, <1>6, <1>7, <1>8 DEF SupportInv, discord

\* A row becomes due, or a claim old that nobody holds (SupportTime).
LEMMA TicketWaits ==
    ASSUME SupportInv, SlowPass = FALSE, NEW t \in Discord!Tasks, SupportTime(t)
    PROVE  SupportInv' /\ SupportStep
<1>1. /\ OutboxHolds(Tickets, TicketTasks, SupportWorkers, Nobody, supportQueue, reached, supportWorker)
      /\ supportQueue \in [Tickets -> Seq(TicketTasks)]
      /\ UNCHANGED <<desk, storage, discord, supportWorker>>
  BY DEF SupportInv, SupportOut, OutboxHolds, SupportTime, Discord!TimePasses
<1>2. PICK s \in Tickets, k \in Nat :
          k \in DOMAIN supportQueue[s] /\ t = <<s, k>> /\ t[1] = s /\ t[2] = k
  <2>1. PICK i \in DOMAIN supportQueue : t \in {i} \X DOMAIN supportQueue[i]
    BY DEF Discord!Tasks
  <2>2. i \in Tickets /\ supportQueue[i] \in Seq(TicketTasks)
    BY <2>1, <1>1
  <2>3. DOMAIN supportQueue[i] \subseteq Nat
    BY <2>2
  <2> QED  BY <2>1, <2>2, <2>3
<1>3. supportQueue[s][k].row \in Discord!OutboxRow
  <2>1. supportQueue[s] \in Seq(TicketTasks)
    BY <1>1
  <2>2. supportQueue[s][k] \in TicketTasks
    BY <2>1, <1>2
  <2> QED  BY <2>2 DEF TicketTasks
<1>4. PICK r \in Discord!OutboxRow :
          /\ Discord!SetRow(t, r) /\ r.status = supportQueue[s][k].row.status
          /\ \A w \in SupportWorkers : <<s, k>> \notin supportWorker[w].todo
  <2>1. CASE Discord!Waits(supportQueue[s][k].row) /\ Discord!SetRow(t, Discord!Due(supportQueue[s][k].row))
    <3>1. supportQueue[s][k].row.status # "processing"
      BY <2>1 DEF Discord!Waits
    <3>2. \A w \in SupportWorkers : <<s, k>> \notin supportWorker[w].todo
      BY <3>1, <1>1 DEF OutboxHolds, PassHolds, Claimed, RowOf
    <3> QED  BY <3>2, <2>1, <1>3, SupportRows
  <2>2. CASE ~Discord!Held(t) /\ Discord!SetRow(t, Discord!Stale(supportQueue[s][k].row))
    BY <2>2, <1>2, <1>3, SupportRows DEF Discord!Held
  <2> QED  BY <2>1, <2>2, <1>2 DEF SupportTime, Discord!TimePasses, Discord!TaskRow
<1>5. /\ supportQueue' \in [Tickets -> Seq(TicketTasks)]
      /\ \A i \in Tickets : /\ Len(supportQueue'[i]) = Len(supportQueue[i])
                            /\ DOMAIN supportQueue'[i] = DOMAIN supportQueue[i]
      /\ \A i \in Tickets : \A j \in DOMAIN supportQueue[i] :
            /\ <<i, j>> # <<s, k>> => supportQueue'[i][j] = supportQueue[i][j]
            /\ supportQueue'[i][j].op = supportQueue[i][j].op
            /\ supportQueue'[i][j].message = supportQueue[i][j].message
      /\ supportQueue'[s][k].row = r
  BY ONLY <1>1, <1>2, <1>4, TicketRowSet
<1>6. PICK Q2 : supportQueue' = Q2
  OBVIOUS
<1>7. OutboxHolds(Tickets, TicketTasks, SupportWorkers, Nobody, Q2, reached, supportWorker)
  <2>1. /\ s \in Tickets /\ k \in DOMAIN supportQueue[s]
        /\ OutboxHolds(Tickets, TicketTasks, SupportWorkers, Nobody,
                       supportQueue, reached, supportWorker)
        /\ Q2 \in [Tickets -> Seq(TicketTasks)] /\ RowSet(Tickets, supportQueue, Q2, s, k, r)
        /\ r.status = supportQueue[s][k].row.status \/ Advances(supportQueue[s], r, reached[s], k)
        /\ \A v \in SupportWorkers : <<s, k>> \notin supportWorker[v].todo
    BY <1>1, <1>2, <1>4, <1>5, <1>6 DEF RowSet
  <2> QED  BY ONLY <2>1, OneRow
<1>8. SupportOut'
  BY <1>1, <1>6, <1>7 DEF SupportOut, discord
<1>9. TicketsHold' /\ \A i \in Tickets : TicketRowsTell(i)'
  <2>1. /\ UNCHANGED <<said, mails, active, storage>> /\ ticket' \in [Tickets -> TicketRows]
        /\ \A u \in Tickets : ticket'[u].status = ticket[u].status
    BY <1>1 DEF desk, SupportInv, TicketsHold
  <2> QED  BY <2>1, <1>5, TicketTextsStay
<1>10. \A i \in Tickets : \A j \in DOMAIN supportQueue[i] :
          supportQueue'[i][j].row.status = supportQueue[i][j].row.status
  BY <1>4, <1>5
<1>11. \A i \in Tickets : ChannelTells(i)'
  BY <1>1, <1>5, <1>10, ChannelsStay DEF discord, desk
<1>12. SupportStep
  <2>1. \A i \in Tickets : DiscordAbandoned(i)' <=> DiscordAbandoned(i)
    BY <1>5, <1>10 DEF DiscordAbandoned
  <2> QED  BY <2>1, <1>1, <1>5, TicketQueuesStay DEF discord
<1> QED  BY <1>1, <1>8, <1>9, <1>11, <1>12 DEF SupportInv, discord

-----------------------------------------------------------------------------
(* The requests about tickets.                                             *)

Answered(M, t, k) == \E n \in M : n.ticket = t /\ n.to = "user" /\ n.about = k

\* A mail that is not taken was there under its key (EnqueueEmail).
LEMMA Mailed ==
    ASSUME MailsKeyed, NEW M, EnqueueEmail(M),
           \A m \in M : \A k \in Nat : m.to = "user" /\ m.key = AnswerKey(k) => m.about = k
    PROVE  /\ mails \subseteq mails' /\ MailsKeyed'
           /\ \A t : \A k \in Nat : UserNotice(t, AnswerKey(k), k) \in M => Answered(mails', t, k)
<1>1. mails \subseteq mails' /\ \A n \in mails' : n \in mails \/ n \in M
  BY DEF EnqueueEmail
<1>2. MailsKeyed'
  BY <1>1 DEF MailsKeyed
<1>3. ASSUME NEW t, NEW k \in Nat, UserNotice(t, AnswerKey(k), k) \in M
      PROVE  Answered(mails', t, k)
  <2> DEFINE m == UserNotice(t, AnswerKey(k), k)
  <2>1. m \in M /\ m.ticket = t /\ m.to = "user" /\ m.key = AnswerKey(k) /\ m.about = k
    BY <1>3 DEF UserNotice, Mail
  <2> HIDE DEF m
  <2>2. CASE \A n \in mails : <<n.ticket, n.to, n.key>> # <<m.ticket, m.to, m.key>>
    <3>1. m \in mails'
      BY <2>1, <2>2 DEF EnqueueEmail
    <3> QED  BY <2>1, <3>1 DEF Answered
  <2>3. CASE \E n \in mails : <<n.ticket, n.to, n.key>> = <<m.ticket, m.to, m.key>>
    <3>1. PICK n \in mails : n.ticket = t /\ n.to = "user" /\ n.key = AnswerKey(k)
      BY <2>1, <2>3
    <3>2. n.about = k
      BY <3>1 DEF MailsKeyed
    <3> QED  BY <1>1, <3>1, <3>2 DEF Answered
  <2> QED  BY <2>2, <2>3
<1> QED  BY <1>1, <1>2, <1>3

\* A message is written to a ticket, and its answer was mailed
\* (InsertSupportMessage, enqueueUserNoticeTx, uploads.remove).
LEMMA Saying ==
    ASSUME TicketsHold, NEW t \in Tickets, NEW from \in {"user", "admin", "discord", "email"},
           NEW event \in Replies \cup {Nobody}, event = Nobody \/ ~Seen(event),
           NEW F \in SUBSET held, FilesStay(F),
           InsertSupportMessage(t, from, event, F),
           mails \subseteq mails', MailsKeyed',
           from # "user" => Answered(mails', t, NextMessage(t)),
           active' = active, ticket' \in [Tickets -> TicketRows]
    PROVE  /\ TicketsHold'
           /\ \A u \in Tickets : Len(said[u]) <= Len(said'[u])
           /\ Len(said'[t]) = NextMessage(t) /\ NextMessage(t) \in Nat
<1>1. PICK q \in Seq(SaidRows) : q = said[t]
  BY DEF TicketsHold
<1>2. PICK x : x = [from |-> from, event |-> event, status |-> "active", files |-> F]
  OBVIOUS
<1>3. PICK n \in Nat : n = Len(q) /\ DOMAIN q = 1..n /\ NextMessage(t) = n + 1
  BY <1>1, Domains DEF NextMessage
<1>4. x \in SaidRows /\ x.from = from /\ x.event = event /\ x.files = F
  BY <1>2 DEF SaidRows, TicketsHold, FilesKept
<1>5. PICK p : p = Append(q, x)
  OBVIOUS
<1>6. /\ p \in Seq(SaidRows) /\ Len(p) = n + 1 /\ DOMAIN p = 1..(n + 1) /\ p[n + 1] = x
      /\ \A k \in 1..n : p[k] = q[k]
  BY <1>1, <1>3, <1>4, <1>5
<1>7. said' = [said EXCEPT ![t] = p]
  BY <1>1, <1>2, <1>5 DEF InsertSupportMessage
<1>8. /\ said' \in [Tickets -> Seq(SaidRows)] /\ said'[t] = p
      /\ \A u \in Tickets : u # t => said'[u] = said[u]
  BY <1>6, <1>7 DEF TicketsHold
<1>9. ASSUME NEW u \in Tickets, NEW k \in DOMAIN said'[u]
      PROVE  \/ u = t /\ k = n + 1 /\ said'[u][k] = x
             \/ k \in DOMAIN said[u] /\ said'[u][k] = said[u][k] /\ ~(u = t /\ k = n + 1)
  <2>1. CASE u # t
    BY <2>1, <1>8
  <2>2. CASE u = t
    BY <2>2, <1>1, <1>3, <1>6, <1>8
  <2> QED  BY <2>1, <2>2
<1>10. AnswersNoticed'
  <2> SUFFICES ASSUME NEW u \in Tickets, NEW k \in DOMAIN said'[u], said'[u][k].from # "user"
               PROVE  Answered(mails', u, k)
    BY DEF AnswersNoticed, Answered
  <2>1. CASE u = t /\ k = n + 1 /\ said'[u][k] = x
    BY <2>1, <1>3, <1>4
  <2>2. CASE k \in DOMAIN said[u] /\ said'[u][k] = said[u][k]
    BY <2>2 DEF TicketsHold, AnswersNoticed, Answered
  <2> QED  BY <2>1, <2>2, <1>9
<1>11. EventsOnce'
  <2> SUFFICES ASSUME NEW u \in Tickets, NEW v \in Tickets,
                      NEW i \in DOMAIN said'[u], NEW j \in DOMAIN said'[v],
                      said'[u][i].event = said'[v][j].event, said'[u][i].event # Nobody
               PROVE  u = v /\ i = j
    BY DEF EventsOnce
  <2>1. ASSUME NEW y \in Tickets, NEW k \in DOMAIN said[y], event # Nobody
        PROVE  said[y][k].event # event
    BY <2>1 DEF Seen
  <2>2. CASE i \in DOMAIN said[u] /\ said'[u][i] = said[u][i] /\ j \in DOMAIN said[v]
             /\ said'[v][j] = said[v][j]
    BY <2>2 DEF TicketsHold, EventsOnce
  <2>3. CASE (u = t /\ i = n + 1 /\ said'[u][i] = x) \/ (v = t /\ j = n + 1 /\ said'[v][j] = x)
    BY <2>1, <2>3, <1>4, <1>9
  <2> QED  BY <2>2, <2>3, <1>9
<1>12. FilesKept'
  <2>1. /\ held' \subseteq blobs' /\ blobs' \subseteq Files /\ F \subseteq blobs
        /\ F \cap held' = {} /\ held' \subseteq held
        /\ LostCommits = FALSE => blobs' = blobs
    BY DEF TicketsHold, FilesKept, FilesStay, KeptAfter
  <2>2. ASSUME LostCommits = FALSE, NEW u \in Tickets, NEW k \in DOMAIN said'[u]
        PROVE  said'[u][k].files \subseteq blobs' /\ said'[u][k].files \cap held' = {}
    <3>1. CASE said'[u][k] = x
      BY <3>1, <2>1, <2>2, <1>4
    <3>2. CASE k \in DOMAIN said[u] /\ said'[u][k] = said[u][k]
      <4>1. said[u][k].files \subseteq blobs /\ said[u][k].files \cap held = {}
        BY <3>2, <2>2 DEF TicketsHold, FilesKept
      <4> QED  BY <4>1, <3>2, <2>1, <2>2
    <3> QED  BY <3>1, <3>2, <1>9
  <2> QED  BY <2>1, <2>2 DEF FilesKept
<1>13. ASSUME NEW u \in Tickets PROVE Len(said[u]) <= Len(said'[u])
  <2>1. CASE u = t
    BY <2>1, <1>1, <1>3, <1>6, <1>8
  <2>2. CASE u # t
    <3>1. said'[u] = said[u] /\ said[u] \in Seq(SaidRows)
      BY <2>2, <1>8 DEF TicketsHold
    <3>2. Len(said[u]) \in Nat
      BY <3>1
    <3> QED  BY <3>1, <3>2
  <2> QED  BY <2>1, <2>2
<1>14. TicketsHold'
  BY <1>8, <1>10, <1>11, <1>12 DEF TicketsHold
<1> QED  BY <1>3, <1>6, <1>8, <1>13, <1>14

LEMMA StatusSet ==
    ASSUME ticket \in [Tickets -> TicketRows], NEW t \in Tickets, NEW status \in Status,
           ticket' = [ticket EXCEPT ![t].status = status]
    PROVE  /\ ticket' \in [Tickets -> TicketRows] /\ ticket'[t].status = status
           /\ \A u \in Tickets : /\ ticket'[u].channel = ticket[u].channel
                                 /\ u # t => ticket'[u] = ticket[u]
<1>1. PICK y \in TicketRows : y = ticket[t]
  OBVIOUS
<1>2. PICK x : x = [y EXCEPT !.status = status]
  OBVIOUS
<1>3. x \in TicketRows /\ x.status = status /\ x.channel = y.channel
  BY ONLY <1>2, y \in TicketRows, status \in Status DEF TicketRows
<1>4. ticket' = [ticket EXCEPT ![t] = x]
  BY <1>1, <1>2
<1> QED  BY <1>1, <1>3, <1>4

\* Messages are left alone, more mails are taken.
LEMMA TicketsKept ==
    ASSUME TicketsHold, said' = said, ticket' \in [Tickets -> TicketRows], active' \subseteq Users,
           mails \subseteq mails', MailsKeyed', FilesKept'
    PROVE  TicketsHold'
<1>1. AnswersNoticed' /\ EventsOnce'
  BY DEF TicketsHold, AnswersNoticed, EventsOnce
<1> QED  BY <1>1 DEF TicketsHold

\* The row of a message, which its ticket has (EnqueueDiscord).
LEMMA RowMade ==
    ASSUME NEW op \in {"create_channel", "create_message", "archive_channel", "reopen_channel"},
           NEW message_ \in Nat, NEW x,
           x = [op |-> op, message |-> message_, row |-> Discord!PendingRow]
    PROVE  /\ x \in TicketTasks /\ x.row.status = "pending"
           /\ x.op = op /\ x.message = message_
<1>1. PICK r : r = Discord!PendingRow
  OBVIOUS
<1>2. r \in Discord!OutboxRow /\ r.status = "pending"
  BY <1>1 DEF Discord!PendingRow, Discord!NoRow, Discord!OutboxRow, Discord!OutboxStatus
<1>3. x = [op |-> op, message |-> message_, row |-> r]
  BY <1>1
<1> QED  BY ONLY <1>2, <1>3, message_ \in Nat, op \in {"create_channel", "create_message",
                "archive_channel", "reopen_channel"} DEF TicketTasks

LEMMA FirstStatus ==
    ASSUME NEW u, NEW n, NEW p, p = [status |-> "absent", owner |-> n, channel |-> 0],
           NEW y, y = [p EXCEPT !.status = "waiting_staff", !.owner = u]
    PROVE  y \in [status : {"waiting_staff"}, owner : {u}, channel : {0}]
  OBVIOUS

\* A ticket begins with its message and its channel (CreateTicketWithAttachments).
LEMMA Creating ==
    ASSUME SupportInv, NEW u \in Users, NEW t \in Tickets, CreateTicket(u, t)
    PROVE  SupportInv' /\ SupportStep
<1>1. PICK F \in SUBSET held : CreateTicketWithAttachments(t, u, F) /\ FilesStay(F)
  BY DEF CreateTicket
<1>2. PICK x : x = [op |-> "create_channel", message |-> 0, row |-> Discord!PendingRow]
  OBVIOUS
<1>3. /\ ticket[t].status = "absent" /\ UNCHANGED <<supportWorker, discord>> /\ active' = active
      /\ FilesStay(F)
      /\ InsertSupportMessage(t, "user", Nobody, F)
      /\ supportQueue' = [supportQueue EXCEPT ![t] = Append(@, x)]
      /\ EnqueueEmail({OfficialMail(t, <<"new", 0>>, 1), UserNotice(t, <<"created", 0>>, 1)})
  BY <1>1, <1>2 DEF CreateTicket, CreateTicketWithAttachments, InsertTicket,
                    EnqueueDiscord
<1>4. mails \subseteq mails' /\ MailsKeyed'
  <2>1. \A m \in {OfficialMail(t, <<"new", 0>>, 1), UserNotice(t, <<"created", 0>>, 1)} :
            \A k \in Nat : m.to = "user" /\ m.key = AnswerKey(k) => m.about = k
    BY DEF OfficialMail, UserNotice, Mail, AnswerKey
  <2>2. MailsKeyed
    BY DEF SupportInv, TicketsHold
  <2> QED  BY <1>3, <2>1, <2>2, Mailed
<1>5. ticket[t].channel = 0
  <2>1. supportQueue[t] = <<>>
    BY <1>3 DEF SupportInv, TicketRowsTell
  <2>2. QueueHolds(supportQueue[t], reached[t])
    BY DEF SupportInv, SupportOut, OutboxHolds
  <2>3. reached[t] = 0
    BY <2>1, <2>2 DEF QueueHolds
  <2> QED  BY <2>3 DEF SupportInv, ChannelTells
<1>6. /\ ticket' \in [Tickets -> TicketRows] /\ ticket'[t].status = "waiting_staff"
      /\ \A v \in Tickets : /\ ticket'[v].channel = ticket[v].channel
                            /\ v # t => ticket'[v].status = ticket[v].status
  <2>1. PICK n, p : p = [status |-> "absent", owner |-> n, channel |-> 0] /\ p = NoTicket
    BY DEF NoTicket
  <2>2. PICK y : y = [p EXCEPT !.status = "waiting_staff", !.owner = u]
    OBVIOUS
  <2>3. ticket' = [ticket EXCEPT ![t] = y]
    BY <1>1, <2>1, <2>2 DEF CreateTicketWithAttachments, InsertTicket
  <2>5. y \in TicketRows /\ y.status = "waiting_staff" /\ y.channel = 0
    <3>1. y \in [status : {"waiting_staff"}, owner : {u}, channel : {0}]
      BY <2>1, <2>2, FirstStatus
    <3> QED  BY <3>1 DEF TicketRows, Status
  <2>4. ticket \in [Tickets -> TicketRows]
    BY DEF SupportInv, TicketsHold
  <2> QED  BY <2>3, <2>4, <2>5, <1>5
<1>7. /\ TicketsHold'
      /\ \A v \in Tickets : Len(said[v]) <= Len(said'[v])
      /\ Len(said'[t]) = NextMessage(t) /\ NextMessage(t) \in Nat
  <2>1. TicketsHold /\ Nobody \in Replies \cup {Nobody}
    BY DEF SupportInv
  <2> QED  BY <2>1, <1>3, <1>4, <1>6, Saying
<1>8. TellsChange(t, x)
  <2>1. x \in TicketTasks /\ x.row.status = "pending" /\ x.op = "create_channel" /\ x.message = 0
    BY <1>2, RowMade
  <2>2. x.message <= Len(said'[t])
    BY <2>1, <1>7
  <2> QED  BY <2>1, <2>2, <1>3, <1>6 DEF TellsChange
<1> QED  BY <1>3, <1>6, <1>7, <1>8, TicketPosts

\* A message in a talk: who writes it, what its ticket waits for, whether it is
\* queued for Discord, and the mails it brings.
Talks(t, from, event, F, status, M) ==
    /\ InTalks(t) /\ status \in {"waiting_staff", "waiting_user"}
    /\ from \in {"user", "admin", "discord", "email"}
    /\ event \in Replies \cup {Nobody} /\ (event = Nobody \/ ~Seen(event))
    /\ F \in SUBSET held /\ FilesStay(F)
    /\ InsertSupportMessage(t, from, event, F)
    /\ ticket' = [ticket EXCEPT ![t].status = status]
    /\ EnqueueEmail(M)
    /\ \A m \in M : \A k \in Nat : m.to = "user" /\ m.key = AnswerKey(k) => m.about = k
    /\ from # "user" => UserNotice(t, AnswerKey(NextMessage(t)), NextMessage(t)) \in M

\* A message is written in a talk (AddUserMessage, AddAdminMessage,
\* ApplyDiscordMessage, ApplyEmailMessage).
LEMMA Talking ==
    ASSUME SupportInv, NEW t \in Tickets, NEW from, NEW event, NEW F, NEW status, NEW M,
           Talks(t, from, event, F, status, M),
           active' = active, UNCHANGED <<supportWorker, discord>>,
           EnqueueDiscord(t, "create_message", NextMessage(t)) \/ supportQueue' = supportQueue
    PROVE  SupportInv' /\ SupportStep
<1>1. /\ TicketsHold /\ MailsKeyed /\ ticket \in [Tickets -> TicketRows]
      /\ NextMessage(t) \in Nat /\ NextMessage(t) # 0
  <2>1. TicketsHold
    BY DEF SupportInv
  <2>2. said[t] \in Seq(SaidRows) /\ MailsKeyed /\ ticket \in [Tickets -> TicketRows]
    BY <2>1 DEF TicketsHold
  <2>3. Len(said[t]) \in Nat
    BY <2>2
  <2> QED  BY <2>1, <2>2, <2>3 DEF NextMessage
<1>2. mails \subseteq mails' /\ MailsKeyed'
      /\ (from # "user" => Answered(mails', t, NextMessage(t)))
  <2>1. /\ EnqueueEmail(M)
        /\ \A m \in M : \A k \in Nat : m.to = "user" /\ m.key = AnswerKey(k) => m.about = k
        /\ from # "user" => UserNotice(t, AnswerKey(NextMessage(t)), NextMessage(t)) \in M
    BY DEF Talks
  <2>2. /\ mails \subseteq mails' /\ MailsKeyed'
        /\ \A u : \A k \in Nat : UserNotice(u, AnswerKey(k), k) \in M => Answered(mails', u, k)
    BY ONLY <1>1, <2>1, Mailed
  <2> QED  BY <1>1, <2>1, <2>2
<1>3. /\ ticket' \in [Tickets -> TicketRows] /\ ticket'[t].status = status
      /\ \A v \in Tickets : /\ ticket'[v].channel = ticket[v].channel
                            /\ v # t => ticket'[v] = ticket[v]
  <2>1. status \in Status /\ ticket' = [ticket EXCEPT ![t].status = status]
    BY DEF Talks, Status
  <2> QED  BY <1>1, <2>1, StatusSet
<1>4. /\ TicketsHold'
      /\ \A v \in Tickets : Len(said[v]) <= Len(said'[v])
      /\ Len(said'[t]) = NextMessage(t)
  <2>1. /\ from \in {"user", "admin", "discord", "email"}
        /\ event \in Replies \cup {Nobody} /\ (event = Nobody \/ ~Seen(event))
        /\ F \in SUBSET held /\ FilesStay(F)
        /\ InsertSupportMessage(t, from, event, F)
    BY DEF Talks
  <2> QED  BY <1>1, <1>2, <1>3, <2>1, Saying
<1>5. /\ ticket[t].status \notin {"absent", "closed", "spam"}
      /\ ticket'[t].status \in {"waiting_staff", "waiting_user"}
  BY <1>3 DEF Talks, InTalks
<1>6. CASE EnqueueDiscord(t, "create_message", NextMessage(t))
  <2>1. PICK x : /\ x = [op |-> "create_message", message |-> NextMessage(t), row |-> Discord!PendingRow]
                 /\ supportQueue' = [supportQueue EXCEPT ![t] = Append(@, x)]
    BY <1>6 DEF EnqueueDiscord
  <2>2. x \in TicketTasks /\ x.row.status = "pending" /\ x.op = "create_message"
        /\ x.message = NextMessage(t)
    BY <1>1, <2>1, RowMade
  <2>3. TellsChange(t, x)
    BY <1>1, <1>4, <1>5, <2>2 DEF TellsChange
  <2> QED  BY <1>3, <1>4, <2>1, <2>3, TicketPosts
<1>7. CASE supportQueue' = supportQueue
  <2>1. \A v \in Tickets : /\ ticket'[v].status = "absent" <=> ticket[v].status = "absent"
                           /\ ticket'[v].status = "closed" <=> ticket[v].status = "closed"
    BY <1>3, <1>5
  <2> QED  BY <1>3, <1>4, <1>7, <2>1, TicketQuiet
<1> QED  BY <1>6, <1>7

\* What Discord does where the status changes (StatusRows).
LEMMA StatusQueued ==
    ASSUME SupportInv, NEW t \in Tickets, NEW status, ticket'[t].status = status,
           ticket[t].status # "absent", status # "absent",
           supportQueue' = [supportQueue EXCEPT ![t] =
               @ \o [k \in DOMAIN StatusRows(t, status) |->
                       [op |-> StatusRows(t, status)[k], message |-> 0, row |-> Discord!PendingRow]]]
    PROVE  \/ /\ supportQueue' = supportQueue
              /\ ticket'[t].status = "closed" <=> ticket[t].status = "closed"
           \/ \E x : /\ supportQueue' = [supportQueue EXCEPT ![t] = Append(@, x)]
                     /\ Len(said'[t]) \in Nat => TellsChange(t, x)
<1>1. PICK q \in Seq(TicketTasks) : q = supportQueue[t]
  BY DEF SupportInv, SupportOut, OutboxHolds
<1>2. supportQueue \in [Tickets -> Seq(TicketTasks)]
  BY DEF SupportInv, SupportOut, OutboxHolds
<1>3. ASSUME NEW op \in {"archive_channel", "reopen_channel"}, StatusRows(t, status) = <<op>>,
             status = "closed" <=> op = "archive_channel"
      PROVE  \E x : /\ supportQueue' = [supportQueue EXCEPT ![t] = Append(@, x)]
                    /\ Len(said'[t]) \in Nat => TellsChange(t, x)
  <2>1. PICK x : x = [op |-> op, message |-> 0, row |-> Discord!PendingRow]
    OBVIOUS
  <2>2. x \in TicketTasks /\ x.row.status = "pending" /\ x.op = op /\ x.message = 0
    <3>1. /\ op \in {"create_channel", "create_message", "archive_channel", "reopen_channel"}
          /\ 0 \in Nat /\ x = [op |-> op, message |-> 0, row |-> Discord!PendingRow]
      BY <2>1
    <3> QED  BY ONLY <3>1, RowMade
  <2>3. [k \in DOMAIN <<op>> |-> [op |-> <<op>>[k], message |-> 0, row |-> Discord!PendingRow]]
        = <<x>>
    BY <2>1
  <2>4. supportQueue' = [supportQueue EXCEPT ![t] = q \o <<x>>]
    BY <1>1, <1>3, <2>3
  <2>5. q \o <<x>> = Append(q, x)
    BY <2>2
  <2>6. supportQueue' = [supportQueue EXCEPT ![t] = Append(@, x)]
    BY <1>1, <2>4, <2>5
  <2>7. Len(said'[t]) \in Nat => TellsChange(t, x)
    BY <1>3, <2>2 DEF TellsChange
  <2> QED  BY <2>6, <2>7
<1>4. CASE status = "closed"
  <2>1. StatusRows(t, status) = <<"archive_channel">>
    BY <1>4 DEF StatusRows
  <2> QED  BY <1>3, <1>4, <2>1
<1>5. CASE status # "closed" /\ ticket[t].status = "closed"
  <2>1. StatusRows(t, status) = <<"reopen_channel">>
    BY <1>5 DEF StatusRows
  <2> QED  BY <1>3, <1>5, <2>1
<1>6. CASE status # "closed" /\ ticket[t].status # "closed"
  <2>1. StatusRows(t, status) = <<>>
    BY <1>6 DEF StatusRows
  <2>2. q \o [k \in DOMAIN <<>> |-> [op |-> <<>>[k], message |-> 0, row |-> Discord!PendingRow]] = q
    <3>1. [k \in DOMAIN <<>> |-> [op |-> <<>>[k], message |-> 0, row |-> Discord!PendingRow]] = <<>>
      OBVIOUS
    <3> QED  BY <3>1
  <2>3. supportQueue' = supportQueue
    BY <1>1, <1>2, <2>1, <2>2
  <2> QED  BY <1>6, <2>3
<1> QED  BY <1>4, <1>5, <1>6

\* The status of a ticket is changed, by its owner or by the staff
\* (SetTicketStatus).
LEMMA Deciding ==
    ASSUME SupportInv, NEW t \in Tickets, NEW status \in Status \ {"absent"}, NEW admin \in BOOLEAN,
           SetTicketStatus(t, status, admin),
           UNCHANGED <<active, storage, supportWorker, discord>>
    PROVE  SupportInv' /\ SupportStep
<1>1. /\ TicketsHold /\ MailsKeyed /\ ticket \in [Tickets -> TicketRows] /\ active \subseteq Users
      /\ FilesKept /\ said' = said /\ active' = active /\ held' = held /\ blobs' = blobs
      /\ ticket[t].status # "absent"
  BY DEF SupportInv, TicketsHold, SetTicketStatus, storage
<1>2. PICK M : /\ EnqueueEmail(M)
               /\ \A m \in M : \A k \in Nat : m.to = "user" /\ m.key = AnswerKey(k) => m.about = k
  <2>1. ASSUME NEW M \in {{UserNotice(t, <<"closed", 0>>, 0)},
                          {OfficialMail(t, <<"reopened", 0>>, 0)}, {}}
        PROVE  \A m \in M : \A k \in Nat : m.to = "user" /\ m.key = AnswerKey(k) => m.about = k
    BY DEF UserNotice, OfficialMail, Mail, AnswerKey
  <2>2. \E M \in {{UserNotice(t, <<"closed", 0>>, 0)},
                  {OfficialMail(t, <<"reopened", 0>>, 0)}, {}} : EnqueueEmail(M)
    BY DEF SetTicketStatus
  <2> QED  BY <2>1, <2>2
<1>3. mails \subseteq mails' /\ MailsKeyed'
  BY ONLY <1>1, <1>2, Mailed
<1>4. /\ ticket' \in [Tickets -> TicketRows] /\ ticket'[t].status = status
      /\ \A u \in Tickets : /\ ticket'[u].channel = ticket[u].channel
                            /\ u # t => ticket'[u] = ticket[u]
  <2>1. status \in Status /\ ticket' = [ticket EXCEPT ![t].status = status]
    BY DEF SetTicketStatus
  <2> QED  BY <2>1, <1>1, StatusSet
<1>5. TicketsHold'
  <2>1. FilesKept'
    BY <1>1 DEF FilesKept
  <2> QED  BY <2>1, <1>1, <1>3, <1>4, TicketsKept
<1>6. Len(said'[t]) \in Nat /\ \A u \in Tickets : Len(said[u]) <= Len(said'[u])
  <2> SUFFICES ASSUME NEW u \in Tickets PROVE Len(said[u]) \in Nat
    BY <1>1
  <2>1. said[u] \in Seq(SaidRows)
    BY <1>1 DEF TicketsHold
  <2> QED  BY <2>1
<1>7. \/ /\ supportQueue' = supportQueue
         /\ ticket'[t].status = "closed" <=> ticket[t].status = "closed"
      \/ \E x : /\ supportQueue' = [supportQueue EXCEPT ![t] = Append(@, x)]
                /\ Len(said'[t]) \in Nat => TellsChange(t, x)
  <2>1. supportQueue' = [supportQueue EXCEPT ![t] =
            @ \o [k \in DOMAIN StatusRows(t, status) |->
                    [op |-> StatusRows(t, status)[k], message |-> 0, row |-> Discord!PendingRow]]]
    BY DEF SetTicketStatus
  <2>2. status # "absent"
    OBVIOUS
  <2> QED  BY <2>1, <2>2, <1>1, <1>4, StatusQueued
<1>8. CASE /\ supportQueue' = supportQueue
           /\ ticket'[t].status = "closed" <=> ticket[t].status = "closed"
  <2>1. ASSUME NEW u \in Tickets
        PROVE  /\ ticket'[u].channel = ticket[u].channel
               /\ ticket'[u].status = "absent" <=> ticket[u].status = "absent"
               /\ ticket'[u].status = "closed" <=> ticket[u].status = "closed"
               /\ Len(said[u]) <= Len(said'[u])
    <3>1. CASE u = t
      BY <3>1, <1>1, <1>4, <1>6, <1>8
    <3>2. CASE u # t
      BY <3>2, <1>4, <1>6
    <3> QED  BY <3>1, <3>2
  <2> QED  BY <2>1, <1>5, <1>8, TicketQuiet
<1>9. ASSUME NEW x, supportQueue' = [supportQueue EXCEPT ![t] = Append(@, x)], TellsChange(t, x)
      PROVE  SupportInv' /\ SupportStep
  BY <1>4, <1>5, <1>6, <1>9, TicketPosts
<1> QED  BY <1>6, <1>7, <1>8, <1>9

\* A message of the user, of the staff, or of a repeated delivery.
LEMMA Conversing ==
    ASSUME SupportInv, NEW t \in Tickets,
           \/ \E u \in Users : AddUserMessage(u, t)
           \/ AddAdminMessage(t)
           \/ \E e \in Replies : EmailWebhook(t, e)
           \/ \E e \in Replies : ApplyDiscordMessage(t, e)
                                 /\ UNCHANGED <<active, sets, storage, supportWorker, discord, faults>>
    PROVE  SupportInv' /\ SupportStep
<1>1. ASSUME NEW u \in Users, AddUserMessage(u, t) PROVE SupportInv' /\ SupportStep
  <2>1. PICK F \in SUBSET held : AddUserMessageWithAttachments(t, u, F) /\ FilesStay(F)
    BY <1>1 DEF AddUserMessage
  <2>2. PICK M : M = {OfficialMail(t, <<"message", 0>>, NextMessage(t))}
    OBVIOUS
  <2>3. \A m \in M : m.to = "staff"
    BY <2>2 DEF OfficialMail, Mail
  <2>4. Talks(t, "user", Nobody, F, "waiting_staff", M)
    BY <2>1, <2>2, <2>3 DEF Talks, AddUserMessageWithAttachments
  <2>5. /\ EnqueueDiscord(t, "create_message", NextMessage(t))
        /\ active' = active /\ UNCHANGED <<supportWorker, discord>>
    BY <1>1, <2>1 DEF AddUserMessage, AddUserMessageWithAttachments
  <2> QED  BY <2>4, <2>5, Talking
<1>2. PICK M : M = {UserNotice(t, AnswerKey(NextMessage(t)), NextMessage(t))}
  OBVIOUS
<1>3. /\ \A m \in M : \A k \in Nat : m.to = "user" /\ m.key = AnswerKey(k) => m.about = k
      /\ UserNotice(t, AnswerKey(NextMessage(t)), NextMessage(t)) \in M
  BY <1>2 DEF UserNotice, Mail, AnswerKey
<1>4. ASSUME AddAdminMessage(t) PROVE SupportInv' /\ SupportStep
  <2>1. PICK F \in SUBSET held : AddAdminMessageWithAttachments(t, F) /\ FilesStay(F)
    BY <1>4 DEF AddAdminMessage
  <2>2. Talks(t, "admin", Nobody, F, "waiting_user", M)
    BY <2>1, <1>2, <1>3 DEF Talks, AddAdminMessageWithAttachments
  <2>3. /\ EnqueueDiscord(t, "create_message", NextMessage(t))
        /\ active' = active /\ UNCHANGED <<supportWorker, discord>>
    BY <1>4, <2>1 DEF AddAdminMessage, AddAdminMessageWithAttachments
  <2> QED  BY <2>2, <2>3, Talking
<1>5. ASSUME NEW e \in Replies, EmailWebhook(t, e) PROVE SupportInv' /\ SupportStep
  <2>1. /\ ApplyEmailMessage(t, e) /\ FilesStay({})
        /\ active' = active /\ UNCHANGED <<supportWorker, discord>>
    BY <1>5 DEF EmailWebhook, storage, FilesStay, KeptAfter
  <2>2. Talks(t, "email", e, {}, "waiting_user", M)
    BY <2>1, <1>2, <1>3 DEF Talks, ApplyEmailMessage
  <2>3. EnqueueDiscord(t, "create_message", NextMessage(t))
    BY <2>1 DEF ApplyEmailMessage
  <2> QED  BY <2>1, <2>2, <2>3, Talking
<1>6. ASSUME NEW e \in Replies, ApplyDiscordMessage(t, e),
             UNCHANGED <<active, sets, storage, supportWorker, discord, faults>>
      PROVE  SupportInv' /\ SupportStep
  <2>1. /\ FilesStay({}) /\ active' = active /\ UNCHANGED <<supportWorker, discord>>
    BY <1>6 DEF storage, FilesStay, KeptAfter
  <2>2. Talks(t, "discord", e, {}, "waiting_user", M)
    BY <1>6, <2>1, <1>2, <1>3 DEF Talks, ApplyDiscordMessage
  <2>3. supportQueue' = supportQueue
    BY <1>6 DEF ApplyDiscordMessage
  <2> QED  BY <2>1, <2>2, <2>3, Talking
<1> QED  BY <1>1, <1>4, <1>5, <1>6

\* A message from Discord is edited or deleted there (ChangeDiscordMessage).
LEMMA Editing ==
    ASSUME SupportInv, NEW t \in Tickets, NEW e, NEW status \in {"edited", "deleted"},
           ChangeDiscordMessage(t, e, status),
           UNCHANGED <<active, storage, supportWorker, discord>>
    PROVE  SupportInv' /\ SupportStep
<1>1. /\ TicketsHold /\ AnswersNoticed /\ MailsKeyed /\ EventsOnce /\ FilesKept
      /\ ticket' = ticket /\ mails' = mails /\ supportQueue' = supportQueue
      /\ active' = active /\ held' = held /\ blobs' = blobs
      /\ said \in [Tickets -> Seq(SaidRows)]
  BY DEF SupportInv, TicketsHold, ChangeDiscordMessage, storage
<1>2. PICK k \in DOMAIN said[t] : said' = [said EXCEPT ![t][k].status = status]
  BY DEF ChangeDiscordMessage
<1>3. PICK q \in Seq(SaidRows) : q = said[t] /\ k \in DOMAIN q
  BY <1>1, <1>2
<1>4. PICK x \in SaidRows : x = q[k]
  BY <1>3
<1>5. PICK y : y = [x EXCEPT !.status = status]
  OBVIOUS
<1>6. y \in SaidRows /\ y.from = x.from /\ y.event = x.event /\ y.files = x.files
  BY <1>5 DEF SaidRows
<1>7. PICK p : p = [q EXCEPT ![k] = y]
  OBVIOUS
<1>8. /\ p \in Seq(SaidRows) /\ Len(p) = Len(q) /\ DOMAIN p = DOMAIN q /\ p[k] = y
      /\ \A j \in DOMAIN q : j # k => p[j] = q[j]
  BY <1>3, <1>6, <1>7
<1>9. said' = [said EXCEPT ![t] = p]
  BY <1>2, <1>3, <1>4, <1>5, <1>7
<1>10. said' \in [Tickets -> Seq(SaidRows)]
  BY <1>1, <1>8, <1>9
<1>11. ASSUME NEW u \in Tickets
       PROVE  /\ Len(said'[u]) = Len(said[u]) /\ DOMAIN said'[u] = DOMAIN said[u]
              /\ Len(said[u]) \in Nat
              /\ \A j \in DOMAIN said[u] : /\ said'[u][j].from = said[u][j].from
                                           /\ said'[u][j].event = said[u][j].event
                                           /\ said'[u][j].files = said[u][j].files
  <2>1. said[u] \in Seq(SaidRows)
    BY <1>1
  <2>2. CASE u # t
    <3>1. said'[u] = said[u]
      BY <2>2, <1>1, <1>9
    <3> QED  BY <2>1, <3>1
  <2>3. CASE u = t
    <3>1. said'[t] = p
      BY <1>1, <1>9
    <3> QED  BY <2>1, <2>3, <3>1, <1>3, <1>4, <1>6, <1>8
  <2> QED  BY <2>2, <2>3
<1>12. AnswersNoticed' /\ MailsKeyed' /\ FilesKept'
  <2>1. AnswersNoticed'
    <3> SUFFICES ASSUME NEW u \in Tickets, NEW j \in DOMAIN said'[u], said'[u][j].from # "user"
                 PROVE  \E m \in mails' : m.ticket = u /\ m.to = "user" /\ m.about = j
      BY DEF AnswersNoticed
    <3>1. j \in DOMAIN said[u] /\ said[u][j].from # "user"
      BY <1>11
    <3> QED  BY <3>1, <1>1 DEF AnswersNoticed
  <2>2. MailsKeyed'
    BY <1>1 DEF MailsKeyed
  <2>3. FilesKept'
    BY <1>1, <1>11 DEF FilesKept
  <2> QED  BY <2>1, <2>2, <2>3
<1>13. EventsOnce'
  <2> SUFFICES ASSUME NEW u \in Tickets, NEW v \in Tickets,
                      NEW i \in DOMAIN said'[u], NEW j \in DOMAIN said'[v],
                      said'[u][i].event = said'[v][j].event, said'[u][i].event # Nobody
               PROVE  u = v /\ i = j
    BY DEF EventsOnce
  <2>1. /\ i \in DOMAIN said[u] /\ j \in DOMAIN said[v]
        /\ said[u][i].event = said[v][j].event /\ said[u][i].event # Nobody
    BY <1>11
  <2> QED  BY <2>1, <1>1 DEF EventsOnce
<1>14. TicketsHold'
  BY <1>1, <1>10, <1>12, <1>13 DEF TicketsHold
<1>15. \A u \in Tickets : Len(said[u]) <= Len(said'[u])
  BY <1>11
<1> QED  BY <1>1, <1>14, <1>15, TicketQuiet

\* Files are stored and dropped, accounts are suspended and restored
\* (uploads.remove, requireActiveUserTx), or nothing happens.
LEMMA Elsewhere ==
    ASSUME SupportInv,
           \/ \E f \in Files : UploadAttachment(f) \/ UploadDropped(f)
           \/ \E u \in Users : AccountSwitched(u)
           \/ UNCHANGED supportVars
    PROVE  SupportInv' /\ SupportStep
<1>1. /\ TicketsHold /\ AnswersNoticed /\ MailsKeyed /\ EventsOnce /\ FilesKept
      /\ ticket' = ticket /\ said' = said /\ mails' = mails
      /\ UNCHANGED <<supportQueue, supportWorker, discord>>
  BY DEF SupportInv, TicketsHold, UploadAttachment, UploadDropped, AccountSwitched, supportVars,
         desk
<1>2. FilesKept'
  <2>1. ASSUME NEW f \in Files, UploadAttachment(f) PROVE FilesKept'
    <3>1. /\ blobs' = blobs \cup {f} /\ held' = held \cup {f} /\ f \in Files
          /\ \A t \in Tickets : \A k \in DOMAIN said[t] : f \notin said[t][k].files
      BY <2>1 DEF UploadAttachment
    <3> QED  BY <1>1, <3>1 DEF FilesKept
  <2>2. ASSUME NEW f \in Files, UploadDropped(f) PROVE FilesKept'
    <3>1. f \in held /\ held' = held \ {f} /\ blobs' \in {blobs, blobs \ {f}}
      BY <2>2 DEF UploadDropped
    <3> QED  BY <1>1, <3>1 DEF FilesKept
  <2>3. CASE held' = held /\ blobs' = blobs
    BY <1>1, <2>3 DEF FilesKept
  <2> QED  BY <2>1, <2>2, <2>3 DEF AccountSwitched, supportVars, storage
<1>3. active' \subseteq Users
  <2>1. active \subseteq Users
    BY <1>1 DEF TicketsHold
  <2> QED  BY <2>1 DEF UploadAttachment, UploadDropped, AccountSwitched, supportVars, desk
<1>4. TicketsHold'
  <2>1. AnswersNoticed' /\ MailsKeyed' /\ EventsOnce'
    BY <1>1 DEF AnswersNoticed, MailsKeyed, EventsOnce
  <2> QED  BY <2>1, <1>1, <1>2, <1>3 DEF TicketsHold
<1>5. \A t \in Tickets : Len(said[t]) <= Len(said'[t])
  <2> SUFFICES ASSUME NEW t \in Tickets PROVE Len(said[t]) <= Len(said[t])
    BY <1>1
  <2>1. said[t] \in Seq(SaidRows)
    BY <1>1 DEF TicketsHold
  <2>2. Len(said[t]) \in Nat
    BY <2>1
  <2> QED  BY <2>2
<1> QED  BY <1>1, <1>4, <1>5, TicketQuiet

\* Every step of the tickets (SupportNext).
LEMMA SupportGoesOn ==
    ASSUME SlowPass = FALSE
    PROVE  SupportInv /\ [SupportNext]_supportVars => SupportInv' /\ SupportStep
<1> SUFFICES ASSUME SupportInv, [SupportNext]_supportVars PROVE SupportInv' /\ SupportStep
  OBVIOUS
<1>1. ASSUME NEW t \in Tickets, NEW u \in Users, CreateTicket(u, t) \/ AddUserMessage(u, t)
      PROVE  SupportInv' /\ SupportStep
  BY <1>1, Creating, Conversing
<1>2. ASSUME NEW t \in Tickets, NEW u \in Users, NEW status \in {"waiting_staff", "closed"},
             ChangeUserStatus(u, t, status)
      PROVE  SupportInv' /\ SupportStep
  <2>1. /\ status \in Status \ {"absent"} /\ FALSE \in BOOLEAN /\ SetTicketStatus(t, status, FALSE)
        /\ UNCHANGED <<active, storage, supportWorker, discord>>
    BY <1>2 DEF ChangeUserStatus, Status
  <2> QED  BY <2>1, Deciding
<1>3. ASSUME NEW t \in Tickets, NEW status \in Status \ {"absent"}, UpdateAdminTicket(t, status)
      PROVE  SupportInv' /\ SupportStep
  <2>1. /\ TRUE \in BOOLEAN /\ SetTicketStatus(t, status, TRUE)
        /\ UNCHANGED <<active, storage, supportWorker, discord>>
    BY <1>3 DEF UpdateAdminTicket
  <2> QED  BY <2>1, Deciding
<1>4. ASSUME NEW t \in Tickets,
             AddAdminMessage(t) \/ \E e \in Replies : DiscordWebhook(t, e) \/ EmailWebhook(t, e)
      PROVE  SupportInv' /\ SupportStep
  <2>1. ASSUME NEW e \in Replies, DiscordWebhook(t, e) PROVE SupportInv' /\ SupportStep
    <3>1. UNCHANGED <<active, sets, storage, supportWorker, discord, faults>>
      BY <2>1 DEF DiscordWebhook
    <3>2. CASE ApplyDiscordMessage(t, e)
      BY <3>1, <3>2, Conversing
    <3>3. ASSUME NEW status \in {"edited", "deleted"}, ChangeDiscordMessage(t, e, status)
          PROVE  SupportInv' /\ SupportStep
      <4>1. UNCHANGED <<active, storage, supportWorker, discord>>
        BY <3>1
      <4> QED  BY <4>1, <3>3, Editing
    <3> QED  BY <2>1, <3>2, <3>3 DEF DiscordWebhook
  <2> QED  BY <1>4, <2>1, Conversing
<1>5. ASSUME NEW w \in SupportWorkers, SupportPass(w) \/ SupportFaults(w)
      PROVE  SupportInv' /\ SupportStep
  <2>1. CASE \E t \in supportWorker[w].todo : DiscordSend(w, t) \/ DiscordSendFails(w, t)
    <3>1. PICK t \in supportWorker[w].todo, step \in {"sent", "failing"} : TicketReached(w, t, step)
      BY <2>1 DEF DiscordSend, DiscordSendFails, TicketReached, discord
    <3> QED  BY <3>1, TicketArrives
  <2>2. CASE MarkDiscordOutboxSent(w) \/ MarkDiscordOutboxFailed(w)
    <3>1. PICK t : t = supportWorker[w].item
      OBVIOUS
    <3>2. supportWorker[w].step # "next" /\ Discord!LeavesTask(w)
          /\ UNCHANGED <<said, mails, active, storage, channels, reached>>
      BY <2>2 DEF MarkDiscordOutboxSent, MarkDiscordOutboxFailed, Discord!MarkTaskSent,
                  Discord!MarkTaskFailed, desk, discord
    <3>3. Discord!TaskRow(t) \in Discord!OutboxRow
      <4>1. OutboxHolds(Tickets, TicketTasks, SupportWorkers, Nobody,
                        supportQueue, reached, supportWorker)
        BY DEF SupportInv, SupportOut
      <4>2. t \in supportWorker[w].todo
        BY <3>1, <3>2, <4>1 DEF OutboxHolds, PassHolds
      <4>3. WaitsFor(Tickets, TicketTasks, supportQueue, reached, t)
        BY <4>1, <4>2, HeldRow
      <4>4. supportQueue[t[1]][t[2]] \in TicketTasks
        BY <4>3 DEF WaitsFor
      <4> QED  BY <4>4 DEF TicketTasks, Discord!TaskRow
    <3>4. CASE MarkDiscordOutboxSent(w)
      <4>1. PICK r \in Discord!OutboxRow : /\ r = Discord!DoneRow(Discord!TaskRow(t))
                                           /\ r.status = "done"
        BY <3>3, SupportRows
      <4>2. /\ Discord!SetRow(t, r) /\ supportWorker[w].step = "sent" /\ r.status = "done"
            /\ ticket' = WithChannel(t[1], supportQueue[t[1]][t[2]].op)
        BY <3>1, <3>4, <4>1 DEF MarkDiscordOutboxSent, Discord!MarkTaskSent
      <4> QED  BY <3>1, <3>2, <4>2, TicketMarks
    <3>5. CASE MarkDiscordOutboxFailed(w)
      <4>1. PICK r \in Discord!OutboxRow : /\ r = Discord!FailedRow(Discord!TaskRow(t))
                                           /\ r.status \in {"failed", "abandoned"}
        BY <3>3, SupportRows
      <4>2. Discord!SetRow(t, r) /\ ticket' = ticket /\ r.status # "done"
        BY <3>1, <3>5, <4>1 DEF MarkDiscordOutboxFailed, Discord!MarkTaskFailed, desk
      <4> QED  BY <3>1, <3>2, <4>1, <4>2, TicketMarks
    <3> QED  BY <2>2, <3>4, <3>5
  <2> QED  BY <1>5, <2>1, <2>2, TicketClaims, TicketBreaks DEF SupportPass
<1> QED
  BY <1>1, <1>2, <1>3, <1>4, <1>5, Elsewhere, TicketWaits DEF SupportNext

\* The rows of a ticket are an ordered outbox, and what users, staff, the
\* platforms and the worker do together keeps SupportInv (DiscordSyncWorker.Run,
\* ClaimDiscordOutbox).
THEOREM TicketsKeepOrder ==
    ASSUME SlowPass = FALSE
    PROVE  SupportSpec => DiscordInOrder /\ []SupportInv
<1>1. SupportInit => SupportInv /\ TicketOutbox!Init
  BY SupportBegins
<1>2. SupportInv /\ [SupportNext]_supportVars => SupportInv' /\ SupportStep
  BY SupportGoesOn
<1> QED  BY <1>1, <1>2, PTL DEF SupportSpec, DiscordInOrder, TicketOutbox!Spec, SupportStep

\* The messages of a closed ticket stay (lockTicket and the checks behind it).
ClosedStands == \A t \in Tickets : ticket[t].status = "closed" => said'[t] = said[t]

LEMMA ClosedTicketsStand == SupportInv /\ [SupportNext]_supportVars => [ClosedStands]_supportVars
<1> SUFFICES ASSUME SupportInv, [SupportNext]_supportVars PROVE [ClosedStands]_supportVars
  OBVIOUS
<1>1. said \in [Tickets -> Seq(SaidRows)]
  BY DEF SupportInv, TicketsHold
<1>2. ASSUME NEW t \in Tickets, NEW q, ticket[t].status # "closed", said' = [said EXCEPT ![t] = q]
      PROVE  ClosedStands
  BY <1>1, <1>2 DEF ClosedStands
<1>3. ASSUME said' = said PROVE ClosedStands
  BY <1>3 DEF ClosedStands
<1>4. ASSUME NEW t \in Tickets, NEW from, NEW event, NEW F, ticket[t].status # "closed",
             InsertSupportMessage(t, from, event, F)
      PROVE  ClosedStands
  <2>1. PICK q : said' = [said EXCEPT ![t] = q]
    BY <1>4 DEF InsertSupportMessage
  <2> QED  BY <2>1, <1>2, <1>4
<1>5. ASSUME NEW t \in Tickets, NEW u \in Users, CreateTicket(u, t) \/ AddUserMessage(u, t)
      PROVE  ClosedStands
  <2>1. PICK F : InsertSupportMessage(t, "user", Nobody, F) /\ ticket[t].status # "closed"
    BY <1>5 DEF CreateTicket, AddUserMessage, CreateTicketWithAttachments, InsertTicket,
                AddUserMessageWithAttachments, InTalks
  <2> QED  BY <2>1, <1>4
<1>6. ASSUME NEW t \in Tickets, AddAdminMessage(t) PROVE ClosedStands
  <2>1. PICK F : InsertSupportMessage(t, "admin", Nobody, F) /\ ticket[t].status # "closed"
    BY <1>6 DEF AddAdminMessage, AddAdminMessageWithAttachments, InTalks
  <2> QED  BY <2>1, <1>4
<1>7. ASSUME NEW t \in Tickets, NEW e \in Replies, DiscordWebhook(t, e) \/ EmailWebhook(t, e)
      PROVE  ClosedStands
  <2>1. CASE ApplyDiscordMessage(t, e)
    BY <2>1, <1>4 DEF ApplyDiscordMessage, InTalks
  <2>2. CASE ApplyEmailMessage(t, e)
    BY <2>2, <1>4 DEF ApplyEmailMessage, InTalks
  <2>3. ASSUME NEW status, ChangeDiscordMessage(t, e, status) PROVE ClosedStands
    <3>1. ticket[t].status # "closed" /\ \E q : said' = [said EXCEPT ![t] = q]
      BY <2>3 DEF ChangeDiscordMessage, InTalks
    <3> QED  BY <3>1, <1>2
  <2> QED  BY <1>7, <2>1, <2>2, <2>3 DEF DiscordWebhook, EmailWebhook
<1>8. ASSUME NEW t \in Tickets, NEW status, NEW admin, SetTicketStatus(t, status, admin)
      PROVE  ClosedStands
  BY <1>8, <1>3 DEF SetTicketStatus
<1>9. ASSUME \/ \E f \in Files : UploadAttachment(f) \/ UploadDropped(f)
             \/ \E u \in Users : AccountSwitched(u)
             \/ \E w \in SupportWorkers : SupportPass(w) \/ SupportFaults(w)
             \/ \E t \in Discord!Tasks : SupportTime(t)
      PROVE  ClosedStands
  <2>1. said' = said
    BY <1>9 DEF UploadAttachment, UploadDropped, AccountSwitched, SupportPass, SupportFaults,
                SupportTime, ClaimDiscordOutbox, DiscordSend, DiscordSendFails,
                MarkDiscordOutboxSent, MarkDiscordOutboxFailed, desk
  <2> QED  BY <2>1, <1>3
<1> QED
  BY <1>5, <1>6, <1>7, <1>8, <1>9 DEF SupportNext, ChangeUserStatus, UpdateAdminTicket

\* What the invariant says of the tickets as they are seen.
LEMMA SupportInvAgrees ==
    SupportInv => SupportTypeOK /\ AnswersNoticed /\ AnswersOnce /\ ChannelFollowsTicket
                  /\ (LostCommits = FALSE => AttachmentsStored)
<1> SUFFICES ASSUME SupportInv
             PROVE  SupportTypeOK /\ AnswersNoticed /\ AnswersOnce /\ ChannelFollowsTicket
                    /\ (LostCommits = FALSE => AttachmentsStored)
  OBVIOUS
<1>1. OutboxHolds(Tickets, TicketTasks, SupportWorkers, Nobody, supportQueue, reached, supportWorker)
  BY DEF SupportInv, SupportOut
<1>2. ASSUME NEW t \in Tickets
      PROVE  /\ supportQueue[t] \in Seq(TicketTasks) /\ QueueHolds(supportQueue[t], reached[t])
             /\ TicketRowsTell(t) /\ ChannelTells(t)
             /\ Len(supportQueue[t]) \in Nat /\ DOMAIN supportQueue[t] = 1..Len(supportQueue[t])
             /\ said[t] \in Seq(SaidRows) /\ Len(said[t]) \in Nat
             /\ ticket[t] \in TicketRows /\ channels[t] \in Seq(ChannelRows)
  <2>1. supportQueue[t] \in Seq(TicketTasks) /\ said[t] \in Seq(SaidRows)
    BY <1>1 DEF OutboxHolds, SupportInv, TicketsHold
  <2>2. Len(said[t]) \in Nat
    BY <2>1
  <2> QED  BY <2>1, <2>2, <1>1, Domains DEF SupportInv, OutboxHolds, TicketsHold
<1>3. SupportTypeOK
  <2>1. ASSUME NEW t \in Tickets
        PROVE  /\ ticket[t].status \in Status
               /\ ticket[t].owner \in Users \cup {Nobody}
               /\ ticket[t].channel \in 0..Len(channels[t])
    BY <1>2 DEF TicketRows, ChannelTells
  <2>2. ASSUME NEW t \in Tickets, NEW k \in DOMAIN supportQueue[t]
        PROVE  /\ supportQueue[t][k].message \in 0..Len(said[t])
               /\ (supportQueue[t][k].message # 0) = (supportQueue[t][k].op = "create_message")
               /\ supportQueue[t][k].row \in Discord!OutboxRow
    <3>1. supportQueue[t][k] \in TicketTasks
      BY <1>2
    <3>2. /\ supportQueue[t][k].message <= Len(said[t])
          /\ supportQueue[t][k].message # 0 <=> supportQueue[t][k].op = "create_message"
      BY <1>2 DEF TicketRowsTell
    <3> QED  BY <3>1, <3>2, <1>2 DEF TicketTasks
  <2>3. Discord!WorkerTypeOK
    <3> SUFFICES ASSUME NEW w \in SupportWorkers
                 PROVE  /\ supportWorker[w].todo \subseteq Discord!Tasks
                        /\ supportWorker[w].step \in {"next", "sent", "failing"}
                        /\ supportWorker[w].item \in supportWorker[w].todo \cup {Nobody}
                        /\ (supportWorker[w].item = Nobody) = (supportWorker[w].step = "next")
      BY DEF Discord!WorkerTypeOK
    <3>1. /\ supportWorker[w] \in Passes(Tickets, Nobody)
          /\ PassHolds(supportQueue, reached, supportWorker[w], Nobody)
      BY <1>1 DEF OutboxHolds
    <3>2. ASSUME NEW t \in supportWorker[w].todo PROVE t \in Discord!Tasks
      <4>1. WaitsFor(Tickets, TicketTasks, supportQueue, reached, t)
        BY <1>1, HeldRow
      <4>2. t[1] \in Tickets /\ t = <<t[1], t[2]>> /\ t[2] \in DOMAIN supportQueue[t[1]]
        BY <4>1 DEF WaitsFor
      <4>3. DOMAIN supportQueue = Tickets
        BY <1>1 DEF OutboxHolds
      <4> QED  BY <4>2, <4>3 DEF Discord!Tasks
    <3>3. /\ supportWorker[w].step \in {"next", "sent", "failing"}
          /\ supportWorker[w].item \in supportWorker[w].todo \cup {Nobody}
          /\ supportWorker[w].item = Nobody <=> supportWorker[w].step = "next"
      BY <3>1 DEF Passes, PassHolds
    <3> QED  BY <3>2, <3>3
  <2>4. held \subseteq blobs
    BY DEF SupportInv, TicketsHold, FilesKept
  <2> QED  BY <2>1, <2>2, <2>3, <2>4 DEF SupportTypeOK
<1>4. AnswersNoticed /\ (LostCommits = FALSE => AttachmentsStored)
  BY DEF SupportInv, TicketsHold, FilesKept, AttachmentsStored
<1>5. AnswersOnce
  <2> SUFFICES ASSUME NEW e \in Replies, NEW S,
                      S = {x \in UNION {{t} \X DOMAIN said[t] : t \in Tickets} :
                              said[x[1]][x[2]].event = e}
               PROVE  Cardinality(S) <= 1
    BY DEF AnswersOnce
  <2>1. ASSUME NEW x \in S
        PROVE  /\ x[1] \in Tickets /\ x[2] \in DOMAIN said[x[1]] /\ x = <<x[1], x[2]>>
               /\ said[x[1]][x[2]].event = e
    <3>1. PICK t \in Tickets : x \in {t} \X DOMAIN said[t]
      OBVIOUS
    <3> QED  BY <3>1
  <2>2. e # Nobody /\ EventsOnce
    BY SupportAssumption DEF SupportInv, TicketsHold
  <2>3. ASSUME NEW x \in S, NEW y \in S PROVE x = y
    <3>1. x[1] = y[1] /\ x[2] = y[2]
      BY <2>1, <2>2 DEF EventsOnce
    <3> QED  BY <3>1, <2>1
  <2>4. CASE S = {}
    BY <2>4, FS_EmptySet
  <2>5. CASE S # {}
    <3>1. PICK x \in S : TRUE
      BY <2>5
    <3>2. S = {x}
      BY <2>3, <3>1
    <3>3. Cardinality(S) = 1
      BY ONLY <3>2, FS_Singleton
    <3> QED  BY ONLY <3>3
  <2> QED  BY <2>4, <2>5
<1>6. ChannelFollowsTicket
  <2> SUFFICES ASSUME NEW t \in Tickets, supportQueue[t] # <<>>,
                      \A k \in DOMAIN supportQueue[t] : supportQueue[t][k].row.status = "done"
               PROVE  /\ ticket[t].channel # 0
                      /\ channels[t][ticket[t].channel].archived = (ticket[t].status = "closed")
                      /\ \A k \in DOMAIN supportQueue[t] :
                            supportQueue[t][k].message
                                \in channels[t][ticket[t].channel].posts \cup {0}
    BY DEF ChannelFollowsTicket
  <2>1. PICK n \in Nat : /\ n = Len(supportQueue[t]) /\ n # 0 /\ n \in DOMAIN supportQueue[t]
                         /\ DOMAIN supportQueue[t] = 1..n /\ 1 \in 1..n
    BY <1>2
  <2>2. reached[t] = n
    BY <2>1, <1>2 DEF QueueHolds
  <2>3. ticket[t].channel # 0 /\ ticket[t].channel \in 0..Len(channels[t])
        /\ Shows(channels[t][ticket[t].channel], supportQueue[t], n)
    <3>1. CASE n = 1
      <4>1. channels[t] # <<>> => Len(channels[t]) # 0
        BY <1>2
      <4> QED  BY <3>1, <4>1, <2>1, <2>2, <1>2 DEF ChannelTells
    <3>2. CASE n # 1
      BY <3>2, <2>1, <2>2, <1>2 DEF ChannelTells
    <3> QED  BY <3>1, <3>2
  <2>4. PICK c : c = channels[t][ticket[t].channel]
    OBVIOUS
  <2>5. c \in ChannelRows
    <3>1. ticket[t].channel \in 1..Len(channels[t]) /\ channels[t] \in Seq(ChannelRows)
      BY <2>3, <1>2
    <3> QED  BY <3>1, <2>4
  <2>6. c.archived \in BOOLEAN /\ (c.archived = TRUE <=> ticket[t].status = "closed")
    BY <2>1, <2>3, <2>4, <2>5, <1>2 DEF ChannelRows, Shows, TicketRowsTell
  <2>7. c.archived = (ticket[t].status = "closed")
    BY ONLY <2>6
  <2> QED  BY <2>1, <2>3, <2>4, <2>7 DEF Shows
<1> QED  BY <1>3, <1>4, <1>5, <1>6

\* A ticket, its notices, its files and its channel agree, a closed ticket is
\* history, and Discord hears in order (ApplyDiscordMessage, enqueueUserNoticeTx, uploads.remove,
\* lockTicket, ClaimDiscordOutbox).
THEOREM TicketsStayInAgreement ==
    ASSUME SlowPass = FALSE, LostCommits = FALSE
    PROVE  SupportSpec => TicketsAgree
<1>1. SupportSpec => DiscordInOrder /\ []SupportInv
  BY TicketsKeepOrder
<1>2. SupportInv => SupportTypeOK /\ AnswersNoticed /\ AnswersOnce
                    /\ AttachmentsStored /\ ChannelFollowsTicket
  BY SupportInvAgrees
<1>3. SupportInv /\ [SupportNext]_supportVars => [ClosedStands]_supportVars
  BY ClosedTicketsStand
<1> QED  BY <1>1, <1>2, <1>3, PTL DEF SupportSpec, TicketsAgree, ClosedIsHistory, ClosedStands
=============================================================================

----------------------------- MODULE RateLimits -----------------------------
(***************************************************************************)
(* The two layers of rate limits (internal/security): every replica of the *)
(* API counts in memory, and what it lets through is counted once more in  *)
(* a store the replicas share, Redis or a table.  A call reads the clock   *)
(* before it takes the lock of the first layer, and before the shared      *)
(* store sees it.                                                          *)
(***************************************************************************)
EXTENDS Integers, FiniteSets

CONSTANTS Replicas,     \* API processes
          LimitKeys,    \* what is counted: an address, an account
          LimitCalls,   \* calls at one time
          Limit,        \* hits a window allows
          Window,       \* its length
          MaxKeys,      \* keys a replica remembers
          MaxTime,      \* bound: the clock
          MaxAsked,     \* bound: calls altogether
          Shared        \* the second layer, beside the replicas

ASSUME LimitsAssumption ==
    /\ Limit \in Nat \ {0} /\ Window \in Nat \ {0} /\ MaxKeys \in Nat \ {0}
    /\ MaxTime \in Nat /\ MaxAsked \in Nat
    /\ Shared \notin Replicas
    /\ LimitKeys # {}

VARIABLES store,        \* what the replicas share: "redis", "postgres" or "none"
          clock,
          windows,      \* windows[r][k]: FixedWindowLimiter.entries
          bucket,       \* bucket[k]: the counter in the shared store
          limited,      \* limited[c]: the call in progress
          hits,         \* hits[layer][k][t]: what a layer allowed at time t
          asked         \* how many calls there were

limitVars == <<store, clock, windows, bucket, limited, hits, asked>>

Instants == 0..MaxTime

NoWindow == [started |-> 0, count |-> 0, expires |-> 0]

Fresh(at) == [started |-> at, count |-> 1, expires |-> at + Window]

NotLimited ==
    [pc |-> "idle", replica |-> Shared, key |-> CHOOSE k \in LimitKeys : TRUE, at |-> 0]

WindowRow == [started : Instants, count : 0..MaxAsked, expires : 0..(MaxTime + Window)]

LimitsTypeOK ==
    /\ store \in {"redis", "postgres", "none"}
    /\ clock \in Instants
    /\ windows \in [Replicas -> [LimitKeys -> WindowRow]]
    /\ bucket \in [LimitKeys -> WindowRow]
    /\ limited \in [LimitCalls -> [pc : {"idle", "local", "shared"},
                                   replica : Replicas \cup {Shared},
                                   key : LimitKeys, at : Instants]]
    /\ hits \in [Replicas \cup {Shared} -> [LimitKeys -> [Instants -> 0..MaxAsked]]]
    /\ asked \in 0..MaxAsked
    /\ \A r \in Replicas :
          Cardinality({k \in LimitKeys : windows[r][k].count > 0}) <= MaxKeys

LimitsInit ==
    /\ store \in {"redis", "postgres", "none"}
    /\ clock = 0
    /\ windows = [r \in Replicas |-> [k \in LimitKeys |-> NoWindow]]
    /\ bucket = [k \in LimitKeys |-> NoWindow]
    /\ limited = [c \in LimitCalls |-> NotLimited]
    /\ hits = [l \in Replicas \cup {Shared} |-> [k \in LimitKeys |-> [t \in Instants |-> 0]]]
    /\ asked = 0

(* The calls allowed at the times of "span", where counts[t] were allowed  *)
(* at time t.                                                              *)
AllowedIn(counts, span) ==
    {h \in (Instants \cap span) \X (1..MaxAsked) : h[2] <= counts[h[1]]}

(* How many a layer allowed for k within a window's length from t on. *)
Within(layer, k, t) == Cardinality(AllowedIn(hits[layer][k], t..(t + Window - 1)))
-----------------------------------------------------------------------------
(* A faulty variant of Incremented: the counters stop at the limit.        *)
IncrementedToLimit(row) ==
    IF row.count = 0 \/ row.expires <= clock THEN Fresh(clock)
    ELSE IF row.count < Limit THEN [row EXCEPT !.count = @ + 1] ELSE row
-----------------------------------------------------------------------------
(* A call reads the clock, then waits for the lock. *)
ReadClock(c, r, k) ==
    /\ limited[c].pc = "idle" /\ asked < MaxAsked
    /\ asked' = asked + 1
    /\ limited' = [limited EXCEPT ![c] =
                      [pc |-> "local", replica |-> r, key |-> k, at |-> clock]]
    /\ UNCHANGED <<store, clock, windows, bucket, hits>>

Allowed(layer, k) == hits' = [hits EXCEPT ![layer][k][clock] = @ + 1]

(* evictOldest makes room for a key that has no entry. *)
Evicted(entries, k) ==
    LET known == {e \in LimitKeys : entries[e].count > 0}
    IN  IF k \in known \/ Cardinality(known) < MaxKeys THEN {entries}
        ELSE {[entries EXCEPT ![e] = NoWindow] :
                 e \in {o \in known : \A n \in known : entries[o].started <= entries[n].started}}

(* FixedWindowLimiter.Take: a window that is over, or that began after the *)
(* call read the clock, is replaced.  A caller of the shared store either  *)
(* hands the same time on or reads the clock again.                        *)
StartsAnew(row, at) == row.count = 0 \/ at >= row.expires \/ at < row.started

LocallyFull(row, at) == ~StartsAnew(row, at) /\ row.count >= Limit

Answered(c) == limited' = [limited EXCEPT ![c] = NotLimited]

Take(c, reread) ==
    LET call == limited[c]
        row == windows[call.replica][call.key]
    IN  /\ call.pc = "local" /\ ~LocallyFull(row, call.at)
        /\ IF StartsAnew(row, call.at)
           THEN \E entries \in Evicted(windows[call.replica], call.key) :
                    windows' = [windows EXCEPT ![call.replica] =
                                   [entries EXCEPT ![call.key] = Fresh(call.at)]]
           ELSE windows' = [windows EXCEPT ![call.replica][call.key].count = @ + 1]
        /\ Allowed(call.replica, call.key)
        /\ IF store = "none" THEN ~reread /\ Answered(c)
           ELSE limited' = [limited EXCEPT ![c].pc = "shared",
                                           ![c].at = IF reread THEN clock ELSE @]
        /\ UNCHANGED <<store, clock, bucket, asked>>

TakeRefused(c) ==
    LET call == limited[c]
    IN  /\ call.pc = "local"
        /\ LocallyFull(windows[call.replica][call.key], call.at)
        /\ Answered(c)
        /\ UNCHANGED <<store, clock, windows, bucket, hits, asked>>

(* The script of RedisFixedWindowLimiter, on the clock of Redis. *)
Incremented(row) ==
    IF row.count = 0 \/ row.expires <= clock THEN Fresh(clock)
    ELSE [row EXCEPT !.count = @ + 1]

(* The upsert of PostgresFixedWindowLimiter, on the clock of the caller:   *)
(* the count stops at the limit.                                           *)
Upserted(row, at) ==
    IF StartsAnew(row, at) THEN Fresh(at)
    ELSE IF row.count < Limit THEN [row EXCEPT !.count = @ + 1] ELSE row

(* Both answer whether the count they wrote is within the limit. *)
WithinLimit(row) == row.count <= Limit

AllowShared(c) ==
    LET call == limited[c]
        row == IF store = "redis" THEN Incremented(bucket[call.key])
               ELSE Upserted(bucket[call.key], call.at)
    IN  /\ call.pc = "shared"
        /\ bucket' = [bucket EXCEPT ![call.key] = row]
        /\ IF WithinLimit(row) THEN Allowed(Shared, call.key) ELSE UNCHANGED hits
        /\ Answered(c)
        /\ UNCHANGED <<store, clock, windows, asked>>

(* The store cannot be reached: the call is refused. *)
SharedFails(c) ==
    /\ limited[c].pc = "shared" /\ Answered(c)
    /\ UNCHANGED <<store, clock, windows, bucket, hits, asked>>

(* A replica restarts and remembers nothing. *)
RestartReplica(r) ==
    /\ windows' = [windows EXCEPT ![r] = [k \in LimitKeys |-> NoWindow]]
    /\ limited' = [c \in LimitCalls |-> IF limited[c].replica = r THEN NotLimited ELSE limited[c]]
    /\ UNCHANGED <<store, clock, bucket, hits, asked>>

ClockTicks ==
    /\ clock < MaxTime /\ clock' = clock + 1
    /\ UNCHANGED <<store, windows, bucket, limited, hits, asked>>

LimitsNext ==
    \/ \E c \in LimitCalls :
          \/ \E r \in Replicas, k \in LimitKeys : ReadClock(c, r, k)
          \/ \E reread \in BOOLEAN : Take(c, reread)
          \/ TakeRefused(c) \/ AllowShared(c) \/ SharedFails(c)
    \/ \E r \in Replicas : RestartReplica(r)
    \/ ClockTicks

LimitsSpec == LimitsInit /\ [][LimitsNext]_limitVars
-----------------------------------------------------------------------------
(***************************************************************************)
(* Properties                                                              *)
(***************************************************************************)

(* However the replicas' calls overlap, are late or are lost, Redis lets   *)
(* no key have more in any span of a window's length than two windows that *)
(* touch allow (RedisFixedWindowLimiter.Allow).                            *)
RedisLimits ==
    store = "redis" => \A k \in LimitKeys, t \in Instants : Within(Shared, k, t) <= 2 * Limit

(* "cross-replica atomic counting in PostgreSQL" (docs/rate-limiting.md):  *)
(* the same of the table.  The code breaks it, as the count it compares    *)
(* with the limit is the one it capped (PostgresFixedWindowLimiter.Allow). *)
PostgresLimits ==
    store = "postgres" =>
        \A k \in LimitKeys, t \in Instants : Within(Shared, k, t) <= 2 * Limit

(* No layer refuses a call unless it allowed the limit for the same key    *)
(* within a window before the call: neither refused calls nor calls that   *)
(* read the clock in another order than they are counted in use the limit  *)
(* up (FixedWindowLimiter.Take, both Allow).                               *)
RefusedWhenFull ==
    [][\A c \in LimitCalls :
          LET call == limited[c]
              layer == IF call.pc = "local" THEN call.replica ELSE Shared
              before == {t \in Instants : call.at - Window < t /\ t <= clock}
              refused == \/ TakeRefused(c)
                         \/ bucket' # bucket /\ call.pc = "shared" /\ hits' = hits
                            /\ limited'[c].pc = "idle"
          IN  refused => Cardinality(AllowedIn(hits[layer][call.key], before)) >= Limit
      ]_limitVars

(* Redis holds every key to its limit, and no layer refuses a key that did *)
(* not use its limit (RedisFixedWindowLimiter.Allow, FixedWindowLimiter).  *)
LimitsHold == [](LimitsTypeOK /\ RedisLimits) /\ RefusedWhenFull
=============================================================================

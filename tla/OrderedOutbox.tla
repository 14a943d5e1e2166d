---------------------------- MODULE OrderedOutbox ----------------------------
(***************************************************************************)
(* What a durable outbox promises for each subject, whatever its rows look *)
(* like: the operations of a subject reach the other side in the order in  *)
(* which they were posted, each at least once, until the outbox gives the  *)
(* subject up.                                                             *)
(***************************************************************************)
EXTENDS Naturals

CONSTANT Subjects

VARIABLES posted,       \* posted[s]: operations posted for s
          latest,       \* latest[s]: the operation of s that arrived last
          givenUp       \* the subjects that were given up

vars == <<posted, latest, givenUp>>

Init ==
    /\ posted = [s \in Subjects |-> 0]
    /\ latest = [s \in Subjects |-> 0]
    /\ givenUp = {}

(* A transaction posts to any subjects: a message goes to all platforms.   *)
PostAll(S) ==
    /\ posted' = [s \in Subjects |-> IF s \in S THEN posted[s] + 1 ELSE posted[s]]
    /\ UNCHANGED <<latest, givenUp>>

(* The next operation arrives; arriving again is a stuttering step. *)
Arrive(s) ==
    /\ s \notin givenUp
    /\ latest[s] < posted[s]
    /\ latest' = [latest EXCEPT ![s] = @ + 1]
    /\ UNCHANGED <<posted, givenUp>>

GiveUp(s) ==
    /\ latest[s] <= posted[s]
    /\ givenUp' = givenUp \cup {s}
    /\ UNCHANGED <<posted, latest>>

Next ==
    \/ \E s \in Subjects : Arrive(s) \/ GiveUp(s)
    \/ \E S \in SUBSET Subjects : PostAll(S)

Spec == Init /\ [][Next]_vars
=============================================================================

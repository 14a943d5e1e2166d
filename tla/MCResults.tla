------------------------------ MODULE MCResults ------------------------------
(***************************************************************************)
(* Two small instances of OfficialResults in one run.  In the scenario     *)
(* "lists" one applicant meets two lists that are published one after the  *)
(* other; in "matching" two applicants set and swap their numbers around   *)
(* one list: b1, or b2, to which extractions add rows late.                *)
(***************************************************************************)
EXTENDS OfficialResults, TLC

VARIABLE scenario   \* chosen at the start

OneApplicant == Cardinality({a \in Apps : changes[a] > 0}) <= 1

OneList == Cardinality({b \in Batches : batch[b] # "absent"}) <= 1

MCInit == Init /\ scenario \in {"lists", "matching"}

MCNext ==
    /\ UNCHANGED scenario
    /\ \/ scenario = "lists" /\ PeopleNext /\ OneApplicant'
       \/ scenario = "matching" /\ Next /\ OneList'

MCSpec == MCInit /\ [][MCNext]_<<vars, scenario>>

Symmetry == Permutations(Numbers) \cup Permutations(Apps)
=============================================================================

------------------------ MODULE MCBrochureDiscovery ------------------------
(***************************************************************************)
(* The discovery of brochures (BrochureDiscovery), and what becomes of the *)
(* documents it hands on (DocumentRuns), explored one at a time.           *)
(***************************************************************************)
EXTENDS BrochureDiscovery, DocumentRuns, TLC

VARIABLE scope          \* what is explored

Symmetry == Permutations(Agents)

MCInit ==
    /\ scope \in {"discovery", "documents"} /\ Init /\ RunsInit
    /\ scope = "discovery" => transport = "http"

MCNext ==
    /\ UNCHANGED scope
    /\ \/ scope = "discovery" /\ Next /\ UNCHANGED runVars
       \/ scope = "documents" /\ RunsNext /\ UNCHANGED vars

MCSpec == MCInit /\ [][MCNext]_<<vars, runVars, scope>>
=============================================================================

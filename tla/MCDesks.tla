------------------------------- MODULE MCDesks -------------------------------
(***************************************************************************)
(* What staff answer in Discord, one part at a time: the mail routes, the  *)
(* cases of the mail desk, and the replies written in their threads.       *)
(***************************************************************************)
EXTENDS MailRoutes, ReplyDrafts, TLC

VARIABLE scope          \* the part that is explored

(* Under the replies, threads are there already, of a report and another   *)
(* case; their links are there or missing, or that of the report under way. *)
MCOpened(owner, about) ==
    /\ threads = [t \in ThreadIds |-> [about |-> about[t], shows |-> {}]]
    /\ \E kind \in [CaseIds -> Kinds], linked \in SUBSET CaseIds, c \in Intakes :
           /\ \A i \in CaseIds : i \notin linked => kind[i] # "application"
           /\ \E i \in CaseIds : kind[i] = "report"
           /\ \A i, j \in CaseIds : kind[i] = kind[j] => i = j
           /\ cases = [i \in CaseIds |->
                  [NoRowYet EXCEPT !.kind = kind[i], !.from = owner[i],
                      !.thread = IF i \notin linked THEN NoThread
                                 ELSE CHOOSE t \in ThreadIds : about[t] = i]]
           /\ \E late \in {IntakeIdle} \cup
                  {[step |-> "linkReport", case |-> i, mail |-> m, from |-> owner[i],
                    thread |-> CHOOSE t \in ThreadIds : about[t] = i] :
                      i \in {x \in CaseIds \ linked : kind[x] = "report"}, m \in MailIds} :
                  intakes = [x \in Intakes |-> IF x = c THEN late ELSE IntakeIdle]
    /\ objects = {} /\ mailed = {} /\ unposted = {}

MCInit ==
    /\ scope \in {"routes", "desk", "replies"}
    /\ RoutesInit /\ DraftsInit
    /\ IF scope = "replies"
       THEN \E owner \in [CaseIds -> People], about \in [ThreadIds -> CaseIds] :
                /\ \A i, j \in CaseIds : owner[i] = owner[j] => i = j
                /\ \A t, u \in ThreadIds : about[t] = about[u] => t = u
                /\ MCOpened(owner, about)
       ELSE DeskInit

MCLateLinks == \E c \in Intakes : SetContributionDiscordThread(c)

(* Drafts of different threads have nothing in common.                     *)
MCOneThread ==
    \A d, e \in DraftIds :
        drafts'[e].thread \in {NoThread, drafts'[d].thread} \/ drafts'[d].thread = NoThread

MCNext ==
    /\ \/ /\ scope = "routes" /\ RoutesNext
          /\ UNCHANGED replyVars
       \/ /\ scope = "desk" /\ Desk
          /\ UNCHANGED <<routeVars, draftVars>>
       \/ /\ scope = "replies" /\ ReplySteps /\ MCOneThread
          /\ UNCHANGED routeVars
       \/ /\ scope = "replies" /\ MCLateLinks
          /\ UNCHANGED <<routeVars, draftVars>>
    /\ UNCHANGED scope

MCSpec == MCInit /\ [][MCNext]_<<routeVars, replyVars, scope>>

RoutesOnly == MCSpec /\ scope = "routes"
DeskOnly == MCSpec /\ scope = "desk"
RepliesOnly == MCSpec /\ scope = "replies"

(* Identifiers stand for nothing but themselves.  Those of different tables *)
(* are never compared: the configuration gives them the same three sets,   *)
(* and TLC eight permutations.                                             *)
MCSymmetry ==
    Permutations(Pressers) \cup Permutations(DraftIds) \cup Permutations(CaseIds)
==============================================================================

----------------------------- MODULE MCOutboxes -----------------------------
(***************************************************************************)
(* The two outboxes whose rows belong to subjects, one at a time: the chat *)
(* and the support tickets do not share state.  The limits on how often    *)
(* somebody may write to either are explored on their own; the table that  *)
(* counts where there is no Redis is left to MCSharedLimit.cfg.            *)
(***************************************************************************)
EXTENDS ChatSync, SupportTickets, RateLimits

VARIABLE scope          \* the component that is explored

CONSTANTS api1, api2,   \* the replicas
          rare          \* a key that is asked for once, at the start

MCOrigin == [e \in Events |-> "discord"]

MCVia == [e \in Replies |-> e]

MCInit ==
    /\ ChatInit
    /\ SupportInit
    /\ LimitsInit
    /\ scope \in {"chat", "support", "limits"}
    /\ IF scope = "limits" THEN store # "postgres" ELSE store = "none"

(* The rare key is what the first call asks for, if anybody does, and the  *)
(* replica that restarts is the other one.                                 *)
MCLimits ==
    /\ \A c \in LimitCalls : limited'[c].key = rare /\ limited'[c].pc = "local" =>
                                limited'[c].replica = api1 /\ asked' = 1
    /\ windows'[api1] = [k \in LimitKeys |-> NoWindow] => windows'[api1] = windows[api1]

MCNext ==
    /\ \/ scope = "chat" /\ ChatNext /\ UNCHANGED <<supportVars, limitVars>>
       \/ scope = "support" /\ SupportNext /\ UNCHANGED <<chatVars, limitVars>>
       \/ /\ scope = "limits" /\ LimitsNext /\ MCLimits
          /\ UNCHANGED <<chatVars, supportVars>>
    /\ UNCHANGED scope

MCSpec == MCInit /\ [][MCNext]_<<chatVars, supportVars, limitVars, scope>>

(* A component that is not explored has nothing queued, and its fairness   *)
(* asks nothing.                                                           *)

ChatOnly == MCSpec /\ scope = "chat"

SupportOnly == MCSpec /\ scope = "support"

FairSupportOnly == SupportOnly /\ SupportFairness
=============================================================================

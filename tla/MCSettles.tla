------------------------------ MODULE MCSettles ------------------------------
(***************************************************************************)
(* What must end: the extraction of an upload, the search for a brochure,  *)
(* the outboxes of the chat and of the support tickets, and the streams of *)
(* live events, explored one at a time.  The five share no state; one that *)
(* is not explored has nothing queued, so its fairness asks nothing.       *)
(***************************************************************************)
EXTENDS ChatSync, SupportTickets, LiveEvents, TLC

CONSTANTS
    Jobs, Clients, JobWorkers, NamedByHash, MaxRequeues,
    Years, Schools, Agents, Found, Uploads, MaxClaims, Slow, ReadBack,
    quick, slow         \* a stream that reads, and one that does not

VARIABLES
    scope,          \* the component that is explored
    job, upload, blob, intake, jobWorker, jobCall, published, requeues,
    cycle, task, doc, object, agent, agentCall

Intake == INSTANCE UploadIntake
    WITH Workers <- JobWorkers, worker <- jobWorker, call <- jobCall

Discovery == INSTANCE BrochureDiscovery WITH call <- agentCall

intakeVars == <<job, upload, blob, intake, jobWorker, jobCall, published, requeues>>
discoveryVars == <<cycle, task, doc, object, agent, agentCall>>

MCOrigin == [e \in Events |-> "discord"]

MCVia == [e \in Replies |-> e]

MCTopics == (quick :> {"notices"}) @@ (slow :> {"notices", "lounge"})

MCTopicOf == <<"notices", "notices", "notices">>

(* The slow stream is opened first and stays until the process stops;      *)
(* events are published while it is open, and the connection is lost after *)
(* the first of them.                                                      *)
MCLive ==
    /\ sent' # sent => channel[slow].open
    /\ stream[slow] = "none" => stream'[quick] = "none"
    /\ stream'[slow] # stream[slow] => sent = 0 \/ hub.pc = "stopped"
    /\ drops' # drops => sent = 1

(* Where live events are not explored, the hub has stopped before anybody  *)
(* subscribed.                                                             *)
MCInit ==
    /\ scope \in {"intake", "discovery", "chat", "support", "live"}
    /\ Intake!Init /\ Discovery!Init /\ ChatInit /\ SupportInit
    /\ LiveStart(IF scope = "live" THEN "off" ELSE "stopped")

MCNext ==
    /\ \/ /\ scope = "intake" /\ Intake!Next
          /\ UNCHANGED <<discoveryVars, chatVars, supportVars, liveVars>>
       \/ /\ scope = "discovery" /\ Discovery!Next
          /\ UNCHANGED <<intakeVars, chatVars, supportVars, liveVars>>
       \/ /\ scope = "chat" /\ ChatNext
          /\ UNCHANGED <<intakeVars, discoveryVars, supportVars, liveVars>>
       \/ /\ scope = "support" /\ SupportNext
          /\ UNCHANGED <<intakeVars, discoveryVars, chatVars, liveVars>>
       \/ /\ scope = "live" /\ LiveNext /\ MCLive
          /\ UNCHANGED <<intakeVars, discoveryVars, chatVars, supportVars>>
    /\ UNCHANGED scope

MCSpec ==
    /\ MCInit
    /\ [][MCNext]_<<intakeVars, discoveryVars, chatVars, supportVars, liveVars, scope>>
    /\ Intake!Fairness /\ Discovery!Fairness /\ ChatFairness /\ SupportFairness
    /\ LiveFairness
-----------------------------------------------------------------------------
(* Every queued job succeeds, fails, or is left with its attempts used up, *)
(* its file is kept until then, and a search that lost its agent is leased *)
(* again (ClaimNextJob, claimNext).                                        *)
ExtractionsSettle == []Intake!FileKept /\ Intake!JobsSettle /\ Discovery!NoTaskStranded

(* Both outboxes are emptied or give up, every ticket gets its channel or  *)
(* gives up, and a stream that reads is not held up by one that does not   *)
(* (SyncWorker.Run, DiscordSyncWorker.Run, Hub.deliver).                   *)
QueuesSettle == ChatSettles /\ SupportSettles /\ TicketsGetChannel /\ ReadersHear
==============================================================================

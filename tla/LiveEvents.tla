----------------------------- MODULE LiveEvents -----------------------------
(***************************************************************************)
(* The fan-out of live events in one API process (internal/events, and the *)
(* streams of internal/sse): one connection listens, deliver hands a       *)
(* notification to every subscriber of its topic without waiting for a     *)
(* slow one, and a subscriber is removed under the lock and closed after.  *)
(*                                                                         *)
(* Events are the numbers of their commits, whichever process published    *)
(* them.  A subscription is opened once.  The calendar's, in cmd/api, is a *)
(* stream whose client does not leave.                                     *)
(***************************************************************************)
EXTENDS Naturals, Sequences, FiniteSets

CONSTANTS Subscribers,  \* streams
          Topics,       \* Topics[s]: what s subscribes to
          TopicOf,      \* TopicOf[e]: what event e is about, for e \in 1..Len(TopicOf)
          Room,         \* events a channel holds: 32 in the code
          Readers,      \* the subscribers that read what they get
          MaxDrops      \* bound: how often the connection is lost

ASSUME LiveAssumption ==
    /\ Room \in Nat \ {0} /\ MaxDrops \in Nat /\ Len(TopicOf) \in Nat
    /\ Readers \subseteq Subscribers

VARIABLES sent,         \* how many events were published
          hub,          \* the listener: where it stands, what it delivers and to whom yet
          wire,         \* notifications its connection has not delivered
          subs,         \* Hub.subs
          stream,       \* stream[s]: where s stands
          channel,      \* channel[s]: its channel
          drops         \* how often the connection was lost

liveVars == <<sent, hub, wire, subs, stream, channel, drops>>

EventIds == 1..Len(TopicOf)

Unopened == [open |-> FALSE, items |-> <<>>]

Listening == {"waiting", "delivering"}

LiveTypeOK ==
    /\ sent \in 0..Len(TopicOf)
    /\ hub \in [pc : {"off", "waiting", "delivering", "stopping", "stopped"},
                event : EventIds \cup {0}, rest : SUBSET Subscribers]
    /\ wire \in Seq(EventIds)
    /\ subs \subseteq Subscribers
    /\ stream \in [Subscribers -> {"none", "live", "left", "removed", "over"}]
    /\ \A s \in Subscribers : channel[s].open \in BOOLEAN /\ Len(channel[s].items) <= Room
    /\ drops \in 0..MaxDrops

LiveStart(pc) ==
    /\ sent = 0
    /\ hub = [pc |-> pc, event |-> 0, rest |-> {}]
    /\ wire = <<>>
    /\ subs = {}
    /\ stream = [s \in Subscribers |-> "none"]
    /\ channel = [s \in Subscribers |-> Unopened]
    /\ drops = 0

LiveInit == LiveStart("off")

-----------------------------------------------------------------------------
(* Faulty variants: of GoesOn, a delivery waits for room; of Unlocked,     *)
(* nobody waits for a delivery to end.                                     *)
WaitsForRoom(s) == Len(channel[s].items) < Room

UnlockedAlways == TRUE
-----------------------------------------------------------------------------
(* deliver holds the lock for reading until it went through the map. *)
Unlocked == hub.pc # "delivering"

(* Publish: a notification reaches the connection if it listens. *)
Publish ==
    /\ sent < Len(TopicOf)
    /\ sent' = sent + 1
    /\ wire' = IF hub.pc \in Listening THEN Append(wire, sent + 1) ELSE wire
    /\ UNCHANGED <<hub, subs, stream, channel, drops>>

(* listenOnce takes a connection and listens, until it is lost. *)
Listen ==
    /\ hub.pc = "off"
    /\ hub' = [hub EXCEPT !.pc = "waiting"]
    /\ UNCHANGED <<sent, wire, subs, stream, channel, drops>>

ConnectionLost ==
    /\ hub.pc = "waiting" /\ drops < MaxDrops
    /\ drops' = drops + 1
    /\ hub' = [hub EXCEPT !.pc = "off"]
    /\ wire' = <<>>
    /\ UNCHANGED <<sent, subs, stream, channel>>

WaitForNotification ==
    /\ hub.pc = "waiting" /\ wire # <<>>
    /\ wire' = Tail(wire)
    /\ hub' = [pc |-> "delivering", event |-> Head(wire),
               rest |-> {s \in subs : TopicOf[Head(wire)] \in Topics[s]}]
    /\ UNCHANGED <<sent, subs, stream, channel, drops>>

(* One turn of the loop of deliver: it waits for nobody, and sending on a  *)
(* closed channel would end the process.                                   *)
Fits(s) == Len(channel[s].items) < Room

GoesOn(s) == TRUE

DeliverTo(s) ==
    /\ hub.pc = "delivering" /\ s \in hub.rest
    /\ channel[s].open /\ GoesOn(s)
    /\ channel' = IF Fits(s) THEN [channel EXCEPT ![s].items = Append(@, hub.event)]
                  ELSE channel
    /\ hub' = [hub EXCEPT !.rest = @ \ {s}]
    /\ UNCHANGED <<sent, wire, subs, stream, drops>>

DeliverEnds ==
    /\ hub.pc = "delivering" /\ hub.rest = {}
    /\ hub' = [hub EXCEPT !.pc = "waiting", !.event = 0]
    /\ UNCHANGED <<sent, wire, subs, stream, channel, drops>>

(* The process is told to stop: listenLoop ends, then closeAll. *)
Stop ==
    /\ hub.pc \in {"off", "waiting"}
    /\ hub' = [hub EXCEPT !.pc = "stopping"]
    /\ wire' = <<>>
    /\ UNCHANGED <<sent, subs, stream, channel, drops>>

closeAll ==
    /\ hub.pc = "stopping"
    /\ hub' = [hub EXCEPT !.pc = "stopped"]
    /\ channel' = [s \in Subscribers |->
                      IF s \in subs THEN [channel[s] EXCEPT !.open = FALSE] ELSE channel[s]]
    /\ subs' = {}
    /\ UNCHANGED <<sent, wire, stream, drops>>
-----------------------------------------------------------------------------
(* Subscribe returns a closed channel when the hub has stopped. *)
Taken == hub.pc # "stopped"

Subscribe(s) ==
    /\ stream[s] = "none" /\ Unlocked
    /\ stream' = [stream EXCEPT ![s] = "live"]
    /\ channel' = [channel EXCEPT ![s].open = Taken]
    /\ subs' = IF Taken THEN subs \cup {s} ELSE subs
    /\ UNCHANGED <<sent, hub, wire, drops>>

(* The stream writes what it reads to its client. *)
Read(s) ==
    /\ stream[s] = "live" /\ channel[s].items # <<>>
    /\ channel' = [channel EXCEPT ![s].items = Tail(@)]
    /\ UNCHANGED <<sent, hub, wire, subs, stream, drops>>

(* The client goes, or a stream finds its channel closed and empty; its    *)
(* context is done with it.                                                *)
ClientLeaves(s) ==
    /\ stream[s] = "live"
    /\ stream' = [stream EXCEPT ![s] = "left"]
    /\ UNCHANGED <<sent, hub, wire, subs, channel, drops>>

StreamEnds(s) ==
    /\ stream[s] = "live" /\ ~channel[s].open /\ channel[s].items = <<>>
    /\ stream' = [stream EXCEPT ![s] = "left"]
    /\ UNCHANGED <<sent, hub, wire, subs, channel, drops>>

(* The goroutine of Subscribe removes the subscriber under the lock and    *)
(* closes the channel after it; close happens once.                        *)
Remove(s) ==
    /\ stream[s] = "left" /\ Unlocked
    /\ stream' = [stream EXCEPT ![s] = "removed"]
    /\ subs' = subs \ {s}
    /\ UNCHANGED <<sent, hub, wire, channel, drops>>

Close(s) ==
    /\ stream[s] = "removed"
    /\ stream' = [stream EXCEPT ![s] = "over"]
    /\ channel' = [channel EXCEPT ![s].open = FALSE]
    /\ UNCHANGED <<sent, hub, wire, subs, drops>>

-----------------------------------------------------------------------------

(* What the goroutine of NewHub does. *)
Runs ==
    \/ Listen \/ WaitForNotification \/ DeliverEnds \/ closeAll
    \/ \E s \in Subscribers : DeliverTo(s)

LiveNext ==
    \/ Publish \/ ConnectionLost \/ Stop \/ Runs
    \/ \E s \in Subscribers :
          \/ Subscribe(s) \/ Read(s) \/ ClientLeaves(s) \/ StreamEnds(s)
          \/ Remove(s) \/ Close(s)

LiveSpec == LiveInit /\ [][LiveNext]_liveVars

(* The goroutine of the hub goes on and connects again; that of a          *)
(* subscription gets the lock it waits for, as the lock admits no reader   *)
(* before a waiting writer; the readers read.  Nobody has to publish, to   *)
(* leave or to stop.                                                       *)
LiveFairness ==
    /\ WF_liveVars(Runs)
    /\ \A s \in Subscribers : WF_liveVars(Remove(s) \/ Close(s))
    /\ \A s \in Readers : WF_liveVars(Read(s) \/ StreamEnds(s))

LiveFairSpec == LiveSpec /\ LiveFairness
-----------------------------------------------------------------------------
(***************************************************************************)
(* Properties                                                              *)
(***************************************************************************)

(* deliver never sends on a closed channel, however subscribers leave and  *)
(* the hub stops while it goes through them (deliver, Subscribe, closeAll).*)
SendsToOpen ==
    hub.pc = "delivering" => \A s \in hub.rest : channel[s].open

(* What is on its way to s: on the wire, in the hands of deliver, in the   *)
(* channel of s.                                                           *)
Coming(s) ==
    {e \in EventIds : /\ s \in subs /\ TopicOf[e] \in Topics[s]
                      /\ \/ \E i \in DOMAIN wire : wire[i] = e
                         \/ e = hub.event /\ s \in hub.rest}

InChannel(s) == {channel[s].items[i] : i \in DOMAIN channel[s].items}

(* A stream that reads is not kept waiting by one that does not: what is   *)
(* on its way to it comes to its end ("a slow consumer drops events rather *)
(* than blocking the hub", Subscribe, deliver).                            *)
ReadersHear ==
    \A s \in Readers :
        (stream[s] = "live" /\ Coming(s) \cup InChannel(s) # {})
            ~> (stream[s] # "live" \/ Coming(s) \cup InChannel(s) = {})

(* "every subscriber channel is closed so streaming handlers unblock":     *)
(* once the process stops, no stream waits on a channel nobody closes, of  *)
(* a subscription that came before, meanwhile or later; a subscription     *)
(* that was removed is closed next (NewHub, closeAll, Subscribe).          *)
StoppedIsClosed ==
    hub.pc = "stopped" =>
        \A s \in Subscribers : ~channel[s].open \/ stream[s] = "removed"

(* Nothing is sent on a closed channel, and no stream outlives the hub     *)
(* (Hub.deliver, closeAll, Subscribe).                                     *)
StreamsHold == LiveTypeOK /\ SendsToOpen /\ StoppedIsClosed

(* "a publish on any API replica reaches SSE subscribers on every replica" *)
(* (hub.go:1): what is on its way to a subscriber is put into its channel, *)
(* unless that is full, the subscriber leaves or the process stops.  The   *)
(* code breaks it whenever the connection of the hub is lost.              *)
ReachesEveryone ==
    [][\A s \in subs : \A e \in Coming(s) :
          \/ e \in Coming(s)' \cup InChannel(s)'
          \/ Len(channel[s].items) = Room
          \/ s \notin subs' \/ hub'.pc = "stopping"]_liveVars
=============================================================================

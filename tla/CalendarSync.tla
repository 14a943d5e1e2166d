----------------------------- MODULE CalendarSync -----------------------------
(***************************************************************************)
(* One entry of a programme's timeline in the Google calendars of those    *)
(* who added it (internal/calendar), and the goroutines that carry a       *)
(* corrected date there (cmd/api/main.go, SetTimelineChangeHook).  Dates   *)
(* are numbered in the order they were stored.  Google may fail, or answer *)
(* a request it carried out with an error nobody can tell from a failure;  *)
(* it honours a person's grants until they are revoked.                    *)
(***************************************************************************)
EXTENDS Naturals, FiniteSets

CONSTANTS
    People,
    Browsers, PersonOf,     \* each has one request underway
    Events, NoEventId,      \* identifiers Google gives to events
    MaxDates, MaxGrants     \* bounds on corrections and authorizations

ASSUME CalendarAssumption ==
    /\ MaxDates \in Nat /\ MaxGrants \in Nat
    /\ PersonOf \in [Browsers -> People]
    /\ NoEventId \notin Events

VARIABLES
    day,            \* the date the timeline holds
    stored,         \* the row of oauth_calendar_grants of each person, 0 for none
    issued,         \* the grants Google issued to each person,
    revoked,        \* and how many of them it no longer honours
    links,          \* rows of calendar_event_links
    events,         \* what the calendars hold
    requests,       \* what each browser's request has done at Google
    syncs,          \* the goroutine of each correction
    excused         \* whose event may show another date (no part of the code)

grantVars == <<stored, issued, revoked>>
calendarVars == <<day, grantVars, links, events, requests, syncs, excused>>

Unused == [status |-> "unused", day |-> 0]
NoRequest == [at |-> "idle", event |-> NoEventId]
NoSync == [at |-> "none", left |-> {}, refused |-> {}]

CalendarTypeOK ==
    /\ day \in 0..MaxDates
    /\ stored \in [People -> 0..MaxGrants]
    /\ issued \in [People -> 0..MaxGrants]
    /\ revoked \in [People -> 0..MaxGrants]
    /\ links \in [People -> Events \cup {NoEventId}]
    /\ events \in [Events -> [status : {"unused", "there", "gone"}, day : 0..MaxDates]]
    /\ requests \in [Browsers -> [at : {"idle", "inserted", "removed", "refused"},
                                  event : Events \cup {NoEventId}]]
    /\ syncs \in [1..MaxDates -> [at : {"none", "waiting", "underway"},
                                  left : SUBSET (People \X Events),
                                  refused : SUBSET People]]
    /\ excused \subseteq People

CalendarInit ==
    /\ day = 0
    /\ stored = [p \in People |-> 0]
    /\ issued = [p \in People |-> 0]
    /\ revoked = [p \in People |-> 0]
    /\ links = [p \in People |-> NoEventId]
    /\ events = [e \in Events |-> Unused]
    /\ requests = [b \in Browsers |-> NoRequest]
    /\ syncs = [k \in 1..MaxDates |-> NoSync]
    /\ excused = {}

Honoured(p) == stored[p] > revoked[p]
Refused(p) == stored[p] \in 1..revoked[p]

\* Whether the event that is linked for p agrees with the timeline.
Excusing(p, shown) == IF shown = day THEN excused \ {p} ELSE excused \cup {p}

-----------------------------------------------------------------------------
(* Authorizations.                                                         *)

SaveCalendarGrant(p) ==
    /\ issued[p] < MaxGrants
    /\ issued' = [issued EXCEPT ![p] = @ + 1]
    /\ stored' = [stored EXCEPT ![p] = issued[p] + 1]
    /\ UNCHANGED <<day, revoked, links, events, requests, syncs, excused>>

\* At Google: no grant issued so far is honoured any more.
Revoke(p) ==
    /\ revoked[p] < issued[p]
    /\ revoked' = [revoked EXCEPT ![p] = issued[p]]
    /\ UNCHANGED <<day, stored, issued, links, events, requests, syncs, excused>>

\* Of the account, whichever grant was refused.
DeleteCalendarGrant(p) == stored' = [stored EXCEPT ![p] = 0]

-----------------------------------------------------------------------------
(* Requests of a browser: what they do at Google, then in the database.    *)

Answered(b, at, e) == requests' = [requests EXCEPT ![b] = [at |-> at, event |-> e]]

\* The date is the one the page showed, which may have been loaded earlier.
InsertEvent(b, e, d) ==
    /\ requests[b] = NoRequest /\ Honoured(PersonOf[b])
    /\ events[e] = Unused
    /\ events' = [events EXCEPT ![e] = [status |-> "there", day |-> d]]
    /\ Answered(b, "inserted", e) \/ UNCHANGED requests
    /\ UNCHANGED <<day, grantVars, links, syncs, excused>>

\* An error is passed over, and the event has no link.
SaveEventLink(b) ==
    LET p == PersonOf[b]
        e == requests[b].event
    IN  /\ requests[b].at = "inserted"
        /\ \/ /\ links' = [links EXCEPT ![p] = e]
              /\ excused' = Excusing(p, events[e].day)
           \/ UNCHANGED <<links, excused>>
        /\ Answered(b, "idle", NoEventId)
        /\ UNCHANGED <<day, grantVars, events, syncs>>

\* A faulty variant of DeleteEvent: whatever Google answers counts as removed.
DeleteEventAnyhow(b) ==
    LET p == PersonOf[b]
        e == links[p]
    IN  /\ requests[b] = NoRequest /\ e # NoEventId /\ Honoured(p)
        /\ events' \in {events, [events EXCEPT ![e].status = "gone"]}
        /\ Answered(b, "removed", e)
        /\ UNCHANGED <<day, grantVars, links, syncs, excused>>

\* An event that is already gone counts as removed.
DeleteEvent(b) ==
    LET p == PersonOf[b]
        e == links[p]
    IN  /\ requests[b] = NoRequest /\ e # NoEventId /\ Honoured(p)
        /\ events' = [events EXCEPT ![e].status = "gone"]
        /\ Answered(b, "removed", e) \/ UNCHANGED requests
        /\ UNCHANGED <<day, grantVars, links, syncs, excused>>

\* The row of the entry, whichever event it names by now.
DeleteEventLink(b) ==
    /\ requests[b].at = "removed"
    /\ links' \in {links, [links EXCEPT ![PersonOf[b]] = NoEventId]}
    /\ Answered(b, "idle", NoEventId)
    /\ UNCHANGED <<day, grantVars, events, syncs, excused>>

\* Without a grant nothing can be removed, and the link is dropped.
DeleteUngranted(b) ==
    LET p == PersonOf[b]
    IN  /\ requests[b] = NoRequest /\ links[p] # NoEventId /\ stored[p] = 0
        /\ links' = [links EXCEPT ![p] = NoEventId]
        /\ UNCHANGED <<day, grantVars, events, requests, syncs, excused>>

\* Either request may find the grant revoked,
FindRevoked(b) ==
    /\ requests[b] = NoRequest /\ Refused(PersonOf[b])
    /\ Answered(b, "refused", NoEventId)
    /\ UNCHANGED <<day, grantVars, links, events, syncs, excused>>

\* and clears the row, unless that fails; a link stays.
Unlink(b) ==
    /\ requests[b].at = "refused"
    /\ DeleteCalendarGrant(PersonOf[b]) \/ UNCHANGED stored
    /\ Answered(b, "idle", NoEventId)
    /\ UNCHANGED <<day, issued, revoked, links, events, syncs, excused>>

-----------------------------------------------------------------------------
(* Corrections.                                                            *)

\* An administrator's save, or a statement by hand, starts a goroutine.
ChangeTimeline ==
    /\ day < MaxDates
    /\ day' = day + 1
    /\ syncs' = [syncs EXCEPT ![day + 1].at = "waiting"]
    /\ UNCHANGED <<grantVars, links, events, requests, excused>>

\* The confirmation of an upload, and a date that is withdrawn, start none.
ChangeUntold ==
    /\ day < MaxDates
    /\ day' = day + 1
    /\ excused' = People
    /\ UNCHANGED <<grantVars, links, events, requests, syncs>>

\* The links there are when the goroutine runs.
SyncEventDates(k) ==
    /\ syncs[k].at = "waiting"
    /\ syncs' = [syncs EXCEPT ![k].at = "underway",
                             ![k].left = {l \in People \X Events : links[l[1]] = l[2]}]
    /\ UNCHANGED <<day, grantVars, links, events, requests, excused>>

Calling(k, l) ==
    syncs[k].at = "underway" /\ syncs[k].refused = {} /\ l \in syncs[k].left

Passed(k, l, failed) == syncs' = [syncs EXCEPT ![k].left = @ \ {l}]

\* An event that is gone is nobody's failure.
PatchEventDates(k, l) ==
    /\ Calling(k, l) /\ Honoured(l[1])
    /\ IF events[l[2]].status = "there"
       THEN /\ events' = [events EXCEPT ![l[2]].day = k]
            /\ excused' = IF links[l[1]] = l[2] THEN Excusing(l[1], k) ELSE excused
       ELSE UNCHANGED <<events, excused>>
    /\ Passed(k, l, FALSE)
    /\ UNCHANGED <<day, grantVars, links, requests>>

\* Google fails, perhaps after the fact, or there is no grant: the link stays,
\* and nobody tries again.
PatchFails(k, l) ==
    /\ Calling(k, l) /\ ~Refused(l[1])
    /\ \/ UNCHANGED events
       \/ Honoured(l[1]) /\ events[l[2]].status = "there"
          /\ events' = [events EXCEPT ![l[2]].day = k]
    /\ excused' = excused \cup {l[1]}
    /\ Passed(k, l, TRUE)
    /\ UNCHANGED <<day, grantVars, links, requests>>

PatchRefused(k, l) ==
    /\ Calling(k, l) /\ Refused(l[1])
    /\ syncs' = [syncs EXCEPT ![k].left = @ \ {l}, ![k].refused = {l[1]}]
    /\ excused' = excused \cup {l[1]}
    /\ UNCHANGED <<day, grantVars, links, events, requests>>

\* The account of a refused grant loses the grant and the link, errors aside.
DropRevoked(k, p) ==
    /\ p \in syncs[k].refused
    /\ DeleteCalendarGrant(p) \/ UNCHANGED stored
    /\ links' \in {links, [links EXCEPT ![p] = NoEventId]}
    /\ syncs' = [syncs EXCEPT ![k].refused = {}]
    /\ UNCHANGED <<day, issued, revoked, events, requests, excused>>

\* The API stops; no correction is repeated when it starts again.
SyncLost(k) ==
    /\ syncs[k].at = "waiting" \/ syncs[k].left # {} \/ syncs[k].refused # {}
    /\ syncs' = [syncs EXCEPT ![k] = [at |-> "underway", left |-> {}, refused |-> {}]]
    /\ excused' = People
    /\ UNCHANGED <<day, grantVars, links, events, requests>>

-----------------------------------------------------------------------------

CalendarNext ==
    \/ \E p \in People : SaveCalendarGrant(p) \/ Revoke(p)
    \/ \E b \in Browsers :
         \/ \E e \in Events, d \in 0..day : InsertEvent(b, e, d)
         \/ SaveEventLink(b) \/ DeleteEvent(b) \/ DeleteEventLink(b)
         \/ DeleteUngranted(b) \/ FindRevoked(b) \/ Unlink(b)
    \/ ChangeTimeline \/ ChangeUntold
    \/ \E k \in 1..MaxDates :
         \/ SyncEventDates(k) \/ SyncLost(k)
         \/ \E l \in People \X Events :
              PatchEventDates(k, l) \/ PatchFails(k, l) \/ PatchRefused(k, l)
         \/ \E p \in People : DropRevoked(k, p)

CalendarSpec == CalendarInit /\ [][CalendarNext]_calendarVars

-----------------------------------------------------------------------------

Quiet == \A k \in 1..MaxDates :
    syncs[k].at # "waiting" /\ syncs[k].left = {} /\ syncs[k].refused = {}

\* When no correction is underway, a linked event shows the timeline's date,
\* unless this person's own patch failed, a correction was applied late, was
\* lost, or was told to nobody, or the event was added with an older date:
\* one account's failure never stops the others (service.go, SyncEventDates).
DatesFollow ==
    Quiet => \A p \in People \ excused :
        links[p] # NoEventId /\ events[links[p]].status = "there" => events[links[p]].day = day

\* A link is forgotten once Google confirms that its event is gone, or with
\* the grant without which it could not be removed (DeleteEvent).  Of two
\* requests of one person, the one that removed an event may drop the link the
\* other one has stored meanwhile: the row is that of the entry.
ForgottenWhenGone ==
    [][\A p \in People :
         links[p] # NoEventId /\ links'[p] = NoEventId =>
            \/ events[links[p]].status = "gone"
            \/ stored[p] = 0
            \/ \E k \in 1..MaxDates : p \in syncs[k].refused
            \/ \E b \in Browsers : /\ PersonOf[b] = p /\ requests[b].at = "removed"
                                   /\ requests[b].event # links[p]
                                   /\ events[requests[b].event].status = "gone"]_calendarVars

\* Linked events show the timeline's date unless their own patch failed, and
\* links are forgotten with their events (SyncEventDates, DeleteEvent).
CalendarHolds == [](CalendarTypeOK /\ DatesFollow) /\ ForgottenWhenGone

\* No date is replaced by an older one: two goroutines need not end in the
\* order of their corrections (cmd/api/main.go, syncTimelineDates).
DatesAdvance ==
    [][\A e \in Events : events'[e].day >= events[e].day]_calendarVars

\* "its link is dropped, same as DeleteEvent would" (SyncEventDates): a grant
\* that is found revoked takes the link with it.
RevokedIsUnlinked == \A p \in People : links[p] # NoEventId => stored[p] # 0

\* A grant that is renewed while the former one is refused stays
\* (DeleteCalendarGrant).
RenewedGrantStays ==
    [][\A p \in People : stored[p] > revoked[p] => stored'[p] # 0]_calendarVars

\* What was added can be removed again: no event of a person is left without
\* the link that named it (CreateEvents).
OneEventPerEntry ==
    [][\A p \in People :
         links[p] # links'[p] /\ links'[p] # NoEventId =>
            links[p] = NoEventId \/ events[links[p]].status = "gone"]_calendarVars
===============================================================================

------------------------------ MODULE MailRoutes ------------------------------
(***************************************************************************)
(* The administrators' mail routes (internal/mailroutes): a row per local  *)
(* part of the mail domain, and a Discord forum channel made for it, whose *)
(* permissions follow the row by one HTTP call per role.                   *)
(*                                                                         *)
(* Every request interleaves with the others between its database          *)
(* statement and each of its Discord calls, and ends at a Discord call     *)
(* that fails.  A channel is made for one row only, so it also stands for  *)
(* the id of the row.                                                      *)
(***************************************************************************)
EXTENDS Naturals, FiniteSets

CONSTANTS
    LocalParts,     \* addresses of the mail domain
    Roles,          \* Discord roles an administrator may pick
    MailForums,     \* bound on the forum channels ever made
    NoMailForum,    \* no row, no channel
    RouteCallers    \* requests the API handles at a time

ASSUME MailRoutesAssumption == NoMailForum \notin MailForums

VARIABLES
    routes,         \* rows of mail_routes
    forums,         \* the forum channels, as Discord keeps them
    routeCalls,     \* requests between two of their steps
    inquired,       \* rows that rows of email_inquiries refer to
    troubled        \* channels a Discord call failed for (history)

routeVars == <<routes, forums, routeCalls, inquired, troubled>>

NoRoute == [channel |-> NoMailForum, roles |-> {}]
NoForum == [made |-> FALSE, denied |-> FALSE, allowed |-> {}, posts |-> "none"]
RouteIdle == [step |-> "idle", part |-> "none", channel |-> NoMailForum,
              roles |-> {}, left |-> {}]

RoutesTypeOK ==
    /\ routes \in [LocalParts -> [channel : MailForums \cup {NoMailForum},
                                  roles : SUBSET Roles]]
    /\ forums \in [MailForums -> [made : BOOLEAN, denied : BOOLEAN,
                                  allowed : SUBSET Roles,
                                  posts : {"none", "open", "archived"}]]
    /\ \A c \in RouteCallers :
           /\ routeCalls[c].step \in {"idle", "insert", "deny", "allow", "delete",
                                      "lock", "remove", "archive"}
           /\ routeCalls[c].left \subseteq Roles
           /\ routeCalls[c].step \in {"deny", "allow", "remove"} =>
                  routeCalls[c].left # {}
    /\ inquired \subseteq MailForums /\ troubled \subseteq MailForums

Rows == {l \in LocalParts : routes[l].channel # NoMailForum}
RowOf(k) == {l \in Rows : routes[l].channel = k}

GetByLocalPart(l) == IF l \in Rows THEN {routes[l].channel} ELSE {}
VisibleRoleIDs(l) == routes[l].roles

Create(l, k, R) == [routes EXCEPT ![l] = [channel |-> k, roles |-> R]]
Update(l, R) == [routes EXCEPT ![l].roles = R]
Delete(l) == [routes EXCEPT ![l] = NoRoute]

\* A role's permission beats the denial for everyone.
Sees(r, k) == r \in forums[k].allowed \/ ~forums[k].denied

RouteCall(c, step, k, R) ==
    routeCalls' = [routeCalls EXCEPT ![c].step = step, ![c].channel = k,
                                     ![c].roles = R, ![c].left = R]

RouteReturn(c) == routeCalls' = [routeCalls EXCEPT ![c] = RouteIdle]

-----------------------------------------------------------------------------
(* create: the channel is made before the row is inserted.                 *)
CreateForumChannel(c, l, R) ==
    /\ routeCalls[c].step = "idle"
    /\ \E k \in MailForums :
           /\ ~forums[k].made
           /\ forums' = [forums EXCEPT ![k].made = TRUE]
           /\ routeCalls' = [routeCalls EXCEPT ![c] =
                  [step |-> "insert", part |-> l, channel |-> k, roles |-> R,
                   left |-> R]]
    /\ UNCHANGED <<routes, inquired, troubled>>

\* ApplyChannelVisibility leaves the channel alone when no role is picked.
ApplyNext(c, k, R) ==
    IF R = {} THEN RouteReturn(c) ELSE RouteCall(c, "deny", k, R)

CreateRoute(c) ==
    LET l == routeCalls[c].part  k == routeCalls[c].channel
        R == routeCalls[c].roles
    IN  /\ routeCalls[c].step = "insert"
        /\ l \notin Rows
        /\ routes' = Create(l, k, R)
        /\ ApplyNext(c, k, R)
        /\ UNCHANGED <<forums, inquired, troubled>>

\* The local part is taken, or the insert fails: the channel stays.
CreateRouteFails(c) ==
    /\ routeCalls[c].step = "insert"
    /\ RouteReturn(c)
    /\ UNCHANGED <<routes, forums, inquired, troubled>>

UpdateRoute(c, l, R) ==
    /\ routeCalls[c].step = "idle" /\ l \in Rows
    /\ routes' = Update(l, R)
    /\ ApplyNext(c, routes[l].channel, R)
    /\ UNCHANGED <<forums, inquired, troubled>>

Remaining(S, r) == S \ {r}

Denied(k) == [forums EXCEPT ![k].denied = TRUE]

DenyEveryone(c) ==
    LET k == routeCalls[c].channel
    IN  /\ routeCalls[c].step = "deny"
        /\ forums' = Denied(k)
        /\ routeCalls' = [routeCalls EXCEPT ![c].step = "allow"]
        /\ UNCHANGED <<routes, inquired, troubled>>

ApplyChannelVisibility(c, r) ==
    LET k == routeCalls[c].channel  S == Remaining(routeCalls[c].left, r)
    IN  /\ routeCalls[c].step = "allow" /\ r \in routeCalls[c].left
        /\ forums' = [forums EXCEPT ![k].allowed = @ \cup {r}]
        /\ IF S = {} THEN RouteReturn(c)
           ELSE routeCalls' = [routeCalls EXCEPT ![c].left = S]
        /\ UNCHANGED <<routes, inquired, troubled>>

-----------------------------------------------------------------------------
(* delete: read the row, delete it by its id, lock its channel.            *)
GetRoute(c, l) ==
    /\ routeCalls[c].step = "idle" /\ l \in Rows
    /\ routeCalls' = [routeCalls EXCEPT ![c] =
           [step |-> "delete", part |-> l, channel |-> routes[l].channel,
            roles |-> VisibleRoleIDs(l), left |-> VisibleRoleIDs(l)]]
    /\ UNCHANGED <<routes, forums, inquired, troubled>>

\* A faulty variant of Deletes: the row is deleted by its local part.
DeletesByPart(c) == {routeCalls[c].part} \cap Rows

Deletes(c) == RowOf(routeCalls[c].channel)

\* email_inquiries.mail_route_id refers to the row.
RouteDeletable(l) == routes[l].channel \notin inquired

DeleteRoute(c) ==
    /\ routeCalls[c].step = "delete"
    /\ \E l \in Deletes(c) :
           /\ RouteDeletable(l)
           /\ routes' = Delete(l)
    /\ routeCalls' = [routeCalls EXCEPT ![c].step = "lock"]
    /\ UNCHANGED <<forums, inquired, troubled>>

DeleteRouteFails(c) ==
    /\ routeCalls[c].step = "delete"
    /\ \A l \in Deletes(c) : ~RouteDeletable(l)
    /\ RouteReturn(c)
    /\ UNCHANGED <<routes, forums, inquired, troubled>>

\* Everyone is denied, then the permission of each role the row named is
\* removed; a removal that fails does not keep the others from being tried.
LockChannel(c) ==
    LET k == routeCalls[c].channel
    IN  /\ routeCalls[c].step = "lock"
        /\ forums' = Denied(k)
        /\ routeCalls' = [routeCalls EXCEPT ![c].step =
                             IF routeCalls[c].left = {} THEN "archive" ELSE "remove"]
        /\ UNCHANGED <<routes, inquired, troubled>>

DeleteOverwrite(c, r) ==
    LET k == routeCalls[c].channel  S == routeCalls[c].left \ {r}
    IN  /\ routeCalls[c].step = "remove" /\ r \in routeCalls[c].left
        /\ \/ /\ forums' = [forums EXCEPT ![k].allowed = @ \ {r}]
              /\ UNCHANGED troubled
           \/ troubled' = troubled \cup {k} /\ UNCHANGED forums
        /\ routeCalls' = [routeCalls EXCEPT ![c].left = S,
               ![c].step = IF S = {} THEN "archive" ELSE "remove"]
        /\ UNCHANGED <<routes, inquired>>

ArchiveAllThreads(c) ==
    LET k == routeCalls[c].channel
    IN  /\ routeCalls[c].step = "archive"
        /\ forums' = [forums EXCEPT ![k].posts =
                            IF @ = "open" THEN "archived" ELSE @]
        /\ RouteReturn(c)
        /\ UNCHANGED <<routes, inquired, troubled>>

\* A Discord call fails: ApplyChannelVisibility stops, delete goes on to the
\* archiving and then ends.
DiscordFails(c) ==
    LET s == routeCalls[c].step
    IN  /\ s \in {"deny", "allow", "lock", "archive"}
        /\ troubled' = troubled \cup {routeCalls[c].channel}
        /\ IF s = "lock"
           THEN routeCalls' = [routeCalls EXCEPT ![c].step = "archive"]
           ELSE RouteReturn(c)
        /\ UNCHANGED <<routes, forums, inquired>>

-----------------------------------------------------------------------------
(* A mail to the address becomes an inquiry with a post in the channel; a  *)
(* member writes a post.                                                   *)
RouteInquiry(l) ==
    /\ l \in Rows /\ routes[l].channel \notin inquired
    /\ \E k \in GetByLocalPart(l) :
           /\ inquired' = inquired \cup {k}
           /\ forums' = [forums EXCEPT ![k].posts = "open"]
    /\ UNCHANGED <<routes, routeCalls, troubled>>

MemberPosts(k) ==
    /\ forums[k].made /\ forums[k].posts = "none"
    /\ \E r \in Roles : Sees(r, k)
    /\ forums' = [forums EXCEPT ![k].posts = "open"]
    /\ UNCHANGED <<routes, routeCalls, inquired, troubled>>

RoutesInit ==
    /\ routes = [l \in LocalParts |-> NoRoute]
    /\ forums = [k \in MailForums |-> NoForum]
    /\ routeCalls = [c \in RouteCallers |-> RouteIdle]
    /\ inquired = {} /\ troubled = {}

RouteRequests(c) ==
    \/ \E l \in LocalParts, R \in SUBSET Roles :
           CreateForumChannel(c, l, R) \/ UpdateRoute(c, l, R)
    \/ CreateRoute(c) \/ CreateRouteFails(c)
    \/ DenyEveryone(c) \/ \E r \in Roles : ApplyChannelVisibility(c, r)

RouteDeletions(c) ==
    \/ \E l \in LocalParts : GetRoute(c, l)
    \/ DeleteRoute(c) \/ DeleteRouteFails(c) \/ LockChannel(c)
    \/ \E r \in Roles : DeleteOverwrite(c, r)
    \/ ArchiveAllThreads(c) \/ DiscordFails(c)

RoutesNext ==
    \/ \E c \in RouteCallers : RouteRequests(c) \/ RouteDeletions(c)
    \/ \E l \in LocalParts : RouteInquiry(l)
    \/ \E k \in MailForums : MemberPosts(k)

RoutesSpec == RoutesInit /\ [][RoutesNext]_routeVars

-----------------------------------------------------------------------------
Working(k) == \E c \in RouteCallers : /\ routeCalls[c].step # "idle"
                                      /\ routeCalls[c].channel = k

(* The roles a route names see its channel once the requests on it have    *)
(* ended, whatever the order of the updates that named them, as long as no *)
(* call to Discord failed (ApplyChannelVisibility).                        *)
PickedSee ==
    \A l \in Rows :
        LET k == routes[l].channel
        IN  ~Working(k) /\ k \notin troubled =>
                \A r \in VisibleRoleIDs(l) : Sees(r, k)

(* A row goes only by a deletion that read that row: one that lost the     *)
(* race to another deletion leaves the row made anew for the same address  *)
(* alone (delete reads the row and deletes it by its id).                  *)
RowGoes(l) ==
    \E c \in RouteCallers : /\ routeCalls[c].step = "delete"
                            /\ routeCalls[c].channel = routes[l].channel

DeletesWhatItRead ==
    [][\A l \in Rows : routes'[l].channel # routes[l].channel => RowGoes(l)]_routeVars

(* The comment on LockChannel says that every role the route ever granted  *)
(* access to has its permission removed when the route is deleted.         *)
LockedUnseen ==
    \A k \in MailForums :
        forums[k].denied /\ RowOf(k) = {} /\ ~Working(k) /\ k \notin troubled
        => \A r \in Roles : ~Sees(r, k)

(* The comment on HTTPPermissionsClient says that exactly the picked roles *)
(* see a channel.                                                          *)
OnlyPickedSee ==
    \A l \in Rows :
        LET k == routes[l].channel
        IN  /\ ~Working(k) /\ k \notin troubled /\ VisibleRoleIDs(l) # {}
            => \A r \in Roles : Sees(r, k) => r \in VisibleRoleIDs(l)

(* The comment on delete says that an address can be retired and that the  *)
(* posts of its channel stay, archived.                                    *)
RoutesCanGo == \A l \in Rows : forums[routes[l].channel].posts = "none" \/ RouteDeletable(l)

(* Routes and Discord agree: the roles a route names see its channel, and  *)
(* a row is deleted only by the request that read it                       *)
(* (ApplyChannelVisibility, delete).                                       *)
RoutesAgree == [](RoutesTypeOK /\ PickedSee) /\ DeletesWhatItRead
=============================================================================

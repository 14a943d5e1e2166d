----------------------------- MODULE DesksProofs -----------------------------
(***************************************************************************)
(* Proofs about MailRoutes, MailDesk and ReplyDrafts, for any number of    *)
(* routes, cases, threads, drafts and requests.  Each part is a frame      *)
(* lemma, saying what a step of one request leaves to the others, and a    *)
(* lemma per operation that meets it.                                      *)
(***************************************************************************)
EXTENDS MailRoutes, ReplyDrafts, TLAPS
-----------------------------------------------------------------------------
(***************************************************************************)
(* Mail routes.                                                            *)

RouteRows == [channel : MailForums \cup {NoMailForum}, roles : SUBSET Roles]

ForumRows == [made : BOOLEAN, denied : BOOLEAN, allowed : SUBSET Roles,
              posts : {"none", "open", "archived"}]

RouteSteps == {"idle", "insert", "deny", "allow", "delete", "lock", "remove", "archive"}

RouteCallRows ==
    [step : RouteSteps, part : LocalParts \cup {"none"},
     channel : MailForums \cup {NoMailForum}, roles : SUBSET Roles, left : SUBSET Roles]

Busy(c) == routeCalls[c].step # "idle"

Unrouted(k) == \A l \in LocalParts : routes[l].channel # k

\* A request works on a channel that is there, and the row of a channel is
\* gone before anybody is locked out of it (CreateForumChannel, DeleteRoute).
RouteCallHolds(c) ==
    /\ Busy(c) => routeCalls[c].channel \in MailForums /\ forums[routeCalls[c].channel].made
    /\ routeCalls[c].step \in {"deny", "allow", "remove"} => routeCalls[c].left # {}
    /\ routeCalls[c].step = "insert" => routeCalls[c].part \in LocalParts
    /\ routeCalls[c].step \in {"insert", "lock", "remove", "archive"}
       => Unrouted(routeCalls[c].channel)

\* A request is still to give the role its permission.
Granting(c, k, r) ==
    /\ routeCalls[c].step \in {"deny", "allow"}
    /\ routeCalls[c].channel = k /\ r \in routeCalls[c].left

Admitted(k, r) ==
    \/ r \in forums[k].allowed \/ k \in troubled
    \/ \E c \in RouteCallers : Granting(c, k, r)

RolesAdmitted ==
    \A l \in LocalParts :
        routes[l].channel # NoMailForum
        => \A r \in routes[l].roles : Admitted(routes[l].channel, r)

RoutesInv ==
    /\ routes \in [LocalParts -> RouteRows]
    /\ forums \in [MailForums -> ForumRows]
    /\ routeCalls \in [RouteCallers -> RouteCallRows]
    /\ inquired \subseteq MailForums /\ troubled \subseteq MailForums
    /\ \A l \in LocalParts :
           routes[l].channel # NoMailForum => forums[routes[l].channel].made
    /\ \A l, j \in LocalParts :
           routes[l].channel = routes[j].channel => routes[l].channel = NoMailForum \/ l = j
    /\ \A c \in RouteCallers : RouteCallHolds(c)
    /\ \A c, d \in RouteCallers :
           routeCalls[c].step = "insert" /\ Busy(d)
           /\ routeCalls[d].channel = routeCalls[c].channel => c = d
    /\ RolesAdmitted

\* A step of one request, and what the others still know after it.
LEMMA RoutesFrame ==
    ASSUME RoutesInv, NEW c \in RouteCallers,
           routes' \in [LocalParts -> RouteRows], forums' \in [MailForums -> ForumRows],
           routeCalls' \in [RouteCallers -> RouteCallRows],
           inquired' \subseteq MailForums, troubled' \subseteq MailForums,
           \A d \in RouteCallers \ {c} : routeCalls'[d] = routeCalls[d],
           \A k \in MailForums : forums[k].made => forums'[k].made,
           \A l \in LocalParts :
              \/ routes'[l].channel = NoMailForum
              \/ routes'[l].channel = routes[l].channel
              \/ /\ routeCalls[c].step = "insert" /\ routeCalls[c].part = l
                 /\ routes'[l].channel = routeCalls[c].channel
                 /\ routeCalls'[c].step # "insert",
           RouteCallHolds(c)',
           routeCalls'[c].step = "insert"
           => \/ ~forums[routeCalls'[c].channel].made
              \/ routeCalls[c].step = "insert" /\ routeCalls'[c].channel = routeCalls[c].channel,
           routeCalls'[c].step # "idle" /\ routeCalls'[c].step # "insert"
           => \/ Busy(c) /\ routeCalls'[c].channel = routeCalls[c].channel
              \/ ~Unrouted(routeCalls'[c].channel),
           RolesAdmitted'
    PROVE  RoutesInv'
<1>1. /\ routes \in [LocalParts -> RouteRows] /\ routeCalls \in [RouteCallers -> RouteCallRows]
      /\ \A d \in RouteCallers : RouteCallHolds(d)
      /\ \A d, e \in RouteCallers :
           routeCalls[d].step = "insert" /\ Busy(e)
           /\ routeCalls[e].channel = routeCalls[d].channel => d = e
      /\ \A l \in LocalParts : routes[l].channel # NoMailForum => forums[routes[l].channel].made
      /\ \A l, j \in LocalParts :
           routes[l].channel = routes[j].channel => routes[l].channel = NoMailForum \/ l = j
  BY DEF RoutesInv
<1>2. NoMailForum \notin MailForums
  BY MailRoutesAssumption
<1>3. \A l \in LocalParts : routes[l].channel \in MailForums \cup {NoMailForum}
  BY <1>1 DEF RouteRows
<1>4. \A l \in LocalParts : routes'[l].channel # NoMailForum => forums'[routes'[l].channel].made
  BY <1>1, <1>2, <1>3 DEF RouteCallHolds, Busy
<1>5. \A l, j \in LocalParts :
         routes'[l].channel = routes'[j].channel => routes'[l].channel = NoMailForum \/ l = j
  BY <1>1, <1>2 DEF RouteCallHolds, Unrouted
<1>6. ASSUME NEW d \in RouteCallers PROVE RouteCallHolds(d)'
  <2>1. CASE d = c  BY <2>1
  <2>2. CASE d # c
    <3>1. routeCalls'[d] = routeCalls[d] /\ RouteCallHolds(d)
      BY <1>1, <2>2
    <3>2. Busy(d) => routeCalls[d].channel \in MailForums /\ routeCalls[d].channel # NoMailForum
      BY <1>2, <3>1 DEF RouteCallHolds
    <3>3. ASSUME routeCalls[d].step \in {"insert", "lock", "remove", "archive"},
                 NEW l \in LocalParts, routes'[l].channel = routeCalls[d].channel
          PROVE  FALSE
      <4>1. Busy(d) /\ Unrouted(routeCalls[d].channel)
        BY <3>1, <3>3 DEF RouteCallHolds, Busy
      <4>2. /\ routeCalls[c].step = "insert"
            /\ routes'[l].channel = routeCalls[c].channel
        BY <3>2, <3>3, <4>1 DEF Unrouted
      <4> QED  BY <1>1, <2>2, <3>3, <4>1, <4>2
    <3> QED  BY <3>1, <3>2, <3>3 DEF RouteCallHolds, Busy, Unrouted
  <2> QED  BY <2>1, <2>2
<1>7. ASSUME NEW d \in RouteCallers, NEW e \in RouteCallers,
             routeCalls'[d].step = "insert", routeCalls'[e].step # "idle",
             routeCalls'[e].channel = routeCalls'[d].channel, d # e
      PROVE  FALSE
  <2>1. CASE d = c
    <3>1. Busy(e) /\ routeCalls'[e] = routeCalls[e]
      BY <1>7, <2>1 DEF Busy
    <3>2. forums[routeCalls[e].channel].made
      BY <1>1, <3>1 DEF RouteCallHolds
    <3>3. routeCalls[c].step = "insert" /\ routeCalls'[c].channel = routeCalls[c].channel
      BY <1>7, <2>1, <3>1, <3>2
    <3> QED  BY <1>1, <1>7, <2>1, <3>1, <3>3
  <2>2. CASE e = c
    <3>1. routeCalls'[d] = routeCalls[d] /\ RouteCallHolds(d) /\ Busy(d)
      BY <1>1, <1>7, <2>2 DEF Busy
    <3>2. Unrouted(routeCalls[d].channel) /\ forums[routeCalls[d].channel].made
      BY <1>7, <3>1 DEF RouteCallHolds
    <3>3. Busy(c) /\ routeCalls'[c].channel = routeCalls[c].channel
      BY <1>7, <2>2, <3>1, <3>2 DEF Busy
    <3> QED  BY <1>1, <1>7, <2>2, <3>1, <3>3
  <2>3. CASE d # c /\ e # c
    BY <1>1, <1>7, <2>3 DEF Busy
  <2> QED  BY <2>1, <2>2, <2>3
<1> QED  BY <1>4, <1>5, <1>6, <1>7 DEF RoutesInv, Busy

\* A role that a row names keeps its permission, or the request that is to
\* give it (ApplyChannelVisibility).
LEMMA AdmittedStay ==
    ASSUME RoutesInv, NEW c \in RouteCallers,
           \A d \in RouteCallers \ {c} : routeCalls'[d] = routeCalls[d],
           \A l \in LocalParts : routes'[l] = routes[l] \/ routes'[l].channel = NoMailForum,
           \A k \in MailForums : ~Unrouted(k) => forums[k].allowed \subseteq forums'[k].allowed,
           troubled \subseteq troubled',
           \A k \in MailForums, r \in Roles : Granting(c, k, r) => Admitted(k, r)'
    PROVE  RolesAdmitted'
<1> SUFFICES ASSUME NEW l \in LocalParts, routes'[l].channel # NoMailForum,
                    NEW r \in routes'[l].roles
             PROVE  Admitted(routes[l].channel, r)'
  BY DEF RolesAdmitted
<1>1. /\ routes'[l] = routes[l] /\ Admitted(routes[l].channel, r)
      /\ routes[l].channel \in MailForums /\ r \in Roles
  BY DEF RoutesInv, RouteRows, RolesAdmitted
<1> PICK k \in MailForums : k = routes[l].channel
  BY <1>1
<1>2. ~Unrouted(k)
  BY DEF Unrouted
<1>3. Admitted(k, r)'
  BY <1>1, <1>2 DEF Admitted, Granting
<1> QED  BY <1>1, <1>3

\* The record of a request.
LEMMA RouteCallWritten ==
    ASSUME routeCalls \in [RouteCallers -> RouteCallRows], NEW c \in RouteCallers,
           NEW row \in RouteCallRows, routeCalls' = [routeCalls EXCEPT ![c] = row]
    PROVE  /\ routeCalls' \in [RouteCallers -> RouteCallRows] /\ routeCalls'[c] = row
           /\ \A d \in RouteCallers \ {c} : routeCalls'[d] = routeCalls[d]
OBVIOUS

\* The record of a request that goes on with some roles left, or ends.
LEMMA RouteCallSteps ==
    ASSUME RoutesInv, NEW c \in RouteCallers
    PROVE  /\ \A step \in RouteSteps, S \in SUBSET Roles :
                routeCalls' = [routeCalls EXCEPT ![c].step = step, ![c].left = S]
                => /\ routeCalls' \in [RouteCallers -> RouteCallRows]
                   /\ routeCalls'[c].step = step /\ routeCalls'[c].left = S
                   /\ routeCalls'[c].channel = routeCalls[c].channel
                   /\ routeCalls'[c].part = routeCalls[c].part
                   /\ \A d \in RouteCallers \ {c} : routeCalls'[d] = routeCalls[d]
           /\ \A step \in RouteSteps, k \in MailForums, R \in SUBSET Roles :
                RouteCall(c, step, k, R)
                => /\ routeCalls' \in [RouteCallers -> RouteCallRows]
                   /\ routeCalls'[c].step = step /\ routeCalls'[c].left = R
                   /\ routeCalls'[c].channel = k
                   /\ \A d \in RouteCallers \ {c} : routeCalls'[d] = routeCalls[d]
           /\ RouteReturn(c)
                => /\ routeCalls' \in [RouteCallers -> RouteCallRows]
                   /\ routeCalls'[c].step = "idle"
                   /\ \A d \in RouteCallers \ {c} : routeCalls'[d] = routeCalls[d]
<1>1. routeCalls \in [RouteCallers -> RouteCallRows]
  BY DEF RoutesInv
<1> PICK old \in RouteCallRows : old = routeCalls[c]
  BY <1>1
<1>2. ASSUME NEW step \in RouteSteps, NEW S \in SUBSET Roles,
             routeCalls' = [routeCalls EXCEPT ![c].step = step, ![c].left = S]
      PROVE  /\ routeCalls' \in [RouteCallers -> RouteCallRows]
             /\ routeCalls'[c].step = step /\ routeCalls'[c].left = S
             /\ routeCalls'[c].channel = routeCalls[c].channel
             /\ routeCalls'[c].part = routeCalls[c].part
             /\ \A d \in RouteCallers \ {c} : routeCalls'[d] = routeCalls[d]
  <2> PICK row : row = [old EXCEPT !.step = step, !.left = S]
    OBVIOUS
  <2>1. /\ row \in RouteCallRows /\ row.step = step /\ row.left = S
        /\ row.channel = old.channel /\ row.part = old.part
    BY DEF RouteCallRows
  <2>2. routeCalls' = [routeCalls EXCEPT ![c] = row]
    BY <1>1, <1>2
  <2> QED  BY <1>1, <2>1, <2>2, RouteCallWritten
<1>3. ASSUME NEW step \in RouteSteps, NEW k \in MailForums, NEW R \in SUBSET Roles,
             RouteCall(c, step, k, R)
      PROVE  /\ routeCalls' \in [RouteCallers -> RouteCallRows]
             /\ routeCalls'[c].step = step /\ routeCalls'[c].left = R
             /\ routeCalls'[c].channel = k
             /\ \A d \in RouteCallers \ {c} : routeCalls'[d] = routeCalls[d]
  <2> PICK row : row = [old EXCEPT !.step = step, !.channel = k, !.roles = R, !.left = R]
    OBVIOUS
  <2>1. row \in RouteCallRows /\ row.step = step /\ row.left = R /\ row.channel = k
    BY DEF RouteCallRows
  <2>2. routeCalls' = [routeCalls EXCEPT ![c] = row]
    BY <1>1, <1>3 DEF RouteCall
  <2> QED  BY <1>1, <2>1, <2>2, RouteCallWritten
<1>4. ASSUME RouteReturn(c)
      PROVE  /\ routeCalls' \in [RouteCallers -> RouteCallRows]
             /\ routeCalls'[c].step = "idle"
             /\ \A d \in RouteCallers \ {c} : routeCalls'[d] = routeCalls[d]
  <2>1. RouteIdle \in RouteCallRows /\ RouteIdle.step = "idle"
    BY DEF RouteIdle, RouteCallRows, RouteSteps
  <2> QED  BY <1>1, <1>4, <2>1, RouteCallWritten DEF RouteReturn
<1> QED  BY <1>2, <1>3, <1>4

\* A channel is made for nobody else (CreateForumChannel).
LEMMA ForumMade ==
    ASSUME RoutesInv, NEW c \in RouteCallers, NEW l \in LocalParts, NEW R \in SUBSET Roles,
           CreateForumChannel(c, l, R)
    PROVE  RoutesInv'
<1>1. /\ forums \in [MailForums -> ForumRows] /\ routeCalls \in [RouteCallers -> RouteCallRows]
      /\ inquired \subseteq MailForums /\ troubled \subseteq MailForums
      /\ routes \in [LocalParts -> RouteRows]
      /\ \A j \in LocalParts : routes[j].channel # NoMailForum => forums[routes[j].channel].made
  BY DEF RoutesInv
<1> PICK k \in MailForums :
       /\ ~forums[k].made /\ forums' = [forums EXCEPT ![k].made = TRUE]
       /\ routeCalls' = [routeCalls EXCEPT ![c] =
              [step |-> "insert", part |-> l, channel |-> k, roles |-> R, left |-> R]]
  BY DEF CreateForumChannel
<1>2. /\ routeCalls' \in [RouteCallers -> RouteCallRows]
      /\ routeCalls'[c] = [step |-> "insert", part |-> l, channel |-> k, roles |-> R, left |-> R]
      /\ \A d \in RouteCallers \ {c} : routeCalls'[d] = routeCalls[d]
  <2>1. [step |-> "insert", part |-> l, channel |-> k, roles |-> R, left |-> R] \in RouteCallRows
    BY DEF RouteCallRows, RouteSteps
  <2> QED  BY <1>1, <2>1, RouteCallWritten
<1>3. UNCHANGED <<routes, inquired, troubled>> /\ routeCalls[c].step = "idle"
  BY DEF CreateForumChannel
<1>4. /\ forums' \in [MailForums -> ForumRows] /\ forums'[k].made
      /\ \A j \in MailForums : /\ forums'[j].allowed = forums[j].allowed
                               /\ forums[j].made => forums'[j].made
  BY <1>1 DEF ForumRows
<1>5. Unrouted(k)
  BY <1>1, MailRoutesAssumption DEF Unrouted
<1>6. RouteCallHolds(c)'
  BY <1>2, <1>3, <1>4, <1>5 DEF RouteCallHolds, Busy, Unrouted
<1>7. RolesAdmitted'
  BY <1>2, <1>3, <1>4, AdmittedStay DEF Granting
<1> QED  BY <1>1, <1>2, <1>3, <1>4, <1>6, <1>7, RoutesFrame

\* A row is inserted or changed, and its roles are still to be admitted by the
\* request itself (CreateRoute, UpdateRoute).
LEMMA RowsWritten ==
    ASSUME RoutesInv, NEW c \in RouteCallers,
           CreateRoute(c) \/ \E l \in LocalParts, R \in SUBSET Roles : UpdateRoute(c, l, R)
    PROVE  RoutesInv'
<1>1. /\ forums \in [MailForums -> ForumRows] /\ routeCalls \in [RouteCallers -> RouteCallRows]
      /\ inquired \subseteq MailForums /\ troubled \subseteq MailForums
      /\ routes \in [LocalParts -> RouteRows] /\ RouteCallHolds(c)
      /\ \A j \in LocalParts : routes[j].channel # NoMailForum => forums[routes[j].channel].made
      /\ RolesAdmitted
  BY DEF RoutesInv
<1>2. PICK l \in LocalParts, R \in SUBSET Roles, k \in MailForums :
        /\ routes' = [routes EXCEPT ![l] = [channel |-> k, roles |-> R]]
        /\ ApplyNext(c, k, R)
        /\ \/ /\ routeCalls[c].step = "insert" /\ l = routeCalls[c].part /\ k = routeCalls[c].channel
           \/ routeCalls[c].step = "idle" /\ k = routes[l].channel
  <2>1. CASE CreateRoute(c)
    <3>1. routeCalls[c].part \in LocalParts /\ routeCalls[c].channel \in MailForums
      BY <1>1, <2>1 DEF CreateRoute, RouteCallHolds, Busy
    <3>2. routeCalls[c].roles \in SUBSET Roles
      BY <1>1 DEF RouteCallRows
    <3> QED  BY <2>1, <3>1, <3>2 DEF CreateRoute, Create
  <2>2. ASSUME NEW l \in LocalParts, NEW R \in SUBSET Roles, UpdateRoute(c, l, R)
        PROVE  /\ routes' = [routes EXCEPT ![l] = [channel |-> routes[l].channel, roles |-> R]]
               /\ ApplyNext(c, routes[l].channel, R) /\ routeCalls[c].step = "idle"
               /\ routes[l].channel \in MailForums
    <3> PICK row \in RouteRows : row = routes[l]
      BY <1>1
    <3>1. [row EXCEPT !.roles = R] = [channel |-> row.channel, roles |-> R]
      BY DEF RouteRows
    <3>2. routes' = [routes EXCEPT ![l] = [row EXCEPT !.roles = R]]
      BY <1>1, <2>2 DEF UpdateRoute, Update
    <3>3. row.channel \in MailForums
      BY <2>2 DEF UpdateRoute, Rows, RouteRows
    <3> QED  BY <2>2, <3>1, <3>2, <3>3 DEF UpdateRoute
  <2> QED  BY <2>1, <2>2
<1>3. UNCHANGED <<forums, inquired, troubled>>
  BY DEF CreateRoute, UpdateRoute
<1>4. /\ routes' \in [LocalParts -> RouteRows]
      /\ routes'[l].channel = k /\ routes'[l].roles = R
      /\ \A j \in LocalParts \ {l} : routes'[j] = routes[j]
  <2>1. [channel |-> k, roles |-> R] \in RouteRows
    BY DEF RouteRows
  <2> QED  BY <1>1, <1>2, <2>1
<1>5. /\ routeCalls' \in [RouteCallers -> RouteCallRows]
      /\ \A d \in RouteCallers \ {c} : routeCalls'[d] = routeCalls[d]
      /\ \/ R = {} /\ routeCalls'[c].step = "idle"
         \/ /\ R # {} /\ routeCalls'[c].step = "deny" /\ routeCalls'[c].left = R
            /\ routeCalls'[c].channel = k
  <2>1. CASE R = {}
    BY <1>2, <2>1, RouteCallSteps DEF ApplyNext
  <2>2. CASE R # {}
    <3>1. RouteCall(c, "deny", k, R) /\ "deny" \in RouteSteps
      BY <1>2, <2>2 DEF ApplyNext, RouteSteps
    <3> QED  BY <2>2, <3>1, RouteCallSteps
  <2> QED  BY <2>1, <2>2
<1>6. forums[k].made
  BY <1>1, <1>2, MailRoutesAssumption DEF RouteCallHolds, Busy
<1>7. RouteCallHolds(c)'
  BY <1>3, <1>5, <1>6 DEF RouteCallHolds, Busy
<1>8. routeCalls[c].step = "idle" => ~Unrouted(k)
  BY <1>2 DEF Unrouted
<1>9. RolesAdmitted'
  <2> SUFFICES ASSUME NEW j \in LocalParts, routes'[j].channel # NoMailForum,
                      NEW r \in routes'[j].roles
               PROVE  Admitted(routes[j].channel, r)'
    BY DEF RolesAdmitted
  <2>1. CASE j = l
    BY <1>4, <1>5, <2>1 DEF Admitted, Granting
  <2>2. CASE j # l
    <3>1. routes'[j] = routes[j] /\ Admitted(routes[j].channel, r)
      BY <1>1, <1>4, <2>2 DEF RolesAdmitted
    <3>2. routeCalls[c].step \in {"insert", "idle"}
      BY <1>2
    <3>3. \A q \in Roles : ~Granting(c, routes[j].channel, q)
      BY <3>2 DEF Granting
    <3>4. r \in Roles
      BY <1>4 DEF RouteRows
    <3> QED  BY <1>3, <1>5, <3>1, <3>3, <3>4 DEF Admitted, Granting
  <2> QED  BY <2>1, <2>2
<1> QED  BY <1>1, <1>2, <1>3, <1>4, <1>5, <1>7, <1>8, <1>9, RoutesFrame DEF Busy

\* Everyone is denied and one role after another admitted (ApplyChannelVisibility).
LEMMA VisibilityApplied ==
    ASSUME RoutesInv, NEW c \in RouteCallers,
           DenyEveryone(c) \/ \E r \in Roles : ApplyChannelVisibility(c, r)
    PROVE  RoutesInv'
<1>1. /\ forums \in [MailForums -> ForumRows] /\ routeCalls \in [RouteCallers -> RouteCallRows]
      /\ inquired \subseteq MailForums /\ troubled \subseteq MailForums
      /\ routes \in [LocalParts -> RouteRows] /\ RouteCallHolds(c)
  BY DEF RoutesInv
<1>2. /\ routeCalls[c].step \in {"deny", "allow"}
      /\ UNCHANGED <<routes, inquired, troubled>>
      /\ routeCalls[c].channel \in MailForums
  BY <1>1 DEF DenyEveryone, ApplyChannelVisibility, RouteCallHolds, Busy
<1> PICK k \in MailForums : k = routeCalls[c].channel
  BY <1>2
<1> PICK old \in ForumRows : old = forums[k]
  BY <1>1
<1> PICK S \in SUBSET Roles : S = routeCalls[c].left
  BY <1>1 DEF RouteCallRows
<1>3. /\ S # {} /\ forums[k].made
      /\ routeCalls[c].left \in SUBSET Roles
  BY <1>1, <1>2 DEF RouteCallHolds, Busy
<1>4. CASE DenyEveryone(c)
  <2>1. /\ forums' = [forums EXCEPT ![k] = [old EXCEPT !.denied = TRUE]]
        /\ routeCalls' = [routeCalls EXCEPT ![c].step = "allow", ![c].left = S]
    <3> PICK call \in RouteCallRows : call = routeCalls[c]
      BY <1>1
    <3>1. [call EXCEPT !.step = "allow"] = [call EXCEPT !.step = "allow", !.left = S]
      BY DEF RouteCallRows
    <3>2. routeCalls' = [routeCalls EXCEPT ![c] = [call EXCEPT !.step = "allow"]]
      BY <1>1, <1>4 DEF DenyEveryone
    <3>3. routeCalls' = [routeCalls EXCEPT ![c] = [call EXCEPT !.step = "allow", !.left = S]]
      BY <3>1, <3>2
    <3>4. forums' = [forums EXCEPT ![k] = [old EXCEPT !.denied = TRUE]]
      BY <1>1, <1>4 DEF DenyEveryone, Denied
    <3> QED  BY <1>1, <3>3, <3>4
  <2>2. /\ [old EXCEPT !.denied = TRUE] \in ForumRows
        /\ [old EXCEPT !.denied = TRUE].allowed = old.allowed
        /\ [old EXCEPT !.denied = TRUE].made = old.made
    BY DEF ForumRows
  <2>3. /\ forums' \in [MailForums -> ForumRows]
        /\ \A j \in MailForums : /\ forums'[j].allowed = forums[j].allowed
                                 /\ forums'[j].made = forums[j].made
    BY <1>1, <2>1, <2>2
  <2>4. /\ routeCalls' \in [RouteCallers -> RouteCallRows]
        /\ routeCalls'[c].step = "allow" /\ routeCalls'[c].left = S
        /\ routeCalls'[c].channel = k
        /\ \A d \in RouteCallers \ {c} : routeCalls'[d] = routeCalls[d]
    <3> PICK call \in RouteCallRows : call = routeCalls[c]
      BY <1>1
    <3> PICK row : row = [call EXCEPT !.step = "allow", !.left = S]
      OBVIOUS
    <3>1. /\ row \in RouteCallRows /\ row.step = "allow" /\ row.left = S
          /\ row.channel = call.channel
      BY DEF RouteCallRows, RouteSteps
    <3>2. routeCalls' = [routeCalls EXCEPT ![c] = row]
      BY <1>1, <2>1
    <3> QED  BY <1>1, <3>1, <3>2, RouteCallWritten
  <2>5. RouteCallHolds(c)'
    BY <1>2, <1>3, <2>3, <2>4 DEF RouteCallHolds, Busy
  <2>6. RolesAdmitted'
    BY <1>2, <2>3, <2>4, AdmittedStay DEF Granting, Admitted
  <2> QED  BY <1>1, <1>2, <2>3, <2>4, <2>5, <2>6, RoutesFrame DEF Busy
<1>5. ASSUME NEW r \in Roles, ApplyChannelVisibility(c, r) PROVE RoutesInv'
  <2> PICK T \in SUBSET Roles : T = S \ {r}
    OBVIOUS
  <2>1. /\ routeCalls[c].step = "allow"
        /\ forums' = [forums EXCEPT ![k] = [old EXCEPT !.allowed = old.allowed \cup {r}]]
        /\ \/ T = {} /\ RouteReturn(c)
           \/ T # {} /\ routeCalls' = [routeCalls EXCEPT ![c].left = T]
    BY <1>1, <1>5 DEF ApplyChannelVisibility, Remaining
  <2>2. LET new == [old EXCEPT !.allowed = old.allowed \cup {r}] IN
        new \in ForumRows /\ new.allowed = old.allowed \cup {r} /\ new.made = old.made
    BY DEF ForumRows
  <2>3. /\ forums' \in [MailForums -> ForumRows]
        /\ forums'[k].allowed = forums[k].allowed \cup {r}
        /\ \A j \in MailForums : /\ forums[j].allowed \subseteq forums'[j].allowed
                                 /\ forums'[j].made = forums[j].made
    BY <1>1, <2>1, <2>2
  <2>4. /\ routeCalls' \in [RouteCallers -> RouteCallRows]
        /\ \A d \in RouteCallers \ {c} : routeCalls'[d] = routeCalls[d]
        /\ \/ T = {} /\ routeCalls'[c].step = "idle"
           \/ /\ T # {} /\ routeCalls'[c].step = "allow"
              /\ routeCalls'[c].channel = k /\ routeCalls'[c].left = T
    <3>1. CASE RouteReturn(c) /\ T = {}
      BY <3>1, RouteCallSteps
    <3>2. CASE T # {} /\ routeCalls' = [routeCalls EXCEPT ![c].left = T]
      <4> PICK call \in RouteCallRows : call = routeCalls[c]
        BY <1>1
      <4> PICK row : row = [call EXCEPT !.left = T]
        OBVIOUS
      <4>1. /\ row \in RouteCallRows /\ row.step = call.step
            /\ row.left = T /\ row.channel = call.channel
        BY DEF RouteCallRows
      <4>2. routeCalls' = [routeCalls EXCEPT ![c] = row]
        BY <1>1, <3>2
      <4> QED  BY <1>1, <2>1, <3>2, <4>1, <4>2, RouteCallWritten
    <3> QED  BY <2>1, <3>1, <3>2
  <2>5. RouteCallHolds(c)'
    BY <1>2, <1>3, <2>3, <2>4 DEF RouteCallHolds, Busy
  <2>6. ASSUME NEW j \in MailForums, NEW q \in Roles, Granting(c, j, q) PROVE Admitted(j, q)'
    <3>1. j = k /\ q \in S
      BY <2>6 DEF Granting
    <3>2. CASE q = r
      BY <2>3, <3>1, <3>2 DEF Admitted
    <3>3. CASE q # r
      <4>1. Granting(c, j, q)'
        BY <2>4, <3>1, <3>3 DEF Granting
      <4> QED  BY <4>1 DEF Admitted
    <3> QED  BY <3>2, <3>3
  <2>7. RolesAdmitted'
    BY <1>2, <2>3, <2>4, <2>6, AdmittedStay
  <2> QED  BY <1>1, <1>2, <2>3, <2>4, <2>5, <2>7, RoutesFrame DEF Busy
<1> QED  BY <1>4, <1>5

\* A request ends, goes on to the archiving, or has read the row it is to
\* delete; Discord may have refused (CreateRouteFails, DeleteRouteFails,
\* DiscordFails, GetRoute).
LEMMA RouteCallsEnd ==
    ASSUME RoutesInv, NEW c \in RouteCallers,
           \/ CreateRouteFails(c) \/ DeleteRouteFails(c) \/ DiscordFails(c)
           \/ \E l \in LocalParts : GetRoute(c, l)
    PROVE  RoutesInv'
<1>1. /\ forums \in [MailForums -> ForumRows] /\ routeCalls \in [RouteCallers -> RouteCallRows]
      /\ inquired \subseteq MailForums /\ troubled \subseteq MailForums
      /\ routes \in [LocalParts -> RouteRows] /\ RouteCallHolds(c)
      /\ \A j \in LocalParts : routes[j].channel # NoMailForum => forums[routes[j].channel].made
  BY DEF RoutesInv
<1>2. UNCHANGED <<routes, forums, inquired>>
  BY DEF CreateRouteFails, DeleteRouteFails, DiscordFails, GetRoute
<1>3. troubled' \subseteq MailForums /\ troubled \subseteq troubled'
  BY <1>1 DEF CreateRouteFails, DeleteRouteFails, DiscordFails, GetRoute, RouteCallHolds, Busy
<1>4. /\ routeCalls' \in [RouteCallers -> RouteCallRows]
      /\ \A d \in RouteCallers \ {c} : routeCalls'[d] = routeCalls[d]
      /\ RouteCallHolds(c)'
      /\ routeCalls'[c].step \in {"idle", "archive", "delete"}
      /\ routeCalls'[c].step # "idle"
         => \/ Busy(c) /\ routeCalls'[c].channel = routeCalls[c].channel
            \/ ~Unrouted(routeCalls'[c].channel)
  <2>1. CASE RouteReturn(c)
    BY <2>1, RouteCallSteps DEF RouteCallHolds, Busy
  <2>2. CASE /\ routeCalls[c].step = "lock"
             /\ routeCalls' = [routeCalls EXCEPT ![c].step = "archive"]
    <3> PICK call \in RouteCallRows : call = routeCalls[c]
      BY <1>1
    <3> PICK row : row = [call EXCEPT !.step = "archive"]
      OBVIOUS
    <3>1. row \in RouteCallRows /\ row.step = "archive" /\ row.channel = call.channel
      BY DEF RouteCallRows, RouteSteps
    <3>2. routeCalls' = [routeCalls EXCEPT ![c] = row]
      BY <1>1, <2>2
    <3>3. /\ routeCalls' \in [RouteCallers -> RouteCallRows] /\ routeCalls'[c] = row
          /\ \A d \in RouteCallers \ {c} : routeCalls'[d] = routeCalls[d]
      BY <1>1, <3>1, <3>2, RouteCallWritten
    <3> QED  BY <1>1, <1>2, <2>2, <3>1, <3>3 DEF RouteCallHolds, Busy, Unrouted
  <2>3. ASSUME NEW l \in LocalParts, GetRoute(c, l)
        PROVE  /\ routeCalls' \in [RouteCallers -> RouteCallRows]
               /\ \A d \in RouteCallers \ {c} : routeCalls'[d] = routeCalls[d]
               /\ RouteCallHolds(c)' /\ routeCalls'[c].step = "delete"
               /\ ~Unrouted(routeCalls'[c].channel)
    <3> PICK k \in MailForums : k = routes[l].channel /\ forums[k].made
      BY <1>1, <2>3 DEF GetRoute, Rows, RouteRows
    <3> PICK R \in SUBSET Roles : R = routes[l].roles
      BY <1>1 DEF RouteRows
    <3> PICK row : row = [step |-> "delete", part |-> l, channel |-> k, roles |-> R, left |-> R]
      OBVIOUS
    <3>1. row \in RouteCallRows /\ row.step = "delete" /\ row.channel = k
      BY DEF RouteCallRows, RouteSteps
    <3>2. routeCalls' = [routeCalls EXCEPT ![c] = row]
      BY <2>3 DEF GetRoute, VisibleRoleIDs
    <3>3. /\ routeCalls' \in [RouteCallers -> RouteCallRows] /\ routeCalls'[c] = row
          /\ \A d \in RouteCallers \ {c} : routeCalls'[d] = routeCalls[d]
      BY <1>1, <3>1, <3>2, RouteCallWritten
    <3> QED  BY <1>2, <3>1, <3>3 DEF RouteCallHolds, Busy, Unrouted
  <2> QED
    BY <2>1, <2>2, <2>3 DEF CreateRouteFails, DeleteRouteFails, DiscordFails, RouteIdle
<1>5. \A k \in MailForums, r \in Roles : Granting(c, k, r) => Admitted(k, r)'
  BY <1>1 DEF CreateRouteFails, DeleteRouteFails, DiscordFails, GetRoute, Granting, Admitted
<1>6. RolesAdmitted'
  BY <1>2, <1>3, <1>4, <1>5, AdmittedStay
<1> QED  BY <1>1, <1>2, <1>3, <1>4, <1>6, RoutesFrame DEF Busy

\* The row goes by the channel it was read with; nobody is locked out before
\* (DeleteRoute, LockChannel, ArchiveAllThreads).
LEMMA RouteDeleted ==
    ASSUME RoutesInv, NEW c \in RouteCallers,
           \/ DeleteRoute(c) \/ LockChannel(c) \/ ArchiveAllThreads(c)
           \/ \E r \in Roles : DeleteOverwrite(c, r)
    PROVE  RoutesInv'
<1>1. /\ forums \in [MailForums -> ForumRows] /\ routeCalls \in [RouteCallers -> RouteCallRows]
      /\ inquired \subseteq MailForums /\ troubled \subseteq MailForums
      /\ routes \in [LocalParts -> RouteRows] /\ RouteCallHolds(c)
      /\ \A l, j \in LocalParts :
           routes[l].channel = routes[j].channel => routes[l].channel = NoMailForum \/ l = j
  BY DEF RoutesInv
<1>2. /\ routeCalls[c].step \in {"delete", "lock", "remove", "archive"}
      /\ routeCalls[c].channel \in MailForums /\ inquired' = inquired
      /\ \A k, r : ~Granting(c, k, r)
  BY <1>1 DEF DeleteRoute, LockChannel, ArchiveAllThreads, DeleteOverwrite, RouteCallHolds, Busy,
              Granting
<1> PICK k \in MailForums : k = routeCalls[c].channel
  BY <1>2
<1> PICK old \in ForumRows : old = forums[k]
  BY <1>1
<1> PICK call \in RouteCallRows : call = routeCalls[c]
  BY <1>1
<1>3. forums[k].made /\ (routeCalls[c].step # "delete" => Unrouted(k))
  BY <1>1, <1>2 DEF RouteCallHolds, Busy
<1>4. troubled' \subseteq MailForums /\ troubled \subseteq troubled'
  BY <1>1 DEF DeleteRoute, LockChannel, ArchiveAllThreads, DeleteOverwrite
<1>5. /\ routes' \in [LocalParts -> RouteRows]
      /\ \A l \in LocalParts : routes'[l] = routes[l] \/ routes'[l].channel = NoMailForum
      /\ \A l \in LocalParts : routes'[l].channel # k
  <2>1. CASE DeleteRoute(c)
    <3> PICK l \in LocalParts : routes[l].channel = k /\ routes' = [routes EXCEPT ![l] = NoRoute]
      BY <2>1 DEF DeleteRoute, Deletes, RowOf, Rows, Delete
    <3>1. NoRoute \in RouteRows /\ NoRoute.channel = NoMailForum /\ NoMailForum # k
      BY MailRoutesAssumption DEF NoRoute, RouteRows
    <3> QED  BY <1>1, <3>1
  <2>2. CASE ~DeleteRoute(c)
    BY <1>1, <1>3, <2>2 DEF LockChannel, ArchiveAllThreads, DeleteOverwrite, Unrouted
  <2> QED  BY <2>1, <2>2
<1>6. /\ forums' \in [MailForums -> ForumRows]
      /\ \A j \in MailForums : /\ forums'[j].made = forums[j].made
                               /\ forums'[j].allowed = forums[j].allowed \/ (j = k /\ Unrouted(k))
  <2>1. \/ forums' = forums
        \/ forums' = [forums EXCEPT ![k] = [old EXCEPT !.denied = TRUE]]
        \/ \E posts \in {"none", "open", "archived"} :
              forums' = [forums EXCEPT ![k] = [old EXCEPT !.posts = posts]]
        \/ /\ Unrouted(k)
           /\ \E A \in SUBSET Roles : forums' = [forums EXCEPT ![k] = [old EXCEPT !.allowed = A]]
    <3>1. CASE DeleteRoute(c)  BY <3>1 DEF DeleteRoute
    <3>2. CASE LockChannel(c)  BY <1>1, <3>2 DEF LockChannel, Denied
    <3>3. CASE ArchiveAllThreads(c)
      <4>1. old.posts \in {"none", "open", "archived"}
        BY DEF ForumRows
      <4>2. forums' = [forums EXCEPT ![k] = [old EXCEPT !.posts =
                          IF old.posts = "open" THEN "archived" ELSE old.posts]]
        BY <1>1, <3>3 DEF ArchiveAllThreads
      <4> QED  BY <4>1, <4>2
    <3>4. ASSUME NEW r \in Roles, DeleteOverwrite(c, r)
          PROVE  \/ forums' = forums
                 \/ /\ Unrouted(k)
                    /\ \E A \in SUBSET Roles :
                          forums' = [forums EXCEPT ![k] = [old EXCEPT !.allowed = A]]
      <4>1. old.allowed \ {r} \in SUBSET Roles
        BY DEF ForumRows
      <4>2. Unrouted(k)
        BY <1>3, <3>4 DEF DeleteOverwrite
      <4>3. \/ forums' = forums
            \/ forums' = [forums EXCEPT ![k] = [old EXCEPT !.allowed = old.allowed \ {r}]]
        BY <1>1, <3>4 DEF DeleteOverwrite
      <4> QED  BY <4>1, <4>2, <4>3
    <3> QED  BY <3>1, <3>2, <3>3, <3>4
  <2>2. /\ \A posts \in {"none", "open", "archived"} :
              /\ [old EXCEPT !.posts = posts] \in ForumRows
              /\ [old EXCEPT !.posts = posts].allowed = old.allowed
              /\ [old EXCEPT !.posts = posts].made = old.made
        /\ \A A \in SUBSET Roles : /\ [old EXCEPT !.allowed = A] \in ForumRows
                                   /\ [old EXCEPT !.allowed = A].made = old.made
        /\ [old EXCEPT !.denied = TRUE] \in ForumRows
        /\ [old EXCEPT !.denied = TRUE].allowed = old.allowed
        /\ [old EXCEPT !.denied = TRUE].made = old.made
    BY DEF ForumRows
  <2>3. CASE forums' = forums  BY <1>1, <2>3
  <2>4. CASE \E row \in ForumRows :
               /\ forums' = [forums EXCEPT ![k] = row] /\ row.made = old.made
               /\ row.allowed = old.allowed \/ Unrouted(k)
    BY <1>1, <2>4
  <2>5. \/ forums' = forums
        \/ \E row \in ForumRows :
               /\ forums' = [forums EXCEPT ![k] = row] /\ row.made = old.made
               /\ row.allowed = old.allowed \/ Unrouted(k)
    BY <2>1, <2>2
  <2> QED  BY <2>3, <2>4, <2>5
<1>7. /\ routeCalls' \in [RouteCallers -> RouteCallRows]
      /\ \A d \in RouteCallers \ {c} : routeCalls'[d] = routeCalls[d]
      /\ \/ routeCalls'[c].step = "idle"
         \/ /\ routeCalls'[c].step \in {"lock", "remove", "archive"}
            /\ routeCalls'[c].channel = k
            /\ routeCalls'[c].step = "remove" => routeCalls'[c].left # {}
  <2>1. CASE RouteReturn(c)  BY <2>1, RouteCallSteps
  <2>2. CASE \E step \in {"lock", "remove", "archive"}, S \in SUBSET Roles :
               /\ routeCalls' = [routeCalls EXCEPT ![c] = [call EXCEPT !.step = step, !.left = S]]
               /\ step = "remove" => S # {}
    <3> PICK step \in {"lock", "remove", "archive"}, S \in SUBSET Roles :
               /\ routeCalls' = [routeCalls EXCEPT ![c] = [call EXCEPT !.step = step, !.left = S]]
               /\ step = "remove" => S # {}
      BY <2>2
    <3> PICK row : row = [call EXCEPT !.step = step, !.left = S]
      OBVIOUS
    <3>1. row \in RouteCallRows /\ row.step = step /\ row.left = S /\ row.channel = call.channel
      BY DEF RouteCallRows, RouteSteps
    <3> QED  BY <1>1, <3>1, RouteCallWritten
  <2>3. \/ RouteReturn(c)
        \/ \E step \in {"lock", "remove", "archive"}, S \in SUBSET Roles :
               /\ routeCalls' = [routeCalls EXCEPT ![c] = [call EXCEPT !.step = step, !.left = S]]
               /\ step = "remove" => S # {}
    <3>1. \A step : [call EXCEPT !.step = step] = [call EXCEPT !.step = step, !.left = call.left]
      BY DEF RouteCallRows
    <3>2. call.left \in SUBSET Roles
      BY DEF RouteCallRows
    <3>3. CASE DeleteRoute(c)
      <4>1. routeCalls' = [routeCalls EXCEPT ![c] = [call EXCEPT !.step = "lock"]]
        BY <1>1, <3>3 DEF DeleteRoute
      <4> QED  BY <3>1, <3>2, <4>1
    <3>4. CASE LockChannel(c)
      <4> PICK step \in {"remove", "archive"} :
             step = IF call.left = {} THEN "archive" ELSE "remove"
        OBVIOUS
      <4>1. routeCalls' = [routeCalls EXCEPT ![c] = [call EXCEPT !.step = step]]
        BY <1>1, <3>4 DEF LockChannel
      <4> QED  BY <3>1, <3>2, <4>1
    <3>5. CASE ArchiveAllThreads(c)  BY <3>5 DEF ArchiveAllThreads
    <3>6. ASSUME NEW r \in Roles, DeleteOverwrite(c, r)
          PROVE  \E step \in {"lock", "remove", "archive"}, S \in SUBSET Roles :
                   /\ routeCalls' = [routeCalls EXCEPT ![c] = [call EXCEPT !.step = step, !.left = S]]
                   /\ step = "remove" => S # {}
      <4> PICK S \in SUBSET Roles : S = call.left \ {r}
        BY <3>2
      <4> PICK step \in {"remove", "archive"} : step = IF S = {} THEN "archive" ELSE "remove"
        OBVIOUS
      <4>1. routeCalls' = [routeCalls EXCEPT ![c] = [call EXCEPT !.left = S, !.step = step]]
        BY <1>1, <3>6 DEF DeleteOverwrite
      <4>2. [call EXCEPT !.left = S, !.step = step] = [call EXCEPT !.step = step, !.left = S]
        BY DEF RouteCallRows
      <4> QED  BY <4>1, <4>2
    <3> QED  BY <3>3, <3>4, <3>5, <3>6
  <2> QED  BY <2>1, <2>2, <2>3
<1>8. RouteCallHolds(c)'
  BY <1>3, <1>5, <1>6, <1>7 DEF RouteCallHolds, Busy, Unrouted
<1>9. RolesAdmitted'
  <2>1. \A j \in MailForums : ~Unrouted(j) => forums[j].allowed \subseteq forums'[j].allowed
    BY <1>6
  <2> QED  BY <1>2, <1>4, <1>5, <1>7, <2>1, AdmittedStay
<1> QED
  BY <1>1, <1>2, <1>4, <1>5, <1>6, <1>7, <1>8, <1>9, RoutesFrame DEF Busy

\* Mail arrives and members write (RouteInquiry).
LEMMA PostsKeepRoutes ==
    ASSUME RoutesInv,
           (\E l \in LocalParts : RouteInquiry(l)) \/ \E k \in MailForums : MemberPosts(k)
    PROVE  RoutesInv'
<1>1. /\ forums \in [MailForums -> ForumRows] /\ inquired \subseteq MailForums
      /\ routes \in [LocalParts -> RouteRows]
  BY DEF RoutesInv
<1>2. UNCHANGED <<routes, routeCalls, troubled>>
  BY DEF RouteInquiry, MemberPosts
<1>3. PICK k \in MailForums : /\ forums' = [forums EXCEPT ![k].posts = "open"]
                              /\ inquired' \subseteq inquired \cup {k}
  BY <1>1 DEF RouteInquiry, MemberPosts, GetByLocalPart, Rows, RouteRows
<1> PICK old \in ForumRows : old = forums[k]
  BY <1>1
<1>4. /\ [old EXCEPT !.posts = "open"] \in ForumRows
      /\ [old EXCEPT !.posts = "open"].allowed = old.allowed
      /\ [old EXCEPT !.posts = "open"].made = old.made
  BY DEF ForumRows
<1>5. forums' = [forums EXCEPT ![k] = [old EXCEPT !.posts = "open"]]
  BY <1>1, <1>3
<1>6. /\ forums' \in [MailForums -> ForumRows]
      /\ \A j \in MailForums : /\ forums'[j].made = forums[j].made
                               /\ forums'[j].allowed = forums[j].allowed
  BY <1>1, <1>4, <1>5
<1>7. RolesAdmitted'
  <2>1. \A k_1 \in MailForums, r \in Roles : Admitted(k_1, r) => Admitted(k_1, r)'
    BY <1>2, <1>6 DEF Admitted, Granting
  <2> QED  BY <1>2, <2>1, MailRoutesAssumption DEF RoutesInv, RolesAdmitted, RouteRows
<1>8. \A c \in RouteCallers : RouteCallHolds(c)'
  BY <1>2, <1>6 DEF RoutesInv, RouteCallHolds, Busy, Unrouted
<1>9. \A l \in LocalParts : routes'[l].channel # NoMailForum => forums'[routes'[l].channel].made
  BY <1>1, <1>2, <1>6 DEF RoutesInv, RouteRows
<1> QED  BY <1>1, <1>2, <1>3, <1>6, <1>7, <1>8, <1>9 DEF RoutesInv, Busy

\* The roles a route names see its channel once nobody works on it, and a row
\* goes only by a deletion that read it, for any number of routes, roles and
\* requests (ApplyChannelVisibility, DeleteRoute).
THEOREM RoutesAndDiscordAgree == RoutesSpec => RoutesAgree
<1> DEFINE Read == \A l \in Rows : routes'[l].channel # routes[l].channel => RowGoes(l)
<1>1. RoutesInit => RoutesInv
  <2> SUFFICES ASSUME RoutesInit PROVE RoutesInv
    OBVIOUS
  <2>1. /\ routes \in [LocalParts -> RouteRows]
        /\ \A l \in LocalParts : routes[l].channel = NoMailForum
    BY DEF RoutesInit, NoRoute, RouteRows
  <2>2. forums \in [MailForums -> ForumRows]
    BY DEF RoutesInit, NoForum, ForumRows
  <2>3. /\ routeCalls \in [RouteCallers -> RouteCallRows]
        /\ \A c \in RouteCallers : routeCalls[c].step = "idle"
    BY DEF RoutesInit, RouteIdle, RouteCallRows, RouteSteps
  <2> QED  BY <2>1, <2>2, <2>3 DEF RoutesInit, RoutesInv, RouteCallHolds, Busy, RolesAdmitted
<1>2. RoutesInv /\ RoutesNext => RoutesInv'
  <2> SUFFICES ASSUME RoutesInv, RoutesNext PROVE RoutesInv'
    OBVIOUS
  <2>1. ASSUME NEW c \in RouteCallers, RouteRequests(c) PROVE RoutesInv'
    BY <2>1, ForumMade, RowsWritten, RouteCallsEnd, VisibilityApplied DEF RouteRequests
  <2>2. ASSUME NEW c \in RouteCallers, RouteDeletions(c) PROVE RoutesInv'
    BY <2>2, RouteDeleted, RouteCallsEnd DEF RouteDeletions
  <2> QED  BY <2>1, <2>2, PostsKeepRoutes DEF RoutesNext
<1>3. RoutesInv /\ UNCHANGED routeVars => RoutesInv'
  BY DEF RoutesInv, routeVars, RouteCallHolds, Busy, Unrouted, RolesAdmitted, Admitted, Granting
<1>4. RoutesInv /\ RoutesNext => Read
  <2> SUFFICES ASSUME RoutesInv, RoutesNext, NEW l \in Rows,
                      routes'[l].channel # routes[l].channel
               PROVE  RowGoes(l)
    OBVIOUS
  <2>1. /\ routes \in [LocalParts -> RouteRows] /\ l \in LocalParts
        /\ routes[l].channel # NoMailForum
    BY DEF RoutesInv, Rows
  <2>2. \A c \in RouteCallers : DeleteRoute(c) => RowGoes(l)
    <3> SUFFICES ASSUME NEW c \in RouteCallers, DeleteRoute(c) PROVE RowGoes(l)
      OBVIOUS
    <3>1. PICK j \in RowOf(routeCalls[c].channel) : routes' = [routes EXCEPT ![j] = NoRoute]
      BY DEF DeleteRoute, Deletes, Delete
    <3>2. l = j
      BY <2>1, <3>1
    <3> QED  BY <3>1, <3>2 DEF DeleteRoute, RowGoes, RowOf
  <2>3. \A c \in RouteCallers : ~CreateRoute(c)
    <3> SUFFICES ASSUME NEW c \in RouteCallers, CreateRoute(c) PROVE FALSE
      OBVIOUS
    <3>1. routeCalls[c].part \notin Rows
      BY DEF CreateRoute
    <3> QED  BY <2>1, <3>1 DEF CreateRoute, Create
  <2>4. \A c \in RouteCallers, j \in LocalParts, R \in SUBSET Roles : ~UpdateRoute(c, j, R)
    <3> SUFFICES ASSUME NEW j \in LocalParts, NEW R \in SUBSET Roles,
                        routes' = [routes EXCEPT ![j].roles = R]
                 PROVE  FALSE
      BY DEF UpdateRoute, Update
    <3> QED  BY <2>1 DEF RouteRows
  <2> QED
    BY <2>2, <2>3, <2>4
       DEF RoutesNext, RouteRequests, RouteDeletions, CreateForumChannel, CreateRouteFails,
           DenyEveryone, ApplyChannelVisibility, GetRoute, DeleteRouteFails, LockChannel,
           DeleteOverwrite, ArchiveAllThreads, DiscordFails, RouteInquiry, MemberPosts
<1>5. RoutesInv => RoutesTypeOK /\ PickedSee
  <2> SUFFICES ASSUME RoutesInv PROVE RoutesTypeOK /\ PickedSee
    OBVIOUS
  <2>1. RoutesTypeOK
    BY DEF RoutesInv, RoutesTypeOK, RouteRows, ForumRows, RouteCallRows, RouteSteps, RouteCallHolds
  <2>2. PickedSee
    <3> SUFFICES ASSUME NEW l \in Rows, ~Working(routes[l].channel),
                        routes[l].channel \notin troubled, NEW r \in routes[l].roles
                 PROVE  Sees(r, routes[l].channel)
      BY DEF PickedSee, VisibleRoleIDs
    <3>1. Admitted(routes[l].channel, r)
      BY DEF RoutesInv, RolesAdmitted, Rows
    <3> QED  BY <3>1 DEF Admitted, Granting, Working, Sees
  <2> QED  BY <2>1, <2>2
<1>6. RoutesInv /\ [RoutesNext]_routeVars => RoutesInv'
  BY <1>2, <1>3
<1>7. RoutesInv /\ [RoutesNext]_routeVars => [Read]_routeVars
  BY <1>4
<1> QED
  BY <1>1, <1>5, <1>6, <1>7, PTL DEF RoutesSpec, RoutesAgree, DeletesWhatItRead

-----------------------------------------------------------------------------
(***************************************************************************)
(* Mail desk.                                                              *)

CaseRows ==
    [kind : Kinds \cup {"none"}, from : People \cup {NoOne},
     thread : ThreadIds \cup {NoThread}, status : {"pending", "accepted", "rejected"},
     heard : SUBSET MailIds, files : SUBSET MailIds, receipt : BOOLEAN]

ThreadRows == [about : CaseIds \cup {NoCase}, shows : SUBSET MailIds]

Opening == {"attach", "open", "link", "note"}
Hearing == {"record", "post"}
Reporting == {"receipt", "forum", "linkReport"}
IntakeSteps == {"idle", "row"} \cup Opening \cup Hearing \cup Reporting

IntakeRows ==
    [step : IntakeSteps, case : CaseIds \cup {NoCase}, mail : MailIds \cup {"none"},
     thread : ThreadIds \cup {NoThread}, from : People \cup {NoOne}]

Opens(c, i) == intakes[c].step \in Opening /\ intakes[c].case = i

\* What a request between two of its steps can rely on: an inquiry has no
\* thread and has heard nothing before its request links and notes it, a reply
\* goes to the thread its case has, and a report still has its file.
IntakeHolds(c) ==
    /\ intakes[c].step # "idle" => intakes[c].mail \in MailIds
    /\ intakes[c].step \in Opening \cup Hearing \cup Reporting => intakes[c].case \in CaseIds
    /\ intakes[c].step \in Opening => cases[intakes[c].case].kind = "inquiry"
    /\ intakes[c].step \in {"attach", "open", "link"} =>
           /\ cases[intakes[c].case].thread = NoThread
           /\ cases[intakes[c].case].heard = {}
    /\ intakes[c].step \in {"link", "note", "linkReport"} =>
           /\ intakes[c].thread \in ThreadIds
           /\ threads[intakes[c].thread].about = intakes[c].case
    /\ intakes[c].step \in {"link", "note"} =>
           intakes[c].mail \in threads[intakes[c].thread].shows
    /\ intakes[c].step = "note" =>
           cases[intakes[c].case].thread \in {NoThread, intakes[c].thread}
    /\ intakes[c].step \in Hearing =>
           /\ cases[intakes[c].case].kind \in {"application", "inquiry"}
           /\ intakes[c].thread = cases[intakes[c].case].thread
           /\ intakes[c].thread \in ThreadIds
    /\ intakes[c].step = "row" =>
           /\ intakes[c].mail \in objects
           /\ \A i \in CaseIds : intakes[c].mail \notin cases[i].files
    /\ intakes[c].step \in Reporting =>
           /\ cases[intakes[c].case].kind = "report"
           /\ cases[intakes[c].case].files = {intakes[c].mail}
           /\ intakes[c].mail \in objects

\* A reply went to the person of the case its thread was opened for.
MailedHolds(r) ==
    /\ r.case \in CaseIds /\ r.thread \in ThreadIds
    /\ threads[r.thread].about = r.case
    /\ cases[r.case].kind # "none" /\ cases[r.case].from = r.to
    /\ cases[r.case].kind \in {"application", "inquiry"} => cases[r.case].thread # NoThread

\* A case's thread is about the case, and a mail that an inquiry heard is in
\* it, on its way there, or was not posted; a receipt stands for a file.
CaseHolds(i) ==
    /\ cases[i].thread # NoThread =>
           cases[i].kind # "none" /\ threads[cases[i].thread].about = i
    /\ cases[i].kind = "inquiry" /\ cases[i].thread # NoThread =>
           \A m \in cases[i].heard :
               \/ m \in threads[cases[i].thread].shows \cup unposted
               \/ \E c \in Intakes : /\ intakes[c].step = "post" /\ intakes[c].mail = m
                                     /\ intakes[c].case = i
    /\ cases[i].receipt => cases[i].kind = "report" /\ cases[i].files \subseteq objects

SameMail(c, d) ==
    /\ intakes[c].step # "idle" /\ intakes[d].step # "idle"
    /\ intakes[c].mail = intakes[d].mail

SameInquiry(c, d) ==
    /\ intakes[c].step \in Opening /\ intakes[d].step \in Opening
    /\ intakes[c].case = intakes[d].case

DeskInv ==
    /\ cases \in [CaseIds -> CaseRows] /\ threads \in [ThreadIds -> ThreadRows]
    /\ intakes \in [Intakes -> IntakeRows]
    /\ objects \subseteq MailIds /\ unposted \subseteq MailIds
    /\ \A c \in Intakes : IntakeHolds(c)
    /\ \A i \in CaseIds : CaseHolds(i)
    /\ \A t \in ThreadIds : IF threads[t].about = NoCase THEN threads[t].shows = {}
                            ELSE cases[threads[t].about].kind # "none"
    /\ \A r \in mailed : MailedHolds(r)
    /\ \A c, d \in Intakes : SameMail(c, d) \/ SameInquiry(c, d) => c = d

\* What becomes of a case in a step of the requests C (at most one of them).
RowFollows(C, i, old, new) ==
    /\ old.kind # "none" => /\ new.kind = old.kind /\ new.from = old.from
                            /\ old.thread # NoThread => new.thread = old.thread
    /\ old.kind = "inquiry" /\ old.thread = NoThread
       /\ (new.thread # old.thread \/ new.heard # old.heard) => \E c \in C : Opens(c, i)
    /\ old.kind = "report" => new.files = old.files
    /\ \A m \in new.files :
           m \in old.files \/ \E c \in C : intakes[c].step # "idle" /\ intakes[c].mail = m
    /\ new.thread # old.thread /\ new.thread # NoThread =>
           new.kind # "none" /\ threads'[new.thread].about = i
    /\ new.kind = "inquiry" /\ new.thread # old.thread => new.heard = {}
    /\ \A m \in new.heard :
           \/ m \in old.heard \/ new.kind # "inquiry" \/ new.thread = NoThread
           \/ m \in threads'[new.thread].shows
           \/ \E c \in C : /\ intakes'[c].step = "post" /\ intakes'[c].mail = m
                           /\ intakes'[c].case = i
    /\ new.receipt => old.receipt \/ (old.kind = "report" /\ old.files \subseteq objects')

ThreadFollows(old, new) ==
    /\ old.about # NoCase => new.about = old.about
    /\ old.shows \subseteq new.shows
    /\ new.about # old.about => cases'[new.about].kind # "none"
    /\ new.about = NoCase => new.shows = {}

IntakeFollows(old, new) ==
    /\ new.step # "idle" =>
           (old.step # "idle" /\ new.mail = old.mail) \/ new.mail \in FreeMails
    /\ new.step \in Opening =>
           (old.step \in Opening /\ new.case = old.case) \/ cases[new.case].kind = "none"
    /\ old.step = "post" => old.mail \in unposted' \cup threads'[old.thread].shows

\* What nobody takes back: what a case is, that it has a thread, and what a
\* thread is about.
Grows ==
    /\ \A i \in CaseIds : cases[i].kind # "none" =>
           /\ cases'[i].kind = cases[i].kind /\ cases'[i].from = cases[i].from
           /\ cases[i].thread # NoThread => cases'[i].thread = cases[i].thread
    /\ \A t \in ThreadIds : threads[t].about # NoCase => threads'[t].about = threads[t].about

\* A mail that nobody handed in before.
LEMMA FreeMailUnused ==
    ASSUME NEW m \in FreeMails
    PROVE  /\ m \in MailIds /\ m \notin objects
           /\ \A c \in Intakes : intakes[c].mail # m
           /\ \A i \in CaseIds : m \notin cases[i].heard /\ m \notin cases[i].files
<1>1. \A i \in CaseIds : cases[i].heard \cup cases[i].files \subseteq Used
  <2> SUFFICES ASSUME NEW i \in CaseIds, NEW x \in cases[i].heard \cup cases[i].files
               PROVE  x \in UNION {cases[j].heard \cup cases[j].files : j \in CaseIds}
    BY DEF Used
  <2>1. cases[i].heard \cup cases[i].files \in {cases[j].heard \cup cases[j].files : j \in CaseIds}
    OBVIOUS
  <2> QED  BY <2>1
<1>2. \A c \in Intakes : intakes[c].mail \in Used
  BY DEF Used
<1>3. objects \subseteq Used
  BY DEF Used
<1> QED  BY <1>1, <1>2, <1>3 DEF FreeMails

\* A step of at most one request, and what the others still know after it.
LEMMA DeskFrame ==
    ASSUME DeskInv, NEW C \in SUBSET Intakes, \A c, d \in C : c = d,
           cases' \in [CaseIds -> CaseRows], threads' \in [ThreadIds -> ThreadRows],
           intakes' \in [Intakes -> IntakeRows], objects' \subseteq MailIds,
           unposted' \subseteq MailIds, unposted \subseteq unposted',
           \A i \in CaseIds : RowFollows(C, i, cases[i], cases'[i]),
           \A t \in ThreadIds : ThreadFollows(threads[t], threads'[t]),
           \A m \in objects \ objects' :
              \E c \in C : intakes[c].step = "row" /\ intakes[c].mail = m,
           \A r \in mailed' : r \in mailed \/ MailedHolds(r),
           \A d \in Intakes \ C : intakes'[d] = intakes[d],
           \A c \in C : IntakeHolds(c)' /\ IntakeFollows(intakes[c], intakes'[c])
    PROVE  DeskInv' /\ Grows
<1>1. /\ cases \in [CaseIds -> CaseRows] /\ threads \in [ThreadIds -> ThreadRows]
      /\ intakes \in [Intakes -> IntakeRows] /\ objects \subseteq MailIds
      /\ \A c \in Intakes : IntakeHolds(c)
      /\ \A i \in CaseIds : CaseHolds(i)
      /\ \A r \in mailed : MailedHolds(r)
      /\ \A c, d \in Intakes : SameMail(c, d) \/ SameInquiry(c, d) => c = d
  BY DEF DeskInv
<1>2. NoCase \notin CaseIds /\ NoThread \notin ThreadIds
  BY MailDeskAssumption
<1>3. ASSUME NEW t \in ThreadIds, threads[t].about \in CaseIds
      PROVE  threads'[t].about = threads[t].about
  BY <1>2, <1>3 DEF ThreadFollows
<1>4. ASSUME NEW d \in Intakes \ C PROVE IntakeHolds(d)'
  <2>1. intakes'[d] = intakes[d] /\ IntakeHolds(d) /\ d \in Intakes
    BY <1>1
  <2> PICK i : i = intakes[d].case
    OBVIOUS
  <2> PICK step : step = intakes[d].step
    OBVIOUS
  <2>2. step \in Opening \cup Hearing \cup Reporting =>
           /\ i \in CaseIds /\ RowFollows(C, i, cases[i], cases'[i])
           /\ cases[i].kind # "none" /\ cases'[i].kind = cases[i].kind
    BY <2>1 DEF IntakeHolds, Opening, Hearing, Reporting, RowFollows
  <2>3. step \in Opening => /\ cases'[i].thread = cases[i].thread
                            /\ cases[i].thread = NoThread => cases'[i].heard = cases[i].heard
    <3> SUFFICES ASSUME step \in Opening
                 PROVE  /\ cases'[i].thread = cases[i].thread
                        /\ cases[i].thread = NoThread => cases'[i].heard = cases[i].heard
      OBVIOUS
    <3>1. cases[i].kind = "inquiry" /\ ~\E c \in C : Opens(c, i)
      BY <1>1, <2>1 DEF IntakeHolds, Opens, SameInquiry
    <3> QED  BY <2>2, <3>1 DEF RowFollows
  <2>4. step \in {"link", "note", "linkReport"} =>
            /\ intakes[d].thread \in ThreadIds /\ threads'[intakes[d].thread].about = i
            /\ threads[intakes[d].thread].shows \subseteq threads'[intakes[d].thread].shows
    BY <1>3, <2>1, <2>2 DEF IntakeHolds, ThreadFollows, Opening, Reporting
  <2>5. step \in Hearing => /\ cases'[i].thread = cases[i].thread
                            /\ cases[i].thread \in ThreadIds
    BY <1>2, <2>1, <2>2 DEF IntakeHolds, RowFollows
  <2>6. step \in Reporting => cases'[i].files = cases[i].files
    BY <2>1, <2>2 DEF IntakeHolds, RowFollows
  <2>7. step # "idle" => \A c \in C : intakes[c].step # "idle" => intakes[c].mail # intakes[d].mail
    BY <1>1 DEF SameMail
  <2>8. step # "idle" /\ intakes[d].mail \in objects => intakes[d].mail \in objects'
    BY <2>7
  <2>9. step = "row" => \A j \in CaseIds : intakes[d].mail \notin cases'[j].files
    BY <2>1, <2>7 DEF IntakeHolds, RowFollows
  <2> QED
    BY <2>1, <2>2, <2>3, <2>4, <2>5, <2>6, <2>8, <2>9
       DEF IntakeHolds, Opening, Hearing, Reporting
<1>5. ASSUME NEW i \in CaseIds PROVE CaseHolds(i)'
  <2>1. RowFollows(C, i, cases[i], cases'[i]) /\ CaseHolds(i)
    BY <1>1
  <2>2. cases[i] \in CaseRows /\ cases'[i] \in CaseRows
    BY <1>1
  <2>3. cases'[i].thread # NoThread =>
           cases'[i].kind # "none" /\ threads'[cases'[i].thread].about = i
    <3>1. CASE cases'[i].thread # cases[i].thread
      BY <2>1, <3>1 DEF RowFollows
    <3>2. CASE cases'[i].thread = cases[i].thread /\ cases[i].thread # NoThread
      BY <1>3, <2>1, <2>2, <3>2 DEF RowFollows, CaseHolds, CaseRows
    <3> QED  BY <3>1, <3>2
  <2>4. ASSUME cases'[i].kind = "inquiry", cases'[i].thread # NoThread, NEW m \in cases'[i].heard
        PROVE  \/ m \in threads'[cases'[i].thread].shows \cup unposted'
               \/ \E c \in Intakes : /\ intakes'[c].step = "post" /\ intakes'[c].mail = m
                                     /\ intakes'[c].case = i
    <3>1. CASE m \notin cases[i].heard
      BY <2>1, <2>4, <3>1 DEF RowFollows
    <3>2. CASE m \in cases[i].heard
      <4>1. cases[i].thread = cases'[i].thread /\ cases[i].kind = "inquiry"
        BY <2>1, <2>4, <3>2 DEF RowFollows, CaseHolds
      <4>2. cases[i].thread \in ThreadIds
        BY <2>2, <2>4, <4>1 DEF CaseRows
      <4>3. threads[cases[i].thread].shows \subseteq threads'[cases[i].thread].shows
        BY <4>2 DEF ThreadFollows
      <4>4. CASE m \in threads[cases[i].thread].shows \cup unposted
        BY <4>1, <4>3, <4>4
      <4>5. ASSUME NEW c \in Intakes, intakes[c].step = "post", intakes[c].mail = m,
                   intakes[c].case = i
            PROVE  \/ m \in threads'[cases'[i].thread].shows \cup unposted'
                   \/ \E d \in Intakes : /\ intakes'[d].step = "post" /\ intakes'[d].mail = m
                                         /\ intakes'[d].case = i
        <5>1. CASE c \notin C  BY <4>5, <5>1
        <5>2. CASE c \in C
          <6>1. intakes[c].thread = cases[i].thread
            BY <1>1, <4>5 DEF IntakeHolds, Hearing
          <6> QED  BY <4>1, <4>5, <5>2, <6>1 DEF IntakeFollows
        <5> QED  BY <5>1, <5>2
      <4> QED  BY <2>1, <2>4, <3>2, <4>1, <4>4, <4>5 DEF CaseHolds
    <3> QED  BY <3>1, <3>2
  <2>5. ASSUME cases'[i].receipt
        PROVE  cases'[i].kind = "report" /\ cases'[i].files \subseteq objects'
    <3>1. cases[i].kind = "report"
      BY <2>1, <2>2, <2>5 DEF RowFollows, CaseHolds, CaseRows
    <3>2. cases'[i].kind = "report" /\ cases'[i].files = cases[i].files
      BY <2>1, <3>1 DEF RowFollows
    <3>3. CASE cases[i].receipt
      <4> SUFFICES ASSUME NEW m \in cases[i].files, m \notin objects' PROVE FALSE
        BY <3>2
      <4>1. m \in objects
        BY <2>1, <3>3 DEF CaseHolds
      <4> PICK c \in C : intakes[c].step = "row" /\ intakes[c].mail = m
        BY <4>1
      <4> QED  BY <1>1 DEF IntakeHolds
    <3> QED  BY <2>1, <2>5, <3>2, <3>3 DEF RowFollows
  <2> QED  BY <2>3, <2>4, <2>5 DEF CaseHolds
<1>6. ASSUME NEW t \in ThreadIds
      PROVE  IF threads'[t].about = NoCase THEN threads'[t].shows = {}
             ELSE cases'[threads'[t].about].kind # "none"
  <2>1. CASE threads'[t].about # threads[t].about
    BY <2>1 DEF ThreadFollows
  <2>2. CASE threads'[t].about = threads[t].about /\ threads[t].about # NoCase
    <3>1. threads[t].about \in CaseIds
      BY <1>1, <2>2 DEF ThreadRows
    <3> QED  BY <2>2, <3>1 DEF DeskInv, RowFollows
  <2> QED  BY <2>1, <2>2 DEF ThreadFollows
<1>7. ASSUME NEW r \in mailed' PROVE MailedHolds(r)'
  <2>1. MailedHolds(r)
    BY <1>1, <1>7
  <2>2. r.case \in CaseIds /\ RowFollows(C, r.case, cases[r.case], cases'[r.case])
    BY <2>1 DEF MailedHolds
  <2> QED  BY <1>3, <2>1, <2>2 DEF MailedHolds, RowFollows
<1>8. ASSUME NEW c \in Intakes, NEW d \in Intakes, SameMail(c, d)' PROVE c = d
  <2>1. \A x \in C : \A y \in Intakes \ C : ~SameMail(x, y)' /\ ~SameMail(y, x)'
    BY <1>1, FreeMailUnused DEF IntakeFollows, SameMail
  <2>2. CASE c \notin C /\ d \notin C  BY <1>1, <1>8, <2>2 DEF SameMail
  <2> QED  BY <1>8, <2>1, <2>2
<1>9. ASSUME NEW c \in Intakes, NEW d \in Intakes, SameInquiry(c, d)' PROVE c = d
  <2>1. \A x \in C : \A y \in Intakes \ C : ~SameInquiry(x, y)' /\ ~SameInquiry(y, x)'
    BY <1>1 DEF IntakeFollows, IntakeHolds, SameInquiry
  <2>2. CASE c \notin C /\ d \notin C  BY <1>1, <1>9, <2>2 DEF SameInquiry
  <2> QED  BY <1>9, <2>1, <2>2
<1>10. Grows
  BY DEF Grows, RowFollows, ThreadFollows
<1>11. DeskInv'
  BY <1>4, <1>5, <1>6, <1>7, <1>8, <1>9 DEF DeskInv
<1> QED  BY <1>10, <1>11

LEMMA IntakeWritten ==
    ASSUME intakes \in [Intakes -> IntakeRows], NEW c \in Intakes, NEW row \in IntakeRows,
           intakes' = [intakes EXCEPT ![c] = row]
    PROVE  /\ intakes' \in [Intakes -> IntakeRows] /\ intakes'[c] = row
           /\ \A d \in Intakes \ {c} : intakes'[d] = intakes[d]
  OBVIOUS

LEMMA IntakeMoves ==
    ASSUME intakes \in [Intakes -> IntakeRows], NEW c \in Intakes, NEW step \in IntakeSteps,
           IntakeStep(c, step)
    PROVE  /\ intakes' \in [Intakes -> IntakeRows]
           /\ intakes'[c].step = step /\ intakes'[c].case = intakes[c].case
           /\ intakes'[c].mail = intakes[c].mail /\ intakes'[c].thread = intakes[c].thread
           /\ \A d \in Intakes \ {c} : intakes'[d] = intakes[d]
<1> PICK old \in IntakeRows : old = intakes[c]
  OBVIOUS
<1> PICK row : row = [old EXCEPT !.step = step]
  OBVIOUS
<1>1. /\ row \in IntakeRows /\ row.step = step /\ row.case = old.case /\ row.mail = old.mail
      /\ row.thread = old.thread
  BY DEF IntakeRows
<1>2. intakes' = [intakes EXCEPT ![c] = row]
  BY DEF IntakeStep
<1> QED  BY <1>1, <1>2, IntakeWritten

LEMMA IntakeReturns ==
    ASSUME intakes \in [Intakes -> IntakeRows], NEW c \in Intakes, IntakeEnds(c)
    PROVE  /\ intakes' \in [Intakes -> IntakeRows] /\ intakes'[c].step = "idle"
           /\ \A d \in Intakes \ {c} : intakes'[d] = intakes[d]
           /\ IntakeHolds(c)'
<1>1. IntakeIdle \in IntakeRows /\ IntakeIdle.step = "idle"
  BY DEF IntakeIdle, IntakeRows, IntakeSteps
<1>2. /\ intakes' \in [Intakes -> IntakeRows] /\ intakes'[c].step = "idle"
      /\ \A d \in Intakes \ {c} : intakes'[d] = intakes[d]
  BY <1>1, IntakeWritten DEF IntakeEnds
<1> QED  BY <1>2 DEF IntakeHolds, Opening, Hearing, Reporting

LEMMA CasesStand ==
    ASSUME DeskInv, UNCHANGED cases, NEW C \in SUBSET Intakes
    PROVE  /\ cases' \in [CaseIds -> CaseRows]
           /\ \A i \in CaseIds : RowFollows(C, i, cases[i], cases'[i])
  BY DEF DeskInv, RowFollows, CaseRows

LEMMA CaseWritten ==
    ASSUME DeskInv, NEW C \in SUBSET Intakes, NEW i \in CaseIds, NEW row \in CaseRows,
           cases' = [cases EXCEPT ![i] = row], RowFollows(C, i, cases[i], row)
    PROVE  /\ cases' \in [CaseIds -> CaseRows] /\ cases'[i] = row
           /\ \A j \in CaseIds \ {i} : cases'[j] = cases[j]
           /\ \A j \in CaseIds : RowFollows(C, j, cases[j], cases'[j])
<1>1. /\ cases' \in [CaseIds -> CaseRows] /\ cases'[i] = row
      /\ \A j \in CaseIds \ {i} : cases'[j] = cases[j]
  BY DEF DeskInv
<1>2. \A j \in CaseIds \ {i} : RowFollows(C, j, cases[j], cases[j])
  BY DEF DeskInv, RowFollows, CaseRows
<1> QED  BY <1>1, <1>2

LEMMA ThreadsStand ==
    ASSUME DeskInv, UNCHANGED threads
    PROVE  /\ threads' \in [ThreadIds -> ThreadRows]
           /\ \A t \in ThreadIds : ThreadFollows(threads[t], threads'[t])
  BY DEF DeskInv, ThreadFollows, ThreadRows

\* A free number is the number of no case that anything refers to.
LEMMA CaseInserted ==
    ASSUME DeskInv, NEW C \in SUBSET Intakes, NEW i \in FreeCases, NEW kind \in Kinds,
           NEW p \in People \cup {NoOne},
           cases' = Insert(i, kind, p)
    PROVE  /\ cases' \in [CaseIds -> CaseRows]
           /\ \A j \in CaseIds : RowFollows(C, j, cases[j], cases'[j])
           /\ cases'[i].kind = kind /\ cases'[i].thread = NoThread /\ cases'[i].heard = {}
           /\ i \in CaseIds
<1> PICK row : row = [NoRowYet EXCEPT !.kind = kind, !.from = p]
  OBVIOUS
<1>1. /\ row \in CaseRows /\ row.kind = kind /\ row.thread = NoThread /\ row.heard = {}
      /\ row.files = {} /\ row.receipt = FALSE /\ kind # "none"
  BY DEF NoRowYet, CaseRows, Kinds
<1>2. i \in CaseIds /\ cases[i].kind = "none" /\ cases[i].thread = NoThread
  BY DEF FreeCases, DeskInv, CaseHolds
<1>3. RowFollows(C, i, cases[i], row)
  BY <1>1, <1>2 DEF RowFollows
<1>4. cases' = [cases EXCEPT ![i] = row]
  BY DEF Insert
<1>5. /\ cases' \in [CaseIds -> CaseRows] /\ cases'[i] = row
      /\ \A j \in CaseIds : RowFollows(C, j, cases[j], cases'[j])
  <2>1. i \in CaseIds /\ row \in CaseRows
    BY <1>1, <1>2
  <2>2. cases' \in [CaseIds -> CaseRows] /\ cases'[i] = row
    BY <1>3, <1>4, <2>1, CaseWritten
  <2>3. \A j \in CaseIds \ {i} : cases'[j] = cases[j]
    BY <1>3, <1>4, <2>1, CaseWritten
  <2>4. \A j \in CaseIds \ {i} : RowFollows(C, j, cases[j], cases'[j])
    BY <2>3 DEF DeskInv, RowFollows, CaseRows
  <2> QED  BY <1>3, <2>2, <2>4
<1> QED  BY <1>1, <1>2, <1>5

\* A mail becomes an inquiry (IntakeFromEmail).
LEMMA InquiryTaken ==
    ASSUME DeskInv, NEW c \in Intakes, NEW m \in MailIds, NEW p \in People,
           IntakeFromEmail(c, m, p)
    PROVE  DeskInv' /\ Grows
<1>1. PICK i \in FreeCases : /\ cases' = Insert(i, "inquiry", p)
                             /\ intakes' = [intakes EXCEPT ![c] =
                                    [step |-> "attach", case |-> i, mail |-> m,
                                     thread |-> NoThread, from |-> p]]
  BY DEF IntakeFromEmail
<1>2. /\ m \in FreeMails /\ intakes[c].step = "idle" /\ i \in CaseIds /\ cases[i].kind = "none"
      /\ UNCHANGED <<threads, objects, mailed, unposted>>
  BY DEF IntakeFromEmail, FreeCases
<1>3. /\ cases' \in [CaseIds -> CaseRows]
      /\ \A j \in CaseIds : RowFollows({c}, j, cases[j], cases'[j])
      /\ cases'[i].kind = "inquiry" /\ cases'[i].thread = NoThread /\ cases'[i].heard = {}
  BY <1>1, CaseInserted DEF Kinds
<1> PICK row : row = [step |-> "attach", case |-> i, mail |-> m, thread |-> NoThread, from |-> p]
  OBVIOUS
<1>4. /\ row \in IntakeRows /\ row.step = "attach" /\ row.case = i /\ row.mail = m
  BY <1>2 DEF IntakeRows, IntakeSteps, Opening
<1>5. /\ intakes' \in [Intakes -> IntakeRows] /\ intakes'[c] = row
      /\ \A d \in Intakes \ {c} : intakes'[d] = intakes[d]
  BY <1>1, <1>4, IntakeWritten DEF DeskInv
<1>6. IntakeHolds(c)'
  BY <1>2, <1>3, <1>4, <1>5 DEF IntakeHolds, Opening, Hearing, Reporting
<1>7. IntakeFollows(intakes[c], intakes'[c])
  BY <1>2, <1>4, <1>5 DEF IntakeFollows
<1>8. objects' \subseteq MailIds /\ unposted' \subseteq MailIds
  BY <1>2 DEF DeskInv
<1> QED  BY <1>2, <1>3, <1>5, <1>6, <1>7, <1>8, ThreadsStand, DeskFrame

\* Who answers a reply had it from a thread (Known).
LEMMA KnownHaveThreads ==
    ASSUME DeskInv, NEW p, NEW i \in Known(p)
    PROVE  /\ i \in CaseIds /\ cases[i].kind \in {"application", "inquiry"}
           /\ cases[i].thread \in ThreadIds
  BY DEF Known, DeskInv, MailedHolds, CaseRows

\* A mail goes to a case that is there (HandleInboundReply).
LEMMA ReplyTaken ==
    ASSUME DeskInv, NEW c \in Intakes, NEW m \in MailIds, NEW p \in People,
           HandleInboundReply(c, m, p)
    PROVE  DeskInv' /\ Grows
<1>1. PICK i \in Known(p) : intakes' = [intakes EXCEPT ![c] =
                                [step |-> "record", case |-> i, mail |-> m,
                                 thread |-> cases[i].thread, from |-> p]]
  BY DEF HandleInboundReply, ThreadOf
<1>2. /\ m \in FreeMails /\ intakes[c].step = "idle"
      /\ UNCHANGED <<cases, threads, objects, mailed, unposted>>
  BY DEF HandleInboundReply
<1>3. /\ i \in CaseIds /\ cases[i].kind \in {"application", "inquiry"}
      /\ cases[i].thread \in ThreadIds
  BY KnownHaveThreads
<1> PICK t \in ThreadIds : t = cases[i].thread
  BY <1>3
<1> PICK row : row = [step |-> "record", case |-> i, mail |-> m, thread |-> t, from |-> p]
  OBVIOUS
<1>4. /\ row \in IntakeRows /\ row.step = "record" /\ row.case = i /\ row.mail = m /\ row.thread = t
  BY <1>3 DEF IntakeRows, IntakeSteps, Hearing
<1>5. /\ intakes' \in [Intakes -> IntakeRows] /\ intakes'[c] = row
      /\ \A d \in Intakes \ {c} : intakes'[d] = intakes[d]
  BY <1>1, <1>4, IntakeWritten DEF DeskInv
<1>6. IntakeHolds(c)'
  BY <1>2, <1>3, <1>4, <1>5 DEF IntakeHolds, Opening, Hearing, Reporting
<1>7. IntakeFollows(intakes[c], intakes'[c])
  BY <1>2, <1>4, <1>5 DEF IntakeFollows, Opening
<1>8. objects' \subseteq MailIds /\ unposted' \subseteq MailIds
  BY <1>2 DEF DeskInv
<1>9. /\ cases' \in [CaseIds -> CaseRows]
      /\ \A j \in CaseIds : RowFollows({c}, j, cases[j], cases'[j])
  BY <1>2, CasesStand
<1> QED  BY <1>2, <1>5, <1>6, <1>7, <1>8, <1>9, ThreadsStand, DeskFrame

\* The attachment is stored and recorded, or not (StoreAttachments).
LEMMA AttachmentsStored ==
    ASSUME DeskInv, NEW c \in Intakes, StoreInquiryAttachments(c)
    PROVE  DeskInv' /\ Grows
<1> PICK m : m = intakes[c].mail
  OBVIOUS
<1> PICK i : i = intakes[c].case
  OBVIOUS
<1>1. /\ intakes[c].step = "attach" /\ m \in MailIds /\ i \in CaseIds
      /\ cases[i].kind = "inquiry" /\ cases[i].thread = NoThread /\ cases[i].heard = {}
      /\ UNCHANGED <<threads, mailed, unposted>> /\ IntakeStep(c, "open")
  BY DEF StoreInquiryAttachments, StoreAttachments, DeskInv, IntakeHolds, Opening
<1>2. /\ objects' \subseteq MailIds /\ objects \subseteq objects' /\ unposted' \subseteq MailIds
  BY <1>1 DEF StoreInquiryAttachments, StoreAttachments, DeskInv
<1> PICK old \in CaseRows : old = cases[i]
  BY <1>1 DEF DeskInv
<1> PICK row : row = [old EXCEPT !.files = @ \cup {m}]
  OBVIOUS
<1>3. /\ row \in CaseRows /\ row.kind = old.kind /\ row.from = old.from /\ row.thread = old.thread
      /\ row.heard = old.heard /\ row.files = old.files \cup {m} /\ row.receipt = old.receipt
  BY <1>1 DEF CaseRows
<1>4. RowFollows({c}, i, old, row)
  BY <1>1, <1>3 DEF RowFollows
<1>5. /\ cases' \in [CaseIds -> CaseRows]
      /\ \A j \in CaseIds : RowFollows({c}, j, cases[j], cases'[j])
      /\ cases'[i].kind = "inquiry" /\ cases'[i].thread = NoThread /\ cases'[i].heard = {}
  <2>1. CASE UNCHANGED cases  BY <1>1, <2>1, CasesStand
  <2>2. CASE cases' = [cases EXCEPT ![i] = row]
    BY <1>1, <1>3, <1>4, <2>2, CaseWritten
  <2> QED  BY <2>1, <2>2 DEF StoreInquiryAttachments, StoreAttachments
<1>6. /\ intakes' \in [Intakes -> IntakeRows] /\ intakes'[c].step = "open"
      /\ intakes'[c].case = i /\ intakes'[c].mail = m
      /\ \A d \in Intakes \ {c} : intakes'[d] = intakes[d]
  BY <1>1, IntakeMoves DEF DeskInv, IntakeSteps, Opening
<1>7. IntakeHolds(c)'
  BY <1>1, <1>5, <1>6 DEF IntakeHolds, Opening, Hearing, Reporting
<1>8. IntakeFollows(intakes[c], intakes'[c])
  BY <1>1, <1>6 DEF IntakeFollows, Opening
<1> QED  BY <1>1, <1>2, <1>5, <1>6, <1>7, <1>8, ThreadsStand, DeskFrame

\* A thread is made for the case and the mail of a request (CreateThread).
LEMMA ThreadMade ==
    ASSUME DeskInv, NEW c \in Intakes, NEW next \in {"link", "linkReport"}, CreateThread(c, next),
           UNCHANGED cases, intakes[c].case \in CaseIds, intakes[c].mail \in MailIds,
           cases[intakes[c].case].kind # "none"
    PROVE  /\ threads' \in [ThreadIds -> ThreadRows]
           /\ \A t \in ThreadIds : ThreadFollows(threads[t], threads'[t])
           /\ intakes' \in [Intakes -> IntakeRows]
           /\ \A d \in Intakes \ {c} : intakes'[d] = intakes[d]
           /\ intakes'[c].step = next /\ intakes'[c].case = intakes[c].case
           /\ intakes'[c].mail = intakes[c].mail /\ intakes'[c].thread \in ThreadIds
           /\ threads'[intakes'[c].thread].about = intakes[c].case
           /\ intakes[c].mail \in threads'[intakes'[c].thread].shows
<1> PICK old \in IntakeRows : old = intakes[c]
  BY DEF DeskInv
<1>1. PICK t \in FreeThreads :
         /\ threads' = [threads EXCEPT ![t] = [about |-> old.case, shows |-> {old.mail}]]
         /\ intakes' = [intakes EXCEPT ![c].thread = t, ![c].step = next]
  BY DEF CreateThread
<1>2. t \in ThreadIds /\ threads[t].about = NoCase
  BY DEF FreeThreads
<1> PICK row : row = [old EXCEPT !.thread = t, !.step = next]
  OBVIOUS
<1>3. /\ row \in IntakeRows /\ row.step = next /\ row.thread = t /\ row.case = old.case
      /\ row.mail = old.mail
  BY <1>2 DEF IntakeRows, IntakeSteps, Opening, Reporting
<1>4. intakes' = [intakes EXCEPT ![c] = row]
  BY <1>1 DEF DeskInv
<1>5. /\ intakes' \in [Intakes -> IntakeRows] /\ intakes'[c] = row
      /\ \A d \in Intakes \ {c} : intakes'[d] = intakes[d]
  BY <1>3, <1>4, IntakeWritten DEF DeskInv
<1> PICK post : post = [about |-> old.case, shows |-> {old.mail}]
  OBVIOUS
<1>6. /\ post \in ThreadRows /\ post.about = old.case /\ post.shows = {old.mail}
  BY DEF ThreadRows
<1>7. /\ threads' \in [ThreadIds -> ThreadRows] /\ threads'[t] = post
      /\ \A u \in ThreadIds \ {t} : threads'[u] = threads[u]
  BY <1>1, <1>2, <1>6 DEF DeskInv
<1>8. cases'[old.case].kind # "none"
  OBVIOUS
<1>9. ThreadFollows(threads[t], threads'[t])
  BY <1>2, <1>6, <1>7, <1>8, MailDeskAssumption DEF DeskInv, ThreadFollows
<1>10. \A u \in ThreadIds \ {t} : ThreadFollows(threads[u], threads'[u])
  BY <1>7 DEF DeskInv, ThreadFollows
<1> QED
  BY <1>2, <1>3, <1>5, <1>6, <1>7, <1>9, <1>10

\* A thread for an inquiry (CreateInquiryThread).
LEMMA InquiryOpened ==
    ASSUME DeskInv, NEW c \in Intakes, CreateInquiryThread(c)
    PROVE  DeskInv' /\ Grows
<1>1. /\ intakes[c].step = "open" /\ UNCHANGED <<cases, objects, mailed, unposted>>
      /\ CreateThread(c, "link")
  BY DEF CreateInquiryThread
<1>2. /\ intakes[c].case \in CaseIds /\ intakes[c].mail \in MailIds
      /\ cases[intakes[c].case].kind = "inquiry" /\ cases[intakes[c].case].thread = NoThread
      /\ cases[intakes[c].case].heard = {}
  BY <1>1 DEF DeskInv, IntakeHolds, Opening
<1>3. /\ threads' \in [ThreadIds -> ThreadRows]
      /\ \A t \in ThreadIds : ThreadFollows(threads[t], threads'[t])
      /\ intakes' \in [Intakes -> IntakeRows]
      /\ \A d \in Intakes \ {c} : intakes'[d] = intakes[d]
      /\ intakes'[c].step = "link" /\ intakes'[c].case = intakes[c].case
      /\ intakes'[c].mail = intakes[c].mail /\ intakes'[c].thread \in ThreadIds
      /\ threads'[intakes'[c].thread].about = intakes[c].case
      /\ intakes[c].mail \in threads'[intakes'[c].thread].shows
  BY <1>1, <1>2, ThreadMade
<1>4. /\ cases' \in [CaseIds -> CaseRows]
      /\ \A i \in CaseIds : RowFollows({c}, i, cases[i], cases'[i])
  BY <1>1, CasesStand
<1>5. IntakeHolds(c)'
  BY <1>1, <1>2, <1>3 DEF IntakeHolds, Opening, Hearing, Reporting
<1>6. IntakeFollows(intakes[c], intakes'[c])
  BY <1>1, <1>3 DEF IntakeFollows, Opening
<1>7. objects' \subseteq MailIds /\ unposted' \subseteq MailIds
  BY <1>1 DEF DeskInv
<1> QED  BY <1>1, <1>3, <1>4, <1>5, <1>6, <1>7, DeskFrame

\* The thread is linked to its inquiry (SetDiscordThread).
LEMMA InquiryLinked ==
    ASSUME DeskInv, NEW c \in Intakes, SetDiscordThread(c)
    PROVE  DeskInv' /\ Grows
<1>1. /\ intakes[c].step = "link" /\ UNCHANGED <<threads, objects, mailed, unposted>>
      /\ IntakeStep(c, "note")
      /\ cases' = [cases EXCEPT ![intakes[c].case].thread = intakes[c].thread]
  BY DEF SetDiscordThread
<1> PICK i \in CaseIds : i = intakes[c].case
  BY <1>1 DEF DeskInv, IntakeHolds, Opening
<1> PICK t \in ThreadIds : t = intakes[c].thread
  BY <1>1 DEF DeskInv, IntakeHolds
<1> PICK old \in CaseRows : old = cases[i]
  BY DEF DeskInv
<1>2. /\ intakes[c].mail \in MailIds /\ old.kind = "inquiry" /\ old.thread = NoThread
      /\ old.heard = {} /\ threads[t].about = i /\ intakes[c].mail \in threads[t].shows
  BY <1>1 DEF DeskInv, IntakeHolds, Opening
<1> PICK row : row = [old EXCEPT !.thread = t]
  OBVIOUS
<1>3. /\ row \in CaseRows /\ row.thread = t /\ row.kind = old.kind /\ row.from = old.from
      /\ row.heard = old.heard /\ row.files = old.files /\ row.receipt = old.receipt
  BY DEF CaseRows
<1>4. RowFollows({c}, i, old, row)
  <2>1. Opens(c, i)
    BY <1>1 DEF Opens, Opening
  <2> QED  BY <1>1, <1>2, <1>3, <2>1 DEF RowFollows
<1>5. /\ cases' \in [CaseIds -> CaseRows] /\ cases'[i] = row
      /\ \A j \in CaseIds : RowFollows({c}, j, cases[j], cases'[j])
  <2>1. cases' = [cases EXCEPT ![i] = row]
    BY <1>1 DEF DeskInv
  <2>2. row \in CaseRows
    BY <1>3
  <2>3. RowFollows({c}, i, cases[i], row)
    BY <1>4
  <2>4. {c} \in SUBSET Intakes
    OBVIOUS
  <2> QED  BY <2>1, <2>2, <2>3, <2>4, CaseWritten
<1>6. /\ intakes' \in [Intakes -> IntakeRows] /\ intakes'[c].step = "note"
      /\ intakes'[c].case = i /\ intakes'[c].mail = intakes[c].mail /\ intakes'[c].thread = t
      /\ \A d \in Intakes \ {c} : intakes'[d] = intakes[d]
  BY <1>1, IntakeMoves DEF DeskInv, IntakeSteps, Opening
<1>7. IntakeHolds(c)'
  BY <1>1, <1>2, <1>3, <1>5, <1>6 DEF IntakeHolds, Opening, Hearing, Reporting
<1>8. IntakeFollows(intakes[c], intakes'[c])
  BY <1>1, <1>6 DEF IntakeFollows, Opening
<1>9. objects' \subseteq MailIds /\ unposted' \subseteq MailIds
  BY <1>1 DEF DeskInv
<1> QED  BY <1>1, <1>5, <1>6, <1>7, <1>8, <1>9, ThreadsStand, DeskFrame

\* The link fails and the inquiry is noted all the same (SetDiscordThreadFails).
LEMMA LinkFailed ==
    ASSUME DeskInv, NEW c \in Intakes, SetDiscordThreadFails(c)
    PROVE  DeskInv' /\ Grows
<1>1. /\ intakes[c].step = "link" /\ UNCHANGED <<cases, threads, objects, mailed, unposted>>
      /\ IntakeStep(c, "note")
  BY DEF SetDiscordThreadFails
<1>2. /\ intakes' \in [Intakes -> IntakeRows] /\ intakes'[c].step = "note"
      /\ intakes'[c].case = intakes[c].case /\ intakes'[c].mail = intakes[c].mail
      /\ intakes'[c].thread = intakes[c].thread
      /\ \A d \in Intakes \ {c} : intakes'[d] = intakes[d]
  BY <1>1, IntakeMoves DEF DeskInv, IntakeSteps, Opening
<1>3. IntakeHolds(c) /\ objects' \subseteq MailIds /\ unposted' \subseteq MailIds
  BY <1>1 DEF DeskInv
<1>4. IntakeHolds(c)'
  BY <1>1, <1>2, <1>3 DEF IntakeHolds, Opening, Hearing, Reporting
<1>5. IntakeFollows(intakes[c], intakes'[c])
  BY <1>1, <1>2 DEF IntakeFollows, Opening
<1>6. /\ cases' \in [CaseIds -> CaseRows]
      /\ \A i \in CaseIds : RowFollows({c}, i, cases[i], cases'[i])
  BY <1>1, CasesStand
<1> QED  BY <1>1, <1>2, <1>3, <1>4, <1>5, <1>6, ThreadsStand, DeskFrame

\* The inquiry's first mail enters the transcript (NoteInquiry).
LEMMA InquiryNoted ==
    ASSUME DeskInv, NEW c \in Intakes, NoteInquiry(c)
    PROVE  DeskInv' /\ Grows
<1>1. /\ intakes[c].step = "note" /\ UNCHANGED <<threads, objects, mailed, unposted>>
      /\ IntakeEnds(c) /\ cases' = Heard(intakes[c].case, intakes[c].mail)
  BY DEF NoteInquiry
<1> PICK i \in CaseIds : i = intakes[c].case
  BY <1>1 DEF DeskInv, IntakeHolds, Opening
<1> PICK m \in MailIds : m = intakes[c].mail
  BY <1>1 DEF DeskInv, IntakeHolds, Opening
<1> PICK t \in ThreadIds : t = intakes[c].thread
  BY <1>1 DEF DeskInv, IntakeHolds
<1> PICK old \in CaseRows : old = cases[i]
  BY DEF DeskInv
<1>2. /\ old.kind = "inquiry" /\ old.thread \in {NoThread, t} /\ m \in threads[t].shows
  BY <1>1 DEF DeskInv, IntakeHolds, Opening
<1> PICK row : row = [old EXCEPT !.heard = @ \cup {m}]
  OBVIOUS
<1>3. /\ row \in CaseRows /\ row.thread = old.thread /\ row.kind = old.kind
      /\ row.from = old.from /\ row.heard = old.heard \cup {m} /\ row.files = old.files
      /\ row.receipt = old.receipt
  BY DEF CaseRows
<1>4. RowFollows({c}, i, old, row)
  <2>1. Opens(c, i)
    BY <1>1 DEF Opens, Opening
  <2> QED  BY <1>1, <1>2, <1>3, <2>1 DEF RowFollows
<1>5. /\ cases' \in [CaseIds -> CaseRows] /\ cases'[i] = row
      /\ \A j \in CaseIds : RowFollows({c}, j, cases[j], cases'[j])
  <2>1. cases' = [cases EXCEPT ![i] = row]
    BY <1>1 DEF DeskInv, Heard
  <2>2. row \in CaseRows
    BY <1>3
  <2>3. RowFollows({c}, i, cases[i], row)
    BY <1>4
  <2>4. {c} \in SUBSET Intakes
    OBVIOUS
  <2> QED  BY <2>1, <2>2, <2>3, <2>4, CaseWritten
<1>6. /\ intakes' \in [Intakes -> IntakeRows] /\ intakes'[c].step = "idle"
      /\ \A d \in Intakes \ {c} : intakes'[d] = intakes[d]
      /\ IntakeHolds(c)'
  BY <1>1, IntakeReturns DEF DeskInv
<1>7. IntakeFollows(intakes[c], intakes'[c])
  BY <1>1, <1>6 DEF IntakeFollows, Opening
<1>8. objects' \subseteq MailIds /\ unposted' \subseteq MailIds
  BY <1>1 DEF DeskInv
<1> QED  BY <1>1, <1>5, <1>6, <1>7, <1>8, ThreadsStand, DeskFrame

\* A reply enters the transcript before it is posted (RecordReply).
LEMMA ReplyRecorded ==
    ASSUME DeskInv, NEW c \in Intakes, RecordReply(c)
    PROVE  DeskInv' /\ Grows
<1>1. /\ intakes[c].step = "record" /\ UNCHANGED <<threads, objects, mailed, unposted>>
      /\ cases' = Heard(intakes[c].case, intakes[c].mail)
  BY DEF RecordReply
<1> PICK i \in CaseIds : i = intakes[c].case
  BY <1>1 DEF DeskInv, IntakeHolds, Hearing
<1> PICK m \in MailIds : m = intakes[c].mail
  BY <1>1 DEF DeskInv, IntakeHolds, Hearing
<1> PICK t \in ThreadIds : t = intakes[c].thread
  BY <1>1 DEF DeskInv, IntakeHolds, Hearing
<1> PICK old \in CaseRows : old = cases[i]
  BY DEF DeskInv
<1>2. /\ old.kind \in {"application", "inquiry"} /\ old.thread = t /\ t # NoThread
      /\ IntakeStep(c, "post")
  BY <1>1, MailDeskAssumption DEF DeskInv, IntakeHolds, Hearing, RecordReply
<1> PICK row : row = [old EXCEPT !.heard = @ \cup {m}]
  OBVIOUS
<1>3. /\ row \in CaseRows /\ row.thread = old.thread /\ row.kind = old.kind
      /\ row.from = old.from /\ row.heard = old.heard \cup {m} /\ row.files = old.files
      /\ row.receipt = old.receipt
  BY DEF CaseRows
<1>4. /\ intakes' \in [Intakes -> IntakeRows] /\ intakes'[c].step = "post"
      /\ intakes'[c].case = i /\ intakes'[c].mail = m /\ intakes'[c].thread = t
      /\ \A d \in Intakes \ {c} : intakes'[d] = intakes[d]
  BY <1>2, IntakeMoves DEF DeskInv, IntakeSteps, Hearing
<1>5. RowFollows({c}, i, old, row)
  BY <1>1, <1>2, <1>3, <1>4 DEF RowFollows
<1>6. /\ cases' \in [CaseIds -> CaseRows] /\ cases'[i] = row
      /\ \A j \in CaseIds : RowFollows({c}, j, cases[j], cases'[j])
  <2>1. cases' = [cases EXCEPT ![i] = row]
    BY <1>1 DEF DeskInv, Heard
  <2>2. row \in CaseRows
    BY <1>3
  <2>3. RowFollows({c}, i, cases[i], row)
    BY <1>5
  <2>4. {c} \in SUBSET Intakes
    OBVIOUS
  <2> QED  BY <2>1, <2>2, <2>3, <2>4, CaseWritten
<1>7. IntakeHolds(c)'
  BY <1>2, <1>3, <1>4, <1>6 DEF IntakeHolds, Opening, Hearing, Reporting
<1>8. IntakeFollows(intakes[c], intakes'[c])
  BY <1>1, <1>4 DEF IntakeFollows, Opening
<1>9. objects' \subseteq MailIds /\ unposted' \subseteq MailIds
  BY <1>1 DEF DeskInv
<1> QED  BY <1>1, <1>4, <1>6, <1>7, <1>8, <1>9, ThreadsStand, DeskFrame

\* A recorded reply is posted, or counts as not posted (PostEmbed).
LEMMA ReplyPosted ==
    ASSUME DeskInv, NEW c \in Intakes, PostEmbed(c)
    PROVE  DeskInv' /\ Grows
<1>1. /\ intakes[c].step = "post" /\ UNCHANGED <<cases, objects, mailed>> /\ IntakeEnds(c)
  BY DEF PostEmbed
<1> PICK m \in MailIds : m = intakes[c].mail
  BY <1>1 DEF DeskInv, IntakeHolds, Hearing
<1> PICK t \in ThreadIds : t = intakes[c].thread
  BY <1>1 DEF DeskInv, IntakeHolds, Hearing
<1> PICK old \in ThreadRows : old = threads[t]
  BY DEF DeskInv
<1>2. /\ intakes' \in [Intakes -> IntakeRows] /\ intakes'[c].step = "idle"
      /\ \A d \in Intakes \ {c} : intakes'[d] = intakes[d]
      /\ IntakeHolds(c)'
  BY <1>1, IntakeReturns DEF DeskInv
<1>3. /\ cases' \in [CaseIds -> CaseRows]
      /\ \A i \in CaseIds : RowFollows({c}, i, cases[i], cases'[i])
  BY <1>1, CasesStand
<1>4. objects' \subseteq MailIds /\ unposted \subseteq unposted' /\ unposted' \subseteq MailIds
  BY <1>1 DEF DeskInv, PostEmbed
<1>5. CASE UNCHANGED threads /\ m \in unposted'
  <2>2. IntakeFollows(intakes[c], intakes'[c])
    BY <1>1, <1>2, <1>5 DEF IntakeFollows, Opening
  <2>3. /\ threads' \in [ThreadIds -> ThreadRows]
        /\ \A u \in ThreadIds : ThreadFollows(threads[u], threads'[u])
    BY <1>5, ThreadsStand
  <2> QED  BY <1>1, <1>2, <1>3, <1>4, <2>2, <2>3, DeskFrame
<1>6. CASE threads' = [threads EXCEPT ![t].shows = @ \cup {m}]
  <2> PICK row : row = [old EXCEPT !.shows = @ \cup {m}]
    OBVIOUS
  <2>1. row \in ThreadRows /\ row.about = old.about /\ row.shows = old.shows \cup {m}
    BY DEF ThreadRows
  <2>2. /\ threads' \in [ThreadIds -> ThreadRows] /\ threads'[t] = row
        /\ \A u \in ThreadIds \ {t} : threads'[u] = threads[u]
    BY <1>6, <2>1 DEF DeskInv
  <2>3. old.about # NoCase
    <3>1. /\ intakes[c].case \in CaseIds /\ t = cases[intakes[c].case].thread
          /\ CaseHolds(intakes[c].case)
      BY <1>1 DEF DeskInv, IntakeHolds, Hearing
    <3> QED  BY <3>1, MailDeskAssumption DEF CaseHolds
  <2>4. ThreadFollows(old, row)
    BY <2>1, <2>3 DEF ThreadFollows
  <2>5. \A u \in ThreadIds \ {t} : ThreadFollows(threads[u], threads'[u])
    BY <2>2 DEF DeskInv, ThreadFollows
  <2>6. \A u \in ThreadIds : ThreadFollows(threads[u], threads'[u])
    BY <2>2, <2>4, <2>5
  <2>7. IntakeFollows(intakes[c], intakes'[c])
    BY <1>1, <1>2, <2>1, <2>2 DEF IntakeFollows, Opening
  <2> QED  BY <1>1, <1>2, <1>3, <1>4, <2>2, <2>6, <2>7, DeskFrame
<1> QED  BY <1>5, <1>6 DEF PostEmbed

\* A request ends between two of its steps (IntakeBreaks).
LEMMA IntakeBroken ==
    ASSUME DeskInv, NEW c \in Intakes, IntakeBreaks(c)
    PROVE  DeskInv' /\ Grows
<1>1. /\ intakes[c].step # "idle" /\ UNCHANGED <<cases, threads, objects, mailed>>
      /\ IntakeEnds(c)
      /\ unposted' = IF intakes[c].step = "post" THEN unposted \cup {intakes[c].mail} ELSE unposted
  BY DEF IntakeBreaks
<1>2. /\ intakes' \in [Intakes -> IntakeRows] /\ intakes'[c].step = "idle"
      /\ \A d \in Intakes \ {c} : intakes'[d] = intakes[d]
      /\ IntakeHolds(c)'
  BY <1>1, IntakeReturns DEF DeskInv
<1>3. /\ cases' \in [CaseIds -> CaseRows]
      /\ \A i \in CaseIds : RowFollows({c}, i, cases[i], cases'[i])
  BY <1>1, CasesStand
<1>4. objects' \subseteq MailIds /\ unposted \subseteq unposted' /\ unposted' \subseteq MailIds
  BY <1>1 DEF DeskInv, IntakeHolds
<1>5. IntakeFollows(intakes[c], intakes'[c])
  BY <1>1, <1>2 DEF IntakeFollows, Opening
<1>6. /\ threads' \in [ThreadIds -> ThreadRows]
      /\ \A t \in ThreadIds : ThreadFollows(threads[t], threads'[t])
  BY <1>1, ThreadsStand
<1>7. objects' = objects /\ mailed' = mailed
  BY <1>1
<1> QED  BY <1>2, <1>3, <1>4, <1>5, <1>6, <1>7, DeskFrame

\* The file of a report is stored before its row (PutReportFile).
LEMMA ReportStored ==
    ASSUME DeskInv, NEW c \in Intakes, NEW m \in MailIds, NEW p \in People,
           PutReportFile(c, m, p)
    PROVE  DeskInv' /\ Grows
<1>1. /\ m \in FreeMails /\ intakes[c].step = "idle" /\ objects' = objects \cup {m}
      /\ UNCHANGED <<cases, threads, mailed, unposted>>
  BY DEF PutReportFile
<1> PICK row : row = [step |-> "row", case |-> NoCase, mail |-> m, thread |-> NoThread, from |-> p]
  OBVIOUS
<1>2. row \in IntakeRows /\ row.step = "row" /\ row.mail = m
  BY DEF IntakeRows, IntakeSteps
<1>3. /\ intakes' \in [Intakes -> IntakeRows] /\ intakes'[c] = row
      /\ \A d \in Intakes \ {c} : intakes'[d] = intakes[d]
  BY <1>2, IntakeWritten DEF DeskInv, PutReportFile
<1>4. \A i \in CaseIds : m \notin cases[i].files
  BY <1>1, FreeMailUnused
<1>5. IntakeHolds(c)'
  BY <1>1, <1>2, <1>3, <1>4 DEF IntakeHolds, Opening, Hearing, Reporting
<1>6. IntakeFollows(intakes[c], intakes'[c])
  BY <1>1, <1>2, <1>3 DEF IntakeFollows, Opening
<1>7. /\ cases' \in [CaseIds -> CaseRows]
      /\ \A i \in CaseIds : RowFollows({c}, i, cases[i], cases'[i])
  BY <1>1, CasesStand
<1>8. /\ threads' \in [ThreadIds -> ThreadRows]
      /\ \A t \in ThreadIds : ThreadFollows(threads[t], threads'[t])
  BY <1>1, ThreadsStand
<1>9. /\ objects' \subseteq MailIds /\ objects \subseteq objects' /\ mailed' = mailed
      /\ unposted' = unposted /\ unposted \subseteq MailIds
  BY <1>1 DEF DeskInv
<1> QED  BY <1>3, <1>5, <1>6, <1>7, <1>8, <1>9, DeskFrame

\* The row of a report names the file its request stored.
LEMMA ReportInserted ==
    ASSUME DeskInv, NEW c \in Intakes, intakes[c].step = "row", NEW i \in FreeCases,
           cases' = [Insert(i, "report", intakes[c].from) EXCEPT ![i].files = {intakes[c].mail}]
    PROVE  /\ cases' \in [CaseIds -> CaseRows]
           /\ \A j \in CaseIds : RowFollows({c}, j, cases[j], cases'[j])
           /\ i \in CaseIds /\ cases'[i].kind = "report" /\ cases'[i].files = {intakes[c].mail}
<1> PICK m \in MailIds : m = intakes[c].mail
  BY DEF DeskInv, IntakeHolds
<1> PICK p \in People \cup {NoOne} : p = intakes[c].from
  BY DEF DeskInv, IntakeRows
<1> PICK row : row = [NoRowYet EXCEPT !.kind = "report", !.from = p, !.files = {m}]
  OBVIOUS
<1>1. /\ row \in CaseRows /\ row.kind = "report" /\ row.thread = NoThread /\ row.heard = {}
      /\ row.files = {m} /\ row.receipt = FALSE
  BY DEF NoRowYet, CaseRows, Kinds
<1>2. i \in CaseIds /\ cases[i].kind = "none" /\ cases[i].thread = NoThread
  BY DEF FreeCases, DeskInv, CaseHolds
<1>3. RowFollows({c}, i, cases[i], row)
  BY <1>1, <1>2 DEF RowFollows
<1>4. cases' = [cases EXCEPT ![i] = row]
  BY <1>2 DEF Insert, DeskInv, NoRowYet
<1>5. {c} \in SUBSET Intakes /\ row \in CaseRows
  BY <1>1
<1>6. /\ cases' \in [CaseIds -> CaseRows] /\ cases'[i] = row
      /\ \A j \in CaseIds : RowFollows({c}, j, cases[j], cases'[j])
  <2>1. /\ cases' \in [CaseIds -> CaseRows] /\ cases'[i] = row
        /\ \A j \in CaseIds \ {i} : cases'[j] = cases[j]
    BY <1>2, <1>4, <1>5 DEF DeskInv
  <2>2. \A j \in CaseIds \ {i} : RowFollows({c}, j, cases[j], cases'[j])
    BY <2>1 DEF DeskInv, RowFollows, CaseRows
  <2> QED  BY <1>3, <2>1, <2>2
<1> QED  BY <1>1, <1>2, <1>6

\* The report gets its row (CreateContribution).
LEMMA ReportCreated ==
    ASSUME DeskInv, NEW c \in Intakes, CreateContribution(c)
    PROVE  DeskInv' /\ Grows
<1>1. /\ intakes[c].step = "row" /\ UNCHANGED <<threads, objects, mailed, unposted>>
      /\ intakes[c].mail \in MailIds /\ intakes[c].mail \in objects
  BY DEF CreateContribution, DeskInv, IntakeHolds
<1>2. PICK i \in FreeCases :
         /\ cases' = [Insert(i, "report", intakes[c].from) EXCEPT ![i].files = {intakes[c].mail}]
         /\ intakes' = [intakes EXCEPT ![c].step = "receipt", ![c].case = i]
  BY DEF CreateContribution
<1>3. /\ cases' \in [CaseIds -> CaseRows]
      /\ \A j \in CaseIds : RowFollows({c}, j, cases[j], cases'[j])
      /\ i \in CaseIds /\ cases'[i].kind = "report" /\ cases'[i].files = {intakes[c].mail}
  BY <1>1, <1>2, ReportInserted
<1> PICK old \in IntakeRows : old = intakes[c]
  BY DEF DeskInv
<1> PICK row : row = [old EXCEPT !.step = "receipt", !.case = i]
  OBVIOUS
<1>4. /\ row \in IntakeRows /\ row.step = "receipt" /\ row.mail = old.mail /\ row.case = i
  BY <1>3 DEF IntakeRows, IntakeSteps, Reporting
<1>5. intakes' = [intakes EXCEPT ![c] = row]
  BY <1>2 DEF DeskInv
<1>6. /\ intakes' \in [Intakes -> IntakeRows] /\ intakes'[c] = row
      /\ \A d \in Intakes \ {c} : intakes'[d] = intakes[d]
  BY <1>4, <1>5, IntakeWritten DEF DeskInv
<1>7. IntakeHolds(c)'
  BY <1>1, <1>3, <1>4, <1>6 DEF IntakeHolds, Opening, Hearing, Reporting
<1>8. IntakeFollows(intakes[c], intakes'[c])
  BY <1>1, <1>4, <1>6 DEF IntakeFollows, Opening
<1>9. /\ threads' \in [ThreadIds -> ThreadRows]
      /\ \A t \in ThreadIds : ThreadFollows(threads[t], threads'[t])
  BY <1>1, ThreadsStand
<1>10. objects' = objects /\ objects \subseteq MailIds /\ mailed' = mailed
       /\ unposted' = unposted /\ unposted \subseteq MailIds
  BY <1>1 DEF DeskInv
<1> QED  BY <1>3, <1>6, <1>7, <1>8, <1>9, <1>10, DeskFrame

\* The request takes its file back: no receipt stands for it
\* (CreateContributionFails).
LEMMA ReportRefused ==
    ASSUME DeskInv, NEW c \in Intakes, CreateContributionFails(c)
    PROVE  DeskInv' /\ Grows
<1>1. /\ intakes[c].step = "row" /\ UNCHANGED <<threads, mailed, unposted>>
      /\ objects' = objects \ {intakes[c].mail} /\ IntakeEnds(c)
  BY DEF CreateContributionFails
<1>2. /\ cases' \in [CaseIds -> CaseRows]
      /\ \A j \in CaseIds : RowFollows({c}, j, cases[j], cases'[j])
  <2>1. CASE UNCHANGED cases  BY <2>1, CasesStand
  <2>2. CASE \E i \in FreeCases : cases' = [Insert(i, "report", intakes[c].from) EXCEPT
                                               ![i].files = {intakes[c].mail}]
    BY <1>1, <2>2, ReportInserted
  <2> QED  BY <2>1, <2>2 DEF CreateContributionFails
<1>3. /\ intakes' \in [Intakes -> IntakeRows] /\ intakes'[c].step = "idle"
      /\ \A d \in Intakes \ {c} : intakes'[d] = intakes[d]
      /\ IntakeHolds(c)'
  BY <1>1, IntakeReturns DEF DeskInv
<1>4. IntakeFollows(intakes[c], intakes'[c])
  BY <1>1, <1>3 DEF IntakeFollows, Opening
<1>5. /\ threads' \in [ThreadIds -> ThreadRows]
      /\ \A t \in ThreadIds : ThreadFollows(threads[t], threads'[t])
  BY <1>1, ThreadsStand
<1>6. /\ objects' \subseteq MailIds /\ mailed' = mailed
      /\ unposted' = unposted /\ unposted \subseteq MailIds
      /\ \A m \in objects \ objects' : \E d \in {c} : intakes[d].step = "row" /\ intakes[d].mail = m
  BY <1>1 DEF DeskInv
<1> QED  BY <1>2, <1>3, <1>4, <1>5, <1>6, DeskFrame

\* The contributor is sent a receipt for a file that is there (QueueReceipt).
LEMMA ReceiptQueued ==
    ASSUME DeskInv, NEW c \in Intakes, QueueReceipt(c)
    PROVE  DeskInv' /\ Grows
<1>1. /\ intakes[c].step = "receipt" /\ UNCHANGED <<threads, objects, mailed, unposted>>
      /\ cases' = [cases EXCEPT ![intakes[c].case].receipt = TRUE] /\ IntakeStep(c, "forum")
  BY DEF QueueReceipt
<1> PICK i \in CaseIds : i = intakes[c].case
  BY <1>1 DEF DeskInv, IntakeHolds, Reporting
<1> PICK m \in MailIds : m = intakes[c].mail
  BY <1>1 DEF DeskInv, IntakeHolds, Reporting
<1> PICK old \in CaseRows : old = cases[i]
  BY DEF DeskInv
<1>2. /\ old.kind = "report" /\ old.files = {m} /\ m \in objects
  BY <1>1 DEF DeskInv, IntakeHolds, Reporting
<1> PICK row : row = [old EXCEPT !.receipt = TRUE]
  OBVIOUS
<1>3. /\ row \in CaseRows /\ row.thread = old.thread /\ row.kind = old.kind
      /\ row.from = old.from /\ row.heard = old.heard /\ row.files = old.files
  BY DEF CaseRows
<1>4. RowFollows({c}, i, cases[i], row)
  BY <1>1, <1>2, <1>3 DEF RowFollows
<1>5. cases' = [cases EXCEPT ![i] = row]
  BY <1>1 DEF DeskInv
<1>6. {c} \in SUBSET Intakes /\ row \in CaseRows
  BY <1>3
<1>7. /\ cases' \in [CaseIds -> CaseRows] /\ cases'[i] = row
      /\ \A j \in CaseIds : RowFollows({c}, j, cases[j], cases'[j])
  BY <1>4, <1>5, <1>6, CaseWritten
<1>8. /\ intakes' \in [Intakes -> IntakeRows] /\ intakes'[c].step = "forum"
      /\ intakes'[c].case = i /\ intakes'[c].mail = m
      /\ \A d \in Intakes \ {c} : intakes'[d] = intakes[d]
  BY <1>1, IntakeMoves DEF DeskInv, IntakeSteps, Reporting
<1>9. IntakeHolds(c)'
  BY <1>1, <1>2, <1>3, <1>7, <1>8 DEF IntakeHolds, Opening, Hearing, Reporting
<1>10. IntakeFollows(intakes[c], intakes'[c])
  BY <1>1, <1>8 DEF IntakeFollows, Opening
<1>11. /\ threads' \in [ThreadIds -> ThreadRows]
       /\ \A t \in ThreadIds : ThreadFollows(threads[t], threads'[t])
  BY <1>1, ThreadsStand
<1>12. /\ objects' = objects /\ objects \subseteq MailIds /\ mailed' = mailed
       /\ unposted' = unposted /\ unposted \subseteq MailIds
  BY <1>1 DEF DeskInv
<1> QED  BY <1>7, <1>8, <1>9, <1>10, <1>11, <1>12, DeskFrame

\* A report's thread, or none: its file stays (CreateContributionThread).
LEMMA ReportOpened ==
    ASSUME DeskInv, NEW c \in Intakes, CreateContributionThread(c)
    PROVE  DeskInv' /\ Grows
<1>1. /\ intakes[c].step = "forum" /\ UNCHANGED <<cases, objects, mailed, unposted>>
  BY DEF CreateContributionThread, KeepsFiles
<1>2. /\ intakes[c].case \in CaseIds /\ intakes[c].mail \in MailIds
      /\ cases[intakes[c].case].kind = "report"
      /\ cases[intakes[c].case].files = {intakes[c].mail} /\ intakes[c].mail \in objects
  BY <1>1 DEF DeskInv, IntakeHolds, Reporting
<1>3. /\ cases' \in [CaseIds -> CaseRows]
      /\ \A i \in CaseIds : RowFollows({c}, i, cases[i], cases'[i])
  BY <1>1, CasesStand
<1>4. /\ objects' = objects /\ objects \subseteq MailIds /\ mailed' = mailed
      /\ unposted' = unposted /\ unposted \subseteq MailIds
  BY <1>1 DEF DeskInv
<1>5. CASE CreateThread(c, "linkReport")
  <2>1. /\ threads' \in [ThreadIds -> ThreadRows]
        /\ \A t \in ThreadIds : ThreadFollows(threads[t], threads'[t])
        /\ intakes' \in [Intakes -> IntakeRows]
        /\ \A d \in Intakes \ {c} : intakes'[d] = intakes[d]
        /\ intakes'[c].step = "linkReport" /\ intakes'[c].case = intakes[c].case
        /\ intakes'[c].mail = intakes[c].mail /\ intakes'[c].thread \in ThreadIds
        /\ threads'[intakes'[c].thread].about = intakes[c].case
    BY <1>1, <1>2, <1>5, ThreadMade
  <2>2. IntakeHolds(c)'
    BY <1>1, <1>2, <2>1 DEF IntakeHolds, Opening, Hearing, Reporting
  <2>3. IntakeFollows(intakes[c], intakes'[c])
    BY <1>1, <2>1 DEF IntakeFollows, Opening
  <2> QED  BY <1>3, <1>4, <2>1, <2>2, <2>3, DeskFrame
<1>6. CASE IntakeEnds(c) /\ UNCHANGED threads
  <2>1. /\ intakes' \in [Intakes -> IntakeRows] /\ intakes'[c].step = "idle"
        /\ \A d \in Intakes \ {c} : intakes'[d] = intakes[d]
        /\ IntakeHolds(c)'
    BY <1>6, IntakeReturns DEF DeskInv
  <2>2. IntakeFollows(intakes[c], intakes'[c])
    BY <1>1, <2>1 DEF IntakeFollows, Opening
  <2>3. /\ threads' \in [ThreadIds -> ThreadRows]
        /\ \A t \in ThreadIds : ThreadFollows(threads[t], threads'[t])
    BY <1>6, ThreadsStand
  <2> QED  BY <1>3, <1>4, <2>1, <2>2, <2>3, DeskFrame
<1> QED  BY <1>5, <1>6 DEF CreateContributionThread

\* The thread of a report is linked to a row that has none, or that thread
\* already (SetContributionDiscordThread, ResolveReport).
LEMMA ReportRowLinked ==
    ASSUME DeskInv, UNCHANGED threads, NEW C \in SUBSET Intakes, NEW i \in CaseIds,
           NEW t \in ThreadIds,
           cases[i].kind = "report", threads[t].about = i, Links(i, t),
           cases' = [cases EXCEPT ![i].thread = t]
    PROVE  /\ cases' \in [CaseIds -> CaseRows]
           /\ \A j \in CaseIds : RowFollows(C, j, cases[j], cases'[j])
<1> PICK old \in CaseRows : old = cases[i]
  BY DEF DeskInv
<1> PICK row : row = [old EXCEPT !.thread = t]
  OBVIOUS
<1>1. /\ row \in CaseRows /\ row.thread = t /\ row.kind = old.kind
      /\ row.from = old.from /\ row.heard = old.heard /\ row.files = old.files
      /\ row.receipt = old.receipt
  BY DEF CaseRows
<1>2. RowFollows(C, i, old, row)
  BY <1>1 DEF RowFollows, Links
<1>3. cases' = [cases EXCEPT ![i] = row]
  BY DEF DeskInv
<1>4. RowFollows(C, i, cases[i], row) /\ row \in CaseRows
  BY <1>1, <1>2
<1>5. cases' \in [CaseIds -> CaseRows] /\ cases'[i] = row
  BY <1>3, <1>4 DEF DeskInv
<1>6. \A j \in CaseIds \ {i} : cases'[j] = cases[j]
  BY <1>3 DEF DeskInv
<1>7. \A j \in CaseIds \ {i} : RowFollows(C, j, cases[j], cases'[j])
  BY <1>6 DEF DeskInv, RowFollows, CaseRows
<1> QED  BY <1>4, <1>5, <1>7

LEMMA ReportLinked ==
    ASSUME DeskInv, NEW c \in Intakes, SetContributionDiscordThread(c)
    PROVE  DeskInv' /\ Grows
<1> PICK i : i = intakes[c].case
  OBVIOUS
<1> PICK t : t = intakes[c].thread
  OBVIOUS
<1>1. /\ intakes[c].step = "linkReport" /\ UNCHANGED <<threads, objects, mailed, unposted>>
      /\ IntakeEnds(c)
  BY DEF SetContributionDiscordThread
<1>2. /\ i \in CaseIds /\ t \in ThreadIds /\ cases[i].kind = "report" /\ threads[t].about = i
  BY <1>1 DEF DeskInv, IntakeHolds, Reporting
<1>3. /\ cases' \in [CaseIds -> CaseRows]
      /\ \A j \in CaseIds : RowFollows({c}, j, cases[j], cases'[j])
  <2>1. CASE Links(i, t)
    <3>1. cases' = [cases EXCEPT ![i].thread = t]
      BY <2>1 DEF SetContributionDiscordThread
    <3>2. {c} \in SUBSET Intakes /\ UNCHANGED threads
      BY <1>1
    <3> QED  BY <1>2, <2>1, <3>1, <3>2, ReportRowLinked
  <2>2. CASE ~Links(i, t)
    <3>1. UNCHANGED cases
      BY <1>2, <2>2 DEF SetContributionDiscordThread, DeskInv, CaseRows
    <3> QED  BY <3>1, CasesStand
  <2> QED  BY <2>1, <2>2
<1>4. /\ intakes' \in [Intakes -> IntakeRows] /\ intakes'[c].step = "idle"
      /\ \A d \in Intakes \ {c} : intakes'[d] = intakes[d]
      /\ IntakeHolds(c)'
  BY <1>1, IntakeReturns DEF DeskInv
<1>5. IntakeFollows(intakes[c], intakes'[c])
  BY <1>1, <1>4 DEF IntakeFollows, Opening
<1>6. /\ threads' \in [ThreadIds -> ThreadRows]
      /\ \A u \in ThreadIds : ThreadFollows(threads[u], threads'[u])
  BY <1>1, ThreadsStand
<1>7. /\ objects' = objects /\ objects \subseteq MailIds /\ mailed' = mailed
      /\ unposted' = unposted /\ unposted \subseteq MailIds
  BY <1>1 DEF DeskInv
<1> QED  BY <1>3, <1>4, <1>5, <1>6, <1>7, DeskFrame

\* A step outside the requests.
LEMMA OutsideFrame ==
    ASSUME DeskInv, UNCHANGED <<objects, intakes, unposted>>,
           cases' \in [CaseIds -> CaseRows], threads' \in [ThreadIds -> ThreadRows],
           \A i \in CaseIds : RowFollows({}, i, cases[i], cases'[i]),
           \A t \in ThreadIds : ThreadFollows(threads[t], threads'[t]),
           \A r \in mailed' : r \in mailed \/ MailedHolds(r)
    PROVE  DeskInv' /\ Grows
<1>1. {} \in SUBSET Intakes
  OBVIOUS
<1>2. /\ intakes' \in [Intakes -> IntakeRows] /\ objects' = objects /\ objects \subseteq MailIds
      /\ unposted' = unposted /\ unposted \subseteq MailIds
      /\ \A d \in Intakes \ {} : intakes'[d] = intakes[d]
  BY DEF DeskInv
<1> QED  BY <1>1, <1>2, DeskFrame

\* A moderator decides a pending report (ReviewContribution).
LEMMA ReportReviewed ==
    ASSUME DeskInv, NEW a \in Staff, NEW i \in CaseIds, NEW s \in {"accepted", "rejected"},
           ReviewContribution(a, i, s)
    PROVE  DeskInv' /\ Grows
<1>1. UNCHANGED <<threads, objects, intakes, mailed, unposted>>
  BY DEF ReviewContribution
<1> PICK old \in CaseRows : old = cases[i]
  BY DEF DeskInv
<1> PICK row : row = [old EXCEPT !.status = s]
  OBVIOUS
<1>2. /\ row \in CaseRows /\ row.thread = old.thread /\ row.kind = old.kind
      /\ row.from = old.from /\ row.heard = old.heard /\ row.files = old.files
      /\ row.receipt = old.receipt
  BY DEF CaseRows
<1>3. RowFollows({}, i, cases[i], row)
  BY <1>2 DEF RowFollows
<1>4. cases' = [cases EXCEPT ![i] = row]
  BY DEF DeskInv, ReviewContribution
<1>5. {} \in SUBSET Intakes /\ row \in CaseRows
  BY <1>2
<1>6. /\ cases' \in [CaseIds -> CaseRows]
      /\ \A j \in CaseIds : RowFollows({}, j, cases[j], cases'[j])
  BY <1>3, <1>4, <1>5, CaseWritten
<1>7. /\ threads' \in [ThreadIds -> ThreadRows]
      /\ \A t \in ThreadIds : ThreadFollows(threads[t], threads'[t])
  BY <1>1, ThreadsStand
<1> QED  BY <1>1, <1>6, <1>7, OutsideFrame

\* An application comes with its thread (ApplicationArrives).
LEMMA ApplicationTaken ==
    ASSUME DeskInv, NEW p \in People, ApplicationArrives(p)
    PROVE  DeskInv' /\ Grows
<1>1. PICK i \in FreeCases, t \in FreeThreads :
         /\ cases' = [Insert(i, "application", p) EXCEPT ![i].thread = t]
         /\ threads' = [threads EXCEPT ![t].about = i]
  BY DEF ApplicationArrives
<1>2. /\ i \in CaseIds /\ cases[i].kind = "none" /\ cases[i].thread = NoThread
      /\ t \in ThreadIds /\ threads[t].about = NoCase /\ threads[t].shows = {}
      /\ NoCase \notin CaseIds
  BY MailDeskAssumption DEF FreeCases, FreeThreads, DeskInv, CaseHolds
<1>3. UNCHANGED <<objects, intakes, mailed, unposted>>
  BY DEF ApplicationArrives
<1> PICK post \in ThreadRows : post = threads[t]
  BY <1>2 DEF DeskInv
<1> PICK opened : opened = [post EXCEPT !.about = i]
  OBVIOUS
<1>4. opened \in ThreadRows /\ opened.about = i /\ opened.shows = {}
  BY <1>2 DEF ThreadRows
<1>5. threads' = [threads EXCEPT ![t] = opened]
  BY <1>1, <1>2 DEF DeskInv
<1>6. /\ threads' \in [ThreadIds -> ThreadRows] /\ threads'[t] = opened
      /\ \A u \in ThreadIds \ {t} : threads'[u] = threads[u]
  BY <1>2, <1>4, <1>5 DEF DeskInv
<1> PICK row : row = [NoRowYet EXCEPT !.kind = "application", !.from = p, !.thread = t]
  OBVIOUS
<1>7. /\ row \in CaseRows /\ row.kind = "application" /\ row.thread = t /\ row.heard = {}
      /\ row.files = {} /\ row.receipt = FALSE
  BY <1>2 DEF NoRowYet, CaseRows, Kinds
<1>8. RowFollows({}, i, cases[i], row)
  BY <1>2, <1>4, <1>6, <1>7 DEF RowFollows
<1>9. cases' = [cases EXCEPT ![i] = row]
  BY <1>1, <1>2 DEF Insert, DeskInv, NoRowYet
<1>10. {} \in SUBSET Intakes /\ row \in CaseRows
  BY <1>7
<1>11. /\ cases' \in [CaseIds -> CaseRows] /\ cases'[i] = row
       /\ \A j \in CaseIds \ {i} : cases'[j] = cases[j]
  BY <1>2, <1>7, <1>9 DEF DeskInv
<1>12. \A j \in CaseIds \ {i} : RowFollows({}, j, cases[j], cases'[j])
  BY <1>11 DEF DeskInv, RowFollows, CaseRows
<1>13. \A j \in CaseIds : RowFollows({}, j, cases[j], cases'[j])
  BY <1>8, <1>11, <1>12
<1>14. ThreadFollows(threads[t], threads'[t])
  BY <1>2, <1>4, <1>6, <1>7, <1>11 DEF ThreadFollows
<1>15. \A u \in ThreadIds \ {t} : ThreadFollows(threads[u], threads'[u])
  BY <1>6 DEF DeskInv, ThreadFollows
<1>16. \A u \in ThreadIds : ThreadFollows(threads[u], threads'[u])
  BY <1>14, <1>15
<1>17. mailed' = mailed /\ UNCHANGED <<objects, intakes, unposted>>
  BY <1>3
<1> QED  BY <1>6, <1>11, <1>13, <1>16, <1>17, OutsideFrame

\* Whoever owns a thread is mailed what is written in it (StaffAnswers,
\* MailReply).
LEMMA OwnerMailed ==
    ASSUME DeskInv, NEW i \in CaseIds, NEW t \in ThreadIds, ReplyByDiscord(i, t),
           cases[i].kind # "none", threads[t].about = i,
           cases[i].kind \in {"application", "inquiry"} => cases[i].thread # NoThread,
           UNCHANGED <<cases, threads, objects, intakes, unposted>>
    PROVE  DeskInv' /\ Grows
<1>1. \A r \in mailed' : r \in mailed \/ MailedHolds(r)
  BY DEF ReplyByDiscord, MailedHolds
<1>2. {} \in SUBSET Intakes
  OBVIOUS
<1>3. /\ cases' \in [CaseIds -> CaseRows]
      /\ \A j \in CaseIds : RowFollows({}, j, cases[j], cases'[j])
  BY <1>2, CasesStand
<1>4. /\ threads' \in [ThreadIds -> ThreadRows]
      /\ \A u \in ThreadIds : ThreadFollows(threads[u], threads'[u])
  BY ThreadsStand
<1> QED  BY <1>1, <1>3, <1>4, OutsideFrame

LEMMA OwnersKnown ==
    ASSUME DeskInv, NEW t \in ThreadIds, NEW i \in Owners(t)
    PROVE  /\ i \in CaseIds /\ cases[i].kind # "none" /\ cases[i].thread = t
           /\ threads[t].about = i /\ t # NoThread
<1>1. /\ i \in CaseIds /\ cases[i].thread = t
      /\ cases[i].kind \in {"application", "inquiry", "report"} /\ t # NoThread
  BY MailDeskAssumption DEF Owners, FindByDiscordThread, FindContributionReplyTarget
<1> QED  BY <1>1 DEF DeskInv, CaseHolds

LEMMA ThreadAnswered ==
    ASSUME DeskInv, NEW t \in ThreadIds, StaffAnswers(t)
    PROVE  DeskInv' /\ Grows
<1> PICK i \in Owners(t) : ReplyByDiscord(i, t)
  BY DEF StaffAnswers
<1>1. UNCHANGED <<cases, threads, objects, intakes, unposted>>
  BY DEF StaffAnswers
<1> QED  BY <1>1, OwnersKnown, OwnerMailed

LEMMA DeskKeepsInv == DeskInv /\ [Desk]_deskVars => DeskInv' /\ Grows
<1> SUFFICES ASSUME DeskInv, [Desk]_deskVars PROVE DeskInv' /\ Grows
  OBVIOUS
<1>1. ASSUME NEW c \in Intakes, MailIntake(c) PROVE DeskInv' /\ Grows
  BY <1>1, InquiryTaken, ReplyTaken, AttachmentsStored, InquiryOpened, InquiryLinked, LinkFailed,
     InquiryNoted, ReplyRecorded, ReplyPosted, IntakeBroken DEF MailIntake
<1>2. ASSUME NEW c \in Intakes, ReportIntake(c) PROVE DeskInv' /\ Grows
  BY <1>2, ReportStored, ReportCreated, ReportRefused, ReceiptQueued, ReportOpened, ReportLinked
     DEF ReportIntake
<1>3. CASE UNCHANGED deskVars
  BY <1>3 DEF deskVars, Grows, DeskInv, IntakeHolds, CaseHolds, MailedHolds, SameMail, SameInquiry
<1> QED
  BY <1>1, <1>2, <1>3, ReportReviewed, ApplicationTaken, ThreadAnswered DEF Desk

LEMMA DeskStartsRight == DeskInit => DeskInv
<1> SUFFICES ASSUME DeskInit PROVE DeskInv
  OBVIOUS
<1>1. /\ cases \in [CaseIds -> CaseRows]
      /\ \A i \in CaseIds : cases[i].thread = NoThread /\ cases[i].receipt = FALSE
  BY DEF DeskInit, NoRowYet, CaseRows
<1>2. /\ threads \in [ThreadIds -> ThreadRows]
      /\ \A t \in ThreadIds : threads[t].about = NoCase /\ threads[t].shows = {}
  BY DEF DeskInit, NoPost, ThreadRows
<1>3. /\ intakes \in [Intakes -> IntakeRows]
      /\ \A c \in Intakes : intakes[c].step = "idle"
  BY DEF DeskInit, IntakeIdle, IntakeRows, IntakeSteps
<1> QED
  BY <1>1, <1>2, <1>3
     DEF DeskInit, DeskInv, IntakeHolds, CaseHolds, SameMail, SameInquiry, Opening, Hearing,
         Reporting

\* What a review does to a row, and everything else does not.
ReviewedOnce(old, new) ==
    \/ old.kind = "none" /\ new.status = "pending"
    \/ new.kind = old.kind /\ new.status = old.status
    \/ new.kind = old.kind /\ old.status = "pending"

LEMMA RowsReviewedOnce ==
    ASSUME DeskInv, Desk, NEW i \in CaseIds
    PROVE  ReviewedOnce(cases[i], cases'[i])
<1> PICK old \in CaseRows : old = cases[i]
  BY DEF DeskInv
<1> DEFINE Stays == ReviewedOnce(cases[i], cases'[i])
<1>1. cases \in [CaseIds -> CaseRows]
  BY DEF DeskInv
<1>2. ASSUME NEW j \in FreeCases, NEW row, row.status = "pending",
             cases' = [cases EXCEPT ![j] = row]
      PROVE  Stays
  BY <1>1, <1>2 DEF ReviewedOnce, FreeCases
<1>3. ASSUME NEW j \in CaseIds,
             \/ \E x : cases' = [cases EXCEPT ![j].thread = x]
             \/ \E x : cases' = [cases EXCEPT ![j].receipt = x]
             \/ \E x : cases' = [cases EXCEPT ![j].files = @ \cup x]
             \/ \E x : cases' = [cases EXCEPT ![j].heard = @ \cup x]
      PROVE  Stays
  BY <1>1, <1>3 DEF ReviewedOnce, CaseRows
<1>4. CASE UNCHANGED cases
  BY <1>4 DEF ReviewedOnce
<1>5. ASSUME NEW c \in Intakes, MailIntake(c) PROVE Stays
  <2>1. IntakeHolds(c)
    BY DEF DeskInv
  <2>2. ASSUME NEW m \in MailIds, NEW p \in People, IntakeFromEmail(c, m, p) PROVE Stays
    <3>1. PICK j \in FreeCases : cases' = Insert(j, "inquiry", p)
      BY <2>2 DEF IntakeFromEmail
    <3> PICK row : row = [NoRowYet EXCEPT !.kind = "inquiry", !.from = p]
      OBVIOUS
    <3>2. row.status = "pending" /\ cases' = [cases EXCEPT ![j] = row]
      BY <3>1 DEF NoRowYet, Insert
    <3> QED  BY <1>2, <3>2
  <2>3. CASE StoreInquiryAttachments(c)
    BY <1>3, <1>4, <2>1, <2>3 DEF StoreInquiryAttachments, StoreAttachments, IntakeHolds, Opening
  <2>4. CASE SetDiscordThread(c)
    BY <1>3, <2>1, <2>4 DEF SetDiscordThread, IntakeHolds, Opening
  <2>5. CASE NoteInquiry(c) \/ RecordReply(c)
    <3>1. intakes[c].case \in CaseIds
      BY <2>1, <2>5 DEF NoteInquiry, RecordReply, IntakeHolds, Opening, Hearing
    <3> QED  BY <1>3, <2>5, <3>1 DEF NoteInquiry, RecordReply, Heard
  <2> QED
    BY <1>4, <1>5, <2>2, <2>3, <2>4, <2>5
       DEF MailIntake, HandleInboundReply, CreateInquiryThread, SetDiscordThreadFails, PostEmbed,
           IntakeBreaks
<1>6. ASSUME NEW c \in Intakes, ReportIntake(c) PROVE Stays
  <2>1. IntakeHolds(c)
    BY DEF DeskInv
  <2>2. CASE CreateContribution(c) \/ CreateContributionFails(c)
    <3>1. CASE \E j \in FreeCases :
                  cases' = [Insert(j, "report", intakes[c].from) EXCEPT ![j].files = {intakes[c].mail}]
      <4>1. PICK j \in FreeCases :
               cases' = [Insert(j, "report", intakes[c].from) EXCEPT ![j].files = {intakes[c].mail}]
        BY <3>1
      <4> PICK row : row = [NoRowYet EXCEPT !.kind = "report", !.from = intakes[c].from,
                                            !.files = {intakes[c].mail}]
        OBVIOUS
      <4>2. row.status = "pending"
        BY DEF NoRowYet
      <4>3. cases' = [cases EXCEPT ![j] = row]
        BY <1>1, <4>1 DEF NoRowYet, Insert, FreeCases
      <4> QED  BY <1>2, <4>2, <4>3
    <3> QED  BY <1>4, <2>2, <3>1 DEF CreateContribution, CreateContributionFails
  <2>3. CASE QueueReceipt(c)
    BY <1>3, <2>1, <2>3 DEF QueueReceipt, IntakeHolds, Reporting
  <2>4. CASE SetContributionDiscordThread(c)
    BY <1>3, <2>1, <2>4 DEF SetContributionDiscordThread, IntakeHolds, Reporting
  <2> QED
    BY <1>4, <1>6, <2>2, <2>3, <2>4 DEF ReportIntake, PutReportFile, CreateContributionThread
<1>7. ASSUME NEW a \in Staff, NEW j \in CaseIds, NEW s, ReviewContribution(a, j, s) PROVE Stays
  BY <1>1, <1>7 DEF ReviewContribution, Reviewed, ReviewedOnce, CaseRows
<1>8. ASSUME NEW p \in People, ApplicationArrives(p) PROVE Stays
  <2>1. PICK j \in FreeCases, t \in FreeThreads :
           cases' = [Insert(j, "application", p) EXCEPT ![j].thread = t]
    BY <1>8 DEF ApplicationArrives
  <2> PICK row : row = [NoRowYet EXCEPT !.kind = "application", !.from = p, !.thread = t]
    OBVIOUS
  <2>2. row.status = "pending"
    BY DEF NoRowYet
  <2>3. cases' = [cases EXCEPT ![j] = row]
    BY <1>1, <2>1 DEF NoRowYet, Insert, FreeCases
  <2> QED  BY <1>2, <2>2, <2>3
<1> QED
  BY <1>4, <1>5, <1>6, <1>7, <1>8 DEF Desk, StaffAnswers

\* What an inquiry heard is in its thread or was not posted, a receipt stands
\* for a file that is there, and a review is never taken back, for any number
\* of cases, threads and requests (HandleInboundReply, create, ReviewContribution).
THEOREM CasesAndThreadsAgree == DeskSpec => DeskAgrees
<1> DEFINE Stand == /\ ListPublicContributors \subseteq ListPublicContributors'
                    /\ \A i \in ListPublicContributors' : cases[i].status # "rejected"
<1>1. DeskInv => DeskTypeOK /\ HeardIsShown /\ ReceiptsHaveFiles
  <2> SUFFICES ASSUME DeskInv PROVE DeskTypeOK /\ HeardIsShown /\ ReceiptsHaveFiles
    OBVIOUS
  <2>1. DeskTypeOK
    BY DEF DeskInv, DeskTypeOK, CaseRows, ThreadRows, IntakeRows, IntakeSteps, Opening, Hearing,
           Reporting
  <2>2. HeardIsShown
    <3> SUFFICES ASSUME NEW a \in Admins, NEW i \in CaseIds, cases[i].thread # NoThread,
                        NEW m \in GetInquiryDetail(a, i)
                 PROVE  \/ m \in threads[cases[i].thread].shows \cup unposted
                        \/ \E c \in Intakes : intakes[c].mail = m
      BY DEF HeardIsShown
    <3>1. cases[i].kind = "inquiry" /\ m \in cases[i].heard
      BY DEF GetInquiryDetail, ListInquiriesByRoute, ListMessages
    <3> QED  BY <3>1 DEF DeskInv, CaseHolds
  <2>3. ReceiptsHaveFiles
    BY DEF DeskInv, CaseHolds, ReceiptsHaveFiles, ContributionAttachment, ListContributions,
           requireAdmissionsAdmin
  <2> QED  BY <2>1, <2>2, <2>3
<1>2. DeskInv /\ Desk => Stand
  <2> SUFFICES ASSUME DeskInv, Desk PROVE Stand
    OBVIOUS
  <2>1. \A i \in CaseIds : ReviewedOnce(cases[i], cases'[i])
    BY RowsReviewedOnce
  <2> QED  BY <2>1 DEF ListPublicContributors, ReviewedOnce
<1>3. DeskInv /\ [Desk]_deskVars => [Stand]_deskVars
  BY <1>2
<1> QED
  BY <1>1, <1>3, DeskStartsRight, DeskKeepsInv, PTL DEF DeskSpec, DeskAgrees, ReviewsStand

-----------------------------------------------------------------------------
(***************************************************************************)
(* Replies from Discord.                                                   *)

DraftRows == [state : {"none", "saving", "live", "gone"}, lapses : BOOLEAN,
              thread : ThreadIds \cup {NoThread}, raced : BOOLEAN]

Saving == {"supersede", "store"}
Handling == {"update", "remove", "take"}
Sending == {"find", "resolve", "mail"}

PressRows == [step : {"idle"} \cup Saving \cup Handling \cup Sending,
              draft : DraftIds \cup {NoDraft}, former : DraftIds \cup {NoDraft},
              case : CaseIds \cup {NoCase}]

On(c, d) == presses[c].step # "idle" /\ presses[c].draft = d

\* The case a reply is mailed to is the one its thread was opened for.
MailTo(i, t) ==
    /\ i \in CaseIds /\ t \in ThreadIds /\ threads[t].about = i /\ cases[i].kind # "none"
    /\ cases[i].kind \in {"application", "inquiry"} => cases[i].thread # NoThread

PressHolds(c) ==
    /\ presses[c].step # "idle" => presses[c].draft \in DraftIds
    /\ presses[c].step = "supersede" => presses[c].former \in DraftIds
    /\ presses[c].step = "mail" => MailTo(presses[c].case, drafts[presses[c].draft].thread)

\* One interaction at a time works on the draft; once it was sent, nobody does,
\* and while it is being sent the draft is gone.
Alone(d) ==
    /\ \A c, e \in Pressers : On(c, d) /\ On(e, d) => c = e
    /\ sent[d] <= 1
    /\ sent[d] > 0 => ~Live(d) /\ \A c \in Pressers : ~On(c, d)
    /\ \A c \in Pressers : On(c, d) /\ presses[c].step \in Sending => ~Live(d)

\* A draft is stored by one interaction before others can press its buttons,
\* and one at a time works on it unless they raced.
DraftHolds(d) ==
    /\ drafts[d].state # "none" => drafts[d].thread \in ThreadIds
    /\ drafts[d].state = "none" => \A c \in Pressers : ~On(c, d)
    /\ \A c \in Pressers :
           On(c, d) => (presses[c].step \in Saving <=> drafts[d].state = "saving")
    /\ drafts[d].state \in {"none", "saving"} => sent[d] = 0
    /\ drafts[d].state = "saving" \/ ~drafts[d].raced => Alone(d)

DraftsInv ==
    /\ drafts \in [DraftIds -> DraftRows] /\ current \in [ThreadIds -> DraftIds \cup {NoDraft}]
    /\ presses \in [Pressers -> PressRows] /\ sent \in [DraftIds -> 0..2]
    /\ \A c \in Pressers : PressHolds(c)
    /\ \A d \in DraftIds : DraftHolds(d)

LEMMA MailToStays ==
    ASSUME Grows, NEW i, NEW t, MailTo(i, t)
    PROVE  MailTo(i, t)'
  BY MailDeskAssumption DEF MailTo, Grows

LEMMA DeskStands == DeskInv /\ UNCHANGED deskVars => DeskInv' /\ Grows
  BY DeskKeepsInv

\* Interactions may leave a draft, and a live one may go.
LEMMA DraftKept ==
    ASSUME NEW d \in DraftIds, DraftHolds(d), drafts[d] \in DraftRows,
           sent'[d] = sent[d], drafts'[d].thread = drafts[d].thread,
           drafts'[d].raced = drafts[d].raced,
           drafts'[d].state = drafts[d].state \/ (Live(d) /\ drafts'[d].state = "gone"),
           \A c \in Pressers : On(c, d)' => On(c, d) /\ presses'[c].step = presses[c].step
    PROVE  DraftHolds(d)'
<1>1. Alone(d) => Alone(d)'
  BY DEF Alone, Live
<1>2. drafts'[d].state = "saving" => drafts[d].state = "saving"
  OBVIOUS
<1>3. drafts'[d].state \in {"none", "saving"} => drafts'[d].state = drafts[d].state
  OBVIOUS
<1>4. \A c \in Pressers :
           On(c, d)' => (presses'[c].step \in Saving <=> drafts'[d].state = "saving")
  BY DEF DraftHolds, Live
<1>5. drafts'[d].state = "saving" \/ ~drafts'[d].raced => Alone(d)'
  BY <1>1, <1>2 DEF DraftHolds
<1>6. drafts'[d].state # "none" => drafts'[d].thread \in ThreadIds
  BY DEF DraftHolds, Live
<1>7. drafts'[d].state = "none" => \A c \in Pressers : ~On(c, d)'
  BY <1>3 DEF DraftHolds
<1> QED  BY <1>3, <1>4, <1>5, <1>6, <1>7 DEF DraftHolds

\* An interaction of one draft moves, and the others keep what they know.
LEMMA PressFrame ==
    ASSUME DraftsInv, Grows, NEW c \in Pressers, NEW d \in DraftIds,
           drafts' \in [DraftIds -> DraftRows],
           current' \in [ThreadIds -> DraftIds \cup {NoDraft}],
           presses' \in [Pressers -> PressRows], sent' \in [DraftIds -> 0..2],
           \A e \in Pressers \ {c} : presses'[e] = presses[e],
           On(c, d) \/ presses[c].step = "idle",
           presses'[c].step # "idle" => presses'[c].draft = d,
           PressHolds(c)', DraftHolds(d)',
           \A x \in DraftIds \ {d} :
              /\ sent'[x] = sent[x] /\ drafts'[x].thread = drafts[x].thread
              /\ drafts'[x].raced = drafts[x].raced
              /\ drafts'[x].state = drafts[x].state \/ (Live(x) /\ drafts'[x].state = "gone"),
           drafts[d].state = "none" \/ drafts'[d].thread = drafts[d].thread
    PROVE  DraftsInv'
<1>1. /\ drafts \in [DraftIds -> DraftRows] /\ presses \in [Pressers -> PressRows]
      /\ \A e \in Pressers : PressHolds(e)
      /\ \A x \in DraftIds : DraftHolds(x)
  BY DEF DraftsInv
<1>2. ASSUME NEW e \in Pressers \ {c} PROVE PressHolds(e)'
  <2>1. presses'[e] = presses[e] /\ PressHolds(e)
    BY <1>1
  <2>2. presses[e].step # "mail" => PressHolds(e)'
    BY <2>1 DEF PressHolds
  <2>3. ASSUME presses[e].step = "mail" PROVE PressHolds(e)'
    <3>1. PICK x \in DraftIds : x = presses[e].draft
      BY <2>1, <2>3 DEF PressHolds
    <3>2. PICK i, t : i = presses[e].case /\ t = drafts[x].thread
      OBVIOUS
    <3>3. On(e, x) /\ MailTo(i, t)
      BY <2>1, <2>3, <3>1, <3>2 DEF PressHolds, On
    <3>4. drafts[x].state # "none"
      BY <1>1, <3>3 DEF DraftHolds
    <3>5. drafts'[x].thread = t
      BY <3>2, <3>4
    <3>6. MailTo(i, t)'
      BY <3>3, MailToStays
    <3> QED  BY <2>1, <2>3, <3>1, <3>2, <3>5, <3>6 DEF PressHolds
  <2> QED  BY <2>2, <2>3
<1>3. ASSUME NEW x \in DraftIds \ {d} PROVE DraftHolds(x)'
  <2>1. \A e \in Pressers : On(e, x)' => On(e, x) /\ presses'[e].step = presses[e].step
    BY DEF On
  <2> QED  BY <1>1, <2>1, DraftKept
<1> QED  BY <1>2, <1>3 DEF DraftsInv

LEMMA PressMoves ==
    ASSUME presses \in [Pressers -> PressRows], NEW c \in Pressers,
           NEW step \in Saving \cup Handling \cup Sending, PressStep(c, step)
    PROVE  /\ presses' \in [Pressers -> PressRows]
           /\ presses'[c].step = step /\ presses'[c].draft = presses[c].draft
           /\ presses'[c].case = presses[c].case /\ presses'[c].former = presses[c].former
           /\ \A d \in Pressers \ {c} : presses'[d] = presses[d]
<1> PICK old \in PressRows : old = presses[c]
  OBVIOUS
<1> PICK row : row = [old EXCEPT !.step = step]
  OBVIOUS
<1>1. /\ row \in PressRows /\ row.step = step /\ row.case = old.case /\ row.draft = old.draft
      /\ row.former = old.former
  BY DEF PressRows
<1>2. presses' = [presses EXCEPT ![c] = row]
  BY DEF PressStep
<1> QED  BY <1>1, <1>2

LEMMA PressReturns ==
    ASSUME presses \in [Pressers -> PressRows], NEW c \in Pressers, PressEnds(c)
    PROVE  /\ presses' \in [Pressers -> PressRows] /\ presses'[c].step = "idle"
           /\ \A d \in Pressers \ {c} : presses'[d] = presses[d]
           /\ PressHolds(c)'
<1>1. PressIdle \in PressRows /\ PressIdle.step = "idle"
  BY DEF PressIdle, PressRows
<1>2. /\ presses' \in [Pressers -> PressRows] /\ presses'[c].step = "idle"
      /\ \A d \in Pressers \ {c} : presses'[d] = presses[d]
  BY <1>1 DEF PressEnds
<1> QED  BY <1>2 DEF PressHolds

\* A draft takes its thread before it is stored (TakeThread).
LEMMA DraftTaken ==
    ASSUME DeskInv, DraftsInv, NEW c \in Pressers, NEW t \in ThreadIds, TakeThread(c, t)
    PROVE  DraftsInv'
<1>1. presses[c].step = "idle" /\ UNCHANGED <<deskVars, sent>> /\ DraftsInv
  BY DEF TakeThread
<1>2. PICK d \in DraftIds :
         /\ drafts[d].state = "none"
         /\ drafts' = [drafts EXCEPT ![d].state = "saving", ![d].thread = t]
         /\ current' = [current EXCEPT ![t] = d]
         /\ presses' = [presses EXCEPT ![c] =
                [step |-> IF current[t] = NoDraft THEN "store" ELSE "supersede",
                 draft |-> d, former |-> current[t], case |-> NoCase]]
  BY DEF TakeThread
<1> PICK old \in DraftRows : old = drafts[d]
  BY DEF DraftsInv
<1> PICK new : new = [old EXCEPT !.state = "saving", !.thread = t]
  OBVIOUS
<1>3. /\ new \in DraftRows /\ new.state = "saving" /\ new.thread = t /\ new.raced = old.raced
  BY DEF DraftRows
<1>4. drafts' = [drafts EXCEPT ![d] = new]
  BY <1>2 DEF DraftsInv
<1>5. /\ drafts' \in [DraftIds -> DraftRows] /\ drafts'[d] = new
      /\ \A x \in DraftIds \ {d} : drafts'[x] = drafts[x]
  BY <1>3, <1>4 DEF DraftsInv
<1> PICK f \in DraftIds \cup {NoDraft} : f = current[t]
  BY DEF DraftsInv
<1> PICK step \in Saving : step = IF f = NoDraft THEN "store" ELSE "supersede"
  BY DEF Saving
<1> PICK row : row = [step |-> step, draft |-> d, former |-> f, case |-> NoCase]
  OBVIOUS
<1>6. row \in PressRows /\ row.step = step /\ row.draft = d /\ row.former = f /\ step # "idle"
  BY DEF PressRows, Saving
<1>7. presses' = [presses EXCEPT ![c] = row]
  BY <1>2
<1>8. /\ presses' \in [Pressers -> PressRows] /\ presses'[c] = row
      /\ \A e \in Pressers \ {c} : presses'[e] = presses[e]
  BY <1>6, <1>7 DEF DraftsInv
<1>9. current' \in [ThreadIds -> DraftIds \cup {NoDraft}] /\ sent' \in [DraftIds -> 0..2]
  BY <1>1, <1>2 DEF DraftsInv
<1>10. PressHolds(c)'
  BY <1>6, <1>8 DEF PressHolds, Saving
<1>11. /\ \A e \in Pressers : ~On(e, d)
       /\ sent[d] = 0
  BY <1>2 DEF DraftsInv, DraftHolds
<1>12. \A e \in Pressers : On(e, d)' => e = c
  BY <1>8, <1>11 DEF On
<1>13. DraftHolds(d)'
  <2>1. sent'[d] = 0 /\ drafts'[d].state = "saving" /\ presses'[c].step \in Saving
    BY <1>1, <1>3, <1>5, <1>6, <1>8, <1>11
  <2>2. Alone(d)'
    BY <1>12, <2>1 DEF Alone, Saving, Sending
  <2> QED  BY <1>3, <1>5, <1>12, <2>1, <2>2 DEF DraftHolds
<1>14. Grows
  BY <1>1, DeskStands
<1>15. \A x \in DraftIds \ {d} :
              /\ sent'[x] = sent[x] /\ drafts'[x].thread = drafts[x].thread
              /\ drafts'[x].raced = drafts[x].raced
              /\ drafts'[x].state = drafts[x].state \/ (Live(x) /\ drafts'[x].state = "gone")
  BY <1>1, <1>5
<1>16. presses'[c].draft = d /\ drafts[d].state = "none"
  BY <1>2, <1>6, <1>8
<1> QED
  BY <1>1, <1>5, <1>8, <1>9, <1>10, <1>13, <1>14, <1>15, <1>16, PressFrame

\* A live draft goes.
LEMMA DraftRemoved ==
    ASSUME DraftsInv, NEW d \in DraftIds, drafts' = Removed(d)
    PROVE  /\ drafts' \in [DraftIds -> DraftRows]
           /\ \A x \in DraftIds :
                 /\ drafts'[x].thread = drafts[x].thread /\ drafts'[x].raced = drafts[x].raced
                 /\ drafts'[x].state = drafts[x].state \/ (Live(x) /\ drafts'[x].state = "gone")
           /\ ~(drafts'[d].state = "live")
<1>1. drafts \in [DraftIds -> DraftRows]
  BY DEF DraftsInv
<1>2. CASE ~Live(d)  BY <1>1, <1>2 DEF Removed, Live
<1>3. CASE Live(d)
  <2> PICK old \in DraftRows : old = drafts[d]
    BY <1>1
  <2> PICK new : new = [old EXCEPT !.state = "gone"]
    OBVIOUS
  <2>1. new \in DraftRows /\ new.state = "gone" /\ new.thread = old.thread /\ new.raced = old.raced
    BY DEF DraftRows
  <2>2. drafts' = [drafts EXCEPT ![d] = new]
    BY <1>1, <1>3 DEF Removed, Put
  <2>3. /\ drafts' \in [DraftIds -> DraftRows] /\ drafts'[d] = new
        /\ \A x \in DraftIds \ {d} : drafts'[x] = drafts[x]
    BY <1>1, <2>1, <2>2
  <2> QED  BY <1>3, <2>1, <2>3
<1> QED  BY <1>2, <1>3

\* The former draft of the thread is removed (Supersede).
LEMMA DraftSuperseded ==
    ASSUME DeskInv, DraftsInv, NEW c \in Pressers, Supersede(c)
    PROVE  DraftsInv'
<1>1. /\ presses[c].step = "supersede" /\ UNCHANGED <<deskVars, current, sent>>
      /\ PressStep(c, "store") /\ drafts' = Removed(presses[c].former) /\ DraftsInv
  BY DEF Supersede
<1>2. presses[c].former \in DraftIds /\ presses[c].draft \in DraftIds
  BY <1>1 DEF DraftsInv, PressHolds
<1> PICK d \in DraftIds : d = presses[c].draft
  BY <1>2
<1>3. /\ drafts' \in [DraftIds -> DraftRows]
      /\ \A x \in DraftIds :
            /\ drafts'[x].thread = drafts[x].thread /\ drafts'[x].raced = drafts[x].raced
            /\ drafts'[x].state = drafts[x].state \/ (Live(x) /\ drafts'[x].state = "gone")
  BY <1>1, <1>2, DraftRemoved
<1>4. "store" \in Saving \cup Handling \cup Sending
  BY DEF Saving
<1>5. /\ presses' \in [Pressers -> PressRows] /\ presses'[c].step = "store"
      /\ presses'[c].draft = d
      /\ \A e \in Pressers \ {c} : presses'[e] = presses[e]
  BY <1>1, <1>4, PressMoves DEF DraftsInv
<1>6. PressHolds(c)'
  BY <1>5 DEF PressHolds
<1>7. On(c, d) /\ DraftHolds(d)
  BY <1>1 DEF On, DraftsInv
<1>8. drafts[d].state = "saving"
  BY <1>1, <1>7 DEF DraftHolds, Saving
<1>9. drafts'[d].state = "saving" /\ sent'[d] = sent[d]
  BY <1>1, <1>3, <1>8 DEF Live
<1>10. \A e \in Pressers : On(e, d)' => e = c
  BY <1>5, <1>7, <1>8 DEF DraftHolds, Alone, On
<1>11. DraftHolds(d)'
  <2>1. sent'[d] = 0
    BY <1>7, <1>8, <1>9 DEF DraftHolds
  <2>2. Alone(d)'
    BY <1>5, <1>10, <2>1 DEF Alone, Sending
  <2> QED  BY <1>3, <1>5, <1>7, <1>8, <1>9, <1>10, <2>1, <2>2 DEF DraftHolds, Saving
<1>12. Grows
  BY <1>1, DeskStands
<1>13. /\ current' \in [ThreadIds -> DraftIds \cup {NoDraft}] /\ sent' \in [DraftIds -> 0..2]
       /\ sent' = sent
  BY <1>1 DEF DraftsInv
<1> QED  BY <1>1, <1>3, <1>5, <1>6, <1>7, <1>11, <1>12, <1>13, PressFrame

\* An interaction stores its draft, or writes it again (StoreDraft, UpdateDraft).
LEMMA DraftWritten ==
    ASSUME DeskInv, DraftsInv, NEW c \in Pressers, StoreDraft(c) \/ UpdateDraft(c)
    PROVE  DraftsInv'
<1>1. /\ presses[c].step \in {"store", "update"} /\ UNCHANGED <<deskVars, current, sent>>
      /\ PressEnds(c) /\ DraftsInv
  BY DEF StoreDraft, UpdateDraft
<1> PICK d \in DraftIds : d = presses[c].draft
  BY <1>1 DEF DraftsInv, PressHolds
<1> PICK old \in DraftRows : old = drafts[d]
  BY DEF DraftsInv
<1>2. PICK l \in BOOLEAN :
         drafts' = [drafts EXCEPT ![d] = [old EXCEPT !.state = "live", !.lapses = l]]
  <2>1. CASE StoreDraft(c)
    <3> PICK l \in BOOLEAN : l = old.lapses
      BY DEF DraftRows
    <3>1. [old EXCEPT !.state = "live"] = [old EXCEPT !.state = "live", !.lapses = l]
      BY DEF DraftRows
    <3>2. drafts' = [drafts EXCEPT ![d] = [old EXCEPT !.state = "live"]]
      BY <2>1 DEF StoreDraft, Put, DraftsInv
    <3> QED  BY <3>1, <3>2
  <2>2. CASE UpdateDraft(c)
    <3> PICK l \in BOOLEAN : l = (old.lapses /\ Live(d))
      OBVIOUS
    <3>1. drafts' = [drafts EXCEPT ![d] = [old EXCEPT !.state = "live", !.lapses = l]]
      BY <2>2 DEF UpdateDraft, DraftsInv
    <3> QED  BY <3>1
  <2> QED  BY <2>1, <2>2
<1> PICK new : new = [old EXCEPT !.state = "live", !.lapses = l]
  OBVIOUS
<1>3. new \in DraftRows /\ new.state = "live" /\ new.thread = old.thread /\ new.raced = old.raced
  BY DEF DraftRows
<1>4. /\ drafts' \in [DraftIds -> DraftRows] /\ drafts'[d] = new
      /\ \A x \in DraftIds \ {d} : drafts'[x] = drafts[x]
  BY <1>2, <1>3 DEF DraftsInv
<1>5. /\ presses' \in [Pressers -> PressRows] /\ presses'[c].step = "idle"
      /\ \A e \in Pressers \ {c} : presses'[e] = presses[e]
      /\ PressHolds(c)'
  BY <1>1, PressReturns DEF DraftsInv
<1>6. On(c, d) /\ DraftHolds(d)
  BY <1>1 DEF On, DraftsInv
<1>7. \A e \in Pressers : On(e, d)' => e # c /\ On(e, d) /\ presses'[e].step = presses[e].step
  BY <1>5 DEF On
<1>8. old.state # "none" /\ old.thread \in ThreadIds
  BY <1>6 DEF DraftHolds
<1>9. \A e \in Pressers : On(e, d)' => presses'[e].step \notin Saving
  BY <1>6, <1>7 DEF DraftHolds, Alone
<1>10. ~old.raced => Alone(d)'
  <2> SUFFICES ASSUME ~old.raced PROVE Alone(d)'
    OBVIOUS
  <2>1. Alone(d)
    BY <1>6 DEF DraftHolds
  <2>2. (\A e \in Pressers : ~On(e, d)') /\ sent'[d] = 0
    BY <1>1, <1>6, <1>7, <2>1 DEF Alone, DraftsInv
  <2> QED  BY <2>2 DEF Alone
<1>11. DraftHolds(d)'
  BY <1>3, <1>4, <1>8, <1>9, <1>10 DEF DraftHolds
<1>12. Grows
  BY <1>1, DeskStands
<1>13. /\ current' \in [ThreadIds -> DraftIds \cup {NoDraft}] /\ sent' \in [DraftIds -> 0..2]
       /\ sent' = sent
  BY <1>1 DEF DraftsInv
<1>14. \A x \in DraftIds \ {d} :
              /\ sent'[x] = sent[x] /\ drafts'[x].thread = drafts[x].thread
              /\ drafts'[x].raced = drafts[x].raced
              /\ drafts'[x].state = drafts[x].state \/ (Live(x) /\ drafts'[x].state = "gone")
  BY <1>4, <1>13
<1>15. drafts'[d].thread = drafts[d].thread /\ ~(presses'[c].step # "idle")
  BY <1>3, <1>4, <1>5
<1> QED
  BY <1>4, <1>5, <1>6, <1>11, <1>12, <1>13, <1>14, <1>15, PressFrame

\* A button loads a draft that is live (SubmitEdit, PressDelete, PressSend).
LEMMA DraftLoaded ==
    ASSUME DeskInv, DraftsInv, NEW c \in Pressers, NEW d \in DraftIds, NEW step \in Handling,
           LoadDraft(c, d, step)
    PROVE  DraftsInv'
<1>1. /\ presses[c].step = "idle" /\ Live(d) /\ UNCHANGED <<deskVars, current, sent>>
      /\ presses' = [presses EXCEPT ![c] = [PressIdle EXCEPT !.step = step, !.draft = d]]
      /\ drafts' = [drafts EXCEPT ![d].raced = @ \/ Handled(d)] /\ DraftsInv
  BY DEF LoadDraft, Press
<1> PICK old \in DraftRows : old = drafts[d]
  BY DEF DraftsInv
<1> PICK b \in BOOLEAN : b = (old.raced \/ Handled(d))
  OBVIOUS
<1> PICK new : new = [old EXCEPT !.raced = b]
  OBVIOUS
<1>2. new \in DraftRows /\ new.state = old.state /\ new.thread = old.thread /\ new.raced = b
  BY DEF DraftRows
<1>3. drafts' = [drafts EXCEPT ![d] = new]
  BY <1>1 DEF DraftsInv
<1>4. /\ drafts' \in [DraftIds -> DraftRows] /\ drafts'[d] = new
      /\ \A x \in DraftIds \ {d} : drafts'[x] = drafts[x]
  BY <1>2, <1>3 DEF DraftsInv
<1> PICK row : row = [PressIdle EXCEPT !.step = step, !.draft = d]
  OBVIOUS
<1>5. row \in PressRows /\ row.step = step /\ row.draft = d
  BY DEF PressRows, PressIdle
<1>6. /\ presses' \in [Pressers -> PressRows] /\ presses'[c] = row
      /\ \A e \in Pressers \ {c} : presses'[e] = presses[e]
  BY <1>1, <1>5 DEF DraftsInv
<1>7. PressHolds(c)'
  BY <1>5, <1>6 DEF PressHolds, Handling
<1>8. old.state = "live" /\ DraftHolds(d) /\ old.thread \in ThreadIds
  BY <1>1 DEF Live, DraftsInv, DraftHolds
<1>9. \A e \in Pressers : On(e, d)' => presses'[e].step \notin Saving
  BY <1>5, <1>6, <1>8 DEF On, DraftHolds, Saving, Handling
<1>10. ~b => Alone(d)'
  <2> SUFFICES ASSUME ~b PROVE Alone(d)'
    OBVIOUS
  <2>1. Alone(d)
    BY <1>8 DEF DraftHolds
  <2>2. \A e \in Pressers : ~On(e, d)
    <3> SUFFICES ASSUME NEW e \in Pressers, On(e, d) PROVE FALSE
      OBVIOUS
    <3>1. presses[e].step \in {"idle"} \cup Saving \cup Handling \cup Sending
      BY DEF DraftsInv, PressRows
    <3>2. presses[e].step \in Handling
      BY <1>1, <1>8, <2>1, <3>1 DEF DraftHolds, Alone, On
    <3> QED  BY <3>2 DEF Handled, On, Handling
  <2>3. \A e \in Pressers : On(e, d)' => e = c
    BY <1>6, <2>2 DEF On
  <2>4. sent'[d] = 0
    BY <1>1, <2>1 DEF Alone, DraftsInv
  <2>5. \A e \in Pressers : On(e, d)' => presses'[e].step \notin Sending
    BY <1>5, <1>6, <2>3 DEF Handling, Sending
  <2> QED  BY <2>3, <2>4, <2>5 DEF Alone
<1>11. DraftHolds(d)'
  BY <1>2, <1>4, <1>8, <1>9, <1>10 DEF DraftHolds
<1>12. Grows
  BY <1>1, DeskStands
<1>13. /\ current' \in [ThreadIds -> DraftIds \cup {NoDraft}] /\ sent' \in [DraftIds -> 0..2]
       /\ sent' = sent
  BY <1>1 DEF DraftsInv
<1>14. \A x \in DraftIds \ {d} :
              /\ sent'[x] = sent[x] /\ drafts'[x].thread = drafts[x].thread
              /\ drafts'[x].raced = drafts[x].raced
              /\ drafts'[x].state = drafts[x].state \/ (Live(x) /\ drafts'[x].state = "gone")
  BY <1>4, <1>13
<1>15. drafts'[d].thread = drafts[d].thread /\ presses'[c].draft = d
  BY <1>2, <1>4, <1>5, <1>6
<1> QED
  BY <1>1, <1>4, <1>6, <1>7, <1>11, <1>12, <1>13, <1>14, <1>15, PressFrame

\* Interactions that leave, or move on, without the draft coming back.
LEMMA PressEnded ==
    ASSUME DeskInv, DraftsInv, NEW c \in Pressers, PressEnds(c), presses[c].step # "idle",
           Grows, sent' = sent, current' = current,
           drafts' = drafts \/ drafts' = Removed(presses[c].draft)
    PROVE  DraftsInv'
<1> PICK d \in DraftIds : d = presses[c].draft
  BY DEF DraftsInv, PressHolds
<1>1. /\ drafts' \in [DraftIds -> DraftRows]
      /\ \A x \in DraftIds :
            /\ drafts'[x].thread = drafts[x].thread /\ drafts'[x].raced = drafts[x].raced
            /\ drafts'[x].state = drafts[x].state \/ (Live(x) /\ drafts'[x].state = "gone")
  BY DraftRemoved DEF DraftsInv
<1>2. /\ presses' \in [Pressers -> PressRows] /\ presses'[c].step = "idle"
      /\ \A e \in Pressers \ {c} : presses'[e] = presses[e]
      /\ PressHolds(c)'
  BY PressReturns DEF DraftsInv
<1>3. /\ current' \in [ThreadIds -> DraftIds \cup {NoDraft}] /\ sent' \in [DraftIds -> 0..2]
      /\ sent'[d] = sent[d] /\ drafts[d] \in DraftRows /\ DraftHolds(d)
  BY DEF DraftsInv
<1>4. \A e \in Pressers : On(e, d)' => On(e, d) /\ presses'[e].step = presses[e].step
  BY <1>2 DEF On
<1>5. DraftHolds(d)'
  BY <1>1, <1>3, <1>4, DraftKept
<1>6. On(c, d)
  BY DEF On
<1>7. \A x \in DraftIds \ {d} :
              /\ sent'[x] = sent[x] /\ drafts'[x].thread = drafts[x].thread
              /\ drafts'[x].raced = drafts[x].raced
              /\ drafts'[x].state = drafts[x].state \/ (Live(x) /\ drafts'[x].state = "gone")
  BY <1>1
<1>8. drafts'[d].thread = drafts[d].thread /\ ~(presses'[c].step # "idle")
  BY <1>1, <1>2
<1> QED  BY <1>1, <1>2, <1>3, <1>5, <1>6, <1>7, <1>8, PressFrame

\* The interaction that sends a draft deleted it before (TakeDraft, RouteReply).
LEMMA PressSends ==
    ASSUME DeskInv, DraftsInv, NEW c \in Pressers, NEW step \in Sending, NEW i, NEW t,
           Grows, sent' = sent, current' = current,
           \/ presses[c].step = "take" /\ drafts' = Removed(presses[c].draft)
           \/ presses[c].step \in Sending /\ drafts' = drafts,
           presses' \in [Pressers -> PressRows], presses'[c].step = step,
           presses'[c].draft = presses[c].draft,
           \A e \in Pressers \ {c} : presses'[e] = presses[e],
           i = presses'[c].case, t = drafts[presses[c].draft].thread,
           step = "mail" => MailTo(i, t)'
    PROVE  DraftsInv'
<1>1. presses[c].step # "idle" /\ presses[c].step \notin Saving /\ presses[c].step # "supersede"
  BY DEF Sending, Saving
<1> PICK d \in DraftIds : d = presses[c].draft
  BY <1>1 DEF DraftsInv, PressHolds
<1>2. On(c, d) /\ DraftHolds(d)
  BY <1>1 DEF On, DraftsInv
<1>3. /\ drafts' \in [DraftIds -> DraftRows]
      /\ \A x \in DraftIds :
            /\ drafts'[x].thread = drafts[x].thread /\ drafts'[x].raced = drafts[x].raced
            /\ drafts'[x].state = drafts[x].state \/ (Live(x) /\ drafts'[x].state = "gone")
  BY DraftRemoved DEF DraftsInv
<1>4. PressHolds(c)'
  BY <1>3 DEF PressHolds, Sending
<1>5. \A e \in Pressers : On(e, d)' => On(e, d) /\ presses'[e].step \notin Saving
  <2>1. drafts[d].state # "saving"
    BY <1>1, <1>2 DEF DraftHolds
  <2> QED  BY <1>2, <2>1 DEF DraftHolds, On, Sending, Saving
<1>6. drafts[d].state \notin {"none", "saving"}
  BY <1>1, <1>2 DEF DraftHolds
<1>7. drafts'[d].state \notin {"none", "saving"}
  BY <1>3, <1>6
<1>8. ~drafts[d].raced => Alone(d)'
  <2> SUFFICES ASSUME ~drafts[d].raced PROVE Alone(d)'
    OBVIOUS
  <2>1. Alone(d)
    BY <1>2 DEF DraftHolds
  <2>2. \A e \in Pressers : On(e, d)' => e = c
    BY <1>2, <1>5, <2>1 DEF Alone
  <2>3. ~Live(d)'
    <3>1. CASE presses[c].step = "take" /\ drafts' = Removed(d)
      BY <3>1, DraftRemoved DEF Live
    <3>2. CASE presses[c].step \in Sending /\ drafts' = drafts
      BY <1>2, <2>1, <3>2 DEF Alone, Live
    <3> QED  BY <3>1, <3>2 DEF Sending
  <2>4. sent'[d] = 0
    BY <1>2, <2>1 DEF Alone, DraftsInv
  <2> QED  BY <2>2, <2>3, <2>4 DEF Alone
<1>9. DraftHolds(d)'
  BY <1>2, <1>3, <1>5, <1>6, <1>7, <1>8 DEF DraftHolds
<1>10. /\ current' \in [ThreadIds -> DraftIds \cup {NoDraft}] /\ sent' \in [DraftIds -> 0..2]
  BY DEF DraftsInv
<1>11. \A x \in DraftIds \ {d} :
              /\ sent'[x] = sent[x] /\ drafts'[x].thread = drafts[x].thread
              /\ drafts'[x].raced = drafts[x].raced
              /\ drafts'[x].state = drafts[x].state \/ (Live(x) /\ drafts'[x].state = "gone")
  BY <1>3
<1>12. drafts'[d].thread = drafts[d].thread /\ presses'[c].draft = d
  BY <1>3
<1> QED  BY <1>2, <1>3, <1>4, <1>9, <1>10, <1>11, <1>12, PressFrame

LEMMA DraftSent ==
    ASSUME DeskInv, DraftsInv, NEW c \in Pressers, TakeDraft(c)
    PROVE  DraftsInv'
<1>1. /\ presses[c].step = "take" /\ UNCHANGED <<deskVars, current, sent>>
      /\ drafts' = Removed(presses[c].draft) /\ PressStep(c, "find")
  BY DEF TakeDraft, Taken
<1>2. "find" \in Sending /\ "find" # "mail"
  BY DEF Sending
<1>3. /\ presses' \in [Pressers -> PressRows] /\ presses'[c].step = "find"
      /\ presses'[c].draft = presses[c].draft
      /\ \A e \in Pressers \ {c} : presses'[e] = presses[e]
  BY <1>1, <1>2, PressMoves DEF DraftsInv
<1>4. Grows /\ sent' = sent /\ current' = current
  BY <1>1, DeskStands
<1> QED  BY <1>1, <1>2, <1>3, <1>4, PressSends

\* An interaction moves on to mail a case.
LEMMA PressFound ==
    ASSUME presses \in [Pressers -> PressRows], NEW c \in Pressers, NEW i \in CaseIds,
           presses' = [presses EXCEPT ![c].step = "mail", ![c].case = i]
    PROVE  /\ presses' \in [Pressers -> PressRows] /\ presses'[c].step = "mail"
           /\ presses'[c].draft = presses[c].draft /\ presses'[c].case = i
           /\ \A e \in Pressers \ {c} : presses'[e] = presses[e]
<1> PICK old \in PressRows : old = presses[c]
  OBVIOUS
<1> PICK row : row = [old EXCEPT !.step = "mail", !.case = i]
  OBVIOUS
<1>1. row \in PressRows /\ row.step = "mail" /\ row.case = i /\ row.draft = old.draft
  BY DEF PressRows, Sending
<1>2. presses' = [presses EXCEPT ![c] = row]
  OBVIOUS
<1> QED  BY <1>1, <1>2

\* The router asks for the case of the thread (RouteReply).
LEMMA ReplyRouted ==
    ASSUME DeskInv, DraftsInv, NEW c \in Pressers, RouteReply(c)
    PROVE  DraftsInv'
<1>1. presses[c].step = "find" /\ UNCHANGED <<deskVars, drafts, current, sent>>
  BY DEF RouteReply
<1> PICK d \in DraftIds : d = presses[c].draft
  BY <1>1 DEF DraftsInv, PressHolds
<1>2. drafts[d].state # "none" /\ drafts[d].thread \in ThreadIds
  BY <1>1 DEF DraftsInv, DraftHolds, On
<1> PICK t \in ThreadIds : t = drafts[d].thread
  BY <1>2
<1>3. Grows /\ sent' = sent /\ current' = current /\ drafts' = drafts
  BY <1>1, DeskStands
<1>4. presses[c].step \in Sending /\ "mail" \in Sending /\ "resolve" \in Sending
  BY <1>1 DEF Sending
<1>5. ASSUME NEW i \in Owners(t),
             presses' = [presses EXCEPT ![c].step = "mail", ![c].case = i]
      PROVE  DraftsInv'
  <2>1. i \in CaseIds /\ MailTo(i, t)
    BY OwnersKnown DEF MailTo
  <2>2. MailTo(i, t)'
    BY <1>3, <2>1, MailToStays
  <2>3. /\ presses' \in [Pressers -> PressRows] /\ presses'[c].step = "mail"
        /\ presses'[c].draft = presses[c].draft /\ presses'[c].case = i
        /\ \A e \in Pressers \ {c} : presses'[e] = presses[e]
    BY <1>5, <2>1, PressFound DEF DraftsInv
  <2> QED  BY <1>3, <1>4, <2>2, <2>3, PressSends
<1>6. CASE PressStep(c, "resolve")
  <2>1. /\ presses' \in [Pressers -> PressRows] /\ presses'[c].step = "resolve"
        /\ presses'[c].draft = presses[c].draft
        /\ \A e \in Pressers \ {c} : presses'[e] = presses[e]
    BY <1>4, <1>6, PressMoves DEF DraftsInv
  <2> QED  BY <1>3, <1>4, <2>1, PressSends
<1> QED  BY <1>5, <1>6 DEF RouteReply

\* The report is found by the first message of the thread (ResolveReport).
LEMMA ReplyResolved ==
    ASSUME DeskInv, DraftsInv, NEW c \in Pressers, ResolveReport(c)
    PROVE  DeskInv' /\ DraftsInv'
<1>1. /\ presses[c].step = "resolve"
      /\ UNCHANGED <<threads, objects, intakes, mailed, unposted, drafts, current, sent>>
  BY DEF ResolveReport
<1> PICK d \in DraftIds : d = presses[c].draft
  BY <1>1 DEF DraftsInv, PressHolds
<1>2. drafts[d].state # "none" /\ drafts[d].thread \in ThreadIds
  BY <1>1 DEF DraftsInv, DraftHolds, On
<1> PICK t \in ThreadIds : t = drafts[d].thread
  BY <1>2
<1>3. presses[c].step \in Sending /\ "mail" \in Sending
  BY <1>1 DEF Sending
<1>4. ASSUME NEW i \in Resolved(t), Links(i, t),
             cases' = [cases EXCEPT ![i].thread = t],
             presses' = [presses EXCEPT ![c].step = "mail", ![c].case = i]
      PROVE  DeskInv' /\ DraftsInv'
  <2>1. /\ i \in CaseIds /\ threads[t].about = i /\ cases[i].kind = "report"
    BY DEF Resolved, FindContributionReplyTargetByID
  <2>2. {} \in SUBSET Intakes /\ UNCHANGED threads
    BY <1>1
  <2>3. /\ cases' \in [CaseIds -> CaseRows]
        /\ \A j \in CaseIds : RowFollows({}, j, cases[j], cases'[j])
    BY <1>4, <2>1, <2>2, ReportRowLinked
  <2>4. /\ threads' \in [ThreadIds -> ThreadRows]
        /\ \A u \in ThreadIds : ThreadFollows(threads[u], threads'[u])
    BY <2>2, ThreadsStand
  <2>5. DeskInv' /\ Grows
    BY <1>1, <2>3, <2>4, OutsideFrame
  <2>6. MailTo(i, t)
    BY <2>1 DEF MailTo
  <2>7. MailTo(i, t)'
    BY <2>5, <2>6, MailToStays
  <2>8. /\ presses' \in [Pressers -> PressRows] /\ presses'[c].step = "mail"
        /\ presses'[c].draft = presses[c].draft /\ presses'[c].case = i
        /\ \A e \in Pressers \ {c} : presses'[e] = presses[e]
    BY <1>4, <2>1, PressFound DEF DraftsInv
  <2>9. sent' = sent /\ current' = current /\ drafts' = drafts
    BY <1>1
  <2>10. DraftsInv'
    BY <1>3, <2>5, <2>7, <2>8, <2>9, PressSends
  <2> QED  BY <2>5, <2>10
<1>5. CASE PressEnds(c) /\ UNCHANGED cases
  <2>1. DeskInv' /\ Grows
    BY <1>1, <1>5, DeskStands DEF deskVars
  <2>2. sent' = sent /\ current' = current /\ drafts' = drafts /\ presses[c].step # "idle"
    BY <1>1
  <2> QED  BY <1>5, <2>1, <2>2, PressEnded
<1> QED  BY <1>4, <1>5 DEF ResolveReport

\* The reply is mailed, once unless interactions raced (MailReply).
LEMMA ReplyMailed ==
    ASSUME DeskInv, DraftsInv, NEW c \in Pressers, MailReply(c)
    PROVE  DeskInv' /\ DraftsInv'
<1> PICK d \in DraftIds : d = presses[c].draft
  BY DEF DraftsInv, PressHolds, MailReply
<1> PICK i, t : i = presses[c].case /\ t = drafts[d].thread
  OBVIOUS
<1>1. /\ presses[c].step = "mail" /\ sent[d] < 2 /\ ReplyByDiscord(i, t)
      /\ sent' = [sent EXCEPT ![d] = @ + 1] /\ PressEnds(c)
      /\ UNCHANGED <<cases, threads, objects, intakes, unposted, drafts, current>>
  BY DEF MailReply
<1>2. MailTo(i, t)
  BY <1>1 DEF DraftsInv, PressHolds
<1>3. DeskInv' /\ Grows
  BY <1>1, <1>2, OwnerMailed DEF MailTo
<1>4. /\ presses' \in [Pressers -> PressRows] /\ presses'[c].step = "idle"
      /\ \A e \in Pressers \ {c} : presses'[e] = presses[e]
      /\ PressHolds(c)'
  BY <1>1, PressReturns DEF DraftsInv
<1>5. /\ sent' \in [DraftIds -> 0..2] /\ sent'[d] = sent[d] + 1
      /\ \A x \in DraftIds \ {d} : sent'[x] = sent[x]
  BY <1>1 DEF DraftsInv
<1>6. On(c, d) /\ DraftHolds(d) /\ drafts' = drafts /\ sent[d] \in 0..2
  BY <1>1 DEF On, DraftsInv
<1>7. drafts[d].state \notin {"none", "saving"}
  BY <1>1, <1>6 DEF DraftHolds, Saving
<1>8. \A e \in Pressers : On(e, d)' => e # c /\ On(e, d) /\ presses'[e].step = presses[e].step
  BY <1>4 DEF On
<1>9. ~drafts[d].raced => Alone(d)'
  <2> SUFFICES ASSUME ~drafts[d].raced PROVE Alone(d)'
    OBVIOUS
  <2>1. Alone(d)
    BY <1>6 DEF DraftHolds
  <2>2. \A e \in Pressers : ~On(e, d)'
    BY <1>6, <1>8, <2>1 DEF Alone
  <2>3. sent[d] = 0 /\ ~Live(d)
    BY <1>1, <1>6, <2>1 DEF Alone, Sending
  <2>4. sent'[d] = 1 /\ ~Live(d)'
    BY <1>5, <1>6, <2>3 DEF Live
  <2> QED  BY <2>2, <2>4 DEF Alone
<1>10. DraftHolds(d)'
  BY <1>6, <1>7, <1>8, <1>9 DEF DraftHolds
<1>11. /\ drafts' \in [DraftIds -> DraftRows]
       /\ current' \in [ThreadIds -> DraftIds \cup {NoDraft}]
       /\ ~(presses'[c].step # "idle")
  BY <1>1, <1>4 DEF DraftsInv
<1>12. DraftsInv'
  BY <1>3, <1>4, <1>5, <1>6, <1>10, <1>11, PressFrame
<1> QED  BY <1>3, <1>12

\* Redis forgets a draft (DraftLapses).
LEMMA DraftForgotten ==
    ASSUME DeskInv, DraftsInv, NEW d \in DraftIds, DraftLapses(d)
    PROVE  DraftsInv'
<1>1. /\ drafts' = Removed(d) /\ UNCHANGED <<deskVars, presses, sent>>
  BY DEF DraftLapses, Removed
<1>2. /\ drafts' \in [DraftIds -> DraftRows]
      /\ \A x \in DraftIds :
            /\ drafts'[x].thread = drafts[x].thread /\ drafts'[x].raced = drafts[x].raced
            /\ drafts'[x].state = drafts[x].state \/ (Live(x) /\ drafts'[x].state = "gone")
  BY <1>1, DraftRemoved
<1>3. current' \in [ThreadIds -> DraftIds \cup {NoDraft}]
  BY DEF DraftLapses, DraftsInv
<1>4. \A x \in DraftIds : DraftHolds(x)'
  <2> SUFFICES ASSUME NEW x \in DraftIds PROVE DraftHolds(x)'
    OBVIOUS
  <2>1. /\ DraftHolds(x) /\ drafts[x] \in DraftRows /\ sent'[x] = sent[x]
        /\ \A c \in Pressers : On(c, x)' => On(c, x) /\ presses'[c].step = presses[c].step
    BY <1>1 DEF DraftsInv, On
  <2> QED  BY <1>2, <2>1, DraftKept
<1>5. \A c \in Pressers : PressHolds(c)'
  BY <1>1, <1>2 DEF DraftsInv, PressHolds, MailTo, deskVars
<1> QED  BY <1>1, <1>2, <1>3, <1>4, <1>5 DEF DraftsInv

LEMMA DraftsStand ==
    ASSUME DraftsInv, Grows, UNCHANGED draftVars
    PROVE  DraftsInv'
<1>1. \A c \in Pressers : PressHolds(c)'
  <2> SUFFICES ASSUME NEW c \in Pressers PROVE PressHolds(c)'
    OBVIOUS
  <2>1. PICK i, t : i = presses[c].case /\ t = drafts[presses[c].draft].thread
    OBVIOUS
  <2>2. PressHolds(c) /\ presses' = presses /\ drafts' = drafts
    BY DEF DraftsInv, draftVars
  <2>3. presses[c].step = "mail" => MailTo(i, t)'
    BY <2>1, <2>2, MailToStays DEF PressHolds
  <2> QED  BY <2>1, <2>2, <2>3 DEF PressHolds
<1>2. \A d \in DraftIds : DraftHolds(d)'
  BY DEF DraftsInv, DraftHolds, Alone, On, Live, draftVars
<1> QED  BY <1>1, <1>2 DEF DraftsInv, draftVars

\* A reply goes to the person whose case its thread was opened for, and a draft
\* is mailed twice only when interactions on it overlapped, for any number of
\* cases, threads, drafts and interactions (ReplyByDiscord, handleDraftAction).
THEOREM RepliesGoWhereTheyBelong == RepliesSpec => []RepliesAgree
<1>1. DeskInit /\ DraftsInit => DeskInv /\ DraftsInv
  <2> SUFFICES ASSUME DeskInit, DraftsInit PROVE DeskInv /\ DraftsInv
    OBVIOUS
  <2>1. /\ drafts \in [DraftIds -> DraftRows]
        /\ \A d \in DraftIds : drafts[d].state = "none"
    BY DEF DraftsInit, NoDraftYet, DraftRows
  <2>2. /\ presses \in [Pressers -> PressRows]
        /\ \A c \in Pressers : presses[c].step = "idle"
    BY DEF DraftsInit, PressIdle, PressRows
  <2>3. /\ sent \in [DraftIds -> 0..2] /\ \A d \in DraftIds : sent[d] = 0
        /\ current \in [ThreadIds -> DraftIds \cup {NoDraft}]
    BY DEF DraftsInit
  <2>4. DraftsInv
    BY <2>1, <2>2, <2>3 DEF DraftsInv, PressHolds, DraftHolds, Alone, On
  <2> QED  BY <2>4, DeskStartsRight
<1>2. DeskInv /\ DraftsInv /\ [RepliesNext]_replyVars => DeskInv' /\ DraftsInv'
  <2> SUFFICES ASSUME DeskInv, DraftsInv, [RepliesNext]_replyVars PROVE DeskInv' /\ DraftsInv'
    OBVIOUS
  <2>1. CASE UNCHANGED replyVars
    BY <2>1, DeskStands, DraftsStand DEF replyVars
  <2>2. CASE Desk /\ UNCHANGED draftVars
    BY <2>2, DeskKeepsInv, DraftsStand
  <2>3. ASSUME NEW d \in DraftIds, DraftLapses(d) PROVE DeskInv' /\ DraftsInv'
    BY <2>3, DraftForgotten, DeskStands DEF DraftLapses
  <2>4. ASSUME NEW c \in Pressers, Interactions(c) PROVE DeskInv' /\ DraftsInv'
    <3>1. ASSUME NEW t \in ThreadIds, TakeThread(c, t) PROVE DeskInv' /\ DraftsInv'
      BY <3>1, DraftTaken, DeskStands DEF TakeThread
    <3>2. CASE Supersede(c)
      BY <3>2, DraftSuperseded, DeskStands DEF Supersede
    <3>3. CASE StoreDraft(c) \/ UpdateDraft(c)
      BY <3>3, DraftWritten, DeskStands DEF StoreDraft, UpdateDraft
    <3>4. ASSUME NEW d \in DraftIds, SubmitEdit(c, d) \/ PressDelete(c, d) \/ PressSend(c, d)
          PROVE  DeskInv' /\ DraftsInv'
      <4>1. PICK step \in Handling : LoadDraft(c, d, step)
        BY <3>4 DEF SubmitEdit, PressDelete, PressSend, Handling
      <4> QED  BY <4>1, DraftLoaded, DeskStands DEF LoadDraft
    <3>5. CASE DeleteDraft(c) \/ PressBreaks(c)
      <4>1. /\ PressEnds(c) /\ presses[c].step # "idle" /\ sent' = sent /\ current' = current
            /\ drafts' = drafts \/ drafts' = Removed(presses[c].draft)
            /\ UNCHANGED deskVars
        BY <3>5 DEF DeleteDraft, PressBreaks
      <4> QED  BY <4>1, PressEnded, DeskStands
    <3>6. CASE TakeDraft(c) \/ RouteReply(c)
      BY <3>6, DraftSent, ReplyRouted, DeskStands DEF TakeDraft, RouteReply
    <3> QED
      BY <2>4, <3>1, <3>2, <3>3, <3>4, <3>5, <3>6, ReplyResolved, ReplyMailed DEF Interactions
  <2> QED  BY <2>1, <2>2, <2>3, <2>4 DEF RepliesNext, ReplySteps
<1>3. DeskInv /\ DraftsInv => RepliesAgree
  <2> SUFFICES ASSUME DeskInv, DraftsInv PROVE RepliesAgree
    OBVIOUS
  <2>1. DraftsTypeOK
    BY DEF DraftsInv, DraftsTypeOK, DraftRows, PressRows, Saving, Handling, Sending
  <2>2. RepliesReachOwner
    BY DEF DeskInv, MailedHolds, RepliesReachOwner
  <2>3. MailedOnceUnlessRaced
    BY DEF DraftsInv, DraftHolds, Alone, MailedOnceUnlessRaced
  <2> QED  BY <2>1, <2>2, <2>3 DEF RepliesAgree
<1> QED  BY <1>1, <1>2, <1>3, PTL DEF RepliesSpec
==============================================================================

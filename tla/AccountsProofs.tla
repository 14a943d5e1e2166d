---------------------------- MODULE AccountsProofs ----------------------------
(***************************************************************************)
(* What holds of accounts, of the second factor of administrators, of the  *)
(* verification of students and of applications for an account, for every  *)
(* number of them and of requests at once.                                 *)
(*                                                                         *)
(* A request that is between its check and its write still holds what it   *)
(* checked: the inductive invariants say what each kind of request knows   *)
(* at each of its steps, and the lemmas that no step of another request    *)
(* takes it back.                                                          *)
(***************************************************************************)
EXTENDS AdminMFA, AccountApplications, Verification, TLAPS

-----------------------------------------------------------------------------
(***************************************************************************)
(* Accounts, links and sessions.                                           *)

AccountRows ==
    [status : {"none", "pending", "active", "suspended"},
     identity : {"temporary", "student", "senior"},
     mail : Addresses \cup {Nobody}, pass : 0..MaxPass, verified : BOOLEAN,
     roles : SUBSET {"admin", "service", "admissions_moderator"}]

LinkRows ==
    [acct : AccountIds \cup {Nobody}, kind : LinkKinds \cup {"none"},
     state : {"none", "open", "used", "closed"}, fresh : BOOLEAN, mailed : BOOLEAN]

SessionRows == [acct : AccountIds \cup {Nobody}, live : BOOLEAN]

CallKinds == LinkKinds \cup {"none", "plain", "staff"}

\* The field "of" is there for the components that are built on the accounts.
CallRows(O) ==
    [step : CallSteps, acct : AccountIds \cup {Nobody}, kind : CallKinds,
     seen : SUBSET (LinkIds \cup SessionIds), of : O]

\* Somebody activated the account, or it was created active: it is not deleted.
Lasting(a) == accounts[a].status \in {"active", "suspended"}

\* What can still be used names an account, a session or a request between
\* its check and its write one that lasts (CreateChallenge, CreateSession).
LinkHolds(l) ==
    links[l].state = "open" => links[l].acct \in AccountIds /\ links[l].kind \in LinkKinds

SessionHolds(s) ==
    sessions[s].live => sessions[s].acct \in AccountIds /\ Lasting(sessions[s].acct)

NamesAccount == {"link", "linking"}
NamesLasting == {"session", "change", "role", "admin", "moderator"}

CallHolds(c) ==
    /\ calls[c].step \in NamesAccount => calls[c].acct \in AccountIds /\ calls[c].kind \in LinkKinds
    /\ calls[c].step \in NamesLasting => calls[c].acct \in AccountIds /\ Lasting(calls[c].acct)

AccessInv(O) ==
    /\ accounts \in [AccountIds -> AccountRows]
    /\ links \in [LinkIds -> LinkRows]
    /\ sessions \in [SessionIds -> SessionRows]
    /\ calls \in [AuthCallers -> CallRows(O)]
    /\ purge \subseteq AccountIds
    /\ \A l \in LinkIds : LinkHolds(l)
    /\ \A s \in SessionIds : SessionHolds(s)
    /\ \A c \in AuthCallers : CallHolds(c)

-----------------------------------------------------------------------------
(* What a step does to each of the variables.                              *)

Grown ==
    /\ accounts' \in [AccountIds -> AccountRows]
    /\ \A a \in AccountIds : Lasting(a) => Lasting(a)'

LinksKept ==
    /\ links' \in [LinkIds -> LinkRows]
    /\ \A l \in LinkIds :
         links'[l].state = "open" =>
            \/ /\ links[l].state = "open"
               /\ links'[l].acct = links[l].acct /\ links'[l].kind = links[l].kind
            \/ links'[l].acct \in AccountIds /\ links'[l].kind \in LinkKinds

SessionsKept ==
    /\ sessions' \in [SessionIds -> SessionRows]
    /\ \A s \in SessionIds :
         sessions'[s].live =>
            \/ sessions[s].live /\ sessions'[s].acct = sessions[s].acct
            \/ SessionHolds(s)'

CallsKept(O) ==
    /\ calls' \in [AuthCallers -> CallRows(O)]
    /\ \A c \in AuthCallers : calls'[c] = calls[c] \/ CallHolds(c)'

\* SessionsEnd, ActivatedStay and PasswordsByOpenLinks, of one step.
EndsSessions ==
    \A a \in AccountIds :
         (\/ accounts'[a].pass # accounts[a].pass
          \/ accounts[a].status = "active" /\ accounts'[a].status = "suspended")
         => \A s \in SessionsOf(a) :
                sessions[s].live /\ sessions'[s].live
                => \E c \in AuthCallers : calls[c].step = "change" /\ s \in calls[c].seen

DeletesNone ==
    \A a \in AccountIds : accounts[a].status \in {"active", "suspended"}
                          => accounts'[a].status # "none"

SetsByLinks ==
    \A a \in AccountIds :
         accounts[a].status # "none" /\ accounts'[a].status # "none"
         /\ accounts'[a].pass # accounts[a].pass
         => \/ \E l \in OpenLinks(a, "set") : links'[l].state = "used"
            \/ \E c \in AuthCallers : calls[c].step = "change" /\ calls[c].acct = a

StepHolds == EndsSessions /\ DeletesNone /\ SetsByLinks

\* What still names an account afterwards did so before, or names it rightly
\* (the accounts and their links, sessions and requests together).
LEMMA AccessFrame ==
    ASSUME NEW O, AccessInv(O), Grown, LinksKept, SessionsKept, CallsKept(O),
           purge' \subseteq AccountIds
    PROVE  AccessInv(O)'
<1>1. \A l \in LinkIds : LinkHolds(l)'
  BY DEF AccessInv, LinksKept, LinkHolds
<1>2. \A s \in SessionIds : SessionHolds(s)'
  BY DEF AccessInv, Grown, SessionsKept, SessionHolds
<1>3. \A c \in AuthCallers : CallHolds(c)'
  BY DEF AccessInv, Grown, CallsKept, CallHolds
<1> QED  BY <1>1, <1>2, <1>3 DEF AccessInv, Grown, LinksKept, SessionsKept, CallsKept

\* A variable that no statement writes keeps what it says.
LEMMA AccessUnchanged ==
    ASSUME NEW O, AccessInv(O)
    PROVE  /\ accounts' = accounts => Grown
           /\ links' = links => LinksKept
           /\ sessions' = sessions => SessionsKept
           /\ calls' = calls => CallsKept(O)
BY DEF AccessInv, Grown, Lasting, LinksKept, SessionsKept, CallsKept

\* A step that sets no password and suspends nobody.
LEMMA QuietStep ==
    ASSUME \A a \in AccountIds :
              /\ accounts'[a].pass = accounts[a].pass
              /\ Lasting(a) => Lasting(a)'
              /\ accounts[a].status = "active" => accounts'[a].status = "active"
    PROVE  StepHolds
BY DEF StepHolds, EndsSessions, DeletesNone, SetsByLinks, Lasting

\* The record of a request between two of its steps (Service in auth).
LEMMA CallMade ==
    ASSUME NEW O, Nobody \in O, calls \in [AuthCallers -> CallRows(O)],
           NEW c \in AuthCallers, NEW step \in CallSteps, NEW a \in AccountIds \cup {Nobody},
           NEW kind \in CallKinds, NEW S \in SUBSET (LinkIds \cup SessionIds),
           Call(c, step, a, kind, S)
    PROVE  /\ calls' \in [AuthCallers -> CallRows(O)]
           /\ calls'[c].step = step /\ calls'[c].acct = a
           /\ calls'[c].kind = kind /\ calls'[c].seen = S
           /\ \A d \in AuthCallers \ {c} : calls'[d] = calls[d]
<1> DEFINE row == [Idle EXCEPT !.step = step, !.acct = a, !.kind = kind, !.seen = S]
<1>1. /\ row \in CallRows(O)
      /\ row.step = step /\ row.acct = a /\ row.kind = kind /\ row.seen = S
  BY DEF Idle, CallRows
<1>2. calls' = [calls EXCEPT ![c] = row]
  BY DEF Call
<1> HIDE DEF row
<1> QED  BY <1>1, <1>2

\* A request goes on to a step that names an account rightly.
LEMMA Calling ==
    ASSUME NEW O, Nobody \in O, AccessInv(O),
           NEW c \in AuthCallers, NEW step \in CallSteps, NEW a \in AccountIds \cup {Nobody},
           NEW kind \in CallKinds, NEW S \in SUBSET (LinkIds \cup SessionIds),
           Call(c, step, a, kind, S),
           step \in NamesAccount => a \in AccountIds /\ kind \in LinkKinds,
           step \in NamesLasting => a \in AccountIds /\ Lasting(a)'
    PROVE  CallsKept(O)
<1>1. calls \in [AuthCallers -> CallRows(O)]
  BY DEF AccessInv
<1>2. /\ calls' \in [AuthCallers -> CallRows(O)]
      /\ calls'[c].step = step /\ calls'[c].acct = a /\ calls'[c].kind = kind
      /\ \A d \in AuthCallers \ {c} : calls'[d] = calls[d]
  BY <1>1, CallMade
<1>3. CallHolds(c)'
  BY <1>2 DEF CallHolds, Lasting
<1> QED  BY <1>2, <1>3 DEF CallsKept

\* A request that ends names nothing.
LEMMA Returning ==
    ASSUME NEW O, Nobody \in O, AccessInv(O), NEW c \in AuthCallers, Return(c)
    PROVE  CallsKept(O)
<1>1. Idle \in CallRows(O) /\ Idle.step = "idle"
  BY DEF Idle, CallRows, CallSteps, CallKinds
<1>2. /\ calls' \in [AuthCallers -> CallRows(O)] /\ calls'[c] = Idle
      /\ \A d \in AuthCallers \ {c} : calls'[d] = calls[d]
  BY <1>1 DEF AccessInv, Return
<1>3. CallHolds(c)'
  BY <1>1, <1>2 DEF CallHolds, NamesAccount, NamesLasting
<1> QED  BY <1>2, <1>3 DEF CallsKept

-----------------------------------------------------------------------------
(* Requests for links, log-ins and changes of password: what they read is  *)
(* all they have done so far (Login, ChangePassword, ResetPassword).       *)

\* The account of a session that is live lasts (Authenticate).
LEMMA AuthenticatedLasts ==
    ASSUME NEW s \in SessionIds, NEW a, Authenticate(s, a)
    PROVE  sessions[s].live /\ sessions[s].acct = a /\ accounts[a].status = "active"
BY DEF Authenticate, FindActiveSession

\* The requests that begin, fail, or have read the links to close.
LEMMA BeginningKeeps ==
    ASSUME NEW O, Nobody \in O, AccessInv(O), NEW c \in AuthCallers,
           UNCHANGED <<accounts, links, sessions, purge>>, CallsKept(O)
    PROVE  AccessInv(O)' /\ StepHolds
<1>1. Grown /\ LinksKept /\ SessionsKept /\ purge' \subseteq AccountIds
  BY AccessUnchanged DEF AccessInv
<1>2. StepHolds
  BY QuietStep DEF Lasting
<1> QED  BY <1>1, <1>2, AccessFrame

\* CloseOpenLinks and the end of a request.
LEMMA LinkReadKeeps ==
    ASSUME NEW O, Nobody \in O, AccessInv(O), NEW c \in AuthCallers,
           CloseOpenLinks(c) \/ CallFails(c)
    PROVE  AccessInv(O)' /\ StepHolds
<1>1. CASE CloseOpenLinks(c)
  <2>1. /\ Call(c, "linking", calls[c].acct, calls[c].kind,
                OpenLinks(calls[c].acct, calls[c].kind))
        /\ calls[c].acct \in AccountIds /\ calls[c].kind \in LinkKinds
        /\ UNCHANGED <<accounts, links, sessions, purge>>
    BY <1>1 DEF CloseOpenLinks, AccessInv, CallHolds, NamesAccount
  <2>2. OpenLinks(calls[c].acct, calls[c].kind) \in SUBSET (LinkIds \cup SessionIds)
    BY DEF OpenLinks
  <2>3. CallsKept(O)
    BY <2>1, <2>2, Calling DEF CallSteps, CallKinds, NamesLasting
  <2> QED  BY <2>1, <2>3, BeginningKeeps
<1>2. CASE CallFails(c)
  BY <1>2, Returning, BeginningKeeps DEF CallFails
<1> QED  BY <1>1, <1>2

\* A mail for an account that exists or is named by an administrator.
LEMMA LinkAskedKeeps ==
    ASSUME NEW O, Nobody \in O, AccessInv(O), NEW c \in AuthCallers, NEW a \in AccountIds,
           NEW kind \in LinkKinds, Call(c, "link", a, kind, {}),
           UNCHANGED <<accounts, links, sessions, purge>>
    PROVE  AccessInv(O)' /\ StepHolds
<1>1. CallsKept(O)
  BY Calling DEF CallSteps, CallKinds, NamesLasting
<1> QED  BY <1>1, BeginningKeeps

\* RequestPasswordReset, ResetPassword, ResendActivation,
\* ResendEmailVerification, Login and changePassword.
LEMMA RequestsKeep ==
    ASSUME NEW O, Nobody \in O, AccessInv(O), NEW c \in AuthCallers, NEW a \in AccountIds,
           \/ \E m \in Addresses : RequestPasswordReset(c, m)
           \/ \E x \in AccountIds : ResetPassword(c, x, a) \/ ResendActivation(c, x, a)
           \/ ResendEmailVerification(c, a)
           \/ Login(c, a)
           \/ \E s \in SessionIds : changePassword(c, s)
    PROVE  AccessInv(O)' /\ StepHolds
<1>1. "set" \in LinkKinds /\ "activate" \in LinkKinds /\ "verify" \in LinkKinds
  BY DEF LinkKinds
<1>2. ASSUME NEW m \in Addresses, RequestPasswordReset(c, m) PROVE AccessInv(O)' /\ StepHolds
  <2>1. PICK b \in AccountIds : Call(c, "link", b, "set", {})
    BY <1>2 DEF RequestPasswordReset, LookupAccountIDByEmailHashes, sendPasswordResetEmail
  <2> QED  BY <1>1, <1>2, <2>1, LinkAskedKeeps DEF RequestPasswordReset
<1>3. ASSUME NEW x \in AccountIds, ResetPassword(c, x, a) \/ ResendActivation(c, x, a)
      PROVE  AccessInv(O)' /\ StepHolds
  <2>1. /\ Call(c, "link", a, "set", {}) \/ Call(c, "link", a, "activate", {})
        /\ UNCHANGED <<accounts, links, sessions, purge>>
    BY <1>3 DEF ResetPassword, ResendActivation, AdminResendActivation, sendPasswordResetEmail
  <2> QED  BY <1>1, <2>1, LinkAskedKeeps
<1>4. CASE ResendEmailVerification(c, a)
  BY <1>1, <1>4, LinkAskedKeeps DEF ResendEmailVerification
<1>5. CASE Login(c, a)
  <2>1. /\ Call(c, "session", a, "none", {}) /\ accounts[a].status = "active"
        /\ UNCHANGED <<accounts, links, sessions, purge>>
    BY <1>5 DEF Login
  <2>2. Lasting(a)'
    BY <2>1 DEF Lasting
  <2>3. CallsKept(O)
    <3>1. {} \in SUBSET (LinkIds \cup SessionIds) /\ "session" \in CallSteps /\ "none" \in CallKinds
      BY DEF CallSteps, CallKinds
    <3>2. "session" \notin NamesAccount
      BY DEF NamesAccount
    <3> QED  BY <2>1, <2>2, <3>1, <3>2, Calling
  <2> QED  BY <2>1, <2>3, BeginningKeeps
<1>6. ASSUME NEW s \in SessionIds, changePassword(c, s) PROVE AccessInv(O)' /\ StepHolds
  <2>1. PICK b \in AccountIds : Authenticate(s, b) /\ ChangePassword(c, s, b)
    BY <1>6 DEF changePassword
  <2>2. /\ Call(c, "change", b, "none", {s}) /\ accounts[b].status = "active"
        /\ UNCHANGED <<accounts, links, sessions, purge>>
    BY <1>6, <2>1, AuthenticatedLasts DEF changePassword, ChangePassword
  <2>3. Lasting(b)'
    BY <2>2 DEF Lasting
  <2>4. {s} \in SUBSET (LinkIds \cup SessionIds)
    OBVIOUS
  <2>5. CallsKept(O)
    BY <2>2, <2>3, <2>4, Calling DEF CallSteps, CallKinds, NamesAccount
  <2> QED  BY <2>2, <2>5, BeginningKeeps
<1> QED  BY <1>2, <1>3, <1>4, <1>5, <1>6

-----------------------------------------------------------------------------
(* Links.                                                                  *)

\* The rows of links that CreateChallenge, EnqueueLink and LinkExpires leave.
LEMMA LinksMailed ==
    ASSUME NEW O, Nobody \in O, AccessInv(O), NEW c \in AuthCallers,
           CreateChallenge(c) \/ EnqueueLink(c)
    PROVE  AccessInv(O)' /\ StepHolds
<1>1. links \in [LinkIds -> LinkRows]
  BY DEF AccessInv
<1>2. CASE CreateChallenge(c)
  <2>1. calls[c].acct \in AccountIds /\ calls[c].kind \in LinkKinds
    BY <1>2 DEF CreateChallenge, AccessInv, CallHolds, NamesAccount
  <2> DEFINE new == [NoLink EXCEPT !.acct = calls[c].acct, !.kind = calls[c].kind,
                                   !.state = "open", !.fresh = TRUE]
  <2>2. PICK l \in FreeLinks : /\ links' = Replaced(calls[c].seen, l, new)
                               /\ Call(c, "mail", calls[c].acct, calls[c].kind, {l})
    BY <1>2 DEF CreateChallenge
  <2>3. new \in LinkRows /\ new.acct = calls[c].acct /\ new.kind = calls[c].kind
    BY <2>1 DEF NoLink, LinkRows
  <2> HIDE DEF new
  <2>4. \A k \in LinkIds :
          /\ links'[k] = IF k = l THEN new
                         ELSE IF k \in calls[c].seen /\ links[k].state = "open"
                              THEN [links[k] EXCEPT !.state = "closed"]
                         ELSE links[k]
          /\ [links[k] EXCEPT !.state = "closed"] \in LinkRows
          /\ [links[k] EXCEPT !.state = "closed"].state = "closed"
    BY <1>1, <2>2 DEF Replaced, LinkRows
  <2>5. links' \in [LinkIds -> LinkRows]
    <3>1. links' = [k \in LinkIds |-> links'[k]]
      BY <2>2 DEF Replaced
    <3> QED  BY <1>1, <2>3, <2>4, <3>1
  <2>6. LinksKept
    BY <2>1, <2>3, <2>4, <2>5 DEF LinksKept
  <2>7. {l} \in SUBSET (LinkIds \cup SessionIds)
    BY DEF FreeLinks
  <2>8. CallsKept(O)
    BY <2>1, <2>2, <2>7, Calling DEF CallSteps, CallKinds, NamesAccount, NamesLasting
  <2>9. UNCHANGED <<accounts, sessions, purge>>
    BY <1>2 DEF CreateChallenge
  <2>10. Grown /\ SessionsKept /\ purge' \subseteq AccountIds
    BY <2>9, AccessUnchanged DEF AccessInv
  <2> QED  BY <2>6, <2>8, <2>9, <2>10, AccessFrame, QuietStep DEF Lasting
<1>3. CASE EnqueueLink(c)
  <2>1. \A k \in LinkIds :
          /\ links'[k] \in LinkRows /\ links'[k].state = links[k].state
          /\ links'[k].acct = links[k].acct /\ links'[k].kind = links[k].kind
    BY <1>1, <1>3 DEF EnqueueLink, LinkRows
  <2>2. links' \in [LinkIds -> LinkRows]
    <3>1. links' = [k \in LinkIds |-> links'[k]]
      BY <1>3 DEF EnqueueLink
    <3> QED  BY <2>1, <3>1
  <2>3. LinksKept
    BY <2>1, <2>2 DEF LinksKept
  <2>4. UNCHANGED <<accounts, sessions, purge>> /\ Return(c)
    BY <1>3 DEF EnqueueLink
  <2>5. Grown /\ SessionsKept /\ CallsKept(O) /\ purge' \subseteq AccountIds
    BY <2>4, AccessUnchanged, Returning DEF AccessInv
  <2> QED  BY <2>3, <2>4, <2>5, AccessFrame, QuietStep DEF Lasting
<1> QED  BY <1>2, <1>3

\* Sessions that are ended stay the account's (RevokeAccountSession).
LEMMA EndingKeeps ==
    ASSUME NEW O, AccessInv(O), NEW S \in SUBSET SessionIds, sessions' = Ended(S)
    PROVE  /\ SessionsKept
           /\ \A s \in S : ~sessions'[s].live
<1>1. sessions \in [SessionIds -> SessionRows]
  BY DEF AccessInv
<1>2. \A s \in SessionIds :
        /\ sessions'[s] = IF s \in S THEN [sessions[s] EXCEPT !.live = FALSE] ELSE sessions[s]
        /\ [sessions[s] EXCEPT !.live = FALSE] \in SessionRows
        /\ [sessions[s] EXCEPT !.live = FALSE].live = FALSE
  BY <1>1 DEF Ended, SessionRows
<1>3. sessions' = [s \in SessionIds |-> sessions'[s]]
  BY DEF Ended
<1> QED  BY <1>1, <1>2, <1>3 DEF SessionsKept

\* A link is used, or its time is over (ConsumePasswordResetChallenge,
\* ConsumeEmailVerificationToken): it sets the password of its own account,
\* ends that account's sessions, and is used from then on.
LEMMA FollowingKeeps ==
    ASSUME NEW O, Nobody \in O, AccessInv(O), NEW l \in LinkIds, FollowLink(l)
    PROVE  AccessInv(O)' /\ StepHolds
<1>1. links \in [LinkIds -> LinkRows] /\ accounts \in [AccountIds -> AccountRows]
  BY DEF AccessInv
<1>2. CASE LinkExpires(l)
  <2>1. /\ links' = [links EXCEPT ![l].fresh = FALSE]
        /\ UNCHANGED <<accounts, sessions, calls, purge>>
    BY <1>2 DEF LinkExpires
  <2>2. /\ links' \in [LinkIds -> LinkRows]
        /\ \A k \in LinkIds : /\ links'[k].state = links[k].state
                              /\ links'[k].acct = links[k].acct /\ links'[k].kind = links[k].kind
    BY <1>1, <2>1 DEF LinkRows
  <2>3. LinksKept
    BY <2>2 DEF LinksKept
  <2>4. Grown /\ SessionsKept /\ CallsKept(O) /\ purge' \subseteq AccountIds
    BY <2>1, AccessUnchanged DEF AccessInv
  <2> QED  BY <2>1, <2>3, <2>4, AccessFrame, QuietStep DEF Lasting
<1>3. CASE ConfirmPasswordReset(l) \/ ConfirmEmailVerification(l)
  <2> DEFINE a == links[l].acct
  <2>1. /\ links[l].state = "open" /\ links' = Used(l) /\ UNCHANGED <<calls, purge>>
        /\ a \in AccountIds
    BY <1>3 DEF ConfirmPasswordReset, ConfirmEmailVerification, ConsumePasswordResetChallenge,
                ConsumeEmailVerificationToken, Usable, AccessInv, LinkHolds
  <2>2. /\ links' \in [LinkIds -> LinkRows] /\ links'[l].state = "used"
        /\ \A k \in LinkIds \ {l} : links'[k] = links[k]
    BY <1>1, <2>1 DEF Used, LinkRows
  <2>3. LinksKept
    BY <2>2 DEF LinksKept
  <2>4. CallsKept(O) /\ purge' \subseteq AccountIds
    BY <2>1, AccessUnchanged DEF AccessInv
  <2>5. CASE ConfirmEmailVerification(l)
    <3>1. /\ sessions' = sessions
          /\ accounts' = accounts \/ accounts' = [accounts EXCEPT ![a].verified = TRUE]
      BY <2>5 DEF ConfirmEmailVerification, ConsumeEmailVerificationToken
    <3>2. /\ accounts' \in [AccountIds -> AccountRows]
          /\ \A b \in AccountIds : /\ accounts'[b].pass = accounts[b].pass
                                   /\ accounts'[b].status = accounts[b].status
      <4>1. CASE accounts' = accounts  BY <1>1, <4>1
      <4>2. CASE accounts' = [accounts EXCEPT ![a].verified = TRUE]
        <5>1. accounts[a] \in AccountRows
          BY <1>1, <2>1
        <5> HIDE DEF a
        <5>2. /\ [accounts[a] EXCEPT !.verified = TRUE] \in AccountRows
              /\ [accounts[a] EXCEPT !.verified = TRUE].pass = accounts[a].pass
              /\ [accounts[a] EXCEPT !.verified = TRUE].status = accounts[a].status
          BY <5>1 DEF AccountRows
        <5> QED  BY <1>1, <2>1, <4>2, <5>2
      <4> QED  BY <3>1, <4>1, <4>2
    <3>3. Grown /\ SessionsKept
      BY <3>1, <3>2, AccessUnchanged DEF Grown, Lasting
    <3>4. StepHolds
      BY <3>2, QuietStep DEF Lasting
    <3> QED  BY <2>3, <2>4, <3>3, <3>4, AccessFrame
  <2>6. CASE ConfirmPasswordReset(l)
    <3>1. /\ links[l].kind # "verify" /\ links[l].kind \in LinkKinds
          /\ accounts[a].status = SetsPasswordOf(links[l].kind) /\ accounts[a].pass < MaxPass
          /\ accounts' = [accounts EXCEPT
                 ![a].pass = @ + 1,
                 ![a].status = "active",
                 ![a].identity = IF links[l].kind = "activate" THEN "student" ELSE @]
          /\ sessions' = Ended(SessionsOf(a))
      BY <2>1, <2>6 DEF ConfirmPasswordReset, ConsumePasswordResetChallenge, EndedByReset,
                        AccessInv, LinkHolds
    <3>2. /\ accounts[a].pass + 1 \in 0..MaxPass
          /\ accounts[a] \in AccountRows
      BY <1>1, <2>1, <3>1, AccountsAssumption DEF AccountRows
    <3> HIDE DEF a
    <3>3. /\ accounts' \in [AccountIds -> AccountRows]
          /\ accounts'[a].status = "active"
          /\ \A b \in AccountIds \ {a} : accounts'[b] = accounts[b]
      BY <1>1, <2>1, <3>1, <3>2 DEF AccountRows
    <3>4. Grown
      BY <3>3 DEF Grown, Lasting
    <3>5. /\ SessionsKept
          /\ \A s \in SessionsOf(a) : ~sessions'[s].live
      BY <3>1, EndingKeeps DEF SessionsOf
    <3>6. EndsSessions
      BY <3>3, <3>5 DEF EndsSessions
    <3>7. DeletesNone
      BY <3>3 DEF DeletesNone
    <3>8. l \in OpenLinks(a, "set")
      BY <2>1, <3>1 DEF OpenLinks, SameTable, a
    <3>9. SetsByLinks
      BY <2>2, <3>3, <3>8 DEF SetsByLinks
    <3> QED  BY <2>3, <2>4, <3>4, <3>5, <3>6, <3>7, <3>9, AccessFrame DEF StepHolds
  <2> QED  BY <1>3, <2>5, <2>6
<1> QED  BY <1>2, <1>3 DEF FollowLink

-----------------------------------------------------------------------------
(* Sessions.                                                               *)

\* A session is opened for an account that lasts, and ended for good
\* (CreateSession, RevokeSession, logout, forceLogoutAccount).
LEMMA SessionStepsKeep ==
    ASSUME NEW O, Nobody \in O, AccessInv(O),
           \/ \E c \in AuthCallers : CreateSession(c)
           \/ \E s, t \in SessionIds : revokeSession(s, t)
           \/ \E s \in SessionIds : revokeOtherSessions(s) \/ logout(s)
           \/ \E x, a \in AccountIds : ForceLogoutUser(x, a)
    PROVE  AccessInv(O)' /\ StepHolds
<1>1. sessions \in [SessionIds -> SessionRows]
  BY DEF AccessInv
<1>2. ASSUME NEW c \in AuthCallers, CreateSession(c) PROVE AccessInv(O)' /\ StepHolds
  <2> DEFINE row == [acct |-> calls[c].acct, live |-> TRUE]
  <2>1. /\ calls[c].acct \in AccountIds /\ Lasting(calls[c].acct)
        /\ UNCHANGED <<accounts, links, purge>> /\ Return(c)
    BY <1>2 DEF CreateSession, AccessInv, CallHolds, NamesLasting
  <2>2. PICK s \in FreeSessions : sessions' = [sessions EXCEPT ![s] = row]
    BY <1>2 DEF CreateSession
  <2>3. row \in SessionRows /\ row.acct = calls[c].acct
    BY <2>1 DEF SessionRows
  <2> HIDE DEF row
  <2>4. /\ sessions' \in [SessionIds -> SessionRows] /\ sessions'[s] = row
        /\ \A r \in SessionIds \ {s} : sessions'[r] = sessions[r]
    BY <1>1, <2>2, <2>3 DEF FreeSessions
  <2>5. SessionHolds(s)'
    BY <2>1, <2>3, <2>4 DEF SessionHolds, Lasting
  <2>6. SessionsKept
    BY <2>4, <2>5 DEF SessionsKept
  <2>7. Grown /\ LinksKept /\ CallsKept(O) /\ purge' \subseteq AccountIds
    BY <2>1, AccessUnchanged, Returning DEF AccessInv
  <2> QED  BY <2>1, <2>6, <2>7, AccessFrame, QuietStep DEF Lasting
<1>3. ASSUME NEW S \in SUBSET SessionIds, sessions' = Ended(S),
             UNCHANGED <<accounts, links, calls, purge>>
      PROVE  AccessInv(O)' /\ StepHolds
  <2>1. Grown /\ LinksKept /\ SessionsKept /\ CallsKept(O) /\ purge' \subseteq AccountIds
    BY <1>3, AccessUnchanged, EndingKeeps DEF AccessInv
  <2> QED  BY <1>3, <2>1, AccessFrame, QuietStep DEF Lasting
<1>4. ASSUME NEW s \in SessionIds, NEW t \in SessionIds, revokeSession(s, t)
      PROVE  AccessInv(O)' /\ StepHolds
  <2>1. sessions' = Ended({t}) /\ UNCHANGED <<accounts, links, calls, purge>>
    BY <1>4 DEF revokeSession, RevokeSession, RevokeAccountSession
  <2> QED  BY <1>3, <2>1
<1>5. ASSUME NEW s \in SessionIds, revokeOtherSessions(s) \/ logout(s)
      PROVE  AccessInv(O)' /\ StepHolds
  <2>1. /\ \E S \in SUBSET SessionIds : sessions' = Ended(S)
        /\ UNCHANGED <<accounts, links, calls, purge>>
    BY <1>5 DEF revokeOtherSessions, logout, RevokeOtherAccountSessions, SessionsOf
  <2> QED  BY <1>3, <2>1
<1>6. ASSUME NEW x \in AccountIds, NEW a \in AccountIds, ForceLogoutUser(x, a)
      PROVE  AccessInv(O)' /\ StepHolds
  <2>1. /\ \E S \in SUBSET SessionIds : sessions' = Ended(S)
        /\ UNCHANGED <<accounts, links, calls, purge>>
    BY <1>6 DEF ForceLogoutUser, forceLogoutAccount, SessionsOf
  <2> QED  BY <1>3, <2>1
<1> QED  BY <1>2, <1>4, <1>5, <1>6

\* A change of password sets it for the account whose password was checked,
\* and spares the session that asked (UpdatePasswordForAccount).
LEMMA UpdatePasswordKeeps ==
    ASSUME NEW O, Nobody \in O, AccessInv(O), NEW c \in AuthCallers, UpdatePassword(c)
    PROVE  AccessInv(O)' /\ StepHolds
<1> DEFINE a == calls[c].acct
<1>1. /\ calls[c].step = "change" /\ a \in AccountIds
      /\ accounts[a].status = "active" /\ accounts[a].pass < MaxPass
      /\ accounts' = [accounts EXCEPT ![a].pass = @ + 1]
      /\ sessions' = Ended(SessionsOf(a) \ calls[c].seen)
      /\ UNCHANGED <<links, purge>> /\ Return(c)
  BY DEF UpdatePassword, UpdatePasswordForAccount, AccessInv, CallHolds, NamesLasting
<1>2. accounts \in [AccountIds -> AccountRows]
  BY DEF AccessInv
<1>3. accounts[a].pass + 1 \in 0..MaxPass
  BY <1>1, <1>2, AccountsAssumption DEF AccountRows
<1> HIDE DEF a
<1>4. /\ accounts' \in [AccountIds -> AccountRows]
      /\ accounts'[a].status = "active"
      /\ \A b \in AccountIds \ {a} : accounts'[b] = accounts[b]
  BY <1>1, <1>2, <1>3 DEF AccountRows
<1>5. Grown
  BY <1>4 DEF Grown, Lasting
<1>6. /\ SessionsKept
      /\ \A s \in SessionsOf(a) \ calls[c].seen : ~sessions'[s].live
  BY <1>1, EndingKeeps DEF SessionsOf
<1>7. LinksKept /\ CallsKept(O) /\ purge' \subseteq AccountIds
  BY <1>1, AccessUnchanged, Returning DEF AccessInv
<1>8. StepHolds
  <2>1. EndsSessions
    BY <1>1, <1>4, <1>6 DEF EndsSessions
  <2>2. DeletesNone
    BY <1>4 DEF DeletesNone
  <2>3. SetsByLinks
    BY <1>1, <1>4 DEF SetsByLinks, a
  <2> QED  BY <2>1, <2>2, <2>3 DEF StepHolds
<1> QED  BY <1>5, <1>6, <1>7, <1>8, AccessFrame

-----------------------------------------------------------------------------
(* Administration.                                                         *)

\* An account that is created had nothing before (CreateAccount,
\* CreatePendingAccount).
LEMMA CreatingGrows ==
    ASSUME NEW O, AccessInv(O), NEW a \in AccountIds, accounts[a].status = "none",
           NEW status \in {"pending", "active"}, NEW m \in Addresses \cup {Nobody},
           NEW p \in 0..MaxPass, accounts' = Created(a, status, m, p)
    PROVE  /\ Grown /\ StepHolds
           /\ accounts'[a].status = status
           /\ \A b \in AccountIds \ {a} : accounts'[b] = accounts[b]
<1> DEFINE row == [NoAccount EXCEPT !.status = status, !.mail = m, !.pass = p]
<1>1. row \in AccountRows /\ row.status = status
  BY DEF NoAccount, AccountRows
<1>2. accounts' = [accounts EXCEPT ![a] = row]
  BY DEF Created
<1> HIDE DEF row
<1>3. accounts \in [AccountIds -> AccountRows]
  BY DEF AccessInv
<1>4. /\ accounts' \in [AccountIds -> AccountRows] /\ accounts'[a] = row
      /\ \A b \in AccountIds \ {a} : accounts'[b] = accounts[b]
  BY <1>1, <1>2, <1>3
<1>5. Grown
  BY <1>4 DEF Grown, Lasting
<1>6. \A s \in SessionsOf(a) : ~sessions[s].live
  BY DEF AccessInv, SessionHolds, SessionsOf, Lasting
<1>7. StepHolds
  BY <1>4, <1>6 DEF StepHolds, EndsSessions, DeletesNone, SetsByLinks
<1> QED  BY <1>1, <1>4, <1>5, <1>7

\* Register, and the three ways in which administrators create accounts.
LEMMA CreationsKeep ==
    ASSUME NEW O, Nobody \in O, AccessInv(O), NEW c \in AuthCallers, NEW a \in AccountIds,
           \/ \E m \in Addresses : Register(c, a, m)
           \/ \E x \in AccountIds, m \in Addresses : CreateInvitedUser(c, x, a, m)
           \/ \E x \in AccountIds, kind \in {"plain", "staff"} :
                 CreateServiceUser(c, x, a, kind) \/ CreatePasswordUser(c, x, a, kind)
    PROVE  AccessInv(O)' /\ StepHolds
<1>1. /\ 0 \in 0..MaxPass /\ 1 \in 0..MaxPass
      /\ {} \in SUBSET (LinkIds \cup SessionIds)
      /\ {"link", "role", "moderator"} \subseteq CallSteps
      /\ {"activate", "set", "plain", "staff"} \subseteq CallKinds
  BY AccountsAssumption DEF CallSteps, CallKinds, LinkKinds
<1>2. PICK status \in {"pending", "active"}, m \in Addresses \cup {Nobody}, p \in 0..MaxPass :
        accounts' = Created(a, status, m, p)
  BY <1>1 DEF Register, CreateInvitedUser, CreateServiceUser, CreatePasswordUser
<1>3. accounts[a].status = "none" /\ UNCHANGED <<links, sessions, purge>>
  BY DEF Register, CreateInvitedUser, CreateServiceUser, CreatePasswordUser, Free
<1>4. /\ Grown /\ StepHolds /\ accounts'[a].status = status
  BY <1>2, <1>3, CreatingGrows
<1>5. CallsKept(O)
  <2>1. ASSUME NEW n \in Addresses, Register(c, a, n) PROVE CallsKept(O)
    <3>1. Call(c, "link", a, "activate", {})
      BY <2>1 DEF Register
    <3> QED  BY <1>1, <3>1, Calling DEF NamesLasting, LinkKinds
  <2>2. ASSUME NEW x \in AccountIds, NEW n \in Addresses, CreateInvitedUser(c, x, a, n)
        PROVE  CallsKept(O)
    <3>1. Call(c, "link", a, "set", {})
      BY <2>2 DEF CreateInvitedUser, sendPasswordResetEmail
    <3> QED  BY <1>1, <3>1, Calling DEF NamesLasting, LinkKinds
  <2>3. ASSUME NEW x \in AccountIds, NEW kind \in {"plain", "staff"},
               CreateServiceUser(c, x, a, kind)
        PROVE  CallsKept(O)
    <3>1. Call(c, "role", a, kind, {}) /\ accounts' = Created(a, "active", Nobody, 0)
      BY <2>3 DEF CreateServiceUser
    <3>2. Lasting(a)'
      BY <1>1, <1>3, <3>1, CreatingGrows DEF Lasting
    <3> QED  BY <1>1, <3>1, <3>2, Calling DEF NamesAccount
  <2>4. ASSUME NEW x \in AccountIds, NEW kind \in {"plain", "staff"},
               CreatePasswordUser(c, x, a, kind)
        PROVE  CallsKept(O)
    <3>1. /\ Call(c, "moderator", a, kind, {}) \/ calls' = calls
          /\ accounts' = Created(a, "active", Nobody, 1)
      BY <2>4 DEF CreatePasswordUser
    <3>2. Lasting(a)'
      BY <1>1, <1>3, <3>1, CreatingGrows DEF Lasting
    <3>3. CASE calls' = calls  BY <3>3, AccessUnchanged
    <3>4. CASE Call(c, "moderator", a, kind, {})
      BY <1>1, <3>2, <3>4, Calling DEF NamesAccount
    <3> QED  BY <3>1, <3>3, <3>4
  <2> QED  BY <2>1, <2>2, <2>3, <2>4
<1>6. LinksKept /\ SessionsKept /\ purge' \subseteq AccountIds
  BY <1>3, AccessUnchanged DEF AccessInv
<1> QED  BY <1>4, <1>5, <1>6, AccessFrame

\* An account that stays what it was, but for its address, identity and roles.
LEMMA EditKeeps ==
    ASSUME NEW O, AccessInv(O), NEW a \in AccountIds, NEW row \in AccountRows,
           accounts' = [accounts EXCEPT ![a] = row],
           row.pass = accounts[a].pass, row.status = accounts[a].status
    PROVE  Grown /\ StepHolds
<1>1. /\ accounts' \in [AccountIds -> AccountRows]
      /\ \A b \in AccountIds : /\ accounts'[b].pass = accounts[b].pass
                               /\ accounts'[b].status = accounts[b].status
  BY DEF AccessInv
<1> QED  BY <1>1, QuietStep DEF Grown, Lasting

\* UpdateUser, setAdmissionsModeratorRole and the roles of a bot or of staff.
LEMMA EditsKeep ==
    ASSUME NEW O, Nobody \in O, AccessInv(O),
           \/ \E x, a \in AccountIds, grant \in BOOLEAN : SetAdmissionsModerator(x, a, grant)
           \/ \E x, a \in AccountIds, identity \in {"temporary", "student", "senior"},
                 m \in Addresses : UpdateUser(x, a, identity, m)
           \/ \E c \in AuthCallers : GrantCalls(c)
    PROVE  AccessInv(O)' /\ StepHolds
<1>1. accounts \in [AccountIds -> AccountRows]
  BY DEF AccessInv
<1>2. ASSUME NEW a \in AccountIds, NEW R \in SUBSET {"admin", "service", "admissions_moderator"},
             accounts' = [accounts EXCEPT ![a].roles = R],
             UNCHANGED <<links, sessions, purge>>, CallsKept(O)
      PROVE  AccessInv(O)' /\ StepHolds
  <2> DEFINE row == [accounts[a] EXCEPT !.roles = R]
  <2>1. accounts[a] \in AccountRows
    BY <1>1
  <2>2. row \in AccountRows /\ row.pass = accounts[a].pass /\ row.status = accounts[a].status
    BY <2>1 DEF AccountRows
  <2>3. accounts' = [accounts EXCEPT ![a] = row]
    BY <1>2
  <2> HIDE DEF row
  <2>4. Grown /\ StepHolds
    BY <2>2, <2>3, EditKeeps
  <2>5. LinksKept /\ SessionsKept /\ purge' \subseteq AccountIds
    BY <1>2, AccessUnchanged DEF AccessInv
  <2> QED  BY <1>2, <2>4, <2>5, AccessFrame
<1>3. \A a \in AccountIds : accounts[a].roles \subseteq {"admin", "service", "admissions_moderator"}
  BY <1>1 DEF AccountRows
<1>4. ASSUME NEW x \in AccountIds, NEW a \in AccountIds, NEW grant \in BOOLEAN,
             SetAdmissionsModerator(x, a, grant)
      PROVE  AccessInv(O)' /\ StepHolds
  <2> DEFINE R == IF grant THEN accounts[a].roles \cup {"admissions_moderator"}
                           ELSE accounts[a].roles \ {"admissions_moderator"}
  <2>1. /\ accounts' = [accounts EXCEPT ![a].roles = R]
        /\ UNCHANGED <<links, sessions, calls, purge>>
    BY <1>4 DEF SetAdmissionsModerator, setAdmissionsModeratorRole
  <2>2. R \in SUBSET {"admin", "service", "admissions_moderator"}
    BY <1>3
  <2> HIDE DEF R
  <2> QED  BY <1>2, <2>1, <2>2, AccessUnchanged
<1>5. ASSUME NEW x \in AccountIds, NEW a \in AccountIds,
             NEW identity \in {"temporary", "student", "senior"}, NEW m \in Addresses,
             UpdateUser(x, a, identity, m)
      PROVE  AccessInv(O)' /\ StepHolds
  <2> DEFINE row == [accounts[a] EXCEPT !.identity = identity, !.mail = m]
  <2>1. /\ accounts' = [accounts EXCEPT ![a] = row]
        /\ UNCHANGED <<links, sessions, calls, purge>>
    BY <1>1, <1>5 DEF UpdateUser, AccountRows
  <2>2. accounts[a] \in AccountRows
    BY <1>1
  <2>3. row \in AccountRows /\ row.pass = accounts[a].pass /\ row.status = accounts[a].status
    BY <2>2 DEF AccountRows
  <2> HIDE DEF row
  <2>4. Grown /\ StepHolds
    BY <2>1, <2>3, EditKeeps
  <2>5. LinksKept /\ SessionsKept /\ CallsKept(O) /\ purge' \subseteq AccountIds
    BY <2>1, AccessUnchanged DEF AccessInv
  <2> QED  BY <2>4, <2>5, AccessFrame
<1>6. ASSUME NEW c \in AuthCallers, GrantCalls(c) PROVE AccessInv(O)' /\ StepHolds
  <2>0. calls[c].acct \in AccountIds /\ Lasting(calls[c].acct)
    BY <1>6 DEF GrantCalls, GrantServiceRole, GrantAdmin, GrantModerator, NamesLasting,
                AccessInv, CallHolds
  <2> PICK a \in AccountIds : a = calls[c].acct
    BY <2>0
  <2>1. /\ Lasting(a)
        /\ UNCHANGED <<links, sessions, purge>>
        /\ Return(c) \/ Call(c, "admin", a, "none", {})
    BY <1>6, <2>0 DEF GrantCalls, GrantServiceRole, GrantAdmin, GrantModerator
  <2>2. PICK r \in {"service", "admin", "admissions_moderator"} :
          accounts' = [accounts EXCEPT ![a].roles = @ \cup {r}]
    BY <1>6 DEF GrantCalls, GrantServiceRole, GrantAdmin, GrantModerator, GrantRole
  <2> DEFINE R == accounts[a].roles \cup {r}
  <2>3. /\ accounts' = [accounts EXCEPT ![a].roles = R]
        /\ R \in SUBSET {"admin", "service", "admissions_moderator"}
    BY <1>3, <2>1, <2>2
  <2> HIDE DEF R
  <2>4. accounts[a] \in AccountRows
    BY <1>1
  <2>5. Lasting(a)'
    <3>1. [accounts[a] EXCEPT !.roles = R].status = accounts[a].status
      BY <2>4 DEF AccountRows
    <3>2. accounts'[a] = [accounts[a] EXCEPT !.roles = R]
      BY <1>1, <2>3
    <3> QED  BY <2>1, <3>1, <3>2 DEF Lasting
  <2>6. CASE Return(c)
    BY <1>2, <2>1, <2>3, <2>6, Returning
  <2>7. CASE Call(c, "admin", a, "none", {})
    <3>1. /\ {} \in SUBSET (LinkIds \cup SessionIds) /\ "admin" \in CallSteps
          /\ "none" \in CallKinds /\ "admin" \notin NamesAccount
      BY DEF CallSteps, CallKinds, NamesAccount
    <3>2. CallsKept(O)
      BY <2>1, <2>5, <2>7, <3>1, Calling
    <3> QED  BY <1>2, <2>1, <2>3, <3>2
  <2> QED  BY <2>1, <2>6, <2>7
<1> QED  BY <1>4, <1>5, <1>6

\* A suspension ends the sessions of the account (suspendAccount,
\* reinstateAccount).
LEMMA SuspensionsKeep ==
    ASSUME NEW O, AccessInv(O), NEW x \in AccountIds, NEW a \in AccountIds,
           SuspendUser(x, a) \/ ReinstateUser(x, a)
    PROVE  AccessInv(O)' /\ StepHolds
<1>1. accounts \in [AccountIds -> AccountRows]
  BY DEF AccessInv
<1>2. PICK status \in {"active", "suspended"} :
        accounts' = [accounts EXCEPT ![a].status = status]
  BY DEF SuspendUser, suspendAccount, ReinstateUser, reinstateAccount
<1>3. /\ accounts' \in [AccountIds -> AccountRows]
      /\ accounts'[a].status = status /\ accounts'[a].pass = accounts[a].pass
      /\ \A b \in AccountIds \ {a} : accounts'[b] = accounts[b]
  <2>1. accounts[a] \in AccountRows
    BY <1>1
  <2>2. /\ [accounts[a] EXCEPT !.status = status] \in AccountRows
        /\ [accounts[a] EXCEPT !.status = status].pass = accounts[a].pass
        /\ [accounts[a] EXCEPT !.status = status].status = status
    BY <2>1 DEF AccountRows
  <2> QED  BY <1>1, <1>2, <2>2
<1>4. Grown
  BY <1>3 DEF Grown, Lasting
<1>5. UNCHANGED <<links, calls, purge>>
  BY DEF SuspendUser, ReinstateUser
<1>6. LinksKept /\ CallsKept(O) /\ purge' \subseteq AccountIds
  BY <1>5, AccessUnchanged DEF AccessInv
<1>7. CASE SuspendUser(x, a)
  <2>1. sessions' = Ended(SessionsOf(a))
    BY <1>7 DEF SuspendUser, suspendAccount, EndedBySuspension
  <2>2. SessionsKept /\ \A s \in SessionsOf(a) : ~sessions'[s].live
    BY <2>1, EndingKeeps DEF SessionsOf
  <2>3. StepHolds
    BY <1>3, <2>2 DEF StepHolds, EndsSessions, DeletesNone, SetsByLinks
  <2> QED  BY <1>4, <1>6, <2>2, <2>3, AccessFrame
<1>8. CASE ReinstateUser(x, a)
  <2>1. accounts[a].status = "suspended" /\ sessions' = sessions
    BY <1>8 DEF ReinstateUser, reinstateAccount
  <2>2. SessionsKept /\ StepHolds
    BY <1>3, <2>1, AccessUnchanged DEF StepHolds, EndsSessions, DeletesNone, SetsByLinks
  <2> QED  BY <1>4, <1>6, <2>2, AccessFrame
<1> QED  BY <1>7, <1>8

-----------------------------------------------------------------------------
(* The purge, and everything together.                                     *)

\* The row of an account that is not there.
LEMMA EmptyAccount == NoAccount \in AccountRows /\ NoAccount.status = "none"
<1>1. 0 \in 0..MaxPass
  BY AccountsAssumption
<1> QED  BY <1>1 DEF NoAccount, AccountRows

\* Only accounts that still wait are deleted (PurgeExpiredPendingAccounts).
LEMMA PurgesKeep ==
    ASSUME NEW O, AccessInv(O), PurgeSteps
    PROVE  AccessInv(O)' /\ StepHolds
<1>1. CASE PurgeSelects \/ PurgeFails
  <2>1. UNCHANGED <<accounts, links, sessions, calls>> /\ purge' \subseteq AccountIds
    BY <1>1 DEF PurgeSelects, PurgeFails
  <2>2. Grown /\ LinksKept /\ SessionsKept /\ CallsKept(O)
    BY <2>1, AccessUnchanged
  <2> QED  BY <2>1, <2>2, AccessFrame, QuietStep DEF Lasting
<1>2. CASE PurgeDeletes
  <2>1. /\ accounts \in [AccountIds -> AccountRows] /\ links \in [LinkIds -> LinkRows]
        /\ NoAccount \in AccountRows /\ NoAccount.status = "none"
        /\ [NoLink EXCEPT !.state = "closed"] \in LinkRows
        /\ [NoLink EXCEPT !.state = "closed"].state = "closed"
    <3>1. accounts \in [AccountIds -> AccountRows] /\ links \in [LinkIds -> LinkRows]
      BY DEF AccessInv
    <3>2. [NoLink EXCEPT !.state = "closed"] \in LinkRows
      BY DEF NoLink, LinkRows
    <3>3. [NoLink EXCEPT !.state = "closed"].state = "closed"
      BY DEF NoLink
    <3> QED  BY <3>1, <3>2, <3>3, EmptyAccount
  <2>2. /\ accounts' = [a \in AccountIds |->
                            IF a \in Deletable THEN NoAccount ELSE accounts[a]]
        /\ links' = [l \in LinkIds |->
                         IF links[l].acct \in purge /\ links[l].kind # "verify"
                         THEN [NoLink EXCEPT !.state = "closed"] ELSE links[l]]
        /\ purge' = {} /\ UNCHANGED <<sessions, calls>>
    BY <1>2 DEF PurgeDeletes
  <2>3. \A a \in AccountIds :
          /\ accounts'[a] = IF a \in Deletable THEN NoAccount ELSE accounts[a]
          /\ a \in Deletable => accounts[a].status = "pending"
    BY <2>2 DEF Deletable
  <2>4. accounts' \in [AccountIds -> AccountRows]
    BY <2>1, <2>2
  <2>5. Grown
    BY <2>3, <2>4 DEF Grown, Lasting
  <2>6. LinksKept
    BY <2>1, <2>2 DEF LinksKept
  <2>7. SessionsKept /\ CallsKept(O)
    BY <2>2, AccessUnchanged
  <2>8. \A a \in Deletable : \A s \in SessionsOf(a) : ~sessions[s].live
    BY DEF AccessInv, SessionHolds, SessionsOf, Lasting, Deletable
  <2>9. StepHolds
    BY <2>1, <2>3, <2>8 DEF StepHolds, EndsSessions, DeletesNone, SetsByLinks
  <2> QED  BY <2>2, <2>5, <2>6, <2>7, <2>9, AccessFrame
<1> QED  BY <1>1, <1>2 DEF PurgeSteps

\* What requests, links, sessions, administrators and the purge do, in any
\* order (cmd/api, cmd/notification-worker).
LEMMA AccountsStep ==
    ASSUME AccessInv({Nobody}), [AccountsNext]_accountVars
    PROVE  AccessInv({Nobody})' /\ (AccountsNext => StepHolds)
<1> DEFINE O == {Nobody}
<1>1. Nobody \in O
  OBVIOUS
<1> HIDE DEF O
<1> DEFINE Goal == AccessInv(O)' /\ StepHolds
<1>2. ASSUME NEW c \in AuthCallers, LinkSteps(c) \/ SessionCalls(c) \/ GrantCalls(c) \/ CallFails(c)
      PROVE  Goal
  BY <1>1, <1>2, LinkReadKeeps, LinksMailed, SessionStepsKeep, UpdatePasswordKeeps, EditsKeep
     DEF LinkSteps, SessionCalls, O
<1>3. ASSUME NEW c \in AuthCallers, NEW a \in AccountIds, SelfService(c, a) PROVE Goal
  BY <1>1, <1>3, CreationsKeep, RequestsKeep DEF SelfService, O
<1>4. ASSUME NEW l \in LinkIds, FollowLink(l) PROVE Goal
  BY <1>1, <1>4, FollowingKeeps DEF O
<1>5. ASSUME NEW s \in SessionIds, SessionSteps(s) PROVE Goal
  <2>1. ASSUME NEW c \in AuthCallers, changePassword(c, s) PROVE Goal
    <3>1. Root \in AccountIds
      BY AccountsAssumption
    <3> QED  BY <1>1, <2>1, <3>1, RequestsKeep DEF O
  <2> QED  BY <1>1, <1>5, <2>1, SessionStepsKeep DEF SessionSteps, O
<1>6. ASSUME NEW x \in AccountIds, NEW a \in AccountIds, StaffSteps(x, a) PROVE Goal
  BY <1>1, <1>6, RequestsKeep, SuspensionsKeep, SessionStepsKeep, EditsKeep DEF StaffSteps, O
<1>7. ASSUME NEW x \in AccountIds, NEW a \in AccountIds, StaffEdits(x, a) PROVE Goal
  BY <1>1, <1>7, EditsKeep, CreationsKeep DEF StaffEdits, O
<1>8. CASE PurgeSteps  BY <1>8, PurgesKeep DEF O
<1>9. CASE UNCHANGED accountVars
  <2>1. UNCHANGED <<accounts, links, sessions, calls, purge>>
    BY <1>9 DEF accountVars
  <2>2. Grown /\ LinksKept /\ SessionsKept /\ CallsKept(O) /\ purge' \subseteq AccountIds
    BY <2>1, AccessUnchanged DEF AccessInv, O
  <2> QED  BY <2>1, <2>2, AccessFrame, QuietStep DEF Lasting, O
<1> QED  BY <1>2, <1>3, <1>4, <1>5, <1>6, <1>7, <1>8, <1>9 DEF AccountsNext, O

\* At the installation only the first administrator can do anything.
LEMMA AccountsBegin == AccountsInit => AccessInv({Nobody})
<1> SUFFICES ASSUME AccountsInit PROVE AccessInv({Nobody})
  OBVIOUS
<1>1. /\ NoAccount \in AccountRows /\ NoAccount.status = "none"
      /\ [NoAccount EXCEPT !.status = "active", !.pass = 1, !.roles = {"admin"}] \in AccountRows
      /\ [NoAccount EXCEPT !.status = "active", !.pass = 1, !.roles = {"admin"}].status = "active"
  <2>1. 1 \in 0..MaxPass /\ {"admin"} \in SUBSET {"admin", "service", "admissions_moderator"}
    BY AccountsAssumption
  <2> QED  BY <2>1, EmptyAccount DEF NoAccount, AccountRows
<1>2. accounts \in [AccountIds -> AccountRows] /\ Lasting(Root)
  BY <1>1, AccountsAssumption DEF AccountsInit, Lasting
<1>3. links \in [LinkIds -> LinkRows] /\ \A l \in LinkIds : LinkHolds(l)
  BY DEF AccountsInit, NoLink, LinkRows, LinkHolds
<1>4. /\ sessions \in [SessionIds -> SessionRows]
      /\ \A s \in SessionIds : SessionHolds(s)
  BY <1>2, AccountsAssumption DEF AccountsInit, NoSession, SessionRows, SessionHolds
<1>5. /\ calls \in [AuthCallers -> CallRows({Nobody})]
      /\ \A c \in AuthCallers : CallHolds(c)
  BY DEF AccountsInit, Idle, CallRows, CallSteps, CallKinds, CallHolds, NamesAccount, NamesLasting
<1> QED  BY <1>2, <1>3, <1>4, <1>5 DEF AccountsInit, AccessInv

\* The type invariant of the accounts, from the rows.
LEMMA AccessIsTyped == ASSUME NEW O, AccessInv(O) PROVE AccountsTypeOK
BY DEF AccessInv, AccountsTypeOK, AccountRows, LinkRows, SessionRows, CallRows, CallKinds

\* Sessions end with a new password or a suspension, passwords are set through
\* open links or by who checked the current one, and the purge deletes nobody
\* who has activated the account (ConfirmPasswordReset, suspendAccount,
\* UpdatePasswordForAccount, PurgeExpiredPendingAccounts).
THEOREM AccessIsGuarded == AccountsSpec => AccessHolds
<1>1. AccessInv({Nobody}) => AccountsTypeOK
  BY AccessIsTyped
<1>2. AccessInv({Nobody}) /\ [AccountsNext]_accountVars => AccessInv({Nobody})'
  BY AccountsStep
<1>3. AccessInv({Nobody}) /\ [AccountsNext]_accountVars => [EndsSessions]_accountVars
  BY AccountsStep DEF StepHolds
<1>4. AccessInv({Nobody}) /\ [AccountsNext]_accountVars => [DeletesNone]_accountVars
  BY AccountsStep DEF StepHolds
<1>5. AccessInv({Nobody}) /\ [AccountsNext]_accountVars => [SetsByLinks]_accountVars
  BY AccountsStep DEF StepHolds
<1> QED
  BY <1>1, <1>2, <1>3, <1>4, <1>5, AccountsBegin, PTL
     DEF AccountsSpec, AccessHolds, SessionsEnd, ActivatedStay, PasswordsByOpenLinks,
         EndsSessions, DeletesNone, SetsByLinks

-----------------------------------------------------------------------------
(***************************************************************************)
(* The second factor.                                                      *)

MFARows ==
    [secret : 0..MaxSecrets, enabled : BOOLEAN, waiting : BOOLEAN, verified : BOOLEAN]

MFACallRows ==
    [step : {"idle", "begin", "enable", "verify", "disable"},
     acct : AccountIds \cup {Nobody}, secret : 0..MaxSecrets]

MFAInv == MFATypeOK /\ GrantsAreEnabled

\* SecretStands, of one step.
KeepsSecrets ==
    \A a \in AccountIds :
         mfaRows[a].enabled
         => \/ mfaRows'[a] = NoRow
            \/ mfaRows'[a].enabled /\ mfaRows'[a].secret = mfaRows[a].secret

\* Nothing is written to the rows before a code was checked (BeginAdminMFA,
\* EnableAdminMFA, VerifyAdminMFA, DisableAdminMFA), or when a call fails.
LEMMA MFARequestsKeep ==
    ASSUME MFAInv,
           \/ \E c \in MFACallers, a \in AccountIds : MFARequests(c, a)
           \/ \E c \in MFACallers : MFACallFails(c)
           \/ \E x \in AccountIds, value \in BOOLEAN : SetRequireAdminMFA(x, value)
    PROVE  MFAInv' /\ KeepsSecrets
<1>1. /\ mfaRows \in [AccountIds -> MFARows] /\ mfaCalls \in [MFACallers -> MFACallRows]
      /\ drawn \in 0..MaxSecrets /\ required \in BOOLEAN
  BY DEF MFAInv, MFATypeOK, MFARows, MFACallRows
<1>2. mfaRows' = mfaRows
  BY DEF MFARequests, adminMFASetup, adminMFAEnable, adminMFAVerify, adminMFADisable,
         BeginAdminMFA, EnableAdminMFA, VerifyAdminMFA, DisableAdminMFA, MFACallFails,
         SetRequireAdminMFA
<1>3. \A a \in AccountIds : mfaRows[a].secret \in 0..MaxSecrets
  BY <1>1 DEF MFARows
<1>4. drawn' \in 0..MaxSecrets /\ required' \in BOOLEAN
  BY <1>1, MFAAssumption
     DEF MFARequests, adminMFASetup, adminMFAEnable, adminMFAVerify, adminMFADisable,
         BeginAdminMFA, EnableAdminMFA, VerifyAdminMFA, DisableAdminMFA, MFACallFails,
         SetRequireAdminMFA
<1>5. NoCall \in MFACallRows
  BY MFAAssumption DEF NoCall, MFACallRows
<1>6. ASSUME NEW c \in MFACallers, NEW a \in AccountIds, MFARequests(c, a)
      PROVE  mfaCalls' \in [MFACallers -> MFACallRows]
  <2>1. PICK step \in {"begin", "enable", "verify", "disable"}, secret \in 0..MaxSecrets :
          mfaCalls' = [mfaCalls EXCEPT ![c] = [step |-> step, acct |-> a, secret |-> secret]]
    BY <1>3, <1>4, <1>6
       DEF MFARequests, adminMFASetup, adminMFAEnable, adminMFAVerify, adminMFADisable,
           BeginAdminMFA, EnableAdminMFA, VerifyAdminMFA, DisableAdminMFA, MFACall
  <2>2. [step |-> step, acct |-> a, secret |-> secret] \in MFACallRows
    BY DEF MFACallRows
  <2> QED  BY <1>1, <2>1, <2>2
<1>7. mfaCalls' \in [MFACallers -> MFACallRows]
  BY <1>1, <1>5, <1>6 DEF MFACallFails, MFAReturn, SetRequireAdminMFA
<1> QED  BY <1>1, <1>2, <1>4, <1>7
         DEF MFAInv, MFATypeOK, MFARows, MFACallRows, GrantsAreEnabled, KeepsSecrets

\* A row is only overwritten, enabled or verified as the condition of its
\* statement allows (SaveAdminMFASecret, StoreEnabled, TouchAdminMFAVerified).
LEMMA MFAWritesKeep ==
    ASSUME MFAInv,
           \/ \E c \in MFACallers : \/ SaveAdminMFASecret(c) \/ StoreEnabled(c)
                                    \/ TouchAdminMFAVerified(c) \/ DeleteRow(c)
           \/ \E a \in AccountIds : SetupExpires(a) \/ GrantEnds(a)
    PROVE  MFAInv' /\ KeepsSecrets
<1>1. /\ mfaRows \in [AccountIds -> MFARows] /\ mfaCalls \in [MFACallers -> MFACallRows]
      /\ drawn \in 0..MaxSecrets /\ required \in BOOLEAN
  BY DEF MFAInv, MFATypeOK, MFARows, MFACallRows
<1>2. UNCHANGED <<drawn, required>>
  BY DEF SaveAdminMFASecret, StoreEnabled, TouchAdminMFAVerified, DeleteRow, SetupExpires,
         GrantEnds
<1>3. mfaCalls' \in [MFACallers -> MFACallRows]
  <2>1. NoCall \in MFACallRows
    BY MFAAssumption DEF NoCall, MFACallRows
  <2> QED  BY <1>1, <2>1
           DEF SaveAdminMFASecret, StoreEnabled, TouchAdminMFAVerified, DeleteRow, MFAReturn,
               SetupExpires, GrantEnds
\* A row that becomes another one.
<1> DEFINE Fits(old, new) ==
      /\ new \in MFARows /\ (new.verified => new.enabled)
      /\ old.enabled => new = NoRow \/ (new.enabled /\ new.secret = old.secret)
<1>4. ASSUME NEW a \in AccountIds, NEW row, mfaRows' = [mfaRows EXCEPT ![a] = row],
             Fits(mfaRows[a], row)
      PROVE  MFAInv' /\ KeepsSecrets
  <2>1. mfaRows' \in [AccountIds -> MFARows]
    BY <1>1, <1>4
  <2>2. GrantsAreEnabled' /\ KeepsSecrets
    BY <1>1, <1>4 DEF MFAInv, GrantsAreEnabled, KeepsSecrets
  <2> QED  BY <1>1, <1>2, <1>3, <2>1, <2>2 DEF MFAInv, MFATypeOK, MFARows, MFACallRows
<1>5. ASSUME mfaRows' = mfaRows PROVE MFAInv' /\ KeepsSecrets
  BY <1>1, <1>2, <1>3, <1>5
     DEF MFAInv, MFATypeOK, MFARows, MFACallRows, GrantsAreEnabled, KeepsSecrets
<1>6. NoRow \in MFARows /\ ~NoRow.verified
  BY MFAAssumption DEF NoRow, MFARows
<1>7. \A c \in MFACallers : /\ mfaCalls[c].secret \in 0..MaxSecrets
                            /\ mfaCalls[c].acct \notin AccountIds => mfaCalls[c].acct = Nobody
  BY <1>1 DEF MFACallRows
<1>8. ASSUME NEW a, a \notin AccountIds, NEW row, mfaRows' = [mfaRows EXCEPT ![a] = row]
      PROVE  mfaRows' = mfaRows
  BY <1>1, <1>8
<1>9. \A a \in AccountIds : mfaRows[a] \in MFARows /\ (mfaRows[a].verified => mfaRows[a].enabled)
  BY <1>1 DEF MFAInv, GrantsAreEnabled
<1>10. ASSUME NEW c \in MFACallers, SaveAdminMFASecret(c) PROVE MFAInv' /\ KeepsSecrets
  <2> DEFINE row == [NoRow EXCEPT !.secret = mfaCalls[c].secret, !.waiting = TRUE]
  <2>1. row \in MFARows /\ ~row.verified
    BY <1>7 DEF NoRow, MFARows
  <2>2. PICK a : a = mfaCalls[c].acct
    OBVIOUS
  <2>3. \/ mfaRows' = mfaRows
        \/ mfaRows' = [mfaRows EXCEPT ![a] = row] /\ ~mfaRows[a].enabled
    BY <1>10, <2>2 DEF SaveAdminMFASecret, Overwrites
  <2> HIDE DEF row
  <2>4. CASE mfaRows' = mfaRows  BY <1>5, <2>4
  <2>5. CASE mfaRows' = [mfaRows EXCEPT ![a] = row] /\ ~mfaRows[a].enabled /\ a \in AccountIds
    BY <1>4, <2>1, <2>5
  <2>6. CASE mfaRows' = [mfaRows EXCEPT ![a] = row] /\ a \notin AccountIds
    BY <1>5, <1>8, <2>6
  <2> QED  BY <2>3, <2>4, <2>5, <2>6
<1>11. ASSUME NEW c \in MFACallers, StoreEnabled(c) PROVE MFAInv' /\ KeepsSecrets
  <2>1. PICK a : a = mfaCalls[c].acct
    OBVIOUS
  <2>2. /\ ~mfaRows[a].enabled
        /\ mfaRows' = [mfaRows EXCEPT ![a].enabled = TRUE, ![a].waiting = FALSE,
                                      ![a].verified = TRUE]
    BY <1>11, <2>1 DEF StoreEnabled
  <2> DEFINE row == [mfaRows[a] EXCEPT !.enabled = TRUE, !.waiting = FALSE, !.verified = TRUE]
  <2>3. CASE a \in AccountIds
    <3>1. mfaRows' = [mfaRows EXCEPT ![a] = row]
      BY <1>1, <2>2, <2>3
    <3>2. row \in MFARows /\ row.enabled
      BY <1>9, <2>3 DEF MFARows
    <3> HIDE DEF row
    <3> QED  BY <1>4, <2>2, <2>3, <3>1, <3>2
  <2>4. CASE a \notin AccountIds
    BY <1>1, <1>5, <2>2, <2>4
  <2> QED  BY <2>3, <2>4
<1>12. ASSUME NEW c \in MFACallers, TouchAdminMFAVerified(c) PROVE MFAInv' /\ KeepsSecrets
  <2>1. PICK a : a = mfaCalls[c].acct
    OBVIOUS
  <2>2. \/ mfaRows' = mfaRows
        \/ mfaRows' = [mfaRows EXCEPT ![a].verified = TRUE] /\ mfaRows[a].enabled
    BY <1>12, <2>1 DEF TouchAdminMFAVerified, GrantOpens
  <2> DEFINE row == [mfaRows[a] EXCEPT !.verified = TRUE]
  <2>3. CASE mfaRows' = mfaRows  BY <1>5, <2>3
  <2>4. CASE /\ mfaRows' = [mfaRows EXCEPT ![a].verified = TRUE] /\ mfaRows[a].enabled
             /\ a \in AccountIds
    <3>1. mfaRows' = [mfaRows EXCEPT ![a] = row]
      BY <1>1, <2>4
    <3>2. row \in MFARows /\ row.enabled /\ row.secret = mfaRows[a].secret
      BY <1>9, <2>4 DEF MFARows
    <3> HIDE DEF row
    <3> QED  BY <1>4, <2>4, <3>1, <3>2
  <2>5. CASE mfaRows' = [mfaRows EXCEPT ![a].verified = TRUE] /\ a \notin AccountIds
    BY <1>1, <1>5, <2>5
  <2> QED  BY <2>2, <2>3, <2>4, <2>5
<1>13. ASSUME NEW c \in MFACallers, DeleteRow(c) PROVE MFAInv' /\ KeepsSecrets
  <2>1. PICK a : a = mfaCalls[c].acct
    OBVIOUS
  <2>2. mfaRows' = [mfaRows EXCEPT ![a] = NoRow]
    BY <1>13, <2>1 DEF DeleteRow
  <2>3. CASE a \in AccountIds  BY <1>4, <1>6, <2>2, <2>3
  <2>4. CASE a \notin AccountIds  BY <1>5, <1>8, <2>2, <2>4
  <2> QED  BY <2>3, <2>4
<1>14. ASSUME NEW a \in AccountIds, SetupExpires(a) \/ GrantEnds(a)
       PROVE  MFAInv' /\ KeepsSecrets
  <2>1. mfaRows[a] \in MFARows /\ (mfaRows[a].verified => mfaRows[a].enabled)
    BY <1>9
  <2>2. CASE SetupExpires(a)
    <3> DEFINE row == [mfaRows[a] EXCEPT !.waiting = FALSE]
    <3>1. mfaRows' = [mfaRows EXCEPT ![a] = row]
      BY <1>1, <2>2 DEF SetupExpires
    <3>2. Fits(mfaRows[a], row)
      BY <2>1 DEF MFARows
    <3> HIDE DEF row
    <3> QED  BY <1>4, <3>1, <3>2
  <2>3. CASE GrantEnds(a)
    <3> DEFINE row == [mfaRows[a] EXCEPT !.verified = FALSE]
    <3>1. mfaRows' = [mfaRows EXCEPT ![a] = row]
      BY <1>1, <2>3 DEF GrantEnds
    <3>2. Fits(mfaRows[a], row)
      BY <2>1 DEF MFARows
    <3> HIDE DEF row
    <3> QED  BY <1>4, <3>1, <3>2
  <2> QED  BY <1>14, <2>2, <2>3
<1> QED  BY <1>10, <1>11, <1>12, <1>13, <1>14

\* An enabled secret stands until it is disabled, and a grant is one for an
\* enabled factor, whatever set-ups, codes and removals overlap and whatever
\* happens to the accounts (SaveAdminMFASecret, TouchAdminMFAVerified).
THEOREM FactorsStand == MFASpec => SecondFactorHolds
<1> DEFINE Step == MFANext \/ (AccountsNext /\ UNCHANGED mfaVars)
<1>1. MFAInit => MFAInv
  <2>1. 0 \in 0..MaxSecrets
    BY MFAAssumption
  <2>2. NoRow \in MFARows /\ NoCall \in MFACallRows /\ ~NoRow.verified
    BY <2>1 DEF NoRow, NoCall, MFARows, MFACallRows
  <2> SUFFICES ASSUME MFAInit PROVE MFAInv
    OBVIOUS
  <2>3. mfaRows \in [AccountIds -> MFARows] /\ \A a \in AccountIds : ~mfaRows[a].verified
    BY <2>2 DEF MFAInit
  <2>4. mfaCalls \in [MFACallers -> MFACallRows]
    BY <2>2 DEF MFAInit
  <2>5. MFATypeOK
    BY <2>1, <2>3, <2>4 DEF MFAInit, MFATypeOK, MFARows, MFACallRows
  <2>6. GrantsAreEnabled
    BY <2>3 DEF GrantsAreEnabled
  <2> QED  BY <2>1, <2>3, <2>4, <2>5, <2>6 DEF MFAInv, MFAInit
<1>2. MFAInv /\ UNCHANGED mfaVars => MFAInv'
  BY DEF MFAInv, mfaVars, MFATypeOK, GrantsAreEnabled
<1>3. MFAInv /\ MFASteps => MFAInv' /\ KeepsSecrets
  BY MFARequestsKeep, MFAWritesKeep DEF MFASteps, MFAWrites
<1>4. MFAInv /\ [Step]_<<accountVars, mfaVars>> => MFAInv'
  BY <1>2, <1>3 DEF MFANext
<1>5. MFAInv /\ [Step]_<<accountVars, mfaVars>> => [KeepsSecrets]_mfaVars
  BY <1>3 DEF MFANext
<1>6. MFAInv => MFATypeOK /\ GrantsAreEnabled
  BY DEF MFAInv
<1> QED  BY <1>1, <1>4, <1>5, <1>6, PTL DEF MFASpec, SecondFactorHolds, SecretStands, KeepsSecrets

-----------------------------------------------------------------------------
(***************************************************************************)
(* Verification.                                                           *)

\* A document request that is approved keeps its documents while it exists,
\* and only requests by e-mail have a code (CreateDocument,
\* CreateEmailChallenge).
VerifyInv ==
    /\ VerifyTypeOK /\ DecidedOnce
    /\ accounts \in [AccountIds -> AccountRows]
    /\ \A r \in Requests : Method[r] = "document" /\ requests[r] = "approved" => HasProof(r)
    /\ \A r \in Requests : codes[r].state # "none" => Method[r] = "school_email"

\* ApprovedOnProof, SuspendedUnchanged and VerifiedStayStudents, of one step.
DecidesOnProof ==
    \A r \in Requests :
         Method[r] = "document" /\ requests'[r] \in {"approved", "rejected"}
         => /\ requests'[r] = "approved" => {k \in proofs : k[1] = r} # {}
            /\ {k \in proofs' : k[1] = r} \subseteq proofs

SparesSuspended ==
    \A a \in AccountIds : accounts[a].status = "suspended"
                          => accounts'[a].identity # "student"
                             \/ accounts[a].identity = "student"

SparesVerified ==
    \A a \in AccountIds : student[a] = "active" /\ accounts[a].identity = "student"
                          => accounts'[a].identity = "student"

VerifyStepHolds == DecidesOnProof /\ SparesSuspended /\ SparesVerified

\* A decided request without a new document rests on the documents it had.
LEMMA ProofsStay ==
    ASSUME VerifyInv, requests' = requests, proofs' = proofs
    PROVE  DecidesOnProof
BY DEF VerifyInv, HasProof, DocumentsOf, DecidesOnProof

\* The steps that leave the accounts alone (CreateEmailRequest, EnterWrongCode,
\* CreateDocument, RemoveObject).
LEMMA PreparingKeeps ==
    ASSUME VerifyInv, UNCHANGED accountVars,
           \/ \E r \in Requests : SchoolEmail(r) \/ Documents(r)
           \/ \E active \in BOOLEAN : SetDomainActive(active)
           \/ \E a \in AccountIds : VerificationLapses(a)
           \/ Cleanup
    PROVE  VerifyInv' /\ VerifyStepHolds
<1>1. accounts' = accounts
  BY DEF accountVars
<1>2. SparesSuspended /\ SparesVerified
  BY <1>1 DEF SparesSuspended, SparesVerified
<1>3. ASSUME NEW r \in Requests, CreateEmailRequest(r) \/ CreateDocumentRequest(r)
      PROVE  VerifyInv' /\ DecidesOnProof
  <2>1. /\ requests[r] = "none" /\ requests' = [requests EXCEPT ![r] = "pending"]
        /\ UNCHANGED <<codes, proofs, objects, student, decisions, domain, cleanup>>
    BY <1>3 DEF CreateEmailRequest, CreateDocumentRequest
  <2>2. VerifyTypeOK'
    BY <2>1 DEF VerifyInv, VerifyTypeOK
  <2>3. DecidedOnce'
    BY <2>1 DEF VerifyInv, VerifyTypeOK, DecidedOnce
  <2>4. DecidesOnProof
    BY <2>1 DEF VerifyInv, VerifyTypeOK, HasProof, DocumentsOf, DecidesOnProof
  <2> QED  BY <1>1, <2>1, <2>2, <2>3, <2>4
           DEF VerifyInv, VerifyTypeOK, HasProof, DocumentsOf
<1>4. ASSUME NEW r \in Requests, CreateEmailChallenge(r) \/ EnterWrongCode(r)
      PROVE  VerifyInv' /\ DecidesOnProof
  <2>1. UNCHANGED <<requests, proofs, objects, student, decisions, domain, cleanup>>
    BY <1>4 DEF CreateEmailChallenge, EnterWrongCode
  <2>2. codes[r] \in [state : {"none", "open", "used"}, tries : 0..MaxTries]
    BY DEF VerifyInv, VerifyTypeOK
  <2>3. PICK row \in [state : {"none", "open", "used"}, tries : 0..MaxTries] :
          codes' = [codes EXCEPT ![r] = row] /\ Method[r] = "school_email"
    <3>1. CASE CreateEmailChallenge(r)
      <4>1. /\ codes' = [codes EXCEPT ![r] = [codes[r] EXCEPT !.state = "open"]]
            /\ Method[r] = "school_email"
        BY <3>1 DEF CreateEmailChallenge, VerifyInv, VerifyTypeOK
      <4> QED  BY <2>2, <4>1
    <3>2. CASE EnterWrongCode(r)
      <4>1. /\ codes' = [codes EXCEPT ![r] = [codes[r] EXCEPT !.tries = @ + 1]]
            /\ codes[r].state = "open" /\ codes[r].tries < MaxTries
        BY <3>2 DEF EnterWrongCode, TakesCode, VerifyInv, VerifyTypeOK
      <4>2. codes[r].tries + 1 \in 0..MaxTries
        BY <2>2, <4>1, VerificationAssumption
      <4>3. Method[r] = "school_email"
        BY <4>1 DEF VerifyInv
      <4> QED  BY <2>2, <4>1, <4>2, <4>3
    <3> QED  BY <1>4, <3>1, <3>2
  <2>4. VerifyTypeOK'
    BY <2>1, <2>3 DEF VerifyInv, VerifyTypeOK
  <2>5. \A q \in Requests : codes'[q].state # "none" => Method[q] = "school_email"
    BY <2>3 DEF VerifyInv, VerifyTypeOK
  <2>6. DecidesOnProof
    BY <2>1, ProofsStay
  <2> QED  BY <1>1, <2>1, <2>4, <2>5, <2>6 DEF VerifyInv, DecidedOnce, HasProof, DocumentsOf
<1>5. ASSUME NEW r \in Requests, NEW f \in Proofs, CreateDocument(r, f)
      PROVE  VerifyInv' /\ DecidesOnProof
  <2>1. /\ requests[r] = "pending" /\ proofs' = proofs \cup {<<r, f>>}
        /\ UNCHANGED <<requests, codes, objects, student, decisions, domain, cleanup>>
    BY <1>5 DEF CreateDocument, TakesProofs
  <2>2. VerifyTypeOK'
    BY <2>1 DEF VerifyInv, VerifyTypeOK
  <2>3. \A q \in Requests \ {r} : \A k \in proofs' : k[1] = q => k \in proofs
    BY <2>1
  <2>4. DecidesOnProof
    BY <2>1, <2>3 DEF VerifyInv, HasProof, DocumentsOf, DecidesOnProof
  <2>5. \A q \in Requests : HasProof(q) => HasProof(q)'
    BY <2>1 DEF HasProof, DocumentsOf
  <2> QED  BY <1>1, <2>1, <2>2, <2>4, <2>5 DEF VerifyInv, DecidedOnce
<1>6. ASSUME UNCHANGED <<requests, codes, proofs, decisions>>, VerifyTypeOK'
      PROVE  VerifyInv' /\ DecidesOnProof
  BY <1>1, <1>6, ProofsStay DEF VerifyInv, DecidedOnce, HasProof, DocumentsOf
<1>7. ASSUME \/ \E r \in Requests, f \in Proofs : PutProof(r, f) \/ RemoveProof(r, f)
             \/ \E active \in BOOLEAN : SetDomainActive(active)
             \/ \E a \in AccountIds : VerificationLapses(a)
             \/ Cleanup
      PROVE  VerifyInv' /\ DecidesOnProof
  <2>1. UNCHANGED <<requests, codes, proofs, decisions>>
    BY <1>7 DEF PutProof, RemoveProof, SetDomainActive, VerificationLapses, Cleanup,
                StartCleanup, RemoveObject, CleanupStops
  <2>2. objects' \subseteq Requests \X Proofs /\ domain' \in BOOLEAN
    <3>1. objects \subseteq Requests \X Proofs /\ domain \in BOOLEAN
      BY DEF VerifyInv, VerifyTypeOK
    <3>2. \/ \E r \in Requests, f \in Proofs : objects' = objects \cup {<<r, f>>}
          \/ \E k : objects' = objects \ {k}
          \/ objects' = objects
      BY <1>7 DEF PutProof, RemoveProof, SetDomainActive, VerificationLapses, Cleanup,
                  StartCleanup, RemoveObject, CleanupStops
    <3>3. domain' = domain \/ domain' \in BOOLEAN
      BY <1>7 DEF PutProof, RemoveProof, SetDomainActive, VerificationLapses, Cleanup,
                  StartCleanup, RemoveObject, CleanupStops
    <3> QED  BY <3>1, <3>2, <3>3
  <2>3. student' \in [AccountIds -> {"none", "active", "due", "expired"}]
    BY <1>7 DEF VerifyInv, VerifyTypeOK, PutProof, RemoveProof, SetDomainActive,
                VerificationLapses, Cleanup, StartCleanup, RemoveObject, CleanupStops
  <2>4. cleanup' \in [run : {"none", "removing", "failed", "completed"},
                      files : SUBSET (Requests \X Proofs)]
    <3>1. /\ cleanup \in [run : {"none", "removing", "failed", "completed"},
                          files : SUBSET (Requests \X Proofs)]
          /\ proofs \subseteq Requests \X Proofs
      BY DEF VerifyInv, VerifyTypeOK
    <3>2. \/ cleanup' = cleanup
          \/ cleanup' = [run |-> "removing", files |-> proofs]
          \/ \E k \in cleanup.files : cleanup' = [cleanup EXCEPT !.files = @ \ {k}]
          \/ \E run \in {"failed", "none"} : cleanup' = [run |-> run, files |-> {}]
      BY <1>7 DEF PutProof, RemoveProof, SetDomainActive, VerificationLapses, Cleanup,
                  StartCleanup, RemoveObject, CleanupStops
    <3> QED  BY <3>1, <3>2
  <2>5. VerifyTypeOK'
    BY <2>1, <2>2, <2>3, <2>4 DEF VerifyInv, VerifyTypeOK
  <2> QED  BY <1>6, <2>1, <2>5
<1> QED  BY <1>2, <1>3, <1>4, <1>5, <1>7 DEF SchoolEmail, Documents, VerifyStepHolds

\* Who is promoted was active, and nobody else is touched (Verify).
LEMMA PromotingSpares ==
    ASSUME accounts \in [AccountIds -> AccountRows], NEW a, accounts' = Promoted(a)
    PROVE  /\ accounts' \in [AccountIds -> AccountRows]
           /\ SparesSuspended /\ SparesVerified
<1>1. CASE accounts' = accounts
  BY <1>1 DEF SparesSuspended, SparesVerified
<1>2. CASE /\ a \in AccountIds /\ accounts[a].status = "active"
           /\ accounts' = [accounts EXCEPT ![a].identity = "student"]
  <2>1. accounts[a] \in AccountRows
    BY <1>2
  <2>2. /\ [accounts[a] EXCEPT !.identity = "student"] \in AccountRows
        /\ [accounts[a] EXCEPT !.identity = "student"].identity = "student"
    BY <2>1 DEF AccountRows
  <2> QED  BY <1>2, <2>2 DEF SparesSuspended, SparesVerified
<1>3. CASE a \notin AccountIds /\ accounts' = [accounts EXCEPT ![a].identity = "student"]
  BY <1>3 DEF SparesSuspended, SparesVerified
<1> QED  BY <1>1, <1>2, <1>3 DEF Promoted

\* A request is decided while it is pending, once, and by its documents
\* (ConsumeEmailCode, ReviewDocumentRequest).
LEMMA DecidingKeeps ==
    ASSUME VerifyInv, NEW r \in Requests, Decision(r)
    PROVE  VerifyInv' /\ VerifyStepHolds
<1>1. accounts \in [AccountIds -> AccountRows] /\ VerifyTypeOK
  BY DEF VerifyInv
<1>2. requests[r] = "pending" /\ decisions[r] = 0
  BY DEF Decision, EnterRightCode, ReviewApproves, ReviewRejects, Reviewable, VerifyInv,
         DecidedOnce
<1>3. PICK status \in {"approved", "rejected"} : requests' = [requests EXCEPT ![r] = status]
  BY DEF Decision, EnterRightCode, ReviewApproves, ReviewRejects, Verify
<1>4. /\ decisions' = [decisions EXCEPT ![r] = @ + 1]
      /\ UNCHANGED <<proofs, objects, domain, cleanup>>
  BY DEF Decision, EnterRightCode, ReviewApproves, ReviewRejects, Verify, Logged
<1>5. /\ codes' = codes \/ (codes' = [codes EXCEPT ![r].state = "used"] /\ codes[r].state = "open")
      /\ student' = student \/ student' = [student EXCEPT ![Requester[r]] = "active"]
  BY DEF Decision, EnterRightCode, ReviewApproves, ReviewRejects, Verify, TakesCode
<1>6. accounts' = accounts \/ accounts' = Promoted(Requester[r])
  BY DEF Decision, EnterRightCode, ReviewApproves, ReviewRejects, Verify
<1>7. Method[r] = "document" /\ status = "approved" => HasProof(r)
  <2>1. CASE EnterRightCode(r)
    BY <2>1 DEF EnterRightCode, TakesCode, VerifyInv
  <2>2. CASE ReviewApproves(r)
    BY <2>2 DEF ReviewApproves
  <2>3. CASE ReviewRejects(r)
    <3>1. requests' = [requests EXCEPT ![r] = "rejected"]
      BY <2>3 DEF ReviewRejects
    <3> QED  BY <1>1, <1>3, <3>1 DEF VerifyTypeOK
  <2> QED  BY <2>1, <2>2, <2>3 DEF Decision
<1>8. accounts' \in [AccountIds -> AccountRows] /\ SparesSuspended /\ SparesVerified
  <2>1. CASE accounts' = accounts
    BY <1>1, <2>1 DEF SparesSuspended, SparesVerified
  <2> QED  BY <1>1, <1>6, <2>1, PromotingSpares
<1>9. /\ codes' \in [Requests -> [state : {"none", "open", "used"}, tries : 0..MaxTries]]
      /\ \A q \in Requests : codes'[q].state # "none" => codes[q].state # "none"
  <2>1. CASE codes' = codes  BY <1>1, <2>1 DEF VerifyTypeOK
  <2>2. CASE codes' = [codes EXCEPT ![r].state = "used"] /\ codes[r].state = "open"
    <3>1. codes[r] \in [state : {"none", "open", "used"}, tries : 0..MaxTries]
      BY <1>1 DEF VerifyTypeOK
    <3>2. [codes[r] EXCEPT !.state = "used"]
             \in [state : {"none", "open", "used"}, tries : 0..MaxTries]
      BY <3>1
    <3> QED  BY <1>1, <2>2, <3>2 DEF VerifyTypeOK
  <2> QED  BY <1>5, <2>1, <2>2
<1>10. VerifyTypeOK'
  <2>1. decisions' \in [Requests -> Nat]
    BY <1>1, <1>4 DEF VerifyTypeOK
  <2>2. student' \in [AccountIds -> {"none", "active", "due", "expired"}]
    BY <1>1, <1>5 DEF VerifyTypeOK
  <2> QED  BY <1>1, <1>3, <1>4, <1>9, <2>1, <2>2 DEF VerifyTypeOK
<1>11. DecidedOnce'
  BY <1>1, <1>2, <1>3, <1>4 DEF VerifyInv, VerifyTypeOK, DecidedOnce
<1>12. \A q \in Requests :
         /\ Method[q] = "document" /\ requests'[q] = "approved" => HasProof(q)
         /\ HasProof(q) => HasProof(q)'
  BY <1>1, <1>3, <1>4, <1>7 DEF VerifyInv, VerifyTypeOK, HasProof, DocumentsOf
<1>13. DecidesOnProof
  BY <1>4, <1>12 DEF DecidesOnProof, HasProof, DocumentsOf
<1> QED  BY <1>8, <1>9, <1>10, <1>11, <1>12, <1>13 DEF VerifyInv, VerifyStepHolds

\* The clean-up deletes what nobody has decided (PurgeAnnualData), and a
\* suspension leaves the identity alone.
LEMMA ClosingKeeps ==
    ASSUME VerifyInv,
           \/ CommitCleanup
           \/ /\ \E a \in AccountIds : SuspendUser(Root, a) \/ ReinstateUser(Root, a)
              /\ UNCHANGED verifyVars
    PROVE  VerifyInv' /\ VerifyStepHolds
<1>1. accounts \in [AccountIds -> AccountRows] /\ VerifyTypeOK
  BY DEF VerifyInv
<1>2. CASE CommitCleanup
  <2>1. /\ requests' = [r \in Requests |-> IF requests[r] = "none" THEN "none" ELSE "purged"]
        /\ codes' = [r \in Requests |-> NoCode] /\ proofs' = {}
        /\ student' = [a \in AccountIds |-> IF student[a] = "due" THEN "expired" ELSE student[a]]
        /\ accounts' = [a \in AccountIds |->
              IF Senior(a) THEN [accounts[a] EXCEPT !.identity = "senior"] ELSE accounts[a]]
        /\ cleanup' = [run |-> "completed", files |-> {}]
        /\ UNCHANGED <<objects, decisions, domain>>
        /\ \A r \in Requests : requests[r] # "none" => decisions[r] = 0
    BY <1>2 DEF CommitCleanup, RequestDeletable
  <2>2. NoCode \in [state : {"none", "open", "used"}, tries : 0..MaxTries] /\ NoCode.state = "none"
    BY VerificationAssumption DEF NoCode
  <2>3. VerifyTypeOK'
    BY <1>1, <2>1, <2>2 DEF VerifyTypeOK
  <2>4. \A r \in Requests : requests'[r] \notin {"approved", "rejected"} /\ decisions'[r] = 0
    BY <2>1 DEF VerifyInv, DecidedOnce
  <2>5. \A a \in AccountIds :
          /\ [accounts[a] EXCEPT !.identity = "senior"] \in AccountRows
          /\ [accounts[a] EXCEPT !.identity = "senior"].identity = "senior"
    <3> SUFFICES ASSUME NEW a \in AccountIds
                 PROVE  /\ [accounts[a] EXCEPT !.identity = "senior"] \in AccountRows
                        /\ [accounts[a] EXCEPT !.identity = "senior"].identity = "senior"
      OBVIOUS
    <3>1. accounts[a] \in AccountRows
      BY <1>1
    <3> QED  BY <3>1 DEF AccountRows
  <2>6. accounts' \in [AccountIds -> AccountRows] /\ SparesSuspended /\ SparesVerified
    BY <1>1, <2>1, <2>5 DEF SparesSuspended, SparesVerified, Senior
  <2> QED  BY <2>1, <2>2, <2>3, <2>4, <2>6
           DEF VerifyInv, VerifyStepHolds, DecidedOnce, DecidesOnProof
<1>3. CASE /\ \E a \in AccountIds : SuspendUser(Root, a) \/ ReinstateUser(Root, a)
           /\ UNCHANGED verifyVars
  <2>1. PICK a \in AccountIds, status \in {"active", "suspended"} :
          accounts' = [accounts EXCEPT ![a].status = status]
    BY <1>3 DEF SuspendUser, suspendAccount, ReinstateUser, reinstateAccount
  <2>2. accounts[a] \in AccountRows
    BY <1>1
  <2>3. /\ [accounts[a] EXCEPT !.status = status] \in AccountRows
        /\ [accounts[a] EXCEPT !.status = status].identity = accounts[a].identity
    BY <2>2 DEF AccountRows
  <2>4. accounts' \in [AccountIds -> AccountRows] /\ SparesSuspended /\ SparesVerified
    BY <1>1, <2>1, <2>3 DEF SparesSuspended, SparesVerified
  <2>5. UNCHANGED <<requests, codes, proofs, objects, student, decisions, domain, cleanup>>
    BY <1>3 DEF verifyVars
  <2> QED  BY <2>4, <2>5, ProofsStay
           DEF VerifyInv, VerifyTypeOK, DecidedOnce, HasProof, DocumentsOf, VerifyStepHolds
<1> QED  BY <1>2, <1>3

\* A request is decided once, on documents that were there, and neither a
\* decision nor the clean-up changes the identity of an account that is
\* suspended or verified (ReviewDocumentRequest, PurgeAnnualData).
THEOREM VerificationsStand == VerifySpec => VerificationHolds
<1>1. AccountsTypeOK /\ VerifyInit => VerifyInv
  BY VerificationAssumption
     DEF AccountsTypeOK, AccountRows, VerifyInit, VerifyInv, VerifyTypeOK, DecidedOnce, NoCode
<1>2. VerifyInv /\ UNCHANGED <<accountVars, verifyVars>> => VerifyInv'
  BY DEF VerifyInv, VerifyTypeOK, DecidedOnce, HasProof, DocumentsOf, accountVars, verifyVars
<1>3. VerifyInv /\ VerifyNext => VerifyInv' /\ VerifyStepHolds
  BY PreparingKeeps, DecidingKeeps, ClosingKeeps DEF VerifyNext
<1>4. VerifyInv /\ [VerifyNext]_<<accountVars, verifyVars>> => VerifyInv'
  BY <1>2, <1>3
<1>5. VerifyInv /\ [VerifyNext]_<<accountVars, verifyVars>> => [DecidesOnProof]_verifyVars
  BY <1>3 DEF VerifyStepHolds
<1>6. VerifyInv /\ [VerifyNext]_<<accountVars, verifyVars>> => [SparesSuspended]_verifyVars
  BY <1>3 DEF VerifyStepHolds
<1>7. VerifyInv /\ [VerifyNext]_<<accountVars, verifyVars>>
        => [SparesVerified]_<<verifyVars, accounts>>
  BY <1>3 DEF VerifyStepHolds, accountVars
<1>8. VerifyInv => VerifyTypeOK /\ DecidedOnce
  BY DEF VerifyInv
<1> QED
  BY <1>1, <1>4, <1>5, <1>6, <1>7, <1>8, PTL
     DEF VerifySpec, VerificationHolds, ApprovedOnProof, SuspendedUnchanged,
         VerifiedStayStudents, DecidesOnProof, SparesSuspended, SparesVerified

-----------------------------------------------------------------------------
(***************************************************************************)
(* Applications for an account.                                            *)

\* What a call works on: an application, or none.
Targets == Applications \cup {Nobody}

Deciding == {"receipt", "forum", "thread", "approve", "mark", "decide", "reject", "rejection"}

\* An approval whose account is there knows which application it is for, and
\* who is about to mail a rejection has recorded it (Approve, Reject).
AppCallHolds(c) ==
    /\ calls[c].step \in Deciding => calls[c].of \in Applications
    /\ calls[c].step \in {"mark", "decide"}
       => calls[c].acct \in AccountIds /\ createdFor[calls[c].acct] = calls[c].of
    /\ calls[c].step = "decide" => accounts[calls[c].acct].identity = "student"
    /\ calls[c].step = "rejection" => applications[calls[c].of].status = "rejected"

\* The address an account was created with tells for whom.
CreatedHolds(a) ==
    createdFor[a] # Nobody
    => accounts[a].mail = Applicant[createdFor[a]] /\ accounts[a].status = "active"

ApprovedHolds(p) ==
    LET a == applications[p].account IN
    /\ a # Nobody /\ createdFor[a] = p
    /\ accounts[a].status = "active" /\ accounts[a].identity = "student"

AppInv ==
    /\ AccessInv(Targets) /\ AppTypeOK
    /\ OneAccountEach /\ ApprovedHasAccount /\ RejectionsStand
    /\ TranscriptWasSent /\ DocumentsHaveFiles
    /\ \A a \in AccountIds : CreatedHolds(a)
    /\ \A c \in AuthCallers : AppCallHolds(c)

\* What no step takes back.
AccountsStand ==
    \A a \in AccountIds :
        createdFor[a] # Nobody
        => /\ createdFor'[a] = createdFor[a]
           /\ accounts'[a].mail = accounts[a].mail /\ accounts'[a].status = "active"
           /\ accounts[a].identity = "student" => accounts'[a].identity = "student"

DecisionsStay ==
    \A p \in Applications :
        /\ applications[p].status = "rejected" => applications'[p].status = "rejected"
        /\ applications'[p].status = "approved"
           => \/ applications[p].status = "approved"
                 /\ applications'[p].account = applications[p].account
              \/ ApprovedHolds(p)'

MessagesHold == RejectionsStand' /\ TranscriptWasSent' /\ DocumentsHaveFiles'

AppCallsKept == \A c \in AuthCallers : calls'[c] = calls[c] \/ AppCallHolds(c)'

\* The conjuncts that read several of the tables follow from what a step does
\* to each of them (the transactions of an approval and of a rejection).
LEMMA ApplicationsFrame ==
    ASSUME AppInv, AccessInv(Targets)', AppTypeOK', AccountsStand, DecisionsStay,
           MessagesHold, AppCallsKept, OneAccountEach',
           \A a \in AccountIds : createdFor'[a] = createdFor[a] \/ CreatedHolds(a)'
    PROVE  AppInv'
<1>1. /\ applications \in [Applications ->
           [status : {"none", "pending", "approved", "rejected"},
            thread : BOOLEAN, account : AccountIds \cup {Nobody}]]
      /\ Nobody \notin Applications
  BY ApplicantAssumption DEF AppInv, AppTypeOK
<1>2. ApprovedHasAccount'
  <2> SUFFICES ASSUME NEW p \in Applications, applications'[p].status = "approved"
               PROVE  ApprovedHolds(p)'
    BY DEF ApprovedHasAccount, ApprovedHolds
  <2>1. CASE ApprovedHolds(p)'  BY <2>1
  <2>2. CASE /\ applications[p].status = "approved"
             /\ applications'[p].account = applications[p].account
    <3>1. ApprovedHolds(p) /\ applications[p].account \in AccountIds \cup {Nobody}
      BY <1>1, <2>2 DEF AppInv, ApprovedHasAccount, ApprovedHolds
    <3> QED  BY <1>1, <2>2, <3>1 DEF AccountsStand, ApprovedHolds
  <2> QED  BY <2>1, <2>2 DEF DecisionsStay
<1>3. \A a \in AccountIds : CreatedHolds(a)'
  BY DEF AppInv, AccountsStand, CreatedHolds
<1>4. ASSUME NEW c \in AuthCallers, calls'[c] = calls[c] PROVE AppCallHolds(c)'
  <2>1. AppCallHolds(c)
    BY DEF AppInv
  <2>2. calls[c].step \in {"mark", "decide"} => calls[c].step \in Deciding
    BY DEF Deciding
  <2>3. calls[c].step = "rejection" => calls[c].step \in Deciding
    BY DEF Deciding
  <2> QED  BY <1>1, <1>4, <2>1, <2>2, <2>3 DEF AppCallHolds, AccountsStand, DecisionsStay
<1>5. \A c \in AuthCallers : AppCallHolds(c)'
  BY <1>4 DEF AppCallsKept
<1> QED  BY <1>2, <1>3, <1>5 DEF AppInv, MessagesHold

\* What a table that is not written still says.
LEMMA ApplicationsUnchanged ==
    ASSUME AppInv
    PROVE  /\ UNCHANGED <<accounts, createdFor>> => AccountsStand
           /\ createdFor' = createdFor
              => /\ OneAccountEach'
                 /\ \A a \in AccountIds : createdFor'[a] = createdFor[a] \/ CreatedHolds(a)'
           /\ UNCHANGED <<applications, createdFor, accounts>> => DecisionsStay
           /\ calls' = calls => AppCallsKept
           /\ UNCHANGED <<fileVars, messageVars, applications>> => MessagesHold
<1>1. UNCHANGED <<accounts, createdFor>> => AccountsStand
  BY DEF AppInv, AccountsStand, CreatedHolds
<1>2. createdFor' = createdFor => OneAccountEach'
  BY DEF AppInv, OneAccountEach
<1>3. UNCHANGED <<applications, createdFor, accounts>> => DecisionsStay
  BY DEF DecisionsStay
<1>4. calls' = calls => AppCallsKept
  BY DEF AppCallsKept
<1>5. UNCHANGED <<fileVars, messageVars, applications>> => MessagesHold
  BY DEF AppInv, MessagesHold, fileVars, messageVars, RejectionsStand, TranscriptWasSent,
         DocumentsHaveFiles
<1> QED  BY <1>1, <1>2, <1>3, <1>4, <1>5

-----------------------------------------------------------------------------
(* Calls.                                                                  *)

\* A decision goes on to its next step.
LEMMA AppCallMade ==
    ASSUME AppInv, NEW c \in AuthCallers, NEW step \in Deciding, NEW p \in Applications,
           NEW a \in AccountIds \cup {Nobody}, AppCall(c, step, p, a)
    PROVE  /\ CallsKept(Targets)
           /\ calls'[c].step = step /\ calls'[c].acct = a /\ calls'[c].of = p
           /\ \A d \in AuthCallers \ {c} : calls'[d] = calls[d]
<1> DEFINE row == [Idle EXCEPT !.step = step, !.acct = a, !.of = p]
<1>1. step \in CallSteps /\ step \notin NamesAccount /\ step \notin NamesLasting
  BY DEF Deciding, CallSteps, NamesAccount, NamesLasting
<1>2. p \in Targets /\ {} \in SUBSET (LinkIds \cup SessionIds) /\ "none" \in CallKinds
  BY DEF Targets, CallKinds
<1>3. /\ row \in CallRows(Targets) /\ row.step = step /\ row.acct = a /\ row.of = p
  BY <1>1, <1>2 DEF Idle, CallRows
<1>4. calls' = [calls EXCEPT ![c] = row]
  BY DEF AppCall
<1> HIDE DEF row
<1>5. /\ calls' \in [AuthCallers -> CallRows(Targets)] /\ calls'[c] = row
      /\ \A d \in AuthCallers \ {c} : calls'[d] = calls[d]
  BY <1>3, <1>4 DEF AppInv, AccessInv
<1>6. CallHolds(c)'
  BY <1>1, <1>3, <1>5 DEF CallHolds
<1> QED  BY <1>3, <1>5, <1>6 DEF CallsKept

\* The steps before there is an account or a decision to speak of.
LEMMA AppCallBegins ==
    ASSUME AppInv, NEW c \in AuthCallers,
           NEW step \in {"receipt", "forum", "thread", "approve", "reject"},
           NEW p \in Applications, AppCall(c, step, p, Nobody)
    PROVE  CallsKept(Targets) /\ AppCallsKept
<1>1. step \in Deciding /\ step \notin {"mark", "decide", "rejection"}
  BY DEF Deciding
<1>2. /\ CallsKept(Targets)
      /\ calls'[c].step = step /\ calls'[c].of = p
      /\ \A d \in AuthCallers \ {c} : calls'[d] = calls[d]
  BY <1>1, AppCallMade
<1>3. AppCallHolds(c)'
  BY <1>1, <1>2 DEF AppCallHolds
<1> QED  BY <1>2, <1>3 DEF AppCallsKept

\* A call that ends, and one that has gone on to mail a link.
LEMMA AppCallEnds ==
    ASSUME AppInv, NEW c \in AuthCallers
    PROVE  /\ Return(c) => CallsKept(Targets) /\ AppCallsKept
           /\ \A a \in AccountIds \cup {Nobody}, kind \in CallKinds,
                 S \in SUBSET (LinkIds \cup SessionIds), step \in {"link", "linking", "mail"} :
                 Call(c, step, a, kind, S) => AppCallsKept
<1>1. Nobody \in Targets /\ calls \in [AuthCallers -> CallRows(Targets)] /\ AccessInv(Targets)
  BY DEF Targets, AppInv, AccessInv
<1>2. ASSUME Return(c) PROVE CallsKept(Targets) /\ AppCallsKept
  <2>1. CallsKept(Targets)
    BY <1>1, <1>2, Returning
  <2>2. /\ calls'[c] = Idle /\ Idle.step = "idle"
        /\ \A d \in AuthCallers \ {c} : calls'[d] = calls[d]
    BY <1>1, <1>2 DEF Return, Idle
  <2>3. AppCallHolds(c)'
    BY <2>2 DEF AppCallHolds, Deciding
  <2> QED  BY <2>1, <2>2, <2>3 DEF AppCallsKept
<1>3. ASSUME NEW a \in AccountIds \cup {Nobody}, NEW kind \in CallKinds,
             NEW S \in SUBSET (LinkIds \cup SessionIds), NEW step \in {"link", "linking", "mail"},
             Call(c, step, a, kind, S)
      PROVE  AppCallsKept
  <2>1. step \in CallSteps /\ step \notin Deciding
    BY DEF CallSteps, Deciding
  <2>2. /\ calls'[c].step = step
        /\ \A d \in AuthCallers \ {c} : calls'[d] = calls[d]
    BY <1>1, <1>3, <2>1, CallMade
  <2>3. AppCallHolds(c)'
    BY <2>1, <2>2 DEF AppCallHolds, Deciding
  <2> QED  BY <2>2, <2>3 DEF AppCallsKept
<1> QED  BY <1>2, <1>3
-----------------------------------------------------------------------------
(* The steps of applications.                                              *)

\* A step that writes nothing about an account but a call.
LEMMA AppQuiet ==
    ASSUME AppInv, UNCHANGED <<accounts, links, sessions, purge, createdFor>>,
           CallsKept(Targets), AppCallsKept, AppTypeOK', DecisionsStay, MessagesHold
    PROVE  AppInv'
<1>1. AccessInv(Targets) /\ purge' \subseteq AccountIds
  BY DEF AppInv, AccessInv
<1>2. Grown /\ LinksKept /\ SessionsKept
  BY <1>1, AccessUnchanged
<1>3. AccessInv(Targets)'
  BY <1>1, <1>2, AccessFrame
<1> QED  BY <1>3, ApplicationsUnchanged, ApplicationsFrame

\* The row of an application whose status or thread is written.
LEMMA ApplicationWritten ==
    ASSUME AppInv, NEW p \in Applications,
           NEW row \in [status : {"none", "pending", "approved", "rejected"},
                        thread : BOOLEAN, account : AccountIds \cup {Nobody}],
           applications' = [applications EXCEPT ![p] = row],
           applications[p].status = "rejected" => row.status = "rejected",
           row.status = "approved"
           => \/ applications[p].status = "approved" /\ row.account = applications[p].account
              \/ ApprovedHolds(p)',
           UNCHANGED <<posts, fileVars, messageVars, createdFor>>
    PROVE  /\ AppTypeOK' /\ DecisionsStay /\ MessagesHold
           /\ applications'[p] = row
<1>1. /\ applications \in [Applications ->
           [status : {"none", "pending", "approved", "rejected"},
            thread : BOOLEAN, account : AccountIds \cup {Nobody}]]
  BY DEF AppInv, AppTypeOK
<1>2. /\ applications' \in [Applications ->
           [status : {"none", "pending", "approved", "rejected"},
            thread : BOOLEAN, account : AccountIds \cup {Nobody}]]
      /\ applications'[p] = row
      /\ \A q \in Applications \ {p} : applications'[q] = applications[q]
  BY <1>1
<1>3. AppTypeOK'
  BY <1>2 DEF AppInv, AppTypeOK, fileVars, messageVars
<1>4. DecisionsStay
  BY <1>2 DEF DecisionsStay
<1>5. MessagesHold
  BY <1>2 DEF AppInv, MessagesHold, fileVars, messageVars, RejectionsStand, TranscriptWasSent,
              DocumentsHaveFiles
<1> QED  BY <1>2, <1>3, <1>4, <1>5

\* A submission is taken, mailed its receipt and put before the reviewers
\* (createPending, SetDiscordThread).
LEMMA SubmissionKeeps ==
    ASSUME AppInv, NEW c \in AuthCallers,
           (\E p \in Applications : SubmitFromWeb(c, p)) \/ Submission(c)
    PROVE  AppInv'
<1>1. /\ applications \in [Applications ->
           [status : {"none", "pending", "approved", "rejected"},
            thread : BOOLEAN, account : AccountIds \cup {Nobody}]]
      /\ AppTypeOK /\ AppCallHolds(c)
  BY DEF AppInv, AppTypeOK
<1>2. \A q : [applications EXCEPT ![q].status = "pending"]
               = [applications EXCEPT ![q] = [applications[q] EXCEPT !.status = "pending"]]
  OBVIOUS
<1>3. ASSUME NEW p \in Applications, SubmitFromWeb(c, p) PROVE AppInv'
  <2> DEFINE row == [NoApplication EXCEPT !.status = "pending"]
  <2>1. /\ row \in [status : {"none", "pending", "approved", "rejected"},
                    thread : BOOLEAN, account : AccountIds \cup {Nobody}]
        /\ row.status = "pending"
    BY DEF NoApplication
  <2>2. /\ applications[p] = NoApplication /\ NoApplication.status = "none"
        /\ applications' = [applications EXCEPT ![p] = row]
        /\ AppCall(c, "receipt", p, Nobody) /\ AddMessage(p, "note")
        /\ UNCHANGED <<posts, fileVars, delivered, createdFor, accounts, links, sessions, purge>>
    BY <1>2, <1>3 DEF SubmitFromWeb, accountRest, NoApplication
  <2> HIDE DEF row
  <2>3. /\ applications' \in [Applications ->
             [status : {"none", "pending", "approved", "rejected"},
              thread : BOOLEAN, account : AccountIds \cup {Nobody}]]
        /\ applications'[p] = row
        /\ \A q \in Applications \ {p} : applications'[q] = applications[q]
    BY <1>1, <2>1, <2>2
  <2>4. /\ transcript' \subseteq transcript \cup {<<p, "note">>}
        /\ "note" \in Messages /\ "note" \notin Outbound
    BY <2>2 DEF AddMessage, Messages, Outbound
  <2>5. AppTypeOK'
    BY <1>1, <2>2, <2>3, <2>4 DEF AppTypeOK, fileVars
  <2>6. DecisionsStay
    BY <2>1, <2>2, <2>3 DEF DecisionsStay
  <2>7. MessagesHold
    BY <2>1, <2>2, <2>3, <2>4 DEF AppInv, MessagesHold, fileVars, RejectionsStand,
                                  TranscriptWasSent, DocumentsHaveFiles
  <2>8. CallsKept(Targets) /\ AppCallsKept
    BY <2>2, AppCallBegins
  <2> QED  BY <2>2, <2>5, <2>6, <2>7, <2>8, AppQuiet
<1>4. CASE SendReceipt(c)
  <2> PICK p \in Applications : p = calls[c].of
    BY <1>1, <1>4 DEF SendReceipt, At, AppCallHolds, Deciding
  <2>1. /\ Sends(p, "receipt") /\ AddMessage(p, "receipt")
        /\ AppCall(c, "forum", p, Nobody)
        /\ UNCHANGED <<applications, posts, fileVars, createdFor, accounts, links, sessions, purge>>
    BY <1>4 DEF SendReceipt, accountRest
  <2>2. /\ "receipt" \in Messages /\ "receipt" \in Outbound /\ "receipt" # "rejection"
        /\ delivered' = delivered \cup {<<p, "receipt">>}
        /\ transcript' \subseteq transcript \cup {<<p, "receipt">>}
    BY <2>1 DEF AddMessage, Sends, Messages, Outbound
  <2>3. AppTypeOK'
    BY <1>1, <2>1, <2>2 DEF AppTypeOK, fileVars
  <2>4. MessagesHold
    BY <2>1, <2>2 DEF AppInv, MessagesHold, fileVars, RejectionsStand, TranscriptWasSent,
                      DocumentsHaveFiles
  <2>5. CallsKept(Targets) /\ AppCallsKept
    BY <2>1, AppCallBegins
  <2>6. DecisionsStay
    BY <2>1 DEF DecisionsStay
  <2> QED  BY <2>1, <2>3, <2>4, <2>5, <2>6, AppQuiet
<1>5. CASE CreateThread(c)
  <2> PICK p \in Applications : p = calls[c].of
    BY <1>1, <1>5 DEF CreateThread, At, AppCallHolds, Deciding
  <2>1. /\ posts' = posts \cup {p} /\ AppCall(c, "thread", p, Nobody)
        /\ UNCHANGED <<applications, fileVars, messageVars, createdFor,
                       accounts, links, sessions, purge>>
    BY <1>5 DEF CreateThread, accountRest
  <2>2. AppTypeOK'
    BY <1>1, <2>1 DEF AppTypeOK, fileVars, messageVars
  <2>3. CallsKept(Targets) /\ AppCallsKept
    BY <2>1, AppCallBegins
  <2>4. MessagesHold /\ DecisionsStay
    BY <2>1, ApplicationsUnchanged
  <2> QED  BY <2>1, <2>2, <2>3, <2>4, AppQuiet
<1>6. CASE SetDiscordThread(c)
  <2> PICK p \in Applications : p = calls[c].of
    BY <1>1, <1>6 DEF SetDiscordThread, At, AppCallHolds, Deciding
  <2> PICK old \in [status : {"none", "pending", "approved", "rejected"},
                    thread : BOOLEAN, account : AccountIds \cup {Nobody}] : old = applications[p]
    BY <1>1
  <2> DEFINE row == [old EXCEPT !.thread = TRUE]
  <2>1. /\ row \in [status : {"none", "pending", "approved", "rejected"},
                    thread : BOOLEAN, account : AccountIds \cup {Nobody}]
        /\ row.status = old.status /\ row.account = old.account
    OBVIOUS
  <2>2. /\ applications' = [applications EXCEPT ![p] = row] /\ Return(c)
        /\ UNCHANGED <<posts, fileVars, messageVars, createdFor, accounts, links, sessions, purge>>
    BY <1>6 DEF SetDiscordThread, accountRest
  <2> HIDE DEF row
  <2>3. AppTypeOK' /\ DecisionsStay /\ MessagesHold
    BY <2>1, <2>2, ApplicationWritten
  <2> QED  BY <2>2, <2>3, AppCallEnds, AppQuiet
<1> QED  BY <1>3, <1>4, <1>5, <1>6 DEF Submission

\* The account of an approval: the address was free, so nobody else was
\* created for the application, and the approval is its own from then on
\* (CreateApprovedAccount).
LEMMA CreationKeeps ==
    ASSUME AppInv, NEW c \in AuthCallers, NEW a \in AccountIds, CreateApprovedAccount(c, a)
    PROVE  AppInv'
<1>0. AccessInv(Targets) /\ AppTypeOK /\ AppCallHolds(c)
  BY DEF AppInv
<1> PICK p \in Applications : p = calls[c].of
  BY <1>0 DEF CreateApprovedAccount, At, AppCallHolds, Deciding
<1>1. /\ Free(a, Applicant[p])
      /\ accounts' = Created(a, "active", Applicant[p], 0)
      /\ createdFor' = [createdFor EXCEPT ![a] = p]
      /\ AppCall(c, "mark", p, a)
      /\ UNCHANGED <<applications, posts, fileVars, messageVars, links, sessions, purge>>
  BY DEF CreateApprovedAccount, AddressFree
<1>2. /\ Applicant[p] \in Addresses /\ Applicant[p] # Nobody /\ 0 \in 0..MaxPass
      /\ Nobody \notin Applications /\ accounts[a].status = "none"
      /\ \A b \in AccountIds : accounts[b].mail # Applicant[p]
  BY <1>1, ApplicantAssumption, AccountsAssumption DEF Free
<1>3. /\ Grown /\ \A b \in AccountIds \ {a} : accounts'[b] = accounts[b]
  BY <1>0, <1>1, <1>2, CreatingGrows
<1>4. accounts'[a].status = "active" /\ accounts'[a].mail = Applicant[p]
  BY <1>0, <1>1 DEF Created, NoAccount, AccessInv
<1>5. /\ createdFor'[a] = p
      /\ \A b \in AccountIds \ {a} : createdFor'[b] = createdFor[b]
      /\ createdFor' \in [AccountIds -> Applications \cup {Nobody}]
  BY <1>0, <1>1 DEF AppTypeOK
<1>6. createdFor[a] = Nobody /\ \A b \in AccountIds : createdFor[b] # p
  BY <1>2 DEF AppInv, CreatedHolds
<1>7. OneAccountEach'
  BY <1>5, <1>6 DEF AppInv, OneAccountEach
<1>8. AccountsStand
  BY <1>3, <1>5, <1>6 DEF AppInv, AccountsStand, CreatedHolds
<1>9. \A b \in AccountIds : createdFor'[b] = createdFor[b] \/ CreatedHolds(b)'
  BY <1>4, <1>5 DEF CreatedHolds
<1>10. /\ CallsKept(Targets)
       /\ calls'[c].step = "mark" /\ calls'[c].acct = a /\ calls'[c].of = p
       /\ \A d \in AuthCallers \ {c} : calls'[d] = calls[d]
  BY <1>1, AppCallMade DEF Deciding
<1>11. AppCallsKept
  <2>1. AppCallHolds(c)'
    BY <1>5, <1>10 DEF AppCallHolds
  <2> QED  BY <1>10, <2>1 DEF AppCallsKept
<1>12. AccessInv(Targets)'
  <2>1. LinksKept /\ SessionsKept /\ purge' \subseteq AccountIds
    BY <1>0, <1>1, AccessUnchanged DEF AccessInv
  <2> QED  BY <1>0, <1>3, <1>10, <2>1, AccessFrame
<1>13. AppTypeOK' /\ DecisionsStay
  BY <1>0, <1>1, <1>5 DEF AppTypeOK, fileVars, messageVars, DecisionsStay
<1>14. MessagesHold
  BY <1>1, ApplicationsUnchanged
<1> QED  BY <1>7, <1>8, <1>9, <1>11, <1>12, <1>13, <1>14, ApplicationsFrame
\* The account is a student's before the decision is recorded, and the first
\* decision on a pending application stands (MarkAccountIdentityVerified, Decide).
LEMMA ApplicationDecidedKeeps ==
    ASSUME AppInv, NEW c \in AuthCallers,
           \/ MarkAccountIdentityVerified(c) \/ DecideApproved(c)
           \/ DecideRejected(c) \/ SendRejection(c)
    PROVE  AppInv'
<1>1. /\ AccessInv(Targets) /\ AppTypeOK /\ AppCallHolds(c)
      /\ accounts \in [AccountIds -> AccountRows]
      /\ applications \in [Applications ->
           [status : {"none", "pending", "approved", "rejected"},
            thread : BOOLEAN, account : AccountIds \cup {Nobody}]]
  BY DEF AppInv, AccessInv, AppTypeOK
<1> PICK p \in Applications : p = calls[c].of
  BY <1>1 DEF MarkAccountIdentityVerified, DecideApproved, DecideRejected, SendRejection, At,
              AppCallHolds, Deciding
<1> PICK old \in [status : {"none", "pending", "approved", "rejected"},
                  thread : BOOLEAN, account : AccountIds \cup {Nobody}] : old = applications[p]
  BY <1>1
<1>2. \A status \in {"approved", "rejected"}, a \in AccountIds \cup {Nobody} :
        LET row == [old EXCEPT !.status = status, !.account = a] IN
        /\ row \in [status : {"none", "pending", "approved", "rejected"},
                    thread : BOOLEAN, account : AccountIds \cup {Nobody}]
        /\ row.status = status /\ row.account = a
        /\ Decide(p, status, a)
           => old.status = "pending" /\ applications' = [applications EXCEPT ![p] = row]
  BY <1>1 DEF Decide, Undecided
<1>3. CASE MarkAccountIdentityVerified(c)
  <2> PICK a \in AccountIds : a = calls[c].acct
    BY <1>1, <1>3 DEF MarkAccountIdentityVerified, At, AppCallHolds
  <2> PICK person \in AccountRows : person = accounts[a]
    BY <1>1
  <2>1. /\ createdFor[a] = p
        /\ accounts' = [accounts EXCEPT ![a].identity = "student"]
        /\ AppCall(c, "decide", p, a) /\ UNCHANGED <<appVars, links, sessions, purge>>
    BY <1>1, <1>3 DEF MarkAccountIdentityVerified, At, AppCallHolds, Verified
  <2> DEFINE row == [person EXCEPT !.identity = "student"]
  <2>2. /\ row \in AccountRows /\ row.identity = "student" /\ row.mail = person.mail
        /\ row.status = person.status /\ row.pass = person.pass
    BY DEF AccountRows
  <2>3. accounts' = [accounts EXCEPT ![a] = row]
    BY <2>1
  <2> HIDE DEF row
  <2>4. Grown
    BY <1>1, <2>2, <2>3, EditKeeps
  <2>5. accounts'[a] = row /\ \A b \in AccountIds \ {a} : accounts'[b] = accounts[b]
    BY <1>1, <2>3
  <2>6. UNCHANGED <<applications, posts, fileVars, messageVars, createdFor>>
    BY <2>1 DEF appVars
  <2>7. AccountsStand
    BY <2>2, <2>5, <2>6 DEF AppInv, AccountsStand, CreatedHolds
  <2>8. /\ CallsKept(Targets)
        /\ calls'[c].step = "decide" /\ calls'[c].acct = a /\ calls'[c].of = p
        /\ \A d \in AuthCallers \ {c} : calls'[d] = calls[d]
    BY <2>1, AppCallMade DEF Deciding
  <2>9. AppCallsKept
    <3>1. AppCallHolds(c)'
      BY <2>1, <2>2, <2>5, <2>6, <2>8 DEF AppCallHolds
    <3> QED  BY <2>8, <3>1 DEF AppCallsKept
  <2>10. AccessInv(Targets)'
    <3>1. LinksKept /\ SessionsKept /\ purge' \subseteq AccountIds
      BY <1>1, <2>1, AccessUnchanged DEF AccessInv
    <3> QED  BY <1>1, <2>4, <2>8, <3>1, AccessFrame
  <2>11. AppTypeOK' /\ DecisionsStay
    BY <1>1, <2>6 DEF AppTypeOK, fileVars, messageVars, DecisionsStay
  <2> QED  BY <2>6, <2>7, <2>9, <2>10, <2>11, ApplicationsUnchanged, ApplicationsFrame
<1>4. CASE DecideApproved(c)
  <2> PICK a \in AccountIds : a = calls[c].acct
    BY <1>1, <1>4 DEF DecideApproved, At, AppCallHolds
  <2>1. /\ Decide(p, "approved", a) /\ Call(c, "link", a, "set", {})
        /\ createdFor[a] = p /\ accounts[a].identity = "student"
        /\ UNCHANGED <<posts, fileVars, messageVars, createdFor, accounts, links, sessions, purge>>
    BY <1>1, <1>4 DEF DecideApproved, At, AppCallHolds, SendApprovedAccountActivation,
                      sendPasswordResetEmail, accountRest
  <2> DEFINE row == [old EXCEPT !.status = "approved", !.account = a]
  <2>2. /\ row \in [status : {"none", "pending", "approved", "rejected"},
                    thread : BOOLEAN, account : AccountIds \cup {Nobody}]
        /\ row.status = "approved" /\ row.account = a
        /\ applications' = [applications EXCEPT ![p] = row]
    <3>1. applications' = [applications EXCEPT ![p] = row]
      BY <1>1, <2>1 DEF Decide
    <3> QED  BY <3>1
  <2> HIDE DEF row
  <2>3. applications'[p] = row /\ applications[p].status = "pending"
    BY <1>1, <2>1, <2>2 DEF Decide, Undecided
  <2>4. ApprovedHolds(p)'
    <3>1. a # Nobody /\ Nobody \notin Applications
      BY AccountsAssumption, ApplicantAssumption
    <3>2. accounts[a].status = "active"
      BY <2>1, <3>1 DEF AppInv, CreatedHolds
    <3> QED  BY <2>1, <2>2, <2>3, <3>1, <3>2 DEF ApprovedHolds
  <2>5. AppTypeOK' /\ DecisionsStay /\ MessagesHold
    BY <2>1, <2>2, <2>3, <2>4, ApplicationWritten
  <2>6. CallsKept(Targets) /\ AppCallsKept
    <3>1. /\ Nobody \in Targets /\ {} \in SUBSET (LinkIds \cup SessionIds)
          /\ "link" \in CallSteps /\ "set" \in CallKinds /\ "set" \in LinkKinds
          /\ "link" \notin NamesLasting
      BY DEF Targets, CallSteps, CallKinds, LinkKinds, NamesLasting
    <3>2. CallsKept(Targets)
      BY <1>1, <2>1, <3>1, Calling
    <3> QED  BY <2>1, <3>1, <3>2, AppCallEnds
  <2> QED  BY <2>1, <2>5, <2>6, AppQuiet
<1>5. CASE DecideRejected(c)
  <2>1. /\ Decide(p, "rejected", Nobody) /\ AppCall(c, "rejection", p, Nobody)
        /\ UNCHANGED <<posts, fileVars, messageVars, createdFor, accounts, links, sessions, purge>>
    BY <1>5 DEF DecideRejected, accountRest
  <2> DEFINE row == [old EXCEPT !.status = "rejected", !.account = Nobody]
  <2>2. /\ row \in [status : {"none", "pending", "approved", "rejected"},
                    thread : BOOLEAN, account : AccountIds \cup {Nobody}]
        /\ row.status = "rejected"
        /\ applications' = [applications EXCEPT ![p] = row]
    BY <1>2, <2>1
  <2> HIDE DEF row
  <2>3. AppTypeOK' /\ DecisionsStay /\ MessagesHold /\ applications'[p] = row
    BY <2>1, <2>2, ApplicationWritten
  <2>4. /\ CallsKept(Targets)
        /\ calls'[c].step = "rejection" /\ calls'[c].of = p
        /\ \A d \in AuthCallers \ {c} : calls'[d] = calls[d]
    BY <2>1, AppCallMade DEF Deciding
  <2>5. AppCallsKept
    <3>1. AppCallHolds(c)'
      BY <2>2, <2>3, <2>4 DEF AppCallHolds
    <3> QED  BY <2>4, <3>1 DEF AppCallsKept
  <2> QED  BY <2>1, <2>3, <2>4, <2>5, AppQuiet
<1>6. CASE SendRejection(c)
  <2>1. /\ Sends(p, "rejection") /\ AddMessage(p, "rejection") /\ Return(c)
        /\ applications[p].status = "rejected"
        /\ UNCHANGED <<applications, posts, fileVars, createdFor, accounts, links, sessions, purge>>
    BY <1>1, <1>6 DEF SendRejection, At, AppCallHolds, accountRest
  <2>2. /\ "rejection" \in Messages /\ "rejection" \in Outbound
        /\ delivered' = delivered \cup {<<p, "rejection">>}
        /\ transcript' \subseteq transcript \cup {<<p, "rejection">>}
    BY <2>1 DEF AddMessage, Sends, Messages, Outbound
  <2>3. AppTypeOK'
    BY <1>1, <2>1, <2>2 DEF AppTypeOK, fileVars
  <2>4. MessagesHold
    BY <2>1, <2>2 DEF AppInv, MessagesHold, fileVars, RejectionsStand, TranscriptWasSent,
                      DocumentsHaveFiles
  <2>5. DecisionsStay
    BY <2>1 DEF DecisionsStay
  <2> QED  BY <2>1, <2>3, <2>4, <2>5, AppCallEnds, AppQuiet
<1> QED  BY <1>3, <1>4, <1>5, <1>6

\* Approve and Reject read the application and do nothing else yet.
LEMMA ReachingKeeps ==
    ASSUME AppInv, NEW c \in AuthCallers, NEW p \in Applications, Approve(c, p) \/ Reject(c, p)
    PROVE  AppInv'
<1>1. /\ AppCall(c, "approve", p, Nobody) \/ AppCall(c, "reject", p, Nobody)
      /\ UNCHANGED <<applications, posts, fileVars, messageVars, createdFor>>
      /\ UNCHANGED <<accounts, links, sessions, purge>>
  BY DEF Approve, Reject, appVars, accountRest
<1>2. CallsKept(Targets) /\ AppCallsKept
  BY <1>1, AppCallBegins
<1>3. AppTypeOK'
  BY <1>1 DEF AppInv, AppTypeOK, fileVars, messageVars
<1>4. DecisionsStay /\ MessagesHold
  BY <1>1, ApplicationsUnchanged
<1> QED  BY <1>1, <1>2, <1>3, <1>4, AppQuiet

\* Mails, answers and files (HandleInboundReply, ReplyByDiscord,
\* storeAttachments).
LEMMA ConversationKeeps ==
    ASSUME AppInv, NEW p \in Applications, Conversation(p)
    PROVE  AppInv'
<1>1. UNCHANGED <<applications, posts, createdFor, accounts, links, sessions, calls, purge>>
  BY DEF Conversation, HandleInboundReply, ReplyByDiscord, StoreAttachment, AddDocument,
         accountVars
<1>2. CallsKept(Targets) /\ AppCallsKept
  BY <1>1, AccessUnchanged, ApplicationsUnchanged DEF AppInv
<1>3. DecisionsStay
  BY <1>1, ApplicationsUnchanged
<1>4. AppTypeOK' /\ MessagesHold
  <2>1. CASE HandleInboundReply(p)
    <3>1. /\ transcript' = transcript \cup {<<p, "reply">>}
          /\ "reply" \in Messages /\ "reply" \notin Outbound
          /\ UNCHANGED <<fileVars, delivered>>
      BY <2>1 DEF HandleInboundReply, Messages, Outbound
    <3> QED  BY <1>1, <3>1 DEF AppInv, AppTypeOK, fileVars, MessagesHold, RejectionsStand,
                               TranscriptWasSent, DocumentsHaveFiles
  <2>2. CASE ReplyByDiscord(p)
    <3>1. /\ "correction" \in Messages /\ "correction" \in Outbound
          /\ delivered' = delivered \cup {<<p, "correction">>}
          /\ transcript' \subseteq transcript \cup {<<p, "correction">>}
          /\ UNCHANGED fileVars
      BY <2>2 DEF ReplyByDiscord, AddMessage, Sends, Messages, Outbound
    <3> QED  BY <1>1, <3>1 DEF AppInv, AppTypeOK, fileVars, MessagesHold, RejectionsStand,
                               TranscriptWasSent, DocumentsHaveFiles
  <2>3. ASSUME NEW f \in Uploads, StoreAttachment(p, f) \/ AddDocument(p, f)
        PROVE  AppTypeOK' /\ MessagesHold
    <3>1. /\ \/ stored' = stored \cup {<<p, f>>} /\ rows' = rows
             \/ stored' = stored /\ rows' = rows \cup {<<p, f>>} /\ <<p, f>> \in stored
          /\ UNCHANGED messageVars
      BY <2>3 DEF StoreAttachment, AddDocument, PutFile
    <3> QED  BY <1>1, <3>1 DEF AppInv, AppTypeOK, messageVars, MessagesHold, RejectionsStand,
                               TranscriptWasSent, DocumentsHaveFiles
  <2> QED  BY <2>1, <2>2, <2>3 DEF Conversation
<1> QED  BY <1>1, <1>2, <1>3, <1>4, AppQuiet

\* Links are mailed and followed and others register while an approval is
\* under way: no account it created loses its address or its identity.
LEMMA MeanwhileKeeps ==
    ASSUME AppInv, AccountsMeanwhile
    PROVE  AppInv'
<1>1. /\ AccessInv(Targets) /\ Nobody \in Targets
      /\ calls \in [AuthCallers -> CallRows(Targets)]
      /\ accounts \in [AccountIds -> AccountRows]
  BY DEF AppInv, AccessInv, Targets
<1>2. UNCHANGED <<applications, posts, fileVars, messageVars, createdFor>>
  BY DEF AccountsMeanwhile, appVars
<1>3. AppTypeOK' /\ DecisionsStay
  BY <1>2 DEF AppInv, AppTypeOK, fileVars, messageVars, DecisionsStay
<1>4. AccessInv(Targets)' /\ AccountsStand /\ AppCallsKept => AppInv'
  BY <1>2, <1>3, ApplicationsUnchanged, ApplicationsFrame
<1>5. ASSUME NEW c \in AuthCallers, LinkSteps(c) \/ CallFails(c) PROVE AppInv'
  <2>1. AccessInv(Targets)'
    BY <1>1, <1>5, LinkReadKeeps, LinksMailed DEF LinkSteps
  <2>2. AccountsStand
    <3>1. accounts' = accounts
      BY <1>5 DEF LinkSteps, CloseOpenLinks, CreateChallenge, EnqueueLink, CallFails
    <3> QED  BY <1>2, <3>1, ApplicationsUnchanged
  <2>3. AppCallsKept
    <3>1. /\ calls[c].acct \in AccountIds \cup {Nobody} /\ calls[c].kind \in CallKinds
          /\ \A k : OpenLinks(calls[c].acct, k) \in SUBSET (LinkIds \cup SessionIds)
          /\ \A l \in FreeLinks : {l} \in SUBSET (LinkIds \cup SessionIds)
      BY <1>1 DEF CallRows, OpenLinks, FreeLinks
    <3>2. CASE CloseOpenLinks(c)
      BY <3>1, <3>2, AppCallEnds DEF CloseOpenLinks
    <3>3. CASE CreateChallenge(c)
      <4>1. PICK l \in FreeLinks : Call(c, "mail", calls[c].acct, calls[c].kind, {l})
        BY <3>3 DEF CreateChallenge
      <4> QED  BY <3>1, <4>1, AppCallEnds
    <3>4. CASE EnqueueLink(c) \/ CallFails(c)
      BY <3>4, AppCallEnds DEF EnqueueLink, CallFails
    <3> QED  BY <1>5, <3>2, <3>3, <3>4 DEF LinkSteps
  <2> QED  BY <1>4, <2>1, <2>2, <2>3
<1>6. ASSUME NEW l \in LinkIds, ConfirmPasswordReset(l) PROVE AppInv'
  <2>1. AccessInv(Targets)' /\ AppCallsKept
    BY <1>1, <1>6, FollowingKeeps, ApplicationsUnchanged DEF FollowLink, ConfirmPasswordReset
  <2>2. PICK a \in AccountIds : a = links[l].acct
    BY <1>1, <1>6 DEF ConfirmPasswordReset, ConsumePasswordResetChallenge, Usable, AccessInv,
                      LinkHolds
  <2>3. PICK row \in AccountRows : row = accounts[a]
    BY <1>1
  <2> DEFINE new(identity) == [row EXCEPT !.pass = row.pass + 1, !.status = "active",
                                          !.identity = identity]
  <2>4. \E identity \in {"student", row.identity} :
          accounts' = [accounts EXCEPT ![a] = new(identity)]
    BY <1>1, <1>6, <2>2, <2>3 DEF ConfirmPasswordReset, ConsumePasswordResetChallenge
  <2>5. PICK identity \in {"student", row.identity} :
          accounts' = [accounts EXCEPT ![a] = new(identity)]
    BY <2>4
  <2>6. /\ new(identity).mail = row.mail /\ new(identity).status = "active"
        /\ new(identity).identity = identity
    BY DEF AccountRows
  <2>7. /\ accounts'[a] = new(identity)
        /\ \A b \in AccountIds \ {a} : accounts'[b] = accounts[b]
    BY <1>1, <2>5
  <2> HIDE DEF new
  <2>8. AccountsStand
    BY <1>2, <2>3, <2>6, <2>7 DEF AppInv, AccountsStand, CreatedHolds
  <2> QED  BY <1>4, <2>1, <2>8
<1>7. ASSUME NEW c \in AuthCallers, NEW a \in AccountIds, NEW m \in Addresses, Register(c, a, m)
      PROVE  AppInv'
  <2>1. AccessInv(Targets)'
    BY <1>1, <1>7, CreationsKeep
  <2>2. /\ accounts[a].status = "none" /\ \A b \in AccountIds \ {a} : accounts'[b] = accounts[b]
    BY <1>1, <1>7 DEF Register, Free, Created
  <2>3. AccountsStand
    BY <1>2, <2>2 DEF AppInv, AccountsStand, CreatedHolds
  <2>4. AppCallsKept
    <3>1. /\ Call(c, "link", a, "activate", {}) /\ "activate" \in CallKinds
          /\ {} \in SUBSET (LinkIds \cup SessionIds)
      BY <1>7 DEF Register, CallKinds, LinkKinds
    <3> QED  BY <3>1, AppCallEnds
  <2> QED  BY <1>4, <2>1, <2>3, <2>4
<1> QED  BY <1>5, <1>6, <1>7 DEF AccountsMeanwhile

\* Before the first submission.
LEMMA ApplicationsBegin == AccountsInit /\ AppInit => AppInv
<1> SUFFICES ASSUME AccountsInit, AppInit PROVE AppInv
  OBVIOUS
<1>1. AccessInv(Targets)
  <2>1. AccessInv({Nobody})
    BY AccountsBegin
  <2>2. CallRows({Nobody}) \subseteq CallRows(Targets)
    BY DEF CallRows, Targets
  <2>3. calls \in [AuthCallers -> CallRows(Targets)]
    BY <2>1, <2>2 DEF AccessInv
  <2> QED  BY <2>1, <2>3 DEF AccessInv
<1>2. \A c \in AuthCallers : AppCallHolds(c)
  BY DEF AccountsInit, Idle, AppCallHolds, Deciding
<1>3. AppTypeOK
  BY DEF AppInit, AppTypeOK, NoApplication
<1>4. OneAccountEach /\ \A a \in AccountIds : CreatedHolds(a)
  BY DEF AppInit, OneAccountEach, CreatedHolds
<1>5. ApprovedHasAccount
  BY DEF AppInit, NoApplication, ApprovedHasAccount
<1>6. RejectionsStand /\ TranscriptWasSent /\ DocumentsHaveFiles
  BY DEF AppInit, RejectionsStand, TranscriptWasSent, DocumentsHaveFiles
<1> QED  BY <1>1, <1>2, <1>3, <1>4, <1>5, <1>6 DEF AppInv

\* However two decisions on an application and their failing steps overlap, it
\* has one account, an approved one that of an active student, a rejection that
\* was mailed stands, the transcript was sent and documents have their files
\* (Approve, Reject, Decide, storeAttachments).
THEOREM ApplicationsAreDecidedOnce == AppSpec => []ApplicationsHold
<1>1. AccountsInit /\ AppInit => AppInv
  BY ApplicationsBegin
<1>2. AppInv /\ AppSteps => AppInv'
  <2> SUFFICES ASSUME AppInv, AppSteps PROVE AppInv'
    OBVIOUS
  <2>1. ASSUME NEW c \in AuthCallers, NEW p \in Applications,
               SubmitFromWeb(c, p) \/ Approve(c, p) \/ Reject(c, p)
        PROVE  AppInv'
    BY <2>1, SubmissionKeeps, ReachingKeeps
  <2>2. ASSUME NEW c \in AuthCallers, Submission(c) \/ Decisions(c) PROVE AppInv'
    BY <2>2, SubmissionKeeps, CreationKeeps, ApplicationDecidedKeeps
       DEF Decisions
  <2>3. ASSUME NEW p \in Applications, Conversation(p) PROVE AppInv'
    BY <2>3, ConversationKeeps
  <2> QED  BY <2>1, <2>2, <2>3 DEF AppSteps
<1>3. AppInv /\ UNCHANGED <<accountVars, appVars>> => AppInv'
  <2> SUFFICES ASSUME AppInv, UNCHANGED <<accountVars, appVars>> PROVE AppInv'
    OBVIOUS
  <2>1. /\ UNCHANGED <<accounts, links, sessions, purge, createdFor, calls>>
        /\ UNCHANGED <<applications, posts, fileVars, messageVars>>
    BY DEF accountVars, appVars
  <2>2. CallsKept(Targets) /\ AppCallsKept
    BY <2>1, AccessUnchanged, ApplicationsUnchanged DEF AppInv
  <2>3. AppTypeOK'
    BY <2>1 DEF AppInv, AppTypeOK, fileVars, messageVars
  <2> QED  BY <2>1, <2>2, <2>3, ApplicationsUnchanged, AppQuiet
<1>4. AppInv /\ [AppNext]_<<accountVars, appVars>> => AppInv'
  BY <1>2, <1>3, MeanwhileKeeps DEF AppNext
<1>5. AppInv => ApplicationsHold
  BY DEF AppInv, ApplicationsHold
<1> QED  BY <1>1, <1>4, <1>5, PTL DEF AppSpec
=============================================================================

------------------------------- MODULE Accounts -------------------------------
(***************************************************************************)
(* Accounts, their passwords, sessions and mailed links                    *)
(* (internal/auth, the account pages of internal/admin, and the purge of   *)
(* the notification worker).                                               *)
(*                                                                         *)
(* A link is mailed in three database steps that other requests interleave *)
(* with; a log-in and a change of password check the password before they  *)
(* write; the purge selects accounts before it deletes them.  Tokens are   *)
(* the numbers of links and sessions, a password is the number of times it *)
(* was set (0: random, known to nobody), and time is the expiry of links   *)
(* and sessions at any moment.  A request refused by a rate limit, by CSRF *)
(* or by Turnstile changes nothing and is left out; administrators present *)
(* a valid MFA code (AdminMFA).                                            *)
(***************************************************************************)
EXTENDS Naturals, FiniteSets

CONSTANTS
    AccountIds,     \* usernames
    Addresses,      \* contact e-mail addresses
    Root,           \* the administrator created at installation
    Nobody,         \* no account, no address
    LinkIds,        \* bound on the links ever mailed
    SessionIds,     \* bound on the sessions ever opened
    AuthCallers,    \* requests the API handles at a time
    MaxPass         \* bound on the passwords an account ever has

ASSUME AccountsAssumption ==
    /\ Root \in AccountIds
    /\ Nobody \notin AccountIds \cup Addresses
    /\ LinkIds \subseteq Nat /\ SessionIds \subseteq Nat
    /\ SessionIds # {}
    /\ MaxPass \in Nat \ {0}

VARIABLES
    accounts,       \* rows of accounts with their roles
    links,          \* rows of password_reset_ and email_verification_challenges
    sessions,       \* rows of account_sessions
    calls,          \* requests between two of their database steps
    purge           \* accounts the running purge selected

accountVars == <<accounts, links, sessions, calls, purge>>

NoAccount == [status |-> "none", identity |-> "temporary", mail |-> Nobody,
              pass |-> 0, verified |-> FALSE, roles |-> {}]
NoLink == [acct |-> Nobody, kind |-> "none", state |-> "none", fresh |-> FALSE,
           mailed |-> FALSE]
NoSession == [acct |-> Nobody, live |-> FALSE]
Idle == [step |-> "idle", acct |-> Nobody, kind |-> "none", seen |-> {},
         of |-> Nobody]

LinkKinds == {"activate", "set", "verify"}
CallSteps == {"idle", "link", "linking", "mail", "session", "change", "role",
              "admin", "moderator", "receipt", "forum", "thread", "approve",
              "mark", "decide", "reject", "rejection"}

AccountsTypeOK ==
    /\ accounts \in [AccountIds ->
           [status : {"none", "pending", "active", "suspended"},
            identity : {"temporary", "student", "senior"},
            mail : Addresses \cup {Nobody}, pass : 0..MaxPass,
            verified : BOOLEAN,
            roles : SUBSET {"admin", "service", "admissions_moderator"}]]
    /\ links \in [LinkIds ->
           [acct : AccountIds \cup {Nobody}, kind : LinkKinds \cup {"none"},
            state : {"none", "open", "used", "closed"}, fresh : BOOLEAN,
            mailed : BOOLEAN]]
    /\ sessions \in [SessionIds ->
           [acct : AccountIds \cup {Nobody}, live : BOOLEAN]]
    /\ \A c \in AuthCallers :
           /\ calls[c].step \in CallSteps
           /\ calls[c].acct \in AccountIds \cup {Nobody}
           /\ calls[c].kind \in LinkKinds \cup {"none", "plain", "staff"}
           /\ calls[c].seen \subseteq LinkIds \cup SessionIds
    /\ purge \subseteq AccountIds

-----------------------------------------------------------------------------
(* Reads.                                                                  *)

SameTable(k, j) == (k = "verify") = (j = "verify")

OpenLinks(a, k) == {l \in LinkIds : /\ links[l].acct = a
                                    /\ links[l].state = "open"
                                    /\ SameTable(links[l].kind, k)}

FreeLinks == {l \in LinkIds : links[l] = NoLink}
FreeSessions == {s \in SessionIds : sessions[s] = NoSession}
SessionsOf(a) == {s \in SessionIds : sessions[s].acct = a}

\* CreateAccount and CreatePendingAccount meet the unique indexes.
Free(a, m) ==
    /\ accounts[a].status = "none"
    /\ m = Nobody \/ \A b \in AccountIds : accounts[b].mail # m

FindActiveSession(s) == /\ sessions[s].live
                        /\ accounts[sessions[s].acct].status = "active"

ListActiveSessions(a) == {s \in SessionsOf(a) : sessions[s].live}

\* The account of a request, from its session.
Authenticate(s, a) == FindActiveSession(s) /\ sessions[s].acct = a

Authenticated(a) == \E s \in ListActiveSessions(a) : Authenticate(s, a)

IsAdmin(a) == "admin" \in accounts[a].roles

RequireAdmin(x) == IsAdmin(x) /\ Authenticated(x)

listUsers(x) == IF RequireAdmin(x)
                THEN {a \in AccountIds : accounts[a].status # "none"} ELSE {}

-----------------------------------------------------------------------------
(* Writes.                                                                 *)

Created(a, status, m, p) ==
    [accounts EXCEPT ![a] =
        [NoAccount EXCEPT !.status = status, !.mail = m, !.pass = p]]

Ended(S) == [s \in SessionIds |->
                 IF s \in S THEN [sessions[s] EXCEPT !.live = FALSE]
                 ELSE sessions[s]]

Replaced(S, l, new) ==
    [k \in LinkIds |-> IF k = l THEN new
                       ELSE IF k \in S /\ links[k].state = "open"
                            THEN [links[k] EXCEPT !.state = "closed"]
                       ELSE links[k]]

Call(c, step, a, kind, S) ==
    calls' = [calls EXCEPT ![c] = [Idle EXCEPT !.step = step, !.acct = a,
                                   !.kind = kind, !.seen = S]]

Return(c) == calls' = [calls EXCEPT ![c] = Idle]

-----------------------------------------------------------------------------
(* Mailing a link: close the open ones and insert the new one in one       *)
(* transaction, then put the message into the outbox.  The first statement *)
(* sees the rows committed before it, so two requests at once can each     *)
(* insert a link the other does not close.                                 *)

CloseOpenLinks(c) ==
    /\ calls[c].step = "link"
    /\ Call(c, "linking", calls[c].acct, calls[c].kind,
            OpenLinks(calls[c].acct, calls[c].kind))
    /\ UNCHANGED <<accounts, links, sessions, purge>>

CreateChallenge(c) ==
    /\ calls[c].step = "linking"
    /\ accounts[calls[c].acct].status # "none"
    /\ \E l \in FreeLinks :
        /\ l = CHOOSE k \in FreeLinks : \A j \in FreeLinks : k <= j
        /\ links' = Replaced(calls[c].seen, l,
                [NoLink EXCEPT !.acct = calls[c].acct, !.kind = calls[c].kind,
                               !.state = "open", !.fresh = TRUE])
        /\ Call(c, "mail", calls[c].acct, calls[c].kind, {l})
    /\ UNCHANGED <<accounts, sessions, purge>>

EnqueueLink(c) ==
    /\ calls[c].step = "mail"
    /\ links' = [l \in LinkIds |->
           IF l \in calls[c].seen /\ links[l] # NoLink
           THEN [links[l] EXCEPT !.mailed = TRUE] ELSE links[l]]
    /\ Return(c)
    /\ UNCHANGED <<accounts, sessions, purge>>

\* An error or a crash ends a request between two of its steps.
CallFails(c) ==
    /\ calls[c].step # "idle"
    /\ Return(c)
    /\ UNCHANGED <<accounts, links, sessions, purge>>

-----------------------------------------------------------------------------
(* Requests for links.                                                     *)

Register(c, a, m) ==
    /\ calls[c] = Idle /\ m # Nobody /\ Free(a, m)
    /\ accounts' = Created(a, "pending", m, 0)
    /\ Call(c, "link", a, "activate", {})
    /\ UNCHANGED <<links, sessions, purge>>

sendPasswordResetEmail(c, a) == Call(c, "link", a, "set", {})

LookupAccountIDByEmailHashes(m) == {a \in AccountIds : accounts[a].mail = m}

\* The answer is the same whether or not the address has an active account.
RequestPasswordReset(c, m) ==
    /\ calls[c] = Idle
    /\ \E a \in LookupAccountIDByEmailHashes(m) :
           accounts[a].status = "active" /\ sendPasswordResetEmail(c, a)
    /\ UNCHANGED <<accounts, links, sessions, purge>>

ResetTarget(a) == accounts[a].status # "none"

ResetPassword(c, x, a) ==
    /\ calls[c] = Idle /\ RequireAdmin(x)
    /\ ResetTarget(a)
    /\ sendPasswordResetEmail(c, a)
    /\ UNCHANGED <<accounts, links, sessions, purge>>

AdminResendActivation(c, a) ==
    /\ accounts[a].status = "pending"
    /\ Call(c, "link", a, "activate", {})

ResendActivation(c, x, a) ==
    /\ calls[c] = Idle /\ RequireAdmin(x)
    /\ AdminResendActivation(c, a)
    /\ UNCHANGED <<accounts, links, sessions, purge>>

\* By the account itself or by an administrator, who may name any account.
ResendEmailVerification(c, a) ==
    /\ calls[c] = Idle
    /\ Authenticated(a) \/ \E x \in AccountIds : a \in listUsers(x)
    /\ Call(c, "link", a, "verify", {})
    /\ UNCHANGED <<accounts, links, sessions, purge>>

-----------------------------------------------------------------------------
(* Following links.                                                        *)

\* The status an account must have for a link of kind k to set its password.
SetsPasswordOf(k) == IF k = "activate" THEN "pending" ELSE "active"

Usable(l) == /\ links[l].state = "open"
             /\ links[l].fresh /\ links[l].mailed

Used(l) == [links EXCEPT ![l].state = "used"]

\* A faulty variant of EndedByReset: the sessions stay.
EndedByNothing(a) == {}

EndedByReset(a) == SessionsOf(a)

ConsumePasswordResetChallenge(l, a) ==
    /\ Usable(l) /\ links[l].kind # "verify"
    /\ accounts[a].status = SetsPasswordOf(links[l].kind)
    /\ accounts[a].pass < MaxPass
    /\ links' = Used(l)
    /\ accounts' = [accounts EXCEPT
           ![a].pass = @ + 1,
           ![a].status = "active",
           ![a].identity = IF links[l].kind = "activate" THEN "student" ELSE @]
    /\ sessions' = Ended(EndedByReset(a))

ConfirmPasswordReset(l) ==
    /\ ConsumePasswordResetChallenge(l, links[l].acct)
    /\ UNCHANGED <<calls, purge>>

ConsumeEmailVerificationToken(l, a) ==
    /\ Usable(l) /\ links[l].kind = "verify"
    /\ links' = Used(l)
    /\ accounts' = IF accounts[a].status = "active"
                   THEN [accounts EXCEPT ![a].verified = TRUE] ELSE accounts

\* The link of the mail; a page of the account itself checks the owner too.
ConfirmEmailVerification(l) ==
    /\ ConsumeEmailVerificationToken(l, links[l].acct)
    /\ UNCHANGED <<sessions, calls, purge>>

LinkExpires(l) ==
    /\ links[l].fresh
    /\ links' = [links EXCEPT ![l].fresh = FALSE]
    /\ UNCHANGED <<accounts, sessions, calls, purge>>

-----------------------------------------------------------------------------
(* Sessions.                                                               *)

Login(c, a) ==
    /\ calls[c] = Idle
    /\ accounts[a].status = "active" /\ accounts[a].pass > 0
    /\ Call(c, "session", a, "none", {})
    /\ UNCHANGED <<accounts, links, sessions, purge>>

CreateSession(c) ==
    /\ calls[c].step = "session"
    /\ \E s \in FreeSessions :
        /\ s = CHOOSE r \in FreeSessions : \A j \in FreeSessions : r <= j
        /\ sessions' = [sessions EXCEPT ![s] = [acct |-> calls[c].acct, live |-> TRUE]]
    /\ Return(c)
    /\ UNCHANGED <<accounts, links, purge>>

\* The current password is compared with the hash read before the update.
ChangePassword(c, s, a) ==
    /\ calls[c] = Idle /\ accounts[a].pass > 0
    /\ Call(c, "change", a, "none", {s})

changePassword(c, s) ==
    /\ \E a \in AccountIds : Authenticate(s, a) /\ ChangePassword(c, s, a)
    /\ UNCHANGED <<accounts, links, sessions, purge>>

UpdatePasswordForAccount(a, keep) ==
    /\ accounts[a].status = "active" /\ accounts[a].pass < MaxPass
    /\ accounts' = [accounts EXCEPT ![a].pass = @ + 1]
    /\ sessions' = Ended(SessionsOf(a) \ keep)

UpdatePassword(c) ==
    /\ calls[c].step = "change"
    /\ UpdatePasswordForAccount(calls[c].acct, calls[c].seen)
    /\ Return(c)
    /\ UNCHANGED <<links, purge>>

RevokeAccountSession(a, t) ==
    /\ t \in ListActiveSessions(a)
    /\ sessions' = Ended({t})

\* Another session of the same account; its own is ended by logging out.
RevokeSession(s, a, t) == t # s /\ RevokeAccountSession(a, t)

revokeSession(s, t) ==
    /\ \E a \in AccountIds : Authenticate(s, a) /\ RevokeSession(s, a, t)
    /\ UNCHANGED <<accounts, links, calls, purge>>

RevokeOtherAccountSessions(a, s) == sessions' = Ended(SessionsOf(a) \ {s})

revokeOtherSessions(s) ==
    /\ \E a \in AccountIds : Authenticate(s, a) /\ RevokeOtherAccountSessions(a, s)
    /\ UNCHANGED <<accounts, links, calls, purge>>

logout(s) ==
    /\ \E a \in AccountIds : Authenticate(s, a)
    /\ sessions' = Ended({s})
    /\ UNCHANGED <<accounts, links, calls, purge>>

-----------------------------------------------------------------------------
(* Administration.                                                         *)

EndedBySuspension(a) == SessionsOf(a)

suspendAccount(a) ==
    /\ ~IsAdmin(a) /\ accounts[a].status = "active"
    /\ accounts' = [accounts EXCEPT ![a].status = "suspended"]
    /\ sessions' = Ended(EndedBySuspension(a))

SuspendUser(x, a) ==
    /\ RequireAdmin(x) /\ a # x
    /\ suspendAccount(a)
    /\ UNCHANGED <<links, calls, purge>>

reinstateAccount(a) ==
    /\ accounts[a].status = "suspended"
    /\ accounts' = [accounts EXCEPT ![a].status = "active"]

ReinstateUser(x, a) ==
    /\ RequireAdmin(x) /\ reinstateAccount(a)
    /\ UNCHANGED <<links, sessions, calls, purge>>

forceLogoutAccount(a) == sessions' = Ended(SessionsOf(a))

ForceLogoutUser(x, a) ==
    /\ a \in listUsers(x) /\ forceLogoutAccount(a)
    /\ UNCHANGED <<accounts, links, calls, purge>>

setAdmissionsModeratorRole(a, grant) ==
    accounts' = [accounts EXCEPT ![a].roles =
        IF grant THEN @ \cup {"admissions_moderator"}
                 ELSE @ \ {"admissions_moderator"}]

SetAdmissionsModerator(x, a, grant) ==
    /\ a \in listUsers(x) /\ setAdmissionsModeratorRole(a, grant)
    /\ UNCHANGED <<links, sessions, calls, purge>>

UpdateUser(x, a, identity, m) ==
    /\ a \in listUsers(x)
    /\ m = accounts[a].mail \/ LookupAccountIDByEmailHashes(m) = {}
    /\ accounts' = [accounts EXCEPT ![a].identity = identity, ![a].mail = m]
    /\ UNCHANGED <<links, sessions, calls, purge>>

CreateInvitedUser(c, x, a, m) ==
    /\ calls[c] = Idle /\ RequireAdmin(x) /\ m # Nobody /\ Free(a, m)
    /\ accounts' = Created(a, "active", m, 0)
    /\ sendPasswordResetEmail(c, a)
    /\ UNCHANGED <<links, sessions, purge>>

\* A bot: the account, its role and token, and the administrator role if asked.
CreateServiceUser(c, x, a, kind) ==
    /\ calls[c] = Idle /\ RequireAdmin(x) /\ Free(a, Nobody)
    /\ accounts' = Created(a, "active", Nobody, 0)
    /\ Call(c, "role", a, kind, {})
    /\ UNCHANGED <<links, sessions, purge>>

GrantRole(a, r) == accounts' = [accounts EXCEPT ![a].roles = @ \cup {r}]

GrantServiceRole(c) ==
    /\ calls[c].step = "role"
    /\ GrantRole(calls[c].acct, "service")
    /\ IF calls[c].kind = "staff"
       THEN Call(c, "admin", calls[c].acct, "none", {}) ELSE Return(c)
    /\ UNCHANGED <<links, sessions, purge>>

GrantAdmin(c) ==
    /\ calls[c].step = "admin"
    /\ GrantRole(calls[c].acct, "admin")
    /\ Return(c)
    /\ UNCHANGED <<links, sessions, purge>>

CreatePasswordUser(c, x, a, kind) ==
    /\ calls[c] = Idle /\ RequireAdmin(x) /\ Free(a, Nobody)
    /\ accounts' = Created(a, "active", Nobody, 1)
    /\ IF kind = "staff" THEN Call(c, "moderator", a, kind, {})
                         ELSE UNCHANGED calls
    /\ UNCHANGED <<links, sessions, purge>>

GrantModerator(c) ==
    /\ calls[c].step = "moderator"
    /\ GrantRole(calls[c].acct, "admissions_moderator")
    /\ Return(c)
    /\ UNCHANGED <<links, sessions, purge>>

-----------------------------------------------------------------------------
(* The purge of accounts whose activation link expired.                    *)

ExpiredActivation(a) == \E l \in LinkIds : /\ links[l].acct = a
                                           /\ links[l].kind = "activate"
                                           /\ links[l].state = "open"
                                           /\ ~links[l].fresh

PurgeSelects ==
    /\ purge = {}
    /\ purge' = {a \in AccountIds : /\ accounts[a].status = "pending"
                                    /\ ExpiredActivation(a)}
    /\ purge' # {}
    /\ UNCHANGED <<accounts, links, sessions, calls>>

Deletable == {a \in purge : accounts[a].status = "pending"}

\* Rows of other tables that refer to the account keep it from being deleted.
Referenced(a) ==
    \/ accounts[a].roles # {}
    \/ \E l \in LinkIds : links[l].acct = a /\ links[l].kind = "verify"
    \/ SessionsOf(a) # {}

\* The links and queued messages of the selected accounts go as well.
PurgeDeletes ==
    /\ purge # {} /\ \A a \in Deletable : ~Referenced(a)
    /\ accounts' = [a \in AccountIds |->
                        IF a \in Deletable THEN NoAccount ELSE accounts[a]]
    /\ links' = [l \in LinkIds |->
                     IF links[l].acct \in purge /\ links[l].kind # "verify"
                     THEN [NoLink EXCEPT !.state = "closed"] ELSE links[l]]
    /\ purge' = {}
    /\ UNCHANGED <<sessions, calls>>

PurgeFails ==
    /\ purge # {}
    /\ purge' = {}
    /\ UNCHANGED <<accounts, links, sessions, calls>>

-----------------------------------------------------------------------------
AccountsInit ==
    /\ accounts = [a \in AccountIds |->
           IF a = Root
           THEN [NoAccount EXCEPT !.status = "active", !.pass = 1, !.roles = {"admin"}]
           ELSE NoAccount]
    /\ links = [l \in LinkIds |-> NoLink]
    /\ sessions = [s \in SessionIds |->
           IF \A r \in SessionIds : s <= r
           THEN [acct |-> Root, live |-> TRUE] ELSE NoSession]
    /\ calls = [c \in AuthCallers |-> Idle]
    /\ purge = {}

LinkSteps(c) == CloseOpenLinks(c) \/ CreateChallenge(c) \/ EnqueueLink(c)

FollowLink(l) ==
    ConfirmPasswordReset(l) \/ ConfirmEmailVerification(l) \/ LinkExpires(l)

PurgeSteps == PurgeSelects \/ PurgeDeletes \/ PurgeFails

SelfService(c, a) ==
    \/ \E m \in Addresses : Register(c, a, m) \/ RequestPasswordReset(c, m)
    \/ ResendEmailVerification(c, a)
    \/ Login(c, a)

SessionSteps(s) ==
    \/ \E c \in AuthCallers : changePassword(c, s)
    \/ \E t \in SessionIds : revokeSession(s, t)
    \/ revokeOtherSessions(s)
    \/ logout(s)

StaffSteps(x, a) ==
    \/ \E c \in AuthCallers : ResetPassword(c, x, a) \/ ResendActivation(c, x, a)
    \/ SuspendUser(x, a) \/ ReinstateUser(x, a) \/ ForceLogoutUser(x, a)
    \/ \E grant \in BOOLEAN : SetAdmissionsModerator(x, a, grant)

StaffEdits(x, a) ==
    \/ \E identity \in {"temporary", "student", "senior"}, m \in Addresses :
           UpdateUser(x, a, identity, m)
    \/ \E c \in AuthCallers :
        \/ \E m \in Addresses : CreateInvitedUser(c, x, a, m)
        \/ \E kind \in {"plain", "staff"} :
               CreateServiceUser(c, x, a, kind) \/ CreatePasswordUser(c, x, a, kind)

SessionCalls(c) == CreateSession(c) \/ UpdatePassword(c)

GrantCalls(c) == GrantServiceRole(c) \/ GrantAdmin(c) \/ GrantModerator(c)

AccountsNext ==
    \/ \E c \in AuthCallers : LinkSteps(c) \/ SessionCalls(c) \/ GrantCalls(c) \/ CallFails(c)
    \/ \E c \in AuthCallers, a \in AccountIds : SelfService(c, a)
    \/ \E l \in LinkIds : FollowLink(l)
    \/ \E s \in SessionIds : SessionSteps(s)
    \/ \E x, a \in AccountIds : StaffSteps(x, a) \/ StaffEdits(x, a)
    \/ PurgeSteps

AccountsSpec == AccountsInit /\ [][AccountsNext]_accountVars

-----------------------------------------------------------------------------
(* Properties.                                                             *)

(* ConfirmPasswordReset, UpdatePasswordForAccount and suspendAccount: when *)
(* the password of an account is replaced or the account suspended, none   *)
(* of its live sessions survives, save the one that changed the password.  *)
SessionsEnd ==
    [][\A a \in AccountIds :
         (\/ accounts'[a].pass # accounts[a].pass
          \/ accounts[a].status = "active" /\ accounts'[a].status = "suspended")
         => \A s \in SessionsOf(a) :
                sessions[s].live /\ sessions'[s].live
                => \E c \in AuthCallers : calls[c].step = "change" /\ s \in calls[c].seen]_accountVars

(* PurgeExpiredPendingAccounts: an account somebody activated, or that an  *)
(* administrator created, is never deleted by a purge that selected it     *)
(* while it was waiting.                                                   *)
ActivatedStay ==
    [][\A a \in AccountIds : accounts[a].status \in {"active", "suspended"}
                             => accounts'[a].status # "none"]_accountVars

(* ConsumePasswordResetChallenge: whatever else happened meanwhile, a      *)
(* password is only set by a link of the account that was never used or    *)
(* closed before, or by a request that checked the current password.       *)
PasswordsByOpenLinks ==
    [][\A a \in AccountIds :
         accounts[a].status # "none" /\ accounts'[a].status # "none"
         /\ accounts'[a].pass # accounts[a].pass
         => \/ \E l \in OpenLinks(a, "set") : links'[l].state = "used"
            \/ \E c \in AuthCallers : calls[c].step = "change" /\ calls[c].acct = a]_accountVars

(* Who has access and who has not: sessions end with a new password or a   *)
(* suspension, passwords are set through open links, and a purge deletes   *)
(* no account that somebody activated (ConfirmPasswordReset,               *)
(* suspendAccount, PurgeExpiredPendingAccounts).                           *)
AccessHolds ==
    []AccountsTypeOK /\ SessionsEnd /\ ActivatedStay /\ PasswordsByOpenLinks

(* IssueEmailVerification (service.go:276): "A new challenge invalidates   *)
(* the previous one".  Two requests at once leave two open links.          *)
OneOpenLink ==
    \A a \in AccountIds : \A k \in {"set", "verify"} : Cardinality(OpenLinks(a, k)) <= 1

(* PendingAccountCleanupWorker: an account that waits for its activation   *)
(* and no request is working on can still be activated or purged.          *)
WaitingCanEnd ==
    \A a \in AccountIds :
        accounts[a].status = "pending" /\ (\A c \in AuthCallers : calls[c].acct # a)
        => \E l \in LinkIds : /\ links[l].acct = a /\ links[l].kind = "activate"
                              /\ links[l].state = "open"
=============================================================================

-------------------------------- MODULE AdminMFA --------------------------------
(***************************************************************************)
(* The second factor of administrators and brochure moderators             *)
(* (internal/auth/mfa.go).                                                 *)
(*                                                                         *)
(* Setting up, enabling and disabling each read the row, check a code      *)
(* outside of any transaction, and then write; other requests of the same  *)
(* account come in between.  A secret is a number, 0 for none; whoever     *)
(* enters a code has the secret of the row that was read.                  *)
(***************************************************************************)
EXTENDS Accounts

CONSTANTS
    MFACallers,     \* requests about the second factor at a time
    MaxSecrets      \* bound on the secrets ever drawn

ASSUME MFAAssumption == MaxSecrets \in Nat \ {0}

VARIABLES
    mfaRows,        \* rows of account_admin_mfa
    mfaCalls,       \* requests between their read and their write
    drawn,          \* number of secrets drawn so far
    required        \* the setting require_admin_mfa

mfaVars == <<mfaRows, mfaCalls, drawn, required>>

NoRow == [secret |-> 0, enabled |-> FALSE, waiting |-> FALSE, verified |-> FALSE]
NoCall == [step |-> "idle", acct |-> Nobody, secret |-> 0]

MFATypeOK ==
    /\ mfaRows \in [AccountIds ->
           [secret : 0..MaxSecrets, enabled : BOOLEAN, waiting : BOOLEAN,
            verified : BOOLEAN]]
    /\ mfaCalls \in [MFACallers ->
           [step : {"idle", "begin", "enable", "verify", "disable"},
            acct : AccountIds \cup {Nobody}, secret : 0..MaxSecrets]]
    /\ drawn \in 0..MaxSecrets
    /\ required \in BOOLEAN

IsAdmissionsModerator(a) == "admissions_moderator" \in accounts[a].roles

IsServiceAccount(a) == "service" \in accounts[a].roles

CanManageAdmissions(a) == IsAdmin(a) \/ IsAdmissionsModerator(a)

requireAdminAccount(a) == CanManageAdmissions(a)

(***************************************************************************)
(* RequireAdminMFA: whether a request of a may pass, with a code of the    *)
(* enabled secret or without one.                                          *)
(***************************************************************************)
RequireAdminMFA(a, withCode) ==
    \/ IsServiceAccount(a)
    \/ ~mfaRows[a].enabled /\ ~required
    \/ mfaRows[a].enabled /\ (withCode \/ mfaRows[a].verified)

\* For the dashboards, which cannot ask for a code.
HasValidAdminMFAGrant(a) ==
    \/ IsServiceAccount(a)
    \/ ~required
    \/ mfaRows[a].enabled /\ mfaRows[a].verified

grafanaAuth(a) == RequireAdmin(a) /\ HasValidAdminMFAGrant(a)

MFACall(c, step, a, secret) ==
    mfaCalls' = [mfaCalls EXCEPT ![c] = [step |-> step, acct |-> a, secret |-> secret]]

MFAReturn(c) == mfaCalls' = [mfaCalls EXCEPT ![c] = NoCall]

-----------------------------------------------------------------------------
BeginAdminMFA(c, a) ==
    /\ mfaCalls[c] = NoCall /\ requireAdminAccount(a)
    /\ ~mfaRows[a].enabled /\ drawn < MaxSecrets
    /\ drawn' = drawn + 1
    /\ MFACall(c, "begin", a, drawn + 1)
    /\ UNCHANGED <<mfaRows, required>>

\* A faulty variant of Overwrites: the row is overwritten in every case.
OverwritesAlways(a) == TRUE

\* The upsert leaves a row alone that was enabled meanwhile.
Overwrites(a) == ~mfaRows[a].enabled

SaveAdminMFASecret(c) ==
    LET a == mfaCalls[c].acct IN
    /\ mfaCalls[c].step = "begin"
    /\ mfaRows' = IF Overwrites(a)
                  THEN [mfaRows EXCEPT ![a] =
                           [NoRow EXCEPT !.secret = mfaCalls[c].secret, !.waiting = TRUE]]
                  ELSE mfaRows
    /\ MFAReturn(c)
    /\ UNCHANGED <<drawn, required>>

SetupExpires(a) ==
    /\ mfaRows[a].waiting
    /\ mfaRows' = [mfaRows EXCEPT ![a].waiting = FALSE]
    /\ UNCHANGED <<mfaCalls, drawn, required>>

EnableAdminMFA(c, a) ==
    /\ mfaCalls[c] = NoCall /\ requireAdminAccount(a)
    /\ ~mfaRows[a].enabled /\ mfaRows[a].waiting
    /\ MFACall(c, "enable", a, mfaRows[a].secret)
    /\ UNCHANGED <<mfaRows, drawn, required>>

StoreEnabled(c) ==
    LET a == mfaCalls[c].acct IN
    /\ mfaCalls[c].step = "enable"
    /\ mfaRows[a].secret # 0 /\ ~mfaRows[a].enabled
    /\ mfaRows' = [mfaRows EXCEPT ![a].enabled = TRUE, ![a].waiting = FALSE,
                                  ![a].verified = TRUE]
    /\ MFAReturn(c)
    /\ UNCHANGED <<drawn, required>>

\* Verifying, or any request of an administrator that carries a code.
VerifyAdminMFA(c, a) ==
    /\ mfaCalls[c] = NoCall /\ requireAdminAccount(a)
    /\ mfaRows[a].enabled
    /\ MFACall(c, "verify", a, mfaRows[a].secret)
    /\ UNCHANGED <<mfaRows, drawn, required>>

GrantOpens(a) == mfaRows[a].enabled

TouchAdminMFAVerified(c) ==
    LET a == mfaCalls[c].acct IN
    /\ mfaCalls[c].step = "verify"
    /\ mfaRows' = IF GrantOpens(a) THEN [mfaRows EXCEPT ![a].verified = TRUE]
                                   ELSE mfaRows
    /\ MFAReturn(c)
    /\ UNCHANGED <<drawn, required>>

GrantEnds(a) ==
    /\ mfaRows[a].verified
    /\ mfaRows' = [mfaRows EXCEPT ![a].verified = FALSE]
    /\ UNCHANGED <<mfaCalls, drawn, required>>

DisableAdminMFA(c, a) ==
    /\ mfaCalls[c] = NoCall /\ requireAdminAccount(a)
    /\ mfaRows[a].enabled
    /\ MFACall(c, "disable", a, mfaRows[a].secret)
    /\ UNCHANGED <<mfaRows, drawn, required>>

DeleteRow(c) ==
    LET a == mfaCalls[c].acct IN
    /\ mfaCalls[c].step = "disable"
    /\ mfaRows' = [mfaRows EXCEPT ![a] = NoRow]
    /\ MFAReturn(c)
    /\ UNCHANGED <<drawn, required>>

MFACallFails(c) ==
    /\ mfaCalls[c] # NoCall
    /\ MFAReturn(c)
    /\ UNCHANGED <<mfaRows, drawn, required>>

SetRequireAdminMFA(x, value) ==
    /\ RequireAdmin(x) /\ \E code \in BOOLEAN : RequireAdminMFA(x, code)
    /\ required' = value
    /\ UNCHANGED <<mfaRows, mfaCalls, drawn>>

-----------------------------------------------------------------------------
MFAInit ==
    /\ mfaRows = [a \in AccountIds |-> NoRow]
    /\ mfaCalls = [c \in MFACallers |-> NoCall]
    /\ drawn = 0
    /\ required = FALSE

adminMFASetup(c, a) == Authenticated(a) /\ BeginAdminMFA(c, a)
adminMFAEnable(c, a) == Authenticated(a) /\ EnableAdminMFA(c, a)
adminMFAVerify(c, a) == Authenticated(a) /\ VerifyAdminMFA(c, a)
adminMFADisable(c, a) == Authenticated(a) /\ DisableAdminMFA(c, a)

MFARequests(c, a) ==
    \/ adminMFASetup(c, a) \/ adminMFAEnable(c, a)
    \/ adminMFAVerify(c, a) \/ adminMFADisable(c, a)

MFAWrites(c) ==
    \/ SaveAdminMFASecret(c) \/ StoreEnabled(c) \/ TouchAdminMFAVerified(c)
    \/ DeleteRow(c) \/ MFACallFails(c)

MFASteps ==
    \/ \E c \in MFACallers, a \in AccountIds : MFARequests(c, a)
    \/ \E c \in MFACallers : MFAWrites(c)
    \/ \E a \in AccountIds : SetupExpires(a) \/ GrantEnds(a)
    \/ \E x \in AccountIds, value \in BOOLEAN : SetRequireAdminMFA(x, value)

MFANext == MFASteps /\ UNCHANGED accountVars

\* The second factor while the accounts go on as they do.
MFASpec ==
    /\ AccountsInit /\ MFAInit
    /\ [][MFANext \/ (AccountsNext /\ UNCHANGED mfaVars)]_<<accountVars, mfaVars>>

-----------------------------------------------------------------------------
(* SaveAdminMFASecret: a set-up that read the row before the factor was    *)
(* enabled does not replace the enabled secret; only disabling ends it.    *)
SecretStands ==
    [][\A a \in AccountIds :
         mfaRows[a].enabled
         => \/ mfaRows'[a] = NoRow
            \/ mfaRows'[a].enabled /\ mfaRows'[a].secret = mfaRows[a].secret]_mfaVars

(* TouchAdminMFAVerified: a code that was checked before the factor was    *)
(* disabled and set up again opens no grant for the new, unproven secret,  *)
(* so the gates that take a grant for a code let nobody through with it.   *)
GrantsAreEnabled ==
    \A a \in AccountIds : mfaRows[a].verified => mfaRows[a].enabled

(* An enabled secret stands until it is disabled, and a grant is one for   *)
(* an enabled factor (SaveAdminMFASecret, TouchAdminMFAVerified).          *)
SecondFactorHolds == [](MFATypeOK /\ GrantsAreEnabled) /\ SecretStands

(* HasValidAdminMFAGrant (mfa.go:401): what it lets through without a code *)
(* RequireAdminMFA would let through, too.  An enabled factor that is not  *)
(* required is asked for by the one and not by the other.                  *)
GrantLikeRequest ==
    \A a \in AccountIds : grafanaAuth(a) => RequireAdminMFA(a, FALSE)

(* EnableAdminMFA checks a code of the secret it read; the secret that     *)
(* becomes the enabled one may be that of a set-up that came in between.   *)
EnabledWasProven ==
    [][\A a \in AccountIds, c \in MFACallers :
         mfaCalls[c].step = "enable" /\ mfaCalls[c].acct = a
         /\ mfaCalls'[c] = NoCall /\ ~mfaRows[a].enabled /\ mfaRows'[a].enabled
         => mfaRows'[a].secret = mfaCalls[c].secret]_mfaVars
=============================================================================

------------------------------ MODULE MCAccounts ------------------------------
(***************************************************************************)
(* Accounts and the three components built on them, explored one at a      *)
(* time: the second factor, the applications and the verification do not   *)
(* share state with each other, only with the accounts.                    *)
(***************************************************************************)
EXTENDS AdminMFA, AccountApplications, Verification, TLC

VARIABLE scope          \* the component that is explored

CONSTANT Member         \* an account that is active from the start

MCApplicant == [p \in Applications |-> CHOOSE m \in Addresses : TRUE]

MCMethod == [r \in Requests |->
                IF r = CHOOSE q \in Requests : TRUE THEN "document" ELSE "school_email"]

MCRequester == [r \in Requests |-> Member]

(* The member activated an account earlier; where the second factor is     *)
(* explored it is a moderator.                                             *)
MCInit ==
    /\ scope \in {"access", "staff", "mfa", "applications", "verification"}
    /\ links = [l \in LinkIds |-> NoLink]
    /\ calls = [c \in AuthCallers |-> Idle]
    /\ purge = {}
    /\ MFAInit /\ AppInit /\ VerifyInit
    /\ scope # "verification" => student[Member] = "none"
    /\ accounts = [a \in AccountIds |->
           IF a = Root
           THEN [NoAccount EXCEPT !.status = "active", !.pass = 1, !.roles = {"admin"}]
           ELSE IF a = Member /\ scope \in {"mfa", "verification"}
           THEN [NoAccount EXCEPT !.status = "active", !.pass = 1,
                     !.identity = IF student[Member] = "active" THEN "student" ELSE @,
                     !.roles = IF scope = "mfa" THEN {"admissions_moderator"} ELSE {}]
           ELSE NoAccount]
    /\ sessions = [s \in SessionIds |->
           IF s = 0 THEN [acct |-> Root, live |-> TRUE]
           ELSE IF s = 1 /\ scope \in {"mfa", "verification"}
           THEN [acct |-> Member, live |-> TRUE] ELSE NoSession]

(* The accounts in two parts: links, passwords, sessions and the purge     *)
(* with two requests at once, and the pages of the administrators.         *)
AccessNext ==
    \/ \E c \in AuthCallers : LinkSteps(c) \/ SessionCalls(c) \/ CallFails(c)
    \/ \E c \in AuthCallers : SelfService(c, Member)
    \/ \E l \in LinkIds : FollowLink(l)
    \/ \E s \in SessionIds : SessionSteps(s)
    \/ StaffSteps(Root, Member)
    \/ PurgeSteps

StaffNext ==
    \/ \E c \in AuthCallers : GrantCalls(c) \/ CallFails(c)
    \/ \E a \in {Root, Member} : StaffEdits(Root, a)

MCNext ==
    /\ \/ /\ \/ scope = "access" /\ AccessNext
             \/ scope = "staff" /\ StaffNext
          /\ UNCHANGED <<mfaVars, appVars, verifyVars>>
       \/ /\ scope = "mfa" /\ MFANext
          /\ UNCHANGED <<appVars, verifyVars>>
       \/ /\ scope = "applications" /\ AppNext
          /\ UNCHANGED <<mfaVars, verifyVars>>
       \/ /\ scope = "verification" /\ VerifyNext
          /\ UNCHANGED <<mfaVars, appVars>>
    /\ UNCHANGED scope

MCSpec == MCInit /\ [][MCNext]_<<accountVars, mfaVars, appVars, verifyVars, scope>>

(* Requests are alike; the model values of AuthCallers are used nowhere    *)
(* else.                                                                   *)
Symmetry == Permutations(AuthCallers)

AccessOnly == MCSpec /\ scope = "access"
ApplicationsOnly == MCSpec /\ scope = "applications"
VerificationOnly == MCSpec /\ scope = "verification"
=============================================================================

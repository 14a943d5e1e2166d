----------------------------- MODULE Applications -----------------------------
(***************************************************************************)
(* What students apply to (internal/applications): confirmed applications, *)
(* the service tickets that ask for one afterwards, and the forum spaces   *)
(* each of them opens.  Programmes are those of Catalogue; the identity of *)
(* a member follows Verification and Accounts, which set it at any time.   *)
(***************************************************************************)
EXTENDS Catalogue

CONSTANTS
    Members,        \* active accounts
    Tickets, NoOne, NoProgramme

VARIABLES
    identity,       \* identity_status of each account
    applied,        \* rows of applications, all confirmed: member and programme
    tickets,        \* rows of application_service_tickets
    spaces          \* rows of forum_spaces

applicationVars == <<identity, applied, tickets, spaces>>

Annual(y) == <<"annual", y>>
OfProgram(p) == <<"school_program", p>>
Global == <<"global">>

Spaces == {Global} \cup {Annual(y) : y \in Years} \cup {OfProgram(p) : p \in Programs}

NoTicket == [status |-> "none", member |-> NoOne, program |-> NoProgramme]

ApplicationsTypeOK ==
    /\ identity \in [Members -> {"temporary", "student", "senior"}]
    /\ applied \subseteq Members \X Programs
    /\ tickets \in [Tickets -> [status : {"none", "open", "approved", "rejected"},
                                member : Members \cup {NoOne},
                                program : Programs \cup {NoProgramme}]]
    /\ spaces \subseteq Spaces

\* ON DELETE RESTRICT: what keeps a programme in its table.
Referred ==
    {p \in Programs : \/ \E m \in Members : <<m, p>> \in applied
                      \/ \E t \in Tickets : tickets[t].program = p}

-----------------------------------------------------------------------------

Opened(S) ==
    spaces' = spaces \cup {Annual(YearOf[p]) : p \in S} \cup {OfProgram(p) : p \in S}

Student(m) == identity[m] = "student"

\* The insert takes published programmes only, and each of them once.
Insertable(m, p) ==
    Student(m) /\ programs[p].status = "published" /\ <<m, p>> \notin applied

\* One transaction: all of them, or none.
CreateConfirmed(m, S) ==
    /\ S # {} /\ \A p \in S : Insertable(m, p)
    /\ applied' = applied \cup {<<m, p>> : p \in S}
    /\ Opened(S)
    /\ UNCHANGED <<identity, tickets>>

\* The programme may be in any state, but must be there.
CreateServiceTicket(t, m, p) ==
    /\ tickets[t] = NoTicket
    /\ Student(m) /\ programs[p].status # "none"
    /\ tickets' = [tickets EXCEPT ![t] = [status |-> "open", member |-> m, program |-> p]]
    /\ UNCHANGED <<identity, applied, spaces>>

\* Otherwise the review fails, and the ticket stays open.
Granted(m, p) ==
    /\ Insertable(m, p)
    /\ applied' = applied \cup {<<m, p>>}
    /\ Opened({p})

ReviewServiceTicket(t, approved) ==
    /\ tickets[t].status = "open"
    /\ IF approved THEN Granted(tickets[t].member, tickets[t].program)
       ELSE UNCHANGED <<applied, spaces>>
    /\ tickets' = [tickets EXCEPT ![t].status = IF approved THEN "approved" ELSE "rejected"]
    /\ UNCHANGED identity

\* Verification, the yearly clean-up, or an administrator.
IdentityChanges(m, i) ==
    /\ identity[m] # i
    /\ identity' = [identity EXCEPT ![m] = i]
    /\ UNCHANGED <<applied, tickets, spaces>>

Applying ==
    \/ \E m \in Members, S \in SUBSET Programs : CreateConfirmed(m, S)
    \/ \E t \in Tickets, m \in Members, p \in Programs : CreateServiceTicket(t, m, p)
    \/ \E t \in Tickets, b \in BOOLEAN : ReviewServiceTicket(t, b)
    \/ \E m \in Members, i \in {"temporary", "student", "senior"} : IdentityChanges(m, i)

ApplicationsInit ==
    /\ identity = [m \in Members |-> "temporary"]
    /\ applied = {} /\ spaces = {Global}
    /\ tickets = [t \in Tickets |-> NoTicket]

-----------------------------------------------------------------------------

\* Whoever applied finds the forum of the year and of the programme, however
\* the application came about (postgres_repository.go, ensureForumSpaces).
SpacesFollowApplications ==
    \A a \in applied : {Annual(YearOf[a[2]]), OfProgram(a[2])} \subseteq spaces

\* An approved ticket is an application (ReviewServiceTicket).
ApprovedTicketsApplied ==
    \A t \in Tickets :
        tickets[t].status = "approved" => <<tickets[t].member, tickets[t].program>> \in applied

\* What an administrator lists joins the programme: a deletion takes none of
\* the tickets, nor of the applications, out of the lists (ListOpenServiceTickets).
NothingFallsOut ==
    /\ \A t \in Tickets :
         tickets[t].status # "none" => programs[tickets[t].program].status # "none"
    /\ \A a \in applied : programs[a[2]].status # "none"
================================================================================

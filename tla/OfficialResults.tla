--------------------------- MODULE OfficialResults ---------------------------
(***************************************************************************)
(* The cross-check of one programme in one academic year (package          *)
(* backend/internal/results): official lists are imported, reviewed and    *)
(* published, their rows are matched to applications by candidate number,  *)
(* the matched applicants are asked for their willingness, and each answer *)
(* is written into the slot the applicant's row has in the programme's     *)
(* array of values.                                                        *)
(*                                                                         *)
(* Transactions run at READ COMMITTED.  One whose statements all wait for  *)
(* the same rows is one step.  Two are not: a publication, which matches   *)
(* numbers long before it commits, and an answer, which reads its slot     *)
(* before it writes it; each keeps its locks in between.                   *)
(***************************************************************************)
EXTENDS Integers, Sequences, FiniteSets

CONSTANTS Batches,      \* official_result_batches, one per source file
          Numbers,      \* candidate numbers
          Apps,         \* the confirmed applications for the programme
          Values,       \* willingness values
          Default,      \* the value of a row nobody answered for: 100
          None,         \* NULL
          MaxPlace,     \* bound: places in a ranking
          FromFile,     \* the batches whose file may also be extracted by a worker
          MaxChanges    \* bound: how often an applicant sets the candidate number

ASSUME ResultsAssumption ==
    /\ IsFiniteSet(Numbers)
    /\ Default \in Values
    /\ None \notin Values \cup Apps \cup Batches \cup Numbers
    /\ MaxPlace \in Nat
    /\ FromFile \subseteq Batches
    /\ MaxChanges \in Nat

VARIABLES batch,        \* batch[b]: official_result_batches.status
          listing,      \* listing[b][n]: the row of candidate number n in batch b
          values,       \* academic_programs.willingness_values
          number,       \* number[a]: the candidate number of application a
          changes,      \* changes[a]: how often it was set
          willing,      \* willing[a]: application_willingness.value
          inquiry,      \* the rows of willingness_inquiries
          publishing,   \* the publication under way and what it matched
          answering     \* the answers under way

people == <<number, changes>>
vars == <<batch, listing, values, people, willing, inquiry, publishing, answering>>

(* "place" is where the result status, the official rank and the id sort a *)
(* row, 0 when it is neither admitted nor waitlisted; "slot" is            *)
(* willingness_index + 1, 0 for NULL.                                      *)
Row == [listed : BOOLEAN, place : 0..MaxPlace, slot : Nat, app : Apps \cup {None}]

Unlisted == [listed |-> FALSE, place |-> 0, slot |-> 0, app |-> None]

DistinctPlaces(rows) ==
    \A m, n \in Numbers : rows[m].place = rows[n].place /\ rows[m].place > 0 => m = n

(* The lists a file may hold. *)
Rosters ==
    {r \in [Numbers -> [listed : BOOLEAN, place : 0..MaxPlace, slot : {0}, app : {None}]] :
        /\ DistinctPlaces(r)
        /\ \A n \in Numbers : r[n].place > 0 => r[n].listed
        /\ \E n \in Numbers : r[n].listed}

Inquiry == [app : Apps, batch : Batches, number : Numbers,
            round : {"result_released", "acceptance_deadline"}, open : BOOLEAN]

Answer == [app : Apps, batch : Batches, number : Numbers, slot : Nat, value : Values]

NotPublishing == [batch |-> None, match |-> [n \in Numbers |-> None]]

TypeOK ==
    /\ batch \in [Batches -> {"absent", "pending_review", "published", "superseded"}]
    /\ listing \in [Batches -> [Numbers -> Row]]
    /\ values \in Seq(Values)
    /\ number \in [Apps -> Numbers \cup {None}]
    /\ changes \in [Apps -> 0..MaxChanges]
    /\ willing \in [Apps -> Values \cup {None}]
    /\ inquiry \subseteq Inquiry
    /\ publishing \in [batch : Batches \cup {None},
                       match : [Numbers -> Apps \cup {None}]]
    /\ answering \subseteq Answer

Init ==
    /\ batch = [b \in Batches |-> "absent"]
    /\ listing = [b \in Batches |-> [n \in Numbers |-> Unlisted]]
    /\ values = <<>>
    /\ number = [a \in Apps |-> None]
    /\ changes = [a \in Apps |-> 0]
    /\ willing = [a \in Apps |-> None]
    /\ inquiry = {}
    /\ publishing = NotPublishing
    /\ answering = {}

Published == {b \in Batches : batch[b] = "published"}

-----------------------------------------------------------------------------
(* Faulty variants of the definitions below, which the runs must reject: a *)
(* write past the end of the array, an array left as it was, a match taken *)
(* over.                                                                   *)
AlwaysFits(x) == TRUE

SameValues(rows) == values

RelinkedAnyway(rows, a, n) ==
    [m \in Numbers |->
        IF m = n /\ rows[m].listed THEN [rows[m] EXCEPT !.app = a]
        ELSE IF rows[m].app = a THEN [rows[m] EXCEPT !.app = None] ELSE rows[m]]

-----------------------------------------------------------------------------
(* The application that has candidate number n; a unique index allows one. *)
Matched(rows) ==
    [n \in Numbers |->
        IF rows[n].listed /\ \E a \in Apps : number[a] = n
        THEN CHOOSE a \in Apps : number[a] = n
        ELSE None]

Ranked(rows) == {n \in Numbers : rows[n].place > 0}

(* willingness_index: the ranked rows numbered in their order. *)
Indexed(rows) ==
    [n \in Numbers |->
        [rows[n] EXCEPT !.slot =
            IF n \in Ranked(rows)
            THEN Cardinality({m \in Ranked(rows) : rows[m].place <= rows[n].place})
            ELSE 0]]

(* The array a correction rebuilds: the current value of the application a *)
(* row is matched to, or the default.                                      *)
Rebuilt(rows) ==
    LET InSlot(i) == CHOOSE n \in Numbers : rows[n].slot = i
        Value(n) == IF rows[n].app = None \/ willing[rows[n].app] = None
                    THEN Default ELSE willing[rows[n].app]
    IN  [i \in 1..Cardinality(Ranked(rows)) |-> Value(InSlot(i))]

(* The inquiries of the round "result_released" for the rows "asked"; an   *)
(* insert skips a row that has one, and fails when an application already  *)
(* has one in the batch for another row.                                   *)
Asked(b, rows, asked) ==
    {[app |-> rows[n].app, batch |-> b, number |-> n, round |-> "result_released",
      open |-> TRUE] :
        n \in {m \in asked \cap Ranked(rows) : rows[m].app # None}}

SameRow(q, r) == q.batch = r.batch /\ q.number = r.number /\ q.round = r.round

NewOnly(asked) == {q \in asked : ~\E r \in inquiry : SameRow(q, r)}

Clash(asked) ==
    \E q \in asked, r \in inquiry :
        q.app = r.app /\ q.batch = r.batch /\ q.round = r.round /\ q.number # r.number

-----------------------------------------------------------------------------
(* Lists.  ImportOfficialBatch makes a new batch of a file. *)
ImportOfficialBatch(b, roster) ==
    /\ batch[b] = "absent"
    /\ batch' = [batch EXCEPT ![b] = "pending_review"]
    /\ listing' = [listing EXCEPT ![b] =
                      [n \in Numbers |-> [roster[n] EXCEPT !.app = Matched(roster)[n]]]]
    /\ UNCHANGED <<values, people, willing, inquiry, publishing, answering>>

(* ApplyCandidateListExtractionResult adds the rows it read to the batch   *)
(* of the file, whatever the batch has become, and matches all of them.    *)
ApplyExtraction(b, roster) ==
    LET rows == [n \in Numbers |-> IF listing[b][n].listed THEN listing[b][n] ELSE roster[n]]
        match == Matched(rows)
    IN  /\ b \in FromFile
        /\ publishing.batch # b
        /\ \A x \in answering : x.batch # b
        /\ DistinctPlaces(rows)
        /\ batch' = [batch EXCEPT ![b] = IF @ = "absent" THEN "pending_review" ELSE @]
        /\ listing' = [listing EXCEPT ![b] =
                          [n \in Numbers |->
                              IF match[n] = None THEN rows[n]
                              ELSE [rows[n] EXCEPT !.app = match[n]]]]
        /\ UNCHANGED <<values, people, willing, inquiry, publishing, answering>>

(* PublishOfficialBatch holds an advisory lock.  It matches the rows to    *)
(* the numbers committed so far ...                                        *)
MatchForPublication(b) ==
    /\ publishing = NotPublishing
    /\ batch[b] = "pending_review"
    /\ publishing' = [batch |-> b, match |-> Matched(listing[b])]
    /\ UNCHANGED <<batch, listing, values, people, willing, inquiry, answering>>

(* ... and all it did becomes visible at once. *)
PublishOfficialBatch(b) ==
    LET rows == Indexed([n \in Numbers |->
                            [listing[b][n] EXCEPT !.app = publishing.match[n]]])
    IN  /\ publishing.batch = b
        /\ batch' = [c \in Batches |-> IF c = b THEN "published"
                                       ELSE IF c \in Published THEN "superseded"
                                       ELSE batch[c]]
        /\ listing' = [listing EXCEPT ![b] = rows]
        /\ values' = [i \in 1..Cardinality(Ranked(rows)) |-> Default]
        /\ willing' = [a \in Apps |->
                          IF \E n \in Numbers : rows[n].app = a THEN None ELSE willing[a]]
        /\ inquiry' = inquiry \cup NewOnly(Asked(b, rows, Numbers))
        /\ publishing' = NotPublishing
        /\ UNCHANGED <<people, answering>>

PublicationFails ==
    /\ publishing # NotPublishing
    /\ publishing' = NotPublishing
    /\ UNCHANGED <<batch, listing, values, people, willing, inquiry, answering>>

(* CorrectOfficialResult moves a row of a published batch, rebuilds slots  *)
(* and array, and asks the applicant who was not asked before.             *)
Corrected(b, n, place) == [listing[b] EXCEPT ![n].place = place, ![n].slot = 0]

MayCorrect(b, n, place) ==
    /\ b \in Published
    /\ listing[b][n].listed
    /\ DistinctPlaces(Corrected(b, n, place))

CorrectOfficialResult(b, n, place) ==
    LET rows == Indexed(Corrected(b, n, place))
        asked == IF rows[n].app # None /\ willing[rows[n].app] = None
                 THEN NewOnly(Asked(b, rows, {n})) ELSE {}
    IN  /\ MayCorrect(b, n, place)
        /\ publishing = NotPublishing
        /\ \A x \in answering : x.batch # b
        /\ ~Clash(asked)
        /\ listing' = [listing EXCEPT ![b] = rows]
        /\ values' = Rebuilt(rows)
        /\ inquiry' = inquiry \cup asked
        /\ UNCHANGED <<batch, people, willing, publishing, answering>>

(* CreateAcceptanceDeadlineInquiries asks again whoever has not answered,  *)
(* or sets a new deadline.                                                 *)
CreateAcceptanceDeadlineInquiries(b) ==
    LET silent == {n \in Ranked(listing[b]) :
                      LET a == listing[b][n].app IN a # None /\ willing[a] = None}
        asked == {[q EXCEPT !.round = "acceptance_deadline"] :
                      q \in Asked(b, listing[b], silent)}
        kept == {r \in inquiry : ~\E q \in asked : SameRow(q, r)}
    IN  /\ b \in Published
        /\ asked # {}
        /\ ~Clash(NewOnly(asked))
        /\ inquiry' = kept \cup NewOnly(asked)
                           \cup {[r EXCEPT !.open = TRUE] : r \in inquiry \ kept}
        /\ UNCHANGED <<batch, listing, values, people, willing, publishing, answering>>

DeadlinePasses(q) ==
    /\ q.round = "acceptance_deadline" /\ q.open
    /\ inquiry' = (inquiry \ {q}) \cup {[q EXCEPT !.open = FALSE]}
    /\ UNCHANGED <<batch, listing, values, people, willing, publishing, answering>>

-----------------------------------------------------------------------------
(* Applicants.  SetCandidateNumber takes an application's matches in the   *)
(* published batch away and matches it to the row of the new number, if    *)
(* that row is free.                                                       *)
Relinked(rows, a, n) ==
    [m \in Numbers |->
        IF m = n /\ rows[m].listed /\ rows[m].app \in {a, None}
        THEN [rows[m] EXCEPT !.app = a]
        ELSE IF rows[m].app = a THEN [rows[m] EXCEPT !.app = None] ELSE rows[m]]

AskedForNumber(a, n) ==
    IF willing[a] # None THEN {}
    ELSE UNION { LET rows == Relinked(listing[b], a, n)
                 IN  NewOnly(Asked(b, rows, {m \in Numbers : rows[m].app = a})) :
                 b \in Published }

NumberFree(a, n) == \A c \in Apps \ {a} : number[c] # n

SetCandidateNumber(a, n) ==
    /\ changes[a] < MaxChanges
    /\ NumberFree(a, n)
    /\ \A x \in answering : x.number # n /\ listing[x.batch][x.number].app # a
    /\ ~Clash(AskedForNumber(a, n))
    /\ number' = [number EXCEPT ![a] = n]
    /\ changes' = [changes EXCEPT ![a] = @ + 1]
    /\ listing' = [b \in Batches |-> IF b \in Published THEN Relinked(listing[b], a, n)
                                     ELSE listing[b]]
    /\ inquiry' = inquiry \cup AskedForNumber(a, n)
    /\ UNCHANGED <<batch, values, willing, publishing, answering>>

(* setWillingness reads and locks the inquiry and the row it is about ...  *)
SelectInquiry(q, v) ==
    LET slot == listing[q.batch][q.number].slot
    IN  /\ q.open
        /\ q.batch \in Published
        /\ slot > 0
        /\ \A x \in answering : x.batch # q.batch \/ x.number # q.number
        /\ answering' = answering \cup {[app |-> q.app, batch |-> q.batch,
                                         number |-> q.number, slot |-> slot, value |-> v]}
        /\ UNCHANGED <<batch, listing, values, people, willing, inquiry, publishing>>

(* ... and then writes the slot, if the array has it.  Writing behind the  *)
(* end of an array would fill it up with NULLs.                            *)
FitsArray(x) == x.slot <= Len(values)

WithSlot(i, v) ==
    [k \in 1..(IF i > Len(values) THEN i ELSE Len(values)) |->
        IF k = i THEN v ELSE IF k <= Len(values) THEN values[k] ELSE None]

SetWillingness(x) ==
    /\ FitsArray(x)
    /\ willing' = [willing EXCEPT ![x.app] = x.value]
    /\ values' = WithSlot(x.slot, x.value)
    /\ answering' = answering \ {x}
    /\ UNCHANGED <<batch, listing, people, inquiry, publishing>>

AnswerFails(x) ==
    /\ answering' = answering \ {x}
    /\ UNCHANGED <<batch, listing, values, people, willing, inquiry, publishing>>

-----------------------------------------------------------------------------
Review(b) ==
    \/ \E roster \in Rosters : ImportOfficialBatch(b, roster)
    \/ MatchForPublication(b)
    \/ PublishOfficialBatch(b)
    \/ \E n \in Numbers, place \in 0..MaxPlace : CorrectOfficialResult(b, n, place)
    \/ CreateAcceptanceDeadlineInquiries(b)

(* All that administrators and applicants do. *)
PeopleNext ==
    \/ \E b \in Batches : Review(b)
    \/ PublicationFails
    \/ \E q \in inquiry : DeadlinePasses(q)
    \/ \E a \in Apps, n \in Numbers : SetCandidateNumber(a, n)
    \/ \E q \in inquiry, v \in Values : SelectInquiry(q, v)
    \/ \E x \in answering : SetWillingness(x) \/ AnswerFails(x)

Next ==
    \/ PeopleNext
    \/ \E b \in Batches, roster \in Rosters : ApplyExtraction(b, roster)

Spec == Init /\ [][Next]_vars
-----------------------------------------------------------------------------
(***************************************************************************)
(* Properties                                                              *)
(***************************************************************************)

(* A published list, if no extraction can add rows to it later:            *)
(* ApplyCandidateListExtractionResult numbers nothing, asks nobody, and    *)
(* may match an application a second time.                                 *)
PublishedAsImported == Published \ FromFile

(* willingness_index and willingness_values stay one structure: the slots  *)
(* of the published list are the positions of the array, each given once,  *)
(* in the order of the ranking, through publications, corrections and      *)
(* answers that began before them.                                         *)
SlotsFollowRanking ==
    \A b \in PublishedAsImported :
        LET slotted == {n \in Numbers : listing[b][n].slot > 0}
        IN  /\ {listing[b][n].slot : n \in slotted} = 1..Len(values)
            /\ Cardinality(slotted) = Len(values)
            /\ \A m, n \in slotted :
                  listing[b][m].slot < listing[b][n].slot
                      <=> listing[b][m].place < listing[b][n].place

(* However numbers are set and matched again, before, during and after a   *)
(* publication, an application never stands for two rows of the published  *)
(* list (SetCandidateNumber, PublishOfficialBatch).                        *)
OneRowPerApplication ==
    \A b \in PublishedAsImported, m, n \in Numbers :
        listing[b][m].app = listing[b][n].app /\ listing[b][m].app # None => m = n

WasAsked(a, b, n) == \E q \in inquiry : q.app = a /\ q.batch = b /\ q.number = n

(* Everyone who is matched to a ranked row of the published list was asked *)
(* for it or has answered, whether the number or the list came first; only *)
(* where somebody else was matched to the row before and asked may the one *)
(* who is matched now be left out, as an insert skips a row that has an    *)
(* inquiry (SetCandidateNumber, CorrectOfficialResult).                    *)
RowsAsked ==
    \A b \in PublishedAsImported, n \in Numbers :
        LET a == listing[b][n].app
        IN  listing[b][n].place > 0 /\ a # None =>
                \/ willing[a] # None
                \/ \E c \in Apps : WasAsked(c, b, n)

(* Slots, matches and inquiries follow the ranked rows of the published    *)
(* list, through answers, corrections and changed numbers                  *)
(* (PublishOfficialBatch, CorrectOfficialResult, SetCandidateNumber).      *)
ListsAgree == SlotsFollowRanking /\ OneRowPerApplication /\ RowsAsked

(* "A result already matched to another application is never reassigned":  *)
(* setting a number takes no row of any list from an application that has  *)
(* it, however stale that application's match is.                          *)
MatchNotTakenOver ==
    [][number' # number =>
          \A b \in Batches, n \in Numbers :
              listing'[b][n].app \in {listing[b][n].app, None}
                  \/ listing[b][n].app = None]_vars

(* The same without the exception.  The code breaks it, and also where an  *)
(* extraction matches somebody to a list that is published already.        *)
EveryoneAsked ==
    \A b \in Published, n \in Numbers :
        LET a == listing[b][n].app
        IN  listing[b][n].place > 0 /\ a # None => willing[a] # None \/ WasAsked(a, b, n)

(* The array shows the current answer of the application a row is matched  *)
(* to, and the default for everybody else, after every correction.         *)
SlotsAgree ==
    \A b \in Published, n \in Numbers :
        LET row == listing[b][n]
        IN  row.slot > 0 =>
                values[row.slot] = IF row.app = None \/ willing[row.app] = None
                                   THEN Default ELSE willing[row.app]

(* The server checks that the inquiry an answer is given to is about the   *)
(* row of the one who answers.                                             *)
AnswersOwnRow ==
    \A x \in answering :
        x.batch \in Published => listing[x.batch][x.number].app = x.app

(* "Nobody who entered the number after the import is left out": a row of  *)
(* the published list is matched to the application that has its number.   *)
PublishedRowsMatched ==
    \A b \in Published, n \in Numbers, a \in Apps :
        listing[b][n].listed /\ number[a] = n => listing[b][n].app = a

(* An administrator's correction of a published row goes through: no order *)
(* in which PostgreSQL visits the rows meets a slot that is still taken.   *)
CorrectionsApply ==
    \A b \in Published, n \in Numbers, place \in 0..MaxPlace :
        MayCorrect(b, n, place) =>
            LET before == Corrected(b, n, place)
                after == Indexed(before)
            IN  ~\E k, m \in Numbers : /\ k # m
                                       /\ after[k].slot > 0
                                       /\ after[k].slot = before[m].slot

(* An applicant may correct the candidate number after the list was        *)
(* published: nothing but another applicant's number stands against it.    *)
NumberCorrectable ==
    \A a \in Apps, n \in Numbers : NumberFree(a, n) => ~Clash(AskedForNumber(a, n))
=============================================================================

--------------------------- MODULE CommunityProofs ---------------------------
(***************************************************************************)
(* Proofs about the pages members meet on, for any number of members,      *)
(* readers, programmes, spaces, threads, files, questions and requests:    *)
(* the cached catalogue, the applications and the forum (Catalogue,        *)
(* Applications, Forum), personal files (PersonalFiles), willingness       *)
(* questions on Telegram (TelegramCrossCheck) and the calendar             *)
(* (CalendarSync).                                                         *)
(*                                                                         *)
(* Each part has an inductive invariant of its own: the property, what a   *)
(* step under way has read or has still to do, and who owns what it        *)
(* names.                                                                  *)
(***************************************************************************)
EXTENDS Forum, PersonalFiles, TelegramCrossCheck, CalendarSync, FiniteSetTheorems, TLAPS

-----------------------------------------------------------------------------
(***************************************************************************)
(* The catalogue.                                                          *)

\* A programme says something as long as it is there, an editor has queries
\* to clear only while it clears, and a reader that no change has overtaken
\* holds what the database would answer, but for confirmed uploads
\* (cached_repository.go).
RowsSay == \A p \in Programs : programs[p].status # "none" => programs[p].data \in Data

EditorsClear == \A e \in Editors : editors[e].step # "clear" => editors[e].left = {}

Explained(r) ==
    LET q == readers[r].query IN
    /\ readers[r].step # "idle" => q \in Queries
    /\ readers[r].step = "rows" => readers[r].year \in Years
    /\ r \notin late =>
         /\ readers[r].step = "rows" => readers[r].year = displayYear
         /\ readers[r].step \in {"items", "keep"} =>
              readers[r].rows = Fresh(q) \/ q \cap unannounced # {}

CatalogueInv ==
    /\ CatalogueHolds
    /\ RowsSay /\ EditorsClear
    /\ \A r \in Readers : Explained(r)

ProgramRows == [status : Statuses, data : Data \cup {NoData}]
EditorRows == [step : {"idle", "clear", "purge"}, left : SUBSET Queries]
ReaderRows == [step : {"idle", "rows", "items", "keep", "answer"}, query : Queries \cup {{}},
               year : Years \cup {0}, rows : SUBSET Shown]
Copies == [held : BOOLEAN, rows : SUBSET Shown]

\* The rows of programmes, calls and copies, each by its own set.
LEMMA CatalogueRows ==
    CatalogueTypeOK <=>
        /\ programs \in [Programs -> ProgramRows] /\ displayYear \in Years
        /\ cached \in [Queries -> Copies] /\ pages \in [Queries -> Copies]
        /\ editors \in [Editors -> EditorRows] /\ readers \in [Readers -> ReaderRows]
        /\ reviewed \in [Programs -> BOOLEAN]
        /\ late \subseteq Readers \cup Queries /\ unannounced \subseteq Programs
BY DEF CatalogueTypeOK, ProgramRows, EditorRows, ReaderRows, Copies

\* The catalogue is empty at first, and nobody reads (CatalogueInit).
LEMMA CatalogueBegins == CatalogueInit => CatalogueInv
<1> SUFFICES ASSUME CatalogueInit PROVE CatalogueInv
  OBVIOUS
<1>1. CatalogueTypeOK
  BY DEF CatalogueInit, CatalogueTypeOK, NoProgram, Nothing, EditorIdle, ReaderIdle, Statuses
<1>2. PublicWasReviewed /\ StaleIsExplained /\ RowsSay /\ EditorsClear
  BY DEF CatalogueInit, PublicWasReviewed, StaleIsExplained, RowsSay, EditorsClear,
         NoProgram, Nothing, EditorIdle
<1>3. \A r \in Readers : Explained(r)
  BY DEF CatalogueInit, Explained, ReaderIdle
<1> QED  BY <1>1, <1>2, <1>3 DEF CatalogueInv, CatalogueHolds

\* What is shown says something (ListPrograms).
LEMMA ShownRows ==
    ASSUME CatalogueInv, NEW q, NEW year
    PROVE  {<<p, programs[p].data, programs[p].data>> : p \in ListPrograms(q, year)} \subseteq Shown
<1>1. \A p \in ListPrograms(q, year) : p \in Programs /\ programs[p].data \in Data
  BY DEF CatalogueInv, RowsSay, ListPrograms, Public
<1> QED  BY <1>1 DEF Shown

\* The answer to a query depends on its own programmes and the display year
\* (ListPrograms).
LEMMA AnswersDepend ==
    ASSUME NEW q, displayYear' = displayYear,
           \A p \in q \cap Programs : programs'[p] = programs[p]
    PROVE  Fresh(q)' = Fresh(q)
<1>1. (Public(displayYear) \cap q)' = Public(displayYear) \cap q
  BY DEF Public
<1>2. ListPrograms(q, displayYear)' = ListPrograms(q, displayYear)
  BY <1>1 DEF ListPrograms
<1>3. \A p \in ListPrograms(q, displayYear) : programs'[p] = programs[p]
  BY DEF ListPrograms, Public
<1> QED  BY <1>2, <1>3 DEF Fresh

\* A change that is announced leaves every copy to its clearing and every
\* reader under way late, whatever it changed (afterWrite).
LEMMA AnnouncedKeepsCatalogue ==
    ASSUME CatalogueInv, NEW e \in Editors, NEW S, Announced(e, S),
           UNCHANGED <<copyVars, readers>>,
           programs' \in [Programs -> ProgramRows], displayYear' \in Years,
           reviewed' \in [Programs -> BOOLEAN],
           RowsSay', PublicWasReviewed'
    PROVE  CatalogueInv'
<1> USE DEF CatalogueInv, CatalogueHolds
<1>1. /\ editors' = [editors EXCEPT ![e] = [step |-> "clear", left |-> Found(S)]]
      /\ unannounced' = {}
      /\ late' = late \cup {r \in Readers : readers[r].step \notin {"idle", "answer"}}
      /\ cached' = cached /\ pages' = pages /\ readers' = readers
  BY DEF Announced, copyVars
<1>2. /\ editors \in [Editors -> EditorRows] /\ readers \in [Readers -> ReaderRows]
      /\ cached \in [Queries -> Copies] /\ pages \in [Queries -> Copies]
      /\ late \subseteq Readers \cup Queries
  BY CatalogueRows
<1>3. Found(S) \subseteq Queries /\ \A q \in Queries : cached[q].held => q \in Found(S)
  BY DEF Found
<1>4. /\ editors' \in [Editors -> EditorRows]
      /\ editors'[e] = [step |-> "clear", left |-> Found(S)]
      /\ \A x \in Editors \ {e} : editors'[x] = editors[x]
  BY <1>1, <1>2, <1>3 DEF EditorRows
<1>5. CatalogueTypeOK'
  <2>1. late' \subseteq Readers \cup Queries /\ unannounced' \subseteq Programs
    BY <1>1, <1>2
  <2> QED  BY <1>1, <1>2, <1>4, <2>1, CatalogueRows
           DEF CatalogueTypeOK, ProgramRows, EditorRows, ReaderRows, Copies
<1>6. StaleIsExplained'
  BY <1>1, <1>3, <1>4 DEF StaleIsExplained
<1>7. EditorsClear'
  BY <1>4 DEF EditorsClear
<1>8. \A r \in Readers : Explained(r)'
  BY <1>1 DEF Explained
<1> QED  BY <1>5, <1>6, <1>7, <1>8

\* Rows that are stored with new data wait for a review, the others stay
\* (UpsertPrograms).
LEMMA UpsertedRows ==
    ASSUME CatalogueInv, NEW S \in SUBSET Programs, NEW d \in Data
    PROVE  /\ Upserted(S, d) \in [Programs -> ProgramRows]
           /\ \A p \in Programs :
                \/ p \in Edited(S, d) /\ p \in S /\ Upserted(S, d)[p] = Stored(p, d)
                \/ p \notin Edited(S, d) /\ Upserted(S, d)[p] = programs[p]
<1>1. programs \in [Programs -> ProgramRows]
  BY CatalogueRows DEF CatalogueInv, CatalogueHolds
<1>2. \A p \in Programs : Stored(p, d) \in ProgramRows
  BY DEF Stored, ProgramRows, Statuses
<1>3. Edited(S, d) \subseteq S
  BY DEF Edited
<1> QED  BY <1>1, <1>2, <1>3 DEF Upserted

\* Each change an administrator makes leaves what is public reviewed
\* (UpsertPrograms, ReviewProgram, SetProgramArchived, DeleteProgram,
\* SetDisplayLatestAcademicYear).
LEMMA ChangesKeepCatalogue ==
    ASSUME CatalogueInv, NEW e \in Editors, NEW used,
           \/ \E S \in SUBSET Programs, d \in Data : UpsertPrograms(e, S, d)
           \/ \E p \in Programs, b \in BOOLEAN :
                \/ ReviewProgram(e, p, b) \/ SetProgramArchived(e, p, b)
                \/ DeleteProgram(e, p, b, used)
           \/ \E y \in Years : SetDisplayLatestAcademicYear(e, y)
    PROVE  CatalogueInv'
<1> USE DEF CatalogueInv, CatalogueHolds
<1>1. /\ programs \in [Programs -> ProgramRows] /\ displayYear \in Years
      /\ reviewed \in [Programs -> BOOLEAN]
  BY CatalogueRows
<1>2. ASSUME NEW S \in SUBSET Programs, NEW d \in Data, UpsertPrograms(e, S, d)
      PROVE  CatalogueInv'
  <2>1. /\ programs' = Upserted(S, d) /\ displayYear' = displayYear
        /\ reviewed' = [p \in Programs |-> reviewed[p] /\ p \notin Edited(S, d)]
        /\ Announced(e, S) /\ UNCHANGED <<copyVars, readers>>
    BY <1>2 DEF UpsertPrograms
  <2>2. programs' \in [Programs -> ProgramRows] /\ reviewed' \in [Programs -> BOOLEAN]
    BY <2>1, UpsertedRows
  <2> HIDE DEF CatalogueInv, CatalogueHolds
  <2>5. \A p \in Programs :
          \/ p \in Edited(S, d) /\ programs'[p] = Stored(p, d)
          \/ /\ p \notin Edited(S, d) /\ programs'[p] = programs[p]
             /\ reviewed'[p] <=> reviewed[p]
    BY <2>1, UpsertedRows
  <2>3. RowsSay'
    BY <2>5 DEF RowsSay, Stored, CatalogueInv
  <2>4. PublicWasReviewed'
    BY <2>5 DEF PublicWasReviewed, Stored, CatalogueInv, CatalogueHolds
  <2> QED  BY <1>1, <2>1, <2>2, <2>3, <2>4, AnnouncedKeepsCatalogue
<1>3. ASSUME NEW p \in Programs, NEW b \in BOOLEAN,
             \/ ReviewProgram(e, p, b) \/ SetProgramArchived(e, p, b)
             \/ DeleteProgram(e, p, b, used)
      PROVE  CatalogueInv'
  <2>1. /\ displayYear' = displayYear /\ Announced(e, {p}) /\ UNCHANGED <<copyVars, readers>>
    BY <1>3 DEF ReviewProgram, SetProgramArchived, DeleteProgram
  <2>2. \E row \in ProgramRows, was \in BOOLEAN :
          /\ programs' = [programs EXCEPT ![p] = row]
          /\ reviewed' = [reviewed EXCEPT ![p] = was]
          /\ row.status # "none" => row.data \in Data
          /\ row.status \in {"published", "archived"} => was
    <3>1. CASE ReviewProgram(e, p, b)
      <4> DEFINE row == [programs[p] EXCEPT !.status = IF b THEN "published" ELSE "rejected"]
      <4>1. row \in ProgramRows /\ programs' = [programs EXCEPT ![p] = row]
        BY <1>1, <3>1 DEF ReviewProgram, ProgramRows, Statuses
      <4>2. /\ reviewed' = [reviewed EXCEPT ![p] = b]
            /\ row.status # "none" => row.data \in Data
            /\ row.status \in {"published", "archived"} => b
        BY <1>1, <3>1 DEF ReviewProgram, ProgramRows, RowsSay
      <4> QED  BY <4>1, <4>2
    <3>2. CASE SetProgramArchived(e, p, b)
      <4> DEFINE row == [programs[p] EXCEPT !.status = IF b THEN "archived" ELSE "published"]
      <4>1. row \in ProgramRows /\ programs' = [programs EXCEPT ![p] = row]
        BY <1>1, <3>2 DEF SetProgramArchived, ProgramRows, Statuses
      <4>2. /\ programs[p].status \in {"published", "archived"}
            /\ reviewed' = [reviewed EXCEPT ![p] = reviewed[p]]
        BY <1>1, <3>2 DEF SetProgramArchived, Toggled
      <4>3. /\ row.status # "none" => row.data \in Data
            /\ reviewed[p] \in BOOLEAN /\ reviewed[p]
        BY <1>1, <4>2 DEF ProgramRows, RowsSay, PublicWasReviewed
      <4> QED  BY <4>1, <4>2, <4>3
    <3>3. CASE DeleteProgram(e, p, b, used)
      <4>1. NoProgram \in ProgramRows /\ NoProgram.status = "none"
        BY DEF NoProgram, ProgramRows, Statuses
      <4> QED  BY <3>3, <4>1 DEF DeleteProgram
    <3> QED  BY <1>3, <3>1, <3>2, <3>3
  <2>3. programs' \in [Programs -> ProgramRows] /\ reviewed' \in [Programs -> BOOLEAN]
    BY <1>1, <2>2
  <2>4. RowsSay' /\ PublicWasReviewed'
    BY <1>1, <2>2 DEF RowsSay, PublicWasReviewed
  <2> HIDE DEF CatalogueInv
  <2> QED  BY <1>1, <2>1, <2>3, <2>4, AnnouncedKeepsCatalogue
<1>4. ASSUME NEW y \in Years, SetDisplayLatestAcademicYear(e, y) PROVE CatalogueInv'
  <2>1. /\ displayYear' = y /\ Announced(e, {})
        /\ UNCHANGED <<programs, copyVars, readers, reviewed>>
    BY <1>4 DEF SetDisplayLatestAcademicYear
  <2>2. RowsSay' /\ PublicWasReviewed'
    BY <2>1 DEF RowsSay, PublicWasReviewed
  <2> HIDE DEF CatalogueInv
  <2> QED  BY <1>1, <2>1, <2>2, AnnouncedKeepsCatalogue
<1> QED  BY <1>2, <1>3, <1>4

\* A confirmed upload is reviewed by being confirmed, and announces nothing:
\* what it changed is remembered as such (ConfirmUpload).
LEMMA UploadKeepsCatalogue ==
    ASSUME CatalogueInv, NEW S \in SUBSET Programs, NEW d \in Data, ConfirmUpload(S, d)
    PROVE  CatalogueInv'
<1> USE DEF CatalogueInv, CatalogueHolds
<1> DEFINE after == Upserted(S, d)
<1>1. /\ programs' = [p \in Programs |-> IF p \in S
                         THEN [after[p] EXCEPT !.status = "published"] ELSE after[p]]
      /\ reviewed' = [p \in Programs |-> reviewed[p] \/ p \in S]
      /\ unannounced' = unannounced \cup S
      /\ \A p \in S : after[p].status \in {"pending", "published"}
      /\ displayYear' = displayYear /\ cached' = cached /\ pages' = pages
      /\ editors' = editors /\ readers' = readers /\ late' = late
  BY DEF ConfirmUpload, copyVars
<1>2. /\ after \in [Programs -> ProgramRows]
      /\ \A p \in Programs \ S : after[p] = programs[p]
      /\ \A p \in S : after[p].data \in Data
  <2>1. ASSUME NEW p \in S PROVE after[p].data \in Data
    <3>1. after[p] = Stored(p, d) \/ after[p] = programs[p]
      BY UpsertedRows
    <3>2. after[p].status # "none"
      BY <1>1
    <3> QED  BY <3>1, <3>2 DEF RowsSay, Stored
  <2> QED  BY <2>1, UpsertedRows
<1> HIDE DEF after
<1>3. /\ \A p \in S : /\ programs'[p].status = "published" /\ programs'[p].data \in Data
                      /\ programs'[p] \in ProgramRows
      /\ \A p \in Programs \ S : programs'[p] = programs[p]
      /\ programs' \in [Programs -> ProgramRows]
  BY <1>1, <1>2 DEF ProgramRows, Statuses
<1>4. CatalogueTypeOK'
  <2>1. /\ displayYear \in Years /\ cached \in [Queries -> Copies] /\ pages \in [Queries -> Copies]
        /\ editors \in [Editors -> EditorRows] /\ readers \in [Readers -> ReaderRows]
        /\ late \subseteq Readers \cup Queries /\ unannounced \subseteq Programs
    BY CatalogueRows
  <2>2. reviewed' \in [Programs -> BOOLEAN] /\ unannounced' \subseteq Programs
    BY <1>1, <2>1
  <2> QED  BY <1>1, <1>3, <2>1, <2>2
           DEF CatalogueTypeOK, ProgramRows, EditorRows, ReaderRows, Copies
<1>5. RowsSay' /\ PublicWasReviewed'
  BY <1>1, <1>3 DEF RowsSay, PublicWasReviewed
<1>6. \A q \in Queries : Fresh(q)' = Fresh(q) \/ q \cap unannounced' # {}
  <2> SUFFICES ASSUME NEW q \in Queries, q \cap S = {} PROVE Fresh(q)' = Fresh(q)
    BY <1>1
  <2>1. \A p \in q \cap Programs : programs'[p] = programs[p]
    BY <1>3
  <2> QED  BY <1>1, <2>1, AnswersDepend
<1>7. StaleIsExplained'
  BY <1>1, <1>6 DEF StaleIsExplained
<1>8. EditorsClear'
  BY <1>1 DEF EditorsClear
<1>9. \A r \in Readers : Explained(r)'
  BY <1>1, <1>6 DEF Explained
<1> QED  BY <1>4, <1>5, <1>7, <1>8, <1>9

\* A clearing that is carried out leaves nothing to explain, and one that
\* fails leaves what it did not reach as late (Clear, ClearFails).
LEMMA ClearingKeepsCatalogue ==
    ASSUME CatalogueInv, NEW e \in Editors,
           \/ \E q \in Queries : Clear(e, q)
           \/ Cleared(e) \/ ClearFails(e) \/ Purge(e)
    PROVE  CatalogueInv'
<1> USE DEF CatalogueInv, CatalogueHolds
<1>1. /\ programs' = programs /\ displayYear' = displayYear /\ readers' = readers
      /\ reviewed' = reviewed /\ unannounced' = unannounced
  BY DEF Clear, Cleared, ClearFails, Purge, storeVars, historyVars
<1>2. /\ editors \in [Editors -> EditorRows] /\ cached \in [Queries -> Copies]
      /\ pages \in [Queries -> Copies] /\ late \subseteq Readers \cup Queries
      /\ readers \in [Readers -> ReaderRows]
  BY CatalogueRows
<1>3. Nothing \in Copies /\ ~Nothing.held
  BY DEF Nothing, Copies
<1> DEFINE Fits ==
        /\ editors' \in [Editors -> EditorRows] /\ cached' \in [Queries -> Copies]
        /\ pages' \in [Queries -> Copies] /\ late' \subseteq Readers \cup Queries
        /\ EditorsClear'
        /\ \A q \in Queries : cached'[q] = cached[q] \/ ~cached'[q].held
        /\ \A q \in Queries : cached'[q].held =>
             /\ q \in late => q \in late'
             /\ \A x \in Editors :
                  q \in editors[x].left => q \in editors'[x].left \/ q \in late'
        /\ \A r \in Readers : r \in late => r \in late'
<1>4. ASSUME NEW q \in Queries, Clear(e, q) PROVE Fits
  <2>1. /\ q \in editors[e].left
        /\ cached' = [cached EXCEPT ![q] = Nothing]
        /\ editors' = [editors EXCEPT ![e].left = @ \ {q}]
        /\ late' = late \ {q} /\ pages' = pages
    BY <1>4 DEF Clear
  <2>2. q \notin Readers
    BY CatalogueAssumption
  <2>3. [editors[e] EXCEPT !.left = @ \ {q}] \in EditorRows
    BY <1>2 DEF EditorRows
  <2>4. /\ editors'[e].left = editors[e].left \ {q} /\ editors'[e].step = editors[e].step
        /\ \A x \in Editors \ {e} : editors'[x] = editors[x]
        /\ editors' \in [Editors -> EditorRows]
    BY <1>2, <2>1, <2>3 DEF EditorRows
  <2>5. /\ ~cached'[q].held /\ \A y \in Queries \ {q} : cached'[y] = cached[y]
        /\ cached' \in [Queries -> Copies]
    BY <1>2, <1>3, <2>1
  <2> QED  BY <1>2, <2>1, <2>2, <2>4, <2>5 DEF EditorsClear
<1>5. ASSUME Cleared(e) \/ ClearFails(e) \/ Purge(e) PROVE Fits
  <2>1. /\ cached' = cached
        /\ pages' = pages \/ pages' = [q \in Queries |-> Nothing]
        /\ \E row \in EditorRows : editors' = [editors EXCEPT ![e] = row] /\ row.left = {}
        /\ late' = late \cup editors[e].left
    <3>1. CASE Cleared(e)
      <4> DEFINE row == [editors[e] EXCEPT !.step = "purge"]
      <4>1. row \in EditorRows /\ row.left = {}
        BY <1>2, <3>1 DEF Cleared, EditorRows
      <4>2. editors' = [editors EXCEPT ![e] = row] /\ editors[e].left = {}
        BY <3>1 DEF Cleared
      <4> HIDE DEF row
      <4> QED  BY <3>1, <4>1, <4>2 DEF Cleared, copyVars, historyVars
    <3>2. CASE ClearFails(e)
      <4> DEFINE row == [step |-> "purge", left |-> {}]
      <4>1. row \in EditorRows /\ row.left = {}
        BY DEF EditorRows
      <4>2. editors' = [editors EXCEPT ![e] = row]
        BY <3>2 DEF ClearFails
      <4> HIDE DEF row
      <4> QED  BY <3>2, <4>1, <4>2 DEF ClearFails, copyVars
    <3>3. CASE Purge(e)
      <4>1. EditorIdle \in EditorRows /\ EditorIdle.left = {}
        BY DEF EditorIdle, EditorRows
      <4>2. editors[e].left = {}
        BY <3>3 DEF Purge, EditorsClear
      <4> QED  BY <3>3, <4>1, <4>2 DEF Purge, historyVars
    <3> QED  BY <1>5, <3>1, <3>2, <3>3
  <2>2. pages' \in [Queries -> Copies]
    BY <1>2, <1>3, <2>1
  <2>3. editors' \in [Editors -> EditorRows] /\ EditorsClear'
    BY <1>2, <2>1 DEF EditorRows, EditorsClear
  <2>4. late' \subseteq Readers \cup Queries
    BY <1>2, <2>1 DEF EditorRows
  <2>5. \A x \in Editors \ {e} : editors'[x] = editors[x]
    BY <1>2, <2>1
  <2>6. \A x \in Editors, q \in Queries :
          q \in editors[x].left => q \in editors'[x].left \/ q \in late'
    BY <2>1, <2>5
  <2>7. /\ cached' = cached
        /\ \A q \in Queries : q \in late => q \in late'
        /\ \A r \in Readers : r \in late => r \in late'
    BY <2>1
  <2> QED  BY <1>2, <2>2, <2>3, <2>4, <2>6, <2>7
<1> HIDE DEF Fits
<1>6. Fits
  BY <1>4, <1>5
<1>7. CatalogueTypeOK'
  BY <1>1, <1>2, <1>6, CatalogueRows
     DEF Fits, CatalogueTypeOK, ProgramRows, EditorRows, ReaderRows, Copies
<1>8. PublicWasReviewed' /\ RowsSay' /\ EditorsClear'
  BY <1>1, <1>6 DEF Fits, PublicWasReviewed, RowsSay
<1>9. \A q \in Queries : Fresh(q)' = Fresh(q)
  BY <1>1, AnswersDepend
<1>10. StaleIsExplained'
  BY <1>1, <1>6, <1>9 DEF Fits, StaleIsExplained
<1>11. \A r \in Readers : Explained(r)'
  BY <1>1, <1>6, <1>9 DEF Fits, Explained
<1> QED  BY <1>7, <1>8, <1>10, <1>11

\* A reader puts its answer together from statements between which a change
\* makes it late, and stores it under its own query (cached_repository.go).
LEMMA ReadingKeepsCatalogue ==
    ASSUME CatalogueInv, NEW r \in Readers,
           \/ \E q \in Queries : AskFor(r, q)
           \/ ReadRows(r) \/ ReadItems(r) \/ Answer(r)
    PROVE  CatalogueInv'
<1> USE DEF CatalogueInv, CatalogueHolds
<1>1. /\ programs' = programs /\ displayYear' = displayYear /\ cached' = cached
      /\ editors' = editors /\ reviewed' = reviewed /\ late' = late
      /\ unannounced' = unannounced
  BY DEF AskFor, ReadRows, ReadItems, Answer, storeVars, copyVars, historyVars
<1>2. /\ readers \in [Readers -> ReaderRows] /\ displayYear \in Years
      /\ cached \in [Queries -> Copies] /\ pages \in [Queries -> Copies]
      /\ programs \in [Programs -> ProgramRows]
  BY CatalogueRows
<1> DEFINE me == readers[r]
           Fits(row) == /\ row \in ReaderRows
                        /\ row.step # "idle" => row.query \in Queries
                        /\ row.step = "rows" => row.year \in Years
                        /\ r \notin late =>
                             /\ row.step = "rows" => row.year = displayYear
                             /\ row.step \in {"items", "keep"} =>
                                  \/ row.rows = Fresh(row.query)
                                  \/ row.query \cap unannounced # {}
<1>3. \E row \in ReaderRows : readers' = [readers EXCEPT ![r] = row] /\ Fits(row)
  <2>1. ASSUME NEW q \in Queries, AskFor(r, q)
        PROVE  \E row \in ReaderRows : readers' = [readers EXCEPT ![r] = row] /\ Fits(row)
    <3>1. CASE cached[q].held
      <4> DEFINE row == [ReaderIdle EXCEPT !.step = "answer", !.query = q,
                                          !.rows = cached[q].rows]
      <4>1. readers' = [readers EXCEPT ![r] = row]
        BY <2>1, <3>1 DEF AskFor
      <4>2. cached[q].rows \in SUBSET Shown
        BY <1>2, <2>1 DEF Copies
      <4>3. ReaderIdle \in ReaderRows
        BY DEF ReaderIdle, ReaderRows
      <4>4. row \in ReaderRows
        BY <2>1, <4>2, <4>3 DEF ReaderRows
      <4>5. row.step = "answer" /\ row.query = q
        BY <4>3 DEF ReaderRows
      <4> HIDE DEF row
      <4> QED  BY <2>1, <4>1, <4>4, <4>5
    <3>2. CASE ~cached[q].held
      <4> DEFINE row == [ReaderIdle EXCEPT !.step = "rows", !.query = q, !.year = displayYear]
      <4>1. readers' = [readers EXCEPT ![r] = row]
        BY <2>1, <3>2 DEF AskFor
      <4>2. ReaderIdle \in ReaderRows
        BY DEF ReaderIdle, ReaderRows
      <4>3. row \in ReaderRows /\ row.step = "rows" /\ row.query = q /\ row.year = displayYear
        BY <1>2, <2>1, <4>2 DEF ReaderRows
      <4> HIDE DEF row
      <4> QED  BY <1>2, <2>1, <4>1, <4>3
    <3> QED  BY <3>1, <3>2
  <2>2. CASE ReadRows(r)
    <3> DEFINE found == {<<p, programs[p].data, programs[p].data>> :
                            p \in ListPrograms(me.query, me.year)}
               row == [me EXCEPT !.step = "items", !.rows = found]
    <3>1. readers' = [readers EXCEPT ![r] = row] /\ me.step = "rows"
      BY <2>2 DEF ReadRows, At
    <3>2. found \subseteq Shown
      BY ShownRows
    <3>3. me \in ReaderRows /\ me.query \in Queries
      BY <1>2, <3>1 DEF Explained
    <3>4. r \notin late => found = Fresh(me.query)
      BY <3>1 DEF Explained, Fresh
    <3> HIDE DEF found
    <3>5. /\ row \in ReaderRows /\ row.step = "items" /\ row.query = me.query
          /\ row.rows = found
      BY <3>2, <3>3 DEF ReaderRows
    <3> HIDE DEF row
    <3> QED  BY <3>1, <3>3, <3>4, <3>5
  <2>3. CASE ReadItems(r)
    <3> DEFINE kept == {<<row[1], row[2], ItemsOf(row[1], row[2])>> : row \in me.rows}
               row == [me EXCEPT !.step = "keep", !.rows = kept]
    <3>1. readers' = [readers EXCEPT ![r] = row] /\ me.step = "items"
      BY <2>3 DEF ReadItems, At
    <3>2. me \in ReaderRows /\ me.query \in Queries /\ me.rows \subseteq Shown
      BY <1>2, <3>1 DEF Explained, ReaderRows
    <3>3. \A p \in Programs, d \in Data : ItemsOf(p, d) \in Data
      BY <1>2 DEF ItemsOf, ProgramRows
    <3>4. kept \subseteq Shown
      BY <3>2, <3>3 DEF Shown
    <3>5. me.rows = Fresh(me.query) => kept = Fresh(me.query)
      <4>1. \A p \in ListPrograms(me.query, displayYear) :
              ItemsOf(p, programs[p].data) = programs[p].data
        BY DEF ItemsOf
      <4> QED  BY <4>1 DEF Fresh
    <3>6. r \notin late => me.rows = Fresh(me.query) \/ me.query \cap unannounced # {}
      BY <3>1 DEF Explained
    <3> HIDE DEF kept
    <3>7. /\ row \in ReaderRows /\ row.step = "keep" /\ row.query = me.query
          /\ row.rows = kept
      BY <3>2, <3>4 DEF ReaderRows
    <3> HIDE DEF row
    <3> QED  BY <3>1, <3>2, <3>5, <3>6, <3>7
  <2>4. CASE Answer(r)
    <3>1. readers' = [readers EXCEPT ![r] = ReaderIdle]
      BY <2>4 DEF Answer
    <3>2. ReaderIdle \in ReaderRows /\ ReaderIdle.step = "idle"
      BY DEF ReaderIdle, ReaderRows
    <3> QED  BY <3>1, <3>2
  <2> QED  BY <2>1, <2>2, <2>3, <2>4
<1>4. PICK row \in ReaderRows : readers' = [readers EXCEPT ![r] = row] /\ Fits(row)
  BY <1>3
<1>5. /\ readers' \in [Readers -> ReaderRows] /\ readers'[r] = row
      /\ \A x \in Readers \ {r} : readers'[x] = readers[x]
  BY <1>2, <1>4
<1>6. pages' \in [Queries -> Copies]
  <2>1. CASE Answer(r)
    <3>1. me.query \in Queries /\ Holding(me.rows) \in Copies
      BY <1>2, <2>1 DEF Answer, At, Explained, Holding, Copies, ReaderRows
    <3> QED  BY <1>2, <2>1, <3>1 DEF Answer
  <2>2. CASE ~Answer(r)
    BY <1>2, <2>2 DEF AskFor, ReadRows, ReadItems, copyVars
  <2> QED  BY <2>1, <2>2
<1>7. CatalogueTypeOK'
  BY <1>1, <1>5, <1>6, CatalogueRows
     DEF CatalogueTypeOK, ProgramRows, EditorRows, ReaderRows, Copies
<1>8. \A q \in Queries : Fresh(q)' = Fresh(q)
  BY <1>1, AnswersDepend
<1>9. PublicWasReviewed' /\ RowsSay' /\ EditorsClear' /\ StaleIsExplained'
  BY <1>1, <1>8 DEF PublicWasReviewed, RowsSay, EditorsClear, StaleIsExplained
<1>10. ASSUME NEW x \in Readers PROVE Explained(x)'
  <2>1. CASE x = r
    BY <1>1, <1>4, <1>5, <1>8, <2>1 DEF Explained
  <2>2. CASE x # r
    BY <1>1, <1>5, <1>8, <2>2 DEF Explained
  <2> QED  BY <2>1, <2>2
<1> QED  BY <1>7, <1>9, <1>10

\* What a late reader stores is late, what any other stores is the answer, and
\* what expires needs no explanation (setCached).
LEMMA StoringKeepsCatalogue ==
    ASSUME CatalogueInv,
           (\E r \in Readers : setCached(r)) \/ (\E q \in Queries : Expire(q))
    PROVE  CatalogueInv'
<1> USE DEF CatalogueInv, CatalogueHolds
<1>1. /\ programs' = programs /\ displayYear' = displayYear /\ pages' = pages
      /\ editors' = editors /\ reviewed' = reviewed /\ unannounced' = unannounced
  BY DEF setCached, Expire, storeVars
<1>2. /\ readers \in [Readers -> ReaderRows] /\ cached \in [Queries -> Copies]
      /\ late \subseteq Readers \cup Queries
  BY CatalogueRows
<1>3. \A q \in Queries : Fresh(q)' = Fresh(q)
  BY <1>1, AnswersDepend
<1>4. PublicWasReviewed' /\ RowsSay' /\ EditorsClear'
  BY <1>1 DEF PublicWasReviewed, RowsSay, EditorsClear
<1>5. ASSUME NEW r \in Readers, setCached(r) PROVE CatalogueInv'
  <2> DEFINE q == readers[r].query
             rows == readers[r].rows
  <2>1. /\ q \in Queries /\ rows \in SUBSET Shown
        /\ r \notin late => rows = Fresh(q) \/ q \cap unannounced # {}
        /\ q \notin Readers /\ r \notin Queries
    BY <1>2, <1>5, CatalogueAssumption DEF setCached, At, Explained, ReaderRows
  <2>2. readers' = [readers EXCEPT ![r].step = "answer"]
    BY <1>5 DEF setCached
  <2>3. /\ readers' \in [Readers -> ReaderRows]
        /\ readers'[r].step = "answer" /\ readers'[r].query = q
        /\ \A x \in Readers \ {r} : readers'[x] = readers[x]
    BY <1>2, <2>2 DEF ReaderRows
  <2>4. \/ /\ cached' = [cached EXCEPT ![q] = Holding(rows)]
           /\ late' = (late \ {r, q}) \cup (IF r \in late THEN {q} ELSE {})
        \/ cached' = cached /\ late' = late \ {r}
    BY <1>5 DEF setCached
  <2> HIDE DEF q, rows
  <2>5. Holding(rows) \in Copies /\ Holding(rows).rows = rows
    BY <2>1 DEF Holding, Copies
  <2>6. cached' \in [Queries -> Copies] /\ late' \subseteq Readers \cup Queries
    BY <1>2, <2>1, <2>4, <2>5
  <2>7. CatalogueTypeOK'
    BY <1>1, <2>3, <2>6, CatalogueRows
       DEF CatalogueTypeOK, ProgramRows, EditorRows, ReaderRows, Copies
  <2>8. ASSUME NEW y \in Queries, cached'[y].held, cached'[y].rows # Fresh(y)
        PROVE  \/ \E e \in Editors : y \in editors[e].left
               \/ y \in late'
               \/ y \cap unannounced # {}
    <3>1. CASE cached' = cached /\ late' = late \ {r}
      BY <2>1, <2>8, <3>1 DEF StaleIsExplained
    <3>2. CASE /\ cached' = [cached EXCEPT ![q] = Holding(rows)]
               /\ late' = (late \ {r, q}) \cup (IF r \in late THEN {q} ELSE {})
      <4>1. CASE y = q
        <5>1. cached'[y].rows = rows
          BY <1>2, <2>1, <2>5, <3>2, <4>1
        <5>2. r \in late => y \in late'
          BY <3>2, <4>1
        <5> QED  BY <2>1, <2>8, <4>1, <5>1, <5>2
      <4>2. CASE y # q
        <5>1. cached'[y] = cached[y]
          BY <1>2, <3>2, <4>2
        <5>2. y \in late => y \in late'
          BY <2>1, <3>2, <4>2
        <5> QED  BY <2>8, <5>1, <5>2 DEF StaleIsExplained
      <4> QED  BY <4>1, <4>2
    <3> QED  BY <2>4, <3>1, <3>2
  <2>9. StaleIsExplained'
    BY <1>1, <1>3, <2>8 DEF StaleIsExplained
  <2>10. \A x \in Readers \ {r} : x \in late => x \in late'
    BY <2>1, <2>4
  <2>11. ASSUME NEW x \in Readers PROVE Explained(x)'
    <3>1. CASE x = r
      BY <2>1, <2>3, <3>1 DEF Explained
    <3>2. CASE x # r
      BY <1>1, <1>3, <2>3, <2>10, <3>2 DEF Explained
    <3> QED  BY <3>1, <3>2
  <2> QED  BY <1>4, <2>7, <2>9, <2>11
<1>6. ASSUME NEW q \in Queries, Expire(q) PROVE CatalogueInv'
  <2>1. /\ cached' = [cached EXCEPT ![q] = Nothing] /\ late' = late \ {q}
        /\ readers' = readers
    BY <1>6 DEF Expire
  <2>2. Nothing \in Copies /\ ~Nothing.held
    BY DEF Nothing, Copies
  <2>3. /\ cached' \in [Queries -> Copies] /\ ~cached'[q].held
        /\ \A y \in Queries \ {q} : cached'[y] = cached[y]
    BY <1>2, <2>1, <2>2
  <2>4. CatalogueTypeOK'
    BY <1>1, <1>2, <2>1, <2>3, CatalogueRows
       DEF CatalogueTypeOK, ProgramRows, EditorRows, ReaderRows, Copies
  <2>5. StaleIsExplained'
    BY <1>1, <1>3, <2>1, <2>3 DEF StaleIsExplained
  <2>6. q \notin Readers
    BY CatalogueAssumption
  <2>7. \A x \in Readers : Explained(x)'
    BY <1>1, <1>3, <2>1, <2>6 DEF Explained
  <2> QED  BY <1>4, <2>4, <2>5, <2>7
<1> QED  BY <1>5, <1>6

\* The catalogue under every change, clearing and reading, whatever keeps a
\* programme from being deleted.
LEMMA CatalogueSteps ==
    ASSUME CatalogueInv, NEW used, Changes(used) \/ Clearing \/ Reading
    PROVE  CatalogueInv'
<1>1. CASE Changes(used)
  BY <1>1, ChangesKeepCatalogue, UploadKeepsCatalogue DEF Changes
<1>2. CASE Clearing
  BY <1>2, ClearingKeepsCatalogue DEF Clearing
<1>3. CASE Reading
  BY <1>3, ReadingKeepsCatalogue, StoringKeepsCatalogue DEF Reading
<1> QED  BY <1>1, <1>2, <1>3

\* What leaves the catalogue alone.
LEMMA CatalogueStays == CatalogueInv /\ UNCHANGED catalogueVars => CatalogueInv'
<1> SUFFICES ASSUME CatalogueInv, UNCHANGED catalogueVars PROVE CatalogueInv'
  OBVIOUS
<1>1. UNCHANGED <<programs, displayYear, cached, pages, editors, readers, reviewed, late,
                  unannounced>>
  BY DEF catalogueVars, storeVars, copyVars, historyVars
<1>2. \A q : Fresh(q)' = Fresh(q)
  BY <1>1, AnswersDepend
<1>3. CatalogueTypeOK'
  BY <1>1 DEF CatalogueInv, CatalogueHolds, CatalogueTypeOK
<1>4. /\ PublicWasReviewed' /\ StaleIsExplained' /\ RowsSay' /\ EditorsClear'
      /\ \A r \in Readers : Explained(r)'
  BY <1>1, <1>2
     DEF CatalogueInv, CatalogueHolds, PublicWasReviewed, StaleIsExplained, RowsSay,
         EditorsClear, Explained
<1> QED  BY <1>3, <1>4 DEF CatalogueInv, CatalogueHolds

-----------------------------------------------------------------------------
(***************************************************************************)
(* Applications and the forum.                                             *)

\* A ticket names who asked, and for what (CreateServiceTicket).
TicketsName ==
    \A t \in Tickets :
        tickets[t].status # "none" => tickets[t].member \in Members /\ tickets[t].program \in Programs

ApplicationsInv ==
    /\ ApplicationsTypeOK /\ SpacesFollowApplications
    /\ ApprovedTicketsApplied /\ NothingFallsOut
    /\ TicketsName /\ Global \in spaces

\* Somebody who has joined a space did so by an application (JoinSpace).
Joined(m, s) ==
    s # Global =>
        /\ memberships[<<m, s>>] # "none"
        /\ \E a \in applied : a[1] = m /\ s \in {Annual(YearOf[a[2]]), OfProgram(a[2])}

\* Threads stand in spaces, posts and running statements in threads, and whose
\* they are had joined (CreateThread, CreatePost).
BoardInv ==
    /\ \A t \in ThreadIds : threads[t] # NoThreadYet => threads[t].space \in spaces
    /\ \A x \in PostIds :
         replies[x] # NoReplyYet =>
            /\ replies[x].author \in Members /\ replies[x].thread \in ThreadIds
            /\ threads[replies[x].thread] # NoThreadYet
            /\ Joined(replies[x].author, threads[replies[x].thread].space)
    /\ \A m \in Members :
         writing[m] # NoThread =>
            /\ writing[m] \in ThreadIds /\ threads[writing[m]] # NoThreadYet
            /\ Joined(m, threads[writing[m]].space)

Written(e) == {v \in Versions : revisions[<<e, v>>] # "none"}

\* Revisions are numbered from 1 without a gap, and the public one is approved
\* (CreateRevision, ReviewExperience).
Numbered(e) ==
    /\ \E n \in Nat : Written(e) = 1..n
    /\ reports[e] = NoReport => Written(e) = {}
    /\ reports[e].visibility = "published" =>
         reports[e].current # 0 /\ revisions[<<e, reports[e].current>>] = "approved"

SpacesInv ==
    /\ ApplicationsInv
    /\ ForumTypeOK /\ BoardInv
    /\ \A e \in Reports : Numbered(e)

\* At first there is the global space, and nothing in it (ApplicationsInit,
\* ForumInit).
LEMMA SpacesBegin == ApplicationsInit /\ ForumInit => SpacesInv
<1> SUFFICES ASSUME ApplicationsInit, ForumInit PROVE SpacesInv
  OBVIOUS
<1>1. ApplicationsInv
  BY DEF ApplicationsInit, ApplicationsInv, ApplicationsTypeOK, SpacesFollowApplications,
         ApprovedTicketsApplied, NothingFallsOut, TicketsName, NoTicket, Spaces
<1>2. ForumTypeOK /\ BoardInv
  BY DEF ForumInit, ForumTypeOK, BoardInv, NoThreadYet, NoReplyYet, NoReport
<1>3. ASSUME NEW e \in Reports PROVE Numbered(e)
  <2>1. Written(e) = {} /\ 1..0 = {}
    BY DEF ForumInit, Written
  <2> QED  BY <2>1 DEF ForumInit, Numbered, NoReport
<1> QED  BY <1>1, <1>2, <1>3 DEF SpacesInv

\* The invariant implies what is promised of the forum.
LEMMA SpacesInvSuffices == SpacesInv => SpacesHold
<1> SUFFICES ASSUME SpacesInv PROVE SpacesHold
  OBVIOUS
<1>1. AnswerableIsReadable
  BY DEF SpacesInv, BoardInv, ForumTypeOK, AnswerableIsReadable, Answers, MayWrite, MayJoin,
         ListSpaces, ListThreads
<1>2. PostersHadJoined
  BY DEF SpacesInv, BoardInv, PostersHadJoined, Joined
<1>3. PublicWasApproved
  BY DEF SpacesInv, Numbered, PublicWasApproved, ListPublishedExperiences, GetExperience
<1> QED  BY <1>1, <1>2, <1>3 DEF SpacesInv, ApplicationsInv, SpacesHold

-----------------------------------------------------------------------------

\* Applications come with their spaces, by whichever way they are made
\* (CreateConfirmed, ReviewServiceTicket).
LEMMA AppliedWithSpaces ==
    ASSUME ApplicationsInv, NEW m \in Members, NEW S \in SUBSET Programs,
           applied' = applied \cup {<<m, p>> : p \in S}, Opened(S),
           \A p \in S : programs[p].status # "none"
    PROVE  /\ applied' \subseteq Members \X Programs /\ spaces' \subseteq Spaces
           /\ spaces \subseteq spaces'
           /\ \A a \in applied' : {Annual(YearOf[a[2]]), OfProgram(a[2])} \subseteq spaces'
           /\ \A a \in applied' : programs[a[2]].status # "none"
<1>1. \A a \in applied' : a \in applied \/ \E p \in S : a = <<m, p>>
  OBVIOUS
<1>2. \A p \in S : Annual(YearOf[p]) \in Spaces /\ OfProgram(p) \in Spaces
  BY CatalogueAssumption DEF Spaces
<1>3. /\ \A p \in S : Annual(YearOf[p]) \in spaces' /\ OfProgram(p) \in spaces'
      /\ spaces \subseteq spaces'
  BY DEF Opened
<1>4. spaces' \subseteq Spaces
  BY <1>2 DEF Opened, ApplicationsInv, ApplicationsTypeOK
<1>5. applied' \subseteq Members \X Programs
  BY DEF ApplicationsInv, ApplicationsTypeOK
<1>6. \A a \in applied' : {Annual(YearOf[a[2]]), OfProgram(a[2])} \subseteq spaces'
  BY <1>1, <1>3 DEF ApplicationsInv, SpacesFollowApplications
<1>7. \A a \in applied' : programs[a[2]].status # "none"
  BY <1>1 DEF ApplicationsInv, NothingFallsOut
<1> QED  BY <1>3, <1>4, <1>5, <1>6, <1>7

\* Whoever applies keeps what was applied for and opened before (Applying).
LEMMA ApplyingKeepsApplications ==
    ASSUME ApplicationsInv, Applying, UNCHANGED programs
    PROVE  ApplicationsInv' /\ applied \subseteq applied' /\ spaces \subseteq spaces'
<1> USE DEF ApplicationsInv
<1>1. ASSUME NEW m \in Members, NEW S \in SUBSET Programs, CreateConfirmed(m, S)
      PROVE  ApplicationsInv' /\ applied \subseteq applied' /\ spaces \subseteq spaces'
  <2>1. /\ applied' = applied \cup {<<m, p>> : p \in S} /\ Opened(S)
        /\ identity' = identity /\ tickets' = tickets
        /\ \A p \in S : programs[p].status # "none"
    BY <1>1 DEF CreateConfirmed, Insertable
  <2> HIDE DEF ApplicationsInv
  <2>2. /\ applied' \subseteq Members \X Programs /\ spaces' \subseteq Spaces
        /\ spaces \subseteq spaces' /\ applied \subseteq applied'
        /\ \A a \in applied' : {Annual(YearOf[a[2]]), OfProgram(a[2])} \subseteq spaces'
        /\ \A a \in applied' : programs[a[2]].status # "none"
    BY <2>1, AppliedWithSpaces
  <2> QED
    BY <2>1, <2>2
       DEF ApplicationsInv, ApplicationsTypeOK, SpacesFollowApplications,
           ApprovedTicketsApplied, NothingFallsOut, TicketsName
<1>2. ASSUME NEW t \in Tickets, NEW m \in Members, NEW p \in Programs,
             CreateServiceTicket(t, m, p)
      PROVE  ApplicationsInv' /\ applied \subseteq applied' /\ spaces \subseteq spaces'
  <2>1. /\ tickets' = [tickets EXCEPT ![t] = [status |-> "open", member |-> m, program |-> p]]
        /\ programs[p].status # "none"
        /\ identity' = identity /\ applied' = applied /\ spaces' = spaces
    BY <1>2 DEF CreateServiceTicket
  <2>2. /\ ApplicationsTypeOK' /\ SpacesFollowApplications'
    BY <2>1 DEF ApplicationsTypeOK, SpacesFollowApplications
  <2>3. /\ tickets'[t] = [status |-> "open", member |-> m, program |-> p]
        /\ \A u \in Tickets \ {t} : tickets'[u] = tickets[u]
    BY <2>1 DEF ApplicationsTypeOK
  <2> QED
    BY <2>1, <2>2, <2>3 DEF ApprovedTicketsApplied, NothingFallsOut, TicketsName
<1>3. ASSUME NEW t \in Tickets, NEW b \in BOOLEAN, ReviewServiceTicket(t, b)
      PROVE  ApplicationsInv' /\ applied \subseteq applied' /\ spaces \subseteq spaces'
  <2> DEFINE m == tickets[t].member
             p == tickets[t].program
  <2>1. /\ m \in Members /\ p \in Programs
        /\ tickets' = [tickets EXCEPT ![t].status = IF b THEN "approved" ELSE "rejected"]
        /\ identity' = identity
        /\ \/ b /\ Granted(m, p)
           \/ ~b /\ applied' = applied /\ spaces' = spaces
    BY <1>3 DEF ReviewServiceTicket, TicketsName
  <2>2. /\ tickets' \in [Tickets -> [status : {"none", "open", "approved", "rejected"},
                                     member : Members \cup {NoOne},
                                     program : Programs \cup {NoProgramme}]]
        /\ tickets'[t].member = m /\ tickets'[t].program = p
        /\ tickets'[t].status = "approved" => b
        /\ \A u \in Tickets \ {t} : tickets'[u] = tickets[u]
        /\ programs[p].status # "none"
    BY <1>3, <2>1 DEF ApplicationsTypeOK, ReviewServiceTicket, NothingFallsOut
  <2> HIDE DEF m, p
  <2>3. CASE b /\ Granted(m, p)
    <3>1. /\ applied' = applied \cup {<<m, q>> : q \in {p}} /\ Opened({p})
          /\ <<m, p>> \in applied'
      BY <2>3 DEF Granted
    <3> HIDE DEF ApplicationsInv
    <3>2. /\ applied' \subseteq Members \X Programs /\ spaces' \subseteq Spaces
          /\ spaces \subseteq spaces' /\ applied \subseteq applied'
          /\ \A a \in applied' : {Annual(YearOf[a[2]]), OfProgram(a[2])} \subseteq spaces'
          /\ \A a \in applied' : programs[a[2]].status # "none"
      BY <2>1, <2>2, <3>1, AppliedWithSpaces
    <3>3. ApplicationsTypeOK'
      BY <2>1, <2>2, <3>2 DEF ApplicationsInv, ApplicationsTypeOK
    <3>4. ApprovedTicketsApplied' /\ NothingFallsOut' /\ TicketsName'
      BY <2>1, <2>2, <3>1, <3>2
         DEF ApplicationsInv, ApprovedTicketsApplied, NothingFallsOut, TicketsName
    <3> QED  BY <3>2, <3>3, <3>4 DEF ApplicationsInv, SpacesFollowApplications
  <2>4. CASE ~b /\ applied' = applied /\ spaces' = spaces
    <3>1. ApplicationsTypeOK' /\ SpacesFollowApplications'
      BY <2>1, <2>2, <2>4 DEF ApplicationsTypeOK, SpacesFollowApplications
    <3>2. ApprovedTicketsApplied' /\ NothingFallsOut' /\ TicketsName'
      BY <2>1, <2>2, <2>4 DEF ApprovedTicketsApplied, NothingFallsOut, TicketsName
    <3> QED  BY <2>4, <3>1, <3>2
  <2> QED  BY <2>1, <2>3, <2>4
<1>4. ASSUME NEW m \in Members, NEW i \in {"temporary", "student", "senior"},
             IdentityChanges(m, i)
      PROVE  ApplicationsInv' /\ applied \subseteq applied' /\ spaces \subseteq spaces'
  BY <1>4 DEF IdentityChanges, ApplicationsTypeOK, SpacesFollowApplications,
              ApprovedTicketsApplied, NothingFallsOut, TicketsName
<1> QED  BY <1>1, <1>2, <1>3, <1>4 DEF Applying

\* A programme that somebody refers to is not deleted, and no other change or
\* reading takes one away (DeleteProgram).
LEMMA ReferredStay ==
    ASSUME CatalogueInv, Changes(Referred) \/ Clearing \/ Reading,
           NEW p \in Referred, programs[p].status # "none"
    PROVE  programs'[p].status # "none"
<1> USE DEF CatalogueInv, CatalogueHolds
<1>1. p \in Programs /\ programs \in [Programs -> ProgramRows]
  BY CatalogueRows DEF Referred
<1>2. ASSUME NEW e \in Editors, NEW S \in SUBSET Programs, NEW d \in Data,
             UpsertPrograms(e, S, d)
      PROVE  programs'[p].status # "none"
  <2>1. Upserted(S, d)[p] = Stored(p, d) \/ Upserted(S, d)[p] = programs[p]
    BY <1>1, UpsertedRows
  <2> QED  BY <1>2, <2>1 DEF UpsertPrograms, Stored
<1>3. ASSUME NEW S \in SUBSET Programs, NEW d \in Data, ConfirmUpload(S, d)
      PROVE  programs'[p].status # "none"
  <2> DEFINE after == Upserted(S, d)
  <2>1. /\ after[p] = Stored(p, d) \/ after[p] = programs[p]
        /\ after \in [Programs -> ProgramRows]
    BY <1>1, UpsertedRows
  <2>2. programs' = [q \in Programs |-> IF q \in S
                         THEN [after[q] EXCEPT !.status = "published"] ELSE after[q]]
    BY <1>3 DEF ConfirmUpload
  <2> HIDE DEF after
  <2> QED  BY <1>1, <2>1, <2>2 DEF ProgramRows, Stored
<1>4. ASSUME NEW e \in Editors, NEW q \in Programs, NEW b \in BOOLEAN,
             \/ ReviewProgram(e, q, b) \/ SetProgramArchived(e, q, b)
             \/ DeleteProgram(e, q, b, Referred)
      PROVE  programs'[p].status # "none"
  BY <1>1, <1>4 DEF ReviewProgram, SetProgramArchived, DeleteProgram, ProgramRows
<1>5. ASSUME NEW e \in Editors, NEW y \in Years, SetDisplayLatestAcademicYear(e, y)
      PROVE  programs'[p].status # "none"
  BY <1>5 DEF SetDisplayLatestAcademicYear
<1>6. CASE Clearing \/ Reading
  BY <1>6 DEF Clearing, Clear, Cleared, ClearFails, Purge, Reading, AskFor, ReadRows, ReadItems,
              setCached, Answer, Expire, storeVars
<1> QED  BY <1>2, <1>3, <1>4, <1>5, <1>6 DEF Changes

\* The catalogue takes nothing out of the lists of applications and tickets
\* (ListOpenServiceTickets).
LEMMA CatalogueKeepsApplications ==
    ASSUME CatalogueInv, ApplicationsInv, Changes(Referred) \/ Clearing \/ Reading,
           UNCHANGED applicationVars
    PROVE  ApplicationsInv'
<1>1. UNCHANGED <<identity, applied, tickets, spaces>>
  BY DEF applicationVars
<1>2. \A t \in Tickets : tickets[t].status # "none" => programs'[tickets[t].program].status # "none"
  <2> SUFFICES ASSUME NEW t \in Tickets, tickets[t].status # "none"
               PROVE  programs'[tickets[t].program].status # "none"
    OBVIOUS
  <2>1. tickets[t].program \in Referred /\ programs[tickets[t].program].status # "none"
    BY DEF ApplicationsInv, TicketsName, NothingFallsOut, Referred
  <2> QED  BY <2>1, ReferredStay
<1>3. \A a \in applied : programs'[a[2]].status # "none"
  <2> SUFFICES ASSUME NEW a \in applied PROVE programs'[a[2]].status # "none"
    OBVIOUS
  <2>1. a = <<a[1], a[2]>> /\ a[1] \in Members /\ a[2] \in Programs
    BY DEF ApplicationsInv, ApplicationsTypeOK
  <2>2. a[2] \in Referred /\ programs[a[2]].status # "none"
    BY <2>1 DEF ApplicationsInv, NothingFallsOut, Referred
  <2> QED  BY <2>2, ReferredStay
<1> QED
  BY <1>1, <1>2, <1>3
     DEF ApplicationsInv, ApplicationsTypeOK, SpacesFollowApplications, ApprovedTicketsApplied,
         NothingFallsOut, TicketsName

-----------------------------------------------------------------------------

ThreadRows == [space : Spaces \cup {NoSpace}, author : Members \cup {NoOne},
               status : {"none", "published", "locked", "removed", "archived"}]
ReplyRows == [thread : ThreadIds \cup {NoThread}, author : Members \cup {NoOne},
              status : {"none", "published", "removed", "archived"}]
ReportRows == [author : Members \cup {NoOne},
               visibility : {"none", "hidden", "published", "unpublished"},
               current : Versions \cup {0}]
Marks == {"none", "draft", "pending_review", "approved", "rejected"}

\* The rows of the forum, each by its own set.
LEMMA ForumRows ==
    ForumTypeOK <=>
        /\ memberships \in [Members \X Spaces -> {"none", "active", "removed"}]
        /\ threads \in [ThreadIds -> ThreadRows] /\ replies \in [PostIds -> ReplyRows]
        /\ writing \in [Members -> ThreadIds \cup {NoThread}]
        /\ reports \in [Reports -> ReportRows]
        /\ revisions \in [Reports \X Versions -> Marks]
BY DEF ForumTypeOK, ThreadRows, ReplyRows, ReportRows, Marks

\* A post or a statement keeps its place as long as applications, spaces and
\* rows of memberships only grow (LeaveSpace).
LEMMA BoardGrows ==
    ASSUME ApplicationsInv, ForumTypeOK, BoardInv,
           threads' = threads, replies' = replies, writing' = writing,
           applied \subseteq applied', spaces \subseteq spaces',
           \A n \in Members, r \in Spaces :
               memberships[<<n, r>>] # "none" => memberships'[<<n, r>>] # "none"
    PROVE  BoardInv'
<1>1. \A n \in Members, r \in spaces : Joined(n, r) => Joined(n, r)'
  BY DEF Joined, ApplicationsInv, ApplicationsTypeOK
<1>2. \A t \in ThreadIds : threads[t] # NoThreadYet => threads[t].space \in spaces
  BY DEF BoardInv
<1>3. \A t \in ThreadIds : threads'[t] # NoThreadYet => threads'[t].space \in spaces'
  BY <1>2
<1>4. ASSUME NEW x \in PostIds, replies[x] # NoReplyYet
      PROVE  /\ replies[x].author \in Members /\ replies[x].thread \in ThreadIds
             /\ threads[replies[x].thread] # NoThreadYet
             /\ Joined(replies[x].author, threads[replies[x].thread].space)'
  BY <1>1, <1>2, <1>4 DEF BoardInv
<1>5. ASSUME NEW m \in Members, writing[m] # NoThread
      PROVE  /\ writing[m] \in ThreadIds /\ threads[writing[m]] # NoThreadYet
             /\ Joined(m, threads[writing[m]].space)'
  BY <1>1, <1>2, <1>5 DEF BoardInv
<1> QED  BY <1>3, <1>4, <1>5 DEF BoardInv

\* Members join and leave: a membership that was there once stays a row
\* (JoinSpace, LeaveSpace).
LEMMA JoiningKeepsBoard ==
    ASSUME SpacesInv, UNCHANGED applicationVars,
           NEW m \in Members, NEW s \in Spaces, JoinSpace(m, s) \/ LeaveSpace(m, s)
    PROVE  ForumTypeOK' /\ BoardInv'
<1> USE DEF SpacesInv
<1>1. /\ threads' = threads /\ replies' = replies /\ writing' = writing
      /\ reports' = reports /\ revisions' = revisions
      /\ applied' = applied /\ spaces' = spaces
      /\ \E how \in {"active", "removed"} :
           memberships' = [memberships EXCEPT ![<<m, s>>] = how]
  BY DEF JoinSpace, LeaveSpace, reportVars, applicationVars
<1>2. memberships \in [Members \X Spaces -> {"none", "active", "removed"}]
  BY ForumRows
<1>3. memberships' \in [Members \X Spaces -> {"none", "active", "removed"}]
  BY <1>1, <1>2
<1>4. \A n \in Members, r \in Spaces :
        memberships[<<n, r>>] # "none" => memberships'[<<n, r>>] # "none"
  BY <1>1, <1>2
<1>5. ForumTypeOK'
  BY <1>1, <1>3 DEF ForumTypeOK
<1> QED  BY <1>1, <1>4, <1>5, BoardGrows

\* Whoever may write has joined (CreateThread, CreatePost).
LEMMA WritersJoined ==
    ASSUME NEW m, NEW s, MayWrite(m, s)
    PROVE  Joined(m, s)
BY DEF MayWrite, MayJoin, Joined

\* A thread comes with its first post, in a space its author may write in
\* (CreateThread).
LEMMA OpeningKeepsBoard ==
    ASSUME SpacesInv, UNCHANGED applicationVars,
           NEW m \in Members, NEW t \in ThreadIds, NEW x \in PostIds, NEW s \in Spaces,
           CreateThread(m, t, x, s)
    PROVE  ForumTypeOK' /\ BoardInv'
<1> USE DEF SpacesInv
<1>1. /\ memberships' = memberships /\ writing' = writing
      /\ reports' = reports /\ revisions' = revisions
      /\ applied' = applied /\ spaces' = spaces
      /\ threads[t] = NoThreadYet /\ replies[x] = NoReplyYet
      /\ s \in spaces /\ MayWrite(m, s)
      /\ threads' = [threads EXCEPT ![t] = [space |-> s, author |-> m, status |-> "published"]]
      /\ replies' = [replies EXCEPT ![x] = NewReply(m, t)]
  BY DEF CreateThread, reportVars, applicationVars
<1>2. threads \in [ThreadIds -> ThreadRows] /\ replies \in [PostIds -> ReplyRows]
  BY ForumRows
<1>3. /\ threads' \in [ThreadIds -> ThreadRows]
      /\ threads'[t] = [space |-> s, author |-> m, status |-> "published"]
      /\ \A u \in ThreadIds \ {t} : threads'[u] = threads[u]
  BY <1>1, <1>2 DEF ThreadRows
<1>4. /\ replies' \in [PostIds -> ReplyRows]
      /\ replies'[x] = NewReply(m, t)
      /\ \A y \in PostIds \ {x} : replies'[y] = replies[y]
  BY <1>1, <1>2 DEF ReplyRows, NewReply
<1>5. ForumTypeOK'
  BY <1>1, <1>3, <1>4 DEF ForumTypeOK, ThreadRows, ReplyRows
<1>6. \A n, r : Joined(n, r)' <=> Joined(n, r)
  BY <1>1 DEF Joined
<1>7. threads'[t] # NoThreadYet /\ threads'[t].space = s
  BY <1>3 DEF NoThreadYet
<1>8. \A u \in ThreadIds : threads'[u] # NoThreadYet => threads'[u].space \in spaces'
  BY <1>1, <1>3, <1>7 DEF BoardInv
<1>9. ASSUME NEW y \in PostIds, replies'[y] # NoReplyYet
      PROVE  /\ replies'[y].author \in Members /\ replies'[y].thread \in ThreadIds
             /\ threads'[replies'[y].thread] # NoThreadYet
             /\ Joined(replies'[y].author, threads'[replies'[y].thread].space)
  <2>1. CASE y = x
    <3>1. replies'[y].author = m /\ replies'[y].thread = t
      BY <1>4, <2>1 DEF NewReply
    <3>2. Joined(m, s)
      BY <1>1, WritersJoined
    <3> QED  BY <1>7, <3>1, <3>2
  <2>2. CASE y # x
    BY <1>1, <1>3, <1>4, <1>9, <2>2 DEF BoardInv
  <2> QED  BY <2>1, <2>2
<1>10. ASSUME NEW n \in Members, writing'[n] # NoThread
       PROVE  /\ writing'[n] \in ThreadIds /\ threads'[writing'[n]] # NoThreadYet
              /\ Joined(n, threads'[writing'[n]].space)
  BY <1>1, <1>3, <1>10 DEF BoardInv
<1>11. BoardInv'
  BY <1>6, <1>8, <1>9, <1>10 DEF BoardInv
<1> QED  BY <1>5, <1>11

\* A reply stands where its author had joined when the statement began, and
\* may have left since (CreatePost).
LEMMA ReplyingKeepsBoard ==
    ASSUME SpacesInv, UNCHANGED applicationVars, NEW m \in Members,
           \/ \E t \in ThreadIds : CreatePost(m, t)
           \/ \E x \in PostIds : PostCommits(m, x)
    PROVE  ForumTypeOK' /\ BoardInv'
<1> USE DEF SpacesInv
<1>1. /\ memberships' = memberships /\ threads' = threads
      /\ reports' = reports /\ revisions' = revisions
      /\ applied' = applied /\ spaces' = spaces
  BY DEF CreatePost, PostCommits, reportVars, applicationVars
<1>2. /\ threads \in [ThreadIds -> ThreadRows] /\ replies \in [PostIds -> ReplyRows]
      /\ writing \in [Members -> ThreadIds \cup {NoThread}]
  BY ForumRows
<1>3. \A n, r : Joined(n, r)' <=> Joined(n, r)
  BY <1>1 DEF Joined
<1>4. ASSUME NEW t \in ThreadIds, CreatePost(m, t) PROVE ForumTypeOK' /\ BoardInv'
  <2>1. /\ writing' = [writing EXCEPT ![m] = t] /\ replies' = replies
        /\ threads[t].status = "published" /\ MayWrite(m, threads[t].space)
    BY <1>4 DEF CreatePost, Answers
  <2>2. Joined(m, threads[t].space) /\ threads[t] # NoThreadYet
    BY <2>1, WritersJoined DEF NoThreadYet
  <2>3. ForumTypeOK'
    BY <1>1, <1>2, <2>1 DEF ForumTypeOK
  <2>4. ASSUME NEW n \in Members, writing'[n] # NoThread
        PROVE  /\ writing'[n] \in ThreadIds /\ threads'[writing'[n]] # NoThreadYet
               /\ Joined(n, threads'[writing'[n]].space)
    <3>1. CASE n = m  BY <1>1, <1>2, <2>1, <2>2, <3>1
    <3>2. CASE n # m  BY <1>1, <1>2, <2>1, <2>4, <3>2 DEF BoardInv
    <3> QED  BY <3>1, <3>2
  <2>5. BoardInv'
    BY <1>1, <1>3, <2>1, <2>4 DEF BoardInv
  <2> QED  BY <2>3, <2>5
<1>5. ASSUME NEW x \in PostIds, PostCommits(m, x) PROVE ForumTypeOK' /\ BoardInv'
  <2> DEFINE t == writing[m]
  <2>1. /\ writing' = [writing EXCEPT ![m] = NoThread]
        /\ replies' = [replies EXCEPT ![x] = NewReply(m, t)]
        /\ t # NoThread
    BY <1>5 DEF PostCommits
  <2>2. t \in ThreadIds /\ threads[t] # NoThreadYet /\ Joined(m, threads[t].space)
    BY <2>1 DEF BoardInv
  <2> HIDE DEF t
  <2>3. /\ replies' \in [PostIds -> ReplyRows] /\ replies'[x] = NewReply(m, t)
        /\ \A y \in PostIds \ {x} : replies'[y] = replies[y]
    BY <1>2, <2>1, <2>2 DEF ReplyRows, NewReply
  <2>4. /\ writing' \in [Members -> ThreadIds \cup {NoThread}] /\ writing'[m] = NoThread
        /\ \A n \in Members \ {m} : writing'[n] = writing[n]
    BY <1>2, <2>1
  <2>5. ForumTypeOK'
    BY <1>1, <2>3, <2>4 DEF ForumTypeOK, ReplyRows
  <2>6. ASSUME NEW y \in PostIds, replies'[y] # NoReplyYet
        PROVE  /\ replies'[y].author \in Members /\ replies'[y].thread \in ThreadIds
               /\ threads'[replies'[y].thread] # NoThreadYet
               /\ Joined(replies'[y].author, threads'[replies'[y].thread].space)
    <3>1. CASE y = x
      BY <1>1, <2>2, <2>3, <3>1 DEF NewReply
    <3>2. CASE y # x
      BY <1>1, <2>3, <2>6, <3>2 DEF BoardInv
    <3> QED  BY <3>1, <3>2
  <2>7. ASSUME NEW n \in Members, writing'[n] # NoThread
        PROVE  /\ writing'[n] \in ThreadIds /\ threads'[writing'[n]] # NoThreadYet
               /\ Joined(n, threads'[writing'[n]].space)
    BY <1>1, <2>4, <2>7 DEF BoardInv
  <2>8. BoardInv'
    BY <1>1, <1>3, <2>6, <2>7 DEF BoardInv
  <2> QED  BY <2>5, <2>8
<1> QED  BY <1>4, <1>5

\* A moderator changes the status of what is there, and nothing else of it
\* (SetThreadStatus, SetPostStatus).
LEMMA ModeratingKeepsBoard ==
    ASSUME SpacesInv, UNCHANGED applicationVars,
           \/ \E t \in ThreadIds, status \in {"locked", "published", "removed", "archived"} :
                SetThreadStatus(t, status)
           \/ \E x \in PostIds, status \in {"removed", "archived"} : SetPostStatus(x, status)
    PROVE  ForumTypeOK' /\ BoardInv'
<1> USE DEF SpacesInv
<1>1. /\ memberships' = memberships /\ writing' = writing
      /\ reports' = reports /\ revisions' = revisions
      /\ applied' = applied /\ spaces' = spaces
  BY DEF SetThreadStatus, SetPostStatus, reportVars, applicationVars
<1>2. threads \in [ThreadIds -> ThreadRows] /\ replies \in [PostIds -> ReplyRows]
  BY ForumRows
<1>3. \A n, r : Joined(n, r)' <=> Joined(n, r)
  BY <1>1 DEF Joined
<1>4. ASSUME NEW t \in ThreadIds, NEW status \in {"locked", "published", "removed", "archived"},
             SetThreadStatus(t, status)
      PROVE  ForumTypeOK' /\ BoardInv'
  <2>1. /\ threads' = [threads EXCEPT ![t].status = status] /\ replies' = replies
        /\ threads[t] # NoThreadYet
    BY <1>4 DEF SetThreadStatus
  <2>2. /\ threads' \in [ThreadIds -> ThreadRows]
        /\ \A u \in ThreadIds : threads'[u].space = threads[u].space
        /\ \A u \in ThreadIds \ {t} : threads'[u] = threads[u]
        /\ threads'[t].status = status
    BY <1>2, <2>1 DEF ThreadRows
  <2>3. \A u \in ThreadIds : threads'[u] # NoThreadYet <=> threads[u] # NoThreadYet
    BY <2>1, <2>2 DEF NoThreadYet
  <2>4. ForumTypeOK'
    BY <1>1, <2>1, <2>2 DEF ForumTypeOK, ThreadRows
  <2>5. BoardInv'
    BY <1>1, <1>3, <2>1, <2>2, <2>3 DEF BoardInv
  <2> QED  BY <2>4, <2>5
<1>5. ASSUME NEW x \in PostIds, NEW status \in {"removed", "archived"}, SetPostStatus(x, status)
      PROVE  ForumTypeOK' /\ BoardInv'
  <2>1. /\ replies' = [replies EXCEPT ![x].status = status] /\ threads' = threads
        /\ replies[x] # NoReplyYet
    BY <1>5 DEF SetPostStatus
  <2>2. /\ replies' \in [PostIds -> ReplyRows]
        /\ \A y \in PostIds : /\ replies'[y].author = replies[y].author
                              /\ replies'[y].thread = replies[y].thread
        /\ \A y \in PostIds \ {x} : replies'[y] = replies[y]
        /\ replies'[x].status = status
    BY <1>2, <2>1 DEF ReplyRows
  <2>3. \A y \in PostIds : replies'[y] # NoReplyYet <=> replies[y] # NoReplyYet
    BY <2>1, <2>2 DEF NoReplyYet
  <2>4. ForumTypeOK'
    BY <1>1, <2>1, <2>2 DEF ForumTypeOK, ReplyRows
  <2>5. BoardInv'
    BY <1>1, <1>3, <2>1, <2>2, <2>3 DEF BoardInv
  <2> QED  BY <2>4, <2>5
<1> QED  BY <1>4, <1>5

\* The board, whoever joins, writes or moderates.
LEMMA BoardKeepsBoard ==
    ASSUME SpacesInv, UNCHANGED applicationVars, Board
    PROVE  ForumTypeOK' /\ BoardInv'
BY JoiningKeepsBoard, OpeningKeepsBoard, ReplyingKeepsBoard, ModeratingKeepsBoard DEF Board

-----------------------------------------------------------------------------

\* The newest revision of a report is its last number (CreateRevision).
LEMMA NewestIsLast ==
    ASSUME NEW e \in Reports, NEW n \in Nat, Written(e) = 1..n
    PROVE  Newest(e) = n
<1>1. Newest(e) = Cardinality(1..n)
  BY DEF Newest, Written
<1>2. Cardinality(1..n) = n
  BY FS_Interval
<1> QED  BY <1>1, <1>2

\* A revision is added after the last, submitted, reviewed, and shown when it
\* is approved; the one that is shown keeps its approval (CreateRevision,
\* ReviewExperience).
LEMMA ReportingKeepsReports ==
    ASSUME ForumTypeOK, \A e \in Reports : Numbered(e), Reporting
    PROVE  ForumTypeOK' /\ (\A e \in Reports : Numbered(e)')
<1>1. /\ memberships' = memberships /\ threads' = threads /\ replies' = replies
      /\ writing' = writing
  BY DEF Reporting, CreateExperience, CreateRevision, UnpublishExperience, SubmitRevision,
         ReviewExperience, boardVars
<1>2. reports \in [Reports -> ReportRows] /\ revisions \in [Reports \X Versions -> Marks]
  BY ForumRows
<1> DEFINE Kept(e) ==
        /\ reports' \in [Reports -> ReportRows] /\ revisions' \in [Reports \X Versions -> Marks]
        /\ \A d \in Reports \ {e} :
             reports'[d] = reports[d] /\ \A v \in Versions : revisions'[<<d, v>>] = revisions[<<d, v>>]
        /\ Numbered(e)'
<1>3. ASSUME NEW m \in Members, NEW e \in Reports, CreateExperience(m, e) PROVE Kept(e)
  <2> DEFINE row == [author |-> m, visibility |-> "hidden", current |-> 0]
  <2>1. /\ reports' = [reports EXCEPT ![e] = row]
        /\ revisions' = [revisions EXCEPT ![<<e, 1>>] = "draft"]
        /\ Written(e) = {}
    BY <1>3 DEF CreateExperience, Numbered
  <2>2. /\ row \in ReportRows /\ row # NoReport /\ row.visibility = "hidden"
    BY DEF ReportRows, NoReport
  <2> HIDE DEF row
  <2>3. /\ reports' \in [Reports -> ReportRows] /\ reports'[e] = row
        /\ revisions' \in [Reports \X Versions -> Marks]
        /\ \A v \in Versions :
             revisions'[<<e, v>>] = IF v = 1 THEN "draft" ELSE revisions[<<e, v>>]
        /\ \A d \in Reports \ {e}, v \in Versions : revisions'[<<d, v>>] = revisions[<<d, v>>]
    BY <1>2, <2>1, <2>2 DEF Marks
  <2>4. Written(e)' = IF 1 \in Versions THEN {1} ELSE {}
    BY <2>1, <2>3 DEF Written
  <2>5. 1..1 = {1} /\ 1..0 = {}
    OBVIOUS
  <2>6. \E n \in Nat : Written(e)' = 1..n
    BY <2>4, <2>5
  <2>7. Numbered(e)'
    BY <2>2, <2>3, <2>6 DEF Numbered
  <2> QED  BY <1>2, <2>1, <2>3, <2>7
<1>4. ASSUME NEW e \in Reports, CreateRevision(e) PROVE Kept(e)
  <2>1. PICK n \in Nat : Written(e) = 1..n
    BY DEF Numbered
  <2>2. Newest(e) = n
    BY <2>1, NewestIsLast
  <2>3. /\ reports' = reports /\ reports[e] # NoReport /\ n + 1 \in Versions
        /\ revisions' = [revisions EXCEPT ![<<e, n + 1>>] = "draft"]
    BY <1>4, <2>2 DEF CreateRevision
  <2>4. /\ revisions' \in [Reports \X Versions -> Marks]
        /\ \A v \in Versions :
             revisions'[<<e, v>>] = IF v = n + 1 THEN "draft" ELSE revisions[<<e, v>>]
        /\ \A d \in Reports \ {e}, v \in Versions : revisions'[<<d, v>>] = revisions[<<d, v>>]
    BY <1>2, <2>3 DEF Marks
  <2>5. Written(e)' = Written(e) \cup {n + 1}
    BY <2>3, <2>4 DEF Written
  <2>6. (1..n) \cup {n + 1} = 1..(n + 1) /\ n + 1 \in Nat
    OBVIOUS
  <2>7. reports[e].visibility = "published" =>
          /\ reports[e].current # 0
          /\ revisions'[<<e, reports[e].current>>] = "approved"
    <3> SUFFICES ASSUME reports[e].visibility = "published"
                 PROVE  /\ reports[e].current # 0
                        /\ revisions'[<<e, reports[e].current>>] = "approved"
      OBVIOUS
    <3>1. /\ reports[e].current \in Versions
          /\ reports[e].current # 0 /\ revisions[<<e, reports[e].current>>] = "approved"
      BY <1>2 DEF Numbered, ReportRows
    <3>2. reports[e].current \in 1..n
      BY <2>1, <3>1 DEF Written
    <3>3. reports[e].current # n + 1
      BY <3>2
    <3> QED  BY <2>4, <3>1, <3>3
  <2>8. Numbered(e)'
    <3>1. \E i \in Nat : Written(e)' = 1..i
      BY <2>1, <2>5, <2>6
    <3> QED  BY <2>3, <2>7, <3>1 DEF Numbered
  <2> QED  BY <1>2, <2>3, <2>4, <2>8
<1>5. ASSUME NEW e \in Reports, UnpublishExperience(e) PROVE Kept(e)
  <2>1. /\ reports' = [reports EXCEPT ![e].visibility = "unpublished"]
        /\ revisions' = revisions /\ reports[e] # NoReport
    BY <1>5 DEF UnpublishExperience
  <2>2. /\ reports' \in [Reports -> ReportRows]
        /\ reports'[e].visibility = "unpublished"
        /\ \A d \in Reports \ {e} : reports'[d] = reports[d]
    BY <1>2, <2>1 DEF ReportRows
  <2>3. reports'[e] # NoReport
    BY <2>2 DEF NoReport
  <2>4. Written(e)' = Written(e)
    BY <2>1 DEF Written
  <2>5. Numbered(e)'
    BY <2>2, <2>3, <2>4 DEF Numbered
  <2> QED  BY <1>2, <2>1, <2>2, <2>5
<1>6. ASSUME NEW e \in Reports, NEW v \in Versions, NEW mark \in Marks \ {"none"},
             revisions' = [revisions EXCEPT ![<<e, v>>] = mark],
             revisions[<<e, v>>] \notin {"none", "approved"},
             \/ reports' = reports
             \/ MadePublic(e, v) /\ mark = "approved"
      PROVE  Kept(e)
  <2>1. /\ revisions' \in [Reports \X Versions -> Marks]
        /\ \A w \in Versions :
             revisions'[<<e, w>>] = IF w = v THEN mark ELSE revisions[<<e, w>>]
        /\ \A d \in Reports \ {e}, w \in Versions : revisions'[<<d, w>>] = revisions[<<d, w>>]
    BY <1>2, <1>6 DEF Marks
  <2>2. Written(e)' = Written(e)
    BY <1>6, <2>1 DEF Written
  <2>3. v # 0 /\ v \in Written(e)
    BY <1>6, ForumAssumption, FS_CardinalityType DEF Written
  <2>4. CASE reports' = reports
    <3>1. reports[e].visibility = "published" =>
            reports[e].current \in Versions /\ reports[e].current # v
      BY <1>2, <1>6 DEF Numbered, ReportRows
    <3>2. Numbered(e)'
      BY <2>1, <2>2, <2>4, <3>1 DEF Numbered
    <3> QED  BY <1>2, <2>1, <2>4, <3>2
  <2>5. CASE MadePublic(e, v) /\ mark = "approved"
    <3>1. /\ reports' \in [Reports -> ReportRows]
          /\ reports'[e].current = v /\ reports'[e].visibility = "published"
          /\ \A d \in Reports \ {e} : reports'[d] = reports[d]
      BY <1>2, <2>5 DEF MadePublic, ReportRows
    <3>2. reports'[e] # NoReport
      BY <3>1 DEF NoReport
    <3>3. Numbered(e)'
      BY <2>1, <2>2, <2>3, <2>5, <3>1, <3>2 DEF Numbered
    <3> QED  BY <2>1, <3>1, <3>3
  <2> QED  BY <1>6, <2>4, <2>5
<1> HIDE DEF Kept
<1>7. ASSUME NEW e \in Reports, NEW v \in Versions, SubmitRevision(e, v) PROVE Kept(e)
  <2>1. /\ "pending_review" \in Marks \ {"none"}
        /\ revisions' = [revisions EXCEPT ![<<e, v>>] = "pending_review"]
        /\ revisions[<<e, v>>] \notin {"none", "approved"} /\ reports' = reports
    BY <1>7 DEF SubmitRevision, Submittable, Marks
  <2> QED  BY <1>6, <2>1
<1>8. ASSUME NEW e \in Reports, NEW v \in Versions, NEW b \in BOOLEAN, ReviewExperience(e, v, b)
      PROVE  Kept(e)
  <2> DEFINE mark == IF b THEN "approved" ELSE "rejected"
  <2>1. /\ mark \in Marks \ {"none"}
        /\ revisions' = [revisions EXCEPT ![<<e, v>>] = mark]
        /\ revisions[<<e, v>>] \notin {"none", "approved"}
        /\ reports' = reports \/ (MadePublic(e, v) /\ mark = "approved")
    BY <1>8 DEF ReviewExperience, Marks
  <2> HIDE DEF mark
  <2> QED  BY <1>6, <2>1
<1>9. \E e \in Reports : Kept(e)
  BY <1>3, <1>4, <1>5, <1>7, <1>8 DEF Reporting
<1>10. PICK e \in Reports : Kept(e)
  BY <1>9
<1>11. \A d \in Reports \ {e} : Numbered(d)'
  <2> SUFFICES ASSUME NEW d \in Reports \ {e} PROVE Numbered(d)'
    OBVIOUS
  <2>1. /\ reports'[d] = reports[d]
        /\ \A v \in Versions : revisions'[<<d, v>>] = revisions[<<d, v>>]
    BY <1>10 DEF Kept
  <2>2. Written(d)' = Written(d)
    BY <2>1 DEF Written
  <2>3. reports[d].visibility = "published" => reports[d].current \in Versions
    BY <1>2 DEF Numbered, ReportRows
  <2>4. Numbered(d)
    OBVIOUS
  <2> QED  BY <2>1, <2>2, <2>3, <2>4 DEF Numbered
<1>12. ForumTypeOK'
  BY <1>1, <1>10 DEF Kept, ForumTypeOK, ReportRows, Marks
<1> QED  BY <1>10, <1>11, <1>12 DEF Kept

-----------------------------------------------------------------------------

CommunityInv == CatalogueInv /\ SpacesInv

\* The catalogue, the applications and the forum together: what one of them
\* does leaves the others their invariants (DeleteProgram, CreateConfirmed,
\* CreateThread).
LEMMA CommunityStep == CommunityInv /\ [CommunityNext]_communityVars => CommunityInv'
<1> SUFFICES ASSUME CommunityInv, [CommunityNext]_communityVars PROVE CommunityInv'
  OBVIOUS
<1> USE DEF CommunityInv
<1>1. UNCHANGED forumVars => /\ UNCHANGED <<memberships, threads, replies, writing>>
                             /\ UNCHANGED <<reports, revisions>>
  BY DEF forumVars, boardVars, reportVars
<1>2. UNCHANGED forumVars =>
        (ForumTypeOK => ForumTypeOK') /\ \A e \in Reports : (Numbered(e) => Numbered(e)')
  BY <1>1 DEF ForumTypeOK, Numbered, Written
<1>3. CASE (Changes(Referred) \/ Clearing \/ Reading) /\ UNCHANGED <<applicationVars, forumVars>>
  <2>1. CatalogueInv'
    BY <1>3, CatalogueSteps
  <2>2. ApplicationsInv'
    BY <1>3, CatalogueKeepsApplications DEF SpacesInv
  <2>3. BoardInv'
    BY <1>1, <1>3, BoardGrows DEF SpacesInv, applicationVars
  <2> QED  BY <1>2, <1>3, <2>1, <2>2, <2>3 DEF SpacesInv
<1>4. CASE Applying /\ UNCHANGED <<catalogueVars, forumVars>>
  <2>1. CatalogueInv'
    BY <1>4, CatalogueStays
  <2>2. ApplicationsInv' /\ applied \subseteq applied' /\ spaces \subseteq spaces'
    BY <1>4, ApplyingKeepsApplications DEF SpacesInv, catalogueVars, storeVars
  <2>3. BoardInv'
    BY <1>1, <1>4, <2>2, BoardGrows DEF SpacesInv
  <2> QED  BY <1>2, <1>4, <2>1, <2>2, <2>3 DEF SpacesInv
<1>5. CASE (Board \/ Reporting) /\ UNCHANGED <<catalogueVars, applicationVars>>
  <2>1. CatalogueInv'
    BY <1>5, CatalogueStays
  <2>2. ApplicationsInv'
    BY <1>5
       DEF SpacesInv, ApplicationsInv, ApplicationsTypeOK, SpacesFollowApplications,
           ApprovedTicketsApplied, NothingFallsOut, TicketsName, applicationVars,
           catalogueVars, storeVars
  <2>3. CASE Board
    <3>1. ForumTypeOK' /\ BoardInv'
      BY <1>5, <2>3, BoardKeepsBoard
    <3>2. reports' = reports /\ revisions' = revisions
      BY <2>3 DEF Board, JoinSpace, LeaveSpace, CreateThread, CreatePost, PostCommits,
                  SetThreadStatus, SetPostStatus, reportVars
    <3>3. \A e \in Reports : Numbered(e)'
      BY <3>2 DEF SpacesInv, Numbered, Written
    <3> QED  BY <2>1, <2>2, <3>1, <3>3 DEF SpacesInv
  <2>4. CASE Reporting
    <3>1. ForumTypeOK' /\ \A e \in Reports : Numbered(e)'
      BY <2>4, ReportingKeepsReports DEF SpacesInv
    <3>2. UNCHANGED <<memberships, threads, replies, writing>>
      BY <2>4 DEF Reporting, CreateExperience, CreateRevision, UnpublishExperience,
                  SubmitRevision, ReviewExperience, boardVars
    <3>3. BoardInv'
      BY <1>5, <3>2, BoardGrows DEF SpacesInv, applicationVars
    <3> QED  BY <2>1, <2>2, <3>1, <3>3 DEF SpacesInv
  <2> QED  BY <1>5, <2>3, <2>4
<1>6. CASE UNCHANGED communityVars
  <2>1. UNCHANGED catalogueVars /\ UNCHANGED applicationVars /\ UNCHANGED forumVars
    BY <1>6 DEF communityVars
  <2>2. CatalogueInv'
    BY <2>1, CatalogueStays
  <2>3. ApplicationsInv'
    BY <2>1
       DEF SpacesInv, ApplicationsInv, ApplicationsTypeOK, SpacesFollowApplications,
           ApprovedTicketsApplied, NothingFallsOut, TicketsName, applicationVars,
           catalogueVars, storeVars
  <2>4. BoardInv'
    BY <1>1, <2>1, BoardGrows DEF SpacesInv, applicationVars
  <2> QED  BY <1>2, <2>1, <2>2, <2>3, <2>4 DEF SpacesInv
<1> QED  BY <1>3, <1>4, <1>5, <1>6 DEF CommunityNext

\* What Redis holds of a query is what the database would answer, but for a
\* clearing under way or failed, a read across a change, or a confirmed upload,
\* and what is public was reviewed (cached_repository.go,
\* admin_postgres_repository.go).
THEOREM CopiesAreExplained == CommunitySpec => []CatalogueHolds
<1>1. CatalogueInit /\ ApplicationsInit /\ ForumInit => CommunityInv
  BY CatalogueBegins, SpacesBegin DEF CommunityInv
<1>2. CommunityInv => CatalogueHolds
  BY DEF CommunityInv, CatalogueInv
<1> QED  BY <1>1, <1>2, CommunityStep, PTL DEF CommunitySpec

\* Confirmed applications have their spaces and their programmes, who may
\* answer in a thread has joined and may read it, and a public report was
\* approved as it stands (CreateConfirmed, ReviewServiceTicket, CreatePost,
\* ReviewExperience).
THEOREM SpacesAgree == CommunitySpec => []SpacesHold
<1>1. CatalogueInit /\ ApplicationsInit /\ ForumInit => CommunityInv
  BY CatalogueBegins, SpacesBegin DEF CommunityInv
<1>2. CommunityInv => SpacesHold
  BY SpacesInvSuffices DEF CommunityInv
<1> QED  BY <1>1, <1>2, CommunityStep, PTL DEF CommunitySpec

-----------------------------------------------------------------------------
(***************************************************************************)
(* The files a member keeps.                                               *)

\* A key is in one place: what is being stored is named by no other call, by
\* no avatar and by no answer; what is being removed is named by no avatar;
\* what failed is named only where a commit's answer was lost.  Two members
\* never have the same object for an avatar (uploadFile, uploadAvatar).
IdleUploads == \A u \in Uploaders : uploads[u].step = "idle" => uploads[u] = UploadIdle

UploadsNameFiles ==
    \A u \in Uploaders :
        uploads[u].step # "idle" => uploads[u].key \in Documents \cup Pictures

Storing(u) ==
    /\ uploads[u].owner \in Holders
    /\ uploads[u].key \in objects /\ uploads[u].key \notin told
    /\ \A h \in Holders : avatars[h] # uploads[u].key
    /\ \A v \in Uploaders \ {u} : uploads[v].key # uploads[u].key

Removing(u) ==
    /\ uploads[u].key \in Pictures
    /\ \A h \in Holders : avatars[h] # uploads[u].key

Failed(u) ==
    /\ uploads[u].key \in Documents => uploads[u].key \notin told
    /\ \A h \in Holders : avatars[h] = uploads[u].key => uploads[u].key \in unsure

OwnAvatars ==
    \A h, g \in Holders : avatars[h] = avatars[g] /\ avatars[h] # NoPicture => h = g

FilesInv ==
    /\ FilesHold
    /\ IdleUploads /\ UploadsNameFiles
    /\ \A u \in Uploaders :
         /\ uploads[u].step = "store" => Storing(u)
         /\ uploads[u].step = "remove" => Removing(u)
         /\ uploads[u].step = "failed" => Failed(u)
    /\ OwnAvatars

\* The first state has no file and no call (FilesInit).
LEMMA FilesBegin == FilesInit => FilesInv
BY FilesAssumption
   DEF FilesInit, FilesInv, FilesHold, FilesTypeOK, PublishedWasReviewed, ConfirmedFilesOpen,
       IdleUploads, UploadsNameFiles, OwnAvatars, NoDocument, NoEvent, UploadIdle

\* A new key is used by nothing (PutObject).
LEMMA PuttingKeepsFiles ==
    ASSUME FilesInv, NEW u \in Uploaders, NEW h \in Holders,
           NEW key \in Documents \cup Pictures, PutObject(u, h, key)
    PROVE  FilesInv'
<1> USE FilesAssumption DEF FilesInv, FilesHold, PutObject, Run
<1>1. /\ key \notin objects /\ key \notin told /\ key \notin unsure
      /\ \A v \in Uploaders : uploads[v].key # key
  BY DEF Used
<1>2. \A g \in Holders : avatars[g] # key
  BY <1>1 DEF ConfirmedFilesOpen
<1>3. /\ uploads'[u] \in [step : {"store", "failed"}, owner : {h}, key : {key}]
      /\ \A v \in Uploaders \ {u} : uploads'[v] = uploads[v]
      /\ uploads'[u].step = "store" => key \in objects'
  BY DEF FilesTypeOK
<1>4. FilesTypeOK'
  BY DEF FilesTypeOK
<1>5. PublishedWasReviewed' /\ ConfirmedFilesOpen' /\ OwnAvatars'
  BY DEF PublishedWasReviewed, ConfirmedFilesOpen, OwnAvatars
<1>6. IdleUploads' /\ UploadsNameFiles'
  BY <1>3 DEF IdleUploads, UploadsNameFiles
<1>7. ASSUME NEW v \in Uploaders
      PROVE  /\ uploads'[v].step = "store" => Storing(v)'
             /\ uploads'[v].step = "remove" => Removing(v)'
             /\ uploads'[v].step = "failed" => Failed(v)'
  <2>1. CASE v = u  BY <1>1, <1>2, <1>3, <2>1 DEF Storing, Failed
  <2>2. CASE v # u  BY <1>1, <1>3, <2>2 DEF Storing, Removing, Failed
  <2> QED  BY <2>1, <2>2
<1> QED  BY <1>4, <1>5, <1>6, <1>7

\* The row of a document is stored for the file that was put, and the call
\* ends or, when the answer is lost, fails (CreateFile).
LEMMA CreatingKeepsFiles ==
    ASSUME FilesInv, NEW u \in Uploaders, CreateFile(u)
    PROVE  FilesInv'
<1> USE FilesAssumption DEF FilesInv, FilesHold, CreateFile
<1> DEFINE d == uploads[u].key
<1>1. Storing(u) /\ d \in Documents
  OBVIOUS
<1>2. /\ uploads'[u] = UploadIdle \/ uploads'[u] = [step |-> "failed",
                                        owner |-> uploads[u].owner, key |-> d]
      /\ \A v \in Uploaders \ {u} : uploads'[v] = uploads[v]
      /\ told' = told \cup {d} => uploads'[u] = UploadIdle
      /\ told' = told \/ told' = told \cup {d}
      /\ uploads'[u] # UploadIdle => told' = told
      /\ unsure \subseteq unsure'
  BY DEF FilesTypeOK, Run, End, UploadIdle, Storing
<1>3. FilesTypeOK'
  BY DEF FilesTypeOK, Run, End, UploadIdle, Logged
<1>4. PublishedWasReviewed'
  BY DEF PublishedWasReviewed, Logged, FilesTypeOK
<1>5. ConfirmedFilesOpen' /\ OwnAvatars'
  BY <1>1, <1>2 DEF ConfirmedFilesOpen, OwnAvatars, Storing
<1>6. IdleUploads' /\ UploadsNameFiles'
  BY <1>1, <1>2 DEF IdleUploads, UploadsNameFiles, UploadIdle
<1>7. ASSUME NEW v \in Uploaders
      PROVE  /\ uploads'[v].step = "store" => Storing(v)'
             /\ uploads'[v].step = "remove" => Removing(v)'
             /\ uploads'[v].step = "failed" => Failed(v)'
  <2>1. CASE v = u  BY <1>1, <1>2, <2>1 DEF Storing, Failed, UploadIdle
  <2>2. CASE v # u
    <3>1. uploads[v].step = "store" => uploads'[u].key # uploads[v].key
      BY <1>1, <1>2, <2>2 DEF Storing, UploadIdle, UploadsNameFiles
    <3> QED  BY <1>1, <1>2, <2>2, <3>1 DEF Storing, Removing, Failed
  <2> QED  BY <2>1, <2>2
<1> QED  BY <1>3, <1>4, <1>5, <1>6, <1>7

\* The row names the new object before the call goes on to remove what it
\* named until then (SetAvatar).
LEMMA SettingKeepsFiles ==
    ASSUME FilesInv, NEW u \in Uploaders, SetAvatar(u)
    PROVE  FilesInv'
<1> USE FilesAssumption DEF FilesInv, FilesHold, SetAvatar
<1> DEFINE k == uploads[u].key
           h == uploads[u].owner
<1>1. Storing(u) /\ k \in Pictures /\ h \in Holders
  BY DEF Storing
<1>2. /\ avatars'[h] = k
      /\ \A g \in Holders \ {h} : avatars'[g] = avatars[g]
      /\ \A v \in Uploaders \ {u} : uploads'[v] = uploads[v]
      /\ unsure \subseteq unsure' /\ told \subseteq told' /\ told' \subseteq told \cup {k}
  BY <1>1 DEF FilesTypeOK, Run, End
<1>3. \/ uploads'[u] = UploadIdle
      \/ /\ uploads'[u] = [step |-> "failed", owner |-> h, key |-> k]
         /\ k \in unsure'
      \/ /\ uploads'[u] = [step |-> "remove", owner |-> h, key |-> avatars[h]]
         /\ avatars[h] \in Pictures
  BY <1>1 DEF FilesTypeOK, Run, End, Replaced
<1>4. FilesTypeOK'
  <2>1. avatars' \in [Holders -> Pictures \cup {NoPicture}]
    BY <1>1 DEF FilesTypeOK
  <2>2. uploads' \in [Uploaders ->
            [step : {"idle", "store", "remove", "failed"}, owner : Holders \cup {NoHolder},
             key : Documents \cup Pictures \cup {NoPicture}]]
    <3>1. \E r \in [step : {"idle", "store", "remove", "failed"},
                   owner : Holders \cup {NoHolder},
                   key : Documents \cup Pictures \cup {NoPicture}] :
            uploads' = [uploads EXCEPT ![u] = r]
      BY <1>1 DEF FilesTypeOK, Run, End, UploadIdle, Replaced
    <3> QED  BY <3>1 DEF FilesTypeOK
  <2> QED  BY <1>1, <2>1, <2>2 DEF FilesTypeOK
<1>5. PublishedWasReviewed'
  BY DEF PublishedWasReviewed
<1>6. ConfirmedFilesOpen'
  BY <1>1, <1>2 DEF ConfirmedFilesOpen, Storing
<1>7. OwnAvatars'
  BY <1>1, <1>2 DEF OwnAvatars, Storing
<1>8. IdleUploads' /\ UploadsNameFiles'
  BY <1>1, <1>2, <1>3 DEF IdleUploads, UploadsNameFiles, UploadIdle
<1>9. ASSUME NEW v \in Uploaders
      PROVE  /\ uploads'[v].step = "store" => Storing(v)'
             /\ uploads'[v].step = "remove" => Removing(v)'
             /\ uploads'[v].step = "failed" => Failed(v)'
  <2>1. CASE v = u
    <3>1. CASE uploads'[u] = UploadIdle  BY <2>1, <3>1 DEF UploadIdle
    <3>2. CASE uploads'[u] = [step |-> "failed", owner |-> h, key |-> k] /\ k \in unsure'
      BY <1>1, <2>1, <3>2 DEF Failed
    <3>3. CASE uploads'[u] = [step |-> "remove", owner |-> h, key |-> avatars[h]]
                 /\ avatars[h] \in Pictures
      <4>1. \A g \in Holders : avatars'[g] # avatars[h]
        BY <1>1, <1>2, <3>3 DEF OwnAvatars, Storing
      <4> QED  BY <2>1, <3>3, <4>1 DEF Removing
    <3> QED  BY <1>3, <3>1, <3>2, <3>3
  <2>2. CASE v # u
    <3>1. uploads[v].key # k
      BY <1>1, <2>2 DEF Storing
    <3>2. uploads[v].step = "store" => uploads'[u].key # uploads[v].key
      BY <1>1, <1>3, <2>2 DEF Storing, UploadIdle, UploadsNameFiles
    <3> QED  BY <1>1, <1>2, <2>2, <3>1, <3>2 DEF Storing, Removing, Failed
  <2> QED  BY <2>1, <2>2
<1> QED  BY <1>4, <1>5, <1>6, <1>7, <1>8, <1>9

\* An avatar is cleared, and only then its object is removed (deleteAvatar).
LEMMA ClearingKeepsFiles ==
    ASSUME FilesInv, NEW u \in Uploaders, NEW h \in Holders, ClearAvatar(u, h)
    PROVE  FilesInv'
<1> USE FilesAssumption DEF FilesInv, FilesHold, ClearAvatar
<1>1. /\ avatars'[h] = NoPicture
      /\ \A g \in Holders \ {h} : avatars'[g] = avatars[g]
      /\ \A v \in Uploaders \ {u} : uploads'[v] = uploads[v]
  BY DEF FilesTypeOK, Run
<1>2. \/ uploads'[u] = UploadIdle
      \/ /\ uploads'[u] = [step |-> "remove", owner |-> h, key |-> avatars[h]]
         /\ avatars[h] \in Pictures
  BY DEF FilesTypeOK, Run
<1>3. FilesTypeOK'
  BY DEF FilesTypeOK, Run
<1>4. PublishedWasReviewed' /\ ConfirmedFilesOpen' /\ OwnAvatars'
  BY <1>1 DEF PublishedWasReviewed, ConfirmedFilesOpen, OwnAvatars
<1>5. IdleUploads' /\ UploadsNameFiles'
  BY <1>1, <1>2 DEF IdleUploads, UploadsNameFiles, UploadIdle
<1>6. ASSUME NEW v \in Uploaders
      PROVE  /\ uploads'[v].step = "store" => Storing(v)'
             /\ uploads'[v].step = "remove" => Removing(v)'
             /\ uploads'[v].step = "failed" => Failed(v)'
  <2>1. CASE v = u
    <3>1. \A g \in Holders : avatars[h] \in Pictures => avatars'[g] # avatars[h]
      BY <1>1 DEF OwnAvatars
    <3> QED  BY <1>2, <2>1, <3>1 DEF Removing, UploadIdle
  <2>2. CASE v # u
    <3>1. /\ uploads[v].step = "store" => uploads'[u].key # uploads[v].key
          /\ uploads[v].step # "idle" => uploads[v].key # NoPicture
      BY <1>2, <2>2 DEF Storing, UploadIdle, UploadsNameFiles
    <3> QED  BY <1>1, <2>2, <3>1 DEF Storing, Removing, Failed
  <2> QED  BY <2>1, <2>2
<1> QED  BY <1>3, <1>4, <1>5, <1>6

\* What is removed is named by no row, or by one whose answer was lost
\* (uploadFile and uploadAvatar, on the errors of their statements).
LEMMA RemovingKeepsFiles ==
    ASSUME FilesInv, NEW u \in Uploaders, StoreFails(u) \/ RemoveObject(u)
    PROVE  FilesInv'
<1> USE FilesAssumption DEF FilesInv, FilesHold
<1> DEFINE k == uploads[u].key
<1>1. CASE StoreFails(u)
  <2> USE <1>1 DEF StoreFails
  <2>1. /\ uploads'[u] = [step |-> "failed", owner |-> uploads[u].owner, key |-> k]
        /\ \A v \in Uploaders \ {u} : uploads'[v] = uploads[v]
        /\ Storing(u)
    BY DEF FilesTypeOK, Run
  <2>2. FilesTypeOK'
    BY DEF FilesTypeOK, Run
  <2>3. PublishedWasReviewed' /\ ConfirmedFilesOpen' /\ OwnAvatars'
    BY DEF PublishedWasReviewed, ConfirmedFilesOpen, OwnAvatars
  <2>4. IdleUploads' /\ UploadsNameFiles'
    BY <2>1 DEF IdleUploads, UploadsNameFiles
  <2>5. \A v \in Uploaders :
          /\ uploads'[v].step = "store" => Storing(v)'
          /\ uploads'[v].step = "remove" => Removing(v)'
          /\ uploads'[v].step = "failed" => Failed(v)'
    BY <2>1 DEF Storing, Removing, Failed
  <2> QED  BY <2>2, <2>3, <2>4, <2>5
<1>2. CASE RemoveObject(u)
  <2> USE <1>2 DEF RemoveObject
  <2>1. /\ uploads'[u] = UploadIdle
        /\ \A v \in Uploaders \ {u} : uploads'[v] = uploads[v]
        /\ Removing(u) \/ Failed(u)
        /\ k \in Documents \cup Pictures
        /\ objects \ {k} \subseteq objects' /\ objects' \subseteq objects
    BY DEF FilesTypeOK, End, UploadsNameFiles
  <2>2. FilesTypeOK'
    BY DEF FilesTypeOK, End, UploadIdle
  <2>3. PublishedWasReviewed' /\ OwnAvatars'
    BY DEF PublishedWasReviewed, OwnAvatars
  <2>4. ConfirmedFilesOpen'
    BY <2>1 DEF ConfirmedFilesOpen, Removing, Failed
  <2>5. IdleUploads' /\ UploadsNameFiles'
    BY <2>1 DEF IdleUploads, UploadsNameFiles, UploadIdle
  <2>6. ASSUME NEW v \in Uploaders
        PROVE  /\ uploads'[v].step = "store" => Storing(v)'
               /\ uploads'[v].step = "remove" => Removing(v)'
               /\ uploads'[v].step = "failed" => Failed(v)'
    <3>1. CASE v = u  BY <2>1, <3>1 DEF UploadIdle
    <3>2. CASE v # u
      <4>1. uploads[v].step = "store" => uploads[v].key # k /\ uploads[v].key # NoPicture
        BY <3>2 DEF Storing, UploadsNameFiles
      <4> QED  BY <2>1, <3>2, <4>1 DEF Storing, Removing, Failed, UploadIdle
    <3> QED  BY <3>1, <3>2
  <2> QED  BY <2>2, <2>3, <2>4, <2>5, <2>6
<1> QED  BY <1>1, <1>2

\* A document is published only by the review it waits for (changeOwnerStatus,
\* ReviewFile).
LEMMA ReviewingKeepsFiles == FilesInv /\ Reviewing => FilesInv'
<1> SUFFICES ASSUME FilesInv,
                    NEW d \in Documents,
                    \/ SubmitForReview(d) \/ Unpublish(d) \/ Hide(d)
                    \/ \E b \in BOOLEAN : ReviewFile(d, b)
             PROVE  FilesInv'
  BY DEF Reviewing
<1> USE DEF FilesInv, FilesHold
<1>1. PICK action \in {"submitted_for_review", "unpublished", "hidden", "approved", "rejected"},
           target \in {"pending_review", "unpublished", "hidden", "published", "rejected"} :
        /\ ChangeStatus(d, action, target)
        /\ target = "published" => action = "approved"
  BY DEF SubmitForReview, Unpublish, Hide, ReviewFile
<1>2. target = "published" => documents[d].status = "pending_review"
  BY <1>1 DEF ChangeStatus, Allowed
<1>3. FilesTypeOK'
  BY <1>1 DEF FilesTypeOK, ChangeStatus, Logged
<1>4. PublishedWasReviewed'
  BY <1>1, <1>2 DEF PublishedWasReviewed, ChangeStatus, Logged, FilesTypeOK
<1>5. /\ ConfirmedFilesOpen' /\ OwnAvatars' /\ IdleUploads' /\ UploadsNameFiles'
      /\ \A u \in Uploaders :
           /\ uploads'[u].step = "store" => Storing(u)'
           /\ uploads'[u].step = "remove" => Removing(u)'
           /\ uploads'[u].step = "failed" => Failed(u)'
  BY <1>1 DEF ChangeStatus, ConfirmedFilesOpen, OwnAvatars, IdleUploads, UploadsNameFiles,
              Storing, Removing, Failed
<1> QED  BY <1>3, <1>4, <1>5

\* What is public was approved as its owner asked, and a file whose upload was
\* confirmed can be opened, whatever calls replace or clear it meanwhile
\* (portfolio/handler.go, uploadFile; profile/handler.go, uploadAvatar).
THEOREM FilesStayOpen == FilesSpec => []FilesHold
<1>1. FilesInit => FilesInv
  BY FilesBegin
<1>2. FilesInv /\ [FilesNext]_fileVars => FilesInv'
  <2> SUFFICES ASSUME FilesInv, [FilesNext]_fileVars PROVE FilesInv'
    OBVIOUS
  <2>1. CASE Uploading
    BY <2>1, PuttingKeepsFiles, CreatingKeepsFiles, SettingKeepsFiles, ClearingKeepsFiles,
       RemovingKeepsFiles
       DEF Uploading
  <2>2. CASE Reviewing
    BY <2>2, ReviewingKeepsFiles
  <2>3. CASE UNCHANGED fileVars
    BY <2>3 DEF fileVars, FilesInv, FilesHold, FilesTypeOK, PublishedWasReviewed,
                ConfirmedFilesOpen, IdleUploads, UploadsNameFiles, OwnAvatars, Storing,
                Removing, Failed
  <2> QED  BY <2>1, <2>2, <2>3 DEF FilesNext
<1>3. FilesInv => FilesHold
  BY DEF FilesInv
<1> QED  BY <1>1, <1>2, <1>3, PTL DEF FilesSpec

-----------------------------------------------------------------------------
(***************************************************************************)
(* Willingness questions on Telegram.                                      *)

Unshown(at, q) == {n \in 1..MaxAttempts : <<q, n, "claimed">> \in at}

\* A row is there once its question was asked, its chat is that of someone
\* who started the bot, and it rests, is quiet or was responded to for the
\* reasons LostResultsRest, OptOutIsQuiet and RespondedWasAnswered give.
RowHolds(q) ==
    /\ ~question[q].asked => /\ delivery[q] = NoDelivery /\ ~question[q].answered
                             /\ question[q].published /\ question[q].eligible
    /\ question[q].asked => ~Has(q, {"none"}) /\ tlink[AskedOf[q]] # "none"
    /\ delivery[q].chat => Started(tlink[AskedOf[q]])
    /\ Has(q, {"responded"}) => question[q].answered /\ delivery[q].chat
    /\ question[q].asked /\ ~Eligible(q) => Has(q, {"sent", "responded", "blocked"})
    /\ tlink[AskedOf[q]] = "off" /\ Open(q) => ~Has(q, {"pending", "waiting_binding"})

\* A delivery carries the number of its claim, and every claim that was
\* counted is shown once at most (ClaimDeliveries).
ClaimsHold(q) ==
    /\ \A n \in 1..MaxAttempts, step \in {"claimed", "shown"} :
         <<q, n, step>> \in carried => n <= delivery[q].attempts
    /\ shown[q] + Cardinality(Unshown(carried, q)) <= delivery[q].attempts

AnswerHolds(c) ==
    /\ responds[c].step # "idle" => responds[c].q \in Questions
    /\ responds[c].step = "mark" => question[responds[c].q].answered

TelegramInv ==
    /\ TelegramTypeOK
    /\ \A q \in Questions : RowHolds(q) /\ ClaimsHold(q)
    /\ \A c \in Responders : AnswerHolds(c)

Rows == [status : {"none", "waiting_binding", "pending", "processing", "sent",
                   "failed", "blocked", "responded"},
         chat : BOOLEAN, attempts : 0..MaxAttempts,
         why : {"none", "off", "result", "send"}]

Asking == [asked : BOOLEAN, published : BOOLEAN, eligible : BOOLEAN, answered : BOOLEAN]

\* Each statement sets one column of a question (Ask, ResultLost,
\* ResultRestored, SetWillingness).
LEMMA ColumnsSet ==
    ASSUME NEW f \in [Questions -> Asking], NEW q \in Questions, NEW b \in BOOLEAN
    PROVE  /\ [f EXCEPT ![q].asked = b] \in [Questions -> Asking]
           /\ [f EXCEPT ![q].published = b] \in [Questions -> Asking]
           /\ [f EXCEPT ![q].eligible = b] \in [Questions -> Asking]
           /\ [f EXCEPT ![q].answered = b] \in [Questions -> Asking]
BY DEF Asking

\* The claims that wait for their message are finitely many
\* (ClaimDeliveries).
LEMMA UnshownCounted ==
    ASSUME NEW at, NEW q
    PROVE  IsFiniteSet(Unshown(at, q)) /\ Cardinality(Unshown(at, q)) \in Nat
<1>1. IsFiniteSet(1..MaxAttempts) /\ Unshown(at, q) \subseteq 1..MaxAttempts
  BY TelegramCrossCheckAssumption, FS_Interval DEF Unshown
<1> QED  BY <1>1, FS_Subset, FS_CardinalityType

\* The invariant implies what is promised of questions
\* (ClaimDeliveries, Disable, MarkResponded, the triggers).
LEMMA TelegramInvSuffices == TelegramInv => CrossCheckHolds
<1> SUFFICES ASSUME TelegramInv PROVE CrossCheckHolds
  OBVIOUS
<1>1. LostResultsRest /\ OptOutIsQuiet
  BY DEF TelegramInv, RowHolds, LostResultsRest, OptOutIsQuiet
<1>2. RespondedWasAnswered
  BY TelegramCrossCheckAssumption
     DEF TelegramInv, RowHolds, RespondedWasAnswered, History, Asked, Has, NoDelivery
<1>3. ShowsBounded
  <2> SUFFICES ASSUME NEW q \in Questions PROVE shown[q] <= MaxAttempts
    BY DEF ShowsBounded
  <2>1. /\ shown[q] \in Nat /\ delivery[q].attempts \in 0..MaxAttempts
        /\ shown[q] + Cardinality(Unshown(carried, q)) <= delivery[q].attempts
    BY DEF TelegramInv, TelegramTypeOK, ClaimsHold
  <2>2. Cardinality(Unshown(carried, q)) \in Nat
    BY UnshownCounted
  <2> QED  BY <2>1, <2>2, TelegramCrossCheckAssumption
<1> QED  BY <1>1, <1>2, <1>3 DEF CrossCheckHolds, TelegramInv

\* In the first state nothing was asked (TelegramInit).
LEMMA TelegramBegins == TelegramInit => TelegramInv
<1> SUFFICES ASSUME TelegramInit PROVE TelegramInv
  OBVIOUS
<1>1. TelegramTypeOK
  BY TelegramCrossCheckAssumption DEF TelegramInit, TelegramTypeOK, NoDelivery
<1>2. ASSUME NEW q \in Questions PROVE RowHolds(q) /\ ClaimsHold(q)
  <2>1. Unshown(carried, q) = {}
    BY DEF TelegramInit, Unshown
  <2>2. Cardinality(Unshown(carried, q)) = 0
    BY <2>1, FS_EmptySet
  <2> QED
    BY <2>2, TelegramCrossCheckAssumption
       DEF TelegramInit, RowHolds, ClaimsHold, NoDelivery, Started, Eligible, Open, Has
<1>3. \A c \in Responders : AnswerHolds(c)
  BY DEF TelegramInit, AnswerHolds
<1> QED  BY <1>1, <1>2, <1>3 DEF TelegramInv

\* What sync_telegram_link_outbox does to a row: the chat follows the link,
\* and a row of someone who stopped the messages is no longer queued.
LEMMA RowsRebound ==
    ASSUME NEW d \in Rows, NEW l \in {"waiting", "on", "off"}
    PROVE  /\ Rebound(d, l) \in Rows
           /\ Rebound(d, l).chat <=> Started(l)
           /\ Rebound(d, l).attempts = d.attempts
           /\ Rebound(d, l).status = "none" <=> d.status = "none"
           /\ Rebound(d, l).status = "responded" <=> d.status = "responded"
           /\ l = "off" => Rebound(d, l).status \notin {"pending", "waiting_binding"}
<1>1. Started(l) \in BOOLEAN
  BY DEF Started
<1>2. CASE l = "on"
  <2>1. CASE d.status \in {"waiting_binding", "blocked", "failed"}
    BY <1>1, <1>2, <2>1 DEF Rebound, Rows
  <2>2. CASE d.status \notin {"waiting_binding", "blocked", "failed"}
    BY <1>1, <1>2, <2>2 DEF Rebound, Rows
  <2> QED  BY <2>1, <2>2
<1>3. CASE l = "off"
  <2>1. CASE d.status \in {"waiting_binding", "pending", "failed"}
    BY <1>1, <1>3, <2>1 DEF Rebound, Rows
  <2>2. CASE d.status \notin {"waiting_binding", "pending", "failed"}
    BY <1>1, <1>3, <2>2 DEF Rebound, Rows
  <2> QED  BY <2>1, <2>2
<1>4. CASE l = "waiting"
  BY <1>1, <1>4 DEF Rebound, Rows
<1> QED  BY <1>2, <1>3, <1>4

\* A question of someone who stopped the messages is not queued, and the
\* chat is known of whoever started the bot
\* (enqueue_telegram_willingness_inquiry).
LEMMA RowsEnqueued ==
    ASSUME NEW l \in {"waiting", "on", "off"}
    PROVE  /\ Enqueued(l) \in Rows
           /\ Enqueued(l).chat <=> Started(l)
           /\ Enqueued(l).attempts = 0
           /\ Enqueued(l).status \notin {"none", "responded"}
           /\ l = "off" => Enqueued(l).status \notin {"pending", "waiting_binding"}
<1>1. Started(l) \in BOOLEAN
  BY DEF Started
<1>2. NoDelivery \in Rows /\ NoDelivery.attempts = 0
  BY TelegramCrossCheckAssumption DEF NoDelivery, Rows
<1> USE DEF Enqueued, Rows
<1>3. CASE l = "on"  BY <1>1, <1>2, <1>3
<1>4. CASE l = "off"  BY <1>1, <1>2, <1>4
<1>5. CASE l = "waiting"  BY <1>1, <1>2, <1>5
<1> QED  BY <1>3, <1>4, <1>5

\* A change of the link, with the rows the trigger brings up to date
\* (SyncParticipant, Bind, Disable).
LEMMA LinkingKeepsRows ==
    ASSUME TelegramInv, NEW p \in Participants, NEW l \in {"waiting", "on", "off"},
           LinkBecomes(p, l), Started(tlink[p]) => Started(l)
    PROVE  TelegramInv'
<1> USE DEF TelegramInv, LinkBecomes
<1>1. delivery \in [Questions -> Rows]
  BY DEF TelegramTypeOK, Rows
<1>2. ASSUME NEW q \in Questions
      PROVE  /\ delivery'[q] \in Rows /\ delivery'[q].attempts = delivery[q].attempts
             /\ RowHolds(q)'
  <2>1. tlink'[AskedOf[q]] = IF AskedOf[q] = p THEN l ELSE tlink[AskedOf[q]]
    BY TelegramCrossCheckAssumption DEF TelegramTypeOK
  <2>2. CASE AskedOf[q] # p \/ ~Open(q) \/ Has(q, {"sent", "responded", "processing"})
    <3>1. delivery'[q] = delivery[q]
      BY <2>2 DEF SyncedByLink
    <3> QED
      BY <1>1, <2>1, <2>2, <3>1 DEF RowHolds, Eligible, Open, Has, Started, TelegramTypeOK
  <2>3. CASE ~(AskedOf[q] # p \/ ~Open(q) \/ Has(q, {"sent", "responded", "processing"}))
    <3>1. delivery'[q] = Rebound(delivery[q], l)
      BY <2>3 DEF SyncedByLink, RowHolds, Open, Eligible
    <3> HIDE DEF LinkBecomes
    <3>2. question' = question
      BY DEF LinkBecomes
    <3> QED
      BY <1>1, <2>1, <2>3, <3>1, <3>2, RowsRebound DEF RowHolds, Eligible, Open, Has
  <2> QED  BY <2>2, <2>3
<1>3. TelegramTypeOK'
  <2>1. tlink' \in [Participants -> {"none", "waiting", "on", "off"}]
    BY DEF TelegramTypeOK
  <2>2. delivery' \in [Questions -> Rows]
    BY <1>2 DEF SyncedByLink
  <2> QED  BY <2>1, <2>2 DEF TelegramTypeOK, Rows
<1>4. \A q \in Questions : ClaimsHold(q)'
  BY <1>2 DEF ClaimsHold, Unshown
<1>5. \A c \in Responders : AnswerHolds(c)'
  BY DEF AnswerHolds
<1> QED  BY <1>2, <1>3, <1>4, <1>5

\* A participant has one link, and keeps the chat it once gave
\* (SyncParticipant, Bind, Disable).
LEMMA LinksKeepRows ==
    ASSUME TelegramInv, NEW p \in Participants,
           SyncParticipant(p) \/ Bind(p) \/ Disable(p)
    PROVE  TelegramInv'
<1>1. tlink[p] \in {"none", "waiting", "on", "off"}
  BY DEF TelegramInv, TelegramTypeOK
<1>2. \E l \in {"waiting", "on", "off"} : LinkBecomes(p, l) /\ (Started(tlink[p]) => Started(l))
  BY <1>1 DEF SyncParticipant, Bind, Disable, Started
<1> QED  BY <1>2, LinkingKeepsRows

\* A question is asked, its result lost or restored, or answered, with what
\* the triggers do to its row (Ask, ResultLost, ResultRestored).
LEMMA QuestionsKeepRows ==
    ASSUME TelegramInv, NEW q \in Questions,
           Ask(q) \/ ResultLost(q) \/ ResultRestored(q) \/ SetWillingness(q)
    PROVE  TelegramInv'
<1> USE DEF TelegramInv
<1>1. /\ delivery \in [Questions -> Rows]
      /\ tlink[AskedOf[q]] \in {"none", "waiting", "on", "off"}
  BY TelegramCrossCheckAssumption DEF TelegramTypeOK, Rows
<1>0. question \in [Questions -> Asking]
  BY DEF TelegramTypeOK, Asking
<1>2. /\ UNCHANGED <<tlink, carried, shown, responds>>
      /\ \A x \in Questions \ {q} : question'[x] = question[x] /\ delivery'[x] = delivery[x]
      /\ \A x \in Questions : question[x].answered => question'[x].answered
  <2>1. CASE Ask(q)  BY <1>0, <1>1, <2>1 DEF Ask, Asking
  <2>2. CASE ResultLost(q)  BY <1>0, <1>1, <2>2 DEF ResultLost, Reconciled, Asking
  <2>3. CASE ResultRestored(q)  BY <1>0, <1>1, <2>3 DEF ResultRestored, Asking
  <2>4. CASE SetWillingness(q)  BY <1>0, <1>1, <2>4 DEF SetWillingness, Asking
  <2> QED  BY <2>1, <2>2, <2>3, <2>4
<1>3. /\ TelegramTypeOK'
      /\ delivery'[q].attempts = delivery[q].attempts
      /\ RowHolds(q)'
  <2>1. CASE Ask(q)
    <3>1. tlink[AskedOf[q]] \in {"waiting", "on", "off"}
      BY <1>1, <2>1 DEF Ask
    <3>2. delivery'[q] = Enqueued(tlink[AskedOf[q]])
      BY <2>1 DEF Ask, TelegramTypeOK
    <3>3. /\ question'[q] = [question[q] EXCEPT !.asked = TRUE]
          /\ ~question[q].asked
      BY <2>1 DEF Ask, TelegramTypeOK
    <3>4. delivery' \in [Questions -> Rows] /\ delivery[q].attempts = 0
      BY <1>1, <2>1, <3>1, RowsEnqueued DEF Ask, RowHolds, NoDelivery
    <3>5. TelegramTypeOK'
      <4>1. question' \in [Questions -> Asking]
        BY <1>0, <2>1, ColumnsSet DEF Ask
      <4> QED  BY <1>2, <3>4, <4>1 DEF TelegramTypeOK, Rows, Asking
    <3>6. question[q] \in [asked : BOOLEAN, published : BOOLEAN, eligible : BOOLEAN,
                          answered : BOOLEAN]
      BY DEF TelegramTypeOK
    <3>7. RowHolds(q)'
      BY <1>2, <3>1, <3>2, <3>3, <3>6, RowsEnqueued DEF RowHolds, Eligible, Open, Has
    <3> QED  BY <3>1, <3>2, <3>4, <3>5, <3>7, RowsEnqueued
  <2>2. CASE ResultLost(q)
    <3>1. question[q].asked /\ ~Has(q, {"none"})
      BY <2>2 DEF ResultLost, Eligible, RowHolds
    <3>2. TelegramTypeOK'
      <4>1. question' \in [Questions -> Asking]
        <5>1. /\ [question EXCEPT ![q].published = FALSE] \in [Questions -> Asking]
              /\ [question EXCEPT ![q].eligible = FALSE] \in [Questions -> Asking]
          BY <1>0 DEF Asking
        <5> QED  BY <2>2, <5>1 DEF ResultLost
      <4>2. delivery' \in [Questions -> Rows]
        BY <1>1, <2>2 DEF ResultLost, Reconciled, Rows
      <4> QED  BY <1>2, <4>1, <4>2 DEF TelegramTypeOK, Rows, Asking
    <3>3. /\ question'[q].asked
          /\ ~(question'[q].published /\ question'[q].eligible)
          /\ question'[q].answered <=> question[q].answered
      BY <2>2, <3>1 DEF ResultLost, TelegramTypeOK
    <3>4. /\ delivery'[q].status \in {"sent", "responded", "blocked"}
          /\ delivery'[q].attempts = delivery[q].attempts
          /\ delivery'[q].chat = delivery[q].chat
          /\ delivery'[q].status = "responded" => delivery[q].status = "responded"
      BY <2>2, <3>1 DEF ResultLost, Reconciled, TelegramTypeOK, Has
    <3> QED  BY <1>2, <3>1, <3>2, <3>3, <3>4 DEF RowHolds, Eligible, Open, Has
  <2>3. CASE ResultRestored(q)
    <3>1. /\ TelegramTypeOK' /\ delivery' = delivery
          /\ question'[q] = [question[q] EXCEPT !.eligible = TRUE]
          /\ question[q].asked /\ question[q].published /\ ~question[q].eligible
      <4>1. question' \in [Questions -> Asking]
        BY <1>0, <2>3, ColumnsSet DEF ResultRestored
      <4>2. TelegramTypeOK' /\ delivery' = delivery
        BY <2>3, <4>1 DEF ResultRestored, TelegramTypeOK, Asking
      <4> QED  BY <2>3, <4>2 DEF ResultRestored, TelegramTypeOK
    <3>2. question[q] \in [asked : BOOLEAN, published : BOOLEAN, eligible : BOOLEAN,
                          answered : BOOLEAN]
      BY DEF TelegramTypeOK
    <3> QED  BY <1>2, <3>1, <3>2 DEF RowHolds, Eligible, Open, Has
  <2>4. CASE SetWillingness(q)
    <3>1. /\ TelegramTypeOK' /\ delivery' = delivery
          /\ question'[q] = [question[q] EXCEPT !.answered = TRUE]
          /\ question[q].asked
      <4>1. question' \in [Questions -> Asking]
        BY <1>0, <2>4, ColumnsSet DEF SetWillingness
      <4>2. TelegramTypeOK' /\ delivery' = delivery
        BY <2>4, <4>1 DEF SetWillingness, TelegramTypeOK, Asking
      <4> QED  BY <2>4, <4>2 DEF SetWillingness, TelegramTypeOK, Eligible
    <3>2. question[q] \in [asked : BOOLEAN, published : BOOLEAN, eligible : BOOLEAN,
                          answered : BOOLEAN]
      BY DEF TelegramTypeOK
    <3> QED  BY <1>2, <3>1, <3>2 DEF RowHolds, Eligible, Open, Has
  <2> QED  BY <2>1, <2>2, <2>3, <2>4
<1>4. ASSUME NEW x \in Questions PROVE RowHolds(x)' /\ ClaimsHold(x)'
  <2>1. delivery'[x].attempts = delivery[x].attempts
    BY <1>2, <1>3
  <2>2. ClaimsHold(x)'
    BY <1>2, <2>1 DEF ClaimsHold, Unshown
  <2>3. RowHolds(x)'
    BY <1>2, <1>3 DEF RowHolds, Eligible, Open, Has
  <2> QED  BY <2>2, <2>3
<1>5. \A c \in Responders : AnswerHolds(c)'
  BY <1>2 DEF AnswerHolds
<1> QED  BY <1>3, <1>4, <1>5

\* An answer and the mark on its row are two transactions, of which the second
\* follows the first (Service.Respond).
LEMMA AnsweringKeepsRows ==
    ASSUME TelegramInv, NEW c \in Responders,
           \/ \E q \in Questions : ResolveInquiry(c, q)
           \/ SetWillingnessFromChannel(c) \/ MarkResponded(c) \/ RespondEnds(c)
    PROVE  TelegramInv'
<1> USE DEF TelegramInv
<1>0. question \in [Questions -> Asking]
  BY DEF TelegramTypeOK, Asking
<1>1. CASE \/ \E q \in Questions : ResolveInquiry(c, q)
           \/ RespondEnds(c)
  <2>1. /\ UNCHANGED <<tlink, question, delivery, carried, shown>>
        /\ \E r \in [step : {"idle", "write"}, q : Questions \cup {NoQuestion}] :
             /\ responds' = [responds EXCEPT ![c] = r]
             /\ r.step = "write" => r.q \in Questions
    <3> DEFINE Entered(r) ==
                 /\ r \in [step : {"idle", "write"}, q : Questions \cup {NoQuestion}]
                 /\ responds' = [responds EXCEPT ![c] = r]
                 /\ r.step = "write" => r.q \in Questions
    <3>1. CASE RespondEnds(c)
      <4>1. Entered([step |-> "idle", q |-> NoQuestion])
        BY <3>1 DEF RespondEnds
      <4> QED  BY <3>1, <4>1 DEF RespondEnds
    <3>2. ASSUME NEW x \in Questions, ResolveInquiry(c, x)
          PROVE  Entered([step |-> "write", q |-> x])
      BY <3>2 DEF ResolveInquiry
    <3>3. CASE \E x \in Questions : ResolveInquiry(c, x)
      BY <3>2, <3>3 DEF ResolveInquiry
    <3> QED  BY <1>1, <3>1, <3>3
  <2>2. TelegramTypeOK'
    BY <2>1 DEF TelegramTypeOK
  <2>3. \A x \in Questions : RowHolds(x)' /\ ClaimsHold(x)'
    BY <2>1 DEF RowHolds, ClaimsHold, Unshown, Eligible, Open, Has
  <2>4. \A d \in Responders : AnswerHolds(d)'
    BY <2>1 DEF AnswerHolds, TelegramTypeOK
  <2> QED  BY <2>2, <2>3, <2>4
<1>2. CASE SetWillingnessFromChannel(c)
  <2> DEFINE q == responds[c].q
  <2>1. q \in Questions /\ question[q].asked
    BY <1>2 DEF SetWillingnessFromChannel, AnswerHolds, Eligible
  <2>2. /\ UNCHANGED <<tlink, delivery, carried, shown>>
        /\ question'[q] = [question[q] EXCEPT !.answered = TRUE]
        /\ \A x \in Questions \ {q} : question'[x] = question[x]
        /\ responds'[c] = [responds[c] EXCEPT !.step = "mark"]
        /\ \A d \in Responders \ {c} : responds'[d] = responds[d]
    BY <1>2, <2>1 DEF SetWillingnessFromChannel, TelegramTypeOK
  <2>3. TelegramTypeOK'
    <3>1. question' \in [Questions -> Asking]
      BY <1>0, <1>2, <2>1, ColumnsSet DEF SetWillingnessFromChannel
    <3>2. responds' \in [Responders -> [step : {"idle", "write", "mark"},
                                       q : Questions \cup {NoQuestion}]]
      BY <1>2 DEF SetWillingnessFromChannel, TelegramTypeOK
    <3> QED  BY <2>2, <3>1, <3>2 DEF TelegramTypeOK, Asking
  <2>4. /\ question[q] \in [asked : BOOLEAN, published : BOOLEAN, eligible : BOOLEAN,
                           answered : BOOLEAN]
        /\ \A x \in Questions : question[x].answered => question'[x].answered
        /\ question'[q].answered
    BY <2>1, <2>2 DEF TelegramTypeOK
  <2> HIDE DEF q
  <2>5. ASSUME NEW x \in Questions PROVE RowHolds(x)' /\ ClaimsHold(x)'
    <3>1. ClaimsHold(x)'
      BY <2>2 DEF ClaimsHold, Unshown
    <3>2. CASE x = q
      BY <2>1, <2>2, <2>4, <3>1, <3>2 DEF RowHolds, Eligible, Open, Has
    <3>3. CASE x # q
      BY <2>2, <3>1, <3>3 DEF RowHolds, Eligible, Open, Has
    <3> QED  BY <3>2, <3>3
  <2>6. ASSUME NEW d \in Responders PROVE AnswerHolds(d)'
    <3>1. CASE d = c
      BY <2>1, <2>2, <2>4, <3>1 DEF AnswerHolds, q, TelegramTypeOK
    <3>2. CASE d # c
      BY <2>2, <2>4, <3>2 DEF AnswerHolds
    <3> QED  BY <3>1, <3>2
  <2> QED  BY <2>3, <2>5, <2>6
<1>3. CASE MarkResponded(c)
  <2> DEFINE q == responds[c].q
  <2>1. q \in Questions /\ question[q].answered
    BY <1>3 DEF MarkResponded, AnswerHolds
  <2>2. /\ UNCHANGED <<tlink, question, carried, shown>>
        /\ responds'[c].step = "idle"
        /\ \A d \in Responders \ {c} : responds'[d] = responds[d]
        /\ \A x \in Questions \ {q} : delivery'[x] = delivery[x]
        /\ \/ delivery'[q] = delivery[q]
           \/ /\ delivery'[q] = [delivery[q] EXCEPT !.status = "responded"]
              /\ delivery[q].chat
    BY <1>3, <2>1 DEF MarkResponded, ChatKnown, TelegramTypeOK
  <2>3. TelegramTypeOK'
    BY <1>3 DEF TelegramTypeOK, MarkResponded
  <2>4. question[q].asked /\ delivery[q] \in Rows
    BY <2>1 DEF RowHolds, TelegramTypeOK, Rows
  <2> HIDE DEF q
  <2>5. ASSUME NEW x \in Questions PROVE RowHolds(x)' /\ ClaimsHold(x)'
    <3>1. delivery'[x].attempts = delivery[x].attempts
      BY <2>2, <2>4 DEF Rows
    <3>2. ClaimsHold(x)'
      BY <2>2, <3>1 DEF ClaimsHold, Unshown
    <3>3. CASE x = q
      BY <2>1, <2>2, <2>4, <3>2, <3>3 DEF RowHolds, Eligible, Open, Has, Rows
    <3>4. CASE x # q
      BY <2>2, <3>2, <3>4 DEF RowHolds, Eligible, Open, Has
    <3> QED  BY <3>3, <3>4
  <2>6. \A d \in Responders : AnswerHolds(d)'
    BY <2>2 DEF AnswerHolds
  <2> QED  BY <2>3, <2>5, <2>6
<1> QED  BY <1>1, <1>2, <1>3

\* A claim that is dropped, reported or shown waits no longer (BotStops,
\* Reported, SendMessage).
LEMMA UnshownShrinks ==
    ASSUME NEW at, NEW bt \in SUBSET at, NEW q
    PROVE  Cardinality(Unshown(bt, q)) <= Cardinality(Unshown(at, q))
BY UnshownCounted, FS_Subset DEF Unshown

\* What a claim leaves of a row it does not take: an expired lease failed, an
\* answered question is settled (ClaimDeliveries).
LEMMA RowsRecovered ==
    ASSUME TelegramInv, NEW q \in Questions,
           NEW expired \in SUBSET {x \in Questions : Has(x, {"processing"})}
    PROVE  /\ Recovered(expired)[q] \in Rows
           /\ Recovered(expired)[q].chat = delivery[q].chat
           /\ Recovered(expired)[q].attempts = delivery[q].attempts
           /\ \/ Recovered(expired)[q] = delivery[q]
              \/ /\ Recovered(expired)[q].status = "failed"
                 /\ Has(q, {"processing"})
              \/ /\ Recovered(expired)[q].status = "responded"
                 /\ question[q].answered
<1>1. delivery[q] \in Rows
  BY DEF TelegramInv, TelegramTypeOK, Rows
<1>2. CASE q \in expired
  <2>1. CASE question[q].answered
    BY <1>1, <1>2, <2>1 DEF Recovered, Settles, Rows
  <2>2. CASE ~question[q].answered
    BY <1>1, <1>2, <2>2 DEF Recovered, Settles, Rows
  <2> QED  BY <2>1, <2>2
<1>3. CASE q \notin expired
  BY <1>1, <1>3 DEF Recovered, Settles, Rows
<1> QED  BY <1>2, <1>3

\* A claim counts one attempt for each row it takes, and hands out the
\* delivery of that number (ClaimDeliveries).
LEMMA ClaimingKeepsRows == TelegramInv /\ ClaimDeliveries => TelegramInv'
<1> SUFFICES ASSUME TelegramInv, ClaimDeliveries PROVE TelegramInv'
  OBVIOUS
<1> USE DEF TelegramInv
<1>1. PICK expired \in SUBSET {q \in Questions : Has(q, {"processing"})} :
        /\ \A q \in Questions :
             Recovered(expired)[q].status = "responded" => Recovered(expired)[q].chat
        /\ \E S \in SUBSET {q \in Questions : Claimable(q, Recovered(expired)[q])} :
             /\ delivery' = [q \in Questions |->
                    IF q \in S
                    THEN [Recovered(expired)[q] EXCEPT !.status = "processing",
                                                      !.attempts = Counted(@)]
                    ELSE Recovered(expired)[q]]
             /\ carried' = carried \cup
                    {<<q, delivery[q].attempts + 1, "claimed">> : q \in S}
        /\ UNCHANGED <<tlink, question, shown, responds>>
  BY DEF ClaimDeliveries
<1> DEFINE now == Recovered(expired)
<1>2. PICK S \in SUBSET {q \in Questions : Claimable(q, now[q])} :
        /\ delivery' = [q \in Questions |->
               IF q \in S
               THEN [now[q] EXCEPT !.status = "processing", !.attempts = Counted(@)]
               ELSE now[q]]
        /\ carried' = carried \cup {<<q, delivery[q].attempts + 1, "claimed">> : q \in S}
  BY <1>1
<1>3. \A q \in Questions :
        /\ now[q] \in Rows
        /\ now[q].chat = delivery[q].chat
        /\ now[q].attempts = delivery[q].attempts
        /\ \/ now[q] = delivery[q]
           \/ now[q].status = "failed" /\ Has(q, {"processing"})
           \/ now[q].status = "responded" /\ question[q].answered /\ now[q].chat
  BY <1>1, RowsRecovered
<1> HIDE DEF now
<1>4. \A q \in S :
        /\ q \in Questions
        /\ Open(q) /\ now[q].chat
        /\ delivery[q].attempts \in Nat /\ delivery[q].attempts + 1 \in 1..MaxAttempts
        /\ delivery'[q] \in Rows
        /\ delivery'[q].status = "processing"
        /\ delivery'[q].chat = delivery[q].chat
        /\ delivery'[q].attempts = delivery[q].attempts + 1
  <2> SUFFICES ASSUME NEW q \in S
               PROVE  /\ q \in Questions
                      /\ Open(q) /\ now[q].chat
                      /\ delivery[q].attempts \in Nat
                      /\ delivery[q].attempts + 1 \in 1..MaxAttempts
                      /\ delivery'[q] \in Rows
                      /\ delivery'[q].status = "processing"
                      /\ delivery'[q].chat = delivery[q].chat
                      /\ delivery'[q].attempts = delivery[q].attempts + 1
    OBVIOUS
  <2>1. q \in Questions /\ Claimable(q, now[q])
    OBVIOUS
  <2>2. /\ now[q] \in Rows /\ now[q].chat = delivery[q].chat
        /\ now[q].attempts = delivery[q].attempts
    BY <1>3, <2>1
  <2>3. delivery[q].attempts \in Nat /\ delivery[q].attempts + 1 \in 1..MaxAttempts
    BY <2>1, <2>2, TelegramCrossCheckAssumption DEF Claimable, Rows
  <2>4. delivery'[q] = [now[q] EXCEPT !.status = "processing",
                                      !.attempts = delivery[q].attempts + 1]
    BY <1>2, <2>1, <2>2 DEF Counted
  <2>5. delivery[q].attempts + 1 \in 0..MaxAttempts
    BY <2>3, TelegramCrossCheckAssumption
  <2>6. /\ delivery'[q] \in Rows
        /\ delivery'[q].status = "processing"
        /\ delivery'[q].chat = delivery[q].chat
        /\ delivery'[q].attempts = delivery[q].attempts + 1
    BY <2>2, <2>4, <2>5 DEF Rows
  <2> QED
    BY <2>1, <2>3, <2>6 DEF Claimable
<1>5. \A q \in Questions \ S : delivery'[q] = now[q]
  BY <1>2
<1>6. TelegramTypeOK'
  <2>1. delivery' \in [Questions -> Rows]
    BY <1>2, <1>3, <1>4, <1>5
  <2>2. carried' \subseteq (Questions \X (1..MaxAttempts) \X {"claimed", "shown"})
    <3> DEFINE All == Questions \X (1..MaxAttempts) \X {"claimed", "shown"}
    <3>1. \A q \in S : <<q, delivery[q].attempts + 1, "claimed">> \in All
      BY <1>4
    <3>2. carried \subseteq All
      BY DEF TelegramTypeOK
    <3> HIDE DEF All
    <3>3. carried' \subseteq All
      BY <1>2, <3>1, <3>2
    <3> QED  BY <3>3 DEF All
  <2> QED  BY <1>1, <2>1, <2>2 DEF TelegramTypeOK, Rows
<1>7. ASSUME NEW q \in Questions PROVE RowHolds(q)'
  <2>1. CASE q \in S
    <3>1. question[q].asked /\ Eligible(q) /\ tlink[AskedOf[q]] # "none"
      BY <1>4, <2>1 DEF Open, Eligible, RowHolds
    <3> QED  BY <1>1, <1>4, <2>1, <3>1 DEF RowHolds, Eligible, Open, Has
  <2>2. CASE q \notin S
    <3>1. delivery'[q] = now[q]
      BY <1>5, <2>2
    <3>2. CASE now[q] = delivery[q]
      BY <1>1, <3>1, <3>2 DEF RowHolds, Eligible, Open, Has
    <3>3. CASE now[q].status = "failed" /\ Has(q, {"processing"})
      <4>1. question[q].asked /\ Eligible(q)
        BY <3>3 DEF RowHolds, Has, NoDelivery
      <4>2. delivery'[q].status = "failed" /\ delivery'[q].chat = delivery[q].chat
        BY <1>3, <3>1, <3>3
      <4> QED  BY <1>1, <4>1, <4>2 DEF RowHolds, Eligible, Open, Has
    <3>4. CASE now[q].status = "responded" /\ question[q].answered /\ now[q].chat
      BY <1>1, <1>3, <3>1, <3>4 DEF RowHolds, Eligible, Open, Has
    <3> QED  BY <1>3, <3>2, <3>3, <3>4
  <2> QED  BY <2>1, <2>2
<1>8. ASSUME NEW q \in Questions PROVE ClaimsHold(q)'
  <2>1. CASE q \in S
    <3> DEFINE n == delivery[q].attempts + 1
    <3>1. /\ n \in 1..MaxAttempts /\ delivery'[q].attempts = n
          /\ delivery[q].attempts \in Nat
      BY <1>4, <2>1
    <3> HIDE DEF n
    <3>0. \A i \in 1..MaxAttempts, step \in {"claimed", "shown"} :
            <<q, i, step>> \in carried => i <= delivery[q].attempts
      BY DEF ClaimsHold
    <3>9. ~(n <= delivery[q].attempts)
      BY <3>1 DEF n
    <3>2. n \notin Unshown(carried, q)
      BY <3>0, <3>9 DEF Unshown
    <3>3. Unshown(carried', q) = Unshown(carried, q) \cup {n}
      BY <1>2, <2>1, <3>1 DEF Unshown, n
    <3>4. Cardinality(Unshown(carried', q)) = Cardinality(Unshown(carried, q)) + 1
      BY <3>2, <3>3, UnshownCounted, FS_AddElement
    <3>5. shown'[q] = shown[q] /\ shown[q] \in Nat
      BY <1>1 DEF TelegramTypeOK
    <3>6. Cardinality(Unshown(carried, q)) \in Nat
      BY UnshownCounted
    <3>7. shown'[q] + Cardinality(Unshown(carried', q)) <= delivery'[q].attempts
      BY <3>1, <3>4, <3>5, <3>6 DEF ClaimsHold, n
    <3>8. \A i \in 1..MaxAttempts, step \in {"claimed", "shown"} :
            <<q, i, step>> \in carried' => i <= delivery'[q].attempts
      <4> SUFFICES ASSUME NEW i \in 1..MaxAttempts, NEW step \in {"claimed", "shown"},
                          <<q, i, step>> \in carried'
                   PROVE  i <= n
        BY <3>1
      <4>1. <<q, i, step>> \in carried \/ i = n
        BY <1>2 DEF n
      <4>2. <<q, i, step>> \in carried => i <= delivery[q].attempts
        BY <3>0
      <4> QED  BY <3>1, <4>1, <4>2 DEF n
    <3> QED  BY <3>7, <3>8 DEF ClaimsHold
  <2>2. CASE q \notin S
    <3>1. delivery'[q].attempts = delivery[q].attempts
      BY <1>3, <1>5, <2>2
    <3>2. \A i, step : <<q, i, step>> \in carried' <=> <<q, i, step>> \in carried
      BY <1>2, <2>2
    <3>3. Unshown(carried', q) = Unshown(carried, q)
      BY <3>2 DEF Unshown
    <3> QED  BY <1>1, <3>1, <3>2, <3>3 DEF ClaimsHold
  <2> QED  BY <2>1, <2>2
<1>9. \A c \in Responders : AnswerHolds(c)'
  BY <1>1 DEF AnswerHolds
<1> QED  BY <1>6, <1>7, <1>8, <1>9

\* A delivery is shown, reported or dropped: each of them once (SendMessage,
\* MarkSent, MarkFailed).
LEMMA CarryingKeepsRows ==
    ASSUME TelegramInv, NEW q \in Questions, NEW n \in 1..MaxAttempts,
           \/ SendMessage(q, n) \/ MarkSent(q, n)
           \/ \E retryable \in BOOLEAN : MarkFailed(q, n, retryable)
           \/ \E step \in {"claimed", "shown"} : BotStops(q, n, step)
    PROVE  TelegramInv'
<1> USE DEF TelegramInv
<1>1. CASE SendMessage(q, n)
  <2>1. /\ UNCHANGED <<tlink, question, delivery, responds>>
        /\ <<q, n, "claimed">> \in carried
        /\ carried' = (carried \ {<<q, n, "claimed">>}) \cup {<<q, n, "shown">>}
        /\ shown' = [shown EXCEPT ![q] = @ + 1]
    BY <1>1 DEF SendMessage
  <2>2. TelegramTypeOK'
    BY <2>1 DEF TelegramTypeOK
  <2>3. \A x \in Questions : RowHolds(x)'
    BY <2>1 DEF RowHolds, Eligible, Open, Has
  <2>4. ASSUME NEW x \in Questions PROVE ClaimsHold(x)'
    <3>1. \A i \in 1..MaxAttempts, step \in {"claimed", "shown"} :
            <<x, i, step>> \in carried' => i <= delivery'[x].attempts
      BY <2>1 DEF ClaimsHold
    <3>2. CASE x = q
      <4>1. n \in Unshown(carried, q) /\ Unshown(carried', q) = Unshown(carried, q) \ {n}
        BY <2>1 DEF Unshown
      <4>2. Cardinality(Unshown(carried', q)) = Cardinality(Unshown(carried, q)) - 1
        BY <4>1, UnshownCounted, FS_RemoveElement
      <4>3. /\ shown'[q] = shown[q] + 1 /\ shown[q] \in Nat
            /\ delivery[q].attempts \in Nat /\ delivery' = delivery
            /\ Cardinality(Unshown(carried, q)) \in Nat
        BY <2>1, UnshownCounted, TelegramCrossCheckAssumption DEF TelegramTypeOK
      <4>4. shown[q] + Cardinality(Unshown(carried, q)) <= delivery[q].attempts
        BY DEF ClaimsHold
      <4>5. shown'[q] + Cardinality(Unshown(carried', q)) <= delivery'[q].attempts
        BY <4>2, <4>3, <4>4
      <4> QED  BY <3>1, <3>2, <4>5 DEF ClaimsHold
    <3>3. CASE x # q
      <4>1. Unshown(carried', x) = Unshown(carried, x)
        BY <2>1, <3>3 DEF Unshown
      <4>2. shown'[x] = shown[x]
        BY <2>1, <3>3 DEF TelegramTypeOK
      <4> QED  BY <2>1, <3>1, <4>1, <4>2 DEF ClaimsHold
    <3> QED  BY <3>2, <3>3
  <2> QED  BY <2>1, <2>2, <2>3, <2>4 DEF AnswerHolds
<1>2. CASE ~SendMessage(q, n)
  <2> DEFINE Moved ==
        /\ UNCHANGED <<tlink, question, shown, responds>>
        /\ carried' \in SUBSET carried
        /\ \A x \in Questions \ {q} : delivery'[x] = delivery[x]
        /\ \/ delivery' = delivery
           \/ /\ Has(q, {"processing"})
              /\ delivery'[q].status \in {"sent", "failed", "blocked"}
              /\ delivery'[q].chat = delivery[q].chat
              /\ delivery'[q].attempts = delivery[q].attempts
              /\ delivery' \in [Questions -> Rows]
  <2>1. Moved
    <3>1. ASSUME NEW step \in {"claimed", "shown"}, NEW status \in {"sent", "failed", "blocked"},
                 Reported(q, n, step, status)
          PROVE  Moved
      <4>1. delivery \in [Questions -> Rows]
        BY DEF TelegramTypeOK, Rows
      <4> QED  BY <3>1, <4>1 DEF Reported, Rows
    <3>2. CASE \E step \in {"claimed", "shown"} : BotStops(q, n, step)
      BY <3>2 DEF BotStops
    <3> HIDE DEF Moved
    <3>3. MarkSent(q, n) => Moved
      BY <3>1 DEF MarkSent
    <3>4. ASSUME NEW retryable \in BOOLEAN, MarkFailed(q, n, retryable) PROVE Moved
      <4>1. CASE retryable /\ delivery[q].attempts < MaxAttempts
        BY <3>1, <3>4, <4>1 DEF MarkFailed
      <4>2. CASE ~(retryable /\ delivery[q].attempts < MaxAttempts)
        BY <3>1, <3>4, <4>2 DEF MarkFailed
      <4> QED  BY <4>1, <4>2
    <3> QED  BY <1>2, <3>2, <3>3, <3>4
  <2>2. TelegramTypeOK'
    BY <2>1 DEF TelegramTypeOK, Rows
  <2>3. ASSUME NEW x \in Questions PROVE RowHolds(x)'
    <3>1. CASE x = q
      BY <2>1, <3>1 DEF RowHolds, Eligible, Open, Has, NoDelivery
    <3>2. CASE x # q
      BY <2>1, <3>2 DEF RowHolds, Eligible, Open, Has
    <3> QED  BY <3>1, <3>2
  <2>4. ASSUME NEW x \in Questions PROVE ClaimsHold(x)'
    <3>1. delivery'[x].attempts = delivery[x].attempts /\ delivery[x].attempts \in Nat
      BY <2>1, TelegramCrossCheckAssumption DEF TelegramTypeOK
    <3>2. /\ Cardinality(Unshown(carried', x)) <= Cardinality(Unshown(carried, x))
          /\ Cardinality(Unshown(carried', x)) \in Nat /\ Cardinality(Unshown(carried, x)) \in Nat
      BY <2>1, UnshownShrinks, UnshownCounted
    <3>3. shown'[x] = shown[x] /\ shown[x] \in Nat
      BY <2>1 DEF TelegramTypeOK
    <3>4. shown[x] + Cardinality(Unshown(carried, x)) <= delivery[x].attempts
      BY DEF ClaimsHold
    <3>5. shown'[x] + Cardinality(Unshown(carried', x)) <= delivery'[x].attempts
      BY <3>1, <3>2, <3>3, <3>4
    <3> QED  BY <2>1, <3>1, <3>5 DEF ClaimsHold
  <2> QED  BY <2>1, <2>2, <2>3, <2>4 DEF AnswerHolds
<1> QED  BY <1>1, <1>2

\* Questions on Telegram follow the results and the links, one counts as
\* responded only when it was answered, and none is shown more often than
\* MaxAttempts (ClaimDeliveries, MarkResponded, the triggers of migrations 25
\* and 26).
THEOREM QuestionsFollowResults == TelegramSpec => []CrossCheckHolds
<1>1. TelegramInit => TelegramInv
  BY TelegramBegins
<1>2. TelegramInv /\ [TelegramNext]_telegramVars => TelegramInv'
  <2> SUFFICES ASSUME TelegramInv, [TelegramNext]_telegramVars PROVE TelegramInv'
    OBVIOUS
  <2>1. CASE TelegramNext
    BY <2>1, LinksKeepRows, QuestionsKeepRows, AnsweringKeepsRows, ClaimingKeepsRows,
       CarryingKeepsRows
       DEF TelegramNext, BotSteps
  <2>2. CASE UNCHANGED telegramVars
    <3>1. UNCHANGED <<tlink, question, delivery, carried, shown, responds>>
      BY <2>2 DEF telegramVars
    <3>2. TelegramTypeOK'
      BY <3>1 DEF TelegramInv, TelegramTypeOK
    <3>3. \A q \in Questions : RowHolds(q)' /\ ClaimsHold(q)'
      BY <3>1 DEF TelegramInv, RowHolds, ClaimsHold, Eligible, Open, Has, Unshown
    <3>4. \A c \in Responders : AnswerHolds(c)'
      BY <3>1 DEF TelegramInv, AnswerHolds
    <3> QED  BY <3>2, <3>3, <3>4 DEF TelegramInv
  <2> QED  BY <2>1, <2>2
<1> QED  BY <1>1, <1>2, TelegramInvSuffices, PTL DEF TelegramSpec

-----------------------------------------------------------------------------
(***************************************************************************)
(* The calendar.                                                           *)

\* A linked event that has another date is one the goroutine of the last
\* correction has yet to reach (SyncEventDates).
Awaited(p) ==
    day \in 1..MaxDates /\ (syncs[day].at = "waiting" \/ <<p, links[p]>> \in syncs[day].left)

Followed(p) ==
    p \notin excused /\ links[p] # NoEventId /\ events[links[p]].status = "there" =>
        events[links[p]].day = day \/ Awaited(p)

\* An event is in the hands of one person: by the link, by the request that
\* inserted it, or on the list of a goroutine (CreateEvents).
Tied(p, e) ==
    \/ links[p] = e
    \/ \E b \in Browsers :
         requests[b].at = "inserted" /\ requests[b].event = e /\ PersonOf[b] = p
    \/ \E k \in 1..MaxDates : <<p, e>> \in syncs[k].left

OneOwner ==
    \A e \in Events, p \in People :
        Tied(p, e) => /\ events[e].status # "unused"
                      /\ \A r \in People : Tied(r, e) => r = p

\* A request names the event Google gave it or removed for it (CreateEvents,
\* DeleteEvent).
RequestsName ==
    \A b \in Browsers :
        /\ requests[b].at \in {"inserted", "removed"} => requests[b].event \in Events
        /\ requests[b].at = "removed" => events[requests[b].event].status = "gone"

RequestRows == [at : {"idle", "inserted", "removed", "refused"}, event : Events \cup {NoEventId}]
EventRows == [status : {"unused", "there", "gone"}, day : 0..MaxDates]
SyncRows == [at : {"none", "waiting", "underway"}, left : SUBSET (People \X Events),
             refused : SUBSET People]

CalendarInv ==
    /\ CalendarTypeOK
    /\ \A p \in People : Followed(p)
    /\ OneOwner /\ RequestsName

\* The rows of requests, events and goroutines, each by its own set.
LEMMA CalendarRows ==
    ASSUME CalendarTypeOK
    PROVE  /\ requests \in [Browsers -> RequestRows]
           /\ events \in [Events -> EventRows]
           /\ syncs \in [1..MaxDates -> SyncRows]
BY DEF CalendarTypeOK, RequestRows, EventRows, SyncRows

\* Nothing was added and nothing corrected (CalendarInit).
LEMMA CalendarBegins == CalendarInit => CalendarInv
<1> SUFFICES ASSUME CalendarInit PROVE CalendarInv
  OBVIOUS
<1> USE CalendarAssumption DEF CalendarInit
<1>1. CalendarTypeOK
  BY DEF CalendarTypeOK, Unused, NoRequest, NoSync
<1>2. (\A p \in People : Followed(p)) /\ RequestsName
  BY DEF Followed, RequestsName, NoRequest
<1>3. OneOwner
  BY DEF OneOwner, Tied, NoRequest, NoSync
<1> QED  BY <1>1, <1>2, <1>3 DEF CalendarInv

\* What the goroutines of the corrections leave is what promised: when none is
\* underway, nothing is awaited (SyncEventDates).
LEMMA CalendarInvSuffices == CalendarInv => CalendarTypeOK /\ DatesFollow
BY DEF CalendarInv, Followed, Awaited, DatesFollow, Quiet

\* Nobody gets hold of an event that somebody has (CreateEvents).
LEMMA OwnersStay ==
    ASSUME OneOwner,
           \A p \in People, e \in Events : Tied(p, e)' => Tied(p, e),
           \A e \in Events : events'[e].status = "unused" => events[e].status = "unused"
    PROVE  OneOwner'
BY DEF OneOwner

\* Grants are issued, stored and revoked beside the events
\* (SaveCalendarGrant).
LEMMA GrantsKeepCalendar ==
    ASSUME CalendarInv, NEW p \in People, SaveCalendarGrant(p) \/ Revoke(p)
    PROVE  CalendarInv'
<1> USE CalendarAssumption DEF CalendarInv
<1>1. UNCHANGED <<day, links, events, requests, syncs, excused>>
  BY DEF SaveCalendarGrant, Revoke
<1>2. /\ stored' \in [People -> 0..MaxGrants] /\ issued' \in [People -> 0..MaxGrants]
      /\ revoked' \in [People -> 0..MaxGrants]
  <2>1. CASE SaveCalendarGrant(p)
    <3>1. issued[p] + 1 \in 0..MaxGrants
      BY <2>1 DEF SaveCalendarGrant, CalendarTypeOK
    <3> QED  BY <2>1, <3>1 DEF SaveCalendarGrant, CalendarTypeOK
  <2>2. CASE Revoke(p)  BY <2>2 DEF Revoke, CalendarTypeOK
  <2> QED  BY <2>1, <2>2
<1>3. CalendarTypeOK'
  BY <1>1, <1>2 DEF CalendarTypeOK
<1>4. (\A r \in People : Followed(r)') /\ RequestsName'
  BY <1>1 DEF Followed, Awaited, RequestsName
<1>5. OneOwner'
  BY <1>1 DEF OneOwner, Tied
<1> QED  BY <1>3, <1>4, <1>5

\* A request that finds its grant revoked clears that row only (Unlink).
LEMMA RefusalsKeepCalendar ==
    ASSUME CalendarInv, NEW b \in Browsers, FindRevoked(b) \/ Unlink(b)
    PROVE  CalendarInv'
<1> USE CalendarAssumption DEF CalendarInv
<1>1. /\ UNCHANGED <<day, issued, revoked, links, events, syncs, excused>>
      /\ stored' = [stored EXCEPT ![PersonOf[b]] = 0] \/ stored' = stored
      /\ \/ requests' = [requests EXCEPT ![b] = [at |-> "refused", event |-> NoEventId]]
         \/ requests' = [requests EXCEPT ![b] = [at |-> "idle", event |-> NoEventId]]
  BY DEF FindRevoked, Unlink, Answered, DeleteCalendarGrant, grantVars
<1>2. /\ requests' \in [Browsers -> RequestRows]
      /\ \A c \in Browsers \ {b} : requests'[c] = requests[c]
      /\ requests'[b].at \in {"idle", "refused"}
  <2>1. requests \in [Browsers -> RequestRows]
    BY DEF CalendarTypeOK, RequestRows
  <2> QED  BY <1>1, <2>1 DEF RequestRows
<1>3. CalendarTypeOK'
  <2>1. stored' \in [People -> 0..MaxGrants]
    BY <1>1 DEF CalendarTypeOK
  <2> QED  BY <1>1, <1>2, <2>1 DEF CalendarTypeOK, RequestRows
<1>4. \A r \in People : Followed(r)'
  BY <1>1 DEF Followed, Awaited
<1>5. OneOwner'
  <2>1. \A r \in People, x \in Events : Tied(r, x)' => Tied(r, x)
    BY <1>1, <1>2 DEF Tied
  <2> QED  BY <1>1, <2>1, OwnersStay
<1>6. RequestsName'
  BY <1>1, <1>2 DEF RequestsName
<1> QED  BY <1>3, <1>4, <1>5, <1>6

\* A new event is nobody's yet (InsertEvent).
LEMMA InsertingKeepsCalendar ==
    ASSUME CalendarInv, NEW b \in Browsers, NEW e \in Events, NEW d \in 0..day,
           InsertEvent(b, e, d)
    PROVE  CalendarInv'
<1> USE CalendarAssumption DEF CalendarInv
<1>1. /\ UNCHANGED <<day, grantVars, links, syncs, excused>>
      /\ events[e].status = "unused"
      /\ events' = [events EXCEPT ![e] = [status |-> "there", day |-> d]]
      /\ \/ requests' = [requests EXCEPT ![b] = [at |-> "inserted", event |-> e]]
         \/ UNCHANGED requests
      /\ requests[b] = NoRequest
  BY DEF InsertEvent, Unused, Answered
<1>2. d \in 0..MaxDates
  BY DEF CalendarTypeOK
<1>3. CalendarTypeOK'
  <2>1. events' \in [Events -> EventRows]
    BY <1>1, <1>2 DEF CalendarTypeOK, EventRows
  <2>2. requests' \in [Browsers -> RequestRows]
    BY <1>1, CalendarRows DEF RequestRows
  <2> QED  BY <1>1, <2>1, <2>2 DEF CalendarTypeOK, EventRows, RequestRows, grantVars
<1>4. \A p \in People : ~Tied(p, e)
  BY <1>1 DEF OneOwner
<1>5. /\ \A x \in Events \ {e} : events'[x] = events[x]
      /\ events'[e].status = "there"
      /\ \A c \in Browsers \ {b} : requests'[c] = requests[c]
      /\ requests'[b] = requests[b] \/ requests'[b] = [at |-> "inserted", event |-> e]
  BY <1>1 DEF CalendarTypeOK
<1>6. ASSUME NEW p \in People PROVE Followed(p)'
  <2>1. links[p] # e
    BY <1>4 DEF Tied
  <2>2. links[p] # NoEventId => events'[links[p]] = events[links[p]]
    BY <1>5, <2>1 DEF CalendarTypeOK
  <2> QED  BY <1>1, <2>2 DEF Followed, Awaited
<1>7. ASSUME NEW p \in People, NEW x \in Events, Tied(p, x)'
      PROVE  IF x = e THEN p = PersonOf[b] ELSE Tied(p, x)
  <2>1. CASE x = e  BY <1>1, <1>4, <1>5, <1>7, <2>1 DEF Tied
  <2>2. CASE x # e  BY <1>1, <1>5, <1>7, <2>2 DEF Tied
  <2> QED  BY <2>1, <2>2
<1>8. OneOwner'
  BY <1>5, <1>7 DEF OneOwner
<1>9. RequestsName'
  BY <1>1, <1>5 DEF RequestsName, NoRequest
<1> QED  BY <1>3, <1>6, <1>8, <1>9

\* The link that is stored names the event the request inserted; it counts as
\* excused unless its date is the timeline's (SaveEventLink).
LEMMA LinkingKeepsCalendar ==
    ASSUME CalendarInv, NEW b \in Browsers, SaveEventLink(b)
    PROVE  CalendarInv'
<1> USE CalendarAssumption DEF CalendarInv
<1> DEFINE p == PersonOf[b]
           e == requests[b].event
<1>1. /\ UNCHANGED <<day, grantVars, events, syncs>>
      /\ p \in People /\ e \in Events /\ Tied(p, e)
      /\ \/ /\ links' = [links EXCEPT ![p] = e]
            /\ excused' = Excusing(p, events[e].day)
         \/ UNCHANGED <<links, excused>>
      /\ requests' = [requests EXCEPT ![b] = [at |-> "idle", event |-> NoEventId]]
  BY DEF SaveEventLink, Answered, RequestsName, Tied
<1>2. CalendarTypeOK'
  BY <1>1 DEF CalendarTypeOK, grantVars, Excusing
<1>3. /\ \A c \in Browsers \ {b} : requests'[c] = requests[c]
      /\ requests'[b].at = "idle"
      /\ \A r \in People \ {p} : links'[r] = links[r] /\ (r \in excused' <=> r \in excused)
      /\ links'[p] = links[p] \/ links'[p] = e
  BY <1>1 DEF CalendarTypeOK, Excusing
<1>4. ASSUME NEW r \in People PROVE Followed(r)'
  <2>1. CASE r # p
    BY <1>1, <1>3, <2>1 DEF Followed, Awaited
  <2>2. CASE r = p /\ UNCHANGED <<links, excused>>
    BY <1>1, <2>2 DEF Followed, Awaited
  <2>3. CASE r = p /\ links' = [links EXCEPT ![p] = e] /\ excused' = Excusing(p, events[e].day)
    <3>1. links'[p] = e
      BY <1>1, <2>3 DEF CalendarTypeOK
    <3>2. p \notin excused' => events[e].day = day
      BY <2>3 DEF Excusing
    <3> QED  BY <1>1, <2>3, <3>1, <3>2 DEF Followed
  <2> QED  BY <1>1, <2>1, <2>2, <2>3
<1>5. OneOwner'
  <2>1. \A r \in People, x \in Events : Tied(r, x)' => Tied(r, x)
    BY <1>1, <1>3 DEF Tied
  <2> QED  BY <1>1, <2>1, OwnersStay
<1>6. RequestsName'
  BY <1>1, <1>3 DEF RequestsName
<1> QED  BY <1>2, <1>4, <1>5, <1>6

\* An event is removed at Google, and then its link here (DeleteEvent).
LEMMA DeletingKeepsCalendar ==
    ASSUME CalendarInv, NEW b \in Browsers,
           DeleteEvent(b) \/ DeleteEventLink(b) \/ DeleteUngranted(b)
    PROVE  CalendarInv'
<1> USE CalendarAssumption DEF CalendarInv
<1> DEFINE p == PersonOf[b]
           e == links[p]
<1>1. CASE DeleteEvent(b)
  <2>1. /\ UNCHANGED <<day, grantVars, links, syncs, excused>>
        /\ p \in People /\ e \in Events
        /\ events' = [events EXCEPT ![e].status = "gone"]
        /\ \/ requests' = [requests EXCEPT ![b] = [at |-> "removed", event |-> e]]
           \/ UNCHANGED requests
    BY <1>1 DEF DeleteEvent, Answered, CalendarTypeOK
  <2>2. /\ events'[e].status = "gone"
        /\ \A x \in Events \ {e} : events'[x] = events[x]
        /\ \A c \in Browsers \ {b} : requests'[c] = requests[c]
        /\ requests'[b] = requests[b] \/ requests'[b] = [at |-> "removed", event |-> e]
    BY <2>1 DEF CalendarTypeOK
  <2>3. CalendarTypeOK'
    <3>1. events' \in [Events -> EventRows]
      BY <2>1, CalendarRows DEF EventRows
    <3>2. requests' \in [Browsers -> RequestRows]
      BY <2>1, CalendarRows DEF RequestRows
    <3> QED  BY <2>1, <3>1, <3>2 DEF CalendarTypeOK, EventRows, RequestRows, grantVars
  <2>4. \A r \in People : Followed(r)'
    BY <2>1, <2>2 DEF Followed, Awaited, CalendarTypeOK
  <2>5. OneOwner'
    <3>1. \A r \in People, x \in Events : Tied(r, x)' => Tied(r, x)
      BY <2>1, <2>2 DEF Tied
    <3> QED  BY <2>2, <3>1, OwnersStay
  <2>6. RequestsName'
    BY <2>1, <2>2 DEF RequestsName
  <2> QED  BY <2>3, <2>4, <2>5, <2>6
<1>2. CASE DeleteEventLink(b) \/ DeleteUngranted(b)
  <2>1. /\ UNCHANGED <<day, grantVars, events, syncs, excused>>
        /\ p \in People
        /\ links' = links \/ links' = [links EXCEPT ![p] = NoEventId]
        /\ \/ requests' = [requests EXCEPT ![b] = [at |-> "idle", event |-> NoEventId]]
           \/ UNCHANGED requests
    BY <1>2 DEF DeleteEventLink, DeleteUngranted, Answered
  <2>2. /\ \A r \in People : links'[r] = links[r] \/ links'[r] = NoEventId
        /\ \A c \in Browsers : requests'[c] = requests[c] \/ requests'[c].at = "idle"
    BY <2>1 DEF CalendarTypeOK
  <2>3. CalendarTypeOK'
    <3>1. links' \in [People -> Events \cup {NoEventId}]
      BY <2>1 DEF CalendarTypeOK
    <3>2. requests' \in [Browsers -> RequestRows]
      BY <2>1, CalendarRows DEF RequestRows
    <3> QED  BY <2>1, <3>1, <3>2 DEF CalendarTypeOK, RequestRows, grantVars
  <2>4. \A r \in People : Followed(r)'
    BY <2>1, <2>2 DEF Followed, Awaited
  <2>5. OneOwner'
    <3>1. \A r \in People, x \in Events : Tied(r, x)' => Tied(r, x)
      BY <2>1, <2>2 DEF Tied
    <3> QED  BY <2>1, <3>1, OwnersStay
  <2>6. RequestsName'
    BY <2>1, <2>2 DEF RequestsName
  <2> QED  BY <2>3, <2>4, <2>5, <2>6
<1> QED  BY <1>1, <1>2

\* A correction starts a goroutine that will reach every link, or nobody is
\* told and everybody may see another date (SetTimelineChangeHook).
LEMMA CorrectingKeepsCalendar ==
    ASSUME CalendarInv, ChangeTimeline \/ ChangeUntold
    PROVE  CalendarInv'
<1> USE CalendarAssumption DEF CalendarInv
<1>1. /\ UNCHANGED <<grantVars, links, events, requests>>
      /\ day' = day + 1 /\ day \in 0..MaxDates /\ day < MaxDates
  BY DEF ChangeTimeline, ChangeUntold, CalendarTypeOK
<1>2. day' \in 0..MaxDates /\ day' \in 1..MaxDates
  BY <1>1
<1>3. CASE ChangeTimeline
  <2>1. syncs' = [syncs EXCEPT ![day'].at = "waiting"] /\ excused' = excused
    BY <1>1, <1>3 DEF ChangeTimeline
  <2>2. /\ syncs'[day'].at = "waiting"
        /\ \A k \in 1..MaxDates : syncs'[k].left = syncs[k].left
    BY <1>2, <2>1 DEF CalendarTypeOK
  <2>3. CalendarTypeOK'
    <3>1. syncs' \in [1..MaxDates -> [at : {"none", "waiting", "underway"},
                                      left : SUBSET (People \X Events),
                                      refused : SUBSET People]]
      BY <1>2, <2>1 DEF CalendarTypeOK
    <3> QED  BY <1>1, <1>2, <2>1, <3>1 DEF CalendarTypeOK, grantVars
  <2>4. \A p \in People : Followed(p)'
    BY <1>2, <2>2 DEF Followed, Awaited
  <2>5. OneOwner'
    <3>1. \A r \in People, x \in Events : Tied(r, x)' => Tied(r, x)
      BY <1>1, <2>2 DEF Tied
    <3> QED  BY <1>1, <3>1, OwnersStay
  <2> QED  BY <1>1, <2>3, <2>4, <2>5 DEF RequestsName
<1>4. CASE ChangeUntold
  <2>1. syncs' = syncs /\ excused' = People
    BY <1>4 DEF ChangeUntold
  <2>2. CalendarTypeOK'
    BY <1>1, <1>2, <2>1 DEF CalendarTypeOK, grantVars
  <2>3. OneOwner'
    <3>1. \A r \in People, x \in Events : Tied(r, x)' => Tied(r, x)
      BY <1>1, <2>1 DEF Tied
    <3> QED  BY <1>1, <3>1, OwnersStay
  <2> QED  BY <1>1, <2>1, <2>2, <2>3 DEF RequestsName, Followed
<1> QED  BY <1>3, <1>4

\* The goroutine lists the links there are, or ends before it does
\* (SyncEventDates).
LEMMA ListingKeepsCalendar ==
    ASSUME CalendarInv, NEW k \in 1..MaxDates,
           \/ SyncEventDates(k) \/ SyncLost(k)
           \/ \E p \in People : DropRevoked(k, p)
    PROVE  CalendarInv'
<1> USE CalendarAssumption DEF CalendarInv
<1>1. CASE SyncEventDates(k)
  <2> DEFINE now == {l \in People \X Events : links[l[1]] = l[2]}
  <2>1. /\ UNCHANGED <<day, grantVars, links, events, requests, excused>>
        /\ syncs' = [syncs EXCEPT ![k].at = "underway", ![k].left = now]
    BY <1>1 DEF SyncEventDates
  <2>2. /\ syncs'[k].left = now
        /\ \A j \in (1..MaxDates) \ {k} : syncs'[j] = syncs[j]
    BY <2>1 DEF CalendarTypeOK
  <2>3. \A p \in People, e \in Events : <<p, e>> \in now <=> links[p] = e
    OBVIOUS
  <2>4. CalendarTypeOK'
    <3>1. now \in SUBSET (People \X Events)
      OBVIOUS
    <3> HIDE DEF now
    <3>2. syncs' \in [1..MaxDates -> SyncRows]
      <4>1. syncs \in [1..MaxDates -> SyncRows]
        BY CalendarRows
      <4> PICK row \in SyncRows : row = syncs[k]
        BY <4>1
      <4>2. [row EXCEPT !.at = "underway", !.left = now] \in SyncRows
        BY <3>1 DEF SyncRows
      <4>3. syncs' = [syncs EXCEPT ![k] = [row EXCEPT !.at = "underway", !.left = now]]
        BY <2>1, <4>1
      <4> QED  BY <4>1, <4>2, <4>3
    <3> QED  BY <2>1, <3>2 DEF CalendarTypeOK, SyncRows, grantVars
  <2> HIDE DEF now
  <2>5. ASSUME NEW p \in People PROVE Followed(p)'
    <3>1. CASE day = k
      BY <2>1, <2>2, <2>3, <3>1 DEF Followed, Awaited, CalendarTypeOK
    <3>2. CASE day # k
      BY <2>1, <2>2, <3>2 DEF Followed, Awaited
    <3> QED  BY <3>1, <3>2
  <2>6. OneOwner'
    <3>1. \A r \in People, x \in Events : Tied(r, x)' => Tied(r, x)
      BY <2>1, <2>2, <2>3 DEF Tied
    <3> QED  BY <2>1, <3>1, OwnersStay
  <2> QED  BY <2>1, <2>4, <2>5, <2>6 DEF RequestsName
<1>2. CASE SyncLost(k)
  <2>1. /\ UNCHANGED <<day, grantVars, links, events, requests>>
        /\ syncs' = [syncs EXCEPT ![k] = [at |-> "underway", left |-> {}, refused |-> {}]]
        /\ excused' = People
    BY <1>2 DEF SyncLost
  <2>2. \A j \in 1..MaxDates : syncs'[j].left = syncs[j].left \/ syncs'[j].left = {}
    BY <2>1 DEF CalendarTypeOK
  <2>3. CalendarTypeOK'
    BY <2>1 DEF CalendarTypeOK, grantVars
  <2>4. OneOwner'
    <3>1. \A r \in People, x \in Events : Tied(r, x)' => Tied(r, x)
      BY <2>1, <2>2 DEF Tied
    <3> QED  BY <2>1, <3>1, OwnersStay
  <2> QED  BY <2>1, <2>3, <2>4 DEF RequestsName, Followed
<1>3. ASSUME NEW p \in People, DropRevoked(k, p) PROVE CalendarInv'
  <2>1. /\ UNCHANGED <<day, issued, revoked, events, requests, excused>>
        /\ stored' = [stored EXCEPT ![p] = 0] \/ stored' = stored
        /\ links' = links \/ links' = [links EXCEPT ![p] = NoEventId]
        /\ syncs' = [syncs EXCEPT ![k].refused = {}]
    BY <1>3 DEF DropRevoked, DeleteCalendarGrant
  <2>2. /\ \A j \in 1..MaxDates : syncs'[j].left = syncs[j].left /\ syncs'[j].at = syncs[j].at
        /\ \A r \in People : links'[r] = links[r] \/ links'[r] = NoEventId
    BY <2>1 DEF CalendarTypeOK
  <2>3. CalendarTypeOK'
    <3>1. syncs' \in [1..MaxDates -> SyncRows]
      <4>1. [syncs[k] EXCEPT !.refused = {}] \in SyncRows
        BY CalendarRows DEF SyncRows
      <4> QED  BY <2>1, <4>1, CalendarRows
    <3>2. stored' \in [People -> 0..MaxGrants]
      <4>1. stored \in [People -> 0..MaxGrants] /\ 0 \in 0..MaxGrants
        BY DEF CalendarTypeOK
      <4> QED  BY <2>1, <4>1
    <3>3. links' \in [People -> Events \cup {NoEventId}]
      BY <2>1 DEF CalendarTypeOK
    <3> QED  BY <2>1, <3>1, <3>2, <3>3 DEF CalendarTypeOK, SyncRows
  <2>4. \A r \in People : Followed(r)'
    BY <2>1, <2>2 DEF Followed, Awaited
  <2>5. OneOwner'
    <3>1. \A r \in People, x \in Events : Tied(r, x)' => Tied(r, x)
      BY <2>1, <2>2 DEF Tied
    <3> QED  BY <2>1, <3>1, OwnersStay
  <2> QED  BY <2>1, <2>3, <2>4, <2>5 DEF RequestsName
<1> QED  BY <1>1, <1>2, <1>3

\* One event is patched: it takes the date of this goroutine's correction, and
\* its person is excused when that is no longer the timeline's, or when the
\* patch failed; no other person's event is touched (SyncEventDates).
LEMMA PatchingKeepsCalendar ==
    ASSUME CalendarInv, NEW k \in 1..MaxDates, NEW l \in People \X Events,
           PatchEventDates(k, l) \/ PatchFails(k, l) \/ PatchRefused(k, l)
    PROVE  CalendarInv'
<1> USE CalendarAssumption DEF CalendarInv
<1> DEFINE p == l[1]
           e == l[2]
<1>1. /\ l = <<p, e>> /\ p \in People /\ e \in Events
      /\ l \in syncs[k].left
      /\ UNCHANGED <<day, grantVars, links, requests>>
      /\ events' \in {events, [events EXCEPT ![e].day = k]}
      /\ \/ syncs' = [syncs EXCEPT ![k].left = @ \ {l}]
         \/ syncs' = [syncs EXCEPT ![k].left = @ \ {l}, ![k].refused = {p}]
  BY DEF PatchEventDates, PatchFails, PatchRefused, Calling, Passed
<1>2. \A r \in People : links[r] = e => r = p
  <2>1. Tied(p, e)
    BY <1>1 DEF Tied
  <2>2. \A r \in People : links[r] = e => Tied(r, e)
    BY DEF Tied
  <2> QED  BY <1>1, <2>1, <2>2 DEF OneOwner
<1>3. /\ \A j \in (1..MaxDates) \ {k} : syncs'[j] = syncs[j]
      /\ syncs'[k].left = syncs[k].left \ {l}
      /\ syncs'[k].at = syncs[k].at
      /\ \A x \in Events \ {e} : events'[x] = events[x]
      /\ events'[e].status = events[e].status
  BY <1>1 DEF CalendarTypeOK
<1>4. \/ p \in excused' /\ excused' = excused \cup {p}
      \/ /\ links[p] = e /\ events'[e].day = k /\ k = day /\ excused' = excused \ {p}
      \/ (links[p] # e \/ events[e].status # "there") /\ excused' = excused
  <2>1. CASE PatchEventDates(k, l)
    <3>1. CASE events[e].status = "there" /\ links[p] = e
      BY <1>1, <2>1, <3>1 DEF PatchEventDates, Excusing, CalendarTypeOK
    <3>2. CASE ~(events[e].status = "there" /\ links[p] = e)
      BY <2>1, <3>2 DEF PatchEventDates
    <3> QED  BY <3>1, <3>2
  <2>2. CASE PatchFails(k, l) \/ PatchRefused(k, l)
    BY <2>2 DEF PatchFails, PatchRefused
  <2> QED  BY <2>1, <2>2
<1>5. CalendarTypeOK'
  <2>1. syncs' \in [1..MaxDates -> SyncRows]
    <3>1. /\ [syncs[k] EXCEPT !.left = @ \ {l}] \in SyncRows
          /\ [syncs[k] EXCEPT !.left = @ \ {l}, !.refused = {p}] \in SyncRows
      <4>1. {p} \in SUBSET People
        BY <1>1
      <4>2. syncs[k] \in SyncRows
        BY CalendarRows
      <4> HIDE DEF p
      <4> QED  BY <4>1, <4>2 DEF SyncRows
    <3> QED  BY <1>1, <3>1, CalendarRows
  <2>2. events' \in [Events -> EventRows]
    <3>1. k \in 0..MaxDates
      OBVIOUS
    <3> HIDE DEF e
    <3>2. events[e] \in EventRows
      BY <1>1, CalendarRows
    <3>3. [events[e] EXCEPT !.day = k] \in EventRows
      BY <3>1, <3>2 DEF EventRows
    <3> QED  BY <1>1, <3>3, CalendarRows
  <2>3. excused' \subseteq People
    BY <1>1, <1>4 DEF CalendarTypeOK
  <2> QED  BY <1>1, <2>1, <2>2, <2>3 DEF CalendarTypeOK, SyncRows, EventRows, grantVars
<1>6. ASSUME NEW r \in People PROVE Followed(r)'
  <2>1. CASE r = p
    <3>1. CASE links[p] = e
      BY <1>1, <1>3, <1>4, <2>1, <3>1 DEF Followed
    <3>2. CASE links[p] # e
      <4>1. links[p] # NoEventId => events'[links[p]] = events[links[p]]
        BY <1>1, <1>3, <3>2 DEF CalendarTypeOK
      <4>2. \A j \in 1..MaxDates : <<p, links[p]>> \in syncs[j].left
                                      => <<p, links[p]>> \in syncs'[j].left
        BY <1>1, <1>3, <3>2
      <4>3. \A j \in 1..MaxDates : syncs'[j].at = syncs[j].at
        BY <1>3
      <4> QED  BY <1>1, <1>4, <2>1, <3>2, <4>1, <4>2, <4>3 DEF Followed, Awaited
    <3> QED  BY <3>1, <3>2
  <2>2. CASE r # p
    <3>1. links[r] # NoEventId => events'[links[r]] = events[links[r]]
      BY <1>1, <1>2, <1>3, <2>2 DEF CalendarTypeOK
    <3>2. \A j \in 1..MaxDates : <<r, links[r]>> \in syncs[j].left
                                    => <<r, links[r]>> \in syncs'[j].left
      BY <1>1, <1>3, <2>2
    <3>3. \A j \in 1..MaxDates : syncs'[j].at = syncs[j].at
      BY <1>3
    <3>4. r \in excused' <=> r \in excused
      BY <1>4, <2>2
    <3> QED  BY <1>1, <3>1, <3>2, <3>3, <3>4 DEF Followed, Awaited
  <2> QED  BY <2>1, <2>2
<1>7. OneOwner'
  <2>1. \A r \in People, x \in Events : Tied(r, x)' => Tied(r, x)
    BY <1>1, <1>3 DEF Tied
  <2> QED  BY <1>3, <2>1, OwnersStay
<1>8. RequestsName'
  BY <1>1, <1>3 DEF RequestsName
<1> QED  BY <1>5, <1>6, <1>7, <1>8

\* What any step does (CalendarNext).
LEMMA CalendarStep == CalendarInv /\ [CalendarNext]_calendarVars => CalendarInv'
<1> SUFFICES ASSUME CalendarInv, [CalendarNext]_calendarVars PROVE CalendarInv'
  OBVIOUS
<1>1. CASE UNCHANGED calendarVars
  BY <1>1 DEF calendarVars, grantVars, CalendarInv, CalendarTypeOK, Followed, Awaited, OneOwner,
              Tied, RequestsName
<1> QED
  BY <1>1, GrantsKeepCalendar, RefusalsKeepCalendar, InsertingKeepsCalendar, LinkingKeepsCalendar, DeletingKeepsCalendar,
     CorrectingKeepsCalendar, ListingKeepsCalendar, PatchingKeepsCalendar
     DEF CalendarNext

\* A link that disappears named an event that is gone, or went with its grant,
\* or with the event that another request of the person removed
\* (DeleteEventLink, DeleteUngranted, SyncEventDates).
LEMMA LinksForgotten ==
    ASSUME CalendarInv, CalendarNext, NEW p \in People,
           links[p] # NoEventId, links'[p] = NoEventId
    PROVE  \/ events[links[p]].status = "gone"
           \/ stored[p] = 0
           \/ \E k \in 1..MaxDates : p \in syncs[k].refused
           \/ \E b \in Browsers : /\ PersonOf[b] = p /\ requests[b].at = "removed"
                                  /\ requests[b].event # links[p]
                                  /\ events[requests[b].event].status = "gone"
<1> USE CalendarAssumption DEF CalendarInv
<1>1. CASE \E b \in Browsers : SaveEventLink(b)
  <2>1. PICK b \in Browsers : SaveEventLink(b)
    BY <1>1
  <2>2. requests[b].event \in Events
    BY <2>1 DEF SaveEventLink, RequestsName
  <2> QED  BY <2>1, <2>2 DEF SaveEventLink, CalendarTypeOK
<1>2. CASE \E b \in Browsers : DeleteEventLink(b)
  <2>1. PICK b \in Browsers : DeleteEventLink(b)
    BY <1>2
  <2>2. PersonOf[b] = p /\ requests[b].at = "removed"
    BY <2>1 DEF DeleteEventLink, CalendarTypeOK
  <2> QED  BY <2>2 DEF RequestsName
<1>3. CASE \E b \in Browsers : DeleteUngranted(b)
  BY <1>3 DEF DeleteUngranted, CalendarTypeOK
<1>4. CASE \E k \in 1..MaxDates, r \in People : DropRevoked(k, r)
  <2>1. PICK k \in 1..MaxDates, r \in People : DropRevoked(k, r)
    BY <1>4
  <2>2. r = p
    BY <2>1 DEF DropRevoked, CalendarTypeOK
  <2> QED  BY <2>1, <2>2 DEF DropRevoked
<1>5. CASE UNCHANGED links
  BY <1>5
<1> QED
  BY <1>1, <1>2, <1>3, <1>4, <1>5
     DEF CalendarNext, SaveCalendarGrant, Revoke, InsertEvent, DeleteEvent, FindRevoked, Unlink,
         ChangeTimeline, ChangeUntold, SyncEventDates, SyncLost, PatchEventDates, PatchFails,
         PatchRefused

\* When no correction is underway, every linked event shows the timeline's
\* date or is one of those excused by name, and links are forgotten only for
\* their reasons, for any number of people, requests of one person and
\* corrections (SyncEventDates, DeleteEvent).
THEOREM CalendarsFollow == CalendarSpec => CalendarHolds
<1>1. CalendarInit => CalendarInv
  BY CalendarBegins
<1>2. CalendarInv /\ [CalendarNext]_calendarVars => CalendarInv'
  BY CalendarStep
<1>3. CalendarInv => CalendarTypeOK /\ DatesFollow
  BY CalendarInvSuffices
<1> DEFINE Forgotten ==
        \A p \in People :
          links[p] # NoEventId /\ links'[p] = NoEventId =>
            \/ events[links[p]].status = "gone"
            \/ stored[p] = 0
            \/ \E k \in 1..MaxDates : p \in syncs[k].refused
            \/ \E b \in Browsers : /\ PersonOf[b] = p /\ requests[b].at = "removed"
                                   /\ requests[b].event # links[p]
                                   /\ events[requests[b].event].status = "gone"
<1>4. CalendarInv /\ [CalendarNext]_calendarVars => [Forgotten]_calendarVars
  BY LinksForgotten
<1> QED
  BY <1>1, <1>2, <1>3, <1>4, PTL DEF CalendarSpec, CalendarHolds, ForgottenWhenGone

=============================================================================

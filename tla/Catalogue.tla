------------------------------- MODULE Catalogue -------------------------------
(***************************************************************************)
(* The admission programmes (internal/admissions): the rows an             *)
(* administrator edits and reviews, the public pages that read them        *)
(* through Redis (cached_repository.go), and the pages Cloudflare keeps.   *)
(*                                                                         *)
(* A change commits, and then its handler clears Redis and asks Cloudflare *)
(* to purge: two more steps, each of which may fail.  A reader that misses *)
(* Redis asks for the display year, for the rows and for their items, in   *)
(* three statements, and stores what it put together afterwards.           *)
(*                                                                         *)
(* The data of a programme is one value; "items" stands for its exam items *)
(* and dates, kept in tables of their own.  "reviewed", "late" and         *)
(* "unannounced" are history: which data was approved since it changed,    *)
(* what was read before the last clearing, and which rows changed with no  *)
(* clearing asked for.                                                     *)
(***************************************************************************)
EXTENDS Naturals, FiniteSets

CONSTANTS
    Programs,       \* identifiers of programmes: year, school and number
    YearOf,         \* their academic years
    SeriesOf,       \* their school and number
    Years,          \* years the display year can be set to
    Data, NoData,   \* what a programme says
    Vacant,         \* data whose admission quota is 0
    Queries,        \* what readers ask for: sets of programmes
    Editors, Readers

ASSUME CatalogueAssumption ==
    /\ YearOf \in [Programs -> Years] /\ Years \subseteq Nat
    /\ Vacant \subseteq Data /\ NoData \notin Data
    /\ Queries \subseteq SUBSET Programs /\ Readers \cap Queries = {}

VARIABLES
    programs,       \* rows of academic_programs
    displayYear,    \* the latest year the catalogue shows
    cached, pages,  \* what Redis and Cloudflare hold for each query
    editors,        \* administrators' calls
    readers,        \* calls of the public endpoints
    reviewed, late, unannounced

storeVars == <<programs, displayYear>>
copyVars == <<cached, pages>>
historyVars == <<reviewed, late, unannounced>>
catalogueVars == <<storeVars, copyVars, editors, readers, historyVars>>

Statuses == {"none", "pending", "published", "rejected", "archived"}

\* A row a reader put together: the programme, its data, and its items' data.
Shown == Programs \X Data \X Data

Nothing == [held |-> FALSE, rows |-> {}]

Holding(rows) == [held |-> TRUE, rows |-> rows]

EditorIdle == [step |-> "idle", left |-> {}]
ReaderIdle == [step |-> "idle", query |-> {}, year |-> 0, rows |-> {}]

CatalogueTypeOK ==
    /\ programs \in [Programs -> [status : Statuses, data : Data \cup {NoData}]]
    /\ displayYear \in Years
    /\ cached \in [Queries -> [held : BOOLEAN, rows : SUBSET Shown]]
    /\ pages \in [Queries -> [held : BOOLEAN, rows : SUBSET Shown]]
    /\ editors \in [Editors -> [step : {"idle", "clear", "purge"}, left : SUBSET Queries]]
    /\ readers \in [Readers ->
           [step : {"idle", "rows", "items", "keep", "answer"},
            query : Queries \cup {{}}, year : Years \cup {0}, rows : SUBSET Shown]]
    /\ reviewed \in [Programs -> BOOLEAN]
    /\ late \subseteq Readers \cup Queries
    /\ unannounced \subseteq Programs

NoProgram == [status |-> "none", data |-> NoData]

-----------------------------------------------------------------------------
(* What is public.                                                         *)

Public(year) ==
    {p \in Programs : /\ programs[p].status = "published"
                      /\ programs[p].data \notin Vacant
                      /\ YearOf[p] <= year}

\* A query for one programme answers with it, a list with the newest of a
\* series only.
ListPrograms(q, year) ==
    {p \in Public(year) \cap q :
        \A r \in Public(year) \cap q :
            SeriesOf[r] = SeriesOf[p] => YearOf[r] <= YearOf[p]}

Fresh(q) ==
    {<<p, programs[p].data, programs[p].data>> : p \in ListPrograms(q, displayYear)}

-----------------------------------------------------------------------------
(* Changes.  Every handler clears Redis once its change has committed.     *)

\* A faulty variant of Found: only the programmes' own queries are cleared.
FoundForEach(S) == {q \in Queries : cached[q].held /\ \E p \in S : q = {p}}

\* SCAN finds what was there throughout; what a reader adds meanwhile it may
\* or may not find, so a clearing is taken to miss it.
Found(S) == {q \in Queries : cached[q].held}

\* What was read before the change, and not yet stored, will be late.
Announced(e, S) ==
    /\ editors' = [editors EXCEPT ![e] = [step |-> "clear", left |-> Found(S)]]
    /\ unannounced' = {}
    /\ late' = late \cup {r \in Readers : readers[r].step \notin {"idle", "answer"}}

Idle(e) == editors[e].step = "idle"

Stored(p, d) == [status |-> "pending", data |-> d]

Changed(p, d) == programs[p].status = "none" \/ programs[p].data # d

Edited(S, d) == {p \in S : Changed(p, d)}

\* Unchanged rows are skipped, whatever their status.
Upserted(S, d) ==
    [p \in Programs |-> IF p \in Edited(S, d) THEN Stored(p, d) ELSE programs[p]]

\* sync takes a batch, update one programme.
UpsertPrograms(e, S, d) ==
    /\ Idle(e) /\ S # {}
    /\ programs' = Upserted(S, d)
    /\ reviewed' = [p \in Programs |-> reviewed[p] /\ p \notin Edited(S, d)]
    /\ Announced(e, S)
    /\ UNCHANGED <<displayYear, copyVars, readers>>

ReviewProgram(e, p, approved) ==
    /\ Idle(e) /\ programs[p].status = "pending"
    /\ programs' = [programs EXCEPT ![p].status =
                        IF approved THEN "published" ELSE "rejected"]
    /\ reviewed' = [reviewed EXCEPT ![p] = approved]
    /\ Announced(e, {p})
    /\ UNCHANGED <<displayYear, copyVars, readers>>

Toggled(p, hide) ==
    programs[p].status = IF hide THEN "published" ELSE "archived"

SetProgramArchived(e, p, hide) ==
    /\ Idle(e) /\ Toggled(p, hide)
    /\ programs' = [programs EXCEPT ![p].status =
                        IF hide THEN "archived" ELSE "published"]
    /\ Announced(e, {p})
    /\ UNCHANGED <<displayYear, copyVars, readers, reviewed>>

\* Foreign keys keep a programme somebody refers to: "used".
DeleteProgram(e, p, history, used) ==
    /\ Idle(e) /\ programs[p].status # "none"
    /\ history \/ programs[p].data \in Vacant
    /\ p \notin used
    /\ programs' = [programs EXCEPT ![p] = NoProgram]
    /\ reviewed' = [reviewed EXCEPT ![p] = FALSE]
    /\ Announced(e, {p})
    /\ UNCHANGED <<displayYear, copyVars, readers>>

SetDisplayLatestAcademicYear(e, y) ==
    /\ Idle(e)
    /\ displayYear' = y
    /\ Announced(e, {})
    /\ UNCHANGED <<programs, copyVars, readers, reviewed>>

\* A brochure upload is confirmed (ingestion): its programmes are stored and
\* published in one transaction, whose handler has nothing to clear.
ConfirmUpload(S, d) ==
    LET after == Upserted(S, d) IN
    /\ S # {} /\ \A p \in S : after[p].status \in {"pending", "published"}
    /\ programs' = [p \in Programs |-> IF p \in S
                        THEN [after[p] EXCEPT !.status = "published"] ELSE after[p]]
    /\ reviewed' = [p \in Programs |-> reviewed[p] \/ p \in S]
    /\ unannounced' = unannounced \cup S
    /\ UNCHANGED <<displayYear, copyVars, editors, readers, late>>

\* Redis drops the keys of one query; then Cloudflare is asked.
Clear(e, q) ==
    /\ q \in editors[e].left
    /\ cached' = [cached EXCEPT ![q] = Nothing]
    /\ editors' = [editors EXCEPT ![e].left = @ \ {q}]
    /\ late' = late \ {q}
    /\ UNCHANGED <<storeVars, pages, readers, reviewed, unannounced>>

Cleared(e) ==
    /\ editors[e].step = "clear" /\ editors[e].left = {}
    /\ editors' = [editors EXCEPT ![e].step = "purge"]
    /\ UNCHANGED <<storeVars, copyVars, readers, historyVars>>

\* Redis answers with an error: what is left stays, until it expires.
ClearFails(e) ==
    /\ editors[e].left # {}
    /\ late' = late \cup editors[e].left
    /\ editors' = [editors EXCEPT ![e] = [step |-> "purge", left |-> {}]]
    /\ UNCHANGED <<storeVars, copyVars, readers, reviewed, unannounced>>

\* Every page goes; a failed purge is logged.
Purge(e) ==
    /\ editors[e].step = "purge"
    /\ editors' = [editors EXCEPT ![e] = EditorIdle]
    /\ \/ pages' = [q \in Queries |-> Nothing]
       \/ UNCHANGED pages
    /\ UNCHANGED <<storeVars, cached, readers, historyVars>>

Changes(used) ==
    \/ \E e \in Editors, S \in SUBSET Programs, d \in Data : UpsertPrograms(e, S, d)
    \/ \E e \in Editors, p \in Programs, b \in BOOLEAN :
         \/ ReviewProgram(e, p, b)
         \/ SetProgramArchived(e, p, b)
         \/ DeleteProgram(e, p, b, used)
    \/ \E e \in Editors, y \in Years : SetDisplayLatestAcademicYear(e, y)
    \/ \E S \in SUBSET Programs, d \in Data : ConfirmUpload(S, d)

Clearing ==
    \E e \in Editors :
        \/ \E q \in Queries : Clear(e, q)
        \/ Cleared(e) \/ ClearFails(e) \/ Purge(e)

-----------------------------------------------------------------------------
(* Readers.                                                                *)

At(r, step) == readers[r].step = step

\* Redis answers, or the database is asked, beginning with the display year.
AskFor(r, q) ==
    /\ At(r, "idle") /\ ~pages[q].held
    /\ readers' = [readers EXCEPT ![r] =
           IF cached[q].held
           THEN [ReaderIdle EXCEPT !.step = "answer", !.query = q, !.rows = cached[q].rows]
           ELSE [ReaderIdle EXCEPT !.step = "rows", !.query = q, !.year = displayYear]]
    /\ UNCHANGED <<storeVars, copyVars, editors, historyVars>>

ReadRows(r) ==
    /\ At(r, "rows")
    /\ readers' = [readers EXCEPT ![r].step = "items",
                       ![r].rows = {<<p, programs[p].data, programs[p].data>> :
                                       p \in ListPrograms(readers[r].query, readers[r].year)}]
    /\ UNCHANGED <<storeVars, copyVars, editors, historyVars>>

\* The items of a programme deleted since are gone: the row keeps none, as if
\* they were its own.
ItemsOf(p, d) == IF programs[p].data = NoData THEN d ELSE programs[p].data

ReadItems(r) ==
    /\ At(r, "items")
    /\ readers' = [readers EXCEPT ![r].step = "keep",
                       ![r].rows = {<<row[1], row[2], ItemsOf(row[1], row[2])>> : row \in @}]
    /\ UNCHANGED <<storeVars, copyVars, editors, historyVars>>

\* "not found" is not stored, an empty list is.
Storable(q, rows) == rows # {} \/ Cardinality(q) > 1

setCached(r) ==
    LET q == readers[r].query IN
    /\ At(r, "keep")
    /\ readers' = [readers EXCEPT ![r].step = "answer"]
    /\ \/ /\ Storable(q, readers[r].rows)
          /\ cached' = [cached EXCEPT ![q] = Holding(readers[r].rows)]
          /\ late' = (late \ {r, q}) \cup (IF r \in late THEN {q} ELSE {})
       \/ UNCHANGED cached /\ late' = late \ {r}
    /\ UNCHANGED <<storeVars, pages, editors, reviewed, unannounced>>

\* Cloudflare may keep what it was answered.
Answer(r) ==
    /\ At(r, "answer")
    /\ readers' = [readers EXCEPT ![r] = ReaderIdle]
    /\ \/ pages' = [pages EXCEPT ![readers[r].query] = Holding(readers[r].rows)]
       \/ UNCHANGED pages
    /\ UNCHANGED <<storeVars, cached, editors, historyVars>>

\* An entry lives five minutes.
Expire(q) ==
    /\ cached[q].held
    /\ cached' = [cached EXCEPT ![q] = Nothing]
    /\ late' = late \ {q}
    /\ UNCHANGED <<storeVars, pages, editors, readers, reviewed, unannounced>>

Reading ==
    \/ \E r \in Readers :
         \/ \E q \in Queries : AskFor(r, q)
         \/ ReadRows(r) \/ ReadItems(r) \/ setCached(r) \/ Answer(r)
    \/ \E q \in Queries : Expire(q)

-----------------------------------------------------------------------------

CatalogueInit ==
    /\ programs = [p \in Programs |-> NoProgram]
    /\ displayYear \in Years
    /\ cached = [q \in Queries |-> Nothing]
    /\ pages = [q \in Queries |-> Nothing]
    /\ editors = [e \in Editors |-> EditorIdle]
    /\ readers = [r \in Readers |-> ReaderIdle]
    /\ reviewed = [p \in Programs |-> FALSE]
    /\ late = {} /\ unannounced = {}

-----------------------------------------------------------------------------

\* Whatever is public, or can be shown again from the archive, says what an
\* administrator approved after its last change (admin_postgres_repository.go).
PublicWasReviewed ==
    \A p \in Programs :
        programs[p].status \in {"published", "archived"} => reviewed[p]

\* What Redis holds for a query is what the database would answer, unless its
\* clearing is under way or failed, or the entry was read across a change, or
\* the change came from a confirmed upload (cached_repository.go, admin_handler.go).
StaleIsExplained ==
    \A q \in Queries :
        cached[q].held /\ cached[q].rows # Fresh(q) =>
            \/ \E e \in Editors : q \in editors[e].left
            \/ q \in late
            \/ q \cap unannounced # {}

\* What the public sees of the catalogue was reviewed, and what caches show
\* differs only for a known reason (admin_postgres_repository.go,
\* cached_repository.go).
CatalogueHolds == CatalogueTypeOK /\ PublicWasReviewed /\ StaleIsExplained

\* The change is on the pages once the last call has returned, however it was
\* made: "Admin writes actively invalidate this cache; the TTL also bounds
\* staleness for out-of-band database changes" (cached_repository.go:13-15).
ChangesShow ==
    (\A e \in Editors : Idle(e)) =>
        \A q \in Queries : cached[q].held => cached[q].rows = Fresh(q) \/ q \in late

\* An edition that nobody saw together is never put on a page
\* (postgres_repository.go, GetProgram).
NoMixedEditions ==
    \A q \in Queries : \A row \in cached[q].rows : row[2] = row[3]
================================================================================

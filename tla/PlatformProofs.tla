--------------------------- MODULE PlatformProofs ---------------------------
(***************************************************************************)
(* Theorems about official results, live events and rate limits, in this   *)
(* order.  Each part has an invariant of its own: ResultsInv, LiveInv and  *)
(* LimitsInv.                                                              *)
(***************************************************************************)
EXTENDS OfficialResults, RateLimits, LiveEvents, FiniteSetTheorems, TLAPS

-----------------------------------------------------------------------------
(* The lists.                                                              *)

(* The ranked rows up to that of n, whose number is the slot of n. *)
UpTo(rows, n) == {m \in Ranked(rows) : rows[m].place <= rows[n].place}

SlotsGiven(rows) ==
    \A n \in Numbers :
        rows[n].slot = IF n \in Ranked(rows) THEN Cardinality(UpTo(rows, n)) ELSE 0

(* A file names every place once and leaves matches and slots to the       *)
(* server (ImportOfficialBatch).                                           *)
LEMMA RosterRows ==
    ASSUME NEW roster \in Rosters
    PROVE  /\ roster \in [Numbers -> Row]
           /\ DistinctPlaces(roster)
<1>1. /\ roster \in [Numbers -> [listed : BOOLEAN, place : 0..MaxPlace, slot : {0}, app : {None}]]
      /\ DistinctPlaces(roster)
  BY DEF Rosters
<1>2. \A n \in Numbers : roster[n] \in Row
  BY <1>1 DEF Row
<1>3. QED
  BY <1>1, <1>2

(* A row is matched to the application that has its number, if any. *)
LEMMA MatchedRows ==
    ASSUME NEW rows
    PROVE  /\ Matched(rows) \in [Numbers -> Apps \cup {None}]
           /\ \A n \in Numbers : Matched(rows)[n] # None => number[Matched(rows)[n]] = n
<1>1. ASSUME NEW n \in Numbers
      PROVE  /\ Matched(rows)[n] \in Apps \cup {None}
             /\ Matched(rows)[n] # None => number[Matched(rows)[n]] = n
  <2>1. CASE rows[n].listed /\ \E a \in Apps : number[a] = n
    <3>1. PICK a \in Apps : a = (CHOOSE c \in Apps : number[c] = n) /\ number[a] = n
      BY <2>1
    <3>2. Matched(rows)[n] = a
      BY <2>1, <3>1 DEF Matched
    <3>3. QED
      BY <3>1, <3>2
  <2>2. CASE ~(rows[n].listed /\ \E a \in Apps : number[a] = n)
    BY <2>2 DEF Matched
  <2>3. QED
    BY <2>1, <2>2
<1>2. Matched(rows) = [n \in Numbers |-> Matched(rows)[n]]
  BY DEF Matched
<1>3. QED
  BY <1>1, <1>2

LEMMA RankedFinite ==
    ASSUME NEW rows, NEW n
    PROVE  /\ IsFiniteSet(Ranked(rows)) /\ Cardinality(Ranked(rows)) \in Nat
           /\ IsFiniteSet(UpTo(rows, n)) /\ Cardinality(UpTo(rows, n)) \in Nat
<1>1. Ranked(rows) \in SUBSET Numbers /\ UpTo(rows, n) \in SUBSET Numbers
  BY DEF Ranked, UpTo
<1>2. IsFiniteSet(Ranked(rows)) /\ IsFiniteSet(UpTo(rows, n))
  BY <1>1, FS_Subset, ResultsAssumption
<1>3. QED
  BY <1>2, FS_CardinalityType

(* Numbering the ranked rows changes nothing but the slots. *)
LEMMA IndexedRows ==
    ASSUME NEW rows \in [Numbers -> Row]
    PROVE  /\ Indexed(rows) \in [Numbers -> Row]
           /\ \A n \in Numbers : /\ Indexed(rows)[n].app = rows[n].app
                                 /\ Indexed(rows)[n].place = rows[n].place
                                 /\ Indexed(rows)[n].listed = rows[n].listed
           /\ Ranked(Indexed(rows)) = Ranked(rows)
           /\ SlotsGiven(Indexed(rows))
<1>1. ASSUME NEW n \in Numbers
      PROVE  /\ Indexed(rows)[n] \in Row
             /\ Indexed(rows)[n].app = rows[n].app
             /\ Indexed(rows)[n].place = rows[n].place
             /\ Indexed(rows)[n].listed = rows[n].listed
             /\ Indexed(rows)[n].slot =
                    IF n \in Ranked(rows) THEN Cardinality(UpTo(rows, n)) ELSE 0
  <2>1. PICK s \in Nat : s = IF n \in Ranked(rows) THEN Cardinality(UpTo(rows, n)) ELSE 0
    BY RankedFinite
  <2>2. Indexed(rows)[n] = [rows[n] EXCEPT !.slot = s]
    BY <2>1 DEF Indexed, UpTo
  <2>3. rows[n] \in Row
    OBVIOUS
  <2>4. QED
    BY <2>1, <2>2, <2>3 DEF Row
<1>2. Indexed(rows) = [n \in Numbers |-> Indexed(rows)[n]]
  BY DEF Indexed
<1>3. Indexed(rows) \in [Numbers -> Row]
  BY <1>1, <1>2
<1>4. Ranked(Indexed(rows)) = Ranked(rows)
  BY <1>1 DEF Ranked
<1>5. ASSUME NEW n \in Numbers
      PROVE  UpTo(Indexed(rows), n) = UpTo(rows, n)
  BY <1>1, <1>4 DEF UpTo, Ranked
<1>6. SlotsGiven(Indexed(rows))
  BY <1>1, <1>4, <1>5 DEF SlotsGiven
<1>7. QED
  BY <1>1, <1>3, <1>4, <1>6

(* What the numbering of a ranking is: the ranked rows have the slots      *)
(* 1, 2, ... in the order of their places.                                 *)
LEMMA SlotsInOrder ==
    ASSUME NEW rows \in [Numbers -> Row], DistinctPlaces(rows), SlotsGiven(rows),
           NEW m \in Ranked(rows), NEW n \in Ranked(rows)
    PROVE  /\ rows[m].slot \in 1..Cardinality(Ranked(rows))
           /\ rows[m].slot < rows[n].slot <=> rows[m].place < rows[n].place
           /\ rows[m].slot = rows[n].slot => m = n
<1>1. /\ m \in Numbers /\ n \in Numbers
      /\ rows[m].place \in Nat /\ rows[n].place \in Nat
      /\ rows[m].place > 0
  BY ResultsAssumption DEF Ranked, Row
<1>2. /\ rows[m].slot = Cardinality(UpTo(rows, m))
      /\ rows[n].slot = Cardinality(UpTo(rows, n))
  BY <1>1 DEF SlotsGiven
<1>3. ASSUME NEW j \in Ranked(rows), NEW k \in Ranked(rows),
             rows[j].place < rows[k].place
      PROVE  Cardinality(UpTo(rows, j)) < Cardinality(UpTo(rows, k))
  <2>1. \A i \in Numbers : rows[i].place \in Nat
    BY ResultsAssumption DEF Row
  <2>2. j \in Numbers /\ k \in Numbers
    BY DEF Ranked
  <2>3. UpTo(rows, j) \in SUBSET UpTo(rows, k)
    BY <1>3, <2>1, <2>2 DEF UpTo, Ranked
  <2>4. k \in UpTo(rows, k) /\ k \notin UpTo(rows, j)
    BY <1>3, <2>1, <2>2 DEF UpTo
  <2>5. /\ IsFiniteSet(UpTo(rows, k))
        /\ Cardinality(UpTo(rows, j)) \in Nat /\ Cardinality(UpTo(rows, k)) \in Nat
    BY RankedFinite
  <2>6. /\ Cardinality(UpTo(rows, j)) <= Cardinality(UpTo(rows, k))
        /\ Cardinality(UpTo(rows, k)) = Cardinality(UpTo(rows, j)) => UpTo(rows, k) = UpTo(rows, j)
    BY ONLY <2>3, <2>5, FS_Subset
  <2>7. QED
    BY <2>4, <2>5, <2>6
<1>4. Cardinality(UpTo(rows, m)) \in 1..Cardinality(Ranked(rows))
  <2>1. UpTo(rows, m) \in SUBSET Ranked(rows) /\ m \in UpTo(rows, m)
    BY <1>1 DEF UpTo
  <2>2. /\ IsFiniteSet(Ranked(rows)) /\ Cardinality(Ranked(rows)) \in Nat
        /\ IsFiniteSet(UpTo(rows, m)) /\ Cardinality(UpTo(rows, m)) \in Nat
    BY RankedFinite
  <2>3. Cardinality(UpTo(rows, m)) <= Cardinality(Ranked(rows))
    BY ONLY <2>1, <2>2, FS_Subset
  <2>4. Cardinality(UpTo(rows, m)) # 0
    BY <2>1, <2>2, FS_EmptySet
  <2>5. QED
    BY <2>2, <2>3, <2>4
<1>5. /\ Cardinality(UpTo(rows, m)) \in Nat
      /\ Cardinality(UpTo(rows, n)) \in Nat
  BY RankedFinite
<1>6. rows[m].place = rows[n].place => m = n
  BY <1>1 DEF DistinctPlaces
<1>7. QED
  <2>1. CASE rows[m].place < rows[n].place
    BY <2>1, <1>1, <1>2, <1>3, <1>4, <1>5
  <2>2. CASE rows[n].place < rows[m].place
    BY <2>2, <1>1, <1>2, <1>3, <1>4, <1>5
  <2>3. CASE rows[m].place = rows[n].place
    BY <2>3, <1>1, <1>2, <1>4, <1>5, <1>6
  <2>4. QED
    BY <1>1, <2>1, <2>2, <2>3

LEMMA SlotsGivenOnce ==
    ASSUME NEW rows \in [Numbers -> Row], DistinctPlaces(rows), SlotsGiven(rows)
    PROVE  /\ {n \in Numbers : rows[n].slot > 0} = Ranked(rows)
           /\ {rows[n].slot : n \in Ranked(rows)} = 1..Cardinality(Ranked(rows))
<1> DEFINE slot == [n \in Ranked(rows) |-> rows[n].slot]
           Slots == 1..Cardinality(Ranked(rows))
<1>1. IsFiniteSet(Ranked(rows)) /\ Cardinality(Ranked(rows)) \in Nat
  BY RankedFinite
<1>2. \A m \in Ranked(rows) : rows[m].slot \in Slots
  BY SlotsInOrder
<1>3. \A m, n \in Ranked(rows) : rows[m].slot = rows[n].slot => m = n
  BY SlotsInOrder
<1>4. slot \in Injection(Ranked(rows), Slots)
  BY <1>2, <1>3 DEF Injection, IsInjective
<1>5. IsFiniteSet(Slots) /\ Cardinality(Slots) = Cardinality(Ranked(rows))
  BY <1>1, FS_Interval
<1>6. slot \in Surjection(Ranked(rows), Slots)
  BY ONLY <1>4, <1>5, FS_Injection
<1>7. \A i \in Slots : \E n \in Ranked(rows) : rows[n].slot = i
  BY <1>6 DEF Surjection
<1>8. \A n \in Numbers : rows[n].slot > 0 <=> n \in Ranked(rows)
  BY <1>1, <1>2 DEF SlotsGiven
<1>9. {n \in Numbers : rows[n].slot > 0} = Ranked(rows)
  BY <1>8 DEF Ranked
<1>10. QED
  BY <1>2, <1>7, <1>9
-----------------------------------------------------------------------------
(* The invariant.  A publication under way matches an application to one   *)
(* row of a list that still waits for review; at most one list is          *)
(* published; and unless an extraction may add rows to it, its slots are   *)
(* those of its ranking and the array is as long as the ranking.           *)
OneRowEach(rows) ==
    \A m, n \in Numbers : rows[m].app = rows[n].app /\ rows[m].app # None => m = n

PublicationHolds ==
    /\ publishing.batch # None => batch[publishing.batch] = "pending_review"
    /\ \A m, n \in Numbers :
          publishing.match[m] = publishing.match[n] /\ publishing.match[m] # None => m = n

RowAsked(b, n) ==
    listing[b][n].place > 0 /\ listing[b][n].app # None =>
        \/ willing[listing[b][n].app] # None
        \/ \E c \in Apps : WasAsked(c, b, n)

ListHolds(b) ==
    /\ SlotsGiven(listing[b])
    /\ Len(values) = Cardinality(Ranked(listing[b]))
    /\ OneRowEach(listing[b])
    /\ \A n \in Numbers : RowAsked(b, n)

ListsHold ==
    /\ \A b, c \in Published : b = c
    /\ \A b \in Batches : DistinctPlaces(listing[b])
    /\ \A b \in PublishedAsImported : ListHolds(b)

ResultsInv == TypeOK /\ PublicationHolds /\ ListsHold

(* The array a correction rebuilds has one value for each slot. *)
LEMMA RebuiltValues ==
    ASSUME NEW rows \in [Numbers -> Row], DistinctPlaces(rows), SlotsGiven(rows),
           willing \in [Apps -> Values \cup {None}]
    PROVE  /\ Rebuilt(rows) \in Seq(Values)
           /\ Len(Rebuilt(rows)) = Cardinality(Ranked(rows))
<1> DEFINE InSlot(i) == CHOOSE n \in Numbers : rows[n].slot = i
           Value(n) == IF rows[n].app = None \/ willing[rows[n].app] = None
                       THEN Default ELSE willing[rows[n].app]
<1>1. ASSUME NEW i \in 1..Cardinality(Ranked(rows))
      PROVE  Value(InSlot(i)) \in Values
  <2>1. \E n \in Numbers : rows[n].slot = i
    BY SlotsGivenOnce
  <2>2. PICK n \in Numbers : n = InSlot(i)
    BY <2>1
  <2>3. rows[n].app \in Apps \cup {None}
    BY DEF Row
  <2>4. Value(n) \in Values
    BY <2>3, ResultsAssumption
  <2>5. QED
    BY <2>2, <2>4
<1>2. Rebuilt(rows) = [i \in 1..Cardinality(Ranked(rows)) |-> Value(InSlot(i))]
  BY DEF Rebuilt
<1> HIDE DEF InSlot, Value
<1>3. Cardinality(Ranked(rows)) \in Nat
  BY RankedFinite
<1>4. QED
  BY <1>1, <1>2, <1>3

(* Rows with the same places and slots make the same ranking. *)
LEMMA SameRanking ==
    ASSUME NEW rows, NEW others,
           \A n \in Numbers : others[n].place = rows[n].place /\ others[n].slot = rows[n].slot
    PROVE  /\ Ranked(others) = Ranked(rows)
           /\ DistinctPlaces(rows) => DistinctPlaces(others)
           /\ SlotsGiven(rows) => SlotsGiven(others)
<1>1. Ranked(others) = Ranked(rows)
  BY DEF Ranked
<1>2. DistinctPlaces(rows) => DistinctPlaces(others)
  BY DEF DistinctPlaces
<1>3. ASSUME NEW n \in Numbers
      PROVE  UpTo(others, n) = UpTo(rows, n)
  BY <1>1 DEF UpTo, Ranked
<1>4. SlotsGiven(rows) => SlotsGiven(others)
  BY <1>1, <1>3 DEF SlotsGiven
<1>5. QED
  BY <1>1, <1>2, <1>4

(* SetCandidateNumber gives a row to an application if the row is free,    *)
(* and takes away the others it has.                                       *)
LEMMA RelinkedRows ==
    ASSUME NEW rows \in [Numbers -> Row], NEW a \in Apps, NEW n \in Numbers
    PROVE  /\ Relinked(rows, a, n) \in [Numbers -> Row]
           /\ \A m \in Numbers :
                 /\ Relinked(rows, a, n)[m].place = rows[m].place
                 /\ Relinked(rows, a, n)[m].slot = rows[m].slot
                 /\ \/ Relinked(rows, a, n)[m].app = rows[m].app /\ (rows[m].app # a \/ m = n)
                    \/ Relinked(rows, a, n)[m].app = None
                    \/ m = n /\ Relinked(rows, a, n)[m].app = a /\ rows[m].app \in {a, None}
<1> DEFINE R == Relinked(rows, a, n)
<1>1. ASSUME NEW m \in Numbers
      PROVE  /\ R[m] \in Row
             /\ R[m].place = rows[m].place
             /\ R[m].slot = rows[m].slot
             /\ \/ R[m].app = rows[m].app /\ (rows[m].app # a \/ m = n)
                \/ R[m].app = None
                \/ m = n /\ R[m].app = a /\ rows[m].app \in {a, None}
  <2>1. rows[m] \in Row
    OBVIOUS
  <2>2. CASE m = n /\ rows[m].listed /\ rows[m].app \in {a, None}
    <3>1. R[m] = [rows[m] EXCEPT !.app = a]
      BY <2>2 DEF Relinked
    <3>2. QED
      BY <2>1, <2>2, <3>1 DEF Row
  <2>3. CASE ~(m = n /\ rows[m].listed /\ rows[m].app \in {a, None}) /\ rows[m].app = a
    <3>1. R[m] = [rows[m] EXCEPT !.app = None]
      BY <2>3 DEF Relinked
    <3>2. QED
      BY <2>1, <3>1 DEF Row
  <2>4. CASE ~(m = n /\ rows[m].listed /\ rows[m].app \in {a, None}) /\ rows[m].app # a
    <3>1. R[m] = rows[m]
      BY <2>4 DEF Relinked
    <3>2. QED
      BY <2>1, <2>4, <3>1
  <2>5. QED
    BY <2>2, <2>3, <2>4
<1>2. R = [m \in Numbers |-> R[m]]
  BY DEF Relinked
<1>3. QED
  BY <1>1, <1>2

LEMMA RelinkedOnce ==
    ASSUME NEW rows \in [Numbers -> Row], NEW a \in Apps, NEW n \in Numbers, OneRowEach(rows)
    PROVE  OneRowEach(Relinked(rows, a, n))
<1>1. a # None
  BY ResultsAssumption
<1>2. PICK others : others = Relinked(rows, a, n)
  OBVIOUS
<1>3. \A m \in Numbers : \/ others[m].app = rows[m].app /\ (rows[m].app # a \/ m = n)
                         \/ others[m].app = None
                         \/ m = n /\ others[m].app = a
  BY <1>2, RelinkedRows
<1>4. SUFFICES ASSUME NEW l \in Numbers, NEW m \in Numbers,
                      others[l].app = others[m].app, others[l].app # None
               PROVE  l = m
  BY <1>2 DEF OneRowEach
<1>5. rows[l].app = rows[m].app /\ rows[l].app # None => l = m
  BY DEF OneRowEach
<1>6. QED
  BY ONLY <1>1, <1>3, <1>4, <1>5

(* An inquiry is about a row and goes to whom the row is matched to. *)
LEMMA AskedRows ==
    ASSUME NEW b \in Batches, NEW rows \in [Numbers -> Row], NEW wanted
    PROVE  /\ Asked(b, rows, wanted) \subseteq Inquiry
           /\ \A n \in wanted \cap Ranked(rows) :
                 rows[n].app # None =>
                    \E q \in Asked(b, rows, wanted) :
                        q.app = rows[n].app /\ q.batch = b /\ q.number = n
<1> DEFINE New(n) == [app |-> rows[n].app, batch |-> b, number |-> n,
                      round |-> "result_released", open |-> TRUE]
           To == {m \in wanted \cap Ranked(rows) : rows[m].app # None}
<1>1. Asked(b, rows, wanted) = {New(n) : n \in To}
  BY DEF Asked
<1>2. \A n \in To : New(n) \in Inquiry
  <2>1. SUFFICES ASSUME NEW n \in To
                 PROVE  New(n) \in Inquiry
    OBVIOUS
  <2>2. n \in Numbers
    BY DEF Ranked
  <2>3. rows[n].app \in Apps
    BY <2>2 DEF Row
  <2>4. QED
    BY <2>2, <2>3 DEF Inquiry
<1>3. ASSUME NEW n \in To
      PROVE  New(n) \in Asked(b, rows, wanted)
  BY <1>1
<1>4. \A n \in To : New(n).app = rows[n].app /\ New(n).batch = b /\ New(n).number = n
  OBVIOUS
<1>5. \A n \in wanted \cap Ranked(rows) : rows[n].app # None => n \in To
  OBVIOUS
<1> HIDE DEF New, To
<1>6. QED
  BY <1>1, <1>2, <1>3, <1>4, <1>5

(* An insert leaves every row it is about with an inquiry. *)
LEMMA InsertedOrThere ==
    ASSUME inquiry \subseteq Inquiry, NEW wanted \in SUBSET Inquiry, NEW q \in wanted
    PROVE  \E r \in inquiry \cup NewOnly(wanted) :
               r.app \in Apps /\ r.batch = q.batch /\ r.number = q.number
<1>1. CASE q \in NewOnly(wanted)
  BY <1>1 DEF Inquiry
<1>2. CASE q \notin NewOnly(wanted)
  <2>1. PICK r \in inquiry : SameRow(q, r)
    BY <1>2 DEF NewOnly
  <2>2. QED
    BY <2>1 DEF SameRow, Inquiry
<1>3. QED
  BY <1>1, <1>2
-----------------------------------------------------------------------------
(* What a step leaves of a list and of the publication under way. *)
LEMMA ListKept ==
    ASSUME TypeOK, NEW b \in Batches, ListHolds(b),
           listing'[b] = listing[b], Len(values') = Len(values),
           \A a \in Apps : willing[a] # None => willing'[a] # None,
           \A c \in Apps, n \in Numbers : WasAsked(c, b, n) => WasAsked(c, b, n)'
    PROVE  ListHolds(b)'
<1>1. \A n \in Numbers : listing[b][n].app \in Apps \cup {None}
  BY DEF TypeOK, Row
<1>2. \A n \in Numbers : RowAsked(b, n)'
  BY <1>1 DEF ListHolds, RowAsked
<1>3. SlotsGiven(listing[b])' /\ OneRowEach(listing[b])'
  BY DEF ListHolds, SlotsGiven, OneRowEach, UpTo, Ranked
<1>4. (Len(values) = Cardinality(Ranked(listing[b])))'
  BY DEF ListHolds, Ranked
<1>5. QED
  BY <1>2, <1>3, <1>4 DEF ListHolds

LEMMA ListsKept ==
    ASSUME ResultsInv, batch' = batch, listing' = listing, Len(values') = Len(values),
           \A a \in Apps : willing[a] # None => willing'[a] # None,
           \A c \in Apps, b \in Batches, n \in Numbers : WasAsked(c, b, n) => WasAsked(c, b, n)'
    PROVE  ListsHold'
<1>1. Published' = Published /\ PublishedAsImported' = PublishedAsImported
  BY DEF Published, PublishedAsImported
<1>2. \A b, c \in Published' : b = c
  BY <1>1 DEF ResultsInv, ListsHold
<1>3. \A b \in Batches : DistinctPlaces(listing[b])'
  BY DEF ResultsInv, ListsHold, DistinctPlaces
<1>4. ASSUME NEW b \in PublishedAsImported
      PROVE  ListHolds(b)'
  <2>1. b \in Batches
    BY DEF PublishedAsImported, Published
  <2>2. ListHolds(b)
    BY DEF ResultsInv, ListsHold
  <2>3. QED
    BY <2>1, <2>2, ListKept DEF ResultsInv
<1>5. QED
  BY <1>1, <1>2, <1>3, <1>4 DEF ListsHold

LEMMA PublicationKept ==
    ASSUME ResultsInv, publishing' = publishing,
           \A b \in Batches : batch[b] = "pending_review" => batch'[b] = "pending_review"
    PROVE  PublicationHolds'
<1>1. publishing.batch # None => publishing.batch \in Batches
  BY DEF ResultsInv, TypeOK
<1>2. QED
  BY <1>1 DEF ResultsInv, PublicationHolds

LEMMA NoPublication ==
    ASSUME publishing' = NotPublishing
    PROVE  PublicationHolds'
BY DEF PublicationHolds, NotPublishing

LEMMA SameInquiries ==
    ASSUME inquiry \subseteq inquiry', NEW c, NEW b, NEW n, WasAsked(c, b, n)
    PROVE  WasAsked(c, b, n)'
BY DEF WasAsked

-----------------------------------------------------------------------------
(* The steps. *)
LEMMA ImportHolds ==
    ASSUME ResultsInv, NEW b \in Batches, NEW roster \in Rosters, ImportOfficialBatch(b, roster)
    PROVE  ResultsInv'
<1>1. PICK rows : rows = [n \in Numbers |-> [roster[n] EXCEPT !.app = Matched(roster)[n]]]
  OBVIOUS
<1>2. roster \in [Numbers -> Row] /\ DistinctPlaces(roster)
  BY RosterRows
<1>3. /\ rows \in [Numbers -> Row]
      /\ \A n \in Numbers : rows[n].place = roster[n].place
  <2>1. \A n \in Numbers : Matched(roster)[n] \in Apps \cup {None}
    BY MatchedRows
  <2>2. \A n \in Numbers : rows[n] = [roster[n] EXCEPT !.app = Matched(roster)[n]]
    BY <1>1
  <2>3. \A n \in Numbers : rows[n] \in Row /\ rows[n].place = roster[n].place
    BY <1>2, <2>1, <2>2 DEF Row
  <2>4. QED
    BY <1>1, <2>3
<1>4. DistinctPlaces(rows)
  BY <1>2, <1>3 DEF DistinctPlaces
<1>5. /\ batch[b] = "absent"
      /\ batch' = [batch EXCEPT ![b] = "pending_review"]
      /\ listing' = [listing EXCEPT ![b] = rows]
      /\ UNCHANGED <<values, number, changes, willing, inquiry, publishing, answering>>
  BY <1>1 DEF ImportOfficialBatch, people
<1>6. TypeOK /\ ListsHold
  BY DEF ResultsInv
<1>7. TypeOK'
  BY <1>3, <1>5, <1>6 DEF TypeOK
<1>8. PublicationHolds'
  <2>1. \A c \in Batches : batch[c] = "pending_review" => batch'[c] = "pending_review"
    BY <1>5, <1>6 DEF TypeOK
  <2>2. QED
    BY <1>5, <2>1, PublicationKept
<1>9. ListsHold'
  <2>1. Published' = Published /\ b \notin Published
    BY <1>5, <1>6 DEF TypeOK, Published
  <2>2. \A c \in Batches : DistinctPlaces(listing[c])'
    <3>1. ASSUME NEW c \in Batches
          PROVE  DistinctPlaces(listing[c])'
      <4>1. CASE c = b
        <5>1. listing'[c] = rows
          BY <1>5, <1>6, <4>1 DEF TypeOK
        <5>2. QED
          BY <1>4, <5>1 DEF DistinctPlaces
      <4>2. CASE c # b
        <5>1. listing'[c] = listing[c]
          BY <1>5, <1>6, <4>2 DEF TypeOK
        <5>2. QED
          BY <1>6, <5>1 DEF ListsHold, DistinctPlaces
      <4>3. QED
        BY <4>1, <4>2
    <3>2. QED
      BY <3>1
  <2>3. ASSUME NEW c \in PublishedAsImported
        PROVE  ListHolds(c)'
    <3>1. c \in Batches /\ c # b /\ ListHolds(c)
      BY <1>6, <2>1 DEF PublishedAsImported, Published, ListsHold
    <3>2. listing'[c] = listing[c]
      BY <1>5, <1>6, <3>1 DEF TypeOK
    <3>3. QED
      BY <1>5, <1>6, <3>1, <3>2, ListKept DEF WasAsked
  <2>4. QED
    BY <1>6, <2>1, <2>2, <2>3 DEF ListsHold, PublishedAsImported
<1>10. QED
  BY <1>7, <1>8, <1>9 DEF ResultsInv

LEMMA ExtractionHolds ==
    ASSUME ResultsInv, NEW b \in Batches, NEW roster \in Rosters, ApplyExtraction(b, roster)
    PROVE  ResultsInv'
<1>1. PICK rows : rows = [n \in Numbers |-> IF listing[b][n].listed THEN listing[b][n]
                                            ELSE roster[n]]
  OBVIOUS
<1>2. PICK added : added = [n \in Numbers |-> IF Matched(rows)[n] = None THEN rows[n]
                                              ELSE [rows[n] EXCEPT !.app = Matched(rows)[n]]]
  OBVIOUS
<1>3. TypeOK /\ PublicationHolds /\ ListsHold
  BY DEF ResultsInv
<1>4. /\ b \in FromFile /\ publishing.batch # b /\ DistinctPlaces(rows)
      /\ batch' = [batch EXCEPT ![b] = IF @ = "absent" THEN "pending_review" ELSE @]
      /\ listing' = [listing EXCEPT ![b] = added]
      /\ UNCHANGED <<values, number, changes, willing, inquiry, publishing, answering>>
  BY <1>1, <1>2 DEF ApplyExtraction, people
<1>5. \A n \in Numbers : rows[n] \in Row
  <2>1. \A n \in Numbers : roster[n] \in Row /\ listing[b][n] \in Row
    BY <1>3, RosterRows DEF TypeOK
  <2>2. QED
    BY <1>1, <2>1
<1>6. /\ added \in [Numbers -> Row]
      /\ \A n \in Numbers : added[n].place = rows[n].place
  <2>1. \A n \in Numbers : Matched(rows)[n] \in Apps \cup {None}
    BY MatchedRows
  <2>2. \A n \in Numbers : added[n] = IF Matched(rows)[n] = None THEN rows[n]
                                      ELSE [rows[n] EXCEPT !.app = Matched(rows)[n]]
    BY <1>2
  <2>3. \A n \in Numbers : added[n] \in Row /\ added[n].place = rows[n].place
    BY <1>5, <2>1, <2>2 DEF Row
  <2>4. QED
    BY <1>2, <2>3
<1>7. TypeOK'
  BY <1>3, <1>4, <1>6 DEF TypeOK
<1>8. PublicationHolds'
  <2>1. \A c \in Batches : batch[c] = "pending_review" => batch'[c] = "pending_review"
    BY <1>3, <1>4 DEF TypeOK
  <2>2. QED
    BY <1>4, <2>1, PublicationKept
<1>9. ListsHold'
  <2>1. Published' = Published
    BY <1>3, <1>4 DEF TypeOK, Published
  <2>2. ASSUME NEW c \in Batches
        PROVE  DistinctPlaces(listing[c])'
    <3>1. CASE c = b
      <4>1. listing'[c] = added
        BY <1>3, <1>4, <3>1 DEF TypeOK
      <4>2. QED
        BY <1>4, <1>6, <4>1 DEF DistinctPlaces
    <3>2. CASE c # b
      <4>1. listing'[c] = listing[c]
        BY <1>3, <1>4, <3>2 DEF TypeOK
      <4>2. QED
        BY <1>3, <4>1 DEF ListsHold, DistinctPlaces
    <3>3. QED
      BY <3>1, <3>2
  <2>3. ASSUME NEW c \in PublishedAsImported
        PROVE  ListHolds(c)'
    <3>1. c \in Batches /\ c # b /\ ListHolds(c)
      BY <1>3, <1>4 DEF PublishedAsImported, Published, ListsHold
    <3>2. listing'[c] = listing[c]
      BY <1>3, <1>4, <3>1 DEF TypeOK
    <3>3. QED
      BY <1>3, <1>4, <3>1, <3>2, ListKept DEF WasAsked
  <2>4. QED
    BY <1>3, <2>1, <2>2, <2>3 DEF ListsHold, PublishedAsImported
<1>10. QED
  BY <1>7, <1>8, <1>9 DEF ResultsInv

LEMMA MatchHolds ==
    ASSUME ResultsInv, NEW b \in Batches, MatchForPublication(b)
    PROVE  ResultsInv'
<1>1. PICK match : match = Matched(listing[b])
  OBVIOUS
<1>2. /\ batch[b] = "pending_review"
      /\ publishing' = [batch |-> b, match |-> match]
      /\ UNCHANGED <<batch, listing, values, number, changes, willing, inquiry, answering>>
  BY <1>1 DEF MatchForPublication, people
<1>3. /\ match \in [Numbers -> Apps \cup {None}]
      /\ \A n \in Numbers : match[n] # None => number[match[n]] = n
  BY <1>1, MatchedRows
<1>4. TypeOK'
  BY <1>2, <1>3 DEF ResultsInv, TypeOK
<1>5. PublicationHolds'
  BY <1>2, <1>3 DEF PublicationHolds
<1>6. ListsHold'
  BY <1>2, ListsKept DEF WasAsked
<1>7. QED
  BY <1>4, <1>5, <1>6 DEF ResultsInv

LEMMA FailureHolds ==
    ASSUME ResultsInv, PublicationFails
    PROVE  ResultsInv'
<1>1. /\ publishing' = NotPublishing
      /\ UNCHANGED <<batch, listing, values, number, changes, willing, inquiry, answering>>
  BY DEF PublicationFails, people
<1>2. TypeOK'
  BY <1>1 DEF ResultsInv, TypeOK, NotPublishing
<1>3. PublicationHolds'
  BY <1>1, NoPublication
<1>4. ListsHold'
  BY <1>1, ListsKept DEF WasAsked
<1>5. QED
  BY <1>2, <1>3, <1>4 DEF ResultsInv

LEMMA DeadlineHolds ==
    ASSUME ResultsInv, NEW q \in inquiry, DeadlinePasses(q)
    PROVE  ResultsInv'
<1>1. PICK r : r = [q EXCEPT !.open = FALSE]
  OBVIOUS
<1>2. /\ inquiry' = (inquiry \ {q}) \cup {r}
      /\ UNCHANGED <<batch, listing, values, number, changes, willing, publishing, answering>>
  BY <1>1 DEF DeadlinePasses, people
<1>3. q \in Inquiry
  BY DEF ResultsInv, TypeOK
<1>4. r \in Inquiry /\ r.app = q.app /\ r.batch = q.batch /\ r.number = q.number
  BY <1>1, <1>3 DEF Inquiry
<1>5. TypeOK'
  BY <1>2, <1>4 DEF ResultsInv, TypeOK
<1>6. \A c, b, n : WasAsked(c, b, n) => WasAsked(c, b, n)'
  BY <1>2, <1>4 DEF WasAsked
<1>7. PublicationHolds' /\ ListsHold'
  BY <1>2, <1>6, PublicationKept, ListsKept
<1>8. QED
  BY <1>5, <1>7 DEF ResultsInv

LEMMA RemindersHold ==
    ASSUME ResultsInv, NEW b \in Batches, CreateAcceptanceDeadlineInquiries(b)
    PROVE  ResultsInv'
<1> DEFINE Silent == {n \in Ranked(listing[b]) :
                         LET a == listing[b][n].app IN a # None /\ willing[a] = None}
           Again == {[q EXCEPT !.round = "acceptance_deadline"] : q \in Asked(b, listing[b], Silent)}
           Kept == {r \in inquiry : ~\E q \in Again : SameRow(q, r)}
           Reopened == {[r EXCEPT !.open = TRUE] : r \in inquiry \ Kept}
<1>1. /\ inquiry' = Kept \cup NewOnly(Again) \cup Reopened
      /\ UNCHANGED <<batch, listing, values, number, changes, willing, publishing, answering>>
  BY DEF CreateAcceptanceDeadlineInquiries, people
<1>2. TypeOK
  BY DEF ResultsInv
<1>3. Again \subseteq Inquiry
  <2>1. Asked(b, listing[b], Silent) \subseteq Inquiry
    <3>1. listing[b] \in [Numbers -> Row]
      BY <1>2 DEF TypeOK
    <3>2. QED
      BY <3>1, AskedRows
  <2> HIDE DEF Silent
  <2>2. ASSUME NEW q \in Inquiry
        PROVE  [q EXCEPT !.round = "acceptance_deadline"] \in Inquiry
    BY DEF Inquiry
  <2>3. QED
    BY <2>1, <2>2
<1>4. ASSUME NEW r \in Inquiry
      PROVE  /\ [r EXCEPT !.open = TRUE] \in Inquiry
             /\ [r EXCEPT !.open = TRUE].app = r.app
             /\ [r EXCEPT !.open = TRUE].batch = r.batch
             /\ [r EXCEPT !.open = TRUE].number = r.number
  BY DEF Inquiry
<1>5. /\ Kept \subseteq Inquiry
      /\ \A r \in inquiry : r \in Inquiry
  BY <1>2 DEF TypeOK
<1>6. NewOnly(Again) \subseteq Inquiry
  BY <1>3 DEF NewOnly
<1>7. Reopened \subseteq Inquiry
  <2> HIDE DEF Kept
  <2>1. QED
    BY <1>4, <1>5
<1>8. \A c, d, n : WasAsked(c, d, n) => WasAsked(c, d, n)'
  <2>1. SUFFICES ASSUME NEW c, NEW d, NEW n, NEW r \in inquiry,
                        r.app = c, r.batch = d, r.number = n
                 PROVE  \E q \in inquiry' : q.app = c /\ q.batch = d /\ q.number = n
    BY DEF WasAsked
  <2>2. CASE r \in Kept
    BY <1>1, <2>1, <2>2
  <2>3. CASE r \notin Kept
    <3>1. PICK q : q = [r EXCEPT !.open = TRUE]
      OBVIOUS
    <3>2. q \in Reopened
      BY <2>3, <3>1
    <3>3. q.app = c /\ q.batch = d /\ q.number = n
      BY <1>4, <1>5, <2>1, <3>1
    <3>4. QED
      BY <1>1, <3>2, <3>3
  <2>4. QED
    BY <2>2, <2>3
<1> HIDE DEF Kept, Again, Reopened, Silent
<1>9. TypeOK'
  BY <1>1, <1>2, <1>5, <1>6, <1>7 DEF TypeOK
<1>10. PublicationHolds' /\ ListsHold'
  BY <1>1, <1>8, PublicationKept, ListsKept
<1>11. QED
  BY <1>9, <1>10 DEF ResultsInv

LEMMA SelectionHolds ==
    ASSUME ResultsInv, NEW q \in inquiry, NEW v \in Values, SelectInquiry(q, v)
    PROVE  ResultsInv'
<1>1. PICK x : x = [app |-> q.app, batch |-> q.batch, number |-> q.number,
                    slot |-> listing[q.batch][q.number].slot, value |-> v]
  OBVIOUS
<1>2. /\ answering' = answering \cup {x}
      /\ UNCHANGED <<batch, listing, values, number, changes, willing, inquiry, publishing>>
  BY <1>1 DEF SelectInquiry, people
<1>3. q \in Inquiry
  BY DEF ResultsInv, TypeOK
<1>4. listing[q.batch][q.number] \in Row
  BY <1>3 DEF ResultsInv, TypeOK, Inquiry
<1>5. x \in Answer
  BY <1>1, <1>3, <1>4 DEF Answer, Inquiry, Row
<1>6. TypeOK'
  BY <1>2, <1>5 DEF ResultsInv, TypeOK
<1>7. PublicationHolds' /\ ListsHold'
  BY <1>2, PublicationKept, ListsKept DEF WasAsked
<1>8. QED
  BY <1>6, <1>7 DEF ResultsInv

LEMMA AnswerHolds ==
    ASSUME ResultsInv, NEW x \in answering, SetWillingness(x)
    PROVE  ResultsInv'
<1>1. /\ x.slot <= Len(values)
      /\ willing' = [willing EXCEPT ![x.app] = x.value]
      /\ values' = WithSlot(x.slot, x.value)
      /\ answering' = answering \ {x}
      /\ UNCHANGED <<batch, listing, number, changes, inquiry, publishing>>
  BY DEF SetWillingness, FitsArray, people
<1>2. TypeOK
  BY DEF ResultsInv
<1>3. x.app \in Apps /\ x.value \in Values /\ x.slot \in Nat
  BY <1>2 DEF TypeOK, Answer
<1>4. values' \in Seq(Values) /\ Len(values') = Len(values)
  <2>1. values \in Seq(Values) /\ Len(values) \in Nat
    BY <1>2 DEF TypeOK
  <2>2. values' = [k \in 1..Len(values) |-> IF k = x.slot THEN x.value ELSE values[k]]
    BY <1>1, <1>3, <2>1 DEF WithSlot
  <2>3. \A k \in 1..Len(values) : values[k] \in Values
    BY <2>1
  <2>4. QED
    BY <1>3, <2>1, <2>2, <2>3
<1>5. \A a \in Apps : willing[a] # None => willing'[a] # None
  BY <1>1, <1>2, <1>3, ResultsAssumption DEF TypeOK
<1>6. TypeOK'
  BY <1>1, <1>2, <1>3, <1>4 DEF TypeOK
<1>7. PublicationHolds' /\ ListsHold'
  BY <1>1, <1>4, <1>5, PublicationKept, ListsKept DEF WasAsked
<1>8. QED
  BY <1>6, <1>7 DEF ResultsInv

LEMMA LostAnswerHolds ==
    ASSUME ResultsInv, NEW x \in answering, AnswerFails(x)
    PROVE  ResultsInv'
<1>1. /\ answering' = answering \ {x}
      /\ UNCHANGED <<batch, listing, values, number, changes, willing, inquiry, publishing>>
  BY DEF AnswerFails, people
<1>2. TypeOK'
  BY <1>1 DEF ResultsInv, TypeOK
<1>3. PublicationHolds' /\ ListsHold'
  BY <1>1, PublicationKept, ListsKept DEF WasAsked
<1>4. QED
  BY <1>2, <1>3 DEF ResultsInv

(* A publication gives each application one row, numbers the ranking, and  *)
(* asks for every row that is matched.                                     *)
LEMMA PublishHolds ==
    ASSUME ResultsInv, NEW b \in Batches, PublishOfficialBatch(b)
    PROVE  ResultsInv'
<1>1. PICK matched : matched = [n \in Numbers |->
                                   [listing[b][n] EXCEPT !.app = publishing.match[n]]]
  OBVIOUS
<1>2. PICK rows : rows = Indexed(matched)
  OBVIOUS
<1>3. TypeOK /\ PublicationHolds /\ ListsHold
  BY DEF ResultsInv
<1>4. /\ publishing.batch = b
      /\ batch' = [c \in Batches |-> IF c = b THEN "published"
                                     ELSE IF c \in Published THEN "superseded"
                                     ELSE batch[c]]
      /\ listing' = [listing EXCEPT ![b] = rows]
      /\ values' = [i \in 1..Cardinality(Ranked(rows)) |-> Default]
      /\ willing' = [a \in Apps |-> IF \E n \in Numbers : rows[n].app = a
                                    THEN None ELSE willing[a]]
      /\ inquiry' = inquiry \cup NewOnly(Asked(b, rows, Numbers))
      /\ publishing' = NotPublishing
      /\ UNCHANGED <<number, changes, answering>>
  BY <1>1, <1>2 DEF PublishOfficialBatch, people
<1>5. /\ matched \in [Numbers -> Row]
      /\ \A n \in Numbers : /\ matched[n].place = listing[b][n].place
                            /\ matched[n].app = publishing.match[n]
  <2>1. \A n \in Numbers : /\ listing[b][n] \in Row
                           /\ publishing.match[n] \in Apps \cup {None}
    BY <1>3 DEF TypeOK
  <2>2. \A n \in Numbers : matched[n] = [listing[b][n] EXCEPT !.app = publishing.match[n]]
    BY <1>1
  <2>3. \A n \in Numbers : /\ matched[n] \in Row
                           /\ matched[n].place = listing[b][n].place
                           /\ matched[n].app = publishing.match[n]
    BY <2>1, <2>2 DEF Row
  <2>4. QED
    BY <1>1, <2>3
<1>6. /\ rows \in [Numbers -> Row]
      /\ \A n \in Numbers : /\ rows[n].place = listing[b][n].place
                            /\ rows[n].app = publishing.match[n]
      /\ SlotsGiven(rows)
  BY <1>2, <1>5, IndexedRows
<1>7. DistinctPlaces(rows)
  <2>1. DistinctPlaces(listing[b])
    BY <1>3 DEF ListsHold
  <2>2. QED
    BY <1>6, <2>1 DEF DistinctPlaces
<1>8. OneRowEach(rows)
  BY <1>3, <1>6 DEF PublicationHolds, OneRowEach
<1>9. Cardinality(Ranked(rows)) \in Nat
  BY RankedFinite
<1>10. Asked(b, rows, Numbers) \subseteq Inquiry
  BY <1>6, AskedRows
<1>11. TypeOK'
  <2>1. batch' \in [Batches -> {"absent", "pending_review", "published", "superseded"}]
    BY <1>3, <1>4 DEF TypeOK
  <2>2. values' \in Seq(Values)
    BY <1>4, <1>9, ResultsAssumption
  <2>3. willing' \in [Apps -> Values \cup {None}]
    BY <1>3, <1>4 DEF TypeOK
  <2>4. inquiry' \subseteq Inquiry
    BY <1>3, <1>4, <1>10 DEF TypeOK, NewOnly
  <2>5. listing' \in [Batches -> [Numbers -> Row]]
    BY <1>3, <1>4, <1>6 DEF TypeOK
  <2>6. QED
    BY <1>3, <1>4, <2>1, <2>2, <2>3, <2>4, <2>5 DEF TypeOK, NotPublishing
<1>12. PublicationHolds'
  BY <1>4, NoPublication
<1>13. Published' = {b}
  <2>1. batch[b] = "pending_review"
    BY <1>3, <1>4, ResultsAssumption DEF PublicationHolds
  <2>2. QED
    BY <1>4, <2>1 DEF Published
<1>14. ListHolds(b)'
  <2>1. listing'[b] = rows
    BY <1>3, <1>4 DEF TypeOK
  <2>2. SlotsGiven(listing[b])' /\ OneRowEach(listing[b])'
    BY <1>6, <1>8, <2>1 DEF SlotsGiven, OneRowEach, UpTo, Ranked
  <2>3. (Len(values) = Cardinality(Ranked(listing[b])))'
    <3>1. Ranked(listing[b])' = Ranked(rows)
      BY <2>1 DEF Ranked
    <3>2. Len(values') = Cardinality(Ranked(rows))
      BY <1>4, <1>9
    <3>3. QED
      BY <3>1, <3>2
  <2>4. ASSUME NEW n \in Numbers
        PROVE  RowAsked(b, n)'
    <3>1. SUFFICES ASSUME rows[n].place > 0, rows[n].app # None
                   PROVE  \E c \in Apps : WasAsked(c, b, n)'
      BY <2>1 DEF RowAsked
    <3>2. n \in Numbers \cap Ranked(rows)
      BY <3>1 DEF Ranked
    <3>3. PICK q \in Asked(b, rows, Numbers) :
              q.app = rows[n].app /\ q.batch = b /\ q.number = n
      BY <1>6, <3>1, <3>2, AskedRows
    <3>4. PICK r \in inquiry \cup NewOnly(Asked(b, rows, Numbers)) :
              r.app \in Apps /\ r.batch = q.batch /\ r.number = q.number
      BY <1>3, <1>10, InsertedOrThere DEF TypeOK
    <3>5. QED
      BY <1>4, <3>3, <3>4 DEF WasAsked
  <2>5. QED
    BY <2>2, <2>3, <2>4 DEF ListHolds
<1>15. ASSUME NEW c \in Batches
       PROVE  DistinctPlaces(listing[c])'
  <2>1. CASE c = b
    <3>1. listing'[c] = rows
      BY <1>3, <1>4, <2>1 DEF TypeOK
    <3>2. QED
      BY <1>7, <3>1 DEF DistinctPlaces
  <2>2. CASE c # b
    <3>1. listing'[c] = listing[c]
      BY <1>3, <1>4, <2>2 DEF TypeOK
    <3>2. QED
      BY <1>3, <3>1 DEF ListsHold, DistinctPlaces
  <2>3. QED
    BY <2>1, <2>2
<1>16. ListsHold'
  <2>1. \A c, d \in Published' : c = d
    BY <1>13
  <2>2. \A c \in PublishedAsImported' : c = b
    BY <1>13 DEF PublishedAsImported
  <2>3. QED
    BY <1>14, <1>15, <2>1, <2>2 DEF ListsHold
<1>17. QED
  BY <1>11, <1>12, <1>16 DEF ResultsInv

(* A correction numbers the ranking again and rebuilds the array after it. *)
LEMMA CorrectionHolds ==
    ASSUME ResultsInv, NEW b \in Batches, NEW n \in Numbers, NEW place \in 0..MaxPlace,
           CorrectOfficialResult(b, n, place)
    PROVE  ResultsInv'
<1>1. PICK moved : moved = Corrected(b, n, place)
  OBVIOUS
<1>2. PICK rows : rows = Indexed(moved)
  OBVIOUS
<1>3. PICK wanted : wanted = IF rows[n].app # None /\ willing[rows[n].app] = None
                           THEN NewOnly(Asked(b, rows, {n})) ELSE {}
  OBVIOUS
<1>4. TypeOK /\ PublicationHolds /\ ListsHold
  BY DEF ResultsInv
<1>5. /\ b \in Published /\ DistinctPlaces(moved)
      /\ listing' = [listing EXCEPT ![b] = rows]
      /\ values' = Rebuilt(rows)
      /\ inquiry' = inquiry \cup wanted
      /\ UNCHANGED <<batch, number, changes, willing, publishing, answering>>
  BY <1>1, <1>2, <1>3 DEF CorrectOfficialResult, MayCorrect, people
<1>6. /\ moved \in [Numbers -> Row]
      /\ \A m \in Numbers : /\ moved[m].app = listing[b][m].app
                            /\ m # n => moved[m].place = listing[b][m].place
  <2>1. \A m \in Numbers : listing[b][m] \in Row
    BY <1>4 DEF TypeOK
  <2>2. moved = [m \in Numbers |-> IF m = n THEN [listing[b][m] EXCEPT !.place = place, !.slot = 0]
                                   ELSE listing[b][m]]
    BY <1>1, <1>4 DEF Corrected, TypeOK
  <2>3. PICK row : row = [listing[b][n] EXCEPT !.place = place, !.slot = 0]
    OBVIOUS
  <2>4. row \in Row /\ row.app = listing[b][n].app
    BY <2>1, <2>3 DEF Row
  <2>5. \A m \in Numbers : moved[m] = IF m = n THEN row ELSE listing[b][m]
    BY <2>2, <2>3
  <2>6. \A m \in Numbers : /\ moved[m] \in Row
                           /\ moved[m].app = listing[b][m].app
                           /\ m # n => moved[m].place = listing[b][m].place
    BY <2>1, <2>4, <2>5
  <2>7. QED
    BY <2>2, <2>6
<1>7. /\ rows \in [Numbers -> Row]
      /\ \A m \in Numbers : /\ rows[m].app = listing[b][m].app
                            /\ rows[m].place = moved[m].place
                            /\ m # n => rows[m].place = listing[b][m].place
      /\ SlotsGiven(rows)
  BY <1>2, <1>6, IndexedRows
<1>8. DistinctPlaces(rows)
  BY <1>5, <1>7 DEF DistinctPlaces
<1>9. Rebuilt(rows) \in Seq(Values) /\ Len(Rebuilt(rows)) = Cardinality(Ranked(rows))
  BY <1>4, <1>7, <1>8, RebuiltValues DEF TypeOK
<1>10. Asked(b, rows, {n}) \subseteq Inquiry
  BY <1>7, AskedRows
<1>11. TypeOK'
  <2>1. wanted \subseteq Inquiry
    BY <1>3, <1>10 DEF NewOnly
  <2>2. listing' \in [Batches -> [Numbers -> Row]]
    BY <1>4, <1>5, <1>7 DEF TypeOK
  <2>3. QED
    BY <1>4, <1>5, <1>9, <2>1, <2>2 DEF TypeOK
<1>12. PublicationHolds'
  BY <1>5, PublicationKept
<1>13. Published' = Published /\ \A c \in Published : c = b
  BY <1>4, <1>5 DEF Published, ListsHold
<1>14. ASSUME b \notin FromFile
       PROVE  ListHolds(b)'
  <2>1. listing'[b] = rows
    BY <1>4, <1>5 DEF TypeOK
  <2>2. ListHolds(b)
    BY <1>4, <1>5, <1>14 DEF ListsHold, PublishedAsImported
  <2>3. OneRowEach(listing[b])'
    BY <1>7, <2>1, <2>2 DEF ListHolds, OneRowEach
  <2>4. SlotsGiven(listing[b])'
    BY <1>7, <2>1 DEF SlotsGiven, UpTo, Ranked
  <2>5. (Len(values) = Cardinality(Ranked(listing[b])))'
    <3>1. Ranked(listing[b])' = Ranked(rows)
      BY <2>1 DEF Ranked
    <3>2. QED
      BY <1>5, <1>9, <3>1
  <2>6. ASSUME NEW m \in Numbers
        PROVE  RowAsked(b, m)'
    <3>1. SUFFICES ASSUME rows[m].place > 0, rows[m].app # None, willing[rows[m].app] = None
                   PROVE  \E c \in Apps : WasAsked(c, b, m)'
      BY <1>5, <2>1 DEF RowAsked
    <3>2. CASE m # n
      <4>1. RowAsked(b, m)
        BY <2>2 DEF ListHolds
      <4>2. PICK c \in Apps : WasAsked(c, b, m)
        BY <1>7, <3>1, <3>2, <4>1 DEF RowAsked
      <4>3. QED
        BY <1>5, <4>2 DEF WasAsked
    <3>3. CASE m = n
      <4>1. n \in {n} \cap Ranked(rows)
        BY <3>1, <3>3 DEF Ranked
      <4>2. PICK q \in Asked(b, rows, {n}) : q.app = rows[n].app /\ q.batch = b /\ q.number = n
        BY <1>7, <3>1, <3>3, <4>1, AskedRows
      <4>3. PICK r \in inquiry \cup NewOnly(Asked(b, rows, {n})) :
                r.app \in Apps /\ r.batch = q.batch /\ r.number = q.number
        BY <1>4, <1>10, InsertedOrThere DEF TypeOK
      <4>4. inquiry' = inquiry \cup NewOnly(Asked(b, rows, {n}))
        BY <1>3, <1>5, <3>1, <3>3
      <4>5. QED
        BY <3>3, <4>2, <4>3, <4>4 DEF WasAsked
    <3>4. QED
      BY <3>2, <3>3
  <2>7. QED
    BY <2>3, <2>4, <2>5, <2>6 DEF ListHolds
<1>15. ASSUME NEW c \in Batches
       PROVE  DistinctPlaces(listing[c])'
  <2>1. CASE c = b
    <3>1. listing'[c] = rows
      BY <1>4, <1>5, <2>1 DEF TypeOK
    <3>2. QED
      BY <1>8, <3>1 DEF DistinctPlaces
  <2>2. CASE c # b
    <3>1. listing'[c] = listing[c]
      BY <1>4, <1>5, <2>2 DEF TypeOK
    <3>2. QED
      BY <1>4, <3>1 DEF ListsHold, DistinctPlaces
  <2>3. QED
    BY <2>1, <2>2
<1>16. ListsHold'
  <2>1. \A c, d \in Published' : c = d
    BY <1>13
  <2>2. \A c \in PublishedAsImported' : c = b /\ b \notin FromFile
    BY <1>13 DEF PublishedAsImported
  <2>3. QED
    BY <1>14, <1>15, <2>1, <2>2 DEF ListsHold
<1>17. QED
  BY <1>11, <1>12, <1>16 DEF ResultsInv

(* A number that is set gives at most one row to its application, and has  *)
(* it asked for that row.                                                  *)
LEMMA NumberHolds ==
    ASSUME ResultsInv, NEW a \in Apps, NEW n \in Numbers, SetCandidateNumber(a, n)
    PROVE  ResultsInv'
<1>1. TypeOK /\ PublicationHolds /\ ListsHold
  BY DEF ResultsInv
<1>2. /\ changes[a] < MaxChanges
      /\ number' = [number EXCEPT ![a] = n]
      /\ changes' = [changes EXCEPT ![a] = @ + 1]
      /\ listing' = [b \in Batches |-> IF b \in Published THEN Relinked(listing[b], a, n)
                                       ELSE listing[b]]
      /\ inquiry' = inquiry \cup AskedForNumber(a, n)
      /\ UNCHANGED <<batch, values, willing, publishing, answering>>
  BY DEF SetCandidateNumber
<1>3. ASSUME NEW b \in Batches
      PROVE  listing[b] \in [Numbers -> Row]
  BY <1>1 DEF TypeOK
<1>4. \A b \in Published : b \in Batches
  BY DEF Published
<1>5. AskedForNumber(a, n) \subseteq Inquiry
  <2>1. ASSUME NEW b \in Published
        PROVE  NewOnly(Asked(b, Relinked(listing[b], a, n),
                             {m \in Numbers : Relinked(listing[b], a, n)[m].app = a})) \subseteq Inquiry
    <3>1. Relinked(listing[b], a, n) \in [Numbers -> Row]
      BY <1>3, <1>4, RelinkedRows
    <3>2. Asked(b, Relinked(listing[b], a, n),
                {m \in Numbers : Relinked(listing[b], a, n)[m].app = a}) \subseteq Inquiry
      BY <1>4, <3>1, AskedRows
    <3>3. QED
      BY <3>2 DEF NewOnly
  <2>2. QED
    BY <2>1 DEF AskedForNumber
<1>6. TypeOK'
  <2>1. listing' \in [Batches -> [Numbers -> Row]]
    <3>1. ASSUME NEW b \in Batches
          PROVE  (IF b \in Published THEN Relinked(listing[b], a, n) ELSE listing[b])
                     \in [Numbers -> Row]
      BY <1>3, RelinkedRows
    <3>2. QED
      BY <1>2, <3>1
  <2>2. changes' \in [Apps -> 0..MaxChanges]
    BY <1>1, <1>2, ResultsAssumption DEF TypeOK
  <2>3. number' \in [Apps -> Numbers \cup {None}]
    BY <1>1, <1>2 DEF TypeOK
  <2>4. inquiry' \subseteq Inquiry
    BY <1>1, <1>2, <1>5 DEF TypeOK
  <2>5. QED
    BY <1>1, <1>2, <2>1, <2>2, <2>3, <2>4 DEF TypeOK
<1>7. PublicationHolds'
  BY <1>2, PublicationKept
<1>8. /\ Published' = Published
      /\ PublishedAsImported' = PublishedAsImported
  BY <1>2 DEF Published, PublishedAsImported
<1>9. ASSUME NEW b \in Published
      PROVE  /\ listing'[b] = Relinked(listing[b], a, n)
             /\ \A m \in Numbers : /\ listing'[b][m].place = listing[b][m].place
                                   /\ listing'[b][m].slot = listing[b][m].slot
  <2>1. listing'[b] = Relinked(listing[b], a, n)
    BY <1>2, <1>4
  <2>2. QED
    BY <1>3, <1>4, <2>1, RelinkedRows
<1>10. ASSUME NEW b \in Batches
       PROVE  DistinctPlaces(listing[b])'
  <2>1. DistinctPlaces(listing[b])
    BY <1>1 DEF ListsHold
  <2>2. CASE b \in Published
    BY <1>9, <2>1, <2>2 DEF DistinctPlaces
  <2>3. CASE b \notin Published
    BY <1>2, <2>1, <2>3 DEF DistinctPlaces
  <2>4. QED
    BY <2>2, <2>3
<1>11. ASSUME NEW b \in PublishedAsImported
       PROVE  ListHolds(b)'
  <2>1. PICK rows : rows = listing'[b]
    OBVIOUS
  <2>2. b \in Published /\ b \in Batches /\ ListHolds(b)
    BY <1>1, <1>4 DEF PublishedAsImported, ListsHold
  <2>3. rows = Relinked(listing[b], a, n)
    BY <1>9, <2>1, <2>2
  <2>4. OneRowEach(rows)
    BY <1>3, <2>2, <2>3, RelinkedOnce DEF ListHolds
  <2>5. SlotsGiven(rows) /\ Ranked(rows) = Ranked(listing[b])
    <3>1. \A m \in Numbers : /\ rows[m].place = listing[b][m].place
                             /\ rows[m].slot = listing[b][m].slot
      BY <1>9, <2>1, <2>2
    <3>2. SlotsGiven(listing[b])
      BY <2>2 DEF ListHolds
    <3>3. QED
      BY ONLY <3>1, <3>2, SameRanking
  <2>6. SlotsGiven(listing[b])' /\ OneRowEach(listing[b])' /\ Ranked(listing[b])' = Ranked(rows)
    BY <2>1, <2>4, <2>5 DEF SlotsGiven, OneRowEach, UpTo, Ranked
  <2>7. (Len(values) = Cardinality(Ranked(listing[b])))'
    BY <1>2, <2>2, <2>5, <2>6 DEF ListHolds
  <2>8. ASSUME NEW m \in Numbers
        PROVE  RowAsked(b, m)'
    <3>1. SUFFICES ASSUME rows[m].place > 0, rows[m].app # None, willing[rows[m].app] = None
                   PROVE  \E c \in Apps : WasAsked(c, b, m)'
      BY <1>2, <2>1 DEF RowAsked
    <3>2. CASE rows[m].app = listing[b][m].app
      <4>1. PICK c \in Apps : WasAsked(c, b, m)
        <5>1. RowAsked(b, m) /\ listing[b][m].place > 0
          BY <1>9, <2>1, <2>2, <3>1 DEF ListHolds
        <5>2. QED
          BY <3>1, <3>2, <5>1 DEF RowAsked
      <4>2. QED
        BY <1>2, <4>1 DEF WasAsked
    <3>3. CASE rows[m].app # listing[b][m].app
      <4>1. rows[m].app = a
        BY <1>3, <2>2, <2>3, <3>1, <3>3, RelinkedRows
      <4>2. PICK mine : mine = {k \in Numbers : rows[k].app = a}
        OBVIOUS
      <4>3. PICK wanted : wanted = Asked(b, rows, mine)
        OBVIOUS
      <4>4. m \in mine \cap Ranked(rows)
        BY <3>1, <4>1, <4>2 DEF Ranked
      <4>5. rows \in [Numbers -> Row]
        BY <1>3, <2>2, <2>3, RelinkedRows
      <4>6. wanted \subseteq Inquiry
        BY <2>2, <4>3, <4>5, AskedRows
      <4>7. \E q \in wanted : q.app = rows[m].app /\ q.batch = b /\ q.number = m
        BY <2>2, <3>1, <4>3, <4>4, <4>5, AskedRows
      <4>8. PICK q \in wanted : q.batch = b /\ q.number = m
        BY <4>7
      <4>9. PICK r \in inquiry \cup NewOnly(wanted) :
                r.app \in Apps /\ r.batch = q.batch /\ r.number = q.number
        BY <1>1, <4>6, InsertedOrThere DEF TypeOK
      <4>10. NewOnly(wanted) \subseteq AskedForNumber(a, n)
        BY <2>2, <2>3, <3>1, <4>1, <4>2, <4>3 DEF AskedForNumber
      <4>11. QED
        BY <1>2, <4>8, <4>9, <4>10 DEF WasAsked
    <3>4. QED
      BY <3>2, <3>3
  <2>9. QED
    BY <2>6, <2>7, <2>8 DEF ListHolds
<1>12. ListsHold'
  <2>1. \A c, d \in Published' : c = d
    BY <1>1, <1>8 DEF ListsHold
  <2>2. QED
    BY <1>8, <1>10, <1>11, <2>1 DEF ListsHold
<1>13. QED
  BY <1>6, <1>7, <1>12 DEF ResultsInv

-----------------------------------------------------------------------------
LEMMA ResultsStart == Init => ResultsInv
<1>1. SUFFICES ASSUME Init
               PROVE  ResultsInv
  OBVIOUS
<1>2. Unlisted \in Row
  BY ResultsAssumption DEF Unlisted, Row
<1>3. NotPublishing \in [batch : Batches \cup {None}, match : [Numbers -> Apps \cup {None}]]
  BY DEF NotPublishing
<1>4. TypeOK
  BY <1>1, <1>2, <1>3, ResultsAssumption DEF Init, TypeOK
<1>5. PublicationHolds
  BY <1>1 DEF Init, PublicationHolds, NotPublishing
<1>6. Published = {}
  BY <1>1 DEF Init, Published
<1>7. \A b \in Batches : DistinctPlaces(listing[b])
  BY <1>1 DEF Init, DistinctPlaces, Unlisted
<1>8. ListsHold
  BY <1>6, <1>7 DEF ListsHold, PublishedAsImported
<1>9. QED
  BY <1>4, <1>5, <1>8 DEF ResultsInv

LEMMA ReviewStep ==
    ASSUME ResultsInv, NEW b \in Batches, Review(b)
    PROVE  ResultsInv'
BY ImportHolds, MatchHolds, PublishHolds, CorrectionHolds, RemindersHold DEF Review

LEMMA ResultsStep == ResultsInv /\ [Next]_vars => ResultsInv'
<1>1. SUFFICES ASSUME ResultsInv, [Next]_vars
               PROVE  ResultsInv'
  OBVIOUS
<1>2. CASE \E b \in Batches : Review(b)
  BY <1>1, <1>2, ReviewStep
<1>3. CASE PublicationFails
  BY <1>1, <1>3, FailureHolds
<1>4. CASE \E q \in inquiry : DeadlinePasses(q)
  BY <1>1, <1>4, DeadlineHolds
<1>5. CASE \E a \in Apps, n \in Numbers : SetCandidateNumber(a, n)
  BY <1>1, <1>5, NumberHolds
<1>6. CASE \E q \in inquiry, v \in Values : SelectInquiry(q, v)
  BY <1>1, <1>6, SelectionHolds
<1>7. CASE \E x \in answering : SetWillingness(x) \/ AnswerFails(x)
  BY <1>1, <1>7, AnswerHolds, LostAnswerHolds
<1>8. CASE \E b \in Batches, roster \in Rosters : ApplyExtraction(b, roster)
  BY <1>1, <1>8, ExtractionHolds
<1>9. CASE UNCHANGED vars
  <2>1. UNCHANGED <<batch, listing, values, number, changes, willing, inquiry, publishing,
                    answering>>
    BY <1>9 DEF vars, people
  <2>2. TypeOK'
    BY <1>1, <2>1 DEF ResultsInv, TypeOK
  <2>3. PublicationHolds' /\ ListsHold'
    BY <1>1, <2>1, PublicationKept, ListsKept DEF WasAsked
  <2>4. QED
    BY <2>2, <2>3 DEF ResultsInv
<1>10. QED
  BY <1>1, <1>2, <1>3, <1>4, <1>5, <1>6, <1>7, <1>8, <1>9 DEF Next, PeopleNext

LEMMA ResultsInductive == Spec => []ResultsInv
BY ResultsStart, ResultsStep, PTL DEF Spec

LEMMA InvGivesAgreement == ResultsInv => ListsAgree
<1>1. SUFFICES ASSUME ResultsInv
               PROVE  ListsAgree
  OBVIOUS
<1>2. ASSUME NEW b \in PublishedAsImported
      PROVE  /\ b \in Batches /\ ListHolds(b) /\ DistinctPlaces(listing[b])
             /\ listing[b] \in [Numbers -> Row]
  BY <1>1 DEF ResultsInv, ListsHold, TypeOK, PublishedAsImported, Published
<1>3. SlotsFollowRanking
  <2>1. SUFFICES ASSUME NEW b \in PublishedAsImported
                 PROVE  LET slotted == {n \in Numbers : listing[b][n].slot > 0}
                        IN  /\ {listing[b][n].slot : n \in slotted} = 1..Len(values)
                            /\ Cardinality(slotted) = Len(values)
                            /\ \A m, n \in slotted :
                                  listing[b][m].slot < listing[b][n].slot
                                      <=> listing[b][m].place < listing[b][n].place
    BY DEF SlotsFollowRanking
  <2>2. PICK rows \in [Numbers -> Row] : rows = listing[b]
    BY <1>2
  <2>3. /\ DistinctPlaces(rows) /\ SlotsGiven(rows)
        /\ Len(values) = Cardinality(Ranked(rows))
    BY <1>2, <2>2 DEF ListHolds
  <2>4. /\ {n \in Numbers : rows[n].slot > 0} = Ranked(rows)
        /\ {rows[n].slot : n \in Ranked(rows)} = 1..Len(values)
    BY <2>3, SlotsGivenOnce
  <2>5. \A m, n \in Ranked(rows) : rows[m].slot < rows[n].slot <=> rows[m].place < rows[n].place
    BY <2>3, SlotsInOrder
  <2>6. QED
    BY <2>2, <2>3, <2>4, <2>5
<1>4. OneRowPerApplication
  BY <1>2 DEF OneRowPerApplication, ListHolds, OneRowEach
<1>5. RowsAsked
  BY <1>2 DEF RowsAsked, ListHolds, RowAsked
<1>6. QED
  BY <1>3, <1>4, <1>5 DEF ListsAgree

(* Batches, rows, the array, numbers, inquiries and answers keep their     *)
(* types; in particular no answer leaves a NULL in the array, and every    *)
(* value of a rebuilt array is one that exists (setWillingness,            *)
(* CorrectOfficialResult).                                                 *)
THEOREM ResultsTyped == Spec => []TypeOK
BY ResultsInductive, PTL DEF ResultsInv

(* Slots and array are one structure, an application has one row of the    *)
(* published list, and for every matched row somebody was asked, in        *)
(* whatever order lists are published and corrected, numbers set and       *)
(* answers written                                                         *)
(* (PublishOfficialBatch, CorrectOfficialResult, SetCandidateNumber).      *)
THEOREM PublishedListsAgree == Spec => []ListsAgree
BY ResultsInductive, InvGivesAgreement, PTL

(* Setting a candidate number takes no row of any list from another        *)
(* application (SetCandidateNumber).                                       *)
THEOREM MatchesStand == Spec => MatchNotTakenOver
<1> DEFINE Stands == number' # number =>
                         \A b \in Batches, n \in Numbers :
                             listing'[b][n].app \in {listing[b][n].app, None}
                                 \/ listing[b][n].app = None
<1>1. ResultsInv /\ [Next]_vars => [Stands]_vars
  <2>1. SUFFICES ASSUME ResultsInv, [Next]_vars, number' # number
                 PROVE  \A b \in Batches, n \in Numbers :
                            listing'[b][n].app \in {listing[b][n].app, None}
                                \/ listing[b][n].app = None
    OBVIOUS
  <2>2. PICK a \in Apps, k \in Numbers : SetCandidateNumber(a, k)
    <3>1. ASSUME NEW b \in Batches, Review(b)
          PROVE  number' = number
      BY <3>1 DEF Review, people, ImportOfficialBatch, MatchForPublication, PublishOfficialBatch,
                  CorrectOfficialResult, CreateAcceptanceDeadlineInquiries
    <3>2. ASSUME NEW b \in Batches, NEW roster \in Rosters, ApplyExtraction(b, roster)
          PROVE  number' = number
      BY <3>2 DEF ApplyExtraction, people
    <3>3. ASSUME PublicationFails \/ \E q \in inquiry : DeadlinePasses(q)
          PROVE  number' = number
      BY <3>3 DEF PublicationFails, DeadlinePasses, people
    <3>4. ASSUME \/ \E q \in inquiry, v \in Values : SelectInquiry(q, v)
                 \/ \E x \in answering : SetWillingness(x) \/ AnswerFails(x)
          PROVE  number' = number
      BY <3>4 DEF SelectInquiry, SetWillingness, AnswerFails, people
    <3>5. ASSUME UNCHANGED vars
          PROVE  number' = number
      BY <3>5 DEF vars, people
    <3>6. QED
      BY <2>1, <3>1, <3>2, <3>3, <3>4, <3>5 DEF Next, PeopleNext
  <2>3. listing' = [b \in Batches |-> IF b \in Published THEN Relinked(listing[b], a, k)
                                      ELSE listing[b]]
    BY <2>2 DEF SetCandidateNumber
  <2>4. ASSUME NEW b \in Batches, NEW n \in Numbers
        PROVE  listing'[b][n].app \in {listing[b][n].app, None} \/ listing[b][n].app = None
    <3>1. listing[b] \in [Numbers -> Row]
      BY <2>1 DEF ResultsInv, TypeOK
    <3>2. CASE b \in Published
      <4>1. listing'[b] = Relinked(listing[b], a, k)
        BY <2>3, <3>2
      <4>2. \/ listing'[b][n].app = listing[b][n].app
            \/ listing'[b][n].app = None
            \/ listing'[b][n].app = a /\ listing[b][n].app \in {a, None}
        BY <3>1, <4>1, RelinkedRows
      <4>3. QED
        BY <4>2
    <3>3. CASE b \notin Published
      BY <2>3, <3>3
    <3>4. QED
      BY <3>2, <3>3
  <2>5. QED
    BY <2>4
<1>2. QED
  BY <1>1, ResultsInductive, PTL DEF Spec, MatchNotTakenOver
-----------------------------------------------------------------------------
(* Live events.                                                            *)

ChannelRows == [open : BOOLEAN, items : Seq(EventIds)]

(* The hub knows the subscriptions whose channel is open, save those that  *)
(* were removed and are closed next; while it delivers, nobody comes or    *)
(* goes.                                                                   *)
LiveInv ==
    /\ LiveTypeOK
    /\ channel \in [Subscribers -> ChannelRows]
    /\ \A s \in subs : channel[s].open /\ stream[s] \in {"live", "left"}
    /\ \A s \in Subscribers : channel[s].open => s \in subs \/ stream[s] = "removed"
    /\ hub.pc = "delivering" => hub.rest \subseteq subs /\ hub.event \in EventIds
    /\ hub.pc = "stopped" => subs = {}

LEMMA LiveStartHolds == LiveInit => LiveInv
<1>1. SUFFICES ASSUME LiveInit
               PROVE  LiveInv
  OBVIOUS
<1>2. Unopened \in ChannelRows /\ Len(Unopened.items) = 0 /\ Unopened.open = FALSE
  BY DEF Unopened, ChannelRows
<1>3. LiveTypeOK
  BY <1>1, <1>2, LiveAssumption DEF LiveInit, LiveStart, LiveTypeOK, ChannelRows
<1>4. QED
  BY <1>1, <1>2, <1>3 DEF LiveInit, LiveStart, LiveInv

LEMMA LiveStepHolds == LiveInv /\ [LiveNext]_liveVars => LiveInv'
<1>1. SUFFICES ASSUME LiveInv, [LiveNext]_liveVars
               PROVE  LiveInv'
  OBVIOUS
<1>2. LiveTypeOK /\ channel \in [Subscribers -> ChannelRows]
  BY <1>1 DEF LiveInv
<1> USE LiveAssumption
<1>3. CASE Publish
  <2>1. wire' \in Seq(EventIds)
    <3>1. sent \in 0..Len(TopicOf) /\ wire \in Seq(EventIds) /\ sent < Len(TopicOf)
      BY <1>2, <1>3 DEF Publish, LiveTypeOK
    <3>2. sent + 1 \in EventIds
      BY <3>1 DEF EventIds
    <3>3. wire' = Append(wire, sent + 1) \/ wire' = wire
      BY <1>3 DEF Publish
    <3>4. QED
      BY <3>1, <3>2, <3>3
  <2>2. QED
    BY <1>1, <1>2, <1>3, <2>1 DEF Publish, LiveInv, LiveTypeOK
<1>4. CASE Listen
  BY <1>1, <1>4 DEF Listen, LiveInv, LiveTypeOK
<1>5. CASE ConnectionLost
  BY <1>1, <1>5 DEF ConnectionLost, LiveInv, LiveTypeOK
<1>6. CASE Stop
  BY <1>1, <1>6 DEF Stop, LiveInv, LiveTypeOK
<1>7. CASE WaitForNotification
  <2>1. /\ wire' = Tail(wire)
        /\ hub' = [pc |-> "delivering", event |-> Head(wire),
                   rest |-> {s \in subs : TopicOf[Head(wire)] \in Topics[s]}]
        /\ wire # <<>>
        /\ UNCHANGED <<sent, subs, stream, channel, drops>>
    BY <1>7 DEF WaitForNotification
  <2>2. wire' \in Seq(EventIds) /\ Head(wire) \in EventIds
    BY <1>2, <2>1 DEF LiveTypeOK
  <2>3. hub'.rest \subseteq subs /\ subs \subseteq Subscribers
    BY <1>2, <2>1 DEF LiveTypeOK
  <2>4. hub' \in [pc : {"off", "waiting", "delivering", "stopping", "stopped"},
                  event : EventIds \cup {0}, rest : SUBSET Subscribers]
    BY <2>1, <2>2, <2>3
  <2>5. QED
    BY <1>1, <2>1, <2>2, <2>3, <2>4 DEF LiveInv, LiveTypeOK
<1>8. CASE DeliverEnds
  BY <1>1, <1>8 DEF DeliverEnds, LiveInv, LiveTypeOK
<1>9. CASE closeAll
  <2>1. /\ hub.pc = "stopping" /\ hub' = [hub EXCEPT !.pc = "stopped"]
        /\ channel' = [s \in Subscribers |->
                          IF s \in subs THEN [channel[s] EXCEPT !.open = FALSE] ELSE channel[s]]
        /\ subs' = {}
        /\ UNCHANGED <<sent, wire, stream, drops>>
    BY <1>9 DEF closeAll
  <2>2. ASSUME NEW s \in Subscribers
        PROVE  /\ channel'[s] \in ChannelRows
               /\ channel'[s].items = channel[s].items
               /\ channel'[s].open = TRUE <=> channel[s].open = TRUE /\ s \notin subs
    BY <1>2, <2>1 DEF ChannelRows
  <2>3. channel' \in [Subscribers -> ChannelRows]
    BY <2>1, <2>2
  <2>4. \A s \in Subscribers : channel'[s].open => stream'[s] = "removed"
    BY <1>1, <2>1, <2>2, <2>3 DEF LiveInv, ChannelRows
  <2>5. LiveTypeOK'
    BY <1>2, <2>1, <2>2, <2>3 DEF LiveTypeOK, ChannelRows
  <2>6. QED
    BY <2>1, <2>3, <2>4, <2>5 DEF LiveInv
<1>10. ASSUME NEW s \in Subscribers, DeliverTo(s)
       PROVE  LiveInv'
  <2>1. /\ hub.pc = "delivering" /\ s \in hub.rest
        /\ channel' = IF Len(channel[s].items) < Room
                      THEN [channel EXCEPT ![s].items = Append(@, hub.event)] ELSE channel
        /\ hub' = [hub EXCEPT !.rest = @ \ {s}]
        /\ UNCHANGED <<sent, wire, subs, stream, drops>>
    BY <1>10 DEF DeliverTo, Fits
  <2>2. hub.event \in EventIds /\ hub.rest \subseteq subs
    BY <1>1, <2>1 DEF LiveInv
  <2>3. ASSUME NEW t \in Subscribers
        PROVE  /\ channel'[t] \in ChannelRows
               /\ Len(channel'[t].items) <= Room
               /\ channel'[t].open = channel[t].open
    <3>1. channel[t] \in ChannelRows /\ Len(channel[t].items) <= Room
      BY <1>2 DEF LiveTypeOK
    <3>2. CASE Len(channel[s].items) < Room /\ t = s
      <4>1. PICK items : items = Append(channel[s].items, hub.event)
        OBVIOUS
      <4>2. items \in Seq(EventIds) /\ Len(items) <= Room
        BY <2>2, <3>1, <3>2, <4>1 DEF ChannelRows
      <4>3. channel'[t] = [channel[s] EXCEPT !.items = items]
        BY <1>2, <2>1, <3>2, <4>1
      <4>4. QED
        BY <3>1, <3>2, <4>2, <4>3 DEF ChannelRows
    <3>3. CASE ~(Len(channel[s].items) < Room /\ t = s)
      BY <1>2, <2>1, <3>1, <3>3
    <3>4. QED
      BY <3>2, <3>3
  <2>4. channel' \in [Subscribers -> ChannelRows]
    <3>1. channel' = [t \in Subscribers |-> channel'[t]]
      BY <1>2, <2>1
    <3>2. QED
      BY <2>3, <3>1
  <2>5. LiveTypeOK'
    <3>1. \A t \in Subscribers : channel'[t].open \in BOOLEAN /\ Len(channel'[t].items) <= Room
      BY <2>3 DEF ChannelRows
    <3>2. hub' \in [pc : {"off", "waiting", "delivering", "stopping", "stopped"},
                    event : EventIds \cup {0}, rest : SUBSET Subscribers]
      BY <1>2, <2>1 DEF LiveTypeOK
    <3>3. QED
      BY <1>2, <2>1, <3>1, <3>2 DEF LiveTypeOK
  <2>6. subs \subseteq Subscribers
    BY <1>2 DEF LiveTypeOK
  <2>7. hub'.pc = "delivering" /\ hub'.event = hub.event /\ hub'.rest \subseteq hub.rest
    BY <1>2, <2>1 DEF LiveTypeOK
  <2>8. QED
    BY <1>1, <2>1, <2>2, <2>3, <2>4, <2>5, <2>6, <2>7 DEF LiveInv
<1>11. ASSUME NEW s \in Subscribers, Subscribe(s)
       PROVE  LiveInv'
  <2>1. /\ stream[s] = "none" /\ hub.pc # "delivering"
        /\ stream' = [stream EXCEPT ![s] = "live"]
        /\ channel' = [channel EXCEPT ![s].open = (hub.pc # "stopped")]
        /\ subs' = IF hub.pc # "stopped" THEN subs \cup {s} ELSE subs
        /\ UNCHANGED <<sent, hub, wire, drops>>
    BY <1>11 DEF Subscribe, Unlocked, Taken
  <2>2. PICK opened \in BOOLEAN : opened = TRUE <=> hub.pc # "stopped"
    OBVIOUS
  <2>3. channel' = [channel EXCEPT ![s].open = opened]
    BY <2>1, <2>2
  <2>4. ASSUME NEW t \in Subscribers
        PROVE  /\ channel'[t] \in ChannelRows
               /\ channel'[t].items = channel[t].items
               /\ channel'[t].open = IF t = s THEN opened ELSE channel[t].open
    BY <1>2, <2>3 DEF ChannelRows
  <2>5. channel' \in [Subscribers -> ChannelRows]
    BY <1>2, <2>3, <2>4
  <2>6. LiveTypeOK'
    BY <1>2, <2>1, <2>4, <2>5 DEF LiveTypeOK, ChannelRows
  <2>7. stream \in [Subscribers -> {"none", "live", "left", "removed", "over"}]
    BY <1>2 DEF LiveTypeOK
  <2>8. subs \subseteq Subscribers
    BY <1>2 DEF LiveTypeOK
  <2>9. \A t \in subs' : channel'[t].open /\ stream'[t] \in {"live", "left"}
    BY <1>1, <2>1, <2>2, <2>4, <2>7, <2>8 DEF LiveInv
  <2>10. \A t \in Subscribers : channel'[t].open => t \in subs' \/ stream'[t] = "removed"
    BY <1>1, <2>1, <2>2, <2>4, <2>7 DEF LiveInv
  <2>11. hub'.pc # "delivering" /\ (hub'.pc = "stopped" => subs' = {})
    BY <1>1, <2>1 DEF LiveInv
  <2>12. QED
    BY <2>5, <2>6, <2>9, <2>10, <2>11 DEF LiveInv
<1>12. ASSUME NEW s \in Subscribers, Read(s)
       PROVE  LiveInv'
  <2>1. PICK items : items = Tail(channel[s].items)
    OBVIOUS
  <2>2. /\ channel[s].items # <<>>
        /\ channel' = [channel EXCEPT ![s].items = items]
        /\ UNCHANGED <<sent, hub, wire, subs, stream, drops>>
    BY <1>12, <2>1 DEF Read
  <2>3. items \in Seq(EventIds) /\ Len(items) <= Room
    BY <1>2, <2>1, <2>2 DEF LiveTypeOK, ChannelRows
  <2>4. ASSUME NEW t \in Subscribers
        PROVE  /\ channel'[t] \in ChannelRows
               /\ channel'[t].open = channel[t].open
               /\ Len(channel'[t].items) <= Room
    BY <1>2, <2>2, <2>3 DEF LiveTypeOK, ChannelRows
  <2>5. channel' \in [Subscribers -> ChannelRows]
    BY <1>2, <2>2, <2>4
  <2>6. LiveTypeOK'
    BY <1>2, <2>2, <2>4, <2>5 DEF LiveTypeOK, ChannelRows
  <2>7. subs \subseteq Subscribers
    BY <1>2 DEF LiveTypeOK
  <2>8. QED
    BY <1>1, <2>2, <2>4, <2>5, <2>6, <2>7 DEF LiveInv
<1>13. ASSUME NEW s \in Subscribers, ClientLeaves(s) \/ StreamEnds(s)
       PROVE  LiveInv'
  BY <1>1, <1>2, <1>13 DEF ClientLeaves, StreamEnds, LiveInv, LiveTypeOK
<1>14. ASSUME NEW s \in Subscribers, Remove(s)
       PROVE  LiveInv'
  BY <1>1, <1>2, <1>14 DEF Remove, Unlocked, LiveInv, LiveTypeOK
<1>15. ASSUME NEW s \in Subscribers, Close(s)
       PROVE  LiveInv'
  <2>1. /\ stream[s] = "removed"
        /\ stream' = [stream EXCEPT ![s] = "over"]
        /\ channel' = [channel EXCEPT ![s].open = FALSE]
        /\ UNCHANGED <<sent, hub, wire, subs, drops>>
    BY <1>15 DEF Close
  <2>2. ASSUME NEW t \in Subscribers
        PROVE  /\ channel'[t] \in ChannelRows
               /\ channel'[t].items = channel[t].items
               /\ channel'[t].open = IF t = s THEN FALSE ELSE channel[t].open
    BY <1>2, <2>1 DEF ChannelRows
  <2>3. channel' \in [Subscribers -> ChannelRows]
    BY <1>2, <2>1, <2>2
  <2>4. LiveTypeOK'
    BY <1>2, <2>1, <2>2, <2>3 DEF LiveTypeOK, ChannelRows
  <2>5. subs \subseteq Subscribers /\ s \notin subs
    BY <1>1, <2>1 DEF LiveInv, LiveTypeOK
  <2>6. stream \in [Subscribers -> {"none", "live", "left", "removed", "over"}]
    BY <1>2 DEF LiveTypeOK
  <2>7. QED
    BY <1>1, <2>1, <2>2, <2>3, <2>4, <2>5, <2>6 DEF LiveInv
<1>16. CASE UNCHANGED liveVars
  BY <1>1, <1>16 DEF liveVars, LiveInv, LiveTypeOK
<1>17. QED
  BY <1>1, <1>3, <1>4, <1>5, <1>6, <1>7, <1>8, <1>9, <1>10, <1>11, <1>12, <1>13, <1>14, <1>15, <1>16
     DEF LiveNext, Runs

(* However subscribers come and go while a notification is delivered and   *)
(* the process stops, nothing is sent on a closed channel and no stream    *)
(* waits on one that nobody closes (Hub.deliver, closeAll, Subscribe).     *)
THEOREM StreamsAreClosed == LiveSpec => []StreamsHold
<1>1. LiveInv => StreamsHold
  <2>1. SUFFICES ASSUME LiveInv
                 PROVE  StreamsHold
    OBVIOUS
  <2>2. LiveTypeOK
    BY <2>1 DEF LiveInv
  <2>3. SendsToOpen
    BY <2>1 DEF LiveInv, SendsToOpen
  <2>4. StoppedIsClosed
    BY <2>1 DEF LiveInv, StoppedIsClosed
  <2>5. QED
    BY <2>2, <2>3, <2>4 DEF StreamsHold
<1>2. QED
  BY <1>1, LiveStartHolds, LiveStepHolds, PTL DEF LiveSpec
-----------------------------------------------------------------------------
(* Rate limits.  First, how many calls were allowed in a span of time.     *)

Counts == [Instants -> 0..MaxAsked]

CountIn(f, span) == Cardinality(AllowedIn(f, span))

LEMMA AllowedFinite ==
    ASSUME NEW f, NEW span
    PROVE  IsFiniteSet(AllowedIn(f, span)) /\ CountIn(f, span) \in Nat
<1>1. IsFiniteSet(Instants) /\ IsFiniteSet(1..MaxAsked)
  BY LimitsAssumption, FS_Interval DEF Instants
<1>2. IsFiniteSet(Instants \X (1..MaxAsked))
  BY <1>1, FS_Product
<1>3. AllowedIn(f, span) \in SUBSET (Instants \X (1..MaxAsked))
  BY DEF AllowedIn
<1>4. IsFiniteSet(AllowedIn(f, span))
  BY ONLY <1>2, <1>3, FS_Subset
<1>5. QED
  BY <1>4, FS_CardinalityType DEF CountIn

(* A span that has all the calls of another has at least as many. *)
LEMMA WiderSpan ==
    ASSUME NEW f \in Counts, NEW S, NEW T,
           \A t \in Instants \cap S : f[t] # 0 => t \in T
    PROVE  CountIn(f, S) <= CountIn(f, T)
<1>1. AllowedIn(f, S) \in SUBSET AllowedIn(f, T)
  <2>1. SUFFICES ASSUME NEW t \in Instants \cap S, NEW i \in 1..MaxAsked, i <= f[t]
                 PROVE  t \in T
    BY DEF AllowedIn
  <2>2. f[t] \in 0..MaxAsked
    BY DEF Counts
  <2>3. QED
    BY <2>1, <2>2, LimitsAssumption
<1>2. IsFiniteSet(AllowedIn(f, T))
  BY AllowedFinite
<1>3. QED
  BY ONLY <1>1, <1>2, FS_Subset DEF CountIn

LEMMA TwoSpans ==
    ASSUME NEW f \in Counts, NEW S, NEW T, NEW U,
           \A t \in Instants \cap S : f[t] # 0 => t \in T \/ t \in U
    PROVE  CountIn(f, S) <= CountIn(f, T) + CountIn(f, U)
<1>1. CountIn(f, S) <= CountIn(f, T \cup U)
  BY WiderSpan
<1>2. AllowedIn(f, T \cup U) = AllowedIn(f, T) \cup AllowedIn(f, U)
  BY DEF AllowedIn
<1>3. /\ IsFiniteSet(AllowedIn(f, T)) /\ IsFiniteSet(AllowedIn(f, U))
      /\ CountIn(f, S) \in Nat /\ CountIn(f, T) \in Nat /\ CountIn(f, U) \in Nat
      /\ CountIn(f, T \cup U) \in Nat
  BY AllowedFinite
<1>4. /\ Cardinality(AllowedIn(f, T) \cup AllowedIn(f, U)) =
             Cardinality(AllowedIn(f, T)) + Cardinality(AllowedIn(f, U))
                 - Cardinality(AllowedIn(f, T) \cap AllowedIn(f, U))
  BY ONLY <1>3, FS_Union
<1>5. Cardinality(AllowedIn(f, T) \cap AllowedIn(f, U)) \in Nat
  <2>1. IsFiniteSet(AllowedIn(f, T) \cap AllowedIn(f, U))
    BY <1>3, FS_Intersection
  <2>2. QED
    BY <2>1, FS_CardinalityType
<1>6. PICK both \in Nat : both = Cardinality(AllowedIn(f, T) \cap AllowedIn(f, U))
  BY <1>5
<1>7. CountIn(f, T \cup U) = CountIn(f, T) + CountIn(f, U) - both
  BY ONLY <1>2, <1>4, <1>6 DEF CountIn
<1>8. QED
  BY ONLY <1>1, <1>3, <1>6, <1>7

(* One call more at one time. *)
LEMMA OneMore ==
    ASSUME NEW f \in Counts, NEW at \in Instants, f[at] < MaxAsked, NEW S
    PROVE  /\ [f EXCEPT ![at] = @ + 1] \in Counts
           /\ CountIn([f EXCEPT ![at] = @ + 1], S) =
                  IF at \in S THEN CountIn(f, S) + 1 ELSE CountIn(f, S)
<1>1. PICK n \in 0..MaxAsked : n = f[at]
  BY DEF Counts
<1>2. n + 1 \in 1..MaxAsked
  BY <1>1, LimitsAssumption
<1>3. PICK g : g = [f EXCEPT ![at] = n + 1]
  OBVIOUS
<1>4. g \in Counts
  BY <1>2, <1>3, LimitsAssumption DEF Counts
<1>5. \A t \in Instants : g[t] = IF t = at THEN n + 1 ELSE f[t]
  BY <1>3 DEF Counts
<1>6. \A t \in Instants : f[t] \in 0..MaxAsked
  BY DEF Counts
<1>7. CASE at \in S
  <2>1. AllowedIn(g, S) = AllowedIn(f, S) \cup {<<at, n + 1>>}
    <3>1. ASSUME NEW t \in Instants \cap S, NEW i \in 1..MaxAsked
          PROVE  i <= g[t] <=> i <= f[t] \/ <<t, i>> = <<at, n + 1>>
      <4>1. CASE t = at
        <5>1. f[t] = n /\ g[t] = n + 1
          BY <1>1, <1>5, <4>1
        <5>2. i <= n + 1 <=> i <= n \/ i = n + 1
          BY LimitsAssumption
        <5>3. QED
          BY <4>1, <5>1, <5>2
      <4>2. CASE t # at
        BY <1>5, <4>2
      <4>3. QED
        BY <4>1, <4>2
    <3>2. QED
      BY <1>2, <1>7, <3>1 DEF AllowedIn
  <2>2. <<at, n + 1>> \notin AllowedIn(f, S)
    BY <1>1, <1>2, LimitsAssumption DEF AllowedIn
  <2>3. IsFiniteSet(AllowedIn(f, S))
    BY AllowedFinite
  <2>4. Cardinality(AllowedIn(f, S) \cup {<<at, n + 1>>}) = Cardinality(AllowedIn(f, S)) + 1
    BY ONLY <2>2, <2>3, FS_AddElement
  <2>5. QED
    BY <1>1, <1>3, <1>4, <1>7, <2>1, <2>4 DEF CountIn
<1>8. CASE at \notin S
  <2>1. AllowedIn(g, S) = AllowedIn(f, S)
    BY <1>5, <1>8 DEF AllowedIn
  <2>2. QED
    BY <1>1, <1>3, <1>4, <1>8, <2>1 DEF CountIn
<1>9. QED
  BY <1>7, <1>8

-----------------------------------------------------------------------------
(* Then, a counter of Redis.  What it counts, up to the limit, was allowed *)
(* since it began; nothing was allowed after its end, nor more than the    *)
(* limit in a window's length before its start.                            *)
BucketFits(b, f, now) ==
    IF b.count = 0 THEN \A t \in Instants : f[t] = 0
    ELSE /\ b.expires = b.started + Window
         /\ b.started <= now
         /\ CountIn(f, b.started..now) = IF b.count < Limit THEN b.count ELSE Limit
         /\ CountIn(f, (b.started - Window + 1)..(b.started - 1)) <= Limit
         /\ \A t \in Instants : t >= b.expires => f[t] = 0

SpansFit(f) == \A t \in Instants : CountIn(f, t..(t + Window - 1)) <= 2 * Limit

Counters == [started : Instants, count : Nat, expires : Nat]

LEMMA FreshFits ==
    ASSUME NEW f \in Counts, NEW now \in Instants, f[now] < MaxAsked,
           NEW b \in Counters, BucketFits(b, f, now), SpansFit(f),
           \A t \in Instants : t > now => f[t] = 0,
           b.count = 0 \/ b.expires <= now
    PROVE  /\ BucketFits(Fresh(now), [f EXCEPT ![now] = @ + 1], now)
           /\ SpansFit([f EXCEPT ![now] = @ + 1])
<1>1. PICK g : g = [f EXCEPT ![now] = @ + 1]
  OBVIOUS
<1>2. /\ now \in Nat /\ Window \in Nat \ {0} /\ Limit \in Nat \ {0}
      /\ \A t \in Instants : t \in Nat
  BY LimitsAssumption DEF Instants
<1>3. ASSUME NEW S
      PROVE  /\ CountIn(g, S) = IF now \in S THEN CountIn(f, S) + 1 ELSE CountIn(f, S)
             /\ CountIn(f, S) \in Nat
  BY <1>1, OneMore, AllowedFinite
<1>4. \A t \in Instants : f[t] # 0 => b.count # 0 /\ t < b.expires
  BY <1>2 DEF BucketFits, Counters
<1>5. b.count # 0 => /\ b.expires = b.started + Window /\ b.started \in Nat
                     /\ CountIn(f, b.started..now) <= Limit
  BY <1>2 DEF BucketFits, Counters, Instants
<1>6. \A t \in Instants : f[t] # 0 => t < now
  BY <1>2, <1>4, <1>5 DEF Counters
<1>7. CountIn(f, {}) = 0
  <2>1. AllowedIn(f, {}) = {}
    BY DEF AllowedIn
  <2>2. QED
    BY <2>1, FS_EmptySet DEF CountIn
<1>8. CountIn(f, now..now) = 0
  <2>1. \A t \in Instants \cap (now..now) : f[t] # 0 => t \in {}
    BY <1>2, <1>6
  <2>2. QED
    BY <1>3, <1>7, <2>1, WiderSpan
<1>9. ASSUME NEW S, \A t \in Instants \cap S : t > now - Window
      PROVE  CountIn(f, S) <= Limit
  <2>1. CASE b.count = 0
    <3>1. \A t \in Instants \cap S : f[t] # 0 => t \in {}
      BY <1>4, <2>1
    <3>2. CountIn(f, S) <= CountIn(f, {})
      BY <3>1, WiderSpan
    <3>3. QED
      BY <1>2, <1>3, <1>7, <3>2
  <2>2. CASE b.count # 0
    <3>1. b.expires <= now
      BY <2>2
    <3>2. \A t \in Instants \cap S : f[t] # 0 => t \in b.started..now
      BY <1>2, <1>5, <1>6, <1>9, <2>2, <3>1
    <3>3. CountIn(f, S) <= CountIn(f, b.started..now)
      BY <3>2, WiderSpan
    <3>4. QED
      BY <1>2, <1>3, <1>5, <2>2, <3>3
  <2>3. QED
    BY <2>1, <2>2
<1>10. BucketFits(Fresh(now), g, now)
  <2>1. CountIn(g, now..now) = 1
    BY <1>2, <1>3, <1>8
  <2>2. CountIn(g, (now - Window + 1)..(now - 1)) <= Limit
    <3>1. now \notin (now - Window + 1)..(now - 1)
      BY <1>2
    <3>2. \A t \in Instants \cap ((now - Window + 1)..(now - 1)) : t > now - Window
      BY <1>2
    <3>3. CountIn(f, (now - Window + 1)..(now - 1)) <= Limit
      BY <1>9, <3>2
    <3>4. QED
      BY <1>3, <3>1, <3>3
  <2>3. \A t \in Instants : t >= now + Window => g[t] = 0
    BY <1>1, <1>2 DEF Counts
  <2>4. QED
    BY <1>2, <2>1, <2>2, <2>3 DEF BucketFits, Fresh
<1>11. SpansFit(g)
  <2>1. SUFFICES ASSUME NEW t \in Instants
                 PROVE  CountIn(g, t..(t + Window - 1)) <= 2 * Limit
    BY DEF SpansFit
  <2>2. PICK S : S = t..(t + Window - 1)
    OBVIOUS
  <2>3. CASE now \in S
    <3>1. \A u \in Instants \cap S : u > now - Window
      BY <1>2, <2>2, <2>3
    <3>2. CountIn(f, S) <= Limit
      BY <1>9, <3>1
    <3>3. QED
      BY <1>2, <1>3, <2>2, <2>3, <3>2
  <2>4. CASE now \notin S
    BY <1>3, <2>2, <2>4 DEF SpansFit
  <2>5. QED
    BY <2>3, <2>4
<1>12. QED
  BY <1>1, <1>10, <1>11

LEMMA IncrementFits ==
    ASSUME NEW f \in Counts, NEW now \in Instants, f[now] < MaxAsked,
           NEW b \in Counters, BucketFits(b, f, now), SpansFit(f),
           \A t \in Instants : t > now => f[t] = 0,
           b.count # 0, now < b.expires
    PROVE  /\ b.count < Limit =>
                 /\ BucketFits([b EXCEPT !.count = @ + 1], [f EXCEPT ![now] = @ + 1], now)
                 /\ SpansFit([f EXCEPT ![now] = @ + 1])
           /\ b.count >= Limit => BucketFits([b EXCEPT !.count = @ + 1], f, now)
<1>1. PICK g : g = [f EXCEPT ![now] = @ + 1]
  OBVIOUS
<1>2. PICK row : row = [b EXCEPT !.count = @ + 1]
  OBVIOUS
<1>3. /\ now \in Nat /\ Window \in Nat \ {0} /\ Limit \in Nat \ {0}
      /\ \A t \in Instants : t \in Nat
  BY LimitsAssumption DEF Instants
<1>4. /\ b.count \in Nat \ {0} /\ b.started \in Nat
      /\ row.count = b.count + 1 /\ row.started = b.started /\ row.expires = b.expires
  BY <1>2 DEF Counters, Instants
<1>5. ASSUME NEW S
      PROVE  /\ CountIn(g, S) = IF now \in S THEN CountIn(f, S) + 1 ELSE CountIn(f, S)
             /\ CountIn(f, S) \in Nat
             /\ g \in Counts
  BY <1>1, OneMore, AllowedFinite
<1>6. /\ b.expires = b.started + Window
      /\ b.started <= now
      /\ CountIn(f, b.started..now) = IF b.count < Limit THEN b.count ELSE Limit
      /\ CountIn(f, (b.started - Window + 1)..(b.started - 1)) <= Limit
      /\ \A t \in Instants : t >= b.expires => f[t] = 0
  BY DEF BucketFits
<1>7. b.count >= Limit => BucketFits(row, f, now)
  BY <1>3, <1>4, <1>6 DEF BucketFits
<1>8. ASSUME b.count < Limit
      PROVE  BucketFits(row, g, now) /\ SpansFit(g)
  <2>1. CountIn(g, b.started..now) = b.count + 1
    BY <1>3, <1>4, <1>5, <1>6, <1>8
  <2>2. CountIn(g, (b.started - Window + 1)..(b.started - 1)) <= Limit
    <3>1. now \notin (b.started - Window + 1)..(b.started - 1)
      BY <1>3, <1>4, <1>6
    <3>2. QED
      BY <1>5, <1>6, <3>1
  <2>3. \A t \in Instants : t >= b.expires => g[t] = 0
    <3>1. \A t \in Instants : t >= b.expires => t # now
      BY <1>3, <1>4, <1>6
    <3>2. QED
      BY <1>1, <1>6, <3>1 DEF Counts
  <2>4. BucketFits(row, g, now)
    BY <1>3, <1>4, <1>6, <1>8, <2>1, <2>2, <2>3 DEF BucketFits
  <2>5. ASSUME NEW t \in Instants
        PROVE  CountIn(g, t..(t + Window - 1)) <= 2 * Limit
    <3>1. PICK S : S = t..(t + Window - 1)
      OBVIOUS
    <3>2. CASE now \in S
      <4>1. \A u \in Instants : g[u] # 0 => u <= now
        BY <1>1, <1>3 DEF Counts
      <4>2. \A u \in Instants \cap S : g[u] # 0 =>
                \/ u \in b.started..now
                \/ u \in (b.started - Window + 1)..(b.started - 1)
        BY <1>3, <1>4, <1>6, <3>1, <3>2, <4>1
      <4>3. CountIn(g, S) <= CountIn(g, b.started..now)
                                 + CountIn(g, (b.started - Window + 1)..(b.started - 1))
        BY <1>5, <4>2, TwoSpans
      <4>4. CountIn(g, (b.started - Window + 1)..(b.started - 1)) \in Nat /\ CountIn(g, S) \in Nat
        BY AllowedFinite
      <4>5. QED
        BY <1>3, <1>4, <1>8, <2>1, <2>2, <3>1, <4>3, <4>4
    <3>3. CASE now \notin S
      BY <1>5, <3>1, <3>3 DEF SpansFit
    <3>4. QED
      BY <3>2, <3>3
  <2>6. QED
    BY <2>4, <2>5 DEF SpansFit
<1>9. QED
  BY <1>1, <1>2, <1>7, <1>8
-----------------------------------------------------------------------------
(* The invariant.  A call that is under way is not counted yet, so that no *)
(* counter runs past the calls there were; it read the clock before.       *)
Pending == {c \in LimitCalls : limited[c].pc # "idle"}

Local == {c \in LimitCalls : limited[c].pc = "local"}

CallRows == [pc : {"idle", "local", "shared"}, replica : Replicas \cup {Shared},
             key : LimitKeys, at : Instants]

CallsKnown == \A c \in Pending : limited[c].replica \in Replicas /\ limited[c].at <= clock

CallsCounted ==
    /\ IsFiniteSet(Pending)
    /\ \A k \in LimitKeys :
          /\ bucket[k].count + Cardinality(Pending) <= asked
          /\ \A t \in Instants : hits[Shared][k][t] + Cardinality(Pending) <= asked
          /\ \A r \in Replicas :
                /\ windows[r][k].count + Cardinality(Local) <= asked
                /\ \A t \in Instants : hits[r][k][t] + Cardinality(Local) <= asked

Known(entries) == {k \in LimitKeys : entries[k].count > 0}

KeysKnown == \A r \in Replicas : IsFiniteSet(Known(windows[r]))

NothingAhead ==
    \A l \in Replicas \cup {Shared}, k \in LimitKeys, t \in Instants :
        t > clock => hits[l][k][t] = 0

(* What a window of a replica counts was allowed since it began. *)
WindowFits(w, f, now) ==
    w.count > 0 =>
        /\ w.expires = w.started + Window
        /\ w.started <= now
        /\ CountIn(f, w.started..now) >= w.count

WindowsFit ==
    \A r \in Replicas, k \in LimitKeys : WindowFits(windows[r][k], hits[r][k], clock)

RedisFits ==
    store = "redis" =>
        \A k \in LimitKeys : /\ BucketFits(bucket[k], hits[Shared][k], clock)
                             /\ SpansFit(hits[Shared][k])

LimitsInv ==
    /\ LimitsTypeOK
    /\ CallsKnown /\ CallsCounted
    /\ KeysKnown
    /\ NothingAhead
    /\ WindowsFit
    /\ RedisFits

LEMMA LimitsTypes ==
    LimitsTypeOK <=>
        /\ store \in {"redis", "postgres", "none"}
        /\ clock \in Instants
        /\ windows \in [Replicas -> [LimitKeys -> WindowRow]]
        /\ bucket \in [LimitKeys -> WindowRow]
        /\ limited \in [LimitCalls -> CallRows]
        /\ hits \in [Replicas \cup {Shared} -> [LimitKeys -> Counts]]
        /\ asked \in 0..MaxAsked
        /\ \A r \in Replicas : Cardinality(Known(windows[r])) <= MaxKeys
BY DEF LimitsTypeOK, CallRows, Counts, Known

LEMMA NotLimitedRow == NotLimited \in CallRows /\ NotLimited.pc = "idle"
<1>1. (CHOOSE k \in LimitKeys : TRUE) \in LimitKeys
  BY LimitsAssumption
<1>2. 0 \in Instants
  BY LimitsAssumption DEF Instants
<1>3. QED
  BY <1>1, <1>2 DEF NotLimited, CallRows

(* Moving one call moves the numbers of calls under way by one. *)
LEMMA CallMoves ==
    ASSUME LimitsTypeOK, CallsKnown, IsFiniteSet(Pending),
           NEW c \in LimitCalls, NEW x \in CallRows,
           limited' = [limited EXCEPT ![c] = x],
           x.pc # "idle" => x.replica \in Replicas /\ x.at <= clock,
           clock' = clock
    PROVE  /\ limited' \in [LimitCalls -> CallRows]
           /\ CallsKnown'
           /\ IsFiniteSet(Pending')
           /\ Cardinality(Pending) \in Nat /\ Cardinality(Local) \in Nat
           /\ Cardinality(Pending') =
                  (IF limited[c].pc = "idle" THEN Cardinality(Pending) ELSE Cardinality(Pending) - 1)
                  + (IF x.pc = "idle" THEN 0 ELSE 1)
           /\ Cardinality(Local') =
                  (IF limited[c].pc = "local" THEN Cardinality(Local) - 1 ELSE Cardinality(Local))
                  + (IF x.pc = "local" THEN 1 ELSE 0)
<1>1. limited \in [LimitCalls -> CallRows]
  BY LimitsTypes
<1>2. \A d \in LimitCalls : limited'[d] = IF d = c THEN x ELSE limited[d]
  BY <1>1
<1>3. limited' \in [LimitCalls -> CallRows]
  BY <1>1
<1>4. CallsKnown'
  BY <1>2 DEF CallsKnown, Pending
<1>5. IsFiniteSet(Local)
  <2>1. Local \in SUBSET Pending
    BY DEF Local, Pending
  <2>2. QED
    BY ONLY <2>1, IsFiniteSet(Pending), FS_Subset
<1>6. Cardinality(Pending) \in Nat /\ Cardinality(Local) \in Nat
  BY <1>5, FS_CardinalityType
<1>7. /\ IsFiniteSet(Pending \ {c})
      /\ Cardinality(Pending \ {c}) =
             IF c \in Pending THEN Cardinality(Pending) - 1 ELSE Cardinality(Pending)
  BY ONLY IsFiniteSet(Pending), FS_RemoveElement
<1>8. /\ IsFiniteSet(Local \ {c})
      /\ Cardinality(Local \ {c}) =
             IF c \in Local THEN Cardinality(Local) - 1 ELSE Cardinality(Local)
  BY ONLY <1>5, FS_RemoveElement
<1>9. /\ IsFiniteSet((Pending \ {c}) \cup {c})
      /\ Cardinality((Pending \ {c}) \cup {c}) = Cardinality(Pending \ {c}) + 1
  BY ONLY <1>7, FS_AddElement
<1>10. /\ IsFiniteSet((Local \ {c}) \cup {c})
       /\ Cardinality((Local \ {c}) \cup {c}) = Cardinality(Local \ {c}) + 1
  BY ONLY <1>8, FS_AddElement
<1>11. Pending' = IF x.pc = "idle" THEN Pending \ {c} ELSE (Pending \ {c}) \cup {c}
  BY <1>2 DEF Pending
<1>12. Local' = IF x.pc = "local" THEN (Local \ {c}) \cup {c} ELSE Local \ {c}
  BY <1>2 DEF Local
<1>13. (c \in Pending <=> limited[c].pc # "idle") /\ (c \in Local <=> limited[c].pc = "local")
  BY DEF Pending, Local
<1>14. IsFiniteSet(Pending')
  BY <1>7, <1>9, <1>11
<1>15. Cardinality(Pending') =
           (IF limited[c].pc = "idle" THEN Cardinality(Pending) ELSE Cardinality(Pending) - 1)
           + (IF x.pc = "idle" THEN 0 ELSE 1)
  BY ONLY <1>6, <1>7, <1>9, <1>11, <1>13
<1>16. Cardinality(Local') =
           (IF limited[c].pc = "local" THEN Cardinality(Local) - 1 ELSE Cardinality(Local))
           + (IF x.pc = "local" THEN 1 ELSE 0)
  BY ONLY <1>6, <1>8, <1>10, <1>12, <1>13
<1>17. QED
  BY <1>3, <1>4, <1>6, <1>14, <1>15, <1>16

(* Allowing a call counts it for one layer and one key. *)
LEMMA HitRecorded ==
    ASSUME LimitsTypeOK, NEW l \in Replicas \cup {Shared}, NEW k \in LimitKeys,
           hits[l][k][clock] < MaxAsked, Allowed(l, k)
    PROVE  /\ hits' \in [Replicas \cup {Shared} -> [LimitKeys -> Counts]]
           /\ hits'[l][k] = [hits[l][k] EXCEPT ![clock] = @ + 1]
           /\ hits' # hits
           /\ \A m \in Replicas \cup {Shared}, j \in LimitKeys :
                 m # l \/ j # k => hits'[m][j] = hits[m][j]
<1>1. /\ hits \in [Replicas \cup {Shared} -> [LimitKeys -> Counts]]
      /\ clock \in Instants
  BY LimitsTypes
<1>2. PICK f \in Counts : f = hits[l][k]
  BY <1>1
<1>3. PICK g : g = [f EXCEPT ![clock] = @ + 1]
  OBVIOUS
<1>4. g \in Counts
  BY <1>1, <1>2, <1>3, OneMore
<1>5. hits' = [hits EXCEPT ![l] = [hits[l] EXCEPT ![k] = g]]
  BY <1>2, <1>3 DEF Allowed
<1>6. g # f
  <2>1. f[clock] \in Nat /\ g[clock] = f[clock] + 1
    BY <1>1, <1>2, <1>3, LimitsAssumption DEF Counts
  <2>2. QED
    BY <2>1
<1>7. QED
  BY <1>1, <1>2, <1>3, <1>4, <1>5, <1>6

LEMMA LimitNumbers ==
    ASSUME LimitsTypeOK
    PROVE  /\ asked \in Nat /\ clock \in Nat
           /\ \A k \in LimitKeys : /\ bucket[k] \in WindowRow
                                   /\ bucket[k].count \in Nat
           /\ \A r \in Replicas, k \in LimitKeys : /\ windows[r][k] \in WindowRow
                                                   /\ windows[r][k].count \in Nat
           /\ \A l \in Replicas \cup {Shared}, k \in LimitKeys :
                 /\ hits[l][k] \in Counts
                 /\ \A t \in Instants : hits[l][k][t] \in Nat
<1>1. \A n \in 0..MaxAsked : n \in Nat
  BY LimitsAssumption
<1>2. \A w \in WindowRow : w.count \in Nat
  BY <1>1 DEF WindowRow
<1>3. \A f \in Counts, t \in Instants : f[t] \in Nat
  BY <1>1 DEF Counts
<1>4. QED
  BY <1>1, <1>2, <1>3, LimitsTypes DEF Instants

LEMMA LimitsStart == LimitsInit => LimitsInv
<1>1. SUFFICES ASSUME LimitsInit
               PROVE  LimitsInv
  OBVIOUS
<1>2. 0 \in Instants /\ 0 \in 0..MaxAsked /\ 0 \in 0..(MaxTime + Window)
  BY LimitsAssumption DEF Instants
<1>3. NoWindow \in WindowRow /\ NoWindow.count = 0
  BY <1>2 DEF NoWindow, WindowRow
<1>4. Pending = {} /\ Local = {}
  BY <1>1, NotLimitedRow DEF LimitsInit, Pending, Local
<1>5. \A r \in Replicas : Known(windows[r]) = {}
  BY <1>1, <1>3 DEF LimitsInit, Known
<1>6. Cardinality({}) = 0 /\ IsFiniteSet({})
  BY FS_EmptySet
<1>7. \A l \in Replicas \cup {Shared}, k \in LimitKeys :
          /\ hits[l][k] \in Counts
          /\ \A t \in Instants : hits[l][k][t] = 0
  BY <1>1, <1>2 DEF LimitsInit, Counts
<1>8. LimitsTypeOK
  <2>1. /\ windows \in [Replicas -> [LimitKeys -> WindowRow]]
        /\ bucket \in [LimitKeys -> WindowRow]
        /\ limited \in [LimitCalls -> CallRows]
    BY <1>1, <1>3, NotLimitedRow DEF LimitsInit
  <2>2. hits \in [Replicas \cup {Shared} -> [LimitKeys -> Counts]]
    BY <1>1, <1>2 DEF LimitsInit, Counts
  <2>3. \A r \in Replicas : Cardinality(Known(windows[r])) <= MaxKeys
    BY <1>5, <1>6, LimitsAssumption
  <2>4. store \in {"redis", "postgres", "none"} /\ clock \in Instants /\ asked \in 0..MaxAsked
    BY <1>1, <1>2 DEF LimitsInit
  <2>5. QED
    BY <2>1, <2>2, <2>3, <2>4, LimitsTypes
<1>9. CallsKnown /\ KeysKnown
  BY <1>4, <1>5, <1>6 DEF CallsKnown, KeysKnown
<1>10. CallsCounted
  BY <1>1, <1>3, <1>4, <1>6, <1>7 DEF CallsCounted, LimitsInit
<1>11. NothingAhead
  BY <1>7 DEF NothingAhead
<1>12. WindowsFit
  BY <1>1, <1>3 DEF WindowsFit, WindowFits, LimitsInit
<1>13. \A l \in Replicas \cup {Shared}, k \in LimitKeys : SpansFit(hits[l][k])
  <2>1. SUFFICES ASSUME NEW l \in Replicas \cup {Shared}, NEW k \in LimitKeys, NEW S
                 PROVE  CountIn(hits[l][k], S) <= 2 * Limit
    BY DEF SpansFit
  <2>2. AllowedIn(hits[l][k], S) = {}
    BY <1>7, LimitsAssumption DEF AllowedIn
  <2>3. QED
    BY <1>6, <2>2, LimitsAssumption DEF CountIn
<1>14. RedisFits
  BY <1>1, <1>3, <1>7, <1>13 DEF RedisFits, BucketFits, LimitsInit
<1>15. QED
  BY <1>8, <1>9, <1>10, <1>11, <1>12, <1>14 DEF LimitsInv

(* A count that grew by i still leaves room for the calls under way.       *)
LEMMA RoomLeft ==
    ASSUME NEW h \in Nat, NEW g \in Nat, NEW i \in Nat,
           NEW p \in Nat, NEW q \in Nat, NEW a \in Nat, NEW b \in Nat,
           h + p <= a, g <= h + i, q + a + i <= p + b
    PROVE  g + q <= b
OBVIOUS

(* Calls begin and end, and are counted by the replicas (i) or by what     *)
(* they share (j).                                                         *)
LEMMA CountedUp ==
    ASSUME LimitsTypeOK, CallsCounted, NEW i \in Nat, NEW j \in Nat, asked' \in Nat,
           IsFiniteSet(Pending'), Cardinality(Pending') \in Nat, Cardinality(Local') \in Nat,
           Cardinality(Pending) \in Nat, Cardinality(Local) \in Nat,
           Cardinality(Pending') + asked + j <= Cardinality(Pending) + asked',
           Cardinality(Local') + asked + i <= Cardinality(Local) + asked',
           \A k \in LimitKeys :
              /\ bucket'[k].count \in Nat /\ bucket'[k].count <= bucket[k].count + j
              /\ \A t \in Instants :
                    /\ hits'[Shared][k][t] \in Nat
                    /\ hits'[Shared][k][t] <= hits[Shared][k][t] + j,
           \A r \in Replicas, k \in LimitKeys :
              /\ windows'[r][k].count \in Nat
              /\ windows'[r][k].count <= windows[r][k].count + i
              /\ \A t \in Instants :
                    /\ hits'[r][k][t] \in Nat
                    /\ hits'[r][k][t] <= hits[r][k][t] + i
    PROVE  CallsCounted'
<1>1. PICK p \in Nat, l \in Nat : p = Cardinality(Pending) /\ l = Cardinality(Local)
  OBVIOUS
<1>2. PICK q \in Nat, m \in Nat : q = Cardinality(Pending') /\ m = Cardinality(Local')
  OBVIOUS
<1>3. PICK a \in Nat, b \in Nat : a = asked /\ b = asked'
  BY LimitNumbers
<1>4. q + a + j <= p + b
  BY <1>1, <1>2, <1>3
<1>5. m + a + i <= l + b
  BY <1>1, <1>2, <1>3
<1>6. ASSUME NEW k \in LimitKeys
      PROVE  bucket'[k].count + q <= b
  <2>1. PICK h \in Nat, g \in Nat : h = bucket[k].count /\ g = bucket'[k].count
    BY LimitNumbers
  <2>2. h + p <= a /\ g <= h + j
    BY <1>1, <1>3, <2>1 DEF CallsCounted
  <2>3. g + q <= b
    BY ONLY <1>4, <2>2, h \in Nat, g \in Nat, j \in Nat, p \in Nat, q \in Nat, a \in Nat,
            b \in Nat, RoomLeft
  <2>4. QED
    BY <2>1, <2>3
<1>7. ASSUME NEW k \in LimitKeys, NEW t \in Instants
      PROVE  hits'[Shared][k][t] + q <= b
  <2>1. PICK h \in Nat, g \in Nat : h = hits[Shared][k][t] /\ g = hits'[Shared][k][t]
    BY LimitNumbers
  <2>2. h + p <= a /\ g <= h + j
    BY <1>1, <1>3, <2>1 DEF CallsCounted
  <2>3. g + q <= b
    BY ONLY <1>4, <2>2, h \in Nat, g \in Nat, j \in Nat, p \in Nat, q \in Nat, a \in Nat,
            b \in Nat, RoomLeft
  <2>4. QED
    BY <2>1, <2>3
<1>8. ASSUME NEW r \in Replicas, NEW k \in LimitKeys
      PROVE  windows'[r][k].count + m <= b
  <2>1. PICK h \in Nat, g \in Nat : h = windows[r][k].count /\ g = windows'[r][k].count
    BY LimitNumbers
  <2>2. h + l <= a /\ g <= h + i
    BY <1>1, <1>3, <2>1 DEF CallsCounted
  <2>3. g + m <= b
    BY ONLY <1>5, <2>2, h \in Nat, g \in Nat, i \in Nat, l \in Nat, m \in Nat, a \in Nat,
            b \in Nat, RoomLeft
  <2>4. QED
    BY <2>1, <2>3
<1>9. ASSUME NEW r \in Replicas, NEW k \in LimitKeys, NEW t \in Instants
      PROVE  hits'[r][k][t] + m <= b
  <2>1. PICK h \in Nat, g \in Nat : h = hits[r][k][t] /\ g = hits'[r][k][t]
    BY LimitNumbers
  <2>2. h + l <= a /\ g <= h + i
    BY <1>1, <1>3, <2>1 DEF CallsCounted
  <2>3. g + m <= b
    BY ONLY <1>5, <2>2, h \in Nat, g \in Nat, i \in Nat, l \in Nat, m \in Nat, a \in Nat,
            b \in Nat, RoomLeft
  <2>4. QED
    BY <2>1, <2>3
<1>10. QED
  BY <1>2, <1>3, <1>6, <1>7, <1>8, <1>9 DEF CallsCounted

(* The same where nothing is counted, but a replica may forget.            *)
LEMMA CountedOn ==
    ASSUME LimitsTypeOK, CallsCounted, asked' \in Nat,
           IsFiniteSet(Pending'), Cardinality(Pending') \in Nat, Cardinality(Local') \in Nat,
           Cardinality(Pending) \in Nat, Cardinality(Local) \in Nat,
           Cardinality(Pending') + asked <= Cardinality(Pending) + asked',
           Cardinality(Local') + asked <= Cardinality(Local) + asked',
           bucket' = bucket, hits' = hits,
           \A r \in Replicas, k \in LimitKeys :
              /\ windows'[r][k].count \in Nat
              /\ windows'[r][k].count <= windows[r][k].count
    PROVE  CallsCounted'
<1>1. \A n \in Nat : n + 0 = n
  OBVIOUS
<1>2. asked \in Nat /\ asked + 0 = asked
  BY LimitNumbers
<1>3. /\ Cardinality(Pending') + asked + 0 <= Cardinality(Pending) + asked'
      /\ Cardinality(Local') + asked + 0 <= Cardinality(Local) + asked'
  BY <1>2
<1>4. \A k \in LimitKeys :
          /\ bucket'[k].count \in Nat /\ bucket'[k].count <= bucket[k].count + 0
          /\ \A t \in Instants :
                /\ hits'[Shared][k][t] \in Nat
                /\ hits'[Shared][k][t] <= hits[Shared][k][t] + 0
  BY LimitNumbers
<1>5. \A r \in Replicas, k \in LimitKeys :
          /\ windows'[r][k].count \in Nat
          /\ windows'[r][k].count <= windows[r][k].count + 0
          /\ \A t \in Instants :
                /\ hits'[r][k][t] \in Nat
                /\ hits'[r][k][t] <= hits[r][k][t] + 0
  BY LimitNumbers
<1>6. QED
  BY <1>3, <1>4, <1>5, CountedUp

(* The counters stand. *)
LEMMA SameRedis ==
    ASSUME RedisFits, UNCHANGED <<store, clock, bucket>>,
           \A k \in LimitKeys : hits'[Shared][k] = hits[Shared][k]
    PROVE  RedisFits'
<1>1. SUFFICES ASSUME store = "redis", NEW k \in LimitKeys
               PROVE  /\ BucketFits(bucket[k], hits[Shared][k], clock)'
                      /\ SpansFit(hits[Shared][k])'
  BY DEF RedisFits
<1>2. PICK b, f, n : b = bucket[k] /\ f = hits[Shared][k] /\ n = clock
  OBVIOUS
<1>3. bucket'[k] = b /\ hits'[Shared][k] = f /\ clock' = n
  BY <1>2
<1>4. BucketFits(b, f, n)
  BY <1>1, <1>2 DEF RedisFits
<1>5. BucketFits(bucket[k], hits[Shared][k], clock)'
  BY <1>3, <1>4 DEF BucketFits, CountIn, AllowedIn
<1>6. SpansFit(hits[Shared][k])'
  BY <1>1 DEF RedisFits, SpansFit, CountIn, AllowedIn
<1>7. QED
  BY <1>5, <1>6

LEMMA SameBucket ==
    ASSUME NothingAhead, RedisFits, UNCHANGED <<store, clock, bucket, hits>>
    PROVE  NothingAhead' /\ RedisFits'
<1>1. NothingAhead'
  BY DEF NothingAhead
<1>2. QED
  BY <1>1, SameRedis

LEMMA SameWindows ==
    ASSUME KeysKnown, WindowsFit, UNCHANGED <<clock, windows>>,
           \A r \in Replicas, k \in LimitKeys : hits'[r][k] = hits[r][k]
    PROVE  KeysKnown' /\ WindowsFit'
<1>1. KeysKnown'
  BY DEF KeysKnown, Known
<1>2. SUFFICES ASSUME NEW r \in Replicas, NEW k \in LimitKeys
               PROVE  WindowFits(windows[r][k], hits[r][k], clock)'
  BY <1>1 DEF WindowsFit
<1>3. PICK w, f, n : w = windows[r][k] /\ f = hits[r][k] /\ n = clock
  OBVIOUS
<1>4. windows'[r][k] = w /\ hits'[r][k] = f /\ clock' = n
  BY <1>3
<1>5. WindowFits(w, f, n)
  BY <1>3 DEF WindowsFit
<1>6. QED
  BY <1>4, <1>5 DEF WindowFits, CountIn, AllowedIn

LEMMA ReadingHolds ==
    ASSUME LimitsInv, NEW c \in LimitCalls, NEW r \in Replicas, NEW k \in LimitKeys,
           ReadClock(c, r, k)
    PROVE  LimitsInv'
<1>1. LimitsTypeOK /\ CallsKnown /\ CallsCounted /\ IsFiniteSet(Pending)
  BY DEF LimitsInv, CallsCounted
<1>2. PICK x : x = [pc |-> "local", replica |-> r, key |-> k, at |-> clock]
  OBVIOUS
<1>3. clock \in Instants /\ asked \in Nat /\ asked' = asked + 1 /\ asked' \in 0..MaxAsked
  BY <1>1, LimitNumbers, LimitsTypes, LimitsAssumption DEF ReadClock
<1>4. /\ x \in CallRows /\ x.pc = "local" /\ x.replica \in Replicas /\ x.at <= clock
      /\ limited' = [limited EXCEPT ![c] = x] /\ limited[c].pc = "idle"
      /\ UNCHANGED <<store, clock, windows, bucket, hits>>
  BY <1>1, <1>2, <1>3, LimitNumbers DEF CallRows, ReadClock
<1>5. /\ limited' \in [LimitCalls -> CallRows]
      /\ CallsKnown'
      /\ IsFiniteSet(Pending')
      /\ Cardinality(Pending) \in Nat /\ Cardinality(Local) \in Nat
      /\ Cardinality(Pending') = Cardinality(Pending) + 1
      /\ Cardinality(Local') = Cardinality(Local) + 1
  BY <1>1, <1>4, CallMoves
<1>6. CallsCounted'
  BY <1>1, <1>3, <1>4, <1>5, CountedOn, LimitNumbers
<1>7. LimitsTypeOK'
  <2>1. \A q \in Replicas : Cardinality(Known(windows'[q])) <= MaxKeys
    BY <1>1, <1>4, LimitsTypes
  <2>2. QED
    BY <1>1, <1>3, <1>4, <1>5, <2>1, LimitsTypes DEF LimitsTypeOK, CallRows, Counts, Known
<1>8. KeysKnown' /\ NothingAhead' /\ WindowsFit' /\ RedisFits'
  BY <1>4, SameBucket, SameWindows DEF LimitsInv
<1>9. QED
  BY <1>5, <1>6, <1>7, <1>8 DEF LimitsInv

(* A call is refused. *)
LEMMA RefusalHolds ==
    ASSUME LimitsInv, NEW c \in LimitCalls, TakeRefused(c) \/ SharedFails(c)
    PROVE  LimitsInv'
<1>1. LimitsTypeOK /\ CallsKnown /\ CallsCounted /\ IsFiniteSet(Pending)
  BY DEF LimitsInv, CallsCounted
<1>2. /\ limited' = [limited EXCEPT ![c] = NotLimited] /\ limited[c].pc # "idle"
      /\ UNCHANGED <<store, clock, windows, bucket, hits, asked>>
  BY DEF TakeRefused, SharedFails, Answered
<1>3. PICK p \in Nat, l \in Nat : p = Cardinality(Pending) /\ l = Cardinality(Local)
  <2>1. Cardinality(Pending) \in Nat /\ Cardinality(Local) \in Nat
    BY <1>1, <1>2, NotLimitedRow, CallMoves
  <2>2. QED
    BY <2>1
<1>4. /\ limited' \in [LimitCalls -> CallRows]
      /\ CallsKnown'
      /\ IsFiniteSet(Pending')
      /\ Cardinality(Pending') = p - 1
      /\ Cardinality(Local') = IF limited[c].pc = "local" THEN l - 1 ELSE l
  <2>1. /\ limited' \in [LimitCalls -> CallRows]
        /\ CallsKnown'
        /\ IsFiniteSet(Pending')
        /\ Cardinality(Pending') = (p - 1) + 0
        /\ Cardinality(Local') = (IF limited[c].pc = "local" THEN l - 1 ELSE l) + 0
    BY <1>1, <1>2, <1>3, NotLimitedRow, CallMoves
  <2>2. QED
    BY <2>1
<1>5. Cardinality(Pending') \in Nat /\ Cardinality(Pending') <= p
  BY <1>3, <1>4, FS_CardinalityType
<1>6. Cardinality(Local') \in Nat /\ Cardinality(Local') <= l
  <2>1. Local' \in SUBSET Pending'
    BY DEF Local, Pending
  <2>2. Cardinality(Local') \in Nat
    BY ONLY <1>4, <2>1, FS_Subset, FS_CardinalityType
  <2>3. QED
    BY <1>3, <1>4, <2>2
<1>7. CallsCounted'
  <2>1. asked' = asked /\ asked \in Nat
    BY <1>1, <1>2, LimitNumbers
  <2>2. /\ Cardinality(Pending') + asked <= Cardinality(Pending) + asked'
        /\ Cardinality(Local') + asked <= Cardinality(Local) + asked'
    BY <1>3, <1>5, <1>6, <2>1
  <2>3. \A r \in Replicas, k \in LimitKeys :
            /\ windows'[r][k].count \in Nat
            /\ windows'[r][k].count <= windows[r][k].count
    BY <1>1, <1>2, LimitNumbers
  <2>4. QED
    BY <1>1, <1>2, <1>3, <1>4, <1>5, <1>6, <2>1, <2>2, <2>3, CountedOn
<1>8. LimitsTypeOK'
  <2>1. \A q \in Replicas : Cardinality(Known(windows'[q])) <= MaxKeys
    BY <1>1, <1>2, LimitsTypes
  <2>2. QED
    BY <1>1, <1>2, <1>4, <2>1, LimitsTypes DEF LimitsTypeOK, CallRows, Counts, Known
<1>9. KeysKnown' /\ NothingAhead' /\ WindowsFit' /\ RedisFits'
  BY <1>2, SameBucket, SameWindows DEF LimitsInv
<1>10. QED
  BY <1>4, <1>7, <1>8, <1>9 DEF LimitsInv

LEMMA RestartHolds ==
    ASSUME LimitsInv, NEW r \in Replicas, RestartReplica(r)
    PROVE  LimitsInv'
<1>1. LimitsTypeOK /\ CallsKnown /\ CallsCounted /\ IsFiniteSet(Pending)
  BY DEF LimitsInv, CallsCounted
<1>2. UNCHANGED <<store, clock, bucket, hits, asked>>
  BY DEF RestartReplica
<1>3. NoWindow \in WindowRow /\ NoWindow.count = 0
  BY LimitsAssumption DEF NoWindow, WindowRow, Instants
<1>4. /\ windows' \in [Replicas -> [LimitKeys -> WindowRow]]
      /\ \A q \in Replicas, k \in LimitKeys :
            windows'[q][k] = IF q = r THEN NoWindow ELSE windows[q][k]
      /\ \A q \in Replicas : q # r => windows'[q] = windows[q]
  <2>1. windows' = [windows EXCEPT ![r] = [k \in LimitKeys |-> NoWindow]]
    BY DEF RestartReplica
  <2>2. windows \in [Replicas -> [LimitKeys -> WindowRow]]
    BY <1>1, LimitsTypes
  <2>3. QED
    BY <1>3, <2>1, <2>2
<1>5. /\ limited' \in [LimitCalls -> CallRows]
      /\ \A c \in LimitCalls :
            limited'[c] = IF limited[c].replica = r THEN NotLimited ELSE limited[c]
  BY <1>1, NotLimitedRow, LimitsTypes DEF RestartReplica
<1>6. Pending' \in SUBSET Pending /\ Local' \in SUBSET Local /\ Local \in SUBSET Pending
  BY <1>5, NotLimitedRow DEF Pending, Local
<1>7. CallsKnown'
  <2>1. SUFFICES ASSUME NEW c \in Pending'
                 PROVE  limited'[c].replica \in Replicas /\ limited'[c].at <= clock
    BY <1>2 DEF CallsKnown
  <2>2. c \in Pending /\ c \in LimitCalls
    BY <1>6 DEF Pending
  <2>3. limited'[c] = limited[c]
    BY <1>5, <2>2, NotLimitedRow DEF Pending
  <2>4. QED
    BY <1>1, <2>2, <2>3 DEF CallsKnown
<1>8. IsFiniteSet(Local)
  BY ONLY <1>1, <1>6, FS_Subset
<1>9. /\ IsFiniteSet(Pending') /\ Cardinality(Pending') <= Cardinality(Pending)
      /\ Cardinality(Local') <= Cardinality(Local) /\ IsFiniteSet(Local')
  BY ONLY <1>1, <1>6, <1>8, FS_Subset
<1>10. /\ Cardinality(Pending) \in Nat /\ Cardinality(Local) \in Nat
       /\ Cardinality(Pending') \in Nat /\ Cardinality(Local') \in Nat
  BY ONLY <1>1, <1>8, <1>9, FS_CardinalityType
<1>11. CallsCounted'
  <2>1. asked' = asked /\ asked \in Nat
    BY <1>1, <1>2, LimitNumbers
  <2>2. /\ Cardinality(Pending') + asked <= Cardinality(Pending) + asked'
        /\ Cardinality(Local') + asked <= Cardinality(Local) + asked'
    BY <1>9, <1>10, <2>1
  <2>3. \A q \in Replicas, k \in LimitKeys :
            /\ windows'[q][k].count \in Nat
            /\ windows'[q][k].count <= windows[q][k].count
    <3>1. SUFFICES ASSUME NEW q \in Replicas, NEW k \in LimitKeys
                   PROVE  /\ windows'[q][k].count \in Nat
                          /\ windows'[q][k].count <= windows[q][k].count
      OBVIOUS
    <3>2. windows[q][k].count \in Nat
      BY <1>1, LimitNumbers
    <3>3. QED
      BY <1>3, <1>4, <3>2
  <2>4. QED
    BY <1>1, <1>2, <1>9, <1>10, <2>1, <2>2, <2>3, CountedOn
<1>12. \A q \in Replicas : Known(windows'[q]) = IF q = r THEN {} ELSE Known(windows[q])
  BY <1>3, <1>4 DEF Known
<1>13. KeysKnown'
  BY <1>12, FS_EmptySet DEF LimitsInv, KeysKnown, Known
<1>14. LimitsTypeOK'
  <2>1. \A q \in Replicas : Cardinality(Known(windows'[q])) <= MaxKeys
    BY <1>1, <1>12, FS_EmptySet, LimitsTypes, LimitsAssumption
  <2>2. QED
    BY <1>1, <1>2, <1>4, <1>5, <2>1, LimitsTypes DEF LimitsTypeOK, CallRows, Counts, Known
<1>15. WindowsFit'
  <2>1. SUFFICES ASSUME NEW q \in Replicas, NEW k \in LimitKeys
                 PROVE  WindowFits(windows[q][k], hits[q][k], clock)'
    BY DEF WindowsFit
  <2>2. WindowFits(windows[q][k], hits[q][k], clock)
    BY DEF LimitsInv, WindowsFit
  <2>3. windows'[q][k] = windows[q][k] \/ windows'[q][k].count = 0
    BY <1>3, <1>4
  <2>4. CASE windows'[q][k] = windows[q][k]
    BY <1>2, <2>2, <2>4 DEF WindowFits, CountIn, AllowedIn
  <2>5. CASE windows'[q][k].count = 0
    BY <2>5 DEF WindowFits
  <2>6. QED
    BY <2>3, <2>4, <2>5
<1>16. NothingAhead' /\ RedisFits'
  BY <1>2, SameBucket DEF LimitsInv
<1>17. QED
  BY <1>7, <1>11, <1>13, <1>14, <1>15, <1>16 DEF LimitsInv

LEMMA TickHolds ==
    ASSUME LimitsInv, ClockTicks
    PROVE  LimitsInv'
<1>1. LimitsTypeOK /\ CallsKnown /\ CallsCounted /\ NothingAhead
  BY DEF LimitsInv
<1>2. /\ clock' = clock + 1 /\ clock < MaxTime
      /\ UNCHANGED <<store, windows, bucket, limited, hits, asked>>
  BY DEF ClockTicks
<1>3. clock \in Instants /\ clock' \in Instants
  BY <1>1, <1>2, LimitsTypes, LimitsAssumption DEF Instants
<1>4. clock \in Nat
  BY <1>1, LimitNumbers
<1>5. LimitsTypeOK'
  <2>1. \A q \in Replicas : Cardinality(Known(windows'[q])) <= MaxKeys
    BY <1>1, <1>2, LimitsTypes
  <2>2. QED
    BY <1>1, <1>2, <1>3, <2>1, LimitsTypes DEF LimitsTypeOK, CallRows, Counts, Known
<1>6. CallsKnown' /\ CallsCounted' /\ KeysKnown'
  <2>1. CallsKnown'
    <3>1. SUFFICES ASSUME NEW c \in Pending
                   PROVE  limited[c].replica \in Replicas /\ limited[c].at <= clock + 1
      BY <1>2 DEF CallsKnown, Pending
    <3>2. limited[c] \in CallRows
      BY <1>1, LimitsTypes DEF Pending
    <3>3. limited[c].at \in Nat
      BY <3>2, LimitsAssumption DEF CallRows, Instants
    <3>4. limited[c].replica \in Replicas /\ limited[c].at <= clock
      BY <1>1 DEF CallsKnown
    <3>5. QED
      BY <1>4, <3>3, <3>4
  <2>2. CallsCounted'
    BY <1>1, <1>2 DEF CallsCounted, Pending, Local
  <2>3. KeysKnown'
    BY <1>2 DEF LimitsInv, KeysKnown, Known
  <2>4. QED
    BY <2>1, <2>2, <2>3
<1>7. NothingAhead'
  BY <1>1, <1>2, <1>4, LimitsAssumption DEF NothingAhead, Instants
<1>8. ASSUME NEW l \in Replicas \cup {Shared}, NEW k \in LimitKeys, NEW s \in Nat
      PROVE  CountIn(hits[l][k], s..(clock + 1)) = CountIn(hits[l][k], s..clock)
  <2>1. PICK f \in Counts : f = hits[l][k]
    BY <1>1, LimitNumbers
  <2>2. \A t \in Instants \cap (s..(clock + 1)) : f[t] # 0 => t \in s..clock
    BY <1>1, <1>4, <2>1, LimitsAssumption DEF NothingAhead, Instants
  <2>3. \A t \in Instants \cap (s..clock) : f[t] # 0 => t \in s..(clock + 1)
    BY <1>4, LimitsAssumption DEF Instants
  <2>4. CountIn(f, s..(clock + 1)) <= CountIn(f, s..clock)
    BY <2>2, WiderSpan
  <2>5. CountIn(f, s..clock) <= CountIn(f, s..(clock + 1))
    BY <2>3, WiderSpan
  <2>6. CountIn(f, s..clock) \in Nat /\ CountIn(f, s..(clock + 1)) \in Nat
    BY AllowedFinite
  <2>7. QED
    BY <2>1, <2>4, <2>5, <2>6
<1>9. WindowsFit'
  <2>1. SUFFICES ASSUME NEW r \in Replicas, NEW k \in LimitKeys
                 PROVE  WindowFits(windows[r][k], hits[r][k], clock + 1)
    BY <1>2 DEF WindowsFit, WindowFits, CountIn, AllowedIn
  <2>2. WindowFits(windows[r][k], hits[r][k], clock)
    BY DEF LimitsInv, WindowsFit
  <2>3. windows[r][k].started \in Nat
    BY <1>1, LimitNumbers, LimitsAssumption DEF WindowRow, Instants
  <2>4. QED
    BY <1>4, <1>8, <2>2, <2>3 DEF WindowFits
<1>10. RedisFits'
  <2>1. SUFFICES ASSUME store = "redis", NEW k \in LimitKeys
                 PROVE  /\ BucketFits(bucket[k], hits[Shared][k], clock)'
                        /\ SpansFit(hits[Shared][k])'
    BY <1>2 DEF RedisFits
  <2>2. BucketFits(bucket[k], hits[Shared][k], clock) /\ SpansFit(hits[Shared][k])
    BY <2>1 DEF LimitsInv, RedisFits
  <2>3. bucket[k].started \in Nat
    BY <1>1, LimitNumbers, LimitsAssumption DEF WindowRow, Instants
  <2>4. BucketFits(bucket[k], hits[Shared][k], clock + 1)
    BY <1>4, <1>8, <2>2, <2>3 DEF BucketFits
  <2>5. BucketFits(bucket[k], hits[Shared][k], clock)'
    BY <1>2, <2>4 DEF BucketFits, CountIn, AllowedIn
  <2>6. SpansFit(hits[Shared][k])'
    BY <1>2, <2>2 DEF SpansFit, CountIn, AllowedIn
  <2>7. QED
    BY <2>5, <2>6
<1>11. QED
  BY <1>5, <1>6, <1>7, <1>9, <1>10 DEF LimitsInv

(* A call under way can still be counted. *)
LEMMA RoomForLocal ==
    ASSUME LimitsInv, NEW c \in LimitCalls, limited[c].pc = "local",
           NEW r \in Replicas, NEW k \in LimitKeys
    PROVE  /\ windows[r][k].count + 1 \in 0..MaxAsked
           /\ \A t \in Instants : hits[r][k][t] < MaxAsked
<1>1. LimitsTypeOK /\ CallsKnown /\ CallsCounted /\ IsFiniteSet(Pending)
  BY DEF LimitsInv, CallsCounted
<1>2. Local \in SUBSET Pending /\ c \in Local
  BY <1>1 DEF Local, Pending
<1>3. IsFiniteSet(Local)
  BY ONLY <1>1, <1>2, FS_Subset
<1>4. Local # {} /\ Cardinality(Local) \in Nat /\ Cardinality(Local) # 0
  BY ONLY <1>2, <1>3, FS_CardinalityType, FS_EmptySet
<1>5. PICK n \in Nat, a \in Nat : n = Cardinality(Local) /\ a = asked /\ n # 0
  BY <1>1, <1>4, LimitNumbers
<1>6. a <= MaxAsked
  BY <1>1, <1>5, LimitsTypes, LimitsAssumption
<1>7. windows[r][k].count + 1 \in 0..MaxAsked
  <2>1. windows[r][k].count \in Nat /\ windows[r][k].count + n <= a
    BY <1>1, <1>5, LimitNumbers DEF CallsCounted
  <2>2. QED
    BY <1>5, <1>6, <2>1, LimitsAssumption
<1>8. ASSUME NEW t \in Instants
      PROVE  hits[r][k][t] < MaxAsked
  <2>1. PICK h \in Nat : h = hits[r][k][t]
    BY <1>1, LimitNumbers
  <2>2. h + n <= a
    BY <1>1, <1>5, <2>1 DEF CallsCounted
  <2>3. QED
    BY <1>5, <1>6, <2>1, <2>2, LimitsAssumption
<1>9. QED
  BY <1>7, <1>8

LEMMA RoomForShared ==
    ASSUME LimitsInv, NEW c \in LimitCalls, limited[c].pc = "shared", NEW k \in LimitKeys
    PROVE  /\ bucket[k].count + 1 \in 0..MaxAsked
           /\ \A t \in Instants : hits[Shared][k][t] < MaxAsked
<1>1. LimitsTypeOK /\ CallsKnown /\ CallsCounted /\ IsFiniteSet(Pending)
  BY DEF LimitsInv, CallsCounted
<1>2. c \in Pending
  BY <1>1 DEF Pending
<1>3. Pending # {} /\ Cardinality(Pending) \in Nat /\ Cardinality(Pending) # 0
  BY ONLY <1>1, <1>2, FS_CardinalityType, FS_EmptySet
<1>4. PICK n \in Nat, a \in Nat : n = Cardinality(Pending) /\ a = asked /\ n # 0
  BY <1>1, <1>3, LimitNumbers
<1>5. a <= MaxAsked
  BY <1>1, <1>4, LimitsTypes, LimitsAssumption
<1>6. bucket[k].count + 1 \in 0..MaxAsked
  <2>1. bucket[k].count \in Nat /\ bucket[k].count + n <= a
    BY <1>1, <1>4, LimitNumbers DEF CallsCounted
  <2>2. QED
    BY <1>4, <1>5, <2>1, LimitsAssumption
<1>7. ASSUME NEW t \in Instants
      PROVE  hits[Shared][k][t] < MaxAsked
  <2>1. PICK h \in Nat : h = hits[Shared][k][t]
    BY <1>1, LimitNumbers
  <2>2. h + n <= a
    BY <1>1, <1>4, <2>1 DEF CallsCounted
  <2>3. QED
    BY <1>4, <1>5, <2>1, <2>2, LimitsAssumption
<1>8. QED
  BY <1>6, <1>7

(* Evicting makes room for one key. *)
LEMMA EvictedMakesRoom ==
    ASSUME NEW entries \in [LimitKeys -> WindowRow], IsFiniteSet(Known(entries)),
           Cardinality(Known(entries)) <= MaxKeys,
           NEW k \in LimitKeys, NEW rest \in Evicted(entries, k)
    PROVE  /\ rest \in [LimitKeys -> WindowRow]
           /\ \A e \in LimitKeys : rest[e] = entries[e] \/ rest[e] = NoWindow
           /\ IsFiniteSet(Known(rest) \cup {k})
           /\ Cardinality(Known(rest) \cup {k}) <= MaxKeys
<1>1. NoWindow \in WindowRow /\ NoWindow.count = 0
  BY LimitsAssumption DEF NoWindow, WindowRow, Instants
<1>2. Cardinality(Known(entries)) \in Nat
  BY FS_CardinalityType
<1>3. CASE k \in Known(entries)
  <2>1. rest = entries
    BY <1>3 DEF Evicted, Known
  <2>2. Known(rest) \cup {k} = Known(entries)
    BY <1>3, <2>1
  <2>3. QED
    BY <2>1, <2>2
<1>4. CASE k \notin Known(entries) /\ Cardinality(Known(entries)) < MaxKeys
  <2>1. rest = entries
    BY <1>4 DEF Evicted, Known
  <2>2. /\ IsFiniteSet(Known(entries) \cup {k})
        /\ Cardinality(Known(entries) \cup {k}) = Cardinality(Known(entries)) + 1
    BY ONLY <1>4, IsFiniteSet(Known(entries)), FS_AddElement
  <2>3. QED
    BY <1>2, <1>4, <2>1, <2>2, LimitsAssumption
<1>5. CASE k \notin Known(entries) /\ ~(Cardinality(Known(entries)) < MaxKeys)
  <2>1. PICK e \in Known(entries) : rest = [entries EXCEPT ![e] = NoWindow]
    BY <1>5 DEF Evicted, Known
  <2>2. e \in LimitKeys
    BY DEF Known
  <2>3. /\ rest \in [LimitKeys -> WindowRow]
        /\ \A o \in LimitKeys : rest[o] = IF o = e THEN NoWindow ELSE entries[o]
    BY <1>1, <2>1, <2>2
  <2>4. Known(rest) = Known(entries) \ {e}
    BY <1>1, <2>3 DEF Known
  <2>5. /\ IsFiniteSet(Known(entries) \ {e})
        /\ Cardinality(Known(entries) \ {e}) = Cardinality(Known(entries)) - 1
    BY ONLY <2>1, IsFiniteSet(Known(entries)), FS_RemoveElement
  <2>6. k \notin Known(entries) \ {e}
    BY <1>5
  <2>7. /\ IsFiniteSet((Known(entries) \ {e}) \cup {k})
        /\ Cardinality((Known(entries) \ {e}) \cup {k}) = Cardinality(Known(entries) \ {e}) + 1
    BY ONLY <2>5, <2>6, FS_AddElement
  <2>8. Cardinality((Known(entries) \ {e}) \cup {k}) <= MaxKeys
    BY <1>2, <2>5, <2>7, LimitsAssumption
  <2>9. QED
    BY <2>3, <2>4, <2>7, <2>8
<1>6. QED
  BY <1>3, <1>4, <1>5

(* What Take does to the entries of a replica. *)
EntriesTaken(entries, new, k, at) ==
    /\ new \in [LimitKeys -> WindowRow]
    /\ IsFiniteSet(Known(new)) /\ Cardinality(Known(new)) <= MaxKeys
    /\ \A e \in LimitKeys : e # k => new[e] = entries[e] \/ new[e] = NoWindow
    /\ \/ new[k] = Fresh(at)
       \/ entries[k].count # 0 /\ new[k] = [entries[k] EXCEPT !.count = @ + 1]

LEMMA WindowTaken ==
    ASSUME LimitsInv, NEW c \in LimitCalls, NEW reread \in BOOLEAN, Take(c, reread),
           NEW r \in Replicas, NEW k \in LimitKeys, NEW at \in Instants,
           r = limited[c].replica, k = limited[c].key, at = limited[c].at
    PROVE  \E new : /\ windows' = [windows EXCEPT ![r] = new]
                    /\ EntriesTaken(windows[r], new, k, at)
<1>1. LimitsTypeOK /\ KeysKnown
  BY DEF LimitsInv
<1>2. PICK E \in [LimitKeys -> WindowRow] : E = windows[r]
  BY <1>1, LimitsTypes
<1>3. IsFiniteSet(Known(E)) /\ Cardinality(Known(E)) <= MaxKeys
  BY <1>1, <1>2, LimitsTypes DEF KeysKnown
<1>4. limited[c].pc = "local"
  BY DEF Take
<1>5. /\ E[k] \in WindowRow /\ E[k].count \in Nat /\ E[k].count + 1 \in 0..MaxAsked
      /\ 1 \in 0..MaxAsked /\ windows \in [Replicas -> [LimitKeys -> WindowRow]]
  <2>1. E[k].count + 1 \in 0..MaxAsked /\ E[k].count \in Nat /\ E[k] \in WindowRow
    BY <1>1, <1>2, <1>4, RoomForLocal, LimitNumbers
  <2>2. 1 \in 0..MaxAsked
    BY <2>1, LimitsAssumption
  <2>3. QED
    BY <1>1, <2>1, <2>2, LimitsTypes
<1>6. CASE StartsAnew(E[k], at)
  <2>1. PICK rest \in Evicted(E, k) :
            windows' = [windows EXCEPT ![r] = [rest EXCEPT ![k] = Fresh(at)]]
    BY <1>2, <1>6 DEF Take
  <2>2. /\ rest \in [LimitKeys -> WindowRow]
        /\ \A e \in LimitKeys : rest[e] = E[e] \/ rest[e] = NoWindow
        /\ IsFiniteSet(Known(rest) \cup {k})
        /\ Cardinality(Known(rest) \cup {k}) <= MaxKeys
    BY <1>2, <1>3, EvictedMakesRoom
  <2>3. PICK N : N = [rest EXCEPT ![k] = Fresh(at)]
    OBVIOUS
  <2>4. Fresh(at) \in WindowRow /\ Fresh(at).count = 1
    BY <1>5, LimitsAssumption DEF Fresh, WindowRow, Instants
  <2>5. /\ N \in [LimitKeys -> WindowRow]
        /\ \A e \in LimitKeys : N[e] = IF e = k THEN Fresh(at) ELSE rest[e]
    BY <2>2, <2>3, <2>4
  <2>6. Known(N) = Known(rest) \cup {k}
    BY <2>4, <2>5 DEF Known
  <2>7. EntriesTaken(E, N, k, at)
    BY <2>2, <2>5, <2>6 DEF EntriesTaken
  <2>8. QED
    BY <1>2, <2>1, <2>3, <2>7
<1>7. CASE ~StartsAnew(E[k], at)
  <2>1. PICK row : row = [E[k] EXCEPT !.count = @ + 1]
    OBVIOUS
  <2>2. PICK N : N = [E EXCEPT ![k] = row]
    OBVIOUS
  <2>3. windows' = [windows EXCEPT ![r][k].count = @ + 1]
    BY <1>2, <1>7 DEF Take
  <2>4. windows' = [windows EXCEPT ![r] = N]
    BY <1>2, <1>5, <2>1, <2>2, <2>3
  <2>5. row \in WindowRow /\ row.count = E[k].count + 1
    BY <1>5, <2>1 DEF WindowRow
  <2>6. /\ N \in [LimitKeys -> WindowRow]
        /\ \A e \in LimitKeys : N[e] = IF e = k THEN row ELSE E[e]
    BY <1>2, <2>2, <2>5
  <2>7. E[k].count # 0
    BY <1>7 DEF StartsAnew
  <2>8. Known(N) = Known(E)
    <3>1. N[k].count > 0 /\ E[k].count > 0
      BY <1>5, <2>5, <2>6, <2>7
    <3>2. QED
      BY <2>6, <3>1 DEF Known
  <2>9. EntriesTaken(E, N, k, at)
    BY <1>3, <2>1, <2>6, <2>7, <2>8 DEF EntriesTaken
  <2>10. QED
    BY <1>2, <2>4, <2>9
<1>8. QED
  BY <1>6, <1>7

(* The call goes on to the shared store, or ends. *)
LEMMA CallTaken ==
    ASSUME LimitsInv, NEW c \in LimitCalls, NEW reread \in BOOLEAN, Take(c, reread)
    PROVE  \E x \in CallRows : /\ limited' = [limited EXCEPT ![c] = x]
                               /\ x.pc # "local"
                               /\ x.pc # "idle" => x.replica \in Replicas /\ x.at <= clock
<1>1. LimitsTypeOK /\ CallsKnown
  BY DEF LimitsInv
<1>2. PICK y \in CallRows : y = limited[c]
  BY <1>1, LimitsTypes
<1>3. y.pc = "local" /\ y.replica \in Replicas /\ y.at <= clock
  BY <1>1, <1>2 DEF Take, CallsKnown, Pending
<1>4. clock \in Instants /\ clock <= clock
  BY <1>1, LimitsTypes, LimitNumbers
<1>5. CASE store = "none"
  BY <1>5, NotLimitedRow DEF Take, Answered
<1>6. CASE store # "none"
  <2>1. PICK now \in Instants : now = IF reread THEN clock ELSE y.at
    BY <1>2, <1>4 DEF CallRows
  <2>2. PICK x : x = [y EXCEPT !.pc = "shared", !.at = now]
    OBVIOUS
  <2>3. x \in CallRows /\ x.pc = "shared" /\ x.replica = y.replica /\ x.at = now
    BY <2>1, <2>2 DEF CallRows
  <2>4. limited' = [limited EXCEPT ![c] = x]
    <3>1. limited' = [limited EXCEPT ![c].pc = "shared",
                                     ![c].at = IF reread THEN clock ELSE @]
      BY <1>6 DEF Take
    <3>2. limited \in [LimitCalls -> CallRows]
      BY <1>1, LimitsTypes
    <3>3. QED
      BY <1>2, <2>1, <2>2, <3>1, <3>2 DEF CallRows
  <2>5. QED
    BY <1>3, <1>4, <2>1, <2>3, <2>4
<1>7. QED
  BY <1>5, <1>6

LEMMA TakeHolds ==
    ASSUME LimitsInv, NEW c \in LimitCalls, NEW reread \in BOOLEAN, Take(c, reread)
    PROVE  LimitsInv'
<1>1. LimitsTypeOK /\ CallsKnown /\ CallsCounted /\ IsFiniteSet(Pending)
  BY DEF LimitsInv, CallsCounted
<1>2. /\ limited[c].pc = "local" /\ limited[c] \in CallRows /\ limited[c].replica \in Replicas
      /\ limited[c].at <= clock
      /\ UNCHANGED <<store, clock, bucket, asked>>
  BY <1>1, LimitsTypes DEF Take, CallsKnown, Pending
<1>3. PICK r \in Replicas, k \in LimitKeys, at \in Instants :
          r = limited[c].replica /\ k = limited[c].key /\ at = limited[c].at
  BY <1>2 DEF CallRows
<1>4. PICK x \in CallRows : /\ limited' = [limited EXCEPT ![c] = x]
                            /\ x.pc # "local"
                            /\ x.pc # "idle" => x.replica \in Replicas /\ x.at <= clock
  BY CallTaken
<1>5. PICK N : windows' = [windows EXCEPT ![r] = N] /\ EntriesTaken(windows[r], N, k, at)
  BY <1>3, WindowTaken
<1>6. /\ N \in [LimitKeys -> WindowRow]
      /\ IsFiniteSet(Known(N)) /\ Cardinality(Known(N)) <= MaxKeys
      /\ \A e \in LimitKeys : e # k => N[e] = windows[r][e] \/ N[e] = NoWindow
      /\ \/ N[k] = Fresh(at)
         \/ windows[r][k].count # 0 /\ N[k] = [windows[r][k] EXCEPT !.count = @ + 1]
  BY <1>5 DEF EntriesTaken
<1>7. /\ windows' \in [Replicas -> [LimitKeys -> WindowRow]]
      /\ windows'[r] = N /\ \A q \in Replicas : q # r => windows'[q] = windows[q]
  BY <1>1, <1>5, <1>6, LimitsTypes
<1>8. clock \in Instants /\ clock \in Nat /\ at \in Nat /\ at <= clock
  BY <1>1, <1>2, <1>3, LimitsTypes, LimitNumbers DEF Instants
<1>9. Allowed(r, k) /\ hits[r][k][clock] < MaxAsked /\ r # Shared
  BY <1>2, <1>3, <1>8, RoomForLocal, LimitsAssumption DEF Take
<1>10. /\ hits' \in [Replicas \cup {Shared} -> [LimitKeys -> Counts]]
       /\ hits'[r][k] = [hits[r][k] EXCEPT ![clock] = @ + 1]
       /\ \A m \in Replicas \cup {Shared}, j \in LimitKeys :
             m # r \/ j # k => hits'[m][j] = hits[m][j]
  BY <1>1, <1>9, HitRecorded DEF Allowed
<1>11. /\ limited' \in [LimitCalls -> CallRows]
       /\ CallsKnown'
       /\ IsFiniteSet(Pending')
       /\ Cardinality(Pending) \in Nat /\ Cardinality(Local) \in Nat
       /\ Cardinality(Pending') =
              (Cardinality(Pending) - 1) + (IF x.pc = "idle" THEN 0 ELSE 1)
       /\ Cardinality(Local') = (Cardinality(Local) - 1) + 0
  BY <1>1, <1>2, <1>4, CallMoves
<1>12. CallsCounted'
  <2>1. Cardinality(Pending') \in Nat /\ Cardinality(Local') \in Nat
    <3>1. Local' \in SUBSET Pending'
      BY DEF Local, Pending
    <3>2. QED
      BY ONLY <1>11, <3>1, FS_Subset, FS_CardinalityType
  <2>2. asked' = asked /\ asked \in Nat
    BY <1>1, <1>2, LimitNumbers
  <2>3. /\ Cardinality(Pending') + asked + 0 <= Cardinality(Pending) + asked'
        /\ Cardinality(Local') + asked + 1 <= Cardinality(Local) + asked'
    BY <1>11, <2>1, <2>2
  <2>4. \A j \in LimitKeys :
            /\ bucket'[j].count \in Nat /\ bucket'[j].count <= bucket[j].count + 0
            /\ \A t \in Instants :
                  /\ hits'[Shared][j][t] \in Nat
                  /\ hits'[Shared][j][t] <= hits[Shared][j][t] + 0
    <3>1. \A n \in Nat : n <= n + 0
      OBVIOUS
    <3>2. \A j \in LimitKeys : hits'[Shared][j] = hits[Shared][j]
      BY <1>9, <1>10
    <3>3. QED
      BY <1>1, <1>2, <3>1, <3>2, LimitNumbers
  <2>5. ASSUME NEW q \in Replicas, NEW j \in LimitKeys
        PROVE  windows'[q][j].count \in Nat /\ windows'[q][j].count <= windows[q][j].count + 1
    <3>1. windows[q][j] \in WindowRow /\ windows[q][j].count \in Nat
      BY <1>1, LimitNumbers
    <3>2. CASE q = r /\ j = k
      <4>1. \/ N[k].count = 1
            \/ N[k].count = windows[r][k].count + 1
        BY <1>6, <3>1, <3>2 DEF Fresh, WindowRow
      <4>2. QED
        BY <1>7, <3>1, <3>2, <4>1
    <3>3. CASE ~(q = r /\ j = k)
      <4>1. windows'[q][j] = windows[q][j] \/ windows'[q][j] = NoWindow
        BY <1>6, <1>7, <3>3
      <4>2. QED
        BY <3>1, <4>1 DEF NoWindow
    <3>4. QED
      BY <3>2, <3>3
  <2>6. ASSUME NEW q \in Replicas, NEW j \in LimitKeys, NEW t \in Instants
        PROVE  hits'[q][j][t] \in Nat /\ hits'[q][j][t] <= hits[q][j][t] + 1
    <3>1. hits[q][j] \in Counts /\ hits[q][j][t] \in Nat
      BY <1>1, LimitNumbers
    <3>2. hits'[q][j][t] = hits[q][j][t] \/ hits'[q][j][t] = hits[q][j][t] + 1
      BY <1>10, <3>1 DEF Counts
    <3>3. QED
      BY <3>1, <3>2
  <2>7. 0 \in Nat /\ 1 \in Nat /\ asked' \in Nat
    BY <2>2
  <2>8. QED
    BY <1>1, <1>11, <2>1, <2>3, <2>4, <2>5, <2>6, <2>7, CountedUp
<1>13. \A q \in Replicas : /\ IsFiniteSet(Known(windows'[q]))
                           /\ Cardinality(Known(windows'[q])) <= MaxKeys
  <2>1. \A q \in Replicas : /\ IsFiniteSet(Known(windows[q]))
                            /\ Cardinality(Known(windows[q])) <= MaxKeys
    BY <1>1, LimitsTypes DEF LimitsInv, KeysKnown
  <2>2. QED
    BY <1>6, <1>7, <2>1
<1>14. KeysKnown'
  BY <1>13 DEF KeysKnown, Known
<1>15. LimitsTypeOK'
  <2>1. store' \in {"redis", "postgres", "none"} /\ clock' \in Instants /\ asked' \in 0..MaxAsked
        /\ bucket' \in [LimitKeys -> WindowRow]
    BY <1>1, <1>2, LimitsTypes
  <2>2. QED
    BY <1>7, <1>10, <1>11, <1>13, <2>1 DEF LimitsTypeOK, CallRows, Counts, Known
<1>16. NothingAhead'
  <2>1. SUFFICES ASSUME NEW m \in Replicas \cup {Shared}, NEW j \in LimitKeys,
                        NEW t \in Instants, t > clock
                 PROVE  hits'[m][j][t] = 0
    BY <1>2 DEF NothingAhead
  <2>2. hits[m][j][t] = 0 /\ hits[m][j] \in Counts /\ t # clock
    BY <1>1, <1>8, <2>1, LimitNumbers DEF LimitsInv, NothingAhead
  <2>3. QED
    BY <1>10, <2>2 DEF Counts
<1>17. RedisFits'
  <2>1. \A j \in LimitKeys : hits'[Shared][j] = hits[Shared][j]
    BY <1>9, <1>10
  <2>2. QED
    BY <1>2, <2>1, SameRedis DEF LimitsInv
<1>18. WindowsFit'
  <2>1. SUFFICES ASSUME NEW q \in Replicas, NEW j \in LimitKeys
                 PROVE  WindowFits(windows[q][j], hits[q][j], clock)'
    BY DEF WindowsFit
  <2>2. PICK w, f : w = windows'[q][j] /\ f = hits'[q][j]
    OBVIOUS
  <2>3. SUFFICES WindowFits(w, f, clock)
    BY <1>2, <2>2 DEF WindowFits, CountIn, AllowedIn
  <2>4. WindowFits(windows[q][j], hits[q][j], clock)
    BY DEF LimitsInv, WindowsFit
  <2>5. CASE q = r /\ j = k
    <3>1. PICK g \in Counts : g = hits[r][k]
      BY <1>1, LimitNumbers
    <3>2. ASSUME NEW S, clock \in S
          PROVE  CountIn(f, S) = CountIn(g, S) + 1 /\ CountIn(g, S) \in Nat
      <4>1. PICK now \in Instants : now = clock
        BY <1>8
      <4>2. f = [g EXCEPT ![now] = @ + 1] /\ g[now] < MaxAsked /\ now \in S
        BY <1>9, <1>10, <2>2, <2>5, <3>1, <3>2, <4>1
      <4>3. QED
        BY <4>2, OneMore, AllowedFinite
    <3>3. CASE w = Fresh(at)
      <4>1. PICK S : S = at..clock
        OBVIOUS
      <4>2. CountIn(f, S) >= 1
        BY <1>8, <3>2, <4>1
      <4>3. QED
        BY <1>8, <3>3, <4>1, <4>2 DEF WindowFits, Fresh
    <3>4. CASE windows[r][k].count # 0 /\ w = [windows[r][k] EXCEPT !.count = @ + 1]
      <4>1. PICK u \in WindowRow : u = windows[r][k]
        BY <1>1, LimitNumbers
      <4>2. u.count \in Nat /\ u.started \in Nat /\ u.count # 0
        BY <1>1, <3>4, <4>1, LimitNumbers, LimitsAssumption DEF WindowRow, Instants
      <4>3. w.count = u.count + 1 /\ w.started = u.started /\ w.expires = u.expires
        BY <3>4, <4>1 DEF WindowRow
      <4>4. /\ u.expires = u.started + Window /\ u.started <= clock
            /\ CountIn(g, u.started..clock) >= u.count
        BY <2>4, <2>5, <3>1, <4>1, <4>2 DEF WindowFits
      <4>5. PICK S : S = u.started..clock
        OBVIOUS
      <4>6. CountIn(f, S) >= u.count + 1
        BY <1>8, <3>2, <4>2, <4>4, <4>5
      <4>7. QED
        BY <4>3, <4>4, <4>5, <4>6 DEF WindowFits
    <3>5. QED
      BY <1>6, <1>7, <2>2, <2>5, <3>3, <3>4
  <2>6. CASE ~(q = r /\ j = k)
    <3>1. f = hits[q][j]
      BY <1>10, <2>2, <2>6
    <3>2. w = windows[q][j] \/ w = NoWindow
      BY <1>6, <1>7, <2>2, <2>6
    <3>3. QED
      BY <2>4, <3>1, <3>2 DEF WindowFits, NoWindow
  <2>7. QED
    BY <2>5, <2>6
<1>19. QED
  BY <1>11, <1>12, <1>14, <1>15, <1>16, <1>17, <1>18 DEF LimitsInv

(* What AllowShared writes and counts. *)
CountedAs(k, row) ==
    /\ row \in WindowRow
    /\ row.count <= bucket[k].count + 1
    /\ bucket' = [bucket EXCEPT ![k] = row]
    /\ bucket' \in [LimitKeys -> WindowRow]
    /\ row.count <= Limit =>
          /\ hits' \in [Replicas \cup {Shared} -> [LimitKeys -> Counts]]
          /\ hits'[Shared][k] = [hits[Shared][k] EXCEPT ![clock] = @ + 1]
          /\ hits' # hits
          /\ \A m \in Replicas \cup {Shared}, j \in LimitKeys :
                m # Shared \/ j # k => hits'[m][j] = hits[m][j]
    /\ ~(row.count <= Limit) => hits' = hits

LEMMA SharedCounted ==
    ASSUME LimitsInv, NEW c \in LimitCalls, AllowShared(c),
           NEW k \in LimitKeys, k = limited[c].key,
           NEW row, row = IF store = "redis" THEN Incremented(bucket[k])
                          ELSE Upserted(bucket[k], limited[c].at)
    PROVE  CountedAs(k, row)
<1>1. LimitsTypeOK
  BY DEF LimitsInv
<1>2. /\ limited[c].pc = "shared" /\ limited[c] \in CallRows /\ limited[c].at \in Instants
      /\ bucket \in [LimitKeys -> WindowRow] /\ clock \in Instants
  BY <1>1, LimitsTypes DEF AllowShared, CallRows
<1>3. PICK at \in Instants : at = limited[c].at
  BY <1>2
<1>4. PICK b \in WindowRow : b = bucket[k]
  BY <1>2
<1>5. /\ b.count + 1 \in 0..MaxAsked /\ b.count \in Nat /\ 1 \in 0..MaxAsked
      /\ hits[Shared][k][clock] < MaxAsked
  <2>1. b.count + 1 \in 0..MaxAsked /\ b.count \in Nat /\ hits[Shared][k][clock] < MaxAsked
    BY <1>1, <1>2, <1>4, RoomForShared, LimitNumbers
  <2>2. QED
    BY <2>1, LimitsAssumption
<1>6. row = IF store = "redis" THEN Incremented(b) ELSE Upserted(b, at)
  BY <1>3, <1>4
<1>7. ASSUME NEW t \in Instants
      PROVE  Fresh(t) \in WindowRow /\ Fresh(t).count = 1
  BY <1>5, LimitsAssumption DEF Fresh, WindowRow, Instants
<1>8. PICK more : more = [b EXCEPT !.count = @ + 1]
  OBVIOUS
<1>9. more \in WindowRow /\ more.count = b.count + 1
  BY <1>5, <1>8 DEF WindowRow
<1>10. row \in {Fresh(clock), Fresh(at), more, b}
  BY <1>6, <1>8 DEF Incremented, Upserted
<1>11. row \in WindowRow /\ row.count <= b.count + 1
  BY <1>2, <1>5, <1>7, <1>9, <1>10
<1>12. /\ bucket' = [bucket EXCEPT ![k] = row]
       /\ row.count <= Limit => Allowed(Shared, k)
       /\ ~(row.count <= Limit) => hits' = hits
  BY <1>3, <1>4, <1>6 DEF AllowShared, WithinLimit
<1>13. bucket' \in [LimitKeys -> WindowRow]
  BY <1>2, <1>11, <1>12
<1>14. ASSUME row.count <= Limit
       PROVE  /\ hits' \in [Replicas \cup {Shared} -> [LimitKeys -> Counts]]
              /\ hits'[Shared][k] = [hits[Shared][k] EXCEPT ![clock] = @ + 1]
              /\ hits' # hits
              /\ \A m \in Replicas \cup {Shared}, j \in LimitKeys :
                    m # Shared \/ j # k => hits'[m][j] = hits[m][j]
  <2>1. Allowed(Shared, k) /\ Shared \in Replicas \cup {Shared}
    BY <1>12, <1>14
  <2>2. QED
    BY ONLY <1>1, <1>5, <2>1, k \in LimitKeys, HitRecorded
<1>15. QED
  BY <1>3, <1>4, <1>6, <1>11, <1>12, <1>13, <1>14 DEF CountedAs

LEMMA SharedHolds ==
    ASSUME LimitsInv, NEW c \in LimitCalls, AllowShared(c)
    PROVE  LimitsInv'
<1>1. LimitsTypeOK /\ CallsKnown /\ CallsCounted /\ IsFiniteSet(Pending) /\ KeysKnown
  BY DEF LimitsInv, CallsCounted
<1>2. /\ limited[c].pc = "shared" /\ limited[c] \in CallRows
      /\ limited' = [limited EXCEPT ![c] = NotLimited]
      /\ UNCHANGED <<store, clock, windows, asked>>
  BY <1>1, LimitsTypes DEF AllowShared, Answered
<1>3. PICK k \in LimitKeys : k = limited[c].key
  BY <1>2 DEF CallRows
<1>3a. PICK row : row = IF store = "redis" THEN Incremented(bucket[k])
                       ELSE Upserted(bucket[k], limited[c].at)
  OBVIOUS
<1>4. /\ row \in WindowRow
      /\ row.count <= bucket[k].count + 1
      /\ bucket' = [bucket EXCEPT ![k] = row]
      /\ bucket' \in [LimitKeys -> WindowRow]
      /\ row.count <= Limit =>
            /\ hits' \in [Replicas \cup {Shared} -> [LimitKeys -> Counts]]
            /\ hits'[Shared][k] = [hits[Shared][k] EXCEPT ![clock] = @ + 1]
            /\ hits' # hits
            /\ \A m \in Replicas \cup {Shared}, j \in LimitKeys :
                  m # Shared \/ j # k => hits'[m][j] = hits[m][j]
      /\ ~(row.count <= Limit) => hits' = hits
  <2>1. CountedAs(k, row)
    BY <1>3, <1>3a, SharedCounted
  <2>2. QED
    BY <2>1 DEF CountedAs
<1>5. clock \in Instants /\ clock \in Nat /\ hits[Shared][k][clock] < MaxAsked
      /\ Shared \notin Replicas
  BY <1>1, <1>2, LimitsTypes, LimitNumbers, RoomForShared, LimitsAssumption
<1>6. /\ hits' \in [Replicas \cup {Shared} -> [LimitKeys -> Counts]]
      /\ \/ hits'[Shared][k] = hits[Shared][k]
         \/ hits'[Shared][k] = [hits[Shared][k] EXCEPT ![clock] = @ + 1]
      /\ \A m \in Replicas \cup {Shared}, j \in LimitKeys :
            m # Shared \/ j # k => hits'[m][j] = hits[m][j]
  BY <1>1, <1>4, LimitsTypes
<1>7. \A r \in Replicas, j \in LimitKeys : hits'[r][j] = hits[r][j]
  BY <1>5, <1>6
<1>8. /\ limited' \in [LimitCalls -> CallRows]
      /\ CallsKnown'
      /\ IsFiniteSet(Pending')
      /\ Cardinality(Pending) \in Nat /\ Cardinality(Local) \in Nat
      /\ Cardinality(Pending') = (Cardinality(Pending) - 1) + 0
      /\ Cardinality(Local') = Cardinality(Local) + 0
  BY <1>1, <1>2, NotLimitedRow, CallMoves
<1>9. CallsCounted'
  <2>1. Cardinality(Pending') \in Nat /\ Cardinality(Local') \in Nat
    BY <1>8, FS_CardinalityType
  <2>2. asked' = asked /\ asked \in Nat
    BY <1>1, <1>2, LimitNumbers
  <2>3. /\ Cardinality(Pending') + asked + 1 <= Cardinality(Pending) + asked'
        /\ Cardinality(Local') + asked + 0 <= Cardinality(Local) + asked'
    BY <1>8, <2>1, <2>2
  <2>4. ASSUME NEW j \in LimitKeys
        PROVE  bucket'[j].count \in Nat /\ bucket'[j].count <= bucket[j].count + 1
    <3>1. bucket \in [LimitKeys -> WindowRow] /\ bucket[j].count \in Nat /\ row.count \in Nat
      <4>1. bucket \in [LimitKeys -> WindowRow] /\ bucket[j].count \in Nat
        BY <1>1, LimitsTypes, LimitNumbers
      <4>2. row.count \in Nat
        BY <1>4, LimitsAssumption DEF WindowRow
      <4>3. QED
        BY <4>1, <4>2
    <3>2. bucket'[j] = IF j = k THEN row ELSE bucket[j]
      BY <1>4, <3>1
    <3>3. QED
      BY <1>4, <3>1, <3>2
  <2>5. ASSUME NEW j \in LimitKeys, NEW t \in Instants
        PROVE  hits'[Shared][j][t] \in Nat /\ hits'[Shared][j][t] <= hits[Shared][j][t] + 1
    <3>1. hits[Shared][j] \in Counts /\ hits[Shared][j][t] \in Nat
      BY <1>1, LimitNumbers
    <3>2. hits'[Shared][j][t] = hits[Shared][j][t] \/ hits'[Shared][j][t] = hits[Shared][j][t] + 1
      BY <1>6, <3>1 DEF Counts
    <3>3. QED
      BY <3>1, <3>2
  <2>6. \A r \in Replicas, j \in LimitKeys :
            /\ windows'[r][j].count \in Nat
            /\ windows'[r][j].count <= windows[r][j].count + 0
            /\ \A t \in Instants :
                  /\ hits'[r][j][t] \in Nat
                  /\ hits'[r][j][t] <= hits[r][j][t] + 0
    <3>1. \A n \in Nat : n <= n + 0
      OBVIOUS
    <3>2. QED
      BY <1>1, <1>2, <1>7, <3>1, LimitNumbers
  <2>7. 0 \in Nat /\ 1 \in Nat /\ asked' \in Nat
    BY <2>2
  <2>8. QED
    BY <1>1, <1>8, <2>1, <2>3, <2>4, <2>5, <2>6, <2>7, CountedUp
<1>10. LimitsTypeOK'
  <2>1. /\ store' \in {"redis", "postgres", "none"} /\ clock' \in Instants
        /\ asked' \in 0..MaxAsked
        /\ windows' \in [Replicas -> [LimitKeys -> WindowRow]]
        /\ \A q \in Replicas : Cardinality(Known(windows'[q])) <= MaxKeys
    BY <1>1, <1>2, LimitsTypes
  <2>2. QED
    BY <1>4, <1>6, <1>8, <2>1 DEF LimitsTypeOK, CallRows, Counts, Known
<1>11. NothingAhead'
  <2>1. SUFFICES ASSUME NEW m \in Replicas \cup {Shared}, NEW j \in LimitKeys,
                        NEW t \in Instants, t > clock
                 PROVE  hits'[m][j][t] = 0
    BY <1>2 DEF NothingAhead
  <2>2. hits[m][j][t] = 0 /\ hits[m][j] \in Counts /\ t # clock
    BY <1>1, <1>5, <2>1, LimitNumbers DEF LimitsInv, NothingAhead
  <2>3. QED
    BY <1>6, <2>2 DEF Counts
<1>12. KeysKnown' /\ WindowsFit'
  BY <1>1, <1>2, <1>7, SameWindows DEF LimitsInv
<1>13. RedisFits'
  <2>1. SUFFICES ASSUME store = "redis", NEW j \in LimitKeys
                 PROVE  /\ BucketFits(bucket[j], hits[Shared][j], clock)'
                        /\ SpansFit(hits[Shared][j])'
    BY <1>2 DEF RedisFits
  <2>2. PICK now \in Instants, b \in WindowRow, f \in Counts :
            now = clock /\ b = bucket[j] /\ f = hits[Shared][j]
    BY <1>1, <1>5, LimitNumbers
  <2>3. PICK d, g : d = bucket'[j] /\ g = hits'[Shared][j]
    OBVIOUS
  <2>4. SUFFICES BucketFits(d, g, now) /\ SpansFit(g)
    <3>1. BucketFits(d, g, now) => BucketFits(bucket[j], hits[Shared][j], clock)'
      BY <1>2, <2>2, <2>3 DEF BucketFits, CountIn, AllowedIn
    <3>2. SpansFit(g) => SpansFit(hits[Shared][j])'
      BY <2>3 DEF SpansFit, CountIn, AllowedIn
    <3>3. QED
      BY <3>1, <3>2
  <2>5. BucketFits(b, f, now) /\ SpansFit(f)
    BY <2>1, <2>2 DEF LimitsInv, RedisFits
  <2>6. CASE j # k
    BY <1>1, <1>4, <1>6, <2>2, <2>3, <2>5, <2>6, LimitsTypes
  <2>7. CASE j = k
    <3>1. /\ f[now] < MaxAsked /\ \A t \in Instants : t > now => f[t] = 0
      BY <1>5, <2>2, <2>7 DEF LimitsInv, NothingAhead
    <3>2. b \in Counters /\ b.count \in Nat /\ b.expires \in Nat
      BY LimitsAssumption DEF Counters, WindowRow, Instants
    <3>3. d = row /\ row = Incremented(b) /\ bucket[k] = b /\ hits[Shared][k] = f
      BY <1>1, <1>4, <1>3a, <2>1, <2>2, <2>3, <2>7, LimitsTypes
    <3>4. CASE b.count = 0 \/ b.expires <= now
      <4>1. d = Fresh(now)
        BY <2>2, <3>3, <3>4 DEF Incremented
      <4>2. row.count <= Limit
        BY <3>3, <4>1, LimitsAssumption DEF Fresh
      <4>3. g = [f EXCEPT ![now] = @ + 1]
        BY <1>4, <2>2, <2>3, <2>7, <4>2
      <4>4. QED
        BY <2>5, <3>1, <3>2, <3>4, <4>1, <4>3, FreshFits
    <3>5. CASE ~(b.count = 0 \/ b.expires <= now)
      <4>1. b.count # 0 /\ now < b.expires
        BY <1>5, <2>2, <3>2, <3>5
      <4>2. PICK more : more = [b EXCEPT !.count = @ + 1]
        OBVIOUS
      <4>3. more.count = b.count + 1 /\ d = more
        BY <2>2, <3>3, <3>5, <4>2 DEF Incremented, WindowRow
      <4>4. /\ b.count < Limit =>
                  /\ BucketFits(more, [f EXCEPT ![now] = @ + 1], now)
                  /\ SpansFit([f EXCEPT ![now] = @ + 1])
            /\ b.count >= Limit => BucketFits(more, f, now)
        BY <2>5, <3>1, <3>2, <4>1, <4>2, IncrementFits
      <4>5. CASE b.count < Limit
        <5>1. row.count <= Limit
          BY <3>2, <3>3, <4>3, <4>5, LimitsAssumption
        <5>2. g = [f EXCEPT ![now] = @ + 1]
          BY <1>4, <2>2, <2>3, <2>7, <5>1
        <5>3. QED
          BY <4>3, <4>4, <4>5, <5>2
      <4>6. CASE ~(b.count < Limit)
        <5>1. ~(row.count <= Limit) /\ b.count >= Limit
          BY <3>2, <3>3, <4>3, <4>6, LimitsAssumption
        <5>2. g = f
          BY <1>4, <2>2, <2>3, <2>7, <5>1
        <5>3. QED
          BY <2>5, <4>3, <4>4, <5>1, <5>2
      <4>7. QED
        BY <4>5, <4>6
    <3>6. QED
      BY <3>4, <3>5
  <2>8. QED
    BY <2>6, <2>7
<1>14. QED
  BY <1>8, <1>9, <1>10, <1>11, <1>12, <1>13 DEF LimitsInv

LEMMA LimitsStep == LimitsInv /\ [LimitsNext]_limitVars => LimitsInv'
<1>1. SUFFICES ASSUME LimitsInv, [LimitsNext]_limitVars
               PROVE  LimitsInv'
  OBVIOUS
<1>2. ASSUME NEW c \in LimitCalls, NEW r \in Replicas, NEW k \in LimitKeys, ReadClock(c, r, k)
      PROVE  LimitsInv'
  BY <1>1, <1>2, ReadingHolds
<1>3. ASSUME NEW c \in LimitCalls, NEW reread \in BOOLEAN, Take(c, reread)
      PROVE  LimitsInv'
  BY <1>1, <1>3, TakeHolds
<1>4. ASSUME NEW c \in LimitCalls, TakeRefused(c) \/ SharedFails(c)
      PROVE  LimitsInv'
  BY <1>1, <1>4, RefusalHolds
<1>5. ASSUME NEW c \in LimitCalls, AllowShared(c)
      PROVE  LimitsInv'
  BY <1>1, <1>5, SharedHolds
<1>6. ASSUME NEW r \in Replicas, RestartReplica(r)
      PROVE  LimitsInv'
  BY <1>1, <1>6, RestartHolds
<1>7. ASSUME ClockTicks
      PROVE  LimitsInv'
  BY <1>1, <1>7, TickHolds
<1>8. ASSUME UNCHANGED limitVars
      PROVE  LimitsInv'
  <2>1. UNCHANGED <<store, clock, windows, bucket, limited, hits, asked>>
    BY <1>8 DEF limitVars
  <2>2. LimitsTypeOK'
    BY <1>1, <2>1 DEF LimitsInv, LimitsTypeOK
  <2>3. CallsKnown' /\ CallsCounted'
    BY <1>1, <2>1 DEF LimitsInv, CallsKnown, CallsCounted, Pending, Local
  <2>4. KeysKnown' /\ WindowsFit' /\ NothingAhead' /\ RedisFits'
    BY <1>1, <2>1, SameWindows, SameBucket DEF LimitsInv
  <2>5. QED
    BY <2>2, <2>3, <2>4 DEF LimitsInv
<1>9. QED
  BY <1>1, <1>2, <1>3, <1>4, <1>5, <1>6, <1>7, <1>8 DEF LimitsNext

LEMMA LimitsInductive == LimitsSpec => []LimitsInv
BY LimitsStart, LimitsStep, PTL DEF LimitsSpec

(* What a layer allowed in the window that ends with a call. *)
Before(at) == {t \in Instants : at - Window < t /\ t <= clock}

(* A replica refuses a call of a full window that is not over. *)
LEMMA RefusedByReplica ==
    ASSUME LimitsInv, NEW c \in LimitCalls, TakeRefused(c)
    PROVE  /\ limited[c].pc = "local"
           /\ CountIn(hits[limited[c].replica][limited[c].key], Before(limited[c].at)) >= Limit
<1>1. LimitsTypeOK /\ CallsKnown
  BY DEF LimitsInv
<1>2. limited[c].pc = "local" /\ limited[c] \in CallRows /\ limited[c].replica \in Replicas
  BY <1>1, LimitsTypes DEF TakeRefused, CallsKnown, Pending
<1>3. PICK r \in Replicas, k \in LimitKeys, at \in Instants :
          r = limited[c].replica /\ k = limited[c].key /\ at = limited[c].at
  BY <1>2 DEF CallRows
<1>4. PICK f \in Counts, w \in WindowRow : f = hits[r][k] /\ w = windows[r][k]
  BY <1>1, LimitNumbers
<1>5. w.count \in Nat /\ w.started \in Nat /\ at \in Nat /\ clock \in Nat
  BY <1>1, LimitNumbers, LimitsAssumption DEF WindowRow, Instants
<1>6. w.count # 0 /\ at < w.expires /\ w.started <= at /\ w.count >= Limit
  <2>1. LocallyFull(w, at)
    BY <1>3, <1>4 DEF TakeRefused
  <2>2. /\ w.count # 0 /\ ~(at >= w.expires) /\ ~(at < w.started) /\ w.count >= Limit
    BY <2>1 DEF LocallyFull, StartsAnew
  <2>3. w.expires \in Nat
    BY LimitsAssumption DEF WindowRow
  <2>4. QED
    BY <1>5, <2>2, <2>3
<1>7. WindowFits(w, f, clock)
  BY <1>4 DEF LimitsInv, WindowsFit
<1>8. PICK S : S = w.started..clock
  OBVIOUS
<1>9. w.expires = w.started + Window /\ CountIn(f, S) >= w.count
  BY <1>5, <1>6, <1>7, <1>8 DEF WindowFits
<1>10. PICK B : B = Before(at)
  OBVIOUS
<1>11. \A t \in Instants \cap S : f[t] # 0 => t \in B
  BY <1>5, <1>6, <1>8, <1>9, <1>10, LimitsAssumption DEF Before, Instants
<1>12. CountIn(f, S) <= CountIn(f, B) /\ CountIn(f, S) \in Nat /\ CountIn(f, B) \in Nat
  BY <1>11, WiderSpan, AllowedFinite
<1>13. CountIn(f, B) >= Limit
  BY <1>5, <1>6, <1>9, <1>12, LimitsAssumption
<1>14. QED
  BY <1>2, <1>3, <1>4, <1>10, <1>13

(* Redis refuses what runs over its limit; the table, which stops at the   *)
(* limit, refuses nothing.                                                 *)
LEMMA RefusedByShared ==
    ASSUME LimitsInv, NEW c \in LimitCalls, AllowShared(c), bucket' # bucket, hits' = hits
    PROVE  CountIn(hits[Shared][limited[c].key], Before(limited[c].at)) >= Limit
<1>1. LimitsTypeOK /\ CallsKnown
  BY DEF LimitsInv
<1>2. limited[c].pc = "shared" /\ limited[c] \in CallRows /\ limited[c].at <= clock
  BY <1>1, LimitsTypes DEF AllowShared, CallsKnown, Pending
<1>3. PICK k \in LimitKeys, at \in Instants : k = limited[c].key /\ at = limited[c].at
  BY <1>2 DEF CallRows
<1>4. PICK f \in Counts, b \in WindowRow : f = hits[Shared][k] /\ b = bucket[k]
  BY <1>1, LimitNumbers
<1>5. /\ b.count \in Nat /\ b.started \in Nat /\ b.expires \in Nat
      /\ at \in Nat /\ clock \in Nat /\ at <= clock
  BY <1>1, <1>2, <1>3, LimitNumbers, LimitsAssumption DEF WindowRow, Instants
<1>6. PICK row : row = IF store = "redis" THEN Incremented(b) ELSE Upserted(b, at)
  OBVIOUS
<1>7. CountedAs(k, row)
  BY <1>3, <1>4, <1>6, SharedCounted
<1>8. ~(row.count <= Limit) /\ bucket' = [bucket EXCEPT ![k] = row]
  BY <1>7 DEF CountedAs
<1>9. row # b
  BY <1>1, <1>4, <1>8, LimitsTypes
<1>10. \A t \in Instants : Fresh(t).count <= Limit
  BY LimitsAssumption DEF Fresh
<1>11. store = "redis" /\ b.count # 0 /\ clock < b.expires /\ b.count >= Limit
  <2>1. PICK more : more = [b EXCEPT !.count = @ + 1]
    OBVIOUS
  <2>2. more.count = b.count + 1
    BY <2>1 DEF WindowRow
  <2>3. clock \in Instants
    BY <1>1, LimitsTypes
  <2>4. row # Fresh(at) /\ row # Fresh(clock)
    BY <1>8, <1>10, <2>3
  <2>5. store = "redis"
    <3>1. SUFFICES ASSUME store # "redis"
                   PROVE  FALSE
      OBVIOUS
    <3>2. row = more /\ b.count < Limit
      BY <1>6, <1>9, <2>1, <2>4, <3>1 DEF Upserted
    <3>3. QED
      BY <1>5, <1>8, <2>2, <3>2, LimitsAssumption
  <2>6. row = more /\ b.count # 0 /\ ~(b.expires <= clock)
    BY <1>6, <2>1, <2>4, <2>5 DEF Incremented
  <2>7. QED
    BY <1>5, <1>8, <2>2, <2>5, <2>6, LimitsAssumption
<1>12. BucketFits(b, f, clock)
  BY <1>4, <1>11 DEF LimitsInv, RedisFits
<1>13. PICK S : S = b.started..clock
  OBVIOUS
<1>14. b.expires = b.started + Window /\ b.started <= clock /\ CountIn(f, S) = Limit
  BY <1>5, <1>11, <1>12, <1>13, LimitsAssumption DEF BucketFits
<1>15. PICK B : B = Before(at)
  OBVIOUS
<1>16. \A t \in Instants \cap S : f[t] # 0 => t \in B
  BY <1>5, <1>11, <1>13, <1>14, <1>15, LimitsAssumption DEF Before, Instants
<1>17. CountIn(f, S) <= CountIn(f, B) /\ CountIn(f, B) \in Nat
  BY <1>16, WiderSpan, AllowedFinite
<1>18. CountIn(f, B) >= Limit
  BY <1>14, <1>17, LimitsAssumption
<1>19. QED
  BY <1>3, <1>4, <1>15, <1>18

LEMMA RefusalIsDue ==
    ASSUME LimitsInv, [LimitsNext]_limitVars, NEW c \in LimitCalls,
           \/ TakeRefused(c)
           \/ bucket' # bucket /\ limited[c].pc = "shared" /\ hits' = hits
              /\ limited'[c].pc = "idle"
    PROVE  CountIn(hits[IF limited[c].pc = "local" THEN limited[c].replica ELSE Shared]
                       [limited[c].key], Before(limited[c].at)) >= Limit
<1>1. CASE TakeRefused(c)
  BY <1>1, RefusedByReplica
<1>2. CASE /\ bucket' # bucket /\ limited[c].pc = "shared" /\ hits' = hits
           /\ limited'[c].pc = "idle"
  <2>1. PICK d \in LimitCalls : AllowShared(d)
    <3>1. LimitsNext
      BY <1>2 DEF limitVars
    <3>2. \A d \in LimitCalls, r \in Replicas, k \in LimitKeys : ~ReadClock(d, r, k)
      BY <1>2 DEF ReadClock
    <3>3. \A d \in LimitCalls, reread \in BOOLEAN : ~Take(d, reread)
      BY <1>2 DEF Take
    <3>4. \A d \in LimitCalls : ~TakeRefused(d) /\ ~SharedFails(d)
      BY <1>2 DEF TakeRefused, SharedFails
    <3>5. ~ClockTicks /\ \A r \in Replicas : ~RestartReplica(r)
      BY <1>2 DEF ClockTicks, RestartReplica
    <3>6. QED
      BY <3>1, <3>2, <3>3, <3>4, <3>5 DEF LimitsNext
  <2>2. d = c
    <3>1. limited \in [LimitCalls -> CallRows]
      BY LimitsTypes DEF LimitsInv
    <3>2. limited' = [limited EXCEPT ![d] = NotLimited]
      BY <2>1 DEF AllowShared, Answered
    <3>3. QED
      BY <1>2, <3>1, <3>2
  <2>3. CountIn(hits[Shared][limited[c].key], Before(limited[c].at)) >= Limit
    BY <1>2, <2>1, <2>2, RefusedByShared
  <2>4. QED
    BY <1>2, <2>3
<1>3. QED
  BY <1>1, <1>2

(* The rate limits, however calls overlap, are late or are lost, and       *)
(* replicas restart: Redis allows no key more in a span of a window's      *)
(* length than two windows that touch (RedisFixedWindowLimiter.Allow), and *)
(* no layer refuses a call unless it allowed the limit within a window     *)
(* before it (FixedWindowLimiter.Take, both Allow).                        *)
THEOREM RateLimitsHold == LimitsSpec => LimitsHold
<1>1. LimitsInv => LimitsTypeOK /\ RedisLimits
  BY DEF LimitsInv, RedisFits, RedisLimits, SpansFit, Within, CountIn
<1>2. LimitsInv /\ [LimitsNext]_limitVars =>
      [\A c \in LimitCalls :
          LET call == limited[c]
              layer == IF call.pc = "local" THEN call.replica ELSE Shared
              before == {t \in Instants : call.at - Window < t /\ t <= clock}
              refused == \/ TakeRefused(c)
                         \/ bucket' # bucket /\ call.pc = "shared" /\ hits' = hits
                            /\ limited'[c].pc = "idle"
          IN  refused => Cardinality(AllowedIn(hits[layer][call.key], before)) >= Limit
      ]_limitVars
  BY RefusalIsDue DEF CountIn, Before
<1>3. QED
  BY <1>1, <1>2, LimitsInductive, PTL DEF LimitsSpec, LimitsHold, RefusedWhenFull
=============================================================================

----------------------------- MODULE MCCommunity -----------------------------
(***************************************************************************)
(* The catalogue, what refers to its programmes, and the components a      *)
(* student meets afterwards, explored one at a time.  The catalogue is     *)
(* explored with its readers, and again, without them, under the           *)
(* applications; applications are made again under the forum, where one    *)
(* programme was published at once.                                        *)
(***************************************************************************)
EXTENDS Forum, PersonalFiles, TelegramCrossCheck, CalendarSync, TLC

VARIABLE scope          \* the component that is explored

CONSTANTS p1, p2, q1, One, bob, tab1, tab2

MCYears == {1, 2}

MCYearOf == (p1 :> 1) @@ (p2 :> 2)

(* Two editions of the same programme.                                     *)
MCSeriesOf == [p \in Programs |-> One]

(* The page of a programme, and the list.                                  *)
MCQueries == {{p1}, {p1, p2}}

MCAskedOf == [q \in Questions |-> CHOOSE p \in Participants : TRUE]

MCPersonOf == [b \in Browsers |-> IF b = tab2 THEN bob ELSE CHOOSE m \in Members : m # bob]

MCInit ==
    /\ scope \in {"page", "list", "applying", "board", "reports", "files", "telegram",
                  "calendar"}
    /\ CatalogueInit /\ ApplicationsInit /\ ForumInit
    /\ FilesInit /\ TelegramInit /\ CalendarInit
    /\ scope \notin {"page", "list"} => displayYear = 2

outsideVars == <<fileVars, telegramVars, calendarVars>>

(* The readers ask for one page, or for the list.                          *)
MCAsk == \A r \in Readers :
    readers'[r].query \in {{}, IF scope = "page" THEN {p1} ELSE {p1, p2}}

(* Bob is an administrator, and remains unverified.                        *)
MCIdentities == identity'[bob] = "temporary"

(* Bob adds the entry to his calendar and leaves it there, his grant holds. *)
MCCalendar == revoked'[bob] = 0 /\ requests'[tab2].at \in {"idle", "inserted"}

MCNext ==
    /\ \/ /\ scope \in {"page", "list", "applying"}
          /\ Changes(Referred) \/ Clearing
          /\ UNCHANGED <<applicationVars, forumVars, outsideVars>>
       \/ /\ scope \in {"page", "list"} /\ Reading /\ MCAsk
          /\ UNCHANGED <<applicationVars, forumVars, outsideVars>>
       \/ /\ scope \in {"applying", "board"} /\ Applying /\ MCIdentities
          /\ scope = "board" => tickets' = tickets
          /\ UNCHANGED <<catalogueVars, forumVars, outsideVars>>
       \/ /\ scope = "board" /\ programs[p1] = NoProgram
          /\ \E d \in Data \ Vacant : ConfirmUpload({p1}, d)
          /\ UNCHANGED <<applicationVars, forumVars, outsideVars>>
       \/ /\ scope = "board" /\ Board
          /\ UNCHANGED <<catalogueVars, applicationVars, outsideVars>>
       \/ /\ scope = "reports" /\ Reporting
          /\ UNCHANGED <<catalogueVars, applicationVars, outsideVars>>
       \/ /\ scope = "files" /\ FilesNext
          /\ UNCHANGED <<catalogueVars, applicationVars, forumVars, telegramVars, calendarVars>>
       \/ /\ scope = "telegram" /\ TelegramNext
          /\ UNCHANGED <<catalogueVars, applicationVars, forumVars, fileVars, calendarVars>>
       \/ /\ scope = "calendar" /\ CalendarNext /\ MCCalendar
          /\ UNCHANGED <<catalogueVars, applicationVars, forumVars, fileVars, telegramVars>>
    /\ UNCHANGED scope

MCVars == <<catalogueVars, applicationVars, forumVars, outsideVars, scope>>

MCSpec == MCInit /\ [][MCNext]_MCVars

ListOnly == MCSpec /\ scope = "list"
BoardOnly == MCSpec /\ scope = "board"
ReportsOnly == MCSpec /\ scope = "reports"
FilesOnly == MCSpec /\ scope = "files"
TelegramOnly == MCSpec /\ scope = "telegram"
CalendarOnly == MCSpec /\ scope = "calendar"
==============================================================================

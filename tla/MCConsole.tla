------------------------------ MODULE MCConsole ------------------------------
(***************************************************************************)
(* The pages of the console.  One page is open in a tab, and its state ends *)
(* with it: a behaviour is one of any page.                                *)
(***************************************************************************)
EXTENDS Screen

CONSTANTS
  Visited,          \* the pages that are opened
  \* Those of the pages, by the page's name where several pages have one of a name.
  ResidentPeople, ResidentFilters, ResidentDialogs, AdminAccounts, AdminFilters, AdminDialogs,
  CanvasUsers, CanvasResidents, ProgramLimit, MaxAttempts, Required,
  EnrolledPeople, AddPeople, AddClash, AddCapacity, AttendancePeople, MaxVisits, MaxChanges,
  ClassDays, ClassRooms, NoDate, LastDay, MaxOpenings, MaxEdits, Begun, Picked,
  SessionDays, RegularDays, CalendarDays, CalendarRegular, MaxActs

VARIABLES
  page,   \* the page that is open
  placed  \* of the import dialog alone

\* The similarity of the names on the import page of a provider.
NameSimilarity ==
  [p \in CanvasUsers \X CanvasResidents |-> CASE p = <<1, 3>> -> 95 [] p = <<1, 4>> -> 80 [] OTHER -> 40]

ResidentsPage == INSTANCE Residents WITH
  People <- ResidentPeople, Filters <- ResidentFilters, Explored <- ResidentDialogs
Import == INSTANCE ResidentImport WITH Files <- {"f1", "f2"}, ChoosesPlace <- TRUE
AdminsPage == INSTANCE Admins WITH
  Accounts <- AdminAccounts, Filters <- AdminFilters, Explored <- AdminDialogs
Users == INSTANCE ProviderUsers WITH
  Canvas <- CanvasUsers, Residents <- CanvasResidents, Score <- NameSimilarity
Platforms == INSTANCE ProviderPlatforms WITH MaxClients <- 2
FacilitiesPage == INSTANCE Facilities WITH Places <- {"f1", "f2"}
Features == INSTANCE FeatureControl WITH
  Places <- {"f1", "f2"}, Tops <- {"top"}, Subs <- {"sub"},
  Parent <- [s \in {"sub"} |-> "top"]
Program == INSTANCE ProgramPage WITH Limit <- 1
ProgramsPage == INSTANCE Programs WITH Limit <- ProgramLimit
ProgramForms == INSTANCE ProgramForm WITH Places <- {"f1"}, Own <- "f1", Limit <- 2
Form == INSTANCE ClassForm WITH Days <- ClassDays, Rooms <- ClassRooms
Class == INSTANCE EditClass WITH Days <- ClassDays
Roster == INSTANCE ClassRoster WITH People <- {"p1"}, Attended <- {}
Enroll == INSTANCE EnrollResidents WITH Searches <- {{1, 2}, {1}}, Clash <- {2}, Capacity <- 1
SessionsTab == INSTANCE Sessions WITH
  Days <- SessionDays, Regular <- RegularDays, Shared <- {}, Hurried <- FALSE
Enrollments == INSTANCE EnrollmentDetails WITH People <- EnrolledPeople
Adding == INSTANCE AddEnrollments WITH
  People <- AddPeople, Clash <- AddClash, Capacity <- AddCapacity
AttendancePage == INSTANCE Attendance WITH People <- AttendancePeople
Calendar == INSTANCE Schedule WITH
  Days <- CalendarDays, Regular <- CalendarRegular, Forward <- TRUE

ASSUME ConsoleAssumption ==
  /\ ResidentsPage!PeopleAssumption /\ Features!FeatureAssumption /\ ProgramsPage!ProgramsAssumption
  /\ ProgramForms!ProgramFormAssumption
  /\ Adding!SeatsAssumption
  /\ SessionsTab!SessionAssumption /\ Calendar!SessionAssumption /\ Calendar!ScheduleAssumption

vars == <<page, screen, placed>>

Init ==
  /\ page \in Visited
  /\ \/ page = "residents" /\ ResidentsPage!Init /\ placed = FALSE
     \/ page = "import" /\ Import!Init
     \/ page = "admins" /\ AdminsPage!Init /\ placed = FALSE
     \/ page = "users" /\ Users!Init /\ placed = FALSE
     \/ page = "platforms" /\ Platforms!Init /\ placed = FALSE
     \/ page = "facilities" /\ FacilitiesPage!Init /\ placed = FALSE
     \/ page = "features" /\ Features!Init /\ placed = FALSE
     \/ page = "program" /\ Program!Init /\ placed = FALSE
     \/ page = "programs" /\ ProgramsPage!Init /\ placed = FALSE
     \/ page = "program form" /\ ProgramForms!Init /\ placed = FALSE
     \/ page = "form" /\ Form!Init /\ placed = FALSE
     \/ page = "class" /\ Class!Init /\ placed = FALSE
     \/ page = "roster" /\ Roster!Init /\ placed = FALSE
     \/ page = "enroll" /\ Enroll!Init /\ placed = FALSE
     \/ page = "sessions" /\ SessionsTab!Init /\ placed = FALSE
     \/ page = "enrollments" /\ Enrollments!Init /\ placed = FALSE
     \/ page = "add" /\ Adding!Init /\ placed = FALSE
     \/ page = "attendance" /\ AttendancePage!Init /\ placed = FALSE
     \/ page = "schedule" /\ Calendar!Init /\ placed = FALSE

Next ==
  \/ page = "residents" /\ ResidentsPage!Next /\ UNCHANGED <<page, placed>>
  \/ page = "import" /\ Import!Next /\ UNCHANGED page
  \/ page = "admins" /\ AdminsPage!Next /\ UNCHANGED <<page, placed>>
  \/ page = "users" /\ Users!Next /\ UNCHANGED <<page, placed>>
  \/ page = "platforms" /\ Platforms!Next /\ UNCHANGED <<page, placed>>
  \/ page = "facilities" /\ FacilitiesPage!Next /\ UNCHANGED <<page, placed>>
  \/ page = "features" /\ Features!Next /\ UNCHANGED <<page, placed>>
  \/ page = "program" /\ Program!Next /\ UNCHANGED <<page, placed>>
  \/ page = "programs" /\ ProgramsPage!Next /\ UNCHANGED <<page, placed>>
  \/ page = "program form" /\ ProgramForms!Next /\ UNCHANGED <<page, placed>>
  \/ page = "form" /\ Form!Next /\ UNCHANGED <<page, placed>>
  \/ page = "class" /\ Class!Next /\ UNCHANGED <<page, placed>>
  \/ page = "roster" /\ Roster!Next /\ UNCHANGED <<page, placed>>
  \/ page = "enroll" /\ Enroll!Next /\ UNCHANGED <<page, placed>>
  \/ page = "sessions" /\ SessionsTab!Next /\ UNCHANGED <<page, placed>>
  \/ page = "enrollments" /\ Enrollments!Next /\ UNCHANGED <<page, placed>>
  \/ page = "add" /\ Adding!Next /\ UNCHANGED <<page, placed>>
  \/ page = "attendance" /\ AttendancePage!Next /\ UNCHANGED <<page, placed>>
  \/ page = "schedule" /\ Calendar!Next /\ UNCHANGED <<page, placed>>

Spec == Init /\ [][Next]_vars

-----------------------------------------------------------------------------
On(p, property) == page = p => property

\* No dialog has two requests out, not even when it was left and opened again: a second bulk
\* reset would void the passwords the first one handed out, a second creation would succeed too.
NoDoubleSubmit ==
  /\ On("residents", ResidentsPage!NoDoubleSubmit)
  /\ On("import", Import!NoDoubleSubmit)
  /\ On("admins", AdminsPage!NoDoubleSubmit)
  /\ On("users", Users!NoDoubleSubmit)
  /\ On("platforms", Platforms!NoDoubleSubmit)
  /\ On("facilities", FacilitiesPage!NoDoubleSubmit)
  /\ On("features", Features!NoDoubleSubmit)
  /\ On("program", Program!NoDoubleSubmit)
  /\ On("programs", ProgramsPage!NoDoubleSubmit)
  /\ On("program form", ProgramForms!NoDoubleSubmit)
  /\ On("form", Form!NoDoubleSubmit)
  /\ On("class", Class!NoDoubleSubmit)
  /\ On("roster", Roster!NoDoubleSubmit)
  /\ On("sessions", SessionsTab!NoDoubleSubmit)
  /\ On("attendance", AttendancePage!NoDoubleSubmit)

\* When nothing is under way a page shows the rows as they are, whatever order its requests
\* and its fetches were answered in (mutate after every success).
QuietIsFresh ==
  /\ On("residents", ResidentsPage!QuietIsFresh)
  /\ On("import", Import!QuietIsFresh)
  /\ On("admins", AdminsPage!QuietIsFresh)
  /\ On("users", Users!QuietIsFresh)
  /\ On("platforms", Platforms!QuietIsFresh)
  /\ On("facilities", FacilitiesPage!QuietIsFresh)
  /\ On("features", Features!QuietIsFresh)
  /\ On("program", Program!QuietIsFresh)
  /\ On("programs", ProgramsPage!QuietIsFresh)
  /\ On("class", Class!QuietIsFresh)
  /\ On("roster", Roster!QuietIsFresh)
  /\ On("enroll", Enroll!QuietIsFresh)
  /\ On("sessions", SessionsTab!QuietIsFresh)
  /\ On("enrollments", Enrollments!QuietIsFresh)
  /\ On("schedule", Calendar!QuietIsFresh)

\* Whoever is selected is someone the filter leaves in the list: no bulk action reaches a
\* resident selected under another filter (useUserSelection).
SelectionWithinFilter ==
  /\ On("residents", ResidentsPage!SelectionWithinFilter)
  /\ On("admins", AdminsPage!SelectionWithinFilter)

\* Whoever is edited, deleted or given a new password is the administrator the dialog was
\* opened for, whatever answers put into selectedAdmin meanwhile; and a graduation names only
\* residents on the roster shown when it is confirmed, not one who was withdrawn since; and a
\* program that is saved keeps every facility where the page was told it has classes to run.
ActsOnMeant ==
  [][/\ page = "admins" => AdminsPage!SendsToMeant
     /\ page = "program form" => ProgramForms!KeepsClasses
     /\ page = "roster" => Roster!SendsOnRoster]_vars

\* A program shown as "Syncing from Canvas" is asked about again until the page gives up and
\* says so (useCanvasLoadingPoll).
NeverStuckSyncing == On("programs", ProgramsPage!NeverStuckSyncing)

\* The rule that is sent for a new class stands for the dates the form asks for (buildRRule), and
\* the room the form holds is one its list has, so that the select shows it.  Saving a class
\* without touching its schedule leaves its dates as they were, if it repeats at one interval
\* and was neither rescheduled nor fetched anew under the open editor.
ScheduleAsMeant ==
  /\ On("form", Form!CreatedAsAsked /\ Form!RoomIsListed)
  /\ On("class", Class!PlainStays)

\* However often they are moved, cancelled and restored, as many sessions are held or cancelled
\* as the class has, and one shown as moved shows where it went; and when all that follow are
\* changed with one, every day the class meets belongs to a series, by which it is held or
\* cancelled.
NoSessionLost ==
  /\ On("sessions", SessionsTab!NoneLostOrDoubled /\ SessionsTab!MovedShowsWhere)
  /\ On("schedule", Calendar!EveryDayKept)

\* What a page sends is what was chosen on it: a change of enrollment for exactly the residents
\* its dialog named, no more residents than there were seats, the attendance of those marked in
\* that visit, whatever was selected before and whichever answers arrived meanwhile.
SentAsChosen ==
  /\ On("enrollments", Enrollments!SentWereNamed)
  /\ On("add", Adding!SentFit)
  /\ On("attendance", AttendancePage!OnlyMarkedSent)
=============================================================================

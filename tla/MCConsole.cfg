SPECIFICATION Spec
CONSTANTS
  None = None
  MaxWrites = 1
  ResidentPeople = {1, 2}
  ResidentFilters = {{1, 2}, {1}}
  ResidentDialogs = {{"edit", "reset", "add"}, {"deactivate", "delete", "transfer"}, {"delete", "bulk reset", "bulk deactivate", "bulk delete"}}
  AdminAccounts = {"a1", "a2"}
  AdminFilters = {{"a1", "a2"}, {"a1"}}
  AdminDialogs = {{"add", "edit", "reset", "delete"}, {"delete", "bulk reset", "bulk delete"}}
  CanvasUsers = {1}
  CanvasResidents = {3, 4}
  ProgramLimit = 1
  MaxAttempts = 2
  Required = {"name", "types"}
  EnrolledPeople = {1, 2}
  AddPeople = {1, 2, 3}
  AddClash = {2, 3}
  AddCapacity = 2
  AttendancePeople = {1, 2}
  MaxVisits = 2
  MaxChanges = 1
  ClassDays = {"Mon"}
  ClassRooms = {"room"}
  NoDate = 0
  LastDay = 3
  MaxOpenings = 2
  MaxEdits = 1
  Begun = {"custom"}
  Picked = {"no-repeat"}
  SessionDays = {1, 2, 3, 4}
  RegularDays = {1, 2}
  CalendarDays = {1, 3, 5}
  CalendarRegular = {1, 5}
  MaxActs = 2
  Visited = {"residents", "import", "admins", "users", "platforms", "facilities", "features", "program", "programs", "program form", "form", "class", "roster", "enroll", "sessions", "enrollments", "add", "attendance", "schedule"}
INVARIANTS
  NoDoubleSubmit
  QuietIsFresh
  SelectionWithinFilter
  NeverStuckSyncing
  ScheduleAsMeant
  NoSessionLost
  SentAsChosen
PROPERTY ActsOnMeant
CHECK_DEADLOCK FALSE

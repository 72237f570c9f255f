SPECIFICATION Spec
CONSTANTS
  None = None
  Ids = {r1}
  Contents = {0, 1}
  Blank = 0
  Complete = {1}
  MaxStrays = 1
  MaxQueue = 2
  Rows = {a1}
  LastStep = 1
  Inactive = 1
  Window = 2
  MaxTime = 4
  MaxSittings = 2
  MaxVisits = 2
  Entries = {1, 2}
  MaxHomeActs = 4
  MaxWrites = 1
  Places = {f1}
  Here = f1
  Polls = 2
  MaxManaging = 2
  Items = {1, 2}
  MaxClicks = 3
INVARIANTS
  SavedLabelTrue
  NoSecondCreate
  ReportedOnce
  ActiveTimeExact
  SittingFollowsForm
  CompletedOnce
  QuietIsFresh
  NeverStuckPolling
PROPERTY FinishEnds
CHECK_DEADLOCK FALSE

SPECIFICATION Spec
CONSTANTS
  None = None
  Videos = {v1}
  MaxAttempts = 2
  MaxRequests = 2
  MaxFaults = 1
  Admins = {a1, a2}
  Facilities = {"f1", "f2"}
  MaxChanges = 3
  MaxMishaps = 1
INVARIANTS AvailableStored AttemptsBounded StoresAgree
PROPERTIES VideosSettle TaskReleased RequestsAnswered
CHECK_DEADLOCK FALSE

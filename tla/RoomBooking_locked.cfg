SPECIFICATION FairSpec
CONSTANTS
  Classes = {c1, c2}
  Rooms = {r1, r2}
  Instructors = {a1, a2}
  Admins = {a1, a2}
  MaxEvents = 2
  Horizon = 1
  Handlers = {"create", "edit", "instructor"}
  OneEditorPerClass = TRUE
  None = None
  Keep = Keep
INVARIANTS TypeOK NoDoubleBooking
PROPERTIES BookingsSpec Answered

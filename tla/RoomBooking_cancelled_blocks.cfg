SPECIFICATION Spec
CONSTANTS
  Classes = {c1, c2}
  Rooms = {r1}
  Instructors = {i1, i2}
  Admins = {a1}
  MaxEvents = 3
  Horizon = 2
  Handlers = {"create", "cancelSeries"}
  OneEditorPerClass = TRUE
  None = None
  Keep = Keep
PROPERTY RefusedOnlyIfUsed

SPECIFICATION Spec
CONSTANTS
  Classes = {c1}
  Rooms = {r1}
  Instructors = {i1}
  Admins = {a1, a2}
  MaxEvents = 3
  Horizon = 3
  Handlers = {"create", "edit", "reschedule", "cancelSeries", "uncancelSeries"}
  OneEditorPerClass = FALSE
  None = None
  Keep = Keep
SYMMETRY Symmetry
PROPERTY DoubledOnlyFromStale

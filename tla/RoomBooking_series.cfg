SPECIFICATION Spec
CONSTANTS
  Classes = {c1, c2}
  Rooms = {r1, r2}
  Instructors = {i1}
  Admins = {a1}
  MaxEvents = 3
  Horizon = 3
  Handlers = {"create", "edit", "reschedule", "cancelSeries", "uncancelSeries"}
  OneEditorPerClass = TRUE
  None = None
  Keep = Keep
SYMMETRY Symmetry
INVARIANTS OneSeriesPerDate RoomsNotDoubleBooked

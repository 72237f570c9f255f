SPECIFICATION Spec
CONSTANTS
  Classes = {c1, c2}
  Rooms = {r1, r2}
  Instructors = {a1}
  Admins = {a1, a2}
  MaxEvents = 2
  Horizon = 1
  Handlers = {"create", "edit", "unassign", "add", "reschedule", "override", "cancelDate", "changeDate", "deleteOverride", "uncancelOverride"}
  OneEditorPerClass = TRUE
  None = None
  Keep = Keep
SYMMETRY Symmetry
INVARIANTS CirclesBySigning

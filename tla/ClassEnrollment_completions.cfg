SPECIFICATION Spec
CONSTANTS
  Classes = {c1}
  Users = {u1}
  Admins = {a1}
  Capacities = {1}
  MaxRows = 1
  MaxCompletions = 2
SYMMETRY Symmetry
PROPERTY OneCompletionPerEnrolled

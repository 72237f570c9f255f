SPECIFICATION Spec
CONSTANTS
  Classes = {c1}
  Users = {u1, u2}
  Admins = {a1}
  Capacities = {1}
  MaxRows = 2
  MaxCompletions = 1
SYMMETRY Symmetry
CONSTRAINT FewRows
INVARIANTS TypeOK NoEnrolledInClosedClass DeletedClassEmpty GuardStillHolds CompletedHasRecord EnrolledNotEnded EndedStamped
PROPERTY SeatsRespected

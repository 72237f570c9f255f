--------------------------- MODULE MCClassEnrollment ---------------------------
(* Instances of ClassEnrollment for TLC. *)
EXTENDS ClassEnrollment, TLC

Symmetry == Permutations(Classes) \cup Permutations(Users) \cup Permutations(Admins)

\* Two rows in all: one of each resident, or two of one.
FewRows == Cardinality({r \in Rows : enrollment[r].status # "None"}) <= 2
================================================================================

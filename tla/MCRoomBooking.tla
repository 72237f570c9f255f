----------------------------- MODULE MCRoomBooking -----------------------------
(* Instances of RoomBooking for TLC. *)
EXTENDS RoomBooking, TLC

\* An administrator who teaches differs from one who does not, and from an instructor
\* who sends nothing.
Symmetry == Permutations(Classes) \cup Permutations(Rooms)
            \cup Permutations(Admins \cap Instructors)
            \cup Permutations(Admins \ Instructors)
            \cup Permutations(Instructors \ Admins)
================================================================================

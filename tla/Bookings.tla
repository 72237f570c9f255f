-------------------------------- MODULE Bookings -------------------------------
(******************************************************************************)
(* What conflict checking promises: a table of who has booked what.  A class   *)
(* may change its bookings to any set that no other class has a part of.       *)
(******************************************************************************)
CONSTANTS Classes, Resources, Dates

VARIABLE booked    \* booked[c]: the pairs of a room or instructor and a date

Init == booked = [c \in Classes |-> {}]

Book(c, S) ==
    /\ \A other \in Classes \ {c} : S \cap booked[other] = {}
    /\ booked' = [booked EXCEPT ![c] = S]

Next == \E c \in Classes, S \in SUBSET (Resources \X Dates) : Book(c, S)

Spec == Init /\ [][Next]_booked
================================================================================

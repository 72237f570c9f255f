----------------------------- MODULE SessionLinks -----------------------------
(***************************************************************************)
(* Sessions that are cancelled or moved to another day: the rows that say  *)
(* so, the sessions the server makes of them, and what the page makes of   *)
(* both.  An event has at most one live row for a day and time, so a row   *)
(* is named by its day; every session has the same time.                   *)
(***************************************************************************)
EXTENDS Naturals, FiniteSets

CONSTANTS
  Days,     \* positive numbers
  Regular   \* the days the rule of the class gives

SessionAssumption == Regular \subseteq Days /\ Days \subseteq Nat \ {0} /\ IsFiniteSet(Days)

\* why: "none" no row, "held" a changed session, "moved" to another day, "said" it is off.
\* link: the row it was moved from, or 0.
Row(why, link) == [why |-> why, link |-> link]
NoRow == Row("none", 0)
Tables == [Days -> [why : {"none", "held", "moved", "said"}, link : Days \cup {0}]]
Off(r) == r.why \in {"moved", "said"}

\* A row that is written over keeps its link, unless it is named by its id.
Carried(rows, d) == rows[d].link
Put(rows, d, why) == [rows EXCEPT ![d] = Row(why, Carried(rows, d))]
PutById(rows, d, why) == [rows EXCEPT ![d] = Row(why, 0)]

\* Moving a session again removes the row of the day it was moved to before.
Superseded(rows, a) == {x \in Days : rows[x].link = a /\ rows[x].why = "held"}
Move(rows, a, b) ==
  LET off == Put(rows, a, "moved")
      clean == [x \in Days |-> IF x \in Superseded(off, a) THEN NoRow ELSE off[x]]
  IN [clean EXCEPT ![b] = Row("held", a)]

\* Undoing removes every row linked with it, directly or not, forwards or backwards.
Linked(rows, x, y) == rows[x].link = y \/ rows[y].link = x
Chain(rows, d) ==
  {y \in Days : \A S \in SUBSET Days :
     d \in S /\ (\A x \in S, z \in Days : Linked(rows, x, z) => z \in S) => y \in S}
Undone(rows, d) == [x \in Days |-> IF x \in Chain(rows, d) THEN NoRow ELSE rows[x]]
Uncancelled(rows, d) == IF rows[d].why = "none" THEN rows ELSE [rows EXCEPT ![d].why = "held"]

\* The row that was moved from x: one, while no two sessions share a day.
From(rows, x) == {y \in Days : rows[y].link = x /\ rows[y].why # "none"}
Onward(rows, x) == IF From(rows, x) = {} THEN {} ELSE {CHOOSE z \in From(rows, x) : TRUE}
\* The days a session was moved on from, beginning with d, and where it ends.
Moved(rows) == {x \in Days : rows[x].why = "moved"}
Walked(rows, d) ==
  {y \in Moved(rows) : \A S \in SUBSET Moved(rows) :
     d \in S /\ (\A x \in S : Onward(rows, x) \cap Moved(rows) \subseteq S) => y \in S}
End(rows, d) ==
  LET ends == (UNION {Onward(rows, x) : x \in Walked(rows, d)}) \ Moved(rows) IN
  [at |-> IF ends = {} THEN 0 ELSE CHOOSE y \in ends : TRUE, past |-> Walked(rows, d) \ {d}]

\* The sessions the server makes: the regular ones and those moved to a day, which take the
\* place of one that is there.
MovedHere(rows, d) == rows[d].why # "none" /\ rows[d].link \notin {0, d}
IsSession(rows, d) == d \in Regular \/ MovedHere(rows, d)
Session(rows, d) ==
  IF MovedHere(rows, d) THEN [off |-> Off(rows[d]), moved |-> FALSE, by |-> d, to |-> 0]
  ELSE [off |-> Off(rows[d]), moved |-> rows[d].why = "moved",
        by |-> IF rows[d].why = "none" THEN 0 ELSE d,
        to |-> IF rows[d].why = "moved" THEN End(rows, d).at ELSE 0]
Sessions(rows) == [d \in {x \in Days : IsSession(rows, x)} |-> Session(rows, d)]

\* The page follows the links of the class it has, from the days nothing was moved to.
Roots(rows) == {d \in Days : rows[d] = Row("moved", 0)}
Between(rows) == UNION {End(rows, d).past : d \in Roots(rows)}
GoesTo(rows, d) == IF d \in Roots(rows) THEN End(rows, d).at ELSE 0
CameFrom(rows, d) == {x \in Roots(rows) : GoesTo(rows, x) = d}

\* A session as the page shows it, made of the class and of the sessions it has.
Shows1(rows, sessions, d) ==
  LET s == sessions[d]
      leaves == s.off /\ (GoesTo(rows, d) # 0 \/ s.moved)
      comes == CameFrom(rows, d) # {}
  IN [from |-> leaves,
      to |-> comes /\ (~s.off \/ leaves),
      toOff |-> comes /\ s.off /\ ~leaves,
      off |-> s.off /\ ~leaves /\ ~comes,
      where |-> IF leaves THEN (IF GoesTo(rows, d) # 0 THEN GoesTo(rows, d) ELSE s.to) ELSE 0,
      by |-> IF leaves THEN (IF GoesTo(rows, d) # 0 THEN GoesTo(rows, d) ELSE s.by)
             ELSE IF comes THEN d ELSE 0]
Displays(rows, sessions) ==
  [d \in DOMAIN sessions \ Between(rows) |-> Shows1(rows, sessions, d)]
=============================================================================

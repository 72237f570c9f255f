---------------------------- MODULE EnrollResidents ----------------------------
(***************************************************************************)
(* The dialog that enrolls residents from the page of a class.  It asks    *)
(* which of those it lists have a conflict and warns of them beside their  *)
(* names; what it sends asks for no check.                                 *)
(***************************************************************************)
EXTENDS Screen

CONSTANTS
  Searches,  \* what a search may find
  Clash,     \* those another class keeps busy
  Capacity

People == UNION Searches

Idle == [open |-> FALSE, query |-> People, selected |-> {}, warned |-> {}, enrolled |-> 0,
         busy |-> {}, doubt |-> FALSE]
\* The server has the residents who are in the class.
Init == server = {} /\ shown = None /\ wire = {} /\ ui = Idle

\* A search finds some of those who are not enrolled.
Rows == ui.query \ server
Seen == IF shown = None THEN {} ELSE shown
Spots == Capacity - ui.enrolled

Open == ~ui.open /\ shown' = None /\ wire' = Refetch(wire) /\ ui' = [Doubtless(ui) EXCEPT !.open = TRUE] /\ UNCHANGED server
Search(found) ==
  /\ ui.open /\ found # ui.query
  /\ shown' = None /\ wire' = Refetch(wire) /\ ui' = [Doubtless(ui) EXCEPT !.query = found] /\ UNCHANGED server
\* Closed it empties itself, and a request on the wire no longer keeps it from sending.
Emptied(u) == [Idle EXCEPT !.enrolled = u.enrolled]
Leaves(w) == {q \in w : q.op # "list"}
Close == ui.open /\ ui' = Emptied(ui) /\ shown' = None /\ wire' = Leaves(wire) /\ UNCHANGED server

\* The list arrives, and its conflicts are asked for.  Bound: fewer than MaxWrites such
\* questions of earlier lists are out by then.
AskFor(ids) == [Request("conflicts", ids) EXCEPT !.nth = 0]
ListAndAsk ==
  \E q \in Pending("list") :
    /\ q.status = "done" /\ Cardinality(Pending("conflicts")) < MaxWrites
    /\ shown' = q.rows /\ UNCHANGED <<server, ui>>
    /\ wire' = (wire \ {q}) \cup (IF q.rows = {} THEN {} ELSE {AskFor(q.rows)})

\* The answer replaces every warning, whichever list it was asked for.
ConflictsArrive ==
  \E q \in Pending("conflicts") :
    /\ ui' = [ui EXCEPT !.warned = q.ids \cap Clash]
    /\ wire' = wire \ {q} /\ UNCHANGED <<server, shown>>
ConflictsFail ==
  \E q \in Pending("conflicts") : wire' = wire \ {q} /\ UNCHANGED <<server, shown, ui>>

Toggle(p) ==
  /\ ui.open /\ p \in Seen
  /\ Shows([ui EXCEPT !.selected = IF p \in @ THEN @ \ {p} ELSE @ \cup {p}])

\* The button counts against the seats the page knows of.
Enroll ==
  /\ ui.open /\ ui.selected # {} /\ Cardinality(ui.selected) <= Spots
  /\ "enroll" \notin ui.busy /\ Cardinality(Pending("enroll")) < MaxWrites
  /\ ui' = Submitted(ui, "enroll") /\ UNCHANGED <<server, shown>>
  /\ wire' = wire \cup {[Request("enroll", ui.selected) EXCEPT !.rows = ui.warned]}

\* The server fills the seats there are and leaves out the rest.
Seated(ids) == {s \in SUBSET ids : Cardinality(s \cup server) <= Capacity}
Fullest(ids) == {s \in Seated(ids) : \A t \in Seated(ids) : Cardinality(t) <= Cardinality(s)}
Serve(q) == q.op = "enroll" /\ \E s \in Fullest(q.ids \ server) : Served(q, server \cup s)
\* The page fetches the class again when it likes, and at each success.
ClassArrives == ui.enrolled # Cardinality(server) /\ Shows([ui EXCEPT !.enrolled = Cardinality(server)])

\* Success closes the dialog, whatever it holds by now.
Succeeds(q) ==
  /\ Answered(q) /\ q.op = "enroll" /\ UNCHANGED server
  /\ ui' = Emptied(ui) /\ shown' = None /\ wire' = Leaves(wire \ {q})
FailsHere(q) == q.op = "enroll" /\ Fails(q)

Next ==
  \/ Open \/ Close \/ Enroll \/ ClassArrives \/ ListServed(Rows) \/ ListAndAsk \/ ListLost
  \/ ConflictsArrive \/ ConflictsFail
  \/ \E p \in People : Toggle(p)
  \/ \E found \in Searches : Search(found)
  \/ \E q \in wire : Serve(q) \/ Succeeds(q) \/ FailsHere(q)

QuietIsFresh == Fresh(Rows)

\* A resident with a conflict is sent only after a warning of it was shown.
SentWereWarned == \A q \in Pending("enroll") : q.ids \cap Clash \subseteq q.rows
=============================================================================

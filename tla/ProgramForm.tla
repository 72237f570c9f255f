------------------------------- MODULE ProgramForm -------------------------------
(***************************************************************************)
(* The form that creates a program or edits one.  It is filled in from the *)
(* program fetched, again whenever a fetch brings other data, and it does  *)
(* not let a facility go where the program has classes to run.             *)
(***************************************************************************)
EXTENDS Screen

CONSTANTS
  Places,   \* the facilities of the administrator
  Own,      \* the one the administrator is in
  Limit,    \* bound: programs there ever are
  Required  \* the fields programFormSchema asks for: name, description, types, credit types

ProgramFormAssumption == Own \in Places /\ Limit \in Nat \ {0}

\* The program: where it is offered, and where it has active or scheduled classes, which the
\* server does not compare.  "made" counts the programs there are.
Programs == [made : {1}, places : SUBSET Places, classes : SUBSET Places]
Nothing == [made |-> 0, places |-> {}, classes |-> {}]
Rows == server

\* buildDefaultValues
Blank(u) == [u EXCEPT !.filled = {}, !.places = {}]
Defaults(u, p) == [u EXCEPT !.filled = Required, !.places = p.places]

Closed(edits) ==
  [edits |-> edits, left |-> FALSE, warned |-> FALSE, filled |-> {}, places |-> {},
   busy |-> {}, doubt |-> FALSE]

\* A program that was shown before is shown as it was then, until it has been fetched again.
Init ==
  \/ /\ server = Nothing /\ shown = None /\ wire = {} /\ ui = Blank(Closed(FALSE))
  \/ /\ server \in Programs /\ shown \in Programs \cup {None} /\ wire = {Fetch}
     /\ ui = IF shown = None THEN Blank(Closed(TRUE)) ELSE Defaults(Closed(TRUE), shown)

\* The effect on [program]: reset also discards what was typed, and enables the button of a
\* save under way.
Reset(p) == [Defaults(ui, p) EXCEPT !.busy = {}]
Arrives ==
  \E q \in Pending("list") :
    /\ q.status = "done" /\ wire' = wire \ {q} /\ shown' = q.rows /\ UNCHANGED server
    /\ ui' = IF q.rows = shown \/ ui.left THEN ui ELSE Reset(q.rows)

Open == ~ui.left /\ ~ui.warned
Fill(f) == Open /\ f \notin ui.filled /\ Shows([ui EXCEPT !.filled = @ \cup {f}])
Clear(f) == Open /\ f \in ui.filled /\ Shows([ui EXCEPT !.filled = @ \ {f}])

\* The checkbox of a facility.
InUse(f) == shown # None /\ f \in shown.classes
Check(f) == Open /\ f \notin ui.places /\ Shows([ui EXCEPT !.places = @ \cup {f}])
Uncheck(f) ==
  /\ Open /\ f \in ui.places
  /\ Shows(IF InUse(f) THEN [ui EXCEPT !.warned = TRUE] ELSE [ui EXCEPT !.places = @ \ {f}])
CloseWarning == ui.warned /\ Shows([ui EXCEPT !.warned = FALSE])

\* onSubmit.  Until the program has been fetched an edit starts from an empty form.
Save ==
  /\ Open /\ Required \subseteq ui.filled
  /\ Send(IF ui.edits THEN "edit" ELSE "create", ui.places)
Leave == [ui EXCEPT !.left = TRUE]
Cancel == Open /\ Shows(Leave)

\* A program for no facility is one for the administrator's own; the facilities are written
\* after it, and a failure of that is only logged.
ServeCreate(q) ==
  /\ q.op = "create" /\ server.made < Limit
  /\ \E at \in {IF q.ids = {} THEN {Own} ELSE q.ids, {}} :
       Served(q, [server EXCEPT !.made = @ + 1, !.places = at])

\* updateFacilitiesPrograms: the facilities become those of the request, wherever classes run.
ServeEdit(q) == q.op = "edit" /\ Served(q, [server EXCEPT !.places = q.ids])

\* Another administrator edits the program, and classes are scheduled, completed or cancelled.
Elsewhere == ui.edits /\ server' \in Programs /\ UNCHANGED <<shown, wire, ui>>

\* navigate to the program, also from a form that was left.
Saved(q) == Answered(q) /\ Settles(q, Leave)

Next ==
  \/ \E f \in Required : Fill(f) \/ Clear(f)
  \/ \E f \in Places : Check(f) \/ Uncheck(f)
  \/ CloseWarning \/ Save \/ Cancel \/ Elsewhere
  \/ ListServed(Rows) \/ Arrives \/ ListLost
  \/ \E q \in wire : ServeCreate(q) \/ ServeEdit(q) \/ Saved(q) \/ Fails(q)

\* One click too many creates no second program.  An edit may be sent again.
NoDoubleSubmit == Single({"create"})

\* No save takes a program from a facility where, as far as the page was told, it has classes,
\* whatever was fetched, checked and unchecked before.
KeepsClasses ==
  \A q \in wire' \ wire :
    q.op = "edit" /\ q.status = "sent" /\ shown # None => shown.places \cap shown.classes \subseteq q.ids
SavesClasses == [][KeepsClasses]_screen
=============================================================================

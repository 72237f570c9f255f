---------------------------- MODULE ClassForm ----------------------------
(***************************************************************************)
(* The form that creates a class, on a page of its own or inside the       *)
(* program's page, and that edits one on a page of its own.                *)
(***************************************************************************)
EXTENDS Screen

CONSTANTS Days, NoDate, LastDay, Rooms

INSTANCE ClassSchedule

Start == 1   \* the class's start date
Blank == [cadence |-> "weekly", every |-> 1, days |-> {}, until |-> NoDate]
Modes == {"embedded", "new", "edit"}

\* The server has rooms; a class that is edited has one of them.
Init ==
  /\ server \in SUBSET Rooms
  /\ \E mode \in Modes, closed \in BOOLEAN :
       /\ mode = "edit" => server # {}
       /\ mode # "edit" => ~closed
       /\ \E room \in (IF mode = "edit" THEN server ELSE {None}),
             known \in {{}, server} :
            /\ mode = "edit" => known = server
            /\ ui = [mode |-> mode, closed |-> closed, form |-> Blank, rooms |-> known, room |-> room,
                     dialog |-> "none", conflicts |-> FALSE, left |-> FALSE, busy |-> {}, doubt |-> FALSE]
            /\ wire = IF known = {} THEN {Fetch} ELSE {}
  /\ shown = None

Here == ~ui.left
\* Inside the program's page the field for a new room is part of the form.
Free == Here /\ ~ui.conflicts /\ (ui.dialog = "none" \/ ui.mode = "embedded")

\* The page is given the rooms, or fetches them while it knows of none.
RoomsArrive ==
  \E q \in Pending("list") :
    /\ wire' = wire \ {q}
    /\ ui' = IF q.status = "done" /\ ui.rooms = {} THEN [ui EXCEPT !.rooms = q.rows] ELSE ui
    /\ UNCHANGED <<server, shown>>

Fill(field, value) == Free /\ ui.form[field] # value /\ Shows([ui EXCEPT !.form[field] = value])
SetUntil(d) == ui.mode # "edit" /\ Fill("until", d)
SetCadence(c) == ui.mode = "embedded" /\ Fill("cadence", c)
\* The interval belongs to the custom pattern; leaving that goes back to weekly.
SetEvery(n) == ui.form.cadence = "custom" /\ Fill("every", n)
LeavePattern == ui.form.cadence = "custom" /\ Fill("cadence", "weekly")
ToggleDay(d) ==
  /\ ui.mode # "edit" /\ ui.form.cadence \in OnDays
  /\ Fill("days", IF d \in ui.form.days THEN ui.form.days \ {d} ELSE ui.form.days \cup {d})
ChooseRoom(r) == Free /\ r \in ui.rooms /\ Shows([ui EXCEPT !.room = r])
OpenDialog(d) ==
  /\ Free /\ ui.dialog = "none" /\ (d = "instructor" => ui.mode # "embedded")
  /\ Shows([ui EXCEPT !.dialog = d])
CloseDialog == Here /\ ui.dialog # "none" /\ Shows([ui EXCEPT !.dialog = "none"])
CloseConflicts == Here /\ ui.conflicts /\ Shows([ui EXCEPT !.conflicts = FALSE])
Cancel == Free /\ Shows([ui EXCEPT !.left = TRUE])

\* Nothing stops a second click on these two buttons.
AddRoom(r) == Here /\ ui.dialog = "room" /\ SendFreely("room", {r})
AddInstructor == Here /\ ui.dialog = "instructor" /\ SendFreely("instructor", {})

\* The schema asks for a room, and of a new class for days where the cadence has them.
Valid ==
  /\ ui.room # None
  /\ ui.mode # "edit" /\ ui.form.cadence \in OnDays => ui.form.days # {}
\* A class that is over is not sent.  An edit keeps the rule there is.
Submit ==
  /\ Free /\ Valid /\ ~ui.closed
  /\ Send("save", IF ui.mode # "edit"
                  THEN {[asked |-> Asked(ui.form, Start), rule |-> Created(ui.form, Start)]} ELSE {})

Serve(q) ==
  \/ q.op = "room" /\ q.ids \cap server = {} /\ Served(q, server \cup q.ids)
  \/ q.op \in {"instructor", "save"} /\ Served(q, server)
  \/ q.op = "save" /\ q.status = "sent" /\ wire' = Becomes(q, "conflict")
     /\ UNCHANGED <<server, shown, ui>>

\* The answer to a dialog closes whichever is open and empties it, however it turned out;
\* a new room joins the list and is chosen.
WithRoom(r) == [ui EXCEPT !.rooms = @ \cup {r}, !.room = r]
Closes(u, d) == [u EXCEPT !.dialog = IF @ = d THEN "none" ELSE @]
Succeeds(q) ==
  /\ Answered(q)
  /\ \/ q.op = "room" /\ \E r \in q.ids : Settles(q, Closes(WithRoom(r), "room"))
     \/ q.op = "instructor" /\ Settles(q, Closes(ui, "instructor"))
     \/ q.op = "save" /\ Settles(q, [ui EXCEPT !.left = TRUE])

Conflicts(q) == q.op = "save" /\ q.status = "conflict" /\ Settles(q, [ui EXCEPT !.conflicts = TRUE])

FailsHere(q) ==
  IF q.op = "save" THEN Fails(q)
  ELSE /\ q \in Writes /\ ui' = [Closes(ui, q.op) EXCEPT !.doubt = @ \/ q.status # "sent"]
       /\ wire' = wire \ {q} /\ UNCHANGED <<server, shown>>

Next ==
  \/ LeavePattern \/ CloseDialog \/ CloseConflicts \/ Cancel \/ Submit \/ AddInstructor
  \/ \E d \in {NoDate, LastDay} : SetUntil(d)
  \/ \E c \in Cadences : SetCadence(c)
  \/ \E n \in {1, 3} : SetEvery(n)
  \/ \E d \in Days : ToggleDay(d)
  \/ \E r \in Rooms : ChooseRoom(r) \/ AddRoom(r)
  \/ \E d \in {"room", "instructor"} : OpenDialog(d)
  \/ ListServed(server) \/ RoomsArrive
  \/ \E q \in wire : Serve(q) \/ Succeeds(q) \/ Conflicts(q) \/ FailsHere(q)

NoDoubleSubmit == Single({"save"})

\* The room the form holds is one its list has, so that the select shows it.
RoomIsListed == ui.room # None => ui.room \in ui.rooms

\* The rule that is sent for a new class stands for the dates the form asks for.
CreatedAsAsked == \A q \in Pending("save") : \A s \in q.ids : Meets(s.rule) = s.asked
=============================================================================

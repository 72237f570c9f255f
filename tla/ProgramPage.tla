------------------------------ MODULE ProgramPage ------------------------------
(***************************************************************************)
(* The page of one program: the statewide one of department administrators *)
(* and the one of a facility, with the dialogs they share.  A program is   *)
(* archived in two steps: the page asks for open classes, then confirms.   *)
(***************************************************************************)
EXTENDS Screen

CONSTANT Limit   \* bound: requests of one kind on the wire

Statuses == {"Available", "Inactive", "Archived"}
StatusOf(p) == IF p.archived THEN "Archived" ELSE IF p.active THEN "Available" ELSE "Inactive"

IsOpen == server.class = "open"

\* programResp
Rows == [active |-> server.active, archived |-> server.archived]

Init ==
  /\ server \in [active : BOOLEAN, archived : {FALSE}, offered : {TRUE},
                 class : {"none", "open"}, gone : {FALSE}]
  /\ ui \in [statewide : BOOLEAN, dialogs : {{}}, form : {None}, canDelete : {TRUE}, busy : {{}}, doubt : {FALSE}]
  /\ shown = None /\ wire = {Fetch}

Known == shown # None
Status == StatusOf(shown)
Calm == Known /\ ui.dialogs = {}
Opened(u, d) == [u EXCEPT !.dialogs = @ \cup {d}]
Shut(u, d) == [u EXCEPT !.dialogs = @ \ {d}, !.form = IF d = "edit" THEN None ELSE @]

\* A request carries what it sets.
Ask(op, value) ==
  /\ Cardinality(Pending(op)) < Limit /\ MaySend(op)
  /\ wire' = wire \cup {[Request(op, {}) EXCEPT !.rows = value]}

-----------------------------------------------------------------------------
\* handleProgramStatusChange: archived_at is set, cleared or left alone, as the program shown
\* was archived or not.  Nothing is disabled meanwhile.
Change(s, was) ==
  [active |-> s = "Available",
   archived |-> IF s = "Archived" THEN "set" ELSE IF was = "Archived" THEN "clear" ELSE "keep"]
SetStatus(s) == Ask("status", Change(s, Status)) /\ UNCHANGED <<server, shown>>
ChooseStatus(s) == Calm /\ {s, Status} = {"Available", "Inactive"} /\ SetStatus(s) /\ UNCHANGED ui

\* handleArchiveCheck
CheckArchive ==
  Calm /\ Status # "Archived" /\ "check" \notin ui.busy /\ Ask("check", None)
  /\ ui' = Submitted(ui, "check") /\ UNCHANGED <<server, shown>>

OpenReactivate == Calm /\ Status = "Archived" /\ Shows(Opened(ui, "reactivate"))
OpenDelete == Calm /\ ui.canDelete /\ Shows(Opened(ui, "delete"))

\* The form starts from the program, and starts again when that changes under it.
FormOf(p) == [status |-> StatusOf(p)]
OpenEdit == Calm /\ Shows([Opened(ui, "edit") EXCEPT !.form = FormOf(shown)])
PickStatus(s) == "edit" \in ui.dialogs /\ Shows([ui EXCEPT !.form.status = s])

OpenCreate == Calm /\ ~ui.statewide /\ Status = "Available" /\ Shows(Opened(ui, "create"))

Close(d) == d \in ui.dialogs /\ Shows(Shut(ui, d))

\* The dialogs of archiving and reactivating close with the click, their requests go on.
Archive == "archive" \in ui.dialogs /\ Known /\ SetStatus("Archived") /\ ui' = Shut(ui, "archive")
Reactivate(s) == "reactivate" \in ui.dialogs /\ Known /\ SetStatus(s) /\ ui' = Shut(ui, "reactivate")
SubmitDelete == "delete" \in ui.dialogs /\ Known /\ Ask("delete", None) /\ UNCHANGED <<server, shown, ui>>

\* handleSaveStatus: the class shown gets the status picked, here open or paused.
OpenClass == Calm /\ ~ui.statewide /\ server.class # "none" /\ Shows(Opened(ui, "class"))
SaveClass(s) ==
  "class" \in ui.dialogs /\ Ask("class", s) /\ ui' = Shut(ui, "class") /\ UNCHANGED <<server, shown>>

\* handleSave: the fields, the facilities only from a department administrator, then perhaps
\* the status.
SubmitEdit ==
  /\ "edit" \in ui.dialogs /\ Known /\ "edit" \notin ui.busy
  /\ Ask("edit", [form |-> ui.form, from |-> Status, offers |-> ui.statewide])
  /\ ui' = Submitted(ui, "edit") /\ UNCHANGED <<server, shown>>
SubmitCreate ==
  /\ "create" \in ui.dialogs /\ "create" \notin ui.busy /\ Ask("create", None)
  /\ ui' = Submitted(ui, "create") /\ UNCHANGED <<server, shown>>

-----------------------------------------------------------------------------
\* The server checks and writes in separate statements.
Passes(q) == wire' = Becomes(q, "checked") /\ UNCHANGED <<server, shown, ui>>
Refuses(q) == wire' = Becomes(q, "refused") /\ UNCHANGED <<server, shown, ui>>
Carries(q, rows) == wire' = Becomes(q, "done") /\ server' = rows /\ UNCHANGED <<shown, ui>>
Alive == ~server.gone

\* UpdateProgramStatus: no archiving over open classes.
ServeStatus(q) ==
  /\ q.op = "status" /\ Alive
  /\ \/ q.status = "sent" /\ (IF q.rows.archived = "set" /\ IsOpen THEN Refuses(q) ELSE Passes(q))
     \/ /\ q.status = "checked"
        /\ Carries(q, [server EXCEPT !.active = q.rows.active,
                                     !.archived = (@ \/ q.rows.archived = "set") /\ q.rows.archived # "clear"])

\* UpdateProgram: the facilities become those of the request, also when it has none.
Offered(q) == q.rows.offers
ServeEdit(q) ==
  /\ q.op = "edit" /\ q.status = "sent" /\ Alive
  /\ Carries(q, [server EXCEPT !.active = q.rows.form.status = "Available",
                              !.offered = Offered(q)])

ServeCheck(q) == q.op = "check" /\ q.status = "sent" /\ (IF IsOpen THEN Refuses(q) ELSE Carries(q, server))

ServeDelete(q) ==
  /\ q.op = "delete" /\ Alive
  /\ \/ q.status = "sent" /\ (IF IsOpen THEN Refuses(q) ELSE Passes(q))
     \/ q.status = "checked" /\ Carries(q, [server EXCEPT !.gone = TRUE])

ServeCreate(q) ==
  /\ q.op = "create" /\ Alive
  /\ \/ q.status = "sent" /\ server.active /\ ~server.archived /\ server.offered /\ Passes(q)
     \/ q.status = "checked" /\ Carries(q, [server EXCEPT !.class = "open"])

\* The status of the program is not asked for: a paused class resumes under an archived one.
ServeClass(q) ==
  q.op = "class" /\ q.status = "sent" /\ Alive /\ Carries(q, [server EXCEPT !.class = q.rows])

Serve(q) == ServeClass(q) \/ ServeStatus(q) \/ ServeEdit(q) \/ ServeCheck(q) \/ ServeDelete(q) \/ ServeCreate(q)

-----------------------------------------------------------------------------
\* The second request of handleSave: archiving, or the way back.
Moves(q) == (q.rows.form.status = "Archived") # (q.rows.from = "Archived")
EditGoesOn(q) ==
  /\ wire' = (wire \ {q}) \cup {[q EXCEPT !.op = "status", !.rows = Change(q.rows.form.status, q.rows.from),
                                      !.status = "sent", !.ids = {"edit"}]}
  /\ UNCHANGED <<server, shown, ui>>

Refreshed(q, u) == SettlesAndFetches(q, u)
Saved(q) == Refreshed(q, Shut(ui, "edit"))

\* navigate('/programs')
Leave == ui' = [ui EXCEPT !.dialogs = {}, !.form = None] /\ wire' = {} /\ shown' = None /\ UNCHANGED server

Succeeds(q) ==
  /\ q.status = "done"
  /\ CASE q.op = "status" /\ q.ids = {} -> Refreshed(q, ui)
       [] q.op = "status" /\ q.ids # {} ->
            /\ ui' = [Doubtless(Shut(ui, "edit")) EXCEPT !.busy = @ \ {"edit"}]
            /\ wire' = Refetch(wire \ {q}) /\ UNCHANGED <<server, shown>>
       [] q.op = "edit" -> IF Moves(q) THEN EditGoesOn(q) ELSE Saved(q)
       [] q.op = "check" -> Settles(q, Opened(ui, "archive"))
       [] q.op = "delete" -> Leave
       [] q.op = "class" -> Refreshed(q, ui)
       [] q.op = "create" -> Settles(q, Shut(ui, "create"))
       [] OTHER -> FALSE

\* A refusal: the blocking facilities, a toast, or the reason why nothing can be deleted; the
\* fields that were saved with a refused status are not fetched.
Half(q) == q.op = "status" /\ q.ids # {}
Lock(q) == IF Half(q) THEN "edit" ELSE q.op
Refusal(q) ==
  /\ q.status = "refused" /\ wire' = wire \ {q} /\ UNCHANGED <<server, shown>>
  /\ ui' = [CASE q.op = "check" -> Opened(ui, "cannot archive")
              [] q.op = "delete" -> [ui EXCEPT !.canDelete = FALSE]
              [] OTHER -> ui EXCEPT !.busy = @ \ {Lock(q)}, !.doubt = @ \/ Half(q)]
FailsHere(q) ==
  /\ q \in Writes /\ q.status # "refused"
  /\ ui' = [ui EXCEPT !.busy = @ \ {Lock(q)},
                      !.doubt = @ \/ q.status # "sent" \/ Half(q)]
  /\ wire' = wire \ {q} /\ UNCHANGED <<server, shown>>

\* The program arrives.  An open form starts again from it when it changed.
Arrives ==
  \E q \in Pending("list") :
    /\ q.status = "done" /\ wire' = wire \ {q} /\ shown' = q.rows /\ UNCHANGED server
    /\ ui' = IF "edit" \in ui.dialogs /\ q.rows # shown THEN [ui EXCEPT !.form = FormOf(q.rows)] ELSE ui

Next ==
  \/ \E s \in Statuses : ChooseStatus(s) \/ PickStatus(s)
  \/ Reactivate("Available") \/ Reactivate("Inactive")
  \/ CheckArchive \/ OpenReactivate \/ OpenDelete \/ OpenEdit \/ OpenCreate
  \/ \E d \in ui.dialogs : Close(d)
  \/ OpenClass \/ SaveClass("open") \/ SaveClass("paused")
  \/ Archive \/ SubmitDelete \/ SubmitEdit \/ SubmitCreate
  \/ Alive /\ ListServed(Rows)
  \/ Arrives \/ ListLost
  \/ \E q \in wire : Serve(q) \/ Succeeds(q) \/ Refusal(q) \/ FailsHere(q)

Spec == Init /\ [][Next]_screen

NoDoubleSubmit == Single({"edit", "create", "check"})
QuietIsFresh == Fresh(Rows)

\* Only a department administrator is shown which facilities offer the program, and whoever
\* is not shown them does not change them.
KeepsOffers == ui.statewide \/ server.offered
=============================================================================

--------------------------- MODULE ResidentImport ---------------------------
(***************************************************************************)
(* The bulk import dialog of the residents page: a CSV file is validated   *)
(* by the server, then the valid rows become accounts.                     *)
(***************************************************************************)
EXTENDS Screen

CONSTANTS
  Files,        \* CSV files at hand
  ChoosesPlace  \* showFacilitySelect: the administrator serves several facilities

VARIABLE placed \* showFacilitySelect and a facility is selected

vars == <<screen, placed>>

\* The rows of a file are accounts or not; the list behind the dialog shows which.
Rows == server

Init ==
  /\ server = {} /\ shown = None /\ wire = {Fetch} /\ placed = FALSE
  /\ ui = [dialog |-> FALSE, step |-> "upload", file |-> None, rows |-> None,
           busy |-> {}, doubt |-> FALSE]

Open ==
  ~ui.dialog /\ Shows([ui EXCEPT !.dialog = TRUE]) /\ UNCHANGED placed

\* reset: the facility becomes the default one, which the first opening does not have.
Reset(u) == [u EXCEPT !.step = "upload", !.file = None, !.rows = None]

\* handleOpenChange(false), also while a request is out.
Close ==
  /\ ui.dialog /\ ui' = [Reset(ui) EXCEPT !.dialog = FALSE] /\ placed' = ChoosesPlace
  /\ UNCHANGED <<server, shown, wire>>

SelectPlace ==
  /\ ui.dialog /\ ui.step = "upload" /\ ChoosesPlace /\ placed' = TRUE
  /\ UNCHANGED screen

\* handleFileUpload
ChooseFile(f) ==
  /\ ui.dialog /\ ui.step = "upload" /\ ui' = [ui EXCEPT !.file = f]
  /\ UNCHANGED <<server, shown, wire, placed>>

\* handleValidateCSV
Validate == ui.dialog /\ ui.step = "upload" /\ ui.file # None /\ Send("upload", {ui.file}) /\ UNCHANGED placed

Back ==
  /\ ui.dialog /\ ui.step = "rows" /\ ui' = [ui EXCEPT !.step = "upload", !.rows = None]
  /\ UNCHANGED <<server, shown, wire, placed>>

\* handleCreateAccounts: no accounts without valid rows and a facility.
CreateAccounts ==
  /\ ui.dialog /\ ui.step = "rows" /\ ui.rows # None /\ (ChoosesPlace => placed)
  /\ Send("create", {ui.rows}) /\ UNCHANGED placed

Serve(q) == Served(q, IF q.op = "create" THEN server \cup q.ids ELSE server) /\ UNCHANGED placed

\* The rows of a validated file appear, also in a dialog that was left meanwhile; a
\* successful creation closes the dialog and fetches the list, but not the statistics.
Succeeds(q) ==
  /\ Answered(q)
  /\ \/ /\ q.op = "upload" /\ UNCHANGED placed
        /\ Settles(q, [ui EXCEPT !.step = "rows", !.rows = CHOOSE f \in q.ids : TRUE])
     \/ /\ q.op = "create" /\ placed' = ChoosesPlace
        /\ SettlesAndFetches(q, [Reset(ui) EXCEPT !.dialog = FALSE])

Next ==
  \/ Open \/ Close \/ SelectPlace \/ Validate \/ Back \/ CreateAccounts
  \/ \E f \in Files : ChooseFile(f)
  \/ (ListServed(Rows) \/ ListArrives) /\ UNCHANGED placed
  \/ \E q \in wire : Serve(q) \/ Succeeds(q) \/ (Fails(q) /\ UNCHANGED placed)

\* Accounts are not created twice by one click too many, not even over a second opening.
NoDoubleSubmit == Single({"upload", "create"})

QuietIsFresh == Fresh(Rows)
=============================================================================

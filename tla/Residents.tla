------------------------------ MODULE Residents ------------------------------
(***************************************************************************)
(* The residents page: a paged, filtered list, a selection for the bulk    *)
(* actions, and one dialog at a time.                                      *)
(***************************************************************************)
EXTENDS Screen

CONSTANTS
  People,   \* residents there are or may be: 1..n in the order of the list
  Filters,  \* whom a search or a facility filter leaves in the list
  Explored  \* bound: the dialogs opened in one behaviour are those of one of these sets

PeopleAssumption ==
  /\ People \subseteq Nat \ {0} /\ IsFiniteSet(People) /\ None \notin People
  /\ People \in Filters /\ \A f \in Filters : f \subseteq People

Confirmed == {"deactivate", "delete", "transfer"}
Bulk == {"bulk reset", "bulk deactivate", "bulk delete"}
Actions == Confirmed \cup {"edit", "reset"}
\* Dialogs that disable their button while a request is out; "edit" does not.
Guarded == Confirmed \cup Bulk \cup {"reset", "add"}

-----------------------------------------------------------------------------
\* The rows of a page, one to a page, in the order of the list.
Listed(f) == {r \in f : server[r] # "none"}
Place(r, f) == Cardinality({x \in Listed(f) : x <= r})
Rows == {[id |-> r, status |-> server[r]] : r \in {r \in Listed(ui.filter) : Place(r, ui.filter) = ui.page}}
ActiveShown == IF shown = None THEN {} ELSE {row.id : row \in {row \in shown : row.status = "active"}}

Init ==
  /\ server \in [People -> {"active", "none"}] /\ server[1] = "active"
  /\ \E used \in Explored :
       ui = [filter |-> People, page |-> 1, selection |-> {}, dialog |-> "none", item |-> None,
             busy |-> {}, password |-> None, completed |-> FALSE, doubt |-> FALSE, used |-> used]
  /\ shown = None /\ wire = Refetch({})

\* handleSearchChange, the facility filter and toggleSort: the first page, nothing selected.
\* Mutant of Unselected: the selection survives the filter.
UnselectedM(u) == u
Unselected(u) == [u EXCEPT !.selection = {}]
ChangeFilter(f) ==
  /\ ui.dialog = "none"
  /\ ui' = [Doubtless(Unselected(ui)) EXCEPT !.filter = f, !.page = 1]
  /\ shown' = None /\ wire' = Refetch(wire) /\ UNCHANGED server

\* Pages count from one.
Pages == 1..Cardinality(People)
\* The selection goes with the resident from page to page.
TurnPage(p) ==
  /\ ui.dialog = "none" /\ shown # None /\ p # ui.page
  /\ ui' = [Doubtless(ui) EXCEPT !.page = p] /\ shown' = None /\ wire' = Refetch(wire) /\ UNCHANGED server

\* toggleSelectResident, toggleSelectAll (one row to a page) and "Clear Selection"; a selection is
\* made where a bulk dialog may use it.
ToggleSelect(r) ==
  /\ ui.dialog = "none" /\ r \in ActiveShown /\ ui.used \cap Bulk # {}
  /\ Shows([ui EXCEPT !.selection = IF r \in @ THEN @ \ {r} ELSE @ \cup {r}])

ClearSelection ==
  ui.dialog = "none" /\ ui.selection # {} /\ Shows([ui EXCEPT !.selection = {}])

-----------------------------------------------------------------------------
\* openAction; ResetPasswordModal forgets an earlier reset when it opens.
OpenAction(r, d) ==
  /\ ui.dialog = "none" /\ r \in ActiveShown /\ d \in ui.used
  /\ Shows([ui EXCEPT !.dialog = d, !.item = r,
                      !.busy = IF d = "reset" THEN @ \ {"reset"} ELSE @,
                      !.password = IF d = "reset" THEN None ELSE @])

OpenBulk(d) ==
  ui.dialog = "none" /\ ui.selection # {} /\ d \in ui.used /\ Shows([ui EXCEPT !.dialog = d])

OpenAdd ==
  ui.dialog = "none" /\ "add" \in ui.used /\ Shows([ui EXCEPT !.dialog = "add"])

\* Cancel, the cross, Close and Done.  The answer of a request on the wire is still handled.
\* A finished bulk reset refreshes the list and ends the selection.
Close ==
  /\ ui.dialog # "none"
  /\ IF ui.dialog = "bulk reset" /\ ui.completed
     THEN /\ ui' = [Doubtless(ui) EXCEPT !.dialog = "none", !.completed = FALSE, !.selection = {}]
          /\ wire' = Refetch(wire)
     ELSE /\ ui' = [ui EXCEPT !.dialog = "none", !.item = None, !.password = None]
          /\ UNCHANGED wire
  /\ UNCHANGED <<server, shown>>

\* The dialogs of one resident: handleSave, whose button stays enabled (two equal PATCHes are
\* one here), handleReset until it shows a password, and with the typed resident id
\* handleDeactivate, handleDelete and handleTransfer.
SubmitEdit == ui.dialog = "edit" /\ Pending("edit") = {} /\ SendFreely("edit", {ui.item})
SubmitReset == ui.dialog = "reset" /\ ui.password = None /\ Send("reset", {ui.item})
SubmitDeactivate == ui.dialog = "deactivate" /\ Send("deactivate", {ui.item})
SubmitDelete == ui.dialog = "delete" /\ Send("delete", {ui.item})
SubmitTransfer == ui.dialog = "transfer" /\ Send("transfer", {ui.item})

\* The bulk dialogs: handleGenerate until it is completed, handleDeactivate and handleDelete.
\* The number typed must be that of the residents selected now.
SubmitBulkReset == ui.dialog = "bulk reset" /\ ~ui.completed /\ Send("bulk reset", ui.selection)
SubmitBulkDeactivate == ui.dialog = "bulk deactivate" /\ Send("bulk deactivate", ui.selection)
SubmitBulkDelete == ui.dialog = "bulk delete" /\ Send("bulk delete", ui.selection)

\* handleAddUser
SubmitAdd == ui.dialog = "add" /\ \E r \in People : Send("add", {r})

-----------------------------------------------------------------------------
\* The server carries a request out; of a bulk request perhaps only a part.
Effect(q, done) ==
  CASE q.op \in {"deactivate", "bulk deactivate"} ->
         [r \in People |-> IF r \in done /\ server[r] = "active" THEN "off" ELSE server[r]]
    [] q.op \in {"delete", "bulk delete"} -> [r \in People |-> IF r \in done THEN "none" ELSE server[r]]
    [] q.op = "add" ->
         [r \in People |-> IF r \in done /\ server[r] = "none" THEN "active" ELSE server[r]]
    [] OTHER -> server

Serve(q) == \E done \in (IF q.op \in Bulk THEN SUBSET q.ids ELSE {q.ids}) : Served(q, Effect(q, done))

\* Only the dialog that sent the request is closed, whoever it is open for by now.
Closed(op) == IF ui.dialog = op THEN [ui EXCEPT !.dialog = "none", !.item = None] ELSE ui

\* handleBulkSuccess
AfterBulk(q) == SettlesAndFetches(q, [Closed(q.op) EXCEPT !.selection = {}])

\* handleReset: the password appears in the dialog, whoever that is open for; it is forgotten
\* when the dialog opens again.
ResetAnswered(q) ==
  Settles(q, [ui EXCEPT !.password = IF ui.dialog = "reset" THEN CHOOSE r \in q.ids : TRUE ELSE None])

\* handleGenerate: the passwords are kept for the dialog, also when it was left.
BulkResetAnswered(q) == Settles(q, [ui EXCEPT !.completed = TRUE])

Succeeds(q) ==
  /\ Answered(q)
  /\ CASE q.op \in {"bulk deactivate", "bulk delete"} -> AfterBulk(q)
       [] q.op = "bulk reset" -> BulkResetAnswered(q)
       [] q.op = "reset" -> ResetAnswered(q)
       [] OTHER -> SettlesAndFetches(q, Closed(q.op))

Next ==
  \/ \E f \in Filters : ChangeFilter(f)
  \/ \E p \in Pages : TurnPage(p)
  \/ \E r \in People : ToggleSelect(r)
  \/ ClearSelection
  \/ \E r \in People, d \in Actions : OpenAction(r, d)
  \/ \E d \in Bulk : OpenBulk(d)
  \/ OpenAdd \/ Close \/ SubmitAdd
  \/ SubmitEdit \/ SubmitReset \/ SubmitDeactivate \/ SubmitDelete \/ SubmitTransfer
  \/ SubmitBulkReset \/ SubmitBulkDeactivate \/ SubmitBulkDelete
  \/ ListServed(Rows) \/ ListArrives
  \/ \E q \in wire : Serve(q) \/ Succeeds(q) \/ Fails(q)

Spec == Init /\ [][Next]_screen

-----------------------------------------------------------------------------
\* Types of the page's state.
TypeOK ==
  /\ server \in [People -> {"active", "off", "none"}]
  /\ ui.filter \in Filters /\ ui.page \in Nat \ {0} /\ ui.selection \subseteq People
  /\ ui.item \in People \cup {None} /\ ui.password \in People \cup {None}
  /\ ui.busy \subseteq Guarded /\ ui.completed \in BOOLEAN
  /\ \A q \in wire : q.ids \subseteq People

\* No dialog has two requests out, not even when it was left and opened again: a second bulk
\* reset would void the passwords the first one handed out.
NoDoubleSubmit == Single(Guarded \ {"reset"})

\* When nothing is under way the list shows the rows as they are, whatever order the
\* answers came in (handleMutate, handleBulkSuccess).
QuietIsFresh == Fresh(Rows)

\* Whoever is selected is someone the filter leaves in the list: no bulk action reaches a
\* resident selected under another filter.
SelectionWithinFilter == ui.selection \subseteq ui.filter

\* The password under a resident's name is that resident's.
PasswordIsTheirs == ui.dialog = "reset" /\ ui.password # None => ui.password = ui.item
=============================================================================

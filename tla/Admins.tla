-------------------------------- MODULE Admins --------------------------------
(***************************************************************************)
(* The administrators page.  Its dialogs share one selectedAdmin, which    *)
(* answers of earlier requests change under an open dialog; a created      *)
(* account opens the password dialog over whatever is open by then.        *)
(***************************************************************************)
EXTENDS Screen

CONSTANTS
  Accounts,  \* administrators there are or may be
  Filters,   \* whom a search or a facility leaves in the list
  Explored   \* bound: the dialogs opened in one behaviour are those of one of these sets

\* No dialog of the page itself disables its button while it waits for an answer; those for
\* several administrators do.
FromRow == {"edit", "reset", "delete"}
Bulk == {"bulk reset", "bulk delete"}

\* The pages of the list are looked at as one.
Rows == server \cap ui.filter
Seen == IF shown = None THEN {} ELSE shown

Init ==
  /\ server \in SUBSET Accounts
  /\ \E used \in Explored :
       ui = [open |-> {}, item |-> None, meant |-> None, typed |-> None, created |-> FALSE,
             filter |-> Accounts, selection |-> {}, completed |-> FALSE,
             busy |-> {}, doubt |-> FALSE, used |-> used]
  /\ shown = None /\ wire = {Fetch}

\* Search, facility and sorting forget the selection, another page keeps it.
ChangeFilter(f) ==
  /\ ui.open = {} /\ ui' = [Doubtless(ui) EXCEPT !.filter = f, !.selection = {}]
  /\ shown' = None /\ wire' = Refetch(wire) /\ UNCHANGED server
TurnPage == ui.open = {} /\ ChangeQuery

\* toggleSelectAdmin, toggleSelectAll and "Clear Selection"; a selection is made where a dialog
\* for several may use it.
Select(s) == ui.open = {} /\ ui.used \cap Bulk # {} /\ Shows([ui EXCEPT !.selection = s])
ToggleSelect(a) ==
  a \in Seen /\ Select(IF a \in ui.selection THEN ui.selection \ {a} ELSE ui.selection \cup {a})
ToggleAll ==
  Seen # {} /\ Select(IF Seen \subseteq ui.selection THEN ui.selection \ Seen ELSE ui.selection \cup Seen)
ClearSelection == ui.selection # {} /\ Select({})
OpenBulk(d) ==
  ui.open = {} /\ ui.selection # {} /\ d \in ui.used \cap Bulk /\ Shows([ui EXCEPT !.open = {d}])

\* openEditDialog, handleResetPassword and "Delete Admin"; "meant" is whom the row names.
OpenEdit(a) == Shows([ui EXCEPT !.open = {"edit"}, !.item = a, !.meant = a])
OpenReset(a) ==
  Shows([ui EXCEPT !.open = {"reset"}, !.item = a, !.meant = a, !.created = FALSE,
                   !.busy = @ \ {"reset"}])
OpenDelete(a) == Shows([ui EXCEPT !.open = {"delete"}, !.item = a, !.meant = a])
FromTable(a) ==
  /\ ui.open = {} /\ a \in Seen
  /\ \/ "edit" \in ui.used /\ OpenEdit(a)
     \/ "reset" \in ui.used /\ OpenReset(a)
     \/ "delete" \in ui.used /\ OpenDelete(a)

OpenAdd == ui.open = {} /\ "add" \in ui.used /\ Shows([ui EXCEPT !.open = {"add"}, !.meant = None])

\* The password dialog is on top of any other; leaving it forgets selectedAdmin.
\* Mutant: it does not.
CloseResetM == "reset" \in ui.open /\ Shows([ui EXCEPT !.open = @ \ {"reset"}])
CloseReset == "reset" \in ui.open /\ Shows([ui EXCEPT !.open = @ \ {"reset"}, !.item = None])

CloseOther ==
  /\ ui.open # {} /\ "reset" \notin ui.open /\ ui.open \cap Bulk = {}
  /\ Shows([ui EXCEPT !.open = {}, !.meant = None, !.typed = None])

\* A finished bulk reset fetches the list and ends the selection when it is left.
CloseBulk ==
  /\ ui.open # {} /\ ui.open \subseteq Bulk /\ UNCHANGED <<server, shown>>
  /\ IF ui.open = {"bulk reset"} /\ ui.completed
     THEN /\ ui' = [Doubtless(ui) EXCEPT !.open = {}, !.completed = FALSE, !.selection = {}]
          /\ wire' = Refetch(wire)
     ELSE ui' = [ui EXCEPT !.open = {}] /\ UNCHANGED wire

\* useTypeToConfirm: the person types the name the dialog was opened with.
TypeName == ui.open = {"delete"} /\ ui.typed = None /\ Shows([ui EXCEPT !.typed = ui.meant])
Matches == ui.item # None /\ ui.typed = ui.item

SubmitAdd(a) == ui.open = {"add"} /\ SendFreely("add", {a})

\* if (!selectedAdmin) return
SubmitEdit == ui.open = {"edit"} /\ ui.item # None /\ SendFreely("edit", {ui.item})

SubmitDelete == ui.open = {"delete"} /\ Matches /\ SendFreely("delete", {ui.item})

\* ResetPasswordModal: only the context "reset" has a button.
SubmitReset ==
  "reset" \in ui.open /\ ~ui.created /\ ui.item # None /\ Send("reset", {ui.item})

\* handleGenerate and handleDelete of the dialogs for several.
SubmitBulk(d) ==
  d \in Bulk /\ d \in ui.open /\ ~(d = "bulk reset" /\ ui.completed) /\ Send(d, ui.selection)

\* A username is taken once; a deleted account is gone, and of several perhaps only some go.
Serve(q) ==
  CASE q.op = "add" -> q.ids \cap server = {} /\ Served(q, server \cup q.ids)
    [] q.op = "delete" -> Served(q, server \ q.ids)
    [] q.op = "bulk delete" -> \E gone \in SUBSET q.ids : Served(q, server \ gone)
    [] q.op = "bulk reset" -> Served(q, server)
    [] OTHER -> q.ids \subseteq server /\ Served(q, server)

\* A dialog that is closed by an answer: its own, or the same one opened for someone else.
Left(d) ==
  IF d \in ui.open THEN [ui EXCEPT !.open = @ \ {d}, !.item = None, !.meant = None, !.typed = None]
                   ELSE [ui EXCEPT !.item = None]

AddAnswered(q) ==
  SettlesAndFetches(q, [ui EXCEPT !.open = (@ \ {"add"}) \cup {"reset"}, !.created = TRUE,
                                  !.busy = @ \ {"reset"}, !.item = CHOOSE a \in q.ids : TRUE])

Succeeds(q) ==
  /\ Answered(q)
  /\ CASE q.op = "add" -> AddAnswered(q)
       [] q.op = "reset" -> Settles(q, ui)
       [] q.op = "bulk reset" -> Settles(q, [ui EXCEPT !.completed = TRUE])
       [] q.op = "bulk delete" ->
            SettlesAndFetches(q, [ui EXCEPT !.open = @ \ {"bulk delete"}, !.selection = {}])
       [] OTHER -> SettlesAndFetches(q, Left(q.op))

Next ==
  \/ TurnPage \/ ToggleAll \/ ClearSelection \/ OpenAdd \/ CloseReset \/ CloseOther \/ CloseBulk \/ TypeName
  \/ SubmitEdit \/ SubmitDelete \/ SubmitReset
  \/ \E f \in Filters : ChangeFilter(f)
  \/ \E a \in Accounts : FromTable(a) \/ SubmitAdd(a) \/ ToggleSelect(a)
  \/ \E d \in Bulk : OpenBulk(d) \/ SubmitBulk(d)
  \/ ListServed(Rows) \/ ListArrives
  \/ \E q \in wire : Serve(q) \/ Succeeds(q) \/ Fails(q)

QuietIsFresh == Fresh(Rows)
NoDoubleSubmit == Single(Bulk)
\* Whoever is selected is someone the filter leaves in the list.
SelectionWithinFilter == ui.selection \subseteq ui.filter

\* Whoever is edited, deleted or given a new password is the one the dialog was opened for,
\* whatever answers put into selectedAdmin meanwhile.
SendsToMeant == \A q \in wire' \ wire : q.op \in FromRow /\ q.status = "sent" => q.ids = {ui.meant}
ActsOnMeant == [][SendsToMeant]_screen
=============================================================================

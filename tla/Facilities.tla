------------------------------- MODULE Facilities -------------------------------
(***************************************************************************)
(* The facilities page: adding, editing and deleting facilities, while     *)
(* others put programs and residents into them.                            *)
(***************************************************************************)
EXTENDS Screen

CONSTANT Places   \* facilities there are or may be

\* A facility is "none", "empty" (it may be deleted) or "used".
Rows == [f \in {f \in Places : server[f] # "none"} |-> server[f]]

Init ==
  /\ server \in [Places -> {"none", "empty"}]
  /\ ui = [dialog |-> "none", item |-> None, deleting |-> None, query |-> {}, page |-> 1,
           busy |-> {}, doubt |-> FALSE]
  /\ shown = None /\ wire = {Fetch}

Calm == ui.dialog = "none" /\ ui.deleting = None
Seen == IF shown = None THEN {} ELSE DOMAIN shown

\* All facilities are loaded at once: searching, sorting and paging ask the server nothing.
Search(w) == Calm /\ Shows([ui EXCEPT !.query = w, !.page = 1])
TurnPage(p) == Calm /\ Shows([ui EXCEPT !.page = p])
\* One row to a page, the rest of the search in any order.
Matching == Seen \ ui.query
OnPage(f) == f \in Matching /\ ui.page <= Cardinality(Matching)

OpenAdd == Calm /\ Shows([ui EXCEPT !.dialog = "add"])
OpenEdit(f) == Calm /\ OnPage(f) /\ Shows([ui EXCEPT !.dialog = "edit", !.item = f])
OpenDelete(f) == Calm /\ OnPage(f) /\ shown[f] = "empty" /\ Shows([ui EXCEPT !.deleting = f])

\* Leaving a form keeps selectedFacility; the confirmation stays while it deletes.
CloseForm == ui.dialog # "none" /\ Shows([ui EXCEPT !.dialog = "none"])
MayLeave == ui.deleting # None /\ "delete" \notin ui.busy
CloseDelete == MayLeave /\ Shows([ui EXCEPT !.deleting = None])

SubmitAdd(f) == ui.dialog = "add" /\ Send("add", {f})
SubmitEdit == ui.dialog = "edit" /\ ui.item # None /\ Send("edit", {ui.item})
SubmitDelete == ui.deleting # None /\ Send("delete", {ui.deleting})

\* Someone puts a program, a class or a resident there: the list here does not hear of it.
Occupy(f) ==
  /\ server[f] = "empty" /\ server' = [server EXCEPT ![f] = "used"]
  /\ ui' = [ui EXCEPT !.doubt = TRUE] /\ UNCHANGED <<shown, wire>>

\* A facility in use is refused with 409, and that is what this answer says.
Refused(q) ==
  /\ q.op = "delete" /\ q.status = "sent" /\ wire' = Becomes(q, "used")
  /\ \E f \in q.ids : server[f] = "used"
  /\ UNCHANGED <<server, shown, ui>>

Serve(q) ==
  \E f \in q.ids :
    \/ q.op = "add" /\ server[f] = "none" /\ Served(q, [server EXCEPT ![f] = "empty"])
    \/ q.op = "edit" /\ Served(q, server)
    \/ q.op = "delete" /\ server[f] = "empty" /\ Served(q, [server EXCEPT ![f] = "none"])
    \/ Refused(q)

\* handleDeleteFacility: success, a refusal and a failure close the confirmation.
Left == [ui EXCEPT !.deleting = None]
Deleted(q) == SettlesAndFetches(q, Left)

Succeeds(q) ==
  \/ Answered(q) /\ q.op = "add" /\ SettlesAndFetches(q, [ui EXCEPT !.dialog = IF @ = "add" THEN "none" ELSE @])
  \/ /\ Answered(q) /\ q.op = "edit"
     /\ SettlesAndFetches(q, [ui EXCEPT !.item = None, !.dialog = IF @ = "edit" THEN "none" ELSE @])
  \/ q.op = "delete" /\ q.status \in {"done", "used"} /\ Deleted(q)

\* Any other failure keeps a form and closes the confirmation.
FailsHere(q) ==
  IF q.op # "delete" THEN Fails(q)
  ELSE /\ ui' = [Left EXCEPT !.busy = @ \ {q.op}, !.doubt = @ \/ q.status # "sent"]
       /\ q.status # "used" /\ wire' = wire \ {q} /\ UNCHANGED <<server, shown>>

Next ==
  \/ OpenAdd \/ CloseForm \/ CloseDelete \/ SubmitEdit \/ SubmitDelete
  \/ \E f \in Places : OpenEdit(f) \/ OpenDelete(f) \/ SubmitAdd(f) \/ Occupy(f) \/ Search({f}) \/ Search({})
  \/ \E p \in 1..Cardinality(Places) : TurnPage(p)
  \/ ListServed(Rows) \/ ListArrives
  \/ \E q \in wire : Serve(q) \/ Succeeds(q) \/ FailsHere(q)

NoDoubleSubmit == Single({"add", "edit", "delete"})
QuietIsFresh == Fresh(Rows)
=============================================================================

-------------------------- MODULE LearningRecordHome --------------------------
(***************************************************************************)
(* The first page of the learning record: the entries as they were read    *)
(* when it was opened, a confirmation that deletes one, and PDFs of one    *)
(* entry or of all, which are drawn off screen, one entry at a time, while *)
(* the page goes on.                                                       *)
(***************************************************************************)
EXTENDS Screen

CONSTANTS
  Entries,
  MaxActs   \* bound: confirmations, PDFs and visits

\* No list of entries is the absence of one.
HomeAssumption == \A S \in SUBSET Entries : S # None

Mounted == [target |-> None, sheet |-> FALSE, drawn |-> {}, acts |-> 0, busy |-> {}, doubt |-> FALSE,
            asked |-> {}, printed |-> {}]
\* Both fetches are awaited, and only the first of them tells the page anything it lists.
Init == server \in SUBSET Entries /\ shown = None /\ wire = {Fetch} /\ ui = Mounted

\* A failed fetch reads as no entries: the page says that none were added yet.
Hydrated ==
  \E q \in Pending("list") :
    /\ wire' = wire \ {q} /\ UNCHANGED server
    /\ shown' = (IF q.status = "done" THEN q.rows ELSE {})
    /\ ui' = [ui EXCEPT !.doubt = @ \/ q.status # "done"]

Acts == ui.acts < MaxActs
Once == [ui EXCEPT !.acts = @ + 1]
Listed == IF shown = None THEN {} ELSE shown
\* No dialog is open over the list.
Calm == ui.target = None /\ ~ui.sheet
AskDelete(e) == Calm /\ Acts /\ e \in Listed /\ Shows([Once EXCEPT !.target = e])
CancelDelete == ui.target # None /\ "delete" \notin ui.busy /\ Shows([ui EXCEPT !.target = None])
ConfirmDelete ==
  /\ ui.target # None /\ "delete" \notin ui.busy /\ ui' = Submitted(ui, "delete")
  /\ wire' = wire \cup {Request("delete", {ui.target})} /\ UNCHANGED <<server, shown>>

\* Deleting what is not there succeeds too.
Serve(q) == q.op = "delete" /\ Served(q, server \ q.ids)
\* The row leaves the list only when the server has confirmed; either way the dialog closes.
Deleted(q) ==
  /\ Answered(q) /\ q.op = "delete" /\ shown' = Listed \ q.ids /\ wire' = wire \ {q}
  /\ ui' = [ui EXCEPT !.target = None, !.busy = @ \ {"delete"}] /\ UNCHANGED server
NotDeleted(q) ==
  /\ q.op = "delete" /\ wire' = wire \ {q} /\ UNCHANGED <<server, shown>>
  /\ ui' = [ui EXCEPT !.target = None, !.busy = @ \ {"delete"}, !.doubt = @ \/ q.status # "sent"]

\* A PDF of one entry: what is to be drawn is put into the state, painted, then captured.
DrawPdf(asked, got) == [ui EXCEPT !.asked = asked, !.printed = got]
\* Mutant of Download: a second one may begin before the first is captured.
DownloadM(e) ==
  /\ Calm /\ Acts /\ e \in Listed /\ ui' = [Once EXCEPT !.drawn = {e}]
  /\ wire' = wire \cup {Request("pdf", {e})} /\ UNCHANGED <<server, shown>>
Download(e) ==
  /\ Calm /\ Acts /\ e \in Listed /\ "pdf" \notin ui.busy
  /\ ui' = [Submitted(Once, "pdf") EXCEPT !.drawn = {e}]
  /\ wire' = wire \cup {Request("pdf", {e})} /\ UNCHANGED <<server, shown>>
Captured(q) ==
  /\ q.op = "pdf" /\ wire' = wire \ {q} /\ UNCHANGED <<server, shown>>
  /\ \E u \in {ui, DrawPdf(q.ids, ui.drawn)} : ui' = [u EXCEPT !.busy = @ \ {"pdf"}]

OpenSheet == Calm /\ Listed # {} /\ Shows([ui EXCEPT !.sheet = TRUE])
CloseSheet == ui.sheet /\ Shows([ui EXCEPT !.sheet = FALSE])
\* A PDF of all entries goes on when the sheet is closed, through the entries there were when it
\* was asked for, in the order of the list, which is left open here.
DownloadAll ==
  /\ ui.sheet /\ Acts /\ Listed # {} /\ "all" \notin ui.busy /\ ui' = Submitted(Once, "all")
  /\ wire' = wire \cup {[Request("all", Listed) EXCEPT !.rows = {}]} /\ UNCHANGED <<server, shown>>
NextPage(q) ==
  /\ q.op = "all" /\ UNCHANGED <<server, shown, ui>>
  /\ \E e \in q.ids \ q.rows : wire' = (wire \ {q}) \cup {[q EXCEPT !.rows = @ \cup {e}]}
SavedAll(q) ==
  /\ q.op = "all" /\ wire' = wire \ {q} /\ UNCHANGED <<server, shown>>
  /\ \/ ui' = [ui EXCEPT !.busy = @ \ {"all"}]
     \/ q.ids \subseteq q.rows /\ ui' = [DrawPdf(q.ids, q.rows) EXCEPT !.busy = @ \ {"all"}]

\* Leaving drops what is drawn and forgets the deletions on the wire, which may still be carried
\* out; on return, perhaps with entries added in the editor, everything is read anew.
Visit ==
  /\ Acts /\ \E added \in SUBSET Entries : server' = server \cup added
  /\ shown' = None /\ wire' = {[q EXCEPT !.op = "stray"] : q \in Pending("delete")} \cup Pending("stray") \cup {Fetch}
  /\ ui' = [Mounted EXCEPT !.acts = ui.acts + 1]
StrayEnds(q) ==
  /\ q.op = "stray" /\ wire' = wire \ {q} /\ UNCHANGED shown
  /\ \/ UNCHANGED <<server, ui>>
     \/ /\ q.status = "sent" /\ server' = server \ q.ids
        /\ ui' = [ui EXCEPT !.doubt = @ \/ Fetch \notin wire]

Next ==
  \/ Hydrated \/ ListServed(server)
  \/ CancelDelete \/ ConfirmDelete \/ OpenSheet \/ CloseSheet \/ DownloadAll \/ Visit
  \/ \E e \in Entries : AskDelete(e) \/ Download(e)
  \/ \E q \in wire :
       \/ Serve(q) \/ Deleted(q) \/ NotDeleted(q)
       \/ Captured(q) \/ NextPage(q) \/ SavedAll(q) \/ StrayEnds(q)

\* The list and the server are kept in step: with nothing under way, a row is gone from the one
\* exactly if it is gone from the other, unless an answer or the fetch was lost.
QuietIsFresh == Fresh(server)
\* The PDF the page says was saved holds the entries it was asked for, whatever was deleted,
\* opened or asked for while it was drawn.
PrintedAsAsked == ui.printed = ui.asked
=============================================================================

------------------------------- MODULE Sessions -------------------------------
(***************************************************************************)
(* The sessions tab of a class: sessions are cancelled, moved, changed and *)
(* restored, one at a time or several at once.  The rows come with the     *)
(* class, the sessions made of them under a key of their own.              *)
(***************************************************************************)
EXTENDS Screen, SessionLinks

CONSTANTS
  Shared,   \* the days to which a session may be moved though they have or had one
  Hurried   \* does the user act on what is shown while something newer is on its way, or may have
            \* been done, instead of waiting or loading the page again

\* server: the rows.  shown: the rows of the class and the sessions.
Idle == [dialog |-> "none", who |-> 0, by |-> 0, days |-> {}, selected |-> {}, busy |-> {}, doubt |-> FALSE]
NoRows == [d \in Days |-> NoRow]
Init ==
  /\ server = NoRows /\ wire = {} /\ ui = Idle
  /\ shown = [rows |-> NoRows, sessions |-> Sessions(NoRows)]

View == Displays(shown.rows, shown.sessions)
Listed == DOMAIN View
Ready == Hurried \/ (wire = {} /\ ~ui.doubt)
Calm == ui.dialog = "none" /\ Ready

Plain(d) == d \in Listed /\ ~View[d].off /\ ~View[d].from /\ ~View[d].to /\ ~View[d].toOff
Selectable == {d \in Listed : ~View[d].off /\ ~View[d].from /\ ~View[d].toOff}
Chosen == ui.selected \cap Selectable

\* The rows of the tab.
OpenOne(op, d) ==
  Calm /\ Plain(d) /\ Shows([ui EXCEPT !.dialog = op, !.who = d, !.by = shown.sessions[d].by])
OpenMove(d) == Calm /\ (Plain(d) \/ (d \in Listed /\ View[d].to)) /\ Shows([ui EXCEPT !.dialog = "move", !.who = d])
Toggle(d) ==
  Calm /\ d \in Selectable /\ Shows([ui EXCEPT !.selected = IF d \in @ THEN @ \ {d} ELSE @ \cup {d}])
\* The bar counts and hands over those that can still be changed.
OpenBulk(op) == Calm /\ Chosen # {} /\ Shows([ui EXCEPT !.dialog = op, !.days = Chosen])
\* A changed filter does that too.
ClearSelection == Calm /\ ui.selected # {} /\ Shows([ui EXCEPT !.selected = {}])
Close == ui.dialog # "none" /\ Shows([ui EXCEPT !.dialog = "none", !.who = 0, !.by = 0, !.days = {}])

\* The page is opened again.
Reload ==
  /\ ui.doubt /\ wire = {} /\ wire' = {Fetch} /\ ui' = Idle
  /\ UNCHANGED <<server, shown>>

\* A cancellation or a change names the row the session has, if the page knows of one.
ById == ui.by # 0 \/ shown.rows[ui.who].why = "held"
One(op) == ui.dialog = op /\ Send(op, {<<ui.who, IF ById THEN 1 ELSE 0>>})
Cancel == One("off")
Change == One("change")
MayMoveTo(d) ==
  d \in Shared \/ (d \notin Regular /\ server[d] = NoRow /\ \A q \in Pending("move") : \A p \in q.ids : p[2] # d)
Reschedule(b) == ui.dialog = "move" /\ MayMoveTo(b) /\ Send("move", {<<ui.who, b>>})
\* One request for each session, all at once.
Bulk(op) == ui.dialog = op /\ Send(op, {<<d, 0>> : d \in ui.days})
BulkCancel == Bulk("bulk_off")
BulkChange == Bulk("bulk_change")

\* Restoring is a button without a dialog, and nothing stops a second press.  The row it names
\* is the one the session was moved to, or the one that cancels it.
UndoOf(d) ==
  IF View[d].by # 0 THEN View[d].by
  ELSE IF View[d].off /\ shown.rows[d].why = "said" THEN d
  ELSE shown.sessions[d].by
Undo(d) ==
  /\ Calm /\ d \in Listed /\ (View[d].off \/ View[d].from \/ View[d].to)
  /\ UndoOf(d) # 0 /\ SendFreely("undo", {<<UndoOf(d), 0>>})
UndoCancel(d) == Calm /\ d \in Listed /\ View[d].toOff /\ SendFreely("uncancel", {<<View[d].by, 0>>})

\* The server.  Of several requests some may fail; a row that is gone cannot be undone.
PutOne(rows, p, why) == IF p[2] = 1 THEN PutById(rows, p[1], why) ELSE Put(rows, p[1], why)
PutAll(rows, ds, why) == [d \in Days |-> IF d \in ds THEN Put(rows, d, why)[d] ELSE rows[d]]
Serve(q) ==
  \/ \E p \in q.ids :
       \/ q.op = "off" /\ Served(q, PutOne(server, p, "said"))
       \/ q.op = "change" /\ Served(q, PutOne(server, p, "held"))
       \/ q.op = "move" /\ Served(q, Move(server, p[1], p[2]))
       \/ q.op = "undo" /\ server[p[1]] # NoRow /\ Served(q, Undone(server, p[1]))
       \/ q.op = "uncancel" /\ Served(q, Uncancelled(server, p[1]))
  \/ \E some \in SUBSET q.ids :
       \/ q.op = "bulk_off" /\ Served(q, PutAll(server, {p[1] : p \in some}, "said"))
       \/ q.op = "bulk_change" /\ Served(q, PutAll(server, {p[1] : p \in some}, "held"))

\* The sessions are fetched first, then the class.
Closed(u) == [u EXCEPT !.dialog = "none", !.who = 0, !.by = 0, !.days = {}]
Without(op) == IF ui.dialog = op THEN Closed(ui) ELSE ui
Succeeds(q) ==
  /\ Answered(q)
  /\ \/ q.op \in {"off", "change", "move"} /\ SettlesAndFetches(q, Without(q.op))
     \/ q.op \in {"undo", "uncancel"} /\ SettlesAndFetches(q, ui)
\* What was tried for several is fetched again whatever came of it, and so is an undo.
Ends(q) ==
  \/ q.op \in {"bulk_off", "bulk_change"} /\ SettlesAndFetches(q, [Without(q.op) EXCEPT !.selected = {}])
  \/ q.op \in {"undo", "uncancel"} /\ SettlesAndFetches(q, ui)
FailsHere(q) == q.op \in {"off", "change", "move"} /\ Fails(q)

ClassFetch == [Fetch EXCEPT !.op = "class"]
Fetching(w) == {q \in w : q.op # "class"} \cup {ClassFetch}
Read ==
  \E q \in wire :
    /\ q.op \in {"list", "class"} /\ q.status = "sent"
    /\ wire' = (wire \ {q}) \cup {[q EXCEPT !.status = "done", !.rows = server]}
    /\ UNCHANGED <<server, shown, ui>>
SessionsArrive ==
  \E q \in Pending("list") :
    /\ q.status = "done" /\ shown' = [shown EXCEPT !.sessions = Sessions(q.rows)]
    /\ wire' = Fetching(wire \ {q}) /\ UNCHANGED <<server, ui>>
SessionsLost ==
  \E q \in Pending("list") :
    wire' = Fetching(wire \ {q}) /\ ui' = [ui EXCEPT !.doubt = TRUE] /\ UNCHANGED <<server, shown>>
ClassArrives ==
  \E q \in Pending("class") :
    /\ q.status = "done" /\ shown' = [shown EXCEPT !.rows = q.rows]
    /\ wire' = wire \ {q} /\ UNCHANGED <<server, ui>>
ClassLost ==
  \E q \in Pending("class") :
    wire' = wire \ {q} /\ ui' = [ui EXCEPT !.doubt = TRUE] /\ UNCHANGED <<server, shown>>

Next ==
  \/ \E d \in Days :
       \/ OpenMove(d) \/ Toggle(d) \/ Reschedule(d) \/ Undo(d) \/ UndoCancel(d)
       \/ \E op \in {"off", "change"} : OpenOne(op, d)
  \/ \E op \in {"bulk_off", "bulk_change"} : OpenBulk(op)
  \/ ClearSelection \/ Reload \/ Close \/ Cancel \/ Change \/ BulkCancel \/ BulkChange
  \/ Read \/ SessionsArrive \/ SessionsLost \/ ClassArrives \/ ClassLost
  \/ \E q \in wire : Serve(q) \/ Succeeds(q) \/ Ends(q) \/ FailsHere(q)

NoDoubleSubmit == Single({"off", "change", "move", "bulk_off", "bulk_change"})

\* What the page shows is what there is.
QuietIsFresh ==
  wire = {} /\ ~ui.doubt => shown = [rows |-> server, sessions |-> Sessions(server)]

\* However often they are moved, cancelled and restored, as many sessions are held or cancelled
\* as the class has: none is lost on the way and none is held twice.
NoneLostOrDoubled ==
  LET all == Sessions(server) IN
  Cardinality({d \in DOMAIN all : ~all[d].off \/ server[d].why = "said"}) = Cardinality(Regular)

\* A session that is shown as moved shows where it went, and the session that is there is shown
\* as moved to that day.
MovedShowsWhere ==
  wire = {} /\ ~ui.doubt =>
    \A d \in Listed : View[d].from =>
      View[d].where \in Listed /\ (View[View[d].where].to \/ View[View[d].where].toOff)
=============================================================================

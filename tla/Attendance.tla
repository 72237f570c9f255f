------------------------------ MODULE Attendance ------------------------------
(***************************************************************************)
(* Taking attendance for one session.  The page makes its rows from the    *)
(* first roster it has, which may be what an earlier visit left in the     *)
(* cache, and never again; another instructor may record the same session. *)
(***************************************************************************)
EXTENDS Screen

CONSTANTS
  People,
  MaxVisits,   \* bound: how often the page is opened
  MaxChanges   \* bound: changes made to its rows in one visit

PresentLike == {"Present", "Partial"}
Statuses == PresentLike \cup {"Absent"}

\* A record: who made it, and its times ("out": a check-out before the end of the session).
NoRecord == [status |-> "", in |-> FALSE, out |-> FALSE, by |-> "nobody"]
Idle == [here |-> FALSE, visit |-> 0, rows |-> None, dated |-> FALSE, refused |-> FALSE, failed |-> FALSE,
         marked |-> {}, changes |-> 0, busy |-> {}, doubt |-> FALSE]
Init == server = [p \in People |-> NoRecord] /\ shown = None /\ wire = {} /\ ui = Idle

Rows == server
\* The start of the session is filled in for whoever has no record, if it is known by then.
FromRoster(roster, dated) ==
  [p \in People |->
    [status |-> roster[p].status, in |-> roster[p].in \/ (roster[p].status = "" /\ dated),
     out |-> roster[p].out, reason |-> roster[p].status = "Absent", dirty |-> FALSE]]

Open ==
  /\ ~ui.here /\ ui.visit < MaxVisits /\ wire' = Refetch(wire) /\ UNCHANGED <<server, shown>>
  /\ ui' = [ui EXCEPT !.here = TRUE, !.visit = @ + 1,
                      !.rows = IF shown = None THEN None ELSE FromRoster(shown, ui.dated)]
Away(u) == [u EXCEPT !.here = FALSE, !.rows = None, !.refused = FALSE, !.marked = {}, !.changes = 0, !.busy = {}]
Leave == ui.here /\ Shows(Away(ui))

DatesArrive == ui.here /\ ~ui.dated /\ Shows([ui EXCEPT !.dated = TRUE])
RosterArrives ==
  \E q \in Pending("list") :
    /\ q.status = "done" /\ shown' = q.rows /\ wire' = wire \ {q} /\ UNCHANGED server
    /\ ui' = [ui EXCEPT !.failed = FALSE,
                        !.rows = IF ui.here /\ @ = None THEN FromRoster(q.rows, ui.dated) ELSE @]
RosterFails ==
  \E q \in Pending("list") :
    wire' = wire \ {q} /\ ui' = [ui EXCEPT !.failed = TRUE] /\ UNCHANGED <<server, shown>>

SessionReady == ui.here /\ ui.dated /\ ~ui.failed /\ ui.rows # None

Update(p, row) ==
  /\ SessionReady /\ ui.changes < MaxChanges
  /\ Shows([ui EXCEPT !.rows[p] = [row EXCEPT !.dirty = TRUE], !.marked = @ \cup {p}, !.changes = @ + 1])
\* Absent forgets the times; Present keeps those there are, and an empty one is kept too.
StatusChange(p, s) ==
  LET row == ui.rows[p] IN
  Update(p, [row EXCEPT !.status = s, !.in = @ /\ s # "Absent", !.out = @ /\ s # "Absent",
                        !.reason = @ /\ s = "Absent"])
MarkAllPresent ==
  /\ SessionReady /\ ui.changes < MaxChanges
  /\ Shows([ui EXCEPT !.marked = People, !.changes = @ + 1,
              !.rows = [p \in People |-> [ui.rows[p] EXCEPT !.status = "Present", !.in = TRUE,
                                                            !.reason = FALSE, !.dirty = TRUE]]])
\* What the card of a resident lets one fill in.
Fields(row) ==
  {"status"} \cup (IF row.status = "Partial" THEN {"in", "out"} ELSE {})
             \cup (IF row.status = "Absent" THEN {"reason"} ELSE {})
Fill(p, field) ==
  SessionReady /\ field \in Fields(ui.rows[p]) \ {"status"} /\ ~ui.rows[p][field]
  /\ Update(p, [ui.rows[p] EXCEPT ![field] = TRUE])

Errors(row) ==
  (IF row.status = "" THEN {"status"} ELSE {})
  \cup (IF row.status \in PresentLike /\ ~row.in THEN {"in"} ELSE {})
  \cup (IF row.status = "Partial" /\ ~row.out THEN {"out"} ELSE {})
  \cup (IF row.status = "Absent" /\ ~row.reason THEN {"reason"} ELSE {})

\* Only what was changed is sent.  With it goes, for the properties, from which visit it is
\* and whether that visit had marked the resident.
DirtyRows(rows) == {p \in People : rows[p].dirty}
Sent(p) == [who |-> p, row |-> ui.rows[p], marked |-> p \in ui.marked]
Bad == \E p \in DirtyRows(ui.rows) : Errors(ui.rows[p]) # {}
Refuse == SessionReady /\ "save" \notin ui.busy /\ Bad /\ Shows([ui EXCEPT !.refused = TRUE])
Save ==
  /\ SessionReady /\ ~Bad /\ DirtyRows(ui.rows) # {}
  /\ "save" \notin ui.busy /\ MaySend("save")
  /\ wire' = wire \cup {[Request("save", {Sent(p) : p \in DirtyRows(ui.rows)}) EXCEPT !.nth = ui.visit]}
  /\ ui' = Submitted(ui, "save") /\ UNCHANGED <<server, shown>>

\* Whoever left early was present in part.
Recorded(row) ==
  [status |-> IF row.status = "Present" /\ row.in /\ row.out THEN "Partial" ELSE row.status,
   in |-> row.in, out |-> row.out, by |-> "page"]
Written(q, p) == {Recorded(x.row) : x \in {y \in q.ids : y.who = p}}
Serve(q) ==
  Served(q, [p \in People |-> IF Written(q, p) = {} THEN server[p] ELSE CHOOSE r \in Written(q, p) : TRUE])
Another(p) ==
  /\ server' = [server EXCEPT ![p] = [status |-> "Absent", in |-> FALSE, out |-> FALSE, by |-> "another"]]
  /\ UNCHANGED <<shown, wire, ui>>

\* The answer leads to the page of the class, from wherever one is by then; the roster is
\* fetched again only where somebody shows it.
Succeeds(q) ==
  /\ Answered(q) /\ ui' = Away(ui) /\ UNCHANGED <<server, shown>>
  /\ wire' = IF ui.here THEN Refetch(wire \ {q}) ELSE wire \ {q}
FailsHere(q) ==
  /\ q \in Writes /\ wire' = wire \ {q} /\ UNCHANGED <<server, shown>>
  /\ ui' = IF q.nth = ui.visit THEN [ui EXCEPT !.busy = @ \ {"save"}] ELSE ui

Next ==
  \/ Open \/ Leave \/ DatesArrive \/ RosterArrives \/ RosterFails
  \/ MarkAllPresent \/ Refuse \/ Save
  \/ \E p \in People :
       \/ \E s \in Statuses : StatusChange(p, s)
       \/ Another(p)
       \/ \E field \in {"in", "out", "reason"} : Fill(p, field)
  \/ ListServed(Rows)
  \/ \E q \in wire : Serve(q) \/ Succeeds(q) \/ FailsHere(q)

\* One visit saves once at a time.
NoDoubleSubmit == \A q, r \in Pending("save") : q.nth = r.nth => q = r

\* A save writes only the residents who were marked in that visit, however old the rows it was
\* opened with: what another instructor recorded of the others stays.
OnlyMarkedSent == \A q \in Pending("save") : \A x \in q.ids : x.marked

\* When a save is refused, every row at fault shows a field with its error.
RefusedShowsWhy ==
  ui.here /\ ui.refused /\ SessionReady =>
    \A p \in DirtyRows(ui.rows) :
      Errors(ui.rows[p]) # {} => Errors(ui.rows[p]) \cap Fields(ui.rows[p]) # {}
=============================================================================

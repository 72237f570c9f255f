---------------------------- MODULE ClassRoster ----------------------------
(***************************************************************************)
(* The page of a class: its header and its roster tab.  The class and the  *)
(* roster are fetched under two keys, and a handler asks for one or both.  *)
(***************************************************************************)
EXTENDS Screen

CONSTANTS
  People,    \* residents, by their ids: strings, as the other ids of requests are
  Attended   \* those whose attendance was taken: they cannot be unenrolled

\* An enrollment is "none", "enrolled" or "ended"; a class that is over keeps no one enrolled.
Keys == {"class", "roster"}
Rosters == [People -> {"none", "enrolled"}]
Idle == [dialog |-> "none", who |-> None, selected |-> {}, busy |-> {}, doubt |-> FALSE, left |-> FALSE]
Init ==
  /\ server \in [class : {"Scheduled", "Active"}, roster : Rosters]
  /\ shown = server /\ wire = {} /\ ui = Idle

FetchOf(k) == [Fetch EXCEPT !.ids = {k}]
RefetchOf(w, keys) == {q \in w : q.op # "list" \/ q.ids \cap keys = {}} \cup {FetchOf(k) : k \in keys}
FetchServed ==
  \E q \in Pending("list"), k \in Keys :
    /\ q.status = "sent" /\ k \in q.ids
    /\ wire' = (wire \ {q}) \cup {[q EXCEPT !.status = "done", !.rows = [x \in {k} |-> server[k]]]}
    /\ UNCHANGED <<server, shown, ui>>
FetchArrives ==
  \E q \in Pending("list"), k \in Keys :
    /\ q.status = "done" /\ k \in q.ids
    /\ shown' = [shown EXCEPT ![k] = q.rows[k]] /\ wire' = wire \ {q} /\ UNCHANGED <<server, ui>>

SettlesAnd(q, u, keys) ==
  /\ ui' = [u EXCEPT !.busy = @ \ {q.op}, !.doubt = @ /\ keys # Keys]
  /\ wire' = RefetchOf(wire \ {q}, keys) /\ UNCHANGED <<server, shown>>

OnRoster == {p \in People : shown.roster[p] = "enrolled"}
Calm == ui.dialog = "none" /\ ~ui.left

\* The search only hides rows; whoever leaves the roster stays selected.
ToggleSelect(p) ==
  /\ Calm /\ p \in OnRoster
  /\ Shows([ui EXCEPT !.selected = IF p \in @ THEN @ \ {p} ELSE @ \cup {p}])
ToggleAll(found) ==
  /\ Calm /\ found \subseteq OnRoster
  /\ Shows([ui EXCEPT !.selected = IF Cardinality(@) = Cardinality(found) THEN {} ELSE found])
ClearSelection == Calm /\ ui.selected # {} /\ Shows([ui EXCEPT !.selected = {}])

OpenFor(d, p) ==
  /\ Calm /\ p \in OnRoster /\ (d = "unenroll" => p \notin Attended)
  /\ Shows([ui EXCEPT !.dialog = d, !.who = p])
CanDelete == shown.class = "Scheduled" /\ \A p \in People : shown.roster[p] = "none"
Open(d) ==
  /\ Calm
  /\ d = "graduate" => ui.selected # {}
  /\ d = "status" => shown.class # "Over"
  /\ d = "delete" => CanDelete
  /\ Shows([ui EXCEPT !.dialog = d])
\* The dialog of one resident goes when it closes, and takes its busy state along.
Close ==
  /\ ui.dialog # "none"
  /\ Shows([ui EXCEPT !.dialog = "none", !.who = None, !.busy = @ \ {"unenroll"}])

\* These two close before their answer, and nothing stops another change meanwhile.
SendAndClose(op) ==
  /\ ui.dialog = op /\ MaySend(op) /\ wire' = wire \cup {Request(op, {ui.who})}
  /\ ui' = [ui EXCEPT !.dialog = "none", !.who = None] /\ UNCHANGED <<server, shown>>
ChangeStatus == shown.class = "Active" /\ SendAndClose("enrollment")
ChangeDate == SendAndClose("date")
Unenroll == ui.dialog = "unenroll" /\ Send("unenroll", {ui.who})

Graduates == ui.selected \cap OnRoster
Graduate == ui.dialog = "graduate" /\ shown.class # "Scheduled" /\ Send("graduate", Graduates)
ChangeClass(s) == ui.dialog = "status" /\ Send("status", {s})
DeleteClass == ui.dialog = "delete" /\ Send("delete", {})

Ends(ids) == [p \in People |-> IF p \in ids /\ server.roster[p] # "none" THEN "ended" ELSE server.roster[p]]
Enrolled == {p \in People : server.roster[p] = "enrolled"}
\* The server ends an enrollment whatever its status was.  It refuses to unenroll anyone from an
\* active class, which the page offers.
Serve(q) ==
  \/ q.op = "date" /\ Served(q, server)
  \/ /\ q.op \in {"enrollment", "graduate"} /\ server.class = "Active" /\ q.ids # {}
     /\ Served(q, [server EXCEPT !.roster = Ends(q.ids)])
  \/ /\ q.op = "unenroll" /\ server.class = "Scheduled"
     /\ Served(q, [server EXCEPT !.roster = Ends(q.ids)])
  \/ /\ q.op = "status" /\ server.class # "Over"
     /\ \E s \in q.ids : Served(q, [class |-> s, roster |-> IF s = "Over" THEN Ends(Enrolled) ELSE server.roster])
  \/ /\ q.op = "delete" /\ server.class = "Scheduled" /\ \A p \in People : server.roster[p] = "none"
     /\ Served(q, server)

\* Each answer closes the dialog it belongs to, whoever that shows now.
Without(d) == IF ui.dialog = d THEN [ui EXCEPT !.dialog = "none", !.who = None] ELSE ui
Succeeds(q) ==
  /\ Answered(q)
  /\ \/ q.op \in {"enrollment", "date"} /\ SettlesAnd(q, ui, Keys)
     \/ q.op = "unenroll" /\ SettlesAnd(q, Without("unenroll"), Keys)
     \/ q.op = "graduate" /\ SettlesAnd(q, [Without("graduate") EXCEPT !.selected = {}], Keys)
     \* The header asks for the class alone.
     \/ q.op = "status" /\ SettlesAnd(q, Without("status"), {"class"})
     \/ q.op = "delete" /\ Settles(q, [ui EXCEPT !.left = TRUE])
\* A failed graduation closes its dialog too.
FailsHere(q) ==
  /\ q \in Writes /\ wire' = wire \ {q} /\ UNCHANGED <<server, shown>>
  /\ ui' = [IF q.op = "graduate" THEN Without("graduate") ELSE ui
              EXCEPT !.busy = @ \ {q.op}, !.doubt = @ \/ q.status # "sent"]

Next ==
  \/ ClearSelection \/ Close \/ ChangeStatus \/ ChangeDate \/ Unenroll \/ Graduate \/ DeleteClass
  \/ \E p \in People : ToggleSelect(p) \/ \E d \in {"enrollment", "date", "unenroll"} : OpenFor(d, p)
  \/ \E found \in SUBSET People : ToggleAll(found)
  \/ \E d \in {"graduate", "status", "delete"} : Open(d)
  \/ \E s \in {"Scheduled", "Active", "Over"} : ChangeClass(s)
  \/ FetchServed \/ FetchArrives \/ ListLost
  \/ \E q \in wire : Serve(q) \/ Succeeds(q) \/ FailsHere(q)

NoDoubleSubmit == Single({"graduate", "status", "delete"})

\* What the page shows is what there is, except that a class that has ended keeps the roster
\* it had until something else fetches it.
QuietIsFresh ==
  wire = {} /\ ~ui.doubt =>
    /\ shown.class = server.class
    /\ shown.class # "Over" => shown.roster = server.roster

\* A graduation names only residents who are on the roster shown when it is confirmed: one who
\* was selected and then withdrawn is left out.
SendsOnRoster ==
  \A q \in wire' \ wire : q.op = "graduate" /\ q.status = "sent" => q.ids \subseteq OnRoster
GraduatesOnRoster == [][SendsOnRoster]_screen
=============================================================================

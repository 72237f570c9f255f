--------------------------- MODULE KnowledgeCenter ---------------------------
(***************************************************************************)
(* Managing the knowledge center: three lists, each with a query of its    *)
(* own, the sheet that says where a content is visible, the two forms that *)
(* add content, and the polling that follows a video download.             *)
(***************************************************************************)
EXTENDS Screen

CONSTANTS
  Kinds,    \* the tabs this administrator has: "library", and "video" and "link" by feature
  Places,   \* the facilities; ...
  Here,     \* ... the administrator's own
  MaxActs,  \* bound: requests, openings and changed queries of one visit
  Polls     \* bound: ticks of one chain of polls (5 in the code)

Row == [at |-> {}, featured |-> FALSE, items |-> 1, ready |-> FALSE]
Idle == [tab |-> "library", manages |-> FALSE, recent |-> {}, form |-> "", sheet |-> "",
         polling |-> FALSE, chains |-> {}, acts |-> 0, busy |-> {}, doubt |-> {}]
Init ==
  /\ server = [k \in Kinds |-> Row] /\ wire = {}
  /\ shown = [list |-> [k \in Kinds |-> Row], sheet |-> [k \in Kinds |-> None]]
  /\ \E manages \in BOOLEAN : ui = [Idle EXCEPT !.manages = manages]

\* One query for each list, one for each sheet; a new fetch replaces the one of its query.
Fetching(which, kinds, w) ==
  {q \in w : ~(q.op = which /\ q.ids \subseteq kinds)} \cup {[Fetch EXCEPT !.op = which, !.ids = {k}] : k \in kinds}
Certain(u, which, kinds) == [u EXCEPT !.doubt = @ \ {<<which, k>> : k \in kinds}]
FetchServed(q) ==
  /\ q.op \in {"list", "sheet"} /\ q.status = "sent"
  /\ \E k \in q.ids : wire' = (wire \ {q}) \cup {[q EXCEPT !.status = "done", !.rows = server[k]]}
  /\ UNCHANGED <<server, shown, ui>>
FetchArrives(q) ==
  /\ q.op \in {"list", "sheet"} /\ q.status = "done" /\ wire' = wire \ {q}
  /\ \E k \in q.ids : shown' = [shown EXCEPT ![q.op][k] = q.rows]
  /\ UNCHANGED <<server, ui>>
FetchLost(q) ==
  /\ q.op \in {"list", "sheet"} /\ wire' = wire \ {q}
  /\ ui' = [ui EXCEPT !.doubt = @ \cup {<<q.op, k>> : k \in q.ids}] /\ UNCHANGED <<server, shown>>

\* The page is free: nothing modal is open.
Free == ui.form = "" /\ ui.sheet = "" /\ ui.acts < MaxActs
Once == [ui EXCEPT !.acts = @ + 1]
Writing(op, k, nth) == [Request(op, {k}) EXCEPT !.nth = nth]
Sends(op, k) ==
  /\ MaySend(op) /\ wire' = wire \cup {Writing(op, k, ui.acts)} /\ UNCHANGED <<server, shown>>

SwitchTab(k) == Free /\ k # ui.tab /\ Shows([ui EXCEPT !.tab = k])
QueryLists(kinds) ==
  /\ Free /\ ui' = Certain(Once, "list", kinds) /\ UNCHANGED server
  /\ wire' = Fetching("list", kinds, wire)
  /\ shown' = [shown EXCEPT !.list = [k \in Kinds |-> IF k \in kinds THEN None ELSE @[k]]]
\* A search concerns every list, the visibility filter all but the links, the category one.
Queried == {Kinds, Kinds \ {"link"}, {"library"}}

\* Clicks on the star or the switch of one card are ignored for a second after the first.
Toggle(op, k) ==
  /\ Free /\ k = ui.tab /\ shown.list[k] # None /\ <<op, k>> \notin ui.recent
  /\ op = "visible" => ~ui.manages
  /\ ui' = [Once EXCEPT !.recent = @ \cup {<<op, k>>}] /\ Sends(op, k)
SecondPasses(op, k) == <<op, k>> \in ui.recent /\ Shows([ui EXCEPT !.recent = @ \ {<<op, k>>}])

Manage(k) ==
  /\ Free /\ ui.manages /\ k = ui.tab /\ shown.list[k] # None
  /\ ui' = Certain([Once EXCEPT !.sheet = k], "sheet", {k})
  /\ wire' = Fetching("sheet", {k}, wire) /\ UNCHANGED <<server, shown>>
\* A switch of the sheet says what it wants, and so do "Show at all" and "Hide at all".
SetVisibility(k, op) ==
  /\ ui.sheet = k /\ ui.acts < MaxActs /\ shown.sheet[k] # None
  /\ op = "show" => Here \notin shown.sheet[k].at
  /\ op = "hide" => Here \in shown.sheet[k].at
  /\ ui' = Once /\ Sends(op, k)
Done == ui.sheet # "" /\ Shows([ui EXCEPT !.sheet = ""])

\* Opening a form clears it, and what it knew of a request under way.
AddForm(k) == Free /\ ui.tab = k /\ Shows([Once EXCEPT !.form = k, !.busy = @ \ {k}])
CancelForm == ui.form # "" /\ Shows([ui EXCEPT !.form = ""])
SubmitForm(k) ==
  /\ ui.form = k /\ k \notin ui.busy /\ ui.acts < MaxActs /\ ui' = Submitted(Once, k) /\ Sends("add", k)

Retry ==
  /\ Free /\ ui.tab = "video" /\ shown.list["video"] # None /\ ~shown.list["video"].ready
  /\ ~ui.polling /\ ui' = Once /\ Sends("retry", "video")

Changed(row, op) ==
  CASE op = "featured" -> [row EXCEPT !.featured = ~@]
    [] op = "visible" -> [row EXCEPT !.at = IF Here \in @ THEN @ \ {Here} ELSE @ \cup {Here}]
    [] op = "show" -> [row EXCEPT !.at = @ \cup {Here}]
    [] op = "hide" -> [row EXCEPT !.at = @ \ {Here}]
    [] op = "show all" -> [row EXCEPT !.at = Places]
    [] op = "hide all" -> [row EXCEPT !.at = {}]
    [] op = "add" -> [row EXCEPT !.items = @ + 1]
    [] OTHER -> row
Fetches == {"list", "sheet"}
Serve(q) ==
  q.op \notin Fetches /\ \E k \in q.ids : Served(q, [server EXCEPT ![k] = Changed(@, q.op)])
\* The download service finishes.
Downloads ==
  /\ "video" \in Kinds /\ ~server["video"].ready
  /\ server' = [server EXCEPT !["video"].ready = TRUE] /\ UNCHANGED <<shown, wire, ui>>

\* What an answer makes the page fetch again.  The sheet fetches whatever it shows by then.
\* Mutant of AfterSheet: the lists behind the sheet are not fetched.
AfterSheetM(w) == IF ui.sheet = "" THEN w ELSE Fetching("sheet", {ui.sheet}, w)
AfterSheet(w) ==
  Fetching("list", Kinds, IF ui.sheet = "" THEN w ELSE Fetching("sheet", {ui.sheet}, w))
Polling(u, nth) == [u EXCEPT !.polling = TRUE, !.chains = @ \cup {[nth |-> nth, tick |-> 1, asked |-> FALSE]}]

Toggled(q) ==
  /\ Answered(q) /\ q.op \in {"featured", "visible"} /\ UNCHANGED <<server, shown>>
  /\ wire' = Fetching("list", q.ids, wire \ {q}) /\ ui' = Certain(ui, "list", q.ids)
Visible(q) ==
  /\ Answered(q) /\ q.op \in {"show", "hide", "show all", "hide all"} /\ UNCHANGED <<server, shown>>
  /\ wire' = AfterSheet(wire \ {q}) /\ ui' = Certain(Certain(ui, "list", Kinds), "sheet", {ui.sheet})
\* The form that closes is the one that is open by then.
Added(q) ==
  /\ Answered(q) /\ q.op = "add" /\ UNCHANGED <<server, shown>>
  /\ wire' = Fetching("list", q.ids, wire \ {q})
  /\ LET u == [Certain(ui, "list", q.ids) EXCEPT !.busy = @ \ q.ids, !.form = IF @ \in q.ids THEN "" ELSE @] IN
     ui' = IF q.ids = {"video"} THEN Polling(u, q.nth) ELSE u
Retried(q) ==
  Answered(q) /\ q.op = "retry" /\ wire' = wire \ {q} /\ ui' = Polling(ui, q.nth) /\ UNCHANGED <<server, shown>>
FailsHere(q) ==
  /\ q.op \notin Fetches /\ wire' = wire \ {q} /\ UNCHANGED <<server, shown>>
  /\ ui' = [ui EXCEPT !.busy = IF q.op = "add" THEN @ \ q.ids ELSE @,
                      !.doubt = IF q.status = "sent" THEN @
                                ELSE @ \cup (Fetches \X q.ids)]

\* One chain of polls for each video added or retried; they share one flag, and the first to
\* end stops the others.
Poll(c) ==
  /\ c \in ui.chains /\ ~c.asked /\ UNCHANGED <<server, shown>>
  /\ \/ /\ ~ui.polling /\ ui' = [ui EXCEPT !.chains = @ \ {c}] /\ UNCHANGED wire
     \/ /\ ui.polling /\ wire' = Fetching("list", {"video"}, wire)
        /\ ui' = [Certain(ui, "list", {"video"}) EXCEPT !.chains = (@ \ {c}) \cup {[c EXCEPT !.asked = TRUE]}]
\* Mutant of Polled: the last poll leaves the flag.
PolledM(c) ==
  IF c.tick = Polls THEN [ui EXCEPT !.chains = @ \ {c}]
  ELSE [ui EXCEPT !.chains = (@ \ {c}) \cup {[c EXCEPT !.asked = FALSE, !.tick = @ + 1]}]
Polled(c) ==
  IF c.tick = Polls THEN [ui EXCEPT !.chains = @ \ {c}, !.polling = FALSE]
  ELSE [ui EXCEPT !.chains = (@ \ {c}) \cup {[c EXCEPT !.asked = FALSE, !.tick = @ + 1]}]
PollAnswered(c) ==
  c \in ui.chains /\ c.asked /\ (\A q \in Pending("list") : "video" \notin q.ids) /\ Shows(Polled(c))

Next ==
  \/ Done \/ CancelForm \/ Retry \/ Downloads
  \/ \E kinds \in Queried : QueryLists(kinds)
  \/ \E k \in Kinds :
       \/ SwitchTab(k) \/ Manage(k)
       \/ \E op \in {"featured", "visible"} : Toggle(op, k) \/ SecondPasses(op, k)
       \/ \E op \in {"show", "hide", "show all", "hide all"} : SetVisibility(k, op)
       \/ k \in {"video", "link"} /\ (AddForm(k) \/ SubmitForm(k))
  \/ \E c \in ui.chains : Poll(c) \/ PollAnswered(c)
  \/ \E q \in wire :
       \/ FetchServed(q) \/ FetchArrives(q) \/ FetchLost(q)
       \/ Serve(q) \/ Toggled(q) \/ Visible(q) \/ Added(q) \/ Retried(q) \/ FailsHere(q)

\* When nothing is under way, every list, and the sheet that is open, shows what the database
\* holds, whichever of the others a request changed; whether a video is ready by now is what
\* the polls are for.
Agree(row, with, fields) == \A f \in fields : row[f] = with[f]
QuietIsFresh ==
  wire = {} =>
    /\ \A k \in Kinds :
         shown.list[k] # None /\ <<"list", k>> \notin ui.doubt => Agree(shown.list[k], server[k], {"at", "featured", "items"})
    /\ ui.sheet # "" =>
         (shown.sheet[ui.sheet] # None /\ <<"sheet", ui.sheet>> \notin ui.doubt
            => shown.sheet[ui.sheet].at = server[ui.sheet].at)

\* While the page refuses to retry a video there is a poll that will end the refusal.
NeverStuckPolling == ui.polling => ui.chains # {}
=============================================================================

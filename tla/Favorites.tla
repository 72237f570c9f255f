------------------------------ MODULE Favorites ------------------------------
(***************************************************************************)
(* A resident's knowledge center: a star turns at once, its request flips  *)
(* what the server holds, and only the list of favorites is fetched again. *)
(***************************************************************************)
EXTENDS Screen

CONSTANTS
  Items,
  Hurried,  \* whether stars are clicked while the lists on screen come from an earlier visit
  MaxActs   \* bound: clicks, openings, searches and visits

NoPending == [i \in Items |-> "none"]
Idle == [here |-> TRUE, tab |-> "all", pending |-> NoPending, crossed |-> {}, form |-> FALSE,
         old |-> {}, acts |-> 0, busy |-> {}, doubt |-> {}]
Init ==
  /\ server \in SUBSET Items /\ shown = [list |-> server, favorites |-> server]
  /\ wire = {} /\ ui = Idle

\* The lists of contents (one query each, always fetched together) and the favorites.
Lists == {"list", "favorites"}
Fetching(lists, w) ==
  {q \in w : q.op \notin lists} \cup {[Fetch EXCEPT !.op = l] : l \in lists}
FetchServed(q) ==
  /\ q.op \in Lists /\ q.status = "sent" /\ UNCHANGED <<server, shown, ui>>
  /\ wire' = (wire \ {q}) \cup {[q EXCEPT !.status = "done", !.rows = server]}
FetchArrives(q) ==
  /\ q.op \in Lists /\ q.status = "done" /\ wire' = wire \ {q}
  /\ shown' = [shown EXCEPT ![q.op] = q.rows]
  /\ ui' = [ui EXCEPT !.old = @ \ {q.op}] /\ UNCHANGED server
FetchLost(q) ==
  /\ q.op \in Lists /\ wire' = wire \ {q} /\ UNCHANGED <<server, shown>>
  /\ ui' = [ui EXCEPT !.old = @ \ {q.op}, !.doubt = @ \cup {q.op}]

Free == ui.here /\ ui.acts < MaxActs
Once == [ui EXCEPT !.acts = @ + 1]
QueryLists ==
  /\ Free /\ ~ui.form /\ shown' = [list |-> None, favorites |-> None] /\ UNCHANGED server
  /\ wire' = Fetching(Lists, wire) /\ ui' = [Once EXCEPT !.old = {}, !.doubt = @ \ Lists]
Tab(t) == ui.here /\ ~ui.form /\ ui.tab # t /\ Shows([ui EXCEPT !.tab = t])

Content == IF ui.tab = "all" THEN (IF shown.list = None THEN {} ELSE Items)
           ELSE IF shown.favorites = None THEN {} ELSE shown.favorites
\* A content of the favorites tab is a favorite.
Favorited(i) == ui.tab = "favorites" \/ i \in shown.list
\* What the star of a card shows: the last click, or the list before the first.
Star(i) == IF ui.pending[i] = "none" THEN Favorited(i) ELSE ui.pending[i] = "yes"
Mark(on) == IF on THEN "yes" ELSE "no"

\* The request remembers, in nth, what the star was before the click.
Before(q) == q.nth = 1
ToggleFavorite(i) ==
  /\ Free /\ ~ui.form /\ i \in Content /\ MaySend("toggle")
  /\ Hurried \/ ui.old = {}
  /\ \A q \in Pending("toggle") : q.ids = {i} => Before(q) # Star(i)  \* bound: two overlapping
  /\ ui' = [Once EXCEPT !.pending[i] = Mark(~Star(i)),
                        !.doubt = IF @ = {} THEN @ ELSE @ \cup {"star"},
                        !.crossed = IF \E q \in Pending("toggle") : q.ids = {i} THEN @ \cup {i} ELSE @]
  /\ wire' = wire \cup {[Request("toggle", {i}) EXCEPT !.nth = IF Star(i) THEN 1 ELSE 0]}
  /\ UNCHANGED <<server, shown>>
Serve(q) ==
  \/ q.op = "toggle" /\ Served(q, (server \ q.ids) \cup (q.ids \ server))
  \/ q.op = "ask" /\ Served(q, server)
Toggled(q) ==
  /\ Answered(q) /\ q.op = "toggle" /\ UNCHANGED <<server, shown>>
  /\ wire' = IF ui.here THEN Fetching({"favorites"}, wire \ {q}) ELSE wire \ {q}
  /\ ui' = IF ui.here THEN [ui EXCEPT !.doubt = @ \ {"favorites"}] ELSE ui
\* Refused or lost: the star goes back to what it was before the click, and stays so whatever
\* the lists say later.
Untoggled(q) ==
  /\ q.op = "toggle" /\ wire' = wire \ {q} /\ UNCHANGED <<server, shown>>
  /\ ui' = [ui EXCEPT
       !.pending = [i \in Items |-> IF i \in q.ids /\ ui.here THEN Mark(Before(q)) ELSE @[i]],
       !.doubt = IF q.status = "done" \/ q.ids \subseteq ui.crossed THEN @ \cup Lists \cup {"star"} ELSE @]

RequestContent == Free /\ ~ui.form /\ Shows([Once EXCEPT !.form = TRUE, !.busy = {}])
CancelRequest == ui.form /\ Shows([ui EXCEPT !.form = FALSE])
SendRequest ==
  /\ Free /\ ui.form /\ "ask" \notin ui.busy /\ MaySend("ask") /\ ui' = Submitted(Once, "ask")
  /\ wire' = wire \cup {[Request("ask", {}) EXCEPT !.nth = ui.acts]} /\ UNCHANGED <<server, shown>>
Requested(q) ==
  /\ q.op = "ask" /\ wire' = wire \ {q} /\ UNCHANGED <<server, shown>>
  /\ ui' = [ui EXCEPT !.busy = {}, !.form = @ /\ q.status = "sent"]

\* Leaving forgets the stars; on return the lists come from the cache until they are fetched.
Leave == ui.here /\ Shows([ui EXCEPT !.here = FALSE, !.form = FALSE, !.busy = {}, !.pending = NoPending])
Return ==
  /\ ~ui.here /\ ui.acts < MaxActs /\ UNCHANGED <<server, shown>>
  /\ wire' = Fetching(Lists, wire)
  /\ ui' = [Once EXCEPT !.here = TRUE, !.tab = "all", !.old = Lists,
                  !.doubt = IF Pending("toggle") = {} THEN {} ELSE Lists \cup {"star"}]

Next ==
  \/ QueryLists \/ RequestContent \/ CancelRequest \/ SendRequest \/ Leave \/ Return
  \/ \E t \in {"all", "favorites"} : Tab(t)
  \/ \E i \in Items : ToggleFavorite(i)
  \/ \E q \in wire :
       \/ FetchServed(q) \/ FetchArrives(q) \/ FetchLost(q)
       \/ Serve(q) \/ Toggled(q) \/ Untoggled(q) \/ Requested(q)

\* The favorites, and their count, follow the stars: when nothing is under way they are what
\* the server holds.
QuietIsFresh ==
  ui.here /\ wire = {} /\ shown.favorites # None /\ "favorites" \notin ui.doubt => shown.favorites = server

\* The stars turn before the server answers and its request says "flip", not which way; yet
\* after any number of clicks on any tab, with every request answered and none of two
\* overlapping ones refused, each star shows whether its content is a favorite.
StarTrue ==
  ui.here /\ wire = {} /\ ui.doubt = {} => \A i \in Content : Star(i) <=> i \in server
=============================================================================

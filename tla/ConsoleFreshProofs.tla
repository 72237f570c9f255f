--------------------------- MODULE ConsoleFreshProofs ---------------------------
(***************************************************************************)
(* When nothing is under way a page of the console shows the rows as they  *)
(* are.  By itself that says nothing of the states on the way; what holds  *)
(* in all of them is that a list that is not what the server has is being  *)
(* fetched, or will be by the answer of a request that is on the wire, or  *)
(* is in doubt because such an answer was lost.                            *)
(***************************************************************************)
EXTENDS ConsoleProofs
-----------------------------------------------------------------------------
(* What a page shows, and what its requests do to it *)

\* A request the server carried out, or half of one: a recreated OIDC client is deleted first, and
\* a program is edited before its status is asked for.
Carried(q) ==
  \/ q.status = "done"
  \/ q.op = "recreate" /\ q.status = "half"
  \/ q.op = "status" /\ q.ids # {}

\* There is one fetch of the list at a time.  And the list is in doubt, or a change was carried
\* out whose answer will have it fetched, or it is being fetched and what was read of it still
\* holds, or nothing is shown, or the rows as they are.
UpToDate(w, s, u, rows, ops) ==
  /\ {"busy", "doubt"} \subseteq DOMAIN u
  /\ \A q \in w : DOMAIN q = Fields /\ (q.op = "list" => q.status \in {"sent", "done"})
  /\ \A q, r \in w : q.op = "list" /\ r.op = "list" => q = r
  /\ \/ u.doubt
     \/ \E q \in w : q.op \in ops /\ Carried(q)
     \/ \E q \in w : q.op = "list" /\ (q.status = "sent" \/ q.rows = rows)
     \/ s \in {None, rows} /\ \A q \in w : q.op # "list"

\* Now, and in the next state; the hooks are those of the page.
Kept(rows, ops) == UpToDate(wire, shown, ui, rows, ops)
KeptNext(rows, ops) == UpToDate(wire', shown', ui', rows, ops) /\ DOMAIN ui' = DOMAIN ui

\* When a page is opened it fetches its list, or has it.
LEMMA StartKeeps ==
  ASSUME NEW rows, NEW ops, {"busy", "doubt"} \subseteq DOMAIN ui,
         wire = {Fetch} \/ (wire = {} /\ shown \in {None, rows})
  PROVE  Kept(rows, ops)
<1>1. DOMAIN Fetch = Fields /\ Fetch.op = "list" /\ Fetch.status = "sent"
  BY DEF Fetch, Fields
<1>2. CASE wire = {Fetch}
  BY <1>1, <1>2 DEF Kept, UpToDate
<1>3. CASE wire = {} /\ shown \in {None, rows}
  BY <1>3 DEF Kept, UpToDate
<1> QED  BY <1>2, <1>3

\* The fetches stay as they are, and the changes that will cause one.
LEMMA StaysKeeps ==
  ASSUME NEW rows, NEW ops, Kept(rows, ops), shown' = shown,
         DOMAIN ui' = DOMAIN ui, ui.doubt => ui'.doubt,
         \A f \in wire' : DOMAIN f = Fields /\ (f.op = "list" => f \in wire),
         \A f \in wire : f.op = "list" \/ (f.op \in ops /\ Carried(f)) => f \in wire'
  PROVE  KeptNext(rows, ops)
  BY DEF Kept, KeptNext, UpToDate

LEMMA SameKeeps ==
  ASSUME NEW rows, NEW ops, Kept(rows, ops), wire' = wire, shown' = shown,
         DOMAIN ui' = DOMAIN ui, ui'.doubt = ui.doubt
  PROVE  KeptNext(rows, ops)
  BY DEF Kept, KeptNext, UpToDate

\* A request is sent.
LEMMA AskKeeps ==
  ASSUME NEW rows, NEW ops, Kept(rows, ops), NEW f, DOMAIN f = Fields, f.op # "list",
         wire' = wire \cup {f}, shown' = shown, DOMAIN ui' = DOMAIN ui, ui'.doubt = ui.doubt
  PROVE  KeptNext(rows, ops)
  BY StaysKeeps DEF Kept, UpToDate

LEMMA SendKeeps ==
  ASSUME NEW rows, NEW ops, Kept(rows, ops), NEW op, op # "list", NEW ids,
         Send(op, ids) \/ SendFreely(op, ids)
  PROVE  KeptNext(rows, ops)
<1>1. wire' = wire \cup {Request(op, ids)} /\ shown' = shown
  BY DEF Send, SendFreely
<1>2. DOMAIN ui' = DOMAIN ui /\ ui'.doubt = ui.doubt
  BY DEF Send, SendFreely, Submitted, Kept, UpToDate
<1>3. DOMAIN Request(op, ids) = Fields /\ Request(op, ids).op # "list"
  BY DEF Request, Fields
<1> QED  BY <1>1, <1>2, <1>3, AskKeeps

\* The list is fetched, in the place of any other fetch.
LEMMA FetchKeeps ==
  ASSUME NEW rows, NEW ops, Kept(rows, ops), NEW w, w \subseteq wire, wire' = Refetch(w),
         DOMAIN ui' = DOMAIN ui, NEW rows2
  PROVE  KeptNext(rows2, ops)
<1>1. Fetch.op = "list" /\ Fetch.status = "sent" /\ DOMAIN Fetch = Fields
  BY DEF Fetch, Fields
<1>2. wire' = {q \in w : q.op # "list"} \cup {Fetch}
  BY DEF Refetch
<1> QED  BY <1>1, <1>2 DEF Kept, KeptNext, UpToDate

LEMMA QueryKeeps ==
  ASSUME NEW rows, NEW ops, Kept(rows, ops), ChangeQuery, NEW rows2
  PROVE  KeptNext(rows2, ops)
  BY FetchKeeps DEF ChangeQuery, Doubtless

\* The server carries out a request that changes nothing of the rows, or whose answer fetches them.
LEMMA TurnKeeps ==
  ASSUME NEW rows, NEW ops, Kept(rows, ops), "list" \notin ops, NEW q \in wire, q.op # "list",
         NEW new, DOMAIN new = Fields, new.op = q.op, q.op \in ops /\ Carried(q) => Carried(new),
         wire' = (wire \ {q}) \cup {new}, shown' = shown, ui' = ui, NEW rows2,
         (q.op \in ops /\ Carried(new)) \/ rows2 = rows
  PROVE  KeptNext(rows2, ops)
<1>1. CASE q.op \in ops /\ Carried(new)
  BY <1>1 DEF Kept, KeptNext, UpToDate
<1>2. CASE rows2 = rows /\ ~(q.op \in ops /\ Carried(new))
  <2>1. ~(q.op \in ops /\ Carried(q))
    BY <1>2
  <2>2. \A f \in wire' : DOMAIN f = Fields /\ (f.op = "list" => f \in wire)
    BY DEF Kept, UpToDate
  <2>3. \A f \in wire : f.op = "list" \/ (f.op \in ops /\ Carried(f)) => f \in wire'
    BY <2>1
  <2> QED  BY <1>2, <2>2, <2>3, StaysKeeps
<1> QED  BY <1>1, <1>2

LEMMA ServedKeeps ==
  ASSUME NEW rows, NEW ops, Kept(rows, ops), "list" \notin ops, NEW q, NEW rows2, NEW all,
         Served(q, all), q.op \in ops \/ rows2 = rows
  PROVE  KeptNext(rows2, ops)
<1> DEFINE new == [q EXCEPT !.status = "done"]
<1>1. /\ q \in wire /\ q.op # "list"
      /\ wire' = (wire \ {q}) \cup {new} /\ ui' = ui /\ shown' = shown
  BY DEF Served, Becomes, Writes
<1>2. DOMAIN new = Fields /\ new.op = q.op /\ Carried(new)
  BY <1>1 DEF Kept, UpToDate, Fields, Carried
<1> HIDE DEF new
<1> QED  BY <1>1, <1>2, TurnKeeps

\* A request is answered, and the list fetched or not.
LEMMA SettlesKeeps ==
  ASSUME NEW rows, NEW ops, Kept(rows, ops), NEW q, q.op # "list", q.op \notin ops,
         wire' = wire \ {q}, shown' = shown, DOMAIN ui' = DOMAIN ui, ui'.doubt = ui.doubt
  PROVE  KeptNext(rows, ops)
  BY StaysKeeps DEF Kept, UpToDate

LEMMA SettlesAndFetchesKeeps ==
  ASSUME NEW rows, NEW ops, Kept(rows, ops), NEW q, wire' = Refetch(wire \ {q}),
         DOMAIN ui' = DOMAIN ui, NEW rows2
  PROVE  KeptNext(rows2, ops)
  BY FetchKeeps

\* A request fails: nothing came of it, or the page is in doubt.
LEMMA LostKeeps ==
  ASSUME NEW rows, NEW ops, Kept(rows, ops), "status" \notin ops, NEW q, q.op # "list",
         wire' = wire \ {q}, shown' = shown,
         DOMAIN ui' = DOMAIN ui, ui'.doubt = (ui.doubt \/ q.status # "sent")
  PROVE  KeptNext(rows, ops)
<1>1. CASE q.status = "sent"
  <2>1. q.op \notin ops \/ ~Carried(q)
    BY <1>1 DEF Carried
  <2> QED  BY <2>1, StaysKeeps DEF Kept, UpToDate
<1>2. CASE q.status # "sent"
  BY <1>2 DEF Kept, KeptNext, UpToDate
<1> QED  BY <1>1, <1>2

LEMMA FailsKeeps ==
  ASSUME NEW rows, NEW ops, Kept(rows, ops), "status" \notin ops, NEW q, Fails(q)
  PROVE  KeptNext(rows, ops)
<1>1. q.op # "list" /\ wire' = wire \ {q} /\ shown' = shown
  BY DEF Fails, Writes
<1>2. DOMAIN ui' = DOMAIN ui /\ ui'.doubt = (ui.doubt \/ q.status # "sent")
  BY DEF Fails, Kept, UpToDate
<1> QED  BY <1>1, <1>2, LostKeeps

\* The server reads the rows, and they are shown or the page says that it could not.
LEMMA ListServedKeeps ==
  ASSUME NEW rows, NEW ops, Kept(rows, ops), ListServed(rows)
  PROVE  KeptNext(rows, ops)
<1>1. PICK q \in wire : /\ q.op = "list" /\ wire' = (wire \ {q})
                             \cup {[q EXCEPT !.status = "done", !.rows = rows]}
                        /\ shown' = shown /\ ui' = ui
  BY DEF ListServed
<1> DEFINE new == [q EXCEPT !.status = "done", !.rows = rows]
<1>2. DOMAIN new = Fields /\ new.op = "list" /\ new.rows = rows /\ new.status = "done"
  BY <1>1 DEF Kept, UpToDate, Fields
<1>3. wire' = (wire \ {q}) \cup {new}
  BY <1>1
<1> HIDE DEF new
<1> QED  BY <1>1, <1>2, <1>3 DEF Kept, KeptNext, UpToDate

LEMMA ShownKeeps ==
  ASSUME NEW rows, NEW ops, Kept(rows, ops), "list" \notin ops, NEW q \in wire, q.op = "list",
         q.status = "done", shown' = q.rows, wire \ {q} \subseteq wire',
         \A f \in wire' : f \in wire \ {q} \/ (DOMAIN f = Fields /\ f.op # "list"),
         DOMAIN ui' = DOMAIN ui, ui'.doubt = ui.doubt
  PROVE  KeptNext(rows, ops)
  BY DEF Kept, KeptNext, UpToDate

LEMMA ListArrivesKeeps ==
  ASSUME NEW rows, NEW ops, Kept(rows, ops), "list" \notin ops, ListArrives
  PROVE  KeptNext(rows, ops)
<1>1. PICK q \in wire : /\ q.op = "list" /\ wire' = wire \ {q}
                        /\ shown' = IF q.status = "done" THEN q.rows ELSE None
                        /\ ui' = ui
  BY DEF ListArrives
<1> QED  BY <1>1 DEF Kept, KeptNext, UpToDate

LEMMA ListLostKeeps ==
  ASSUME NEW rows, NEW ops, Kept(rows, ops), ListLost, NEW rows2
  PROVE  KeptNext(rows2, ops)
  BY DEF Kept, KeptNext, UpToDate, ListLost, Pending

\* So when nothing is on the wire the page shows the rows as they are.
LEMMA KeptFresh ==
  ASSUME NEW rows, NEW ops, Kept(rows, ops)
  PROVE  Fresh(rows)
  BY DEF Kept, UpToDate, Fresh

-----------------------------------------------------------------------------
(* The residents page *)

\* Changes whose answer has the list fetched again.
ResidentsChanges == {"edit", "deactivate", "delete", "transfer", "add", "bulk deactivate",
  "bulk delete"}
ResidentsKept == {"filter", "page"} \subseteq DOMAIN ui
  /\ Kept(ResidentsPage!Rows, ResidentsChanges)

LEMMA ResidentsKeptInit ==
  ASSUME ResidentsPage!Init  PROVE ResidentsKept
<1>1. {"busy", "doubt", "filter", "page"} \subseteq DOMAIN ui
  BY DEF ResidentsPage!Init
<1>2. wire = {Fetch}
  BY DEF ResidentsPage!Init, ResidentsPage!Refetch, ResidentsPage!Fetch, Fetch
<1> QED  BY <1>1, <1>2, StartKeeps DEF ResidentsKept

LEMMA ResidentsKeptStep ==
  ASSUME ResidentsKept, ResidentsPage!Next
  PROVE  KeptNext(ResidentsPage!Rows', ResidentsChanges)
<1> DEFINE rows == ResidentsPage!Rows
           ops == ResidentsChanges
           Next1 == KeptNext(rows', ops)
<1>0. Kept(rows, ops) /\ ops \cap {"list", "status"} = {}
        /\ {"busy", "doubt", "filter", "page"} \subseteq DOMAIN ui
  BY DEF ResidentsKept, ResidentsChanges, Kept, UpToDate
<1>1. /\ \A op, ids : ResidentsPage!Send(op, ids) <=> Send(op, ids)
      /\ \A op, ids : ResidentsPage!SendFreely(op, ids) <=> SendFreely(op, ids)
      /\ \A u : ResidentsPage!Shows(u) <=> Shows(u)
      /\ \A w : ResidentsPage!Refetch(w) = Refetch(w)
      /\ \A q : ResidentsPage!Answered(q) <=> Answered(q)
      /\ \A q, u : ResidentsPage!Settles(q, u) <=> Settles(q, u)
      /\ \A q, u : ResidentsPage!SettlesAndFetches(q, u) <=> SettlesAndFetches(q, u)
      /\ \A q : ResidentsPage!Fails(q) <=> Fails(q)
      /\ \A q, all : ResidentsPage!Served(q, all) <=> Served(q, all)
      /\ \A all : ResidentsPage!ListServed(all) <=> ListServed(all)
      /\ ResidentsPage!ListArrives <=> ListArrives
  BY DEF ResidentsPage!Send, ResidentsPage!SendFreely, ResidentsPage!Shows, ResidentsPage!Refetch,
     ResidentsPage!Answered, ResidentsPage!Settles, ResidentsPage!SettlesAndFetches,
     ResidentsPage!Fails,
     ResidentsPage!Served, ResidentsPage!ListServed, ResidentsPage!ListArrives,
     ResidentsPage!MaySend,
     ResidentsPage!Submitted, ResidentsPage!Request, ResidentsPage!Fetch, ResidentsPage!Becomes,
     ResidentsPage!Writes, ResidentsPage!Pending, ResidentsPage!Doubtless,
     ResidentsPage!Cardinality,
     Send, SendFreely, Shows, Refetch, Answered, Settles, SettlesAndFetches, Fails, Served,
     ListServed,
     ListArrives, MaySend, Submitted, Request, Fetch, Becomes, Writes, Pending, Doubtless,
       Cardinality
<1>2. server' = server /\ ui'.filter = ui.filter /\ ui'.page = ui.page => rows' = rows
  BY DEF ResidentsPage!Rows, ResidentsPage!Listed, ResidentsPage!Place
<1>3. CASE (\E f : ResidentsPage!ChangeFilter(f)) \/ (\E p : ResidentsPage!TurnPage(p))
  <2>1. wire' = Refetch(wire) /\ DOMAIN ui' = DOMAIN ui
    BY <1>1, <1>3
       DEF ResidentsPage!ChangeFilter, ResidentsPage!TurnPage, ResidentsPage!Unselected,
           ResidentsPage!Doubtless
  <2> QED  BY <1>0, <2>1, FetchKeeps
<1>5. CASE (\E r : ResidentsPage!ToggleSelect(r)) \/ ResidentsPage!ClearSelection
           \/ (\E r, d : ResidentsPage!OpenAction(r, d)) \/ (\E d : ResidentsPage!OpenBulk(d))
           \/ ResidentsPage!OpenAdd
  <2>1. /\ UNCHANGED <<server, shown, wire>> /\ DOMAIN ui' = DOMAIN ui /\ ui'.doubt = ui.doubt
        /\ ui'.filter = ui.filter /\ ui'.page = ui.page
    BY <1>5, <1>0
       DEF ResidentsPage!ToggleSelect, ResidentsPage!ClearSelection, ResidentsPage!OpenAction,
           ResidentsPage!OpenBulk, ResidentsPage!OpenAdd, ResidentsPage!Shows
  <2> QED  BY <1>0, <1>2, <2>1, SameKeeps
<1>6. CASE ResidentsPage!Close
  <2>1. CASE wire' = Refetch(wire)
    <3>1. DOMAIN ui' = DOMAIN ui
      BY <1>6 DEF ResidentsPage!Close, ResidentsPage!Doubtless
    <3> QED  BY <1>0, <2>1, <3>1, FetchKeeps
  <2>2. CASE wire' # Refetch(wire)
    <3>1. /\ UNCHANGED <<server, shown, wire>>
          /\ ui' = [ui EXCEPT !.dialog = "none", !.item = None, !.password = None]
      BY <1>1, <1>6, <2>2 DEF ResidentsPage!Close
    <3>2. /\ DOMAIN ui' = DOMAIN ui /\ ui'.doubt = ui.doubt
          /\ ui'.filter = ui.filter /\ ui'.page = ui.page
      BY <1>0, <3>1
    <3> QED  BY <1>0, <1>2, <3>1, <3>2, SameKeeps
  <2> QED  BY <2>1, <2>2
<1>7. ASSUME NEW op, op # "list", NEW ids, ResidentsPage!Send(op, ids)
               \/ ResidentsPage!SendFreely(op, ids)
      PROVE  Next1
  <2>1. rows' = rows
    BY <1>0, <1>1, <1>2, <1>7 DEF Send, SendFreely, Submitted
  <2> QED  BY <1>0, <1>1, <1>7, <2>1, SendKeeps
<1>8. CASE ResidentsPage!SubmitEdit \/ ResidentsPage!SubmitAdd \/ ResidentsPage!SubmitReset
           \/ ResidentsPage!SubmitDeactivate \/ ResidentsPage!SubmitDelete
           \/ ResidentsPage!SubmitTransfer \/ ResidentsPage!SubmitBulkReset
           \/ ResidentsPage!SubmitBulkDeactivate \/ ResidentsPage!SubmitBulkDelete
  BY <1>8, <1>7
     DEF ResidentsPage!SubmitEdit, ResidentsPage!SubmitAdd, ResidentsPage!SubmitReset,
         ResidentsPage!SubmitDeactivate, ResidentsPage!SubmitDelete, ResidentsPage!SubmitTransfer,
         ResidentsPage!SubmitBulkReset, ResidentsPage!SubmitBulkDeactivate,
         ResidentsPage!SubmitBulkDelete
<1>9. CASE ResidentsPage!ListServed(rows) \/ ResidentsPage!ListArrives
  <2>1. rows' = rows
    BY <1>1, <1>2, <1>9 DEF ListServed, ListArrives
  <2> QED  BY <1>0, <1>1, <1>9, <2>1, ListServedKeeps, ListArrivesKeeps
<1>10. ASSUME NEW q \in wire, ResidentsPage!Serve(q)  PROVE Next1
  <2>1. PICK done : Served(q, ResidentsPage!Effect(q, done))
    BY <1>10, <1>1 DEF ResidentsPage!Serve
  <2>2. CASE q.op \in ops
    BY <1>0, <2>1, <2>2, ServedKeeps
  <2>3. CASE q.op \notin ops
    <3>1. server' = server /\ ui' = ui
      BY <2>1, <2>3 DEF ResidentsPage!Effect, ResidentsChanges, Served
    <3> QED  BY <1>0, <1>2, <2>1, <3>1, ServedKeeps
  <2> QED  BY <2>2, <2>3
<1>11. ASSUME NEW q \in wire, ResidentsPage!Succeeds(q)  PROVE Next1
  <2>1. CASE q.op \in {"bulk deactivate", "bulk delete"}
    <3> DEFINE u == [ResidentsPage!Closed(q.op) EXCEPT !.selection = {}]
    <3>1. SettlesAndFetches(q, u)
      BY <1>1, <1>11, <2>1 DEF ResidentsPage!Succeeds, ResidentsPage!AfterBulk
    <3>2. wire' = Refetch(wire \ {q}) /\ DOMAIN ui' = DOMAIN u
      BY <3>1 DEF SettlesAndFetches, Doubtless
    <3>3. DOMAIN u = DOMAIN ui
      BY DEF ResidentsPage!Closed
    <3> QED  BY <1>0, <3>2, <3>3, SettlesAndFetchesKeeps
  <2>2. CASE q.op \in {"reset", "bulk reset"}
    <3>1. PICK u \in {[ui EXCEPT !.completed = TRUE],
                      [ui EXCEPT !.password = IF ui.dialog = "reset" THEN CHOOSE r \in q.ids : TRUE
                                                                     ELSE None]} : Settles(q, u)
      BY <1>1, <1>11, <2>2
         DEF ResidentsPage!Succeeds, ResidentsPage!ResetAnswered, ResidentsPage!BulkResetAnswered
    <3>2. /\ DOMAIN u = DOMAIN ui /\ u.doubt = ui.doubt /\ u.filter = ui.filter /\ u.page = ui.page
      BY <1>0, <3>1
    <3>3. /\ UNCHANGED <<server, shown>> /\ wire' = wire \ {q}
          /\ DOMAIN ui' = DOMAIN ui /\ ui'.doubt = ui.doubt
          /\ ui'.filter = ui.filter /\ ui'.page = ui.page
      BY <1>0, <3>1, <3>2 DEF Settles
    <3>4. q.op # "list" /\ q.op \notin ops
      BY <2>2 DEF ResidentsChanges
    <3> QED  BY <1>0, <1>2, <3>3, <3>4, SettlesKeeps
  <2>3. CASE q.op \notin {"bulk deactivate", "bulk delete", "reset", "bulk reset"}
    <3>1. SettlesAndFetches(q, ResidentsPage!Closed(q.op))
      BY <1>1, <1>11, <2>3 DEF ResidentsPage!Succeeds
    <3>2. wire' = Refetch(wire \ {q}) /\ DOMAIN ui' = DOMAIN ui
      BY <3>1 DEF SettlesAndFetches, Doubtless, ResidentsPage!Closed
    <3> QED  BY <1>0, <3>2, SettlesAndFetchesKeeps
  <2> QED  BY <2>1, <2>2, <2>3
<1>12. ASSUME NEW q \in wire, ResidentsPage!Fails(q)  PROVE Next1
  <2>1. rows' = rows
    BY <1>0, <1>1, <1>2, <1>12 DEF Fails
  <2> QED  BY <1>0, <1>1, <1>12, <2>1, FailsKeeps
<1> QED
  BY <1>3, <1>5, <1>6, <1>8, <1>9, <1>10, <1>11, <1>12 DEF ResidentsPage!Next
-----------------------------------------------------------------------------
(* Importing residents *)

ImportKept == Kept(Import!Rows, {"create"})

LEMMA ImportKeptInit ==
  ASSUME Import!Init  PROVE ImportKept
<1>1. {"busy", "doubt"} \subseteq DOMAIN ui /\ wire = {Fetch}
  BY DEF Import!Init, Import!Fetch, Fetch
<1> QED  BY <1>1, StartKeeps DEF ImportKept

LEMMA ImportKeptStep ==
  ASSUME ImportKept, Import!Next
  PROVE  KeptNext(Import!Rows', {"create"})
<1> DEFINE rows == Import!Rows
           ops == {"create"}
           Next1 == KeptNext(rows', ops)
<1>0. Kept(rows, ops) /\ ops \cap {"list", "status"} = {} /\ {"busy", "doubt"} \subseteq DOMAIN ui
  BY DEF ImportKept, Kept, UpToDate
<1>1. /\ \A op, ids : Import!Send(op, ids) <=> Send(op, ids)
      /\ \A u : Import!Shows(u) <=> Shows(u)
      /\ \A q : Import!Answered(q) <=> Answered(q)
      /\ \A q, u : Import!Settles(q, u) <=> Settles(q, u)
      /\ \A q, u : Import!SettlesAndFetches(q, u) <=> SettlesAndFetches(q, u)
      /\ \A q : Import!Fails(q) <=> Fails(q)
      /\ \A q, all : Import!Served(q, all) <=> Served(q, all)
      /\ \A all : Import!ListServed(all) <=> ListServed(all)
      /\ Import!ListArrives <=> ListArrives
  BY DEF Import!Send, Import!MaySend, Import!Submitted, Import!Request, Import!Becomes,
     Import!Writes, Import!Pending, Import!Cardinality, Import!Shows, Import!Answered,
     Import!Settles, Import!SettlesAndFetches, Import!Doubtless, Import!Refetch, Import!Fetch,
     Import!Fails, Import!Served, Import!ListServed, Import!ListArrives, Send, MaySend, Submitted,
     Request, Becomes, Writes, Pending, Cardinality, Shows, Answered, Settles, SettlesAndFetches,
     Doubtless, Refetch, Fetch, Fails, Served, ListServed, ListArrives
<1>s. server' = server => rows' = rows
  BY DEF Import!Rows
<1>2. CASE Import!Open \/ Import!Close \/ Import!SelectPlace \/ Import!Back
           \/ (\E f \in {"f1", "f2"} : Import!ChooseFile(f))
  <2>1. UNCHANGED <<server, shown, wire>> /\ DOMAIN ui' = DOMAIN ui /\ ui'.doubt = ui.doubt
    BY <1>2, <1>0
       DEF Import!Open, Import!Close, Import!SelectPlace, Import!Back, Import!ChooseFile,
           Import!Reset, Import!Shows, Import!screen
  <2> QED  BY <1>0, <1>s, <2>1, SameKeeps
<1>3. ASSUME NEW op, op # "list", NEW ids, Import!Send(op, ids)  PROVE Next1
  <2>1. rows' = rows
    BY <1>1, <1>s, <1>3 DEF Send
  <2> QED  BY <1>0, <1>1, <1>3, <2>1, SendKeeps
<1>4. CASE Import!Validate \/ Import!CreateAccounts
  <2>1. (\E ids : Import!Send("upload", ids)) \/ (\E ids : Import!Send("create", ids))
    BY <1>4 DEF Import!Validate, Import!CreateAccounts
  <2> QED  BY <2>1, <1>3
<1>5. CASE Import!ListServed(rows) \/ Import!ListArrives
  <2>1. rows' = rows
    BY <1>1, <1>s, <1>5 DEF ListServed, ListArrives
  <2> QED  BY <1>0, <1>1, <1>5, <2>1, ListServedKeeps, ListArrivesKeeps
<1>6. ASSUME NEW q \in wire, Import!Serve(q)  PROVE Next1
  <2>1. PICK all : Served(q, all) /\ (q.op \notin ops => all = server)
    BY <1>6, <1>1 DEF Import!Serve
  <2>2. q.op \in ops \/ rows' = rows
    BY <1>s, <2>1 DEF Served
  <2> QED  BY <1>0, <2>1, <2>2, ServedKeeps
<1>7. ASSUME NEW q \in wire, Import!Succeeds(q)  PROVE Next1
  <2>1. CASE q.op = "upload"
    <3>1. Settles(q, [ui EXCEPT !.step = "rows", !.rows = CHOOSE f \in q.ids : TRUE])
      BY <1>1, <1>7, <2>1 DEF Import!Succeeds
    <3>2. /\ UNCHANGED <<server, shown>> /\ wire' = wire \ {q}
          /\ DOMAIN ui' = DOMAIN ui /\ ui'.doubt = ui.doubt
      BY <1>0, <3>1 DEF Settles
    <3> QED  BY <1>0, <1>s, <2>1, <3>2, SettlesKeeps
  <2>2. CASE q.op = "create"
    <3>1. SettlesAndFetches(q, [Import!Reset(ui) EXCEPT !.dialog = FALSE])
      BY <1>1, <1>7, <2>2 DEF Import!Succeeds
    <3>2. wire' = Refetch(wire \ {q}) /\ DOMAIN ui' = DOMAIN ui
      BY <3>1 DEF Import!Reset, SettlesAndFetches, Doubtless
    <3> QED  BY <1>0, <3>2, SettlesAndFetchesKeeps
  <2> QED  BY <1>7, <2>1, <2>2 DEF Import!Succeeds
<1>8. ASSUME NEW q \in wire, Import!Fails(q)  PROVE Next1
  <2>1. rows' = rows
    BY <1>1, <1>s, <1>8 DEF Fails
  <2> QED  BY <1>0, <1>1, <1>8, <2>1, FailsKeeps
<1> QED
  BY <1>2, <1>4, <1>5, <1>6, <1>7, <1>8 DEF Import!Next

-----------------------------------------------------------------------------
(* The administrators page *)

AdminsChanges == {"add", "edit", "delete", "bulk delete"}
AdminsKept == "filter" \in DOMAIN ui /\ Kept(AdminsPage!Rows, AdminsChanges)

LEMMA AdminsKeptInit ==
  ASSUME AdminsPage!Init  PROVE AdminsKept
<1>1. {"busy", "doubt", "filter"} \subseteq DOMAIN ui /\ wire = {Fetch}
  BY DEF AdminsPage!Init, AdminsPage!Fetch, Fetch
<1> QED  BY <1>1, StartKeeps DEF AdminsKept

LEMMA AdminsKeptStep ==
  ASSUME AdminsKept, AdminsPage!Next
  PROVE  KeptNext(AdminsPage!Rows', AdminsChanges)
<1> DEFINE rows == AdminsPage!Rows
           ops == AdminsChanges
           Next1 == KeptNext(rows', ops)
<1>0. Kept(rows, ops) /\ ops \cap {"list", "status"} = {}
        /\ {"busy", "doubt", "filter"} \subseteq DOMAIN ui
  BY DEF AdminsKept, AdminsChanges, Kept, UpToDate
<1>1. /\ \A op, ids : AdminsPage!Send(op, ids) <=> Send(op, ids)
      /\ \A op, ids : AdminsPage!SendFreely(op, ids) <=> SendFreely(op, ids)
      /\ \A u : AdminsPage!Shows(u) <=> Shows(u)
      /\ \A w : AdminsPage!Refetch(w) = Refetch(w)
      /\ AdminsPage!ChangeQuery <=> ChangeQuery
      /\ \A q : AdminsPage!Answered(q) <=> Answered(q)
      /\ \A q, u : AdminsPage!Settles(q, u) <=> Settles(q, u)
      /\ \A q, u : AdminsPage!SettlesAndFetches(q, u) <=> SettlesAndFetches(q, u)
      /\ \A q : AdminsPage!Fails(q) <=> Fails(q)
      /\ \A q, all : AdminsPage!Served(q, all) <=> Served(q, all)
      /\ \A all : AdminsPage!ListServed(all) <=> ListServed(all)
      /\ AdminsPage!ListArrives <=> ListArrives
  BY DEF AdminsPage!Send, AdminsPage!MaySend, AdminsPage!Submitted, AdminsPage!Request,
     AdminsPage!Becomes, AdminsPage!Writes, AdminsPage!Pending, AdminsPage!Cardinality,
     AdminsPage!SendFreely, AdminsPage!Shows, AdminsPage!Refetch, AdminsPage!Fetch,
     AdminsPage!ChangeQuery, AdminsPage!Doubtless, AdminsPage!Answered, AdminsPage!Settles,
     AdminsPage!SettlesAndFetches, AdminsPage!Fails, AdminsPage!Served, AdminsPage!ListServed,
     AdminsPage!ListArrives, Send, MaySend, Submitted, Request, Becomes, Writes, Pending,
     Cardinality, SendFreely, Shows, Refetch, Fetch, ChangeQuery, Doubtless, Answered, Settles,
     SettlesAndFetches, Fails, Served, ListServed, ListArrives
<1>2. server' = server /\ ui'.filter = ui.filter => rows' = rows
  BY DEF AdminsPage!Rows
<1>3. CASE (\E f : AdminsPage!ChangeFilter(f)) \/ AdminsPage!TurnPage
  <2>1. wire' = Refetch(wire) /\ DOMAIN ui' = DOMAIN ui
    BY <1>1, <1>3
       DEF AdminsPage!ChangeFilter, AdminsPage!TurnPage, AdminsPage!Doubtless, ChangeQuery,
           Doubtless
  <2> QED  BY <1>0, <2>1, FetchKeeps
<1>4. ASSUME NEW u, AdminsPage!Shows(u), DOMAIN u = DOMAIN ui, u.doubt = ui.doubt,
               u.filter = ui.filter
      PROVE  Next1
  <2>1. UNCHANGED <<server, shown, wire>> /\ ui' = u
    BY <1>4 DEF AdminsPage!Shows
  <2> QED  BY <1>0, <1>2, <1>4, <2>1, SameKeeps
<1>5. CASE (\E a : AdminsPage!ToggleSelect(a)) \/ AdminsPage!ToggleAll \/ AdminsPage!ClearSelection
  <2>1. PICK s : AdminsPage!Select(s)
    BY <1>5 DEF AdminsPage!ToggleSelect, AdminsPage!ToggleAll, AdminsPage!ClearSelection
  <2>2. AdminsPage!Shows([ui EXCEPT !.selection = s])
    BY <2>1 DEF AdminsPage!Select
  <2> QED  BY <1>0, <1>4, <2>2
<1>6. CASE (\E d : AdminsPage!OpenBulk(d)) \/ (\E a : AdminsPage!FromTable(a)) \/ AdminsPage!OpenAdd
           \/ AdminsPage!CloseReset \/ AdminsPage!CloseOther \/ AdminsPage!TypeName
  <2>1. /\ UNCHANGED <<server, shown, wire>> /\ DOMAIN ui' = DOMAIN ui /\ ui'.doubt = ui.doubt
        /\ ui'.filter = ui.filter
    BY <1>6, <1>0
       DEF AdminsPage!OpenBulk, AdminsPage!FromTable, AdminsPage!OpenEdit, AdminsPage!OpenReset,
           AdminsPage!OpenDelete, AdminsPage!OpenAdd, AdminsPage!CloseReset, AdminsPage!CloseOther,
           AdminsPage!TypeName, AdminsPage!Shows
  <2> QED  BY <1>0, <1>2, <2>1, SameKeeps
<1>7. CASE AdminsPage!CloseBulk
  <2>1. CASE wire' = Refetch(wire)
    <3>1. DOMAIN ui' = DOMAIN ui
      BY <1>7 DEF AdminsPage!CloseBulk, AdminsPage!Doubtless
    <3> QED  BY <1>0, <2>1, <3>1, FetchKeeps
  <2>2. CASE wire' # Refetch(wire)
    <3>1. AdminsPage!Shows([ui EXCEPT !.open = {}])
      BY <1>1, <1>7, <2>2 DEF AdminsPage!CloseBulk, AdminsPage!Shows
    <3> QED  BY <1>0, <3>1, <1>4
  <2> QED  BY <2>1, <2>2
<1>8. ASSUME NEW op, op # "list", NEW ids, AdminsPage!Send(op, ids)
               \/ AdminsPage!SendFreely(op, ids)
      PROVE  Next1
  <2>1. rows' = rows
    BY <1>0, <1>1, <1>2, <1>8 DEF Send, SendFreely, Submitted
  <2> QED  BY <1>0, <1>1, <1>8, <2>1, SendKeeps
<1>9. CASE (\E a : AdminsPage!SubmitAdd(a)) \/ AdminsPage!SubmitEdit \/ AdminsPage!SubmitDelete
           \/ AdminsPage!SubmitReset \/ (\E d : AdminsPage!SubmitBulk(d))
  BY <1>9, <1>8
     DEF AdminsPage!SubmitAdd, AdminsPage!SubmitEdit, AdminsPage!SubmitDelete,
         AdminsPage!SubmitReset,
         AdminsPage!SubmitBulk, AdminsPage!Bulk
<1>10. CASE AdminsPage!ListServed(rows) \/ AdminsPage!ListArrives
  <2>1. rows' = rows
    BY <1>1, <1>2, <1>10 DEF ListServed, ListArrives
  <2> QED  BY <1>0, <1>1, <1>10, <2>1, ListServedKeeps, ListArrivesKeeps
<1>11. ASSUME NEW q \in wire, AdminsPage!Serve(q)  PROVE Next1
  <2>1. PICK all : Served(q, all) /\ (q.op \notin ops => all = server)
    BY <1>11, <1>1 DEF AdminsPage!Serve, AdminsChanges
  <2>2. q.op \in ops \/ rows' = rows
    BY <1>2, <2>1 DEF Served
  <2> QED  BY <1>0, <2>1, <2>2, ServedKeeps
<1>12. ASSUME NEW q \in wire, AdminsPage!Succeeds(q)  PROVE Next1
  <2>1. CASE q.op \in {"reset", "bulk reset"}
    <3>1. PICK u \in {ui, [ui EXCEPT !.completed = TRUE]} : Settles(q, u)
      BY <1>1, <1>12, <2>1 DEF AdminsPage!Succeeds
    <3>2. /\ UNCHANGED <<server, shown>> /\ wire' = wire \ {q}
          /\ DOMAIN ui' = DOMAIN ui /\ ui'.doubt = ui.doubt /\ ui'.filter = ui.filter
      BY <1>0, <3>1 DEF Settles
    <3>3. q.op # "list" /\ q.op \notin ops
      BY <2>1 DEF AdminsChanges
    <3> QED  BY <1>0, <1>2, <3>2, <3>3, SettlesKeeps
  <2>2. CASE q.op = "add"
    <3>1. AdminsPage!AddAnswered(q)
      BY <1>12, <2>2 DEF AdminsPage!Succeeds
    <3>2. SettlesAndFetches(q, [ui EXCEPT !.open = (@ \ {"add"}) \cup {"reset"}, !.created = TRUE,
                                          !.busy = @ \ {"reset"},
                                            !.item = CHOOSE a \in q.ids : TRUE])
      BY <1>1, <3>1 DEF AdminsPage!AddAnswered
    <3>3. wire' = Refetch(wire \ {q}) /\ DOMAIN ui' = DOMAIN ui
      BY <3>2 DEF SettlesAndFetches, Doubtless
    <3> QED  BY <1>0, <3>3, SettlesAndFetchesKeeps
  <2>3. CASE q.op = "bulk delete"
    <3>1. SettlesAndFetches(q, [ui EXCEPT !.open = @ \ {"bulk delete"}, !.selection = {}])
      BY <1>1, <1>12, <2>3 DEF AdminsPage!Succeeds
    <3>2. wire' = Refetch(wire \ {q}) /\ DOMAIN ui' = DOMAIN ui
      BY <3>1 DEF SettlesAndFetches, Doubtless
    <3> QED  BY <1>0, <3>2, SettlesAndFetchesKeeps
  <2>4. CASE q.op \notin {"reset", "bulk reset", "add", "bulk delete"}
    <3>1. SettlesAndFetches(q, AdminsPage!Left(q.op))
      BY <1>1, <1>12, <2>4 DEF AdminsPage!Succeeds
    <3>2. wire' = Refetch(wire \ {q}) /\ DOMAIN ui' = DOMAIN ui
      BY <3>1 DEF SettlesAndFetches, Doubtless, AdminsPage!Left
    <3> QED  BY <1>0, <3>2, SettlesAndFetchesKeeps
  <2> QED  BY <2>1, <2>2, <2>3, <2>4
<1>13. ASSUME NEW q \in wire, AdminsPage!Fails(q)  PROVE Next1
  <2>1. rows' = rows
    BY <1>0, <1>1, <1>2, <1>13 DEF Fails
  <2> QED  BY <1>0, <1>1, <1>13, <2>1, FailsKeeps
<1> QED
  BY <1>3, <1>5, <1>6, <1>7, <1>9, <1>10, <1>11, <1>12, <1>13 DEF AdminsPage!Next


-----------------------------------------------------------------------------
(* The users of a learning platform: two lists *)

\* A change whose answer fetches both lists, the link of a new resident whatever comes of it.
Changing(q) ==
  q.op \notin Users!Lists /\ (q.op = "link" \/ q.status \in {"done", "part"})

UsersTyped(w, s, u) ==
  /\ DOMAIN s = Users!Lists /\ {"busy", "doubt"} \subseteq DOMAIN u
  /\ \A q \in w : DOMAIN q = Fields
  /\ \A q, r \in w : q.op \in Users!Lists /\ q.op = r.op => q = r

\* One of the lists: in doubt, or to be fetched, or being fetched, or what the server says.
ListKept(w, s, u, rows, l) ==
  \/ u.doubt
  \/ \E q \in w : Changing(q)
  \/ \E q \in w : q.op = l /\ (q.status = "sent" \/ q.rows = rows)
  \/ s[l] = rows /\ \A q \in w : q.op # l

UsersKept ==
  /\ UsersTyped(wire, shown, ui)
  /\ \A l \in Users!Lists : ListKept(wire, shown, ui, Users!Read(l, server), l)
UsersKeptNext ==
  /\ UsersTyped(wire', shown', ui')
  /\ \A l \in Users!Lists : ListKept(wire', shown', ui', Users!Read(l, server'), l)

LEMMA UsersReads ==
  ASSUME NEW l \in Users!Lists  PROVE Users!Read(l, server)' = Users!Read(l, server')
  BY DEF Users!Read, Users!MatchUsers, Users!LinkedOf, Users!Greedy, Users!Best, Users!Better,
         NameSimilarity

LEMMA UsersAsked ==
  ASSUME NEW l  PROVE DOMAIN Users!Asked(l) = Fields /\ Users!Asked(l).op = l
                      /\ Users!Asked(l).status = "sent"
  BY DEF Users!Asked, Fields

\* Both lists are fetched.
LEMMA BothKept ==
  ASSUME UsersKept, NEW w \in SUBSET wire, wire' = Users!Both(w), DOMAIN shown' = Users!Lists,
         {"busy", "doubt"} \subseteq DOMAIN ui'
  PROVE  UsersKeptNext
<1>1. wire' = {q \in w : q.op \notin Users!Lists} \cup {Users!Asked(l) : l \in Users!Lists}
  BY DEF Users!Both
<1>2. \A q \in wire' : DOMAIN q = Fields
  BY <1>1, UsersAsked DEF UsersKept, UsersTyped
<1>3. \A q, r \in wire' : q.op \in Users!Lists /\ q.op = r.op => q = r
  BY <1>1, UsersAsked
<1>4. \A l \in Users!Lists : \E q \in wire' : q.op = l /\ q.status = "sent"
  BY <1>1, UsersAsked
<1> QED  BY <1>2, <1>3, <1>4 DEF UsersKeptNext, UsersTyped, ListKept

\* The fetches stay as they are, and the changes that will cause one.
LEMMA UsersStay ==
  ASSUME UsersKept, UNCHANGED <<server, shown>>, {"busy", "doubt"} \subseteq DOMAIN ui',
         ui.doubt => ui'.doubt,
         \A f \in wire' : DOMAIN f = Fields /\ (f.op \in Users!Lists => f \in wire),
         \A f \in wire : f.op \in Users!Lists \/ Changing(f) => f \in wire'
  PROVE  UsersKeptNext
<1>1. UsersTyped(wire', shown', ui')
  BY DEF UsersKept, UsersTyped
<1>2. ASSUME NEW l \in Users!Lists  PROVE ListKept(wire', shown', ui', Users!Read(l, server'), l)
  BY DEF UsersKept, ListKept
<1> QED  BY <1>1, <1>2 DEF UsersKeptNext

\* A change was carried out, or stays on its way.
LEMMA UsersChanged ==
  ASSUME UsersKept, DOMAIN shown' = Users!Lists, {"busy", "doubt"} \subseteq DOMAIN ui',
         NEW new, DOMAIN new = Fields, Changing(new), NEW q, wire' = (wire \ {q}) \cup {new}
  PROVE  UsersKeptNext
<1>1. UsersTyped(wire', shown', ui')
  BY DEF UsersKept, UsersTyped, Changing
<1> QED  BY <1>1 DEF UsersKeptNext, ListKept

LEMMA UsersKeptInit ==
  ASSUME Users!Init  PROVE UsersKept
<1>1. wire = {Users!Asked(l) : l \in Users!Lists}
  BY DEF Users!Init, Users!Both
<1>2. UsersTyped(wire, shown, ui)
  BY <1>1, UsersAsked DEF Users!Init, Users!NoLists, Users!Lists, UsersTyped
<1>3. \A l \in Users!Lists : \E q \in wire : q.op = l /\ q.status = "sent"
  BY <1>1, UsersAsked
<1> QED  BY <1>2, <1>3 DEF UsersKept, ListKept

LEMMA UsersKeptStep ==
  ASSUME UsersKept, Users!Next  PROVE UsersKeptNext
<1>0. /\ {"busy", "doubt"} \subseteq DOMAIN ui /\ DOMAIN shown = Users!Lists
      /\ \A q \in wire : DOMAIN q = Fields
  BY DEF UsersKept, UsersTyped
\* The page's own state changes, or a request is sent.
<1>1. ASSUME UNCHANGED <<server, shown>>, DOMAIN ui' = DOMAIN ui, ui'.doubt = ui.doubt,
             \/ wire' = wire
             \/ \E f : wire' = wire \cup {f} /\ DOMAIN f = Fields /\ f.op \notin Users!Lists
      PROVE  UsersKeptNext
  BY <1>0, <1>1, UsersStay
<1>2. CASE Users!Refresh
  <2>1. /\ UNCHANGED <<server, shown, ui>>
        /\ wire' = {q \in wire : q.op # "match"} \cup {Users!Asked("match")}
    BY <1>2 DEF Users!Refresh
  <2>2. UsersTyped(wire', shown', ui')
    BY <2>1, UsersAsked DEF UsersKept, UsersTyped
  <2>3. ListKept(wire', shown', ui', Users!Read("match", server'), "match")
    BY <2>1, UsersAsked DEF ListKept
  <2>4. ListKept(wire', shown', ui', Users!Read("mapped", server'), "mapped")
    <3>1. ListKept(wire, shown, ui, Users!Read("mapped", server), "mapped")
      BY DEF UsersKept, Users!Lists
    <3>2. \A q \in wire : Changing(q) \/ q.op = "mapped" => q \in wire'
      BY <2>1 DEF Changing, Users!Lists
    <3>3. \A q \in wire' : q.op = "mapped" => q \in wire
      BY <2>1, UsersAsked
    <3> QED  BY <2>1, <3>1, <3>2, <3>3 DEF ListKept
  <2> QED  BY <2>2, <2>3, <2>4 DEF UsersKeptNext, Users!Lists
<1>3. CASE \/ Users!ConfirmAllAuto \/ Users!ConfirmAllReview \/ Users!RequestApply \/ Users!Close
           \/ \E c \in CanvasUsers : Users!Withdraw(c) \/ Users!OpenMap(c) \/ Users!OpenCreate(c)
           \/ \E r \in CanvasResidents : Users!Pick(r) \/ Users!OpenUnlink(r)
           \/ \E p \in CanvasUsers \X CanvasResidents : Users!ConfirmAuto(p)
                \/ Users!ConfirmReview(p)
  <2>1. UNCHANGED <<server, shown, wire>> /\ DOMAIN ui' = DOMAIN ui /\ ui'.doubt = ui.doubt
    BY <1>0, <1>3
       DEF Users!ConfirmAllAuto, Users!ConfirmAllReview, Users!RequestApply, Users!Close,
           Users!Withdraw, Users!OpenMap, Users!OpenCreate, Users!Pick, Users!OpenUnlink,
           Users!ConfirmAuto, Users!ConfirmReview, Users!Shows
  <2> QED  BY <1>1, <2>1
<1>4. CASE Users!ApplyMatches
  <2> DEFINE f == Users!Request("apply", Users!ToApply)
  <2>1. DOMAIN f = Fields /\ f.op = "apply"
    BY DEF Users!Request, Fields
  <2>2. /\ UNCHANGED <<server, shown>> /\ wire' = wire \cup {f}
        /\ DOMAIN ui' = DOMAIN ui /\ ui'.doubt = ui.doubt
    BY <1>0, <1>4 DEF Users!ApplyMatches, Users!Submitted
  <2> HIDE DEF f
  <2> QED  BY <1>1, <2>1, <2>2 DEF Users!Lists
<1>5. CASE Users!MapUser
  <2> DEFINE f == [Users!Request("map", {<<ui.item, ui.picked>>}) EXCEPT !.rows = ui.review]
  <2>1. DOMAIN f = Fields /\ f.op = "map"
    BY DEF Users!Request, Fields
  <2>2. /\ UNCHANGED <<server, shown>> /\ wire' = wire \cup {f}
        /\ DOMAIN ui' = DOMAIN ui /\ ui'.doubt = ui.doubt
    BY <1>0, <1>5 DEF Users!MapUser, Users!Submitted
  <2> HIDE DEF f
  <2> QED  BY <1>1, <2>1, <2>2 DEF Users!Lists
<1>6. CASE Users!UnlinkUser
  <2> DEFINE f == Users!Request("unlink", {<<None, ui.item>>})
  <2>1. DOMAIN f = Fields /\ f.op = "unlink"
    BY DEF Users!Request, Fields
  <2>2. /\ UNCHANGED <<server, shown>> /\ wire' = wire \cup {f}
        /\ DOMAIN ui' = DOMAIN ui /\ ui'.doubt = ui.doubt
    BY <1>0, <1>6 DEF Users!UnlinkUser
  <2> HIDE DEF f
  <2> QED  BY <1>1, <2>1, <2>2 DEF Users!Lists
<1>7. ASSUME NEW r \in CanvasResidents, Users!CreateResident(r)  PROVE UsersKeptNext
  <2> DEFINE f == Users!Request("create", {<<ui.item, r>>})
  <2>1. DOMAIN f = Fields /\ f.op = "create"
    BY DEF Users!Request, Fields
  <2>2. /\ UNCHANGED <<server, shown>> /\ wire' = wire \cup {f}
        /\ DOMAIN ui' = DOMAIN ui /\ ui'.doubt = ui.doubt
    BY <1>0, <1>7 DEF Users!CreateResident, Users!Send, Users!Submitted
  <2> HIDE DEF f
  <2> QED  BY <1>1, <2>1, <2>2 DEF Users!Lists
<1>8. ASSUME NEW q \in wire, Users!ListRead(q)  PROVE UsersKeptNext
  <2> DEFINE new == [q EXCEPT !.status = "done", !.rows = Users!Read(q.op, server)]
  <2>1. DOMAIN new = Fields /\ new.op = q.op /\ new.rows = Users!Read(q.op, server)
    BY <1>0, <1>8 DEF Fields
  <2>2. UNCHANGED <<server, shown, ui>> /\ wire' = (wire \ {q}) \cup {new} /\ q.op \in Users!Lists
    BY <1>8 DEF Users!ListRead
  <2> HIDE DEF new
  <2>3. UsersTyped(wire', shown', ui')
    BY <2>1, <2>2 DEF UsersKept, UsersTyped
  <2>4. ASSUME NEW l \in Users!Lists  PROVE ListKept(wire', shown', ui', Users!Read(l, server'), l)
    <3>1. ListKept(wire, shown, ui, Users!Read(l, server), l)
      BY DEF UsersKept
    <3>2. CASE l = q.op
      BY <2>1, <2>2, <3>2 DEF ListKept
    <3>3. CASE l # q.op
      <4>1. \A f \in wire : Changing(f) \/ f.op = l => f \in wire'
        BY <2>2, <3>3 DEF Changing
      <4>2. \A f \in wire' : f.op = l => f \in wire
        BY <2>1, <2>2, <3>3
      <4> QED  BY <2>2, <3>1, <4>1, <4>2 DEF ListKept
    <3> QED  BY <3>2, <3>3
  <2> QED  BY <2>3, <2>4 DEF UsersKeptNext
<1>9. ASSUME NEW q \in wire, Users!ListShown(q)  PROVE UsersKeptNext
  <2>1. /\ UNCHANGED <<server, ui>> /\ wire' = wire \ {q} /\ q.op \in Users!Lists
        /\ q.status = "done" /\ shown' = [shown EXCEPT ![q.op] = q.rows]
    BY <1>9 DEF Users!ListShown
  <2>2. UsersTyped(wire', shown', ui')
    BY <2>1 DEF UsersKept, UsersTyped
  <2>3. ASSUME NEW l \in Users!Lists  PROVE ListKept(wire', shown', ui', Users!Read(l, server'), l)
    <3>1. ListKept(wire, shown, ui, Users!Read(l, server), l)
      BY DEF UsersKept
    <3>2. \A f \in wire : Changing(f) => f \in wire'
      BY <2>1 DEF Changing
    <3>3. CASE l = q.op
      <4>1. \A f \in wire : f.op = l => f = q
        BY <2>1, <3>3 DEF UsersKept, UsersTyped
      <4>2. shown'[l] = q.rows
        BY <1>0, <2>1, <3>3
      <4> QED  BY <2>1, <3>1, <3>2, <3>3, <4>1, <4>2 DEF ListKept
    <3>4. CASE l # q.op
      <4>1. \A f : f.op = l => (f \in wire' <=> f \in wire)
        BY <2>1, <3>4
      <4>2. shown'[l] = shown[l]
        BY <1>0, <2>1, <3>4
      <4> QED  BY <2>1, <3>1, <3>2, <4>1, <4>2 DEF ListKept
    <3> QED  BY <3>3, <3>4
  <2> QED  BY <2>2, <2>3 DEF UsersKeptNext
<1>10. ASSUME NEW q \in wire, Users!Serve(q)  PROVE UsersKeptNext
  <2>1. UNCHANGED <<shown, ui>> /\ q.op \notin Users!Lists
    BY <1>10 DEF Users!Serve, Users!Posts
  <2>2. PICK s \in {"done", "part"} : wire' = Users!Becomes(q, s)
    BY <1>10 DEF Users!Serve
  <2> DEFINE new == [q EXCEPT !.status = s]
  <2>3. DOMAIN new = Fields /\ Changing(new)
    BY <1>0, <2>1 DEF Fields, Changing
  <2>4. wire' = (wire \ {q}) \cup {new}
    BY <2>2 DEF Users!Becomes
  <2> HIDE DEF new
  <2> QED  BY <1>0, <2>1, <2>3, <2>4, UsersChanged
<1>11. ASSUME NEW q, NEW u, DOMAIN u = DOMAIN ui, Users!SettledAs(q, u)  PROVE UsersKeptNext
  <2>1. wire' = Users!Both(wire \ {q}) /\ shown' = shown /\ DOMAIN ui' = DOMAIN ui
    BY <1>11 DEF Users!SettledAs, Users!Doubtless
  <2> QED  BY <1>0, <2>1, BothKept
<1>12. ASSUME NEW q \in wire, Users!Succeeds(q)  PROVE UsersKeptNext
  <2>1. \A u, d : DOMAIN Users!Shut(u, d) = DOMAIN u
    BY DEF Users!Shut
  <2>2. CASE q.op = "apply"
    <3>1. Users!ApplyAnswered(q)
      BY Zenon, <1>12, <2>2 DEF Users!Succeeds
    <3>2. \/ Users!SettledAs(q, ui)
          \/ Users!SettledAs(q, [ui EXCEPT !.confirmed = {},
               !.chosen = [c \in CanvasUsers |-> None]])
      BY <3>1 DEF Users!ApplyAnswered
    <3>3. DOMAIN [ui EXCEPT !.confirmed = {}, !.chosen = [c \in CanvasUsers |-> None]] = DOMAIN ui
      OBVIOUS
    <3> QED  BY <1>11, <3>2, <3>3
  <2>3. CASE q.op = "map"
    <3>1. Users!MapAnswered(q)
      BY <1>12, <2>3 DEF Users!Succeeds
    <3> DEFINE c == (CHOOSE p \in q.ids : TRUE)[1]
               u == IF q.rows THEN [ui EXCEPT !.chosen[c] = None] ELSE ui
    <3>2. Users!SettledAs(q, Users!Shut(u, "map"))
      BY <3>1 DEF Users!MapAnswered
    <3>3. DOMAIN u = DOMAIN ui
      OBVIOUS
    <3> HIDE DEF u
    <3> QED  BY <1>11, <2>1, <3>2, <3>3
  <2>4. CASE q.op = "create"
    <3>1. Users!CreateAnswered(q)
      BY <1>12, <2>4 DEF Users!Succeeds
    <3> DEFINE new == Users!Request("link", q.ids)
    <3>2. DOMAIN new = Fields /\ Changing(new)
      BY DEF Users!Request, Fields, Changing, Users!Lists
    <3>3. wire' = (wire \ {q}) \cup {new} /\ shown' = shown /\ DOMAIN ui' = DOMAIN ui
      BY <2>1, <3>1 DEF Users!CreateAnswered
    <3> HIDE DEF new
    <3> QED  BY <1>0, <3>2, <3>3, UsersChanged
  <2>5. CASE q.op = "unlink"
    <3>1. Users!SettledAs(q, Users!Shut(ui, "unlink"))
      BY <1>12, <2>5 DEF Users!Succeeds
    <3> QED  BY <1>11, <2>1, <3>1
  <2>6. CASE q.op \notin {"apply", "map", "create", "unlink"}
    <3>1. Users!SettledAs(q, ui)
      BY <1>12, <2>6 DEF Users!Succeeds
    <3> QED  BY <1>11, <3>1
  <2> QED  BY <2>2, <2>3, <2>4, <2>5, <2>6
<1>13. ASSUME NEW q \in wire, Users!FailsHere(q)  PROVE UsersKeptNext
  <2>1. CASE q.op = "link"
    BY <1>11, <1>13, <2>1 DEF Users!FailsHere
  <2>2. CASE q.op # "link"
    <3>1. /\ q.op \notin Users!Lists /\ UNCHANGED <<server, shown>> /\ wire' = wire \ {q}
          /\ ui'.doubt = (ui.doubt \/ q.status # "sent") /\ DOMAIN ui' = DOMAIN ui
      BY <1>0, <1>13, <2>2 DEF Users!FailsHere, Users!Posts
    <3>2. CASE q.status = "sent"
      <4>1. ~Changing(q)
        BY <2>2, <3>2 DEF Changing
      <4> QED  BY <1>0, <3>1, <3>2, <4>1, UsersStay
    <3>3. CASE q.status # "sent"
      <4>1. UsersTyped(wire', shown', ui')
        BY <1>0, <3>1 DEF UsersKept, UsersTyped
      <4> QED  BY <3>1, <3>3, <4>1 DEF UsersKeptNext, ListKept
    <3> QED  BY <3>2, <3>3
  <2> QED  BY <2>1, <2>2
<1> QED
  BY <1>2, <1>3, <1>4, <1>5, <1>6, <1>7, <1>8, <1>9, <1>10, <1>12, <1>13 DEF Users!Next
-----------------------------------------------------------------------------
(* The learning platforms *)

PlatformsChanges == {"add", "edit", "state", "register", "recreate"}
PlatformsKept == Kept(Platforms!Rows, PlatformsChanges)

LEMMA PlatformsKeptInit ==
  ASSUME Platforms!Init  PROVE PlatformsKept
<1>1. {"busy", "doubt"} \subseteq DOMAIN ui /\ wire = {Fetch}
  BY DEF Platforms!Init, Platforms!Fetch, Fetch
<1> QED  BY <1>1, StartKeeps DEF PlatformsKept

LEMMA PlatformsKeptStep ==
  ASSUME PlatformsKept, Platforms!Next
  PROVE  KeptNext(Platforms!Rows', PlatformsChanges)
<1> DEFINE rows == Platforms!Rows
           ops == PlatformsChanges
           Next1 == KeptNext(rows', ops)
<1>0. Kept(rows, ops) /\ ops \cap {"list", "status"} = {} /\ {"busy", "doubt"} \subseteq DOMAIN ui
  BY DEF PlatformsKept, PlatformsChanges, Kept, UpToDate
<1>1. /\ \A op, ids : Platforms!Send(op, ids) <=> Send(op, ids)
      /\ \A op, ids : Platforms!SendFreely(op, ids) <=> SendFreely(op, ids)
      /\ Platforms!ChangeQuery <=> ChangeQuery
      /\ \A q : Platforms!Answered(q) <=> Answered(q)
      /\ \A q, u : Platforms!Settles(q, u) <=> Settles(q, u)
      /\ \A q, u : Platforms!SettlesAndFetches(q, u) <=> SettlesAndFetches(q, u)
      /\ \A q : Platforms!Fails(q) <=> Fails(q)
      /\ \A q, all : Platforms!Served(q, all) <=> Served(q, all)
      /\ \A all : Platforms!ListServed(all) <=> ListServed(all)
      /\ Platforms!ListArrives <=> ListArrives
  BY DEF Platforms!Send, Platforms!MaySend, Platforms!Submitted, Platforms!Request,
     Platforms!Becomes, Platforms!Writes, Platforms!Pending, Platforms!Cardinality,
     Platforms!SendFreely, Platforms!ChangeQuery, Platforms!Doubtless, Platforms!Refetch,
     Platforms!Fetch, Platforms!Answered, Platforms!Settles, Platforms!SettlesAndFetches,
     Platforms!Fails, Platforms!Served, Platforms!ListServed, Platforms!ListArrives, Send,
     MaySend, Submitted, Request, Becomes, Writes, Pending, Cardinality, SendFreely, ChangeQuery,
     Doubtless, Refetch, Fetch, Answered, Settles, SettlesAndFetches, Fails, Served, ListServed,
     ListArrives
<1>2. server' = server => rows' = rows
  BY DEF Platforms!Rows
<1>3. CASE Platforms!TurnPage
  BY <1>0, <1>1, <1>3, QueryKeeps DEF Platforms!TurnPage
<1>4. CASE Platforms!OpenAdd \/ Platforms!OpenEdit \/ Platforms!OpenRegister
             \/ Platforms!OpenRecreate
           \/ Platforms!OpenArchive \/ Platforms!Close \/ Platforms!CloseInfo
  <2>1. UNCHANGED <<server, shown, wire>> /\ DOMAIN ui' = DOMAIN ui /\ ui'.doubt = ui.doubt
    BY <1>4, <1>0
       DEF Platforms!OpenAdd, Platforms!OpenEdit, Platforms!OpenRegister, Platforms!OpenRecreate,
           Platforms!OpenArchive, Platforms!Close, Platforms!CloseInfo, Platforms!Open,
             Platforms!Shows
  <2> QED  BY <1>0, <1>2, <2>1, SameKeeps
<1>5. ASSUME NEW op, op # "list", NEW ids, Platforms!Send(op, ids) \/ Platforms!SendFreely(op, ids)
      PROVE  Next1
  <2>1. rows' = rows
    BY <1>1, <1>2, <1>5 DEF Send, SendFreely
  <2> QED  BY <1>0, <1>1, <1>5, <2>1, SendKeeps
<1>6. CASE Platforms!SubmitAdd \/ Platforms!SubmitEdit \/ Platforms!SubmitRegister
           \/ Platforms!ShowAuthInfo
  BY <1>6, <1>5
     DEF Platforms!SubmitAdd, Platforms!SubmitEdit, Platforms!SubmitRegister, Platforms!ShowAuthInfo
<1>c. ASSUME NEW d, NEW op, op # "list", NEW ids, Platforms!Confirm(d, Platforms!Request(op, ids))
      PROVE  Next1
  <2> DEFINE f == Platforms!Request(op, ids)
  <2>1. DOMAIN f = Fields /\ f.op # "list"
    BY <1>c DEF Platforms!Request, Fields
  <2>2. /\ wire' = wire \cup {f} /\ UNCHANGED <<server, shown>>
        /\ DOMAIN ui' = DOMAIN ui /\ ui'.doubt = ui.doubt
    BY <1>0, <1>c DEF Platforms!Confirm
  <2> HIDE DEF f
  <2> QED  BY <1>0, <1>2, <2>1, <2>2, AskKeeps
<1>7. CASE Platforms!Recreate \/ Platforms!ArchiveToggle
  BY <1>7, <1>c DEF Platforms!Recreate, Platforms!ArchiveToggle
<1>8. CASE Platforms!ListServed(rows) \/ Platforms!ListArrives
  <2>1. rows' = rows
    BY <1>1, <1>2, <1>8 DEF ListServed, ListArrives
  <2> QED  BY <1>0, <1>1, <1>8, <2>1, ListServedKeeps, ListArrivesKeeps
<1>9. ASSUME NEW q \in wire, Platforms!Serve(q)  PROVE Next1
  <2>0. q.op # "list" /\ q.status = "sent" /\ DOMAIN q = Fields
    BY <1>0, <1>9 DEF Platforms!Serve, Platforms!Writes, Kept, UpToDate
  <2>1. CASE \E all : q.op \in ops /\ Served(q, all)
    BY <1>0, <2>1, ServedKeeps
  <2>2. CASE q.op \in ops /\ Platforms!Made(q)
    <3> DEFINE new == [q EXCEPT !.status = "done", !.rows = server.made + 1]
    <3>1. DOMAIN new = Fields /\ new.op = q.op /\ Carried(new)
      BY <2>0 DEF Fields, Carried
    <3>2. wire' = (wire \ {q}) \cup {new} /\ shown' = shown /\ ui' = ui
      BY <2>2 DEF Platforms!Made
    <3> HIDE DEF new
    <3> QED  BY <1>0, <2>0, <2>2, <3>1, <3>2, TurnKeeps
  <2>3. CASE q.op = "recreate" /\ wire' = Platforms!Becomes(q, "half") /\ UNCHANGED <<shown, ui>>
    <3> DEFINE new == [q EXCEPT !.status = "half"]
    <3>1. DOMAIN new = Fields /\ new.op = q.op /\ Carried(new)
      BY <2>0, <2>3 DEF Fields, Carried
    <3>2. wire' = (wire \ {q}) \cup {new} /\ shown' = shown /\ ui' = ui
      BY <2>3 DEF Platforms!Becomes
    <3> HIDE DEF new
    <3>3. q.op \in ops
      BY <2>3 DEF PlatformsChanges
    <3> QED  BY <1>0, <2>0, <3>1, <3>2, <3>3, TurnKeeps
  <2>4. CASE Platforms!ServeInfo(q)
    <3> DEFINE new == [q EXCEPT !.status = "done", !.rows = server.client]
    <3>1. DOMAIN new = Fields /\ new.op = q.op /\ q.op \notin ops
      BY <2>0, <2>4 DEF Fields, Platforms!ServeInfo, PlatformsChanges
    <3>2. wire' = (wire \ {q}) \cup {new} /\ UNCHANGED <<server, shown, ui>>
      BY <2>4 DEF Platforms!ServeInfo
    <3> HIDE DEF new
    <3> QED  BY <1>0, <1>2, <2>0, <3>1, <3>2, TurnKeeps
  <2>5. CASE Platforms!ServePost(q)
    <3>1. q.op \in ops
      BY Zenon, <2>5 DEF Platforms!ServePost, PlatformsChanges
    <3>2. \/ \E all : Platforms!Served(q, all)
          \/ Platforms!Made(q)
          \/ q.op = "recreate" /\ wire' = Platforms!Becomes(q, "half") /\ UNCHANGED <<shown, ui>>
      BY Zenon, <2>5 DEF Platforms!ServePost
    <3> QED  BY <1>1, <2>1, <2>2, <2>3, <3>1, <3>2
  <2> QED  BY <1>9, <2>4, <2>5 DEF Platforms!Serve
<1>10. ASSUME NEW q \in wire, Platforms!Succeeds(q)  PROVE Next1
  <2>1. CASE q.op = "info"
    <3>1. Settles(q, Platforms!Informed(q, ui))
      BY <1>1, <1>10, <2>1 DEF Platforms!Succeeds
    <3>2. /\ UNCHANGED <<server, shown>> /\ wire' = wire \ {q}
          /\ DOMAIN ui' = DOMAIN ui /\ ui'.doubt = ui.doubt
      BY <1>0, <3>1 DEF Settles, Platforms!Informed
    <3>3. q.op # "list" /\ q.op \notin ops
      BY <2>1 DEF PlatformsChanges
    <3> QED  BY <1>0, <1>2, <3>2, <3>3, SettlesKeeps
  <2>2. CASE q.op # "info"
    <3>1. PICK d : \/ SettlesAndFetches(q, Platforms!Closed(d))
                   \/ SettlesAndFetches(q, Platforms!Informed(q, Platforms!Closed(d)))
      BY <1>1, <1>10, <2>2 DEF Platforms!Succeeds
    <3>2. DOMAIN Platforms!Closed(d) = DOMAIN ui
          /\ DOMAIN Platforms!Informed(q, Platforms!Closed(d)) = DOMAIN ui
      BY DEF Platforms!Closed, Platforms!Informed
    <3>3. wire' = Refetch(wire \ {q}) /\ DOMAIN ui' = DOMAIN ui
      BY <3>1, <3>2 DEF SettlesAndFetches, Doubtless
    <3> QED  BY <1>0, <3>3, SettlesAndFetchesKeeps
  <2> QED  BY <2>1, <2>2
<1>11. ASSUME NEW q \in wire, Platforms!Fails(q)  PROVE Next1
  <2>1. rows' = rows
    BY <1>1, <1>2, <1>11 DEF Fails
  <2> QED  BY <1>0, <1>1, <1>11, <2>1, FailsKeeps
<1> QED
  BY <1>3, <1>4, <1>6, <1>7, <1>8, <1>9, <1>10, <1>11 DEF Platforms!Next

-----------------------------------------------------------------------------
(* The facilities page *)

FacilitiesChanges == {"add", "edit", "delete"}
FacilitiesKept == Kept(FacilitiesPage!Rows, FacilitiesChanges)

LEMMA FacilitiesKeptInit ==
  ASSUME FacilitiesPage!Init  PROVE FacilitiesKept
<1>1. {"busy", "doubt"} \subseteq DOMAIN ui /\ wire = {Fetch}
  BY DEF FacilitiesPage!Init, FacilitiesPage!Fetch, Fetch
<1> QED  BY <1>1, StartKeeps DEF FacilitiesKept

LEMMA FacilitiesKeptStep ==
  ASSUME FacilitiesKept, FacilitiesPage!Next
  PROVE  KeptNext(FacilitiesPage!Rows', FacilitiesChanges)
<1> DEFINE rows == FacilitiesPage!Rows
           ops == FacilitiesChanges
           Next1 == KeptNext(rows', ops)
<1>0. Kept(rows, ops) /\ ops \cap {"list", "status"} = {} /\ {"busy", "doubt"} \subseteq DOMAIN ui
  BY DEF FacilitiesKept, FacilitiesChanges, Kept, UpToDate
<1>1. /\ \A op, ids : FacilitiesPage!Send(op, ids) <=> Send(op, ids)
      /\ \A q : FacilitiesPage!Answered(q) <=> Answered(q)
      /\ \A q, u : FacilitiesPage!SettlesAndFetches(q, u) <=> SettlesAndFetches(q, u)
      /\ \A q : FacilitiesPage!Fails(q) <=> Fails(q)
      /\ \A q, all : FacilitiesPage!Served(q, all) <=> Served(q, all)
      /\ \A all : FacilitiesPage!ListServed(all) <=> ListServed(all)
      /\ FacilitiesPage!ListArrives <=> ListArrives
  BY DEF FacilitiesPage!Send, FacilitiesPage!MaySend, FacilitiesPage!Submitted,
     FacilitiesPage!Request, FacilitiesPage!Becomes, FacilitiesPage!Writes,
     FacilitiesPage!Pending, FacilitiesPage!Cardinality, FacilitiesPage!Answered,
     FacilitiesPage!SettlesAndFetches, FacilitiesPage!Doubtless, FacilitiesPage!Refetch,
     FacilitiesPage!Fetch, FacilitiesPage!Fails, FacilitiesPage!Served, FacilitiesPage!ListServed,
     FacilitiesPage!ListArrives, Send, MaySend, Submitted, Request, Becomes, Writes, Pending,
     Cardinality, Answered, SettlesAndFetches, Doubtless, Refetch, Fetch, Fails, Served,
     ListServed, ListArrives
<1>2. server' = server => rows' = rows
  BY DEF FacilitiesPage!Rows
<1>3. CASE FacilitiesPage!OpenAdd \/ FacilitiesPage!CloseForm \/ FacilitiesPage!CloseDelete
           \/ (\E f : FacilitiesPage!OpenEdit(f) \/ FacilitiesPage!OpenDelete(f))
           \/ (\E w : FacilitiesPage!Search(w)) \/ (\E p : FacilitiesPage!TurnPage(p))
  <2>1. UNCHANGED <<server, shown, wire>> /\ DOMAIN ui' = DOMAIN ui /\ ui'.doubt = ui.doubt
    BY <1>3, <1>0
       DEF FacilitiesPage!OpenAdd, FacilitiesPage!CloseForm, FacilitiesPage!CloseDelete,
           FacilitiesPage!OpenEdit, FacilitiesPage!OpenDelete, FacilitiesPage!Search,
           FacilitiesPage!TurnPage, FacilitiesPage!Shows
  <2> QED  BY <1>0, <1>2, <2>1, SameKeeps
<1>4. ASSUME NEW op, op # "list", NEW ids, FacilitiesPage!Send(op, ids)  PROVE Next1
  <2>1. rows' = rows
    BY <1>1, <1>2, <1>4 DEF Send
  <2> QED  BY <1>0, <1>1, <1>4, <2>1, SendKeeps
<1>5. CASE (\E f : FacilitiesPage!SubmitAdd(f)) \/ FacilitiesPage!SubmitEdit
           \/ FacilitiesPage!SubmitDelete
  BY <1>5, <1>4
     DEF FacilitiesPage!SubmitAdd, FacilitiesPage!SubmitEdit, FacilitiesPage!SubmitDelete
<1>6. CASE \E f : FacilitiesPage!Occupy(f)
  <2>1. UNCHANGED <<shown, wire>> /\ ui' = [ui EXCEPT !.doubt = TRUE]
    BY <1>6 DEF FacilitiesPage!Occupy
  <2> QED  BY <1>0, <2>1 DEF Kept, KeptNext, UpToDate
<1>7. CASE FacilitiesPage!ListServed(rows) \/ FacilitiesPage!ListArrives
  <2>1. rows' = rows
    BY <1>1, <1>2, <1>7 DEF ListServed, ListArrives
  <2> QED  BY <1>0, <1>1, <1>7, <2>1, ListServedKeeps, ListArrivesKeeps
<1>8. ASSUME NEW q \in wire, FacilitiesPage!Serve(q)  PROVE Next1
  <2>1. CASE \E all : q.op \in ops /\ Served(q, all)
    BY <1>0, <2>1, ServedKeeps
  <2>2. CASE FacilitiesPage!Refused(q)
    <3> DEFINE new == [q EXCEPT !.status = "used"]
    <3>1. /\ q.op # "list" /\ ~Carried(q)
          /\ wire' = (wire \ {q}) \cup {new} /\ UNCHANGED <<server, shown, ui>>
      BY <2>2 DEF FacilitiesPage!Refused, FacilitiesPage!Becomes, Carried
    <3>2. DOMAIN new = Fields /\ new.op = q.op
      BY <1>0 DEF Fields, Kept, UpToDate
    <3> HIDE DEF new
    <3> QED  BY <1>0, <1>2, <3>1, <3>2, TurnKeeps
  <2> QED
    BY <1>1, <1>8, <2>1, <2>2 DEF FacilitiesPage!Serve, FacilitiesChanges
<1>9. ASSUME NEW q \in wire, FacilitiesPage!Succeeds(q)  PROVE Next1
  <2>1. PICK u \in {FacilitiesPage!Left, [ui EXCEPT !.dialog = IF @ = "add" THEN "none" ELSE @],
                    [ui EXCEPT !.item = None, !.dialog = IF @ = "edit" THEN "none" ELSE @]} :
          SettlesAndFetches(q, u)
    BY <1>1, <1>9 DEF FacilitiesPage!Succeeds, FacilitiesPage!Deleted
  <2>2. DOMAIN u = DOMAIN ui
    BY <2>1 DEF FacilitiesPage!Left
  <2>3. wire' = Refetch(wire \ {q}) /\ DOMAIN ui' = DOMAIN ui
    BY <2>1, <2>2 DEF SettlesAndFetches, Doubtless
  <2> QED  BY <1>0, <2>3, SettlesAndFetchesKeeps
<1>10. ASSUME NEW q \in wire, FacilitiesPage!FailsHere(q)  PROVE Next1
  <2>1. CASE Fails(q)
    <3>1. rows' = rows
      BY <1>2, <2>1 DEF Fails
    <3> QED  BY <1>0, <2>1, <3>1, FailsKeeps
  <2>2. CASE q.op = "delete"
    <3>1. /\ wire' = wire \ {q} /\ UNCHANGED <<server, shown>>
          /\ DOMAIN ui' = DOMAIN ui /\ ui'.doubt = (ui.doubt \/ q.status # "sent")
      BY <1>0, <1>10, <2>2 DEF FacilitiesPage!FailsHere, FacilitiesPage!Left
    <3> QED  BY <1>0, <1>2, <2>2, <3>1, LostKeeps
  <2> QED  BY <1>1, <1>10, <2>1, <2>2 DEF FacilitiesPage!FailsHere
<1> QED
  BY <1>3, <1>5, <1>6, <1>7, <1>8, <1>9, <1>10 DEF FacilitiesPage!Next

-----------------------------------------------------------------------------
(* The features of the facilities *)

FeaturesTyped ==
  /\ {"place", "pending", "applying", "confirm", "stale"} \subseteq DOMAIN ui
  /\ ui.place \in {"f1", "f2"}
  /\ DOMAIN server = {"f1", "f2"} /\ DOMAIN shown = {"f1", "f2"}
  /\ \A q \in wire : DOMAIN q = Fields
  /\ \A q, r \in wire : q.op = "list" /\ r.op = "list" /\ q.ids = r.ids => q = r

\* A change that was carried out for that facility, or for all of them.
Concerns(q, p) ==
  q.status = "done" /\ q.op # "list" /\ (q.op = "toggle" => q.rows.place = p)
Loads(q, p) == q.op = "list" /\ q.ids = {p}

\* A facility's entry is stale, or a change of it was carried out whose answer will have it
\* fetched or make it stale, or it is being fetched, or says what there is, or was never asked for.
EntryKept(w, s, u, rows, p) ==
  \/ p \in u.stale
  \/ \E q \in w : Concerns(q, p)
  \/ \E q \in w : Loads(q, p) /\ (q.status = "sent" \/ q.rows = rows)
  \/ s[p] = rows /\ \A q \in w : ~Loads(q, p)
  \/ s[p] = None /\ p # u.place /\ \A q \in w : ~Loads(q, p)

FeaturesKept ==
  /\ FeaturesTyped
  /\ \A p \in {"f1", "f2"} : EntryKept(wire, shown, ui, Features!Rows(p), p)

LEMMA EntryStays ==
  ASSUME NEW w, NEW s, NEW u, NEW rows, NEW p, EntryKept(w, s, u, rows, p),
         NEW w2, NEW s2, NEW u2, s2[p] = s[p], p \in u.stale => p \in u2.stale,
         \A q \in w : Concerns(q, p) \/ Loads(q, p) => q \in w2,
         \A q \in w2 : Loads(q, p) => q \in w,
         p # u.place => p # u2.place \/ s[p] # None
  PROVE  EntryKept(w2, s2, u2, rows, p)
  BY DEF EntryKept

\* The server carries out a change of it.
LEMMA EntryChanged ==
  ASSUME NEW w, NEW s, NEW u, NEW rows, NEW p, NEW q \in w, Concerns(q, p)
  PROVE  EntryKept(w, s, u, rows, p)
  BY DEF EntryKept

LEMMA EntryAsked ==
  ASSUME NEW w, NEW s, NEW u, NEW rows, NEW p
  PROVE  EntryKept(Features!Load(w, p), s, u, rows, p)
<1> DEFINE f == [Features!Fetch EXCEPT !.ids = {p}]
<1>1. f \in Features!Load(w, p) /\ Loads(f, p) /\ f.status = "sent"
  BY DEF Features!Load, Features!Fetch, Loads
<1> HIDE DEF f
<1> QED  BY <1>1 DEF EntryKept

LEMMA FeaturesKeptInit ==
  ASSUME Features!Init  PROVE FeaturesKept
<1>1. PICK p \in {"f1", "f2"} : wire = Features!Load({}, p) /\ ui.place = p
  BY DEF Features!Init
<1>2. wire = {[Features!Fetch EXCEPT !.ids = {p}]}
  BY <1>1 DEF Features!Load
<1>3. FeaturesTyped
  BY <1>1, <1>2 DEF Features!Init, FeaturesTyped, Features!Fetch, Fields
<1>4. ASSUME NEW r \in {"f1", "f2"}, r # p  PROVE EntryKept(wire, shown, ui, Features!Rows(r), r)
  <2>1. shown[r] = None /\ r # ui.place
    BY <1>1, <1>4 DEF Features!Init
  <2>2. \A q \in wire : ~Loads(q, r)
    BY <1>2, <1>4 DEF Loads, Features!Fetch
  <2> QED  BY <2>1, <2>2 DEF EntryKept
<1>5. EntryKept(wire, shown, ui, Features!Rows(p), p)
  BY <1>1, EntryAsked
<1> QED  BY <1>3, <1>4, <1>5 DEF FeaturesKept

LEMMA FeaturesKeptStep ==
  ASSUME FeaturesKept, Features!Next
  PROVE  /\ FeaturesTyped'
         /\ \A p \in {"f1", "f2"} : EntryKept(wire', shown', ui', Features!Rows(p)', p)
<1> DEFINE places == {"f1", "f2"}
           Entry(p) == EntryKept(wire', shown', ui', Features!Rows(p)', p)
           All == \A p \in places : Entry(p)
<1>0. /\ FeaturesTyped /\ \A p \in places : EntryKept(wire, shown, ui, Features!Rows(p), p)
      /\ {"place", "pending", "applying", "confirm", "stale"} \subseteq DOMAIN ui
      /\ ui.place \in places
      /\ DOMAIN server = places /\ DOMAIN shown = places /\ \A q \in wire : DOMAIN q = Fields
  BY DEF FeaturesKept, FeaturesTyped
<1>1. ASSUME NEW p, server'[p] = server[p]  PROVE Features!Rows(p)' = Features!Rows(p)
  BY <1>1 DEF Features!Rows
<1>2. ASSUME NEW p, server' = server  PROVE Features!Rows(p)' = Features!Rows(p)
  BY <1>2 DEF Features!Rows
\* Any step that leaves the fetches and the entries alone.
<1>3. ASSUME NEW w \in SUBSET wire, \A q \in wire \ w : q.status # "done" /\ q.op # "list",
               w \subseteq wire',
             \A q \in wire' : DOMAIN q = Fields /\ (q.op = "list" => q \in wire),
             UNCHANGED <<server, shown>>, DOMAIN ui' = DOMAIN ui, ui.stale \subseteq ui'.stale,
             ui'.place \in places, \A p \in places : p # ui.place => p # ui'.place
               \/ shown[p] # None
      PROVE  FeaturesTyped' /\ All
  <2>1. FeaturesTyped'
    BY <1>0, <1>3 DEF FeaturesTyped
  <2>2. ASSUME NEW p \in places  PROVE Entry(p)
    <3>1. \A q \in wire : Concerns(q, p) \/ Loads(q, p) => q \in wire'
      BY <1>3 DEF Concerns, Loads
    <3>2. \A q \in wire' : Loads(q, p) => q \in wire
      BY <1>3 DEF Loads
    <3>3. EntryKept(wire', shown', ui', Features!Rows(p), p)
      BY <1>0, <1>3, <3>1, <3>2, EntryStays
    <3> QED  BY <1>2, <1>3, <3>3
  <2> QED  BY <2>1, <2>2
\* An entry is fetched, perhaps with the request gone that had it fetched.
<1>4. ASSUME NEW p0 \in places, NEW w \in SUBSET wire, \A q \in wire : q.op = "list" => q \in w,
             wire' = Features!Load(w, p0), UNCHANGED <<server, shown>>,
             DOMAIN ui' = DOMAIN ui, ui.stale \ {p0} \subseteq ui'.stale,
             \A p \in places \ {p0} : \A q \in wire \ w : Concerns(q, p) => p \in ui'.stale,
             ui'.place = p0
      PROVE  FeaturesTyped' /\ All
  <2> DEFINE f == [Features!Fetch EXCEPT !.ids = {p0}]
  <2>1. DOMAIN f = Fields /\ f.op = "list" /\ f.ids = {p0}
    BY DEF Features!Fetch, Fields
  <2>2. wire' = {q \in w : ~(q.op = "list" /\ q.ids = {p0})} \cup {f}
    BY <1>4 DEF Features!Load
  <2> HIDE DEF f
  <2>3. FeaturesTyped'
    BY <1>0, <1>4, <2>1, <2>2 DEF FeaturesTyped
  <2>4. Entry(p0)
    BY <1>4, EntryAsked
  <2>5. ASSUME NEW p \in places, p # p0  PROVE Entry(p)
    <3>1. CASE p \in ui'.stale
      BY <3>1 DEF EntryKept
    <3>2. CASE p \notin ui'.stale
      <4>1. \A q \in wire : Concerns(q, p) \/ Loads(q, p) => q \in wire'
        BY <1>4, <2>2, <2>5, <3>2 DEF Concerns, Loads
      <4>2. \A q \in wire' : Loads(q, p) => q \in wire
        BY <1>4, <2>1, <2>2, <2>5 DEF Loads
      <4>3. p \in ui.stale => p \in ui'.stale
        BY <1>4, <2>5
      <4>4. EntryKept(wire', shown', ui', Features!Rows(p), p)
        BY <1>0, <1>4, <2>5, <4>1, <4>2, <4>3, EntryStays
      <4> QED  BY <1>2, <1>4, <4>4
    <3> QED  BY <3>1, <3>2
  <2> QED  BY <2>3, <2>4, <2>5
<1>5. ASSUME NEW p \in places, Features!Choose(p)  PROVE FeaturesTyped' /\ All
  <2>1. /\ wire' = Features!Load(wire, p) /\ UNCHANGED <<server, shown>>
        /\ DOMAIN ui' = DOMAIN ui /\ ui.stale \ {p} \subseteq ui'.stale /\ ui'.place = p
    BY <1>0, <1>5 DEF Features!Choose
  <2> QED  BY <1>4, <2>1
<1>6. ASSUME NEW p \in places, Features!ChooseDeduped(p)  PROVE FeaturesTyped' /\ All
  <2>1. /\ UNCHANGED <<server, shown, wire>> /\ DOMAIN ui' = DOMAIN ui /\ ui'.stale = ui.stale
        /\ ui'.place = p /\ shown[p] # None
    BY <1>0, <1>6 DEF Features!ChooseDeduped, Features!Shows
  <2> QED  BY <1>0, <1>3, <2>1
<1>7. CASE Features!OpenConfirm \/ Features!CloseConfirm
  <2>1. /\ UNCHANGED <<server, shown, wire>> /\ DOMAIN ui' = DOMAIN ui /\ ui'.stale = ui.stale
        /\ ui'.place = ui.place
    BY <1>0, <1>7 DEF Features!OpenConfirm, Features!CloseConfirm, Features!Shows
  <2> QED  BY <1>0, <1>3, <2>1
<1>8. ASSUME NEW f, Features!Toggle(f)  PROVE FeaturesTyped' /\ All
  <2> DEFINE new == [Features!Request("toggle", {f})
                       EXCEPT !.rows = [place |-> ui.place, on |-> ~Features!Enabled(f)]]
  <2>1. DOMAIN new = Fields /\ new.op # "list"
    BY DEF Features!Request, Fields
  <2>2. /\ wire' = wire \cup {new} /\ UNCHANGED <<server, shown>> /\ DOMAIN ui' = DOMAIN ui
        /\ ui'.stale = ui.stale /\ ui'.place = ui.place
    BY <1>0, <1>8 DEF Features!Toggle
  <2> HIDE DEF new
  <2> QED  BY <1>0, <1>3, <2>1, <2>2
<1>9. CASE Features!ApplyAll
  <2> DEFINE new == Features!Request("apply", {ui.place})
  <2>1. DOMAIN new = Fields /\ new.op # "list"
    BY DEF Features!Request, Fields
  <2>2. /\ wire' = wire \cup {new} /\ UNCHANGED <<server, shown>> /\ DOMAIN ui' = DOMAIN ui
        /\ ui'.stale = ui.stale /\ ui'.place = ui.place
    BY <1>0, <1>9 DEF Features!ApplyAll
  <2> HIDE DEF new
  <2> QED  BY <1>0, <1>3, <2>1, <2>2
<1>10. ASSUME NEW p \in places, Features!ServeList(p)  PROVE FeaturesTyped' /\ All
  <2>1. PICK q \in wire :
          /\ q.op = "list" /\ q.status = "sent" /\ q.ids = {p} /\ UNCHANGED <<server, shown, ui>>
          /\ wire' = (wire \ {q}) \cup {[q EXCEPT !.status = "done", !.rows = Features!Rows(p)]}
    BY <1>10 DEF Features!ServeList, Features!Pending
  <2> DEFINE new == [q EXCEPT !.status = "done", !.rows = Features!Rows(p)]
  <2>2. DOMAIN new = Fields /\ new.op = "list" /\ new.ids = {p} /\ new.rows = Features!Rows(p)
    BY <1>0, <2>1 DEF Fields
  <2>3. wire' = (wire \ {q}) \cup {new}
    BY <2>1
  <2> HIDE DEF new
  <2>4. FeaturesTyped'
    BY <1>0, <2>1, <2>2, <2>3 DEF FeaturesTyped
  <2>5. Entry(p)
    <3>1. EntryKept(wire', shown', ui', Features!Rows(p), p)
      BY <2>2, <2>3 DEF EntryKept, Loads
    <3> QED  BY <1>2, <2>1, <3>1
  <2>6. ASSUME NEW r \in places, r # p  PROVE Entry(r)
    <3>1. /\ \A g \in wire : Concerns(g, r) \/ Loads(g, r) => g \in wire'
          /\ \A g \in wire' : Loads(g, r) => g \in wire
      BY <2>1, <2>2, <2>3, <2>6 DEF Concerns, Loads
    <3>2. EntryKept(wire', shown', ui', Features!Rows(r), r)
      BY <1>0, <2>1, <3>1, EntryStays
    <3> QED  BY <1>2, <2>1, <3>2
  <2> QED  BY <2>4, <2>5, <2>6
<1>11. ASSUME NEW p \in places, Features!Arrives(p)  PROVE FeaturesTyped' /\ All
  <2>1. PICK q \in wire :
          /\ q.op = "list" /\ q.ids = {p} /\ wire' = wire \ {q} /\ server' = server
          /\ \/ q.status = "done" /\ shown' = [shown EXCEPT ![p] = q.rows] /\ ui' = ui
             \/ shown' = shown /\ ui' = [ui EXCEPT !.stale = @ \cup {p}]
    BY <1>11 DEF Features!Arrives, Features!Pending
  <2>2. DOMAIN ui' = DOMAIN ui /\ ui.stale \subseteq ui'.stale /\ ui'.place = ui.place
    BY <1>0, <2>1
  <2>3. FeaturesTyped'
    BY <1>0, <2>1, <2>2 DEF FeaturesTyped
  <2>4. Entry(p)
    <3>1. CASE shown' = shown /\ ui' = [ui EXCEPT !.stale = @ \cup {p}]
      <4>1. p \in ui'.stale
        BY <1>0, <3>1
      <4> QED  BY <4>1 DEF EntryKept
    <3>2. CASE q.status = "done" /\ shown' = [shown EXCEPT ![p] = q.rows] /\ ui' = ui
      <4>1. shown'[p] = q.rows
        BY <1>0, <3>2
      <4>2. \A r \in wire : Loads(r, p) => r = q
        BY <1>0, <2>1 DEF FeaturesTyped, Loads
      <4>3. EntryKept(wire', shown', ui', Features!Rows(p), p)
        BY <1>0, <2>1, <3>2, <4>1, <4>2 DEF EntryKept, Loads, Concerns
      <4> QED  BY <1>2, <2>1, <4>3
    <3> QED  BY <2>1, <3>1, <3>2
  <2>5. ASSUME NEW r \in places, r # p  PROVE Entry(r)
    <3>1. /\ \A g \in wire : Concerns(g, r) \/ Loads(g, r) => g \in wire'
          /\ \A g \in wire' : Loads(g, r) => g \in wire
      BY <2>1, <2>5 DEF Concerns, Loads
    <3>2. shown'[r] = shown[r]
      BY <1>0, <2>1, <2>5
    <3>3. EntryKept(wire', shown', ui', Features!Rows(r), r)
      BY <1>0, <2>1, <2>2, <3>1, <3>2, EntryStays
    <3> QED  BY <1>2, <2>1, <3>3
  <2> QED  BY <2>3, <2>4, <2>5
<1>12. ASSUME NEW q \in wire, Features!Serve(q)  PROVE FeaturesTyped' /\ All
  <2> DEFINE new == [q EXCEPT !.status = "done"]
  <2>1. /\ q.op # "list" /\ q.status = "sent" /\ wire' = (wire \ {q}) \cup {new}
             /\ UNCHANGED <<shown, ui>>
    BY <1>12
       DEF Features!Serve, Features!ServeToggle, Features!ServeApply, Features!Served,
           Features!Becomes, Features!Writes
  <2>2. DOMAIN new = Fields /\ new.op = q.op /\ new.status = "done" /\ new.rows = q.rows
    BY <1>0 DEF Fields
  <2> HIDE DEF new
  <2>3. DOMAIN server' = places
    BY <1>0, <1>12
       DEF Features!Serve, Features!ServeToggle, Features!ServeApply, Features!Served
  <2>4. FeaturesTyped'
    BY <1>0, <2>1, <2>2, <2>3 DEF FeaturesTyped
  <2>5. ASSUME NEW p \in places  PROVE Entry(p)
    <3>1. CASE Concerns(new, p)
      BY <2>1, <3>1, EntryChanged
    <3>2. CASE ~Concerns(new, p)
      <4>1. q.op = "toggle" /\ q.rows.place # p
        BY <2>1, <2>2, <3>2 DEF Concerns
      <4>2. server'[p] = server[p]
        BY <1>0, <1>12, <4>1
           DEF Features!Serve, Features!ServeToggle, Features!ServeApply, Features!Served
      <4>3. /\ \A g \in wire : Concerns(g, p) \/ Loads(g, p) => g \in wire'
            /\ \A g \in wire' : Loads(g, p) => g \in wire
        BY <2>1, <2>2 DEF Concerns, Loads
      <4>4. EntryKept(wire', shown', ui', Features!Rows(p), p)
        BY <1>0, <2>1, <4>3, EntryStays
      <4> QED  BY <1>1, <4>2, <4>4
    <3> QED  BY <3>1, <3>2
  <2> QED  BY <2>4, <2>5
<1>13. ASSUME NEW q \in wire, Features!Succeeds(q)  PROVE FeaturesTyped' /\ All
  <2>1. /\ q.op # "list" /\ wire' = Features!Load(wire \ {q}, ui.place)
             /\ UNCHANGED <<server, shown>>
        /\ DOMAIN ui' = DOMAIN ui /\ ui'.place = ui.place
        /\ ui'.stale = (ui.stale \ {ui.place}) \cup Features!Untouched(q)
    BY <1>0, <1>13
       DEF Features!Succeeds, Features!Answered, Features!Writes, Features!Mutated
  <2>2. \A p \in places \ {ui.place} : Concerns(q, p) => p \in ui'.stale
    BY <2>1 DEF Features!Untouched, Concerns
  <2> QED  BY <1>0, <1>4, <2>1, <2>2
<1>14. ASSUME NEW q \in wire, Features!FailsHere(q)  PROVE FeaturesTyped' /\ All
  <2>1. /\ q.op # "list" /\ wire' = wire \ {q} /\ UNCHANGED <<server, shown>>
        /\ DOMAIN ui' = DOMAIN ui /\ ui'.place = ui.place /\ ui.stale \subseteq ui'.stale
        /\ q.status # "sent" => places \subseteq ui'.stale
    BY <1>0, <1>14 DEF Features!FailsHere, Features!Writes
  <2>2. CASE q.status = "sent"
    BY <1>0, <1>3, <2>1, <2>2
  <2>3. CASE q.status # "sent"
    <3>1. FeaturesTyped'
      BY <1>0, <2>1 DEF FeaturesTyped
    <3>2. \A p \in places : p \in ui'.stale
      BY <2>1, <2>3
    <3>3. All
      BY <3>2 DEF EntryKept
    <3> QED  BY <3>1, <3>3
  <2> QED  BY <2>2, <2>3
<1> QED
  BY <1>5, <1>6, <1>7, <1>8, <1>9, <1>10, <1>11, <1>12, <1>13, <1>14 DEF Features!Next


-----------------------------------------------------------------------------
(* One program *)

ProgramChanges == {"status", "edit"}
ProgramRecorded(all) == {"active", "archived"} \subseteq DOMAIN all
ProgramKept == ProgramRecorded(server) /\ Kept(Program!Rows, ProgramChanges)

LEMMA ProgramKeptInit ==
  ASSUME Program!Init  PROVE ProgramKept
<1>1. {"busy", "doubt"} \subseteq DOMAIN ui /\ wire = {Fetch}
  BY DEF Program!Init, Program!Fetch, Fetch
<1>2. ProgramRecorded(server)
  BY DEF Program!Init, ProgramRecorded
<1> QED  BY <1>1, <1>2, StartKeeps DEF ProgramKept

LEMMA ProgramStaysRecorded ==
  ASSUME ProgramRecorded(server), Program!Next  PROVE ProgramRecorded(server')
<1>1. \/ server' = server
      \/ \E q \in wire : Program!Serve(q)
  BY Zenon
     DEF Program!Next, Program!PickStatus, Program!OpenReactivate, Program!OpenDelete,
         Program!OpenEdit, Program!OpenCreate, Program!OpenClass, Program!Close, Program!Shows,
         Program!ChooseStatus, Program!SetStatus, Program!Archive, Program!Reactivate,
         Program!CheckArchive, Program!SaveClass, Program!SubmitDelete, Program!SubmitEdit,
         Program!SubmitCreate, Program!ListServed, Program!Arrives, Program!ListLost,
         Program!Succeeds, Program!Refreshed, Program!Saved, Program!SettlesAndFetches,
         Program!Settles, Program!EditGoesOn, Program!Leave, Program!Refusal, Program!FailsHere
<1>2. ASSUME NEW q \in wire, Program!Serve(q)  PROVE DOMAIN server' = DOMAIN server
  BY <1>2
     DEF Program!Serve, Program!ServeStatus, Program!ServeEdit, Program!ServeCheck,
         Program!ServeDelete, Program!ServeCreate, Program!ServeClass, Program!Passes,
         Program!Refuses, Program!Carries
<1> QED  BY <1>1, <1>2 DEF ProgramRecorded

LEMMA ProgramKeptStep ==
  ASSUME ProgramKept, Program!Next
  PROVE  ProgramRecorded(server') /\ KeptNext(Program!Rows', ProgramChanges)
<1> DEFINE rows == Program!Rows
           ops == ProgramChanges
           Next1 == KeptNext(rows', ops)
<1> SUFFICES Next1
  BY ProgramStaysRecorded DEF ProgramKept
<1>0. /\ Kept(rows, ops) /\ "list" \notin ops /\ {"busy", "doubt"} \subseteq DOMAIN ui
      /\ {"active", "archived"} \subseteq DOMAIN server
  BY DEF ProgramRecorded, ProgramKept, ProgramChanges, Kept, UpToDate
<1>1. /\ \A q, u : Program!Settles(q, u) <=> Settles(q, u)
      /\ \A q, u : Program!SettlesAndFetches(q, u) <=> SettlesAndFetches(q, u)
      /\ \A all : Program!ListServed(all) <=> ListServed(all)
      /\ Program!ListLost <=> ListLost
  BY DEF Program!Settles, Program!SettlesAndFetches, Program!Doubtless, Program!Refetch,
     Program!Fetch, Program!ListServed, Program!ListLost, Program!Pending, Settles,
     SettlesAndFetches, Doubtless, Refetch, Fetch, ListServed, ListLost, Pending
<1>2. server' = server => rows' = rows
  BY DEF Program!Rows
<1>3. CASE \/ \E s \in Program!Statuses : Program!PickStatus(s)
           \/ Program!OpenReactivate \/ Program!OpenDelete \/ Program!OpenEdit \/ Program!OpenCreate
           \/ Program!OpenClass \/ \E d \in ui.dialogs : Program!Close(d)
  <2>1. UNCHANGED <<server, shown, wire>> /\ DOMAIN ui' = DOMAIN ui /\ ui'.doubt = ui.doubt
    BY <1>0, <1>3
       DEF Program!PickStatus, Program!OpenReactivate, Program!OpenDelete, Program!OpenEdit,
           Program!OpenCreate, Program!OpenClass, Program!Close, Program!Opened, Program!Shut,
           Program!Shows
  <2> QED  BY <1>0, <1>2, <2>1, SameKeeps
\* A request is sent with what it sets.
<1>4. ASSUME NEW op, op # "list", NEW value, Program!Ask(op, value), UNCHANGED <<server, shown>>,
             DOMAIN ui' = DOMAIN ui, ui'.doubt = ui.doubt
      PROVE  Next1
  <2> DEFINE f == [Program!Request(op, {}) EXCEPT !.rows = value]
  <2>1. DOMAIN f = Fields /\ f.op # "list"
    BY <1>4 DEF Program!Request, Fields
  <2>2. wire' = wire \cup {f}
    BY <1>4 DEF Program!Ask
  <2> HIDE DEF f
  <2> QED  BY <1>0, <1>2, <1>4, <2>1, <2>2, AskKeeps
<1>5. ASSUME NEW d
      PROVE  DOMAIN Program!Shut(ui, d) = DOMAIN ui /\ Program!Shut(ui, d).doubt = ui.doubt
  BY <1>0 DEF Program!Shut
<1>6. ASSUME NEW op
      PROVE  DOMAIN Program!Submitted(ui, op) = DOMAIN ui
        /\ Program!Submitted(ui, op).doubt = ui.doubt
  BY <1>0 DEF Program!Submitted
<1>7. CASE \/ \E s \in Program!Statuses : Program!ChooseStatus(s)
           \/ Program!Archive \/ Program!Reactivate("Available") \/ Program!Reactivate("Inactive")
           \/ Program!CheckArchive \/ Program!SaveClass("open") \/ Program!SaveClass("paused")
           \/ Program!SubmitDelete \/ Program!SubmitEdit \/ Program!SubmitCreate
  <2>1. /\ UNCHANGED <<server, shown>> /\ DOMAIN ui' = DOMAIN ui /\ ui'.doubt = ui.doubt
        /\ \E op \in {"status", "check", "delete", "class", "edit", "create"} :
             \E value : Program!Ask(op, value)
    BY <1>5, <1>6, <1>7
       DEF Program!ChooseStatus, Program!Archive, Program!Reactivate, Program!CheckArchive,
           Program!SaveClass, Program!SubmitDelete, Program!SubmitEdit, Program!SubmitCreate,
           Program!SetStatus
  <2> QED  BY <1>4, <2>1
<1>8. CASE Program!ListServed(rows)
  <2>1. rows' = rows
    BY <1>1, <1>2, <1>8 DEF ListServed
  <2> QED  BY <1>0, <1>1, <1>8, <2>1, ListServedKeeps
<1>9. CASE Program!Arrives
  <2>1. PICK q \in wire :
          /\ q.op = "list" /\ q.status = "done" /\ wire' = wire \ {q} /\ shown' = q.rows
          /\ server' = server /\ DOMAIN ui' = DOMAIN ui /\ ui'.doubt = ui.doubt
    BY <1>0, <1>9 DEF Program!Arrives, Program!Pending
  <2> QED  BY <1>0, <1>2, <2>1, ShownKeeps
<1>10. CASE Program!ListLost
  BY <1>0, <1>1, <1>10, ListLostKeeps
<1>11. ASSUME NEW q \in wire, q.op # "list", NEW s, s \in {"checked", "refused"}, q.status # "done",
              wire' = Program!Becomes(q, s), UNCHANGED <<server, shown, ui>>
       PROVE  Next1
  <2> DEFINE new == [q EXCEPT !.status = s]
  <2>1. /\ DOMAIN q = Fields /\ DOMAIN new = Fields /\ new.op = q.op
        /\ q.op \in ops /\ Carried(q) => Carried(new)
    BY <1>0, <1>11 DEF Kept, UpToDate, Fields, Carried, ProgramChanges
  <2>2. wire' = (wire \ {q}) \cup {new}
    BY <1>11 DEF Program!Becomes
  <2> HIDE DEF new
  <2> QED  BY <1>0, <1>2, <1>11, <2>1, <2>2, TurnKeeps
<1>12. ASSUME NEW q \in wire, q.op # "list", NEW all, Program!Carries(q, all),
              q.op \in ops \/ rows' = rows
       PROVE  Next1
  <2> DEFINE new == [q EXCEPT !.status = "done"]
  <2>1. DOMAIN new = Fields /\ new.op = q.op /\ Carried(new)
    BY <1>0 DEF Kept, UpToDate, Fields, Carried
  <2>2. wire' = (wire \ {q}) \cup {new} /\ UNCHANGED <<shown, ui>>
    BY <1>12 DEF Program!Carries, Program!Becomes
  <2> HIDE DEF new
  <2> QED  BY <1>0, <1>12, <2>1, <2>2, TurnKeeps
<1>13. ASSUME NEW q \in wire, Program!Serve(q)  PROVE Next1
  <2>0. q.op # "list" /\ q.status # "done"
    BY Zenon, <1>13
       DEF Program!Serve, Program!ServeStatus, Program!ServeEdit, Program!ServeCheck,
           Program!ServeDelete, Program!ServeCreate, Program!ServeClass
  <2>1. CASE Program!Passes(q) \/ Program!Refuses(q)
    BY <1>11, <2>0, <2>1 DEF Program!Passes, Program!Refuses
  <2>2. CASE q.op \in {"status", "edit"} /\ \E all : Program!Carries(q, all)
    BY <1>12, <2>0, <2>2 DEF ProgramChanges
  <2>3. CASE Program!Carries(q, server)
    <3>1. rows' = rows
      BY <1>2, <2>3 DEF Program!Carries
    <3> QED  BY <1>12, <2>0, <2>3, <3>1
  <2>4. ASSUME NEW v, Program!Carries(q, [server EXCEPT !.gone = v])
               \/ Program!Carries(q, [server EXCEPT !.class = v])
        PROVE  Next1
    <3>1. rows' = rows
      BY <1>0, <2>4 DEF Program!Carries, Program!Rows
    <3> QED  BY <1>12, <2>0, <2>4, <3>1
  <2>5. CASE Program!ServeStatus(q)
    BY <2>1, <2>2, <2>5 DEF Program!ServeStatus
  <2>6. CASE Program!ServeEdit(q)
    BY <2>2, <2>6 DEF Program!ServeEdit
  <2>7. CASE Program!ServeCheck(q)
    BY <2>1, <2>3, <2>7 DEF Program!ServeCheck
  <2>8. CASE Program!ServeDelete(q) \/ Program!ServeCreate(q) \/ Program!ServeClass(q)
    BY <2>1, <2>4, <2>8 DEF Program!ServeDelete, Program!ServeCreate, Program!ServeClass
  <2> QED  BY <1>13, <2>5, <2>6, <2>7, <2>8 DEF Program!Serve
<1>14. ASSUME NEW q \in wire, NEW u, DOMAIN u = DOMAIN ui, Program!SettlesAndFetches(q, u)
       PROVE  Next1
  <2>1. wire' = Refetch(wire \ {q}) /\ DOMAIN ui' = DOMAIN ui
    BY <1>1, <1>14 DEF SettlesAndFetches, Doubtless
  <2> QED  BY <1>0, <2>1, SettlesAndFetchesKeeps
<1>15. ASSUME NEW q \in wire, q.op \in {"check", "create"}, NEW u, DOMAIN u = DOMAIN ui,
              u.doubt = ui.doubt, Program!Settles(q, u)
       PROVE  Next1
  <2>1. wire' = wire \ {q} /\ UNCHANGED <<server, shown>> /\ DOMAIN ui' = DOMAIN ui
          /\ ui'.doubt = ui.doubt
    BY <1>0, <1>1, <1>15 DEF Settles
  <2>2. q.op # "list" /\ q.op \notin ops
    BY <1>15 DEF ProgramChanges
  <2> QED  BY <1>0, <1>2, <2>1, <2>2, SettlesKeeps
<1>16. ASSUME NEW q \in wire, Program!Succeeds(q)  PROVE Next1
  <2>1. CASE q.op = "status"
    <3>1. CASE q.ids = {}
      <4>1. Program!SettlesAndFetches(q, ui)
        BY <1>16, <2>1, <3>1 DEF Program!Succeeds, Program!Refreshed
      <4> QED  BY <1>14, <4>1
    <3>2. CASE q.ids # {}
      <4>1. /\ ui' = [Program!Doubtless(Program!Shut(ui, "edit")) EXCEPT !.busy = @ \ {"edit"}]
            /\ wire' = Program!Refetch(wire \ {q})
        BY <1>16, <2>1, <3>2 DEF Program!Succeeds
      <4>2. wire' = Refetch(wire \ {q})
        BY <4>1 DEF Program!Refetch, Refetch, Program!Fetch, Fetch
      <4>3. DOMAIN ui' = DOMAIN ui
        BY <1>5, <4>1 DEF Program!Doubtless
      <4> QED  BY <1>0, <4>2, <4>3, SettlesAndFetchesKeeps
    <3> QED  BY <3>1, <3>2
  <2>2. CASE q.op = "edit"
    <3>1. CASE Program!Moves(q)
      <4> DEFINE new == [q EXCEPT !.op = "status",
                                  !.rows = Program!Change(q.rows.form.status, q.rows.from),
                                  !.status = "sent", !.ids = {"edit"}]
      <4>1. wire' = (wire \ {q}) \cup {new} /\ UNCHANGED <<server, shown, ui>>
        BY <1>16, <2>2, <3>1 DEF Program!Succeeds, Program!EditGoesOn
      <4>2. DOMAIN new = Fields /\ new.op = "status" /\ Carried(new) /\ "status" \in ops
        BY <1>0 DEF Kept, UpToDate, Fields, Carried, ProgramChanges
      <4> HIDE DEF new
      <4> QED  BY <1>0, <4>1, <4>2 DEF Kept, KeptNext, UpToDate
    <3>2. CASE ~Program!Moves(q)
      <4>1. Program!SettlesAndFetches(q, Program!Shut(ui, "edit"))
        BY <1>16, <2>2, <3>2 DEF Program!Succeeds, Program!Saved, Program!Refreshed
      <4> QED  BY <1>5, <1>14, <4>1
    <3> QED  BY <3>1, <3>2
  <2>3. CASE q.op = "check"
    <3>1. Program!Settles(q, Program!Opened(ui, "archive"))
      BY <1>16, <2>3 DEF Program!Succeeds
    <3>2. DOMAIN Program!Opened(ui, "archive") = DOMAIN ui
            /\ Program!Opened(ui, "archive").doubt = ui.doubt
      BY <1>0 DEF Program!Opened
    <3> QED  BY <1>15, <2>3, <3>1, <3>2
  <2>4. CASE q.op = "create"
    <3>1. Program!Settles(q, Program!Shut(ui, "create"))
      BY <1>16, <2>4 DEF Program!Succeeds
    <3> QED  BY <1>5, <1>15, <2>4, <3>1
  <2>5. CASE q.op = "delete"
    <3>1. wire' = {} /\ shown' = None /\ DOMAIN ui' = DOMAIN ui
      BY <1>16, <2>5 DEF Program!Succeeds, Program!Leave
    <3> QED  BY <1>0, <3>1 DEF KeptNext, UpToDate
  <2>6. CASE q.op = "class"
    <3>1. Program!SettlesAndFetches(q, ui)
      BY <1>16, <2>6 DEF Program!Succeeds, Program!Refreshed
    <3> QED  BY <1>14, <3>1
  <2>7. q.op \in {"status", "edit", "check", "create", "delete", "class"}
    BY Zenon, <1>16 DEF Program!Succeeds
  <2> QED  BY <2>1, <2>2, <2>3, <2>4, <2>5, <2>6, <2>7
\* Half an edit that is refused or fails leaves the page in doubt.
<1>17. ASSUME NEW q \in wire, q.op # "list", wire' = wire \ {q}, UNCHANGED <<server, shown>>,
              DOMAIN ui' = DOMAIN ui, ui.doubt => ui'.doubt,
              q.status = "done" \/ Program!Half(q) => ui'.doubt
       PROVE  Next1
  <2>1. CASE q.status = "done" \/ Program!Half(q)
    BY <1>0, <1>17, <2>1 DEF Kept, KeptNext, UpToDate
  <2>2. CASE ~(q.status = "done" \/ Program!Half(q))
    <3>1. ~(q.op \in ops /\ Carried(q))
      BY <2>2 DEF Carried, Program!Half, ProgramChanges
    <3>2. /\ \A f \in wire' : DOMAIN f = Fields /\ (f.op = "list" => f \in wire)
          /\ \A f \in wire : f.op = "list" \/ (f.op \in ops /\ Carried(f)) => f \in wire'
      BY <1>0, <1>17, <3>1 DEF Kept, UpToDate
    <3> QED  BY <1>0, <1>2, <1>17, <3>2, StaysKeeps
  <2> QED  BY <2>1, <2>2
<1>18. ASSUME NEW q \in wire, Program!Refusal(q)  PROVE Next1
  <2>1. q.op # "list" /\ wire' = wire \ {q} /\ UNCHANGED <<server, shown>> /\ q.status = "refused"
    BY <1>0, <1>18 DEF Program!Refusal, Kept, UpToDate
  <2> DEFINE u == CASE q.op = "check" -> Program!Opened(ui, "cannot archive")
                    [] q.op = "delete" -> [ui EXCEPT !.canDelete = FALSE]
                    [] OTHER -> ui
  <2>2. DOMAIN u = DOMAIN ui /\ u.doubt = ui.doubt
    BY <1>0 DEF Program!Opened
  <2>3. ui' = [u EXCEPT !.busy = @ \ {Program!Lock(q)}, !.doubt = @ \/ Program!Half(q)]
    BY <1>18 DEF Program!Refusal
  <2> HIDE DEF u
  <2>4. DOMAIN ui' = DOMAIN ui /\ ui'.doubt = (ui.doubt \/ Program!Half(q))
    BY <1>0, <2>2, <2>3
  <2> QED  BY <1>17, <2>1, <2>4
<1>19. ASSUME NEW q \in wire, Program!FailsHere(q)  PROVE Next1
  <2>1. /\ q.op # "list" /\ wire' = wire \ {q} /\ UNCHANGED <<server, shown>>
        /\ DOMAIN ui' = DOMAIN ui
        /\ ui'.doubt = ((ui.doubt \/ q.status # "sent") \/ Program!Half(q))
    BY <1>0, <1>19 DEF Program!FailsHere, Program!Writes
  <2> QED  BY <1>17, <2>1
<1> QED
  BY <1>3, <1>7, <1>8, <1>9, <1>10, <1>13, <1>16, <1>18, <1>19 DEF Program!Next
-----------------------------------------------------------------------------
(* The programs page *)

ProgramsHooks ==
  {"form", "filled", "filtered", "page", "count", "armed", "exhausted", "busy", "doubt"}
ProgramsKept == DOMAIN ui = ProgramsHooks /\ Kept(ProgramsPage!Rows, {"create"})

LEMMA ProgramsKeptInit ==
  ASSUME ProgramsPage!Init  PROVE ProgramsKept
<1>1. DOMAIN ui = ProgramsHooks /\ wire = {Fetch}
  BY DEF ProgramsPage!Init, ProgramsPage!Fetch, Fetch, ProgramsHooks
<1>2. {"busy", "doubt"} \subseteq DOMAIN ui
  BY <1>1 DEF ProgramsHooks
<1> QED  BY <1>1, <1>2, StartKeeps DEF ProgramsKept

LEMMA ProgramsKeptStep ==
  ASSUME ProgramsKept, ProgramsPage!Next
  PROVE  KeptNext(ProgramsPage!Rows', {"create"})
<1> DEFINE rows == ProgramsPage!Rows
           ops == {"create"}
           Next1 == KeptNext(rows', ops)
<1>0. Kept(rows, ops) /\ ops \cap {"list", "status"} = {} /\ {"busy", "doubt"} \subseteq DOMAIN ui
  BY DEF ProgramsKept, Kept, UpToDate
<1>1. /\ \A op, ids : ProgramsPage!Send(op, ids) <=> Send(op, ids)
      /\ \A w : ProgramsPage!Refetch(w) = Refetch(w)
      /\ \A q : ProgramsPage!Answered(q) <=> Answered(q)
      /\ \A q, u : ProgramsPage!SettlesAndFetches(q, u) <=> SettlesAndFetches(q, u)
      /\ \A q : ProgramsPage!Fails(q) <=> Fails(q)
      /\ \A q, all : ProgramsPage!Served(q, all) <=> Served(q, all)
      /\ \A all : ProgramsPage!ListServed(all) <=> ListServed(all)
      /\ ProgramsPage!ListLost <=> ListLost
  BY DEF ProgramsPage!Send, ProgramsPage!MaySend, ProgramsPage!Submitted, ProgramsPage!Request,
     ProgramsPage!Becomes, ProgramsPage!Writes, ProgramsPage!Pending, ProgramsPage!Cardinality,
     ProgramsPage!Refetch, ProgramsPage!Fetch, ProgramsPage!Answered,
     ProgramsPage!SettlesAndFetches, ProgramsPage!Doubtless, ProgramsPage!Fails,
     ProgramsPage!Served, ProgramsPage!ListServed, ProgramsPage!ListLost, Send, MaySend,
     Submitted, Request, Becomes, Writes, Pending, Cardinality, Refetch, Fetch, Answered,
     SettlesAndFetches, Doubtless, Fails, Served, ListServed, ListLost
<1>2. server' = server => rows' = rows
  BY DEF ProgramsPage!Rows
<1>3. CASE ProgramsPage!ToggleFilter \/ (\E p : ProgramsPage!TurnPage(p)) \/ ProgramsPage!ToggleForm
           \/ ProgramsPage!Cancel \/ (\E f : ProgramsPage!Fill(f) \/ ProgramsPage!Clear(f))
  <2>1. UNCHANGED <<server, shown, wire>> /\ DOMAIN ui' = DOMAIN ui /\ ui'.doubt = ui.doubt
    BY <1>3, <1>0
       DEF ProgramsPage!ToggleFilter, ProgramsPage!TurnPage, ProgramsPage!ToggleForm,
           ProgramsPage!Cancel, ProgramsPage!Fill, ProgramsPage!Clear, ProgramsPage!Shows
  <2> QED  BY <1>0, <1>2, <2>1, SameKeeps
<1>4. CASE ProgramsPage!Create
  <2>1. Send("create", {})
    BY <1>1, <1>4 DEF ProgramsPage!Create
  <2>2. rows' = rows
    BY <1>2, <2>1 DEF Send
  <2> QED  BY <1>0, <2>1, <2>2, SendKeeps
<1>5. CASE \E loads : ProgramsPage!Canvas(loads)
  <2>1. UNCHANGED <<shown, wire>> /\ ui' = [ui EXCEPT !.doubt = TRUE]
    BY <1>5 DEF ProgramsPage!Canvas
  <2> QED  BY <1>0, <2>1 DEF Kept, KeptNext, UpToDate
<1>6. CASE ProgramsPage!Tick
  <2>1. wire' = Refetch(wire) /\ DOMAIN ui' = DOMAIN ui
    BY <1>1, <1>6 DEF ProgramsPage!Tick, ProgramsPage!Doubtless
  <2> QED  BY <1>0, <2>1, FetchKeeps
<1>7. CASE ProgramsPage!Reload
  <2>1. wire' = Refetch({}) /\ DOMAIN ui' = ProgramsHooks
    BY <1>7 DEF ProgramsPage!Reload, Refetch, ProgramsPage!Fetch, Fetch, ProgramsHooks
  <2> QED  BY <1>0, <2>1, FetchKeeps DEF ProgramsKept
<1>8. CASE ProgramsPage!ListServed(rows) \/ ProgramsPage!ListLost
  <2>1. rows' = rows
    BY <1>1, <1>2, <1>8 DEF ListServed, ListLost
  <2> QED  BY <1>0, <1>1, <1>8, <2>1, ListServedKeeps, ListLostKeeps
<1>9. CASE ProgramsPage!Arrives
  <2>1. PICK q \in wire : /\ q.op = "list" /\ q.status = "done" /\ wire' = wire \ {q}
                               /\ shown' = q.rows
                          /\ server' = server
                          /\ ui' \in {ui, ProgramsPage!Poll(ui, TRUE), ProgramsPage!Poll(ui, FALSE)}
    BY <1>9 DEF ProgramsPage!Arrives, ProgramsPage!Pending, ProgramsPage!Poll
  <2>2. DOMAIN ui' = DOMAIN ui /\ ui'.doubt = ui.doubt
    BY <1>0, <2>1 DEF ProgramsPage!Poll
  <2> QED  BY <1>0, <1>2, <2>1, <2>2, ShownKeeps
<1>10. ASSUME NEW q \in wire, ProgramsPage!ServeCreate(q)  PROVE Next1
  <2>1. PICK all : Served(q, all) /\ q.op \in ops
    BY <1>10, <1>1 DEF ProgramsPage!ServeCreate
  <2> QED  BY <1>0, <2>1, ServedKeeps
<1>11. ASSUME NEW q \in wire, ProgramsPage!Created(q)  PROVE Next1
  <2>1. SettlesAndFetches(q, [ui EXCEPT !.form = FALSE, !.filled = {}])
    BY <1>1, <1>11 DEF ProgramsPage!Created
  <2>2. wire' = Refetch(wire \ {q}) /\ DOMAIN ui' = DOMAIN ui
    BY <2>1 DEF SettlesAndFetches, Doubtless
  <2> QED  BY <1>0, <2>2, SettlesAndFetchesKeeps
<1>12. ASSUME NEW q \in wire, ProgramsPage!Fails(q)  PROVE Next1
  <2>1. rows' = rows
    BY <1>1, <1>2, <1>12 DEF Fails
  <2> QED  BY <1>0, <1>1, <1>12, <2>1, FailsKeeps
<1> QED
  BY <1>3, <1>4, <1>5, <1>6, <1>7, <1>8, <1>9, <1>10, <1>11, <1>12 DEF ProgramsPage!Next

-----------------------------------------------------------------------------
(* The editor of a class *)

ClassHooks ==
  {"version", "opened", "form", "dirty", "open", "conflicts", "dialog", "busy", "doubt"}
ClassKept == DOMAIN ui = ClassHooks /\ Kept(server, {"save"})

LEMMA ClassKeptInit ==
  ASSUME Class!Init  PROVE ClassKept
<1>1. DOMAIN ui = ClassHooks /\ wire = {} /\ shown = server
  BY DEF Class!Init, Class!Idle, ClassHooks
<1>2. {"busy", "doubt"} \subseteq DOMAIN ui
  BY <1>1 DEF ClassHooks
<1> QED  BY <1>1, <1>2, StartKeeps DEF ClassKept

LEMMA ClassKeptStep ==
  ASSUME ClassKept, Class!Next
  PROVE  KeptNext(server', {"save"})
<1> DEFINE rows == server
           ops == {"save"}
           Next1 == KeptNext(rows', ops)
<1>0. Kept(rows, ops) /\ ops \cap {"list", "status"} = {} /\ {"busy", "doubt"} \subseteq DOMAIN ui
  BY DEF ClassKept, Kept, UpToDate
<1>1. /\ \A op, ids : Class!Send(op, ids) <=> Send(op, ids)
      /\ \A op, ids : Class!SendFreely(op, ids) <=> SendFreely(op, ids)
      /\ \A q : Class!Answered(q) <=> Answered(q)
      /\ \A q, u : Class!SettlesAndFetches(q, u) <=> SettlesAndFetches(q, u)
      /\ \A q, all : Class!Served(q, all) <=> Served(q, all)
      /\ \A all : Class!ListServed(all) <=> ListServed(all)
      /\ Class!ListLost <=> ListLost
  BY DEF Class!Send, Class!MaySend, Class!Submitted, Class!Request, Class!Becomes, Class!Writes,
     Class!Pending, Class!Cardinality, Class!SendFreely, Class!Answered, Class!SettlesAndFetches,
     Class!Doubtless, Class!Refetch, Class!Fetch, Class!Served, Class!ListServed, Class!ListLost,
     Send, MaySend, Submitted, Request, Becomes, Writes, Pending, Cardinality, SendFreely,
     Answered, SettlesAndFetches, Doubtless, Refetch, Fetch, Served, ListServed, ListLost
<1>2. CASE Class!Open
  <2>1. /\ UNCHANGED <<server, shown, wire>>
        /\ ui' = [Class!Idle EXCEPT !.version = ui.version + 1, !.open = TRUE,
                                    !.opened = shown.events,
                                    !.form = Class!Read(shown.events[1], shown.end),
                                      !.doubt = ui.doubt]
    BY <1>2 DEF Class!Open, Class!Shows
  <2>2. DOMAIN ui' = DOMAIN ui /\ ui'.doubt = ui.doubt
    BY <2>1 DEF Class!Idle, ClassKept, ClassHooks
  <2> QED  BY <1>0, <2>1, <2>2, SameKeeps
<1>3. CASE Class!Close \/ (\E d : Class!OpenDialog(d)) \/ Class!CloseDialog
           \/ (\E field, value : Class!EditForm(field, value))
  <2>1. UNCHANGED <<server, shown, wire>> /\ DOMAIN ui' = DOMAIN ui /\ ui'.doubt = ui.doubt
    BY <1>3, <1>0 DEF Class!Close, Class!OpenDialog, Class!CloseDialog, Class!EditForm, Class!Shows
  <2> QED  BY <1>0, <2>1, SameKeeps
<1>4. CASE (\E c : Class!SetCadence(c)) \/ (\E n : Class!SetEvery(n)) \/ (\E d : Class!ToggleDay(d))
           \/ (\E d : Class!SetUntil(d)) \/ Class!LeavePattern
  <2>1. \E field, value : Class!EditForm(field, value)
    BY <1>4
       DEF Class!SetCadence, Class!SetEvery, Class!ToggleDay, Class!SetUntil, Class!LeavePattern
  <2> QED  BY <2>1, <1>3
<1>5. ASSUME NEW op, op # "list", NEW ids, Class!Send(op, ids) \/ Class!SendFreely(op, ids)
      PROVE  Next1
  <2>1. rows' = rows
    BY <1>1, <1>5 DEF Send, SendFreely
  <2> QED  BY <1>0, <1>1, <1>5, <2>1, SendKeeps
<1>6. ASSUME NEW d \in {"room", "instructor"}, Class!Add(d)  PROVE Next1
  BY <1>6, <1>5 DEF Class!Add
<1>7. CASE Class!Save
  BY <1>7, <1>5 DEF Class!Save
<1>8. CASE Class!ListServed(rows) \/ Class!ListLost
  <2>1. rows' = rows
    BY <1>1, <1>8 DEF ListServed, ListLost
  <2> QED  BY <1>0, <1>1, <1>8, <2>1, ListServedKeeps, ListLostKeeps
<1>9. CASE Class!ClassArrives
  <2>1. PICK q \in wire :
          /\ q.op = "list" /\ q.status = "done" /\ wire' = wire \ {q} /\ shown' = q.rows
          /\ server' = server
          /\ \/ ui' = ui
             \/ ui' = [ui EXCEPT !.form.cadence = Class!Followed(q.rows, "cadence"),
                                 !.form.until = Class!Followed(q.rows, "until")]
    BY <1>9 DEF Class!ClassArrives, Class!Pending
  <2>2. DOMAIN ui' = DOMAIN ui /\ ui'.doubt = ui.doubt
    BY <1>0, <2>1
  <2> QED  BY <1>0, <2>1, <2>2, ShownKeeps
<1>10. ASSUME NEW q \in wire, NEW status, status \in {"listed", "conflict"}, q.op # "list",
              q.op \in ops => ~Carried(q),
              wire' = Class!Becomes(q, status), UNCHANGED <<server, shown, ui>>
       PROVE  Next1
  <2> DEFINE new == [q EXCEPT !.status = status]
  <2>1. DOMAIN new = Fields /\ new.op = q.op /\ wire' = (wire \ {q}) \cup {new}
    BY <1>0, <1>10 DEF Fields, Kept, UpToDate, Class!Becomes
  <2> HIDE DEF new
  <2> QED  BY <1>0, <1>10, <2>1, TurnKeeps
<1>11. ASSUME NEW q \in wire, Class!Serve(q)  PROVE Next1
  <2>1. CASE \E all : Served(q, all) /\ (q.op \notin ops => all = server)
    <3>1. PICK all : Served(q, all) /\ (q.op \notin ops => all = server)
      BY <2>1
    <3>2. q.op \in ops \/ rows' = rows
      BY <3>1 DEF Served
    <3> QED  BY <1>0, <3>1, <3>2, ServedKeeps
  <2>2. CASE q.op = "save" /\ q.status = "sent" /\ wire' = Class!Becomes(q, "conflict")
             /\ UNCHANGED <<server, shown, ui>>
    BY <2>2, <1>10 DEF Carried
  <2> QED  BY <1>1, <1>11, <2>1, <2>2 DEF Class!Serve
<1>12. ASSUME NEW q \in wire, Class!Listed(q)  PROVE Next1
  BY <1>10, <1>12 DEF Class!Listed, Class!Answered, Class!Writes, Carried
<1>13. ASSUME NEW q \in wire, Class!Added(q)  PROVE Next1
  <2>1. /\ q.op # "save" /\ q.status = "listed" /\ wire' = wire \ {q} /\ UNCHANGED <<server, shown>>
        /\ DOMAIN ui' = DOMAIN ui /\ ui'.doubt = ui.doubt
    BY <1>0, <1>13 DEF Class!Added
  <2>2. q.op # "list"
    BY <1>0, <2>1 DEF Kept, UpToDate
  <2> QED  BY <1>0, <2>1, <2>2, SettlesKeeps
<1>14. ASSUME NEW q \in wire, Class!SaveAnswered(q)  PROVE Next1
  <2>1. SettlesAndFetches(q, [ui EXCEPT !.open = FALSE])
    BY <1>1, <1>14 DEF Class!SaveAnswered, Class!Saved
  <2>2. wire' = Refetch(wire \ {q}) /\ DOMAIN ui' = DOMAIN ui
    BY <2>1 DEF SettlesAndFetches, Doubtless
  <2> QED  BY <1>0, <2>2, SettlesAndFetchesKeeps
<1>15. ASSUME NEW q \in wire, Class!Refused(q)  PROVE Next1
  <2>1. /\ q.op = "save" /\ ~Carried(q) /\ wire' = wire \ {q} /\ UNCHANGED <<server, shown>>
        /\ DOMAIN ui' = DOMAIN ui /\ ui'.doubt = ui.doubt
    BY <1>0, <1>15 DEF Class!Refused, Carried
  <2> QED  BY <1>0, <2>1, StaysKeeps DEF Kept, UpToDate
<1>16. ASSUME NEW q \in wire, Class!FailsHere(q)  PROVE Next1
  <2>1. /\ q.op # "list" /\ wire' = wire \ {q} /\ UNCHANGED <<server, shown>>
        /\ DOMAIN ui' = DOMAIN ui /\ ui'.doubt = (ui.doubt \/ (q.op = "save" /\ q.status = "done"))
    BY <1>0, <1>16 DEF Class!FailsHere, Class!Writes
  <2>2. CASE q.op = "save" /\ q.status = "done"
    BY <1>0, <2>1, <2>2 DEF Kept, KeptNext, UpToDate
  <2>3. CASE ~(q.op = "save" /\ q.status = "done")
    <3>1. q.op \in ops => ~Carried(q)
      BY <2>3 DEF Carried
    <3>2. ui'.doubt = ui.doubt \/ (ui.doubt => ui'.doubt)
      BY <2>1
    <3> QED  BY <1>0, <2>1, <3>1, <3>2, StaysKeeps DEF Kept, UpToDate
  <2> QED  BY <2>2, <2>3
<1> QED
  BY <1>2, <1>3, <1>4, <1>6, <1>7, <1>8, <1>9, <1>11, <1>12, <1>13, <1>14, <1>15, <1>16
     DEF Class!Next


-----------------------------------------------------------------------------
(* A class and its roster: two keys *)

\* A change of the class or of the roster that was carried out, and a fetch of one of them.
Touches(q, k) ==
  q.status = "done" /\ q.op \in (IF k = "class" THEN {"status"} ELSE {"enrollment", "graduate",
    "unenroll"})
FetchesKey(q, k) == q.op = "list" /\ q.ids = {k}

RosterTyped(w, s, u, all) ==
  /\ DOMAIN s = Roster!Keys /\ DOMAIN all = Roster!Keys /\ {"busy", "doubt"} \subseteq DOMAIN u
  /\ \A q \in w : DOMAIN q = Fields /\ (q.op = "list" => \E k \in Roster!Keys : q.ids = {k})
  /\ \A q, r \in w : q.op = "list" /\ r.op = "list" /\ q.ids = r.ids => q = r

\* One of the two: in doubt, or to be fetched, or being fetched, or as it is; the roster also when
\* the class is over.
KeyKept(w, s, u, all, k) ==
  \/ u.doubt
  \/ k = "roster" /\ all.class = "Over"
  \/ \E q \in w : Touches(q, k)
  \/ \E q \in w : FetchesKey(q, k) /\ (q.status = "sent" \/ q.rows[k] = all[k])
  \/ s[k] = all[k] /\ \A q \in w : ~FetchesKey(q, k)

RosterKept ==
  /\ RosterTyped(wire, shown, ui, server)
  /\ \A k \in Roster!Keys : KeyKept(wire, shown, ui, server, k)
RosterKeptNext ==
  /\ RosterTyped(wire', shown', ui', server')
  /\ \A k \in Roster!Keys : KeyKept(wire', shown', ui', server', k)

LEMMA KeysOfClass ==
  ASSUME NEW k
  PROVE  /\ k \in Roster!Keys <=> k \in {"class", "roster"}
         /\ DOMAIN Roster!FetchOf(k) = Fields /\ Roster!FetchOf(k).op = "list"
         /\ Roster!FetchOf(k).ids = {k} /\ Roster!FetchOf(k).status = "sent"
  BY DEF Roster!Keys, Roster!FetchOf, Roster!Fetch, Fields

\* What was fetched stays, and so do the changes that will cause a fetch.
LEMMA KeyStays ==
  ASSUME NEW w, NEW s, NEW u, NEW all, NEW k, KeyKept(w, s, u, all, k),
         NEW w2, NEW s2, NEW u2, NEW all2, s2[k] = s[k], u.doubt => u2.doubt,
         all2[k] = all[k], k = "roster" /\ all.class = "Over" => all2.class = "Over",
         \A q \in w : Touches(q, k) \/ FetchesKey(q, k) => q \in w2,
         \A q \in w2 : FetchesKey(q, k) => q \in w
  PROVE  KeyKept(w2, s2, u2, all2, k)
  BY DEF KeyKept

LEMMA RosterStays ==
  ASSUME RosterKept, UNCHANGED <<server, shown>>, {"busy", "doubt"} \subseteq DOMAIN ui',
         ui.doubt => ui'.doubt,
         \A f \in wire' : DOMAIN f = Fields /\ (f.op = "list" => f \in wire),
         \A f \in wire : f.op = "list" \/ (\E k \in Roster!Keys : Touches(f, k)) => f \in wire'
  PROVE  RosterKeptNext
<1>1. RosterTyped(wire', shown', ui', server')
  BY DEF RosterKept, RosterTyped
<1>2. ASSUME NEW k \in Roster!Keys  PROVE KeyKept(wire', shown', ui', server', k)
  BY KeyStays DEF RosterKept, FetchesKey
<1> QED  BY <1>1, <1>2 DEF RosterKeptNext

LEMMA RosterKeptInit ==
  ASSUME Roster!Init  PROVE RosterKept
<1>1. wire = {} /\ shown = server /\ DOMAIN server = Roster!Keys /\ DOMAIN ui = DOMAIN Roster!Idle
  BY DEF Roster!Init, Roster!Keys
<1>2. {"busy", "doubt"} \subseteq DOMAIN ui
  BY <1>1 DEF Roster!Idle
<1> QED  BY <1>1, <1>2 DEF RosterKept, RosterTyped, KeyKept

LEMMA RosterKeptStep ==
  ASSUME RosterKept, Roster!Next  PROVE RosterKeptNext
<1>0. /\ {"busy", "doubt"} \subseteq DOMAIN ui /\ DOMAIN shown = Roster!Keys
      /\ DOMAIN server = Roster!Keys
      /\ \A q \in wire : DOMAIN q = Fields /\ (q.op = "list" => \E k \in Roster!Keys : q.ids = {k})
      /\ \A k : k \in Roster!Keys <=> k \in {"class", "roster"}
  BY KeysOfClass DEF RosterKept, RosterTyped
<1>1. /\ \A op, ids : Roster!Send(op, ids) <=> Send(op, ids)
      /\ \A q : Roster!Answered(q) <=> Answered(q)
      /\ \A q, u : Roster!Settles(q, u) <=> Settles(q, u)
      /\ \A q, all : Roster!Served(q, all) <=> Served(q, all)
  BY DEF Roster!Send, Roster!MaySend, Roster!Submitted, Roster!Request, Roster!Becomes,
     Roster!Writes, Roster!Pending, Roster!Cardinality, Roster!Answered, Roster!Settles,
     Roster!Served, Send, MaySend, Submitted, Request, Becomes, Writes, Pending, Cardinality,
     Answered, Settles, Served
\* The page's own state changes, or a request is sent.
<1>2. ASSUME UNCHANGED <<server, shown>>, DOMAIN ui' = DOMAIN ui, ui'.doubt = ui.doubt,
             \/ wire' = wire
             \/ \E f : wire' = wire \cup {f} /\ DOMAIN f = Fields /\ f.op # "list"
      PROVE  RosterKeptNext
  BY <1>0, <1>2, RosterStays
<1>3. CASE \/ Roster!ClearSelection \/ Roster!Close
           \/ \E p \in {"p1"} :
                Roster!ToggleSelect(p) \/ \E d \in {"enrollment", "date",
                  "unenroll"} : Roster!OpenFor(d, p)
           \/ \E found \in SUBSET {"p1"} : Roster!ToggleAll(found)
           \/ \E d \in {"graduate", "status", "delete"} : Roster!Open(d)
  <2>1. UNCHANGED <<server, shown, wire>> /\ DOMAIN ui' = DOMAIN ui /\ ui'.doubt = ui.doubt
    BY <1>0, <1>3
       DEF Roster!ClearSelection, Roster!Close, Roster!ToggleSelect, Roster!OpenFor,
           Roster!ToggleAll,
           Roster!Open, Roster!Shows
  <2> QED  BY <1>2, <2>1
<1>4. ASSUME NEW op, op # "list", NEW ids, Roster!Send(op, ids)  PROVE RosterKeptNext
  <2> DEFINE f == Request(op, ids)
  <2>1. DOMAIN f = Fields /\ f.op # "list"
    BY <1>4 DEF Request, Fields
  <2>2. /\ UNCHANGED <<server, shown>> /\ wire' = wire \cup {f}
        /\ DOMAIN ui' = DOMAIN ui /\ ui'.doubt = ui.doubt
    BY <1>0, <1>1, <1>4 DEF Send, Submitted
  <2> HIDE DEF f
  <2> QED  BY <1>2, <2>1, <2>2
<1>5. ASSUME NEW op, op # "list", Roster!SendAndClose(op)  PROVE RosterKeptNext
  <2> DEFINE f == Roster!Request(op, {ui.who})
  <2>1. DOMAIN f = Fields /\ f.op # "list"
    BY <1>5 DEF Roster!Request, Fields
  <2>2. /\ UNCHANGED <<server, shown>> /\ wire' = wire \cup {f}
        /\ DOMAIN ui' = DOMAIN ui /\ ui'.doubt = ui.doubt
    BY <1>0, <1>5 DEF Roster!SendAndClose
  <2> HIDE DEF f
  <2> QED  BY <1>2, <2>1, <2>2
<1>6. CASE \/ Roster!ChangeStatus \/ Roster!ChangeDate \/ Roster!Unenroll \/ Roster!Graduate
           \/ Roster!DeleteClass \/ \E s \in {"Scheduled", "Active", "Over"} : Roster!ChangeClass(s)
  BY <1>4, <1>5, <1>6
     DEF Roster!ChangeStatus, Roster!ChangeDate, Roster!Unenroll, Roster!Graduate,
         Roster!DeleteClass,
         Roster!ChangeClass
<1>7. CASE Roster!FetchServed
  <2>1. PICK q \in wire, k \in Roster!Keys :
          /\ q.op = "list" /\ k \in q.ids /\ UNCHANGED <<server, shown, ui>>
          /\ wire' = (wire \ {q}) \cup
                     {[q EXCEPT !.status = "done", !.rows = [x \in {k} |-> server[k]]]}
    BY <1>7 DEF Roster!FetchServed, Roster!Pending
  <2> DEFINE new == [q EXCEPT !.status = "done", !.rows = [x \in {k} |-> server[k]]]
  <2>2. DOMAIN new = Fields /\ FetchesKey(q, k) /\ FetchesKey(new, k) /\ new.rows[k] = server[k]
    BY <1>0, <2>1 DEF Fields, FetchesKey
  <2>3. wire' = (wire \ {q}) \cup {new}
    BY <2>1
  <2> HIDE DEF new
  <2>4. RosterTyped(wire', shown', ui', server')
    BY <2>1, <2>2, <2>3 DEF RosterKept, RosterTyped, FetchesKey
  <2>5. ASSUME NEW j \in Roster!Keys  PROVE KeyKept(wire', shown', ui', server', j)
    <3>1. CASE j = k
      BY <2>1, <2>2, <2>3, <3>1 DEF KeyKept
    <3>2. CASE j # k
      <4>1. \A f \in wire : Touches(f, j) \/ FetchesKey(f, j) => f \in wire'
        BY <2>1, <2>2, <2>3, <3>2 DEF Touches, FetchesKey
      <4>2. \A f \in wire' : FetchesKey(f, j) => f \in wire
        BY <2>2, <2>3, <3>2 DEF FetchesKey
      <4>3. KeyKept(wire, shown, ui, server, j)
        BY DEF RosterKept
      <4>4. KeyKept(wire', shown, ui, server, j)
        BY <4>1, <4>2, <4>3 DEF KeyKept
      <4> QED  BY <2>1, <4>4
    <3> QED  BY <3>1, <3>2
  <2> QED  BY <2>4, <2>5 DEF RosterKeptNext
<1>8. CASE Roster!FetchArrives
  <2>1. PICK q \in wire, k \in Roster!Keys :
          /\ q.op = "list" /\ q.status = "done" /\ k \in q.ids
          /\ shown' = [shown EXCEPT ![k] = q.rows[k]] /\ wire' = wire \ {q}
               /\ UNCHANGED <<server, ui>>
    BY <1>8 DEF Roster!FetchArrives, Roster!Pending
  <2>2. FetchesKey(q, k)
    BY <1>0, <2>1 DEF FetchesKey
  <2>3. RosterTyped(wire', shown', ui', server')
    BY <2>1 DEF RosterKept, RosterTyped
  <2>4. ASSUME NEW j \in Roster!Keys  PROVE KeyKept(wire', shown', ui', server', j)
    <3>0. KeyKept(wire, shown, ui, server, j)
      BY DEF RosterKept
    <3>a. /\ (j = "roster" /\ server.class = "Over") => server'.class = "Over"
          /\ server'[j] = server[j] /\ (ui.doubt => ui'.doubt)
      BY <2>1
    <3>1. CASE j = k
      <4>1. \A f \in wire : FetchesKey(f, j) => f = q
        BY <2>2, <3>1 DEF RosterKept, RosterTyped, FetchesKey
      <4>2. \A f \in wire : Touches(f, j) => f \in wire'
        BY <2>1 DEF Touches
      <4>3. shown'[j] = q.rows[j]
        BY <1>0, <2>1, <3>1
      <4>4. \A f \in wire' : ~FetchesKey(f, j)
        BY <2>1, <4>1
      <4>5. q.rows[j] = server[j] => shown'[j] = server'[j]
        BY <3>a, <4>3
      <4>6. CASE \E f \in wire : Touches(f, j)
        BY <4>2, <4>6 DEF KeyKept
      <4>7. CASE ~\E f \in wire : Touches(f, j)
        <5>1. \/ ui.doubt \/ (j = "roster" /\ server.class = "Over") \/ q.rows[j] = server[j]
          <6>1. FetchesKey(q, j) /\ q.status # "sent"
            BY <2>1, <2>2, <3>1
          <6>2. \/ ui.doubt \/ (j = "roster" /\ server.class = "Over")
                \/ \E f \in wire : FetchesKey(f, j) /\ (f.status = "sent" \/ f.rows[j] = server[j])
            BY <3>0, <4>7, <6>1 DEF KeyKept
          <6> QED  BY <4>1, <6>1, <6>2
        <5> QED  BY <3>a, <4>4, <4>5, <5>1 DEF KeyKept
      <4> QED  BY <4>6, <4>7
    <3>2. CASE j # k
      <4>1. \A f \in wire : Touches(f, j) \/ FetchesKey(f, j) => f \in wire'
        BY <2>1, <2>2, <3>2 DEF Touches, FetchesKey
      <4>2. shown'[j] = shown[j]
        BY <1>0, <2>1, <3>2
      <4>3. \A f \in wire' : FetchesKey(f, j) => f \in wire
        BY <2>1
      <4> QED  BY <3>0, <3>a, <4>1, <4>2, <4>3, KeyStays
    <3> QED  BY <3>1, <3>2
  <2> QED  BY <2>3, <2>4 DEF RosterKeptNext
<1>9. CASE Roster!ListLost
  BY <1>0, <1>9 DEF Roster!ListLost, Roster!Pending, RosterKept, RosterKeptNext, RosterTyped,
     KeyKept
<1>10. ASSUME NEW q \in wire, Roster!Serve(q)  PROVE RosterKeptNext
  <2> DEFINE new == [q EXCEPT !.status = "done"]
  <2>1. q.op # "list" /\ DOMAIN new = Fields /\ new.op = q.op /\ new.status = "done"
    BY <1>0, <1>10 DEF Roster!Serve, Roster!Served, Roster!Writes, Fields
  <2>2. ASSUME NEW all, Roster!Served(q, all)
        PROVE  wire' = (wire \ {q}) \cup {new} /\ server' = all /\ UNCHANGED <<shown, ui>>
    BY <2>2 DEF Roster!Served, Roster!Becomes
  <2>3. wire' = (wire \ {q}) \cup {new} /\ UNCHANGED <<shown, ui>>
    BY <1>10, <2>2 DEF Roster!Serve
  <2>4. \A k \in Roster!Keys : Touches(q, k) => Touches(new, k)
    BY <2>1 DEF Touches
  <2> HIDE DEF new
  <2>e. \/ server' = server
        \/ /\ q.op \in {"enrollment", "graduate", "unenroll"} /\ server.class # "Over"
           /\ \E r : server' = [server EXCEPT !.roster = r]
        \/ /\ q.op = "status" /\ server.class # "Over"
           /\ \E s, r : /\ server' = [class |-> s, roster |-> r]
                        /\ s = "Over" \/ r = server.roster
    <3>1. \/ q.op \in {"date", "delete"} /\ server' = server
          \/ /\ q.op \in {"enrollment", "graduate"} /\ server.class = "Active"
             /\ server' = [server EXCEPT !.roster = Roster!Ends(q.ids)]
          \/ /\ q.op = "unenroll" /\ server.class = "Scheduled"
             /\ server' = [server EXCEPT !.roster = Roster!Ends(q.ids)]
          \/ /\ q.op = "status" /\ server.class # "Over"
             /\ \E s \in q.ids :
                  server' = [class |-> s, roster |-> IF s = "Over" THEN Roster!Ends(Roster!Enrolled)
                                                     ELSE server.roster]
      BY Zenon, <1>10 DEF Roster!Serve, Roster!Served
    <3>2. CASE q.op = "status" /\ server.class # "Over"
               /\ \E s \in q.ids :
                    server' = [class |-> s, roster |-> IF s = "Over" THEN Roster!Ends(Roster!Enrolled)
                                                       ELSE server.roster]
      <4>1. PICK s \in q.ids :
              server' = [class |-> s, roster |-> IF s = "Over" THEN Roster!Ends(Roster!Enrolled)
                                                 ELSE server.roster]
        BY <3>2
      <4> QED  BY <3>2, <4>1
    <3> QED  BY <3>1, <3>2
  <2>5. DOMAIN server' = Roster!Keys
    BY <1>0, <2>e
  <2>6. RosterTyped(wire', shown', ui', server')
    BY <2>1, <2>3, <2>5 DEF RosterKept, RosterTyped
  <2>7. server.class = "Over" => server' = server
    BY <2>e
  <2>8. server'.class = server.class \/ q.op = "status"
    BY <1>0, <2>e
  <2>9. \/ server'.roster = server.roster \/ server'.class = "Over"
        \/ q.op \in {"enrollment", "graduate", "unenroll"}
    BY <1>0, <2>e
  <2>10. ASSUME NEW k \in Roster!Keys  PROVE KeyKept(wire', shown', ui', server', k)
    <3>1. CASE Touches(new, k)
      BY <2>3, <3>1 DEF KeyKept
    <3>2. CASE k = "roster" /\ server'.class = "Over"
      BY <3>2 DEF KeyKept
    <3>3. CASE ~Touches(new, k) /\ ~(k = "roster" /\ server'.class = "Over")
      <4>1. server'[k] = server[k]
        BY <1>0, <2>1, <2>8, <2>9, <3>3 DEF Touches
      <4>2. k = "roster" /\ server.class = "Over" => server'.class = "Over"
        BY <2>7
      <4>3. \A f \in wire : Touches(f, k) \/ FetchesKey(f, k) => f \in wire'
        BY <2>1, <2>3, <2>4, <3>3 DEF FetchesKey
      <4>4. \A f \in wire' : FetchesKey(f, k) => f \in wire
        BY <2>1, <2>3 DEF FetchesKey
      <4> QED  BY <2>3, <4>1, <4>2, <4>3, <4>4, KeyStays DEF RosterKept
    <3> QED  BY <3>1, <3>2, <3>3
  <2> QED  BY <2>6, <2>10 DEF RosterKeptNext
\* Both are fetched, or the class alone.
<1>11. ASSUME NEW q \in wire, q.op # "list", NEW u, DOMAIN u = DOMAIN ui, u.doubt = ui.doubt,
              NEW keys, keys = Roster!Keys \/ (keys = {"class"} /\ q.op = "status"),
              Roster!SettlesAnd(q, u, keys)
       PROVE  RosterKeptNext
  <2>1. /\ UNCHANGED <<server, shown>> /\ DOMAIN ui' = DOMAIN ui
        /\ ui'.doubt = (ui.doubt /\ keys # Roster!Keys)
    BY <1>0, <1>11 DEF Roster!SettlesAnd
  <2>2. wire' = {f \in wire \ {q} : f.op # "list" \/ f.ids \cap keys = {}}
          \cup {Roster!FetchOf(k) : k \in keys}
    BY <1>11 DEF Roster!SettlesAnd, Roster!RefetchOf
  <2>3. keys \subseteq Roster!Keys
    BY <1>0, <1>11
  <2>4. \A f \in wire' : DOMAIN f = Fields /\ (f.op = "list" => \E k \in Roster!Keys : f.ids = {k})
    BY <1>0, <2>2, <2>3, KeysOfClass
  <2>5. ASSUME NEW f \in wire', NEW r \in wire', f.op = "list", r.op = "list", f.ids = r.ids
        PROVE  f = r
    <3>1. CASE f.ids \cap keys = {}
      <4>1. f \in wire /\ r \in wire
        BY <2>2, <2>5, <3>1, KeysOfClass
      <4> QED  BY <2>5, <4>1 DEF RosterKept, RosterTyped
    <3>2. CASE f.ids \cap keys # {}
      <4>1. PICK k \in keys : f = Roster!FetchOf(k)
        BY <2>2, <2>5, <3>2
      <4>2. PICK l \in keys : r = Roster!FetchOf(l)
        BY <2>2, <2>5, <3>2
      <4>3. {k} = {l}
        BY <2>5, <4>1, <4>2, KeysOfClass
      <4> QED  BY <4>1, <4>2, <4>3
    <3> QED  BY <3>1, <3>2
  <2>6. RosterTyped(wire', shown', ui', server')
    BY <1>0, <2>1, <2>4, <2>5 DEF RosterTyped
  <2>7. ASSUME NEW k \in Roster!Keys  PROVE KeyKept(wire', shown', ui', server', k)
    <3>1. CASE k \in keys
      <4>1. Roster!FetchOf(k) \in wire'
        BY <2>2, <3>1
      <4> QED  BY <4>1, KeysOfClass DEF KeyKept, FetchesKey
    <3>2. CASE k \notin keys
      <4>1. k = "roster" /\ keys = {"class"} /\ q.op = "status"
        BY <1>0, <1>11, <3>2
      <4>2. ui.doubt => ui'.doubt
        BY <1>0, <2>1, <4>1
      <4>3. \A f \in wire : Touches(f, k) \/ FetchesKey(f, k) => f \in wire'
        BY <1>11, <2>2, <4>1 DEF Touches, FetchesKey
      <4>4. \A f \in wire' : FetchesKey(f, k) => f \in wire
        BY <2>2, <4>1, KeysOfClass DEF FetchesKey
      <4> QED  BY <2>1, <4>2, <4>3, <4>4, KeyStays DEF RosterKept
    <3> QED  BY <3>1, <3>2
  <2> QED  BY <2>6, <2>7 DEF RosterKeptNext
<1>12. ASSUME NEW d
       PROVE  DOMAIN Roster!Without(d) = DOMAIN ui /\ Roster!Without(d).doubt = ui.doubt
  BY DEF Roster!Without
<1>13. ASSUME NEW q \in wire, Roster!Succeeds(q)  PROVE RosterKeptNext
  <2>0. q.op # "list"
    BY <1>13 DEF Roster!Succeeds, Roster!Answered, Roster!Writes
  <2>1. CASE q.op \in {"enrollment", "date"} /\ Roster!SettlesAnd(q, ui, Roster!Keys)
    BY <1>11, <2>0, <2>1
  <2>2. CASE q.op = "unenroll" /\ Roster!SettlesAnd(q, Roster!Without("unenroll"), Roster!Keys)
    BY <1>11, <1>12, <2>0, <2>2
  <2>3. CASE q.op = "graduate"
             /\ Roster!SettlesAnd(q, [Roster!Without("graduate") EXCEPT !.selected = {}],
                  Roster!Keys)
    <3> DEFINE u == [Roster!Without("graduate") EXCEPT !.selected = {}]
    <3>1. DOMAIN u = DOMAIN ui /\ u.doubt = ui.doubt
      BY <1>12
    <3> HIDE DEF u
    <3> QED  BY <1>11, <2>0, <2>3, <3>1 DEF u
  <2>4. CASE q.op = "status" /\ Roster!SettlesAnd(q, Roster!Without("status"), {"class"})
    BY <1>11, <1>12, <2>0, <2>4
  <2>5. CASE q.op = "delete" /\ Roster!Settles(q, [ui EXCEPT !.left = TRUE])
    <3>1. /\ wire' = wire \ {q} /\ UNCHANGED <<server, shown>> /\ DOMAIN ui' = DOMAIN ui
          /\ ui'.doubt = ui.doubt
      BY <1>0, <2>5 DEF Roster!Settles
    <3>2. \A k \in Roster!Keys : ~Touches(q, k)
      BY <2>5 DEF Touches
    <3> QED  BY <1>0, <2>0, <3>1, <3>2, RosterStays
  <2> QED  BY <1>13, <2>1, <2>2, <2>3, <2>4, <2>5 DEF Roster!Succeeds
<1>14. ASSUME NEW q \in wire, Roster!FailsHere(q)  PROVE RosterKeptNext
  <2>1. /\ q.op # "list" /\ wire' = wire \ {q} /\ UNCHANGED <<server, shown>>
        /\ DOMAIN ui' = DOMAIN ui /\ ui'.doubt = (ui.doubt \/ q.status # "sent")
    BY <1>0, <1>12, <1>14 DEF Roster!FailsHere, Roster!Writes
  <2>2. CASE q.status = "sent"
    <3>1. \A k \in Roster!Keys : ~Touches(q, k)
      BY <2>2 DEF Touches
    <3> QED  BY <1>0, <2>1, <2>2, <3>1, RosterStays
  <2>3. CASE q.status # "sent"
    BY <1>0, <2>1, <2>3 DEF RosterKept, RosterKeptNext, RosterTyped, KeyKept
  <2> QED  BY <2>2, <2>3
<1> QED
  BY <1>3, <1>6, <1>7, <1>8, <1>9, <1>10, <1>13, <1>14 DEF Roster!Next
-----------------------------------------------------------------------------
(* Enrolling residents from the page of a class *)

EnrollHooks == {"open", "query", "selected", "warned", "enrolled", "busy", "doubt"}
EnrollKept == DOMAIN ui = EnrollHooks /\ Kept(Enroll!Rows, {"enroll"})

LEMMA EnrollKeptInit ==
  ASSUME Enroll!Init  PROVE EnrollKept
<1>1. DOMAIN ui = EnrollHooks /\ wire = {} /\ shown = None
  BY DEF Enroll!Init, Enroll!Idle, EnrollHooks
<1>2. {"busy", "doubt"} \subseteq DOMAIN ui
  BY <1>1 DEF EnrollHooks
<1> QED  BY <1>1, <1>2, StartKeeps DEF EnrollKept

LEMMA EnrollKeptStep ==
  ASSUME EnrollKept, Enroll!Next
  PROVE  KeptNext(Enroll!Rows', {"enroll"})
<1> DEFINE rows == Enroll!Rows
           ops == {"enroll"}
           Next1 == KeptNext(rows', ops)
<1>0. /\ Kept(rows, ops) /\ ops \cap {"list", "status"} = {}
           /\ {"busy", "doubt", "query"} \subseteq DOMAIN ui
      /\ DOMAIN ui = EnrollHooks
  BY DEF EnrollKept, EnrollHooks, Kept, UpToDate
<1>1. /\ \A w : Enroll!Refetch(w) = Refetch(w)
      /\ \A q : Enroll!Answered(q) <=> Answered(q)
      /\ \A q : Enroll!Fails(q) <=> Fails(q)
      /\ \A q, all : Enroll!Served(q, all) <=> Served(q, all)
      /\ \A all : Enroll!ListServed(all) <=> ListServed(all)
      /\ Enroll!ListLost <=> ListLost
  BY DEF Enroll!Refetch, Enroll!Fetch, Enroll!Answered, Enroll!Writes, Enroll!Fails,
     Enroll!Served, Enroll!Becomes, Enroll!ListServed, Enroll!ListLost, Enroll!Pending, Refetch,
     Fetch, Answered, Writes, Fails, Served, Becomes, ListServed, ListLost, Pending
<1>2. server' = server /\ ui'.query = ui.query => rows' = rows
  BY DEF Enroll!Rows
<1>3. CASE Enroll!Open \/ (\E found : Enroll!Search(found))
  <2>1. wire' = Refetch(wire) /\ DOMAIN ui' = DOMAIN ui
    BY <1>1, <1>3 DEF Enroll!Open, Enroll!Search, Enroll!Doubtless
  <2> QED  BY <1>0, <2>1, FetchKeeps
\* Nothing is shown, and nothing fetched.
<1>4. ASSUME NEW w, w \subseteq wire, wire' = Enroll!Leaves(w), shown' = None,
               ui' = Enroll!Emptied(ui)
      PROVE  Next1
  <2>1. DOMAIN ui' = DOMAIN ui /\ {"busy", "doubt"} \subseteq DOMAIN ui'
    BY <1>0, <1>4 DEF Enroll!Emptied, Enroll!Idle, EnrollHooks
  <2>2. wire' \subseteq wire /\ \A q \in wire' : q.op # "list"
    BY <1>4 DEF Enroll!Leaves
  <2> QED  BY <1>0, <1>4, <2>1, <2>2 DEF Kept, KeptNext, UpToDate
<1>5. CASE Enroll!Close
  BY <1>4, <1>5 DEF Enroll!Close
<1>6. CASE (\E p : Enroll!Toggle(p)) \/ Enroll!ClassArrives
  <2>1. /\ UNCHANGED <<server, shown, wire>> /\ DOMAIN ui' = DOMAIN ui /\ ui'.doubt = ui.doubt
        /\ ui'.query = ui.query
    BY <1>0, <1>6 DEF Enroll!Toggle, Enroll!ClassArrives, Enroll!Shows
  <2> QED  BY <1>0, <1>2, <2>1, SameKeeps
<1>7. CASE Enroll!Enroll
  <2> DEFINE f == [Enroll!Request("enroll", ui.selected) EXCEPT !.rows = ui.warned]
  <2>1. DOMAIN f = Fields /\ f.op # "list"
    BY DEF Enroll!Request, Fields
  <2>2. /\ wire' = wire \cup {f} /\ UNCHANGED <<server, shown>> /\ DOMAIN ui' = DOMAIN ui
        /\ ui'.doubt = ui.doubt /\ ui'.query = ui.query
    BY <1>0, <1>7 DEF Enroll!Enroll, Enroll!Submitted
  <2> HIDE DEF f
  <2> QED  BY <1>0, <1>2, <2>1, <2>2, AskKeeps
<1>8. CASE Enroll!ListServed(rows) \/ Enroll!ListLost
  <2>1. CASE ListServed(rows)
    <3>1. rows' = rows
      BY <1>2, <2>1 DEF ListServed
    <3> QED  BY <1>0, <2>1, <3>1, ListServedKeeps
  <2>2. CASE ListLost
    BY <1>0, <2>2, ListLostKeeps
  <2> QED  BY <1>1, <1>8, <2>1, <2>2
<1>9. CASE Enroll!ListAndAsk
  <2>1. PICK q \in wire :
          /\ q.op = "list" /\ q.status = "done" /\ shown' = q.rows /\ UNCHANGED <<server, ui>>
          /\ wire' = (wire \ {q}) \cup (IF q.rows = {} THEN {} ELSE {Enroll!AskFor(q.rows)})
    BY <1>9 DEF Enroll!ListAndAsk, Enroll!Pending
  <2> DEFINE f == Enroll!AskFor(q.rows)
  <2>2. DOMAIN f = Fields /\ f.op # "list" /\ f.op \notin ops
    BY DEF Enroll!AskFor, Enroll!Request, Fields
  <2>3. wire' = wire \ {q} \/ wire' = (wire \ {q}) \cup {f}
    BY <2>1
  <2> HIDE DEF f
  <2>4. rows' = rows
    BY <1>2, <2>1
  <2>5. DOMAIN ui' = DOMAIN ui /\ ui'.doubt = ui.doubt
    BY <2>1
  <2> QED  BY <1>0, <2>1, <2>2, <2>3, <2>4, <2>5, ShownKeeps
<1>10. CASE Enroll!ConflictsArrive \/ Enroll!ConflictsFail
  <2>1. PICK q \in wire :
          /\ q.op = "conflicts" /\ wire' = wire \ {q} /\ UNCHANGED <<server, shown>>
          /\ \/ ui' = ui
             \/ \E warned : ui' = [ui EXCEPT !.warned = warned]
    BY <1>10 DEF Enroll!ConflictsArrive, Enroll!ConflictsFail, Enroll!Pending
  <2>2. DOMAIN ui' = DOMAIN ui /\ ui'.doubt = ui.doubt /\ ui'.query = ui.query
    BY <1>0, <2>1
  <2> QED  BY <1>0, <1>2, <2>1, <2>2, SettlesKeeps
<1>11. ASSUME NEW q \in wire, Enroll!Serve(q)  PROVE Next1
  <2>1. PICK all : Served(q, all) /\ q.op \in ops
    BY <1>1, <1>11 DEF Enroll!Serve
  <2> QED  BY <1>0, <2>1, ServedKeeps
<1>12. ASSUME NEW q \in wire, Enroll!Succeeds(q)  PROVE Next1
  BY <1>4, <1>12 DEF Enroll!Succeeds
<1>13. ASSUME NEW q \in wire, Enroll!FailsHere(q)  PROVE Next1
  <2>1. Fails(q)
    BY <1>1, <1>13 DEF Enroll!FailsHere
  <2>2. rows' = rows
    BY <1>0, <1>2, <2>1 DEF Fails
  <2> QED  BY <1>0, <2>1, <2>2, FailsKeeps
<1> QED
  BY <1>3, <1>5, <1>6, <1>7, <1>8, <1>9, <1>10, <1>11, <1>12, <1>13 DEF Enroll!Next


-----------------------------------------------------------------------------
(* The sessions of a class: they are fetched first, then the class *)

\* A change that was carried out; its answer has everything fetched.
Altered(q) == q.op \notin {"list", "class"} /\ q.status = "done"

SessionsTyped(w, s, u) ==
  /\ s = [rows |-> s.rows, sessions |-> s.sessions] /\ {"busy", "doubt"} \subseteq DOMAIN u
  /\ \A q \in w : DOMAIN q = Fields
  /\ \A q, r \in w : q.op \in {"list", "class"} /\ q.op = r.op => q = r

\* The sessions, and the rows of the class: in doubt, or to be fetched, or being fetched, or as
\* they are.  The class is fetched after the sessions.
SessionsUpToDate(w, s, u, rows) ==
  \/ u.doubt
  \/ \E q \in w : Altered(q)
  \/ \E q \in w : q.op = "list" /\ (q.status = "sent" \/ q.rows = rows)
  \/ s.sessions = SessionsTab!Sessions(rows) /\ \A q \in w : q.op # "list"
ClassUpToDate(w, s, u, rows) ==
  \/ u.doubt
  \/ \E q \in w : Altered(q) \/ q.op = "list"
  \/ \E q \in w : q.op = "class" /\ (q.status = "sent" \/ q.rows = rows)
  \/ s.rows = rows /\ \A q \in w : q.op # "class"

SessionsKept ==
  /\ SessionsTyped(wire, shown, ui)
  /\ SessionsUpToDate(wire, shown, ui, server) /\ ClassUpToDate(wire, shown, ui, server)
SessionsKeptNext ==
  /\ SessionsTyped(wire', shown', ui')
  /\ SessionsUpToDate(wire', shown', ui', server') /\ ClassUpToDate(wire', shown', ui', server')

\* The sessions are fetched.
LEMMA SessionsFetched ==
  ASSUME SessionsKept, NEW w \in SUBSET wire, wire' = Refetch(w), shown' = shown,
         {"busy", "doubt"} \subseteq DOMAIN ui'
  PROVE  SessionsKeptNext
<1>1. DOMAIN Fetch = Fields /\ Fetch.op = "list" /\ Fetch.status = "sent"
  BY DEF Fetch, Fields
<1>2. wire' = {q \in w : q.op # "list"} \cup {Fetch}
  BY DEF Refetch
<1>3. SessionsTyped(wire', shown', ui')
  BY <1>1, <1>2 DEF SessionsKept, SessionsTyped
<1> QED  BY <1>1, <1>2, <1>3 DEF SessionsKeptNext, SessionsUpToDate, ClassUpToDate

\* The fetches stay as they are, and the changes that will cause one.
LEMMA SessionsStay ==
  ASSUME SessionsKept, UNCHANGED <<server, shown>>, {"busy", "doubt"} \subseteq DOMAIN ui',
         ui.doubt => ui'.doubt,
         \A f \in wire' : DOMAIN f = Fields /\ (f.op \in {"list", "class"} => f \in wire),
         \A f \in wire : f.op \in {"list", "class"} \/ Altered(f) => f \in wire'
  PROVE  SessionsKeptNext
<1>1. SessionsTyped(wire', shown', ui')
  BY DEF SessionsKept, SessionsTyped
<1>2. SessionsUpToDate(wire', shown', ui', server')
  BY DEF SessionsKept, SessionsUpToDate
<1>3. ClassUpToDate(wire', shown', ui', server')
  BY DEF SessionsKept, ClassUpToDate
<1> QED  BY <1>1, <1>2, <1>3 DEF SessionsKeptNext

LEMMA SessionsKeptInit ==
  ASSUME SessionsTab!Init  PROVE SessionsKept
<1>1. /\ wire = {} /\ DOMAIN ui = DOMAIN SessionsTab!Idle
      /\ shown = [rows |-> server, sessions |-> SessionsTab!Sessions(server)]
  BY DEF SessionsTab!Init
<1>2. {"busy", "doubt"} \subseteq DOMAIN ui
  BY <1>1 DEF SessionsTab!Idle
<1> QED  BY <1>1, <1>2 DEF SessionsKept, SessionsTyped, SessionsUpToDate, ClassUpToDate

LEMMA SessionsKeptStep ==
  ASSUME SessionsKept, SessionsTab!Next  PROVE SessionsKeptNext
<1>0. /\ {"busy", "doubt"} \subseteq DOMAIN ui
      /\ shown = [rows |-> shown.rows, sessions |-> shown.sessions]
      /\ \A q \in wire : DOMAIN q = Fields
  BY DEF SessionsKept, SessionsTyped
<1>1. /\ \A op, ids : SessionsTab!Send(op, ids) <=> Send(op, ids)
      /\ \A op, ids : SessionsTab!SendFreely(op, ids) <=> SendFreely(op, ids)
      /\ \A q : SessionsTab!Answered(q) <=> Answered(q)
      /\ \A q, u : SessionsTab!Settles(q, u) <=> Settles(q, u)
      /\ \A q, u : SessionsTab!SettlesAndFetches(q, u) <=> SettlesAndFetches(q, u)
      /\ \A q : SessionsTab!Fails(q) <=> Fails(q)
      /\ \A q, all : SessionsTab!Served(q, all) <=> Served(q, all)
  BY DEF SessionsTab!Send, SessionsTab!MaySend, SessionsTab!Submitted, SessionsTab!Request,
     SessionsTab!Becomes, SessionsTab!Writes, SessionsTab!Pending, SessionsTab!Cardinality,
     SessionsTab!SendFreely, SessionsTab!Answered, SessionsTab!Settles,
     SessionsTab!SettlesAndFetches, SessionsTab!Doubtless, SessionsTab!Refetch, SessionsTab!Fetch,
     SessionsTab!Fails, SessionsTab!Served, Send, MaySend, Submitted, Request, Becomes, Writes,
     Pending, Cardinality, SendFreely, Answered, Settles, SettlesAndFetches, Doubtless, Refetch,
     Fetch, Fails, Served
\* The page's own state changes, or a request is sent.
<1>2. ASSUME UNCHANGED <<server, shown>>, DOMAIN ui' = DOMAIN ui, ui'.doubt = ui.doubt,
             \/ wire' = wire
             \/ \E f : wire' = wire \cup {f} /\ DOMAIN f = Fields /\ f.op \notin {"list", "class"}
      PROVE  SessionsKeptNext
  BY <1>0, <1>2, SessionsStay
<1>3. CASE \/ SessionsTab!ClearSelection \/ SessionsTab!Close
           \/ \E d \in SessionDays :
                \/ SessionsTab!OpenMove(d) \/ SessionsTab!Toggle(d)
                \/ \E op \in {"off", "change"} : SessionsTab!OpenOne(op, d)
           \/ \E op \in {"bulk_off", "bulk_change"} : SessionsTab!OpenBulk(op)
  <2>1. UNCHANGED <<server, shown, wire>> /\ DOMAIN ui' = DOMAIN ui /\ ui'.doubt = ui.doubt
    BY <1>0, <1>3
       DEF SessionsTab!ClearSelection, SessionsTab!Close, SessionsTab!OpenMove, SessionsTab!Toggle,
           SessionsTab!OpenOne, SessionsTab!OpenBulk, SessionsTab!Shows
  <2> QED  BY <1>2, <2>1
<1>4. ASSUME NEW op, op \notin {"list", "class"}, NEW ids,
             SessionsTab!Send(op, ids) \/ SessionsTab!SendFreely(op, ids)
      PROVE  SessionsKeptNext
  <2> DEFINE f == Request(op, ids)
  <2>1. DOMAIN f = Fields /\ f.op = op
    BY DEF Request, Fields
  <2>2. /\ UNCHANGED <<server, shown>> /\ wire' = wire \cup {f}
        /\ DOMAIN ui' = DOMAIN ui /\ ui'.doubt = ui.doubt
    BY <1>0, <1>1, <1>4 DEF Send, SendFreely, Submitted
  <2> HIDE DEF f
  <2> QED  BY <1>2, <1>4, <2>1, <2>2
<1>5. CASE \/ SessionsTab!Cancel \/ SessionsTab!Change \/ SessionsTab!BulkCancel
                \/ SessionsTab!BulkChange
           \/ \E d \in SessionDays :
                SessionsTab!Reschedule(d) \/ SessionsTab!Undo(d) \/ SessionsTab!UndoCancel(d)
  BY <1>4, <1>5
     DEF SessionsTab!Cancel, SessionsTab!Change, SessionsTab!One, SessionsTab!BulkCancel,
         SessionsTab!BulkChange, SessionsTab!Bulk, SessionsTab!Reschedule, SessionsTab!Undo,
         SessionsTab!UndoCancel
<1>6. CASE SessionsTab!Reload
  <2>1. wire' = {SessionsTab!Fetch} /\ shown' = shown /\ ui' = SessionsTab!Idle
    BY <1>6 DEF SessionsTab!Reload
  <2>2. /\ DOMAIN SessionsTab!Fetch = Fields /\ SessionsTab!Fetch.op = "list"
        /\ SessionsTab!Fetch.status = "sent" /\ {"busy", "doubt"} \subseteq DOMAIN SessionsTab!Idle
    BY DEF SessionsTab!Fetch, Fields, SessionsTab!Idle
  <2> QED
    BY <1>0, <2>1, <2>2 DEF SessionsKeptNext, SessionsTyped, SessionsUpToDate, ClassUpToDate
<1>7. CASE SessionsTab!Read
  <2>1. PICK q \in wire :
          /\ q.op \in {"list", "class"} /\ UNCHANGED <<server, shown, ui>>
          /\ wire' = (wire \ {q}) \cup {[q EXCEPT !.status = "done", !.rows = server]}
    BY <1>7 DEF SessionsTab!Read
  <2> DEFINE new == [q EXCEPT !.status = "done", !.rows = server]
  <2>2. DOMAIN new = Fields /\ new.op = q.op /\ new.rows = server
    BY <1>0, <2>1 DEF Fields
  <2>3. wire' = (wire \ {q}) \cup {new}
    BY <2>1
  <2> HIDE DEF new
  <2>4. SessionsTyped(wire', shown', ui')
    BY <2>1, <2>2, <2>3 DEF SessionsKept, SessionsTyped
  <2>5. \A f \in wire : Altered(f) \/ f # q => f \in wire'
    BY <2>1, <2>3 DEF Altered
  <2>6. SessionsUpToDate(wire', shown', ui', server')
    <3>1. CASE q.op = "list"
      BY <2>1, <2>2, <2>3, <3>1 DEF SessionsUpToDate
    <3>2. CASE q.op = "class"
      <4>1. \A f : f.op = "list" => (f \in wire' <=> f \in wire)
        BY <2>2, <2>3, <3>2
      <4> QED  BY <2>1, <2>5, <4>1 DEF SessionsKept, SessionsUpToDate
    <3> QED  BY <2>1, <3>1, <3>2
  <2>7. ClassUpToDate(wire', shown', ui', server')
    <3>1. CASE q.op = "list"
      BY <2>1, <2>2, <2>3, <3>1 DEF ClassUpToDate
    <3>2. CASE q.op = "class"
      BY <2>1, <2>2, <2>3, <3>2 DEF ClassUpToDate
    <3> QED  BY <2>1, <3>1, <3>2
  <2> QED  BY <2>4, <2>6, <2>7 DEF SessionsKeptNext
\* The class is fetched after the sessions, whether they came or not.
<1>8. DOMAIN SessionsTab!ClassFetch = Fields /\ SessionsTab!ClassFetch.op = "class"
      /\ SessionsTab!ClassFetch.status = "sent"
  BY DEF SessionsTab!ClassFetch, SessionsTab!Fetch, Fields
<1>9. CASE SessionsTab!SessionsArrive \/ SessionsTab!SessionsLost
  <2>1. PICK q \in wire :
          /\ q.op = "list" /\ server' = server
          /\ wire' = {f \in wire \ {q} : f.op # "class"} \cup {SessionsTab!ClassFetch}
          /\ \/ /\ q.status = "done" /\ ui' = ui
                /\ shown' = [shown EXCEPT !.sessions = SessionsTab!Sessions(q.rows)]
             \/ shown' = shown /\ ui' = [ui EXCEPT !.doubt = TRUE]
    BY <1>9 DEF SessionsTab!SessionsArrive, SessionsTab!SessionsLost, SessionsTab!Pending,
                SessionsTab!Fetching
  <2>2. SessionsTyped(wire', shown', ui')
    BY <1>0, <1>8, <2>1 DEF SessionsKept, SessionsTyped
  <2>3. ClassUpToDate(wire', shown', ui', server')
    BY <1>8, <2>1 DEF ClassUpToDate
  <2>4. \A f \in wire' : f.op # "list"
    BY <1>8, <2>1 DEF SessionsKept, SessionsTyped
  <2>5. \A f \in wire : f.op = "list" => f = q
    BY <2>1 DEF SessionsKept, SessionsTyped
  <2>6. \A f \in wire : Altered(f) => f \in wire'
    BY <2>1 DEF Altered
  <2>7. SessionsUpToDate(wire', shown', ui', server')
    <3>1. CASE ui' = [ui EXCEPT !.doubt = TRUE]
      BY <1>0, <3>1 DEF SessionsUpToDate
    <3>2. CASE /\ q.status = "done" /\ ui' = ui
               /\ shown' = [shown EXCEPT !.sessions = SessionsTab!Sessions(q.rows)]
      <4>1. shown'.sessions = SessionsTab!Sessions(q.rows)
        BY <1>0, <3>2
      <4>2. CASE q.rows = server
        <5>1. shown'.sessions = SessionsTab!Sessions(server')
          BY <2>1, <4>1, <4>2
        <5> QED  BY <2>4, <5>1 DEF SessionsUpToDate
      <4>3. CASE q.rows # server
        <5>1. ui.doubt \/ \E f \in wire : Altered(f)
          BY <2>1, <2>5, <3>2, <4>3 DEF SessionsKept, SessionsUpToDate
        <5> QED  BY <2>6, <3>2, <5>1 DEF SessionsUpToDate
      <4> QED  BY <4>2, <4>3
    <3> QED  BY <2>1, <3>1, <3>2
  <2> QED  BY <2>2, <2>3, <2>7 DEF SessionsKeptNext
<1>10. CASE SessionsTab!ClassArrives
  <2>1. PICK q \in wire :
          /\ q.op = "class" /\ q.status = "done" /\ shown' = [shown EXCEPT !.rows = q.rows]
          /\ wire' = wire \ {q} /\ UNCHANGED <<server, ui>>
    BY <1>10 DEF SessionsTab!ClassArrives, SessionsTab!Pending
  <2>2. SessionsTyped(wire', shown', ui')
    BY <1>0, <2>1 DEF SessionsKept, SessionsTyped
  <2>3. /\ \A f \in wire : Altered(f) \/ f.op = "list" => f \in wire'
        /\ \A f \in wire : f.op = "class" => f = q
    BY <2>1 DEF Altered, SessionsKept, SessionsTyped
  <2>4. shown'.sessions = shown.sessions /\ shown'.rows = q.rows
    BY <1>0, <2>1
  <2>5. SessionsUpToDate(wire', shown', ui', server')
    BY <2>1, <2>3, <2>4 DEF SessionsKept, SessionsUpToDate
  <2>6. ClassUpToDate(wire', shown', ui', server')
    BY <2>1, <2>3, <2>4 DEF SessionsKept, ClassUpToDate
  <2> QED  BY <2>2, <2>5, <2>6 DEF SessionsKeptNext
<1>11. CASE SessionsTab!ClassLost
  BY <1>0, <1>11
     DEF SessionsTab!ClassLost, SessionsTab!Pending, SessionsKept, SessionsKeptNext, SessionsTyped,
         SessionsUpToDate, ClassUpToDate
<1>12. ASSUME NEW q \in wire, SessionsTab!Serve(q)  PROVE SessionsKeptNext
  <2> DEFINE new == [q EXCEPT !.status = "done"]
  <2>1. q.op \notin {"list", "class"}
    BY <1>12 DEF SessionsTab!Serve
  <2>2. wire' = (wire \ {q}) \cup {new} /\ UNCHANGED <<shown, ui>>
    <3>1. \E all : SessionsTab!Served(q, all)
      BY Zenon, <1>12 DEF SessionsTab!Serve
    <3> QED  BY <3>1 DEF SessionsTab!Served, SessionsTab!Becomes
  <2>3. DOMAIN new = Fields /\ Altered(new)
    BY <1>0, <2>1 DEF Fields, Altered
  <2> HIDE DEF new
  <2>4. SessionsTyped(wire', shown', ui')
    BY <2>2, <2>3 DEF SessionsKept, SessionsTyped, Altered
  <2> QED  BY <2>2, <2>3, <2>4 DEF SessionsKeptNext, SessionsUpToDate, ClassUpToDate
<1>13. ASSUME NEW q \in wire, SessionsTab!Succeeds(q) \/ SessionsTab!Ends(q)
       PROVE  SessionsKeptNext
  <2>1. ASSUME NEW op  PROVE DOMAIN SessionsTab!Without(op) = DOMAIN ui
    BY DEF SessionsTab!Without, SessionsTab!Closed
  <2>2. PICK op : \/ SettlesAndFetches(q, ui) \/ SettlesAndFetches(q, SessionsTab!Without(op))
                  \/ SettlesAndFetches(q, [SessionsTab!Without(op) EXCEPT !.selected = {}])
    BY <1>1, <1>13 DEF SessionsTab!Succeeds, SessionsTab!Ends
  <2>3. DOMAIN [SessionsTab!Without(op) EXCEPT !.selected = {}] = DOMAIN ui
    BY <2>1
  <2>4. wire' = Refetch(wire \ {q}) /\ shown' = shown /\ DOMAIN ui' = DOMAIN ui
    BY <2>1, <2>2, <2>3 DEF SettlesAndFetches, Doubtless
  <2> QED  BY <1>0, <2>4, SessionsFetched
<1>14. ASSUME NEW q \in wire, SessionsTab!FailsHere(q)  PROVE SessionsKeptNext
  <2>1. /\ q.op \notin {"list", "class"} /\ wire' = wire \ {q} /\ UNCHANGED <<server, shown>>
        /\ DOMAIN ui' = DOMAIN ui /\ ui'.doubt = (ui.doubt \/ q.status # "sent")
    BY <1>0, <1>1, <1>14 DEF SessionsTab!FailsHere, Fails
  <2>2. CASE q.status = "sent"
    <3>1. ~Altered(q)
      BY <2>2 DEF Altered
    <3> QED  BY <1>0, <2>1, <2>2, <3>1, SessionsStay
  <2>3. CASE q.status # "sent"
    BY <1>0, <2>1, <2>3
       DEF SessionsKept, SessionsKeptNext, SessionsTyped, SessionsUpToDate, ClassUpToDate
  <2> QED  BY <2>2, <2>3
<1> QED
  BY <1>3, <1>5, <1>6, <1>7, <1>9, <1>10, <1>11, <1>12, <1>13, <1>14 DEF SessionsTab!Next
-----------------------------------------------------------------------------
(* The enrollments of a class *)

EndsTyped ==
  /\ {"busy", "doubt", "view", "status"} \subseteq DOMAIN ui
  /\ ui.status \in Enrollments!Ends
  /\ \A q \in wire : q.op \in Enrollments!Ends \cup {"list"}
EnrollmentsKept == EndsTyped /\ Kept(Enrollments!Rows, Enrollments!Ends)

LEMMA EnrollmentsKeptInit ==
  ASSUME Enrollments!Init  PROVE EnrollmentsKept
<1>1. EndsTyped /\ wire = {}
  BY DEF Enrollments!Init, Enrollments!Idle, EndsTyped, Enrollments!Ends
<1>2. shown = Enrollments!Rows
  BY DEF Enrollments!Init, Enrollments!Idle, Enrollments!Rows
<1> QED  BY <1>1, <1>2, StartKeeps DEF EnrollmentsKept, EndsTyped

\* What is asked for is one of the ends of an enrollment.
LEMMA EndsStayTyped ==
  ASSUME EndsTyped, Kept(Enrollments!Rows, Enrollments!Ends), Enrollments!Next  PROVE EndsTyped'
<1> USE DEF EndsTyped, Enrollments!Ends
<1>0. \A q \in wire : DOMAIN q = Fields
  BY DEF Kept, UpToDate
<1>1. ASSUME NEW v, Enrollments!ChangeView(v)  PROVE EndsTyped'
  BY <1>1
     DEF Enrollments!ChangeView, Enrollments!Refetch, Enrollments!Fetch, Enrollments!Doubtless
<1>2. CASE (\E p : Enrollments!Toggle(p)) \/ Enrollments!ToggleAll \/ Enrollments!Close
  BY <1>2 DEF Enrollments!Toggle, Enrollments!ToggleAll, Enrollments!Close, Enrollments!Shows
<1>3. ASSUME NEW p, NEW status \in Enrollments!Ends, Enrollments!ChangeOne(p, status)
      PROVE  EndsTyped'
  BY <1>3 DEF Enrollments!ChangeOne, Enrollments!Ask, Enrollments!Alone, Enrollments!Shows
<1>4. CASE Enrollments!Graduate
  BY <1>4 DEF Enrollments!Graduate, Enrollments!Ask, Enrollments!Shows
<1>5. CASE Enrollments!Confirm
  BY <1>5 DEF Enrollments!Confirm, Enrollments!Request
<1>6. CASE Enrollments!ListServed(Enrollments!Rows)
  BY <1>0, <1>6 DEF Enrollments!ListServed, Fields
<1>7. CASE Enrollments!ListArrives
  BY <1>7 DEF Enrollments!ListArrives
<1>8. ASSUME NEW q \in wire, Enrollments!Serve(q)  PROVE EndsTyped'
  BY <1>0, <1>8 DEF Enrollments!Serve, Enrollments!Served, Enrollments!Becomes, Fields
<1>9. ASSUME NEW q \in wire, Enrollments!Succeeds(q)  PROVE EndsTyped'
  BY <1>9
     DEF Enrollments!Succeeds, Enrollments!SettlesAndFetches, Enrollments!Refetch,
         Enrollments!Fetch, Enrollments!Doubtless, Enrollments!Closed
<1>10. ASSUME NEW q \in wire, Enrollments!FailsHere(q)  PROVE EndsTyped'
  BY <1>10 DEF Enrollments!FailsHere, Enrollments!Closed
<1> QED
  BY <1>1, <1>2, <1>3, <1>4, <1>5, <1>6, <1>7, <1>8, <1>9, <1>10 DEF Enrollments!Next

LEMMA EnrollmentsKeptStep ==
  ASSUME EnrollmentsKept, Enrollments!Next
  PROVE  KeptNext(Enrollments!Rows', Enrollments!Ends)
<1> DEFINE rows == Enrollments!Rows
           ops == Enrollments!Ends
           Next1 == KeptNext(rows', ops)
<1>0. /\ Kept(rows, ops) /\ ops \cap {"list", "status"} = {}
           /\ {"busy", "doubt", "view", "status"} \subseteq DOMAIN ui
      /\ ui.status \in ops /\ \A q \in wire : q.op \in ops \cup {"list"}
  BY DEF EnrollmentsKept, EndsTyped, Enrollments!Ends
<1>1. /\ \A w : Enrollments!Refetch(w) = Refetch(w)
      /\ \A q : Enrollments!Answered(q) <=> Answered(q)
      /\ \A q, u : Enrollments!SettlesAndFetches(q, u) <=> SettlesAndFetches(q, u)
      /\ \A q, all : Enrollments!Served(q, all) <=> Served(q, all)
      /\ \A all : Enrollments!ListServed(all) <=> ListServed(all)
      /\ Enrollments!ListArrives <=> ListArrives
  BY DEF Enrollments!Refetch, Enrollments!Fetch, Enrollments!Answered, Enrollments!Writes,
     Enrollments!SettlesAndFetches, Enrollments!Doubtless, Enrollments!Served,
     Enrollments!Becomes, Enrollments!ListServed, Enrollments!ListArrives, Refetch, Fetch,
     Answered, Writes, SettlesAndFetches, Doubtless, Served, Becomes, ListServed, ListArrives
<1>2. server' = server /\ ui'.view = ui.view => rows' = rows
  BY DEF Enrollments!Rows
<1>3. CASE \E v : Enrollments!ChangeView(v)
  <2>1. wire' = Refetch(wire) /\ DOMAIN ui' = DOMAIN ui
    BY <1>1, <1>3 DEF Enrollments!ChangeView, Enrollments!Doubtless
  <2> QED  BY <1>0, <2>1, FetchKeeps
<1>4. CASE (\E p : Enrollments!Toggle(p)) \/ Enrollments!ToggleAll \/ Enrollments!Close
           \/ (\E p, status : Enrollments!ChangeOne(p, status)) \/ Enrollments!Graduate
  <2>1. /\ UNCHANGED <<server, shown, wire>> /\ DOMAIN ui' = DOMAIN ui /\ ui'.doubt = ui.doubt
        /\ ui'.view = ui.view
    BY <1>0, <1>4
       DEF Enrollments!Toggle, Enrollments!ToggleAll, Enrollments!Close, Enrollments!ChangeOne,
           Enrollments!Graduate, Enrollments!Ask, Enrollments!Alone, Enrollments!Shows
  <2> QED  BY <1>0, <1>2, <2>1, SameKeeps
<1>5. CASE Enrollments!Confirm
  <2> DEFINE f == [Enrollments!Request(ui.status, Enrollments!Sent) EXCEPT !.rows = ui.who]
  <2>1. DOMAIN f = Fields /\ f.op # "list"
    BY <1>0 DEF Enrollments!Request, Fields
  <2>2. /\ wire' = wire \cup {f} /\ UNCHANGED <<server, shown>> /\ DOMAIN ui' = DOMAIN ui
        /\ ui'.doubt = ui.doubt /\ ui'.view = ui.view
    BY <1>0, <1>5 DEF Enrollments!Confirm
  <2> HIDE DEF f
  <2> QED  BY <1>0, <1>2, <2>1, <2>2, AskKeeps
<1>6. CASE Enrollments!ListServed(rows) \/ Enrollments!ListArrives
  <2>1. rows' = rows
    BY <1>1, <1>2, <1>6 DEF ListServed, ListArrives
  <2> QED  BY <1>0, <1>1, <1>6, <2>1, ListServedKeeps, ListArrivesKeeps
<1>7. ASSUME NEW q \in wire, Enrollments!Serve(q)  PROVE Next1
  <2>1. PICK all : Served(q, all)
    BY <1>1, <1>7 DEF Enrollments!Serve
  <2>2. q.op \in ops
    BY <1>0, <2>1 DEF Served, Writes
  <2> QED  BY <1>0, <2>1, <2>2, ServedKeeps
<1>8. ASSUME NEW q \in wire, Enrollments!Succeeds(q)  PROVE Next1
  <2>1. SettlesAndFetches(q, [Enrollments!Closed(ui) EXCEPT !.selected = {}, !.who = {}])
    BY <1>1, <1>8 DEF Enrollments!Succeeds
  <2>2. wire' = Refetch(wire \ {q}) /\ DOMAIN ui' = DOMAIN ui
    BY <2>1 DEF SettlesAndFetches, Doubtless, Enrollments!Closed
  <2> QED  BY <1>0, <2>2, SettlesAndFetchesKeeps
<1>9. ASSUME NEW q \in wire, Enrollments!FailsHere(q)  PROVE Next1
  <2>1. /\ q.op # "list" /\ wire' = wire \ {q} /\ UNCHANGED <<server, shown>>
        /\ ui' = [Enrollments!Closed(ui) EXCEPT !.doubt = @ \/ q.status # "sent"]
    BY <1>9 DEF Enrollments!FailsHere, Enrollments!Writes
  <2>2. /\ DOMAIN ui' = DOMAIN ui /\ ui'.doubt = (ui.doubt \/ q.status # "sent")
        /\ ui'.view = ui.view
    BY <1>0, <2>1 DEF Enrollments!Closed
  <2> QED  BY <1>0, <1>2, <2>1, <2>2, LostKeeps
<1> QED
  BY <1>3, <1>4, <1>5, <1>6, <1>7, <1>8, <1>9 DEF Enrollments!Next

-----------------------------------------------------------------------------
(* The calendar of a facility *)

CalendarOps == {"cancel", "instructor", "room", "single", "series", "restore"}
CalendarTyped == \A q \in wire : q.op \in CalendarOps \cup {"list"}
CalendarKept == CalendarTyped /\ Kept(Calendar!Calendar(server), CalendarOps)

LEMMA CalendarKeptInit ==
  ASSUME Calendar!Init  PROVE CalendarKept
<1>1. {"busy", "doubt"} \subseteq DOMAIN ui /\ wire = {} /\ shown = Calendar!Calendar(server)
  BY DEF Calendar!Init, Calendar!Idle
<1> QED  BY <1>1, StartKeeps DEF CalendarKept, CalendarTyped

LEMMA CalendarKeptStep ==
  ASSUME CalendarKept, Calendar!Next
  PROVE  CalendarTyped' /\ KeptNext(Calendar!Calendar(server'), CalendarOps)
<1> DEFINE rows == Calendar!Calendar(server)
           ops == CalendarOps
           Next1 == CalendarTyped' /\ KeptNext(Calendar!Calendar(server'), ops)
<1>0. /\ Kept(rows, ops) /\ ops \cap {"list", "status"} = {}
           /\ {"busy", "doubt"} \subseteq DOMAIN ui
      /\ \A q \in wire : q.op \in ops \cup {"list"} /\ DOMAIN q = Fields
  BY DEF CalendarKept, CalendarTyped, CalendarOps, Kept, UpToDate
<1>1. /\ \A w : Calendar!Refetch(w) = Refetch(w)
      /\ \A q : Calendar!Answered(q) <=> Answered(q)
      /\ \A q, u : Calendar!SettlesAndFetches(q, u) <=> SettlesAndFetches(q, u)
      /\ \A q : Calendar!Fails(q) <=> Fails(q)
      /\ \A q, all : Calendar!Served(q, all) <=> Served(q, all)
      /\ \A all : Calendar!ListServed(all) <=> ListServed(all)
      /\ Calendar!ListArrives <=> ListArrives
  BY DEF Calendar!Refetch, Calendar!Fetch, Calendar!Answered, Calendar!Writes,
     Calendar!SettlesAndFetches, Calendar!Doubtless, Calendar!Fails, Calendar!Served,
     Calendar!Becomes, Calendar!ListServed, Calendar!ListArrives, Refetch, Fetch, Answered,
     Writes, SettlesAndFetches, Doubtless, Fails, Served, Becomes, ListServed, ListArrives
<1>2. CASE Calendar!QueryChanges
  <2>1. wire' = Refetch(wire) /\ DOMAIN ui' = DOMAIN ui
    BY <1>1, <1>2 DEF Calendar!QueryChanges, Calendar!Doubtless
  <2>2. CalendarTyped'
    BY <1>0, <2>1 DEF CalendarTyped, Refetch, Fetch
  <2> QED  BY <1>0, <2>1, <2>2, FetchKeeps
<1>3. ASSUME UNCHANGED <<server, shown, wire>>, DOMAIN ui' = DOMAIN ui, ui'.doubt = ui.doubt
      PROVE  Next1
  BY <1>0, <1>3, SameKeeps DEF CalendarTyped
<1>4. CASE Calendar!CloseSheet \/ Calendar!HandleUndo \/ (\E s : Calendar!SelectEvent(s))
  <2>1. UNCHANGED <<server, shown, wire>> /\ DOMAIN ui' = DOMAIN ui /\ ui'.doubt = ui.doubt
    BY <1>0, <1>4
       DEF Calendar!CloseSheet, Calendar!HandleUndo, Calendar!SelectEvent, Calendar!SheetClosed,
           Calendar!Shows
  <2> QED  BY <1>3, <2>1
<1>5. CASE Calendar!CloseDialog \/ (\E op : Calendar!OpenDialog(op))
             \/ (\E op : Calendar!Choose(op))
  <2>1. UNCHANGED <<server, shown, wire>> /\ DOMAIN ui' = DOMAIN ui /\ ui'.doubt = ui.doubt
    BY <1>0, <1>5 DEF Calendar!CloseDialog, Calendar!OpenDialog, Calendar!Choose, Calendar!Shows
  <2> QED  BY <1>3, <2>1
<1>6. ASSUME NEW op \in ops, NEW ids, wire' = wire \cup {Calendar!Request(op, ids)},
             UNCHANGED <<server, shown>>, DOMAIN ui' = DOMAIN ui, ui'.doubt = ui.doubt
      PROVE  Next1
  <2> DEFINE f == Calendar!Request(op, ids)
  <2>1. DOMAIN f = Fields /\ f.op \in ops /\ f.op # "list"
    BY <1>0, <1>6 DEF Calendar!Request, Fields
  <2>2. wire' = wire \cup {f}
    BY <1>6
  <2> HIDE DEF f
  <2>3. CalendarTyped'
    BY <1>0, <2>1, <2>2 DEF CalendarTyped
  <2> QED  BY <1>0, <1>6, <2>1, <2>2, <2>3, AskKeeps
<1>7. ASSUME NEW op \in ops, NEW all, NEW at, Calendar!Submits(op, all, at)  PROVE Next1
  <2>1. PICK ids : wire' = wire \cup {Calendar!Request(op, ids)}
    BY <1>7 DEF Calendar!Submits, Calendar!Asks
  <2>2. UNCHANGED <<server, shown>> /\ DOMAIN ui' = DOMAIN ui /\ ui'.doubt = ui.doubt
    BY <1>0, <1>7 DEF Calendar!Submits, Calendar!Asks, Calendar!Submitted
  <2> QED  BY <1>6, <2>1, <2>2
<1>8. ASSUME NEW all, NEW op \in {"instructor", "room"},
             Calendar!CancelEvent(all) \/ Calendar!ChangeField(op, all)
      PROVE  Next1
  BY <1>7, <1>8 DEF Calendar!CancelEvent, Calendar!ChangeField, CalendarOps
<1>9. ASSUME NEW d, Calendar!RescheduleSeries(d) \/ Calendar!RescheduleSession(d)  PROVE Next1
  BY <1>7, <1>9 DEF Calendar!RescheduleSeries, Calendar!RescheduleSession, CalendarOps
<1>10. CASE Calendar!Restore
  <2>1. PICK ids : wire' = wire \cup {Calendar!Request("restore", ids)}
    BY <1>10 DEF Calendar!Restore
  <2>2. UNCHANGED <<server, shown>> /\ DOMAIN ui' = DOMAIN ui /\ ui'.doubt = ui.doubt
    BY <1>0, <1>10 DEF Calendar!Restore, Calendar!Submitted
  <2> QED  BY <1>6, <2>1, <2>2 DEF CalendarOps
<1>11. CASE Calendar!ListServed(rows)
  <2>1. CalendarTyped'
    BY <1>0, <1>11 DEF CalendarTyped, Calendar!ListServed, Fields
  <2>2. Calendar!Calendar(server') = rows
    BY <1>1, <1>11 DEF ListServed
  <2> QED  BY <1>0, <1>1, <1>11, <2>1, <2>2, ListServedKeeps
<1>12. CASE Calendar!ListArrives
  <2>1. CalendarTyped'
    BY <1>0, <1>12 DEF CalendarTyped, Calendar!ListArrives
  <2>2. Calendar!Calendar(server') = rows
    BY <1>1, <1>12 DEF ListArrives
  <2> QED  BY <1>0, <1>1, <1>12, <2>1, <2>2, ListArrivesKeeps
<1>13. ASSUME NEW q \in wire, Calendar!Serve(q)  PROVE Next1
  <2>1. PICK all : Served(q, all)
    BY <1>1, <1>13 DEF Calendar!Serve
  <2>2. q.op \in ops
    BY <1>0, <2>1 DEF Served, Writes
  <2>3. CalendarTyped'
    BY <1>0, <2>1 DEF CalendarTyped, Served, Becomes, Fields
  <2> QED  BY <1>0, <2>1, <2>2, <2>3, ServedKeeps
<1>14. ASSUME NEW q \in wire, Calendar!Succeeds(q)  PROVE Next1
  <2>1. PICK u \in {[Calendar!SheetClosed(ui) EXCEPT !.flags = @ \ {q.op}],
                    [ui EXCEPT !.who = None, !.sheet = FALSE, !.busy = {},
                               !.flags = (@ \ {q.op}) \cap Calendar!PageDialogs]} :
          SettlesAndFetches(q, u)
    BY <1>1, <1>14 DEF Calendar!Succeeds
  <2>2. DOMAIN u = DOMAIN ui
    BY <2>1 DEF Calendar!SheetClosed
  <2>3. wire' = Refetch(wire \ {q}) /\ DOMAIN ui' = DOMAIN ui
    BY <2>1, <2>2 DEF SettlesAndFetches, Doubtless
  <2>4. CalendarTyped'
    BY <1>0, <2>3 DEF CalendarTyped, Refetch, Fetch
  <2> QED  BY <1>0, <2>3, <2>4, SettlesAndFetchesKeeps
<1>15. ASSUME NEW q \in wire, Calendar!Fails(q)  PROVE Next1
  <2>1. Calendar!Calendar(server') = rows /\ wire' \subseteq wire
    BY <1>1, <1>15 DEF Fails
  <2>2. CalendarTyped'
    BY <1>0, <2>1 DEF CalendarTyped
  <2> QED  BY <1>0, <1>1, <1>15, <2>1, <2>2, FailsKeeps
<1> QED
  BY <1>2, <1>4, <1>5, <1>8, <1>9, <1>10, <1>11, <1>12, <1>13, <1>14, <1>15 DEF Calendar!Next


-----------------------------------------------------------------------------
(* All the pages together *)

\* What holds after a step holds of the next state, and a step that changes nothing keeps it.
LEMMA ResidentsAgain ==
  ASSUME ResidentsKept, KeptNext(ResidentsPage!Rows', ResidentsChanges)  PROVE ResidentsKept'
  BY DEF ResidentsKept, Kept, KeptNext, UpToDate
LEMMA ResidentsStutters ==
  ASSUME ResidentsKept, UNCHANGED screen  PROVE ResidentsKept'
<1>1. server' = server /\ shown' = shown /\ wire' = wire /\ ui' = ui
  BY DEF screen
<1>2. KeptNext(ResidentsPage!Rows, ResidentsChanges)
  BY <1>1, SameKeeps DEF ResidentsKept
<1>3. ResidentsPage!Rows' = ResidentsPage!Rows
  BY <1>1 DEF ResidentsPage!Rows, ResidentsPage!Listed, ResidentsPage!Place
<1> QED  BY <1>1, <1>2, <1>3, ResidentsAgain

LEMMA ImportAgain ==
  ASSUME ImportKept, KeptNext(Import!Rows', {"create"})  PROVE ImportKept'
  BY DEF ImportKept, Kept, KeptNext, UpToDate
LEMMA ImportStutters ==
  ASSUME ImportKept, UNCHANGED screen  PROVE ImportKept'
<1>1. server' = server /\ shown' = shown /\ wire' = wire /\ ui' = ui
  BY DEF screen
<1>2. KeptNext(Import!Rows, {"create"})
  BY <1>1, SameKeeps DEF ImportKept
<1>3. Import!Rows' = Import!Rows
  BY <1>1 DEF Import!Rows
<1> QED  BY <1>1, <1>2, <1>3, ImportAgain

LEMMA AdminsAgain ==
  ASSUME AdminsKept, KeptNext(AdminsPage!Rows', AdminsChanges)  PROVE AdminsKept'
  BY DEF AdminsKept, Kept, KeptNext, UpToDate
LEMMA AdminsStutters ==
  ASSUME AdminsKept, UNCHANGED screen  PROVE AdminsKept'
<1>1. server' = server /\ shown' = shown /\ wire' = wire /\ ui' = ui
  BY DEF screen
<1>2. KeptNext(AdminsPage!Rows, AdminsChanges)
  BY <1>1, SameKeeps DEF AdminsKept
<1>3. AdminsPage!Rows' = AdminsPage!Rows
  BY <1>1 DEF AdminsPage!Rows
<1> QED  BY <1>1, <1>2, <1>3, AdminsAgain

LEMMA PlatformsAgain ==
  ASSUME PlatformsKept, KeptNext(Platforms!Rows', PlatformsChanges)  PROVE PlatformsKept'
  BY DEF PlatformsKept, Kept, KeptNext, UpToDate
LEMMA PlatformsStutters ==
  ASSUME PlatformsKept, UNCHANGED screen  PROVE PlatformsKept'
<1>1. server' = server /\ shown' = shown /\ wire' = wire /\ ui' = ui
  BY DEF screen
<1>2. KeptNext(Platforms!Rows, PlatformsChanges)
  BY <1>1, SameKeeps DEF PlatformsKept
<1>3. Platforms!Rows' = Platforms!Rows
  BY <1>1 DEF Platforms!Rows
<1> QED  BY <1>1, <1>2, <1>3, PlatformsAgain

LEMMA FacilitiesAgain ==
  ASSUME FacilitiesKept, KeptNext(FacilitiesPage!Rows', FacilitiesChanges)  PROVE FacilitiesKept'
  BY DEF FacilitiesKept, Kept, KeptNext, UpToDate
LEMMA FacilitiesStutters ==
  ASSUME FacilitiesKept, UNCHANGED screen  PROVE FacilitiesKept'
<1>1. server' = server /\ shown' = shown /\ wire' = wire /\ ui' = ui
  BY DEF screen
<1>2. KeptNext(FacilitiesPage!Rows, FacilitiesChanges)
  BY <1>1, SameKeeps DEF FacilitiesKept
<1>3. FacilitiesPage!Rows' = FacilitiesPage!Rows
  BY <1>1 DEF FacilitiesPage!Rows
<1> QED  BY <1>1, <1>2, <1>3, FacilitiesAgain

LEMMA ProgramAgain ==
  ASSUME ProgramKept, ProgramRecorded(server') /\ KeptNext(Program!Rows', ProgramChanges)
  PROVE  ProgramKept'
  BY DEF ProgramKept, ProgramRecorded, Kept, KeptNext, UpToDate
LEMMA ProgramStutters ==
  ASSUME ProgramKept, UNCHANGED screen  PROVE ProgramKept'
<1>1. server' = server /\ shown' = shown /\ wire' = wire /\ ui' = ui
  BY DEF screen
<1>2. KeptNext(Program!Rows, ProgramChanges)
  BY <1>1, SameKeeps DEF ProgramKept
<1>3. ProgramRecorded(server')
  BY <1>1 DEF ProgramKept, ProgramRecorded
<1>4. Program!Rows' = Program!Rows
  BY <1>1 DEF Program!Rows
<1> QED  BY <1>1, <1>2, <1>3, <1>4, ProgramAgain

LEMMA ProgramsAgain ==
  ASSUME ProgramsKept, KeptNext(ProgramsPage!Rows', {"create"})  PROVE ProgramsKept'
  BY DEF ProgramsKept, Kept, KeptNext, UpToDate
LEMMA ProgramsStutters ==
  ASSUME ProgramsKept, UNCHANGED screen  PROVE ProgramsKept'
<1>1. server' = server /\ shown' = shown /\ wire' = wire /\ ui' = ui
  BY DEF screen
<1>2. KeptNext(ProgramsPage!Rows, {"create"})
  BY <1>1, SameKeeps DEF ProgramsKept
<1>3. ProgramsPage!Rows' = ProgramsPage!Rows
  BY <1>1 DEF ProgramsPage!Rows
<1> QED  BY <1>1, <1>2, <1>3, ProgramsAgain

LEMMA ClassAgain ==
  ASSUME ClassKept, KeptNext(server', {"save"})  PROVE ClassKept'
  BY DEF ClassKept, Kept, KeptNext, UpToDate
LEMMA ClassStutters ==
  ASSUME ClassKept, UNCHANGED screen  PROVE ClassKept'
<1>1. server' = server /\ shown' = shown /\ wire' = wire /\ ui' = ui
  BY DEF screen
<1>2. KeptNext(server, {"save"})
  BY <1>1, SameKeeps DEF ClassKept
<1> QED  BY <1>1, <1>2, ClassAgain

LEMMA EnrollAgain ==
  ASSUME EnrollKept, KeptNext(Enroll!Rows', {"enroll"})  PROVE EnrollKept'
  BY DEF EnrollKept, Kept, KeptNext, UpToDate
LEMMA EnrollStutters ==
  ASSUME EnrollKept, UNCHANGED screen  PROVE EnrollKept'
<1>1. server' = server /\ shown' = shown /\ wire' = wire /\ ui' = ui
  BY DEF screen
<1>2. KeptNext(Enroll!Rows, {"enroll"})
  BY <1>1, SameKeeps DEF EnrollKept
<1>3. Enroll!Rows' = Enroll!Rows
  BY <1>1 DEF Enroll!Rows
<1> QED  BY <1>1, <1>2, <1>3, EnrollAgain

LEMMA EnrollmentsAgain ==
  ASSUME EnrollmentsKept, EndsTyped' /\ KeptNext(Enrollments!Rows', Enrollments!Ends)
  PROVE  EnrollmentsKept'
  BY DEF EnrollmentsKept, Kept, KeptNext, UpToDate
LEMMA EnrollmentsStutters ==
  ASSUME EnrollmentsKept, UNCHANGED screen  PROVE EnrollmentsKept'
<1>1. server' = server /\ shown' = shown /\ wire' = wire /\ ui' = ui
  BY DEF screen
<1>2. KeptNext(Enrollments!Rows, Enrollments!Ends)
  BY <1>1, SameKeeps DEF EnrollmentsKept
<1>3. EndsTyped'
  BY <1>1 DEF EnrollmentsKept, EndsTyped
<1>4. Enrollments!Rows' = Enrollments!Rows
  BY <1>1 DEF Enrollments!Rows
<1> QED  BY <1>1, <1>2, <1>3, <1>4, EnrollmentsAgain

LEMMA CalendarAgain ==
  ASSUME CalendarKept, CalendarTyped' /\ KeptNext(Calendar!Calendar(server'), CalendarOps)
  PROVE  CalendarKept'
  BY DEF CalendarKept, Kept, KeptNext, UpToDate
LEMMA CalendarStutters ==
  ASSUME CalendarKept, UNCHANGED screen  PROVE CalendarKept'
<1>1. server' = server /\ shown' = shown /\ wire' = wire /\ ui' = ui
  BY DEF screen
<1>2. KeptNext(Calendar!Calendar(server), CalendarOps)
  BY <1>1, SameKeeps DEF CalendarKept
<1>3. CalendarTyped'
  BY <1>1 DEF CalendarKept, CalendarTyped
<1>4. Calendar!Calendar(server') = Calendar!Calendar(server)
  BY <1>1
<1> QED  BY <1>1, <1>2, <1>3, <1>4, CalendarAgain

\* The pages with several lists.
LEMMA UsersAgain ==
  ASSUME UsersKeptNext  PROVE UsersKept'
  BY UsersReads DEF UsersKept, UsersKeptNext, UsersTyped, ListKept, Changing, Users!Lists
LEMMA UsersStutters ==
  ASSUME UsersKept, UNCHANGED screen  PROVE UsersKept'
<1>1. server' = server /\ shown' = shown /\ wire' = wire /\ ui' = ui
  BY DEF screen
<1>2. UsersKeptNext
  BY <1>1 DEF UsersKept, UsersKeptNext
<1> QED  BY <1>2, UsersAgain

LEMMA FeaturesStutters ==
  ASSUME FeaturesKept, UNCHANGED screen  PROVE FeaturesKept'
  BY DEF FeaturesKept, FeaturesTyped, EntryKept, Concerns, Loads, Features!Rows,
     Features!Effective, screen

LEMMA RosterAgain ==
  ASSUME RosterKeptNext  PROVE RosterKept'
  BY DEF RosterKept, RosterKeptNext, RosterTyped, KeyKept, Touches, FetchesKey, Roster!Keys
LEMMA RosterStutters ==
  ASSUME RosterKept, UNCHANGED screen  PROVE RosterKept'
  BY DEF RosterKept, RosterTyped, KeyKept, Touches, FetchesKey, Roster!Keys, screen

LEMMA SessionsAgain ==
  ASSUME SessionsKeptNext  PROVE SessionsKept'
  BY DEF SessionsKept, SessionsKeptNext, SessionsTyped, SessionsUpToDate, ClassUpToDate, Altered
LEMMA SessionsStutters ==
  ASSUME SessionsKept, UNCHANGED screen  PROVE SessionsKept'
<1>1. server' = server /\ shown' = shown /\ wire' = wire /\ ui' = ui
  BY DEF screen
<1>2. SessionsKeptNext
  BY <1>1 DEF SessionsKept, SessionsKeptNext
<1> QED  BY <1>2, SessionsAgain

\* What makes the property inductive: every page shows its rows, or has on the wire what will.
FreshInv ==
  /\ On("residents", ResidentsKept)
  /\ On("import", ImportKept)
  /\ On("admins", AdminsKept)
  /\ On("users", UsersKept)
  /\ On("platforms", PlatformsKept)
  /\ On("facilities", FacilitiesKept)
  /\ On("features", FeaturesKept)
  /\ On("program", ProgramKept)
  /\ On("programs", ProgramsKept)
  /\ On("class", ClassKept)
  /\ On("roster", RosterKept)
  /\ On("enroll", EnrollKept)
  /\ On("sessions", SessionsKept)
  /\ On("enrollments", EnrollmentsKept)
  /\ On("schedule", CalendarKept)

LEMMA FreshInit ==
  ASSUME Init  PROVE FreshInv
<1>1. On("residents", ResidentsKept)
  BY ResidentsKeptInit DEF Init, On
<1>2. On("import", ImportKept)
  BY ImportKeptInit DEF Init, On
<1>3. On("admins", AdminsKept)
  BY AdminsKeptInit DEF Init, On
<1>4. On("users", UsersKept)
  BY UsersKeptInit DEF Init, On
<1>5. On("platforms", PlatformsKept)
  BY PlatformsKeptInit DEF Init, On
<1>6. On("facilities", FacilitiesKept)
  BY FacilitiesKeptInit DEF Init, On
<1>7. On("features", FeaturesKept)
  BY FeaturesKeptInit DEF Init, On
<1>8. On("program", ProgramKept)
  BY ProgramKeptInit DEF Init, On
<1>9. On("programs", ProgramsKept)
  BY ProgramsKeptInit DEF Init, On
<1>10. On("class", ClassKept)
  BY ClassKeptInit DEF Init, On
<1>11. On("roster", RosterKept)
  BY RosterKeptInit DEF Init, On
<1>12. On("enroll", EnrollKept)
  BY EnrollKeptInit DEF Init, On
<1>13. On("sessions", SessionsKept)
  BY SessionsKeptInit DEF Init, On
<1>14. On("enrollments", EnrollmentsKept)
  BY EnrollmentsKeptInit DEF Init, On
<1>15. On("schedule", CalendarKept)
  BY CalendarKeptInit DEF Init, On
<1> QED  BY <1>1, <1>2, <1>3, <1>4, <1>5, <1>6, <1>7, <1>8, <1>9, <1>10, <1>11, <1>12, <1>13, <1>14,
             <1>15 DEF FreshInv

LEMMA FreshPages ==
  ASSUME Next
  PROVE  /\ page' = page
         /\ page = "residents" => ResidentsPage!Next
         /\ page = "import" => Import!Next
         /\ page = "admins" => AdminsPage!Next
         /\ page = "users" => Users!Next
         /\ page = "platforms" => Platforms!Next
         /\ page = "facilities" => FacilitiesPage!Next
         /\ page = "features" => Features!Next
         /\ page = "program" => Program!Next
         /\ page = "programs" => ProgramsPage!Next
         /\ page = "class" => Class!Next
         /\ page = "roster" => Roster!Next
         /\ page = "enroll" => Enroll!Next
         /\ page = "sessions" => SessionsTab!Next
         /\ page = "enrollments" => Enrollments!Next
         /\ page = "schedule" => Calendar!Next
  BY DEF Next

LEMMA FreshStep ==
  ASSUME FreshInv, Next  PROVE FreshInv'
<1>1. On("residents", ResidentsKept)'
  <2> SUFFICES ASSUME page = "residents"  PROVE ResidentsKept'
    BY FreshPages DEF On
  <2>1. ResidentsKept /\ ResidentsPage!Next
    BY FreshPages DEF FreshInv, On
  <2> QED  BY <2>1, ResidentsKeptStep, ResidentsAgain
<1>2. On("import", ImportKept)'
  <2> SUFFICES ASSUME page = "import"  PROVE ImportKept'
    BY FreshPages DEF On
  <2>1. ImportKept /\ Import!Next
    BY FreshPages DEF FreshInv, On
  <2> QED  BY <2>1, ImportKeptStep, ImportAgain
<1>3. On("admins", AdminsKept)'
  <2> SUFFICES ASSUME page = "admins"  PROVE AdminsKept'
    BY FreshPages DEF On
  <2>1. AdminsKept /\ AdminsPage!Next
    BY FreshPages DEF FreshInv, On
  <2> QED  BY <2>1, AdminsKeptStep, AdminsAgain
<1>4. On("users", UsersKept)'
  <2> SUFFICES ASSUME page = "users"  PROVE UsersKept'
    BY FreshPages DEF On
  <2>1. UsersKept /\ Users!Next
    BY FreshPages DEF FreshInv, On
  <2> QED  BY <2>1, UsersKeptStep, UsersAgain
<1>5. On("platforms", PlatformsKept)'
  <2> SUFFICES ASSUME page = "platforms"  PROVE PlatformsKept'
    BY FreshPages DEF On
  <2>1. PlatformsKept /\ Platforms!Next
    BY FreshPages DEF FreshInv, On
  <2> QED  BY <2>1, PlatformsKeptStep, PlatformsAgain
<1>6. On("facilities", FacilitiesKept)'
  <2> SUFFICES ASSUME page = "facilities"  PROVE FacilitiesKept'
    BY FreshPages DEF On
  <2>1. FacilitiesKept /\ FacilitiesPage!Next
    BY FreshPages DEF FreshInv, On
  <2> QED  BY <2>1, FacilitiesKeptStep, FacilitiesAgain
<1>7. On("features", FeaturesKept)'
  <2> SUFFICES ASSUME page = "features"  PROVE FeaturesKept'
    BY FreshPages DEF On
  <2>1. FeaturesKept /\ Features!Next
    BY FreshPages DEF FreshInv, On
  <2> QED  BY <2>1, FeaturesKeptStep DEF FeaturesKept
<1>8. On("program", ProgramKept)'
  <2> SUFFICES ASSUME page = "program"  PROVE ProgramKept'
    BY FreshPages DEF On
  <2>1. ProgramKept /\ Program!Next
    BY FreshPages DEF FreshInv, On
  <2> QED  BY <2>1, ProgramKeptStep, ProgramAgain
<1>9. On("programs", ProgramsKept)'
  <2> SUFFICES ASSUME page = "programs"  PROVE ProgramsKept'
    BY FreshPages DEF On
  <2>1. ProgramsKept /\ ProgramsPage!Next
    BY FreshPages DEF FreshInv, On
  <2> QED  BY <2>1, ProgramsKeptStep, ProgramsAgain
<1>10. On("class", ClassKept)'
  <2> SUFFICES ASSUME page = "class"  PROVE ClassKept'
    BY FreshPages DEF On
  <2>1. ClassKept /\ Class!Next
    BY FreshPages DEF FreshInv, On
  <2> QED  BY <2>1, ClassKeptStep, ClassAgain
<1>11. On("roster", RosterKept)'
  <2> SUFFICES ASSUME page = "roster"  PROVE RosterKept'
    BY FreshPages DEF On
  <2>1. RosterKept /\ Roster!Next
    BY FreshPages DEF FreshInv, On
  <2> QED  BY <2>1, RosterKeptStep, RosterAgain
<1>12. On("enroll", EnrollKept)'
  <2> SUFFICES ASSUME page = "enroll"  PROVE EnrollKept'
    BY FreshPages DEF On
  <2>1. EnrollKept /\ Enroll!Next
    BY FreshPages DEF FreshInv, On
  <2> QED  BY <2>1, EnrollKeptStep, EnrollAgain
<1>13. On("sessions", SessionsKept)'
  <2> SUFFICES ASSUME page = "sessions"  PROVE SessionsKept'
    BY FreshPages DEF On
  <2>1. SessionsKept /\ SessionsTab!Next
    BY FreshPages DEF FreshInv, On
  <2> QED  BY <2>1, SessionsKeptStep, SessionsAgain
<1>14. On("enrollments", EnrollmentsKept)'
  <2> SUFFICES ASSUME page = "enrollments"  PROVE EnrollmentsKept'
    BY FreshPages DEF On
  <2>1. EnrollmentsKept /\ Enrollments!Next
    BY FreshPages DEF FreshInv, On
  <2> QED  BY <2>1, EnrollmentsKeptStep, EndsStayTyped, EnrollmentsAgain DEF EnrollmentsKept
<1>15. On("schedule", CalendarKept)'
  <2> SUFFICES ASSUME page = "schedule"  PROVE CalendarKept'
    BY FreshPages DEF On
  <2>1. CalendarKept /\ Calendar!Next
    BY FreshPages DEF FreshInv, On
  <2> QED  BY <2>1, CalendarKeptStep, CalendarAgain
<1> QED  BY <1>1, <1>2, <1>3, <1>4, <1>5, <1>6, <1>7, <1>8, <1>9, <1>10, <1>11, <1>12, <1>13, <1>14,
             <1>15 DEF FreshInv

LEMMA FreshStutter ==
  ASSUME FreshInv, UNCHANGED vars  PROVE FreshInv'
<1>0. page' = page /\ UNCHANGED screen
  BY DEF vars
<1>1. On("residents", ResidentsKept)'
  BY <1>0, ResidentsStutters DEF FreshInv, On
<1>2. On("import", ImportKept)'
  BY <1>0, ImportStutters DEF FreshInv, On
<1>3. On("admins", AdminsKept)'
  BY <1>0, AdminsStutters DEF FreshInv, On
<1>4. On("users", UsersKept)'
  BY <1>0, UsersStutters DEF FreshInv, On
<1>5. On("platforms", PlatformsKept)'
  BY <1>0, PlatformsStutters DEF FreshInv, On
<1>6. On("facilities", FacilitiesKept)'
  BY <1>0, FacilitiesStutters DEF FreshInv, On
<1>7. On("features", FeaturesKept)'
  BY <1>0, FeaturesStutters DEF FreshInv, On
<1>8. On("program", ProgramKept)'
  BY <1>0, ProgramStutters DEF FreshInv, On
<1>9. On("programs", ProgramsKept)'
  BY <1>0, ProgramsStutters DEF FreshInv, On
<1>10. On("class", ClassKept)'
  BY <1>0, ClassStutters DEF FreshInv, On
<1>11. On("roster", RosterKept)'
  BY <1>0, RosterStutters DEF FreshInv, On
<1>12. On("enroll", EnrollKept)'
  BY <1>0, EnrollStutters DEF FreshInv, On
<1>13. On("sessions", SessionsKept)'
  BY <1>0, SessionsStutters DEF FreshInv, On
<1>14. On("enrollments", EnrollmentsKept)'
  BY <1>0, EnrollmentsStutters DEF FreshInv, On
<1>15. On("schedule", CalendarKept)'
  BY <1>0, CalendarStutters DEF FreshInv, On
<1> QED  BY <1>1, <1>2, <1>3, <1>4, <1>5, <1>6, <1>7, <1>8, <1>9, <1>10, <1>11, <1>12, <1>13, <1>14,
             <1>15 DEF FreshInv

\* Whatever order the requests and the fetches of a page are answered in, and whichever of them are
\* refused or lost: when nothing is on the wire and no lost answer left the page in doubt, it shows
\* what the server has (mutate after every success; one fetch of a key at a time).
THEOREM NothingStaleWhenQuiet == Spec => []QuietIsFresh
<1>1. Init => FreshInv
  BY FreshInit
<1>2. FreshInv /\ [Next]_vars => FreshInv'
  BY FreshStep, FreshStutter
<1>3. ASSUME FreshInv  PROVE QuietIsFresh
  <2>1. On("residents", ResidentsPage!QuietIsFresh)
    BY <1>3, KeptFresh DEF FreshInv, On, ResidentsKept, ResidentsPage!QuietIsFresh,
       ResidentsPage!Fresh, Fresh
  <2>2. On("import", Import!QuietIsFresh)
    BY <1>3, KeptFresh DEF FreshInv, On, ImportKept, Import!QuietIsFresh, Import!Fresh, Fresh
  <2>3. On("admins", AdminsPage!QuietIsFresh)
    BY <1>3, KeptFresh DEF FreshInv, On, AdminsKept, AdminsPage!QuietIsFresh, AdminsPage!Fresh,
       Fresh
  <2>4. On("users", Users!QuietIsFresh)
    BY <1>3 DEF FreshInv, On, UsersKept, ListKept, Users!QuietIsFresh
  <2>5. On("platforms", Platforms!QuietIsFresh)
    BY <1>3, KeptFresh DEF FreshInv, On, PlatformsKept, Platforms!QuietIsFresh, Platforms!Fresh,
       Fresh
  <2>6. On("facilities", FacilitiesPage!QuietIsFresh)
    BY <1>3, KeptFresh DEF FreshInv, On, FacilitiesKept, FacilitiesPage!QuietIsFresh,
       FacilitiesPage!Fresh, Fresh
  <2>7. On("features", Features!QuietIsFresh)
    BY <1>3 DEF FreshInv, On, FeaturesKept, FeaturesTyped, EntryKept, Features!QuietIsFresh
  <2>8. On("program", Program!QuietIsFresh)
    BY <1>3, KeptFresh DEF FreshInv, On, ProgramKept, Program!QuietIsFresh, Program!Fresh, Fresh
  <2>9. On("programs", ProgramsPage!QuietIsFresh)
    BY <1>3, KeptFresh DEF FreshInv, On, ProgramsKept, ProgramsPage!QuietIsFresh,
       ProgramsPage!Fresh, Fresh
  <2>10. On("class", Class!QuietIsFresh)
    BY <1>3, KeptFresh DEF FreshInv, On, ClassKept, Class!QuietIsFresh, Class!Fresh, Fresh
  <2>11. On("roster", Roster!QuietIsFresh)
    BY <1>3 DEF FreshInv, On, RosterKept, KeyKept, Roster!Keys, Roster!QuietIsFresh
  <2>12. On("enroll", Enroll!QuietIsFresh)
    BY <1>3, KeptFresh DEF FreshInv, On, EnrollKept, Enroll!QuietIsFresh, Enroll!Fresh, Fresh
  <2>13. On("sessions", SessionsTab!QuietIsFresh)
    BY <1>3
       DEF FreshInv, On, SessionsKept, SessionsTyped, SessionsUpToDate, ClassUpToDate,
           SessionsTab!QuietIsFresh
  <2>14. On("enrollments", Enrollments!QuietIsFresh)
    BY <1>3, KeptFresh DEF FreshInv, On, EnrollmentsKept, Enrollments!QuietIsFresh,
       Enrollments!Fresh, Fresh
  <2>15. On("schedule", Calendar!QuietIsFresh)
    BY <1>3, KeptFresh DEF FreshInv, On, CalendarKept, Calendar!QuietIsFresh, Calendar!Fresh, Fresh
  <2> QED  BY <2>1, <2>2, <2>3, <2>4, <2>5, <2>6, <2>7, <2>8, <2>9,
              <2>10, <2>11, <2>12, <2>13, <2>14, <2>15
           DEF QuietIsFresh
<1> QED  BY <1>1, <1>2, <1>3, PTL DEF Spec
=============================================================================

----------------------------- MODULE ConsoleProofs -----------------------------
(***************************************************************************)
(* What the pages of the console promise of their selections, of what they *)
(* send and of asking again, for any residents, administrators, filters,   *)
(* seats and bounds: the steps of each page keep its own invariant, and    *)
(* one page is open at a time.                                             *)
(***************************************************************************)
EXTENDS MCConsole, Sequences, FunctionTheorems, FiniteSetTheorems, TLAPS

\* Whatever is on the wire is a request or a fetch.
Fields == {"op", "ids", "nth", "status", "rows"}
WireTyped == \A q \in wire : DOMAIN q = Fields

-----------------------------------------------------------------------------
(* The residents page *)

AllIn(rows, f) == \A row \in rows : row.id \in f
ResidentsInv ==
  /\ {"filter", "selection"} \subseteq DOMAIN ui
  /\ WireTyped
  /\ ui.selection \subseteq ui.filter
  /\ shown # None => AllIn(shown, ui.filter)
  /\ \A q \in wire : q.op = "list" /\ q.status = "done" => AllIn(q.rows, ui.filter)

LEMMA ResidentsInit ==
  ASSUME ResidentsPage!Init  PROVE ResidentsInv
  BY DEF ResidentsPage!Init, ResidentsInv, WireTyped, Fields, ResidentsPage!Refetch,
     ResidentsPage!Fetch, AllIn

LEMMA ResidentsStep ==
  ASSUME ResidentsInv, ResidentsPage!Next  PROVE ResidentsInv'
<1> USE DEF ResidentsInv, WireTyped, Fields
<1>1. ASSUME NEW f, ResidentsPage!ChangeFilter(f)  PROVE ResidentsInv'
  BY <1>1
     DEF ResidentsPage!ChangeFilter, ResidentsPage!Doubtless, ResidentsPage!Unselected,
         ResidentsPage!Refetch, ResidentsPage!Fetch, AllIn
<1>2. ASSUME NEW p, ResidentsPage!TurnPage(p)  PROVE ResidentsInv'
  BY <1>2
     DEF ResidentsPage!TurnPage, ResidentsPage!Doubtless, ResidentsPage!Refetch,
         ResidentsPage!Fetch, AllIn
<1>3. ASSUME NEW r, ResidentsPage!ToggleSelect(r)  PROVE ResidentsInv'
  BY <1>3 DEF ResidentsPage!ToggleSelect, ResidentsPage!Shows, ResidentsPage!ActiveShown, AllIn
<1>4. ASSUME ResidentsPage!ClearSelection \/ ResidentsPage!OpenAdd
             \/ (\E r, d : ResidentsPage!OpenAction(r, d)) \/ (\E d : ResidentsPage!OpenBulk(d))
      PROVE  ResidentsInv'
  BY <1>4
     DEF ResidentsPage!ClearSelection, ResidentsPage!OpenAdd, ResidentsPage!OpenAction,
         ResidentsPage!OpenBulk, ResidentsPage!Shows
<1>5. CASE ResidentsPage!Close
  <2>1. CASE ui.dialog = "bulk reset" /\ ui.completed
    <3>1.
          /\ ui' = [[ui EXCEPT !.doubt = FALSE]
                    EXCEPT !.dialog = "none", !.completed = FALSE, !.selection = {}]
          /\ wire' = {q \in wire : q.op # "list"} \cup {ResidentsPage!Fetch} /\ shown' = shown
      BY <1>5, <2>1 DEF ResidentsPage!Close, ResidentsPage!Doubtless, ResidentsPage!Refetch
    <3> QED  BY <3>1 DEF ResidentsPage!Fetch
  <2>2. CASE ~(ui.dialog = "bulk reset" /\ ui.completed)
    <3>1. /\ ui' = [ui EXCEPT !.dialog = "none", !.item = None, !.password = None]
          /\ wire' = wire /\ shown' = shown
      BY <1>5, <2>2 DEF ResidentsPage!Close
    <3> QED  BY <3>1
  <2> QED  BY <2>1, <2>2
<1>6. ASSUME NEW op, NEW ids, op # "list", ResidentsPage!Send(op, ids)
             \/ ResidentsPage!SendFreely(op, ids)
      PROVE  ResidentsInv'
  BY <1>6
     DEF ResidentsPage!Send, ResidentsPage!SendFreely, ResidentsPage!Submitted,
         ResidentsPage!Request
<1>7. CASE ResidentsPage!ListServed(ResidentsPage!Rows)
  <2>1. AllIn(ResidentsPage!Rows, ui.filter)
    BY DEF AllIn, ResidentsPage!Rows, ResidentsPage!Listed
  <2>2. PICK q \in wire :
          /\ q.op = "list"
          /\ wire' = (wire \ {q}) \cup {[q EXCEPT !.status = "done", !.rows = ResidentsPage!Rows]}
          /\ UNCHANGED <<server, shown, ui>>
    BY <1>7 DEF ResidentsPage!ListServed
  <2> QED  BY <2>1, <2>2
<1>8. CASE ResidentsPage!ListArrives
  BY <1>8 DEF ResidentsPage!ListArrives
<1>9. ASSUME NEW q \in wire, ResidentsPage!Serve(q)  PROVE ResidentsInv'
  BY <1>9
     DEF ResidentsPage!Serve, ResidentsPage!Served, ResidentsPage!Writes, ResidentsPage!Becomes
<1>10. ASSUME NEW q \in wire, ResidentsPage!Succeeds(q)  PROVE ResidentsInv'
  <2>1. /\ ui'.filter = ui.filter /\ ui'.selection \in {ui.selection, {}}
        /\ DOMAIN ui' = DOMAIN ui
        /\ wire' \subseteq wire \cup {ResidentsPage!Fetch} /\ shown' = shown
    <3>1. CASE q.op \in {"bulk deactivate", "bulk delete"}
      BY <1>10, <3>1
         DEF ResidentsPage!Succeeds, ResidentsPage!AfterBulk, ResidentsPage!SettlesAndFetches,
             ResidentsPage!Closed, ResidentsPage!Doubtless, ResidentsPage!Refetch
    <3>2. CASE q.op = "bulk reset"
      BY <1>10, <3>2
         DEF ResidentsPage!Succeeds, ResidentsPage!BulkResetAnswered, ResidentsPage!Settles
    <3>3. CASE q.op = "reset"
      BY <1>10, <3>3
         DEF ResidentsPage!Succeeds, ResidentsPage!ResetAnswered, ResidentsPage!Settles
    <3>4. CASE q.op \notin {"bulk deactivate", "bulk delete", "bulk reset", "reset"}
      BY <1>10, <3>4
         DEF ResidentsPage!Succeeds, ResidentsPage!SettlesAndFetches, ResidentsPage!Closed,
             ResidentsPage!Doubtless, ResidentsPage!Refetch
    <3> QED  BY <3>1, <3>2, <3>3, <3>4
  <2> QED  BY <2>1 DEF ResidentsPage!Fetch
<1>11. ASSUME NEW q \in wire, ResidentsPage!Fails(q)  PROVE ResidentsInv'
  BY <1>11 DEF ResidentsPage!Fails
<1> HIDE DEF ResidentsInv, WireTyped, Fields
<1>12. CASE ResidentsPage!SubmitAdd \/ ResidentsPage!SubmitEdit \/ ResidentsPage!SubmitReset
            \/ ResidentsPage!SubmitDeactivate \/ ResidentsPage!SubmitDelete
            \/ ResidentsPage!SubmitTransfer \/ ResidentsPage!SubmitBulkReset
            \/ ResidentsPage!SubmitBulkDeactivate \/ ResidentsPage!SubmitBulkDelete
  BY <1>6, <1>12
     DEF ResidentsPage!SubmitAdd, ResidentsPage!SubmitEdit, ResidentsPage!SubmitReset,
         ResidentsPage!SubmitDeactivate, ResidentsPage!SubmitDelete, ResidentsPage!SubmitTransfer,
         ResidentsPage!SubmitBulkReset, ResidentsPage!SubmitBulkDeactivate,
         ResidentsPage!SubmitBulkDelete
<1> QED
  BY <1>1, <1>2, <1>3, <1>4, <1>5, <1>7, <1>8, <1>9, <1>10, <1>11, <1>12 DEF ResidentsPage!Next

-----------------------------------------------------------------------------
(* The administrators page *)

\* The selection of the administrators page is made of the rows shown, and those are of the filter.
AdminsListed ==
  /\ ui.selection \subseteq ui.filter
  /\ shown # None => shown \subseteq ui.filter
  /\ \A q \in wire : q.op = "list" /\ q.status = "done" => q.rows \subseteq ui.filter

AdminsAimed ==
  /\ ui.typed # None => "delete" \in ui.open /\ ui.typed = ui.meant
  /\ "reset" \in ui.open /\ ~ui.created => ui.item \in {None, ui.meant}
  /\ "reset" \notin ui.open /\ "edit" \in ui.open => ui.item \in {None, ui.meant}

AdminsInv ==
  /\ {"open", "item", "meant", "typed", "created", "filter", "selection"} \subseteq DOMAIN ui
  /\ WireTyped
  /\ AdminsListed
  /\ AdminsAimed

LEMMA AdminsInit ==
  ASSUME AdminsPage!Init  PROVE AdminsInv
  BY DEF AdminsPage!Init, AdminsInv, WireTyped, Fields, AdminsListed, AdminsAimed,
     AdminsPage!Fetch

LEMMA AdminsStep ==
  ASSUME AdminsInv, AdminsPage!Next
  PROVE AdminsInv' /\ AdminsPage!SendsToMeant
<1> DEFINE Good == AdminsInv' /\ AdminsPage!SendsToMeant
<1> SUFFICES Good
  OBVIOUS
<1>a. ASSUME wire' = wire  PROVE AdminsPage!SendsToMeant
  BY <1>a DEF AdminsPage!SendsToMeant
<1> USE DEF AdminsInv, WireTyped, Fields, AdminsListed, AdminsAimed
<1>1. ASSUME NEW f, AdminsPage!ChangeFilter(f)  PROVE Good
  BY <1>1
     DEF AdminsPage!ChangeFilter, AdminsPage!Doubtless, AdminsPage!Refetch, AdminsPage!Fetch,
         AdminsPage!SendsToMeant, AdminsPage!FromRow
<1>2. CASE AdminsPage!TurnPage
  BY <1>2
     DEF AdminsPage!TurnPage, AdminsPage!ChangeQuery, AdminsPage!Doubtless, AdminsPage!Refetch,
         AdminsPage!Fetch, AdminsPage!SendsToMeant, AdminsPage!FromRow
<1>3. ASSUME NEW s, s \subseteq ui.filter, AdminsPage!Select(s)  PROVE Good
  BY <1>3, <1>a DEF AdminsPage!Select, AdminsPage!Shows
<1>4. AdminsPage!Seen \subseteq ui.filter
  BY DEF AdminsPage!Seen
<1>5. ASSUME NEW a, AdminsPage!ToggleSelect(a)  PROVE Good
  <2> DEFINE s == IF a \in ui.selection THEN ui.selection \ {a} ELSE ui.selection \cup {a}
  <2>1. s \subseteq ui.filter /\ AdminsPage!Select(s)
    BY <1>4, <1>5 DEF AdminsPage!ToggleSelect
  <2> QED  BY <2>1, <1>3
<1>6. CASE AdminsPage!ToggleAll
  <2> DEFINE s == IF AdminsPage!Seen \subseteq ui.selection THEN ui.selection \ AdminsPage!Seen
            ELSE ui.selection \cup AdminsPage!Seen
  <2>1. s \subseteq ui.filter /\ AdminsPage!Select(s)
    BY <1>4, <1>6 DEF AdminsPage!ToggleAll
  <2> QED  BY <2>1, <1>3
<1>7. CASE AdminsPage!ClearSelection
  BY <1>7, <1>3 DEF AdminsPage!ClearSelection
<1>8a. CASE AdminsPage!OpenAdd
  BY <1>8a, <1>a DEF AdminsPage!OpenAdd, AdminsPage!Shows
<1>8b. CASE AdminsPage!CloseReset
  BY <1>8b, <1>a DEF AdminsPage!CloseReset, AdminsPage!Shows
<1>8c. CASE AdminsPage!CloseOther
  BY <1>8c, <1>a DEF AdminsPage!CloseOther, AdminsPage!Shows
<1>8d. CASE AdminsPage!TypeName
  BY <1>8d, <1>a DEF AdminsPage!TypeName, AdminsPage!Shows
<1>9. ASSUME NEW d, AdminsPage!OpenBulk(d)  PROVE Good
  BY <1>9, <1>a DEF AdminsPage!OpenBulk, AdminsPage!Bulk, AdminsPage!Shows
<1>10. ASSUME NEW a, AdminsPage!FromTable(a)  PROVE Good
  <2>1. CASE AdminsPage!OpenEdit(a)
    BY <1>10, <2>1, <1>a DEF AdminsPage!FromTable, AdminsPage!OpenEdit, AdminsPage!Shows
  <2>2. CASE AdminsPage!OpenReset(a)
    BY <1>10, <2>2, <1>a DEF AdminsPage!FromTable, AdminsPage!OpenReset, AdminsPage!Shows
  <2>3. CASE AdminsPage!OpenDelete(a)
    BY <1>10, <2>3, <1>a DEF AdminsPage!FromTable, AdminsPage!OpenDelete, AdminsPage!Shows
  <2> QED  BY <1>10, <2>1, <2>2, <2>3 DEF AdminsPage!FromTable
<1>11. CASE AdminsPage!CloseBulk
  <2>1. CASE ui.open = {"bulk reset"} /\ ui.completed
    <3>1.
          /\ ui' = [[ui EXCEPT !.doubt = FALSE]
                    EXCEPT !.open = {}, !.completed = FALSE, !.selection = {}]
          /\ wire' = {q \in wire : q.op # "list"} \cup {AdminsPage!Fetch} /\ shown' = shown
      <4> HIDE DEF AdminsInv, WireTyped, Fields, AdminsListed, AdminsAimed
      <4>1. ui' = [AdminsPage!Doubtless(ui)
                EXCEPT !.open = {}, !.completed = FALSE, !.selection = {}]
        BY <1>11, <2>1, Zenon DEF AdminsPage!CloseBulk
      <4>2. wire' = AdminsPage!Refetch(wire) /\ shown' = shown
        BY <1>11, <2>1, Zenon DEF AdminsPage!CloseBulk
      <4> QED  BY <4>1, <4>2 DEF AdminsPage!Doubtless, AdminsPage!Refetch
    <3>2. AdminsAimed'
      BY <3>1, <2>1
    <3>3. AdminsListed' /\ WireTyped'
      BY <3>1 DEF AdminsPage!Fetch
    <3>4. AdminsPage!SendsToMeant
      BY <3>1 DEF AdminsPage!Fetch, AdminsPage!SendsToMeant, AdminsPage!FromRow
    <3> QED  BY <3>1, <3>2, <3>3, <3>4
  <2>2. CASE ~(ui.open = {"bulk reset"} /\ ui.completed)
    <3>1. /\ ui' = [ui EXCEPT !.open = {}]
          /\ wire' = wire /\ shown' = shown /\ ui.open \subseteq AdminsPage!Bulk
      BY <1>11, <2>2 DEF AdminsPage!CloseBulk
    <3> QED  BY <3>1, <1>a DEF AdminsPage!Bulk
  <2> QED  BY <2>1, <2>2
<1>12. ASSUME NEW op, NEW ids, op # "list", op \in AdminsPage!FromRow => ids = {ui.meant},
              AdminsPage!Send(op, ids) \/ AdminsPage!SendFreely(op, ids)
       PROVE Good
  BY <1>12
     DEF AdminsPage!Send, AdminsPage!SendFreely, AdminsPage!Submitted, AdminsPage!Request,
         AdminsPage!SendsToMeant, AdminsPage!FromRow
<1>13. CASE AdminsPage!SubmitEdit
  BY <1>13, <1>12 DEF AdminsPage!SubmitEdit
<1>14. CASE AdminsPage!SubmitDelete
  BY <1>14, <1>12 DEF AdminsPage!SubmitDelete, AdminsPage!Matches
<1>15. CASE AdminsPage!SubmitReset
  BY <1>15, <1>12 DEF AdminsPage!SubmitReset
<1>16. ASSUME NEW a, AdminsPage!SubmitAdd(a)  PROVE Good
  BY <1>16, <1>12 DEF AdminsPage!SubmitAdd, AdminsPage!FromRow
<1>17. ASSUME NEW d, AdminsPage!SubmitBulk(d)  PROVE Good
  BY <1>17, <1>12 DEF AdminsPage!SubmitBulk, AdminsPage!Bulk, AdminsPage!FromRow
<1>18. CASE AdminsPage!ListServed(AdminsPage!Rows)
  <2>1. PICK q \in wire :
          /\ q.op = "list"
          /\ wire' = (wire \ {q}) \cup {[q EXCEPT !.status = "done", !.rows = AdminsPage!Rows]}
          /\ UNCHANGED <<server, shown, ui>>
    BY <1>18 DEF AdminsPage!ListServed
  <2> QED  BY <2>1 DEF AdminsPage!Rows, AdminsPage!SendsToMeant
<1>19. CASE AdminsPage!ListArrives
  BY <1>19 DEF AdminsPage!ListArrives, AdminsPage!SendsToMeant
<1>20. ASSUME NEW q \in wire, AdminsPage!Serve(q)  PROVE Good
  <2>1. PICK rows : AdminsPage!Served(q, rows)
    BY <1>20 DEF AdminsPage!Serve
  <2> QED  BY <2>1
              DEF AdminsPage!Served, AdminsPage!Writes, AdminsPage!Becomes, AdminsPage!SendsToMeant
<1>21. ASSUME NEW q \in wire, AdminsPage!Fails(q)  PROVE Good
  BY <1>21 DEF AdminsPage!Fails, AdminsPage!SendsToMeant
<1>22. ASSUME NEW q \in wire, AdminsPage!Succeeds(q)  PROVE Good
  <2> DEFINE
    Kept == ui'.meant = ui.meant /\ ui'.typed = ui.typed
    Created == ui'.open = (ui.open \ {"add"}) \cup {"reset"} /\ ui'.created = TRUE /\ Kept
    Gone == ui'.open = ui.open \ {"bulk delete"} /\ ui'.item = ui.item /\ Kept
              /\ ui'.created = ui.created
    Same == ui'.open = ui.open /\ ui'.item \in {ui.item, None} /\ Kept /\ ui'.created = ui.created
    Left == ui'.open = ui.open \ {q.op} /\ ui'.item = None /\ ui'.typed = None
  <2>1. /\ wire' \subseteq wire \cup {AdminsPage!Fetch} /\ shown' = shown
        /\ DOMAIN ui' = DOMAIN ui /\ ui'.filter = ui.filter
        /\ ui'.selection \in {ui.selection, {}}
        /\ Created \/ Gone \/ Same \/ Left
    <3> USE DEF AdminsPage!Answered, AdminsPage!Writes
    <3>1. CASE q.op = "add"
      BY <1>22, <3>1
         DEF AdminsPage!Succeeds, AdminsPage!AddAnswered, AdminsPage!SettlesAndFetches,
             AdminsPage!Doubtless, AdminsPage!Refetch
    <3>2. CASE q.op = "reset"
      BY <1>22, <3>2 DEF AdminsPage!Succeeds, AdminsPage!Settles
    <3>3. CASE q.op = "bulk reset"
      BY <1>22, <3>3 DEF AdminsPage!Succeeds, AdminsPage!Settles
    <3>4. CASE q.op = "bulk delete"
      BY <1>22, <3>4
         DEF AdminsPage!Succeeds, AdminsPage!SettlesAndFetches, AdminsPage!Doubtless,
             AdminsPage!Refetch
    <3>5. CASE q.op \notin {"add", "reset", "bulk reset", "bulk delete"}
      <4>1. CASE q.op \in ui.open
        BY <1>22, <3>5, <4>1
           DEF AdminsPage!Succeeds, AdminsPage!SettlesAndFetches, AdminsPage!Doubtless,
               AdminsPage!Refetch, AdminsPage!Left
      <4>2. CASE q.op \notin ui.open
        BY <1>22, <3>5, <4>2
           DEF AdminsPage!Succeeds, AdminsPage!SettlesAndFetches, AdminsPage!Doubtless,
               AdminsPage!Refetch, AdminsPage!Left
      <4> QED  BY <4>1, <4>2
    <3> QED  BY <3>1, <3>2, <3>3, <3>4, <3>5
  <2>2. AdminsAimed'
    <3>1. CASE Created
      BY <3>1
    <3>2. CASE Gone
      BY <3>2
    <3>3. CASE Same
      BY <3>3
    <3>4. CASE Left
      BY <3>4
    <3> HIDE DEF Created, Gone, Same, Left
    <3> QED  BY <2>1, <3>1, <3>2, <3>3, <3>4
  <2> HIDE DEF Created, Gone, Same, Left
  <2>3. /\ DOMAIN AdminsPage!Fetch = Fields /\ AdminsPage!Fetch.op = "list"
        /\ AdminsPage!Fetch.status = "sent"
    BY DEF AdminsPage!Fetch
  <2>5. AdminsListed' /\ WireTyped'
    BY <2>1, <2>3
  <2>4. AdminsPage!SendsToMeant
    BY <2>1, <2>3 DEF AdminsPage!SendsToMeant, AdminsPage!FromRow
  <2> QED  BY <2>1, <2>2, <2>5, <2>4
<1> QED
  <2> HIDE DEF Good, AdminsInv, WireTyped, Fields, AdminsListed, AdminsAimed
  <2> QED
    BY <1>1, <1>2, <1>5, <1>6, <1>7, <1>8a, <1>8b, <1>8c, <1>8d, <1>9, <1>10, <1>11, <1>13, <1>14,
       <1>15, <1>16, <1>17, <1>18, <1>19, <1>20, <1>21, <1>22
       DEF AdminsPage!Next

-----------------------------------------------------------------------------
(* The programs page *)

\* Polling that has used its attempts up has said so.
PollCounts(u) ==
  /\ DOMAIN u
            = {"form", "filled", "filtered", "page", "count", "armed", "exhausted", "busy", "doubt"}
  /\ u.count \in Nat
  /\ u.count >= MaxAttempts => u.exhausted

ProgramsInv ==
  /\ server.loading \in BOOLEAN
  /\ WireTyped
  /\ \A q \in wire : q.op = "list" /\ q.status = "done" => q.rows.loading \in BOOLEAN
  /\ PollCounts(ui)
  /\ ProgramsPage!NeverStuckSyncing

LEMMA ProgramsInit ==
  ASSUME ProgramsPage!Init  PROVE ProgramsInv
<1>1. MaxAttempts \in Nat /\ MaxAttempts > 0
  BY ConsoleAssumption DEF ProgramsPage!ProgramsAssumption
<1> QED
  BY <1>1
     DEF ProgramsPage!Init, ProgramsInv, PollCounts, WireTyped, Fields,
         ProgramsPage!NeverStuckSyncing, ProgramsPage!Loading, ProgramsPage!Fetch

LEMMA ProgramsStep ==
  ASSUME ProgramsInv, ProgramsPage!Next  PROVE ProgramsInv'
<1>0. MaxAttempts \in Nat /\ MaxAttempts > 0
  BY ConsoleAssumption DEF ProgramsPage!ProgramsAssumption
<1> USE DEF ProgramsInv, WireTyped, Fields, PollCounts, ProgramsPage!NeverStuckSyncing,
      ProgramsPage!Loading
<1>1. CASE ProgramsPage!ToggleFilter \/ ProgramsPage!ToggleForm \/ ProgramsPage!Cancel
  BY <1>1
     DEF ProgramsPage!ToggleFilter, ProgramsPage!ToggleForm, ProgramsPage!Cancel,
         ProgramsPage!Shows
<1>2. ASSUME NEW p, ProgramsPage!TurnPage(p)  PROVE ProgramsInv'
  BY <1>2 DEF ProgramsPage!TurnPage, ProgramsPage!Shows
<1>3. ASSUME NEW f, ProgramsPage!Fill(f) \/ ProgramsPage!Clear(f)  PROVE ProgramsInv'
  BY <1>3 DEF ProgramsPage!Fill, ProgramsPage!Clear, ProgramsPage!Shows
<1>4. CASE ProgramsPage!Create
  BY <1>4 DEF ProgramsPage!Create, ProgramsPage!Send, ProgramsPage!Submitted, ProgramsPage!Request
<1>5. ASSUME NEW loads \in BOOLEAN, ProgramsPage!Canvas(loads)  PROVE ProgramsInv'
  BY <1>5 DEF ProgramsPage!Canvas
<1>6. CASE ProgramsPage!Tick
  <2>1. /\ ui'.count = ui.count + 1
        /\ ui'.armed = ~(ui.count + 1 >= MaxAttempts)
        /\ ui'.exhausted = (ui.exhausted \/ ui.count + 1 >= MaxAttempts)
        /\ DOMAIN ui' = DOMAIN ui /\ shown' = shown /\ server' = server
        /\ wire' = ProgramsPage!Refetch(wire)
    BY <1>6 DEF ProgramsPage!Tick, ProgramsPage!Doubtless
  <2> DEFINE last == ui.count + 1 >= MaxAttempts
  <2>2. (~last => ui'.armed) /\ (last => ui'.exhausted)
    BY <2>1
  <2>3. ui.count + 1 \in Nat
    OBVIOUS
  <2>4. PollCounts(ui')
    BY <2>1, <2>2, <2>3
  <2>5. ProgramsPage!NeverStuckSyncing'
    <3> HIDE DEF last
    <3> QED  BY <2>2
  <2> QED  BY <2>1, <2>4, <2>5 DEF ProgramsPage!Refetch, ProgramsPage!Fetch
<1>7. CASE ProgramsPage!Arrives
  <2>1. PICK q \in wire :
          /\ q.op = "list" /\ q.status = "done" /\ wire' = wire \ {q} /\ shown' = q.rows
          /\ UNCHANGED server
          /\ ui' = IF q.rows.loading # ProgramsPage!Loading
                     THEN ProgramsPage!Poll(ui, q.rows.loading)
                     ELSE ui
    BY <1>7 DEF ProgramsPage!Arrives, ProgramsPage!Pending
  <2> DEFINE loads == q.rows.loading
  <2>2. loads \in BOOLEAN
    BY <2>1
  <2>3. PollCounts(ui') /\ (loads => ui'.armed \/ ui'.exhausted)
    <3>1. CASE loads = ProgramsPage!Loading
      BY <2>1, <3>1
    <3>2. CASE loads # ProgramsPage!Loading /\ ~loads
      BY <2>1, <3>2, <1>0 DEF ProgramsPage!Poll
    <3>3. CASE loads # ProgramsPage!Loading /\ loads /\ ui.count >= MaxAttempts
      BY <2>1, <3>3, <1>0 DEF ProgramsPage!Poll
    <3>4. CASE loads # ProgramsPage!Loading /\ loads /\ ~(ui.count >= MaxAttempts)
      BY <2>1, <3>4, <1>0 DEF ProgramsPage!Poll
    <3> QED  BY <3>1, <3>2, <3>3, <3>4
  <2> QED  BY <2>1, <2>3
<1>8. CASE ProgramsPage!Reload
  BY <1>8, <1>0 DEF ProgramsPage!Reload, ProgramsPage!Fetch
<1>9. CASE ProgramsPage!ListServed(ProgramsPage!Rows)
  <2>1. PICK q \in wire :
          /\ q.op = "list"
          /\ wire' = (wire \ {q}) \cup {[q EXCEPT !.status = "done", !.rows = server]}
          /\ UNCHANGED <<server, shown, ui>>
    BY <1>9 DEF ProgramsPage!ListServed, ProgramsPage!Rows
  <2> QED  BY <2>1
<1>10. CASE ProgramsPage!ListLost
  BY <1>10 DEF ProgramsPage!ListLost, ProgramsPage!Pending
<1>11. ASSUME NEW q \in wire, ProgramsPage!ServeCreate(q)  PROVE ProgramsInv'
  BY <1>11
     DEF ProgramsPage!ServeCreate, ProgramsPage!Served, ProgramsPage!Writes, ProgramsPage!Becomes
<1>12. ASSUME NEW q \in wire, ProgramsPage!Created(q)  PROVE ProgramsInv'
  BY <1>12
     DEF ProgramsPage!Created, ProgramsPage!SettlesAndFetches, ProgramsPage!Doubtless,
         ProgramsPage!Refetch, ProgramsPage!Fetch
<1>13. ASSUME NEW q \in wire, ProgramsPage!Fails(q)  PROVE ProgramsInv'
  BY <1>13 DEF ProgramsPage!Fails
<1> QED
  <2> HIDE DEF ProgramsInv
  <2> QED
    BY <1>1, <1>2, <1>3, <1>4, <1>5, <1>6, <1>7, <1>8, <1>9, <1>10, <1>11, <1>12, <1>13
       DEF ProgramsPage!Next

-----------------------------------------------------------------------------
(* The roster of a class *)

\* Only a graduation puts a graduation on the wire, and it takes those on the roster.
LEMMA RosterStep ==
  ASSUME WireTyped, Roster!Next  PROVE WireTyped' /\ Roster!SendsOnRoster
<1> DEFINE Good == WireTyped' /\ Roster!SendsOnRoster
<1> SUFFICES Good
  OBVIOUS
<1> USE DEF WireTyped, Fields, Roster!SendsOnRoster, Roster!Pending, Roster!Writes
<1>1. ASSUME wire' \subseteq wire  PROVE Good
  BY <1>1
<1>2. ASSUME NEW u, Roster!Shows(u)  PROVE Good
  BY <1>2, <1>1 DEF Roster!Shows
<1>3. CASE Roster!ClearSelection \/ Roster!Close
  BY <1>3, <1>2 DEF Roster!ClearSelection, Roster!Close
<1>4. ASSUME NEW p, Roster!ToggleSelect(p)  PROVE Good
  BY <1>4, <1>2 DEF Roster!ToggleSelect
<1>5. ASSUME NEW found, Roster!ToggleAll(found)  PROVE Good
  BY <1>5, <1>2 DEF Roster!ToggleAll
<1>6. ASSUME NEW d, NEW p, Roster!OpenFor(d, p)  PROVE Good
  BY <1>6, <1>2 DEF Roster!OpenFor
<1>7. ASSUME NEW d, Roster!Open(d)  PROVE Good
  BY <1>7, <1>2 DEF Roster!Open
<1>8. CASE Roster!Graduate
  BY <1>8 DEF Roster!Graduate, Roster!Graduates, Roster!Send, Roster!Request
<1>a. ASSUME NEW op, NEW ids, op \notin {"graduate", "list"},
             wire' = wire \cup {Roster!Request(op, ids)}
      PROVE Good
  BY <1>a DEF Roster!Request
<1>9. CASE Roster!ChangeStatus \/ Roster!ChangeDate
  BY <1>9, <1>a DEF Roster!ChangeStatus, Roster!ChangeDate, Roster!SendAndClose
<1>10. CASE Roster!Unenroll \/ Roster!DeleteClass
  BY <1>10, <1>a DEF Roster!Unenroll, Roster!DeleteClass, Roster!Send
<1>11. ASSUME NEW s, Roster!ChangeClass(s)  PROVE Good
  BY <1>11 DEF Roster!ChangeClass, Roster!Send, Roster!Request
<1>12. CASE Roster!FetchServed
  BY <1>12 DEF Roster!FetchServed
<1>13. CASE Roster!FetchArrives
  BY <1>13, <1>1 DEF Roster!FetchArrives
<1>14. CASE Roster!ListLost
  BY <1>14, <1>1 DEF Roster!ListLost
<1>15. ASSUME NEW q \in wire, Roster!Serve(q)  PROVE Good
  <2>1. PICK rows : Roster!Served(q, rows)
    BY <1>15 DEF Roster!Serve
  <2> QED  BY <2>1 DEF Roster!Served, Roster!Becomes
<1>16. ASSUME NEW q \in wire, Roster!Succeeds(q)  PROVE Good
  <2>1. \A k : DOMAIN Roster!FetchOf(k) = Fields /\ Roster!FetchOf(k).op = "list"
    BY DEF Roster!FetchOf, Roster!Fetch
  <2>2. ASSUME NEW u, NEW keys, Roster!SettlesAnd(q, u, keys)  PROVE Good
    BY <2>1, <2>2 DEF Roster!SettlesAnd, Roster!RefetchOf
  <2>3. ASSUME NEW u, Roster!Settles(q, u)  PROVE Good
    BY <2>3, <1>1 DEF Roster!Settles
  <2> QED
    <3> HIDE DEF Good, WireTyped, Fields, Roster!SendsOnRoster
    <3> QED  BY <1>16, <2>2, <2>3 DEF Roster!Succeeds
<1>17. ASSUME NEW q \in wire, Roster!FailsHere(q)  PROVE Good
  BY <1>17, <1>1 DEF Roster!FailsHere
<1> QED
  <2> HIDE DEF Good, WireTyped
  <2> QED
    BY <1>3, <1>4, <1>5, <1>6, <1>7, <1>8, <1>9, <1>10, <1>11, <1>12, <1>13, <1>14, <1>15, <1>16,
       <1>17
       DEF Roster!Next

-----------------------------------------------------------------------------
(* The form of a program *)

\* While it is open the form holds every facility where the program shown has classes.
ProgramFormInv ==
  /\ {"edits", "left", "warned", "filled", "places", "busy", "doubt"} \subseteq DOMAIN ui
  /\ WireTyped
  /\ ~ui.left /\ shown # None => shown.places \cap shown.classes \subseteq ui.places

LEMMA ProgramFormInit ==
  ASSUME ProgramForms!Init  PROVE ProgramFormInv
  BY DEF ProgramForms!Init, ProgramFormInv, WireTyped, Fields, ProgramForms!Fetch,
     ProgramForms!Blank, ProgramForms!Defaults, ProgramForms!Closed

LEMMA ProgramFormStep ==
  ASSUME ProgramFormInv, ProgramForms!Next
  PROVE  ProgramFormInv' /\ ProgramForms!KeepsClasses
<1> DEFINE Good == ProgramFormInv' /\ ProgramForms!KeepsClasses
<1> SUFFICES Good
  OBVIOUS
<1> USE DEF ProgramFormInv, WireTyped, Fields, ProgramForms!KeepsClasses, ProgramForms!Pending,
            ProgramForms!Writes
<1>1. ASSUME NEW f, ProgramForms!Fill(f) \/ ProgramForms!Clear(f)  PROVE Good
  BY <1>1 DEF ProgramForms!Fill, ProgramForms!Clear, ProgramForms!Shows
<1>2. ASSUME NEW f, ProgramForms!Check(f)  PROVE Good
  BY <1>2 DEF ProgramForms!Check, ProgramForms!Shows
<1>3. ASSUME NEW f, ProgramForms!Uncheck(f)  PROVE Good
  BY <1>3 DEF ProgramForms!Uncheck, ProgramForms!Shows, ProgramForms!InUse
<1>4. CASE ProgramForms!CloseWarning \/ ProgramForms!Cancel
  BY <1>4 DEF ProgramForms!CloseWarning, ProgramForms!Cancel, ProgramForms!Leave,
     ProgramForms!Shows
<1>5. CASE ProgramForms!Save
  BY <1>5 DEF ProgramForms!Save, ProgramForms!Send, ProgramForms!Submitted,
     ProgramForms!Request, ProgramForms!Open
<1>6. CASE ProgramForms!Elsewhere
  BY <1>6 DEF ProgramForms!Elsewhere
<1>7. CASE ProgramForms!ListServed(ProgramForms!Rows)
  BY <1>7 DEF ProgramForms!ListServed
<1>8. CASE ProgramForms!Arrives
  BY <1>8 DEF ProgramForms!Arrives, ProgramForms!Reset, ProgramForms!Defaults
<1>9. CASE ProgramForms!ListLost
  BY <1>9 DEF ProgramForms!ListLost
<1>10. ASSUME NEW q \in wire, ProgramForms!ServeCreate(q) \/ ProgramForms!ServeEdit(q)  PROVE Good
  <2>1. PICK rows : ProgramForms!Served(q, rows)
    BY <1>10 DEF ProgramForms!ServeCreate, ProgramForms!ServeEdit
  <2> QED  BY <2>1 DEF ProgramForms!Served, ProgramForms!Becomes
<1>11. ASSUME NEW q \in wire, ProgramForms!Saved(q)  PROVE Good
  BY <1>11 DEF ProgramForms!Saved, ProgramForms!Settles, ProgramForms!Leave
<1>12. ASSUME NEW q \in wire, ProgramForms!Fails(q)  PROVE Good
  BY <1>12 DEF ProgramForms!Fails
<1> QED
  <2> HIDE DEF Good, ProgramFormInv
  <2> QED
    BY <1>1, <1>2, <1>3, <1>4, <1>5, <1>6, <1>7, <1>8, <1>9, <1>10, <1>11, <1>12
       DEF ProgramForms!Next

-----------------------------------------------------------------------------
(* The enrollments of a class *)

\* A dialog that is open names those who are selected, or nobody is.
EnrollmentsInv ==
  /\ {"dialog", "who", "status", "selected"} \subseteq DOMAIN ui
  /\ WireTyped
  /\ ui.dialog # "none" => ui.selected \in {{}, ui.who}
  /\ Enrollments!SentWereNamed

LEMMA EnrollmentsInit ==
  ASSUME Enrollments!Init  PROVE EnrollmentsInv
  BY DEF Enrollments!Init, Enrollments!Idle, EnrollmentsInv, WireTyped, Enrollments!SentWereNamed,
     Enrollments!Writes

LEMMA EnrollmentsStep ==
  ASSUME EnrollmentsInv, Enrollments!Next  PROVE EnrollmentsInv'
<1> USE DEF EnrollmentsInv, WireTyped, Fields, Enrollments!SentWereNamed, Enrollments!Writes
<1>1. ASSUME NEW v, Enrollments!ChangeView(v)  PROVE EnrollmentsInv'
  BY <1>1
     DEF Enrollments!ChangeView, Enrollments!Calm, Enrollments!Doubtless, Enrollments!Refetch,
         Enrollments!Fetch
<1>2. ASSUME NEW p, Enrollments!Toggle(p)  PROVE EnrollmentsInv'
  BY <1>2 DEF Enrollments!Toggle, Enrollments!Enrolling, Enrollments!Calm, Enrollments!Shows
<1>3. CASE Enrollments!ToggleAll
  BY <1>3 DEF Enrollments!ToggleAll, Enrollments!Enrolling, Enrollments!Calm, Enrollments!Shows
<1>4. ASSUME NEW p, NEW s, Enrollments!ChangeOne(p, s)  PROVE EnrollmentsInv'
  BY <1>4 DEF Enrollments!ChangeOne, Enrollments!Ask, Enrollments!Alone, Enrollments!Shows
<1>5. CASE Enrollments!Graduate
  BY <1>5 DEF Enrollments!Graduate, Enrollments!Ask, Enrollments!Shows
<1>6. CASE Enrollments!Close
  BY <1>6 DEF Enrollments!Close, Enrollments!Shows
<1>7. CASE Enrollments!Confirm
  <2>1. Enrollments!Sent = ui.who
    BY <1>7 DEF Enrollments!Confirm, Enrollments!Calm, Enrollments!Sent
  <2> DEFINE new == [Enrollments!Request(ui.status, Enrollments!Sent) EXCEPT !.rows = ui.who]
  <2>2. DOMAIN new = Fields /\ new.ids = ui.who /\ new.rows = ui.who
    BY <2>1 DEF Enrollments!Request
  <2> HIDE DEF new
  <2>3. wire' = wire \cup {new} /\ DOMAIN ui' = DOMAIN ui
    BY <1>7 DEF Enrollments!Confirm, new
  <2>4. ui'.dialog # "none" => ui'.dialog = ui.dialog
    BY <1>7 DEF Enrollments!Confirm
  <2>5. ui'.selected = ui.selected /\ ui'.who = ui.who
    BY <1>7 DEF Enrollments!Confirm
  <2> QED  BY <2>2, <2>3, <2>4, <2>5
<1>8. ASSUME NEW rows, Enrollments!ListServed(rows)  PROVE EnrollmentsInv'
  BY <1>8 DEF Enrollments!ListServed
<1>9. CASE Enrollments!ListArrives
  BY <1>9 DEF Enrollments!ListArrives
<1>10. ASSUME NEW q \in wire, Enrollments!Serve(q)  PROVE EnrollmentsInv'
  BY <1>10 DEF Enrollments!Serve, Enrollments!Served, Enrollments!Becomes
<1>11. ASSUME NEW q \in wire, Enrollments!Succeeds(q)  PROVE EnrollmentsInv'
  BY <1>11
     DEF Enrollments!Succeeds, Enrollments!SettlesAndFetches, Enrollments!Closed,
         Enrollments!Doubtless, Enrollments!Refetch, Enrollments!Fetch
<1>12. ASSUME NEW q \in wire, Enrollments!FailsHere(q)  PROVE EnrollmentsInv'
  BY <1>12 DEF Enrollments!FailsHere, Enrollments!Closed
<1> QED
  <2> HIDE DEF EnrollmentsInv
  <2> QED
    BY <1>1, <1>2, <1>3, <1>4, <1>5, <1>6, <1>7, <1>8, <1>9, <1>10, <1>11, <1>12
       DEF Enrollments!Next

-----------------------------------------------------------------------------
(* The page that enrolls *)

\* Never more residents are selected than there were seats, nor sent.
AddingInv ==
  /\ {"selected", "left", "dialog", "full"} \subseteq DOMAIN ui
  /\ WireTyped
  /\ shown # None => shown \subseteq AddPeople
  /\ \A q \in wire : q.op = "list" /\ q.status = "done" => q.rows \subseteq AddPeople
  /\ ui.selected \in Seq(AddPeople) /\ Len(ui.selected) <= AddCapacity
  /\ Adding!SentFit

LEMMA SameSets ==
  ASSUME NEW S
  PROVE  Adding!Cardinality(S) = Cardinality(S) /\ (Adding!IsFiniteSet(S) <=> IsFiniteSet(S))
<1>1. Adding!Cardinality(S) = Cardinality(S)
  BY Zenon DEF Adding!Cardinality, Cardinality
<1>2. Adding!IsFiniteSet(S) <=> IsFiniteSet(S)
  BY Zenon DEF Adding!IsFiniteSet, IsFiniteSet
<1> QED  BY <1>1, <1>2

\* A sequence has no more elements than it is long.
LEMMA FewElements ==
  ASSUME NEW S, NEW s \in Seq(S)
  PROVE  /\ Adding!Cardinality(Adding!ToSet(s)) <= Len(s)
         /\ Adding!Cardinality(Adding!ToSet(s)) \in Nat
<1>1. IsFiniteSet(1..Len(s)) /\ Cardinality(1..Len(s)) = Len(s)
  <2>1. 1 \in Int /\ Len(s) \in Int /\ Len(s) \in Nat
    OBVIOUS
  <2>2. IsFiniteSet(1..Len(s))
           /\ Cardinality(1..Len(s)) = IF 1 > Len(s) THEN 0 ELSE Len(s) - 1 + 1
    BY <2>1, FS_Interval, Zenon
  <2> QED  BY <2>1, <2>2
<1>2. s \in Surjection(1..Len(s), Adding!ToSet(s))
  BY DEF Surjection, Adding!ToSet
<1> QED  BY <1>1, <1>2, FS_Surjection, FS_CardinalityType, SameSets

LEMMA Fits ==
  ASSUME NEW s \in Seq(AddPeople)
  PROVE  Adding!Fitting(s) \in Seq(AddPeople) /\ Len(Adding!Fitting(s)) <= AddCapacity
<1>1. AddCapacity \in Nat
  BY ConsoleAssumption DEF Adding!SeatsAssumption
<1>2. Adding!Fitting(s) = SubSeq(s, 1, IF Len(s) > AddCapacity THEN AddCapacity ELSE Len(s))
  BY DEF Adding!Fitting
<1>3. CASE Len(s) > AddCapacity
  BY <1>1, <1>2, <1>3
<1>4. CASE ~(Len(s) > AddCapacity)
  BY <1>1, <1>2, <1>4
<1> QED  BY <1>3, <1>4

LEMMA SelectFits ==
  ASSUME AddingInv, NEW s \in Seq(AddPeople), Adding!Select(s)  PROVE AddingInv'
<1>1. Adding!Fitting(s) \in Seq(AddPeople) /\ Len(Adding!Fitting(s)) <= AddCapacity
  BY Fits
<1>2. /\ DOMAIN ui' = DOMAIN ui /\ ui'.selected = Adding!Fitting(s)
      /\ wire' = wire /\ shown' = shown
  BY DEF Adding!Select, Adding!Shows, AddingInv
<1>3. WireTyped' /\ Adding!SentFit'
  BY <1>2 DEF AddingInv, WireTyped, Adding!SentFit, Adding!Writes
<1> QED  BY <1>1, <1>2, <1>3 DEF AddingInv

\* Whoever is selected fits, so that one more request does.
LEMMA SendsFit ==
  ASSUME AddingInv, NEW op, op # "list", NEW new, DOMAIN new = Fields, new.op = op,
         new.ids = Adding!Selected, wire' = wire \cup {new},
         DOMAIN ui' = DOMAIN ui, ui'.selected = ui.selected, shown' = shown
  PROVE  AddingInv'
<1>1. AddCapacity \in Nat
  BY ConsoleAssumption DEF Adding!SeatsAssumption
<1>2. Adding!Cardinality(Adding!Selected) <= AddCapacity
  <2>1. /\ Adding!Cardinality(Adding!ToSet(ui.selected)) <= Len(ui.selected)
        /\ Adding!Cardinality(Adding!ToSet(ui.selected)) \in Nat
    BY FewElements DEF AddingInv
  <2>2. Len(ui.selected) \in Nat /\ Len(ui.selected) <= AddCapacity
    BY DEF AddingInv
  <2> QED  BY <1>1, <2>1, <2>2 DEF Adding!Selected
<1>3. Adding!Cardinality(new.ids) <= AddCapacity
  BY <1>2
<1>4. Adding!SentFit'
  BY <1>3 DEF AddingInv, Adding!SentFit, Adding!Writes
<1> QED  BY <1>4 DEF AddingInv, WireTyped

LEMMA AddingInit ==
  ASSUME Adding!Init  PROVE AddingInv
<1>1. AddCapacity \in Nat
  BY ConsoleAssumption DEF Adding!SeatsAssumption
<1> QED
  BY <1>1
     DEF Adding!Init, Adding!Idle, AddingInv, WireTyped, Fields, Adding!SentFit, Adding!Writes,
         Adding!Fetch

LEMMA AddingStep ==
  ASSUME AddingInv, Adding!Next  PROVE AddingInv'
<1>0. AddCapacity \in Nat /\ IsFiniteSet(AddPeople)
  BY ConsoleAssumption, SameSets DEF Adding!SeatsAssumption
<1>s. Adding!Seen \subseteq AddPeople
  BY DEF Adding!Seen, AddingInv
<1>1. ASSUME NEW p, Adding!Toggle(p)  PROVE AddingInv'
  <2>1. p \in AddPeople /\ ui.selected \in Seq(AddPeople)
    BY <1>1, <1>s DEF Adding!Toggle, AddingInv
  <2>2. CASE Adding!Select(Append(ui.selected, p))
    <3>1. Append(ui.selected, p) \in Seq(AddPeople)
      BY <2>1
    <3> QED  BY <2>2, <3>1, SelectFits
  <2>3. ASSUME NEW i \in DOMAIN ui.selected, Adding!Select(Adding!RemoveAt(ui.selected, i))
        PROVE  AddingInv'
    <3>1. Adding!RemoveAt(ui.selected, i)
              = SubSeq(ui.selected, 1, i - 1) \o SubSeq(ui.selected, i + 1, Len(ui.selected))
      BY DEF Adding!RemoveAt
    <3>2. Adding!RemoveAt(ui.selected, i) \in Seq(AddPeople)
      BY <2>1, <3>1
    <3> QED  BY <2>3, <3>2, SelectFits
  <2> QED  BY <1>1, <2>2, <2>3 DEF Adding!Toggle
<1>2. CASE Adding!ToggleAll
  <2>1. PICK s \in Adding!SetToSeqs(Adding!Seen) :
          Adding!Select(IF Len(ui.selected) = Adding!Cardinality(Adding!Seen) THEN <<>> ELSE s)
    BY <1>2 DEF Adding!ToggleAll
  <2>2. Adding!Cardinality(Adding!Seen) \in Nat
    BY <1>0, <1>s, FS_Subset, FS_CardinalityType, SameSets
  <2>3. s \in [1..Adding!Cardinality(Adding!Seen) -> Adding!Seen]
    BY <2>1 DEF Adding!SetToSeqs
  <2>4. s \in Seq(AddPeople) /\ <<>> \in Seq(AddPeople)
    BY <2>2, <2>3, <1>s
  <2> QED  BY <2>1, <2>4, SelectFits
<1>3. CASE Adding!Submit
  <2> DEFINE new == Adding!Request("enroll", Adding!Selected)
  <2>1. DOMAIN new = Fields /\ new.op = "enroll" /\ new.ids = Adding!Selected
    BY DEF Adding!Request, Fields
  <2>2. wire' = wire \cup {new} /\ ui' = ui /\ shown' = shown
    BY <1>3 DEF Adding!Submit, Adding!SendFreely
  <2> HIDE DEF new
  <2> QED  BY <2>1, <2>2, SendsFit
<1>4. CASE Adding!EnrollAnyway
  <2> DEFINE new == [Adding!Request("confirm", Adding!Selected) EXCEPT !.rows = ui.dialog]
  <2>1. DOMAIN new = Fields /\ new.op = "confirm" /\ new.ids = Adding!Selected
    BY DEF Adding!Request, Fields
  <2>2. /\ wire' = wire \cup {new} /\ shown' = shown
        /\ DOMAIN ui' = DOMAIN ui /\ ui'.selected = ui.selected
    BY <1>4 DEF Adding!EnrollAnyway, AddingInv
  <2> HIDE DEF new
  <2> QED  BY <2>1, <2>2, SendsFit
<1> USE DEF AddingInv, WireTyped, Fields, Adding!SentFit, Adding!Writes
<1>5. CASE Adding!Close \/ Adding!Cancel
  BY <1>5 DEF Adding!Close, Adding!Cancel, Adding!Shows
<1>6. CASE Adding!ListServed(Adding!Rows)
  <2>1. PICK q \in wire :
          /\ q.op = "list"
          /\ wire' = (wire \ {q}) \cup {[q EXCEPT !.status = "done", !.rows = AddPeople \ server]}
          /\ UNCHANGED <<server, shown, ui>>
    BY <1>6 DEF Adding!ListServed, Adding!Rows
  <2> QED  BY <2>1
<1>7. CASE Adding!ListArrives
  BY <1>7 DEF Adding!ListArrives
<1>8. ASSUME NEW q \in wire, Adding!Serve(q)  PROVE AddingInv'
  <2>1. ASSUME NEW status, q.op # "list", wire' = Adding!Becomes(q, status), UNCHANGED <<shown, ui>>
        PROVE  AddingInv'
    BY <2>1 DEF Adding!Becomes
  <2>2. q.op # "list" /\ UNCHANGED <<shown, ui>> /\ \E status : wire' = Adding!Becomes(q, status)
    BY <1>8 DEF Adding!Serve, Adding!Refused, Adding!Served
  <2> QED
    <3> HIDE DEF AddingInv
    <3> QED  BY <2>1, <2>2
<1>9. ASSUME NEW q \in wire, Adding!Conflicted(q)  PROVE AddingInv'
  BY <1>9 DEF Adding!Conflicted, Adding!Settles
<1>10. ASSUME NEW q \in wire, Adding!Succeeds(q)  PROVE AddingInv'
  BY <1>10, <1>0 DEF Adding!Succeeds, Adding!Settles
<1>11. ASSUME NEW q \in wire, Adding!FailsHere(q)  PROVE AddingInv'
  BY <1>11 DEF Adding!FailsHere, Adding!Fails
<1> QED
  <2> HIDE DEF AddingInv
  <2> QED
    BY <1>1, <1>2, <1>3, <1>4, <1>5, <1>6, <1>7, <1>8, <1>9, <1>10, <1>11 DEF Adding!Next

-----------------------------------------------------------------------------
(* Attendance *)

\* A row that was changed is one that was marked in this visit.
AttendanceInv ==
  /\ {"here", "visit", "rows", "dated", "marked"} \subseteq DOMAIN ui
  /\ WireTyped
  /\ ui.rows # None =>
       /\ DOMAIN ui.rows = AttendancePeople
       /\ AttendancePage!DirtyRows(ui.rows) \subseteq ui.marked
  /\ AttendancePage!OnlyMarkedSent

LEMMA AttendanceInit ==
  ASSUME AttendancePage!Init  PROVE AttendanceInv
  BY DEF AttendancePage!Init, AttendancePage!Idle, AttendanceInv, WireTyped,
     AttendancePage!OnlyMarkedSent, AttendancePage!Pending

\* The rows made from a roster are unchanged.
LEMMA FreshRows ==
  ASSUME NEW roster, NEW dated
  PROVE  LET rows == AttendancePage!FromRoster(roster, dated) IN
           /\ DOMAIN rows = AttendancePeople
           /\ AttendancePage!DirtyRows(rows) = {}
  BY DEF AttendancePage!FromRoster, AttendancePage!DirtyRows

LEMMA AttendanceStep ==
  ASSUME AttendanceInv, AttendancePage!Next  PROVE AttendanceInv'
<1> USE DEF AttendanceInv, WireTyped, Fields, AttendancePage!OnlyMarkedSent,
      AttendancePage!Pending
<1>1. CASE AttendancePage!Open
  <2>1. CASE shown = None
    BY <1>1, <2>1 DEF AttendancePage!Open, AttendancePage!Refetch, AttendancePage!Fetch
  <2>2. CASE shown # None
    <3> DEFINE rows == AttendancePage!FromRoster(shown, ui.dated)
    <3>1. /\ DOMAIN rows = AttendancePeople
          /\ AttendancePage!DirtyRows(rows) = {}
      BY FreshRows, Zenon
    <3>2. /\ ui' = [ui EXCEPT !.here = TRUE, !.visit = @ + 1, !.rows = rows]
          /\ wire' = {q \in wire : q.op # "list"} \cup {AttendancePage!Fetch}
      BY <1>1, <2>2 DEF AttendancePage!Open, AttendancePage!Refetch
    <3> HIDE DEF rows
    <3>3. ui'.rows = rows /\ ui'.marked = ui.marked /\ DOMAIN ui' = DOMAIN ui
      BY <3>2
    <3> QED  BY <3>1, <3>2, <3>3 DEF AttendancePage!Fetch
  <2> QED  BY <2>1, <2>2
<1>2. CASE AttendancePage!Leave
  BY <1>2 DEF AttendancePage!Leave, AttendancePage!Away, AttendancePage!Shows
<1>3. CASE AttendancePage!DatesArrive
  BY <1>3 DEF AttendancePage!DatesArrive, AttendancePage!Shows
<1>4. CASE AttendancePage!RosterArrives
  <2>1. PICK q \in wire :
          /\ wire' = wire \ {q}
          /\ ui' = [ui EXCEPT !.failed = FALSE,
                        !.rows = IF ui.here /\ @ = None
                                     THEN AttendancePage!FromRoster(q.rows, ui.dated) ELSE @]
    BY <1>4 DEF AttendancePage!RosterArrives
  <2>2. CASE ui.here /\ ui.rows = None
    <3> DEFINE rows == AttendancePage!FromRoster(q.rows, ui.dated)
    <3>1. /\ DOMAIN rows = AttendancePeople
          /\ AttendancePage!DirtyRows(rows) = {}
      BY FreshRows, Zenon
    <3> HIDE DEF rows
    <3>2. ui'.rows = rows /\ ui'.marked = ui.marked /\ DOMAIN ui' = DOMAIN ui
      BY <2>1, <2>2 DEF rows
    <3> QED  BY <2>1, <3>1, <3>2
  <2>3. CASE ~(ui.here /\ ui.rows = None)
    <3>1. ui'.rows = ui.rows /\ ui'.marked = ui.marked /\ DOMAIN ui' = DOMAIN ui
      BY <2>1, <2>3
    <3> QED  BY <2>1, <3>1
  <2> QED  BY <2>2, <2>3
<1>5. CASE AttendancePage!RosterFails
  BY <1>5 DEF AttendancePage!RosterFails
<1>6. ASSUME NEW p \in AttendancePeople, NEW row, AttendancePage!Update(p, row)
      PROVE  AttendanceInv'
  <2> DEFINE new == [row EXCEPT !.dirty = TRUE]
  <2>1. /\ ui.rows # None /\ wire' = wire
        /\ ui'.rows = [ui.rows EXCEPT ![p] = new]
        /\ ui'.marked = ui.marked \cup {p} /\ DOMAIN ui' = DOMAIN ui
    BY <1>6 DEF AttendancePage!Update, AttendancePage!SessionReady, AttendancePage!Shows
  <2> HIDE DEF new
  <2>2. AttendancePage!DirtyRows(ui'.rows) \subseteq AttendancePage!DirtyRows(ui.rows) \cup {p}
    BY <2>1 DEF AttendancePage!DirtyRows
  <2> QED  BY <2>1, <2>2
<1>7. ASSUME NEW p \in AttendancePeople, NEW s, AttendancePage!StatusChange(p, s)
      PROVE  AttendanceInv'
  BY <1>7, <1>6 DEF AttendancePage!StatusChange
<1>8. ASSUME NEW p \in AttendancePeople, NEW field, AttendancePage!Fill(p, field)
      PROVE  AttendanceInv'
  BY <1>8, <1>6 DEF AttendancePage!Fill
<1>9. CASE AttendancePage!MarkAllPresent
  <2>1. /\ ui.rows # None /\ wire' = wire
        /\ DOMAIN ui'.rows = AttendancePeople
        /\ ui'.marked = AttendancePeople /\ DOMAIN ui' = DOMAIN ui
    BY <1>9 DEF AttendancePage!MarkAllPresent, AttendancePage!SessionReady, AttendancePage!Shows
  <2>2. AttendancePage!DirtyRows(ui'.rows) \subseteq AttendancePeople
    BY DEF AttendancePage!DirtyRows
  <2> QED  BY <2>1, <2>2
<1>10. CASE AttendancePage!Refuse
  BY <1>10 DEF AttendancePage!Refuse, AttendancePage!Shows
<1>11. CASE AttendancePage!Save
  <2> DEFINE rows == ui.rows
             ids == {AttendancePage!Sent(p) : p \in AttendancePage!DirtyRows(rows)}
             new == [AttendancePage!Request("save", ids) EXCEPT !.nth = ui.visit]
  <2>1. ui.rows # None /\ wire' = wire \cup {new} /\ ui' = [ui EXCEPT !.busy = @ \cup {"save"}]
    BY <1>11 DEF AttendancePage!Save, AttendancePage!SessionReady, AttendancePage!Submitted
  <2>2. \A x \in ids : x.marked
    <3>1. ASSUME NEW p \in AttendancePage!DirtyRows(rows)  PROVE AttendancePage!Sent(p).marked
      <4>1. p \in ui.marked
        BY <2>1
      <4> QED  BY <4>1, Zenon DEF AttendancePage!Sent
    <3> QED  BY <3>1, Zenon
  <2> HIDE DEF ids
  <2>3. DOMAIN new = Fields /\ new.ids = ids
    BY DEF AttendancePage!Request
  <2> HIDE DEF new
  <2> QED  BY <2>1, <2>2, <2>3
<1>12. ASSUME NEW rows, AttendancePage!ListServed(rows)  PROVE AttendanceInv'
  BY <1>12 DEF AttendancePage!ListServed
<1>13. ASSUME NEW p, AttendancePage!Another(p)  PROVE AttendanceInv'
  BY <1>13 DEF AttendancePage!Another
<1>14. ASSUME NEW q \in wire, AttendancePage!Serve(q)  PROVE AttendanceInv'
  BY <1>14
     DEF AttendancePage!Serve, AttendancePage!Served, AttendancePage!Writes,
         AttendancePage!Becomes
<1>15. ASSUME NEW q \in wire, AttendancePage!Succeeds(q)  PROVE AttendanceInv'
  BY <1>15
     DEF AttendancePage!Succeeds, AttendancePage!Away, AttendancePage!Refetch,
         AttendancePage!Fetch
<1>16. ASSUME NEW q \in wire, AttendancePage!FailsHere(q)  PROVE AttendanceInv'
  BY <1>16 DEF AttendancePage!FailsHere
<1> QED
  <2> HIDE DEF AttendanceInv
  <2> QED
    BY <1>1, <1>2, <1>3, <1>4, <1>5, <1>7, <1>8, <1>9, <1>10, <1>11, <1>12, <1>13, <1>14, <1>15,
       <1>16
       DEF AttendancePage!Next

-----------------------------------------------------------------------------
(* All the pages *)

ConsoleInv ==
  /\ On("residents", ResidentsInv)
  /\ On("admins", AdminsInv)
  /\ On("programs", ProgramsInv)
  /\ On("roster", WireTyped)
  /\ On("program form", ProgramFormInv)
  /\ On("enrollments", EnrollmentsInv)
  /\ On("add", AddingInv)
  /\ On("attendance", AttendanceInv)

LEMMA ConsoleInit ==
  ASSUME Init  PROVE ConsoleInv
<1>1. CASE page = "residents"
  BY <1>1, ResidentsInit DEF Init, ConsoleInv, On
<1>2. CASE page = "admins"
  BY <1>2, AdminsInit DEF Init, ConsoleInv, On
<1>3. CASE page = "programs"
  BY <1>3, ProgramsInit DEF Init, ConsoleInv, On
<1>4. CASE page = "roster"
  BY <1>4 DEF Init, ConsoleInv, On, WireTyped, Roster!Init
<1>5. CASE page = "enrollments"
  BY <1>5, EnrollmentsInit DEF Init, ConsoleInv, On
<1>6. CASE page = "add"
  BY <1>6, AddingInit DEF Init, ConsoleInv, On
<1>7. CASE page = "attendance"
  BY <1>7, AttendanceInit DEF Init, ConsoleInv, On
<1>8. CASE page = "program form"
  BY <1>8, ProgramFormInit DEF Init, ConsoleInv, On
<1> QED  BY <1>1, <1>2, <1>3, <1>4, <1>5, <1>6, <1>7, <1>8 DEF ConsoleInv, On

\* A page stays open, and steps as it does alone.
LEMMA PageSteps ==
  ASSUME Next
  PROVE  /\ page' = page
         /\ page = "residents" => ResidentsPage!Next
         /\ page = "admins" => AdminsPage!Next
         /\ page = "programs" => ProgramsPage!Next
         /\ page = "roster" => Roster!Next
         /\ page = "program form" => ProgramForms!Next
         /\ page = "enrollments" => Enrollments!Next
         /\ page = "add" => Adding!Next
         /\ page = "attendance" => AttendancePage!Next
  BY DEF Next

LEMMA ConsoleStep ==
  ASSUME ConsoleInv, Next  PROVE ConsoleInv'
<1>1. CASE page = "residents"
  BY <1>1, PageSteps, ResidentsStep DEF ConsoleInv, On
<1>2. CASE page = "admins"
  BY <1>2, PageSteps, AdminsStep DEF ConsoleInv, On
<1>3. CASE page = "programs"
  BY <1>3, PageSteps, ProgramsStep DEF ConsoleInv, On
<1>4. CASE page = "roster"
  BY <1>4, PageSteps, RosterStep DEF ConsoleInv, On
<1>5. CASE page = "enrollments"
  BY <1>5, PageSteps, EnrollmentsStep DEF ConsoleInv, On
<1>6. CASE page = "add"
  BY <1>6, PageSteps, AddingStep DEF ConsoleInv, On
<1>7. CASE page = "attendance"
  BY <1>7, PageSteps, AttendanceStep DEF ConsoleInv, On
<1>8. CASE page = "program form"
  BY <1>8, PageSteps, ProgramFormStep DEF ConsoleInv, On
<1> QED  BY <1>1, <1>2, <1>3, <1>4, <1>5, <1>6, <1>7, <1>8, PageSteps DEF ConsoleInv, On

LEMMA ConsoleStutters ==
  ASSUME ConsoleInv, UNCHANGED vars  PROVE ConsoleInv'
<1>1. page' = page /\ server' = server /\ shown' = shown /\ wire' = wire /\ ui' = ui
  BY DEF vars, screen
<1>2. On("residents", ResidentsInv)' /\ On("admins", AdminsInv)' /\ On("roster", WireTyped)'
  BY <1>1 DEF ConsoleInv, On, ResidentsInv, AdminsInv, AdminsListed, AdminsAimed, WireTyped
<1>3. On("programs", ProgramsInv)' /\ On("enrollments", EnrollmentsInv)'
  BY <1>1
     DEF ConsoleInv, On, WireTyped, ProgramsInv, PollCounts, EnrollmentsInv,
         ProgramsPage!NeverStuckSyncing, ProgramsPage!Loading, Enrollments!SentWereNamed,
         Enrollments!Writes
<1>4. On("add", AddingInv)' /\ On("attendance", AttendanceInv)'
  BY <1>1
     DEF ConsoleInv, On, WireTyped, AddingInv, AttendanceInv, Adding!SentFit, Adding!Writes,
         AttendancePage!OnlyMarkedSent, AttendancePage!Pending
<1>5. On("program form", ProgramFormInv)'
  BY <1>1 DEF ConsoleInv, On, WireTyped, ProgramFormInv
<1> QED  BY <1>2, <1>3, <1>4, <1>5 DEF ConsoleInv

LEMMA ConsoleInvHolds == Spec => []ConsoleInv
<1>1. Init => ConsoleInv
  BY ConsoleInit
<1>2. ConsoleInv /\ [Next]_vars => ConsoleInv'
  BY ConsoleStep, ConsoleStutters
<1> QED  BY <1>1, <1>2, PTL DEF Spec

-----------------------------------------------------------------------------
(* What holds of the console *)

\* Whatever is searched, filtered, toggled and answered, whoever is selected for a bulk action is
\* someone the filter leaves in the list (useUserSelection, and its like for administrators).
THEOREM SelectionStaysWithinFilter == Spec => []SelectionWithinFilter
<1>1. ConsoleInv => SelectionWithinFilter
  BY DEF ConsoleInv, On, SelectionWithinFilter, ResidentsInv, AdminsInv, AdminsListed,
     ResidentsPage!SelectionWithinFilter, AdminsPage!SelectionWithinFilter
<1> QED  BY <1>1, ConsoleInvHolds, PTL

\* Whichever answers put another administrator into selectedAdmin under an open dialog, a request
\* goes out only for the one it was opened for; and a graduation names only residents on the
\* roster shown when it is sent; and a program is saved with every facility where the form was
\* told of classes.
THEOREM RequestsActOnMeant == Spec => ActsOnMeant
<1> DEFINE Sends == /\ page = "admins" => AdminsPage!SendsToMeant
                    /\ page = "program form" => ProgramForms!KeepsClasses
                    /\ page = "roster" => Roster!SendsOnRoster
<1>1. ConsoleInv /\ [Next]_vars => [Sends]_vars
  BY PageSteps, AdminsStep, RosterStep, ProgramFormStep DEF ConsoleInv, On
<1> QED  BY <1>1, ConsoleInvHolds, PTL DEF Spec, ActsOnMeant

\* However often it asked, a page that shows a program as "Syncing from Canvas" asks again or says
\* that it gave up (useCanvasLoadingPoll).
THEOREM PollingNeverStuck == Spec => []NeverStuckSyncing
<1>1. ConsoleInv => NeverStuckSyncing
  BY DEF ConsoleInv, On, NeverStuckSyncing, ProgramsInv
<1> QED  BY <1>1, ConsoleInvHolds, PTL

\* What was chosen on a page is what it sends: the residents the dialog named, no more of them than
\* there were seats, the attendance of those marked in this visit.
THEOREM ChosenIsSent == Spec => []SentAsChosen
<1>1. ConsoleInv => SentAsChosen
  BY DEF ConsoleInv, On, SentAsChosen, EnrollmentsInv, AddingInv, AttendanceInv
<1> QED  BY <1>1, ConsoleInvHolds, PTL
=============================================================================

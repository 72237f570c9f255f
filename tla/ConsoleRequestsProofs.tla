------------------------- MODULE ConsoleRequestsProofs -------------------------
(***************************************************************************)
(* No page of the console has two requests of one kind out, however often  *)
(* a dialog is left and opened again: the button that sends one is locked  *)
(* until it is answered or lost, and no other answer takes its lock away.  *)
(***************************************************************************)
EXTENDS ConsoleProofs

\* A request of one of these is the only one of its kind, and its button is disabled.
Locked(ops) ==
  /\ "busy" \in DOMAIN ui
  /\ WireTyped
  /\ \A q \in wire : q.op \in ops =>
       q.op \in ui.busy /\ \A r \in wire : r.op = q.op => r = q

\* A fetch, or a request that is none of these.
Other(f, ops) == DOMAIN f = Fields /\ f.op \notin ops

\* When a page is opened it fetches, if anything.
LEMMA Starts ==
  ASSUME NEW ops, "busy" \in DOMAIN ui, \A f \in wire : Other(f, ops)
  PROVE  Locked(ops)
  BY DEF Locked, WireTyped, Other

\* Nothing is sent but perhaps another one, and none of these buttons is enabled.
LEMMA Waits ==
  ASSUME NEW ops, Locked(ops), \A f \in wire' : f \in wire \/ Other(f, ops),
         DOMAIN ui' = DOMAIN ui, ui.busy \cap ops \subseteq ui'.busy
  PROVE  Locked(ops)'
  BY DEF Locked, WireTyped, Other

\* A request is sent by a button that is enabled.
LEMMA Sends ==
  ASSUME NEW ops, Locked(ops), NEW new, DOMAIN new = Fields,
         new.op \in ops => new.op \notin ui.busy,
         wire' = wire \cup {new}, DOMAIN ui' = DOMAIN ui, ui.busy \cup {new.op} \subseteq ui'.busy
  PROVE  Locked(ops)'
  BY DEF Locked, WireTyped

\* The server carries a request out or refuses it.
LEMMA Turns ==
  ASSUME NEW ops, Locked(ops), NEW q \in wire, NEW new, DOMAIN new = Fields, new.op = q.op,
         wire' = (wire \ {q}) \cup {new}, ui' = ui
  PROVE  Locked(ops)'
  BY DEF Locked, WireTyped

\* A request is answered or lost, and its button enabled.
LEMMA Ends ==
  ASSUME NEW ops, Locked(ops), NEW q \in wire,
         \A f \in wire' : f \in wire \ {q} \/ Other(f, ops), DOMAIN ui' = DOMAIN ui,
         (ui.busy \cap ops) \ {q.op} \subseteq ui'.busy
  PROVE  Locked(ops)'
  BY DEF Locked, WireTyped, Other

\* So there are never two of one kind.
LEMMA AtMostOne ==
  ASSUME NEW op, \A q, r \in wire : q.op = op /\ r.op = op => r = q
  PROVE  Cardinality({q \in wire : q.op = op}) <= 1
<1> DEFINE S == {q \in wire : q.op = op}
<1>1. CASE S = {}
  <2>1. Cardinality({}) = 0
    BY FS_EmptySet
  <2> QED  BY <1>1, <2>1
<1>2. CASE S # {}
  <2>1. PICK q \in S : TRUE
    BY <1>2
  <2>2. S = {q}
    BY <2>1
  <2>3. Cardinality({q}) = 1
    BY FS_Singleton
  <2> QED  BY <2>2, <2>3
<1> QED  BY <1>1, <1>2

-----------------------------------------------------------------------------
(* The residents page *)

LEMMA ResidentsStart ==
  ASSUME ResidentsPage!Init  PROVE Locked(ResidentsPage!Guarded \ {"reset"})
<1>1. "busy" \in DOMAIN ui
  BY DEF ResidentsPage!Init
<1>2. \A f \in wire : DOMAIN f = Fields /\ f.op = "list"
  BY DEF ResidentsPage!Init, ResidentsPage!Refetch, ResidentsPage!Fetch, Fields
<1> QED  BY Zenon, <1>1, <1>2, Starts
            DEF Other, ResidentsPage!Guarded, ResidentsPage!Confirmed, ResidentsPage!Bulk

LEMMA ResidentsRequests ==
  ASSUME Locked(ResidentsPage!Guarded \ {"reset"}), ResidentsPage!Next
  PROVE  Locked(ResidentsPage!Guarded \ {"reset"})'
<1> DEFINE ops == ResidentsPage!Guarded \ {"reset"}
<1>l. "list" \notin ops /\ DOMAIN ResidentsPage!Fetch = Fields /\ ResidentsPage!Fetch.op = "list"
  BY Zenon DEF ResidentsPage!Fetch, Fields, ResidentsPage!Guarded, ResidentsPage!Confirmed,
     ResidentsPage!Bulk
<1>b. "busy" \in DOMAIN ui /\ WireTyped /\ Locked(ops)
  BY DEF Locked
<1>s. ASSUME NEW op, NEW ids, ResidentsPage!Send(op, ids)  PROVE Locked(ops)'
  <2>1. DOMAIN ResidentsPage!Request(op, ids) = Fields /\ ResidentsPage!Request(op, ids).op = op
    BY DEF ResidentsPage!Request, Fields
  <2>2. /\ op \notin ui.busy /\ wire' = wire \cup {ResidentsPage!Request(op, ids)}
        /\ DOMAIN ui' = DOMAIN ui /\ ui.busy \cup {op} \subseteq ui'.busy
    BY <1>s, <1>b DEF ResidentsPage!Send, ResidentsPage!Submitted
  <2> QED  BY <1>b, <2>1, <2>2, Sends
<1>f. ASSUME NEW op, op \notin ops, NEW ids, ResidentsPage!SendFreely(op, ids)  PROVE Locked(ops)'
  <2>1. Other(ResidentsPage!Request(op, ids), ops)
    BY <1>f DEF ResidentsPage!Request, Fields, Other
  <2>2. wire' = wire \cup {ResidentsPage!Request(op, ids)} /\ ui' = ui
    BY <1>f DEF ResidentsPage!SendFreely
  <2> QED  BY <1>b, <2>1, <2>2, Waits
<1>t. ASSUME NEW q \in wire, NEW status, wire' = ResidentsPage!Becomes(q, status), ui' = ui
      PROVE  Locked(ops)'
  <2> DEFINE new == [q EXCEPT !.status = status]
  <2>1. DOMAIN new = Fields /\ new.op = q.op
    BY <1>b DEF WireTyped, Fields
  <2>2. wire' = (wire \ {q}) \cup {new}
    BY <1>t DEF ResidentsPage!Becomes
  <2> HIDE DEF new
  <2> QED  BY <1>b, <1>t, <2>1, <2>2, Turns
<1>r. ASSUME NEW q \in wire, NEW status, NEW rows, ui' = ui,
             wire' = (wire \ {q}) \cup {[q EXCEPT !.status = status, !.rows = rows]}
      PROVE  Locked(ops)'
  <2> DEFINE new == [q EXCEPT !.status = status, !.rows = rows]
  <2>1. DOMAIN new = Fields /\ new.op = q.op /\ wire' = (wire \ {q}) \cup {new}
    BY <1>b, <1>r DEF WireTyped, Fields
  <2> HIDE DEF new
  <2> QED  BY <1>b, <1>r, <2>1, Turns
<1>e. ASSUME NEW q \in wire, NEW u, DOMAIN u = DOMAIN ui, ui.busy \cap ops \subseteq u.busy,
             ResidentsPage!Settles(q, u) \/ ResidentsPage!SettlesAndFetches(q, u)
      PROVE  Locked(ops)'
  <2>1. /\ \A f \in wire' : f \in wire \ {q} \/ Other(f, ops)
        /\ DOMAIN ui' = DOMAIN ui /\ (ui.busy \cap ops) \ {q.op} \subseteq ui'.busy
    <3>1. CASE ResidentsPage!Settles(q, u)
      BY <1>b, <1>e, <3>1 DEF ResidentsPage!Settles
    <3>2. CASE ResidentsPage!SettlesAndFetches(q, u)
      BY <1>b, <1>l, <1>e, <3>2
         DEF ResidentsPage!SettlesAndFetches, ResidentsPage!Doubtless, ResidentsPage!Refetch,
             Other
    <3> QED  BY <1>e, <3>1, <3>2
  <2> QED  BY <1>b, <2>1, Ends
<1>1. CASE (\E f : ResidentsPage!ChangeFilter(f)) \/ (\E p : ResidentsPage!TurnPage(p))
           \/ ResidentsPage!Close
  <2>1. /\ \A f \in wire' : f \in wire \/ Other(f, ops)
        /\ DOMAIN ui' = DOMAIN ui /\ ui.busy \cap ops \subseteq ui'.busy
    BY Zenon, <1>1, <1>b, <1>l
       DEF ResidentsPage!ChangeFilter, ResidentsPage!Unselected, ResidentsPage!TurnPage,
           ResidentsPage!Close, ResidentsPage!Doubtless, ResidentsPage!Refetch, Other,
           ResidentsPage!Guarded, ResidentsPage!Confirmed, ResidentsPage!Bulk
  <2> QED  BY <1>b, <2>1, Waits
<1>2. CASE (\E r : ResidentsPage!ToggleSelect(r)) \/ ResidentsPage!ClearSelection
           \/ (\E r, d : ResidentsPage!OpenAction(r, d)) \/ (\E d : ResidentsPage!OpenBulk(d))
           \/ ResidentsPage!OpenAdd
  <2>1. /\ wire' = wire
        /\ DOMAIN ui' = DOMAIN ui /\ ui.busy \cap ops \subseteq ui'.busy
    BY ZenonT(30), <1>2, <1>b, <1>l
       DEF ResidentsPage!ToggleSelect, ResidentsPage!ClearSelection, ResidentsPage!OpenAction,
           ResidentsPage!OpenBulk, ResidentsPage!OpenAdd, ResidentsPage!Shows,
           ResidentsPage!Guarded, ResidentsPage!Confirmed, ResidentsPage!Bulk
  <2> QED  BY <1>b, <2>1, Waits
<1>3. CASE ResidentsPage!SubmitEdit
  BY Zenon, <1>3, <1>f
     DEF ResidentsPage!SubmitEdit, ResidentsPage!Guarded, ResidentsPage!Confirmed,
         ResidentsPage!Bulk
<1>4. CASE ResidentsPage!SubmitAdd \/ ResidentsPage!SubmitReset
           \/ ResidentsPage!SubmitDeactivate \/ ResidentsPage!SubmitDelete
           \/ ResidentsPage!SubmitTransfer \/ ResidentsPage!SubmitBulkReset
           \/ ResidentsPage!SubmitBulkDeactivate \/ ResidentsPage!SubmitBulkDelete
  BY Zenon, <1>4, <1>s
     DEF ResidentsPage!SubmitAdd, ResidentsPage!SubmitReset, ResidentsPage!SubmitDeactivate,
         ResidentsPage!SubmitDelete, ResidentsPage!SubmitTransfer, ResidentsPage!SubmitBulkReset,
         ResidentsPage!SubmitBulkDeactivate, ResidentsPage!SubmitBulkDelete
<1>5. CASE ResidentsPage!ListServed(ResidentsPage!Rows)
  <2>1. PICK q \in wire : \E status, rows :
          wire' = (wire \ {q}) \cup {[q EXCEPT !.status = status, !.rows = rows]} /\ ui' = ui
    BY Zenon, <1>5 DEF ResidentsPage!ListServed
  <2> QED  BY Zenon, <2>1, <1>r
<1>6. CASE ResidentsPage!ListArrives
  <2>1. /\ \A f \in wire' : f \in wire \/ Other(f, ops)
        /\ DOMAIN ui' = DOMAIN ui /\ ui.busy \cap ops \subseteq ui'.busy
    BY Zenon, <1>6, <1>b, <1>l
       DEF ResidentsPage!ListArrives, ResidentsPage!Doubtless, ResidentsPage!Refetch, Other,
           ResidentsPage!Guarded, ResidentsPage!Confirmed, ResidentsPage!Bulk
  <2> QED  BY <1>b, <2>1, Waits
<1>7. ASSUME NEW q \in wire, ResidentsPage!Serve(q)  PROVE Locked(ops)'
  <2>1. ui' = ui /\ \E status : wire' = ResidentsPage!Becomes(q, status)
    BY <1>7 DEF ResidentsPage!Serve, ResidentsPage!Served
  <2> QED  BY <2>1, <1>t
<1>8. ASSUME NEW q \in wire, ResidentsPage!Succeeds(q)  PROVE Locked(ops)'
  <2>1. CASE q.op \in {"bulk deactivate", "bulk delete"}
    <3> DEFINE u == [ResidentsPage!Closed(q.op) EXCEPT !.selection = {}]
    <3>1. ResidentsPage!SettlesAndFetches(q, u)
      BY Zenon, <1>8, <2>1 DEF ResidentsPage!Succeeds, ResidentsPage!AfterBulk, ResidentsPage!Closed
    <3>2. DOMAIN u = DOMAIN ui /\ ui.busy \cap ops \subseteq u.busy
      BY Zenon, <1>b
         DEF ResidentsPage!AfterBulk, ResidentsPage!Closed, ResidentsPage!Guarded,
             ResidentsPage!Confirmed, ResidentsPage!Bulk
    <3> HIDE DEF u
    <3> QED  BY <3>1, <3>2, <1>e
  <2>2. CASE q.op = "bulk reset"
    <3> DEFINE u == [ui EXCEPT !.completed = TRUE]
    <3>1. ResidentsPage!Settles(q, u)
      BY Zenon, <1>8, <2>2 DEF ResidentsPage!Succeeds, ResidentsPage!BulkResetAnswered
    <3>2. DOMAIN u = DOMAIN ui /\ ui.busy \cap ops \subseteq u.busy
      BY Zenon, <1>b
         DEF ResidentsPage!BulkResetAnswered, ResidentsPage!Guarded, ResidentsPage!Confirmed,
             ResidentsPage!Bulk
    <3> HIDE DEF u
    <3> QED  BY <3>1, <3>2, <1>e
  <2>3. CASE q.op = "reset"
    <3> DEFINE u == [ui
              EXCEPT !.password = IF ui.dialog = "reset" THEN CHOOSE r \in q.ids : TRUE ELSE None]
    <3>1. ResidentsPage!Settles(q, u)
      BY <1>8, <2>3 DEF ResidentsPage!Succeeds, ResidentsPage!ResetAnswered
    <3>2. DOMAIN u = DOMAIN ui /\ ui.busy \cap ops \subseteq u.busy
      BY Zenon, <1>b
         DEF ResidentsPage!ResetAnswered, ResidentsPage!Guarded, ResidentsPage!Confirmed,
             ResidentsPage!Bulk
    <3> HIDE DEF u
    <3> QED  BY <3>1, <3>2, <1>e
  <2>4. CASE q.op \notin {"bulk deactivate", "bulk delete", "bulk reset", "reset"}
    <3> DEFINE u == ResidentsPage!Closed(q.op)
    <3>1. ResidentsPage!SettlesAndFetches(q, u)
      BY Zenon, <1>8, <2>4 DEF ResidentsPage!Succeeds, ResidentsPage!Closed
    <3>2. DOMAIN u = DOMAIN ui /\ ui.busy \cap ops \subseteq u.busy
      BY Zenon, <1>b
         DEF ResidentsPage!Closed, ResidentsPage!Guarded, ResidentsPage!Confirmed,
             ResidentsPage!Bulk
    <3> HIDE DEF u
    <3> QED  BY <3>1, <3>2, <1>e
  <2> QED  BY Zenon, <1>8, <2>1, <2>2, <2>3, <2>4 DEF ResidentsPage!Succeeds
<1>9. ASSUME NEW q \in wire, ResidentsPage!Fails(q)  PROVE Locked(ops)'
  <2>1. /\ \A f \in wire' : f \in wire \ {q} \/ Other(f, ops)
        /\ DOMAIN ui' = DOMAIN ui /\ (ui.busy \cap ops) \ {q.op} \subseteq ui'.busy
    BY Zenon, <1>9, <1>b, <1>l
       DEF ResidentsPage!Fails, ResidentsPage!Doubtless, ResidentsPage!Refetch, Other,
           ResidentsPage!Guarded, ResidentsPage!Confirmed, ResidentsPage!Bulk
  <2> QED  BY <1>b, <2>1, Ends
<1> QED
  BY <1>1, <1>2, <1>3, <1>4, <1>5, <1>6, <1>7, <1>8, <1>9 DEF ResidentsPage!Next

-----------------------------------------------------------------------------
(* Importing residents *)

LEMMA ImportStart ==
  ASSUME Import!Init  PROVE Locked({"upload", "create"})
<1>1. "busy" \in DOMAIN ui
  BY DEF Import!Init
<1>2. \A f \in wire : DOMAIN f = Fields /\ f.op = "list"
  BY DEF Import!Init, Import!Fetch, Fields
<1> QED  BY <1>1, <1>2, Starts DEF Other

LEMMA ImportRequests ==
  ASSUME Locked({"upload", "create"}), Import!Next
  PROVE  Locked({"upload", "create"})'
<1> DEFINE ops == {"upload", "create"}
<1>l. "list" \notin ops /\ DOMAIN Import!Fetch = Fields /\ Import!Fetch.op = "list"
  BY DEF Import!Fetch, Fields
<1>b. "busy" \in DOMAIN ui /\ WireTyped /\ Locked(ops)
  BY DEF Locked
<1>s. ASSUME NEW op, NEW ids, Import!Send(op, ids)  PROVE Locked(ops)'
  <2>1. DOMAIN Import!Request(op, ids) = Fields /\ Import!Request(op, ids).op = op
    BY DEF Import!Request, Fields
  <2>2. /\ op \notin ui.busy /\ wire' = wire \cup {Import!Request(op, ids)}
        /\ DOMAIN ui' = DOMAIN ui /\ ui.busy \cup {op} \subseteq ui'.busy
    BY <1>s, <1>b DEF Import!Send, Import!Submitted
  <2> QED  BY <1>b, <2>1, <2>2, Sends
<1>t. ASSUME NEW q \in wire, NEW status, wire' = Import!Becomes(q, status), ui' = ui
      PROVE  Locked(ops)'
  <2> DEFINE new == [q EXCEPT !.status = status]
  <2>1. DOMAIN new = Fields /\ new.op = q.op
    BY <1>b DEF WireTyped, Fields
  <2>2. wire' = (wire \ {q}) \cup {new}
    BY <1>t DEF Import!Becomes
  <2> HIDE DEF new
  <2> QED  BY <1>b, <1>t, <2>1, <2>2, Turns
<1>r. ASSUME NEW q \in wire, NEW status, NEW rows, ui' = ui,
             wire' = (wire \ {q}) \cup {[q EXCEPT !.status = status, !.rows = rows]}
      PROVE  Locked(ops)'
  <2> DEFINE new == [q EXCEPT !.status = status, !.rows = rows]
  <2>1. DOMAIN new = Fields /\ new.op = q.op /\ wire' = (wire \ {q}) \cup {new}
    BY <1>b, <1>r DEF WireTyped, Fields
  <2> HIDE DEF new
  <2> QED  BY <1>b, <1>r, <2>1, Turns
<1>e. ASSUME NEW q \in wire, NEW u, DOMAIN u = DOMAIN ui, ui.busy \cap ops \subseteq u.busy,
             Import!Settles(q, u) \/ Import!SettlesAndFetches(q, u)
      PROVE  Locked(ops)'
  <2>1. /\ \A f \in wire' : f \in wire \ {q} \/ Other(f, ops)
        /\ DOMAIN ui' = DOMAIN ui /\ (ui.busy \cap ops) \ {q.op} \subseteq ui'.busy
    <3>1. CASE Import!Settles(q, u)
      BY <1>b, <1>e, <3>1 DEF Import!Settles
    <3>2. CASE Import!SettlesAndFetches(q, u)
      BY <1>b, <1>l, <1>e, <3>2
         DEF Import!SettlesAndFetches, Import!Doubtless, Import!Refetch, Other
    <3> QED  BY <1>e, <3>1, <3>2
  <2> QED  BY <1>b, <2>1, Ends
<1>1. CASE Import!Open \/ Import!Close \/ Import!SelectPlace \/ Import!Back
           \/ (\E f : Import!ChooseFile(f))
  <2>1. /\ wire' = wire
        /\ DOMAIN ui' = DOMAIN ui /\ ui.busy \cap ops \subseteq ui'.busy
    BY Zenon, <1>1, <1>b, <1>l
       DEF Import!Open, Import!Close, Import!Reset, Import!SelectPlace, Import!screen,
           Import!Back, Import!ChooseFile, Import!Shows
  <2> QED  BY <1>b, <2>1, Waits
<1>2. CASE Import!Validate \/ Import!CreateAccounts
  BY <1>2, <1>s DEF Import!Validate, Import!CreateAccounts
<1>3. CASE Import!ListServed(Import!Rows)
  <2>1. PICK q \in wire : \E status, rows :
          wire' = (wire \ {q}) \cup {[q EXCEPT !.status = status, !.rows = rows]} /\ ui' = ui
    BY Zenon, <1>3 DEF Import!ListServed
  <2> QED  BY Zenon, <2>1, <1>r
<1>4. CASE Import!ListArrives
  <2>1. /\ \A f \in wire' : f \in wire \/ Other(f, ops)
        /\ DOMAIN ui' = DOMAIN ui /\ ui.busy \cap ops \subseteq ui'.busy
    BY <1>4, <1>b, <1>l DEF Import!ListArrives, Import!Doubtless, Import!Refetch, Other
  <2> QED  BY <1>b, <2>1, Waits
<1>5. ASSUME NEW q \in wire, Import!Serve(q)  PROVE Locked(ops)'
  <2>1. ui' = ui /\ \E status : wire' = Import!Becomes(q, status)
    BY <1>5 DEF Import!Serve, Import!Served
  <2> QED  BY <2>1, <1>t
<1>6. ASSUME NEW q \in wire, Import!Succeeds(q)  PROVE Locked(ops)'
  <2>1. CASE q.op = "upload"
    <3> DEFINE u == [ui EXCEPT !.step = "rows", !.rows = CHOOSE f \in q.ids : TRUE]
    <3>1. Import!Settles(q, u)
      BY <1>6, <2>1 DEF Import!Succeeds
    <3>2. DOMAIN u = DOMAIN ui /\ ui.busy \cap ops \subseteq u.busy
      BY <1>b
    <3> HIDE DEF u
    <3> QED  BY <3>1, <3>2, <1>e
  <2>2. CASE q.op = "create"
    <3> DEFINE u == [Import!Reset(ui) EXCEPT !.dialog = FALSE]
    <3>1. Import!SettlesAndFetches(q, u)
      BY <1>6, <2>2 DEF Import!Succeeds, Import!Reset
    <3>2. DOMAIN u = DOMAIN ui /\ ui.busy \cap ops \subseteq u.busy
      BY <1>b DEF Import!Reset
    <3> HIDE DEF u
    <3> QED  BY <3>1, <3>2, <1>e
  <2> QED  BY <1>6, <2>1, <2>2 DEF Import!Succeeds
<1>7. ASSUME NEW q \in wire, Import!Fails(q)  PROVE Locked(ops)'
  <2>1. /\ \A f \in wire' : f \in wire \ {q} \/ Other(f, ops)
        /\ DOMAIN ui' = DOMAIN ui /\ (ui.busy \cap ops) \ {q.op} \subseteq ui'.busy
    BY <1>7, <1>b, <1>l DEF Import!Fails, Import!Doubtless, Import!Refetch, Other
  <2> QED  BY <1>b, <2>1, Ends
<1> QED
  BY <1>1, <1>2, <1>3, <1>4, <1>5, <1>6, <1>7 DEF Import!Next

-----------------------------------------------------------------------------
(* The administrators page *)

LEMMA AdminsStart ==
  ASSUME AdminsPage!Init  PROVE Locked(AdminsPage!Bulk)
<1>1. "busy" \in DOMAIN ui
  BY DEF AdminsPage!Init
<1>2. \A f \in wire : DOMAIN f = Fields /\ f.op = "list"
  BY DEF AdminsPage!Init, AdminsPage!Fetch, Fields
<1> QED  BY Zenon, <1>1, <1>2, Starts DEF Other, AdminsPage!Bulk

LEMMA AdminsRequests ==
  ASSUME Locked(AdminsPage!Bulk), AdminsPage!Next
  PROVE  Locked(AdminsPage!Bulk)'
<1> DEFINE ops == AdminsPage!Bulk
<1>l. "list" \notin ops /\ DOMAIN AdminsPage!Fetch = Fields /\ AdminsPage!Fetch.op = "list"
  BY Zenon DEF AdminsPage!Fetch, Fields, AdminsPage!Bulk
<1>b. "busy" \in DOMAIN ui /\ WireTyped /\ Locked(ops)
  BY DEF Locked
<1>s. ASSUME NEW op, NEW ids, AdminsPage!Send(op, ids)  PROVE Locked(ops)'
  <2>1. DOMAIN AdminsPage!Request(op, ids) = Fields /\ AdminsPage!Request(op, ids).op = op
    BY DEF AdminsPage!Request, Fields
  <2>2. /\ op \notin ui.busy /\ wire' = wire \cup {AdminsPage!Request(op, ids)}
        /\ DOMAIN ui' = DOMAIN ui /\ ui.busy \cup {op} \subseteq ui'.busy
    BY <1>s, <1>b DEF AdminsPage!Send, AdminsPage!Submitted
  <2> QED  BY <1>b, <2>1, <2>2, Sends
<1>f. ASSUME NEW op, op \notin ops, NEW ids, AdminsPage!SendFreely(op, ids)  PROVE Locked(ops)'
  <2>1. Other(AdminsPage!Request(op, ids), ops)
    BY <1>f DEF AdminsPage!Request, Fields, Other
  <2>2. wire' = wire \cup {AdminsPage!Request(op, ids)} /\ ui' = ui
    BY <1>f DEF AdminsPage!SendFreely
  <2> QED  BY <1>b, <2>1, <2>2, Waits
<1>t. ASSUME NEW q \in wire, NEW status, wire' = AdminsPage!Becomes(q, status), ui' = ui
      PROVE  Locked(ops)'
  <2> DEFINE new == [q EXCEPT !.status = status]
  <2>1. DOMAIN new = Fields /\ new.op = q.op
    BY <1>b DEF WireTyped, Fields
  <2>2. wire' = (wire \ {q}) \cup {new}
    BY <1>t DEF AdminsPage!Becomes
  <2> HIDE DEF new
  <2> QED  BY <1>b, <1>t, <2>1, <2>2, Turns
<1>r. ASSUME NEW q \in wire, NEW status, NEW rows, ui' = ui,
             wire' = (wire \ {q}) \cup {[q EXCEPT !.status = status, !.rows = rows]}
      PROVE  Locked(ops)'
  <2> DEFINE new == [q EXCEPT !.status = status, !.rows = rows]
  <2>1. DOMAIN new = Fields /\ new.op = q.op /\ wire' = (wire \ {q}) \cup {new}
    BY <1>b, <1>r DEF WireTyped, Fields
  <2> HIDE DEF new
  <2> QED  BY <1>b, <1>r, <2>1, Turns
<1>e. ASSUME NEW q \in wire, NEW u, DOMAIN u = DOMAIN ui, ui.busy \cap ops \subseteq u.busy,
             AdminsPage!Settles(q, u) \/ AdminsPage!SettlesAndFetches(q, u)
      PROVE  Locked(ops)'
  <2>1. /\ \A f \in wire' : f \in wire \ {q} \/ Other(f, ops)
        /\ DOMAIN ui' = DOMAIN ui /\ (ui.busy \cap ops) \ {q.op} \subseteq ui'.busy
    <3>1. CASE AdminsPage!Settles(q, u)
      BY <1>b, <1>e, <3>1 DEF AdminsPage!Settles
    <3>2. CASE AdminsPage!SettlesAndFetches(q, u)
      BY <1>b, <1>l, <1>e, <3>2
         DEF AdminsPage!SettlesAndFetches, AdminsPage!Doubtless, AdminsPage!Refetch, Other
    <3> QED  BY <1>e, <3>1, <3>2
  <2> QED  BY <1>b, <2>1, Ends
<1>1. CASE AdminsPage!TurnPage \/ (\E f : AdminsPage!ChangeFilter(f)) \/ AdminsPage!CloseBulk
  <2>1. /\ \A f \in wire' : f \in wire \/ Other(f, ops)
        /\ DOMAIN ui' = DOMAIN ui /\ ui.busy \cap ops \subseteq ui'.busy
    BY Zenon, <1>1, <1>b, <1>l
       DEF AdminsPage!TurnPage, AdminsPage!ChangeQuery, AdminsPage!ChangeFilter,
           AdminsPage!CloseBulk, AdminsPage!Doubtless, AdminsPage!Refetch, Other, AdminsPage!Bulk
  <2> QED  BY <1>b, <2>1, Waits
<1>2. CASE AdminsPage!ToggleAll \/ AdminsPage!ClearSelection \/ AdminsPage!OpenAdd
           \/ AdminsPage!CloseReset \/ AdminsPage!CloseOther \/ AdminsPage!TypeName
           \/ (\E a : AdminsPage!FromTable(a)) \/ (\E a : AdminsPage!ToggleSelect(a))
           \/ (\E d : AdminsPage!OpenBulk(d))
  <2>1. /\ wire' = wire
        /\ DOMAIN ui' = DOMAIN ui /\ ui.busy \cap ops \subseteq ui'.busy
    BY Zenon, <1>2, <1>b, <1>l
       DEF AdminsPage!ToggleAll, AdminsPage!Select, AdminsPage!ClearSelection, AdminsPage!OpenAdd,
           AdminsPage!CloseReset, AdminsPage!CloseOther, AdminsPage!TypeName,
           AdminsPage!FromTable, AdminsPage!OpenEdit, AdminsPage!OpenReset, AdminsPage!OpenDelete,
           AdminsPage!ToggleSelect, AdminsPage!OpenBulk, AdminsPage!Shows, AdminsPage!Bulk
  <2> QED  BY <1>b, <2>1, Waits
<1>3. CASE AdminsPage!SubmitEdit \/ AdminsPage!SubmitDelete \/ (\E a : AdminsPage!SubmitAdd(a))
  BY Zenon, <1>3, <1>f
     DEF AdminsPage!SubmitEdit, AdminsPage!SubmitDelete, AdminsPage!SubmitAdd, AdminsPage!Bulk
<1>4. CASE AdminsPage!SubmitReset \/ (\E d : AdminsPage!SubmitBulk(d))
  BY Zenon, <1>4, <1>s DEF AdminsPage!SubmitReset, AdminsPage!SubmitBulk
<1>5. CASE AdminsPage!ListServed(AdminsPage!Rows)
  <2>1. PICK q \in wire : \E status, rows :
          wire' = (wire \ {q}) \cup {[q EXCEPT !.status = status, !.rows = rows]} /\ ui' = ui
    BY Zenon, <1>5 DEF AdminsPage!ListServed
  <2> QED  BY Zenon, <2>1, <1>r
<1>6. CASE AdminsPage!ListArrives
  <2>1. /\ \A f \in wire' : f \in wire \/ Other(f, ops)
        /\ DOMAIN ui' = DOMAIN ui /\ ui.busy \cap ops \subseteq ui'.busy
    BY Zenon, <1>6, <1>b, <1>l
       DEF AdminsPage!ListArrives, AdminsPage!Doubtless, AdminsPage!Refetch, Other,
           AdminsPage!Bulk
  <2> QED  BY <1>b, <2>1, Waits
<1>7. ASSUME NEW q \in wire, AdminsPage!Serve(q)  PROVE Locked(ops)'
  <2>1. ui' = ui /\ \E status : wire' = AdminsPage!Becomes(q, status)
    BY Zenon, <1>7 DEF AdminsPage!Serve, AdminsPage!Served
  <2> QED  BY <2>1, <1>t
<1>8. ASSUME NEW q \in wire, AdminsPage!Succeeds(q)  PROVE Locked(ops)'
  <2>1. CASE q.op = "add"
    <3> DEFINE u == [ui
              EXCEPT !.open = (@ \ {"add"}) \cup {"reset"}, !.created = TRUE,
                      !.busy = @ \ {"reset"}, !.item = CHOOSE a \in q.ids : TRUE]
    <3>1. AdminsPage!SettlesAndFetches(q, u)
      BY <1>8, <2>1 DEF AdminsPage!Succeeds, AdminsPage!AddAnswered
    <3>2. DOMAIN u = DOMAIN ui /\ ui.busy \cap ops \subseteq u.busy
      BY Zenon, <1>b DEF AdminsPage!AddAnswered, AdminsPage!Bulk
    <3> HIDE DEF u
    <3> QED  BY <3>1, <3>2, <1>e
  <2>2. CASE q.op = "reset"
    BY <1>8, <1>b, <2>2, <1>e DEF AdminsPage!Succeeds
  <2>3. CASE q.op = "bulk reset"
    <3> DEFINE u == [ui EXCEPT !.completed = TRUE]
    <3>1. AdminsPage!Settles(q, u)
      BY Zenon, <1>8, <2>3 DEF AdminsPage!Succeeds
    <3>2. DOMAIN u = DOMAIN ui /\ ui.busy \cap ops \subseteq u.busy
      BY <1>b
    <3> HIDE DEF u
    <3> QED  BY <3>1, <3>2, <1>e
  <2>4. CASE q.op = "bulk delete"
    <3> DEFINE u == [ui EXCEPT !.open = @ \ {"bulk delete"}, !.selection = {}]
    <3>1. AdminsPage!SettlesAndFetches(q, u)
      BY Zenon, <1>8, <2>4 DEF AdminsPage!Succeeds
    <3>2. DOMAIN u = DOMAIN ui /\ ui.busy \cap ops \subseteq u.busy
      BY <1>b
    <3> HIDE DEF u
    <3> QED  BY <3>1, <3>2, <1>e
  <2>5. CASE q.op \notin {"add", "reset", "bulk reset", "bulk delete"}
    <3> DEFINE u == AdminsPage!Left(q.op)
    <3>1. AdminsPage!SettlesAndFetches(q, u)
      BY Zenon, <1>8, <2>5 DEF AdminsPage!Succeeds, AdminsPage!Left
    <3>2. DOMAIN u = DOMAIN ui /\ ui.busy \cap ops \subseteq u.busy
      BY Zenon, <1>b DEF AdminsPage!Left, AdminsPage!Bulk
    <3> HIDE DEF u
    <3> QED  BY <3>1, <3>2, <1>e
  <2> QED  BY Zenon, <1>8, <2>1, <2>2, <2>3, <2>4, <2>5 DEF AdminsPage!Succeeds
<1>9. ASSUME NEW q \in wire, AdminsPage!Fails(q)  PROVE Locked(ops)'
  <2>1. /\ \A f \in wire' : f \in wire \ {q} \/ Other(f, ops)
        /\ DOMAIN ui' = DOMAIN ui /\ (ui.busy \cap ops) \ {q.op} \subseteq ui'.busy
    BY Zenon, <1>9, <1>b, <1>l
       DEF AdminsPage!Fails, AdminsPage!Doubtless, AdminsPage!Refetch, Other, AdminsPage!Bulk
  <2> QED  BY <1>b, <2>1, Ends
<1> QED
  BY <1>1, <1>2, <1>3, <1>4, <1>5, <1>6, <1>7, <1>8, <1>9 DEF AdminsPage!Next

-----------------------------------------------------------------------------
(* The users of a platform *)

\* Nothing is being applied while an apply waits for its confirmation.
ApplyFree ==
  /\ {"dialog", "busy"} \subseteq DOMAIN ui
  /\ ui.dialog = "apply" => "apply" \notin ui.busy

LEMMA UsersApplyFree ==
  /\ Users!Init => ApplyFree
  /\ ApplyFree /\ Users!Next => ApplyFree'
<1>1. ASSUME Users!Init  PROVE ApplyFree
  BY <1>1 DEF Users!Init, ApplyFree
<1>2. ASSUME ApplyFree, Users!Next  PROVE ApplyFree'
  <2> DEFINE Same == DOMAIN ui' = DOMAIN ui /\ ui'.dialog = ui.dialog /\ ui'.busy \subseteq ui.busy
             Left == DOMAIN ui' = DOMAIN ui /\ ui'.dialog # "apply"
  <2>b. {"dialog", "busy"} \subseteq DOMAIN ui
    BY <1>2 DEF ApplyFree
  <2>s. ASSUME Same \/ Left  PROVE ApplyFree'
    BY <1>2, <2>s DEF ApplyFree
  <2>1. CASE Users!Refresh \/ (\E q \in wire : Users!ListRead(q) \/ Users!ListShown(q)
             \/ Users!Serve(q))
    BY Zenon, <1>2, <2>1 DEF Users!Refresh, Users!ListRead, Users!ListShown, Users!Serve, ApplyFree
  <2>2. CASE Users!ConfirmAllAuto \/ (\E p : Users!ConfirmAuto(p))
    BY <2>2, <2>b, <2>s DEF Users!ConfirmAllAuto, Users!ConfirmAuto, Users!Shows
  <2>3. CASE Users!ConfirmAllReview \/ (\E p : Users!ConfirmReview(p)) \/ (\E c : Users!Withdraw(c))
    BY Zenon, <2>3, <2>b, <2>s
       DEF Users!ConfirmAllReview, Users!ConfirmReview, Users!Withdraw, Users!Shows
  <2>4. CASE Users!RequestApply
    BY <2>4, <2>b DEF Users!RequestApply, Users!Shows, ApplyFree
  <2>5. CASE Users!ApplyMatches \/ Users!UnlinkUser \/ Users!Close
    BY Zenon, <2>5, <2>b, <2>s
       DEF Users!ApplyMatches, Users!UnlinkUser, Users!Close, Users!Shows, Users!Submitted
  <2>6. CASE \E c : Users!OpenMap(c) \/ Users!OpenCreate(c)
    BY Zenon, <2>6, <2>b, <2>s DEF Users!OpenMap, Users!OpenCreate, Users!Shows
  <2>7. CASE \E r : Users!Pick(r) \/ Users!OpenUnlink(r) \/ Users!CreateResident(r)
    BY Zenon, <2>7, <2>b, <2>s
       DEF Users!Pick, Users!OpenUnlink, Users!CreateResident, Users!Send, Users!Submitted,
           Users!Shows
  <2>8. CASE Users!MapUser
    BY <2>8, <2>b, <2>s DEF Users!MapUser, Users!Submitted
  <2>d. ASSUME NEW u, "dialog" \in DOMAIN u, "busy" \in DOMAIN u, NEW d
        PROVE  /\ DOMAIN Users!Shut(u, d) = DOMAIN u /\ Users!Shut(u, d).busy = u.busy
               /\ Users!Shut(u, d).dialog \in {u.dialog, "none"}
    BY <2>d DEF Users!Shut
  <2>e. ASSUME NEW q, NEW u, Users!SettledAs(q, u), DOMAIN u = DOMAIN ui,
               u.dialog \in {ui.dialog, "none"}, u.busy = ui.busy
        PROVE  ApplyFree'
    BY <2>b, <2>e, <2>s DEF Users!SettledAs, Users!Doubtless
  <2>9. ASSUME NEW q \in wire, Users!Succeeds(q)  PROVE ApplyFree'
    <3>1. CASE q.op = "apply"
      <4>1. PICK u : Users!SettledAs(q, u)
                       /\ (u = ui \/ \E t : u = [ui EXCEPT !.confirmed = {}, !.chosen = t])
        BY Zenon, <2>9, <3>1 DEF Users!Succeeds, Users!ApplyAnswered
      <4>2. DOMAIN u = DOMAIN ui /\ u.dialog = ui.dialog /\ u.busy = ui.busy
        BY Zenon, <2>b, <4>1
      <4> QED  BY Zenon, <2>e, <4>1, <4>2
    <3>2. CASE q.op = "map"
      <4>1. PICK u : Users!SettledAs(q, Users!Shut(u, "map"))
                       /\ (u = ui \/ \E c : u = [ui EXCEPT !.chosen[c] = None])
        BY <2>9, <3>2 DEF Users!Succeeds, Users!MapAnswered
      <4>2. DOMAIN u = DOMAIN ui /\ u.dialog = ui.dialog /\ u.busy = ui.busy
        BY <2>b, <4>1
      <4> QED  BY <2>b, <2>d, <2>e, <4>1, <4>2
    <3>3. CASE q.op = "unlink"
      BY <2>9, <2>b, <2>d, <2>e, <3>3 DEF Users!Succeeds
    <3>4. CASE q.op = "create"
      <4>1. ui' = [Users!Shut(ui, "create") EXCEPT !.busy = @ \ {q.op}]
        BY <2>9, <3>4 DEF Users!Succeeds, Users!CreateAnswered
      <4>2. /\ DOMAIN ui' = DOMAIN ui
            /\ ui'.dialog \in {ui.dialog, "none"}
            /\ ui'.busy \subseteq ui.busy
        BY <2>b, <2>d, <4>1
      <4> QED  BY <4>2, <2>s
    <3>5. CASE q.op \notin {"apply", "map", "unlink", "create"}
      BY <2>9, <2>e, <3>5 DEF Users!Succeeds
    <3> QED  BY <3>1, <3>2, <3>3, <3>4, <3>5
  <2>10. ASSUME NEW q \in wire, Users!FailsHere(q)  PROVE ApplyFree'
    BY Zenon, <2>10, <2>b, <2>e, <2>s DEF Users!FailsHere
  <2> QED
    BY <1>2, <2>1, <2>2, <2>3, <2>4, <2>5, <2>6, <2>7, <2>8, <2>9, <2>10 DEF Users!Next
<1> QED  BY <1>1, <1>2

LEMMA UsersStart ==
  ASSUME Users!Init  PROVE Locked({"apply", "map", "create"})
<1>1. "busy" \in DOMAIN ui
  BY DEF Users!Init
<1>2. \A f \in wire : DOMAIN f = Fields /\ f.op \in {"match", "mapped"}
  BY DEF Users!Init, Users!Both, Users!Asked, Users!Lists, Fields
<1> QED  BY <1>1, <1>2, Starts DEF Other

LEMMA UsersRequests ==
  ASSUME Locked({"apply", "map", "create"}), ApplyFree, Users!Next
  PROVE  Locked({"apply", "map", "create"})'
<1> DEFINE ops == {"apply", "map", "create"}
<1>l. "list" \notin ops /\ DOMAIN Users!Fetch = Fields /\ Users!Fetch.op = "list"
  BY DEF Users!Fetch, Fields
<1>b. "busy" \in DOMAIN ui /\ WireTyped /\ Locked(ops)
  BY DEF Locked
<1>s. ASSUME NEW op, NEW ids, Users!Send(op, ids)  PROVE Locked(ops)'
  <2>1. DOMAIN Users!Request(op, ids) = Fields /\ Users!Request(op, ids).op = op
    BY DEF Users!Request, Fields
  <2>2. /\ op \notin ui.busy /\ wire' = wire \cup {Users!Request(op, ids)}
        /\ DOMAIN ui' = DOMAIN ui /\ ui.busy \cup {op} \subseteq ui'.busy
    BY <1>s, <1>b DEF Users!Send, Users!Submitted
  <2> QED  BY <1>b, <2>1, <2>2, Sends
<1>t. ASSUME NEW q \in wire, NEW status, wire' = Users!Becomes(q, status), ui' = ui
      PROVE  Locked(ops)'
  <2> DEFINE new == [q EXCEPT !.status = status]
  <2>1. DOMAIN new = Fields /\ new.op = q.op
    BY <1>b DEF WireTyped, Fields
  <2>2. wire' = (wire \ {q}) \cup {new}
    BY <1>t DEF Users!Becomes
  <2> HIDE DEF new
  <2> QED  BY <1>b, <1>t, <2>1, <2>2, Turns
<1>r. ASSUME NEW q \in wire, NEW status, NEW rows, ui' = ui,
             wire' = (wire \ {q}) \cup {[q EXCEPT !.status = status, !.rows = rows]}
      PROVE  Locked(ops)'
  <2> DEFINE new == [q EXCEPT !.status = status, !.rows = rows]
  <2>1. DOMAIN new = Fields /\ new.op = q.op /\ wire' = (wire \ {q}) \cup {new}
    BY <1>b, <1>r DEF WireTyped, Fields
  <2> HIDE DEF new
  <2> QED  BY <1>b, <1>r, <2>1, Turns
<1>1. CASE Users!ConfirmAllAuto \/ Users!ConfirmAllReview \/ Users!RequestApply \/ Users!Close
           \/ (\E c : Users!Withdraw(c)) \/ (\E c : Users!OpenMap(c))
           \/ (\E c : Users!OpenCreate(c)) \/ (\E r : Users!Pick(r))
           \/ (\E r : Users!OpenUnlink(r)) \/ (\E p : Users!ConfirmAuto(p))
           \/ (\E p : Users!ConfirmReview(p))
  <2>1. /\ wire' = wire
        /\ DOMAIN ui' = DOMAIN ui /\ ui.busy \cap ops \subseteq ui'.busy
    BY Zenon, <1>1, <1>b, <1>l
       DEF Users!ConfirmAllAuto, Users!ConfirmAllReview, Users!RequestApply, Users!Close,
           Users!Withdraw, Users!OpenMap, Users!OpenCreate, Users!Pick, Users!OpenUnlink,
           Users!ConfirmAuto, Users!ConfirmReview, Users!Shows
  <2> QED  BY <1>b, <2>1, Waits
<1>2. CASE Users!Refresh \/ (\E q \in wire : Users!ListShown(q))
  <2>1. /\ \A f \in wire' : f \in wire \/ Other(f, ops)
        /\ DOMAIN ui' = DOMAIN ui /\ ui.busy \cap ops \subseteq ui'.busy
    BY <1>2, <1>b, <1>l
       DEF Users!Refresh, Users!Asked, Users!ListShown, Users!Doubtless, Users!Refetch, Other,
           Fields
  <2> QED  BY <1>b, <2>1, Waits
<1>3. ASSUME NEW q \in wire, Users!ListRead(q)  PROVE Locked(ops)'
  BY Zenon, <1>3, <1>r DEF Users!ListRead
<1>4. CASE Users!ApplyMatches
  <2>1. "apply" \notin ui.busy
    BY <1>4 DEF Users!ApplyMatches, ApplyFree
  <2>2. /\ DOMAIN Users!Request("apply", Users!ToApply) = Fields
        /\ Users!Request("apply", Users!ToApply).op = "apply"
    BY DEF Users!Request, Fields
  <2>3. /\ wire' = wire \cup {Users!Request("apply", Users!ToApply)}
        /\ DOMAIN ui' = DOMAIN ui /\ ui.busy \cup {"apply"} \subseteq ui'.busy
    BY <1>4, <1>b DEF Users!ApplyMatches, Users!Submitted
  <2> QED  BY <1>b, <2>1, <2>2, <2>3, Sends
<1>5. CASE Users!MapUser
  <2> DEFINE new == [Users!Request("map", {<<ui.item, ui.picked>>}) EXCEPT !.rows = ui.review]
  <2>1. DOMAIN new = Fields /\ new.op = "map"
    BY DEF Users!Request, Fields
  <2>2. /\ "map" \notin ui.busy /\ wire' = wire \cup {new}
        /\ DOMAIN ui' = DOMAIN ui /\ ui.busy \cup {"map"} \subseteq ui'.busy
    BY <1>5, <1>b DEF Users!MapUser, Users!Submitted
  <2> HIDE DEF new
  <2> QED  BY <1>b, <2>1, <2>2, Sends
<1>6. ASSUME NEW r, Users!CreateResident(r)  PROVE Locked(ops)'
  BY <1>6, <1>s DEF Users!CreateResident
<1>7. CASE Users!UnlinkUser
  <2>1. \A f \in wire' : f \in wire \/ Other(f, ops)
    BY <1>7 DEF Users!UnlinkUser, Users!Request, Other, Fields
  <2>2. DOMAIN ui' = DOMAIN ui /\ ui'.busy = ui.busy
    BY <1>7, <1>b DEF Users!UnlinkUser
  <2> QED  BY <1>b, <2>1, <2>2, Waits
<1>8. ASSUME NEW q \in wire, Users!Serve(q)  PROVE Locked(ops)'
  <2>1. ui' = ui /\ \E status : wire' = Users!Becomes(q, status)
    BY <1>8 DEF Users!Serve
  <2> QED  BY <2>1, <1>t
<1>9. ASSUME NEW q \in wire, Users!Succeeds(q)  PROVE Locked(ops)'
  <2>1. ASSUME NEW u, Users!SettledAs(q, u), DOMAIN u = DOMAIN ui, u.busy = ui.busy
        PROVE  Locked(ops)'
    <3>1. /\ \A f \in wire' : f \in wire \ {q} \/ Other(f, ops)
          /\ DOMAIN ui' = DOMAIN ui /\ (ui.busy \cap ops) \ {q.op} \subseteq ui'.busy
      BY <1>b, <2>1
         DEF Users!SettledAs, Users!Doubtless, Users!Both, Users!Asked, Users!Lists, Other, Fields
    <3> QED  BY <1>b, <3>1, Ends
  <2>2. \A u, d : "busy" \in DOMAIN u =>
           DOMAIN Users!Shut(u, d) = DOMAIN u /\ Users!Shut(u, d).busy = u.busy
    BY DEF Users!Shut
  <2>3. CASE q.op = "apply"
    <3>1. Users!SettledAs(q, ui) \/ \E t : Users!SettledAs(q, [ui
              EXCEPT !.confirmed = {}, !.chosen = t])
      BY Zenon, <1>9, <2>3 DEF Users!Succeeds, Users!ApplyAnswered
    <3>2. ASSUME NEW t, Users!SettledAs(q, [ui EXCEPT !.confirmed = {}, !.chosen = t])
          PROVE  Locked(ops)'
      <4> DEFINE u == [ui EXCEPT !.confirmed = {}, !.chosen = t]
      <4>1. DOMAIN u = DOMAIN ui /\ u.busy = ui.busy
        BY <1>b
      <4> HIDE DEF u
      <4> QED  BY Zenon, <2>1, <3>2, <4>1 DEF u
    <3> QED  BY Zenon, <2>1, <3>1, <3>2
  <2>4. CASE q.op = "map"
    <3>1. PICK u : Users!SettledAs(q, Users!Shut(u, "map")) /\ (u = ui \/ \E c : u = [ui
              EXCEPT !.chosen[c] = None])
      BY <1>9, <2>4 DEF Users!Succeeds, Users!MapAnswered
    <3>2. "busy" \in DOMAIN u /\ DOMAIN u = DOMAIN ui /\ u.busy = ui.busy
      BY <1>b, <3>1
    <3> QED  BY <2>1, <2>2, <3>1, <3>2
  <2>5. CASE q.op = "unlink"
    BY <1>9, <1>b, <2>1, <2>2, <2>5 DEF Users!Succeeds
  <2>6. CASE q.op = "create"
    <3>1. Other(Users!Request("link", q.ids), ops)
      BY DEF Users!Request, Other, Fields
    <3>2. /\ wire' = (wire \ {q}) \cup {Users!Request("link", q.ids)}
          /\ DOMAIN ui' = DOMAIN ui /\ (ui.busy \cap ops) \ {q.op} \subseteq ui'.busy
      BY <1>9, <1>b, <2>2, <2>6 DEF Users!Succeeds, Users!CreateAnswered
    <3> QED  BY <1>b, <3>1, <3>2, Ends
  <2>7. CASE q.op \notin {"apply", "map", "unlink", "create"}
    BY <1>9, <1>b, <2>1, <2>7 DEF Users!Succeeds
  <2> QED  BY <2>3, <2>4, <2>5, <2>6, <2>7
<1>10. ASSUME NEW q \in wire, Users!FailsHere(q)  PROVE Locked(ops)'
  <2> SUFFICES /\ \A f \in wire' : f \in wire \ {q} \/ Other(f, ops)
               /\ DOMAIN ui' = DOMAIN ui /\ (ui.busy \cap ops) \ {q.op} \subseteq ui'.busy
    BY <1>b, Ends
  <2>1. CASE q.op = "link"
    <3>1. Users!SettledAs(q, ui)
      BY <1>10, <2>1 DEF Users!FailsHere
    <3>2. \A f \in wire' : f \in wire \ {q} \/ Other(f, ops)
      BY <3>1 DEF Users!SettledAs, Users!Both, Users!Asked, Users!Lists, Other, Fields
    <3>3. DOMAIN ui' = DOMAIN ui /\ (ui.busy \cap ops) \ {q.op} \subseteq ui'.busy
      BY <1>b, <3>1 DEF Users!SettledAs, Users!Doubtless
    <3> QED  BY <3>2, <3>3
  <2>2. CASE q.op # "link"
    BY Zenon, <1>10, <1>b, <2>2 DEF Users!FailsHere
  <2> QED  BY <2>1, <2>2
<1> QED
  BY <1>1, <1>2, <1>3, <1>4, <1>5, <1>6, <1>7, <1>8, <1>9, <1>10 DEF Users!Next

-----------------------------------------------------------------------------
(* Learning platforms *)

LEMMA PlatformsStart ==
  ASSUME Platforms!Init  PROVE Locked({"add", "edit", "register"})
<1>1. "busy" \in DOMAIN ui
  BY DEF Platforms!Init
<1>2. \A f \in wire : DOMAIN f = Fields /\ f.op = "list"
  BY DEF Platforms!Init, Platforms!Fetch, Fields
<1> QED  BY <1>1, <1>2, Starts DEF Other

LEMMA PlatformsRequests ==
  ASSUME Locked({"add", "edit", "register"}), Platforms!Next
  PROVE  Locked({"add", "edit", "register"})'
<1> DEFINE ops == {"add", "edit", "register"}
<1>l. "list" \notin ops /\ DOMAIN Platforms!Fetch = Fields /\ Platforms!Fetch.op = "list"
  BY DEF Platforms!Fetch, Fields
<1>b. "busy" \in DOMAIN ui /\ WireTyped /\ Locked(ops)
  BY DEF Locked
<1>s. ASSUME NEW op, NEW ids, Platforms!Send(op, ids)  PROVE Locked(ops)'
  <2>1. DOMAIN Platforms!Request(op, ids) = Fields /\ Platforms!Request(op, ids).op = op
    BY DEF Platforms!Request, Fields
  <2>2. /\ op \notin ui.busy /\ wire' = wire \cup {Platforms!Request(op, ids)}
        /\ DOMAIN ui' = DOMAIN ui /\ ui.busy \cup {op} \subseteq ui'.busy
    BY <1>s, <1>b DEF Platforms!Send, Platforms!Submitted
  <2> QED  BY <1>b, <2>1, <2>2, Sends
<1>f. ASSUME NEW op, op \notin ops, NEW ids, Platforms!SendFreely(op, ids)  PROVE Locked(ops)'
  <2>1. Other(Platforms!Request(op, ids), ops)
    BY <1>f DEF Platforms!Request, Fields, Other
  <2>2. wire' = wire \cup {Platforms!Request(op, ids)} /\ ui' = ui
    BY <1>f DEF Platforms!SendFreely
  <2> QED  BY <1>b, <2>1, <2>2, Waits
<1>t. ASSUME NEW q \in wire, NEW status, wire' = Platforms!Becomes(q, status), ui' = ui
      PROVE  Locked(ops)'
  <2> DEFINE new == [q EXCEPT !.status = status]
  <2>1. DOMAIN new = Fields /\ new.op = q.op
    BY <1>b DEF WireTyped, Fields
  <2>2. wire' = (wire \ {q}) \cup {new}
    BY <1>t DEF Platforms!Becomes
  <2> HIDE DEF new
  <2> QED  BY <1>b, <1>t, <2>1, <2>2, Turns
<1>r. ASSUME NEW q \in wire, NEW status, NEW rows, ui' = ui,
             wire' = (wire \ {q}) \cup {[q EXCEPT !.status = status, !.rows = rows]}
      PROVE  Locked(ops)'
  <2> DEFINE new == [q EXCEPT !.status = status, !.rows = rows]
  <2>1. DOMAIN new = Fields /\ new.op = q.op /\ wire' = (wire \ {q}) \cup {new}
    BY <1>b, <1>r DEF WireTyped, Fields
  <2> HIDE DEF new
  <2> QED  BY <1>b, <1>r, <2>1, Turns
<1>e. ASSUME NEW q \in wire, NEW u, DOMAIN u = DOMAIN ui, ui.busy \cap ops \subseteq u.busy,
             Platforms!Settles(q, u) \/ Platforms!SettlesAndFetches(q, u)
      PROVE  Locked(ops)'
  <2>1. /\ \A f \in wire' : f \in wire \ {q} \/ Other(f, ops)
        /\ DOMAIN ui' = DOMAIN ui /\ (ui.busy \cap ops) \ {q.op} \subseteq ui'.busy
    <3>1. CASE Platforms!Settles(q, u)
      BY <1>b, <1>e, <3>1 DEF Platforms!Settles
    <3>2. CASE Platforms!SettlesAndFetches(q, u)
      BY <1>b, <1>l, <1>e, <3>2
         DEF Platforms!SettlesAndFetches, Platforms!Doubtless, Platforms!Refetch, Other
    <3> QED  BY <1>e, <3>1, <3>2
  <2> QED  BY <1>b, <2>1, Ends
<1>1. CASE Platforms!TurnPage
  <2>1. /\ \A f \in wire' : f \in wire \/ Other(f, ops)
        /\ DOMAIN ui' = DOMAIN ui /\ ui.busy \cap ops \subseteq ui'.busy
    BY <1>1, <1>b, <1>l
       DEF Platforms!TurnPage, Platforms!ChangeQuery, Platforms!Doubtless, Platforms!Refetch,
           Other
  <2> QED  BY <1>b, <2>1, Waits
<1>2. CASE Platforms!OpenAdd \/ Platforms!OpenEdit \/ Platforms!OpenRegister
           \/ Platforms!OpenRecreate \/ Platforms!OpenArchive \/ Platforms!Close
           \/ Platforms!CloseInfo
  <2>1. /\ wire' = wire
        /\ DOMAIN ui' = DOMAIN ui /\ ui.busy \cap ops \subseteq ui'.busy
    BY <1>2, <1>b, <1>l
       DEF Platforms!OpenAdd, Platforms!Open, Platforms!OpenEdit, Platforms!OpenRegister,
           Platforms!OpenRecreate, Platforms!OpenArchive, Platforms!Close, Platforms!CloseInfo,
           Platforms!Shows
  <2> QED  BY <1>b, <2>1, Waits
<1>3. CASE Platforms!SubmitAdd \/ Platforms!SubmitEdit \/ Platforms!SubmitRegister
  BY <1>3, <1>s DEF Platforms!SubmitAdd, Platforms!SubmitEdit, Platforms!SubmitRegister
<1>4. CASE Platforms!Recreate \/ Platforms!ArchiveToggle
  <2>1. \A f \in wire' : f \in wire \/ Other(f, ops)
    BY <1>4
       DEF Platforms!Recreate, Platforms!Confirm, Platforms!ArchiveToggle, Platforms!Request,
           Other, Fields
  <2>2. DOMAIN ui' = DOMAIN ui /\ ui'.busy = ui.busy
    BY <1>4, <1>b DEF Platforms!Recreate, Platforms!Confirm, Platforms!ArchiveToggle
  <2> QED  BY <1>b, <2>1, <2>2, Waits
<1>5. CASE Platforms!ShowAuthInfo
  BY <1>5, <1>f DEF Platforms!ShowAuthInfo
<1>6. CASE Platforms!ListServed(Platforms!Rows)
  <2>1. PICK q \in wire : \E status, rows :
          wire' = (wire \ {q}) \cup {[q EXCEPT !.status = status, !.rows = rows]} /\ ui' = ui
    BY Zenon, <1>6 DEF Platforms!ListServed
  <2> QED  BY Zenon, <2>1, <1>r
<1>7. CASE Platforms!ListArrives
  <2>1. /\ \A f \in wire' : f \in wire \/ Other(f, ops)
        /\ DOMAIN ui' = DOMAIN ui /\ ui.busy \cap ops \subseteq ui'.busy
    BY <1>7, <1>b, <1>l DEF Platforms!ListArrives, Platforms!Doubtless, Platforms!Refetch, Other
  <2> QED  BY <1>b, <2>1, Waits
<1>8. ASSUME NEW q \in wire, Platforms!Serve(q)  PROVE Locked(ops)'
  <2>1. ui' = ui /\ ((\E status : wire' = Platforms!Becomes(q, status)) \/
          (\E status, rows : wire' = (wire \ {q}) \cup {[q
                    EXCEPT !.status = status, !.rows = rows]}))
    BY Zenon, <1>8
       DEF Platforms!Serve, Platforms!ServePost, Platforms!ServeInfo, Platforms!Made,
           Platforms!Served
  <2> QED  BY Zenon, <2>1, <1>t, <1>r
<1>9. ASSUME NEW q \in wire, Platforms!Succeeds(q)  PROVE Locked(ops)'
  <2>1. CASE q.op = "info"
    <3> DEFINE u == Platforms!Informed(q, ui)
    <3>1. Platforms!Settles(q, u)
      BY <1>9, <2>1 DEF Platforms!Succeeds, Platforms!Informed
    <3>2. DOMAIN u = DOMAIN ui /\ ui.busy \cap ops \subseteq u.busy
      BY <1>b DEF Platforms!Informed
    <3> HIDE DEF u
    <3> QED  BY <3>1, <3>2, <1>e
  <2>2. CASE q.op = "state"
    <3> DEFINE u == Platforms!Closed("archive")
    <3>1. Platforms!SettlesAndFetches(q, u)
      BY <1>9, <2>2 DEF Platforms!Succeeds, Platforms!Closed
    <3>2. DOMAIN u = DOMAIN ui /\ ui.busy \cap ops \subseteq u.busy
      BY <1>b DEF Platforms!Closed
    <3> HIDE DEF u
    <3> QED  BY <3>1, <3>2, <1>e
  <2>3. CASE q.op \in {"register", "recreate"}
    <3> DEFINE u == Platforms!Informed(q, Platforms!Closed(q.op))
    <3>1. Platforms!SettlesAndFetches(q, u)
      BY <1>9, <2>3 DEF Platforms!Succeeds, Platforms!Informed, Platforms!Closed
    <3>2. DOMAIN u = DOMAIN ui /\ ui.busy \cap ops \subseteq u.busy
      BY <1>b DEF Platforms!Informed, Platforms!Closed
    <3> HIDE DEF u
    <3> QED  BY <3>1, <3>2, <1>e
  <2>4. CASE q.op \notin {"info", "state", "register", "recreate"}
    <3> DEFINE u == Platforms!Closed(q.op)
    <3>1. Platforms!SettlesAndFetches(q, u)
      BY <1>9, <2>4 DEF Platforms!Succeeds, Platforms!Closed
    <3>2. DOMAIN u = DOMAIN ui /\ ui.busy \cap ops \subseteq u.busy
      BY <1>b DEF Platforms!Closed
    <3> HIDE DEF u
    <3> QED  BY <3>1, <3>2, <1>e
  <2> QED  BY <1>9, <2>1, <2>2, <2>3, <2>4 DEF Platforms!Succeeds
<1>10. ASSUME NEW q \in wire, Platforms!Fails(q)  PROVE Locked(ops)'
  <2>1. /\ \A f \in wire' : f \in wire \ {q} \/ Other(f, ops)
        /\ DOMAIN ui' = DOMAIN ui /\ (ui.busy \cap ops) \ {q.op} \subseteq ui'.busy
    BY <1>10, <1>b, <1>l DEF Platforms!Fails, Platforms!Doubtless, Platforms!Refetch, Other
  <2> QED  BY <1>b, <2>1, Ends
<1> QED
  BY <1>1, <1>2, <1>3, <1>4, <1>5, <1>6, <1>7, <1>8, <1>9, <1>10 DEF Platforms!Next

-----------------------------------------------------------------------------
(* Facilities *)

LEMMA FacilitiesStart ==
  ASSUME FacilitiesPage!Init  PROVE Locked({"add", "edit", "delete"})
<1>1. "busy" \in DOMAIN ui
  BY DEF FacilitiesPage!Init
<1>2. \A f \in wire : DOMAIN f = Fields /\ f.op = "list"
  BY DEF FacilitiesPage!Init, FacilitiesPage!Fetch, Fields
<1> QED  BY <1>1, <1>2, Starts DEF Other

LEMMA FacilitiesRequests ==
  ASSUME Locked({"add", "edit", "delete"}), FacilitiesPage!Next
  PROVE  Locked({"add", "edit", "delete"})'
<1> DEFINE ops == {"add", "edit", "delete"}
<1>l. "list" \notin ops /\ DOMAIN FacilitiesPage!Fetch = Fields /\ FacilitiesPage!Fetch.op = "list"
  BY DEF FacilitiesPage!Fetch, Fields
<1>b. "busy" \in DOMAIN ui /\ WireTyped /\ Locked(ops)
  BY DEF Locked
<1>s. ASSUME NEW op, NEW ids, FacilitiesPage!Send(op, ids)  PROVE Locked(ops)'
  <2>1. DOMAIN FacilitiesPage!Request(op, ids) = Fields /\ FacilitiesPage!Request(op, ids).op = op
    BY DEF FacilitiesPage!Request, Fields
  <2>2. /\ op \notin ui.busy /\ wire' = wire \cup {FacilitiesPage!Request(op, ids)}
        /\ DOMAIN ui' = DOMAIN ui /\ ui.busy \cup {op} \subseteq ui'.busy
    BY <1>s, <1>b DEF FacilitiesPage!Send, FacilitiesPage!Submitted
  <2> QED  BY <1>b, <2>1, <2>2, Sends
<1>t. ASSUME NEW q \in wire, NEW status, wire' = FacilitiesPage!Becomes(q, status), ui' = ui
      PROVE  Locked(ops)'
  <2> DEFINE new == [q EXCEPT !.status = status]
  <2>1. DOMAIN new = Fields /\ new.op = q.op
    BY <1>b DEF WireTyped, Fields
  <2>2. wire' = (wire \ {q}) \cup {new}
    BY <1>t DEF FacilitiesPage!Becomes
  <2> HIDE DEF new
  <2> QED  BY <1>b, <1>t, <2>1, <2>2, Turns
<1>r. ASSUME NEW q \in wire, NEW status, NEW rows, ui' = ui,
             wire' = (wire \ {q}) \cup {[q EXCEPT !.status = status, !.rows = rows]}
      PROVE  Locked(ops)'
  <2> DEFINE new == [q EXCEPT !.status = status, !.rows = rows]
  <2>1. DOMAIN new = Fields /\ new.op = q.op /\ wire' = (wire \ {q}) \cup {new}
    BY <1>b, <1>r DEF WireTyped, Fields
  <2> HIDE DEF new
  <2> QED  BY <1>b, <1>r, <2>1, Turns
<1>e. ASSUME NEW q \in wire, NEW u, DOMAIN u = DOMAIN ui, ui.busy \cap ops \subseteq u.busy,
             FacilitiesPage!Settles(q, u) \/ FacilitiesPage!SettlesAndFetches(q, u)
      PROVE  Locked(ops)'
  <2>1. /\ \A f \in wire' : f \in wire \ {q} \/ Other(f, ops)
        /\ DOMAIN ui' = DOMAIN ui /\ (ui.busy \cap ops) \ {q.op} \subseteq ui'.busy
    <3>1. CASE FacilitiesPage!Settles(q, u)
      BY <1>b, <1>e, <3>1 DEF FacilitiesPage!Settles
    <3>2. CASE FacilitiesPage!SettlesAndFetches(q, u)
      BY <1>b, <1>l, <1>e, <3>2
         DEF FacilitiesPage!SettlesAndFetches, FacilitiesPage!Doubtless, FacilitiesPage!Refetch,
             Other
    <3> QED  BY <1>e, <3>1, <3>2
  <2> QED  BY <1>b, <2>1, Ends
<1>1. CASE FacilitiesPage!OpenAdd \/ FacilitiesPage!CloseForm \/ FacilitiesPage!CloseDelete
           \/ (\E f : FacilitiesPage!OpenEdit(f)) \/ (\E f : FacilitiesPage!OpenDelete(f))
           \/ (\E f : FacilitiesPage!Occupy(f)) \/ (\E w : FacilitiesPage!Search(w))
           \/ (\E p : FacilitiesPage!TurnPage(p))
  <2>1. /\ wire' = wire
        /\ DOMAIN ui' = DOMAIN ui /\ ui.busy \cap ops \subseteq ui'.busy
    BY Zenon, <1>1, <1>b, <1>l
       DEF FacilitiesPage!OpenAdd, FacilitiesPage!CloseForm, FacilitiesPage!CloseDelete,
           FacilitiesPage!OpenEdit, FacilitiesPage!OpenDelete, FacilitiesPage!Occupy,
           FacilitiesPage!Search, FacilitiesPage!TurnPage, FacilitiesPage!Shows
  <2> QED  BY <1>b, <2>1, Waits
<1>2. CASE (\E f : FacilitiesPage!SubmitAdd(f)) \/ FacilitiesPage!SubmitEdit
           \/ FacilitiesPage!SubmitDelete
  BY Zenon, <1>2, <1>s
     DEF FacilitiesPage!SubmitAdd, FacilitiesPage!SubmitEdit, FacilitiesPage!SubmitDelete
<1>3. CASE FacilitiesPage!ListServed(FacilitiesPage!Rows)
  <2>1. PICK q \in wire : \E status, rows :
          wire' = (wire \ {q}) \cup {[q EXCEPT !.status = status, !.rows = rows]} /\ ui' = ui
    BY Zenon, <1>3 DEF FacilitiesPage!ListServed
  <2> QED  BY Zenon, <2>1, <1>r
<1>4. CASE FacilitiesPage!ListArrives
  <2>1. /\ \A f \in wire' : f \in wire \/ Other(f, ops)
        /\ DOMAIN ui' = DOMAIN ui /\ ui.busy \cap ops \subseteq ui'.busy
    BY <1>4, <1>b, <1>l
       DEF FacilitiesPage!ListArrives, FacilitiesPage!Doubtless, FacilitiesPage!Refetch, Other
  <2> QED  BY <1>b, <2>1, Waits
<1>5. ASSUME NEW q \in wire, FacilitiesPage!Serve(q)  PROVE Locked(ops)'
  <2>1. ui' = ui /\ \E status : wire' = FacilitiesPage!Becomes(q, status)
    BY <1>5 DEF FacilitiesPage!Serve, FacilitiesPage!Served, FacilitiesPage!Refused
  <2> QED  BY <2>1, <1>t
<1>6. ASSUME NEW q \in wire, FacilitiesPage!Succeeds(q)  PROVE Locked(ops)'
  <2>1. CASE q.op = "add"
    <3> DEFINE u == [ui EXCEPT !.dialog = IF @ = "add" THEN "none" ELSE @]
    <3>1. FacilitiesPage!SettlesAndFetches(q, u)
      BY <1>6, <2>1 DEF FacilitiesPage!Succeeds
    <3>2. DOMAIN u = DOMAIN ui /\ ui.busy \cap ops \subseteq u.busy
      BY <1>b
    <3> HIDE DEF u
    <3> QED  BY <3>1, <3>2, <1>e
  <2>2. CASE q.op = "edit"
    <3> DEFINE u == [ui EXCEPT !.item = None, !.dialog = IF @ = "edit" THEN "none" ELSE @]
    <3>1. FacilitiesPage!SettlesAndFetches(q, u)
      BY <1>6, <2>2 DEF FacilitiesPage!Succeeds
    <3>2. DOMAIN u = DOMAIN ui /\ ui.busy \cap ops \subseteq u.busy
      BY <1>b
    <3> HIDE DEF u
    <3> QED  BY <3>1, <3>2, <1>e
  <2>3. CASE q.op = "delete"
    <3> DEFINE u == FacilitiesPage!Left
    <3>1. FacilitiesPage!SettlesAndFetches(q, u)
      BY <1>6, <2>3 DEF FacilitiesPage!Succeeds, FacilitiesPage!Deleted, FacilitiesPage!Left
    <3>2. DOMAIN u = DOMAIN ui /\ ui.busy \cap ops \subseteq u.busy
      BY <1>b DEF FacilitiesPage!Deleted, FacilitiesPage!Left
    <3> HIDE DEF u
    <3> QED  BY <3>1, <3>2, <1>e
  <2> QED  BY <1>6, <2>1, <2>2, <2>3 DEF FacilitiesPage!Succeeds
<1>7. ASSUME NEW q \in wire, FacilitiesPage!FailsHere(q)  PROVE Locked(ops)'
  <2>1. /\ \A f \in wire' : f \in wire \ {q} \/ Other(f, ops)
        /\ DOMAIN ui' = DOMAIN ui /\ (ui.busy \cap ops) \ {q.op} \subseteq ui'.busy
    BY Zenon, <1>7, <1>b, <1>l
       DEF FacilitiesPage!FailsHere, FacilitiesPage!Fails, FacilitiesPage!Left,
           FacilitiesPage!Doubtless, FacilitiesPage!Refetch, Other
  <2> QED  BY <1>b, <2>1, Ends
<1> QED
  BY <1>1, <1>2, <1>3, <1>4, <1>5, <1>6, <1>7 DEF FacilitiesPage!Next

-----------------------------------------------------------------------------
(* The programs page *)

LEMMA ProgramsStart ==
  ASSUME ProgramsPage!Init  PROVE Locked({"create"})
<1>1. "busy" \in DOMAIN ui
  BY DEF ProgramsPage!Init
<1>2. \A f \in wire : DOMAIN f = Fields /\ f.op = "list"
  BY DEF ProgramsPage!Init, ProgramsPage!Fetch, Fields
<1> QED  BY <1>1, <1>2, Starts DEF Other

LEMMA ProgramsRequests ==
  ASSUME Locked({"create"}), ProgramsPage!Next
  PROVE  Locked({"create"})'
<1> DEFINE ops == {"create"}
<1>l. "list" \notin ops /\ DOMAIN ProgramsPage!Fetch = Fields /\ ProgramsPage!Fetch.op = "list"
  BY DEF ProgramsPage!Fetch, Fields
<1>b. "busy" \in DOMAIN ui /\ WireTyped /\ Locked(ops)
  BY DEF Locked
<1>s. ASSUME NEW op, NEW ids, ProgramsPage!Send(op, ids)  PROVE Locked(ops)'
  <2>1. DOMAIN ProgramsPage!Request(op, ids) = Fields /\ ProgramsPage!Request(op, ids).op = op
    BY DEF ProgramsPage!Request, Fields
  <2>2. /\ op \notin ui.busy /\ wire' = wire \cup {ProgramsPage!Request(op, ids)}
        /\ DOMAIN ui' = DOMAIN ui /\ ui.busy \cup {op} \subseteq ui'.busy
    BY <1>s, <1>b DEF ProgramsPage!Send, ProgramsPage!Submitted
  <2> QED  BY <1>b, <2>1, <2>2, Sends
<1>t. ASSUME NEW q \in wire, NEW status, wire' = ProgramsPage!Becomes(q, status), ui' = ui
      PROVE  Locked(ops)'
  <2> DEFINE new == [q EXCEPT !.status = status]
  <2>1. DOMAIN new = Fields /\ new.op = q.op
    BY <1>b DEF WireTyped, Fields
  <2>2. wire' = (wire \ {q}) \cup {new}
    BY <1>t DEF ProgramsPage!Becomes
  <2> HIDE DEF new
  <2> QED  BY <1>b, <1>t, <2>1, <2>2, Turns
<1>r. ASSUME NEW q \in wire, NEW status, NEW rows, ui' = ui,
             wire' = (wire \ {q}) \cup {[q EXCEPT !.status = status, !.rows = rows]}
      PROVE  Locked(ops)'
  <2> DEFINE new == [q EXCEPT !.status = status, !.rows = rows]
  <2>1. DOMAIN new = Fields /\ new.op = q.op /\ wire' = (wire \ {q}) \cup {new}
    BY <1>b, <1>r DEF WireTyped, Fields
  <2> HIDE DEF new
  <2> QED  BY <1>b, <1>r, <2>1, Turns
<1>e. ASSUME NEW q \in wire, NEW u, DOMAIN u = DOMAIN ui, ui.busy \cap ops \subseteq u.busy,
             ProgramsPage!Settles(q, u) \/ ProgramsPage!SettlesAndFetches(q, u)
      PROVE  Locked(ops)'
  <2>1. /\ \A f \in wire' : f \in wire \ {q} \/ Other(f, ops)
        /\ DOMAIN ui' = DOMAIN ui /\ (ui.busy \cap ops) \ {q.op} \subseteq ui'.busy
    <3>1. CASE ProgramsPage!Settles(q, u)
      BY <1>b, <1>e, <3>1 DEF ProgramsPage!Settles
    <3>2. CASE ProgramsPage!SettlesAndFetches(q, u)
      BY <1>b, <1>l, <1>e, <3>2
         DEF ProgramsPage!SettlesAndFetches, ProgramsPage!Doubtless, ProgramsPage!Refetch, Other
    <3> QED  BY <1>e, <3>1, <3>2
  <2> QED  BY <1>b, <2>1, Ends
<1>1. CASE ProgramsPage!ToggleFilter \/ (\E p : ProgramsPage!TurnPage(p))
           \/ ProgramsPage!ToggleForm \/ ProgramsPage!Cancel \/ (\E f : ProgramsPage!Fill(f))
           \/ (\E f : ProgramsPage!Clear(f)) \/ (\E loads : ProgramsPage!Canvas(loads))
  <2>1. /\ wire' = wire
        /\ DOMAIN ui' = DOMAIN ui /\ ui.busy \cap ops \subseteq ui'.busy
    BY Zenon, <1>1, <1>b, <1>l
       DEF ProgramsPage!ToggleFilter, ProgramsPage!TurnPage, ProgramsPage!ToggleForm,
           ProgramsPage!Cancel, ProgramsPage!Fill, ProgramsPage!Clear, ProgramsPage!Canvas,
           ProgramsPage!Shows
  <2> QED  BY <1>b, <2>1, Waits
<1>2. CASE ProgramsPage!Create
  BY <1>2, <1>s DEF ProgramsPage!Create
<1>3. CASE ProgramsPage!Tick
  <2>1. /\ \A f \in wire' : f \in wire \/ Other(f, ops)
        /\ DOMAIN ui' = DOMAIN ui /\ ui.busy \cap ops \subseteq ui'.busy
    BY <1>3, <1>b, <1>l DEF ProgramsPage!Tick, ProgramsPage!Doubtless, ProgramsPage!Refetch, Other
  <2> QED  BY <1>b, <2>1, Waits
<1>4. CASE ProgramsPage!Reload
  <2>1. "busy" \in DOMAIN ui' /\ wire' = {ProgramsPage!Fetch}
    BY <1>4 DEF ProgramsPage!Reload
  <2> QED  BY <1>l, <2>1 DEF Locked, WireTyped
<1>5. CASE ProgramsPage!ListServed(ProgramsPage!Rows)
  <2>1. PICK q \in wire : \E status, rows :
          wire' = (wire \ {q}) \cup {[q EXCEPT !.status = status, !.rows = rows]} /\ ui' = ui
    BY Zenon, <1>5 DEF ProgramsPage!ListServed
  <2> QED  BY Zenon, <2>1, <1>r
<1>6. CASE ProgramsPage!Arrives \/ ProgramsPage!ListLost
  <2>1. /\ \A f \in wire' : f \in wire \/ Other(f, ops)
        /\ DOMAIN ui' = DOMAIN ui /\ ui.busy \cap ops \subseteq ui'.busy
    BY Zenon, <1>6, <1>b, <1>l
       DEF ProgramsPage!Arrives, ProgramsPage!Poll, ProgramsPage!Pending, ProgramsPage!ListLost,
           ProgramsPage!Doubtless, ProgramsPage!Refetch, Other
  <2> QED  BY <1>b, <2>1, Waits
<1>7. ASSUME NEW q \in wire, ProgramsPage!ServeCreate(q)  PROVE Locked(ops)'
  <2>1. ui' = ui /\ \E status : wire' = ProgramsPage!Becomes(q, status)
    BY <1>7 DEF ProgramsPage!ServeCreate, ProgramsPage!Served
  <2> QED  BY <2>1, <1>t
<1>8. ASSUME NEW q \in wire, ProgramsPage!Created(q)  PROVE Locked(ops)'
  <2> DEFINE u == [ui EXCEPT !.form = FALSE, !.filled = {}]
  <2>1. ProgramsPage!SettlesAndFetches(q, u)
    BY <1>8 DEF ProgramsPage!Created
  <2>2. DOMAIN u = DOMAIN ui /\ ui.busy \cap ops \subseteq u.busy
    BY <1>b
  <2> HIDE DEF u
  <2> QED  BY <2>1, <2>2, <1>e
<1>9. ASSUME NEW q \in wire, ProgramsPage!Fails(q)  PROVE Locked(ops)'
  <2>1. /\ \A f \in wire' : f \in wire \ {q} \/ Other(f, ops)
        /\ DOMAIN ui' = DOMAIN ui /\ (ui.busy \cap ops) \ {q.op} \subseteq ui'.busy
    BY <1>9, <1>b, <1>l
       DEF ProgramsPage!Fails, ProgramsPage!Doubtless, ProgramsPage!Refetch, Other
  <2> QED  BY <1>b, <2>1, Ends
<1> QED
  BY Zenon, <1>1, <1>2, <1>3, <1>4, <1>5, <1>6, <1>7, <1>8, <1>9 DEF ProgramsPage!Next

-----------------------------------------------------------------------------
(* The form of a program *)

\* A program is created by a form that fetches nothing: no fetch enables its button.
ProgramFormLocked ==
  /\ {"edits", "busy"} \subseteq DOMAIN ui
  /\ Locked({"create"})
  /\ \A q \in wire : (q.op = "list" => ui.edits) /\ (q.op = "create" => ~ui.edits)

LEMMA ProgramFormStart ==
  ASSUME ProgramForms!Init  PROVE ProgramFormLocked
<1> USE DEF ProgramForms!Blank, ProgramForms!Defaults, ProgramForms!Closed
<1>1. {"edits", "busy"} \subseteq DOMAIN ui
  BY DEF ProgramForms!Init
<1>2. wire = {} \/ (wire = {ProgramForms!Fetch} /\ ui.edits)
  BY DEF ProgramForms!Init
<1>3. DOMAIN ProgramForms!Fetch = Fields /\ ProgramForms!Fetch.op = "list"
  BY DEF ProgramForms!Fetch, Fields
<1> QED  BY <1>1, <1>2, <1>3 DEF ProgramFormLocked, Locked, WireTyped

LEMMA ProgramFormRequests ==
  ASSUME ProgramFormLocked, ProgramForms!Next
  PROVE  ProgramFormLocked'
<1> USE DEF ProgramFormLocked, Locked, WireTyped, Fields, ProgramForms!Pending,
            ProgramForms!Writes
<1>1. ASSUME NEW u, ProgramForms!Shows(u), DOMAIN u = DOMAIN ui, u.busy = ui.busy,
             u.edits = ui.edits
      PROVE  ProgramFormLocked'
  BY <1>1 DEF ProgramForms!Shows
<1>2. ASSUME NEW f, \/ ProgramForms!Fill(f) \/ ProgramForms!Clear(f) \/ ProgramForms!Check(f)
                    \/ ProgramForms!Uncheck(f)
      PROVE  ProgramFormLocked'
  BY <1>2, <1>1
     DEF ProgramForms!Fill, ProgramForms!Clear, ProgramForms!Check, ProgramForms!Uncheck
<1>3. CASE ProgramForms!CloseWarning \/ ProgramForms!Cancel
  BY <1>3, <1>1 DEF ProgramForms!CloseWarning, ProgramForms!Cancel, ProgramForms!Leave
<1>4. CASE ProgramForms!Save
  BY <1>4
     DEF ProgramForms!Save, ProgramForms!Send, ProgramForms!Submitted, ProgramForms!Request
<1>5. CASE ProgramForms!Elsewhere
  BY <1>5 DEF ProgramForms!Elsewhere
<1>6. CASE ProgramForms!ListServed(ProgramForms!Rows)
  BY <1>6 DEF ProgramForms!ListServed
<1>7. CASE ProgramForms!Arrives
  BY <1>7 DEF ProgramForms!Arrives, ProgramForms!Reset, ProgramForms!Defaults
<1>8. CASE ProgramForms!ListLost
  BY <1>8 DEF ProgramForms!ListLost
<1>9. ASSUME NEW q \in wire, ProgramForms!ServeCreate(q) \/ ProgramForms!ServeEdit(q)
      PROVE  ProgramFormLocked'
  <2>1. PICK rows : ProgramForms!Served(q, rows)
    BY <1>9 DEF ProgramForms!ServeCreate, ProgramForms!ServeEdit
  <2> QED  BY <2>1 DEF ProgramForms!Served, ProgramForms!Becomes
<1>10. ASSUME NEW q \in wire, ProgramForms!Saved(q)  PROVE ProgramFormLocked'
  BY <1>10 DEF ProgramForms!Saved, ProgramForms!Settles, ProgramForms!Leave
<1>11. ASSUME NEW q \in wire, ProgramForms!Fails(q)  PROVE ProgramFormLocked'
  BY <1>11 DEF ProgramForms!Fails
<1> QED
  <2> HIDE DEF ProgramFormLocked
  <2> QED
    BY <1>2, <1>3, <1>4, <1>5, <1>6, <1>7, <1>8, <1>9, <1>10, <1>11 DEF ProgramForms!Next

-----------------------------------------------------------------------------
(* The form of a class *)

LEMMA FormStart ==
  ASSUME Form!Init  PROVE Locked({"save"})
<1>1. "busy" \in DOMAIN ui
  BY DEF Form!Init
<1>2. \A f \in wire : DOMAIN f = Fields /\ f.op = "list"
  BY DEF Form!Init, Form!Fetch, Fields
<1> QED  BY <1>1, <1>2, Starts DEF Other

LEMMA FormRequests ==
  ASSUME Locked({"save"}), Form!Next
  PROVE  Locked({"save"})'
<1> DEFINE ops == {"save"}
<1>l. "list" \notin ops /\ DOMAIN Form!Fetch = Fields /\ Form!Fetch.op = "list"
  BY DEF Form!Fetch, Fields
<1>b. "busy" \in DOMAIN ui /\ WireTyped /\ Locked(ops)
  BY DEF Locked
<1>s. ASSUME NEW op, NEW ids, Form!Send(op, ids)  PROVE Locked(ops)'
  <2>1. DOMAIN Form!Request(op, ids) = Fields /\ Form!Request(op, ids).op = op
    BY DEF Form!Request, Fields
  <2>2. /\ op \notin ui.busy /\ wire' = wire \cup {Form!Request(op, ids)}
        /\ DOMAIN ui' = DOMAIN ui /\ ui.busy \cup {op} \subseteq ui'.busy
    BY <1>s, <1>b DEF Form!Send, Form!Submitted
  <2> QED  BY <1>b, <2>1, <2>2, Sends
<1>f. ASSUME NEW op, op \notin ops, NEW ids, Form!SendFreely(op, ids)  PROVE Locked(ops)'
  <2>1. Other(Form!Request(op, ids), ops)
    BY <1>f DEF Form!Request, Fields, Other
  <2>2. wire' = wire \cup {Form!Request(op, ids)} /\ ui' = ui
    BY <1>f DEF Form!SendFreely
  <2> QED  BY <1>b, <2>1, <2>2, Waits
<1>t. ASSUME NEW q \in wire, NEW status, wire' = Form!Becomes(q, status), ui' = ui
      PROVE  Locked(ops)'
  <2> DEFINE new == [q EXCEPT !.status = status]
  <2>1. DOMAIN new = Fields /\ new.op = q.op
    BY <1>b DEF WireTyped, Fields
  <2>2. wire' = (wire \ {q}) \cup {new}
    BY <1>t DEF Form!Becomes
  <2> HIDE DEF new
  <2> QED  BY <1>b, <1>t, <2>1, <2>2, Turns
<1>r. ASSUME NEW q \in wire, NEW status, NEW rows, ui' = ui,
             wire' = (wire \ {q}) \cup {[q EXCEPT !.status = status, !.rows = rows]}
      PROVE  Locked(ops)'
  <2> DEFINE new == [q EXCEPT !.status = status, !.rows = rows]
  <2>1. DOMAIN new = Fields /\ new.op = q.op /\ wire' = (wire \ {q}) \cup {new}
    BY <1>b, <1>r DEF WireTyped, Fields
  <2> HIDE DEF new
  <2> QED  BY <1>b, <1>r, <2>1, Turns
<1>e. ASSUME NEW q \in wire, NEW u, DOMAIN u = DOMAIN ui, ui.busy \cap ops \subseteq u.busy,
             Form!Settles(q, u) \/ Form!SettlesAndFetches(q, u)
      PROVE  Locked(ops)'
  <2>1. /\ \A f \in wire' : f \in wire \ {q} \/ Other(f, ops)
        /\ DOMAIN ui' = DOMAIN ui /\ (ui.busy \cap ops) \ {q.op} \subseteq ui'.busy
    <3>1. CASE Form!Settles(q, u)
      BY <1>b, <1>e, <3>1 DEF Form!Settles
    <3>2. CASE Form!SettlesAndFetches(q, u)
      BY <1>b, <1>l, <1>e, <3>2 DEF Form!SettlesAndFetches, Form!Doubtless, Form!Refetch, Other
    <3> QED  BY <1>e, <3>1, <3>2
  <2> QED  BY <1>b, <2>1, Ends
<1>1. CASE Form!LeavePattern \/ Form!CloseDialog \/ Form!CloseConflicts \/ Form!Cancel
           \/ (\E d : Form!SetUntil(d)) \/ (\E c : Form!SetCadence(c))
           \/ (\E n : Form!SetEvery(n)) \/ (\E d : Form!ToggleDay(d))
           \/ (\E r : Form!ChooseRoom(r)) \/ (\E d : Form!OpenDialog(d))
  <2>1. /\ wire' = wire
        /\ DOMAIN ui' = DOMAIN ui /\ ui.busy \cap ops \subseteq ui'.busy
    BY Zenon, <1>1, <1>b, <1>l
       DEF Form!LeavePattern, Form!Fill, Form!CloseDialog, Form!CloseConflicts, Form!Cancel,
           Form!SetUntil, Form!SetCadence, Form!SetEvery, Form!ToggleDay, Form!ChooseRoom,
           Form!OpenDialog, Form!Shows
  <2> QED  BY <1>b, <2>1, Waits
<1>2. CASE Form!Submit
  BY <1>2, <1>s DEF Form!Submit
<1>3. CASE Form!AddInstructor \/ (\E r : Form!AddRoom(r))
  BY Zenon, <1>3, <1>f DEF Form!AddInstructor, Form!AddRoom
<1>4. CASE Form!ListServed(server)
  <2>1. PICK q \in wire : \E status, rows :
          wire' = (wire \ {q}) \cup {[q EXCEPT !.status = status, !.rows = rows]} /\ ui' = ui
    BY Zenon, <1>4 DEF Form!ListServed
  <2> QED  BY Zenon, <2>1, <1>r
<1>5. CASE Form!RoomsArrive
  <2>1. /\ \A f \in wire' : f \in wire \/ Other(f, ops)
        /\ DOMAIN ui' = DOMAIN ui /\ ui.busy \cap ops \subseteq ui'.busy
    BY <1>5, <1>b, <1>l DEF Form!RoomsArrive, Form!Pending, Form!Doubtless, Form!Refetch, Other
  <2> QED  BY <1>b, <2>1, Waits
<1>6. ASSUME NEW q \in wire, Form!Serve(q)  PROVE Locked(ops)'
  <2>1. ui' = ui /\ \E status : wire' = Form!Becomes(q, status)
    BY <1>6 DEF Form!Serve, Form!Served
  <2> QED  BY <2>1, <1>t
<1>7. ASSUME NEW q \in wire, Form!Succeeds(q)  PROVE Locked(ops)'
  <2>1. CASE q.op = "save"
    <3> DEFINE u == [ui EXCEPT !.left = TRUE]
    <3>1. Form!Settles(q, u) /\ DOMAIN u = DOMAIN ui /\ u.busy = ui.busy
      BY <1>7, <1>b, <2>1 DEF Form!Succeeds
    <3> HIDE DEF u
    <3> QED  BY <3>1, <1>e
  <2>2. CASE q.op = "instructor"
    <3> DEFINE u == Form!Closes(ui, "instructor")
    <3>1. Form!Settles(q, u) /\ DOMAIN u = DOMAIN ui /\ u.busy = ui.busy
      BY <1>7, <1>b, <2>2 DEF Form!Succeeds, Form!Closes
    <3> HIDE DEF u
    <3> QED  BY <3>1, <1>e
  <2>3. ASSUME NEW r, Form!Settles(q, Form!Closes(Form!WithRoom(r), "room"))  PROVE Locked(ops)'
    <3> DEFINE u == Form!Closes(Form!WithRoom(r), "room")
    <3>1. DOMAIN u = DOMAIN ui /\ u.busy = ui.busy
      BY <1>b DEF Form!Closes, Form!WithRoom
    <3> HIDE DEF u
    <3> QED  BY <2>3, <3>1, <1>e DEF u
  <2> QED  BY <1>7, <2>1, <2>2, <2>3 DEF Form!Succeeds
<1>8. ASSUME NEW q \in wire, Form!Conflicts(q)  PROVE Locked(ops)'
  <2> DEFINE u == [ui EXCEPT !.conflicts = TRUE]
  <2>1. Form!Settles(q, u)
    BY <1>8 DEF Form!Conflicts
  <2>2. DOMAIN u = DOMAIN ui /\ ui.busy \cap ops \subseteq u.busy
    BY <1>b
  <2> HIDE DEF u
  <2> QED  BY <2>1, <2>2, <1>e
<1>9. ASSUME NEW q \in wire, Form!FailsHere(q)  PROVE Locked(ops)'
  <2>1. /\ \A f \in wire' : f \in wire \ {q} \/ Other(f, ops)
        /\ DOMAIN ui' = DOMAIN ui /\ (ui.busy \cap ops) \ {q.op} \subseteq ui'.busy
    BY Zenon, <1>9, <1>b, <1>l
       DEF Form!FailsHere, Form!Fails, Form!Closes, Form!Doubtless, Form!Refetch, Other
  <2> QED  BY <1>b, <2>1, Ends
<1> QED
  BY <1>1, <1>2, <1>3, <1>4, <1>5, <1>6, <1>7, <1>8, <1>9 DEF Form!Next

-----------------------------------------------------------------------------
(* The roster of a class *)

LEMMA RosterStart ==
  ASSUME Roster!Init  PROVE Locked({"graduate", "status", "delete"})
<1>1. "busy" \in DOMAIN ui
  BY DEF Roster!Init, Roster!Idle
<1>2. \A f \in wire : DOMAIN f = Fields /\ f.op = "list"
  BY DEF Roster!Init, Roster!Idle, Fields
<1> QED  BY <1>1, <1>2, Starts DEF Other

LEMMA RosterRequests ==
  ASSUME Locked({"graduate", "status", "delete"}), Roster!Next
  PROVE  Locked({"graduate", "status", "delete"})'
<1> DEFINE ops == {"graduate", "status", "delete"}
<1>l. "list" \notin ops /\ DOMAIN Roster!Fetch = Fields /\ Roster!Fetch.op = "list"
  BY DEF Roster!Fetch, Fields
<1>b. "busy" \in DOMAIN ui /\ WireTyped /\ Locked(ops)
  BY DEF Locked
<1>s. ASSUME NEW op, NEW ids, Roster!Send(op, ids)  PROVE Locked(ops)'
  <2>1. DOMAIN Roster!Request(op, ids) = Fields /\ Roster!Request(op, ids).op = op
    BY DEF Roster!Request, Fields
  <2>2. /\ op \notin ui.busy /\ wire' = wire \cup {Roster!Request(op, ids)}
        /\ DOMAIN ui' = DOMAIN ui /\ ui.busy \cup {op} \subseteq ui'.busy
    BY <1>s, <1>b DEF Roster!Send, Roster!Submitted
  <2> QED  BY <1>b, <2>1, <2>2, Sends
<1>t. ASSUME NEW q \in wire, NEW status, wire' = Roster!Becomes(q, status), ui' = ui
      PROVE  Locked(ops)'
  <2> DEFINE new == [q EXCEPT !.status = status]
  <2>1. DOMAIN new = Fields /\ new.op = q.op
    BY <1>b DEF WireTyped, Fields
  <2>2. wire' = (wire \ {q}) \cup {new}
    BY <1>t DEF Roster!Becomes
  <2> HIDE DEF new
  <2> QED  BY <1>b, <1>t, <2>1, <2>2, Turns
<1>r. ASSUME NEW q \in wire, NEW status, NEW rows, ui' = ui,
             wire' = (wire \ {q}) \cup {[q EXCEPT !.status = status, !.rows = rows]}
      PROVE  Locked(ops)'
  <2> DEFINE new == [q EXCEPT !.status = status, !.rows = rows]
  <2>1. DOMAIN new = Fields /\ new.op = q.op /\ wire' = (wire \ {q}) \cup {new}
    BY <1>b, <1>r DEF WireTyped, Fields
  <2> HIDE DEF new
  <2> QED  BY <1>b, <1>r, <2>1, Turns
<1>1. CASE Roster!ClearSelection \/ Roster!Close \/ (\E p : Roster!ToggleSelect(p))
           \/ (\E found : Roster!ToggleAll(found)) \/ (\E d, p : Roster!OpenFor(d, p))
           \/ (\E d : Roster!Open(d))
  <2>1. /\ wire' = wire
        /\ DOMAIN ui' = DOMAIN ui /\ ui.busy \cap ops \subseteq ui'.busy
    BY Zenon, <1>1, <1>b, <1>l
       DEF Roster!ClearSelection, Roster!Close, Roster!ToggleSelect, Roster!ToggleAll,
           Roster!OpenFor, Roster!Open, Roster!Shows
  <2> QED  BY <1>b, <2>1, Waits
<1>2. CASE Roster!ChangeStatus \/ Roster!ChangeDate
  <2>1. \A f \in wire' : f \in wire \/ Other(f, ops)
    BY <1>2
       DEF Roster!ChangeStatus, Roster!SendAndClose, Roster!ChangeDate, Roster!Request, Other,
           Fields
  <2>2. DOMAIN ui' = DOMAIN ui /\ ui'.busy = ui.busy
    BY Zenon, <1>2, <1>b DEF Roster!ChangeStatus, Roster!SendAndClose, Roster!ChangeDate
  <2> QED  BY <1>b, <2>1, <2>2, Waits
<1>3. CASE Roster!Unenroll \/ Roster!Graduate \/ (\E s : Roster!ChangeClass(s))
           \/ Roster!DeleteClass
  BY Zenon, <1>3, <1>s DEF Roster!Unenroll, Roster!Graduate, Roster!ChangeClass, Roster!DeleteClass
<1>4. CASE Roster!FetchServed
  <2>1. PICK q \in wire : \E status, rows :
          wire' = (wire \ {q}) \cup {[q EXCEPT !.status = status, !.rows = rows]} /\ ui' = ui
    BY Zenon, <1>4 DEF Roster!FetchServed, Roster!Pending
  <2> QED  BY Zenon, <2>1, <1>r
<1>5. CASE Roster!FetchArrives \/ Roster!ListLost
  <2>1. /\ \A f \in wire' : f \in wire \/ Other(f, ops)
        /\ DOMAIN ui' = DOMAIN ui /\ ui.busy \cap ops \subseteq ui'.busy
    BY <1>5, <1>b, <1>l
       DEF Roster!FetchArrives, Roster!Pending, Roster!ListLost, Roster!Doubtless, Roster!Refetch,
           Other
  <2> QED  BY <1>b, <2>1, Waits
<1>6. ASSUME NEW q \in wire, Roster!Serve(q)  PROVE Locked(ops)'
  <2>1. ui' = ui /\ \E status : wire' = Roster!Becomes(q, status)
    BY <1>6 DEF Roster!Serve, Roster!Served
  <2> QED  BY <2>1, <1>t
<1>7. ASSUME NEW q \in wire, Roster!Succeeds(q)  PROVE Locked(ops)'
  <2>1. ASSUME NEW u, NEW keys, Roster!SettlesAnd(q, u, keys),
               DOMAIN u = DOMAIN ui, u.busy = ui.busy
        PROVE  Locked(ops)'
    <3>1. /\ \A f \in wire' : f \in wire \ {q} \/ Other(f, ops)
          /\ DOMAIN ui' = DOMAIN ui /\ (ui.busy \cap ops) \ {q.op} \subseteq ui'.busy
      BY <1>b, <1>l, <2>1
         DEF Roster!SettlesAnd, Roster!RefetchOf, Roster!FetchOf, Roster!Fetch, Other, Fields
    <3> QED  BY <1>b, <3>1, Ends
  <2>2. ASSUME NEW keys, Roster!SettlesAnd(q, ui, keys)  PROVE Locked(ops)'
    BY <2>1, <2>2
  <2>3. ASSUME NEW d, NEW keys, Roster!SettlesAnd(q, Roster!Without(d), keys)  PROVE Locked(ops)'
    <3>1. DOMAIN Roster!Without(d) = DOMAIN ui /\ Roster!Without(d).busy = ui.busy
      BY <1>b DEF Roster!Without
    <3> QED  BY <2>1, <2>3, <3>1
  <2>4. ASSUME NEW d, NEW keys, Roster!SettlesAnd(q, [Roster!Without(d)
            EXCEPT !.selected = {}], keys)
        PROVE  Locked(ops)'
    <3> DEFINE u == [Roster!Without(d) EXCEPT !.selected = {}]
    <3>1. DOMAIN u = DOMAIN ui /\ u.busy = ui.busy
      BY <1>b DEF Roster!Without
    <3> HIDE DEF u
    <3> QED  BY Zenon, <2>1, <2>4, <3>1 DEF u
  <2>5. ASSUME Roster!Settles(q, [ui EXCEPT !.left = TRUE])  PROVE Locked(ops)'
    <3>1. /\ \A f \in wire' : f \in wire \ {q}
          /\ DOMAIN ui' = DOMAIN ui /\ (ui.busy \cap ops) \ {q.op} \subseteq ui'.busy
      BY <1>b, <2>5 DEF Roster!Settles
    <3> QED  BY <1>b, <3>1, Ends
  <2> QED  BY <1>7, <2>2, <2>3, <2>4, <2>5 DEF Roster!Succeeds
<1>8. ASSUME NEW q \in wire, Roster!FailsHere(q)  PROVE Locked(ops)'
  <2>1. /\ \A f \in wire' : f \in wire \ {q} \/ Other(f, ops)
        /\ DOMAIN ui' = DOMAIN ui /\ (ui.busy \cap ops) \ {q.op} \subseteq ui'.busy
    BY <1>8, <1>b, <1>l
       DEF Roster!FailsHere, Roster!Without, Roster!Doubtless, Roster!Refetch, Other
  <2> QED  BY <1>b, <2>1, Ends
<1> QED
  BY <1>1, <1>2, <1>3, <1>4, <1>5, <1>6, <1>7, <1>8 DEF Roster!Next

-----------------------------------------------------------------------------
(* The sessions of a class *)

LEMMA SessionsStart ==
  ASSUME SessionsTab!Init  PROVE Locked({"off", "change", "move", "bulk_off", "bulk_change"})
<1>1. "busy" \in DOMAIN ui
  BY DEF SessionsTab!Init, SessionsTab!Idle
<1>2. \A f \in wire : DOMAIN f = Fields /\ f.op = "list"
  BY DEF SessionsTab!Init, SessionsTab!Idle, Fields
<1> QED  BY <1>1, <1>2, Starts DEF Other

LEMMA SessionsRequests ==
  ASSUME Locked({"off", "change", "move", "bulk_off", "bulk_change"}), SessionsTab!Next
  PROVE  Locked({"off", "change", "move", "bulk_off", "bulk_change"})'
<1> DEFINE ops == {"off", "change", "move", "bulk_off", "bulk_change"}
<1>l. "list" \notin ops /\ DOMAIN SessionsTab!Fetch = Fields /\ SessionsTab!Fetch.op = "list"
  BY DEF SessionsTab!Fetch, Fields
<1>b. "busy" \in DOMAIN ui /\ WireTyped /\ Locked(ops)
  BY DEF Locked
<1>s. ASSUME NEW op, NEW ids, SessionsTab!Send(op, ids)  PROVE Locked(ops)'
  <2>1. DOMAIN SessionsTab!Request(op, ids) = Fields /\ SessionsTab!Request(op, ids).op = op
    BY DEF SessionsTab!Request, Fields
  <2>2. /\ op \notin ui.busy /\ wire' = wire \cup {SessionsTab!Request(op, ids)}
        /\ DOMAIN ui' = DOMAIN ui /\ ui.busy \cup {op} \subseteq ui'.busy
    BY <1>s, <1>b DEF SessionsTab!Send, SessionsTab!Submitted
  <2> QED  BY <1>b, <2>1, <2>2, Sends
<1>f. ASSUME NEW op, op \notin ops, NEW ids, SessionsTab!SendFreely(op, ids)  PROVE Locked(ops)'
  <2>1. Other(SessionsTab!Request(op, ids), ops)
    BY <1>f DEF SessionsTab!Request, Fields, Other
  <2>2. wire' = wire \cup {SessionsTab!Request(op, ids)} /\ ui' = ui
    BY <1>f DEF SessionsTab!SendFreely
  <2> QED  BY <1>b, <2>1, <2>2, Waits
<1>t. ASSUME NEW q \in wire, NEW status, wire' = SessionsTab!Becomes(q, status), ui' = ui
      PROVE  Locked(ops)'
  <2> DEFINE new == [q EXCEPT !.status = status]
  <2>1. DOMAIN new = Fields /\ new.op = q.op
    BY <1>b DEF WireTyped, Fields
  <2>2. wire' = (wire \ {q}) \cup {new}
    BY <1>t DEF SessionsTab!Becomes
  <2> HIDE DEF new
  <2> QED  BY <1>b, <1>t, <2>1, <2>2, Turns
<1>r. ASSUME NEW q \in wire, NEW status, NEW rows, ui' = ui,
             wire' = (wire \ {q}) \cup {[q EXCEPT !.status = status, !.rows = rows]}
      PROVE  Locked(ops)'
  <2> DEFINE new == [q EXCEPT !.status = status, !.rows = rows]
  <2>1. DOMAIN new = Fields /\ new.op = q.op /\ wire' = (wire \ {q}) \cup {new}
    BY <1>b, <1>r DEF WireTyped, Fields
  <2> HIDE DEF new
  <2> QED  BY <1>b, <1>r, <2>1, Turns
<1>e. ASSUME NEW q \in wire, NEW u, DOMAIN u = DOMAIN ui, ui.busy \cap ops \subseteq u.busy,
             SessionsTab!Settles(q, u) \/ SessionsTab!SettlesAndFetches(q, u)
      PROVE  Locked(ops)'
  <2>1. /\ \A f \in wire' : f \in wire \ {q} \/ Other(f, ops)
        /\ DOMAIN ui' = DOMAIN ui /\ (ui.busy \cap ops) \ {q.op} \subseteq ui'.busy
    <3>1. CASE SessionsTab!Settles(q, u)
      BY <1>b, <1>e, <3>1 DEF SessionsTab!Settles
    <3>2. CASE SessionsTab!SettlesAndFetches(q, u)
      BY <1>b, <1>l, <1>e, <3>2
         DEF SessionsTab!SettlesAndFetches, SessionsTab!Doubtless, SessionsTab!Refetch, Other
    <3> QED  BY <1>e, <3>1, <3>2
  <2> QED  BY <1>b, <2>1, Ends
<1>1. CASE (\E d : SessionsTab!OpenMove(d)) \/ (\E d : SessionsTab!Toggle(d))
           \/ (\E op, d : SessionsTab!OpenOne(op, d)) \/ (\E op : SessionsTab!OpenBulk(op))
           \/ SessionsTab!ClearSelection \/ SessionsTab!Close
  <2>1. /\ wire' = wire
        /\ DOMAIN ui' = DOMAIN ui /\ ui.busy \cap ops \subseteq ui'.busy
    BY Zenon, <1>1, <1>b, <1>l
       DEF SessionsTab!OpenMove, SessionsTab!Toggle, SessionsTab!OpenOne, SessionsTab!OpenBulk,
           SessionsTab!ClearSelection, SessionsTab!Close, SessionsTab!Shows
  <2> QED  BY <1>b, <2>1, Waits
<1>2. CASE (\E d : SessionsTab!Reschedule(d)) \/ SessionsTab!Cancel \/ SessionsTab!Change
           \/ SessionsTab!BulkCancel \/ SessionsTab!BulkChange
  BY Zenon, <1>2, <1>s
     DEF SessionsTab!Reschedule, SessionsTab!Cancel, SessionsTab!One, SessionsTab!Change,
         SessionsTab!BulkCancel, SessionsTab!Bulk, SessionsTab!BulkChange
<1>3. CASE (\E d : SessionsTab!Undo(d)) \/ (\E d : SessionsTab!UndoCancel(d))
  BY Zenon, <1>3, <1>f DEF SessionsTab!Undo, SessionsTab!UndoCancel
<1>4. CASE SessionsTab!Reload
  <2>1. "busy" \in DOMAIN ui' /\ wire' = {SessionsTab!Fetch}
    BY <1>4 DEF SessionsTab!Reload, SessionsTab!Idle
  <2> QED  BY <1>l, <2>1 DEF Locked, WireTyped
<1>5. CASE SessionsTab!Read
  <2>1. PICK q \in wire : \E status, rows :
          wire' = (wire \ {q}) \cup {[q EXCEPT !.status = status, !.rows = rows]} /\ ui' = ui
    BY Zenon, <1>5 DEF SessionsTab!Read
  <2> QED  BY Zenon, <2>1, <1>r
<1>6. CASE SessionsTab!SessionsArrive \/ SessionsTab!SessionsLost \/ SessionsTab!ClassArrives
           \/ SessionsTab!ClassLost
  <2>1. /\ \A f \in wire' : f \in wire \/ Other(f, ops)
        /\ DOMAIN ui' = DOMAIN ui /\ ui.busy \cap ops \subseteq ui'.busy
    BY <1>6, <1>b, <1>l
       DEF SessionsTab!SessionsArrive, SessionsTab!Fetching, SessionsTab!ClassFetch,
           SessionsTab!Fetch, SessionsTab!Pending, SessionsTab!SessionsLost,
           SessionsTab!ClassArrives, SessionsTab!ClassLost, SessionsTab!Doubtless,
           SessionsTab!Refetch, Other
  <2> QED  BY <1>b, <2>1, Waits
<1>7. ASSUME NEW q \in wire, SessionsTab!Serve(q)  PROVE Locked(ops)'
  <2>1. ui' = ui /\ \E status : wire' = SessionsTab!Becomes(q, status)
    BY Zenon, <1>7 DEF SessionsTab!Serve, SessionsTab!Served
  <2> QED  BY <2>1, <1>t
<1>8. ASSUME NEW q \in wire, SessionsTab!Succeeds(q)  PROVE Locked(ops)'
  <2>1. CASE q.op \in {"off", "change", "move"}
    <3> DEFINE u == SessionsTab!Without(q.op)
    <3>1. SessionsTab!SettlesAndFetches(q, u)
      BY <1>8, <2>1 DEF SessionsTab!Succeeds, SessionsTab!Without, SessionsTab!Closed
    <3>2. DOMAIN u = DOMAIN ui /\ ui.busy \cap ops \subseteq u.busy
      BY <1>b DEF SessionsTab!Without, SessionsTab!Closed
    <3> HIDE DEF u
    <3> QED  BY <3>1, <3>2, <1>e
  <2>2. CASE q.op \in {"undo", "uncancel"}
    BY <1>8, <1>b, <2>2, <1>e DEF SessionsTab!Succeeds
  <2> QED  BY <1>8, <2>1, <2>2 DEF SessionsTab!Succeeds
<1>9. ASSUME NEW q \in wire, SessionsTab!Ends(q)  PROVE Locked(ops)'
  <2>1. CASE q.op \in {"bulk_off", "bulk_change"}
    <3> DEFINE u == [SessionsTab!Without(q.op) EXCEPT !.selected = {}]
    <3>1. SessionsTab!SettlesAndFetches(q, u)
      BY <1>9, <2>1 DEF SessionsTab!Ends, SessionsTab!Without, SessionsTab!Closed
    <3>2. DOMAIN u = DOMAIN ui /\ ui.busy \cap ops \subseteq u.busy
      BY <1>b DEF SessionsTab!Without, SessionsTab!Closed
    <3> HIDE DEF u
    <3> QED  BY <3>1, <3>2, <1>e
  <2>2. CASE q.op \in {"undo", "uncancel"}
    BY <1>9, <1>b, <2>2, <1>e DEF SessionsTab!Ends
  <2> QED  BY <1>9, <2>1, <2>2 DEF SessionsTab!Ends
<1>10. ASSUME NEW q \in wire, SessionsTab!FailsHere(q)  PROVE Locked(ops)'
  <2>1. /\ \A f \in wire' : f \in wire \ {q} \/ Other(f, ops)
        /\ DOMAIN ui' = DOMAIN ui /\ (ui.busy \cap ops) \ {q.op} \subseteq ui'.busy
    BY <1>10, <1>b, <1>l
       DEF SessionsTab!FailsHere, SessionsTab!Fails, SessionsTab!Doubtless, SessionsTab!Refetch,
           Other
  <2> QED  BY <1>b, <2>1, Ends
<1> QED
  BY <1>1, <1>2, <1>3, <1>4, <1>5, <1>6, <1>7, <1>8, <1>9, <1>10 DEF SessionsTab!Next

-----------------------------------------------------------------------------
(* The page of a program: the second request of an edit holds the lock of the first *)

ProgramLocks == {"edit", "create", "check"}
ProgramLocked ==
  /\ "busy" \in DOMAIN ui
  /\ WireTyped
  /\ \A q \in wire : Program!Lock(q) \in ProgramLocks =>
       /\ Program!Lock(q) \in ui.busy
       /\ \A r \in wire : Program!Lock(r) = Program!Lock(q) => r = q

LEMMA ProgramStart ==
  ASSUME Program!Init  PROVE ProgramLocked
<1>1. "busy" \in DOMAIN ui /\ wire = {Program!Fetch}
  BY DEF Program!Init
<1> QED  BY <1>1 DEF ProgramLocked, ProgramLocks, WireTyped, Fields, Program!Fetch, Program!Lock,
         Program!Half

LEMMA ProgramRequests ==
  ASSUME ProgramLocked, Program!Next  PROVE ProgramLocked'
<1> DEFINE Free(f) == DOMAIN f = Fields /\ Program!Lock(f) \notin ProgramLocks
<1>b. "busy" \in DOMAIN ui /\ WireTyped
  BY DEF ProgramLocked
<1>l. Free(Program!Fetch)
  BY DEF Program!Fetch, Program!Lock, Program!Half, ProgramLocks, Fields
<1>w. ASSUME \A f \in wire' : f \in wire \/ Free(f), DOMAIN ui' = DOMAIN ui,
             ui.busy \subseteq ui'.busy
      PROVE  ProgramLocked'
  BY <1>w DEF ProgramLocked, WireTyped
<1>s. ASSUME NEW new, DOMAIN new = Fields, Program!Lock(new) \notin ui.busy,
             wire' = wire \cup {new},
             DOMAIN ui' = DOMAIN ui, ui.busy \cup {Program!Lock(new)} \subseteq ui'.busy
      PROVE  ProgramLocked'
  BY <1>s DEF ProgramLocked, WireTyped
<1>t. ASSUME NEW q \in wire, NEW new, DOMAIN new = Fields, Program!Lock(new) = Program!Lock(q),
             wire' = (wire \ {q}) \cup {new}, ui' = ui
      PROVE  ProgramLocked'
  BY <1>t DEF ProgramLocked, WireTyped
<1>e. ASSUME NEW q \in wire, \A f \in wire' : f \in wire \ {q} \/ Free(f), DOMAIN ui' = DOMAIN ui,
             ui.busy \ {Program!Lock(q)} \subseteq ui'.busy
      PROVE  ProgramLocked'
  BY <1>e DEF ProgramLocked, WireTyped
<1>a. ASSUME NEW op, NEW value, Program!Ask(op, value)
      PROVE  \E new : DOMAIN new = Fields /\ Program!Lock(new) = op /\ wire' = wire \cup {new}
  <2> DEFINE new == [Program!Request(op, {}) EXCEPT !.rows = value]
  <2>1. DOMAIN new = Fields /\ Program!Lock(new) = op
    BY DEF Program!Request, Program!Lock, Program!Half, Fields
  <2>2. wire' = wire \cup {new}
    BY <1>a DEF Program!Ask
  <2> QED  BY <2>1, <2>2
<1>f. ASSUME NEW op \in {"status", "class", "delete"}, NEW value, Program!Ask(op, value),
             DOMAIN ui' = DOMAIN ui, ui'.busy = ui.busy
      PROVE  ProgramLocked'
  BY <1>a, <1>f, <1>w DEF ProgramLocks
<1>p. ASSUME NEW op, NEW value, Program!Ask(op, value), op \notin ui.busy,
             ui' = Program!Submitted(ui, op)
      PROVE  ProgramLocked'
  <2>1. DOMAIN ui' = DOMAIN ui /\ ui.busy \cup {op} \subseteq ui'.busy
    BY <1>b, <1>p DEF Program!Submitted
  <2> QED  BY <1>a, <1>p, <1>s, <2>1
<1>o. ASSUME NEW u, "busy" \in DOMAIN u, NEW d
      PROVE  /\ DOMAIN Program!Shut(u, d) = DOMAIN u /\ Program!Shut(u, d).busy = u.busy
             /\ DOMAIN Program!Opened(u, d) = DOMAIN u /\ Program!Opened(u, d).busy = u.busy
  BY <1>o DEF Program!Shut, Program!Opened
<1>1. CASE (\E s : Program!PickStatus(s)) \/ Program!OpenReactivate \/ Program!OpenDelete
             \/ Program!OpenEdit \/ Program!OpenCreate \/ (\E d : Program!Close(d))
              \/ Program!OpenClass
  <2>1. wire' = wire /\ DOMAIN ui' = DOMAIN ui /\ ui'.busy = ui.busy
    BY <1>1, <1>b, <1>o
       DEF Program!PickStatus, Program!OpenReactivate, Program!OpenDelete, Program!OpenEdit,
           Program!OpenCreate, Program!Close, Program!OpenClass, Program!Shows
  <2> QED  BY <2>1, <1>w
<1>2. ASSUME NEW s, Program!ChooseStatus(s) \/ Program!Reactivate(s) \/ Program!SaveClass(s)
      PROVE  ProgramLocked'
  BY <1>2, <1>b, <1>f, <1>o
     DEF Program!ChooseStatus, Program!SetStatus, Program!Reactivate, Program!SaveClass
<1>3. CASE Program!Archive \/ Program!SubmitDelete
  BY <1>3, <1>b, <1>f, <1>o DEF Program!Archive, Program!SetStatus, Program!SubmitDelete
<1>4. CASE Program!CheckArchive \/ Program!SubmitEdit \/ Program!SubmitCreate
  BY <1>4, <1>p DEF Program!CheckArchive, Program!SubmitEdit, Program!SubmitCreate
<1>5. CASE Program!ListServed(Program!Rows)
  <2>1. PICK q \in wire : wire' = (wire \ {q}) \cup {[q
            EXCEPT !.status = "done", !.rows = Program!Rows]} /\ ui' = ui
    BY Zenon, <1>5 DEF Program!ListServed
  <2> DEFINE new == [q EXCEPT !.status = "done", !.rows = Program!Rows]
  <2>2. DOMAIN new = Fields /\ Program!Lock(new) = Program!Lock(q)
    BY <1>b DEF WireTyped, Fields, Program!Lock, Program!Half
  <2> HIDE DEF new
  <2> QED  BY Zenon, <2>1, <2>2, <1>t DEF new
<1>6. CASE Program!Arrives \/ Program!ListLost
  <2>1. wire' \subseteq wire /\ DOMAIN ui' = DOMAIN ui /\ ui'.busy = ui.busy
    BY <1>6, <1>b DEF Program!Arrives, Program!ListLost
  <2> QED  BY <2>1, <1>w
<1>7. ASSUME NEW q \in wire, Program!Serve(q)  PROVE ProgramLocked'
  <2>1. PICK status : ui' = ui /\ wire' = Program!Becomes(q, status)
    BY <1>7
       DEF Program!Serve, Program!ServeClass, Program!ServeStatus, Program!ServeEdit,
           Program!ServeCheck, Program!ServeDelete, Program!ServeCreate, Program!Passes,
           Program!Refuses, Program!Carries
  <2> DEFINE new == [q EXCEPT !.status = status]
  <2>2. /\ DOMAIN new = Fields
        /\ Program!Lock(new) = Program!Lock(q)
        /\ wire' = (wire \ {q}) \cup {new}
    BY <1>b, <2>1 DEF WireTyped, Fields, Program!Lock, Program!Half, Program!Becomes
  <2> HIDE DEF new
  <2> QED  BY <2>1, <2>2, <1>t
<1>8. ASSUME NEW q \in wire, Program!Succeeds(q)  PROVE ProgramLocked'
  <2>1. ASSUME NEW u, DOMAIN u = DOMAIN ui, u.busy = ui.busy, q.op = Program!Lock(q),
               Program!Settles(q, u) \/ Program!SettlesAndFetches(q, u)
        PROVE  ProgramLocked'
    <3>1. \A f \in wire' : f \in wire \ {q} \/ Free(f)
      BY <1>l, <2>1 DEF Program!Settles, Program!SettlesAndFetches, Program!Refetch
    <3>2. DOMAIN ui' = DOMAIN ui /\ ui.busy \ {q.op} \subseteq ui'.busy
      BY Zenon, <1>b, <2>1 DEF Program!Settles, Program!SettlesAndFetches, Program!Doubtless
    <3> QED  BY <2>1, <3>1, <3>2, <1>e
  <2>2. q.op # "status" \/ q.ids = {} => q.op = Program!Lock(q)
    BY DEF Program!Lock, Program!Half
  <2>3. CASE (q.op = "status" /\ q.ids = {}) \/ q.op = "class"
    BY <1>8, <2>1, <2>2, <2>3 DEF Program!Succeeds, Program!Refreshed
  <2>4. CASE q.op = "status" /\ q.ids # {}
    <3>1. Program!Lock(q) = "edit"
      BY <2>4 DEF Program!Lock, Program!Half
    <3>2. /\ ui' = [Program!Doubtless(Program!Shut(ui, "edit")) EXCEPT !.busy = @ \ {"edit"}]
          /\ wire' = Program!Refetch(wire \ {q})
      BY <1>8, <2>4 DEF Program!Succeeds
    <3>3. \A f \in wire' : f \in wire \ {q} \/ Free(f)
      BY <1>l, <3>2 DEF Program!Refetch
    <3>4. DOMAIN ui' = DOMAIN ui /\ ui.busy \ {"edit"} \subseteq ui'.busy
      BY <1>b, <1>o, <3>2 DEF Program!Doubtless
    <3> QED  BY <1>e, <3>1, <3>3, <3>4
  <2>5. CASE q.op = "edit"
    <3>1. CASE Program!Moves(q)
      <4> DEFINE new == [q EXCEPT !.op = "status", !.status = "sent", !.ids = {"edit"},
                                  !.rows = Program!Change(q.rows.form.status, q.rows.from)]
      <4>1. wire' = (wire \ {q}) \cup {new} /\ ui' = ui
        BY Zenon, <1>8, <1>b, <2>5, <3>1 DEF Program!Succeeds, Program!EditGoesOn, WireTyped, Fields
      <4>2. DOMAIN new = Fields /\ Program!Lock(new) = "edit"
        BY <1>b DEF WireTyped, Fields, Program!Lock, Program!Half
      <4>3. Program!Lock(q) = "edit"
        BY <2>5, <2>2
      <4> HIDE DEF new
      <4> QED  BY <1>t, <4>1, <4>2, <4>3
    <3>2. CASE ~Program!Moves(q)
      BY <1>8, <1>b, <1>o, <2>1, <2>2, <2>5, <3>2
         DEF Program!Succeeds, Program!Saved, Program!Refreshed
    <3> QED  BY <3>1, <3>2
  <2>6. CASE q.op \in {"check", "create"}
    BY <1>8, <1>b, <1>o, <2>1, <2>2, <2>6 DEF Program!Succeeds
  <2>7. CASE q.op = "delete"
    BY Zenon, <1>8, <1>w, <1>b, <2>7 DEF Program!Succeeds, Program!Leave
  <2>8. q.op \in {"status", "edit", "check", "delete", "class", "create"}
    BY <1>8 DEF Program!Succeeds
  <2> QED  BY <2>3, <2>4, <2>5, <2>6, <2>7, <2>8
<1>9. ASSUME NEW q \in wire, Program!Refusal(q)  PROVE ProgramLocked'
  <2>1. PICK u : /\ ui' = [u EXCEPT !.busy = @ \ {Program!Lock(q)}, !.doubt = @ \/ Program!Half(q)]
                 /\ u \in {Program!Opened(ui, "cannot archive"), [ui
                           EXCEPT !.canDelete = FALSE], ui}
    BY Zenon, <1>9 DEF Program!Refusal
  <2>2. DOMAIN u = DOMAIN ui /\ u.busy = ui.busy
    BY Zenon, <1>b, <1>o, <2>1
  <2>3. DOMAIN ui' = DOMAIN ui /\ ui.busy \ {Program!Lock(q)} \subseteq ui'.busy
    BY Zenon, <1>b, <2>1, <2>2
  <2>4. wire' = wire \ {q}
    BY <1>9 DEF Program!Refusal
  <2> QED  BY <1>e, <2>3, <2>4
<1>10. ASSUME NEW q \in wire, Program!FailsHere(q)  PROVE ProgramLocked'
  <2>1. /\ wire' = wire \ {q}
        /\ DOMAIN ui' = DOMAIN ui
        /\ ui.busy \ {Program!Lock(q)} \subseteq ui'.busy
    BY <1>10, <1>b DEF Program!FailsHere
  <2> QED  BY <1>e, <2>1
<1> QED
  BY <1>1, <1>2, <1>3, <1>4, <1>5, <1>6, <1>7, <1>8, <1>9, <1>10 DEF Program!Next

-----------------------------------------------------------------------------
(* The page of the features: what is pending and what is applied are its locks *)

FeaturesLocked ==
  /\ {"pending", "applying"} \subseteq DOMAIN ui
  /\ WireTyped
  /\ \A q \in wire :
       /\ q.op = "toggle" => ui.pending # {} /\ \A r \in wire : r.op = "toggle" => r = q
       /\ q.op = "apply" => ui.applying /\ \A r \in wire : r.op = "apply" => r = q

LEMMA FeaturesStart ==
  ASSUME Features!Init  PROVE FeaturesLocked
BY DEF Features!Init, Features!Load, Features!Fetch, FeaturesLocked, WireTyped, Fields

LEMMA FeaturesRequests ==
  ASSUME FeaturesLocked, Features!Next  PROVE FeaturesLocked'
<1> DEFINE ops == {"toggle", "apply"}
           Keeps == /\ DOMAIN ui' = DOMAIN ui
                    /\ ui'.pending = ui.pending /\ ui'.applying = ui.applying
<1>b. {"pending", "applying"} \subseteq DOMAIN ui /\ WireTyped
  BY DEF FeaturesLocked
<1>l. ASSUME NEW w, NEW p  PROVE \A f \in Features!Load(w, p) : f \in w \/ Other(f, ops)
  BY DEF Features!Load, Features!Fetch, Other, Fields
<1>w. ASSUME \A f \in wire' : f \in wire \/ Other(f, ops), Keeps  PROVE FeaturesLocked'
  BY <1>w DEF FeaturesLocked, WireTyped, Other
<1>t. ASSUME NEW q \in wire, NEW new, DOMAIN new = Fields, new.op = q.op,
             wire' = (wire \ {q}) \cup {new}, ui' = ui
      PROVE  FeaturesLocked'
  BY <1>t DEF FeaturesLocked, WireTyped
<1>e. ASSUME NEW q \in wire, \A f \in wire' : f \in wire \ {q} \/ Other(f, ops),
             DOMAIN ui' = DOMAIN ui,
             ui'.pending = IF q.op = "toggle" THEN {} ELSE ui.pending,
             ui'.applying = IF q.op = "apply" THEN FALSE ELSE ui.applying
      PROVE  FeaturesLocked'
  BY <1>e DEF FeaturesLocked, WireTyped, Other
<1>1. CASE (\E p : Features!ChooseDeduped(p)) \/ Features!OpenConfirm \/ Features!CloseConfirm
  BY <1>1, <1>b, <1>w
     DEF Features!ChooseDeduped, Features!OpenConfirm, Features!CloseConfirm, Features!Shows
<1>2. ASSUME NEW p, Features!Choose(p)  PROVE FeaturesLocked'
  BY <1>2, <1>b, <1>l, <1>w DEF Features!Choose
<1>3. ASSUME NEW f, Features!Toggle(f)  PROVE FeaturesLocked'
  <2> DEFINE new == [Features!Request("toggle", {f}) EXCEPT
                       !.rows = [place |-> ui.place, on |-> ~Features!Enabled(f)]]
  <2>1. DOMAIN new = Fields /\ new.op = "toggle"
    BY DEF Features!Request, Fields
  <2>2. wire' = wire \cup {new} /\ ui.pending = {}
    BY <1>3 DEF Features!Toggle, Features!MayToggle
  <2>3. DOMAIN ui' = DOMAIN ui /\ ui'.pending = {f} /\ ui'.applying = ui.applying
    BY <1>3, <1>b DEF Features!Toggle
  <2> HIDE DEF new
  <2> QED  BY <2>1, <2>2, <2>3 DEF FeaturesLocked, WireTyped
<1>4. CASE Features!ApplyAll
  <2>1. DOMAIN Features!Request("apply", {ui.place}) = Fields
        /\ Features!Request("apply", {ui.place}).op = "apply"
    BY DEF Features!Request, Fields
  <2>2. wire' = wire \cup {Features!Request("apply", {ui.place})} /\ ~ui.applying
    BY <1>4 DEF Features!ApplyAll
  <2>3. DOMAIN ui' = DOMAIN ui /\ ui'.pending = ui.pending /\ ui'.applying
    BY <1>4, <1>b DEF Features!ApplyAll
  <2> QED  BY <2>1, <2>2, <2>3 DEF FeaturesLocked, WireTyped
<1>5. ASSUME NEW p, Features!ServeList(p)  PROVE FeaturesLocked'
  <2>1. PICK q \in wire :
          wire' = (wire \ {q}) \cup {[q
                    EXCEPT !.status = "done", !.rows = Features!Rows(p)]} /\ ui' = ui
    BY Zenon, <1>5 DEF Features!ServeList, Features!Pending
  <2> DEFINE new == [q EXCEPT !.status = "done", !.rows = Features!Rows(p)]
  <2>2. DOMAIN new = Fields /\ new.op = q.op
    BY <1>b DEF WireTyped, Fields
  <2> HIDE DEF new
  <2> QED  BY Zenon, <2>1, <2>2, <1>t DEF new
<1>6. ASSUME NEW p, Features!Arrives(p)  PROVE FeaturesLocked'
  BY <1>6, <1>b, <1>w DEF Features!Arrives, Features!Pending
<1>7. ASSUME NEW q \in wire, Features!Serve(q)  PROVE FeaturesLocked'
  <2> DEFINE new == [q EXCEPT !.status = "done"]
  <2>1. DOMAIN new = Fields /\ new.op = q.op
    BY <1>b DEF WireTyped, Fields
  <2>2. wire' = (wire \ {q}) \cup {new} /\ ui' = ui
    BY Zenon, <1>7
       DEF Features!Serve, Features!ServeToggle, Features!ServeApply, Features!Served,
           Features!Becomes
  <2> HIDE DEF new
  <2> QED  BY <2>1, <2>2, <1>t
<1>8. ASSUME NEW q \in wire, Features!Succeeds(q)  PROVE FeaturesLocked'
  <2>1. \A f \in wire' : f \in wire \ {q} \/ Other(f, ops)
    BY <1>8, <1>l DEF Features!Succeeds, Features!Mutated
  <2>2. /\ DOMAIN ui' = DOMAIN ui
        /\ ui'.pending = (IF q.op = "toggle" THEN {} ELSE ui.pending)
        /\ ui'.applying = (IF q.op = "apply" THEN FALSE ELSE ui.applying)
    BY <1>8, <1>b DEF Features!Succeeds
  <2> QED  BY Zenon, <1>e, <2>1, <2>2
<1>9. ASSUME NEW q \in wire, Features!FailsHere(q)  PROVE FeaturesLocked'
  <2>1. wire' = wire \ {q}
    BY <1>9 DEF Features!FailsHere
  <2>2. /\ DOMAIN ui' = DOMAIN ui
        /\ ui'.pending = (IF q.op = "toggle" THEN {} ELSE ui.pending)
        /\ ui'.applying = (IF q.op = "apply" THEN FALSE ELSE ui.applying)
    BY <1>9, <1>b DEF Features!FailsHere
  <2> QED  BY Zenon, <1>e, <2>1, <2>2
<1> QED
  BY <1>1, <1>2, <1>3, <1>4, <1>5, <1>6, <1>7, <1>8, <1>9 DEF Features!Next

-----------------------------------------------------------------------------
(* The editor of a class: one save for each opening *)

ClassLocked ==
  /\ {"version", "open", "busy"} \subseteq DOMAIN ui
  /\ WireTyped
  /\ ui.version \in Nat
  /\ \A q \in wire : q.op = "save" =>
       /\ q.ids.version \in Nat /\ q.ids.version <= ui.version
       /\ q.ids.version = ui.version /\ ui.open => "save" \in ui.busy
       /\ \A r \in wire : r.op = "save" /\ r.ids.version = q.ids.version => r = q

LEMMA ClassStart ==
  ASSUME Class!Init  PROVE ClassLocked
BY DEF Class!Init, Class!Idle, ClassLocked, WireTyped

LEMMA ClassRequests ==
  ASSUME ClassLocked, Class!Next  PROVE ClassLocked'
<1> DEFINE ops == {"save"}
           Keeps == /\ DOMAIN ui' = DOMAIN ui /\ ui'.version = ui.version
                    /\ ui'.open => ui.open
<1>b. /\ {"version", "open", "busy"} \subseteq DOMAIN ui /\ WireTyped
      /\ DOMAIN Class!Fetch = Fields /\ Class!Fetch.op = "list"
  BY DEF ClassLocked, Class!Fetch, Fields
<1>w. ASSUME \A f \in wire' : f \in wire \/ Other(f, ops), Keeps,
             "save" \in ui.busy => "save" \in ui'.busy
      PROVE  ClassLocked'
  BY <1>w DEF ClassLocked, WireTyped, Other
<1>t. ASSUME NEW q \in wire, NEW new, DOMAIN new = Fields, new.op = q.op, new.ids = q.ids,
             wire' = (wire \ {q}) \cup {new}, ui' = ui
      PROVE  ClassLocked'
  BY <1>t DEF ClassLocked, WireTyped
<1>r. ASSUME NEW q \in wire, NEW status, NEW rows, ui' = ui,
             wire' = (wire \ {q}) \cup {[q EXCEPT !.status = status, !.rows = rows]}
      PROVE  ClassLocked'
  <2> DEFINE new == [q EXCEPT !.status = status, !.rows = rows]
  <2>1. DOMAIN new = Fields /\ new.op = q.op /\ new.ids = q.ids
    BY <1>b DEF WireTyped, Fields
  <2> HIDE DEF new
  <2> QED  BY Zenon, <1>r, <1>t, <2>1 DEF new
<1>x. ASSUME NEW q \in wire, NEW status, wire' = Class!Becomes(q, status), ui' = ui
      PROVE  ClassLocked'
  <2> DEFINE new == [q EXCEPT !.status = status]
  <2>1. DOMAIN new = Fields /\ new.op = q.op /\ new.ids = q.ids
    BY <1>b DEF WireTyped, Fields
  <2>2. wire' = (wire \ {q}) \cup {new}
    BY <1>x DEF Class!Becomes
  <2> HIDE DEF new
  <2> QED  BY <1>t, <1>x, <2>1, <2>2
<1>e. ASSUME NEW q \in wire, \A f \in wire' : f \in wire \ {q} \/ Other(f, ops), Keeps,
             \/ "save" \in ui.busy => "save" \in ui'.busy
             \/ ~ui'.open
             \/ q.op = "save" /\ q.ids.version = ui.version
      PROVE  ClassLocked'
  BY <1>e DEF ClassLocked, WireTyped, Other
<1>1. CASE Class!Open
  <2>1. /\ wire' = wire
        /\ DOMAIN ui'
                  = {"version", "opened", "form", "dirty", "open", "conflicts", "dialog",
                      "busy", "doubt"}
        /\ ui'.version = ui.version + 1
    BY <1>1 DEF Class!Open, Class!Shows, Class!Idle
  <2> QED  BY <2>1 DEF ClassLocked, WireTyped
<1>2. CASE \/ Class!Close \/ Class!CloseDialog \/ (\E d : Class!OpenDialog(d))
           \/ (\E field, value : Class!EditForm(field, value))
  <2>1. /\ wire' = wire /\ Keeps /\ ui'.busy = ui.busy
    BY Zenon, <1>2, <1>b
       DEF Class!Close, Class!CloseDialog, Class!OpenDialog, Class!EditForm, Class!Shows
  <2> QED  BY <2>1, <1>w
<1>3. CASE \/ (\E c : Class!SetCadence(c)) \/ (\E n : Class!SetEvery(n))
           \/ (\E d : Class!ToggleDay(d))
           \/ (\E d : Class!SetUntil(d)) \/ Class!LeavePattern
  BY Zenon, <1>2, <1>3
     DEF Class!SetCadence, Class!SetEvery, Class!ToggleDay, Class!SetUntil, Class!LeavePattern
<1>4. ASSUME NEW op \in {"room", "instructor"}, Class!Add(op)  PROVE ClassLocked'
  <2>1. Other(Class!Request(op, [version |-> ui.version]), ops)
    BY DEF Class!Request, Other, Fields
  <2>2. wire' = wire \cup {Class!Request(op, [version |-> ui.version])} /\ ui' = ui
    BY <1>4 DEF Class!Add, Class!SendFreely
  <2> QED  BY <2>1, <2>2, <1>w
<1>5. CASE Class!Save
  <2>1. PICK ids : ids.version = ui.version /\ Class!Send("save", ids) /\ ui.open
    BY <1>5 DEF Class!Save, Class!Free
  <2> DEFINE new == Class!Request("save", ids)
  <2>2. DOMAIN new = Fields /\ new.op = "save" /\ new.ids.version = ui.version
    BY <2>1 DEF Class!Request, Fields
  <2>3. /\ "save" \notin ui.busy /\ wire' = wire \cup {new}
        /\ DOMAIN ui' = DOMAIN ui /\ ui'.version = ui.version /\ ui'.open = ui.open
        /\ "save" \in ui'.busy
    BY Zenon, <1>b, <2>1 DEF Class!Send, Class!Submitted
  <2> HIDE DEF new
  <2> QED  BY <2>1, <2>2, <2>3 DEF ClassLocked, WireTyped
<1>6. CASE Class!ListServed(server)
  BY Zenon, <1>6, <1>r DEF Class!ListServed
<1>7. CASE Class!ClassArrives \/ Class!ListLost
  <2>1. wire' \subseteq wire /\ Keeps /\ ui'.busy = ui.busy
    BY Zenon, <1>7, <1>b DEF Class!ClassArrives, Class!ListLost, Class!Pending
  <2> QED  BY <2>1, <1>w
<1>8. ASSUME NEW q \in wire, Class!Serve(q) \/ Class!Listed(q)  PROVE ClassLocked'
  <2>1. ui' = ui /\ \E status : wire' = Class!Becomes(q, status)
    BY <1>8 DEF Class!Serve, Class!Served, Class!Listed
  <2> QED  BY <2>1, <1>x
<1>9. ASSUME NEW q \in wire, Class!Added(q)  PROVE ClassLocked'
  <2>1. wire' = wire \ {q} /\ Keeps /\ ui'.busy = ui.busy
    BY <1>9, <1>b DEF Class!Added
  <2> QED  BY <2>1, <1>e
<1>10. ASSUME NEW q \in wire, Class!SaveAnswered(q)  PROVE ClassLocked'
  <2>1. \A f \in wire' : f \in wire \ {q} \/ Other(f, ops)
    BY <1>10, <1>b
       DEF Class!SaveAnswered, Class!Saved, Class!SettlesAndFetches, Class!Refetch, Other
  <2>2. DOMAIN ui' = DOMAIN ui /\ ui'.version = ui.version /\ ~ui'.open
    BY <1>10, <1>b DEF Class!SaveAnswered, Class!Saved, Class!SettlesAndFetches, Class!Doubtless
  <2> QED  BY <2>1, <2>2, <1>e
<1>11. ASSUME NEW q \in wire, Class!Refused(q)  PROVE ClassLocked'
  <2>1. wire' = wire \ {q} /\ Keeps
    BY <1>11, <1>b DEF Class!Refused
  <2>2. q.op = "save" /\ (ui' = ui \/ q.ids.version = ui.version)
    BY <1>11 DEF Class!Refused, Class!Mine
  <2> QED  BY <2>1, <2>2, <1>e
<1>12. ASSUME NEW q \in wire, Class!FailsHere(q)  PROVE ClassLocked'
  <2>1. wire' = wire \ {q} /\ Keeps
    BY <1>12, <1>b DEF Class!FailsHere
  <2>2. \/ "save" \in ui.busy => "save" \in ui'.busy
        \/ q.op = "save" /\ q.ids.version = ui.version
    BY <1>12, <1>b DEF Class!FailsHere, Class!Mine
  <2> QED  BY <2>1, <2>2, <1>e
<1> QED
  BY <1>1, <1>2, <1>3, <1>4, <1>5, <1>6, <1>7, <1>8, <1>9, <1>10, <1>11, <1>12 DEF Class!Next

-----------------------------------------------------------------------------
(* Attendance: one save for each visit *)

AttendanceLocked ==
  /\ {"here", "visit", "busy"} \subseteq DOMAIN ui
  /\ WireTyped
  /\ ui.visit \in Nat
  /\ \A q \in wire : q.op \in {"save", "list"}
  /\ \A q \in wire : q.op = "save" =>
       /\ q.nth \in Nat /\ q.nth <= ui.visit
       /\ q.nth = ui.visit /\ ui.here => "save" \in ui.busy
       /\ \A r \in wire : r.op = "save" /\ r.nth = q.nth => r = q

LEMMA AttendanceStart ==
  ASSUME AttendancePage!Init  PROVE AttendanceLocked
BY DEF AttendancePage!Init, AttendancePage!Idle, AttendanceLocked, WireTyped

LEMMA AttendanceRequests ==
  ASSUME AttendanceLocked, AttendancePage!Next  PROVE AttendanceLocked'
<1> DEFINE Fetched(f) == DOMAIN f = Fields /\ f.op = "list"
           Keeps == DOMAIN ui' = DOMAIN ui /\ ui'.visit = ui.visit /\ (ui'.here => ui.here)
<1>b. /\ {"here", "visit", "busy"} \subseteq DOMAIN ui /\ WireTyped
      /\ DOMAIN AttendancePage!Fetch = Fields /\ AttendancePage!Fetch.op = "list"
  BY DEF AttendanceLocked, AttendancePage!Fetch, Fields
<1>w. ASSUME \A f \in wire' : f \in wire \/ Fetched(f), Keeps,
             ui'.here => ("save" \in ui.busy => "save" \in ui'.busy)
      PROVE  AttendanceLocked'
  BY <1>w DEF AttendanceLocked, WireTyped
<1>t. ASSUME NEW q \in wire, NEW new, DOMAIN new = Fields, new.op = q.op, new.nth = q.nth,
             wire' = (wire \ {q}) \cup {new}, ui' = ui
      PROVE  AttendanceLocked'
  BY <1>t DEF AttendanceLocked, WireTyped
<1>e. ASSUME NEW q \in wire, \A f \in wire' : f \in wire \ {q} \/ Fetched(f), Keeps,
             ui' = ui \/ ~ui'.here \/ q.nth = ui.visit, q.op = "save"
      PROVE  AttendanceLocked'
  BY <1>e DEF AttendanceLocked, WireTyped
<1>1. CASE AttendancePage!Open
  <2>1. \A f \in wire' : f \in wire \/ Fetched(f)
    BY <1>1, <1>b DEF AttendancePage!Open, AttendancePage!Refetch
  <2>2. DOMAIN ui' = DOMAIN ui /\ ui'.visit = ui.visit + 1
    BY <1>1, <1>b DEF AttendancePage!Open
  <2> QED  BY <2>1, <2>2 DEF AttendanceLocked, WireTyped
<1>2. CASE \/ AttendancePage!Leave \/ AttendancePage!DatesArrive \/ AttendancePage!MarkAllPresent
           \/ AttendancePage!Refuse \/ (\E p : AttendancePage!Another(p))
  <2>1. wire' = wire /\ Keeps /\ (ui'.here => ui'.busy = ui.busy)
    BY Zenon, <1>2, <1>b
       DEF AttendancePage!Leave, AttendancePage!Away, AttendancePage!DatesArrive,
           AttendancePage!MarkAllPresent, AttendancePage!Refuse, AttendancePage!Another,
           AttendancePage!Shows
  <2> QED  BY <2>1, <1>w
<1>3. ASSUME NEW p, NEW row, AttendancePage!Update(p, row)  PROVE AttendanceLocked'
  <2>1. wire' = wire /\ Keeps /\ ui'.busy = ui.busy
    BY <1>3, <1>b DEF AttendancePage!Update, AttendancePage!Shows
  <2> QED  BY <2>1, <1>w
<1>4. CASE \E p : (\E s : AttendancePage!StatusChange(p, s))
           \/ (\E field : AttendancePage!Fill(p, field))
  BY Zenon, <1>3, <1>4 DEF AttendancePage!StatusChange, AttendancePage!Fill
<1>5. CASE AttendancePage!Save
  <2>1. PICK ids : wire' = wire \cup {[AttendancePage!Request("save", ids) EXCEPT !.nth = ui.visit]}
    BY Zenon, <1>5 DEF AttendancePage!Save
  <2> DEFINE new == [AttendancePage!Request("save", ids) EXCEPT !.nth = ui.visit]
  <2>2. DOMAIN new = Fields /\ new.op = "save" /\ new.nth = ui.visit
    BY DEF AttendancePage!Request, Fields
  <2>3. /\ ui.here /\ "save" \notin ui.busy /\ DOMAIN ui' = DOMAIN ui
        /\ ui'.visit = ui.visit /\ ui'.here = ui.here /\ "save" \in ui'.busy
    BY Zenon, <1>5, <1>b
       DEF AttendancePage!Save, AttendancePage!SessionReady, AttendancePage!Submitted
  <2>4. \A q \in wire : q.op = "save" => q.nth # ui.visit
    BY <2>3 DEF AttendanceLocked
  <2>5. wire' = wire \cup {new}
    BY <2>1
  <2> HIDE DEF new
  <2> QED  BY <2>2, <2>3, <2>4, <2>5 DEF AttendanceLocked, WireTyped
<1>6. CASE AttendancePage!ListServed(AttendancePage!Rows)
  <2>1. PICK q \in wire :
          wire' = (wire \ {q}) \cup {[q
                    EXCEPT !.status = "done", !.rows = AttendancePage!Rows]} /\ ui' = ui
    BY Zenon, <1>6 DEF AttendancePage!ListServed
  <2> DEFINE new == [q EXCEPT !.status = "done", !.rows = AttendancePage!Rows]
  <2>2. DOMAIN new = Fields /\ new.op = q.op /\ new.nth = q.nth
    BY <1>b DEF WireTyped, Fields
  <2> HIDE DEF new
  <2> QED  BY Zenon, <2>1, <2>2, <1>t DEF new
<1>7. CASE AttendancePage!RosterArrives \/ AttendancePage!RosterFails
  <2>1. wire' \subseteq wire /\ Keeps /\ ui'.busy = ui.busy
    BY Zenon, <1>7, <1>b
       DEF AttendancePage!RosterArrives, AttendancePage!RosterFails, AttendancePage!Pending
  <2> QED  BY <2>1, <1>w
<1>8. ASSUME NEW q \in wire, AttendancePage!Serve(q)  PROVE AttendanceLocked'
  <2> DEFINE new == [q EXCEPT !.status = "done"]
  <2>1. DOMAIN new = Fields /\ new.op = q.op /\ new.nth = q.nth
    BY <1>b DEF WireTyped, Fields
  <2>2. wire' = (wire \ {q}) \cup {new} /\ ui' = ui
    BY <1>8 DEF AttendancePage!Serve, AttendancePage!Served, AttendancePage!Becomes
  <2> HIDE DEF new
  <2> QED  BY <1>t, <2>1, <2>2
<1>9. ASSUME NEW q \in wire, AttendancePage!Succeeds(q)  PROVE AttendanceLocked'
  <2>1. \A f \in wire' : f \in wire \ {q} \/ Fetched(f)
    BY <1>9, <1>b DEF AttendancePage!Succeeds, AttendancePage!Refetch
  <2>2. Keeps /\ ~ui'.here
    BY <1>9, <1>b DEF AttendancePage!Succeeds, AttendancePage!Away
  <2> QED  BY <2>1, <2>2, <1>w
<1>10. ASSUME NEW q \in wire, AttendancePage!FailsHere(q)  PROVE AttendanceLocked'
  <2>1. wire' = wire \ {q} /\ Keeps
    BY <1>10, <1>b DEF AttendancePage!FailsHere
  <2>2. ui' = ui \/ q.nth = ui.visit
    BY <1>10 DEF AttendancePage!FailsHere
  <2>3. q.op = "save"
    BY <1>10 DEF AttendancePage!FailsHere, AttendancePage!Writes, AttendanceLocked
  <2> QED  BY <2>1, <2>2, <2>3, <1>e
<1> QED
  BY <1>1, <1>2, <1>4, <1>5, <1>6, <1>7, <1>8, <1>9, <1>10 DEF AttendancePage!Next

-----------------------------------------------------------------------------
(* The console: one page at a time *)

RequestsInv ==
  /\ On("residents", Locked(ResidentsPage!Guarded \ {"reset"}))
  /\ On("import", Locked({"upload", "create"}))
  /\ On("admins", Locked(AdminsPage!Bulk))
  /\ On("users", ApplyFree /\ Locked({"apply", "map", "create"}))
  /\ On("platforms", Locked({"add", "edit", "register"}))
  /\ On("facilities", Locked({"add", "edit", "delete"}))
  /\ On("programs", Locked({"create"}))
  /\ On("program form", ProgramFormLocked)
  /\ On("form", Locked({"save"}))
  /\ On("roster", Locked({"graduate", "status", "delete"}))
  /\ On("sessions", Locked({"off", "change", "move", "bulk_off", "bulk_change"}))
  /\ On("program", ProgramLocked)
  /\ On("features", FeaturesLocked)
  /\ On("class", ClassLocked)
  /\ On("attendance", AttendanceLocked)

LEMMA RequestsInit ==
  ASSUME Init  PROVE RequestsInv
<1>1. CASE page = "residents"
  BY <1>1, ResidentsStart DEF Init, RequestsInv, On
<1>2. CASE page = "import"
  BY <1>2, ImportStart DEF Init, RequestsInv, On
<1>3. CASE page = "admins"
  BY <1>3, AdminsStart DEF Init, RequestsInv, On
<1>4. CASE page = "users"
  BY <1>4, UsersStart, UsersApplyFree DEF Init, RequestsInv, On
<1>5. CASE page = "platforms"
  BY <1>5, PlatformsStart DEF Init, RequestsInv, On
<1>6. CASE page = "facilities"
  BY <1>6, FacilitiesStart DEF Init, RequestsInv, On
<1>7. CASE page = "programs"
  BY <1>7, ProgramsStart DEF Init, RequestsInv, On
<1>8. CASE page = "form"
  BY <1>8, FormStart DEF Init, RequestsInv, On
<1>9. CASE page = "roster"
  BY <1>9, RosterStart DEF Init, RequestsInv, On
<1>10. CASE page = "sessions"
  BY <1>10, SessionsStart DEF Init, RequestsInv, On
<1>11. CASE page = "program"
  BY <1>11, ProgramStart DEF Init, RequestsInv, On
<1>12. CASE page = "features"
  BY <1>12, FeaturesStart DEF Init, RequestsInv, On
<1>13. CASE page = "class"
  BY <1>13, ClassStart DEF Init, RequestsInv, On
<1>14. CASE page = "attendance"
  BY <1>14, AttendanceStart DEF Init, RequestsInv, On
<1>15. CASE page = "program form"
  BY <1>15, ProgramFormStart DEF Init, RequestsInv, On
<1> QED  BY <1>1, <1>2, <1>3, <1>4, <1>5, <1>6, <1>7, <1>8, <1>9, <1>10, <1>11, <1>12, <1>13, <1>14,
            <1>15
            DEF RequestsInv, On

LEMMA RequestsPages ==
  ASSUME Next
  PROVE  /\ page' = page
         /\ page = "residents" => ResidentsPage!Next
         /\ page = "import" => Import!Next
         /\ page = "admins" => AdminsPage!Next
         /\ page = "users" => Users!Next
         /\ page = "platforms" => Platforms!Next
         /\ page = "facilities" => FacilitiesPage!Next
         /\ page = "programs" => ProgramsPage!Next
         /\ page = "program form" => ProgramForms!Next
         /\ page = "form" => Form!Next
         /\ page = "roster" => Roster!Next
         /\ page = "sessions" => SessionsTab!Next
         /\ page = "program" => Program!Next
         /\ page = "features" => Features!Next
         /\ page = "class" => Class!Next
         /\ page = "attendance" => AttendancePage!Next
  BY DEF Next

LEMMA RequestsStep ==
  ASSUME RequestsInv, Next  PROVE RequestsInv'
<1>1. CASE page = "residents"
  BY <1>1, RequestsPages, ResidentsRequests DEF RequestsInv, On
<1>2. CASE page = "import"
  BY <1>2, RequestsPages, ImportRequests DEF RequestsInv, On
<1>3. CASE page = "admins"
  BY <1>3, RequestsPages, AdminsRequests DEF RequestsInv, On
<1>4. CASE page = "users"
  BY <1>4, RequestsPages, UsersRequests, UsersApplyFree DEF RequestsInv, On
<1>5. CASE page = "platforms"
  BY <1>5, RequestsPages, PlatformsRequests DEF RequestsInv, On
<1>6. CASE page = "facilities"
  BY <1>6, RequestsPages, FacilitiesRequests DEF RequestsInv, On
<1>7. CASE page = "programs"
  BY <1>7, RequestsPages, ProgramsRequests DEF RequestsInv, On
<1>8. CASE page = "form"
  BY <1>8, RequestsPages, FormRequests DEF RequestsInv, On
<1>9. CASE page = "roster"
  BY <1>9, RequestsPages, RosterRequests DEF RequestsInv, On
<1>10. CASE page = "sessions"
  BY <1>10, RequestsPages, SessionsRequests DEF RequestsInv, On
<1>11. CASE page = "program"
  BY <1>11, RequestsPages, ProgramRequests DEF RequestsInv, On
<1>12. CASE page = "features"
  BY <1>12, RequestsPages, FeaturesRequests DEF RequestsInv, On
<1>13. CASE page = "class"
  BY <1>13, RequestsPages, ClassRequests DEF RequestsInv, On
<1>14. CASE page = "attendance"
  BY <1>14, RequestsPages, AttendanceRequests DEF RequestsInv, On
<1>15. CASE page = "program form"
  BY <1>15, RequestsPages, ProgramFormRequests DEF RequestsInv, On
<1> QED  BY <1>1, <1>2, <1>3, <1>4, <1>5, <1>6, <1>7, <1>8, <1>9, <1>10, <1>11, <1>12, <1>13,
             <1>14, <1>15, RequestsPages
            DEF RequestsInv, On

LEMMA RequestsStutter ==
  ASSUME RequestsInv, UNCHANGED vars  PROVE RequestsInv'
<1>1. page' = page /\ wire' = wire /\ ui' = ui
  BY DEF vars, screen
<1>2. ASSUME NEW ops, Locked(ops)  PROVE Locked(ops)'
  BY <1>1, <1>2 DEF Locked, WireTyped
<1>3. (ApplyFree => ApplyFree') /\ (ProgramLocked => ProgramLocked')
  BY <1>1 DEF ApplyFree, ProgramLocked, WireTyped, Program!Lock, Program!Half
<1>4. FeaturesLocked => FeaturesLocked'
  BY <1>1 DEF FeaturesLocked, WireTyped
<1>5. (ClassLocked => ClassLocked') /\ (AttendanceLocked => AttendanceLocked')
  BY <1>1 DEF ClassLocked, AttendanceLocked, WireTyped
<1>20. ProgramFormLocked => ProgramFormLocked'
  BY <1>1, <1>2 DEF ProgramFormLocked
<1>21. CASE page = "program form"
  BY <1>21, <1>1, <1>20 DEF RequestsInv, On
<1>6. CASE page = "residents"
  <2>1. Locked(ResidentsPage!Guarded \ {"reset"})
    BY <1>6 DEF RequestsInv, On
  <2>2. Locked(ResidentsPage!Guarded \ {"reset"})'
    BY <2>1, <1>1 DEF Locked, WireTyped
  <2> QED  BY <1>1, <1>6, <2>2 DEF RequestsInv, On
<1>7. CASE page = "import"
  BY <1>7, <1>1, <1>2, <1>3, <1>4, <1>5 DEF RequestsInv, On
<1>8. CASE page = "admins"
  <2>1. Locked(AdminsPage!Bulk)
    BY <1>8 DEF RequestsInv, On
  <2>2. Locked(AdminsPage!Bulk)'
    BY <2>1, <1>1 DEF Locked, WireTyped
  <2> QED  BY <1>1, <1>8, <2>2 DEF RequestsInv, On
<1>9. CASE page = "users"
  BY <1>9, <1>1, <1>2, <1>3, <1>4, <1>5 DEF RequestsInv, On
<1>10. CASE page = "platforms"
  BY <1>10, <1>1, <1>2, <1>3, <1>4, <1>5 DEF RequestsInv, On
<1>11. CASE page = "facilities"
  BY <1>11, <1>1, <1>2, <1>3, <1>4, <1>5 DEF RequestsInv, On
<1>12. CASE page = "programs"
  BY <1>12, <1>1, <1>2, <1>3, <1>4, <1>5 DEF RequestsInv, On
<1>13. CASE page = "form"
  BY <1>13, <1>1, <1>2, <1>3, <1>4, <1>5 DEF RequestsInv, On
<1>14. CASE page = "roster"
  BY <1>14, <1>1, <1>2, <1>3, <1>4, <1>5 DEF RequestsInv, On
<1>15. CASE page = "sessions"
  BY <1>15, <1>1, <1>2, <1>3, <1>4, <1>5 DEF RequestsInv, On
<1>16. CASE page = "program"
  BY <1>16, <1>1, <1>2, <1>3, <1>4, <1>5 DEF RequestsInv, On
<1>17. CASE page = "features"
  BY <1>17, <1>1, <1>2, <1>3, <1>4, <1>5 DEF RequestsInv, On
<1>18. CASE page = "class"
  BY <1>18, <1>1, <1>2, <1>3, <1>4, <1>5 DEF RequestsInv, On
<1>19. CASE page = "attendance"
  BY <1>19, <1>1, <1>2, <1>3, <1>4, <1>5 DEF RequestsInv, On
<1> QED  BY <1>1, <1>6, <1>7, <1>8, <1>9, <1>10, <1>11, <1>12, <1>13, <1>14,
             <1>15, <1>16, <1>17, <1>18, <1>19, <1>21
            DEF RequestsInv, On

LEMMA RequestsInvHolds == Spec => []RequestsInv
<1>1. Init => RequestsInv
  BY RequestsInit
<1>2. RequestsInv /\ [Next]_vars => RequestsInv'
  BY RequestsStep, RequestsStutter
<1> QED  BY <1>1, <1>2, PTL DEF Spec

\* Whatever is opened, left, opened again, refused, lost and answered late, no dialog and no button
\* of the console has two requests out (the submitting state of each modal).
THEOREM NothingSentTwice == Spec => []NoDoubleSubmit
<1>l. ASSUME NEW ops, Locked(ops), NEW op \in ops
      PROVE  Cardinality({q \in wire : q.op = op}) <= 1
  <2>1. \A q, r \in wire : q.op = op /\ r.op = op => r = q
    BY <1>l DEF Locked
  <2> QED  BY Zenon, <2>1, AtMostOne
<1>i. ASSUME RequestsInv  PROVE NoDoubleSubmit
  <2>1. On("residents", ResidentsPage!NoDoubleSubmit)
    <3>1. \A S : ResidentsPage!Cardinality(S) = Cardinality(S)
      BY Zenon DEF ResidentsPage!Cardinality, Cardinality
    <3> QED  BY <1>i, <1>l, <3>1
                DEF RequestsInv, On, ResidentsPage!NoDoubleSubmit,
                    ResidentsPage!Single, ResidentsPage!Pending
  <2>2. On("import", Import!NoDoubleSubmit)
    <3>1. \A S : Import!Cardinality(S) = Cardinality(S)
      BY Zenon DEF Import!Cardinality, Cardinality
    <3> QED  BY <1>i, <1>l, <3>1
                DEF RequestsInv, On, Import!NoDoubleSubmit,
                    Import!Single, Import!Pending
  <2>3. On("admins", AdminsPage!NoDoubleSubmit)
    <3>1. \A S : AdminsPage!Cardinality(S) = Cardinality(S)
      BY Zenon DEF AdminsPage!Cardinality, Cardinality
    <3> QED  BY <1>i, <1>l, <3>1
                DEF RequestsInv, On, AdminsPage!NoDoubleSubmit,
                    AdminsPage!Single, AdminsPage!Pending
  <2>4. On("users", Users!NoDoubleSubmit)
    <3>1. \A S : Users!Cardinality(S) = Cardinality(S)
      BY Zenon DEF Users!Cardinality, Cardinality
    <3> QED  BY <1>i, <1>l, <3>1
                DEF RequestsInv, On, Users!NoDoubleSubmit,
                    Users!Single, Users!Pending
  <2>5. On("platforms", Platforms!NoDoubleSubmit)
    <3>1. \A S : Platforms!Cardinality(S) = Cardinality(S)
      BY Zenon DEF Platforms!Cardinality, Cardinality
    <3> QED  BY <1>i, <1>l, <3>1
                DEF RequestsInv, On, Platforms!NoDoubleSubmit,
                    Platforms!Single, Platforms!Pending
  <2>6. On("facilities", FacilitiesPage!NoDoubleSubmit)
    <3>1. \A S : FacilitiesPage!Cardinality(S) = Cardinality(S)
      BY Zenon DEF FacilitiesPage!Cardinality, Cardinality
    <3> QED  BY <1>i, <1>l, <3>1
                DEF RequestsInv, On, FacilitiesPage!NoDoubleSubmit,
                    FacilitiesPage!Single, FacilitiesPage!Pending
  <2>7. On("programs", ProgramsPage!NoDoubleSubmit)
    <3>1. \A S : ProgramsPage!Cardinality(S) = Cardinality(S)
      BY Zenon DEF ProgramsPage!Cardinality, Cardinality
    <3> QED  BY <1>i, <1>l, <3>1
                DEF RequestsInv, On, ProgramsPage!NoDoubleSubmit,
                    ProgramsPage!Single, ProgramsPage!Pending
  <2>8. On("form", Form!NoDoubleSubmit)
    <3>1. \A S : Form!Cardinality(S) = Cardinality(S)
      BY Zenon DEF Form!Cardinality, Cardinality
    <3> QED  BY <1>i, <1>l, <3>1 DEF RequestsInv, On, Form!NoDoubleSubmit, Form!Single, Form!Pending
  <2>15. On("program form", ProgramForms!NoDoubleSubmit)
    <3>1. \A S : ProgramForms!Cardinality(S) = Cardinality(S)
      BY Zenon DEF ProgramForms!Cardinality, Cardinality
    <3>2. page = "program form" => Locked({"create"})
      BY <1>i DEF RequestsInv, On, ProgramFormLocked
    <3> QED  BY <1>l, <3>1, <3>2
                DEF On, ProgramForms!NoDoubleSubmit, ProgramForms!Single, ProgramForms!Pending
  <2>9. On("roster", Roster!NoDoubleSubmit)
    <3>1. \A S : Roster!Cardinality(S) = Cardinality(S)
      BY Zenon DEF Roster!Cardinality, Cardinality
    <3> QED  BY <1>i, <1>l, <3>1
                DEF RequestsInv, On, Roster!NoDoubleSubmit,
                    Roster!Single, Roster!Pending
  <2>10. On("sessions", SessionsTab!NoDoubleSubmit)
    <3>1. \A S : SessionsTab!Cardinality(S) = Cardinality(S)
      BY Zenon DEF SessionsTab!Cardinality, Cardinality
    <3> QED  BY <1>i, <1>l, <3>1
                DEF RequestsInv, On, SessionsTab!NoDoubleSubmit,
                    SessionsTab!Single, SessionsTab!Pending
  <2>11. On("program", Program!NoDoubleSubmit)
    <3>1. \A S : Program!Cardinality(S) = Cardinality(S)
      BY Zenon DEF Program!Cardinality, Cardinality
    <3>2. ASSUME page = "program", NEW op \in ProgramLocks
          PROVE  Cardinality({q \in wire : q.op = op}) <= 1
      <4>1. \A q, r \in wire : q.op = op /\ r.op = op => r = q
        BY <1>i, <3>2 DEF RequestsInv, On, ProgramLocked, ProgramLocks, Program!Lock, Program!Half
      <4> QED  BY Zenon, <4>1, AtMostOne
    <3> QED  BY Zenon, <3>1, <3>2
                DEF On, Program!NoDoubleSubmit, Program!Single, Program!Pending, ProgramLocks
  <2>12. On("features", Features!NoDoubleSubmit)
    <3>1. \A S : Features!Cardinality(S) = Cardinality(S)
      BY Zenon DEF Features!Cardinality, Cardinality
    <3>2. ASSUME page = "features", NEW op \in {"toggle", "apply"}
          PROVE  Cardinality({q \in wire : q.op = op}) <= 1
      <4>1. \A q, r \in wire : q.op = op /\ r.op = op => r = q
        BY <1>i, <3>2 DEF RequestsInv, On, FeaturesLocked
      <4> QED  BY Zenon, <4>1, AtMostOne
    <3> QED  BY <3>1, <3>2 DEF On, Features!NoDoubleSubmit, Features!Single, Features!Pending
  <2>13. On("class", Class!NoDoubleSubmit)
    BY <1>i DEF RequestsInv, On, Class!NoDoubleSubmit, Class!Pending, ClassLocked
  <2>14. On("attendance", AttendancePage!NoDoubleSubmit)
    BY <1>i
       DEF RequestsInv, On, AttendancePage!NoDoubleSubmit, AttendancePage!Pending,
           AttendanceLocked
  <2> QED  BY <2>1, <2>2, <2>3, <2>4, <2>5, <2>6, <2>7, <2>8, <2>9, <2>10, <2>11, <2>12, <2>13,
                 <2>14, <2>15
              DEF NoDoubleSubmit
<1> QED  BY <1>i, RequestsInvHolds, PTL
=============================================================================

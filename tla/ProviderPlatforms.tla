--------------------------- MODULE ProviderPlatforms ---------------------------
(***************************************************************************)
(* The learning platforms: adding one, and the page of a single platform   *)
(* with its state, its access data and its OIDC client.                    *)
(***************************************************************************)
EXTENDS Screen

CONSTANT MaxClients   \* bound: OIDC clients ever registered

\* A platform: its state, its name, and the OIDC client it has now (0: none); "made" counts the
\* clients ever registered.
Rows == server

Init ==
  /\ server \in [state : {"none", "enabled"}, name : {"old"}, client : {0}, made : {0}]
  /\ ui = [dialog |-> "none", info |-> 0, busy |-> {}, doubt |-> FALSE]
  /\ shown = None /\ wire = {Fetch}

Known == shown # None /\ shown.state # "none"
Open(d) == ui.dialog = "none" /\ Shows([ui EXCEPT !.dialog = d])

\* ProviderPlatformManagement.
TurnPage == ui.dialog = "none" /\ ChangeQuery
OpenAdd == shown # None /\ shown.state = "none" /\ Open("add")
OpenEdit == Known /\ Open("edit")
OpenRegister == Known /\ shown.client = 0 /\ Open("register")
OpenRecreate == Known /\ shown.client > 0 /\ Open("recreate")
OpenArchive == Known /\ Open("archive")
Close == ui.dialog # "none" /\ Shows([ui EXCEPT !.dialog = "none"])

\* OidcInfoModal lies over the other dialogs.
CloseInfo == ui.info > 0 /\ Shows([ui EXCEPT !.info = 0])

\* The forms disable their button; the confirmations close with the click.
SubmitAdd == ui.dialog = "add" /\ Send("add", {})
SubmitEdit == ui.dialog = "edit" /\ Known /\ Send("edit", {})
SubmitRegister == ui.dialog = "register" /\ Known /\ Send("register", {})
Confirm(d, q) ==
  /\ ui.dialog = d /\ ui.info = 0 /\ Known /\ MaySend(q.op) /\ wire' = wire \cup {q}
  /\ ui' = [ui EXCEPT !.dialog = "none"] /\ UNCHANGED <<server, shown>>
Recreate == Confirm("recreate", Request("recreate", {shown.client}))
\* handleArchiveToggle asks for the opposite of the state it shows.
ArchiveToggle ==
  Confirm("archive",
          Request("state", {IF shown.state = "archived" THEN "enabled" ELSE "archived"}))
ShowAuthInfo == Known /\ shown.client > 0 /\ ui.dialog = "none" /\ SendFreely("info", {shown.client})

\* The new client goes into the answer ("rows").  A recreation deletes the old client first
\* and may stop there.
Made(q) ==
  /\ server.made < MaxClients /\ UNCHANGED <<shown, ui>>
  /\ server' = [server EXCEPT !.client = server.made + 1, !.made = @ + 1]
  /\ wire' = (wire \ {q}) \cup {[q EXCEPT !.status = "done", !.rows = server.made + 1]}

ServePost(q) ==
  \/ q.op = "add" /\ server.state = "none" /\ Served(q, [server EXCEPT !.state = "enabled"])
  \/ q.op = "edit" /\ Served(q, [server EXCEPT !.name = "new"])
  \/ q.op = "state" /\ \E s \in q.ids : Served(q, [server EXCEPT !.state = s])
  \/ q.op = "register" /\ server.client = 0 /\ Made(q)
  \/ /\ q.op = "recreate" /\ server.client \in q.ids
     /\ \/ Made(q)
        \/ /\ wire' = Becomes(q, "half") /\ server' = [server EXCEPT !.client = 0]
           /\ UNCHANGED <<shown, ui>>
ServeInfo(q) ==
  /\ q.op = "info" /\ server.client \in q.ids /\ UNCHANGED <<server, shown, ui>>
  /\ wire' = (wire \ {q}) \cup {[q EXCEPT !.status = "done", !.rows = server.client]}
Serve(q) == q \in Writes /\ q.status = "sent" /\ (ServePost(q) \/ ServeInfo(q))

Informed(q, u) == [u EXCEPT !.info = q.rows]
Closed(d) == [ui EXCEPT !.dialog = IF @ = d THEN "none" ELSE @]


Succeeds(q) ==
  /\ Answered(q)
  /\ CASE q.op = "info" -> Settles(q, Informed(q, ui))
       [] q.op = "state" -> SettlesAndFetches(q, Closed("archive"))
       [] q.op \in {"register", "recreate"} -> SettlesAndFetches(q, Informed(q, Closed(q.op)))
       [] OTHER -> SettlesAndFetches(q, Closed(q.op))

Next ==
  \/ TurnPage \/ OpenAdd \/ OpenEdit \/ OpenRegister \/ OpenRecreate \/ OpenArchive
  \/ Close \/ CloseInfo
  \/ SubmitAdd \/ SubmitEdit \/ SubmitRegister \/ Recreate \/ ArchiveToggle \/ ShowAuthInfo
  \/ ListServed(Rows) \/ ListArrives
  \/ \E q \in wire : Serve(q) \/ Succeeds(q) \/ Fails(q)

NoDoubleSubmit == Single({"add", "edit", "register"})
QuietIsFresh == Fresh(Rows)
=============================================================================

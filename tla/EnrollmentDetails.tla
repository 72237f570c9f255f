--------------------------- MODULE EnrollmentDetails ---------------------------
(***************************************************************************)
(* The enrollments of an active class, in two views: those enrolled, and   *)
(* the others.  A change of status is asked for one resident, a graduation *)
(* for all who are selected; both are sent through the same handler.       *)
(***************************************************************************)
EXTENDS Screen

CONSTANT People

Ends == {"Completed", "Withdrawn"}
NeedsReason(status) == status = "Withdrawn"
Idle == [view |-> "enrolled", dialog |-> "none", who |-> {}, status |-> "Completed", selected |-> {},
         doubt |-> FALSE, busy |-> {}]
Init == server = [p \in People |-> "Enrolled"] /\ shown = People /\ wire = {} /\ ui = Idle

\* Searches and pages, which narrow the rows further, leave the selection as it is.
Rows == {p \in People : (server[p] = "Enrolled") = (ui.view = "enrolled")}
Seen == IF shown = None THEN {} ELSE shown
Calm == ui.dialog = "none"
Enrolling == Calm /\ ui.view = "enrolled"

ChangeView(v) ==
  /\ Calm /\ v # ui.view /\ shown' = None /\ wire' = Refetch(wire) /\ UNCHANGED server
  /\ ui' = [Doubtless(ui) EXCEPT !.view = v, !.selected = {}]
Toggle(p) ==
  Enrolling /\ p \in Seen /\ Shows([ui EXCEPT !.selected = IF p \in @ THEN @ \ {p} ELSE @ \cup {p}])
ToggleAll ==
  Enrolling /\ Seen # {}
  /\ Shows([ui EXCEPT !.selected = IF Cardinality(@) = Cardinality(Seen) THEN {} ELSE Seen])

\* Asking for one forgets the selection.
\* Mutant of Alone: it does not.
AloneM(u) == u
Alone(u) == [u EXCEPT !.selected = {}]
Ask(u, who, status) ==
  [u EXCEPT !.dialog = IF NeedsReason(status) THEN "reason" ELSE "confirm", !.who = who, !.status = status]
ChangeOne(p, status) == Enrolling /\ p \in Seen /\ Shows(Ask(Alone(ui), {p}, status))
Graduate == Enrolling /\ ui.selected # {} /\ Shows(Ask(ui, ui.selected, "Completed"))
Close ==
  /\ ~Calm
  /\ Shows([ui EXCEPT !.dialog = "none", !.who = IF ui.dialog = "reason" THEN {} ELSE @])

\* What is sent is the selection, or else the one who was asked for; the request remembers whom
\* the dialog named.  Only the confirmation closes at once.
Sent == IF ui.selected # {} THEN ui.selected ELSE ui.who
Confirm ==
  /\ ~Calm /\ ui.who # {} /\ MaySend(ui.status)
  /\ wire' = wire \cup {[Request(ui.status, Sent) EXCEPT !.rows = ui.who]}
  /\ ui' = [ui EXCEPT !.dialog = IF @ = "confirm" THEN "none" ELSE @]
  /\ UNCHANGED <<server, shown>>

Serve(q) == Served(q, [p \in People |-> IF p \in q.ids THEN q.op ELSE server[p]])
\* The answer closes whatever is open.
Closed(u) == [u EXCEPT !.dialog = "none"]
Succeeds(q) == Answered(q) /\ SettlesAndFetches(q, [Closed(ui) EXCEPT !.selected = {}, !.who = {}])
FailsHere(q) ==
  /\ q \in Writes /\ ui' = [Closed(ui) EXCEPT !.doubt = @ \/ q.status # "sent"]
  /\ wire' = wire \ {q} /\ UNCHANGED <<server, shown>>

Next ==
  \/ \E v \in {"enrolled", "other"} : ChangeView(v)
  \/ \E p \in People : Toggle(p) \/ \E status \in Ends : ChangeOne(p, status)
  \/ ToggleAll \/ Graduate \/ Close \/ Confirm
  \/ ListServed(Rows) \/ ListArrives
  \/ \E q \in wire : Serve(q) \/ Succeeds(q) \/ FailsHere(q)

QuietIsFresh == Fresh(Rows)

\* A change is sent for exactly the residents the dialog named, whatever was selected before it
\* was opened and whichever answers arrived meanwhile.
SentWereNamed == \A q \in Writes : q.ids = q.rows
=============================================================================

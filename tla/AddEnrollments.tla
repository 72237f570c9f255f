---------------------------- MODULE AddEnrollments ----------------------------
(***************************************************************************)
(* The page that enrolls residents.  Its first request is refused when one *)
(* of them has a conflict; the dialog that then opens sends another that   *)
(* asks for no check.  Nothing disables either button.                     *)
(***************************************************************************)
EXTENDS Screen, Sequences, SequencesExt

CONSTANTS
  People,    \* those who may be enrolled
  Clash,     \* those another class keeps busy
  Capacity   \* seats left when the page was opened

SeatsAssumption == IsFiniteSet(People) /\ Capacity \in Nat

Idle == [selected |-> <<>>, full |-> FALSE, dialog |-> {}, left |-> FALSE, doubt |-> FALSE, busy |-> {}]
Init == server = {} /\ shown = None /\ wire = {Fetch} /\ ui = Idle

Rows == People \ server
Seen == IF shown = None THEN {} ELSE shown
Here == ~ui.left /\ ui.dialog = {}

\* Who does not fit is dropped from the end as soon as the page is drawn.
Fitting(s) == SubSeq(s, 1, IF Len(s) > Capacity THEN Capacity ELSE Len(s))
Select(s) == Shows([ui EXCEPT !.selected = Fitting(s), !.full = Len(s) > Capacity])
Toggle(p) ==
  /\ Here /\ p \in Seen
  /\ \/ p \notin ToSet(ui.selected) /\ Select(Append(ui.selected, p))
     \/ \E i \in DOMAIN ui.selected : ui.selected[i] = p /\ Select(RemoveAt(ui.selected, i))
ToggleAll ==
  Here /\ Seen # {}
  /\ \E s \in SetToSeqs(Seen) : Select(IF Len(ui.selected) = Cardinality(Seen) THEN <<>> ELSE s)

Selected == ToSet(ui.selected)
Submit == Here /\ ui.selected # <<>> /\ SendFreely("enroll", Selected)
\* The dialog enrolls whoever is selected now; its request remembers the conflicts it showed.
EnrollAnyway ==
  /\ ui.dialog # {} /\ MaySend("confirm")
  /\ wire' = wire \cup {[Request("confirm", Selected) EXCEPT !.rows = ui.dialog]}
  /\ ui' = [ui EXCEPT !.dialog = {}] /\ UNCHANGED <<server, shown>>
Close == ui.dialog # {} /\ Shows([ui EXCEPT !.dialog = {}])
Cancel == Here /\ Shows([ui EXCEPT !.left = TRUE])

\* A request with a conflict is refused unless it is confirmed; the seats that are left are filled.
Refused(q) == q.op = "enroll" /\ q.ids \cap Clash # {}
Serve(q) ==
  \/ /\ Refused(q) /\ q.status = "sent" /\ wire' = Becomes(q, "conflict")
     /\ UNCHANGED <<server, shown, ui>>
  \/ ~Refused(q) /\ \E s \in SUBSET (q.ids \ server) :
       Cardinality(s) = Min({Cardinality(q.ids \ server), Capacity - Cardinality(server)})
       /\ Served(q, server \cup s)
Conflicted(q) ==
  q.status = "conflict" /\ Settles(q, IF ui.left THEN ui ELSE [ui EXCEPT !.dialog = q.ids \cap Clash])
\* The page leaves.
Succeeds(q) == Answered(q) /\ Settles(q, [ui EXCEPT !.left = TRUE, !.selected = <<>>, !.dialog = {}])
FailsHere(q) == q.status # "conflict" /\ Fails(q)

Next ==
  \/ \E p \in People : Toggle(p)
  \/ ToggleAll \/ Submit \/ EnrollAnyway \/ Close \/ Cancel
  \/ ListServed(Rows) \/ ListArrives
  \/ \E q \in wire : Serve(q) \/ Conflicted(q) \/ Succeeds(q) \/ FailsHere(q)

\* No more are asked for than there were seats when the page was opened.
SentFit == \A q \in Writes : Cardinality(q.ids) <= Capacity

\* Whoever has a conflict and is enrolled without a check was shown as having one.
SentWereWarned == \A q \in Pending("confirm") : q.ids \cap Clash \subseteq q.rows
=============================================================================

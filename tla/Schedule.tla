------------------------------- MODULE Schedule -------------------------------
(***************************************************************************)
(* The calendar of a facility, for one class: a session is cancelled,      *)
(* changed, moved or restored, and each of these for it alone or for it    *)
(* and all that follow, which ends the series of the class and begins a    *)
(* new one.                                                                *)
(***************************************************************************)
EXTENDS Screen, SessionLinks, Sequences

CONSTANTS
  Forward,   \* are changes of all future sessions made only on the series that runs to the last day?
  MaxActs    \* bound on requests sent

ScheduleAssumption == Regular # {} /\ Forward \in BOOLEAN /\ MaxActs \in Nat

\* An end is a date, and whether the sessions of that date still belong to the series.
EndAt(date, whole) == [date |-> date, whole |-> whole]
LastRegular == CHOOSE d \in Regular : \A e \in Regular : e <= d
NoRows == [d \in Days |-> NoRow]
\* own: the rows of the series that cancel, change or move one session.
Series(from, until, off) == [from |-> from, until |-> until, off |-> off, gone |-> FALSE, own |-> NoRows]

Reaches(s, d) == d < s.until.date \/ (d = s.until.date /\ s.until.whole)
Covers(s, d) == ~s.gone /\ d \in Regular /\ s.from <= d /\ Reaches(s, d)

\* What the calendar makes of a series: its sessions, but for those with a row of their own, and
\* the sessions of those rows.
Showing(n, s, d, off, own) ==
  [series |-> n, day |-> d, until |-> s.until, off |-> off, own |-> own,
   moved |-> own /\ ~off /\ s.own[d].link # 0]
ShownAs(s, d, off, own) ==
  \/ Covers(s, d) /\ s.off /\ off /\ ~own
  \/ Covers(s, d) /\ ~s.off /\ s.own[d].why = "none" /\ ~off /\ ~own
  \/ Covers(s, d) /\ ~s.off /\ s.own[d].why = "said" /\ off /\ own
  \/ ~s.gone /\ s.own[d].why = "held" /\ ~off /\ own
Calendar(rows) ==
  {Showing(x[1], rows[x[1]], x[2], x[3], x[4]) :
     x \in {y \in (DOMAIN rows) \X Days \X BOOLEAN \X BOOLEAN : ShownAs(rows[y[1]], y[2], y[3], y[4])}}

SheetDialogs == {"cancel", "instructor", "room"}
PageDialogs == {"choose", "single", "series", "restore"}

\* who: the session last selected; sheet: is it shown; flags: the dialogs said to be open.
Idle == [who |-> None, sheet |-> FALSE, flags |-> {}, acts |-> 0, busy |-> {}, doubt |-> FALSE]
Init ==
  /\ server = <<Series(1, EndAt(LastRegular, TRUE), FALSE)>> /\ shown = Calendar(server)
  /\ wire = {} /\ ui = Idle

Loaded == shown # None
Visible == IF ui.who = None \/ ~Loaded THEN {} ELSE {f \in ui.flags : f \in SheetDialogs => ui.sheet}
On(dialog) == dialog \in Visible
SheetOnTop == Loaded /\ ui.who # None /\ ui.sheet /\ Visible = {}

\* The filters of facility and class, once nothing is in front of them.  The page is then
\* replaced by a spinner: dialogs of the sheet, and requests under way, are forgotten.
QueryChanges ==
  /\ Visible = {} /\ ~ui.sheet /\ Loaded
  /\ shown' = None /\ wire' = Refetch(wire) /\ UNCHANGED server
  /\ ui' = [Doubtless(ui) EXCEPT !.flags = @ \cap PageDialogs, !.busy = {}]

SelectEvent(s) == Loaded /\ Visible = {} /\ ~ui.sheet /\ Shows([ui EXCEPT !.who = s, !.sheet = TRUE])
\* Closing the sheet unmounts its dialogs, which forget what they sent.
SheetClosed(u) == [u EXCEPT !.sheet = FALSE, !.busy = @ \ SheetDialogs]
CloseSheet == SheetOnTop /\ Shows(SheetClosed(ui))

CanModify == ~ui.who.off /\ ~ui.who.moved
OpenDialog(op) == SheetOnTop /\ CanModify /\ Shows([ui EXCEPT !.flags = @ \cup {op}])
Choose(op) == On("choose") /\ Shows([ui EXCEPT !.flags = (@ \ {"choose"}) \cup {op}])
HandleUndo ==
  /\ SheetOnTop /\ (ui.who.off \/ ui.who.moved)
  /\ Shows([SheetClosed(ui) EXCEPT !.flags = @ \cup {"restore"}])
CloseDialog == \E f \in Visible : Shows([ui EXCEPT !.flags = @ \ {f}])

\* What a dialog sends names the session it is open for, and where it goes or begins.
Asks(op, all, at) ==
  /\ ui.acts < MaxActs /\ MaySend(op)
  /\ wire' = wire \cup {Request(op, {[who |-> ui.who, all |-> all, at |-> at]})}
  /\ ui' = [Submitted(ui, op) EXCEPT !.acts = @ + 1] /\ UNCHANGED <<server, shown>>
Submits(op, all, at) == On(op) /\ op \notin ui.busy /\ Asks(op, all, at)

\* A change of all future sessions begins with the session it is made for, unless the form for
\* the series says another day, and is made of the rule of that session's series.
Runs == Forward => ui.who.until.date >= LastRegular
CancelEvent(all) == On("cancel") /\ (all => Runs) /\ Submits("cancel", all, ui.who.day)
ChangeField(op, all) == On(op) /\ (all => Runs) /\ Submits(op, all, ui.who.day)
RescheduleSeries(d) == On("series") /\ d \in Regular /\ Runs /\ Submits("series", TRUE, d)
RescheduleSession(d) ==
  /\ On("single") /\ d \in Days \ Regular /\ server[ui.who.series].own[d] = NoRow
  /\ Pending("single") = {} /\ Submits("single", FALSE, d)
\* Its button closes the dialog.
Restore ==
  /\ On("restore") /\ ui.acts < MaxActs /\ MaySend("restore")
  /\ wire' = wire \cup {Request("restore", {[who |-> ui.who, all |-> ~ui.who.own, at |-> ui.who.day]})}
  /\ ui' = [Submitted(ui, "restore") EXCEPT !.acts = @ + 1, !.flags = @ \ {"restore"}]
  /\ UNCHANGED <<server, shown>>

\* The end that is sent for the series: what comes from the change field ends with the midnight
\* that begins the day before; the form for the whole series says the end of that day.
Closing(op, d) == EndAt(d - 1, op = "series")
Ending(op, s) == IF op = "series" THEN EndAt(s.until.date, TRUE) ELSE s.until

\* Mutant of Empty: a series of one day counts as empty.
EmptyM(s) == s.from >= s.until.date
Empty(s) == s.from > s.until.date

\* The server ends every series of the class that goes on past that date, drops those that
\* begin after it, and adds the new one unless it would be empty.
Capped(s, end) ==
  IF s.from > end.date THEN [s EXCEPT !.gone = TRUE]
  ELSE IF s.until.date <= end.date THEN s ELSE [s EXCEPT !.until = end]
Cut(rows, end, new) ==
  LET capped == [n \in DOMAIN rows |-> IF rows[n].gone THEN rows[n] ELSE Capped(rows[n], end)]
  IN IF Empty(new) THEN capped ELSE Append(capped, new)
\* A series cancelled from some day on is restored from this or a later one.
Uncancel(rows, n, d) ==
  Append([rows EXCEPT ![n].until = EndAt(d - 1, TRUE)], Series(d, rows[n].until, FALSE))

Alone(rows, n, own) == [rows EXCEPT ![n].own = own]
After(q, x) ==
  LET n == x.who.series  d == x.who.day  own == server[n].own IN
  IF q.op = "restore" THEN IF x.all THEN Uncancel(server, n, d) ELSE Alone(server, n, Undone(own, d))
  ELSE IF x.all THEN Cut(server, Closing(q.op, x.at), Series(x.at, Ending(q.op, x.who), q.op = "cancel"))
  ELSE IF q.op = "single" THEN Alone(server, n, Move(own, d, x.at))
  ELSE Alone(server, n, Put(own, d, IF q.op = "cancel" THEN "said" ELSE "held"))
\* A series that is gone cannot be restored.
Serve(q) ==
  \E x \in q.ids : ~(q.op = "restore" /\ x.all /\ server[x.who.series].gone) /\ Served(q, After(q, x))

\* The answer to a dialog of the sheet closes both, whatever session they show by then; the
\* answer to one of the page also forgets the session, and with it the dialogs of the sheet.
Succeeds(q) ==
  /\ Answered(q)
  /\ IF q.op \in SheetDialogs
     THEN SettlesAndFetches(q, [SheetClosed(ui) EXCEPT !.flags = @ \ {q.op}])
     ELSE SettlesAndFetches(q, [ui EXCEPT !.who = None, !.sheet = FALSE, !.busy = {},
                                          !.flags = (@ \ {q.op}) \cap PageDialogs])

Next ==
  \/ QueryChanges \/ CloseSheet \/ HandleUndo \/ CloseDialog \/ Restore
  \/ Loaded /\ \E s \in shown : SelectEvent(s)
  \/ \E op \in {"cancel", "instructor", "room", "choose"} : OpenDialog(op)
  \/ \E op \in {"single", "series"} : Choose(op)
  \/ \E all \in BOOLEAN : CancelEvent(all) \/ (\E op \in {"instructor", "room"} : ChangeField(op, all))
  \/ \E d \in Days : RescheduleSeries(d) \/ RescheduleSession(d)
  \/ ListServed(Calendar(server)) \/ ListArrives
  \/ \E q \in wire : Serve(q) \/ Succeeds(q) \/ Fails(q)

QuietIsFresh == Fresh(Calendar(server))

\* Whatever is cancelled, changed, moved or restored, and whenever its answers come, no session
\* goes missing: every day the class meets belongs to a series, by which it is held or cancelled.
EveryDayKept == \A d \in Regular : \E n \in DOMAIN server : Covers(server[n], d)
=============================================================================

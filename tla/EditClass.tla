---------------------------- MODULE EditClass ----------------------------
(***************************************************************************)
(* The editor of a class on the class's page.  Each opening is a new       *)
(* instance of it; the page and its other tabs may fetch the class again   *)
(* while it is open.                                                       *)
(***************************************************************************)
EXTENDS Screen, Sequences

CONSTANTS
  Days, NoDate, LastDay,
  MaxOpenings,  \* bound: how often the editor is opened
  MaxEdits,     \* bound: fields of the schedule changed in one opening
  Begun,        \* bound: the cadences the class may have been created with
  Picked        \* bound: the cadences chosen in the editor

INSTANCE ClassSchedule

Start == 1
Forms == [cadence : Cadences, every : {1, 3}, days : SUBSET Days, until : {LastDay}]

\* A class as it was created, or with its series rescheduled from day 2: the first event ends
\* before it and the second goes on.
Whole(r) == <<r>>
Cut(r) == <<[r EXCEPT !.until = Start], [r EXCEPT !.from = 2]>>
Made == {f \in Forms : f.cadence \in Begun /\ (f.cadence \in OnDays => f.days # {}) /\ (f.every # 1 <=> f.cadence = "custom")}
Classes ==
  UNION {{[events |-> events, end |-> f.until] :
            events \in {Whole(Created(f, Start)), Cut(Created(f, Start))}} : f \in Made}

Idle == [version |-> 0, opened |-> <<>>, form |-> None, dirty |-> {}, open |-> FALSE, conflicts |-> FALSE,
         dialog |-> "none", busy |-> {}, doubt |-> FALSE]
Init == server \in Classes /\ shown = server /\ wire = {} /\ ui = Idle

Open ==
  /\ ~ui.open /\ ui.version < MaxOpenings
  /\ Shows([Idle EXCEPT !.version = ui.version + 1, !.open = TRUE,
                        !.opened = shown.events,
                        !.form = Read(shown.events[1], shown.end), !.doubt = ui.doubt])
Close == ui.open /\ ui.dialog = "none" /\ Shows([ui EXCEPT !.open = FALSE])

Free == ui.open /\ ui.dialog = "none"
EditForm(field, value) ==
  /\ Free /\ ui.form[field] # value /\ Cardinality(ui.dirty) < MaxEdits
  /\ Shows([ui EXCEPT !.form[field] = value, !.dirty = @ \cup {field}])
SetUntil(d) == EditForm("until", d)
SetCadence(c) == EditForm("cadence", c)
\* The interval belongs to the custom pattern; leaving that goes back to weekly.
SetEvery(n) == ui.open /\ ui.form.cadence = "custom" /\ EditForm("every", n)
LeavePattern == ui.open /\ ui.form.cadence = "custom" /\ EditForm("cadence", "weekly")
ToggleDay(d) ==
  /\ ui.open /\ ui.form.cadence \in OnDays
  /\ EditForm("days", IF d \in ui.form.days THEN ui.form.days \ {d} ELSE ui.form.days \cup {d})

\* The inner dialogs.  The buttons that add are not disabled while they wait; bound: once at a time.
OpenDialog(d) == Free /\ Shows([ui EXCEPT !.dialog = d])
CloseDialog == ui.dialog # "none" /\ Shows([ui EXCEPT !.dialog = "none"])
Add(op) == ui.dialog = op /\ Pending(op) = {} /\ SendFreely(op, [version |-> ui.version])

\* The first event gets the form's rule, from the class's start date; the others go as they are.
Rules == [i \in DOMAIN shown.events |->
            IF i = 1 THEN Rewritten(shown.events[1], ui.form, Start) ELSE shown.events[i]]
Save ==
  Free /\ Send("save", [version |-> ui.version, opened |-> ui.opened, before |-> shown.events, after |-> Rules,
                        dirty |-> ui.dirty, end |-> ui.form.until])

Mine(q) == q.ids.version = ui.version
Serve(q) ==
  \/ q.op # "save" /\ Served(q, server)
  \/ q.op = "save" /\ Served(q, [events |-> q.ids.after, end |-> q.ids.end])
  \/ q.op = "save" /\ q.status = "sent" /\ wire' = Becomes(q, "conflict") /\ UNCHANGED <<server, shown, ui>>

\* A new room or instructor is fetched with its list before it is chosen and the dialog closes.
Listed(q) == Answered(q) /\ q.op # "save" /\ wire' = Becomes(q, "listed") /\ UNCHANGED <<server, shown, ui>>
Added(q) ==
  /\ q.op # "save" /\ q.status = "listed" /\ wire' = wire \ {q} /\ UNCHANGED <<server, shown>>
  /\ ui' = IF ~Mine(q) THEN ui
           ELSE [ui EXCEPT !.dialog = IF q.op = "instructor" THEN "password" ELSE IF @ = "room" THEN "none" ELSE @]

\* The page fetches the class again and closes its editor, whichever opening was saved.
Saved(q) == SettlesAndFetches(q, [ui EXCEPT !.open = FALSE])
SaveAnswered(q) == Answered(q) /\ q.op = "save" /\ Saved(q)

\* An answer to an earlier opening says nothing in this one.
Refused(q) ==
  /\ q.op = "save" /\ q.status = "conflict" /\ wire' = wire \ {q} /\ UNCHANGED <<server, shown>>
  /\ ui' = IF Mine(q) THEN [ui EXCEPT !.conflicts = TRUE, !.busy = @ \ {"save"}] ELSE ui
FailsHere(q) ==
  /\ q \in Writes /\ wire' = wire \ {q} /\ UNCHANGED <<server, shown>>
  /\ ui' = [ui EXCEPT !.busy = IF Mine(q) THEN @ \ {q.op} ELSE @,
                      !.doubt = @ \/ (q.op = "save" /\ q.status = "done")]

\* The class arrives anew: what was not edited follows it, the days and the interval do not.
Followed(c, field) == IF field \in ui.dirty THEN ui.form[field] ELSE Read(c.events[1], c.end)[field]
ClassArrives ==
  \E q \in Pending("list") :
    /\ q.status = "done" /\ wire' = wire \ {q} /\ shown' = q.rows /\ UNCHANGED server
    /\ ui' = IF ui.version = 0 THEN ui
             ELSE [ui EXCEPT !.form.cadence = Followed(q.rows, "cadence"),
                             !.form.until = Followed(q.rows, "until")]

Next ==
  \/ Open \/ Close \/ CloseDialog \/ Save
  \/ \E c \in Picked : SetCadence(c)
  \/ \E n \in {1, 3} : SetEvery(n)
  \/ \E d \in Days : ToggleDay(d)
  \/ \E d \in {NoDate, LastDay} : SetUntil(d)
  \/ LeavePattern
  \/ \E d \in {"room", "instructor"} : OpenDialog(d) \/ Add(d)
  \/ ListServed(server) \/ ClassArrives \/ ListLost
  \/ \E q \in wire : Serve(q) \/ Listed(q) \/ Added(q) \/ SaveAnswered(q) \/ Refused(q) \/ FailsHere(q)

\* One opening of the editor saves once at a time.
NoDoubleSubmit == \A q, r \in Pending("save") : q.ids.version = r.ids.version => q = r
QuietIsFresh == Fresh(server)

\* Saving without touching the schedule leaves the dates of every event as they were.
Untouched(q) == q.ids.dirty = {}
SameDates(q) == \A i \in DOMAIN q.ids.before : Meets(q.ids.after[i]) = Meets(q.ids.before[i])
UntouchedStays == \A q \in Pending("save") : Untouched(q) => SameDates(q)

\* It does for classes that repeat, at one interval, were never rescheduled and were not
\* fetched anew under the open editor.
Plain(events) == Len(events) = 1 /\ Len(events[1].intervals) <= 1 /\ ~Once(events[1])
PlainStays ==
  \A q \in Pending("save") :
    Untouched(q) /\ Plain(q.ids.before) /\ q.ids.opened = q.ids.before => SameDates(q)
=============================================================================

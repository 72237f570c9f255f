------------------------- MODULE ConsoleScheduleProofs -------------------------
(***************************************************************************)
(* What the pages of the console make of a schedule, for any days, rooms,  *)
(* cadences and bounds: the rules the class forms write, and the sessions  *)
(* that are cancelled, moved, changed and restored.                        *)
(***************************************************************************)
EXTENDS ConsoleFreshProofs

-----------------------------------------------------------------------------
(* The form that creates a class *)

\* Whatever the form holds, the rule it writes stands for the dates it asks for.
LEMMA RuleAsAsked ==
  ASSUME NEW f, NEW from  PROVE Form!Meets(Form!Created(f, from)) = Form!Asked(f, from)
<1>1. CASE f.cadence = "no-repeat"
  BY <1>1 DEF Form!Meets, Form!Created, Form!Asked, Form!Rule, Form!Once
<1>2. CASE f.cadence # "no-repeat"
  <2>1. Form!Freq(f.cadence) # "none"
    BY DEF Form!Freq
  <2>2. Form!Every(Form!Intervals(f))
          = IF f.cadence = "biweekly" THEN 2 ELSE IF f.cadence = "custom" THEN f.every ELSE 1
    BY DEF Form!Every, Form!Intervals
  <2> QED
    BY <1>2, <2>1, <2>2 DEF Form!Meets, Form!Created, Form!Asked, Form!Rule, Form!Once
<1> QED  BY <1>1, <1>2

FormSound ==
  /\ {"rooms", "room"} \subseteq DOMAIN ui
  /\ WireTyped
  /\ ui.room # None => ui.room \in ui.rooms
  /\ \A q \in wire : q.op = "save" => \A s \in q.ids : Form!Meets(s.rule) = s.asked

LEMMA FormSoundInit ==
  ASSUME Form!Init  PROVE FormSound
<1>1. /\ wire \subseteq {Form!Fetch} /\ {"rooms", "room"} \subseteq DOMAIN ui
      /\ ui.room # None => ui.room \in ui.rooms
  BY DEF Form!Init
<1>2. DOMAIN Form!Fetch = Fields /\ Form!Fetch.op = "list"
  BY DEF Form!Fetch, Fields
<1> QED  BY <1>1, <1>2 DEF FormSound, WireTyped

LEMMA FormSoundStep ==
  ASSUME FormSound, Form!Next  PROVE FormSound'
<1>1. /\ {"rooms", "room"} \subseteq DOMAIN ui
      /\ \A q \in wire : DOMAIN q = Fields
  BY DEF FormSound, WireTyped
\* The room stays, and no save joins the wire.
<1>2. ASSUME DOMAIN ui' = DOMAIN ui, ui'.rooms = ui.rooms, ui'.room = ui.room,
             \A q \in wire' : q \in wire \/ (DOMAIN q = Fields /\ q.op # "save")
      PROVE  FormSound'
  BY <1>2 DEF FormSound, WireTyped
<1>3. ASSUME NEW q \in wire, NEW new, DOMAIN new = Fields, new.op = q.op, new.ids = q.ids, ui' = ui,
             wire' = (wire \ {q}) \cup {new}
      PROVE  FormSound'
  BY <1>3 DEF FormSound, WireTyped
<1>4. CASE \/ \E field, value : Form!Fill(field, value)
           \/ (\E d : Form!OpenDialog(d)) \/ Form!CloseDialog \/ Form!CloseConflicts \/ Form!Cancel
  <2>1. wire' = wire /\ DOMAIN ui' = DOMAIN ui /\ ui'.rooms = ui.rooms /\ ui'.room = ui.room
    BY <1>1, <1>4
       DEF Form!Fill, Form!OpenDialog, Form!CloseDialog, Form!CloseConflicts, Form!Cancel,
           Form!Shows
  <2> QED  BY <1>2, <2>1
<1>5. CASE \/ (\E d : Form!SetUntil(d)) \/ (\E c : Form!SetCadence(c)) \/ (\E n : Form!SetEvery(n))
           \/ Form!LeavePattern \/ (\E d : Form!ToggleDay(d))
  BY <1>4, <1>5
     DEF Form!SetUntil, Form!SetCadence, Form!SetEvery, Form!LeavePattern, Form!ToggleDay
<1>6. ASSUME NEW r, Form!ChooseRoom(r)  PROVE FormSound'
  <2>1. wire' = wire /\ DOMAIN ui' = DOMAIN ui /\ ui'.rooms = ui.rooms /\ ui'.room \in ui.rooms
    BY <1>1, <1>6 DEF Form!ChooseRoom, Form!Shows
  <2> QED  BY <2>1 DEF FormSound, WireTyped
<1>7. ASSUME NEW op \in {"room", "instructor"}, NEW ids, Form!SendFreely(op, ids)
      PROVE  FormSound'
  <2>1. DOMAIN Form!Request(op, ids) = Fields /\ Form!Request(op, ids).op # "save"
    BY DEF Form!Request, Fields
  <2>2. wire' = wire \cup {Form!Request(op, ids)} /\ ui' = ui
    BY <1>7 DEF Form!SendFreely
  <2> QED  BY <1>2, <2>1, <2>2
<1>8. CASE Form!AddInstructor \/ \E r : Form!AddRoom(r)
  BY <1>7, <1>8 DEF Form!AddInstructor, Form!AddRoom
<1>9. CASE Form!Submit
  <2> DEFINE all == {[asked |-> Form!Asked(ui.form, Form!Start),
                      rule |-> Form!Created(ui.form, Form!Start)]}
  <2>1. PICK ids \in {all, {}} : Form!Send("save", ids)
    BY <1>9 DEF Form!Submit
  <2>2. \A s \in ids : Form!Meets(s.rule) = s.asked
    BY <2>1, RuleAsAsked
  <2> DEFINE new == Form!Request("save", ids)
  <2>3. DOMAIN new = Fields /\ new.ids = ids
    BY DEF Form!Request, Fields
  <2>4. /\ wire' = wire \cup {new} /\ DOMAIN ui' = DOMAIN ui
        /\ ui'.rooms = ui.rooms /\ ui'.room = ui.room
    BY <1>1, <2>1 DEF Form!Send, Form!Submitted
  <2> HIDE DEF new, all
  <2> QED  BY <2>2, <2>3, <2>4 DEF FormSound, WireTyped
<1>10. CASE Form!ListServed(server)
  <2>1. PICK q \in wire :
          /\ ui' = ui
          /\ wire' = (wire \ {q}) \cup {[q EXCEPT !.status = "done", !.rows = server]}
    BY <1>10 DEF Form!ListServed
  <2> DEFINE new == [q EXCEPT !.status = "done", !.rows = server]
  <2>2. DOMAIN new = Fields /\ new.op = q.op /\ new.ids = q.ids
    BY <1>1 DEF Fields
  <2>3. wire' = (wire \ {q}) \cup {new}
    BY <2>1
  <2> HIDE DEF new
  <2> QED  BY <1>3, <2>1, <2>2, <2>3
<1>11. CASE Form!RoomsArrive
  <2>1. PICK q \in wire :
          /\ wire' = wire \ {q}
          /\ ui' = ui \/ (ui.rooms = {} /\ ui' = [ui EXCEPT !.rooms = q.rows])
    BY <1>11 DEF Form!RoomsArrive, Form!Pending
  <2>2. DOMAIN ui' = DOMAIN ui /\ ui'.room = ui.room /\ (ui'.rooms = ui.rooms \/ ui.rooms = {})
    BY <1>1, <2>1
  <2> QED  BY <2>1, <2>2 DEF FormSound, WireTyped
<1>12. ASSUME NEW q \in wire, NEW status, ui' = ui, wire' = Form!Becomes(q, status)
       PROVE  FormSound'
  <2> DEFINE new == [q EXCEPT !.status = status]
  <2>1. DOMAIN new = Fields /\ new.op = q.op /\ new.ids = q.ids
    BY <1>1 DEF Fields
  <2>2. wire' = (wire \ {q}) \cup {new}
    BY <1>12 DEF Form!Becomes
  <2> HIDE DEF new
  <2> QED  BY <1>3, <1>12, <2>1, <2>2
<1>13. ASSUME NEW q \in wire, Form!Serve(q)  PROVE FormSound'
  BY <1>12, <1>13 DEF Form!Serve, Form!Served
<1>14. ASSUME NEW q \in wire, Form!Succeeds(q)  PROVE FormSound'
  <2>1. wire' = wire \ {q} /\ DOMAIN ui' = DOMAIN ui
        /\ \/ ui'.rooms = ui.rooms /\ ui'.room = ui.room
           \/ ui'.room \in ui'.rooms
    BY <1>1, <1>14 DEF Form!Succeeds, Form!Settles, Form!Closes, Form!WithRoom
  <2> QED  BY <2>1 DEF FormSound, WireTyped
<1>15. ASSUME NEW q \in wire, Form!Conflicts(q) \/ Form!FailsHere(q)  PROVE FormSound'
  <2>1. /\ wire' = wire \ {q} /\ DOMAIN ui' = DOMAIN ui
        /\ ui'.rooms = ui.rooms /\ ui'.room = ui.room
    BY <1>1, <1>15
       DEF Form!Conflicts, Form!Settles, Form!FailsHere, Form!Fails, Form!Closes
  <2> QED  BY <1>2, <2>1
<1> QED
  BY <1>4, <1>5, <1>6, <1>8, <1>9, <1>10, <1>11, <1>13, <1>14, <1>15 DEF Form!Next

-----------------------------------------------------------------------------
(* The editor of a class *)

\* The rules the two forms write: only a weekly one has days and intervals.
Positive == Nat \ {0}
RuleSet ==
  [freq : {"daily", "weekly", "monthly", "none"}, intervals : Seq(Positive), once : BOOLEAN,
   days : SUBSET ClassDays, from : Nat, until : {NoDate, LastDay, Class!Start}]
RuleSound(r) ==
  /\ r \in RuleSet /\ r.from = Class!Start
  /\ r.freq # "weekly" => r.intervals = <<>> /\ r.days = {}
\* A class has a rule for each of its series, and the end it shows is that of its only one.
ClassSound(c) ==
  /\ c.events \in Seq(RuleSet) /\ c.events # <<>> /\ RuleSound(c.events[1])
  /\ Len(c.events) = 1 /\ ~Class!Once(c.events[1]) => c.end \in {NoDate, c.events[1].until}
FormTyped(f) ==
  /\ DOMAIN f = {"cadence", "every", "days", "until"} /\ f.every \in Positive
  /\ f.days \subseteq ClassDays /\ f.until \in {NoDate, LastDay, Class!Start}

\* The form of an editor in which nothing was changed shows the class as it is now, but for the
\* days and the interval, which are those of the class it was opened for.
Unchanged(u, c) ==
  u.dirty = {} =>
    LET now == Class!Read(c.events[1], c.end) IN
    /\ u.form.cadence = now.cadence /\ u.form.until = c.end
    /\ u.form.every = Class!First(u.opened[1].intervals) /\ u.form.days = u.opened[1].days
SaveSound(ids) ==
  /\ ClassSound([events |-> ids.after, end |-> ids.end])
  /\ ids.dirty = {} /\ Class!Plain(ids.before) /\ ids.opened = ids.before =>
       \A i \in DOMAIN ids.before : Class!Meets(ids.after[i]) = Class!Meets(ids.before[i])

ClassEnds(c) == c.end \in {NoDate, LastDay, Class!Start}
EditorSound(u, c) ==
  /\ {"version", "open", "form", "dirty", "opened"} \subseteq DOMAIN u
  /\ u.version \in Nat
  /\ u.version = 0 => ~u.open
  /\ u.version # 0 =>
       FormTyped(u.form) /\ u.opened \in Seq(RuleSet) /\ u.opened # <<>> /\ Unchanged(u, c)
AnswersSound(w) ==
  \A q \in w :
    /\ DOMAIN q = Fields
    /\ q.op = "save" => SaveSound(q.ids) /\ q.ids.end \in {NoDate, LastDay, Class!Start}
    /\ q.op = "list" /\ q.status = "done" => ClassSound(q.rows) /\ ClassEnds(q.rows)
ScheduleSound ==
  /\ ClassSound(server) /\ ClassEnds(server) /\ ClassSound(shown) /\ ClassEnds(shown)
  /\ EditorSound(ui, shown) /\ AnswersSound(wire)

\* What the editor reads of a rule, and what it writes over one, is well formed.
LEMMA ReadTyped ==
  ASSUME NEW c, ClassSound(c), ClassEnds(c)
  PROVE  /\ FormTyped(Class!Read(c.events[1], c.end))
         /\ Class!Read(c.events[1], c.end).until = c.end
         /\ Class!Read(c.events[1], c.end).every = Class!First(c.events[1].intervals)
         /\ Class!Read(c.events[1], c.end).days = c.events[1].days
<1> DEFINE r == c.events[1]
<1>1. r.intervals \in Seq(Positive) /\ r.days \subseteq ClassDays
  BY DEF ClassSound, RuleSound, RuleSet
<1>2. Class!First(r.intervals) \in Positive
  BY <1>1 DEF Class!First, Positive
<1> HIDE DEF r
<1>3. FormTyped(Class!Read(r, c.end))
  BY <1>1, <1>2 DEF FormTyped, Class!Read, ClassEnds
<1>4. /\ Class!Read(r, c.end).until = c.end /\ Class!Read(r, c.end).days = r.days
      /\ Class!Read(r, c.end).every = Class!First(r.intervals)
  BY DEF Class!Read
<1> QED  BY <1>3, <1>4 DEF r

LEMMA RewrittenSound ==
  ASSUME NEW r, RuleSound(r), NEW f, FormTyped(f)
  PROVE  /\ RuleSound(Class!Rewritten(r, f, Class!Start))
         /\ \/ Class!Once(Class!Rewritten(r, f, Class!Start))
            \/ f.until \in {NoDate, Class!Rewritten(r, f, Class!Start).until}
<1> DEFINE new == Class!Rewritten(r, f, Class!Start)
<1>1. Class!Start \in Nat
  BY DEF Class!Start
<1>2. <<>> \in Seq(Positive) /\ <<2>> \in Seq(Positive) /\ <<f.every>> \in Seq(Positive)
  BY DEF FormTyped, Positive
<1>3. CASE f.cadence = "no-repeat"
  <2>1. new = [freq |-> "none", intervals |-> <<>>, once |-> FALSE, days |-> {},
               from |-> Class!Start, until |-> NoDate]
    BY <1>3 DEF Class!Rewritten, Class!Rule
  <2>2. new \in RuleSet
    BY <1>1, <1>2, <2>1 DEF RuleSet
  <2> QED  BY <2>1, <2>2 DEF RuleSound, Class!Once
<1>4. CASE f.cadence # "no-repeat"
  <2> DEFINE intervals == IF f.cadence = "biweekly" THEN <<2>>
                 ELSE IF f.cadence = "custom" /\ f.every > 1 THEN <<f.every>> ELSE <<>>
             until == IF f.until # NoDate THEN f.until ELSE r.until
  <2>1. new = [freq |-> Class!Freq(f.cadence), intervals |-> intervals, once |-> FALSE,
               days |-> Class!DaysOf(f), from |-> Class!Start, until |-> until]
    BY <1>4 DEF Class!Rewritten, Class!Rule
  <2>2. /\ Class!Freq(f.cadence) \in {"daily", "weekly", "monthly"}
        /\ intervals \in Seq(Positive) /\ Class!DaysOf(f) \subseteq ClassDays
        /\ until \in {NoDate, LastDay, Class!Start}
    BY <1>2 DEF Class!Freq, Class!DaysOf, FormTyped, RuleSound, RuleSet
  <2>3. Class!Freq(f.cadence) # "weekly" => intervals = <<>> /\ Class!DaysOf(f) = {}
    BY DEF Class!Freq, Class!DaysOf, Class!OnDays
  <2>4. f.until \in {NoDate, until}
    OBVIOUS
  <2> HIDE DEF intervals, until
  <2>5. new \in RuleSet
    BY <1>1, <2>1, <2>2 DEF RuleSet
  <2> QED  BY <2>1, <2>3, <2>4, <2>5 DEF RuleSound
<1> QED  BY <1>3, <1>4

\* A rule at one interval that is read and written back stands for the same dates.
LEMMA WrittenBack ==
  ASSUME NEW r, RuleSound(r), ~Class!Once(r), Len(r.intervals) <= 1,
         NEW end \in {NoDate, r.until}, NEW f, f.cadence = Class!Read(r, end).cadence,
         f.every = Class!First(r.intervals), f.days = r.days, f.until = end
  PROVE  Class!Meets(Class!Rewritten(r, f, Class!Start)) = Class!Meets(r)
<1> DEFINE new == Class!Rewritten(r, f, Class!Start)
           n == Class!First(r.intervals)
<1>1. /\ r.freq \in {"daily", "weekly", "monthly"} /\ ~r.once /\ r.intervals \in Seq(Positive)
      /\ r.from = Class!Start /\ (r.freq # "weekly" => r.intervals = <<>> /\ r.days = {})
  BY DEF RuleSound, RuleSet, Class!Once
<1>2. n \in Positive /\ Class!Every(r.intervals) = n
  BY <1>1 DEF Class!First, Class!Every, Positive
<1>3. f.cadence = IF r.freq = "weekly" THEN Class!Weeks(n) ELSE r.freq
  BY <1>1 DEF Class!Read
<1>4. /\ f.cadence # "no-repeat" /\ Class!Freq(f.cadence) = r.freq
      /\ Class!DaysOf(f) = r.days
  BY <1>1, <1>3 DEF Class!Weeks, Class!Freq, Class!DaysOf, Class!OnDays
<1>5. Class!Every(new.intervals) = n
  <2>1. new.intervals = IF f.cadence = "biweekly" THEN <<2>>
                 ELSE IF f.cadence = "custom" /\ f.every > 1 THEN <<f.every>> ELSE <<>>
    BY <1>4 DEF Class!Rewritten, Class!Rule
  <2>2. CASE r.freq = "weekly"
    BY <1>2, <1>3, <2>1, <2>2 DEF Class!Weeks, Class!Every, Positive
  <2>3. CASE r.freq # "weekly"
    <3>1. n = 1
      BY <1>1, <2>3 DEF Class!First
    <3> QED  BY <1>1, <1>3, <2>1, <2>3, <3>1 DEF Class!Every
  <2> QED  BY <2>2, <2>3
<1>6. /\ new.freq = r.freq /\ new.once = FALSE /\ new.days = r.days /\ new.from = r.from
      /\ new.until = r.until
  BY <1>1, <1>4 DEF Class!Rewritten, Class!Rule
<1> HIDE DEF new, n
<1> QED  BY <1>1, <1>2, <1>5, <1>6 DEF Class!Meets, Class!Once, new

\* What a save sends is well formed, and if nothing was changed in the editor stands for the dates
\* the class had.
LEMMA SavesSound ==
  ASSUME ScheduleSound, ui.version # 0, NEW ids,
         ids = [version |-> ui.version, opened |-> ui.opened, before |-> shown.events,
                after |-> Class!Rules, dirty |-> ui.dirty, end |-> ui.form.until]
  PROVE  SaveSound(ids) /\ ids.end \in {NoDate, LastDay, Class!Start}
<1> DEFINE old == shown.events[1]
           new == Class!Rewritten(old, ui.form, Class!Start)
<1>1. /\ shown.events \in Seq(RuleSet) /\ Len(shown.events) \in Positive /\ RuleSound(old)
      /\ FormTyped(ui.form)
  BY DEF ScheduleSound, ClassSound, EditorSound, Positive
<1>2. /\ RuleSound(new)
      /\ Class!Once(new) \/ ui.form.until \in {NoDate, new.until}
  BY <1>1, RewrittenSound
<1>3. /\ ids.after = [i \in 1 .. Len(shown.events) |-> IF i = 1 THEN new ELSE shown.events[i]]
      /\ ids.before = shown.events /\ ids.opened = ui.opened /\ ids.dirty = ui.dirty
      /\ ids.end = ui.form.until
  BY <1>1 DEF Class!Rules
<1>4. new \in RuleSet
  BY <1>2 DEF RuleSound
<1> HIDE DEF new, old
<1>5. ids.after \in Seq(RuleSet) /\ Len(ids.after) = Len(shown.events) /\ ids.after[1] = new
  BY <1>1, <1>3, <1>4 DEF Positive
<1>6. ids.after # <<>>
  BY <1>1, <1>5 DEF Positive
<1>7. ClassSound([events |-> ids.after, end |-> ids.end])
  BY <1>2, <1>3, <1>5, <1>6 DEF ClassSound
<1>8. ASSUME ids.dirty = {}, Class!Plain(ids.before), ids.opened = ids.before,
             NEW i \in DOMAIN ids.before
      PROVE  Class!Meets(ids.after[i]) = Class!Meets(ids.before[i])
  <2>1. Len(shown.events) = 1 /\ Len(old.intervals) <= 1 /\ ~Class!Once(old)
    BY <1>3, <1>8 DEF Class!Plain, old
  <2>2. i = 1
    BY <1>1, <1>3, <1>8, <2>1
  <2>3. shown.end \in {NoDate, old.until}
    BY <2>1 DEF ScheduleSound, ClassSound, old
  <2>4. Unchanged(ui, shown)
    BY DEF ScheduleSound, EditorSound
  <2>5. /\ ui.form.cadence = Class!Read(old, shown.end).cadence /\ ui.form.until = shown.end
        /\ ui.form.every = Class!First(old.intervals) /\ ui.form.days = old.days
    BY <1>3, <1>8, <2>4 DEF Unchanged, old
  <2>6. Class!Meets(new) = Class!Meets(old)
    BY <1>1, <2>1, <2>3, <2>5, WrittenBack DEF new
  <2> QED  BY <1>3, <1>5, <2>2, <2>6 DEF old
<1> QED  BY <1>1, <1>3, <1>7, <1>8 DEF SaveSound, FormTyped

\* A class as it is created, with or without its series rescheduled since.
LEMMA CreatedSound ==
  ASSUME NEW f \in Class!Forms
  PROVE  /\ RuleSound(Class!Created(f, Class!Start))
         /\ \/ Class!Once(Class!Created(f, Class!Start))
            \/ f.until = Class!Created(f, Class!Start).until
<1> DEFINE new == Class!Created(f, Class!Start)
<1>1. Class!Start \in Nat
  BY DEF Class!Start
<1>2. /\ <<>> \in Seq(Positive) /\ <<1>> \in Seq(Positive) /\ <<1, 2>> \in Seq(Positive)
      /\ <<f.every>> \in Seq(Positive)
  BY DEF Class!Forms, Positive
<1>3. CASE f.cadence = "no-repeat"
  <2>1. new = [freq |-> "daily", intervals |-> <<>>, once |-> TRUE, days |-> {},
               from |-> Class!Start, until |-> NoDate]
    BY <1>3 DEF Class!Created, Class!Rule
  <2>2. new \in RuleSet
    BY <1>1, <1>2, <2>1 DEF RuleSet
  <2> QED  BY <2>1, <2>2 DEF RuleSound, Class!Once
<1>4. CASE f.cadence # "no-repeat"
  <2> DEFINE intervals == Class!Intervals(f)
  <2>1. new = [freq |-> Class!Freq(f.cadence), intervals |-> intervals, once |-> FALSE,
               days |-> Class!DaysOf(f), from |-> Class!Start, until |-> f.until]
    BY <1>4 DEF Class!Created, Class!Rule
  <2>2. /\ Class!Freq(f.cadence) \in {"daily", "weekly", "monthly"}
        /\ intervals \in Seq(Positive) /\ Class!DaysOf(f) \subseteq ClassDays
        /\ f.until \in {NoDate, LastDay, Class!Start}
    BY <1>2 DEF Class!Freq, Class!DaysOf, Class!Forms, Class!Intervals
  <2>3. Class!Freq(f.cadence) # "weekly" => intervals = <<>> /\ Class!DaysOf(f) = {}
    BY DEF Class!Freq, Class!DaysOf, Class!OnDays, Class!Intervals
  <2> HIDE DEF intervals
  <2>4. new \in RuleSet
    BY <1>1, <2>1, <2>2 DEF RuleSet
  <2> QED  BY <2>1, <2>3, <2>4 DEF RuleSound
<1> QED  BY <1>3, <1>4

LEMMA ScheduleSoundInit ==
  ASSUME Class!Init  PROVE ScheduleSound
<1>1. server \in Class!Classes /\ shown = server /\ wire = {} /\ ui = Class!Idle
  BY DEF Class!Init
<1>2. PICK f \in Class!Made :
        \E events \in {Class!Whole(Class!Created(f, Class!Start)),
                       Class!Cut(Class!Created(f, Class!Start))} :
          server = [events |-> events, end |-> f.until]
  BY <1>1 DEF Class!Classes
<1> DEFINE r == Class!Created(f, Class!Start)
           first == [r EXCEPT !.until = Class!Start]
           second == [r EXCEPT !.from = 2]
<1>3. f \in Class!Forms /\ f.until = LastDay
  BY DEF Class!Made, Class!Forms
<1>4. RuleSound(r) /\ (Class!Once(r) \/ f.until = r.until)
  BY <1>3, CreatedSound
<1> HIDE DEF r
<1>5. RuleSound(first) /\ second \in RuleSet
  BY <1>4 DEF RuleSound, RuleSet
<1>6. server = [events |-> <<r>>, end |-> f.until]
      \/ server = [events |-> <<first, second>>, end |-> f.until]
  BY <1>2 DEF Class!Whole, Class!Cut, r
<1> HIDE DEF first, second
<1>7. ClassSound(server)
  <2>1. r \in RuleSet /\ first \in RuleSet
    BY <1>4, <1>5 DEF RuleSound
  <2>2. CASE server = [events |-> <<r>>, end |-> f.until]
    <3>1. server.events \in Seq(RuleSet) /\ server.events # <<>> /\ server.events[1] = r
          /\ server.end = f.until
      BY <2>1, <2>2
    <3> QED  BY <1>4, <3>1 DEF ClassSound
  <2>3. CASE server = [events |-> <<first, second>>, end |-> f.until]
    <3>1. server.events \in Seq(RuleSet) /\ server.events # <<>> /\ server.events[1] = first
          /\ Len(server.events) = 2
      BY <1>5, <2>1, <2>3
    <3> QED  BY <1>5, <3>1 DEF ClassSound
  <2> QED  BY <1>6, <2>2, <2>3
<1>8. ClassEnds(server)
  BY <1>3, <1>6 DEF ClassEnds
<1>9. EditorSound(ui, shown)
  BY <1>1 DEF EditorSound, Class!Idle
<1> QED  BY <1>1, <1>7, <1>8, <1>9 DEF ScheduleSound, AnswersSound

LEMMA ScheduleSoundStep ==
  ASSUME ScheduleSound, Class!Next  PROVE ScheduleSound'
<1>1. /\ {"version", "open", "form", "dirty", "opened"} \subseteq DOMAIN ui
      /\ ui.version \in Nat /\ (ui.open => ui.version # 0)
      /\ ClassSound(shown) /\ ClassEnds(shown) /\ ClassSound(server) /\ ClassEnds(server)
      /\ \A q \in wire : DOMAIN q = Fields
  BY DEF ScheduleSound, EditorSound, AnswersSound
\* The form and the class stay, and no save joins the wire.
<1>2. ASSUME UNCHANGED <<server, shown>>, DOMAIN ui' = DOMAIN ui, ui'.version = ui.version,
             ui'.open => ui.open, ui'.form = ui.form, ui'.dirty = ui.dirty, ui'.opened = ui.opened,
             \A q \in wire' : q \in wire \/ (DOMAIN q = Fields /\ q.op # "save"
               /\ q.status = "sent")
      PROVE  ScheduleSound'
  BY <1>2 DEF ScheduleSound, EditorSound, Unchanged, AnswersSound
<1>3. ASSUME NEW q \in wire, NEW new, DOMAIN new = Fields, new.op = q.op, new.ids = q.ids,
             wire' = (wire \ {q}) \cup {new}, new.op = "list" /\ new.status = "done"
             => new.rows = server,
             UNCHANGED <<shown, ui>>, ClassSound(server') /\ ClassEnds(server')
      PROVE  ScheduleSound'
  <2>1. AnswersSound(wire')
    BY <1>1, <1>3 DEF ScheduleSound, AnswersSound
  <2> QED  BY <1>3, <2>1 DEF ScheduleSound
<1>4. CASE Class!Open
  <2> DEFINE now == Class!Read(shown.events[1], shown.end)
  <2>1. /\ UNCHANGED <<server, shown, wire>>
        /\ ui' = [Class!Idle EXCEPT !.version = ui.version + 1, !.open = TRUE,
                                    !.opened = shown.events, !.form = now, !.doubt = ui.doubt]
    BY <1>4 DEF Class!Open, Class!Shows
  <2>2. /\ {"version", "open", "form", "dirty", "opened"} \subseteq DOMAIN ui'
        /\ ui'.version = ui.version + 1 /\ ui'.opened = shown.events /\ ui'.form = now
    BY <2>1 DEF Class!Idle
  <2>3. /\ FormTyped(now) /\ now.until = shown.end /\ now.days = shown.events[1].days
        /\ now.every = Class!First(shown.events[1].intervals)
    BY <1>1, ReadTyped
  <2> HIDE DEF now
  <2>4. Unchanged(ui', shown)
    BY <2>2, <2>3 DEF Unchanged, now
  <2>5. EditorSound(ui', shown)
    BY <1>1, <2>2, <2>3, <2>4 DEF EditorSound, ClassSound
  <2> QED  BY <2>1, <2>5 DEF ScheduleSound
<1>5. CASE Class!Close \/ Class!CloseDialog \/ \E d : Class!OpenDialog(d)
  <2>1. /\ UNCHANGED <<server, shown, wire>> /\ DOMAIN ui' = DOMAIN ui /\ ui'.version = ui.version
        /\ ui'.open => ui.open
        /\ ui'.form = ui.form /\ ui'.dirty = ui.dirty /\ ui'.opened = ui.opened
    BY <1>1, <1>5 DEF Class!Close, Class!CloseDialog, Class!OpenDialog, Class!Shows
  <2> QED  BY <1>2, <2>1
<1>6. ASSUME NEW field, NEW value, Class!EditForm(field, value),
             \/ field = "cadence"
             \/ field = "until" /\ value \in {NoDate, LastDay}
             \/ field = "every" /\ value \in {1, 3}
             \/ field = "days" /\ value \subseteq ClassDays
      PROVE  ScheduleSound'
  <2>1. /\ UNCHANGED <<server, shown, wire>> /\ ui.open
        /\ ui' = [ui EXCEPT !.form[field] = value, !.dirty = @ \cup {field}]
    BY <1>6 DEF Class!EditForm, Class!Free, Class!Shows
  <2>2. /\ DOMAIN ui' = DOMAIN ui /\ ui'.version = ui.version /\ ui'.opened = ui.opened
        /\ ui'.form = [ui.form EXCEPT ![field] = value] /\ ui'.dirty # {} /\ ui'.open = ui.open
    BY <1>1, <2>1
  <2>3. FormTyped(ui.form) /\ ui.opened \in Seq(RuleSet) /\ ui.opened # <<>>
    BY <1>1, <2>1 DEF ScheduleSound, EditorSound
  <2>4. FormTyped(ui'.form)
    BY <1>6, <2>2, <2>3 DEF FormTyped, Positive
  <2>5. EditorSound(ui', shown)
    BY <1>1, <2>1, <2>2, <2>3, <2>4 DEF EditorSound, Unchanged
  <2> QED  BY <2>1, <2>5 DEF ScheduleSound
<1>7. CASE (\E c : Class!SetCadence(c)) \/ Class!LeavePattern
  BY <1>6, <1>7 DEF Class!SetCadence, Class!LeavePattern
<1>8. ASSUME NEW n \in {1, 3}, Class!SetEvery(n)  PROVE ScheduleSound'
  BY <1>6, <1>8 DEF Class!SetEvery
<1>9. ASSUME NEW d \in {NoDate, LastDay}, Class!SetUntil(d)  PROVE ScheduleSound'
  BY <1>6, <1>9 DEF Class!SetUntil
<1>10. ASSUME NEW d \in ClassDays, Class!ToggleDay(d)  PROVE ScheduleSound'
  <2>1. PICK days \in {ui.form.days \ {d}, ui.form.days \cup {d}} :
          ui.open /\ Class!EditForm("days", days)
    BY <1>10 DEF Class!ToggleDay
  <2>2. ui.form.days \subseteq ClassDays
    BY <1>1, <2>1 DEF ScheduleSound, EditorSound, FormTyped
  <2> QED  BY <1>6, <2>1, <2>2
<1>11. ASSUME NEW op \in {"room", "instructor"}, Class!Add(op)  PROVE ScheduleSound'
  <2> DEFINE new == Class!Request(op, [version |-> ui.version])
  <2>1. DOMAIN new = Fields /\ new.op = op /\ new.status = "sent"
    BY DEF Class!Request, Fields
  <2>2. wire' = wire \cup {new} /\ UNCHANGED <<server, shown, ui>>
    BY <1>11 DEF Class!Add, Class!SendFreely
  <2> HIDE DEF new
  <2> QED  BY <1>2, <2>1, <2>2
<1>12. CASE Class!Save
  <2>1. PICK ids :
          /\ ids = [version |-> ui.version, opened |-> ui.opened, before |-> shown.events,
                    after |-> Class!Rules, dirty |-> ui.dirty, end |-> ui.form.until]
          /\ Class!Send("save", ids) /\ ui.open
    BY <1>12 DEF Class!Save, Class!Free
  <2>2. SaveSound(ids) /\ ids.end \in {NoDate, LastDay, Class!Start}
    BY <1>1, <2>1, SavesSound
  <2> DEFINE new == Class!Request("save", ids)
  <2>3. DOMAIN new = Fields /\ new.ids = ids /\ new.op = "save"
    BY DEF Class!Request, Fields
  <2>4. /\ wire' = wire \cup {new} /\ UNCHANGED <<server, shown>> /\ DOMAIN ui' = DOMAIN ui
        /\ ui'.version = ui.version /\ ui'.open = ui.open
        /\ ui'.form = ui.form /\ ui'.dirty = ui.dirty /\ ui'.opened = ui.opened
    BY <1>1, <2>1 DEF Class!Send, Class!Submitted
  <2> HIDE DEF new
  <2>5. AnswersSound(wire')
    BY <2>2, <2>3, <2>4 DEF ScheduleSound, AnswersSound
  <2>6. EditorSound(ui', shown)
    BY <2>4 DEF ScheduleSound, EditorSound, Unchanged
  <2> QED  BY <2>4, <2>5, <2>6 DEF ScheduleSound
<1>13. CASE Class!ListServed(server)
  <2>1. PICK q \in wire :
          /\ wire' = (wire \ {q}) \cup {[q EXCEPT !.status = "done", !.rows = server]}
          /\ UNCHANGED <<server, shown, ui>>
    BY <1>13 DEF Class!ListServed
  <2> DEFINE new == [q EXCEPT !.status = "done", !.rows = server]
  <2>2. DOMAIN new = Fields /\ new.op = q.op /\ new.ids = q.ids /\ new.rows = server
    BY <1>1 DEF Fields
  <2>3. wire' = (wire \ {q}) \cup {new}
    BY <2>1
  <2> HIDE DEF new
  <2> QED  BY <1>1, <1>3, <2>1, <2>2, <2>3
<1>14. CASE Class!ClassArrives
  <2>1. PICK q \in wire :
          /\ q.op = "list" /\ q.status = "done" /\ wire' = wire \ {q} /\ shown' = q.rows
          /\ server' = server
          /\ ui' = IF ui.version = 0 THEN ui
                   ELSE [ui EXCEPT !.form.cadence = Class!Followed(q.rows, "cadence"),
                                   !.form.until = Class!Followed(q.rows, "until")]
    BY <1>14 DEF Class!ClassArrives, Class!Pending
  <2>2. ClassSound(q.rows) /\ ClassEnds(q.rows)
    BY <2>1 DEF ScheduleSound, AnswersSound
  <2>3. AnswersSound(wire')
    BY <2>1 DEF ScheduleSound, AnswersSound
  <2>4. EditorSound(ui', q.rows)
    <3>1. CASE ui.version = 0
      BY <2>1, <3>1 DEF ScheduleSound, EditorSound
    <3>2. CASE ui.version # 0
      <4> DEFINE now == Class!Read(q.rows.events[1], q.rows.end)
      <4>1. FormTyped(now) /\ now.until = q.rows.end
        BY <2>2, ReadTyped
      <4> HIDE DEF now
      <4>2. /\ DOMAIN ui' = DOMAIN ui /\ ui'.version = ui.version /\ ui'.open = ui.open
            /\ ui'.dirty = ui.dirty /\ ui'.opened = ui.opened
            /\ ui'.form = [ui.form EXCEPT
                             !.cadence = IF "cadence" \in ui.dirty THEN ui.form.cadence
                                         ELSE now.cadence,
                             !.until = IF "until" \in ui.dirty THEN ui.form.until ELSE now.until]
        BY <1>1, <2>1, <3>2 DEF Class!Followed, now
      <4>3. FormTyped(ui.form) /\ ui.opened \in Seq(RuleSet) /\ ui.opened # <<>>
            /\ Unchanged(ui, shown)
        BY <3>2 DEF ScheduleSound, EditorSound
      <4>4. FormTyped(ui'.form) /\ ui'.form.every = ui.form.every /\ ui'.form.days = ui.form.days
        BY <4>1, <4>2, <4>3 DEF FormTyped
      <4>5. Unchanged(ui', q.rows)
        <5>1. ASSUME ui.dirty = {}
              PROVE  ui'.form.cadence = now.cadence /\ ui'.form.until = q.rows.end
          BY <4>1, <4>2, <4>3, <5>1 DEF FormTyped
        <5> QED  BY <4>2, <4>3, <4>4, <5>1 DEF Unchanged, now
      <4> QED  BY <1>1, <3>2, <4>2, <4>3, <4>4, <4>5 DEF EditorSound
    <3> QED  BY <3>1, <3>2
  <2> QED  BY <2>1, <2>2, <2>3, <2>4 DEF ScheduleSound
<1>15. CASE Class!ListLost
  <2>1. /\ UNCHANGED <<server, shown>> /\ wire' \subseteq wire /\ DOMAIN ui' = DOMAIN ui
        /\ ui'.version = ui.version /\ ui'.open = ui.open
        /\ ui'.form = ui.form /\ ui'.dirty = ui.dirty /\ ui'.opened = ui.opened
    BY <1>1, <1>15 DEF Class!ListLost
  <2> QED  BY <1>2, <2>1
<1>16. ASSUME NEW q \in wire, NEW status, q.op # "list", UNCHANGED <<shown, ui>>,
              wire' = Class!Becomes(q, status), ClassSound(server') /\ ClassEnds(server')
       PROVE  ScheduleSound'
  <2> DEFINE new == [q EXCEPT !.status = status]
  <2>1. DOMAIN new = Fields /\ new.op = q.op /\ new.ids = q.ids
    BY <1>1 DEF Fields
  <2>2. wire' = (wire \ {q}) \cup {new}
    BY <1>16 DEF Class!Becomes
  <2> HIDE DEF new
  <2> QED  BY <1>3, <1>16, <2>1, <2>2
<1>17. ASSUME NEW q \in wire, Class!Serve(q)  PROVE ScheduleSound'
  <2>1. q.op # "list"
    BY <1>17 DEF Class!Serve, Class!Served, Class!Writes
  <2>2. CASE server' = server
    BY <1>1, <1>16, <1>17, <2>1, <2>2 DEF Class!Serve, Class!Served
  <2>3. CASE q.op = "save" /\ Class!Served(q, [events |-> q.ids.after, end |-> q.ids.end])
    <3> DEFINE c == [events |-> q.ids.after, end |-> q.ids.end]
    <3>1. ClassSound(c) /\ ClassEnds(c)
      BY <2>3 DEF ScheduleSound, AnswersSound, SaveSound, ClassEnds
    <3>2. server' = c /\ wire' = Class!Becomes(q, "done") /\ UNCHANGED <<shown, ui>>
      BY <2>3 DEF Class!Served
    <3> HIDE DEF c
    <3> QED  BY <1>16, <2>1, <3>1, <3>2
  <2> QED  BY <1>17, <2>2, <2>3 DEF Class!Serve, Class!Served
<1>18. ASSUME NEW q \in wire, Class!Listed(q)  PROVE ScheduleSound'
  BY <1>1, <1>16, <1>18 DEF Class!Listed, Class!Answered, Class!Writes
<1>19. ASSUME NEW q \in wire, Class!Added(q) \/ Class!Refused(q) \/ Class!FailsHere(q)
       PROVE  ScheduleSound'
  <2>1. /\ UNCHANGED <<server, shown>> /\ wire' \subseteq wire /\ DOMAIN ui' = DOMAIN ui
        /\ ui'.version = ui.version /\ ui'.open = ui.open
        /\ ui'.form = ui.form /\ ui'.dirty = ui.dirty /\ ui'.opened = ui.opened
    BY <1>1, <1>19 DEF Class!Added, Class!Refused, Class!FailsHere
  <2> QED  BY <1>2, <2>1
<1>20. ASSUME NEW q \in wire, Class!SaveAnswered(q)  PROVE ScheduleSound'
  <2>1. /\ UNCHANGED <<server, shown>> /\ DOMAIN ui' = DOMAIN ui
        /\ ui'.version = ui.version /\ ~ui'.open
        /\ ui'.form = ui.form /\ ui'.dirty = ui.dirty /\ ui'.opened = ui.opened
        /\ wire' \subseteq wire \cup {Class!Fetch}
    BY <1>1, <1>20
       DEF Class!SaveAnswered, Class!Saved, Class!SettlesAndFetches, Class!Doubtless, Class!Refetch
  <2>2. DOMAIN Class!Fetch = Fields /\ Class!Fetch.op = "list" /\ Class!Fetch.status = "sent"
    BY DEF Class!Fetch, Fields
  <2> QED  BY <1>2, <2>1, <2>2
<1> QED
  BY <1>4, <1>5, <1>7, <1>8, <1>9, <1>10, <1>11, <1>12, <1>13, <1>14, <1>15, <1>17, <1>18, <1>19,
     <1>20 DEF Class!Next

-----------------------------------------------------------------------------
(* The calendar of a facility *)

\* A finite set of numbers has a last one.
LEMMA LastOfFinite ==
  ASSUME NEW S \in SUBSET Nat, IsFiniteSet(S), S # {}
  PROVE  \E m \in S : \A e \in S : e <= m
<1> DEFINE Has(X) == X = {} \/ \E m \in X : \A e \in X : e <= m
           Bad == {X \in FiniteSubsetsOf(S) : ~Has(X)}
<1>1. SUFFICES Bad = {}
  BY DEF FiniteSubsetsOf
<1>2. ASSUME Bad # {}  PROVE FALSE
  <2>1. IsWellFoundedOn(StrictSubsetOrdering(S), FiniteSubsetsOf(S))
    BY FS_StrictSubsetOrderingWellFounded
  <2>2. PICK X \in Bad : \A Y \in Bad : <<Y, X>> \notin StrictSubsetOrdering(S)
    BY Zenon, <1>2, <2>1, WFMin
  <2>3. PICK x : x \in X
    OBVIOUS
  <2> DEFINE Y == X \ {x}
  <2>4. Y \in FiniteSubsetsOf(S) /\ Y \subseteq X /\ Y # X
    BY <2>3, FS_RemoveElement DEF FiniteSubsetsOf
  <2>5. <<Y, X>> \in StrictSubsetOrdering(S)
    BY <2>4 DEF StrictSubsetOrdering, FiniteSubsetsOf
  <2>6. Has(Y)
    BY <2>2, <2>4, <2>5
  <2>7. X \subseteq Nat
    BY DEF FiniteSubsetsOf
  <2>8. CASE Y = {}
    <3>1. X = {x}
      BY <2>3, <2>8
    <3> QED  BY <2>3, <2>7, <3>1
  <2>9. CASE Y # {}
    <3>1. PICK m \in Y : \A e \in Y : e <= m
      BY <2>6, <2>9
    <3>2. m \in X /\ m \in Nat /\ x \in Nat
      BY <2>3, <2>7
    <3>3. CASE x <= m
      BY <2>2, <2>7, <3>1, <3>2, <3>3
    <3>4. CASE ~(x <= m)
      <4>1. \A e \in X : e <= x
        BY <2>7, <3>1, <3>2, <3>4
      <4> QED  BY <2>2, <2>3, <4>1
    <3> QED  BY <3>3, <3>4
  <2> QED  BY <2>8, <2>9
<1> QED  BY <1>2

\* An end on the last day the class meets takes that day in.
Ends == {e \in [date : Nat, whole : BOOLEAN] :
           e.date <= Calendar!LastRegular /\ (e.date = Calendar!LastRegular => e.whole)}
SeriesSet ==
  [from : Nat, until : Ends, off : BOOLEAN, gone : BOOLEAN, own : Calendar!Tables]
Kept1(rows) == \A d \in CalendarRegular : \E n \in DOMAIN rows : Calendar!Covers(rows[n], d)

\* A session someone sees, or saw, is one of a series there is.
Known(s, rows) ==
  /\ s.series \in DOMAIN rows /\ s.day \in CalendarDays /\ s.until \in Ends
  /\ ~s.own => s.day \in CalendarRegular
AskedSound(q, rows) ==
  \A x \in q.ids :
    /\ Known(x.who, rows) /\ x.at \in CalendarDays
    /\ IF q.op = "restore" THEN x.all => ~x.who.own
       ELSE x.all => x.who.until.date >= Calendar!LastRegular
CalendarSound ==
  /\ server \in Seq(SeriesSet) /\ Kept1(server)
  /\ shown # None => \A s \in shown : Known(s, server)
  /\ DOMAIN ui = {"who", "sheet", "flags", "acts", "busy", "doubt"}
  /\ ui.who # None => Known(ui.who, server)
  /\ \A q \in wire :
       /\ DOMAIN q = Fields
       /\ q.op = "list" /\ q.status = "done" => \A s \in q.rows : Known(s, server)
       /\ q.op # "list" => AskedSound(q, server)

\* What is assumed of the days: they are numbers, and no session is moved to the day after one
\* the rule gives.  The end that is sent for all future sessions is the midnight at which the day
\* before begins, so a class that meets on two days in a row loses the first of them.
DaysApart == \A d \in CalendarDays : d - 1 \notin CalendarRegular

LEMMA LastRegularIs ==
  /\ CalendarDays \subseteq Positive /\ CalendarRegular \subseteq CalendarDays
  /\ Calendar!LastRegular \in CalendarRegular
  /\ \A d \in CalendarRegular : d <= Calendar!LastRegular
<1>1. /\ CalendarRegular \subseteq CalendarDays /\ CalendarDays \subseteq Nat \ {0}
      /\ IsFiniteSet(CalendarDays) /\ CalendarRegular # {}
  BY ConsoleAssumption
     DEF Calendar!SessionAssumption, Calendar!ScheduleAssumption, Calendar!IsFiniteSet, IsFiniteSet
<1>2. IsFiniteSet(CalendarRegular) /\ CalendarRegular \in SUBSET Nat
  BY <1>1, FS_Subset
<1>3. \E d \in CalendarRegular : \A e \in CalendarRegular : e <= d
  BY <1>1, <1>2, LastOfFinite
<1>4. Calendar!LastRegular \in CalendarRegular
      /\ \A d \in CalendarRegular : d <= Calendar!LastRegular
  BY <1>3 DEF Calendar!LastRegular
<1> QED  BY <1>1, <1>4 DEF Positive

\* Rows are written over with rows.
LEMMA CalendarRows ==
  ASSUME NEW own \in Calendar!Tables, NEW d \in CalendarDays
  PROVE  /\ \A why \in {"held", "said"} : Calendar!Put(own, d, why) \in Calendar!Tables
         /\ \A b \in CalendarDays : Calendar!Move(own, d, b) \in Calendar!Tables
         /\ Calendar!Undone(own, d) \in Calendar!Tables
<1>1. \A x \in CalendarDays : own[x].link \in CalendarDays \cup {0}
  BY DEF Calendar!Tables
<1>2. ASSUME NEW why \in {"held", "said", "moved"}
      PROVE  Calendar!Put(own, d, why) \in Calendar!Tables
  BY <1>1, <1>2 DEF Calendar!Put, Calendar!Row, Calendar!Carried, Calendar!Tables
<1>3. Calendar!NoRow \in [why : {"none", "held", "moved", "said"}, link : CalendarDays \cup {0}]
  BY DEF Calendar!NoRow, Calendar!Row
<1>4. ASSUME NEW b \in CalendarDays  PROVE Calendar!Move(own, d, b) \in Calendar!Tables
  <2> DEFINE off == Calendar!Put(own, d, "moved")
             clean == [x \in CalendarDays |->
                         IF x \in Calendar!Superseded(off, d) THEN Calendar!NoRow ELSE off[x]]
  <2>1. off \in Calendar!Tables
    BY <1>2
  <2> HIDE DEF off
  <2>2. clean \in Calendar!Tables
    BY <1>3, <2>1 DEF Calendar!Tables
  <2>3. Calendar!Move(own, d, b) = [clean EXCEPT ![b] = Calendar!Row("held", d)]
    BY DEF Calendar!Move, off
  <2> HIDE DEF clean
  <2> QED  BY <2>2, <2>3 DEF Calendar!Tables, Calendar!Row
<1>5. Calendar!Undone(own, d) \in Calendar!Tables
  BY <1>3 DEF Calendar!Undone, Calendar!Tables
<1> QED  BY <1>2, <1>4, <1>5

\* A step of the page that leaves the series as they are.
LEMMA CalendarStays ==
  ASSUME CalendarSound, server' = server, DOMAIN ui' = DOMAIN ui,
         ui'.who # None => Known(ui'.who, server),
         shown' = shown \/ shown' = None \/ \A s \in shown' : Known(s, server),
         \A q \in wire' : \/ q \in wire
                          \/ /\ DOMAIN q = Fields
                             /\ q.op = "list" /\ q.status = "done"
                                  => \A s \in q.rows : Known(s, server)
                             /\ q.op # "list" => AskedSound(q, server)
  PROVE  CalendarSound'
BY DEF CalendarSound

\* The sessions the calendar shows are of the series there are.
LEMMA CalendarKnown ==
  ASSUME server \in Seq(SeriesSet)  PROVE \A s \in Calendar!Calendar(server) : Known(s, server)
<1> SUFFICES ASSUME NEW s \in Calendar!Calendar(server)  PROVE Known(s, server)
  OBVIOUS
<1>1. PICK n \in DOMAIN server, d \in CalendarDays, off \in BOOLEAN, own \in BOOLEAN :
        /\ Calendar!ShownAs(server[n], d, off, own)
        /\ s = Calendar!Showing(n, server[n], d, off, own)
  BY DEF Calendar!Calendar
<1>2. s.series = n /\ s.day = d /\ s.until = server[n].until /\ s.own = own
  BY <1>1 DEF Calendar!Showing
<1>3. server[n] \in SeriesSet
  OBVIOUS
<1>4. ~own => d \in CalendarRegular
  BY <1>1 DEF Calendar!ShownAs, Calendar!Covers
<1> QED  BY <1>1, <1>2, <1>3, <1>4 DEF Known, SeriesSet

LEMMA CalendarSoundInit ==
  ASSUME Calendar!Init  PROVE CalendarSound
<1> DEFINE whole == Calendar!EndAt(Calendar!LastRegular, TRUE)
           first == Calendar!Series(1, whole, FALSE)
<1>1. server = <<first>> /\ shown = Calendar!Calendar(server) /\ wire = {} /\ ui = Calendar!Idle
  BY DEF Calendar!Init
<1>2. whole \in Ends
  BY LastRegularIs DEF Ends, Calendar!EndAt, Positive
<1>3. Calendar!NoRows \in Calendar!Tables
  BY DEF Calendar!NoRows, Calendar!NoRow, Calendar!Row, Calendar!Tables
<1>4. first \in SeriesSet /\ first.from = 1 /\ first.until = whole /\ ~first.gone
  BY <1>2, <1>3 DEF Calendar!Series, SeriesSet
<1>5. ASSUME NEW d \in CalendarRegular  PROVE Calendar!Covers(first, d)
  <2>1. d \in Nat /\ 1 <= d /\ d <= Calendar!LastRegular /\ Calendar!LastRegular \in Nat
    BY LastRegularIs DEF Positive
  <2>2. whole.date = Calendar!LastRegular /\ whole.whole
    BY DEF Calendar!EndAt
  <2> HIDE DEF first, whole
  <2>3. Calendar!Reaches(first, d)
    BY <1>4, <2>1, <2>2 DEF Calendar!Reaches
  <2> QED  BY <1>4, <2>1, <2>3 DEF Calendar!Covers
<1> HIDE DEF first
<1>6. server \in Seq(SeriesSet) /\ DOMAIN server = {1} /\ server[1] = first
  BY <1>1, <1>4
<1> QED
  BY <1>1, <1>5, <1>6, CalendarKnown DEF CalendarSound, Kept1, Calendar!Idle

\* A new series for all days from some day on takes over from the others, which end before it.
LEMMA CutKeeps ==
  ASSUME DaysApart, NEW rows \in Seq(SeriesSet), Kept1(rows), NEW at \in CalendarDays,
         NEW whole \in BOOLEAN, NEW until \in Ends, until.date >= Calendar!LastRegular,
           NEW off \in BOOLEAN
  PROVE  LET all == Calendar!Cut(rows, Calendar!EndAt(at - 1, whole),
    Calendar!Series(at, until, off))
         IN  all \in Seq(SeriesSet) /\ Kept1(all) /\ DOMAIN rows \subseteq DOMAIN all
<1> DEFINE end == Calendar!EndAt(at - 1, whole)
           new == Calendar!Series(at, until, off)
           last == Calendar!LastRegular
           capped == [n \in DOMAIN rows |->
                        IF rows[n].gone THEN rows[n] ELSE Calendar!Capped(rows[n], end)]
           all == Calendar!Cut(rows, end, new)
<1>1. /\ at \in Nat /\ at >= 1 /\ last \in Nat /\ at - 1 \in Nat
      /\ end = [date |-> at - 1, whole |-> whole]
      /\ new = [from |-> at, until |-> until, off |-> off, gone |-> FALSE, own |-> Calendar!NoRows]
  BY LastRegularIs DEF Positive, Calendar!EndAt, Calendar!Series
<1>2. until.date = last /\ until.whole
  BY <1>1 DEF Ends
<1>3. new \in SeriesSet
  BY <1>1 DEF SeriesSet, Calendar!NoRows, Calendar!NoRow, Calendar!Row, Calendar!Tables
<1>4. all = IF at > last THEN capped ELSE Append(capped, new)
  BY <1>1, <1>2 DEF Calendar!Cut, Calendar!Empty
<1> HIDE DEF new, last
\* An end is put on a series only where it is earlier.
<1>5. ASSUME NEW s \in SeriesSet
      PROVE  /\ Calendar!Capped(s, end) \in SeriesSet
             /\ ~s.gone /\ s.from < at =>
                  /\ ~Calendar!Capped(s, end).gone /\ Calendar!Capped(s, end).from = s.from
                  /\ Calendar!Capped(s, end).until \in {s.until, end}
                  /\ last < at => Calendar!Capped(s, end).until = s.until
  <2>1. s.from \in Nat /\ s.until.date \in Nat /\ s.until.date <= last
    BY DEF SeriesSet, Ends, last
  <2>2. CASE s.from > end.date
    <3>1. Calendar!Capped(s, end) = [s EXCEPT !.gone = TRUE]
      BY <2>2 DEF Calendar!Capped
    <3>2. ~(s.from < at)
      BY <1>1, <2>1, <2>2
    <3>3. [s EXCEPT !.gone = TRUE] \in SeriesSet
      BY DEF SeriesSet
    <3> QED  BY <3>1, <3>2, <3>3
  <2>3. CASE ~(s.from > end.date) /\ s.until.date <= end.date
    BY <2>3 DEF Calendar!Capped
  <2>4. CASE ~(s.from > end.date) /\ ~(s.until.date <= end.date)
    <3>1. Calendar!Capped(s, end) = [s EXCEPT !.until = end]
      BY <2>4 DEF Calendar!Capped
    <3>2. end.date < last
      BY <1>1, <2>1, <2>4
    <3>3. end \in Ends
      BY <1>1, <3>2 DEF Ends, last
    <3> HIDE DEF end
    <3>4. Calendar!Capped(s, end) \in SeriesSet
      BY <3>1, <3>3 DEF SeriesSet
    <3> QED  BY <1>1, <3>1, <3>2, <3>4 DEF SeriesSet, end
  <2> QED  BY <2>2, <2>3, <2>4
<1>6. \A n \in DOMAIN rows : capped[n] = IF rows[n].gone THEN rows[n] ELSE Calendar!Capped(rows[n],
        end)
  OBVIOUS
<1>7. capped \in Seq(SeriesSet) /\ DOMAIN capped = DOMAIN rows
  <2>1. \A n \in DOMAIN rows : capped[n] \in SeriesSet
    BY <1>5, <1>6
  <2>2. DOMAIN rows = 1 .. Len(rows) /\ Len(rows) \in Nat
    OBVIOUS
  <2>3. capped = [n \in 1 .. Len(rows) |-> capped[n]] /\ DOMAIN capped = DOMAIN rows
    BY <2>2
  <2> HIDE DEF capped
  <2> QED  BY <2>1, <2>2, <2>3
<1>8. all \in Seq(SeriesSet) /\ DOMAIN rows \subseteq DOMAIN all
      /\ \A n \in DOMAIN rows : all[n] = capped[n]
  <2> HIDE DEF capped, all
  <2> QED  BY <1>3, <1>4, <1>7
<1>9. ASSUME ~(at > last)  PROVE \E n \in DOMAIN all : all[n] = new
  <2> HIDE DEF capped, all
  <2>1. all = Append(capped, new)
    BY <1>4, <1>9
  <2> QED  BY <1>3, <1>7, <2>1
<1> HIDE DEF all, capped
<1>10. ASSUME NEW d \in CalendarRegular  PROVE \E n \in DOMAIN all : Calendar!Covers(all[n], d)
  <2>1. d \in Nat /\ d <= last /\ d # at - 1
    BY LastRegularIs DEF DaysApart, Positive, last
  <2>2. CASE at <= d
    <3>1. ~(at > last)
      BY <1>1, <2>1, <2>2
    <3>2. Calendar!Covers(new, d)
      BY <1>1, <1>2, <2>1, <2>2 DEF Calendar!Covers, Calendar!Reaches, new, Calendar!Series
    <3> QED  BY <1>9, <3>1, <3>2
  <2>3. CASE ~(at <= d)
    <3>1. PICK n \in DOMAIN rows : Calendar!Covers(rows[n], d)
      BY DEF Kept1
    <3>2. rows[n] \in SeriesSet /\ ~rows[n].gone /\ rows[n].from <= d
          /\ Calendar!Reaches(rows[n], d)
      BY <3>1 DEF Calendar!Covers
    <3>3. rows[n].from \in Nat /\ rows[n].from < at
      BY <1>1, <2>1, <2>3, <3>2 DEF SeriesSet
    <3>4. /\ ~all[n].gone /\ all[n].from = rows[n].from /\ all[n].until \in {rows[n].until, end}
      BY <1>5, <1>6, <1>8, <3>2, <3>3
    <3>5. d < end.date
      BY <1>1, <2>1, <2>3
    <3>6. Calendar!Reaches(all[n], d)
      BY <3>2, <3>4, <3>5 DEF Calendar!Reaches
    <3> QED  BY <1>8, <3>2, <3>4, <3>6 DEF Calendar!Covers
  <2> QED  BY <1>1, <2>1, <2>2, <2>3
<1> QED  BY <1>8, <1>10 DEF Kept1, all, new

\* A series restored from some day on goes on as the one it is split from did.
LEMMA UncancelKeeps ==
  ASSUME NEW rows \in Seq(SeriesSet), Kept1(rows), NEW n \in DOMAIN rows, ~rows[n].gone,
         NEW d \in CalendarRegular
  PROVE  LET all == Calendar!Uncancel(rows, n, d)
         IN  all \in Seq(SeriesSet) /\ Kept1(all) /\ DOMAIN rows \subseteq DOMAIN all
<1> DEFINE end == Calendar!EndAt(d - 1, TRUE)
           new == Calendar!Series(d, rows[n].until, FALSE)
           cut == [rows EXCEPT ![n].until = end]
           all == Calendar!Uncancel(rows, n, d)
<1>1. /\ d \in Nat /\ d >= 1 /\ d - 1 \in Nat /\ d <= Calendar!LastRegular
           /\ Calendar!LastRegular \in Nat
      /\ end = [date |-> d - 1, whole |-> TRUE]
  BY LastRegularIs DEF Positive, Calendar!EndAt
<1>2. end \in Ends
  <2> HIDE DEF end
  <2>0. end.date = d - 1
    BY <1>1
  <2>1. end.date < Calendar!LastRegular
    BY <1>1, <2>0
  <2>2. end \in [date : Nat, whole : BOOLEAN]
    BY <1>1
  <2>3. end.date <= Calendar!LastRegular /\ end.date # Calendar!LastRegular
    BY <1>1, <2>1, <2>2
  <2> QED  BY <2>2, <2>3 DEF Ends
<1>3. rows[n] \in SeriesSet
  OBVIOUS
<1>4. /\ new \in SeriesSet /\ new.from = d /\ new.until = rows[n].until /\ ~new.gone
  BY <1>1, <1>3
     DEF SeriesSet, Calendar!Series, Calendar!NoRows, Calendar!NoRow, Calendar!Row, Calendar!Tables
<1> HIDE DEF end, new
<1>5. cut[n] = [rows[n] EXCEPT !.until = end] /\ \A m \in DOMAIN rows \ {n} : cut[m] = rows[m]
  OBVIOUS
<1>6. cut[n] \in SeriesSet /\ ~cut[n].gone /\ cut[n].from = rows[n].from /\ cut[n].until = end
  BY <1>2, <1>3, <1>5 DEF SeriesSet
<1>7. cut \in Seq(SeriesSet) /\ DOMAIN cut = DOMAIN rows
  <2>1. cut = [m \in 1 .. Len(rows) |-> cut[m]]
    OBVIOUS
  <2>2. \A m \in DOMAIN rows : cut[m] \in SeriesSet
    BY <1>5, <1>6
  <2>3. DOMAIN cut = DOMAIN rows
    OBVIOUS
  <2> HIDE DEF cut
  <2> QED  BY <2>1, <2>2, <2>3
<1>8. all = Append(cut, new)
  BY DEF Calendar!Uncancel, new, end
<1> HIDE DEF cut, all
<1>9. /\ all \in Seq(SeriesSet) /\ DOMAIN rows \subseteq DOMAIN all
      /\ \A m \in DOMAIN rows : all[m] = cut[m]
      /\ \E m \in DOMAIN all : all[m] = new
  BY <1>4, <1>7, <1>8
<1>10. ASSUME NEW e \in CalendarRegular  PROVE \E m \in DOMAIN all : Calendar!Covers(all[m], e)
  <2>1. PICK m \in DOMAIN rows : Calendar!Covers(rows[m], e)
    BY DEF Kept1
  <2>2. e \in Nat
    BY LastRegularIs DEF Positive
  <2>3. CASE m # n
    BY <1>5, <1>9, <2>1, <2>3
  <2>4. CASE m = n /\ e < d
    <3>1. Calendar!Reaches(all[n], e)
      BY <1>1, <1>6, <1>9, <2>2, <2>4 DEF Calendar!Reaches
    <3> QED  BY <1>6, <1>9, <2>1, <2>4, <3>1 DEF Calendar!Covers
  <2>5. CASE m = n /\ ~(e < d)
    <3>1. Calendar!Covers(new, e)
      BY <1>1, <1>4, <2>1, <2>2, <2>5 DEF Calendar!Covers, Calendar!Reaches
    <3> QED  BY <1>9, <3>1
  <2> QED  BY <2>3, <2>4, <2>5
<1> QED  BY <1>9, <1>10 DEF Kept1, all

LEMMA CalendarSoundStep ==
  ASSUME DaysApart, CalendarSound, Calendar!Next  PROVE CalendarSound'
<1>1. /\ DOMAIN ui = {"who", "sheet", "flags", "acts", "busy", "doubt"}
      /\ server \in Seq(SeriesSet) /\ (ui.who # None => Known(ui.who, server))
      /\ \A q \in wire : DOMAIN q = Fields
  BY DEF CalendarSound
<1>2. /\ DOMAIN Calendar!Fetch = Fields /\ Calendar!Fetch.op = "list"
      /\ Calendar!Fetch.status = "sent"
  BY DEF Calendar!Fetch, Fields
<1>3. ASSUME UNCHANGED <<server, shown, wire>>, DOMAIN ui' = DOMAIN ui,
             ui'.who = ui.who \/ (shown # None /\ ui'.who \in shown)
      PROVE  CalendarSound'
  BY <1>3, CalendarStays DEF CalendarSound
<1>4. CASE Calendar!QueryChanges
  <2>1. /\ server' = server /\ shown' = None /\ wire' \subseteq wire \cup {Calendar!Fetch}
        /\ DOMAIN ui' = DOMAIN ui /\ ui'.who = ui.who
    BY <1>1, <1>4 DEF Calendar!QueryChanges, Calendar!Doubtless, Calendar!Refetch
  <2> QED  BY <1>1, <1>2, <2>1, CalendarStays
<1>5. CASE \/ Calendar!CloseSheet \/ Calendar!HandleUndo \/ Calendar!CloseDialog
           \/ (\E op : Calendar!OpenDialog(op)) \/ (\E op : Calendar!Choose(op))
  <2>1. UNCHANGED <<server, shown, wire>> /\ DOMAIN ui' = DOMAIN ui /\ ui'.who = ui.who
    BY <1>1, <1>5
       DEF Calendar!CloseSheet, Calendar!HandleUndo, Calendar!CloseDialog, Calendar!OpenDialog,
           Calendar!Choose, Calendar!SheetClosed, Calendar!Shows
  <2> QED  BY <1>3, <2>1
<1>6. ASSUME NEW s \in shown, shown # None, Calendar!SelectEvent(s)  PROVE CalendarSound'
  <2>1. UNCHANGED <<server, shown, wire>> /\ DOMAIN ui' = DOMAIN ui /\ ui'.who = s
    BY <1>1, <1>6 DEF Calendar!SelectEvent, Calendar!Shows
  <2> QED  BY <1>3, <1>6, <2>1
<1>7. ASSUME NEW op, NEW all, NEW at \in CalendarDays, ui.who # None, op # "list",
             IF op = "restore" THEN all => ~ui.who.own
             ELSE all => ui.who.until.date >= Calendar!LastRegular,
             wire' = wire \cup
                       {Calendar!Request(op, {[who |-> ui.who, all |-> all, at |-> at]})},
             UNCHANGED <<server, shown>>, DOMAIN ui' = DOMAIN ui, ui'.who = ui.who
      PROVE  CalendarSound'
  <2> DEFINE new == Calendar!Request(op, {[who |-> ui.who, all |-> all, at |-> at]})
  <2>1. /\ DOMAIN new = Fields /\ new.op = op
        /\ new.ids = {[who |-> ui.who, all |-> all, at |-> at]}
    BY DEF Calendar!Request, Fields
  <2>2. wire' = wire \cup {new}
    BY <1>7
  <2> HIDE DEF new
  <2>3. AskedSound(new, server)
    BY <1>1, <1>7, <2>1 DEF AskedSound
  <2> QED  BY <1>1, <1>7, <2>1, <2>2, <2>3, CalendarStays
<1>8. ASSUME NEW op, op \notin {"list", "restore"}, NEW all, NEW at \in CalendarDays,
             all => Calendar!Runs, Calendar!Submits(op, all, at)
      PROVE  CalendarSound'
  <2>1. ui.who # None
    BY <1>8 DEF Calendar!Submits, Calendar!On, Calendar!Visible
  <2>2. /\ wire' = wire \cup
                     {Calendar!Request(op, {[who |-> ui.who, all |-> all, at |-> at]})}
        /\ UNCHANGED <<server, shown>> /\ DOMAIN ui' = DOMAIN ui /\ ui'.who = ui.who
    BY <1>1, <1>8 DEF Calendar!Submits, Calendar!Asks, Calendar!Submitted
  <2>3. all => ui.who.until.date >= Calendar!LastRegular
    BY <1>8 DEF Calendar!Runs
  <2> QED  BY <1>7, <1>8, <2>1, <2>2, <2>3
<1>9. ASSUME NEW all, NEW op \in {"instructor", "room"},
             Calendar!CancelEvent(all) \/ Calendar!ChangeField(op, all)
      PROVE  CalendarSound'
  <2>1. ui.who # None
    BY <1>9 DEF Calendar!CancelEvent, Calendar!ChangeField, Calendar!On, Calendar!Visible
  <2>2. ui.who.day \in CalendarDays
    BY <1>1, <2>1 DEF Known
  <2> QED  BY <1>8, <1>9, <2>2 DEF Calendar!CancelEvent, Calendar!ChangeField
<1>10. ASSUME NEW d \in CalendarDays, Calendar!RescheduleSeries(d) \/ Calendar!RescheduleSession(d)
       PROVE  CalendarSound'
  BY <1>8, <1>10 DEF Calendar!RescheduleSeries, Calendar!RescheduleSession
<1>11. CASE Calendar!Restore
  <2>1. ui.who # None
    BY <1>11 DEF Calendar!Restore, Calendar!On, Calendar!Visible
  <2>2. ui.who.day \in CalendarDays
    BY <1>1, <2>1 DEF Known
  <2> DEFINE all == ~ui.who.own
  <2>3. /\ wire' = wire \cup
                     {Calendar!Request("restore", {[who |-> ui.who, all |-> all,
                                                    at |-> ui.who.day]})}
        /\ UNCHANGED <<server, shown>> /\ DOMAIN ui' = DOMAIN ui /\ ui'.who = ui.who
    BY <1>1, <1>11 DEF Calendar!Restore, Calendar!Submitted
  <2>4. all => ~ui.who.own
    OBVIOUS
  <2> HIDE DEF all
  <2> QED  BY <1>7, <2>1, <2>2, <2>3, <2>4
<1>12. CASE Calendar!ListServed(Calendar!Calendar(server))
  <2>1. PICK q \in wire :
          /\ q.op = "list" /\ UNCHANGED <<server, shown, ui>>
          /\ wire' = (wire \ {q})
                     \cup {[q EXCEPT !.status = "done", !.rows = Calendar!Calendar(server)]}
    BY <1>12 DEF Calendar!ListServed
  <2> DEFINE new == [q EXCEPT !.status = "done", !.rows = Calendar!Calendar(server)]
  <2>2. DOMAIN new = Fields /\ new.op = "list" /\ new.rows = Calendar!Calendar(server)
    BY <1>1, <2>1 DEF Fields
  <2>3. wire' = (wire \ {q}) \cup {new}
    BY <2>1
  <2> HIDE DEF new
  <2> QED  BY <1>1, <2>1, <2>2, <2>3, CalendarKnown, CalendarStays
<1>13. CASE Calendar!ListArrives
  <2>1. PICK q \in wire :
          /\ q.op = "list" /\ wire' = wire \ {q} /\ UNCHANGED <<server, ui>>
          /\ shown' = IF q.status = "done" THEN q.rows ELSE None
    BY <1>13 DEF Calendar!ListArrives
  <2>2. q.status = "done" => \A s \in q.rows : Known(s, server)
    BY <2>1 DEF CalendarSound
  <2> QED  BY <1>1, <2>1, <2>2, CalendarStays
<1>14. ASSUME NEW q \in wire, Calendar!Serve(q)  PROVE CalendarSound'
  <2>1. PICK x \in q.ids :
          /\ ~(q.op = "restore" /\ x.all /\ server[x.who.series].gone)
          /\ Calendar!Served(q, Calendar!After(q, x))
    BY <1>14 DEF Calendar!Serve
  <2> DEFINE all == Calendar!After(q, x)
             n == x.who.series
             d == x.who.day
             new == [q EXCEPT !.status = "done"]
  <2>2. q.op # "list" /\ server' = all /\ wire' = (wire \ {q}) \cup {new} /\ UNCHANGED <<shown, ui>>
    BY <2>1 DEF Calendar!Served, Calendar!Writes, Calendar!Becomes
  <2>3. /\ n \in DOMAIN server /\ d \in CalendarDays /\ x.at \in CalendarDays
        /\ x.who.until \in Ends /\ (~x.who.own => d \in CalendarRegular)
        /\ IF q.op = "restore" THEN x.all => ~x.who.own
           ELSE x.all => x.who.until.date >= Calendar!LastRegular
    BY <2>1, <2>2 DEF CalendarSound, AskedSound, Known
  <2>4. Kept1(server)
    BY DEF CalendarSound
  <2> DEFINE Good(rows) == rows \in Seq(SeriesSet) /\ Kept1(rows)
    /\ DOMAIN server \subseteq DOMAIN rows
\* A change of one session is one of the rows of its series.
  <2>5. ASSUME NEW own \in Calendar!Tables  PROVE Good(Calendar!Alone(server, n, own))
    <3> DEFINE rows == Calendar!Alone(server, n, own)
    <3>1. /\ DOMAIN rows = DOMAIN server /\ rows[n] = [server[n] EXCEPT !.own = own]
          /\ \A m \in DOMAIN server \ {n} : rows[m] = server[m]
      BY <2>3 DEF Calendar!Alone
    <3>2. server[n] \in SeriesSet /\ \A m \in DOMAIN server : server[m] \in SeriesSet
      BY <1>1, <2>3
    <3>3. /\ rows[n] \in SeriesSet /\ rows[n].gone = server[n].gone
          /\ rows[n].from = server[n].from /\ rows[n].until = server[n].until
      BY <2>5, <3>1, <3>2 DEF SeriesSet
    <3>4. Len(server) \in Nat /\ DOMAIN server = 1 .. Len(server)
      BY <1>1
    <3>7. rows = [m \in 1 .. Len(server) |-> rows[m]]
      BY <3>4 DEF Calendar!Alone
    <3> HIDE DEF rows
    <3>5. rows \in Seq(SeriesSet)
      BY <3>1, <3>2, <3>3, <3>4, <3>7
    <3>6. \A m \in DOMAIN server, e \in CalendarRegular :
            Calendar!Covers(server[m], e) => Calendar!Covers(rows[m], e)
      BY <3>1, <3>3 DEF Calendar!Covers, Calendar!Reaches
    <3> QED  BY <2>4, <3>1, <3>5, <3>6 DEF Kept1, rows
  <2>6. server[n].own \in Calendar!Tables
    <3>1. server[n] \in SeriesSet
      BY <1>1, <2>3
    <3> HIDE DEF n
    <3> QED  BY <3>1 DEF SeriesSet
  <2>7. Good(all)
    <3>1. CASE q.op = "restore" /\ x.all
      <4>1. all = Calendar!Uncancel(server, n, d)
        BY <3>1 DEF Calendar!After
      <4> QED  BY <1>1, <2>1, <2>3, <2>4, <3>1, <4>1, UncancelKeeps
    <3>2. CASE q.op # "restore" /\ x.all
      <4>1. \E whole \in BOOLEAN, until \in Ends, off \in BOOLEAN :
              /\ until.date >= Calendar!LastRegular
              /\ all = Calendar!Cut(server, Calendar!EndAt(x.at - 1, whole),
                                    Calendar!Series(x.at, until, off))
        <5>1. Calendar!Ending(q.op, x.who) \in Ends
              /\ Calendar!Ending(q.op, x.who).date >= Calendar!LastRegular
          BY <2>3, <3>2 DEF Calendar!Ending, Calendar!EndAt, Ends
        <5>2. all = Calendar!Cut(server, Calendar!EndAt(x.at - 1, q.op = "series"),
                                 Calendar!Series(x.at, Calendar!Ending(q.op, x.who),
                                   q.op = "cancel"))
          BY <3>2 DEF Calendar!After, Calendar!Closing
        <5>3. (q.op = "series") \in BOOLEAN /\ (q.op = "cancel") \in BOOLEAN
          OBVIOUS
        <5> QED  BY <5>1, <5>2, <5>3
      <4> HIDE DEF all
      <4> QED  BY <1>1, <2>3, <2>4, <4>1, CutKeeps
    <3>3. CASE ~x.all
      <4>1. PICK own \in {Calendar!Undone(server[n].own, d), Calendar!Move(server[n].own, d, x.at),
                          Calendar!Put(server[n].own, d, "said"),
                          Calendar!Put(server[n].own, d, "held")} :
              all = Calendar!Alone(server, n, own)
        BY <3>3 DEF Calendar!After
      <4>2. own \in Calendar!Tables
        BY <2>3, <2>6, <4>1, CalendarRows
      <4> HIDE DEF all
      <4> QED  BY <2>5, <4>1, <4>2
    <3> QED  BY <3>1, <3>2, <3>3
  <2>8. DOMAIN new = Fields /\ new.op = q.op /\ new.ids = q.ids
    BY <1>1 DEF Fields
  <2> HIDE DEF new, all, n, d
  <2>9. ASSUME NEW s, Known(s, server)  PROVE Known(s, all)
    BY <2>7, <2>9 DEF Known
  <2>10. ASSUME NEW f, AskedSound(f, server)  PROVE AskedSound(f, all)
    BY <2>9, <2>10 DEF AskedSound
  <2>11. AskedSound(new, server)
    BY <2>2, <2>8 DEF CalendarSound, AskedSound
  <2>12. \A f \in wire' :
           /\ DOMAIN f = Fields
           /\ f.op = "list" /\ f.status = "done" => \A s \in f.rows : Known(s, all)
           /\ f.op # "list" => AskedSound(f, all)
    BY <2>2, <2>8, <2>9, <2>10, <2>11 DEF CalendarSound
  <2>13. shown # None => \A s \in shown : Known(s, all)
    BY <2>9 DEF CalendarSound
  <2> QED  BY <1>1, <2>2, <2>7, <2>9, <2>12, <2>13 DEF CalendarSound
<1>15. ASSUME NEW q \in wire, Calendar!Succeeds(q) \/ Calendar!Fails(q)  PROVE CalendarSound'
  <2>1. /\ UNCHANGED <<server, shown>> /\ wire' \subseteq wire \cup {Calendar!Fetch}
        /\ DOMAIN ui' = DOMAIN ui /\ ui'.who \in {ui.who, None}
    BY <1>1, <1>15
       DEF Calendar!Succeeds, Calendar!Fails, Calendar!SettlesAndFetches, Calendar!Doubtless,
           Calendar!Refetch, Calendar!SheetClosed
  <2> QED  BY <1>1, <1>2, <2>1, CalendarStays
<1> QED
  BY <1>4, <1>5, <1>6, <1>9, <1>10, <1>11, <1>12, <1>13, <1>14, <1>15
     DEF Calendar!Next, Calendar!Loaded

-----------------------------------------------------------------------------
(* The sessions of a class: their rows, and how one leads to another *)

\* What a row may say.
RowSet == [why : {"none", "held", "moved", "said"}, link : SessionDays \cup {0}]
USE DEF RowSet

\* The days outside the rule that have a row.
Occupied(rows) == {d \in SessionDays \ RegularDays : rows[d].why # "none"}

\* Each of them holds a session that was moved there from one day, which says so, and a session
\* that was moved went to one day.
LinksSound(rows) ==
  /\ \A d \in RegularDays : rows[d].link = 0
  /\ \A d \in SessionDays \ RegularDays : rows[d].why = "none" => rows[d].link = 0
  /\ \A d \in Occupied(rows) : rows[d].link \in SessionsTab!Moved(rows)
  /\ \A x, y \in Occupied(rows) : rows[x].link = rows[y].link => x = y
  /\ \A x \in SessionsTab!Moved(rows) : \E y \in Occupied(rows) : rows[y].link = x
\* Wherever a session is, it came from a regular day.
NoCircle(rows) == \A S \in SUBSET Occupied(rows) : S # {} => \E x \in S : rows[x].link \notin S
RowsSound(rows) == rows \in SessionsTab!Tables /\ LinksSound(rows) /\ NoCircle(rows)

\* A day whose row is not one of a session that was moved away, and one whose session may be moved.
Present(rows, d) == d \in RegularDays \cup Occupied(rows) /\ rows[d].why # "moved"
Movable(rows, d) ==
  /\ d \in RegularDays \cup Occupied(rows)
  /\ rows[d].why = "moved" => \A x \in Occupied(rows) : rows[x].link = d => rows[x].why = "held"

LEMMA DaysSound ==
  /\ RegularDays \subseteq SessionDays
  /\ SessionDays \subseteq Nat \ {0} /\ IsFiniteSet(SessionDays)
<1>1. SessionsTab!SessionAssumption
  BY ConsoleAssumption
<1>2. SessionsTab!IsFiniteSet(SessionDays) <=> IsFiniteSet(SessionDays)
  BY DEF SessionsTab!IsFiniteSet, IsFiniteSet
<1> QED  BY <1>1, <1>2 DEF SessionsTab!SessionAssumption

\* What a row says.
LEMMA RowFields ==
  ASSUME NEW why, NEW link
  PROVE  /\ SessionsTab!Row(why, link).why = why /\ SessionsTab!Row(why, link).link = link
         /\ SessionsTab!NoRow.why = "none" /\ SessionsTab!NoRow.link = 0
         /\ (why \in {"none", "held", "moved", "said"} /\ link \in SessionDays \cup {0}
             => SessionsTab!Row(why, link) \in RowSet)
         /\ SessionsTab!NoRow \in RowSet
  BY DEF SessionsTab!Row, SessionsTab!NoRow

\* What changes what the rows say, but neither their links nor who was moved away.
Alike(rows, new) ==
  \A d \in SessionDays :
    /\ new[d].link = rows[d].link
    /\ d \notin RegularDays => (new[d].why = "none" <=> rows[d].why = "none")
    /\ new[d].why = "moved" <=> rows[d].why = "moved"

LEMMA AlikeSound ==
  ASSUME NEW rows, NEW new \in SessionsTab!Tables, RowsSound(rows), Alike(rows, new)
  PROVE  /\ RowsSound(new) /\ Occupied(new) = Occupied(rows)
         /\ \A d : Present(rows, d) <=> Present(new, d)
<1>1. Occupied(new) = Occupied(rows)
  BY DEF Alike, Occupied
<1>2. SessionsTab!Moved(new) = SessionsTab!Moved(rows)
  BY DEF Alike, SessionsTab!Moved
<1>3. \A d \in SessionDays : new[d].link = rows[d].link
  BY DEF Alike
<1>4. Occupied(rows) \subseteq SessionDays
  BY DEF Occupied
<1>5. LinksSound(new)
  <2>1. LinksSound(rows)
    BY DEF RowsSound
  <2>2. /\ \A d \in RegularDays : new[d].link = 0
        /\ \A d \in SessionDays \ RegularDays : new[d].why = "none" => new[d].link = 0
    BY <1>3, <2>1, DaysSound DEF LinksSound, Alike
  <2>3. \A d \in Occupied(new) : new[d].link \in SessionsTab!Moved(new)
    BY <1>1, <1>2, <1>3, <1>4, <2>1 DEF LinksSound
  <2>4. \A x, y \in Occupied(new) : new[x].link = new[y].link => x = y
    BY <1>1, <1>3, <1>4, <2>1 DEF LinksSound
  <2>5. \A x \in SessionsTab!Moved(new) : \E y \in Occupied(new) : new[y].link = x
    BY <1>1, <1>2, <1>3, <1>4, <2>1 DEF LinksSound
  <2> QED  BY <2>2, <2>3, <2>4, <2>5 DEF LinksSound
<1>6. NoCircle(new)
  BY <1>1, <1>3, <1>4 DEF RowsSound, NoCircle
<1>7. \A d : Present(rows, d) <=> Present(new, d)
  BY <1>1, <1>4, DaysSound DEF Present, Alike
<1> QED  BY <1>1, <1>5, <1>6, <1>7 DEF RowsSound

\* A row is written where a session is, one or several at once: its link stays.
LEMMA PutSound ==
  ASSUME NEW rows, RowsSound(rows), NEW ds, \A d \in ds : Present(rows, d),
         NEW why \in {"held", "said"}
  PROVE  LET new == SessionsTab!PutAll(rows, ds, why) IN
         RowsSound(new) /\ \A d : Present(rows, d) <=> Present(new, d)
<1> DEFINE new == SessionsTab!PutAll(rows, ds, why)
<1>1. rows \in [SessionDays -> RowSet]
  BY DEF RowsSound, SessionsTab!Tables
<1>2. ASSUME NEW d \in SessionDays
      PROVE  new[d] = IF d \in ds THEN SessionsTab!Row(why, rows[d].link) ELSE rows[d]
  BY <1>1, <1>2 DEF SessionsTab!PutAll, SessionsTab!Put, SessionsTab!Carried
<1>3. ASSUME NEW d \in SessionDays
      PROVE  /\ rows[d] \in RowSet
             /\ rows[d].link \in SessionDays \cup {0}
  BY <1>1, <1>3
<1>4. ASSUME NEW d \in SessionDays
      PROVE  new[d] \in RowSet
  BY <1>2, <1>3, <1>4, RowFields
<1>5. new \in SessionsTab!Tables
  <2>1. new = [d \in SessionDays |-> new[d]]
    BY DEF SessionsTab!PutAll
  <2> QED  BY <1>4, <2>1 DEF SessionsTab!Tables
<1>6. Alike(rows, new)
  <2>1. ASSUME NEW d \in SessionDays
        PROVE  /\ new[d].link = rows[d].link
               /\ d \notin RegularDays => (new[d].why = "none" <=> rows[d].why = "none")
               /\ new[d].why = "moved" <=> rows[d].why = "moved"
    <3>1. CASE d \in ds
      <4>1. new[d].link = rows[d].link /\ new[d].why = why
        BY <1>2, <3>1, RowFields
      <4>2. Present(rows, d)
        BY <3>1
      <4> QED  BY <4>1, <4>2 DEF Present, Occupied
    <3>2. CASE d \notin ds
      BY <1>2, <3>2
    <3> QED  BY <3>1, <3>2
  <2> HIDE DEF new
  <2> QED  BY <2>1 DEF Alike
<1> QED  BY <1>5, <1>6, AlikeSound

LEMMA PutOneSound ==
  ASSUME NEW rows, RowsSound(rows), NEW p, Present(rows, p[1]), NEW why \in {"held", "said"},
         p[2] = 1 => p[1] \in RegularDays
  PROVE  LET new == SessionsTab!PutOne(rows, p, why) IN
         RowsSound(new) /\ \A d : Present(rows, d) <=> Present(new, d)
<1> DEFINE c == p[1]
<1>1. rows \in [SessionDays -> RowSet]
  BY DEF RowsSound, SessionsTab!Tables
<1>2. c \in SessionDays
  BY DaysSound DEF Present, Occupied
<1>3. SessionsTab!PutOne(rows, p, why) = [rows EXCEPT ![c] = SessionsTab!Row(why, rows[c].link)]
  <2>1. CASE p[2] = 1
    BY <2>1 DEF SessionsTab!PutOne, SessionsTab!PutById, RowsSound, LinksSound
  <2>2. CASE p[2] # 1
    BY <2>2 DEF SessionsTab!PutOne, SessionsTab!Put, SessionsTab!Carried
  <2> QED  BY <2>1, <2>2
<1> HIDE DEF c
<1>4. SessionsTab!PutAll(rows, {c}, why) = [rows EXCEPT ![c] = SessionsTab!Row(why, rows[c].link)]
  <2>1. ASSUME NEW d \in SessionDays
        PROVE  SessionsTab!PutAll(rows, {c}, why)[d]
          = [rows EXCEPT ![c] = SessionsTab!Row(why, rows[c].link)][d]
    BY <1>1, <1>2, <2>1 DEF SessionsTab!PutAll, SessionsTab!Put, SessionsTab!Carried
  <2>2. SessionsTab!PutAll(rows, {c}, why)
          = [d \in SessionDays |-> SessionsTab!PutAll(rows, {c}, why)[d]]
    BY DEF SessionsTab!PutAll
  <2> QED  BY <1>1, <2>1, <2>2
<1>5. \A d \in {c} : Present(rows, d)
  BY DEF c
<1> DEFINE new == SessionsTab!PutAll(rows, {c}, why)
<1>6. RowsSound(new) /\ \A d : Present(rows, d) <=> Present(new, d)
  BY <1>5, PutSound
<1>7. SessionsTab!PutOne(rows, p, why) = new
  BY <1>3, <1>4
<1> HIDE DEF new
<1> QED  BY <1>6, <1>7

LEMMA UncancelledSound ==
  ASSUME NEW rows, RowsSound(rows), NEW d, Present(rows, d)
  PROVE  RowsSound(SessionsTab!Uncancelled(rows, d))
<1> DEFINE new == SessionsTab!Uncancelled(rows, d)
<1>1. rows \in [SessionDays -> RowSet]
  BY DEF RowsSound, SessionsTab!Tables
<1>2. d \in SessionDays
  BY DaysSound DEF Present, Occupied
<1>3. CASE rows[d].why = "none"
  BY <1>3 DEF SessionsTab!Uncancelled
<1>4. CASE rows[d].why # "none"
  <2>1. new = [rows EXCEPT ![d].why = "held"]
    BY <1>4 DEF SessionsTab!Uncancelled
  <2>2. rows[d] \in RowSet
    BY <1>1, <1>2
  <2>3. /\ [rows[d] EXCEPT !.why = "held"] \in RowSet
        /\ [rows[d] EXCEPT !.why = "held"].link = rows[d].link
        /\ [rows[d] EXCEPT !.why = "held"].why = "held"
    BY <2>2
  <2>4. new \in SessionsTab!Tables
    BY <1>1, <1>2, <2>1, <2>3 DEF SessionsTab!Tables
  <2>5. /\ new[d].link = rows[d].link /\ new[d].why = "held"
        /\ \A e \in SessionDays : e # d => new[e] = rows[e]
    BY <1>1, <1>2, <2>1, <2>3
  <2> HIDE DEF new
  <2>6. Alike(rows, new)
    BY <1>2, <1>4, <2>5 DEF Alike, Present
  <2> QED  BY <2>4, <2>6, AlikeSound DEF new
<1> QED  BY <1>3, <1>4

\* A session is moved, perhaps again: the row of the day it was moved to before is removed.
LEMMA MoveSound ==
  ASSUME NEW rows, RowsSound(rows), NEW a, Movable(rows, a), NEW b \in SessionDays \ RegularDays,
         rows[b].why = "none"
  PROVE  RowsSound(SessionsTab!Move(rows, a, b)) /\ Movable(SessionsTab!Move(rows, a, b), a)
<1> DEFINE gone == {x \in SessionDays : rows[x].link = a /\ rows[x].why = "held" /\ x # a}
           new == SessionsTab!Move(rows, a, b)
<1>1. rows \in [SessionDays -> RowSet] /\ LinksSound(rows) /\ NoCircle(rows)
  BY DEF RowsSound, SessionsTab!Tables
<1>2. /\ a \in SessionDays /\ a # b /\ a \in RegularDays \cup Occupied(rows)
      /\ RegularDays \subseteq SessionDays /\ SessionDays \subseteq Nat \ {0}
      /\ Occupied(rows) \subseteq SessionDays \ RegularDays
  BY DaysSound DEF Movable, Occupied
<1>3. /\ SessionsTab!Row("moved", rows[a].link).why = "moved"
      /\ SessionsTab!Row("moved", rows[a].link).link = rows[a].link
      /\ SessionsTab!Row("held", a).why = "held" /\ SessionsTab!Row("held", a).link = a
      /\ SessionsTab!NoRow.why = "none" /\ SessionsTab!NoRow.link = 0
      /\ SessionsTab!Row("moved", rows[a].link) \in RowSet
      /\ {SessionsTab!Row("held", a), SessionsTab!NoRow} \subseteq RowSet
  <2>1. rows[a].link \in SessionDays \cup {0}
    BY <1>1, <1>2
  <2> QED  BY <1>2, <2>1, RowFields
<1>4. ASSUME NEW x \in SessionDays
      PROVE  new[x] = IF x = b THEN SessionsTab!Row("held", a)
                      ELSE IF x = a THEN SessionsTab!Row("moved", rows[a].link)
                      ELSE IF x \in gone THEN SessionsTab!NoRow ELSE rows[x]
  <2> DEFINE off == SessionsTab!Put(rows, a, "moved")
  <2>1. off = [rows EXCEPT ![a] = SessionsTab!Row("moved", rows[a].link)]
    BY DEF SessionsTab!Put, SessionsTab!Carried
  <2>2. \A y \in SessionDays :
          off[y] = IF y = a THEN SessionsTab!Row("moved", rows[a].link) ELSE rows[y]
    BY <1>1, <1>2, <2>1
  <2>3. ASSUME NEW y \in SessionDays
        PROVE  off[y].link = a /\ off[y].why = "held" <=> y \in gone
    <3>1. CASE y = a
      <4>1. off[y].why = "moved"
        BY <1>3, <2>2, <3>1
      <4> QED  BY <3>1, <4>1
    <3>2. CASE y # a
      <4>1. off[y] = rows[y]
        BY <2>2, <3>2
      <4> QED  BY <2>3, <3>2, <4>1
    <3> QED  BY <3>1, <3>2
  <2>4. SessionsTab!Superseded(off, a) = gone
    BY <2>3 DEF SessionsTab!Superseded
  <2>5. new = [[y \in SessionDays |-> IF y \in gone THEN SessionsTab!NoRow ELSE off[y]]
               EXCEPT ![b] = SessionsTab!Row("held", a)]
    BY <2>4 DEF SessionsTab!Move
  <2> HIDE DEF off, new
  <2>6. a \notin gone
    OBVIOUS
  <2> HIDE DEF gone
  <2> QED  BY <1>2, <2>2, <2>5, <2>6
<1>5. new \in SessionsTab!Tables
  <2>1. \A x \in SessionDays : rows[x] \in RowSet
    BY <1>1
  <2>2. \A x \in SessionDays : new[x] \in RowSet
    BY <1>3, <1>4, <2>1
  <2>3. new = [x \in SessionDays |-> new[x]]
    BY DEF SessionsTab!Move
  <2> HIDE DEF new
  <2> QED  BY <2>2, <2>3 DEF SessionsTab!Tables
<1> HIDE DEF new
\* What is gone are the days the session was moved to before.
<1>6. ASSUME NEW x \in Occupied(rows)  PROVE rows[x].link = a <=> x \in gone
  <2>1. x \in SessionDays /\ rows[x].link \in SessionsTab!Moved(rows)
    BY <1>1, <1>2 DEF LinksSound
  <2>2. rows[x].link # x
    <3>1. {x} \in SUBSET Occupied(rows) /\ {x} # {}
      OBVIOUS
    <3> QED  BY <1>1, <3>1 DEF NoCircle
  <2>3. rows[x].link = a => rows[x].why = "held"
    BY <2>1 DEF Movable, SessionsTab!Moved
  <2> QED  BY <2>1, <2>2, <2>3
<1>7. gone \subseteq Occupied(rows)
  <2>1. ASSUME NEW x \in gone  PROVE x \notin RegularDays /\ rows[x].why = "held"
    BY <1>1, <1>2, <2>1 DEF LinksSound
  <2> QED  BY <2>1 DEF Occupied
<1>8. gone \cap SessionsTab!Moved(rows) = {}
  BY DEF SessionsTab!Moved
<1> HIDE DEF gone
<1>9. b \notin Occupied(rows) /\ b \notin SessionsTab!Moved(rows) /\ b \notin gone
  BY <1>7 DEF Occupied, SessionsTab!Moved
<1>10. SessionsTab!Moved(new) = SessionsTab!Moved(rows) \cup {a}
  <2>1. ASSUME NEW x \in SessionDays
        PROVE  new[x].why = "moved" <=> rows[x].why = "moved" \/ x = a
    BY <1>2, <1>3, <1>4, <1>8, <1>9 DEF SessionsTab!Moved
  <2> QED  BY <1>2, <2>1 DEF SessionsTab!Moved
<1>11. Occupied(new) = (Occupied(rows) \ gone) \cup {b}
  <2>1. ASSUME NEW x \in SessionDays \ RegularDays
        PROVE  new[x].why # "none" <=> (rows[x].why # "none" /\ x \notin gone) \/ x = b
    <3>1. CASE x = a
      <4>1. rows[x].why # "none" /\ new[x].why = "moved"
        BY <1>2, <1>3, <1>4, <2>1, <3>1 DEF Occupied
      <4>2. x \notin gone
        <5>1. x \in gone => rows[x].link = a
          BY <1>6, <1>7
        <5>2. x \in Occupied(rows) => rows[x].link # x
          <6>1. x \in Occupied(rows) => {x} \in SUBSET Occupied(rows) /\ {x} # {}
            OBVIOUS
          <6> QED  BY <1>1, <6>1 DEF NoCircle
        <5> QED  BY <1>7, <3>1, <5>1, <5>2
      <4> QED  BY <4>1, <4>2
    <3>2. CASE x # a
      BY <1>3, <1>4, <3>2
    <3> QED  BY <3>1, <3>2
  <2> QED  BY <2>1 DEF Occupied
<1>12. /\ new[b].link = a
       /\ \A x \in Occupied(rows) \ gone : new[x].link = rows[x].link
       /\ \A x \in RegularDays : new[x].link = 0
  <2>1. new[b].link = a
    BY <1>3, <1>4
  <2>2. ASSUME NEW x \in SessionDays, x # b, x \notin gone  PROVE new[x].link = rows[x].link
    BY <1>3, <1>4, <2>2
  <2>3. \A x \in RegularDays : rows[x].link = 0 /\ x # b /\ x \notin gone /\ x \in SessionDays
    BY <1>1, <1>2, <1>7 DEF LinksSound
  <2> QED  BY <1>2, <1>9, <2>1, <2>2, <2>3
<1>13. LinksSound(new)
  <2>1. \A d \in SessionDays \ RegularDays : new[d].why = "none" => new[d].link = 0
    <3>1. ASSUME NEW d \in SessionDays \ RegularDays, new[d].why = "none"  PROVE new[d].link = 0
      <4>1. CASE d = b \/ d = a
        BY <1>3, <1>4, <3>1, <4>1
      <4>2. CASE d # b /\ d # a
        BY <1>1, <1>3, <1>4, <3>1, <4>2 DEF LinksSound
      <4> QED  BY <4>1, <4>2
    <3> QED  BY <3>1
  <2>2. \A d \in Occupied(new) : new[d].link \in SessionsTab!Moved(new)
    BY <1>1, <1>10, <1>11, <1>12 DEF LinksSound
  <2>3. \A x, y \in Occupied(new) : new[x].link = new[y].link => x = y
    BY <1>1, <1>6, <1>11, <1>12 DEF LinksSound
  <2>4. \A x \in SessionsTab!Moved(new) : \E y \in Occupied(new) : new[y].link = x
    <3>1. ASSUME NEW x \in SessionsTab!Moved(rows), x # a
          PROVE  \E y \in Occupied(new) : new[y].link = x
      <4>1. PICK y \in Occupied(rows) : rows[y].link = x
        BY <1>1 DEF LinksSound
      <4>2. y \notin gone
        BY <1>6, <3>1, <4>1
      <4> QED  BY <1>11, <1>12, <4>1, <4>2
    <3> QED  BY <1>10, <1>11, <1>12, <3>1
  <2> QED  BY <1>12, <2>1, <2>2, <2>3, <2>4 DEF LinksSound
<1>14. NoCircle(new)
  <2>1. ASSUME NEW S \in SUBSET Occupied(new), S # {}  PROVE \E x \in S : new[x].link \notin S
    <3> DEFINE before == S \ {b}
    <3>1. before \in SUBSET Occupied(rows) /\ before \cap gone = {}
      BY <1>11, <2>1
    <3>2. CASE before = {}
      BY <1>2, <1>12, <2>1, <3>2
    <3>3. CASE before # {}
      <4>1. PICK x \in before : rows[x].link \notin before
        BY <1>1, <3>1, <3>3 DEF NoCircle
      <4>2. rows[x].link # b
        BY <1>1, <1>9, <3>1, <4>1 DEF LinksSound
      <4> QED  BY <1>12, <3>1, <4>1, <4>2
    <3> QED  BY <3>2, <3>3
  <2> QED  BY <2>1 DEF NoCircle
<1>15. Movable(new, a)
  <2>1. a \in RegularDays \cup Occupied(new)
    <3>1. a \in Occupied(rows) => a \notin gone
      <4>1. a \in Occupied(rows) => {a} \in SUBSET Occupied(rows) /\ {a} # {}
        OBVIOUS
      <4> QED  BY <1>1, <1>6, <4>1 DEF NoCircle
    <3> QED  BY <1>2, <1>11, <3>1
  <2>2. \A x \in Occupied(new) : new[x].link = a => new[x].why = "held"
    <3>1. \A x \in Occupied(new) : new[x].link = a => x = b
      BY <1>6, <1>11, <1>12
    <3> QED  BY <1>3, <1>4, <3>1
  <2> QED  BY <2>1, <2>2 DEF Movable
<1> QED  BY <1>5, <1>13, <1>14, <1>15 DEF RowsSound, new

\* Restoring removes all rows that are linked, so that no link is left to one that is gone.
LEMMA UndoneSound ==
  ASSUME NEW rows, RowsSound(rows), NEW d  PROVE RowsSound(SessionsTab!Undone(rows, d))
<1> DEFINE chain == SessionsTab!Chain(rows, d)
           new == SessionsTab!Undone(rows, d)
<1>1. rows \in [SessionDays -> RowSet] /\ LinksSound(rows) /\ NoCircle(rows)
  BY DEF RowsSound, SessionsTab!Tables
<1>2. ASSUME NEW x \in chain, NEW z \in SessionDays, rows[x].link = z \/ rows[z].link = x
      PROVE  z \in chain
  <2>1. SessionsTab!Linked(rows, x, z)
    BY <1>2 DEF SessionsTab!Linked
  <2>2. ASSUME NEW S \in SUBSET SessionDays, d \in S,
               \A y \in S, e \in SessionDays : SessionsTab!Linked(rows, y, e) => e \in S
        PROVE  z \in S
    <3>1. x \in S
      BY <2>2 DEF SessionsTab!Chain
    <3> QED  BY <2>1, <2>2, <3>1
  <2> QED  BY <2>2 DEF SessionsTab!Chain
<1>3. ASSUME NEW x \in SessionDays
      PROVE  new[x] = IF x \in chain THEN SessionsTab!NoRow ELSE rows[x]
  BY <1>3 DEF SessionsTab!Undone
<1>4. SessionsTab!NoRow.why = "none" /\ SessionsTab!NoRow.link = 0 /\ SessionsTab!NoRow \in RowSet
  BY RowFields
<1>5. new \in SessionsTab!Tables
  <2>1. new = [x \in SessionDays |-> new[x]]
    BY DEF SessionsTab!Undone
  <2>2. \A x \in SessionDays : rows[x] \in RowSet
    BY <1>1
  <2> HIDE DEF new, chain
  <2>3. \A x \in SessionDays : new[x] \in RowSet
    BY <1>3, <1>4, <2>2
  <2> QED  BY <2>1, <2>3 DEF SessionsTab!Tables
<1> HIDE DEF new, chain
<1>6. /\ Occupied(new) = Occupied(rows) \ chain
      /\ SessionsTab!Moved(new) = SessionsTab!Moved(rows) \ chain
  BY <1>3, <1>4 DEF Occupied, SessionsTab!Moved
<1>7. \A x \in Occupied(new) :
        new[x].link = rows[x].link /\ x \in SessionDays /\ x \in Occupied(rows)
  BY <1>3, <1>6 DEF Occupied
<1>8. LinksSound(new)
  <2>1. /\ \A e \in RegularDays : new[e].link = 0
        /\ \A e \in SessionDays \ RegularDays : new[e].why = "none" => new[e].link = 0
    BY <1>1, <1>3, <1>4, DaysSound DEF LinksSound
  <2>2. \A e \in Occupied(new) : new[e].link \in SessionsTab!Moved(new)
    <3>1. ASSUME NEW e \in Occupied(new)  PROVE new[e].link \in SessionsTab!Moved(new)
      <4>1. /\ new[e].link = rows[e].link /\ rows[e].link \in SessionsTab!Moved(rows)
            /\ e \in SessionDays
        BY <1>1, <1>7 DEF LinksSound
      <4>2. rows[e].link \notin chain
        BY <1>2, <1>6, <4>1
      <4> QED  BY <1>6, <4>1, <4>2
    <3> QED  BY <3>1
  <2>3. \A x, y \in Occupied(new) : new[x].link = new[y].link => x = y
    BY <1>1, <1>7 DEF LinksSound
  <2>4. \A x \in SessionsTab!Moved(new) : \E y \in Occupied(new) : new[y].link = x
    <3>1. ASSUME NEW x \in SessionsTab!Moved(new)  PROVE \E y \in Occupied(new) : new[y].link = x
      <4>1. PICK y \in Occupied(rows) : rows[y].link = x
        BY <1>1, <1>6 DEF LinksSound
      <4>2. x \in SessionDays /\ x \notin chain
        BY <1>6 DEF SessionsTab!Moved
      <4>3. y \notin chain
        BY <1>2, <4>1, <4>2
      <4> QED  BY <1>6, <1>7, <4>1, <4>3
    <3> QED  BY <3>1
  <2> QED  BY <2>1, <2>2, <2>3, <2>4 DEF LinksSound
<1>9. NoCircle(new)
  <2>1. ASSUME NEW S \in SUBSET Occupied(new), S # {}  PROVE \E x \in S : new[x].link \notin S
    <3>1. S \in SUBSET Occupied(rows)
      BY <1>6
    <3>2. PICK x \in S : rows[x].link \notin S
      BY <1>1, <2>1, <3>1 DEF NoCircle
    <3> QED  BY <1>7, <3>2
  <2> QED  BY <2>1 DEF NoCircle
<1> QED  BY <1>5, <1>8, <1>9 DEF RowsSound, new

\* Of a day a session was moved from, the one day it was moved to.
LEMMA OnwardSound ==
  ASSUME NEW rows, RowsSound(rows)
  PROVE  /\ \A e \in Occupied(rows) : SessionsTab!Onward(rows, rows[e].link) = {e}
         /\ \A x \in SessionsTab!Moved(rows) :
              \E y \in Occupied(rows) : rows[y].link = x /\ SessionsTab!Onward(rows, x) = {y}
<1>1. ASSUME NEW e \in Occupied(rows)  PROVE SessionsTab!Onward(rows, rows[e].link) = {e}
  <2> DEFINE x == rows[e].link
  <2>1. x \in SessionDays /\ x # 0 /\ e \in SessionDays /\ rows[e].why # "none"
    BY <1>1, DaysSound DEF RowsSound, LinksSound, Occupied, SessionsTab!Moved
  <2>2. ASSUME NEW y \in SessionsTab!From(rows, x)  PROVE y = e
    <3>1. y \in SessionDays /\ rows[y].link = x /\ rows[y].why # "none"
      BY <2>2 DEF SessionsTab!From
    <3>2. y \in Occupied(rows)
      BY <2>1, <3>1 DEF RowsSound, LinksSound, Occupied
    <3> QED  BY <1>1, <3>1, <3>2 DEF RowsSound, LinksSound
  <2>3. e \in SessionsTab!From(rows, x)
    BY <2>1 DEF SessionsTab!From
  <2>4. SessionsTab!From(rows, x) = {e}
    BY <2>2, <2>3
  <2> HIDE DEF x
  <2>5. SessionsTab!Onward(rows, x) = {CHOOSE z \in {e} : TRUE}
    BY <2>4 DEF SessionsTab!Onward
  <2>6. (CHOOSE z \in {e} : TRUE) = e
    OBVIOUS
  <2> QED  BY <2>5, <2>6 DEF x
<1>2. ASSUME NEW x \in SessionsTab!Moved(rows)
      PROVE  \E y \in Occupied(rows) : rows[y].link = x /\ SessionsTab!Onward(rows, x) = {y}
  <2>1. PICK y \in Occupied(rows) : rows[y].link = x
    BY DEF RowsSound, LinksSound
  <2> QED  BY <1>1, <2>1
<1> QED  BY <1>1, <1>2

\* The days walked are the least set that begins with d and goes on as long as there are moves.
LEMMA WalkedSound ==
  ASSUME NEW rows, NEW d \in SessionsTab!Moved(rows)
  PROVE  LET walked == SessionsTab!Walked(rows, d)  moved == SessionsTab!Moved(rows) IN
         /\ walked \subseteq moved /\ d \in walked
         /\ \A x \in walked : SessionsTab!Onward(rows, x) \cap moved \subseteq walked
         /\ \A S \in SUBSET moved :
              d \in S /\ (\A x \in S : SessionsTab!Onward(rows, x) \cap moved \subseteq S)
                => walked \subseteq S
  BY DEF SessionsTab!Walked

Roots(rows) == RegularDays \cap SessionsTab!Moved(rows)

\* Every day a session was moved from lies on the way of a regular one.
LEMMA CoveredSound ==
  ASSUME NEW rows, RowsSound(rows), NEW p \in SessionsTab!Moved(rows)
  PROVE  \E r \in Roots(rows) : p \in SessionsTab!Walked(rows, r)
<1> DEFINE lost == {x \in Occupied(rows) \cap SessionsTab!Moved(rows) :
                      \A r \in Roots(rows) : x \notin SessionsTab!Walked(rows, r)}
<1>1. lost \in SUBSET Occupied(rows)
  OBVIOUS
<1>2. ASSUME NEW m \in SessionsTab!Moved(rows),
             \A r \in Roots(rows) : m \notin SessionsTab!Walked(rows, r)
      PROVE  m \in lost
  <2>1. m \notin RegularDays
    BY <1>2, WalkedSound DEF Roots
  <2>2. m \in Occupied(rows)
    BY <2>1 DEF Occupied, SessionsTab!Moved
  <2> QED  BY <1>2, <2>2
<1>3. ASSUME NEW x \in lost  PROVE rows[x].link \in lost
  <2> DEFINE m == rows[x].link
  <2>1. m \in SessionsTab!Moved(rows) /\ SessionsTab!Onward(rows, m) = {x}
    BY <1>3, OnwardSound DEF RowsSound, LinksSound
  <2>2. ASSUME NEW r \in Roots(rows), m \in SessionsTab!Walked(rows, r)  PROVE FALSE
    <3>1. SessionsTab!Onward(rows, m) \cap SessionsTab!Moved(rows)
            \subseteq SessionsTab!Walked(rows, r)
      BY <2>2, WalkedSound DEF Roots
    <3> QED  BY <1>3, <2>1, <3>1
  <2> HIDE DEF m
  <2> QED  BY <1>2, <2>1, <2>2 DEF m
<1> HIDE DEF lost
<1>4. lost = {}
  BY <1>1, <1>3 DEF RowsSound, NoCircle
<1> QED  BY <1>2, <1>4

\* Where a session that was moved ends is a day that has it, and whoever was moved to that day
\* last began there.
LEMMA EndSound ==
  ASSUME NEW rows, RowsSound(rows), NEW r \in Roots(rows)
  PROVE  /\ SessionsTab!End(rows, r).at \in Occupied(rows) \ SessionsTab!Moved(rows)
         /\ \A e \in Occupied(rows) \ SessionsTab!Moved(rows) :
              rows[e].link \in SessionsTab!Walked(rows, r) => SessionsTab!End(rows, r).at = e
         /\ SessionsTab!End(rows, r).past = SessionsTab!Walked(rows, r) \ {r}
<1> DEFINE M == SessionsTab!Moved(rows)
           W == SessionsTab!Walked(rows, r)
           onward == {SessionsTab!Onward(rows, x) : x \in W}
           ends == (UNION onward) \ M
<1>1. SessionsTab!End(rows, r).at = (IF ends = {} THEN 0 ELSE CHOOSE y \in ends : TRUE)
      /\ SessionsTab!End(rows, r).past = W \ {r}
  BY DEF SessionsTab!End
<1>2. /\ W \subseteq M /\ r \in W /\ r \in RegularDays
      /\ \A x \in W : SessionsTab!Onward(rows, x) \cap M \subseteq W
      /\ \A S \in SUBSET M :
           r \in S /\ (\A x \in S : SessionsTab!Onward(rows, x) \cap M \subseteq S) => W \subseteq S
  BY WalkedSound DEF Roots
<1>3. \A x \in M : \E y \in Occupied(rows) : rows[y].link = x /\ SessionsTab!Onward(rows, x) = {y}
  BY OnwardSound
<1> HIDE DEF M, W
<1>4. \A e : e \in ends <=> e \notin M /\ \E x \in W : e \in SessionsTab!Onward(rows, x)
  <2>1. \A s : s \in onward <=> \E x \in W : s = SessionsTab!Onward(rows, x)
    OBVIOUS
  <2> HIDE DEF onward
  <2>2. \A e : e \in UNION onward <=> \E s \in onward : e \in s
    OBVIOUS
  <2>3. \A e : e \in UNION onward <=> \E x \in W : e \in SessionsTab!Onward(rows, x)
    BY <2>1, <2>2
  <2>4. \A e : e \in ends <=> e \in UNION onward /\ e \notin M
    OBVIOUS
  <2> QED  BY <2>3, <2>4
<1> HIDE DEF ends
<1>9. ends \subseteq Occupied(rows) \ M
  <2>1. ASSUME NEW e \in ends  PROVE e \in Occupied(rows) /\ e \notin M
    <3>1. PICK x \in W : e \in SessionsTab!Onward(rows, x)
      BY <1>4, <2>1
    <3>2. \E y \in Occupied(rows) : SessionsTab!Onward(rows, x) = {y}
      BY <1>2, <1>3
    <3> QED  BY <1>4, <2>1, <3>1, <3>2
  <2> QED  BY <2>1
<1>5. ends # {}
  <2> SUFFICES ASSUME ends = {}  PROVE FALSE
    OBVIOUS
  <2>1. ASSUME NEW x \in W  PROVE \E y \in W \ {r} : rows[y].link = x
    <3>1. PICK y \in Occupied(rows) : rows[y].link = x /\ SessionsTab!Onward(rows, x) = {y}
      BY <1>2, <1>3, <2>1
    <3>2. y \in M
      BY <1>4, <2>1, <3>1
    <3>3. y \in W
      BY <1>2, <2>1, <3>1, <3>2
    <3>4. y # r
      BY <1>2, <3>1 DEF Occupied
    <3> QED  BY <3>1, <3>3, <3>4
  <2> DEFINE step == [x \in W |-> CHOOSE y \in W \ {r} : rows[y].link = x]
  <2>2. \A x \in W : step[x] \in W \ {r} /\ rows[step[x]].link = x
    BY <2>1
  <2>3. step \in [W -> W \ {r}]
    BY <2>2
  <2>4. IsFiniteSet(W)
    <3>1. W \in SUBSET SessionDays
      BY <1>2 DEF SessionsTab!Moved, M
    <3> QED  BY <3>1, DaysSound, FS_Subset
  <2>5. IsFiniteSet(W \ {r}) /\ Cardinality(W \ {r}) < Cardinality(W)
    <3>1. Cardinality(W) \in Nat
      BY <2>4, FS_CardinalityType
    <3>2. IsFiniteSet(W \ {r}) /\ Cardinality(W \ {r}) = Cardinality(W) - 1
      BY <1>2, <2>4, FS_RemoveElement
    <3> QED  BY <3>1, <3>2
  <2> HIDE DEF step
  <2>6. \E x, y \in W : x # y /\ step[x] = step[y]
    BY <2>3, <2>4, <2>5, FS_PigeonHole
  <2> QED  BY <2>2, <2>6
\* The last day of the way can be reached from every other.
<1>6. ASSUME NEW e1 \in ends, NEW e2 \in ends  PROVE e1 = e2
  <2>1. PICK x1 \in W : e1 \in SessionsTab!Onward(rows, x1)
    BY <1>4, <1>6
  <2>2. PICK x2 \in W : e2 \in SessionsTab!Onward(rows, x2)
    BY <1>4, <1>6
  <2>3. /\ SessionsTab!Onward(rows, x1) = {e1} /\ SessionsTab!Onward(rows, x2) = {e2}
        /\ e1 \notin M /\ e2 \notin M
    <3>1. /\ \E y \in Occupied(rows) : SessionsTab!Onward(rows, x1) = {y}
          /\ \E y \in Occupied(rows) : SessionsTab!Onward(rows, x2) = {y}
      BY <1>2, <1>3
    <3> QED  BY <1>4, <1>6, <2>1, <2>2, <3>1
  <2> DEFINE Q == {y \in W : x1 \in SessionsTab!Walked(rows, y)}
  <2>4. r \in Q
    BY <1>2, <2>1 DEF W
  <2>5. ASSUME NEW y \in Q, NEW z \in SessionsTab!Onward(rows, y) \cap M  PROVE z \in Q
    <3>1. y \in M /\ y \in W /\ z \in W /\ x1 \in SessionsTab!Walked(rows, y)
      BY <1>2, <2>5
    <3>2. SessionsTab!Onward(rows, y) = {z}
      BY <1>3, <2>5, <3>1
    <3>3. x1 # y
      BY <2>3, <2>5, <3>2
    <3>4. /\ SessionsTab!Walked(rows, z) \subseteq M /\ z \in SessionsTab!Walked(rows, z)
          /\ \A x \in SessionsTab!Walked(rows, z) :
               SessionsTab!Onward(rows, x) \cap M \subseteq SessionsTab!Walked(rows, z)
      BY <2>5, WalkedSound DEF M
    <3> DEFINE S == {y} \cup SessionsTab!Walked(rows, z)
    <3>5. S \in SUBSET M /\ y \in S /\ \A x \in S : SessionsTab!Onward(rows, x) \cap M \subseteq S
      BY <3>1, <3>2, <3>4
    <3> HIDE DEF S
    <3>6. SessionsTab!Walked(rows, y) \subseteq S
      BY <3>1, <3>5, WalkedSound DEF M
    <3> QED  BY <3>1, <3>3, <3>6 DEF S
  <2>6. x2 \in Q
    <3>1. Q \in SUBSET M /\ \A y \in Q : SessionsTab!Onward(rows, y) \cap M \subseteq Q
      BY <1>2, <2>5
    <3> HIDE DEF Q
    <3> QED  BY <1>2, <2>2, <2>4, <3>1
  <2>7. SessionsTab!Walked(rows, x2) \subseteq {x2}
    <3>1. /\ x2 \in M /\ {x2} \in SUBSET M
          /\ \A x \in {x2} : SessionsTab!Onward(rows, x) \cap M \subseteq {x2}
      BY <1>2, <2>2, <2>3
    <3> QED  BY <3>1, WalkedSound DEF M
  <2> QED  BY <2>3, <2>6, <2>7
<1>7. SessionsTab!End(rows, r).at \in ends
  BY <1>1, <1>5
<1>8. ASSUME NEW e \in Occupied(rows) \ M, rows[e].link \in W  PROVE e \in ends
  <2>1. e \in SessionsTab!Onward(rows, rows[e].link)
    BY <1>8, OnwardSound
  <2> QED  BY <1>4, <1>8, <2>1
<1> QED  BY <1>1, <1>6, <1>7, <1>8, <1>9 DEF M, W

\* The sessions made of the rows.
LEMMA SessionsSound ==
  ASSUME NEW rows, RowsSound(rows)
  PROVE  LET all == SessionsTab!Sessions(rows) IN
         /\ DOMAIN all = RegularDays \cup Occupied(rows)
         /\ \A d \in RegularDays \cup Occupied(rows) :
              /\ all[d].off <=> rows[d].why \in {"moved", "said"}
              /\ all[d].moved <=> d \in RegularDays /\ rows[d].why = "moved"
<1> DEFINE all == SessionsTab!Sessions(rows)
<1>1. /\ \A d \in RegularDays : rows[d].link = 0
      /\ \A d \in Occupied(rows) : rows[d].link \in SessionDays
  BY DEF RowsSound, LinksSound, SessionsTab!Moved
<1>2. ASSUME NEW d \in SessionDays  PROVE SessionsTab!MovedHere(rows, d) <=> d \in Occupied(rows)
  <2>1. CASE d \in RegularDays
    BY <1>1, <2>1 DEF SessionsTab!MovedHere, Occupied
  <2>2. CASE d \in Occupied(rows)
    <3>1. rows[d].link # d
      <4>1. {d} \in SUBSET Occupied(rows) /\ {d} # {}
        BY <2>2
      <4> QED  BY <4>1 DEF RowsSound, NoCircle
    <3> QED  BY <1>1, <2>2, <3>1, DaysSound DEF SessionsTab!MovedHere, Occupied
  <2>3. CASE d \notin RegularDays \cup Occupied(rows)
    BY <1>2, <2>3 DEF SessionsTab!MovedHere, Occupied
  <2> QED  BY <2>1, <2>2, <2>3
<1>3. {x \in SessionDays : SessionsTab!IsSession(rows, x)} = RegularDays \cup Occupied(rows)
  BY <1>2, DaysSound DEF SessionsTab!IsSession, Occupied
<1>4. all = [d \in RegularDays \cup Occupied(rows) |-> SessionsTab!Session(rows, d)]
  BY <1>3 DEF SessionsTab!Sessions
<1>5. ASSUME NEW d \in RegularDays \cup Occupied(rows)
      PROVE  /\ SessionsTab!Session(rows, d).off <=> rows[d].why \in {"moved", "said"}
             /\ SessionsTab!Session(rows, d).moved <=> d \in RegularDays /\ rows[d].why = "moved"
  <2>1. SessionsTab!MovedHere(rows, d) <=> d \in Occupied(rows)
    BY <1>2, <1>5, DaysSound DEF Occupied
  <2>2. CASE d \in Occupied(rows)
    <3> DEFINE off == SessionsTab!Off(rows[d])
    <3>1. SessionsTab!Session(rows, d) = [off |-> off, moved |-> FALSE, by |-> d, to |-> 0]
      BY <2>1, <2>2 DEF SessionsTab!Session
    <3>2. SessionsTab!Session(rows, d).moved = FALSE /\ SessionsTab!Session(rows, d).off = off
      <4> HIDE DEF off
      <4> QED  BY <3>1
    <3>3. d \notin RegularDays
      BY <2>2 DEF Occupied
    <3> QED  BY <3>2, <3>3 DEF SessionsTab!Off
  <2>3. CASE d \notin Occupied(rows)
    <3> DEFINE moved == rows[d].why = "moved"
               by == IF rows[d].why = "none" THEN 0 ELSE d
               to == IF rows[d].why = "moved" THEN SessionsTab!End(rows, d).at ELSE 0
    <3>1. SessionsTab!Session(rows, d)
            = [off |-> SessionsTab!Off(rows[d]), moved |-> moved, by |-> by, to |-> to]
      BY <2>1, <2>3 DEF SessionsTab!Session
    <3>2. /\ SessionsTab!Session(rows, d).moved = moved
          /\ SessionsTab!Session(rows, d).off = SessionsTab!Off(rows[d])
      <4> HIDE DEF moved, by, to
      <4> QED  BY <3>1
    <3> QED  BY <1>5, <2>3, <3>2 DEF SessionsTab!Off
  <2> QED  BY <2>2, <2>3
<1> HIDE DEF all
<1>6. ASSUME NEW d \in RegularDays \cup Occupied(rows)
      PROVE  /\ all[d].off <=> rows[d].why \in {"moved", "said"}
             /\ all[d].moved <=> d \in RegularDays /\ rows[d].why = "moved"
  <2>1. all[d] = SessionsTab!Session(rows, d)
    BY <1>4
  <2> QED  BY <1>5, <2>1
<1>7. DOMAIN all = RegularDays \cup Occupied(rows)
  BY <1>4
<1> QED  BY <1>6, <1>7 DEF all

\* As many are held or cancelled as there are regular days: a day outside the rule has a session
\* for each that was moved away.
LEMMA CountSound ==
  ASSUME NEW rows, RowsSound(rows)
  PROVE  LET all == SessionsTab!Sessions(rows) IN
         Cardinality({d \in DOMAIN all : ~all[d].off \/ rows[d].why = "said"})
           = Cardinality(RegularDays)
<1> DEFINE all == SessionsTab!Sessions(rows)
           O == Occupied(rows)
           M == SessionsTab!Moved(rows)
<1>1. DOMAIN all = RegularDays \cup O
      /\ \A d \in RegularDays \cup O : all[d].off <=> rows[d].why \in {"moved", "said"}
  BY SessionsSound
<1>2. /\ M \subseteq RegularDays \cup O /\ RegularDays \cap O = {}
      /\ RegularDays \subseteq SessionDays /\ O \subseteq SessionDays
      /\ IsFiniteSet(RegularDays) /\ IsFiniteSet(O) /\ IsFiniteSet(M)
  <2>1. M \subseteq SessionDays /\ O \subseteq SessionDays
    BY DEF SessionsTab!Moved, Occupied
  <2>2. IsFiniteSet(RegularDays) /\ IsFiniteSet(O) /\ IsFiniteSet(M)
    BY <2>1, DaysSound, FS_Subset
  <2> QED  BY <2>1, <2>2, DaysSound DEF SessionsTab!Moved, Occupied
<1>3. {d \in DOMAIN all : ~all[d].off \/ rows[d].why = "said"} = (RegularDays \cup O) \ M
  <2>1. ASSUME NEW d \in RegularDays \cup O  PROVE d \in M <=> rows[d].why = "moved"
    BY <1>2, <2>1 DEF SessionsTab!Moved
  <2> HIDE DEF all, O, M
  <2> QED  BY <1>1, <2>1
<1>4. Cardinality(M) = Cardinality(O)
  <2> DEFINE from == [x \in O |-> rows[x].link]
  <2>1. /\ \A x \in O : from[x] \in M
        /\ \A x, y \in O : from[x] = from[y] => x = y
        /\ \A x \in M : \E y \in O : from[y] = x
    BY DEF RowsSound, LinksSound
  <2>2. from \in [O -> M]
    BY <2>1
  <2> HIDE DEF from, O, M
  <2>3. from \in Injection(O, M)
    BY <2>1, <2>2, Fun_IsInj
  <2>4. from \in Surjection(O, M)
    BY <2>1, <2>2, Fun_IsSurj
  <2> QED  BY <1>2, <2>3, <2>4, FS_Injection
<1> HIDE DEF all, O, M
<1>5. Cardinality(RegularDays \cup O) = Cardinality(RegularDays) + Cardinality(O)
  <2>1. Cardinality(RegularDays \cap O) = 0
    BY <1>2, FS_EmptySet
  <2>2. Cardinality(RegularDays \cup O)
          = Cardinality(RegularDays) + Cardinality(O) - Cardinality(RegularDays \cap O)
    BY <1>2, FS_Union
  <2>3. Cardinality(RegularDays) \in Nat /\ Cardinality(O) \in Nat
    BY <1>2, FS_CardinalityType
  <2> QED  BY <2>1, <2>2, <2>3
<1>6. Cardinality((RegularDays \cup O) \ M) = Cardinality(RegularDays \cup O) - Cardinality(M)
  <2>1. IsFiniteSet(RegularDays \cup O) /\ (RegularDays \cup O) \cap M = M
    BY <1>2, FS_Union
  <2> QED  BY <2>1, FS_Difference
<1>7. Cardinality(RegularDays) \in Nat /\ Cardinality(O) \in Nat
  BY <1>2, FS_CardinalityType
<1>8. Cardinality((RegularDays \cup O) \ M) = Cardinality(RegularDays)
  BY <1>4, <1>5, <1>6, <1>7
<1> QED  BY <1>3, <1>8 DEF all

\* The page that has the rows and the sessions as they are tells a regular day whose session was
\* moved away, a day it was moved to, and a day whose session stayed.
LEMMA ViewSound ==
  ASSUME NEW rows, RowsSound(rows)
  PROVE  LET view == SessionsTab!Displays(rows, SessionsTab!Sessions(rows)) IN
         /\ DOMAIN view = RegularDays \cup (Occupied(rows) \ SessionsTab!Moved(rows))
         /\ \A d \in DOMAIN view :
              /\ view[d].from <=> d \in Roots(rows)
              /\ view[d].to <=> d \in Occupied(rows) /\ rows[d].why # "said"
              /\ view[d].toOff <=> d \in Occupied(rows) /\ rows[d].why = "said"
              /\ view[d].toOff => view[d].by = d
              /\ view[d].from => view[d].where \in Occupied(rows) \ SessionsTab!Moved(rows)
<1> DEFINE all == SessionsTab!Sessions(rows)
           view == SessionsTab!Displays(rows, all)
<1>1. /\ DOMAIN all = RegularDays \cup Occupied(rows)
      /\ \A d \in RegularDays \cup Occupied(rows) :
           /\ all[d].off <=> rows[d].why \in {"moved", "said"}
           /\ all[d].moved <=> d \in RegularDays /\ rows[d].why = "moved"
  BY SessionsSound
<1>2. /\ RegularDays \cap Occupied(rows) = {} /\ RegularDays \subseteq SessionDays
      /\ Occupied(rows) \subseteq SessionDays /\ 0 \notin SessionDays
  BY DaysSound DEF Occupied
<1>3. SessionsTab!Roots(rows) = Roots(rows)
  <2>1. ASSUME NEW d \in SessionDays
        PROVE  rows[d] = SessionsTab!Row("moved", 0) <=> rows[d].why = "moved" /\ rows[d].link = 0
    <3>1. rows[d] = [why |-> rows[d].why, link |-> rows[d].link]
      <4>1. rows[d] \in RowSet
        BY <2>1 DEF RowsSound, SessionsTab!Tables
      <4> QED  BY <4>1
    <3> QED  BY <3>1 DEF SessionsTab!Row
  <2>2. ASSUME NEW d \in SessionsTab!Moved(rows)  PROVE rows[d].link = 0 <=> d \in RegularDays
    <3>1. d \in RegularDays \cup Occupied(rows)
      BY <2>2 DEF SessionsTab!Moved, Occupied
    <3>2. d \in Occupied(rows) => rows[d].link \in SessionDays
      BY DEF RowsSound, LinksSound, SessionsTab!Moved
    <3>3. d \in RegularDays => rows[d].link = 0
      BY DEF RowsSound, LinksSound
    <3> QED  BY <1>2, <3>1, <3>2, <3>3
  <2>3. ASSUME NEW d \in SessionDays  PROVE d \in SessionsTab!Roots(rows) <=> d \in Roots(rows)
    BY <2>1, <2>2, <2>3 DEF SessionsTab!Roots, Roots, SessionsTab!Moved
  <2> QED  BY <1>2, <2>3 DEF SessionsTab!Roots, Roots
<1>4. ASSUME NEW r \in Roots(rows)
      PROVE  /\ SessionsTab!GoesTo(rows, r) \in Occupied(rows) \ SessionsTab!Moved(rows)
             /\ SessionsTab!GoesTo(rows, r) # 0
             /\ \A e \in Occupied(rows) \ SessionsTab!Moved(rows) :
                  rows[e].link \in SessionsTab!Walked(rows, r) => SessionsTab!GoesTo(rows, r) = e
  BY <1>2, <1>3, EndSound DEF SessionsTab!GoesTo
<1>5. ASSUME NEW d, d \notin Roots(rows)  PROVE SessionsTab!GoesTo(rows, d) = 0
  BY <1>3, <1>5 DEF SessionsTab!GoesTo
<1>6. ASSUME NEW e
      PROVE  SessionsTab!CameFrom(rows, e) # {} <=> e \in Occupied(rows) \ SessionsTab!Moved(rows)
  <2>1. SessionsTab!CameFrom(rows, e) # {} => e \in Occupied(rows) \ SessionsTab!Moved(rows)
    BY <1>3, <1>4 DEF SessionsTab!CameFrom
  <2>2. ASSUME e \in Occupied(rows) \ SessionsTab!Moved(rows)
        PROVE  SessionsTab!CameFrom(rows, e) # {}
    <3>1. rows[e].link \in SessionsTab!Moved(rows)
      BY <2>2 DEF RowsSound, LinksSound
    <3>2. PICK r \in Roots(rows) : rows[e].link \in SessionsTab!Walked(rows, r)
      BY <3>1, CoveredSound
    <3>3. r \in SessionsTab!CameFrom(rows, e)
      BY <1>3, <1>4, <2>2, <3>2 DEF SessionsTab!CameFrom
    <3> QED  BY <3>3
  <2> QED  BY <2>1, <2>2
<1>7. SessionsTab!Between(rows) = Occupied(rows) \cap SessionsTab!Moved(rows)
  <2>1. \A r \in SessionsTab!Roots(rows) :
          SessionsTab!End(rows, r).past = SessionsTab!Walked(rows, r) \ {r}
    BY <1>3, EndSound
  <2>2. ASSUME NEW r \in Roots(rows), NEW x \in SessionsTab!Walked(rows, r) \ {r}
        PROVE  x \in Occupied(rows) \cap SessionsTab!Moved(rows)
    <3> DEFINE S == {r} \cup (SessionsTab!Moved(rows) \cap Occupied(rows))
    <3>1. S \in SUBSET SessionsTab!Moved(rows) /\ r \in S
      BY DEF Roots
    <3>2. \A y \in S : SessionsTab!Onward(rows, y) \cap SessionsTab!Moved(rows) \subseteq S
      <4>1. ASSUME NEW y \in S
            PROVE  SessionsTab!Onward(rows, y) \cap SessionsTab!Moved(rows) \subseteq S
        <5>1. PICK z \in Occupied(rows) : SessionsTab!Onward(rows, y) = {z}
          BY <3>1, <4>1, OnwardSound
        <5> QED  BY <5>1
      <4> QED  BY <4>1
    <3> HIDE DEF S
    <3>3. SessionsTab!Walked(rows, r) \subseteq S
      BY <3>1, <3>2, WalkedSound DEF Roots
    <3> QED  BY <2>2, <3>3 DEF S
  <2>3. ASSUME NEW x \in Occupied(rows) \cap SessionsTab!Moved(rows)
        PROVE  \E r \in Roots(rows) : x \in SessionsTab!Walked(rows, r) \ {r}
    BY <1>2, <2>3, CoveredSound DEF Roots
  <2> DEFINE pasts == {SessionsTab!End(rows, r).past : r \in SessionsTab!Roots(rows)}
  <2>4. SessionsTab!Between(rows) = UNION pasts
    BY DEF SessionsTab!Between
  <2>5. \A s : s \in pasts <=> \E r \in Roots(rows) : s = SessionsTab!Walked(rows, r) \ {r}
    BY <1>3, <2>1
  <2> HIDE DEF pasts
  <2>6. \A x : x \in UNION pasts <=> \E s \in pasts : x \in s
    OBVIOUS
  <2>7. \A x : x \in SessionsTab!Between(rows)
               <=> \E r \in Roots(rows) : x \in SessionsTab!Walked(rows, r) \ {r}
    <3>1. \A x : x \in SessionsTab!Between(rows) <=> \E s \in pasts : x \in s
      BY <2>4, <2>6
    <3>2. \A r \in Roots(rows) : SessionsTab!Walked(rows, r) \ {r} \in pasts
      BY <2>5
    <3>3. ASSUME NEW x \in SessionsTab!Between(rows)
          PROVE  \E r \in Roots(rows) : x \in SessionsTab!Walked(rows, r) \ {r}
      <4>1. PICK s \in pasts : x \in s
        BY <3>1, <3>3
      <4>2. PICK r \in Roots(rows) : s = SessionsTab!Walked(rows, r) \ {r}
        BY <2>5, <4>1
      <4> QED  BY <4>1, <4>2
    <3>4. ASSUME NEW x, NEW r \in Roots(rows), x \in SessionsTab!Walked(rows, r) \ {r}
          PROVE  x \in SessionsTab!Between(rows)
      BY <3>1, <3>2, <3>4
    <3> QED  BY <3>3, <3>4
  <2>8. ASSUME NEW x
        PROVE  x \in SessionsTab!Between(rows) <=> x \in Occupied(rows) \cap SessionsTab!Moved(rows)
    BY <2>2, <2>3, <2>7
  <2> QED  BY <2>8
<1>8. DOMAIN view = RegularDays \cup (Occupied(rows) \ SessionsTab!Moved(rows))
      /\ \A d \in DOMAIN view : view[d] = SessionsTab!Shows1(rows, all, d)
  <2>1. view = [d \in DOMAIN all \ SessionsTab!Between(rows) |-> SessionsTab!Shows1(rows, all, d)]
    BY DEF SessionsTab!Displays
  <2> HIDE DEF view, all
  <2>2. DOMAIN all \ SessionsTab!Between(rows)
          = RegularDays \cup (Occupied(rows) \ SessionsTab!Moved(rows))
    BY <1>1, <1>2, <1>7
  <2> QED  BY <2>1, <2>2
<1> HIDE DEF view, all
<1>9. ASSUME NEW d \in RegularDays \cup (Occupied(rows) \ SessionsTab!Moved(rows))
      PROVE  /\ view[d].from <=> d \in Roots(rows)
             /\ view[d].to <=> d \in Occupied(rows) /\ rows[d].why # "said"
             /\ view[d].toOff <=> d \in Occupied(rows) /\ rows[d].why = "said"
             /\ view[d].toOff => view[d].by = d
             /\ view[d].from => view[d].where \in Occupied(rows) \ SessionsTab!Moved(rows)
  <2> DEFINE s == all[d]
             goes == SessionsTab!GoesTo(rows, d)
             leaves == s.off /\ (goes # 0 \/ s.moved)
             comes == SessionsTab!CameFrom(rows, d) # {}
             to == comes /\ (~s.off \/ leaves)
             toOff == comes /\ s.off /\ ~leaves
             off == s.off /\ ~leaves /\ ~comes
             where == IF leaves THEN (IF goes # 0 THEN goes ELSE s.to) ELSE 0
             by == IF leaves THEN (IF goes # 0 THEN goes ELSE s.by) ELSE IF comes THEN d ELSE 0
  <2>1. view[d] = [from |-> leaves, to |-> to, toOff |-> toOff, off |-> off,
                   where |-> where, by |-> by]
    BY <1>8 DEF SessionsTab!Shows1
  <2>2. leaves <=> d \in Roots(rows)
    <3>1. CASE d \in Roots(rows)
      <4>1. goes # 0 /\ rows[d].why = "moved" /\ d \in RegularDays
        BY <1>4, <3>1 DEF Roots, SessionsTab!Moved
      <4>2. s.off
        BY <1>1, <4>1
      <4> QED  BY <3>1, <4>1, <4>2
    <3>2. CASE d \notin Roots(rows)
      <4>1. goes = 0
        BY <1>5, <3>2
      <4>2. s.moved => d \in RegularDays /\ rows[d].why = "moved"
        BY <1>1, <1>9
      <4>3. ~s.moved
        BY <1>2, <3>2, <4>2 DEF Roots, SessionsTab!Moved
      <4> QED  BY <3>2, <4>1, <4>3
    <3> QED  BY <3>1, <3>2
  <2>3. comes <=> d \in Occupied(rows)
    <3>1. comes <=> d \in Occupied(rows) \ SessionsTab!Moved(rows)
      BY <1>6
    <3> QED  BY <1>2, <1>9, <3>1
  <2>4. d \in Occupied(rows) => (s.off <=> rows[d].why = "said")
    <3>1. d \in Occupied(rows) => d \notin SessionsTab!Moved(rows) /\ d \in SessionDays
      BY <1>2, <1>9
    <3> QED  BY <1>1, <3>1 DEF SessionsTab!Moved
  <2>5. d \in Occupied(rows) => ~leaves
    BY <1>2, <2>2 DEF Roots
  <2>6. to <=> d \in Occupied(rows) /\ rows[d].why # "said"
    BY <2>3, <2>4, <2>5
  <2>7. toOff <=> d \in Occupied(rows) /\ rows[d].why = "said"
    BY <2>3, <2>4, <2>5
  <2>8. toOff => by = d
    OBVIOUS
  <2>9. leaves => where \in Occupied(rows) \ SessionsTab!Moved(rows)
    BY <1>4, <2>2
  <2>10. /\ view[d].from = leaves /\ view[d].to = to /\ view[d].toOff = toOff
         /\ view[d].where = where /\ view[d].by = by
    <3> HIDE DEF leaves, to, toOff, off, where, by
    <3> QED  BY <2>1
  <2> HIDE DEF leaves, to, toOff, off, where, by
  <2> QED  BY <2>2, <2>6, <2>7, <2>8, <2>9, <2>10
<1> QED  BY <1>8, <1>9 DEF view, all

\* What may be asked of a session the page shows.
LEMMA ViewAllows ==
  ASSUME NEW rows, RowsSound(rows), NEW view,
         view = SessionsTab!Displays(rows, SessionsTab!Sessions(rows)),
         NEW d \in DOMAIN view, ~view[d].from
  PROVE  /\ Present(rows, d) /\ Movable(rows, d)
         /\ ~view[d].to /\ ~view[d].toOff => d \in RegularDays
<1>1. DOMAIN view = RegularDays \cup (Occupied(rows) \ SessionsTab!Moved(rows))
      /\ (view[d].from <=> d \in Roots(rows))
      /\ (view[d].to <=> d \in Occupied(rows) /\ rows[d].why # "said")
      /\ (view[d].toOff <=> d \in Occupied(rows) /\ rows[d].why = "said")
  BY ViewSound
<1>2. d \in SessionDays /\ d \in RegularDays \cup Occupied(rows) /\ d \notin SessionsTab!Moved(rows)
  BY <1>1, DaysSound DEF Roots, Occupied
<1>3. rows[d].why # "moved"
  BY <1>2 DEF SessionsTab!Moved
<1> QED  BY <1>1, <1>2, <1>3 DEF Present, Movable

-----------------------------------------------------------------------------
(* The sessions of a class: what is asked of the server *)

Acts(w) == {q \in w : q.op \notin {"list", "class"}}
Parts == {"dialog", "who", "by", "days", "selected", "busy", "doubt"}

\* What may be asked as long as the rows are as they are, and what an open dialog may ask.
MayAsk(op, p, rows) ==
  /\ op \in {"off", "change"} => p[1] \in RegularDays /\ Present(rows, p[1])
  /\ op = "move" => /\ Movable(rows, p[1])
                    /\ p[2] \in SessionDays \ RegularDays /\ rows[p[2]].why = "none"
  /\ op \in {"bulk_off", "bulk_change", "uncancel"} => Present(rows, p[1])
DialogSound(u, rows) ==
  /\ u.dialog \in {"off", "change"} => u.who \in RegularDays /\ Present(rows, u.who)
  /\ u.dialog = "move" => Movable(rows, u.who)
  /\ u.dialog \in {"bulk_off", "bulk_change"} => \A d \in u.days : Present(rows, d)

\* One request at a time changes rows, and if a dialog is open it is the one that sent it.
ActsSound(w, u, rows) ==
  /\ \A q, r \in Acts(w) : q = r
  /\ \A q \in Acts(w) : u.dialog # "none" =>
       q.op = u.dialog /\ q.op \in u.busy /\ (q.op = "move" => \A p \in q.ids : p[1] = u.who)
  /\ \A q \in Acts(w) : q.status = "sent" => \A p \in q.ids : MayAsk(q.op, p, rows)

Held(rows, w, u) ==
  RowsSound(rows) /\ DOMAIN u = Parts /\ DialogSound(u, rows) /\ ActsSound(w, u, rows)

LEMMA HeldInit ==
  ASSUME SessionsTab!Init  PROVE Held(server, wire, ui)
<1>1. server = SessionsTab!NoRows /\ wire = {} /\ ui = SessionsTab!Idle
  BY DEF SessionsTab!Init
<1>2. server \in SessionsTab!Tables
  <2>1. \A d \in SessionDays :
          SessionsTab!NoRow \in RowSet
    BY RowFields
  <2> QED  BY <1>1, <2>1 DEF SessionsTab!NoRows, SessionsTab!Tables
<1>3. \A d \in SessionDays : server[d].why = "none" /\ server[d].link = 0
  BY <1>1, RowFields DEF SessionsTab!NoRows
<1>4. Occupied(server) = {} /\ SessionsTab!Moved(server) = {}
  BY <1>3 DEF Occupied, SessionsTab!Moved
<1>5. RowsSound(server)
  BY <1>2, <1>3, <1>4, DaysSound DEF RowsSound, LinksSound, NoCircle
<1>6. ui.dialog = "none" /\ DOMAIN ui = Parts
  BY <1>1 DEF SessionsTab!Idle, Parts
<1>7. Acts(wire) = {}
  BY <1>1 DEF Acts
<1> QED  BY <1>5, <1>6, <1>7 DEF Held, DialogSound, ActsSound

\* Nothing new is asked, and the dialog stays as it is or is closed.
LEMMA HeldQuieter ==
  ASSUME Held(server, wire, ui), server' = server, DOMAIN ui' = Parts,
         Acts(wire') \subseteq Acts(wire),
         \/ ui'.dialog = "none"
         \/ /\ ui'.dialog = ui.dialog /\ ui'.who = ui.who /\ ui'.days = ui.days
            /\ Acts(wire') = {} \/ ui'.busy = ui.busy
  PROVE  Held(server', wire', ui')
<1>1. DialogSound(ui', server')
  BY DEF Held, DialogSound
<1>2. ActsSound(wire', ui', server')
  BY DEF Held, ActsSound
<1> QED  BY <1>1, <1>2 DEF Held

\* A dialog is opened while nothing is under way.
LEMMA HeldOpened ==
  ASSUME Held(server, wire, ui), server' = server, wire' = wire, wire = {}, DOMAIN ui' = Parts,
         DialogSound(ui', server)
  PROVE  Held(server', wire', ui')
<1>1. Acts(wire') = {}
  BY DEF Acts
<1> QED  BY <1>1 DEF Held, ActsSound

\* A request is sent: by the open dialog, which has none on the wire, or while none is open.
LEMMA HeldSent ==
  ASSUME Held(server, wire, ui), UNCHANGED <<server, shown>>, NEW f, wire' = wire \cup {f},
         Acts(wire) = {}, \A p \in f.ids : MayAsk(f.op, p, server), DOMAIN ui' = Parts,
         ui'.dialog = ui.dialog, ui'.who = ui.who, ui'.days = ui.days,
         ui.dialog # "none" =>
           /\ f.op = ui.dialog /\ f.op \in ui'.busy
           /\ f.op = "move" => \A p \in f.ids : p[1] = ui.who
  PROVE  Held(server', wire', ui')
<1>1. \A q \in Acts(wire') : q = f
  BY DEF Acts
<1>2. ActsSound(wire', ui', server')
  BY <1>1 DEF ActsSound
<1>3. DialogSound(ui', server')
  BY DEF Held, DialogSound
<1> QED  BY <1>2, <1>3 DEF Held

\* The rows change by what was asked.
LEMMA HeldServed ==
  ASSUME Held(server, wire, ui), NEW q \in Acts(wire), DOMAIN q = Fields,
         wire' = (wire \ {q}) \cup {[q EXCEPT !.status = "done"]}, ui' = ui,
         RowsSound(server'),
         q.op \in {"off", "change", "bulk_off", "bulk_change"} =>
           \A d : Present(server, d) <=> Present(server', d),
         q.op = "move" => \E p \in q.ids : Movable(server', p[1])
  PROVE  Held(server', wire', ui')
<1> DEFINE new == [q EXCEPT !.status = "done"]
<1>1. new.op = q.op /\ new.ids = q.ids /\ new.status = "done"
  BY DEF Fields
<1>2. wire' = (wire \ {q}) \cup {new}
  OBVIOUS
<1> HIDE DEF new
<1>3. \A r \in Acts(wire') : r = new
  BY <1>2 DEF Acts, Held, ActsSound
<1>4. ActsSound(wire', ui', server')
  BY <1>1, <1>3 DEF ActsSound, Held
<1>5. DialogSound(ui', server')
  <2>1. ui.dialog # "none" => q.op = ui.dialog /\ (q.op = "move" => \A p \in q.ids : p[1] = ui.who)
    BY DEF Held, ActsSound
  <2>2. DialogSound(ui, server)
    BY DEF Held
  <2>3. ui.dialog \in {"off", "change"} => ui.who \in RegularDays /\ Present(server', ui.who)
    BY <2>1, <2>2 DEF DialogSound
  <2>4. ui.dialog = "move" => Movable(server', ui.who)
    BY <2>1
  <2>5. ui.dialog \in {"bulk_off", "bulk_change"} => \A d \in ui.days : Present(server', d)
    BY <2>1, <2>2 DEF DialogSound
  <2> QED  BY <2>3, <2>4, <2>5 DEF DialogSound
<1> QED  BY <1>4, <1>5 DEF Held

\* What the server does of a request.
LEMMA HeldServe ==
  ASSUME Held(server, wire, ui), \A q \in wire : DOMAIN q = Fields, NEW q \in wire,
         SessionsTab!Serve(q)
  PROVE  Held(server', wire', ui')
<1>1. \A r, rows : SessionsTab!Served(r, rows) <=>
        /\ r \in SessionsTab!Writes /\ r.status = "sent"
        /\ wire' = (wire \ {r}) \cup {[r EXCEPT !.status = "done"]}
        /\ server' = rows /\ UNCHANGED <<shown, ui>>
  BY DEF SessionsTab!Served, SessionsTab!Becomes
<1>2. \E rows : SessionsTab!Served(q, rows)
  BY Zenon DEF SessionsTab!Serve
<1>3. q \in Acts(wire) /\ q.status = "sent"
  BY <1>1, <1>2 DEF SessionsTab!Serve, Acts
<1>4. RowsSound(server) /\ \A p \in q.ids : MayAsk(q.op, p, server)
  BY <1>3 DEF Held, ActsSound
<1>5. CASE q.op \in {"off", "change"}
  <2>1. PICK p \in q.ids, why \in {"said", "held"} : server' = SessionsTab!PutOne(server, p, why)
    BY <1>1, <1>5 DEF SessionsTab!Serve
  <2>2. p[1] \in RegularDays /\ Present(server, p[1])
    BY <1>4, <1>5, <2>1 DEF MayAsk
  <2> DEFINE new == SessionsTab!PutOne(server, p, why)
  <2>3. RowsSound(new) /\ \A d : Present(server, d) <=> Present(new, d)
    BY <1>4, <2>2, PutOneSound
  <2>4. server' = new
    BY <2>1
  <2> HIDE DEF new
  <2> QED  BY <1>1, <1>2, <1>3, <1>5, <2>3, <2>4, HeldServed
<1>6. CASE q.op = "move"
  <2>1. PICK p \in q.ids : server' = SessionsTab!Move(server, p[1], p[2])
    BY <1>1, <1>6 DEF SessionsTab!Serve
  <2> DEFINE a == p[1]
             b == p[2]
  <2>2. Movable(server, a) /\ b \in SessionDays \ RegularDays /\ server[b].why = "none"
    BY <1>4, <1>6, <2>1 DEF MayAsk
  <2>3. RowsSound(SessionsTab!Move(server, a, b)) /\ Movable(SessionsTab!Move(server, a, b), a)
    <3> HIDE DEF a, b
    <3> QED  BY <1>4, <2>2, MoveSound
  <2> QED  BY <1>1, <1>2, <1>3, <1>6, <2>1, <2>3, HeldServed
<1>7. CASE q.op = "undo"
  <2>1. PICK p \in q.ids : server' = SessionsTab!Undone(server, p[1])
    BY <1>1, <1>7 DEF SessionsTab!Serve
  <2>2. RowsSound(server')
    BY <1>4, <2>1, UndoneSound
  <2> QED  BY <1>1, <1>2, <1>3, <1>7, <2>2, HeldServed
<1>8. CASE q.op = "uncancel"
  <2>1. PICK p \in q.ids : server' = SessionsTab!Uncancelled(server, p[1])
    BY <1>1, <1>8 DEF SessionsTab!Serve
  <2>2. Present(server, p[1])
    BY <1>4, <1>8, <2>1 DEF MayAsk
  <2>3. RowsSound(server')
    BY <1>4, <2>1, <2>2, UncancelledSound
  <2> QED  BY <1>1, <1>2, <1>3, <1>8, <2>3, HeldServed
<1>9. CASE q.op \in {"bulk_off", "bulk_change"}
  <2>1. PICK some \in SUBSET q.ids, why \in {"said", "held"} :
          server' = SessionsTab!PutAll(server, {p[1] : p \in some}, why)
    BY <1>1, <1>9 DEF SessionsTab!Serve
  <2> DEFINE ds == {p[1] : p \in some}
             new == SessionsTab!PutAll(server, ds, why)
  <2>2. \A d \in ds : Present(server, d)
    BY <1>4, <1>9, <2>1 DEF MayAsk
  <2>3. server' = new
    BY <2>1
  <2> HIDE DEF ds
  <2>4. RowsSound(new) /\ \A d : Present(server, d) <=> Present(new, d)
    BY <1>4, <2>2, PutSound
  <2> HIDE DEF new
  <2> QED  BY <1>1, <1>2, <1>3, <1>9, <2>3, <2>4, HeldServed
<1> QED  BY <1>5, <1>6, <1>7, <1>8, <1>9 DEF SessionsTab!Serve

\* What the page has when nothing is under way is what there is, so that what it shows tells what
\* may be asked.
LEMMA ShownAllows ==
  ASSUME SessionsKept, RowsSound(server), wire = {}, ~ui.doubt, NEW d \in SessionsTab!Listed
  PROVE  /\ ~SessionsTab!View[d].from \/ SessionsTab!View[d].to \/ SessionsTab!View[d].toOff =>
              Present(server, d) /\ Movable(server, d)
         /\ SessionsTab!Plain(d) => d \in RegularDays
         /\ SessionsTab!View[d].toOff => SessionsTab!View[d].by = d
<1>1. shown.rows = server /\ shown.sessions = SessionsTab!Sessions(server)
  BY DEF SessionsKept, SessionsUpToDate, ClassUpToDate
<1> DEFINE view == SessionsTab!Displays(server, SessionsTab!Sessions(server))
<1>2. SessionsTab!View = view /\ d \in DOMAIN view
  BY <1>1 DEF SessionsTab!View, SessionsTab!Listed
<1>3. /\ view[d].from <=> d \in Roots(server)
      /\ view[d].to <=> d \in Occupied(server) /\ server[d].why # "said"
      /\ view[d].toOff <=> d \in Occupied(server) /\ server[d].why = "said"
      /\ view[d].toOff => view[d].by = d
  BY <1>2, ViewSound
<1>4. view[d].to \/ view[d].toOff => ~view[d].from
  BY <1>3 DEF Roots, Occupied
<1>5. ~view[d].from => /\ Present(server, d) /\ Movable(server, d)
                       /\ ~view[d].to /\ ~view[d].toOff => d \in RegularDays
  BY <1>2, ViewAllows
<1> HIDE DEF view
<1> QED  BY <1>2, <1>3, <1>4, <1>5 DEF SessionsTab!Plain

LEMMA HeldStep ==
  ASSUME SessionsKept, Held(server, wire, ui), SessionsTab!Next
  PROVE  Held(server', wire', ui')
<1>0. /\ DOMAIN ui = Parts /\ \A q \in wire : DOMAIN q = Fields
      /\ RowsSound(server) /\ DialogSound(ui, server) /\ ActsSound(wire, ui, server)
  BY DEF Held, SessionsKept, SessionsTyped
<1>1. SessionsTab!Ready <=> wire = {} /\ ~ui.doubt
  BY DEF SessionsTab!Ready
<1>2. CASE \/ SessionsTab!ClearSelection \/ SessionsTab!Close
           \/ \E d \in SessionDays : SessionsTab!Toggle(d)
  <2>1. /\ server' = server /\ wire' = wire /\ DOMAIN ui' = Parts /\ ui'.busy = ui.busy
        /\ \/ ui'.dialog = "none"
           \/ ui'.dialog = ui.dialog /\ ui'.who = ui.who /\ ui'.days = ui.days
    BY <1>0, <1>2 DEF SessionsTab!ClearSelection, SessionsTab!Close, SessionsTab!Toggle,
       SessionsTab!Shows, Parts
  <2> QED  BY <2>1, HeldQuieter
\* A dialog is opened for what is shown.
<1>3. ASSUME NEW op \in {"off", "change"}, NEW d \in SessionDays, SessionsTab!OpenOne(op, d)
      PROVE  Held(server', wire', ui')
  <2>1. /\ server' = server /\ wire' = wire /\ wire = {} /\ ~ui.doubt /\ SessionsTab!Plain(d)
        /\ DOMAIN ui' = Parts /\ ui'.dialog = op /\ ui'.who = d
    BY <1>0, <1>1, <1>3 DEF SessionsTab!OpenOne, SessionsTab!Calm, SessionsTab!Shows, Parts
  <2>2. d \in RegularDays /\ Present(server, d)
    BY <1>0, <2>1, ShownAllows DEF SessionsTab!Plain
  <2>3. DialogSound(ui', server)
    BY <2>1, <2>2 DEF DialogSound
  <2> QED  BY <2>1, <2>3, HeldOpened
<1>4. ASSUME NEW d \in SessionDays, SessionsTab!OpenMove(d)  PROVE Held(server', wire', ui')
  <2>1. /\ server' = server /\ wire' = wire /\ wire = {} /\ ~ui.doubt
        /\ SessionsTab!Plain(d) \/ (d \in SessionsTab!Listed /\ SessionsTab!View[d].to)
        /\ DOMAIN ui' = Parts /\ ui'.dialog = "move" /\ ui'.who = d
    BY <1>0, <1>1, <1>4 DEF SessionsTab!OpenMove, SessionsTab!Calm, SessionsTab!Shows, Parts
  <2>2. Movable(server, d)
    BY <1>0, <2>1, ShownAllows DEF SessionsTab!Plain
  <2>3. DialogSound(ui', server)
    BY <2>1, <2>2 DEF DialogSound
  <2> QED  BY <2>1, <2>3, HeldOpened
<1>5. ASSUME NEW op \in {"bulk_off", "bulk_change"}, SessionsTab!OpenBulk(op)
      PROVE  Held(server', wire', ui')
  <2>1. /\ server' = server /\ wire' = wire /\ wire = {} /\ ~ui.doubt
        /\ DOMAIN ui' = Parts /\ ui'.dialog = op /\ ui'.days = SessionsTab!Chosen
    BY <1>0, <1>1, <1>5 DEF SessionsTab!OpenBulk, SessionsTab!Calm, SessionsTab!Shows, Parts
  <2>2. \A d \in SessionsTab!Chosen : d \in SessionsTab!Listed /\ ~SessionsTab!View[d].from
    BY DEF SessionsTab!Chosen, SessionsTab!Selectable
  <2>3. \A d \in ui'.days : Present(server, d)
    BY <1>0, <2>1, <2>2, ShownAllows
  <2>4. DialogSound(ui', server)
    BY <2>1, <2>3 DEF DialogSound
  <2> QED  BY <2>1, <2>4, HeldOpened
\* A dialog sends.
<1>6. ASSUME NEW op, NEW ids, op # "none", op \notin {"list", "class"}, ui.dialog = op,
             SessionsTab!Send(op, ids),
             \A p \in ids : MayAsk(op, p, server) /\ (op = "move" => p[1] = ui.who)
      PROVE  Held(server', wire', ui')
  <2> DEFINE f == SessionsTab!Request(op, ids)
  <2>1. f.op = op /\ f.ids = ids
    BY DEF SessionsTab!Request
  <2>2. /\ UNCHANGED <<server, shown>> /\ wire' = wire \cup {f} /\ op \notin ui.busy
        /\ DOMAIN ui' = Parts /\ ui'.dialog = ui.dialog /\ ui'.who = ui.who /\ ui'.days = ui.days
        /\ op \in ui'.busy
    BY <1>0, <1>6 DEF SessionsTab!Send, SessionsTab!Submitted, Parts
  <2> HIDE DEF f
  <2>3. Acts(wire) = {}
    BY <1>0, <1>6, <2>2 DEF ActsSound
  <2> QED  BY <1>6, <2>1, <2>2, <2>3, HeldSent
<1>7. CASE SessionsTab!Cancel \/ SessionsTab!Change
  <2>1. PICK op \in {"off", "change"}, n \in {0, 1} :
          ui.dialog = op /\ SessionsTab!Send(op, {<<ui.who, n>>})
    BY <1>7 DEF SessionsTab!Cancel, SessionsTab!Change, SessionsTab!One
  <2>2. MayAsk(op, <<ui.who, n>>, server)
    BY <1>0, <2>1 DEF DialogSound, MayAsk
  <2> QED  BY <1>6, <2>1, <2>2
<1>8. ASSUME NEW b \in SessionDays, SessionsTab!Reschedule(b)  PROVE Held(server', wire', ui')
  <2>1. /\ ui.dialog = "move" /\ SessionsTab!Send("move", {<<ui.who, b>>})
        /\ b \notin RegularDays /\ server[b] = SessionsTab!NoRow
    BY <1>8 DEF SessionsTab!Reschedule, SessionsTab!MayMoveTo
  <2>2. MayAsk("move", <<ui.who, b>>, server)
    BY <1>0, <2>1, RowFields DEF DialogSound, MayAsk
  <2> QED  BY <1>6, <2>1, <2>2
<1>9. CASE SessionsTab!BulkCancel \/ SessionsTab!BulkChange
  <2>1. PICK op \in {"bulk_off", "bulk_change"} :
          ui.dialog = op /\ SessionsTab!Send(op, {<<d, 0>> : d \in ui.days})
    BY <1>9 DEF SessionsTab!BulkCancel, SessionsTab!BulkChange, SessionsTab!Bulk
  <2>2. \A p \in {<<d, 0>> : d \in ui.days} : MayAsk(op, p, server)
    BY <1>0, <2>1 DEF DialogSound, MayAsk
  <2> QED  BY <1>6, <2>1, <2>2
\* A button sends while no dialog is open.
<1>10. ASSUME NEW op \in {"undo", "uncancel"}, NEW n, SessionsTab!Calm,
              SessionsTab!SendFreely(op, {<<n, 0>>}),
              op = "uncancel" => Present(server, n)
       PROVE  Held(server', wire', ui')
  <2> DEFINE f == SessionsTab!Request(op, {<<n, 0>>})
  <2>1. f.op = op /\ f.ids = {<<n, 0>>}
    BY DEF SessionsTab!Request
  <2>2. /\ UNCHANGED <<server, shown>> /\ wire' = wire \cup {f} /\ ui' = ui
        /\ ui.dialog = "none" /\ wire = {}
    BY <1>1, <1>10 DEF SessionsTab!SendFreely, SessionsTab!Calm
  <2> HIDE DEF f
  <2>3. Acts(wire) = {}
    BY <2>2 DEF Acts
  <2>4. \A p \in f.ids : MayAsk(f.op, p, server)
    BY <1>10, <2>1 DEF MayAsk
  <2> QED  BY <1>0, <2>2, <2>3, <2>4, HeldSent
<1>11. ASSUME NEW d \in SessionDays, SessionsTab!Undo(d) \/ SessionsTab!UndoCancel(d)
       PROVE  Held(server', wire', ui')
  <2>1. CASE SessionsTab!Undo(d)
    BY <1>10, <2>1 DEF SessionsTab!Undo
  <2>2. CASE SessionsTab!UndoCancel(d)
    <3>1. /\ SessionsTab!Calm /\ d \in SessionsTab!Listed /\ SessionsTab!View[d].toOff
          /\ SessionsTab!SendFreely("uncancel", {<<SessionsTab!View[d].by, 0>>})
      BY <2>2 DEF SessionsTab!UndoCancel
    <3>2. SessionsTab!View[d].by = d /\ Present(server, d)
      BY <1>0, <1>1, <3>1, ShownAllows DEF SessionsTab!Calm
    <3> QED  BY <1>10, <3>1, <3>2
  <2> QED  BY <1>11, <2>1, <2>2
\* The page is opened again, or it fetches.
<1>12. CASE SessionsTab!Reload
  <2>1. server' = server /\ wire' = {SessionsTab!Fetch} /\ ui'.dialog = "none" /\ DOMAIN ui' = Parts
    BY <1>12 DEF SessionsTab!Reload, SessionsTab!Idle, Parts
  <2>2. Acts(wire') = {}
    BY <2>1 DEF Acts, SessionsTab!Fetch
  <2> QED  BY <2>1, <2>2, HeldQuieter
<1>13. CASE \/ SessionsTab!Read \/ SessionsTab!SessionsArrive \/ SessionsTab!SessionsLost
            \/ SessionsTab!ClassArrives \/ SessionsTab!ClassLost
  <2>1. /\ server' = server /\ DOMAIN ui' = Parts /\ ui'.dialog = ui.dialog /\ ui'.who = ui.who
        /\ ui'.days = ui.days /\ ui'.busy = ui.busy
    BY <1>0, <1>13
       DEF SessionsTab!Read, SessionsTab!SessionsArrive, SessionsTab!SessionsLost,
           SessionsTab!ClassArrives, SessionsTab!ClassLost, Parts
  <2>2. SessionsTab!ClassFetch.op = "class"
    BY DEF SessionsTab!ClassFetch, SessionsTab!Fetch
  <2>3. Acts(wire') \subseteq Acts(wire)
    <3>1. CASE SessionsTab!Read
      <4>1. PICK q \in wire :
              /\ q.op \in {"list", "class"}
              /\ wire' = (wire \ {q}) \cup {[q EXCEPT !.status = "done", !.rows = server]}
        BY <3>1 DEF SessionsTab!Read
      <4>2. [q EXCEPT !.status = "done", !.rows = server].op = q.op
        BY <1>0 DEF Fields
      <4> QED  BY <4>1, <4>2 DEF Acts
    <3>2. CASE SessionsTab!SessionsArrive \/ SessionsTab!SessionsLost
      <4>1. PICK q \in wire : wire' = SessionsTab!Fetching(wire \ {q})
        BY <3>2 DEF SessionsTab!SessionsArrive, SessionsTab!SessionsLost, SessionsTab!Pending
      <4> QED  BY <2>2, <4>1 DEF SessionsTab!Fetching, Acts
    <3>3. CASE SessionsTab!ClassArrives \/ SessionsTab!ClassLost
      BY <3>3 DEF SessionsTab!ClassArrives, SessionsTab!ClassLost, SessionsTab!Pending, Acts
    <3> QED  BY <1>13, <3>1, <3>2, <3>3
  <2> QED  BY <2>1, <2>3, HeldQuieter
<1>14. ASSUME NEW q \in wire, SessionsTab!Serve(q)  PROVE Held(server', wire', ui')
  BY <1>0, <1>14, HeldServe
\* A request is answered: there is none then, and the dialog that sent it is closed or still open.
<1>15. ASSUME NEW q \in wire, q \in Acts(wire), server' = server, DOMAIN ui' = Parts,
              \/ ui'.dialog = "none"
              \/ ui'.dialog = ui.dialog /\ ui'.who = ui.who /\ ui'.days = ui.days,
              wire' = wire \ {q} \/ wire' = SessionsTab!Refetch(wire \ {q})
       PROVE  Held(server', wire', ui')
  <2>1. Acts(wire') = {}
    BY <1>0, <1>15 DEF ActsSound, Acts, SessionsTab!Refetch, SessionsTab!Fetch
  <2> QED  BY <1>15, <2>1, HeldQuieter
<1>16. ASSUME NEW q \in wire, SessionsTab!Succeeds(q) \/ SessionsTab!Ends(q)
       PROVE  Held(server', wire', ui')
  <2>1. q \in Acts(wire)
    BY <1>16 DEF SessionsTab!Succeeds, SessionsTab!Ends, Acts
  <2>2. ASSUME NEW op
        PROVE  /\ DOMAIN SessionsTab!Without(op) = Parts
               /\ \/ SessionsTab!Without(op).dialog = "none"
                  \/ /\ SessionsTab!Without(op).dialog = ui.dialog
                     /\ SessionsTab!Without(op).who = ui.who
                     /\ SessionsTab!Without(op).days = ui.days
    BY <1>0 DEF SessionsTab!Without, SessionsTab!Closed, Parts
  <2>3. PICK op :
          \/ SessionsTab!SettlesAndFetches(q, ui)
          \/ SessionsTab!SettlesAndFetches(q, SessionsTab!Without(op))
          \/ SessionsTab!SettlesAndFetches(q, [SessionsTab!Without(op) EXCEPT !.selected = {}])
    BY <1>16 DEF SessionsTab!Succeeds, SessionsTab!Ends
  <2>4. ASSUME NEW u, SessionsTab!SettlesAndFetches(q, u), DOMAIN u = Parts
        PROVE  /\ server' = server /\ wire' = SessionsTab!Refetch(wire \ {q}) /\ DOMAIN ui' = Parts
               /\ ui'.dialog = u.dialog /\ ui'.who = u.who /\ ui'.days = u.days
    BY <2>4 DEF SessionsTab!SettlesAndFetches, SessionsTab!Doubtless, Parts
  <2> DEFINE left == SessionsTab!Without(op)
             bare == [SessionsTab!Without(op) EXCEPT !.selected = {}]
  <2>5. /\ DOMAIN bare = Parts /\ bare.dialog = left.dialog
        /\ bare.who = left.who /\ bare.days = left.days
    BY <2>2 DEF Parts
  <2> HIDE DEF left, bare
  <2>6. /\ server' = server /\ wire' = SessionsTab!Refetch(wire \ {q}) /\ DOMAIN ui' = Parts
        /\ \/ ui'.dialog = "none"
           \/ ui'.dialog = ui.dialog /\ ui'.who = ui.who /\ ui'.days = ui.days
    <3>1. CASE SessionsTab!SettlesAndFetches(q, ui)
      BY <1>0, <2>4, <3>1
    <3>2. CASE SessionsTab!SettlesAndFetches(q, left) \/ SessionsTab!SettlesAndFetches(q, bare)
      BY <2>2, <2>4, <2>5, <3>2 DEF left
    <3> QED  BY <2>3, <3>1, <3>2 DEF left, bare
  <2> QED  BY <1>15, <2>1, <2>6
<1>17. ASSUME NEW q \in wire, SessionsTab!FailsHere(q)  PROVE Held(server', wire', ui')
  <2>1. /\ q \in Acts(wire) /\ server' = server /\ wire' = wire \ {q} /\ DOMAIN ui' = Parts
        /\ ui'.dialog = ui.dialog /\ ui'.who = ui.who /\ ui'.days = ui.days
    BY <1>0, <1>17 DEF SessionsTab!FailsHere, SessionsTab!Fails, Acts, Parts
  <2> QED  BY <1>15, <2>1
<1> QED
  BY <1>2, <1>3, <1>4, <1>5, <1>7, <1>8, <1>9, <1>11, <1>12, <1>13, <1>14, <1>16, <1>17
     DEF SessionsTab!Next

\* What the sessions tab promises.
LEMMA HeldPromises ==
  ASSUME SessionsKept, Held(server, wire, ui)
  PROVE  SessionsTab!NoneLostOrDoubled /\ SessionsTab!MovedShowsWhere
<1>1. RowsSound(server)
  BY DEF Held
<1>2. SessionsTab!NoneLostOrDoubled
  <2>1. \A S : SessionsTab!Cardinality(S) = Cardinality(S)
    BY DEF SessionsTab!Cardinality, Cardinality
  <2> DEFINE all == SessionsTab!Sessions(server)
             there == {d \in DOMAIN all : ~all[d].off \/ server[d].why = "said"}
  <2>2. Cardinality(there) = Cardinality(RegularDays)
    BY <1>1, CountSound
  <2>3. SessionsTab!NoneLostOrDoubled
          <=> SessionsTab!Cardinality(there) = SessionsTab!Cardinality(RegularDays)
    BY DEF SessionsTab!NoneLostOrDoubled
  <2> HIDE DEF there
  <2> QED  BY <2>1, <2>2, <2>3
<1>3. SessionsTab!MovedShowsWhere
  <2> SUFFICES ASSUME wire = {}, ~ui.doubt, NEW d \in SessionsTab!Listed, SessionsTab!View[d].from
               PROVE  /\ SessionsTab!View[d].where \in SessionsTab!Listed
                      /\ \/ SessionsTab!View[SessionsTab!View[d].where].to
                         \/ SessionsTab!View[SessionsTab!View[d].where].toOff
    BY DEF SessionsTab!MovedShowsWhere
  <2> DEFINE view == SessionsTab!Displays(server, SessionsTab!Sessions(server))
             e == view[d].where
  <2>1. shown.rows = server /\ shown.sessions = SessionsTab!Sessions(server)
    BY DEF SessionsKept, SessionsUpToDate, ClassUpToDate
  <2>2. SessionsTab!View = view /\ SessionsTab!Listed = DOMAIN view
    BY <2>1 DEF SessionsTab!View, SessionsTab!Listed
  <2>3. DOMAIN view = RegularDays \cup (Occupied(server) \ SessionsTab!Moved(server))
        /\ \A x \in DOMAIN view :
             /\ view[x].to <=> x \in Occupied(server) /\ server[x].why # "said"
             /\ view[x].toOff <=> x \in Occupied(server) /\ server[x].why = "said"
             /\ view[x].from => view[x].where \in Occupied(server) \ SessionsTab!Moved(server)
    BY <1>1, ViewSound
  <2> HIDE DEF view
  <2>4. e \in Occupied(server) \ SessionsTab!Moved(server) /\ e \in DOMAIN view
    BY <2>2, <2>3
  <2> HIDE DEF e
  <2>5. view[e].to \/ view[e].toOff
    BY <2>3, <2>4
  <2> QED  BY <2>2, <2>4, <2>5 DEF e
<1> QED  BY <1>2, <1>3

-----------------------------------------------------------------------------
(* The theorems *)

LEMMA SchedulePages ==
  ASSUME Next
  PROVE  /\ page' = page
         /\ page = "form" => Form!Next
         /\ page = "class" => Class!Next
         /\ page = "sessions" => SessionsTab!Next
         /\ page = "schedule" => Calendar!Next
  BY DEF Next

\* The rules hold whatever is typed, opened, fetched and saved in whichever order.
RulesInv == On("form", FormSound) /\ On("class", ScheduleSound)

LEMMA RulesInvStep ==
  ASSUME RulesInv, [Next]_vars  PROVE RulesInv'
<1>1. CASE Next
  <2>1. page' = page
    BY <1>1, SchedulePages
  <2>2. ASSUME page = "form"  PROVE FormSound'
    BY <1>1, <2>2, SchedulePages, FormSoundStep DEF RulesInv, On
  <2>3. ASSUME page = "class"  PROVE ScheduleSound'
    BY <1>1, <2>3, SchedulePages, ScheduleSoundStep DEF RulesInv, On
  <2> QED  BY <2>1, <2>2, <2>3 DEF RulesInv, On
<1>2. CASE UNCHANGED vars
  <2>1. page' = page /\ server' = server /\ shown' = shown /\ wire' = wire /\ ui' = ui
    BY <1>2 DEF vars, screen
  <2>2. FormSound => FormSound'
    BY <2>1 DEF FormSound, WireTyped
  <2>3. ScheduleSound => ScheduleSound'
    BY <2>1 DEF ScheduleSound
  <2> QED  BY <2>1, <2>2, <2>3 DEF RulesInv, On
<1> QED  BY <1>1, <1>2

\* The rule sent for a new class stands for the dates the form asks for, whatever it was filled
\* with, and its room is one the list has (buildRRule, the room select); saving a class whose
\* schedule was not touched leaves its dates as they were (EditClassForm), as far as the property
\* says.
THEOREM RulesStandForDates == Spec => []ScheduleAsMeant
<1>1. Init => RulesInv
  BY FormSoundInit, ScheduleSoundInit DEF Init, RulesInv, On
<1>2. RulesInv /\ [Next]_vars => RulesInv'
  BY RulesInvStep
<1>3. ASSUME RulesInv  PROVE ScheduleAsMeant
  <2>1. ASSUME FormSound  PROVE Form!CreatedAsAsked /\ Form!RoomIsListed
    BY <2>1 DEF FormSound, Form!CreatedAsAsked, Form!RoomIsListed, Form!Pending
  <2>2. ASSUME ScheduleSound  PROVE Class!PlainStays
    BY <2>2 DEF ScheduleSound, AnswersSound, SaveSound, Class!PlainStays, Class!Pending,
       Class!Untouched, Class!SameDates
  <2> QED  BY <1>3, <2>1, <2>2 DEF RulesInv, ScheduleAsMeant, On
<1> QED  BY <1>1, <1>2, <1>3, PTL DEF Spec

\* What makes the sessions of a class stay: the links between their rows, and a page that shows
\* them as they are whenever something may be asked.
LinksInv == On("sessions", SessionsKept /\ Held(server, wire, ui))

LEMMA LinksInvInit ==
  ASSUME Init  PROVE LinksInv
  BY SessionsKeptInit, HeldInit DEF Init, LinksInv, On

LEMMA LinksInvStep ==
  ASSUME LinksInv, [Next]_vars  PROVE LinksInv'
<1>1. CASE Next
  <2>1. page' = page
    BY <1>1, SchedulePages
  <2>2. ASSUME page = "sessions"  PROVE SessionsKept' /\ Held(server, wire, ui)'
    <3>1. SessionsTab!Next /\ SessionsKept /\ Held(server, wire, ui)
      BY <1>1, <2>2, SchedulePages DEF LinksInv, On
    <3>2. Held(server', wire', ui')
      BY <3>1, HeldStep
    <3>3. SessionsKept'
      BY <3>1, SessionsKeptStep, SessionsAgain
    <3> QED  BY <3>2, <3>3
  <2> QED  BY <2>1, <2>2 DEF LinksInv, On
<1>2. CASE UNCHANGED vars
  <2>1. page' = page /\ UNCHANGED screen
    BY <1>2 DEF vars
  <2>2. server' = server /\ wire' = wire /\ ui' = ui
    BY <2>1 DEF screen
  <2>3. Held(server, wire, ui) => Held(server', wire', ui')
    BY <2>2
  <2>4. SessionsKept => SessionsKept'
    BY <2>1, SessionsStutters
  <2> QED  BY <2>1, <2>3, <2>4 DEF LinksInv, On
<1> QED  BY <1>1, <1>2

\* However often the sessions of a class are moved, cancelled, changed and restored, alone or
\* several at once, and whichever answers are lost: as many are held or cancelled as the class has,
\* and one shown as moved shows where it went (buildRescheduleMaps, the override handlers).
THEOREM SessionsAreNeverLost ==
  Spec => [](On("sessions", SessionsTab!NoneLostOrDoubled /\ SessionsTab!MovedShowsWhere))
<1> DEFINE Promised == On("sessions", SessionsTab!NoneLostOrDoubled /\ SessionsTab!MovedShowsWhere)
<1>1. Init => LinksInv
  BY LinksInvInit
<1>2. LinksInv /\ [Next]_vars => LinksInv'
  BY LinksInvStep
<1>3. LinksInv => Promised
  BY HeldPromises DEF LinksInv, On
<1> HIDE DEF Promised
<1>4. Spec => []Promised
  BY <1>1, <1>2, <1>3, PTL DEF Spec
<1> QED  BY <1>4 DEF Promised

\* And if no session of the calendar is on the day after a regular one, every day the class meets
\* belongs to a series, by which it is held or cancelled, whatever is done to it alone or to it and
\* all that follow.
THEOREM NoSessionIsLost ==
  ASSUME DaysApart  PROVE Spec => []NoSessionLost
<1> DEFINE Inv == LinksInv /\ On("schedule", CalendarSound)
<1>1. Init => Inv
  BY LinksInvInit, CalendarSoundInit DEF Init, On
<1>2. Inv /\ [Next]_vars => Inv'
  <2> SUFFICES ASSUME Inv, [Next]_vars  PROVE Inv'
    OBVIOUS
  <2>1. LinksInv'
    BY LinksInvStep
  <2>2. CASE Next
    <3>1. page' = page
      BY <2>2, SchedulePages
    <3>2. ASSUME page = "schedule"  PROVE CalendarSound'
      BY <2>2, <3>2, SchedulePages, CalendarSoundStep DEF On
    <3> QED  BY <2>1, <3>1, <3>2 DEF On
  <2>3. CASE UNCHANGED vars
    <3>1. page' = page /\ server' = server /\ shown' = shown /\ wire' = wire /\ ui' = ui
      BY <2>3 DEF vars, screen
    <3>2. CalendarSound => CalendarSound'
      BY <3>1 DEF CalendarSound
    <3> QED  BY <2>1, <3>1, <3>2 DEF On
  <2> QED  BY <2>2, <2>3
<1>3. Inv => NoSessionLost
  <2>1. LinksInv => On("sessions", SessionsTab!NoneLostOrDoubled /\ SessionsTab!MovedShowsWhere)
    BY HeldPromises DEF LinksInv, On
  <2>2. CalendarSound => Calendar!EveryDayKept
    BY DEF CalendarSound, Kept1, Calendar!EveryDayKept
  <2> QED  BY <2>1, <2>2 DEF NoSessionLost, On
<1> HIDE DEF Inv
<1> QED  BY <1>1, <1>2, <1>3, PTL DEF Spec
=============================================================================

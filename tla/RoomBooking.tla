------------------------------ MODULE RoomBooking ------------------------------
(******************************************************************************)
(* Which class meets in which room, with which instructor, on which date: the  *)
(* event series of the classes, the single-date overrides, and the handlers    *)
(* that look for conflicts before they write.                                  *)
(*                                                                             *)
(* Creating a class and editing one lock the room row and then the instructor  *)
(* row (SELECT ... FOR UPDATE), check, write and commit.  The other handlers   *)
(* check without a lock, check the room only, or do not check.  A foreign key  *)
(* that is written takes a key-share lock on the row it names until the commit *)
(* and waits while another transaction holds that row FOR UPDATE, and the      *)
(* other way round.  Instructors are administrators: the keys that say who     *)
(* wrote (create_user_id, update_user_id, change_log_entries.user_id) name a   *)
(* row of the same table.  Postgres ends one transaction of a deadlock.        *)
(*                                                                             *)
(* Time is abstracted: all classes meet at the same hour, a series meets on    *)
(* every date from DTSTART to UNTIL, and all dates lie within the year that a  *)
(* conflict check looks at.                                                    *)
(******************************************************************************)
EXTENDS Integers, FiniteSets

CONSTANTS Classes, Rooms,
          Instructors,        \* administrators that classes are given to
          Admins,             \* administrators that send requests, one at a time
          MaxEvents,          \* bound: program_class_events rows
          Horizon,            \* bound: the dates are 1 .. Horizon
          Handlers,           \* the kinds of request administrators send
          OneEditorPerClass,  \* TRUE: no two requests on one class at a time
          None,               \* a null column, a lock nobody holds
          Keep                \* a field the request body leaves alone

HandlerNames ==
    {"create", "edit", "instructor", "unassign", "schedule", "add", "reschedule",
     "cancelSeries", "uncancelSeries", "override", "cancelDate", "changeDate",
     "deleteOverride", "uncancelOverride"}

ASSUME BoundsAssumption == MaxEvents \in Nat \ {0} /\ Horizon \in Nat \ {0}
ASSUME HandlersAssumption == Handlers \subseteq HandlerNames /\ OneEditorPerClass \in BOOLEAN
ASSUME ResourcesAssumption == Rooms \cap (Instructors \cup Admins) = {}
ASSUME NoneAssumption ==
    None \notin Rooms \cup Instructors \cup Classes \cup Admins \cup (Nat \X Nat)
ASSUME KeepAssumption == Keep \notin Rooms \cup Instructors \cup {None} \cup (Nat \X Nat)

VARIABLES event,     \* event[e]: the program_class_events row e
          override,  \* override[e][d]: the override of event e on date d
          holder,    \* holder[x]: the request that holds row x FOR UPDATE
          request    \* request[a]: what administrator request a works on

vars == <<event, override, holder, request>>

Resources == Rooms \cup Instructors
Dates == 1 .. Horizon
Events == 1 .. MaxEvents

NoEvent == [class |-> None, room |-> None, instructor |-> None,
            first |-> 1, last |-> 0, cancelled |-> FALSE]
NoOverride == [kind |-> "None", room |-> None, instructor |-> None]
NoOverrides == [d \in Dates |-> NoOverride]

--------------------------------------------------------------------------------
(* What is booked *)

EffectiveRoom(e, d) ==
    IF override[e][d].room = None THEN event[e].room ELSE override[e][d].room
EffectiveInstructor(e, d) ==
    IF override[e][d].instructor = None THEN event[e].instructor ELSE override[e][d].instructor

\* Mutant of ByRule: the dates of a cancelled series are free.
ByRuleM(e, d) ==
    /\ ~event[e].cancelled
    /\ d \in event[e].first .. event[e].last /\ override[e][d].kind = "None"

\* The series meets on d by its rule: no override of d, cancelled or not.
ByRule(e, d) == d \in event[e].first .. event[e].last /\ override[e][d].kind = "None"

\* What a conflict check believes event e takes of room r: is_cancelled is not read.
RoomBooked(e, r, d) ==
    \/ ByRule(e, d) /\ event[e].room = r
    \/ override[e][d].kind = "Held" /\ EffectiveRoom(e, d) = r

InstructorBooked(e, i, d) ==
    \/ ByRule(e, d) /\ event[e].instructor = i
    \/ override[e][d].kind = "Held" /\ EffectiveInstructor(e, d) = i

\* What the calendar shows: event e takes place on d and needs room or instructor x.
Uses(e, x, d) ==
    \/ ByRule(e, d) /\ ~event[e].cancelled /\ x \in {event[e].room, event[e].instructor}
    \/ override[e][d].kind = "Held" /\ x \in {EffectiveRoom(e, d), EffectiveInstructor(e, d)}

BookedBy(c) == {p \in Resources \X Dates : \E e \in Events : event[e].class = c
                                                             /\ Uses(e, p[1], p[2])}

--------------------------------------------------------------------------------
(* Requests *)

\* shares: the rows on which the request has taken a key-share lock
Idle == [step |-> "Idle", shares |-> {}]
Become(a, state) == request' = [request EXCEPT ![a] = state]
Release(a) == [x \in Resources |-> IF holder[x] = a THEN None ELSE holder[x]]
Finish(a) == Become(a, Idle) /\ holder' = Release(a)

Busy(a) == request[a].step # "Idle"
WorkingOn(c) == {a \in Admins : Busy(a) /\ request[a].class = c}
MayStart(a, kind, c) ==
    /\ kind \in Handlers /\ ~Busy(a)
    /\ OneEditorPerClass => WorkingOn(c) = {}
    /\ \A b \in WorkingOn(c) : request[b].kind # "create"    \* c does not exist yet

\* The id of a deleted row is not given out again: e is free for a new row only if no
\* request has an id in hand that was e's.
Remembers(a, e) == Busy(a) /\ (request[a].event = e \/ request[a].read[e] # None)
Free(e) == event[e].class = None /\ \A b \in Admins : ~Remembers(b, e)

\* The bound MaxEvents: a request that inserts starts only if a row will be left.
Inserting(kind) == kind \in {"create", "add", "reschedule", "cancelSeries", "uncancelSeries"}
RowLeft == Cardinality({b \in Admins : Busy(b) /\ Inserting(request[b].kind)})
             < Cardinality({e \in Events : Free(e)})

\* Whether request bodies name an instructor, or none, where they may leave it alone.
InstructorChoice == (IF "instructor" \in Handlers THEN Instructors ELSE {})
                    \cup (IF "unassign" \in Handlers THEN {None} ELSE {})

\* Whether a write names its sender's own users row, and when: "first" by create_user_id
\* or update_user_id, which come before room and instructor in the foreign keys,
\* "last" by the change log alone (update_user_id is checked only if it changes).
\* Nobody locks the row of an administrator who does not teach.
Signs(a, when) == IF a \in Instructors THEN when ELSE {"never"}

\* What a handler that changes series knows of the rows it is going to write
NothingRead == [e \in Events |-> None]
Reading(q) == [e \in Events |->
    IF event[e].class = q.class /\ (q.kind = "uncancelSeries" => e = q.event)
    THEN <<event[e].first, event[e].last>> ELSE None]

\* Only an edit reads twice, and may leave the room or the instructor alone.
Request ==
    {q \in [step : {"EditRead", "Check", "Read", "Write"},
            kind : Handlers, class : Classes, event : Events \cup {None},
            room : Rooms \cup {None, Keep}, instructor : Instructors \cup {None, Keep},
            first : Dates, last : 0 .. Horizon,
            checkRoom : Rooms \cup {None}, checkInstructor : Instructors \cup {None},
            span : (Dates \X Dates) \cup {Keep},
            read : [Events -> (Dates \X (0 .. Horizon)) \cup {None}],
            signs : {"never", "first", "last"}, shares : SUBSET Resources] :
        q.kind = "edit" \/ (q.step # "EditRead" /\ Keep \notin {q.room, q.instructor})}

TypeOK ==
    /\ event \in [Events -> [class : Classes \cup {None}, room : Rooms \cup {None},
                             instructor : Instructors \cup {None}, first : Dates,
                             last : 0 .. Horizon, cancelled : BOOLEAN]]
    /\ override \in [Events -> [Dates -> [kind : {"None", "Cancelled", "Held"},
                                          room : Rooms \cup {None},
                                          instructor : Instructors \cup {None}]]]
    /\ holder \in [Resources -> Admins \cup {None}]
    /\ request \in [Admins -> Request \cup {Idle}]

Init ==
    /\ event = [e \in Events |-> NoEvent]
    /\ override = [e \in Events |-> NoOverrides]
    /\ holder = [x \in Resources |-> None]
    /\ request = [a \in Admins |-> Idle]

--------------------------------------------------------------------------------
(* The handlers read, and build the request a conflict check will see *)

\* handleCreateClass: the handler requires the instructor, the room_id column the room.
CreateStart(a, c, room, i, f, l) ==
    /\ MayStart(a, "create", c) /\ RowLeft
    /\ WorkingOn(c) = {} /\ \A e \in Events : event[e].class # c
    /\ \E s \in Signs(a, {"first"}) :
          Become(a, [step |-> "Check", kind |-> "create", class |-> c, event |-> None,
                     room |-> room, instructor |-> i, first |-> f, last |-> l,
                     checkRoom |-> room, checkInstructor |-> i, span |-> Keep,
                     read |-> NothingRead, signs |-> s, shares |-> {}])
    /\ UNCHANGED <<event, override, holder>>

\* Events[0]: the query has no order, but between two writes the answer is the same.
IsFirst(e) == event[e].class # None /\ \A n \in Events : event[n].class = event[e].class => e <= n

\* handleUpdateClass reads the first event of the class.  Only a room or instructor
\* that differs from the one read is checked, against the schedule read.
EditStart(a, e, room, i, span) ==
    LET c == event[e].class IN
    /\ IsFirst(e) /\ MayStart(a, "edit", c)
    /\ \E s \in Signs(a, {"never", "first", "last"}) :
          Become(a, [step |-> "EditRead", kind |-> "edit", class |-> c, event |-> e,
                     room |-> room, instructor |-> i,
                     first |-> event[e].first, last |-> event[e].last,
                     checkRoom |-> IF room \in {Keep, event[e].room} THEN None ELSE room,
                     checkInstructor |-> IF i \in {Keep, event[e].instructor} THEN None ELSE i,
                     span |-> span, read |-> NothingRead, signs |-> s, shares |-> {}])
    /\ UNCHANGED <<event, override, holder>>

\* Without a conflict request there is nothing to lock or to check.
AfterRead(q) == IF q.checkRoom = None /\ q.checkInstructor = None THEN "Write" ELSE "Check"

\* UpdateProgramClass reads the events again, outside its transaction: the room and
\* the schedule are written if they differ from this second reading.
EditRead(a) ==
    LET q == request[a] IN
    /\ q.step = "EditRead"
    /\ \/ \E e \in Events :
             /\ IsFirst(e) /\ event[e].class = q.class
             /\ Become(a, [q EXCEPT
                             !.step = AfterRead(q),
                             !.event = e,
                             !.room = IF @ = event[e].room THEN Keep ELSE @,
                             !.span = IF @ = <<event[e].first, event[e].last>> THEN Keep ELSE @])
       \/ /\ \A e \in Events : event[e].class # q.class
          /\ Become(a, [q EXCEPT !.step = AfterRead(q)])
    /\ UNCHANGED <<event, override, holder>>

\* handleCreateEvent: room and instructor are checked, without a lock and without
\* leaving out the events of the class itself.
AddStart(a, c, room, i, f, l) ==
    /\ MayStart(a, "add", c) /\ RowLeft
    /\ \E s \in Signs(a, {"first"}) :
          Become(a, [step |-> "Check", kind |-> "add", class |-> c, event |-> None,
                     room |-> room, instructor |-> i, first |-> f, last |-> l,
                     checkRoom |-> room, checkInstructor |-> i, span |-> Keep,
                     read |-> NothingRead, signs |-> s, shares |-> {}])
    /\ UNCHANGED <<event, override, holder>>

\* handleRescheduleEventSeries: from date f on the class follows a new series, which
\* may be empty (l = f - 1).  Only the room is checked.  An empty series is not
\* inserted, and what is left to write may name nobody.
RescheduleStart(a, e, room, i, f, l) ==
    LET c == event[e].class IN
    /\ c # None /\ MayStart(a, "reschedule", c) /\ RowLeft
    /\ \E s \in Signs(a, IF f <= l THEN {"first"} ELSE {"never", "first"}) :
          Become(a, [step |-> "Check", kind |-> "reschedule", class |-> c, event |-> e,
                     room |-> room, instructor |-> i, first |-> f, last |-> l,
                     checkRoom |-> room, checkInstructor |-> None, span |-> Keep,
                     read |-> NothingRead, signs |-> s, shares |-> {}])
    /\ UNCHANGED <<event, override, holder>>

\* The same request with is_cancelled, on one of the dates of series e: no check.
CancelSeriesStart(a, e, f) ==
    LET c == event[e].class IN
    /\ c # None /\ MayStart(a, "cancelSeries", c) /\ RowLeft
    /\ f \in event[e].first .. event[e].last
    /\ \E s \in Signs(a, {"first"}) :
          Become(a, [step |-> "Read", kind |-> "cancelSeries", class |-> c, event |-> e,
                     room |-> event[e].room, instructor |-> event[e].instructor,
                     first |-> f, last |-> event[e].last,
                     checkRoom |-> None, checkInstructor |-> None, span |-> Keep,
                     read |-> NothingRead, signs |-> s, shares |-> {}])
    /\ UNCHANGED <<event, override, holder>>

\* UncancelEventSeries reads the series before it writes; no check.  The restore
\* button is offered on the dates of a cancelled series.
UncancelSeriesStart(a, e, f) ==
    LET c == event[e].class IN
    /\ c # None /\ MayStart(a, "uncancelSeries", c) /\ RowLeft
    /\ event[e].cancelled /\ f \in event[e].first .. event[e].last
    /\ \E s \in Signs(a, {"first"}) :
          Become(a, [step |-> "Write", kind |-> "uncancelSeries", class |-> c, event |-> e,
                     room |-> event[e].room, instructor |-> event[e].instructor,
                     first |-> f, last |-> event[e].last,
                     checkRoom |-> None, checkInstructor |-> None, span |-> Keep,
                     read |-> [NothingRead EXCEPT ![e] = <<event[e].first, event[e].last>>],
                     signs |-> s, shares |-> {}])
    /\ UNCHANGED <<event, override, holder>>

\* handleEventOverrides: date d of event e is to be held in a room.  The room is
\* checked, the instructor is not.
OverrideStart(a, e, d, room, i) ==
    LET c == event[e].class IN
    /\ c # None /\ MayStart(a, "override", c)
    /\ \E s \in Signs(a, {"first", "last"}) :
          Become(a, [step |-> "Check", kind |-> "override", class |-> c, event |-> e,
                     room |-> room, instructor |-> i, first |-> d, last |-> d,
                     checkRoom |-> room, checkInstructor |-> None, span |-> Keep,
                     read |-> NothingRead, signs |-> s, shares |-> {}])
    /\ UNCHANGED <<event, override, holder>>

\* handlePatchEventOverride with a room or a substitute instructor: no check.
ChangeDateStart(a, e, d, room, i) ==
    LET c == event[e].class IN
    /\ c # None /\ MayStart(a, "changeDate", c)
    /\ \E s \in Signs(a, {"first", "last"}) :
          Become(a, [step |-> "Write", kind |-> "changeDate", class |-> c, event |-> e,
                     room |-> room, instructor |-> i, first |-> d, last |-> d,
                     checkRoom |-> None, checkInstructor |-> None, span |-> Keep,
                     read |-> NothingRead, signs |-> s, shares |-> {}])
    /\ UNCHANGED <<event, override, holder>>

--------------------------------------------------------------------------------
(* LockAndCheckConflicts and CheckConflicts *)

\* The row to lock next: the room, then the instructor, and only for the handlers
\* that check inside their transaction.
Wanted(a) ==
    LET q == request[a] IN
    CASE q.kind \notin {"create", "edit"} -> None
      [] q.kind \in {"create", "edit"} /\ q.checkRoom # None /\ holder[q.checkRoom] # a
           -> q.checkRoom
      [] q.kind \in {"create", "edit"} /\ (q.checkRoom # None => holder[q.checkRoom] = a)
           -> IF q.checkInstructor = None \/ holder[q.checkInstructor] = a
              THEN None ELSE q.checkInstructor

\* Mutant of Lock: the row is read, not locked.
LockM(a) ==
    /\ request[a].step = "Check" /\ Wanted(a) # None
    /\ holder[Wanted(a)] = None
    /\ Become(a, [request[a] EXCEPT !.step = "Write"])
    /\ UNCHANGED <<event, override, holder>>

Lock(a) ==
    /\ request[a].step = "Check" /\ Wanted(a) # None
    /\ holder[Wanted(a)] = None /\ \A b \in Admins : Wanted(a) \notin request[b].shares
    /\ holder' = [holder EXCEPT ![Wanted(a)] = a]
    /\ UNCHANGED <<event, override, request>>

\* An edit and an override leave out the bookings of the class itself, a new
\* series those of the series it closes.
Excluded(q, e) ==
    \/ event[e].class = None
    \/ q.kind \in {"edit", "override"} /\ event[e].class = q.class
    \/ q.kind = "reschedule" /\ e = q.event

\* Mutant of Conflict: the room check alone, as in CheckRRuleConflicts.
ConflictM(q) ==
    \E e \in Events, d \in q.first .. q.last :
        ~Excluded(q, e) /\ q.checkRoom # None /\ RoomBooked(e, q.checkRoom, d)

Conflict(q) ==
    \E e \in Events, d \in q.first .. q.last :
        /\ ~Excluded(q, e)
        /\ \/ q.checkRoom # None /\ RoomBooked(e, q.checkRoom, d)
           \/ q.checkInstructor # None /\ InstructorBooked(e, q.checkInstructor, d)

AfterCheck(q) == IF q.kind = "reschedule" THEN "Read" ELSE "Write"

\* Mutant of Check: a conflict is not answered, the transaction is tried again.
CheckM(a) ==
    LET q == request[a] IN
    /\ q.step = "Check" /\ Wanted(a) = None
    /\ IF Conflict(q)
       THEN holder' = Release(a) /\ UNCHANGED request
       ELSE Become(a, [q EXCEPT !.step = AfterCheck(q)]) /\ UNCHANGED holder
    /\ UNCHANGED <<event, override>>

\* A conflict is answered 409 and the transaction rolled back.
Check(a) ==
    LET q == request[a] IN
    /\ q.step = "Check" /\ Wanted(a) = None
    /\ IF Conflict(q)
       THEN Finish(a)
       ELSE Become(a, [q EXCEPT !.step = AfterCheck(q)]) /\ UNCHANGED holder
    /\ UNCHANGED <<event, override>>

\* CreateRescheduleEventSeries reads the rows of the class, and locks none.
SeriesRead(a) ==
    LET q == request[a] IN
    /\ q.step = "Read"
    /\ Become(a, [q EXCEPT !.step = "Write", !.read = Reading(q)])
    /\ UNCHANGED <<event, override, holder>>

--------------------------------------------------------------------------------
(* The writes, each one transaction that ends with the commit *)

\* Rows whose key-share lock the write takes: those a changed foreign key names.
Referenced(a) ==
    LET q == request[a] IN
    {x \in Resources :
        \/ x = q.room
        \/ /\ x = q.instructor
           /\ q.kind = "edit" => \E e \in Events : event[e].class = q.class
                                                   /\ event[e].instructor # x
        \/ x = a /\ q.signs # "never"}
ToShare(a) == {x \in Referenced(a) \ request[a].shares : holder[x] # a}

\* Mutant of Turn: the foreign key of the instructor comes before that of the room.
TurnM(a, x) ==
    IF x = a /\ request[a].signs = "first" THEN 0
    ELSE IF x = request[a].instructor THEN 1
    ELSE IF x = request[a].room THEN 2 ELSE 3

\* The order of the foreign keys, one statement after the other: an edit writes the
\* instructor before the room.
Turn(a, x) ==
    LET q == request[a]
        key == IF q.kind = "edit" THEN <<q.instructor, q.room>> ELSE <<q.room, q.instructor>>
    IN IF x = a /\ q.signs = "first" THEN 0
       ELSE IF x = key[1] THEN 1
       ELSE IF x = key[2] THEN 2 ELSE 3

\* The row, if any, that request a locks next
Needs(a) ==
    CASE request[a].step = "Check" -> {Wanted(a)} \ {None}
      [] request[a].step = "Write" ->
            {x \in ToShare(a) : \A y \in ToShare(a) : Turn(a, x) <= Turn(a, y)}
      [] OTHER -> {}

Refer(a) ==
    /\ request[a].step = "Write"
    /\ \E x \in Needs(a) :
          /\ holder[x] = None
          /\ Become(a, [request[a] EXCEPT !.shares = @ \cup {x}])
    /\ UNCHANGED <<event, override, holder>>

MayWrite(a, kinds) ==
    request[a].step = "Write" /\ request[a].kind \in kinds /\ ToShare(a) = {}

NewSeries(q) ==
    [class |-> q.class, room |-> q.room, instructor |-> q.instructor,
     first |-> q.first, last |-> q.last, cancelled |-> q.kind = "cancelSeries"]

FirstFree(e) == Free(e) /\ \A n \in Events : Free(n) => e <= n

\* An override goes with the row it was made for.
Overrides(rows) == [e \in Events |-> IF rows[e].class = None THEN NoOverrides ELSE override[e]]

Insert(rows, row) ==
    /\ \E e \in Events : FirstFree(e) /\ event' = [rows EXCEPT ![e] = row]
    /\ override' = Overrides(rows)

\* CreateProgramClass and CreateNewEvent
WriteNew(a) ==
    /\ MayWrite(a, {"create", "add"})
    /\ Insert(event, NewSeries(request[a]))
    /\ Finish(a)

\* Mutant of WriteEdit: the instructor is written though the body does not name one.
WriteEditM(a) ==
    LET q == request[a] IN
    /\ MayWrite(a, {"edit"})
    /\ event' = [e \in Events |-> IF event[e].class # q.class THEN event[e]
                                  ELSE [event[e] EXCEPT !.instructor = q.instructor]]
    /\ Finish(a)
    /\ UNCHANGED override

\* UpdateProgramClass: the instructor goes to every event of the class, the room
\* and the schedule to the one read.
WriteEdit(a) ==
    LET q == request[a] IN
    /\ MayWrite(a, {"edit"})
    /\ event' = [e \in Events |->
           IF event[e].class # q.class THEN event[e]
           ELSE [event[e] EXCEPT
                   !.instructor = IF q.instructor = Keep THEN @ ELSE q.instructor,
                   !.room = IF e = q.event /\ q.room # Keep THEN q.room ELSE @,
                   !.first = IF e = q.event /\ q.span # Keep THEN q.span[1] ELSE @,
                   !.last = IF e = q.event /\ q.span # Keep THEN q.span[2] ELSE @]]
    /\ Finish(a)
    /\ UNCHANGED override

\* A row is written by its id: its first and last day are what was read, cut short.
\* A row that has been deleted meanwhile stays deleted, and one inserted meanwhile is
\* not seen.
CutShort(q, e) == [event[e] EXCEPT !.first = q.read[e][1], !.last = q.first - 1]
Gone(q, e) == q.read[e] = None \/ event[e].class = None

\* Mutant of Capped: only the series named by the request is shortened.
CappedM(q) ==
    [e \in Events |->
        IF Gone(q, e) \/ q.read[e][2] < q.first \/ e # q.event THEN event[e]
        ELSE IF q.read[e][1] >= q.first THEN NoEvent ELSE CutShort(q, e)]

\* CreateRescheduleEventSeries: every series read that starts on or after the cut is
\* deleted, every other one shortened to end before it.
Capped(q) ==
    [e \in Events |->
        IF Gone(q, e) \/ (q.read[e][1] < q.first /\ q.read[e][2] < q.first) THEN event[e]
        ELSE IF q.read[e][1] >= q.first THEN NoEvent ELSE CutShort(q, e)]

WriteSeries(a) ==
    LET q == request[a] IN
    /\ MayWrite(a, {"reschedule", "cancelSeries"})
    /\ IF q.first <= q.last
       THEN Insert(Capped(q), NewSeries(q))
       ELSE event' = Capped(q) /\ override' = Overrides(Capped(q))
    /\ Finish(a)

\* UncancelEventSeries: the cancelled series ends before the date, a new one with
\* its room and instructor follows.
WriteUncancel(a) ==
    LET q == request[a] IN
    /\ MayWrite(a, {"uncancelSeries"})
    /\ Insert([e \in Events |-> IF Gone(q, e) THEN event[e] ELSE CutShort(q, e)], NewSeries(q))
    /\ Finish(a)

\* CreateOverrideEvents, for an event that has not been deleted meanwhile
Overridden(e, d, row) == [override EXCEPT ![e] = [@ EXCEPT ![d] = row]]

WriteOverride(a) ==
    LET q == request[a] IN
    /\ MayWrite(a, {"override", "changeDate"})
    /\ override' = IF event[q.event].class = q.class
                   THEN Overridden(q.event, q.first, [kind |-> "Held", room |-> q.room,
                                                      instructor |-> q.instructor])
                   ELSE override
    /\ Finish(a)
    /\ UNCHANGED event

--------------------------------------------------------------------------------
(* Handlers of single dates that need no row but the sender's own: one transaction *)

DateOf(a, kind, e) ==
    event[e].class # None /\ MayStart(a, kind, event[e].class)

OwnRowFree(a) == a \in Instructors => holder[a] = None

\* handlePatchEventOverride with is_cancelled
CancelDate(a, e, d) ==
    /\ DateOf(a, "cancelDate", e) /\ OwnRowFree(a)
    /\ override' = Overridden(e, d, [NoOverride EXCEPT !.kind = "Cancelled"])
    /\ UNCHANGED <<event, holder, request>>

\* DeleteOverrideEvent, for an override without links
DeleteOverride(a, e, d) ==
    /\ DateOf(a, "deleteOverride", e) /\ OwnRowFree(a) /\ override[e][d].kind # "None"
    /\ override' = Overridden(e, d, NoOverride)
    /\ UNCHANGED <<event, holder, request>>

\* Its update_user_id may be what it was: then it names no row.
UncancelOverride(a, e, d) ==
    /\ DateOf(a, "uncancelOverride", e) /\ override[e][d].kind = "Cancelled"
    /\ override' = Overridden(e, d, [override[e][d] EXCEPT !.kind = "Held"])
    /\ UNCHANGED <<event, holder, request>>

--------------------------------------------------------------------------------
Start(a) ==
    \/ \E c \in Classes, room \in Rooms, i \in Instructors, f, l \in Dates :
          /\ f <= l
          /\ CreateStart(a, c, room, i, f, l) \/ AddStart(a, c, room, i, f, l)
    \/ \E e \in Events, room \in Rooms \cup {Keep},
          i \in {Keep} \cup InstructorChoice,
          span \in {Keep} \cup (IF "schedule" \in Handlers
                                THEN {s \in Dates \X Dates : s[1] <= s[2]} ELSE {}) :
          EditStart(a, e, room, i, span)
    \/ \E e \in Events, room \in Rooms, i \in Instructors, f \in Dates :
          \E l \in f - 1 .. Horizon : RescheduleStart(a, e, room, i, f, l)
    \/ \E e \in Events, f \in Dates : CancelSeriesStart(a, e, f) \/ UncancelSeriesStart(a, e, f)
    \/ \E e \in Events, d \in Dates, room \in Rooms, i \in {None} \cup InstructorChoice :
          OverrideStart(a, e, d, room, i)
    \/ \E e \in Events, d \in Dates, room \in Rooms \cup {None}, i \in {None} \cup InstructorChoice :
          ChangeDateStart(a, e, d, room, i)

Advance(a) ==
    \/ EditRead(a) \/ Lock(a) \/ Check(a) \/ SeriesRead(a) \/ Refer(a)
    \/ WriteNew(a) \/ WriteEdit(a) \/ WriteSeries(a) \/ WriteUncancel(a) \/ WriteOverride(a)

SingleDate(a) ==
    \E e \in Events, d \in Dates :
        CancelDate(a, e, d) \/ DeleteOverride(a, e, d) \/ UncancelOverride(a, e, d)

\* Whom request a waits for: who holds the row it needs and, if it wants it FOR UPDATE,
\* who shares it.
WaitsFor(a) ==
    {b \in Admins \ {a} : \E x \in Needs(a) :
        holder[x] = b \/ (request[a].step = "Check" /\ x \in request[b].shares)}

Reaches(b, a) ==
    \A S \in SUBSET Admins : b \in S /\ (\A x \in S : WaitsFor(x) \subseteq S) => a \in S

\* Postgres finds that a waits for itself, and ends its transaction: the handler
\* answers 500.
DeadlockEnds(a) ==
    /\ \E b \in WaitsFor(a) : Reaches(b, a)
    /\ Finish(a)
    /\ UNCHANGED <<event, override>>

Next == \E a \in Admins : Start(a) \/ Advance(a) \/ SingleDate(a) \/ DeadlockEnds(a)

Spec == Init /\ [][Next]_vars

\* A handler that can go on does, and Postgres grants a row lock in the order of the
\* waiters and looks for a deadlock after waiting deadlock_timeout.  Nothing makes
\* administrators send requests.
Fairness == \A a \in Admins : SF_vars(Advance(a)) /\ WF_vars(DeadlockEnds(a))

FairSpec == Spec /\ Fairness

--------------------------------------------------------------------------------
(* Properties *)

\* No two classes meet in one room, or with one instructor, on the same date: what
\* the locked checks of CreateProgramClass and UpdateProgramClass are for.  It holds
\* for the handlers that check under the lock and those that only free a date, while
\* no two requests work on one class.
NoDoubleBooking ==
    \A e, n \in Events, x \in Resources, d \in Dates :
        Uses(e, x, d) /\ Uses(n, x, d) => event[e].class = event[n].class

\* Of rooms alone: with one administrator at a time the room checks made without a
\* lock (new series, single date) suffice as well.  So they do when cancelled series
\* are restored unchecked, because a cancelled series keeps its room in every check;
\* but not both, since a date held elsewhere by an override gives the room up.
RoomsNotDoubleBooked ==
    \A e, n \in Events, x \in Rooms, d \in Dates :
        Uses(e, x, d) /\ Uses(n, x, d) => event[e].class = event[n].class

\* Every handler that locks takes the room first and the instructor second, and no
\* write has a row in hand that comes later.  So requests wait for one another in a
\* circle only because an instructor is also an administrator: leaving out the waits
\* for the row that says who wrote (of the one who waits, or of the one waited for)
\* there is no circle.  Whatever the handlers, while no two requests work on one class.
WaitsBesidesSigning(a) ==
    {b \in Admins \ {a} : \E x \in Needs(a) :
        \/ holder[x] = b /\ ~(request[a].step = "Write" /\ x = a)
        \/ request[a].step = "Check" /\ x \in request[b].shares \ {b}}

CirclesBySigning ==
    \A S \in (SUBSET Admins) \ {{}} : \E a \in S : WaitsBesidesSigning(a) \cap S = {}

\* Every request is answered, if only because a deadlock is found: nobody waits for a
\* lock for ever.
Answered == \A a \in Admins : Busy(a) ~> ~Busy(a)

\* A class never has two series on one date: rescheduling, cancelling and restoring
\* a series cut the other series of the class at the same date.  Two administrators can
\* break it, because neither sees the row the other is about to insert.
OneSeriesPerDate ==
    \A e, n \in Events :
        e # n /\ event[e].class # None /\ event[e].class = event[n].class
        => (event[e].first .. event[e].last) \cap (event[n].first .. event[n].last) = {}

\* They break it in one way only: a request that has read the rows of the class writes
\* after another one has changed them.
WritesFromStale(a) ==
    /\ request[a].step = "Write" /\ request'[a] = Idle
    /\ request[a].kind \in {"reschedule", "cancelSeries", "uncancelSeries"}
    /\ request[a].read # Reading(request[a])

DoubledOnlyFromStale ==
    [][OneSeriesPerDate /\ ~OneSeriesPerDate' => \E a \in Admins : WritesFromStale(a)]_vars

\* The detailed specification implements the booking table.
B == INSTANCE Bookings WITH booked <- [c \in Classes |-> BookedBy(c)]
BookingsSpec == B!Spec

--------------------------------------------------------------------------------
(* A claim of the comments and tests that the code does not keep *)

\* The comment of handleRescheduleEventSeries: a cancelled series frees the room.
\* So a room is refused only if another class really meets in it.
RefusedOnlyIfUsed ==
    [][\A a \in Admins :
          LET q == request[a] IN
          q.step = "Check" /\ request'[a] = Idle
          => \E e \in Events, d \in q.first .. q.last :
                /\ event[e].class # None
                /\ \E x \in {q.checkRoom, q.checkInstructor} \cap Resources : Uses(e, x, d)]_vars

================================================================================

--------------------------- MODULE RoomBookingProofs ---------------------------
(******************************************************************************)
(* What RoomBooking guarantees for every set of classes, rooms, instructors    *)
(* and administrators and every bound.  The handlers that check under the lock *)
(* never book twice and implement the booking table.  Requests wait in a       *)
(* circle only for the rows that say who wrote.  The series of a class come to *)
(* meet on one date only by a write from an old reading.  The handlers that    *)
(* check rooms without a lock, or not at all, are safe for one administrator   *)
(* at a time.                                                                  *)
(******************************************************************************)
EXTENDS RoomBooking, TLAPS

--------------------------------------------------------------------------------
(* Type correctness *)

RowType == [class : Classes \cup {None}, room : Rooms \cup {None},
            instructor : Instructors \cup {None}, first : Dates,
            last : 0 .. Horizon, cancelled : BOOLEAN]

OverrideType == [kind : {"None", "Cancelled", "Held"}, room : Rooms \cup {None},
                 instructor : Instructors \cup {None}]

\* TypeOK with the two table types named.
LEMMA TypeNamed ==
    TypeOK <=> /\ event \in [Events -> RowType]
               /\ override \in [Events -> [Dates -> OverrideType]]
               /\ holder \in [Resources -> Admins \cup {None}]
               /\ request \in [Admins -> Request \cup {Idle}]
  BY DEF TypeOK, RowType, OverrideType

\* What a request may have read of a row.
ReadType == (Dates \X (0 .. Horizon)) \cup {None}

\* The fields of a request under way.
RequestFields(q) ==
    q \in [step : {"EditRead", "Check", "Read", "Write"},
           kind : Handlers, class : Classes, event : Events \cup {None},
           room : Rooms \cup {None, Keep}, instructor : Instructors \cup {None, Keep},
           first : Dates, last : 0 .. Horizon,
           checkRoom : Rooms \cup {None}, checkInstructor : Instructors \cup {None},
           span : (Dates \X Dates) \cup {Keep}, read : [Events -> ReadType],
           signs : {"never", "first", "last"}, shares : SUBSET Resources]

\* Request, with the fields named.
LEMMA RequestNamed ==
    ASSUME NEW q
    PROVE  q \in Request <=>
             /\ RequestFields(q)
             /\ q.kind = "edit" \/ (q.step # "EditRead" /\ Keep \notin {q.room, q.instructor})
  BY DEF Request, RequestFields, ReadType

\* A busy request is one of Request.
LEMMA BusyRequest ==
    ASSUME TypeOK, NEW a \in Admins, request[a].step # "Idle"
    PROVE  /\ request[a] \in Request /\ RequestFields(request[a])
           /\ \/ request[a].kind = "edit"
              \/ /\ request[a].step # "EditRead"
                 /\ Keep \notin {request[a].room, request[a].instructor}
  <1>1. request[a] \in Request
    BY DEF TypeOK, Idle
  <1>2. QED
    BY <1>1, RequestNamed

\* Becoming a request, or idle, keeps the requests well typed.
LEMMA BecomeType ==
    ASSUME TypeOK, NEW a \in Admins, NEW q \in Request \cup {Idle}, Become(a, q)
    PROVE  request' \in [Admins -> Request \cup {Idle}]
  BY DEF TypeOK, Become

LEMMA ReleaseType ==
    ASSUME TypeOK, NEW a \in Admins
    PROVE  Release(a) \in [Resources -> Admins \cup {None}]
  BY DEF TypeOK, Release

LEMMA TypeInit == Init => TypeOK
  <1> SUFFICES ASSUME Init PROVE TypeOK
    OBVIOUS
  <1>1. NoEvent \in RowType
    BY BoundsAssumption DEF NoEvent, RowType, Dates
  <1>2. NoOverrides \in [Dates -> OverrideType]
    BY DEF NoOverrides, NoOverride, OverrideType
  <1>3. QED
    BY <1>1, <1>2, TypeNamed DEF Init

--------------------------------------------------------------------------------
\* A request that starts is well typed.
LEMMA TypeStart == ASSUME TypeOK, NEW a \in Admins, Start(a) PROVE TypeOK'
  <1> USE BoundsAssumption DEF Dates, Events
  <1>0. /\ NothingRead \in [Events -> ReadType]
        /\ \A when, s : s \in Signs(a, when) /\ when \subseteq {"never", "first", "last"}
                        => s \in {"never", "first", "last"}
    BY DEF NothingRead, Signs, ReadType
  <1>1. \A q : /\ RequestFields(q)
               /\ q.kind = "edit" \/ (q.step # "EditRead" /\ Keep \notin {q.room, q.instructor})
               /\ Become(a, q) /\ UNCHANGED <<event, override, holder>>
               => TypeOK'
    BY BecomeType, RequestNamed DEF TypeOK
  <1>2. CASE \E c \in Classes, room \in Rooms, i \in Instructors, f, l \in Dates :
                f <= l /\ (CreateStart(a, c, room, i, f, l) \/ AddStart(a, c, room, i, f, l))
    <2>1. PICK c \in Classes, room \in Rooms, i \in Instructors, f \in Dates, l \in Dates :
             CreateStart(a, c, room, i, f, l) \/ AddStart(a, c, room, i, f, l)
      BY <1>2
    <2>2. Keep \notin {room, i}
      BY KeepAssumption
    <2>3. CASE CreateStart(a, c, room, i, f, l)
      BY <1>0, <1>1, <2>2, <2>3 DEF CreateStart, MayStart, RequestFields
    <2>4. CASE AddStart(a, c, room, i, f, l)
      BY <1>0, <1>1, <2>2, <2>4 DEF AddStart, MayStart, RequestFields
    <2>5. QED
      BY <2>1, <2>3, <2>4
  <1>3. CASE \E e \in Events, room \in Rooms \cup {Keep}, i \in {Keep} \cup InstructorChoice,
                span \in {Keep} \cup (IF "schedule" \in Handlers
                                      THEN {s \in Dates \X Dates : s[1] <= s[2]} ELSE {}) :
                EditStart(a, e, room, i, span)
    <2>1. PICK e \in Events, room \in Rooms \cup {Keep}, i \in {Keep} \cup InstructorChoice,
               span \in {Keep} \cup (IF "schedule" \in Handlers
                                     THEN {s \in Dates \X Dates : s[1] <= s[2]} ELSE {}) :
             EditStart(a, e, room, i, span)
      BY <1>3
    <2>2. /\ event[e].class \in Classes
          /\ event[e].first \in Dates /\ event[e].last \in 0 .. Horizon
      BY <2>1 DEF EditStart, IsFirst, TypeOK
    <2>3. i \in Instructors \cup {None, Keep} /\ span \in (Dates \X Dates) \cup {Keep}
      BY DEF InstructorChoice
    <2>4. (IF room \in {Keep, event[e].room} THEN None ELSE room) \in Rooms \cup {None}
      OBVIOUS
    <2>5. (IF i \in {Keep, event[e].instructor} THEN None ELSE i) \in Instructors \cup {None}
      BY <2>3
    <2>6. QED
      BY <1>0, <1>1, <2>1, <2>2, <2>3, <2>4, <2>5 DEF EditStart, MayStart, RequestFields
  <1>4. CASE \E e \in Events, room \in Rooms, i \in Instructors, f \in Dates :
                \E l \in f - 1 .. Horizon : RescheduleStart(a, e, room, i, f, l)
    <2>1. PICK e \in Events, room \in Rooms, i \in Instructors, f \in Dates :
             \E l \in f - 1 .. Horizon : RescheduleStart(a, e, room, i, f, l)
      BY <1>4
    <2>2. PICK l \in f - 1 .. Horizon : RescheduleStart(a, e, room, i, f, l)
      BY <2>1
    <2>3. event[e].class \in Classes /\ l \in 0 .. Horizon /\ Keep \notin {room, i}
      BY <2>2, KeepAssumption DEF RescheduleStart, TypeOK
    <2>4. QED
      BY <1>0, <1>1, <2>2, <2>3 DEF RescheduleStart, MayStart, RequestFields
  <1>5. CASE \E e \in Events, f \in Dates :
                CancelSeriesStart(a, e, f) \/ UncancelSeriesStart(a, e, f)
    <2>1. PICK e \in Events, f \in Dates :
             CancelSeriesStart(a, e, f) \/ UncancelSeriesStart(a, e, f)
      BY <1>5
    <2>2. /\ event[e].class \in Classes /\ event[e].last \in 0 .. Horizon
          /\ event[e].room \in Rooms \cup {None}
          /\ event[e].instructor \in Instructors \cup {None}
          /\ Keep \notin {event[e].room, event[e].instructor}
          /\ <<event[e].first, event[e].last>> \in Dates \X (0 .. Horizon)
      BY <2>1, KeepAssumption DEF CancelSeriesStart, UncancelSeriesStart, TypeOK
    <2>3. [NothingRead EXCEPT ![e] = <<event[e].first, event[e].last>>] \in [Events -> ReadType]
      BY <1>0, <2>2 DEF ReadType
    <2>4. CASE CancelSeriesStart(a, e, f)
      BY <1>0, <1>1, <2>2, <2>4 DEF CancelSeriesStart, MayStart, RequestFields
    <2>5. CASE UncancelSeriesStart(a, e, f)
      BY <1>0, <1>1, <2>2, <2>3, <2>5 DEF UncancelSeriesStart, MayStart, RequestFields
    <2>6. QED
      BY <2>1, <2>4, <2>5
  <1>6. CASE \E e \in Events, d \in Dates, room \in Rooms \cup {None},
                i \in {None} \cup InstructorChoice :
                (room \in Rooms /\ OverrideStart(a, e, d, room, i))
                \/ ChangeDateStart(a, e, d, room, i)
    <2>1. PICK e \in Events, d \in Dates, room \in Rooms \cup {None},
               i \in {None} \cup InstructorChoice :
             (room \in Rooms /\ OverrideStart(a, e, d, room, i))
             \/ ChangeDateStart(a, e, d, room, i)
      BY <1>6
    <2>2. /\ event[e].class \in Classes /\ i \in Instructors \cup {None}
          /\ Keep \notin {room, i} /\ d \in 0 .. Horizon
      BY <2>1, KeepAssumption DEF OverrideStart, ChangeDateStart, InstructorChoice, TypeOK
    <2>3. CASE OverrideStart(a, e, d, room, i) /\ room \in Rooms
      BY <1>0, <1>1, <2>2, <2>3 DEF OverrideStart, MayStart, RequestFields
    <2>4. CASE ChangeDateStart(a, e, d, room, i)
      BY <1>0, <1>1, <2>2, <2>4 DEF ChangeDateStart, MayStart, RequestFields
    <2>5. QED
      BY <2>1, <2>3, <2>4
  <1>7. QED
    BY <1>2, <1>3, <1>4, <1>5, <1>6 DEF Start

\* The rows the writes leave behind are well typed: a row that is cut short keeps all
\* but its days.
LEMMA RowTypes ==
    ASSUME TypeOK, NEW a \in Admins, request[a].step = "Write"
    PROVE  LET q == request[a] IN
           /\ Capped(q) \in [Events -> RowType]
           /\ \A e \in Events : ~Gone(q, e) =>
                 /\ CutShort(q, e) \in RowType /\ CutShort(q, e).class = event[e].class
                 /\ CutShort(q, e).room = event[e].room
                 /\ CutShort(q, e).first = q.read[e][1]
                 /\ CutShort(q, e).last = q.first - 1
           /\ q.kind # "edit" => NewSeries(q) \in RowType
  <1> DEFINE q == request[a]
  <1>1. /\ q.first \in Dates /\ q.last \in 0 .. Horizon /\ q.class \in Classes
        /\ q.room \in Rooms \cup {None, Keep} /\ q.instructor \in Instructors \cup {None, Keep}
        /\ q.kind = "edit" \/ Keep \notin {q.room, q.instructor}
        /\ q.read \in [Events -> ReadType]
    BY BusyRequest DEF RequestFields
  <1>2. event \in [Events -> RowType]
    BY TypeNamed
  <1> HIDE DEF q
  <1>3. q.first - 1 \in 0 .. Horizon
    BY <1>1, BoundsAssumption DEF Dates
  <1>4. NoEvent \in RowType
    BY BoundsAssumption DEF NoEvent, RowType, Dates
  <1>5. ASSUME NEW e \in Events, ~Gone(q, e)
        PROVE  /\ CutShort(q, e) \in RowType /\ CutShort(q, e).class = event[e].class
               /\ CutShort(q, e).room = event[e].room
               /\ CutShort(q, e).first = q.read[e][1] /\ CutShort(q, e).last = q.first - 1
    <2>1. q.read[e] \in Dates \X (0 .. Horizon)
      BY <1>1, <1>5 DEF Gone, ReadType
    <2>2. q.read[e][1] \in Dates
      BY <2>1
    <2>3. event[e] \in RowType
      BY <1>2
    <2>4. QED
      BY <1>3, <2>2, <2>3 DEF CutShort, RowType
  <1>6. Capped(q) \in [Events -> RowType]
    BY <1>2, <1>4, <1>5 DEF Capped
  <1>7. q.kind # "edit" => NewSeries(q) \in RowType
    BY <1>1 DEF NewSeries, RowType
  <1>8. QED
    BY <1>5, <1>6, <1>7 DEF q

LEMMA InsertType ==
    ASSUME TypeOK, NEW rows \in [Events -> RowType], NEW row \in RowType, Insert(rows, row)
    PROVE  event' \in [Events -> RowType] /\ override' \in [Events -> [Dates -> OverrideType]]
  <1>1. event' \in [Events -> RowType]
    BY DEF Insert
  <1>2. NoOverrides \in [Dates -> OverrideType]
    BY DEF NoOverrides, NoOverride, OverrideType
  <1>3. override' \in [Events -> [Dates -> OverrideType]]
    BY <1>2, TypeNamed DEF Insert, Overrides
  <1>4. QED
    BY <1>1, <1>3

\* A request that finishes leaves the requests and the locks well typed.
LEMMA FinishType ==
    ASSUME TypeOK, NEW a \in Admins, Finish(a)
    PROVE  request' \in [Admins -> Request \cup {Idle}] /\ holder' \in [Resources -> Admins \cup {None}]
  BY BecomeType, ReleaseType DEF Finish

\* A request that takes a step stays well typed.
LEMMA TypeAdvance == ASSUME TypeOK, NEW a \in Admins, Advance(a) PROVE TypeOK'
  <1> DEFINE q == request[a]
  <1>0. /\ q \in Request /\ RequestFields(q)
        /\ q.kind = "edit" \/ (q.step # "EditRead" /\ Keep \notin {q.room, q.instructor})
    <2>1. q.step # "Idle"
      BY DEF Advance, EditRead, Lock, Check, SeriesRead, Refer, WriteNew, WriteEdit,
             WriteSeries, WriteUncancel, WriteOverride, MayWrite
    <2>2. QED
      BY <2>1, BusyRequest
  <1>N. event \in [Events -> RowType] /\ override \in [Events -> [Dates -> OverrideType]]
    BY TypeNamed
  <1>T. ASSUME event' \in [Events -> RowType],
               override' \in [Events -> [Dates -> OverrideType]], Finish(a)
        PROVE  TypeOK'
    BY <1>T, FinishType DEF TypeOK, RowType, OverrideType
  <1>B. \A r \in Request \cup {Idle} :
           Become(a, r) /\ UNCHANGED <<event, override, holder>> => TypeOK'
    BY BecomeType DEF TypeOK
  <1>1. CASE EditRead(a)
    <2>1. q.step = "EditRead" /\ q.kind = "edit"
      BY <1>0, <1>1 DEF EditRead
    <2>2. AfterRead(q) \in {"Check", "Write"}
      BY DEF AfterRead
    <2> HIDE DEF q
    <2>3. [q EXCEPT !.step = AfterRead(q)] \in Request
      <3> DEFINE r == [q EXCEPT !.step = AfterRead(q)]
      <3>1. RequestFields(r) /\ r.kind = "edit"
        BY <1>0, <2>1, <2>2 DEF RequestFields
      <3> HIDE DEF r
      <3>2. r \in Request
        BY <3>1, RequestNamed
      <3>3. QED
        BY <3>2 DEF r
    <2>4. \A e \in Events :
             [q EXCEPT !.step = AfterRead(q),
                       !.event = e,
                       !.room = IF @ = event[e].room THEN Keep ELSE @,
                       !.span = IF @ = <<event[e].first, event[e].last>> THEN Keep ELSE @]
               \in Request
      <3>1. \A s \in {"Check", "Write"}, e \in Events, room \in Rooms \cup {None, Keep},
               span \in (Dates \X Dates) \cup {Keep} :
               [q EXCEPT !.step = s, !.event = e, !.room = room, !.span = span] \in Request
        <4> SUFFICES ASSUME NEW s \in {"Check", "Write"}, NEW e \in Events,
                            NEW room \in Rooms \cup {None, Keep},
                            NEW span \in (Dates \X Dates) \cup {Keep}
                     PROVE  [q EXCEPT !.step = s, !.event = e, !.room = room, !.span = span]
                              \in Request
          OBVIOUS
        <4> DEFINE r == [q EXCEPT !.step = s, !.event = e, !.room = room, !.span = span]
        <4>1. RequestFields(r)
          <5>1. RequestFields([q EXCEPT !.step = s, !.event = e])
            BY <1>0 DEF RequestFields
          <5>2. \A p : RequestFields(p) => RequestFields([p EXCEPT !.room = room, !.span = span])
            BY DEF RequestFields
          <5> HIDE DEF r
          <5>3. r = [[q EXCEPT !.step = s, !.event = e] EXCEPT !.room = room, !.span = span]
            BY DEF r
          <5>4. QED
            BY <5>1, <5>2, <5>3
        <4>2. r.kind = "edit"
          BY <1>0, <2>1 DEF RequestFields
        <4> HIDE DEF r
        <4>3. r \in Request
          BY <4>1, <4>2, RequestNamed
        <4>4. QED
          BY <4>3 DEF r
      <3>2. \A e \in Events :
               /\ (IF q.room = event[e].room THEN Keep ELSE q.room) \in Rooms \cup {None, Keep}
               /\ (IF q.span = <<event[e].first, event[e].last>> THEN Keep ELSE q.span)
                    \in (Dates \X Dates) \cup {Keep}
        BY <1>0 DEF RequestFields
      <3>3. QED
        <4> SUFFICES ASSUME NEW e \in Events
                     PROVE  [q EXCEPT !.step = AfterRead(q), !.event = e,
                                !.room = IF q.room = event[e].room THEN Keep ELSE q.room,
                                !.span = IF q.span = <<event[e].first, event[e].last>>
                                           THEN Keep ELSE q.span]
                              \in Request
          OBVIOUS
        <4>1. PICK room \in Rooms \cup {None, Keep} :
                 room = IF q.room = event[e].room THEN Keep ELSE q.room
          BY <3>2
        <4>2. PICK span \in (Dates \X Dates) \cup {Keep} :
                 span = IF q.span = <<event[e].first, event[e].last>> THEN Keep ELSE q.span
          BY <3>2
        <4>3. QED
          BY Zenon, <2>2, <3>1, <4>1, <4>2
    <2> USE DEF q
    <2>5. QED
      BY <1>1, <1>B, <2>3, <2>4 DEF EditRead
  <1>2. CASE Lock(a)
    <2>1. Wanted(a) \in Resources
      BY <1>0, <1>2 DEF Lock, Wanted, Resources, RequestFields
    <2>2. holder' \in [Resources -> Admins \cup {None}]
      BY <1>2, <2>1 DEF Lock, TypeOK
    <2>3. QED
      BY <1>2, <2>2 DEF Lock, TypeOK
  <1>3. CASE Check(a)
    <2>1. CASE Conflict(q)
      BY <1>3, <1>T, <1>N, <2>1 DEF Check
    <2>2. CASE ~Conflict(q)
      <3> DEFINE r == [q EXCEPT !.step = AfterCheck(q)]
      <3>1. Become(a, r) /\ UNCHANGED <<event, override, holder>>
        BY <1>3, <2>2 DEF Check
      <3>2. AfterCheck(q) \in {"Read", "Write"} /\ q.step = "Check"
        BY <1>3 DEF AfterCheck, Check
      <3>3. /\ RequestFields(r) /\ r.kind = q.kind /\ r.step # "EditRead"
            /\ r.room = q.room /\ r.instructor = q.instructor
        BY <1>0, <3>2 DEF RequestFields
      <3> HIDE DEF r
      <3>4. r \in Request
        BY <1>0, <3>3, RequestNamed
      <3>5. QED
        BY <1>B, <3>1, <3>4
    <2>3. QED
      BY <2>1, <2>2
  <1>R. CASE SeriesRead(a)
    <2> DEFINE r == [q EXCEPT !.step = "Write", !.read = Reading(q)]
    <2>1. Become(a, r) /\ UNCHANGED <<event, override, holder>> /\ q.step = "Read"
      BY <1>R DEF SeriesRead
    <2>2. Reading(q) \in [Events -> ReadType]
      BY <1>N DEF Reading, ReadType, RowType
    <2>3. /\ RequestFields(r) /\ r.kind = q.kind /\ r.step # "EditRead"
          /\ r.room = q.room /\ r.instructor = q.instructor
      BY <1>0, <2>2 DEF RequestFields
    <2> HIDE DEF r
    <2>4. r \in Request
      BY <1>0, <2>1, <2>3, RequestNamed
    <2>5. QED
      BY <1>B, <2>1, <2>4
  <1>S. CASE Refer(a)
    <2>1. PICK x \in Needs(a) : /\ q.step = "Write"
                                /\ Become(a, [q EXCEPT !.shares = @ \cup {x}])
      BY <1>S DEF Refer
    <2>2. x \in Resources
      BY <2>1 DEF Needs, ToShare, Referenced
    <2> DEFINE r == [q EXCEPT !.shares = @ \cup {x}]
    <2>3. /\ RequestFields(r) /\ r.kind = q.kind /\ r.step = q.step
          /\ r.room = q.room /\ r.instructor = q.instructor
      BY <1>0, <2>2 DEF RequestFields
    <2>4. Become(a, r) /\ UNCHANGED <<event, override, holder>>
      BY <1>S, <2>1 DEF Refer
    <2> HIDE DEF r
    <2>5. r \in Request
      BY <1>0, <2>1, <2>3, RequestNamed
    <2>6. QED
      BY <1>B, <2>4, <2>5
  <1>4. CASE WriteNew(a)
    <2>1. q.step = "Write" /\ q.kind # "edit"
      BY <1>4 DEF WriteNew, MayWrite
    <2>2. NewSeries(q) \in RowType
      BY <2>1, RowTypes
    <2>3. QED
      BY <1>4, <1>T, <1>N, <2>2, InsertType DEF WriteNew
  <1>5. CASE WriteEdit(a)
    <2>1. q.span = Keep \/ (q.span[1] \in Dates /\ q.span[2] \in 0 .. Horizon)
      <3>1. \A s \in Dates \X Dates : s[1] \in Dates /\ s[2] \in 0 .. Horizon
        BY DEF Dates
      <3> HIDE DEF q
      <3>2. QED
        BY <1>0, <3>1 DEF RequestFields
    <2>2. event' \in [Events -> RowType]
      <3> HIDE DEF q
      <3>1. \A e \in Events :
               [event[e] EXCEPT
                  !.instructor = IF q.instructor = Keep THEN @ ELSE q.instructor,
                  !.room = IF e = q.event /\ q.room # Keep THEN q.room ELSE @,
                  !.first = IF e = q.event /\ q.span # Keep THEN q.span[1] ELSE @,
                  !.last = IF e = q.event /\ q.span # Keep THEN q.span[2] ELSE @] \in RowType
        <4>1. \A row \in RowType, i \in Instructors \cup {None}, room \in Rooms \cup {None},
                 f \in Dates, l \in 0 .. Horizon :
                 [row EXCEPT !.instructor = i, !.room = room, !.first = f, !.last = l] \in RowType
          BY DEF RowType
        <4>2. TAKE e \in Events
        <4> DEFINE i    == IF q.instructor = Keep THEN event[e].instructor ELSE q.instructor
                   room == IF e = q.event /\ q.room # Keep THEN q.room ELSE event[e].room
                   f    == IF e = q.event /\ q.span # Keep THEN q.span[1] ELSE event[e].first
                   l    == IF e = q.event /\ q.span # Keep THEN q.span[2] ELSE event[e].last
        <4>3. /\ i \in Instructors \cup {None} /\ room \in Rooms \cup {None}
              /\ f \in Dates /\ l \in 0 .. Horizon
          BY <1>0, <1>N, <2>1 DEF RowType, RequestFields
        <4>4. event[e] \in RowType
          BY <1>N
        <4> HIDE DEF i, room, f, l
        <4>5. [event[e] EXCEPT !.instructor = i, !.room = room, !.first = f, !.last = l] \in RowType
          BY <4>1, <4>3, <4>4
        <4>6. QED
          BY <4>5 DEF i, room, f, l
      <3> USE DEF q
      <3>2. QED
        BY <1>5, <1>N, <3>1 DEF WriteEdit
    <2>3. QED
      BY <1>5, <1>T, <1>N, <2>2 DEF WriteEdit
  <1>6. CASE WriteSeries(a)
    <2>1. q.step = "Write" /\ q.kind # "edit"
      BY <1>6 DEF WriteSeries, MayWrite
    <2>2. NewSeries(q) \in RowType /\ Capped(q) \in [Events -> RowType]
      BY <2>1, RowTypes
    <2>3. NoOverrides \in [Dates -> OverrideType]
      BY DEF NoOverrides, NoOverride, OverrideType
    <2>4. Overrides(Capped(q)) \in [Events -> [Dates -> OverrideType]]
      BY <1>N, <2>3 DEF Overrides
    <2>5. QED
      BY <1>6, <1>T, <2>2, <2>4, InsertType DEF WriteSeries
  <1>7. CASE WriteUncancel(a)
    <2>1. q.step = "Write" /\ q.kind # "edit"
      BY <1>7 DEF WriteUncancel, MayWrite
    <2>2. NewSeries(q) \in RowType
      BY <2>1, RowTypes
    <2>3. [e \in Events |-> IF Gone(q, e) THEN event[e] ELSE CutShort(q, e)]
            \in [Events -> RowType]
      <3>1. \A e \in Events : ~Gone(q, e) => CutShort(q, e) \in RowType
        BY <2>1, RowTypes
      <3>2. QED
        BY <1>N, <3>1
    <2>4. QED
      BY <1>7, <1>T, <2>2, <2>3, InsertType DEF WriteUncancel
  <1>8. CASE WriteOverride(a)
    <2>1. q.kind # "edit" /\ Keep \notin {q.room, q.instructor}
      BY <1>0, <1>8 DEF WriteOverride, MayWrite
    <2>2. [kind |-> "Held", room |-> q.room, instructor |-> q.instructor] \in OverrideType
      BY <1>0, <2>1 DEF OverrideType, RequestFields
    <2>3. \A e, d : \A row \in OverrideType :
             Overridden(e, d, row) \in [Events -> [Dates -> OverrideType]]
      BY <1>N DEF Overridden
    <2>4. override' \in [Events -> [Dates -> OverrideType]]
      BY <1>8, <1>N, <2>2, <2>3 DEF WriteOverride
    <2>5. QED
      BY <1>8, <1>T, <1>N, <2>4 DEF WriteOverride
  <1>9. QED
    BY <1>1, <1>2, <1>3, <1>R, <1>S, <1>4, <1>5, <1>6, <1>7, <1>8 DEF Advance

\* The handlers of single dates store overrides.
LEMMA TypeSingleDate == ASSUME TypeOK, NEW a \in Admins, SingleDate(a) PROVE TypeOK'
  <1>1. PICK e \in Events, d \in Dates :
           CancelDate(a, e, d) \/ DeleteOverride(a, e, d) \/ UncancelOverride(a, e, d)
    BY DEF SingleDate
  <1>2. override \in [Events -> [Dates -> OverrideType]]
    BY TypeNamed
  <1>3. \A row \in OverrideType :
           override' = Overridden(e, d, row) /\ UNCHANGED <<event, holder, request>> => TypeOK'
    BY <1>2 DEF Overridden, TypeOK, OverrideType
  <1>4. /\ NoOverride \in OverrideType
        /\ [NoOverride EXCEPT !.kind = "Cancelled"] \in OverrideType
        /\ [override[e][d] EXCEPT !.kind = "Held"] \in OverrideType
    BY <1>2 DEF NoOverride, OverrideType
  <1>5. QED
    BY <1>1, <1>3, <1>4 DEF CancelDate, DeleteOverride, UncancelOverride

\* Rows, overrides, locks and requests stay in their domains: TypeOK is an invariant.
THEOREM TypeCorrect == Spec => []TypeOK
  <1>1. Init => TypeOK
    BY TypeInit
  <1>2. TypeOK /\ [Next]_vars => TypeOK'
    <2> SUFFICES ASSUME TypeOK, [Next]_vars PROVE TypeOK'
      OBVIOUS
    <2>1. ASSUME NEW a \in Admins, DeadlockEnds(a) PROVE TypeOK'
      BY <2>1, FinishType DEF DeadlockEnds, TypeOK
    <2>2. CASE Next
      BY <2>1, <2>2, TypeStart, TypeAdvance, TypeSingleDate DEF Next
    <2>3. CASE UNCHANGED vars
      BY <2>3 DEF vars, TypeOK
    <2>4. QED
      BY <2>2, <2>3
  <1>3. QED
    BY <1>1, <1>2, PTL DEF Spec

--------------------------------------------------------------------------------
(* What a request read of the rows of its class still holds when it writes *)

OneRequestPerClass ==
    \A a, b \in Admins : Busy(a) /\ Busy(b) /\ request[a].class = request[b].class => a = b

\* The handlers that read the rows of the class before they write.
RowWriters == {"reschedule", "cancelSeries", "uncancelSeries"}

\* Without a conflict of editors the rows of a class change only with its own request: a new
\* class has no rows, and a request on a series finds it as it read it.
StillRead(q) ==
    /\ q.kind \in RowWriters \cup {"create", "edit", "add", "override", "changeDate"}
    /\ q.step = "Read" => q.kind \in {"reschedule", "cancelSeries"}
    /\ q.kind = "create" =>
         /\ \A e \in Events : event[e].class # q.class
         /\ q.checkRoom = q.room /\ q.checkInstructor = q.instructor
    /\ q.kind = "edit" =>
         /\ q.event \in Events /\ IsFirst(q.event) /\ event[q.event].class = q.class
         /\ q.first = event[q.event].first /\ q.last = event[q.event].last
         /\ q.room \in {Keep, q.checkRoom, event[q.event].room}
         /\ q.step # "EditRead" => q.room \in {Keep, q.checkRoom}
         /\ q.checkInstructor \in {None, q.instructor}
         /\ q.instructor \in {Keep, None, q.checkInstructor, event[q.event].instructor}
         /\ "schedule" \in Handlers \/ q.span = Keep
    /\ q.kind \in {"add", "reschedule"} => q.checkRoom = q.room
    /\ q.kind \in RowWriters =>
         /\ q.event \in Events /\ event[q.event].class = q.class
         /\ q.step = "Write" => q.read = Reading(q)
    /\ q.kind \in {"cancelSeries", "uncancelSeries"} =>
         /\ q.step \in {"Read", "Write"} /\ q.room = event[q.event].room
         /\ q.first \in event[q.event].first .. event[q.event].last
         /\ q.last = event[q.event].last

\* So do all requests under way.
ReadsHold == \A a \in Admins : Busy(a) => StillRead(request[a])

--------------------------------------------------------------------------------
(* Lemmas on steps *)

\* A step changes rows of class c, or free rows, and no others.
RowsChange(c) ==
    \A e \in Events :
        \/ event[e].class \in {c, None} /\ event'[e].class \in {c, None}
        \/ event'[e] = event[e]

\* A request under way has them, and names a class.
LEMMA UnderWay ==
    ASSUME TypeOK, NEW a \in Admins, Busy(a)
    PROVE  /\ request[a] \in Request /\ RequestFields(request[a])
           /\ request[a].step = "EditRead" => request[a].kind = "edit"
           /\ request[a].class \in Classes /\ request[a].class # None
  <1>1. request[a].step # "Idle"
    BY DEF Busy
  <1>2. /\ request[a] \in Request /\ RequestFields(request[a])
        /\ request[a].step = "EditRead" => request[a].kind = "edit"
    BY <1>1, BusyRequest
  <1>3. request[a].class \in Classes
    BY <1>2 DEF RequestFields
  <1>4. QED
    BY <1>2, <1>3, NoneAssumption

\* What a request read is left alone by steps on other classes.
LEMMA OthersRead ==
    ASSUME NEW c, RowsChange(c), NEW q, StillRead(q), q.class # c, q.class # None
    PROVE  StillRead(q)'
  <1>1. \A e \in Events : event[e].class = q.class => event'[e] = event[e]
    BY DEF RowsChange
  <1>2. \A e \in Events : event'[e].class = q.class => event[e].class = q.class
    BY DEF RowsChange
  <1>3. q.kind = "create" => \A e \in Events : event'[e].class # q.class
    BY <1>2 DEF StillRead
  <1>4. ASSUME q.kind = "edit" PROVE IsFirst(q.event)' /\ event'[q.event] = event[q.event]
    <2>1. q.event \in Events /\ IsFirst(q.event) /\ event[q.event].class = q.class
      BY <1>4 DEF StillRead
    <2>2. event'[q.event] = event[q.event]
      BY <1>1, <2>1
    <2>3. QED
      BY <1>2, <2>1, <2>2 DEF IsFirst
  <1>5. q.kind \in RowWriters => event'[q.event] = event[q.event]
    BY <1>1 DEF StillRead
  <1>6. Reading(q)' = Reading(q)
    BY <1>1, <1>2 DEF Reading
  <1>7. QED
    BY <1>3, <1>4, <1>5, <1>6 DEF StillRead

\* A step that leaves the events alone leaves what was read alone.
LEMMA EventsRead ==
    ASSUME UNCHANGED event, NEW q, StillRead(q)
    PROVE  StillRead(q)'
  BY DEF StillRead, IsFirst, Reading

\* What was read of a row that has not changed since is the row.
LEMMA ReadAsStands ==
    ASSUME TypeOK, NEW q, q.class # None, q.read = Reading(q), NEW e \in Events
    PROVE  /\ Gone(q, e) <=> \/ event[e].class # q.class
                             \/ q.kind = "uncancelSeries" /\ e # q.event
           /\ ~Gone(q, e) => q.read[e][1] = event[e].first /\ q.read[e][2] = event[e].last
  <1>1. event[e].first \in Nat /\ event[e].last \in Nat
    BY BoundsAssumption DEF TypeOK, Dates
  <1>2. <<event[e].first, event[e].last>> # None
    BY <1>1, NoneAssumption
  <1>3. q.read[e] = IF event[e].class = q.class /\ (q.kind = "uncancelSeries" => e = q.event)
                    THEN <<event[e].first, event[e].last>> ELSE None
    BY DEF Reading
  <1>4. QED
    BY <1>2, <1>3 DEF Gone

\* The rows of the class that a new series leaves, when none has changed since the reading.
LEMMA CappedRow ==
    ASSUME TypeOK, NEW a \in Admins, NEW q, q = request[a], q.step = "Write",
           q.read = Reading(q), q.kind # "uncancelSeries", NEW e \in Events
    PROVE  /\ event[e].class # q.class => Capped(q)[e] = event[e]
           /\ event[e].class = q.class =>
                 \/ Capped(q)[e] = NoEvent
                 \/ /\ Capped(q)[e] \in RowType /\ Capped(q)[e].class = q.class
                    /\ Capped(q)[e].room = event[e].room /\ Capped(q)[e].first = event[e].first
                    /\ Capped(q)[e].last < q.first /\ Capped(q)[e].last <= event[e].last
  <1>1. Busy(a)
    BY DEF Busy
  <1>2. q.class # None /\ q.first \in Int
    BY <1>1, UnderWay, BoundsAssumption DEF RequestFields, Dates
  <1>3. event[e] \in RowType /\ event[e].first \in Int /\ event[e].last \in Int
    BY TypeNamed, BoundsAssumption DEF RowType, Dates
  <1>4. CASE event[e].class # q.class
    <2>1. Gone(q, e)
      BY <1>2, <1>4, ReadAsStands
    <2>2. QED
      BY <1>4, <2>1 DEF Capped
  <1>5. CASE event[e].class = q.class
    <2>1. ~Gone(q, e) /\ q.read[e][1] = event[e].first /\ q.read[e][2] = event[e].last
      BY <1>2, <1>5, ReadAsStands
    <2>2. /\ CutShort(q, e) \in RowType /\ CutShort(q, e).class = event[e].class
          /\ CutShort(q, e).room = event[e].room
          /\ CutShort(q, e).first = q.read[e][1] /\ CutShort(q, e).last = q.first - 1
      BY <2>1, RowTypes
    <2>3. Capped(q)[e] = IF event[e].first < q.first /\ event[e].last < q.first THEN event[e]
                         ELSE IF event[e].first >= q.first THEN NoEvent ELSE CutShort(q, e)
      BY <2>1 DEF Capped
    <2>4. QED
      BY <1>2, <1>3, <1>5, <2>1, <2>2, <2>3
  <1>6. QED
    BY <1>4, <1>5

\* The rows that UncancelEventSeries leaves of those there were.
Uncancelled(q) == [e \in Events |-> IF Gone(q, e) THEN event[e] ELSE CutShort(q, e)]

LEMMA UncancelledRow ==
    ASSUME TypeOK, NEW a \in Admins, NEW q, q = request[a], q.step = "Write",
           q.kind = "uncancelSeries", q.read = Reading(q),
           q.event \in Events, event[q.event].class = q.class
    PROVE  /\ Uncancelled(q) \in [Events -> RowType]
           /\ \A e \in Events \ {q.event} : Uncancelled(q)[e] = event[e]
           /\ Uncancelled(q)[q.event].class = q.class
           /\ Uncancelled(q)[q.event].room = event[q.event].room
           /\ Uncancelled(q)[q.event].first = event[q.event].first
           /\ Uncancelled(q)[q.event].last = q.first - 1
  <1>1. Busy(a)
    BY DEF Busy
  <1>2. q.class # None
    BY <1>1, UnderWay
  <1>3. \A e \in Events : Gone(q, e) <=> e # q.event
    BY <1>2, ReadAsStands
  <1>4. q.read[q.event][1] = event[q.event].first
    BY <1>2, <1>3, ReadAsStands
  <1>5. \A e \in Events : ~Gone(q, e) =>
           /\ CutShort(q, e) \in RowType /\ CutShort(q, e).class = event[e].class
           /\ CutShort(q, e).room = event[e].room
           /\ CutShort(q, e).first = q.read[e][1] /\ CutShort(q, e).last = q.first - 1
    BY RowTypes
  <1>6. event \in [Events -> RowType]
    BY TypeNamed
  <1>7. Uncancelled(q) \in [Events -> RowType]
    BY <1>5, <1>6 DEF Uncancelled
  <1>8. \A e \in Events : Uncancelled(q)[e] = IF e # q.event THEN event[e] ELSE CutShort(q, e)
    BY <1>3 DEF Uncancelled
  <1>9. QED
    BY <1>2, <1>3, <1>4, <1>5, <1>7, <1>8

\* Every write ends its request, and changes rows of its class only.
LEMMA WritesOwnRows ==
    ASSUME TypeOK, NEW a \in Admins, StillRead(request[a]),
           WriteNew(a) \/ WriteEdit(a) \/ WriteSeries(a) \/ WriteUncancel(a) \/ WriteOverride(a)
    PROVE  /\ request[a].step = "Write" /\ Finish(a) /\ RowsChange(request[a].class)
  <1> DEFINE q == request[a]
             c == q.class
  <1>0. q.step = "Write" /\ Finish(a)
    BY DEF WriteNew, WriteEdit, WriteSeries, WriteUncancel, WriteOverride, MayWrite
  <1>1. event \in [Events -> RowType]
    BY TypeNamed
  <1>2. NewSeries(q).class = c
    BY DEF NewSeries
  <1> HIDE DEF q
  <1>3. ASSUME NEW rows, rows \in [Events -> RowType], Insert(rows, NewSeries(q)),
               \A e \in Events : \/ event[e].class \in {c, None} /\ rows[e].class \in {c, None}
                                 \/ rows[e] = event[e]
        PROVE  RowsChange(c)
    <2>1. PICK e0 \in Events : FirstFree(e0) /\ event' = [rows EXCEPT ![e0] = NewSeries(q)]
      BY <1>3 DEF Insert
    <2>2. event[e0].class = None /\ event'[e0] = NewSeries(q)
          /\ \A e \in Events \ {e0} : event'[e] = rows[e]
      BY <1>3, <2>1 DEF FirstFree, Free
    <2>3. event[e0].class \in {c, None}
      BY <2>2
    <2>4. QED
      BY <1>2, <1>3, <2>2, <2>3 DEF RowsChange
  <1>4. ASSUME WriteNew(a) PROVE RowsChange(c)
    BY <1>1, <1>3, <1>4 DEF WriteNew, q
  <1>5. ASSUME WriteEdit(a) PROVE RowsChange(c)
    <2>1. \A e \in Events : event[e].class # c => event'[e] = event[e]
      BY <1>5 DEF WriteEdit, q
    <2>2. ASSUME NEW e \in Events, event[e].class = c PROVE event'[e].class = c
      <3>1. event'[e] = [event[e] EXCEPT
                           !.instructor = IF q.instructor = Keep THEN @ ELSE q.instructor,
                           !.room = IF e = q.event /\ q.room # Keep THEN q.room ELSE @,
                           !.first = IF e = q.event /\ q.span # Keep THEN q.span[1] ELSE @,
                           !.last = IF e = q.event /\ q.span # Keep THEN q.span[2] ELSE @]
        BY <1>5, <2>2 DEF WriteEdit, q
      <3>2. event[e] \in RowType
        BY <1>1
      <3>3. QED
        BY <2>2, <3>1, <3>2 DEF RowType
    <2>3. QED
      BY <2>1, <2>2 DEF RowsChange
  <1>6. ASSUME WriteSeries(a) PROVE RowsChange(c)
    <2>1. Capped(q) \in [Events -> RowType]
      BY <1>0, RowTypes DEF q
    <2>2. \A e \in Events : \/ event[e].class \in {c, None} /\ Capped(q)[e].class \in {c, None}
                            \/ Capped(q)[e] = event[e]
      <3>1. q.kind \in {"reschedule", "cancelSeries"} /\ q.step = "Write" /\ StillRead(q)
        BY <1>6 DEF WriteSeries, MayWrite, q
      <3>2. q.read = Reading(q)
        BY <3>1 DEF StillRead, RowWriters
      <3>3. NoEvent.class = None
        BY DEF NoEvent
      <3>4. q = request[a]
        BY DEF q
      <3>5. \A e \in Events : /\ event[e].class # q.class => Capped(q)[e] = event[e]
                              /\ event[e].class = q.class => Capped(q)[e].class \in {q.class, None}
        BY <3>1, <3>2, <3>3, <3>4, CappedRow
      <3>6. QED
        BY <3>5
    <2>3. CASE q.first <= q.last
      BY <1>3, <1>6, <2>1, <2>2, <2>3 DEF WriteSeries, q
    <2>4. CASE ~(q.first <= q.last)
      <3>1. event' = Capped(q)
        BY <1>6, <2>4 DEF WriteSeries, q
      <3>2. QED
        BY <2>2, <3>1 DEF RowsChange
    <2>5. QED
      BY <2>3, <2>4
  <1>7. ASSUME WriteUncancel(a) PROVE RowsChange(c)
    <2>1. q = request[a] /\ q.step = "Write" /\ q.kind = "uncancelSeries" /\ StillRead(q)
      BY <1>7 DEF WriteUncancel, MayWrite, q
    <2>2. Insert(Uncancelled(q), NewSeries(q))
      BY <1>7 DEF WriteUncancel, Uncancelled, q
    <2>3. q.event \in Events /\ event[q.event].class = c /\ q.read = Reading(q)
      BY <2>1 DEF StillRead, RowWriters
    <2>4. /\ Uncancelled(q) \in [Events -> RowType]
          /\ \A e \in Events : \/ event[e].class \in {c, None}
                                  /\ Uncancelled(q)[e].class \in {c, None}
                               \/ Uncancelled(q)[e] = event[e]
      BY <2>1, <2>3, UncancelledRow
    <2>5. QED
      BY <1>3, <2>2, <2>4
  <1>8. ASSUME WriteOverride(a) PROVE RowsChange(c)
    BY <1>8 DEF WriteOverride, RowsChange, q
  <1>9. QED
    BY <1>0, <1>4, <1>5, <1>6, <1>7, <1>8 DEF q

\* A handler of single dates leaves the series and the requests alone.
LEMMA DatesOnly ==
    ASSUME NEW a \in Admins, SingleDate(a)
    PROVE  UNCHANGED <<event, holder, request>>
  BY DEF SingleDate, CancelDate, DeleteOverride, UncancelOverride

--------------------------------------------------------------------------------
(* The readings of every request, step by step *)

\* What a request is like when it starts.
Fresh(a, q) ==
    /\ StillRead(q) /\ q.shares = {} /\ (q.signs # "never" => a \in Instructors)
    /\ OneEditorPerClass \/ q.kind = "create" => WorkingOn(q.class) = {}
    /\ \A b \in WorkingOn(q.class) : request[b].kind # "create"
    /\ q.step \in {"Read", "Write"}
         => /\ q.kind \notin {"create", "edit"}
            /\ q.checkRoom = None /\ q.checkInstructor = None

\* A request starts with what it has just read.
LEMMA StartReads ==
    ASSUME TypeOK, NEW a \in Admins, Start(a)
    PROVE  /\ UNCHANGED <<event, override, holder>> /\ ~Busy(a)
           /\ \E q \in Request : Become(a, q) /\ Fresh(a, q)
  <1> DEFINE Started ==
               /\ UNCHANGED <<event, override, holder>> /\ ~Busy(a)
               /\ \E q \in Request : Become(a, q) /\ Fresh(a, q)
  <1>0. \A q : Become(a, q) => request'[a] = q
    BY DEF Become, TypeOK
  <1>1. TypeOK'
    BY TypeStart
  <1>2. \A q : Become(a, q) /\ q.step # "Idle" => q \in Request
    BY <1>0, <1>1 DEF TypeOK, Idle
  <1>3. ASSUME NEW q, NEW kind, NEW c, Become(a, q), UNCHANGED <<event, override, holder>>,
               MayStart(a, kind, c), q.kind = kind, q.class = c, q.step # "Idle",
               kind = "create" => WorkingOn(c) = {}, StillRead(q), q.shares = {},
               \E when : q.signs \in Signs(a, when),
               q.step \in {"Read", "Write"} => /\ kind \notin {"create", "edit"}
                                               /\ q.checkRoom = None /\ q.checkInstructor = None
        PROVE  Started
    <2>1. q \in Request
      BY <1>2, <1>3
    <2>2. q.signs # "never" => a \in Instructors
      BY <1>3 DEF Signs
    <2>3. Fresh(a, q)
      BY <1>3, <2>2 DEF Fresh, MayStart
    <2>4. QED
      BY <1>3, <2>1, <2>3 DEF MayStart
  <1> HIDE DEF Started
  <1>4. ASSUME NEW c \in Classes, NEW room \in Rooms, NEW i \in Instructors, NEW f \in Dates,
               NEW l \in Dates, CreateStart(a, c, room, i, f, l) \/ AddStart(a, c, room, i, f, l)
        PROVE  Started
    <2>1. PICK kind \in {"create", "add"}, s \in Signs(a, {"first"}) :
             /\ MayStart(a, kind, c) /\ UNCHANGED <<event, override, holder>>
             /\ kind = "create" => WorkingOn(c) = {} /\ \A e \in Events : event[e].class # c
             /\ Become(a, [step |-> "Check", kind |-> kind, class |-> c, event |-> None,
                           room |-> room, instructor |-> i, first |-> f, last |-> l,
                           checkRoom |-> room, checkInstructor |-> i, span |-> Keep,
                           read |-> NothingRead, signs |-> s, shares |-> {}])
      BY <1>4, ZenonT(30) DEF CreateStart, AddStart
    <2> DEFINE q == [step |-> "Check", kind |-> kind, class |-> c, event |-> None,
                     room |-> room, instructor |-> i, first |-> f, last |-> l,
                     checkRoom |-> room, checkInstructor |-> i, span |-> Keep,
                     read |-> NothingRead, signs |-> s, shares |-> {}]
    <2>2. StillRead(q)
      BY <2>1 DEF StillRead, RowWriters
    <2>3. /\ Become(a, q) /\ q.step = "Check" /\ q.class = c /\ q.kind = kind
          /\ q.shares = {} /\ q.signs = s
      BY <2>1
    <2> HIDE DEF q
    <2>4. \E when : q.signs \in Signs(a, when)
      BY <2>1, <2>3
    <2>5. QED
      BY <1>3, <2>1, <2>2, <2>3, <2>4
  <1>5. ASSUME NEW e \in Events, NEW room \in Rooms \cup {Keep},
               NEW i \in {Keep} \cup InstructorChoice,
               NEW span \in {Keep} \cup (IF "schedule" \in Handlers
                                         THEN {s \in Dates \X Dates : s[1] <= s[2]} ELSE {}),
               EditStart(a, e, room, i, span)
        PROVE  Started
    <2>1. PICK s \in Signs(a, {"never", "first", "last"}) :
             /\ MayStart(a, "edit", event[e].class) /\ UNCHANGED <<event, override, holder>>
             /\ IsFirst(e)
             /\ Become(a, [step |-> "EditRead", kind |-> "edit", class |-> event[e].class,
                           event |-> e, room |-> room, instructor |-> i,
                           first |-> event[e].first, last |-> event[e].last,
                           checkRoom |-> IF room \in {Keep, event[e].room} THEN None ELSE room,
                           checkInstructor |->
                               IF i \in {Keep, event[e].instructor} THEN None ELSE i,
                           span |-> span, read |-> NothingRead, signs |-> s, shares |-> {}])
      BY <1>5, ZenonT(30) DEF EditStart
    <2> DEFINE q == [step |-> "EditRead", kind |-> "edit", class |-> event[e].class,
                     event |-> e, room |-> room, instructor |-> i,
                     first |-> event[e].first, last |-> event[e].last,
                     checkRoom |-> IF room \in {Keep, event[e].room} THEN None ELSE room,
                     checkInstructor |-> IF i \in {Keep, event[e].instructor} THEN None ELSE i,
                     span |-> span, read |-> NothingRead, signs |-> s, shares |-> {}]
    <2>2. "schedule" \in Handlers \/ span = Keep
      OBVIOUS
    <2>3. StillRead(q)
      BY <2>1, <2>2 DEF StillRead, RowWriters
    <2>4. /\ Become(a, q) /\ q.step = "EditRead" /\ q.class = event[e].class /\ q.kind = "edit"
          /\ q.shares = {} /\ q.signs = s
      BY <2>1
    <2> HIDE DEF q
    <2>5. \E when : q.signs \in Signs(a, when)
      BY <2>1, <2>4
    <2>6. QED
      BY <1>3, <2>1, <2>3, <2>4, <2>5
  <1>6. ASSUME NEW e \in Events, NEW room, NEW i, NEW f, NEW l,
               \/ RescheduleStart(a, e, room, i, f, l)
               \/ l = f /\ (OverrideStart(a, e, f, room, i) \/ ChangeDateStart(a, e, f, room, i))
        PROVE  Started
    <2>1. PICK kind, check, s, when :
             /\ kind \in {"reschedule", "override", "changeDate"} /\ check \in {room, None}
             /\ s \in Signs(a, when) /\ (kind # "changeDate" => check = room)
             /\ (kind = "changeDate" => check = None)
             /\ MayStart(a, kind, event[e].class) /\ UNCHANGED <<event, override, holder>>
             /\ Become(a, [step |-> IF kind = "changeDate" THEN "Write" ELSE "Check",
                           kind |-> kind, class |-> event[e].class, event |-> e,
                           room |-> room, instructor |-> i, first |-> f, last |-> l,
                           checkRoom |-> check, checkInstructor |-> None, span |-> Keep,
                           read |-> NothingRead, signs |-> s, shares |-> {}])
      BY <1>6 DEF RescheduleStart, OverrideStart, ChangeDateStart
    <2> DEFINE q == [step |-> IF kind = "changeDate" THEN "Write" ELSE "Check",
                     kind |-> kind, class |-> event[e].class, event |-> e,
                     room |-> room, instructor |-> i, first |-> f, last |-> l,
                     checkRoom |-> check, checkInstructor |-> None, span |-> Keep,
                     read |-> NothingRead, signs |-> s, shares |-> {}]
    <2>2. StillRead(q)
      BY <2>1 DEF StillRead, RowWriters
    <2>3. /\ Become(a, q) /\ q.class = event[e].class /\ q.kind = kind
          /\ q.shares = {} /\ q.signs = s /\ q.step # "Idle"
          /\ q.step \in {"Read", "Write"}
               => kind = "changeDate" /\ q.checkRoom = None /\ q.checkInstructor = None
      BY <2>1
    <2> HIDE DEF q
    <2>4. \E w : q.signs \in Signs(a, w)
      BY <2>1, <2>3
    <2>5. QED
      BY <1>3, <2>1, <2>2, <2>3, <2>4
  <1>7. ASSUME NEW e \in Events, NEW f \in Dates,
               CancelSeriesStart(a, e, f) \/ UncancelSeriesStart(a, e, f)
        PROVE  Started
    <2>1. PICK kind, s, read :
             /\ kind \in {"cancelSeries", "uncancelSeries"} /\ s \in Signs(a, {"first"})
             /\ MayStart(a, kind, event[e].class) /\ UNCHANGED <<event, override, holder>>
             /\ f \in event[e].first .. event[e].last
             /\ kind = "uncancelSeries" =>
                  read = [NothingRead EXCEPT ![e] = <<event[e].first, event[e].last>>]
             /\ Become(a, [step |-> IF kind = "cancelSeries" THEN "Read" ELSE "Write",
                           kind |-> kind, class |-> event[e].class, event |-> e,
                           room |-> event[e].room, instructor |-> event[e].instructor,
                           first |-> f, last |-> event[e].last,
                           checkRoom |-> None, checkInstructor |-> None, span |-> Keep,
                           read |-> read, signs |-> s, shares |-> {}])
      BY <1>7 DEF CancelSeriesStart, UncancelSeriesStart
    <2> DEFINE q == [step |-> IF kind = "cancelSeries" THEN "Read" ELSE "Write",
                     kind |-> kind, class |-> event[e].class, event |-> e,
                     room |-> event[e].room, instructor |-> event[e].instructor,
                     first |-> f, last |-> event[e].last,
                     checkRoom |-> None, checkInstructor |-> None, span |-> Keep,
                     read |-> read, signs |-> s, shares |-> {}]
    <2>2. /\ Become(a, q) /\ q.class = event[e].class /\ q.kind = kind /\ q.event = e
          /\ q.shares = {} /\ q.signs = s /\ q.step \in {"Read", "Write"}
          /\ q.checkRoom = None /\ q.checkInstructor = None /\ q.read = read
          /\ q.room = event[e].room /\ q.first = f /\ q.last = event[e].last
          /\ q.step = "Write" <=> kind = "uncancelSeries"
      BY <2>1
    <2> HIDE DEF q
    <2>3. kind = "uncancelSeries" => q.read = Reading(q)
      BY <2>1, <2>2 DEF Reading, NothingRead
    <2>4. StillRead(q)
      BY <2>1, <2>2, <2>3 DEF StillRead, RowWriters
    <2>5. \E when : q.signs \in Signs(a, when)
      BY <2>1, <2>2
    <2>6. QED
      BY <1>3, <2>1, <2>2, <2>4, <2>5
  <1>8. Started
    <2>1. ASSUME NEW e \in Events, NEW d \in Dates, NEW room, NEW i,
                 OverrideStart(a, e, d, room, i) \/ ChangeDateStart(a, e, d, room, i)
          PROVE  Started
      BY <1>6, <2>1
    <2>2. ASSUME NEW e \in Events, NEW room, NEW i, NEW f, NEW l,
                 RescheduleStart(a, e, room, i, f, l)
          PROVE  Started
      BY <1>6, <2>2
    <2>3. QED
      BY <1>4, <1>5, <1>7, <2>1, <2>2 DEF Start
  <1>9. QED
    BY <1>8 DEF Started

\* The second reading of an edit finds the event it found at first.
LEMMA EditReadReads ==
    ASSUME TypeOK, NEW a \in Admins, EditRead(a), StillRead(request[a])
    PROVE  /\ UNCHANGED <<event, override, holder>>
           /\ Busy(a) /\ request[a].kind = "edit" /\ request[a].step = "EditRead"
           /\ \E r \in Request :
                /\ Become(a, r) /\ StillRead(r)
                /\ r.step = AfterRead(request[a]) /\ r.kind = "edit"
                /\ r.class = request[a].class
                /\ r.checkRoom = request[a].checkRoom
                /\ r.checkInstructor = request[a].checkInstructor
                /\ r.shares = request[a].shares /\ r.signs = request[a].signs
                /\ r.span \in {request[a].span, Keep}
  <1> DEFINE q == request[a]
  <1>1. /\ q.step = "EditRead" /\ q.kind = "edit" /\ RequestFields(q) /\ Busy(a)
        /\ q.class # None /\ UNCHANGED <<event, override, holder>>
    BY UnderWay, ZenonT(60) DEF EditRead, Busy
  <1>2. PICK e \in Events :
           /\ IsFirst(e) /\ event[e].class = q.class
           /\ Become(a, [q EXCEPT
                           !.step = AfterRead(q),
                           !.event = e,
                           !.room = IF @ = event[e].room THEN Keep ELSE @,
                           !.span = IF @ = <<event[e].first, event[e].last>> THEN Keep ELSE @])
    BY <1>1, ZenonT(60) DEF EditRead, StillRead
  <1>3. e = q.event
    <2>1. IsFirst(q.event) /\ q.event \in Events /\ event[q.event].class = q.class
      BY <1>1 DEF StillRead
    <2>2. e <= q.event /\ q.event <= e
      BY <1>2, <2>1 DEF IsFirst
    <2>3. QED
      BY <2>1, <2>2 DEF Events
  <1> DEFINE r == [q EXCEPT
                     !.step = AfterRead(q),
                     !.event = e,
                     !.room = IF @ = event[e].room THEN Keep ELSE @,
                     !.span = IF @ = <<event[e].first, event[e].last>> THEN Keep ELSE @]
  <1>4. Become(a, r) /\ r \in Request
    <2>1. request'[a] = r
      BY <1>2 DEF Become, TypeOK
    <2>2. request'[a] \in Request \cup {Idle}
      BY TypeAdvance DEF TypeOK, Advance
    <2>3. r.step \in {"Check", "Write"}
      BY <1>1 DEF RequestFields, AfterRead
    <2>4. Become(a, r)
      BY <1>2
    <2> HIDE DEF r
    <2>5. r \in Request
      BY <2>1, <2>2, <2>3 DEF Idle
    <2>6. QED
      BY <2>4, <2>5
  <1>5. /\ r.step = AfterRead(q) /\ r.event = q.event /\ r.kind = "edit" /\ r.class = q.class
        /\ r.room = (IF q.room = event[e].room THEN Keep ELSE q.room)
        /\ r.span \in {q.span, Keep} /\ r.instructor = q.instructor
        /\ r.first = q.first /\ r.last = q.last
        /\ r.checkRoom = q.checkRoom /\ r.checkInstructor = q.checkInstructor
        /\ r.shares = q.shares /\ r.signs = q.signs
    BY <1>1, <1>3 DEF RequestFields
  <1>6. r.step \in {"Check", "Write"} /\ r.room \in {Keep, q.checkRoom}
    BY <1>1, <1>3, <1>5 DEF AfterRead, StillRead
  <1> HIDE DEF q, r
  <1>7. StillRead(r)
    <2>1. StillRead(q)
      BY DEF q
    <2>2. QED
      BY <1>1, <1>3, <1>5, <1>6, <2>1 DEF StillRead, RowWriters
  <1>8. QED
    BY <1>1, <1>4, <1>5, <1>7 DEF q

\* All of a request but the rows it shares.
SameButShares(r, q) ==
    /\ r.step = q.step /\ r.kind = q.kind /\ r.class = q.class /\ r.event = q.event
    /\ r.room = q.room /\ r.instructor = q.instructor /\ r.first = q.first /\ r.last = q.last
    /\ r.checkRoom = q.checkRoom /\ r.checkInstructor = q.checkInstructor
    /\ r.span = q.span /\ r.read = q.read /\ r.signs = q.signs

\* Sharing a row changes nothing else of a request.
LEMMA ReferShares ==
    ASSUME TypeOK, NEW a \in Admins, Refer(a)
    PROVE  \E r \in Request, x \in Needs(a) :
              /\ Become(a, r) /\ SameButShares(r, request[a])
              /\ r.shares = request[a].shares \cup {x} /\ holder[x] = None
  <1>1. RequestFields(request[a]) /\ request[a].step = "Write"
    BY UnderWay DEF Refer, Busy
  <1>2. PICK x \in Needs(a) :
           holder[x] = None /\ Become(a, [request[a] EXCEPT !.shares = @ \cup {x}])
    BY DEF Refer
  <1> DEFINE r == [request[a] EXCEPT !.shares = @ \cup {x}]
  <1>3. SameButShares(r, request[a]) /\ r.shares = request[a].shares \cup {x}
    BY <1>1 DEF RequestFields, SameButShares
  <1>4. Become(a, r)
    BY <1>2
  <1>5. request'[a] = r
    BY <1>2 DEF Become, TypeOK
  <1> HIDE DEF r
  <1>6. r \in Request
    <2>1. request'[a] \in Request \cup {Idle}
      BY TypeAdvance DEF TypeOK, Advance
    <2>2. QED
      BY <1>1, <1>3, <1>5, <2>1 DEF SameButShares, Idle
  <1>7. QED
    BY <1>2, <1>3, <1>4, <1>6

\* Only a request under way is ended by a deadlock.
LEMMA DeadlockFinish ==
    ASSUME NEW a \in Admins, DeadlockEnds(a)
    PROVE  Finish(a) /\ UNCHANGED <<event, override>> /\ Busy(a)
  <1>1. Needs(a) # {}
    BY DEF DeadlockEnds, WaitsFor
  <1>2. Busy(a)
    BY <1>1 DEF Needs, Busy
  <1>3. QED
    BY <1>2 DEF DeadlockEnds

\* So every step of any handler keeps the readings, while no two requests work on a class.
LEMMA ReadsStep ==
    ASSUME TypeOK, OneRequestPerClass, ReadsHold, [Next]_vars
    PROVE  ReadsHold'
  <1>1. ASSUME NEW a \in Admins, NEW q \in Request, Become(a, q), UNCHANGED event, StillRead(q)
        PROVE  ReadsHold'
    <2>1. request'[a] = q /\ \A b \in Admins \ {a} : request'[b] = request[b]
      BY <1>1 DEF Become, TypeOK
    <2>2. ASSUME NEW b \in Admins, Busy(b)' PROVE StillRead(request'[b])
      <3>1. CASE b = a
        BY <1>1, <2>1, <3>1
      <3>2. CASE b # a
        BY <2>1, <2>2, <3>2 DEF ReadsHold, Busy
      <3>3. QED
        BY <3>1, <3>2
    <2>3. QED
      BY <1>1, <2>2, EventsRead DEF ReadsHold, StillRead, IsFirst, Reading
  <1>2. ASSUME NEW a \in Admins, Finish(a), RowsChange(request[a].class), Busy(a)
        PROVE  ReadsHold'
    <2>1. request'[a] = Idle /\ \A b \in Admins \ {a} : request'[b] = request[b]
      BY <1>2 DEF Finish, Become, TypeOK
    <2>2. ASSUME NEW b \in Admins, NEW q, request'[b] = q, Busy(b)' PROVE StillRead(q)'
      <3>1. b # a /\ request[b] = q
        BY <2>1, <2>2 DEF Busy, Idle
      <3>2. Busy(b)
        BY <2>1, <2>2, <3>1 DEF Busy
      <3>3. q.class # request[a].class /\ q.class # None /\ StillRead(q)
        BY <1>2, <3>1, <3>2, UnderWay DEF OneRequestPerClass, ReadsHold
      <3>4. QED
        BY <1>2, <3>3, OthersRead
    <2>3. QED
      BY <2>2 DEF ReadsHold
  <1>3. ASSUME UNCHANGED <<event, request>> PROVE ReadsHold'
    BY <1>3 DEF ReadsHold, StillRead, IsFirst, Reading, Busy
  <1>4. ASSUME NEW a \in Admins, Start(a) PROVE ReadsHold'
    BY <1>1, <1>4, StartReads DEF Fresh
  <1>5. ASSUME NEW a \in Admins, EditRead(a) PROVE ReadsHold'
    <2>1. StillRead(request[a])
      BY <1>5 DEF EditRead, ReadsHold, Busy
    <2>2. QED
      BY <1>1, <1>5, <2>1, EditReadReads
  <1>6. ASSUME NEW a \in Admins, Lock(a) PROVE ReadsHold'
    BY <1>3, <1>6 DEF Lock
  <1>7. ASSUME NEW a \in Admins, Check(a) PROVE ReadsHold'
    <2>1. /\ request[a].step = "Check" /\ Busy(a) /\ UNCHANGED event
          /\ StillRead(request[a]) /\ RequestFields(request[a])
      BY <1>7, UnderWay DEF Check, ReadsHold, Busy
    <2>2. CASE Finish(a)
      BY <1>2, <2>1, <2>2 DEF RowsChange
    <2> DEFINE q == [request[a] EXCEPT !.step = AfterCheck(request[a])]
    <2>3. CASE Become(a, q)
      <3>1. /\ q.step = AfterCheck(request[a]) /\ q.kind = request[a].kind
            /\ q.class = request[a].class
            /\ q.event = request[a].event /\ q.room = request[a].room
            /\ q.instructor = request[a].instructor /\ q.first = request[a].first
            /\ q.last = request[a].last /\ q.checkRoom = request[a].checkRoom
            /\ q.checkInstructor = request[a].checkInstructor /\ q.span = request[a].span
        BY <2>1 DEF RequestFields
      <3>2. q \in Request
        <4>1. request'[a] = q
          BY <2>3 DEF Become, TypeOK
        <4>2. request'[a] \in Request \cup {Idle}
          BY <1>7, TypeAdvance DEF TypeOK, Advance
        <4> HIDE DEF q
        <4>3. q.step \in {"Read", "Write"}
          BY <3>1 DEF AfterCheck
        <4>4. QED
          BY <4>1, <4>2, <4>3 DEF Idle
      <3> HIDE DEF q
      <3>3. StillRead(q)
        BY <2>1, <3>1 DEF StillRead, RowWriters, AfterCheck
      <3>4. QED
        BY <1>1, <2>1, <2>3, <3>2, <3>3
    <2>4. QED
      BY <1>7, <2>2, <2>3 DEF Check
  <1>R. ASSUME NEW a \in Admins, SeriesRead(a) PROVE ReadsHold'
    <2>1. /\ request[a].step = "Read" /\ Busy(a) /\ UNCHANGED event
          /\ StillRead(request[a]) /\ RequestFields(request[a])
      BY <1>R, UnderWay DEF SeriesRead, ReadsHold, Busy
    <2> DEFINE q == [request[a] EXCEPT !.step = "Write", !.read = Reading(request[a])]
    <2>2. Become(a, q)
      BY <1>R DEF SeriesRead
    <2>3. /\ q.step = "Write" /\ q.kind = request[a].kind /\ q.class = request[a].class
          /\ q.event = request[a].event /\ q.room = request[a].room
          /\ q.instructor = request[a].instructor /\ q.first = request[a].first
          /\ q.last = request[a].last /\ q.checkRoom = request[a].checkRoom
          /\ q.checkInstructor = request[a].checkInstructor /\ q.span = request[a].span
          /\ q.read = Reading(request[a])
      BY <2>1 DEF RequestFields
    <2>4. q \in Request
      <3>1. request'[a] = q
        BY <2>2 DEF Become, TypeOK
      <3>2. request'[a] \in Request \cup {Idle}
        BY <1>R, TypeAdvance DEF TypeOK, Advance
      <3> HIDE DEF q
      <3>3. QED
        BY <2>3, <3>1, <3>2 DEF Idle
    <2> HIDE DEF q
    <2>5. q.read = Reading(q)
      BY <2>3 DEF Reading
    <2>6. StillRead(q)
      BY <2>1, <2>3, <2>5 DEF StillRead, RowWriters
    <2>7. QED
      BY <1>1, <2>1, <2>2, <2>4, <2>6
  <1>S. ASSUME NEW a \in Admins, Refer(a) PROVE ReadsHold'
    <2>1. /\ Busy(a) /\ UNCHANGED event /\ StillRead(request[a])
      BY <1>S DEF Refer, ReadsHold, Busy
    <2>2. PICK r \in Request : Become(a, r) /\ SameButShares(r, request[a])
      BY <1>S, ReferShares
    <2>3. Reading(r) = Reading(request[a])
      BY <2>2 DEF SameButShares, Reading
    <2>4. StillRead(r)
      BY <2>1, <2>2, <2>3 DEF StillRead, SameButShares, RowWriters
    <2>5. QED
      BY <1>1, <2>1, <2>2, <2>4
  <1>D. ASSUME NEW a \in Admins, DeadlockEnds(a) PROVE ReadsHold'
    <2>1. Finish(a) /\ UNCHANGED event /\ Busy(a)
      BY <1>D, DeadlockFinish
    <2>2. QED
      BY <1>2, <2>1 DEF RowsChange
  <1>8. ASSUME NEW a \in Admins,
               WriteNew(a) \/ WriteEdit(a) \/ WriteSeries(a) \/ WriteUncancel(a)
               \/ WriteOverride(a)
        PROVE  ReadsHold'
    <2>1. StillRead(request[a])
      BY <1>8 DEF ReadsHold, Busy, WriteNew, WriteEdit, WriteSeries, WriteUncancel,
                  WriteOverride, MayWrite
    <2>2. request[a].step = "Write" /\ Finish(a) /\ RowsChange(request[a].class)
      BY <1>8, <2>1, WritesOwnRows
    <2>3. QED
      BY <1>2, <2>2 DEF Busy
  <1>9. ASSUME NEW a \in Admins, SingleDate(a) PROVE ReadsHold'
    BY <1>3, <1>9, DatesOnly
  <1>10. CASE UNCHANGED vars
    BY <1>3, <1>10 DEF vars
  <1>11. QED
    BY <1>4, <1>5, <1>6, <1>7, <1>R, <1>S, <1>D, <1>8, <1>9, <1>10 DEF Next, Advance

\* No two requests work on a class when the handlers' users see to it.
LEMMA OneRequestStep ==
    ASSUME TypeOK, OneEditorPerClass, OneRequestPerClass, ReadsHold, [Next]_vars
    PROVE  OneRequestPerClass'
  <1>1. ASSUME NEW a \in Admins, NEW q, Become(a, q),
               \/ q.step = "Idle"
               \/ WorkingOn(q.class) = {}
               \/ Busy(a) /\ q.class = request[a].class
        PROVE  OneRequestPerClass'
    <2>1. request'[a] = q /\ \A b \in Admins \ {a} : request'[b] = request[b]
      BY <1>1 DEF Become, TypeOK
    <2>2. CASE q.step = "Idle"
      BY <2>1, <2>2 DEF OneRequestPerClass, Busy
    <2>3. CASE WorkingOn(q.class) = {}
      BY <2>1, <2>3 DEF OneRequestPerClass, Busy, WorkingOn
    <2>4. CASE Busy(a) /\ q.class = request[a].class
      BY <2>1, <2>4 DEF OneRequestPerClass, Busy
    <2>5. QED
      BY <1>1, <2>2, <2>3, <2>4
  <1>2. Idle.step = "Idle"
    BY DEF Idle
  <1>3. ASSUME NEW a \in Admins, Start(a) PROVE OneRequestPerClass'
    BY <1>1, <1>3, StartReads DEF Fresh
  <1>4. ASSUME NEW a \in Admins, EditRead(a) PROVE OneRequestPerClass'
    <2>1. StillRead(request[a])
      BY <1>4 DEF EditRead, ReadsHold, Busy
    <2>2. QED
      BY <1>1, <1>4, <2>1, EditReadReads
  <1>5. ASSUME NEW a \in Admins, Check(a) PROVE OneRequestPerClass'
    <2>1. Busy(a) /\ RequestFields(request[a])
      BY <1>5, UnderWay DEF Check, Busy
    <2>2. \A s : [request[a] EXCEPT !.step = s].class = request[a].class
      BY <2>1 DEF RequestFields
    <2>3. QED
      BY <1>1, <1>2, <1>5, <2>1, <2>2 DEF Check, Finish
  <1>6. ASSUME NEW a \in Admins, Finish(a) PROVE OneRequestPerClass'
    BY <1>1, <1>2, <1>6 DEF Finish
  <1>7. ASSUME UNCHANGED request PROVE OneRequestPerClass'
    BY <1>7 DEF OneRequestPerClass, Busy
  <1>R. ASSUME NEW a \in Admins, SeriesRead(a) PROVE OneRequestPerClass'
    <2>1. Busy(a) /\ RequestFields(request[a])
      BY <1>R, UnderWay DEF SeriesRead, Busy
    <2>2. [request[a] EXCEPT !.step = "Write", !.read = Reading(request[a])].class
             = request[a].class
      BY <2>1 DEF RequestFields
    <2>3. QED
      BY <1>1, <1>R, <2>1, <2>2 DEF SeriesRead
  <1>S. ASSUME NEW a \in Admins, Refer(a) PROVE OneRequestPerClass'
    BY <1>1, <1>S, ReferShares DEF SameButShares, Refer, Busy
  <1>8. ASSUME NEW a \in Admins, Advance(a) PROVE OneRequestPerClass'
    BY <1>4, <1>5, <1>6, <1>7, <1>R, <1>S, <1>8
       DEF Advance, Lock, WriteNew, WriteEdit, WriteSeries, WriteUncancel, WriteOverride
  <1>9. QED
    BY <1>3, <1>6, <1>7, <1>8, DatesOnly, DeadlockFinish DEF Next, vars

\* What requests read holds, whatever the handlers, while no two requests work on a class.
LEMMA EditorsRead ==
    ASSUME OneEditorPerClass
    PROVE  Spec => [](OneRequestPerClass /\ ReadsHold)
  <1>1. Init => OneRequestPerClass /\ ReadsHold
    BY DEF Init, OneRequestPerClass, ReadsHold, Busy, Idle
  <1>2. TypeOK /\ OneRequestPerClass /\ ReadsHold /\ [Next]_vars
          => OneRequestPerClass' /\ ReadsHold'
    BY ReadsStep, OneRequestStep
  <1>3. QED
    BY <1>1, <1>2, TypeCorrect, PTL DEF Spec

--------------------------------------------------------------------------------
(* Waiting for row locks *)

Checked(q) == {q.checkRoom, q.checkInstructor} \ {None}

\* Only a request that checks under the lock holds rows, of those it checks, and the
\* instructor's only after the room's.
HoldersInOrder ==
    \A a \in Admins, x \in Resources : holder[x] = a =>
        LET q == request[a] IN
        /\ q.step \in {"Check", "Write"} /\ q.kind \in {"create", "edit"} /\ x \in Checked(q)
        /\ x \in Instructors /\ q.checkRoom # None => holder[q.checkRoom] = a

\* It holds them all when it writes.
WritersHold ==
    \A a \in Admins :
        request[a].step = "Write" /\ request[a].kind \in {"create", "edit"}
        => \A x \in Checked(request[a]) : holder[x] = a

\* A row is locked by one request or shared by any number.
SharedUnlocked == \A a \in Admins : \A x \in request[a].shares : holder[x] = None

\* Only a write shares rows: the room, the instructor and the sender's own.  If it has not
\* locked the room before, it shares the room before the instructor.
SharesInOrder ==
    \A a \in Admins :
        LET q == request[a] IN
        /\ q.step # "Write" => q.shares = {}
        /\ q.shares \subseteq {q.room, q.instructor, a}
        /\ q.kind \notin {"create", "edit"} /\ q.room \in Rooms /\ q.instructor \in q.shares \ {a}
             => q.room \in q.shares

\* The locking rules, which no step breaks.
WaitInv == HoldersInOrder /\ WritersHold /\ SharedUnlocked /\ SharesInOrder

\* A request that starts, or that has read again, holds no row.
LEMMA NothingLocked ==
    ASSUME HoldersInOrder, NEW a \in Admins, request[a].step \notin {"Check", "Write"}
    PROVE  \A x \in Resources : holder[x] # a
  BY DEF HoldersInOrder

\* The locking rules hold after a request has changed and the locks have not.
LEMMA LocksKept ==
    ASSUME TypeOK, WaitInv, NEW a \in Admins, NEW q \in Request, Become(a, q), UNCHANGED holder,
           \/ \A x \in Resources : holder[x] # a
           \/ /\ Busy(a) /\ q.kind = request[a].kind /\ q.step \in {"Check", "Write"}
              /\ Checked(q) = Checked(request[a]) /\ q.checkRoom = request[a].checkRoom,
           q.step = "Write" /\ q.kind \in {"create", "edit"}
             => \A x \in Checked(q) : holder[x] = a,
           q.shares = {}
    PROVE  WaitInv'
  <1>1. request'[a] = q /\ \A b \in Admins \ {a} : request'[b] = request[b]
    BY DEF Become, TypeOK
  <1>2. HoldersInOrder'
    <2>1. SUFFICES ASSUME NEW b \in Admins, NEW x \in Resources, holder[x] = b
                   PROVE  LET r == request'[b] IN
                          /\ r.step \in {"Check", "Write"} /\ r.kind \in {"create", "edit"}
                          /\ x \in {r.checkRoom, r.checkInstructor} \ {None}
                          /\ x \in Instructors /\ r.checkRoom # None => holder[r.checkRoom] = b
      BY DEF HoldersInOrder, Checked
    <2>2. CASE b = a
      BY <1>1, <2>1, <2>2 DEF WaitInv, HoldersInOrder, Checked
    <2>3. CASE b # a
      BY <1>1, <2>1, <2>3 DEF WaitInv, HoldersInOrder, Checked
    <2>4. QED
      BY <2>2, <2>3
  <1>3. WritersHold'
    <2>1. SUFFICES ASSUME NEW b \in Admins, request'[b].step = "Write",
                          request'[b].kind \in {"create", "edit"},
                          NEW x \in {request'[b].checkRoom, request'[b].checkInstructor} \ {None}
                   PROVE  holder[x] = b
      BY DEF WritersHold, Checked
    <2>2. CASE b = a
      BY <1>1, <2>1, <2>2 DEF Checked
    <2>3. CASE b # a
      BY <1>1, <2>1, <2>3 DEF WaitInv, WritersHold, Checked
    <2>4. QED
      BY <2>2, <2>3
  <1>4. SharedUnlocked' /\ SharesInOrder'
    BY <1>1 DEF WaitInv, SharedUnlocked, SharesInOrder
  <1>5. QED
    BY <1>2, <1>3, <1>4 DEF WaitInv

\* A request that ends gives up its own locks only.
LEMMA LocksReleased ==
    ASSUME TypeOK, WaitInv, NEW a \in Admins, Finish(a)
    PROVE  WaitInv'
  <1>1. request'[a] = Idle /\ \A b \in Admins \ {a} : request'[b] = request[b]
    BY DEF Finish, Become, TypeOK
  <1>2. \A x \in Resources : holder'[x] = IF holder[x] = a THEN None ELSE holder[x]
    BY DEF Finish, Release
  <1>3. Idle.step = "Idle" /\ None \notin Admins
    BY NoneAssumption DEF Idle
  <1>4. \A b \in Admins \ {a}, x \in Resources : holder'[x] = b <=> holder[x] = b
    BY <1>2, <1>3
  <1>5. \A x \in Resources : holder'[x] # a
    BY <1>2, <1>3
  <1>6. HoldersInOrder'
    <2>1. SUFFICES ASSUME NEW b \in Admins, NEW x \in Resources, holder'[x] = b
                   PROVE  LET r == request'[b] IN
                          /\ r.step \in {"Check", "Write"} /\ r.kind \in {"create", "edit"}
                          /\ x \in {r.checkRoom, r.checkInstructor} \ {None}
                          /\ x \in Instructors /\ r.checkRoom # None => holder'[r.checkRoom] = b
      BY DEF HoldersInOrder, Checked
    <2>2. b # a /\ holder[x] = b /\ request'[b] = request[b]
      BY <1>1, <1>4, <1>5, <2>1
    <2>3. Busy(b) /\ request[b].checkRoom \in Rooms \cup {None}
      <3>1. Busy(b)
        BY <2>2 DEF WaitInv, HoldersInOrder, Busy
      <3>2. QED
        BY <3>1, UnderWay DEF RequestFields
    <2>4. QED
      BY <1>4, <2>2, <2>3 DEF WaitInv, HoldersInOrder, Checked, Resources
  <1>7. WritersHold'
    <2>1. SUFFICES ASSUME NEW b \in Admins, request'[b].step = "Write",
                          request'[b].kind \in {"create", "edit"},
                          NEW x \in {request'[b].checkRoom, request'[b].checkInstructor} \ {None}
                   PROVE  holder'[x] = b
      BY DEF WritersHold, Checked
    <2>2. b # a /\ request'[b] = request[b]
      BY <1>1, <1>3, <2>1
    <2>3. holder[x] = b
      BY <2>1, <2>2 DEF WaitInv, WritersHold, Checked
    <2>4. x \in Resources
      <3>1. Busy(b)
        BY <2>1, <2>2 DEF Busy
      <3>2. request[b].checkRoom \in Rooms \cup {None}
            /\ request[b].checkInstructor \in Instructors \cup {None}
        BY <3>1, UnderWay DEF RequestFields
      <3>3. QED
        BY <2>1, <2>2, <3>2 DEF Resources
    <2>5. QED
      BY <1>4, <2>2, <2>3, <2>4
  <1>8. SharedUnlocked' /\ SharesInOrder'
    <2>1. request'[a].shares = {} /\ request'[a].step = "Idle"
      BY <1>1 DEF Idle
    <2>2. \A b \in Admins \ {a} : \A x \in request[b].shares : x \in Resources
      <3>1. \A b \in Admins : Busy(b) => request[b].shares \in SUBSET Resources
        BY UnderWay DEF RequestFields
      <3>2. \A b \in Admins : ~Busy(b) => request[b].shares = {}
        BY DEF TypeOK, Busy, Idle, WaitInv, SharesInOrder
      <3>3. QED
        BY <3>1, <3>2
    <2>3. SharedUnlocked'
      BY <1>1, <1>2, <2>1, <2>2 DEF WaitInv, SharedUnlocked
    <2>4. SharesInOrder'
      BY <1>1, <2>1 DEF WaitInv, SharesInOrder
    <2>5. QED
      BY <2>3, <2>4
  <1>9. QED
    BY <1>6, <1>7, <1>8 DEF WaitInv

\* The row a request wants next, read clause by clause.
LEMMA WantedRow ==
    ASSUME TypeOK, NEW a \in Admins, Busy(a)
    PROVE  LET q == request[a] IN
           /\ Wanted(a) # None =>
                /\ q.kind \in {"create", "edit"} /\ Wanted(a) \in Checked(q)
                /\ Wanted(a) \in Resources
                /\ Wanted(a) \in Instructors /\ q.checkRoom # None => holder[q.checkRoom] = a
                /\ Wanted(a) \in Rooms => Wanted(a) = q.checkRoom /\ holder[q.checkRoom] # a
           /\ Wanted(a) = None /\ q.kind \in {"create", "edit"}
                => \A x \in Checked(q) : holder[x] = a
  <1> DEFINE q == request[a]
  <1>1. /\ q.checkRoom \in Rooms \cup {None} /\ q.checkInstructor \in Instructors \cup {None}
    BY UnderWay DEF RequestFields
  <1>2. None \notin Rooms \cup Instructors /\ Rooms \cap Instructors = {}
    BY NoneAssumption, ResourcesAssumption
  <1>3. CASE q.kind \notin {"create", "edit"}
    BY <1>3 DEF Wanted
  <1>4. CASE q.kind \in {"create", "edit"} /\ q.checkRoom # None /\ holder[q.checkRoom] # a
    <2>1. Wanted(a) = q.checkRoom
      BY <1>4 DEF Wanted
    <2>2. QED
      BY <1>1, <1>2, <1>4, <2>1 DEF Checked, Resources
  <1>5. CASE q.kind \in {"create", "edit"} /\ (q.checkRoom # None => holder[q.checkRoom] = a)
    <2>1. Wanted(a) = IF q.checkInstructor = None \/ holder[q.checkInstructor] = a
                      THEN None ELSE q.checkInstructor
      BY <1>5 DEF Wanted
    <2>2. QED
      BY <1>1, <1>2, <1>5, <2>1 DEF Checked, Resources
  <1>6. QED
    BY <1>3, <1>4, <1>5

\* Locking takes the next row, which nobody holds.
LEMMA LockInOrder ==
    ASSUME TypeOK, WaitInv, NEW a \in Admins, Lock(a)
    PROVE  WaitInv'
  <1> DEFINE w == Wanted(a)
  <1>1. /\ request[a].step = "Check" /\ Busy(a) /\ w # None /\ holder[w] = None
        /\ holder' = [holder EXCEPT ![w] = a] /\ UNCHANGED request
    BY DEF Lock, Busy
  <1>2. /\ request[a].kind \in {"create", "edit"} /\ w \in Checked(request[a])
        /\ w \in Resources
        /\ w \in Instructors /\ request[a].checkRoom # None => holder[request[a].checkRoom] = a
    BY <1>1, WantedRow
  <1> HIDE DEF w
  <1>3. holder'[w] = a /\ \A x \in Resources \ {w} : holder'[x] = holder[x]
    BY <1>1, <1>2 DEF TypeOK
  <1>4. \A b \in Admins, x \in Resources : holder[x] = b => holder'[x] = b
    BY <1>1, <1>3, NoneAssumption
  <1>5. HoldersInOrder'
    <2>1. SUFFICES ASSUME NEW b \in Admins, NEW x \in Resources, holder'[x] = b
                   PROVE  LET r == request[b] IN
                          /\ r.step \in {"Check", "Write"} /\ r.kind \in {"create", "edit"}
                          /\ x \in Checked(r)
                          /\ x \in Instructors /\ r.checkRoom # None => holder'[r.checkRoom] = b
      BY <1>1 DEF HoldersInOrder, Checked
    <2>2. Busy(b) => request[b].checkRoom \in Rooms \cup {None}
      BY UnderWay DEF RequestFields
    <2>3. CASE x = w
      <3>1. b = a
        BY <1>3, <2>1, <2>3
      <3>2. QED
        BY <1>1, <1>2, <1>4, <2>2, <2>3, <3>1 DEF Resources
    <2>4. CASE x # w
      <3>1. holder[x] = b
        BY <1>3, <2>1, <2>4
      <3>2. QED
        BY <1>4, <2>2, <3>1 DEF WaitInv, HoldersInOrder, Resources, Busy
    <2>5. QED
      BY <2>3, <2>4
  <1>6. WritersHold'
    <2>1. SUFFICES ASSUME NEW b \in Admins, request[b].step = "Write",
                          request[b].kind \in {"create", "edit"}, NEW x \in Checked(request[b])
                   PROVE  holder'[x] = b
      BY <1>1 DEF WritersHold, Checked
    <2>2. holder[x] = b
      BY <2>1 DEF WaitInv, WritersHold
    <2>3. x \in Resources
      <3>1. Busy(b)
        BY <2>1 DEF Busy
      <3>2. request[b].checkRoom \in Rooms \cup {None}
            /\ request[b].checkInstructor \in Instructors \cup {None}
        BY <3>1, UnderWay DEF RequestFields
      <3>3. QED
        BY <3>2 DEF Resources, Checked
    <2>4. QED
      BY <1>4, <2>2, <2>3
  <1>7. SharedUnlocked' /\ SharesInOrder'
    <2>1. \A b \in Admins : w \notin request[b].shares
      BY DEF Lock, w
    <2>2. \A x : x # w => holder'[x] = holder[x]
      BY <1>1, <1>2 DEF TypeOK
    <2>3. SharedUnlocked'
      BY <1>1, <2>1, <2>2 DEF WaitInv, SharedUnlocked
    <2>4. SharesInOrder'
      BY <1>1 DEF WaitInv, SharesInOrder
    <2>5. QED
      BY <2>3, <2>4
  <1>8. QED
    BY <1>5, <1>6, <1>7 DEF WaitInv

\* Sharing takes the next row that is left to share, which nobody holds.
LEMMA ReferInOrder ==
    ASSUME TypeOK, WaitInv, NEW a \in Admins, Refer(a)
    PROVE  WaitInv'
  <1> DEFINE q == request[a]
  <1>1. PICK r \in Request, x \in Needs(a) :
           /\ Become(a, r) /\ SameButShares(r, q)
           /\ r.shares = q.shares \cup {x} /\ holder[x] = None
    BY ReferShares
  <1>2. /\ request'[a] = r /\ \A b \in Admins \ {a} : request'[b] = request[b]
        /\ UNCHANGED holder /\ q.step = "Write" /\ Busy(a) /\ RequestFields(q)
    BY <1>1, UnderWay DEF Refer, Become, TypeOK, Busy
  <1>3. /\ x \in Resources /\ x \in {q.room, q.instructor, a}
        /\ x \in ToShare(a) /\ \A y \in ToShare(a) : Turn(a, x) <= Turn(a, y)
    BY <1>2 DEF Needs, ToShare, Referenced
  <1> HIDE DEF q
  <1>4. HoldersInOrder'
    <2>1. SUFFICES ASSUME NEW b \in Admins, NEW y \in Resources, holder[y] = b
                   PROVE  LET p == request'[b] IN
                          /\ p.step \in {"Check", "Write"} /\ p.kind \in {"create", "edit"}
                          /\ y \in {p.checkRoom, p.checkInstructor} \ {None}
                          /\ y \in Instructors /\ p.checkRoom # None => holder[p.checkRoom] = b
      BY <1>2 DEF HoldersInOrder, Checked
    <2>2. /\ request'[b].step = request[b].step /\ request'[b].kind = request[b].kind
          /\ request'[b].checkRoom = request[b].checkRoom
          /\ request'[b].checkInstructor = request[b].checkInstructor
      BY <1>1, <1>2 DEF SameButShares, q
    <2>3. QED
      BY <2>1, <2>2 DEF WaitInv, HoldersInOrder, Checked
  <1>5. WritersHold'
    <2>1. \A b \in Admins :
             /\ request'[b].step = request[b].step /\ request'[b].kind = request[b].kind
             /\ request'[b].checkRoom = request[b].checkRoom
             /\ request'[b].checkInstructor = request[b].checkInstructor
      BY <1>1, <1>2 DEF SameButShares, q
    <2>2. QED
      BY <1>2, <2>1 DEF WaitInv, WritersHold, Checked
  <1>6. SharedUnlocked'
    BY <1>1, <1>2 DEF WaitInv, SharedUnlocked, q
  <1>7. ASSUME q.kind \notin {"create", "edit"}, q.room \in Rooms,
               q.instructor \in r.shares \ {a}
        PROVE  q.room \in r.shares
    <2>1. CASE q.instructor \in q.shares
      BY <1>1, <1>7, <2>1 DEF WaitInv, SharesInOrder, q
    <2>2. CASE q.instructor = x
      <3>1. SUFFICES ASSUME q.room \notin r.shares PROVE FALSE
        OBVIOUS
      <3>2. holder[q.room] # a
        BY <1>7 DEF WaitInv, HoldersInOrder, Resources, q
      <3>3. q.room \in ToShare(a)
        BY <1>1, <1>7, <3>1, <3>2 DEF ToShare, Referenced, Resources, q
      <3>4. x # q.room
        BY <1>1, <3>1
      <3>5. Turn(a, x) = 2 /\ Turn(a, q.room) \in {0, 1}
        BY <1>7, <2>2, <3>4 DEF Turn, q
      <3>6. QED
        BY <1>3, <3>3, <3>5
    <2>3. QED
      BY <1>1, <1>7, <2>1, <2>2
  <1>8. SharesInOrder'
    <2>1. /\ r.step = "Write" /\ r.kind = q.kind /\ r.room = q.room
          /\ r.instructor = q.instructor
      BY <1>1, <1>2 DEF SameButShares
    <2>2. r.shares \subseteq {q.room, q.instructor, a}
      BY <1>1, <1>3 DEF WaitInv, SharesInOrder, q
    <2>3. QED
      BY <1>2, <1>7, <2>1, <2>2 DEF WaitInv, SharesInOrder
  <1>9. QED
    BY <1>4, <1>5, <1>6, <1>8 DEF WaitInv

\* Every step of any handler keeps to the order.
LEMMA WaitStep ==
    ASSUME TypeOK, ReadsHold, WaitInv, [Next]_vars
    PROVE  WaitInv'
  <1>0. \A a \in Admins : request[a].step # "Write" => request[a].shares = {}
    BY DEF WaitInv, SharesInOrder
  <1>1. ASSUME NEW a \in Admins, Start(a) PROVE WaitInv'
    <2>1. ~Busy(a) /\ UNCHANGED holder
      BY <1>1, StartReads
    <2>2. PICK q \in Request : Become(a, q) /\ Fresh(a, q)
      BY <1>1, StartReads
    <2>3. \A x \in Resources : holder[x] # a
      BY <2>1, NothingLocked DEF Busy, WaitInv
    <2>4. /\ q.shares = {} /\ (q.step = "Write" => q.kind \notin {"create", "edit"})
      BY <2>2 DEF Fresh
    <2>5. QED
      BY <2>1, <2>2, <2>3, <2>4, LocksKept
  <1>2. ASSUME NEW a \in Admins, EditRead(a) PROVE WaitInv'
    <2>1. StillRead(request[a])
      BY <1>2 DEF EditRead, ReadsHold, Busy
    <2>2. UNCHANGED holder /\ request[a].step = "EditRead"
      BY <1>2, <2>1, EditReadReads
    <2>3. PICK q \in Request :
             /\ Become(a, q) /\ q.step = AfterRead(request[a])
             /\ q.checkRoom = request[a].checkRoom
             /\ q.checkInstructor = request[a].checkInstructor
             /\ q.shares = request[a].shares
      BY <1>2, <2>1, EditReadReads
    <2>4. \A x \in Resources : holder[x] # a
      BY <2>2, NothingLocked DEF WaitInv
    <2>5. q.step = "Write" => Checked(q) = {}
      BY <2>3 DEF AfterRead, Checked
    <2>6. q.shares = {}
      BY <1>0, <2>2, <2>3
    <2>7. QED
      BY <2>2, <2>3, <2>4, <2>5, <2>6, LocksKept
  <1>3. ASSUME NEW a \in Admins, Check(a) PROVE WaitInv'
    <2>1. /\ request[a].step = "Check" /\ Busy(a) /\ RequestFields(request[a])
          /\ Wanted(a) = None /\ request[a].shares = {}
      BY <1>0, <1>3, UnderWay DEF Check, Busy
    <2> DEFINE q == [request[a] EXCEPT !.step = AfterCheck(request[a])]
    <2>2. CASE Become(a, q) /\ UNCHANGED holder
      <3>1. /\ q.step = AfterCheck(request[a]) /\ q.kind = request[a].kind
            /\ q.checkRoom = request[a].checkRoom /\ q.checkInstructor = request[a].checkInstructor
            /\ q.shares = {}
        BY <2>1 DEF RequestFields
      <3>2. q \in Request
        <4>1. request'[a] = q
          BY <2>2 DEF Become, TypeOK
        <4>2. request'[a] \in Request \cup {Idle}
          BY <1>3, TypeAdvance DEF TypeOK, Advance
        <4>3. q.step # "Idle"
          BY <3>1 DEF AfterCheck
        <4> HIDE DEF q
        <4>4. QED
          BY <4>1, <4>2, <4>3 DEF Idle
      <3> HIDE DEF q
      <3>3. Checked(q) = Checked(request[a])
        BY <3>1 DEF Checked
      <3>4. q.kind \in {"create", "edit"} => \A x \in Checked(q) : holder[x] = a
        BY <2>1, <3>1, <3>3, WantedRow
      <3>5. q.step = "Write" \/ \A x \in Resources : holder[x] # a
        <4>1. CASE q.kind = "reschedule"
          BY <3>1, <4>1 DEF WaitInv, HoldersInOrder
        <4>2. CASE q.kind # "reschedule"
          BY <3>1, <4>2 DEF AfterCheck
        <4>3. QED
          BY <4>1, <4>2
      <3>6. QED
        BY <2>1, <2>2, <3>1, <3>2, <3>3, <3>4, <3>5, LocksKept
    <2>3. QED
      BY <1>3, <2>2, LocksReleased DEF Check
  <1>4. ASSUME NEW a \in Admins, SeriesRead(a) PROVE WaitInv'
    <2>1. /\ request[a].step = "Read" /\ Busy(a) /\ RequestFields(request[a])
          /\ StillRead(request[a]) /\ request[a].shares = {} /\ UNCHANGED holder
      BY <1>0, <1>4, UnderWay DEF SeriesRead, ReadsHold, Busy
    <2>2. \A x \in Resources : holder[x] # a
      BY <2>1, NothingLocked DEF WaitInv
    <2> DEFINE q == [request[a] EXCEPT !.step = "Write", !.read = Reading(request[a])]
    <2>3. Become(a, q)
      BY <1>4 DEF SeriesRead
    <2>4. q.step = "Write" /\ q.kind = request[a].kind /\ q.shares = {}
      BY <2>1 DEF RequestFields
    <2>5. request'[a] = q
      BY <2>3 DEF Become, TypeOK
    <2>6. request'[a] \in Request \cup {Idle}
      BY <1>4, TypeAdvance DEF TypeOK, Advance
    <2> HIDE DEF q
    <2>7. q \in Request
      BY <2>4, <2>5, <2>6 DEF Idle
    <2>8. q.kind \notin {"create", "edit"}
      BY <2>1, <2>4 DEF StillRead
    <2>9. QED
      BY <2>1, <2>2, <2>3, <2>4, <2>7, <2>8, LocksKept
  <1>5. ASSUME UNCHANGED <<holder, request>> PROVE WaitInv'
    BY <1>5 DEF WaitInv, HoldersInOrder, WritersHold, Checked, SharedUnlocked, SharesInOrder
  <1>6. ASSUME NEW a \in Admins, Advance(a) PROVE WaitInv'
    BY <1>2, <1>3, <1>4, <1>6, LockInOrder, ReferInOrder, LocksReleased
       DEF Advance, WriteNew, WriteEdit, WriteSeries, WriteUncancel, WriteOverride
  <1>7. QED
    BY <1>1, <1>5, <1>6, DatesOnly, DeadlockFinish, LocksReleased DEF Next, vars

\* What the locking rules say of all handlers, while no two requests work on one class.
LEMMA WaitInvariant ==
    ASSUME OneEditorPerClass
    PROVE  Spec => []WaitInv
  <1>1. Init => WaitInv
    <2> SUFFICES ASSUME Init PROVE WaitInv
      OBVIOUS
    <2>1. \A a \in Admins : request[a].step = "Idle" /\ request[a].shares = {}
      BY DEF Init, Idle
    <2>2. \A x \in Resources : holder[x] \notin Admins
      BY NoneAssumption DEF Init
    <2>3. QED
      BY <2>1, <2>2 DEF WaitInv, HoldersInOrder, WritersHold, SharedUnlocked, SharesInOrder
  <1>2. TypeOK /\ ReadsHold /\ WaitInv /\ [Next]_vars => WaitInv'
    BY WaitStep
  <1>3. QED
    BY <1>1, <1>2, TypeCorrect, EditorsRead, PTL DEF Spec

\* A request has row x: it holds it, or shares it for another reason than who it is.
Has(b, x) == holder[x] = b \/ x \in request[b].shares \ {b}

\* Who has a row and waits, but not to sign, has a room and waits for an instructor.
LEMMA RoomBeforeInstructor ==
    ASSUME TypeOK, ReadsHold, WaitInv, NEW b \in Admins, NEW x \in Resources, Has(b, x),
           NEW y \in Needs(b), request[b].step = "Write" => y # b
    PROVE  x \in Rooms /\ y \in Instructors
  <1> DEFINE q == request[b]
  <1>1. q.step \in {"Check", "Write"} /\ Busy(b) /\ RequestFields(q) /\ StillRead(q)
    <2>1. q.step \in {"Check", "Write"}
      BY DEF Needs
    <2>2. Busy(b)
      BY <2>1 DEF Busy
    <2>3. QED
      BY <2>1, <2>2, UnderWay DEF ReadsHold
  <1>2. /\ q.checkRoom \in Rooms \cup {None} /\ q.checkInstructor \in Instructors \cup {None}
        /\ q.room \in Rooms \cup {None, Keep} /\ q.instructor \in Instructors \cup {None, Keep}
    BY <1>1 DEF RequestFields
  <1>3. /\ None \notin Resources /\ Keep \notin Resources /\ Rooms \cap Instructors = {}
    BY NoneAssumption, KeepAssumption, ResourcesAssumption DEF Resources
  <1>4. holder[x] = b => /\ q.kind \in {"create", "edit"} /\ x \in Checked(q)
                         /\ x \in Instructors /\ q.checkRoom # None => holder[q.checkRoom] = b
    BY DEF WaitInv, HoldersInOrder
  <1>5. CASE q.step = "Check"
    <2>1. holder[x] = b
      BY <1>5 DEF Has, WaitInv, SharesInOrder
    <2>2. y = Wanted(b) /\ y # None
      BY <1>5 DEF Needs
    <2>3. /\ y \in Resources
          /\ y \in Rooms => y = q.checkRoom /\ holder[q.checkRoom] # b
      BY <1>1, <2>2, WantedRow
    <2>4. x \notin Instructors
      <3>1. SUFFICES ASSUME x \in Instructors PROVE FALSE
        OBVIOUS
      <3>2. x = q.checkInstructor /\ x # None
        BY <1>2, <1>3, <1>4, <2>1, <3>1 DEF Checked
      <3>3. q.checkRoom # None => holder[q.checkRoom] = b
        BY <1>4, <2>1, <3>1
      <3>4. Wanted(b) = None
        BY <1>4, <2>1, <3>2, <3>3 DEF Wanted
      <3>5. QED
        BY <2>2, <3>4
    <2>5. x = q.checkRoom
      BY <1>2, <1>4, <2>1, <2>4 DEF Checked
    <2>6. y \notin Rooms
      BY <2>1, <2>3, <2>5
    <2>7. QED
      BY <2>3, <2>4, <2>6 DEF Resources
  <1>6. CASE q.step = "Write"
    <2>1. y \in Resources /\ y \in {q.room, q.instructor} /\ y \notin q.shares /\ holder[y] # b
      BY <1>6 DEF Needs, ToShare, Referenced
    <2>2. q.kind \in {"create", "edit"} => \A z \in Checked(q) : holder[z] = b
      BY <1>6 DEF WaitInv, WritersHold
    <2>3. x \in q.shares => x \in {q.room, q.instructor, b}
      BY DEF WaitInv, SharesInOrder
    <2>4. y \notin Checked(q) \/ q.kind \notin {"create", "edit"}
      BY <2>1, <2>2
    <2>5. CASE q.kind = "create"
      <3>1. q.checkRoom = q.room /\ q.checkInstructor = q.instructor
        BY <1>1, <2>5 DEF StillRead
      <3>2. y \in Checked(q)
        BY <1>3, <2>1, <3>1 DEF Checked
      <3>3. QED
        BY <2>4, <2>5, <3>2
    <2>6. CASE q.kind = "edit"
      <3>1. q.room \in {Keep, q.checkRoom} /\ q.checkInstructor \in {None, q.instructor}
        BY <1>1, <1>6, <2>6 DEF StillRead
      <3>2. y # q.room
        BY <1>3, <2>1, <2>4, <2>6, <3>1 DEF Checked
      <3>3. y = q.instructor /\ y \in Instructors
        BY <1>2, <1>3, <2>1, <3>2
      <3>4. q.checkInstructor = None
        BY <1>3, <2>1, <2>4, <2>6, <3>1, <3>3 DEF Checked
      <3>5. CASE holder[x] = b
        BY <1>2, <1>4, <3>3, <3>4, <3>5 DEF Checked
      <3>6. CASE x \in q.shares \ {b}
        <4>1. x = q.room
          BY <2>1, <2>3, <3>3, <3>6
        <4>2. QED
          BY <1>2, <1>3, <3>3, <4>1
      <3>7. QED
        BY <3>5, <3>6 DEF Has
    <2>7. CASE q.kind \notin {"create", "edit"}
      <3>1. x \in q.shares \ {b} /\ x \in {q.room, q.instructor}
        BY <1>4, <2>3, <2>7 DEF Has
      <3>2. x # y
        BY <2>1, <3>1
      <3>3. CASE x = q.instructor
        <4>1. y = q.room /\ y \in Rooms
          BY <1>2, <1>3, <2>1, <3>2, <3>3
        <4>2. q.room \in q.shares
          BY <2>7, <3>1, <3>3, <4>1 DEF WaitInv, SharesInOrder
        <4>3. QED
          BY <2>1, <4>1, <4>2
      <3>4. CASE x # q.instructor
        <4>1. x = q.room /\ y = q.instructor
          BY <2>1, <3>1, <3>2, <3>4
        <4>2. QED
          BY <1>2, <1>3, <2>1, <4>1
      <3>5. QED
        BY <3>3, <3>4
    <2>8. QED
      BY <2>5, <2>6, <2>7
  <1>7. QED
    BY <1>1, <1>5, <1>6

\* Whoever is waited for, but not to sign, has the row.
LEMMA WaitedForHas ==
    ASSUME TypeOK, NEW a \in Admins, NEW b \in WaitsBesidesSigning(a)
    PROVE  /\ b \in Admins
           /\ \E x \in Resources : /\ x \in Needs(a) /\ Has(b, x)
                                   /\ request[a].step = "Write" => x # a
  <1>1. b \in Admins
    BY DEF WaitsBesidesSigning
  <1>2. PICK x \in Needs(a) :
           \/ holder[x] = b /\ ~(request[a].step = "Write" /\ x = a)
           \/ request[a].step = "Check" /\ x \in request[b].shares \ {b}
    BY DEF WaitsBesidesSigning
  <1>3. x \in Resources
    <2>1. CASE request[a].step = "Check"
      <3>1. x = Wanted(a) /\ x # None /\ Busy(a)
        BY <2>1 DEF Needs, Busy
      <3>2. QED
        BY <3>1, WantedRow
    <2>2. CASE request[a].step # "Check"
      BY <2>2 DEF Needs, ToShare, Referenced
    <2>3. QED
      BY <2>1, <2>2
  <1>4. QED
    BY <1>1, <1>2, <1>3 DEF Has

\* Requests wait for one another in a circle only by way of a row that says who wrote,
\* whatever the handlers and however many requests, while no two of them work on one
\* class: who has a room waits at most for who has an instructor, and he waits for nobody,
\* unless it is to sign or for one who signs (LockAndCheckConflicts, and the key-share
\* locks of the other writes).
THEOREM CirclesBySigningHolds ==
    ASSUME OneEditorPerClass
    PROVE  Spec => []CirclesBySigning
  <1>1. TypeOK /\ ReadsHold /\ WaitInv => CirclesBySigning
    <2> SUFFICES ASSUME TypeOK, ReadsHold, WaitInv, NEW S \in (SUBSET Admins) \ {{}},
                        \A a \in S : WaitsBesidesSigning(a) \cap S # {}
                 PROVE  FALSE
      BY DEF CirclesBySigning
    <2>1. PICK a \in S : a \in Admins
      OBVIOUS
    <2>2. PICK b \in S : b \in WaitsBesidesSigning(a)
      BY <2>1
    <2>3. PICK c \in S : c \in WaitsBesidesSigning(b)
      BY <2>2
    <2>4. PICK d \in S : d \in WaitsBesidesSigning(c)
      BY <2>3
    <2>5. b \in Admins /\ \E x \in Resources : Has(b, x)
      BY <2>1, <2>2, WaitedForHas
    <2>6. PICK y \in Resources : /\ y \in Needs(b) /\ Has(c, y)
                                 /\ request[b].step = "Write" => y # b
      BY <2>3, <2>5, WaitedForHas
    <2>7. c \in Admins
      BY <2>3, <2>5, WaitedForHas
    <2>8. PICK z \in Resources : z \in Needs(c) /\ (request[c].step = "Write" => z # c)
      BY <2>4, <2>7, WaitedForHas
    <2>9. y \in Instructors
      BY <2>5, <2>6, RoomBeforeInstructor
    <2>10. y \in Rooms
      BY <2>6, <2>7, <2>8, RoomBeforeInstructor
    <2>11. QED
      BY <2>9, <2>10, ResourcesAssumption
  <1>2. QED
    BY <1>1, TypeCorrect, EditorsRead, WaitInvariant, PTL

--------------------------------------------------------------------------------
(* No double booking, for the handlers that check under the lock *)

\* The handlers that check under the lock, and the one that only frees a date; no
\* two requests work on one class at a time.
LockedHandlers ==
    /\ Handlers \subseteq {"create", "edit", "instructor", "unassign", "cancelDate"}
    /\ OneEditorPerClass

\* What holds of the requests and the locks then, as shown above.
EditorsInv == OneRequestPerClass /\ ReadsHold /\ WaitInv

LEMMA EditorsInvariant == ASSUME OneEditorPerClass PROVE Spec => []EditorsInv
  BY EditorsRead, WaitInvariant, PTL DEF EditorsInv

OneEventPerClass ==
    \A e, n \in Events : event[e].class # None /\ event[e].class = event[n].class => e = n

FreeRowsEmpty == \A e \in Events : event[e].class = None => event[e].first > event[e].last

NothingHeld == \A e \in Events, d \in Dates : override[e][d].kind # "Held"

\* Between its check and its write, no other class uses what a request has checked, on the
\* dates it will book.
CheckHolds(q) ==
    \A x \in Checked(q), e \in Events, d \in q.first .. q.last :
        Uses(e, x, d) => event[e].class = q.class

ChecksHold == \A a \in Admins : request[a].step = "Write" => CheckHolds(request[a])

BookingInv ==
    OneEventPerClass /\ FreeRowsEmpty /\ NothingHeld /\ ChecksHold /\ NoDoubleBooking

LEMMA BookingInit == Init => BookingInv
  <1> SUFFICES ASSUME Init PROVE BookingInv
    OBVIOUS
  <1>1. \A e \in Events : event[e].class = None /\ event[e].first = 1 /\ event[e].last = 0
    BY DEF Init, NoEvent
  <1>2. NothingHeld
    BY DEF Init, NothingHeld, NoOverrides, NoOverride
  <1>3. \A e \in Events, x \in Resources, d \in Dates : ~Uses(e, x, d)
    BY <1>1, <1>2 DEF Uses, ByRule, NothingHeld
  <1>4. OneEventPerClass /\ FreeRowsEmpty
    BY <1>1 DEF OneEventPerClass, FreeRowsEmpty
  <1>5. \A a \in Admins : request[a].step = "Idle"
    BY DEF Init, Idle
  <1>6. ChecksHold
    BY <1>5 DEF ChecksHold
  <1>7. QED
    BY <1>2, <1>3, <1>4, <1>6 DEF BookingInv, NoDoubleBooking

\* Only classes that are made and edited have requests under way.
LEMMA LockedKinds ==
    ASSUME LockedHandlers, TypeOK, ReadsHold, NEW a \in Admins, Busy(a)
    PROVE  request[a].kind \in {"create", "edit"} /\ StillRead(request[a])
  <1>1. request[a].kind \in Handlers
    BY UnderWay DEF RequestFields
  <1>2. StillRead(request[a])
    BY DEF ReadsHold
  <1>3. QED
    BY <1>1, <1>2 DEF StillRead, RowWriters, LockedHandlers

\* The resources and dates that a request has checked.
LEMMA CheckedTypes ==
    ASSUME TypeOK, NEW a \in Admins, Busy(a)
    PROVE  /\ Checked(request[a]) \subseteq Resources
           /\ \A d \in request[a].first .. request[a].last : d \in Dates
  <1>1. RequestFields(request[a])
    BY UnderWay
  <1>2. QED
    BY <1>1, BoundsAssumption DEF RequestFields, Checked, Resources, Dates

\* With no date held by an override a class uses what its series names, by the rule.
LEMMA UsesByRule ==
    ASSUME TypeOK, BookingInv, NEW e \in Events, NEW x \in Resources, NEW d \in Dates
    PROVE  Uses(e, x, d) <=> /\ ByRule(e, d) /\ ~event[e].cancelled
                             /\ x \in {event[e].room, event[e].instructor}
  BY DEF BookingInv, NothingHeld, Uses

\* A free row uses nothing.
LEMMA FreeRowUnused ==
    ASSUME TypeOK, BookingInv, NEW e \in Events, NEW x \in Resources, NEW d \in Dates,
           Uses(e, x, d)
    PROVE  event[e].class # None
  <1>1. d \in event[e].first .. event[e].last
    BY UsesByRule DEF ByRule
  <1>2. event[e].first \in Int /\ event[e].last \in Int
    BY DEF TypeOK, Dates
  <1>3. QED
    BY <1>1, <1>2 DEF BookingInv, FreeRowsEmpty, Dates

\* A step that leaves the tables alone keeps the invariant if what is about to be written
\* has been checked.
LEMMA TablesUnchanged ==
    ASSUME BookingInv, UNCHANGED <<event, override>>,
           \A b \in Admins : request'[b].step = "Write" => CheckHolds(request'[b])
    PROVE  BookingInv'
  <1>1. \A e, x, d : Uses(e, x, d)' <=> Uses(e, x, d)
    BY DEF Uses, ByRule, EffectiveRoom, EffectiveInstructor
  <1>2. OneEventPerClass' /\ FreeRowsEmpty' /\ NothingHeld'
    BY DEF BookingInv, OneEventPerClass, FreeRowsEmpty, NothingHeld
  <1>3. NoDoubleBooking'
    BY <1>1 DEF BookingInv, NoDoubleBooking
  <1>4. ChecksHold'
    <2> SUFFICES ASSUME NEW b \in Admins, request'[b].step = "Write",
                        NEW x \in Checked(request'[b]), NEW e \in Events,
                        NEW d \in request'[b].first .. request'[b].last, Uses(e, x, d)'
                 PROVE  event'[e].class = request'[b].class
      BY DEF ChecksHold, CheckHolds, Checked
    <2>1. CheckHolds(request'[b]) /\ Uses(e, x, d)
      BY <1>1
    <2>2. QED
      BY <2>1 DEF CheckHolds
  <1>5. QED
    BY <1>2, <1>3, <1>4 DEF BookingInv

\* So it is enough to look at the request that takes the step.
LEMMA RequestKeeps ==
    ASSUME TypeOK, BookingInv, UNCHANGED <<event, override>>, NEW a \in Admins, NEW q,
           Become(a, q), q.step = "Write" => CheckHolds(q)
    PROVE  BookingInv'
  <1>1. request'[a] = q /\ \A b \in Admins \ {a} : request'[b] = request[b]
    BY DEF Become, TypeOK
  <1>2. \A b \in Admins : request'[b].step = "Write" => CheckHolds(request'[b])
    BY <1>1 DEF BookingInv, ChecksHold
  <1>3. QED
    BY <1>2, TablesUnchanged

LEMMA FinishKeeps ==
    ASSUME TypeOK, BookingInv, UNCHANGED <<event, override>>, NEW a \in Admins, Finish(a)
    PROVE  BookingInv'
  BY RequestKeeps DEF Finish, Idle

\* A request starts by reading, or checks nothing.
LEMMA StartKeeps ==
    ASSUME TypeOK, BookingInv, NEW a \in Admins, Start(a)
    PROVE  BookingInv'
  <1>1. PICK q \in Request : Become(a, q) /\ Fresh(a, q)
    BY StartReads
  <1>2. q.step = "Write" => Checked(q) = {}
    BY <1>1 DEF Fresh, Checked
  <1>3. UNCHANGED <<event, override>>
    BY StartReads
  <1>4. QED
    BY <1>1, <1>2, <1>3, RequestKeeps DEF CheckHolds

\* The second reading of an edit leads to a write only if there is nothing to check.
LEMMA EditReadKeeps ==
    ASSUME TypeOK, ReadsHold, BookingInv, NEW a \in Admins, EditRead(a)
    PROVE  BookingInv'
  <1>1. StillRead(request[a])
    BY DEF EditRead, ReadsHold, Busy
  <1>2. PICK r \in Request :
           /\ Become(a, r) /\ r.step = AfterRead(request[a])
           /\ r.checkRoom = request[a].checkRoom
           /\ r.checkInstructor = request[a].checkInstructor
    BY <1>1, EditReadReads
  <1>3. r.step = "Write" => Checked(r) = {}
    BY <1>2 DEF AfterRead, Checked
  <1>4. UNCHANGED <<event, override>>
    BY DEF EditRead
  <1>5. QED
    BY <1>2, <1>3, <1>4, RequestKeeps DEF CheckHolds

\* Locking a row, and sharing one, changes nothing that is said of requests.
LEMMA LockKeeps ==
    ASSUME TypeOK, BookingInv, NEW a \in Admins, Lock(a) \/ Refer(a)
    PROVE  BookingInv'
  <1>1. CASE Lock(a)
    BY <1>1, TablesUnchanged DEF Lock, BookingInv, ChecksHold
  <1>2. CASE Refer(a)
    <2>1. PICK r \in Request : Become(a, r) /\ SameButShares(r, request[a])
      BY <1>2, ReferShares
    <2>2. CheckHolds(request[a])
      BY <1>2 DEF Refer, BookingInv, ChecksHold
    <2>3. CheckHolds(r)
      BY <2>1, <2>2 DEF SameButShares, CheckHolds, Checked
    <2>4. UNCHANGED <<event, override>>
      BY <1>2 DEF Refer
    <2>5. QED
      BY <2>1, <2>3, <2>4, RequestKeeps
  <1>3. QED
    BY <1>1, <1>2

\* What the check has not found, no other class uses.
LEMMA CheckFindsAll ==
    ASSUME TypeOK, BookingInv, NEW a \in Admins, request[a].step = "Check",
           ~Conflict(request[a]), request[a].kind \in {"create", "edit"},
           NEW x \in Checked(request[a]), NEW e \in Events,
           NEW d \in request[a].first .. request[a].last, Uses(e, x, d)
    PROVE  event[e].class = request[a].class
  <1> DEFINE q == request[a]
  <1>1. /\ q.first \in Dates /\ q.last \in 0 .. Horizon
        /\ q.checkRoom \in Rooms \cup {None} /\ q.checkInstructor \in Instructors \cup {None}
    BY UnderWay DEF Busy, RequestFields
  <1>2. d \in Dates /\ x \in Resources /\ x # None
    BY <1>1, BoundsAssumption DEF Dates, Checked, Resources
  <1>3. event[e].class # None
    BY <1>2, FreeRowUnused
  <1>4. SUFFICES ASSUME event[e].class # q.class PROVE FALSE
    OBVIOUS
  <1>5. ~Excluded(q, e)
    BY <1>3, <1>4 DEF Excluded
  <1>6. ByRule(e, d) /\ x \in {event[e].room, event[e].instructor}
    BY <1>2, UsesByRule
  <1>7. event[e].room \in Rooms \cup {None} /\ event[e].instructor \in Instructors \cup {None}
    BY DEF TypeOK
  <1>8. CASE x = q.checkRoom
    <2>1. event[e].room = x
      BY <1>1, <1>2, <1>6, <1>7, <1>8, ResourcesAssumption
    <2>2. RoomBooked(e, q.checkRoom, d)
      BY <1>6, <1>8, <2>1 DEF RoomBooked
    <2>3. QED
      BY <1>2, <1>5, <1>8, <2>2 DEF Conflict
  <1>9. CASE x = q.checkInstructor
    <2>1. event[e].instructor = x
      BY <1>1, <1>2, <1>6, <1>7, <1>9, ResourcesAssumption
    <2>2. InstructorBooked(e, q.checkInstructor, d)
      BY <1>6, <1>9, <2>1 DEF InstructorBooked
    <2>3. QED
      BY <1>2, <1>5, <1>9, <2>2 DEF Conflict
  <1>10. QED
    BY <1>8, <1>9 DEF Checked

\* The check passes only if it has found nothing.
LEMMA CheckKeeps ==
    ASSUME LockedHandlers, TypeOK, ReadsHold, BookingInv, NEW a \in Admins, Check(a)
    PROVE  BookingInv'
  <1> DEFINE q == request[a]
  <1>1. q.step = "Check" /\ UNCHANGED <<event, override>> /\ Busy(a) /\ RequestFields(q)
    BY UnderWay DEF Check, Busy
  <1>2. q.kind \in {"create", "edit"}
    BY <1>1, LockedKinds
  <1>3. CASE Conflict(q)
    BY <1>1, <1>3, FinishKeeps DEF Check
  <1>4. CASE ~Conflict(q)
    <2> DEFINE r == [q EXCEPT !.step = AfterCheck(q)]
    <2>1. Become(a, r)
      BY <1>4 DEF Check
    <2>2. /\ r.class = q.class /\ r.first = q.first /\ r.last = q.last
          /\ r.checkRoom = q.checkRoom /\ r.checkInstructor = q.checkInstructor
      BY <1>1 DEF RequestFields
    <2>3. CheckHolds(q)
      BY <1>1, <1>2, <1>4, CheckFindsAll DEF CheckHolds
    <2> HIDE DEF q, r
    <2>4. CheckHolds(r)
      BY <2>2, <2>3 DEF CheckHolds, Checked
    <2>5. QED
      BY <1>1, <2>1, <2>4, RequestKeeps
  <1>5. QED
    BY <1>3, <1>4

\* A write has locked or shares every row it refers to, so that nobody else has it locked.
LEMMA ReferencedNotHeld ==
    ASSUME WaitInv, NEW a \in Admins, ToShare(a) = {}
    PROVE  \A x \in Referenced(a) : holder[x] \in {a, None}
  BY DEF ToShare, WaitInv, SharedUnlocked

\* A write that changes one row of the request's class, and adds only bookings that
\* its check covered and whose rows nobody else holds.
LEMMA WriteKeeps ==
    ASSUME LockedHandlers, TypeOK, EditorsInv, BookingInv, NEW a \in Admins, NEW e0 \in Events,
           request[a].step = "Write", Finish(a),
           event[e0].class \in {None, request[a].class},
           event'[e0].class = request[a].class,
           \A e \in Events \ {e0} : event'[e] = event[e] /\ event[e].class # request[a].class,
           NothingHeld',
           \A e \in Events \ {e0}, x \in Resources, d \in Dates : Uses(e, x, d)' => Uses(e, x, d),
           \A x \in Resources, d \in Dates :
               Uses(e0, x, d)' =>
                   \/ Uses(e0, x, d)
                   \/ /\ x \in Checked(request[a]) /\ holder[x] \in {a, None}
                      /\ d \in request[a].first .. request[a].last
    PROVE  BookingInv'
  <1> DEFINE q == request[a]
  <1>1. q.class # None /\ Busy(a)
    BY UnderWay DEF Busy
  <1>2. request'[a] = Idle /\ \A b \in Admins \ {a} : request'[b] = request[b]
    BY DEF Finish, Become, TypeOK
  <1>3. \A b \in Admins \ {a} : Busy(b) => request[b].class # q.class
    BY <1>1 DEF EditorsInv, OneRequestPerClass
  <1>4. OneEventPerClass' /\ FreeRowsEmpty'
    BY <1>1 DEF BookingInv, OneEventPerClass, FreeRowsEmpty
  <1>6. ASSUME NEW e \in Events, NEW x \in Resources, NEW d \in Dates,
               Uses(e0, x, d)', Uses(e, x, d)', e # e0
        PROVE  FALSE
    <2>1. Uses(e, x, d) /\ event[e].class # q.class
      BY <1>6
    <2>2. CASE Uses(e0, x, d)
      <3>1. event[e0].class = event[e].class
        BY <2>1, <2>2 DEF BookingInv, NoDoubleBooking
      <3>2. event[e0].class # None
        BY <2>2, FreeRowUnused
      <3>3. QED
        BY <2>1, <3>1, <3>2
    <2>3. CASE x \in Checked(q) /\ d \in q.first .. q.last
      <3>1. CheckHolds(q)
        BY DEF BookingInv, ChecksHold
      <3>2. QED
        BY <2>1, <2>3, <3>1 DEF CheckHolds
    <2>4. QED
      BY <1>6, <2>2, <2>3
  <1>7. NoDoubleBooking'
    <2> SUFFICES ASSUME NEW e \in Events, NEW n \in Events, NEW x \in Resources, NEW d \in Dates,
                        Uses(e, x, d)', Uses(n, x, d)'
                 PROVE  event'[e].class = event'[n].class
      BY DEF NoDoubleBooking, Dates
    <2>1. CASE e = e0 \/ n = e0
      BY <1>6, <2>1
    <2>2. CASE e # e0 /\ n # e0
      <3>1. event[e].class = event[n].class
        BY <2>2 DEF BookingInv, NoDoubleBooking
      <3>2. QED
        BY <2>2, <3>1
    <2>3. QED
      BY <2>1, <2>2
  <1>8. ChecksHold'
    <2> SUFFICES ASSUME NEW b \in Admins, request'[b].step = "Write",
                        NEW x \in Checked(request'[b]), NEW e \in Events,
                        NEW d \in request'[b].first .. request'[b].last, Uses(e, x, d)'
                 PROVE  event'[e].class = request'[b].class
      BY DEF ChecksHold, CheckHolds, Checked
    <2>1. b # a /\ request'[b] = request[b] /\ request[b].step = "Write" /\ Busy(b)
      BY <1>2 DEF Idle, Busy
    <2>2. request[b].kind \in {"create", "edit"}
      BY <2>1, LockedKinds DEF EditorsInv
    <2>3. holder[x] = b
      BY <2>1, <2>2 DEF EditorsInv, WaitInv, WritersHold, Checked
    <2>4. ~(holder[x] \in {a, None})
      BY <2>1, <2>3, NoneAssumption
    <2>5. x \in Resources /\ d \in Dates
      BY <2>1, CheckedTypes
    <2>6. Uses(e, x, d)
      BY <2>4, <2>5
    <2>7. event[e].class = request[b].class
      BY <2>1, <2>6 DEF BookingInv, ChecksHold, CheckHolds
    <2>8. e # e0
      <3>1. event[e].class # None /\ event[e].class # q.class
        BY <1>3, <2>1, <2>5, <2>6, <2>7, FreeRowUnused
      <3>2. QED
        BY <3>1
    <2>9. QED
      BY <2>1, <2>7, <2>8
  <1>9. QED
    BY <1>4, <1>7, <1>8 DEF BookingInv

\* A class that is created takes a free row.
LEMMA WriteNewKeeps ==
    ASSUME LockedHandlers, TypeOK, EditorsInv, BookingInv, NEW a \in Admins, WriteNew(a)
    PROVE  BookingInv'
  <1> DEFINE q == request[a]
  <1>1. /\ q.step = "Write" /\ q.kind = "create" /\ StillRead(q)
        /\ \A x \in Referenced(a) : holder[x] \in {a, None}
        /\ Finish(a) /\ Insert(event, NewSeries(q))
    <2>1. q.step = "Write" /\ q.kind \in {"create", "add"} /\ ToShare(a) = {} /\ Busy(a)
          /\ Finish(a) /\ Insert(event, NewSeries(q))
      BY DEF WriteNew, MayWrite, Busy
    <2>2. q.kind \in {"create", "edit"} /\ StillRead(q)
      BY <2>1, LockedKinds DEF EditorsInv
    <2>3. QED
      BY <2>1, <2>2, ReferencedNotHeld DEF EditorsInv
  <1>2. PICK e0 \in Events : FirstFree(e0) /\ event' = [event EXCEPT ![e0] = NewSeries(q)]
    BY <1>1 DEF Insert
  <1>3. /\ event[e0].class = None /\ event'[e0] = NewSeries(q)
        /\ \A e \in Events \ {e0} : event'[e] = event[e] /\ event[e].class # q.class
    BY <1>1, <1>2 DEF FirstFree, Free, TypeOK, StillRead
  <1>4. override' = Overrides(event)
    BY <1>1 DEF Insert
  <1>5. \A e \in Events : override'[e] = NoOverrides \/ override'[e] = override[e]
    BY <1>4 DEF Overrides
  <1>6. NothingHeld'
    BY <1>5 DEF BookingInv, NothingHeld, NoOverrides, NoOverride
  <1>7. \A e \in Events \ {e0}, x \in Resources, d \in Dates : Uses(e, x, d)' => Uses(e, x, d)
    <2> SUFFICES ASSUME NEW e \in Events \ {e0}, NEW x \in Resources, NEW d \in Dates,
                        Uses(e, x, d)'
                 PROVE  Uses(e, x, d)
      OBVIOUS
    <2>1. ByRule(e, d)' /\ ~event[e].cancelled /\ x \in {event[e].room, event[e].instructor}
      BY <1>3, <1>6 DEF Uses, NothingHeld
    <2>2. d \in event[e].first .. event[e].last
      BY <1>3, <2>1 DEF ByRule
    <2>3. event[e].first \in Int /\ event[e].last \in Int
      BY DEF TypeOK, Dates
    <2>4. event[e].class # None
      BY <2>2, <2>3 DEF BookingInv, FreeRowsEmpty, Dates
    <2>5. override'[e] = override[e]
      BY <1>4, <2>4 DEF Overrides
    <2>6. QED
      BY <2>1, <2>2, <2>5 DEF Uses, ByRule
  <1>8. ASSUME NEW x \in Resources, NEW d \in Dates, Uses(e0, x, d)'
        PROVE  x \in Checked(q) /\ holder[x] \in {a, None} /\ d \in q.first .. q.last
    <2>1. ByRule(e0, d)' /\ x \in {q.room, q.instructor}
      BY <1>3, <1>6, <1>8 DEF Uses, NothingHeld, NewSeries
    <2>2. d \in q.first .. q.last
      BY <1>3, <2>1 DEF ByRule, NewSeries
    <2>3. x # None
      BY NoneAssumption DEF Resources
    <2>4. x \in Checked(q)
      BY <1>1, <2>1, <2>3 DEF StillRead, Checked
    <2>5. x \in Referenced(a)
      BY <1>1, <2>1 DEF Referenced
    <2>6. QED
      BY <1>1, <2>2, <2>4, <2>5
  <1>9. event'[e0].class = q.class
    BY <1>3 DEF NewSeries
  <1>10. QED
    BY <1>1, <1>3, <1>6, <1>7, <1>8, <1>9, WriteKeeps

\* An edit changes the one event of its class.
LEMMA WriteEditKeeps ==
    ASSUME LockedHandlers, TypeOK, EditorsInv, BookingInv, NEW a \in Admins, WriteEdit(a)
    PROVE  BookingInv'
  <1> DEFINE q == request[a]
  <1>1. /\ q.step = "Write" /\ q.kind = "edit" /\ StillRead(q) /\ q.class # None
        /\ \A x \in Referenced(a) : holder[x] \in {a, None}
        /\ Finish(a) /\ UNCHANGED override
    <2>1. q.step = "Write" /\ q.kind = "edit" /\ ToShare(a) = {} /\ Busy(a)
          /\ Finish(a) /\ UNCHANGED override
      BY DEF WriteEdit, MayWrite, Busy
    <2>2. QED
      BY <2>1, LockedKinds, UnderWay, ReferencedNotHeld DEF EditorsInv
  <1>2. PICK e0 \in Events :
           /\ e0 = q.event /\ event[e0].class = q.class /\ q.class # None /\ q.span = Keep
           /\ q.first = event[e0].first /\ q.last = event[e0].last
           /\ q.room \in {Keep, q.checkRoom}
           /\ q.instructor \in {Keep, None, q.checkInstructor, event[e0].instructor}
    BY <1>1 DEF StillRead, LockedHandlers
  <1>3. \A e \in Events \ {e0} : event[e].class # q.class
    BY <1>2 DEF BookingInv, OneEventPerClass
  <1>4. \A e \in Events \ {e0} : event'[e] = event[e]
    BY <1>3 DEF WriteEdit
  <1>5. /\ event'[e0].class = event[e0].class /\ event'[e0].cancelled = event[e0].cancelled
        /\ event'[e0].first = event[e0].first /\ event'[e0].last = event[e0].last
        /\ event'[e0].instructor = (IF q.instructor = Keep THEN event[e0].instructor
                                                           ELSE q.instructor)
        /\ event'[e0].room = (IF q.room = Keep THEN event[e0].room ELSE q.room)
    <2>1. event'[e0] = [event[e0] EXCEPT
                          !.instructor = IF q.instructor = Keep THEN @ ELSE q.instructor,
                          !.room = IF e0 = q.event /\ q.room # Keep THEN q.room ELSE @,
                          !.first = IF e0 = q.event /\ q.span # Keep THEN q.span[1] ELSE @,
                          !.last = IF e0 = q.event /\ q.span # Keep THEN q.span[2] ELSE @]
      BY <1>2 DEF WriteEdit
    <2>2. event[e0] \in RowType
      BY <1>2, TypeNamed
    <2>3. QED
      BY <1>2, <2>1, <2>2 DEF RowType
  <1>6. NothingHeld'
    BY <1>1 DEF BookingInv, NothingHeld
  <1>7. \A e \in Events \ {e0}, x \in Resources, d \in Dates : Uses(e, x, d)' => Uses(e, x, d)
    BY <1>1, <1>4 DEF Uses, ByRule, EffectiveRoom, EffectiveInstructor
  <1>8. ASSUME NEW x \in Resources, NEW d \in Dates, Uses(e0, x, d)'
        PROVE  \/ Uses(e0, x, d)
               \/ x \in Checked(q) /\ holder[x] \in {a, None} /\ d \in q.first .. q.last
    <2>1. ByRule(e0, d) /\ ~event[e0].cancelled
          /\ x \in {event'[e0].room, event'[e0].instructor}
      <3>1. e0 \in Events /\ override'[e0][d].kind # "Held"
        BY <1>2, <1>6 DEF NothingHeld
      <3>2. ByRule(e0, d)' /\ ~event'[e0].cancelled
            /\ x \in {event'[e0].room, event'[e0].instructor}
        BY <1>8, <3>1 DEF Uses
      <3>3. ByRule(e0, d)
        BY <1>1, <1>5, <3>2 DEF ByRule
      <3>4. QED
        BY <1>5, <3>2, <3>3
    <2>2. d \in q.first .. q.last
      BY <1>2, <2>1 DEF ByRule
    <2>3. x # None
      BY NoneAssumption DEF Resources
    <2>4. CASE x \in {event[e0].room, event[e0].instructor}
      BY <2>1, <2>4 DEF Uses
    <2>5. CASE x \notin {event[e0].room, event[e0].instructor}
      <3>1. x = q.room \/ x = q.instructor
        BY <1>5, <2>1, <2>5
      <3>2. x # Keep
        BY KeepAssumption DEF Resources
      <3>3. x \in Checked(q)
        BY <1>1, <1>2, <2>3, <2>5, <3>1, <3>2 DEF Checked
      <3>4. x \in Referenced(a)
        BY <1>1, <1>2, <2>5, <3>1 DEF Referenced
      <3>5. QED
        BY <1>1, <2>2, <3>3, <3>4
    <2>6. QED
      BY <2>4, <2>5
  <1>9. /\ e0 \in Events /\ q.step = "Write" /\ Finish(a)
        /\ event[e0].class \in {None, q.class} /\ event'[e0].class = q.class
        /\ \A e \in Events \ {e0} : event'[e] = event[e] /\ event[e].class # q.class
    BY <1>1, <1>2, <1>3, <1>4, <1>5
  <1>10. QED
    BY <1>6, <1>7, <1>8, <1>9, WriteKeeps

\* Cancelling a date frees it.
LEMMA SingleDateKeeps ==
    ASSUME LockedHandlers, TypeOK, BookingInv, NEW a \in Admins, SingleDate(a)
    PROVE  BookingInv'
  <1>1. PICK e \in Events, d \in Dates : CancelDate(a, e, d)
    BY DEF SingleDate, LockedHandlers, DateOf, MayStart, DeleteOverride, UncancelOverride
  <1>2. UNCHANGED <<event, holder, request>>
        /\ override' = Overridden(e, d, [NoOverride EXCEPT !.kind = "Cancelled"])
    BY <1>1 DEF CancelDate
  <1>3. \A n \in Events, f \in Dates : \/ override'[n][f] = override[n][f]
                                      \/ override'[n][f].kind = "Cancelled"
    BY <1>2 DEF Overridden, TypeOK, NoOverride
  <1>4. NothingHeld'
    BY <1>3 DEF BookingInv, NothingHeld
  <1>5. \A n \in Events, x \in Resources, f \in Dates : Uses(n, x, f)' => Uses(n, x, f)
    BY <1>2, <1>3, <1>4 DEF Uses, ByRule, NothingHeld
  <1>6. NoDoubleBooking'
    BY <1>2, <1>5 DEF BookingInv, NoDoubleBooking
  <1>7. ChecksHold'
    <2> SUFFICES ASSUME NEW b \in Admins, request[b].step = "Write",
                        NEW x \in Checked(request[b]), NEW n \in Events,
                        NEW f \in request[b].first .. request[b].last, Uses(n, x, f)'
                 PROVE  event[n].class = request[b].class
      BY <1>2 DEF ChecksHold, CheckHolds, Checked
    <2>1. x \in Resources /\ f \in Dates
      BY CheckedTypes DEF Busy
    <2>2. QED
      BY <1>5, <2>1 DEF BookingInv, ChecksHold, CheckHolds
  <1>8. QED
    BY <1>2, <1>4, <1>6, <1>7 DEF BookingInv, OneEventPerClass, FreeRowsEmpty

\* Of the writes, these handlers know two.
LEMMA LockedAdvance ==
    ASSUME LockedHandlers, TypeOK, ReadsHold, NEW a \in Admins, Advance(a)
    PROVE  \/ EditRead(a) \/ Lock(a) \/ Check(a) \/ Refer(a)
           \/ WriteNew(a) \/ WriteEdit(a)
  <1>1. ASSUME request[a].step \in {"Read", "Write"} 
        PROVE  request[a].kind \in {"create", "edit"} /\ StillRead(request[a])
    BY <1>1, LockedKinds DEF Busy
  <1>2. ~SeriesRead(a)
    BY <1>1 DEF SeriesRead, StillRead
  <1>3. ~WriteSeries(a) /\ ~WriteUncancel(a) /\ ~WriteOverride(a)
    BY <1>1 DEF WriteSeries, WriteUncancel, WriteOverride, MayWrite
  <1>4. QED
    BY <1>2, <1>3 DEF Advance

LEMMA BookingInvariant == ASSUME LockedHandlers PROVE Spec => []BookingInv
  <1>1. Init => BookingInv
    BY BookingInit
  <1>2. TypeOK /\ EditorsInv /\ BookingInv /\ [Next]_vars => BookingInv'
    <2> SUFFICES ASSUME TypeOK, EditorsInv, BookingInv, [Next]_vars PROVE BookingInv'
      OBVIOUS
    <2>1. ReadsHold
      BY DEF EditorsInv
    <2>2. ASSUME NEW a \in Admins, Start(a) PROVE BookingInv'
      BY <2>2, StartKeeps
    <2>3. ASSUME NEW a \in Admins, Advance(a) PROVE BookingInv'
      BY <2>1, <2>3, LockedAdvance, EditReadKeeps, LockKeeps, CheckKeeps, WriteNewKeeps,
         WriteEditKeeps
    <2>4. ASSUME NEW a \in Admins, SingleDate(a) PROVE BookingInv'
      BY <2>4, SingleDateKeeps
    <2>5. ASSUME NEW a \in Admins, DeadlockEnds(a) PROVE BookingInv'
      BY <2>5, DeadlockFinish, FinishKeeps
    <2>6. CASE UNCHANGED vars
      BY <2>6, TablesUnchanged DEF vars, BookingInv, ChecksHold
    <2>7. QED
      BY <2>2, <2>3, <2>4, <2>5, <2>6 DEF Next
  <1>3. Spec => []EditorsInv
    BY EditorsInvariant DEF LockedHandlers
  <1>4. QED
    BY <1>1, <1>2, <1>3, TypeCorrect, PTL DEF Spec

\* The handlers that check under the lock never book a room or an instructor twice,
\* whatever their number and the order of their steps.
THEOREM LockedNeverDoubleBooked == LockedHandlers => (Spec => []NoDoubleBooking)
  <1> SUFFICES ASSUME LockedHandlers PROVE Spec => []NoDoubleBooking
    OBVIOUS
  <1>1. BookingInv => NoDoubleBooking
    BY DEF BookingInv
  <1>2. QED
    BY <1>1, BookingInvariant, PTL
--------------------------------------------------------------------------------
(* The same handlers implement the booking table *)

\* A step changes rows of class c, or rows of no class, and no others.
ChangesOnly(c) ==
    \A e \in Events :
        \/ event[e].class \in {c, None} /\ event'[e].class \in {c, None}
        \/ event'[e] = event[e] /\ override'[e] = override[e]

LEMMA InitBooks == Init => B!Init
  <1> SUFFICES ASSUME Init PROVE B!Init
    OBVIOUS
  <1>1. \A e \in Events : event[e].class = None
    BY DEF Init, NoEvent
  <1>2. \A c \in Classes : BookedBy(c) = {}
    BY <1>1, NoneAssumption DEF BookedBy
  <1>3. QED
    BY <1>2 DEF B!Init

\* Steps that leave the tables alone leave the bookings alone.
LEMMA TablesBook ==
    ASSUME UNCHANGED <<event, override>>
    PROVE  UNCHANGED [c \in Classes |-> BookedBy(c)]
  BY DEF BookedBy, Uses, ByRule, EffectiveRoom, EffectiveInstructor

\* A step that changes the rows of one class changes its bookings only, to a set that
\* no other class has a part of.
LEMMA OneClassBooks ==
    ASSUME NEW c \in Classes, ChangesOnly(c), NoDoubleBooking'
    PROVE  B!Next
  <1>1. ASSUME NEW k \in Classes \ {c} PROVE BookedBy(k)' = BookedBy(k)
    <2>1. k # None /\ k # c
      BY NoneAssumption
    <2>2. ASSUME NEW e \in Events
          PROVE  /\ event'[e].class = k <=> event[e].class = k
                 /\ event[e].class = k => event'[e] = event[e] /\ override'[e] = override[e]
      BY <2>1 DEF ChangesOnly
    <2>3. ASSUME NEW e \in Events, event[e].class = k, NEW x \in Resources, NEW d \in Dates
          PROVE  Uses(e, x, d)' <=> Uses(e, x, d)
      BY <2>2, <2>3 DEF Uses, ByRule, EffectiveRoom, EffectiveInstructor
    <2>4. QED
      BY <2>2, <2>3 DEF BookedBy
  <1>2. PICK S : S = BookedBy(c)'
    OBVIOUS
  <1>3. S \in SUBSET (Resources \X Dates)
    BY <1>2 DEF BookedBy
  <1>4. ASSUME NEW k \in Classes \ {c} PROVE S \cap BookedBy(k) = {}
    <2>1. ASSUME NEW p \in S, p \in BookedBy(k) PROVE FALSE
      <3>1. p \in BookedBy(c)' /\ p \in BookedBy(k)'
        BY <1>1, <1>2, <2>1
      <3>2. p \in Resources \X Dates
        BY <1>3
      <3>3. PICK e \in Events : event'[e].class = c /\ Uses(e, p[1], p[2])'
        BY <3>1 DEF BookedBy
      <3>4. PICK n \in Events : event'[n].class = k /\ Uses(n, p[1], p[2])'
        BY <3>1 DEF BookedBy
      <3>5. QED
        BY <3>2, <3>3, <3>4 DEF NoDoubleBooking
    <2>2. QED
      BY <2>1
  <1>5. [k \in Classes |-> BookedBy(k)]' = [[k \in Classes |-> BookedBy(k)] EXCEPT ![c] = S]
    BY <1>1, <1>2
  <1>6. B!Book(c, S)
    BY <1>4, <1>5 DEF B!Book
  <1>7. QED
    BY <1>3, <1>6 DEF B!Next

\* A write changes rows of the class its request works on.
LEMMA WriteChangesOnly ==
    ASSUME TypeOK, NEW a \in Admins, WriteNew(a) \/ WriteEdit(a)
    PROVE  request[a].class \in Classes /\ ChangesOnly(request[a].class)
  <1> DEFINE q == request[a]
  <1>1. q.class \in Classes
    BY BusyRequest DEF WriteNew, WriteEdit, MayWrite, RequestFields
  <1>2. CASE WriteNew(a)
    <2>1. PICK e0 \in Events : FirstFree(e0) /\ event' = [event EXCEPT ![e0] = NewSeries(q)]
      BY <1>2 DEF WriteNew, Insert
    <2>2. override' = Overrides(event)
      BY <1>2 DEF WriteNew, Insert
    <2>3. event[e0].class = None /\ event'[e0].class = q.class
      BY <2>1 DEF FirstFree, Free, NewSeries, TypeOK
    <2>4. \A e \in Events \ {e0} : event'[e] = event[e]
      BY <2>1 DEF TypeOK
    <2>5. \A e \in Events : event[e].class # None => override'[e] = override[e]
      BY <2>2 DEF Overrides
    <2>6. QED
      BY <1>1, <2>3, <2>4, <2>5 DEF ChangesOnly
  <1>3. CASE WriteEdit(a)
    <2>1. UNCHANGED override
      BY <1>3 DEF WriteEdit
    <2>2. \A e \in Events : event[e].class # q.class => event'[e] = event[e]
      BY <1>3 DEF WriteEdit
    <2>3. ASSUME NEW e \in Events, event[e].class = q.class PROVE event'[e].class = q.class
      <3>1. event[e] \in RowType
        BY TypeNamed
      <3>2. event'[e] = [event[e] EXCEPT
                           !.instructor = IF q.instructor = Keep THEN @ ELSE q.instructor,
                           !.room = IF e = q.event /\ q.room # Keep THEN q.room ELSE @,
                           !.first = IF e = q.event /\ q.span # Keep THEN q.span[1] ELSE @,
                           !.last = IF e = q.event /\ q.span # Keep THEN q.span[2] ELSE @]
        BY <1>3, <2>3 DEF WriteEdit
      <3>3. QED
        BY <2>3, <3>1, <3>2 DEF RowType
    <2>4. QED
      BY <1>1, <2>1, <2>2, <2>3 DEF ChangesOnly
  <1>4. QED
    BY <1>1, <1>2, <1>3

LEMMA CancelChangesOnly ==
    ASSUME TypeOK, NEW a \in Admins, NEW e \in Events, NEW d \in Dates, CancelDate(a, e, d)
    PROVE  event[e].class \in Classes /\ ChangesOnly(event[e].class)
  <1>1. event[e].class \in Classes
    BY DEF CancelDate, DateOf, TypeOK
  <1>2. UNCHANGED event
    BY DEF CancelDate
  <1>3. \A n \in Events \ {e} : override'[n] = override[n]
    BY DEF CancelDate, Overridden, TypeOK
  <1>4. QED
    BY <1>1, <1>2, <1>3 DEF ChangesOnly

\* Every step of the locked handlers is a class changing its bookings to a set no
\* other class has a part of, or no change of the bookings: BookingsSpec.
THEOREM LockedImplementsBookings == LockedHandlers => (Spec => BookingsSpec)
  <1> SUFFICES ASSUME LockedHandlers PROVE Spec => BookingsSpec
    OBVIOUS
  <1>1. Init => B!Init
    BY InitBooks
  <1>2. TypeOK /\ EditorsInv /\ BookingInv' /\ [Next]_vars
          => [B!Next]_([c \in Classes |-> BookedBy(c)])
    <2> SUFFICES ASSUME TypeOK, EditorsInv, BookingInv', [Next]_vars
                 PROVE  B!Next \/ UNCHANGED [c \in Classes |-> BookedBy(c)]
      OBVIOUS
    <2>1. NoDoubleBooking'
      BY DEF BookingInv
    <2>2. ASSUME NEW a \in Admins, Start(a) \/ DeadlockEnds(a)
          PROVE  UNCHANGED <<event, override>>
      BY <2>2, StartReads, DeadlockFinish
    <2>3. ASSUME NEW a \in Admins, Advance(a)
          PROVE  UNCHANGED <<event, override>> \/ WriteNew(a) \/ WriteEdit(a)
      BY <2>3, LockedAdvance DEF EditorsInv, EditRead, Lock, Check, Refer
    <2>4. ASSUME NEW a \in Admins, SingleDate(a)
          PROVE  \E e \in Events, d \in Dates : CancelDate(a, e, d)
      BY <2>4 DEF SingleDate, LockedHandlers, DateOf, MayStart, DeleteOverride,
                  UncancelOverride
    <2>5. CASE UNCHANGED vars
      BY <2>5, TablesBook DEF vars
    <2>6. CASE Next
      BY <2>1, <2>2, <2>3, <2>4, <2>6, TablesBook, WriteChangesOnly, CancelChangesOnly,
         OneClassBooks DEF Next
    <2>7. QED
      BY <2>5, <2>6
  <1>3. Spec => []BookingInv /\ []EditorsInv
    BY BookingInvariant, EditorsInvariant, PTL DEF LockedHandlers
  <1>4. QED
    BY <1>1, <1>2, <1>3, TypeCorrect, PTL DEF Spec, BookingsSpec, B!Spec

--------------------------------------------------------------------------------
(* The series of one class *)

\* The dates of a series.
Span(row) == row.first .. row.last

\* The new row of an insert lies apart from rows that were cut to make room for it.
LEMMA InsertApart ==
    ASSUME NEW rows \in [Events -> RowType], NEW row \in RowType, NEW c, Insert(rows, row),
           row.class = c,
           \A e, n \in Events : /\ e # n /\ rows[e].class # None
                                /\ rows[e].class = rows[n].class
                                => Span(rows[e]) \cap Span(rows[n]) = {},
           \A e \in Events : rows[e].class = c => Span(rows[e]) \cap Span(row) = {}
    PROVE  OneSeriesPerDate'
  <1>1. PICK e0 \in Events : FirstFree(e0) /\ event' = [rows EXCEPT ![e0] = row]
    BY DEF Insert
  <1>2. event'[e0] = row /\ \A e \in Events \ {e0} : event'[e] = rows[e]
    BY <1>1
  <1>3. SUFFICES ASSUME NEW e \in Events, NEW n \in Events, e # n, event'[e].class # None,
                        event'[e].class = event'[n].class
                 PROVE  Span(event'[e]) \cap Span(event'[n]) = {}
    BY DEF OneSeriesPerDate, Span
  <1>4. CASE e = e0
    BY <1>2, <1>3, <1>4
  <1>5. CASE n = e0
    BY <1>2, <1>3, <1>5
  <1>6. CASE e # e0 /\ n # e0
    BY <1>2, <1>3, <1>6
  <1>7. QED
    BY <1>4, <1>5, <1>6

\* The fields of a row are numbers where they should be.
LEMMA RowNumbers ==
    ASSUME TypeOK
    PROVE  \A e \in Events : /\ event[e] \in RowType
                             /\ event[e].first \in Int /\ event[e].last \in Int
  BY TypeNamed, BoundsAssumption DEF RowType, Dates

\* What a request brings with it whoever else works on its class: a class that is created is
\* nobody else's and has no rows, an edit leaves the dates alone, and a restored series is
\* cut within the dates read.
SeriesRequest(q) ==
    /\ q.kind = "edit" => q.span = Keep
    /\ q.kind = "uncancelSeries" =>
         /\ q.step = "Write" /\ q.event \in Events /\ q.read[q.event] # None
         /\ q.first \in q.read[q.event][1] .. q.read[q.event][2]
         /\ q.last = q.read[q.event][2]

SeriesRequests ==
    \A a \in Admins : Busy(a) =>
        /\ SeriesRequest(request[a])
        /\ request[a].kind = "create" =>
             /\ \A e \in Events : event[e].class # request[a].class
             /\ \A b \in Admins \ {a} : Busy(b) => request[b].class # request[a].class

\* A request that goes on, on the same class.
LEMMA SeriesGoesOn ==
    ASSUME TypeOK, SeriesRequests, UNCHANGED event, NEW a \in Admins, NEW q, Become(a, q),
           Busy(a), SeriesRequest(q), q.kind = request[a].kind, q.class = request[a].class
    PROVE  SeriesRequests'
  <1>1. request'[a] = q /\ \A b \in Admins \ {a} : request'[b] = request[b]
    BY DEF Become, TypeOK
  <1>2. \A b \in Admins : Busy(b)' =>
           /\ Busy(b) /\ request'[b].kind = request[b].kind
           /\ request'[b].class = request[b].class
    BY <1>1 DEF Busy
  <1>3. \A b \in Admins : Busy(b)' => SeriesRequest(request'[b])
    BY <1>1, <1>2 DEF SeriesRequests
  <1>4. QED
    BY <1>2, <1>3 DEF SeriesRequests, SeriesRequest

\* A request that ends, having changed rows of its class.
LEMMA SeriesEnds ==
    ASSUME TypeOK, SeriesRequests, NEW a \in Admins, Busy(a), Finish(a),
           \A e \in Events : event'[e].class \in {event[e].class, request[a].class, None}
    PROVE  SeriesRequests'
  <1>1. request'[a] = Idle /\ \A b \in Admins \ {a} : request'[b] = request[b]
    BY DEF Finish, Become, TypeOK
  <1>2. \A b \in Admins : Busy(b)' => b # a /\ Busy(b) /\ request'[b] = request[b]
    BY <1>1 DEF Busy, Idle
  <1>3. ASSUME NEW b \in Admins, Busy(b)', request'[b].kind = "create"
        PROVE  \A e \in Events : event'[e].class # request'[b].class
    <2>1. /\ request'[b] = request[b] /\ request[b].class # None
          /\ request[a].class # request[b].class
          /\ \A e \in Events : event[e].class # request[b].class
      BY <1>2, <1>3, UnderWay DEF SeriesRequests
    <2>2. QED
      BY <2>1
  <1>4. \A b \in Admins : Busy(b)' => SeriesRequest(request'[b])
    BY <1>2 DEF SeriesRequests
  <1>5. QED
    BY <1>2, <1>3, <1>4 DEF SeriesRequests, SeriesRequest

\* A write brings rows of its class only, however old what it has read.
LEMMA WriteClasses ==
    ASSUME TypeOK, NEW a \in Admins,
           WriteNew(a) \/ WriteEdit(a) \/ WriteSeries(a) \/ WriteUncancel(a) \/ WriteOverride(a)
    PROVE  /\ Busy(a) /\ Finish(a)
           /\ \A e \in Events : event'[e].class \in {event[e].class, request[a].class, None}
  <1> DEFINE q == request[a]
             Kept(rows) == \A e \in Events : rows[e].class \in {event[e].class, None}
  <1>1. q.step = "Write" /\ Busy(a) /\ Finish(a)
    BY DEF WriteNew, WriteEdit, WriteSeries, WriteUncancel, WriteOverride, MayWrite, Busy
  <1>2. event \in [Events -> RowType] /\ NewSeries(q).class = q.class /\ NoEvent.class = None
    BY TypeNamed DEF NewSeries, NoEvent
  <1>3. \A e \in Events : ~Gone(q, e) =>
           CutShort(q, e) \in RowType /\ CutShort(q, e).class = event[e].class
    BY <1>1, RowTypes
  <1>4. Capped(q) \in [Events -> RowType] /\ Kept(Capped(q))
    <2>1. Capped(q) \in [Events -> RowType]
      BY <1>1, RowTypes
    <2> HIDE DEF q
    <2>2. \A e \in Events : Capped(q)[e] \in {event[e], NoEvent}
                            \/ (~Gone(q, e) /\ Capped(q)[e] = CutShort(q, e))
      BY DEF Capped
    <2>3. QED
      BY <1>2, <1>3, <2>1, <2>2
  <1>5. Uncancelled(q) \in [Events -> RowType] /\ Kept(Uncancelled(q))
    BY <1>2, <1>3 DEF Uncancelled
  <1> HIDE DEF q
  <1>6. ASSUME NEW rows, rows \in [Events -> RowType], Kept(rows), Insert(rows, NewSeries(q))
        PROVE  \A e \in Events : event'[e].class \in {event[e].class, q.class, None}
    BY <1>2, <1>6 DEF Insert
  <1>7. CASE WriteNew(a)
    <2>1. Insert(event, NewSeries(q)) /\ Kept(event)
      BY <1>7 DEF WriteNew, q
    <2> HIDE DEF Kept
    <2>2. QED
      BY <1>1, <1>2, <1>6, <2>1 DEF q
  <1>8. CASE WriteEdit(a)
    <2>1. ASSUME NEW e \in Events PROVE event'[e].class = event[e].class
      <3>1. CASE event[e].class # q.class
        BY <1>8, <3>1 DEF WriteEdit, q
      <3>2. CASE event[e].class = q.class
        <4>1. event'[e] = [event[e] EXCEPT
                             !.instructor = IF q.instructor = Keep THEN @ ELSE q.instructor,
                             !.room = IF e = q.event /\ q.room # Keep THEN q.room ELSE @,
                             !.first = IF e = q.event /\ q.span # Keep THEN q.span[1] ELSE @,
                             !.last = IF e = q.event /\ q.span # Keep THEN q.span[2] ELSE @]
          BY <1>8, <3>2 DEF WriteEdit, q
        <4>2. event[e] \in RowType
          BY <1>2
        <4>3. QED
          BY <4>1, <4>2 DEF RowType
      <3>3. QED
        BY <3>1, <3>2
    <2>2. QED
      BY <1>1, <2>1
  <1>9. CASE WriteSeries(a)
    <2>1. Insert(Capped(q), NewSeries(q)) \/ event' = Capped(q)
      BY <1>9 DEF WriteSeries, q
    <2>2. QED
      BY <1>1, <1>4, <1>6, <2>1 DEF q
  <1>10. CASE WriteUncancel(a)
    <2>1. Insert(Uncancelled(q), NewSeries(q))
      BY <1>10 DEF WriteUncancel, Uncancelled, q
    <2>2. QED
      BY <1>1, <1>5, <1>6, <2>1 DEF q
  <1>11. CASE WriteOverride(a)
    BY <1>1, <1>11 DEF WriteOverride
  <1>12. QED
    BY <1>1, <1>7, <1>8, <1>9, <1>10, <1>11 DEF q

\* Every step keeps what requests bring with them.
LEMMA SeriesRequestsStep ==
    ASSUME TypeOK, SeriesRequests, [Next]_vars, "schedule" \notin Handlers
    PROVE  SeriesRequests'
  <1>1. ASSUME NEW a \in Admins, Start(a) PROVE SeriesRequests'
    <2>1. PICK q \in Request : Become(a, q) /\ Fresh(a, q)
      BY <1>1, StartReads
    <2>2. UNCHANGED event /\ request'[a] = q /\ \A b \in Admins \ {a} : request'[b] = request[b]
      BY <1>1, <2>1, StartReads DEF Become, TypeOK
    <2>3. StillRead(q) /\ RequestFields(q)
      BY <2>1, RequestNamed DEF Fresh
    <2>4. SeriesRequest(q)
      <3>1. q.kind = "edit" => q.span = Keep
        BY <2>3 DEF StillRead
      <3>2. ASSUME q.kind = "uncancelSeries"
            PROVE  /\ q.step = "Write" /\ q.event \in Events /\ q.read[q.event] # None
                   /\ q.first \in q.read[q.event][1] .. q.read[q.event][2]
                   /\ q.last = q.read[q.event][2]
        <4>1. /\ q.step = "Write" /\ q.event \in Events /\ event[q.event].class = q.class
              /\ q.first \in event[q.event].first .. event[q.event].last
              /\ q.last = event[q.event].last /\ q.read = Reading(q)
          BY <2>3, <3>2 DEF StillRead, RowWriters
        <4>2. q.class # None
          BY <2>3, NoneAssumption DEF RequestFields
        <4>3. ~Gone(q, q.event)
          BY <4>1, <4>2, ReadAsStands
        <4>4. q.read[q.event][1] = event[q.event].first
              /\ q.read[q.event][2] = event[q.event].last
          BY <4>1, <4>2, <4>3, ReadAsStands
        <4>5. QED
          BY <4>1, <4>3, <4>4 DEF Gone
      <3>3. QED
        BY <3>1, <3>2 DEF SeriesRequest
    <2>5. /\ q.kind = "create" =>
               /\ \A e \in Events : event[e].class # q.class
               /\ \A b \in Admins : Busy(b) => request[b].class # q.class
          /\ \A b \in Admins : Busy(b) /\ request[b].kind = "create"
                                 => request[b].class # q.class
      BY <2>1, <2>3 DEF Fresh, StillRead, WorkingOn
    <2>6. \A b \in Admins \ {a} : Busy(b)' => Busy(b)
      BY <2>2 DEF Busy
    <2>7. \A b \in Admins : Busy(b)' => SeriesRequest(request'[b])
      BY <2>2, <2>4, <2>6 DEF SeriesRequests
    <2>8. \A b \in Admins : Busy(b)' /\ request'[b].kind = "create" =>
             /\ \A e \in Events : event'[e].class # request'[b].class
             /\ \A n \in Admins \ {b} : Busy(n)' => request'[n].class # request'[b].class
      BY <2>2, <2>5, <2>6 DEF SeriesRequests
    <2>9. QED
      BY <2>7, <2>8 DEF SeriesRequests, SeriesRequest
  <1>2. ASSUME NEW a \in Admins, EditRead(a) PROVE SeriesRequests'
    <2> DEFINE q == request[a]
    <2>1. Busy(a) /\ q.kind = "edit" /\ RequestFields(q) /\ SeriesRequest(q) /\ UNCHANGED event
      BY <1>2, UnderWay DEF EditRead, Busy, SeriesRequests
    <2>2. PICK r : /\ Become(a, r) /\ r.kind = q.kind /\ r.class = q.class
                   /\ r.span \in {q.span, Keep}
      <3>1. ASSUME NEW e \in Events,
                   Become(a, [q EXCEPT
                     !.step = AfterRead(q),
                     !.event = e,
                     !.room = IF @ = event[e].room THEN Keep ELSE @,
                     !.span = IF @ = <<event[e].first, event[e].last>> THEN Keep ELSE @])
            PROVE  \E r : /\ Become(a, r) /\ r.kind = q.kind /\ r.class = q.class
                          /\ r.span \in {q.span, Keep}
        <4> DEFINE r == [q EXCEPT
                     !.step = AfterRead(q),
                     !.event = e,
                     !.room = IF @ = event[e].room THEN Keep ELSE @,
                     !.span = IF @ = <<event[e].first, event[e].last>> THEN Keep ELSE @]
        <4>1. r.kind = q.kind /\ r.class = q.class /\ r.span \in {q.span, Keep}
          BY <2>1 DEF RequestFields
        <4>2. Become(a, r)
          BY <3>1
        <4> HIDE DEF r
        <4>3. QED
          BY <4>1, <4>2
      <3>2. CASE Become(a, [q EXCEPT !.step = AfterRead(q)])
        BY <2>1, <3>2 DEF RequestFields
      <3>3. QED
        BY <1>2, <3>1, <3>2 DEF EditRead
    <2>3. SeriesRequest(r)
      BY <2>1, <2>2 DEF SeriesRequest
    <2>4. QED
      BY <2>1, <2>2, <2>3, SeriesGoesOn
  <1>3. ASSUME NEW a \in Admins, Check(a) PROVE SeriesRequests'
    <2> DEFINE q == request[a]
               r == [q EXCEPT !.step = AfterCheck(q)]
    <2>1. /\ Busy(a) /\ q.step = "Check" /\ RequestFields(q) /\ SeriesRequest(q)
          /\ UNCHANGED event
      BY <1>3, UnderWay DEF Check, Busy, SeriesRequests
    <2>2. CASE Finish(a)
      BY <2>1, <2>2, SeriesEnds
    <2>3. CASE Become(a, r)
      <3>1. r.kind = q.kind /\ r.class = q.class /\ r.span = q.span
        BY <2>1 DEF RequestFields
      <3>2. SeriesRequest(r)
        BY <2>1, <3>1 DEF SeriesRequest
      <3>3. QED
        BY <2>1, <2>3, <3>1, <3>2, SeriesGoesOn
    <2>4. QED
      BY <1>3, <2>2, <2>3 DEF Check
  <1>4. ASSUME NEW a \in Admins, SeriesRead(a) PROVE SeriesRequests'
    <2> DEFINE q == request[a]
               r == [q EXCEPT !.step = "Write", !.read = Reading(q)]
    <2>1. /\ Busy(a) /\ q.step = "Read" /\ RequestFields(q) /\ SeriesRequest(q)
          /\ UNCHANGED event /\ Become(a, r)
      BY <1>4, UnderWay DEF SeriesRead, Busy, SeriesRequests
    <2>2. r.kind = q.kind /\ r.class = q.class /\ r.span = q.span
      BY <2>1 DEF RequestFields
    <2>3. SeriesRequest(r)
      BY <2>1, <2>2 DEF SeriesRequest
    <2> HIDE DEF r
    <2>4. QED
      BY <2>1, <2>2, <2>3, SeriesGoesOn
  <1>5. ASSUME NEW a \in Admins, Refer(a) PROVE SeriesRequests'
    <2>1. Busy(a) /\ SeriesRequest(request[a]) /\ UNCHANGED event
      BY <1>5 DEF Refer, Busy, SeriesRequests
    <2>2. PICK r : Become(a, r) /\ SameButShares(r, request[a])
      BY <1>5, ReferShares
    <2>3. SeriesRequest(r)
      BY <2>1, <2>2 DEF SeriesRequest, SameButShares
    <2>4. QED
      BY <2>1, <2>2, <2>3, SeriesGoesOn DEF SameButShares
  <1>6. ASSUME NEW a \in Admins,
               WriteNew(a) \/ WriteEdit(a) \/ WriteSeries(a) \/ WriteUncancel(a)
               \/ WriteOverride(a)
        PROVE  SeriesRequests'
    BY <1>6, WriteClasses, SeriesEnds
  <1>7. ASSUME NEW a \in Admins, DeadlockEnds(a) PROVE SeriesRequests'
    BY <1>7, DeadlockFinish, SeriesEnds
  <1>8. ASSUME UNCHANGED <<event, request>> PROVE SeriesRequests'
    BY <1>8 DEF SeriesRequests, SeriesRequest, Busy
  <1>9. ASSUME NEW a \in Admins, Lock(a) PROVE SeriesRequests'
    BY <1>8, <1>9 DEF Lock
  <1>10. QED
    BY <1>1, <1>2, <1>3, <1>4, <1>5, <1>6, <1>7, <1>8, <1>9, DatesOnly
       DEF Next, Advance, vars

LEMMA SeriesRequestsInvariant ==
    ASSUME "schedule" \notin Handlers
    PROVE  Spec => []SeriesRequests
  <1>1. Init => SeriesRequests
    BY DEF Init, SeriesRequests, Busy, Idle
  <1>2. TypeOK /\ SeriesRequests /\ [Next]_vars => SeriesRequests'
    BY SeriesRequestsStep
  <1>3. QED
    BY <1>1, <1>2, TypeCorrect, PTL DEF Spec

\* A write of any handler but the two keeps the series of a class apart, unless the rows
\* have changed since it read them.
LEMMA SeriesStep ==
    ASSUME TypeOK, SeriesRequests, OneSeriesPerDate, [Next]_vars,
           "add" \notin Handlers, \A a \in Admins : ~WritesFromStale(a)
    PROVE  OneSeriesPerDate'
  <1>0. /\ \A e \in Events : /\ event[e] \in RowType
                             /\ event[e].first \in Int /\ event[e].last \in Int
        /\ event \in [Events -> RowType]
    BY RowNumbers, TypeNamed
  <1>1. ASSUME UNCHANGED event PROVE OneSeriesPerDate'
    BY <1>1 DEF OneSeriesPerDate
  <1>2. ASSUME NEW a \in Admins, request[a].step = "Write"
        PROVE  /\ RequestFields(request[a]) /\ SeriesRequest(request[a])
               /\ request[a].class # None /\ Busy(a)
               /\ request[a].first \in Dates /\ request[a].first \in Int
               /\ request[a].last \in Int /\ request[a].kind # "add"
    <2>1. Busy(a)
      BY <1>2 DEF Busy
    <2>2. RequestFields(request[a]) /\ SeriesRequest(request[a]) /\ request[a].class # None
      BY <2>1, UnderWay DEF SeriesRequests
    <2>3. /\ request[a].first \in Dates /\ request[a].last \in 0 .. Horizon
          /\ request[a].kind \in Handlers
      BY <2>2 DEF RequestFields
    <2>4. QED
      BY <2>1, <2>2, <2>3, BoundsAssumption DEF Dates
  <1>F. ASSUME NEW a \in Admins, WriteSeries(a) \/ WriteUncancel(a)
        PROVE  request[a].read = Reading(request[a])
    <2>1. /\ request[a].step = "Write" /\ Finish(a)
          /\ request[a].kind \in {"reschedule", "cancelSeries", "uncancelSeries"}
      BY <1>F DEF WriteSeries, WriteUncancel, MayWrite
    <2>2. request'[a] = Idle
      BY <2>1 DEF Finish, Become, TypeOK
    <2>3. QED
      BY <2>1, <2>2 DEF WritesFromStale
  <1>3. \A e, n \in Events : e # n /\ event[e].class # None /\ event[e].class = event[n].class
                             => Span(event[e]) \cap Span(event[n]) = {}
    BY DEF OneSeriesPerDate, Span
  <1>4. ASSUME NEW a \in Admins, WriteNew(a) PROVE OneSeriesPerDate'
    <2> DEFINE q == request[a]
    <2>1. q.step = "Write" /\ q.kind = "create" /\ Insert(event, NewSeries(q))
      BY <1>2, <1>4 DEF WriteNew, MayWrite
    <2>2. NewSeries(q) \in RowType /\ NewSeries(q).class = q.class
      BY <2>1, RowTypes DEF NewSeries
    <2>3. \A e \in Events : event[e].class # q.class
      BY <1>2, <2>1 DEF SeriesRequests
    <2> HIDE DEF q
    <2>4. QED
      BY <1>0, <1>3, <2>1, <2>2, <2>3, InsertApart
  <1>5. ASSUME NEW a \in Admins, WriteEdit(a) PROVE OneSeriesPerDate'
    <2> DEFINE q == request[a]
    <2>1. q.step = "Write" /\ q.kind = "edit"
      BY <1>5 DEF WriteEdit, MayWrite
    <2>2. q.span = Keep
      BY <1>2, <2>1 DEF SeriesRequest
    <2>3. ASSUME NEW e \in Events
          PROVE  /\ event'[e].class = event[e].class
                 /\ event'[e].first = event[e].first /\ event'[e].last = event[e].last
      <3>1. CASE event[e].class # q.class
        BY <1>5, <3>1 DEF WriteEdit
      <3>2. CASE event[e].class = q.class
        <4>1. event'[e] = [event[e] EXCEPT
                             !.instructor = IF q.instructor = Keep THEN @ ELSE q.instructor,
                             !.room = IF e = q.event /\ q.room # Keep THEN q.room ELSE @,
                             !.first = IF e = q.event /\ q.span # Keep THEN q.span[1] ELSE @,
                             !.last = IF e = q.event /\ q.span # Keep THEN q.span[2] ELSE @]
          BY <1>5, <3>2 DEF WriteEdit
        <4>2. event[e] \in RowType
          BY <1>0
        <4> HIDE DEF q
        <4>3. QED
          BY <2>2, <4>1, <4>2 DEF RowType
      <3>3. QED
        BY <3>1, <3>2
    <2>4. QED
      BY <2>3 DEF OneSeriesPerDate
  <1>6. ASSUME NEW a \in Admins, WriteSeries(a) PROVE OneSeriesPerDate'
    <2> DEFINE q == request[a]
    <2>1. /\ q.step = "Write" /\ q.kind # "edit" /\ q.kind # "uncancelSeries"
          /\ q.read = Reading(q)
      BY <1>6, <1>F DEF WriteSeries, MayWrite
    <2>2. /\ NewSeries(q) \in RowType /\ NewSeries(q).class = q.class
          /\ Capped(q) \in [Events -> RowType]
          /\ NewSeries(q).first = q.first /\ NewSeries(q).last = q.last
      BY <2>1, RowTypes DEF NewSeries
    <2>3. q.first \in Dates /\ q.first \in Int /\ q.last \in Int
      BY <1>2, <2>1
    <2>4. \/ Insert(Capped(q), NewSeries(q))
          \/ event' = Capped(q)
      BY <1>6 DEF WriteSeries
    <2> HIDE DEF q
    <2>5. ASSUME NEW e \in Events
          PROVE  \/ Capped(q)[e] = event[e] /\ event[e].class # q.class
                 \/ Capped(q)[e].class = None
                 \/ /\ Capped(q)[e].class = event[e].class /\ event[e].class = q.class
                    /\ Capped(q)[e].first = event[e].first /\ Capped(q)[e].last <= event[e].last
                    /\ Capped(q)[e].last < q.first /\ Capped(q)[e].last \in Int
      <3>1. q = request[a]
        BY DEF q
      <3>2. /\ event[e].class # q.class => Capped(q)[e] = event[e]
            /\ event[e].class = q.class =>
                 \/ Capped(q)[e] = NoEvent
                 \/ /\ Capped(q)[e].class = q.class
                    /\ Capped(q)[e].first = event[e].first
                    /\ Capped(q)[e].last < q.first /\ Capped(q)[e].last <= event[e].last
        BY <2>1, <3>1, CappedRow
      <3>3. Capped(q)[e] \in RowType
        BY <2>2
      <3>4. Capped(q)[e].last \in Int
        BY <3>3, BoundsAssumption DEF RowType
      <3>5. NoEvent.class = None
        BY DEF NoEvent
      <3>6. QED
        BY <3>2, <3>4, <3>5
    <2>6. \A e \in Events : Capped(q)[e].class # None
             => /\ Capped(q)[e].class = event[e].class
                /\ Span(Capped(q)[e]) \in SUBSET Span(event[e])
      <3>1. \A e \in Events : Capped(q)[e].class # None =>
               /\ Capped(q)[e].class = event[e].class
               /\ Capped(q)[e].first = event[e].first /\ Capped(q)[e].last <= event[e].last
               /\ Capped(q)[e].last \in Int
        BY <1>0, <2>5
      <3>2. QED
        BY <1>0, <3>1 DEF Span
    <2>7. ASSUME NEW e \in Events, NEW n \in Events, e # n, Capped(q)[e].class # None,
                 Capped(q)[e].class = Capped(q)[n].class
          PROVE  Span(Capped(q)[e]) \cap Span(Capped(q)[n]) = {}
      <3>1. Span(event[e]) \cap Span(event[n]) = {}
        BY <1>3, <2>6, <2>7
      <3>2. /\ Span(Capped(q)[e]) \in SUBSET Span(event[e])
            /\ Span(Capped(q)[n]) \in SUBSET Span(event[n])
        BY <2>6, <2>7
      <3>3. QED
        BY <3>1, <3>2
    <2>8. ASSUME NEW e \in Events, Capped(q)[e].class = q.class
          PROVE  Span(Capped(q)[e]) \cap Span(NewSeries(q)) = {}
      <3>1. Capped(q)[e].last < q.first /\ Capped(q)[e].last \in Int
        <4>1. q.class # None
          BY <1>2, <2>1 DEF q
        <4>2. QED
          BY <2>5, <2>8, <4>1
      <3>2. Capped(q)[e].first \in Int
        <4>1. Capped(q)[e] \in RowType
          BY <2>2
        <4>2. QED
          BY <4>1 DEF RowType, Dates
      <3>3. QED
        BY <2>2, <2>3, <3>1, <3>2 DEF Span
    <2>9. CASE Insert(Capped(q), NewSeries(q))
      BY <2>2, <2>7, <2>8, <2>9, InsertApart
    <2>10. CASE event' = Capped(q)
      BY <2>7, <2>10 DEF OneSeriesPerDate, Span
    <2>11. QED
      BY <2>4, <2>9, <2>10
  <1>7. ASSUME NEW a \in Admins, WriteUncancel(a) PROVE OneSeriesPerDate'
    <2> DEFINE q == request[a]
               rows == Uncancelled(q)
    <2>1. /\ q.step = "Write" /\ q.kind = "uncancelSeries" /\ q.read = Reading(q)
          /\ Insert(rows, NewSeries(q))
      BY <1>7, <1>F DEF WriteUncancel, MayWrite, Uncancelled
    <2>2. /\ NewSeries(q) \in RowType /\ NewSeries(q).class = q.class
          /\ NewSeries(q).first = q.first /\ NewSeries(q).last = q.last
      BY <2>1, RowTypes DEF NewSeries
    <2>3. /\ q.event \in Events /\ event[q.event].class = q.class
          /\ q.first \in Span(event[q.event]) /\ q.last = event[q.event].last
      <3>1. /\ q.event \in Events /\ q.read[q.event] # None /\ q.class # None
            /\ q.first \in q.read[q.event][1] .. q.read[q.event][2]
            /\ q.last = q.read[q.event][2]
        BY <1>2, <2>1 DEF SeriesRequest
      <3>2. event[q.event].class = q.class
        BY <2>1, <3>1 DEF Reading
      <3>3. ~Gone(q, q.event)
        BY <2>1, <3>1, <3>2, ReadAsStands
      <3>4. QED
        BY <2>1, <3>1, <3>2, <3>3, ReadAsStands DEF Span
    <2>4. q.first \in Int /\ q.last \in Int /\ q.first - 1 \in 0 .. Horizon /\ q.class # None
      BY <1>2, <2>1, BoundsAssumption DEF Dates
    <2>5. /\ rows \in [Events -> RowType] /\ \A e \in Events \ {q.event} : rows[e] = event[e]
          /\ rows[q.event].class = q.class
          /\ rows[q.event].first = event[q.event].first /\ rows[q.event].last = q.first - 1
      BY <2>1, <2>3, UncancelledRow
    <2> HIDE DEF q, rows
    <2>8. /\ Span(NewSeries(q)) \in SUBSET Span(event[q.event])
          /\ Span(rows[q.event]) \in SUBSET Span(event[q.event])
          /\ Span(rows[q.event]) \cap Span(NewSeries(q)) = {}
      <3>1. event[q.event].first \in Int /\ event[q.event].last \in Int
        BY <1>0, <2>3
      <3>2. QED
        BY <2>2, <2>3, <2>4, <2>5, <3>1 DEF Span
    <2>9. \A e \in Events : rows[e].class = event[e].class
                            /\ Span(rows[e]) \in SUBSET Span(event[e])
      BY <2>3, <2>5, <2>8
    <2>10. ASSUME NEW e \in Events, NEW n \in Events, e # n, rows[e].class # None,
                  rows[e].class = rows[n].class
           PROVE  Span(rows[e]) \cap Span(rows[n]) = {}
      <3>1. Span(event[e]) \cap Span(event[n]) = {}
        BY <1>3, <2>9, <2>10
      <3>2. QED
        BY <2>9, <3>1
    <2>11. ASSUME NEW e \in Events, rows[e].class = q.class
           PROVE  Span(rows[e]) \cap Span(NewSeries(q)) = {}
      <3>1. CASE e = q.event
        BY <2>8, <3>1
      <3>2. CASE e # q.event
        <4>1. Span(event[e]) \cap Span(event[q.event]) = {}
          BY <1>3, <2>3, <2>4, <2>9, <2>11, <3>2
        <4>2. QED
          BY <2>8, <2>9, <4>1
      <3>3. QED
        BY <3>1, <3>2
    <2>12. QED
      BY <2>1, <2>2, <2>5, <2>10, <2>11, InsertApart
  <1>8. ASSUME NEW a \in Admins, Advance(a) PROVE OneSeriesPerDate'
    BY <1>1, <1>4, <1>5, <1>6, <1>7, <1>8
       DEF Advance, EditRead, Lock, Check, SeriesRead, Refer, WriteOverride
  <1>9. ASSUME NEW a \in Admins, Start(a) PROVE OneSeriesPerDate'
    BY <1>1, <1>9, StartReads
  <1>10. QED
    BY <1>1, <1>8, <1>9, DatesOnly, DeadlockFinish DEF Next, vars

\* However many administrators create, edit, reschedule, cancel, restore and override, and
\* however many of them work on one class, a class comes to have two series on one date only
\* by a request that writes from a reading which another has made old.  Two handlers are
\* left out that the code does not hold to it: one adds a series without looking at those of
\* the class, the other moves one of them.
THEOREM DoubledOnlyFromStaleHolds ==
    ASSUME "add" \notin Handlers, "schedule" \notin Handlers
    PROVE  Spec => DoubledOnlyFromStale
  <1> DEFINE Doubled == OneSeriesPerDate /\ ~OneSeriesPerDate'
                        => \E a \in Admins : WritesFromStale(a)
  <1>1. TypeOK /\ SeriesRequests /\ [Next]_vars => [Doubled]_vars
    BY SeriesStep
  <1>2. QED
    BY <1>1, TypeCorrect, SeriesRequestsInvariant, PTL DEF Spec, DoubledOnlyFromStale

\* So in every behaviour in which no request writes from an old reading, by whatever means, a
\* class never has two series on one date.
THEOREM OneSeriesPerDateHolds ==
    ASSUME "add" \notin Handlers, "schedule" \notin Handlers
    PROVE  Spec /\ [][\A a \in Admins : ~WritesFromStale(a)]_vars => []OneSeriesPerDate
  <1>1. Init => OneSeriesPerDate
    BY DEF Init, NoEvent, OneSeriesPerDate
  <1>2. TypeOK /\ SeriesRequests /\ OneSeriesPerDate /\ [Next]_vars
          /\ [\A a \in Admins : ~WritesFromStale(a)]_vars
          => OneSeriesPerDate'
    <2>1. CASE UNCHANGED vars
      BY <2>1 DEF vars, OneSeriesPerDate
    <2>2. QED
      BY <2>1, SeriesStep
  <1>3. QED
    BY <1>1, <1>2, TypeCorrect, SeriesRequestsInvariant, PTL DEF Spec

\* One request on a class at a time is enough: what it reads holds until it writes.
LEMMA OneEditorNeverStale ==
    ASSUME OneEditorPerClass
    PROVE  Spec => [][\A a \in Admins : ~WritesFromStale(a)]_vars
  <1>1. ReadsHold => \A a \in Admins : ~WritesFromStale(a)
    BY DEF ReadsHold, StillRead, RowWriters, WritesFromStale, Busy
  <1>2. QED
    BY <1>1, EditorsRead, PTL

COROLLARY OneSeriesPerDateForOneEditor ==
    ASSUME OneEditorPerClass, "add" \notin Handlers, "schedule" \notin Handlers
    PROVE  Spec => []OneSeriesPerDate
  BY OneEditorNeverStale, OneSeriesPerDateHolds, PTL
--------------------------------------------------------------------------------
(* One administrator at a time: the rooms of the series *)

\* The handlers that write whole series.
SeriesHandlers ==
    {"create", "edit", "instructor", "unassign", "add", "reschedule", "cancelSeries",
     "uncancelSeries"}

\* Series of two classes share no room on a date, cancelled ones included.
RoomsClaimedOnce ==
    \A e, n \in Events :
        /\ None \notin {event[e].class, event[n].class} /\ event[e].class # event[n].class
        /\ event[e].room = event[n].room /\ event[e].room \in Rooms
        => (event[e].first .. event[e].last) \cap (event[n].first .. event[n].last) = {}

\* No date has an override: no handler here makes one.
NothingOverridden == \A e \in Events, d \in Dates : override[e][d].kind = "None"

\* The room a request has checked is still free when it writes.
RoomStillFree ==
    \A a \in Admins : request[a].step \in {"Read", "Write"} =>
        \A e \in Events, d \in Dates :
            LET q == request[a] IN
            /\ q.checkRoom # None /\ d \in q.first .. q.last /\ ~Excluded(q, e)
            => ~RoomBooked(e, q.checkRoom, d)

\* A series lies within one of its class in the same room, as the table stands.
Claimed(row) ==
    \E m \in Events : /\ event[m].class = row.class /\ event[m].room = row.room
                      /\ Span(row) \in SUBSET Span(event[m])

\* A series of class c meets no series of another class in its room.
Cleared(row, c) ==
    /\ row.class = c
    /\ \A n \in Events :
          event[n].class \notin {None, c} /\ event[n].room = row.room /\ row.room \in Rooms
          => Span(event[n]) \cap Span(row) = {}

\* The invariant of the rooms, for a lone administrator.
RoomInv == RoomsClaimedOnce /\ NothingOverridden /\ RoomStillFree /\ FreeRowsEmpty

\* Series that were claimed before, or that belong to one class and were cleared, share no room.
LEMMA ClaimsKept ==
    ASSUME RoomsClaimedOnce, NEW c,
           \A e \in Events : \/ event'[e].class = None
                             \/ Claimed(event'[e])
                             \/ Cleared(event'[e], c)
    PROVE  RoomsClaimedOnce'
  <1>1. \A e, n \in Events :
           /\ None \notin {event[e].class, event[n].class} /\ event[e].class # event[n].class
           /\ event[e].room = event[n].room /\ event[e].room \in Rooms
           => Span(event[e]) \cap Span(event[n]) = {}
    BY DEF RoomsClaimedOnce, Span
  <1>2. ASSUME NEW row, NEW other, Claimed(row), row.room \in Rooms, row.room = other.room,
               row.class # None, other.class # None, row.class # other.class,
               Claimed(other) \/ Cleared(other, c)
        PROVE  Span(row) \cap Span(other) = {}
    <2>1. PICK m \in Events : /\ event[m].class = row.class /\ event[m].room = row.room
                              /\ Span(row) \in SUBSET Span(event[m])
      BY <1>2 DEF Claimed
    <2>2. Span(event[m]) \cap Span(other) = {}
      <3>1. CASE Claimed(other)
        <4>1. PICK n \in Events : /\ event[n].class = other.class /\ event[n].room = other.room
                                  /\ Span(other) \in SUBSET Span(event[n])
          BY <3>1 DEF Claimed
        <4>2. Span(event[m]) \cap Span(event[n]) = {}
          BY <1>1, <1>2, <2>1, <4>1
        <4>3. QED
          BY <4>1, <4>2
      <3>2. CASE Cleared(other, c)
        BY <1>2, <2>1, <3>2 DEF Cleared
      <3>3. QED
        BY <1>2, <3>1, <3>2
    <2>3. QED
      BY <2>1, <2>2
  <1>3. SUFFICES ASSUME NEW e \in Events, NEW n \in Events,
                        event'[e].class # None, event'[n].class # None,
                        event'[e].class # event'[n].class,
                        event'[e].room = event'[n].room, event'[e].room \in Rooms
                 PROVE  Span(event'[e]) \cap Span(event'[n]) = {}
    BY DEF RoomsClaimedOnce, Span
  <1>4. CASE Claimed(event'[e])
    BY <1>2, <1>3, <1>4
  <1>5. CASE Claimed(event'[n])
    <2>1. Span(event'[n]) \cap Span(event'[e]) = {}
      BY <1>2, <1>3, <1>5
    <2>2. QED
      BY <2>1
  <1>6. CASE Cleared(event'[e], c) /\ Cleared(event'[n], c)
    BY <1>3, <1>6 DEF Cleared
  <1>7. QED
    BY <1>3, <1>4, <1>5, <1>6

\* A row that is left alone is claimed.
LEMMA SameClaimed == ASSUME NEW e \in Events PROVE Claimed(event[e])
  BY DEF Claimed

\* A new row among such rows leaves no claim on a free row, and no override.
LEMMA InsertClaims ==
    ASSUME RoomsClaimedOnce, NothingOverridden,
           NEW rows \in [Events -> RowType], NEW row \in RowType, NEW c, Insert(rows, row),
           row.class = c, c # None, Claimed(row) \/ Cleared(row, c),
           \A e \in Events : rows[e].class = None => rows[e].first > rows[e].last,
           \A e \in Events : rows[e].class = None \/ Claimed(rows[e]) \/ Cleared(rows[e], c)
    PROVE  RoomsClaimedOnce' /\ NothingOverridden' /\ FreeRowsEmpty'
  <1>1. PICK e0 \in Events : FirstFree(e0) /\ event' = [rows EXCEPT ![e0] = row]
    BY DEF Insert
  <1>2. event'[e0] = row /\ \A e \in Events \ {e0} : event'[e] = rows[e]
    BY <1>1
  <1>3. RoomsClaimedOnce'
    <2>1. \A e \in Events : \/ event'[e].class = None
                            \/ Claimed(event'[e])
                            \/ Cleared(event'[e], c)
      BY <1>2
    <2>2. QED
      BY <2>1, ClaimsKept
  <1>4. FreeRowsEmpty'
    BY <1>2 DEF FreeRowsEmpty
  <1>5. NothingOverridden'
    BY DEF Insert, Overrides, NoOverrides, NoOverride, NothingOverridden
  <1>6. QED
    BY <1>3, <1>4, <1>5

\* The room a request has checked is taken by no series of another class on its dates.
LEMMA CheckedCleared ==
    ASSUME TypeOK, ReadsHold, RoomInv, NEW a \in Admins, request[a].step = "Write",
           request[a].checkRoom # None, NEW n \in Events,
           event[n].class \notin {None, request[a].class}, event[n].room = request[a].checkRoom
    PROVE  Span(event[n]) \cap (request[a].first .. request[a].last) = {}
  <1> DEFINE q == request[a]
  <1>1. RequestFields(q) /\ StillRead(q)
    BY UnderWay DEF Busy, ReadsHold
  <1>2. ~Excluded(q, n)
    BY <1>1 DEF Excluded, StillRead
  <1>3. q.first .. q.last \in SUBSET Dates
    <2>1. q.first \in Dates /\ q.last \in 0 .. Horizon
      BY <1>1 DEF RequestFields
    <2>2. QED
      BY <2>1, BoundsAssumption DEF Dates
  <1>4. \A d \in q.first .. q.last : ~RoomBooked(n, q.checkRoom, d)
    BY <1>2, <1>3 DEF RoomInv, RoomStillFree
  <1>5. \A d \in q.first .. q.last : override[n][d].kind = "None"
    BY <1>3 DEF RoomInv, NothingOverridden
  <1> HIDE DEF q
  <1>6. \A d \in q.first .. q.last : ~(d \in event[n].first .. event[n].last)
    BY <1>4, <1>5 DEF RoomBooked, ByRule, q
  <1>7. QED
    BY <1>6 DEF Span, q

\* What a write needs to know of its request.
LEMMA WriterReads ==
    ASSUME TypeOK, ReadsHold, NEW a \in Admins, request[a].step = "Write"
    PROVE  LET q == request[a] IN
           /\ RequestFields(q) /\ StillRead(q) /\ q.class # None /\ q.kind \in Handlers
           /\ q.first \in Dates /\ q.first \in Int /\ q.last \in Int
           /\ NewSeries(q).class = q.class /\ NewSeries(q).room = q.room
           /\ NewSeries(q).first = q.first /\ NewSeries(q).last = q.last
           /\ q.kind # "edit" => NewSeries(q) \in RowType
  <1> DEFINE q == request[a]
  <1>1. RequestFields(q) /\ StillRead(q) /\ q.class # None
    BY UnderWay DEF Busy, ReadsHold
  <1>2. q.kind # "edit" => NewSeries(q) \in RowType
    BY RowTypes
  <1>3. q.first \in Dates /\ q.last \in 0 .. Horizon /\ q.kind \in Handlers
    BY <1>1 DEF RequestFields
  <1>4. /\ NewSeries(q).class = q.class /\ NewSeries(q).room = q.room
        /\ NewSeries(q).first = q.first /\ NewSeries(q).last = q.last
    BY DEF NewSeries
  <1>5. QED
    BY <1>1, <1>2, <1>3, <1>4, BoundsAssumption DEF Dates

\* A series that starts on the date and in the room that were checked is cleared.
LEMMA NewCleared ==
    ASSUME TypeOK, ReadsHold, RoomInv, NEW a \in Admins, request[a].step = "Write",
           request[a].checkRoom = request[a].room
    PROVE  Cleared(NewSeries(request[a]), request[a].class)
  <1> DEFINE q == request[a]
  <1>1. /\ NewSeries(q).class = q.class /\ NewSeries(q).room = q.room
        /\ NewSeries(q).first = q.first /\ NewSeries(q).last = q.last
    BY WriterReads
  <1>2. Span(NewSeries(q)) = q.first .. q.last
    BY <1>1 DEF Span
  <1>3. q.room \in Rooms => q.room # None
    BY NoneAssumption
  <1>4. ASSUME NEW n \in Events, event[n].class \notin {None, q.class}, event[n].room = q.room,
               q.room \in Rooms
        PROVE  Span(event[n]) \cap (q.first .. q.last) = {}
    BY <1>3, <1>4, CheckedCleared
  <1> HIDE DEF q
  <1>5. QED
    BY <1>1, <1>2, <1>4 DEF Cleared, q

\* A series that repeats the end of one of its class is claimed.
LEMMA NewClaimed ==
    ASSUME TypeOK, ReadsHold, NEW a \in Admins, request[a].step = "Write",
           request[a].kind \in {"cancelSeries", "uncancelSeries"}
    PROVE  Claimed(NewSeries(request[a]))
  <1> DEFINE q == request[a]
  <1>1. /\ NewSeries(q).class = q.class /\ NewSeries(q).room = q.room
        /\ NewSeries(q).first = q.first /\ NewSeries(q).last = q.last
        /\ StillRead(q)
    BY WriterReads
  <1>2. /\ q.event \in Events /\ event[q.event].class = q.class
        /\ q.room = event[q.event].room
        /\ q.first \in event[q.event].first .. event[q.event].last
        /\ q.last = event[q.event].last
    BY <1>1 DEF StillRead, RowWriters
  <1> HIDE DEF q
  <1>3. event[q.event].first \in Int /\ event[q.event].last \in Int
    BY <1>2, RowNumbers
  <1>4. q.first .. q.last \in SUBSET (event[q.event].first .. event[q.event].last)
    BY <1>2, <1>3
  <1>5. Span(NewSeries(q)) \in SUBSET Span(event[q.event])
    BY <1>1, <1>4 DEF Span
  <1>6. QED
    BY <1>1, <1>2, <1>5 DEF Claimed, q

\* Creating a class, or adding a series to one.
LEMMA NewRooms ==
    ASSUME TypeOK, ReadsHold, RoomInv, NEW a \in Admins, WriteNew(a)
    PROVE  RoomsClaimedOnce' /\ NothingOverridden' /\ FreeRowsEmpty'
  <1> DEFINE q == request[a]
  <1>1. q.step = "Write" /\ q.kind \in {"create", "add"} /\ Insert(event, NewSeries(q))
    BY DEF WriteNew, MayWrite
  <1>2. /\ NewSeries(q).class = q.class /\ NewSeries(q) \in RowType /\ q.class # None
        /\ StillRead(q)
    BY <1>1, WriterReads
  <1>3. q.checkRoom = q.room
    BY <1>1, <1>2 DEF StillRead
  <1>4. Cleared(NewSeries(q), q.class)
    BY <1>1, <1>3, NewCleared
  <1>5. event \in [Events -> RowType]
    BY TypeNamed
  <1> HIDE DEF q
  <1>6. QED
    BY <1>1, <1>2, <1>4, <1>5, InsertClaims, SameClaimed DEF RoomInv, FreeRowsEmpty

\* Editing a class.
LEMMA EditRooms ==
    ASSUME TypeOK, ReadsHold, RoomInv, NEW a \in Admins, WriteEdit(a),
           "schedule" \notin Handlers
    PROVE  RoomsClaimedOnce' /\ NothingOverridden' /\ FreeRowsEmpty'
  <1> DEFINE q == request[a]
  <1>1. q.step = "Write" /\ q.kind = "edit" /\ UNCHANGED override
    BY DEF WriteEdit, MayWrite
  <1>2. /\ q.event \in Events /\ event[q.event].class = q.class
        /\ q.first = event[q.event].first /\ q.last = event[q.event].last
        /\ q.room \in {Keep, q.checkRoom} /\ q.span = Keep
    <2>1. StillRead(q)
      BY <1>1, WriterReads
    <2>2. QED
      BY <1>1, <2>1 DEF StillRead
  <1>3. ASSUME NEW e \in Events
        PROVE  /\ event'[e].class = event[e].class
               /\ event'[e].first = event[e].first /\ event'[e].last = event[e].last
               /\ event'[e].room = IF event[e].class = q.class /\ e = q.event /\ q.room # Keep
                                   THEN q.room ELSE event[e].room
    <2>1. CASE event[e].class # q.class
      BY <2>1 DEF WriteEdit
    <2>2. CASE event[e].class = q.class
      <3>1. event'[e] = [event[e] EXCEPT
                           !.instructor = IF q.instructor = Keep THEN @ ELSE q.instructor,
                           !.room = IF e = q.event /\ q.room # Keep THEN q.room ELSE @,
                           !.first = IF e = q.event /\ q.span # Keep THEN q.span[1] ELSE @,
                           !.last = IF e = q.event /\ q.span # Keep THEN q.span[2] ELSE @]
        BY <2>2 DEF WriteEdit
      <3>2. event[e] \in RowType
        BY RowNumbers
      <3> HIDE DEF q
      <3>3. QED
        BY <1>2, <2>2, <3>1, <3>2 DEF RowType
    <2>3. QED
      BY <2>1, <2>2
  <1>4. ASSUME NEW e \in Events PROVE Claimed(event'[e]) \/ Cleared(event'[e], q.class)
    <2>1. Span(event'[e]) = Span(event[e])
      BY <1>3 DEF Span
    <2>2. CASE event'[e].room = event[e].room
      BY <1>3, <2>1, <2>2 DEF Claimed
    <2>3. CASE event'[e].room # event[e].room
      <3>1. /\ e = q.event /\ event'[e].room = q.checkRoom /\ event'[e].class = q.class
            /\ Span(event'[e]) = q.first .. q.last
        BY <1>2, <1>3, <2>1, <2>3 DEF Span
      <3>2. ASSUME NEW n \in Events, event[n].class \notin {None, q.class},
                   event[n].room = q.checkRoom, q.checkRoom \in Rooms
            PROVE  Span(event[n]) \cap (q.first .. q.last) = {}
        <4>1. q.checkRoom # None
          BY <3>2, NoneAssumption
        <4>2. QED
          BY <1>1, <3>2, <4>1, CheckedCleared
      <3> HIDE DEF q
      <3>3. QED
        BY <3>1, <3>2 DEF Cleared
    <2>4. QED
      BY <2>2, <2>3
  <1>5. RoomsClaimedOnce'
    BY <1>4, ClaimsKept DEF RoomInv
  <1>6. NothingOverridden' /\ FreeRowsEmpty'
    BY <1>1, <1>3 DEF RoomInv, NothingOverridden, FreeRowsEmpty
  <1>7. QED
    BY <1>5, <1>6

\* Rescheduling or cancelling a series.
LEMMA SeriesRooms ==
    ASSUME TypeOK, ReadsHold, RoomInv, NEW a \in Admins, WriteSeries(a)
    PROVE  RoomsClaimedOnce' /\ NothingOverridden' /\ FreeRowsEmpty'
  <1> DEFINE q == request[a]
  <1>1. q.step = "Write" /\ q.kind \in {"reschedule", "cancelSeries"}
    BY DEF WriteSeries, MayWrite
  <1>2. \/ Insert(Capped(q), NewSeries(q))
        \/ event' = Capped(q) /\ override' = Overrides(Capped(q))
    BY DEF WriteSeries
  <1>3. /\ StillRead(q) /\ q.first \in Dates /\ q.class # None
        /\ NewSeries(q) \in RowType /\ NewSeries(q).class = q.class
        /\ Capped(q) \in [Events -> RowType]
    BY <1>1, WriterReads, RowTypes
  <1>R. q.read = Reading(q) /\ q.kind # "uncancelSeries"
    BY <1>1, <1>3 DEF StillRead, RowWriters
  <1>S. \A e \in Events :
           /\ event[e].class # q.class => Capped(q)[e] = event[e]
           /\ event[e].class = q.class =>
                 \/ Capped(q)[e] = NoEvent
                 \/ /\ Capped(q)[e] \in RowType /\ Capped(q)[e].class = q.class
                    /\ Capped(q)[e].room = event[e].room /\ Capped(q)[e].first = event[e].first
                    /\ Capped(q)[e].last < q.first /\ Capped(q)[e].last <= event[e].last
    BY <1>1, <1>R, CappedRow
  <1>4. Claimed(NewSeries(q)) \/ Cleared(NewSeries(q), q.class)
    <2>1. q.kind = "reschedule" => q.checkRoom = q.room
      BY <1>3 DEF StillRead
    <2>2. QED
      BY <1>1, <2>1, NewCleared, NewClaimed
  <1> HIDE DEF q
  <1>5. ASSUME NEW e \in Events
        PROVE  /\ Capped(q)[e].class = None => Capped(q)[e].first > Capped(q)[e].last
               /\ Capped(q)[e].class = None \/ Claimed(Capped(q)[e])
    <2>1. CASE event[e].class # q.class
      <3>1. Capped(q)[e] = event[e]
        BY <1>S, <2>1
      <3>2. QED
        BY <3>1, SameClaimed DEF RoomInv, FreeRowsEmpty
    <2>2. CASE event[e].class = q.class
      <3>1. CASE Capped(q)[e] = NoEvent
        BY <3>1 DEF NoEvent
      <3>2. CASE Capped(q)[e] # NoEvent
        <4>1. /\ Capped(q)[e].class = event[e].class /\ Capped(q)[e].room = event[e].room
              /\ Capped(q)[e].first = event[e].first /\ Capped(q)[e].last <= event[e].last
          BY <1>S, <2>2, <3>2
        <4>2. Capped(q)[e].last \in Int
          <5>1. Capped(q)[e] \in RowType
            BY <1>3
          <5>2. QED
            BY <5>1, BoundsAssumption DEF RowType
        <4>3. event[e].first \in Int /\ event[e].last \in Int
          BY RowNumbers
        <4>4. Span(Capped(q)[e]) \in SUBSET Span(event[e])
          BY <4>1, <4>2, <4>3 DEF Span
        <4>5. QED
          BY <1>3, <2>2, <4>1, <4>4 DEF Claimed
      <3>3. QED
        BY <3>1, <3>2
    <2>3. QED
      BY <2>1, <2>2
  <1>6. CASE Insert(Capped(q), NewSeries(q))
    BY <1>3, <1>4, <1>5, <1>6, InsertClaims DEF RoomInv
  <1>7. CASE event' = Capped(q) /\ override' = Overrides(Capped(q))
    <2>1. RoomsClaimedOnce'
      BY <1>5, <1>7, ClaimsKept DEF RoomInv
    <2>2. FreeRowsEmpty'
      BY <1>5, <1>7 DEF FreeRowsEmpty
    <2>3. NothingOverridden'
      BY <1>7 DEF RoomInv, Overrides, NoOverrides, NoOverride, NothingOverridden
    <2>4. QED
      BY <2>1, <2>2, <2>3
  <1>8. QED
    BY <1>2, <1>6, <1>7

\* Restoring a cancelled series.
LEMMA UncancelRooms ==
    ASSUME TypeOK, ReadsHold, RoomInv, NEW a \in Admins, WriteUncancel(a)
    PROVE  RoomsClaimedOnce' /\ NothingOverridden' /\ FreeRowsEmpty'
  <1> DEFINE q == request[a]
             rows == Uncancelled(q)
  <1>1. q.step = "Write" /\ q.kind = "uncancelSeries" /\ Insert(rows, NewSeries(q))
    BY DEF WriteUncancel, MayWrite, Uncancelled
  <1>2. /\ StillRead(q) /\ q.first \in Int /\ q.class # None
        /\ NewSeries(q) \in RowType /\ NewSeries(q).class = q.class
    BY <1>1, WriterReads
  <1>3. Claimed(NewSeries(q))
    BY <1>1, NewClaimed
  <1>4. /\ q.first \in event[q.event].first .. event[q.event].last
        /\ q.event \in Events /\ event[q.event].class = q.class /\ q.read = Reading(q)
    BY <1>1, <1>2 DEF StillRead, RowWriters
  <1>5. /\ rows \in [Events -> RowType] /\ \A e \in Events \ {q.event} : rows[e] = event[e]
        /\ rows[q.event].class = q.class /\ rows[q.event].room = event[q.event].room
        /\ rows[q.event].first = event[q.event].first /\ rows[q.event].last = q.first - 1
    BY <1>1, <1>4, UncancelledRow
  <1> HIDE DEF q, rows
  <1>6. ASSUME NEW e \in Events
        PROVE  /\ rows[e].class = event[e].class
               /\ rows[e] = event[e] \/ rows[e].class = q.class
               /\ Claimed(rows[e])
    <2>1. CASE e = q.event
      <3>1. event[e].first \in Int /\ event[e].last \in Int
        BY RowNumbers
      <3>2. Span(rows[e]) \in SUBSET Span(event[e])
        BY <1>2, <1>4, <1>5, <2>1, <3>1 DEF Span
      <3>3. QED
        BY <1>4, <1>5, <2>1, <3>2 DEF Claimed
    <2>2. CASE e # q.event
      BY <1>5, <2>2, SameClaimed
    <2>3. QED
      BY <2>1, <2>2
  <1>8. \A e \in Events : rows[e].class = None => rows[e].first > rows[e].last
    BY <1>2, <1>6 DEF RoomInv, FreeRowsEmpty
  <1>9. QED
    BY <1>1, <1>2, <1>3, <1>5, <1>6, <1>8, InsertClaims DEF RoomInv

\* Steps that leave the tables alone.
LEMMA RoomTablesKept ==
    ASSUME RoomInv, UNCHANGED <<event, override>>
    PROVE  /\ RoomsClaimedOnce' /\ NothingOverridden' /\ FreeRowsEmpty'
           /\ \A q, e : Excluded(q, e)' <=> Excluded(q, e)
           /\ \A e, r, d : RoomBooked(e, r, d)' <=> RoomBooked(e, r, d)
  <1>1. RoomsClaimedOnce' /\ NothingOverridden' /\ FreeRowsEmpty'
    BY DEF RoomInv, RoomsClaimedOnce, NothingOverridden, FreeRowsEmpty
  <1>2. \A q, e : Excluded(q, e)' <=> Excluded(q, e)
    BY DEF Excluded
  <1>3. \A e, r, d : RoomBooked(e, r, d)' <=> RoomBooked(e, r, d)
    BY DEF RoomBooked, ByRule, EffectiveRoom
  <1>4. QED
    BY <1>1, <1>2, <1>3

\* A request that goes on writes only what it has checked, or what needs no check.
LEMMA GoesOnRooms ==
    ASSUME TypeOK, RoomInv, NEW a \in Admins, NEW r, Become(a, r), UNCHANGED <<event, override>>,
           \/ r.step \notin {"Read", "Write"} \/ r.checkRoom = None
           \/ /\ ~Conflict(request[a]) \/ request[a].step \in {"Read", "Write"}
              /\ r.checkRoom = request[a].checkRoom
              /\ r.first = request[a].first /\ r.last = request[a].last
              /\ r.kind = request[a].kind /\ r.class = request[a].class
              /\ r.event = request[a].event
    PROVE  RoomInv'
  <1>1. request'[a] = r /\ \A b \in Admins \ {a} : request'[b] = request[b]
    BY DEF Become, TypeOK
  <1>2. /\ RoomsClaimedOnce' /\ NothingOverridden' /\ FreeRowsEmpty'
        /\ \A q, e : Excluded(q, e)' <=> Excluded(q, e)
        /\ \A e, x, d : RoomBooked(e, x, d)' <=> RoomBooked(e, x, d)
    BY RoomTablesKept
  <1>3. ASSUME NEW b \in Admins, NEW q, request'[b] = q, q.step \in {"Read", "Write"},
               NEW e \in Events, NEW d \in Dates,
               q.checkRoom # None, d \in q.first .. q.last, ~Excluded(q, e)
        PROVE  ~RoomBooked(e, q.checkRoom, d)
    <2>1. CASE b # a
      BY <1>1, <1>3, <2>1 DEF RoomInv, RoomStillFree
    <2>2. CASE b = a
      <3>1. q = r
        BY <1>1, <1>3, <2>2
      <3>2. Excluded(request[a], e) <=> Excluded(q, e)
        BY <1>3, <3>1 DEF Excluded
      <3>3. QED
        BY <1>3, <3>1, <3>2 DEF Conflict, RoomInv, RoomStillFree
    <2>3. QED
      BY <2>1, <2>2
  <1>4. RoomStillFree'
    BY <1>2, <1>3 DEF RoomStillFree
  <1>5. QED
    BY <1>2, <1>4 DEF RoomInv

\* Every step of a lone administrator keeps the rooms of the series apart.
LEMMA RoomStep ==
    ASSUME \A a, b \in Admins : a = b, Handlers \subseteq SeriesHandlers,
           TypeOK, ReadsHold, RoomInv, [Next]_vars
    PROVE  RoomInv'
  <1>0. \A n \in {"schedule", "override", "cancelDate", "changeDate", "deleteOverride",
                  "uncancelOverride"} : n \notin Handlers
    BY DEF SeriesHandlers
  <1>1. ASSUME NEW a \in Admins, Start(a) PROVE RoomInv'
    <2>1. UNCHANGED <<event, override, holder>>
      BY <1>1, StartReads
    <2>2. PICK q \in Request : /\ Become(a, q)
                               /\ q.step \in {"Read", "Write"} => q.checkRoom = None
      BY <1>1, StartReads DEF Fresh
    <2>3. QED
      BY <2>1, <2>2, GoesOnRooms
  <1>2. ASSUME NEW a \in Admins, EditRead(a) PROVE RoomInv'
    <2>1. StillRead(request[a])
      BY <1>2 DEF EditRead, ReadsHold, Busy
    <2>2. UNCHANGED <<event, override, holder>>
      BY <1>2 DEF EditRead
    <2>3. PICK r \in Request : /\ Become(a, r) /\ r.step = AfterRead(request[a])
                               /\ r.checkRoom = request[a].checkRoom
      BY <1>2, <2>1, EditReadReads
    <2>4. r.step \in {"Read", "Write"} => r.checkRoom = None
      BY <2>3 DEF AfterRead
    <2>5. QED
      BY <2>2, <2>3, <2>4, GoesOnRooms
  <1>3. ASSUME UNCHANGED <<event, override, request>> PROVE RoomInv'
    <2>1. /\ RoomsClaimedOnce' /\ NothingOverridden' /\ FreeRowsEmpty'
          /\ \A q, e : Excluded(q, e)' <=> Excluded(q, e)
          /\ \A e, x, d : RoomBooked(e, x, d)' <=> RoomBooked(e, x, d)
      BY <1>3, RoomTablesKept
    <2>2. RoomStillFree'
      BY <1>3, <2>1 DEF RoomInv, RoomStillFree
    <2>3. QED
      BY <2>1, <2>2 DEF RoomInv
  <1>4. ASSUME NEW a \in Admins, Check(a) PROVE RoomInv'
    <2>1. UNCHANGED <<event, override>> /\ RequestFields(request[a])
      BY <1>4, UnderWay DEF Check, Busy
    <2>2. CASE Conflict(request[a])
      <3>1. Become(a, Idle) /\ Idle.step \notin {"Read", "Write"}
        BY <1>4, <2>2 DEF Check, Finish, Idle
      <3>2. QED
        BY <2>1, <3>1, GoesOnRooms
    <2>3. CASE ~Conflict(request[a])
      <3> DEFINE r == [request[a] EXCEPT !.step = AfterCheck(request[a])]
      <3>1. Become(a, r)
        BY <1>4, <2>3 DEF Check
      <3>2. /\ r.checkRoom = request[a].checkRoom
            /\ r.first = request[a].first /\ r.last = request[a].last
            /\ r.kind = request[a].kind /\ r.class = request[a].class
            /\ r.event = request[a].event
        BY <2>1 DEF RequestFields
      <3> HIDE DEF r
      <3>3. QED
        BY <2>1, <2>3, <3>1, <3>2, GoesOnRooms
    <2>4. QED
      BY <2>2, <2>3
  <1>R. ASSUME NEW a \in Admins, SeriesRead(a) PROVE RoomInv'
    <2> DEFINE r == [request[a] EXCEPT !.step = "Write", !.read = Reading(request[a])]
    <2>1. /\ UNCHANGED <<event, override>> /\ RequestFields(request[a])
          /\ request[a].step = "Read" /\ Become(a, r)
      BY <1>R, UnderWay DEF SeriesRead, Busy
    <2>2. /\ r.checkRoom = request[a].checkRoom
          /\ r.first = request[a].first /\ r.last = request[a].last
          /\ r.kind = request[a].kind /\ r.class = request[a].class
          /\ r.event = request[a].event
      BY <2>1 DEF RequestFields
    <2> HIDE DEF r
    <2>3. QED
      BY <2>1, <2>2, GoesOnRooms
  <1>S. ASSUME NEW a \in Admins, Refer(a) PROVE RoomInv'
    <2>1. UNCHANGED <<event, override>> /\ request[a].step = "Write"
      BY <1>S DEF Refer
    <2>2. PICK r \in Request : Become(a, r) /\ SameButShares(r, request[a])
      BY <1>S, ReferShares
    <2>3. QED
      BY <2>1, <2>2, GoesOnRooms DEF SameButShares
  <1>D. ASSUME NEW a \in Admins, DeadlockEnds(a) PROVE RoomInv'
    <2>1. UNCHANGED <<event, override>> /\ Become(a, Idle) /\ Idle.step \notin {"Read", "Write"}
      BY <1>D, DeadlockFinish DEF Finish, Idle
    <2>2. QED
      BY <2>1, GoesOnRooms
  <1>5. ASSUME NEW a \in Admins, WriteNew(a) \/ WriteEdit(a) \/ WriteSeries(a) \/ WriteUncancel(a)
        PROVE  RoomInv'
    <2>1. RoomsClaimedOnce' /\ NothingOverridden' /\ FreeRowsEmpty'
      BY <1>0, <1>5, NewRooms, EditRooms, SeriesRooms, UncancelRooms
    <2>2. Finish(a)
      BY <1>5, WriteClasses
    <2>3. \A b \in Admins : request'[b].step \notin {"Read", "Write"}
      BY <2>2 DEF Finish, Become, Idle, TypeOK
    <2>4. RoomStillFree'
      BY <2>3 DEF RoomStillFree
    <2>5. QED
      BY <2>1, <2>4 DEF RoomInv
  <1>6. ASSUME NEW a \in Admins, WriteOverride(a) PROVE FALSE
    <2>1. request[a].step = "Write" /\ request[a].kind \in {"override", "changeDate"}
      BY <1>6 DEF WriteOverride, MayWrite
    <2>2. QED
      BY <1>0, <2>1, WriterReads
  <1>7. ASSUME NEW a \in Admins, SingleDate(a) PROVE FALSE
    BY <1>0, <1>7 DEF SingleDate, CancelDate, DeleteOverride, UncancelOverride,
                      DateOf, MayStart
  <1>8. ASSUME NEW a \in Admins, Lock(a) PROVE RoomInv'
    BY <1>3, <1>8 DEF Lock
  <1>9. CASE UNCHANGED vars
    BY <1>3, <1>9 DEF vars
  <1>10. QED
    BY <1>1, <1>2, <1>4, <1>5, <1>6, <1>7, <1>8, <1>9, <1>R, <1>S, <1>D DEF Next, Advance

\* What the rooms' invariant says of the calendar.
LEMMA RoomInvSeen == ASSUME TypeOK, RoomInv PROVE RoomsNotDoubleBooked
  <1>1. SUFFICES ASSUME NEW e \in Events, NEW n \in Events, NEW x \in Rooms, NEW d \in Dates,
                        Uses(e, x, d), Uses(n, x, d), event[e].class # event[n].class
                 PROVE  FALSE
    BY DEF RoomsNotDoubleBooked
  <1>2. ASSUME NEW m \in Events, Uses(m, x, d)
        PROVE  d \in event[m].first .. event[m].last /\ event[m].room = x /\ event[m].class # None
    <2>1. d \in event[m].first .. event[m].last /\ x \in {event[m].room, event[m].instructor}
      BY <1>2 DEF Uses, ByRule, RoomInv, NothingOverridden
    <2>2. event[m].instructor # x
      <3>1. event[m].instructor \in Instructors \cup {None}
        BY RowNumbers DEF RowType
      <3>2. QED
        BY <3>1, ResourcesAssumption, NoneAssumption
    <2>3. event[m].class # None
      BY <2>1, RowNumbers DEF RoomInv, FreeRowsEmpty
    <2>4. QED
      BY <2>1, <2>2, <2>3
  <1>3. /\ d \in event[e].first .. event[e].last /\ event[e].room = x /\ event[e].class # None
        /\ d \in event[n].first .. event[n].last /\ event[n].room = x /\ event[n].class # None
    BY <1>1, <1>2
  <1>4. QED
    BY <1>1, <1>3 DEF RoomInv, RoomsClaimedOnce

\* No two classes meet in one room on one date, while one administrator at a time creates,
\* edits, adds to, reschedules, cancels and restores the series of any number of classes: the
\* room check without a lock is enough for one, and restoring needs none because a cancelled
\* series keeps its claim on the room.
THEOREM RoomsNotDoubleBookedHolds ==
    ASSUME \A a, b \in Admins : a = b, Handlers \subseteq SeriesHandlers
    PROVE  Spec => []RoomsNotDoubleBooked
  <1>1. Init => RoomInv /\ ReadsHold
    <2>1. Init => RoomsClaimedOnce /\ FreeRowsEmpty
      BY DEF Init, NoEvent, RoomsClaimedOnce, FreeRowsEmpty
    <2>2. Init => NothingOverridden
      BY DEF Init, NoOverrides, NoOverride, NothingOverridden
    <2>3. Init => RoomStillFree /\ ReadsHold
      BY DEF Init, Idle, RoomStillFree, ReadsHold, Busy
    <2>4. QED
      BY <2>1, <2>2, <2>3 DEF RoomInv
  <1>2. OneRequestPerClass
    BY DEF OneRequestPerClass
  <1>3. TypeOK /\ RoomInv /\ ReadsHold /\ [Next]_vars => RoomInv' /\ ReadsHold'
    BY <1>2, ReadsStep, RoomStep
  <1>4. TypeOK /\ RoomInv => RoomsNotDoubleBooked
    BY RoomInvSeen
  <1>5. QED
    BY <1>1, <1>3, <1>4, TypeCorrect, PTL DEF Spec

================================================================================

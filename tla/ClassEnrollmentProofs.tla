------------------------- MODULE ClassEnrollmentProofs -------------------------
(******************************************************************************)
(* What ClassEnrollment guarantees for every set of classes, residents and     *)
(* administrators and every bound.                                             *)
(******************************************************************************)
EXTENDS ClassEnrollment, FiniteSetTheorems, TLAPS

--------------------------------------------------------------------------------
(* Type correctness *)

\* The fields a request has at each of its steps.
LEMMA RequestShape ==
    ASSUME NEW q \in Request
    PROVE  /\ q.step \in {"EnrollOpen", "EnrollChecked"}
              => q \in [step : {"EnrollOpen", "EnrollChecked"}, class : Classes,
                        users : SUBSET Users]
           /\ q.step = "EnrollCounted"
              => q \in [step : {"EnrollCounted"}, class : Classes, users : SUBSET Users,
                        available : Nat \ {0}]
           /\ q.step = "EnrollInsert"
              => q \in [step : {"EnrollInsert"}, class : Classes, users : SUBSET Users,
                        seen : ClassStatus \cup {NoStatus}]
           /\ q.step = "UpdateOpen"
              => q \in [step : {"UpdateOpen"}, class : Classes, users : SUBSET Users,
                        to : EnrollmentStatus]
           /\ q.step = "UpdateWrite"
              => q \in [step : {"UpdateWrite"}, class : Classes, users : SUBSET Users,
                        to : EnrollmentStatus, seen : ClassStatus \cup {NoStatus}]
           /\ q.step = "GraduateWrite"
              => q \in [step : {"GraduateWrite"}, class : Classes, users : SUBSET Users,
                        found : SUBSET Users]
           /\ q.step = "DateOpen" => q \in [step : {"DateOpen"}, class : Classes]
           /\ q.step \in {"EditOpen", "EditSized"}
              => q \in [step : {"EditOpen", "EditSized"}, class : Classes,
                        to : ClassStatus \cup {Keep}, capacity : Capacities]
           /\ q.step = "EditWrite"
              => q \in [step : {"EditWrite"}, class : Classes,
                        to : ClassStatus \cup {Keep}, capacity : Capacities,
                        original : ClassStatus]
           /\ q.step = "DeleteOpen" => q \in [step : {"DeleteOpen"}, class : Classes]
  BY DEF Request, Idle

RowType == [status : EnrollmentStatus \cup {"None"}, enrolledAt : BOOLEAN,
            endedAt : BOOLEAN, deleted : BOOLEAN]

\* The hooks and the queries return what their callers store.
LEMMA HelperTypes ==
    ASSUME TypeOK
    PROVE  /\ \A c \in Classes : StatusSeen(c) \in ClassStatus \cup {NoStatus}
           /\ \A seen : BeforeCreate(seen) \in RowType
           /\ \A row \in RowType : \A to \in EnrollmentStatus : \A seen :
                 BeforeUpdate(row, to, seen) \in RowType
           /\ \A S : \A to \in EnrollmentStatus : \A seen : Updated(S, to, seen) \in [Rows -> RowType]
           /\ \A cs : \A to \in EnrollmentStatus : Closing(cs, to) \in [Rows -> RowType]
           /\ \A rows \in [Rows -> RowType] : \A cs : Backfilled(rows, cs) \in [Rows -> RowType]
  <1>1. \A c \in Classes : StatusSeen(c) \in ClassStatus \cup {NoStatus}
    BY DEF TypeOK, StatusSeen
  <1>2. \A seen : BeforeCreate(seen) \in RowType
    BY DEF BeforeCreate, RowType, NoRow, EnrollmentStatus
  <1>3. \A row \in RowType : \A to \in EnrollmentStatus : \A seen :
           BeforeUpdate(row, to, seen) \in RowType
    BY DEF BeforeUpdate, RowType
  <1>4. enrollment \in [Rows -> RowType]
    BY DEF TypeOK, RowType
  <1>5. \A S : \A to \in EnrollmentStatus : \A seen : Updated(S, to, seen) \in [Rows -> RowType]
    BY <1>3, <1>4 DEF Updated
  <1>6. \A cs : \A to \in EnrollmentStatus : Closing(cs, to) \in [Rows -> RowType]
    BY <1>5 DEF Closing
  <1>7. \A rows \in [Rows -> RowType] : \A cs : Backfilled(rows, cs) \in [Rows -> RowType]
    BY DEF Backfilled, RowType
  <1>8. QED
    BY <1>1, <1>2, <1>3, <1>5, <1>6, <1>7

\* The initial state is well typed.
LEMMA TypeInit == Init => TypeOK
  <1> SUFFICES ASSUME Init PROVE TypeOK
    OBVIOUS
  <1>1. class \in [Classes -> [status : ClassStatus, archived : BOOLEAN,
                              deleted : BOOLEAN, capacity : Capacities]]
    BY DEF Init, ClassStatus
  <1>2. enrollment \in [Rows -> RowType]
    BY DEF Init, NoRow, RowType
  <1>3. completions \in [Classes \X Users -> 0 .. MaxCompletions]
    BY MaxCompletionsAssumption DEF Init
  <1>4. request \in [Admins -> Request] /\ deactivated \in SUBSET Users /\ job \in Job
    BY DEF Init, Request, Job
  <1>5. QED
    BY <1>1, <1>2, <1>3, <1>4 DEF TypeOK, RowType

\* The rows of one class are finitely many.
LEMMA RowsFinite ==
    ASSUME NEW c \in Classes
    PROVE  IsFiniteSet({r \in Rows : r[1] = c})
  <1> DEFINE pairs == Users \X (1 .. MaxRows)
             all   == {r \in Rows : r[1] = c}
             row   == [p \in pairs |-> <<c, p[1], p[2]>>]
  <1>1. IsFiniteSet(pairs)
    <2>1. IsFiniteSet(1 .. MaxRows)
      BY MaxRowsAssumption, FS_Interval
    <2>2. QED
      BY <2>1, UsersAssumption, FS_Product
  <1>2. row \in Surjection(pairs, all)
    <2>1. row \in [pairs -> all]
      BY DEF Rows
    <2>2. \A r \in all : \E p \in pairs : row[p] = r
      <3>1. TAKE r \in all
      <3>2. <<r[2], r[3]>> \in pairs /\ row[<<r[2], r[3]>>] = r
        BY <3>1 DEF Rows
      <3>3. QED
        BY <3>2
    <2>3. QED
      BY <2>1, <2>2 DEF Surjection
  <1> HIDE DEF pairs, row
  <1>3. QED
    <2> HIDE DEF all
    <2>1. IsFiniteSet(all)
      BY <1>1, <1>2, FS_Surjection
    <2>2. QED
      BY <2>1 DEF all

\* The seats taken in a class, by residents who are there or whose rows were deleted.
Taken(c) == {r \in Rows : r[1] = c /\ enrollment[r].status = "Enrolled"}

\* So the seats of a class can be counted.
LEMMA SeatsCounted ==
    ASSUME TypeOK, NEW c \in Classes
    PROVE  /\ IsFiniteSet(Taken(c)) /\ Cardinality(Taken(c)) \in Nat
           /\ Available(c) = class[c].capacity - Cardinality(Taken(c))
           /\ class[c].capacity \in Nat /\ Available(c) \in Int
  <1>1. Taken(c) \in SUBSET {r \in Rows : r[1] = c}
    BY DEF Taken
  <1>2. IsFiniteSet(Taken(c)) /\ Cardinality(Taken(c)) \in Nat
    BY <1>1, RowsFinite, FS_Subset, FS_CardinalityType
  <1>3. class[c].capacity \in Nat
    BY CapacitiesAssumption DEF TypeOK
  <1>4. Available(c) = class[c].capacity - Cardinality(Taken(c))
    BY DEF Available, Taken
  <1>5. QED
    BY <1>2, <1>3, <1>4

\* The completions written for a class are counted by a natural number.
LEMMA CompletionsCounted ==
    ASSUME TypeOK, NEW rows, NEW cs, NEW p \in Classes \X Users
    PROVE  CompletionsFor(rows, cs)[p] \in Nat
  <1> DEFINE done == {n \in 1 .. MaxRows : /\ p[1] \in cs
                                           /\ rows[<<p[1], p[2], n>>].status = "Completed"
                                           /\ ~rows[<<p[1], p[2], n>>].deleted}
  <1>1. Cardinality(done) \in Nat
    <2>1. IsFiniteSet(1 .. MaxRows) /\ done \in SUBSET (1 .. MaxRows)
      BY MaxRowsAssumption, FS_Interval
    <2> HIDE DEF done
    <2>2. QED
      BY <2>1, FS_Subset, FS_CardinalityType
  <1>2. completions[p] \in Nat
    BY MaxCompletionsAssumption DEF TypeOK
  <1>3. CompletionsFor(rows, cs)[p] = completions[p] + Cardinality(done)
    BY DEF CompletionsFor
  <1>4. QED
    BY <1>1, <1>2, <1>3

\* A closing transaction stays within the bound on completions.
LEMMA CompletionsType ==
    ASSUME TypeOK, NEW rows, NEW cs, completions' = CompletionsFor(rows, cs),
           WithinCompletionBound
    PROVE  completions' \in [Classes \X Users -> 0 .. MaxCompletions]
  <1>1. \A p \in Classes \X Users : completions'[p] \in 0 .. MaxCompletions
    BY CompletionsCounted, MaxCompletionsAssumption DEF WithinCompletionBound
  <1>2. \E f : completions' = [p \in Classes \X Users |-> f[p]]
    <2>1. completions' = [p \in Classes \X Users |-> completions'[p]]
      BY DEF CompletionsFor
    <2>2. QED
      BY <2>1
  <1>3. QED
    BY <1>1, <1>2

\* Closing no class changes no row.
LEMMA ClosingNothing ==
    ASSUME TypeOK, NEW to
    PROVE  Closing({}, to) = enrollment
  BY DEF Closing, Updated, TypeOK

\* A request moves to a well-typed state.
LEMMA BecomeType ==
    ASSUME TypeOK, NEW a \in Admins, NEW state \in Request, Become(a, state)
    PROVE  request' \in [Admins -> Request]
  BY DEF TypeOK, Become

\* Steps of the enrolling handler keep the types.
LEMMA TypeEnroll ==
    ASSUME TypeOK, NEW a \in Admins, Enroll(a)
    PROVE  TypeOK'
  <1> DEFINE q == request[a]
  <1>0. q \in Request
    BY DEF TypeOK
  <1>1. ASSUME NEW c \in Classes, NEW us \in (SUBSET Users) \ {{}}, EnrollStart(a, c, us)
        PROVE  TypeOK'
    <2>1. [step |-> "EnrollOpen", class |-> c, users |-> us] \in Request
      BY DEF Request
    <2>2. request' \in [Admins -> Request]
      BY <1>1, <2>1, BecomeType DEF EnrollStart
    <2>3. QED
      BY <1>1, <2>2 DEF EnrollStart, TypeOK
  <1>2. ASSUME EnrollCheck(a) PROVE TypeOK'
    <2>1. [q EXCEPT !.step = "EnrollChecked"] \in Request /\ Idle \in Request
      BY <1>0, <1>2, RequestShape DEF EnrollCheck, Request
    <2>2. request' \in [Admins -> Request]
      BY <1>2, <2>1, BecomeType DEF EnrollCheck
    <2>3. QED
      BY <1>2, <2>2 DEF EnrollCheck, TypeOK
  <1>3. ASSUME EnrollCount(a) PROVE TypeOK'
    <2>1. q.class \in Classes /\ q.users \in SUBSET Users
      BY <1>0, <1>3, RequestShape DEF EnrollCount
    <2>2. Available(q.class) \in Int
      BY <2>1, SeatsCounted
    <2>3. CASE Available(q.class) <= 0
      <3>1. Idle \in Request /\ Become(a, Idle)
        BY <1>3, <2>3 DEF EnrollCount, Request
      <3>2. QED
        BY <1>3, <3>1, BecomeType DEF EnrollCount, TypeOK
    <2>4. CASE ~(Available(q.class) <= 0)
      <3> DEFINE counted == [step |-> "EnrollCounted", class |-> q.class,
                             users |-> q.users, available |-> Available(q.class)]
      <3>1. Available(q.class) \in Nat \ {0}
        BY <2>2, <2>4
      <3>2. counted \in Request
        BY <2>1, <3>1 DEF Request
      <3>3. Become(a, counted)
        BY <1>3, <2>4 DEF EnrollCount
      <3> HIDE DEF counted
      <3>4. request' \in [Admins -> Request]
        BY <3>2, <3>3, BecomeType
      <3>5. QED
        BY <1>3, <3>4 DEF EnrollCount, TypeOK
    <2>5. QED
      BY <2>3, <2>4
  <1>4. ASSUME EnrollHook(a) PROVE TypeOK'
    <2>1. q.class \in Classes /\ q.users \in SUBSET Users
      BY <1>0, <1>4, RequestShape DEF EnrollHook
    <2>2. PICK us \in SUBSET q.users :
             Become(a, [step |-> "EnrollInsert", class |-> q.class, users |-> us,
                        seen |-> StatusSeen(q.class)])
      BY <1>4 DEF EnrollHook
    <2>3. StatusSeen(q.class) \in ClassStatus \cup {NoStatus}
      BY <2>1, HelperTypes
    <2>4. [step |-> "EnrollInsert", class |-> q.class, users |-> us,
           seen |-> StatusSeen(q.class)] \in Request
      BY <2>1, <2>3 DEF Request
    <2>5. request' \in [Admins -> Request]
      BY <2>2, <2>4, BecomeType
    <2>6. QED
      BY <1>4, <2>5 DEF EnrollHook, TypeOK
  <1>5. ASSUME EnrollInsert(a) PROVE TypeOK'
    <2>1. request' \in [Admins -> Request]
      BY <1>5, BecomeType DEF EnrollInsert, Request
    <2>2. enrollment' \in [Rows -> RowType]
      <3>1. BeforeCreate(q.seen) \in RowType
        BY HelperTypes
      <3>2. enrollment \in [Rows -> RowType]
        BY DEF TypeOK, RowType
      <3>3. QED
        BY <1>5, <3>1, <3>2 DEF EnrollInsert
    <2>3. QED
      BY <1>5, <2>1, <2>2 DEF EnrollInsert, TypeOK, RowType
  <1>6. QED
    BY <1>1, <1>2, <1>3, <1>4, <1>5 DEF Enroll

\* Steps of the status, graduation and date handlers keep the types.
LEMMA TypeUpdate ==
    ASSUME TypeOK, NEW a \in Admins, UpdateEnrollment(a) \/ ChangeDate(a)
    PROVE  TypeOK'
  <1> DEFINE q == request[a]
  <1>0. /\ q \in Request /\ Idle \in Request
        /\ enrollment \in [Rows -> RowType]
    BY DEF TypeOK, RowType, Request
  <1>1. ASSUME NEW c \in Classes, NEW us \in (SUBSET Users) \ {{}},
               NEW to \in EnrollmentStatus, UpdateStart(a, c, us, to)
        PROVE  TypeOK'
    <2>1. [step |-> "UpdateOpen", class |-> c, users |-> us, to |-> to] \in Request
      BY DEF Request
    <2>2. request' \in [Admins -> Request]
      BY <1>1, <2>1, BecomeType DEF UpdateStart
    <2>3. QED
      BY <1>1, <2>2 DEF UpdateStart, TypeOK
  <1>2. ASSUME UpdateHook(a) PROVE TypeOK'
    <2>1. q.class \in Classes /\ q.users \in SUBSET Users /\ q.to \in EnrollmentStatus
      BY <1>0, <1>2, RequestShape DEF UpdateHook
    <2>2. StatusSeen(q.class) \in ClassStatus \cup {NoStatus}
      BY <2>1, HelperTypes
    <2>3. [step |-> "UpdateWrite", class |-> q.class, users |-> q.users, to |-> q.to,
           seen |-> StatusSeen(q.class)] \in Request
      BY <2>1, <2>2 DEF Request
    <2>4. request' \in [Admins -> Request]
      BY <1>2, <2>3, BecomeType DEF UpdateHook
    <2>5. QED
      BY <1>2, <2>4 DEF UpdateHook, TypeOK
  <1>3. ASSUME UpdateWrite(a) PROVE TypeOK'
    <2>1. q.to \in EnrollmentStatus
      BY <1>0, <1>3, RequestShape DEF UpdateWrite
    <2>2. enrollment' \in [Rows -> RowType]
      BY <1>3, <2>1, HelperTypes DEF UpdateWrite
    <2>3. request' \in [Admins -> Request]
      BY <1>0, <1>3, BecomeType DEF UpdateWrite
    <2>4. QED
      BY <1>3, <2>2, <2>3 DEF UpdateWrite, TypeOK, RowType
  <1>4. ASSUME GraduateFind(a) PROVE TypeOK'
    <2> DEFINE found == [step |-> "GraduateWrite", class |-> q.class, users |-> q.users,
                         found |-> {r[2] : r \in RowsOf(q.class, q.users)}]
    <2>1. q.class \in Classes /\ q.users \in SUBSET Users
      BY <1>0, <1>4, RequestShape DEF GraduateFind
    <2>2. {r[2] : r \in RowsOf(q.class, q.users)} \in SUBSET Users
      BY <2>1 DEF RowsOf
    <2>3. found \in Request
      BY <2>1, <2>2 DEF Request
    <2>4. Become(a, Idle) \/ Become(a, found)
      BY <1>4 DEF GraduateFind
    <2> HIDE DEF found
    <2>5. request' \in [Admins -> Request]
      BY <1>0, <2>3, <2>4, BecomeType
    <2>6. QED
      BY <1>4, <2>5 DEF GraduateFind, TypeOK
  <1>5. ASSUME GraduateWrite(a) PROVE TypeOK'
    <2>1. "Completed" \in EnrollmentStatus
      BY DEF EnrollmentStatus
    <2>2. enrollment' \in [Rows -> RowType]
      BY <1>5, <2>1, HelperTypes DEF GraduateWrite
    <2>3. completions' \in [Classes \X Users -> 0 .. MaxCompletions]
      BY <1>5, MaxCompletionsAssumption DEF GraduateWrite, WithinCompletionBound, TypeOK
    <2>4. request' \in [Admins -> Request]
      BY <1>0, <1>5, BecomeType DEF GraduateWrite
    <2>5. QED
      BY <1>5, <2>2, <2>3, <2>4 DEF GraduateWrite, TypeOK, RowType
  <1>6. ASSUME NEW c \in Classes, DateStart(a, c) PROVE TypeOK'
    <2>1. request' \in [Admins -> Request]
      BY <1>6, BecomeType DEF DateStart, Request
    <2>2. QED
      BY <1>6, <2>1 DEF DateStart, TypeOK
  <1>7. ASSUME DateWrite(a) PROVE TypeOK'
    <2>1. enrollment' \in [Rows -> RowType]
      BY <1>0, <1>7 DEF DateWrite, RowType
    <2>2. request' \in [Admins -> Request]
      BY <1>0, <1>7, BecomeType DEF DateWrite
    <2>3. QED
      BY <1>7, <2>1, <2>2 DEF DateWrite, TypeOK, RowType
  <1>8. QED
    BY <1>1, <1>2, <1>3, <1>4, <1>5, <1>6, <1>7 DEF UpdateEnrollment, ChangeDate

\* Steps of the editing and deleting handlers keep the types.
LEMMA TypeEdit ==
    ASSUME TypeOK, NEW a \in Admins, EditClass(a) \/ DeleteClass(a)
    PROVE  TypeOK'
  <1> DEFINE q == request[a]
  <1>0. /\ q \in Request /\ Idle \in Request
        /\ enrollment \in [Rows -> RowType]
    BY DEF TypeOK, RowType, Request
  <1>1. ASSUME NEW c \in Classes, NEW to \in ClassStatus \cup {Keep},
               NEW cap \in Capacities, EditStart(a, c, to, cap)
        PROVE  TypeOK'
    <2>1. [step |-> "EditOpen", class |-> c, to |-> to, capacity |-> cap] \in Request
      BY DEF Request
    <2>2. request' \in [Admins -> Request]
      BY <1>1, <2>1, BecomeType DEF EditStart
    <2>3. QED
      BY <1>1, <2>2 DEF EditStart, TypeOK
  <1>2. ASSUME EditSize(a) PROVE TypeOK'
    <2>1. [q EXCEPT !.step = "EditSized"] \in Request
      BY <1>0, <1>2, RequestShape DEF EditSize, Request
    <2>2. request' \in [Admins -> Request]
      BY <1>0, <1>2, <2>1, BecomeType DEF EditSize
    <2>3. QED
      BY <1>2, <2>2 DEF EditSize, TypeOK
  <1>3. ASSUME EditRead(a) PROVE TypeOK'
    <2> DEFINE read == [step |-> "EditWrite", class |-> q.class, to |-> q.to,
                        capacity |-> q.capacity, original |-> class[q.class].status]
    <2>1. /\ q.class \in Classes /\ q.to \in ClassStatus \cup {Keep}
          /\ q.capacity \in Capacities
      BY <1>0, <1>3, RequestShape DEF EditRead
    <2>2. read \in Request
      BY <2>1 DEF Request, TypeOK
    <2>3. Become(a, Idle) \/ Become(a, read)
      BY <1>3 DEF EditRead
    <2> HIDE DEF read
    <2>4. request' \in [Admins -> Request]
      BY <1>0, <2>2, <2>3, BecomeType
    <2>5. QED
      BY <1>3, <2>4 DEF EditRead, TypeOK
  <1>4. ASSUME EditWrite(a) PROVE TypeOK'
    <2> DEFINE new    == IF q.to = Keep THEN q.original ELSE q.to
               closes == new # q.original /\ new \in ClosedStatus
               ended  == Closing(IF closes THEN {q.class} ELSE {}, new)
    <2>1. /\ q.class \in Classes /\ new \in ClassStatus /\ q.capacity \in Capacities
      BY <1>0, <1>4, RequestShape DEF EditWrite
    <2>2. class' \in [Classes -> [status : ClassStatus, archived : BOOLEAN,
                                  deleted : BOOLEAN, capacity : Capacities]]
      <3> HIDE DEF new, closes, ended
      <3>1. \/ class' = class
            \/ class' = [class EXCEPT ![q.class].status = new,
                                      ![q.class].capacity = q.capacity]
        BY <1>4 DEF EditWrite, new
      <3>2. QED
        BY <2>1, <3>1 DEF TypeOK
    <2>3. ended \in [Rows -> RowType]
      <3>1. CASE closes
        <4>1. new \in EnrollmentStatus
          BY <3>1 DEF ClosedStatus, EnrollmentStatus
        <4>2. QED
          BY <4>1, HelperTypes
      <3>2. CASE ~closes
        BY <1>0, <3>2, ClosingNothing
      <3>3. QED
        BY <3>1, <3>2
    <2>4. enrollment' \in [Rows -> RowType]
      BY <1>0, <1>4, <2>3 DEF EditWrite
    <2>5. completions' \in [Classes \X Users -> 0 .. MaxCompletions]
      <3>1. CASE UNCHANGED completions
        BY <3>1 DEF TypeOK
      <3>2. CASE \E rows, cs : completions' = CompletionsFor(rows, cs) /\ WithinCompletionBound
        BY <3>2, CompletionsType
      <3>3. QED
        BY <1>4, <3>1, <3>2 DEF EditWrite
    <2>6. request' \in [Admins -> Request]
      BY <1>0, <1>4, BecomeType DEF EditWrite
    <2>7. QED
      BY <1>4, <2>2, <2>4, <2>5, <2>6 DEF EditWrite, TypeOK, RowType
  <1>5. ASSUME NEW c \in Classes, DeleteStart(a, c) PROVE TypeOK'
    <2>1. request' \in [Admins -> Request]
      BY <1>5, BecomeType DEF DeleteStart, Request
    <2>2. QED
      BY <1>5, <2>1 DEF DeleteStart, TypeOK
  <1>6. ASSUME DeleteWrite(a) PROVE TypeOK'
    <2>1. q.class \in Classes
      BY <1>0, <1>6, RequestShape DEF DeleteWrite
    <2>2. request' \in [Admins -> Request]
      BY <1>0, <1>6, BecomeType DEF DeleteWrite
    <2>3. QED
      BY <1>6, <2>1, <2>2, ZenonT(60) DEF DeleteWrite, TypeOK
  <1>7. QED
    BY <1>1, <1>2, <1>3, <1>4, <1>5, <1>6 DEF EditClass, DeleteClass

\* Transactions and steps of the activation job keep the types.
LEMMA TypeTransaction ==
    ASSUME TypeOK, (\E a \in Admins : OneTransaction(a)) \/ Middleware
    PROVE  TypeOK'
  <1>0. enrollment \in [Rows -> RowType]
    BY DEF TypeOK, RowType
  <1>1. ASSUME NEW cs \in SUBSET Classes, NEW to \in ClassStatus, BulkSetStatus(cs, to)
        PROVE  TypeOK'
    <2> DEFINE closed == IF to \in ClosedStatus THEN cs ELSE {}
               ended  == Closing(closed, to)
    <2>1. ended \in [Rows -> RowType]
      <3>1. CASE to \in ClosedStatus
        <4>1. to \in EnrollmentStatus
          BY <3>1 DEF ClosedStatus, EnrollmentStatus
        <4>2. QED
          BY <4>1, HelperTypes
      <3>2. CASE to \notin ClosedStatus
        BY <1>0, <3>2, ClosingNothing
      <3>3. QED
        BY <3>1, <3>2
    <2>2. enrollment' \in [Rows -> RowType]
      BY <1>1, <2>1, HelperTypes DEF BulkSetStatus
    <2>3. completions' \in [Classes \X Users -> 0 .. MaxCompletions]
      BY <1>1, CompletionsType DEF BulkSetStatus
    <2>4. class' \in [Classes -> [status : ClassStatus, archived : BOOLEAN,
                                  deleted : BOOLEAN, capacity : Capacities]]
      BY <1>1, ZenonT(60) DEF BulkSetStatus, TypeOK
    <2>5. QED
      BY <1>1, <2>2, <2>3, <2>4, ZenonT(60) DEF BulkSetStatus, TypeOK, RowType
  <1>2. ASSUME NEW cs \in SUBSET Classes, BulkArchive(cs) PROVE TypeOK'
    BY <1>2, ZenonT(60) DEF BulkArchive, TypeOK
  <1>3. ASSUME NEW r \in Rows, DeleteEnrollment(r) PROVE TypeOK'
    BY <1>3, ZenonT(60) DEF DeleteEnrollment, TypeOK
  <1>4. ASSUME NEW u \in Users, DeactivateUser(u) PROVE TypeOK'
    <2>1. "Incomplete" \in EnrollmentStatus
      BY DEF EnrollmentStatus
    <2>2. enrollment' \in [Rows -> RowType]
      BY <1>4, <2>1, HelperTypes DEF DeactivateUser
    <2>3. QED
      BY <1>4, <2>2 DEF DeactivateUser, TypeOK, RowType
  <1>5. ASSUME NEW u \in Users, TransferResident(u) PROVE TypeOK'
    <2>1. enrollment' \in [Rows -> RowType]
      BY <1>0, <1>5 DEF TransferResident, RowType, EnrollmentStatus
    <2>2. QED
      BY <1>5, <2>1 DEF TransferResident, TypeOK, RowType
  <1>6. ASSUME NEW due \in SUBSET Classes, JobQuery(due) PROVE TypeOK'
    BY <1>6 DEF JobQuery, Job, TypeOK
  <1>7. ASSUME JobActivate PROVE TypeOK'
    <2>1. enrollment' \in [Rows -> RowType]
      BY <1>0, <1>7, HelperTypes DEF JobActivate
    <2>2. class' \in [Classes -> [status : ClassStatus, archived : BOOLEAN,
                                  deleted : BOOLEAN, capacity : Capacities]]
      BY <1>7 DEF JobActivate, TypeOK, ClassStatus
    <2>3. QED
      BY <1>7, <2>1, <2>2 DEF JobActivate, TypeOK, RowType, Job
  <1>8. QED
    BY <1>1, <1>2, <1>3, <1>4, <1>5, <1>6, <1>7 DEF OneTransaction, Middleware

\* Every state of every behaviour is well typed: the values of the rows stay in
\* their domains and no handler moves to a state the next step cannot read.
THEOREM TypeCorrect == Spec => []TypeOK
  <1>1. TypeOK /\ [Next]_vars => TypeOK'
    <2> SUFFICES ASSUME TypeOK, [Next]_vars PROVE TypeOK'
      OBVIOUS
    <2>1. CASE UNCHANGED vars
      BY <2>1 DEF vars, TypeOK
    <2>2. CASE Next
      BY <2>2, TypeEnroll, TypeUpdate, TypeEdit, TypeTransaction DEF Next
    <2>3. QED
      BY <2>1, <2>2
  <1>2. QED
    BY TypeInit, <1>1, PTL DEF Spec

--------------------------------------------------------------------------------
(* The end of an enrollment is stamped, however requests interleave *)

Stamped(row) == row.status \in TerminalEnrollment \ {"Transferred"} => row.endedAt

\* The hook stamps what it ends, and leaves the other rows alone.
LEMMA UpdatedStamped ==
    ASSUME TypeOK, EndedStamped, NEW S, NEW to \in EnrollmentStatus, NEW seen
    PROVE  \A r \in Rows : Stamped(Updated(S, to, seen)[r])
  <1>1. \A row \in RowType : Stamped(BeforeUpdate(row, to, seen))
    BY DEF Stamped, BeforeUpdate, RowType, TerminalEnrollment, EnrollmentStatus
  <1>2. \A r \in Rows : enrollment[r] \in RowType /\ Stamped(enrollment[r])
    BY DEF TypeOK, RowType, EndedStamped, Stamped
  <1>3. QED
    BY <1>1, <1>2 DEF Updated

\* The backfill of enrolled_at touches neither a status nor an end.
LEMMA BackfilledStamped ==
    ASSUME NEW rows \in [Rows -> RowType], NEW cs, \A r \in Rows : Stamped(rows[r])
    PROVE  \A r \in Rows : Stamped(Backfilled(rows, cs)[r])
  BY DEF Stamped, Backfilled, RowType

\* The same for the closing cascade, which may have nothing to close.
LEMMA ClosingStamped ==
    ASSUME TypeOK, EndedStamped, NEW cs, NEW to \in ClassStatus
    PROVE  LET rows == Closing(IF to \in ClosedStatus THEN cs ELSE {}, to)
           IN  rows \in [Rows -> RowType] /\ \A r \in Rows : Stamped(rows[r])
  <1>1. CASE to \in ClosedStatus
    <2>1. to \in EnrollmentStatus
      BY <1>1 DEF ClosedStatus, EnrollmentStatus
    <2>2. QED
      BY <1>1, <2>1, HelperTypes, UpdatedStamped DEF Closing
  <1>2. CASE to \notin ClosedStatus
    BY <1>2, ClosingNothing DEF TypeOK, RowType, EndedStamped, Stamped
  <1>3. QED
    BY <1>1, <1>2

\* For every number of administrators and every interleaving of their requests
\* with the job, a row ended by a handler carries its end.
THEOREM EndedStampedHolds == Spec => []EndedStamped
  <1>1. Init => EndedStamped
    BY DEF Init, EndedStamped, NoRow, TerminalEnrollment, EnrollmentStatus
  <1>2. TypeOK /\ EndedStamped /\ [Next]_vars => EndedStamped'
    <2> SUFFICES ASSUME TypeOK, EndedStamped, [Next]_vars
                 PROVE  \A r \in Rows : Stamped(enrollment'[r])
      BY DEF EndedStamped, Stamped
    <2>0. /\ enrollment \in [Rows -> RowType]
          /\ \A r \in Rows : Stamped(enrollment[r])
          /\ \A a \in Admins : request[a] \in Request
      BY DEF TypeOK, RowType, EndedStamped, Stamped
    <2>1. CASE UNCHANGED enrollment
      BY <2>0, <2>1
    <2>2. ASSUME NEW a \in Admins, EnrollInsert(a)
          PROVE  \A r \in Rows : Stamped(enrollment'[r])
      <3>1. \A seen : Stamped(BeforeCreate(seen))
        BY DEF Stamped, BeforeCreate, NoRow, TerminalEnrollment
      <3>2. QED
        BY <2>0, <2>2, <3>1 DEF EnrollInsert
    <2>3. ASSUME NEW a \in Admins, UpdateWrite(a)
          PROVE  \A r \in Rows : Stamped(enrollment'[r])
      <3>1. request[a].to \in EnrollmentStatus
        BY <2>0, <2>3, RequestShape DEF UpdateWrite
      <3>2. QED
        BY <2>3, <3>1, UpdatedStamped DEF UpdateWrite
    <2>4. ASSUME NEW a \in Admins, GraduateWrite(a)
          PROVE  \A r \in Rows : Stamped(enrollment'[r])
      BY <2>4, UpdatedStamped DEF GraduateWrite, EnrollmentStatus
    <2>5. ASSUME NEW a \in Admins, DateWrite(a)
          PROVE  \A r \in Rows : Stamped(enrollment'[r])
      BY <2>0, <2>5 DEF DateWrite, Stamped, RowType
    <2>6. ASSUME NEW a \in Admins, EditWrite(a)
          PROVE  \A r \in Rows : Stamped(enrollment'[r])
      <3> DEFINE q      == request[a]
                 new    == IF q.to = Keep THEN q.original ELSE q.to
                 closes == new # q.original /\ new \in ClosedStatus
      <3>1. new \in ClassStatus
        BY <2>0, <2>6, RequestShape DEF EditWrite
      <3>2. CASE closes
        <4>1. \A r \in Rows : Stamped(Closing({q.class}, new)[r])
          BY <3>1, <3>2, ClosingStamped
        <4>2. QED
          BY <2>0, <2>6, <3>2, <4>1 DEF EditWrite
      <3>3. CASE ~closes
        BY <2>0, <2>6, <3>3, ClosingNothing DEF EditWrite
      <3>4. QED
        BY <3>2, <3>3
    <2>7. ASSUME NEW cs \in SUBSET Classes, NEW to \in ClassStatus, BulkSetStatus(cs, to)
          PROVE  \A r \in Rows : Stamped(enrollment'[r])
      BY <2>7, ClosingStamped, BackfilledStamped DEF BulkSetStatus
    <2>8. ASSUME NEW r \in Rows, DeleteEnrollment(r)
          PROVE  \A s \in Rows : Stamped(enrollment'[s])
      BY <2>0, <2>8 DEF DeleteEnrollment, Stamped, RowType
    <2>9. ASSUME NEW u \in Users, DeactivateUser(u)
          PROVE  \A r \in Rows : Stamped(enrollment'[r])
      BY <2>9, UpdatedStamped DEF DeactivateUser, EnrollmentStatus
    <2>10. ASSUME NEW u \in Users, TransferResident(u)
           PROVE  \A r \in Rows : Stamped(enrollment'[r])
      BY <2>0, <2>10 DEF TransferResident, Stamped, RowType
    <2>11. ASSUME JobActivate
           PROVE  \A r \in Rows : Stamped(enrollment'[r])
      BY <2>0, <2>11, BackfilledStamped DEF JobActivate
    <2>12. QED
      <3>1. CASE Middleware
        BY <2>1, <2>11, <3>1 DEF Middleware, JobQuery
      <3>2. ASSUME NEW a \in Admins, Enroll(a) PROVE \A r \in Rows : Stamped(enrollment'[r])
        BY <2>1, <2>2, <3>2 DEF Enroll, EnrollStart, EnrollCheck, EnrollCount, EnrollHook
      <3>3. ASSUME NEW a \in Admins, UpdateEnrollment(a) \/ ChangeDate(a)
            PROVE  \A r \in Rows : Stamped(enrollment'[r])
        BY <2>1, <2>3, <2>4, <2>5, <3>3
           DEF UpdateEnrollment, ChangeDate, UpdateStart, UpdateHook, GraduateFind, DateStart
      <3>4. ASSUME NEW a \in Admins, EditClass(a) \/ DeleteClass(a)
            PROVE  \A r \in Rows : Stamped(enrollment'[r])
        BY <2>1, <2>6, <3>4
           DEF EditClass, DeleteClass, EditStart, EditSize, EditRead, DeleteStart, DeleteWrite
      <3>5. ASSUME NEW a \in Admins, OneTransaction(a)
            PROVE  \A r \in Rows : Stamped(enrollment'[r])
        BY <2>1, <2>7, <2>8, <2>9, <2>10, <3>5 DEF OneTransaction, BulkArchive
      <3>6. QED
        BY <2>1, <3>1, <3>2, <3>3, <3>4, <3>5 DEF Next, vars
  <1>3. QED
    BY <1>1, <1>2, TypeCorrect, PTL DEF Spec

--------------------------------------------------------------------------------
(* One administrator at a time: what a handler checked still holds when it writes *)

LiveRow(row) == row.status # "None" /\ ~row.deleted
EnrolledRow(row) == row.status = "Enrolled" /\ ~row.deleted

Serial == NoEnrolledInClosedClass /\ DeletedClassEmpty /\ GuardStillHolds

\* The two invariants read row by row.
LEMMA SerialRows ==
    ASSUME TypeOK, Serial
    PROVE  /\ \A r \in Rows : class[r[1]].status \in ClosedStatus => ~EnrolledRow(enrollment[r])
           /\ \A r \in Rows : class[r[1]].deleted => ~LiveRow(enrollment[r])
           /\ \A r \in Rows : r[1] \in Classes /\ r[2] \in Users
  <1>1. \A r \in Rows : r[1] \in Classes /\ r[2] \in Users
    BY DEF Rows
  <1>2. QED
    BY <1>1 DEF Serial, NoEnrolledInClosedClass, DeletedClassEmpty, EnrolledRows, Live,
                EnrolledRow, LiveRow

\* The three invariants after a step, read row by row.
LEMMA SerialRowsNext ==
    ASSUME \A r \in Rows : class'[r[1]].status \in ClosedStatus => ~EnrolledRow(enrollment'[r]),
           \A r \in Rows : class'[r[1]].deleted => ~LiveRow(enrollment'[r]),
           GuardStillHolds'
    PROVE  Serial'
  BY DEF Serial, NoEnrolledInClosedClass, DeletedClassEmpty, EnrolledRows, Live,
         EnrolledRow, LiveRow

\* A hooked update of live rows keeps every row as live as it was, and enrolls
\* nobody unless it is an update to Enrolled.
LEMMA UpdatedRows ==
    ASSUME TypeOK, NEW S, \A r \in S : Live(r), NEW to \in EnrollmentStatus, NEW seen
    PROVE  \A r \in Rows :
              /\ LiveRow(Updated(S, to, seen)[r]) <=> LiveRow(enrollment[r])
              /\ r \notin S => Updated(S, to, seen)[r] = enrollment[r]
              /\ r \in S => (EnrolledRow(Updated(S, to, seen)[r]) <=> to = "Enrolled")
  <1> SUFFICES ASSUME NEW r \in Rows
               PROVE  /\ LiveRow(Updated(S, to, seen)[r]) <=> LiveRow(enrollment[r])
                      /\ r \notin S => Updated(S, to, seen)[r] = enrollment[r]
                      /\ r \in S => (EnrolledRow(Updated(S, to, seen)[r]) <=> to = "Enrolled")
    OBVIOUS
  <1>1. enrollment[r] \in RowType
    BY DEF TypeOK, RowType
  <1>2. CASE r \notin S
    BY <1>2 DEF Updated
  <1>3. CASE r \in S
    <2>1. Updated(S, to, seen)[r] = BeforeUpdate(enrollment[r], to, seen)
      BY <1>3 DEF Updated
    <2>2. /\ BeforeUpdate(enrollment[r], to, seen).status = to
          /\ BeforeUpdate(enrollment[r], to, seen).deleted = enrollment[r].deleted
      BY <1>1 DEF BeforeUpdate, RowType
    <2>3. ~enrollment[r].deleted /\ enrollment[r].status # "None"
      BY <1>3 DEF Live
    <2>4. to # "None"
      BY DEF EnrollmentStatus
    <2>5. QED
      BY <1>3, <2>1, <2>2, <2>3, <2>4 DEF LiveRow, EnrolledRow
  <1>4. QED
    BY <1>2, <1>3

\* The backfill changes neither.
LEMMA BackfilledRows ==
    ASSUME NEW rows \in [Rows -> RowType], NEW cs
    PROVE  \A r \in Rows : /\ LiveRow(Backfilled(rows, cs)[r]) <=> LiveRow(rows[r])
                           /\ EnrolledRow(Backfilled(rows, cs)[r]) <=> EnrolledRow(rows[r])
  BY DEF Backfilled, RowType, LiveRow, EnrolledRow

\* The cascade ends every Enrolled row of the classes closed, and only those.
LEMMA ClosingRows ==
    ASSUME TypeOK, NEW cs \in SUBSET Classes, NEW to \in ClosedStatus
    PROVE  /\ Closing(cs, to) \in [Rows -> RowType]
           /\ \A r \in Rows :
                 /\ LiveRow(Closing(cs, to)[r]) <=> LiveRow(enrollment[r])
                 /\ EnrolledRow(Closing(cs, to)[r]) => EnrolledRow(enrollment[r]) /\ r[1] \notin cs
  <1> DEFINE S == UNION {EnrolledRows(c) : c \in cs}
  <1>1. to \in EnrollmentStatus /\ to # "Enrolled"
    BY DEF ClosedStatus, EnrollmentStatus
  <1>2. \A r \in S : Live(r)
    BY DEF EnrolledRows
  <1>3. \A r \in Rows : r[1] \in cs /\ EnrolledRow(enrollment[r]) => r \in S
    BY DEF EnrolledRows, EnrolledRow, Live
  <1>4. Closing(cs, to) = Updated(S, to, NoStatus)
    BY DEF Closing
  <1>5. Closing(cs, to) \in [Rows -> RowType]
    BY <1>1, HelperTypes
  <1> HIDE DEF S
  <1>6. \A r \in Rows :
           /\ LiveRow(Updated(S, to, NoStatus)[r]) <=> LiveRow(enrollment[r])
           /\ r \notin S => Updated(S, to, NoStatus)[r] = enrollment[r]
           /\ r \in S => ~EnrolledRow(Updated(S, to, NoStatus)[r])
    BY <1>1, <1>2, UpdatedRows
  <1>7. QED
    BY <1>3, <1>4, <1>5, <1>6

\* A lone administrator's request that ends leaves no check open.
LEMMA GuardsWhenIdle ==
    ASSUME \A b \in Admins : request'[b] = Idle
    PROVE  GuardStillHolds'
  BY DEF GuardStillHolds, Idle

\* So does the request of a lone administrator who is done.
LEMMA GuardsWhenDone ==
    ASSUME TypeOK, NEW a \in Admins, \A b \in Admins : b = a, Become(a, Idle)
    PROVE  GuardStillHolds'
  BY GuardsWhenIdle DEF Become, TypeOK

\* Reading and checking: a request goes on only with what its guard established.
LEMMA SerialReads ==
    ASSUME TypeOK, Serial, NEW a \in Admins, \A b \in Admins : b = a,
           UNCHANGED <<class, enrollment>>,
           NEW state \in Request, Become(a, state),
           state.step \in {"EnrollOpen", "EnrollChecked", "EnrollCounted", "EnrollInsert",
                           "UpdateOpen", "UpdateWrite", "EditOpen", "EditSized", "EditWrite"}
             => class[state.class].status \notin ClosedStatus /\ ~class[state.class].deleted,
           state.step = "EditWrite" => state.original \notin ClosedStatus,
           state.step = "DeleteOpen" => \A r \in Rows : r[1] = state.class => ~Live(r)
    PROVE  Serial'
  <1>1. \A b \in Admins : request'[b] = state
    BY DEF Become, TypeOK
  <1>2. GuardStillHolds'
    BY <1>1 DEF GuardStillHolds, Live
  <1>3. QED
    BY <1>2, SerialRows, SerialRowsNext

\* The enrolling handler.
LEMMA SerialEnroll ==
    ASSUME TypeOK, Serial, NEW a \in Admins, \A b \in Admins : b = a, Enroll(a)
    PROVE  Serial'
  <1> DEFINE q == request[a]
  <1>0. /\ q \in Request /\ Idle \in Request /\ Idle.step = "Idle"
        /\ GuardStillHolds
    BY DEF TypeOK, Request, Idle, Serial
  <1>1. ASSUME NEW c \in Classes, NEW us \in (SUBSET Users) \ {{}}, EnrollStart(a, c, us)
        PROVE  Serial'
    <2> DEFINE state == [step |-> "EnrollOpen", class |-> c, users |-> us]
    <2>1. state \in Request /\ state.step = "EnrollOpen" /\ state.class = c
      BY DEF Request
    <2>2. Become(a, state) /\ UNCHANGED <<class, enrollment>>
      BY <1>1 DEF EnrollStart
    <2>3. class[c].status \notin ClosedStatus /\ ~class[c].deleted
      BY <1>1 DEF EnrollStart, CannotUpdateClass
    <2> HIDE DEF state
    <2>4. QED
      BY <2>1, <2>2, <2>3, SerialReads
  <1>2. ASSUME EnrollCheck(a) \/ EnrollCount(a) \/ EnrollHook(a),
               NEW state \in Request, Become(a, state),
               state = Idle
                 \/ /\ state.step \in {"EnrollChecked", "EnrollCounted", "EnrollInsert"}
                    /\ state.class = q.class
        PROVE  Serial'
    <2>1. UNCHANGED <<class, enrollment>>
      BY <1>2 DEF EnrollCheck, EnrollCount, EnrollHook
    <2>2. class[q.class].status \notin ClosedStatus /\ ~class[q.class].deleted
      BY <1>0, <1>2 DEF EnrollCheck, EnrollCount, EnrollHook, GuardStillHolds
    <2>3. QED
      BY <1>0, <1>2, <2>1, <2>2, SerialReads
  <1>3. ASSUME EnrollCheck(a) PROVE Serial'
    <2> DEFINE state == [q EXCEPT !.step = "EnrollChecked"]
    <2>1. state \in Request /\ state.step = "EnrollChecked" /\ state.class = q.class
      BY <1>0, <1>3, RequestShape DEF EnrollCheck, Request
    <2>2. Become(a, Idle) \/ Become(a, state)
      BY <1>3 DEF EnrollCheck
    <2> HIDE DEF state
    <2>3. QED
      BY <1>0, <1>2, <1>3, <2>1, <2>2
  <1>4. ASSUME EnrollCount(a) PROVE Serial'
    <2> DEFINE state == [step |-> "EnrollCounted", class |-> q.class, users |-> q.users,
                         available |-> Available(q.class)]
    <2>1. q.class \in Classes /\ q.users \in SUBSET Users
      BY <1>0, <1>4, RequestShape DEF EnrollCount
    <2>2. CASE Available(q.class) <= 0
      BY <1>0, <1>2, <1>4, <2>2 DEF EnrollCount
    <2>3. CASE ~(Available(q.class) <= 0)
      <3>1. Available(q.class) \in Nat \ {0}
        BY <2>1, <2>3, SeatsCounted
      <3>2. state \in Request /\ state.step = "EnrollCounted" /\ state.class = q.class
        BY <2>1, <3>1 DEF Request
      <3>3. Become(a, state)
        BY <1>4, <2>3 DEF EnrollCount
      <3> HIDE DEF state
      <3>4. QED
        BY <1>2, <1>4, <3>2, <3>3
    <2>4. QED
      BY <2>2, <2>3
  <1>5. ASSUME EnrollHook(a) PROVE Serial'
    <2>1. q.class \in Classes /\ q.users \in SUBSET Users
      BY <1>0, <1>5, RequestShape DEF EnrollHook
    <2>2. PICK us \in SUBSET q.users :
             Become(a, [step |-> "EnrollInsert", class |-> q.class, users |-> us,
                        seen |-> StatusSeen(q.class)])
      BY <1>5 DEF EnrollHook
    <2> DEFINE state == [step |-> "EnrollInsert", class |-> q.class, users |-> us,
                         seen |-> StatusSeen(q.class)]
    <2>3. StatusSeen(q.class) \in ClassStatus \cup {NoStatus}
      BY <2>1, HelperTypes
    <2>4. state \in Request /\ state.step = "EnrollInsert" /\ state.class = q.class
      BY <2>1, <2>3 DEF Request
    <2>5. Become(a, state)
      BY <2>2
    <2> HIDE DEF state
    <2>6. QED
      BY <1>2, <1>5, <2>4, <2>5
  <1>6. ASSUME EnrollInsert(a) PROVE Serial'
    <2>1. class[q.class].status \notin ClosedStatus /\ ~class[q.class].deleted
      BY <1>0, <1>6 DEF EnrollInsert, GuardStillHolds
    <2>2. \A r \in Rows : r[1] # q.class => enrollment'[r] = enrollment[r]
      BY <1>6 DEF EnrollInsert
    <2>3. GuardStillHolds' /\ UNCHANGED class
      BY <1>6, GuardsWhenDone DEF EnrollInsert
    <2>4. QED
      BY <2>1, <2>2, <2>3, SerialRows, SerialRowsNext
  <1>7. QED
    BY <1>1, <1>3, <1>4, <1>5, <1>6 DEF Enroll

\* The status, graduation and date handlers.
LEMMA SerialUpdate ==
    ASSUME TypeOK, Serial, NEW a \in Admins, \A b \in Admins : b = a,
           UpdateEnrollment(a) \/ ChangeDate(a)
    PROVE  Serial'
  <1> DEFINE q == request[a]
  <1>0. /\ q \in Request /\ Idle \in Request /\ Idle.step = "Idle"
        /\ GuardStillHolds
        /\ enrollment \in [Rows -> RowType]
    BY DEF TypeOK, Request, Idle, Serial, RowType
  <1>1. ASSUME NEW c \in Classes, NEW us \in (SUBSET Users) \ {{}},
               NEW to \in EnrollmentStatus, UpdateStart(a, c, us, to)
        PROVE  Serial'
    <2> DEFINE state == [step |-> "UpdateOpen", class |-> c, users |-> us, to |-> to]
    <2>1. state \in Request /\ state.step = "UpdateOpen" /\ state.class = c
      BY DEF Request
    <2>2. Become(a, state) /\ UNCHANGED <<class, enrollment>>
      BY <1>1 DEF UpdateStart
    <2>3. class[c].status \notin ClosedStatus /\ ~class[c].deleted
      BY <1>1 DEF UpdateStart, CannotUpdateClassWithEnrollment, CannotUpdateClass
    <2> HIDE DEF state
    <2>4. QED
      BY <2>1, <2>2, <2>3, SerialReads
  <1>2. ASSUME UpdateHook(a) PROVE Serial'
    <2> DEFINE state == [step |-> "UpdateWrite", class |-> q.class, users |-> q.users,
                         to |-> q.to, seen |-> StatusSeen(q.class)]
    <2>1. q.class \in Classes /\ q.users \in SUBSET Users /\ q.to \in EnrollmentStatus
      BY <1>0, <1>2, RequestShape DEF UpdateHook
    <2>2. StatusSeen(q.class) \in ClassStatus \cup {NoStatus}
      BY <2>1, HelperTypes
    <2>3. state \in Request /\ state.step = "UpdateWrite" /\ state.class = q.class
      BY <2>1, <2>2 DEF Request
    <2>4. Become(a, state) /\ UNCHANGED <<class, enrollment>>
      BY <1>2 DEF UpdateHook
    <2>5. class[q.class].status \notin ClosedStatus /\ ~class[q.class].deleted
      BY <1>0, <1>2 DEF UpdateHook, GuardStillHolds
    <2> HIDE DEF state
    <2>6. QED
      BY <2>3, <2>4, <2>5, SerialReads
  <1>3. ASSUME UpdateWrite(a) PROVE Serial'
    <2> DEFINE S == RowsOf(q.class, q.users)
    <2>1. class[q.class].status \notin ClosedStatus /\ ~class[q.class].deleted
      BY <1>0, <1>3 DEF UpdateWrite, GuardStillHolds
    <2>2. /\ \A r \in S : Live(r) /\ r[1] = q.class
          /\ q.to \in EnrollmentStatus
      BY <1>0, <1>3, RequestShape DEF UpdateWrite, RowsOf
    <2>3. enrollment' = Updated(S, q.to, q.seen) /\ UNCHANGED class
      BY <1>3 DEF UpdateWrite
    <2>4. GuardStillHolds'
      BY <1>3, GuardsWhenDone DEF UpdateWrite
    <2> HIDE DEF S
    <2>5. \A r \in Rows : r[1] # q.class => enrollment'[r] = enrollment[r]
      BY <2>2, <2>3 DEF Updated
    <2>6. QED
      BY <2>1, <2>3, <2>4, <2>5, SerialRows, SerialRowsNext
  <1>4. ASSUME GraduateFind(a) PROVE Serial'
    <2> DEFINE state == [step |-> "GraduateWrite", class |-> q.class, users |-> q.users,
                         found |-> {r[2] : r \in RowsOf(q.class, q.users)}]
    <2>1. q.class \in Classes /\ q.users \in SUBSET Users
      BY <1>0, <1>4, RequestShape DEF GraduateFind
    <2>2. {r[2] : r \in RowsOf(q.class, q.users)} \in SUBSET Users
      BY <2>1, SerialRows DEF RowsOf
    <2>3. state \in Request /\ state.step = "GraduateWrite"
      BY <2>1, <2>2 DEF Request
    <2>4. (Become(a, Idle) \/ Become(a, state)) /\ UNCHANGED <<class, enrollment>>
      BY <1>4 DEF GraduateFind
    <2> HIDE DEF state
    <2>5. QED
      BY <1>0, <2>3, <2>4, SerialReads
  <1>5. ASSUME GraduateWrite(a) PROVE Serial'
    <2> DEFINE S == RowsOf(q.class, q.users)
    <2>1. \A r \in S : Live(r)
      BY DEF RowsOf
    <2>2. enrollment' = Updated(S, "Completed", StatusSeen(q.class)) /\ UNCHANGED class
      BY <1>5 DEF GraduateWrite
    <2>3. GuardStillHolds'
      BY <1>5, GuardsWhenDone DEF GraduateWrite
    <2>4. "Completed" \in EnrollmentStatus
      BY DEF EnrollmentStatus
    <2> HIDE DEF S
    <2>5. \A r \in Rows : /\ LiveRow(enrollment'[r]) <=> LiveRow(enrollment[r])
                          /\ EnrolledRow(enrollment'[r]) => EnrolledRow(enrollment[r])
      <3>1. \A r \in Rows :
               /\ LiveRow(Updated(S, "Completed", StatusSeen(q.class))[r])
                    <=> LiveRow(enrollment[r])
               /\ r \notin S
                    => Updated(S, "Completed", StatusSeen(q.class))[r] = enrollment[r]
               /\ r \in S
                    => ~EnrolledRow(Updated(S, "Completed", StatusSeen(q.class))[r])
        BY <2>1, <2>4, UpdatedRows
      <3>2. QED
        BY <2>2, <3>1
    <2>6. QED
      BY <2>2, <2>3, <2>5, SerialRows, SerialRowsNext
  <1>6. ASSUME NEW c \in Classes, DateStart(a, c) PROVE Serial'
    <2> DEFINE state == [step |-> "DateOpen", class |-> c]
    <2>1. state \in Request /\ state.step = "DateOpen"
      BY DEF Request
    <2>2. Become(a, state) /\ UNCHANGED <<class, enrollment>>
      BY <1>6 DEF DateStart
    <2> HIDE DEF state
    <2>3. QED
      BY <2>1, <2>2, SerialReads
  <1>7. ASSUME DateWrite(a) PROVE Serial'
    <2>1. \A r \in Rows : /\ LiveRow(enrollment'[r]) <=> LiveRow(enrollment[r])
                          /\ EnrolledRow(enrollment'[r]) <=> EnrolledRow(enrollment[r])
      BY <1>0, <1>7 DEF DateWrite, RowType, LiveRow, EnrolledRow
    <2>2. GuardStillHolds' /\ UNCHANGED class
      BY <1>7, GuardsWhenDone DEF DateWrite
    <2>3. QED
      BY <2>1, <2>2, SerialRows, SerialRowsNext
  <1>8. QED
    BY <1>1, <1>2, <1>3, <1>4, <1>5, <1>6, <1>7 DEF UpdateEnrollment, ChangeDate

\* The editing and deleting handlers.
LEMMA SerialEdit ==
    ASSUME TypeOK, Serial, NEW a \in Admins, \A b \in Admins : b = a,
           EditClass(a) \/ DeleteClass(a)
    PROVE  Serial'
  <1> DEFINE q == request[a]
  <1>0. /\ q \in Request /\ Idle \in Request /\ Idle.step = "Idle"
        /\ GuardStillHolds
        /\ enrollment \in [Rows -> RowType]
        /\ class \in [Classes -> [status : ClassStatus, archived : BOOLEAN,
                                  deleted : BOOLEAN, capacity : Capacities]]
    BY DEF TypeOK, Request, Idle, Serial, RowType
  <1>1. ASSUME NEW c \in Classes, NEW to \in ClassStatus \cup {Keep},
               NEW cap \in Capacities, EditStart(a, c, to, cap)
        PROVE  Serial'
    <2> DEFINE state == [step |-> "EditOpen", class |-> c, to |-> to, capacity |-> cap]
    <2>1. state \in Request /\ state.step = "EditOpen" /\ state.class = c
      BY DEF Request
    <2>2. Become(a, state) /\ UNCHANGED <<class, enrollment>>
      BY <1>1 DEF EditStart
    <2>3. class[c].status \notin ClosedStatus /\ ~class[c].deleted
      BY <1>1 DEF EditStart, CannotUpdateClass
    <2> HIDE DEF state
    <2>4. QED
      BY <2>1, <2>2, <2>3, SerialReads
  <1>2. ASSUME EditSize(a) PROVE Serial'
    <2> DEFINE state == [q EXCEPT !.step = "EditSized"]
    <2>1. state \in Request /\ state.step = "EditSized" /\ state.class = q.class
      BY <1>0, <1>2, RequestShape DEF EditSize, Request
    <2>2. (Become(a, Idle) \/ Become(a, state)) /\ UNCHANGED <<class, enrollment>>
      BY <1>2 DEF EditSize
    <2>3. class[q.class].status \notin ClosedStatus /\ ~class[q.class].deleted
      BY <1>0, <1>2 DEF EditSize, GuardStillHolds
    <2> HIDE DEF state
    <2>4. QED
      BY <1>0, <2>1, <2>2, <2>3, SerialReads
  <1>3. ASSUME EditRead(a) PROVE Serial'
    <2> DEFINE state == [step |-> "EditWrite", class |-> q.class, to |-> q.to,
                         capacity |-> q.capacity, original |-> class[q.class].status]
    <2>1. /\ q.class \in Classes /\ q.to \in ClassStatus \cup {Keep}
          /\ q.capacity \in Capacities
      BY <1>0, <1>3, RequestShape DEF EditRead
    <2>2. /\ state \in Request /\ state.step = "EditWrite" /\ state.class = q.class
          /\ state.original = class[q.class].status
      BY <1>0, <2>1 DEF Request
    <2>3. (Become(a, Idle) \/ Become(a, state)) /\ UNCHANGED <<class, enrollment>>
      BY <1>3 DEF EditRead
    <2>4. class[q.class].status \notin ClosedStatus /\ ~class[q.class].deleted
      BY <1>0, <1>3 DEF EditRead, GuardStillHolds
    <2> HIDE DEF state
    <2>5. QED
      BY <1>0, <2>2, <2>3, <2>4, SerialReads
  <1>4. ASSUME EditWrite(a) PROVE Serial'
    <2> DEFINE new    == IF q.to = Keep THEN q.original ELSE q.to
               closes == new # q.original /\ new \in ClosedStatus
               ended  == Closing(IF closes THEN {q.class} ELSE {}, new)
    <2>1. GuardStillHolds'
      BY <1>4, GuardsWhenDone DEF EditWrite
    <2>2. q.class \in Classes /\ ~class[q.class].deleted /\ q.original \notin ClosedStatus
      BY <1>0, <1>4, RequestShape DEF EditWrite, GuardStillHolds
    <2>3. closes <=> new \in ClosedStatus
      BY <2>2
    <2>4. CASE UNCHANGED <<class, enrollment>>
      BY <2>1, <2>4, SerialRows, SerialRowsNext
    <2>5. CASE ~UNCHANGED <<class, enrollment>>
      <3>1. /\ class' = [class EXCEPT ![q.class].status = new,
                                      ![q.class].capacity = q.capacity]
            /\ enrollment' = ended
        BY <1>4, <2>2, <2>5 DEF EditWrite
      <3>2. \A r \in Rows : /\ LiveRow(ended[r]) <=> LiveRow(enrollment[r])
                            /\ EnrolledRow(ended[r]) => EnrolledRow(enrollment[r])
                            /\ closes /\ r[1] = q.class => ~EnrolledRow(ended[r])
        <4>1. CASE closes
          BY <2>2, <2>3, <4>1, ClosingRows
        <4>2. CASE ~closes
          BY <4>2, ClosingNothing
        <4>3. QED
          BY <4>1, <4>2
      <3>3. /\ class'[q.class].status = new /\ class'[q.class].deleted = class[q.class].deleted
            /\ \A c \in Classes : c # q.class => class'[c] = class[c]
        <4> HIDE DEF new
        <4>1. QED
          BY <1>0, <2>2, <3>1
      <3> HIDE DEF new, closes, ended
      <3>4. QED
        BY <2>1, <2>2, <2>3, <3>1, <3>2, <3>3, SerialRows, SerialRowsNext, ZenonT(60)
    <2>6. QED
      BY <2>4, <2>5
  <1>5. ASSUME NEW c \in Classes, DeleteStart(a, c) PROVE Serial'
    <2> DEFINE state == [step |-> "DeleteOpen", class |-> c]
    <2>1. state \in Request /\ state.step = "DeleteOpen" /\ state.class = c
      BY DEF Request
    <2>2. Become(a, state) /\ UNCHANGED <<class, enrollment>>
      BY <1>5 DEF DeleteStart
    <2>3. \A r \in Rows : r[1] = c => ~Live(r)
      BY <1>5 DEF DeleteStart, HasBlockingChildren
    <2> HIDE DEF state
    <2>4. QED
      BY <2>1, <2>2, <2>3, SerialReads
  <1>6. ASSUME DeleteWrite(a) PROVE Serial'
    <2>1. GuardStillHolds' /\ UNCHANGED enrollment
      BY <1>6, GuardsWhenDone DEF DeleteWrite
    <2>2. \A r \in Rows : r[1] = q.class => ~LiveRow(enrollment[r])
      BY <1>0, <1>6 DEF DeleteWrite, GuardStillHolds, Live, LiveRow
    <2>3. \A c \in Classes : /\ class'[c].status = class[c].status
                             /\ c # q.class => class'[c].deleted = class[c].deleted
      BY <1>0, <1>6 DEF DeleteWrite
    <2>4. QED
      BY <2>1, <2>2, <2>3, SerialRows, SerialRowsNext
  <1>7. QED
    BY <1>1, <1>2, <1>3, <1>4, <1>5, <1>6 DEF EditClass, DeleteClass

\* Transactions and the job: they may fall between the steps of nobody else, or
\* change nothing that the open request has checked.
LEMMA SerialTransaction ==
    ASSUME TypeOK, Serial, NEW a \in Admins, \A b \in Admins : b = a, OneTransaction(a)
    PROVE  Serial'
  <1>0. /\ enrollment \in [Rows -> RowType]
        /\ class \in [Classes -> [status : ClassStatus, archived : BOOLEAN,
                                  deleted : BOOLEAN, capacity : Capacities]]
    BY DEF TypeOK, RowType
  <1>1. ASSUME UNCHANGED request PROVE GuardStillHolds'
    BY <1>1, GuardsWhenIdle DEF OneTransaction
  <1>2. ASSUME NEW cs \in SUBSET Classes, NEW to \in ClassStatus, BulkSetStatus(cs, to)
        PROVE  Serial'
    <2> DEFINE closed == IF to \in ClosedStatus THEN cs ELSE {}
               ended  == Closing(closed, to)
               filled == IF to = "Active" THEN cs ELSE {}
    <2>1. /\ ended \in [Rows -> RowType]
          /\ \A r \in Rows : /\ LiveRow(ended[r]) <=> LiveRow(enrollment[r])
                             /\ EnrolledRow(ended[r]) => EnrolledRow(enrollment[r])
                             /\ to \in ClosedStatus /\ r[1] \in cs => ~EnrolledRow(ended[r])
      <3>1. CASE to \in ClosedStatus
        BY <3>1, ClosingRows
      <3>2. CASE to \notin ClosedStatus
        BY <1>0, <3>2, ClosingNothing
      <3>3. QED
        BY <3>1, <3>2
    <2>2. /\ enrollment' = Backfilled(ended, filled)
          /\ class' = [c \in Classes |-> IF c \in NotDeleted(cs)
                                         THEN [class[c] EXCEPT !.status = to]
                                         ELSE class[c]]
          /\ UNCHANGED request
      BY <1>2 DEF BulkSetStatus
    <2> HIDE DEF ended, filled
    <2>3. \A r \in Rows : /\ LiveRow(enrollment'[r]) <=> LiveRow(ended[r])
                          /\ EnrolledRow(enrollment'[r]) <=> EnrolledRow(ended[r])
      BY <2>1, <2>2, BackfilledRows
    <2>4. \A c \in Classes : /\ class'[c].deleted = class[c].deleted
                             /\ \/ class'[c].status = class[c].status
                                \/ class'[c].status = to /\ c \in cs
      BY <1>0, <2>2 DEF NotDeleted
    <2>5. QED
      BY <1>1, <2>1, <2>2, <2>3, <2>4, SerialRows, SerialRowsNext
  <1>3. ASSUME NEW cs \in SUBSET Classes, BulkArchive(cs) PROVE Serial'
    <2>1. \A c \in Classes : /\ class'[c].status = class[c].status
                             /\ class'[c].deleted = class[c].deleted
      BY <1>0, <1>3 DEF BulkArchive
    <2>2. GuardStillHolds' /\ UNCHANGED enrollment
      BY <1>1, <1>3 DEF BulkArchive
    <2>3. QED
      BY <2>1, <2>2, SerialRows, SerialRowsNext
  <1>4. ASSUME UNCHANGED <<class, request>>,
               \A r \in Rows : /\ LiveRow(enrollment'[r]) => LiveRow(enrollment[r])
                               /\ EnrolledRow(enrollment'[r]) => EnrolledRow(enrollment[r])
        PROVE  Serial'
    BY <1>1, <1>4, SerialRows, SerialRowsNext
  <1>5. ASSUME NEW r \in Rows, DeleteEnrollment(r) PROVE Serial'
    <2>1. \A s \in Rows : /\ LiveRow(enrollment'[s]) => LiveRow(enrollment[s])
                          /\ EnrolledRow(enrollment'[s]) => EnrolledRow(enrollment[s])
      BY <1>0, <1>5 DEF DeleteEnrollment, LiveRow, EnrolledRow, RowType
    <2>2. QED
      BY <1>4, <1>5, <2>1 DEF DeleteEnrollment
  <1>6. ASSUME NEW u \in Users, DeactivateUser(u) PROVE Serial'
    <2> DEFINE S == RowsEnrolled(u)
    <2>1. (\A r \in S : Live(r)) /\ "Incomplete" \in EnrollmentStatus
      BY DEF RowsEnrolled, EnrollmentStatus
    <2>2. enrollment' = Updated(S, "Incomplete", NoStatus)
      BY <1>6 DEF DeactivateUser
    <2> HIDE DEF S
    <2>3. \A r \in Rows : /\ LiveRow(enrollment'[r]) => LiveRow(enrollment[r])
                          /\ EnrolledRow(enrollment'[r]) => EnrolledRow(enrollment[r])
      <3>1. \A r \in Rows :
               /\ LiveRow(Updated(S, "Incomplete", NoStatus)[r]) <=> LiveRow(enrollment[r])
               /\ r \notin S => Updated(S, "Incomplete", NoStatus)[r] = enrollment[r]
               /\ r \in S => ~EnrolledRow(Updated(S, "Incomplete", NoStatus)[r])
        BY <2>1, UpdatedRows
      <3>2. QED
        BY <2>2, <3>1
    <2>4. QED
      BY <1>4, <1>6, <2>3 DEF DeactivateUser
  <1>7. ASSUME NEW u \in Users, TransferResident(u) PROVE Serial'
    <2>1. \A r \in Rows : /\ LiveRow(enrollment'[r]) => LiveRow(enrollment[r])
                          /\ EnrolledRow(enrollment'[r]) => EnrolledRow(enrollment[r])
      BY <1>0, <1>7 DEF TransferResident, LiveRow, EnrolledRow, RowType
    <2>2. QED
      BY <1>4, <1>7, <2>1 DEF TransferResident
  <1>8. QED
    BY <1>2, <1>3, <1>5, <1>6, <1>7 DEF OneTransaction

\* The job runs between any two steps of the administrator.
LEMMA SerialJob ==
    ASSUME TypeOK, Serial, Middleware
    PROVE  Serial'
  <1>0. /\ enrollment \in [Rows -> RowType]
        /\ class \in [Classes -> [status : ClassStatus, archived : BOOLEAN,
                                  deleted : BOOLEAN, capacity : Capacities]]
        /\ \A a \in Admins : request[a] \in Request
        /\ GuardStillHolds
    BY DEF TypeOK, RowType, Serial
  <1>1. CASE UNCHANGED <<class, enrollment, request>>
    <2>1. GuardStillHolds'
      BY <1>0, <1>1 DEF GuardStillHolds, Live
    <2>2. QED
      BY <1>1, <2>1, SerialRows, SerialRowsNext
  <1>2. CASE JobActivate
    <2>1. \A r \in Rows : /\ LiveRow(enrollment'[r]) <=> LiveRow(enrollment[r])
                          /\ EnrolledRow(enrollment'[r]) <=> EnrolledRow(enrollment[r])
      BY <1>0, <1>2, BackfilledRows DEF JobActivate
    <2>2. \A c \in Classes : /\ class'[c].deleted = class[c].deleted
                             /\ class'[c].status \in {class[c].status, "Active"}
      BY <1>0, <1>2 DEF JobActivate, NotDeleted
    <2>3. "Active" \notin ClosedStatus /\ UNCHANGED request
      BY <1>2 DEF JobActivate, ClosedStatus
    <2>4. GuardStillHolds'
      <3> SUFFICES ASSUME NEW a \in Admins
                   PROVE  LET q == request[a] IN
                          /\ q.step \in {"EnrollOpen", "EnrollChecked", "EnrollCounted",
                                         "EnrollInsert", "UpdateOpen", "UpdateWrite",
                                         "EditOpen", "EditSized", "EditWrite"}
                               => /\ class'[q.class].status \notin ClosedStatus
                                  /\ ~class'[q.class].deleted
                          /\ q.step = "EditWrite" => q.original \notin ClosedStatus
                          /\ q.step = "DeleteOpen"
                               => \A r \in Rows : r[1] = q.class => ~LiveRow(enrollment'[r])
        BY <2>3 DEF GuardStillHolds, Live, LiveRow
      <3> DEFINE q == request[a]
      <3>1. q.step \in {"EnrollOpen", "EnrollChecked", "EnrollCounted", "EnrollInsert",
                        "UpdateOpen", "UpdateWrite", "EditOpen", "EditSized", "EditWrite"}
              => q.class \in Classes
        BY <1>0, RequestShape
      <3>2. q.step = "DeleteOpen" => \A r \in Rows : r[1] = q.class => ~LiveRow(enrollment[r])
        BY <1>0 DEF GuardStillHolds, Live, LiveRow
      <3>3. QED
        BY <1>0, <2>1, <2>2, <2>3, <3>1, <3>2 DEF GuardStillHolds
    <2>5. QED
      BY <2>1, <2>2, <2>3, <2>4, SerialRows, SerialRowsNext
  <1>3. QED
    BY <1>1, <1>2 DEF Middleware, JobQuery

\* With a single administrator at work, whatever the job does in between: closing a
\* class leaves nobody Enrolled in it, a deleted class has no enrollments, and the
\* checks of every handler still hold when it writes.  GuardStillHolds is the
\* strengthening that makes the first two inductive.
THEOREM LoneAdministrator ==
    ASSUME \A a, b \in Admins : a = b
    PROVE  Spec => [](NoEnrolledInClosedClass /\ DeletedClassEmpty /\ GuardStillHolds)
  <1>1. Init => Serial
    <2> SUFFICES ASSUME Init PROVE Serial
      OBVIOUS
    <2>1. \A r \in Rows : ~Live(r)
      BY DEF Init, Live, NoRow
    <2>2. GuardStillHolds
      BY DEF Init, GuardStillHolds, Idle
    <2>3. QED
      BY <2>1, <2>2 DEF Serial, NoEnrolledInClosedClass, DeletedClassEmpty, EnrolledRows
  <1>2. TypeOK /\ Serial /\ [Next]_vars => Serial'
    <2> SUFFICES ASSUME TypeOK, Serial, [Next]_vars PROVE Serial'
      OBVIOUS
    <2>1. CASE UNCHANGED vars
      BY <2>1 DEF vars, Serial, NoEnrolledInClosedClass, DeletedClassEmpty,
                  GuardStillHolds, EnrolledRows, Live
    <2>2. CASE Next
      BY <2>2, SerialEnroll, SerialUpdate, SerialEdit, SerialTransaction, SerialJob
         DEF Next
    <2>3. QED
      BY <2>1, <2>2
  <1>3. QED
    BY <1>1, <1>2, TypeCorrect, PTL DEF Spec, Serial

--------------------------------------------------------------------------------
(* One administrator at a time: what the rows of a resident say of him *)

\* A row of a resident with n completions of its class: it has no end while he is
\* Enrolled, and is not Completed without a completion.
SoundRow(row, n) ==
    /\ row.status = "Enrolled" => ~row.endedAt
    /\ row.status = "Completed" /\ ~row.deleted => n > 0

\* Every row is sound for the completions written.
SoundRows(rows, written) == \A r \in Rows : SoundRow(rows[r], written[<<r[1], r[2]>>])

\* What the handlers that change a status have read still holds when they write: who
\* is enrolled again was seen in a class that runs, and everyone who has a row was
\* found for a completion.
StatusReadsHold ==
    \A a \in Admins :
        LET q == request[a] IN
        /\ q.step = "UpdateOpen" /\ q.to = "Enrolled" => class[q.class].status # "Scheduled"
        /\ q.step = "UpdateWrite"
             => q.to # "Completed" /\ (q.to = "Enrolled" => q.seen \in {"Active", "Paused"})
        /\ q.step = "GraduateWrite"
             => \A r \in Rows : r[1] = q.class /\ r[2] \in q.users /\ Live(r)
                                  => r[2] \in q.found

Recorded == SoundRows(enrollment, completions) /\ StatusReadsHold

\* Sound rows are the two properties of the runs.
LEMMA RecordedRows ==
    SoundRows(enrollment, completions) <=> EnrolledNotEnded /\ CompletedHasRecord
  <1>1. ASSUME NEW r \in Rows
        PROVE  SoundRow(enrollment[r], completions[<<r[1], r[2]>>])
                 <=> /\ enrollment[r].status = "Enrolled" => ~enrollment[r].endedAt
                     /\ Live(r) /\ enrollment[r].status = "Completed"
                          => completions[r[1], r[2]] > 0
    BY DEF SoundRow, Live
  <1>2. QED
    BY <1>1 DEF SoundRows, EnrolledNotEnded, CompletedHasRecord

\* Completions are only ever added, and every Completed row of a class that is
\* completed gets one.
LEMMA CompletionsWritten ==
    ASSUME TypeOK, NEW rows \in [Rows -> RowType], NEW cs, NEW r \in Rows
    PROVE  LET p == <<r[1], r[2]>> IN
           /\ p \in Classes \X Users
           /\ completions[p] \in Nat /\ CompletionsFor(rows, cs)[p] \in Nat
           /\ CompletionsFor(rows, cs)[p] >= completions[p]
           /\ r[1] \in cs /\ rows[r].status = "Completed" /\ ~rows[r].deleted
                => CompletionsFor(rows, cs)[p] > 0
  <1> DEFINE p    == <<r[1], r[2]>>
             done == {n \in 1 .. MaxRows : /\ p[1] \in cs
                                           /\ rows[<<p[1], p[2], n>>].status = "Completed"
                                           /\ ~rows[<<p[1], p[2], n>>].deleted}
  <1>1. /\ r[1] \in Classes /\ r[2] \in Users /\ r[3] \in 1 .. MaxRows
        /\ r = <<r[1], r[2], r[3]>> /\ p[1] = r[1] /\ p[2] = r[2]
    BY DEF Rows
  <1>2. p \in Classes \X Users /\ completions[p] \in Nat
    BY <1>1, MaxCompletionsAssumption DEF TypeOK
  <1>3. r[1] \in cs /\ rows[r].status = "Completed" /\ ~rows[r].deleted => r[3] \in done
    BY <1>1
  <1>4. IsFiniteSet(done)
    <2>1. IsFiniteSet(1 .. MaxRows) /\ done \in SUBSET (1 .. MaxRows)
      BY MaxRowsAssumption, FS_Interval
    <2> HIDE DEF done
    <2>2. QED
      BY <2>1, FS_Subset
  <1>5. CompletionsFor(rows, cs)[p] = completions[p] + Cardinality(done)
    BY <1>2 DEF CompletionsFor
  <1> HIDE DEF p, done
  <1>6. Cardinality(done) \in Nat /\ (Cardinality(done) = 0 <=> done = {})
    BY <1>4, FS_CardinalityType, FS_EmptySet
  <1>7. QED
    BY <1>2, <1>3, <1>5, <1>6 DEF p

\* Every row changed by the hook to "to" is sound, if those Completed have completions
\* and those Enrolled again were seen in a class that runs.
LEMMA UpdatedSound ==
    ASSUME TypeOK, SoundRows(enrollment, completions),
           NEW S, NEW to \in EnrollmentStatus, NEW seen,
           to = "Enrolled" => seen \in {"Active", "Paused"},
           NEW written,
           \A r \in Rows : /\ written[<<r[1], r[2]>>] \in Nat
                           /\ written[<<r[1], r[2]>>] >= completions[<<r[1], r[2]>>],
           to = "Completed" =>
             \A r \in S \cap Rows : written[<<r[1], r[2]>>] > 0
    PROVE  SoundRows(Updated(S, to, seen), written)
  <1> SUFFICES ASSUME NEW r \in Rows
               PROVE  SoundRow(Updated(S, to, seen)[r], written[<<r[1], r[2]>>])
    BY DEF SoundRows
  <1>1. /\ enrollment[r] \in RowType /\ completions[<<r[1], r[2]>>] \in Nat
        /\ SoundRow(enrollment[r], completions[<<r[1], r[2]>>])
    BY MaxCompletionsAssumption DEF TypeOK, RowType, SoundRows, Rows
  <1>2. CASE r \notin S
    BY <1>1, <1>2 DEF Updated, SoundRow
  <1>3. CASE r \in S
    <2>1. Updated(S, to, seen)[r] = BeforeUpdate(enrollment[r], to, seen)
      BY <1>3 DEF Updated
    <2>2. /\ BeforeUpdate(enrollment[r], to, seen).status = to
          /\ to = "Enrolled" => ~BeforeUpdate(enrollment[r], to, seen).endedAt
      BY <1>1 DEF BeforeUpdate, RowType, TerminalEnrollment
    <2>3. QED
      BY <1>3, <2>1, <2>2 DEF SoundRow
  <1>4. QED
    BY <1>2, <1>3

\* Filling in a start leaves the rows sound.
LEMMA BackfilledSound ==
    ASSUME NEW rows \in [Rows -> RowType], NEW written, SoundRows(rows, written), NEW cs
    PROVE  SoundRows(Backfilled(rows, cs), written)
  BY DEF Backfilled, SoundRows, SoundRow, RowType

\* Closing classes, with a completion for everyone when they are completed.
LEMMA ClosingSound ==
    ASSUME TypeOK, SoundRows(enrollment, completions), NEW cs, NEW to \in ClassStatus,
           cs = {} \/ to \in ClosedStatus
    PROVE  SoundRows(Closing(cs, to),
                     CompletionsFor(Closing(cs, to), IF to = "Completed" THEN cs ELSE {}))
  <1> DEFINE rows    == Closing(cs, to)
             of      == IF to = "Completed" THEN cs ELSE {}
             written == CompletionsFor(rows, of)
             S       == UNION {EnrolledRows(c) : c \in cs}
  <1>1. CASE cs = {}
    <2>1. rows = enrollment
      BY <1>1, ClosingNothing
    <2>2. enrollment \in [Rows -> RowType]
      BY DEF TypeOK, RowType
    <2> HIDE DEF rows, of
    <2>3. \A r \in Rows : LET p == <<r[1], r[2]>> IN
             written[p] \in Nat /\ completions[p] \in Nat /\ written[p] >= completions[p]
      BY <2>1, <2>2, CompletionsWritten
    <2> HIDE DEF written
    <2>4. SoundRows(rows, written)
      <3>1. SUFFICES ASSUME NEW r \in Rows
                     PROVE  SoundRow(enrollment[r], written[<<r[1], r[2]>>])
        BY <2>1 DEF SoundRows
      <3>2. SoundRow(enrollment[r], completions[<<r[1], r[2]>>])
        BY DEF SoundRows
      <3>3. QED
        BY <2>3, <3>2 DEF SoundRow
    <2>5. QED
      BY <2>4 DEF written, of, rows
  <1>2. CASE to \in ClosedStatus
    <2>1. to \in EnrollmentStatus /\ to # "Enrolled"
      BY <1>2 DEF ClosedStatus, EnrollmentStatus
    <2>2. rows \in [Rows -> RowType] /\ rows = Updated(S, to, NoStatus)
      BY <2>1, HelperTypes DEF Closing
    <2>3. \A r \in S \cap Rows : r[1] \in cs /\ Live(r)
      BY DEF EnrolledRows
    <2> HIDE DEF rows, of, S
    <2>4. \A r \in Rows : LET p == <<r[1], r[2]>> IN
             /\ written[p] \in Nat /\ written[p] >= completions[p]
             /\ r[1] \in of /\ rows[r].status = "Completed" /\ ~rows[r].deleted => written[p] > 0
      BY <2>2, CompletionsWritten
    <2>5. ASSUME to = "Completed", NEW r \in S \cap Rows
          PROVE  rows[r].status = "Completed" /\ ~rows[r].deleted /\ r[1] \in of
      <3>1. rows[r] = BeforeUpdate(enrollment[r], to, NoStatus) /\ enrollment[r] \in RowType
        BY <2>2 DEF Updated, TypeOK, RowType
      <3>2. QED
        BY <2>3, <2>5, <3>1 DEF BeforeUpdate, RowType, Live, of
    <2> HIDE DEF written
    <2>6. SoundRows(Updated(S, to, NoStatus), written)
      BY <2>1, <2>4, <2>5, UpdatedSound
    <2>7. QED
      BY <2>2, <2>6 DEF written, of, rows
  <1>3. QED
    BY <1>1, <1>2

\* Every write leaves the rows sound, given what its handler has read.
LEMMA SoundStep ==
    ASSUME TypeOK, Recorded, [Next]_vars
    PROVE  SoundRows(enrollment, completions)'
  <1>0. /\ enrollment \in [Rows -> RowType] /\ SoundRows(enrollment, completions)
        /\ \A a \in Admins : request[a] \in Request
        /\ \A r \in Rows : completions[<<r[1], r[2]>>] \in Nat
    BY MaxCompletionsAssumption DEF TypeOK, RowType, Recorded, Rows
  <1>1. CASE UNCHANGED <<enrollment, completions>>
    BY <1>0, <1>1 DEF SoundRows
  <1>2. ASSUME \A r \in Rows : \/ enrollment'[r] = enrollment[r]
                               \/ enrollment'[r].status = "Enrolled" /\ ~enrollment'[r].endedAt
                               \/ enrollment'[r].status \notin {"Enrolled", "Completed"}
                               \/ /\ enrollment'[r].status = enrollment[r].status
                                  /\ enrollment'[r].endedAt = enrollment[r].endedAt
                                  /\ enrollment[r].deleted => enrollment'[r].deleted,
               UNCHANGED completions
        PROVE  SoundRows(enrollment, completions)'
    BY <1>0, <1>2 DEF SoundRows, SoundRow
  <1>3. ASSUME NEW a \in Admins, EnrollInsert(a) PROVE SoundRows(enrollment, completions)'
    BY <1>0, <1>2, <1>3 DEF EnrollInsert, BeforeCreate, NoRow
  <1>4. ASSUME NEW a \in Admins, UpdateWrite(a) PROVE SoundRows(enrollment, completions)'
    <2>1. /\ request[a].to \in EnrollmentStatus /\ request[a].to # "Completed"
          /\ request[a].to = "Enrolled" => request[a].seen \in {"Active", "Paused"}
      BY <1>0, <1>4, RequestShape DEF UpdateWrite, Recorded, StatusReadsHold
    <2>2. SoundRows(Updated(RowsOf(request[a].class, request[a].users), request[a].to,
                            request[a].seen), completions)
      BY <1>0, <2>1, UpdatedSound
    <2>3. QED
      BY <1>4, <2>2 DEF UpdateWrite, SoundRows
  <1>5. ASSUME NEW a \in Admins, GraduateWrite(a) PROVE SoundRows(enrollment, completions)'
    <2> DEFINE q == request[a]
               S == RowsOf(q.class, q.users)
               written == [p \in Classes \X Users |->
                             IF p[1] = q.class /\ p[2] \in q.found THEN completions[p] + 1
                                                                  ELSE completions[p]]
    <2>1. \A r \in S : r[1] = q.class /\ r[2] \in q.found
      BY <1>5 DEF GraduateWrite, RowsOf, Recorded, StatusReadsHold
    <2>2. \A r \in Rows : LET p == <<r[1], r[2]>> IN
             /\ written[p] \in Nat /\ written[p] >= completions[p]
             /\ r[1] = q.class /\ r[2] \in q.found => written[p] > 0
      <3>1. SUFFICES ASSUME NEW r \in Rows
                     PROVE  LET p == <<r[1], r[2]>> IN
                            /\ written[p] \in Nat /\ written[p] >= completions[p]
                            /\ r[1] = q.class /\ r[2] \in q.found => written[p] > 0
        OBVIOUS
      <3> DEFINE p == <<r[1], r[2]>>
      <3>2. p \in Classes \X Users /\ p[1] = r[1] /\ p[2] = r[2] /\ completions[p] \in Nat
        BY <1>0 DEF Rows
      <3> HIDE DEF p
      <3>3. written[p] = IF r[1] = q.class /\ r[2] \in q.found THEN completions[p] + 1
                                                               ELSE completions[p]
        BY <3>2
      <3>4. QED
        BY <3>2, <3>3 DEF p
    <2>3. enrollment' = Updated(S, "Completed", StatusSeen(q.class)) /\ completions' = written
      BY <1>5 DEF GraduateWrite
    <2>4. "Completed" \in EnrollmentStatus
      BY DEF EnrollmentStatus
    <2> HIDE DEF S, written
    <2>5. SoundRows(Updated(S, "Completed", StatusSeen(q.class)), written)
      BY <1>0, <2>1, <2>2, <2>4, UpdatedSound
    <2>6. QED
      BY <2>3, <2>5 DEF SoundRows
  <1>6. ASSUME NEW a \in Admins, DateWrite(a) PROVE SoundRows(enrollment, completions)'
    BY <1>0, <1>2, <1>6 DEF DateWrite, RowType
  <1>7. ASSUME NEW a \in Admins, EditWrite(a) PROVE SoundRows(enrollment, completions)'
    <2> DEFINE q      == request[a]
               new    == IF q.to = Keep THEN q.original ELSE q.to
               closes == new # q.original /\ new \in ClosedStatus
               cs     == IF closes THEN {q.class} ELSE {}
               ended  == Closing(cs, new)
    <2>1. new \in ClassStatus
      BY <1>0, <1>7, RequestShape DEF EditWrite
    <2>2. cs = {} \/ new \in ClosedStatus
      OBVIOUS
    <2>3. \/ UNCHANGED <<enrollment, completions>>
          \/ /\ enrollment' = ended
             /\ completions' = CompletionsFor(ended, IF new = "Completed" THEN cs ELSE {})
      BY <1>7 DEF EditWrite
    <2> HIDE DEF new, cs
    <2>4. SoundRows(ended, CompletionsFor(ended, IF new = "Completed" THEN cs ELSE {}))
      BY <1>0, <2>1, <2>2, ClosingSound
    <2>5. QED
      BY <1>1, <2>3, <2>4 DEF SoundRows
  <1>8. ASSUME NEW cs \in SUBSET Classes, NEW to \in ClassStatus, BulkSetStatus(cs, to)
        PROVE  SoundRows(enrollment, completions)'
    <2> DEFINE closed == IF to \in ClosedStatus THEN cs ELSE {}
               ended  == Closing(closed, to)
               of     == IF to = "Completed" THEN closed ELSE {}
               filled == IF to = "Active" THEN cs ELSE {}
    <2>1. closed = {} \/ to \in ClosedStatus
      OBVIOUS
    <2>2. of = IF to = "Completed" THEN cs ELSE {}
      BY DEF ClosedStatus
    <2>3. /\ enrollment' = Backfilled(ended, filled)
          /\ completions' = CompletionsFor(ended, of)
      BY <1>8, <2>2 DEF BulkSetStatus
    <2>4. ended \in [Rows -> RowType]
      <3>1. CASE to \in ClosedStatus
        BY <3>1, ClosingRows
      <3>2. CASE to \notin ClosedStatus
        BY <1>0, <3>2, ClosingNothing
      <3>3. QED
        BY <3>1, <3>2
    <2>5. SoundRows(ended, CompletionsFor(ended, of))
      <3> HIDE DEF closed
      <3>1. QED
        BY <1>0, <2>1, ClosingSound
    <2> HIDE DEF ended, of, filled
    <2>6. SoundRows(Backfilled(ended, filled), CompletionsFor(ended, of))
      BY <2>4, <2>5, BackfilledSound
    <2>7. QED
      BY <2>3, <2>6 DEF SoundRows
  <1>9. ASSUME NEW r \in Rows, DeleteEnrollment(r) PROVE SoundRows(enrollment, completions)'
    BY <1>0, <1>2, <1>9 DEF DeleteEnrollment, RowType
  <1>10. ASSUME NEW u \in Users, DeactivateUser(u) PROVE SoundRows(enrollment, completions)'
    <2>1. SoundRows(Updated(RowsEnrolled(u), "Incomplete", NoStatus), completions)
      BY <1>0, UpdatedSound DEF EnrollmentStatus
    <2>2. QED
      BY <1>10, <2>1 DEF DeactivateUser, SoundRows
  <1>11. ASSUME NEW u \in Users, TransferResident(u) PROVE SoundRows(enrollment, completions)'
    BY <1>0, <1>2, <1>11 DEF TransferResident, RowType
  <1>12. ASSUME JobActivate PROVE SoundRows(enrollment, completions)'
    BY <1>0, <1>12, BackfilledSound DEF JobActivate, SoundRows
  <1>13. QED
    <2>1. CASE Middleware
      BY <1>1, <1>12, <2>1 DEF Middleware, JobQuery
    <2>2. ASSUME NEW a \in Admins, Enroll(a) PROVE SoundRows(enrollment, completions)'
      BY <1>1, <1>3, <2>2 DEF Enroll, EnrollStart, EnrollCheck, EnrollCount, EnrollHook
    <2>3. ASSUME NEW a \in Admins, UpdateEnrollment(a) \/ ChangeDate(a)
          PROVE  SoundRows(enrollment, completions)'
      BY <1>1, <1>4, <1>5, <1>6, <2>3
         DEF UpdateEnrollment, ChangeDate, UpdateStart, UpdateHook, GraduateFind, DateStart
    <2>4. ASSUME NEW a \in Admins, EditClass(a) \/ DeleteClass(a)
          PROVE  SoundRows(enrollment, completions)'
      BY <1>1, <1>7, <2>4
         DEF EditClass, DeleteClass, EditStart, EditSize, EditRead, DeleteStart, DeleteWrite
    <2>5. ASSUME NEW a \in Admins, OneTransaction(a) PROVE SoundRows(enrollment, completions)'
      BY <1>1, <1>8, <1>9, <1>10, <1>11, <2>5 DEF OneTransaction, BulkArchive
    <2>6. QED
      BY <1>1, <2>1, <2>2, <2>3, <2>4, <2>5 DEF Next, vars

\* What a lone administrator's handler has read of a status still holds.
LEMMA StatusReadsStep ==
    ASSUME TypeOK, Serial, StatusReadsHold, \A a, b \in Admins : a = b, [Next]_vars
    PROVE  StatusReadsHold'
  <1>0. /\ \A a \in Admins : request[a] \in Request
        /\ enrollment \in [Rows -> RowType]
        /\ class \in [Classes -> [status : ClassStatus, archived : BOOLEAN,
                                  deleted : BOOLEAN, capacity : Capacities]]
        /\ GuardStillHolds
    BY DEF TypeOK, RowType, Serial
  <1>1. ASSUME NEW a \in Admins, NEW state \in Request, Become(a, state),
               state.step \notin {"UpdateOpen", "UpdateWrite", "GraduateWrite"}
        PROVE  StatusReadsHold'
    <2>1. \A b \in Admins : request'[b] = state
      BY <1>1 DEF Become, TypeOK
    <2>2. QED
      BY <1>1, <2>1 DEF StatusReadsHold
  <1>2. ASSUME NEW a \in Admins, Become(a, Idle) PROVE StatusReadsHold'
    BY <1>1, <1>2 DEF Request, Idle
  <1>3. ASSUME NEW a \in Admins, request[a] = Idle, UNCHANGED request PROVE StatusReadsHold'
    <2>1. \A b \in Admins : request'[b] = Idle
      BY <1>3
    <2>2. QED
      BY <2>1 DEF StatusReadsHold, Idle
  <1>4. ASSUME NEW a \in Admins, Enroll(a) PROVE StatusReadsHold'
    <2>1. \E state : Become(a, state) /\ state.step \notin {"UpdateOpen", "UpdateWrite", "GraduateWrite"}
      <3>1. Idle.step = "Idle"
        BY DEF Idle
      <3>2. CASE EnrollCheck(a)
        <4>1. [request[a] EXCEPT !.step = "EnrollChecked"].step = "EnrollChecked"
          BY <1>0, <3>2, RequestShape DEF EnrollCheck
        <4>2. QED
          BY <3>1, <3>2, <4>1 DEF EnrollCheck
      <3>3. CASE EnrollCount(a)
        BY <3>1, <3>3 DEF EnrollCount
      <3>4. CASE EnrollHook(a)
        BY <3>4 DEF EnrollHook
      <3>5. CASE EnrollInsert(a)
        BY <3>1, <3>5 DEF EnrollInsert
      <3>6. ASSUME NEW c \in Classes, NEW us \in SUBSET Users, EnrollStart(a, c, us)
            PROVE  \E state : /\ Become(a, state)
                              /\ state.step \notin {"UpdateOpen", "UpdateWrite", "GraduateWrite"}
        BY <3>6 DEF EnrollStart
      <3>7. QED
        BY <1>4, <3>2, <3>3, <3>4, <3>5, <3>6 DEF Enroll
    <2>2. PICK state : Become(a, state)
                         /\ state.step \notin {"UpdateOpen", "UpdateWrite", "GraduateWrite"}
      BY <2>1
    <2>3. \A b \in Admins : request'[b] = state
      BY <2>2 DEF Become, TypeOK
    <2>4. QED
      BY <2>2, <2>3 DEF StatusReadsHold
  <1>5. ASSUME NEW a \in Admins, UpdateEnrollment(a) \/ ChangeDate(a) PROVE StatusReadsHold'
    <2> DEFINE q == request[a]
    <2>0. q \in Request
      BY <1>0
    <2>1. ASSUME NEW c \in Classes, NEW us \in (SUBSET Users) \ {{}}, NEW to \in EnrollmentStatus,
                 UpdateStart(a, c, us, to)
          PROVE  StatusReadsHold'
      <3> DEFINE state == [step |-> "UpdateOpen", class |-> c, users |-> us, to |-> to]
      <3>1. \A b \in Admins : request'[b] = state
        BY <2>1 DEF UpdateStart, Become, TypeOK
      <3>2. to = "Enrolled" => class'[c].status # "Scheduled"
        BY <2>1 DEF UpdateStart, CannotUpdateClassWithEnrollment
      <3>3. state.step = "UpdateOpen" /\ state.class = c /\ state.to = to
        OBVIOUS
      <3> HIDE DEF state
      <3>4. QED
        BY <3>1, <3>2, <3>3 DEF StatusReadsHold
    <2>2. CASE UpdateHook(a)
      <3> DEFINE state == [step |-> "UpdateWrite", class |-> q.class, users |-> q.users,
                           to |-> q.to, seen |-> StatusSeen(q.class)]
      <3>1. \A b \in Admins : request'[b] = state
        BY <2>2 DEF UpdateHook, Become, TypeOK
      <3>2. /\ q.class \in Classes /\ q.to # "Completed"
            /\ class[q.class].status \notin ClosedStatus /\ ~class[q.class].deleted
            /\ q.to = "Enrolled" => class[q.class].status # "Scheduled"
        BY <1>0, <2>0, <2>2, RequestShape DEF UpdateHook, GuardStillHolds, StatusReadsHold
      <3>3. q.to = "Enrolled" => StatusSeen(q.class) \in {"Active", "Paused"}
        BY <1>0, <3>2 DEF StatusSeen, ClassStatus, ClosedStatus
      <3>4. state.step = "UpdateWrite" /\ state.to = q.to /\ state.seen = StatusSeen(q.class)
        OBVIOUS
      <3> HIDE DEF state
      <3>5. QED
        BY <3>1, <3>2, <3>3, <3>4 DEF StatusReadsHold
    <2>3. CASE GraduateFind(a)
      <3> DEFINE state == [step |-> "GraduateWrite", class |-> q.class, users |-> q.users,
                           found |-> {r[2] : r \in RowsOf(q.class, q.users)}]
      <3>1. Become(a, Idle) \/ Become(a, state)
        BY <2>3 DEF GraduateFind
      <3>2. /\ state.step = "GraduateWrite" /\ state.class = q.class /\ state.users = q.users
            /\ \A r \in Rows : r[1] = q.class /\ r[2] \in q.users /\ Live(r) => r[2] \in state.found
        BY DEF RowsOf
      <3> HIDE DEF state
      <3>3. ASSUME Become(a, state) PROVE StatusReadsHold'
        <4>1. \A b \in Admins : request'[b] = state
          BY <3>3 DEF Become, TypeOK
        <4>2. UNCHANGED enrollment
          BY <2>3 DEF GraduateFind
        <4>3. QED
          BY <3>2, <4>1, <4>2 DEF StatusReadsHold, Live
      <3>4. QED
        BY <1>2, <3>1, <3>3
    <2>4. ASSUME NEW c \in Classes, DateStart(a, c) PROVE StatusReadsHold'
      BY <1>1, <2>4 DEF DateStart, Request
    <2>5. QED
      BY <1>2, <1>5, <2>1, <2>2, <2>3, <2>4
         DEF UpdateEnrollment, ChangeDate, UpdateWrite, GraduateWrite, DateWrite
  <1>6. ASSUME NEW a \in Admins, EditClass(a) \/ DeleteClass(a) PROVE StatusReadsHold'
    <2>1. \E state : Become(a, state) /\ state.step \notin {"UpdateOpen", "UpdateWrite", "GraduateWrite"}
      <3>1. Idle.step = "Idle"
        BY DEF Idle
      <3>2. CASE EditSize(a)
        <4>1. [request[a] EXCEPT !.step = "EditSized"].step = "EditSized"
          BY <1>0, <3>2, RequestShape DEF EditSize
        <4>2. QED
          BY <3>1, <3>2, <4>1 DEF EditSize
      <3>3. CASE EditRead(a)
        BY <3>1, <3>3 DEF EditRead
      <3>4. CASE EditWrite(a) \/ DeleteWrite(a)
        BY <3>1, <3>4 DEF EditWrite, DeleteWrite
      <3>5. ASSUME NEW c \in Classes, NEW to, NEW cap, EditStart(a, c, to, cap)
            PROVE  \E state : /\ Become(a, state)
                              /\ state.step \notin {"UpdateOpen", "UpdateWrite", "GraduateWrite"}
        BY <3>5 DEF EditStart
      <3>6. ASSUME NEW c \in Classes, DeleteStart(a, c)
            PROVE  \E state : /\ Become(a, state)
                              /\ state.step \notin {"UpdateOpen", "UpdateWrite", "GraduateWrite"}
        BY <3>6 DEF DeleteStart
      <3>7. QED
        BY <1>6, <3>2, <3>3, <3>4, <3>5, <3>6 DEF EditClass, DeleteClass
    <2>2. PICK state : Become(a, state)
                         /\ state.step \notin {"UpdateOpen", "UpdateWrite", "GraduateWrite"}
      BY <2>1
    <2>3. \A b \in Admins : request'[b] = state
      BY <2>2 DEF Become, TypeOK
    <2>4. QED
      BY <2>2, <2>3 DEF StatusReadsHold
  <1>7. ASSUME NEW a \in Admins, OneTransaction(a) PROVE StatusReadsHold'
    BY <1>3, <1>7
       DEF OneTransaction, BulkSetStatus, BulkArchive, DeleteEnrollment, DeactivateUser,
           TransferResident
  <1>8. ASSUME Middleware PROVE StatusReadsHold'
    <2>1. /\ UNCHANGED request
          /\ \A c \in Classes : class'[c].status \in {class[c].status, "Active"}
      BY <1>0, <1>8 DEF Middleware, JobQuery, JobActivate
    <2>2. \A r \in Rows : Live(r)' <=> Live(r)
      <3>1. CASE UNCHANGED enrollment
        BY <3>1 DEF Live
      <3>2. CASE enrollment' = Backfilled(enrollment, job.ids)
        BY <1>0, <3>2, BackfilledRows DEF Live, LiveRow
      <3>3. QED
        BY <1>8, <3>1, <3>2 DEF Middleware, JobQuery, JobActivate
    <2>3. SUFFICES ASSUME NEW a \in Admins
                   PROVE  LET q == request[a] IN
                          /\ q.step = "UpdateOpen" /\ q.to = "Enrolled"
                               => class'[q.class].status # "Scheduled"
                          /\ q.step = "UpdateWrite"
                               => /\ q.to # "Completed"
                                  /\ q.to = "Enrolled" => q.seen \in {"Active", "Paused"}
                          /\ q.step = "GraduateWrite"
                               => \A r \in Rows : r[1] = q.class /\ r[2] \in q.users /\ Live(r)
                                                    => r[2] \in q.found
      BY <2>1, <2>2 DEF StatusReadsHold
    <2>4. request[a].step = "UpdateOpen" => request[a].class \in Classes
      BY <1>0, RequestShape
    <2>5. QED
      BY <2>1, <2>4 DEF StatusReadsHold
  <1>9. CASE UNCHANGED vars
    BY <1>9 DEF vars, StatusReadsHold, Live
  <1>10. QED
    BY <1>4, <1>5, <1>6, <1>7, <1>8, <1>9 DEF Next

\* With a single administrator at work, whatever the job does in between: nobody who is
\* Enrolled has an end date, however often his row was ended and enrolled again, and
\* everybody marked Completed has a completion, whether he graduated alone or with his
\* class (BeforeUpdate, GraduateEnrollments, UpdateClasses, UpdateProgramClass).
THEOREM LoneAdministratorRecords ==
    ASSUME \A a, b \in Admins : a = b
    PROVE  Spec => [](EnrolledNotEnded /\ CompletedHasRecord)
  <1>1. Init => Recorded
    <2> SUFFICES ASSUME Init PROVE Recorded
      OBVIOUS
    <2>1. \A r \in Rows : enrollment[r].status = "None"
      BY DEF Init, NoRow
    <2>2. StatusReadsHold
      BY DEF Init, StatusReadsHold, Idle
    <2>3. QED
      BY <2>1, <2>2 DEF Recorded, SoundRows, SoundRow
  <1>2. TypeOK /\ Serial /\ Recorded /\ [Next]_vars => Recorded'
    BY SoundStep, StatusReadsStep DEF Recorded
  <1>3. Recorded => EnrolledNotEnded /\ CompletedHasRecord
    BY RecordedRows DEF Recorded
  <1>4. Spec => []Serial
    BY LoneAdministrator DEF Serial
  <1>5. QED
    BY <1>1, <1>2, <1>3, <1>4, TypeCorrect, PTL DEF Spec

\* The parts of the two, each by its name: a deleted class has no enrollments (the guard
\* of handleDeleteClass),
THEOREM LoneDeletedClassEmpty ==
    ASSUME \A a, b \in Admins : a = b
    PROVE  Spec => []DeletedClassEmpty
  BY LoneAdministrator, PTL

\* what a handler has checked still holds when it writes,
THEOREM LoneGuardStillHolds ==
    ASSUME \A a, b \in Admins : a = b
    PROVE  Spec => []GuardStillHolds
  BY LoneAdministrator, PTL

\* nobody who is Enrolled has an end date,
THEOREM LoneEnrolledNotEnded ==
    ASSUME \A a, b \in Admins : a = b
    PROVE  Spec => []EnrolledNotEnded
  BY LoneAdministratorRecords, PTL

\* and nobody is Completed without a completion.
THEOREM LoneCompletedHasRecord ==
    ASSUME \A a, b \in Admins : a = b
    PROVE  Spec => []CompletedHasRecord
  BY LoneAdministratorRecords, PTL

--------------------------------------------------------------------------------
(* One administrator at a time: the seats of a class *)

\* The seats an enrolling handler has counted are still free.
SeatsReadHold ==
    \A a \in Admins, c \in Classes :
        /\ request[a].step = "EnrollCounted" /\ request[a].class = c
             => request[a].available <= Available(c)
        /\ request[a].step = "EnrollInsert" /\ request[a].class = c
             => Cardinality(request[a].users) <= Available(c)

\* Neither the job nor a request that only reads takes a seat.
LEMMA SeatsKept ==
    ASSUME TypeOK, NEW c \in Classes, class'[c].capacity = class[c].capacity,
           \A r \in Rows : enrollment'[r].status = enrollment[r].status
    PROVE  Available(c)' = Available(c)
  <1>1. Taken(c)' = Taken(c)
    BY DEF Taken
  <1>2. QED
    BY <1>1 DEF Available, Taken

\* The seats left depend on the class and the enrollments alone.
LEMMA SeatsSame ==
    ASSUME class' = class, enrollment' = enrollment
    PROVE  \A c \in Classes : Available(c)' = Available(c)
  <1>1. SUFFICES ASSUME NEW c \in Classes PROVE Available(c)' = Available(c)
    OBVIOUS
  <1>2. QED
    BY DEF Available

\* The residents of a request are finitely many.
LEMMA UsersCounted ==
    ASSUME NEW us \in SUBSET Users
    PROVE  IsFiniteSet(us) /\ Cardinality(us) \in Nat
  BY UsersAssumption, FS_Subset, FS_CardinalityType

\* What a lone administrator's handler has counted is still there when it inserts.
LEMMA SeatsReadStep ==
    ASSUME TypeOK, SeatsReadHold, \A a, b \in Admins : a = b, [Next]_vars
    PROVE  SeatsReadHold'
  <1>0. /\ \A a \in Admins : request[a] \in Request
        /\ enrollment \in [Rows -> RowType]
        /\ class \in [Classes -> [status : ClassStatus, archived : BOOLEAN,
                                  deleted : BOOLEAN, capacity : Capacities]]
    BY DEF TypeOK, RowType
  <1>1. ASSUME NEW a \in Admins, NEW state, Become(a, state),
               state.step \notin {"EnrollCounted", "EnrollInsert"}
        PROVE  SeatsReadHold'
    <2>1. \A b \in Admins : request'[b] = state
      BY <1>1 DEF Become, TypeOK
    <2>2. QED
      BY <1>1, <2>1 DEF SeatsReadHold
  <1>2. Idle.step = "Idle"
    BY DEF Idle
  <1>3. ASSUME NEW a \in Admins, EnrollCheck(a) PROVE SeatsReadHold'
    <2>1. [request[a] EXCEPT !.step = "EnrollChecked"].step = "EnrollChecked"
      BY <1>0, <1>3, RequestShape DEF EnrollCheck
    <2>2. QED
      BY <1>1, <1>2, <1>3, <2>1 DEF EnrollCheck
  <1>4. ASSUME NEW a \in Admins, EnrollCount(a) PROVE SeatsReadHold'
    <2> DEFINE q     == request[a]
               state == [step |-> "EnrollCounted", class |-> q.class, users |-> q.users,
                         available |-> Available(q.class)]
    <2>1. q.class \in Classes
      BY <1>0, <1>4, RequestShape DEF EnrollCount
    <2>2. UNCHANGED <<class, enrollment>>
      BY <1>4 DEF EnrollCount
    <2>3. Become(a, Idle) \/ Become(a, state)
      BY <1>4 DEF EnrollCount
    <2>4. ASSUME Become(a, state) PROVE SeatsReadHold'
      <3>1. \A b \in Admins : request'[b] = state
        BY <2>4 DEF Become, TypeOK
      <3>2. \A c \in Classes : Available(c)' = Available(c) /\ Available(c) \in Int
        BY <2>2, SeatsSame, SeatsCounted
      <3>3. /\ state.step = "EnrollCounted" /\ state.class = q.class
            /\ state.available = Available(q.class)
        OBVIOUS
      <3> HIDE DEF state
      <3>4. QED
        BY <2>1, <3>1, <3>2, <3>3 DEF SeatsReadHold
    <2>5. QED
      BY <1>1, <1>2, <2>3, <2>4
  <1>5. ASSUME NEW a \in Admins, EnrollHook(a) PROVE SeatsReadHold'
    <2> DEFINE q == request[a]
    <2>1. PICK us \in SUBSET q.users :
             /\ \/ us = q.users /\ Cardinality(us) <= q.available
                \/ Cardinality(us) = q.available
             /\ Become(a, [step |-> "EnrollInsert", class |-> q.class, users |-> us,
                           seen |-> StatusSeen(q.class)])
      BY <1>5 DEF EnrollHook
    <2>2. q.class \in Classes /\ q.users \in SUBSET Users /\ q.available \in Nat
      BY <1>0, <1>5, RequestShape DEF EnrollHook
    <2>3. /\ UNCHANGED <<class, enrollment>> /\ q.available <= Available(q.class)
          /\ Available(q.class) \in Int /\ Cardinality(us) \in Nat
      BY <1>5, <2>2, SeatsCounted, UsersCounted DEF EnrollHook, SeatsReadHold
    <2>4. Cardinality(us) <= Available(q.class)
      BY <2>1, <2>2, <2>3
    <2>5. \A b \in Admins : /\ request'[b].step = "EnrollInsert" /\ request'[b].class = q.class
                            /\ request'[b].users = us
      BY <2>1 DEF Become, TypeOK
    <2>6. \A c \in Classes : Available(c)' = Available(c)
      BY <2>3, SeatsSame
    <2>7. QED
      BY <2>2, <2>4, <2>5, <2>6 DEF SeatsReadHold
  <1>6. ASSUME NEW a \in Admins, Enroll(a) PROVE SeatsReadHold'
    <2>1. CASE EnrollInsert(a)
      BY <1>1, <1>2, <2>1 DEF EnrollInsert
    <2>2. ASSUME NEW c \in Classes, NEW us \in SUBSET Users, EnrollStart(a, c, us)
          PROVE  SeatsReadHold'
      BY <1>1, <2>2 DEF EnrollStart
    <2>3. QED
      BY <1>3, <1>4, <1>5, <1>6, <2>1, <2>2 DEF Enroll
  <1>7. ASSUME NEW a \in Admins, UpdateEnrollment(a) \/ ChangeDate(a) PROVE SeatsReadHold'
    <2>1. CASE UpdateWrite(a) \/ GraduateWrite(a) \/ DateWrite(a)
      BY <1>1, <1>2, <2>1 DEF UpdateWrite, GraduateWrite, DateWrite
    <2>2. CASE UpdateHook(a)
      BY <1>1, <2>2 DEF UpdateHook
    <2>3. CASE GraduateFind(a)
      BY <1>1, <1>2, <2>3 DEF GraduateFind
    <2>4. ASSUME NEW c \in Classes, NEW us, NEW to, UpdateStart(a, c, us, to)
          PROVE  SeatsReadHold'
      BY <1>1, <2>4 DEF UpdateStart
    <2>5. ASSUME NEW c \in Classes, DateStart(a, c) PROVE SeatsReadHold'
      BY <1>1, <2>5 DEF DateStart
    <2>6. QED
      BY <1>7, <2>1, <2>2, <2>3, <2>4, <2>5 DEF UpdateEnrollment, ChangeDate
  <1>8. ASSUME NEW a \in Admins, EditClass(a) \/ DeleteClass(a) PROVE SeatsReadHold'
    <2>1. CASE EditSize(a)
      <3>1. [request[a] EXCEPT !.step = "EditSized"].step = "EditSized"
        BY <1>0, <2>1, RequestShape DEF EditSize
      <3>2. QED
        BY <1>1, <1>2, <2>1, <3>1 DEF EditSize
    <2>2. CASE EditRead(a)
      BY <1>1, <1>2, <2>2 DEF EditRead
    <2>3. CASE EditWrite(a) \/ DeleteWrite(a)
      BY <1>1, <1>2, <2>3 DEF EditWrite, DeleteWrite
    <2>4. ASSUME NEW c \in Classes, NEW to, NEW cap, EditStart(a, c, to, cap)
          PROVE  SeatsReadHold'
      BY <1>1, <2>4 DEF EditStart
    <2>5. ASSUME NEW c \in Classes, DeleteStart(a, c) PROVE SeatsReadHold'
      BY <1>1, <2>5 DEF DeleteStart
    <2>6. QED
      BY <1>8, <2>1, <2>2, <2>3, <2>4, <2>5 DEF EditClass, DeleteClass
  <1>9. ASSUME NEW a \in Admins, OneTransaction(a) PROVE SeatsReadHold'
    <2>1. \A b \in Admins : request'[b] = Idle
      BY <1>9
         DEF OneTransaction, BulkSetStatus, BulkArchive, DeleteEnrollment, DeactivateUser,
             TransferResident
    <2>2. QED
      BY <1>2, <2>1 DEF SeatsReadHold
  <1>10. ASSUME Middleware PROVE SeatsReadHold'
    <2>1. UNCHANGED request /\ \A c \in Classes : class'[c].capacity = class[c].capacity
      BY <1>0, <1>10 DEF Middleware, JobQuery, JobActivate
    <2>2. \A r \in Rows : enrollment'[r].status = enrollment[r].status
      <3>1. \A cs : \A r \in Rows : Backfilled(enrollment, cs)[r].status = enrollment[r].status
        BY <1>0 DEF Backfilled, RowType
      <3>2. QED
        BY <1>10, <3>1 DEF Middleware, JobQuery, JobActivate
    <2>3. \A c \in Classes : Available(c)' = Available(c)
      BY <2>1, <2>2, SeatsKept
    <2>4. QED
      BY <2>1, <2>3 DEF SeatsReadHold
  <1>11. CASE UNCHANGED vars
    BY <1>11, SeatsSame DEF vars, SeatsReadHold
  <1>12. QED
    BY <1>6, <1>7, <1>8, <1>9, <1>10, <1>11 DEF Next

\* An insert takes one seat for each of its residents.
LEMMA InsertSeats ==
    ASSUME TypeOK, SeatsReadHold, NEW a \in Admins, EnrollInsert(a),
           NEW c \in Classes, request[a].class = c
    PROVE  Cardinality(EnrolledRows(c)') <= class'[c].capacity
  <1> DEFINE us  == request[a].users
             new == {<<c, u, FreeRow(c, u)>> : u \in us}
             row == [u \in us |-> <<c, u, FreeRow(c, u)>>]
  <1>1. us \in SUBSET Users
    BY RequestShape DEF TypeOK, EnrollInsert
  <1>2. /\ IsFiniteSet(us) /\ Cardinality(us) \in Nat /\ Cardinality(us) <= Available(c)
        /\ IsFiniteSet(Taken(c)) /\ Cardinality(Taken(c)) \in Nat
        /\ Available(c) = class[c].capacity - Cardinality(Taken(c))
        /\ class[c].capacity \in Nat /\ class'[c].capacity = class[c].capacity
    BY <1>1, UsersCounted, SeatsCounted DEF EnrollInsert, SeatsReadHold
  <1>3. row \in Surjection(us, new)
    BY DEF Surjection
  <1>4. IsFiniteSet(new) /\ Cardinality(new) \in Nat /\ Cardinality(new) <= Cardinality(us)
    <2> HIDE DEF us, new, row
    <2>1. QED
      BY <1>2, <1>3, FS_Surjection, FS_CardinalityType
  <1>5. EnrolledRows(c)' \in SUBSET (Taken(c) \cup new)
    <2>1. SUFFICES ASSUME NEW r \in Rows, r[1] = c, enrollment'[r].status = "Enrolled"
                   PROVE  r \in Taken(c) \cup new
      BY DEF EnrolledRows
    <2>2. CASE enrollment'[r] = enrollment[r] /\ r[1] = c
      BY <2>1, <2>2 DEF Taken
    <2>3. CASE r[1] = c /\ r[2] \in us /\ r[3] = FreeRow(c, r[2])
      <3>1. r = <<r[1], r[2], r[3]>>
        BY DEF Rows
      <3>2. QED
        BY <2>3, <3>1
    <2>4. QED
      BY <2>1, <2>2, <2>3 DEF EnrollInsert
  <1> HIDE DEF us, new, row
  <1>6. /\ IsFiniteSet(Taken(c) \cup new)
        /\ Cardinality(Taken(c) \cup new) <= Cardinality(Taken(c)) + Cardinality(new)
    <2>1. Taken(c) \cap new \in SUBSET new
      OBVIOUS
    <2>2. Cardinality(Taken(c) \cap new) \in Nat
      BY <1>4, <2>1, FS_Subset, FS_CardinalityType
    <2>3. /\ IsFiniteSet(Taken(c) \cup new)
          /\ Cardinality(Taken(c) \cup new)
               = Cardinality(Taken(c)) + Cardinality(new) - Cardinality(Taken(c) \cap new)
      BY <1>2, <1>4, FS_Union
    <2>4. QED
      BY <1>2, <1>4, <2>2, <2>3
  <1>7. /\ Cardinality(EnrolledRows(c)') \in Nat /\ Cardinality(Taken(c) \cup new) \in Nat
        /\ Cardinality(EnrolledRows(c)') <= Cardinality(Taken(c) \cup new)
    BY <1>5, <1>6, FS_Subset, FS_CardinalityType
  <1>8. QED
    BY <1>2, <1>4, <1>6, <1>7

\* With a single administrator at work, whatever the job does in between, enrolling never
\* takes a class over its capacity: the seats counted before the insert are still free
\* (CreateProgramClassEnrollments).
THEOREM LoneSeatsRespected ==
    ASSUME \A a, b \in Admins : a = b
    PROVE  Spec => SeatsRespected
  <1>1. Init => SeatsReadHold
    BY DEF Init, SeatsReadHold, Idle
  <1>2. TypeOK /\ SeatsReadHold /\ [Next]_vars => SeatsReadHold'
    BY SeatsReadStep
  <1>3. TypeOK /\ SeatsReadHold /\ [Next]_vars
          => [\A a \in Admins, c \in Classes :
                /\ request[a].step = "EnrollInsert" /\ request[a].class = c
                /\ request[a].users # {} /\ request'[a] = Idle
                => Cardinality(EnrolledRows(c)') <= class'[c].capacity]_vars
    <2> SUFFICES ASSUME TypeOK, SeatsReadHold, Next, NEW a \in Admins, NEW c \in Classes,
                        request[a].step = "EnrollInsert", request[a].class = c,
                        request'[a] = Idle
                 PROVE  Cardinality(EnrolledRows(c)') <= class'[c].capacity
      OBVIOUS
    <2>1. Idle.step = "Idle"
      BY DEF Idle
    <2>2. EnrollInsert(a)
      <3>1. ~Middleware
        BY <2>1 DEF Middleware, JobQuery, JobActivate
      <3>2. Enroll(a) \/ UpdateEnrollment(a) \/ ChangeDate(a) \/ EditClass(a)
              \/ DeleteClass(a) \/ OneTransaction(a)
        BY <3>1 DEF Next
      <3>3. QED
        BY <2>1, <3>2
           DEF Enroll, EnrollStart, EnrollCheck, EnrollCount, EnrollHook,
               UpdateEnrollment, UpdateStart, UpdateHook, UpdateWrite, GraduateFind,
               GraduateWrite, ChangeDate, DateStart, DateWrite, EditClass, EditStart, EditSize,
               EditRead, EditWrite, DeleteClass, DeleteStart, DeleteWrite, OneTransaction
    <2>3. QED
      BY <2>2, InsertSeats
  <1>4. QED
    BY <1>1, <1>2, <1>3, TypeCorrect, PTL DEF Spec, SeatsRespected

================================================================================

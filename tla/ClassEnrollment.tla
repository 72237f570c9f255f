---------------------------- MODULE ClassEnrollment ----------------------------
(******************************************************************************)
(* The life of a program class and of the enrollments in it, as administrators *)
(* change them through the HTTP handlers and the provider middleware through   *)
(* its daily activation job.                                                   *)
(*                                                                             *)
(* The handlers hold no lock and, except inside one database function, no      *)
(* transaction: a handler reads the class, decides, and writes later.  Every   *)
(* database call is a step of its own, so that other requests may run between  *)
(* the read a decision rests on and the write.  A transaction whose reads are  *)
(* covered by the row locks of its own writes is one step, taken at its commit *)
(* (Postgres READ COMMITTED); a hook or query that reads without a lock before *)
(* the write is a step apart.                                                  *)
(******************************************************************************)
EXTENDS Integers, FiniteSets

CONSTANTS Classes,        \* program_classes rows that exist at the start
          Users,          \* residents
          Admins,         \* concurrent administrator requests
          Capacities,     \* capacities an administrator may give a class
          MaxRows,        \* bound: enrollment rows of one resident in one class
          MaxCompletions  \* bound: program_completions rows per resident and class

ASSUME CapacitiesAssumption == Capacities \subseteq Nat \ {0}
ASSUME MaxRowsAssumption == MaxRows \in Nat \ {0}
ASSUME MaxCompletionsAssumption == MaxCompletions \in Nat
ASSUME UsersAssumption == IsFiniteSet(Users)

VARIABLES class,        \* class[c]: the program_classes row of c
          enrollment,   \* enrollment[r]: the program_class_enrollments row r
          completions,  \* completions[c, u]: number of program_completions rows
          deactivated,  \* residents whose account is deactivated
          request,      \* request[a]: what administrator request a has read so far
          job           \* what the activation job of the middleware has read so far

vars == <<class, enrollment, completions, deactivated, request, job>>

ClassStatus == {"Scheduled", "Active", "Paused", "Completed", "Cancelled"}
ClosedStatus == {"Completed", "Cancelled"}

\* The "Incomplete: ..." statuses behave alike and are one value, except
\* "Incomplete: Transferred", which a transfer writes on a path of its own.
EnrollmentStatus == {"Enrolled", "Cancelled", "Completed", "Incomplete", "Transferred"}
TerminalEnrollment == EnrollmentStatus \ {"Enrolled"}

Keep == "Keep"            \* the request body has no status
NoStatus == "NoStatus"    \* what a query for the status of a deleted class scans

\* The table has no uniqueness on (class, user): a resident can have several rows.
Rows == Classes \X Users \X (1 .. MaxRows)
NoRow == [status |-> "None", enrolledAt |-> FALSE, endedAt |-> FALSE, deleted |-> FALSE]

--------------------------------------------------------------------------------
(* Rows, counts and guards *)

Live(r) == enrollment[r].status # "None" /\ ~enrollment[r].deleted
RowsOf(c, us) == {r \in Rows : r[1] = c /\ r[2] \in us /\ Live(r)}
EnrolledRows(c) == {r \in Rows : r[1] = c /\ enrollment[r].status = "Enrolled" /\ Live(r)}

\* Mutant of Available: every row is counted as a seat only when it has a start.
AvailableM(c) ==
    class[c].capacity
      - Cardinality({r \in Rows : /\ r[1] = c /\ enrollment[r].status = "Enrolled"
                                  /\ enrollment[r].enrolledAt})

\* The capacity query is raw SQL: it also counts soft-deleted Enrolled rows.
Available(c) ==
    class[c].capacity
      - Cardinality({r \in Rows : r[1] = c /\ enrollment[r].status = "Enrolled"})

\* Mutant of CannotUpdateClass: a cancelled class may still be worked on.
CannotUpdateClassM(c) == class[c].status = "Completed" \/ class[c].archived

CannotUpdateClass(c) == class[c].status \in ClosedStatus \/ class[c].archived

CannotUpdateClassWithEnrollment(c, to) ==
    \/ CannotUpdateClass(c)
    \/ class[c].status = "Scheduled" /\ to # "Cancelled"
    \/ class[c].status = "Active" /\ to = "Cancelled"

\* The status a hook reads: soft-deleted classes are filtered out of the query.
StatusSeen(c) == IF class[c].deleted THEN NoStatus ELSE class[c].status

\* A new row: enrolled_at is set only when the hook saw the class Active.
BeforeCreate(seen) == [NoRow EXCEPT !.status = "Enrolled", !.enrolledAt = (seen = "Active")]

\* Mutant of BeforeUpdate: reactivation in a Paused class keeps the old end.
BeforeUpdateClearM(row, to, seen) ==
    [row EXCEPT
       !.status = to,
       !.enrolledAt = @ \/ (to = "Enrolled" /\ seen = "Active"),
       !.endedAt = \/ to \in TerminalEnrollment
                   \/ @ /\ ~(to = "Enrolled" /\ seen = "Active")]

\* A status change: the stamps follow the new status and the class status seen.  The end
\* is stamped whatever the class is, though the comment above the hook says "while class is
\* Active|Paused" (models/program_classes.go:178): a deactivation gives the hook no class.
BeforeUpdate(row, to, seen) ==
    [row EXCEPT
       !.status = to,
       !.enrolledAt = @ \/ (to = "Enrolled" /\ seen = "Active"),
       !.endedAt = \/ to \in TerminalEnrollment
                   \/ @ /\ ~(to = "Enrolled" /\ seen \in {"Active", "Paused"})]

\* The rows of S changed by the hooked update to status "to".
Updated(S, to, seen) ==
    [r \in Rows |-> IF r \in S THEN BeforeUpdate(enrollment[r], to, seen) ELSE enrollment[r]]

\* Mutant of Closing: a plain update of the status column, as a transfer has it.
ClosingM(cs, to) ==
    [r \in Rows |-> IF r[1] \in cs /\ r \in EnrolledRows(r[1])
                    THEN [enrollment[r] EXCEPT !.status = to]
                    ELSE enrollment[r]]

\* Closing the classes cs ends every Enrolled row of theirs; cs may be empty.
Closing(cs, to) == Updated(UNION {EnrolledRows(c) : c \in cs}, to, NoStatus)

\* ProgramClass.AfterUpdate: enrolled_at of the Enrolled rows of cs is filled in.
Backfilled(rows, cs) ==
    [r \in Rows |-> IF r[1] \in cs /\ rows[r].status = "Enrolled" /\ ~rows[r].deleted
                    THEN [rows[r] EXCEPT !.enrolledAt = TRUE]
                    ELSE rows[r]]

\* Mutant of CompletionsFor: the rows are fetched before the update that closes them.
CompletionsForM(rows, cs) ==
    [p \in Classes \X Users |->
        completions[p] + Cardinality({n \in 1 .. MaxRows :
                              /\ p[1] \in cs
                              /\ enrollment[<<p[1], p[2], n>>].status = "Completed"
                              /\ ~enrollment[<<p[1], p[2], n>>].deleted})]

\* One program_completions row for every Completed row of the classes cs.
CompletionsFor(rows, cs) ==
    [p \in Classes \X Users |->
        completions[p] + Cardinality({n \in 1 .. MaxRows :
                              /\ p[1] \in cs
                              /\ rows[<<p[1], p[2], n>>].status = "Completed"
                              /\ ~rows[<<p[1], p[2], n>>].deleted})]

\* Each completion reads the preloaded class of its row: nil once it is deleted.
ClassMissing(rows, cs) ==
    \E r \in Rows : /\ r[1] \in cs /\ class[r[1]].deleted
                   /\ rows[r].status = "Completed" /\ ~rows[r].deleted

WithinCompletionBound == \A p \in Classes \X Users : completions'[p] <= MaxCompletions

--------------------------------------------------------------------------------
(* Request states *)

Idle == [step |-> "Idle"]

Request ==
    {Idle}
    \cup [step : {"EnrollOpen", "EnrollChecked"}, class : Classes, users : SUBSET Users]
    \cup [step : {"EnrollCounted"}, class : Classes, users : SUBSET Users,
          available : Nat \ {0}]
    \cup [step : {"EnrollInsert"}, class : Classes, users : SUBSET Users,
          seen : ClassStatus \cup {NoStatus}]
    \cup [step : {"UpdateOpen"}, class : Classes, users : SUBSET Users,
          to : EnrollmentStatus]
    \cup [step : {"UpdateWrite"}, class : Classes, users : SUBSET Users,
          to : EnrollmentStatus, seen : ClassStatus \cup {NoStatus}]
    \cup [step : {"GraduateWrite"}, class : Classes, users : SUBSET Users,
          found : SUBSET Users]
    \cup [step : {"DateOpen"}, class : Classes]
    \cup [step : {"EditOpen", "EditSized"}, class : Classes,
          to : ClassStatus \cup {Keep}, capacity : Capacities]
    \cup [step : {"EditWrite"}, class : Classes, to : ClassStatus \cup {Keep},
          capacity : Capacities, original : ClassStatus]
    \cup [step : {"DeleteOpen"}, class : Classes]

Job == [step : {"Idle", "Due"}, ids : SUBSET Classes]

TypeOK ==
    /\ class \in [Classes -> [status : ClassStatus, archived : BOOLEAN,
                              deleted : BOOLEAN, capacity : Capacities]]
    /\ enrollment \in [Rows -> [status : EnrollmentStatus \cup {"None"},
                                enrolledAt : BOOLEAN, endedAt : BOOLEAN, deleted : BOOLEAN]]
    /\ completions \in [Classes \X Users -> 0 .. MaxCompletions]
    /\ deactivated \in SUBSET Users
    /\ request \in [Admins -> Request]
    /\ job \in Job

\* The creation form offers two statuses; a new class has no enrollments.
Init ==
    /\ class \in [Classes -> [status : {"Scheduled", "Active"},
                              archived : {FALSE}, deleted : {FALSE},
                              capacity : Capacities]]
    /\ enrollment = [r \in Rows |-> NoRow]
    /\ completions = [p \in Classes \X Users |-> 0]
    /\ deactivated = {}
    /\ request = [a \in Admins |-> Idle]
    /\ job = [step |-> "Idle", ids |-> {}]

Become(a, state) == request' = [request EXCEPT ![a] = state]

--------------------------------------------------------------------------------
(* handleEnrollUsersInClass *)

\* GetClassByID, then the guard on the class; the body names the residents.
EnrollStart(a, c, us) ==
    /\ request[a] = Idle
    /\ ~class[c].deleted /\ ~CannotUpdateClass(c)
    /\ Become(a, [step |-> "EnrollOpen", class |-> c, users |-> us])
    /\ UNCHANGED <<class, enrollment, completions, deactivated, job>>

\* DeactivatedUsersPresent; the scheduling conflict check may refuse as well.
EnrollCheck(a) ==
    /\ request[a].step = "EnrollOpen"
    /\ \/ /\ request[a].users \cap deactivated = {}
          /\ Become(a, [request[a] EXCEPT !.step = "EnrollChecked"])
       \/ Become(a, Idle)
    /\ UNCHANGED <<class, enrollment, completions, deactivated, job>>

\* Mutant of EnrollCount: no "class is full" answer.
EnrollCountM(a) ==
    LET q == request[a] IN
    /\ q.step = "EnrollChecked"
    /\ Become(a, [step |-> "EnrollCounted", class |-> q.class, users |-> q.users,
                  available |-> Available(q.class)])
    /\ UNCHANGED <<class, enrollment, completions, deactivated, job>>

\* CreateProgramClassEnrollments, first query: the seats left, or "class is full".
EnrollCount(a) ==
    LET q == request[a] IN
    /\ q.step = "EnrollChecked"
    /\ IF Available(q.class) <= 0
       THEN Become(a, Idle)
       ELSE Become(a, [step |-> "EnrollCounted", class |-> q.class, users |-> q.users,
                       available |-> Available(q.class)])
    /\ UNCHANGED <<class, enrollment, completions, deactivated, job>>

\* The first "available" residents of the list are taken, the others skipped;
\* the BeforeCreate hook of each row reads the status of the class.
EnrollHook(a) ==
    LET q == request[a] IN
    /\ q.step = "EnrollCounted"
    /\ \E us \in SUBSET q.users :
          /\ \/ us = q.users /\ Cardinality(us) <= q.available
             \/ Cardinality(us) = q.available
          /\ Become(a, [step |-> "EnrollInsert", class |-> q.class, users |-> us,
                        seen |-> StatusSeen(q.class)])
    /\ UNCHANGED <<class, enrollment, completions, deactivated, job>>

FreeRow(c, u) == CHOOSE n \in 1 .. MaxRows : enrollment[<<c, u, n>>].status = "None"

\* The INSERT.  Nothing makes (class, user) unique: a second row is a second row.
EnrollInsert(a) ==
    LET q == request[a] IN
    /\ q.step = "EnrollInsert"
    /\ \A u \in q.users : \E n \in 1 .. MaxRows : enrollment[<<q.class, u, n>>].status = "None"
    /\ enrollment' = [r \in Rows |->
           IF r[1] = q.class /\ r[2] \in q.users /\ r[3] = FreeRow(q.class, r[2])
           THEN BeforeCreate(q.seen)
           ELSE enrollment[r]]
    /\ Become(a, Idle)
    /\ UNCHANGED <<class, completions, deactivated, job>>

--------------------------------------------------------------------------------
(* handleUpdateProgramClassEnrollments, handleUpdateEnrollmentDate, handleDelete... *)

UpdateStart(a, c, us, to) ==
    /\ request[a] = Idle
    /\ ~class[c].deleted /\ ~CannotUpdateClassWithEnrollment(c, to)
    /\ Become(a, [step |-> "UpdateOpen", class |-> c, users |-> us, to |-> to])
    /\ UNCHANGED <<class, enrollment, completions, deactivated, job>>

\* UpdateProgramClassEnrollments: the BeforeUpdate hook reads the class status.
UpdateHook(a) ==
    LET q == request[a] IN
    /\ q.step = "UpdateOpen" /\ q.to # "Completed"
    /\ Become(a, [step |-> "UpdateWrite", class |-> q.class, users |-> q.users,
                  to |-> q.to, seen |-> StatusSeen(q.class)])
    /\ UNCHANGED <<class, enrollment, completions, deactivated, job>>

\* Every row of the residents takes the status, whatever it was and whatever the
\* class has become; capacity is not looked at.
UpdateWrite(a) ==
    LET q == request[a] IN
    /\ q.step = "UpdateWrite"
    /\ enrollment' = Updated(RowsOf(q.class, q.users), q.to, q.seen)
    /\ Become(a, Idle)
    /\ UNCHANGED <<class, completions, deactivated, job>>

\* GraduateEnrollments reads the residents' rows, in any status.  It stops when it
\* finds none, and panics when the class has been deleted meanwhile.
GraduateFind(a) ==
    LET q == request[a] IN
    /\ q.step = "UpdateOpen" /\ q.to = "Completed"
    /\ IF RowsOf(q.class, q.users) = {} \/ class[q.class].deleted
       THEN Become(a, Idle)
       ELSE Become(a, [step |-> "GraduateWrite", class |-> q.class, users |-> q.users,
                       found |-> {r[2] : r \in RowsOf(q.class, q.users)}])
    /\ UNCHANGED <<class, enrollment, completions, deactivated, job>>

\* One completion per resident found, then all rows of the residents Completed.
GraduateWrite(a) ==
    LET q == request[a] IN
    /\ q.step = "GraduateWrite"
    /\ completions' = [p \in Classes \X Users |->
           IF p[1] = q.class /\ p[2] \in q.found THEN completions[p] + 1 ELSE completions[p]]
    /\ WithinCompletionBound
    /\ enrollment' = Updated(RowsOf(q.class, q.users), "Completed", StatusSeen(q.class))
    /\ Become(a, Idle)
    /\ UNCHANGED <<class, deactivated, job>>

DateStart(a, c) ==
    /\ request[a] = Idle
    /\ ~class[c].deleted /\ ~CannotUpdateClass(c)
    /\ Become(a, [step |-> "DateOpen", class |-> c])
    /\ UNCHANGED <<class, enrollment, completions, deactivated, job>>

\* The enrollment id of the path is not tied to the class of the path.
DateWrite(a) ==
    /\ request[a].step = "DateOpen"
    /\ \/ \E r \in Rows : Live(r) /\ enrollment' = [enrollment EXCEPT ![r].enrolledAt = TRUE]
       \/ UNCHANGED enrollment    \* no row has the id
    /\ Become(a, Idle)
    /\ UNCHANGED <<class, completions, deactivated, job>>

\* The class id of the path is used as an enrollment id: any row may be hit.
DeleteEnrollment(r) ==
    /\ Live(r)
    /\ enrollment' = [enrollment EXCEPT ![r].deleted = TRUE]
    /\ UNCHANGED <<class, completions, deactivated, request, job>>

--------------------------------------------------------------------------------
(* handleUpdateClasses: the bulk PATCH, one transaction and no guard on status *)

NotDeleted(cs) == {c \in cs : ~class[c].deleted}

\* Closing cs ends the Enrolled rows first, then writes a completion for every
\* Completed row, those graduated earlier included.  A status given as a string
\* passes the Changed test of AfterUpdate, so "Active" backfills enrolled_at.
BulkSetStatus(cs, to) ==
    LET ended == Closing(IF to \in ClosedStatus THEN cs ELSE {}, to) IN
    /\ to = "Completed" => ~ClassMissing(ended, cs)    \* else a panic, and a rollback
    /\ class' = [c \in Classes |-> IF c \in NotDeleted(cs)
                                   THEN [class[c] EXCEPT !.status = to]
                                   ELSE class[c]]
    /\ enrollment' = Backfilled(ended, IF to = "Active" THEN cs ELSE {})
    /\ completions' = CompletionsFor(ended, IF to = "Completed" THEN cs ELSE {})
    /\ WithinCompletionBound
    /\ UNCHANGED <<deactivated, request, job>>

\* A null would panic in the change log, so archived_at is only ever set.
BulkArchive(cs) ==
    /\ class' = [c \in Classes |-> IF c \in NotDeleted(cs)
                                   THEN [class[c] EXCEPT !.archived = TRUE]
                                   ELSE class[c]]
    /\ UNCHANGED <<enrollment, completions, deactivated, request, job>>

--------------------------------------------------------------------------------
(* handleUpdateClass: the edit form and the status dialog *)

EditStart(a, c, to, cap) ==
    /\ request[a] = Idle
    /\ ~class[c].deleted /\ ~CannotUpdateClass(c)
    /\ Become(a, [step |-> "EditOpen", class |-> c, to |-> to, capacity |-> cap])
    /\ UNCHANGED <<class, enrollment, completions, deactivated, job>>

\* GetTotalEnrollmentsByClassID against the capacity of the body.
EditSize(a) ==
    LET q == request[a] IN
    /\ q.step = "EditOpen"
    /\ IF Cardinality(EnrolledRows(q.class)) > q.capacity
       THEN Become(a, Idle)
       ELSE Become(a, [q EXCEPT !.step = "EditSized"])
    /\ UNCHANGED <<class, enrollment, completions, deactivated, job>>

\* UpdateProgramClass reads the row again, before its transaction begins.
EditRead(a) ==
    LET q == request[a] IN
    /\ q.step = "EditSized"
    /\ IF class[q.class].deleted
       THEN Become(a, Idle)
       ELSE Become(a, [step |-> "EditWrite", class |-> q.class, to |-> q.to,
                       capacity |-> q.capacity, original |-> class[q.class].status])
    /\ UNCHANGED <<class, enrollment, completions, deactivated, job>>

\* The whole row read is written back, its status too when the body has none; the
\* enrollments follow only if the status differs from the one read.  The update
\* is by struct: Changed("status") is false in AfterUpdate and nothing is backfilled.
EditWrite(a) ==
    LET q    == request[a]
        new  == IF q.to = Keep THEN q.original ELSE q.to
        closes == new # q.original /\ new \in ClosedStatus
        ended  == Closing(IF closes THEN {q.class} ELSE {}, new)
    IN
    /\ q.step = "EditWrite"
    /\ IF closes /\ new = "Completed" /\ ClassMissing(ended, {q.class})
       THEN UNCHANGED <<class, enrollment, completions>>    \* a panic
       ELSE /\ class' = IF class[q.class].deleted
                        THEN class
                        ELSE [class EXCEPT ![q.class].status = new,
                                           ![q.class].capacity = q.capacity]
            /\ enrollment' = ended
            /\ completions' = CompletionsFor(ended,
                   IF closes /\ new = "Completed" THEN {q.class} ELSE {})
            /\ WithinCompletionBound
    /\ Become(a, Idle)
    /\ UNCHANGED <<deactivated, job>>

--------------------------------------------------------------------------------
(* handleDeleteClass: the blocking-children query, then the deletion *)

\* Mutant of HasBlockingChildren: only Enrolled rows block.
HasBlockingChildrenM(c) ==
    \/ EnrolledRows(c) # {}
    \/ \E u \in Users : completions[c, u] > 0
    \/ StatusSeen(c) \notin {"Scheduled", NoStatus}

HasBlockingChildren(c) ==
    \/ \E r \in Rows : r[1] = c /\ Live(r)
    \/ \E u \in Users : completions[c, u] > 0
    \/ StatusSeen(c) \notin {"Scheduled", NoStatus}

DeleteStart(a, c) ==
    /\ request[a] = Idle
    /\ ~HasBlockingChildren(c)
    /\ Become(a, [step |-> "DeleteOpen", class |-> c])
    /\ UNCHANGED <<class, enrollment, completions, deactivated, job>>

DeleteWrite(a) ==
    /\ request[a].step = "DeleteOpen"
    /\ class' = [class EXCEPT ![request[a].class].deleted = TRUE]
    /\ Become(a, Idle)
    /\ UNCHANGED <<enrollment, completions, deactivated, job>>

--------------------------------------------------------------------------------
(* Residents: DeactivateUser and TransferResident, one transaction each *)

RowsEnrolled(u) == {r \in Rows : r[2] = u /\ Live(r) /\ enrollment[r].status = "Enrolled"}

DeactivateUser(u) ==
    /\ deactivated' = deactivated \cup {u}
    /\ enrollment' = Updated(RowsEnrolled(u), "Incomplete", NoStatus)
    /\ UNCHANGED <<class, completions, request, job>>

\* Raw SQL: neither the hook nor the soft-delete filter applies.
TransferResident(u) ==
    /\ u \notin deactivated
    /\ enrollment' = [r \in Rows |->
           IF r[2] = u /\ enrollment[r].status = "Enrolled"
           THEN [enrollment[r] EXCEPT !.status = "Transferred"]
           ELSE enrollment[r]]
    /\ UNCHANGED <<class, completions, deactivated, request, job>>

--------------------------------------------------------------------------------
(* The middleware: activateScheduledClasses *)

\* The query of the classes due; "due" are those whose start date has come.
JobQuery(due) ==
    /\ job.step = "Idle"
    /\ job' = [step |-> "Due",
               ids |-> {c \in due : /\ class[c].status = "Scheduled"
                                    /\ ~class[c].archived /\ ~class[c].deleted}]
    /\ UNCHANGED <<class, enrollment, completions, deactivated, request>>

\* The transaction updates by id only: it does not look at the status again.
JobActivate ==
    /\ job.step = "Due"
    /\ class' = [c \in Classes |-> IF c \in NotDeleted(job.ids)
                                   THEN [class[c] EXCEPT !.status = "Active"]
                                   ELSE class[c]]
    /\ enrollment' = Backfilled(enrollment, job.ids)
    /\ job' = [step |-> "Idle", ids |-> {}]
    /\ UNCHANGED <<completions, deactivated, request>>

--------------------------------------------------------------------------------
Enroll(a) ==
    \/ \E c \in Classes, us \in (SUBSET Users) \ {{}} : EnrollStart(a, c, us)
    \/ EnrollCheck(a) \/ EnrollCount(a) \/ EnrollHook(a) \/ EnrollInsert(a)

UpdateEnrollment(a) ==
    \/ \E c \in Classes, us \in (SUBSET Users) \ {{}}, to \in EnrollmentStatus :
          UpdateStart(a, c, us, to)
    \/ UpdateHook(a) \/ UpdateWrite(a) \/ GraduateFind(a) \/ GraduateWrite(a)

ChangeDate(a) == (\E c \in Classes : DateStart(a, c)) \/ DateWrite(a)

EditClass(a) ==
    \/ \E c \in Classes, to \in ClassStatus \cup {Keep}, cap \in Capacities :
          EditStart(a, c, to, cap)
    \/ EditSize(a) \/ EditRead(a) \/ EditWrite(a)

DeleteClass(a) == (\E c \in Classes : DeleteStart(a, c)) \/ DeleteWrite(a)

\* Handlers that are one transaction; the administrator has no other request open.
OneTransaction(a) ==
    /\ request[a] = Idle
    /\ \/ \E cs \in (SUBSET Classes) \ {{}}, to \in ClassStatus : BulkSetStatus(cs, to)
       \/ \E cs \in (SUBSET Classes) \ {{}} : BulkArchive(cs)
       \/ \E r \in Rows : DeleteEnrollment(r)
       \/ \E u \in Users : DeactivateUser(u) \/ TransferResident(u)

Middleware == (\E due \in SUBSET Classes : JobQuery(due)) \/ JobActivate

Next ==
    \/ \E a \in Admins : \/ Enroll(a) \/ UpdateEnrollment(a) \/ ChangeDate(a)
                          \/ EditClass(a) \/ DeleteClass(a)
                          \/ OneTransaction(a)
    \/ Middleware

Spec == Init /\ [][Next]_vars

--------------------------------------------------------------------------------
(* Properties *)

\* A row whose status ended through the hook carries enrollment_ended_at, however
\* requests interleave: every writer of a terminal status runs BeforeUpdate, save
\* the transfer, and no writer clears the stamp of a row it leaves terminal.  This holds in
\* a class of any status, which is more than the hook's comment promises.
EndedStamped ==
    \A r \in Rows : enrollment[r].status \in TerminalEnrollment \ {"Transferred"}
                      => enrollment[r].endedAt

\* Closing a class leaves nobody Enrolled in it, and nobody gets in afterwards:
\* the cascade of both PATCH handlers and the guards of the enrollment handlers.
\* Only with one administrator at work: the guards read without a lock.
NoEnrolledInClosedClass ==
    \A c \in Classes : class[c].status \in ClosedStatus => EnrolledRows(c) = {}

\* A deleted class has no enrollments (the guard of handleDeleteClass), again
\* with one administrator at work.
DeletedClassEmpty ==
    \A c \in Classes : class[c].deleted => \A r \in Rows : r[1] = c => ~Live(r)

\* What a handler checked still holds when it writes, as long as no other
\* administrator works: the class is open and there, and a class about to be
\* deleted has no enrollments.  The middleware's job, which takes no part in the
\* handlers' checks, may run in between and must not spoil it.
GuardStillHolds ==
    \A a \in Admins :
        LET q == request[a] IN
        /\ q.step \in {"EnrollOpen", "EnrollChecked", "EnrollCounted", "EnrollInsert",
                       "UpdateOpen", "UpdateWrite", "EditOpen", "EditSized", "EditWrite"}
             => class[q.class].status \notin ClosedStatus /\ ~class[q.class].deleted
        /\ q.step = "EditWrite" => q.original \notin ClosedStatus
        /\ q.step = "DeleteOpen" => \A r \in Rows : r[1] = q.class => ~Live(r)

\* Every resident marked Completed has a program_completions row, whether he was
\* graduated alone or with the class, and whatever was done to the class since.
CompletedHasRecord ==
    \A r \in Rows : Live(r) /\ enrollment[r].status = "Completed"
                      => completions[r[1], r[2]] > 0

\* A resident who is Enrolled again has no end date left over: attendance and
\* history queries would count the enrollment as ended.
EnrolledNotEnded ==
    \A r \in Rows : enrollment[r].status = "Enrolled" => ~enrollment[r].endedAt

\* Enrolling never takes a class over its capacity (with one administrator).
SeatsRespected ==
    [][\A a \in Admins, c \in Classes :
          /\ request[a].step = "EnrollInsert" /\ request[a].class = c
          /\ request[a].users # {} /\ request'[a] = Idle
          => Cardinality(EnrolledRows(c)') <= class'[c].capacity]_vars

--------------------------------------------------------------------------------
(* Claims of the comments and tests that the code does not keep *)

\* classes_test.go: completing a class writes as many completions as residents
\* were Enrolled in it.
OneCompletionPerEnrolled ==
    [][\A c \in Classes :
          class[c].status # "Completed" /\ class'[c].status = "Completed"
          => \A u \in Users : completions'[c, u] - completions[c, u]
                                 = Cardinality({r \in EnrolledRows(c) : r[2] = u})]_vars

\* classes_test.go and the comment of AfterUpdate: when a Scheduled class becomes
\* Active, its existing enrollments get enrolled_at.
ActivationStamps ==
    [][\A c \in Classes :
          class[c].status = "Scheduled" /\ class'[c].status = "Active"
          => \A r \in EnrolledRows(c) : enrollment'[r].enrolledAt]_vars

================================================================================

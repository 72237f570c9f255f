---------------------------- MODULE ResidentAccount ----------------------------
(***************************************************************************)
(* The account of a resident is a row of the database, an identity in      *)
(* Kratos with a copy of his facility, and an account history.  Requests   *)
(* about it change these one after the other, and only the database has    *)
(* transactions: a transfer keeps one open while it calls Kratos.          *)
(***************************************************************************)
EXTENDS Naturals, FiniteSets

CONSTANTS
  None, Admins, Facilities,
  Overlaps,     \* sets of kinds of requests: those under way at a time are all of one set
  MaxChanges,   \* bound: requests sent
  MaxMishaps    \* bound: failures and restarts

UserRow == [there : BOOLEAN, facility : Facilities, linked : BOOLEAN, deactivated : BOOLEAN]
AccountAssumption ==
  /\ None \notin Facilities \cup UserRow /\ "user" \notin Facilities
  /\ MaxChanges \in Nat /\ MaxMishaps \in Nat

VARIABLES
  user,      \* the resident's row: there, at a facility, linked to an identity, deactivated
  identity,  \* the facility the identity in Kratos says, None without an identity
  enrolled,  \* facilities with a class he is enrolled in
  history,   \* the facility the account history says he was transferred to last
  request,   \* what each administrator's request has read and is about to do
  changes, mishaps,
  half       \* a request ended after the first of its two stores (in no variable of the code)

vars == <<user, identity, enrolled, history, request, changes, mishaps, half>>
counters == <<changes, mishaps, half>>

Kinds == {"transfer", "deactivate", "delete", "reset", "set", "edit"}
Idle == [at |-> "idle", op |-> "none", from |-> None, to |-> None, read |-> None, row |-> None,
         ended |-> {}, locks |-> {}]
At(a, step) == request[a].at = step
Op(a) == request[a].op
Goes(a, step) == request' = [request EXCEPT ![a].at = step]
\* A request that ends has committed or rolled back, and holds no row.
Ends(a) == request' = [request EXCEPT ![a] = Idle]

Init ==
  /\ \E f \in Facilities, linked \in BOOLEAN :
       /\ user = [there |-> TRUE, facility |-> f, linked |-> linked, deactivated |-> FALSE]
       /\ identity = (IF linked THEN f ELSE None) /\ history = f
  /\ enrolled = {} /\ request = [a \in Admins |-> Idle]
  /\ changes = 0 /\ mishaps = 0 /\ half = FALSE

-----------------------------------------------------------------------------
(* Row locks: of the resident's row, and of his enrollments at a facility. *)

Free(row, a) == \A b \in Admins \ {a} : row \notin request[b].locks
\* The enrollments an update is about: a transfer's are those of the facility the page named.
Theirs(a) == IF Op(a) = "transfer" THEN enrolled \cap {request[a].from} ELSE enrolled
Needs(a) ==
  IF request[a].at \in {"row", "link", "drop"} THEN {"user"}
  ELSE IF At(a, "enrollments") THEN Theirs(a) ELSE {}
Granted(a) == \A row \in Needs(a) : Free(row, a)
Blocks(b, a) == b # a /\ Needs(a) \cap request[b].locks # {}

-----------------------------------------------------------------------------
\* A page sends a request; a transfer's says where the resident is by what the page shows.
Ask(a, op, f) ==
  /\ At(a, "idle") /\ changes < MaxChanges
  /\ \E S \in Overlaps : {op} \cup {Op(b) : b \in {b \in Admins : ~At(b, "idle")}} \subseteq S
  /\ op = "transfer" <=> f # user.facility
  /\ op = "set" => user.there /\ identity # None /\ user.linked /\ ~user.deactivated
  /\ request' = [request EXCEPT ![a] = [Idle EXCEPT !.at = "asked", !.op = op, !.from = user.facility, !.to = f]]
  /\ changes' = changes + 1 /\ UNCHANGED <<user, identity, enrolled, history, mishaps, half>>

Enroll ==
  /\ user.there /\ ~user.deactivated /\ enrolled' = enrolled \cup {user.facility}
  /\ UNCHANGED <<user, identity, history, request, counters>>

\* The handler looks the resident up; only a transfer and an edit care whether he is
\* deactivated, and deactivating does not look at all.  An edit keeps the row for its write.
First(op) ==
  CASE op = "transfer" -> "enrollments"
    [] op = "deactivate" -> "row"
    [] op = "delete" -> IF user.linked THEN "remove" ELSE "drop"
    [] op = "reset" -> IF user.linked THEN "identity" ELSE "find"
    [] op = "set" -> "identity"
    [] op = "edit" -> "link"
Start(a) ==
  /\ At(a, "asked") /\ UNCHANGED <<user, identity, enrolled, history, counters>>
  /\ IF (Op(a) # "deactivate" /\ ~user.there) \/ (Op(a) \in {"transfer", "edit"} /\ user.deactivated)
     THEN Ends(a)
     ELSE request' = [request EXCEPT ![a].at = First(Op(a)), ![a].row = IF Op(a) = "edit" THEN user ELSE None]

\* The statements of the two transactions, in opposite order: TransferResident ends enrollments
\* and updates the resident's row, DeactivateUser the other way round.
EndEnrollments(a) ==
  /\ At(a, "enrollments") /\ Granted(a)
  /\ request' = [request EXCEPT ![a].at = IF Op(a) = "transfer" THEN "row" ELSE "commit",
                                ![a].ended = Theirs(a), ![a].locks = @ \cup Theirs(a)]
  /\ UNCHANGED <<user, identity, enrolled, history, counters>>
\* Mutant of TakeRow: the resident's row is not written before the identity is.
TakeRowM(a) ==
  /\ At(a, "row")
  /\ Goes(a, IF Op(a) = "transfer" THEN "identity" ELSE "enrollments")
  /\ UNCHANGED <<user, identity, enrolled, history, counters>>
TakeRow(a) ==
  /\ At(a, "row") /\ Granted(a)
  /\ request' = [request EXCEPT ![a].at = IF Op(a) = "transfer" THEN "identity" ELSE "enrollments",
                                ![a].locks = @ \cup {"user"}]
  /\ UNCHANGED <<user, identity, enrolled, history, counters>>

\* The identity is read, then written whole: with another facility, or with another password
\* and everything else as it was read.  Without an identity a transfer goes on.
ReadIdentity(a) ==
  /\ At(a, "identity") /\ UNCHANGED <<user, identity, enrolled, history, counters>>
  /\ IF Op(a) = "transfer" /\ user.there /\ ~user.linked THEN Goes(a, "history")
     ELSE IF (Op(a) \in {"transfer", "undo"} /\ ~(user.there /\ user.linked)) \/ identity = None THEN Ends(a)
     ELSE request' = [request EXCEPT ![a].at = "put", ![a].read = identity]
Written(a) == IF Op(a) \in {"transfer", "undo"} THEN request[a].to ELSE request[a].read
PutIdentity(a) ==
  /\ At(a, "put") /\ UNCHANGED <<user, enrolled, history, counters>>
  /\ identity' = IF identity = None THEN None ELSE Written(a)
  /\ IF identity = None THEN Ends(a)
     ELSE IF Op(a) = "transfer" THEN Goes(a, "history")
     ELSE IF request[a].row # None THEN Goes(a, "link") ELSE Ends(a)

\* The history is written on a connection of its own, while the transaction is open.
AddHistory(a) ==
  /\ At(a, "history") /\ history' = request[a].to /\ Goes(a, "commit")
  /\ UNCHANGED <<user, identity, enrolled, counters>>
Commit(a) ==
  /\ At(a, "commit") /\ enrolled' = enrolled \ request[a].ended /\ Ends(a)
  /\ user' = IF ~user.there THEN user
             ELSE IF Op(a) = "transfer" THEN [user EXCEPT !.facility = request[a].to]
             ELSE [user EXCEPT !.deactivated = TRUE]
  /\ UNCHANGED <<identity, history, counters>>

\* A reset for a resident without an identity creates one, gives it a password and links it.
\* A username has one identity at most.
FindUser(a) ==
  /\ At(a, "find") /\ UNCHANGED <<user, identity, enrolled, history, counters>>
  /\ IF user.there THEN request' = [request EXCEPT ![a].at = "create", ![a].row = user] ELSE Ends(a)
CreateIdentity(a) ==
  /\ At(a, "create") /\ UNCHANGED <<user, enrolled, history, counters>>
  /\ IF identity = None THEN identity' = request[a].row.facility /\ Goes(a, "identity")
     ELSE UNCHANGED identity /\ Ends(a)
\* UpdateUser, of a reset and of an edit: the row is written as it was read, facility included.
LinkUser(a) ==
  /\ At(a, "link") /\ Granted(a) /\ Ends(a) /\ UNCHANGED <<identity, enrolled, history, counters>>
  /\ user' = IF user.there THEN [user EXCEPT !.facility = request[a].row.facility,
                                             !.linked = @ \/ Op(a) = "reset"] ELSE user

\* A resident is removed from Kratos first; without the identity expected there the row stays.
RemoveIdentity(a) ==
  /\ At(a, "remove") /\ identity' = None /\ UNCHANGED <<user, enrolled, history, counters>>
  /\ IF identity = None THEN Ends(a) ELSE Goes(a, "drop")
DropUser(a) ==
  /\ At(a, "drop") /\ Granted(a) /\ Ends(a) /\ user' = [user EXCEPT !.there = FALSE]
  /\ UNCHANGED <<identity, enrolled, history, counters>>

-----------------------------------------------------------------------------
(* What goes wrong. *)

\* The other store has been changed, or is being changed back.
Halfway(a) ==
  \/ request[a].at \in {"history", "drop"} \/ Op(a) = "undo" \/ (Op(a) = "reset" /\ At(a, "link"))
  \/ request[a].row # None /\ request[a].at \in {"identity", "put"}
  \/ Op(a) = "transfer" /\ At(a, "commit")
Mishap == mishaps < MaxMishaps /\ mishaps' = mishaps + 1 /\ UNCHANGED changes

\* A statement or a call fails: the handler rolls back and answers with an error.
\* Mutant of Fails: a transaction is left open when the history cannot be written.
FailsM(a) ==
  /\ ~At(a, "idle") /\ ~(Op(a) = "transfer" /\ At(a, "commit")) /\ Mishap
  /\ half' = (half \/ Halfway(a)) /\ UNCHANGED <<user, identity, enrolled, history>>
  /\ request' = [request EXCEPT ![a] = [Idle EXCEPT !.locks = IF request[a].at = "history" THEN request[a].locks ELSE {}]]
Fails(a) ==
  /\ ~At(a, "idle") /\ ~(Op(a) = "transfer" /\ At(a, "commit")) /\ Mishap
  /\ half' = (half \/ Halfway(a)) /\ Ends(a) /\ UNCHANGED <<user, identity, enrolled, history>>
\* Kratos does what it is asked and its answer is lost.
AnswerLost(a) ==
  /\ request[a].at \in {"put", "create", "remove"} /\ Mishap /\ Ends(a)
  /\ half' = (half \/ Op(a) \in {"transfer", "undo", "delete"} \/ request[a].row # None)
  /\ identity' = IF At(a, "create") THEN (IF identity = None THEN request[a].row.facility ELSE identity)
                 ELSE IF At(a, "put") /\ identity # None THEN Written(a) ELSE None
  /\ UNCHANGED <<user, enrolled, history>>
\* A transfer that cannot commit writes the old facility back into the identity.
CommitFails(a) ==
  /\ Op(a) = "transfer" /\ At(a, "commit") /\ Mishap /\ half' = TRUE
  /\ request' = [request EXCEPT ![a] = [Idle EXCEPT !.at = "identity", !.op = "undo", !.to = request[a].from]]
  /\ UNCHANGED <<user, identity, enrolled, history>>
\* Two transactions wait for each other: Postgres ends one of them.  Who waits for enrollments
\* holds the resident's row or nothing, so that every circle is one of two.
DeadlockEnds(a) ==
  /\ \E b \in Admins : Blocks(a, b) /\ Blocks(b, a)
  /\ Ends(a) /\ UNCHANGED <<user, identity, enrolled, history, counters>>
Restart ==
  /\ Mishap /\ half' = (half \/ \E a \in Admins : Halfway(a)) /\ request' = [a \in Admins |-> Idle]
  /\ UNCHANGED <<user, identity, enrolled, history>>

Advance(a) ==
  \/ Start(a) \/ EndEnrollments(a) \/ TakeRow(a) \/ ReadIdentity(a) \/ PutIdentity(a)
  \/ AddHistory(a) \/ Commit(a) \/ FindUser(a) \/ CreateIdentity(a) \/ LinkUser(a)
  \/ RemoveIdentity(a) \/ DropUser(a)
Next ==
  \/ Enroll \/ Restart
  \/ \E a \in Admins :
       \/ \E op \in Kinds, f \in Facilities : Ask(a, op, f)
       \/ Advance(a) \/ Fails(a) \/ AnswerLost(a) \/ CommitFails(a) \/ DeadlockEnds(a)

-----------------------------------------------------------------------------
\* When no request is under way and none ended halfway, Kratos, the history and the row say the
\* same facility, and there is an identity exactly for a resident who is there and linked.
StoresAgree ==
  (\A a \in Admins : At(a, "idle")) /\ ~half =>
    /\ identity # None <=> user.there /\ user.linked
    /\ identity # None => identity = user.facility
    /\ history = user.facility

\* Every request is answered, whatever fails: no row stays locked behind one that ended.
RequestsAnswered == \A a \in Admins : ~At(a, "idle") ~> At(a, "idle")
=============================================================================

------------------------------- MODULE Screen -------------------------------
(***************************************************************************)
(* What the pages of the console share: rows fetched through SWR (one key  *)
(* per query, no retry, no refetch on focus), modal dialogs, and the API   *)
(* client that reports every refused, failed or timed out request as       *)
(* success = false.                                                        *)
(***************************************************************************)
EXTENDS Naturals, FiniteSets

CONSTANTS
  None,
  MaxWrites   \* bound: a dialog sends while fewer requests of other dialogs, and no more
              \* than that of its own, are on the wire

ASSUME ScreenAssumption == MaxWrites \in Nat \ {0}

VARIABLES
  server,  \* the rows in the database
  shown,   \* data of the current SWR key: rows, or None while it loads or after an error
  wire,    \* requests sent and not answered
  ui       \* the state hooks of the page

screen == <<server, shown, wire, ui>>

Writes == {q \in wire : q.op # "list"}
Pending(op) == {q \in wire : q.op = op}
MaySend(op) ==
  Cardinality(Writes \ Pending(op)) < MaxWrites /\ Cardinality(Pending(op)) <= MaxWrites

\* A request that changes rows, or the fetch of the current key (op "list").
Request(op, ids) ==
  [op |-> op, ids |-> ids, nth |-> Cardinality(Pending(op)), status |-> "sent", rows |-> None]

Fetch == [op |-> "list", ids |-> {}, nth |-> 0, status |-> "sent", rows |-> None]

\* mutate() and a changed key start a fetch; the answer of an earlier one is ignored.
\* Mutant of Refetch: a fetch on the wire is taken for the new one.
RefetchM(w) == IF \E q \in w : q.op = "list" THEN w ELSE w \cup {Fetch}
Refetch(w) == {q \in w : q.op # "list"} \cup {Fetch}

Becomes(q, status) == (wire \ {q}) \cup {[q EXCEPT !.status = status]}

\* The server reads the rows for a fetch.
ListServed(rows) ==
  \E q \in wire :
    /\ q.op = "list" /\ q.status = "sent"
    /\ wire' = (wire \ {q}) \cup {[q EXCEPT !.status = "done", !.rows = rows]}
    /\ UNCHANGED <<server, shown, ui>>

\* The fetch is answered, or fails and the page says so.
ListArrives ==
  \E q \in wire :
    /\ q.op = "list" /\ wire' = wire \ {q}
    /\ shown' = IF q.status = "done" THEN q.rows ELSE None
    /\ UNCHANGED <<server, ui>>

\* Some pages keep what they show when a fetch fails.
ListLost ==
  \E q \in Pending("list") :
    wire' = wire \ {q} /\ ui' = [ui EXCEPT !.doubt = TRUE] /\ UNCHANGED <<server, shown>>

\* A fetch that starts now shows what a lost answer left in doubt.
Doubtless(u) == [u EXCEPT !.doubt = FALSE]

\* A changed query is a changed key: nothing is shown until its fetch is answered.
ChangeQuery == shown' = None /\ wire' = Refetch(wire) /\ ui' = Doubtless(ui) /\ UNCHANGED server

\* A change of the page's own state.
Shows(u) == ui' = u /\ UNCHANGED <<server, shown, wire>>

\* A handler sends a request, and most of them disable their button until it is answered.
\* Mutant of Submitted: the button stays enabled.
SubmittedM(u, op) == u
Submitted(u, op) == [u EXCEPT !.busy = @ \cup {op}]
SendFreely(op, ids) ==
  MaySend(op) /\ wire' = wire \cup {Request(op, ids)} /\ UNCHANGED <<server, shown, ui>>
Send(op, ids) ==
  /\ op \notin ui.busy /\ MaySend(op)
  /\ ui' = Submitted(ui, op) /\ wire' = wire \cup {Request(op, ids)}
  /\ UNCHANGED <<server, shown>>

Served(q, rows) ==
  /\ q \in Writes /\ q.status = "sent" /\ wire' = Becomes(q, "done")
  /\ server' = rows /\ UNCHANGED <<shown, ui>>

Answered(q) == q \in Writes /\ q.status = "done"

\* success = true: the page goes on as u, and fetches the list again or not.
Settles(q, u) ==
  /\ ui' = [u EXCEPT !.busy = @ \ {q.op}] /\ wire' = wire \ {q} /\ UNCHANGED <<server, shown>>
SettlesAndFetches(q, u) ==
  /\ ui' = [Doubtless(u) EXCEPT !.busy = @ \ {q.op}] /\ wire' = Refetch(wire \ {q})
  /\ UNCHANGED <<server, shown>>

\* success = false: a toast, nothing closes.  The request was refused or lost, or it was
\* carried out, perhaps in part, and the page learns nothing of it.
Fails(q) ==
  /\ q \in Writes
  /\ ui' = [ui EXCEPT !.busy = @ \ {q.op}, !.doubt = @ \/ q.status # "sent"]
  /\ wire' = wire \ {q} /\ UNCHANGED <<server, shown>>

\* What the pages promise of their requests and of their list: at most one request of each of
\* these at a time; and when nothing is under way, the last fetch came through and no answer
\* was lost, the list shows the rows as they are.
Single(ops) == \A op \in ops : Cardinality(Pending(op)) <= 1
Fresh(rows) == wire = {} /\ shown # None /\ ~ui.doubt => shown = rows
=============================================================================

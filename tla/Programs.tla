-------------------------------- MODULE Programs --------------------------------
(***************************************************************************)
(* The programs page: creating programs, filtering and paging the ones     *)
(* loaded, and asking again while Canvas is still loading some of them.    *)
(***************************************************************************)
EXTENDS Screen

CONSTANTS
  Limit,        \* bound: programs ever created
  MaxAttempts,  \* useCanvasLoadingPoll
  Required      \* the fields a program needs: name, types, credit types, funding

ProgramsAssumption == Limit \in Nat /\ MaxAttempts \in Nat \ {0}

\* The programs: 1..n of which some are hidden by the filter, and whether Canvas still loads.
Rows == server
Loading == shown # None /\ shown.loading

Init ==
  /\ server \in [n : {1}, loading : BOOLEAN]
  /\ ui = [form |-> FALSE, filled |-> {}, filtered |-> FALSE, page |-> 1, count |-> 0, armed |-> FALSE,
           exhausted |-> FALSE, busy |-> {}, doubt |-> FALSE]
  /\ shown = None /\ wire = {Fetch}

-----------------------------------------------------------------------------
\* Filters leave the first program out; any change of them goes to the first page.  The list
\* and the statistics are those of the programs left.
Total == IF shown = None THEN 0 ELSE IF ui.filtered THEN shown.n - 1 ELSE shown.n
ToggleFilter == Shows([ui EXCEPT !.filtered = ~@, !.page = 1])
TurnPage(p) == p \in 1..Total  \* one to a page
                /\ Shows([ui EXCEPT !.page = p])

-----------------------------------------------------------------------------
\* The header's button keeps what is typed, the form's own does not.
ToggleForm == Shows([ui EXCEPT !.form = ~@])
Cancel == ui.form /\ Shows([ui EXCEPT !.form = FALSE, !.filled = {}])
Fill(f) == ui.form /\ f \notin ui.filled /\ Shows([ui EXCEPT !.filled = @ \cup {f}])
Clear(f) == ui.form /\ f \in ui.filled /\ Shows([ui EXCEPT !.filled = @ \ {f}])
Valid == Required \subseteq ui.filled
Create == ui.form /\ Valid /\ Send("create", {})

ServeCreate(q) ==
  q.op = "create" /\ server.n <= Limit /\ Served(q, [server EXCEPT !.n = @ + 1])

\* The form closes and is emptied, whatever was typed into it meanwhile.
Created(q) ==
  Answered(q) /\ q.op = "create" /\ SettlesAndFetches(q, [ui EXCEPT !.form = FALSE, !.filled = {}])

-----------------------------------------------------------------------------
\* Canvas finishes or starts loading a program.
Canvas(loads) == server.loading # loads /\ server' = [server EXCEPT !.loading = loads] /\
                 ui' = [ui EXCEPT !.doubt = TRUE] /\ UNCHANGED <<shown, wire>>

\* The effect of useCanvasLoadingPoll, after the programs shown began or ceased to load.
\* Mutant: it forgets to start from zero.
PollM(u, loads) ==
  IF ~loads THEN [u EXCEPT !.armed = FALSE, !.exhausted = FALSE]
  ELSE IF u.count >= MaxAttempts THEN u ELSE [u EXCEPT !.armed = TRUE]
Poll(u, loads) ==
  IF ~loads THEN [u EXCEPT !.armed = FALSE, !.exhausted = FALSE, !.count = 0]
  ELSE IF u.count >= MaxAttempts THEN u ELSE [u EXCEPT !.armed = TRUE]

Tick ==
  /\ ui.armed /\ wire' = Refetch(wire) /\ UNCHANGED <<server, shown>>
  /\ LET last == ui.count + 1 >= MaxAttempts IN
     ui' = [Doubtless(ui) EXCEPT !.count = @ + 1, !.armed = ~last, !.exhausted = @ \/ last]

Arrives ==
  \E q \in Pending("list") :
    /\ q.status = "done" /\ wire' = wire \ {q} /\ shown' = q.rows /\ UNCHANGED server
    /\ ui' = IF q.rows.loading # Loading THEN Poll(ui, q.rows.loading) ELSE ui

\* "refresh to retry"
Reload ==
  /\ ui.exhausted /\ shown' = None /\ wire' = {Fetch} /\ UNCHANGED server
  /\ ui' = [form |-> FALSE, filled |-> {}, filtered |-> FALSE, page |-> 1, count |-> 0, armed |-> FALSE,
            exhausted |-> FALSE, busy |-> {}, doubt |-> FALSE]

Next ==
  \/ ToggleFilter \/ (\E p \in 1..(Limit + 1) : TurnPage(p))
  \/ ToggleForm \/ Cancel \/ Create \/ (\E f \in Required : Fill(f) \/ Clear(f))
  \/ Canvas(TRUE) \/ Canvas(FALSE) \/ Tick \/ Reload
  \/ ListServed(Rows) \/ Arrives \/ ListLost
  \/ \E q \in wire : ServeCreate(q) \/ Created(q) \/ Fails(q)

NoDoubleSubmit == Single({"create"})
QuietIsFresh == Fresh(Rows)

\* A program that is shown as "Syncing from Canvas" is asked about again, until the page says
\* that it takes longer than expected.
NeverStuckSyncing == Loading => ui.armed \/ ui.exhausted
=============================================================================

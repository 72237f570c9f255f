----------------------------- MODULE FeatureControl -----------------------------
(***************************************************************************)
(* Switching features on and off for a facility.  "shown" is the SWR       *)
(* cache: an entry for the detail of each facility.                        *)
(***************************************************************************)
EXTENDS Screen

CONSTANTS
  Places,    \* facilities
  Tops,      \* top-level features
  Subs,      \* sub-features
  Parent     \* a sub-feature's parent

FeatureAssumption == Tops \cap Subs = {} /\ Parent \in [Subs -> Tops]

Features == Tops \cup Subs
\* What each facility has switched on; a sub-feature counts only under its parent.
Effective(on) == (on \cap Tops) \cup {f \in on \cap Subs : Parent[f] \in on}
Rows(p) == Effective(server[p])

\* A fetch of one entry; a later one of the same entry replaces it.
Load(w, p) == {q \in w : ~(q.op = "list" /\ q.ids = {p})} \cup {[Fetch EXCEPT !.ids = {p}]}

Init ==
  /\ server = [p \in Places |-> Features]
  /\ shown = [p \in Places |-> None]
  /\ \E p \in Places :
       /\ wire = Load({}, p)
       /\ ui = [place |-> p, pending |-> {}, confirm |-> FALSE, applying |-> FALSE, stale |-> {},
                busy |-> {}, doubt |-> FALSE]

\* A chosen facility shows what the cache has and is fetched again, unless SWR did so within
\* the last seconds.  Bound: no more than MaxWrites fetches are out when that happens.
Choose(p) ==
  /\ ~ui.confirm /\ p # ui.place /\ Cardinality(Pending("list")) < MaxWrites
  /\ ui' = [ui EXCEPT !.place = p, !.stale = @ \ {p}] /\ wire' = Load(wire, p)
  /\ UNCHANGED <<server, shown>>
ChooseDeduped(p) ==
  ~ui.confirm /\ p # ui.place /\ shown[p] # None /\ Shows([ui EXCEPT !.place = p])

Loading == shown[ui.place] = None /\ \E q \in Pending("list") : q.ids = {ui.place}
Enabled(f) == shown[ui.place] # None /\ f \in shown[ui.place]

\* handleToggle: one feature at a time, to the opposite of what is shown.
MayToggle == ~Loading /\ ui.pending = {}
Toggle(f) ==
  /\ MayToggle /\ ~ui.confirm /\ MaySend("toggle")
  /\ f \in Subs => Enabled(Parent[f])
  /\ ui' = [ui EXCEPT !.pending = {f}]
  /\ wire' = wire \cup {[Request("toggle", {f}) EXCEPT !.rows = [place |-> ui.place, on |-> ~Enabled(f)]]}
  /\ UNCHANGED <<server, shown>>

\* The dialog can be left by its cross while it applies.
OpenConfirm == ui.pending = {} /\ ~ui.confirm /\ Shows([ui EXCEPT !.confirm = TRUE])
CloseConfirm == ui.confirm /\ Shows([ui EXCEPT !.confirm = FALSE])
ApplyAll ==
  /\ ui.confirm /\ ~ui.applying /\ ui.pending = {} /\ MaySend("apply") /\ ui' = [ui EXCEPT !.applying = TRUE]
  /\ wire' = wire \cup {Request("apply", {ui.place})} /\ UNCHANGED <<server, shown>>

\* UpsertFacilityFeatureFlag: no sub-feature is switched on under a parent that is off.
ServeToggle(q) ==
  \E f \in q.ids : LET p == q.rows.place IN
    /\ q.op = "toggle"
    /\ f \in Subs /\ q.rows.on => Parent[f] \in Effective(server[p])
    /\ Served(q, [server EXCEPT ![p] = IF q.rows.on THEN @ \cup {f} ELSE @ \ {f}])
\* ApplyFacilityFeaturesToAll: the effective features become the others' own.
ServeApply(q) ==
  q.op = "apply" /\ \E p \in q.ids : Served(q, [x \in Places |-> IF x = p THEN server[x] ELSE Effective(server[p])])
ServeList(p) ==
  \E q \in Pending("list") :
    /\ q.status = "sent" /\ q.ids = {p}
    /\ wire' = (wire \ {q}) \cup {[q EXCEPT !.status = "done", !.rows = Rows(p)]}
    /\ UNCHANGED <<server, shown, ui>>
\* An error keeps the entry as it is.
Arrives(p) ==
  \E q \in Pending("list") :
    /\ q.ids = {p} /\ wire' = wire \ {q} /\ UNCHANGED server
    /\ \/ q.status = "done" /\ shown' = [shown EXCEPT ![p] = q.rows] /\ UNCHANGED ui
       \/ UNCHANGED shown /\ ui' = [ui EXCEPT !.stale = @ \cup {p}]
Serve(q) == q \in Writes /\ (ServeToggle(q) \/ ServeApply(q))

\* mutateDetail is that of the facility chosen by now: another one's entry is left as it is.
Mutated(w) == Load(w, ui.place)
Untouched(q) == (IF q.op = "toggle" THEN {q.rows.place} ELSE Places) \ {ui.place}
Succeeds(q) ==
  /\ Answered(q) /\ wire' = Mutated(wire \ {q}) /\ UNCHANGED <<server, shown>>
  /\ ui' = [ui EXCEPT !.pending = IF q.op = "toggle" THEN {} ELSE @,
                      !.applying = IF q.op = "apply" THEN FALSE ELSE @,
                      !.confirm = @ /\ q.op # "apply",
                      !.stale = (@ \ {ui.place}) \cup Untouched(q)]
FailsHere(q) ==
  /\ q \in Writes /\ wire' = wire \ {q} /\ UNCHANGED <<server, shown>>
  /\ ui' = [ui EXCEPT !.pending = IF q.op = "toggle" THEN {} ELSE @,
                      !.applying = IF q.op = "apply" THEN FALSE ELSE @,
                      !.stale = @ \cup IF q.status # "sent" THEN Places ELSE {}]

Next ==
  \/ \E p \in Places : Choose(p) \/ ChooseDeduped(p)
  \/ \E f \in Features : Toggle(f)
  \/ OpenConfirm \/ CloseConfirm \/ ApplyAll \/ (\E p \in Places : ServeList(p) \/ Arrives(p))
  \/ \E q \in wire : Serve(q) \/ Succeeds(q) \/ FailsHere(q)

NoDoubleSubmit == Single({"toggle", "apply"})

\* With nothing under way, the switches of the chosen facility are what counts there, unless
\* it was left before an answer or a fetch failed.
QuietIsFresh ==
  wire = {} /\ ui.place \notin ui.stale => shown[ui.place] = Rows(ui.place)
=============================================================================

----------------------------- MODULE ProviderUsers -----------------------------
(***************************************************************************)
(* Reconciling the users of Canvas with the residents.  The server         *)
(* proposes matches; what the administrator confirms stays pending in the  *)
(* page until it is applied.  The matches and the linked residents are two *)
(* lists, fetched separately, from which the page derives its sections.    *)
(***************************************************************************)
EXTENDS Screen

CONSTANTS
  Canvas,     \* users of Canvas
  Residents,  \* residents there are or may be
  Score       \* [Canvas \X Residents -> 0..100]: NameSimilarity

LinkedOf(links) == {l[2] : l \in links}

\* MatchUsers: the best pair first, nobody twice, nothing below 50; from 90 without review.
Better(p, q) == Score[p] > Score[q]
Best(P) == CHOOSE p \in P : \A q \in P : ~Better(q, p)
Greedy[P \in SUBSET (Canvas \X Residents)] ==
  IF P = {} THEN {}
  ELSE LET b == Best(P) IN {b} \cup Greedy[{p \in P : p[1] # b[1] /\ p[2] # b[2]}]
MatchUsers(s) ==
  LET free == {c \in Canvas : \A l \in s.links : l[1] # c}
      m == Greedy[{p \in free \X (s.people \ LinkedOf(s.links)) : Score[p] >= 50}]
  IN  [auto |-> {p \in m : Score[p] >= 90}, review |-> {p \in m : Score[p] < 90},
       unmatched |-> free \ {p[1] : p \in m}]

NoMatches == [auto |-> {}, review |-> {}, unmatched |-> {}]

-----------------------------------------------------------------------------
\* The two lists of the page, and their fetches.
Lists == {"match", "mapped"}
Asked(l) == [op |-> l, ids |-> {}, nth |-> 0, status |-> "sent", rows |-> None]
Posts == {q \in wire : q.op \notin Lists}
Both(w) == {q \in w : q.op \notin Lists} \cup {Asked(l) : l \in Lists}
NoLists == [match |-> NoMatches, mapped |-> {}]
Read(l, s) == IF l = "match" THEN MatchUsers(s) ELSE LinkedOf(s.links)

Refresh == ui.dialog = "none" /\ wire' = {q \in wire : q.op # "match"} \cup {Asked("match")}
           /\ UNCHANGED <<server, shown, ui>>

ListRead(q) ==
  /\ q.op \in Lists /\ q.status = "sent"
  /\ wire' = (wire \ {q}) \cup {[q EXCEPT !.status = "done", !.rows = Read(q.op, server)]}
  /\ UNCHANGED <<server, shown, ui>>
ListShown(q) ==
  /\ q.op \in Lists /\ q.status = "done" /\ wire' = wire \ {q}
  /\ shown' = [shown EXCEPT ![q.op] = q.rows] /\ UNCHANGED <<server, ui>>

-----------------------------------------------------------------------------
\* deriveReconciliationState.  Nothing in the page demotes a match or queues a creation.
AutoRows == {p \in shown.match.auto : p[1] \notin ui.confirmed /\ p[2] \notin shown.mapped}
ReviewRows == {p \in shown.match.review : ui.chosen[p[1]] = None}
PendingLinks ==
  {p \in shown.match.auto : p[1] \in ui.confirmed /\ p[2] \notin shown.mapped} \cup
  {<<p[1], ui.chosen[p[1]]>> :
     p \in {p \in shown.match.review : ui.chosen[p[1]] \notin shown.mapped \cup {None}}}

\* The body of handleApplyMatches.  A confirmation is kept by the Canvas user alone: it passes
\* on to whomever a later list suggests for that user.
ToApply ==
  {p \in shown.match.auto : p[1] \in ui.confirmed} \cup
  {<<p[1], ui.chosen[p[1]]>> : p \in {p \in shown.match.review : ui.chosen[p[1]] # None}}

Init ==
  /\ \E r \in Residents : server = [links |-> {}, people |-> Residents \ {r}]
  /\ shown = NoLists /\ wire = Both({})
  /\ ui = [confirmed |-> {}, chosen |-> [c \in Canvas |-> None], dialog |-> "none",
           item |-> None, picked |-> None, review |-> FALSE, busy |-> {}, doubt |-> FALSE]

Idle == ui.dialog = "none"

\* confirmAutoMatch, handleConfirmAllAuto and the "Undo" of the toast, which is there for a
\* while whatever happens; handleCancelPendingLink waits for an apply.
ConfirmAuto(p) == Idle /\ p \in AutoRows /\ Shows([ui EXCEPT !.confirmed = @ \cup {p[1]}])
ConfirmAllAuto ==
  Idle /\ AutoRows # {} /\ Shows([ui EXCEPT !.confirmed = @ \cup {p[1] : p \in AutoRows}])
ConfirmReview(p) == Idle /\ p \in ReviewRows /\ Shows([ui EXCEPT !.chosen[p[1]] = p[2]])
ConfirmAllReview ==
  /\ Idle /\ ReviewRows # {}
  /\ Shows([ui EXCEPT !.chosen =
       [c \in Canvas |-> IF \E p \in ReviewRows : p[1] = c
                         THEN (CHOOSE p \in ReviewRows : p[1] = c)[2] ELSE @[c]]])
Withdraw(c) ==
  /\ Idle /\ (c \in ui.confirmed \/ ui.chosen[c] # None)
  /\ Shows([ui EXCEPT !.confirmed = @ \ {c}, !.chosen[c] = None])

\* requestApplyMatches, and handleApplyMatches behind its confirmation.
RequestApply ==
  /\ Idle /\ PendingLinks # {} /\ "apply" \notin ui.busy
  /\ Shows([ui EXCEPT !.dialog = "apply"])
ApplyMatches ==
  /\ ui.dialog = "apply" /\ PendingLinks # {} /\ MaySend("apply")
  /\ ui' = [Submitted(ui, "apply") EXCEPT !.dialog = "none"]
  /\ wire' = wire \cup {Request("apply", ToApply)} /\ UNCHANGED <<server, shown>>

\* openMapModal: any Canvas user of any section; the modal offers residents that are neither
\* linked nor pending.
OpenMap(c) ==
  /\ Idle
  /\ \/ (\E p \in AutoRows : p[1] = c) \/ c \in shown.match.unmatched
     \/ (\E p \in ReviewRows : p[1] = c)
  /\ Shows([ui EXCEPT !.dialog = "map", !.item = c, !.picked = None,
                      !.review = \E p \in ReviewRows : p[1] = c])
Pick(r) ==
  /\ ui.dialog = "map" /\ ui.picked # r
  /\ r \in server.people \ (LinkedOf(server.links) \cup LinkedOf(PendingLinks))
  /\ Shows([ui EXCEPT !.picked = r])
\* handleMapUser remembers the section it was opened from ("rows" of the request).
MapUser ==
  /\ ui.dialog = "map" /\ ui.picked # None /\ "map" \notin ui.busy /\ MaySend("map")
  /\ ui' = Submitted(ui, "map") /\ UNCHANGED <<server, shown>>
  /\ wire' = wire \cup {[Request("map", {<<ui.item, ui.picked>>}) EXCEPT !.rows = ui.review]}

OpenUnlink(r) ==
  /\ Idle /\ r \in shown.mapped /\ Shows([ui EXCEPT !.dialog = "unlink", !.item = r])
\* The confirmation closes with the click.
UnlinkUser ==
  /\ ui.dialog = "unlink" /\ MaySend("unlink")
  /\ ui' = [ui EXCEPT !.dialog = "none", !.item = None]
  /\ wire' = wire \cup {Request("unlink", {<<None, ui.item>>})} /\ UNCHANGED <<server, shown>>

\* openCreateResidentDialog; once the account exists handleResidentCreated links it to the
\* Canvas user the dialog was opened for.
OpenCreate(c) ==
  /\ Idle
  /\ \/ (\E p \in AutoRows \cup ReviewRows : p[1] = c) \/ c \in shown.match.unmatched
  /\ Shows([ui EXCEPT !.dialog = "create", !.item = c])
CreateResident(r) == ui.dialog = "create" /\ Send("create", {<<ui.item, r>>})

Close == ui.dialog # "none" /\ Shows([ui EXCEPT !.dialog = "none", !.item = None, !.picked = None])

-----------------------------------------------------------------------------
\* handleApplyMatches of the server: a resident who has a link is counted as applied; any of
\* the others may fail.
Applied(links, pairs) ==
  links \cup {CHOOSE p \in pairs : p[2] = r : r \in LinkedOf(pairs) \ LinkedOf(links)}

Serve(q) ==
  /\ q \in Posts /\ q.status = "sent" /\ UNCHANGED <<shown, ui>>
  /\ \/ /\ q.op = "apply"
        /\ \E ok \in SUBSET q.ids :
             /\ server' = [server EXCEPT !.links = Applied(@, ok)]
             /\ wire' = Becomes(q, IF ok = q.ids THEN "done" ELSE "part")
     \/ /\ q.op \in {"map", "link"}
        /\ server' = [server EXCEPT !.links = @ \cup q.ids] /\ wire' = Becomes(q, "done")
     \/ /\ q.op = "unlink" /\ wire' = Becomes(q, "done")
        /\ server' = [server EXCEPT !.links = {l \in @ : l[2] \notin LinkedOf(q.ids)}]
     \/ /\ q.op = "create" /\ LinkedOf(q.ids) \cap server.people = {}
        /\ server' = [server EXCEPT !.people = @ \cup LinkedOf(q.ids)] /\ wire' = Becomes(q, "done")

SettledAs(q, u) ==
  ui' = [Doubtless(u) EXCEPT !.busy = @ \ {q.op}] /\ wire' = Both(wire \ {q})
  /\ UNCHANGED <<server, shown>>
Shut(u, d) == IF u.dialog = d THEN [u EXCEPT !.dialog = "none", !.item = None, !.picked = None] ELSE u

\* A complete apply forgets every decision, also those made while it was under way.
ApplyAnswered(q) ==
  SettledAs(q, IF q.status = "part" THEN ui
               ELSE [ui EXCEPT !.confirmed = {}, !.chosen = [c \in Canvas |-> None]])
MapAnswered(q) ==
  LET c == (CHOOSE p \in q.ids : TRUE)[1]
  IN  SettledAs(q, Shut(IF q.rows THEN [ui EXCEPT !.chosen[c] = None] ELSE ui, "map"))
CreateAnswered(q) ==
  /\ ui' = [Shut(ui, "create") EXCEPT !.busy = @ \ {q.op}]
  /\ wire' = (wire \ {q}) \cup {Request("link", q.ids)} /\ UNCHANGED <<server, shown>>

Succeeds(q) ==
  /\ q \in Posts /\ q.status \in {"done", "part"}
  /\ CASE q.op = "apply" -> ApplyAnswered(q)
       [] q.op = "map" -> MapAnswered(q)
       [] q.op = "unlink" -> SettledAs(q, Shut(ui, "unlink"))
       [] q.op = "create" -> CreateAnswered(q)
       [] OTHER -> SettledAs(q, ui)  \* the link of a new resident

\* A failed link of a new resident fetches the lists all the same.
FailsHere(q) ==
  /\ q \in Posts
  /\ IF q.op = "link" THEN SettledAs(q, ui)
     ELSE /\ ui' = [ui EXCEPT !.busy = @ \ {q.op}, !.doubt = @ \/ q.status # "sent"]
          /\ wire' = wire \ {q} /\ UNCHANGED <<server, shown>>

Next ==
  \/ Refresh \/ ConfirmAllAuto \/ ConfirmAllReview \/ RequestApply \/ ApplyMatches
  \/ MapUser \/ UnlinkUser \/ Close
  \/ \E c \in Canvas : Withdraw(c) \/ OpenMap(c) \/ OpenCreate(c)
  \/ \E r \in Residents : Pick(r) \/ OpenUnlink(r) \/ CreateResident(r)
  \/ \E p \in Canvas \X Residents : ConfirmAuto(p) \/ ConfirmReview(p)
  \/ \E q \in wire : ListRead(q) \/ ListShown(q) \/ Serve(q) \/ Succeeds(q) \/ FailsHere(q)

NoDoubleSubmit == Single({"apply", "map", "create"})

\* When all is answered, both lists are what the server would say now.
QuietIsFresh ==
  wire = {} /\ ~ui.doubt => \A l \in Lists : shown[l] = Read(l, server)
=============================================================================

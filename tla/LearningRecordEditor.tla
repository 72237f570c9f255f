------------------------- MODULE LearningRecordEditor -------------------------
(***************************************************************************)
(* The funnel editor of a resident's learning record: one achievement per  *)
(* visit, saved 500 ms after the last keystroke and once more by Finish,   *)
(* all saves of a visit one after the other.  A save may be answered, be   *)
(* refused, or be given up by the client after its timeout while it still  *)
(* travels; a page that is left leaves its requests behind.                *)
(***************************************************************************)
EXTENDS Naturals, Sequences, FiniteSets

CONSTANTS
  Ids,        \* client ids (UUIDs) of achievements
  Contents,   \* what an achievement may say
  Blank,      \* no question answered
  Complete,   \* the contents with every question answered
  None,       \* no row, no content
  MaxStrays,  \* bound: requests that nobody waits for any more
  MaxQueue    \* bound: saves waiting or on the wire

EditorAssumption ==
  /\ Blank \in Contents /\ Complete \subseteq Contents \ {Blank}
  /\ None \notin Contents \cup Ids
  /\ MaxStrays \in Nat /\ MaxQueue \in 1..2

VARIABLES
  server,    \* learning_record_entries: content of each row, None without one
  used,      \* ids ever given to an achievement
  stored,    \* the entry session in localStorage: id and content, or None
  open,      \* the achievement on the entry page; None on any other page
  entries,   \* useTranscriptDraft: what the page believes is committed
  known,     \* entryBackendIds: achievements the page will PUT, not POST
  shown,     \* session.rows[0]: what is on the screen
  timer,     \* the 500 ms autosave is scheduled
  saves,     \* persistQueueRef: saves in their order, the first is on the wire
  written,   \* lastWrittenRef: the last content confirmed to this visit
  label,     \* the autosave label
  finishing, \* finishInFlightRef
  completed, \* achievements whose completion was reported (entryCompleted)
  strays,    \* requests on the wire that no page waits for
  typed,     \* what the resident typed last before Finish (in no variable of the code)
  doubt      \* rows the page cannot know the state of (in no variable of the code)

page == <<open, entries, known, shown, timer, saves, written, label, finishing, typed>>
vars == <<server, used, stored, page, completed, strays, doubt>>

Request == [id : Ids, content : Contents, create : BOOLEAN, next : Contents \cup {None}]
Save == [kind : {"auto", "finish"}, latest : BOOLEAN, seen : Contents \cup {None},
         sent : BOOLEAN, content : Contents \cup {None}, create : BOOLEAN]

-----------------------------------------------------------------------------
\* No achievement is open: the page is not mounted.
Closed ==
  /\ open' = None /\ entries' = [i \in Ids |-> None] /\ known' = {} /\ shown' = None
  /\ timer' = FALSE /\ saves' = <<>> /\ written' = None /\ label' = "idle"
  /\ finishing' = FALSE /\ typed' = None

Init ==
  /\ server = [i \in Ids |-> None] /\ used = {} /\ stored = None
  /\ open = None /\ entries = [i \in Ids |-> None] /\ known = {} /\ shown = None
  /\ timer = FALSE /\ saves = <<>> /\ written = None /\ label = "idle"
  /\ finishing = FALSE /\ completed = {} /\ strays = {} /\ typed = None /\ doubt = {}

\* resolveInitialEntrySession: the content a row starts with, the committed one first.
StartContent(id, fetched) ==
  IF fetched[id] # None THEN fetched[id]
  ELSE IF stored # None /\ stored.id = id THEN stored.content ELSE Blank

\* findReusableBlankDraftRow: a stored row without answers that was never committed.
Reusable(fetched) ==
  IF stored # None /\ fetched[stored.id] = None /\ stored.content = Blank THEN {stored.id} ELSE {}

Fresh == Ids \ used

\* ensureDraftEditorOpen: "Add achievement" reopens a blank row or makes a new one.
NewRow(fetched) == IF Reusable(fetched) # {} THEN Reusable(fetched) ELSE Fresh

\* toFunnelSingleRowSession without a parameter: the row open last, the newest, or a new one.
LastRow(fetched) ==
  IF stored # None THEN {stored.id}
  ELSE LET committed == {i \in Ids : fetched[i] # None}
       IN  IF committed = {} THEN NewRow(fetched) ELSE committed

\* The entry page is opened and hydrated.
Open(id, fetched) ==
  LET content == StartContent(id, fetched)
  IN  /\ open' = id /\ shown' = content /\ typed' = content
      /\ entries' = fetched /\ known' = {i \in Ids : fetched[i] # None}
      /\ used' = used \cup {id} /\ stored' = [id |-> id, content |-> content]
      \* a row that is not committed yet is dirty from the start
      /\ IF fetched[id] = content THEN label' = "saved" /\ timer' = FALSE
                                  ELSE label' = "pending" /\ timer' = TRUE
      /\ saves' = <<>> /\ written' = None /\ finishing' = FALSE

\* apiGetEntries: the rows of the server, or no rows when the request fails.
Fetched == {server, [i \in Ids |-> None]}

OpenEntry ==
  /\ open = None
  /\ \E fetched \in Fetched :
       /\ \E id \in NewRow(fetched) \cup LastRow(fetched) \cup {i \in Ids : fetched[i] # None} :
            Open(id, fetched)
       /\ doubt' = {s.id : s \in strays}
                   \cup {i \in Ids : server[i] # fetched[i]}
  /\ UNCHANGED <<server, completed, strays>>

\* The page is left: its timers end; the request on the wire goes on, and so does the
\* save queued behind it, which writes what was on the screen.
Left(q) ==
  {[id |-> open, content |-> q[n].content, create |-> q[n].create,
    next |-> IF \E m \in DOMAIN q : ~q[m].sent /\ q[m].seen # shown THEN shown ELSE None] :
     n \in {n \in DOMAIN q : q[n].sent}}

Abandon(q) ==
  /\ strays' = strays \cup Left(q)
  /\ doubt' = doubt \cup {s.id : s \in Left(q)}
  /\ Closed

Leave ==
  /\ open # None
  /\ Cardinality(strays \cup Left(saves)) <= MaxStrays
  /\ Abandon(saves)
  /\ UNCHANGED <<server, used, stored, completed>>

\* 400 ms after the last change the session is written to localStorage.
StoreSession ==
  /\ open # None
  /\ stored' = [id |-> open, content |-> shown]
  /\ UNCHANGED <<server, used, page, completed, strays, doubt>>

-----------------------------------------------------------------------------
\* nextSaveTicket: every save started before no longer owns the label.
Overtaken(q) == [n \in DOMAIN q |-> [q[n] EXCEPT !.latest = FALSE]]

\* The autosave effect after a change of the session or of the entries.  Its cleanup
\* has cancelled the timer; a row the page believes committed schedules none.
AutosaveEffect(content, committed, q) ==
  IF content = committed THEN timer' = FALSE /\ saves' = q /\ UNCHANGED label
                         ELSE timer' = TRUE /\ saves' = Overtaken(q) /\ label' = "pending"

\* patchRow
Edit(content) ==
  /\ open # None /\ content # shown
  /\ shown' = content /\ typed' = (IF finishing THEN typed ELSE content)
  /\ AutosaveEffect(content, entries[open], saves)
  /\ UNCHANGED <<server, used, stored, open, entries, known, written, finishing,
                 completed, strays, doubt>>

\* writeActiveRow finds the row written already, as far as it can see.
Skips(save, content, last) == content \in {save.seen, last}

\* Mutant of MayBegin: no queue, every save goes out at once.
MayBeginM(place) == TRUE
\* persistActiveRow: whether a save in this place of the queue may begin.
MayBegin(place) == place = 1

Begun(save, content, isKnown) ==
  [save EXCEPT !.sent = TRUE, !.content = content, !.create = ~isKnown]

\* A save is appended and begins when its turn has come.
Enqueued(q, kind) ==
  LET save == [kind |-> kind, latest |-> TRUE, seen |-> entries[open],
               sent |-> FALSE, content |-> None, create |-> FALSE]
  IN  IF MayBegin(Len(q) + 1) THEN Append(q, Begun(save, shown, open \in known))
                              ELSE Append(q, save)

NothingToWrite(q) == MayBegin(Len(q) + 1) /\ shown \in {entries[open], written}

\* The debounce timer fires.
TimerFires ==
  /\ timer /\ Len(saves) < MaxQueue
  /\ timer' = FALSE
  /\ IF NothingToWrite(saves) THEN label' = "saved" /\ UNCHANGED saves
                              ELSE label' = "saving" /\ saves' = Enqueued(saves, "auto")
  /\ UNCHANGED <<server, used, stored, open, entries, known, shown, written,
                 finishing, completed, strays, typed, doubt>>

\* validateFinishRequirements up to its first await; an incomplete row changes nothing.
Finish ==
  /\ open # None /\ ~finishing /\ shown \in Complete /\ Len(saves) < MaxQueue
  /\ IF NothingToWrite(saves)
     THEN Closed /\ completed' = completed \cup {open} /\ UNCHANGED <<strays, doubt>>
     ELSE /\ finishing' = TRUE /\ timer' = FALSE /\ label' = "saving"
          /\ saves' = Enqueued(Overtaken(saves), "finish")
          /\ UNCHANGED <<open, entries, known, shown, written, completed, strays, typed, doubt>>
  /\ UNCHANGED <<server, used, stored>>

-----------------------------------------------------------------------------
\* POST is refused while the client id has a row; PUT of a deleted row changes nothing.
Accepted(request) == ~request.create \/ server[request.id] = None
AfterRequest(request) ==
  IF request.create THEN IF server[request.id] = None
                         THEN [server EXCEPT ![request.id] = request.content] ELSE server
  ELSE IF server[request.id] = None THEN server
       ELSE [server EXCEPT ![request.id] = request.content]

Sent(n) == [id |-> open, content |-> saves[n].content, create |-> saves[n].create, next |-> None]

Without(n) == [m \in 1..(Len(saves) - 1) |-> saves[IF m < n THEN m ELSE m + 1]]

\* When a save is over the next one begins at once, with what is on the screen before React
\* renders again; it is over as well when it finds nothing to write.
NextSkips(rest, last) == rest # <<>> /\ ~rest[1].sent /\ Skips(rest[1], shown, last)
\* Mutant of NextBegun: the queue stops, as if its link did not go on after a failure.
NextBegunM(rest, last, isKnown) == rest
NextBegun(rest, last, isKnown) ==
  IF rest = <<>> \/ rest[1].sent THEN rest
  ELSE IF NextSkips(rest, last) THEN Tail(rest)
  ELSE [rest EXCEPT ![1] = Begun(rest[1], shown, isKnown)]

\* The label after a save n ended, and the next one with it when that skips.
Owns(save) == save.kind = "finish" \/ save.latest
\* Mutant of LabelAfter: a failed write is not told from a successful one.
LabelAfterM(n, ok, last) == IF Owns(saves[n]) THEN "saved" ELSE label
LabelAfter(n, ok, last) ==
  IF NextSkips(Without(n), last) /\ Owns(Without(n)[1]) THEN "saved"
  ELSE IF Owns(saves[n]) THEN IF ok THEN "saved" ELSE "error"
  ELSE label

Finishes(n, ok, last) ==
  \/ ok /\ saves[n].kind = "finish"
  \/ NextSkips(Without(n), last) /\ Without(n)[1].kind = "finish"

\* upsertCommittedEntry resolved: the session row becomes what was saved.
SaveSucceeds(n) ==
  LET content == saves[n].content
      rest == NextBegun(Without(n), content, TRUE)
  IN  /\ open # None /\ n \in DOMAIN saves /\ saves[n].sent
      /\ Accepted(Sent(n))
      /\ server' = AfterRequest(Sent(n))
      /\ IF Finishes(n, TRUE, content) THEN Abandon(rest) /\ completed' = completed \cup {open}
         ELSE /\ entries' = [entries EXCEPT ![open] = content]
              /\ known' = known \cup {open} /\ written' = content
              /\ label' = LabelAfter(n, TRUE, content)
              /\ shown' = content /\ timer' = FALSE /\ saves' = rest
              /\ UNCHANGED <<open, finishing, completed, strays, typed, doubt>>
      /\ UNCHANGED <<used, stored>>

\* It rejected: refused or failed on the server, or not answered within the timeout,
\* in which case the request may still arrive.
SaveFails(n) ==
  LET rest == NextBegun(Without(n), written, open \in known)
  IN  /\ open # None /\ n \in DOMAIN saves /\ saves[n].sent
      /\ \E late \in {{}, {Sent(n)}} :
           /\ late # {} => Cardinality(strays \cup late) <= MaxStrays
           /\ IF Finishes(n, FALSE, written)
              THEN /\ Closed /\ completed' = completed \cup {open}
                   /\ strays' = strays \cup late \cup Left(rest)
                   /\ doubt' = doubt \cup {s.id : s \in late \cup Left(rest)}
              ELSE /\ strays' = strays \cup late
                   /\ doubt' = doubt \cup {s.id : s \in late}
                   /\ saves' = rest /\ label' = LabelAfter(n, FALSE, written)
                   /\ finishing' = (finishing /\ saves[n].kind # "finish")
                   /\ UNCHANGED <<open, entries, known, shown, timer, written, completed, typed>>
      /\ UNCHANGED <<server, used, stored>>

\* A request nobody waits for arrives or is lost; the save queued behind it follows.
Followed(s, ok) ==
  IF s.next = None \/ (ok /\ s.next = s.content) THEN {}
  ELSE {[id |-> s.id, content |-> s.next, create |-> s.create /\ ~ok, next |-> None]}

StrayEnds(s) ==
  /\ \/ server' = AfterRequest(s) /\ strays' = (strays \ {s}) \cup Followed(s, Accepted(s))
     \/ UNCHANGED server /\ strays' = (strays \ {s}) \cup Followed(s, FALSE)
  /\ UNCHANGED <<used, stored, page, completed, doubt>>

\* handleConfirmDelete on the list, confirmed by the server; the stored session is left alone.
Delete(id) ==
  /\ open = None /\ server[id] # None
  /\ server' = [server EXCEPT ![id] = None]
  /\ UNCHANGED <<used, stored, page, completed, strays, doubt>>

-----------------------------------------------------------------------------
Settles == \E n \in DOMAIN saves : SaveSucceeds(n) \/ SaveFails(n)

Next ==
  \/ OpenEntry \/ Leave \/ StoreSession \/ TimerFires \/ Finish \/ Settles
  \/ \E content \in Contents : Edit(content)
  \/ \E s \in strays : StrayEnds(s)
  \/ \E id \in Ids : Delete(id)

Spec == Init /\ [][Next]_vars
\* fetchWithHandling answers or gives up after its timeout.
FairSpec == Spec /\ WF_vars(Settles)

-----------------------------------------------------------------------------
\* Types of all variables.
TypeOK ==
  /\ server \in [Ids -> Contents \cup {None}] /\ entries \in [Ids -> Contents \cup {None}]
  /\ used \subseteq Ids /\ completed \subseteq Ids /\ known \subseteq Ids /\ doubt \subseteq Ids
  /\ stored \in [id : Ids, content : Contents] \cup {None}
  /\ open \in Ids \cup {None}
  /\ {shown, typed} \subseteq (IF open = None THEN {None} ELSE Contents)
  /\ written \in Contents \cup {None}
  /\ timer \in BOOLEAN /\ finishing \in BOOLEAN
  /\ label \in {"idle", "pending", "saving", "saved", "error"}
  /\ saves \in Seq(Save) /\ Len(saves) <= MaxQueue
  /\ strays \subseteq Request

\* The label says "Saved" only when no change waits and no save is under way: a save that was
\* overtaken may not paint over the label of a newer one (the tickets of saveTicketRef).
SavedMeansQuiet == label = "saved" => saves = <<>> /\ ~timer

\* Under "Saved" the screen shows what the server holds, except where an answer was lost or
\* an abandoned request may still arrive (upsertCommittedEntry rejects on a failed write).
SavedLabelTrue ==
  label = "saved" /\ open \notin doubt => server[open] = shown

\* No POST is on the wire for an achievement that has a row: two saves of one visit never
\* both create (persistActiveRow's queue).
NoSecondCreate ==
  \A n \in DOMAIN saves :
    saves[n].sent /\ saves[n].create /\ open \notin doubt => server[open] = None

\* Finish comes to an end, whatever the saves queued before it do.
FinishEnds == finishing ~> ~finishing

\* A completion is reported only for an achievement the server holds as the resident typed it
\* before Finish: Finish flushes the debounced save, or a last-second edit would be lost.
FinishKeepsLastEdit == [][\A i \in completed' \ completed : server'[i] = typed]_vars
=============================================================================
